--------------------------- MODULE MCMotionPipeline ---------------------------
EXTENDS MotionPipeline
MCTargets == {-3, 5, 6}
=============================================================================
