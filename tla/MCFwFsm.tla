------------------------------- MODULE MCFwFsm -------------------------------
(* FwFsm on a small table: a guarded row with a fallback, a row that an     *)
(* unguarded one shadows, a guarded self-loop and a pair no row is for.     *)
EXTENDS FwFsm

Row(from, event, guarded, to) ==
  [from |-> from, event |-> event, guarded |-> guarded, to |-> to]

SmallTable == << Row("s1", "a", TRUE,  "s2"),
                 Row("s1", "a", FALSE, "s3"),
                 Row("s1", "a", FALSE, "s1"),
                 Row("s3", "b", FALSE, "s1"),
                 Row("s2", "b", TRUE,  "s3"),
                 Row("s2", "b", TRUE,  "s1"),
                 Row("s2", "a", TRUE,  "s2") >>
=============================================================================
