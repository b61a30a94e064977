------------------------------ MODULE ProbedApp ------------------------------
(***************************************************************************)
(* The devkit's application with the probe behind it, and what the two     *)
(* promise whoever drives them: the program of Devkit, or the inputs of    *)
(* MCDevkitApp.                                                            *)
(***************************************************************************)
CONSTANTS Bytes,      \* the bytes the host sends
          MaxInputs,  \* bound on the presses and bytes
          ProbeFails  \* TRUE when the probe adapter's init may fail

VARIABLES up, app, probe_ready, fsm, bridge, answer

appVars == <<up, app, probe_ready, fsm, bridge, answer>>

App == INSTANCE DevkitApp

\* How far the probe may drift from the application whose changes it is sent.
ProbeFollowsApp == App!ProbeFollowsApp
\* The host is told "unchanged" or "ignored" exactly when that was counted.
AnswersMatchCounters == App!AnswersMatchCounters
\* Bridge and machine agree about the events they saw, whoever sends them.
BridgeAndFsmAgree == App!Probe!BridgeAndFsmAgree
\* Only RESET leaves FAULT, only START enters ACTIVE, whoever sends them.
FaultLatched == App!Probe!FaultLatched
=============================================================================
