----------------------------- MODULE MCDevkitApp -----------------------------
(* Four small benches of the devkit's inputs, one behaviour on one of them: *)
(* the devkit application, with a byte of every kind; a harness that calls   *)
(* the probe translator's own interface with every adapter event; the button *)
(* producer on a clock that wraps twice within the bound; and the UART's     *)
(* responses, for counters of every length.                                  *)
EXTENDS ButtonProducer, ProbedApp

CONSTANTS BufSize, MaxDigits, Scale, MaxWhole

VARIABLES bench,   \* which of the four
          command, state, digits, value, sent

Response == INSTANCE UartResponse

responseVars == <<command, state, digits, value, sent>>

NoResponse == /\ command = "a" /\ state = "IDLE" /\ sent = "not yet"
              /\ digits = 1 /\ value = 0

MCInit == /\ Init /\ App!Init
          /\ \/ bench \in {"app", "probe", "button"} /\ NoResponse
             \/ bench = "response" /\ Response!Init

AppStep      == bench = "app" /\ App!Next /\ UNCHANGED <<bench, buttonVars, responseVars>>
ProbeStep    == /\ bench = "probe" /\ App!Probe!Next
                /\ UNCHANGED <<up, app, probe_ready, answer, bench, buttonVars, responseVars>>
ButtonStep   == bench = "button" /\ Next /\ UNCHANGED <<appVars, bench, responseVars>>
ResponseStep == bench = "response" /\ Response!Next /\ UNCHANGED <<appVars, bench, buttonVars>>

MCSpec == /\ MCInit
          /\ [][AppStep \/ ProbeStep \/ ButtonStep \/ ResponseStep]_<<appVars, bench, buttonVars, responseVars>>

\* A response goes unsent in one single case, and sensor values read back.
ResponseFaithful == bench = "response" => Response!ResponseFaithful
=============================================================================
