-------------------------- MODULE DevkitApp_proofs --------------------------
(***************************************************************************)
(* Proofs about the button producer on its own, for every debounce window, *)
(* every width of the clock and any uptime, and about the UART's responses *)
(* for every size of the buffer.                                           *)
(***************************************************************************)
EXTENDS MCDevkitApp, Arithmetic_proofs

-----------------------------------------------------------------------------
(* The button producer *)

ButtonFields == {"attempted", "ok", "full", "debounce", "other", "last_accepted_ms", "seq",
                 "handled"}

\* The time stored for the last press that passed is its real time as the clock
\* shows it; it is 0 before the first.
StoredTime ==
  /\ accepted_at.last = -1 => btn.last_accepted_ms = 0 /\ accepted_at.previous = -1
  /\ accepted_at.last >= 0 => btn.last_accepted_ms = accepted_at.last % ClockWidth

\* The inductive invariant of the debounce.
DebounceInv ==
  /\ uptime \in Nat
  /\ btn \in [ButtonFields -> Nat]
  /\ accepted_at \in [previous : Nat \cup {-1}, last : Nat \cup {-1}]
  /\ accepted_at.last <= uptime
  /\ StoredTime
  /\ PassesAreApart

\* What the guard measures is the real time since the last press that passed,
\* modulo the clock.
LEMMA WindowMeasures ==
  ASSUME DebounceInv, accepted_at.last >= 0
  PROVE  /\ uptime - accepted_at.last \in Nat
         /\ TooSoon <=> (uptime - accepted_at.last) % ClockWidth < Debounce
<1> DEFINE last == accepted_at.last
           w == ClockWidth
           d == uptime - last
<1>1. w \in Nat \ {0} /\ uptime \in Nat /\ last \in Nat /\ last <= uptime
  BY ButtonAssumption DEF DebounceInv
<1>2. btn.last_accepted_ms = last % w
  BY DEF DebounceInv, StoredTime
<1> HIDE DEF last, w
<1>3. last \in Int /\ uptime \in Int /\ 0 - last \in Int /\ d \in Nat
  BY <1>1
<1>4. ((uptime % w) - (last % w)) % w = ((uptime % w) - last) % w
  <2>1. uptime % w \in Int
    BY <1>1, <1>3, Division
  <2>2. QED
    BY <1>1, <1>3, <2>1, RemainderOfDifference
<1>5. ((uptime % w) - last) % w = (uptime - last) % w
  <2>1. uptime % w \in Int
    BY <1>1, <1>3, Division
  <2>2. ((uptime % w) + (0 - last)) % w = (uptime + (0 - last)) % w
    BY <1>1, <1>3, RemainderOfSum
  <2>3. (uptime % w) + (0 - last) = (uptime % w) - last /\ uptime + (0 - last) = uptime - last
    BY <1>1, <2>1
  <2>4. QED
    BY <2>2, <2>3
<1>6. TooSoon <=> ((uptime % w) - (last % w)) % w < Debounce
  BY <1>2 DEF TooSoon, Clock, w
<1>7. QED
  BY <1>3, <1>4, <1>5, <1>6 DEF last, w

\* A press that passes is a window after the last; one that is filtered is not,
\* or the clock has come around.
LEMMA DebounceStep ==
  ASSUME DebounceInv, [Next]_buttonVars
  PROVE  DebounceInv' /\ [PassesAreApart' /\ FilterOnlyBounces]_buttonVars
<1> DEFINE last == accepted_at.last
           d == uptime - last
<1>1. /\ ClockWidth \in Nat \ {0} /\ Debounce \in Nat /\ Debounce < ClockWidth
      /\ uptime \in Nat /\ last \in Nat \cup {-1} /\ last <= uptime
      /\ btn.debounce \in Nat
  BY ButtonAssumption DEF DebounceInv, ButtonFields
<1>2. CASE UNCHANGED buttonVars
  BY <1>2 DEF buttonVars, DebounceInv, StoredTime, PassesAreApart
<1>3. CASE Elapses
  BY <1>1, <1>3 DEF Elapses, DebounceInv, StoredTime, PassesAreApart, FilterOnlyBounces
<1>4. CASE Bounces
  <2>1. UNCHANGED <<uptime, pending, accepted_at>> /\ TooSoon
    BY <1>4 DEF Bounces, Filter
  <2>2. btn' = [btn EXCEPT !.attempted = @ + 1, !.debounce = @ + 1, !.seq = @ + 1]
    BY <1>4 DEF Bounces, Filter
  <2>3. btn' \in [ButtonFields -> Nat] /\ btn'.last_accepted_ms = btn.last_accepted_ms
    <3>1. btn \in [ButtonFields -> Nat]
      BY DEF DebounceInv
    <3>2. \A f \in ButtonFields : btn[f] \in Nat /\ btn[f] + 1 \in Nat
      BY <3>1
    <3>3. /\ btn' \in [ButtonFields -> Nat]
          /\ btn'["last_accepted_ms"] = btn["last_accepted_ms"]
      BY <2>2, <3>1, <3>2 DEF ButtonFields
    <3>4. QED
      BY <3>3
  <2>4. DebounceInv' /\ PassesAreApart'
    BY <2>1, <2>3 DEF DebounceInv, StoredTime, PassesAreApart
  <2>5. ASSUME last >= 0
        PROVE  d < Debounce \/ d >= ClockWidth
    <3>1. d \in Nat /\ d % ClockWidth < Debounce
      BY <2>1, <2>5, WindowMeasures
    <3>2. d < ClockWidth => d % ClockWidth = d
      <4> HIDE DEF d
      <4>1. ASSUME d < ClockWidth
            PROVE  d % ClockWidth = d
        <5>1. d \in 0 .. ClockWidth - 1 /\ 0 \in Int
          BY <1>1, <3>1, <4>1
        <5>2. (ClockWidth * 0 + d) % ClockWidth = d
          BY <1>1, <5>1, RemainderUnique
        <5>3. ClockWidth * 0 + d = d
          BY <1>1, <3>1
        <5>4. QED
          BY <5>2, <5>3
      <4>2. QED
        BY <4>1
    <3> HIDE DEF d
    <3>3. QED
      BY <1>1, <3>1, <3>2
  <2>6. QED
    BY <2>4, <2>5 DEF FilterOnlyBounces
<1>5. ASSUME NEW r \in {"OK", "FULL", "INVALID_STATE"}, Passes(r)
      PROVE  DebounceInv' /\ PassesAreApart' /\ FilterOnlyBounces
  <2>1. /\ ~ TooSoon /\ uptime' = uptime
        /\ accepted_at' = [previous |-> last, last |-> uptime]
        /\ btn' = [btn EXCEPT !.attempted = @ + 1, !.seq = @ + 1, !.last_accepted_ms = Clock,
                              ![Count(r)] = @ + 1]
    BY <1>5 DEF Passes, Pass
  <2>2. Count(r) \in {"ok", "full", "other"}
    BY DEF Count
  <2>3. Clock \in Nat /\ Clock = uptime % ClockWidth
    <3>1. uptime \in Int
      BY <1>1
    <3>2. uptime % ClockWidth \in 0 .. ClockWidth - 1
      BY <1>1, <3>1, Division
    <3>3. QED
      BY <1>1, <3>2 DEF Clock
  <2> HIDE DEF last
  <2>4. /\ btn' \in [ButtonFields -> Nat] /\ btn'.last_accepted_ms = Clock
        /\ btn'.debounce = btn.debounce
    <3> DEFINE k == Count(r)
    <3>1. btn \in [ButtonFields -> Nat]
      BY DEF DebounceInv
    <3>2. \A f \in ButtonFields : btn[f] \in Nat /\ btn[f] + 1 \in Nat
      BY <3>1
    <3>3. k \in {"ok", "full", "other"} /\ Clock \in Nat
      BY <2>2, <2>3
    <3>4. btn' = [btn EXCEPT !["attempted"] = btn["attempted"] + 1, !["seq"] = btn["seq"] + 1,
                             !["last_accepted_ms"] = Clock, ![k] = btn[k] + 1]
      BY <2>1, <3>1, <3>3 DEF ButtonFields
    <3> HIDE DEF k
    <3>5. \A f \in ButtonFields : btn'[f] = IF f \in {k, "attempted", "seq"} THEN btn[f] + 1
                                   ELSE IF f = "last_accepted_ms" THEN Clock ELSE btn[f]
      BY <3>1, <3>3, <3>4 DEF ButtonFields
    <3>6. btn' \in [ButtonFields -> Nat]
      BY <3>1, <3>2, <3>3, <3>4 DEF ButtonFields
    <3>7. /\ btn'["last_accepted_ms"] = Clock
          /\ btn'["debounce"] = btn["debounce"]
      BY <3>3, <3>5 DEF ButtonFields
    <3>8. QED
      BY <3>6, <3>7
  <2>5. accepted_at'.previous = last /\ accepted_at'.last = uptime
    BY <2>1
  <2>6. PassesAreApart'
    <3>1. CASE last >= 0
      <4>1. d \in Nat /\ ~ (d % ClockWidth < Debounce)
        BY <2>1, <3>1, WindowMeasures DEF last
      <4>2. d % ClockWidth <= d
        BY <1>1, <4>1, RemainderAtMost
      <4>3. d % ClockWidth \in Int
        <5>1. d \in Int
          BY <4>1
        <5>2. QED
          BY <1>1, <5>1, Division
      <4> HIDE DEF d
      <4>4. d >= Debounce
        BY <1>1, <4>1, <4>2, <4>3
      <4>5. QED
        BY <2>5, <4>4 DEF PassesAreApart, d
    <3>2. CASE ~ (last >= 0)
      BY <2>5, <3>2 DEF PassesAreApart
    <3>3. QED
      BY <3>1, <3>2
  <2>7. DebounceInv'
    BY <1>1, <2>1, <2>3, <2>4, <2>5, <2>6 DEF DebounceInv, StoredTime
  <2>8. QED
    BY <1>1, <2>4, <2>6, <2>7 DEF FilterOnlyBounces
<1>6. CASE Handled
  <2>1. /\ UNCHANGED <<uptime, accepted_at>>
        /\ btn' = [btn EXCEPT !.handled = @ + 1]
    BY <1>6 DEF Handled, Handle
  <2>2. /\ btn' \in [ButtonFields -> Nat] /\ btn'.last_accepted_ms = btn.last_accepted_ms
        /\ btn'.debounce = btn.debounce
    BY <2>1 DEF DebounceInv, ButtonFields
  <2>3. QED
    BY <1>1, <2>1, <2>2 DEF DebounceInv, StoredTime, PassesAreApart, FilterOnlyBounces
<1>7. QED
  BY <1>2, <1>3, <1>4, <1>5, <1>6 DEF Next

\* Presses that pass are a full window apart, and only bounces are filtered, or
\* presses an exact turn of the clock later: for every window and clock.
THEOREM DebounceIsExact == Spec => DebounceExact
<1>1. Init => DebounceInv
  BY DEF Init, FreshButton, DebounceInv, ButtonFields, StoredTime, PassesAreApart
<1>2. QED
  BY <1>1, DebounceStep, PTL DEF Spec, DebounceExact

-----------------------------------------------------------------------------
(* The responses *)

\* What is answered, once chosen.
Answering ==
  /\ command \in Response!Commands
  /\ state \in {"IDLE", "ARMED", "ACTIVE"}
  /\ digits \in [Response!Counters -> 1 .. MaxDigits]
  /\ value \in Response!SensorValues

\* A value reads back as it was given, also where only the fraction has a sign.
LEMMA ValuesReadBack ==
  ASSUME Scale \in Nat, MaxWhole \in Nat, NEW v \in Response!SensorValues
  PROVE  Response!Reads(Response!Format(v)) = v.val1 * Scale + v.val2
<1> DEFINE a == v.val1
           b == v.val2
<1>1. a \in Int /\ b \in Int /\ a * b >= 0
  BY DEF Response!SensorValues
<1>2. /\ Response!Format(v).negative = (a < 0 \/ (a = 0 /\ b < 0))
      /\ Response!Format(v).whole = Response!Abs(a)
      /\ Response!Format(v).fraction = Response!Abs(b)
  BY DEF Response!Format
<1> HIDE DEF a, b
<1>3. CASE a < 0 \/ (a = 0 /\ b < 0)
  <2>1. Response!Abs(a) = 0 - a /\ Response!Abs(b) = 0 - b
    BY <1>1, <1>3 DEF Response!Abs
  <2>2. Response!Reads(Response!Format(v)) = (-1) * ((0 - a) * Scale + (0 - b))
    BY <1>2, <1>3, <2>1 DEF Response!Reads
  <2>3. (-1) * ((0 - a) * Scale + (0 - b)) = a * Scale + b
    BY <1>1
  <2>4. QED
    BY <2>2, <2>3 DEF a, b
<1>4. CASE ~ (a < 0 \/ (a = 0 /\ b < 0))
  <2>1. Response!Abs(a) = a /\ Response!Abs(b) = b
    BY <1>1, <1>4 DEF Response!Abs
  <2>2. Response!Reads(Response!Format(v)) = 1 * (a * Scale + b)
    BY <1>2, <1>4, <2>1 DEF Response!Reads
  <2>3. QED
    BY <1>1, <2>2 DEF a, b
<1>5. QED
  BY <1>3, <1>4

\* The status line, in ACTIVE and with all digits, is the one response that can
\* miss a buffer that has room for the fixed texts and for every shorter line.
LEMMA OnlyLongestMisses ==
  ASSUME Answering, MaxDigits \in Nat, BufSize \in Nat, BufSize >= 78,
         BufSize >= 56 + 4 * MaxDigits, ~ (Response!ResponseLength < BufSize)
  PROVE  /\ command = "?" /\ state = "ACTIVE"
         /\ \A c \in Response!Counters : digits[c] = MaxDigits
<1>1. /\ digits["transitions"] \in 1 .. MaxDigits /\ digits["button"] \in 1 .. MaxDigits
      /\ digits["uart"] \in 1 .. MaxDigits /\ digits["ignored"] \in 1 .. MaxDigits
  BY DEF Answering, Response!Counters
<1>2. Response!NameLength[state] \in 4 .. 6 /\ (state # "ACTIVE" => Response!NameLength[state] < 6)
  BY DEF Answering, Response!NameLength
<1>3. command = "?"
  <2>1. ASSUME command # "?"
        PROVE  Response!ResponseLength <= 77
    <3>1. command \in {"a", "v", "l", "t", "d", "x"}
      BY <2>1 DEF Answering, Response!Commands
    <3> DEFINE n == Response!NameLength[state]
    <3>2. n \in Int /\ n <= 6
      BY <1>2
    <3> HIDE DEF n
    <3>3. Response!ResponseLength \in {23 + n, 77, 39 + n, 68, 24 + n, 30 + n}
      BY <3>1 DEF Response!ResponseLength, n
    <3>4. QED
      BY <3>2, <3>3
  <2>2. CASE command # "?"
    <3>1. Response!ResponseLength <= 77 /\ Response!ResponseLength \in Int
      BY <1>2, <2>1, <2>2 DEF Answering, Response!Commands, Response!ResponseLength
    <3>2. QED
      BY <3>1
  <2>3. QED
    BY <2>2
<1>4. Response!ResponseLength
        = 50 + Response!NameLength[state] + digits["transitions"] + digits["button"]
             + digits["uart"] + digits["ignored"]
  BY <1>3 DEF Response!ResponseLength
<1> DEFINE n == Response!NameLength[state]
           t == digits["transitions"]
           b == digits["button"]
           u == digits["uart"]
           i == digits["ignored"]
<1>5. /\ n \in 4 .. 6 /\ t \in 1 .. MaxDigits /\ b \in 1 .. MaxDigits /\ u \in 1 .. MaxDigits
      /\ i \in 1 .. MaxDigits /\ ~ (50 + n + t + b + u + i < BufSize)
  BY <1>1, <1>2, <1>4
<1> HIDE DEF n, t, b, u, i
<1>6. n = 6 /\ t = MaxDigits /\ b = MaxDigits /\ u = MaxDigits /\ i = MaxDigits
  BY <1>5
<1>7. \A c \in Response!Counters : digits[c] = MaxDigits
  BY <1>6 DEF t, b, u, i, Response!Counters
<1>8. state = "ACTIVE"
  BY <1>2, <1>6 DEF n
<1>9. QED
  BY <1>3, <1>7, <1>8

ResponseInv == bench = "response" => Answering /\ Response!ResponseFaithful

\* The host is left without an answer in that one case only, and reads sensor
\* values as they were: for every buffer that fits all but the longest line, as
\* 96 bytes do for counters of 10 digits.
THEOREM ResponsesFaithful ==
  ASSUME Scale \in Nat, MaxWhole \in Nat, MaxDigits \in Nat, BufSize \in Nat,
         BufSize >= 78, BufSize >= 56 + 4 * MaxDigits
  PROVE  MCSpec => []ResponseFaithful
<1>1. MCInit => ResponseInv
  <2> SUFFICES ASSUME MCInit, bench = "response"
               PROVE  Answering /\ Response!ResponseFaithful
    BY DEF ResponseInv
  <2>1. Response!Init
    BY DEF MCInit
  <2>2. Answering
    BY <2>1 DEF Response!Init, Answering, Response!NameLength
  <2>3. sent = "not yet"
    BY <2>1 DEF Response!Init
  <2>4. QED
    BY <2>2, <2>3, ValuesReadBack DEF Answering, Response!ResponseFaithful
<1>2. ASSUME ResponseInv, [AppStep \/ ProbeStep \/ ButtonStep \/ ResponseStep]_<<appVars, bench, buttonVars, responseVars>>
      PROVE  ResponseInv'
  <2>1. CASE UNCHANGED <<bench, responseVars>>
    BY <1>2, <2>1 DEF responseVars, ResponseInv, Answering, Response!ResponseFaithful
  <2>2. CASE ResponseStep
    <3>1. UNCHANGED <<bench, command, state, digits, value>> /\ bench = "response"
      BY <2>2 DEF ResponseStep, Response!Next, Response!Emit
    <3>2. Answering /\ Answering'
      BY <1>2, <3>1 DEF ResponseInv, Answering
    <3>3. sent' = "no" => ~ (Response!ResponseLength > 0 /\ Response!ResponseLength < BufSize)
      BY <2>2 DEF ResponseStep, Response!Next, Response!Emit
    <3>4. Response!ResponseLength > 0
      <4>1. Response!NameLength[state] \in 4 .. 6
        BY <3>2 DEF Answering, Response!NameLength
      <4>2. /\ digits["transitions"] \in 1 .. MaxDigits /\ digits["button"] \in 1 .. MaxDigits
            /\ digits["uart"] \in 1 .. MaxDigits /\ digits["ignored"] \in 1 .. MaxDigits
        BY <3>2 DEF Answering, Response!Counters
      <4>3. QED
        BY <3>2, <4>1, <4>2 DEF Answering, Response!Commands, Response!ResponseLength
    <3>5. sent' = "no" => /\ command = "?" /\ state = "ACTIVE"
                          /\ \A c \in Response!Counters : digits[c] = MaxDigits
      BY <3>2, <3>3, <3>4, OnlyLongestMisses
    <3>6. Response!Reads(Response!Format(value)) = value.val1 * Scale + value.val2
      BY <3>2, ValuesReadBack DEF Answering
    <3>7. QED
      BY <3>1, <3>2, <3>5, <3>6 DEF ResponseInv, Response!ResponseFaithful
  <2>3. QED
    BY <1>2, <2>1, <2>2 DEF AppStep, ProbeStep, ButtonStep
<1>3. ResponseInv => ResponseFaithful
  BY DEF ResponseInv, ResponseFaithful
<1>4. QED
  BY <1>1, <1>2, <1>3, PTL DEF MCSpec
=============================================================================
