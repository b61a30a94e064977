----------------------------- MODULE UartResponse -----------------------------
(***************************************************************************)
(* devkit/src/devkit_uart_producer.c, the transmitting half: what a        *)
(* response is made of, how long it is, and that one which does not fit    *)
(* the stack buffer is not sent at all.  Text is modelled by its length;   *)
(* an accelerometer value by the sign and the two numbers printed.         *)
(***************************************************************************)
EXTENDS Integers

CONSTANTS BufSize,     \* sizeof(buf), 96
          MaxDigits,   \* digits of the largest counter, 10
          Scale,       \* the fractional part counts 1/Scale, a millionth in the code
          MaxWhole     \* bound on the whole part of a sensor value

Commands == {"a", "?", "v", "l", "t", "d", "x"}
NameLength == [IDLE |-> 4, ARMED |-> 5, ACTIVE |-> 6]
Counters == {"transitions", "button", "uart", "ignored"}

VARIABLES command, state, digits,   \* what is answered, the digits each counter has
          value,                    \* the sensor value it reports, if any
          sent                      \* "not yet", else whether it was sent

responseVars == <<command, state, digits, value, sent>>

\* A struct sensor_value: both parts carry the sign.
SensorValues == {v \in [val1 : -MaxWhole .. MaxWhole, val2 : 1 - Scale .. Scale - 1] :
                   v.val1 * v.val2 >= 0}

\* Transitions and ignored bytes are counted along with the inputs that cause them.
Init == /\ command \in Commands
        /\ state \in DOMAIN NameLength
        /\ digits \in [Counters -> 1 .. MaxDigits]
        /\ digits["ignored"] <= digits["uart"]
        /\ digits["transitions"] <= (IF digits["uart"] > digits["button"]
                                       THEN digits["uart"] ELSE digits["button"]) + 1
        /\ command # "?" => \A c \in Counters : digits[c] = 1
        /\ value \in SensorValues
        /\ command # "t" => value = [val1 |-> 0, val2 |-> 0]
        /\ sent = "not yet"

Abs(n) == IF n < 0 THEN -n ELSE n

\* Slip: the sign is taken from the whole part only.
FormatWholeSign(v) == [negative |-> v.val1 < 0, whole |-> Abs(v.val1), fraction |-> Abs(v.val2)]

\* devkit_accel_format_value.
Format(v) == [negative |-> v.val1 < 0 \/ (v.val1 = 0 /\ v.val2 < 0),
              whole |-> Abs(v.val1), fraction |-> Abs(v.val2)]

\* The longest texts of the fixed formats, the exact one where counters vary; the
\* version line with the board and the 500 ms tick this application is built with.
ResponseLength ==
  CASE command = "a" -> 23 + NameLength[state]
    [] command = "?" -> 50 + NameLength[state] + digits["transitions"] + digits["button"]
                           + digits["uart"] + digits["ignored"]
    [] command = "v" -> 77
    [] command = "l" -> 39 + NameLength[state]
    [] command = "t" -> 68
    [] command = "d" -> 24 + NameLength[state]
    [] OTHER         -> 30 + NameLength[state]

\* Slip: room for the terminator is forgotten on top of the strict comparison.
EmitShort == /\ sent = "not yet"
             /\ sent' = IF ResponseLength > 0 /\ ResponseLength + 1 < BufSize THEN "yes" ELSE "no"
             /\ UNCHANGED <<command, state, digits, value>>

\* snprintf returns the length the text would have.
Emit == /\ sent = "not yet"
        /\ sent' = IF ResponseLength > 0 /\ ResponseLength < BufSize THEN "yes" ELSE "no"
        /\ UNCHANGED <<command, state, digits, value>>

Next == Emit

-----------------------------------------------------------------------------
\* What a reader of the line takes a printed value for.
Reads(t) == (IF t.negative THEN -1 ELSE 1) * (t.whole * Scale + t.fraction)

\* The host is left without an answer in one single case, the status query in
\* state ACTIVE when each of the four counters has all its digits; and a value
\* of the accelerometer reads back as what the sensor gave, also between -1
\* and 0, where the whole part cannot carry the sign.
ResponseFaithful ==
  /\ sent = "no" => command = "?" /\ state = "ACTIVE" /\ \A c \in Counters : digits[c] = MaxDigits
  /\ Reads(Format(value)) = value.val1 * Scale + value.val2
=============================================================================
