---------------------------- MODULE MCBootstrap ----------------------------
(***************************************************************************)
(* GetBootstrap, outside a test, over every pair of environment values   *)
(* of up to two characters drawn from signs, digits and a letter.  Each  *)
(* initial state is one process start; the values do not change.        *)
(***************************************************************************)
EXTENDS Bootstrap, SequencesExt

Chars == {"+", "-", "0", "7", "x"}

EnvValues == UNION {[1..k -> Chars] : k \in 0..2}

VARIABLES str1, str2   \* the two environment variables' values

bootVars == <<str1, str2>>

BootInit == str1 \in EnvValues /\ str2 \in EnvValues

BootNext == UNCHANGED bootVars

-----------------------------------------------------------------------------
\* A decimal numeral: an optional sign and one or more digits.
Numeral(s) ==
    \E k \in 0..1 : /\ Len(s) > k
                    /\ \A i \in 1..k : s[i] \in {"+", "-"}
                    /\ \A i \in k + 1..Len(s) : s[i] \in Digits

\* The integer a numeral spells, as a sum of digit times place value.
Spelled(s) ==
    LET signed == Head(s) \in {"+", "-"}
        ds     == IF signed THEN Tail(s) ELSE s
        mag    == FoldFunctionOnSet(LAMBDA x, y : x + y, 0,
                     [i \in DOMAIN ds |-> DigitValue(ds[i]) * 10^(Len(ds) - i)],
                     DOMAIN ds)
    IN  IF Head(s) = "-" THEN -mag ELSE mag

(***************************************************************************)
(* The contract of GetBootstrap for a normal (non-test) start, from its   *)
(* comments and error messages: no descriptors when neither variable is   *)
(* set, an error when only one is set or one is not an integer, and       *)
(* otherwise exactly the integers the two variables spell.                *)
(***************************************************************************)
BootstrapFromEnvironment ==
    LET result == GetBootstrap([kind |-> "none", b |-> NoBootstrap], str1, str2)
    IN  CASE str1 = << >> /\ str2 = << >> -> result = Ok(NoBootstrap)
          [] str1 # << >> /\ str2 # << >> /\ Numeral(str1) /\ Numeral(str2) ->
                 result = Ok([toWeaveletFd |-> Spelled(str1),
                              toEnvelopeFd |-> Spelled(str2)])
          [] OTHER -> result.err

=============================================================================
