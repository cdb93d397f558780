------------------------------ MODULE Bootstrap ------------------------------
(***************************************************************************)
(* How a weavelet finds its pipes to the envelope (src/aop/bootstrap.go): *)
(* GetBootstrap and the strconv.Atoi it uses, as pure operators.  An     *)
(* environment variable's value is a sequence of one-character strings;   *)
(* << >> is the unset (empty) variable.                                   *)
(***************************************************************************)
EXTENDS Integers, Sequences

Digits == {"0", "1", "2", "3", "4", "5", "6", "7", "8", "9"}

DigitValue(c) == CHOOSE d \in 0..9 : <<"0", "1", "2", "3", "4", "5", "6", "7",
                                        "8", "9">>[d + 1] = c

\* The Bootstrap struct; 0 is an unset descriptor.
NoBootstrap == [toWeaveletFd |-> 0, toEnvelopeFd |-> 0]

Ok(b)  == [err |-> FALSE, b |-> b]
Err    == [err |-> TRUE,  b |-> NoBootstrap]

(***************************************************************************)
(* strconv.Atoi for short strings: an optional sign, then at least one    *)
(* decimal digit and nothing else; leading zeros are accepted.            *)
(***************************************************************************)
RECURSIVE Decimal(_, _)
Decimal(s, acc) ==
    IF s = << >> THEN acc ELSE Decimal(Tail(s), acc * 10 + DigitValue(Head(s)))

Atoi(s) ==
    LET neg  == s # << >> /\ Head(s) = "-"
        body == IF s # << >> /\ Head(s) \in {"+", "-"} THEN Tail(s) ELSE s
    IN  IF body = << >> \/ \E i \in DOMAIN body : body[i] \notin Digits
        THEN [err |-> TRUE, n |-> 0]
        ELSE [err |-> FALSE, n |-> IF neg THEN -Decimal(body, 0) ELSE Decimal(body, 0)]

\* A plausible bug: || and && swapped in the "both unset" test.
GetBootstrapEitherUnset(ctxVal, str1, str2) ==
    CASE ctxVal.kind = "bootstrap" -> Ok(ctxVal.b)
      [] ctxVal.kind = "other"     -> Err
      [] str1 = << >> \/ str2 = << >> -> Ok(NoBootstrap)
      [] Atoi(str1).err \/ Atoi(str2).err -> Err
      [] OTHER -> Ok([toWeaveletFd |-> Atoi(str1).n, toEnvelopeFd |-> Atoi(str2).n])

(***************************************************************************)
(* GetBootstrap(ctx): the Bootstrap a test put in the context (an error   *)
(* if the context value has another type), else the two descriptors of    *)
(* ENVELOPE_TO_WEAVELET_FD and WEAVELET_TO_ENVELOPE_FD: none if both are  *)
(* unset, an error if one is unset or does not parse.  ctxVal.kind is     *)
(* "none", "bootstrap" or "other".                                        *)
(***************************************************************************)
GetBootstrap(ctxVal, str1, str2) ==
    CASE ctxVal.kind = "bootstrap" -> Ok(ctxVal.b)
      [] ctxVal.kind = "other"     -> Err
      [] str1 = << >> /\ str2 = << >> -> Ok(NoBootstrap)
      [] str1 = << >> \/ str2 = << >> -> Err
      [] Atoi(str1).err \/ Atoi(str2).err -> Err
      [] OTHER -> Ok([toWeaveletFd |-> Atoi(str1).n, toEnvelopeFd |-> Atoi(str2).n])

=============================================================================
