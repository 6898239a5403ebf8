----------------------------- MODULE OneTimeCode -----------------------------
(***************************************************************************)
(* What the rest of the server relies on when it holds an OtpService: per  *)
(* key at most one code is armed, the code answers a bounded number of     *)
(* guesses, a right guess consumes it, a code may lapse at any time, and   *)
(* whether a request for a new code is granted is the service's decision.  *)
(* Clocks, cooldowns and send budgets do not appear here: OtpService.tla   *)
(* has them and implements this module.                                    *)
(***************************************************************************)
EXTENDS Naturals

CONSTANTS
    Keys,           \* the "scope:value" strings of OtpService.keyFor
    Codes,          \* the six-digit codes
    MaxAttempts,    \* guesses a code answers before it is dropped
    None            \* no code armed

VARIABLE armed      \* armed[k]: the code k answers to and the guesses it has left

OtcTypeOK == armed \in [Keys -> [code : Codes, left : 1..MaxAttempts] \cup {None}]

OtcInit == armed = [k \in Keys |-> None]

Fresh(c) == [code |-> c, left |-> MaxAttempts]

\* A new code replaces whatever was armed for the key.
Arm(k, c) == armed' = [armed EXCEPT ![k] = Fresh(c)]

RightGuess(k, c) ==
    /\ armed[k] # None
    /\ c = armed[k].code
    /\ armed' = [armed EXCEPT ![k] = None]

WrongGuess(k, c) ==
    /\ armed[k] # None
    /\ c # armed[k].code
    /\ armed' = [armed EXCEPT ![k] =
                    IF @.left = 1 THEN None ELSE [code |-> @.code, left |-> @.left - 1]]

\* Time, a sweep or a restart drops the codes of some keys.
Lapse(S) == armed' = [k \in Keys |-> IF k \in S THEN None ELSE armed[k]]

OtcNext ==
    \/ \E k \in Keys, c \in Codes : Arm(k, c) \/ RightGuess(k, c) \/ WrongGuess(k, c)
    \/ \E S \in SUBSET Keys : Lapse(S)

OtcSpec == OtcInit /\ [][OtcNext]_armed
==============================================================================
