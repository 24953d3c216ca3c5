-------------------------------- MODULE Codes --------------------------------
(***************************************************************************)
(* One-time codes (internal/platform/cache/otp): the three Redis keys of   *)
(* one phone and what each command of the store does to them.              *)
(***************************************************************************)
EXTENDS Naturals

CONSTANTS
    Codes,          \* the codes that may be drawn
    NoCode,         \* the key is not there
    MaxAttempts     \* otp.MaxAttempts

ASSUME CodesAssumption == NoCode \notin Codes
ASSUME AttemptsAssumption == MaxAttempts \in Nat \ {0}

\* The counter is kept only up to the first value past the limit.
OtpKeys == [code : Codes \cup {NoCode}, attempts : 0 .. MaxAttempts + 1,
            cooldown : BOOLEAN]

NoKeys == [code |-> NoCode, attempts |-> 0, cooldown |-> FALSE]

StartCooldown(keys) == [keys EXCEPT !.cooldown = TRUE]
StoreCode(keys, c) == [code |-> c, attempts |-> 0, cooldown |-> keys.cooldown]

\* INCR makes the key when it is not there.
CountAttempt(keys) ==
    [keys EXCEPT !.attempts =
        IF keys.attempts > MaxAttempts THEN keys.attempts ELSE keys.attempts + 1]

discard(keys) == StoreCode(keys, NoCode)
Withdraw(keys) == NoKeys

\* The verdict of a count, in the words of Verify.
TooManyAttempts(attempts) == attempts > MaxAttempts
=============================================================================
