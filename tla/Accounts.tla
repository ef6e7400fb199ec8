------------------------------ MODULE Accounts -------------------------------
(***************************************************************************)
(* Sign-in of one user: login, password reset and mail verification in     *)
(* burnlens_cloud/auth.py, the second factor in totp_api.py.  A request    *)
(* reads the user's row, decides, and writes in later statements, between  *)
(* which others run or the process ends; what is single-use is claimed by  *)
(* one UPDATE ... RETURNING.                                               *)
(***************************************************************************)
EXTENDS Naturals, FiniteSets

CONSTANTS
    Requests,       \* requests in flight
    Codes,          \* recovery codes that can be generated
    Threshold,      \* LOCKOUT_THRESHOLD
    MaxStep,        \* bound on the 30-second steps of the clock
    MaxGuesses,     \* bound on wrong codes
    Links,          \* password reset links
    MaxLocks        \* bound on lock-outs that end

ASSUME AccountsAssumption ==
    /\ {Threshold, MaxStep, MaxGuesses, MaxLocks} \subseteq Nat
    /\ MaxStep > 0

VARIABLES
    factor,         \* "off", "pending", "on", or "bare": confirmed without a secret
    lastStep,       \* totp_last_step; 0 is NULL
    failed,         \* totp_failed_attempts
    locked,         \* totp_locked_until is in the future
    unspent,        \* recovery codes with used_at NULL
    fresh,          \* recovery codes that were not generated yet
    step,           \* the current step of the clock
    req,            \* per request, the row it read and where it stands
    minted,         \* history: sessions minted per step of a code
    spent,          \* history: requests accepted per recovery code
    setback,        \* history: writes of a step at or below one consumed meanwhile
    guesses,        \* history: wrong codes judged since the last success or lock
    outdated,       \* history: of these, judged with a count that had changed since
    locks,          \* lock-outs that have ended
    link,           \* auth_tokens of type password_reset, with those under way
    during,         \* history: per link, the requests under way at its invalidation
    resets          \* history: passwords set per link

accountVars == <<factor, lastStep, failed, locked, unspent, fresh, step, req, minted, spent,
                 setback, guesses, outdated, locks, link, during, resets>>

Resting == [at |-> "rest"]
Steps == 1..MaxStep + 1

AccountsInit ==
    /\ factor = "off" /\ lastStep = 0 /\ failed = 0 /\ locked = FALSE
    /\ unspent = {} /\ fresh = Codes
    /\ step = 1
    /\ req = [r \in Requests |-> Resting]
    /\ minted = [n \in 0..MaxStep + 1 |-> 0] /\ spent = [c \in Codes |-> 0]
    /\ setback = 0 /\ guesses = 0 /\ outdated = 0 /\ locks = 0
    /\ link = [l \in Links |-> "none"] /\ during = [l \in Links |-> {}]
    /\ resets = [l \in Links |-> 0]

NoReset == UNCHANGED <<link, during, resets>>
NoCodes == UNCHANGED <<unspent, fresh, spent>>
NoCount == UNCHANGED <<failed, locked, guesses, outdated>>
NoClock == UNCHANGED <<step, locks>> /\ NoReset
NoFactor == UNCHANGED <<factor, lastStep, req, minted, setback, step, locks>> /\ NoCodes /\ NoCount

\* A statement that sets totp_failed_attempts = 0, totp_locked_until = NULL.
Cleared == failed' = 0 /\ locked' = FALSE /\ guesses' = 0 /\ outdated' = 0

\* Variant of Accepts: the last step is not compared.
AcceptsAgain(n, last) == n \in (step - 1)..(step + 1)

\* verify_code: the code of step n is accepted within one step of drift, and
\* refused at or below the step consumed last.
Accepts(n, last) == n \in (step - 1)..(step + 1) /\ n > last

(***************************************************************************)
(* Every handler first reads the row (_load_user_totp).                    *)
(***************************************************************************)
\* Enrolment needs a factor that is not confirmed, confirmation a secret that
\* is pending; disabling and the second step of a login one that is confirmed.
\* Where there is no secret (bare), codes of a time step fail with an error.
Admits(op) ==
    CASE op = "setup"   -> factor \in {"off", "pending"}
      [] op = "confirm" -> factor = "pending" /\ ~locked
      [] op \in {"disable", "verify"} -> factor \in {"on", "bare"} /\ ~locked

ReadRow(r, op) ==
    /\ req[r] = Resting /\ Admits(op)
    /\ req' = [req EXCEPT ![r] = [at |-> "read", op |-> op, keyed |-> factor # "bare",
                                  last |-> lastStep, failed |-> failed]]
    /\ UNCHANGED <<factor, lastStep, minted, setback>> /\ NoCodes /\ NoCount /\ NoClock

Holds(r, op) == req[r].at = "read" /\ req[r].op = op

\* Variant of LocksOut: one attempt too many.
LocksOutLate(n) == n > Threshold + 1

LocksOut(n) == n >= Threshold

\* A wrong code, or a wrong password when disabling (_register_failure): one
\* above the count that was read, which others may have raised since.
CodeRefused(r) ==
    /\ req[r].at = "read" /\ req[r].op # "setup" /\ guesses < MaxGuesses
    /\ failed' = req[r].failed + 1
    /\ locked' = LocksOut(req[r].failed + 1)
    /\ guesses' = IF LocksOut(req[r].failed + 1) THEN 0 ELSE guesses + 1
    /\ outdated' = IF LocksOut(req[r].failed + 1) THEN 0
                   ELSE IF req[r].failed = failed THEN outdated ELSE outdated + 1
    /\ req' = [req EXCEPT ![r] = Resting]
    /\ UNCHANGED <<factor, lastStep, minted, setback>> /\ NoCodes /\ NoClock

\* A statement fails, or the process ends before it: what was written stays.
RequestCut(r) ==
    /\ req[r] # Resting
    /\ req' = [req EXCEPT ![r] = Resting]
    /\ UNCHANGED <<factor, lastStep, minted, setback>> /\ NoCodes /\ NoCount /\ NoClock

(***************************************************************************)
(* Enrolment.                                                              *)
(***************************************************************************)
\* setup_totp stores a new secret, whatever became of the factor it read.
SetupTotp(r) ==
    /\ Holds(r, "setup")
    /\ factor' = IF factor \in {"off", "pending"} THEN "pending" ELSE "on"
    /\ req' = [req EXCEPT ![r] = Resting]
    /\ UNCHANGED <<lastStep, minted, setback>> /\ NoCodes /\ NoCount /\ NoClock

\* confirm_totp with a correct code generates recovery codes and turns the
\* factor on, although it may have been turned off since ...
ConfirmTotp(r) ==
    /\ Holds(r, "confirm")
    /\ \E n \in Steps, C \in (SUBSET fresh) \ {{}} :
         /\ Accepts(n, req[r].last)
         /\ lastStep' = n /\ setback' = IF n < lastStep THEN setback + 1 ELSE setback
         /\ fresh' = fresh \ C
         /\ req' = [req EXCEPT ![r] = [at |-> "purge", codes |-> C]]
    /\ factor' = IF factor \in {"pending", "on"} THEN "on" ELSE "bare"
    /\ Cleared
    /\ UNCHANGED <<unspent, spent, minted>> /\ NoClock

\* ... deletes the codes of the user, whose ever they are (disable_totp too) ...
PurgeCodes(r) ==
    /\ req[r].at = "purge"
    /\ unspent' = {}
    /\ req' = [req EXCEPT ![r] = IF @.codes = {} THEN Resting ELSE [at |-> "store", codes |-> @.codes]]
    /\ UNCHANGED <<factor, lastStep, fresh, spent, minted, setback>> /\ NoCount /\ NoClock

\* ... and inserts its own one by one.
StoreCode(r, c) ==
    /\ req[r].at = "store" /\ c \in req[r].codes
    /\ unspent' = unspent \cup {c}
    /\ req' = [req EXCEPT ![r] = IF @.codes = {c} THEN Resting
                                 ELSE [at |-> "store", codes |-> @.codes \ {c}]]
    /\ UNCHANGED <<factor, lastStep, fresh, spent, minted, setback>> /\ NoCount /\ NoClock

\* disable_totp with password and code; the codes are deleted afterwards.
\* The secret is gone: sessions are counted anew.
DisableTotp(r) ==
    /\ Holds(r, "disable") /\ req[r].keyed
    /\ \E n \in Steps : Accepts(n, req[r].last)
    /\ factor' = "off" /\ lastStep' = 0 /\ Cleared
    /\ minted' = [n \in 0..MaxStep + 1 |-> 0] /\ setback' = 0
    /\ req' = [req EXCEPT ![r] = [at |-> "purge", codes |-> {}]]
    /\ NoCodes /\ NoClock

(***************************************************************************)
(* verify_totp: a challenge and a code for a session.  The password was    *)
(* correct: login answers a challenge, never a session, and the row is     *)
(* read when the challenge comes back.                                     *)
(***************************************************************************)
\* A correct code: the attempts are cleared and the step is burnt.
CodeAccepted(r) ==
    /\ Holds(r, "verify") /\ req[r].keyed
    /\ \E n \in Steps :
         /\ Accepts(n, req[r].last)
         /\ lastStep' = n
         /\ minted' = [minted EXCEPT ![n] = @ + 1]
         /\ setback' = IF n <= lastStep THEN setback + 1 ELSE setback
    /\ Cleared
    /\ req' = [req EXCEPT ![r] = Resting]
    /\ UNCHANGED factor /\ NoCodes /\ NoClock

\* Variant of RecoveryAccepted: the code is looked for and marked in two steps,
\* so that any request that has read the row may use it.
RecoveryAcceptedTwice(r, c) ==
    /\ Holds(r, "verify") /\ (c \in unspent \/ spent[c] > 0)
    /\ unspent' = unspent \ {c}
    /\ spent' = [spent EXCEPT ![c] = @ + 1]
    /\ req' = [req EXCEPT ![r] = [at |-> "clear"]]
    /\ UNCHANGED <<factor, lastStep, fresh, minted, setback>> /\ NoCount /\ NoClock

\* _consume_recovery_code: UPDATE ... WHERE used_at IS NULL RETURNING ...
RecoveryAccepted(r, c) ==
    /\ Holds(r, "verify") /\ c \in unspent
    /\ unspent' = unspent \ {c}
    /\ spent' = [spent EXCEPT ![c] = @ + 1]
    /\ req' = [req EXCEPT ![r] = [at |-> "clear"]]
    /\ UNCHANGED <<factor, lastStep, fresh, minted, setback>> /\ NoCount /\ NoClock

\* ... after which the attempts are cleared, and a lock that was set meanwhile.
RecoveryCleared(r) ==
    /\ req[r].at = "clear"
    /\ Cleared
    /\ req' = [req EXCEPT ![r] = Resting]
    /\ UNCHANGED <<factor, lastStep, minted, setback>> /\ NoCodes /\ NoClock

\* LOCKOUT_SECONDS are over; the attempts are not cleared.
LockEnds ==
    /\ locked /\ locks < MaxLocks
    /\ locked' = FALSE /\ locks' = locks + 1
    /\ UNCHANGED <<factor, lastStep, failed, guesses, outdated, step, req, minted, setback>>
    /\ NoCodes /\ NoReset

ClockTicks ==
    /\ step < MaxStep /\ step' = step + 1
    /\ UNCHANGED <<factor, lastStep, req, minted, setback, locks>> /\ NoCodes /\ NoCount /\ NoReset

(***************************************************************************)
(* Password reset; verification of the mail address claims its link the    *)
(* same way.                                                               *)
(***************************************************************************)
LinksAt(state) == {l \in Links : link[l] = state}

\* request_password_reset: the links that are stored die ...
RequestReset(l) ==
    /\ link[l] = "none"
    /\ link' = [m \in Links |-> IF m = l THEN "due" ELSE IF link[m] = "live" THEN "used" ELSE link[m]]
    /\ during' = [during EXCEPT ![l] = LinksAt("due")]
    /\ UNCHANGED resets /\ NoFactor

\* ... and a new one is stored, unless the request ends here.
StoreReset(l) ==
    /\ link[l] = "due"
    /\ \E state \in {"live", "none"} : link' = [link EXCEPT ![l] = state]
    /\ UNCHANGED <<during, resets>> /\ NoFactor

ResetExpires(l) ==
    /\ link[l] = "live"
    /\ link' = [link EXCEPT ![l] = "used"]
    /\ UNCHANGED <<during, resets>> /\ NoFactor

\* Variant of ConfirmReset: the claim does not look at used_at.
ConfirmResetAgain(l) ==
    /\ link[l] \in {"live", "used"}
    /\ link' = [link EXCEPT ![l] = "claimed"]
    /\ UNCHANGED <<during, resets>> /\ NoFactor

\* confirm_password_reset claims the link in one statement ...
ConfirmReset(l) ==
    /\ link[l] = "live"
    /\ link' = [link EXCEPT ![l] = "claimed"]
    /\ UNCHANGED <<during, resets>> /\ NoFactor

\* ... and sets the password in the next, unless it ends here.
SetPassword(l) ==
    /\ link[l] = "claimed"
    /\ link' = [link EXCEPT ![l] = "used"]
    /\ \E n \in {0, 1} : resets' = [resets EXCEPT ![l] = @ + n]
    /\ UNCHANGED during /\ NoFactor

FactorNext ==
    \/ \E r \in Requests :
         \/ \E op \in {"setup", "confirm", "disable", "verify"} : ReadRow(r, op)
         \/ SetupTotp(r) \/ ConfirmTotp(r) \/ PurgeCodes(r) \/ DisableTotp(r)
         \/ CodeAccepted(r) \/ CodeRefused(r) \/ RecoveryCleared(r) \/ RequestCut(r)
         \/ \E c \in Codes : StoreCode(r, c) \/ RecoveryAccepted(r, c)
    \/ LockEnds \/ ClockTicks

ResetNext ==
    \E l \in Links : \/ RequestReset(l) \/ StoreReset(l) \/ ResetExpires(l)
                     \/ ConfirmReset(l) \/ SetPassword(l)

AccountsNext == FactorNext \/ ResetNext

(***************************************************************************)
(* Properties.                                                             *)
(***************************************************************************)
AccountsTypeOK ==
    /\ factor \in {"off", "pending", "on", "bare"} /\ lastStep \in 0..MaxStep + 1 /\ failed \in Nat
    /\ locked \in BOOLEAN /\ unspent \subseteq Codes /\ step \in 1..MaxStep
    /\ \A r \in Requests : req[r].at \in {"rest", "read", "purge", "store", "clear"}
    /\ \A l \in Links : link[l] \in {"none", "due", "live", "claimed", "used"}

\* A recovery code is accepted once, however many requests present it at the
\* same time, and whatever enrolments overlap or end half-way.
RecoveryCodeOnce == \A c \in Codes : spent[c] <= 1

\* The code of one 30-second step opens one session for a secret, and one more
\* for each write that set the consumed step back, which takes a request that
\* read its row before another consumed a later step: no sequence of
\* successes, failures and lock-outs without such an overlap does it.
StepOnce == \A n \in 1..MaxStep : minted[n] <= 1 + setback

\* Between two successes or locks at most Threshold wrong codes are judged, and
\* Threshold more for each of them that was judged with a count that another
\* request had changed since it was read: _register_failure sets such a count
\* back, and nothing else does.
GuessesBounded == guesses <= (outdated + 1) * Threshold

\* A reset link sets the password once.  A newer link ends the older ones: two
\* are live only if one was requested between the two statements of the other.
ResetOnce == /\ \A l \in Links : resets[l] <= 1
             /\ \A l, m \in LinksAt("live") : l # m => l \in during[m] \/ m \in during[l]
=============================================================================
