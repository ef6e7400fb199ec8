---------------------------- MODULE Access_proofs ----------------------------
(***************************************************************************)
(* The components of MCAccess for any number of requests, keys, agents,    *)
(* events and tasks.                                                       *)
(***************************************************************************)
EXTENDS MCAccess, SumTheorems

-----------------------------------------------------------------------------
(* Accounts.  The row that a request has read says little about the row it *)
(* will write to.  What holds of the rows themselves: a code in store, or  *)
(* held by an enrolment under way, was not used, and one enrolment holds   *)
(* it (CodesInv); a step is used once below the last one, and once more    *)
(* for each write that set the last one back (StepsInv); a link with a     *)
(* password set is used, and of two that are due or live one was asked for *)
(* during the other (LinksInv); the count of failures and the outdated     *)
(* ones together keep up with the guesses (GuessInv).                      *)

RowRead == [at : {"read"}, op : {"setup", "confirm", "disable", "verify"}, keyed : BOOLEAN,
            last : 0..MaxStep + 1, failed : Nat]
Enrolling == [at : {"purge", "store"}, codes : SUBSET Codes]
Clearing == [at : {"clear"}]
Requesting == {Resting} \cup RowRead \cup Enrolling \cup Clearing

AccountsShape ==
    /\ factor \in {"off", "pending", "on", "bare"} /\ lastStep \in 0..MaxStep + 1 /\ failed \in Nat
    /\ locked \in BOOLEAN /\ unspent \subseteq Codes /\ fresh \subseteq Codes
    /\ step \in 1..MaxStep
    /\ req \in [Requests -> Requesting]
    /\ minted \in [0..MaxStep + 1 -> Nat] /\ spent \in [Codes -> Nat]
    /\ setback \in Nat /\ guesses \in Nat /\ outdated \in Nat
    /\ link \in [Links -> {"none", "due", "live", "claimed", "used"}]
    /\ during \in [Links -> SUBSET Links] /\ resets \in [Links -> Nat]

\* The codes that a request has generated and not stored yet.
Held(q) == IF q.at \in {"purge", "store"} THEN q.codes ELSE {}

CodesInv ==
    /\ \A c \in Codes : spent[c] <= 1
    /\ \A c \in unspent \cup fresh : spent[c] = 0
    /\ unspent \cap fresh = {}
    /\ \A r \in Requests : \A c \in Held(req[r]) :
         /\ spent[c] = 0 /\ c \notin unspent /\ c \notin fresh
         /\ \A s \in Requests : s # r => c \notin Held(req[s])

StepsInv ==
    \A n \in 0..MaxStep + 1 : minted[n] <= setback + (IF n <= lastStep THEN 1 ELSE 0)

LinksInv ==
    /\ \A l \in Links : resets[l] <= 1 /\ (resets[l] > 0 => link[l] = "used")
    /\ \A l, m \in Links :
         l # m /\ link[l] \in {"due", "live"} /\ link[m] \in {"due", "live"}
           => l \in during[m] \/ m \in during[l]

GuessInv ==
    /\ guesses <= outdated * Threshold + failed
    /\ failed >= Threshold => guesses = 0

AccountsInv == AccountsShape /\ CodesInv /\ StepsInv /\ LinksInv /\ GuessInv

\* One request moves on, the others stay where they are.
LEMMA RequestMoves ==
    ASSUME AccountsShape, NEW r \in Requests, NEW q \in Requesting,
           req' = [req EXCEPT ![r] = q]
    PROVE  /\ req' \in [Requests -> Requesting]
           /\ req'[r] = q /\ \A s \in Requests : s # r => req'[s] = req[s]
BY DEF AccountsShape

\* A request that is at rest holds nothing.
LEMMA RestHeld == Resting \in Requesting /\ Held(Resting) = {}
BY DEF Requesting, Resting, Held

\* A request that has read the row holds a step and a count, and no codes.
LEMMA RowHeld ==
    ASSUME AccountsShape, NEW r \in Requests, req[r].at = "read"
    PROVE  /\ req[r] \in RowRead /\ req[r].last \in 0..MaxStep + 1 /\ req[r].failed \in Nat
           /\ Held(req[r]) = {}
<1>1. req[r] \in Requesting
  BY DEF AccountsShape
<1>2. req[r] # Resting /\ req[r] \notin Enrolling /\ req[r] \notin Clearing
  BY DEF Resting, Enrolling, Clearing
<1>3. req[r] \in RowRead
  BY <1>1, <1>2 DEF Requesting
<1>. QED
  BY <1>3 DEF RowRead, Held

\* An enrolment that writes its codes holds them.
LEMMA CodesHeld ==
    ASSUME AccountsShape, NEW r \in Requests, req[r].at \in {"purge", "store"}
    PROVE  req[r] \in Enrolling /\ req[r].codes \subseteq Codes /\ Held(req[r]) = req[r].codes
<1>1. req[r] \in Requesting
  BY DEF AccountsShape
<1>2. req[r] # Resting /\ req[r] \notin RowRead /\ req[r] \notin Clearing
  BY DEF Resting, RowRead, Clearing
<1>3. req[r] \in Enrolling
  BY <1>1, <1>2 DEF Requesting
<1>. QED
  BY <1>3 DEF Enrolling, Held

\* Codes under way are what an enrolment is made of.
LEMMA EnrollingHeld ==
    ASSUME NEW at \in {"purge", "store"}, NEW C \in SUBSET Codes
    PROVE  [at |-> at, codes |-> C] \in Requesting /\ Held([at |-> at, codes |-> C]) = C
BY DEF Requesting, Enrolling, Held

\* A new account.
LEMMA AccountsBegin == AccountsInit => AccountsInv
<1>. SUFFICES ASSUME AccountsInit PROVE AccountsInv
  OBVIOUS
<1>0. Threshold \in Nat /\ MaxStep \in Nat /\ MaxStep > 0
  BY AccountsAssumption
<1>1. AccountsShape
  <2>1. req \in [Requests -> Requesting]
    BY RestHeld DEF AccountsInit
  <2>2. minted \in [0..MaxStep + 1 -> Nat] /\ spent \in [Codes -> Nat]
    BY DEF AccountsInit
  <2>3. /\ link \in [Links -> {"none", "due", "live", "claimed", "used"}]
        /\ during \in [Links -> SUBSET Links] /\ resets \in [Links -> Nat]
    BY DEF AccountsInit
  <2>4. lastStep \in 0..MaxStep + 1 /\ step \in 1..MaxStep
    BY <1>0 DEF AccountsInit
  <2>. QED
    BY <2>1, <2>2, <2>3, <2>4 DEF AccountsInit, AccountsShape
<1>2. CodesInv
  BY RestHeld DEF AccountsInit, CodesInv
<1>3. StepsInv /\ LinksInv
  BY <1>0 DEF AccountsInit, StepsInv, LinksInv
<1>4. GuessInv
  BY <1>0 DEF AccountsInit, GuessInv
<1>. QED
  BY <1>1, <1>2, <1>3, <1>4 DEF AccountsInv

\* A request of the second factor that goes back to rest, or on.
LEMMA FactorRequests ==
    ASSUME AccountsShape, NEW r \in Requests
    PROVE  /\ \A q \in Requesting : req' = [req EXCEPT ![r] = q] => req' \in [Requests -> Requesting]
           /\ Resting \in Requesting /\ [at |-> "clear"] \in Requesting
           /\ \A C \in SUBSET Codes : [at |-> "purge", codes |-> C] \in Requesting
BY RequestMoves, RestHeld, EnrollingHeld DEF Requesting, Clearing

\* Every step of sign-in and enrolment keeps the shape of the state.
LEMMA FactorShapeStep == ASSUME AccountsShape, FactorNext PROVE AccountsShape'
<1>0. Threshold \in Nat /\ MaxStep \in Nat /\ MaxStep > 0
  BY AccountsAssumption
<1>1. ASSUME NEW r \in Requests, NEW op \in {"setup", "confirm", "disable", "verify"}, ReadRow(r, op)
      PROVE  AccountsShape'
  <2>. DEFINE q == [at |-> "read", op |-> op, keyed |-> factor # "bare",
                    last |-> lastStep, failed |-> failed]
  <2>1. q \in Requesting
    BY DEF AccountsShape, RowRead, Requesting
  <2>2. req' = [req EXCEPT ![r] = q]
    BY <1>1 DEF ReadRow
  <2>. HIDE DEF q
  <2>3. req' \in [Requests -> Requesting]
    BY <2>1, <2>2, FactorRequests
  <2>. QED
    BY <1>1, <2>3 DEF ReadRow, NoCodes, NoCount, NoClock, NoReset, AccountsShape
<1>2. ASSUME NEW r \in Requests, SetupTotp(r) PROVE AccountsShape'
  <2>1. req' \in [Requests -> Requesting]
    BY <1>2, FactorRequests DEF SetupTotp
  <2>2. factor' \in {"off", "pending", "on", "bare"}
    BY <1>2 DEF SetupTotp
  <2>. QED
    BY <1>2, <2>1, <2>2 DEF SetupTotp, NoCodes, NoCount, NoClock, NoReset, AccountsShape
<1>3. ASSUME NEW r \in Requests, ConfirmTotp(r) PROVE AccountsShape'
  <2>1. PICK n \in Steps, C \in SUBSET fresh :
          /\ lastStep' = n /\ setback' = IF n < lastStep THEN setback + 1 ELSE setback
          /\ fresh' = fresh \ C /\ req' = [req EXCEPT ![r] = [at |-> "purge", codes |-> C]]
    BY <1>3 DEF ConfirmTotp
  <2>2. C \in SUBSET Codes /\ fresh' \subseteq Codes
    BY <2>1 DEF AccountsShape
  <2>3. req' \in [Requests -> Requesting]
    BY <2>1, <2>2, FactorRequests
  <2>4. lastStep' \in 0..MaxStep + 1 /\ setback' \in Nat
    BY <1>0, <2>1 DEF Steps, AccountsShape
  <2>5. factor' \in {"off", "pending", "on", "bare"}
    BY <1>3 DEF ConfirmTotp
  <2>. QED
    BY <1>3, <2>2, <2>3, <2>4, <2>5 DEF ConfirmTotp, Cleared, NoClock, NoReset, AccountsShape
<1>4. ASSUME NEW r \in Requests, PurgeCodes(r) PROVE AccountsShape'
  <2>1. req[r].codes \in SUBSET Codes
    BY <1>4, CodesHeld DEF PurgeCodes
  <2>. DEFINE q == IF req[r].codes = {} THEN Resting ELSE [at |-> "store", codes |-> req[r].codes]
  <2>2. q \in Requesting
    BY <2>1, RestHeld, EnrollingHeld
  <2>3. req' = [req EXCEPT ![r] = q]
    BY <1>4 DEF PurgeCodes
  <2>. HIDE DEF q
  <2>4. req' \in [Requests -> Requesting]
    BY <2>2, <2>3, FactorRequests
  <2>. QED
    BY <1>4, <2>4 DEF PurgeCodes, NoCount, NoClock, NoReset, AccountsShape
<1>5. ASSUME NEW r \in Requests, NEW c \in Codes, StoreCode(r, c) PROVE AccountsShape'
  <2>1. req[r].codes \ {c} \in SUBSET Codes
    BY <1>5, CodesHeld DEF StoreCode
  <2>. DEFINE q == IF req[r].codes = {c} THEN Resting
                   ELSE [at |-> "store", codes |-> req[r].codes \ {c}]
  <2>3. q \in Requesting
    BY <2>1, RestHeld, EnrollingHeld
  <2>4. req' = [req EXCEPT ![r] = q]
    BY <1>5 DEF StoreCode
  <2>. HIDE DEF q
  <2>5. req' \in [Requests -> Requesting]
    BY <2>3, <2>4, FactorRequests
  <2>. QED
    BY <1>5, <2>5 DEF StoreCode, NoCount, NoClock, NoReset, AccountsShape
<1>6. ASSUME NEW r \in Requests, DisableTotp(r) PROVE AccountsShape'
  <2>1. req' \in [Requests -> Requesting]
    BY <1>6, FactorRequests DEF DisableTotp
  <2>2. lastStep' \in 0..MaxStep + 1 /\ minted' \in [0..MaxStep + 1 -> Nat]
    BY <1>0, <1>6 DEF DisableTotp
  <2>. QED
    BY <1>6, <2>1, <2>2 DEF DisableTotp, Cleared, NoCodes, NoClock, NoReset, AccountsShape
<1>7. ASSUME NEW r \in Requests, CodeAccepted(r) PROVE AccountsShape'
  <2>1. req' \in [Requests -> Requesting]
    BY <1>7, FactorRequests DEF CodeAccepted
  <2>2. PICK n \in Steps :
          /\ lastStep' = n /\ minted' = [minted EXCEPT ![n] = minted[n] + 1]
          /\ setback' = IF n <= lastStep THEN setback + 1 ELSE setback
    BY <1>7 DEF CodeAccepted
  <2>3. minted' \in [0..MaxStep + 1 -> Nat] /\ lastStep' \in 0..MaxStep + 1 /\ setback' \in Nat
    BY <1>0, <2>2 DEF AccountsShape, Steps
  <2>. QED
    BY <1>7, <2>1, <2>3 DEF CodeAccepted, Cleared, NoCodes, NoClock, NoReset, AccountsShape
<1>8. ASSUME NEW r \in Requests, NEW c \in Codes, RecoveryAccepted(r, c) PROVE AccountsShape'
  <2>1. req' \in [Requests -> Requesting]
    BY <1>8, FactorRequests DEF RecoveryAccepted
  <2>2. spent' \in [Codes -> Nat] /\ unspent' \subseteq Codes
    BY <1>8 DEF RecoveryAccepted, AccountsShape
  <2>. QED
    BY <1>8, <2>1, <2>2 DEF RecoveryAccepted, NoCount, NoClock, NoReset, AccountsShape
<1>9. ASSUME NEW r \in Requests, CodeRefused(r) PROVE AccountsShape'
  <2>1. req' \in [Requests -> Requesting]
    BY <1>9, FactorRequests DEF CodeRefused
  <2>2. req[r].failed \in Nat
    BY <1>9, RowHeld DEF CodeRefused
  <2>3. failed' \in Nat /\ guesses' \in Nat /\ outdated' \in Nat
    BY <1>9, <2>2 DEF CodeRefused, AccountsShape
  <2>4. locked' \in BOOLEAN
    BY <1>9 DEF CodeRefused, LocksOut
  <2>. QED
    BY <1>9, <2>1, <2>3, <2>4 DEF CodeRefused, NoCodes, NoClock, NoReset, AccountsShape
<1>10. ASSUME NEW r \in Requests, RecoveryCleared(r) PROVE AccountsShape'
  <2>1. req' \in [Requests -> Requesting]
    BY <1>10, FactorRequests DEF RecoveryCleared
  <2>. QED
    BY <1>10, <2>1 DEF RecoveryCleared, Cleared, NoCodes, NoClock, NoReset, AccountsShape
<1>11. ASSUME NEW r \in Requests, RequestCut(r) PROVE AccountsShape'
  <2>1. req' \in [Requests -> Requesting]
    BY <1>11, FactorRequests DEF RequestCut
  <2>. QED
    BY <1>11, <2>1 DEF RequestCut, NoCodes, NoCount, NoClock, NoReset, AccountsShape
<1>12. CASE LockEnds
  BY <1>12 DEF LockEnds, NoCodes, NoReset, AccountsShape
<1>13. CASE ClockTicks
  <2>1. step' \in 1..MaxStep
    BY <1>0, <1>13 DEF ClockTicks, AccountsShape
  <2>. QED
    BY <1>13, <2>1 DEF ClockTicks, NoCodes, NoCount, NoReset, AccountsShape
<1>. QED
  BY <1>1, <1>2, <1>3, <1>4, <1>5, <1>6, <1>7, <1>8, <1>9, <1>10, <1>11, <1>12, <1>13
     DEF FactorNext

\* A request that ends up with no codes in hand, while those in store stay.
LEMMA CodesStay ==
    ASSUME AccountsShape, CodesInv, NoCodes, NEW r \in Requests, NEW q \in Requesting,
           Held(q) = {}, req' = [req EXCEPT ![r] = q]
    PROVE  CodesInv'
<1>1. req'[r] = q /\ \A s \in Requests : s # r => req'[s] = req[s]
  BY RequestMoves
<1>2. \A s \in Requests : Held(req'[s]) \subseteq Held(req[s])
  BY <1>1
<1>3. UNCHANGED <<unspent, fresh, spent>>
  BY DEF NoCodes
<1>. QED
  BY <1>2, <1>3 DEF CodesInv

\* A recovery code that is used was not used before, and leaves the row; a code
\* that is generated is stored at most once.
LEMMA FactorCodesStep == ASSUME AccountsShape, CodesInv, FactorNext PROVE CodesInv'
<1>1. ASSUME NEW r \in Requests, NEW op \in {"setup", "confirm", "disable", "verify"}, ReadRow(r, op)
      PROVE  CodesInv'
  <2>. DEFINE q == [at |-> "read", op |-> op, keyed |-> factor # "bare",
                    last |-> lastStep, failed |-> failed]
  <2>1. q \in Requesting /\ Held(q) = {}
    BY DEF AccountsShape, RowRead, Requesting, Held
  <2>2. req' = [req EXCEPT ![r] = q] /\ NoCodes
    BY <1>1 DEF ReadRow
  <2>. HIDE DEF q
  <2>. QED
    BY <2>1, <2>2, CodesStay
<1>2. ASSUME NEW r \in Requests, NoCodes, req' = [req EXCEPT ![r] = Resting] PROVE CodesInv'
  BY <1>2, CodesStay, RestHeld
<1>3. ASSUME NEW r \in Requests, ConfirmTotp(r) PROVE CodesInv'
  <2>1. PICK C \in SUBSET fresh :
          fresh' = fresh \ C /\ req' = [req EXCEPT ![r] = [at |-> "purge", codes |-> C]]
    BY <1>3 DEF ConfirmTotp
  <2>2. C \in SUBSET Codes
    BY DEF AccountsShape
  <2>. DEFINE q == [at |-> "purge", codes |-> C]
  <2>3. q \in Requesting /\ Held(q) = C
    BY <2>2, EnrollingHeld
  <2>. HIDE DEF q
  <2>4. req' = [req EXCEPT ![r] = q]
    BY <2>1 DEF q
  <2>5. Held(req'[r]) = C /\ \A s \in Requests : s # r => req'[s] = req[s]
    BY <2>3, <2>4, RequestMoves
  <2>6. UNCHANGED <<unspent, spent>>
    BY <1>3 DEF ConfirmTotp
  <2>7. \A c \in C : spent[c] = 0 /\ c \notin unspent /\ \A s \in Requests : c \notin Held(req[s])
    BY DEF CodesInv
  <2>8. \A s \in Requests : \A c \in Held(req'[s]) :
          /\ spent[c] = 0 /\ c \notin unspent /\ c \notin fresh'
          /\ \A t \in Requests : t # s => c \notin Held(req'[t])
    <3>1. TAKE s \in Requests
    <3>2. CASE s = r
      BY <2>1, <2>5, <2>7, <3>2
    <3>3. CASE s # r
      BY <2>1, <2>5, <2>7, <3>3 DEF CodesInv
    <3>. QED
      BY <3>2, <3>3
  <2>9. unspent' \cap fresh' = {} /\ \A c \in unspent' \cup fresh' : spent'[c] = 0
    BY <2>1, <2>6 DEF CodesInv
  <2>. QED
    BY <2>6, <2>8, <2>9 DEF CodesInv
<1>4. ASSUME NEW r \in Requests, PurgeCodes(r) PROVE CodesInv'
  <2>1. req[r].codes \in SUBSET Codes /\ Held(req[r]) = req[r].codes
    BY <1>4, CodesHeld DEF PurgeCodes
  <2>. DEFINE q == IF req[r].codes = {} THEN Resting ELSE [at |-> "store", codes |-> req[r].codes]
  <2>2. q \in Requesting /\ Held(q) = Held(req[r])
    BY <2>1, RestHeld, EnrollingHeld
  <2>3. req' = [req EXCEPT ![r] = q]
    BY <1>4 DEF PurgeCodes
  <2>. HIDE DEF q
  <2>4. \A s \in Requests : Held(req'[s]) = Held(req[s])
    BY <2>2, <2>3, RequestMoves
  <2>5. unspent' = {} /\ UNCHANGED <<fresh, spent>>
    BY <1>4 DEF PurgeCodes
  <2>. QED
    BY <2>4, <2>5 DEF CodesInv
<1>5. ASSUME NEW r \in Requests, NEW c \in Codes, StoreCode(r, c) PROVE CodesInv'
  <2>1. req[r].codes \in SUBSET Codes /\ Held(req[r]) = req[r].codes /\ c \in Held(req[r])
    BY <1>5, CodesHeld DEF StoreCode
  <2>. DEFINE C == req[r].codes \ {c}
              q == IF req[r].codes = {c} THEN Resting ELSE [at |-> "store", codes |-> C]
  <2>2. C \in SUBSET Codes /\ C = Held(req[r]) \ {c}
    BY <2>1
  <2>3. q \in Requesting /\ Held(q) = Held(req[r]) \ {c}
    BY <2>1, <2>2, RestHeld, EnrollingHeld
  <2>4. req' = [req EXCEPT ![r] = q]
    BY <1>5 DEF StoreCode
  <2>. HIDE DEF C, q
  <2>5. Held(req'[r]) = Held(req[r]) \ {c} /\ \A s \in Requests : s # r => req'[s] = req[s]
    BY <2>3, <2>4, RequestMoves
  <2>6. unspent' = unspent \cup {c} /\ UNCHANGED <<fresh, spent>>
    BY <1>5 DEF StoreCode
  <2>7. spent[c] = 0 /\ c \notin fresh /\ \A s \in Requests : s # r => c \notin Held(req[s])
    BY <2>1 DEF CodesInv
  <2>8. \A s \in Requests : Held(req'[s]) \subseteq Held(req[s]) /\ c \notin Held(req'[s])
    BY <2>5, <2>7
  <2>. QED
    BY <2>6, <2>7, <2>8 DEF CodesInv
<1>6. ASSUME NEW r \in Requests, DisableTotp(r) PROVE CodesInv'
  <2>1. {} \in SUBSET Codes /\ NoCodes
    BY <1>6 DEF DisableTotp
  <2>. QED
    BY <1>6, <2>1, CodesStay, EnrollingHeld DEF DisableTotp
<1>7. ASSUME NEW r \in Requests, NEW c \in Codes, RecoveryAccepted(r, c) PROVE CodesInv'
  <2>1. c \in unspent /\ unspent' = unspent \ {c} /\ spent' = [spent EXCEPT ![c] = @ + 1] /\ fresh' = fresh
    BY <1>7 DEF RecoveryAccepted
  <2>2. [at |-> "clear"] \in Requesting /\ Held([at |-> "clear"]) = {}
    BY DEF Requesting, Clearing, Held
  <2>3. \A s \in Requests : Held(req'[s]) \subseteq Held(req[s])
    BY <1>7, <2>2, RequestMoves DEF RecoveryAccepted
  <2>4. spent[c] = 0 /\ c \notin fresh /\ \A s \in Requests : c \notin Held(req[s])
    BY <2>1 DEF CodesInv
  <2>5. spent'[c] = 1 /\ \A d \in Codes : d # c => spent'[d] = spent[d]
    BY <2>1, <2>4 DEF AccountsShape
  <2>6. \A s \in Requests : Held(req[s]) \subseteq Codes
    BY CodesHeld DEF Held
  <2>7. unspent \cup fresh \subseteq Codes
    BY DEF AccountsShape
  <2>8. \A d \in unspent' \cup fresh' : spent'[d] = 0
    BY <2>1, <2>4, <2>5, <2>7 DEF CodesInv
  <2>9. \A s \in Requests : \A d \in Held(req'[s]) :
          /\ spent'[d] = 0 /\ d \notin unspent' /\ d \notin fresh'
          /\ \A t \in Requests : t # s => d \notin Held(req'[t])
    BY <2>1, <2>3, <2>4, <2>5, <2>6 DEF CodesInv
  <2>10. \A d \in Codes : spent'[d] <= 1
    BY <2>5 DEF CodesInv
  <2>11. unspent' \cap fresh' = {}
    BY <2>1 DEF CodesInv
  <2>. QED
    BY <2>8, <2>9, <2>10, <2>11 DEF CodesInv
<1>8. ASSUME NoCodes, UNCHANGED req PROVE CodesInv'
  BY <1>8 DEF NoCodes, CodesInv
<1>. QED
  BY <1>1, <1>2, <1>3, <1>4, <1>5, <1>6, <1>7, <1>8
     DEF FactorNext, SetupTotp, CodeAccepted, CodeRefused, RecoveryCleared, RequestCut,
         LockEnds, ClockTicks

\* A step that is accepted is later than every one used so far, or the write
\* sets the consumed step back.
LEMMA FactorStepsStep == ASSUME AccountsShape, StepsInv, FactorNext PROVE StepsInv'
<1>0. MaxStep \in Nat /\ setback \in Nat /\ lastStep \in 0..MaxStep + 1
  BY AccountsAssumption DEF AccountsShape
<1>1. ASSUME NEW r \in Requests, ConfirmTotp(r) PROVE StepsInv'
  <2>1. PICK n \in Steps :
          lastStep' = n /\ setback' = IF n < lastStep THEN setback + 1 ELSE setback
    BY <1>1 DEF ConfirmTotp
  <2>2. minted' = minted
    BY <1>1 DEF ConfirmTotp
  <2>. QED
    BY <1>0, <2>1, <2>2 DEF StepsInv, AccountsShape, Steps
<1>2. ASSUME NEW r \in Requests, DisableTotp(r) PROVE StepsInv'
  BY <1>0, <1>2 DEF DisableTotp, StepsInv
<1>3. ASSUME NEW r \in Requests, CodeAccepted(r) PROVE StepsInv'
  <2>1. PICK n \in Steps :
          /\ lastStep' = n /\ minted' = [minted EXCEPT ![n] = minted[n] + 1]
          /\ setback' = IF n <= lastStep THEN setback + 1 ELSE setback
    BY <1>3 DEF CodeAccepted
  <2>2. n \in 0..MaxStep + 1
    BY <1>0, <2>1 DEF Steps
  <2>3. \A i \in 0..MaxStep + 1 : minted'[i] = IF i = n THEN minted[n] + 1 ELSE minted[i]
    BY <2>1, <2>2 DEF AccountsShape
  <2>. QED
    BY <1>0, <2>1, <2>2, <2>3 DEF StepsInv, AccountsShape
<1>4. ASSUME UNCHANGED <<minted, setback, lastStep>> PROVE StepsInv'
  BY <1>4 DEF StepsInv
<1>. QED
  BY <1>1, <1>2, <1>3, <1>4
     DEF FactorNext, ReadRow, SetupTotp, PurgeCodes, StoreCode, RecoveryAccepted, CodeRefused,
         RecoveryCleared, RequestCut, LockEnds, ClockTicks

\* A failure either adds to the count that the row holds, or is outdated.
LEMMA FactorGuessStep == ASSUME AccountsShape, GuessInv, FactorNext PROVE GuessInv'
<1>0. Threshold \in Nat
  BY AccountsAssumption
<1>1. CASE guesses' = 0
  <2>. DEFINE o == outdated'
              f == failed'
  <2>1. o \in Nat /\ f \in Nat
    BY FactorShapeStep DEF AccountsShape
  <2>. HIDE DEF o, f
  <2>2. 0 <= o * Threshold + f
    BY <1>0, <2>1
  <2>. QED
    BY <1>1, <2>2 DEF GuessInv, o, f
<1>2. ASSUME UNCHANGED <<guesses, outdated, failed>> PROVE GuessInv'
  BY <1>2 DEF GuessInv
<1>3. ASSUME NEW r \in Requests, CodeRefused(r), guesses' # 0 PROVE GuessInv'
  <2>1. req[r].failed \in Nat
    BY <1>3, RowHeld DEF CodeRefused
  <2>2. ~(req[r].failed + 1 >= Threshold)
    BY <1>3 DEF CodeRefused, LocksOut
  <2>3. /\ failed' = req[r].failed + 1 /\ guesses' = guesses + 1
        /\ outdated' = IF req[r].failed = failed THEN outdated ELSE outdated + 1
    BY <1>3, <2>2 DEF CodeRefused, LocksOut
  <2>. DEFINE f == req[r].failed
              p == outdated * Threshold
  <2>4. p \in Nat /\ (outdated + 1) * Threshold = p + Threshold
    BY <1>0 DEF AccountsShape
  <2>5. f \in Nat /\ f + 1 < Threshold /\ failed \in Nat /\ guesses \in Nat
    BY <1>0, <2>1, <2>2 DEF AccountsShape
  <2>6. guesses <= p + failed /\ (failed >= Threshold => guesses = 0)
    BY DEF GuessInv
  <2>7. failed' = f + 1 /\ guesses' = guesses + 1
    BY <2>3
  <2>8. outdated' * Threshold = IF f = failed THEN p ELSE p + Threshold
    BY <2>3, <2>4
  <2>. HIDE DEF f, p
  <2>. DEFINE q == outdated' * Threshold
  <2>9. q = IF f = failed THEN p ELSE p + Threshold
    BY <2>8
  <2>. HIDE DEF q
  <2>10. guesses' <= q + failed'
    BY <1>0, <2>4, <2>5, <2>6, <2>7, <2>9
  <2>11. ~(failed' >= Threshold)
    BY <1>0, <2>5, <2>7
  <2>. QED
    BY <2>10, <2>11 DEF GuessInv, q
<1>. QED
  BY <1>1, <1>2, <1>3
     DEF FactorNext, ReadRow, SetupTotp, ConfirmTotp, PurgeCodes, StoreCode, DisableTotp,
         CodeAccepted, RecoveryAccepted, RecoveryCleared, RequestCut, LockEnds, ClockTicks,
         Cleared, NoCount

\* A step of a password reset leaves the second factor alone, and keeps the
\* shape of the links.
LEMMA ResetShapeStep == ASSUME AccountsShape, ResetNext PROVE AccountsShape' /\ NoFactor
<1>1. PICK l \in Links : \/ RequestReset(l) \/ StoreReset(l) \/ ResetExpires(l)
                         \/ ConfirmReset(l) \/ SetPassword(l)
  BY DEF ResetNext
<1>. DEFINE Fates == {"none", "due", "live", "claimed", "used"}
<1>2. link \in [Links -> Fates] /\ during \in [Links -> SUBSET Links] /\ resets \in [Links -> Nat]
  BY DEF AccountsShape
<1>3. NoFactor
  BY <1>1 DEF RequestReset, StoreReset, ResetExpires, ConfirmReset, SetPassword
<1>4. link' \in [Links -> Fates] /\ during' \in [Links -> SUBSET Links] /\ resets' \in [Links -> Nat]
  <2>1. CASE RequestReset(l)
    BY <1>2, <2>1 DEF RequestReset, LinksAt
  <2>2. CASE StoreReset(l)
    BY <1>2, <2>2 DEF StoreReset
  <2>3. CASE ResetExpires(l) \/ ConfirmReset(l)
    BY <1>2, <2>3 DEF ResetExpires, ConfirmReset
  <2>4. CASE SetPassword(l)
    BY <1>2, <2>4 DEF SetPassword
  <2>. QED
    BY <1>1, <2>1, <2>2, <2>3, <2>4
<1>5. AccountsShape'
  BY <1>3, <1>4 DEF NoFactor, NoCodes, NoCount, AccountsShape
<1>. QED
  BY <1>3, <1>5

\* A new link ends the live ones and knows those that are due; a link that is
\* claimed is no longer live, and sets one password.
LEMMA ResetLinksStep == ASSUME AccountsShape, LinksInv, ResetNext PROVE LinksInv'
<1>0. /\ link \in [Links -> {"none", "due", "live", "claimed", "used"}]
      /\ during \in [Links -> SUBSET Links] /\ resets \in [Links -> Nat]
  BY DEF AccountsShape
<1>1. ASSUME NEW l \in Links, RequestReset(l) PROVE LinksInv'
  <2>1. /\ link[l] = "none" /\ resets' = resets
        /\ \A m \in Links : link'[m] = IF m = l THEN "due" ELSE IF link[m] = "live" THEN "used" ELSE link[m]
        /\ \A m \in Links : during'[m] = IF m = l THEN LinksAt("due") ELSE during[m]
    BY <1>0, <1>1 DEF RequestReset
  <2>2. resets[l] = 0
    BY <1>0, <2>1 DEF LinksInv
  <2>3. \A m \in Links : m # l /\ link'[m] \in {"due", "live"} => m \in during'[l]
    BY <2>1 DEF LinksAt
  <2>4. \A m \in Links : resets'[m] <= 1 /\ (resets'[m] > 0 => link'[m] = "used")
    BY <1>0, <2>1, <2>2 DEF LinksInv
  <2>5. \A k, m \in Links :
          k # m /\ link'[k] \in {"due", "live"} /\ link'[m] \in {"due", "live"}
            => k \in during'[m] \/ m \in during'[k]
    BY <2>1, <2>3 DEF LinksInv
  <2>. QED
    BY <2>4, <2>5 DEF LinksInv
<1>2. ASSUME NEW l \in Links, StoreReset(l) PROVE LinksInv'
  BY <1>0, <1>2 DEF StoreReset, LinksInv
<1>3. ASSUME NEW l \in Links, ResetExpires(l) \/ ConfirmReset(l) PROVE LinksInv'
  BY <1>0, <1>3 DEF ResetExpires, ConfirmReset, LinksInv
<1>4. ASSUME NEW l \in Links, SetPassword(l) PROVE LinksInv'
  <2>1. resets[l] = 0
    BY <1>0, <1>4 DEF SetPassword, LinksInv
  <2>2. PICK n \in {0, 1} : resets' = [resets EXCEPT ![l] = @ + n]
    BY <1>4 DEF SetPassword
  <2>3. \A m \in Links : resets'[m] = IF m = l THEN n ELSE resets[m]
    BY <1>0, <2>1, <2>2
  <2>4. during' = during /\ \A m \in Links : link'[m] = IF m = l THEN "used" ELSE link[m]
    BY <1>0, <1>4 DEF SetPassword
  <2>. QED
    BY <2>3, <2>4 DEF LinksInv
<1>. QED
  BY <1>1, <1>2, <1>3, <1>4 DEF ResetNext

\* Every step of sign-in and enrolment keeps the invariant ...
LEMMA FactorStep == ASSUME AccountsInv, FactorNext PROVE AccountsInv'
<1>1. NoReset
  BY DEF FactorNext, ReadRow, SetupTotp, ConfirmTotp, PurgeCodes, StoreCode, DisableTotp,
         CodeAccepted, CodeRefused, RecoveryAccepted, RecoveryCleared, RequestCut, LockEnds,
         ClockTicks, NoClock
<1>2. LinksInv'
  BY <1>1 DEF NoReset, AccountsInv, LinksInv
<1>. QED
  BY <1>2, FactorShapeStep, FactorCodesStep, FactorStepsStep, FactorGuessStep DEF AccountsInv

\* ... and so does every step of a password reset.
LEMMA ResetStep == ASSUME AccountsInv, ResetNext PROVE AccountsInv'
<1>1. AccountsShape' /\ NoFactor
  BY ResetShapeStep DEF AccountsInv
<1>2. CodesInv' /\ StepsInv' /\ GuessInv'
  BY <1>1 DEF NoFactor, NoCodes, NoCount, AccountsInv, CodesInv, StepsInv, GuessInv
<1>. QED
  BY <1>1, <1>2, ResetLinksStep DEF AccountsInv

\* What the invariant says of sign-in.
LEMMA AccountsSafe ==
    ASSUME AccountsInv
    PROVE  AccountsTypeOK /\ RecoveryCodeOnce /\ StepOnce /\ ResetOnce /\ GuessesBounded
<1>0. Threshold \in Nat /\ MaxStep \in Nat
  BY AccountsAssumption
<1>1. AccountsTypeOK
  <2>1. \A r \in Requests : req[r].at \in {"rest", "read", "purge", "store", "clear"}
    <3>1. TAKE r \in Requests
    <3>2. req[r] \in {Resting} \cup RowRead \cup Enrolling \cup Clearing
      BY DEF AccountsInv, AccountsShape, Requesting
    <3>. QED
      BY <3>2 DEF Resting, RowRead, Enrolling, Clearing
  <2>. QED
    BY <2>1 DEF AccountsInv, AccountsShape, AccountsTypeOK
<1>2. RecoveryCodeOnce
  BY DEF AccountsInv, CodesInv, RecoveryCodeOnce
<1>3. StepOnce
  BY <1>0 DEF AccountsInv, AccountsShape, StepsInv, StepOnce
<1>4. ResetOnce
  BY DEF AccountsInv, LinksInv, ResetOnce, LinksAt
<1>5. GuessesBounded
  <2>. DEFINE p == outdated * Threshold
  <2>1. p \in Nat /\ (outdated + 1) * Threshold = p + Threshold
    BY <1>0 DEF AccountsInv, AccountsShape
  <2>2. guesses <= p + failed /\ (failed >= Threshold => guesses = 0)
    BY DEF AccountsInv, GuessInv
  <2>. HIDE DEF p
  <2>3. guesses \in Nat /\ failed \in Nat
    BY DEF AccountsInv, AccountsShape
  <2>4. guesses <= p + Threshold
    BY <1>0, <2>1, <2>2, <2>3
  <2>. QED
    BY <2>1, <2>4 DEF GuessesBounded
<1>. QED
  BY <1>1, <1>2, <1>3, <1>4, <1>5

-----------------------------------------------------------------------------
(* Guardrails.  An event whose deliveries did not overlap before either    *)
(* was remembered has one evaluation at a time, and none once it is in the *)
(* metrics (CountInv).  The cost of what is judged ALLOW and not yet added *)
(* is pledged: what is allowed and what is pledged stay within the budget  *)
(* (PledgeInv).  After a stop only those who had read the task before can  *)
(* still write (StopInv).                                                  *)

NotEvaluating == [at |-> "idle"]
Evaluating == [at : {"fresh", "ingested", "judged", "set"}, event : Events,
               says : {"none", "ALLOW", "DENY", "PAUSE", "STOP"}]

GuardShape ==
    /\ kind \in [Events -> Kinds]
    /\ state \in {"ACTIVE", "PAUSED", "STOPPED"}
    /\ metrics \in [cost : Nat, retries : Nat, toolErrors : Nat, requests : Nat]
    /\ ingested \subseteq Events
    /\ eval \in [Evals -> {NotEvaluating} \cup Evaluating]
    /\ resuming \in BOOLEAN
    /\ tallied \in [Events -> Nat]
    /\ allowed \in Nat /\ deliveries \in 0..MaxDeliveries

InHand(v, e) == eval[v].at # "idle" /\ eval[v].event = e

CountInv ==
    \A e \in Events : e \in outrun \/
        /\ tallied[e] <= 1 /\ (tallied[e] > 0 => e \in ingested)
        /\ \A v, w \in Evals : InHand(v, e) /\ InHand(w, e) => v = w
        /\ \A v \in Evals : InHand(v, e) =>
             tallied[e] = 0 /\ (eval[v].at # "fresh" => e \in ingested)

Pledged == [v \in Evals |-> IF eval[v].at \in {"judged", "set"} /\ eval[v].says = "ALLOW"
                            THEN kind[eval[v].event].cost ELSE 0]

PledgeInv ==
    /\ allowed <= metrics.cost
    /\ \A most \in Nat : (\A k \in Kinds : k.cost <= most) =>
         allowed + SumFunctionOnSet(Pledged, Evals)
            <= HardBudget + (Cardinality(Evals) - 1) * most

StopInv ==
    state = "STOPPED" =>
        /\ \A v \in Evals : eval[v].at = "judged" => v \in older
        /\ resuming => "operator" \in older

GuardrailsInv == GuardShape /\ CountInv /\ PledgeInv /\ StopInv

\* An evaluation that is under way has its event.
LEMMA EvaluatingHeld ==
    ASSUME GuardShape, NEW v \in Evals, eval[v].at # "idle"
    PROVE  /\ eval[v] \in Evaluating /\ eval[v].event \in Events
           /\ kind[eval[v].event] \in Kinds /\ kind[eval[v].event].cost \in Nat
<1>1. eval[v] \in {NotEvaluating} \cup Evaluating
  BY DEF GuardShape
<1>2. eval[v] # NotEvaluating
  BY DEF NotEvaluating
<1>3. eval[v] \in Evaluating /\ eval[v].event \in Events
  BY <1>1, <1>2 DEF Evaluating
<1>4. kind[eval[v].event] \in Kinds
  BY <1>3 DEF GuardShape
<1>. QED
  BY <1>3, <1>4, GuardrailsAssumption

\* What is pledged is a natural number for each evaluation.
LEMMA PledgedNat == ASSUME GuardShape PROVE \A v \in Evals : Pledged[v] \in Nat
BY EvaluatingHeld DEF Pledged

\* A new task.
LEMMA GuardrailsBegin == GuardrailsInit => GuardrailsInv
<1>. SUFFICES ASSUME GuardrailsInit PROVE GuardrailsInv
  OBVIOUS
<1>0. /\ HardBudget \in Nat /\ MaxDeliveries \in Nat
      /\ IsFiniteSet(Evals) /\ Evals # {}
  BY GuardrailsAssumption
<1>1. GuardShape
  <2>1. eval \in [Evals -> {NotEvaluating} \cup Evaluating]
    BY DEF GuardrailsInit, NotEvaluating
  <2>2. tallied \in [Events -> Nat] /\ deliveries \in 0..MaxDeliveries
    BY <1>0 DEF GuardrailsInit
  <2>3. metrics \in [cost : Nat, retries : Nat, toolErrors : Nat, requests : Nat]
    BY DEF GuardrailsInit
  <2>. QED
    BY <2>1, <2>2, <2>3 DEF GuardrailsInit, GuardShape
<1>2. CountInv /\ StopInv
  BY DEF GuardrailsInit, CountInv, StopInv, InHand
<1>3. PledgeInv
  <2>1. \A v \in Evals : Pledged[v] = 0
    BY DEF GuardrailsInit, Pledged
  <2>2. SumFunctionOnSet(Pledged, Evals) = 0
    BY <1>0, <2>1, SumZero
  <2>3. Cardinality(Evals) \in Nat /\ Cardinality(Evals) # 0
    BY <1>0, FS_CardinalityType, FS_EmptySet
  <2>4. ASSUME NEW most \in Nat PROVE 0 <= HardBudget + (Cardinality(Evals) - 1) * most
    <3>1. Cardinality(Evals) - 1 \in Nat
      BY <2>3
    <3>. QED
      BY <1>0, <3>1
  <2>. QED
    BY <2>2, <2>4 DEF GuardrailsInit, PledgeInv
<1>. QED
  BY <1>1, <1>2, <1>3 DEF GuardrailsInv

\* The answer is one of four.
LEMMA JudgeAnswers == ASSUME NEW k PROVE Judge(k) \in {"ALLOW", "DENY", "PAUSE", "STOP"}
BY DEF Judge

\* Moving an evaluation on keeps its event and its answer.
LEMMA EvalMovesOn ==
    ASSUME GuardShape, NEW v \in Evals, eval[v].at # "idle",
           NEW to \in {"fresh", "ingested", "judged", "set"}, EvalMoves(v, to)
    PROVE  /\ eval' \in [Evals -> {NotEvaluating} \cup Evaluating]
           /\ eval'[v].at = to /\ eval'[v].event = eval[v].event /\ eval'[v].says = eval[v].says
           /\ \A w \in Evals : w # v => eval'[w] = eval[w]
<1>1. eval[v] \in Evaluating
  BY EvaluatingHeld
<1>2. [eval[v] EXCEPT !.at = to] \in Evaluating
  BY <1>1 DEF Evaluating
<1>3. eval' = [eval EXCEPT ![v] = [eval[v] EXCEPT !.at = to]]
  BY DEF EvalMoves
<1>. QED
  BY <1>1, <1>2, <1>3 DEF GuardShape, Evaluating

\* An evaluation that ends.
LEMMA EvalEnds ==
    ASSUME GuardShape, NEW v \in Evals, eval' = [eval EXCEPT ![v] = NotEvaluating]
    PROVE  /\ eval' \in [Evals -> {NotEvaluating} \cup Evaluating]
           /\ eval'[v].at = "idle"
           /\ \A w \in Evals : w # v => eval'[w] = eval[w]
BY DEF GuardShape, NotEvaluating

\* A delivery that is not a duplicate.
LEMMA EvalBegins ==
    ASSUME GuardShape, NEW v \in Evals, NEW e \in Events,
           eval' = [eval EXCEPT ![v] = [at |-> "fresh", event |-> e, says |-> "none"]]
    PROVE  /\ eval' \in [Evals -> {NotEvaluating} \cup Evaluating]
           /\ eval'[v].at = "fresh" /\ eval'[v].event = e
           /\ \A w \in Evals : w # v => eval'[w] = eval[w]
BY DEF GuardShape, Evaluating

\* A judgement: the task was turned, or the answer is written down.
LEMMA EvalJudged ==
    ASSUME GuardShape, NEW v \in Evals, EvaluateTask(v), ~Turned
    PROVE  /\ eval' \in [Evals -> {NotEvaluating} \cup Evaluating]
           /\ eval'[v].at = "judged" /\ eval'[v].event = eval[v].event
           /\ eval'[v].says = Judge(kind[eval[v].event])
           /\ \A w \in Evals : w # v => eval'[w] = eval[w]
<1>1. eval[v] \in Evaluating
  BY EvaluatingHeld DEF EvaluateTask
<1>. DEFINE j == Judge(kind[eval[v].event])
<1>2. j \in {"ALLOW", "DENY", "PAUSE", "STOP"}
  BY JudgeAnswers
<1>3. eval' = [eval EXCEPT ![v] = [eval[v] EXCEPT !.at = "judged", !.says = j]]
  BY DEF EvaluateTask
<1>. HIDE DEF j
<1>4. [eval[v] EXCEPT !.at = "judged", !.says = j] \in Evaluating
  BY <1>1, <1>2 DEF Evaluating
<1>5. /\ eval' \in [Evals -> {NotEvaluating} \cup Evaluating]
      /\ eval'[v].at = "judged" /\ eval'[v].event = eval[v].event /\ eval'[v].says = j
      /\ \A w \in Evals : w # v => eval'[w] = eval[w]
  BY <1>1, <1>3, <1>4 DEF GuardShape, Evaluating
<1>. QED
  BY <1>5 DEF j

\* Every step of the guardrails keeps the shape of the state.
LEMMA GuardShapeStep == ASSUME GuardShape, GuardrailsNext PROVE GuardShape'
<1>0. MaxDeliveries \in Nat
  BY GuardrailsAssumption
<1>1. ASSUME NEW v \in Evals, NEW e \in Events, Deliver(v, e) PROVE GuardShape'
  <2>1. eval' \in [Evals -> {NotEvaluating} \cup Evaluating]
    BY <1>1, EvalBegins DEF Deliver, GuardShape
  <2>2. deliveries' \in 0..MaxDeliveries
    BY <1>0, <1>1 DEF Deliver, GuardShape
  <2>. QED
    BY <1>1, <2>1, <2>2 DEF Deliver, GuardShape
<1>2. ASSUME NEW v \in Evals, RecordEventIngestion(v) PROVE GuardShape'
  <2>1. eval' \in [Evals -> {NotEvaluating} \cup Evaluating]
    BY <1>2, EvalMovesOn DEF RecordEventIngestion
  <2>2. ingested' \subseteq Events
    BY <1>2, EvaluatingHeld DEF RecordEventIngestion, GuardShape
  <2>. QED
    BY <1>2, <2>1, <2>2 DEF RecordEventIngestion, GuardShape
<1>3. ASSUME NEW v \in Evals, EvaluateTask(v) PROVE GuardShape'
  <2>1. CASE Turned
    <3>1. eval' \in [Evals -> {NotEvaluating} \cup Evaluating]
      BY <1>3, <2>1, EvalEnds DEF EvaluateTask, NotEvaluating
    <3>. QED
      BY <1>3, <3>1 DEF EvaluateTask, GuardShape
  <2>2. CASE ~Turned
    <3>1. eval' \in [Evals -> {NotEvaluating} \cup Evaluating]
      BY <1>3, <2>2, EvalJudged
    <3>. QED
      BY <1>3, <3>1 DEF EvaluateTask, GuardShape
  <2>. QED
    BY <2>1, <2>2
<1>4. ASSUME NEW v \in Evals, SetTaskState(v) PROVE GuardShape'
  <2>1. eval' \in [Evals -> {NotEvaluating} \cup Evaluating]
    BY <1>4, EvalMovesOn DEF SetTaskState
  <2>2. state' \in {"ACTIVE", "PAUSED", "STOPPED"}
    BY <1>4 DEF SetTaskState, GuardShape
  <2>. QED
    BY <1>4, <2>1, <2>2 DEF SetTaskState, GuardShape
<1>5. ASSUME NEW v \in Evals, UpdateTaskMetrics(v) PROVE GuardShape'
  <2>1. eval' \in [Evals -> {NotEvaluating} \cup Evaluating]
    BY <1>5, EvalEnds DEF UpdateTaskMetrics, NotEvaluating
  <2>2. eval[v].event \in Events /\ kind[eval[v].event].cost \in Nat
    BY <1>5, EvaluatingHeld DEF UpdateTaskMetrics
  <2>3. tallied' \in [Events -> Nat]
    BY <1>5, <2>2 DEF UpdateTaskMetrics, GuardShape
  <2>. DEFINE k == kind[eval[v].event]
  <2>4. metrics' = [cost |-> metrics.cost + k.cost,
                    retries |-> metrics.retries + Count(k.retry),
                    toolErrors |-> IF ~k.toolError /\ k.tool THEN 0
                                   ELSE metrics.toolErrors + Count(k.toolError),
                    requests |-> metrics.requests + 1]
    BY <1>5 DEF UpdateTaskMetrics
  <2>5. Count(k.retry) \in Nat /\ Count(k.toolError) \in Nat
    BY DEF Count
  <2>6. allowed' = allowed + (IF eval[v].says = "ALLOW" THEN k.cost ELSE 0)
    BY <1>5 DEF UpdateTaskMetrics
  <2>7. k.cost \in Nat
    BY <2>2
  <2>. HIDE DEF k
  <2>8. metrics' \in [cost : Nat, retries : Nat, toolErrors : Nat, requests : Nat]
    BY <2>4, <2>5, <2>7 DEF GuardShape
  <2>9. allowed' \in Nat
    BY <2>6, <2>7 DEF GuardShape
  <2>. QED
    BY <1>5, <2>1, <2>3, <2>8, <2>9 DEF UpdateTaskMetrics, GuardShape
<1>6. CASE ResumeRead
  BY <1>6 DEF ResumeRead, GuardShape
<1>7. CASE ResumeWrite
  <2>1. metrics' \in [cost : Nat, retries : Nat, toolErrors : Nat, requests : Nat]
    BY <1>7 DEF ResumeWrite, GuardShape
  <2>. QED
    BY <1>7, <2>1 DEF ResumeWrite, GuardShape
<1>8. CASE GuardrailsKilled
  <2>1. eval' \in [Evals -> {NotEvaluating} \cup Evaluating]
    BY <1>8 DEF GuardrailsKilled, NotEvaluating
  <2>. QED
    BY <1>8, <2>1 DEF GuardrailsKilled, GuardShape
<1>. QED
  BY <1>1, <1>2, <1>3, <1>4, <1>5, <1>6, <1>7, <1>8 DEF GuardrailsNext

\* An event is remembered before it is judged, and judged before it is counted.
LEMMA GuardCountStep == ASSUME GuardShape, CountInv, GuardrailsNext PROVE CountInv'
<1>1. ASSUME NEW v \in Evals, NEW e \in Events, Deliver(v, e) PROVE CountInv'
  <2>1. CASE e \in ingested
    BY <1>1, <2>1 DEF Deliver, CountInv, InHand
  <2>2. CASE e \notin ingested
    <3>1. /\ eval'[v].at = "fresh" /\ eval'[v].event = e
          /\ \A w \in Evals : w # v => eval'[w] = eval[w]
      BY <1>1, <2>2, EvalBegins DEF Deliver
    <3>2. tallied' = tallied /\ ingested' = ingested
      BY <1>1 DEF Deliver
    <3>3. outrun \subseteq outrun'
      BY <1>1 DEF Deliver
    <3>4. \A w \in Evals : eval[w].at = "fresh" /\ eval[w].event = e => e \in outrun'
      BY <1>1 DEF Deliver
    <3>5. eval[v].at = "idle"
      BY <1>1 DEF Deliver
    <3>. QED
      BY <2>2, <3>1, <3>2, <3>3, <3>4, <3>5 DEF CountInv, InHand, GuardShape
  <2>. QED
    BY <2>1, <2>2
<1>2. ASSUME NEW v \in Evals, RecordEventIngestion(v) PROVE CountInv'
  <2>1. /\ eval'[v].at = "ingested" /\ eval'[v].event = eval[v].event
        /\ \A w \in Evals : w # v => eval'[w] = eval[w]
    BY <1>2, EvalMovesOn DEF RecordEventIngestion
  <2>. QED
    BY <1>2, <2>1 DEF RecordEventIngestion, CountInv, InHand
<1>3. ASSUME NEW v \in Evals, EvaluateTask(v) PROVE CountInv'
  <2>1. eval'[v].at = "idle" \/ (eval'[v].at = "judged" /\ eval'[v].event = eval[v].event)
    BY <1>3, EvalJudged, EvalEnds DEF EvaluateTask, NotEvaluating
  <2>2. \A w \in Evals : w # v => eval'[w] = eval[w]
    BY <1>3, EvalJudged, EvalEnds DEF EvaluateTask, NotEvaluating
  <2>. QED
    BY <1>3, <2>1, <2>2 DEF EvaluateTask, CountInv, InHand
<1>4. ASSUME NEW v \in Evals, SetTaskState(v) PROVE CountInv'
  <2>1. /\ eval'[v].at = "set" /\ eval'[v].event = eval[v].event
        /\ \A w \in Evals : w # v => eval'[w] = eval[w]
    BY <1>4, EvalMovesOn DEF SetTaskState
  <2>. QED
    BY <1>4, <2>1 DEF SetTaskState, CountInv, InHand
<1>5. ASSUME NEW v \in Evals, UpdateTaskMetrics(v) PROVE CountInv'
  <2>1. eval'[v].at = "idle" /\ \A w \in Evals : w # v => eval'[w] = eval[w]
    BY <1>5, EvalEnds DEF UpdateTaskMetrics, NotEvaluating
  <2>2. eval[v].event \in Events
    BY <1>5, EvaluatingHeld DEF UpdateTaskMetrics
  <2>3. \A e \in Events : tallied'[e] = IF e = eval[v].event THEN tallied[e] + 1 ELSE tallied[e]
    BY <1>5, <2>2 DEF UpdateTaskMetrics, GuardShape
  <2>4. eval[v].at = "set" /\ ingested' = ingested /\ outrun' = outrun
    BY <1>5 DEF UpdateTaskMetrics
  <2>5. ASSUME NEW e \in Events, e \notin outrun
        PROVE  /\ tallied'[e] <= 1 /\ (tallied'[e] > 0 => e \in ingested')
               /\ \A u, w \in Evals : InHand(u, e)' /\ InHand(w, e)' => u = w
               /\ \A u \in Evals : InHand(u, e)' =>
                    tallied'[e] = 0 /\ (eval'[u].at # "fresh" => e \in ingested')
    <3>1. \A u \in Evals : InHand(u, e)' => InHand(u, e) /\ u # v /\ eval'[u] = eval[u]
      BY <2>1 DEF InHand
    <3>2. CASE e = eval[v].event
      <4>1. InHand(v, e) /\ tallied[e] = 0 /\ e \in ingested
        BY <2>4, <2>5, <3>2 DEF InHand, CountInv
      <4>. QED
        BY <2>3, <2>4, <2>5, <3>1, <3>2, <4>1 DEF CountInv
    <3>3. CASE e # eval[v].event
      BY <2>3, <2>4, <2>5, <3>1, <3>3 DEF CountInv
    <3>. QED
      BY <3>2, <3>3
  <2>. QED
    BY <2>4, <2>5 DEF CountInv
<1>6. CASE ResumeRead \/ ResumeWrite
  BY <1>6 DEF ResumeRead, ResumeWrite, CountInv, InHand
<1>7. CASE GuardrailsKilled
  <2>1. \A v \in Evals : eval'[v].at = "idle"
    BY <1>7 DEF GuardrailsKilled
  <2>. QED
    BY <1>7, <2>1 DEF GuardrailsKilled, CountInv, InHand
<1>. QED
  BY <1>1, <1>2, <1>3, <1>4, <1>5, <1>6, <1>7 DEF GuardrailsNext

\* The pledges change with one evaluation: by what it pledges now instead of
\* what it pledged before.
LEMMA PledgeMoves ==
    ASSUME GuardShape, GuardShape', kind' = kind, NEW v \in Evals,
           \A w \in Evals : w # v => eval'[w] = eval[w]
    PROVE  /\ SumFunctionOnSet(Pledged, Evals)'
                = SumFunctionOnSet(Pledged, Evals) - Pledged[v] + Pledged'[v]
           /\ Pledged[v] \in Nat /\ Pledged'[v] \in Nat
           /\ SumFunctionOnSet(Pledged, Evals) \in Nat
<1>. DEFINE P == Pledged
            Q == Pledged'
<1>1. \A w \in Evals : P[w] \in Nat /\ Q[w] \in Nat
  <2>1. \A w \in Evals : Pledged[w] \in Nat
    BY PledgedNat
  <2>2. \A w \in Evals : Pledged'[w] \in Nat
    <3>. SUFFICES ASSUME NEW w \in Evals PROVE Pledged'[w] \in Nat
      OBVIOUS
    <3>1. CASE eval'[w].at = "idle"
      BY <3>1 DEF Pledged
    <3>2. CASE eval'[w].at # "idle"
      <4>1. eval'[w] \in Evaluating
        BY <3>2 DEF GuardShape, NotEvaluating
      <4>2. kind'[eval'[w].event] \in Kinds
        BY <4>1 DEF Evaluating, GuardShape
      <4>. QED
        BY <4>2, GuardrailsAssumption DEF Pledged
    <3>. QED
      BY <3>1, <3>2
  <2>. QED
    BY <2>1, <2>2
<1>2. \A w \in Evals : w # v => P[w] = Q[w]
  BY DEF Pledged
<1>3. IsFiniteSet(Evals)
  BY GuardrailsAssumption
<1>4. SumFunctionOnSet(Pledged, Evals)' = SumFunctionOnSet(Q, Evals)
  OBVIOUS
<1>. HIDE DEF P, Q
<1>5. SumFunctionOnSet(Q, Evals) = SumFunctionOnSet(P, Evals) - P[v] + Q[v]
  BY <1>1, <1>2, <1>3, SumUpdate
<1>6. SumFunctionOnSet(P, Evals) \in Nat
  BY <1>1, <1>3, SumNat
<1>. QED
  BY <1>1, <1>4, <1>5, <1>6 DEF P, Q

\* What is allowed and pledged does not grow when a pledge is kept, dropped or
\* not made.
LEMMA PledgeKept ==
    ASSUME GuardShape, GuardShape', PledgeInv, NEW v \in Evals, kind' = kind,
           \A w \in Evals : w # v => eval'[w] = eval[w],
           allowed' + Pledged'[v] <= allowed + Pledged[v],
           allowed' <= metrics'.cost
    PROVE  PledgeInv'
<1>. DEFINE S == SumFunctionOnSet(Pledged, Evals)
            T == SumFunctionOnSet(Pledged, Evals)'
            p == Pledged[v]
            q == Pledged'[v]
            a == allowed
            b == allowed'
<1>1. T = S - p + q /\ p \in Nat /\ q \in Nat /\ S \in Nat
  BY PledgeMoves
<1>2. a \in Nat /\ b \in Nat
  BY DEF GuardShape
<1>3. b + q <= a + p
  OBVIOUS
<1>. SUFFICES ASSUME NEW most \in Nat, \A k \in Kinds : k.cost <= most
              PROVE  b + T <= HardBudget + (Cardinality(Evals) - 1) * most
  BY DEF PledgeInv
<1>4. a + S <= HardBudget + (Cardinality(Evals) - 1) * most
  BY DEF PledgeInv
<1>5. IsFiniteSet(Evals) /\ HardBudget \in Nat
  BY GuardrailsAssumption
<1>. DEFINE m == HardBudget + (Cardinality(Evals) - 1) * most
<1>6. m \in Int
  BY <1>5, FS_CardinalityType
<1>7. a + S <= m
  BY <1>4
<1>. HIDE DEF S, T, p, q, a, b, m
<1>8. b + T <= m
  BY <1>1, <1>2, <1>3, <1>6, <1>7
<1>. QED
  BY <1>8 DEF m

\* An event is allowed when it fits beside all that is in the metrics; only
\* the pledges of the other evaluations are not in them.
LEMMA PledgeMade ==
    ASSUME GuardShape, GuardShape', PledgeInv, NEW v \in Evals, EvaluateTask(v), ~Turned,
           Judge(kind[eval[v].event]) = "ALLOW"
    PROVE  PledgeInv'
<1>. DEFINE k == kind[eval[v].event]
<1>1. k.cost \in Nat /\ k \in Kinds
  BY EvaluatingHeld DEF EvaluateTask
<1>2. ~(metrics.cost + k.cost > HardBudget)
  BY DEF Judge
<1>3. /\ eval'[v].at = "judged" /\ eval'[v].event = eval[v].event /\ eval'[v].says = "ALLOW"
      /\ \A w \in Evals : w # v => eval'[w] = eval[w]
  BY EvalJudged
<1>4. kind' = kind /\ allowed' = allowed /\ metrics' = metrics /\ eval[v].at = "ingested"
  BY DEF EvaluateTask
<1>5. Pledged'[v] = k.cost /\ Pledged[v] = 0
  BY <1>3, <1>4 DEF Pledged
<1>. SUFFICES ASSUME NEW most \in Nat, \A kk \in Kinds : kk.cost <= most
              PROVE  allowed + SumFunctionOnSet(Pledged, Evals)'
                        <= HardBudget + (Cardinality(Evals) - 1) * most
  BY <1>4 DEF PledgeInv
<1>. DEFINE Q == Pledged'
            T == SumFunctionOnSet(Q, Evals)
            R == SumFunctionOnSet(Q, Evals \ {v})
            n == Cardinality(Evals) - 1
<1>6. IsFiniteSet(Evals) /\ HardBudget \in Nat
  BY GuardrailsAssumption
<1>7. \A w \in Evals : Q[w] \in Nat /\ Q[w] <= most
  <2>. SUFFICES ASSUME NEW w \in Evals PROVE Q[w] \in Nat /\ Q[w] <= most
    OBVIOUS
  <2>1. CASE eval'[w].at = "idle"
    BY <2>1 DEF Pledged
  <2>2. CASE eval'[w].at # "idle"
    <3>1. eval'[w] \in Evaluating
      BY <2>2 DEF GuardShape, NotEvaluating
    <3>2. kind'[eval'[w].event] \in Kinds
      BY <3>1 DEF Evaluating, GuardShape
    <3>. QED
      BY <3>2, GuardrailsAssumption DEF Pledged
  <2>. QED
    BY <2>1, <2>2
<1>8. SumFunctionOnSet(Pledged, Evals)' = T /\ Q[v] = k.cost
  BY <1>5
<1>. HIDE DEF Q
<1>9. T = Q[v] + R
  BY <1>6, <1>7, SumRemove
<1>10. /\ IsFiniteSet(Evals \ {v}) /\ Cardinality(Evals \ {v}) = n /\ n \in Nat
  <2>1. IsFiniteSet(Evals \ {v}) /\ Cardinality(Evals \ {v}) = n
    BY <1>6, FS_RemoveElement
  <2>. QED
    BY <2>1, FS_CardinalityType
<1>. HIDE DEF n
<1>11. R \in Nat /\ R <= n * most
  <2>1. \A w \in Evals \ {v} : Q[w] \in Nat /\ Q[w] <= most
    BY <1>7
  <2>2. R \in Nat /\ R <= Cardinality(Evals \ {v}) * most
    BY <1>10, <2>1, SumBound
  <2>. QED
    BY <1>10, <2>2
<1>12. metrics.cost \in Nat /\ allowed \in Nat /\ allowed <= metrics.cost
  BY DEF GuardShape, PledgeInv
<1>13. n * most \in Nat
  BY <1>10
<1>. DEFINE c == k.cost
            m == metrics.cost
            x == n * most
<1>14. /\ c \in Nat /\ m \in Nat /\ x \in Nat /\ ~(m + c > HardBudget)
       /\ T = c + R /\ R <= x /\ allowed <= m
  BY <1>1, <1>2, <1>8, <1>9, <1>11, <1>12, <1>13
<1>. HIDE DEF c, m, x, R, T
<1>15. allowed + T <= HardBudget + x
  BY <1>6, <1>11, <1>12, <1>14
<1>. QED
  BY <1>8, <1>15 DEF x, n

\* No step lets through more than the budget and the pledges of the others.
LEMMA GuardPledgeStep == ASSUME GuardShape, PledgeInv, GuardrailsNext PROVE PledgeInv'
<1>0. GuardShape'
  BY GuardShapeStep
<1>1. ASSUME NEW v \in Evals, kind' = kind, allowed' = allowed, metrics'.cost = metrics.cost,
             \A w \in Evals : w # v => eval'[w] = eval[w],
             Pledged'[v] = Pledged[v]
      PROVE  PledgeInv'
  <2>1. allowed \in Nat /\ Pledged[v] \in Nat
    BY PledgedNat DEF GuardShape
  <2>2. allowed' + Pledged'[v] <= allowed + Pledged[v]
    BY <1>1, <2>1
  <2>3. allowed' <= metrics'.cost
    BY <1>1 DEF PledgeInv
  <2>. QED
    BY <1>0, <1>1, <2>2, <2>3, PledgeKept
<1>2. ASSUME NEW v \in Evals, NEW e \in Events, Deliver(v, e) PROVE PledgeInv'
  <2>1. kind' = kind /\ allowed' = allowed /\ metrics' = metrics /\ eval[v].at = "idle"
    BY <1>2 DEF Deliver
  <2>2. CASE e \in ingested
    <3>1. eval' = eval
      BY <1>2, <2>2 DEF Deliver
    <3>. QED
      BY <2>1, <3>1 DEF PledgeInv, Pledged
  <2>3. CASE e \notin ingested
    <3>1. eval'[v].at = "fresh" /\ \A w \in Evals : w # v => eval'[w] = eval[w]
      BY <1>2, <2>3, EvalBegins DEF Deliver
    <3>2. Pledged'[v] = Pledged[v]
      BY <2>1, <3>1 DEF Pledged
    <3>. QED
      BY <1>1, <2>1, <3>1, <3>2
  <2>. QED
    BY <2>2, <2>3
<1>3. ASSUME NEW v \in Evals, RecordEventIngestion(v) PROVE PledgeInv'
  <2>1. kind' = kind /\ allowed' = allowed /\ metrics' = metrics /\ eval[v].at = "fresh"
    BY <1>3 DEF RecordEventIngestion
  <2>2. eval'[v].at = "ingested" /\ \A w \in Evals : w # v => eval'[w] = eval[w]
    BY <1>3, <2>1, EvalMovesOn DEF RecordEventIngestion
  <2>3. Pledged'[v] = Pledged[v]
    BY <2>1, <2>2 DEF Pledged
  <2>. QED
    BY <1>1, <2>1, <2>2, <2>3
<1>4. ASSUME NEW v \in Evals, EvaluateTask(v) PROVE PledgeInv'
  <2>1. kind' = kind /\ allowed' = allowed /\ metrics' = metrics /\ eval[v].at = "ingested"
    BY <1>4 DEF EvaluateTask
  <2>2. CASE Turned
    <3>1. eval'[v].at = "idle" /\ \A w \in Evals : w # v => eval'[w] = eval[w]
      BY <1>4, <2>2, EvalEnds DEF EvaluateTask, NotEvaluating
    <3>2. Pledged'[v] = Pledged[v]
      BY <2>1, <3>1 DEF Pledged
    <3>. QED
      BY <1>1, <2>1, <3>1, <3>2
  <2>3. CASE ~Turned /\ Judge(kind[eval[v].event]) # "ALLOW"
    <3>1. eval'[v].says # "ALLOW" /\ \A w \in Evals : w # v => eval'[w] = eval[w]
      BY <1>4, <2>3, EvalJudged
    <3>2. Pledged'[v] = Pledged[v]
      BY <2>1, <3>1 DEF Pledged
    <3>. QED
      BY <1>1, <2>1, <3>1, <3>2
  <2>4. CASE ~Turned /\ Judge(kind[eval[v].event]) = "ALLOW"
    BY <1>0, <1>4, <2>4, PledgeMade
  <2>. QED
    BY <2>2, <2>3, <2>4
<1>5. ASSUME NEW v \in Evals, SetTaskState(v) PROVE PledgeInv'
  <2>1. kind' = kind /\ allowed' = allowed /\ metrics' = metrics /\ eval[v].at = "judged"
    BY <1>5 DEF SetTaskState
  <2>2. /\ eval'[v].at = "set" /\ eval'[v].event = eval[v].event /\ eval'[v].says = eval[v].says
        /\ \A w \in Evals : w # v => eval'[w] = eval[w]
    BY <1>5, <2>1, EvalMovesOn DEF SetTaskState
  <2>3. Pledged'[v] = Pledged[v]
    BY <2>1, <2>2 DEF Pledged
  <2>. QED
    BY <1>1, <2>1, <2>2, <2>3
<1>6. ASSUME NEW v \in Evals, UpdateTaskMetrics(v) PROVE PledgeInv'
  <2>. DEFINE c == kind[eval[v].event].cost
  <2>1. c \in Nat /\ eval[v].at = "set"
    BY <1>6, EvaluatingHeld DEF UpdateTaskMetrics
  <2>2. /\ kind' = kind /\ metrics'.cost = metrics.cost + c
        /\ allowed' = allowed + (IF eval[v].says = "ALLOW" THEN c ELSE 0)
    BY <1>6 DEF UpdateTaskMetrics
  <2>3. eval'[v].at = "idle" /\ \A w \in Evals : w # v => eval'[w] = eval[w]
    BY <1>6, EvalEnds DEF UpdateTaskMetrics, NotEvaluating
  <2>4. Pledged'[v] = 0 /\ Pledged[v] = IF eval[v].says = "ALLOW" THEN c ELSE 0
    BY <2>1, <2>3 DEF Pledged
  <2>5. allowed \in Nat /\ metrics.cost \in Nat /\ allowed <= metrics.cost
    BY DEF GuardShape, PledgeInv
  <2>. HIDE DEF c
  <2>6. allowed' + Pledged'[v] <= allowed + Pledged[v] /\ allowed' <= metrics'.cost
    BY <2>1, <2>2, <2>4, <2>5
  <2>. QED
    BY <1>0, <2>2, <2>3, <2>6, PledgeKept
<1>7. ASSUME kind' = kind, allowed' = allowed, metrics'.cost = metrics.cost, eval' = eval
      PROVE  PledgeInv'
  BY <1>7 DEF PledgeInv, Pledged
<1>8. CASE ResumeRead
  BY <1>7, <1>8 DEF ResumeRead
<1>9. CASE ResumeWrite
  <2>1. metrics'.cost = metrics.cost
    BY <1>9 DEF ResumeWrite, GuardShape
  <2>. QED
    BY <1>7, <1>9, <2>1 DEF ResumeWrite
<1>10. CASE GuardrailsKilled
  <2>. DEFINE Q == Pledged'
              S == SumFunctionOnSet(Pledged, Evals)
  <2>1. \A v \in Evals : Q[v] = 0
    BY <1>10 DEF GuardrailsKilled, Pledged
  <2>2. IsFiniteSet(Evals) /\ HardBudget \in Nat
    BY GuardrailsAssumption
  <2>. HIDE DEF Q
  <2>3. SumFunctionOnSet(Q, Evals) = 0
    BY <2>1, <2>2, SumZero
  <2>4. SumFunctionOnSet(Pledged, Evals)' = 0
    BY <2>3 DEF Q
  <2>5. S \in Nat /\ allowed \in Nat /\ allowed' = allowed /\ metrics' = metrics
    BY <1>10, <2>2, PledgedNat, SumNat DEF GuardrailsKilled, GuardShape
  <2>6. ASSUME NEW most \in Nat, allowed + S <= HardBudget + (Cardinality(Evals) - 1) * most
        PROVE  allowed + 0 <= HardBudget + (Cardinality(Evals) - 1) * most
    <3>. DEFINE m == HardBudget + (Cardinality(Evals) - 1) * most
    <3>1. m \in Int
      BY <2>2, FS_CardinalityType
    <3>2. allowed + S <= m
      BY <2>6
    <3>. HIDE DEF S, m
    <3>3. allowed + 0 <= m
      BY <2>5, <3>1, <3>2
    <3>. QED
      BY <3>3 DEF m
  <2>. QED
    BY <2>4, <2>5, <2>6 DEF PledgeInv
<1>. QED
  BY <1>2, <1>3, <1>4, <1>5, <1>6, <1>8, <1>9, <1>10 DEF GuardrailsNext

\* After a stop nobody reads the task as running or paused.
LEMMA GuardStopStep == ASSUME GuardShape, StopInv, GuardrailsNext PROVE StopInv'
<1>1. ASSUME NEW v \in Evals, NEW e \in Events, Deliver(v, e) PROVE StopInv'
  <2>1. \A w \in Evals : eval'[w].at = "judged" => eval[w].at = "judged"
    BY <1>1, EvalBegins DEF Deliver
  <2>. QED
    BY <1>1, <2>1 DEF Deliver, StopInv
<1>2. ASSUME NEW v \in Evals, RecordEventIngestion(v) PROVE StopInv'
  <2>1. \A w \in Evals : eval'[w].at = "judged" => eval[w].at = "judged"
    BY <1>2, EvalMovesOn DEF RecordEventIngestion
  <2>. QED
    BY <1>2, <2>1 DEF RecordEventIngestion, StopInv
<1>3. ASSUME NEW v \in Evals, EvaluateTask(v) PROVE StopInv'
  <2>1. SUFFICES ASSUME state = "STOPPED" PROVE StopInv'
    BY <1>3 DEF StopInv, EvaluateTask
  <2>2. Turned
    BY <2>1 DEF Turned
  <2>3. \A w \in Evals : eval'[w].at = "judged" => eval[w].at = "judged"
    BY <1>3, <2>2, EvalEnds DEF EvaluateTask, NotEvaluating
  <2>. QED
    BY <1>3, <2>3 DEF EvaluateTask, StopInv
<1>4. ASSUME NEW v \in Evals, SetTaskState(v) PROVE StopInv'
  <2>1. eval'[v].at = "set" /\ \A w \in Evals : w # v => eval'[w] = eval[w]
    BY <1>4, EvalMovesOn DEF SetTaskState
  <2>2. "operator" # v
    BY GuardrailsAssumption
  <2>3. CASE eval[v].says = "STOP"
    BY <1>4, <2>1, <2>3 DEF SetTaskState, StopInv
  <2>4. CASE eval[v].says # "STOP"
    BY <1>4, <2>1, <2>2, <2>4 DEF SetTaskState, StopInv
  <2>. QED
    BY <2>3, <2>4
<1>5. ASSUME NEW v \in Evals, UpdateTaskMetrics(v) PROVE StopInv'
  <2>1. eval'[v].at = "idle" /\ \A w \in Evals : w # v => eval'[w] = eval[w]
    BY <1>5, EvalEnds DEF UpdateTaskMetrics, NotEvaluating
  <2>. QED
    BY <1>5, <2>1 DEF UpdateTaskMetrics, StopInv
<1>6. CASE ResumeRead \/ ResumeWrite \/ GuardrailsKilled
  BY <1>6 DEF ResumeRead, ResumeWrite, GuardrailsKilled, StopInv
<1>. QED
  BY <1>1, <1>2, <1>3, <1>4, <1>5, <1>6 DEF GuardrailsNext

\* Every step of the guardrails keeps the invariant.
LEMMA GuardrailsStep == ASSUME GuardrailsInv, GuardrailsNext PROVE GuardrailsInv'
BY GuardShapeStep, GuardCountStep, GuardPledgeStep, GuardStopStep DEF GuardrailsInv

\* A stopped task is left only by one of those that had read it before.
LEMMA GuardrailsStopped ==
    ASSUME GuardrailsInv, GuardrailsNext, state = "STOPPED", state' # "STOPPED"
    PROVE  older' # older
<1>1. ASSUME NEW v \in Evals, SetTaskState(v) PROVE older' # older
  BY <1>1 DEF SetTaskState, GuardrailsInv, StopInv
<1>2. CASE ResumeWrite
  BY <1>2 DEF ResumeWrite, GuardrailsInv, StopInv
<1>. QED
  BY <1>1, <1>2
     DEF GuardrailsNext, Deliver, RecordEventIngestion, EvaluateTask, UpdateTaskMetrics,
         ResumeRead, GuardrailsKilled

\* What the invariant says of the guardrails.
LEMMA GuardrailsSafe ==
    ASSUME GuardrailsInv
    PROVE  GuardrailsTypeOK /\ CountedOnce /\ AllowedWithinBudget
<1>1. GuardrailsTypeOK
  BY DEF GuardrailsInv, GuardShape, GuardrailsTypeOK
<1>2. CountedOnce
  BY DEF GuardrailsInv, GuardShape, CountInv, CountedOnce
<1>3. AllowedWithinBudget
  <2>. SUFFICES ASSUME NEW most \in {k.cost : k \in Kinds}, \A k \in Kinds : k.cost <= most
                PROVE  allowed <= HardBudget + (Cardinality(Evals) - 1) * most
    BY DEF AllowedWithinBudget
  <2>. DEFINE S == SumFunctionOnSet(Pledged, Evals)
              m == HardBudget + (Cardinality(Evals) - 1) * most
  <2>1. most \in Nat /\ IsFiniteSet(Evals) /\ HardBudget \in Nat
    BY GuardrailsAssumption
  <2>2. allowed + S <= m /\ allowed \in Nat
    BY <2>1 DEF GuardrailsInv, PledgeInv, GuardShape
  <2>3. S \in Nat
    BY <2>1, PledgedNat, SumNat DEF GuardrailsInv
  <2>4. m \in Int
    BY <2>1, FS_CardinalityType
  <2>. HIDE DEF S, m
  <2>5. allowed <= m
    BY <2>2, <2>3, <2>4
  <2>. QED
    BY <2>5 DEF m
<1>. QED
  BY <1>1, <1>2, <1>3

-----------------------------------------------------------------------------
(* Execution.  A token is bound to one request for good.  A call that got  *)
(* past Verify carries the request its token is bound to (CallsInv), and   *)
(* so does a pull request (OpenedInv).  The branch of a pull request, and  *)
(* of a call on its way to one, is taken: no other call can be on it       *)
(* (PullInv).  A call that looked a slot up before a row was saved in it   *)
(* is known beside it (SavedInv).                                          *)

CallUnderWay ==
    [at : {"tenant", "approved", "denied", "consumed", "branched", "committed", "opened",
           "completed", "failed"},
     slot : RecordSlots, id : ExecIds, req : Contents, tok : Tokens, fresh : BOOLEAN]
RecordRow == [id : ExecIds, status : {"DENIED", "FAILED", "COMPLETED"}]

ExecShape ==
    /\ token \in [Tokens -> SUBSET [binding : Contents, consumed : BOOLEAN]]
    /\ \A t \in Tokens : \A r, s \in token[t] : r = s
    /\ expired \subseteq Tokens
    /\ saved \in [RecordSlots -> SUBSET RecordRow]
    /\ \A k \in RecordSlots : \A r, s \in saved[k] : r = s
    /\ call \in [Calls -> {NotCalled} \cup CallUnderWay]
    /\ branches \subseteq {x.branch : x \in Contents}
    /\ opened \subseteq [req : Contents, tok : Tokens]
    /\ openedBy \in [Tokens -> Nat]
    /\ beside \in [RecordSlots -> SUBSET Calls]
    /\ made \in 0..MaxCalls

Bound(t, x) == token[t] # {} /\ \A r \in token[t] : r.binding = x

Past == {"approved", "consumed", "branched", "committed", "opened"}
OnBranch(c) == call[c].at \in {"branched", "committed"}

CallsInv ==
    \A c \in Calls : call[c].at # "idle" =>
        \A t \in Tokens, x \in Contents : call[c].tok = t /\ call[c].req = x =>
            token[t] # {} /\ (call[c].at \in Past => Bound(t, x) /\ ScopeValid(x))

OpenedInv ==
    \A p \in opened, t \in Tokens, x \in Contents :
        p.tok = t /\ p.req = x => Bound(t, x) /\ ScopeValid(x)

PullInv ==
    /\ \A c \in Calls : OnBranch(c) => call[c].req.branch \in branches
    /\ \A c, d \in Calls : OnBranch(c) /\ OnBranch(d) /\ call[c].req.branch = call[d].req.branch => c = d
    /\ \A t \in Tokens : openedBy[t] <= 1
    /\ \A t \in Tokens, x \in Contents : openedBy[t] > 0 /\ Bound(t, x) =>
         x.branch \in branches /\ \A c \in Calls : OnBranch(c) => call[c].req.branch # x.branch
    /\ \A t \in Tokens : openedBy[t] > 0 => token[t] # {}

SavedInv ==
    \A k \in RecordSlots : saved[k] # {} =>
        \A c \in Calls : call[c].at # "idle" /\ call[c].slot = k => c \in beside[k]

ExecutionInv == ExecShape /\ CallsInv /\ OpenedInv /\ PullInv /\ SavedInv

\* A call that is under way has its slot, its id, its request and its token.
LEMMA CallHeld ==
    ASSUME ExecShape, NEW c \in Calls, call[c].at # "idle"
    PROVE  /\ call[c] \in CallUnderWay /\ call[c].slot \in RecordSlots /\ call[c].id \in ExecIds
           /\ call[c].req \in Contents /\ call[c].tok \in Tokens
<1>1. call[c] \in {NotCalled} \cup CallUnderWay
  BY DEF ExecShape
<1>2. call[c] # NotCalled
  BY DEF NotCalled
<1>. QED
  BY <1>1, <1>2 DEF CallUnderWay

\* A call that moves on keeps them.
LEMMA CallMovesOn ==
    ASSUME ExecShape, NEW c \in Calls, call[c].at # "idle", NEW to, CallMoves(c, to),
           to \in {"tenant", "approved", "denied", "consumed", "branched", "committed", "opened",
                   "completed", "failed"}
    PROVE  /\ call' \in [Calls -> {NotCalled} \cup CallUnderWay]
           /\ call'[c].at = to /\ call'[c].slot = call[c].slot /\ call'[c].req = call[c].req
           /\ call'[c].tok = call[c].tok
           /\ \A d \in Calls : d # c => call'[d] = call[d]
<1>1. call[c] \in CallUnderWay
  BY CallHeld
<1>2. [call[c] EXCEPT !.at = to] \in CallUnderWay
  BY <1>1 DEF CallUnderWay
<1>3. call' = [call EXCEPT ![c] = [call[c] EXCEPT !.at = to]]
  BY DEF CallMoves
<1>. QED
  BY <1>1, <1>2, <1>3 DEF ExecShape, CallUnderWay

\* A call that ends.
LEMMA CallEnds ==
    ASSUME ExecShape, NEW c \in Calls, call' = [call EXCEPT ![c] = NotCalled]
    PROVE  /\ call' \in [Calls -> {NotCalled} \cup CallUnderWay]
           /\ call'[c].at = "idle"
           /\ \A d \in Calls : d # c => call'[d] = call[d]
BY DEF ExecShape, NotCalled

\* A call that begins.
LEMMA CallBegins ==
    ASSUME ExecShape, NEW c \in Calls, NEW k \in IdemKeys, NEW i \in ExecIds, NEW x \in Contents,
           NEW t \in Tokens, Execute(c, k, i, x, t), ~Known(<<x.ws, k>>)
    PROVE  /\ call' \in [Calls -> {NotCalled} \cup CallUnderWay]
           /\ call'[c].at = "tenant" /\ call'[c].slot = <<x.ws, k>> /\ <<x.ws, k>> \in RecordSlots
           /\ call'[c].req = x /\ call'[c].tok = t
           /\ \A d \in Calls : d # c => call'[d] = call[d]
<1>. DEFINE f == (t \notin expired)
            p == <<x.ws, k>>
            n == [at |-> "tenant", slot |-> p, id |-> i, req |-> x, tok |-> t, fresh |-> f]
<1>1. f \in BOOLEAN
  OBVIOUS
<1>2. call' = [call EXCEPT ![c] = n]
  BY DEF Execute
<1>5. p \in RecordSlots
  BY DEF RecordSlots
<1>. HIDE DEF f, p
<1>3. n \in CallUnderWay
  BY <1>1, <1>5 DEF CallUnderWay
<1>4. n.at = "tenant" /\ n.slot = p /\ n.req = x /\ n.tok = t
  OBVIOUS
<1>. HIDE DEF n
<1>. QED
  BY <1>2, <1>3, <1>4, <1>5 DEF ExecShape, p

\* No approval is given yet.
LEMMA ExecutionBegin == ExecutionInit => ExecutionInv
<1>. SUFFICES ASSUME ExecutionInit PROVE ExecutionInv
  OBVIOUS
<1>0. MaxCalls \in Nat
  BY ExecutionAssumption
<1>1. ExecShape
  <2>1. token \in [Tokens -> SUBSET [binding : Contents, consumed : BOOLEAN]]
    BY DEF ExecutionInit
  <2>2. \A t \in Tokens : \A r, s \in token[t] : r = s
    BY DEF ExecutionInit
  <2>3. saved \in [RecordSlots -> SUBSET RecordRow] /\ \A k \in RecordSlots : saved[k] = {}
    BY DEF ExecutionInit
  <2>4. call \in [Calls -> {NotCalled} \cup CallUnderWay]
    BY DEF ExecutionInit
  <2>5. openedBy \in [Tokens -> Nat] /\ beside \in [RecordSlots -> SUBSET Calls] /\ made \in 0..MaxCalls
    BY <1>0 DEF ExecutionInit
  <2>. QED
    BY <2>1, <2>2, <2>3, <2>4, <2>5 DEF ExecutionInit, ExecShape
<1>2. \A c \in Calls : call[c].at = "idle"
  BY DEF ExecutionInit, NotCalled
<1>3. CallsInv /\ SavedInv
  BY <1>2 DEF CallsInv, SavedInv
<1>4. OpenedInv /\ PullInv
  BY <1>2 DEF ExecutionInit, OpenedInv, PullInv, OnBranch
<1>. QED
  BY <1>1, <1>3, <1>4 DEF ExecutionInv

\* The steps of a call, except its first and its last, move it on.
Onward(c) ==
    \/ Verify(c) \/ MarkTokenConsumed(c) \/ CreateBranch(c) \/ CommitScopedChanges(c)
    \/ OpenPullRequest(c) \/ RecordCiStatus(c) \/ ProviderRaises(c)

\* What such a step does to the call.
LEMMA OnwardMoves ==
    ASSUME ExecShape, NEW c \in Calls, Onward(c)
    PROVE  /\ call[c].at # "idle" /\ call'[c].at # "idle"
           /\ call' \in [Calls -> {NotCalled} \cup CallUnderWay]
           /\ call'[c].slot = call[c].slot /\ call'[c].req = call[c].req
           /\ call'[c].tok = call[c].tok
           /\ \A d \in Calls : d # c => call'[d] = call[d]
<1>1. CASE Verify(c)
  <2>1. PICK to \in {"approved", "denied"} : CallMoves(c, to)
    BY <1>1 DEF Verify
  <2>2. call[c].at # "idle"
    BY <1>1 DEF Verify
  <2>. QED
    BY <2>1, <2>2, CallMovesOn
<1>2. CASE MarkTokenConsumed(c)
  <2>. CallMoves(c, "consumed") /\ call[c].at # "idle"
    BY <1>2 DEF MarkTokenConsumed
  <2>. QED
    BY CallMovesOn
<1>3. CASE CreateBranch(c)
  <2>. CallMoves(c, "branched") /\ call[c].at # "idle"
    BY <1>3 DEF CreateBranch
  <2>. QED
    BY CallMovesOn
<1>4. CASE CommitScopedChanges(c)
  <2>. CallMoves(c, "committed") /\ call[c].at # "idle"
    BY <1>4 DEF CommitScopedChanges
  <2>. QED
    BY CallMovesOn
<1>5. CASE OpenPullRequest(c)
  <2>. CallMoves(c, "opened") /\ call[c].at # "idle"
    BY <1>5 DEF OpenPullRequest
  <2>. QED
    BY CallMovesOn
<1>6. CASE RecordCiStatus(c)
  <2>. CallMoves(c, "completed") /\ call[c].at # "idle"
    BY <1>6 DEF RecordCiStatus
  <2>. QED
    BY CallMovesOn
<1>7. CASE ProviderRaises(c)
  <2>. CallMoves(c, "failed") /\ call[c].at # "idle"
    BY <1>7 DEF ProviderRaises
  <2>. QED
    BY CallMovesOn
<1>. QED
  BY <1>1, <1>2, <1>3, <1>4, <1>5, <1>6, <1>7 DEF Onward

\* A token keeps its binding, and its one row.
LEMMA TokensKept ==
    ASSUME ExecShape, ExecutionNext
    PROVE  /\ token' \in [Tokens -> SUBSET [binding : Contents, consumed : BOOLEAN]]
           /\ \A t \in Tokens : \A r, s \in token'[t] : r = s
           /\ \A t \in Tokens, x \in Contents : Bound(t, x) => Bound(t, x)'
           /\ \A t \in Tokens : token[t] # {} => token'[t] # {}
           /\ \A t \in Tokens, x \in Contents : token[t] # {} /\ Bound(t, x)' => Bound(t, x)
<1>1. ASSUME token' = token
      PROVE  /\ token' \in [Tokens -> SUBSET [binding : Contents, consumed : BOOLEAN]]
             /\ \A t \in Tokens : \A r, s \in token'[t] : r = s
             /\ \A t \in Tokens, x \in Contents : Bound(t, x) => Bound(t, x)'
             /\ \A t \in Tokens : token[t] # {} => token'[t] # {}
             /\ \A t \in Tokens, x \in Contents : token[t] # {} /\ Bound(t, x)' => Bound(t, x)
  BY <1>1 DEF ExecShape, Bound
<1>2. ASSUME NEW t \in Tokens, NEW x \in Contents, IssueApproval(t, x)
      PROVE  /\ token' \in [Tokens -> SUBSET [binding : Contents, consumed : BOOLEAN]]
             /\ \A u \in Tokens : \A r, s \in token'[u] : r = s
             /\ \A u \in Tokens, y \in Contents : Bound(u, y) => Bound(u, y)'
             /\ \A u \in Tokens : token[u] # {} => token'[u] # {}
             /\ \A u \in Tokens, y \in Contents : token[u] # {} /\ Bound(u, y)' => Bound(u, y)
  <2>. DEFINE row == [binding |-> x, consumed |-> FALSE]
  <2>1. row \in [binding : Contents, consumed : BOOLEAN]
    OBVIOUS
  <2>2. token' = [token EXCEPT ![t] = {row}] /\ token[t] = {}
    BY <1>2 DEF IssueApproval
  <2>. HIDE DEF row
  <2>3. token' \in [Tokens -> SUBSET [binding : Contents, consumed : BOOLEAN]]
    BY <2>1, <2>2 DEF ExecShape
  <2>4. \A u \in Tokens : token'[u] = IF u = t THEN {row} ELSE token[u]
    BY <2>2 DEF ExecShape
  <2>. QED
    BY <2>2, <2>3, <2>4 DEF ExecShape, Bound
<1>3. ASSUME NEW c \in Calls, MarkTokenConsumed(c)
      PROVE  /\ token' \in [Tokens -> SUBSET [binding : Contents, consumed : BOOLEAN]]
             /\ \A u \in Tokens : \A r, s \in token'[u] : r = s
             /\ \A u \in Tokens, y \in Contents : Bound(u, y) => Bound(u, y)'
             /\ \A u \in Tokens : token[u] # {} => token'[u] # {}
             /\ \A u \in Tokens, y \in Contents : token[u] # {} /\ Bound(u, y)' => Bound(u, y)
  <2>. DEFINE t == call[c].tok
              rows == {[r EXCEPT !.consumed = TRUE] : r \in token[t]}
  <2>1. t \in Tokens
    BY <1>3, CallHeld DEF MarkTokenConsumed
  <2>2. token' = [token EXCEPT ![t] = rows]
    BY <1>3 DEF MarkTokenConsumed
  <2>. HIDE DEF t
  <2>3. \A r \in token[t] : r \in [binding : Contents, consumed : BOOLEAN]
    BY <2>1 DEF ExecShape
  <2>4. \A r \in token[t] : /\ [r EXCEPT !.consumed = TRUE] \in [binding : Contents, consumed : BOOLEAN]
                            /\ [r EXCEPT !.consumed = TRUE].binding = r.binding
    BY <2>3
  <2>5. rows \in SUBSET [binding : Contents, consumed : BOOLEAN]
    BY <2>4
  <2>6. (rows = {} <=> token[t] = {}) /\ \A q \in rows : \E r \in token[t] : q.binding = r.binding
    BY <2>4
  <2>7. \A r \in token[t] : \E q \in rows : q.binding = r.binding
    BY <2>4
  <2>12. \A r, s \in token[t] : r = s
    BY <2>1 DEF ExecShape
  <2>8. \A q, s \in rows : q = s
    BY <2>12
  <2>. HIDE DEF rows
  <2>9. token' \in [Tokens -> SUBSET [binding : Contents, consumed : BOOLEAN]]
    BY <2>1, <2>2, <2>5 DEF ExecShape
  <2>10. \A u \in Tokens : token'[u] = IF u = t THEN rows ELSE token[u]
    BY <2>1, <2>2 DEF ExecShape
  <2>11. \A u \in Tokens : \A r, s \in token'[u] : r = s
    BY <2>8, <2>10 DEF ExecShape
  <2>. QED
    BY <2>6, <2>7, <2>9, <2>10, <2>11 DEF Bound
<1>. QED
  BY <1>1, <1>2, <1>3
     DEF ExecutionNext, Expire, Execute, Verify, CreateBranch, CommitScopedChanges,
         OpenPullRequest, RecordCiStatus, ProviderRaises, SaveExecution, ProcessKilled

\* Every step of an execution keeps the shape of the state.
LEMMA ExecShapeStep == ASSUME ExecShape, ExecutionNext PROVE ExecShape'
<1>0. MaxCalls \in Nat
  BY ExecutionAssumption
<1>1. /\ token' \in [Tokens -> SUBSET [binding : Contents, consumed : BOOLEAN]]
      /\ \A t \in Tokens : \A r, s \in token'[t] : r = s
  BY TokensKept
<1>2. ASSUME NEW t \in Tokens, (\E x \in Contents : IssueApproval(t, x)) \/ Expire(t) PROVE ExecShape'
  BY <1>1, <1>2 DEF IssueApproval, Expire, ExecShape
<1>3. ASSUME NEW c \in Calls, NEW k \in IdemKeys, NEW i \in ExecIds, NEW x \in Contents, NEW t \in Tokens,
             Execute(c, k, i, x, t)
      PROVE  ExecShape'
  <2>1. call' \in [Calls -> {NotCalled} \cup CallUnderWay]
    BY <1>3, CallBegins DEF Execute, ExecShape
  <2>2. made' \in 0..MaxCalls
    BY <1>0, <1>3 DEF Execute, ExecShape
  <2>. QED
    BY <1>1, <1>3, <2>1, <2>2 DEF Execute, ExecShape
<1>4. ASSUME NEW c \in Calls, Onward(c) PROVE ExecShape'
  <2>1. call' \in [Calls -> {NotCalled} \cup CallUnderWay]
    BY <1>4, OnwardMoves
  <2>2. call[c].req \in Contents /\ call[c].tok \in Tokens
    BY <1>4, OnwardMoves, CallHeld
  <2>3. /\ expired' = expired /\ saved' = saved /\ beside' = beside /\ made' = made
        /\ branches' = branches \/ branches' = branches \cup {call[c].req.branch}
    BY <1>4 DEF Onward, Verify, MarkTokenConsumed, CreateBranch, CommitScopedChanges,
                OpenPullRequest, RecordCiStatus, ProviderRaises
  <2>4. \/ opened' = opened /\ openedBy' = openedBy
        \/ /\ opened' = opened \cup {[req |-> call[c].req, tok |-> call[c].tok]}
           /\ openedBy' = [openedBy EXCEPT ![call[c].tok] = openedBy[call[c].tok] + 1]
    BY <1>4 DEF Onward, Verify, MarkTokenConsumed, CreateBranch, CommitScopedChanges,
                OpenPullRequest, RecordCiStatus, ProviderRaises
  <2>5. branches' \subseteq {x.branch : x \in Contents}
    BY <2>2, <2>3 DEF ExecShape
  <2>6. opened' \subseteq [req : Contents, tok : Tokens] /\ openedBy' \in [Tokens -> Nat]
    BY <2>2, <2>4 DEF ExecShape
  <2>. QED
    BY <1>1, <2>1, <2>3, <2>5, <2>6 DEF ExecShape
<1>5. ASSUME NEW c \in Calls, SaveExecution(c) PROVE ExecShape'
  <2>1. call' \in [Calls -> {NotCalled} \cup CallUnderWay]
    BY <1>5, CallEnds DEF SaveExecution
  <2>. DEFINE k == call[c].slot
              row == [id |-> call[c].id, status |-> StatusOf(call[c].at)]
  <2>2. k \in RecordSlots /\ row \in RecordRow
    BY <1>5, CallHeld DEF SaveExecution, StatusOf, RecordRow
  <2>5. saved' = [j \in RecordSlots |-> IF j = k THEN {row} ELSE {r \in saved[j] : r.id # row.id}]
    BY <1>5 DEF SaveExecution
  <2>. HIDE DEF row
  <2>3. /\ saved' \in [RecordSlots -> SUBSET RecordRow]
        /\ \A j \in RecordSlots : \A r, s \in saved'[j] : r = s
    BY <2>2, <2>5 DEF ExecShape
  <2>4. beside' \in [RecordSlots -> SUBSET Calls]
    <3>1. PICK S \in SUBSET Calls : beside' = [beside EXCEPT ![k] = S]
      BY <1>5 DEF SaveExecution
    <3>. QED
      BY <2>2, <3>1 DEF ExecShape
  <2>. QED
    BY <1>1, <1>5, <2>1, <2>3, <2>4 DEF SaveExecution, ExecShape
<1>6. CASE ProcessKilled
  <2>1. call' \in [Calls -> {NotCalled} \cup CallUnderWay] /\ beside' \in [RecordSlots -> SUBSET Calls]
    BY <1>6 DEF ProcessKilled
  <2>. QED
    BY <1>1, <1>6, <2>1 DEF ProcessKilled, ExecShape
<1>. QED
  BY <1>2, <1>3, <1>4, <1>5, <1>6 DEF ExecutionNext, Onward

\* Only Verify lets a call through, with the request its token is bound to.
LEMMA ExecCallsStep == ASSUME ExecShape, CallsInv, ExecutionNext PROVE CallsInv'
<1>0. /\ \A t \in Tokens, x \in Contents : Bound(t, x) => Bound(t, x)'
      /\ \A t \in Tokens : token[t] # {} => token'[t] # {}
  BY TokensKept
<1>1. ASSUME call' = call PROVE CallsInv'
  BY <1>0, <1>1 DEF CallsInv
<1>2. ASSUME NEW c \in Calls, NEW k \in IdemKeys, NEW i \in ExecIds, NEW x \in Contents, NEW t \in Tokens,
             Execute(c, k, i, x, t)
      PROVE  CallsInv'
  <2>1. CASE Known(<<x.ws, k>>)
    BY <1>1, <1>2, <2>1 DEF Execute
  <2>2. CASE ~Known(<<x.ws, k>>)
    <3>1. /\ call'[c].at = "tenant" /\ call'[c].req = x /\ call'[c].tok = t
          /\ \A d \in Calls : d # c => call'[d] = call[d]
      BY <1>2, <2>2, CallBegins
    <3>2. token'[t] # {}
      BY <1>0, <1>2 DEF Execute
    <3>. QED
      BY <1>0, <3>1, <3>2 DEF CallsInv, Past
  <2>. QED
    BY <2>1, <2>2
<1>3. ASSUME NEW c \in Calls, Onward(c) PROVE CallsInv'
  <2>1. /\ call[c].at # "idle" /\ call'[c].at # "idle"
        /\ call'[c].req = call[c].req /\ call'[c].tok = call[c].tok
        /\ \A d \in Calls : d # c => call'[d] = call[d]
    BY <1>3, OnwardMoves
  <2>2. ASSUME call[c].at \in Past \/ call'[c].at \notin Past PROVE CallsInv'
    BY <1>0, <2>1, <2>2 DEF CallsInv
  <2>3. CASE Verify(c)
    <3>. DEFINE t == call[c].tok
                x == call[c].req
                r == Row(t)
    <3>1. SUFFICES ASSUME call'[c].at \in Past PROVE CallsInv'
      BY <2>2
    <3>2. t \in Tokens /\ x \in Contents
      BY <2>1, CallHeld
    <3>3. token[t] # {}
      BY <2>1, <3>2 DEF CallsInv
    <3>4. r \in token[t]
      BY <3>3 DEF Row
    <3>5. r.binding = x /\ ScopeValid(x)
      <4>1. CallMoves(c, IF r.binding.ws = x.ws /\ TokenValid(c, r) /\ ScopeValid(x)
                         THEN "approved" ELSE "denied")
        BY <2>3 DEF Verify
      <4>2. CASE TokenValid(c, r) /\ ScopeValid(x)
        BY <4>2 DEF TokenValid
      <4>3. CASE ~(TokenValid(c, r) /\ ScopeValid(x))
        <5>1. CallMoves(c, "denied")
          BY <4>1, <4>3
        <5>2. call'[c].at = "denied"
          BY <2>1, <5>1, CallMovesOn
        <5>. QED
          BY <3>1, <5>2 DEF Past
      <4>. QED
        BY <4>2, <4>3
    <3>6. Bound(t, x)
      BY <3>2, <3>3, <3>4, <3>5 DEF Bound, ExecShape
    <3>7. Bound(t, x)'
      BY <2>1, <2>3, <3>6 DEF Bound, Verify
    <3>. HIDE DEF r
    <3>. QED
      BY <1>0, <2>1, <3>2, <3>3, <3>5, <3>6 DEF CallsInv
  <2>4. CASE ~Verify(c)
    <3>1. call[c].at \in Past \/ call'[c].at \notin Past
      BY <1>3, <2>4, <2>1, CallMovesOn
         DEF Onward, MarkTokenConsumed, CreateBranch, CommitScopedChanges, OpenPullRequest,
             RecordCiStatus, ProviderRaises, Past
    <3>. QED
      BY <2>2, <3>1
  <2>. QED
    BY <2>3, <2>4
<1>4. ASSUME NEW c \in Calls, SaveExecution(c) PROVE CallsInv'
  <2>1. call'[c].at = "idle" /\ \A d \in Calls : d # c => call'[d] = call[d]
    BY <1>4, CallEnds DEF SaveExecution
  <2>. QED
    BY <1>0, <2>1 DEF CallsInv
<1>5. CASE ProcessKilled
  <2>1. \A d \in Calls : call'[d].at = "idle"
    BY <1>5 DEF ProcessKilled, NotCalled
  <2>. QED
    BY <2>1 DEF CallsInv
<1>. QED
  BY <1>1, <1>2, <1>3, <1>4, <1>5 DEF ExecutionNext, Onward, IssueApproval, Expire

\* A pull request carries the request of its call.
LEMMA ExecOpenedStep == ASSUME ExecShape, CallsInv, OpenedInv, ExecutionNext PROVE OpenedInv'
<1>0. \A t \in Tokens, x \in Contents : Bound(t, x) => Bound(t, x)'
  BY TokensKept
<1>1. ASSUME opened' = opened PROVE OpenedInv'
  BY <1>0, <1>1 DEF OpenedInv
<1>2. ASSUME NEW c \in Calls, OpenPullRequest(c) PROVE OpenedInv'
  <2>1. call[c].req \in Contents /\ call[c].tok \in Tokens /\ call[c].at = "committed"
    BY <1>2, CallHeld DEF OpenPullRequest
  <2>2. Bound(call[c].tok, call[c].req) /\ ScopeValid(call[c].req)
    BY <2>1 DEF CallsInv, Past
  <2>3. opened' = opened \cup {[req |-> call[c].req, tok |-> call[c].tok]}
    BY <1>2 DEF OpenPullRequest
  <2>4. ASSUME NEW p \in opened', NEW t \in Tokens, NEW x \in Contents, p.tok = t, p.req = x
        PROVE  Bound(t, x)' /\ ScopeValid(x)
    <3>1. CASE p \in opened
      BY <1>0, <2>4, <3>1 DEF OpenedInv
    <3>2. CASE p \notin opened
      <4>1. t = call[c].tok /\ x = call[c].req
        BY <2>3, <2>4, <3>2
      <4>. QED
        BY <1>0, <2>2, <4>1
    <3>. QED
      BY <3>1, <3>2
  <2>. QED
    BY <2>4 DEF OpenedInv
<1>. QED
  BY <1>1, <1>2
     DEF ExecutionNext, IssueApproval, Expire, Execute, Verify, MarkTokenConsumed, CreateBranch,
         CommitScopedChanges, RecordCiStatus, ProviderRaises, SaveExecution, ProcessKilled

\* A result that is saved knows the calls beside it.
LEMMA ExecSavedStep == ASSUME ExecShape, SavedInv, ExecutionNext PROVE SavedInv'
<1>1. ASSUME UNCHANGED <<call, saved, beside>> PROVE SavedInv'
  BY <1>1 DEF SavedInv
<1>2. ASSUME NEW c \in Calls, NEW k \in IdemKeys, NEW i \in ExecIds, NEW x \in Contents, NEW t \in Tokens,
             Execute(c, k, i, x, t)
      PROVE  SavedInv'
  <2>1. CASE Known(<<x.ws, k>>)
    BY <1>1, <1>2, <2>1 DEF Execute
  <2>2. CASE ~Known(<<x.ws, k>>)
    <3>1. call'[c].slot = <<x.ws, k>> /\ \A d \in Calls : d # c => call'[d] = call[d]
      BY <1>2, <2>2, CallBegins
    <3>. QED
      BY <1>2, <2>2, <3>1 DEF Execute, SavedInv, Known
  <2>. QED
    BY <2>1, <2>2
<1>3. ASSUME NEW c \in Calls, Onward(c) PROVE SavedInv'
  <2>1. /\ call[c].at # "idle" /\ call'[c].slot = call[c].slot
        /\ \A d \in Calls : d # c => call'[d] = call[d]
    BY <1>3, OnwardMoves
  <2>2. saved' = saved /\ beside' = beside
    BY <1>3 DEF Onward, Verify, MarkTokenConsumed, CreateBranch, CommitScopedChanges,
                OpenPullRequest, RecordCiStatus, ProviderRaises
  <2>. QED
    BY <2>1, <2>2 DEF SavedInv
<1>4. ASSUME NEW c \in Calls, SaveExecution(c) PROVE SavedInv'
  <2>. DEFINE k == call[c].slot
  <2>1. call'[c].at = "idle" /\ \A d \in Calls : d # c => call'[d] = call[d]
    BY <1>4, CallEnds DEF SaveExecution
  <2>2. k \in RecordSlots
    BY <1>4, CallHeld DEF SaveExecution
  <2>3. /\ beside'[k] = {d \in Calls \ {c} : call[d].at # "idle" /\ call[d].slot = k}
        /\ \A j \in RecordSlots : j # k => beside'[j] = beside[j] /\ saved'[j] \subseteq saved[j]
    BY <1>4, <2>2 DEF SaveExecution, ExecShape
  <2>. HIDE DEF k
  <2>. QED
    BY <2>1, <2>2, <2>3 DEF SavedInv
<1>5. CASE ProcessKilled
  <2>1. \A d \in Calls : call'[d].at = "idle"
    BY <1>5 DEF ProcessKilled, NotCalled
  <2>. QED
    BY <2>1 DEF SavedInv
<1>. QED
  BY <1>1, <1>2, <1>3, <1>4, <1>5 DEF ExecutionNext, Onward, IssueApproval, Expire

\* A branch is created once, and a pull request is opened by the call on it.
LEMMA ExecPullStep == ASSUME ExecShape, CallsInv, PullInv, ExecutionNext PROVE PullInv'
<1>0. /\ \A t \in Tokens : token[t] # {} => token'[t] # {}
      /\ \A t \in Tokens, x \in Contents : token[t] # {} /\ Bound(t, x)' => Bound(t, x)
  BY TokensKept
<1>1. ASSUME UNCHANGED <<branches, openedBy>>,
             \A c \in Calls : OnBranch(c)' => OnBranch(c) /\ call'[c].req = call[c].req
      PROVE  PullInv'
  BY <1>0, <1>1 DEF PullInv
<1>2. ASSUME NEW c \in Calls, NEW k \in IdemKeys, NEW i \in ExecIds, NEW x \in Contents, NEW t \in Tokens,
             Execute(c, k, i, x, t)
      PROVE  PullInv'
  <2>1. \A d \in Calls : OnBranch(d)' => OnBranch(d) /\ call'[d].req = call[d].req
    BY <1>2, CallBegins DEF Execute, OnBranch
  <2>. QED
    BY <1>1, <1>2, <2>1 DEF Execute
<1>3. ASSUME NEW c \in Calls, Verify(c) \/ MarkTokenConsumed(c) \/ CommitScopedChanges(c)
                              \/ RecordCiStatus(c) \/ ProviderRaises(c)
      PROVE  PullInv'
  <2>1. \A d \in Calls : OnBranch(d)' => OnBranch(d) /\ call'[d].req = call[d].req
    <3>1. call'[c].req = call[c].req /\ \A d \in Calls : d # c => call'[d] = call[d]
      BY <1>3, OnwardMoves DEF Onward
    <3>2. OnBranch(c)' => OnBranch(c)
      <4>1. CASE Verify(c)
        <5>1. PICK to \in {"approved", "denied"} : CallMoves(c, to)
          BY <4>1 DEF Verify
        <5>2. call'[c].at = to
          BY <4>1, <5>1, CallMovesOn DEF Verify
        <5>. QED
          BY <5>2 DEF OnBranch
      <4>2. CASE ~Verify(c)
        BY <1>3, <4>2, CallMovesOn
           DEF OnBranch, MarkTokenConsumed, CommitScopedChanges, RecordCiStatus, ProviderRaises
      <4>. QED
        BY <4>1, <4>2
    <3>. QED
      BY <3>1, <3>2 DEF OnBranch
  <2>. QED
    BY <1>1, <1>3, <2>1
       DEF Verify, MarkTokenConsumed, CommitScopedChanges, RecordCiStatus, ProviderRaises
<1>4. ASSUME NEW c \in Calls, CreateBranch(c) PROVE PullInv'
  <2>1. /\ call'[c].at = "branched" /\ call'[c].req = call[c].req
        /\ \A d \in Calls : d # c => call'[d] = call[d]
    BY <1>4, CallMovesOn DEF CreateBranch
  <2>2. /\ call[c].req.branch \notin branches /\ branches' = branches \cup {call[c].req.branch}
        /\ openedBy' = openedBy /\ call[c].at = "consumed"
    BY <1>4 DEF CreateBranch, BranchFree
  <2>3. \A d \in Calls : OnBranch(d)' => d = c \/ (OnBranch(d) /\ call'[d].req = call[d].req)
    BY <2>1 DEF OnBranch
  <2>. QED
    BY <1>0, <2>1, <2>2, <2>3 DEF PullInv
<1>5. ASSUME NEW c \in Calls, OpenPullRequest(c) PROVE PullInv'
  <2>. DEFINE t == call[c].tok
              x == call[c].req
  <2>1. call'[c].at = "opened" /\ \A d \in Calls : d # c => call'[d] = call[d]
    BY <1>5, CallMovesOn DEF OpenPullRequest
  <2>2. t \in Tokens /\ x \in Contents /\ call[c].at = "committed"
    BY <1>5, CallHeld DEF OpenPullRequest
  <2>3. Bound(t, x) /\ OnBranch(c)
    BY <2>2 DEF CallsInv, Past, OnBranch
  <2>4. branches' = branches /\ openedBy' = [openedBy EXCEPT ![t] = openedBy[t] + 1] /\ token' = token
    BY <1>5 DEF OpenPullRequest
  <2>5. ~(openedBy[t] > 0)
    BY <2>2, <2>3 DEF PullInv
  <2>6. openedBy[t] = 0
    BY <2>2, <2>5 DEF ExecShape
  <2>7. \A u \in Tokens : openedBy'[u] = IF u = t THEN 1 ELSE openedBy[u]
    BY <2>2, <2>4, <2>6 DEF ExecShape
  <2>8. \A d \in Calls : OnBranch(d)' => d # c /\ OnBranch(d) /\ call'[d].req = call[d].req
    BY <2>1 DEF OnBranch
  <2>9. \A y \in Contents : Bound(t, y) => y = x
    BY <2>3 DEF Bound
  <2>10. \A u \in Tokens, y \in Contents : Bound(u, y)' <=> Bound(u, y)
    BY <2>4 DEF Bound
  <2>11. x.branch \in branches /\ \A d \in Calls : OnBranch(d) /\ d # c => call[d].req.branch # x.branch
    BY <2>3 DEF PullInv
  <2>12. token[t] # {}
    BY <2>3 DEF Bound
  <2>. HIDE DEF t, x
  <2>13. ASSUME NEW u \in Tokens, NEW y \in Contents, openedBy'[u] > 0, Bound(u, y)
         PROVE  y.branch \in branches /\ \A d \in Calls : OnBranch(d)' => call'[d].req.branch # y.branch
    <3>1. CASE u = t
      BY <2>8, <2>9, <2>11, <2>13, <3>1
    <3>2. CASE u # t
      BY <2>7, <2>8, <2>13, <3>2 DEF PullInv
    <3>. QED
      BY <3>1, <3>2
  <2>14. \A u \in Tokens : openedBy'[u] <= 1 /\ (openedBy'[u] > 0 => token'[u] # {})
    BY <2>4, <2>7, <2>12 DEF PullInv
  <2>15. /\ \A d \in Calls : OnBranch(d)' => call'[d].req.branch \in branches'
         /\ \A d, e \in Calls : OnBranch(d)' /\ OnBranch(e)' /\ call'[d].req.branch = call'[e].req.branch
                                  => d = e
    BY <2>4, <2>8 DEF PullInv
  <2>. QED
    BY <2>4, <2>10, <2>13, <2>14, <2>15 DEF PullInv
<1>6. ASSUME NEW c \in Calls, SaveExecution(c) PROVE PullInv'
  <2>1. \A d \in Calls : OnBranch(d)' => OnBranch(d) /\ call'[d].req = call[d].req
    BY <1>6, CallEnds DEF SaveExecution, OnBranch
  <2>. QED
    BY <1>1, <1>6, <2>1 DEF SaveExecution
<1>7. CASE ProcessKilled
  <2>1. \A d \in Calls : ~OnBranch(d)'
    BY <1>7 DEF ProcessKilled, NotCalled, OnBranch
  <2>. QED
    BY <1>1, <1>7, <2>1 DEF ProcessKilled
<1>8. ASSUME NEW t \in Tokens, (\E x \in Contents : IssueApproval(t, x)) \/ Expire(t) PROVE PullInv'
  <2>1. call' = call /\ branches' = branches /\ openedBy' = openedBy
    BY <1>8 DEF IssueApproval, Expire
  <2>2. \A d \in Calls : OnBranch(d)' => OnBranch(d) /\ call'[d].req = call[d].req
    BY <2>1 DEF OnBranch
  <2>. QED
    BY <1>1, <2>1, <2>2
<1>. QED
  BY <1>2, <1>3, <1>4, <1>5, <1>6, <1>7, <1>8 DEF ExecutionNext

\* Every step of an execution keeps the invariant.
LEMMA ExecutionStep == ASSUME ExecutionInv, ExecutionNext PROVE ExecutionInv'
BY ExecShapeStep, ExecCallsStep, ExecOpenedStep, ExecPullStep, ExecSavedStep DEF ExecutionInv

\* A completed result goes when a call saves that had looked its slot up before
\* or that was given its execution_id with another key.
LEMMA ExecutionCompleted ==
    ASSUME ExecutionInv, ExecutionNext, NEW k \in RecordSlots, NEW r \in Completed(k),
           r \notin saved'[k]
    PROVE  \E c \in Calls : /\ call[c].at # "idle" /\ call'[c].at = "idle"
                            /\ c \in beside[k] \/ (call[c].slot # k /\ call[c].id = r.id)
<1>0. r \in saved[k]
  BY DEF Completed
<1>1. PICK c \in Calls : SaveExecution(c)
  BY <1>0
     DEF ExecutionNext, IssueApproval, Expire, Execute, Verify, MarkTokenConsumed, CreateBranch,
         CommitScopedChanges, OpenPullRequest, RecordCiStatus, ProviderRaises, ProcessKilled
<1>2. call'[c].at = "idle" /\ call[c].at # "idle"
  BY <1>1, CallEnds DEF SaveExecution, ExecutionInv
<1>3. CASE call[c].slot = k
  BY <1>0, <1>2, <1>3 DEF ExecutionInv, SavedInv
<1>4. CASE call[c].slot # k
  <2>. DEFINE row == [id |-> call[c].id, status |-> StatusOf(call[c].at)]
  <2>1. saved'[k] = {q \in saved[k] : q.id # row.id}
    BY <1>1, <1>4 DEF SaveExecution
  <2>2. row.id = call[c].id
    OBVIOUS
  <2>. HIDE DEF row
  <2>3. r.id = call[c].id
    BY <1>0, <2>1, <2>2
  <2>. QED
    BY <1>2, <1>4, <2>3
<1>. QED
  BY <1>3, <1>4

\* What the invariant says of executions.
LEMMA ExecutionSafe ==
    ASSUME ExecutionInv
    PROVE  ExecutionTypeOK /\ OnePullRequest /\ OpenedAsApproved
<1>1. ExecutionTypeOK
  <2>1. ASSUME NEW t \in Tokens PROVE Cardinality(token[t]) <= 1
    <3>1. CASE token[t] = {}
      BY <3>1, FS_EmptySet
    <3>2. CASE token[t] # {}
      <4>0. \A r, s \in token[t] : r = s
        BY DEF ExecutionInv, ExecShape
      <4>1. PICK r : token[t] = {r}
        BY <3>2, <4>0
      <4>2. Cardinality({r}) = 1
        BY FS_Singleton
      <4>. QED
        BY <4>1, <4>2
    <3>. QED
      BY <3>1, <3>2
  <2>2. \A k \in RecordSlots : \A r \in saved[k] :
          saved[k] = {r} /\ r.id \in ExecIds /\ r.status \in {"DENIED", "FAILED", "COMPLETED"}
    BY DEF ExecutionInv, ExecShape, RecordRow
  <2>. QED
    BY <2>1, <2>2 DEF ExecutionInv, ExecShape, ExecutionTypeOK
<1>2. OnePullRequest
  BY DEF ExecutionInv, PullInv, OnePullRequest
<1>3. OpenedAsApproved
  <2>. SUFFICES ASSUME NEW p \in opened
                PROVE  /\ p.req = Row(p.tok).binding
                       /\ p.req.branch \notin Protected /\ InScope(p.req)
    BY DEF OpenedAsApproved
  <2>1. p.tok \in Tokens /\ p.req \in Contents
    BY DEF ExecutionInv, ExecShape
  <2>2. Bound(p.tok, p.req) /\ ScopeValid(p.req)
    BY <2>1 DEF ExecutionInv, OpenedInv
  <2>3. Row(p.tok) \in token[p.tok]
    BY <2>2 DEF Bound, Row
  <2>. QED
    BY <2>2, <2>3 DEF Bound, ScopeValid
<1>. QED
  BY <1>1, <1>2, <1>3

-----------------------------------------------------------------------------
(* Event stream.  The handler that starts a producer holds the lock, and   *)
(* there is a started producer exactly when the variable says so           *)
(* (ProducerInv).  A handler on its way to the queue is an attempt that    *)
(* has put no record there yet (AttemptsInv).  A handler that will answer  *)
(* 200 has queued its records (AnswerInv), and holds settings that were    *)
(* saved as they are (ConfigInv).                                          *)

PostUnderWay ==
    [pc : {"producer", "locking", "starting", "send", "answer", "refused"},
     batch : Batches, config : SUBSET OtelConfigs]

StreamShape ==
    /\ installed \in BOOLEAN /\ faults \in BOOLEAN
    /\ producer \in {"none", "starting", "started"}
    /\ posts \in [Posts -> {FreePost} \cup PostUnderWay]
    /\ queued \in [Records -> Nat] /\ topic \in [Records -> Nat]
    /\ accepted \subseteq Batches /\ tries \in [Batches -> Nat]
    /\ forwards \subseteq [batch : Batches, config : OtelConfigs]

ProducerInv ==
    /\ live = IF producer = "started" THEN 1 ELSE 0
    /\ startLock = {} \/ \E h \in Posts : startLock = {h}
    /\ \A h \in Posts : posts[h].pc = "starting" => startLock = {h} /\ producer = "starting"

Unsent == {"producer", "locking", "starting", "send"}
OnTheWay(b) == {h \in Posts : posts[h].pc \in Unsent /\ posts[h].batch = b}

AttemptsInv ==
    \A r \in Records, b \in Batches : r[1] = b =>
        queued[r] + topic[r] + Cardinality(OnTheWay(b)) <= tries[b]

AnswerInv ==
    installed /\ ~faults => \A r \in Records :
        /\ r[1] \in accepted => queued[r] + topic[r] >= 1
        /\ \A h \in Posts : posts[h].pc = "answer" /\ posts[h].batch = r[1] =>
             queued[r] + topic[r] >= 1

ConfigInv ==
    /\ savedConfigs \subseteq OtelConfigs /\ otelConfig \subseteq savedConfigs
    /\ \A h \in Posts : posts[h].pc # "idle" => posts[h].config \subseteq savedConfigs
    /\ \A f \in forwards : f.config \in savedConfigs

StreamInv == StreamShape /\ ProducerInv /\ AttemptsInv /\ AnswerInv /\ ConfigInv

\* The batch and the part of a record.
LEMMA RecordParts == \A r \in Records : r[1] \in Batches /\ r[2] \in Parts
BY DEF Records

\* A handler that is under way has its batch.
LEMMA PostHeld ==
    ASSUME StreamShape, NEW h \in Posts, posts[h].pc # "idle"
    PROVE  posts[h] \in PostUnderWay /\ posts[h].batch \in Batches
                                     /\ posts[h].config \subseteq OtelConfigs
<1>1. posts[h] \in {FreePost} \cup PostUnderWay
  BY DEF StreamShape
<1>2. posts[h] # FreePost
  BY DEF FreePost
<1>. QED
  BY <1>1, <1>2 DEF PostUnderWay

\* A handler that moves on keeps its batch and its settings.
LEMMA PostMovesOn ==
    ASSUME StreamShape, NEW h \in Posts, posts[h].pc # "idle", NEW to,
           to \in {"producer", "locking", "starting", "send", "answer", "refused"},
           posts' = [posts EXCEPT ![h].pc = to]
    PROVE  /\ posts' \in [Posts -> {FreePost} \cup PostUnderWay]
           /\ posts'[h].pc = to /\ posts'[h].batch = posts[h].batch
           /\ posts'[h].config = posts[h].config
           /\ \A g \in Posts : g # h => posts'[g] = posts[g]
<1>1. posts[h] \in PostUnderWay
  BY PostHeld
<1>2. [posts[h] EXCEPT !.pc = to] \in PostUnderWay
  BY <1>1 DEF PostUnderWay
<1>3. posts' = [posts EXCEPT ![h] = [posts[h] EXCEPT !.pc = to]]
  OBVIOUS
<1>. QED
  BY <1>1, <1>2, <1>3 DEF StreamShape, PostUnderWay

\* A handler that is done.
LEMMA PostEnds ==
    ASSUME StreamShape, NEW h \in Posts, posts' = [posts EXCEPT ![h] = FreePost]
    PROVE  /\ posts' \in [Posts -> {FreePost} \cup PostUnderWay]
           /\ posts'[h].pc = "idle"
           /\ \A g \in Posts : g # h => posts'[g] = posts[g]
BY DEF StreamShape, FreePost

\* A handler that begins.
LEMMA PostBegins ==
    ASSUME StreamShape, ConfigInv, NEW h \in Posts, PostBatch(h)
    PROVE  \E b \in Batches :
             /\ posts' \in [Posts -> {FreePost} \cup PostUnderWay]
             /\ posts'[h].pc = "producer" /\ posts'[h].batch = b /\ posts'[h].config = otelConfig
             /\ \A g \in Posts : g # h => posts'[g] = posts[g]
             /\ tries' = [tries EXCEPT ![b] = tries[b] + 1]
<1>1. PICK b \in Batches :
        /\ tries' = [tries EXCEPT ![b] = tries[b] + 1]
        /\ posts' = [posts EXCEPT ![h] = [pc |-> "producer", batch |-> b, config |-> otelConfig]]
  BY DEF PostBatch
<1>. DEFINE p == [pc |-> "producer", batch |-> b, config |-> otelConfig]
<1>2. otelConfig \in SUBSET OtelConfigs
  BY DEF ConfigInv
<1>3. p \in PostUnderWay
  BY <1>2 DEF PostUnderWay
<1>4. p.pc = "producer" /\ p.batch = b /\ p.config = otelConfig /\ posts' = [posts EXCEPT ![h] = p]
  BY <1>1
<1>. HIDE DEF p
<1>5. /\ posts' \in [Posts -> {FreePost} \cup PostUnderWay]
      /\ posts'[h] = p /\ \A g \in Posts : g # h => posts'[g] = posts[g]
  BY <1>3, <1>4 DEF StreamShape
<1>. QED
  BY <1>1, <1>4, <1>5

\* The process has just started.
LEMMA StreamBegin == StreamInit => StreamInv
<1>. SUFFICES ASSUME StreamInit PROVE StreamInv
  OBVIOUS
<1>1. StreamShape
  <2>1. posts \in [Posts -> {FreePost} \cup PostUnderWay] /\ tries \in [Batches -> Nat]
    BY DEF StreamInit
  <2>2. queued \in [Records -> Nat] /\ topic \in [Records -> Nat]
    BY DEF StreamInit, NoCopies
  <2>. QED
    BY <2>1, <2>2 DEF StreamInit, StreamShape
<1>2. \A h \in Posts : posts[h].pc = "idle"
  BY DEF StreamInit, FreePost
<1>3. ProducerInv /\ AnswerInv /\ ConfigInv
  BY <1>2 DEF StreamInit, ProducerInv, AnswerInv, ConfigInv
<1>4. AttemptsInv
  <2>1. \A b \in Batches : OnTheWay(b) = {}
    BY <1>2 DEF OnTheWay, Unsent
  <2>2. \A b \in Batches : Cardinality(OnTheWay(b)) = 0
    BY <2>1, FS_EmptySet
  <2>3. \A r \in Records : queued[r] = 0 /\ topic[r] = 0
    BY DEF StreamInit, NoCopies
  <2>4. \A b \in Batches : tries[b] = 0
    BY DEF StreamInit
  <2>. QED
    BY <2>2, <2>3, <2>4 DEF AttemptsInv
<1>. QED
  BY <1>1, <1>3, <1>4 DEF StreamInv

\* The steps of a handler that only look for the producer.
Seeking(h) ==
    \/ ProducerTaken(h) \/ ProducerAwaited(h) \/ ProducerLocked(h) \/ ProducerStarted(h)
    \/ StreamSkipped(h)

\* What such a step does to its handler.
LEMMA SeekingMoves ==
    ASSUME StreamShape, NEW h \in Posts, Seeking(h)
    PROVE  /\ posts[h].pc \in {"producer", "locking", "starting"}
           /\ posts' \in [Posts -> {FreePost} \cup PostUnderWay]
           /\ posts'[h].pc \in {"producer", "locking", "starting", "send", "answer", "refused"}
           /\ posts'[h].pc = "answer" => ~installed
           /\ posts'[h].batch = posts[h].batch /\ posts'[h].config = posts[h].config
           /\ \A g \in Posts : g # h => posts'[g] = posts[g]
<1>1. posts[h].pc \in {"producer", "locking", "starting"}
  BY DEF Seeking, ProducerTaken, ProducerAwaited, ProducerLocked, ProducerStarted, StreamSkipped
<1>2. PICK to \in {"producer", "locking", "starting", "send", "answer", "refused"} :
        posts' = [posts EXCEPT ![h].pc = to] /\ (to = "answer" => ~installed)
  BY DEF Seeking, ProducerTaken, ProducerAwaited, ProducerLocked, ProducerStarted, StreamSkipped
<1>. QED
  BY <1>1, <1>2, PostMovesOn

\* What the queue and the handler hold after a send.
LEMMA SendingMoves ==
    ASSUME StreamShape, NEW h \in Posts, RecordsSent(h)
    PROVE  /\ posts[h].pc = "send"
           /\ posts' \in [Posts -> {FreePost} \cup PostUnderWay]
           /\ posts'[h].pc \in {"answer", "refused"}
           /\ posts'[h].batch = posts[h].batch /\ posts'[h].config = posts[h].config
           /\ \A g \in Posts : g # h => posts'[g] = posts[g]
           /\ queued' \in [Records -> Nat]
           /\ \A r \in Records : /\ queued'[r] \in {queued[r], queued[r] + 1}
                                 /\ r[1] # posts[h].batch => queued'[r] = queued[r]
                                 /\ r[1] = posts[h].batch /\ posts'[h].pc = "answer"
                                      => queued'[r] = queued[r] + 1
<1>1. PICK parts \in SUBSET Parts :
        /\ queued' = RecordsQueued(parts, posts[h].batch)
        /\ posts' = [posts EXCEPT ![h].pc = SendVerdict(parts)]
  BY DEF RecordsSent
<1>2. posts[h].pc = "send"
  BY DEF RecordsSent
<1>3. SendVerdict(parts) \in {"answer", "refused"} /\ (SendVerdict(parts) = "answer" => parts = Parts)
  BY DEF SendVerdict
<1>4. /\ posts' \in [Posts -> {FreePost} \cup PostUnderWay]
      /\ posts'[h].pc = SendVerdict(parts) /\ posts'[h].batch = posts[h].batch
      /\ posts'[h].config = posts[h].config
      /\ \A g \in Posts : g # h => posts'[g] = posts[g]
  <2>. DEFINE to == SendVerdict(parts)
  <2>1. to \in {"answer", "refused"} /\ posts' = [posts EXCEPT ![h].pc = to]
    BY <1>1, <1>3
  <2>. HIDE DEF to
  <2>2. /\ posts' \in [Posts -> {FreePost} \cup PostUnderWay]
        /\ posts'[h].pc = to /\ posts'[h].batch = posts[h].batch
        /\ posts'[h].config = posts[h].config
        /\ \A g \in Posts : g # h => posts'[g] = posts[g]
    BY <1>2, <2>1, PostMovesOn
  <2>. QED
    BY <2>2 DEF to
<1>5. queued' = [r \in Records |-> IF r[1] = posts[h].batch /\ r[2] \in parts
                                   THEN queued[r] + 1 ELSE queued[r]]
  BY <1>1 DEF RecordsQueued
<1>6. queued' \in [Records -> Nat]
  BY <1>5 DEF StreamShape
<1>7. \A r \in Records : r[2] \in Parts
  BY RecordParts
<1>. QED
  BY <1>2, <1>3, <1>4, <1>5, <1>6, <1>7

\* Every step of the stream keeps the shape of the state.
LEMMA StreamShapeStep == ASSUME StreamShape, ConfigInv, StreamNext PROVE StreamShape'
<1>1. ASSUME NEW h \in Posts, PostBatch(h) PROVE StreamShape'
  <2>1. PICK b \in Batches : /\ posts' \in [Posts -> {FreePost} \cup PostUnderWay]
                             /\ tries' = [tries EXCEPT ![b] = tries[b] + 1]
    BY <1>1, PostBegins
  <2>2. tries' \in [Batches -> Nat]
    BY <2>1 DEF StreamShape
  <2>. QED
    BY <1>1, <2>1, <2>2 DEF PostBatch, StreamShape
<1>2. ASSUME NEW h \in Posts, Seeking(h) PROVE StreamShape'
  <2>1. posts' \in [Posts -> {FreePost} \cup PostUnderWay]
    BY <1>2, SeekingMoves
  <2>2. producer' \in {"none", "starting", "started"}
    BY <1>2 DEF Seeking, ProducerTaken, ProducerAwaited, ProducerLocked, ProducerStarted,
                StreamSkipped, StreamShape
  <2>3. UNCHANGED <<installed, faults, queued, topic, accepted, tries, forwards>>
    BY <1>2 DEF Seeking, ProducerTaken, ProducerAwaited, ProducerLocked, ProducerStarted, StreamSkipped
  <2>. QED
    BY <2>1, <2>2, <2>3 DEF StreamShape
<1>3. ASSUME NEW h \in Posts, RecordsSent(h) PROVE StreamShape'
  <2>1. posts' \in [Posts -> {FreePost} \cup PostUnderWay] /\ queued' \in [Records -> Nat]
    BY <1>3, SendingMoves
  <2>. QED
    BY <1>3, <2>1 DEF RecordsSent, StreamShape
<1>4. ASSUME NEW h \in Posts, Answered(h) PROVE StreamShape'
  <2>1. posts' \in [Posts -> {FreePost} \cup PostUnderWay]
    BY <1>4, PostEnds DEF Answered
  <2>2. posts[h].batch \in Batches /\ posts[h].config \subseteq OtelConfigs
    BY <1>4, PostHeld DEF Answered
  <2>3. accepted' \subseteq Batches /\ forwards' \subseteq [batch : Batches, config : OtelConfigs]
    BY <1>4, <2>2 DEF Answered, StreamShape
  <2>. QED
    BY <1>4, <2>1, <2>3 DEF Answered, StreamShape
<1>5. ASSUME NEW h \in Posts, Refused(h) PROVE StreamShape'
  <2>1. posts' \in [Posts -> {FreePost} \cup PostUnderWay]
    BY <1>5, PostEnds DEF Refused
  <2>. QED
    BY <1>5, <2>1 DEF Refused, StreamShape
<1>6. ASSUME NEW r \in Records, Delivered(r) PROVE StreamShape'
  <2>1. queued' \in [Records -> Nat]
    BY <1>6 DEF Delivered, StreamShape
  <2>2. topic' \in [Records -> Nat]
    BY <1>6 DEF Delivered, StreamShape
  <2>3. faults' \in BOOLEAN
    BY <1>6 DEF Delivered, StreamShape
  <2>. QED
    BY <1>6, <2>1, <2>2, <2>3 DEF Delivered, StreamShape
<1>7. CASE IngestKilled
  <2>1. posts' \in [Posts -> {FreePost} \cup PostUnderWay]
    BY <1>7 DEF IngestKilled
  <2>2. queued' \in [Records -> Nat]
    BY <1>7 DEF IngestKilled, NoCopies
  <2>. QED
    BY <1>7, <2>1, <2>2 DEF IngestKilled, StreamShape
<1>8. CASE OtelSaved \/ Forwarded
  BY <1>8 DEF OtelSaved, Forwarded, StreamShape
<1>. QED
  BY <1>1, <1>2, <1>3, <1>4, <1>5, <1>6, <1>7, <1>8 DEF StreamNext, Seeking

\* The second look under the lock: a producer is started when there is none.
LEMMA StreamProducerStep ==
    ASSUME StreamShape, ConfigInv, ProducerInv, StreamNext PROVE ProducerInv'
<1>1. ASSUME UNCHANGED <<live, producer, startLock>>,
             \A h \in Posts : posts'[h].pc = "starting" => posts[h].pc = "starting"
      PROVE  ProducerInv'
  BY <1>1 DEF ProducerInv
<1>2. ASSUME NEW h \in Posts, PostBatch(h) PROVE ProducerInv'
  <2>1. posts'[h].pc = "producer" /\ \A g \in Posts : g # h => posts'[g] = posts[g]
    BY <1>2, PostBegins
  <2>2. \A g \in Posts : posts'[g].pc = "starting" => posts[g].pc = "starting"
    BY <2>1
  <2>. QED
    BY <1>1, <1>2, <2>2 DEF PostBatch
<1>3. ASSUME NEW h \in Posts, ProducerTaken(h) \/ ProducerAwaited(h) \/ StreamSkipped(h)
      PROVE  ProducerInv'
  <2>1. PICK to \in {"send", "refused", "locking", "answer"} : posts' = [posts EXCEPT ![h].pc = to]
    BY <1>3 DEF ProducerTaken, ProducerAwaited, StreamSkipped
  <2>2. posts[h].pc # "idle"
    BY <1>3 DEF ProducerTaken, ProducerAwaited, StreamSkipped
  <2>3. \A g \in Posts : posts'[g].pc = "starting" => posts[g].pc = "starting"
    BY <2>1, <2>2, PostMovesOn
  <2>. QED
    BY <1>1, <1>3, <2>3 DEF ProducerTaken, ProducerAwaited, StreamSkipped
<1>4. ASSUME NEW h \in Posts, ProducerLocked(h) PROVE ProducerInv'
  <2>1. posts[h].pc = "locking" /\ startLock = {} /\ live' = live
    BY <1>4 DEF ProducerLocked
  <2>2. \A g \in Posts : posts[g].pc # "starting"
    BY <2>1 DEF ProducerInv
  <2>3. CASE producer = "none"
    <3>1. producer' = "starting" /\ startLock' = {h} /\ posts' = [posts EXCEPT ![h].pc = "starting"]
      BY <1>4, <2>3 DEF ProducerLocked, SecondLook
    <3>2. \A g \in Posts : g # h => posts'[g] = posts[g]
      BY <2>1, <3>1, PostMovesOn
    <3>. QED
      BY <2>1, <2>2, <2>3, <3>1, <3>2 DEF ProducerInv
  <2>4. CASE producer # "none"
    <3>1. producer' = producer /\ startLock' = startLock /\ posts' = [posts EXCEPT ![h].pc = "producer"]
      BY <1>4, <2>4 DEF ProducerLocked, SecondLook
    <3>2. \A g \in Posts : posts'[g].pc = "starting" => posts[g].pc = "starting"
      BY <2>1, <3>1, PostMovesOn
    <3>. QED
      BY <1>1, <2>1, <3>1, <3>2
  <2>. QED
    BY <2>3, <2>4
<1>5. ASSUME NEW h \in Posts, ProducerStarted(h) PROVE ProducerInv'
  <2>1. posts[h].pc = "starting" /\ startLock' = {}
    BY <1>5 DEF ProducerStarted
  <2>2. startLock = {h} /\ producer = "starting" /\ live = 0
    BY <2>1 DEF ProducerInv
  <2>3. PICK to \in {"send", "refused"} : posts' = [posts EXCEPT ![h].pc = to]
    BY <1>5 DEF ProducerStarted
  <2>4. posts'[h].pc = to /\ \A g \in Posts : g # h => posts'[g] = posts[g]
    BY <2>1, <2>3, PostMovesOn
  <2>5. \A g \in Posts : posts'[g].pc # "starting"
    <3>1. \A g \in Posts : posts[g].pc = "starting" => g = h
      BY <2>2 DEF ProducerInv
    <3>. QED
      BY <2>4, <3>1
  <2>6. live' = IF producer' = "started" THEN 1 ELSE 0
    BY <1>5, <2>2 DEF ProducerStarted
  <2>. QED
    BY <2>1, <2>5, <2>6 DEF ProducerInv
<1>6. ASSUME NEW h \in Posts, RecordsSent(h) PROVE ProducerInv'
  <2>1. \A g \in Posts : posts'[g].pc = "starting" => posts[g].pc = "starting"
    BY <1>6, SendingMoves
  <2>. QED
    BY <1>1, <1>6, <2>1 DEF RecordsSent
<1>7. ASSUME NEW h \in Posts, Answered(h) \/ Refused(h) PROVE ProducerInv'
  <2>1. \A g \in Posts : posts'[g].pc = "starting" => posts[g].pc = "starting"
    BY <1>7, PostEnds DEF Answered, Refused
  <2>. QED
    BY <1>1, <1>7, <2>1 DEF Answered, Refused
<1>8. CASE IngestKilled
  BY <1>8 DEF IngestKilled, ProducerInv, FreePost
<1>9. CASE OtelSaved \/ Forwarded \/ \E r \in Records : Delivered(r)
  BY <1>1, <1>9 DEF OtelSaved, Forwarded, Delivered
<1>. QED
  BY <1>2, <1>3, <1>4, <1>5, <1>6, <1>7, <1>8, <1>9 DEF StreamNext

\* A handler that leaves, or that stays among, those on their way.
LEMMA WayShrinks ==
    ASSUME StreamShape, NEW b \in Batches,
           \A g \in Posts : posts'[g].pc \in Unsent => posts[g].pc \in Unsent /\ posts'[g].batch = posts[g].batch
    PROVE  /\ Cardinality(OnTheWay(b)) \in Nat /\ Cardinality(OnTheWay(b)') \in Nat
           /\ Cardinality(OnTheWay(b)') <= Cardinality(OnTheWay(b))
           /\ \A h \in OnTheWay(b) : h \notin OnTheWay(b)' =>
                Cardinality(OnTheWay(b)') + 1 <= Cardinality(OnTheWay(b))
<1>. DEFINE S == OnTheWay(b)
            T == OnTheWay(b)'
<1>1. IsFiniteSet(Posts)
  BY StreamAssumption
<1>2. S \subseteq Posts
  BY DEF OnTheWay
<1>3. T \subseteq S
  BY DEF OnTheWay
<1>. HIDE DEF S, T
<1>4. IsFiniteSet(S) /\ IsFiniteSet(T) /\ Cardinality(T) <= Cardinality(S)
  BY <1>1, <1>2, <1>3, FS_Subset
<1>5. Cardinality(S) \in Nat /\ Cardinality(T) \in Nat
  BY <1>4, FS_CardinalityType
<1>6. ASSUME NEW h \in S, h \notin T PROVE Cardinality(T) + 1 <= Cardinality(S)
  <2>1. IsFiniteSet(S \ {h}) /\ Cardinality(S \ {h}) = Cardinality(S) - 1
    BY <1>4, FS_RemoveElement
  <2>2. T \subseteq S \ {h}
    BY <1>3, <1>6
  <2>3. Cardinality(T) <= Cardinality(S \ {h})
    BY <2>1, <2>2, FS_Subset
  <2>. QED
    BY <1>5, <2>1, <2>3
<1>. QED
  BY <1>4, <1>5, <1>6 DEF S, T

\* An attempt puts a record into the queue at most once.
LEMMA StreamAttemptsStep ==
    ASSUME StreamShape, ConfigInv, AttemptsInv, StreamNext PROVE AttemptsInv'
<1>0. StreamShape'
  BY StreamShapeStep
<1>1. ASSUME \A g \in Posts : posts'[g].pc \in Unsent =>
               posts[g].pc \in Unsent /\ posts'[g].batch = posts[g].batch,
             tries' = tries,
             \A r \in Records : queued'[r] + topic'[r] <= queued[r] + topic[r]
      PROVE  AttemptsInv'
  <2>. SUFFICES ASSUME NEW r \in Records, NEW b \in Batches, r[1] = b
                PROVE  queued'[r] + topic'[r] + Cardinality(OnTheWay(b)') <= tries'[b]
    BY DEF AttemptsInv
  <2>. DEFINE n == Cardinality(OnTheWay(b))
              m == Cardinality(OnTheWay(b)')
  <2>1. n \in Nat /\ m \in Nat /\ m <= n
    BY <1>1, WayShrinks
  <2>2. queued[r] + topic[r] + n <= tries[b]
    BY DEF AttemptsInv
  <2>3. queued[r] \in Nat /\ topic[r] \in Nat /\ queued'[r] \in Nat /\ topic'[r] \in Nat /\ tries[b] \in Nat
    BY <1>0 DEF StreamShape
  <2>4. queued'[r] + topic'[r] <= queued[r] + topic[r]
    BY <1>1
  <2>. HIDE DEF n, m
  <2>5. queued'[r] + topic'[r] + m <= tries[b]
    BY <2>1, <2>2, <2>3, <2>4
  <2>. QED
    BY <1>1, <2>5 DEF m
<1>2. ASSUME NEW h \in Posts, PostBatch(h) PROVE AttemptsInv'
  <2>1. PICK b \in Batches :
          /\ posts'[h].pc = "producer" /\ posts'[h].batch = b
          /\ \A g \in Posts : g # h => posts'[g] = posts[g]
          /\ tries' = [tries EXCEPT ![b] = tries[b] + 1]
    BY <1>2, PostBegins
  <2>2. posts[h].pc = "idle" /\ queued' = queued /\ topic' = topic
    BY <1>2 DEF PostBatch
  <2>3. OnTheWay(b)' = OnTheWay(b) \cup {h} /\ h \notin OnTheWay(b)
    BY <2>1, <2>2 DEF OnTheWay, Unsent
  <2>4. \A d \in Batches : d # b => OnTheWay(d)' = OnTheWay(d)
    BY <2>1, <2>2 DEF OnTheWay, Unsent
  <2>5. \A d \in Batches : IsFiniteSet(OnTheWay(d))
    BY StreamAssumption, FS_Subset DEF OnTheWay
  <2>6. Cardinality(OnTheWay(b)') = Cardinality(OnTheWay(b)) + 1
    BY <2>3, <2>5, FS_AddElement
  <2>7. \A d \in Batches : Cardinality(OnTheWay(d)) \in Nat
    BY <2>5, FS_CardinalityType
  <2>. SUFFICES ASSUME NEW r \in Records, NEW d \in Batches, r[1] = d
                PROVE  queued[r] + topic[r] + Cardinality(OnTheWay(d)') <= tries'[d]
    BY <2>2 DEF AttemptsInv
  <2>8. queued[r] + topic[r] + Cardinality(OnTheWay(d)) <= tries[d]
    BY DEF AttemptsInv
  <2>9. CASE d = b
    <3>. DEFINE n == Cardinality(OnTheWay(b))
    <3>1. Cardinality(OnTheWay(d)') = n + 1 /\ n \in Nat /\ queued[r] + topic[r] + n <= tries[b]
      BY <2>6, <2>7, <2>8, <2>9
    <3>2. tries'[d] = tries[b] + 1
      BY <2>1, <2>9 DEF StreamShape
    <3>3. queued[r] \in Nat /\ topic[r] \in Nat /\ tries[b] \in Nat
      BY DEF StreamShape
    <3>. HIDE DEF n
    <3>4. queued[r] + topic[r] + (n + 1) <= tries[b] + 1
      BY <3>1, <3>3
    <3>. QED
      BY <3>1, <3>2, <3>4
  <2>10. CASE d # b
    <3>1. tries'[d] = tries[d] /\ OnTheWay(d)' = OnTheWay(d)
      BY <2>1, <2>4, <2>10 DEF StreamShape
    <3>. QED
      BY <2>8, <3>1
  <2>. QED
    BY <2>9, <2>10
<1>3. ASSUME NEW h \in Posts, Seeking(h) PROVE AttemptsInv'
  <2>1. \A g \in Posts : posts'[g].pc \in Unsent =>
          posts[g].pc \in Unsent /\ posts'[g].batch = posts[g].batch
    BY <1>3, SeekingMoves DEF Unsent
  <2>2. UNCHANGED <<queued, topic, tries>>
    BY <1>3 DEF Seeking, ProducerTaken, ProducerAwaited, ProducerLocked, ProducerStarted, StreamSkipped
  <2>3. \A r \in Records : queued'[r] + topic'[r] <= queued[r] + topic[r]
    BY <2>2 DEF StreamShape
  <2>. QED
    BY <1>1, <2>1, <2>2, <2>3
<1>4. ASSUME NEW h \in Posts, RecordsSent(h) PROVE AttemptsInv'
  <2>1. /\ posts[h].pc = "send" /\ posts'[h].pc \in {"answer", "refused"}
        /\ posts'[h].batch = posts[h].batch
        /\ \A g \in Posts : g # h => posts'[g] = posts[g]
        /\ \A r \in Records : /\ queued'[r] \in {queued[r], queued[r] + 1}
                              /\ r[1] # posts[h].batch => queued'[r] = queued[r]
    BY <1>4, SendingMoves
  <2>2. \A g \in Posts : posts'[g].pc \in Unsent =>
          posts[g].pc \in Unsent /\ posts'[g].batch = posts[g].batch
    BY <2>1 DEF Unsent
  <2>3. topic' = topic /\ tries' = tries
    BY <1>4 DEF RecordsSent
  <2>. SUFFICES ASSUME NEW r \in Records, NEW b \in Batches, r[1] = b
                PROVE  queued'[r] + topic[r] + Cardinality(OnTheWay(b)') <= tries[b]
    BY <2>3 DEF AttemptsInv
  <2>. DEFINE n == Cardinality(OnTheWay(b))
              m == Cardinality(OnTheWay(b)')
  <2>4. queued[r] + topic[r] + n <= tries[b]
    BY DEF AttemptsInv
  <2>5. queued[r] \in Nat /\ topic[r] \in Nat /\ queued'[r] \in Nat /\ tries[b] \in Nat
    BY <1>0 DEF StreamShape
  <2>6. n \in Nat /\ m \in Nat /\ m <= n
    BY <2>2, WayShrinks
  <2>7. CASE b = posts[h].batch
    <3>1. h \in OnTheWay(b) /\ h \notin OnTheWay(b)'
      BY <2>1, <2>7 DEF OnTheWay, Unsent
    <3>2. m + 1 <= n
      BY <2>2, <3>1, WayShrinks
    <3>3. queued'[r] <= queued[r] + 1
      BY <2>1, <2>5
    <3>. HIDE DEF m, n
    <3>4. queued'[r] + topic[r] + m <= tries[b]
      BY <2>4, <2>5, <2>6, <3>2, <3>3
    <3>. QED
      BY <3>4 DEF m
  <2>8. CASE b # posts[h].batch
    <3>1. queued'[r] = queued[r]
      BY <2>1, <2>8
    <3>. HIDE DEF m, n
    <3>2. queued'[r] + topic[r] + m <= tries[b]
      BY <2>4, <2>5, <2>6, <3>1
    <3>. QED
      BY <3>2 DEF m
  <2>. QED
    BY <2>7, <2>8
<1>5. ASSUME NEW h \in Posts, Answered(h) \/ Refused(h) PROVE AttemptsInv'
  <2>1. posts'[h].pc = "idle" /\ \A g \in Posts : g # h => posts'[g] = posts[g]
    BY <1>5, PostEnds DEF Answered, Refused
  <2>2. UNCHANGED <<queued, topic, tries>>
    BY <1>5 DEF Answered, Refused
  <2>3. \A r \in Records : queued'[r] + topic'[r] <= queued[r] + topic[r]
    BY <2>2 DEF StreamShape
  <2>4. \A g \in Posts : posts'[g].pc \in Unsent =>
          posts[g].pc \in Unsent /\ posts'[g].batch = posts[g].batch
    BY <2>1 DEF Unsent
  <2>. QED
    BY <1>1, <2>2, <2>3, <2>4
<1>6. ASSUME NEW q \in Records, Delivered(q) PROVE AttemptsInv'
  <2>1. posts' = posts /\ tries' = tries
    BY <1>6 DEF Delivered
  <2>2. \A r \in Records : queued'[r] + topic'[r] <= queued[r] + topic[r]
    <3>. SUFFICES ASSUME NEW r \in Records PROVE queued'[r] + topic'[r] <= queued[r] + topic[r]
      OBVIOUS
    <3>1. queued'[r] = IF r = q THEN queued[r] - 1 ELSE queued[r]
      BY <1>6 DEF Delivered, StreamShape
    <3>2. topic'[r] = topic[r] \/ (r = q /\ topic'[r] = topic[r] + 1)
      BY <1>6 DEF Delivered, StreamShape
    <3>3. queued[r] \in Nat /\ topic[r] \in Nat
      BY DEF StreamShape
    <3>. QED
      BY <3>1, <3>2, <3>3
  <2>. QED
    BY <1>1, <2>1, <2>2
<1>7. CASE IngestKilled
  <2>1. \A g \in Posts : posts'[g].pc \notin Unsent
    BY <1>7 DEF IngestKilled, FreePost, Unsent
  <2>2. topic' = topic /\ tries' = tries
    BY <1>7 DEF IngestKilled
  <2>3. \A r \in Records : queued'[r] = 0 /\ queued[r] \in Nat /\ topic[r] \in Nat
    BY <1>7 DEF IngestKilled, NoCopies, StreamShape
  <2>4. \A r \in Records : queued'[r] + topic'[r] <= queued[r] + topic[r]
    BY <2>2, <2>3
  <2>. QED
    BY <1>1, <2>1, <2>2, <2>4
<1>8. CASE OtelSaved \/ Forwarded
  <2>1. UNCHANGED <<posts, queued, topic, tries>>
    BY <1>8 DEF OtelSaved, Forwarded
  <2>2. \A r \in Records : queued'[r] + topic'[r] <= queued[r] + topic[r]
    BY <2>1 DEF StreamShape
  <2>. QED
    BY <1>1, <2>1, <2>2
<1>. QED
  BY <1>2, <1>3, <1>4, <1>5, <1>6, <1>7, <1>8 DEF StreamNext, Seeking

\* A batch is answered when all its records are queued, and a record that
\* leaves the queue without a fault is in the topic.
LEMMA StreamAnswerStep ==
    ASSUME StreamShape, ConfigInv, AnswerInv, StreamNext PROVE AnswerInv'
<1>0. \A r \in Records : queued[r] \in Nat /\ topic[r] \in Nat
  BY DEF StreamShape
<1>1. ASSUME UNCHANGED <<installed, accepted>>, (faults' = faults) \/ faults',
             \A r \in Records : queued[r] + topic[r] >= 1 => queued'[r] + topic'[r] >= 1,
             \A g \in Posts : posts'[g].pc = "answer" =>
               ~installed \/ (posts[g].pc = "answer" /\ posts'[g].batch = posts[g].batch)
      PROVE  AnswerInv'
  BY <1>1 DEF AnswerInv
<1>2. ASSUME NEW h \in Posts, PostBatch(h) PROVE AnswerInv'
  <2>1. posts'[h].pc = "producer" /\ \A g \in Posts : g # h => posts'[g] = posts[g]
    BY <1>2, PostBegins
  <2>2. UNCHANGED <<installed, accepted, faults, queued, topic>>
    BY <1>2 DEF PostBatch
  <2>. QED
    BY <1>1, <2>1, <2>2
<1>3. ASSUME NEW h \in Posts, Seeking(h) PROVE AnswerInv'
  <2>1. (posts'[h].pc = "answer" => ~installed) /\ \A g \in Posts : g # h => posts'[g] = posts[g]
    BY <1>3, SeekingMoves
  <2>2. UNCHANGED <<installed, accepted, faults, queued, topic>>
    BY <1>3 DEF Seeking, ProducerTaken, ProducerAwaited, ProducerLocked, ProducerStarted, StreamSkipped
  <2>. QED
    BY <1>1, <2>1, <2>2
<1>4. ASSUME NEW h \in Posts, RecordsSent(h) PROVE AnswerInv'
  <2>1. /\ posts'[h].batch = posts[h].batch
        /\ \A g \in Posts : g # h => posts'[g] = posts[g]
        /\ \A r \in Records : /\ queued'[r] \in {queued[r], queued[r] + 1}
                              /\ r[1] = posts[h].batch /\ posts'[h].pc = "answer"
                                   => queued'[r] = queued[r] + 1
    BY <1>4, SendingMoves
  <2>2. UNCHANGED <<installed, accepted, faults, topic>>
    BY <1>4 DEF RecordsSent
  <2>3. \A r \in Records : queued[r] + topic[r] >= 1 => queued'[r] + topic'[r] >= 1
    BY <1>0, <2>1, <2>2
  <2>4. \A r \in Records : posts'[h].pc = "answer" /\ posts'[h].batch = r[1] => queued'[r] + topic'[r] >= 1
    BY <1>0, <2>1, <2>2
  <2>. QED
    BY <2>1, <2>2, <2>3, <2>4 DEF AnswerInv
<1>5. ASSUME NEW h \in Posts, Answered(h) PROVE AnswerInv'
  <2>1. posts'[h].pc = "idle" /\ \A g \in Posts : g # h => posts'[g] = posts[g]
    BY <1>5, PostEnds DEF Answered
  <2>2. UNCHANGED <<installed, faults, queued, topic>>
    BY <1>5 DEF Answered
  <2>3. accepted' = accepted \cup {posts[h].batch} /\ posts[h].pc = "answer"
    BY <1>5 DEF Answered
  <2>. QED
    BY <2>1, <2>2, <2>3 DEF AnswerInv
<1>6. ASSUME NEW h \in Posts, Refused(h) PROVE AnswerInv'
  <2>1. posts'[h].pc = "idle" /\ \A g \in Posts : g # h => posts'[g] = posts[g]
    BY <1>6, PostEnds DEF Refused
  <2>2. UNCHANGED <<installed, accepted, faults, queued, topic>>
    BY <1>6 DEF Refused
  <2>. QED
    BY <1>1, <2>1, <2>2
<1>7. ASSUME NEW q \in Records, Delivered(q) PROVE AnswerInv'
  <2>1. UNCHANGED <<installed, accepted, posts>>
    BY <1>7 DEF Delivered
  <2>2. CASE faults'
    BY <2>2 DEF AnswerInv
  <2>3. CASE ~faults'
    <3>1. /\ queued' = [queued EXCEPT ![q] = queued[q] - 1] /\ queued[q] > 0
          /\ topic' = [topic EXCEPT ![q] = topic[q] + 1] /\ faults' = faults
      BY <1>7, <2>3 DEF Delivered
    <3>2. \A r \in Records : queued[r] + topic[r] >= 1 => queued'[r] + topic'[r] >= 1
      BY <1>0, <3>1 DEF StreamShape
    <3>. QED
      BY <1>1, <2>1, <3>1, <3>2
  <2>. QED
    BY <2>2, <2>3
<1>8. CASE IngestKilled
  BY <1>8 DEF IngestKilled, AnswerInv
<1>9. CASE OtelSaved \/ Forwarded
  <2>1. UNCHANGED <<installed, accepted, faults, queued, topic, posts>>
    BY <1>9 DEF OtelSaved, Forwarded
  <2>. QED
    BY <1>1, <2>1
<1>. QED
  BY <1>2, <1>3, <1>4, <1>5, <1>6, <1>7, <1>8, <1>9 DEF StreamNext, Seeking

\* The settings that are used were saved.
LEMMA StreamConfigStep == ASSUME StreamShape, ConfigInv, StreamNext PROVE ConfigInv'
<1>1. ASSUME UNCHANGED <<savedConfigs, otelConfig>>, forwards' \subseteq forwards,
             \A g \in Posts : posts'[g].pc # "idle" =>
               posts[g].pc # "idle" /\ posts'[g].config = posts[g].config
      PROVE  ConfigInv'
  BY <1>1 DEF ConfigInv
<1>2. ASSUME NEW h \in Posts, PostBatch(h) PROVE ConfigInv'
  <2>1. posts'[h].config = otelConfig /\ \A g \in Posts : g # h => posts'[g] = posts[g]
    BY <1>2, PostBegins
  <2>2. UNCHANGED <<savedConfigs, otelConfig, forwards>>
    BY <1>2 DEF PostBatch
  <2>. QED
    BY <2>1, <2>2 DEF ConfigInv
<1>3. ASSUME NEW h \in Posts, Seeking(h) PROVE ConfigInv'
  <2>1. /\ posts[h].pc # "idle" /\ posts'[h].config = posts[h].config
        /\ \A g \in Posts : g # h => posts'[g] = posts[g]
    BY <1>3, SeekingMoves
  <2>2. UNCHANGED <<savedConfigs, otelConfig, forwards>>
    BY <1>3 DEF Seeking, ProducerTaken, ProducerAwaited, ProducerLocked, ProducerStarted, StreamSkipped
  <2>. QED
    BY <1>1, <2>1, <2>2
<1>4. ASSUME NEW h \in Posts, RecordsSent(h) PROVE ConfigInv'
  <2>1. /\ posts[h].pc # "idle" /\ posts'[h].config = posts[h].config
        /\ \A g \in Posts : g # h => posts'[g] = posts[g]
    BY <1>4, SendingMoves
  <2>2. UNCHANGED <<savedConfigs, otelConfig, forwards>>
    BY <1>4 DEF RecordsSent
  <2>. QED
    BY <1>1, <2>1, <2>2
<1>5. ASSUME NEW h \in Posts, Answered(h) PROVE ConfigInv'
  <2>1. posts'[h].pc = "idle" /\ \A g \in Posts : g # h => posts'[g] = posts[g]
    BY <1>5, PostEnds DEF Answered
  <2>2. posts[h].pc = "answer" /\ UNCHANGED <<savedConfigs, otelConfig>>
    BY <1>5 DEF Answered
  <2>3. posts[h].config \subseteq savedConfigs
    BY <2>2 DEF ConfigInv
  <2>4. \A f \in forwards' : f \in forwards \/ f.config \in posts[h].config
    BY <1>5 DEF Answered
  <2>. QED
    BY <2>1, <2>2, <2>3, <2>4 DEF ConfigInv
<1>6. ASSUME NEW h \in Posts, Refused(h) PROVE ConfigInv'
  <2>1. posts'[h].pc = "idle" /\ \A g \in Posts : g # h => posts'[g] = posts[g]
    BY <1>6, PostEnds DEF Refused
  <2>2. UNCHANGED <<savedConfigs, otelConfig, forwards>>
    BY <1>6 DEF Refused
  <2>. QED
    BY <1>1, <2>1, <2>2
<1>7. ASSUME NEW q \in Records, Delivered(q) PROVE ConfigInv'
  BY <1>1, <1>7 DEF Delivered
<1>8. CASE IngestKilled
  <2>1. UNCHANGED <<savedConfigs, otelConfig>> /\ forwards' = {}
    BY <1>8 DEF IngestKilled
  <2>2. \A g \in Posts : posts'[g].pc = "idle"
    BY <1>8 DEF IngestKilled, FreePost
  <2>. QED
    BY <1>1, <2>1, <2>2
<1>9. CASE OtelSaved
  BY <1>9 DEF OtelSaved, SavedConfig, ConfigInv
<1>10. CASE Forwarded
  BY <1>1, <1>10 DEF Forwarded
<1>. QED
  BY <1>2, <1>3, <1>4, <1>5, <1>6, <1>7, <1>8, <1>9, <1>10 DEF StreamNext, Seeking

\* Every step of the stream keeps the invariant.
LEMMA StreamStep == ASSUME StreamInv, StreamNext PROVE StreamInv'
BY StreamShapeStep, StreamProducerStep, StreamAttemptsStep, StreamAnswerStep, StreamConfigStep
   DEF StreamInv

\* What the invariant says of the stream.
LEMMA StreamSafe ==
    ASSUME StreamInv
    PROVE  /\ StreamTypeOK /\ AcceptedHeld /\ OneProducer /\ CopiesBounded /\ ForwardedAsSaved
<1>1. StreamTypeOK
  <2>1. Cardinality(startLock) <= 1
    <3>1. CASE startLock = {}
      BY <3>1, FS_EmptySet
    <3>2. CASE \E h \in Posts : startLock = {h}
      <4>1. PICK h \in Posts : startLock = {h}
        BY <3>2
      <4>2. Cardinality({h}) = 1
        BY FS_Singleton
      <4>. QED
        BY <4>1, <4>2
    <3>. QED
      BY <3>1, <3>2 DEF StreamInv, ProducerInv
  <2>2. \A h \in Posts : posts[h].pc \in {"idle", "producer", "locking",
                           "starting", "send", "answer", "refused"}
    BY DEF StreamInv, StreamShape, FreePost, PostUnderWay
  <2>3. otelConfig \subseteq [endpoint : {c.endpoint : c \in OtelConfigs},
                              key : {c.key : c \in OtelConfigs}, enabled : BOOLEAN]
    BY StreamAssumption, Zenon DEF StreamInv, ConfigInv
  <2>. QED
    BY <2>1, <2>2, <2>3 DEF StreamInv, StreamShape, StreamTypeOK
<1>2. AcceptedHeld
  BY DEF StreamInv, AnswerInv, AcceptedHeld
<1>3. OneProducer
  BY DEF StreamInv, ProducerInv, OneProducer
<1>4. CopiesBounded
  <2>. SUFFICES ASSUME NEW r \in Records PROVE queued[r] + topic[r] <= tries[r[1]]
    BY DEF CopiesBounded
  <2>. DEFINE b == r[1]
              n == Cardinality(OnTheWay(b))
  <2>1. b \in Batches
    BY RecordParts
  <2>2. queued[r] + topic[r] + n <= tries[b]
    BY <2>1 DEF StreamInv, AttemptsInv
  <2>3. n \in Nat
    BY StreamAssumption, FS_Subset, FS_CardinalityType DEF OnTheWay
  <2>4. queued[r] \in Nat /\ topic[r] \in Nat /\ tries[b] \in Nat
    BY <2>1 DEF StreamInv, StreamShape
  <2>. HIDE DEF b, n
  <2>5. queued[r] + topic[r] <= tries[b]
    BY <2>2, <2>3, <2>4
  <2>. QED
    BY <2>5 DEF b
<1>5. ForwardedAsSaved
  BY DEF StreamInv, ConfigInv, ForwardedAsSaved
<1>. QED
  BY <1>1, <1>2, <1>3, <1>4, <1>5

-----------------------------------------------------------------------------
(* Connection pool.  No connection is lost from the books: the free ones,  *)
(* the leaked ones and those held by requests are all there are            *)
(* (BooksInv), and a request that waits holds one only for a pricing       *)
(* update (HoldsInv).                                                      *)

PoolRequest == [pc : {"idle", "acquire", "run", "second", "audit"},
                kind : {"none", "query", "getdb", "pricing"}, held : 0..2]

PoolShape ==
    /\ free \in Nat /\ leaked \in Nat
    /\ users \in [PoolUsers -> PoolRequest]

HoldsInv ==
    \A u \in PoolUsers :
        /\ users[u].pc \in {"idle", "acquire"} => users[u].held = 0
        /\ users[u].pc = "run" => users[u].held = 1
        /\ users[u].pc = "second" => users[u].held = 1 /\ users[u].kind = "pricing"
        /\ users[u].pc = "audit" => users[u].held = 2

HeldBy == [u \in PoolUsers |-> users[u].held]

BooksInv == free + leaked + SumFunctionOnSet(HeldBy, PoolUsers) = PoolSize

PoolInv == PoolShape /\ HoldsInv /\ BooksInv

\* The pool is full.
LEMMA PoolBegin == PoolInit => PoolInv
<1>. SUFFICES ASSUME PoolInit PROVE PoolInv
  OBVIOUS
<1>0. IsFiniteSet(PoolUsers) /\ PoolSize \in Nat
  BY PoolAssumption
<1>1. users \in [PoolUsers -> PoolRequest] /\ \A u \in PoolUsers : users[u] = Idling
  BY DEF PoolInit, PoolRequest, Idling
<1>2. \A u \in PoolUsers : HeldBy[u] = 0
  BY <1>1 DEF HeldBy, Idling
<1>3. SumFunctionOnSet(HeldBy, PoolUsers) = 0
  BY <1>0, <1>2, SumZero
<1>. QED
  BY <1>0, <1>1, <1>3 DEF PoolInit, PoolInv, PoolShape, HoldsInv, BooksInv, Idling

\* What a request gives up or takes is found in the pool or lost.
LEMMA BooksKept ==
    ASSUME PoolShape, PoolShape', BooksInv, NEW u \in PoolUsers,
           \A v \in PoolUsers : v # u => users'[v] = users[v],
           free' + leaked' + users'[u].held = free + leaked + users[u].held
    PROVE  BooksInv'
<1>. DEFINE P == HeldBy
            Q == HeldBy'
            S == SumFunctionOnSet(P, PoolUsers)
            T == SumFunctionOnSet(Q, PoolUsers)
<1>1. IsFiniteSet(PoolUsers) /\ PoolSize \in Nat
  BY PoolAssumption
<1>2. \A v \in PoolUsers : users[v] \in PoolRequest /\ users'[v] \in PoolRequest
  BY DEF PoolShape
<1>3. \A v \in PoolUsers : users[v].held \in 0..2 /\ users'[v].held \in 0..2
  BY <1>2 DEF PoolRequest
<1>4. \A v \in PoolUsers : P[v] = users[v].held /\ Q[v] = users'[v].held
  BY DEF HeldBy
<1>5. \A v \in PoolUsers : P[v] \in Int /\ Q[v] \in Int /\ (v # u => P[v] = Q[v])
  BY <1>3, <1>4
<1>6. (free + leaked + S)' = free' + leaked' + T
  OBVIOUS
<1>7. free + leaked + S = PoolSize
  BY DEF BooksInv
<1>. HIDE DEF P, Q
<1>8. T = S - P[u] + Q[u]
  BY <1>1, <1>5, SumUpdate
<1>9. S \in Int /\ T \in Int
  BY <1>1, <1>5, SumInt
<1>10. P[u] \in Int /\ Q[u] \in Int /\ free' + leaked' + Q[u] = free + leaked + P[u]
  BY <1>4, <1>5
<1>11. free \in Nat /\ leaked \in Nat /\ free' \in Nat /\ leaked' \in Nat
  BY DEF PoolShape
<1>. HIDE DEF S, T
<1>12. free' + leaked' + T = PoolSize
  <2>. DEFINE p == P[u]
              q == Q[u]
              a == free'
              b == leaked'
  <2>1. /\ p \in Int /\ q \in Int /\ a \in Int /\ b \in Int /\ free \in Int /\ leaked \in Int
        /\ T = S - p + q /\ a + b + q = free + leaked + p
    BY <1>8, <1>10, <1>11
  <2>. HIDE DEF p, q, a, b
  <2>2. a + b + T = PoolSize
    BY <1>1, <1>7, <1>9, <2>1
  <2>. QED
    BY <2>2 DEF a, b
<1>. QED
  BY <1>12 DEF BooksInv, T, Q

\* A request of the pool changes by itself.
LEMMA PoolUserMoves ==
    ASSUME PoolShape, NEW u \in PoolUsers, NEW q \in PoolRequest, users' = [users EXCEPT ![u] = q]
    PROVE  /\ users' \in [PoolUsers -> PoolRequest] /\ users'[u] = q
           /\ \A v \in PoolUsers : v # u => users'[v] = users[v]
BY DEF PoolShape

\* Every step of the pool keeps the invariant.
LEMMA PoolStep == ASSUME PoolInv, PoolNext PROVE PoolInv'
<1>0. IsFiniteSet(PoolUsers) /\ PoolSize \in Nat
  BY PoolAssumption
<1>. USE DEF PoolInv
<1>1. ASSUME NEW u \in PoolUsers, NEW q \in PoolRequest, users' = [users EXCEPT ![u] = q],
             free' \in Nat, leaked' \in Nat,
             free' + leaked' + q.held = free + leaked + users[u].held,
             /\ q.pc \in {"idle", "acquire"} => q.held = 0
             /\ q.pc = "run" => q.held = 1
             /\ q.pc = "second" => q.held = 1 /\ q.kind = "pricing"
             /\ q.pc = "audit" => q.held = 2
      PROVE  PoolInv'
  <2>1. /\ users' \in [PoolUsers -> PoolRequest] /\ users'[u] = q
        /\ \A v \in PoolUsers : v # u => users'[v] = users[v]
    BY <1>1, PoolUserMoves
  <2>2. PoolShape'
    BY <1>1, <2>1 DEF PoolShape
  <2>3. HoldsInv'
    <3>. SUFFICES ASSUME NEW v \in PoolUsers
                  PROVE  /\ users'[v].pc \in {"idle", "acquire"} => users'[v].held = 0
                         /\ users'[v].pc = "run" => users'[v].held = 1
                         /\ users'[v].pc = "second" => users'[v].held = 1 /\ users'[v].kind = "pricing"
                         /\ users'[v].pc = "audit" => users'[v].held = 2
      BY DEF HoldsInv
    <3>1. CASE v = u
      BY <1>1, <2>1, <3>1
    <3>2. CASE v # u
      BY <2>1, <3>2 DEF HoldsInv
    <3>. QED
      BY <3>1, <3>2
  <2>4. free' + leaked' + users'[u].held = free + leaked + users[u].held
    BY <1>1, <2>1
  <2>5. BooksInv'
    BY <2>1, <2>2, <2>4, BooksKept
  <2>. QED
    BY <2>2, <2>3, <2>5
<1>2. free \in Nat /\ leaked \in Nat /\ \A u \in PoolUsers : users[u] \in PoolRequest
  BY DEF PoolShape
<1>3. Idling \in PoolRequest /\ Idling.pc = "idle" /\ Idling.held = 0
  BY DEF Idling, PoolRequest
<1>4. ASSUME NEW u \in PoolUsers, RequestArrives(u) PROVE PoolInv'
  <2>1. PICK k \in {"query", "getdb", "pricing"} :
          users' = [users EXCEPT ![u] = [pc |-> "acquire", kind |-> k, held |-> 0]]
    BY <1>4 DEF RequestArrives
  <2>. DEFINE q == [pc |-> "acquire", kind |-> k, held |-> 0]
  <2>2. q \in PoolRequest /\ q.pc = "acquire" /\ q.held = 0
    BY DEF PoolRequest
  <2>3. users[u].held = 0 /\ free' = free /\ leaked' = leaked
    BY <1>4 DEF RequestArrives, HoldsInv
  <2>4. users' = [users EXCEPT ![u] = q]
    BY <2>1
  <2>. HIDE DEF q
  <2>5. free' + leaked' + q.held = free + leaked + users[u].held
    BY <2>2, <2>3
  <2>. QED
    BY <1>1, <1>2, <2>2, <2>3, <2>4, <2>5
<1>5. ASSUME NEW u \in PoolUsers, Acquire(u) PROVE PoolInv'
  <2>. DEFINE to == IF users[u].pc = "acquire" THEN "run" ELSE "audit"
              q == [users[u] EXCEPT !.held = users[u].held + 1, !.pc = to]
  <2>1. users' = [users EXCEPT ![u] = q]
    BY <1>5 DEF Acquire
  <2>2. users[u].pc \in {"acquire", "second"} /\ free > 0 /\ free' = free - 1 /\ leaked' = leaked
    BY <1>5 DEF Acquire
  <2>3. users[u].held \in {0, 1} /\ users[u].held = IF users[u].pc = "acquire" THEN 0 ELSE 1
    BY <2>2 DEF HoldsInv
  <2>4. q.pc = to /\ q.held = users[u].held + 1 /\ q.kind = users[u].kind
    BY <1>2 DEF PoolRequest
  <2>5. q \in PoolRequest
    <3>1. users[u].held + 1 \in 0..2 /\ to \in {"run", "audit"} /\ users[u] \in PoolRequest
      BY <1>2, <2>3
    <3>. DEFINE n == users[u].held + 1
    <3>. HIDE DEF n, to
    <3>2. n \in 0..2
      BY <3>1 DEF n
    <3>3. [users[u] EXCEPT !.held = n, !.pc = to] \in PoolRequest
      BY <3>1, <3>2 DEF PoolRequest
    <3>. QED
      BY <3>3 DEF n
  <2>6. /\ q.pc \in {"idle", "acquire"} => q.held = 0
        /\ q.pc = "run" => q.held = 1
        /\ q.pc = "second" => q.held = 1 /\ q.kind = "pricing"
        /\ q.pc = "audit" => q.held = 2
    BY <2>2, <2>3, <2>4
  <2>. HIDE DEF q
  <2>7. free' \in Nat /\ free' + leaked' + q.held = free + leaked + users[u].held
    BY <1>2, <2>2, <2>3, <2>4
  <2>. QED
    BY <1>1, <1>2, <2>1, <2>2, <2>5, <2>6, <2>7
<1>6. ASSUME NEW u \in PoolUsers, QueryEnds(u) PROVE PoolInv'
  <2>1. users[u].held = 1 /\ free' = free + 1 /\ leaked' = leaked /\ users' = [users EXCEPT ![u] = Idling]
    BY <1>6 DEF QueryEnds, HoldsInv, Released
  <2>2. free' \in Nat /\ free' + leaked' + Idling.held = free + leaked + users[u].held
    BY <1>2, <1>3, <2>1
  <2>. QED
    BY <1>1, <1>2, <1>3, <2>1, <2>2
<1>7. ASSUME NEW u \in PoolUsers, GetDbEnds(u) PROVE PoolInv'
  <2>1. users[u].held = 1 /\ free' = free /\ leaked' = leaked + 1 /\ users' = [users EXCEPT ![u] = Idling]
    BY <1>7 DEF GetDbEnds, HoldsInv
  <2>2. leaked' \in Nat /\ free' + leaked' + Idling.held = free + leaked + users[u].held
    BY <1>2, <1>3, <2>1
  <2>. QED
    BY <1>1, <1>2, <1>3, <2>1, <2>2
<1>8. ASSUME NEW u \in PoolUsers, PricingWritten(u) PROVE PoolInv'
  <2>. DEFINE q == [users[u] EXCEPT !.pc = "second"]
  <2>1. users' = [users EXCEPT ![u] = q] /\ free' = free /\ leaked' = leaked
    BY <1>8 DEF PricingWritten
  <2>2. users[u].held = 1 /\ users[u].kind = "pricing"
    BY <1>8 DEF PricingWritten, HoldsInv
  <2>3. q \in PoolRequest /\ q.pc = "second" /\ q.held = users[u].held /\ q.kind = users[u].kind
    BY <1>2 DEF PoolRequest
  <2>. HIDE DEF q
  <2>4. free' + leaked' + q.held = free + leaked + users[u].held
    BY <2>1, <2>3
  <2>. QED
    BY <1>1, <1>2, <2>1, <2>2, <2>3, <2>4
<1>9. ASSUME NEW u \in PoolUsers, AuditWritten(u) PROVE PoolInv'
  <2>1. users[u].held = 2 /\ free' = free + 1 /\ leaked' = leaked + 2 - 1 /\ users' = [users EXCEPT ![u] = Idling]
    BY <1>9 DEF AuditWritten, HoldsInv
  <2>2. /\ free' \in Nat /\ leaked' \in Nat
        /\ free' + leaked' + Idling.held = free + leaked + users[u].held
    BY <1>2, <1>3, <2>1
  <2>. QED
    BY <1>1, <1>3, <2>1, <2>2
<1>10. CASE PoolRestarts
  <2>. DEFINE Q == HeldBy'
  <2>1. users' \in [PoolUsers -> PoolRequest] /\ \A u \in PoolUsers : users'[u] = Idling
    BY <1>3, <1>10 DEF PoolRestarts
  <2>2. \A u \in PoolUsers : Q[u] = 0
    BY <1>3, <2>1 DEF HeldBy
  <2>. HIDE DEF Q
  <2>3. SumFunctionOnSet(Q, PoolUsers) = 0
    BY <1>0, <2>2, SumZero
  <2>4. SumFunctionOnSet(HeldBy, PoolUsers)' = 0
    BY <2>3 DEF Q
  <2>5. free' = PoolSize /\ leaked' = 0
    BY <1>10 DEF PoolRestarts
  <2>6. BooksInv'
    BY <1>0, <2>4, <2>5 DEF BooksInv
  <2>. QED
    BY <1>0, <1>3, <2>1, <2>5, <2>6 DEF PoolShape, HoldsInv
<1>. QED
  BY <1>4, <1>5, <1>6, <1>7, <1>8, <1>9, <1>10 DEF PoolNext

\* What the invariant says of the pool.
LEMMA PoolSafe == ASSUME PoolInv PROVE PoolTypeOK /\ StarvedOnlyByGetDb
<1>. DEFINE S == SumFunctionOnSet(HeldBy, PoolUsers)
<1>0. IsFiniteSet(PoolUsers) /\ PoolSize \in Nat
  BY PoolAssumption
<1>1. \A u \in PoolUsers : users[u] \in PoolRequest
  BY DEF PoolInv, PoolShape
<1>2. \A u \in PoolUsers : HeldBy[u] = users[u].held /\ users[u].held \in Nat
  BY <1>1 DEF PoolRequest, HeldBy
<1>3. S \in Nat
  BY <1>0, <1>2, SumNat
<1>4. free \in Nat /\ leaked \in Nat /\ free + leaked + S = PoolSize
  BY DEF PoolInv, PoolShape, BooksInv
<1>. HIDE DEF S
<1>5. free \in 0..PoolSize /\ leaked \in 0..PoolSize
  BY <1>0, <1>3, <1>4
<1>6. PoolTypeOK
  BY <1>5 DEF PoolInv, PoolShape, PoolRequest, PoolTypeOK
<1>7. StarvedOnlyByGetDb
  <2>. SUFFICES ASSUME Working = {}, free = 0
                PROVE  leaked + Cardinality({u \in Waiting : users[u].kind = "pricing"
                                                             /\ users[u].held = 1}) = PoolSize
    BY DEF StarvedOnlyByGetDb
  <2>1. \A u \in PoolUsers : users[u].pc \in {"idle", "acquire", "second"}
    BY <1>1 DEF Working, PoolRequest
  <2>2. \A u \in PoolUsers : HeldBy[u] = IF users[u].pc = "second" THEN 1 ELSE 0
    BY <1>2, <2>1 DEF PoolInv, HoldsInv
  <2>3. \A u \in PoolUsers : HeldBy[u] \in {0, 1}
    BY <2>2
  <2>4. S = Cardinality({u \in PoolUsers : HeldBy[u] = 1})
    BY <1>0, <2>3, SumCount DEF S
  <2>5. {u \in PoolUsers : HeldBy[u] = 1}
          = {u \in Waiting : users[u].kind = "pricing" /\ users[u].held = 1}
    BY <1>2, <2>2 DEF Waiting, PoolInv, HoldsInv
  <2>6. leaked + S = PoolSize
    BY <1>0, <1>3, <1>4
  <2>. QED
    BY <2>4, <2>5, <2>6
<1>. QED
  BY <1>6, <1>7

-----------------------------------------------------------------------------
(* Agent API.  A context is copied into the call that authenticated, so an *)
(* answer is about the workspace it held then.  The agents that were told  *)
(* allowed and have not spent yet are counted with the spend (AdviceInv).  *)

Contexts == [ws : Tenants, scopes : SUBSET Scopes, expires : Nat, revoked : BOOLEAN]

ApiStates ==
    {[at |-> "idle"]} \cup [at : {"authenticated"}, ctx : Contexts]
        \cup [at : {"answered", "allowed"}, of : Tenants, ws : Tenants]

AgentApiShape ==
    /\ tick \in 0..MaxTick /\ revokedTokens \subseteq Bearers
    /\ tokenOf \in [Bearers -> SUBSET Contexts]
    /\ \A b \in Bearers : \A x, y \in tokenOf[b] : x = y
    /\ apiCall \in [ApiCalls -> ApiStates]
    /\ spendOf \in [Tenants -> Nat]

Told(calls, w) == {c \in ApiCalls : calls[c].at = "allowed" /\ calls[c].of = w}

AdviceHolds(calls, spent_, w) ==
    spent_[w] + Cardinality(Told(calls, w)) * Planned
        <= Limit + (Cardinality(ApiCalls) - 1) * Planned

AdviceInv == \A w \in Tenants : AdviceHolds(apiCall, spendOf, w)

AgentApiInv == AgentApiShape /\ RevokedStaysRevoked /\ TenantsApart /\ AdviceInv

\* The calls that were told allowed are counted.
LEMMA ToldCount ==
    ASSUME NEW calls, NEW w
    PROVE  /\ IsFiniteSet(Told(calls, w)) /\ Cardinality(Told(calls, w)) \in Nat
           /\ Cardinality(ApiCalls) \in Nat /\ Cardinality(ApiCalls) >= 1
           /\ Cardinality(Told(calls, w)) <= Cardinality(ApiCalls)
<1>1. IsFiniteSet(ApiCalls) /\ ApiCalls # {}
  BY AgentApiAssumption
<1>2. Told(calls, w) \subseteq ApiCalls
  BY DEF Told
<1>3. IsFiniteSet(Told(calls, w)) /\ Cardinality(Told(calls, w)) <= Cardinality(ApiCalls)
  BY <1>1, <1>2, FS_Subset
<1>4. Cardinality(ApiCalls) \in Nat /\ Cardinality(ApiCalls) # 0
  BY <1>1, FS_CardinalityType, FS_EmptySet
<1>. QED
  BY <1>3, <1>4, FS_CardinalityType

\* A call that is told nothing new leaves the advice as good as it was.
LEMMA AdviceKept ==
    ASSUME NEW calls, NEW later, NEW spent_, NEW w \in Tenants, spent_ \in [Tenants -> Nat],
           AdviceHolds(calls, spent_, w), Told(later, w) \subseteq Told(calls, w)
    PROVE  AdviceHolds(later, spent_, w)
<1>. DEFINE m == Cardinality(Told(calls, w))
            n == Cardinality(Told(later, w))
            all == (Cardinality(ApiCalls) - 1) * Planned
<1>1. m \in Nat /\ n \in Nat /\ n <= m
  BY ToldCount, FS_Subset
<1>2. Planned \in Nat /\ Limit \in Nat /\ all \in Int /\ spent_[w] \in Nat
  <2>1. Planned \in Nat /\ Limit \in Nat /\ spent_[w] \in Nat
    BY AgentApiAssumption
  <2>2. Cardinality(ApiCalls) \in Nat
    BY ToldCount
  <2>. QED
    BY <2>1, <2>2
<1>3. spent_[w] + m * Planned <= Limit + all
  BY DEF AdviceHolds
<1>. HIDE DEF m, n, all
<1>4. n * Planned <= m * Planned /\ n * Planned \in Nat /\ m * Planned \in Nat
  BY <1>1, <1>2, TimesLess
<1>5. spent_[w] + n * Planned <= Limit + all
  BY <1>2, <1>3, <1>4
<1>. QED
  BY <1>5 DEF AdviceHolds, n, all

\* Telling one more call counts what it plans, which was found to fit.
LEMMA AdviceGiven ==
    ASSUME NEW later, NEW spent_, NEW w \in Tenants, spent_ \in [Tenants -> Nat],
           spent_[w] + Planned <= Limit
    PROVE  AdviceHolds(later, spent_, w)
<1>. DEFINE n == Cardinality(Told(later, w))
            k == Cardinality(ApiCalls)
<1>1. n \in Nat /\ k \in Nat /\ k >= 1 /\ n <= k
  BY ToldCount
<1>2. Planned \in Nat /\ Limit \in Nat /\ spent_[w] \in Nat
  BY AgentApiAssumption
<1>. HIDE DEF n, k
<1>3. n * Planned <= k * Planned
  BY <1>1, <1>2, TimesLess
<1>4. k * Planned = (k - 1) * Planned + Planned
  BY <1>1, <1>2
<1>5. n * Planned \in Int /\ k * Planned \in Int /\ (k - 1) * Planned \in Int
  BY <1>1, <1>2
<1>6. spent_[w] + n * Planned <= Limit + (k - 1) * Planned
  BY <1>2, <1>3, <1>4, <1>5
<1>. QED
  BY <1>6 DEF AdviceHolds, n, k

\* Spending what was planned moves it from the advice to the spend.
LEMMA AdviceSpent ==
    ASSUME NEW calls, NEW later, NEW spent_, NEW after, NEW w \in Tenants, NEW c,
           spent_ \in [Tenants -> Nat], after \in [Tenants -> Nat],
           c \in Told(calls, w), Told(later, w) = Told(calls, w) \ {c},
           after[w] <= spent_[w] + Planned, AdviceHolds(calls, spent_, w)
    PROVE  AdviceHolds(later, after, w)
<1>. DEFINE m == Cardinality(Told(calls, w))
            n == Cardinality(Told(later, w))
            all == (Cardinality(ApiCalls) - 1) * Planned
<1>1. m \in Nat /\ n \in Nat /\ m = n + 1
  <2>1. n = m - 1
    BY ToldCount, FS_RemoveElement
  <2>. QED
    BY <2>1, ToldCount
<1>2. Planned \in Nat /\ Limit \in Nat /\ all \in Int /\ spent_[w] \in Nat /\ after[w] \in Nat
  BY AgentApiAssumption, ToldCount
<1>3. spent_[w] + m * Planned <= Limit + all
  BY DEF AdviceHolds
<1>. HIDE DEF m, n, all
<1>4. m * Planned = n * Planned + Planned /\ n * Planned \in Nat /\ m * Planned \in Nat
  BY <1>1, <1>2
<1>5. after[w] + n * Planned <= Limit + all
  BY <1>2, <1>3, <1>4
<1>. QED
  BY <1>5 DEF AdviceHolds, n, all

\* No token, no call, nothing spent.
LEMMA AgentApiBegin == AgentApiInit => AgentApiInv
<1>. SUFFICES ASSUME AgentApiInit PROVE AgentApiInv
  OBVIOUS
<1>1. AgentApiShape
  BY AgentApiAssumption DEF AgentApiInit, AgentApiShape, ApiStates
<1>2. RevokedStaysRevoked /\ TenantsApart
  BY DEF AgentApiInit, RevokedStaysRevoked, TenantsApart
<1>3. ASSUME NEW w \in Tenants PROVE AdviceHolds(apiCall, spendOf, w)
  <2>1. Told(apiCall, w) = {}
    BY DEF AgentApiInit, Told
  <2>2. Cardinality(Told(apiCall, w)) = 0
    BY <2>1, FS_EmptySet
  <2>. DEFINE k == Cardinality(ApiCalls)
  <2>3. k \in Nat /\ k >= 1 /\ Planned \in Nat /\ Limit \in Nat
    BY ToldCount, AgentApiAssumption
  <2>. HIDE DEF k
  <2>4. (k - 1) * Planned >= 0 /\ (k - 1) * Planned \in Int
    BY <2>3
  <2>5. 0 + 0 * Planned <= Limit + (k - 1) * Planned
    BY <2>3, <2>4
  <2>6. spendOf[w] = 0
    BY DEF AgentApiInit
  <2>. QED
    BY <2>2, <2>5, <2>6 DEF AdviceHolds, k
<1>. QED
  BY <1>1, <1>2, <1>3 DEF AgentApiInv, AdviceInv

\* A call moves by itself.
LEMMA ApiCallMoves ==
    ASSUME AgentApiShape, NEW c \in ApiCalls, NEW q \in ApiStates, apiCall' = [apiCall EXCEPT ![c] = q]
    PROVE  /\ apiCall' \in [ApiCalls -> ApiStates] /\ apiCall'[c] = q
           /\ \A d \in ApiCalls : d # c => apiCall'[d] = apiCall[d]
BY DEF AgentApiShape

\* A call that is not told allowed: no workspace has more calls told than before.
LEMMA NotTold ==
    ASSUME AgentApiShape, NEW c \in ApiCalls, NEW q \in ApiStates, apiCall' = [apiCall EXCEPT ![c] = q],
           q.at # "allowed", NEW w
    PROVE  Told(apiCall', w) \subseteq Told(apiCall, w)
BY ApiCallMoves DEF Told

\* A call past authentication holds a context.
LEMMA ContextHeld ==
    ASSUME AgentApiShape, NEW c \in ApiCalls
    PROVE  /\ apiCall[c].at = "authenticated" => apiCall[c].ctx \in Contexts
           /\ apiCall[c].at \in {"answered", "allowed"} => apiCall[c].of \in Tenants
BY DEF AgentApiShape, ApiStates

\* A call that ends in a state that is idle, authenticated, or an answer about
\* its own workspace other than "allowed".
LEMMA QuietCall ==
    ASSUME AgentApiInv, NEW c \in ApiCalls, NEW q \in ApiStates, apiCall' = [apiCall EXCEPT ![c] = q],
           q.at # "allowed", q.at = "answered" => q.of = q.ws,
           tick' = tick, tokenOf' = tokenOf, revokedTokens' = revokedTokens, spendOf' = spendOf,
           barred' = {}
    PROVE  AgentApiInv'
<1>1. AgentApiShape'
  BY ApiCallMoves DEF AgentApiShape, AgentApiInv
<1>2. TenantsApart'
  BY ApiCallMoves DEF TenantsApart, AgentApiInv
<1>3. AdviceInv'
  <2>1. ASSUME NEW w \in Tenants PROVE AdviceHolds(apiCall', spendOf, w)
    <3>1. Told(apiCall', w) \subseteq Told(apiCall, w)
      BY NotTold DEF AgentApiInv
    <3>2. AdviceHolds(apiCall, spendOf, w) /\ spendOf \in [Tenants -> Nat]
      BY DEF AgentApiInv, AdviceInv, AgentApiShape
    <3>. DEFINE a == apiCall'
    <3>. HIDE DEF a
    <3>3. Told(a, w) \subseteq Told(apiCall, w)
      BY <3>1 DEF a
    <3>4. AdviceHolds(a, spendOf, w)
      BY <3>2, <3>3, AdviceKept
    <3>. QED
      BY <3>4 DEF a
  <2>2. \A w \in Tenants : AdviceHolds(apiCall', spendOf', w)
    BY <2>1
  <2>. QED
    BY <2>2 DEF AdviceInv, AdviceHolds, Told
<1>. QED
  BY <1>1, <1>2, <1>3 DEF AgentApiInv, RevokedStaysRevoked

\* What each step of the agent API keeps.
LEMMA AgentApiStep == ASSUME AgentApiInv, AgentApiNext PROVE AgentApiInv'
<1>0. AgentApiShape /\ MaxTick \in Nat /\ barred = {}
  BY AgentApiAssumption DEF AgentApiInv, RevokedStaysRevoked
<1>a. ASSUME apiCall' = apiCall, spendOf' = spendOf, barred' = barred, AgentApiShape'
      PROVE  AgentApiInv'
  BY <1>a DEF AgentApiInv, RevokedStaysRevoked, TenantsApart, AdviceInv, AdviceHolds, Told
<1>1. CASE ApiTick
  <2>1. AgentApiShape'
    BY <1>0, <1>1 DEF ApiTick, AgentApiShape
  <2>. QED
    BY <1>1, <1>a, <2>1 DEF ApiTick
<1>2. ASSUME NEW b \in Bearers, NEW w \in Tenants, NEW S \in {{"economics:read"}, Scopes},
             NEW ttl \in {0, 1}, RegisterToken(b, w, S, ttl)
      PROVE  AgentApiInv'
  <2>. DEFINE x == [ws |-> w, scopes |-> S, expires |-> tick + ttl, revoked |-> FALSE]
  <2>1. S \in SUBSET Scopes /\ tick + ttl \in Nat
    BY <1>0 DEF Scopes, AgentApiShape
  <2>2. x \in Contexts
    BY <2>1 DEF Contexts
  <2>3. tokenOf' = [tokenOf EXCEPT ![b] = {x}]
    BY <1>2 DEF RegisterToken
  <2>. HIDE DEF x
  <2>4. tokenOf' \in [Bearers -> SUBSET Contexts] /\ \A c \in Bearers : \A y, z \in tokenOf'[c] : y = z
    BY <1>0, <2>2, <2>3 DEF AgentApiShape
  <2>5. AgentApiShape'
    BY <1>0, <1>2, <2>4 DEF RegisterToken, AgentApiShape
  <2>. QED
    BY <1>2, <1>a, <2>5 DEF RegisterToken
<1>3. ASSUME NEW b \in Bearers, RevokeToken(b) PROVE AgentApiInv'
  <2>. DEFINE N == {[x EXCEPT !.revoked = TRUE] : x \in tokenOf[b]}
  <2>1. tokenOf[b] \subseteq Contexts /\ \A y, z \in tokenOf[b] : y = z
    BY <1>0 DEF AgentApiShape
  <2>2. N \subseteq Contexts
    BY <2>1 DEF Contexts
  <2>3. \A y, z \in N : y = z
    BY <2>1
  <2>4. tokenOf' = [tokenOf EXCEPT ![b] = N]
    BY <1>3 DEF RevokeToken
  <2>. HIDE DEF N
  <2>5. tokenOf' \in [Bearers -> SUBSET Contexts] /\ \A c \in Bearers : \A y, z \in tokenOf'[c] : y = z
    BY <1>0, <2>2, <2>3, <2>4 DEF AgentApiShape
  <2>6. AgentApiShape'
    BY <1>0, <1>3, <2>5 DEF RevokeToken, AgentApiShape
  <2>. QED
    BY <1>3, <1>a, <2>6 DEF RevokeToken
<1>4. ASSUME NEW c \in ApiCalls, NEW b \in Bearers, Enter(c, b) PROVE AgentApiInv'
  <2>1. PICK x \in Authenticate(b) : apiCall' = [apiCall EXCEPT ![c] = [at |-> "authenticated", ctx |-> x]]
    BY <1>4 DEF Enter
  <2>2. b \notin revokedTokens /\ x \in tokenOf[b]
    BY DEF Authenticate
  <2>3. x \in Contexts
    BY <1>0, <2>2 DEF AgentApiShape
  <2>. DEFINE q == [at |-> "authenticated", ctx |-> x]
  <2>4. q \in ApiStates /\ q.at = "authenticated"
    BY <2>3 DEF ApiStates
  <2>5. barred' = {}
    BY <1>0, <1>4, <2>2 DEF Enter
  <2>6. apiCall' = [apiCall EXCEPT ![c] = q]
    BY <2>1
  <2>. HIDE DEF q
  <2>. QED
    BY <1>4, <2>4, <2>5, <2>6, QuietCall DEF Enter
<1>5. ASSUME NEW c \in ApiCalls, Back(c), tick' = tick, tokenOf' = tokenOf,
             revokedTokens' = revokedTokens, spendOf' = spendOf, barred' = barred
      PROVE  AgentApiInv'
  <2>. DEFINE q == [at |-> "idle"]
  <2>1. q \in ApiStates /\ q.at = "idle" /\ apiCall' = [apiCall EXCEPT ![c] = q]
    BY <1>5 DEF ApiStates, Back
  <2>. HIDE DEF q
  <2>. QED
    BY <1>0, <1>5, <2>1, QuietCall
<1>6. ASSUME NEW c \in ApiCalls, NEW w \in Tenants, ReadEconomics(c, w) PROVE AgentApiInv'
  <2>1. CASE Authorize(apiCall[c].ctx, "economics:read", w)
    <3>. DEFINE q == [at |-> "answered", of |-> w, ws |-> apiCall[c].ctx.ws]
    <3>1. apiCall[c].ctx.ws = w /\ apiCall' = [apiCall EXCEPT ![c] = q]
      BY <1>6, <2>1 DEF Authorize, ReadEconomics
    <3>2. q \in ApiStates /\ q.at = "answered" /\ q.of = q.ws
      BY <3>1 DEF ApiStates
    <3>. HIDE DEF q
    <3>. QED
      BY <1>0, <1>6, <3>1, <3>2, QuietCall DEF ReadEconomics
  <2>2. CASE ~ Authorize(apiCall[c].ctx, "economics:read", w)
    BY <1>5, <1>6, <2>2 DEF ReadEconomics, Back
  <2>. QED
    BY <2>1, <2>2
<1>7. ASSUME NEW c \in ApiCalls, NEW w \in Tenants, CheckBudget(c, w) PROVE AgentApiInv'
  <2>1. CASE Authorize(apiCall[c].ctx, "budget:check", w) /\ FitsBudget(w)
    <3>. DEFINE q == [at |-> "allowed", of |-> w, ws |-> apiCall[c].ctx.ws]
    <3>1. apiCall[c].ctx.ws = w /\ apiCall' = [apiCall EXCEPT ![c] = q]
      BY <1>7, <2>1 DEF Authorize, CheckBudget
    <3>2. q \in ApiStates /\ q.at = "allowed" /\ q.of = w /\ q.of = q.ws
      BY <3>1 DEF ApiStates
    <3>3. spendOf[w] + Planned <= Limit
      BY <2>1 DEF FitsBudget
    <3>. HIDE DEF q
    <3>4. /\ apiCall' \in [ApiCalls -> ApiStates] /\ apiCall'[c] = q
          /\ \A d \in ApiCalls : d # c => apiCall'[d] = apiCall[d]
      BY <1>0, <3>1, <3>2, ApiCallMoves
    <3>5. AgentApiShape'
      BY <1>0, <1>7, <3>4 DEF AgentApiShape, CheckBudget
    <3>6. TenantsApart'
      BY <3>2, <3>4 DEF TenantsApart, AgentApiInv
    <3>7. ASSUME NEW v \in Tenants PROVE AdviceHolds(apiCall', spendOf, v)
      <4>. DEFINE a == apiCall'
      <4>1. AdviceHolds(apiCall, spendOf, v) /\ spendOf \in [Tenants -> Nat]
        BY DEF AgentApiInv, AdviceInv, AgentApiShape
      <4>2. CASE v = w
        <5>. HIDE DEF a
        <5>1. AdviceHolds(a, spendOf, w)
          BY <3>3, <4>1, AdviceGiven
        <5>. QED
          BY <4>2, <5>1 DEF a
      <4>3. CASE v # w
        <5>1. Told(a, v) \subseteq Told(apiCall, v)
          BY <3>2, <3>4, <4>3 DEF Told
        <5>. HIDE DEF a
        <5>2. AdviceHolds(a, spendOf, v)
          BY <4>1, <5>1, AdviceKept
        <5>. QED
          BY <5>2 DEF a
      <4>. QED
        BY <4>2, <4>3
    <3>8. \A v \in Tenants : AdviceHolds(apiCall', spendOf', v)
      BY <1>7, <3>7 DEF CheckBudget
    <3>9. AdviceInv'
      BY <3>8 DEF AdviceInv, AdviceHolds, Told
    <3>. QED
      BY <1>0, <1>7, <3>5, <3>6, <3>9 DEF AgentApiInv, RevokedStaysRevoked, CheckBudget
  <2>2. CASE ~ (Authorize(apiCall[c].ctx, "budget:check", w) /\ FitsBudget(w))
    BY <1>5, <1>7, <2>2 DEF CheckBudget, Back
  <2>. QED
    BY <2>1, <2>2
<1>8. ASSUME NEW c \in ApiCalls, NEW spends \in BOOLEAN, AgentSpends(c, spends) PROVE AgentApiInv'
  <2>. DEFINE w == apiCall[c].of
              q == [at |-> "idle"]
              p == IF spends THEN Planned ELSE 0
  <2>1. apiCall[c].at = "allowed" /\ w \in Tenants
    BY <1>0, <1>8, ContextHeld DEF AgentSpends
  <2>2. q \in ApiStates /\ q.at = "idle" /\ apiCall' = [apiCall EXCEPT ![c] = q]
    BY <1>8 DEF AgentSpends, ApiStates, Back
  <2>3. Planned \in Nat /\ p \in Nat /\ p <= Planned
    BY AgentApiAssumption
  <2>4. spendOf' = [spendOf EXCEPT ![w] = @ + p] /\ spendOf \in [Tenants -> Nat]
    BY <1>0, <1>8 DEF AgentSpends, AgentApiShape
  <2>. HIDE DEF q, p
  <2>5. /\ apiCall' \in [ApiCalls -> ApiStates] /\ apiCall'[c] = q
        /\ \A d \in ApiCalls : d # c => apiCall'[d] = apiCall[d]
    BY <1>0, <2>2, ApiCallMoves
  <2>6. c \in Told(apiCall, w)
    BY <2>1 DEF Told
  <2>7. /\ Told(apiCall', w) = Told(apiCall, w) \ {c}
        /\ \A v \in Tenants : Told(apiCall', v) \subseteq Told(apiCall, v)
    BY <2>2, <2>5 DEF Told
  <2>. HIDE DEF w
  <2>8. /\ spendOf' \in [Tenants -> Nat] /\ spendOf'[w] <= spendOf[w] + Planned
        /\ \A v \in Tenants : v # w => spendOf'[v] = spendOf[v]
    BY <2>1, <2>3, <2>4
  <2>9. AgentApiShape'
    BY <1>0, <1>8, <2>5, <2>8 DEF AgentApiShape, AgentSpends
  <2>10. TenantsApart'
    BY <2>2, <2>5 DEF TenantsApart, AgentApiInv
  <2>11. ASSUME NEW v \in Tenants PROVE AdviceHolds(apiCall', spendOf', v)
    <3>. DEFINE a == apiCall'
                s == spendOf'
    <3>1. AdviceHolds(apiCall, spendOf, v)
      BY DEF AgentApiInv, AdviceInv
    <3>2. /\ Told(a, w) = Told(apiCall, w) \ {c} /\ Told(a, v) \subseteq Told(apiCall, v)
          /\ s \in [Tenants -> Nat] /\ s[w] <= spendOf[w] + Planned /\ (v # w => s[v] = spendOf[v])
      BY <2>7, <2>8
    <3>. HIDE DEF a, s
    <3>3. CASE v = w
      <4>1. AdviceHolds(a, s, v)
        BY <2>4, <2>6, <3>1, <3>2, <3>3, AdviceSpent
      <4>. QED
        BY <4>1 DEF a, s
    <3>4. CASE v # w
      <4>1. AdviceHolds(a, spendOf, v)
        BY <2>4, <3>1, <3>2, AdviceKept
      <4>2. AdviceHolds(a, s, v)
        BY <3>2, <3>4, <4>1 DEF AdviceHolds
      <4>. QED
        BY <4>2 DEF a, s
    <3>. QED
      BY <3>3, <3>4
  <2>12. AdviceInv'
    BY <2>11 DEF AdviceInv, AdviceHolds, Told
  <2>. QED
    BY <1>0, <1>8, <2>9, <2>10, <2>12 DEF AgentApiInv, RevokedStaysRevoked, AgentSpends
<1>. QED
  BY <1>1, <1>2, <1>3, <1>4, <1>5, <1>6, <1>7, <1>8
  DEF AgentApiNext, SimulateChange, Describe

\* The invariant of the agent API implies what its runs check.
LEMMA AgentApiSafe ==
    ASSUME AgentApiInv
    PROVE  AgentApiTypeOK /\ RevokedStaysRevoked /\ TenantsApart /\ AdviceOvershoot
<1>1. AgentApiTypeOK
  <2>1. ASSUME NEW b \in Bearers PROVE Cardinality(tokenOf[b]) <= 1
    <3>1. \A x, y \in tokenOf[b] : x = y
      BY DEF AgentApiInv, AgentApiShape
    <3>2. CASE tokenOf[b] = {}
      BY <3>2, FS_EmptySet
    <3>3. CASE tokenOf[b] # {}
      <4>1. PICK x : tokenOf[b] = {x}
        BY <3>1, <3>3
      <4>. QED
        BY <4>1, FS_Singleton
    <3>. QED
      BY <3>2, <3>3
  <2>2. \A c \in ApiCalls : apiCall[c].at \in {"idle", "authenticated", "answered", "allowed"}
    BY DEF AgentApiInv, AgentApiShape, ApiStates
  <2>. QED
    BY <2>1, <2>2 DEF AgentApiTypeOK, AgentApiInv, AgentApiShape
<1>2. ASSUME NEW w \in Tenants PROVE spendOf[w] <= Limit + (Cardinality(ApiCalls) - 1) * Planned
  <2>. DEFINE n == Cardinality(Told(apiCall, w))
              k == Cardinality(ApiCalls)
              s == spendOf[w]
  <2>1. s + n * Planned <= Limit + (k - 1) * Planned
    BY DEF AgentApiInv, AdviceInv, AdviceHolds
  <2>2. n \in Nat /\ k \in Nat
    BY ToldCount
  <2>3. s \in Nat /\ Planned \in Nat /\ Limit \in Nat
    BY AgentApiAssumption DEF AgentApiInv, AgentApiShape
  <2>. HIDE DEF n, k, s
  <2>4. n * Planned \in Nat /\ (k - 1) * Planned \in Int
    BY <2>2, <2>3
  <2>5. s <= Limit + (k - 1) * Planned
    BY <2>1, <2>3, <2>4
  <2>. QED
    BY <2>5 DEF s, k
<1>. QED
  BY <1>1, <1>2 DEF AgentApiInv, AdviceOvershoot

-----------------------------------------------------------------------------
(* API keys.  A key that is being revoked has its row marked, and once its *)
(* revocation is complete the legacy column does not hold it (GoneInv).    *)
(* The keys besides the one of the signup and the calls that have counted  *)
(* stay together under the cap of InsertKey (RoomInv).                     *)

RowStates == {"none", "live", "paused", "revoked"}
LookupStates == {Idle} \cup [key : Keys, stage : {"fallback", "found"}]

ApiKeysShape ==
    /\ keyRow \in [Keys -> RowStates]
    /\ signupKey \in Keys \cup {NoKey} /\ legacyKey \in {signupKey, NoKey}
    /\ keyCache \in [Workers -> SUBSET Keys]
    /\ lookup \in [Workers -> LookupStates]
    /\ revoking \subseteq Keys /\ dead \subseteq Keys
    /\ keyCap \in KeyCaps /\ topCap \in KeyCaps /\ keyCap <= topCap
    /\ counted \subseteq Creators

GoneInv ==
    /\ \A k \in revoking \cup dead : keyRow[k] = "revoked"
    /\ \A k \in dead : legacyKey # k

Further(row) == {k \in Keys : row[k] \in {"live", "paused"} /\ k # signupKey}

RoomInv == Cardinality(Further(keyRow)) + Cardinality(counted) < topCap + Cardinality(Creators)

ApiKeysInv == ApiKeysShape /\ GoneInv /\ RoomInv

\* The counts of the cap are numbers.
LEMMA RoomCounts ==
    ASSUME NEW row, NEW C \in SUBSET Creators
    PROVE  /\ IsFiniteSet(Further(row)) /\ Cardinality(Further(row)) \in Nat
           /\ IsFiniteSet(C) /\ Cardinality(C) \in Nat
           /\ Cardinality(Creators) \in Nat /\ Cardinality(Creators) >= 1
           /\ Cardinality(C) <= Cardinality(Creators)
<1>1. IsFiniteSet(Keys) /\ IsFiniteSet(Creators) /\ Creators # {}
  BY ApiKeysAssumption
<1>2. Further(row) \subseteq Keys
  BY DEF Further
<1>3. IsFiniteSet(Further(row))
  BY <1>1, <1>2, FS_Subset
<1>4. IsFiniteSet(C) /\ Cardinality(C) <= Cardinality(Creators)
  BY <1>1, FS_Subset
<1>5. Cardinality(Creators) \in Nat /\ Cardinality(Creators) # 0
  BY <1>1, FS_CardinalityType, FS_EmptySet
<1>. QED
  BY <1>3, <1>4, <1>5, FS_CardinalityType

\* Fewer keys and fewer calls that have counted, under a cap that is not lower.
LEMMA RoomKept ==
    ASSUME ApiKeysShape, RoomInv, Further(keyRow') \subseteq Further(keyRow),
           counted' \subseteq counted, topCap' \in Nat, topCap' >= topCap,
           signupKey' = signupKey
    PROVE  RoomInv'
<1>. DEFINE a == Cardinality(Further(keyRow))
            b == Cardinality(counted)
            c == Cardinality(Further(keyRow'))
            d == Cardinality(counted')
            e == Cardinality(Creators)
            t == topCap'
<1>1. counted \in SUBSET Creators /\ counted' \in SUBSET Creators /\ topCap \in Nat
  BY ApiKeysAssumption DEF ApiKeysShape
<1>2. a \in Nat /\ b \in Nat /\ e \in Nat /\ IsFiniteSet(Further(keyRow)) /\ IsFiniteSet(counted)
  BY <1>1, RoomCounts
<1>3. c \in Nat /\ c <= a
  BY <1>2, FS_Subset, FS_CardinalityType
<1>4. d \in Nat /\ d <= b
  BY <1>2, FS_Subset, FS_CardinalityType
<1>5. a + b < topCap + e /\ t \in Nat /\ t >= topCap
  BY DEF RoomInv
<1>. HIDE DEF a, b, c, d, e, t
<1>6. c + d < t + e
  BY <1>1, <1>2, <1>3, <1>4, <1>5
<1>. QED
  BY <1>6 DEF RoomInv, Further, c, d, e, t

\* A workspace after signup.
LEMMA ApiKeysBegin == ApiKeysInit => ApiKeysInv
<1>. SUFFICES ASSUME ApiKeysInit PROVE ApiKeysInv
  OBVIOUS
<1>0. KeyCaps \subseteq Nat
  BY ApiKeysAssumption
<1>1. ApiKeysShape
  <2>1. keyRow \in [Keys -> RowStates] /\ keyCache \in [Workers -> SUBSET Keys]
    BY DEF ApiKeysInit, RowStates
  <2>2. lookup \in [Workers -> LookupStates]
    BY DEF ApiKeysInit, LookupStates
  <2>. QED
    BY <1>0, <2>1, <2>2 DEF ApiKeysInit, ApiKeysShape
<1>2. GoneInv
  BY DEF ApiKeysInit, GoneInv
<1>3. RoomInv
  <2>1. Further(keyRow) = {} /\ counted = {}
    BY DEF ApiKeysInit, Further
  <2>2. Cardinality(Further(keyRow)) = 0 /\ Cardinality(counted) = 0
    BY <2>1, FS_EmptySet
  <2>3. Cardinality(Creators) \in Nat /\ Cardinality(Creators) >= 1
    BY RoomCounts
  <2>4. topCap \in Nat
    BY <1>0 DEF ApiKeysInit
  <2>. QED
    BY <2>2, <2>3, <2>4 DEF RoomInv
<1>. QED
  BY <1>1, <1>2, <1>3 DEF ApiKeysInv

\* A look-up moves by itself.
LEMMA LookupMoves ==
    ASSUME ApiKeysShape, NEW w \in Workers, NEW q \in LookupStates, lookup' = [lookup EXCEPT ![w] = q]
    PROVE  /\ lookup' \in [Workers -> LookupStates] /\ lookup'[w] = q
           /\ \A v \in Workers : v # w => lookup'[v] = lookup[v]
BY DEF ApiKeysShape

\* A row changes by itself.
LEMMA KeyRowMoves ==
    ASSUME ApiKeysShape, NEW k \in Keys, NEW s \in RowStates, keyRow' = [keyRow EXCEPT ![k] = s]
    PROVE  /\ keyRow' \in [Keys -> RowStates] /\ keyRow'[k] = s
           /\ \A j \in Keys : j # k => keyRow'[j] = keyRow[j]
BY DEF ApiKeysShape

\* A worker forgets a key or all of them.
LEMMA CacheMoves ==
    ASSUME ApiKeysShape, NEW w \in Workers, NEW S \in SUBSET Keys, keyCache' = [keyCache EXCEPT ![w] = S]
    PROVE  keyCache' \in [Workers -> SUBSET Keys]
BY DEF ApiKeysShape

\* A look-up finds a key that is live, or one that the legacy column still holds.
LEMMA FoundAlive ==
    ASSUME ApiKeysInv, NEW w \in Workers, NEW k, LookupKey(w, k) \/ LookupLegacy(w), k \in Keys
    PROVE  \E q \in LookupStates :
             /\ lookup' = [lookup EXCEPT ![w] = q]
             /\ q.stage = "found" => q.key \notin dead
<1>1. CASE LookupKey(w, k) /\ keyRow[k] = "live"
  <2>. DEFINE q == [key |-> k, stage |-> "found"]
  <2>1. q \in LookupStates /\ lookup' = [lookup EXCEPT ![w] = q] /\ q.key = k
    BY <1>1 DEF LookupKey, LookupStates
  <2>2. k \notin dead
    BY <1>1 DEF ApiKeysInv, GoneInv
  <2>. QED
    BY <2>1, <2>2
<1>2. CASE LookupKey(w, k) /\ keyRow[k] # "live"
  <2>. DEFINE q == [key |-> k, stage |-> "fallback"]
  <2>1. q \in LookupStates /\ lookup' = [lookup EXCEPT ![w] = q] /\ q.stage = "fallback"
    BY <1>2 DEF LookupKey, LookupStates
  <2>. QED
    BY <2>1
<1>3. CASE LookupLegacy(w) /\ legacyKey = lookup[w].key
  <2>. DEFINE j == lookup[w].key
              q == [key |-> j, stage |-> "found"]
  <2>1. lookup[w] \in LookupStates /\ lookup[w].stage = "fallback"
    BY <1>3 DEF LookupLegacy, ApiKeysInv, ApiKeysShape
  <2>2. lookup[w] \in [key : Keys, stage : {"fallback", "found"}]
    BY <2>1 DEF LookupStates, Idle
  <2>3. [lookup[w] EXCEPT !.stage = "found"] = q /\ j \in Keys
    BY <2>2
  <2>4. lookup' = [lookup EXCEPT ![w] = q]
    BY <1>3, <2>3 DEF LookupLegacy
  <2>5. q \in LookupStates /\ q.key = j
    BY <2>3 DEF LookupStates
  <2>6. j \notin dead
    BY <1>3 DEF ApiKeysInv, GoneInv
  <2>. QED
    BY <2>4, <2>5, <2>6
<1>4. CASE LookupLegacy(w) /\ legacyKey # lookup[w].key
  <2>1. Idle \in LookupStates /\ Idle.stage = "idle" /\ lookup' = [lookup EXCEPT ![w] = Idle]
    BY <1>4 DEF LookupLegacy, LookupStates, Idle
  <2>. QED
    BY <2>1
<1>. QED
  BY <1>1, <1>2, <1>3, <1>4

\* What each step keeps.
LEMMA ApiKeysStep == ASSUME ApiKeysInv, ApiKeysNext PROVE ApiKeysInv'
<1>0. ApiKeysShape /\ GoneInv /\ RoomInv /\ signupKey' = signupKey /\ KeyCaps \subseteq Nat
  BY ApiKeysAssumption DEF ApiKeysInv, ApiKeysNext
<1>a. ASSUME ApiKeysShape', keyRow' = keyRow, legacyKey' = legacyKey, revoking' = revoking,
             dead' = dead, topCap' = topCap, counted' = counted
      PROVE  ApiKeysInv'
  BY <1>0, <1>a DEF ApiKeysInv, GoneInv, RoomInv, Further
<1>1. ASSUME NEW w \in Workers, NEW k \in Keys, LookupKey(w, k) PROVE ApiKeysInv'
  <2>1. PICK q \in LookupStates : lookup' = [lookup EXCEPT ![w] = q]
    BY <1>1, FoundAlive
  <2>2. ApiKeysShape'
    BY <1>0, <1>1, <2>1, LookupMoves DEF ApiKeysShape, LookupKey, AtAuth
  <2>. QED
    BY <1>1, <1>a, <2>2 DEF LookupKey, AtAuth
<1>2. ASSUME NEW w \in Workers, LookupLegacy(w) PROVE ApiKeysInv'
  <2>0. lookup[w].key \in Keys
    BY <1>0, <1>2 DEF LookupLegacy, ApiKeysShape, LookupStates, Idle
  <2>1. PICK q \in LookupStates : lookup' = [lookup EXCEPT ![w] = q]
    BY <1>2, <2>0, FoundAlive
  <2>2. ApiKeysShape'
    BY <1>0, <1>2, <2>1, LookupMoves DEF ApiKeysShape, LookupLegacy, AtAuth
  <2>. QED
    BY <1>2, <1>a, <2>2 DEF LookupLegacy, AtAuth
<1>3. ASSUME NEW w \in Workers, CacheKey(w) PROVE ApiKeysInv'
  <2>1. lookup[w].key \in Keys
    BY <1>0, <1>3 DEF CacheKey, ApiKeysShape, LookupStates, Idle
  <2>. DEFINE S == keyCache[w] \cup {lookup[w].key}
  <2>2. S \in SUBSET Keys /\ keyCache' = [keyCache EXCEPT ![w] = S]
    BY <1>0, <1>3, <2>1 DEF CacheKey, ApiKeysShape
  <2>3. Idle \in LookupStates /\ lookup' = [lookup EXCEPT ![w] = Idle]
    BY <1>3 DEF CacheKey, LookupStates
  <2>. HIDE DEF S
  <2>4. keyCache' \in [Workers -> SUBSET Keys] /\ lookup' \in [Workers -> LookupStates]
    BY <1>0, <2>2, <2>3, CacheMoves, LookupMoves
  <2>5. ApiKeysShape'
    BY <1>0, <1>3, <2>4 DEF ApiKeysShape, CacheKey, AtAuth
  <2>. QED
    BY <1>3, <1>a, <2>5 DEF CacheKey, AtAuth
<1>4. ASSUME NEW w \in Workers, NEW k \in Keys, ExpireKey(w, k) PROVE ApiKeysInv'
  <2>1. keyCache' \in [Workers -> SUBSET Keys]
    BY <1>0, <1>4 DEF ExpireKey, ApiKeysShape
  <2>2. ApiKeysShape'
    BY <1>0, <1>4, <2>1 DEF ApiKeysShape, ExpireKey, AtAuth
  <2>. QED
    BY <1>4, <1>a, <2>2 DEF ExpireKey, AtAuth
<1>5. ASSUME NEW w \in Workers, RestartWorker(w) PROVE ApiKeysInv'
  <2>1. {} \in SUBSET Keys /\ keyCache' = [keyCache EXCEPT ![w] = {}]
    BY <1>5 DEF RestartWorker
  <2>2. Idle \in LookupStates /\ lookup' = [lookup EXCEPT ![w] = Idle]
    BY <1>5 DEF RestartWorker, LookupStates
  <2>3. keyCache' \in [Workers -> SUBSET Keys] /\ lookup' \in [Workers -> LookupStates]
    BY <1>0, <2>1, <2>2, CacheMoves, LookupMoves
  <2>4. CASE legacyKey # NoKey /\ keyRow[legacyKey] = "none"
    <3>1. legacyKey \in Keys /\ legacyKey = signupKey
      BY <1>0, <2>4 DEF ApiKeysShape
    <3>2. keyRow' = [keyRow EXCEPT ![legacyKey] = "live"] /\ "live" \in RowStates
      BY <1>5, <2>4 DEF RestartWorker, RowStates
    <3>3. /\ keyRow' \in [Keys -> RowStates] /\ keyRow'[legacyKey] = "live"
          /\ \A j \in Keys : j # legacyKey => keyRow'[j] = keyRow[j]
      BY <1>0, <3>1, <3>2, KeyRowMoves
    <3>4. ApiKeysShape'
      BY <1>0, <1>5, <2>3, <3>3 DEF ApiKeysShape, RestartWorker
    <3>5. GoneInv'
      <4>1. \A k \in revoking \cup dead : k \in Keys /\ k # legacyKey
        BY <1>0, <2>4 DEF GoneInv, ApiKeysShape
      <4>. QED
        BY <1>0, <1>5, <3>3, <4>1 DEF GoneInv, RestartWorker
    <3>6. Further(keyRow') = Further(keyRow)
      BY <3>1, <3>3 DEF Further
    <3>7. topCap' \in Nat /\ topCap' = topCap /\ counted' = counted
      BY <1>0, <1>5 DEF RestartWorker, ApiKeysShape
    <3>8. RoomInv'
      BY <1>0, <3>6, <3>7, RoomKept
    <3>. QED
      BY <3>4, <3>5, <3>8 DEF ApiKeysInv
  <2>5. CASE ~ (legacyKey # NoKey /\ keyRow[legacyKey] = "none")
    <3>1. ApiKeysShape'
      BY <1>0, <1>5, <2>3, <2>5 DEF ApiKeysShape, RestartWorker
    <3>. QED
      BY <1>5, <1>a, <2>5, <3>1 DEF RestartWorker
  <2>. QED
    BY <2>4, <2>5
<1>6. ASSUME NEW c \in Creators, CountKeys(c) PROVE ApiKeysInv'
  <2>1. counted' \in SUBSET Creators /\ keyRow' = keyRow /\ topCap' = topCap
    BY <1>0, <1>6 DEF CountKeys, ApiKeysShape
  <2>2. ApiKeysShape'
    BY <1>0, <1>6, <2>1 DEF ApiKeysShape, CountKeys
  <2>3. GoneInv'
    BY <1>0, <1>6 DEF GoneInv, CountKeys
  <2>4. RoomInv'
    <3>. DEFINE a == Cardinality(Further(keyRow))
                u == Cardinality(Unrevoked)
                d == Cardinality(counted')
                e == Cardinality(Creators)
    <3>1. a \in Nat /\ d \in Nat /\ e \in Nat /\ d <= e
      BY <2>1, RoomCounts
    <3>2. u \in Nat /\ a <= u
      <4>1. Further(keyRow) \subseteq Unrevoked /\ Unrevoked \subseteq Keys /\ IsFiniteSet(Keys)
        BY ApiKeysAssumption DEF Further, Unrevoked
      <4>. QED
        BY <4>1, FS_Subset, FS_CardinalityType
    <3>3. u < keyCap /\ keyCap <= topCap /\ keyCap \in Nat /\ topCap \in Nat
      BY <1>0, <1>6 DEF CountKeys, ApiKeysShape
    <3>. HIDE DEF a, u, d, e
    <3>4. a + d < topCap + e
      BY <3>1, <3>2, <3>3
    <3>. QED
      BY <1>0, <2>1, <3>4 DEF RoomInv, Further, a, d, e
  <2>. QED
    BY <2>2, <2>3, <2>4 DEF ApiKeysInv
<1>7. ASSUME NEW c \in Creators, InsertKey(c) PROVE ApiKeysInv'
  <2>1. PICK k \in Keys : keyRow[k] = "none" /\ k # signupKey /\ keyRow' = [keyRow EXCEPT ![k] = "live"]
    BY <1>7 DEF InsertKey
  <2>2. /\ keyRow' \in [Keys -> RowStates] /\ keyRow'[k] = "live"
        /\ \A j \in Keys : j # k => keyRow'[j] = keyRow[j]
    BY <1>0, <2>1, KeyRowMoves DEF RowStates
  <2>3. c \in counted /\ counted' = counted \ {c} /\ counted \in SUBSET Creators
    BY <1>0, <1>7 DEF InsertKey, ApiKeysShape
  <2>4. ApiKeysShape'
    BY <1>0, <1>7, <2>2, <2>3 DEF ApiKeysShape, InsertKey
  <2>5. GoneInv'
    <3>1. \A j \in revoking \cup dead : j \in Keys /\ j # k
      BY <1>0, <2>1 DEF GoneInv, ApiKeysShape
    <3>. QED
      BY <1>0, <1>7, <2>2, <3>1 DEF GoneInv, InsertKey
  <2>6. RoomInv'
    <3>1. Further(keyRow') = Further(keyRow) \cup {k} /\ k \notin Further(keyRow)
      BY <2>1, <2>2 DEF Further
    <3>. DEFINE F == Further(keyRow)
                b == Cardinality(counted)
                a == Cardinality(F)
                e == Cardinality(Creators)
    <3>2. IsFiniteSet(F) /\ IsFiniteSet(counted) /\ a \in Nat /\ b \in Nat /\ e \in Nat
      BY <2>3, RoomCounts
    <3>. HIDE DEF F
    <3>3. Cardinality(F \cup {k}) = a + 1
      BY <3>1, <3>2, FS_AddElement DEF F
    <3>4. Cardinality(counted \ {c}) = b - 1
      BY <2>3, <3>2, FS_RemoveElement
    <3>5. a + b < topCap + e /\ topCap \in Nat /\ topCap' = topCap
      BY <1>0, <1>7 DEF RoomInv, ApiKeysShape, InsertKey, F
    <3>. HIDE DEF a, b, e
    <3>6. (a + 1) + (b - 1) < topCap + e
      BY <3>2, <3>5
    <3>7. Cardinality(F \cup {k}) + Cardinality(counted \ {c}) < topCap' + Cardinality(Creators)
      BY <3>3, <3>4, <3>5, <3>6 DEF e
    <3>8. Cardinality(Further(keyRow')) + Cardinality(counted') < topCap' + Cardinality(Creators)
      BY <2>3, <3>1, <3>7 DEF F
    <3>. QED
      BY <1>0, <3>8 DEF RoomInv, Further
  <2>. QED
    BY <2>4, <2>5, <2>6 DEF ApiKeysInv
<1>8. ASSUME NEW w \in Workers, NEW k \in Keys, RevokeKey(w, k) PROVE ApiKeysInv'
  <2>1. /\ keyRow' \in [Keys -> RowStates] /\ keyRow'[k] = "revoked"
        /\ \A j \in Keys : j # k => keyRow'[j] = keyRow[j]
    BY <1>0, <1>8, KeyRowMoves DEF RowStates, RevokeKey
  <2>2. keyCache' \in [Workers -> SUBSET Keys]
    BY <1>0, <1>8 DEF RevokeKey, ApiKeysShape
  <2>3. ApiKeysShape'
    BY <1>0, <1>8, <2>1, <2>2 DEF ApiKeysShape, RevokeKey, AtManage
  <2>4. GoneInv'
    BY <1>0, <1>8, <2>1 DEF GoneInv, ApiKeysShape, RevokeKey
  <2>5. Further(keyRow') \subseteq Further(keyRow)
    BY <2>1 DEF Further
  <2>6. topCap' \in Nat /\ topCap' = topCap /\ counted' = counted
    BY <1>0, <1>8 DEF RevokeKey, AtManage, ApiKeysShape
  <2>7. RoomInv'
    BY <1>0, <2>5, <2>6, RoomKept
  <2>. QED
    BY <2>3, <2>4, <2>7 DEF ApiKeysInv
<1>9. ASSUME NEW k \in Keys, NEW s \in {"live", "paused"}, keyRow[k] \in {"live", "paused"},
             keyRow' = [keyRow EXCEPT ![k] = s], keyCache' \in [Workers -> SUBSET Keys],
             legacyKey' = legacyKey, revoking' = revoking, dead' = dead, AtManage
      PROVE  ApiKeysInv'
  <2>1. /\ keyRow' \in [Keys -> RowStates] /\ keyRow'[k] = s
        /\ \A j \in Keys : j # k => keyRow'[j] = keyRow[j]
    BY <1>0, <1>9, KeyRowMoves DEF RowStates
  <2>2. ApiKeysShape'
    BY <1>0, <1>9, <2>1 DEF ApiKeysShape, AtManage
  <2>3. GoneInv'
    <3>1. \A j \in revoking \cup dead : j \in Keys /\ j # k
      BY <1>0, <1>9 DEF GoneInv, ApiKeysShape
    <3>. QED
      BY <1>0, <1>9, <2>1, <3>1 DEF GoneInv
  <2>4. Further(keyRow') \subseteq Further(keyRow)
    BY <1>9, <2>1 DEF Further
  <2>5. topCap' \in Nat /\ topCap' = topCap /\ counted' = counted
    BY <1>0, <1>9 DEF AtManage, ApiKeysShape
  <2>6. RoomInv'
    BY <1>0, <2>4, <2>5, RoomKept
  <2>. QED
    BY <2>2, <2>3, <2>6 DEF ApiKeysInv
<1>10. ASSUME NEW w \in Workers, NEW k \in Keys, PauseKey(w, k) PROVE ApiKeysInv'
  <2>1. keyCache' \in [Workers -> SUBSET Keys]
    BY <1>0, <1>10 DEF PauseKey, ApiKeysShape
  <2>. QED
    BY <1>9, <1>10, <2>1 DEF PauseKey
<1>11. ASSUME NEW k \in Keys, ResumeKey(k) PROVE ApiKeysInv'
  <2>1. keyCache' \in [Workers -> SUBSET Keys]
    BY <1>0, <1>11 DEF ResumeKey, ApiKeysShape
  <2>. QED
    BY <1>9, <1>11, <2>1 DEF ResumeKey
<1>12. ASSUME NEW k \in revoking, ClearLegacy(k) \/ RevokeKilled(k) PROVE ApiKeysInv'
  <2>0. k \in Keys /\ keyRow[k] = "revoked"
    BY <1>0 DEF GoneInv, ApiKeysShape
  <2>1. ApiKeysShape'
    BY <1>0, <1>12, <2>0 DEF ApiKeysShape, ClearLegacy, RevokeKilled, AtManage
  <2>2. GoneInv'
    <3>1. CASE ClearLegacy(k)
      BY ApiKeysAssumption, <1>0, <3>1, <2>0 DEF GoneInv, ApiKeysShape, ClearLegacy
    <3>2. CASE RevokeKilled(k)
      BY <1>0, <3>2 DEF GoneInv, RevokeKilled
    <3>. QED
      BY <1>12, <3>1, <3>2
  <2>3. RoomInv'
    BY <1>0, <1>12 DEF RoomInv, Further, ClearLegacy, RevokeKilled, AtManage
  <2>. QED
    BY <2>1, <2>2, <2>3 DEF ApiKeysInv
<1>13. ASSUME NEW cap \in KeyCaps, MovePlan(cap) PROVE ApiKeysInv'
  <2>1. /\ keyCap' = cap /\ topCap' = (IF cap > topCap THEN cap ELSE topCap)
        /\ cap \in Nat /\ topCap \in Nat
    BY <1>0, <1>13 DEF MovePlan, ApiKeysShape
  <2>2. topCap' \in KeyCaps /\ topCap' \in Nat /\ keyCap' \in KeyCaps /\ keyCap' <= topCap' /\ topCap' >= topCap
    BY <1>0, <2>1 DEF ApiKeysShape
  <2>3. ApiKeysShape'
    BY <1>0, <1>13, <2>2 DEF ApiKeysShape, MovePlan
  <2>4. GoneInv'
    BY <1>0, <1>13 DEF GoneInv, MovePlan
  <2>5. keyRow' = keyRow /\ counted' = counted
    BY <1>13 DEF MovePlan
  <2>6. RoomInv'
    BY <1>0, <2>2, <2>5, RoomKept
  <2>. QED
    BY <2>3, <2>4, <2>6 DEF ApiKeysInv
<1>. QED
  BY <1>1, <1>2, <1>3, <1>4, <1>5, <1>6, <1>7, <1>8, <1>10, <1>11, <1>12, <1>13 DEF ApiKeysNext

\* No step of the API keys finds a key whose revocation is complete.
LEMMA ApiKeysFound ==
    ASSUME ApiKeysInv, ApiKeysNext, NEW w \in Workers,
           lookup'[w].stage = "found", lookup[w].stage # "found"
    PROVE  lookup'[w].key \notin dead
<1>0. ApiKeysShape
  BY DEF ApiKeysInv
<1>1. lookup' # lookup
  OBVIOUS
<1>2. ASSUME NEW v \in Workers, CacheKey(v) \/ RestartWorker(v) PROVE FALSE
  <2>1. lookup' = [lookup EXCEPT ![v] = Idle] /\ Idle \in LookupStates /\ Idle.stage = "idle"
    BY <1>2 DEF CacheKey, RestartWorker, LookupStates, Idle
  <2>. QED
    BY <1>0, <2>1, LookupMoves
<1>3. ASSUME NEW v \in Workers, NEW k \in Keys, LookupKey(v, k) \/ LookupLegacy(v)
      PROVE  lookup'[w].key \notin dead
  <2>1. PICK q \in LookupStates :
          lookup' = [lookup EXCEPT ![v] = q] /\ (q.stage = "found" => q.key \notin dead)
    BY <1>3, FoundAlive
  <2>. QED
    BY <1>0, <2>1, LookupMoves
<1>4. ASSUME NEW v \in Workers, LookupLegacy(v) PROVE lookup'[w].key \notin dead
  <2>1. lookup[v].key \in Keys
    BY <1>0, <1>4 DEF LookupLegacy, ApiKeysShape, LookupStates, Idle
  <2>. QED
    BY <1>3, <1>4, <2>1
<1>. QED
  BY <1>1, <1>2, <1>3, <1>4
  DEF ApiKeysNext, ExpireKey, RevokeKey, PauseKey, CountKeys, InsertKey, ClearLegacy,
      RevokeKilled, ResumeKey, MovePlan, AtManage

\* The invariant of the API keys implies what its runs check.
LEMMA ApiKeysSafe == ASSUME ApiKeysInv PROVE ApiKeysTypeOK /\ KeysBounded
<1>0. ApiKeysShape /\ RoomInv
  BY DEF ApiKeysInv
<1>1. ApiKeysTypeOK
  <2>1. \A w \in Workers : lookup[w].stage \in {"idle", "fallback", "found"}
    BY <1>0 DEF ApiKeysShape, LookupStates, Idle
  <2>. QED
    BY <1>0, <2>1 DEF ApiKeysTypeOK, ApiKeysShape, RowStates
<1>2. KeysBounded
  <2>1. Unrevoked \ {signupKey} = Further(keyRow)
    BY DEF Unrevoked, Further
  <2>. DEFINE a == Cardinality(Further(keyRow))
              b == Cardinality(counted)
              e == Cardinality(Creators)
  <2>2. a \in Nat /\ b \in Nat /\ e \in Nat
    BY <1>0, RoomCounts DEF ApiKeysShape
  <2>3. a + b < topCap + e /\ topCap \in Nat
    BY <1>0, ApiKeysAssumption DEF RoomInv, ApiKeysShape
  <2>. HIDE DEF a, b, e
  <2>4. a < topCap + e
    BY <2>2, <2>3
  <2>. QED
    BY <2>1, <2>4 DEF KeysBounded, a, e
<1>. QED
  BY <1>1, <1>2

-----------------------------------------------------------------------------
(* Governance.  An evaluation holds what it read; a rule that stood ever   *)
(* since is one of them (AskingInv), so that its decision is a candidate.  *)

Versioned ==
    [shape : RuleShapes \cup {SeededRules[p] : p \in DOMAIN SeededRules}, version : 1..MaxVersion]
Asked == [question : Questions, read : SUBSET Versioned, standing : SUBSET Versioned]

RulesInv ==
    /\ rules \in [Policies -> SUBSET Versioned]
    /\ \A p \in Policies : \A r, s \in rules[p] : r = s

AskingInv ==
    /\ asking \in [Evaluators -> SUBSET Asked]
    /\ \A a \in Evaluators : \A q \in asking[a] : q.standing \subseteq q.read

AuditInv == \A e \in audit : e.decision \in Decisions

GovernanceInv == RulesInv /\ AskingInv /\ AuditInv /\ DenyHonoured

\* No rules, nothing asked.
LEMMA GovernanceBegin == GovernanceInit => GovernanceInv
<1>. SUFFICES ASSUME GovernanceInit PROVE GovernanceInv
  OBVIOUS
<1>1. RulesInv
  BY DEF GovernanceInit, RulesInv
<1>2. AskingInv
  BY DEF GovernanceInit, AskingInv
<1>. QED
  BY <1>1, <1>2 DEF GovernanceInit, GovernanceInv, AuditInv, DenyHonoured

\* A rule with its version.
LEMMA Versions ==
    ASSUME NEW s, s \in RuleShapes \/ (\E p \in DOMAIN SeededRules : s = SeededRules[p]),
           NEW v \in 1..MaxVersion
    PROVE  WithVersion(s, v) \in Versioned /\ WithVersion(s, v).version = v
BY DEF WithVersion, Versioned

\* The baseline goes into an empty table only.
LEMMA SeedsOnce ==
    ASSUME RulesInv, InitGovernanceSchema
    PROVE  /\ RulesInv'
           /\ \A p \in Policies : rules[p] # {} => rules'[p] = rules[p]
<1>0. MaxVersion \in Nat /\ MaxVersion > 0
  BY GovernanceAssumption
<1>1. 1 \in 1..MaxVersion
  BY <1>0
<1>2. ASSUME NEW p \in Policies
      PROVE  /\ Seeded(p) \in SUBSET Versioned /\ \A r, s \in Seeded(p) : r = s
             /\ rules[p] # {} => Seeded(p) = rules[p]
  <2>1. CASE p \in DOMAIN SeededRules /\ \A q \in Policies : rules[q] = {}
    <3>. DEFINE v == WithVersion(SeededRules[p], 1)
    <3>1. v \in Versioned
      BY <1>1, <2>1, Versions
    <3>2. Seeded(p) = {v} /\ rules[p] = {}
      BY <2>1 DEF Seeded
    <3>. QED
      BY <3>1, <3>2
  <2>2. CASE ~ (p \in DOMAIN SeededRules /\ \A q \in Policies : rules[q] = {})
    <3>1. Seeded(p) = rules[p]
      BY <2>2 DEF Seeded
    <3>. QED
      BY <3>1 DEF RulesInv
  <2>. QED
    BY <2>1, <2>2
<1>3. rules' = [p \in Policies |-> Seeded(p)]
  BY DEF InitGovernanceSchema
<1>. HIDE DEF Seeded
<1>4. \A p \in Policies : rules'[p] = Seeded(p)
  BY <1>3
<1>5. rules' \in [Policies -> SUBSET Versioned]
  BY <1>2, <1>3
<1>. QED
  BY <1>2, <1>4, <1>5 DEF RulesInv

\* An edit raises the version of its rule and touches no other.
LEMMA SavesNext ==
    ASSUME RulesInv, NEW p \in Policies, NEW s \in RuleShapes, SavePolicyRule(p, s)
    PROVE  /\ RulesInv'
           /\ \A q \in Policies : \A r \in rules[q] : \A t \in rules'[q] : t.version > r.version \/ t = r
<1>. DEFINE v == IF rules[p] = {} THEN 1 ELSE (CHOOSE r \in rules[p] : TRUE).version + 1
<1>0. MaxVersion \in Nat /\ rules \in [Policies -> SUBSET Versioned]
  BY GovernanceAssumption DEF RulesInv
<1>1. \A r \in rules[p] : r.version \in 1..MaxVersion
  BY <1>0 DEF Versioned
<1>2. /\ v \in Nat /\ v >= 1
      /\ \A r \in rules[p] : v = r.version + 1
  <2>1. CASE rules[p] = {}
    BY <2>1
  <2>2. CASE rules[p] # {}
    <3>1. PICK r \in rules[p] : rules[p] = {r}
      BY <2>2 DEF RulesInv
    <3>2. (CHOOSE x \in rules[p] : TRUE) = r
      BY <3>1
    <3>3. v = r.version + 1
      BY <2>2, <3>2
    <3>. HIDE DEF v
    <3>. QED
      BY <1>0, <1>1, <3>1, <3>3
  <2>. QED
    BY <2>1, <2>2
<1>3. v <= MaxVersion /\ rules' = [rules EXCEPT ![p] = {WithVersion(s, v)}]
  BY DEF SavePolicyRule
<1>. HIDE DEF v
<1>4. v \in 1..MaxVersion
  BY <1>0, <1>2, <1>3
<1>. DEFINE n == WithVersion(s, v)
<1>5. n \in Versioned /\ n.version = v
  BY <1>4, Versions
<1>. HIDE DEF n
<1>6. rules' = [rules EXCEPT ![p] = {n}]
  BY <1>3 DEF n
<1>7. rules'[p] = {n} /\ \A q \in Policies : q # p => rules'[q] = rules[q]
  BY <1>0, <1>6
<1>8. RulesInv'
  BY <1>0, <1>5, <1>6, <1>7 DEF RulesInv
<1>9. ASSUME NEW q \in Policies, NEW r \in rules[q], NEW t \in rules'[q] PROVE t.version > r.version \/ t = r
  <2>1. CASE q = p
    <3>1. t.version = v /\ v = r.version + 1 /\ r.version \in 1..MaxVersion
      BY <1>1, <1>2, <1>5, <1>7, <2>1
    <3>. QED
      BY <1>0, <3>1
  <2>2. CASE q # p
    BY <1>7, <2>2 DEF RulesInv
  <2>. QED
    BY <2>1, <2>2
<1>. QED
  BY <1>8, <1>9

\* What each step keeps.
LEMMA GovernanceStep == ASSUME GovernanceInv, GovernanceNext PROVE GovernanceInv'
<1>0. RulesInv /\ AskingInv /\ AuditInv /\ DenyHonoured
  BY DEF GovernanceInv
<1>1. CASE InitGovernanceSchema
  <2>1. RulesInv'
    BY <1>0, <1>1, SeedsOnce
  <2>2. asking' = asking /\ audit' = audit /\ mode' = mode
    BY <1>1 DEF InitGovernanceSchema
  <2>. QED
    BY <1>0, <2>1, <2>2 DEF GovernanceInv, AskingInv, AuditInv, DenyHonoured
<1>2. ASSUME NEW p \in Policies, NEW s \in RuleShapes, SavePolicyRule(p, s) PROVE GovernanceInv'
  <2>1. RulesInv'
    BY <1>0, <1>2, SavesNext
  <2>. DEFINE N(a) == {[q EXCEPT !.standing = @ \ rules[p]] : q \in asking[a]}
  <2>2. asking' = [a \in Evaluators |-> N(a)] /\ audit' = audit /\ mode' = mode
    BY <1>2 DEF SavePolicyRule
  <2>3. ASSUME NEW a \in Evaluators
        PROVE  N(a) \in SUBSET Asked /\ \A q \in N(a) : q.standing \subseteq q.read
    <3>1. ASSUME NEW q \in asking[a]
          PROVE  /\ [q EXCEPT !.standing = @ \ rules[p]] \in Asked
                 /\ [q EXCEPT !.standing = @ \ rules[p]].standing = q.standing \ rules[p]
                 /\ [q EXCEPT !.standing = @ \ rules[p]].read = q.read
      <4>1. q \in Asked
        BY <1>0 DEF AskingInv
      <4>. QED
        BY <4>1 DEF Asked
    <3>2. \A q \in asking[a] : q.standing \subseteq q.read
      BY <1>0 DEF AskingInv
    <3>. QED
      BY <3>1, <3>2
  <2>. HIDE DEF N
  <2>4. AskingInv'
    BY <2>2, <2>3 DEF AskingInv
  <2>. QED
    BY <1>0, <2>1, <2>2, <2>4 DEF GovernanceInv, AuditInv, DenyHonoured
<1>3. ASSUME NEW a \in Evaluators, NEW q \in Questions, AskAbout(a, q) PROVE GovernanceInv'
  <2>. DEFINE A == ActiveRules(q.ws)
              n == [question |-> q, read |-> A, standing |-> A]
  <2>1. A \in SUBSET Versioned
    BY <1>0 DEF ActiveRules, RulesInv
  <2>. HIDE DEF A
  <2>2. n \in Asked /\ n.standing = n.read
    BY <2>1 DEF Asked
  <2>3. asking' = [asking EXCEPT ![a] = {n}]
    BY <1>3 DEF AskAbout, A
  <2>. HIDE DEF n
  <2>4. AskingInv'
    BY <1>0, <2>2, <2>3 DEF AskingInv
  <2>5. rules' = rules /\ audit' = audit /\ mode' = mode
    BY <1>3 DEF AskAbout
  <2>. QED
    BY <1>0, <2>4, <2>5 DEF GovernanceInv, RulesInv, AuditInv, DenyHonoured
<1>4. ASSUME NEW a \in Evaluators, asking' = [asking EXCEPT ![a] = {}] PROVE AskingInv'
  BY <1>0, <1>4 DEF AskingInv
<1>5. ASSUME NEW a \in Evaluators, RecordEvaluation(a) PROVE GovernanceInv'
  <2>. DEFINE q == CHOOSE x \in asking[a] : TRUE
              d == Strictest(Candidates(q.read, q.question))
              e == [by |-> a, question |-> q.question, standing |-> q.standing,
                    decision |-> d, effective |-> EffectiveAction(d)]
  <2>1. q \in asking[a]
    BY <1>5 DEF RecordEvaluation
  <2>2. q.standing \subseteq q.read
    BY <1>0, <2>1 DEF AskingInv
  <2>3. audit' = audit \cup {e} /\ rules' = rules /\ mode' = mode /\ asking' = [asking EXCEPT ![a] = {}]
    BY <1>5 DEF RecordEvaluation
  <2>. HIDE DEF q
  <2>4. d \in Decisions
    BY DEF Strictest, Decisions
  <2>5. e.decision = d /\ e.standing = q.standing /\ e.question = q.question /\ e.effective = EffectiveAction(d)
    OBVIOUS
  <2>6. ASSUME NEW r \in q.standing, Concerns(r, q.question), ~ r.shape.capped, r.shape.decision = "DENY",
               mode \in {"APPROVAL_REQUIRED", "ENFORCED"}
        PROVE  EffectiveAction(d) \in {"DENIED", "BLOCKED_PENDING_APPROVAL"}
    <3>1. r \in q.read
      BY <2>2
    <3>2. "DENY" \in Candidates(q.read, q.question)
      BY <2>6, <3>1 DEF Candidates
    <3>3. d = "DENY"
      BY <3>2 DEF Strictest
    <3>. HIDE DEF d
    <3>. QED
      BY <2>6, <3>3 DEF EffectiveAction
  <2>. HIDE DEF e, d
  <2>7. AskingInv'
    BY <1>4, <2>3
  <2>8. RulesInv' /\ AuditInv'
    BY <1>0, <2>3, <2>4, <2>5 DEF RulesInv, AuditInv
  <2>9. DenyHonoured'
    <3>. SUFFICES ASSUME NEW f \in audit', NEW r \in f.standing,
                         Concerns(r, f.question), ~ r.shape.capped, r.shape.decision = "DENY",
                         mode \in {"APPROVAL_REQUIRED", "ENFORCED"}
                  PROVE  f.effective \in {"DENIED", "BLOCKED_PENDING_APPROVAL"}
      BY <2>3 DEF DenyHonoured
    <3>1. CASE f \in audit
      BY <1>0, <3>1 DEF DenyHonoured
    <3>2. CASE f = e
      BY <2>5, <2>6, <3>2
    <3>. QED
      BY <2>3, <3>1, <3>2
  <2>. QED
    BY <2>7, <2>8, <2>9 DEF GovernanceInv
<1>6. ASSUME NEW a \in Evaluators, EvaluationFails(a) PROVE GovernanceInv'
  <2>1. rules' = rules /\ audit' = audit /\ mode' = mode /\ asking' = [asking EXCEPT ![a] = {}]
    BY <1>6 DEF EvaluationFails
  <2>2. AskingInv'
    BY <1>4, <2>1
  <2>. QED
    BY <1>0, <2>1, <2>2 DEF GovernanceInv, RulesInv, AuditInv, DenyHonoured
<1>. QED
  BY <1>1, <1>2, <1>3, <1>5, <1>6 DEF GovernanceNext

\* A rule is replaced by a later version of itself only.
LEMMA GovernanceVersions ==
    ASSUME GovernanceInv, GovernanceNext
    PROVE  \A p \in Policies : \A r \in rules[p] : \A s \in rules'[p] : s.version > r.version \/ s = r
<1>0. RulesInv
  BY DEF GovernanceInv
<1>1. CASE InitGovernanceSchema
  BY <1>0, <1>1, SeedsOnce DEF RulesInv
<1>2. ASSUME NEW p \in Policies, NEW s \in RuleShapes, SavePolicyRule(p, s)
      PROVE  \A q \in Policies : \A r \in rules[q] : \A t \in rules'[q] : t.version > r.version \/ t = r
  BY <1>0, <1>2, SavesNext
<1>3. CASE rules' = rules
  BY <1>0, <1>3 DEF RulesInv
<1>. QED
  BY <1>1, <1>2, <1>3 DEF GovernanceNext, AskAbout, RecordEvaluation, EvaluationFails

\* The invariant of governance implies what its runs check.
LEMMA GovernanceSafe == ASSUME GovernanceInv PROVE GovernanceTypeOK /\ DenyHonoured
<1>0. RulesInv
  BY DEF GovernanceInv
<1>1. ASSUME NEW p \in Policies PROVE Cardinality(rules[p]) <= 1
  <2>1. CASE rules[p] = {}
    BY <2>1, FS_EmptySet
  <2>2. CASE rules[p] # {}
    <3>1. PICK r \in rules[p] : rules[p] = {r}
      BY <1>0, <2>2 DEF RulesInv
    <3>2. Cardinality({r}) = 1
      BY FS_Singleton
    <3>. QED
      BY <3>1, <3>2
  <2>. QED
    BY <2>1, <2>2
<1>2. \A p \in Policies : \A r \in rules[p] : r.version \in 1..MaxVersion
  BY <1>0 DEF RulesInv, Versioned
<1>. QED
  BY <1>1, <1>2 DEF GovernanceInv, GovernanceTypeOK, AuditInv

-----------------------------------------------------------------------------
(* Autonomy.  A cycle past its policy check belongs to an agent that had   *)
(* earned the tier or was judged again meanwhile (StandingInv); until it   *)
(* is verified, the snapshot of its recommendation is its own, or that of  *)
(* another cycle, and the cycle is known to be mixed (SnapshotInv); a      *)
(* verdict PASS is backed by what was measured, and only such a cycle      *)
(* expands (BackedInv).                                                    *)

Verdicts == {"none", "PASS", "FAIL", "INCONCLUSIVE"}
CycleSteps == {"policy", "default", "canary", "observe", "verify", "act", "trust", "ended"}
PastPolicy == {"canary", "observe", "verify", "act", "trust"}
Finished == {"trust", "ended"}
CycleRun == [at : CycleSteps, agent : Agents, rec : Recs, risky : BOOLEAN,
             before : Befores, after : Afters, verdict : Verdicts]
PlanStates == {"none", "CANARY_ACTIVE", "VERIFIED_EXPANDED", "ROLLED_BACK"}
AgentTiers == {"RESTRICTED", "STANDARD", "EARNED_AUTONOMY"}
Points == 0..FullScore
Scored == [score : Points, level : AgentTiers]

AutonomyShape ==
    /\ killed \in BOOLEAN
    /\ profile \in [Agents -> SUBSET Scored]
    /\ baseline \in [Recs -> SUBSET Befores]
    /\ \A m \in Recs : \A b, c \in baseline[m] : b = c
    /\ cycle \in [Cycles -> {[at |-> "idle"]} \cup CycleRun]
    /\ plan \in [Cycles -> PlanStates]
    /\ earned \in [Agents -> AgentTiers \cup {"none"}]
    /\ overtaken \subseteq Agents /\ mixed \subseteq Cycles

Stands(a) == earned[a] = "EARNED_AUTONOMY" \/ a \in overtaken

StandingInv == \A y \in Cycles : cycle[y].at \in PastPolicy => Stands(cycle[y].agent)

\* The snapshot of the recommendation of y is what z measured.
Recorded(y, z) ==
    /\ cycle[z].at # "idle" /\ cycle[z].rec = cycle[y].rec /\ cycle[z].before.enough
    /\ baseline[cycle[y].rec] = {cycle[z].before}

SnapshotInv ==
    \A y \in Cycles : cycle[y].at = "verify" =>
        \E z \in Cycles : Recorded(y, z) /\ (z = y \/ y \in mixed)

Backed(y) ==
    cycle[y].after.enough /\ \E z \in Cycles : Improves(y, z) /\ (z = y \/ y \in mixed)

BackedInv ==
    \A y \in Cycles :
        /\ cycle[y].at # "idle" /\ cycle[y].verdict = "PASS" => Backed(y)
        /\ plan[y] = "VERIFIED_EXPANDED" => cycle[y].at \in Finished /\ cycle[y].verdict = "PASS"

AutonomyInv == AutonomyShape /\ StandingInv /\ EarnedByEvidence /\ SnapshotInv /\ BackedInv

RatesOK(e) ==
    e \in [success : 0..100, accepted : 0..100, rollback : 0..100,
           violation : 0..100, waste : 0..100, tasks : Nat]

\* A score in hundredths of a point is between 0 and 100 points.
LEMMA RawRange == ASSUME NEW e, RatesOK(e) PROVE RawScore(e) \in Int /\ RawScore(e) >= 0 /\ RawScore(e) <= 10000
<1>. DEFINE a == e.accepted
            s == e.success
            v == e.violation
            r == e.rollback
            w == e.waste
<1>1. a \in 0..100 /\ s \in 0..100 /\ v \in 0..100 /\ r \in 0..100 /\ w \in 0..100
  BY DEF RatesOK
<1>2. RawScore(e) = 35 * a + 25 * s + 20 * (100 - v) + 10 * (100 - r) + 10 * (100 - w)
  BY DEF RawScore
<1>. HIDE DEF a, s, v, r, w
<1>. QED
  BY <1>1, <1>2

\* The prior of 30 points is in the range too.
LEMMA PriorRange ==
    ASSUME NEW x \in Int, x >= 0, x <= 10000, NEW n \in Nat, n < 10
    PROVE  LET t == 3000 * (10 - n) + x * n IN t \in Int /\ t >= 0 /\ t <= 100000
<1>1. n \in 0..9
  OBVIOUS
<1>2. n = 0 \/ n = 1 \/ n = 2 \/ n = 3 \/ n = 4 \/ n = 5 \/ n = 6 \/ n = 7 \/ n = 8 \/ n = 9
  BY <1>1
<1>. DEFINE t == 3000 * (10 - n) + x * n
<1>3. t \in Int
  OBVIOUS
<1>4. t >= 0 /\ t <= 100000
  <2>1. CASE n = 0
    BY <2>1
  <2>2. CASE n = 1
    BY <2>2
  <2>3. CASE n = 2
    BY <2>3
  <2>4. CASE n = 3
    BY <2>4
  <2>5. CASE n = 4
    BY <2>5
  <2>6. CASE n = 5
    BY <2>6
  <2>7. CASE n = 6
    BY <2>7
  <2>8. CASE n = 7
    BY <2>8
  <2>9. CASE n = 8
    BY <2>9
  <2>10. CASE n = 9
    BY <2>10
  <2>. QED
    BY <1>2, <2>1, <2>2, <2>3, <2>4, <2>5, <2>6, <2>7, <2>8, <2>9, <2>10
<1>. QED
  BY <1>3, <1>4

\* A score and its level, whatever the evidence; without history it is RESTRICTED.
LEMMA ScoreHeld ==
    ASSUME NEW e, RatesOK(e)
    PROVE  CalculateScore(e) \in Scored /\ (e.tasks < 10 => CalculateScore(e).level = "RESTRICTED")
<1>. DEFINE n == e.tasks
            raw == RawScore(e)
            weighed == 3000 * (10 - n) + raw * n
            drawn == weighed \div 10
            exact == IF n < 10 THEN drawn ELSE raw
            score == 10 * ((exact + 5) \div 10)
            level == IF n < 10 \/ score < 5000 THEN "RESTRICTED"
                     ELSE IF score < 8000 THEN "STANDARD" ELSE "EARNED_AUTONOMY"
<1>1. n \in Nat
  BY DEF RatesOK
<1>2. raw \in Int /\ raw >= 0 /\ raw <= 10000
  BY RawRange
<1>3. CalculateScore(e) = [score |-> score, level |-> level]
  BY DEF CalculateScore
<1>. HIDE DEF n, raw
<1>4. n < 10 => weighed \in Int /\ weighed >= 0 /\ weighed <= 100000
  BY <1>1, <1>2, PriorRange
<1>. HIDE DEF weighed
<1>5. n < 10 => drawn \in Int /\ drawn >= 0 /\ drawn <= 10000
  BY <1>4
<1>. HIDE DEF drawn
<1>6. exact \in Int /\ exact >= 0 /\ exact <= 10000
  BY <1>2, <1>5
<1>. HIDE DEF exact
<1>7. score \in Int /\ score >= 0 /\ score <= 10000
  BY <1>6
<1>. HIDE DEF score
<1>8. score \in Points
  BY <1>7 DEF Points, FullScore
<1>9. level \in AgentTiers /\ (n < 10 => level = "RESTRICTED")
  BY DEF AgentTiers
<1>. HIDE DEF level
<1>10. CalculateScore(e) \in Scored /\ CalculateScore(e).level = level
  BY <1>3, <1>8, <1>9 DEF Scored
<1>. QED
  BY <1>9, <1>10 DEF n

\* The rates that the code writes down are rates.
LEMMA RatesHeld ==
    /\ RatesOK(NoHistory) /\ RatesOK(AfterExpand) /\ RatesOK(AfterRollback)
    /\ \A e \in Evidence : RatesOK(e)
    /\ NoHistory.tasks = 0
<1>1. RatesOK(NoHistory) /\ NoHistory.tasks = 0
  BY DEF RatesOK, NoHistory, Rates
<1>2. RatesOK(AfterExpand)
  BY DEF RatesOK, AfterExpand, Rates
<1>3. RatesOK(AfterRollback)
  BY DEF RatesOK, AfterRollback, Rates
<1>4. \A e \in Evidence : RatesOK(e)
  BY AutonomyAssumption DEF RatesOK
<1>. QED
  BY <1>1, <1>2, <1>3, <1>4

\* Nothing has run.
LEMMA AutonomyBegin == AutonomyInit => AutonomyInv
<1>. SUFFICES ASSUME AutonomyInit PROVE AutonomyInv
  OBVIOUS
<1>1. AutonomyShape
  <2>1. profile \in [Agents -> SUBSET Scored] /\ baseline \in [Recs -> SUBSET Befores]
    BY DEF AutonomyInit
  <2>2. cycle \in [Cycles -> {[at |-> "idle"]} \cup CycleRun] /\ plan \in [Cycles -> PlanStates]
    BY DEF AutonomyInit, PlanStates
  <2>3. earned \in [Agents -> AgentTiers \cup {"none"}]
    BY DEF AutonomyInit
  <2>. QED
    BY <2>1, <2>2, <2>3 DEF AutonomyInit, AutonomyShape
<1>2. \A y \in Cycles : cycle[y].at = "idle" /\ plan[y] = "none"
  BY DEF AutonomyInit
<1>3. EarnedByEvidence
  BY DEF AutonomyInit, EarnedByEvidence
<1>. QED
  BY <1>1, <1>2, <1>3 DEF AutonomyInv, StandingInv, SnapshotInv, BackedInv, PastPolicy

\* A cycle that has started holds its inputs.
LEMMA RunHeld ==
    ASSUME AutonomyShape, NEW y \in Cycles, cycle[y].at # "idle"
    PROVE  /\ cycle[y] \in CycleRun /\ cycle[y].agent \in Agents /\ cycle[y].rec \in Recs
           /\ cycle[y].before \in Befores /\ cycle[y].after \in Afters
<1>1. cycle[y] \in {[at |-> "idle"]} \cup CycleRun
  BY DEF AutonomyShape
<1>2. cycle[y] \in CycleRun
  BY <1>1
<1>. QED
  BY <1>2 DEF CycleRun

\* A cycle changes by itself.
LEMMA CycleChanges ==
    ASSUME AutonomyShape, NEW y \in Cycles, NEW q \in CycleRun, cycle' = [cycle EXCEPT ![y] = q]
    PROVE  /\ cycle' \in [Cycles -> {[at |-> "idle"]} \cup CycleRun] /\ cycle'[y] = q
           /\ \A z \in Cycles : z # y => cycle'[z] = cycle[z]
BY DEF AutonomyShape

\* A cycle moves on with its inputs and its verdict.
LEMMA CycleMovesOn ==
    ASSUME AutonomyShape, NEW y \in Cycles, cycle[y].at # "idle", NEW to \in CycleSteps, CycleMoves(y, to)
    PROVE  \E q \in CycleRun :
             /\ cycle' = [cycle EXCEPT ![y] = q] /\ q.at = to
             /\ q.agent = cycle[y].agent /\ q.rec = cycle[y].rec /\ q.before = cycle[y].before
             /\ q.after = cycle[y].after /\ q.verdict = cycle[y].verdict
<1>. DEFINE q == [cycle[y] EXCEPT !.at = to]
<1>1. cycle[y] \in CycleRun
  BY RunHeld
<1>2. q \in CycleRun
  BY <1>1 DEF CycleRun
<1>3. /\ q.at = to /\ q.agent = cycle[y].agent /\ q.rec = cycle[y].rec /\ q.before = cycle[y].before
      /\ q.after = cycle[y].after /\ q.verdict = cycle[y].verdict
  BY <1>1 DEF CycleRun
<1>4. cycle' = [cycle EXCEPT ![y] = q]
  BY DEF CycleMoves
<1>. QED
  BY <1>2, <1>3, <1>4

\* What a step of a cycle leaves: its own row moves, every other stays.
LEMMA CycleOnward ==
    ASSUME AutonomyShape, NEW y \in Cycles,
           PolicyCheck(y) \/ DefaultProfile(y) \/ CanaryAct(y) \/ RecordBaseline(y)
             \/ ExpandOrRollback(y) \/ TrustUpdate(y)
    PROVE  \E q \in CycleRun :
             /\ cycle[y] \in CycleRun /\ cycle'[y] = q
             /\ q.agent = cycle[y].agent /\ q.rec = cycle[y].rec /\ q.before = cycle[y].before
             /\ q.after = cycle[y].after /\ q.verdict = cycle[y].verdict
             /\ \A z \in Cycles : z # y => cycle'[z] = cycle[z]
             /\ cycle' \in [Cycles -> {[at |-> "idle"]} \cup CycleRun]
<1>1. cycle[y].at # "idle" /\ \E to \in CycleSteps : CycleMoves(y, to)
  BY DEF PolicyCheck, DefaultProfile, CanaryAct, RecordBaseline, ExpandOrRollback, TrustUpdate,
         CycleSteps
<1>2. PICK to \in CycleSteps : CycleMoves(y, to)
  BY <1>1
<1>3. PICK q \in CycleRun :
        /\ cycle' = [cycle EXCEPT ![y] = q] /\ q.at = to
        /\ q.agent = cycle[y].agent /\ q.rec = cycle[y].rec /\ q.before = cycle[y].before
        /\ q.after = cycle[y].after /\ q.verdict = cycle[y].verdict
  BY <1>1, <1>2, CycleMovesOn
<1>4. /\ cycle' \in [Cycles -> {[at |-> "idle"]} \cup CycleRun] /\ cycle'[y] = q
      /\ \A z \in Cycles : z # y => cycle'[z] = cycle[z]
  BY <1>3, CycleChanges
<1>5. cycle[y] \in CycleRun
  BY <1>1, RunHeld
<1>. QED
  BY <1>3, <1>4, <1>5

\* Verification keeps the inputs and notes the verdict.
LEMMA CycleVerified ==
    ASSUME AutonomyShape, NEW y \in Cycles, VerifySavings(y)
    PROVE  \E q \in CycleRun :
             /\ cycle[y] \in CycleRun /\ cycle'[y] = q
             /\ q.at = "act" /\ q.agent = cycle[y].agent /\ q.rec = cycle[y].rec
             /\ q.before = cycle[y].before /\ q.after = cycle[y].after
             /\ q.verdict = Verdict(CHOOSE b \in baseline[cycle[y].rec] : TRUE, cycle[y].after)
             /\ \A z \in Cycles : z # y => cycle'[z] = cycle[z]
             /\ cycle' \in [Cycles -> {[at |-> "idle"]} \cup CycleRun]
<1>. DEFINE v == Verdict(CHOOSE b \in baseline[cycle[y].rec] : TRUE, cycle[y].after)
            q == [cycle[y] EXCEPT !.at = "act", !.verdict = v]
<1>1. cycle[y].at = "verify" /\ cycle' = [cycle EXCEPT ![y].at = "act", ![y].verdict = v]
  BY DEF VerifySavings
<1>2. cycle[y] \in CycleRun
  BY <1>1, RunHeld
<1>3. v \in Verdicts
  BY DEF Verdict, Verdicts
<1>. HIDE DEF v
<1>4. /\ q \in CycleRun /\ q.at = "act" /\ q.agent = cycle[y].agent /\ q.rec = cycle[y].rec
      /\ q.before = cycle[y].before /\ q.after = cycle[y].after /\ q.verdict = v
  BY <1>2, <1>3 DEF CycleRun, CycleSteps
<1>5. cycle' = [cycle EXCEPT ![y] = q]
  <2>1. cycle \in [Cycles -> {[at |-> "idle"]} \cup CycleRun]
    BY DEF AutonomyShape
  <2>. QED
    BY <1>1, <2>1
<1>. HIDE DEF q
<1>6. /\ cycle' \in [Cycles -> {[at |-> "idle"]} \cup CycleRun] /\ cycle'[y] = q
      /\ \A z \in Cycles : z # y => cycle'[z] = cycle[z]
  BY <1>4, <1>5, CycleChanges
<1>. QED
  BY <1>2, <1>4, <1>6 DEF v

\* A cycle begins with its inputs.
LEMMA CycleStarts ==
    ASSUME AutonomyShape, NEW y \in Cycles, NEW a \in Agents, NEW m \in Recs, NEW risky \in BOOLEAN,
           NEW b \in Befores, NEW p \in Afters, StartCycle(y, a, m, risky, b, p)
    PROVE  /\ cycle[y].at = "idle" /\ cycle'[y].at \in {"ended", "policy"} /\ cycle'[y].verdict = "none"
           /\ \A z \in Cycles : z # y => cycle'[z] = cycle[z]
           /\ cycle' \in [Cycles -> {[at |-> "idle"]} \cup CycleRun]
<1>. DEFINE t == IF killed THEN "ended" ELSE "policy"
            q == [at |-> t, agent |-> a, rec |-> m, risky |-> risky, before |-> b, after |-> p,
                  verdict |-> "none"]
<1>1. cycle[y].at = "idle" /\ cycle' = [cycle EXCEPT ![y] = q]
  BY DEF StartCycle
<1>2. t \in {"ended", "policy"}
  OBVIOUS
<1>. HIDE DEF t
<1>3. q \in CycleRun /\ q.at = t /\ q.verdict = "none"
  BY <1>2 DEF CycleRun, CycleSteps, Verdicts
<1>. HIDE DEF q
<1>. QED
  BY <1>1, <1>2, <1>3, CycleChanges

\* A kill ends the cycles that run and leaves the rest.
LEMMA CyclesEnd ==
    ASSUME AutonomyShape, AutonomyKilled
    PROVE  /\ cycle' \in [Cycles -> {[at |-> "idle"]} \cup CycleRun]
           /\ \A y \in Cycles :
                \/ cycle'[y] = cycle[y] /\ cycle[y].at \in {"idle", "ended"}
                \/ /\ cycle[y].at # "idle" /\ cycle'[y].at = "ended" /\ cycle'[y].verdict = cycle[y].verdict
                   /\ cycle'[y].before = cycle[y].before /\ cycle'[y].after = cycle[y].after
                   /\ cycle'[y].rec = cycle[y].rec
<1>. DEFINE N(y) == IF Running(y) THEN [cycle[y] EXCEPT !.at = "ended"] ELSE cycle[y]
<1>1. cycle' = [y \in Cycles |-> N(y)]
  BY DEF AutonomyKilled
<1>2. ASSUME NEW y \in Cycles
      PROVE  /\ N(y) \in {[at |-> "idle"]} \cup CycleRun
             /\ \/ N(y) = cycle[y] /\ cycle[y].at \in {"idle", "ended"}
                \/ /\ cycle[y].at # "idle" /\ N(y).at = "ended" /\ N(y).verdict = cycle[y].verdict
                   /\ N(y).before = cycle[y].before /\ N(y).after = cycle[y].after
                   /\ N(y).rec = cycle[y].rec
  <2>1. CASE Running(y)
    <3>1. cycle[y].at # "idle"
      BY <2>1 DEF Running
    <3>2. cycle[y] \in CycleRun
      BY <3>1, RunHeld
    <3>. DEFINE q == [cycle[y] EXCEPT !.at = "ended"]
    <3>3. /\ q \in CycleRun /\ q.at = "ended" /\ q.verdict = cycle[y].verdict
          /\ q.before = cycle[y].before /\ q.after = cycle[y].after /\ q.rec = cycle[y].rec
      BY <3>2 DEF CycleRun, CycleSteps
    <3>4. N(y) = q
      BY <2>1
    <3>. HIDE DEF q, N
    <3>. QED
      BY <3>1, <3>3, <3>4
  <2>2. CASE ~ Running(y)
    <3>1. N(y) = cycle[y] /\ cycle[y].at \in {"idle", "ended"}
      BY <2>2 DEF Running
    <3>2. cycle[y] \in {[at |-> "idle"]} \cup CycleRun
      BY DEF AutonomyShape
    <3>. HIDE DEF N
    <3>. QED
      BY <3>1, <3>2
  <2>. QED
    BY <2>1, <2>2
<1>. HIDE DEF N
<1>. QED
  BY <1>1, <1>2

\* No step changes what a cycle that has started is about, or what it measured.
LEMMA InputsKept ==
    ASSUME AutonomyShape, AutonomyNext, NEW z \in Cycles, cycle[z].at # "idle"
    PROVE  /\ cycle'[z].at # "idle" /\ cycle'[z].rec = cycle[z].rec
           /\ cycle'[z].before = cycle[z].before /\ cycle'[z].after = cycle[z].after
<1>. DEFINE Kept == /\ cycle'[z].at # "idle" /\ cycle'[z].rec = cycle[z].rec
                    /\ cycle'[z].before = cycle[z].before /\ cycle'[z].after = cycle[z].after
<1>1. ASSUME cycle'[z] = cycle[z] PROVE Kept
  BY <1>1
<1>2. ASSUME NEW y \in Cycles, NEW q \in CycleRun, cycle'[y] = q, q.rec = cycle[y].rec,
             q.before = cycle[y].before, q.after = cycle[y].after,
             \A x \in Cycles : x # y => cycle'[x] = cycle[x]
      PROVE  Kept
  <2>1. q.at # "idle"
    BY DEF CycleRun, CycleSteps
  <2>. QED
    BY <1>2, <2>1
<1>3. ASSUME NEW y \in Cycles, NEW a \in Agents, NEW m \in Recs, NEW risky \in BOOLEAN,
             NEW b \in Befores, NEW p \in Afters, StartCycle(y, a, m, risky, b, p)
      PROVE  Kept
  <2>1. cycle[y].at = "idle" /\ \A x \in Cycles : x # y => cycle'[x] = cycle[x]
    BY <1>3, CycleStarts
  <2>. QED
    BY <1>1, <2>1
<1>4. ASSUME NEW y \in Cycles,
             PolicyCheck(y) \/ DefaultProfile(y) \/ CanaryAct(y) \/ RecordBaseline(y)
             \/ ExpandOrRollback(y) \/ TrustUpdate(y)
      PROVE  Kept
  <2>1. PICK q \in CycleRun :
          /\ cycle'[y] = q /\ q.rec = cycle[y].rec /\ q.before = cycle[y].before
          /\ q.after = cycle[y].after /\ \A x \in Cycles : x # y => cycle'[x] = cycle[x]
    BY <1>4, CycleOnward
  <2>. HIDE DEF Kept
  <2>. QED
    BY <1>2, <2>1
<1>5. ASSUME NEW y \in Cycles, VerifySavings(y) PROVE Kept
  <2>1. PICK q \in CycleRun :
          /\ cycle'[y] = q /\ q.rec = cycle[y].rec /\ q.before = cycle[y].before
          /\ q.after = cycle[y].after /\ \A x \in Cycles : x # y => cycle'[x] = cycle[x]
    BY <1>5, CycleVerified
  <2>. HIDE DEF Kept
  <2>. QED
    BY <1>2, <2>1
<1>6. CASE AutonomyKilled
  <2>1. \/ cycle'[z] = cycle[z]
        \/ /\ cycle'[z].at = "ended" /\ cycle'[z].rec = cycle[z].rec
           /\ cycle'[z].before = cycle[z].before /\ cycle'[z].after = cycle[z].after
    BY <1>6, CyclesEnd
  <2>. QED
    BY <1>1, <2>1
<1>7. CASE SetKillSwitch
  BY <1>1, <1>7 DEF SetKillSwitch
<1>9. ASSUME NEW a \in Agents, NEW e \in Evidence, EvaluateAgentTrust(a, e) PROVE Kept
  BY <1>1, <1>9 DEF EvaluateAgentTrust
<1>. QED
  BY <1>3, <1>4, <1>5, <1>6, <1>7, <1>9 DEF AutonomyNext

\* What backs a verdict goes on backing it.
LEMMA BackedStays ==
    ASSUME AutonomyShape, AutonomyNext, mixed \subseteq mixed', NEW y \in Cycles,
           cycle[y].at # "idle", Backed(y)
    PROVE  Backed(y)'
<1>1. cycle'[y].rec = cycle[y].rec /\ cycle'[y].after = cycle[y].after
  BY InputsKept
<1>2. PICK z \in Cycles : Improves(y, z) /\ (z = y \/ y \in mixed)
  BY DEF Backed
<1>3. cycle[z].at # "idle"
  BY <1>2 DEF Improves
<1>4. /\ cycle'[z].at # "idle" /\ cycle'[z].rec = cycle[z].rec /\ cycle'[z].before = cycle[z].before
  BY <1>3, InputsKept
<1>5. Improves(y, z)'
  BY <1>1, <1>2, <1>4 DEF Improves
<1>. QED
  BY <1>1, <1>2, <1>5 DEF Backed

\* The profile that a policy check reads, and the one it creates.
LEMMA ProfileRead ==
    ASSUME AutonomyInv, NEW a \in Agents, profile[a] # {}
    PROVE  LET p == CHOOSE p \in profile[a] : TRUE
           IN  p \in Scored /\ (p.level = "EARNED_AUTONOMY" => Stands(a))
<1>. DEFINE p == CHOOSE p \in profile[a] : TRUE
<1>1. p \in profile[a]
  OBVIOUS
<1>. HIDE DEF p
<1>2. p \in Scored /\ (p.level = "EARNED_AUTONOMY" => Stands(a))
  BY <1>1 DEF AutonomyInv, AutonomyShape, EarnedByEvidence, Stands
<1>. QED
  BY <1>2 DEF p

LEMMA ProfileCreated ==
    CalculateScore(NoHistory) \in Scored /\ CalculateScore(NoHistory).level # "EARNED_AUTONOMY"
<1>. DEFINE p == CalculateScore(NoHistory)
<1>1. p \in Scored /\ p.level = "RESTRICTED"
  BY RatesHeld, ScoreHeld
<1>. HIDE DEF p
<1>2. p.level # "EARNED_AUTONOMY"
  BY <1>1
<1>. QED
  BY <1>1, <1>2 DEF p

\* The tables keep their shapes.
LEMMA AutonomyShapeStep == ASSUME AutonomyInv, AutonomyNext PROVE AutonomyShape'
<1>0. AutonomyShape
  BY DEF AutonomyInv
<1>p. ASSUME NEW a \in Agents, NEW n \in Scored, profile' = [profile EXCEPT ![a] = {n}]
      PROVE  profile' \in [Agents -> SUBSET Scored]
  BY <1>0, <1>p DEF AutonomyShape
<1>1. CASE SetKillSwitch
  BY <1>0, <1>1 DEF SetKillSwitch, AutonomyShape
<1>2. ASSUME NEW a \in Agents, NEW e \in Evidence, EvaluateAgentTrust(a, e) PROVE AutonomyShape'
  <2>. DEFINE n == CalculateScore(e)
  <2>1. n \in Scored
    BY RatesHeld, ScoreHeld
  <2>2. profile' = [profile EXCEPT ![a] = {n}] /\ earned' = [earned EXCEPT ![a] = n.level]
    BY <1>2 DEF EvaluateAgentTrust
  <2>. HIDE DEF n
  <2>3. profile' \in [Agents -> SUBSET Scored]
    BY <1>p, <2>1, <2>2
  <2>4. n.level \in AgentTiers
    BY <2>1 DEF Scored
  <2>5. earned' \in [Agents -> AgentTiers \cup {"none"}]
    BY <1>0, <2>2, <2>4 DEF AutonomyShape
  <2>6. overtaken' \subseteq Agents
    BY <1>0, <1>2 DEF AutonomyShape, EvaluateAgentTrust
  <2>. QED
    BY <1>0, <1>2, <2>3, <2>5, <2>6 DEF EvaluateAgentTrust, AutonomyShape
<1>3. ASSUME NEW y \in Cycles, NEW a \in Agents, NEW m \in Recs, NEW risky \in BOOLEAN,
             NEW b \in Befores, NEW p \in Afters, StartCycle(y, a, m, risky, b, p)
      PROVE  AutonomyShape'
  <2>1. cycle' \in [Cycles -> {[at |-> "idle"]} \cup CycleRun]
    BY <1>0, <1>3, CycleStarts
  <2>. QED
    BY <1>0, <1>3, <2>1 DEF StartCycle, AutonomyShape
<1>c. ASSUME NEW y \in Cycles,
             PolicyCheck(y) \/ DefaultProfile(y) \/ CanaryAct(y) \/ RecordBaseline(y)
             \/ ExpandOrRollback(y) \/ TrustUpdate(y)
      PROVE  /\ cycle' \in [Cycles -> {[at |-> "idle"]} \cup CycleRun]
             /\ cycle[y] \in CycleRun
  BY <1>0, <1>c, CycleOnward
<1>4. ASSUME NEW y \in Cycles, PolicyCheck(y) PROVE AutonomyShape'
  BY <1>0, <1>4, <1>c DEF PolicyCheck, AutonomyShape
<1>11. ASSUME NEW y \in Cycles, DefaultProfile(y) PROVE AutonomyShape'
  <2>. DEFINE a == cycle[y].agent
              p == CalculateScore(NoHistory)
  <2>1. a \in Agents
    BY <1>11, <1>c DEF CycleRun
  <2>2. p \in Scored
    BY ProfileCreated
  <2>3. profile' = [profile EXCEPT ![a] = {p}]
    BY <1>11 DEF DefaultProfile
  <2>. HIDE DEF a, p
  <2>4. profile' \in [Agents -> SUBSET Scored]
    BY <1>p, <2>1, <2>2, <2>3
  <2>. QED
    BY <1>0, <1>11, <1>c, <2>4 DEF DefaultProfile, AutonomyShape
<1>5. ASSUME NEW y \in Cycles, CanaryAct(y) PROVE AutonomyShape'
  <2>1. plan' \in [Cycles -> PlanStates]
    BY <1>0, <1>5 DEF CanaryAct, AutonomyShape, PlanStates
  <2>. QED
    BY <1>0, <1>5, <1>c, <2>1 DEF CanaryAct, AutonomyShape
<1>6. ASSUME NEW y \in Cycles, RecordBaseline(y) PROVE AutonomyShape'
  <2>1. CASE ~ cycle[y].before.enough
    <3>1. baseline' = baseline /\ mixed' = mixed
      BY <1>6, <2>1 DEF RecordBaseline
    <3>. QED
      BY <1>0, <1>6, <1>c, <3>1 DEF RecordBaseline, AutonomyShape
  <2>2. CASE cycle[y].before.enough
    <3>. DEFINE b == cycle[y].before
                m == cycle[y].rec
    <3>1. b \in Befores /\ m \in Recs
      BY <1>6, <1>c DEF CycleRun
    <3>2. baseline' = [baseline EXCEPT ![m] = {b}] /\ mixed' \subseteq mixed \cup Cycles
      BY <1>6, <2>2 DEF RecordBaseline
    <3>. HIDE DEF b, m
    <3>3. baseline' \in [Recs -> SUBSET Befores] /\ \A k \in Recs : \A c, d \in baseline'[k] : c = d
      BY <1>0, <3>1, <3>2 DEF AutonomyShape
    <3>4. mixed' \subseteq Cycles
      BY <1>0, <3>2 DEF AutonomyShape
    <3>. QED
      BY <1>0, <1>6, <1>c, <3>3, <3>4 DEF RecordBaseline, AutonomyShape
  <2>. QED
    BY <2>1, <2>2
<1>7. ASSUME NEW y \in Cycles, VerifySavings(y) PROVE AutonomyShape'
  <2>1. cycle' \in [Cycles -> {[at |-> "idle"]} \cup CycleRun]
    BY <1>0, <1>7, CycleVerified
  <2>. QED
    BY <1>0, <1>7, <2>1 DEF VerifySavings, AutonomyShape
<1>8. ASSUME NEW y \in Cycles, ExpandOrRollback(y) PROVE AutonomyShape'
  <2>1. plan' \in [Cycles -> PlanStates]
    BY <1>0, <1>8 DEF ExpandOrRollback, AutonomyShape, PlanStates
  <2>. QED
    BY <1>0, <1>8, <1>c, <2>1 DEF ExpandOrRollback, AutonomyShape
<1>9. ASSUME NEW y \in Cycles, TrustUpdate(y) PROVE AutonomyShape'
  <2>. DEFINE a == cycle[y].agent
              r == IF cycle[y].verdict = "PASS" THEN AfterExpand ELSE AfterRollback
              n == CalculateScore(r)
  <2>1. a \in Agents
    BY <1>9, <1>c DEF CycleRun
  <2>2. RatesOK(r)
    BY RatesHeld
  <2>3. profile' = [profile EXCEPT ![a] = {n}]
    BY <1>9 DEF TrustUpdate
  <2>. HIDE DEF r, a
  <2>4. n \in Scored
    BY <2>2, ScoreHeld
  <2>. HIDE DEF n
  <2>5. profile' \in [Agents -> SUBSET Scored]
    BY <1>p, <2>1, <2>3, <2>4
  <2>. QED
    BY <1>0, <1>9, <1>c, <2>5 DEF TrustUpdate, AutonomyShape
<1>10. CASE AutonomyKilled
  <2>1. cycle' \in [Cycles -> {[at |-> "idle"]} \cup CycleRun]
    BY <1>0, <1>10, CyclesEnd
  <2>. QED
    BY <1>0, <1>10, <2>1 DEF AutonomyKilled, AutonomyShape
<1>. QED
  BY <1>1, <1>2, <1>3, <1>4, <1>5, <1>6, <1>7, <1>8, <1>9, <1>10, <1>11 DEF AutonomyNext

\* Who is past the policy check, and who holds the tier.
LEMMA AutonomyStandingStep ==
    ASSUME AutonomyInv, AutonomyNext PROVE StandingInv' /\ EarnedByEvidence'
<1>0. AutonomyShape /\ StandingInv /\ EarnedByEvidence
  BY DEF AutonomyInv
<1>s. ASSUME earned' = earned, overtaken' = overtaken, profile' = profile,
             \A y \in Cycles : cycle'[y].at \in PastPolicy =>
                cycle[y].at \in PastPolicy /\ cycle'[y].agent = cycle[y].agent
      PROVE  StandingInv' /\ EarnedByEvidence'
  BY <1>0, <1>s DEF StandingInv, EarnedByEvidence, Stands
<1>1. CASE SetKillSwitch
  BY <1>0, <1>1 DEF SetKillSwitch, StandingInv, EarnedByEvidence, Stands
<1>2. ASSUME NEW a \in Agents, NEW e \in Evidence, EvaluateAgentTrust(a, e)
      PROVE  StandingInv' /\ EarnedByEvidence'
  <2>. DEFINE n == CalculateScore(e)
  <2>1. /\ profile' = [profile EXCEPT ![a] = {n}] /\ earned' = [earned EXCEPT ![a] = n.level]
        /\ cycle' = cycle
    BY <1>2 DEF EvaluateAgentTrust
  <2>. HIDE DEF n
  <2>2. profile'[a] = {n} /\ \A c \in Agents : c # a => profile'[c] = profile[c]
    BY <1>0, <2>1 DEF AutonomyShape
  <2>3. earned'[a] = n.level /\ \A c \in Agents : c # a => earned'[c] = earned[c]
    BY <1>0, <2>1 DEF AutonomyShape
  <2>4. \A c \in Agents : c # a => (c \in overtaken' <=> c \in overtaken)
    BY <1>2 DEF EvaluateAgentTrust
  <2>5. ASSUME NEW y \in Cycles, Running(y), cycle[y].agent = a PROVE a \in overtaken'
    BY <1>2, <2>5 DEF EvaluateAgentTrust
  <2>6. EarnedByEvidence'
    BY <1>0, <2>2, <2>3, <2>4 DEF EarnedByEvidence
  <2>7. StandingInv'
    <3>. SUFFICES ASSUME NEW y \in Cycles, cycle[y].at \in PastPolicy
                  PROVE  earned'[cycle[y].agent] = "EARNED_AUTONOMY" \/ cycle[y].agent \in overtaken'
      BY <2>1 DEF StandingInv, Stands
    <3>1. Running(y) /\ cycle[y].at # "idle"
      BY DEF Running, PastPolicy
    <3>2. cycle[y].agent \in Agents
      BY <1>0, <3>1, RunHeld
    <3>. DEFINE c == cycle[y].agent
    <3>3. CASE c = a
      BY <2>5, <3>1, <3>3
    <3>4. CASE c # a
      <4>1. Stands(c)
        BY <1>0 DEF StandingInv
      <4>. HIDE DEF c
      <4>2. earned'[c] = "EARNED_AUTONOMY" \/ c \in overtaken'
        BY <2>3, <2>4, <3>2, <3>4, <4>1 DEF Stands, c
      <4>. QED
        BY <4>2 DEF c
    <3>. QED
      BY <3>3, <3>4
  <2>. QED
    BY <2>6, <2>7
<1>3. ASSUME NEW y \in Cycles, NEW a \in Agents, NEW m \in Recs, NEW risky \in BOOLEAN,
             NEW b \in Befores, NEW p \in Afters, StartCycle(y, a, m, risky, b, p)
      PROVE  StandingInv' /\ EarnedByEvidence'
  <2>1. cycle'[y].at \in {"ended", "policy"} /\ \A z \in Cycles : z # y => cycle'[z] = cycle[z]
    BY <1>0, <1>3, CycleStarts
  <2>2. \A z \in Cycles : cycle'[z].at \in PastPolicy =>
            cycle[z].at \in PastPolicy /\ cycle'[z].agent = cycle[z].agent
    BY <2>1 DEF PastPolicy
  <2>. QED
    BY <1>3, <1>s, <2>2 DEF StartCycle
<1>c. ASSUME NEW y \in Cycles,
             PolicyCheck(y) \/ DefaultProfile(y) \/ CanaryAct(y) \/ RecordBaseline(y)
             \/ ExpandOrRollback(y) \/ TrustUpdate(y)
      PROVE  /\ cycle'[y].agent = cycle[y].agent /\ cycle[y].agent \in Agents
             /\ \A z \in Cycles : z # y => cycle'[z] = cycle[z]
  <2>1. PICK q \in CycleRun :
           /\ cycle[y] \in CycleRun /\ cycle'[y] = q /\ q.agent = cycle[y].agent
           /\ \A z \in Cycles : z # y => cycle'[z] = cycle[z]
    BY <1>0, <1>c, CycleOnward
  <2>. QED
    BY <2>1 DEF CycleRun
<1>m. ASSUME NEW y \in Cycles, NEW to \in CycleSteps, CycleMoves(y, to), cycle[y].at # "idle"
      PROVE  cycle'[y].at = to
  <2>1. PICK q \in CycleRun : cycle' = [cycle EXCEPT ![y] = q] /\ q.at = to
    BY <1>0, <1>m, CycleMovesOn
  <2>. QED
    BY <1>0, <2>1, CycleChanges
<1>4. ASSUME NEW y \in Cycles, PolicyCheck(y) PROVE StandingInv' /\ EarnedByEvidence'
  <2>. DEFINE a == cycle[y].agent
              p == CHOOSE p \in profile[a] : TRUE
              to == IF profile[a] = {} THEN "default" ELSE IF Eligible(y, p) THEN "canary" ELSE "ended"
  <2>1. a \in Agents
    BY <1>4, <1>c
  <2>2. profile[a] # {} => p \in Scored /\ (p.level = "EARNED_AUTONOMY" => Stands(a))
    BY <2>1, ProfileRead
  <2>3. CycleMoves(y, to)
    BY <1>4 DEF PolicyCheck
  <2>. HIDE DEF p
  <2>4. to \in CycleSteps /\ (to \in PastPolicy => Stands(a))
    BY <2>2 DEF CycleSteps, PastPolicy, Eligible
  <2>5. cycle[y].at # "idle" /\ earned' = earned /\ overtaken' = overtaken /\ profile' = profile
    BY <1>4 DEF PolicyCheck
  <2>. HIDE DEF to
  <2>6. cycle'[y].at = to
    BY <1>m, <2>3, <2>4, <2>5
  <2>7. /\ cycle'[y].agent = a
        /\ \A z \in Cycles : z # y => cycle'[z] = cycle[z]
    BY <1>4, <1>c
  <2>. HIDE DEF a
  <2>8. StandingInv'
    BY <1>0, <2>4, <2>5, <2>6, <2>7 DEF StandingInv, Stands
  <2>9. EarnedByEvidence'
    BY <1>0, <2>5 DEF EarnedByEvidence
  <2>. QED
    BY <2>8, <2>9
<1>9. ASSUME NEW y \in Cycles, DefaultProfile(y) PROVE StandingInv' /\ EarnedByEvidence'
  <2>. DEFINE a == cycle[y].agent
              p == CalculateScore(NoHistory)
  <2>1. p.level # "EARNED_AUTONOMY"
    BY ProfileCreated
  <2>2. /\ profile' = [profile EXCEPT ![a] = {p}] /\ cycle[y].at # "idle"
        /\ earned' = earned /\ overtaken' = overtaken
        /\ CycleMoves(y, IF Eligible(y, p) THEN "canary" ELSE "ended")
    BY <1>9 DEF DefaultProfile
  <2>. HIDE DEF p
  <2>3. CycleMoves(y, "ended") /\ "ended" \in CycleSteps /\ "ended" \notin PastPolicy
    BY <2>1, <2>2 DEF Eligible, CycleSteps, PastPolicy
  <2>4. cycle'[y].at = "ended"
    BY <1>m, <2>2, <2>3
  <2>5. a \in Agents /\ \A z \in Cycles : z # y => cycle'[z] = cycle[z]
    BY <1>9, <1>c
  <2>6. \A z \in Cycles : cycle'[z].at \in PastPolicy =>
            cycle[z].at \in PastPolicy /\ cycle'[z].agent = cycle[z].agent
    BY <2>3, <2>4, <2>5
  <2>. HIDE DEF a
  <2>7. StandingInv'
    BY <1>0, <2>2, <2>6 DEF StandingInv, Stands
  <2>8. profile'[a] = {p} /\ \A c \in Agents : c # a => profile'[c] = profile[c]
    BY <1>0, <2>2, <2>5 DEF AutonomyShape
  <2>9. EarnedByEvidence'
    BY <1>0, <2>1, <2>2, <2>8 DEF EarnedByEvidence
  <2>. QED
    BY <2>7, <2>9
<1>5. ASSUME NEW y \in Cycles, CanaryAct(y) \/ RecordBaseline(y) \/ ExpandOrRollback(y)
      PROVE  StandingInv' /\ EarnedByEvidence'
  <2>1. cycle[y].at \in PastPolicy
    BY <1>5 DEF CanaryAct, RecordBaseline, ExpandOrRollback, PastPolicy
  <2>2. \A z \in Cycles : cycle'[z].at \in PastPolicy =>
            cycle[z].at \in PastPolicy /\ cycle'[z].agent = cycle[z].agent
    BY <1>5, <1>c, <2>1
  <2>. QED
    BY <1>5, <1>s, <2>2 DEF CanaryAct, RecordBaseline, ExpandOrRollback
<1>6. ASSUME NEW y \in Cycles, VerifySavings(y) PROVE StandingInv' /\ EarnedByEvidence'
  <2>1. PICK q \in CycleRun : /\ cycle'[y] = q /\ q.agent = cycle[y].agent
                              /\ \A z \in Cycles : z # y => cycle'[z] = cycle[z]
    BY <1>0, <1>6, CycleVerified
  <2>2. cycle[y].at \in PastPolicy
    BY <1>6 DEF VerifySavings, PastPolicy
  <2>3. \A z \in Cycles : cycle'[z].at \in PastPolicy =>
            cycle[z].at \in PastPolicy /\ cycle'[z].agent = cycle[z].agent
    BY <2>1, <2>2
  <2>. QED
    BY <1>6, <1>s, <2>3 DEF VerifySavings
<1>7. ASSUME NEW y \in Cycles, TrustUpdate(y) PROVE StandingInv' /\ EarnedByEvidence'
  <2>. DEFINE a == cycle[y].agent
  <2>1. a \in Agents /\ Stands(a) /\ cycle[y].at \in PastPolicy
    BY <1>0, <1>7, <1>c DEF StandingInv, TrustUpdate, PastPolicy
  <2>2. \A z \in Cycles : cycle'[z].at \in PastPolicy =>
            cycle[z].at \in PastPolicy /\ cycle'[z].agent = cycle[z].agent
    BY <1>7, <1>c, <2>1
  <2>3. earned' = earned /\ overtaken' = overtaken
    BY <1>7 DEF TrustUpdate
  <2>4. \A c \in Agents : c # a => profile'[c] = profile[c]
    BY <1>0, <1>7 DEF TrustUpdate, AutonomyShape
  <2>. HIDE DEF a
  <2>5. EarnedByEvidence'
    BY <1>0, <2>1, <2>3, <2>4 DEF EarnedByEvidence, Stands
  <2>6. StandingInv'
    BY <1>0, <2>2, <2>3 DEF StandingInv, Stands
  <2>. QED
    BY <2>5, <2>6
<1>8. CASE AutonomyKilled
  <2>1. \A z \in Cycles : cycle'[z].at \in PastPolicy =>
            cycle[z].at \in PastPolicy /\ cycle'[z].agent = cycle[z].agent
    BY <1>0, <1>8, CyclesEnd DEF PastPolicy
  <2>. QED
    BY <1>8, <1>s, <2>1 DEF AutonomyKilled
<1>. QED
  BY <1>1, <1>2, <1>3, <1>4, <1>5, <1>6, <1>7, <1>8, <1>9 DEF AutonomyNext

\* The snapshot a cycle is going to be compared with.
LEMMA AutonomySnapshotStep == ASSUME AutonomyInv, AutonomyNext PROVE SnapshotInv'
<1>0. AutonomyShape /\ SnapshotInv
  BY DEF AutonomyInv
<1>s. ASSUME baseline' = baseline, mixed' = mixed,
             \A y \in Cycles : cycle'[y].at = "verify" => cycle[y].at = "verify"
      PROVE  SnapshotInv'
  <2>. SUFFICES ASSUME NEW y \in Cycles, cycle'[y].at = "verify"
                PROVE  \E z \in Cycles : Recorded(y, z)' /\ (z = y \/ y \in mixed')
    BY DEF SnapshotInv
  <2>1. cycle[y].at = "verify"
    BY <1>s
  <2>2. PICK z \in Cycles : Recorded(y, z) /\ (z = y \/ y \in mixed)
    BY <1>0, <2>1 DEF SnapshotInv
  <2>3. cycle[z].at # "idle"
    BY <2>2 DEF Recorded
  <2>4. /\ cycle'[z].at # "idle" /\ cycle'[z].rec = cycle[z].rec /\ cycle'[z].before = cycle[z].before
        /\ cycle'[y].rec = cycle[y].rec
    BY <1>0, <2>1, <2>3, InputsKept
  <2>5. Recorded(y, z)'
    BY <1>s, <2>2, <2>4 DEF Recorded
  <2>. QED
    BY <1>s, <2>2, <2>5
<1>1. ASSUME NEW y \in Cycles, RecordBaseline(y), cycle[y].before.enough PROVE SnapshotInv'
  <2>. DEFINE b == cycle[y].before
              m == cycle[y].rec
  <2>1. PICK q \in CycleRun :
          /\ cycle[y] \in CycleRun /\ cycle'[y] = q /\ q.rec = m /\ q.before = b
          /\ \A z \in Cycles : z # y => cycle'[z] = cycle[z]
    BY <1>0, <1>1, CycleOnward
  <2>2. m \in Recs /\ q.at # "idle"
    BY <2>1 DEF CycleRun, CycleSteps
  <2>3. baseline' = [baseline EXCEPT ![m] = {b}]
    BY <1>1 DEF RecordBaseline
  <2>4. baseline'[m] = {b} /\ \A k \in Recs : k # m => baseline'[k] = baseline[k]
    BY <1>0, <2>2, <2>3 DEF AutonomyShape
  <2>5. mixed' = mixed \cup {z \in Cycles \ {y} : cycle[z].at = "verify" /\ cycle[z].rec = m}
    BY <1>1 DEF RecordBaseline
  <2>7. b.enough
    BY <1>1
  <2>. HIDE DEF b, m
  <2>6. ASSUME NEW x \in Cycles, cycle'[x].at = "verify"
        PROVE  \E z \in Cycles : Recorded(x, z)' /\ (z = x \/ x \in mixed')
    <3>1. CASE cycle'[x].rec = m
      <4>1. Recorded(x, y)'
        BY <2>1, <2>2, <2>4, <2>7, <3>1 DEF Recorded
      <4>2. y = x \/ x \in mixed'
        BY <2>1, <2>5, <2>6, <3>1
      <4>. QED
        BY <4>1, <4>2
    <3>2. CASE cycle'[x].rec # m
      <4>1. x # y /\ cycle'[x] = cycle[x]
        BY <2>1, <3>2
      <4>2. PICK z \in Cycles : Recorded(x, z) /\ (z = x \/ x \in mixed)
        BY <1>0, <2>6, <4>1 DEF SnapshotInv
      <4>3. cycle[z].at # "idle" /\ cycle[x].rec \in Recs
        BY <1>0, <2>6, <4>1, <4>2, RunHeld DEF Recorded
      <4>4. /\ cycle'[z].at # "idle" /\ cycle'[z].rec = cycle[z].rec
            /\ cycle'[z].before = cycle[z].before
        BY <1>0, <4>3, InputsKept
      <4>5. Recorded(x, z)'
        BY <2>4, <3>2, <4>1, <4>2, <4>3, <4>4 DEF Recorded
      <4>. QED
        BY <2>5, <4>2, <4>5
    <3>. QED
      BY <3>1, <3>2
  <2>. QED
    BY <2>6 DEF SnapshotInv
<1>2. ASSUME NEW y \in Cycles, cycle'[y].at # "verify", baseline' = baseline, mixed' = mixed,
             \A z \in Cycles : z # y => cycle'[z] = cycle[z]
      PROVE  SnapshotInv'
  BY <1>2, <1>s
<1>c. ASSUME NEW y \in Cycles, NEW to \in CycleSteps, CycleMoves(y, to), cycle[y].at # "idle"
      PROVE  cycle'[y].at = to /\ \A z \in Cycles : z # y => cycle'[z] = cycle[z]
  <2>1. PICK q \in CycleRun : cycle' = [cycle EXCEPT ![y] = q] /\ q.at = to
    BY <1>0, <1>c, CycleMovesOn
  <2>. QED
    BY <1>0, <2>1, CycleChanges
<1>3. ASSUME NEW y \in Cycles, NEW to \in CycleSteps, CycleMoves(y, to), cycle[y].at # "idle",
             to # "verify", baseline' = baseline, mixed' = mixed
      PROVE  SnapshotInv'
  BY <1>2, <1>3, <1>c
<1>4. CASE SetKillSwitch
  BY <1>s, <1>4 DEF SetKillSwitch
<1>5. ASSUME NEW a \in Agents, NEW e \in Evidence, EvaluateAgentTrust(a, e) PROVE SnapshotInv'
  BY <1>s, <1>5 DEF EvaluateAgentTrust
<1>6. ASSUME NEW y \in Cycles, NEW a \in Agents, NEW m \in Recs, NEW risky \in BOOLEAN,
             NEW b \in Befores, NEW p \in Afters, StartCycle(y, a, m, risky, b, p)
      PROVE  SnapshotInv'
  <2>1. cycle'[y].at \in {"ended", "policy"} /\ \A z \in Cycles : z # y => cycle'[z] = cycle[z]
    BY <1>0, <1>6, CycleStarts
  <2>. QED
    BY <1>2, <1>6, <2>1 DEF StartCycle
<1>7. ASSUME NEW y \in Cycles, PolicyCheck(y) PROVE SnapshotInv'
  <2>1. \E to \in CycleSteps : CycleMoves(y, to) /\ to # "verify"
    BY <1>7 DEF PolicyCheck, CycleSteps
  <2>. QED
    BY <1>3, <1>7, <2>1 DEF PolicyCheck
<1>14. ASSUME NEW y \in Cycles, DefaultProfile(y) PROVE SnapshotInv'
  <2>1. \E to \in CycleSteps : CycleMoves(y, to) /\ to # "verify"
    BY <1>14 DEF DefaultProfile, CycleSteps
  <2>. QED
    BY <1>3, <1>14, <2>1 DEF DefaultProfile
<1>8. ASSUME NEW y \in Cycles, CanaryAct(y) PROVE SnapshotInv'
  <2>1. "observe" \in CycleSteps
    BY DEF CycleSteps
  <2>. QED
    BY <1>3, <1>8, <2>1 DEF CanaryAct
<1>9. ASSUME NEW y \in Cycles, RecordBaseline(y), ~ cycle[y].before.enough PROVE SnapshotInv'
  <2>1. "ended" \in CycleSteps
    BY DEF CycleSteps
  <2>. QED
    BY <1>3, <1>9, <2>1 DEF RecordBaseline
<1>10. ASSUME NEW y \in Cycles, VerifySavings(y) PROVE SnapshotInv'
  <2>1. PICK q \in CycleRun : cycle'[y] = q /\ q.at = "act" /\ \A z \in Cycles : z # y => cycle'[z] = cycle[z]
    BY <1>0, <1>10, CycleVerified
  <2>. QED
    BY <1>2, <1>10, <2>1 DEF VerifySavings
<1>11. ASSUME NEW y \in Cycles, ExpandOrRollback(y) PROVE SnapshotInv'
  <2>1. "trust" \in CycleSteps
    BY DEF CycleSteps
  <2>. QED
    BY <1>3, <1>11, <2>1 DEF ExpandOrRollback
<1>12. ASSUME NEW y \in Cycles, TrustUpdate(y) PROVE SnapshotInv'
  <2>1. "ended" \in CycleSteps
    BY DEF CycleSteps
  <2>. QED
    BY <1>3, <1>12, <2>1 DEF TrustUpdate
<1>13. CASE AutonomyKilled
  <2>1. \A z \in Cycles : cycle'[z].at = "verify" => cycle[z].at = "verify"
    BY <1>0, <1>13, CyclesEnd
  <2>. QED
    BY <1>s, <1>13, <2>1 DEF AutonomyKilled
<1>. QED
  BY <1>1, <1>4, <1>5, <1>6, <1>7, <1>8, <1>9, <1>10, <1>11, <1>12, <1>13,
     <1>14 DEF AutonomyNext

\* What a verdict PASS says of the two observations.
LEMMA PassMeans ==
    ASSUME NEW b \in Observed, NEW p \in Observed, Verdict(b, p) = "PASS"
    PROVE  p.enough /\ p.rate + Tolerance >= b.rate /\ p.unit < b.unit
<1>1. /\ b.rate \in Nat /\ p.rate \in Nat /\ b.unit \in Nat /\ p.unit \in Nat /\ p.enough \in BOOLEAN
  BY DEF Observed
<1>2. p.enough /\ ~ (p.rate + Tolerance < b.rate) /\ ~ (p.unit >= b.unit)
  BY DEF Verdict
<1>. QED
  BY <1>1, <1>2 DEF Tolerance

\* A verdict is backed by what was measured before and after the change.
LEMMA AutonomyBackedStep == ASSUME AutonomyInv, AutonomyNext PROVE BackedInv'
<1>0. AutonomyShape /\ SnapshotInv /\ BackedInv
  BY DEF AutonomyInv
<1>b. mixed \subseteq mixed'
  BY DEF AutonomyNext, SetKillSwitch, EvaluateAgentTrust, StartCycle, PolicyCheck, DefaultProfile,
         CanaryAct, RecordBaseline, VerifySavings, ExpandOrRollback, TrustUpdate, AutonomyKilled
<1>k. ASSUME NEW y \in Cycles, cycle[y].at # "idle", cycle[y].verdict = "PASS" PROVE Backed(y)'
  BY <1>0, <1>b, <1>k, BackedStays DEF BackedInv
<1>s. ASSUME plan' = plan,
             \A z \in Cycles : \/ cycle'[z] = cycle[z]
                               \/ /\ cycle[z].at # "idle"
                                  /\ cycle[z].at \in Finished => cycle'[z].at \in Finished
                                  /\ cycle'[z].verdict = cycle[z].verdict
      PROVE  BackedInv'
  <2>. SUFFICES ASSUME NEW z \in Cycles
                PROVE  /\ cycle'[z].at # "idle" /\ cycle'[z].verdict = "PASS" => Backed(z)'
                       /\ plan'[z] = "VERIFIED_EXPANDED"
                            => cycle'[z].at \in Finished /\ cycle'[z].verdict = "PASS"
    BY DEF BackedInv
  <2>1. cycle'[z].at # "idle" /\ cycle'[z].verdict = "PASS"
          => cycle[z].at # "idle" /\ cycle[z].verdict = "PASS"
    BY <1>s
  <2>2. plan'[z] = "VERIFIED_EXPANDED" => cycle'[z].at \in Finished /\ cycle'[z].verdict = "PASS"
    BY <1>0, <1>s DEF BackedInv
  <2>. QED
    BY <1>k, <2>1, <2>2
<1>c. ASSUME NEW y \in Cycles,
             PolicyCheck(y) \/ DefaultProfile(y) \/ CanaryAct(y) \/ RecordBaseline(y)
             \/ ExpandOrRollback(y) \/ TrustUpdate(y)
      PROVE  /\ cycle[y].at # "idle" /\ cycle'[y].at # "idle" /\ cycle'[y].verdict = cycle[y].verdict
             /\ \A z \in Cycles : z # y => cycle'[z] = cycle[z]
  <2>1. PICK q \in CycleRun :
           /\ cycle[y] \in CycleRun /\ cycle'[y] = q /\ q.verdict = cycle[y].verdict
           /\ \A z \in Cycles : z # y => cycle'[z] = cycle[z]
    BY <1>0, <1>c, CycleOnward
  <2>2. cycle[y].at \in CycleSteps /\ q.at \in CycleSteps
    BY <2>1 DEF CycleRun
  <2>3. "idle" \notin CycleSteps
    BY DEF CycleSteps
  <2>. QED
    BY <2>1, <2>2, <2>3
<1>1. CASE SetKillSwitch
  BY <1>s, <1>1 DEF SetKillSwitch
<1>2. ASSUME NEW a \in Agents, NEW e \in Evidence, EvaluateAgentTrust(a, e) PROVE BackedInv'
  BY <1>s, <1>2 DEF EvaluateAgentTrust
<1>3. ASSUME NEW y \in Cycles, NEW a \in Agents, NEW m \in Recs, NEW risky \in BOOLEAN,
             NEW b \in Befores, NEW p \in Afters, StartCycle(y, a, m, risky, b, p)
      PROVE  BackedInv'
  <2>1. /\ cycle[y].at = "idle" /\ cycle'[y].verdict = "none"
        /\ \A z \in Cycles : z # y => cycle'[z] = cycle[z]
    BY <1>0, <1>3, CycleStarts
  <2>2. plan' = plan
    BY <1>3 DEF StartCycle
  <2>3. plan[y] # "VERIFIED_EXPANDED"
    BY <1>0, <2>1 DEF BackedInv, Finished
  <2>4. ASSUME NEW z \in Cycles
        PROVE  /\ cycle'[z].at # "idle" /\ cycle'[z].verdict = "PASS" => Backed(z)'
               /\ plan'[z] = "VERIFIED_EXPANDED"
                    => cycle'[z].at \in Finished /\ cycle'[z].verdict = "PASS"
    <3>1. CASE z = y
      BY <2>1, <2>2, <2>3, <3>1
    <3>2. CASE z # y
      <4>1. cycle'[z] = cycle[z]
        BY <2>1, <3>2
      <4>. QED
        BY <1>0, <1>k, <2>2, <4>1 DEF BackedInv
    <3>. QED
      BY <3>1, <3>2
  <2>. QED
    BY <2>4 DEF BackedInv
<1>4. ASSUME NEW y \in Cycles,
             PolicyCheck(y) \/ DefaultProfile(y) \/ RecordBaseline(y) \/ TrustUpdate(y)
      PROVE  BackedInv'
  <2>1. plan' = plan
    BY <1>4 DEF PolicyCheck, DefaultProfile, RecordBaseline, TrustUpdate
  <2>2. cycle[y].at \in Finished => cycle'[y].at \in Finished
    <3>1. CASE TrustUpdate(y)
      <4>1. cycle[y].at # "idle" /\ CycleMoves(y, "ended") /\ "ended" \in CycleSteps
        BY <3>1 DEF TrustUpdate, CycleSteps
      <4>2. PICK q \in CycleRun : cycle' = [cycle EXCEPT ![y] = q] /\ q.at = "ended"
        BY <1>0, <4>1, CycleMovesOn
      <4>. QED
        BY <1>0, <4>2, CycleChanges DEF Finished
    <3>2. CASE ~ TrustUpdate(y)
      BY <1>4, <3>2 DEF PolicyCheck, DefaultProfile, RecordBaseline, Finished
    <3>. QED
      BY <3>1, <3>2
  <2>. QED
    BY <1>4, <1>c, <1>s, <2>1, <2>2
<1>5. ASSUME NEW y \in Cycles, CanaryAct(y) \/ ExpandOrRollback(y) PROVE BackedInv'
  <2>1. plan \in [Cycles -> PlanStates]
    BY <1>0 DEF AutonomyShape
  <2>2. /\ plan'[y] = "VERIFIED_EXPANDED" => cycle[y].verdict = "PASS" /\ CycleMoves(y, "trust")
        /\ \A z \in Cycles : z # y => plan'[z] = plan[z]
    BY <1>5, <2>1 DEF CanaryAct, ExpandOrRollback
  <2>3. /\ cycle[y].at # "idle" /\ cycle'[y].at # "idle" /\ cycle'[y].verdict = cycle[y].verdict
        /\ \A z \in Cycles : z # y => cycle'[z] = cycle[z]
    BY <1>5, <1>c
  <2>a. CycleMoves(y, "trust") => cycle'[y].at \in Finished
    <3>. SUFFICES ASSUME CycleMoves(y, "trust") PROVE cycle'[y].at = "trust"
      BY DEF Finished
    <3>1. "trust" \in CycleSteps
      BY DEF CycleSteps
    <3>2. PICK q \in CycleRun : cycle' = [cycle EXCEPT ![y] = q] /\ q.at = "trust"
      BY <1>0, <2>3, <3>1, CycleMovesOn
    <3>. QED
      BY <1>0, <3>2, CycleChanges
  <2>4. ASSUME NEW z \in Cycles
        PROVE  /\ cycle'[z].at # "idle" /\ cycle'[z].verdict = "PASS" => Backed(z)'
               /\ plan'[z] = "VERIFIED_EXPANDED"
                    => cycle'[z].at \in Finished /\ cycle'[z].verdict = "PASS"
    <3>1. CASE z = y
      BY <1>k, <2>2, <2>3, <2>a, <3>1
    <3>2. CASE z # y
      <4>1. cycle'[z] = cycle[z] /\ plan'[z] = plan[z]
        BY <2>2, <2>3, <3>2
      <4>. QED
        BY <1>0, <1>k, <4>1 DEF BackedInv
    <3>. QED
      BY <3>1, <3>2
  <2>. QED
    BY <2>4 DEF BackedInv
<1>6. ASSUME NEW y \in Cycles, VerifySavings(y) PROVE BackedInv'
  <2>. DEFINE s == baseline[cycle[y].rec]
              b == CHOOSE b \in s : TRUE
  <2>1. PICK q \in CycleRun :
          /\ cycle[y] \in CycleRun /\ cycle'[y] = q /\ q.verdict = Verdict(b, cycle[y].after)
          /\ \A z \in Cycles : z # y => cycle'[z] = cycle[z]
    BY <1>0, <1>6, CycleVerified
  <2>2. plan' = plan /\ cycle[y].at = "verify"
    BY <1>6 DEF VerifySavings
  <2>3. ASSUME q.verdict = "PASS" PROVE Backed(y)'
    <3>1. PICK z \in Cycles : Recorded(y, z) /\ (z = y \/ y \in mixed)
      BY <1>0, <2>2 DEF SnapshotInv
    <3>2. b = cycle[z].before /\ cycle[z].at # "idle"
      BY <3>1 DEF Recorded
    <3>3. cycle[z].before \in Observed /\ cycle[y].after \in Observed
      BY <1>0, <2>1, <3>2, RunHeld, AutonomyAssumption DEF CycleRun
    <3>. HIDE DEF b, s
    <3>4. Verdict(cycle[z].before, cycle[y].after) = "PASS"
      BY <2>1, <2>3, <3>2
    <3>5. /\ cycle[y].after.enough /\ cycle[y].after.rate + Tolerance >= cycle[z].before.rate
          /\ cycle[y].after.unit < cycle[z].before.unit
      BY <3>3, <3>4, PassMeans
    <3>6. Improves(y, z)
      BY <3>1, <3>5 DEF Improves, Recorded
    <3>7. Backed(y)
      BY <3>1, <3>5, <3>6 DEF Backed
    <3>. QED
      BY <1>0, <1>b, <2>2, <3>7, BackedStays
  <2>4. plan[y] # "VERIFIED_EXPANDED"
    BY <1>0, <2>2 DEF BackedInv, Finished
  <2>. HIDE DEF b, s
  <2>5. ASSUME NEW z \in Cycles
        PROVE  /\ cycle'[z].at # "idle" /\ cycle'[z].verdict = "PASS" => Backed(z)'
               /\ plan'[z] = "VERIFIED_EXPANDED"
                    => cycle'[z].at \in Finished /\ cycle'[z].verdict = "PASS"
    <3>1. CASE z = y
      BY <2>1, <2>2, <2>3, <2>4, <3>1
    <3>2. CASE z # y
      <4>1. cycle'[z] = cycle[z]
        BY <2>1, <3>2
      <4>. QED
        BY <1>0, <1>k, <2>2, <4>1 DEF BackedInv
    <3>. QED
      BY <3>1, <3>2
  <2>. QED
    BY <2>5 DEF BackedInv
<1>7. CASE AutonomyKilled
  <2>1. plan' = plan
    BY <1>7 DEF AutonomyKilled
  <2>2. "ended" \in Finished /\ "ended" # "idle"
    BY DEF Finished
  <2>. QED
    BY <1>0, <1>7, <1>s, <2>1, <2>2, CyclesEnd
<1>. QED
  BY <1>1, <1>2, <1>3, <1>4, <1>5, <1>6, <1>7 DEF AutonomyNext

\* What each step of autonomy keeps.
LEMMA AutonomyStep == ASSUME AutonomyInv, AutonomyNext PROVE AutonomyInv'
BY AutonomyShapeStep, AutonomyStandingStep, AutonomySnapshotStep, AutonomyBackedStep DEF AutonomyInv

\* The invariant of autonomy implies what its runs check.
LEMMA AutonomySafe ==
    ASSUME AutonomyInv PROVE AutonomyTypeOK /\ EarnedByEvidence /\ ExpandedOnEvidence
<1>0. AutonomyShape /\ BackedInv
  BY DEF AutonomyInv
<1>1. ASSUME NEW m \in Recs PROVE Cardinality(baseline[m]) <= 1
  <2>1. CASE baseline[m] = {}
    BY <2>1, FS_EmptySet
  <2>2. CASE baseline[m] # {}
    <3>1. PICK b \in baseline[m] : baseline[m] = {b}
      BY <1>0, <2>2 DEF AutonomyShape
    <3>2. Cardinality({b}) = 1
      BY FS_Singleton
    <3>. QED
      BY <3>1, <3>2
  <2>. QED
    BY <2>1, <2>2
<1>2. \A a \in Agents : \A p \in profile[a] : p.score \in Points
  BY <1>0 DEF AutonomyShape, Scored
<1>3. AutonomyTypeOK
  <2>1. killed \in BOOLEAN /\ plan \in [Cycles -> PlanStates]
    BY <1>0 DEF AutonomyShape
  <2>. QED
    BY <1>1, <1>2, <2>1 DEF AutonomyTypeOK, PlanStates, Points
<1>4. ExpandedOnEvidence
  <2>. SUFFICES ASSUME NEW y \in Cycles, plan[y] = "VERIFIED_EXPANDED"
                PROVE  /\ cycle[y].after.enough
                       /\ Improves(y, y) \/ (y \in mixed /\ \E z \in Cycles \ {y} : Improves(y, z))
    BY DEF ExpandedOnEvidence
  <2>1. Backed(y)
    BY <1>0 DEF BackedInv, Finished
  <2>. QED
    BY <2>1 DEF Backed
<1>. QED
  BY <1>3, <1>4 DEF AutonomyInv

-----------------------------------------------------------------------------
(* Migration of identities.  As long as no write came late, an encrypted   *)
(* column holds nothing or the plaintext (CopyInv), a row whose first      *)
(* column was copied was copied as a whole up to the column with its own   *)
(* backfill (WholeInv), and once the gate is open every column still there *)
(* is copied (OpenInv).  The columns go in the order of the statements, so *)
(* that those left are the last ones (OrderInv).                           *)

Cells == [Rows -> [Columns -> 0..2]]
Filled(c) == table = "users" \/ c < 3

PiiShape ==
    /\ table \in {"users", "workspaces"} /\ cols \subseteq Columns
    /\ plain \in Cells /\ copy \in Cells /\ dropped \in Cells
    /\ boot \in {"down", "fill", "gate", "drop", "up"} /\ todo \subseteq Rows
    /\ late \in BOOLEAN /\ wrote \in Nat

OrderInv == \A c, d \in Columns : c \in cols /\ c <= d => d \in cols

CopyInv ==
    /\ \A r \in Rows : plain[r][1] = 1
    /\ late \/ \A r \in Rows, c \in Columns : copy[r][c] \in {0, plain[r][c]}

WholeInv ==
    late \/ \A r \in Rows, c \in Columns : copy[r][1] # 0 /\ Filled(c) => copy[r][c] = plain[r][c]

OpenInv == late \/ (boot = "drop" => \A r \in Rows, c \in cols : copy[r][c] = plain[r][c])

GoneColumns ==
    \A r \in Rows, c \in Columns \ cols :
        dropped[r][c] = plain[r][c] /\ (late \/ copy[r][c] = plain[r][c])

PiiInv ==
    /\ PiiShape /\ OrderInv /\ CopyInv /\ WholeInv /\ OpenInv /\ GoneColumns /\ DropCompletes

\* Plaintext only.
LEMMA PiiBegin == PiiInit => PiiInv
<1>. SUFFICES ASSUME PiiInit PROVE PiiInv
  OBVIOUS
<1>1. copy \in Cells /\ dropped \in Cells /\ \A r \in Rows, c \in Columns : copy[r][c] = 0
  BY DEF PiiInit, Cells, Columns
<1>2. plain \in Cells
  <2>1. {0, 1} \subseteq 0..2
    OBVIOUS
  <2>. QED
    BY <2>1 DEF PiiInit, Cells
<1>3. PiiShape
  BY <1>1, <1>2 DEF PiiInit, PiiShape
<1>4. 1 \in Columns
  BY DEF Columns
<1>. QED
  BY <1>1, <1>3, <1>4
  DEF PiiInit, PiiInv, OrderInv, CopyInv, WholeInv, OpenInv, GoneColumns, DropCompletes

\* The column that is dropped next is the first of those left.
LEMMA FirstColumn ==
    ASSUME cols \subseteq Columns, cols # {}
    PROVE  LET c == CHOOSE c \in cols : \A d \in cols : c <= d
           IN  c \in cols /\ \A d \in cols : c <= d
<1>1. \E c \in cols : \A d \in cols : c <= d
  <2>1. CASE 1 \in cols
    BY <2>1 DEF Columns
  <2>2. CASE 1 \notin cols /\ 2 \in cols
    BY <2>2 DEF Columns
  <2>3. CASE 1 \notin cols /\ 2 \notin cols
    <3>1. PICK c \in cols : TRUE
      OBVIOUS
    <3>2. \A d \in cols : d = 3
      BY <2>3 DEF Columns
    <3>. QED
      BY <3>1, <3>2
  <2>. QED
    BY <2>1, <2>2, <2>3
<1>. QED
  BY <1>1

\* The steps that touch neither the values nor the columns.
LEMMA PiiQuiet ==
    ASSUME PiiInv, PiiShape', table' = table, cols' = cols, plain' = plain, copy' = copy,
           late' = late, dropped' = dropped, boot' # "drop" \/ boot = "drop", DropCompletes'
    PROVE  PiiInv'
BY DEF PiiInv, OrderInv, CopyInv, WholeInv, OpenInv, GoneColumns, Filled

\* A row is copied as it is.
LEMMA PiiFillRow == ASSUME PiiInv, NEW r \in Rows, FillRow(r) PROVE PiiInv'
<1>0. PiiShape /\ 1 \in Columns
  BY DEF PiiInv, Columns
<1>. DEFINE row == [c \in Columns |-> IF table = "users" \/ c < 3 THEN plain[r][c] ELSE copy[r][c]]
<1>1. copy' = [copy EXCEPT ![r] = row]
  BY DEF FillRow
<1>2. \A q \in Rows, c \in Columns : plain[q][c] \in 0..2 /\ copy[q][c] \in 0..2
  BY <1>0 DEF PiiShape, Cells
<1>3. row \in [Columns -> 0..2]
  BY <1>2
<1>4. \A c \in Columns : row[c] = IF Filled(c) THEN plain[r][c] ELSE copy[r][c]
  BY DEF Filled
<1>. HIDE DEF row
<1>5. copy' \in Cells /\ copy'[r] = row /\ \A q \in Rows : q # r => copy'[q] = copy[q]
  BY <1>0, <1>1, <1>3 DEF PiiShape, Cells
<1>6. /\ table' = table /\ cols' = cols /\ plain' = plain /\ late' = late /\ dropped' = dropped
      /\ boot = "fill" /\ boot' = "fill" /\ todo' \subseteq todo /\ wrote' = wrote
  BY DEF FillRow, Fixed
<1>7. PiiShape'
  BY <1>0, <1>5, <1>6 DEF PiiShape
<1>8. OrderInv' /\ OpenInv' /\ DropCompletes'
  BY <1>6 DEF PiiInv, OrderInv, OpenInv, DropCompletes
<1>9. \A q \in Rows, c \in Columns :
         copy'[q][c] = copy[q][c] \/ (copy'[q][c] = plain[q][c])
  BY <1>4, <1>5
<1>10. CopyInv'
  BY <1>6, <1>9 DEF PiiInv, CopyInv
<1>11. WholeInv'
  <2>. SUFFICES ASSUME ~ late, NEW q \in Rows, NEW c \in Columns, copy'[q][1] # 0, Filled(c)
                PROVE  copy'[q][c] = plain[q][c]
    BY <1>6 DEF WholeInv, Filled
  <2>1. CASE q = r
    BY <1>4, <1>5, <2>1
  <2>2. CASE q # r
    BY <1>5, <2>2 DEF PiiInv, WholeInv
  <2>. QED
    BY <2>1, <2>2
<1>12. GoneColumns'
  BY <1>6, <1>9 DEF PiiInv, GoneColumns
<1>. QED
  BY <1>7, <1>8, <1>10, <1>11, <1>12 DEF PiiInv

\* The last four characters of the key are copied where they are missing.
LEMMA PiiFillLast4 == ASSUME PiiInv, FillLast4 PROVE PiiInv'
<1>0. PiiShape /\ 3 \in Columns /\ 1 \in Columns
  BY DEF PiiInv, Columns
<1>6. /\ table' = table /\ cols' = cols /\ plain' = plain /\ late' = late /\ dropped' = dropped
      /\ boot = "fill" /\ boot' = "gate" /\ todo' = todo /\ wrote' = wrote
  BY DEF FillLast4, Fixed
<1>a. ASSUME copy' \in Cells,
             \A q \in Rows, c \in Columns :
                copy'[q][c] = copy[q][c] \/ (c = 3 /\ table = "workspaces" /\ copy'[q][c] = plain[q][c])
      PROVE  PiiInv'
  <2>1. PiiShape'
    BY <1>0, <1>6, <1>a DEF PiiShape
  <2>2. OrderInv' /\ OpenInv' /\ DropCompletes'
    BY <1>6 DEF PiiInv, OrderInv, OpenInv, DropCompletes
  <2>3. CopyInv'
    BY <1>6, <1>a DEF PiiInv, CopyInv
  <2>4. WholeInv'
    <3>. SUFFICES ASSUME ~ late, NEW q \in Rows, NEW c \in Columns, copy'[q][1] # 0, Filled(c)
                  PROVE  copy'[q][c] = plain[q][c]
      BY <1>6 DEF WholeInv, Filled
    <3>1. copy'[q][1] = copy[q][1]
      BY <1>0, <1>a
    <3>2. copy'[q][c] = copy[q][c] \/ copy'[q][c] = plain[q][c]
      BY <1>a
    <3>. QED
      BY <3>1, <3>2 DEF PiiInv, WholeInv
  <2>5. GoneColumns'
    BY <1>6, <1>a DEF PiiInv, GoneColumns
  <2>. QED
    BY <2>1, <2>2, <2>3, <2>4, <2>5 DEF PiiInv
<1>1. CASE table = "workspaces" /\ 3 \in cols
  <2>. DEFINE row(r) == [copy[r] EXCEPT ![3] = IF copy[r][3] = 0 THEN plain[r][3] ELSE copy[r][3]]
  <2>1. copy' = [r \in Rows |-> row(r)]
    BY <1>1 DEF FillLast4
  <2>2. ASSUME NEW r \in Rows
        PROVE  /\ row(r) \in [Columns -> 0..2]
               /\ \A c \in Columns : row(r)[c] = copy[r][c] \/ (c = 3 /\ row(r)[c] = plain[r][c])
    <3>1. copy[r] \in [Columns -> 0..2] /\ plain[r][3] \in 0..2 /\ copy[r][3] \in 0..2
      BY <1>0 DEF PiiShape, Cells
    <3>. DEFINE v == IF copy[r][3] = 0 THEN plain[r][3] ELSE copy[r][3]
    <3>2. v \in 0..2 /\ (v = copy[r][3] \/ v = plain[r][3]) /\ row(r) = [copy[r] EXCEPT ![3] = v]
      BY <3>1
    <3>. HIDE DEF v, row
    <3>. QED
      BY <1>0, <3>1, <3>2
  <2>. HIDE DEF row
  <2>3. copy' \in Cells /\ \A r \in Rows : copy'[r] = row(r)
    BY <2>1, <2>2 DEF Cells
  <2>. QED
    BY <1>1, <1>a, <2>2, <2>3
<1>2. CASE ~ (table = "workspaces" /\ 3 \in cols)
  <2>1. copy' = copy
    BY <1>2 DEF FillLast4
  <2>. QED
    BY <1>0, <1>a, <2>1 DEF PiiShape
<1>. QED
  BY <1>1, <1>2

\* An open gate: every column that is left is copied.
LEMMA GateOpens ==
    ASSUME PiiInv, ~ late, cols \cap Watched # {}, ~ Blocked, NEW r \in Rows, NEW c \in cols
    PROVE  copy[r][c] = plain[r][c]
<1>0. PiiShape /\ c \in Columns /\ 1 \in Columns
  BY DEF PiiInv, PiiShape, Columns
<1>1. CASE table = "users"
  <2>1. copy[r][1] # 0
    BY <1>1 DEF Blocked, Gated
  <2>. QED
    BY <1>0, <1>1, <2>1 DEF PiiInv, WholeInv, Filled
<1>2. CASE table = "workspaces"
  <2>1. CASE c \in Gated
    <3>1. copy[r][c] # 0 \/ plain[r][c] = 0
      BY <2>1 DEF Blocked
    <3>. QED
      BY <1>0, <3>1 DEF PiiInv, CopyInv
  <2>2. CASE c \notin Gated
    <3>1. c = 2 /\ 1 \notin cols
      BY <1>0, <1>2, <2>2 DEF Gated, Columns
    <3>2. copy[r][1] = 1
      BY <1>0, <3>1 DEF PiiInv, GoneColumns, CopyInv
    <3>3. Filled(c) /\ copy[r][1] # 0
      BY <3>1, <3>2 DEF Filled
    <3>. QED
      BY <1>0, <3>3 DEF PiiInv, WholeInv
  <2>. QED
    BY <2>1, <2>2
<1>. QED
  BY <1>0, <1>1, <1>2 DEF PiiShape

\* The gate.
LEMMA PiiCheckGate == ASSUME PiiInv, CheckGate PROVE PiiInv'
<1>0. PiiShape
  BY DEF PiiInv
<1>1. /\ table' = table /\ cols' = cols /\ plain' = plain /\ copy' = copy /\ late' = late
      /\ dropped' = dropped /\ todo' = todo /\ wrote' = wrote /\ boot' \in {"drop", "up"}
  BY DEF CheckGate, Fixed
<1>2. PiiShape'
  BY <1>0, <1>1 DEF PiiShape
<1>3. CASE cols \cap Watched # {} /\ ~ Blocked
  <2>1. OpenInv'
    <3>1. late \/ \A r \in Rows, c \in cols : copy[r][c] = plain[r][c]
      BY <1>3, GateOpens
    <3>. QED
      BY <1>1, <3>1 DEF OpenInv
  <2>2. boot' = "drop"
    BY <1>3 DEF CheckGate
  <2>3. DropCompletes'
    BY <2>2 DEF DropCompletes
  <2>. QED
    BY <1>1, <1>2, <2>1, <2>3 DEF PiiInv, OrderInv, CopyInv, WholeInv, GoneColumns, Filled
<1>4. CASE ~ (cols \cap Watched # {} /\ ~ Blocked)
  <2>1. boot' = "up"
    BY <1>4 DEF CheckGate
  <2>2. DropCompletes'
    <3>1. CASE Blocked
      BY <1>1, <3>1 DEF DropCompletes, Blocked, Gated
    <3>2. CASE cols \cap Watched = {}
      <4>. SUFFICES ASSUME table = "workspaces" PROVE cols = {}
        BY <1>1 DEF DropCompletes
      <4>1. 1 \notin cols /\ 3 \notin cols
        BY <3>2 DEF Watched
      <4>2. 2 \notin cols
        BY <4>1 DEF PiiInv, OrderInv, Columns
      <4>. QED
        BY <1>0, <4>1, <4>2 DEF PiiShape, Columns
    <3>. QED
      BY <1>4, <3>1, <3>2
  <2>. QED
    BY <1>1, <1>2, <2>1, <2>2, PiiQuiet
<1>. QED
  BY <1>3, <1>4

\* A column is dropped.
LEMMA PiiDropColumn == ASSUME PiiInv, DropColumn PROVE PiiInv'
<1>0. PiiShape
  BY DEF PiiInv
<1>1. /\ table' = table /\ plain' = plain /\ copy' = copy /\ late' = late
      /\ todo' = todo /\ wrote' = wrote /\ boot = "drop"
  BY DEF DropColumn, Fixed
<1>2. CASE cols = {}
  <2>1. boot' = "up" /\ cols' = cols /\ dropped' = dropped
    BY <1>2 DEF DropColumn
  <2>2. PiiShape'
    BY <1>0, <1>1, <2>1 DEF PiiShape
  <2>3. DropCompletes'
    BY <1>2, <2>1 DEF DropCompletes
  <2>. QED
    BY <1>1, <2>1, <2>2, <2>3, PiiQuiet
<1>3. CASE cols # {}
  <2>. DEFINE c == CHOOSE c \in cols : \A d \in cols : c <= d
  <2>1. c \in cols /\ \A d \in cols : c <= d
    BY <1>0, <1>3, FirstColumn DEF PiiShape
  <2>2. /\ cols' = cols \ {c} /\ boot' = boot
        /\ dropped' = [r \in Rows |-> [dropped[r] EXCEPT ![c] = plain[r][c]]]
    BY <1>3 DEF DropColumn
  <2>. HIDE DEF c
  <2>3. c \in Columns
    BY <1>0, <2>1 DEF PiiShape
  <2>4. ASSUME NEW r \in Rows
        PROVE  /\ dropped'[r] \in [Columns -> 0..2] /\ dropped'[r][c] = plain[r][c]
               /\ \A d \in Columns : d # c => dropped'[r][d] = dropped[r][d]
    <3>1. dropped[r] \in [Columns -> 0..2] /\ plain[r][c] \in 0..2
      BY <1>0, <2>3 DEF PiiShape, Cells
    <3>2. dropped'[r] = [dropped[r] EXCEPT ![c] = plain[r][c]]
      BY <2>2
    <3>. QED
      BY <2>3, <3>1, <3>2
  <2>5. dropped' \in Cells
    BY <2>2, <2>4 DEF Cells
  <2>6. PiiShape'
    BY <1>0, <1>1, <2>2, <2>5 DEF PiiShape
  <2>7. OrderInv'
    <3>. SUFFICES ASSUME NEW a \in Columns, NEW d \in Columns, a \in cols', a <= d PROVE d \in cols'
      BY DEF OrderInv
    <3>1. a \in cols /\ a # c /\ c <= a
      BY <2>1, <2>2
    <3>2. d \in cols
      BY <3>1 DEF PiiInv, OrderInv
    <3>3. d # c
      BY <2>3, <3>1 DEF Columns
    <3>. QED
      BY <2>2, <3>2, <3>3
  <2>8. OpenInv'
    BY <1>1, <2>2 DEF PiiInv, OpenInv
  <2>9. GoneColumns'
    <3>. SUFFICES ASSUME NEW r \in Rows, NEW d \in Columns \ cols'
                  PROVE  dropped'[r][d] = plain[r][d] /\ (late \/ copy[r][d] = plain[r][d])
      BY <1>1 DEF GoneColumns
    <3>1. CASE d = c
      BY <1>1, <2>1, <2>4, <3>1 DEF PiiInv, OpenInv
    <3>2. CASE d # c
      <4>1. d \in Columns \ cols
        BY <2>2, <3>2
      <4>. QED
        BY <2>4, <3>2, <4>1 DEF PiiInv, GoneColumns
    <3>. QED
      BY <3>1, <3>2
  <2>10. DropCompletes'
    BY <1>1, <2>2 DEF DropCompletes
  <2>11. CopyInv' /\ WholeInv'
    BY <1>1 DEF PiiInv, CopyInv, WholeInv, Filled
  <2>. QED
    BY <2>6, <2>7, <2>8, <2>9, <2>10, <2>11 DEF PiiInv
<1>. QED
  BY <1>2, <1>3

\* An older release writes plaintext: to a row that nothing was copied from,
\* before init_db begins, or it is late.
LEMMA PiiOldWrites ==
    ASSUME PiiInv, NEW r \in Rows, NEW c \in Columns, OldReleaseWrites(r, c) PROVE PiiInv'
<1>0. PiiShape /\ 1 \in Columns /\ MaxWrites \in Nat
  BY PiiAssumption DEF PiiInv, Columns
<1>1. /\ table' = table /\ cols' = cols /\ copy' = copy /\ boot' = boot /\ todo' = todo
      /\ dropped' = dropped /\ wrote' = wrote + 1 /\ c \in cols /\ c # 1
      /\ plain' = [plain EXCEPT ![r][c] = 2]
  BY DEF OldReleaseWrites, Columns
<1>2. late' \in BOOLEAN
  BY DEF OldReleaseWrites
<1>3. ~ late' => ~ late /\ boot = "down" /\ \A d \in Columns : copy[r][d] = 0
  BY DEF OldReleaseWrites
<1>4. /\ plain' \in Cells /\ plain'[r][c] = 2
      /\ \A q \in Rows, d \in Columns : q # r \/ d # c => plain'[q][d] = plain[q][d]
  <2>1. plain[r] \in [Columns -> 0..2]
    BY <1>0 DEF PiiShape, Cells
  <2>. DEFINE row == [plain[r] EXCEPT ![c] = 2]
  <2>2. row \in [Columns -> 0..2] /\ row[c] = 2 /\ \A d \in Columns : d # c => row[d] = plain[r][d]
    BY <2>1
  <2>3. plain' = [plain EXCEPT ![r] = row]
    BY <1>1
  <2>. HIDE DEF row
  <2>. QED
    BY <1>0, <2>2, <2>3 DEF PiiShape, Cells
<1>5. PiiShape'
  BY <1>0, <1>1, <1>2, <1>4 DEF PiiShape
<1>6. OrderInv'
  BY <1>1 DEF PiiInv, OrderInv
<1>7. CopyInv'
  <2>1. \A q \in Rows : plain'[q][1] = 1
    BY <1>0, <1>1, <1>4 DEF PiiInv, CopyInv
  <2>2. ASSUME ~ late', NEW q \in Rows, NEW d \in Columns PROVE copy[q][d] \in {0, plain'[q][d]}
    BY <1>3, <1>4, <2>2 DEF PiiInv, CopyInv
  <2>. QED
    BY <1>1, <2>1, <2>2 DEF CopyInv
<1>8. WholeInv'
  <2>1. ASSUME ~ late', NEW q \in Rows, NEW d \in Columns, copy[q][1] # 0, Filled(d)
        PROVE  copy[q][d] = plain'[q][d]
    <3>1. q # r /\ ~ late
      BY <1>0, <1>3, <2>1
    <3>. QED
      BY <1>4, <2>1, <3>1 DEF PiiInv, WholeInv
  <2>. QED
    BY <1>1, <2>1 DEF WholeInv, Filled
<1>9. OpenInv'
  BY <1>1, <1>3 DEF OpenInv
<1>10. GoneColumns'
  <2>1. ASSUME NEW q \in Rows, NEW d \in Columns \ cols
        PROVE  dropped[q][d] = plain'[q][d] /\ (late' \/ copy[q][d] = plain'[q][d])
    <3>1. plain'[q][d] = plain[q][d]
      BY <1>1, <1>4
    <3>. QED
      BY <1>3, <3>1 DEF PiiInv, GoneColumns
  <2>. QED
    BY <1>1, <2>1 DEF GoneColumns
<1>11. DropCompletes'
  <2>1. ASSUME Blocked PROVE Blocked'
    <3>1. PICK q \in Rows, d \in Gated : copy[q][d] = 0 /\ (table = "users" \/ plain[q][d] # 0)
      BY <2>1 DEF Blocked
    <3>2. d \in Columns
      BY <3>1 DEF Gated, Columns
    <3>3. table = "users" \/ plain'[q][d] # 0
      BY <1>4, <3>1, <3>2
    <3>4. Gated' = Gated
      BY <1>1 DEF Gated
    <3>. QED
      BY <1>1, <3>1, <3>3, <3>4 DEF Blocked
  <2>. QED
    BY <1>1, <2>1 DEF PiiInv, DropCompletes
<1>. QED
  BY <1>5, <1>6, <1>7, <1>8, <1>9, <1>10, <1>11 DEF PiiInv

\* What each step of the migration keeps.
LEMMA PiiStep == ASSUME PiiInv, PiiNext PROVE PiiInv'
<1>0. PiiShape
  BY DEF PiiInv
<1>1. ASSUME NEW key \in BOOLEAN, SelectRows(key) PROVE PiiInv'
  <2>1. PiiShape'
    BY <1>0, <1>1 DEF SelectRows, Fixed, PiiShape
  <2>. QED
    BY <1>1, <2>1, PiiQuiet DEF SelectRows, Fixed, DropCompletes
<1>2. CASE StartAgain
  <2>1. PiiShape'
    BY <1>0, <1>2 DEF StartAgain, Fixed, PiiShape
  <2>. QED
    BY <1>2, <2>1, PiiQuiet DEF StartAgain, Fixed, DropCompletes
<1>. QED
  BY <1>1, <1>2, PiiFillRow, PiiFillLast4, PiiCheckGate, PiiDropColumn, PiiOldWrites DEF PiiNext

\* The invariant of the migration implies what its runs check.
LEMMA PiiSafe == ASSUME PiiInv PROVE PiiTypeOK /\ NothingLost /\ DropCompletes
<1>0. PiiShape /\ GoneColumns
  BY DEF PiiInv
<1>1. \A r \in Rows, c \in Columns : {plain[r][c], copy[r][c], dropped[r][c]} \subseteq 0..2
  BY <1>0 DEF PiiShape, Cells
<1>2. NothingLost
  BY <1>0 DEF GoneColumns, NothingLost
<1>. QED
  BY <1>0, <1>1, <1>2 DEF PiiTypeOK, PiiShape, PiiInv

-----------------------------------------------------------------------------
(* All parts.  One of them runs; the invariant is the one of that part.    *)

AccessInv ==
    /\ part = "api_keys" => ApiKeysInv
    /\ part \in {"accounts", "resets"} => AccountsInv
    /\ part = "pii" => PiiInv
    /\ part = "stream" => StreamInv
    /\ part = "pool" => PoolInv
    /\ part = "agent_api" => AgentApiInv
    /\ part = "governance" => GovernanceInv
    /\ part = "guardrails" => GuardrailsInv
    /\ part = "execution" => ExecutionInv
    /\ part = "autonomy" => AutonomyInv

\* Every part begins in its invariant.
LEMMA AccessBegin == AccessInit => AccessInv
BY ApiKeysBegin, AccountsBegin, PiiBegin, StreamBegin, PoolBegin, AgentApiBegin,
   GovernanceBegin, GuardrailsBegin, ExecutionBegin, AutonomyBegin
DEF AccessInit, AccessInv

\* A step that changes nothing keeps the invariants.
LEMMA AccessStays == ASSUME AccessInv, UNCHANGED accessVars PROVE AccessInv'
<1>0. /\ part' = part
      /\ UNCHANGED apiKeyVars /\ UNCHANGED accountVars /\ UNCHANGED piiVars
      /\ UNCHANGED streamVars /\ UNCHANGED poolVars /\ UNCHANGED agentApiVars
      /\ UNCHANGED governanceVars /\ UNCHANGED guardrailVars /\ UNCHANGED executionVars
      /\ UNCHANGED autonomyVars
  BY DEF accessVars
<1>1. ASSUME ApiKeysInv PROVE ApiKeysInv'
  BY <1>0, <1>1 DEF apiKeyVars, ApiKeysInv, ApiKeysShape, GoneInv, RoomInv, Further
<1>2. ASSUME AccountsInv PROVE AccountsInv'
  BY <1>0, <1>2
  DEF accountVars, AccountsInv, AccountsShape, CodesInv, StepsInv, LinksInv, GuessInv
<1>3. ASSUME PiiInv PROVE PiiInv'
  BY <1>0, <1>3
  DEF piiVars, PiiInv, PiiShape, OrderInv, CopyInv, WholeInv, Filled, OpenInv, GoneColumns,
      DropCompletes, Blocked, Gated
<1>4. ASSUME StreamInv PROVE StreamInv'
  BY <1>0, <1>4
  DEF streamVars, StreamInv, StreamShape, ProducerInv, AttemptsInv, OnTheWay, AnswerInv, ConfigInv
<1>5. ASSUME PoolInv PROVE PoolInv'
  BY <1>0, <1>5 DEF poolVars, PoolInv, PoolShape, HoldsInv, BooksInv, HeldBy
<1>6. ASSUME AgentApiInv PROVE AgentApiInv'
  BY <1>0, <1>6
  DEF agentApiVars, AgentApiInv, AgentApiShape, RevokedStaysRevoked, TenantsApart, AdviceInv,
      AdviceHolds, Told
<1>7. ASSUME GovernanceInv PROVE GovernanceInv'
  BY <1>0, <1>7 DEF governanceVars, GovernanceInv, RulesInv, AskingInv, AuditInv, DenyHonoured
<1>8. ASSUME GuardrailsInv PROVE GuardrailsInv'
  <2>1. Pledged' = Pledged
    BY <1>0 DEF guardrailVars, Pledged
  <2>. QED
    BY <1>0, <1>8, <2>1
    DEF guardrailVars, GuardrailsInv, GuardShape, CountInv, InHand, PledgeInv, StopInv
<1>9. ASSUME ExecutionInv PROVE ExecutionInv'
  BY <1>0, <1>9
  DEF executionVars, ExecutionInv, ExecShape, CallsInv, OpenedInv, PullInv, SavedInv, Bound, OnBranch
<1>10. ASSUME AutonomyInv PROVE AutonomyInv'
  BY <1>0, <1>10
  DEF autonomyVars, AutonomyInv, AutonomyShape, StandingInv, Stands, EarnedByEvidence,
      SnapshotInv, Recorded, BackedInv, Backed, Improves
<1>. QED
  BY <1>0, <1>1, <1>2, <1>3, <1>4, <1>5, <1>6, <1>7, <1>8, <1>9, <1>10 DEF AccessInv

\* Every step keeps the invariant of the part that takes it.
LEMMA AccessStep == AccessInv /\ [AccessNext]_accessVars => AccessInv'
<1>. SUFFICES ASSUME AccessInv, [AccessNext]_accessVars PROVE AccessInv'
  OBVIOUS
<1>1. CASE UNCHANGED accessVars
  BY <1>1, AccessStays
<1>2. CASE AccessNext
  <2>0. part' = part
    BY <1>2 DEF AccessNext
  <2>1. CASE part = "api_keys" /\ ApiKeysNext
    BY <2>0, <2>1, ApiKeysStep DEF AccessInv
  <2>2. CASE part = "accounts" /\ FactorNext
    BY <2>0, <2>2, FactorStep DEF AccessInv
  <2>11. CASE part = "resets" /\ ResetNext
    BY <2>0, <2>11, ResetStep DEF AccessInv
  <2>3. CASE part = "pii" /\ PiiNext
    BY <2>0, <2>3, PiiStep DEF AccessInv
  <2>4. CASE part = "stream" /\ StreamNext
    BY <2>0, <2>4, StreamStep DEF AccessInv
  <2>5. CASE part = "pool" /\ PoolNext
    BY <2>0, <2>5, PoolStep DEF AccessInv
  <2>6. CASE part = "agent_api" /\ AgentApiNext
    BY <2>0, <2>6, AgentApiStep DEF AccessInv
  <2>7. CASE part = "governance" /\ GovernanceNext
    BY <2>0, <2>7, GovernanceStep DEF AccessInv
  <2>8. CASE part = "guardrails" /\ GuardrailsNext
    BY <2>0, <2>8, GuardrailsStep DEF AccessInv
  <2>9. CASE part = "execution" /\ ExecutionNext
    BY <2>0, <2>9, ExecutionStep DEF AccessInv
  <2>10. CASE part = "autonomy" /\ AutonomyNext
    BY <2>0, <2>10, AutonomyStep DEF AccessInv
  <2>. QED
    BY <1>2, <2>1, <2>2, <2>3, <2>4, <2>5, <2>6, <2>7, <2>8, <2>9, <2>10, <2>11 DEF AccessNext
<1>. QED
  BY <1>1, <1>2

\* Type correctness of every part: rows, calls and counters stay within what
\* their modules declare, for any number of requests, keys, rows and agents.
THEOREM AccessTypes == AccessSpec => []AccessTypeOK
<1>1. AccessInv => AccessTypeOK
  BY ApiKeysSafe, AccountsSafe, PiiSafe, StreamSafe, PoolSafe, AgentApiSafe, GovernanceSafe,
     GuardrailsSafe, ExecutionSafe, AutonomySafe
  DEF AccessInv, AccessTypeOK
<1>. QED
  BY AccessBegin, AccessStep, <1>1, PTL DEF AccessSpec

\* Recovery codes, time steps and reset links of accounts, telemetry events of
\* the guardrails and approvals of the execution service are used once,
\* whatever number of requests present them at the same time.
THEOREM UsedOnce == AccessSpec => []SingleUse
<1>1. AccessInv => SingleUse
  BY AccountsSafe, GuardrailsSafe, ExecutionSafe DEF AccessInv, SingleUse
<1>. QED
  BY AccessBegin, AccessStep, <1>1, PTL DEF AccessSpec

\* The limits that are checked before they are enforced: create_api_key's cap,
\* the lock-out of the second factor, check_budget, the hard budget of a task,
\* copies of a record in the topic, the connections of the pool.
THEOREM LimitsHold == AccessSpec => []Bounded
<1>1. AccessInv => Bounded
  BY ApiKeysSafe, AccountsSafe, AgentApiSafe, GuardrailsSafe, StreamSafe, PoolSafe
  DEF AccessInv, Bounded
<1>. QED
  BY AccessBegin, AccessStep, <1>1, PTL DEF AccessSpec

\* init_db drops no plaintext that was not copied and completes a drop that was
\* killed; an accepted batch is in the topic or in the producer's queue.
THEOREM NothingIsDropped == AccessSpec => []NothingDropped
<1>1. AccessInv => NothingDropped
  BY PiiSafe, StreamSafe DEF AccessInv, NothingDropped
<1>. QED
  BY AccessBegin, AccessStep, <1>1, PTL DEF AccessSpec

\* Tokens, deny rules, approvals, earned tiers and verified canaries hold when
\* they are used, although each is read before an await and used after it.
THEOREM ActsAuthorised == AccessSpec => []Authorised
<1>1. AccessInv => Authorised
  BY AgentApiSafe, StreamSafe, GovernanceSafe, ExecutionSafe, AutonomySafe
  DEF AccessInv, Authorised
<1>. QED
  BY AccessBegin, AccessStep, <1>1, PTL DEF AccessSpec

\* No look-up finds a key whose revocation is complete, no start undoes an
\* edited rule, nothing that begins after a stop revives the task, and a
\* completed result goes only by a call that had looked its slot up before it
\* was saved or was given the same execution_id with another key.
THEOREM StepsNeverTaken == AccessSpec => AccessStepsSafe
<1>1. AccessInv /\ [AccessNext]_accessVars =>
        [\A w \in Workers : (lookup'[w].stage = "found" /\ lookup[w].stage # "found")
                            => lookup'[w].key \notin dead]_apiKeyVars
  <2>. SUFFICES ASSUME AccessInv, AccessNext, apiKeyVars' # apiKeyVars, NEW w \in Workers,
                       lookup'[w].stage = "found", lookup[w].stage # "found"
                PROVE  lookup'[w].key \notin dead
    BY DEF accessVars
  <2>1. part = "api_keys" /\ ApiKeysNext
    BY DEF AccessNext
  <2>. QED
    BY <2>1, ApiKeysFound DEF AccessInv
<1>2. AccessInv /\ [AccessNext]_accessVars =>
        [\A p \in Policies : \A r \in rules[p] :
           \A s \in rules'[p] : s.version > r.version \/ s = r]_rules
  <2>. SUFFICES ASSUME AccessInv, AccessNext, rules' # rules
                PROVE  \A p \in Policies : \A r \in rules[p] :
                          \A s \in rules'[p] : s.version > r.version \/ s = r
    BY DEF accessVars, governanceVars
  <2>1. part = "governance" /\ GovernanceNext
    BY DEF AccessNext, governanceVars
  <2>. QED
    BY <2>1, GovernanceVersions DEF AccessInv
<1>3. AccessInv /\ [AccessNext]_accessVars =>
        [(state = "STOPPED" /\ state' # "STOPPED") => older' # older]_guardrailVars
  <2>. SUFFICES ASSUME AccessInv, AccessNext, guardrailVars' # guardrailVars,
                       state = "STOPPED", state' # "STOPPED"
                PROVE  older' # older
    BY DEF accessVars
  <2>1. part = "guardrails" /\ GuardrailsNext
    BY DEF AccessNext
  <2>. QED
    BY <2>1, GuardrailsStopped DEF AccessInv
<1>4. AccessInv /\ [AccessNext]_accessVars =>
        [\A k \in RecordSlots : \A r \in Completed(k) : r \notin saved'[k] =>
            \E c \in Calls : /\ call[c].at # "idle" /\ call'[c].at = "idle"
                             /\ c \in beside[k] \/ (call[c].slot # k /\ call[c].id = r.id)]_executionVars
  <2>. SUFFICES ASSUME AccessInv, AccessNext, executionVars' # executionVars, NEW k \in RecordSlots,
                       NEW r \in Completed(k), r \notin saved'[k]
                PROVE  \E c \in Calls : /\ call[c].at # "idle" /\ call'[c].at = "idle"
                                        /\ c \in beside[k] \/ (call[c].slot # k /\ call[c].id = r.id)
    BY DEF accessVars
  <2>1. part = "execution" /\ ExecutionNext
    BY DEF AccessNext
  <2>. QED
    BY <2>1, ExecutionCompleted DEF AccessInv
<1>. QED
  BY AccessBegin, AccessStep, <1>1, <1>2, <1>3, <1>4, PTL
  DEF AccessSpec, AccessStepsSafe, RevokedNotFound, RuleVersioned, StoppedStays, CompletedStays

=============================================================================
