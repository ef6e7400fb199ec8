---------------------------- MODULE Hosted_proofs ----------------------------
(***************************************************************************)
(* The components of MCHosted for any number of requests, links, users,    *)
(* rows, events and passes.                                                *)
(***************************************************************************)
EXTENDS MCHosted, SumTheorems

-----------------------------------------------------------------------------
(* Actions.  A consumed link is in used_action_tokens, one request works   *)
(* on it and it has not acted yet (UseInv); a cap that was read and has    *)
(* not gone stale is the cap that holds (CapInv).                          *)

CapRead == IF ResolvedCap = 0 THEN FreeCap ELSE ResolvedCap

ActionsShape ==
    /\ linkState \in [ActionLinks -> [kind : RemedyKinds \cup {"none"}, live : BOOLEAN]]
    /\ \A l \in ActionLinks : linkState[l].live => linkState[l].kind # "none"
    /\ usedLinks \subseteq ActionLinks /\ planCap \in PlanCaps
    /\ capOverride = {} \/ \E x \in 1..MaxCapLevel : capOverride = {x}
    /\ keyPaused \in BOOLEAN /\ downgrading \in BOOLEAN /\ activityLog \subseteq RemedyKinds
    /\ executed \in [ActionLinks -> Nat]
    /\ click \in [Clicks -> {NoClick} \cup [at : {"verified", "consumed"}, link : ActionLinks]
                              \cup [at : {"read"}, link : ActionLinks, cap : Nat \ {0}, stale : BOOLEAN]]
    /\ \A c \in Clicks : click[c].at # "idle" => linkState[click[c].link].kind # "none"

Working(c, l) == click[c].at \in {"consumed", "read"} /\ click[c].link = l

UseInv ==
    \A l \in ActionLinks :
        /\ executed[l] <= 1 /\ (executed[l] > 0 => l \in usedLinks)
        /\ \A c \in Clicks : Working(c, l) => l \in usedLinks /\ executed[l] = 0
        /\ \A c, d \in Clicks : Working(c, l) /\ Working(d, l) => c = d

CapInv ==
    /\ ~lowered
    /\ \A c \in Clicks : click[c].at = "read" /\ ~click[c].stale => click[c].cap = CapRead

ActionsInv == ActionsShape /\ UseInv /\ CapInv

ClickStates ==
    {NoClick} \cup [at : {"verified", "consumed"}, link : ActionLinks]
      \cup [at : {"read"}, link : ActionLinks, cap : Nat \ {0}, stale : BOOLEAN]

\* A request that is under way has a link, one that has read also a cap.
LEMMA ClickHeld ==
    ASSUME ActionsShape, NEW c \in Clicks
    PROVE  /\ click[c].at \in {"idle", "verified", "consumed", "read"}
           /\ click[c].at = "idle" <=> click[c] = NoClick
           /\ click[c].at # "idle" => click[c].link \in ActionLinks
           /\ click[c].at = "read" => click[c].cap \in Nat \ {0} /\ click[c].stale \in BOOLEAN
BY DEF ActionsShape, NoClick

\* One request changes.
LEMMA ClickMoves ==
    ASSUME ActionsShape, NEW c \in Clicks, NEW q \in ClickStates, click' = [click EXCEPT ![c] = q]
    PROVE  /\ click' \in [Clicks -> ClickStates] /\ click'[c] = q
           /\ \A d \in Clicks : d # c => click'[d] = click[d]
BY DEF ActionsShape, ClickStates

\* A stale reader is a reader of the same link and cap.
LEMMA StaleHeld ==
    ASSUME ActionsShape, NEW c \in Clicks
    PROVE  /\ Stale(click[c]) \in ClickStates
           /\ Stale(click[c]).at = click[c].at
           /\ click[c].at # "idle" => Stale(click[c]).link = click[c].link
           /\ click[c].at = "read" => Stale(click[c]).stale /\ Stale(click[c]).cap = click[c].cap
<1>1. click[c] \in ClickStates
  BY DEF ActionsShape, ClickStates
<1>2. CASE click[c].at # "read"
  BY <1>1, <1>2 DEF Stale
<1>3. CASE click[c].at = "read"
  <2>1. click[c] \in [at : {"read"}, link : ActionLinks, cap : Nat \ {0}, stale : BOOLEAN]
    BY <1>1, <1>3 DEF ClickStates, NoClick
  <2>2. Stale(click[c]) = [click[c] EXCEPT !.stale = TRUE]
    BY <1>3 DEF Stale
  <2>3. /\ Stale(click[c]).at = "read" /\ Stale(click[c]).link = click[c].link
        /\ Stale(click[c]).cap = click[c].cap /\ Stale(click[c]).stale
        /\ Stale(click[c]) \in [at : {"read"}, link : ActionLinks, cap : Nat \ {0}, stale : BOOLEAN]
    BY <2>1, <2>2
  <2>. QED
    BY <1>3, <2>3 DEF ClickStates
<1>. QED
  BY <1>2, <1>3

\* No link, no request.
LEMMA ActionsBegin == ActionsInit => ActionsInv
<1>. SUFFICES ASSUME ActionsInit PROVE ActionsInv
  OBVIOUS
<1>1. \A c \in Clicks : click[c] = NoClick /\ click[c].at = "idle"
  BY DEF ActionsInit, NoClick
<1>2. click \in [Clicks -> {NoClick}]
  BY DEF ActionsInit
<1>3. linkState \in [ActionLinks -> [kind : RemedyKinds \cup {"none"}, live : BOOLEAN]]
  BY DEF ActionsInit
<1>4. \A l \in ActionLinks : linkState[l].live => linkState[l].kind # "none"
  BY DEF ActionsInit
<1>5. ActionsShape
  BY <1>1, <1>2, <1>3, <1>4 DEF ActionsInit, ActionsShape
<1>6. UseInv
  BY <1>1 DEF ActionsInit, UseInv, Working
<1>7. CapInv
  BY <1>1 DEF ActionsInit, CapInv
<1>. QED
  BY <1>5, <1>6, <1>7 DEF ActionsInv

\* The cap of the workspace, and the one a raise starts from.
LEMMA CapHeld ==
    ASSUME ActionsShape
    PROVE  ResolvedCap \in Nat /\ CapRead \in Nat \ {0} /\ CapRead >= ResolvedCap
<1>1. planCap \in Nat
  BY ActionsAssumption DEF ActionsShape
<1>2. ResolvedCap \in Nat
  <2>1. CASE capOverride = {}
    BY <1>1, <2>1 DEF ResolvedCap
  <2>2. CASE capOverride # {}
    <3>1. PICK x \in 1..MaxCapLevel : capOverride = {x}
      BY <2>2 DEF ActionsShape
    <3>2. ResolvedCap = x
      BY <3>1 DEF ResolvedCap
    <3>. QED
      BY <3>2, ActionsAssumption
  <2>. QED
    BY <2>1, <2>2
<1>. QED
  BY <1>2, ActionsAssumption DEF CapRead

\* Half as much again is not less.
LEMMA RaisedMore == ASSUME NEW x \in Nat \ {0} PROVE (x * 3) \div 2 \in Nat /\ (x * 3) \div 2 >= x
OBVIOUS

\* Steps of one request on its link.
LEMMA ActionsStepUse ==
    ASSUME ActionsInv, NEW c \in Clicks,
           \/ \E l \in ActionLinks : VerifyActionToken(c, l)
           \/ \E ok \in BOOLEAN : ConsumeActionToken(c, ok)
           \/ HandlePause(c) \/ HandleDowngrade(c) \/ ReadCap(c) \/ ClickDies(c)
    PROVE  ActionsInv'
<1>0. ActionsShape /\ UseInv /\ CapInv
  BY DEF ActionsInv
<1>1. ASSUME NEW l \in ActionLinks, VerifyActionToken(c, l) PROVE ActionsInv'
  <2>. DEFINE q == [at |-> "verified", link |-> l]
  <2>1. q \in ClickStates /\ click' = [click EXCEPT ![c] = q] /\ linkState[l].kind # "none"
    BY <1>0, <1>1 DEF VerifyActionToken, ClickStates, ActionsShape
  <2>2. /\ click' \in [Clicks -> ClickStates] /\ click'[c] = q
        /\ \A d \in Clicks : d # c => click'[d] = click[d]
    BY <1>0, <2>1, ClickMoves
  <2>. QED
    BY <1>0, <1>1, <2>1, <2>2
    DEF VerifyActionToken, ActionsInv, ActionsShape, UseInv, CapInv, Working, CapRead, ResolvedCap, ClickStates
<1>2. ASSUME click' = [click EXCEPT ![c] = NoClick],
             UNCHANGED <<linkState, usedLinks, planCap, capOverride, keyPaused, downgrading,
                         activityLog, executed, lowered>>
      PROVE  ActionsInv'
  <2>2. /\ click' \in [Clicks -> ClickStates] /\ click'[c] = NoClick
        /\ \A d \in Clicks : d # c => click'[d] = click[d]
    BY <1>0, <1>2, ClickMoves DEF ClickStates
  <2>. QED
    BY <1>0, <1>2, <2>2
    DEF ActionsInv, ActionsShape, UseInv, CapInv, Working, CapRead, ResolvedCap, ClickStates, NoClick
<1>3. ASSUME NEW ok \in BOOLEAN, ConsumeActionToken(c, ok) PROVE ActionsInv'
  <2>. DEFINE l == click[c].link
              q == [at |-> "consumed", link |-> l]
  <2>1. CASE ok /\ l \notin usedLinks
    <3>1. l \in ActionLinks /\ click[c] \in [at : {"verified"}, link : ActionLinks]
      BY <1>0, <1>3 DEF ConsumeActionToken, ActionsShape, NoClick
    <3>2. click' = [click EXCEPT ![c] = q] /\ usedLinks' = usedLinks \cup {l}
      BY <1>3, <2>1, <3>1 DEF ConsumeActionToken, Consumable
    <3>3. /\ click' \in [Clicks -> ClickStates] /\ click'[c] = q
          /\ \A d \in Clicks : d # c => click'[d] = click[d]
      BY <1>0, <3>1, <3>2, ClickMoves DEF ClickStates
    <3>4. linkState[l].kind # "none" /\ executed[l] = 0 /\ \A d \in Clicks : ~Working(d, l)
      <4>1. click[c].at # "idle"
        BY <3>1
      <4>2. executed[l] \in Nat
        BY <1>0, <3>1 DEF ActionsShape
      <4>. QED
        BY <1>0, <2>1, <3>1, <4>1, <4>2 DEF ActionsShape, UseInv
    <3>5. ActionsShape'
      BY <1>0, <1>3, <3>1, <3>2, <3>3, <3>4 DEF ConsumeActionToken, ActionsShape, ClickStates
    <3>6. UseInv'
      BY <1>0, <1>3, <3>1, <3>2, <3>3, <3>4 DEF ConsumeActionToken, UseInv, Working
    <3>7. CapInv'
      BY <1>0, <1>3, <3>3 DEF ConsumeActionToken, CapInv, CapRead, ResolvedCap
    <3>. QED
      BY <3>5, <3>6, <3>7 DEF ActionsInv
  <2>2. CASE ~(ok /\ l \notin usedLinks)
    BY <1>2, <1>3, <2>2 DEF ConsumeActionToken, Consumable
  <2>. QED
    BY <2>1, <2>2
<1>4. ASSUME HandlePause(c) \/ HandleDowngrade(c) PROVE ActionsInv'
  <2>. DEFINE l == click[c].link
  <2>1. /\ click[c].at = "consumed" /\ l \in ActionLinks /\ KindOf(c) \in RemedyKinds
        /\ click' = [click EXCEPT ![c] = NoClick]
        /\ executed' = [executed EXCEPT ![l] = @ + 1]
        /\ activityLog' \in {activityLog, activityLog \cup {KindOf(c)}}
        /\ UNCHANGED <<linkState, usedLinks, planCap, capOverride, lowered>>
    BY <1>0, <1>4, ClickHeld DEF HandlePause, HandleDowngrade, Done, RemedyKinds
  <2>2. /\ click' \in [Clicks -> ClickStates] /\ click'[c] = NoClick
        /\ \A d \in Clicks : d # c => click'[d] = click[d]
    BY <1>0, <2>1, ClickMoves DEF ClickStates
  <2>3. Working(c, l) /\ executed[l] = 0 /\ l \in usedLinks /\ \A d \in Clicks : Working(d, l) => d = c
    BY <1>0, <2>1 DEF UseInv, Working
  <2>4. keyPaused' \in BOOLEAN /\ downgrading' \in BOOLEAN
    BY <1>0, <1>4 DEF HandlePause, HandleDowngrade, ActionsShape
  <2>5. ActionsShape'
    BY <1>0, <2>1, <2>2, <2>4 DEF ActionsShape, ClickStates, NoClick
  <2>6. UseInv'
    BY <1>0, <2>1, <2>2, <2>3 DEF UseInv, Working, NoClick, ActionsShape
  <2>7. CapInv'
    BY <1>0, <2>1, <2>2 DEF CapInv, CapRead, ResolvedCap, NoClick
  <2>. QED
    BY <2>5, <2>6, <2>7 DEF ActionsInv
<1>5. CASE ReadCap(c)
  <2>. DEFINE q == [at |-> "read", link |-> click[c].link, cap |-> CapRead, stale |-> FALSE]
  <2>1. click[c].at = "consumed" /\ click[c].link \in ActionLinks /\ click' = [click EXCEPT ![c] = q]
    BY <1>0, <1>5, ClickHeld DEF ReadCap, CapRead
  <2>2. q \in ClickStates
    BY <1>0, <2>1, CapHeld DEF ClickStates
  <2>3. /\ click' \in [Clicks -> ClickStates] /\ click'[c] = q
        /\ \A d \in Clicks : d # c => click'[d] = click[d]
    <3>. HIDE DEF q
    <3>. QED
      BY <1>0, <2>1, <2>2, ClickMoves
  <2>4. ActionsShape'
    BY <1>0, <1>5, <2>1, <2>3 DEF ReadCap, ActionsShape, ClickStates
  <2>5. UseInv'
    BY <1>0, <1>5, <2>1, <2>3 DEF ReadCap, UseInv, Working
  <2>6. CapRead' = CapRead
    BY <1>5 DEF ReadCap, CapRead, ResolvedCap
  <2>7. CapInv'
    BY <1>0, <1>5, <2>3, <2>6 DEF ReadCap, CapInv
  <2>. QED
    BY <2>4, <2>5, <2>7 DEF ActionsInv
<1>6. CASE ClickDies(c)
  BY <1>2, <1>6 DEF ClickDies
<1>. QED
  BY <1>1, <1>3, <1>4, <1>5, <1>6

\* A raise: the update of limit_overrides.
LEMMA ActionsStepRaise == ASSUME ActionsInv, NEW c \in Clicks, WriteCap(c) PROVE ActionsInv'
<1>0. ActionsShape /\ UseInv /\ CapInv
  BY DEF ActionsInv
<1>. DEFINE l == click[c].link
            raised == (click[c].cap * 3) \div 2
<1>1. /\ click[c].at = "read" /\ l \in ActionLinks
      /\ click[c].cap \in Nat \ {0} /\ click[c].stale \in BOOLEAN
  BY <1>0, ClickHeld DEF WriteCap
<1>2. raised \in Nat /\ raised >= click[c].cap /\ raised <= MaxCapLevel /\ capOverride' = {raised}
  BY <1>1, RaisedMore DEF WriteCap
<1>. HIDE DEF raised
<1>3. \A d \in Clicks : click'[d] = IF d = c THEN NoClick ELSE Stale(click[d])
  BY DEF WriteCap, OthersStale
<1>4. click' \in [Clicks -> ClickStates]
  <2>1. NoClick \in ClickStates /\ click' = [d \in Clicks |-> IF d = c THEN NoClick ELSE Stale(click[d])]
    BY DEF WriteCap, OthersStale, ClickStates
  <2>. QED
    BY <1>0, <2>1, StaleHeld
<1>5. ~lowered'
  <2>1. raised < ResolvedCap => click[c].stale
    BY <1>0, <1>1, <1>2, CapHeld DEF CapInv
  <2>2. lowered' = (lowered \/ (raised < ResolvedCap /\ ~click[c].stale))
    BY DEF WriteCap, ResolvedCap, raised
  <2>. QED
    BY <1>0, <2>1, <2>2 DEF CapInv
<1>6. Working(c, l) /\ executed[l] = 0 /\ l \in usedLinks /\ \A d \in Clicks : Working(d, l) => d = c
  BY <1>0, <1>1 DEF UseInv, Working
<1>7. executed' = [executed EXCEPT ![l] = @ + 1] /\ activityLog' \subseteq RemedyKinds
  BY <1>0 DEF WriteCap, ActionsShape, RemedyKinds
<1>8. \A d \in Clicks : /\ click'[d].at # "idle" => click[d].at # "idle" /\ click'[d].link = click[d].link
                        /\ click'[d].at = "read" => click'[d].stale
                        /\ click'[d].at # "idle" => d # c /\ click'[d].at = click[d].at
  BY <1>0, <1>3, StaleHeld DEF NoClick
<1>9. ActionsShape'
  <2>1. capOverride' = {} \/ \E x \in 1..MaxCapLevel : capOverride' = {x}
    BY <1>1, <1>2, ActionsAssumption
  <2>2. UNCHANGED <<linkState, usedLinks, planCap, keyPaused, downgrading>>
    BY DEF WriteCap
  <2>3. executed' \in [ActionLinks -> Nat]
    BY <1>0, <1>1, <1>7 DEF ActionsShape
  <2>4. \A d \in Clicks : click'[d].at # "idle" => linkState'[click'[d].link].kind # "none"
    BY <1>0, <1>8, <2>2 DEF ActionsShape
  <2>. HIDE DEF l
  <2>. QED
    BY <1>0, <1>4, <1>7, <2>1, <2>2, <2>3, <2>4 DEF ActionsShape, ClickStates
<1>10. UseInv'
  <2>1. \A d \in Clicks, k \in ActionLinks : Working(d, k)' => Working(d, k) /\ d # c
    BY <1>8 DEF Working
  <2>. QED
    BY <1>0, <1>1, <1>6, <1>7, <2>1 DEF WriteCap, UseInv, ActionsShape
<1>11. CapInv'
  BY <1>5, <1>8 DEF CapInv
<1>. QED
  BY <1>9, <1>10, <1>11 DEF ActionsInv

\* The other steps leave the requests alone, or make their caps stale.
LEMMA ActionsStep == ASSUME ActionsInv, ActionsNext PROVE ActionsInv'
<1>0. ActionsShape /\ UseInv /\ CapInv
  BY DEF ActionsInv
<1>1. ASSUME NEW l \in ActionLinks, NEW kind \in RemedyKinds, CreateActionToken(l, kind)
      PROVE  ActionsInv'
  <2>1. /\ linkState[l].kind = "none" /\ linkState' = [linkState EXCEPT ![l] = [kind |-> kind, live |-> TRUE]]
        /\ UNCHANGED <<usedLinks, click, planCap, capOverride, keyPaused, downgrading, activityLog, executed, lowered>>
    BY <1>1 DEF CreateActionToken
  <2>2. /\ linkState' \in [ActionLinks -> [kind : RemedyKinds \cup {"none"}, live : BOOLEAN]]
        /\ \A k \in ActionLinks : linkState'[k].live => linkState'[k].kind # "none"
        /\ \A k \in ActionLinks : linkState[k].kind # "none" => linkState'[k].kind # "none"
    BY <1>0, <2>1 DEF ActionsShape, RemedyKinds
  <2>3. \A c \in Clicks : click'[c].at # "idle" => linkState'[click'[c].link].kind # "none"
    BY <1>0, <2>1, <2>2, ClickHeld DEF ActionsShape
  <2>4. ActionsShape'
    BY <1>0, <2>1, <2>2, <2>3 DEF ActionsShape
  <2>5. UseInv'
    BY <1>0, <2>1 DEF UseInv, Working
  <2>6. CapInv'
    BY <1>0, <2>1 DEF CapInv, CapRead, ResolvedCap
  <2>. QED
    BY <2>4, <2>5, <2>6 DEF ActionsInv
<1>2. ASSUME NEW l \in ActionLinks, ActionTokenExpires(l) PROVE ActionsInv'
  <2>1. /\ linkState' = [linkState EXCEPT ![l].live = FALSE]
        /\ UNCHANGED <<usedLinks, click, planCap, capOverride, keyPaused, downgrading, activityLog, executed, lowered>>
    BY <1>2 DEF ActionTokenExpires
  <2>2. /\ linkState' \in [ActionLinks -> [kind : RemedyKinds \cup {"none"}, live : BOOLEAN]]
        /\ \A k \in ActionLinks : linkState'[k].kind = linkState[k].kind
        /\ \A k \in ActionLinks : linkState'[k].live => linkState[k].live
    BY <1>0, <2>1 DEF ActionsShape
  <2>3. \A c \in Clicks : click'[c].at # "idle" => linkState'[click'[c].link].kind # "none"
    BY <1>0, <2>1, <2>2, ClickHeld DEF ActionsShape
  <2>4. ActionsShape'
    BY <1>0, <2>1, <2>2, <2>3 DEF ActionsShape
  <2>5. UseInv'
    BY <1>0, <2>1 DEF UseInv, Working
  <2>6. CapInv'
    BY <1>0, <2>1 DEF CapInv, CapRead, ResolvedCap
  <2>. QED
    BY <2>4, <2>5, <2>6 DEF ActionsInv
<1>3. ASSUME click' = [d \in Clicks |-> Stale(click[d])]
      PROVE  /\ click' \in [Clicks -> ClickStates]
             /\ \A d \in Clicks : /\ click'[d].at # "idle" => click'[d].link = click[d].link
                                  /\ click'[d].at = "read" => click'[d].stale
                                  /\ click'[d].at = click[d].at
  BY <1>0, <1>3, StaleHeld
<1>4. ASSUME NEW kind \in RemedyKinds, RevertAction(kind) PROVE ActionsInv'
  <2>1. CASE kind = "increase_budget"
    <3>1. /\ click' = [d \in Clicks |-> Stale(click[d])] /\ capOverride' = {}
          /\ keyPaused' \in BOOLEAN /\ downgrading' \in BOOLEAN
          /\ UNCHANGED <<linkState, usedLinks, planCap, activityLog, executed, lowered>>
      BY <1>0, <1>4, <2>1 DEF RevertAction, ActionsShape
    <3>2. /\ click' \in [Clicks -> ClickStates]
          /\ \A d \in Clicks : /\ click'[d].at # "idle" => click'[d].link = click[d].link
                               /\ click'[d].at = "read" => click'[d].stale
                               /\ click'[d].at = click[d].at
      BY <1>3, <3>1
    <3>3. ActionsShape'
      BY <1>0, <3>1, <3>2 DEF ActionsShape, ClickStates
    <3>4. UseInv'
      BY <1>0, <3>1, <3>2 DEF UseInv, Working
    <3>5. CapInv'
      BY <1>0, <3>1, <3>2 DEF CapInv
    <3>. QED
      BY <3>3, <3>4, <3>5 DEF ActionsInv
  <2>2. CASE kind # "increase_budget"
    BY <1>0, <1>4, <2>2
    DEF RevertAction, ActionsInv, ActionsShape, UseInv, CapInv, Working, CapRead, ResolvedCap
  <2>. QED
    BY <2>1, <2>2
<1>5. ASSUME NEW cap \in PlanCaps, PlanMoves(cap) PROVE ActionsInv'
  BY <1>0, <1>3, <1>5
  DEF PlanMoves, ActionsInv, ActionsShape, UseInv, CapInv, Working, ClickStates
<1>. QED
  BY <1>1, <1>2, <1>4, <1>5, ActionsStepUse, ActionsStepRaise DEF ActionsNext

\* What follows for the properties of the actions.
LEMMA ActionsSafe == ActionsInv => ActionsTypeOK /\ ActionOnce /\ RaiseRaises
<1>. SUFFICES ASSUME ActionsInv PROVE ActionsTypeOK /\ ActionOnce /\ RaiseRaises
  OBVIOUS
<1>0. ActionsShape /\ UseInv /\ CapInv
  BY DEF ActionsInv
<1>1. Cardinality(capOverride) <= 1 /\ capOverride \subseteq 1..MaxCapLevel
  <2>1. CASE capOverride = {}
    BY <2>1, FS_EmptySet
  <2>2. CASE capOverride # {}
    <3>1. PICK x \in 1..MaxCapLevel : capOverride = {x}
      BY <1>0, <2>2 DEF ActionsShape
    <3>. QED
      BY <3>1, FS_Singleton
  <2>. QED
    BY <2>1, <2>2
<1>2. ActionsTypeOK
  BY <1>0, <1>1, ClickHeld DEF ActionsShape, ActionsTypeOK
<1>. QED
  BY <1>0, <1>2 DEF UseInv, CapInv, ActionOnce, RaiseRaises

-----------------------------------------------------------------------------
(* Team.  A change that was checked and is not stale still leaves an owner *)
(* (OwnerInv).  Each join is charged to an invitation and a request that   *)
(* is past its join, or, once the invitation is closed, to one that can no *)
(* longer join, or it is one of those whose mark was cut off (JoinInv).    *)

InviteStates == {"none", "open", "accepted", "expired"}
Changes == [op : {"change"}, user : Users, role : Roles \cup {"none"}, row : Nat, stale : BOOLEAN]
Accepts == [op : {"accept", "join"}, user : Users, role : {"viewer", "admin"}, n : 1..MaxInvites]
Marks == [op : {"mark"}, user : Users, n : 1..MaxInvites, joined : BOOLEAN]

TeamShape ==
    /\ member \in [Users -> Roles \cup {"none"}] /\ admins \subseteq Users
    /\ invite \in [Users -> [1..MaxInvites -> [state : InviteStates, role : {"viewer", "admin"}]]]
    /\ handler \in [Slots -> {Free} \cup Changes \cup Accepts \cup Marks]
    /\ raced \in BOOLEAN /\ joins \in [Users -> Nat] /\ issued \in [Users -> 0..MaxInvites]
    /\ unmarked \in [Users -> 0..MaxUnmarked]

OwnerInv ==
    raced \/
    /\ \E w \in Users : member[w] = "owner"
    /\ \A s \in Slots :
         LET h == handler[s] IN
         h.op = "change" /\ ~h.stale /\ h.role # "owner" =>
             \E w \in Users : w # h.user /\ member[w] = "owner"

\* Where a request stands: before its join, between a join of its own and the
\* mark, or before the mark of somebody who was a member already.
Stage(h) == IF h.op \in {"accept", "join"} THEN "accept"
            ELSE IF h.op = "mark" THEN IF h.joined THEN "mark" ELSE "skip" ELSE "none"
Stages == {"accept", "mark", "skip"}

At(op, u, n) == {s \in Slots : Stage(handler[s]) = op /\ handler[s].user = u /\ handler[s].n = n}

Charged(u, n) ==
    IF invite[u][n].state = "none" THEN 0
    ELSE IF invite[u][n].state = "open" THEN Cardinality(At("mark", u, n))
    ELSE Cardinality(Slots) - Cardinality(At("accept", u, n))

Charges(u) == [n \in 1..MaxInvites |-> Charged(u, n)]

JoinInv ==
    \A u \in Users :
        /\ joins[u] <= SumFunctionOnSet(Charges(u), 1..MaxInvites) + unmarked[u]
        /\ \A n \in 1..MaxInvites :
             /\ invite[u][n].state # "none" <=> n <= issued[u]
             /\ invite[u][n].state = "none" => \A op \in Stages : At(op, u, n) = {}

TeamInv == TeamShape /\ OwnerInv /\ JoinInv

HandlerStates == {Free} \cup Changes \cup Accepts \cup Marks

\* What a request carries at each of its steps.
LEMMA HandlerHeld ==
    ASSUME TeamShape, NEW s \in Slots
    PROVE  /\ handler[s].op \in {"free", "change", "accept", "join", "mark"}
           /\ handler[s].op = "free" => handler[s] = Free
           /\ handler[s].op = "change" => handler[s] \in Changes
           /\ handler[s].op \in {"accept", "join"} => handler[s] \in Accepts
           /\ handler[s].op = "mark" => handler[s] \in Marks
BY DEF TeamShape, Free, Changes, Accepts, Marks

\* One request changes.
LEMMA HandlerMoves ==
    ASSUME TeamShape, NEW s \in Slots, NEW q \in HandlerStates, handler' = [handler EXCEPT ![s] = q]
    PROVE  /\ handler' \in [Slots -> HandlerStates] /\ handler'[s] = q
           /\ \A t \in Slots : t # s => handler'[t] = handler[t]
BY DEF TeamShape, HandlerStates

\* The requests at a step of an invitation, and those at two steps.
LEMMA AtBounds ==
    ASSUME NEW u, NEW n
    PROVE  /\ Cardinality(Slots) \in Nat
           /\ \A op \in {"accept", "mark"} : /\ IsFiniteSet(At(op, u, n))
                                            /\ Cardinality(At(op, u, n)) \in Nat
                                            /\ Cardinality(At(op, u, n)) <= Cardinality(Slots)
           /\ Cardinality(At("accept", u, n)) + Cardinality(At("mark", u, n)) <= Cardinality(Slots)
<1>0. IsFiniteSet(Slots) /\ Cardinality(Slots) \in Nat
  BY TeamAssumption, FS_CardinalityType
<1>1. \A op : At(op, u, n) \subseteq Slots
  BY DEF At
<1>2. \A op : IsFiniteSet(At(op, u, n)) /\ Cardinality(At(op, u, n)) <= Cardinality(Slots)
  BY <1>0, <1>1, FS_Subset
<1>3. \A op : Cardinality(At(op, u, n)) \in Nat
  BY <1>2, FS_CardinalityType
<1>. DEFINE A == At("accept", u, n)
            M == At("mark", u, n)
<1>4. A \cap M = {} /\ A \cup M \subseteq Slots
  BY DEF At
<1>5. Cardinality(A \cup M) <= Cardinality(Slots)
  BY <1>0, <1>4, FS_Subset
<1>6. Cardinality(A \cup M) = Cardinality(A) + Cardinality(M)
  <2>. HIDE DEF A, M
  <2>1. IsFiniteSet(A) /\ IsFiniteSet(M) /\ Cardinality(A) \in Nat /\ Cardinality(M) \in Nat
    BY <1>2, <1>3 DEF A, M
  <2>2. Cardinality(A \cup M) = Cardinality(A) + Cardinality(M) - Cardinality(A \cap M)
    BY <2>1, FS_Union
  <2>3. Cardinality(A \cap M) = 0
    BY <1>4, FS_EmptySet
  <2>. QED
    BY <2>1, <2>2, <2>3
<1>. QED
  BY <1>0, <1>2, <1>3, <1>5, <1>6

\* A charge is a number of requests.
ChargesCount == \A u, n : Charged(u, n) \in Nat /\ Charged(u, n) <= Cardinality(Slots)
\* What a request is charged is a number.
LEMMA ChargedNat == ChargesCount
BY AtBounds DEF Charged, ChargesCount

\* The sum of the charges when one charge changes.
LEMMA ChargesMove ==
    ASSUME NEW u, NEW n \in 1..MaxInvites,
           \A m \in 1..MaxInvites : m # n => Charged(u, m)' = Charged(u, m)
    PROVE  /\ SumFunctionOnSet(Charges(u), 1..MaxInvites) \in Nat
           /\ SumFunctionOnSet(Charges(u)', 1..MaxInvites) =
                SumFunctionOnSet(Charges(u), 1..MaxInvites) - Charged(u, n) + Charged(u, n)'
<1>. DEFINE f == Charges(u)
            g == Charges(u)'
            S == 1..MaxInvites
<1>0. MaxInvites \in Nat /\ IsFiniteSet(S)
  BY TeamAssumption, FS_Interval
<1>1. \A m \in S : f[m] = Charged(u, m) /\ g[m] = Charged(u, m)'
  BY DEF Charges
<1>2. \A m \in S : Charged(u, m) \in Nat /\ Charged(u, m)' \in Nat
  <2>1. ChargesCount'
    BY ChargedNat, PTL
  <2>. QED
    BY <2>1, ChargedNat DEF ChargesCount
<1>. HIDE DEF f, g, S
<1>3. \A m \in S : f[m] \in Nat /\ g[m] \in Nat /\ f[m] \in Int /\ g[m] \in Int
  BY <1>1, <1>2
<1>4. \A m \in S : m # n => f[m] = g[m]
  BY <1>1 DEF S
<1>5. n \in S
  BY DEF S
<1>6. SumFunctionOnSet(g, S) = SumFunctionOnSet(f, S) - f[n] + g[n]
  BY <1>0, <1>3, <1>4, <1>5, SumUpdate
<1>7. SumFunctionOnSet(f, S) \in Nat
  BY <1>0, <1>3, SumNat
<1>. QED
  BY <1>1, <1>5, <1>6, <1>7 DEF f, g, S

\* Charges that stay.
LEMMA ChargesStay ==
    ASSUME NEW u, \A m \in 1..MaxInvites : Charged(u, m)' = Charged(u, m)
    PROVE  SumFunctionOnSet(Charges(u)', 1..MaxInvites) = SumFunctionOnSet(Charges(u), 1..MaxInvites)
BY DEF Charges


\* What an invitation can be charged to is counted over its requests: a step
\* of one request leaves the other invitations alone.
LEMMA AtMoves ==
    ASSUME TeamShape, NEW s \in Slots, \A t \in Slots : t # s => handler'[t] = handler[t],
           NEW u, NEW n, NEW op,
           ~(Stage(handler[s]) = op /\ handler[s].user = u /\ handler[s].n = n),
           ~(Stage(handler'[s]) = op /\ handler'[s].user = u /\ handler'[s].n = n)
    PROVE  At(op, u, n)' = At(op, u, n)
BY DEF At

\* A workspace has an owner when it begins, and nobody was invited.
LEMMA TeamBegin == TeamInit => TeamInv
<1>. SUFFICES ASSUME TeamInit PROVE TeamInv
  OBVIOUS
<1>1. PICK O \in (SUBSET Users) \ {{}} : member = [u \in Users |-> IF u \in O THEN "owner" ELSE "none"]
  BY DEF TeamInit
<1>2. member \in [Users -> Roles \cup {"none"}] /\ \E w \in Users : member[w] = "owner"
  BY <1>1 DEF Roles
<1>3. invite \in [Users -> [1..MaxInvites -> [state : InviteStates, role : {"viewer", "admin"}]]]
  BY DEF TeamInit, NoInvite, InviteStates
<1>4. TeamShape
  <2>1. handler \in [Slots -> {Free}] /\ joins \in [Users -> Nat] /\ admins \subseteq Users /\ raced = FALSE
    BY DEF TeamInit
  <2>2. issued \in [Users -> 0..MaxInvites] /\ unmarked \in [Users -> 0..MaxUnmarked]
    BY TeamAssumption DEF TeamInit
  <2>. QED
    BY <1>2, <1>3, <2>1, <2>2 DEF TeamShape
<1>5. \A s \in Slots : handler[s].op = "free"
  BY DEF TeamInit, Free
<1>6. OwnerInv
  BY <1>2, <1>5 DEF OwnerInv
<1>7. \A u \in Users, n \in 1..MaxInvites : /\ invite[u][n].state = "none"
                                            /\ \A op \in Stages : At(op, u, n) = {}
  BY <1>5 DEF TeamInit, NoInvite, At, Stage, Stages
<1>8. \A u \in Users : SumFunctionOnSet(Charges(u), 1..MaxInvites) \in Nat
  <2>1. TAKE u \in Users
  <2>2. IsFiniteSet(1..MaxInvites) /\ \A n \in 1..MaxInvites : Charges(u)[n] \in Nat
    <3>1. IsFiniteSet(1..MaxInvites)
      BY TeamAssumption, FS_Interval
    <3>. QED
      BY <3>1, ChargedNat DEF Charges, ChargesCount
  <2>. QED
    BY <2>2, SumNat
<1>9. JoinInv
  <2>1. \A u \in Users : joins[u] = 0 /\ issued[u] = 0 /\ unmarked[u] = 0
    BY DEF TeamInit
  <2>. QED
    BY <1>7, <1>8, <2>1 DEF JoinInv
<1>. QED
  BY <1>4, <1>6, <1>9 DEF TeamInv

\* JoinInv after a step of one invitation of one user, with charges that grow
\* by at least what is joined.
LEMMA JoinStep ==
    ASSUME TeamShape, TeamShape', JoinInv, NEW u \in Users, NEW n \in 1..MaxInvites,
           \A v \in Users, m \in 1..MaxInvites :
               v # u \/ m # n => /\ Charged(v, m)' = Charged(v, m)
                                 /\ \A op \in Stages : At(op, v, m)' = At(op, v, m)
                                 /\ invite'[v][m].state = invite[v][m].state,
           \A v \in Users : v # u => joins'[v] = joins[v] /\ issued'[v] = issued[v] /\ unmarked'[v] = unmarked[v],
           joins'[u] - joins[u] <= Charged(u, n)' - Charged(u, n) + unmarked'[u] - unmarked[u],
           \A m \in 1..MaxInvites : invite'[u][m].state # "none" <=> m <= issued'[u],
           invite'[u][n].state # "none"
    PROVE  JoinInv'
<1>1. ASSUME NEW v \in Users
      PROVE  joins'[v] <= SumFunctionOnSet(Charges(v)', 1..MaxInvites) + unmarked'[v]
  <2>0. /\ joins[v] \in Nat /\ joins'[v] \in Nat /\ unmarked[v] \in Nat /\ unmarked'[v] \in Nat
        /\ joins[v] <= SumFunctionOnSet(Charges(v), 1..MaxInvites) + unmarked[v]
    BY TeamAssumption DEF TeamShape, JoinInv
  <2>1. CASE v # u
    <3>1. SumFunctionOnSet(Charges(v)', 1..MaxInvites) = SumFunctionOnSet(Charges(v), 1..MaxInvites)
      BY <2>1, ChargesStay
    <3>. QED
      BY <2>0, <2>1, <3>1
  <2>2. CASE v = u
    <3>1. /\ SumFunctionOnSet(Charges(u), 1..MaxInvites) \in Nat
          /\ SumFunctionOnSet(Charges(u)', 1..MaxInvites) =
                SumFunctionOnSet(Charges(u), 1..MaxInvites) - Charged(u, n) + Charged(u, n)'
      BY ChargesMove
    <3>2. Charged(u, n) \in Nat /\ Charged(u, n)' \in Nat
      <4>1. ChargesCount'
        BY ChargedNat, PTL
      <4>. QED
        BY <4>1, ChargedNat DEF ChargesCount
    <3>. QED
      BY <2>0, <2>2, <3>1, <3>2
  <2>. QED
    BY <2>1, <2>2
<1>2. ASSUME NEW v \in Users, NEW m \in 1..MaxInvites
      PROVE  /\ invite'[v][m].state # "none" <=> m <= issued'[v]
             /\ invite'[v][m].state = "none" => \A op \in Stages : At(op, v, m)' = {}
  <2>1. CASE v # u
    BY <2>1 DEF JoinInv
  <2>2. CASE v = u
    BY <2>2 DEF JoinInv
  <2>. QED
    BY <2>1, <2>2
<1>. QED
  BY <1>1, <1>2 DEF JoinInv

\* One invitation changes its state.
LEMMA InviteMoves ==
    ASSUME TeamShape, NEW u \in Users, NEW n \in 1..MaxInvites, NEW st \in InviteStates,
           invite' = [invite EXCEPT ![u][n].state = st]
    PROVE  /\ invite' \in [Users -> [1..MaxInvites -> [state : InviteStates, role : {"viewer", "admin"}]]]
           /\ invite'[u][n].state = st
           /\ \A v \in Users, m \in 1..MaxInvites : v # u \/ m # n => invite'[v][m] = invite[v][m]
<1>. DEFINE Row == [state : InviteStates, role : {"viewer", "admin"}]
<1>1. invite \in [Users -> [1..MaxInvites -> Row]]
  BY DEF TeamShape
<1>2. invite[u] \in [1..MaxInvites -> Row]
  BY <1>1
<1>3. invite[u][n] \in Row
  BY <1>2
<1>4. PICK r : r = [invite[u][n] EXCEPT !.state = st]
  OBVIOUS
<1>5. r \in Row /\ r.state = st
  BY <1>3, <1>4
<1>. HIDE DEF Row
<1>6. PICK f : f = [invite[u] EXCEPT ![n] = r]
  OBVIOUS
<1>7. f \in [1..MaxInvites -> Row] /\ f[n] = r /\ \A m \in 1..MaxInvites : m # n => f[m] = invite[u][m]
  BY <1>2, <1>5, <1>6
<1>8. invite' = [invite EXCEPT ![u] = f]
  BY <1>4, <1>6
<1>9. invite' \in [Users -> [1..MaxInvites -> Row]] /\ invite'[u] = f /\ \A v \in Users : v # u => invite'[v] = invite[v]
  BY <1>1, <1>7, <1>8
<1>. QED
  BY <1>5, <1>7, <1>9 DEF Row

\* JoinInv after a step that leaves invitations, joins and their requests alone.
LEMMA JoinStays ==
    ASSUME JoinInv, UNCHANGED <<invite, joins, issued, unmarked>>,
           \A op \in Stages, u \in Users, n \in 1..MaxInvites : At(op, u, n)' = At(op, u, n)
    PROVE  JoinInv'
<1>1. \A u \in Users, n \in 1..MaxInvites : Charged(u, n)' = Charged(u, n)
  BY DEF Charged, Stages
<1>2. \A u \in Users : SumFunctionOnSet(Charges(u)', 1..MaxInvites) = SumFunctionOnSet(Charges(u), 1..MaxInvites)
  BY <1>1, ChargesStay
<1>. QED
  BY <1>2 DEF JoinInv

\* A change of role or a removal is checked: someone else owns the workspace.
LEMMA TeamStepCheck ==
    ASSUME TeamInv, NEW s \in Slots, NEW u \in Users, NEW role \in Roles \cup {"none"}, ChangeChecked(s, u, role)
    PROVE  TeamInv'
<1>0. TeamShape /\ OwnerInv /\ JoinInv
  BY DEF TeamInv
<1>. DEFINE q == [op |-> "change", user |-> u, role |-> role, row |-> joins[u], stale |-> FALSE]
<1>1. /\ handler[s] = Free /\ handler' = [handler EXCEPT ![s] = q] /\ ~LastOwner(u, role)
      /\ UNCHANGED <<member, admins, invite, raced, joins, issued, unmarked>>
  BY DEF ChangeChecked
<1>2. q \in HandlerStates
  BY <1>0 DEF HandlerStates, Changes, TeamShape
<1>3. q.op = "change" /\ q.user = u /\ q.role = role /\ Stage(q) = "none"
  BY DEF Stage
<1>. HIDE DEF q
<1>4. /\ handler' \in [Slots -> HandlerStates] /\ handler'[s] = q
      /\ \A t \in Slots : t # s => handler'[t] = handler[t]
  BY <1>0, <1>1, <1>2, HandlerMoves
<1>5. TeamShape'
  BY <1>0, <1>1, <1>4 DEF TeamShape, HandlerStates
<1>6. OwnerInv'
  <2>1. CASE raced
    BY <1>1, <2>1 DEF OwnerInv
  <2>2. CASE ~raced
    <3>1. PICK w \in Users : member[w] = "owner"
      BY <1>0, <2>2 DEF OwnerInv
    <3>2. role # "owner" => \E v \in Users : v # u /\ member[v] = "owner"
      <4>. SUFFICES ASSUME role # "owner", member[u] = "owner", \A v \in Users : member[v] = "owner" => v = u
                    PROVE  FALSE
        BY <3>1
      <4>1. Owners = {u}
        BY DEF Owners
      <4>2. Cardinality(Owners) = 1
        BY <4>1, FS_Singleton
      <4>. QED
        BY <1>1, <4>2 DEF LastOwner
    <3>. QED
      BY <1>0, <1>1, <1>3, <1>4, <2>2, <3>1, <3>2 DEF OwnerInv
  <2>. QED
    BY <2>1, <2>2
<1>7. JoinInv'
  <2>1. Stage(handler[s]) = "none"
    BY <1>1 DEF Free, Stage
  <2>2. \A op \in Stages, v \in Users, n \in 1..MaxInvites : At(op, v, n)' = At(op, v, n)
    BY <1>0, <1>3, <1>4, <2>1, AtMoves DEF Stages
  <2>. QED
    BY <1>0, <1>1, <2>2, JoinStays
<1>. QED
  BY <1>5, <1>6, <1>7 DEF TeamInv

\* It is written: every other change in flight is stale from now on.
LEMMA TeamStepWrite == ASSUME TeamInv, NEW s \in Slots, ChangeWritten(s) PROVE TeamInv'
<1>0. TeamShape /\ OwnerInv /\ JoinInv
  BY DEF TeamInv
<1>. DEFINE h == handler[s]
            hit == member[h.user] # "none" /\ joins[h.user] = h.row
<1>1. h.op = "change" /\ h \in Changes /\ UNCHANGED <<admins, invite, joins, issued, unmarked>>
  BY <1>0, HandlerHeld DEF ChangeWritten
<1>2. /\ \/ member' = [member EXCEPT ![h.user] = IF hit THEN h.role ELSE @]
         \/ member' = member
      /\ raced' = (raced \/ (h.stale /\ hit))
  BY DEF ChangeWritten
<1>3. h.user \in Users /\ h.role \in Roles \cup {"none"} /\ h.stale \in BOOLEAN
  BY <1>1 DEF Changes
<1>4. handler' = [t \in Slots |-> IF t = s THEN Free
                                 ELSE IF handler[t].op = "change" THEN [handler[t] EXCEPT !.stale = TRUE]
                                 ELSE handler[t]]
  BY DEF ChangeWritten
<1>5. ASSUME NEW t \in Slots
      PROVE  /\ handler'[t] \in HandlerStates
             /\ handler'[t].op = "change" => handler'[t].stale
             /\ handler'[t].op # "change" /\ t # s => handler'[t] = handler[t]
             /\ handler[t].op # "change" => handler'[t] = handler[t] \/ t = s
             /\ handler[t].op = "change" => handler'[t].op \in {"free", "change"}
  <2>1. CASE t = s
    BY <1>4, <2>1 DEF HandlerStates, Free
  <2>2. CASE t # s /\ handler[t].op # "change"
    BY <1>0, <1>4, <2>2 DEF HandlerStates, TeamShape
  <2>3. CASE t # s /\ handler[t].op = "change"
    <3>1. handler[t] \in Changes /\ handler'[t] = [handler[t] EXCEPT !.stale = TRUE]
      BY <1>0, <1>4, <2>3, HandlerHeld
    <3>2. handler'[t] \in Changes /\ handler'[t].stale /\ handler'[t].op = "change"
      BY <3>1 DEF Changes
    <3>. QED
      BY <2>3, <3>2 DEF HandlerStates
  <2>. QED
    BY <2>1, <2>2, <2>3
<1>. HIDE DEF h
<1>6. TeamShape'
  <2>1. member' \in [Users -> Roles \cup {"none"}] /\ raced' \in BOOLEAN
    BY <1>0, <1>2, <1>3 DEF TeamShape
  <2>2. handler' \in [Slots -> HandlerStates]
    BY <1>4, <1>5
  <2>. QED
    BY <1>0, <1>1, <2>1, <2>2 DEF TeamShape, HandlerStates
<1>7. OwnerInv'
  <2>. SUFFICES ASSUME ~raced' PROVE \E w \in Users : member'[w] = "owner"
    BY <1>5 DEF OwnerInv
  <2>1. ~raced /\ (~h.stale \/ ~hit)
    BY <1>2
  <2>2. PICK w \in Users : member[w] = "owner"
    BY <1>0, <2>1 DEF OwnerInv
  <2>3. CASE member' = member
    BY <2>2, <2>3
  <2>4. CASE ~hit
    BY <1>0, <1>2, <2>2, <2>4 DEF TeamShape
  <2>5. CASE hit /\ ~h.stale /\ member' # member
    <3>1. member' = [member EXCEPT ![h.user] = h.role]
      BY <1>2, <2>5
    <3>2. CASE h.role = "owner"
      BY <1>0, <1>3, <3>1, <3>2 DEF TeamShape
    <3>3. CASE h.role # "owner"
      <4>1. PICK v \in Users : v # h.user /\ member[v] = "owner"
        BY <1>0, <1>1, <2>1, <2>5, <3>3 DEF OwnerInv, h
      <4>. QED
        BY <1>0, <3>1, <4>1 DEF TeamShape
    <3>. QED
      BY <3>2, <3>3
  <2>. QED
    BY <2>1, <2>3, <2>4, <2>5
<1>8. JoinInv'
  <2>1. \A op \in Stages, v \in Users, n \in 1..MaxInvites : At(op, v, n)' = At(op, v, n)
    <3>1. TAKE op \in Stages, v \in Users, n \in 1..MaxInvites
    <3>2. \A t \in Slots : /\ t \in At(op, v, n) => handler'[t] = handler[t]
                           /\ Stage(handler'[t]) = op => handler'[t] = handler[t]
      BY <1>1, <1>4, <1>5 DEF At, Free, h, Stage, Stages
    <3>. QED
      BY <3>2 DEF At
  <2>. QED
    BY <1>0, <1>1, <2>1, JoinStays
<1>. QED
  BY <1>6, <1>7, <1>8 DEF TeamInv

\* An invitation is sent: nobody works on it.
LEMMA TeamStepInvite ==
    ASSUME TeamInv, NEW u \in Users, NEW role \in InviteRoles, InviteMember(u, role) PROVE TeamInv'
<1>0. TeamShape /\ OwnerInv /\ JoinInv
  BY DEF TeamInv
<1>a. issued[u] \in Nat
  BY <1>0, TeamAssumption DEF TeamShape
<1>. PICK n \in Nat : n = issued[u] + 1
  BY <1>a
<1>1. /\ role \in {"viewer", "admin"} /\ issued[u] < MaxInvites
      /\ issued' = [issued EXCEPT ![u] = n]
      /\ invite' = [invite EXCEPT ![u][n] = [state |-> "open", role |-> role]]
      /\ UNCHANGED <<member, admins, handler, raced, joins, unmarked>>
  BY TeamAssumption DEF InviteMember
<1>2. issued[u] \in Nat /\ n \in 1..MaxInvites
  BY <1>a, <1>1, TeamAssumption
<1>3. invite'[u][n].state = "open" /\ issued'[u] = n
  BY <1>0, <1>1, <1>2 DEF TeamShape
<1>4. \A v \in Users, m \in 1..MaxInvites : v # u \/ m # n => invite'[v][m] = invite[v][m]
  BY <1>0, <1>1, <1>2 DEF TeamShape
<1>5. \A v \in Users : v # u => issued'[v] = issued[v]
  BY <1>0, <1>1 DEF TeamShape
<1>6. TeamShape'
  <2>1. invite' \in [Users -> [1..MaxInvites -> [state : InviteStates, role : {"viewer", "admin"}]]]
    BY <1>0, <1>1, <1>2 DEF TeamShape, InviteStates
  <2>2. issued' \in [Users -> 0..MaxInvites]
    BY <1>0, <1>1, <1>2 DEF TeamShape
  <2>. QED
    BY <1>0, <1>1, <2>1, <2>2 DEF TeamShape
<1>7. OwnerInv'
  BY <1>0, <1>1 DEF OwnerInv
<1>8. \A v \in Users, m \in 1..MaxInvites : \A op : At(op, v, m)' = At(op, v, m)
  BY <1>1 DEF At
<1>9. \A v \in Users, m \in 1..MaxInvites : v # u \/ m # n => Charged(v, m)' = Charged(v, m)
  BY <1>4, <1>8 DEF Charged
<1>10. invite[u][n].state = "none" /\ At("mark", u, n) = {}
  <2>1. ~(n <= issued[u])
    BY <1>2
  <2>. QED
    BY <1>0, <1>2, <2>1 DEF JoinInv, Stages
<1>11. Charged(u, n) = 0 /\ Charged(u, n)' = 0
  BY <1>2, <1>3, <1>8, <1>10, FS_EmptySet DEF Charged
<1>12. \A m \in 1..MaxInvites : invite'[u][m].state # "none" <=> m <= issued'[u]
  <2>1. TAKE m \in 1..MaxInvites
  <2>2. invite[u][m].state # "none" <=> m <= issued[u]
    BY <1>0 DEF JoinInv
  <2>3. CASE m = n
    BY <1>3, <1>2, <2>3
  <2>4. CASE m # n
    BY <1>2, <1>3, <1>4, <2>2, <2>4
  <2>. QED
    BY <2>3, <2>4
<1>13. joins'[u] - joins[u] <= Charged(u, n)' - Charged(u, n) + unmarked'[u] - unmarked[u]
  BY <1>0, <1>1, <1>11, TeamAssumption DEF TeamShape
<1>14. JoinInv'
  BY <1>0, <1>1, <1>2, <1>3, <1>4, <1>5, <1>6, <1>8, <1>9, <1>12, <1>13, JoinStep
<1>. QED
  BY <1>6, <1>7, <1>14 DEF TeamInv

\* An invitation is read, and expires: the charge moves to the requests that
\* have not begun to accept it.
LEMMA TeamStepRead ==
    ASSUME TeamInv, NEW s \in Slots, NEW u \in Users, NEW n \in 1..MaxInvites, AcceptRead(s, u, n)
    PROVE  TeamInv'
<1>0. TeamShape /\ OwnerInv /\ JoinInv
  BY DEF TeamInv
<1>. DEFINE q == [op |-> "accept", user |-> u, role |-> invite[u][n].role, n |-> n]
<1>1. /\ handler[s] = Free /\ handler' = [handler EXCEPT ![s] = q] /\ invite[u][n].state = "open"
      /\ UNCHANGED <<member, admins, invite, raced, joins, issued, unmarked>>
  BY DEF AcceptRead
<1>2. q \in HandlerStates
  <2>1. invite[u] \in [1..MaxInvites -> [state : InviteStates, role : {"viewer", "admin"}]]
    BY <1>0 DEF TeamShape
  <2>2. invite[u][n].role \in {"viewer", "admin"}
    BY <2>1
  <2>3. q \in Accepts
    BY <2>2 DEF Accepts
  <2>. QED
    BY <2>3 DEF HandlerStates
<1>3. q.op = "accept" /\ q.user = u /\ q.n = n /\ Stage(q) = "accept"
  BY DEF Stage
<1>. HIDE DEF q
<1>4. /\ handler' \in [Slots -> HandlerStates] /\ handler'[s] = q
      /\ \A t \in Slots : t # s => handler'[t] = handler[t]
  BY <1>0, <1>1, <1>2, HandlerMoves
<1>5. TeamShape'
  BY <1>0, <1>1, <1>4 DEF TeamShape, HandlerStates
<1>6. OwnerInv'
  BY <1>0, <1>1, <1>3, <1>4 DEF OwnerInv
<1>7. Stage(handler[s]) = "none"
  BY <1>1 DEF Free, Stage
<1>8. \A v \in Users, m \in 1..MaxInvites, op \in Stages :
         v # u \/ m # n \/ op # "accept" => At(op, v, m)' = At(op, v, m)
  BY <1>0, <1>3, <1>4, <1>7, AtMoves DEF Stages
<1>9. \A v \in Users, m \in 1..MaxInvites : Charged(v, m)' = Charged(v, m)
  BY <1>1, <1>8 DEF Charged, Stages
<1>10. joins'[u] - joins[u] <= Charged(u, n)' - Charged(u, n) + unmarked'[u] - unmarked[u]
  BY <1>0, <1>1, <1>9, ChargedNat, TeamAssumption DEF TeamShape, ChargesCount
<1>11. \A m \in 1..MaxInvites : invite'[u][m].state # "none" <=> m <= issued'[u]
  BY <1>0, <1>1 DEF JoinInv
<1>12. JoinInv'
  BY <1>0, <1>1, <1>5, <1>8, <1>9, <1>10, <1>11, JoinStep
<1>. QED
  BY <1>5, <1>6, <1>12 DEF TeamInv

\* An invitation expires: no request can spend it any more.
LEMMA TeamStepExpire ==
    ASSUME TeamInv, NEW u \in Users, NEW n \in 1..MaxInvites, InviteExpires(u, n) PROVE TeamInv'
<1>0. TeamShape /\ OwnerInv /\ JoinInv
  BY DEF TeamInv
<1>1. /\ invite[u][n].state = "open" /\ invite' = [invite EXCEPT ![u][n].state = "expired"]
      /\ UNCHANGED <<member, admins, handler, raced, joins, issued, unmarked>>
  BY DEF InviteExpires
<1>2. invite'[u][n].state = "expired"
  BY <1>0, <1>1, InviteMoves DEF InviteStates
<1>3. \A v \in Users, m \in 1..MaxInvites : v # u \/ m # n => invite'[v][m] = invite[v][m]
  BY <1>0, <1>1, InviteMoves DEF InviteStates
<1>4. TeamShape'
  <2>1. invite' \in [Users -> [1..MaxInvites -> [state : InviteStates, role : {"viewer", "admin"}]]]
    <3>1. "expired" \in InviteStates
      BY DEF InviteStates
    <3>. QED
      BY <1>0, <1>1, <3>1, InviteMoves
  <2>. QED
    BY <1>0, <1>1, <2>1 DEF TeamShape
<1>5. OwnerInv'
  BY <1>0, <1>1 DEF OwnerInv
<1>6. \A v \in Users, m \in 1..MaxInvites : \A op : At(op, v, m)' = At(op, v, m)
  BY <1>1 DEF At
<1>7. \A v \in Users, m \in 1..MaxInvites : v # u \/ m # n => Charged(v, m)' = Charged(v, m)
  BY <1>3, <1>6 DEF Charged
<1>8. Charged(u, n)' >= Charged(u, n) /\ Charged(u, n)' \in Nat /\ Charged(u, n) \in Nat
  <2>1. Charged(u, n) = Cardinality(At("mark", u, n))
    BY <1>1 DEF Charged
  <2>2. Charged(u, n)' = Cardinality(Slots) - Cardinality(At("accept", u, n))
    BY <1>2, <1>6 DEF Charged
  <2>. QED
    BY <2>1, <2>2, AtBounds
<1>9. joins'[u] - joins[u] <= Charged(u, n)' - Charged(u, n) + unmarked'[u] - unmarked[u]
  BY <1>0, <1>1, <1>8, TeamAssumption DEF TeamShape
<1>10. \A m \in 1..MaxInvites : invite'[u][m].state # "none" <=> m <= issued'[u]
  BY <1>0, <1>1, <1>2, <1>3 DEF JoinInv
<1>11. JoinInv'
  BY <1>0, <1>1, <1>2, <1>3, <1>4, <1>6, <1>7, <1>9, <1>10, JoinStep
<1>. QED
  BY <1>4, <1>5, <1>11 DEF TeamInv

\* A request that leaves the invitation without a join of its own to charge.
LEMMA JoinLeaves ==
    ASSUME TeamShape, TeamShape', JoinInv, NEW s \in Slots, NEW u \in Users, NEW n \in 1..MaxInvites,
           Stage(handler[s]) \in {"accept", "skip"}, handler[s].user = u, handler[s].n = n,
           Stage(handler'[s]) \in {"none", "skip"},
           Stage(handler'[s]) = "skip" => handler'[s].user = u /\ handler'[s].n = n,
           \A t \in Slots : t # s => handler'[t] = handler[t],
           UNCHANGED <<invite, joins, issued, unmarked>>
    PROVE  JoinInv'
<1>1. \A v \in Users, m \in 1..MaxInvites, op \in Stages :
         v # u \/ m # n \/ op = "mark" => At(op, v, m)' = At(op, v, m)
  BY AtMoves DEF Stages
<1>2. \A v \in Users, m \in 1..MaxInvites : v # u \/ m # n => Charged(v, m)' = Charged(v, m)
  BY <1>1 DEF Charged, Stages
<1>3. invite[u][n].state # "none"
  <2>1. s \in At(Stage(handler[s]), u, n)
    BY DEF At
  <2>. QED
    BY <2>1 DEF JoinInv, Stages
<1>4. /\ Cardinality(At("accept", u, n)') <= Cardinality(At("accept", u, n))
      /\ Cardinality(At("accept", u, n)') \in Nat
  <2>1. At("accept", u, n)' \subseteq At("accept", u, n)
    BY DEF At
  <2>. QED
    BY <2>1, AtBounds, FS_Subset, FS_CardinalityType
<1>5. Charged(u, n)' >= Charged(u, n) /\ Charged(u, n)' \in Nat /\ Charged(u, n) \in Nat
  <2>1. CASE invite[u][n].state = "open"
    <3>1. Charged(u, n)' = Charged(u, n)
      BY <1>1, <2>1 DEF Charged, Stages
    <3>. QED
      BY <3>1, ChargedNat DEF ChargesCount
  <2>2. CASE invite[u][n].state # "open"
    <3>1. Charged(u, n) = Cardinality(Slots) - Cardinality(At("accept", u, n))
      BY <1>3, <2>2 DEF Charged
    <3>2. Charged(u, n)' = Cardinality(Slots) - Cardinality(At("accept", u, n)')
      BY <1>3, <2>2 DEF Charged
    <3>. QED
      BY <1>4, <3>1, <3>2, AtBounds
  <2>. QED
    BY <2>1, <2>2
<1>6. joins'[u] - joins[u] <= Charged(u, n)' - Charged(u, n) + unmarked'[u] - unmarked[u]
  BY <1>5, TeamAssumption DEF TeamShape
<1>7. \A m \in 1..MaxInvites : invite'[u][m].state # "none" <=> m <= issued'[u]
  BY DEF JoinInv
<1>. QED
  BY <1>1, <1>2, <1>3, <1>6, <1>7, JoinStep

\* The membership is looked up: who has none goes on to join, who has one to
\* the mark.
LEMMA TeamStepLookup == ASSUME TeamInv, NEW s \in Slots, AcceptLookup(s) PROVE TeamInv'
<1>0. TeamShape /\ OwnerInv /\ JoinInv
  BY DEF TeamInv
<1>1. handler[s].op = "accept" /\ handler[s] \in Accepts
  BY <1>0, HandlerHeld DEF AcceptLookup
<1>2. PICK u \in Users, n \in 1..MaxInvites : handler[s].user = u /\ handler[s].n = n
  BY <1>1 DEF Accepts
<1>. DEFINE q == IF member[u] = "none" THEN [handler[s] EXCEPT !.op = "join"]
                 ELSE [op |-> "mark", user |-> u, n |-> n, joined |-> FALSE]
<1>3. /\ handler' = [handler EXCEPT ![s] = q]
      /\ UNCHANGED <<member, admins, invite, raced, joins, issued, unmarked>>
  BY <1>2 DEF AcceptLookup
<1>4. /\ q \in HandlerStates /\ q.op \in {"join", "mark"} /\ q.user = u /\ q.n = n
      /\ Stage(q) = IF member[u] = "none" THEN "accept" ELSE "skip"
  <2>1. CASE member[u] = "none"
    <3>1. q \in Accepts /\ q.op = "join" /\ q.user = u /\ q.n = n
      BY <1>1, <1>2, <2>1 DEF Accepts
    <3>. QED
      BY <2>1, <3>1 DEF HandlerStates, Stage
  <2>2. CASE member[u] # "none"
    BY <2>2 DEF HandlerStates, Marks, Stage
  <2>. QED
    BY <2>1, <2>2
<1>. HIDE DEF q
<1>5. /\ handler' \in [Slots -> HandlerStates] /\ handler'[s] = q
      /\ \A t \in Slots : t # s => handler'[t] = handler[t]
  BY <1>0, <1>3, <1>4, HandlerMoves
<1>6. TeamShape'
  BY <1>0, <1>3, <1>5 DEF TeamShape, HandlerStates
<1>7. OwnerInv'
  BY <1>0, <1>3, <1>4, <1>5 DEF OwnerInv
<1>8. Stage(handler[s]) = "accept"
  BY <1>1 DEF Stage
<1>9. JoinInv'
  <2>1. CASE member[u] = "none"
    <3>1. \A op \in Stages, v \in Users, m \in 1..MaxInvites : At(op, v, m)' = At(op, v, m)
      BY <1>2, <1>4, <1>5, <1>8, <2>1 DEF At
    <3>. QED
      BY <1>0, <1>3, <3>1, JoinStays
  <2>2. CASE member[u] # "none"
    BY <1>0, <1>2, <1>3, <1>4, <1>5, <1>6, <1>8, <2>2, JoinLeaves
  <2>. QED
    BY <2>1, <2>2
<1>. QED
  BY <1>6, <1>7, <1>9 DEF TeamInv

\* A request that ends without having changed a membership.
LEMMA TeamStepRefused ==
    ASSUME TeamInv, NEW s \in Slots, NEW u \in Users, NEW n \in 1..MaxInvites,
           handler[s].user = u, handler[s].n = n, Stage(handler[s]) \in {"accept", "skip"},
           handler' = [handler EXCEPT ![s] = Free],
           UNCHANGED <<member, admins, invite, raced, joins, issued, unmarked>>
    PROVE  TeamInv'
<1>0. TeamShape /\ OwnerInv /\ JoinInv
  BY DEF TeamInv
<1>1. Free \in HandlerStates /\ Free.op = "free" /\ Stage(Free) = "none"
  BY DEF HandlerStates, Free, Stage
<1>2. /\ handler' \in [Slots -> HandlerStates] /\ handler'[s] = Free
      /\ \A t \in Slots : t # s => handler'[t] = handler[t]
  BY <1>0, <1>1, HandlerMoves
<1>3. TeamShape'
  BY <1>0, <1>2 DEF TeamShape, HandlerStates
<1>4. OwnerInv'
  BY <1>0, <1>1, <1>2 DEF OwnerInv
<1>5. JoinInv'
  BY <1>0, <1>1, <1>2, <1>3, JoinLeaves
<1>. QED
  BY <1>3, <1>4, <1>5 DEF TeamInv

\* The membership is granted, the request being past its join, or refused.
LEMMA TeamStepJoin == ASSUME TeamInv, NEW s \in Slots, AcceptJoin(s) PROVE TeamInv'
<1>0. TeamShape /\ OwnerInv /\ JoinInv
  BY DEF TeamInv
<1>1. handler[s].op = "join" /\ handler[s] \in Accepts
  BY <1>0, HandlerHeld DEF AcceptJoin
<1>2. PICK u \in Users, n \in 1..MaxInvites : handler[s].user = u /\ handler[s].n = n
  BY <1>1 DEF Accepts
<1>2a. handler[s].role \in {"viewer", "admin"} /\ Stage(handler[s]) = "accept"
  BY <1>1 DEF Accepts, Stage
<1>2b. CASE member[u] # "none"
  <2>1. /\ handler' = [handler EXCEPT ![s] = Free]
        /\ UNCHANGED <<member, admins, invite, raced, joins, issued, unmarked>>
    BY <1>2, <1>2b DEF AcceptJoin
  <2>. QED
    BY <1>2, <1>2a, <2>1, TeamStepRefused
<1>2c. SUFFICES ASSUME member[u] = "none" PROVE TeamInv'
  BY <1>2b
<1>. DEFINE q == [op |-> "mark", user |-> u, n |-> n, joined |-> TRUE]
<1>3. /\ member' = [member EXCEPT ![u] = handler[s].role]
      /\ joins' = [joins EXCEPT ![u] = @ + 1]
      /\ handler' = [handler EXCEPT ![s] = q]
      /\ UNCHANGED <<admins, invite, raced, issued, unmarked>>
  BY <1>2, <1>2c DEF AcceptJoin
<1>4. q \in HandlerStates /\ q.op = "mark" /\ q.user = u /\ q.n = n /\ Stage(q) = "mark"
  BY DEF HandlerStates, Marks, Stage
<1>. HIDE DEF q
<1>5. /\ handler' \in [Slots -> HandlerStates] /\ handler'[s] = q
      /\ \A t \in Slots : t # s => handler'[t] = handler[t]
  BY <1>0, <1>3, <1>4, HandlerMoves
<1>6. /\ member' \in [Users -> Roles \cup {"none"}] /\ joins' \in [Users -> Nat]
      /\ joins'[u] <= joins[u] + 1 /\ \A v \in Users : v # u => joins'[v] = joins[v]
      /\ \A v \in Users : member[v] = "owner" => member'[v] = "owner"
  BY <1>0, <1>2a, <1>2c, <1>3 DEF TeamShape, Roles
<1>7. TeamShape'
  BY <1>0, <1>3, <1>5, <1>6 DEF TeamShape, HandlerStates
<1>8. OwnerInv'
  BY <1>0, <1>3, <1>4, <1>5, <1>6 DEF OwnerInv
<1>9. \A v \in Users, m \in 1..MaxInvites, op \in Stages :
         v # u \/ m # n => At(op, v, m)' = At(op, v, m)
  BY <1>0, <1>2, <1>4, <1>5, AtMoves
<1>10. \A v \in Users, m \in 1..MaxInvites : v # u \/ m # n => Charged(v, m)' = Charged(v, m)
  BY <1>3, <1>9 DEF Charged, Stages
<1>11. /\ s \in At("accept", u, n) /\ At("accept", u, n)' = At("accept", u, n) \ {s}
       /\ s \notin At("mark", u, n) /\ At("mark", u, n)' = At("mark", u, n) \cup {s}
  BY <1>2, <1>2a, <1>4, <1>5 DEF At
<1>12. /\ Cardinality(At("accept", u, n)') = Cardinality(At("accept", u, n)) - 1
       /\ Cardinality(At("mark", u, n)') = Cardinality(At("mark", u, n)) + 1
  <2>1. IsFiniteSet(At("accept", u, n)) /\ IsFiniteSet(At("mark", u, n))
    BY AtBounds
  <2>2. Cardinality(At("accept", u, n) \ {s}) = Cardinality(At("accept", u, n)) - 1
    BY <1>11, <2>1, FS_RemoveElement
  <2>3. Cardinality(At("mark", u, n) \cup {s}) = Cardinality(At("mark", u, n)) + 1
    BY <1>11, <2>1, FS_AddElement
  <2>. QED
    BY <1>11, <2>2, <2>3
<1>13. invite[u][n].state # "none"
  BY <1>0, <1>2, <1>11 DEF JoinInv, Stages
<1>14. Charged(u, n)' = Charged(u, n) + 1 /\ Charged(u, n) \in Nat
  <2>1. Charged(u, n) \in Nat
    BY ChargedNat DEF ChargesCount
  <2>2. CASE invite[u][n].state = "open"
    BY <1>3, <1>12, <2>1, <2>2 DEF Charged
  <2>3. CASE invite[u][n].state # "open"
    <3>1. Charged(u, n) = Cardinality(Slots) - Cardinality(At("accept", u, n))
      BY <1>13, <2>3 DEF Charged
    <3>2. Charged(u, n)' = Cardinality(Slots) - Cardinality(At("accept", u, n)')
      BY <1>3, <1>13, <2>3 DEF Charged
    <3>. QED
      BY <1>12, <2>1, <3>1, <3>2, AtBounds
  <2>. QED
    BY <2>2, <2>3
<1>15. joins'[u] - joins[u] <= Charged(u, n)' - Charged(u, n) + unmarked'[u] - unmarked[u]
  <2>1. joins[u] \in Nat /\ joins'[u] \in Nat /\ unmarked[u] \in Nat /\ unmarked'[u] = unmarked[u]
    BY <1>0, <1>2, <1>3, <1>6, TeamAssumption DEF TeamShape
  <2>. QED
    BY <1>6, <1>14, <2>1
<1>16. \A m \in 1..MaxInvites : invite'[u][m].state # "none" <=> m <= issued'[u]
  BY <1>0, <1>2, <1>3 DEF JoinInv
<1>17. JoinInv'
  BY <1>0, <1>2, <1>3, <1>6, <1>7, <1>9, <1>10, <1>13, <1>15, <1>16, JoinStep
<1>. QED
  BY <1>7, <1>8, <1>17 DEF TeamInv

\* The invitation is marked: it is closed from now on.
LEMMA TeamStepMark == ASSUME TeamInv, NEW s \in Slots, AcceptMark(s) PROVE TeamInv'
<1>0. TeamShape /\ OwnerInv /\ JoinInv
  BY DEF TeamInv
<1>1. handler[s].op = "mark" /\ handler[s] \in Marks
  BY <1>0, HandlerHeld DEF AcceptMark
<1>2. PICK u \in Users, n \in 1..MaxInvites : handler[s].user = u /\ handler[s].n = n
  BY <1>1 DEF Marks
<1>3. /\ invite' = [invite EXCEPT ![u][n].state = "accepted"]
      /\ handler' = [handler EXCEPT ![s] = Free]
      /\ UNCHANGED <<member, admins, raced, joins, issued, unmarked>>
  BY <1>2 DEF AcceptMark
<1>4. Free \in HandlerStates /\ Free.op = "free"
  BY DEF HandlerStates, Free
<1>5. /\ handler' \in [Slots -> HandlerStates] /\ handler'[s] = Free
      /\ \A t \in Slots : t # s => handler'[t] = handler[t]
  BY <1>0, <1>3, <1>4, HandlerMoves
<1>5a. Stage(handler[s]) \in {"mark", "skip"} /\ Stage(Free) = "none"
  BY <1>1, <1>4 DEF Stage
<1>9. \A v \in Users, m \in 1..MaxInvites, op \in Stages :
         v # u \/ m # n \/ op = "accept" => At(op, v, m)' = At(op, v, m)
  BY <1>0, <1>2, <1>5, <1>5a, AtMoves DEF Stages
<1>6. invite'[u][n].state = "accepted" /\ \A v \in Users, m \in 1..MaxInvites : v # u \/ m # n => invite'[v][m] = invite[v][m]
  <2>1. "accepted" \in InviteStates
    BY DEF InviteStates
  <2>2. invite'[u][n].state = "accepted"
    BY <1>0, <1>3, <2>1, InviteMoves
  <2>3. \A v \in Users, m \in 1..MaxInvites : v # u \/ m # n => invite'[v][m] = invite[v][m]
    BY <1>0, <1>3, <2>1, InviteMoves
  <2>. QED
    BY <2>2, <2>3
<1>7. TeamShape'
  <2>1. invite' \in [Users -> [1..MaxInvites -> [state : InviteStates, role : {"viewer", "admin"}]]]
    <3>1. "accepted" \in InviteStates
      BY DEF InviteStates
    <3>. QED
      BY <1>0, <1>2, <1>3, <3>1, InviteMoves
  <2>. QED
    BY <1>0, <1>3, <1>5, <2>1 DEF TeamShape, HandlerStates
<1>8. OwnerInv'
  BY <1>0, <1>3, <1>4, <1>5 DEF OwnerInv
<1>10. \A v \in Users, m \in 1..MaxInvites : v # u \/ m # n => Charged(v, m)' = Charged(v, m)
  BY <1>6, <1>9 DEF Charged, Stages
<1>11. invite[u][n].state # "none"
  <2>1. s \in At(Stage(handler[s]), u, n)
    BY <1>2 DEF At
  <2>. QED
    BY <1>0, <1>5a, <2>1 DEF JoinInv, Stages
<1>12. Charged(u, n)' >= Charged(u, n) /\ Charged(u, n)' \in Nat /\ Charged(u, n) \in Nat
  <2>1. Charged(u, n)' = Cardinality(Slots) - Cardinality(At("accept", u, n))
    BY <1>2, <1>6, <1>9 DEF Charged, Stages
  <2>2. \/ Charged(u, n) = Cardinality(Slots) - Cardinality(At("accept", u, n))
        \/ Charged(u, n) = Cardinality(At("mark", u, n))
    BY <1>11 DEF Charged
  <2>. QED
    BY <2>1, <2>2, AtBounds
<1>13. joins'[u] - joins[u] <= Charged(u, n)' - Charged(u, n) + unmarked'[u] - unmarked[u]
  BY <1>0, <1>2, <1>3, <1>12, TeamAssumption DEF TeamShape
<1>14. \A m \in 1..MaxInvites : invite'[u][m].state # "none" <=> m <= issued'[u]
  BY <1>0, <1>2, <1>3, <1>6, <1>11 DEF JoinInv
<1>15. JoinInv'
  BY <1>0, <1>2, <1>3, <1>6, <1>7, <1>9, <1>10, <1>13, <1>14, JoinStep
<1>. QED
  BY <1>7, <1>8, <1>15 DEF TeamInv

\* A request is cut off: a join whose mark is lost is no longer charged to the
\* request, and counted as unmarked.
LEMMA TeamStepCut == ASSUME TeamInv, NEW s \in Slots, AcceptCut(s) PROVE TeamInv'
<1>0. TeamShape /\ OwnerInv /\ JoinInv
  BY DEF TeamInv
<1>. DEFINE lost == handler[s].op = "mark" /\ handler[s].joined
<1>1. handler[s].op \in {"accept", "join", "mark"} /\ handler[s] \in Accepts \cup Marks
  BY <1>0, HandlerHeld DEF AcceptCut
<1>2. PICK u \in Users, n \in 1..MaxInvites : handler[s].user = u /\ handler[s].n = n
  BY <1>1 DEF Accepts, Marks
<1>3. /\ handler' = [handler EXCEPT ![s] = Free]
      /\ UNCHANGED <<member, admins, invite, raced, joins, issued>>
  BY DEF AcceptCut
<1>4. CASE ~lost
  <2>1. unmarked' = unmarked
    BY <1>0, <1>2, <1>4 DEF AcceptCut, TeamShape
  <2>2. Stage(handler[s]) \in {"accept", "skip"}
    BY <1>1, <1>4 DEF Stage
  <2>. QED
    BY <1>2, <1>3, <2>1, <2>2, TeamStepRefused
<1>5. CASE lost
  <2>1. unmarked' = [unmarked EXCEPT ![u] = @ + 1] /\ unmarked[u] < MaxUnmarked /\ Stage(handler[s]) = "mark"
    BY <1>2, <1>5 DEF AcceptCut, Stage
  <2>2. Free \in HandlerStates /\ Free.op = "free" /\ Stage(Free) = "none"
    BY DEF HandlerStates, Free, Stage
  <2>3. /\ handler' \in [Slots -> HandlerStates] /\ handler'[s] = Free
        /\ \A t \in Slots : t # s => handler'[t] = handler[t]
    BY <1>0, <1>3, <2>2, HandlerMoves
  <2>4. /\ unmarked' \in [Users -> 0..MaxUnmarked] /\ unmarked'[u] = unmarked[u] + 1
        /\ \A v \in Users : v # u => unmarked'[v] = unmarked[v]
    BY <1>0, <2>1, TeamAssumption DEF TeamShape
  <2>5. TeamShape'
    BY <1>0, <1>3, <2>3, <2>4 DEF TeamShape, HandlerStates
  <2>6. OwnerInv'
    BY <1>0, <1>3, <2>2, <2>3 DEF OwnerInv
  <2>7. \A v \in Users, m \in 1..MaxInvites, op \in Stages :
           v # u \/ m # n \/ op # "mark" => At(op, v, m)' = At(op, v, m)
    BY <1>0, <1>2, <2>1, <2>2, <2>3, AtMoves DEF Stages
  <2>8. \A v \in Users, m \in 1..MaxInvites : v # u \/ m # n => Charged(v, m)' = Charged(v, m)
    BY <1>3, <2>7 DEF Charged, Stages
  <2>9. s \in At("mark", u, n) /\ At("mark", u, n)' = At("mark", u, n) \ {s}
    BY <1>2, <2>1, <2>2, <2>3 DEF At
  <2>10. invite[u][n].state # "none"
    BY <1>0, <2>9 DEF JoinInv, Stages
  <2>11. Charged(u, n)' >= Charged(u, n) - 1 /\ Charged(u, n)' \in Nat /\ Charged(u, n) \in Nat
    <3>1. Charged(u, n) \in Nat
      BY ChargedNat DEF ChargesCount
    <3>2. CASE invite[u][n].state = "open"
      <4>1. IsFiniteSet(At("mark", u, n)) /\ Cardinality(At("mark", u, n)) \in Nat
        BY AtBounds
      <4>2. /\ Cardinality(At("mark", u, n) \ {s}) = Cardinality(At("mark", u, n)) - 1
            /\ Cardinality(At("mark", u, n) \ {s}) \in Nat
        BY <2>9, <4>1, FS_RemoveElement, FS_CardinalityType
      <4>3. Charged(u, n)' = Cardinality(At("mark", u, n) \ {s}) /\ Charged(u, n) = Cardinality(At("mark", u, n))
        BY <1>3, <2>9, <3>2 DEF Charged
      <4>. QED
        BY <4>1, <4>2, <4>3
    <3>3. CASE invite[u][n].state # "open"
      <4>1. Charged(u, n)' = Charged(u, n)
        BY <1>3, <2>7, <3>3 DEF Charged, Stages
      <4>. QED
        BY <3>1, <4>1
    <3>. QED
      BY <3>2, <3>3
  <2>12. joins'[u] - joins[u] <= Charged(u, n)' - Charged(u, n) + unmarked'[u] - unmarked[u]
    BY <1>0, <1>3, <2>4, <2>11, TeamAssumption DEF TeamShape
  <2>13. \A m \in 1..MaxInvites : invite'[u][m].state # "none" <=> m <= issued'[u]
    BY <1>0, <1>3 DEF JoinInv
  <2>14. JoinInv'
    BY <1>0, <1>3, <2>4, <2>5, <2>7, <2>8, <2>10, <2>12, <2>13, JoinStep
  <2>. QED
    BY <2>5, <2>6, <2>14 DEF TeamInv
<1>. QED
  BY <1>4, <1>5

\* Every step of the team.
LEMMA TeamStep == ASSUME TeamInv, TeamNext PROVE TeamInv'
<1>0. TeamShape /\ OwnerInv /\ JoinInv
  BY DEF TeamInv
<1>1. ASSUME NEW u \in Users, IssueSession(u) \/ TokenExpires(u) PROVE TeamInv'
  <2>1. admins' \subseteq Users /\ UNCHANGED <<member, invite, handler, raced, joins, issued, unmarked>>
    BY <1>0, <1>1 DEF IssueSession, TokenExpires, TeamShape
  <2>2. JoinInv'
    BY <1>0, <2>1, JoinStays DEF At
  <2>. QED
    BY <1>0, <2>1, <2>2 DEF TeamInv, TeamShape, OwnerInv
<1>. QED
  BY <1>1, TeamStepCheck, TeamStepWrite, TeamStepInvite, TeamStepRead, TeamStepExpire, TeamStepLookup, TeamStepJoin,
     TeamStepMark, TeamStepCut
  DEF TeamNext

\* What follows for the properties of the team.
LEMMA TeamSafe == TeamInv => TeamTypeOK /\ OwnerRemains /\ InviteSpent
<1>. SUFFICES ASSUME TeamInv PROVE TeamTypeOK /\ OwnerRemains /\ InviteSpent
  OBVIOUS
<1>0. TeamShape /\ OwnerInv /\ JoinInv
  BY DEF TeamInv
<1>1. TeamTypeOK
  <2>1. \A u \in Users, n \in 1..MaxInvites : invite[u][n].state \in {"none", "open", "accepted", "expired"}
    BY <1>0 DEF TeamShape, InviteStates
  <2>. QED
    BY <1>0, <2>1, HandlerHeld DEF TeamShape, TeamTypeOK
<1>2. OwnerRemains
  BY <1>0 DEF OwnerInv, OwnerRemains, Owners
<1>3. ASSUME NEW u \in Users PROVE joins[u] <= issued[u] * Cardinality(Slots) + unmarked[u]
  <2>. DEFINE f == Charges(u)
              I == 1..issued[u]
  <2>1. issued[u] \in 0..MaxInvites /\ MaxInvites \in Nat /\ joins[u] \in Nat /\ unmarked[u] \in Nat
    BY <1>0, TeamAssumption DEF TeamShape
  <2>2. IsFiniteSet(1..MaxInvites) /\ IsFiniteSet(I) /\ Cardinality(I) = issued[u] /\ I \subseteq 1..MaxInvites
    <3>1. issued[u] \in Int /\ MaxInvites \in Int /\ 1 \in Int
      BY <2>1
    <3>2. IsFiniteSet(1..MaxInvites) /\ IsFiniteSet(I)
      BY <3>1, FS_Interval
    <3>3. Cardinality(I) = IF 1 > issued[u] THEN 0 ELSE issued[u] - 1 + 1
      BY <3>1, FS_Interval
    <3>. QED
      BY <2>1, <3>2, <3>3
  <2>3. \A n \in 1..MaxInvites : f[n] = Charged(u, n) /\ f[n] \in Nat /\ f[n] \in Int /\ f[n] <= Cardinality(Slots)
    BY ChargedNat DEF Charges, ChargesCount
  <2>4. \A n \in (1..MaxInvites) \ I : f[n] = 0
    <3>1. TAKE n \in (1..MaxInvites) \ I
    <3>2. invite[u][n].state = "none"
      BY <1>0, <2>1 DEF JoinInv
    <3>. QED
      BY <2>3, <3>2 DEF Charged
  <2>5. Cardinality(Slots) \in Nat
    BY TeamAssumption, FS_CardinalityType
  <2>6. joins[u] <= SumFunctionOnSet(f, 1..MaxInvites) + unmarked[u]
    BY <1>0 DEF JoinInv
  <2>. HIDE DEF f, I
  <2>7. SumFunctionOnSet(f, 1..MaxInvites) = SumFunctionOnSet(f, I)
    BY <2>2, <2>3, <2>4, SumWithoutZeros
  <2>8. SumFunctionOnSet(f, I) \in Nat /\ SumFunctionOnSet(f, I) <= Cardinality(I) * Cardinality(Slots)
    BY <2>2, <2>3, <2>5, SumBound
  <2>9. PICK k : k = issued[u] * Cardinality(Slots)
    OBVIOUS
  <2>10. k \in Nat
    BY <2>1, <2>5, <2>9
  <2>11. SumFunctionOnSet(f, I) <= k
    BY <2>2, <2>8, <2>9
  <2>. QED
    BY <2>1, <2>6, <2>7, <2>8, <2>9, <2>10, <2>11
<1>. QED
  BY <1>1, <1>2, <1>3 DEF InviteSpent

-----------------------------------------------------------------------------
(* Ledger.  What a job has summed and what a run holds is the cost of the  *)
(* day, unless rows moved since (SumInv).                                  *)

BillsRead == [at : {"fetched"}, day : LedgerDays, bill : {0, 1}]
Sums == [at : {"summed"}, day : LedgerDays, bill : {0, 1}, cost : Nat]

LedgerShape ==
    /\ today \in LedgerDays /\ credential \in BOOLEAN
    /\ \A r \in LedgerRows : records[r] = {} \/
         \E d \in LedgerDays, class \in RowClasses : d <= today /\ records[r] = {[day |-> d, class |-> class]}
    /\ records = [r \in LedgerRows |-> records[r]]
    /\ billed \in [LedgerDays -> {0, 1}] /\ retention \in Retentions
    /\ runs \in [LedgerDays -> SUBSET [bill : {0, 1}, cost : Nat]]
    /\ \A d \in LedgerDays : \A x, y \in runs[d] : x = y
    /\ job \in [CronRuns -> {[at |-> "idle"]} \cup BillsRead \cup Sums]
    /\ prune \in {[at |-> "idle"]} \cup [at : {"batch"}, days : Retentions \ {0}]
    /\ moved \subseteq LedgerDays

SumInv ==
    /\ ~wronged
    /\ \A d \in LedgerDays : \A x \in runs[d] :
         x.bill = billed[d] /\ (x.cost = DayCost(d) \/ d \in moved)
    /\ \A j \in CronRuns :
         /\ job[j].at # "idle" => job[j].bill = billed[job[j].day]
         /\ job[j].at = "summed" => job[j].cost = DayCost(job[j].day) \/ job[j].day \in moved

LedgerInv == LedgerShape /\ SumInv

Jobs == {[at |-> "idle"]} \cup BillsRead \cup Sums

\* What a job carries at each of its steps.
LEMMA JobHeld ==
    ASSUME LedgerShape, NEW j \in CronRuns
    PROVE  /\ job[j].at \in {"idle", "fetched", "summed"}
           /\ job[j].at = "fetched" => job[j] \in BillsRead
           /\ job[j].at = "summed" => job[j] \in Sums
           /\ job[j].at # "idle" => job[j].day \in LedgerDays /\ job[j].bill \in {0, 1}
BY DEF LedgerShape, BillsRead, Sums

\* The day of a row, and the cost of a day, is a number.
LEMMA DayCostNat == ASSUME NEW d PROVE DayCost(d) \in Nat
<1>. DEFINE S == {r \in RowsOf(d) : \A x \in records[r] : x.class # "unpriced"}
<1>1. S \subseteq LedgerRows
  BY DEF RowsOf
<1>2. IsFiniteSet(S)
  BY <1>1, LedgerAssumption, FS_Subset
<1>. QED
  BY <1>2, FS_CardinalityType DEF DayCost

\* One row changes.
LEMMA RecordsMove ==
    ASSUME LedgerShape, NEW r \in LedgerRows, NEW q, records' = [records EXCEPT ![r] = q]
    PROVE  /\ records'[r] = q /\ \A s \in LedgerRows : s # r => records'[s] = records[s]
           /\ records' = [s \in LedgerRows |-> records'[s]]
<1>1. records = [s \in LedgerRows |-> records[s]]
  BY DEF LedgerShape
<1>2. records' = [s \in LedgerRows |-> IF s = r THEN q ELSE records[s]]
  BY <1>1
<1>. QED
  BY <1>2

\* A change of one row moves the cost of its day only.
LEMMA OneDayMoves ==
    ASSUME LedgerShape, NEW r \in LedgerRows, NEW q, records' = [records EXCEPT ![r] = q],
           NEW d, \A x \in records[r] : x.day = d, \A x \in q : x.day = d
    PROVE  \A e \in LedgerDays : e # d => DayCost(e)' = DayCost(e)
<1>1. \A s \in LedgerRows : s # r => records'[s] = records[s]
  BY DEF LedgerShape
<1>2. records'[r] = q
  BY DEF LedgerShape
<1>3. ASSUME NEW e \in LedgerDays, e # d PROVE DayCost(e)' = DayCost(e)
  <2>1. r \notin RowsOf(e) /\ r \notin RowsOf(e)'
    BY <1>2, <1>3 DEF RowsOf
  <2>2. RowsOf(e)' = RowsOf(e)
    BY <1>1, <2>1 DEF RowsOf
  <2>3. {s \in RowsOf(e) : \A x \in records[s] : x.class # "unpriced"}' =
          {s \in RowsOf(e) : \A x \in records[s] : x.class # "unpriced"}
    BY <1>1, <2>1, <2>2 DEF RowsOf
  <2>. QED
    BY <2>3 DEF DayCost
<1>. QED
  BY <1>3

\* SumInv after a change of the rows of one day, which is remembered as moved
\* when somebody holds its sum.
LEMMA SumStep1 ==
    ASSUME LedgerShape, SumInv, NEW d \in LedgerDays,
           \A e \in LedgerDays : e # d => DayCost(e)' = DayCost(e),
           moved' = IF Summed(d) THEN moved \cup {d} ELSE moved,
           ~wronged', UNCHANGED <<runs, job, billed>>
    PROVE  SumInv'
<1>1. \A e \in LedgerDays : Summed(e) => DayCost(e)' = DayCost(e) \/ e \in moved'
  OBVIOUS
<1>2. moved \subseteq moved'
  OBVIOUS
<1>3. \A e \in LedgerDays : \A x \in runs[e] : x.cost = DayCost(e)' \/ e \in moved'
  BY <1>1, <1>2 DEF SumInv, Summed
<1>4. \A j \in CronRuns : job[j].at = "summed" => job[j].cost = DayCost(job[j].day)' \/ job[j].day \in moved'
  <2>1. TAKE j \in CronRuns
  <2>2. HAVE job[j].at = "summed"
  <2>3. job[j].day \in LedgerDays /\ Summed(job[j].day)
    BY <2>2, JobHeld DEF Summed
  <2>. QED
    BY <1>1, <1>2, <2>2, <2>3 DEF SumInv
<1>. QED
  BY <1>3, <1>4 DEF SumInv

\* Nothing is summed in the beginning.
LEMMA LedgerBegin == LedgerInit => LedgerInv
<1>. SUFFICES ASSUME LedgerInit PROVE LedgerInv
  OBVIOUS
<1>1. today \in LedgerDays
  BY LedgerAssumption DEF LedgerInit, LedgerDays
<1>2. job \in [CronRuns -> Jobs] /\ \A j \in CronRuns : job[j].at = "idle"
  BY DEF LedgerInit, Jobs
<1>3. runs \in [LedgerDays -> SUBSET [bill : {0, 1}, cost : Nat]] /\ \A d \in LedgerDays : runs[d] = {}
  BY DEF LedgerInit
<1>4. LedgerShape
  BY <1>1, <1>2, <1>3 DEF LedgerInit, LedgerShape, Jobs
<1>5. SumInv
  BY <1>2, <1>3 DEF LedgerInit, SumInv
<1>. QED
  BY <1>4, <1>5 DEF LedgerInv

\* Rows come and go.
LEMMA LedgerStepRows ==
    ASSUME LedgerInv, NEW r \in LedgerRows,
           \/ \E d \in LedgerDays, class \in RowClasses : RowArrives(r, d, class)
           \/ DeleteBatch(r)
    PROVE  LedgerInv'
<1>0. LedgerShape /\ SumInv
  BY DEF LedgerInv
<1>1. ASSUME NEW d \in LedgerDays, NEW class \in RowClasses, RowArrives(r, d, class) PROVE LedgerInv'
  <2>. DEFINE q == {[day |-> d, class |-> class]}
  <2>1. /\ records[r] = {} /\ d <= today /\ records' = [records EXCEPT ![r] = q]
        /\ moved' = IF Summed(d) THEN moved \cup {d} ELSE moved
        /\ UNCHANGED <<today, billed, credential, runs, job, retention, prune, wronged>>
    BY <1>1 DEF RowArrives
  <2>2. \A x \in q : x.day = d
    OBVIOUS
  <2>3. \E e \in LedgerDays, c \in RowClasses : e <= today /\ q = {[day |-> e, class |-> c]}
    BY <2>1
  <2>. HIDE DEF q
  <2>4. \A e \in LedgerDays : e # d => DayCost(e)' = DayCost(e)
    BY <1>0, <2>1, <2>2, OneDayMoves
  <2>5. SumInv'
    <3>1. ~wronged'
      BY <1>0, <2>1 DEF SumInv
    <3>. QED
      BY <1>0, <2>1, <2>4, <3>1, SumStep1
  <2>6. LedgerShape'
    <3>1. /\ \A s \in LedgerRows : records'[s] = {} \/
               \E e \in LedgerDays, c \in RowClasses : e <= today' /\ records'[s] = {[day |-> e, class |-> c]}
          /\ records' = [s \in LedgerRows |-> records'[s]]
      <4>1. /\ records'[r] = q /\ \A s \in LedgerRows : s # r => records'[s] = records[s]
            /\ records' = [s \in LedgerRows |-> records'[s]]
        BY <1>0, <2>1, RecordsMove
      <4>2. today' = today
        BY <2>1
      <4>. QED
        BY <1>0, <2>3, <4>1, <4>2 DEF LedgerShape
    <3>2. moved' \subseteq LedgerDays
      BY <1>0, <2>1 DEF LedgerShape
    <3>. QED
      BY <1>0, <2>1, <3>1, <3>2 DEF LedgerShape
  <2>. QED
    BY <2>5, <2>6 DEF LedgerInv
<1>2. CASE DeleteBatch(r)
  <2>1. PICK x \in records[r] :
         /\ ExpiredAt(x.day, prune.days)
         /\ records' = [records EXCEPT ![r] = {}]
         /\ moved' = IF Summed(x.day) THEN moved \cup {x.day} ELSE moved
         /\ wronged' = (wronged \/ (prune.days = retention /\ (retention = 0 \/ x.day + retention >= today)))
    BY <1>2 DEF DeleteBatch
  <2>2. prune.at = "batch" /\ UNCHANGED <<today, billed, credential, runs, job, retention, prune>>
    BY <1>2 DEF DeleteBatch
  <2>3. PICK d \in LedgerDays : d = x.day /\ \A y \in records[r] : y.day = d
    <3>1. PICK e \in LedgerDays, c \in RowClasses : records[r] = {[day |-> e, class |-> c]}
      BY <1>0, <2>1 DEF LedgerShape
    <3>. QED
      BY <2>1, <3>1
  <2>4. prune.days \in Nat \ {0} /\ d \in Nat /\ today \in Nat
    <3>1. prune.days \in Nat \ {0}
      BY <1>0, <2>2, LedgerAssumption DEF LedgerShape
    <3>. QED
      BY <1>0, <3>1, LedgerAssumption DEF LedgerShape, LedgerDays
  <2>5. ~wronged'
    <3>1. ~wronged
      BY <1>0 DEF SumInv
    <3>2. d + prune.days < today
      BY <2>1, <2>3 DEF ExpiredAt
    <3>3. ~(prune.days = retention /\ (retention = 0 \/ d + retention >= today))
      BY <2>4, <3>2
    <3>. QED
      BY <2>1, <2>3, <3>1, <3>3
  <2>6. \A e \in LedgerDays : e # d => DayCost(e)' = DayCost(e)
    <3>. DEFINE q == {}
    <3>1. records' = [records EXCEPT ![r] = q]
      BY <2>1
    <3>2. \A y \in q : y.day = d
      OBVIOUS
    <3>3. LedgerShape /\ \A y \in records[r] : y.day = d
      BY <1>0, <2>3
    <3>. HIDE DEF q
    <3>. QED
      BY <3>1, <3>2, <3>3, OneDayMoves
  <2>7. SumInv'
    BY <1>0, <2>1, <2>2, <2>3, <2>5, <2>6, SumStep1
  <2>8. LedgerShape'
    <3>1. /\ \A s \in LedgerRows : records'[s] = {} \/
               \E e \in LedgerDays, c \in RowClasses : e <= today' /\ records'[s] = {[day |-> e, class |-> c]}
          /\ records' = [s \in LedgerRows |-> records'[s]]
      <4>1. /\ records'[r] = {} /\ \A s \in LedgerRows : s # r => records'[s] = records[s]
            /\ records' = [s \in LedgerRows |-> records'[s]]
        BY <1>0, <2>1, RecordsMove
      <4>2. today' = today
        BY <2>2
      <4>. QED
        BY <1>0, <4>1, <4>2 DEF LedgerShape
    <3>2. moved' \subseteq LedgerDays
      BY <1>0, <2>1, <2>3 DEF LedgerShape
    <3>. QED
      BY <1>0, <2>2, <3>1, <3>2 DEF LedgerShape
  <2>. QED
    BY <2>7, <2>8 DEF LedgerInv
<1>. QED
  BY <1>1, <1>2

\* Costs stay while the rows do.
LEMMA CostsStay == ASSUME UNCHANGED records PROVE \A d : DayCost(d)' = DayCost(d)
BY DEF DayCost, RowsOf

\* One job changes.
LEMMA JobMoves ==
    ASSUME LedgerShape, NEW j \in CronRuns, NEW q \in Jobs, job' = [job EXCEPT ![j] = q]
    PROVE  /\ job' \in [CronRuns -> Jobs] /\ job'[j] = q
           /\ \A i \in CronRuns : i # j => job'[i] = job[i]
BY DEF LedgerShape, Jobs

\* The reconcile jobs.
LEMMA LedgerStepJobs ==
    ASSUME LedgerInv, NEW j \in CronRuns, FetchBill(j) \/ SumDay(j) \/ StoreRun(j) \/ JobDies(j)
    PROVE  LedgerInv'
<1>0. LedgerShape /\ SumInv
  BY DEF LedgerInv
<1>1. ASSUME NEW q \in Jobs, job' = [job EXCEPT ![j] = q],
             q.at # "idle" => q.bill = billed[q.day],
             q.at = "summed" => q.cost = DayCost(q.day),
             UNCHANGED <<today, records, billed, credential, runs, retention, prune, moved, wronged>>
      PROVE  LedgerInv'
  <2>1. /\ job' \in [CronRuns -> Jobs] /\ job'[j] = q
        /\ \A i \in CronRuns : i # j => job'[i] = job[i]
    BY <1>0, <1>1, JobMoves
  <2>2. \A d : DayCost(d)' = DayCost(d)
    BY <1>1, CostsStay
  <2>3. LedgerShape'
    BY <1>0, <1>1, <2>1 DEF LedgerShape, Jobs
  <2>4. SumInv'
    BY <1>0, <1>1, <2>1, <2>2 DEF SumInv
  <2>. QED
    BY <2>3, <2>4 DEF LedgerInv
<1>2. CASE FetchBill(j)
  <2>. DEFINE q == [at |-> "fetched", day |-> today - 1, bill |-> billed[today - 1]]
  <2>1. today - 1 \in LedgerDays
    BY <1>0, <1>2, LedgerAssumption DEF FetchBill, LedgerShape, LedgerDays
  <2>2. q \in Jobs
    BY <1>0, <2>1 DEF LedgerShape, Jobs, BillsRead
  <2>. QED
    BY <1>1, <1>2, <2>2 DEF FetchBill
<1>3. CASE SumDay(j)
  <2>. DEFINE q == [at |-> "summed", day |-> job[j].day, bill |-> job[j].bill, cost |-> DayCost(job[j].day)]
  <2>1. job[j].at = "fetched" /\ job[j] \in BillsRead /\ job[j].bill = billed[job[j].day]
    BY <1>0, <1>3, JobHeld DEF SumDay, SumInv
  <2>2. q \in Jobs
    BY <2>1, DayCostNat DEF Jobs, BillsRead, Sums
  <2>. QED
    BY <1>1, <1>3, <2>1, <2>2 DEF SumDay
<1>4. CASE StoreRun(j)
  <2>. DEFINE x == [bill |-> job[j].bill, cost |-> job[j].cost]
  <2>1. job[j].at = "summed" /\ job[j] \in Sums
    BY <1>0, <1>4, JobHeld DEF StoreRun
  <2>2. PICK d \in LedgerDays : d = job[j].day
    BY <2>1 DEF Sums
  <2>3. /\ x \in [bill : {0, 1}, cost : Nat] /\ x.bill = billed[d]
        /\ x.cost = DayCost(d) \/ d \in moved
    BY <1>0, <2>1, <2>2 DEF Sums, SumInv
  <2>4. /\ runs' = [runs EXCEPT ![d] = {x}] /\ job' = [job EXCEPT ![j] = [at |-> "idle"]]
        /\ UNCHANGED <<today, records, billed, credential, retention, prune, moved, wronged>>
    BY <1>4, <2>2 DEF StoreRun
  <2>. HIDE DEF x
  <2>5. /\ job' \in [CronRuns -> Jobs] /\ job'[j] = [at |-> "idle"]
        /\ \A i \in CronRuns : i # j => job'[i] = job[i]
    <3>1. [at |-> "idle"] \in Jobs
      BY DEF Jobs
    <3>. QED
      BY <1>0, <2>4, <3>1, JobMoves
  <2>6. \A e : DayCost(e)' = DayCost(e)
    BY <2>4, CostsStay
  <2>7. /\ runs' \in [LedgerDays -> SUBSET [bill : {0, 1}, cost : Nat]]
        /\ runs'[d] = {x} /\ \A e \in LedgerDays : e # d => runs'[e] = runs[e]
    BY <1>0, <2>3, <2>4 DEF LedgerShape
  <2>8. LedgerShape'
    BY <1>0, <2>4, <2>5, <2>7 DEF LedgerShape, Jobs
  <2>9. SumInv'
    <3>1. \A e \in LedgerDays : \A y \in runs'[e] : y.bill = billed[e] /\ (y.cost = DayCost(e) \/ e \in moved)
      BY <1>0, <2>3, <2>7 DEF SumInv
    <3>. QED
      BY <1>0, <2>4, <2>5, <2>6, <3>1 DEF SumInv
  <2>. QED
    BY <2>8, <2>9 DEF LedgerInv
<1>5. CASE JobDies(j)
  <2>. DEFINE q == [at |-> "idle"]
  <2>1. q \in Jobs /\ q.at = "idle"
    BY DEF Jobs
  <2>. QED
    BY <1>1, <1>5, <2>1 DEF JobDies
<1>. QED
  BY <1>2, <1>3, <1>4, <1>5

\* Every step of the ledger.
LEMMA LedgerStep == ASSUME LedgerInv, LedgerNext PROVE LedgerInv'
<1>0. LedgerShape /\ SumInv
  BY DEF LedgerInv
<1>1. ASSUME UNCHANGED <<records, billed, runs, job, moved, wronged>>,
             today' \in LedgerDays, today' >= today, credential' \in BOOLEAN, retention' \in Retentions,
             prune' \in {[at |-> "idle"]} \cup [at : {"batch"}, days : Retentions \ {0}]
      PROVE  LedgerInv'
  <2>1. \A d : DayCost(d)' = DayCost(d)
    BY <1>1, CostsStay
  <2>2. \A d \in LedgerDays : d <= today => d <= today'
    BY <1>0, <1>1, LedgerAssumption DEF LedgerShape, LedgerDays
  <2>3. LedgerShape'
    BY <1>0, <1>1, <2>2 DEF LedgerShape
  <2>4. SumInv'
    BY <1>0, <1>1, <2>1 DEF SumInv
  <2>. QED
    BY <2>3, <2>4 DEF LedgerInv
<1>2. today \in Nat /\ today >= today
  BY <1>0, LedgerAssumption DEF LedgerShape, LedgerDays
<1>3. CASE DayPasses
  <2>1. today' \in LedgerDays /\ today' >= today
    BY <1>2, <1>3, LedgerAssumption DEF DayPasses, LedgerDays
  <2>. QED
    BY <1>0, <1>1, <1>3, <2>1 DEF DayPasses, LedgerShape
<1>4. ASSUME NEW on \in BOOLEAN, SetCredential(on) PROVE LedgerInv'
  BY <1>0, <1>1, <1>2, <1>4 DEF SetCredential, LedgerShape
<1>5. ASSUME NEW days \in Retentions, PlanRetention(days) PROVE LedgerInv'
  BY <1>0, <1>1, <1>2, <1>5 DEF PlanRetention, LedgerShape
<1>6. CASE StartPrune
  <2>1. prune' \in {[at |-> "idle"]} \cup [at : {"batch"}, days : Retentions \ {0}]
    BY <1>0, <1>6 DEF StartPrune, Limited, LedgerShape
  <2>. QED
    BY <1>0, <1>1, <1>2, <1>6, <2>1 DEF StartPrune, LedgerShape
<1>7. CASE EndPrune
  BY <1>0, <1>1, <1>2, <1>7 DEF EndPrune, LedgerShape
<1>. QED
  BY <1>3, <1>4, <1>5, <1>6, <1>7, LedgerStepRows, LedgerStepJobs DEF LedgerNext

\* What follows for the properties of the ledger.
LEMMA LedgerSafe == LedgerInv => LedgerTypeOK /\ ReconciledBacked /\ KeptRowsStay
<1>. SUFFICES ASSUME LedgerInv PROVE LedgerTypeOK /\ ReconciledBacked /\ KeptRowsStay
  OBVIOUS
<1>0. LedgerShape /\ SumInv
  BY DEF LedgerInv
<1>1. LedgerTypeOK
  <2>1. ASSUME NEW r \in LedgerRows PROVE Cardinality(records[r]) <= 1 /\ \A x \in records[r] : x.day <= today
    <3>1. CASE records[r] = {}
      BY <3>1, FS_EmptySet
    <3>2. CASE records[r] # {}
      <4>1. PICK d \in LedgerDays, class \in RowClasses : d <= today /\ records[r] = {[day |-> d, class |-> class]}
        BY <1>0, <3>2 DEF LedgerShape
      <4>2. Cardinality(records[r]) = 1
        BY <4>1, FS_Singleton
      <4>. QED
        BY <4>1, <4>2
    <3>. QED
      BY <3>1, <3>2
  <2>2. ASSUME NEW d \in LedgerDays PROVE Cardinality(runs[d]) <= 1
    <3>1. CASE runs[d] = {}
      BY <3>1, FS_EmptySet
    <3>2. CASE runs[d] # {}
      <4>0. PICK x : x \in runs[d]
        BY <3>2
      <4>1. runs[d] = {x}
        <5>1. \A y \in runs[d] : y = x
          BY <1>0, <4>0 DEF LedgerShape
        <5>. QED
          BY <4>0, <5>1
      <4>2. Cardinality(runs[d]) = 1
        BY <4>1, FS_Singleton
      <4>. QED
        BY <4>2
    <3>. QED
      BY <3>1, <3>2
  <2>. QED
    BY <1>0, <2>1, <2>2 DEF LedgerShape, LedgerTypeOK
<1>2. ReconciledBacked
  <2>. SUFFICES ASSUME NEW from \in LedgerDays, NEW r \in LedgerRows, NEW x \in records[r],
                       x.day >= from, ConfidenceClass(r, from) = "reconciled",
                       NEW d \in from..today, RowsOf(d) # {}
                PROVE  DayCost(d) = billed[d] \/ d \in moved
    BY DEF ReconciledBacked
  <2>1. PeriodStatus(from) = "reconciled"
    <3>1. PICK e \in LedgerDays, class \in RowClasses : records[r] = {[day |-> e, class |-> class]}
      BY <1>0 DEF LedgerShape
    <3>2. (CHOOSE y \in records[r] : TRUE).class # "reconciled"
      BY <3>1 DEF RowClasses
    <3>. QED
      BY <3>2 DEF ConfidenceClass
  <2>2. d \in LedgerDays /\ d \in SpendDays(from)
    BY <1>0, LedgerAssumption DEF LedgerShape, LedgerDays, SpendDays
  <2>3. runs[d] # {} /\ \A y \in runs[d] : DriftVerdict(y) # "drifted"
    BY <2>1, <2>2 DEF PeriodStatus
  <2>4. PICK y \in runs[d] : TRUE
    BY <2>3
  <2>5. y.bill = billed[d] /\ (y.cost = DayCost(d) \/ d \in moved)
    BY <1>0, <2>2 DEF SumInv
  <2>6. y.cost = y.bill
    BY <2>3 DEF DriftVerdict
  <2>. QED
    BY <2>5, <2>6
<1>3. KeptRowsStay
  BY <1>0 DEF SumInv, KeptRowsStay
<1>. QED
  BY <1>1, <1>2, <1>3

-----------------------------------------------------------------------------
(* Alerts and digests.  Until a run overlaps another or loses its record,  *)
(* one run at a time is between its decision and its record, and the last  *)
(* mail is on record or that run is its sender (AlertInv, DigestInv).      *)

Deciding == {"due", "sent"}

JobsShape ==
    /\ time \in 0..MaxTime /\ usage \in 0..MaxUsage
    /\ rule \in [enabled : BOOLEAN, threshold : Thresholds]
    /\ events \subseteq [at : Nat, ok : BOOLEAN]
    /\ alertRun \in [AlertRuns -> {JobIdle} \cup [at : {"rules"}, clock : Nat, count : Nat]
                       \cup [at : {"due"}, clock : Nat] \cup [at : {"sent"}, clock : Nat, ok : BOOLEAN]]
    /\ digestOn \in BOOLEAN
    /\ lastSent \in SUBSET Nat /\ \A t, u \in lastSent : t = u
    /\ digestRun \in [DigestRuns -> {JobIdle} \cup [at : {"fetched"}, clock : Nat, last : SUBSET Nat]
                        \cup [at : {"delivered"}, clock : Nat]]
    /\ alertMail \in SUBSET Nat /\ (\A t, u \in alertMail : t = u) /\ \A t \in alertMail : t <= time
    /\ digestMail \in SUBSET Nat /\ (\A t, u \in digestMail : t = u) /\ \A t \in digestMail : t <= time
    /\ clash \subseteq {"alert", "digest"} /\ excuse \subseteq {"alert", "digest"}
    /\ \A r \in AlertRuns : alertRun[r].at # "idle" => alertRun[r].clock <= time
    /\ \A r \in DigestRuns : digestRun[r].at # "idle" => digestRun[r].clock <= time

AlertInv ==
    "alert" \in excuse \/
    /\ "alert" \notin clash
    /\ \A r, s \in AlertRuns : alertRun[r].at \in Deciding /\ alertRun[s].at \in Deciding => r = s
    /\ \A r \in AlertRuns : alertRun[r].at = "due" => ShouldFire(alertRun[r].clock)
    /\ \A t \in alertMail :
         \/ \E e \in events : e.at = t
         \/ \E s \in AlertRuns : alertRun[s].at = "sent" /\ alertRun[s].clock <= t

DigestInv ==
    "digest" \in excuse \/
    /\ "digest" \notin clash
    /\ \A r, s \in DigestRuns :
         digestRun[r].at = "delivered" /\ digestRun[s].at = "delivered" => r = s
    /\ \A t \in digestMail :
         \/ t \in lastSent
         \/ \E s \in DigestRuns : digestRun[s].at = "delivered" /\ digestRun[s].clock <= t
    /\ \A s \in DigestRuns : digestRun[s].at = "delivered" =>
         \A t \in digestMail : digestRun[s].clock <= t

HostedAlertsInv == JobsShape /\ AlertInv /\ DigestInv

AlertRunStates ==
    {JobIdle} \cup [at : {"rules"}, clock : Nat, count : Nat] \cup [at : {"due"}, clock : Nat]
      \cup [at : {"sent"}, clock : Nat, ok : BOOLEAN]
DigestRunStates ==
    {JobIdle} \cup [at : {"fetched"}, clock : Nat, last : SUBSET Nat] \cup [at : {"delivered"}, clock : Nat]

\* What a run carries at each of its steps.
LEMMA AlertRunHeld ==
    ASSUME JobsShape, NEW r \in AlertRuns
    PROVE  /\ alertRun[r].at \in {"idle", "rules", "due", "sent"}
           /\ alertRun[r].at # "idle" => alertRun[r].clock \in Nat /\ alertRun[r].clock <= time
           /\ alertRun[r].at = "sent" => alertRun[r].ok \in BOOLEAN
<1>1. alertRun[r] \in AlertRunStates
  BY DEF JobsShape, AlertRunStates
<1>2. alertRun[r].at # "idle" => alertRun[r].clock <= time
  BY DEF JobsShape
<1>. QED
  BY <1>1, <1>2 DEF AlertRunStates, JobIdle

\* A run of the digest job past its start has its clock and what it read.
LEMMA DigestRunHeld ==
    ASSUME JobsShape, NEW r \in DigestRuns
    PROVE  /\ digestRun[r].at \in {"idle", "fetched", "delivered"}
           /\ digestRun[r].at # "idle" => digestRun[r].clock \in Nat /\ digestRun[r].clock <= time
           /\ digestRun[r].at = "fetched" => digestRun[r].last \in SUBSET Nat
<1>1. digestRun[r] \in DigestRunStates
  BY DEF JobsShape, DigestRunStates
<1>2. digestRun[r].at # "idle" => digestRun[r].clock <= time
  BY DEF JobsShape
<1>. QED
  BY <1>1, <1>2 DEF DigestRunStates, JobIdle

\* The clock is a number.
LEMMA TimeNat == ASSUME JobsShape PROVE time \in Nat /\ usage \in Nat
BY HostedAlertsAssumption DEF JobsShape

\* The jobs begin idle, before any rule has fired.
LEMMA JobsBegin == HostedAlertsInit => HostedAlertsInv
<1>. SUFFICES ASSUME HostedAlertsInit PROVE HostedAlertsInv
  OBVIOUS
<1>1. \A r \in AlertRuns : alertRun[r].at = "idle"
  BY DEF HostedAlertsInit, JobIdle
<1>2. \A r \in DigestRuns : digestRun[r].at = "idle"
  BY DEF HostedAlertsInit, JobIdle
<1>3. alertRun \in [AlertRuns -> {JobIdle}] /\ digestRun \in [DigestRuns -> {JobIdle}]
  BY DEF HostedAlertsInit
<1>4. time \in 0..MaxTime /\ usage \in 0..MaxUsage
  BY HostedAlertsAssumption DEF HostedAlertsInit
<1>5. rule \in [enabled : BOOLEAN, threshold : Thresholds]
  BY DEF HostedAlertsInit
<1>6. JobsShape
  BY <1>1, <1>2, <1>3, <1>4, <1>5 DEF HostedAlertsInit, JobsShape
<1>7. AlertInv
  BY <1>1 DEF HostedAlertsInit, AlertInv, Deciding
<1>8. DigestInv
  BY <1>2 DEF HostedAlertsInit, DigestInv
<1>. QED
  BY <1>6, <1>7, <1>8 DEF HostedAlertsInv

\* The shape after a step of one alert run.
LEMMA AlertShapeStep ==
    ASSUME JobsShape, NEW r \in AlertRuns, NEW q \in AlertRunStates, alertRun' = [alertRun EXCEPT ![r] = q],
           q.at # "idle" => q.clock <= time,
           events' \subseteq [at : Nat, ok : BOOLEAN],
           alertMail' = alertMail \/ alertMail' = {time},
           clash' = clash \/ clash' = clash \cup {"alert"},
           excuse' = excuse \/ excuse' = excuse \cup {"alert"},
           UNCHANGED <<time, usage, rule, digestSide>>
    PROVE  /\ JobsShape' /\ alertRun'[r] = q
           /\ \A s \in AlertRuns : s # r => alertRun'[s] = alertRun[s]
<1>1. /\ alertRun' \in [AlertRuns -> AlertRunStates] /\ alertRun'[r] = q
      /\ \A s \in AlertRuns : s # r => alertRun'[s] = alertRun[s]
  BY DEF JobsShape, AlertRunStates
<1>2. \A s \in AlertRuns : alertRun'[s].at # "idle" => alertRun'[s].clock <= time'
  BY <1>1 DEF JobsShape
<1>3. time \in Nat
  BY TimeNat
<1>4. /\ alertMail' \in SUBSET Nat /\ (\A t, u \in alertMail' : t = u) /\ \A t \in alertMail' : t <= time'
      /\ clash' \subseteq {"alert", "digest"} /\ excuse' \subseteq {"alert", "digest"}
  <2>1. clash' \subseteq {"alert", "digest"} /\ excuse' \subseteq {"alert", "digest"}
    BY DEF JobsShape
  <2>2. CASE alertMail' = alertMail
    BY <2>1, <2>2 DEF JobsShape
  <2>3. CASE alertMail' = {time}
    BY <1>3, <2>1, <2>3
  <2>. QED
    BY <2>2, <2>3
<1>5. UNCHANGED <<digestOn, lastSent, digestRun, digestMail>>
  BY DEF digestSide
<1>6. JobsShape'
  BY <1>1, <1>2, <1>4, <1>5 DEF JobsShape, AlertRunStates
<1>. QED
  BY <1>1, <1>6

\* The other job is not touched.
LEMMA DigestStays ==
    ASSUME DigestInv, UNCHANGED digestSide,
           clash' = clash \/ clash' = clash \cup {"alert"},
           excuse' = excuse \/ excuse' = excuse \cup {"alert"}
    PROVE  DigestInv'
<1>1. UNCHANGED <<digestOn, lastSent, digestRun, digestMail>>
  BY DEF digestSide
<1>2. ("digest" \in excuse' <=> "digest" \in excuse) /\ ("digest" \in clash' <=> "digest" \in clash)
  OBVIOUS
<1>. QED
  BY <1>1, <1>2 DEF DigestInv

\* The steps of an alert run.
LEMMA AlertStep ==
    ASSUME HostedAlertsInv, NEW r \in AlertRuns,
           \/ EvaluateAlerts(r) \/ EvaluateRule(r) \/ RecordAlert(r) \/ AlertRunDies(r)
           \/ \E ok \in BOOLEAN : DispatchAlert(r, ok)
    PROVE  HostedAlertsInv'
<1>0. JobsShape /\ AlertInv /\ DigestInv /\ time \in Nat /\ usage \in Nat
  BY TimeNat DEF HostedAlertsInv
<1>. DEFINE Others == \A s \in AlertRuns : s # r => alertRun'[s] = alertRun[s]
<1>1. CASE EvaluateAlerts(r)
  <2>. DEFINE q == [at |-> "rules", clock |-> time, count |-> usage]
  <2>1. /\ alertRun[r] = JobIdle /\ alertRun' = [alertRun EXCEPT ![r] = q]
        /\ UNCHANGED <<time, usage, rule, events, alertMail, digestSide, clash, excuse>>
    BY <1>1 DEF EvaluateAlerts
  <2>2. q \in AlertRunStates /\ q.clock <= time /\ q.at = "rules" /\ alertRun[r].at = "idle"
    BY <1>0, <2>1 DEF AlertRunStates, JobIdle
  <2>3. events' \subseteq [at : Nat, ok : BOOLEAN]
    BY <1>0, <2>1 DEF JobsShape
  <2>. HIDE DEF q
  <2>4. JobsShape' /\ alertRun'[r] = q /\ Others
    BY <1>0, <2>1, <2>2, <2>3, AlertShapeStep
  <2>5. DigestInv'
    BY <1>0, <2>1, DigestStays
  <2>6. AlertInv'
    BY <1>0, <2>1, <2>2, <2>4 DEF AlertInv, ShouldFire, Deciding
  <2>. QED
    BY <2>4, <2>5, <2>6 DEF HostedAlertsInv
<1>2. CASE EvaluateRule(r)
  <2>. DEFINE due == rule.enabled /\ alertRun[r].count >= rule.threshold /\ ShouldFire(alertRun[r].clock)
              q == IF due THEN [at |-> "due", clock |-> alertRun[r].clock] ELSE JobIdle
  <2>1. /\ alertRun[r].at = "rules" /\ alertRun' = [alertRun EXCEPT ![r] = q]
        /\ excuse' = IF due /\ \E s \in AlertRuns : alertRun[s].at \in Deciding
                     THEN excuse \cup {"alert"} ELSE excuse
        /\ UNCHANGED <<time, usage, rule, events, alertMail, digestSide, clash>>
    BY <1>2 DEF EvaluateRule, Deciding
  <2>2. alertRun[r].clock \in Nat /\ alertRun[r].clock <= time
    BY <1>0, <2>1, AlertRunHeld
  <2>3. /\ q \in AlertRunStates /\ (q.at # "idle" => q.clock <= time) /\ q.at \in {"idle", "due"}
        /\ q.at = "due" => due /\ q.clock = alertRun[r].clock
    BY <2>2 DEF AlertRunStates, JobIdle
  <2>4. events' \subseteq [at : Nat, ok : BOOLEAN] /\ (excuse' = excuse \/ excuse' = excuse \cup {"alert"})
    BY <1>0, <2>1 DEF JobsShape
  <2>. HIDE DEF q
  <2>5. JobsShape' /\ alertRun'[r] = q /\ Others
    BY <1>0, <2>1, <2>3, <2>4, AlertShapeStep
  <2>6. DigestInv'
    BY <1>0, <2>1, <2>4, DigestStays
  <2>7. AlertInv'
    <3>1. CASE "alert" \in excuse'
      BY <3>1 DEF AlertInv
    <3>2. CASE "alert" \notin excuse'
      <4>1. "alert" \notin excuse /\ (q.at = "due" => \A s \in AlertRuns : alertRun[s].at \notin Deciding)
        BY <2>1, <2>3, <3>2
      <4>2. q.at = "due" => ShouldFire(q.clock)
        BY <2>3
      <4>. HIDE DEF due
      <4>. QED
        BY <1>0, <2>1, <2>3, <2>5, <4>1, <4>2 DEF AlertInv, ShouldFire, Deciding
    <3>. QED
      BY <3>1, <3>2
  <2>. QED
    BY <2>5, <2>6, <2>7 DEF HostedAlertsInv
<1>3. ASSUME NEW ok \in BOOLEAN, DispatchAlert(r, ok) PROVE HostedAlertsInv'
  <2>. DEFINE q == [at |-> "sent", clock |-> alertRun[r].clock, ok |-> ok]
  <2>1. /\ alertRun[r].at = "due" /\ alertRun' = [alertRun EXCEPT ![r] = q]
        /\ alertMail' = IF ok THEN {time} ELSE alertMail
        /\ clash' = IF ok /\ \E t \in alertMail : t + QuietTime > time THEN clash \cup {"alert"} ELSE clash
        /\ UNCHANGED <<time, usage, rule, events, digestSide, excuse>>
    BY <1>3 DEF DispatchAlert
  <2>2. alertRun[r].clock \in Nat /\ alertRun[r].clock <= time
    BY <1>0, <2>1, AlertRunHeld
  <2>3. q \in AlertRunStates /\ q.clock <= time /\ q.at = "sent" /\ q.clock = alertRun[r].clock
    BY <2>2 DEF AlertRunStates
  <2>4. /\ events' \subseteq [at : Nat, ok : BOOLEAN] /\ (clash' = clash \/ clash' = clash \cup {"alert"})
        /\ alertMail' = alertMail \/ alertMail' = {time}
    BY <1>0, <2>1 DEF JobsShape
  <2>. HIDE DEF q
  <2>5. JobsShape' /\ alertRun'[r] = q /\ Others
    BY <1>0, <2>1, <2>3, <2>4, AlertShapeStep
  <2>6. DigestInv'
    BY <1>0, <2>1, <2>4, DigestStays
  <2>7. AlertInv'
    <3>1. CASE "alert" \in excuse
      BY <2>1, <3>1 DEF AlertInv
    <3>2. CASE "alert" \notin excuse
      <4>1. /\ "alert" \notin clash /\ ShouldFire(alertRun[r].clock)
            /\ \A s \in AlertRuns : alertRun[s].at \in Deciding => s = r
        BY <1>0, <2>1, <3>2 DEF AlertInv, Deciding
      <4>2. \A t \in alertMail : \E e \in events : e.at = t
        BY <1>0, <2>1, <3>2, <4>1 DEF AlertInv, Deciding
      <4>3. \A t \in alertMail : t + QuietTime <= time
        <5>1. TAKE t \in alertMail
        <5>2. t \in Nat /\ QuietTime \in Nat /\ t + QuietTime <= alertRun[r].clock
          BY <1>0, <4>1, <4>2, HostedAlertsAssumption DEF ShouldFire, JobsShape
        <5>. QED
          BY <1>0, <2>2, <5>2
      <4>4. "alert" \notin clash'
        <5>1. ~\E t \in alertMail : t + QuietTime > time
          <6>1. \A t \in alertMail : t + QuietTime \in Nat
            BY <1>0, HostedAlertsAssumption DEF JobsShape
          <6>. QED
            BY <1>0, <4>3, <6>1
        <5>. QED
          BY <2>1, <4>1, <5>1
      <4>5. \A s, u \in AlertRuns : alertRun'[s].at \in Deciding /\ alertRun'[u].at \in Deciding => s = u
        BY <2>5, <4>1
      <4>6. \A s \in AlertRuns : alertRun'[s].at # "due"
        BY <2>3, <2>5, <4>1 DEF Deciding
      <4>7. \A t \in alertMail' : \/ \E e \in events : e.at = t
                                  \/ \E s \in AlertRuns : alertRun'[s].at = "sent" /\ alertRun'[s].clock <= t
        BY <2>1, <2>2, <2>3, <2>5, <4>2
      <4>. QED
        BY <2>1, <4>4, <4>5, <4>6, <4>7 DEF AlertInv
    <3>. QED
      BY <3>1, <3>2
  <2>. QED
    BY <2>5, <2>6, <2>7 DEF HostedAlertsInv
<1>4. CASE RecordAlert(r)
  <2>. DEFINE e0 == [at |-> alertRun[r].clock, ok |-> alertRun[r].ok]
  <2>1. /\ alertRun[r].at = "sent" /\ alertRun' = [alertRun EXCEPT ![r] = JobIdle]
        /\ events' = events \cup {e0}
        /\ excuse' = IF alertRun[r].clock # time THEN excuse \cup {"alert"} ELSE excuse
        /\ UNCHANGED <<time, usage, rule, alertMail, digestSide, clash>>
    BY <1>4 DEF RecordAlert
  <2>2. alertRun[r].clock \in Nat /\ alertRun[r].clock <= time /\ alertRun[r].ok \in BOOLEAN
    BY <1>0, <2>1, AlertRunHeld
  <2>3. e0 \in [at : Nat, ok : BOOLEAN] /\ e0.at = alertRun[r].clock
    BY <2>2
  <2>. HIDE DEF e0
  <2>4. /\ events' \subseteq [at : Nat, ok : BOOLEAN] /\ (excuse' = excuse \/ excuse' = excuse \cup {"alert"})
        /\ JobIdle \in AlertRunStates /\ JobIdle.at = "idle"
    BY <1>0, <2>1, <2>3 DEF JobsShape, AlertRunStates, JobIdle
  <2>5. JobsShape' /\ alertRun'[r] = JobIdle /\ Others
    BY <1>0, <2>1, <2>4, AlertShapeStep
  <2>6. DigestInv'
    BY <1>0, <2>1, <2>4, DigestStays
  <2>7. AlertInv'
    <3>1. CASE "alert" \in excuse'
      BY <3>1 DEF AlertInv
    <3>2. CASE "alert" \notin excuse'
      <4>1. "alert" \notin excuse /\ alertRun[r].clock = time
        BY <2>1, <3>2
      <4>2. /\ "alert" \notin clash
            /\ \A s \in AlertRuns : alertRun[s].at \in Deciding => s = r
        BY <1>0, <2>1, <4>1 DEF AlertInv, Deciding
      <4>3. \A s \in AlertRuns : alertRun'[s].at \notin Deciding
        BY <2>4, <2>5, <4>2 DEF Deciding
      <4>4. \A t \in alertMail : \E e \in events' : e.at = t
        <5>1. TAKE t \in alertMail
        <5>2. CASE \E e \in events : e.at = t
          BY <2>1, <5>2
        <5>3. CASE \E s \in AlertRuns : alertRun[s].at = "sent" /\ alertRun[s].clock <= t
          <6>1. alertRun[r].clock <= t
            BY <4>2, <5>3 DEF Deciding
          <6>2. t \in Nat /\ t <= time
            BY <1>0 DEF JobsShape
          <6>3. e0.at = t
            BY <1>0, <2>3, <4>1, <6>1, <6>2
          <6>. QED
            BY <2>1, <6>3
        <5>. QED
          BY <1>0, <4>1, <5>2, <5>3 DEF AlertInv
      <4>. QED
        BY <2>1, <4>2, <4>3, <4>4 DEF AlertInv, Deciding
    <3>. QED
      BY <3>1, <3>2
  <2>. QED
    BY <2>5, <2>6, <2>7 DEF HostedAlertsInv
<1>5. CASE AlertRunDies(r)
  <2>1. /\ alertRun' = [alertRun EXCEPT ![r] = JobIdle]
        /\ excuse' = IF alertRun[r].at = "sent" THEN excuse \cup {"alert"} ELSE excuse
        /\ UNCHANGED <<time, usage, rule, events, alertMail, digestSide, clash>>
    BY <1>5 DEF AlertRunDies
  <2>4. /\ events' \subseteq [at : Nat, ok : BOOLEAN] /\ (excuse' = excuse \/ excuse' = excuse \cup {"alert"})
        /\ JobIdle \in AlertRunStates /\ JobIdle.at = "idle"
    BY <1>0, <2>1 DEF JobsShape, AlertRunStates, JobIdle
  <2>5. JobsShape' /\ alertRun'[r] = JobIdle /\ Others
    BY <1>0, <2>1, <2>4, AlertShapeStep
  <2>6. DigestInv'
    BY <1>0, <2>1, <2>4, DigestStays
  <2>7. AlertInv'
    <3>1. CASE "alert" \in excuse'
      BY <3>1 DEF AlertInv
    <3>2. CASE "alert" \notin excuse'
      <4>1. "alert" \notin excuse /\ alertRun[r].at # "sent"
        BY <2>1, <3>2
      <4>. QED
        BY <1>0, <2>1, <2>4, <2>5, <4>1 DEF AlertInv, ShouldFire, Deciding
    <3>. QED
      BY <3>1, <3>2
  <2>. QED
    BY <2>5, <2>6, <2>7 DEF HostedAlertsInv
<1>. QED
  BY <1>1, <1>2, <1>3, <1>4, <1>5


\* The shape after a step of one digest run.
LEMMA DigestShapeStep ==
    ASSUME JobsShape, NEW r \in DigestRuns, NEW q \in DigestRunStates, digestRun' = [digestRun EXCEPT ![r] = q],
           q.at # "idle" => q.clock <= time,
           lastSent' = lastSent \/ \E t \in Nat : lastSent' = {t},
           digestMail' = digestMail \/ digestMail' = {time},
           clash' = clash \/ clash' = clash \cup {"digest"},
           excuse' = excuse \/ excuse' = excuse \cup {"digest"},
           UNCHANGED <<time, usage, digestOn, alertSide>>
    PROVE  /\ JobsShape' /\ digestRun'[r] = q
           /\ \A s \in DigestRuns : s # r => digestRun'[s] = digestRun[s]
<1>1. /\ digestRun' \in [DigestRuns -> DigestRunStates] /\ digestRun'[r] = q
      /\ \A s \in DigestRuns : s # r => digestRun'[s] = digestRun[s]
  BY DEF JobsShape, DigestRunStates
<1>2. \A s \in DigestRuns : digestRun'[s].at # "idle" => digestRun'[s].clock <= time'
  BY <1>1 DEF JobsShape
<1>3. time \in Nat
  BY TimeNat
<1>4. /\ digestMail' \in SUBSET Nat /\ (\A t, u \in digestMail' : t = u) /\ \A t \in digestMail' : t <= time'
      /\ clash' \subseteq {"alert", "digest"} /\ excuse' \subseteq {"alert", "digest"}
  <2>1. clash' \subseteq {"alert", "digest"} /\ excuse' \subseteq {"alert", "digest"}
    BY DEF JobsShape
  <2>2. CASE digestMail' = digestMail
    BY <2>1, <2>2 DEF JobsShape
  <2>3. CASE digestMail' = {time}
    BY <1>3, <2>1, <2>3
  <2>. QED
    BY <2>2, <2>3
<1>5. lastSent' \in SUBSET Nat /\ \A t, u \in lastSent' : t = u
  <2>1. CASE lastSent' = lastSent
    BY <2>1 DEF JobsShape
  <2>2. ASSUME NEW t \in Nat, lastSent' = {t} PROVE lastSent' \in SUBSET Nat /\ \A v, u \in lastSent' : v = u
    BY <2>2
  <2>. QED
    BY <2>1, <2>2
<1>6. UNCHANGED <<rule, events, alertRun, alertMail>>
  BY DEF alertSide
<1>7. JobsShape'
  BY <1>1, <1>2, <1>4, <1>5, <1>6 DEF JobsShape, DigestRunStates
<1>. QED
  BY <1>1, <1>7

\* A step of the digest job leaves the alerts and their invariant alone.
LEMMA AlertStays ==
    ASSUME AlertInv, UNCHANGED alertSide,
           clash' = clash \/ clash' = clash \cup {"digest"},
           excuse' = excuse \/ excuse' = excuse \cup {"digest"}
    PROVE  AlertInv'
<1>1. UNCHANGED <<rule, events, alertRun, alertMail>>
  BY DEF alertSide
<1>2. ("alert" \in excuse' <=> "alert" \in excuse) /\ ("alert" \in clash' <=> "alert" \in clash)
  OBVIOUS
<1>. QED
  BY <1>1, <1>2 DEF AlertInv, ShouldFire

\* The steps of a digest run.
LEMMA DigestStep ==
    ASSUME HostedAlertsInv, NEW r \in DigestRuns,
           \/ SendWeeklyDigests(r) \/ StampDigest(r) \/ DigestRunDies(r)
           \/ \E ok \in BOOLEAN : DeliverDigest(r, ok)
    PROVE  HostedAlertsInv'
<1>0. JobsShape /\ AlertInv /\ DigestInv /\ time \in Nat
  BY TimeNat DEF HostedAlertsInv
<1>. DEFINE Others == \A s \in DigestRuns : s # r => digestRun'[s] = digestRun[s]
<1>i. JobIdle \in DigestRunStates /\ JobIdle.at = "idle"
  BY DEF DigestRunStates, JobIdle
\* A run that was not delivering stops, or begins.
<1>1. ASSUME NEW q \in DigestRunStates, digestRun' = [digestRun EXCEPT ![r] = q], q.at # "delivered",
             q.at # "idle" => q.clock <= time,
             excuse' = IF digestRun[r].at = "delivered" THEN excuse \cup {"digest"} ELSE excuse,
             UNCHANGED <<time, usage, digestOn, lastSent, digestMail, alertSide, clash>>
      PROVE  HostedAlertsInv'
  <2>1. excuse' = excuse \/ excuse' = excuse \cup {"digest"}
    BY <1>1
  <2>2. JobsShape' /\ digestRun'[r] = q /\ Others
    BY <1>0, <1>1, <2>1, DigestShapeStep
  <2>3. AlertInv'
    BY <1>0, <1>1, <2>1, AlertStays
  <2>4. DigestInv'
    <3>1. CASE "digest" \in excuse'
      BY <3>1 DEF DigestInv
    <3>2. CASE "digest" \notin excuse'
      <4>1. "digest" \notin excuse /\ digestRun[r].at # "delivered"
        BY <1>1, <3>2
      <4>. QED
        BY <1>0, <1>1, <2>2, <4>1 DEF DigestInv
    <3>. QED
      BY <3>1, <3>2
  <2>. QED
    BY <2>2, <2>3, <2>4 DEF HostedAlertsInv
<1>2. CASE SendWeeklyDigests(r)
  <2>. DEFINE q == [at |-> "fetched", clock |-> time, last |-> lastSent]
  <2>1. q \in DigestRunStates /\ q.at = "fetched" /\ q.clock <= time
    BY <1>0 DEF DigestRunStates, JobsShape
  <2>2. /\ digestRun[r] = JobIdle /\ digestRun' = [digestRun EXCEPT ![r] = q]
        /\ UNCHANGED <<time, usage, digestOn, lastSent, digestMail, alertSide, clash, excuse>>
    BY <1>2 DEF SendWeeklyDigests
  <2>. HIDE DEF q
  <2>. QED
    BY <1>1, <1>i, <2>1, <2>2
<1>3. CASE DigestRunDies(r)
  BY <1>1, <1>3, <1>i DEF DigestRunDies
<1>4. ASSUME NEW ok \in BOOLEAN, DeliverDigest(r, ok) PROVE HostedAlertsInv'
  <2>0. /\ digestRun[r].at = "fetched" /\ UNCHANGED <<time, usage, digestOn, lastSent, alertSide>>
    BY <1>4 DEF DeliverDigest
  <2>1. CASE ~(Due(digestRun[r]) /\ ok)
    <3>1. digestRun' = [digestRun EXCEPT ![r] = JobIdle] /\ UNCHANGED <<digestMail, clash, excuse>>
      BY <1>4, <2>1 DEF DeliverDigest
    <3>. QED
      BY <1>1, <1>i, <2>0, <3>1
  <2>2. CASE Due(digestRun[r]) /\ ok
    <3>. DEFINE q == [at |-> "delivered", clock |-> digestRun[r].clock]
    <3>1. /\ digestRun' = [digestRun EXCEPT ![r] = q] /\ digestMail' = {time}
          /\ clash' = IF \E t \in digestMail : t + MinGap >= time THEN clash \cup {"digest"} ELSE clash
          /\ excuse' = IF lastSent # digestRun[r].last \/ \E s \in DigestRuns : digestRun[s].at = "delivered"
                       THEN excuse \cup {"digest"} ELSE excuse
      BY <1>4, <2>2 DEF DeliverDigest
    <3>2. digestRun[r].clock \in Nat /\ digestRun[r].clock <= time
      BY <1>0, <2>0, DigestRunHeld
    <3>3. q \in DigestRunStates /\ q.at = "delivered" /\ q.clock = digestRun[r].clock
      BY <3>2 DEF DigestRunStates
    <3>. HIDE DEF q
    <3>4. (clash' = clash \/ clash' = clash \cup {"digest"}) /\ (excuse' = excuse \/ excuse' = excuse \cup {"digest"})
      BY <3>1
    <3>5. JobsShape' /\ digestRun'[r] = q /\ Others
      BY <1>0, <2>0, <3>1, <3>2, <3>3, <3>4, DigestShapeStep
    <3>6. AlertInv'
      BY <1>0, <2>0, <3>4, AlertStays
    <3>7. DigestInv'
      <4>1. CASE "digest" \in excuse'
        BY <4>1 DEF DigestInv
      <4>2. CASE "digest" \notin excuse'
        <5>1. /\ "digest" \notin excuse /\ lastSent = digestRun[r].last
              /\ \A s \in DigestRuns : digestRun[s].at # "delivered"
          BY <3>1, <4>2
        <5>2. "digest" \notin clash /\ digestMail \subseteq lastSent
          BY <1>0, <5>1 DEF DigestInv
        <5>3. ~\E t \in digestMail : t + MinGap >= time
          <6>. SUFFICES ASSUME NEW t \in digestMail PROVE ~(t + MinGap >= time)
            OBVIOUS
          <6>1. t \in Nat /\ MinGap \in Nat /\ t + MinGap < digestRun[r].clock
            BY <1>0, <2>2, <5>1, <5>2, HostedAlertsAssumption DEF Due, JobsShape
          <6>. QED
            BY <1>0, <3>2, <6>1
        <5>4. "digest" \notin clash'
          BY <3>1, <5>2, <5>3
        <5>. QED
          BY <3>1, <3>2, <3>3, <3>5, <5>1, <5>4 DEF DigestInv
      <4>. QED
        BY <4>1, <4>2
    <3>. QED
      BY <3>5, <3>6, <3>7 DEF HostedAlertsInv
  <2>. QED
    BY <2>1, <2>2
<1>5. CASE StampDigest(r)
  <2>1. /\ digestRun[r].at = "delivered" /\ lastSent' = {digestRun[r].clock}
        /\ digestRun' = [digestRun EXCEPT ![r] = JobIdle]
        /\ excuse' = IF digestRun[r].clock # time THEN excuse \cup {"digest"} ELSE excuse
        /\ UNCHANGED <<time, usage, digestOn, digestMail, alertSide, clash>>
    BY <1>5 DEF StampDigest
  <2>2. digestRun[r].clock \in Nat
    BY <1>0, <2>1, DigestRunHeld
  <2>3. (excuse' = excuse \/ excuse' = excuse \cup {"digest"}) /\ \E t \in Nat : lastSent' = {t}
    BY <2>1, <2>2
  <2>4. JobsShape' /\ digestRun'[r] = JobIdle /\ Others
    BY <1>0, <1>i, <2>1, <2>3, DigestShapeStep
  <2>5. AlertInv'
    BY <1>0, <2>1, <2>3, AlertStays
  <2>6. DigestInv'
    <3>1. CASE "digest" \in excuse'
      BY <3>1 DEF DigestInv
    <3>2. CASE "digest" \notin excuse'
      <4>1. "digest" \notin excuse /\ digestRun[r].clock = time
        BY <2>1, <3>2
      <4>2. "digest" \notin clash /\ \A s \in DigestRuns : s # r => digestRun[s].at # "delivered"
        BY <1>0, <2>1, <4>1 DEF DigestInv
      <4>3. \A t \in digestMail : t \in lastSent'
        <5>1. TAKE t \in digestMail
        <5>2. time <= t /\ t <= time /\ t \in Nat
          BY <1>0, <2>1, <4>1 DEF DigestInv, JobsShape
        <5>. QED
          BY <1>0, <2>1, <4>1, <5>2
      <4>. QED
        BY <1>i, <2>1, <2>4, <4>2, <4>3 DEF DigestInv
    <3>. QED
      BY <3>1, <3>2
  <2>. QED
    BY <2>4, <2>5, <2>6 DEF HostedAlertsInv
<1>. QED
  BY <1>2, <1>3, <1>4, <1>5

\* Every step of either job.
LEMMA JobsStep == ASSUME HostedAlertsInv, AlertJobNext \/ DigestJobNext PROVE HostedAlertsInv'
<1>0. JobsShape /\ AlertInv /\ DigestInv /\ time \in Nat /\ usage \in Nat
  BY TimeNat DEF HostedAlertsInv
<1>1. ASSUME UNCHANGED <<alertSide, digestSide, clash, excuse>>,
             time' \in 0..MaxTime, time' >= time, usage' \in 0..MaxUsage
      PROVE  HostedAlertsInv'
  <2>1. UNCHANGED <<rule, events, alertRun, alertMail, digestOn, lastSent, digestRun, digestMail>>
    BY <1>1 DEF alertSide, digestSide
  <2>2. \A t \in Nat : t <= time => t <= time'
    BY <1>0, <1>1, HostedAlertsAssumption
  <2>3. \A r \in AlertRuns : alertRun[r].at # "idle" => alertRun[r].clock <= time'
    BY <1>0, <2>2, AlertRunHeld
  <2>4. \A r \in DigestRuns : digestRun[r].at # "idle" => digestRun[r].clock <= time'
    BY <1>0, <2>2, DigestRunHeld
  <2>5. \A t \in alertMail \cup digestMail : t <= time'
    BY <1>0, <2>2 DEF JobsShape
  <2>6. JobsShape'
    BY <1>0, <1>1, <2>1, <2>3, <2>4, <2>5 DEF JobsShape
  <2>7. AlertInv' /\ DigestInv'
    BY <1>0, <1>1, AlertStays, DigestStays
  <2>. QED
    BY <2>6, <2>7 DEF HostedAlertsInv
<1>2. CASE TimePasses
  <2>1. time' \in 0..MaxTime /\ time' >= time
    BY <1>0, <1>2, HostedAlertsAssumption DEF TimePasses
  <2>. QED
    BY <1>0, <1>1, <1>2, <2>1 DEF TimePasses, JobsShape
<1>3. CASE UsageGrows
  <2>1. usage' \in 0..MaxUsage /\ time' \in 0..MaxTime /\ time' >= time
    BY <1>0, <1>3, HostedAlertsAssumption DEF UsageGrows, JobsShape
  <2>. QED
    BY <1>1, <1>3, <2>1 DEF UsageGrows
<1>4. ASSUME NEW on \in BOOLEAN, NEW t \in Thresholds, PatchAlertRule(on, t) PROVE HostedAlertsInv'
  <2>1. /\ rule' = [enabled |-> on, threshold |-> t]
        /\ UNCHANGED <<time, usage, events, alertRun, alertMail, digestSide, clash, excuse>>
    BY <1>4 DEF PatchAlertRule
  <2>2. UNCHANGED <<digestOn, lastSent, digestRun, digestMail>>
    BY <2>1 DEF digestSide
  <2>3. JobsShape'
    BY <1>0, <2>1, <2>2 DEF JobsShape
  <2>4. AlertInv'
    BY <1>0, <2>1 DEF AlertInv, ShouldFire
  <2>5. DigestInv'
    BY <1>0, <2>1, DigestStays
  <2>. QED
    BY <2>3, <2>4, <2>5 DEF HostedAlertsInv
<1>5. ASSUME NEW on \in BOOLEAN, UpdateWeeklyDigest(on) PROVE HostedAlertsInv'
  <2>1. /\ digestOn' = on
        /\ UNCHANGED <<time, usage, lastSent, digestRun, digestMail, alertSide, clash, excuse>>
    BY <1>5 DEF UpdateWeeklyDigest
  <2>2. UNCHANGED <<rule, events, alertRun, alertMail>>
    BY <2>1 DEF alertSide
  <2>3. JobsShape'
    BY <1>0, <2>1, <2>2 DEF JobsShape
  <2>4. AlertInv'
    BY <1>0, <2>1, AlertStays
  <2>5. DigestInv'
    BY <1>0, <2>1 DEF DigestInv
  <2>. QED
    BY <2>3, <2>4, <2>5 DEF HostedAlertsInv
<1>. QED
  BY <1>2, <1>3, <1>4, <1>5, AlertStep, DigestStep DEF AlertJobNext, DigestJobNext

\* A set of equal numbers has at most one element.
LEMMA OneAtMost == ASSUME NEW S, \A t, u \in S : t = u PROVE Cardinality(S) <= 1
<1>1. CASE S = {}
  BY <1>1, FS_EmptySet
<1>2. CASE S # {}
  <2>1. PICK x : x \in S
    BY <1>2
  <2>2. S = {x}
    BY <2>1
  <2>. QED
    BY <2>2, FS_Singleton
<1>. QED
  BY <1>1, <1>2

\* What follows for the properties of the jobs.
LEMMA JobsSafe == HostedAlertsInv => HostedAlertsTypeOK /\ QuietKept
<1>. SUFFICES ASSUME HostedAlertsInv PROVE HostedAlertsTypeOK /\ QuietKept
  OBVIOUS
<1>0. JobsShape /\ AlertInv /\ DigestInv
  BY DEF HostedAlertsInv
<1>1. Cardinality(lastSent) <= 1 /\ Cardinality(digestMail) <= 1 /\ Cardinality(alertMail) <= 1
  BY <1>0, OneAtMost DEF JobsShape
<1>2. HostedAlertsTypeOK
  BY <1>0, <1>1 DEF JobsShape, HostedAlertsTypeOK
<1>3. QuietKept
  BY <1>0 DEF JobsShape, AlertInv, DigestInv, QuietKept
<1>. QED
  BY <1>2, <1>3

-----------------------------------------------------------------------------
(* Findings.  A resolved finding has its baseline, and names its scope     *)
(* until a pass rewrites the evidence (EvidenceInv).                       *)

Rows == [status : FindingStatuses, resolved : BOOLEAN, baseline : Scope \cup {Nowhere},
         scope : Scope \cup {Nowhere}]
PassStates ==
    {[at |-> "idle"]} \cup [at : {"next"}, todo : SUBSET Fingerprints]
      \cup [at : {"selected"}, todo : SUBSET Fingerprints, of : Fingerprints,
            status : SUBSET FindingStatuses]

FindingsShape ==
    /\ finding \in [Fingerprints -> SUBSET Rows]
    /\ \A f \in Fingerprints : \A r, s \in finding[f] : r = s
    /\ fresh \in BOOLEAN /\ pass \in [Passes -> PassStates]
    /\ resolving \in [Operators -> SUBSET [of : Fingerprints, scope : Scope]]
    /\ measured \in [Scope -> Measures]
    /\ elapsed \subseteq Fingerprints
    /\ decided \in [Fingerprints -> FindingStatuses]
    /\ \A f \in Fingerprints : finding[f] = {} => decided[f] = "open"

EvidenceInv ==
    \A f \in Fingerprints : \A r \in finding[f] : r.resolved =>
        /\ r.baseline # Nowhere
        /\ f \in rewritten \/ r.scope = r.baseline

FindingsInv == FindingsShape /\ EvidenceInv /\ DecisionStands

\* The row of a finding is the one there is.
LEMMA RowIs == ASSUME FindingsShape, NEW f \in Fingerprints, NEW r \in finding[f] PROVE RowOf(f) = r /\ r \in Rows
<1>1. RowOf(f) \in finding[f]
  BY DEF RowOf
<1>. QED
  BY <1>1 DEF FindingsShape

\* One finding changes, and has at most one row again.
LEMMA FindingMoves ==
    ASSUME FindingsShape, NEW f \in Fingerprints, NEW S \in SUBSET Rows, \A r, s \in S : r = s,
           finding' = [finding EXCEPT ![f] = S]
    PROVE  /\ finding' \in [Fingerprints -> SUBSET Rows] /\ finding'[f] = S
           /\ \A g \in Fingerprints : g # f => finding'[g] = finding[g]
           /\ \A g \in Fingerprints : \A r, s \in finding'[g] : r = s
BY DEF FindingsShape

\* A pass past its start has the findings it has yet to do.
LEMMA PassHeld ==
    ASSUME FindingsShape, NEW p \in Passes
    PROVE  /\ pass[p].at = "next" => pass[p].todo \in SUBSET Fingerprints
           /\ pass[p].at = "selected" => /\ pass[p].todo \in SUBSET Fingerprints /\ pass[p].of \in Fingerprints
                                         /\ pass[p].status \in SUBSET FindingStatuses
<1>1. pass[p] \in PassStates
  BY DEF FindingsShape
<1>. QED
  BY <1>1 DEF PassStates

\* Nothing is found at first.
LEMMA FindingsBegin == FindingsInit => FindingsInv
<1>. SUFFICES ASSUME FindingsInit PROVE FindingsInv
  OBVIOUS
<1>1. finding \in [Fingerprints -> SUBSET Rows] /\ \A f \in Fingerprints : finding[f] = {}
  BY DEF FindingsInit
<1>2. pass \in [Passes -> PassStates] /\ resolving \in [Operators -> SUBSET [of : Fingerprints, scope : Scope]]
  BY DEF FindingsInit, PassStates
<1>3. decided \in [Fingerprints -> FindingStatuses] /\ \A f \in Fingerprints : decided[f] = "open"
  BY DEF FindingsInit, FindingStatuses
<1>4. FindingsShape
  BY <1>1, <1>2, <1>3 DEF FindingsInit, FindingsShape
<1>. QED
  BY <1>1, <1>4 DEF FindingsInv, EvidenceInv, DecisionStands

\* Steps that leave the findings and the decisions alone.
LEMMA FindingsStay ==
    ASSUME FindingsInv, UNCHANGED <<finding, measured, decided, outdated, rewritten>>,
           fresh' \in BOOLEAN, pass' \in [Passes -> PassStates],
           resolving' \in [Operators -> SUBSET [of : Fingerprints, scope : Scope]],
           elapsed' \subseteq Fingerprints
    PROVE  FindingsInv'
BY DEF FindingsInv, FindingsShape, EvidenceInv, DecisionStands

\* A pass refreshes a finding: what was resolved opens, nothing else changes
\* but the evidence.
LEMMA RefreshedHeld ==
    ASSUME NEW r \in Rows, NEW status \in FindingStatuses
    PROVE  LET w == Refreshed(r, status) IN
           /\ w \in Rows /\ w.scope = Nowhere /\ w.resolved = r.resolved /\ w.baseline = r.baseline
           /\ w.status = IF status = "resolved" THEN "open" ELSE status
BY DEF Refreshed, Rows, FindingStatuses

\* The write of a pass.
LEMMA FindingsStepWrite ==
    ASSUME FindingsInv, NEW p \in Passes, WriteFinding(p)
    PROVE  /\ FindingsInv'
           /\ \A f \in Fingerprints : \A r \in finding[f] : r.resolved =>
                \A s \in finding'[f] : s.resolved /\ s.baseline # Nowhere
<1>. DEFINE Anchored == \A f \in Fingerprints : \A r \in finding[f] : r.resolved =>
                           \A s \in finding'[f] : s.resolved /\ s.baseline # Nowhere
            Idle == [at |-> "idle"]
<1>0. FindingsShape /\ EvidenceInv /\ DecisionStands
  BY DEF FindingsInv
<1>1. pass[p].at = "selected" /\ UNCHANGED <<resolving, measured, elapsed, decided>>
  BY DEF WriteFinding
<1>2. /\ pass[p].todo \in SUBSET Fingerprints /\ pass[p].of \in Fingerprints
      /\ pass[p].status \in SUBSET FindingStatuses
  BY <1>0, <1>1, PassHeld
<1>. PICK f \in Fingerprints : f = pass[p].of
  BY <1>2
<1>3. [at |-> "next", todo |-> pass[p].todo] \in PassStates /\ Idle \in PassStates
  BY <1>2 DEF PassStates
<1>4. CASE pass[p].status = {} /\ finding[f] # {}
  <2>1. pass' = [pass EXCEPT ![p] = Idle] /\ UNCHANGED <<finding, fresh, outdated, rewritten>>
    BY <1>4 DEF WriteFinding
  <2>2. pass' \in [Passes -> PassStates]
    BY <1>0, <1>3, <2>1 DEF FindingsShape
  <2>3. FindingsInv'
    BY <1>0, <1>1, <2>1, <2>2, FindingsStay DEF FindingsShape
  <2>4. Anchored
    BY <1>0, <2>1 DEF EvidenceInv, FindingsShape
  <2>. QED
    BY <2>3, <2>4
<1>5. CASE pass[p].status = {} /\ finding[f] = {}
  <2>. DEFINE w == [status |-> "open", resolved |-> FALSE, baseline |-> Nowhere, scope |-> Nowhere]
  <2>1. /\ finding' = [finding EXCEPT ![f] = {w}] /\ fresh' = TRUE /\ UNCHANGED <<outdated, rewritten>>
        /\ pass' = [pass EXCEPT ![p] = [at |-> "next", todo |-> pass[p].todo]]
    BY <1>5 DEF WriteFinding
  <2>2. w \in Rows /\ w.status = "open" /\ w.resolved = FALSE
    BY DEF Rows, FindingStatuses, Nowhere
  <2>. HIDE DEF w
  <2>3. /\ finding' \in [Fingerprints -> SUBSET Rows] /\ finding'[f] = {w}
        /\ \A g \in Fingerprints : g # f => finding'[g] = finding[g]
        /\ \A g \in Fingerprints : \A r, s \in finding'[g] : r = s
    BY <1>0, <2>1, <2>2, FindingMoves
  <2>4. pass' \in [Passes -> PassStates]
    BY <1>0, <1>3, <2>1 DEF FindingsShape
  <2>5. FindingsShape'
    BY <1>0, <1>1, <2>1, <2>3, <2>4 DEF FindingsShape
  <2>6. EvidenceInv'
    BY <1>0, <2>1, <2>2, <2>3 DEF EvidenceInv
  <2>7. DecisionStands'
    <3>1. decided[f] = "open"
      BY <1>0, <1>5 DEF FindingsShape
    <3>. QED
      BY <1>0, <1>1, <2>1, <2>2, <2>3, <3>1 DEF DecisionStands
  <2>8. Anchored
    BY <1>0, <1>5, <2>3 DEF EvidenceInv, FindingsShape
  <2>. QED
    BY <2>5, <2>6, <2>7, <2>8 DEF FindingsInv
<1>6. CASE pass[p].status # {}
  <2>1. PICK read \in FindingStatuses : read = CHOOSE s \in pass[p].status : TRUE
    BY <1>2, <1>6
  <2>. DEFINE S == {Refreshed(r, read) : r \in finding[f]}
  <2>2. /\ finding' = [finding EXCEPT ![f] = S] /\ fresh' = TRUE
        /\ pass' = [pass EXCEPT ![p] = [at |-> "next", todo |-> pass[p].todo]]
        /\ outdated' = IF RowOf(f).status = read THEN outdated ELSE outdated \cup {f}
        /\ rewritten' = IF RowOf(f).scope = Nowhere THEN rewritten ELSE rewritten \cup {f}
    BY <1>6, <2>1 DEF WriteFinding
  <2>3. finding[f] \subseteq Rows /\ \A r, s \in finding[f] : r = s
    BY <1>0 DEF FindingsShape
  <2>4. \A w \in S : \E r \in finding[f] :
          /\ w = Refreshed(r, read) /\ w \in Rows
          /\ w.scope = Nowhere /\ w.resolved = r.resolved /\ w.baseline = r.baseline
          /\ w.status = IF read = "resolved" THEN "open" ELSE read
    BY <2>3, RefreshedHeld
  <2>5. S \in SUBSET Rows /\ (\A w, x \in S : w = x) /\ (S = {} <=> finding[f] = {})
    BY <2>3, <2>4
  <2>. HIDE DEF S
  <2>6. /\ finding' \in [Fingerprints -> SUBSET Rows] /\ finding'[f] = S
        /\ \A g \in Fingerprints : g # f => finding'[g] = finding[g]
        /\ \A g \in Fingerprints : \A r, s \in finding'[g] : r = s
    BY <1>0, <2>2, <2>5, FindingMoves
  <2>7. pass' \in [Passes -> PassStates]
    BY <1>0, <1>3, <2>2 DEF FindingsShape
  <2>8. FindingsShape'
    <3>1. \A g \in Fingerprints : finding'[g] = {} => decided'[g] = "open"
      BY <1>0, <1>1, <2>5, <2>6 DEF FindingsShape
    <3>. QED
      BY <1>0, <1>1, <2>2, <2>6, <2>7, <3>1 DEF FindingsShape
  <2>9. EvidenceInv'
    <3>1. \A g \in Fingerprints : g \in rewritten => g \in rewritten'
      BY <2>2
    <3>2. ASSUME NEW w \in S, w.resolved PROVE w.baseline # Nowhere /\ f \in rewritten'
      <4>1. PICK r \in finding[f] : w.scope = Nowhere /\ w.resolved = r.resolved /\ w.baseline = r.baseline
        BY <2>4
      <4>2. r.baseline # Nowhere /\ (f \in rewritten \/ r.scope = r.baseline) /\ RowOf(f) = r
        BY <1>0, <3>2, <4>1, RowIs DEF EvidenceInv
      <4>. QED
        BY <2>2, <4>1, <4>2
    <3>3. ASSUME NEW g \in Fingerprints, NEW r \in finding'[g], r.resolved
          PROVE  r.baseline # Nowhere /\ (g \in rewritten' \/ r.scope = r.baseline)
      <4>1. CASE g = f
        BY <2>6, <3>2, <3>3, <4>1
      <4>2. CASE g # f
        BY <1>0, <2>6, <3>1, <3>3, <4>2 DEF EvidenceInv
      <4>. QED
        BY <4>1, <4>2
    <3>. QED
      BY <3>3 DEF EvidenceInv
  <2>10. DecisionStands'
    <3>1. \A g \in Fingerprints : g \in outdated => g \in outdated'
      BY <2>2
    <3>2. ASSUME NEW w \in S
          PROVE  w.status = decided[f] \/ f \in outdated' \/ (decided[f] = "resolved" /\ w.status = "open")
      <4>1. PICK r \in finding[f] : w.status = IF read = "resolved" THEN "open" ELSE read
        BY <2>4
      <4>2. r.status = decided[f] \/ f \in outdated \/ (decided[f] = "resolved" /\ r.status = "open")
        BY <1>0 DEF DecisionStands
      <4>3. r.status = read \/ f \in outdated'
        BY <1>0, <2>2, RowIs
      <4>. QED
        BY <3>1, <4>1, <4>2, <4>3
    <3>3. ASSUME NEW g \in Fingerprints, NEW r \in finding'[g]
          PROVE  r.status = decided[g] \/ g \in outdated' \/ (decided[g] = "resolved" /\ r.status = "open")
      <4>1. CASE g = f
        BY <2>6, <3>2, <4>1
      <4>2. CASE g # f
        BY <1>0, <2>6, <3>1, <4>2 DEF DecisionStands
      <4>. QED
        BY <4>1, <4>2
    <3>. QED
      BY <1>1, <3>3 DEF DecisionStands
  <2>11. Anchored
    <3>1. ASSUME NEW g \in Fingerprints, NEW r \in finding[g], r.resolved, NEW w \in finding'[g]
          PROVE  w.resolved /\ w.baseline # Nowhere
      <4>0. r.baseline # Nowhere
        BY <1>0, <3>1 DEF EvidenceInv
      <4>1. CASE g = f
        <5>1. PICK s \in finding[f] : w.resolved = s.resolved /\ w.baseline = s.baseline
          BY <2>4, <2>6, <3>1, <4>1
        <5>2. s = r
          BY <2>3, <3>1, <4>1
        <5>. QED
          BY <3>1, <4>0, <5>1, <5>2
      <4>2. CASE g # f
        <5>1. w = r
          BY <1>0, <2>6, <3>1, <4>2 DEF FindingsShape
        <5>. QED
          BY <3>1, <4>0, <5>1
      <4>. QED
        BY <4>1, <4>2
    <3>. QED
      BY <3>1
  <2>. QED
    BY <2>8, <2>9, <2>10, <2>11 DEF FindingsInv
<1>. QED
  BY <1>4, <1>5, <1>6

\* The decisions of operators.
LEMMA FindingsStepDecide ==
    ASSUME FindingsInv, \/ \E f \in Fingerprints, s \in FindingStatuses : SetStatus(f, s)
                        \/ \E o \in Operators : ResolveUpdate(o)
    PROVE  /\ FindingsInv'
           /\ \A f \in Fingerprints : \A r \in finding[f] : r.resolved =>
                \A s \in finding'[f] : s.resolved /\ s.baseline # Nowhere
<1>. DEFINE Anchored == \A f \in Fingerprints : \A r \in finding[f] : r.resolved =>
                           \A s \in finding'[f] : s.resolved /\ s.baseline # Nowhere
<1>0. FindingsShape /\ EvidenceInv /\ DecisionStands
  BY DEF FindingsInv
<1>1. ASSUME NEW f \in Fingerprints, NEW st \in FindingStatuses, SetStatus(f, st) PROVE FindingsInv' /\ Anchored
  <2>. DEFINE S == {[r EXCEPT !.status = st] : r \in finding[f]}
  <2>1. /\ finding[f] # {} /\ finding' = [finding EXCEPT ![f] = S]
        /\ decided' = [decided EXCEPT ![f] = st] /\ outdated' = outdated \ {f}
        /\ UNCHANGED <<fresh, pass, resolving, measured, elapsed, rewritten>>
    BY <1>1 DEF SetStatus
  <2>2. finding[f] \subseteq Rows /\ \A r, s \in finding[f] : r = s
    BY <1>0 DEF FindingsShape
  <2>3. \A w \in S : \E r \in finding[f] :
          /\ w \in Rows /\ w.status = st /\ w.resolved = r.resolved /\ w.baseline = r.baseline /\ w.scope = r.scope
    BY <2>2 DEF Rows
  <2>4. S \in SUBSET Rows /\ (\A w, x \in S : w = x) /\ S # {}
    <3>1. PICK r \in finding[f] : finding[f] = {r}
      BY <2>1, <2>2
    <3>2. S = {[r EXCEPT !.status = st]}
      BY <3>1
    <3>3. S \subseteq Rows
      BY <2>3
    <3>. QED
      BY <3>2, <3>3
  <2>. HIDE DEF S
  <2>5. /\ finding' \in [Fingerprints -> SUBSET Rows] /\ finding'[f] = S
        /\ \A g \in Fingerprints : g # f => finding'[g] = finding[g]
        /\ \A g \in Fingerprints : \A r, s \in finding'[g] : r = s
    BY <1>0, <2>1, <2>4, FindingMoves
  <2>6. decided' \in [Fingerprints -> FindingStatuses] /\ decided'[f] = st
        /\ \A g \in Fingerprints : g # f => decided'[g] = decided[g]
    BY <1>0, <2>1 DEF FindingsShape
  <2>7. FindingsShape'
    <3>1. \A g \in Fingerprints : finding'[g] = {} => decided'[g] = "open"
      BY <1>0, <2>4, <2>5, <2>6 DEF FindingsShape
    <3>. QED
      BY <1>0, <2>1, <2>5, <2>6, <3>1 DEF FindingsShape
  <2>8. EvidenceInv'
    BY <1>0, <2>1, <2>3, <2>5 DEF EvidenceInv
  <2>9. DecisionStands'
    BY <1>0, <2>1, <2>3, <2>5, <2>6 DEF DecisionStands
  <2>10. Anchored
    BY <1>0, <2>2, <2>3, <2>5 DEF EvidenceInv, FindingsShape
  <2>. QED
    BY <2>7, <2>8, <2>9, <2>10 DEF FindingsInv
<1>2. ASSUME NEW o \in Operators, ResolveUpdate(o) PROVE FindingsInv' /\ Anchored
  <2>1. PICK q \in resolving[o] :
          /\ finding' = [finding EXCEPT ![q.of] =
                 {[status |-> "resolved", resolved |-> TRUE, baseline |-> q.scope, scope |-> q.scope]}]
          /\ elapsed' = elapsed \ {q.of} /\ decided' = [decided EXCEPT ![q.of] = "resolved"]
          /\ outdated' = outdated \ {q.of} /\ rewritten' = rewritten \ {q.of}
          /\ resolving' = [resolving EXCEPT ![o] = {}] /\ UNCHANGED <<fresh, pass, measured>>
    BY <1>2 DEF ResolveUpdate
  <2>2. q \in [of : Fingerprints, scope : Scope]
    BY <1>0 DEF FindingsShape
  <2>. PICK f \in Fingerprints : f = q.of
    BY <2>2
  <2>. DEFINE w == [status |-> "resolved", resolved |-> TRUE, baseline |-> q.scope, scope |-> q.scope]
  <2>3. w \in Rows /\ w.status = "resolved" /\ w.resolved /\ w.baseline # Nowhere /\ w.scope = w.baseline
    BY <2>2 DEF Rows, FindingStatuses, Scope, Nowhere
  <2>4. finding' = [finding EXCEPT ![f] = {w}]
    BY <2>1
  <2>. HIDE DEF w
  <2>5. /\ finding' \in [Fingerprints -> SUBSET Rows] /\ finding'[f] = {w}
        /\ \A g \in Fingerprints : g # f => finding'[g] = finding[g]
        /\ \A g \in Fingerprints : \A r, s \in finding'[g] : r = s
    BY <1>0, <2>3, <2>4, FindingMoves
  <2>6. decided' \in [Fingerprints -> FindingStatuses] /\ decided'[f] = "resolved"
        /\ \A g \in Fingerprints : g # f => decided'[g] = decided[g]
    BY <1>0, <2>1 DEF FindingsShape, FindingStatuses
  <2>7. FindingsShape'
    <3>1. \A g \in Fingerprints : finding'[g] = {} => decided'[g] = "open"
      BY <1>0, <2>5, <2>6 DEF FindingsShape
    <3>2. resolving' \in [Operators -> SUBSET [of : Fingerprints, scope : Scope]] /\ elapsed' \subseteq Fingerprints
      BY <1>0, <2>1 DEF FindingsShape
    <3>. QED
      BY <1>0, <2>1, <2>5, <2>6, <3>1, <3>2 DEF FindingsShape
  <2>8. EvidenceInv'
    BY <1>0, <2>1, <2>3, <2>5 DEF EvidenceInv
  <2>9. DecisionStands'
    BY <1>0, <2>1, <2>3, <2>5, <2>6 DEF DecisionStands
  <2>10. Anchored
    BY <1>0, <2>3, <2>5 DEF EvidenceInv, FindingsShape
  <2>. QED
    BY <2>7, <2>8, <2>9, <2>10 DEF FindingsInv
<1>. QED
  BY <1>1, <1>2

\* Every step of the findings.
LEMMA FindingsStep ==
    ASSUME FindingsInv, FindingsNext
    PROVE  /\ FindingsInv'
           /\ \A f \in Fingerprints : \A r \in finding[f] : r.resolved =>
                \A s \in finding'[f] : s.resolved /\ s.baseline # Nowhere
<1>. DEFINE Anchored == \A f \in Fingerprints : \A r \in finding[f] : r.resolved =>
                           \A s \in finding'[f] : s.resolved /\ s.baseline # Nowhere
<1>0. FindingsShape /\ EvidenceInv /\ DecisionStands
  BY DEF FindingsInv
<1>1. ASSUME UNCHANGED finding PROVE Anchored
  BY <1>0, <1>1 DEF EvidenceInv, FindingsShape
<1>2. CASE HourPasses
  <2>1. FindingsInv'
    BY <1>0, <1>2, FindingsStay DEF HourPasses, FindingsShape
  <2>. QED
    BY <1>1, <1>2, <2>1 DEF HourPasses
<1>3. ASSUME NEW p \in Passes, NEW q \in PassStates, pass' = [pass EXCEPT ![p] = q],
             UNCHANGED <<finding, fresh, resolving, measured, elapsed, decided, outdated, rewritten>>
      PROVE  FindingsInv' /\ Anchored
  <2>1. pass' \in [Passes -> PassStates]
    BY <1>0, <1>3 DEF FindingsShape
  <2>2. FindingsInv'
    BY <1>0, <1>3, <2>1, FindingsStay DEF FindingsShape
  <2>. QED
    BY <1>1, <1>3, <2>2
<1>4. ASSUME NEW p \in Passes, NEW D \in SUBSET Fingerprints, RefreshFindings(p, D) PROVE FindingsInv' /\ Anchored
  <2>1. [at |-> "next", todo |-> D] \in PassStates
    BY DEF PassStates
  <2>. HIDE DEF Anchored
  <2>. QED
    BY <1>3, <1>4, <2>1 DEF RefreshFindings
<1>5. ASSUME NEW p \in Passes, NEW f \in Fingerprints, SelectFinding(p, f) PROVE FindingsInv' /\ Anchored
  <2>. DEFINE q == [at |-> "selected", todo |-> pass[p].todo \ {f}, of |-> f, status |-> {r.status : r \in finding[f]}]
  <2>1. pass[p].todo \in SUBSET Fingerprints
    BY <1>0, <1>5, PassHeld DEF SelectFinding
  <2>2. {r.status : r \in finding[f]} \in SUBSET FindingStatuses
    BY <1>0 DEF FindingsShape, Rows
  <2>3. q \in PassStates
    BY <2>1, <2>2 DEF PassStates
  <2>4. pass' = [pass EXCEPT ![p] = q] /\ UNCHANGED <<finding, fresh, resolving, measured, elapsed, decided, outdated, rewritten>>
    BY <1>5 DEF SelectFinding
  <2>. HIDE DEF Anchored, q
  <2>. QED
    BY <1>3, <2>3, <2>4
<1>6. ASSUME NEW p \in Passes, EndPass(p) PROVE FindingsInv' /\ Anchored
  <2>1. [at |-> "idle"] \in PassStates
    BY DEF PassStates
  <2>. HIDE DEF Anchored
  <2>. QED
    BY <1>3, <1>6, <2>1 DEF EndPass
<1>7. ASSUME NEW f \in Fingerprints, WindowElapses(f) PROVE FindingsInv' /\ Anchored
  <2>1. FindingsInv'
    BY <1>0, <1>7, FindingsStay DEF WindowElapses, FindingsShape
  <2>. QED
    BY <1>1, <1>7, <2>1 DEF WindowElapses
<1>8. ASSUME NEW o \in Operators, NEW f \in Fingerprints, NEW s \in Scope, ResolveSelect(o, f, s)
      PROVE  FindingsInv' /\ Anchored
  <2>1. resolving' \in [Operators -> SUBSET [of : Fingerprints, scope : Scope]]
    BY <1>0, <1>8 DEF ResolveSelect, FindingsShape
  <2>2. FindingsInv'
    BY <1>0, <1>8, <2>1, FindingsStay DEF ResolveSelect, FindingsShape
  <2>. QED
    BY <1>1, <1>8, <2>2 DEF ResolveSelect
<1>. QED
  BY <1>2, <1>4, <1>5, <1>6, <1>7, <1>8, FindingsStepWrite, FindingsStepDecide DEF FindingsNext

\* What follows for the properties of the findings.
LEMMA FindingsSafe == FindingsInv => FindingsTypeOK /\ DecisionStands /\ VerifiedIsSaving
<1>. SUFFICES ASSUME FindingsInv PROVE FindingsTypeOK /\ DecisionStands /\ VerifiedIsSaving
  OBVIOUS
<1>0. FindingsShape /\ EvidenceInv /\ DecisionStands
  BY DEF FindingsInv
<1>1. \A f \in Fingerprints : Cardinality(finding[f]) <= 1
  BY <1>0, OneAtMost DEF FindingsShape
<1>2. \A f \in Fingerprints : \A r \in finding[f] :
         r.status \in FindingStatuses /\ {r.baseline, r.scope} \subseteq Scope \cup {Nowhere}
  BY <1>0 DEF FindingsShape, Rows
<1>3. FindingsTypeOK
  BY <1>0, <1>1, <1>2 DEF FindingsShape, FindingsTypeOK
<1>4. ASSUME NEW f \in Fingerprints, NEW r \in finding[f], Verdict(f) = "verified", f \notin rewritten
      PROVE  measured[r.baseline].after < measured[r.baseline].before /\ measured[r.baseline].n >= MinVerify
             /\ ~measured[r.baseline].degraded
  <2>1. RowOf(f) = r /\ r \in Rows
    BY <1>0, RowIs
  <2>. DEFINE then == measured[r.baseline]
              since == measured[VerifiedScope(r)]
              saved == ClassifySavings(then.before, since.after, since.n)
  <2>2. r.resolved /\ saved = "verified" /\ ~since.degraded
    <3>1. Verdict(f) = CASE ~ r.resolved -> "no_baseline"
                         [] r.resolved /\ f \notin elapsed -> "pending"
                         [] r.resolved /\ f \in elapsed /\ since.n = 0 -> "no_traffic"
                         [] OTHER -> IF saved = "verified" /\ since.degraded THEN "missed" ELSE saved
      BY <2>1 DEF Verdict
    <3>. HIDE DEF saved, since
    <3>2. r.resolved \in BOOLEAN
      BY <2>1 DEF Rows
    <3>. QED
      BY <1>4, <3>1, <3>2
  <2>3. r.baseline # Nowhere /\ r.scope = r.baseline
    BY <1>0, <1>4, <2>2 DEF EvidenceInv
  <2>4. VerifiedScope(r) = r.baseline /\ r.baseline \in Scope
    BY <2>1, <2>3 DEF VerifiedScope, Rows
  <2>5. since = then /\ then \in [before : Nat, after : Nat, n : Nat, degraded : BOOLEAN]
    BY <1>0, <2>4, FindingsAssumption DEF FindingsShape
  <2>6. then.n \in Nat /\ MinVerify \in Nat /\ ~(then.n < MinVerify) /\ then.after < then.before
    BY <2>2, <2>5, FindingsAssumption DEF ClassifySavings
  <2>. QED
    BY <2>2, <2>5, <2>6
<1>5. VerifiedIsSaving
  BY <1>4 DEF VerifiedIsSaving
<1>. QED
  BY <1>0, <1>3, <1>5

-----------------------------------------------------------------------------
(* Billing.  Events are numbered as they are sent and carry Paddle's state *)
(* of that moment (HistoryInv); every plan in an event, at Paddle or in a  *)
(* call it accepted was sold (SoldInv, CallInv); an event under way has    *)
(* mailed no receipt (ReceiptInv).  As long as the events of the           *)
(* subscription were applied without gap and in order, the row agrees with *)
(* the last of them or an update is to come (FollowInv).                   *)

Events == [n : Nat \ {0}, kind : Kinds, sub : Subs, plan : Plans, status : Statuses,
           cancel : BOOLEAN, ends : Nat]
Records == [status : Statuses \cup {"none"}, plan : Plans, cancel : BOOLEAN, next : Plans, ends : Nat]
CallKinds == {"upgrade", "downgrade", "cancel", "reactivate"}

BillingShape ==
    /\ paddle \in [Subs -> Records]
    /\ sent \subseteq Events /\ IsFiniteSet(sent) /\ Cardinality(sent) <= MaxEvents
    /\ seen \subseteq 1..MaxEvents /\ claimed \subseteq sent
    /\ handled \in [Subs -> 0..MaxEvents] /\ overtaken \in BOOLEAN
    /\ ws \in [plan : Plans, sub : Subs \cup {NoSub}, status : Statuses, cancel : BOOLEAN,
               ends : Nat, scheduled : Plans]
    /\ call = NoCall \/ call \in [kind : CallKinds, sub : Subs, target : Plans,
                                  stage : {"sent", "accepted"}, event : Nat]
    /\ bought \subseteq Plans
    /\ cycles \in [0..MaxPeriod -> Nat] /\ receipts \in [1..MaxEvents -> Nat]
    /\ now \in 0..MaxPeriod

\* The event d of a subscription follows the event e with nothing between.
Follows(d, e) == d.sub = e.sub /\ e.n < d.n /\ \A x \in sent : x.sub = d.sub => x.n <= e.n \/ x.n >= d.n
Snapshot(e, sub) == e.status = sub.status /\ e.plan = sub.plan /\ e.cancel = sub.cancel

HistoryInv ==
    /\ \A e \in sent : e.n <= Cardinality(sent)
    /\ \A d, e \in sent : d.n = e.n => d = e
    /\ \A e \in sent : paddle[e.sub].status # "none"
    /\ \A s \in Subs : paddle[s].status # "none" => \E e \in sent : e.sub = s
    /\ \A e \in sent : (\A x \in sent : x.sub = e.sub => x.n <= e.n) => Snapshot(e, paddle[e.sub])
    /\ \A d, e \in sent : Follows(d, e) /\ d.kind \in {"payment_failed", "completed"} =>
         /\ e.status = "active" /\ d.plan = e.plan /\ d.cancel = e.cancel
         /\ d.status = IF d.kind = "completed" THEN "active" ELSE "past_due"
    /\ \A e \in sent : e.kind = "canceled" <=> e.status = "canceled"
    /\ \A e \in sent : e.kind \in {"payment_failed", "completed"} => \E x \in sent : x.sub = e.sub /\ x.n < e.n

SoldInv ==
    /\ \A e \in sent : e.plan \in bought \cup {"free"}
    /\ \A s \in Subs : paddle[s].plan \in bought \cup {"free"}
    /\ ws.plan \in bought \cup {"free"}

ReceiptInv ==
    /\ \A n \in 1..MaxEvents : receipts[n] <= 1 /\ (receipts[n] > 0 => n \in seen)
    /\ \A e \in claimed : e.n \in seen /\ receipts[e.n] = 0
    /\ \A n \in seen : \E e \in sent : e.n = n

Applied(e) == e.n \in seen /\ e \notin claimed
Agrees(e) ==
    /\ ws.status = e.status
    /\ ws.plan = IF e.status = "canceled" THEN "free" ELSE e.plan
    /\ e.status # "canceled" => ws.cancel = e.cancel

CallInv ==
    /\ call # NoCall => paddle[call.sub].status # "none"
    /\ call.stage = "accepted" =>
         /\ call.kind = "upgrade" => call.target \in bought
         /\ \E e \in sent : /\ e.n = call.event /\ e.sub = call.sub /\ e.kind = "updated"
                            /\ call.kind = "upgrade" => e.plan = call.target
                            /\ call.kind = "cancel" => e.cancel
                            /\ call.kind = "reactivate" => ~e.cancel

FollowInv ==
    /\ ws.sub # NoSub => paddle[ws.sub].status # "none"
    /\ \A s \in Subs : handled[s] > 0 => \E e \in sent : e.n = handled[s] /\ e.sub = s /\ Applied(e)
    /\ overtaken \/ \A e \in sent : Applied(e) => e.n <= handled[e.sub]
    /\ ws.sub # NoSub => handled[ws.sub] > 0
    /\ overtaken \/ \A e \in sent :
         (e.sub = ws.sub /\ e.n = handled[e.sub]
           /\ \A x \in sent : x.sub = e.sub /\ x.n <= e.n => Applied(x))
         => Agrees(e) \/ \E x \in sent : x.sub = e.sub /\ x.kind = "updated" /\ x.n > e.n

BillingInv == BillingShape /\ HistoryInv /\ SoldInv /\ ReceiptInv /\ CallInv /\ FollowInv

\* The fields of what is stored.
LEMMA EventHeld ==
    ASSUME BillingShape, NEW e \in sent
    PROVE  /\ e.n \in Nat \ {0} /\ e.kind \in Kinds /\ e.sub \in Subs /\ e.plan \in Plans
           /\ e.status \in Statuses /\ e.cancel \in BOOLEAN /\ e.ends \in Nat
<1>1. e \in Events
  BY DEF BillingShape
<1>. QED
  BY <1>1 DEF Events

\* A call of the console that was made has its subscription and its plan.
LEMMA CallHeld ==
    ASSUME BillingShape
    PROVE  /\ call.stage \in {"idle", "sent", "accepted"}
           /\ call.stage = "idle" <=> call = NoCall
           /\ call # NoCall => /\ call.kind \in CallKinds /\ call.sub \in Subs /\ call.target \in Plans
                               /\ call.stage \in {"sent", "accepted"} /\ call.event \in Nat
<1>1. NoCall.stage = "idle"
  BY DEF NoCall
<1>. QED
  BY <1>1 DEF BillingShape

\* The workspace and Paddle begin in agreement.
LEMMA BillingBegin == BillingInit => BillingInv
<1>. SUFFICES ASSUME BillingInit PROVE BillingInv
  OBVIOUS
<1>0. MaxEvents \in Nat /\ MaxPeriod \in Nat /\ NoSub \notin Subs
  BY BillingAssumption
<1>1. \A s \in Subs : paddle[s] = NewSubscription
  BY DEF BillingInit
<1>2. NewSubscription \in Records /\ NewSubscription.status = "none" /\ NewSubscription.plan = "free"
  BY DEF NewSubscription, Records, Plans
<1>3. paddle \in [Subs -> Records]
  BY <1>2 DEF BillingInit
<1>4. IsFiniteSet(sent) /\ Cardinality(sent) <= MaxEvents
  BY <1>0, FS_EmptySet DEF BillingInit
<1>5. /\ ws \in [plan : Plans, sub : Subs \cup {NoSub}, status : Statuses, cancel : BOOLEAN,
                 ends : Nat, scheduled : Plans]
      /\ ws.sub = NoSub /\ ws.plan = "free"
  BY DEF BillingInit, Plans, Statuses
<1>6. cycles \in [0..MaxPeriod -> Nat] /\ receipts \in [1..MaxEvents -> Nat] /\ now \in 0..MaxPeriod
  BY <1>0 DEF BillingInit
<1>7. handled \in [Subs -> 0..MaxEvents] /\ \A s \in Subs : handled[s] = 0
  BY <1>0 DEF BillingInit
<1>8. BillingShape
  BY <1>3, <1>4, <1>5, <1>6, <1>7 DEF BillingInit, BillingShape
<1>9. HistoryInv
  BY <1>1, <1>2 DEF BillingInit, HistoryInv
<1>10. SoldInv
  BY <1>1, <1>2, <1>5 DEF BillingInit, SoldInv
<1>11. ReceiptInv
  BY DEF BillingInit, ReceiptInv
<1>12. CallInv
  BY DEF BillingInit, CallInv, NoCall
<1>13. FollowInv
  BY <1>5, <1>7 DEF BillingInit, FollowInv
<1>. QED
  BY <1>8, <1>9, <1>10, <1>11, <1>12, <1>13 DEF BillingInv

\* Paddle emits an event: it has the next number.
LEMMA EmitHeld ==
    ASSUME BillingShape, HistoryInv, NEW s \in Subs, NEW kind \in Kinds, NEW sub \in Records,
           sub.status \in Statuses, Emit(kind, s, sub)
    PROVE  /\ \E d \in Events :
                /\ d.n = Cardinality(sent) + 1 /\ d.kind = kind /\ d.sub = s /\ Snapshot(d, sub)
                /\ sent' = sent \cup {d} /\ \A e \in sent : e.n < d.n
           /\ Cardinality(sent) \in Nat
           /\ IsFiniteSet(sent') /\ Cardinality(sent') = Cardinality(sent) + 1 /\ Cardinality(sent') <= MaxEvents
           /\ paddle' \in [Subs -> Records] /\ paddle'[s] = sub
           /\ \A t \in Subs : t # s => paddle'[t] = paddle[t]
<1>. DEFINE d == Event(kind, s, sub)
<1>1. IsFiniteSet(sent) /\ Cardinality(sent) \in Nat /\ Cardinality(sent) < MaxEvents /\ sent' = sent \cup {d}
  BY FS_CardinalityType DEF BillingShape, Emit
<1>2. /\ sub.plan \in Plans /\ sub.cancel \in BOOLEAN /\ sub.ends \in Nat
  BY DEF Records
<1>3. d \in Events /\ d.n = Cardinality(sent) + 1 /\ d.kind = kind /\ d.sub = s /\ Snapshot(d, sub)
  BY <1>1, <1>2 DEF Event, Events, Snapshot
<1>. HIDE DEF d
<1>4. \A e \in sent : e.n < d.n
  BY <1>1, <1>3, EventHeld DEF HistoryInv
<1>5. d \notin sent
  <2>1. d.n \in Nat
    BY <1>1, <1>3
  <2>. QED
    BY <1>4, <2>1
<1>6. IsFiniteSet(sent') /\ Cardinality(sent') = Cardinality(sent) + 1
  BY <1>1, <1>5, FS_AddElement
<1>7. Cardinality(sent') <= MaxEvents
  BY <1>1, <1>6, BillingAssumption
<1>8. paddle' \in [Subs -> Records] /\ paddle'[s] = sub /\ \A t \in Subs : t # s => paddle'[t] = paddle[t]
  BY DEF BillingShape, Emit
<1>. QED
  BY <1>1, <1>3, <1>4, <1>6, <1>7, <1>8

\* The history goes on: the new event is the last of its subscription, and one
\* that changes only the status follows an active one.
LEMMA EmitHistory ==
    ASSUME BillingShape, HistoryInv, NEW s \in Subs, NEW kind \in Kinds, NEW sub \in Records,
           sub.status \in Statuses, Emit(kind, s, sub),
           kind = "canceled" <=> sub.status = "canceled",
           kind \in {"payment_failed", "completed"} =>
               /\ paddle[s].status = "active" /\ sub.plan = paddle[s].plan /\ sub.cancel = paddle[s].cancel
               /\ sub.status = IF kind = "completed" THEN "active" ELSE "past_due"
    PROVE  HistoryInv'
<1>1. PICK d \in Events : /\ d.n = Cardinality(sent) + 1 /\ d.kind = kind /\ d.sub = s /\ Snapshot(d, sub)
                          /\ sent' = sent \cup {d} /\ \A e \in sent : e.n < d.n
  BY EmitHeld
<1>2. /\ Cardinality(sent) \in Nat /\ Cardinality(sent') = Cardinality(sent) + 1
      /\ paddle'[s] = sub /\ \A t \in Subs : t # s => paddle'[t] = paddle[t]
  BY EmitHeld
<1>3. \A e \in sent : e.n \in Nat /\ e.sub \in Subs
  BY EventHeld
<1>4. d.n \in Nat
  BY <1>1, <1>2
<1>5. \A e \in sent' : e.n <= Cardinality(sent')
  BY <1>1, <1>2, <1>3, <1>4 DEF HistoryInv
<1>6. \A x, e \in sent' : x.n = e.n => x = e
  BY <1>1, <1>3, <1>4 DEF HistoryInv
<1>7. \A e \in sent' : paddle'[e.sub].status # "none"
  <2>1. sub.status # "none"
    BY DEF Statuses
  <2>. QED
    BY <1>1, <1>2, <1>3, <2>1 DEF HistoryInv
<1>8. \A t \in Subs : paddle'[t].status # "none" => \E e \in sent' : e.sub = t
  BY <1>1, <1>2 DEF HistoryInv
<1>9. \A e \in sent' : (\A x \in sent' : x.sub = e.sub => x.n <= e.n) => Snapshot(e, paddle'[e.sub])
  <2>1. TAKE e \in sent'
  <2>2. HAVE \A x \in sent' : x.sub = e.sub => x.n <= e.n
  <2>3. CASE e = d
    BY <1>1, <1>2, <2>3
  <2>4. CASE e # d
    <3>1. e \in sent /\ e.sub # s
      BY <1>1, <1>3, <1>4, <2>2, <2>4
    <3>. QED
      BY <1>1, <1>2, <1>3, <2>2, <3>1 DEF HistoryInv
  <2>. QED
    BY <2>3, <2>4
<1>10. ASSUME NEW x \in sent', NEW e \in sent', Follows(x, e)', x.kind \in {"payment_failed", "completed"}
       PROVE  /\ e.status = "active" /\ x.plan = e.plan /\ x.cancel = e.cancel
              /\ x.status = IF x.kind = "completed" THEN "active" ELSE "past_due"
  <2>0. x.sub = e.sub /\ e.n < x.n /\ \A y \in sent' : y.sub = x.sub => y.n <= e.n \/ y.n >= x.n
    BY <1>10 DEF Follows
  <2>1. e \in sent
    <3>1. e # d
      BY <1>1, <1>3, <1>4, <2>0
    <3>. QED
      BY <1>1, <3>1
  <2>2. CASE x \in sent
    <3>1. Follows(x, e)
      BY <1>1, <2>0 DEF Follows
    <3>. QED
      BY <1>10, <2>1, <2>2, <3>1 DEF HistoryInv
  <2>3. CASE x = d
    <3>1. \A y \in sent : y.sub = e.sub => y.n <= e.n
      BY <1>1, <1>3, <1>4, <2>0, <2>3
    <3>2. Snapshot(e, paddle[s])
      BY <1>1, <2>0, <2>1, <2>3, <3>1 DEF HistoryInv
    <3>. QED
      BY <1>1, <1>10, <2>3, <3>2 DEF Snapshot
  <2>. QED
    BY <1>1, <2>2, <2>3
<1>11. \A e \in sent' : e.kind = "canceled" <=> e.status = "canceled"
  BY <1>1 DEF HistoryInv, Snapshot
<1>12. \A e \in sent' : e.kind \in {"payment_failed", "completed"} => \E x \in sent' : x.sub = e.sub /\ x.n < e.n
  <2>1. kind \in {"payment_failed", "completed"} => \E x \in sent : x.sub = s
    BY DEF HistoryInv
  <2>. QED
    BY <1>1, <2>1 DEF HistoryInv
<1>. QED
  BY <1>5, <1>6, <1>7, <1>8, <1>9, <1>10, <1>11, <1>12 DEF HistoryInv

\* The rest of the invariant after an event of Paddle, the call aside.
LEMMA EmitRest ==
    ASSUME BillingShape, HistoryInv, SoldInv, ReceiptInv, FollowInv,
           NEW s \in Subs, NEW kind \in Kinds, NEW sub \in Records, sub.status \in Statuses, Emit(kind, s, sub),
           UNCHANGED <<seen, claimed, handled, overtaken, ws, cycles, receipts>>,
           bought \subseteq bought', bought' \subseteq Plans, sub.plan \in bought' \cup {"free"}
    PROVE  SoldInv' /\ ReceiptInv' /\ FollowInv'
<1>1. PICK d \in Events : /\ d.n = Cardinality(sent) + 1 /\ d.kind = kind /\ d.sub = s /\ Snapshot(d, sub)
                          /\ sent' = sent \cup {d} /\ \A e \in sent : e.n < d.n
  BY EmitHeld
<1>2. /\ Cardinality(sent) \in Nat
      /\ paddle'[s] = sub /\ \A t \in Subs : t # s => paddle'[t] = paddle[t]
  BY EmitHeld
<1>3. \A e \in sent : e.n \in Nat /\ e.sub \in Subs
  BY EventHeld
<1>4. d.n \in Nat
  BY <1>1, <1>2
<1>5. d.n \notin seen
  <2>. SUFFICES ASSUME d.n \in seen PROVE FALSE
    OBVIOUS
  <2>1. PICK e \in sent : e.n = d.n
    BY DEF ReceiptInv
  <2>. QED
    BY <1>1, <1>4, <2>1
<1>6. SoldInv'
  BY <1>1, <1>2 DEF SoldInv, Snapshot
<1>7. ReceiptInv'
  BY <1>1 DEF ReceiptInv
<1>8. \A e : Applied(e)' <=> Applied(e)
  BY DEF Applied
<1>9. \A e : Agrees(e)' <=> Agrees(e)
  BY DEF Agrees
<1>10. ws.sub # NoSub => paddle'[ws.sub].status # "none"
  <2>1. sub.status # "none"
    BY DEF Statuses
  <2>2. ws.sub \in Subs \cup {NoSub}
    BY DEF BillingShape
  <2>. QED
    BY <1>2, <2>1, <2>2 DEF FollowInv
<1>11. ~Applied(d)
  BY <1>5 DEF Applied
<1>12. \A t \in Subs : handled[t] > 0 => \E e \in sent' : e.n = handled[t] /\ e.sub = t /\ Applied(e)
  BY <1>1 DEF FollowInv
<1>13. overtaken \/ \A e \in sent' : Applied(e) => e.n <= handled[e.sub]
  BY <1>1, <1>11 DEF FollowInv
<1>14. ASSUME ~overtaken, NEW e \in sent', e.sub = ws.sub, e.n = handled[e.sub],
              \A x \in sent' : x.sub = e.sub /\ x.n <= e.n => Applied(x)
       PROVE  Agrees(e) \/ \E x \in sent' : x.sub = e.sub /\ x.kind = "updated" /\ x.n > e.n
  <2>1. e \in sent
    <3>1. e.n <= e.n
      BY <1>1, <1>3, <1>4
    <3>. QED
      BY <1>1, <1>11, <1>14, <3>1
  <2>2. \A x \in sent : x.sub = e.sub /\ x.n <= e.n => Applied(x)
    BY <1>1, <1>14
  <2>3. Agrees(e) \/ \E x \in sent : x.sub = e.sub /\ x.kind = "updated" /\ x.n > e.n
    BY <1>14, <2>1, <2>2 DEF FollowInv
  <2>. QED
    BY <1>1, <2>3
<1>15. FollowInv'
  BY <1>8, <1>9, <1>10, <1>12, <1>13, <1>14 DEF FollowInv
<1>. QED
  BY <1>6, <1>7, <1>15


\* A call under way outlasts an event of Paddle.
LEMMA CallKept ==
    ASSUME BillingShape, HistoryInv, CallInv, NEW s \in Subs, NEW kind \in Kinds, NEW sub \in Records,
           sub.status \in Statuses, Emit(kind, s, sub), bought \subseteq bought', call' = call
    PROVE  CallInv'
<1>1. PICK d \in Events : sent' = sent \cup {d}
  BY EmitHeld
<1>2. paddle'[s] = sub /\ \A t \in Subs : t # s => paddle'[t] = paddle[t]
  BY EmitHeld
<1>3. sub.status # "none"
  BY DEF Statuses
<1>4. call # NoCall => paddle'[call.sub].status # "none"
  BY <1>2, <1>3, CallHeld DEF CallInv
<1>. QED
  BY <1>1, <1>4 DEF CallInv

\* What every event of Paddle preserves.
LEMMA PaddleHeld ==
    ASSUME BillingInv, NEW s \in Subs, NEW kind \in Kinds, NEW sub \in Records,
           sub.status \in Statuses, Emit(kind, s, sub),
           kind = "canceled" <=> sub.status = "canceled",
           kind \in {"payment_failed", "completed"} =>
               /\ paddle[s].status = "active" /\ sub.plan = paddle[s].plan /\ sub.cancel = paddle[s].cancel
               /\ sub.status = IF kind = "completed" THEN "active" ELSE "past_due",
           UNCHANGED <<seen, claimed, handled, overtaken, ws, cycles, receipts>>, now' \in 0..MaxPeriod,
           bought \subseteq bought', bought' \subseteq Plans, sub.plan \in bought' \cup {"free"},
           CallInv',
           call' = NoCall \/ call' \in [kind : CallKinds, sub : Subs, target : Plans,
                                        stage : {"sent", "accepted"}, event : Nat]
    PROVE  BillingInv'
<1>0. BillingShape /\ HistoryInv /\ SoldInv /\ ReceiptInv /\ FollowInv
  BY DEF BillingInv
<1>1. PICK d \in Events : sent' = sent \cup {d}
  BY <1>0, EmitHeld
<1>2. IsFiniteSet(sent') /\ Cardinality(sent') <= MaxEvents /\ paddle' \in [Subs -> Records]
  BY <1>0, EmitHeld
<1>3. HistoryInv'
  BY <1>0, EmitHistory
<1>4. SoldInv' /\ ReceiptInv' /\ FollowInv'
  BY <1>0, EmitRest
<1>5. sent' \subseteq Events /\ claimed' \subseteq sent'
  BY <1>0, <1>1 DEF BillingShape
<1>6. BillingShape'
  BY <1>0, <1>2, <1>5 DEF BillingShape
<1>. QED
  BY <1>3, <1>4, <1>6 DEF BillingInv

\* The same for the events that no call of the console asks for.
LEMMA PaddleAlone ==
    ASSUME BillingInv, NEW s \in Subs, NEW kind \in Kinds, NEW sub \in Records,
           sub.status \in Statuses, Emit(kind, s, sub),
           kind = "canceled" <=> sub.status = "canceled",
           kind \in {"payment_failed", "completed"} =>
               /\ paddle[s].status = "active" /\ sub.plan = paddle[s].plan /\ sub.cancel = paddle[s].cancel
               /\ sub.status = IF kind = "completed" THEN "active" ELSE "past_due",
           AtPaddle, UNCHANGED <<call, now>>,
           bought \subseteq bought', bought' \subseteq Plans, sub.plan \in bought' \cup {"free"}
    PROVE  BillingInv' /\ cycles' = cycles
<1>0. BillingShape /\ HistoryInv /\ CallInv
  BY DEF BillingInv
<1>1. CallInv'
  BY <1>0, CallKept
<1>2. /\ now' \in 0..MaxPeriod
      /\ call' = NoCall \/ call' \in [kind : CallKinds, sub : Subs, target : Plans,
                                      stage : {"sent", "accepted"}, event : Nat]
  BY <1>0 DEF BillingShape
<1>3. UNCHANGED <<seen, claimed, handled, overtaken, ws, cycles, receipts>>
  BY DEF AtPaddle
<1>4. BillingInv'
  BY <1>1, <1>2, <1>3, PaddleHeld
<1>. QED
  BY <1>3, <1>4

\* Checkouts and what Paddle does by itself: no webhook is handled yet.
LEMMA BillingStepPaddle ==
    ASSUME BillingInv, NEW s \in Subs,
           \/ \E plan \in PaidPlans : CreateCheckout(s, plan)
           \/ PaddleBills(s) \/ PaddleChargeFails(s) \/ PaddleReceipt(s)
           \/ PaddleRollsOver(s) \/ PaddleEnds(s)
    PROVE  BillingInv' /\ cycles' = cycles
<1>0. BillingShape /\ HistoryInv /\ SoldInv
  BY DEF BillingInv
<1>1. /\ paddle[s] \in Records /\ bought \subseteq Plans /\ now \in Nat
      /\ paddle[s].plan \in bought \cup {"free"} /\ paddle[s].next \in Plans
  <2>1. paddle[s] \in Records
    BY <1>0 DEF BillingShape
  <2>2. now \in Nat
    BY <1>0, BillingAssumption DEF BillingShape
  <2>. QED
    BY <1>0, <2>1, <2>2 DEF BillingShape, SoldInv, Records
<1>2. ASSUME NEW plan \in PaidPlans, CreateCheckout(s, plan) PROVE BillingInv' /\ cycles' = cycles
  <2>1. PICK sub : sub = [status |-> IF plan = "cloud" THEN "trialing" ELSE "active",
                          plan |-> plan, cancel |-> FALSE, next |-> plan, ends |-> now + 1]
    OBVIOUS
  <2>2. PICK kind : kind = IF plan = "cloud" THEN "trialing" ELSE "activated"
    OBVIOUS
  <2>3. /\ Emit(kind, s, sub) /\ bought' = bought \cup {plan} /\ AtPaddle /\ UNCHANGED <<call, now>>
    BY <1>2, <2>1, <2>2 DEF CreateCheckout
  <2>4. kind \in Kinds /\ kind \notin {"canceled", "payment_failed", "completed"}
    BY <2>2 DEF Kinds
  <2>5. sub \in Records /\ sub.status \in Statuses \ {"canceled"} /\ sub.plan = plan
    BY <1>1, <2>1 DEF Records, Statuses, Plans
  <2>6. bought \subseteq bought' /\ bought' \subseteq Plans /\ sub.plan \in bought' \cup {"free"}
    BY <1>1, <2>3, <2>5 DEF Plans
  <2>. HIDE <2>1, <2>2
  <2>. QED
    BY <2>3, <2>4, <2>5, <2>6, PaddleAlone
<1>3. ASSUME PaddleBills(s) PROVE BillingInv' /\ cycles' = cycles
  <2>1. PICK sub : sub = [paddle[s] EXCEPT !.status = "active"]
    OBVIOUS
  <2>2. PICK kind : kind = IF paddle[s].status = "trialing" THEN "activated" ELSE "updated"
    OBVIOUS
  <2>3. /\ Emit(kind, s, sub) /\ bought' = bought /\ AtPaddle /\ UNCHANGED <<call, now>>
    BY <1>3, <2>1, <2>2 DEF PaddleBills
  <2>4. kind \in Kinds /\ kind \notin {"canceled", "payment_failed", "completed"}
    BY <2>2 DEF Kinds
  <2>5. sub \in Records /\ sub.status \in Statuses \ {"canceled"} /\ sub.plan = paddle[s].plan
    BY <1>1, <2>1 DEF Records, Statuses
  <2>. QED
    BY <1>1, <2>3, <2>4, <2>5, PaddleAlone
<1>4. ASSUME PaddleChargeFails(s) PROVE BillingInv' /\ cycles' = cycles
  <2>1. PICK sub : sub = [paddle[s] EXCEPT !.status = "past_due"]
    OBVIOUS
  <2>3. /\ Emit("payment_failed", s, sub) /\ bought' = bought /\ AtPaddle /\ UNCHANGED <<call, now>>
        /\ paddle[s].status = "active"
    BY <1>4, <2>1 DEF PaddleChargeFails
  <2>4. "payment_failed" \in Kinds
    BY DEF Kinds
  <2>5. sub \in Records /\ sub.status = "past_due" /\ sub.status \in Statuses
        /\ sub.plan = paddle[s].plan /\ sub.cancel = paddle[s].cancel
    BY <1>1, <2>1 DEF Records, Statuses
  <2>. QED
    BY <1>1, <2>3, <2>4, <2>5, PaddleAlone
<1>5. ASSUME PaddleReceipt(s) PROVE BillingInv' /\ cycles' = cycles
  <2>3. /\ Emit("completed", s, paddle[s]) /\ bought' = bought /\ AtPaddle /\ UNCHANGED <<call, now>>
        /\ paddle[s].status = "active"
    BY <1>5 DEF PaddleReceipt
  <2>4. "completed" \in Kinds /\ paddle[s].status \in Statuses
    BY <2>3 DEF Kinds, Statuses
  <2>. QED
    BY <1>1, <2>3, <2>4, PaddleAlone
<1>6. ASSUME Emit("canceled", s, Ended(paddle[s])), bought' = bought, AtPaddle, UNCHANGED <<call, now>>
      PROVE  BillingInv' /\ cycles' = cycles
  <2>1. PICK sub : sub = Ended(paddle[s])
    OBVIOUS
  <2>4. "canceled" \in Kinds
    BY DEF Kinds
  <2>5. sub \in Records /\ sub.status = "canceled" /\ sub.status \in Statuses /\ sub.plan = paddle[s].plan
    BY <1>1, <2>1 DEF Records, Statuses, Ended
  <2>6. Emit("canceled", s, sub)
    BY <1>6, <2>1
  <2>. QED
    BY <1>1, <1>6, <2>4, <2>5, <2>6, PaddleAlone
<1>7. ASSUME PaddleRollsOver(s) PROVE BillingInv' /\ cycles' = cycles
  <2>0. AtPaddle /\ UNCHANGED <<call, now>> /\ paddle[s].status \in {"active", "past_due"}
    BY <1>7 DEF PaddleRollsOver
  <2>1. CASE paddle[s].cancel
    BY <1>6, <1>7, <2>0, <2>1 DEF PaddleRollsOver
  <2>2. CASE ~paddle[s].cancel
    <3>1. PICK sub : sub = Renewed(paddle[s])
      OBVIOUS
    <3>3. Emit("updated", s, sub) /\ bought' = bought \cup {paddle[s].next}
      BY <1>7, <2>2, <3>1 DEF PaddleRollsOver
    <3>4. "updated" \in Kinds
      BY DEF Kinds
    <3>5. sub \in Records /\ sub.status \in Statuses \ {"canceled"} /\ sub.plan = paddle[s].next
      <4>0. PICK m \in Nat : m = now + 1
        BY <1>1
      <4>1. /\ sub.status = paddle[s].status /\ sub.plan = paddle[s].next /\ sub.ends = m
            /\ sub = [status |-> paddle[s].status, plan |-> paddle[s].next, cancel |-> paddle[s].cancel,
                      next |-> paddle[s].next, ends |-> m]
        BY <1>1, <3>1, <4>0 DEF Records, Renewed
      <4>2. paddle[s].status \in Statuses \ {"canceled"}
        BY <2>0 DEF Statuses
      <4>3. paddle[s].cancel \in BOOLEAN
        BY <1>1 DEF Records
      <4>. QED
        BY <1>1, <4>1, <4>2, <4>3 DEF Records
    <3>. QED
      BY <1>1, <2>0, <3>3, <3>4, <3>5, PaddleAlone
  <2>. QED
    BY <2>1, <2>2
<1>8. ASSUME PaddleEnds(s) PROVE BillingInv' /\ cycles' = cycles
  BY <1>6, <1>8 DEF PaddleEnds
<1>. QED
  BY <1>2, <1>3, <1>4, <1>5, <1>7, <1>8

\* Paddle takes a change the console asked for.
LEMMA BillingStepAccepts ==
    ASSUME BillingInv, PaddleAccepts
    PROVE  BillingInv' /\ cycles' = cycles
<1>0. BillingShape /\ HistoryInv /\ SoldInv /\ CallInv
  BY DEF BillingInv
<1>1. PICK s : s = call.sub
  OBVIOUS
<1>2. PICK sub : sub = Patched(paddle[s], call)
  OBVIOUS
<1>3. /\ call.stage = "sent" /\ paddle[s].status # "canceled" /\ Emit("updated", s, sub)
      /\ bought' = bought \cup {sub.plan}
      /\ call' = [call EXCEPT !.stage = "accepted", !.event = Cardinality(sent) + 1]
      /\ UNCHANGED <<seen, claimed, handled, overtaken, ws, cycles, receipts, now>>
  BY <1>1, <1>2 DEF PaddleAccepts, AtConsole
<1>4. /\ call # NoCall /\ call.kind \in CallKinds /\ s \in Subs /\ call.target \in Plans /\ call.event \in Nat
      /\ call \in [kind : CallKinds, sub : Subs, target : Plans, stage : {"sent", "accepted"}, event : Nat]
  BY <1>0, <1>1, <1>3, CallHeld DEF BillingShape, NoCall
<1>5. paddle[s] \in Records /\ paddle[s].status \in Statuses
  BY <1>0, <1>1, <1>4 DEF BillingShape, CallInv, Records
<1>6. /\ sub \in Records /\ sub.status = paddle[s].status
      /\ call.kind = "upgrade" => sub.plan = call.target
      /\ call.kind # "upgrade" => sub.plan = paddle[s].plan
      /\ call.kind = "cancel" => sub.cancel
      /\ call.kind = "reactivate" => ~sub.cancel
  <2>1. CASE call.kind = "upgrade"
    BY <1>2, <1>4, <1>5, <2>1 DEF Records, Patched
  <2>2. CASE call.kind = "downgrade"
    BY <1>2, <1>4, <1>5, <2>2 DEF Records, Patched
  <2>3. CASE call.kind = "cancel"
    BY <1>2, <1>4, <1>5, <2>3 DEF Records, Patched
  <2>4. CASE call.kind = "reactivate"
    BY <1>2, <1>4, <1>5, <2>4 DEF Records, Patched
  <2>. QED
    BY <1>4, <2>1, <2>2, <2>3, <2>4 DEF CallKinds
<1>. HIDE <1>2
<1>7. "updated" \in Kinds /\ "updated" \notin {"canceled", "payment_failed", "completed"}
  BY DEF Kinds
<1>8. Cardinality(sent) \in Nat
  BY <1>0, <1>3, <1>4, <1>5, <1>6, <1>7, EmitHeld
<1>9. PICK d \in Events : /\ d.n = Cardinality(sent) + 1 /\ d.kind = "updated" /\ d.sub = s /\ Snapshot(d, sub)
                          /\ sent' = sent \cup {d}
  BY <1>0, <1>3, <1>4, <1>5, <1>6, <1>7, EmitHeld
<1>10. paddle'[s] = sub
  BY <1>0, <1>3, <1>4, <1>5, <1>6, <1>7, EmitHeld
<1>11. /\ call'.kind = call.kind /\ call'.sub = s /\ call'.target = call.target
       /\ call'.event = Cardinality(sent) + 1 /\ call'.stage = "accepted"
       /\ call' \in [kind : CallKinds, sub : Subs, target : Plans, stage : {"sent", "accepted"}, event : Nat]
  <2>0. PICK m \in Nat : m = Cardinality(sent) + 1
    BY <1>8
  <2>1. call' = [call EXCEPT !.stage = "accepted", !.event = m]
    BY <1>3, <2>0
  <2>2. call' = [kind |-> call.kind, sub |-> call.sub, target |-> call.target, stage |-> "accepted", event |-> m]
    BY <1>4, <2>1
  <2>. HIDE <2>1
  <2>3. /\ call'.kind = call.kind /\ call'.sub = s /\ call'.target = call.target
        /\ call'.event = m /\ call'.stage = "accepted"
    BY <1>1, <2>2
  <2>4. call' \in [kind : CallKinds, sub : Subs, target : Plans, stage : {"sent", "accepted"}, event : Nat]
    BY <1>1, <1>4, <2>2
  <2>. QED
    BY <2>0, <2>3, <2>4
<1>12. /\ call'.kind = "upgrade" => call'.target \in bought'
       /\ d.n = call'.event /\ d.sub = call'.sub /\ d.kind = "updated"
       /\ call'.kind = "upgrade" => d.plan = call'.target
       /\ call'.kind = "cancel" => d.cancel
       /\ call'.kind = "reactivate" => ~d.cancel
  BY <1>3, <1>6, <1>9, <1>11 DEF Snapshot
<1>13. CallInv'
  <2>1. paddle'[call'.sub].status # "none"
    BY <1>5, <1>6, <1>10, <1>11 DEF Statuses
  <2>2. d \in sent'
    BY <1>9
  <2>. QED
    BY <1>12, <2>1, <2>2 DEF CallInv
<1>14. /\ bought \subseteq bought' /\ bought' \subseteq Plans /\ sub.plan \in bought' \cup {"free"}
       /\ now' \in 0..MaxPeriod
  <2>1. sub.plan \in Plans
    BY <1>6 DEF Records
  <2>. QED
    BY <1>0, <1>3, <2>1 DEF BillingShape
<1>15. sub.status \in Statuses /\ ("updated" = "canceled" <=> sub.status = "canceled")
  BY <1>3, <1>5, <1>6
<1>16. BillingInv'
  BY <1>3, <1>4, <1>6, <1>7, <1>11, <1>13, <1>14, <1>15, PaddleHeld
<1>. QED
  BY <1>3, <1>16

\* The next period begins, or ingest counts a batch.
LEMMA BillingStepClock ==
    ASSUME BillingInv, PeriodPasses \/ RecordUsage
    PROVE  BillingInv' /\ \A p \in 0..MaxPeriod : cycles'[p] >= cycles[p]
<1>0. /\ BillingShape /\ HistoryInv /\ SoldInv /\ ReceiptInv /\ CallInv /\ FollowInv
      /\ MaxPeriod \in Nat
  BY BillingAssumption DEF BillingInv
<1>1. UNCHANGED <<paddle, sent, seen, claimed, handled, overtaken, ws, call, bought, receipts>>
  BY DEF PeriodPasses, RecordUsage
<1>2. HistoryInv' /\ SoldInv' /\ ReceiptInv' /\ CallInv'
  BY <1>0, <1>1 DEF HistoryInv, SoldInv, ReceiptInv, CallInv, Follows, Snapshot
<1>3. FollowInv'
  BY <1>0, <1>1 DEF FollowInv, Applied, Agrees
<1>4. now' \in 0..MaxPeriod
  BY <1>0 DEF PeriodPasses, RecordUsage, BillingShape
<1>5. /\ cycles' \in [0..MaxPeriod -> Nat]
      /\ \A p \in 0..MaxPeriod : cycles'[p] >= cycles[p]
  <2>1. CASE PeriodPasses
    BY <1>0, <2>1 DEF PeriodPasses, BillingShape
  <2>2. CASE RecordUsage
    <3>1. PICK q \in CurrentCycle : cycles' = [cycles EXCEPT ![q] = @ + 1]
      BY <2>2 DEF RecordUsage
    <3>2. q \in 0..MaxPeriod
      BY <1>0 DEF CurrentCycle, BillingShape
    <3>. QED
      BY <1>0, <3>1, <3>2 DEF BillingShape
  <2>. QED
    BY <2>1, <2>2
<1>6. BillingShape'
  BY <1>0, <1>1, <1>4, <1>5 DEF BillingShape
<1>. QED
  BY <1>2, <1>3, <1>5, <1>6 DEF BillingInv

\* The numbers of events are within their bound.
LEMMA NumberHeld ==
    ASSUME BillingShape, HistoryInv, NEW e \in sent
    PROVE  e.n \in 1..MaxEvents
<1>1. Cardinality(sent) \in Nat /\ Cardinality(sent) <= MaxEvents /\ MaxEvents \in Nat
  BY FS_CardinalityType, BillingAssumption DEF BillingShape
<1>2. e.n \in Nat \ {0} /\ e.n <= Cardinality(sent)
  BY EventHeld DEF HistoryInv
<1>. QED
  BY <1>1, <1>2

\* The claim of an event leaves what was applied as it is.
LEMMA BillingStepClaim ==
    ASSUME BillingInv, NEW e \in sent, WebhookClaim(e)
    PROVE  BillingInv' /\ cycles' = cycles
<1>0. BillingShape /\ HistoryInv /\ SoldInv /\ ReceiptInv /\ CallInv /\ FollowInv
  BY DEF BillingInv
<1>1. /\ UNCHANGED <<paddle, sent, bought, call, now, handled, overtaken, ws, cycles, receipts>>
      /\ e.n \notin seen /\ seen' = seen \cup {e.n} /\ claimed' = claimed \cup {e}
  BY DEF WebhookClaim, AtWebhook
<1>2. e.n \in 1..MaxEvents
  BY <1>0, NumberHeld
<1>3. BillingShape'
  BY <1>0, <1>1, <1>2 DEF BillingShape
<1>4. HistoryInv' /\ SoldInv' /\ CallInv'
  BY <1>0, <1>1 DEF HistoryInv, SoldInv, CallInv, Follows, Snapshot
<1>5. receipts[e.n] = 0
  <2>1. receipts[e.n] \in Nat
    BY <1>0, <1>2 DEF BillingShape
  <2>2. ~(receipts[e.n] > 0)
    BY <1>0, <1>1, <1>2 DEF ReceiptInv
  <2>. QED
    BY <2>1, <2>2
<1>6. ReceiptInv'
  BY <1>0, <1>1, <1>5 DEF ReceiptInv
<1>7. \A x \in sent : Applied(x)' <=> Applied(x)
  BY <1>0, <1>1 DEF Applied, HistoryInv
<1>8. \A x : Agrees(x)' <=> Agrees(x)
  BY <1>1 DEF Agrees
<1>9. FollowInv'
  BY <1>0, <1>1, <1>7, <1>8 DEF FollowInv
<1>. QED
  BY <1>1, <1>3, <1>4, <1>6, <1>9 DEF BillingInv

\* An event that leaves the handler, by its effect or by an error, counts as
\* applied; no other does.
LEMMA NowApplied ==
    ASSUME BillingShape, HistoryInv, ReceiptInv, FollowInv, NEW e \in claimed,
           claimed' = claimed \ {e}, seen' = seen
    PROVE  /\ \A x : Applied(x)' <=> Applied(x) \/ x = e
           /\ ~Applied(e) /\ e \in sent /\ e.n \in 1..MaxEvents /\ e.sub \in Subs
           /\ handled[e.sub] # e.n
<1>1. e \in sent /\ e.n \in seen
  BY DEF BillingShape, ReceiptInv
<1>2. ~Applied(e)
  BY DEF Applied
<1>3. \A x : Applied(x)' <=> Applied(x) \/ x = e
  BY <1>1 DEF Applied
<1>4. e.n \in 1..MaxEvents /\ e.sub \in Subs
  BY <1>1, NumberHeld, EventHeld
<1>5. ASSUME handled[e.sub] = e.n PROVE FALSE
  <2>1. e.n > 0
    BY <1>4
  <2>2. PICK y \in sent : y.n = handled[e.sub] /\ Applied(y)
    BY <1>4, <1>5, <2>1 DEF FollowInv
  <2>. QED
    BY <1>1, <1>2, <1>5, <2>2 DEF HistoryInv
<1>. QED
  BY <1>1, <1>2, <1>3, <1>4, <1>5

\* A handler that raises.
LEMMA BillingStepRaises ==
    ASSUME BillingInv, NEW e \in claimed, WebhookRaises(e)
    PROVE  BillingInv' /\ cycles' = cycles
<1>0. BillingShape /\ HistoryInv /\ SoldInv /\ ReceiptInv /\ CallInv /\ FollowInv
  BY DEF BillingInv
<1>1. /\ UNCHANGED <<paddle, sent, bought, call, now, seen, handled, ws, cycles, receipts>>
      /\ claimed' = claimed \ {e} /\ overtaken' = TRUE
  BY DEF WebhookRaises, AtWebhook
<1>2. BillingShape'
  BY <1>0, <1>1 DEF BillingShape
<1>3. HistoryInv' /\ SoldInv' /\ CallInv' /\ ReceiptInv'
  BY <1>0, <1>1 DEF HistoryInv, SoldInv, CallInv, ReceiptInv, Follows, Snapshot
<1>4. \A x : Applied(x)' <=> Applied(x) \/ x = e
  BY <1>0, <1>1, NowApplied
<1>5. FollowInv'
  BY <1>0, <1>1, <1>4 DEF FollowInv
<1>. QED
  BY <1>1, <1>2, <1>3, <1>5 DEF BillingInv

\* The console begins a call, or gives one up.
LEMMA BillingStepCall ==
    ASSUME BillingInv,
           CallFails \/ \E kind \in {"change", "cancel", "reactivate"}, target \in Plans : CallStarts(kind, target)
    PROVE  BillingInv' /\ cycles' = cycles
<1>0. BillingShape /\ HistoryInv /\ SoldInv /\ ReceiptInv /\ CallInv /\ FollowInv
  BY DEF BillingInv
<1>1. UNCHANGED <<paddle, sent, bought, overtaken, ws, seen, claimed, handled, cycles, receipts, now>>
  BY DEF CallFails, CallStarts, AtConsole
<1>2. HistoryInv' /\ SoldInv' /\ ReceiptInv'
  BY <1>0, <1>1 DEF HistoryInv, SoldInv, ReceiptInv, Follows, Snapshot
<1>3. FollowInv'
  BY <1>0, <1>1 DEF FollowInv, Applied, Agrees
<1>4. CASE CallFails
  <2>1. call' = NoCall
    BY <1>4 DEF CallFails
  <2>2. BillingShape'
    BY <1>0, <1>1, <2>1 DEF BillingShape
  <2>3. CallInv'
    BY <2>1 DEF CallInv, NoCall
  <2>. QED
    BY <1>1, <1>2, <1>3, <2>2, <2>3 DEF BillingInv
<1>5. ASSUME NEW kind \in {"change", "cancel", "reactivate"}, NEW target \in Plans, CallStarts(kind, target)
      PROVE  BillingInv'
  <2>1. PICK k : k = IF kind # "change" THEN kind
                     ELSE IF Tier(target) > Tier(ws.plan) THEN "upgrade" ELSE "downgrade"
    OBVIOUS
  <2>2. k \in CallKinds
    BY <2>1 DEF CallKinds
  <2>3. call' = [kind |-> k, sub |-> ws.sub, target |-> target, stage |-> "sent", event |-> 0]
    BY <1>5, <2>1 DEF CallStarts
  <2>4. ws.sub # NoSub /\ ws.sub \in Subs
    BY <1>0, <1>5 DEF CallStarts, MayCall, BillingShape
  <2>5. call' \in [kind : CallKinds, sub : Subs, target : Plans, stage : {"sent", "accepted"}, event : Nat]
    BY <2>2, <2>3, <2>4
  <2>6. BillingShape'
    BY <1>0, <1>1, <2>5 DEF BillingShape
  <2>7. call'.sub = ws.sub /\ call'.stage = "sent"
    BY <2>3
  <2>8. CallInv'
    BY <1>0, <1>1, <2>4, <2>7 DEF CallInv, FollowInv
  <2>. QED
    BY <1>2, <1>3, <2>6, <2>8 DEF BillingInv
<1>. QED
  BY <1>1, <1>4, <1>5

\* The write after Paddle's answer: unless a newer event was applied, the row
\* agrees with the event of the call or that event is to come.
LEMMA BillingStepWrites ==
    ASSUME BillingInv, CallWrites
    PROVE  BillingInv' /\ cycles' = cycles
<1>0. BillingShape /\ HistoryInv /\ SoldInv /\ ReceiptInv /\ CallInv /\ FollowInv
  BY DEF BillingInv
<1>1. /\ UNCHANGED <<paddle, sent, bought, seen, claimed, handled, cycles, receipts, now>>
      /\ call.stage = "accepted" /\ call' = NoCall
      /\ overtaken' = (overtaken \/ ws.sub # call.sub \/ handled[call.sub] > call.event)
  BY DEF CallWrites, AtConsole
<1>2. call # NoCall /\ call.kind \in CallKinds /\ call.sub \in Subs /\ call.target \in Plans /\ call.event \in Nat
  BY <1>0, <1>1, CallHeld DEF NoCall
<1>3. PICK y \in sent : /\ y.n = call.event /\ y.sub = call.sub /\ y.kind = "updated"
                        /\ call.kind = "upgrade" => y.plan = call.target
                        /\ call.kind = "cancel" => y.cancel
                        /\ call.kind = "reactivate" => ~y.cancel
  BY <1>0, <1>1 DEF CallInv
<1>4. /\ ws' \in [plan : Plans, sub : Subs \cup {NoSub}, status : Statuses, cancel : BOOLEAN,
                  ends : Nat, scheduled : Plans]
      /\ ws'.sub = ws.sub /\ ws'.status = ws.status
      /\ ws'.plan = IF call.kind = "upgrade" THEN call.target ELSE ws.plan
      /\ ws'.cancel = IF call.kind = "cancel" THEN TRUE
                      ELSE IF call.kind = "reactivate" THEN FALSE ELSE ws.cancel
  <2>0. ws \in [plan : Plans, sub : Subs \cup {NoSub}, status : Statuses, cancel : BOOLEAN,
                ends : Nat, scheduled : Plans]
    BY <1>0 DEF BillingShape
  <2>1. CASE call.kind = "upgrade"
    <3>1. ws' = [ws EXCEPT !.plan = call.target, !.scheduled = "free"]
      BY <2>1 DEF CallWrites
    <3>2. "free" \in Plans
      BY DEF Plans
    <3>. QED
      BY <1>2, <2>0, <2>1, <3>1, <3>2
  <2>2. CASE call.kind = "downgrade"
    <3>1. ws' = [ws EXCEPT !.scheduled = call.target]
      BY <2>2 DEF CallWrites
    <3>. QED
      BY <1>2, <2>0, <2>2, <3>1
  <2>3. CASE call.kind = "cancel"
    <3>1. ws' = [ws EXCEPT !.cancel = TRUE]
      BY <2>3 DEF CallWrites
    <3>. QED
      BY <2>0, <2>3, <3>1
  <2>4. CASE call.kind = "reactivate"
    <3>1. ws' = [ws EXCEPT !.cancel = FALSE]
      BY <2>4 DEF CallWrites
    <3>. QED
      BY <2>0, <2>4, <3>1
  <2>. QED
    BY <1>2, <2>1, <2>2, <2>3, <2>4 DEF CallKinds
<1>5. BillingShape'
  <2>1. overtaken' \in BOOLEAN
    BY <1>0, <1>1 DEF BillingShape
  <2>. QED
    BY <1>0, <1>1, <1>4, <2>1 DEF BillingShape
<1>6. HistoryInv' /\ ReceiptInv'
  BY <1>0, <1>1 DEF HistoryInv, ReceiptInv, Follows, Snapshot
<1>7. SoldInv'
  BY <1>0, <1>1, <1>4 DEF SoldInv, CallInv
<1>8. CallInv'
  BY <1>1 DEF CallInv, NoCall
<1>9. \A x : Applied(x)' <=> Applied(x)
  BY <1>1 DEF Applied
<1>10. ASSUME ~overtaken', NEW e \in sent, e.sub = ws.sub, e.n = handled[e.sub],
              \A x \in sent : x.sub = e.sub /\ x.n <= e.n => Applied(x)
       PROVE  Agrees(e)' \/ \E x \in sent : x.sub = e.sub /\ x.kind = "updated" /\ x.n > e.n
  <2>1. ~overtaken /\ ws.sub = call.sub /\ ~(handled[call.sub] > call.event)
    BY <1>1, <1>10
  <2>2. e.n \in Nat /\ e.n <= y.n /\ y.n \in Nat
    BY <1>0, <1>2, <1>3, <1>10, <2>1, EventHeld
  <2>3. CASE e.n # y.n
    <3>1. y.n > e.n
      BY <2>2, <2>3
    <3>. QED
      BY <1>3, <1>10, <2>1, <3>1
  <2>4. CASE e.n = y.n
    <3>1. e = y
      BY <1>0, <2>4 DEF HistoryInv
    <3>2. y.status # "canceled"
      BY <1>0, <1>3 DEF HistoryInv
    <3>3. Agrees(e) \/ \E x \in sent : x.sub = e.sub /\ x.kind = "updated" /\ x.n > e.n
      BY <1>0, <1>10, <2>1 DEF FollowInv
    <3>4. y.cancel \in BOOLEAN
      BY <1>0, EventHeld
    <3>5. Agrees(e) => Agrees(e)'
      BY <1>3, <1>4, <3>1, <3>2, <3>4 DEF Agrees
    <3>. QED
      BY <3>3, <3>5
  <2>. QED
    BY <2>3, <2>4
<1>11. FollowInv'
  <2>1. overtaken' \/ \A x \in sent : Applied(x) => x.n <= handled[x.sub]
    BY <1>0, <1>1 DEF FollowInv
  <2>. QED
    BY <1>0, <1>1, <1>4, <1>9, <1>10, <2>1 DEF FollowInv
<1>. QED
  BY <1>1, <1>5, <1>6, <1>7, <1>8, <1>11 DEF BillingInv

\* The last event of the subscription before a given one.
LEMMA LastBefore ==
    ASSUME BillingShape, NEW e \in sent, \E x \in sent : x.sub = e.sub /\ x.n < e.n
    PROVE  \E p \in sent : Follows(e, p)
<1>. DEFINE S == {x \in sent : x.sub = e.sub /\ x.n < e.n}
            f == [x \in sent |-> x.n]
<1>1. IsFiniteSet(S) /\ S # {}
  BY FS_Subset DEF BillingShape
<1>2. \A x \in sent : f[x] = x.n /\ x.n \in Nat
  BY EventHeld
<1>3. \A x \in S : f[x] \in Int
  BY <1>2
<1>4. S \subseteq sent
  OBVIOUS
<1>5. \A x \in sent : x \in S <=> x.sub = e.sub /\ x.n < e.n
  OBVIOUS
<1>. HIDE DEF S, f
<1>6. PICK p \in S : \A y \in S : f[p] >= f[y]
  BY <1>1, <1>3, LargestValue
<1>7. p \in sent /\ p.sub = e.sub /\ p.n < e.n /\ p.n \in Nat /\ e.n \in Nat
  BY <1>2, <1>4, <1>5, <1>6
<1>8. ASSUME NEW x \in sent, x.sub = e.sub PROVE x.n <= p.n \/ x.n >= e.n
  <2>1. x.n \in Nat
    BY <1>2
  <2>2. CASE x \in S
    BY <1>2, <1>6, <1>7, <2>1, <2>2
  <2>3. CASE x \notin S
    BY <1>5, <1>7, <1>8, <2>1, <2>3
  <2>. QED
    BY <2>2, <2>3
<1>. QED
  BY <1>7, <1>8 DEF Follows

\* The usage row of the event's period is inserted or left alone.
LEMMA SeededHeld ==
    ASSUME BillingShape, NEW e \in sent, NEW ok \in BOOLEAN, cycles' = Seeded(e, ok)
    PROVE  cycles' \in [0..MaxPeriod -> Nat] /\ \A p \in 0..MaxPeriod : cycles'[p] >= cycles[p]
<1>0. cycles \in [0..MaxPeriod -> Nat] /\ \A p \in 0..MaxPeriod : cycles[p] \in Nat
  BY DEF BillingShape
<1>1. PICK q : q = e.ends - 1
  OBVIOUS
<1>2. cycles' = IF ok /\ cycles[q] = 0 THEN [cycles EXCEPT ![q] = 1] ELSE cycles
  BY <1>1 DEF Seeded
<1>3. CASE cycles' = cycles
  BY <1>0, <1>3
<1>4. CASE cycles' = [cycles EXCEPT ![q] = 1] /\ cycles[q] = 0
  <2>1. cycles' \in [0..MaxPeriod -> Nat]
    <3>1. PICK D : D = 0..MaxPeriod
      OBVIOUS
    <3>2. cycles \in [D -> Nat] /\ 1 \in Nat
      BY <1>0, <3>1
    <3>3. cycles' \in [D -> Nat]
      BY <1>4, <3>2
    <3>. QED
      BY <3>1, <3>3
  <2>2. ASSUME NEW p \in 0..MaxPeriod PROVE cycles'[p] >= cycles[p]
    <3>1. p = q => cycles'[p] = 1 /\ cycles[p] = 0
      BY <1>0, <1>4
    <3>2. p # q => cycles'[p] = cycles[p]
      BY <1>0, <1>4
    <3>. QED
      BY <1>0, <3>1, <3>2
  <2>. QED
    BY <2>1, <2>2
<1>. QED
  BY <1>2, <1>3, <1>4

\* What a handler does to the row, the counters and the receipts.
LEMMA EffectHeld ==
    ASSUME BillingShape, NEW e \in sent, e.n \in 1..MaxEvents,
           \/ HandleActivated(e) \/ HandleUpdated(e) \/ HandleCanceled(e)
           \/ HandlePaymentFailed(e) \/ HandleCompleted(e)
    PROVE  /\ ws' \in [plan : Plans, sub : Subs \cup {NoSub}, status : Statuses, cancel : BOOLEAN,
                       ends : Nat, scheduled : Plans]
           /\ ws' = ws \/ ws'.sub = e.sub
           /\ ws'.sub = e.sub =>
                CASE e.kind \in {"trialing", "activated", "updated"} ->
                       ws'.plan = e.plan /\ ws'.status = e.status /\ ws'.cancel = e.cancel
                  [] e.kind = "canceled" -> ws'.plan = "free" /\ ws'.status = "canceled"
                  [] e.kind = "payment_failed" ->
                       /\ ws'.plan = ws.plan /\ ws'.status = "past_due" /\ ws'.cancel = ws.cancel
                       /\ ws.sub = e.sub
                  [] e.kind = "completed" -> ws' = ws
           /\ ws'.plan \in {ws.plan, e.plan, "free"}
           /\ cycles' \in [0..MaxPeriod -> Nat] /\ \A p \in 0..MaxPeriod : cycles'[p] >= cycles[p]
           /\ receipts' = receipts \/ receipts' = [receipts EXCEPT ![e.n] = @ + 1]
<1>0. /\ ws \in [plan : Plans, sub : Subs \cup {NoSub}, status : Statuses, cancel : BOOLEAN,
                 ends : Nat, scheduled : Plans]
      /\ cycles \in [0..MaxPeriod -> Nat] /\ \A p \in 0..MaxPeriod : cycles[p] \in Nat
  BY DEF BillingShape
<1>1. /\ e.n \in Nat \ {0} /\ e.kind \in Kinds /\ e.sub \in Subs /\ e.plan \in Plans
      /\ e.status \in Statuses /\ e.cancel \in BOOLEAN /\ e.ends \in Nat
  BY EventHeld
<1>2. cycles' = cycles =>
        cycles' \in [0..MaxPeriod -> Nat] /\ \A p \in 0..MaxPeriod : cycles'[p] >= cycles[p]
  BY <1>0
<1>3. CASE HandleActivated(e)
  <2>1. /\ e.kind \in {"trialing", "activated"} /\ receipts' = receipts
        /\ ws' = [ws EXCEPT !.plan = e.plan, !.sub = e.sub, !.status = e.status,
                            !.cancel = e.cancel, !.ends = e.ends]
        /\ \E ok \in BOOLEAN : cycles' = Seeded(e, ok)
    BY <1>3 DEF HandleActivated
  <2>2. ws' = [plan |-> e.plan, sub |-> e.sub, status |-> e.status, cancel |-> e.cancel,
               ends |-> e.ends, scheduled |-> ws.scheduled]
    BY <1>0, <2>1
  <2>3. /\ ws' \in [plan : Plans, sub : Subs \cup {NoSub}, status : Statuses, cancel : BOOLEAN,
                    ends : Nat, scheduled : Plans]
        /\ ws'.sub = e.sub /\ ws'.plan = e.plan /\ ws'.status = e.status /\ ws'.cancel = e.cancel
    BY <1>0, <1>1, <2>2
  <2>4. cycles' \in [0..MaxPeriod -> Nat] /\ \A p \in 0..MaxPeriod : cycles'[p] >= cycles[p]
    BY <2>1, SeededHeld
  <2>. HIDE <2>2
  <2>5. receipts' = receipts /\ e.kind \in {"trialing", "activated"}
    BY <2>1
  <2>. HIDE <2>1
  <2>. QED
    BY <2>3, <2>4, <2>5
<1>4. CASE HandleUpdated(e)
  <2>1. e.kind = "updated" /\ receipts' = receipts
    BY <1>4 DEF HandleUpdated
  <2>2. CASE ws.sub = e.sub
    <3>1. /\ ws' = [ws EXCEPT !.plan = e.plan, !.status = e.status, !.cancel = e.cancel, !.ends = e.ends]
          /\ \E ok \in BOOLEAN : cycles' = Seeded(e, ok)
      BY <1>4, <2>2 DEF HandleUpdated
    <3>2. ws' = [plan |-> e.plan, sub |-> e.sub, status |-> e.status, cancel |-> e.cancel,
                 ends |-> e.ends, scheduled |-> ws.scheduled]
      BY <1>0, <2>2, <3>1
    <3>3. /\ ws' \in [plan : Plans, sub : Subs \cup {NoSub}, status : Statuses, cancel : BOOLEAN,
                      ends : Nat, scheduled : Plans]
          /\ ws'.sub = e.sub /\ ws'.plan = e.plan /\ ws'.status = e.status /\ ws'.cancel = e.cancel
      BY <1>0, <1>1, <3>2
    <3>4. cycles' \in [0..MaxPeriod -> Nat] /\ \A p \in 0..MaxPeriod : cycles'[p] >= cycles[p]
      BY <3>1, SeededHeld
    <3>. HIDE <3>1, <3>2
    <3>. QED
      BY <2>1, <3>3, <3>4
  <2>3. CASE ws.sub # e.sub
    <3>1. ws' = ws /\ cycles' = cycles
      BY <1>4, <2>3 DEF HandleUpdated
    <3>. QED
      BY <1>0, <1>2, <2>1, <2>3, <3>1
  <2>. QED
    BY <2>2, <2>3
<1>5. CASE HandleCanceled(e)
  <2>1. /\ e.kind = "canceled" /\ receipts' = receipts /\ cycles' = cycles
        /\ ws' = IF ws.sub = e.sub THEN [ws EXCEPT !.plan = "free", !.status = "canceled"] ELSE ws
    BY <1>5 DEF HandleCanceled
  <2>2. CASE ws.sub = e.sub
    <3>0. "free" \in Plans /\ "canceled" \in Statuses
      BY DEF Plans, Statuses
    <3>1. /\ ws' \in [plan : Plans, sub : Subs \cup {NoSub}, status : Statuses, cancel : BOOLEAN,
                      ends : Nat, scheduled : Plans]
          /\ ws'.sub = e.sub /\ ws'.plan = "free" /\ ws'.status = "canceled"
      BY <1>0, <2>1, <2>2, <3>0
    <3>. QED
      BY <1>0, <1>2, <2>1, <3>1
  <2>3. CASE ws.sub # e.sub
    BY <1>0, <1>2, <2>1, <2>3
  <2>. QED
    BY <2>2, <2>3
<1>6. CASE HandlePaymentFailed(e)
  <2>1. /\ e.kind = "payment_failed" /\ receipts' = receipts /\ cycles' = cycles
        /\ ws' = IF ws.sub = e.sub THEN [ws EXCEPT !.status = "past_due"] ELSE ws
    BY <1>6 DEF HandlePaymentFailed
  <2>2. CASE ws.sub = e.sub
    <3>0. "past_due" \in Statuses
      BY DEF Statuses
    <3>1. /\ ws' \in [plan : Plans, sub : Subs \cup {NoSub}, status : Statuses, cancel : BOOLEAN,
                      ends : Nat, scheduled : Plans]
          /\ ws'.sub = e.sub /\ ws'.plan = ws.plan /\ ws'.status = "past_due" /\ ws'.cancel = ws.cancel
      BY <1>0, <2>1, <2>2, <3>0
    <3>. QED
      BY <1>0, <1>2, <2>1, <2>2, <3>1
  <2>3. CASE ws.sub # e.sub
    BY <1>0, <1>2, <2>1, <2>3
  <2>. QED
    BY <2>2, <2>3
<1>7. CASE HandleCompleted(e)
  <2>1. /\ e.kind = "completed" /\ ws' = ws /\ cycles' = cycles
        /\ receipts' = receipts \/ receipts' = [receipts EXCEPT ![e.n] = @ + 1]
    BY <1>7 DEF HandleCompleted
  <2>. QED
    BY <1>0, <1>2, <2>1
<1>. QED
  BY <1>3, <1>4, <1>5, <1>6, <1>7

\* The row after the event that is applied as the latest one, all before it applied.
LEMMA HandlerAgrees ==
    ASSUME BillingShape, HistoryInv, ReceiptInv, FollowInv, NEW e \in claimed,
           claimed' = claimed \ {e}, seen' = seen,
           \/ HandleActivated(e) \/ HandleUpdated(e) \/ HandleCanceled(e)
           \/ HandlePaymentFailed(e) \/ HandleCompleted(e),
           ~overtaken, handled[e.sub] < e.n, ws'.sub = e.sub,
           \A x \in sent : x.sub = e.sub /\ x.n <= e.n => Applied(x)'
    PROVE  Agrees(e)' \/ \E x \in sent : x.sub = e.sub /\ x.kind = "updated" /\ x.n > e.n
<1>1. /\ \A x : Applied(x)' <=> Applied(x) \/ x = e
      /\ ~Applied(e) /\ e \in sent /\ e.n \in 1..MaxEvents /\ e.sub \in Subs
  BY NowApplied
<1>2. CASE e.kind \in {"trialing", "activated", "updated"}
  <2>1. ws'.plan = e.plan /\ ws'.status = e.status /\ ws'.cancel = e.cancel
    BY <1>1, <1>2, EffectHeld
  <2>2. e.status # "canceled"
    BY <1>1, <1>2 DEF HistoryInv
  <2>. QED
    BY <2>1, <2>2 DEF Agrees
<1>3. CASE e.kind = "canceled"
  <2>1. ws'.plan = "free" /\ ws'.status = "canceled"
    BY <1>1, <1>3, EffectHeld
  <2>2. e.status = "canceled"
    BY <1>1, <1>3 DEF HistoryInv
  <2>. QED
    BY <2>1, <2>2 DEF Agrees
<1>4. CASE e.kind \in {"payment_failed", "completed"}
  <2>1. PICK p \in sent : Follows(e, p)
    <3>1. \E x \in sent : x.sub = e.sub /\ x.n < e.n
      BY <1>1, <1>4 DEF HistoryInv
    <3>. QED
      BY <1>1, <3>1, LastBefore
  <2>2. /\ p.status = "active" /\ e.plan = p.plan /\ e.cancel = p.cancel
        /\ e.status = IF e.kind = "completed" THEN "active" ELSE "past_due"
    BY <1>1, <1>4, <2>1 DEF HistoryInv
  <2>3. p.sub = e.sub /\ p.n < e.n /\ p.n \in Nat /\ e.n \in Nat /\ \A x \in sent : x.n \in Nat
    BY <1>1, <2>1, EventHeld DEF Follows
  <2>4. \A x \in sent : x.sub = e.sub => x.n <= p.n \/ x.n >= e.n
    BY <2>1 DEF Follows
  <2>5. \A x \in sent : x.sub = p.sub /\ x.n <= p.n => Applied(x)
    BY <1>1, <2>3
  <2>6. p.n <= handled[p.sub]
    BY <2>3, <2>5 DEF FollowInv
  <2>7. handled[p.sub] \in Nat
    BY <1>1, <2>3, BillingAssumption DEF BillingShape
  <2>8. PICK h \in sent : h.n = handled[p.sub] /\ h.sub = p.sub
    <3>1. handled[p.sub] > 0
      <4>1. p.n > 0
        BY EventHeld
      <4>. QED
        BY <2>3, <2>6, <2>7, <4>1
    <3>. QED
      BY <1>1, <2>3, <3>1 DEF FollowInv
  <2>9. p.n = handled[p.sub]
    BY <2>3, <2>4, <2>6, <2>7, <2>8
  <2>10. ws.sub = p.sub
    BY <1>1, <1>4, <2>3, EffectHeld
  <2>11. Agrees(p) \/ \E x \in sent : x.sub = p.sub /\ x.kind = "updated" /\ x.n > p.n
    BY <2>5, <2>9, <2>10 DEF FollowInv
  <2>12. CASE Agrees(p)
    <3>1. ws.status = "active" /\ ws.plan = e.plan /\ ws.cancel = e.cancel
      BY <2>2, <2>12 DEF Agrees
    <3>2. CASE e.kind = "completed"
      <4>1. ws' = ws
        BY <1>1, <3>2, EffectHeld
      <4>. QED
        BY <2>2, <3>1, <3>2, <4>1 DEF Agrees
    <3>3. CASE e.kind = "payment_failed"
      <4>1. ws'.plan = ws.plan /\ ws'.status = "past_due" /\ ws'.cancel = ws.cancel
        BY <1>1, <3>3, EffectHeld
      <4>. QED
        BY <2>2, <3>1, <3>3, <4>1 DEF Agrees
    <3>. QED
      BY <1>4, <3>2, <3>3
  <2>13. ASSUME NEW x \in sent, x.sub = p.sub, x.kind = "updated", x.n > p.n
         PROVE  x.n > e.n
    <3>1. x.n >= e.n
      BY <2>3, <2>4, <2>13
    <3>2. x.n # e.n
      BY <1>1, <1>4, <2>13 DEF HistoryInv
    <3>. QED
      BY <2>3, <3>1, <3>2
  <2>. QED
    BY <2>3, <2>11, <2>12, <2>13
<1>. QED
  BY <1>1, <1>2, <1>3, <1>4, EventHeld DEF Kinds

\* The effect of an event.
LEMMA BillingStepApply ==
    ASSUME BillingInv, NEW e \in claimed, WebhookApply(e)
    PROVE  BillingInv' /\ \A p \in 0..MaxPeriod : cycles'[p] >= cycles[p]
<1>0. BillingShape /\ HistoryInv /\ SoldInv /\ ReceiptInv /\ CallInv /\ FollowInv
  BY DEF BillingInv
<1>1. /\ claimed' = claimed \ {e}
      /\ handled' = [handled EXCEPT ![e.sub] = IF e.n > @ THEN e.n ELSE @]
      /\ overtaken' = (overtaken \/ e.n < handled[e.sub])
      /\ UNCHANGED <<seen, paddle, sent, bought, call, now>>
  BY DEF WebhookApply, AtWebhook
<1>2. \/ HandleActivated(e) \/ HandleUpdated(e) \/ HandleCanceled(e)
      \/ HandlePaymentFailed(e) \/ HandleCompleted(e)
  BY DEF WebhookApply
<1>3. /\ \A x : Applied(x)' <=> Applied(x) \/ x = e
      /\ ~Applied(e) /\ e \in sent /\ e.n \in 1..MaxEvents /\ e.sub \in Subs
      /\ handled[e.sub] # e.n
  BY <1>0, <1>1, NowApplied
<1>4. /\ ws' \in [plan : Plans, sub : Subs \cup {NoSub}, status : Statuses, cancel : BOOLEAN,
                  ends : Nat, scheduled : Plans]
      /\ ws' = ws \/ ws'.sub = e.sub
      /\ ws'.plan \in {ws.plan, e.plan, "free"}
  BY <1>0, <1>2, <1>3, EffectHeld
<1>5. /\ cycles' \in [0..MaxPeriod -> Nat] /\ \A p \in 0..MaxPeriod : cycles'[p] >= cycles[p]
      /\ receipts' = receipts \/ receipts' = [receipts EXCEPT ![e.n] = @ + 1]
  BY <1>0, <1>2, <1>3, EffectHeld
<1>6. /\ handled \in [Subs -> 0..MaxEvents] /\ overtaken \in BOOLEAN /\ receipts \in [1..MaxEvents -> Nat]
      /\ claimed \subseteq sent /\ MaxEvents \in Nat /\ \A s \in Subs : handled[s] \in Nat
  BY <1>0, BillingAssumption DEF BillingShape
<1>7. /\ handled' \in [Subs -> 0..MaxEvents] /\ \A s \in Subs : s # e.sub => handled'[s] = handled[s]
      /\ handled'[e.sub] = IF e.n > handled[e.sub] THEN e.n ELSE handled[e.sub]
  BY <1>1, <1>3, <1>6
<1>8. BillingShape'
  <2>1. receipts' \in [1..MaxEvents -> Nat]
    <3>1. PICK D : D = 1..MaxEvents
      OBVIOUS
    <3>2. receipts \in [D -> Nat] /\ e.n \in D
      BY <1>3, <1>6, <3>1
    <3>3. PICK m : m = receipts[e.n] + 1
      OBVIOUS
    <3>4. m \in Nat /\ (receipts' = receipts \/ receipts' = [receipts EXCEPT ![e.n] = m])
      BY <1>5, <3>2, <3>3
    <3>. HIDE <3>3
    <3>5. receipts' \in [D -> Nat]
      BY <3>2, <3>4
    <3>. QED
      BY <3>1, <3>5
  <2>2. overtaken' \in BOOLEAN /\ claimed' \subseteq sent
    BY <1>1, <1>6
  <2>. QED
    BY <1>0, <1>1, <1>4, <1>5, <1>7, <2>1, <2>2 DEF BillingShape
<1>9. HistoryInv' /\ CallInv'
  BY <1>0, <1>1 DEF HistoryInv, CallInv, Follows, Snapshot
<1>10. SoldInv'
  BY <1>0, <1>1, <1>3, <1>4 DEF SoldInv
<1>11. ReceiptInv'
  <2>1. \A x \in claimed' : x \in sent /\ x.n # e.n
    BY <1>0, <1>1, <1>3, <1>6 DEF HistoryInv
  <2>2. \A n \in 1..MaxEvents : n # e.n => receipts'[n] = receipts[n]
    BY <1>5, <1>6
  <2>3. e.n \in seen /\ receipts[e.n] = 0
    BY <1>0 DEF ReceiptInv
  <2>4. receipts'[e.n] <= 1
    BY <1>3, <1>5, <1>6, <2>3
  <2>5. \A x \in claimed' : x.n \in seen /\ receipts'[x.n] = 0
    <3>1. TAKE x \in claimed'
    <3>2. x \in claimed /\ x \in sent
      BY <1>1, <2>1
    <3>3. x.n \in 1..MaxEvents /\ x.n \in seen /\ receipts[x.n] = 0
      BY <1>0, <3>2, NumberHeld DEF ReceiptInv
    <3>. QED
      BY <2>1, <2>2, <3>3
  <2>6. \A n \in 1..MaxEvents : receipts'[n] <= 1 /\ (receipts'[n] > 0 => n \in seen)
    BY <1>0, <2>2, <2>3, <2>4 DEF ReceiptInv
  <2>7. \A n \in seen : \E x \in sent : x.n = n
    BY <1>0 DEF ReceiptInv
  <2>. QED
    BY <1>1, <2>5, <2>6, <2>7 DEF ReceiptInv
<1>12. ws'.sub \in Subs \cup {NoSub} /\ ws.sub \in Subs \cup {NoSub} /\ NoSub \notin Subs
  BY <1>0, <1>4, BillingAssumption DEF BillingShape
<1>13. ws'.sub # NoSub => paddle[ws'.sub].status # "none" /\ handled'[ws'.sub] > 0
  <2>1. paddle[e.sub].status # "none" /\ handled'[e.sub] > 0
    BY <1>0, <1>3, <1>6, <1>7 DEF HistoryInv
  <2>2. \A s \in Subs : handled[s] > 0 => handled'[s] > 0
    BY <1>7, <2>1
  <2>. QED
    BY <1>0, <1>4, <1>12, <2>1, <2>2 DEF FollowInv
<1>14. \A s \in Subs : handled'[s] > 0 => \E x \in sent : x.n = handled'[s] /\ x.sub = s /\ Applied(x)'
  <2>1. TAKE s \in Subs
  <2>2. CASE handled'[s] = handled[s]
    BY <1>0, <1>3, <2>2 DEF FollowInv
  <2>3. CASE s = e.sub /\ handled'[s] = e.n
    BY <1>3, <2>3
  <2>. QED
    BY <1>7, <2>2, <2>3
<1>15. ASSUME ~overtaken' PROVE ~overtaken /\ e.n > handled[e.sub] /\ handled'[e.sub] = e.n
  <2>0. ~overtaken /\ ~(e.n < handled[e.sub])
    BY <1>1, <1>15, Zenon
  <2>1. ~overtaken /\ ~(e.n < handled[e.sub]) /\ e.n \in Nat /\ handled[e.sub] \in Nat
    BY <1>3, <1>6, <2>0
  <2>2. e.n > handled[e.sub]
    BY <1>3, <2>1
  <2>. QED
    BY <1>7, <2>1, <2>2
<1>16. ASSUME ~overtaken', NEW x \in sent, Applied(x)' PROVE x.n <= handled'[x.sub]
  <2>0. x.n \in Nat /\ x.sub \in Subs
    BY <1>0, EventHeld
  <2>1. CASE x = e
    BY <1>15, <1>16, <2>0, <2>1
  <2>2. CASE Applied(x)
    <3>1. x.n <= handled[x.sub] /\ handled[x.sub] \in Nat
      BY <1>0, <1>6, <1>15, <1>16, <2>0, <2>2 DEF FollowInv
    <3>2. handled[x.sub] <= handled'[x.sub] /\ handled'[x.sub] \in Nat
      <4>1. handled[x.sub] \in Nat /\ e.n \in Nat
        BY <1>3, <1>6, <2>0
      <4>2. CASE x.sub = e.sub
        <5>1. handled'[x.sub] = IF e.n > handled[x.sub] THEN e.n ELSE handled[x.sub]
          BY <1>7, <4>2
        <5>. QED
          BY <4>1, <5>1
      <4>3. CASE x.sub # e.sub
        <5>1. handled'[x.sub] = handled[x.sub]
          BY <1>7, <2>0, <4>3
        <5>. QED
          BY <4>1, <5>1
      <4>. QED
        BY <4>2, <4>3
    <3>. QED
      BY <2>0, <3>1, <3>2
  <2>. QED
    BY <1>3, <1>16, <2>1, <2>2
<1>17. ASSUME ~overtaken', NEW x \in sent, x.sub = ws'.sub, x.n = handled'[x.sub],
              \A y \in sent : y.sub = x.sub /\ y.n <= x.n => Applied(y)'
       PROVE  Agrees(x)' \/ \E y \in sent : y.sub = x.sub /\ y.kind = "updated" /\ y.n > x.n
  <2>0. x.sub \in Subs
    BY <1>0, EventHeld
  <2>1. CASE x.sub = e.sub
    <3>1. x = e
      BY <1>0, <1>3, <1>15, <1>17, <2>1 DEF HistoryInv
    <3>2. ~overtaken /\ handled[e.sub] < e.n /\ ws'.sub = e.sub
      BY <1>3, <1>6, <1>15, <1>17, <2>1
    <3>3. \A y \in sent : y.sub = e.sub /\ y.n <= e.n => Applied(y)'
      BY <1>17, <3>1
    <3>4. seen' = seen
      BY <1>1
    <3>. QED
      BY <1>0, <1>1, <1>2, <3>1, <3>2, <3>3, <3>4, HandlerAgrees
  <2>2. CASE x.sub # e.sub
    <3>1. ws' = ws /\ handled'[x.sub] = handled[x.sub]
      BY <1>4, <1>7, <1>17, <2>0, <2>2
    <3>2. \A y \in sent : y.sub = x.sub /\ y.n <= x.n => Applied(y)
      BY <1>3, <1>17, <2>2
    <3>3. Agrees(x) \/ \E y \in sent : y.sub = x.sub /\ y.kind = "updated" /\ y.n > x.n
      BY <1>0, <1>15, <1>17, <3>1, <3>2 DEF FollowInv
    <3>. QED
      BY <3>1, <3>3 DEF Agrees
  <2>. QED
    BY <2>1, <2>2
<1>18. FollowInv'
  BY <1>1, <1>13, <1>14, <1>16, <1>17 DEF FollowInv
<1>. QED
  BY <1>5, <1>8, <1>9, <1>10, <1>11, <1>18 DEF BillingInv

\* Every step of billing keeps the invariant and sets no counter back.
LEMMA BillingStep ==
    ASSUME BillingInv, BillingNext
    PROVE  BillingInv' /\ \A p \in 0..MaxPeriod : cycles'[p] >= cycles[p]
<1>0. cycles' = cycles => \A p \in 0..MaxPeriod : cycles'[p] >= cycles[p]
  BY DEF BillingInv, BillingShape
<1>1. CASE \E s \in Subs :
             \/ \E plan \in PaidPlans : CreateCheckout(s, plan)
             \/ PaddleBills(s) \/ PaddleChargeFails(s) \/ PaddleReceipt(s)
             \/ PaddleRollsOver(s) \/ PaddleEnds(s)
  BY <1>0, <1>1, BillingStepPaddle
<1>2. CASE PeriodPasses \/ RecordUsage
  BY <1>2, BillingStepClock
<1>3. CASE \E e \in sent : WebhookClaim(e)
  BY <1>0, <1>3, BillingStepClaim
<1>4. CASE \E e \in claimed : WebhookApply(e)
  BY <1>4, BillingStepApply
<1>5. CASE \E e \in claimed : WebhookRaises(e)
  BY <1>0, <1>5, BillingStepRaises
<1>6. CASE CallFails \/ \E kind \in {"change", "cancel", "reactivate"}, target \in Plans : CallStarts(kind, target)
  BY <1>0, <1>6, BillingStepCall
<1>7. CASE PaddleAccepts
  BY <1>0, <1>7, BillingStepAccepts
<1>8. CASE CallWrites
  BY <1>0, <1>8, BillingStepWrites
<1>. QED
  BY <1>1, <1>2, <1>3, <1>4, <1>5, <1>6, <1>7, <1>8 DEF BillingNext

\* What the invariant of billing says of a subscription.
LEMMA BillingSafe == BillingInv => BillingTypeOK /\ EntitlementBought /\ CacheAgrees /\ ReceiptOnce
<1>. SUFFICES ASSUME BillingInv PROVE BillingTypeOK /\ EntitlementBought /\ CacheAgrees /\ ReceiptOnce
  OBVIOUS
<1>0. BillingShape /\ HistoryInv /\ SoldInv /\ ReceiptInv /\ CallInv /\ FollowInv
  BY DEF BillingInv
<1>1. BillingTypeOK
  <2>1. ASSUME NEW s \in Subs
        PROVE  paddle[s].status \in Statuses \cup {"none"} /\ {paddle[s].plan, paddle[s].next} \subseteq Plans
    <3>1. paddle[s] \in Records
      BY <1>0 DEF BillingShape
    <3>. QED
      BY <3>1 DEF Records
  <2>2. ws.plan \in Plans /\ ws.sub \in Subs \cup {NoSub} /\ ws.status \in Statuses /\ ws.scheduled \in Plans
    BY <1>0 DEF BillingShape
  <2>3. call.stage \in {"idle", "sent", "accepted"}
    BY <1>0, CallHeld
  <2>. QED
    BY <1>0, <2>1, <2>2, <2>3 DEF BillingTypeOK, BillingShape
<1>2. EntitlementBought
  BY <1>0 DEF EntitlementBought, SoldInv
<1>3. ReceiptOnce
  BY <1>0 DEF ReceiptOnce, ReceiptInv
<1>4. CacheAgrees
  <2>. SUFFICES ASSUME {e.n : e \in sent} \subseteq seen, claimed = {}, ~overtaken, ws.sub # NoSub
                PROVE  LET sub == paddle[ws.sub] IN
                       /\ ws.status = sub.status
                       /\ ws.plan = IF sub.status = "canceled" THEN "free" ELSE sub.plan
                       /\ sub.status # "canceled" => ws.cancel = sub.cancel
    BY DEF CacheAgrees
  <2>1. \A e \in sent : Applied(e)
    BY DEF Applied
  <2>2. ws.sub \in Subs /\ handled[ws.sub] > 0
    BY <1>0 DEF BillingShape, FollowInv
  <2>3. PICK e \in sent : e.n = handled[ws.sub] /\ e.sub = ws.sub
    BY <1>0, <2>2 DEF FollowInv
  <2>4. \A x \in sent : x.sub = e.sub => x.n <= e.n
    BY <1>0, <2>1, <2>3 DEF FollowInv
  <2>5. Snapshot(e, paddle[ws.sub])
    BY <1>0, <2>3, <2>4 DEF HistoryInv
  <2>6. Agrees(e)
    <3>1. Agrees(e) \/ \E x \in sent : x.sub = e.sub /\ x.kind = "updated" /\ x.n > e.n
      BY <1>0, <2>1, <2>3 DEF FollowInv
    <3>2. \A x \in sent : x.n \in Nat
      BY <1>0, EventHeld
    <3>. QED
      BY <2>4, <3>1, <3>2
  <2>. QED
    BY <2>5, <2>6 DEF Snapshot, Agrees
<1>. QED
  BY <1>1, <1>2, <1>3, <1>4

-----------------------------------------------------------------------------
(* All parts.  One of them runs; the invariant is the one of that part.    *)

HostedInv ==
    /\ part = "billing" => BillingInv
    /\ part = "team" => TeamInv
    /\ part = "actions" => ActionsInv
    /\ part = "ledger" => LedgerInv
    /\ part \in {"alerts", "digests"} => HostedAlertsInv
    /\ part = "findings" => FindingsInv

\* Every part begins in its invariant.
LEMMA HostedBegin == HostedInit => HostedInv
BY BillingBegin, TeamBegin, ActionsBegin, LedgerBegin, JobsBegin, FindingsBegin
DEF HostedInit, HostedInv

\* A step that changes nothing keeps the invariants.
LEMMA HostedStays == ASSUME HostedInv, UNCHANGED hostedVars PROVE HostedInv'
<1>0. /\ part' = part
      /\ UNCHANGED billingVars /\ UNCHANGED teamVars /\ UNCHANGED actionVars
      /\ UNCHANGED ledgerVars /\ UNCHANGED hostedAlertVars /\ UNCHANGED findingVars
  BY DEF hostedVars
<1>1. ASSUME BillingInv PROVE BillingInv'
  <2>0. UNCHANGED <<paddle, sent, seen, claimed, handled, overtaken, ws, call, bought, cycles, receipts, now>>
    BY <1>0 DEF billingVars
  <2>1. BillingShape' /\ HistoryInv' /\ SoldInv'
    BY <1>1, <2>0 DEF BillingInv, BillingShape, HistoryInv, SoldInv, Follows, Snapshot
  <2>2. ReceiptInv' /\ CallInv' /\ FollowInv'
    BY <1>1, <2>0 DEF BillingInv, ReceiptInv, CallInv, FollowInv, Applied, Agrees
  <2>. QED
    BY <2>1, <2>2 DEF BillingInv
<1>2. ASSUME TeamInv PROVE TeamInv'
  <2>0. UNCHANGED <<member, admins, invite, handler, raced, joins, issued, unmarked>>
    BY <1>0 DEF teamVars
  <2>1. TeamShape' /\ OwnerInv'
    BY <1>2, <2>0 DEF TeamInv, TeamShape, OwnerInv
  <2>2. \A op, u, n : At(op, u, n)' = At(op, u, n)
    BY <2>0 DEF At
  <2>3. \A u, n : Charged(u, n)' = Charged(u, n)
    BY <2>0, <2>2 DEF Charged
  <2>4. \A u : Charges(u)' = Charges(u)
    BY <2>3 DEF Charges
  <2>5. JoinInv'
    BY <1>2, <2>0, <2>2, <2>4 DEF TeamInv, JoinInv
  <2>. QED
    BY <2>1, <2>5 DEF TeamInv
<1>3. ASSUME ActionsInv PROVE ActionsInv'
  BY <1>0, <1>3
  DEF actionVars, ActionsInv, ActionsShape, UseInv, Working, CapInv, CapRead, ResolvedCap
<1>4. ASSUME LedgerInv PROVE LedgerInv'
  <2>0. UNCHANGED <<today, records, billed, credential, runs, job, retention, prune, moved, wronged>>
    BY <1>0 DEF ledgerVars
  <2>1. LedgerShape'
    BY <1>4, <2>0 DEF LedgerInv, LedgerShape
  <2>2. \A d : DayCost(d)' = DayCost(d)
    <3>1. \A d : RowsOf(d)' = RowsOf(d)
      BY <2>0 DEF RowsOf
    <3>2. ASSUME NEW d PROVE {r \in RowsOf(d) : \A x \in records[r] : x.class # "unpriced"}' =
                              {r \in RowsOf(d) : \A x \in records[r] : x.class # "unpriced"}
      BY <2>0, <3>1
    <3>. QED
      BY <3>2 DEF DayCost
  <2>3. SumInv'
    BY <1>4, <2>0, <2>2 DEF LedgerInv, SumInv
  <2>. QED
    BY <2>1, <2>3 DEF LedgerInv
<1>5. ASSUME HostedAlertsInv PROVE HostedAlertsInv'
  BY <1>0, <1>5
  DEF hostedAlertVars, HostedAlertsInv, JobsShape, AlertInv, DigestInv, ShouldFire
<1>6. ASSUME FindingsInv PROVE FindingsInv'
  BY <1>0, <1>6
  DEF findingVars, FindingsInv, FindingsShape, EvidenceInv, DecisionStands
<1>. QED
  BY <1>0, <1>1, <1>2, <1>3, <1>4, <1>5, <1>6 DEF HostedInv

\* Every step keeps the invariant of the part that takes it.
LEMMA HostedStep == HostedInv /\ [HostedNext]_hostedVars => HostedInv'
<1>. SUFFICES ASSUME HostedInv, [HostedNext]_hostedVars PROVE HostedInv'
  OBVIOUS
<1>1. CASE UNCHANGED hostedVars
  BY <1>1, HostedStays
<1>2. CASE HostedNext
  <2>0. part' = part
    BY <1>2 DEF HostedNext
  <2>1. CASE part = "billing" /\ BillingNext
    BY <2>0, <2>1, BillingStep DEF HostedInv
  <2>2. CASE part = "team" /\ TeamNext
    BY <2>0, <2>2, TeamStep DEF HostedInv
  <2>3. CASE part = "actions" /\ ActionsNext
    BY <2>0, <2>3, ActionsStep DEF HostedInv
  <2>4. CASE part = "ledger" /\ LedgerNext
    BY <2>0, <2>4, LedgerStep DEF HostedInv
  <2>5. CASE part = "alerts" /\ AlertJobNext
    BY <2>0, <2>5, JobsStep DEF HostedInv
  <2>6. CASE part = "digests" /\ DigestJobNext
    BY <2>0, <2>6, JobsStep DEF HostedInv
  <2>7. CASE part = "findings" /\ FindingsNext
    BY <2>0, <2>7, FindingsStep DEF HostedInv
  <2>. QED
    BY <1>2, <2>1, <2>2, <2>3, <2>4, <2>5, <2>6, <2>7 DEF HostedNext
<1>. QED
  BY <1>1, <1>2

\* Type correctness of every part: rows, events, calls and counters stay within
\* what their modules declare, for any number of users, links, rows and passes.
THEOREM HostedTypes == HostedSpec => []HostedTypeOK
<1>1. HostedInv => HostedTypeOK
  BY BillingSafe, TeamSafe, ActionsSafe, LedgerSafe, JobsSafe, FindingsSafe
  DEF HostedInv, HostedTypeOK
<1>. QED
  BY HostedBegin, HostedStep, <1>1, PTL DEF HostedSpec

\* The workspaces row follows Paddle: no order of webhooks and console calls
\* puts a workspace on a plan Paddle did not sell (paddle_webhook, change_plan),
\* and at rest the row agrees with Paddle unless a write was overtaken.
THEOREM SubscriptionFollows == HostedSpec => []SubscriptionTrue
<1>1. HostedInv => SubscriptionTrue
  BY BillingSafe DEF HostedInv, SubscriptionTrue
<1>. QED
  BY HostedBegin, HostedStep, <1>1, PTL DEF HostedSpec

\* A receipt is mailed once per transaction, an invitation is spent by no more
\* requests than were open, a mailed link acts once, and alerts and digests keep
\* their quiet time unless two runs overlap, for any number of requests and jobs.
THEOREM ActedOnce == HostedSpec => []ActsOnce
<1>1. HostedInv => ActsOnce
  BY BillingSafe, TeamSafe, ActionsSafe, JobsSafe DEF HostedInv, ActsOnce
<1>. QED
  BY HostedBegin, HostedStep, <1>1, PTL DEF HostedSpec

\* The last owner stays, increase_budget never lowers a cap, the status an
\* operator chose survives the passes, a verified saving is one, a reconciled
\* day agrees with its bill and the prune keeps what the plan keeps.
THEOREM DecisionsHold == HostedSpec => []DecisionsStand
<1>1. HostedInv => DecisionsStand
  BY TeamSafe, ActionsSafe, LedgerSafe, FindingsSafe DEF HostedInv, DecisionsStand
<1>. QED
  BY HostedBegin, HostedStep, <1>1, PTL DEF HostedSpec

\* No webhook sets back the usage counted in a period, and neither a detection
\* pass nor an operator takes the anchor of a fix away.
THEOREM HostedStepsNeverTaken == HostedSpec => HostedStepsSafe
<1>1. HostedInv /\ [HostedNext]_hostedVars =>
        [\A p \in 0..MaxPeriod : cycles'[p] >= cycles[p]]_billingVars
  <2>. SUFFICES ASSUME HostedInv, HostedNext, billingVars' # billingVars
                PROVE  \A p \in 0..MaxPeriod : cycles'[p] >= cycles[p]
    BY DEF hostedVars
  <2>1. part = "billing" /\ BillingNext
    BY DEF HostedNext
  <2>. QED
    BY <2>1, BillingStep DEF HostedInv
<1>2. HostedInv /\ [HostedNext]_hostedVars =>
        [\A f \in Fingerprints : \A r \in finding[f] : r.resolved =>
           \A s \in finding'[f] : s.resolved /\ s.baseline # Nowhere]_finding
  <2>. SUFFICES ASSUME HostedInv, HostedNext, finding' # finding
                PROVE  \A f \in Fingerprints : \A r \in finding[f] : r.resolved =>
                         \A s \in finding'[f] : s.resolved /\ s.baseline # Nowhere
    BY DEF hostedVars, findingVars
  <2>1. part = "findings" /\ FindingsNext
    BY DEF HostedNext, findingVars
  <2>. QED
    BY <2>1, FindingsStep DEF HostedInv
<1>3. HostedSpec => CountersOnlyGrow
  BY HostedBegin, HostedStep, <1>1, PTL DEF HostedSpec, CountersOnlyGrow
<1>4. HostedSpec => AnchorKept
  BY HostedBegin, HostedStep, <1>2, PTL DEF HostedSpec, AnchorKept
<1>. QED
  BY <1>3, <1>4 DEF HostedStepsSafe
=============================================================================
