------------------------------- MODULE Actions -------------------------------
(***************************************************************************)
(* One-click remediation from alert messages (burnlens_cloud/actions_api.py *)
(* and action_tokens.py) for one workspace: signed links that pause a key, *)
(* raise the monthly cap by half or turn on the model downgrade, and the   *)
(* calls that revert them.  A link is consumed by one INSERT ... ON        *)
(* CONFLICT; raising the cap reads it and writes an override in a second   *)
(* statement.                                                              *)
(***************************************************************************)
EXTENDS Naturals, FiniteSets

CONSTANTS
    ActionLinks,    \* signed links, each with its own jti
    Clicks,         \* execute requests in flight
    FreeCap,        \* 10000, the fallback of _handle_increase_budget
    PlanCaps,       \* monthly_request_cap of the plans; 0 is NULL, unlimited
    MaxCapLevel     \* bound on the cap

ASSUME ActionsAssumption ==
    FreeCap \in Nat \ {0} /\ PlanCaps \subseteq Nat /\ PlanCaps # {} /\ MaxCapLevel \in Nat

VARIABLES
    linkState,      \* per link: its action and whether it is sent, live or expired
    usedLinks,      \* used_action_tokens
    click,          \* per request: its step, its link and the cap it read
    planCap,        \* plan_limits of the current plan
    capOverride,    \* limit_overrides['monthly_request_cap']; a set of at most one
    keyPaused,      \* api_keys.paused_at of the target
    downgrading,    \* routing_overrides['budget_downgrade']
    activityLog,    \* workspace_activity: actions that may be reverted
    executed,       \* history: how often the action of a link took effect
    lowered         \* history: a raise left less than there was, and had no excuse

actionVars == <<linkState, usedLinks, click, planCap, capOverride, keyPaused, downgrading,
                activityLog, executed, lowered>>

RemedyKinds == {"pause_api_key", "increase_budget", "downgrade_model"}
NoClick == [at |-> "idle"]

ActionsInit ==
    /\ linkState = [l \in ActionLinks |-> [kind |-> "none", live |-> FALSE]]
    /\ usedLinks = {} /\ click = [c \in Clicks |-> NoClick]
    /\ planCap \in PlanCaps /\ capOverride = {}
    /\ keyPaused = FALSE /\ downgrading = FALSE /\ activityLog = {}
    /\ executed = [l \in ActionLinks |-> 0] /\ lowered = FALSE

\* create_action_token, when an alert is dispatched.
CreateActionToken(l, kind) ==
    /\ linkState[l].kind = "none"
    /\ linkState' = [linkState EXCEPT ![l] = [kind |-> kind, live |-> TRUE]]
    /\ UNCHANGED <<usedLinks, click, planCap, capOverride, keyPaused, downgrading, activityLog, executed, lowered>>

\* ACTION_TOKEN_TTL is over.
ActionTokenExpires(l) ==
    /\ linkState[l].live
    /\ linkState' = [linkState EXCEPT ![l].live = FALSE]
    /\ UNCHANGED <<usedLinks, click, planCap, capOverride, keyPaused, downgrading, activityLog, executed, lowered>>

\* execute_action up to verify_action_token; confirm_action stops here.
VerifyActionToken(c, l) ==
    /\ click[c] = NoClick /\ linkState[l].live
    /\ click' = [click EXCEPT ![c] = [at |-> "verified", link |-> l]]
    /\ UNCHANGED <<linkState, usedLinks, planCap, capOverride, keyPaused, downgrading, activityLog, executed, lowered>>

\* Variant of Consumable: the insert is taken to have succeeded.
ConsumableAlways(l) == TRUE

\* The INSERT of the jti reports one row.
Consumable(l) == l \notin usedLinks

\* consume_action_token; a jti that is taken, or a failing insert, ends the request.
ConsumeActionToken(c, ok) ==
    /\ click[c].at = "verified"
    /\ LET l == click[c].link IN
       IF ok /\ Consumable(l)
       THEN /\ usedLinks' = usedLinks \cup {l}
            /\ click' = [click EXCEPT ![c].at = "consumed"]
       ELSE click' = [click EXCEPT ![c] = NoClick] /\ UNCHANGED usedLinks
    /\ UNCHANGED <<linkState, planCap, capOverride, keyPaused, downgrading, activityLog, executed, lowered>>

KindOf(c) == linkState[click[c].link].kind
Done(c) ==
    /\ click' = [click EXCEPT ![c] = NoClick]
    /\ executed' = [executed EXCEPT ![click[c].link] = @ + 1]
    /\ activityLog' \in {activityLog, activityLog \cup {KindOf(c)}}     \* a failing log is swallowed

\* _handle_pause_api_key
HandlePause(c) ==
    /\ click[c].at = "consumed" /\ KindOf(c) = "pause_api_key"
    /\ keyPaused' = TRUE /\ Done(c)
    /\ UNCHANGED <<linkState, usedLinks, planCap, capOverride, downgrading, lowered>>

\* _handle_downgrade_model
HandleDowngrade(c) ==
    /\ click[c].at = "consumed" /\ KindOf(c) = "downgrade_model"
    /\ downgrading' = TRUE /\ Done(c)
    /\ UNCHANGED <<linkState, usedLinks, planCap, capOverride, keyPaused, lowered>>

\* Variant of ResolvedCap: the override is not looked at.
ResolvedCapOfPlan == planCap

\* resolve_limits: an override beats the plan.  0 is unlimited.
ResolvedCap == IF capOverride = {} THEN planCap ELSE CHOOSE x \in capOverride : TRUE

\* _handle_increase_budget, its select; NULL falls back to the free tier.
ReadCap(c) ==
    /\ click[c].at = "consumed" /\ KindOf(c) = "increase_budget"
    /\ click' = [click EXCEPT ![c] = [at |-> "read", link |-> @.link,
                                      cap |-> IF ResolvedCap = 0 THEN FreeCap ELSE ResolvedCap,
                                      stale |-> FALSE]]
    /\ UNCHANGED <<linkState, usedLinks, planCap, capOverride, keyPaused, downgrading, activityLog, executed, lowered>>

\* Readers whose cap another statement changes meanwhile.
Stale(q) == IF q.at = "read" THEN [q EXCEPT !.stale = TRUE] ELSE q
OthersStale(c, q) == [d \in Clicks |-> IF d = c THEN q ELSE Stale(click[d])]

\* Its update of limit_overrides: int(current_cap * 1.5).  `before` is what a
\* request of that moment is held to, 0 for unlimited.
WriteCap(c) ==
    LET raised == (click[c].cap * 3) \div 2
        before == IF capOverride = {} THEN planCap ELSE CHOOSE x \in capOverride : TRUE IN
    /\ click[c].at = "read" /\ raised <= MaxCapLevel
    /\ capOverride' = {raised}
    /\ lowered' = (lowered \/ (raised < before /\ ~ click[c].stale))
    /\ click' = OthersStale(c, NoClick)
    /\ executed' = [executed EXCEPT ![click[c].link] = @ + 1]
    /\ activityLog' \in {activityLog, activityLog \cup {"increase_budget"}}
    /\ UNCHANGED <<linkState, usedLinks, planCap, keyPaused, downgrading>>

\* The handler raises or the process ends: the link stays consumed.
ClickDies(c) ==
    /\ click[c].at # "idle"
    /\ click' = [click EXCEPT ![c] = NoClick]
    /\ UNCHANGED <<linkState, usedLinks, planCap, capOverride, keyPaused, downgrading, activityLog, executed, lowered>>

\* revert_action.  Any logged activity will do: its kind is not compared with
\* what is reverted, except that unpausing needs its target.
RevertAction(kind) ==
    /\ activityLog # {} /\ (kind = "pause_api_key" => "pause_api_key" \in activityLog)
    /\ keyPaused' = (keyPaused /\ kind # "pause_api_key")
    /\ downgrading' = (downgrading /\ kind # "downgrade_model")
    /\ capOverride' = IF kind = "increase_budget" THEN {} ELSE capOverride
    /\ click' = IF kind = "increase_budget" THEN [d \in Clicks |-> Stale(click[d])] ELSE click
    /\ UNCHANGED <<linkState, usedLinks, planCap, activityLog, executed, lowered>>

\* Billing moves the workspace to another plan; the override stays.
PlanMoves(cap) ==
    /\ cap \in PlanCaps \ {planCap}
    /\ planCap' = cap
    /\ click' = [d \in Clicks |-> Stale(click[d])]
    /\ UNCHANGED <<linkState, usedLinks, capOverride, keyPaused, downgrading, activityLog, executed, lowered>>

ActionsNext ==
    \/ \E l \in ActionLinks : \/ \E kind \in RemedyKinds : CreateActionToken(l, kind)
                              \/ ActionTokenExpires(l)
    \/ \E c \in Clicks :
         \/ \E l \in ActionLinks : VerifyActionToken(c, l)
         \/ \E ok \in BOOLEAN : ConsumeActionToken(c, ok)
         \/ HandlePause(c) \/ HandleDowngrade(c) \/ ReadCap(c) \/ WriteCap(c) \/ ClickDies(c)
    \/ \E kind \in RemedyKinds : RevertAction(kind)
    \/ \E cap \in PlanCaps : PlanMoves(cap)

(***************************************************************************)
(* Properties.                                                             *)
(***************************************************************************)
ActionsTypeOK ==
    /\ usedLinks \subseteq ActionLinks /\ planCap \in PlanCaps
    /\ Cardinality(capOverride) <= 1 /\ capOverride \subseteq 1..MaxCapLevel
    /\ {keyPaused, downgrading} \subseteq BOOLEAN /\ activityLog \subseteq RemedyKinds
    /\ \A c \in Clicks : click[c].at \in {"idle", "verified", "consumed", "read"}

\* A link acts once, however often and however concurrently it is posted.
ActionOnce == \A l \in ActionLinks : executed[l] <= 1

\* "Increase monthly request cap" never leaves less than there was, earlier
\* raises included, unless the plan was unlimited when the cap was read or the
\* cap changed between the read and the write.
RaiseRaises == ~ lowered
=============================================================================
