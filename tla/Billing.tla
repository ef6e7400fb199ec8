------------------------------- MODULE Billing -------------------------------
(***************************************************************************)
(* The subscription of one workspace: burnlens_cloud/billing.py.  Paddle   *)
(* owns the truth, the workspaces row is a cache of it.  Two writers keep  *)
(* the cache: the webhook handler, whose events may be repeated, reordered *)
(* or lost to an error after they were claimed; and the console's calls,   *)
(* which read the row, wait for Paddle, and write what they expect.        *)
(***************************************************************************)
EXTENDS Naturals, FiniteSets

CONSTANTS
    Subs,           \* subscriptions that checkouts may create
    NoSub,          \* no subscription
    MaxEvents,      \* bound on the events Paddle emits
    MaxPeriod,      \* bound on the billing periods
    MaxCount        \* bound on a usage counter

ASSUME BillingAssumption ==
    /\ NoSub \notin Subs
    /\ {MaxEvents, MaxPeriod, MaxCount} \subseteq Nat

VARIABLES
    paddle,         \* Paddle's record of each subscription
    sent,           \* events Paddle has emitted
    seen,           \* rows of paddle_events
    claimed,        \* events whose handler is between its claim and its effect
    handled,        \* per subscription, the latest event that was applied
    overtaken,      \* history: some write was not the latest word on its subject
    ws,             \* the workspaces row
    call,           \* the console's call in progress
    bought,         \* history: plans that Paddle has sold
    cycles,         \* workspace_usage_cycles: count per paid period, 0 is no row
    receipts,       \* events whose receipt was mailed, with their number
    now             \* the current billing period

billingVars == <<paddle, sent, seen, claimed, handled, overtaken, ws, call,
                 bought, cycles, receipts, now>>

PaidPlans == {"cloud", "teams"}
Plans == PaidPlans \cup {"free"}
Statuses == {"trialing", "active", "past_due", "canceled"}
Kinds == {"trialing", "activated", "updated", "canceled", "payment_failed", "completed"}

\* _PLAN_TIER
Tier(plan) == CASE plan = "free" -> 0 [] plan = "cloud" -> 1 [] plan = "teams" -> 2

NewSubscription == [status |-> "none", plan |-> "free", cancel |-> FALSE, next |-> "free", ends |-> 0]
NoCall == [kind |-> "none", sub |-> NoSub, target |-> "free", stage |-> "idle", event |-> 0]

BillingInit ==
    /\ paddle = [s \in Subs |-> NewSubscription]
    /\ sent = {} /\ seen = {} /\ claimed = {}
    /\ handled = [s \in Subs |-> 0]
    /\ overtaken = FALSE
    /\ ws = [plan |-> "free", sub |-> NoSub, status |-> "active", cancel |-> FALSE,
             ends |-> 0, scheduled |-> "free"]
    /\ call = NoCall
    /\ bought = {}
    /\ cycles = [p \in 0..MaxPeriod |-> 0]
    /\ receipts = [n \in 1..MaxEvents |-> 0]
    /\ now = 0

(***************************************************************************)
(* Paddle.  Each change of a subscription emits an event with a snapshot.  *)
(***************************************************************************)
Event(kind, s, sub) ==
    [n |-> Cardinality(sent) + 1, kind |-> kind, sub |-> s, plan |-> sub.plan,
     status |-> sub.status, cancel |-> sub.cancel, ends |-> sub.ends]

Emit(kind, s, sub) ==
    /\ Cardinality(sent) < MaxEvents
    /\ paddle' = [paddle EXCEPT ![s] = sub]
    /\ sent' = sent \cup {Event(kind, s, sub)}

AtPaddle == UNCHANGED <<seen, claimed, handled, overtaken, ws, cycles, receipts>>

\* create_checkout opens a transaction without looking at the current plan, so
\* that a second subscription may come beside a first; the customer pays.  The
\* Cloud plan ships a trial, which starts with subscription.trialing.
CreateCheckout(s, plan) ==
    LET trial == plan = "cloud"
        sub == [status |-> IF trial THEN "trialing" ELSE "active",
                plan |-> plan, cancel |-> FALSE, next |-> plan, ends |-> now + 1]
    IN  /\ paddle[s].status = "none"
        /\ Emit(IF trial THEN "trialing" ELSE "activated", s, sub)
        /\ bought' = bought \cup {plan}
        /\ AtPaddle /\ UNCHANGED <<call, now>>

\* A charge succeeds: the trial or the dunning ends.
PaddleBills(s) ==
    LET sub == [paddle[s] EXCEPT !.status = "active"]
    IN  /\ paddle[s].status \in {"trialing", "past_due"}
        /\ Emit(IF paddle[s].status = "trialing" THEN "activated" ELSE "updated", s, sub)
        /\ AtPaddle /\ UNCHANGED <<call, bought, now>>

PaddleChargeFails(s) ==
    /\ paddle[s].status = "active"
    /\ Emit("payment_failed", s, [paddle[s] EXCEPT !.status = "past_due"])
    /\ AtPaddle /\ UNCHANGED <<call, bought, now>>

\* transaction.completed changes nothing at Paddle
PaddleReceipt(s) ==
    /\ paddle[s].status = "active"
    /\ Emit("completed", s, paddle[s])
    /\ AtPaddle /\ UNCHANGED <<call, bought, now>>

Ended(sub) == [sub EXCEPT !.status = "canceled", !.cancel = FALSE]
Renewed(sub) == [sub EXCEPT !.plan = sub.next, !.ends = now + 1]

\* At the end of a paid period a subscription is canceled, changed or renewed;
\* a subscription can also be ended or paused from Paddle's side.
PaddleRollsOver(s) ==
    /\ paddle[s].status \in {"active", "past_due"} /\ paddle[s].ends <= now
    /\ IF paddle[s].cancel
       THEN Emit("canceled", s, Ended(paddle[s])) /\ bought' = bought
       ELSE Emit("updated", s, Renewed(paddle[s])) /\ bought' = bought \cup {paddle[s].next}
    /\ AtPaddle /\ UNCHANGED <<call, now>>

PaddleEnds(s) ==
    /\ paddle[s].status \in {"trialing", "active", "past_due"}
    /\ Emit("canceled", s, Ended(paddle[s]))
    /\ AtPaddle /\ UNCHANGED <<call, bought, now>>

PeriodPasses ==
    /\ now < MaxPeriod /\ now' = now + 1
    /\ UNCHANGED <<paddle, sent, seen, claimed, handled, overtaken, ws, call,
                   bought, cycles, receipts>>

(***************************************************************************)
(* The webhook handler.                                                    *)
(***************************************************************************)
AtWebhook == UNCHANGED <<paddle, sent, bought, call, now>>

\* Variant of WebhookClaim: no row of paddle_events is looked for.
WebhookClaimAgain(e) ==
    /\ e \notin claimed
    /\ seen' = seen \cup {e.n} /\ claimed' = claimed \cup {e}
    /\ UNCHANGED <<handled, overtaken, ws, cycles, receipts>> /\ AtWebhook

\* paddle_webhook up to the insert into paddle_events.  A repeated delivery
\* inserts no row and is answered without effect.
WebhookClaim(e) ==
    /\ e.n \notin seen
    /\ seen' = seen \cup {e.n} /\ claimed' = claimed \cup {e}
    /\ UNCHANGED <<handled, overtaken, ws, cycles, receipts>> /\ AtWebhook

\* Variant of Seeded: the row of a period that has one starts again.
SeededAfresh(e, ok) == IF ok THEN [cycles EXCEPT ![e.ends - 1] = 1] ELSE cycles

\* Both subscription handlers insert the usage row of the event's period
\* unless there is one (ON CONFLICT DO NOTHING); a failure is only logged.
\* Row counts are kept one above the request count: 0 is no row.
Seeded(e, ok) == IF ok /\ cycles[e.ends - 1] = 0 THEN [cycles EXCEPT ![e.ends - 1] = 1] ELSE cycles

\* _handle_subscription_activated: by the workspace id of the checkout.
HandleActivated(e) ==
    /\ e.kind \in {"trialing", "activated"}
    /\ ws' = [ws EXCEPT !.plan = e.plan, !.sub = e.sub, !.status = e.status,
                        !.cancel = e.cancel, !.ends = e.ends]
    /\ \E ok \in BOOLEAN : cycles' = Seeded(e, ok)
    /\ UNCHANGED receipts

\* Variant of HandleUpdated: the plan of the new price is not stored.
HandleUpdatedKeepsPlan(e) ==
    /\ e.kind = "updated"
    /\ IF ws.sub = e.sub
       THEN /\ ws' = [ws EXCEPT !.status = e.status, !.cancel = e.cancel, !.ends = e.ends]
            /\ \E ok \in BOOLEAN : cycles' = Seeded(e, ok)
       ELSE UNCHANGED <<ws, cycles>>
    /\ UNCHANGED receipts

\* _handle_subscription_updated: by the subscription id, so that an update
\* that comes before its activation finds no row.  The scheduled plan stays.
HandleUpdated(e) ==
    /\ e.kind = "updated"
    /\ IF ws.sub = e.sub
       THEN /\ ws' = [ws EXCEPT !.plan = e.plan, !.status = e.status,
                                !.cancel = e.cancel, !.ends = e.ends]
            /\ \E ok \in BOOLEAN : cycles' = Seeded(e, ok)
       ELSE UNCHANGED <<ws, cycles>>
    /\ UNCHANGED receipts

\* _handle_subscription_canceled, also for subscription.paused.
HandleCanceled(e) ==
    /\ e.kind = "canceled"
    /\ ws' = IF ws.sub = e.sub THEN [ws EXCEPT !.plan = "free", !.status = "canceled"] ELSE ws
    /\ UNCHANGED <<cycles, receipts>>

\* _handle_payment_failed
HandlePaymentFailed(e) ==
    /\ e.kind = "payment_failed"
    /\ ws' = IF ws.sub = e.sub THEN [ws EXCEPT !.status = "past_due"] ELSE ws
    /\ UNCHANGED <<cycles, receipts>>

\* _handle_transaction_completed: a receipt, or a logged failure to send one.
HandleCompleted(e) ==
    /\ e.kind = "completed"
    /\ receipts' \in {receipts, [receipts EXCEPT ![e.n] = @ + 1]}
    /\ UNCHANGED <<ws, cycles>>

\* The dispatch of paddle_webhook, up to processed_at.  Nothing compares the
\* event with the one applied before it.
WebhookApply(e) ==
    /\ claimed' = claimed \ {e}
    /\ \/ HandleActivated(e) \/ HandleUpdated(e) \/ HandleCanceled(e)
       \/ HandlePaymentFailed(e) \/ HandleCompleted(e)
    /\ handled' = [handled EXCEPT ![e.sub] = IF e.n > @ THEN e.n ELSE @]
    /\ overtaken' = (overtaken \/ e.n < handled[e.sub])
    /\ UNCHANGED seen /\ AtWebhook

\* A handler raises: the error is stored, the answer is 200, and the event
\* stays claimed for ever.  A kill at this point does the same.
WebhookRaises(e) ==
    /\ claimed' = claimed \ {e}
    /\ overtaken' = TRUE
    /\ UNCHANGED <<seen, handled, ws, cycles, receipts>> /\ AtWebhook

(***************************************************************************)
(* The console: change_plan, cancel_subscription, reactivate_subscription. *)
(* Each reads the row, calls Paddle, and writes the row only after a 2xx.  *)
(***************************************************************************)
AtConsole == UNCHANGED <<seen, claimed, handled, cycles, receipts, now>>

\* The row as it is read and the early returns.
MayCall(kind, target) ==
    /\ ws.sub # NoSub
    /\ CASE kind = "change" -> target \in PaidPlans \ {ws.plan}
         [] kind = "cancel" -> ~ws.cancel /\ ws.plan # "free" /\ target = "free"
         [] kind = "reactivate" -> /\ ws.cancel /\ ws.status # "canceled"
                                   /\ ws.ends > now /\ target = "free"

CallStarts(kind, target) ==
    /\ call.stage = "idle"
    /\ MayCall(kind, target)
    /\ call' = [kind |-> IF kind # "change" THEN kind
                         ELSE IF Tier(target) > Tier(ws.plan) THEN "upgrade" ELSE "downgrade",
                sub |-> ws.sub, target |-> target, stage |-> "sent", event |-> 0]
    /\ UNCHANGED <<paddle, sent, bought, overtaken, ws>> /\ AtConsole

\* What Paddle makes of the call.
Patched(sub, c) ==
    CASE c.kind = "upgrade" -> [sub EXCEPT !.plan = c.target, !.next = c.target]
      [] c.kind = "downgrade" -> [sub EXCEPT !.next = c.target]
      [] c.kind = "cancel" -> [sub EXCEPT !.cancel = TRUE]
      [] c.kind = "reactivate" -> [sub EXCEPT !.cancel = FALSE]

PaddleAccepts ==
    /\ call.stage = "sent" /\ paddle[call.sub].status # "canceled"
    /\ Emit("updated", call.sub, Patched(paddle[call.sub], call))
    /\ bought' = bought \cup {Patched(paddle[call.sub], call).plan}
    /\ call' = [call EXCEPT !.stage = "accepted", !.event = Cardinality(sent) + 1]
    /\ UNCHANGED <<overtaken, ws>> /\ AtConsole

\* Variant of CallFails: the expected state is written before the answer.
CallFailsWritten ==
    /\ call.stage \in {"sent", "accepted"}
    /\ call' = NoCall
    /\ ws' = IF call.kind = "upgrade" THEN [ws EXCEPT !.plan = call.target] ELSE ws
    /\ UNCHANGED <<paddle, sent, bought, overtaken>> /\ AtConsole

\* A 4xx, a 5xx, or no answer in 15 s, whether or not Paddle took the change:
\* 502, and the row is left alone.
CallFails ==
    /\ call.stage \in {"sent", "accepted"}
    /\ call' = NoCall
    /\ UNCHANGED <<paddle, sent, bought, overtaken, ws>> /\ AtConsole

\* The write after a 2xx.  An upgrade is effective at once and clears a
\* scheduled downgrade; a downgrade is only noted.
CallWrites ==
    /\ call.stage = "accepted"
    /\ ws' = CASE call.kind = "upgrade" -> [ws EXCEPT !.plan = call.target, !.scheduled = "free"]
               [] call.kind = "downgrade" -> [ws EXCEPT !.scheduled = call.target]
               [] call.kind = "cancel" -> [ws EXCEPT !.cancel = TRUE]
               [] call.kind = "reactivate" -> [ws EXCEPT !.cancel = FALSE]
    /\ overtaken' = (overtaken \/ ws.sub # call.sub \/ handled[call.sub] > call.event)
    /\ call' = NoCall
    /\ UNCHANGED <<paddle, sent, bought>> /\ AtConsole

(***************************************************************************)
(* Ingest counts a batch in the current cycle: the paid period of the row, *)
(* if its usage row is there.  Otherwise it is the calendar month, whose   *)
(* row no webhook touches.                                                 *)
(***************************************************************************)
CurrentCycle == {p \in {now} : ws.plan # "free" /\ cycles[p] > 0}

RecordUsage ==
    /\ \E p \in CurrentCycle : cycles[p] <= MaxCount /\ cycles' = [cycles EXCEPT ![p] = @ + 1]
    /\ UNCHANGED <<paddle, sent, seen, claimed, handled, overtaken, ws, call,
                   bought, receipts, now>>

BillingNext ==
    \/ \E s \in Subs :
         \/ \E plan \in PaidPlans : CreateCheckout(s, plan)
         \/ PaddleBills(s) \/ PaddleChargeFails(s) \/ PaddleReceipt(s)
         \/ PaddleRollsOver(s) \/ PaddleEnds(s)
    \/ PeriodPasses
    \/ \E e \in sent : WebhookClaim(e)
    \/ \E e \in claimed : WebhookApply(e) \/ WebhookRaises(e)
    \/ \E kind \in {"change", "cancel", "reactivate"}, target \in Plans : CallStarts(kind, target)
    \/ PaddleAccepts \/ CallFails \/ CallWrites
    \/ RecordUsage

(***************************************************************************)
(* Properties.                                                             *)
(***************************************************************************)
BillingTypeOK ==
    /\ \A s \in Subs : /\ paddle[s].status \in Statuses \cup {"none"}
                       /\ {paddle[s].plan, paddle[s].next} \subseteq Plans
                       /\ handled[s] \in 0..MaxEvents
    /\ seen \subseteq 1..MaxEvents /\ claimed \subseteq sent
    /\ ws.plan \in Plans /\ ws.sub \in Subs \cup {NoSub} /\ ws.status \in Statuses
    /\ ws.scheduled \in Plans /\ call.stage \in {"idle", "sent", "accepted"}
    /\ bought \subseteq Plans /\ now \in 0..MaxPeriod

\* A workspace is on a paid plan only if Paddle has sold that plan: neither a
\* call that failed or timed out nor any order of the events upgrades it.
EntitlementBought == ws.plan # "free" => ws.plan \in bought

\* Once no event and no call is under way, the cached row agrees with Paddle on
\* plan and status of its subscription, and on the scheduled cancellation of a
\* live one.  It may disagree only if a handler failed after its claim, an older
\* event came after a newer one, or a console write came after a newer event:
\* no other interleaving of webhook and console leaves it behind.
CacheAgrees ==
    (/\ {e.n : e \in sent} \subseteq seen /\ claimed = {} /\ call = NoCall
     /\ ~overtaken /\ ws.sub # NoSub)
    => LET sub == paddle[ws.sub] IN
       /\ ws.status = sub.status
       /\ ws.plan = IF sub.status = "canceled" THEN "free" ELSE sub.plan
       /\ sub.status # "canceled" => ws.cancel = sub.cancel

\* A receipt is mailed at most once however often its event is delivered.
ReceiptOnce == \A n \in 1..MaxEvents : receipts[n] <= 1

\* No webhook sets back the usage a workspace has already been counted for in a
\* billing period: repeated and late events must leave the quota counter alone.
CountersOnlyGrow == [][\A p \in 0..MaxPeriod : cycles'[p] >= cycles[p]]_billingVars
=============================================================================
