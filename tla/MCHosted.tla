------------------------------- MODULE MCHosted -------------------------------
(***************************************************************************)
(* The money side of the hosted backend for TLC: billing and seats, the    *)
(* actions mailed with alerts, the ledger, the alert and digest jobs,      *)
(* findings.  One component runs at a time, part says which; the others    *)
(* stay in an initial state.                                               *)
(***************************************************************************)
EXTENDS Billing, Team, Actions, Ledger, HostedAlerts, Findings, TLC

VARIABLE part       \* the component that runs

\* Cost per request before and after the fix, in units, over n requests.
Measured(before, after, n, degraded) ==
    [before |-> before, after |-> after, n |-> n, degraded |-> degraded]
HostedMeasures == {Measured(2, 1, 2, FALSE), Measured(2, 2, 2, FALSE), Measured(2, 1, 2, TRUE)}

HostedInit ==
    /\ part \in {"billing", "team", "actions", "ledger", "alerts",
               "digests", "findings"}
    /\ part = "team" \/ member = [u \in Users |-> "owner"]
    /\ part = "actions" \/ planCap = CHOOSE cap \in PlanCaps : TRUE
    /\ part = "ledger" \/ (/\ billed = [d \in LedgerDays |-> 0]
                          /\ retention = CHOOSE d \in Retentions : TRUE)
    /\ part = "findings" \/ measured = [s \in Scope |-> CHOOSE m \in Measures : TRUE]
    /\ part = "alerts" \/ rule = [enabled |-> TRUE, threshold |-> CHOOSE t \in Thresholds : TRUE]
    /\ BillingInit /\ TeamInit /\ ActionsInit /\ LedgerInit
    /\ HostedAlertsInit /\ FindingsInit

HostedNext ==
    \/ (part = "billing" /\ BillingNext
        /\ UNCHANGED <<part, teamVars, actionVars, ledgerVars,
                       hostedAlertVars, findingVars>>)
    \/ (part = "team" /\ TeamNext
        /\ UNCHANGED <<part, billingVars, actionVars, ledgerVars,
                       hostedAlertVars, findingVars>>)
    \/ (part = "actions" /\ ActionsNext
        /\ UNCHANGED <<part, billingVars, teamVars, ledgerVars,
                       hostedAlertVars, findingVars>>)
    \/ (part = "ledger" /\ LedgerNext
        /\ UNCHANGED <<part, billingVars, teamVars, actionVars,
                       hostedAlertVars, findingVars>>)
    \/ (part = "alerts" /\ AlertJobNext
        /\ UNCHANGED <<part, billingVars, teamVars, actionVars,
                       ledgerVars, findingVars>>)
    \/ (part = "digests" /\ DigestJobNext
        /\ UNCHANGED <<part, billingVars, teamVars, actionVars,
                       ledgerVars, findingVars>>)
    \/ (part = "findings" /\ FindingsNext
        /\ UNCHANGED <<part, billingVars, teamVars, actionVars,
                       ledgerVars, hostedAlertVars>>)

hostedVars == <<part, billingVars, teamVars, actionVars, ledgerVars,
    hostedAlertVars, findingVars>>
HostedSpec == HostedInit /\ [][HostedNext]_hostedVars

\* The component that runs keeps to the types its module declares.
HostedTypeOK ==
    /\ part = "billing" => BillingTypeOK
    /\ part = "team" => TeamTypeOK
    /\ part = "actions" => ActionsTypeOK
    /\ part = "ledger" => LedgerTypeOK
    /\ part \in {"alerts", "digests"} => HostedAlertsTypeOK
    /\ part = "findings" => FindingsTypeOK

\* Paddle owns the truth and the workspaces row follows it: nobody is on a
\* plan that Paddle did not sell, and at rest plan, status and scheduled
\* cancellation agree, whatever webhooks and console calls met on the way.
SubscriptionTrue == part = "billing" => EntitlementBought /\ CacheAgrees

\* What must happen once does: a receipt, the use of an invitation, a mailed
\* link, an alert or digest in its quiet time, although events repeat, links
\* are opened at the same time and jobs overlap.
ActsOnce ==
    /\ part = "billing" => ReceiptOnce
    /\ part = "team" => InviteSpent
    /\ part = "actions" => ActionOnce
    /\ part \in {"alerts", "digests"} => QuietKept

\* What people decided and what they are told stands: an owner remains, a
\* raise raises, an operator's decision survives detection passes, a verified
\* saving is one, reconciled days agree with the bill, and the prune keeps
\* what the plan keeps.  Each part names the overlap that it does not cover.
DecisionsStand ==
    /\ part = "team" => OwnerRemains
    /\ part = "actions" => RaiseRaises
    /\ part = "findings" => DecisionStands /\ VerifiedIsSaving
    /\ part = "ledger" => ReconciledBacked /\ KeptRowsStay

\* Steps that are never taken: a webhook that sets back the usage of a period
\* (_handle_subscription_updated), a pass or an operator that replaces the
\* anchor of a fix.
HostedStepsSafe ==
    /\ CountersOnlyGrow
    /\ AnchorKept

\* Requests, workers and the like are interchangeable.  The components share
\* their model values: one symmetry serves them all.
HostedSymmetry == Permutations(AlertRuns) \cup Permutations(DigestRuns)
=============================================================================
