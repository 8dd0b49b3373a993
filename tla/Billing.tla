------------------------------- MODULE Billing -------------------------------
(***************************************************************************)
(* One organization's plan and subscription: the gateway's events and        *)
(* call-backs (billing.go, payment/stripe, payment/payu), its members'        *)
(* logins, and the hourly jobs that downgrade, deactivate and delete          *)
(* (scheduler.go).  The gateway delivers an event at least once and in any    *)
(* order.  A handler is the list of statements it has still to execute, each  *)
(* of which may fail.                                                         *)
(***************************************************************************)
EXTENDS Naturals, Sequences, FiniteSets

CONSTANTS
    BillReqs,         \* requests and job passes in flight
    MaxStripeEvents,  \* bound: events of the gateway
    MaxBillFaults     \* bound: statements that fail

ASSUME BillingAssumption ==
    /\ IsFiniteSet(BillReqs) /\ MaxStripeEvents \in Nat /\ MaxBillFaults \in Nat

VARIABLES
    plan,         \* organizations.plan
    sub,          \* the row of subscriptions
    org,          \* live, soft (deleted_at set) or gone
    visits,       \* its members' logins since it was deactivated: none or back, and
                  \* history: listed for deletion after that
    gateway,      \* the subscription at Stripe
    stripeEvents, \* events Stripe has made, in order
    recorded,     \* payment_events of Stripe, by event
    applied,      \* history: applied[n]: handlers that acted on the n-th event
    billReq,      \* billReq[r]: what r has still to do
    overlap,      \* history: a writer began while another was at work
    billFaults

billVars == <<plan, sub, org, visits, gateway, stripeEvents,
              recorded, applied, billReq, overlap, billFaults>>
gatewayVars == <<gateway, stripeEvents>>

\* A subscription's status is what Stripe calls it; "other" stands for those no code asks
\* about: unpaid, paused, trialing, incomplete.  "none": no row.
SubStatuses == {"none", "active", "past_due", "canceled", "other"}
Unended == {"active", "past_due", "other"}
\* The row: its status, whether it has Stripe's id, and history: its status is the word of
\* an update of Stripe's, with which the plan is not touched.
Subs == [status : SubStatuses, stripe : BOOLEAN, asTold : BOOLEAN]
NoSub == [status |-> "none", stripe |-> FALSE, asTold |-> FALSE]
\* sub as a handler that decides on the status itself writes it back.
Judged(status) == [sub EXCEPT !.status = status, !.asTold = FALSE]
Plans == {"trial", "free", "pro"}
\* What a handler has to do, or has still to do.
Todos == {<<>>, <<"record", "plan", "upsert">>, <<"plan", "upsert">>, <<"upsert">>,
          <<"upsert", "plan", "record">>, <<"plan", "record">>, <<"upsert", "record">>,
          <<"record">>, <<"plan">>, <<"soft">>, <<"hard">>}
Idle == [todo |-> <<>>, event |-> 0, plan |-> "free", sub |-> NoSub, must |-> FALSE]

BillingTypeOK ==
    /\ plan \in Plans
    /\ sub \in Subs
    /\ org \in {"live", "soft", "gone"}
    /\ visits \in {"none", "back", "condemned"}
    /\ gateway \in SubStatuses
    /\ stripeEvents \in Seq([type : {"checkout", "updated", "canceled", "failed"}, status : SubStatuses])
    /\ Len(stripeEvents) <= MaxStripeEvents
    /\ recorded \subseteq 1..MaxStripeEvents
    /\ applied \in [1..MaxStripeEvents -> Nat]
    /\ billReq \in [BillReqs -> [todo : Todos, event : 0..MaxStripeEvents, plan : Plans,
                                 sub : Subs, must : BOOLEAN]]
    /\ overlap \in BOOLEAN
    /\ billFaults \in 0..MaxBillFaults

BillingInit ==
    /\ plan = "trial"
    /\ sub = NoSub
    /\ org = "live" /\ visits = "none"
    /\ gateway = "none" /\ stripeEvents = <<>>
    /\ recorded = {} /\ applied = [n \in 1..MaxStripeEvents |-> 0]
    /\ billReq = [r \in BillReqs |-> Idle]
    /\ overlap = FALSE /\ billFaults = 0

AtRest(r) == billReq[r].todo = <<>>

Does(todo, statement) == \E i \in 1..Len(todo) : todo[i] = statement

\* r is to execute `todo', with what its statements write; `must': it stops when the
\* plan cannot be written.
Begin(r, todo, event, newPlan, newSub, must) ==
    /\ AtRest(r)
    /\ billReq' = [billReq EXCEPT ![r] =
          [todo |-> todo, event |-> event, must |-> must,
           plan |-> IF Does(todo, "plan") THEN newPlan ELSE Idle.plan,
           sub |-> IF Does(todo, "upsert") THEN newSub ELSE Idle.sub]]
    /\ overlap' = (overlap \/ \E q \in BillReqs : ~AtRest(q))

-----------------------------------------------------------------------------
(* The gateway (external): what it sends of a subscription's life.          *)

Emit(type, status) ==
    /\ Len(stripeEvents) < MaxStripeEvents
    /\ stripeEvents' = Append(stripeEvents, [type |-> type, status |-> status])
    /\ gateway' = status
    /\ UNCHANGED <<plan, sub, org, visits, recorded, applied, billReq, overlap, billFaults>>

\* The customer pays at the page CreateCheckout led to.
StripeCheckout == org = "live" /\ gateway \in {"none", "canceled"} /\ Emit("checkout", "active")
StripePaymentFails == gateway \in Unended /\ Emit("failed", "past_due")
\* The subscription changed in another way than by its end: whatever it is now.
StripeUpdates == gateway \in Unended /\ \E status \in Unended \cup {"canceled"} : Emit("updated", status)
StripeCancels == gateway \in Unended /\ Emit("canceled", "canceled")

-----------------------------------------------------------------------------
(* HandleStripeWebhook: the duplicate check, then one handler per type.      *)

\* GetPaymentEventByExternalID finds nothing.
NotSeen(n, type) == n <= Len(stripeEvents) /\ stripeEvents[n].type = type /\ n \notin recorded
Applies(n) == applied' = [applied EXCEPT ![n] = @ + 1]
Acts == UNCHANGED <<plan, sub, org, gatewayVars, recorded, billFaults>>
Delivery == Acts /\ UNCHANGED visits

\* The event is recorded first, then the plan, then the subscription.
handleStripeCheckoutCompleted(r, n) ==
    /\ NotSeen(n, "checkout") /\ Applies(n) /\ Delivery
    /\ Begin(r, <<"record", "plan", "upsert">>, n, "pro",
             [status |-> "active", stripe |-> TRUE, asTold |-> FALSE], TRUE)

\* The others read the subscription by Stripe's id, and do nothing without it.  An update's
\* status is taken as it comes, and the plan left.
handleStripeSubscriptionUpdated(r, n) ==
    /\ NotSeen(n, "updated") /\ sub.stripe /\ Applies(n) /\ Delivery
    /\ Begin(r, <<"upsert", "record">>, n, plan,
             [sub EXCEPT !.status = stripeEvents[n].status, !.asTold = TRUE], FALSE)

\* Mutant: the cancellation is noted and the plan left.
canceledKeepsPlan(r, n) ==
    /\ NotSeen(n, "canceled") /\ sub.stripe /\ Applies(n) /\ Delivery
    /\ Begin(r, <<"upsert", "record">>, n, plan, Judged("canceled"), FALSE)

handleStripeSubscriptionCanceled(r, n) ==
    /\ NotSeen(n, "canceled") /\ sub.stripe /\ Applies(n) /\ Delivery
    /\ Begin(r, <<"upsert", "plan", "record">>, n, "free", Judged("canceled"), FALSE)

handleStripePaymentFailed(r, n) ==
    /\ NotSeen(n, "failed") /\ sub.stripe /\ Applies(n) /\ Delivery
    /\ Begin(r, <<"upsert", "record">>, n, plan, Judged("past_due"), FALSE)

-----------------------------------------------------------------------------
(* The other writers of the plan.                                           *)

\* PayUCallback, with a checked hash: its event is recorded, never looked up.
PayUCallback(r) ==
    /\ org # "gone"
    /\ Begin(r, <<"plan", "upsert">>, 0, "pro",
             [status |-> "active", stripe |-> FALSE, asTold |-> FALSE], TRUE)
    /\ Delivery /\ UNCHANGED applied

\* CancelSubscription, once the gateway has agreed: at the end of the period, which is
\* noted in the row that was read ...
CancelAtPeriodEnd(r) ==
    /\ sub.stripe /\ gateway \in Unended
    /\ Begin(r, <<"upsert">>, 0, plan, sub, FALSE)
    /\ Delivery /\ UNCHANGED applied

\* ... or at once, of which Stripe also sends an event.
CancelSubscription(r) ==
    /\ sub.stripe /\ gateway \in Unended
    /\ Len(stripeEvents) < MaxStripeEvents
    /\ Begin(r, <<"plan", "upsert">>, 0, "free", Judged("canceled"), FALSE)
    /\ gateway' = "canceled"
    /\ stripeEvents' = Append(stripeEvents, [type |-> "canceled", status |-> "canceled"])
    /\ UNCHANGED <<plan, sub, org, visits, recorded, applied, billFaults>>

\* autoDowngradeExpiredTrials: a trial that is over, of an organization where nobody
\* has logged in for its length; then DowngradeOrgToFree.  (The middleware TrialExpiry
\* would downgrade the others, but GetOrganization does not read the date it asks
\* about.)  Whether a date has passed, the last login's among them, is left open, here
\* and below.
ExpireTrial(r) ==
    /\ plan = "trial" /\ org = "live"
    /\ Begin(r, <<"plan">>, 0, "free", sub, FALSE)
    /\ Delivery /\ UNCHANGED applied

\* downgradePastDueSubscriptions: past due for DunningGraceDays when listed.
DowngradePastDue(r) ==
    /\ sub.status = "past_due"
    /\ Begin(r, <<"plan", "upsert">>, 0, "free",
             Judged("canceled"), TRUE)
    /\ Delivery /\ UNCHANGED applied

\* softDeleteInactiveOrgs and hardDeleteExpiredOrgs: list, then act on the id.  The
\* second asks only how long ago the organization was deactivated.
SoftDeleteInactive(r) ==
    /\ plan = "free" /\ org = "live"
    /\ Begin(r, <<"soft">>, 0, plan, sub, FALSE)
    /\ Delivery /\ UNCHANGED applied

HardDeleteExpired(r) ==
    /\ org = "soft"
    /\ Begin(r, <<"hard">>, 0, plan, sub, FALSE)
    /\ visits' = IF visits = "back" THEN "condemned" ELSE visits
    /\ Acts /\ UNCHANGED applied

-----------------------------------------------------------------------------
(* Statements.                                                              *)

Done(r) == billReq' = [billReq EXCEPT ![r] = IF Len(billReq[r].todo) = 1 THEN Idle
                                             ELSE [billReq[r] EXCEPT !.todo = Tail(billReq[r].todo)]]

\* CreatePaymentEvent, UpdateOrgPlan or DowngradeOrgToFree, UpsertSubscription,
\* SoftDeleteOrganization, HardDeleteOrganization.  The upsert keeps Stripe's id
\* when it comes with none, and overwrites the rest.
Execute(r) ==
    LET q == billReq[r] IN
    /\ ~AtRest(r) /\ Done(r)
    /\ recorded' = IF Head(q.todo) = "record" THEN recorded \union {q.event} ELSE recorded
    /\ plan' = IF Head(q.todo) = "plan" THEN q.plan ELSE plan
    /\ sub' = IF Head(q.todo) = "upsert" THEN [q.sub EXCEPT !.stripe = @ \/ sub.stripe] ELSE sub
    /\ org' = CASE Head(q.todo) = "soft" -> IF org = "live" THEN "soft" ELSE org
                [] Head(q.todo) = "hard" -> "gone"
                [] OTHER -> org
    /\ UNCHANGED <<visits, gatewayVars, applied, overlap, billFaults>>

\* A statement fails: the handler goes on, unless it must have the plan.
StatementFails(r) ==
    /\ ~AtRest(r) /\ billFaults < MaxBillFaults
    /\ billFaults' = billFaults + 1
    /\ IF billReq[r].must /\ Head(billReq[r].todo) = "plan"
       THEN billReq' = [billReq EXCEPT ![r] = Idle] ELSE Done(r)
    /\ UNCHANGED <<plan, sub, org, visits, gatewayVars, recorded, applied, overlap>>

\* The process dies in the handler.
BillCrash(r) ==
    /\ ~AtRest(r) /\ billFaults < MaxBillFaults
    /\ billFaults' = billFaults + 1
    /\ billReq' = [billReq EXCEPT ![r] = Idle]
    /\ UNCHANGED <<plan, sub, org, visits, gatewayVars, recorded, applied, overlap>>

\* Login and UpdateLastLoginAt.  It would restore a deactivated organization, but
\* GetOrganization does not read deleted_at either, so it never sees one.  Before that,
\* it sets nothing but the date.
MemberLogsIn ==
    /\ org = "soft" /\ visits = "none" /\ visits' = "back"
    /\ UNCHANGED <<plan, sub, org, gatewayVars, recorded, applied, billReq, overlap, billFaults>>

BillingNext ==
    \/ StripeCheckout \/ StripePaymentFails \/ StripeUpdates \/ StripeCancels
    \/ \E r \in BillReqs :
          \/ \E n \in 1..MaxStripeEvents :
                \/ handleStripeCheckoutCompleted(r, n) \/ handleStripeSubscriptionUpdated(r, n)
                \/ handleStripeSubscriptionCanceled(r, n) \/ handleStripePaymentFailed(r, n)
          \/ PayUCallback(r) \/ CancelAtPeriodEnd(r) \/ CancelSubscription(r)
          \/ ExpireTrial(r) \/ DowngradePastDue(r) \/ SoftDeleteInactive(r) \/ HardDeleteExpired(r)
          \/ Execute(r) \/ StatementFails(r) \/ BillCrash(r)
    \/ MemberLogsIn

BillingSpec == BillingInit /\ [][BillingNext]_billVars

-----------------------------------------------------------------------------
\* The duplicate check reads before anything is recorded, and recording is a
\* statement like the others: an event is acted on once for each handler that
\* was at work on it together, and once more for each statement that failed.
EventsAppliedBound ==
    \A n \in 1..MaxStripeEvents : applied[n] <= Cardinality(BillReqs) + billFaults

\* However the events are ordered, repeated or lost, as long as the writers came
\* one after another and no statement failed: Pro has a subscription behind it that
\* is paid or past due - a cancelled one leaves the plan below Pro - or one whose
\* status is the word of an update of Stripe's: of that, neither the handler nor
\* the dunning job, which lists what is past due, draws a conclusion for the plan.
SettledPlan ==
    (\A r \in BillReqs : AtRest(r)) /\ billFaults = 0 /\ ~overlap =>
        (plan = "pro" => sub.status \in {"active", "past_due"} \/ sub.asTold)

\* "Restore soft-deleted org on login (within grace period)" (auth.go, Login): an
\* organization that a member came back to after it was deactivated is not listed
\* for hard deletion and deleted.
LoginRestores == ~(org = "gone" /\ visits = "condemned")

(***************************************************************************)
(* Why, as an invariant.  A handler that acted on an event either has still   *)
(* to record it, or recorded it, or lost the statement to a fault.  A writer  *)
(* that is by itself leads to a plan and a status that fit, whatever it has   *)
(* done of it so far.                                                         *)
(***************************************************************************)
Recording(n) == {r \in BillReqs : billReq[r].event = n /\ Does(billReq[r].todo, "record")}

EventsCounted ==
    /\ \A r \in BillReqs : Does(billReq[r].todo, "record") => billReq[r].event \in 1..MaxStripeEvents
    /\ \A n \in 1..MaxStripeEvents \ recorded : applied[n] <= Cardinality(Recording(n)) + billFaults

Fits(p, s) == p = "pro" => s.status \in {"active", "past_due"} \/ s.asTold
PlanAfter(r) == IF Does(billReq[r].todo, "plan") THEN billReq[r].plan ELSE plan
SubAfter(r) == IF Does(billReq[r].todo, "upsert") THEN billReq[r].sub ELSE sub

PlanLeadsOn ==
    /\ ~overlap => \A r, q \in BillReqs : AtRest(r) \/ AtRest(q) \/ r = q
    /\ ~overlap /\ billFaults = 0 =>
          /\ \A r \in BillReqs : AtRest(r) \/ Fits(PlanAfter(r), SubAfter(r))
          /\ (\A r \in BillReqs : AtRest(r)) => Fits(plan, sub)

BillingInv == BillingTypeOK /\ EventsAppliedBound /\ EventsCounted /\ SettledPlan /\ PlanLeadsOn

=============================================================================
