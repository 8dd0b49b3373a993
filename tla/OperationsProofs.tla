-------------------------- MODULE OperationsProofs --------------------------
(***************************************************************************)
(* Proofs about what the company's own operations rest on: billing           *)
(* (Billing), the operations portal (Clusters, ClusterConfig, Deployments,   *)
(* OpsAccess) and the zone its clusters are found by (DNSZone), and the      *)
(* server's own process (Migrations, ServerProcess, StatusPage, Mail).       *)
(***************************************************************************)
EXTENDS Integers, Billing, Clusters, ClusterConfig, Deployments, OpsAccess,
        Migrations, ServerProcess, StatusPage, Mail, DNSZone,
        FiniteSetTheorems, WellFoundedInduction, TLAPS

-----------------------------------------------------------------------------
(***************************************************************************)
(* Billing.  A handler's list is one of Todos; what is needed of them is     *)
(* said once.                                                                *)
(***************************************************************************)
LEMMA TodoDone == \A s : ~Does(<<>>, s)
BY DEF Does

LEMMA TodoHead ==
    ASSUME NEW t \in Todos, t # <<>>
    PROVE  /\ Tail(t) \in Todos /\ (Len(t) = 1 <=> Tail(t) = <<>>)
           /\ \A s : Does(t, s) <=> Head(t) = s \/ Does(Tail(t), s)
           /\ ~Does(Tail(t), Head(t))
<1> DEFINE Goal(u) == /\ Tail(u) \in Todos /\ (Len(u) = 1 <=> Tail(u) = <<>>)
                      /\ \A s : Does(u, s) <=> Head(u) = s \/ Does(Tail(u), s)
                      /\ ~Does(Tail(u), Head(u))
<1>1. ASSUME NEW x PROVE /\ Tail(<<x>>) = <<>> /\ Head(<<x>>) = x /\ Len(<<x>>) = 1
                         /\ \A s : Does(<<x>>, s) <=> s = x
  BY DEF Does
<1>2. ASSUME NEW x, NEW y, x # y
      PROVE  /\ Tail(<<x, y>>) = <<y>> /\ Head(<<x, y>>) = x /\ Len(<<x, y>>) = 2 /\ <<y>> # <<>>
             /\ \A s : Does(<<x, y>>, s) <=> s = x \/ s = y
  <2>1. 1..2 = {1, 2}
    OBVIOUS
  <2> QED
    BY <2>1 DEF Does
<1>3. ASSUME NEW x, NEW y, NEW z, x # y, x # z, y # z
      PROVE  /\ Tail(<<x, y, z>>) = <<y, z>> /\ Head(<<x, y, z>>) = x /\ Len(<<x, y, z>>) = 3 /\ <<y, z>> # <<>>
             /\ \A s : Does(<<x, y, z>>, s) <=> s = x \/ s = y \/ s = z
  <2>1. 1..3 = {1, 2, 3}
    OBVIOUS
  <2> QED
    BY <2>1 DEF Does
<1>4. ASSUME NEW x, t = <<x>> PROVE Goal(t)
  <2>1. <<>> \in Todos
    BY DEF Todos
  <2> QED
    BY <1>1, <1>4, <2>1, TodoDone
<1>5. ASSUME NEW x, NEW y, x # y, t = <<x, y>>, <<y>> \in Todos PROVE Goal(t)
  BY <1>1, <1>2, <1>5
<1>6. ASSUME NEW x, NEW y, NEW z, x # y, x # z, y # z, t = <<x, y, z>>, <<y, z>> \in Todos PROVE Goal(t)
  <2>1. Tail(t) = <<y, z>> /\ Head(t) = x /\ Len(t) = 3 /\ Tail(t) # <<>>
    BY <1>3, <1>6
  <2>2. \A s : Does(t, s) <=> s = x \/ s = y \/ s = z
    BY <1>3, <1>6
  <2>3. \A s : Does(Tail(t), s) <=> s = y \/ s = z
    <3>1. \A s : Does(<<y, z>>, s) <=> s = y \/ s = z
      BY <1>2, <1>6, Zenon
    <3> QED
      BY <2>1, <3>1, Zenon
  <2> QED
    BY <1>6, <2>1, <2>2, <2>3
<1>7. /\ <<"upsert">> \in Todos /\ <<"record">> \in Todos /\ <<"plan", "upsert">> \in Todos
      /\ <<"plan", "record">> \in Todos
  BY DEF Todos
<1>8. \/ \E x : t = <<x>>
      \/ t \in {<<"plan", "upsert">>, <<"plan", "record">>, <<"upsert", "record">>}
      \/ t \in {<<"record", "plan", "upsert">>, <<"upsert", "plan", "record">>}
  BY DEF Todos
<1>9. CASE t \in {<<"plan", "upsert">>, <<"plan", "record">>, <<"upsert", "record">>}
  BY <1>5, <1>7, <1>9
<1>10. CASE t \in {<<"record", "plan", "upsert">>, <<"upsert", "plan", "record">>}
  BY <1>6, <1>7, <1>10
<1> QED
  BY <1>4, <1>8, <1>9, <1>10

BillRow == [todo : Todos, event : 0..MaxStripeEvents, plan : Plans, sub : Subs, must : BOOLEAN]

LEMMA IdleRow == Idle \in BillRow /\ Idle.todo = <<>>
<1>1. <<>> \in Todos /\ 0 \in 0..MaxStripeEvents /\ "free" \in Plans
      /\ NoSub \in Subs
  BY BillingAssumption DEF Todos, BillingAssumption, Plans, Subs, SubStatuses, NoSub
<1> QED
  BY <1>1 DEF Idle, BillRow

EventRow == [type : {"checkout", "updated", "canceled", "failed"}, status : SubStatuses]

BillTypes ==
    /\ plan \in Plans /\ sub \in Subs /\ org \in {"live", "soft", "gone"}
    /\ visits \in {"none", "back", "condemned"} /\ gateway \in SubStatuses
    /\ stripeEvents \in Seq(EventRow) /\ Len(stripeEvents) <= MaxStripeEvents
    /\ recorded \subseteq 1..MaxStripeEvents /\ applied \in [1..MaxStripeEvents -> Nat]
    /\ billReq \in [BillReqs -> BillRow] /\ overlap \in BOOLEAN /\ billFaults \in 0..MaxBillFaults

OneAtWork == ~overlap => \A r, q \in BillReqs : AtRest(r) \/ AtRest(q) \/ r = q
WorkFits ==
    ~overlap /\ billFaults = 0 =>
       /\ \A r \in BillReqs : AtRest(r) \/ Fits(PlanAfter(r), SubAfter(r))
       /\ (\A r \in BillReqs : AtRest(r)) => Fits(plan, sub)
BillCounts == EventsAppliedBound /\ EventsCounted

LEMMA BillParts ==
    BillingInv <=> BillTypes /\ BillCounts /\ OneAtWork /\ WorkFits
<1>1. BillingTypeOK <=> BillTypes
  BY DEF BillingTypeOK, BillTypes, BillRow, EventRow
<1>2. PlanLeadsOn <=> OneAtWork /\ WorkFits
  BY DEF PlanLeadsOn, OneAtWork, WorkFits
<1>3. WorkFits => SettledPlan
  BY DEF WorkFits, SettledPlan, Fits
<1> QED
  BY <1>1, <1>2, <1>3 DEF BillingInv, BillCounts

LEMMA BillNumbers ==
    /\ IsFiniteSet(BillReqs) /\ Cardinality(BillReqs) \in Nat
    /\ \A n : /\ IsFiniteSet(Recording(n)) /\ Cardinality(Recording(n)) \in Nat
              /\ Cardinality(Recording(n)) <= Cardinality(BillReqs)
<1>1. IsFiniteSet(BillReqs)
  BY BillingAssumption DEF BillingAssumption
<1>2. \A n : Recording(n) \subseteq BillReqs
  BY DEF Recording
<1> QED
  BY <1>1, <1>2, FS_Subset, FS_CardinalityType

LEMMA InitBilling == BillingInit => BillingInv
<1> SUFFICES ASSUME BillingInit PROVE BillingInv
  OBVIOUS
<1>1. /\ plan = "trial" /\ sub = NoSub /\ org = "live" /\ visits = "none"
      /\ gateway = "none" /\ stripeEvents = <<>>
      /\ recorded = {} /\ applied = [n \in 1..MaxStripeEvents |-> 0]
      /\ billReq = [r \in BillReqs |-> Idle] /\ overlap = FALSE /\ billFaults = 0
  BY DEF BillingInit
<1>2. /\ plan \in Plans /\ sub \in Subs /\ gateway \in SubStatuses /\ stripeEvents \in Seq(EventRow)
      /\ Len(stripeEvents) = 0
  BY <1>1, IdleRow DEF Idle, Plans, BillRow, SubStatuses
<1>3. Len(stripeEvents) <= MaxStripeEvents /\ billFaults \in 0..MaxBillFaults
  BY <1>1, <1>2, BillingAssumption DEF BillingAssumption
<1>4. BillTypes
  BY <1>1, <1>2, <1>3, IdleRow DEF BillTypes
<1>5. \A r \in BillReqs : AtRest(r) /\ billReq[r].todo = <<>>
  BY <1>1, IdleRow DEF AtRest
<1>6. BillCounts
  <2>1. \A n : Cardinality(Recording(n)) \in Nat /\ Cardinality(BillReqs) \in Nat
    BY BillNumbers
  <2>2. \A n \in 1..MaxStripeEvents : applied[n] = 0
    BY <1>1
  <2> QED
    BY <1>1, <1>5, <2>1, <2>2, TodoDone DEF BillCounts, EventsAppliedBound, EventsCounted
<1>8. OneAtWork /\ WorkFits
  BY <1>1, <1>5 DEF OneAtWork, WorkFits, Fits
<1> QED
  BY <1>4, <1>6, <1>8, BillParts

LEMMA BillRowFields ==
    ASSUME BillTypes, NEW r \in BillReqs
    PROVE  /\ billReq[r] \in BillRow /\ billReq[r].todo \in Todos /\ billReq[r].event \in 0..MaxStripeEvents
           /\ billReq[r].plan \in Plans /\ billReq[r].sub \in Subs /\ billReq[r].must \in BOOLEAN
<1>1. billReq[r] \in BillRow
  BY DEF BillTypes
<1> QED
  BY <1>1 DEF BillRow

\* What the gateway and the members do by themselves.
LEMMA OutsideKeeps ==
    ASSUME BillingInv, UNCHANGED <<plan, sub, org, recorded, applied, billReq, overlap, billFaults>>,
           visits' \in {"none", "back", "condemned"}, gateway' \in SubStatuses,
           stripeEvents' \in Seq(EventRow), Len(stripeEvents') <= MaxStripeEvents
    PROVE  BillingInv'
<1>0. BillTypes /\ BillCounts /\ OneAtWork /\ WorkFits
  BY BillParts
<1>1. BillTypes'
  BY <1>0 DEF BillTypes
<1>2. \A n : Recording(n)' = Recording(n)
  BY DEF Recording
<1>3. BillCounts'
  BY <1>0, <1>2 DEF BillCounts, EventsAppliedBound, EventsCounted
<1>4. OneAtWork'
  BY <1>0 DEF OneAtWork, AtRest
<1>5. WorkFits'
  BY <1>0 DEF WorkFits, AtRest, PlanAfter, SubAfter
<1>6. (BillTypes /\ BillCounts /\ OneAtWork /\ WorkFits)' => BillingInv'
  BY BillParts, PTL
<1> QED
  BY <1>1, <1>3, <1>4, <1>5, <1>6

\* The gateway makes an event.
LEMMA EventAppended ==
    ASSUME BillTypes, Len(stripeEvents) < MaxStripeEvents, NEW e \in EventRow,
           stripeEvents' = Append(stripeEvents, e)
    PROVE  stripeEvents' \in Seq(EventRow) /\ Len(stripeEvents') <= MaxStripeEvents
<1>1. stripeEvents \in Seq(EventRow) /\ Len(stripeEvents) \in Nat /\ MaxStripeEvents \in Nat
  BY BillingAssumption DEF BillTypes, BillingAssumption
<1> QED
  BY <1>1

\* What the counts say, for the arithmetic of the steps.
LEMMA BillCounted ==
    ASSUME BillTypes, BillCounts
    PROVE  /\ \A n \in 1..MaxStripeEvents : applied[n] \in Nat /\ applied[n] <= Cardinality(BillReqs) + billFaults
           /\ \A n \in 1..MaxStripeEvents \ recorded : applied[n] <= Cardinality(Recording(n)) + billFaults
           /\ \A p \in BillReqs : Does(billReq[p].todo, "record") => billReq[p].event \in 1..MaxStripeEvents
           /\ billFaults \in Nat
<1>1. billFaults \in Nat /\ \A n \in 1..MaxStripeEvents : applied[n] \in Nat
  BY DEF BillTypes
<1> QED
  BY <1>1 DEF BillCounts, EventsAppliedBound, EventsCounted

\* A handler begins.  It counts for the event it acts on until it has recorded it.
LEMMA BillBeginKeeps ==
    ASSUME BillingInv, NEW r \in BillReqs, NEW todo \in Todos, todo # <<>>, NEW event \in 0..MaxStripeEvents,
           NEW newPlan \in Plans, NEW newSub \in Subs, NEW must \in BOOLEAN,
           Begin(r, todo, event, newPlan, newSub, must),
           UNCHANGED <<plan, sub, org, recorded, billFaults>>,
           visits' \in {"none", "back", "condemned"}, gateway' \in SubStatuses,
           stripeEvents' \in Seq(EventRow), Len(stripeEvents') <= MaxStripeEvents,
           \/ ~Does(todo, "record") /\ applied' = applied
           \/ /\ Does(todo, "record") /\ event \in 1..MaxStripeEvents /\ event \notin recorded
              /\ applied' = [applied EXCEPT ![event] = @ + 1],
           Fits(plan, sub) => Fits(IF Does(todo, "plan") THEN newPlan ELSE plan,
                                          IF Does(todo, "upsert") THEN newSub ELSE sub)
    PROVE  BillingInv'
<1>0. BillTypes /\ BillCounts /\ OneAtWork /\ WorkFits
  BY BillParts
<1>1. PICK q \in BillRow :
         q = [todo |-> todo, event |-> event, must |-> must,
              plan |-> IF Does(todo, "plan") THEN newPlan ELSE Idle.plan,
              sub |-> IF Does(todo, "upsert") THEN newSub ELSE Idle.sub]
  <2>1. Idle.plan \in Plans /\ Idle.sub \in Subs
    BY IdleRow DEF BillRow
  <2>2. PICK p \in Plans : p = IF Does(todo, "plan") THEN newPlan ELSE Idle.plan
    BY <2>1
  <2>3. PICK s \in Subs : s = IF Does(todo, "upsert") THEN newSub ELSE Idle.sub
    BY <2>1
  <2>4. [todo |-> todo, event |-> event, must |-> must, plan |-> p, sub |-> s] \in BillRow
    BY DEF BillRow
  <2> QED
    BY <2>2, <2>3, <2>4
<1>2. /\ q.todo = todo /\ q.event = event /\ (Does(todo, "plan") => q.plan = newPlan)
      /\ (Does(todo, "upsert") => q.sub = newSub)
  BY <1>1
<1>3. /\ billReq[r].todo = <<>> /\ billReq' = [billReq EXCEPT ![r] = q]
      /\ overlap' = (overlap \/ \E p \in BillReqs : ~AtRest(p))
  BY <1>1 DEF Begin, AtRest
<1>4. /\ billReq' \in [BillReqs -> BillRow] /\ billReq'[r] = q
      /\ \A p \in BillReqs \ {r} : billReq'[p] = billReq[p]
  BY <1>0, <1>3 DEF BillTypes
<1>5. overlap' \in BOOLEAN /\ (~overlap' => ~overlap /\ \A p \in BillReqs : AtRest(p))
  BY <1>0, <1>3 DEF BillTypes
<1>6. applied' \in [1..MaxStripeEvents -> Nat]
  BY <1>0 DEF BillTypes
<1>7. BillTypes'
  BY <1>0, <1>4, <1>5, <1>6 DEF BillTypes
<1>8. r \notin Recording(event) /\ \A n : r \notin Recording(n)
  BY <1>3, TodoDone DEF Recording
<1>9. \A n : Recording(n)' = IF Does(todo, "record") /\ n = event THEN Recording(n) \cup {r} ELSE Recording(n)
  BY <1>2, <1>4, <1>8 DEF Recording
<1>10. BillCounts'
  <2>0. /\ \A n \in 1..MaxStripeEvents : applied[n] \in Nat /\ applied[n] <= Cardinality(BillReqs) + billFaults
        /\ \A n \in 1..MaxStripeEvents \ recorded : applied[n] <= Cardinality(Recording(n)) + billFaults
        /\ \A p \in BillReqs : Does(billReq[p].todo, "record") => billReq[p].event \in 1..MaxStripeEvents
        /\ billFaults \in Nat
    BY <1>0, BillCounted
  <2>1. \A p \in BillReqs : Does(billReq'[p].todo, "record") => billReq'[p].event \in 1..MaxStripeEvents
    BY <1>2, <1>4, <2>0
  <2>2. CASE ~Does(todo, "record")
    <3>1. applied' = applied /\ \A n : Recording(n)' = Recording(n)
      BY <1>9, <2>2
    <3> QED
      BY <2>0, <2>1, <3>1 DEF BillCounts, EventsAppliedBound, EventsCounted
  <2>3. CASE Does(todo, "record")
    <3>1. /\ event \in 1..MaxStripeEvents /\ event \notin recorded /\ applied'[event] = applied[event] + 1
          /\ \A n \in 1..MaxStripeEvents \ {event} : applied'[n] = applied[n]
      BY <1>0, <2>3 DEF BillTypes
    <3>2. /\ Recording(event)' = Recording(event) \cup {r} /\ Recording(event) \cup {r} \subseteq BillReqs
          /\ \A n : n # event => Recording(n)' = Recording(n)
      BY <1>9, <2>3 DEF Recording
    <3>3. /\ Cardinality(Recording(event)') = Cardinality(Recording(event)) + 1
          /\ Cardinality(Recording(event)') <= Cardinality(BillReqs)
          /\ Cardinality(Recording(event)) \in Nat /\ Cardinality(BillReqs) \in Nat
      <4>1. Cardinality(Recording(event) \cup {r}) = Cardinality(Recording(event)) + 1
        BY <1>8, BillNumbers, FS_AddElement, FS_CardinalityType
      <4>2. Cardinality(Recording(event) \cup {r}) <= Cardinality(BillReqs)
        BY <3>2, BillNumbers, FS_Subset, FS_CardinalityType
      <4> QED
        BY <3>2, <4>1, <4>2, BillNumbers
    <3>4. ASSUME NEW n \in 1..MaxStripeEvents PROVE applied'[n] <= Cardinality(BillReqs) + billFaults
      <4>1. CASE n = event
        BY <2>0, <3>1, <3>3, <4>1
      <4>2. CASE n # event
        BY <2>0, <3>1, <4>2
      <4> QED
        BY <4>1, <4>2
    <3>5. ASSUME NEW n \in 1..MaxStripeEvents \ recorded
          PROVE  applied'[n] <= Cardinality(Recording(n)') + billFaults
      <4>1. CASE n = event
        BY <2>0, <3>1, <3>3, <4>1
      <4>2. CASE n # event
        BY <2>0, <3>1, <3>2, <4>2
      <4> QED
        BY <4>1, <4>2
    <3> QED
      BY <2>1, <3>4, <3>5 DEF BillCounts, EventsAppliedBound, EventsCounted
  <2> QED
    BY <2>2, <2>3
<1>11. OneAtWork'
  <2> SUFFICES ASSUME ~overlap', NEW p \in BillReqs, NEW k \in BillReqs
               PROVE  billReq'[p].todo = <<>> \/ billReq'[k].todo = <<>> \/ p = k
    BY DEF OneAtWork, AtRest
  <2> QED
    BY <1>4, <1>5 DEF AtRest
<1>12. WorkFits'
  <2> SUFFICES ASSUME ~overlap', billFaults = 0
               PROVE  /\ \A p \in BillReqs : AtRest(p)' \/ Fits(PlanAfter(p)', SubAfter(p)')
                      /\ (\A p \in BillReqs : AtRest(p)') => Fits(plan, sub)
    BY DEF WorkFits
  <2>1. Fits(plan, sub)
    BY <1>0, <1>5 DEF WorkFits
  <2>2. \A p \in BillReqs \ {r} : AtRest(p)'
    BY <1>4, <1>5 DEF AtRest
  <2>3. /\ PlanAfter(r)' = IF Does(todo, "plan") THEN newPlan ELSE plan
        /\ SubAfter(r)' = IF Does(todo, "upsert") THEN newSub ELSE sub
    BY <1>2, <1>4 DEF PlanAfter, SubAfter
  <2>4. Fits(PlanAfter(r)', SubAfter(r)')
    BY <2>1, <2>3
  <2> QED
    BY <2>1, <2>2, <2>4
<1>13. (BillTypes /\ BillCounts /\ OneAtWork /\ WorkFits)' => BillingInv'
  BY BillParts, PTL
<1> QED
  BY <1>7, <1>10, <1>11, <1>12, <1>13

-----------------------------------------------------------------------------
\* A handler has one statement less to execute.
LEMMA DoneRow ==
    ASSUME BillTypes, NEW r \in BillReqs, ~AtRest(r), Done(r)
    PROVE  /\ billReq' \in [BillReqs -> BillRow] /\ \A p \in BillReqs \ {r} : billReq'[p] = billReq[p]
           /\ billReq'[r].todo = Tail(billReq[r].todo)
           /\ Tail(billReq[r].todo) # <<>> =>
                 /\ billReq'[r].event = billReq[r].event /\ billReq'[r].plan = billReq[r].plan
                 /\ billReq'[r].sub = billReq[r].sub
<1>1. billReq[r] \in BillRow /\ billReq[r].todo \in Todos /\ billReq[r].todo # <<>>
  BY BillRowFields DEF AtRest
<1>2. Tail(billReq[r].todo) \in Todos /\ (Len(billReq[r].todo) = 1 <=> Tail(billReq[r].todo) = <<>>)
  BY <1>1, TodoHead
<1>3. CASE Tail(billReq[r].todo) = <<>>
  <2>1. billReq' = [billReq EXCEPT ![r] = Idle]
    BY <1>2, <1>3 DEF Done
  <2> QED
    BY <1>3, <2>1, IdleRow DEF BillTypes
<1>4. CASE Tail(billReq[r].todo) # <<>>
  <2>1. PICK q \in BillRow : q = [billReq[r] EXCEPT !.todo = Tail(billReq[r].todo)]
    BY <1>1, <1>2 DEF BillRow
  <2>2. /\ q.todo = Tail(billReq[r].todo) /\ q.event = billReq[r].event /\ q.plan = billReq[r].plan
        /\ q.sub = billReq[r].sub
    BY <1>1, <2>1 DEF BillRow
  <2>3. billReq' = [billReq EXCEPT ![r] = q]
    <3>1. Len(billReq[r].todo) # 1 /\ billReq \in [BillReqs -> BillRow]
      BY <1>2, <1>4 DEF BillTypes
    <3>2. billReq' = [billReq EXCEPT ![r] = [billReq[r] EXCEPT !.todo = Tail(billReq[r].todo)]]
      BY <3>1 DEF Done
    <3> QED
      BY <2>1, <3>2, Zenon
  <2> QED
    BY <2>2, <2>3 DEF BillTypes
<1> QED
  BY <1>3, <1>4

\* Its next statement is executed.
LEMMA ExecuteKeeps ==
    ASSUME BillingInv, NEW r \in BillReqs, Execute(r)
    PROVE  BillingInv'
<1>0. BillTypes /\ BillCounts /\ OneAtWork /\ WorkFits
  BY BillParts
<1>a. PICK q \in BillRow : q = billReq[r]
  BY <1>0, BillRowFields
<1>b. PICK h : h = Head(q.todo)
  OBVIOUS
<1>c. PICK rest : rest = Tail(q.todo)
  OBVIOUS
<1>1. /\ ~AtRest(r) /\ Done(r) /\ q.todo # <<>> /\ UNCHANGED <<visits, gatewayVars, applied, overlap, billFaults>>
      /\ recorded' = IF h = "record" THEN recorded \union {q.event} ELSE recorded
      /\ plan' = IF h = "plan" THEN q.plan ELSE plan
      /\ sub' = IF h = "upsert" THEN [q.sub EXCEPT !.stripe = @ \/ sub.stripe] ELSE sub
      /\ org' = CASE h = "soft" -> IF org = "live" THEN "soft" ELSE org
                  [] h = "hard" -> "gone"
                  [] OTHER -> org
  BY <1>a, <1>b DEF Execute, AtRest
<1>2. q.todo \in Todos /\ q.plan \in Plans /\ q.sub \in Subs
  BY DEF BillRow
<1>3. /\ \A s : Does(q.todo, s) <=> h = s \/ Does(rest, s)
      /\ ~Does(rest, h)
  BY <1>1, <1>2, <1>b, <1>c, TodoHead
<1>4. /\ billReq' \in [BillReqs -> BillRow] /\ \A p \in BillReqs \ {r} : billReq'[p] = billReq[p]
      /\ billReq'[r].todo = rest
      /\ rest # <<>> => /\ billReq'[r].event = q.event /\ billReq'[r].plan = q.plan /\ billReq'[r].sub = q.sub
  BY <1>0, <1>1, <1>a, <1>c, DoneRow
<1>5. /\ sub' \in Subs /\ sub'.status = (IF h = "upsert" THEN q.sub ELSE sub).status
      /\ sub'.asTold = (IF h = "upsert" THEN q.sub ELSE sub).asTold
  <2>1. CASE h = "upsert"
    <3>1. PICK b \in BOOLEAN : b = (q.sub.stripe \/ sub.stripe)
      OBVIOUS
    <3>2. sub' = [q.sub EXCEPT !.stripe = b]
      BY <1>1, <2>1, <3>1
    <3> QED
      BY <1>2, <2>1, <3>2 DEF Subs
  <2>2. CASE h # "upsert"
    BY <1>0, <1>1, <2>2 DEF BillTypes
  <2> QED
    BY <2>1, <2>2
<1>6. h = "record" => q.event \in 1..MaxStripeEvents
  BY <1>0, <1>3, <1>a DEF BillCounts, EventsCounted
<1>7. BillTypes'
  <2>1. plan' \in Plans /\ recorded' \subseteq 1..MaxStripeEvents
    BY <1>0, <1>1, <1>2, <1>6 DEF BillTypes
  <2>2. org' \in {"live", "soft", "gone"}
    BY <1>0, <1>1 DEF BillTypes
  <2> QED
    BY <1>0, <1>1, <1>4, <1>5, <2>1, <2>2 DEF BillTypes, gatewayVars
<1>9. \A s : Does(rest, s) => rest # <<>>
  BY TodoDone
<1>10. \A n : n \notin recorded' => Recording(n)' = Recording(n)
  <2> SUFFICES ASSUME NEW n, n \notin recorded' PROVE Recording(n)' = Recording(n)
    OBVIOUS
  <2>1. r \in Recording(n)' <=> r \in Recording(n)
    <3>1. r \in Recording(n) <=> q.event = n /\ (h = "record" \/ Does(rest, "record"))
      BY <1>3, <1>a DEF Recording
    <3>2. r \in Recording(n)' <=> q.event = n /\ Does(rest, "record")
      BY <1>4, <1>9 DEF Recording
    <3>3. h = "record" => q.event # n
      BY <1>1
    <3> QED
      BY <3>1, <3>2, <3>3
  <2>2. \A p \in BillReqs \ {r} : p \in Recording(n)' <=> p \in Recording(n)
    BY <1>4 DEF Recording
  <2>3. Recording(n) \subseteq BillReqs /\ Recording(n)' \subseteq BillReqs
    BY DEF Recording
  <2> QED
    BY <2>1, <2>2, <2>3
<1>11. BillCounts'
  <2>1. EventsAppliedBound'
    BY <1>0, <1>1 DEF BillCounts, EventsAppliedBound
  <2>2. \A p \in BillReqs : Does(billReq'[p].todo, "record") => billReq'[p].event \in 1..MaxStripeEvents
    <3>1. \A p \in BillReqs : Does(billReq[p].todo, "record") => billReq[p].event \in 1..MaxStripeEvents
      BY <1>0 DEF BillCounts, EventsCounted
    <3>2. Does(rest, "record") => billReq'[r].event = q.event /\ q.event \in 1..MaxStripeEvents
      BY <1>3, <1>4, <1>9, <1>a, <3>1
    <3> QED
      BY <1>4, <3>1, <3>2
  <2>3. \A n \in 1..MaxStripeEvents \ recorded' : applied[n] <= Cardinality(Recording(n)') + billFaults
    <3>1. recorded \subseteq recorded'
      BY <1>1
    <3> QED
      BY <1>0, <1>10, <3>1 DEF BillCounts, EventsCounted
  <2> QED
    BY <1>1, <2>1, <2>2, <2>3 DEF BillCounts, EventsCounted
<1>12. OneAtWork'
  BY <1>0, <1>1, <1>4 DEF OneAtWork, AtRest
<1>13. WorkFits'
  <2> SUFFICES ASSUME ~overlap, billFaults = 0
               PROVE  /\ \A p \in BillReqs : AtRest(p)' \/ Fits(PlanAfter(p)', SubAfter(p)')
                      /\ (\A p \in BillReqs : AtRest(p)') => Fits(plan', sub')
    BY <1>1 DEF WorkFits
  <2>1. \A p \in BillReqs \ {r} : AtRest(p)'
    BY <1>0, <1>1, <1>4 DEF OneAtWork, AtRest
  <2>2. Fits(PlanAfter(r), SubAfter(r))
    BY <1>0, <1>1 DEF WorkFits
  <2>3. PlanAfter(r) = IF Does(rest, "plan") THEN q.plan ELSE plan'
    BY <1>1, <1>3, <1>5, <1>a DEF PlanAfter
  <2>x. /\ SubAfter(r).status = (IF Does(rest, "upsert") THEN q.sub ELSE sub').status
        /\ SubAfter(r).asTold = (IF Does(rest, "upsert") THEN q.sub ELSE sub').asTold
    BY <1>1, <1>3, <1>5, <1>a DEF SubAfter
  <2>4. CASE rest = <<>>
    <3>1. PlanAfter(r) = plan' /\ SubAfter(r).status = sub'.status /\ SubAfter(r).asTold = sub'.asTold
      BY <2>3, <2>x, <2>4, TodoDone
    <3>2. AtRest(r)'
      BY <1>4, <2>4 DEF AtRest
    <3> QED
      BY <2>1, <2>2, <3>1, <3>2 DEF Fits
  <2>5. CASE rest # <<>>
    <3>1. /\ PlanAfter(r)' = PlanAfter(r) /\ SubAfter(r)'.status = SubAfter(r).status
          /\ SubAfter(r)'.asTold = SubAfter(r).asTold
      BY <1>4, <2>3, <2>x, <2>5 DEF PlanAfter, SubAfter
    <3>2. ~AtRest(r)'
      BY <1>4, <2>5 DEF AtRest
    <3> QED
      BY <2>1, <2>2, <3>1, <3>2 DEF Fits
  <2> QED
    BY <2>4, <2>5
<1>14. (BillTypes /\ BillCounts /\ OneAtWork /\ WorkFits)' => BillingInv'
  BY BillParts, PTL
<1> QED
  BY <1>7, <1>11, <1>12, <1>13, <1>14

\* A statement fails or the process dies: what is lost is counted.
LEMMA BillFaultKeeps ==
    ASSUME BillingInv, NEW r \in BillReqs, StatementFails(r) \/ BillCrash(r)
    PROVE  BillingInv'
<1>0. BillTypes /\ BillCounts /\ OneAtWork /\ WorkFits
  BY BillParts
<1>1. /\ ~AtRest(r) /\ billFaults < MaxBillFaults /\ billFaults' = billFaults + 1
      /\ UNCHANGED <<plan, sub, org, visits, gateway, stripeEvents, recorded, applied, overlap>>
      /\ Done(r) \/ billReq' = [billReq EXCEPT ![r] = Idle]
  BY DEF StatementFails, BillCrash, gatewayVars
<1>2. /\ billFaults \in Nat /\ billFaults' \in 0..MaxBillFaults /\ billFaults' # 0
  BY <1>0, <1>1, BillingAssumption DEF BillTypes, BillingAssumption
<1>3. /\ billReq' \in [BillReqs -> BillRow] /\ \A p \in BillReqs \ {r} : billReq'[p] = billReq[p]
      /\ billReq'[r].todo = <<>> \/ /\ billReq'[r].todo = Tail(billReq[r].todo)
                                    /\ billReq'[r].event = billReq[r].event
  <2>1. CASE Done(r)
    BY <1>0, <1>1, <2>1, DoneRow
  <2>2. CASE billReq' = [billReq EXCEPT ![r] = Idle]
    BY <1>0, <2>2, IdleRow DEF BillTypes
  <2> QED
    BY <1>1, <2>1, <2>2
<1>4. BillTypes'
  BY <1>0, <1>1, <1>2, <1>3 DEF BillTypes
<1>5. Does(billReq'[r].todo, "record") => Does(billReq[r].todo, "record") /\ billReq'[r].event = billReq[r].event
  <2>1. billReq[r].todo \in Todos /\ billReq[r].todo # <<>>
    BY <1>0, <1>1, BillRowFields DEF AtRest
  <2> QED
    BY <1>3, <2>1, TodoDone, TodoHead
<1>6. ASSUME NEW n PROVE Cardinality(Recording(n)) <= Cardinality(Recording(n)') + 1
                         /\ Cardinality(Recording(n)') \in Nat /\ Cardinality(Recording(n)) \in Nat
  <2>1. Recording(n) \subseteq Recording(n)' \cup {r} /\ Recording(n)' \subseteq BillReqs
    BY <1>3 DEF Recording
  <2>2. IsFiniteSet(Recording(n)')
    BY <2>1, BillNumbers, FS_Subset, FS_CardinalityType
  <2>3. /\ IsFiniteSet(Recording(n)' \cup {r}) /\ Cardinality(Recording(n)') \in Nat
        /\ Cardinality(Recording(n)' \cup {r}) \in Nat
        /\ Cardinality(Recording(n)' \cup {r}) <= Cardinality(Recording(n)') + 1
    BY <2>2, FS_AddElement, FS_CardinalityType
  <2>4. Cardinality(Recording(n)) <= Cardinality(Recording(n)' \cup {r}) /\ Cardinality(Recording(n)) \in Nat
    BY <2>1, <2>3, FS_Subset, FS_CardinalityType
  <2> QED
    BY <2>3, <2>4
<1>7. BillCounts'
  <2>1. EventsAppliedBound'
    <3>1. \A n \in 1..MaxStripeEvents : applied[n] \in Nat /\ applied[n] <= Cardinality(BillReqs) + billFaults
      BY <1>0 DEF BillCounts, EventsAppliedBound, BillTypes
    <3>2. Cardinality(BillReqs) \in Nat
      BY BillNumbers
    <3> QED
      BY <1>1, <1>2, <3>1, <3>2 DEF EventsAppliedBound
  <2>2. \A p \in BillReqs : Does(billReq'[p].todo, "record") => billReq'[p].event \in 1..MaxStripeEvents
    BY <1>0, <1>3, <1>5 DEF BillCounts, EventsCounted
  <2>3. ASSUME NEW n \in 1..MaxStripeEvents \ recorded
        PROVE  applied[n] <= Cardinality(Recording(n)') + billFaults'
    <3>1. applied[n] \in Nat /\ applied[n] <= Cardinality(Recording(n)) + billFaults
      BY <1>0 DEF BillCounts, EventsCounted, BillTypes
    <3> QED
      BY <1>1, <1>2, <1>6, <3>1
  <2> QED
    BY <1>1, <2>1, <2>2, <2>3 DEF BillCounts, EventsCounted
<1>9. OneAtWork'
  BY <1>0, <1>1, <1>3 DEF OneAtWork, AtRest
<1>10. WorkFits'
  BY <1>2 DEF WorkFits
<1>11. (BillTypes /\ BillCounts /\ OneAtWork /\ WorkFits)' => BillingInv'
  BY BillParts, PTL
<1> QED
  BY <1>4, <1>7, <1>9, <1>10, <1>11

-----------------------------------------------------------------------------
\* Which of the handlers' lists records an event, writes the plan, the subscription.
LEMMA TodoLists ==
    /\ \A t \in {<<"record", "plan", "upsert">>, <<"upsert", "plan", "record">>} :
          t \in Todos /\ t # <<>> /\ Does(t, "record") /\ Does(t, "plan") /\ Does(t, "upsert")
    /\ \A t \in {<<"upsert", "record">>} :
          t \in Todos /\ t # <<>> /\ Does(t, "record") /\ ~Does(t, "plan") /\ Does(t, "upsert")
    /\ \A t \in {<<"plan", "upsert">>} :
          t \in Todos /\ t # <<>> /\ ~Does(t, "record") /\ Does(t, "plan") /\ Does(t, "upsert")
    /\ \A t \in {<<"upsert">>} :
          t \in Todos /\ t # <<>> /\ ~Does(t, "record") /\ ~Does(t, "plan") /\ Does(t, "upsert")
    /\ \A t \in {<<"plan">>} :
          t \in Todos /\ t # <<>> /\ ~Does(t, "record") /\ Does(t, "plan") /\ ~Does(t, "upsert")
    /\ \A t \in {<<"soft">>, <<"hard">>} :
          t \in Todos /\ t # <<>> /\ ~Does(t, "record") /\ ~Does(t, "plan") /\ ~Does(t, "upsert")
<1>1. ASSUME NEW x PROVE <<x>> # <<>> /\ \A s : Does(<<x>>, s) <=> s = x
  BY DEF Does
<1>2. ASSUME NEW x, NEW y PROVE <<x, y>> # <<>> /\ \A s : Does(<<x, y>>, s) <=> s = x \/ s = y
  <2>1. 1..2 = {1, 2}
    OBVIOUS
  <2> QED
    BY <2>1 DEF Does
<1>3. ASSUME NEW x, NEW y, NEW z
      PROVE  <<x, y, z>> # <<>> /\ \A s : Does(<<x, y, z>>, s) <=> s = x \/ s = y \/ s = z
  <2>1. 1..3 = {1, 2, 3}
    OBVIOUS
  <2> QED
    BY <2>1 DEF Does
<1>4. /\ <<"record", "plan", "upsert">> \in Todos /\ <<"upsert", "plan", "record">> \in Todos
      /\ <<"upsert", "record">> \in Todos /\ <<"plan", "upsert">> \in Todos /\ <<"upsert">> \in Todos
      /\ <<"plan">> \in Todos /\ <<"soft">> \in Todos /\ <<"hard">> \in Todos
  BY DEF Todos
<1>5. \A t \in {<<"record", "plan", "upsert">>, <<"upsert", "plan", "record">>} :
          t \in Todos /\ t # <<>> /\ Does(t, "record") /\ Does(t, "plan") /\ Does(t, "upsert")
  BY <1>3, <1>4
<1>6. \A t \in {<<"upsert", "record">>} :
          t \in Todos /\ t # <<>> /\ Does(t, "record") /\ ~Does(t, "plan") /\ Does(t, "upsert")
  BY <1>2, <1>4
<1>7. \A t \in {<<"plan", "upsert">>} :
          t \in Todos /\ t # <<>> /\ ~Does(t, "record") /\ Does(t, "plan") /\ Does(t, "upsert")
  BY <1>2, <1>4
<1>8. \A t \in {<<"upsert">>} :
          t \in Todos /\ t # <<>> /\ ~Does(t, "record") /\ ~Does(t, "plan") /\ Does(t, "upsert")
  BY <1>1, <1>4
<1>9. \A t \in {<<"plan">>} :
          t \in Todos /\ t # <<>> /\ ~Does(t, "record") /\ Does(t, "plan") /\ ~Does(t, "upsert")
  BY <1>1, <1>4
<1>10. \A t \in {<<"soft">>, <<"hard">>} :
          t \in Todos /\ t # <<>> /\ ~Does(t, "record") /\ ~Does(t, "plan") /\ ~Does(t, "upsert")
  BY <1>1, <1>4
<1> QED
  BY <1>5, <1>6, <1>7, <1>8, <1>9, <1>10

\* The handlers of Stripe's events.
LEMMA StripeKeeps ==
    ASSUME BillingInv, NEW r \in BillReqs, NEW n \in 1..MaxStripeEvents,
           \/ handleStripeCheckoutCompleted(r, n) \/ handleStripeSubscriptionUpdated(r, n)
           \/ handleStripeSubscriptionCanceled(r, n) \/ handleStripePaymentFailed(r, n)
    PROVE  BillingInv'
<1>0. BillTypes
  BY BillParts
<1>1. /\ applied' = [applied EXCEPT ![n] = @ + 1] /\ n \notin recorded
      /\ UNCHANGED <<plan, sub, org, recorded, billFaults, visits, gateway, stripeEvents>>
  BY DEF handleStripeCheckoutCompleted, handleStripeSubscriptionUpdated, handleStripeSubscriptionCanceled,
         handleStripePaymentFailed, NotSeen, Applies, Delivery, Acts, gatewayVars
<1>2. /\ visits' \in {"none", "back", "condemned"} /\ gateway' \in SubStatuses
      /\ stripeEvents' \in Seq(EventRow) /\ Len(stripeEvents') <= MaxStripeEvents
      /\ n \in 0..MaxStripeEvents
  BY <1>0, <1>1 DEF BillTypes
<1>3. CASE handleStripeCheckoutCompleted(r, n)
  <2>1. Begin(r, <<"record", "plan", "upsert">>, n, "pro", [status |-> "active", stripe |-> TRUE, asTold |-> FALSE], TRUE)
    BY <1>3 DEF handleStripeCheckoutCompleted
  <2>2. PICK s \in Subs : s = [status |-> "active", stripe |-> TRUE, asTold |-> FALSE]
    BY DEF Subs, SubStatuses
  <2>3. PICK t \in Todos : t = <<"record", "plan", "upsert">>
    BY TodoLists
  <2>4. t # <<>> /\ Does(t, "record") /\ Does(t, "plan") /\ Does(t, "upsert") /\ "pro" \in Plans
    BY <2>3, TodoLists DEF Plans
  <2>5. Begin(r, t, n, "pro", s, TRUE)
    BY <2>1, <2>2, <2>3
  <2>6. Fits(IF Does(t, "plan") THEN "pro" ELSE plan, IF Does(t, "upsert") THEN s ELSE sub)
    BY <2>2, <2>4 DEF Fits
  <2> QED
    BY <1>1, <1>2, <2>4, <2>5, <2>6, BillBeginKeeps
<1>4. CASE handleStripeSubscriptionCanceled(r, n)
  <2>1. Begin(r, <<"upsert", "plan", "record">>, n, "free", Judged("canceled"), FALSE)
    BY <1>4 DEF handleStripeSubscriptionCanceled
  <2>2. PICK s \in Subs : s = Judged("canceled")
    BY <1>0 DEF BillTypes, Subs, SubStatuses, Judged
  <2>3. PICK t \in Todos : t = <<"upsert", "plan", "record">>
    BY TodoLists
  <2>4. t # <<>> /\ Does(t, "record") /\ Does(t, "plan") /\ Does(t, "upsert") /\ "free" \in Plans
    BY <2>3, TodoLists DEF Plans
  <2>5. Begin(r, t, n, "free", s, FALSE)
    BY <2>1, <2>2, <2>3
  <2>6. Fits(IF Does(t, "plan") THEN "free" ELSE plan, IF Does(t, "upsert") THEN s ELSE sub)
    BY <2>4 DEF Fits
  <2> QED
    BY <1>1, <1>2, <2>4, <2>5, <2>6, BillBeginKeeps
<1>5. ASSUME NEW s \in Subs, s.status = "past_due" \/ s.asTold, Begin(r, <<"upsert", "record">>, n, plan, s, FALSE)
      PROVE  BillingInv'
  <2>1. PICK t \in Todos : t = <<"upsert", "record">>
    BY TodoLists
  <2>2. t # <<>> /\ Does(t, "record") /\ ~Does(t, "plan") /\ Does(t, "upsert") /\ plan \in Plans
    BY <1>0, <2>1, TodoLists DEF BillTypes
  <2>3. Begin(r, t, n, plan, s, FALSE)
    BY <1>5, <2>1
  <2>4. Fits(IF Does(t, "plan") THEN plan ELSE plan, IF Does(t, "upsert") THEN s ELSE sub)
    BY <1>5, <2>2 DEF Fits
  <2> QED
    BY <1>1, <1>2, <2>2, <2>3, <2>4, BillBeginKeeps
<1>6. CASE handleStripeSubscriptionUpdated(r, n)
  <2>1. /\ Begin(r, <<"upsert", "record">>, n, plan,
                 [sub EXCEPT !.status = stripeEvents[n].status, !.asTold = TRUE], FALSE)
        /\ n <= Len(stripeEvents)
    BY <1>6 DEF handleStripeSubscriptionUpdated, NotSeen
  <2>2. stripeEvents[n] \in EventRow
    BY <1>0, <2>1 DEF BillTypes
  <2>3. PICK status \in SubStatuses : status = stripeEvents[n].status
    BY <2>2 DEF EventRow
  <2>4. PICK s \in Subs : s = [sub EXCEPT !.status = status, !.asTold = TRUE]
    BY <1>0 DEF BillTypes, Subs
  <2>5. s.asTold /\ Begin(r, <<"upsert", "record">>, n, plan, s, FALSE)
    BY <1>0, <2>1, <2>3, <2>4 DEF BillTypes, Subs
  <2> QED
    BY <1>5, <2>5
<1>7. CASE handleStripePaymentFailed(r, n)
  <2>1. Begin(r, <<"upsert", "record">>, n, plan, Judged("past_due"), FALSE)
    BY <1>7 DEF handleStripePaymentFailed
  <2>2. PICK s \in Subs : s = Judged("past_due")
    BY <1>0 DEF BillTypes, Subs, SubStatuses, Judged
  <2>3. s.status = "past_due"
    BY <1>0, <2>2 DEF BillTypes, Subs, Judged
  <2> QED
    BY <1>5, <2>1, <2>2, <2>3
<1> QED
  BY <1>3, <1>4, <1>6, <1>7

\* The other writers.
LEMMA WriterKeeps ==
    ASSUME BillingInv, NEW r \in BillReqs,
           \/ PayUCallback(r) \/ CancelAtPeriodEnd(r) \/ CancelSubscription(r) \/ ExpireTrial(r)
           \/ DowngradePastDue(r) \/ SoftDeleteInactive(r) \/ HardDeleteExpired(r)
    PROVE  BillingInv'
<1>0. BillTypes
  BY BillParts
<1>1. /\ UNCHANGED <<plan, sub, org, recorded, billFaults, applied>>
      /\ visits' \in {"none", "back", "condemned"}
      /\ \/ UNCHANGED <<gateway, stripeEvents>>
         \/ /\ gateway' = "canceled" /\ Len(stripeEvents) < MaxStripeEvents
            /\ stripeEvents' = Append(stripeEvents, [type |-> "canceled", status |-> "canceled"])
  BY <1>0 DEF PayUCallback, CancelAtPeriodEnd, CancelSubscription, ExpireTrial, DowngradePastDue,
              SoftDeleteInactive, HardDeleteExpired, Delivery, Acts, gatewayVars, BillTypes
<1>2. gateway' \in SubStatuses
  BY <1>0, <1>1 DEF BillTypes, SubStatuses
<1>3. stripeEvents' \in Seq(EventRow) /\ Len(stripeEvents') <= MaxStripeEvents
  <2>1. CASE stripeEvents' = stripeEvents
    BY <1>0, <2>1 DEF BillTypes
  <2>2. CASE /\ Len(stripeEvents) < MaxStripeEvents
             /\ stripeEvents' = Append(stripeEvents, [type |-> "canceled", status |-> "canceled"])
    <3>1. PICK e \in EventRow : e = [type |-> "canceled", status |-> "canceled"]
      BY DEF EventRow, SubStatuses
    <3> QED
      BY <1>0, <2>2, <3>1, EventAppended
  <2> QED
    BY <1>1, <2>1, <2>2
<1>4. 0 \in 0..MaxStripeEvents
  BY BillingAssumption DEF BillingAssumption
<1>5. PICK s \in Subs : s = Judged("canceled")
  BY <1>0 DEF BillTypes, Subs, SubStatuses, Judged
<1>6. PICK a \in Subs : a = [status |-> "active", stripe |-> FALSE, asTold |-> FALSE]
  BY DEF Subs, SubStatuses
<1>7. plan \in Plans /\ sub \in Subs /\ "free" \in Plans /\ "pro" \in Plans
  BY <1>0 DEF BillTypes, Plans
<1>8. ASSUME NEW t \in {<<"plan", "upsert">>, <<"plan">>}, NEW z \in Subs, NEW must \in BOOLEAN,
             Begin(r, t, 0, "free", z, must)
      PROVE  BillingInv'
  <2>1. t \in Todos /\ t # <<>> /\ ~Does(t, "record") /\ Does(t, "plan")
    BY TodoLists
  <2>2. Fits(IF Does(t, "plan") THEN "free" ELSE plan, IF Does(t, "upsert") THEN z ELSE sub)
    BY <2>1 DEF Fits
  <2> QED
    BY <1>1, <1>2, <1>3, <1>4, <1>7, <1>8, <2>1, <2>2, BillBeginKeeps
<1>9. ASSUME NEW t \in {<<"upsert">>, <<"soft">>, <<"hard">>}, Begin(r, t, 0, plan, sub, FALSE)
      PROVE  BillingInv'
  <2>1. t \in Todos /\ t # <<>> /\ ~Does(t, "record") /\ ~Does(t, "plan")
    BY TodoLists
  <2>2. Fits(plan, sub) =>
           Fits(IF Does(t, "plan") THEN plan ELSE plan, IF Does(t, "upsert") THEN sub ELSE sub)
    OBVIOUS
  <2> QED
    BY <1>1, <1>2, <1>3, <1>4, <1>7, <1>9, <2>1, <2>2, BillBeginKeeps
<1>10. CASE PayUCallback(r)
  <2>1. PICK t \in Todos : t = <<"plan", "upsert">>
    BY TodoLists
  <2>2. t # <<>> /\ ~Does(t, "record") /\ Does(t, "plan") /\ Does(t, "upsert")
    BY <2>1, TodoLists
  <2>3. Begin(r, t, 0, "pro", a, TRUE)
    BY <1>6, <1>10, <2>1 DEF PayUCallback
  <2>4. Fits(IF Does(t, "plan") THEN "pro" ELSE plan, IF Does(t, "upsert") THEN a ELSE sub)
    BY <1>6, <2>2 DEF Fits
  <2> QED
    BY <1>1, <1>2, <1>3, <1>4, <1>7, <2>2, <2>3, <2>4, BillBeginKeeps
<1>11. CASE CancelSubscription(r) \/ DowngradePastDue(r) \/ ExpireTrial(r)
  BY <1>5, <1>7, <1>8, <1>11 DEF CancelSubscription, DowngradePastDue, ExpireTrial
<1>12. CASE CancelAtPeriodEnd(r) \/ SoftDeleteInactive(r) \/ HardDeleteExpired(r)
  BY <1>9, <1>12 DEF CancelAtPeriodEnd, SoftDeleteInactive, HardDeleteExpired
<1> QED
  BY <1>10, <1>11, <1>12

LEMMA BillKeep == BillingInv /\ [BillingNext]_billVars => BillingInv'
<1> SUFFICES ASSUME BillingInv, [BillingNext]_billVars PROVE BillingInv'
  OBVIOUS
<1>0. BillTypes
  BY BillParts
<1>1. ASSUME StripeCheckout \/ StripePaymentFails \/ StripeUpdates \/ StripeCancels PROVE BillingInv'
  <2>1. PICK type, status :
           /\ type \in {"checkout", "updated", "canceled", "failed"} /\ status \in SubStatuses
           /\ Emit(type, status)
    BY <1>1 DEF StripeCheckout, StripePaymentFails, StripeUpdates, StripeCancels, SubStatuses, Unended
  <2>2. PICK e \in EventRow : e = [type |-> type, status |-> status]
    BY <2>1 DEF EventRow
  <2>4. /\ Len(stripeEvents) < MaxStripeEvents /\ stripeEvents' = Append(stripeEvents, e) /\ gateway' = status
        /\ UNCHANGED <<plan, sub, org, visits, recorded, applied, billReq, overlap, billFaults>>
    BY <2>1, <2>2 DEF Emit
  <2>5. stripeEvents' \in Seq(EventRow) /\ Len(stripeEvents') <= MaxStripeEvents
    BY <1>0, <2>2, <2>4, EventAppended
  <2>6. visits' \in {"none", "back", "condemned"}
    BY <1>0, <2>4 DEF BillTypes
  <2> QED
    BY <2>1, <2>4, <2>5, <2>6, OutsideKeeps
<1>2. ASSUME MemberLogsIn \/ UNCHANGED billVars PROVE BillingInv'
  <2>1. /\ UNCHANGED <<plan, sub, org, recorded, applied, billReq, overlap, billFaults, gateway, stripeEvents>>
        /\ visits' \in {"none", "back", "condemned"}
    BY <1>0, <1>2 DEF MemberLogsIn, billVars, gatewayVars, BillTypes
  <2>2. gateway' \in SubStatuses /\ stripeEvents' \in Seq(EventRow) /\ Len(stripeEvents') <= MaxStripeEvents
    BY <1>0, <2>1 DEF BillTypes
  <2> QED
    BY <2>1, <2>2, OutsideKeeps
<1> QED
  BY <1>1, <1>2, StripeKeeps, WriterKeeps, ExecuteKeeps, BillFaultKeeps DEF BillingNext

\* Billing keeps its types and BillingInv: who acted on an event and has not recorded it
\* is counted, and a writer by itself leads to a plan that fits (billing.go, scheduler.go).
THEOREM BillingInductive == BillingSpec => []BillingInv
BY InitBilling, BillKeep, PTL DEF BillingSpec

\* However often and in whatever order Stripe delivers an event, it is acted on no more
\* often than handlers work at once and statements fail; and writers that came one after
\* another leave Pro only with a subscription behind it that is paid, past due or of the status
\* Stripe's last update gave (billing.go: HandleStripeWebhook).
THEOREM PlansAreSettled == BillingSpec => [](EventsAppliedBound /\ SettledPlan)
<1>1. BillingInv => EventsAppliedBound /\ SettledPlan
  BY DEF BillingInv
<1> QED
  BY <1>1, BillingInductive, PTL

-----------------------------------------------------------------------------
(***************************************************************************)
(* Clusters and their servers.                                               *)
(***************************************************************************)
ClusterRecord == [there : BOOLEAN, server : 0..MaxServers]
ClusterJobRow == [pc : JobSteps, id : ClusterIds, seen : 0..MaxServers, server : 0..MaxServers]

LEMMA ServerNumbers == /\ \A s \in ServerIds : s # 0 /\ s \in 0..MaxServers
                       /\ \A s \in 0..MaxServers : s # 0 => s \in ServerIds
BY ClustersAssumption DEF ServerIds, ClustersAssumption

LEMMA ClusterTypes ==
    ASSUME ClustersInv
    PROVE  /\ clusterRow \in [ClusterIds -> ClusterRecord]
           /\ hetzner \in [ServerIds -> {"none", "starting", "running", "deleted"}]
           /\ clusterJob \in [ClusterJobs -> ClusterJobRow]
           /\ letGo \subseteq ServerIds /\ clusterFaults \in 0..MaxClusterFaults
           /\ ServersAccounted /\ ServerHands
BY DEF ClustersInv, ClustersTypeOK, ClusterRecord, ClusterJobRow

LEMMA JobConstants ==
    ASSUME NEW c \in ClusterIds
    PROVE  /\ NoJob(c) \in ClusterJobRow /\ NoJob(c).pc = "idle" /\ NoJob(c).id = c
           /\ NoJob(c).seen = 0 /\ NoJob(c).server = 0
           /\ NoCluster \in ClusterRecord /\ ~NoCluster.there /\ NoCluster.server = 0
           /\ 0 \in 0..MaxServers /\ 0 \in 0..MaxClusterFaults /\ 0 \notin ServerIds
BY ClustersAssumption DEF NoJob, NoCluster, ClusterRecord, ClusterJobRow, JobSteps, ClustersAssumption, ServerIds

LEMMA InitClusters == ClustersInit => ClustersInv
<1> SUFFICES ASSUME ClustersInit PROVE ClustersInv
  OBVIOUS
<1>1. PICK c \in ClusterIds : clusterJob = [j \in ClusterJobs |-> NoJob(c)]
  BY DEF ClustersInit
<1>2. /\ clusterJob \in [ClusterJobs -> ClusterJobRow] /\ letGo \subseteq ServerIds
      /\ clusterRow \in [ClusterIds -> ClusterRecord] /\ hetzner \in [ServerIds -> {"none"}]
      /\ clusterFaults \in 0..MaxClusterFaults
  BY <1>1, JobConstants DEF ClustersInit
<1>3. ClustersTypeOK
  BY <1>2 DEF ClustersTypeOK, ClusterRecord, ClusterJobRow
<1>4. ServersAccounted
  BY <1>2 DEF ServersAccounted
<1>5. ServerHands
  BY <1>1, JobConstants DEF ServerHands, ClustersInit
<1> QED
  BY <1>3, <1>4, <1>5 DEF ClustersInv

\* A fault is counted within its bound.
LEMMA ClusterFaults ==
    ASSUME ClustersInv, ClusterFault \/ UNCHANGED clusterFaults
    PROVE  clusterFaults' \in 0..MaxClusterFaults
BY ClustersAssumption DEF ClustersInv, ClustersTypeOK, ClusterFault, ClustersAssumption

\* One job changes, and servers are let go of: what is to be shown of it.
LEMMA JobStep ==
    ASSUME ClustersInv, NEW j \in ClusterJobs, NEW q \in ClusterJobRow,
           clusterJob' = [clusterJob EXCEPT ![j] = q],
           ClusterFault \/ UNCHANGED clusterFaults,
           letGo' \subseteq ServerIds, letGo \subseteq letGo',
           clusterRow' \in [ClusterIds -> ClusterRecord],
           hetzner' \in [ServerIds -> {"none", "starting", "running", "deleted"}],
           \A c \in ClusterIds : ~clusterRow'[c].there => clusterRow'[c].server = 0,
           \A s \in ServerIds : hetzner[s] = "deleted" => hetzner'[s] = "deleted",
           \A s \in ServerIds : hetzner'[s] \in {"starting", "running"} =>
              \/ hetzner[s] \in {"starting", "running"} \/ q.server = s \/ s \in letGo',
           \A s \in ServerIds : hetzner'[s] \in {"starting", "running"} =>
              \/ ~\E c \in ClusterIds : clusterRow[c].server = s
              \/ \E c \in ClusterIds : clusterRow'[c].server = s
              \/ s \in letGo',
           clusterJob[j].server # 0 =>
              \/ q.server = clusterJob[j].server
              \/ \E c \in ClusterIds : clusterRow'[c].server = clusterJob[j].server
              \/ clusterJob[j].server \in letGo',
           q.pc \notin {"record server", "poll"} => q.server = 0,
           q.pc \in {"create server", "record server"} => q.seen = 0,
           q.pc = "poll" => q.seen = q.server,
           q.pc = "decommission" /\ q.seen # 0 => hetzner'[q.seen] = "deleted" \/ q.seen \in letGo'
    PROVE  ClustersInv'
<1>1. /\ clusterJob' \in [ClusterJobs -> ClusterJobRow] /\ clusterJob'[j] = q
      /\ \A i \in ClusterJobs \ {j} : clusterJob'[i] = clusterJob[i]
  BY ClusterTypes
<1>2. ClustersTypeOK'
  BY <1>1, ClusterFaults DEF ClustersTypeOK, ClusterRecord, ClusterJobRow
<1>3. ServersAccounted'
  <2> SUFFICES ASSUME NEW s \in ServerIds, hetzner'[s] \in {"starting", "running"}
               PROVE  \/ \E c \in ClusterIds : clusterRow'[c].server = s
                      \/ \E i \in ClusterJobs : clusterJob'[i].server = s
                      \/ s \in letGo'
    BY DEF ServersAccounted
  <2>0. s # 0
    BY ServerNumbers
  <2>1. CASE \E c \in ClusterIds : clusterRow[c].server = s
    BY <2>1
  <2>2. CASE \E i \in ClusterJobs : clusterJob[i].server = s
    BY <1>1, <2>0, <2>2, ZenonT(30)
  <2>3. CASE s \in letGo \/ q.server = s \/ s \in letGo'
    BY <1>1, <2>3
  <2> QED
    BY <2>1, <2>2, <2>3, ClusterTypes DEF ServersAccounted
<1>4. ServerHands'
  <2>1. ASSUME NEW i \in ClusterJobs, clusterJob'[i].pc = "decommission", clusterJob'[i].seen # 0
        PROVE  hetzner'[clusterJob'[i].seen] = "deleted" \/ clusterJob'[i].seen \in letGo'
    <3>1. CASE i = j
      BY <1>1, <2>1, <3>1
    <3>2. CASE i # j
      <4>1. clusterJob'[i] = clusterJob[i] /\ clusterJob[i] \in ClusterJobRow
        BY <1>1, <3>2, ClusterTypes
      <4>2. clusterJob[i].seen \in ServerIds
        BY <2>1, <4>1, ServerNumbers DEF ClusterJobRow
      <4>3. hetzner[clusterJob[i].seen] = "deleted" \/ clusterJob[i].seen \in letGo
        BY <2>1, <4>1, ClusterTypes DEF ServerHands
      <4> QED
        BY <4>1, <4>2, <4>3
    <3> QED
      BY <3>1, <3>2
  <2>2. \A i \in ClusterJobs :
          /\ clusterJob'[i].pc \notin {"record server", "poll"} => clusterJob'[i].server = 0
          /\ clusterJob'[i].pc \in {"create server", "record server"} => clusterJob'[i].seen = 0
          /\ clusterJob'[i].pc = "poll" => clusterJob'[i].seen = clusterJob'[i].server
    BY <1>1, ClusterTypes DEF ServerHands
  <2> QED
    BY <2>1, <2>2 DEF ServerHands
<1> QED
  BY <1>2, <1>3, <1>4 DEF ClustersInv

\* A write of the row, by a job that is then q.
LEMMA UpdateKeepsServers ==
    ASSUME ClustersInv, NEW j \in ClusterJobs, NEW q \in ClusterJobRow, NEW server \in 0..MaxServers,
           UpdateCluster(j, server), clusterJob' = [clusterJob EXCEPT ![j] = q],
           UNCHANGED <<hetzner, clusterFaults>>,
           q.server = clusterJob[j].server \/ server = clusterJob[j].server \/ clusterJob[j].server = 0,
           q.pc \in {"idle", "poll"}, q.seen = q.server, q.pc = "idle" => q.server = 0,
           \/ clusterJob[j].seen \in {0, server}
           \/ hetzner[clusterJob[j].seen] = "deleted" \/ clusterJob[j].seen \in letGo,
           q.server # 0 => server = q.server
    PROVE  ClustersInv'
<1> DEFINE c == clusterJob[j].id
           old == clusterRow[c].server
<1>0. /\ c \in ClusterIds /\ old \in 0..MaxServers /\ clusterRow[c] \in ClusterRecord
      /\ clusterRow[c].there \in BOOLEAN /\ clusterJob[j].seen \in 0..MaxServers
      /\ clusterJob[j].server \in 0..MaxServers
  BY ClusterTypes DEF ClusterRecord, ClusterJobRow
<1>h. hetzner' = hetzner /\ clusterFaults' = clusterFaults
  OBVIOUS
<1>n. \A s \in 0..MaxServers : s # 0 => s \in ServerIds
  BY ServerNumbers
<1>1. CASE ~clusterRow[c].there
  <2>1. clusterRow' = clusterRow /\ letGo' = letGo \cup ({server} \ {0})
    BY <1>1 DEF UpdateCluster, LetGo
  <2>2. letGo' \subseteq ServerIds /\ letGo \subseteq letGo' /\ (server # 0 => server \in letGo')
    BY <2>1, <1>n, ClusterTypes
  <2>3. clusterJob[j].server # 0 => q.server = clusterJob[j].server \/ clusterJob[j].server \in letGo'
    BY <2>2
  <2>4. \A d \in ClusterIds : ~clusterRow'[d].there => clusterRow'[d].server = 0
    BY <2>1, ClusterTypes DEF ServerHands
  <2> QED
    BY <1>h, <2>1, <2>2, <2>3, <2>4, ClusterTypes, JobStep
<1>2. CASE clusterRow[c].there
  <2>1. clusterRow' = [clusterRow EXCEPT ![c].server = server]
    BY <1>2 DEF UpdateCluster
  <2>2. IF old \notin {server, clusterJob[j].seen} THEN letGo' = letGo \cup ({old} \ {0}) ELSE letGo' = letGo
    BY <1>2 DEF UpdateCluster, LetGo
  <2>3. /\ letGo' \subseteq ServerIds /\ letGo \subseteq letGo'
        /\ old \in {server, clusterJob[j].seen} \/ old = 0 \/ old \in letGo'
    BY <2>2, <1>n, <1>0, ClusterTypes
  <2>4. /\ clusterRow'[c].server = server /\ clusterRow'[c].there = clusterRow[c].there
        /\ clusterRow'[c] \in ClusterRecord
        /\ \A d \in ClusterIds \ {c} : clusterRow'[d] = clusterRow[d]
        /\ clusterRow' \in [ClusterIds -> ClusterRecord]
    BY <2>1, <1>0, ClusterTypes DEF ClusterRecord
  <2>5. \A d \in ClusterIds : ~clusterRow'[d].there => clusterRow'[d].server = 0
    BY <2>4, <1>2, ClusterTypes DEF ServerHands
  <2>6. ASSUME NEW s \in ServerIds, hetzner[s] \in {"starting", "running"},
               NEW d \in ClusterIds, clusterRow[d].server = s
        PROVE  (\E e \in ClusterIds : clusterRow'[e].server = s) \/ s \in letGo'
    <3>1. CASE d # c
      BY <2>4, <2>6, <3>1
    <3>2. CASE d = c
      <4>1. s # 0 /\ s = old
        BY <2>6, <3>2, ServerNumbers
      <4>2. CASE s = server
        BY <1>0, <2>4, <4>2
      <4>3. CASE s # server
        BY <2>3, <2>6, <4>1, <4>3
      <4> QED
        BY <4>2, <4>3
    <3> QED
      BY <3>1, <3>2
  <2>7. clusterJob[j].server # 0 =>
           q.server = clusterJob[j].server \/ \E d \in ClusterIds : clusterRow'[d].server = clusterJob[j].server
    BY <1>0, <2>4
  <2> HIDE DEF c, old
  <2> QED
    BY <1>h, <2>3, <2>4, <2>5, <2>6, <2>7, ClusterTypes, JobStep
<1> QED
  BY <1>1, <1>2

\* WriteRow: what the row gets is what the job has, or what it saw in the row.
LEMMA WriteKeepsServers ==
    ASSUME ClustersInv, NEW j \in ClusterJobs, NEW server \in 0..MaxServers, WriteRow(j, server),
           server = clusterJob[j].server \/ clusterJob[j].server = 0,
           \/ clusterJob[j].seen \in {0, server}
           \/ hetzner[clusterJob[j].seen] = "deleted" \/ clusterJob[j].seen \in letGo
    PROVE  ClustersInv'
<1> DEFINE q == NoJob(clusterJob[j].id)
<1>0. clusterJob[j] \in ClusterJobRow /\ clusterJob[j].id \in ClusterIds /\ clusterJob[j].server \in 0..MaxServers
  BY ClusterTypes DEF ClusterJobRow
<1>1. q \in ClusterJobRow /\ q.pc = "idle" /\ q.seen = 0 /\ q.server = 0
  BY <1>0, JobConstants
<1>2. clusterJob' = [clusterJob EXCEPT ![j] = q] /\ hetzner' = hetzner
  BY DEF WriteRow, JobDone
<1> HIDE DEF q
<1>3. CASE UpdateCluster(j, server) /\ UNCHANGED clusterFaults
  BY <1>1, <1>2, <1>3, UpdateKeepsServers
<1>4. CASE ClusterFault /\ LetGo(clusterJob[j].server) /\ UNCHANGED clusterRow
  <2>1. clusterRow' = clusterRow /\ letGo' = letGo \cup ({clusterJob[j].server} \ {0}) /\ ClusterFault
    BY <1>4 DEF LetGo
  <2>2. /\ letGo' \subseteq ServerIds /\ letGo \subseteq letGo'
        /\ clusterJob[j].server # 0 => clusterJob[j].server \in letGo'
    BY <1>0, <2>1, ClusterTypes, ServerNumbers
  <2>3. \A d \in ClusterIds : ~clusterRow'[d].there => clusterRow'[d].server = 0
    BY <2>1, ClusterTypes DEF ServerHands
  <2> QED
    BY <1>1, <1>2, <2>1, <2>2, <2>3, ClusterTypes, JobStep
<1> QED
  BY <1>3, <1>4 DEF WriteRow

\* A job takes up or changes its work; row and servers stay.
LEMMA WorkKeepsServers ==
    ASSUME ClustersInv, NEW j \in ClusterJobs, NEW q \in ClusterJobRow,
           clusterJob' = [clusterJob EXCEPT ![j] = q], UNCHANGED <<clusterRow, hetzner, letGo>>,
           ClusterFault \/ UNCHANGED clusterFaults,
           clusterJob[j].server # 0 => q.server = clusterJob[j].server,
           q.pc \notin {"record server", "poll"} => q.server = 0,
           q.pc \in {"create server", "record server"} => q.seen = 0,
           q.pc = "poll" => q.seen = q.server,
           q.pc # "decommission"
    PROVE  ClustersInv'
<1>1. clusterRow' = clusterRow /\ hetzner' = hetzner /\ letGo' = letGo
  OBVIOUS
<1>2. \A d \in ClusterIds : ~clusterRow'[d].there => clusterRow'[d].server = 0
  BY <1>1, ClusterTypes DEF ServerHands
<1> QED
  BY <1>1, <1>2, ClusterTypes, JobStep

LEMMA ReadKeepsServers ==
    ASSUME ClustersInv, NEW j \in ClusterJobs, NEW c \in ClusterIds, NEW pc \in JobSteps,
           ReadCluster(j, c, pc), pc \notin {"record server", "poll", "decommission"},
           pc = "create server" => clusterRow[c].server = 0
    PROVE  ClustersInv'
<1> DEFINE q == [NoJob(c) EXCEPT !.pc = pc, !.seen = clusterRow[c].server]
<1>1. /\ clusterJob' = [clusterJob EXCEPT ![j] = q] /\ UNCHANGED <<clusterRow, hetzner, letGo, clusterFaults>>
      /\ clusterJob[j].pc = "idle"
  BY DEF ReadCluster, Doing
<1>2. clusterRow[c].server \in 0..MaxServers
  BY ClusterTypes DEF ClusterRecord
<1>3. q \in ClusterJobRow /\ q.pc = pc /\ q.seen = clusterRow[c].server /\ q.server = 0
  BY <1>2, JobConstants DEF NoJob, ClusterJobRow
<1>4. clusterJob[j].server = 0
  BY <1>1, ClusterTypes DEF ServerHands
<1> HIDE DEF q
<1> QED
  BY <1>1, <1>3, <1>4, WorkKeepsServers

LEMMA CreateClusterKeeps ==
    ASSUME ClustersInv, NEW j \in ClusterJobs, NEW c \in ClusterIds, CreateCluster(j, c)
    PROVE  ClustersInv'
<1> DEFINE q == [NoJob(c) EXCEPT !.pc = "first health"]
<1>1. /\ clusterJob' = [clusterJob EXCEPT ![j] = q] /\ clusterJob[j].pc = "idle"
      /\ clusterRow' = [clusterRow EXCEPT ![c].there = TRUE]
      /\ hetzner' = hetzner /\ letGo' = letGo /\ clusterFaults' = clusterFaults
  BY DEF CreateCluster, Doing
<1>2. q \in ClusterJobRow /\ q.pc = "first health" /\ q.seen = 0 /\ q.server = 0
  BY JobConstants DEF NoJob, ClusterJobRow, JobSteps
<1>3. clusterJob[j].server = 0
  BY <1>1, ClusterTypes DEF ServerHands
<1>4. /\ clusterRow' \in [ClusterIds -> ClusterRecord] /\ clusterRow'[c].there
      /\ \A d \in ClusterIds : clusterRow'[d].server = clusterRow[d].server
      /\ \A d \in ClusterIds \ {c} : clusterRow'[d] = clusterRow[d]
  BY <1>1, ClusterTypes DEF ClusterRecord
<1>5. \A d \in ClusterIds : ~clusterRow'[d].there => clusterRow'[d].server = 0
  BY <1>4, ClusterTypes DEF ServerHands
<1> HIDE DEF q
<1> QED
  BY <1>1, <1>2, <1>3, <1>4, <1>5, ClusterTypes, JobStep, ZenonT(30)

LEMMA CreateServerKeeps ==
    ASSUME ClustersInv, NEW j \in ClusterJobs, CreateServer(j)
    PROVE  ClustersInv'
<1>0. clusterJob[j] \in ClusterJobRow /\ clusterJob[j].id \in ClusterIds /\ clusterJob[j].pc = "create server"
  BY ClusterTypes DEF ClusterJobRow, CreateServer, Doing
<1>1. clusterJob[j].server = 0 /\ clusterJob[j].seen = 0
  BY <1>0, ClusterTypes DEF ServerHands
<1>2. PICK s \in ServerIds :
         /\ hetzner[s] = "none" /\ hetzner' = [hetzner EXCEPT ![s] = "starting"]
         /\ \/ /\ clusterJob' = [clusterJob EXCEPT ![j].pc = "record server", ![j].server = s]
               /\ letGo' = letGo /\ clusterFaults' = clusterFaults
            \/ ClusterFault /\ JobDone(j) /\ LetGo(s)
  BY DEF CreateServer
<1>3. clusterRow' = clusterRow
  BY DEF CreateServer
<1>4. /\ hetzner' \in [ServerIds -> {"none", "starting", "running", "deleted"}] /\ hetzner'[s] = "starting"
      /\ \A r \in ServerIds \ {s} : hetzner'[r] = hetzner[r]
      /\ s \in 0..MaxServers /\ s # 0
  BY <1>2, ClusterTypes, ServerNumbers
<1>5. \A d \in ClusterIds : ~clusterRow'[d].there => clusterRow'[d].server = 0
  BY <1>3, ClusterTypes DEF ServerHands
<1>6. CASE clusterJob' = [clusterJob EXCEPT ![j].pc = "record server", ![j].server = s]
           /\ letGo' = letGo /\ clusterFaults' = clusterFaults
  <2>0. [clusterJob[j] EXCEPT !.pc = "record server", !.server = s] \in ClusterJobRow
    BY <1>0, <1>4 DEF ClusterJobRow, JobSteps
  <2>1. PICK q \in ClusterJobRow : q = [clusterJob[j] EXCEPT !.pc = "record server", !.server = s]
    BY <2>0
  <2>2. /\ clusterJob' = [clusterJob EXCEPT ![j] = q]
        /\ q.pc = "record server" /\ q.server = s /\ q.seen = 0
    BY <1>0, <1>1, <1>6, <2>1, ClusterTypes DEF ClusterJobRow
  <2>3. letGo' \subseteq ServerIds /\ letGo \subseteq letGo' /\ UNCHANGED clusterFaults
    BY <1>6, ClusterTypes
  <2>4. \A r \in ServerIds : /\ hetzner[r] = "deleted" => hetzner'[r] = "deleted"
                             /\ hetzner'[r] \in {"starting", "running"} =>
                                   hetzner[r] \in {"starting", "running"} \/ q.server = r
    BY <1>2, <1>4, <2>2
  <2>5. /\ clusterRow' \in [ClusterIds -> ClusterRecord]
        /\ \A r \in ServerIds : \/ ~\E c \in ClusterIds : clusterRow[c].server = r
                                \/ \E c \in ClusterIds : clusterRow'[c].server = r
    BY <1>3, ClusterTypes
  <2>6. /\ q.pc \notin {"record server", "poll"} => q.server = 0
        /\ q.pc \in {"create server", "record server"} => q.seen = 0
        /\ q.pc = "poll" => q.seen = q.server
        /\ q.pc # "decommission"
    BY <2>2
  <2> QED
    BY <1>1, <1>4, <1>5, <2>2, <2>3, <2>4, <2>5, <2>6, JobStep
<1>7. CASE ClusterFault /\ JobDone(j) /\ LetGo(s)
  <2> DEFINE q == NoJob(clusterJob[j].id)
  <2>1. clusterJob' = [clusterJob EXCEPT ![j] = q] /\ letGo' = letGo \cup ({s} \ {0})
    BY <1>7 DEF JobDone, LetGo
  <2>2. q \in ClusterJobRow /\ q.pc = "idle" /\ q.server = 0 /\ q.seen = 0
    BY <1>0, JobConstants
  <2>3. letGo' \subseteq ServerIds /\ letGo \subseteq letGo' /\ s \in letGo'
    BY <1>4, <2>1, ClusterTypes
  <2> HIDE DEF q
  <2> QED
    BY <1>1, <1>2, <1>3, <1>4, <1>5, <1>7, <2>1, <2>2, <2>3, ClusterTypes, JobStep
<1> QED
  BY <1>2, <1>6, <1>7

LEMMA RecordServerKeeps ==
    ASSUME ClustersInv, NEW j \in ClusterJobs, RecordServer(j)
    PROVE  ClustersInv'
<1> DEFINE s == clusterJob[j].server
           q == [clusterJob[j] EXCEPT !.pc = "poll", !.seen = s]
<1>0. clusterJob[j] \in ClusterJobRow /\ clusterJob[j].pc = "record server" /\ s \in 0..MaxServers
  BY ClusterTypes DEF ClusterJobRow, RecordServer, Doing
<1>1. clusterJob[j].seen = 0
  BY <1>0, ClusterTypes DEF ServerHands
<1>2. clusterJob' = [clusterJob EXCEPT ![j] = q] /\ hetzner' = hetzner
  BY ClusterTypes DEF RecordServer
<1>3. q \in ClusterJobRow /\ q.pc = "poll" /\ q.seen = s /\ q.server = s
  BY <1>0 DEF ClusterJobRow, JobSteps
<1> HIDE DEF q
<1>4. CASE UpdateCluster(j, s) /\ UNCHANGED clusterFaults
  BY <1>0, <1>1, <1>2, <1>3, <1>4, UpdateKeepsServers
<1>5. CASE ClusterFault /\ UNCHANGED <<clusterRow, letGo>>
  BY <1>0, <1>2, <1>3, <1>5, WorkKeepsServers
<1> QED
  BY <1>4, <1>5 DEF RecordServer

LEMMA DeleteServerKeeps ==
    ASSUME ClustersInv, NEW j \in ClusterJobs, DeleteServer(j)
    PROVE  ClustersInv'
<1> DEFINE s == clusterJob[j].seen
           q == [clusterJob[j] EXCEPT !.pc = "decommission"]
<1>0. clusterJob[j] \in ClusterJobRow /\ clusterJob[j].pc = "delete server" /\ s \in 0..MaxServers
  BY ClusterTypes DEF ClusterJobRow, DeleteServer, Doing
<1>1. clusterJob[j].server = 0
  BY <1>0, ClusterTypes DEF ServerHands
<1>2. clusterJob' = [clusterJob EXCEPT ![j] = q] /\ clusterRow' = clusterRow
  BY ClusterTypes DEF DeleteServer
<1>3. q \in ClusterJobRow /\ q.pc = "decommission" /\ q.seen = s /\ q.server = 0
  BY <1>0, <1>1 DEF ClusterJobRow, JobSteps
<1>4. s # 0 => s \in ServerIds
  BY <1>0, ServerNumbers
<1>5. \A d \in ClusterIds : ~clusterRow'[d].there => clusterRow'[d].server = 0
  BY <1>2, ClusterTypes DEF ServerHands
<1> HIDE DEF q
<1>6. CASE hetzner' = (IF s = 0 THEN hetzner ELSE [hetzner EXCEPT ![s] = "deleted"])
           /\ UNCHANGED <<letGo, clusterFaults>>
  <2>1. /\ hetzner' \in [ServerIds -> {"none", "starting", "running", "deleted"}]
        /\ \A r \in ServerIds : hetzner'[r] = hetzner[r] \/ hetzner'[r] = "deleted"
        /\ s # 0 => hetzner'[s] = "deleted"
    BY <1>4, <1>6, ClusterTypes
  <2>2. letGo' = letGo /\ clusterFaults' = clusterFaults
    BY <1>6
  <2> QED
    BY <1>1, <1>2, <1>3, <1>5, <2>1, <2>2, ClusterTypes, JobStep
<1>7. CASE s # 0 /\ ClusterFault /\ LetGo(s) /\ UNCHANGED hetzner
  <2>1. letGo' = letGo \cup ({s} \ {0}) /\ hetzner' = hetzner
    BY <1>7 DEF LetGo
  <2>2. letGo' \subseteq ServerIds /\ letGo \subseteq letGo' /\ s \in letGo'
    BY <1>4, <1>7, <2>1, ClusterTypes
  <2> QED
    BY <1>1, <1>2, <1>3, <1>5, <1>7, <2>1, <2>2, ClusterTypes, JobStep
<1> QED
  BY <1>6, <1>7 DEF DeleteServer

LEMMA ClustersKeep == ClustersInv /\ [ClustersNext]_clusterVars => ClustersInv'
<1> SUFFICES ASSUME ClustersInv, [ClustersNext]_clusterVars PROVE ClustersInv'
  OBVIOUS
<1>1. CASE UNCHANGED clusterVars
  BY <1>1 DEF clusterVars, ClustersInv, ClustersTypeOK, ServersAccounted, ServerHands
<1>2. ASSUME NEW j \in ClusterJobs, Serves(j) PROVE ClustersInv'
  <2>1. PICK c \in ClusterIds : \/ CreateCluster(j, c) \/ Health(j, c) \/ ClusterUpdate(j, c)
                                \/ Provision(j, c) \/ Deprovision(j, c)
    BY <1>2 DEF Serves
  <2>2. CASE CreateCluster(j, c)
    BY <2>2, CreateClusterKeeps
  <2>3. CASE Health(j, c) \/ ClusterUpdate(j, c) \/ Provision(j, c) \/ Deprovision(j, c)
    BY <2>3, ReadKeepsServers DEF Health, ClusterUpdate, Provision, Deprovision, JobSteps
  <2> QED
    BY <2>1, <2>2, <2>3
<1>3. ASSUME NEW j \in ClusterJobs, Proceeds(j) PROVE ClustersInv'
  <2>0. clusterJob[j] \in ClusterJobRow /\ clusterJob[j].seen \in 0..MaxServers
        /\ clusterJob[j].server \in 0..MaxServers /\ clusterJob[j].id \in ClusterIds
    BY ClusterTypes DEF ClusterJobRow
  <2>1. CASE checkClusterHealth(j) \/ ClusterUpdateWrites(j)
             \/ (Doing(j, "health") /\ WriteRow(j, clusterJob[j].seen))
    <3>1. clusterJob[j].server = 0 /\ WriteRow(j, clusterJob[j].seen)
      BY <2>1, ClusterTypes DEF checkClusterHealth, ClusterUpdateWrites, Doing, ServerHands
    <3> QED
      BY <2>0, <3>1, WriteKeepsServers
  <2>2. CASE Doing(j, "health") /\ JobDone(j) /\ UNCHANGED <<clusterRow, hetzner, letGo, clusterFaults>>
    <3> DEFINE q == NoJob(clusterJob[j].id)
    <3>1. clusterJob[j].server = 0 /\ clusterJob' = [clusterJob EXCEPT ![j] = q]
      BY <2>2, ClusterTypes DEF Doing, ServerHands, JobDone
    <3>2. q \in ClusterJobRow /\ q.pc = "idle" /\ q.server = 0
      BY <2>0, JobConstants
    <3> HIDE DEF q
    <3> QED
      BY <2>2, <3>1, <3>2, WorkKeepsServers
  <2>3. CASE pollServerProvisioning(j)
    <3>1. clusterJob[j].seen = clusterJob[j].server /\ WriteRow(j, clusterJob[j].server)
      BY <2>3, ClusterTypes DEF pollServerProvisioning, Doing, ServerHands
    <3> QED
      BY <2>0, <3>1, WriteKeepsServers
  <2>4. CASE DecommissionCluster(j)
    <3>1. clusterJob[j].pc = "decommission" /\ WriteRow(j, 0) /\ 0 \in 0..MaxServers
      BY <2>0, <2>4, JobConstants DEF DecommissionCluster, Doing
    <3>2. /\ clusterJob[j].server = 0
          /\ \/ clusterJob[j].seen = 0
             \/ hetzner[clusterJob[j].seen] = "deleted" \/ clusterJob[j].seen \in letGo
      BY <3>1, ClusterTypes DEF ServerHands
    <3> QED
      BY <3>1, <3>2, WriteKeepsServers
  <2>5. CASE CreateServer(j) \/ RecordServer(j) \/ DeleteServer(j)
    BY <2>5, CreateServerKeeps, RecordServerKeeps, DeleteServerKeeps
  <2> QED
    BY <1>3, <2>1, <2>2, <2>3, <2>4, <2>5 DEF Proceeds, HealthWrites
<1>4. ASSUME NEW c \in ClusterIds, DeleteCluster(c) PROVE ClustersInv'
  <2>1. /\ clusterRow' = [clusterRow EXCEPT ![c] = NoCluster]
        /\ letGo' = letGo \cup ({clusterRow[c].server} \ {0})
        /\ hetzner' = hetzner /\ clusterJob' = clusterJob /\ clusterFaults' = clusterFaults
    BY <1>4 DEF DeleteCluster, LetGo
  <2>2. clusterRow[c].server \in 0..MaxServers
    BY ClusterTypes DEF ClusterRecord
  <2>3. /\ letGo' \subseteq ServerIds /\ letGo \subseteq letGo'
        /\ clusterRow[c].server # 0 => clusterRow[c].server \in letGo'
    BY <2>1, <2>2, ClusterTypes, ServerNumbers
  <2>4. /\ clusterRow' \in [ClusterIds -> ClusterRecord] /\ clusterRow'[c] = NoCluster
        /\ \A d \in ClusterIds \ {c} : clusterRow'[d] = clusterRow[d]
    BY <2>1, ClusterTypes, JobConstants
  <2>5. ClustersTypeOK'
    BY <2>1, <2>3, <2>4, ClusterTypes DEF ClustersTypeOK, ClusterRecord, ClusterJobRow
  <2>6. ServersAccounted'
    BY <2>1, <2>3, <2>4, ClusterTypes, JobConstants DEF ServersAccounted
  <2>7. ServerHands'
    BY <2>1, <2>3, <2>4, ClusterTypes, JobConstants DEF ServerHands
  <2> QED
    BY <2>5, <2>6, <2>7 DEF ClustersInv
<1>5. ASSUME NEW s \in ServerIds, ServerRuns(s) PROVE ClustersInv'
  <2>1. /\ hetzner[s] = "starting" /\ hetzner' = [hetzner EXCEPT ![s] = "running"]
        /\ UNCHANGED <<clusterRow, clusterJob, letGo, clusterFaults>>
    BY <1>5 DEF ServerRuns
  <2>2. /\ hetzner' \in [ServerIds -> {"none", "starting", "running", "deleted"}]
        /\ \A r \in ServerIds : hetzner'[r] = hetzner[r] \/ (r = s /\ hetzner'[r] = "running")
    BY <2>1, ClusterTypes
  <2>3. ClustersTypeOK' /\ ServersAccounted'
    BY <2>1, <2>2, ClusterTypes DEF ClustersTypeOK, ClustersInv, ServersAccounted
  <2>4. \A j \in ClusterJobs : clusterJob[j].pc = "decommission" /\ clusterJob[j].seen # 0 =>
           hetzner'[clusterJob[j].seen] = "deleted" \/ clusterJob[j].seen \in letGo
    <3> SUFFICES ASSUME NEW j \in ClusterJobs, clusterJob[j].pc = "decommission", clusterJob[j].seen # 0,
                        clusterJob[j].seen \notin letGo
                 PROVE  hetzner'[clusterJob[j].seen] = "deleted"
      OBVIOUS
    <3>1. hetzner[clusterJob[j].seen] = "deleted"
      BY ClusterTypes DEF ServerHands
    <3>2. clusterJob[j].seen \in ServerIds
      BY ClusterTypes, ServerNumbers DEF ClusterJobRow
    <3> QED
      BY <2>1, <2>2, <3>1, <3>2
  <2>5. ServerHands'
    BY <2>1, <2>4, ClusterTypes DEF ServerHands
  <2> QED
    BY <2>3, <2>5 DEF ClustersInv
<1>6. CASE PortalRestarts
  <2>1. /\ ClusterFault /\ clusterJob' = [j \in ClusterJobs |-> NoJob(clusterJob[j].id)]
        /\ letGo' = letGo \cup ({clusterJob[j].server : j \in ClusterJobs} \ {0})
        /\ clusterRow' = clusterRow /\ hetzner' = hetzner
    BY <1>6 DEF PortalRestarts
  <2>2. \A j \in ClusterJobs : clusterJob[j].id \in ClusterIds /\ clusterJob[j].server \in 0..MaxServers
    BY ClusterTypes DEF ClusterJobRow
  <2>3. \A j \in ClusterJobs : clusterJob'[j] \in ClusterJobRow /\ clusterJob'[j].pc = "idle"
                               /\ clusterJob'[j].server = 0
    BY <2>1, <2>2, JobConstants
  <2>4. clusterJob' \in [ClusterJobs -> ClusterJobRow]
    BY <2>1, <2>3
  <2>5. /\ letGo' \subseteq ServerIds /\ letGo \subseteq letGo'
        /\ \A j \in ClusterJobs : clusterJob[j].server # 0 => clusterJob[j].server \in letGo'
    BY <2>1, <2>2, ClusterTypes, ServerNumbers
  <2>6. ClustersTypeOK'
    BY <2>1, <2>4, <2>5, ClusterTypes, ClusterFaults DEF ClustersTypeOK, ClusterRecord, ClusterJobRow
  <2>7. \A s \in ServerIds : s # 0
    BY ServerNumbers
  <2>8. ServersAccounted'
    BY <2>1, <2>5, <2>7, ClusterTypes DEF ServersAccounted
  <2>9. ServerHands'
    BY <2>1, <2>3, ClusterTypes DEF ServerHands
  <2> QED
    BY <2>6, <2>8, <2>9 DEF ClustersInv
<1> QED
  BY <1>1, <1>2, <1>3, <1>4, <1>5, <1>6 DEF ClustersNext

\* A server that runs is named by a row, in the hands of a request, or let go of for a
\* reason the code names (clusters.go: Provision, pollServerProvisioning).
THEOREM ServersAreAccountedFor == ClustersSpec => []ServersAccounted
<1>1. ClustersInv => ServersAccounted
  BY DEF ClustersInv
<1> QED
  BY <1>1, InitClusters, ClustersKeep, PTL DEF ClustersSpec

-----------------------------------------------------------------------------
(***************************************************************************)
(* The configuration of a cluster.                                           *)
(***************************************************************************)
ConfigEditRow == [pc : ConfigSteps, config : SUBSET ConfigEdits, version : Nat]
SnapshotRow == [version : Nat \ {0}, config : SUBSET ConfigEdits]

LEMMA ConfigTypes ==
    ASSUME ClusterConfigInv
    PROVE  /\ liveConfig \subseteq ConfigEdits /\ snapshots \subseteq SnapshotRow
           /\ configEdit \in [ConfigEdits -> ConfigEditRow]
           /\ kept \subseteq ConfigEdits /\ alongside \subseteq ConfigEdits /\ astray \in BOOLEAN
           /\ configFaults \in 0..MaxConfigFaults
           /\ ConfigEditsKept /\ ConfigShape
BY DEF ClusterConfigInv, ClusterConfigTypeOK, ConfigEditRow, SnapshotRow

LEMMA InitConfig == ClusterConfigInit => ClusterConfigInv
<1> SUFFICES ASSUME ClusterConfigInit PROVE ClusterConfigInv
  OBVIOUS
<1>1. /\ configEdit \in [ConfigEdits -> ConfigEditRow]
      /\ \A e \in ConfigEdits : configEdit[e].pc = "new"
  BY DEF ClusterConfigInit, ConfigEditRow, ConfigSteps
<1>2. astray \in BOOLEAN /\ configFaults \in 0..MaxConfigFaults
  <2>1. astray \in BOOLEAN
    BY DEF ClusterConfigInit
  <2>2. configFaults \in 0..MaxConfigFaults
    BY ConfigAssumption DEF ClusterConfigInit, ConfigAssumption
  <2> QED
    BY <2>1, <2>2
<1>3. ClusterConfigTypeOK
  BY <1>1, <1>2 DEF ClusterConfigInit, ClusterConfigTypeOK, ConfigEditRow
<1>4. ConfigEditsKept
  BY DEF ClusterConfigInit, ConfigEditsKept, Latest
<1>5. ConfigShape
  BY <1>1 DEF ClusterConfigInit, ConfigShape, ConfigBusy
<1> QED
  BY <1>3, <1>4, <1>5 DEF ClusterConfigInv

LEMMA ConfigFaults ==
    ASSUME ClusterConfigInv, ConfigFault \/ UNCHANGED configFaults
    PROVE  configFaults' \in 0..MaxConfigFaults
BY ConfigAssumption DEF ClusterConfigInv, ClusterConfigTypeOK, ConfigFault, ConfigAssumption

\* One update goes on: what is to be shown of it.
LEMMA EditMoves ==
    ASSUME ClusterConfigInv, NEW e \in ConfigEdits, NEW q \in ConfigEditRow,
           configEdit' = [configEdit EXCEPT ![e] = q]
    PROVE  /\ configEdit' \in [ConfigEdits -> ConfigEditRow] /\ configEdit'[e] = q
           /\ \A d \in ConfigEdits \ {e} : configEdit'[d] = configEdit[d]
           /\ ConfigBusy' \subseteq ConfigBusy \cup {e}
           /\ \A d \in ConfigEdits \ {e} : d \in ConfigBusy' <=> d \in ConfigBusy
           /\ e \in ConfigBusy' <=> q.pc \in {"number", "store", "push"}
<1>1. /\ configEdit' \in [ConfigEdits -> ConfigEditRow] /\ configEdit'[e] = q
      /\ \A d \in ConfigEdits \ {e} : configEdit'[d] = configEdit[d]
  BY ConfigTypes
<1> QED
  BY <1>1 DEF ConfigBusy

\* An update begins.
LEMMA UpdateBegins ==
    ASSUME ClusterConfigInv, NEW e \in ConfigEdits, ConfigUpdate(e)
    PROVE  ClusterConfigInv'
<1> DEFINE busy == {d \in ConfigEdits : configEdit[d].pc \notin {"new", "done"}}
<1>0. busy = ConfigBusy
  <2>1. \A d \in ConfigEdits : configEdit[d].pc \in ConfigSteps
    BY ConfigTypes DEF ConfigEditRow
  <2> QED
    BY <2>1 DEF ConfigBusy, ConfigSteps
<1>1. /\ configEdit[e].pc = "new"
      /\ alongside' = IF busy = {} THEN alongside ELSE alongside \cup busy \cup {e}
      /\ liveConfig' = liveConfig /\ snapshots' = snapshots /\ kept' = kept
      /\ astray' \in BOOLEAN
      /\ ~astray' => ~astray
      /\ ConfigFault \/ UNCHANGED configFaults
  <2>1. astray' = astray \/ astray' = TRUE
    BY DEF ConfigUpdate
  <2>2. astray' \in BOOLEAN /\ (~astray' => ~astray)
    <3>1. astray \in BOOLEAN
      BY ConfigTypes
    <3>2. CASE astray' = TRUE
      BY <3>2
    <3>3. CASE astray' = astray
      <4>1. astray' \in BOOLEAN
        BY <3>1, <3>3
      <4>2. ~astray' => ~astray
        BY <3>3
      <4> QED
        BY <4>1, <4>2
    <3> QED
      BY <2>1, <3>2, <3>3
  <2>3. ConfigFault \/ UNCHANGED configFaults
    BY DEF ConfigUpdate
  <2>4. /\ configEdit[e].pc = "new"
        /\ alongside' = IF busy = {} THEN alongside ELSE alongside \cup busy \cup {e}
        /\ liveConfig' = liveConfig /\ snapshots' = snapshots /\ kept' = kept
    BY DEF ConfigUpdate, ConfigAt
  <2> QED
    BY <2>2, <2>3, <2>4
<1>2. PICK base \in SUBSET ConfigEdits :
         /\ configEdit' = [configEdit EXCEPT ![e].pc = "number", ![e].config = base \cup {e}]
         /\ \/ base = liveConfig \/ \E s \in Latest : base = s.config
            \/ (snapshots = {} \/ astray') /\ base = {}
  <2>1. \A s \in Latest : s.config \in SUBSET ConfigEdits
    BY ConfigTypes DEF Latest, SnapshotRow
  <2>2. CASE configEdit' = [configEdit EXCEPT ![e].pc = "number", ![e].config = liveConfig \cup {e}]
    BY <2>2, ConfigTypes
  <2>3. CASE \E s \in Latest : configEdit' = [configEdit EXCEPT ![e].pc = "number", ![e].config = s.config \cup {e}]
    BY <2>1, <2>3
  <2>4. CASE /\ astray' = IF snapshots = {} THEN astray ELSE TRUE
             /\ configEdit' = [configEdit EXCEPT ![e].pc = "number", ![e].config = {} \cup {e}]
    BY <2>4
  <2> QED
    BY <2>2, <2>3, <2>4 DEF ConfigUpdate
<1>3. [configEdit[e] EXCEPT !.pc = "number", !.config = base \cup {e}] \in ConfigEditRow
  <2>1. configEdit[e] \in ConfigEditRow /\ base \cup {e} \in SUBSET ConfigEdits /\ "number" \in ConfigSteps
    BY ConfigTypes DEF ConfigSteps
  <2> QED
    BY <2>1 DEF ConfigEditRow
<1>4. PICK q \in ConfigEditRow : q = [configEdit[e] EXCEPT !.pc = "number", !.config = base \cup {e}]
  BY <1>3
<1>5. /\ configEdit' = [configEdit EXCEPT ![e] = q] /\ q.pc = "number" /\ q.config = base \cup {e}
      /\ q.version = configEdit[e].version
  BY <1>2, <1>4, ConfigTypes DEF ConfigEditRow
<1>6. /\ configEdit' \in [ConfigEdits -> ConfigEditRow] /\ configEdit'[e] = q
      /\ \A d \in ConfigEdits \ {e} : configEdit'[d] = configEdit[d]
      /\ ConfigBusy' \subseteq ConfigBusy \cup {e}
  BY <1>5, EditMoves
<1>7. /\ alongside \subseteq alongside' /\ alongside' \subseteq ConfigEdits
      /\ ConfigBusy # {} => ConfigBusy \cup {e} \subseteq alongside'
      /\ alongside' = {} => ConfigBusy = {} /\ alongside = {}
  BY <1>0, <1>1, ConfigTypes
<1>8. e \notin kept
  BY <1>1, ConfigTypes DEF ConfigShape
<1> HIDE DEF busy
<1>9. ClusterConfigTypeOK'
  BY <1>1, <1>6, <1>7, ConfigTypes, ConfigFaults DEF ClusterConfigTypeOK, ConfigEditRow, SnapshotRow
<1>10. Latest' = Latest
  BY <1>1 DEF Latest
<1>11. ASSUME alongside' = {}, ~astray'
       PROVE  /\ \A s \in Latest : kept \subseteq s.config
              /\ \A d \in ConfigEdits : configEdit[d].pc \notin {"number", "store", "push"}
              /\ kept \subseteq liveConfig /\ kept \subseteq base
  <2>1. alongside = {} /\ ConfigBusy = {} /\ ~astray
    BY <1>1, <1>7, <1>11
  <2>2. \A d \in ConfigEdits : configEdit[d].pc \notin {"number", "store", "push"}
    BY <2>1 DEF ConfigBusy
  <2>3. kept \subseteq liveConfig
    BY <2>1, <2>2, ConfigTypes DEF ConfigShape
  <2>4. \A s \in Latest : kept \subseteq s.config
    BY <2>1, ConfigTypes DEF ConfigEditsKept
  <2>5. snapshots = {} => kept = {}
    BY ConfigTypes DEF ConfigShape
  <2> QED
    BY <1>2, <1>11, <2>2, <2>3, <2>4, <2>5
<1>12. ConfigEditsKept'
  <2>1. alongside' = {} /\ ~astray' => /\ \A s \in Latest : kept \subseteq s.config /\ kept \subseteq liveConfig
    BY <1>11
  <2>2. \A c, d \in kept \ alongside' : c # d => configEdit'[c].version # configEdit'[d].version
    <3>1. \A c, d \in kept \ alongside : c # d => configEdit[c].version # configEdit[d].version
      BY ConfigTypes DEF ConfigEditsKept
    <3>2. \A c \in kept : configEdit'[c] = configEdit[c]
      BY <1>6, <1>8, ConfigTypes
    <3> QED
      BY <1>7, <3>1, <3>2
  <2>3. \A s \in Latest : alongside' = {} /\ ~astray' => kept \subseteq s.config
    BY <1>11
  <2> QED
    BY <1>1, <1>10, <1>11, <2>2, <2>3 DEF ConfigEditsKept
<1>13. ConfigShape'
  <2>1. \A c, d \in ConfigBusy' : c = d \/ d \in alongside'
    BY <1>6, <1>7, ConfigTypes DEF ConfigShape
  <2>2. \A d \in ConfigEdits : d \in kept' =>
           /\ configEdit'[d].pc \in {"push", "done"} /\ \E s \in snapshots' : s.version = configEdit'[d].version
    BY <1>1, <1>6, <1>8, ConfigTypes DEF ConfigShape
  <2>3. \A d \in ConfigEdits \ alongside' : configEdit'[d].pc = "store" =>
           \A s \in snapshots' : s.version < configEdit'[d].version
    <3>1. \A d \in ConfigEdits \ alongside : configEdit[d].pc = "store" =>
             \A s \in snapshots : s.version < configEdit[d].version
      BY ConfigTypes DEF ConfigShape
    <3> QED
      BY <1>1, <1>5, <1>6, <1>7, <3>1
  <2>4. \A d \in ConfigBusy' : d \in configEdit'[d].config
    BY <1>5, <1>6, ConfigTypes DEF ConfigShape, ConfigBusy
  <2>5. ASSUME alongside' = {}, ~astray'
        PROVE  /\ \A d \in ConfigBusy' : kept' \subseteq configEdit'[d].config
               /\ kept' \subseteq liveConfig'
    <3>1. \A d \in ConfigBusy' : d = e
      BY <1>6, <1>7, <2>5
    <3> QED
      BY <1>1, <1>5, <1>6, <1>11, <2>5, <3>1
  <2>6. \A d \in ConfigEdits : configEdit'[d].pc = "store" => configEdit'[d].version # 0
    BY <1>5, <1>6, ConfigTypes DEF ConfigShape
  <2> QED
    BY <2>1, <2>2, <2>3, <2>4, <2>5, <2>6 DEF ConfigShape
<1> QED
  BY <1>9, <1>12, <1>13 DEF ClusterConfigInv

\* An update that has stored nothing yet gets its number, or ends.
LEMMA NumberKeeps ==
    ASSUME ClusterConfigInv, NEW e \in ConfigEdits, configEdit[e].pc \in {"number", "store"},
           NEW q \in ConfigEditRow, configEdit' = [configEdit EXCEPT ![e] = q],
           q.pc \in {"store", "done"}, q.config = configEdit[e].config,
           q.pc = "store" => q.version # 0 /\ \A s \in snapshots : s.version < q.version,
           UNCHANGED <<liveConfig, snapshots, kept, alongside, astray>>,
           ConfigFault \/ UNCHANGED configFaults
    PROVE  ClusterConfigInv'
<1>1. /\ configEdit' \in [ConfigEdits -> ConfigEditRow] /\ configEdit'[e] = q
      /\ \A d \in ConfigEdits \ {e} : configEdit'[d] = configEdit[d]
      /\ ConfigBusy' \subseteq ConfigBusy /\ e \in ConfigBusy
  <2>1. e \in ConfigBusy
    BY DEF ConfigBusy
  <2> QED
    BY <2>1, EditMoves
<1>2. /\ liveConfig' = liveConfig /\ snapshots' = snapshots /\ kept' = kept /\ alongside' = alongside
      /\ astray' = astray /\ Latest' = Latest
  BY DEF Latest
<1>3. e \notin kept /\ \A d \in kept : d \in ConfigEdits /\ configEdit'[d] = configEdit[d]
  BY <1>1, ConfigTypes DEF ConfigShape
<1>4. ClusterConfigTypeOK'
  BY <1>1, <1>2, ConfigTypes, ConfigFaults DEF ClusterConfigTypeOK, ConfigEditRow, SnapshotRow
<1>5. ASSUME alongside = {}, ~astray
      PROVE  /\ \A d \in ConfigBusy : kept \subseteq configEdit[d].config /\ d = e
             /\ kept \subseteq liveConfig /\ \A s \in Latest : kept \subseteq s.config
  <2>1. \A d \in ConfigBusy : kept \subseteq configEdit[d].config /\ d = e
    BY <1>1, <1>5, ConfigTypes DEF ConfigShape
  <2>2. \A d \in ConfigEdits : configEdit[d].pc # "push"
    <3>1. \A d \in ConfigEdits : configEdit[d].pc = "push" => d \in ConfigBusy
      BY DEF ConfigBusy
    <3> QED
      BY <2>1, <3>1
  <2> QED
    BY <1>5, <2>1, <2>2, ConfigTypes DEF ConfigShape, ConfigEditsKept
<1>6. ConfigEditsKept'
  <2>1. \A c, d \in kept \ alongside : c # d => configEdit'[c].version # configEdit'[d].version
    BY <1>3, ConfigTypes DEF ConfigEditsKept
  <2> QED
    BY <1>2, <1>5, <2>1 DEF ConfigEditsKept
<1>7. ConfigShape'
  <2>1. \A c, d \in ConfigBusy' : c = d \/ d \in alongside'
    BY <1>1, <1>2, ConfigTypes DEF ConfigShape
  <2>2. \A d \in ConfigEdits : d \in kept' =>
           /\ configEdit'[d].pc \in {"push", "done"} /\ \E s \in snapshots' : s.version = configEdit'[d].version
    BY <1>2, <1>3, ConfigTypes DEF ConfigShape
  <2>3. \A d \in ConfigEdits \ alongside' : configEdit'[d].pc = "store" =>
           \A s \in snapshots' : s.version < configEdit'[d].version
    <3>1. \A d \in ConfigEdits \ alongside : configEdit[d].pc = "store" =>
             \A s \in snapshots : s.version < configEdit[d].version
      BY ConfigTypes DEF ConfigShape
    <3> QED
      BY <1>1, <1>2, <3>1
  <2>4. \A d \in ConfigBusy' : d \in configEdit'[d].config
    BY <1>1, ConfigTypes DEF ConfigShape, ConfigBusy
  <2>5. ASSUME alongside' = {}, ~astray'
        PROVE  /\ \A d \in ConfigBusy' : kept' \subseteq configEdit'[d].config
               /\ kept' \subseteq liveConfig'
    BY <1>1, <1>2, <1>5, <2>5
  <2>6. \A d \in ConfigEdits : configEdit'[d].pc = "store" => configEdit'[d].version # 0
    BY <1>1, ConfigTypes DEF ConfigShape
  <2> QED
    BY <2>1, <2>2, <2>3, <2>4, <2>5, <2>6 DEF ConfigShape
<1> QED
  BY <1>4, <1>6, <1>7 DEF ClusterConfigInv

\* The snapshot is stored.
LEMMA InsertKeepsConfig ==
    ASSUME ClusterConfigInv, NEW e \in ConfigEdits, configEdit[e].pc = "store",
           snapshots' = snapshots \cup {[version |-> configEdit[e].version, config |-> configEdit[e].config]},
           kept' = kept \cup {e}, configEdit' = [configEdit EXCEPT ![e].pc = "push"],
           UNCHANGED <<liveConfig, alongside, astray, configFaults>>,
           configEdit[e].version # 0
    PROVE  ClusterConfigInv'
<1> DEFINE new == [version |-> configEdit[e].version, config |-> configEdit[e].config]
<1>0. configEdit[e] \in ConfigEditRow /\ configEdit[e].version \in Nat /\ configEdit[e].config \in SUBSET ConfigEdits
  BY ConfigTypes DEF ConfigEditRow
<1>1. [configEdit[e] EXCEPT !.pc = "push"] \in ConfigEditRow
  BY <1>0 DEF ConfigEditRow, ConfigSteps
<1>2. PICK q \in ConfigEditRow : q = [configEdit[e] EXCEPT !.pc = "push"]
  BY <1>1
<1>3. /\ configEdit' = [configEdit EXCEPT ![e] = q] /\ q.pc = "push"
      /\ q.config = configEdit[e].config /\ q.version = configEdit[e].version
  BY <1>0, <1>2, ConfigTypes DEF ConfigEditRow
<1>4. /\ configEdit' \in [ConfigEdits -> ConfigEditRow] /\ configEdit'[e] = q
      /\ \A d \in ConfigEdits \ {e} : configEdit'[d] = configEdit[d]
      /\ ConfigBusy' \subseteq ConfigBusy /\ e \in ConfigBusy
  <2>1. e \in ConfigBusy
    BY DEF ConfigBusy
  <2> QED
    BY <1>3, <2>1, EditMoves, ZenonT(30)
<1>5. PICK r \in SnapshotRow : r.version = configEdit[e].version /\ r.config = configEdit[e].config
                               /\ snapshots' = snapshots \cup {r}
  <2>1. new \in SnapshotRow /\ new.version = configEdit[e].version /\ new.config = configEdit[e].config
    BY <1>0 DEF SnapshotRow
  <2> QED
    BY <2>1
<1>6. liveConfig' = liveConfig /\ alongside' = alongside /\ astray' = astray /\ configFaults' = configFaults
  OBVIOUS
<1>7. snapshots' \subseteq SnapshotRow /\ kept' \subseteq ConfigEdits
  BY <1>5, ConfigTypes
<1>8. ClusterConfigTypeOK'
  BY <1>4, <1>6, <1>7, ConfigTypes DEF ClusterConfigTypeOK, ConfigEditRow, SnapshotRow
<1>9. e \notin alongside => \A s \in snapshots : s.version < r.version
  BY <1>5, ConfigTypes DEF ConfigShape
<1>10. e \in configEdit[e].config
  BY <1>4, ConfigTypes DEF ConfigShape
<1>11. ASSUME alongside = {}, ~astray
       PROVE  /\ kept' \subseteq r.config /\ \A s \in Latest' : s = r
              /\ \A d \in ConfigBusy : d = e
  <2>1. kept \subseteq configEdit[e].config /\ \A d \in ConfigBusy : d = e
    BY <1>4, <1>11, ConfigTypes DEF ConfigShape
  <2>2. ASSUME NEW s \in Latest' PROVE s = r
    <3>1. s \in snapshots \cup {r} /\ r.version <= s.version
      BY <1>5, <2>2 DEF Latest
    <3>2. \A t \in snapshots : t.version \in Nat /\ t.version < r.version
      BY <1>9, <1>11, ConfigTypes DEF SnapshotRow
    <3>3. r.version \in Nat
      BY <1>0, <1>5
    <3> QED
      BY <3>1, <3>2, <3>3
  <2> QED
    BY <1>5, <1>10, <2>1, <2>2
<1>12. ASSUME NEW c \in kept' \ alongside, NEW d \in kept' \ alongside, c # d
       PROVE  configEdit'[c].version # configEdit'[d].version
  <2>0. \A x \in ConfigEdits : configEdit'[x].version = configEdit[x].version
    BY <1>3, <1>4
  <2>1. c \in ConfigEdits /\ d \in ConfigEdits
    BY <1>7, <1>12
  <2>2. \A x \in kept : x # e => \E s \in snapshots : s.version = configEdit[x].version
    BY ConfigTypes DEF ConfigShape
  <2>3. \A s \in snapshots : s.version \in Nat
    BY ConfigTypes DEF SnapshotRow
  <2>4. CASE c = e \/ d = e
    <3>1. e \notin alongside
      BY <1>12, <2>4
    <3>2. \A x \in kept : x # e => configEdit[x].version \in Nat /\ configEdit[x].version < configEdit[e].version
      BY <1>5, <1>9, <2>2, <2>3, <3>1
    <3>3. \A x \in kept : x # e => configEdit[x].version # configEdit[e].version
      BY <1>0, <3>2
    <3> QED
      BY <1>12, <2>0, <2>1, <2>4, <3>3
  <2>5. CASE c # e /\ d # e
    <3>1. c \in kept \ alongside /\ d \in kept \ alongside
      BY <1>12, <2>5
    <3>2. configEdit[c].version # configEdit[d].version
      BY <1>12, <3>1, ConfigTypes DEF ConfigEditsKept
    <3> QED
      BY <2>0, <2>1, <3>2
  <2> QED
    BY <2>4, <2>5
<1>13. ConfigEditsKept'
  <2>1. alongside' = {} /\ ~astray' =>
          /\ \A s \in Latest' : kept' \subseteq s.config
          /\ ~\A d \in ConfigEdits : configEdit'[d].pc \in {"new", "done"}
    BY <1>3, <1>4, <1>6, <1>11
  <2> QED
    BY <1>6, <1>12, <2>1 DEF ConfigEditsKept
<1>14. ConfigShape'
  <2>1. \A c, d \in ConfigBusy' : c = d \/ d \in alongside'
    BY <1>4, <1>6, ConfigTypes DEF ConfigShape
  <2>2. ASSUME NEW d \in ConfigEdits, d \in kept'
        PROVE  /\ configEdit'[d].pc \in {"push", "done"} /\ \E s \in snapshots' : s.version = configEdit'[d].version
    <3>1. CASE d = e
      BY <1>3, <1>4, <1>5, <3>1
    <3>2. CASE d # e
      BY <1>4, <1>5, <2>2, <3>2, ConfigTypes DEF ConfigShape
    <3> QED
      BY <3>1, <3>2
  <2>3. ASSUME NEW d \in ConfigEdits \ alongside', configEdit'[d].pc = "store", NEW s \in snapshots'
        PROVE  s.version < configEdit'[d].version
    <3>1. d # e
      BY <1>3, <1>4, <2>3
    <3>2. d \in ConfigBusy
      BY <1>4, <2>3, <3>1 DEF ConfigBusy
    <3> QED
      BY <1>4, <1>6, <2>3, <3>1, <3>2, ConfigTypes DEF ConfigShape
  <2>4. \A d \in ConfigBusy' : d \in configEdit'[d].config
    BY <1>3, <1>4, ConfigTypes DEF ConfigShape, ConfigBusy
  <2>5. ASSUME alongside' = {}, ~astray'
        PROVE  /\ \A d \in ConfigBusy' : kept' \subseteq configEdit'[d].config
               /\ configEdit'[e].pc = "push"
    BY <1>3, <1>4, <1>5, <1>6, <1>11, <2>5
  <2>6. \A d \in ConfigEdits : configEdit'[d].pc = "store" => configEdit'[d].version # 0
    BY <1>3, <1>4, ConfigTypes DEF ConfigShape
  <2> QED
    BY <2>1, <2>2, <2>3, <2>4, <2>5, <2>6 DEF ConfigShape
<1> QED
  BY <1>8, <1>13, <1>14 DEF ClusterConfigInv

\* The configuration is pushed, or not.
LEMMA PushKeeps ==
    ASSUME ClusterConfigInv, NEW e \in ConfigEdits, PushConfig(e)
    PROVE  ClusterConfigInv'
<1>0. configEdit[e] \in ConfigEditRow /\ configEdit[e].pc = "push" /\ configEdit[e].config \subseteq ConfigEdits
  BY ConfigTypes DEF ConfigEditRow, PushConfig, ConfigAt
<1>1. [configEdit[e] EXCEPT !.pc = "done"] \in ConfigEditRow
  BY <1>0 DEF ConfigEditRow, ConfigSteps
<1>2. PICK q \in ConfigEditRow : q = [configEdit[e] EXCEPT !.pc = "done"]
  BY <1>1
<1>3. /\ configEdit' = [configEdit EXCEPT ![e] = q] /\ q.pc = "done"
      /\ q.config = configEdit[e].config /\ q.version = configEdit[e].version
  BY <1>0, <1>2, ConfigTypes DEF ConfigEditRow, PushConfig, ConfigEnd
<1>4. /\ configEdit' \in [ConfigEdits -> ConfigEditRow] /\ configEdit'[e] = q
      /\ \A d \in ConfigEdits \ {e} : configEdit'[d] = configEdit[d]
      /\ ConfigBusy' \subseteq ConfigBusy /\ e \in ConfigBusy /\ e \notin ConfigBusy'
  <2>1. e \in ConfigBusy
    BY <1>0 DEF ConfigBusy
  <2> QED
    BY <1>3, <2>1, EditMoves
<1>5. /\ snapshots' = snapshots /\ kept' = kept /\ alongside' = alongside /\ Latest' = Latest
      /\ \/ liveConfig' = configEdit[e].config /\ astray' = astray
         \/ astray' = TRUE /\ liveConfig' = liveConfig
      /\ ConfigFault \/ UNCHANGED configFaults
  BY DEF PushConfig, Latest
<1>6. ClusterConfigTypeOK'
  <2>1. astray' \in BOOLEAN
    BY <1>5, ConfigTypes
  <2>2. liveConfig' \subseteq ConfigEdits
    BY <1>0, <1>5, ConfigTypes
  <2> QED
    BY <1>4, <1>5, <2>1, <2>2, ConfigTypes, ConfigFaults DEF ClusterConfigTypeOK, ConfigEditRow, SnapshotRow
<1>7. ASSUME alongside = {}, ~astray'
      PROVE  /\ ~astray /\ kept \subseteq liveConfig' /\ \A d \in ConfigBusy : d = e
             /\ \A s \in Latest : kept \subseteq s.config
  <2>1. ~astray /\ liveConfig' = configEdit[e].config
    BY <1>5, <1>7
  <2>2. kept \subseteq configEdit[e].config /\ \A d \in ConfigBusy : d = e
    BY <1>4, <1>7, <2>1, ConfigTypes DEF ConfigShape
  <2>3. \A s \in Latest : kept \subseteq s.config
    BY <1>7, <2>1, ConfigTypes DEF ConfigEditsKept
  <2> QED
    BY <2>1, <2>2, <2>3
<1>8. \A x \in ConfigEdits : configEdit'[x].version = configEdit[x].version /\ configEdit'[x].config = configEdit[x].config
  BY <1>3, <1>4
<1>9. ConfigEditsKept'
  <2>1. \A c, d \in kept \ alongside : c # d => configEdit'[c].version # configEdit'[d].version
    BY <1>8, ConfigTypes DEF ConfigEditsKept
  <2> QED
    BY <1>5, <1>7, <2>1 DEF ConfigEditsKept
<1>10. ConfigShape'
  <2>1. \A c, d \in ConfigBusy' : c = d \/ d \in alongside'
    BY <1>4, <1>5, ConfigTypes DEF ConfigShape
  <2>2. \A d \in ConfigEdits : d \in kept' =>
           /\ configEdit'[d].pc \in {"push", "done"} /\ \E s \in snapshots' : s.version = configEdit'[d].version
    BY <1>3, <1>4, <1>5, <1>8, ConfigTypes DEF ConfigShape
  <2>3. \A d \in ConfigEdits \ alongside' : configEdit'[d].pc = "store" =>
           \A s \in snapshots' : s.version < configEdit'[d].version
    BY <1>3, <1>4, <1>5, ConfigTypes DEF ConfigShape
  <2>4. \A d \in ConfigBusy' : d \in configEdit'[d].config
    BY <1>4, <1>8, ConfigTypes DEF ConfigShape, ConfigBusy
  <2>5. ASSUME alongside' = {}, ~astray'
        PROVE  /\ \A d \in ConfigBusy' : kept' \subseteq configEdit'[d].config
               /\ kept' \subseteq liveConfig'
    BY <1>4, <1>5, <1>7, <2>5
  <2>6. \A d \in ConfigEdits : configEdit'[d].pc = "store" => configEdit'[d].version # 0
    BY <1>3, <1>4, ConfigTypes DEF ConfigShape
  <2> QED
    BY <2>1, <2>2, <2>3, <2>4, <2>5, <2>6 DEF ConfigShape
<1> QED
  BY <1>6, <1>9, <1>10 DEF ClusterConfigInv

LEMMA ConfigKeep == ClusterConfigInv /\ [ClusterConfigNext]_configVars => ClusterConfigInv'
<1> SUFFICES ASSUME ClusterConfigInv, [ClusterConfigNext]_configVars PROVE ClusterConfigInv'
  OBVIOUS
<1>1. CASE UNCHANGED configVars
  <2>1. ClusterConfigTypeOK' /\ ConfigEditsKept'
    BY <1>1 DEF configVars, ClusterConfigInv, ClusterConfigTypeOK, ConfigEditsKept, Latest
  <2>2. ConfigShape'
    BY <1>1 DEF configVars, ClusterConfigInv, ConfigShape, ConfigBusy
  <2> QED
    BY <2>1, <2>2 DEF ClusterConfigInv
<1>2. ASSUME NEW e \in ConfigEdits, CreateSnapshot(e) PROVE ClusterConfigInv'
  <2>0. configEdit[e] \in ConfigEditRow /\ configEdit[e].pc = "number"
    BY <1>2, ConfigTypes DEF CreateSnapshot, ConfigAt
  <2>1. PICK q \in ConfigEditRow :
           /\ configEdit' = [configEdit EXCEPT ![e] = q] /\ q.config = configEdit[e].config
           /\ q.pc \in {"store", "done"}
           /\ q.pc = "store" => q.version # 0 /\ \A s \in snapshots : s.version < q.version
    <3>1. ASSUME NEW v \in Nat, v # 0, \A s \in snapshots : s.version < v,
                 configEdit' = [configEdit EXCEPT ![e].pc = "store", ![e].version = v]
          PROVE  \E q \in ConfigEditRow :
                    /\ configEdit' = [configEdit EXCEPT ![e] = q] /\ q.config = configEdit[e].config
                    /\ q.pc \in {"store", "done"}
                    /\ q.pc = "store" => q.version # 0 /\ \A s \in snapshots : s.version < q.version
      <4> DEFINE n == [configEdit[e] EXCEPT !.pc = "store", !.version = v]
      <4>1. n \in ConfigEditRow /\ n.config = configEdit[e].config /\ n.pc = "store" /\ n.version = v
        BY <2>0 DEF ConfigEditRow, ConfigSteps
      <4>2. configEdit' = [configEdit EXCEPT ![e] = n]
        BY <3>1, ConfigTypes
      <4> HIDE DEF n
      <4> QED
        BY <3>1, <4>1, <4>2
    <3>2. CASE ConfigEnd(e)
      <4> DEFINE n == [configEdit[e] EXCEPT !.pc = "done"]
      <4>1. n \in ConfigEditRow /\ n.config = configEdit[e].config /\ n.pc = "done"
        BY <2>0 DEF ConfigEditRow, ConfigSteps
      <4>2. configEdit' = [configEdit EXCEPT ![e] = n]
        BY <3>2, ConfigTypes DEF ConfigEnd
      <4> QED
        BY <4>1, <4>2
    <3>3. ASSUME NEW s \in Latest PROVE s.version + 1 \in Nat \ {0} /\ \A t \in snapshots : t.version < s.version + 1
      <4>1. s.version \in Nat /\ \A t \in snapshots : t.version \in Nat /\ t.version <= s.version
        BY <3>3, ConfigTypes DEF Latest, SnapshotRow
      <4> QED
        BY <4>1
    <3>4. CASE \E s \in Latest : configEdit' = [configEdit EXCEPT ![e].pc = "store", ![e].version = s.version + 1]
      <4>1. PICK s \in Latest : configEdit' = [configEdit EXCEPT ![e].pc = "store", ![e].version = s.version + 1]
        BY <3>4
      <4>2. PICK v \in Nat \ {0} : v = s.version + 1
        BY <3>3
      <4>3. \A t \in snapshots : t.version < v
        BY <3>3, <4>2
      <4> QED
        BY <3>1, <4>1, <4>2, <4>3
    <3>5. CASE snapshots = {} /\ configEdit' = [configEdit EXCEPT ![e].pc = "store", ![e].version = 1]
      <4>1. PICK v \in Nat : v = 1
        OBVIOUS
      <4>2. v # 0 /\ \A t \in snapshots : t.version < v
        BY <3>5, <4>1
      <4>3. configEdit' = [configEdit EXCEPT ![e].pc = "store", ![e].version = v]
        BY <3>5, <4>1
      <4> QED
        BY <3>1, <4>2, <4>3
    <3> QED
      BY <1>2, <3>2, <3>4, <3>5 DEF CreateSnapshot
  <2>2. /\ UNCHANGED <<liveConfig, snapshots, kept, alongside, astray>>
        /\ ConfigFault \/ UNCHANGED configFaults
    BY <1>2 DEF CreateSnapshot
  <2> QED
    BY <2>0, <2>1, <2>2, NumberKeeps
<1>3. ASSUME NEW e \in ConfigEdits, InsertSnapshot(e) PROVE ClusterConfigInv'
  <2>0. configEdit[e] \in ConfigEditRow /\ configEdit[e].pc = "store"
    BY <1>3, ConfigTypes DEF InsertSnapshot, ConfigAt
  <2>1. CASE ConfigFault /\ ConfigEnd(e) /\ UNCHANGED <<snapshots, kept>>
    <3> DEFINE n == [configEdit[e] EXCEPT !.pc = "done"]
    <3>1. n \in ConfigEditRow /\ n.config = configEdit[e].config /\ n.pc = "done"
      BY <2>0 DEF ConfigEditRow, ConfigSteps
    <3>2. configEdit' = [configEdit EXCEPT ![e] = n]
      BY <2>1, ConfigTypes DEF ConfigEnd
    <3>3. UNCHANGED <<liveConfig, snapshots, kept, alongside, astray>>
      BY <1>3, <2>1 DEF InsertSnapshot
    <3>4. PICK q \in ConfigEditRow : q = n
      BY <3>1
    <3>5. configEdit' = [configEdit EXCEPT ![e] = q] /\ q.config = configEdit[e].config /\ q.pc = "done"
      BY <3>1, <3>2, <3>4
    <3> QED
      BY <2>0, <2>1, <3>3, <3>5, NumberKeeps
  <2>2. CASE ~(ConfigFault /\ ConfigEnd(e) /\ UNCHANGED <<snapshots, kept>>)
    BY <1>3, <2>0, <2>2, InsertKeepsConfig, ConfigTypes DEF InsertSnapshot, ConfigShape
  <2> QED
    BY <2>1, <2>2
<1> QED
  BY <1>1, <1>2, <1>3, UpdateBegins, PushKeeps DEF ClusterConfigNext

\* An update of a cluster's configuration that was stored is in the latest snapshot and
\* reaches the cluster, unless updates overlapped, a read of the snapshots failed or the
\* push did (config.go: Update, UpdateSection).
THEOREM ConfigEditsAreKept == ClusterConfigSpec => []ConfigEditsKept
<1>1. ClusterConfigInv => ConfigEditsKept
  BY DEF ClusterConfigInv
<1> QED
  BY <1>1, InitConfig, ConfigKeep, PTL DEF ClusterConfigSpec

-----------------------------------------------------------------------------
(***************************************************************************)
(* Deployments: the newest of a cluster, and the version its row names.      *)
(***************************************************************************)

\* A bounded set of numbers that is not empty has a greatest.
LEMMA GreatestExists ==
    ASSUME NEW n \in Nat, NEW S, S \subseteq 1..n, S # {}
    PROVE  \E m \in S : \A y \in S : m >= y
<1> DEFINE T == {n - x : x \in S}
           R == OpToRel(<, Nat)
<1>1. T \subseteq Nat /\ T # {}
  <2>1. \A x \in S : n - x \in Nat
    OBVIOUS
  <2> QED
    BY <2>1
<1>2. IsWellFoundedOn(R, Nat)
  BY NatLessThanWellFounded
<1>3. \A x, y \in Nat : <<y, x>> \in R <=> y < x
  BY DEF OpToRel
<1> HIDE DEF R
<1>4. PICK z \in T : \A y \in T : ~ (<<y, z>> \in R)
  BY <1>1, <1>2, WFMin
<1>5. PICK m \in S : z = n - m
  BY <1>4
<1>6. \A y \in S : ~(n - y < n - m)
  BY <1>1, <1>3, <1>4, <1>5
<1> QED
  BY <1>5, <1>6

LEMMA GreatestIsMax ==
    ASSUME NEW n \in Nat, NEW S, S \subseteq 1..n, S # {}
    PROVE  /\ Max(S) \in S /\ \A y \in S : Max(S) >= y
           /\ n \in S => Max(S) = n
<1>1. Max(S) \in S /\ \A y \in S : Max(S) >= y
  BY GreatestExists DEF Max
<1>2. ASSUME n \in S PROVE Max(S) = n
  <2>1. Max(S) \in 1..n /\ Max(S) >= n
    BY <1>1, <1>2
  <2> QED
    BY <2>1
<1> QED
  BY <1>1, <1>2

DeployRow == [id : DeployClusters, version : Versions, status : DeployStatus]
DeployPcs == {"idle", "insert", "write", "edit", "decide"}
DeployJobRow == [pc : DeployPcs, id : DeployClusters, version : Versions,
                 status : DeployStatus, of : 0..MaxDeployments, alone : BOOLEAN]
NewestVersion(c) == deployments[Max(DeploymentsOf(c))].version

\* The types, and the parts of the invariant one by one.
DeployTypes ==
    /\ clusterVersion \in [DeployClusters -> Versions]
    /\ deployments \in Seq(DeployRow) /\ Len(deployments) <= MaxDeployments
    /\ deployJob \in [DeployJobs -> DeployJobRow]
    /\ versionBlurred \subseteq DeployClusters /\ deployFaults \in 0..MaxDeployFaults

AloneIsAlone ==
    \A i, j \in DeployJobs :
        deployJob[i].pc # "idle" /\ deployJob[i].alone /\ deployJob[j].pc # "idle"
        /\ deployJob[i].id = deployJob[j].id => i = j

WriterKnows ==
    \A j \in DeployJobs : deployJob[j].pc = "write" /\ deployJob[j].alone =>
        DeploymentsOf(deployJob[j].id) # {} /\ NewestVersion(deployJob[j].id) = deployJob[j].version

RowIsNewest ==
    \A c \in DeployClusters \ versionBlurred :
        DeploymentsOf(c) # {} /\ (\A j \in DeployJobs : deployJob[j].id = c => deployJob[j].pc # "write")
            => clusterVersion[c] = NewestVersion(c)

LEMMA DeployParts ==
    DeploymentsInv <=> DeployTypes /\ AloneIsAlone /\ WriterKnows /\ RowIsNewest
<1>1. DeploymentsTypeOK <=> DeployTypes
  BY DEF DeploymentsTypeOK, DeployTypes, DeployRow, DeployJobRow, DeployPcs
<1>2. DeployShape <=> AloneIsAlone /\ WriterKnows /\ RowIsNewest
  BY DEF DeployShape, AloneIsAlone, WriterKnows, RowIsNewest, NewestVersion
<1>3. RowIsNewest => VersionRecorded
  BY DEF RowIsNewest, VersionRecorded, NewestVersion
<1> QED
  BY <1>1, <1>2, <1>3 DEF DeploymentsInv

LEMMA DeployNumbers ==
    /\ 0 \in 0..MaxDeployments /\ 0 \in 0..MaxDeployFaults
    /\ FreeJob \in DeployJobRow /\ FreeJob.pc = "idle"
<1>1. 0 \in 0..MaxDeployments /\ 0 \in 0..MaxDeployFaults
  BY DeploymentsAssumption DEF DeploymentsAssumption
<1>2. (CHOOSE c \in DeployClusters : TRUE) \in DeployClusters /\ (CHOOSE v \in Versions : TRUE) \in Versions
  BY DeploymentsAssumption DEF DeploymentsAssumption
<1> QED
  BY <1>1, <1>2 DEF FreeJob, DeployJobRow, DeployPcs, DeployStatus

LEMMA DeployJobFields ==
    ASSUME DeployTypes, NEW j \in DeployJobs
    PROVE  /\ deployJob[j] \in DeployJobRow /\ deployJob[j].pc \in DeployPcs
           /\ deployJob[j].id \in DeployClusters /\ deployJob[j].version \in Versions
           /\ deployJob[j].status \in DeployStatus /\ deployJob[j].alone \in BOOLEAN
<1>1. deployJob[j] \in DeployJobRow
  BY DEF DeployTypes
<1> QED
  BY <1>1 DEF DeployJobRow

\* The newest deployment of a cluster is one of its deployments.
LEMMA NewestIsOne ==
    ASSUME DeployTypes, NEW c, DeploymentsOf(c) # {}
    PROVE  /\ Max(DeploymentsOf(c)) \in DeploymentsOf(c) /\ DeploymentsOf(c) \subseteq 1..Len(deployments)
           /\ Max(DeploymentsOf(c)) \in 1..Len(deployments)
<1>1. Len(deployments) \in Nat /\ DeploymentsOf(c) \subseteq 1..Len(deployments)
  BY DEF DeployTypes, DeploymentsOf
<1>2. Max(DeploymentsOf(c)) \in DeploymentsOf(c)
  BY <1>1, GreatestIsMax
<1> QED
  BY <1>1, <1>2

LEMMA InitDeploy == DeploymentsInit => DeploymentsInv
<1> SUFFICES ASSUME DeploymentsInit PROVE DeploymentsInv
  OBVIOUS
<1>1. /\ clusterVersion = [d \in DeployClusters |-> FreeJob.version]
      /\ deployJob = [j \in DeployJobs |-> FreeJob]
      /\ deployments = <<>> /\ versionBlurred = {} /\ deployFaults = 0
  BY DEF DeploymentsInit
<1>2. FreeJob.version \in Versions
  BY DeployNumbers DEF DeployJobRow
<1>3. deployments \in Seq(DeployRow) /\ Len(deployments) <= MaxDeployments
  BY <1>1, DeploymentsAssumption DEF DeploymentsAssumption
<1>4. DeployTypes
  BY <1>1, <1>2, <1>3, DeployNumbers DEF DeployTypes
<1>5. \A c : DeploymentsOf(c) = {}
  BY <1>1 DEF DeploymentsOf
<1>6. \A j \in DeployJobs : deployJob[j].pc = "idle"
  BY <1>1, DeployNumbers
<1>7. AloneIsAlone /\ WriterKnows
  BY <1>6 DEF AloneIsAlone, WriterKnows
<1>8. RowIsNewest
  BY <1>5 DEF RowIsNewest
<1> QED
  BY <1>4, <1>7, <1>8, DeployParts

\* A request is done.
LEMMA FreedJob ==
    ASSUME DeployTypes, NEW j \in DeployJobs, FreeAgain(j)
    PROVE  /\ deployJob' \in [DeployJobs -> DeployJobRow] /\ deployJob'[j].pc = "idle"
           /\ \A i \in DeployJobs \ {j} : deployJob'[i] = deployJob[i]
BY DeployNumbers DEF FreeAgain, DeployTypes

\* Statements that leave the clusters and versions of all deployments alone do not change
\* which is the newest.
LEMMA SameNewest ==
    ASSUME DeployTypes, Len(deployments') = Len(deployments), deployments' \in Seq(DeployRow),
           \A i \in 1..Len(deployments) : /\ deployments'[i].id = deployments[i].id
                                          /\ deployments'[i].version = deployments[i].version
    PROVE  \A c : /\ DeploymentsOf(c)' = DeploymentsOf(c)
                  /\ DeploymentsOf(c) # {} => NewestVersion(c)' = NewestVersion(c)
<1> SUFFICES ASSUME NEW c
             PROVE  /\ DeploymentsOf(c)' = DeploymentsOf(c)
                    /\ DeploymentsOf(c) # {} => NewestVersion(c)' = NewestVersion(c)
  OBVIOUS
<1>1. DOMAIN deployments' = 1..Len(deployments) /\ DOMAIN deployments = 1..Len(deployments)
  BY DEF DeployTypes
<1>2. DeploymentsOf(c)' = DeploymentsOf(c)
  BY <1>1 DEF DeploymentsOf
<1>3. DeploymentsOf(c) # {} => NewestVersion(c)' = NewestVersion(c)
  BY <1>2, NewestIsOne DEF NewestVersion
<1> QED
  BY <1>2, <1>3

\* A request that does not write the row of a cluster is done.
LEMMA DoneKeeps ==
    ASSUME DeploymentsInv, NEW j \in DeployJobs, FreeAgain(j), deployJob[j].pc # "write",
           UNCHANGED <<clusterVersion, versionBlurred>>,
           Len(deployments') = Len(deployments), deployments' \in Seq(DeployRow),
           \A i \in 1..Len(deployments) : /\ deployments'[i].id = deployments[i].id
                                          /\ deployments'[i].version = deployments[i].version,
           deployFaults' \in 0..MaxDeployFaults
    PROVE  DeploymentsInv'
<1>0. DeployTypes /\ AloneIsAlone /\ WriterKnows /\ RowIsNewest
  BY DeployParts
<1>1. /\ deployJob' \in [DeployJobs -> DeployJobRow] /\ deployJob'[j].pc = "idle"
      /\ \A i \in DeployJobs \ {j} : deployJob'[i] = deployJob[i]
  BY <1>0, FreedJob
<1>2. \A c : /\ DeploymentsOf(c)' = DeploymentsOf(c)
             /\ DeploymentsOf(c) # {} => NewestVersion(c)' = NewestVersion(c)
  BY <1>0, SameNewest
<1>3. DeployTypes'
  BY <1>0, <1>1 DEF DeployTypes
<1>4. AloneIsAlone'
  BY <1>0, <1>1 DEF AloneIsAlone
<1>5. WriterKnows'
  BY <1>0, <1>1, <1>2 DEF WriterKnows
<1>7. RowIsNewest'
  BY <1>0, <1>1, <1>2 DEF RowIsNewest
<1>8. (DeployTypes /\ AloneIsAlone /\ WriterKnows /\ RowIsNewest)' => DeploymentsInv'
  BY DeployParts, PTL
<1> QED
  BY <1>3, <1>4, <1>5, <1>7, <1>8

LEMMA DeployFaultCounted ==
    ASSUME DeployTypes, DeployStatementFails PROVE deployFaults' \in 0..MaxDeployFaults
BY DeploymentsAssumption DEF DeployTypes, DeployStatementFails, DeploymentsAssumption

\* A request takes up its work: nobody who is there goes on believing to be alone.
LEMMA TakeUpKeeps ==
    ASSUME DeploymentsInv, NEW j \in DeployJobs, NEW c \in DeployClusters, NEW v \in Versions,
           NEW pc \in {"insert", "edit", "decide"}, NEW status \in DeployStatus, NEW of \in 0..MaxDeployments,
           TakeUp(j, c, pc, v, status, of)
    PROVE  DeploymentsInv'
<1>0. DeployTypes /\ AloneIsAlone /\ WriterKnows /\ RowIsNewest
  BY DeployParts
<1> DEFINE Here(i) == i # j /\ deployJob[i].pc # "idle" /\ deployJob[i].id = c
<1>1. PICK q \in DeployJobRow : /\ q = [pc |-> pc, id |-> c, version |-> v, status |-> status, of |-> of,
                                        alone |-> ~\E k \in DeployJobs : Here(k)]
  <2>1. (~\E k \in DeployJobs : Here(k)) \in BOOLEAN
    OBVIOUS
  <2> HIDE DEF Here
  <2> QED
    BY <2>1 DEF DeployJobRow, DeployPcs
<1>2. /\ q.pc = pc /\ q.id = c /\ q.version = v /\ (q.alone => \A k \in DeployJobs : ~Here(k))
  BY <1>1
<1>3. /\ deployJob[j].pc = "idle" /\ UNCHANGED <<clusterVersion, deployments, versionBlurred, deployFaults>>
      /\ deployJob' = [i \in DeployJobs |-> IF i = j THEN q ELSE [deployJob[i] EXCEPT !.alone = @ /\ ~Here(i)]]
  BY <1>1 DEF TakeUp
<1>4. ASSUME NEW i \in DeployJobs \ {j}
      PROVE  /\ deployJob'[i] \in DeployJobRow /\ deployJob'[i].pc = deployJob[i].pc
             /\ deployJob'[i].id = deployJob[i].id /\ deployJob'[i].version = deployJob[i].version
             /\ deployJob'[i].alone => deployJob[i].alone /\ ~Here(i)
  <2>1. deployJob'[i] = [deployJob[i] EXCEPT !.alone = @ /\ ~Here(i)]
    BY <1>3
  <2>2. deployJob[i] \in DeployJobRow
    BY <1>0, DeployJobFields
  <2>3. PICK b \in BOOLEAN : b = (deployJob[i].alone /\ ~Here(i))
    OBVIOUS
  <2>4. deployJob'[i] = [deployJob[i] EXCEPT !.alone = b]
    BY <2>1, <2>3
  <2>5. /\ deployJob'[i] \in DeployJobRow /\ deployJob'[i].pc = deployJob[i].pc
        /\ deployJob'[i].id = deployJob[i].id /\ deployJob'[i].version = deployJob[i].version
        /\ deployJob'[i].alone = b
    BY <2>2, <2>4 DEF DeployJobRow
  <2> QED
    BY <2>3, <2>5
<1>5. deployJob'[j] = q /\ deployJob' \in [DeployJobs -> DeployJobRow]
  <2>1. deployJob'[j] = q /\ DOMAIN deployJob' = DeployJobs
    BY <1>3
  <2>2. \A i \in DeployJobs : deployJob'[i] \in DeployJobRow
    BY <1>4, <2>1
  <2> QED
    BY <1>3, <2>1, <2>2
<1>6. \A d : DeploymentsOf(d)' = DeploymentsOf(d) /\ NewestVersion(d)' = NewestVersion(d)
  BY <1>3 DEF DeploymentsOf, NewestVersion
<1>7. DeployTypes'
  BY <1>0, <1>3, <1>5 DEF DeployTypes
<1>8. AloneIsAlone'
  <2> SUFFICES ASSUME NEW i \in DeployJobs, NEW k \in DeployJobs,
                      deployJob'[i].pc # "idle", deployJob'[k].pc # "idle",
                      deployJob'[i].id = deployJob'[k].id, deployJob'[i].alone, i # k
               PROVE  FALSE
    BY DEF AloneIsAlone
  <2>1. CASE i = j
    <3>1. deployJob[k].pc # "idle" /\ deployJob[k].id = c
      BY <1>2, <1>4, <1>5, <2>1
    <3> QED
      BY <1>2, <1>5, <2>1, <3>1
  <2>2. CASE k = j
    <3>1. deployJob[i].pc # "idle" /\ deployJob[i].id = c /\ ~Here(i)
      BY <1>2, <1>4, <1>5, <2>2
    <3> QED
      BY <2>2, <3>1
  <2>3. CASE i # j /\ k # j
    BY <1>0, <1>4, <2>3 DEF AloneIsAlone
  <2> QED
    BY <2>1, <2>2, <2>3
<1> HIDE DEF Here
<1>9. WriterKnows'
  <2> SUFFICES ASSUME NEW i \in DeployJobs, deployJob'[i].pc = "write", deployJob'[i].alone
               PROVE  /\ DeploymentsOf(deployJob'[i].id) # {}
                      /\ NewestVersion(deployJob'[i].id) = deployJob'[i].version
    BY <1>6 DEF WriterKnows
  <2>1. i # j
    BY <1>2, <1>5
  <2> QED
    BY <1>0, <1>4, <2>1 DEF WriterKnows
<1>11. RowIsNewest'
  <2> SUFFICES ASSUME NEW d \in DeployClusters \ versionBlurred, DeploymentsOf(d) # {},
                      \A i \in DeployJobs : deployJob'[i].id = d => deployJob'[i].pc # "write"
               PROVE  clusterVersion[d] = NewestVersion(d)
    BY <1>3, <1>6 DEF RowIsNewest
  <2>1. \A i \in DeployJobs : deployJob[i].id = d => deployJob[i].pc # "write"
    BY <1>3, <1>4
  <2> QED
    BY <1>0, <2>1 DEF RowIsNewest
<1>12. (DeployTypes /\ AloneIsAlone /\ WriterKnows /\ RowIsNewest)' => DeploymentsInv'
  BY DeployParts, PTL
<1> QED
  BY <1>7, <1>8, <1>9, <1>11, <1>12

\* A deployment is inserted: it is the newest of its cluster.
LEMMA InsertIsNewest ==
    ASSUME DeployTypes, Len(deployments) < MaxDeployments, NEW q \in DeployRow,
           deployments' = Append(deployments, q)
    PROVE  /\ deployments' \in Seq(DeployRow) /\ Len(deployments') <= MaxDeployments
           /\ DeploymentsOf(q.id)' # {} /\ NewestVersion(q.id)' = q.version
           /\ \A c : c # q.id => /\ DeploymentsOf(c)' = DeploymentsOf(c)
                                 /\ DeploymentsOf(c) # {} => NewestVersion(c)' = NewestVersion(c)
<1> DEFINE n == Len(deployments) + 1
<1>1. /\ deployments \in Seq(DeployRow) /\ Len(deployments) \in Nat /\ MaxDeployments \in Nat
      /\ DOMAIN deployments = 1..Len(deployments)
  BY DeploymentsAssumption DEF DeployTypes, DeploymentsAssumption
<1>2. /\ deployments' \in Seq(DeployRow) /\ Len(deployments') = n /\ DOMAIN deployments' = 1..n
      /\ deployments'[n] = q /\ \A i \in 1..Len(deployments) : deployments'[i] = deployments[i]
  BY <1>1
<1>3. n \in Nat /\ n \in 1..n /\ n \notin 1..Len(deployments) /\ 1..n = 1..Len(deployments) \cup {n}
      /\ n <= MaxDeployments
  BY <1>1
<1> HIDE DEF n
<1>4. DeploymentsOf(q.id)' = DeploymentsOf(q.id) \cup {n}
  BY <1>1, <1>2, <1>3 DEF DeploymentsOf
<1>5. \A c : c # q.id => DeploymentsOf(c)' = DeploymentsOf(c)
  BY <1>1, <1>2, <1>3 DEF DeploymentsOf
<1>6. DeploymentsOf(q.id)' \subseteq 1..n
  BY <1>2 DEF DeploymentsOf
<1>7. Max(DeploymentsOf(q.id)') = n
  BY <1>3, <1>4, <1>6, GreatestIsMax
<1>8. NewestVersion(q.id)' = q.version
  BY <1>2, <1>7 DEF NewestVersion
<1>9. ASSUME NEW c, c # q.id, DeploymentsOf(c) # {} PROVE NewestVersion(c)' = NewestVersion(c)
  BY <1>2, <1>5, <1>9, NewestIsOne DEF NewestVersion
<1> QED
  BY <1>2, <1>3, <1>4, <1>5, <1>8, <1>9

LEMMA InsertDeploymentKeeps ==
    ASSUME DeploymentsInv, NEW j \in DeployJobs, InsertDeployment(j), ~DeployStatementFails
    PROVE  DeploymentsInv'
<1>0. DeployTypes /\ AloneIsAlone /\ WriterKnows /\ RowIsNewest
  BY DeployParts
<1>1. PICK c \in DeployClusters : c = deployJob[j].id
  BY <1>0, DeployJobFields
<1>2. PICK q \in DeployRow : q = [id |-> deployJob[j].id, version |-> deployJob[j].version,
                                  status |-> deployJob[j].status]
  BY <1>0, DeployJobFields DEF DeployRow
<1>3. q.id = c /\ q.version = deployJob[j].version
  BY <1>1, <1>2
<1>4. /\ deployJob[j].pc = "insert" /\ Len(deployments) < MaxDeployments /\ deployments' = Append(deployments, q)
      /\ deployJob' = [deployJob EXCEPT ![j].pc = "write"]
      /\ UNCHANGED <<clusterVersion, versionBlurred, deployFaults>>
  BY <1>2 DEF InsertDeployment
<1>5. /\ deployments' \in Seq(DeployRow) /\ Len(deployments') <= MaxDeployments
      /\ DeploymentsOf(c)' # {} /\ NewestVersion(c)' = q.version
      /\ \A d : d # c => /\ DeploymentsOf(d)' = DeploymentsOf(d)
                         /\ DeploymentsOf(d) # {} => NewestVersion(d)' = NewestVersion(d)
  BY <1>0, <1>3, <1>4, InsertIsNewest
<1>6. /\ deployJob' \in [DeployJobs -> DeployJobRow] /\ deployJob'[j].pc = "write" /\ deployJob'[j].id = c
      /\ deployJob'[j].version = deployJob[j].version /\ deployJob'[j].alone = deployJob[j].alone
      /\ \A i \in DeployJobs \ {j} : deployJob'[i] = deployJob[i]
  <2>1. PICK p \in DeployJobRow : p = [deployJob[j] EXCEPT !.pc = "write"]
    BY <1>0, DeployJobFields DEF DeployJobRow, DeployPcs
  <2>2. p.pc = "write" /\ p.id = c /\ p.version = deployJob[j].version /\ p.alone = deployJob[j].alone
    BY <1>0, <1>1, <2>1, DeployJobFields DEF DeployJobRow
  <2>3. deployJob' = [deployJob EXCEPT ![j] = p]
    BY <1>4, <2>1
  <2> QED
    BY <1>0, <2>2, <2>3 DEF DeployTypes
<1>7. DeployTypes'
  BY <1>0, <1>4, <1>5, <1>6 DEF DeployTypes
<1>8. AloneIsAlone'
  <2>1. \A i \in DeployJobs : /\ deployJob'[i].pc # "idle" => deployJob[i].pc # "idle"
                              /\ deployJob'[i].id = deployJob[i].id /\ deployJob'[i].alone = deployJob[i].alone
    BY <1>1, <1>4, <1>6
  <2> QED
    BY <1>0, <2>1 DEF AloneIsAlone
<1>9. WriterKnows'
  <2> SUFFICES ASSUME NEW i \in DeployJobs, deployJob'[i].pc = "write", deployJob'[i].alone,
                      NEW e, e = deployJob'[i].id
               PROVE  DeploymentsOf(e)' # {} /\ NewestVersion(e)' = deployJob'[i].version
    BY DEF WriterKnows
  <2>1. CASE i = j
    BY <1>3, <1>5, <1>6, <2>1
  <2>2. CASE i # j
    <3>1. deployJob'[i] = deployJob[i] /\ deployJob[i].pc = "write" /\ deployJob[i].alone
      BY <1>6, <2>2
    <3>2. e # c
      BY <1>0, <1>1, <1>4, <2>2, <3>1 DEF AloneIsAlone
    <3>3. DeploymentsOf(e) # {} /\ NewestVersion(e) = deployJob[i].version
      BY <1>0, <3>1 DEF WriterKnows
    <3> QED
      BY <1>5, <3>1, <3>2, <3>3
  <2> QED
    BY <2>1, <2>2
<1>11. RowIsNewest'
  <2> SUFFICES ASSUME NEW d \in DeployClusters \ versionBlurred, DeploymentsOf(d)' # {},
                      \A i \in DeployJobs : deployJob'[i].id = d => deployJob'[i].pc # "write"
               PROVE  clusterVersion[d] = NewestVersion(d)'
    BY <1>4 DEF RowIsNewest
  <2>1. d # c
    BY <1>6
  <2>2. \A i \in DeployJobs : deployJob[i].id = d => deployJob[i].pc # "write"
    BY <1>4, <1>6
  <2>3. DeploymentsOf(d) # {} /\ NewestVersion(d)' = NewestVersion(d)
    BY <1>5, <2>1
  <2> QED
    BY <1>0, <2>2, <2>3 DEF RowIsNewest
<1>12. (DeployTypes /\ AloneIsAlone /\ WriterKnows /\ RowIsNewest)' => DeploymentsInv'
  BY DeployParts, PTL
<1> QED
  BY <1>7, <1>8, <1>9, <1>11, <1>12

\* The row is written: after a deployment of one's own, or by another request.
LEMMA RowWriteKeeps ==
    ASSUME DeploymentsInv, NEW j \in DeployJobs, WriteVersion(j) \/ RowEditWrites(j)
    PROVE  DeploymentsInv'
<1>0. DeployTypes /\ AloneIsAlone /\ WriterKnows /\ RowIsNewest
  BY DeployParts
<1>1. PICK c \in DeployClusters : c = deployJob[j].id
  BY <1>0, DeployJobFields
<1>2. PICK v \in Versions : v = deployJob[j].version
  BY <1>0, DeployJobFields
<1>3. FreeAgain(j) /\ UNCHANGED deployments /\ deployJob[j].pc \in {"write", "edit"}
  BY DEF WriteVersion, RowEditWrites
<1>4. /\ deployJob' \in [DeployJobs -> DeployJobRow] /\ deployJob'[j].pc = "idle"
      /\ \A i \in DeployJobs \ {j} : deployJob'[i] = deployJob[i]
  BY <1>0, <1>3, FreedJob
<1>5. \A d : DeploymentsOf(d)' = DeploymentsOf(d) /\ NewestVersion(d)' = NewestVersion(d)
  BY <1>3 DEF DeploymentsOf, NewestVersion
<1>6. /\ clusterVersion' = clusterVersion \/ clusterVersion' = [clusterVersion EXCEPT ![c] = v]
      /\ DeployStatementFails \/ UNCHANGED deployFaults
      /\ versionBlurred \ {c} \subseteq versionBlurred' /\ versionBlurred' \subseteq versionBlurred \cup {c}
      /\ c \notin versionBlurred' /\ deployJob[j].pc = "write" =>
            deployJob[j].alone /\ clusterVersion' = [clusterVersion EXCEPT ![c] = v]
      /\ c \notin versionBlurred' /\ deployJob[j].pc = "edit" =>
            c \notin versionBlurred /\ clusterVersion' = clusterVersion
  <2>1. CASE WriteVersion(j)
    BY <1>1, <1>2, <2>1 DEF WriteVersion
  <2>2. CASE RowEditWrites(j)
    BY <1>0, <1>1, <1>2, <2>2 DEF RowEditWrites, DeployTypes
  <2> QED
    BY <2>1, <2>2
<1>7. /\ clusterVersion' \in [DeployClusters -> Versions]
      /\ \A d \in DeployClusters \ {c} : clusterVersion'[d] = clusterVersion[d]
      /\ c \notin versionBlurred' /\ deployJob[j].pc = "write" => clusterVersion'[c] = v
  BY <1>0, <1>6 DEF DeployTypes
<1>8. deployFaults' \in 0..MaxDeployFaults
  BY <1>0, <1>6, DeployFaultCounted DEF DeployTypes
<1>9. DeployTypes'
  BY <1>0, <1>3, <1>4, <1>6, <1>7, <1>8 DEF DeployTypes
<1>10. AloneIsAlone'
  BY <1>0, <1>4 DEF AloneIsAlone
<1>11. WriterKnows'
  BY <1>0, <1>4, <1>5 DEF WriterKnows
<1>13. RowIsNewest'
  <2> SUFFICES ASSUME NEW d \in DeployClusters, d \notin versionBlurred', DeploymentsOf(d) # {},
                      \A i \in DeployJobs : deployJob'[i].id = d => deployJob'[i].pc # "write"
               PROVE  clusterVersion'[d] = NewestVersion(d)
    BY <1>5 DEF RowIsNewest
  <2>1. CASE d # c
    <3>1. \A i \in DeployJobs : deployJob[i].id = d => deployJob[i].pc # "write"
      BY <1>1, <1>4, <2>1
    <3>2. d \notin versionBlurred
      BY <1>6, <2>1
    <3> QED
      BY <1>0, <1>7, <2>1, <3>1, <3>2 DEF RowIsNewest
  <2>2. CASE d = c /\ deployJob[j].pc = "write"
    BY <1>0, <1>1, <1>2, <1>6, <1>7, <2>2 DEF WriterKnows
  <2>3. CASE d = c /\ deployJob[j].pc = "edit"
    <3>1. \A i \in DeployJobs : deployJob[i].id = c => deployJob[i].pc # "write"
      BY <1>1, <1>4, <2>3
    <3> QED
      BY <1>0, <1>6, <2>3, <3>1 DEF RowIsNewest
  <2> QED
    BY <1>3, <2>1, <2>2, <2>3
<1>14. (DeployTypes /\ AloneIsAlone /\ WriterKnows /\ RowIsNewest)' => DeploymentsInv'
  BY DeployParts, PTL
<1> QED
  BY <1>9, <1>10, <1>11, <1>13, <1>14

\* A canary is decided on: its status, and nothing else of it.
LEMMA StatusRow ==
    ASSUME NEW d \in Seq(DeployRow), NEW n, NEW s \in DeployStatus,
           deployments' = [d EXCEPT ![n].status = s]
    PROVE  /\ deployments' \in Seq(DeployRow) /\ Len(deployments') = Len(d)
           /\ \A i \in 1..Len(d) : deployments'[i].id = d[i].id /\ deployments'[i].version = d[i].version
<1>1. Len(d) \in Nat /\ DOMAIN d = 1..Len(d) /\ d \in [1..Len(d) -> DeployRow]
  OBVIOUS
<1>2. DOMAIN deployments' = 1..Len(d)
  BY <1>1
<1>3. ASSUME NEW i \in 1..Len(d)
      PROVE  /\ deployments'[i] \in DeployRow
             /\ deployments'[i].id = d[i].id /\ deployments'[i].version = d[i].version
  <2>1. d[i] \in DeployRow
    BY <1>1
  <2>2. deployments'[i] = d[i] \/ deployments'[i] = [d[i] EXCEPT !.status = s]
    BY <1>1
  <2> QED
    BY <2>1, <2>2 DEF DeployRow
<1>4. deployments' = [i \in 1..Len(d) |-> deployments'[i]]
  BY <1>1
<1>5. deployments' \in [1..Len(d) -> DeployRow]
  BY <1>3, <1>4
<1>6. deployments' \in Seq(DeployRow) /\ Len(deployments') = Len(d)
  BY <1>1, <1>2, <1>5
<1> QED
  BY <1>3, <1>6

LEMMA DeployKeep == DeploymentsInv /\ [DeploymentsNext]_deployVars => DeploymentsInv'
<1> SUFFICES ASSUME DeploymentsInv, [DeploymentsNext]_deployVars PROVE DeploymentsInv'
  OBVIOUS
<1>0. DeployTypes
  BY DeployParts
<1>s. \A i \in 1..Len(deployments) : deployments[i] \in DeployRow /\ i \in 0..MaxDeployments
  BY <1>0, DeploymentsAssumption DEF DeployTypes, DeploymentsAssumption
<1>r. DOMAIN deployments = 1..Len(deployments) /\ deployments \in Seq(DeployRow)
  BY <1>0 DEF DeployTypes
<1>1. ASSUME NEW j \in DeployJobs, NEW c \in DeployClusters, NEW v \in Versions,
             DeployCreate(j, c, v) \/ CanaryCreate(j, c, v)
      PROVE  DeploymentsInv'
  <2>1. PICK status \in DeployStatus : TakeUp(j, c, "insert", v, status, 0)
    BY <1>1 DEF DeployCreate, CanaryCreate, DeployStatus
  <2> QED
    BY <2>1, DeployNumbers, TakeUpKeeps
<1>2. ASSUME NEW j \in DeployJobs, NEW c \in DeployClusters, NEW d \in 1..MaxDeployments, DeployRollback(j, c, d)
      PROVE  DeploymentsInv'
  <2>1. PICK i \in DeploymentsOf(c) : TakeUp(j, c, "insert", deployments[i].version, "in_progress", 0)
    BY <1>2 DEF DeployRollback
  <2>2. PICK v \in Versions : v = deployments[i].version
    BY <1>r, <1>s DEF DeploymentsOf, DeployRow
  <2>3. TakeUp(j, c, "insert", v, "in_progress", 0) /\ "in_progress" \in DeployStatus
    BY <2>1, <2>2 DEF DeployStatus
  <2> QED
    BY <2>3, DeployNumbers, TakeUpKeeps
<1>3. ASSUME NEW j \in DeployJobs, NEW c \in DeployClusters, NEW v \in Versions, RowEdit(j, c, v)
      PROVE  DeploymentsInv'
  <2>1. TakeUp(j, c, "edit", v, "in_progress", 0) /\ "in_progress" \in DeployStatus
    BY <1>3 DEF RowEdit, DeployStatus
  <2> QED
    BY <2>1, DeployNumbers, TakeUpKeeps
<1>4. ASSUME NEW j \in DeployJobs, NEW d \in 1..MaxDeployments, ApproveCanary(j, d) \/ RejectCanary(j, d)
      PROVE  DeploymentsInv'
  <2>1. PICK status \in DeployStatus : DecideCanary(j, d, status)
    BY <1>4 DEF ApproveCanary, RejectCanary, DeployStatus
  <2>2. deployments[d] \in DeployRow /\ d \in 0..MaxDeployments
    BY <1>r, <1>s, <2>1 DEF DecideCanary
  <2>3. PICK c \in DeployClusters, v \in Versions : c = deployments[d].id /\ v = deployments[d].version
    BY <2>2 DEF DeployRow
  <2>4. TakeUp(j, c, "decide", v, status, d)
    BY <2>1, <2>3 DEF DecideCanary
  <2> QED
    BY <2>2, <2>4, TakeUpKeeps
<1>5. ASSUME NEW j \in DeployJobs, InsertDeployment(j) PROVE DeploymentsInv'
  <2>1. CASE ~DeployStatementFails
    BY <1>5, <2>1, InsertDeploymentKeeps
  <2>2. CASE DeployStatementFails
    <3>1. deployFaults' # deployFaults
      BY <1>0, <2>2, DeploymentsAssumption DEF DeployStatementFails, DeployTypes, DeploymentsAssumption
    <3>2. /\ FreeAgain(j) /\ deployJob[j].pc # "write" /\ deployments' = deployments
          /\ UNCHANGED <<clusterVersion, versionBlurred>>
      BY <1>5, <3>1 DEF InsertDeployment
    <3>3. deployFaults' \in 0..MaxDeployFaults
      BY <1>0, <2>2, DeployFaultCounted
    <3> QED
      BY <1>r, <3>2, <3>3, DoneKeeps
  <2> QED
    BY <2>1, <2>2
<1>6. ASSUME NEW j \in DeployJobs, UpdateStatus(j) PROVE DeploymentsInv'
  <2>1. /\ FreeAgain(j) /\ deployJob[j].pc # "write" /\ UNCHANGED <<clusterVersion, versionBlurred>>
        /\ \/ deployments' = [deployments EXCEPT ![deployJob[j].of].status = deployJob[j].status]
           \/ deployments' = deployments
        /\ DeployStatementFails \/ UNCHANGED deployFaults
    BY <1>6 DEF UpdateStatus
  <2>2. deployFaults' \in 0..MaxDeployFaults
    BY <1>0, <2>1, DeployFaultCounted DEF DeployTypes
  <2>3. deployJob[j].status \in DeployStatus
    BY <1>0, DeployJobFields
  <2>4. /\ deployments' \in Seq(DeployRow) /\ Len(deployments') = Len(deployments)
        /\ \A i \in 1..Len(deployments) : /\ deployments'[i].id = deployments[i].id
                                          /\ deployments'[i].version = deployments[i].version
    BY <1>r, <2>1, <2>3, StatusRow, SMTT(30)
  <2> QED
    BY <2>1, <2>2, <2>4, DoneKeeps
<1>7. ASSUME UNCHANGED deployVars PROVE DeploymentsInv'
  <2>1. DeployTypes /\ AloneIsAlone /\ WriterKnows /\ RowIsNewest
    BY DeployParts
  <2>2. UNCHANGED <<clusterVersion, deployments, deployJob, versionBlurred, deployFaults>>
    BY <1>7 DEF deployVars
  <2>3. \A c : DeploymentsOf(c)' = DeploymentsOf(c) /\ NewestVersion(c)' = NewestVersion(c)
    BY <2>2 DEF DeploymentsOf, NewestVersion
  <2>4. DeployTypes' /\ AloneIsAlone'
    BY <2>1, <2>2 DEF DeployTypes, AloneIsAlone
  <2>5. WriterKnows' /\ RowIsNewest'
    BY <2>1, <2>2, <2>3 DEF WriterKnows, RowIsNewest
  <2>6. (DeployTypes /\ AloneIsAlone /\ WriterKnows /\ RowIsNewest)' => DeploymentsInv'
    BY DeployParts, PTL
  <2> QED
    BY <2>4, <2>5, <2>6
<1> QED
  BY <1>1, <1>2, <1>3, <1>4, <1>5, <1>6, <1>7, RowWriteKeeps DEF DeploymentsNext

\* A cluster's row names the version of its newest deployment, unless two requests were at
\* it together, the row was not written since, or a request put another version in it, its
\* body's or the one of the health answer (deployments.go: Create, Rollback; clusters.go).
THEOREM VersionsAreRecorded == DeploymentsSpec => []VersionRecorded
<1>1. DeploymentsInv => VersionRecorded
  BY DEF DeploymentsInv
<1> QED
  BY <1>1, InitDeploy, DeployKeep, PTL DEF DeploymentsSpec

-----------------------------------------------------------------------------
(***************************************************************************)
(* Roles and tokens of the portal.                                           *)
(***************************************************************************)
AccessRow == [pc : {"login", "edit", "rotate", "read", "issue"}, user : OpsUsers,
              role : OpsRoles \cup {"none"}, token : 0..MaxRefresh]

\* The types of what concerns the roles and the tokens.
AccessTypes == /\ opsRole \in [OpsUsers -> OpsRoles \cup {"new", "gone"}]
               /\ refresh \in [RefreshIds -> OpsUsers \cup {"none"}] /\ secrets \subseteq Issued
               /\ accessJob \in [AccessJobs -> AccessRow \cup {FreeAccess}]
               /\ roleGiven \in [OpsUsers -> OpsRoles \cup {"new"}] /\ spent \in [RefreshIds -> Nat]
               /\ accessFaults \in 0..MaxAccessFaults

RolesRight == \A u \in OpsUsers : HasRow(u) /\ <<"user", u>> \notin overlapped => opsRole[u] = roleGiven[u]
TokensOnce == \A t \in RefreshIds : <<"token", t>> \notin overlapped => spent[t] <= 1

LEMMA AccessParts ==
    OpsAccessInv <=> AccessTypes /\ RolesRight /\ RolesHeld /\ TokensOnce /\ TokensHeld
<1>1. OpsAccessTypeOK <=> AccessTypes
  BY DEF OpsAccessTypeOK, AccessTypes, AccessRow
<1> QED
  BY <1>1 DEF OpsAccessInv, RolesAndTokensKept, RolesRight, TokensOnce

LEMMA AccessNames == /\ "none" \notin OpsUsers /\ "none" \notin OpsRoles /\ "new" \notin OpsRoles
                     /\ "gone" \notin OpsRoles /\ FreeAccess.pc = "idle" /\ FreeAccess.user = "none"
                     /\ FreeAccess.token = 0
                     /\ \A t \in RefreshIds : t # 0 /\ t \in 0..MaxRefresh
BY OpsAccessAssumption DEF OpsAccessAssumption, FreeAccess, RefreshIds

LEMMA AccessJobFields ==
    ASSUME AccessTypes, NEW j \in AccessJobs
    PROVE  /\ accessJob[j] \in AccessRow \cup {FreeAccess}
           /\ accessJob[j].pc # "idle" => accessJob[j] \in AccessRow
           /\ accessJob[j] \in AccessRow => accessJob[j] # FreeAccess /\ accessJob[j].pc # "idle"
           /\ accessJob[j] \in AccessRow =>
                accessJob[j].user \in OpsUsers /\ accessJob[j].role \in OpsRoles \cup {"none"}
                /\ accessJob[j].token \in 0..MaxRefresh
<1>1. accessJob[j] \in AccessRow \cup {FreeAccess}
  BY DEF AccessTypes
<1>2. \A r \in AccessRow : r.pc # "idle" /\ r.user \in OpsUsers /\ r.role \in OpsRoles \cup {"none"}
                           /\ r.token \in 0..MaxRefresh
  BY DEF AccessRow
<1> QED
  BY <1>1, <1>2, AccessNames

LEMMA InitAccess == OpsAccessInit => OpsAccessInv
<1> SUFFICES ASSUME OpsAccessInit PROVE OpsAccessInv
  OBVIOUS
<1>1. /\ opsRole = [u \in OpsUsers |-> "new"] /\ roleGiven = opsRole
      /\ refresh = [t \in RefreshIds |-> "none"] /\ spent = [t \in RefreshIds |-> 0]
      /\ secrets = {} /\ overlapped = {} /\ accessFaults = 0
      /\ accessJob = [j \in AccessJobs |-> FreeAccess]
  BY DEF OpsAccessInit
<1>2. accessFaults \in 0..MaxAccessFaults
  BY <1>1, OpsAccessAssumption DEF OpsAccessAssumption
<1>3. AccessTypes
  BY <1>1, <1>2 DEF AccessTypes
<1>4. RolesRight /\ TokensOnce
  BY <1>1, AccessNames DEF RolesRight, TokensOnce, HasRow
<1>5. RolesHeld
  BY <1>1, AccessNames DEF RolesHeld, AccessBusy
<1>6. Issued = {}
  BY <1>1, AccessNames DEF Issued
<1>7. TokensHeld
  BY <1>1, <1>6, AccessNames DEF TokensHeld
<1> QED
  BY <1>3, <1>4, <1>5, <1>7, AccessParts

LEMMA AccessFaultCounted ==
    ASSUME AccessTypes, AccessFault \/ UNCHANGED accessFaults
    PROVE  accessFaults' \in 0..MaxAccessFaults
BY OpsAccessAssumption DEF AccessTypes, AccessFault, OpsAccessAssumption

\* What leaves the rows and the roles given alone, and starts no request, keeps them right.
LEMMA RolesStay ==
    ASSUME AccessTypes, RolesRight, RolesHeld,
           opsRole' = opsRole, roleGiven' = roleGiven, overlapped' = overlapped,
           \A i \in AccessJobs :
              \/ accessJob'[i] = FreeAccess
              \/ /\ accessJob[i] # FreeAccess /\ accessJob'[i].user = accessJob[i].user
                 /\ accessJob'[i].pc \in {"login", "edit"} => accessJob'[i] = accessJob[i]
    PROVE  RolesRight' /\ RolesHeld'
<1>1. RolesRight'
  BY DEF RolesRight, HasRow
<1>2. RolesHeld'
  <2>1. \A i, j \in AccessJobs :
           accessJob'[i] # FreeAccess /\ accessJob'[j] # FreeAccess /\ accessJob'[i].user = accessJob'[j].user =>
             i = j \/ <<"user", accessJob'[i].user>> \in overlapped
    BY DEF RolesHeld, AccessBusy
  <2>2. \A j \in AccessJobs : accessJob'[j].pc \in {"login", "edit"} =>
          /\ opsRole[accessJob'[j].user] # "new" /\ accessJob'[j].role \in OpsRoles
          /\ \/ accessJob'[j].role = roleGiven[accessJob'[j].user]
             \/ <<"user", accessJob'[j].user>> \in overlapped
    BY AccessNames DEF RolesHeld
  <2> QED
    BY <2>1, <2>2 DEF RolesHeld, AccessBusy
<1> QED
  BY <1>1, <1>2

\* What leaves the tokens alone, or takes some from the map, keeps them right.
LEMMA TokensStay ==
    ASSUME AccessTypes, TokensOnce, TokensHeld,
           refresh' = refresh, spent' = spent, secrets' \subseteq secrets, overlapped \subseteq overlapped',
           \A i \in AccessJobs : accessJob'[i].pc = "rotate" => accessJob'[i] = accessJob[i]
    PROVE  TokensOnce' /\ TokensHeld' /\ Issued' = Issued
<1>0. Issued' = Issued
  BY DEF Issued
<1>1. TokensOnce'
  BY DEF TokensOnce
<1>2. \A t \in RefreshIds : Rotating(t)' \subseteq Rotating(t)
  BY DEF Rotating
<1>3. TokensHeld'
  <2>1. \A j \in AccessJobs : accessJob'[j].pc = "rotate" =>
          accessJob'[j].token \in Issued /\ refresh[accessJob'[j].token] = accessJob'[j].user
    BY DEF TokensHeld
  <2>2. \A t \in RefreshIds \ Issued : spent[t] = 0
    BY DEF TokensHeld
  <2>3. \A t \in Issued : <<"token", t>> \in overlapped' \/
          /\ t \in secrets' \/ Rotating(t)' # {} => spent[t] = 0
          /\ \A i, j \in Rotating(t)' : i = j
    <3> SUFFICES ASSUME NEW t \in Issued, <<"token", t>> \notin overlapped'
                 PROVE  /\ t \in secrets' \/ Rotating(t)' # {} => spent[t] = 0
                        /\ \A i, j \in Rotating(t)' : i = j
      OBVIOUS
    <3>1. Rotating(t)' \subseteq Rotating(t)
      BY <1>2 DEF Issued
    <3>2. /\ t \in secrets \/ Rotating(t) # {} => spent[t] = 0
          /\ \A i, j \in Rotating(t) : i = j
      BY DEF TokensHeld
    <3> QED
      BY <3>1, <3>2
  <2> QED
    BY <1>0, <2>1, <2>2, <2>3 DEF TokensHeld
<1> QED
  BY <1>0, <1>1, <1>3

\* A request starts at a user's row.
LEMMA StartKeepsRoles ==
    ASSUME AccessTypes, RolesRight, RolesHeld, NEW j \in AccessJobs, NEW job \in AccessRow,
           StartAccess(j, job),
           job.pc \in {"login", "edit"} => HasRow(job.user) /\ job.role = opsRole[job.user]
    PROVE  /\ RolesRight' /\ RolesHeld' /\ overlapped \subseteq overlapped'
           /\ accessJob' \in [AccessJobs -> AccessRow \cup {FreeAccess}] /\ accessJob'[j] = job
           /\ \A i \in AccessJobs \ {j} : accessJob'[i] = accessJob[i]
           /\ UNCHANGED <<opsRole, refresh, secrets, roleGiven, spent, accessFaults>>
           /\ \A i \in AccessJobs \ {j} :
                 accessJob[i] # FreeAccess /\ accessJob[i].user = job.user =>
                    /\ <<"user", job.user>> \in overlapped'
                    /\ accessJob[i].token = job.token => <<"token", job.token>> \in overlapped'
<1> DEFINE near == {i \in AccessJobs \ {j} : accessJob[i].pc # "idle" /\ accessJob[i].user = job.user}
<1>1. /\ accessJob[j] = FreeAccess /\ accessJob' = [accessJob EXCEPT ![j] = job]
      /\ overlapped' = overlapped \cup (IF near # {} THEN {<<"user", job.user>>} ELSE {})
              \cup (IF \E i \in near : accessJob[i].token = job.token THEN {<<"token", job.token>>} ELSE {})
      /\ UNCHANGED <<opsRole, refresh, secrets, roleGiven, spent, accessFaults>>
  BY DEF StartAccess
<1>2. /\ accessJob' \in [AccessJobs -> AccessRow \cup {FreeAccess}] /\ accessJob'[j] = job
      /\ \A i \in AccessJobs \ {j} : accessJob'[i] = accessJob[i]
  BY <1>1 DEF AccessTypes
<1>3. /\ overlapped \subseteq overlapped' /\ (near # {} => <<"user", job.user>> \in overlapped')
      /\ (\E i \in near : accessJob[i].token = job.token) => <<"token", job.token>> \in overlapped'
  BY <1>1
<1>4. ASSUME NEW i \in AccessJobs \ {j}, accessJob[i] # FreeAccess, accessJob[i].user = job.user
      PROVE  /\ <<"user", job.user>> \in overlapped'
             /\ accessJob[i].token = job.token => <<"token", job.token>> \in overlapped'
  <2>1. i \in near
    BY <1>4, AccessJobFields
  <2> QED
    BY <1>3, <2>1
<1> HIDE DEF near
<1>5. RolesRight'
  BY <1>1, <1>3 DEF RolesRight, HasRow
<1>6. RolesHeld'
  <2>1. ASSUME NEW i \in AccessJobs, NEW k \in AccessJobs, accessJob'[i] # FreeAccess, accessJob'[k] # FreeAccess,
               accessJob'[i].user = accessJob'[k].user, i # k
        PROVE  <<"user", accessJob'[i].user>> \in overlapped'
    <3>1. CASE i = j
      BY <1>2, <1>4, <2>1, <3>1
    <3>2. CASE k = j
      BY <1>2, <1>4, <2>1, <3>2
    <3>3. CASE i # j /\ k # j
      BY <1>2, <1>3, <2>1, <3>3 DEF RolesHeld, AccessBusy
    <3> QED
      BY <3>1, <3>2, <3>3
  <2>2. ASSUME NEW i \in AccessJobs, accessJob'[i].pc \in {"login", "edit"}
        PROVE  /\ opsRole[accessJob'[i].user] # "new" /\ accessJob'[i].role \in OpsRoles
               /\ \/ accessJob'[i].role = roleGiven[accessJob'[i].user]
                  \/ <<"user", accessJob'[i].user>> \in overlapped'
    <3>1. CASE i # j
      BY <1>2, <1>3, <2>2, <3>1 DEF RolesHeld
    <3>2. CASE i = j
      <4>1. HasRow(job.user) /\ job.role = opsRole[job.user] /\ job.user \in OpsUsers
        BY <1>2, <2>2, <3>2 DEF AccessRow
      <4>2. opsRole[job.user] # "new" /\ job.role \in OpsRoles
        BY <4>1, AccessNames DEF HasRow
      <4>3. job.role = roleGiven[job.user] \/ <<"user", job.user>> \in overlapped
        BY <4>1 DEF RolesRight
      <4> QED
        BY <1>2, <1>3, <3>2, <4>2, <4>3
    <3> QED
      BY <3>1, <3>2
  <2> QED
    BY <1>1, <2>1, <2>2 DEF RolesHeld, AccessBusy
<1> QED
  BY <1>1, <1>2, <1>3, <1>4, <1>5, <1>6

\* A request writes the row of its user, and is done with it.
LEMMA WriteKeepsRoles ==
    ASSUME AccessTypes, RolesRight, RolesHeld, NEW j \in AccessJobs, accessJob[j].pc \in {"login", "edit"},
           NEW u \in OpsUsers, u = accessJob[j].user, NEW r \in OpsRoles, UpdateUserRow(u, r),
           \/ r = accessJob[j].role /\ roleGiven' = roleGiven
           \/ roleGiven' = [roleGiven EXCEPT ![u] = IF HasRow(u) THEN r ELSE @],
           overlapped' = overlapped,
           \/ accessJob'[j] = FreeAccess
           \/ accessJob'[j].pc = "issue" /\ accessJob'[j].user = u,
           \A i \in AccessJobs \ {j} : accessJob'[i] = accessJob[i]
    PROVE  /\ RolesRight' /\ RolesHeld'
           /\ opsRole' \in [OpsUsers -> OpsRoles \cup {"new", "gone"}]
           /\ roleGiven' \in [OpsUsers -> OpsRoles \cup {"new"}]
<1>0. accessJob[j] # FreeAccess
  BY AccessNames
<1>1. /\ opsRole' \in [OpsUsers -> OpsRoles \cup {"new", "gone"}]
      /\ \A v \in OpsUsers \ {u} : opsRole'[v] = opsRole[v]
      /\ HasRow(u) => opsRole'[u] = r
      /\ ~HasRow(u) => opsRole'[u] = opsRole[u]
  BY DEF AccessTypes, UpdateUserRow
<1>2. /\ roleGiven' \in [OpsUsers -> OpsRoles \cup {"new"}]
      /\ \A v \in OpsUsers \ {u} : roleGiven'[v] = roleGiven[v]
      /\ ~HasRow(u) => roleGiven'[u] = roleGiven[u]
      /\ HasRow(u) => roleGiven'[u] = r \/ (roleGiven'[u] = roleGiven[u] /\ r = accessJob[j].role)
  BY DEF AccessTypes
<1>3. ASSUME NEW i \in AccessJobs \ {j}, accessJob[i] # FreeAccess, accessJob[i].user = u
      PROVE  <<"user", u>> \in overlapped
  BY <1>0, <1>3 DEF RolesHeld, AccessBusy
<1>4. accessJob[j].role = roleGiven[u] \/ <<"user", u>> \in overlapped
  BY DEF RolesHeld
<1>5. RolesRight'
  <2> SUFFICES ASSUME NEW v \in OpsUsers, opsRole'[v] \in OpsRoles, <<"user", v>> \notin overlapped
               PROVE  opsRole'[v] = roleGiven'[v]
    BY DEF RolesRight, HasRow
  <2>1. CASE v # u
    BY <1>1, <1>2, <2>1 DEF RolesRight, HasRow
  <2>2. CASE v = u
    <3>1. HasRow(u)
      BY <1>1, <2>2 DEF HasRow
    <3> QED
      BY <1>1, <1>2, <1>4, <2>2, <3>1
  <2> QED
    BY <2>1, <2>2
<1>6. RolesHeld'
  <2>1. ASSUME NEW i \in AccessJobs, NEW k \in AccessJobs, accessJob'[i] # FreeAccess, accessJob'[k] # FreeAccess,
               accessJob'[i].user = accessJob'[k].user, i # k
        PROVE  <<"user", accessJob'[i].user>> \in overlapped
    <3>1. \A x \in {i, k} : accessJob[x] # FreeAccess /\ accessJob'[x].user = accessJob[x].user
      BY <1>0, <2>1
    <3> QED
      BY <2>1, <3>1 DEF RolesHeld, AccessBusy
  <2>2. ASSUME NEW i \in AccessJobs, accessJob'[i].pc \in {"login", "edit"}
        PROVE  /\ opsRole'[accessJob'[i].user] # "new" /\ accessJob'[i].role \in OpsRoles
               /\ \/ accessJob'[i].role = roleGiven'[accessJob'[i].user]
                  \/ <<"user", accessJob'[i].user>> \in overlapped
    <3>1. i # j /\ accessJob'[i] = accessJob[i] /\ accessJob[i] # FreeAccess
      BY <2>2, AccessNames
    <3>2. /\ accessJob[i].user \in OpsUsers
          /\ opsRole[accessJob[i].user] # "new" /\ accessJob[i].role \in OpsRoles
          /\ \/ accessJob[i].role = roleGiven[accessJob[i].user]
             \/ <<"user", accessJob[i].user>> \in overlapped
      BY <2>2, <3>1, AccessJobFields DEF RolesHeld
    <3>3. CASE accessJob[i].user # u
      BY <1>1, <1>2, <3>1, <3>2, <3>3
    <3>4. CASE accessJob[i].user = u
      <4>1. <<"user", u>> \in overlapped
        BY <1>3, <3>1, <3>4
      <4>2. opsRole'[u] # "new"
        BY <1>1, <3>2, <3>4, AccessNames
      <4> QED
        BY <3>1, <3>2, <3>4, <4>1, <4>2
    <3> QED
      BY <3>3, <3>4
  <2> QED
    BY <2>1, <2>2 DEF RolesHeld, AccessBusy
<1> QED
  BY <1>1, <1>2, <1>5, <1>6

LEMMA CreateKeepsRoles ==
    ASSUME AccessTypes, RolesRight, RolesHeld, NEW u \in OpsUsers, NEW r \in OpsRoles, CreateOpsUser(u, r)
    PROVE  /\ RolesRight' /\ RolesHeld'
           /\ opsRole' \in [OpsUsers -> OpsRoles \cup {"new", "gone"}]
           /\ roleGiven' \in [OpsUsers -> OpsRoles \cup {"new"}]
<1>1. /\ opsRole[u] = "new" /\ opsRole' = [opsRole EXCEPT ![u] = r]
      /\ roleGiven' = [roleGiven EXCEPT ![u] = r] /\ accessJob' = accessJob /\ overlapped' = overlapped
  BY DEF CreateOpsUser
<1>2. /\ opsRole' \in [OpsUsers -> OpsRoles \cup {"new", "gone"}] /\ opsRole'[u] = r
      /\ roleGiven' \in [OpsUsers -> OpsRoles \cup {"new"}] /\ roleGiven'[u] = r
      /\ \A v \in OpsUsers \ {u} : opsRole'[v] = opsRole[v] /\ roleGiven'[v] = roleGiven[v]
  BY <1>1 DEF AccessTypes
<1>3. RolesRight'
  BY <1>1, <1>2 DEF RolesRight, HasRow
<1>4. \A i \in AccessJobs : accessJob[i].pc \in {"login", "edit"} =>
         accessJob[i].user \in OpsUsers \ {u}
  BY <1>1, AccessJobFields DEF RolesHeld
<1>5. RolesHeld'
  BY <1>1, <1>2, <1>4 DEF RolesHeld, AccessBusy
<1> QED
  BY <1>2, <1>3, <1>5

LEMMA DeleteKeepsRoles ==
    ASSUME AccessTypes, RolesRight, RolesHeld, NEW u \in OpsUsers, DeleteOpsUser(u)
    PROVE  /\ RolesRight' /\ RolesHeld' /\ opsRole' \in [OpsUsers -> OpsRoles \cup {"new", "gone"}]
<1>1. /\ opsRole' = [opsRole EXCEPT ![u] = "gone"] /\ roleGiven' = roleGiven /\ accessJob' = accessJob
      /\ overlapped' = overlapped
  BY DEF DeleteOpsUser
<1>2. /\ opsRole' \in [OpsUsers -> OpsRoles \cup {"new", "gone"}] /\ opsRole'[u] = "gone"
      /\ \A v \in OpsUsers \ {u} : opsRole'[v] = opsRole[v]
  BY <1>1 DEF AccessTypes
<1>3. RolesRight'
  BY <1>1, <1>2, AccessNames DEF RolesRight, HasRow
<1>4. \A i \in AccessJobs : accessJob[i].pc \in {"login", "edit"} => accessJob[i].user \in OpsUsers
  BY AccessJobFields
<1>5. \A v \in OpsUsers : opsRole[v] # "new" => opsRole'[v] # "new"
  BY <1>2
<1>6. RolesHeld'
  BY <1>1, <1>4, <1>5 DEF RolesHeld, AccessBusy
<1> QED
  BY <1>2, <1>3, <1>6

-----------------------------------------------------------------------------
\* A token is made: nobody has it yet.
LEMMA IssueKeepsTokens ==
    ASSUME AccessTypes, TokensOnce, TokensHeld, NEW j \in AccessJobs, IssueTokens(j)
    PROVE  /\ TokensOnce' /\ TokensHeld' /\ secrets' \subseteq Issued'
           /\ refresh' \in [RefreshIds -> OpsUsers \cup {"none"}]
<1>1. PICK t \in RefreshIds \ Issued :
         refresh' = [refresh EXCEPT ![t] = accessJob[j].user] /\ secrets' = secrets \cup {t}
  BY DEF IssueTokens
<1>2. /\ accessJob[j].pc = "issue" /\ accessJob' = [accessJob EXCEPT ![j] = FreeAccess]
      /\ overlapped' = overlapped /\ spent' = spent
  BY DEF IssueTokens, FreeNow
<1>3. accessJob[j].user \in OpsUsers
  BY <1>2, AccessJobFields
<1>4. /\ refresh' \in [RefreshIds -> OpsUsers \cup {"none"}] /\ refresh'[t] = accessJob[j].user
      /\ \A s \in RefreshIds \ {t} : refresh'[s] = refresh[s]
  BY <1>1, <1>3 DEF AccessTypes
<1>5. Issued' = Issued \cup {t}
  BY <1>1, <1>3, <1>4 DEF Issued
<1>6. \A i \in AccessJobs : accessJob'[i].pc = "rotate" => accessJob'[i] = accessJob[i] /\ accessJob[i].pc = "rotate"
  BY <1>2, AccessNames DEF AccessTypes
<1>7. \A s \in RefreshIds : Rotating(s)' \subseteq Rotating(s)
  BY <1>6 DEF Rotating
<1>8. TokensOnce'
  BY <1>2 DEF TokensOnce
<1>9. spent[t] = 0 /\ Rotating(t) = {}
  BY <1>1 DEF TokensHeld, Rotating
<1>10. TokensHeld'
  <2>1. \A i \in AccessJobs : accessJob'[i].pc = "rotate" =>
          accessJob'[i].token \in Issued' /\ refresh'[accessJob'[i].token] = accessJob'[i].user
    <3> SUFFICES ASSUME NEW i \in AccessJobs, accessJob'[i].pc = "rotate"
                 PROVE  accessJob'[i].token \in Issued' /\ refresh'[accessJob'[i].token] = accessJob'[i].user
      OBVIOUS
    <3>1. accessJob'[i] = accessJob[i] /\ accessJob[i].token \in Issued
          /\ refresh[accessJob[i].token] = accessJob[i].user
      BY <1>6 DEF TokensHeld
    <3>2. accessJob[i].token # t /\ accessJob[i].token \in RefreshIds
      BY <1>1, <3>1 DEF Issued
    <3> QED
      BY <1>4, <1>5, <3>1, <3>2
  <2>2. \A s \in RefreshIds \ Issued' : spent'[s] = 0
    BY <1>2, <1>5 DEF TokensHeld
  <2>3. ASSUME NEW s \in Issued', <<"token", s>> \notin overlapped'
        PROVE  /\ s \in secrets' \/ Rotating(s)' # {} => spent'[s] = 0
               /\ \A i, k \in Rotating(s)' : i = k
    <3>0. Rotating(s)' \subseteq Rotating(s)
      BY <1>5, <1>7, <2>3 DEF Issued
    <3>1. CASE s = t
      BY <1>2, <1>9, <3>0, <3>1
    <3>2. CASE s # t
      <4>1. /\ s \in secrets \/ Rotating(s) # {} => spent[s] = 0
            /\ \A i, k \in Rotating(s) : i = k
        BY <1>2, <1>5, <2>3, <3>2 DEF TokensHeld
      <4> QED
        BY <1>1, <1>2, <3>0, <3>2, <4>1
    <3> QED
      BY <3>1, <3>2
  <2> QED
    BY <2>1, <2>2, <2>3 DEF TokensHeld
<1>11. secrets' \subseteq Issued'
  BY <1>1, <1>5 DEF AccessTypes
<1> QED
  BY <1>4, <1>8, <1>10, <1>11

\* A refresh found its token in the map.
LEMMA RefreshKeepsTokens ==
    ASSUME AccessTypes, TokensOnce, TokensHeld, NEW j \in AccessJobs, NEW t \in secrets,
           refresh' = refresh, spent' = spent, secrets' = secrets, overlapped \subseteq overlapped',
           NEW job \in AccessRow, job.pc = "rotate", job.user = refresh[t], job.token = t,
           accessJob[j] = FreeAccess, accessJob'[j] = job,
           \A i \in AccessJobs \ {j} : accessJob'[i] = accessJob[i],
           \A i \in AccessJobs \ {j} :
              accessJob[i] # FreeAccess /\ accessJob[i].user = job.user /\ accessJob[i].token = job.token
                 => <<"token", job.token>> \in overlapped'
    PROVE  TokensOnce' /\ TokensHeld'
<1>0. Issued' = Issued /\ t \in Issued /\ Issued \subseteq RefreshIds
  BY DEF Issued, AccessTypes
<1>1. TokensOnce'
  BY DEF TokensOnce
<1>2. \A i \in AccessJobs : accessJob'[i].pc = "rotate" =>
          accessJob'[i].token \in Issued /\ refresh[accessJob'[i].token] = accessJob'[i].user
  BY <1>0 DEF TokensHeld
<1>3. \A s \in Issued : Rotating(s)' \subseteq Rotating(s) \cup (IF s = t THEN {j} ELSE {})
  BY DEF Rotating
<1>4. ASSUME NEW s \in Issued, <<"token", s>> \notin overlapped'
      PROVE  /\ s \in secrets \/ Rotating(s)' # {} => spent[s] = 0
             /\ \A i, k \in Rotating(s)' : i = k
  <2>1. /\ s \in secrets \/ Rotating(s) # {} => spent[s] = 0
        /\ \A i, k \in Rotating(s) : i = k
    BY <1>4 DEF TokensHeld
  <2>2. CASE s # t
    BY <1>3, <2>1, <2>2
  <2>3. CASE s = t
    <3>1. \A i \in Rotating(t) : i = j
      <4> SUFFICES ASSUME NEW i \in Rotating(t), i # j PROVE FALSE
        OBVIOUS
      <4>1. i \in AccessJobs /\ accessJob[i].pc = "rotate" /\ accessJob[i].token = t
        BY DEF Rotating
      <4>2. accessJob[i] # FreeAccess /\ accessJob[i].user = refresh[t]
        BY <4>1, AccessNames DEF TokensHeld
      <4> QED
        BY <1>4, <2>3, <4>1, <4>2
    <3> QED
      BY <1>3, <2>1, <2>3, <3>1
  <2> QED
    BY <2>2, <2>3
<1>5. TokensHeld'
  BY <1>0, <1>2, <1>4 DEF TokensHeld
<1> QED
  BY <1>1, <1>5

\* The token is taken from the map and spent.
LEMMA RotateKeepsTokens ==
    ASSUME AccessTypes, TokensOnce, TokensHeld, NEW j \in AccessJobs, RotateToken(j)
    PROVE  /\ TokensOnce' /\ TokensHeld' /\ Issued' = Issued /\ spent' \in [RefreshIds -> Nat]
           /\ secrets' \subseteq secrets
<1>1. PICK t \in Issued : t = accessJob[j].token
  BY DEF TokensHeld, RotateToken
<1>2. /\ accessJob[j].pc = "rotate" /\ secrets' = secrets \ {t} /\ spent' = [spent EXCEPT ![t] = @ + 1]
      /\ accessJob' = [accessJob EXCEPT ![j].pc = "read"] /\ refresh' = refresh /\ overlapped' = overlapped
  BY <1>1 DEF RotateToken
<1>3. t \in RefreshIds /\ Issued' = Issued /\ Issued \subseteq RefreshIds
  BY <1>2 DEF Issued
<1>4. /\ spent[t] \in Nat /\ spent' \in [RefreshIds -> Nat] /\ spent'[t] = spent[t] + 1
      /\ \A s \in RefreshIds \ {t} : spent'[s] = spent[s]
  BY <1>2, <1>3 DEF AccessTypes
<1>5. accessJob'[j].pc = "read" /\ \A i \in AccessJobs \ {j} : accessJob'[i] = accessJob[i]
  <2>1. accessJob[j] \in AccessRow
    BY <1>2, AccessJobFields
  <2> QED
    BY <1>2, <2>1 DEF AccessTypes, AccessRow
<1>6. j \in Rotating(t) /\ (<<"token", t>> \in overlapped \/ (spent[t] = 0 /\ \A i \in Rotating(t) : i = j))
  BY <1>1, <1>2 DEF Rotating, TokensHeld
<1>7. TokensOnce'
  <2>1. ASSUME NEW s \in RefreshIds, <<"token", s>> \notin overlapped PROVE spent'[s] <= 1
    <3>1. CASE s # t
      BY <1>4, <2>1, <3>1 DEF TokensOnce
    <3>2. CASE s = t
      BY <1>4, <1>6, <2>1, <3>2
    <3> QED
      BY <3>1, <3>2
  <2> QED
    BY <1>2, <2>1 DEF TokensOnce
<1>8. \A s \in RefreshIds : Rotating(s)' \subseteq Rotating(s) \ {j}
  BY <1>5 DEF Rotating
<1>9. \A i \in AccessJobs : accessJob'[i].pc = "rotate" =>
          accessJob'[i].token \in Issued /\ refresh[accessJob'[i].token] = accessJob'[i].user
  BY <1>5 DEF TokensHeld
<1>10. \A s \in RefreshIds \ Issued : spent'[s] = 0
  BY <1>4, <1>3, <1>1 DEF TokensHeld
<1>11. ASSUME NEW s \in Issued, <<"token", s>> \notin overlapped
       PROVE  /\ s \in secrets' \/ Rotating(s)' # {} => spent'[s] = 0
              /\ \A i, k \in Rotating(s)' : i = k
  <2>0. Rotating(s)' \subseteq Rotating(s) \ {j}
    BY <1>3, <1>8
  <2>1. CASE s # t
    <3>1. /\ s \in secrets \/ Rotating(s) # {} => spent[s] = 0
          /\ \A i, k \in Rotating(s) : i = k
      BY <1>11 DEF TokensHeld
    <3> QED
      BY <1>2, <1>3, <1>4, <2>0, <2>1, <3>1
  <2>2. CASE s = t
    <3>1. Rotating(t)' = {} /\ t \notin secrets'
      BY <1>2, <1>6, <1>11, <2>0, <2>2
    <3> QED
      BY <2>2, <3>1
  <2> QED
    BY <2>1, <2>2
<1>12. TokensHeld'
  BY <1>2, <1>3, <1>9, <1>10, <1>11 DEF TokensHeld
<1> QED
  BY <1>2, <1>3, <1>4, <1>7, <1>12

-----------------------------------------------------------------------------
\* A request goes on to another step, or is done.
LEMMA AccessJobMoves ==
    ASSUME AccessTypes, NEW j \in AccessJobs, accessJob[j] \in AccessRow,
           NEW p \in {"read", "issue"},
           \/ accessJob' = [accessJob EXCEPT ![j] = FreeAccess]
           \/ accessJob' = [accessJob EXCEPT ![j].pc = p]
           \/ \E r \in OpsRoles : accessJob' = [accessJob EXCEPT ![j].pc = p, ![j].role = r]
    PROVE  /\ accessJob' \in [AccessJobs -> AccessRow \cup {FreeAccess}]
           /\ \A i \in AccessJobs \ {j} : accessJob'[i] = accessJob[i]
           /\ accessJob'[j] = FreeAccess \/ (accessJob'[j].pc = p /\ accessJob'[j].user = accessJob[j].user)
<1>0. accessJob \in [AccessJobs -> AccessRow \cup {FreeAccess}]
  BY DEF AccessTypes
<1>1. CASE accessJob' = [accessJob EXCEPT ![j] = FreeAccess]
  BY <1>0, <1>1
<1>2. ASSUME NEW q \in AccessRow, q.pc = p, q.user = accessJob[j].user, accessJob' = [accessJob EXCEPT ![j] = q]
      PROVE  /\ accessJob' \in [AccessJobs -> AccessRow \cup {FreeAccess}]
             /\ \A i \in AccessJobs \ {j} : accessJob'[i] = accessJob[i]
             /\ accessJob'[j].pc = p /\ accessJob'[j].user = accessJob[j].user
  BY <1>0, <1>2
<1>3. CASE accessJob' = [accessJob EXCEPT ![j].pc = p]
  <2>1. PICK q \in AccessRow : q = [accessJob[j] EXCEPT !.pc = p]
    BY DEF AccessRow
  <2>2. q.pc = p /\ q.user = accessJob[j].user
    BY <2>1 DEF AccessRow
  <2>3. accessJob' = [accessJob EXCEPT ![j] = q]
    BY <1>3, <2>1
  <2> QED
    BY <1>2, <2>2, <2>3
<1>4. ASSUME NEW r \in OpsRoles, accessJob' = [accessJob EXCEPT ![j].pc = p, ![j].role = r]
      PROVE  /\ accessJob' \in [AccessJobs -> AccessRow \cup {FreeAccess}]
             /\ \A i \in AccessJobs \ {j} : accessJob'[i] = accessJob[i]
             /\ accessJob'[j].pc = p /\ accessJob'[j].user = accessJob[j].user
  <2>1. PICK q \in AccessRow : q = [accessJob[j] EXCEPT !.pc = p, !.role = r]
    BY DEF AccessRow
  <2>2. q.pc = p /\ q.user = accessJob[j].user
    BY <2>1 DEF AccessRow
  <2>3. accessJob' = [accessJob EXCEPT ![j] = q]
    BY <1>0, <1>4, <2>1
  <2> QED
    BY <1>2, <2>2, <2>3
<1> QED
  BY <1>1, <1>3, <1>4

LEMMA AccessKeep == OpsAccessInv /\ [OpsAccessNext]_accessVars => OpsAccessInv'
<1> SUFFICES ASSUME OpsAccessInv, [OpsAccessNext]_accessVars PROVE OpsAccessInv'
  OBVIOUS
<1>0. AccessTypes /\ RolesRight /\ RolesHeld /\ TokensOnce /\ TokensHeld
  BY AccessParts
<1>p. (AccessTypes /\ RolesRight /\ RolesHeld /\ TokensOnce /\ TokensHeld)' => OpsAccessInv'
  BY AccessParts, PTL
<1>i. secrets \subseteq Issued /\ Issued \subseteq RefreshIds
  BY <1>0 DEF AccessTypes, Issued
<1>1. ASSUME NEW u \in OpsUsers, DeleteOpsUser(u) PROVE OpsAccessInv'
  <2>1. UNCHANGED <<refresh, secrets, accessJob, roleGiven, overlapped, spent, accessFaults>>
    BY <1>1 DEF DeleteOpsUser
  <2>2. RolesRight' /\ RolesHeld' /\ opsRole' \in [OpsUsers -> OpsRoles \cup {"new", "gone"}]
    BY <1>0, <1>1, DeleteKeepsRoles
  <2>3. TokensOnce' /\ TokensHeld' /\ Issued' = Issued
    BY <1>0, <2>1, TokensStay
  <2>4. AccessTypes'
    BY <1>0, <2>1, <2>2, <2>3 DEF AccessTypes
  <2> QED
    BY <1>p, <2>2, <2>3, <2>4
<1>2. ASSUME NEW u \in OpsUsers, NEW r \in OpsRoles, CreateOpsUser(u, r) PROVE OpsAccessInv'
  <2>1. UNCHANGED <<refresh, secrets, accessJob, overlapped, spent, accessFaults>>
    BY <1>2 DEF CreateOpsUser
  <2>2. /\ RolesRight' /\ RolesHeld' /\ opsRole' \in [OpsUsers -> OpsRoles \cup {"new", "gone"}]
        /\ roleGiven' \in [OpsUsers -> OpsRoles \cup {"new"}]
    BY <1>0, <1>2, CreateKeepsRoles
  <2>3. TokensOnce' /\ TokensHeld' /\ Issued' = Issued
    BY <1>0, <2>1, TokensStay
  <2>4. AccessTypes'
    BY <1>0, <2>1, <2>2, <2>3 DEF AccessTypes
  <2> QED
    BY <1>p, <2>2, <2>3, <2>4
<1>3. ASSUME NEW j \in AccessJobs, NEW u \in OpsUsers, UpdateOpsUser(j, u) \/ OpsLogin(j, u) PROVE OpsAccessInv'
  <2>0. HasRow(u) /\ opsRole[u] \in OpsRoles
    BY <1>3 DEF UpdateOpsUser, OpsLogin, HasRow
  <2>1. PICK p \in {"login", "edit"} :
           StartAccess(j, [pc |-> p, user |-> u, role |-> opsRole[u], token |-> 0])
    BY <1>3 DEF UpdateOpsUser, OpsLogin
  <2>2. PICK job \in AccessRow : job = [pc |-> p, user |-> u, role |-> opsRole[u], token |-> 0]
    <3>1. 0 \in 0..MaxRefresh /\ p \in {"login", "edit", "rotate", "read", "issue"}
      BY OpsAccessAssumption DEF OpsAccessAssumption
    <3> QED
      BY <2>0, <3>1 DEF AccessRow
  <2>3. /\ StartAccess(j, job) /\ job.user = u /\ job.role = opsRole[u] /\ job.pc # "rotate"
        /\ job.pc \in {"login", "edit"} => HasRow(job.user) /\ job.role = opsRole[job.user]
    BY <2>0, <2>1, <2>2
  <2>4. /\ RolesRight' /\ RolesHeld' /\ overlapped \subseteq overlapped'
        /\ accessJob' \in [AccessJobs -> AccessRow \cup {FreeAccess}] /\ accessJob'[j] = job
        /\ \A i \in AccessJobs \ {j} : accessJob'[i] = accessJob[i]
        /\ UNCHANGED <<opsRole, refresh, secrets, roleGiven, spent, accessFaults>>
    BY <1>0, <2>3, StartKeepsRoles
  <2>5. \A i \in AccessJobs : accessJob'[i].pc = "rotate" => accessJob'[i] = accessJob[i]
    BY <2>3, <2>4
  <2>6. TokensOnce' /\ TokensHeld' /\ Issued' = Issued
    BY <1>0, <2>4, <2>5, TokensStay
  <2>7. AccessTypes'
    BY <1>0, <2>4, <2>6 DEF AccessTypes
  <2> QED
    BY <1>p, <2>4, <2>6, <2>7
<1>4. ASSUME NEW j \in AccessJobs, NEW t \in RefreshIds, RefreshSession(j, t) PROVE OpsAccessInv'
  <2>1. t \in secrets /\ StartAccess(j, [pc |-> "rotate", user |-> refresh[t], role |-> "none", token |-> t])
    BY <1>4 DEF RefreshSession
  <2>2. refresh[t] \in OpsUsers
    BY <1>i, <2>1 DEF Issued
  <2>3. PICK job \in AccessRow : job = [pc |-> "rotate", user |-> refresh[t], role |-> "none", token |-> t]
    BY <2>2, AccessNames DEF AccessRow
  <2>4. /\ StartAccess(j, job) /\ job.pc = "rotate" /\ job.user = refresh[t] /\ job.token = t
        /\ job.pc \in {"login", "edit"} => HasRow(job.user) /\ job.role = opsRole[job.user]
    BY <2>1, <2>3
  <2>5. /\ RolesRight' /\ RolesHeld' /\ overlapped \subseteq overlapped'
        /\ accessJob' \in [AccessJobs -> AccessRow \cup {FreeAccess}] /\ accessJob'[j] = job
        /\ \A i \in AccessJobs \ {j} : accessJob'[i] = accessJob[i]
        /\ UNCHANGED <<opsRole, refresh, secrets, roleGiven, spent, accessFaults>>
        /\ \A i \in AccessJobs \ {j} :
              accessJob[i] # FreeAccess /\ accessJob[i].user = job.user =>
                 /\ <<"user", job.user>> \in overlapped'
                 /\ accessJob[i].token = job.token => <<"token", job.token>> \in overlapped'
    BY <1>0, <2>4, StartKeepsRoles
  <2>6. accessJob[j] = FreeAccess
    BY <2>4 DEF StartAccess
  <2>7. \A i \in AccessJobs \ {j} :
           accessJob[i] # FreeAccess /\ accessJob[i].user = job.user /\ accessJob[i].token = job.token
              => <<"token", job.token>> \in overlapped'
    BY <2>5
  <2>8. TokensOnce' /\ TokensHeld'
    BY <1>0, <2>1, <2>4, <2>5, <2>6, <2>7, RefreshKeepsTokens
  <2>9. AccessTypes'
    BY <1>0, <2>5 DEF AccessTypes, Issued
  <2> QED
    BY <1>p, <2>5, <2>8, <2>9
<1>5. ASSUME NEW j \in AccessJobs, UpdateWrites(j) \/ LoginWrites(j) PROVE OpsAccessInv'
  <2>1. /\ accessJob[j].pc \in {"login", "edit"} /\ UNCHANGED <<refresh, secrets, overlapped, spent>>
        /\ \/ accessJob' = [accessJob EXCEPT ![j] = FreeAccess]
           \/ accessJob' = [accessJob EXCEPT ![j].pc = "issue"]
    BY <1>5 DEF UpdateWrites, LoginWrites, FreeNow
  <2>2. accessJob[j] \in AccessRow /\ accessJob[j].role \in OpsRoles
    BY <1>0, <2>1, AccessJobFields DEF RolesHeld
  <2>3. PICK u \in OpsUsers : u = accessJob[j].user
    BY <1>0, <2>2, AccessJobFields
  <2>4. /\ accessJob' \in [AccessJobs -> AccessRow \cup {FreeAccess}]
        /\ \A i \in AccessJobs \ {j} : accessJob'[i] = accessJob[i]
        /\ accessJob'[j] = FreeAccess \/ (accessJob'[j].pc = "issue" /\ accessJob'[j].user = u)
    BY <1>0, <2>1, <2>2, <2>3, AccessJobMoves
  <2>5. \/ AccessFault /\ UNCHANGED <<opsRole, roleGiven>>
        \/ /\ UNCHANGED accessFaults
           /\ \E r \in OpsRoles :
                 /\ UpdateUserRow(u, r)
                 /\ \/ r = accessJob[j].role /\ roleGiven' = roleGiven
                    \/ roleGiven' = [roleGiven EXCEPT ![u] = IF HasRow(u) THEN r ELSE @]
    BY <1>5, <2>2, <2>3 DEF UpdateWrites, LoginWrites
  <2>6. accessFaults' \in 0..MaxAccessFaults
    BY <1>0, <2>5, AccessFaultCounted
  <2>7. \A i \in AccessJobs : accessJob'[i].pc = "rotate" => accessJob'[i] = accessJob[i]
    BY <2>4, AccessNames
  <2>8. TokensOnce' /\ TokensHeld' /\ Issued' = Issued
    BY <1>0, <2>1, <2>7, TokensStay
  <2>9. /\ RolesRight' /\ RolesHeld' /\ opsRole' \in [OpsUsers -> OpsRoles \cup {"new", "gone"}]
        /\ roleGiven' \in [OpsUsers -> OpsRoles \cup {"new"}]
    <3>1. CASE UNCHANGED <<opsRole, roleGiven>>
      <4>1. \A i \in AccessJobs :
              \/ accessJob'[i] = FreeAccess
              \/ /\ accessJob[i] # FreeAccess /\ accessJob'[i].user = accessJob[i].user
                 /\ accessJob'[i].pc \in {"login", "edit"} => accessJob'[i] = accessJob[i]
        <5>1. accessJob[j] # FreeAccess
          BY <2>1, AccessNames
        <5> QED
          BY <2>3, <2>4, <5>1
      <4> QED
        BY <1>0, <2>1, <3>1, <4>1, RolesStay DEF AccessTypes
    <3>2. ASSUME NEW r \in OpsRoles, UpdateUserRow(u, r),
                 \/ r = accessJob[j].role /\ roleGiven' = roleGiven
                 \/ roleGiven' = [roleGiven EXCEPT ![u] = IF HasRow(u) THEN r ELSE @]
          PROVE  /\ RolesRight' /\ RolesHeld' /\ opsRole' \in [OpsUsers -> OpsRoles \cup {"new", "gone"}]
                 /\ roleGiven' \in [OpsUsers -> OpsRoles \cup {"new"}]
      BY <1>0, <2>1, <2>3, <2>4, <3>2, WriteKeepsRoles
    <3> QED
      BY <2>5, <3>1, <3>2
  <2>10. AccessTypes'
    BY <1>0, <2>1, <2>4, <2>6, <2>8, <2>9 DEF AccessTypes
  <2> QED
    BY <1>p, <2>8, <2>9, <2>10
<1>6. ASSUME NEW j \in AccessJobs, IssueTokens(j) PROVE OpsAccessInv'
  <2>1. /\ accessJob[j].pc = "issue" /\ UNCHANGED <<opsRole, roleGiven, overlapped, spent, accessFaults>>
        /\ accessJob' = [accessJob EXCEPT ![j] = FreeAccess]
    BY <1>6 DEF IssueTokens, FreeNow
  <2>2. accessJob[j] \in AccessRow
    BY <1>0, <2>1, AccessJobFields
  <2>3. /\ accessJob' \in [AccessJobs -> AccessRow \cup {FreeAccess}]
        /\ \A i \in AccessJobs : accessJob'[i] = FreeAccess \/ accessJob'[i] = accessJob[i]
    BY <1>0, <2>1 DEF AccessTypes
  <2>4. RolesRight' /\ RolesHeld'
    BY <1>0, <2>1, <2>3, RolesStay
  <2>5. /\ TokensOnce' /\ TokensHeld' /\ secrets' \subseteq Issued'
        /\ refresh' \in [RefreshIds -> OpsUsers \cup {"none"}]
    BY <1>0, <1>6, IssueKeepsTokens
  <2>6. AccessTypes'
    BY <1>0, <2>1, <2>3, <2>5 DEF AccessTypes
  <2> QED
    BY <1>p, <2>4, <2>5, <2>6
<1>7. ASSUME NEW j \in AccessJobs, RotateToken(j) PROVE OpsAccessInv'
  <2>1. /\ accessJob[j].pc = "rotate" /\ UNCHANGED <<opsRole, refresh, roleGiven, overlapped, accessFaults>>
        /\ accessJob' = [accessJob EXCEPT ![j].pc = "read"]
    BY <1>7 DEF RotateToken
  <2>2. accessJob[j] \in AccessRow /\ accessJob[j] # FreeAccess
    BY <1>0, <2>1, AccessJobFields
  <2>3. /\ accessJob' \in [AccessJobs -> AccessRow \cup {FreeAccess}]
        /\ \A i \in AccessJobs \ {j} : accessJob'[i] = accessJob[i]
        /\ accessJob'[j] = FreeAccess \/ (accessJob'[j].pc = "read" /\ accessJob'[j].user = accessJob[j].user)
    BY <1>0, <2>1, <2>2, AccessJobMoves
  <2>4. \A i \in AccessJobs :
           \/ accessJob'[i] = FreeAccess
           \/ /\ accessJob[i] # FreeAccess /\ accessJob'[i].user = accessJob[i].user
              /\ accessJob'[i].pc \in {"login", "edit"} => accessJob'[i] = accessJob[i]
    BY <2>2, <2>3
  <2>5. RolesRight' /\ RolesHeld'
    BY <1>0, <2>1, <2>4, RolesStay
  <2>6. /\ TokensOnce' /\ TokensHeld' /\ Issued' = Issued /\ spent' \in [RefreshIds -> Nat]
        /\ secrets' \subseteq secrets
    BY <1>0, <1>7, RotateKeepsTokens
  <2>7. AccessTypes'
    BY <1>0, <2>1, <2>3, <2>6 DEF AccessTypes
  <2> QED
    BY <1>p, <2>5, <2>6, <2>7
<1>8. ASSUME NEW j \in AccessJobs, RefreshReads(j) PROVE OpsAccessInv'
  <2>1. /\ accessJob[j].pc = "read"
        /\ UNCHANGED <<opsRole, refresh, secrets, roleGiven, overlapped, spent, accessFaults>>
        /\ \/ accessJob' = [accessJob EXCEPT ![j] = FreeAccess]
           \/ \E r \in OpsRoles : accessJob' = [accessJob EXCEPT ![j].pc = "issue", ![j].role = r]
    BY <1>8 DEF RefreshReads, FreeNow, HasRow
  <2>2. accessJob[j] \in AccessRow /\ accessJob[j] # FreeAccess
    BY <1>0, <2>1, AccessJobFields
  <2>3. /\ accessJob' \in [AccessJobs -> AccessRow \cup {FreeAccess}]
        /\ \A i \in AccessJobs \ {j} : accessJob'[i] = accessJob[i]
        /\ accessJob'[j] = FreeAccess \/ (accessJob'[j].pc = "issue" /\ accessJob'[j].user = accessJob[j].user)
    BY <1>0, <2>1, <2>2, AccessJobMoves
  <2>4. \A i \in AccessJobs :
           \/ accessJob'[i] = FreeAccess
           \/ /\ accessJob[i] # FreeAccess /\ accessJob'[i].user = accessJob[i].user
              /\ accessJob'[i].pc \in {"login", "edit"} => accessJob'[i] = accessJob[i]
    BY <2>2, <2>3
  <2>5. RolesRight' /\ RolesHeld'
    BY <1>0, <2>1, <2>4, RolesStay
  <2>6. \A i \in AccessJobs : accessJob'[i].pc = "rotate" => accessJob'[i] = accessJob[i]
    BY <2>3, AccessNames
  <2>7. TokensOnce' /\ TokensHeld' /\ Issued' = Issued
    BY <1>0, <2>1, <2>6, TokensStay
  <2>8. AccessTypes'
    BY <1>0, <2>1, <2>3, <2>7 DEF AccessTypes
  <2> QED
    BY <1>p, <2>5, <2>7, <2>8
<1>9. ASSUME \/ \E t \in RefreshIds : OpsLogout(t)
             \/ AccessRestarts \/ UNCHANGED accessVars
      PROVE  OpsAccessInv'
  <2>1. /\ UNCHANGED <<opsRole, refresh, roleGiven, overlapped, spent>> /\ secrets' \subseteq secrets
        /\ accessJob' \in [AccessJobs -> AccessRow \cup {FreeAccess}]
        /\ \A i \in AccessJobs : accessJob'[i] = FreeAccess \/ accessJob'[i] = accessJob[i]
        /\ AccessFault \/ UNCHANGED accessFaults
    BY <1>0, <1>9 DEF AccessTypes, OpsLogout, AccessRestarts, accessVars
  <2>2. accessFaults' \in 0..MaxAccessFaults
    BY <1>0, <2>1, AccessFaultCounted
  <2>3. RolesRight' /\ RolesHeld'
    BY <1>0, <2>1, RolesStay
  <2>4. \A i \in AccessJobs : accessJob'[i].pc = "rotate" => accessJob'[i] = accessJob[i]
    BY <2>1, AccessNames
  <2>5. TokensOnce' /\ TokensHeld' /\ Issued' = Issued
    BY <1>0, <2>1, <2>4, TokensStay
  <2>6. AccessTypes'
    BY <1>0, <2>1, <2>2, <2>5 DEF AccessTypes
  <2> QED
    BY <1>p, <2>3, <2>5, <2>6
<1> QED
  BY <1>1, <1>2, <1>3, <1>4, <1>5, <1>6, <1>7, <1>8, <1>9 DEF OpsAccessNext

\* A portal user has the role given last, and a refresh token is exchanged once, unless
\* two requests were at the user or the token together (auth.go, users.go).
THEOREM RolesAndTokensAreKept == OpsAccessSpec => []RolesAndTokensKept
<1>1. OpsAccessInv => RolesAndTokensKept
  BY DEF OpsAccessInv
<1> QED
  BY <1>1, InitAccess, AccessKeep, PTL DEF OpsAccessSpec

-----------------------------------------------------------------------------
(***************************************************************************)
(* Migrations.                                                              *)
(***************************************************************************)
\* The oldest of a set of versions.
LEMMA OldestVersion ==
    ASSUME NEW S, S \subseteq Nat, S # {}
    PROVE  Least(S) \in S /\ \A w \in S : Least(S) <= w
<1> DEFINE R == OpToRel(<, Nat)
<1>1. IsWellFoundedOn(R, Nat)
  BY NatLessThanWellFounded
<1>2. \A x, y \in Nat : <<y, x>> \in R <=> y < x
  BY DEF OpToRel
<1> HIDE DEF R
<1>3. PICK z \in S : \A y \in S : ~ (<<y, z>> \in R)
  BY <1>1, WFMin
<1>4. \A y \in S : ~(y < z)
  <2> SUFFICES ASSUME NEW y \in S PROVE ~(y < z)
    OBVIOUS
  <2>1. y \in Nat /\ z \in Nat /\ ~(<<y, z>> \in R)
    BY <1>3
  <2> QED
    BY <1>2, <2>1
<1>5. z \in Nat /\ \A y \in S : y \in Nat
  OBVIOUS
<1>6. \A y \in S : z <= y
  BY <1>4, <1>5
<1> QED
  BY <1>6 DEF Least

SchemaNumbers == {NoVersion} \cup Nat

LEMMA VersionsAreNumbers ==
    /\ SchemaVersions \subseteq Nat \ {0} /\ SchemaNumbers \subseteq Int /\ NoVersion \in SchemaNumbers
    /\ NoVersion = -1 /\ "free" \notin Replicas /\ MaxBoots \in Nat /\ MaxMigrationFaults \in Nat
BY MigrationsAssumption DEF MigrationsAssumption, SchemaNumbers, NoVersion

\* The invariant, spread out: the row's fields and what each replica knows.
LEMMA SchemaTypes ==
    ASSUME MigrationsInv
    PROVE  /\ schema.version \in SchemaNumbers /\ schema.dirty \in BOOLEAN
           /\ ran \in [SchemaVersions -> Nat] /\ excuse \subseteq SchemaVersions
           /\ migrator \in [Replicas -> [stage : MigratorStages, version : SchemaNumbers]]
           /\ schemaLock \in Replicas \cup {"free"} /\ boots \in 0..MaxBoots
           /\ migrationFaults \in 0..MaxMigrationFaults
BY DEF MigrationsInv, MigrationsTypeOK, SchemaNumbers

\* A replica moves on, the others stay.
LEMMA MigratorMoves ==
    ASSUME MigrationsInv, NEW r \in Replicas, NEW stage \in MigratorStages, NEW v \in SchemaNumbers,
           MigrateTo(r, stage, v)
    PROVE  /\ migrator' \in [Replicas -> [stage : MigratorStages, version : SchemaNumbers]]
           /\ migrator'[r].stage = stage /\ migrator'[r].version = v
           /\ \A s \in Replicas \ {r} : migrator'[s] = migrator[s]
<1>1. PICK q \in [stage : MigratorStages, version : SchemaNumbers] :
         q = [stage |-> stage, version |-> v] /\ q.stage = stage /\ q.version = v
  <2>1. [stage |-> stage, version |-> v] \in [stage : MigratorStages, version : SchemaNumbers]
    OBVIOUS
  <2> QED
    BY <2>1
<1>2. migrator' = [migrator EXCEPT ![r] = q]
  BY <1>1 DEF MigrateTo, Migrator
<1> QED
  BY <1>1, <1>2, SchemaTypes

\* A replica that does not write the row moves: the row stays, the lock is taken or let go.
LEMMA MoveKeeps ==
    ASSUME MigrationsInv, NEW r \in Replicas, NEW stage \in MigratorStages, NEW v \in SchemaNumbers,
           MigrateTo(r, stage, v), UNCHANGED <<schema, ran>>,
           excuse \subseteq excuse', excuse' \subseteq SchemaVersions,
           schemaLock' \in Replicas \cup {"free"}, boots' \in 0..MaxBoots, migrationFaults' \in 0..MaxMigrationFaults,
           schemaLock' = schemaLock \/ schemaLock \in {r, "free"},
           stage \in {"off", "version", "force", "up", "mark", "serving", "unmigrated"},
           stage = "force" => Forcible(v)',
           stage = "mark" => schemaLock' = r /\ ~schema.dirty,
           stage = "serving" => \A w \in SchemaVersions : ran[w] > 0
    PROVE  MigrationsInv'
<1>1. /\ migrator' \in [Replicas -> [stage : MigratorStages, version : SchemaNumbers]]
      /\ migrator'[r].stage = stage /\ migrator'[r].version = v
      /\ \A s \in Replicas \ {r} : migrator'[s] = migrator[s]
  BY MigratorMoves
<1>2. MigrationsTypeOK'
  BY <1>1, SchemaTypes DEF MigrationsInv, MigrationsTypeOK, SchemaNumbers
<1>3. MigrationsSound'
  <2>1. \A s \in Replicas : migrator'[s].stage = "serving" => \A w \in SchemaVersions : ran[w] > 0
    BY <1>1 DEF MigrationsInv, MigrationsSound, Stage
  <2>2. \A s \in Replicas : migrator'[s].stage \in {"mark", "run", "clear"} => schemaLock' = s
    BY <1>1, VersionsAreNumbers DEF MigrationsInv, MigrationsSound
  <2>3. /\ \A x, w \in SchemaVersions : x < w /\ ran[w] > 0 => ran[x] > 0
        /\ \A w \in SchemaVersions : ran[w] > 1 => w \in excuse'
    BY DEF MigrationsInv, MigrationsSound
  <2> QED
    BY <2>1, <2>2, <2>3 DEF MigrationsSound, Stage
<1>4. RowStands'
  <2>1. schema' = schema /\ ran' = ran /\ RowStands
    BY DEF MigrationsInv
  <2> QED
    BY <2>1 DEF RowStands, StandsFor
<1>5. ASSUME NEW s \in Replicas PROVE Knows(s)'
  <2>1. CASE s = r
    BY <1>1, <2>1 DEF Knows, Stage, Forcible
  <2>2. CASE s # r
    <3>1. migrator'[s] = migrator[s] /\ Knows(s) /\ schema' = schema /\ ran' = ran
      BY <1>1, <2>2 DEF MigrationsInv
    <3> QED
      BY <3>1 DEF Knows, Stage, Forcible
  <2> QED
    BY <2>1, <2>2
<1> QED
  BY <1>2, <1>3, <1>4, <1>5 DEF MigrationsInv

LEMMA StageNames ==
    /\ "off" \in MigratorStages /\ "version" \in MigratorStages /\ "force" \in MigratorStages
    /\ "up" \in MigratorStages /\ "mark" \in MigratorStages /\ "run" \in MigratorStages
    /\ "clear" \in MigratorStages /\ "serving" \in MigratorStages /\ "unmigrated" \in MigratorStages
BY DEF MigratorStages

LEMMA RunUpKeeps ==
    ASSUME MigrationsInv, NEW r \in Replicas, NEW skip \in BOOLEAN, RunUp(r, skip) PROVE MigrationsInv'
<1>1. PICK stage \in {"unmigrated", "version"} : MigrateTo(r, stage, NoVersion)
  BY DEF RunUp
<1>2. boots' \in 0..MaxBoots
  BY SchemaTypes, VersionsAreNumbers DEF RunUp
<1>3. UNCHANGED <<schema, ran>> /\ excuse' = excuse /\ schemaLock' = schemaLock /\ migrationFaults' = migrationFaults
  BY DEF RunUp
<1> QED
  BY <1>1, <1>2, <1>3, MoveKeeps, SchemaTypes, VersionsAreNumbers, StageNames

\* The number read from a dirty row: every file from it on is excused from now on.
LEMMA VersionKeeps == ASSUME MigrationsInv, NEW r \in Replicas, Version(r) PROVE MigrationsInv'
<1>0. /\ UNCHANGED <<schema, ran>> /\ schemaLock' = schemaLock /\ boots' = boots
      /\ migrationFaults' = migrationFaults
  BY DEF Version
<1>1. CASE schema.dirty
  <2>1. MigrateTo(r, "force", schema.version - 1) /\ excuse' = excuse \cup From(schema.version)
    BY <1>1 DEF Version
  <2>2. /\ schema.version \in SchemaVersions
        /\ \A w \in SchemaVersions : w < schema.version => ran[w] > 0
    BY <1>1 DEF MigrationsInv, RowStands
  <2>3. PICK v \in SchemaNumbers : v = schema.version - 1
    <3>0. schema.version \in Nat \ {0}
      BY <2>2, VersionsAreNumbers
    <3>1. schema.version - 1 \in Nat
      BY <3>0
    <3> QED
      BY <3>1 DEF SchemaNumbers
  <2>4. Forcible(v)'
    <3> SUFFICES ASSUME NEW w \in SchemaVersions
                 PROVE  /\ w <= v => ran[w] > 0
                        /\ w > v => w \in excuse'
      BY <1>0 DEF Forcible
    <3>1. w \in Nat /\ schema.version \in Nat
      BY <2>2, VersionsAreNumbers
    <3> QED
      BY <2>1, <2>2, <2>3, <3>1 DEF From
  <2>5. excuse \subseteq excuse' /\ excuse' \subseteq SchemaVersions
    BY <2>1, SchemaTypes DEF From
  <2>6. MigrateTo(r, "force", v)
    BY <2>1, <2>3
  <2> QED
    BY <1>0, <2>4, <2>5, <2>6, MoveKeeps, SchemaTypes, StageNames
<1>2. CASE ~schema.dirty
  <2>1. MigrateTo(r, "up", NoVersion) /\ excuse' = excuse
    BY <1>2 DEF Version
  <2> QED
    BY <1>0, <2>1, MoveKeeps, SchemaTypes, VersionsAreNumbers, StageNames
<1> QED
  BY <1>1, <1>2

LEMMA UpKeeps == ASSUME MigrationsInv, NEW r \in Replicas, Up(r) PROVE MigrationsInv'
<1>0. /\ UNCHANGED <<schema, ran>> /\ excuse' = excuse /\ boots' = boots
      /\ migrationFaults' = migrationFaults /\ schemaLock = "free"
  BY DEF Up
<1>1. CASE MigrateTo(r, "off", NoVersion) /\ UNCHANGED schemaLock
  BY <1>0, <1>1, MoveKeeps, SchemaTypes, VersionsAreNumbers, StageNames
<1>2. CASE ~schema.dirty /\ schemaLock' = r /\ MigrateTo(r, "mark", NoVersion)
  BY <1>0, <1>2, MoveKeeps, SchemaTypes, VersionsAreNumbers, StageNames
<1> QED
  BY <1>1, <1>2 DEF Up

LEMMA ReplicaDies == ASSUME MigrationsInv, NEW r \in Replicas, Dies(r) PROVE MigrationsInv'
<1>1. /\ UNCHANGED <<schema, ran>> /\ excuse' = excuse /\ boots' = boots /\ MigrateTo(r, "off", NoVersion)
      /\ schemaLock' = IF schemaLock = r THEN "free" ELSE schemaLock
  BY DEF Dies
<1>2. migrationFaults' \in 0..MaxMigrationFaults
  BY SchemaTypes, VersionsAreNumbers DEF Dies, MigrationFault
<1>3. schemaLock' \in Replicas \cup {"free"} /\ (schemaLock' = schemaLock \/ schemaLock \in {r, "free"})
  BY <1>1, SchemaTypes
<1> QED
  BY <1>1, <1>2, <1>3, MoveKeeps, SchemaTypes, VersionsAreNumbers, StageNames

\* The holder of the lock, or one that finds it free, writes the row.
LEMMA RowWritten ==
    ASSUME MigrationsInv, NEW r \in Replicas, NEW stage \in MigratorStages, NEW v \in SchemaNumbers,
           MigrateTo(r, stage, v), UNCHANGED <<excuse, schemaLock, boots, migrationFaults>>,
           ran' \in [SchemaVersions -> Nat], \A w \in SchemaVersions : ran[w] > 0 => ran'[w] > 0,
           \A w \in SchemaVersions : ran'[w] > 0 /\ ran[w] = 0 => \A x \in SchemaVersions : x < w => ran[x] > 0,
           \A w \in SchemaVersions : ran'[w] > 1 => w \in excuse,
           \A s \in Replicas \ {r} : Stage(s, "force") => Forcible(migrator[s].version)',
           schema' \in [version : SchemaNumbers, dirty : BOOLEAN],
           schemaLock = r \/ (schemaLock = "free" /\ stage = "up"),
           stage \in {"up", "mark", "run", "clear"},
           RowStands',
           stage = "mark" => ~schema'.dirty,
           stage \in {"run", "clear"} => schema'.dirty /\ v = schema'.version,
           stage = "run" /\ ran'[v] > 0 => v \in excuse,
           stage = "clear" => ran'[v] > 0
    PROVE  MigrationsInv'
<1>1. /\ migrator' \in [Replicas -> [stage : MigratorStages, version : SchemaNumbers]]
      /\ migrator'[r].stage = stage /\ migrator'[r].version = v
      /\ \A s \in Replicas \ {r} : migrator'[s] = migrator[s]
  BY MigratorMoves
<1>2. MigrationsTypeOK'
  <2>1. schema' \in [version : {NoVersion} \cup Nat, dirty : BOOLEAN]
    BY DEF SchemaNumbers
  <2>2. migrator' \in [Replicas -> [stage : MigratorStages, version : {NoVersion} \cup Nat]]
    BY <1>1 DEF SchemaNumbers
  <2> QED
    BY <2>1, <2>2, SchemaTypes DEF MigrationsTypeOK
<1>3. \A s \in Replicas \ {r} : migrator[s].stage \notin {"mark", "run", "clear"}
  BY VersionsAreNumbers DEF MigrationsInv, MigrationsSound
<1>4. MigrationsSound'
  <2>1. \A s \in Replicas : migrator'[s].stage = "serving" => \A w \in SchemaVersions : ran'[w] > 0
    BY <1>1 DEF MigrationsInv, MigrationsSound, Stage
  <2>2. \A s \in Replicas : migrator'[s].stage \in {"mark", "run", "clear"} => schemaLock' = s
    BY <1>1, <1>3
  <2>3. ASSUME NEW x \in SchemaVersions, NEW w \in SchemaVersions, x < w, ran'[w] > 0 PROVE ran'[x] > 0
    <3>1. ran[w] \in Nat
      BY SchemaTypes
    <3>2. CASE ran[w] > 0
      BY <2>3, <3>2 DEF MigrationsInv, MigrationsSound
    <3>3. CASE ran[w] = 0
      BY <2>3, <3>3
    <3> QED
      BY <3>1, <3>2, <3>3
  <2> QED
    BY <2>1, <2>2, <2>3 DEF MigrationsSound, Stage
<1>5. ASSUME NEW s \in Replicas PROVE Knows(s)'
  <2>1. CASE s = r
    BY <1>1, <2>1 DEF Knows, Stage
  <2>2. CASE s # r
    <3>1. migrator'[s] = migrator[s] /\ migrator'[s].stage \notin {"mark", "run", "clear"}
      BY <1>1, <1>3, <2>2
    <3>2. Stage(s, "force") => Forcible(migrator[s].version)'
      BY <2>2
    <3> QED
      BY <3>1, <3>2 DEF Knows, Stage
  <2> QED
    BY <2>1, <2>2
<1> QED
  BY <1>2, <1>4, <1>5 DEF MigrationsInv

\* The others' numbers stand for what they stood for: no file is carried out, or one that is excused
\* or comes after all that were.
LEMMA OthersStand ==
    ASSUME MigrationsInv, NEW r \in Replicas, NEW stage, NEW v, MigrateTo(r, stage, v), excuse' = excuse, ran' = ran
    PROVE  \A s \in Replicas \ {r} : Stage(s, "force") => Forcible(migrator[s].version)'
<1> SUFFICES ASSUME NEW s \in Replicas \ {r}, Stage(s, "force") PROVE Forcible(migrator[s].version)'
  OBVIOUS
<1>1. migrator'[s] = migrator[s]
  BY SchemaTypes DEF MigrateTo
<1>2. Forcible(migrator[s].version)
  BY DEF MigrationsInv, Knows
<1> QED
  BY <1>1, <1>2 DEF Forcible

LEMMA ForceKeeps == ASSUME MigrationsInv, NEW r \in Replicas, ForceVersion(r) PROVE MigrationsInv'
<1>1. /\ schema' = [version |-> migrator[r].version, dirty |-> FALSE] /\ MigrateTo(r, "up", NoVersion)
      /\ schemaLock = "free" /\ ran' = ran /\ UNCHANGED <<excuse, schemaLock, boots, migrationFaults>>
      /\ Stage(r, "force")
  BY DEF ForceVersion
<1>2. migrator[r].version \in SchemaNumbers
  BY SchemaTypes
<1>3. schema' \in [version : SchemaNumbers, dirty : BOOLEAN] /\ ~schema'.dirty /\ schema'.version = migrator[r].version
  BY <1>1, <1>2
<1>4. Forcible(migrator[r].version)
  BY <1>1 DEF MigrationsInv, Knows
<1>5. RowStands'
  BY <1>1, <1>3, <1>4 DEF RowStands, StandsFor, Forcible
<1>6. /\ ran' \in [SchemaVersions -> Nat] /\ \A w \in SchemaVersions : ran[w] > 0 => ran'[w] > 0
      /\ \A w \in SchemaVersions : ran'[w] > 0 /\ ran[w] = 0 => \A x \in SchemaVersions : x < w => ran[x] > 0
      /\ \A w \in SchemaVersions : ran'[w] > 1 => w \in excuse
  BY <1>1, SchemaTypes DEF MigrationsInv, MigrationsSound
<1>7. \A s \in Replicas \ {r} : Stage(s, "force") => Forcible(migrator[s].version)'
  BY <1>1, OthersStand
<1> QED
  BY <1>1, <1>3, <1>5, <1>6, <1>7, RowWritten, VersionsAreNumbers, StageNames

LEMMA MarkDirtyKeeps == ASSUME MigrationsInv, NEW r \in Replicas, MarkDirty(r) PROVE MigrationsInv'
<1>0. /\ schemaLock = r /\ ~schema.dirty /\ StandsFor(schema.version)
      /\ ran' = ran /\ excuse' = excuse /\ boots' = boots /\ migrationFaults' = migrationFaults
  BY DEF MigrationsInv, MigrationsSound, RowStands, Knows, Stage, MarkDirty
<1>1. schema.version \in Int
  BY SchemaTypes, VersionsAreNumbers
<1>2. CASE Pending(schema.version) = {}
  <2>1. schemaLock' = "free" /\ MigrateTo(r, "serving", NoVersion) /\ schema' = schema
    BY <1>2 DEF MarkDirty
  <2>2. \A w \in SchemaVersions : ran[w] > 0
    <3>1. \A w \in SchemaVersions : w <= schema.version
      BY <1>1, <1>2, VersionsAreNumbers DEF Pending
    <3> QED
      BY <1>0, <3>1 DEF StandsFor
  <2> QED
    BY <1>0, <2>1, <2>2, MoveKeeps, SchemaTypes, VersionsAreNumbers, StageNames
<1>3. CASE Pending(schema.version) # {}
  <2>1. PICK v : /\ v = Least(Pending(schema.version)) /\ schema' = [version |-> v, dirty |-> TRUE]
                 /\ MigrateTo(r, "run", v) /\ schemaLock' = schemaLock
    BY <1>3 DEF MarkDirty
  <2>2. v \in Pending(schema.version) /\ \A w \in Pending(schema.version) : v <= w
    BY <1>3, <2>1, OldestVersion, VersionsAreNumbers DEF Pending
  <2>3. v \in SchemaVersions /\ v > schema.version /\ v \in SchemaNumbers /\ v \in Nat
    BY <2>2, VersionsAreNumbers DEF Pending, SchemaNumbers
  <2>4. \A w \in SchemaVersions : /\ w < v => ran[w] > 0
                                  /\ w >= v /\ ran[w] > 0 => w \in excuse
    <3> SUFFICES ASSUME NEW w \in SchemaVersions
                 PROVE  /\ w < v => w <= schema.version
                        /\ w >= v => w > schema.version
      BY <1>0 DEF StandsFor
    <3>1. w \in Nat /\ (w > schema.version => w \in Pending(schema.version))
      BY VersionsAreNumbers DEF Pending
    <3> QED
      BY <1>1, <2>2, <2>3, <3>1
  <2>5. schema' \in [version : SchemaNumbers, dirty : BOOLEAN] /\ schema'.dirty /\ schema'.version = v
    BY <2>1, <2>3
  <2>6. RowStands'
    <3>1. \A w \in SchemaVersions : /\ w < v => ran[w] > 0
                                    /\ w > v /\ ran[w] > 0 => w \in excuse
      BY <2>3, <2>4, VersionsAreNumbers
    <3>2. ran' = ran /\ excuse' = excuse
      BY <1>0
    <3> QED
      BY <2>3, <2>5, <3>1, <3>2 DEF RowStands
  <2>7. ran'[v] > 0 => v \in excuse
    <3>1. ran' = ran /\ v >= v
      BY <1>0, <2>3
    <3> QED
      BY <2>3, <2>4, <3>1
  <2>8. /\ ran' \in [SchemaVersions -> Nat] /\ \A w \in SchemaVersions : ran[w] > 0 => ran'[w] > 0
        /\ \A w \in SchemaVersions : ran'[w] > 0 /\ ran[w] = 0 => \A x \in SchemaVersions : x < w => ran[x] > 0
        /\ \A w \in SchemaVersions : ran'[w] > 1 => w \in excuse
    BY <1>0, SchemaTypes DEF MigrationsInv, MigrationsSound
  <2>9. \A s \in Replicas \ {r} : Stage(s, "force") => Forcible(migrator[s].version)'
    BY <1>0, <2>1, OthersStand
  <2> QED
    BY <1>0, <2>1, <2>3, <2>5, <2>6, <2>7, <2>8, <2>9, RowWritten, StageNames
<1> QED
  BY <1>2, <1>3

\* The file is carried out: for the first time, after all before it, or excused.
LEMMA RunFileKeeps == ASSUME MigrationsInv, NEW r \in Replicas, RunFile(r) PROVE MigrationsInv'
<1> DEFINE v == migrator[r].version
<1>0. /\ schemaLock = r /\ schema.dirty /\ v = schema.version /\ (ran[v] > 0 => v \in excuse)
      /\ UNCHANGED <<excuse, schemaLock, boots, migrationFaults>> /\ schema' = schema
      /\ ran' = [ran EXCEPT ![v] = ran[v] + 1] /\ MigrateTo(r, "clear", v)
  BY DEF MigrationsInv, MigrationsSound, Knows, Stage, RunFile
<1>1. /\ v \in SchemaVersions /\ \A w \in SchemaVersions : /\ w < v => ran[w] > 0
                                                           /\ w > v /\ ran[w] > 0 => w \in excuse
  BY <1>0 DEF MigrationsInv, RowStands
<1>2. v \in SchemaNumbers /\ ran \in [SchemaVersions -> Nat]
      /\ schema \in [version : SchemaNumbers, dirty : BOOLEAN]
  BY SchemaTypes DEF MigrationsInv, MigrationsTypeOK, SchemaNumbers
<1> HIDE DEF v
<1>3. /\ ran' \in [SchemaVersions -> Nat] /\ ran'[v] = ran[v] + 1 /\ ran[v] \in Nat
      /\ \A w \in SchemaVersions \ {v} : ran'[w] = ran[w]
  BY <1>0, <1>1, <1>2
<1>4. \A w \in SchemaVersions : ran[w] > 0 => ran'[w] > 0
  BY <1>3
<1>5. \A w \in SchemaVersions : ran'[w] > 0 /\ ran[w] = 0 => \A x \in SchemaVersions : x < w => ran[x] > 0
  <2> SUFFICES ASSUME NEW w \in SchemaVersions, ran'[w] > 0, ran[w] = 0 PROVE w = v
    BY <1>1
  <2> QED
    BY <1>3
<1>6. \A w \in SchemaVersions : ran'[w] > 1 => w \in excuse
  BY <1>0, <1>3 DEF MigrationsInv, MigrationsSound
<1>7. \A s \in Replicas \ {r} : Stage(s, "force") => Forcible(migrator[s].version)'
  <2> SUFFICES ASSUME NEW s \in Replicas \ {r}, Stage(s, "force") PROVE Forcible(migrator[s].version)'
    OBVIOUS
  <2>1. migrator'[s] = migrator[s]
    BY <1>0, SchemaTypes DEF MigrateTo
  <2>2. Forcible(migrator[s].version)
    BY DEF MigrationsInv, Knows
  <2> QED
    BY <1>0, <1>4, <2>1, <2>2 DEF Forcible
<1>8. RowStands'
  <2>1. \A w \in SchemaVersions : /\ w < v => ran'[w] > 0
                                  /\ w > v /\ ran'[w] > 0 => w \in excuse
    BY <1>1, <1>3, <1>4, VersionsAreNumbers
  <2>2. schema'.dirty /\ schema'.version = v /\ excuse' = excuse
    BY <1>0
  <2> QED
    BY <1>1, <2>1, <2>2 DEF RowStands
<1> QED
  BY <1>0, <1>2, <1>3, <1>4, <1>5, <1>6, <1>7, <1>8, RowWritten, StageNames

\* The file's number is marked clean.
LEMMA MarkCleanKeeps == ASSUME MigrationsInv, NEW r \in Replicas, MarkClean(r) PROVE MigrationsInv'
<1> DEFINE v == migrator[r].version
<1>0. /\ schemaLock = r /\ schema.dirty /\ v = schema.version /\ ran[v] > 0
      /\ UNCHANGED <<excuse, schemaLock, boots, migrationFaults>> /\ ran' = ran
      /\ schema' = [version |-> v, dirty |-> FALSE] /\ MigrateTo(r, "mark", NoVersion)
  BY DEF MigrationsInv, MigrationsSound, Knows, Stage, MarkClean
<1>1. \A w \in SchemaVersions : (w < v => ran[w] > 0) /\ (w > v /\ ran[w] > 0 => w \in excuse)
  BY <1>0 DEF MigrationsInv, RowStands
<1>2. v \in SchemaNumbers /\ v \in Int
  BY SchemaTypes, VersionsAreNumbers
<1> HIDE DEF v
<1>3. schema' \in [version : SchemaNumbers, dirty : BOOLEAN] /\ ~schema'.dirty /\ schema'.version = v
  BY <1>0, <1>2
<1>4. \A w \in SchemaVersions : w <= v => ran[w] > 0
  BY <1>0, <1>1, <1>2, VersionsAreNumbers
<1>5. RowStands'
  BY <1>0, <1>1, <1>3, <1>4 DEF RowStands, StandsFor
<1>6. /\ ran' \in [SchemaVersions -> Nat] /\ \A w \in SchemaVersions : ran[w] > 0 => ran'[w] > 0
      /\ \A w \in SchemaVersions : ran'[w] > 0 /\ ran[w] = 0 => \A x \in SchemaVersions : x < w => ran[x] > 0
      /\ \A w \in SchemaVersions : ran'[w] > 1 => w \in excuse
  BY <1>0, SchemaTypes DEF MigrationsInv, MigrationsSound
<1>7. \A s \in Replicas \ {r} : Stage(s, "force") => Forcible(migrator[s].version)'
  BY <1>0, OthersStand
<1> QED
  BY <1>0, <1>3, <1>5, <1>6, <1>7, RowWritten, VersionsAreNumbers, StageNames

LEMMA MigrationsKeep == MigrationsInv /\ [MigrationsNext]_migrationVars => MigrationsInv'
<1> SUFFICES ASSUME MigrationsInv, [MigrationsNext]_migrationVars PROVE MigrationsInv'
  OBVIOUS
<1>1. CASE UNCHANGED migrationVars
  BY <1>1 DEF migrationVars, MigrationsInv, MigrationsTypeOK, MigrationsSound, RowStands, Knows, StandsFor,
              Forcible, Stage
<1>2. ASSUME NEW r \in Replicas, NEW skip \in BOOLEAN, RunUp(r, skip) PROVE MigrationsInv'
  BY <1>2, RunUpKeeps
<1>3. ASSUME NEW r \in Replicas, Version(r) \/ ForceVersion(r) \/ Up(r) \/ Dies(r) PROVE MigrationsInv'
  BY <1>3, VersionKeeps, ForceKeeps, UpKeeps, ReplicaDies
<1>4. ASSUME NEW r \in Replicas, MarkDirty(r) \/ RunFile(r) \/ MarkClean(r) PROVE MigrationsInv'
  BY <1>4, MarkDirtyKeeps, RunFileKeeps, MarkCleanKeeps
<1> QED
  BY <1>1, <1>2, <1>3, <1>4 DEF MigrationsNext

LEMMA InitMigrations == MigrationsInit => MigrationsInv
<1> SUFFICES ASSUME MigrationsInit PROVE MigrationsInv
  OBVIOUS
<1>1. /\ schema.version = -1 /\ schema.dirty = FALSE /\ schema \in [version : {NoVersion} \cup Nat, dirty : BOOLEAN]
      /\ ran \in [SchemaVersions -> Nat] /\ \A w \in SchemaVersions : ran[w] = 0 /\ w \in Nat
      /\ \A r \in Replicas : migrator[r].stage = "off"
  BY VersionsAreNumbers DEF MigrationsInit, NoVersion, Migrator
<1>2. migrator \in [Replicas -> [stage : MigratorStages, version : {NoVersion} \cup Nat]]
  BY DEF MigrationsInit, Migrator, MigratorStages
<1>3. MigrationsTypeOK
  BY <1>1, <1>2, VersionsAreNumbers DEF MigrationsInit, MigrationsTypeOK
<1>4. MigrationsSound
  BY <1>1 DEF MigrationsSound, Stage
<1>5. RowStands /\ \A r \in Replicas : Knows(r)
  BY <1>1 DEF RowStands, Knows, Stage, StandsFor
<1> QED
  BY <1>3, <1>4, <1>5 DEF MigrationsInv

\* However many servers start at once and whichever of them die: a server that migrated serves a
\* schema with every file in it, files are carried out by one replica at a time and in order, and
\* one again only after it, or one before it, was seen dirty (migrate.go: RunUp).
THEOREM MigrationsAreSound == MigrationsSpec => []MigrationsSound
<1>1. MigrationsInv => MigrationsSound
  BY DEF MigrationsInv
<1> QED
  BY <1>1, InitMigrations, MigrationsKeep, PTL DEF MigrationsSpec

-----------------------------------------------------------------------------
(***************************************************************************)
(* The server process.                                                      *)
(***************************************************************************)
LEMMA StepsOfMain ==
    /\ Len(StartSteps) = 13
    /\ \A i \in 1..13 : (StartSteps[i] = "pool" <=> i = 2) /\ (StartSteps[i] = "emitter" <=> i = 9)
    /\ \A w \in Workers_ : \E i \in 1..13 : StartSteps[i] = w
BY DEF StartSteps, Workers_

LEMMA CallsOfMain ==
    /\ Len(DeferredCalls) = 8 /\ DeferredCalls \in Seq(Workers_ \cup {"pool", "emitter"})
    /\ \A i \in 1..8 : (DeferredCalls[i] = "pool" <=> i = 8) /\ (DeferredCalls[i] = "emitter" <=> i = 4)
    /\ \A w \in Workers_ : \E i \in 1..7 : DeferredCalls[i] = w
    /\ "pool" \notin Workers_ /\ "emitter" \notin Workers_
BY DEF DeferredCalls, Workers_

\* Dropping the first of the calls that are left.
LEMMA CallsTail ==
    ASSUME NEW S, NEW c \in Seq(S), c # <<>>
    PROVE  /\ Tail(c) \in Seq(S) /\ Len(c) \in Nat \ {0} /\ Len(Tail(c)) = Len(c) - 1 /\ Head(c) = c[1]
           /\ \A i \in 1..Len(Tail(c)) : Tail(c)[i] = c[i + 1] /\ i + 1 \in 1..Len(c)
OBVIOUS

LEMMA StartKeeps ==
    ASSUME ServerProcessInv, Start PROVE ServerProcessInv'
<1> DEFINE s == StartSteps[step']
<1>1. /\ step \in 0..12 /\ step' = step + 1 /\ step' \in 1..13
      /\ life = "starting" /\ UNCHANGED <<deferred, http, holding, drained, abrupt, lateEmit>>
      /\ life' = IF step' = 13 THEN "serving" ELSE life
  BY StepsOfMain DEF ServerProcessInv, ServerProcessTypeOK, StartedInOrder, Start
<1>2. (poolOpen' <=> step' >= 2) /\ (emitterOpen' <=> step' >= 9)
  <2>1. /\ poolOpen' <=> poolOpen \/ s = "pool"
        /\ emitterOpen' <=> emitterOpen \/ s = "emitter"
    BY Zenon DEF Start
  <2>2. (poolOpen <=> step >= 2) /\ (emitterOpen <=> step >= 9)
    BY <1>1 DEF ServerProcessInv, StartedInOrder
  <2>3. (s = "pool" <=> step' = 2) /\ (s = "emitter" <=> step' = 9)
    BY <1>1, StepsOfMain
  <2> HIDE DEF s
  <2>4. (step' >= 2 <=> step >= 2 \/ step' = 2) /\ (step' >= 9 <=> step >= 9 \/ step' = 9)
    BY <1>1
  <2> QED
    BY <2>1, <2>2, <2>3, <2>4, Zenon
<1>3. poolOpen' \in BOOLEAN /\ emitterOpen' \in BOOLEAN
  BY Zenon DEF Start
<1>4. /\ worker' \in [Workers_ -> {"none", "running", "told", "stopped"}]
      /\ \A w \in Workers_ : worker[w] # "none" \/ w = s => worker'[w] # "none"
  <2>1. CASE worker' = [w \in Workers_ |-> IF w = s THEN "running" ELSE worker[w]]
    BY <2>1 DEF ServerProcessInv, ServerProcessTypeOK
  <2>2. CASE s = "listener" /\ worker' = [worker EXCEPT !["listener"] = "stopped"]
    BY <2>2 DEF ServerProcessInv, ServerProcessTypeOK
  <2> QED
    BY <2>1, <2>2 DEF Start
<1>5. \A i \in 1..13 : StartSteps[i] \in Workers_ /\ i <= step' => worker'[StartSteps[i]] # "none"
  <2> SUFFICES ASSUME NEW i \in 1..13, StartSteps[i] \in Workers_, i <= step'
               PROVE  worker'[StartSteps[i]] # "none"
    OBVIOUS
  <2>1. CASE i <= step
    BY <1>1, <1>4, <2>1, StepsOfMain DEF ServerProcessInv, StartedInOrder
  <2>2. CASE i = step'
    BY <1>4, <2>2
  <2> QED
    BY <1>1, <2>1, <2>2
<1>6. /\ drained = "no" /\ deferred = <<>> /\ \A q \in HttpRequests : http[q] = "none"
  BY <1>1 DEF ServerProcessInv, StartedInOrder
<1>7. ServerProcessTypeOK'
  BY <1>1, <1>3, <1>4, StepsOfMain DEF ServerProcessInv, ServerProcessTypeOK
<1>8. StartedInOrder'
  BY <1>1, <1>2, <1>5, <1>6, StepsOfMain DEF StartedInOrder
<1>9. ServesWithAll'
  <2> SUFFICES ASSUME life' \in {"serving", "draining"}
               PROVE  /\ drained' = "no" /\ deferred' = <<>> /\ poolOpen' /\ emitterOpen'
                      /\ \A w \in Workers_ : worker'[w] # "none"
    BY DEF ServesWithAll
  <2>1. step' = 13
    BY <1>1
  <2>2. \A w \in Workers_ : worker'[w] # "none"
    BY <1>5, <2>1, StepsOfMain
  <2> QED
    BY <1>1, <1>2, <1>6, <2>1, <2>2
<1>10. ClosedInOrder'
  BY <1>1 DEF ClosedInOrder
<1> QED
  BY <1>1, <1>6, <1>7, <1>8, <1>9, <1>10 DEF ServerProcessInv

LEMMA ExitKeeps ==
    ASSUME ServerProcessInv, ExitsAbruptly \/ MainReturns PROVE ServerProcessInv'
<1>1. PICK how \in BOOLEAN : /\ Exits(how)
                             /\ ~how => life = "closing"
  BY DEF ExitsAbruptly, MainReturns
<1>2. /\ life' = "exited" /\ abrupt' = how /\ UNCHANGED <<step, deferred, drained, lateEmit>>
      /\ worker' = [w \in Workers_ |-> IF worker[w] = "none" THEN "none" ELSE "stopped"]
      /\ http' = [q \in HttpRequests |-> IF http[q] = "running" THEN "cut" ELSE http[q]]
      /\ holding' = {} /\ poolOpen' = FALSE /\ emitterOpen' = FALSE
  BY <1>1 DEF Exits
<1>3. ServerProcessTypeOK'
  BY <1>2 DEF ServerProcessInv, ServerProcessTypeOK
<1>4. StartedInOrder' /\ ServesWithAll' /\ ClosedInOrder'
  BY <1>2 DEF StartedInOrder, ServesWithAll, ClosedInOrder
<1>5. ASSUME NEW q \in HttpRequests, http'[q] = "cut" PROVE abrupt' \/ drained' = "timeout"
  <2>1. CASE how
    BY <1>2, <2>1, Zenon
  <2>2. CASE ~how
    <3>1. drained \in {"empty", "timeout"} /\ (drained = "empty" => http[q] # "running")
      BY <1>1, <2>2 DEF ServerProcessInv, ServerProcessTypeOK, ClosedInOrder
    <3>2. http[q] # "cut"
      BY <1>1, <2>2 DEF ServerProcessInv
    <3> QED
      BY <1>2, <1>5, <3>1, <3>2
  <2> QED
    BY <2>1, <2>2
<1> QED
  BY <1>2, <1>3, <1>4, <1>5 DEF ServerProcessInv

LEMMA ShutsDown ==
    ASSUME ServerProcessInv, Signalled \/ Drains PROVE ServerProcessInv'
<1>1. CASE Signalled
  BY <1>1 DEF Signalled, ServerProcessInv, ServerProcessTypeOK, StartedInOrder, ServesWithAll, ClosedInOrder
<1>2. CASE Drains
  <2>1. /\ life' = "closing" /\ deferred' = DeferredCalls /\ UNCHANGED <<step, worker, http, holding, poolOpen, emitterOpen, abrupt, lateEmit>>
        /\ drained' \in {"empty", "timeout"}
        /\ drained' = "empty" => \A q \in HttpRequests : http[q] # "running"
        /\ life = "draining"
    BY <1>2 DEF Drains
  <2>2. poolOpen /\ emitterOpen /\ lateEmit = {} /\ \A w \in Workers_ : worker[w] # "none"
    BY <2>1 DEF ServerProcessInv, ServesWithAll
  <2>3. CallsMade' = 0
    BY <2>1, CallsOfMain DEF CallsMade
  <2>4. ClosedInOrder'
    BY <2>1, <2>2, <2>3, CallsOfMain DEF ClosedInOrder
  <2>5. ServerProcessTypeOK'
    BY <2>1, CallsOfMain DEF ServerProcessInv, ServerProcessTypeOK
  <2>6. StartedInOrder' /\ ServesWithAll'
    BY <2>1 DEF StartedInOrder, ServesWithAll
  <2> QED
    BY <2>1, <2>2, <2>4, <2>5, <2>6 DEF ServerProcessInv
<1> QED
  BY <1>1, <1>2

LEMMA DeferredKeeps ==
    ASSUME ServerProcessInv, RunDeferred PROVE ServerProcessInv'
<1> DEFINE d == Head(deferred)
<1>1. /\ life = "closing" /\ deferred # <<>> /\ deferred' = Tail(deferred)
      /\ worker' = [w \in Workers_ |-> IF w = d /\ worker[w] = "running" THEN "told" ELSE worker[w]]
      /\ d = "pool" => holding = {}
      /\ UNCHANGED <<life, step, http, holding, drained, abrupt, lateEmit>>
  BY DEF RunDeferred
<1>2. /\ CallsMade \in 0..7 /\ CallsMade' = CallsMade + 1 /\ d = DeferredCalls[CallsMade + 1]
      /\ Len(deferred') <= 8 /\ deferred' \in Seq(Workers_ \cup {"pool", "emitter"})
      /\ \A i \in 1..Len(deferred') : deferred'[i] = DeferredCalls[CallsMade' + i]
  <2>1. deferred \in Seq(Workers_ \cup {"pool", "emitter"})
    BY DEF ServerProcessInv, ServerProcessTypeOK
  <2>2. /\ Len(deferred) <= 8
        /\ \A i \in 1..Len(deferred) : deferred[i] = DeferredCalls[CallsMade + i]
    BY <1>1, CallsOfMain DEF ServerProcessInv, ClosedInOrder
  <2>3. /\ Tail(deferred) \in Seq(Workers_ \cup {"pool", "emitter"}) /\ Len(deferred) \in Nat \ {0}
        /\ Len(Tail(deferred)) = Len(deferred) - 1 /\ Head(deferred) = deferred[1]
        /\ \A i \in 1..Len(Tail(deferred)) : Tail(deferred)[i] = deferred[i + 1] /\ i + 1 \in 1..Len(deferred)
    BY <1>1, <2>1, CallsTail
  <2>4. CallsMade = 8 - Len(deferred) /\ CallsMade' = 8 - Len(deferred')
    BY CallsOfMain DEF CallsMade
  <2>5. CallsMade \in 0..7 /\ CallsMade' = CallsMade + 1 /\ Len(deferred') <= 8
    <3>1. Len(deferred') = Len(deferred) - 1
      BY <1>1, <2>3
    <3>2. Len(deferred) <= 8 /\ Len(deferred) \in Nat \ {0}
      BY <2>2, <2>3
    <3> DEFINE n == Len(deferred)
               m == Len(deferred')
               before == CallsMade
               after == CallsMade'
    <3>3. /\ n \in Nat \ {0} /\ n <= 8 /\ m = n - 1 /\ before = 8 - n /\ after = 8 - m
      BY <2>4, <3>1, <3>2, Zenon
    <3> HIDE DEF n, m, before, after
    <3>4. before \in 0..7 /\ after = before + 1 /\ m <= 8
      BY <3>3
    <3> QED
      BY <3>4, Zenon DEF n, m, before, after
  <2>6. d = DeferredCalls[CallsMade + 1]
    BY <2>2, <2>3
  <2>7. ASSUME NEW i \in 1..Len(deferred') PROVE deferred'[i] = DeferredCalls[CallsMade' + i]
    <3>1. i \in 1..Len(Tail(deferred)) /\ i + 1 \in 1..Len(deferred)
      BY <1>1, <2>3
    <3>2. CallsMade' + i = CallsMade + (i + 1)
      BY <2>5, <3>1
    <3> QED
      BY <1>1, <2>2, <2>3, <3>1, <3>2
  <2> QED
    BY <1>1, <2>3, <2>5, <2>6, <2>7
<1> HIDE DEF d
<1>3. (d = "pool" <=> CallsMade = 7) /\ (d = "emitter" <=> CallsMade = 3)
  BY <1>2, CallsOfMain
<1>4. (emitterOpen' <=> CallsMade' < 4) /\ (poolOpen' <=> CallsMade' < 8)
  <2>1. (emitterOpen' <=> emitterOpen /\ d # "emitter") /\ (poolOpen' <=> poolOpen /\ d # "pool")
    BY Zenon DEF RunDeferred, d
  <2>2. (emitterOpen <=> CallsMade < 4) /\ (poolOpen <=> CallsMade < 8)
    BY <1>1 DEF ServerProcessInv, ClosedInOrder
  <2>3. (CallsMade' < 4 <=> CallsMade < 4 /\ CallsMade # 3) /\ (CallsMade' < 8 <=> CallsMade < 8 /\ CallsMade # 7)
    BY <1>2
  <2> QED
    BY <1>3, <2>1, <2>2, <2>3, Zenon
<1>5. emitterOpen' \in BOOLEAN /\ poolOpen' \in BOOLEAN
  BY Zenon DEF RunDeferred
<1>6. /\ worker' \in [Workers_ -> {"none", "running", "told", "stopped"}]
      /\ \A w \in Workers_ : /\ worker'[w] # "none"
                             /\ worker[w] \in {"told", "stopped"} \/ w = d => worker'[w] \in {"told", "stopped"}
  BY <1>1 DEF ServerProcessInv, ServerProcessTypeOK, ClosedInOrder
<1>7. \A j \in 1..8 : DeferredCalls[j] \in Workers_ /\ j <= CallsMade' => worker'[DeferredCalls[j]] \in {"told", "stopped"}
  <2> SUFFICES ASSUME NEW j \in 1..8, DeferredCalls[j] \in Workers_, j <= CallsMade'
               PROVE  worker'[DeferredCalls[j]] \in {"told", "stopped"}
    OBVIOUS
  <2>1. CASE j <= CallsMade
    BY <1>1, <1>6, <2>1, CallsOfMain DEF ServerProcessInv, ClosedInOrder
  <2>2. CASE j = CallsMade + 1
    BY <1>2, <1>6, <2>2
  <2> QED
    BY <1>2, <2>1, <2>2
<1>8. ~poolOpen' => holding' = {}
  BY <1>1, <1>2, <1>3, <1>4
<1>9. ClosedInOrder'
  <2>1. drained # "no" /\ (drained = "empty" => \A q \in HttpRequests : http[q] # "running")
    BY <1>1 DEF ServerProcessInv, ClosedInOrder
  <2> QED
    BY <1>1, <1>2, <1>4, <1>6, <1>7, <1>8, <2>1, CallsOfMain DEF ClosedInOrder
<1>10. ServerProcessTypeOK'
  BY <1>1, <1>2, <1>5, <1>6 DEF ServerProcessInv, ServerProcessTypeOK
<1>11. StartedInOrder' /\ ServesWithAll'
  BY <1>1 DEF StartedInOrder, ServesWithAll
<1> QED
  BY <1>1, <1>9, <1>10, <1>11 DEF ServerProcessInv

LEMMA ConnectionsKeep ==
    ASSUME ServerProcessInv, NEW x \in Workers_ \cup HttpRequests, Acquire(x) \/ Release(x)
    PROVE  ServerProcessInv'
<1>1. /\ UNCHANGED <<life, step, deferred, worker, http, poolOpen, emitterOpen, drained, abrupt, lateEmit>>
      /\ holding' \subseteq Workers_ \cup HttpRequests /\ (~poolOpen /\ holding = {} => holding' = {})
  BY DEF Acquire, Release, ServerProcessInv, ServerProcessTypeOK
<1>2. ClosedInOrder'
  BY <1>1 DEF ServerProcessInv, ClosedInOrder, CallsMade
<1> QED
  BY <1>1, <1>2 DEF ServerProcessInv, ServerProcessTypeOK, StartedInOrder, ServesWithAll

LEMMA WorkerStopKeeps ==
    ASSUME ServerProcessInv, NEW w \in Workers_, WorkerStops(w)
    PROVE  ServerProcessInv'
<1>1. /\ UNCHANGED <<life, step, deferred, http, holding, poolOpen, emitterOpen, drained, abrupt, lateEmit>>
      /\ worker' \in [Workers_ -> {"none", "running", "told", "stopped"}]
      /\ \A v \in Workers_ : worker'[v] = worker[v] \/ worker'[v] = "stopped"
  BY DEF WorkerStops, ServerProcessInv, ServerProcessTypeOK
<1>2. ClosedInOrder'
  BY <1>1 DEF ServerProcessInv, ClosedInOrder, CallsMade
<1>3. StartedInOrder'
  BY <1>1 DEF ServerProcessInv, StartedInOrder
<1> QED
  BY <1>1, <1>2, <1>3 DEF ServerProcessInv, ServerProcessTypeOK, ServesWithAll

LEMMA RequestsKeep ==
    ASSUME ServerProcessInv, NEW q \in HttpRequests, Arrives_(q) \/ EmitsEvent(q) \/ Finishes(q)
    PROVE  ServerProcessInv'
<1>1. CASE Arrives_(q)
  BY <1>1 DEF Arrives_, ServerProcessInv, ServerProcessTypeOK, StartedInOrder, ServesWithAll, ClosedInOrder
<1>2. CASE EmitsEvent(q)
  <2>1. /\ UNCHANGED <<life, step, deferred, worker, http, holding, poolOpen, emitterOpen, drained, abrupt>>
        /\ http[q] = "running" /\ ~emitterOpen /\ life # "exited" /\ lateEmit' = lateEmit \cup {q}
    BY <1>2 DEF EmitsEvent, Alive
  <2>2. life = "closing"
    BY <2>1 DEF ServerProcessInv, ServerProcessTypeOK, StartedInOrder, ServesWithAll
  <2>3. drained = "timeout"
    BY <2>1, <2>2 DEF ServerProcessInv, ServerProcessTypeOK, ClosedInOrder
  <2>4. ClosedInOrder'
    BY <2>1 DEF ServerProcessInv, ClosedInOrder, CallsMade
  <2> QED
    BY <2>1, <2>2, <2>3, <2>4 DEF ServerProcessInv, ServerProcessTypeOK, StartedInOrder, ServesWithAll
<1>3. CASE Finishes(q)
  <2>1. /\ UNCHANGED <<life, step, deferred, worker, holding, poolOpen, emitterOpen, drained, abrupt, lateEmit>>
        /\ http[q] = "running" /\ http' = [http EXCEPT ![q] = "done"]
    BY <1>3 DEF Finishes
  <2>2. http' \in [HttpRequests -> {"none", "running", "done", "cut"}] /\ \A r \in HttpRequests : http'[r] = http[r] \/ http'[r] = "done"
    BY <2>1 DEF ServerProcessInv, ServerProcessTypeOK
  <2>3. ClosedInOrder'
    BY <2>1, <2>2 DEF ServerProcessInv, ClosedInOrder, CallsMade
  <2>4. StartedInOrder'
    BY <2>1 DEF ServerProcessInv, StartedInOrder
  <2> QED
    BY <2>1, <2>2, <2>3, <2>4 DEF ServerProcessInv, ServerProcessTypeOK, ServesWithAll
<1> QED
  BY <1>1, <1>2, <1>3

LEMMA ServerProcessKeep == ServerProcessInv /\ [ServerProcessNext]_serverVars => ServerProcessInv'
<1> SUFFICES ASSUME ServerProcessInv, [ServerProcessNext]_serverVars PROVE ServerProcessInv'
  OBVIOUS
<1>1. CASE UNCHANGED serverVars
  BY <1>1 DEF serverVars, ServerProcessInv, ServerProcessTypeOK, StartedInOrder, ServesWithAll, ClosedInOrder, CallsMade
<1>2. CASE Start \/ ExitsAbruptly \/ Signalled \/ Drains \/ RunDeferred \/ MainReturns
  BY <1>2, StartKeeps, ExitKeeps, ShutsDown, DeferredKeeps
<1>3. ASSUME NEW x \in Workers_ \cup HttpRequests, Acquire(x) \/ Release(x) PROVE ServerProcessInv'
  BY <1>3, ConnectionsKeep
<1>4. ASSUME NEW w \in Workers_, WorkerStops(w) PROVE ServerProcessInv'
  BY <1>4, WorkerStopKeeps
<1>5. ASSUME NEW q \in HttpRequests, Arrives_(q) \/ EmitsEvent(q) \/ Finishes(q) PROVE ServerProcessInv'
  BY <1>5, RequestsKeep
<1> QED
  BY <1>1, <1>2, <1>3, <1>4, <1>5 DEF ServerProcessNext

LEMMA InitServerProcess == ServerProcessInit => ServerProcessInv
<1> SUFFICES ASSUME ServerProcessInit PROVE ServerProcessInv
  OBVIOUS
<1>0. <<>> \in Seq(Workers_ \cup {"pool", "emitter"}) /\ 0 \in 0..Len(StartSteps)
  BY StepsOfMain
<1>1. ServerProcessTypeOK
  BY <1>0 DEF ServerProcessInit, ServerProcessTypeOK
<1>2. StartedInOrder /\ ServesWithAll /\ ClosedInOrder
  BY StepsOfMain DEF ServerProcessInit, StartedInOrder, ServesWithAll, ClosedInOrder
<1> QED
  BY <1>1, <1>2 DEF ServerProcessInit, ServerProcessInv

LEMMA ServerProcessIsOrdered == ServerProcessInv => ShutdownOrdered
<1> SUFFICES ASSUME ServerProcessInv PROVE ShutdownOrdered
  OBVIOUS
<1>1. ASSUME life = "closing", ~poolOpen
      PROVE  /\ holding = {} /\ \A w \in Workers_ : worker[w] \in {"told", "stopped"}
             /\ ~emitterOpen /\ deferred = <<>>
  <2>1. /\ (emitterOpen <=> CallsMade < 4) /\ CallsMade >= 8 /\ holding = {} /\ Len(deferred) \in Nat
        /\ CallsMade = 8 - Len(deferred) /\ deferred \in Seq(Workers_ \cup {"pool", "emitter"})
        /\ \A j \in 1..8 : DeferredCalls[j] \in Workers_ /\ j <= CallsMade =>
                              worker[DeferredCalls[j]] \in {"told", "stopped"}
    BY <1>1, CallsOfMain DEF ServerProcessInv, ServerProcessTypeOK, ClosedInOrder, CallsMade
  <2>2. CallsMade = 8 /\ Len(deferred) = 0
    BY <2>1
  <2>3. \A w \in Workers_ : worker[w] \in {"told", "stopped"}
    BY <2>1, <2>2, CallsOfMain
  <2> QED
    BY <2>1, <2>2, <2>3
<1> QED
  BY <1>1 DEF ServerProcessInv, ShutdownOrdered

\* Whenever the process is told to stop, and whatever runs then: the pool is closed last, with
\* every worker told and no connection out; a request meets a closed emitter or is cut off only
\* after a drain that timed out, or without a shutdown at all (main.go: Shutdown and the
\* deferred calls).
THEOREM ShutdownIsOrdered == ServerProcessSpec => []ShutdownOrdered
BY InitServerProcess, ServerProcessKeep, ServerProcessIsOrdered, PTL DEF ServerProcessSpec

-----------------------------------------------------------------------------
(***************************************************************************)
(* The status page.                                                         *)
(***************************************************************************)
LEMMA PartNames ==
    /\ DOMAIN ByName = 1..6 /\ ByName[6] = "Real-time Streaming"
    /\ \A k \in 1..6 : ByName[k] \in AllParts
    /\ \A p : p \in AllParts <=> p \in {"API Server", "Cache", "Connection Pool", "Database",
                                        "Flag Evaluation Engine", "Real-time Streaming"}
<1>1. DOMAIN ByName = 1..6
  BY DEF ByName
<1>2. /\ ByName[1] = "API Server" /\ ByName[2] = "Cache" /\ ByName[3] = "Connection Pool" /\ ByName[4] = "Database"
      /\ ByName[5] = "Flag Evaluation Engine" /\ ByName[6] = "Real-time Streaming"
  BY DEF ByName
<1>3. \A p : p \in AllParts <=> \E k \in 1..6 : p = ByName[k]
  BY <1>1, Zenon DEF AllParts, Range
<1>4. ASSUME NEW p, p \in AllParts
      PROVE  p \in {"API Server", "Cache", "Connection Pool", "Database", "Flag Evaluation Engine", "Real-time Streaming"}
  <2>1. PICK k \in 1..6 : p = ByName[k]
    BY <1>3, <1>4
  <2>2. k = 1 \/ k = 2 \/ k = 3 \/ k = 4 \/ k = 5 \/ k = 6
    OBVIOUS
  <2> QED
    BY <1>2, <2>1, <2>2
<1>5. 1 \in 1..6 /\ 2 \in 1..6 /\ 3 \in 1..6 /\ 4 \in 1..6 /\ 5 \in 1..6 /\ 6 \in 1..6
  OBVIOUS
<1> QED
  BY <1>1, <1>2, <1>3, <1>4, <1>5, Zenon

\* A later tick is of the same day or a later one.
LEMMA DaysGoOn ==
    ASSUME NEW a \in Nat, NEW b \in Nat, a <= b
    PROVE  DayOf(a) \in 0..DayOf(b) /\ DayOf(b) \in Nat
<1>1. DayTicks \in Nat \ {0}
  BY StatusPageAssumption DEF StatusPageAssumption
<1>2. ASSUME NEW d \in Nat \ {0} PROVE a \div d <= b \div d /\ a \div d \in Nat /\ b \div d \in Nat
  OBVIOUS
<1>3. DayOf(a) <= DayOf(b) /\ DayOf(a) \in Nat /\ DayOf(b) \in Nat
  BY <1>1, <1>2 DEF DayOf
<1> QED
  BY <1>3

\* What was seen in a span was seen in a longer one, and stays ill if more is remembered.
LEMMA SeenLater ==
    ASSUME NEW rows, NEW g, NEW ill, NEW more, NEW from \in Int, NEW to \in Int, NEW upto \in Int,
           SeenBetween(rows, g, ill, from, to), ill \subseteq more, to <= upto
    PROVE  SeenBetween(rows, g, more, from, upto)
<1>1. ASSUME NEW p, NEW t \in from..to, <<p, t>> \in ill PROVE t \in from..upto /\ <<p, t>> \in more
  BY <1>1
<1> QED
  BY <1>1, Zenon DEF SeenBetween

LEMMA StatusFacts ==
    ASSUME StatusPageInv
    PROVE  /\ now \in Nat /\ now \in 0..MaxTick /\ MaxTick \in Nat /\ MaxRounds \in Nat /\ MaxHealthChanges \in Nat
           /\ health \in [AllParts -> Statuses] /\ Len(statusChecks) \in Nat /\ missed \in Nat
           /\ DOMAIN statusChecks = 1..Len(statusChecks) /\ round.began \in Int
           /\ \A i \in DOMAIN statusChecks :
                 /\ statusChecks[i].at \in Nat /\ statusChecks[i].began \in Int
                 /\ \A g \in AllRegions : statusChecks[i].rows[g] \in RowsOf
<1>1. /\ MaxTick \in Nat /\ MaxRounds \in Nat /\ MaxHealthChanges \in Nat
  BY StatusPageAssumption DEF StatusPageAssumption
<1> DEFINE Checks == [at : 0..MaxTick, began : -1..MaxTick, rows : [AllRegions -> RowsOf]]
<1>2. /\ now \in 0..MaxTick /\ health \in [AllParts -> Statuses] /\ missed \in 0..MaxRounds /\ round.began \in -1..MaxTick
      /\ statusChecks \in Seq(Checks)
  BY DEF StatusPageInv, StatusPageTypeOK
<1>3. \A c \in Checks : c.at \in 0..MaxTick /\ c.began \in -1..MaxTick /\ \A g \in AllRegions : c.rows[g] \in RowsOf
  OBVIOUS
<1> HIDE DEF Checks
<1>4. /\ DOMAIN statusChecks = 1..Len(statusChecks) /\ Len(statusChecks) \in Nat
      /\ \A i \in 1..Len(statusChecks) : statusChecks[i] \in Checks
  BY <1>2
<1>5. 0..MaxTick \subseteq Nat /\ -1..MaxTick \subseteq Int /\ 0..MaxRounds \subseteq Nat
  BY <1>1
<1> QED
  BY <1>1, <1>2, <1>3, <1>4, <1>5, Zenon

\* A step that only adds to what is remembered, and to the time, keeps what was inserted.
LEMMA InsertedStands ==
    ASSUME StatusPageInv, UNCHANGED statusChecks, now' \in Nat, now <= now', illAt \subseteq illAt'
    PROVE  \A i \in DOMAIN statusChecks' :
              /\ statusChecks'[i].at <= now'
              /\ \A g \in AllRegions : SeenBetween(statusChecks'[i].rows[g], g, illAt', statusChecks'[i].began, statusChecks'[i].at)
<1> SUFFICES ASSUME NEW i \in DOMAIN statusChecks
             PROVE  /\ statusChecks[i].at <= now'
                    /\ \A g \in AllRegions :
                          SeenBetween(statusChecks[i].rows[g], g, illAt', statusChecks[i].began, statusChecks[i].at)
  OBVIOUS
<1>1. statusChecks[i].at <= now /\ statusChecks[i].at \in Nat /\ statusChecks[i].began \in Int /\ now \in Nat
  BY StatusFacts DEF StatusPageInv
<1>2. \A g \in AllRegions : SeenBetween(statusChecks[i].rows[g], g, illAt, statusChecks[i].began, statusChecks[i].at)
  BY DEF StatusPageInv
<1>3. statusChecks[i].at <= now'
  BY <1>1
<1>4. statusChecks[i].at \in Int /\ statusChecks[i].at <= statusChecks[i].at
  BY <1>1
<1> QED
  BY <1>1, <1>2, <1>3, <1>4, SeenLater

\* The same of the round that is under way.
LEMMA RoundStands ==
    ASSUME StatusPageInv, UNCHANGED <<round, statusChecks, missed>>, now' \in Nat, now <= now', illAt \subseteq illAt',
           round # NoRound
    PROVE  /\ round'.began <= now' /\ Len(statusChecks') + missed' < MaxRounds
           /\ \A g \in DOMAIN round'.rows : SeenBetween(round'.rows[g], g, illAt', round'.began, now')
<1>1. /\ round.began <= now /\ Len(statusChecks) + missed < MaxRounds /\ round.began \in Int /\ now \in Nat
      /\ \A g \in DOMAIN round.rows : SeenBetween(round.rows[g], g, illAt, round.began, now)
  BY StatusFacts DEF StatusPageInv
<1>2. now \in Int /\ now' \in Int /\ round.began <= now'
  BY <1>1
<1> QED
  BY <1>1, <1>2, SeenLater

LEMMA HealthKeeps ==
    ASSUME StatusPageInv, NEW p \in DOMAIN Unwell, HealthChanges(p) PROVE StatusPageInv'
<1>1. /\ healthChanges < MaxHealthChanges /\ healthChanges' = healthChanges + 1
      /\ health' = [health EXCEPT ![p] = IF @ = "operational" THEN Unwell[p] ELSE "operational"]
      /\ illAt' = illAt \cup IllNow(now) \cup {<<p, now>>}
      /\ UNCHANGED <<answering, now, round, statusChecks, missed>>
  BY DEF HealthChanges
<1>2. p \in {"Cache", "Connection Pool", "Database"} /\ Unwell[p] \in {"degraded", "down"}
  BY DEF Unwell
<1>3. p \in AllParts /\ p # "Real-time Streaming" /\ p # "API Server" /\ "Real-time Streaming" \in AllParts
  BY <1>2, PartNames
<1>4. /\ health' \in [AllParts -> Statuses] /\ \A q \in AllParts : health'[q] # "unreachable"
      /\ health'["Real-time Streaming"] = "operational" /\ \A q \in AllParts : q # p => health'[q] = health[q]
  BY <1>1, <1>2, <1>3, StatusFacts DEF StatusPageInv, HealthRemembered, Statuses
<1>5. IllNow(now) \subseteq AllParts \X (0..MaxTick) /\ <<p, now>> \in AllParts \X (0..MaxTick)
  <2>1. now \in 0..MaxTick
    BY StatusFacts
  <2>2. \A q \in AllParts : <<q, now>> \in AllParts \X (0..MaxTick)
    BY <2>1
  <2> QED
    BY <1>3, <2>2 DEF IllNow
<1>6. StatusPageTypeOK'
  <2>1. illAt' \subseteq AllParts \X (0..MaxTick) /\ healthChanges' \in 0..MaxHealthChanges
    <3>1. /\ illAt \subseteq AllParts \X (0..MaxTick) /\ healthChanges \in 0..MaxHealthChanges
          /\ MaxHealthChanges \in Nat
      BY StatusFacts DEF StatusPageInv, StatusPageTypeOK
    <3>2. illAt' \subseteq AllParts \X (0..MaxTick)
      BY <1>1, <1>5, <3>1, Zenon
    <3> QED
      BY <1>1, <3>1, <3>2
  <2> QED
    BY <1>1, <1>4, <2>1 DEF StatusPageInv, StatusPageTypeOK
<1>7. IllNow(now)' \subseteq illAt'
  <2> SUFFICES ASSUME NEW q \in AllParts, health'[q] # "operational" PROVE <<q, now>> \in illAt'
    BY <1>1 DEF IllNow
  <2>1. CASE q = p
    BY <1>1, <2>1
  <2>2. CASE q # p
    BY <1>1, <1>4, <2>2 DEF IllNow
  <2> QED
    BY <2>1, <2>2
<1>8. HealthRemembered'
  BY <1>1, <1>4, <1>7 DEF HealthRemembered
<1>9. now' \in Nat /\ now <= now' /\ illAt \subseteq illAt'
  BY <1>1, StatusFacts
<1>10. Len(statusChecks') + missed' <= MaxRounds
  BY <1>1 DEF StatusPageInv
<1> QED
  BY <1>1, <1>6, <1>8, <1>9, <1>10, InsertedStands, RoundStands DEF StatusPageInv

LEMMA TickKeeps ==
    ASSUME StatusPageInv, Tick PROVE StatusPageInv'
<1>1. /\ now < MaxTick /\ now' = now + 1 /\ illAt' = illAt \cup IllNow(now')
      /\ UNCHANGED <<health, answering, round, statusChecks, missed, healthChanges>>
  BY DEF Tick
<1>2. now' \in Nat /\ now <= now' /\ illAt \subseteq illAt' /\ now' \in 0..MaxTick
  BY <1>1, StatusFacts
<1>3. IllNow(now') \subseteq AllParts \X (0..MaxTick)
  BY <1>2 DEF IllNow
<1>4. StatusPageTypeOK'
  <2>1. illAt' \subseteq AllParts \X (0..MaxTick)
    BY <1>1, <1>3 DEF StatusPageInv, StatusPageTypeOK
  <2> QED
    BY <1>1, <1>2, <2>1 DEF StatusPageInv, StatusPageTypeOK
<1>5. HealthRemembered'
  BY <1>1 DEF StatusPageInv, HealthRemembered, IllNow
<1>6. Len(statusChecks') + missed' <= MaxRounds
  BY <1>1 DEF StatusPageInv
<1> QED
  BY <1>1, <1>2, <1>4, <1>5, <1>6, InsertedStands, RoundStands DEF StatusPageInv

\* NoRound is a round.
LEMMA NoRoundTypes ==
    /\ NoRound = [began |-> NoRound.began, rows |-> NoRound.rows] /\ NoRound.began = -1
    /\ DOMAIN NoRound.rows = {} /\ \A S : NoRound.rows \in [{} -> S]
<1>1. DOMAIN <<>> = {} /\ \A S : <<>> \in [{} -> S]
  OBVIOUS
<1> QED
  BY <1>1 DEF NoRound

\* The round ends, inserted or not, or is cut off with the process.
LEMMA RoundGone ==
    ASSUME StatusPageInv, round # NoRound, round' = NoRound, missed' = missed + 1,
           UNCHANGED <<health, now, statusChecks, illAt, healthChanges>>, answering' \in BOOLEAN
    PROVE  StatusPageInv'
<1>1. Len(statusChecks) + missed < MaxRounds /\ missed \in Nat /\ Len(statusChecks) \in Nat /\ MaxRounds \in Nat /\ MaxTick \in Nat
  BY StatusFacts DEF StatusPageInv
<1>2. missed' \in 0..MaxRounds /\ Len(statusChecks') + missed' <= MaxRounds /\ -1 \in -1..MaxTick
  BY <1>1
<1>3. /\ round' = [began |-> round'.began, rows |-> round'.rows] /\ round'.began \in -1..MaxTick
      /\ DOMAIN round'.rows \subseteq AllRegions /\ round'.rows \in [DOMAIN round'.rows -> RowsOf]
  BY <1>2, NoRoundTypes
<1>4. StatusPageTypeOK'
  BY <1>2, <1>3 DEF StatusPageInv, StatusPageTypeOK
<1>5. HealthRemembered'
  BY DEF StatusPageInv, HealthRemembered, IllNow
<1>6. now' \in Nat /\ now <= now' /\ illAt \subseteq illAt'
  BY StatusFacts
<1>7. round' = NoRound'
  BY DEF NoRound
<1> QED
  BY <1>2, <1>4, <1>5, <1>6, <1>7, InsertedStands DEF StatusPageInv

LEMMA RecordKeeps ==
    ASSUME StatusPageInv, Record PROVE StatusPageInv'
<1>1. /\ Len(statusChecks) + missed < MaxRounds /\ round' = [began |-> now, rows |-> <<>>]
      /\ UNCHANGED <<health, answering, now, statusChecks, missed, illAt, healthChanges>>
  BY DEF Record
<1>2. DOMAIN <<>> = {} /\ \A S : <<>> \in [{} -> S]
  OBVIOUS
<1>3. /\ round' = [began |-> round'.began, rows |-> round'.rows] /\ round'.began = now
      /\ round'.rows = <<>>
  BY <1>1
<1>4. now \in -1..MaxTick /\ now' \in Nat /\ now <= now' /\ illAt \subseteq illAt'
  BY <1>1, StatusFacts
<1>5. StatusPageTypeOK'
  BY <1>1, <1>2, <1>3, <1>4 DEF StatusPageInv, StatusPageTypeOK
<1>6. HealthRemembered'
  BY <1>1 DEF StatusPageInv, HealthRemembered, IllNow
<1>7. Len(statusChecks') + missed' <= MaxRounds
  BY <1>1 DEF StatusPageInv
<1>8. /\ round'.began <= now' /\ Len(statusChecks') + missed' < MaxRounds
      /\ \A g \in DOMAIN round'.rows : SeenBetween(round'.rows[g], g, illAt', round'.began, now')
  BY <1>1, <1>2, <1>3, <1>4
<1> QED
  BY <1>1, <1>4, <1>5, <1>6, <1>7, <1>8, InsertedStands DEF StatusPageInv

\* What a check of this server finds is so at that tick.
LEMMA CheckIsSeen ==
    ASSUME StatusPageInv, NEW g, NEW from \in Int, from <= now
    PROVE  SeenBetween(health, g, illAt, from, now)
<1>1. health \in [AllParts -> Statuses] /\ now \in from..now
  BY StatusFacts
<1>2. \A p \in AllParts : health[p] # "operational" => <<p, now>> \in illAt
  BY DEF StatusPageInv, HealthRemembered, IllNow
<1>3. health["Real-time Streaming"] = "operational" /\ \A p \in AllParts : health[p] # "unreachable"
  BY DEF StatusPageInv, HealthRemembered
<1> QED
  BY <1>1, <1>2, <1>3, Zenon DEF SeenBetween

LEMMA CheckRegionKeeps ==
    ASSUME StatusPageInv, NEW g \in AllRegions, CheckRegion(g) PROVE StatusPageInv'
<1>1. PICK rows \in IF g = "local" THEN {checkLocal} ELSE probeRemoteRegion :
          round' = [round EXCEPT !.rows = [x \in DOMAIN @ \cup {g} |-> IF x = g THEN rows ELSE @[x]]]
  BY DEF CheckRegion
<1>2. /\ round # NoRound /\ g \notin DOMAIN round.rows
      /\ UNCHANGED <<health, answering, now, statusChecks, missed, illAt, healthChanges>>
  BY DEF CheckRegion
<1>3. /\ round = [began |-> round.began, rows |-> round.rows] /\ round.began \in -1..MaxTick
      /\ DOMAIN round.rows \subseteq AllRegions /\ round.rows \in [DOMAIN round.rows -> RowsOf]
  BY DEF StatusPageInv, StatusPageTypeOK
<1>4. /\ round' = [began |-> round.began, rows |-> [x \in DOMAIN round.rows \cup {g} |-> IF x = g THEN rows ELSE round.rows[x]]]
  BY <1>1, <1>3
<1>5. /\ round' = [began |-> round'.began, rows |-> round'.rows] /\ round'.began = round.began
      /\ round'.rows = [x \in DOMAIN round.rows \cup {g} |-> IF x = g THEN rows ELSE round.rows[x]]
  BY <1>4
<1>6. rows = health \/ (g # "local" /\ \E s \in Statuses : rows = OnlyAPI(s))
  BY <1>1 DEF probeRemoteRegion, checkLocal, Statuses
<1>7. rows \in RowsOf
  <2>1. CASE rows = health
    BY <2>1, StatusFacts DEF RowsOf
  <2>2. CASE \E s \in Statuses : rows = OnlyAPI(s)
    BY <2>2 DEF RowsOf, OnlyAPI
  <2> QED
    BY <1>6, <2>1, <2>2
<1>8. /\ round.began <= now /\ Len(statusChecks) + missed < MaxRounds /\ round.began \in Int
      /\ \A x \in DOMAIN round.rows : SeenBetween(round.rows[x], x, illAt, round.began, now)
  BY <1>2, StatusFacts DEF StatusPageInv
<1>9. SeenBetween(rows, g, illAt, round.began, now)
  <2>1. CASE rows = health
    BY <1>8, <2>1, CheckIsSeen
  <2>2. CASE g # "local" /\ \E s \in Statuses : rows = OnlyAPI(s)
    BY <2>2 DEF OnlyAPI, SeenBetween
  <2> QED
    BY <1>6, <2>1, <2>2
<1>10. /\ DOMAIN round'.rows = DOMAIN round.rows \cup {g} /\ round'.rows \in [DOMAIN round'.rows -> RowsOf]
       /\ \A x \in DOMAIN round'.rows : SeenBetween(round'.rows[x], x, illAt, round.began, now)
  <2>1. DOMAIN round'.rows = DOMAIN round.rows \cup {g}
    BY <1>5
  <2>2. \A x \in DOMAIN round.rows \cup {g} : round'.rows[x] = IF x = g THEN rows ELSE round.rows[x]
    BY <1>5
  <2>3. round'.rows \in [DOMAIN round.rows \cup {g} -> RowsOf]
    BY <1>3, <1>5, <1>7
  <2> QED
    BY <1>8, <1>9, <2>1, <2>2, <2>3
<1>11. StatusPageTypeOK'
  BY <1>2, <1>3, <1>5, <1>10 DEF StatusPageInv, StatusPageTypeOK
<1>12. HealthRemembered'
  BY <1>2 DEF StatusPageInv, HealthRemembered, IllNow
<1>13. now' \in Nat /\ now <= now' /\ illAt \subseteq illAt'
  BY <1>2, StatusFacts
<1>14. Len(statusChecks') + missed' <= MaxRounds
  BY <1>2 DEF StatusPageInv
<1> QED
  BY <1>2, <1>5, <1>8, <1>10, <1>11, <1>12, <1>13, <1>14, InsertedStands DEF StatusPageInv

LEMMA InsertChecksKeeps ==
    ASSUME StatusPageInv, InsertStatusChecks PROVE StatusPageInv'
<1> DEFINE check == [at |-> now, began |-> round.began, rows |-> round.rows]
           Checks == [at : 0..MaxTick, began : -1..MaxTick, rows : [AllRegions -> RowsOf]]
<1>1. /\ round # NoRound /\ DOMAIN round.rows = AllRegions /\ statusChecks' = Append(statusChecks, check)
      /\ round' = NoRound /\ UNCHANGED <<health, answering, now, missed, illAt, healthChanges>>
  BY DEF InsertStatusChecks, Checked
<1>2. check \in Checks
  BY <1>1, StatusFacts DEF StatusPageInv, StatusPageTypeOK
<1>3. statusChecks \in Seq(Checks)
  BY DEF StatusPageInv, StatusPageTypeOK
<1>4. check.at = now /\ check.began = round.began /\ check.rows = round.rows
  OBVIOUS
<1> HIDE DEF check, Checks
<1>5. /\ statusChecks' \in Seq(Checks) /\ Len(statusChecks') = Len(statusChecks) + 1
      /\ DOMAIN statusChecks' = 1..(Len(statusChecks) + 1)
      /\ statusChecks'[Len(statusChecks) + 1] = check
      /\ \A i \in 1..Len(statusChecks) : statusChecks'[i] = statusChecks[i]
  BY <1>1, <1>2, <1>3
<1>6. /\ Len(statusChecks) + missed < MaxRounds /\ missed \in Nat /\ Len(statusChecks) \in Nat /\ MaxRounds \in Nat
      /\ MaxTick \in Nat
      /\ \A g \in AllRegions : SeenBetween(round.rows[g], g, illAt, round.began, now)
  BY <1>1, StatusFacts DEF StatusPageInv
<1>7. Len(statusChecks') + missed' <= MaxRounds /\ Len(statusChecks') <= MaxRounds /\ -1 \in -1..MaxTick
  BY <1>1, <1>5, <1>6
<1>8. /\ round' = [began |-> round'.began, rows |-> round'.rows] /\ round'.began \in -1..MaxTick
      /\ DOMAIN round'.rows \subseteq AllRegions /\ round'.rows \in [DOMAIN round'.rows -> RowsOf]
  BY <1>1, <1>7, NoRoundTypes
<1>9. StatusPageTypeOK'
  BY <1>1, <1>5, <1>7, <1>8 DEF StatusPageInv, StatusPageTypeOK, Checks
<1>10. HealthRemembered'
  BY <1>1 DEF StatusPageInv, HealthRemembered, IllNow
<1>11. ASSUME NEW i \in DOMAIN statusChecks'
       PROVE  /\ statusChecks'[i].at <= now'
              /\ \A g \in AllRegions :
                    SeenBetween(statusChecks'[i].rows[g], g, illAt', statusChecks'[i].began, statusChecks'[i].at)
  <2>1. CASE i \in 1..Len(statusChecks)
    <3>1. i \in DOMAIN statusChecks
      BY <2>1, StatusFacts
    <3> QED
      BY <1>1, <1>5, <2>1, <3>1 DEF StatusPageInv
  <2>2. CASE i = Len(statusChecks) + 1
    <3>1. now <= now
      BY StatusFacts
    <3> QED
      BY <1>1, <1>4, <1>5, <1>6, <2>2, <3>1
  <2> QED
    BY <1>5, <1>6, <2>1, <2>2
<1>12. round' = NoRound'
  BY <1>1 DEF NoRound
<1> QED
  BY <1>7, <1>9, <1>10, <1>11, <1>12 DEF StatusPageInv

LEMMA StatusPageKeep == StatusPageInv /\ [StatusPageNext]_statusVars => StatusPageInv'
<1> SUFFICES ASSUME StatusPageInv, [StatusPageNext]_statusVars PROVE StatusPageInv'
  OBVIOUS
<1>1. CASE UNCHANGED statusVars
  BY <1>1 DEF statusVars, StatusPageInv, StatusPageTypeOK, HealthRemembered, IllNow, NoRound
<1>2. ASSUME NEW p \in DOMAIN Unwell, HealthChanges(p) PROVE StatusPageInv'
  BY <1>2, HealthKeeps
<1>3. CASE ListenAndServe
  BY <1>3 DEF ListenAndServe, StatusPageInv, StatusPageTypeOK, HealthRemembered, IllNow, NoRound
<1>4. CASE Tick \/ Record \/ InsertStatusChecks
  BY <1>4, TickKeeps, RecordKeeps, InsertChecksKeeps
<1>5. CASE ProcessRestarts
  BY <1>5, RoundGone DEF ProcessRestarts
<1>6. CASE InsertFails
  <2>1. answering' \in BOOLEAN
    BY <1>6, Zenon DEF InsertFails, StatusPageInv, StatusPageTypeOK
  <2> QED
    BY <1>6, <2>1, RoundGone DEF InsertFails, Checked
<1>7. ASSUME NEW g \in AllRegions, CheckRegion(g) PROVE StatusPageInv'
  BY <1>7, CheckRegionKeeps
<1> QED
  BY <1>1, <1>2, <1>3, <1>4, <1>5, <1>6, <1>7 DEF StatusPageNext

LEMMA InitStatusPage == StatusPageInit => StatusPageInv
<1> SUFFICES ASSUME StatusPageInit PROVE StatusPageInv
  OBVIOUS
<1>1. /\ MaxTick \in Nat /\ MaxRounds \in Nat /\ MaxHealthChanges \in Nat
  BY StatusPageAssumption DEF StatusPageAssumption
<1>2. /\ health \in [AllParts -> Statuses] /\ health["Real-time Streaming"] = "operational"
      /\ \A p \in AllParts : health[p] = "operational"
  BY PartNames DEF StatusPageInit, Well, Statuses
<1>3. HealthRemembered
  BY <1>2 DEF StatusPageInit, HealthRemembered, IllNow
<1>4. /\ round = [began |-> round.began, rows |-> round.rows] /\ round.began \in -1..MaxTick
      /\ DOMAIN round.rows \subseteq AllRegions /\ round.rows \in [DOMAIN round.rows -> RowsOf]
  BY <1>1, NoRoundTypes DEF StatusPageInit
<1>5. /\ Len(statusChecks) = 0 /\ DOMAIN statusChecks = {} /\ missed = 0 /\ missed \in 0..MaxRounds /\ now \in 0..MaxTick
      /\ healthChanges \in 0..MaxHealthChanges
      /\ statusChecks \in Seq([at : 0..MaxTick, began : -1..MaxTick, rows : [AllRegions -> RowsOf]])
      /\ Len(statusChecks) + missed <= MaxRounds /\ Len(statusChecks) <= MaxRounds
  BY <1>1 DEF StatusPageInit
<1>6. answering \in BOOLEAN /\ illAt \subseteq AllParts \X (0..MaxTick)
  BY DEF StatusPageInit
<1>7. StatusPageTypeOK
  BY <1>2, <1>4, <1>5, <1>6 DEF StatusPageTypeOK
<1> QED
  BY <1>3, <1>5, <1>7 DEF StatusPageInit, StatusPageInv

-----------------------------------------------------------------------------
\* A row that is unwell spoils the uptime of each window it is in.
LEMMA SpoilsUptime ==
    ASSUME StatusPageInv, NEW i \in DOMAIN statusChecks, NEW g \in AllRegions,
           NEW p \in DOMAIN statusChecks[i].rows[g] \ {"API Server"},
           statusChecks[i].rows[g][p] # "operational", NEW days, i \in InWindow(days)
    PROVE  ~UptimeIsFull(g, days)
<1> DEFINE d == DayOf(statusChecks[i].at)
<1>1. statusChecks[i].rows[g][p] # "unreachable" /\ statusChecks[i].at <= now
  BY DEF StatusPageInv, SeenBetween
<1>2. statusChecks[i].at \in Nat /\ now \in Nat /\ statusChecks[i].rows[g] \in RowsOf
  BY StatusFacts
<1>3. d \in 0..DayOf(now)
  BY <1>1, <1>2, DaysGoOn
<1>4. p \in AllParts
  BY <1>2, PartNames DEF RowsOf
<1>5. i \in RowsFor(g, d, p, days) /\ i \notin GoodFor(g, d, p, days)
  BY <1>1 DEF RowsFor, GoodFor
<1> HIDE DEF d
<1>6. d \in DaysWith(g, days)
  BY <1>3, <1>4, <1>5 DEF DaysWith
<1> QED
  BY <1>4, <1>5, <1>6, Zenon DEF UptimeIsFull

\* The last of a day's parts by name is one with rows; in the local region, the last of all.
LEMMA LastOfADay ==
    ASSUME StatusPageInv, NEW g \in AllRegions, NEW days, NEW d \in DaysWith(g, days)
    PROVE  /\ LastOf(g, d, days) \in AllParts
           /\ g = "local" => LastOf(g, d, days) = "Real-time Streaming"
<1> DEFINE K == {k \in DOMAIN ByName : RowsFor(g, d, ByName[k], days) # {}}
<1>1. PICK p \in AllParts : RowsFor(g, d, p, days) # {}
  BY DEF DaysWith
<1>2. PICK k \in 1..6 : p = ByName[k]
  BY PartNames, Zenon DEF AllParts, Range
<1>3. K \subseteq 1..6 /\ k \in K
  BY <1>1, <1>2, PartNames
<1>4. ASSUME g = "local" PROVE 6 \in K
  <2>1. PICK i \in RowsFor(g, d, p, days) : TRUE
    BY <1>1
  <2>2. /\ i \in InWindow(days) /\ i \in DOMAIN statusChecks /\ DayOf(statusChecks[i].at) = d
    BY <2>1 DEF RowsFor, InWindow
  <2>3. DOMAIN statusChecks[i].rows[g] = AllParts /\ statusChecks[i].rows[g]["Real-time Streaming"] = "operational"
    BY <1>4, <2>2, Zenon DEF StatusPageInv, SeenBetween
  <2>4. "Real-time Streaming" \in AllParts
    BY PartNames
  <2>5. i \in RowsFor(g, d, "Real-time Streaming", days)
    BY <2>2, <2>3, <2>4 DEF RowsFor
  <2>6. 6 \in 1..6
    OBVIOUS
  <2> QED
    BY <2>5, <2>6, PartNames, Zenon
<1>5. LastOf(g, d, days) = ByName[Max(K)]
  BY Zenon DEF LastOf
<1> HIDE DEF K
<1>6. 6 \in Nat /\ K # {}
  BY <1>3
<1>7. Max(K) \in K /\ (6 \in K => Max(K) = 6)
  BY <1>3, <1>6, GreatestIsMax
<1> QED
  BY <1>3, <1>4, <1>5, <1>7, PartNames

\* A day of a region whose uptime is perfect, or of the local region, is flagged.
LEMMA DayIsFlagged ==
    ASSUME StatusPageInv, NEW g \in AllRegions, NEW days, NEW d \in DaysWith(g, days),
           UptimeIsFull(g, days) \/ g = "local"
    PROVE  FlaggedGood(g, d, days)
<1> DEFINE p == LastOf(g, d, days)
<1>1. p \in AllParts /\ (g = "local" => p = "Real-time Streaming")
  BY LastOfADay
<1>2. CASE UptimeIsFull(g, days)
  BY <1>1, <1>2, Zenon DEF UptimeIsFull, FlaggedGood
<1>3. CASE g = "local"
  <2>1. ASSUME NEW i \in RowsFor(g, d, p, days) PROVE statusChecks[i].rows[g][p] = "operational"
    <3>1. i \in DOMAIN statusChecks
      BY <2>1 DEF RowsFor, InWindow
    <3> QED
      BY <1>1, <1>3, <3>1, Zenon DEF StatusPageInv, SeenBetween
  <2>2. GoodFor(g, d, p, days) = RowsFor(g, d, p, days)
    BY <2>1, Zenon DEF GoodFor
  <2> QED
    BY <2>2, Zenon DEF FlaggedGood
<1> QED
  BY <1>2, <1>3

LEMMA StreakIsWhole ==
    ASSUME StatusPageInv, NEW g \in AllRegions, NEW days, UptimeIsFull(g, days) \/ g = "local"
    PROVE  Streak(g, days) = Cardinality({d \in DaysWith(g, days) : DayOf(now) - d < days})
<1> DEFINE back == {d \in 0..DayOf(now) : DayOf(now) - d < days} \cap DaysWith(g, days)
           counts == {d \in back : FlaggedGood(g, d, days)}
<1>1. \A d \in back : FlaggedGood(g, d, days)
  BY DayIsFlagged
<1>2. counts = back
  BY <1>1, Zenon
<1>3. {d \in counts : \A e \in back : e > d => e \in counts} = back
  BY <1>2, Zenon
<1>4. back = {d \in DaysWith(g, days) : DayOf(now) - d < days}
  BY Zenon DEF DaysWith
<1> QED
  BY <1>3, <1>4, Zenon DEF Streak

LEMMA StatusIsTruthful == StatusPageInv => StatusTruthful
<1> SUFFICES ASSUME StatusPageInv PROVE StatusTruthful
  OBVIOUS
<1>1. ASSUME NEW i \in DOMAIN statusChecks, NEW g \in AllRegions,
             NEW p \in DOMAIN statusChecks[i].rows[g] \ {"API Server"}, statusChecks[i].rows[g][p] # "operational"
      PROVE  /\ \E t \in statusChecks[i].began..statusChecks[i].at : <<p, t>> \in illAt
             /\ \A days \in Spans : i \in InWindow(days) => ~UptimeIsFull(g, days)
  <2>1. \E t \in statusChecks[i].began..statusChecks[i].at : <<p, t>> \in illAt
    BY <1>1, Zenon DEF StatusPageInv, SeenBetween
  <2>2. \A days \in Spans : i \in InWindow(days) => ~UptimeIsFull(g, days)
    BY <1>1, SpoilsUptime
  <2> QED
    BY <2>1, <2>2
<1>2. \A g \in AllRegions, days \in Spans :
         UptimeIsFull(g, days) \/ g = "local" =>
             Streak(g, days) = Cardinality({d \in DaysWith(g, days) : DayOf(now) - d < days})
  BY StreakIsWhole, Zenon
<1> QED
  BY <1>1, <1>2, Zenon DEF StatusTruthful

\* Whatever falls ill and whenever, however rounds overlap with it, with time and with restarts:
\* the status page records a part as unwell only if it was, such a row spoils its windows'
\* uptime, and perfect uptime gives the full streak (status/handler.go, runStatusRecorder).
THEOREM StatusPageIsTruthful == StatusPageSpec => []StatusTruthful
BY InitStatusPage, StatusPageKeep, StatusIsTruthful, PTL DEF StatusPageSpec

-----------------------------------------------------------------------------
(***************************************************************************)
(* Mail.                                                                    *)
(***************************************************************************)
MailRow == [kind : Priorities \cup {"none", "otp"}, by : {"none", "nil", "noop", "http", "smtp"},
            attempts : 0..maxRetries, end : Ends]

LEMMA MailTypes ==
    ASSUME MailInv
    PROVE  /\ mail \in [Mails -> MailRow] /\ inbox \in [Mails -> 0..maxRetries] /\ doubtful \in [Mails -> 0..maxRetries]
           /\ asked \in [Mails -> {"not read", "yes", "no"}] /\ crashed \in BOOLEAN
           /\ provider \in Providers /\ preference \in Preferences /\ prefChanges \in 0..MaxPrefChanges
           /\ crashed => provider = "smtp"
BY DEF MailInv, MailTypeOK, MailRow, MailAccounted

LEMMA MailNumbers == 0..maxRetries = 0..3 /\ 0 \in 0..maxRetries /\ MaxPrefChanges \in Nat
BY MailAssumption DEF maxRetries, MailAssumption

\* What was never tried never arrived.
LEMMA NotTried == \A i \in 0..3 : \A n : i <= n /\ n = 0 => i = 0
OBVIOUS

LEMMA ZeroLeast == 0 <= 0
OBVIOUS

\* One mail gets on; what it comes to is as its row says.
LEMMA MailMoves ==
    ASSUME MailInv, NEW m \in Mails, NEW q \in MailRow, NEW i \in 0..maxRetries, NEW d \in 0..maxRetries,
           NEW a \in {"not read", "yes"},
           mail' = [mail EXCEPT ![m] = q], inbox' = [inbox EXCEPT ![m] = i],
           doubtful' = [doubtful EXCEPT ![m] = d], asked' = [asked EXCEPT ![m] = a],
           UNCHANGED <<provider, preference, prefChanges>>, crashed' \in BOOLEAN, crashed' => provider = "smtp",
           q.end = "sent" /\ q.by \in {"http", "smtp"} => i \in 1..(1 + d),
           q.end # "sent" => i <= d, i <= q.attempts, d <= q.attempts,
           q.by \notin {"http", "smtp"} => q.attempts = 0,
           q.kind # "otp" /\ provider = "smtp" => q.by \in {"none", "nil"},
           q.end \in {"suppressed", "no sender"} => q.by \in {"none", "nil"}
    PROVE  MailInv'
<1>1. /\ mail' \in [Mails -> MailRow] /\ inbox' \in [Mails -> 0..maxRetries] /\ doubtful' \in [Mails -> 0..maxRetries]
      /\ asked' \in [Mails -> {"not read", "yes", "no"}]
      /\ mail'[m] = q /\ inbox'[m] = i /\ doubtful'[m] = d /\ asked'[m] = a
      /\ \A k \in Mails \ {m} : /\ mail'[k] = mail[k] /\ inbox'[k] = inbox[k]
                                /\ doubtful'[k] = doubtful[k] /\ asked'[k] = asked[k]
  BY MailTypes
<1>2. MailTypeOK'
  BY <1>1, MailTypes DEF MailTypeOK, MailRow
<1>3. ASSUME NEW k \in Mails PROVE MailShape(k)'
  <2>1. CASE k = m
    BY <1>1, <2>1 DEF MailShape
  <2>2. CASE k # m
    BY <1>1, <2>2 DEF MailShape, MailInv
  <2> QED
    BY <2>1, <2>2
<1>4. \A k \in Mails : mail'[k].attempts \in 0..3 /\ inbox'[k] \in 0..3
  BY <1>1, MailNumbers DEF MailRow
<1>5. ASSUME NEW k \in Mails
      PROVE  /\ mail'[k].end = "sent" /\ mail'[k].by \in {"http", "smtp"} => inbox'[k] \in 1..(1 + doubtful'[k])
             /\ mail'[k].end # "sent" => inbox'[k] <= doubtful'[k]
             /\ mail'[k].end \in {"suppressed", "no sender"} => inbox'[k] = 0
             /\ asked'[k] # "no"
  <2>1. CASE k = m
    <3>1. q.end \in {"suppressed", "no sender"} => i = 0
      <4>1. i \in 0..3
        BY MailNumbers
      <4> QED
        BY <4>1, NotTried, Zenon
    <3> QED
      BY <1>1, <2>1, <3>1
  <2>2. CASE k # m
    BY <1>1, <2>2 DEF MailAccounted, MailInv
  <2> QED
    BY <2>1, <2>2
<1>6. crashed' => provider' = "smtp" /\ \A k \in Mails : mail'[k].kind # "otp" => inbox'[k] = 0
  <2> SUFFICES ASSUME crashed' PROVE provider' = "smtp" /\ \A k \in Mails : mail'[k].kind # "otp" => inbox'[k] = 0
    OBVIOUS
  <2>1. provider' = "smtp"
    OBVIOUS
  <2>2. ASSUME NEW k \in Mails, mail'[k].kind # "otp" PROVE inbox'[k] = 0
    <3>1. mail'[k].by \in {"none", "nil"}
      BY <1>3, <2>1, <2>2 DEF MailShape
    <3>2. mail'[k].attempts = 0 /\ inbox'[k] <= mail'[k].attempts
      BY <1>3, <3>1 DEF MailShape
    <3>3. inbox'[k] \in 0..3
      BY <1>4
    <3> QED
      BY <3>2, <3>3, NotTried, Zenon
  <2> QED
    BY <2>1, <2>2
<1>7. MailAccounted'
  BY <1>5, <1>6 DEF MailAccounted
<1> QED
  BY <1>2, <1>3, <1>7 DEF MailInv

\* A mail that has not begun: nothing was tried.
LEMMA NoMailYet ==
    ASSUME MailInv, NEW m \in Mails, mail[m] = NoMail
    PROVE  inbox[m] = 0 /\ doubtful[m] = 0
<1>1. mail[m].attempts = 0
  BY DEF NoMail
<1>0. inbox[m] \in 0..3 /\ doubtful[m] \in 0..3
  BY MailTypes, MailNumbers
<1>2. inbox[m] <= mail[m].attempts /\ doubtful[m] <= mail[m].attempts
  BY DEF MailInv, MailShape
<1> QED
  BY <1>0, <1>1, <1>2

LEMMA SameCounts ==
    ASSUME MailInv, NEW m \in Mails
    PROVE  /\ inbox = [inbox EXCEPT ![m] = inbox[m]] /\ doubtful = [doubtful EXCEPT ![m] = doubtful[m]]
           /\ asked = [asked EXCEPT ![m] = asked[m]] /\ asked[m] \in {"not read", "yes"}
           /\ inbox[m] \in 0..maxRetries /\ doubtful[m] \in 0..maxRetries /\ 0 \in 0..maxRetries
<1>1. asked[m] # "no"
  BY DEF MailInv, MailAccounted
<1> QED
  BY <1>1, MailTypes, MailNumbers

\* A mail begins: by whom it goes, and nothing tried.
LEMMA MailBegins ==
    ASSUME MailInv, NEW m \in Mails, mail[m] = NoMail, NEW q \in MailRow, NEW a \in {"not read", "yes"},
           mail' = [mail EXCEPT ![m] = q], asked' = [asked EXCEPT ![m] = a],
           UNCHANGED <<provider, preference, inbox, doubtful, prefChanges>>,
           crashed' \in BOOLEAN, crashed' => provider = "smtp", q.attempts = 0,
           ~(q.end = "sent" /\ q.by \in {"http", "smtp"}),
           q.kind # "otp" /\ provider = "smtp" => q.by \in {"none", "nil"},
           q.end \in {"suppressed", "no sender"} => q.by \in {"none", "nil"}
    PROVE  MailInv'
<1>1. inbox[m] = 0 /\ doubtful[m] = 0
  BY NoMailYet
<1>2. inbox' = [inbox EXCEPT ![m] = 0] /\ doubtful' = [doubtful EXCEPT ![m] = 0] /\ 0 \in 0..maxRetries
  BY <1>1, SameCounts
<1>3. 0 <= q.attempts
  BY ZeroLeast, Zenon
<1>4. q.end = "sent" /\ q.by \in {"http", "smtp"} => 0 \in 1..(1 + 0)
  BY Zenon
<1> QED
  BY <1>2, <1>3, <1>4, MailMoves, ZeroLeast

LEMMA OTPKeeps == ASSUME MailInv, NEW m \in Mails, MailOTP(m) PROVE MailInv'
<1>1. PICK by \in {"http", "smtp", "noop", "nil"} : by = otpSender
  BY DEF otpSender
<1>2. PICK end \in {"no sender", "sent", "sending"} :
        /\ mail' = [mail EXCEPT ![m] = [kind |-> "otp", by |-> by, attempts |-> 0, end |-> end]]
        /\ (end = "no sender" => by = "nil") /\ (end = "sent" => by = "noop")
  BY <1>1 DEF MailOTP
<1>3. PICK q \in MailRow : q = [kind |-> "otp", by |-> by, attempts |-> 0, end |-> end]
  <2>1. [kind |-> "otp", by |-> by, attempts |-> 0, end |-> end] \in MailRow
    BY MailNumbers DEF MailRow, Ends
  <2> QED
    BY <2>1
<1>4. /\ q.kind = "otp" /\ q.by = by /\ q.attempts = 0 /\ q.end = end /\ mail' = [mail EXCEPT ![m] = q]
  BY <1>2, <1>3
<1>5. /\ UNCHANGED <<provider, preference, inbox, doubtful, prefChanges>> /\ crashed' = crashed
      /\ asked' = [asked EXCEPT ![m] = asked[m]] /\ asked[m] \in {"not read", "yes"} /\ mail[m] = NoMail
  BY SameCounts DEF MailOTP
<1>6. crashed' \in BOOLEAN /\ (crashed' => provider = "smtp")
  BY <1>5, MailTypes
<1> QED
  BY <1>2, <1>4, <1>5, <1>6, MailBegins

\* The mail is handed to the mailer, or to a nil one, which ends the process.
LEMMA HandsOverKeeps ==
    ASSUME MailInv, NEW m \in Mails, NEW priority \in Priorities, mail[m] = NoMail, HandsOver(m, priority),
           NEW a \in {"not read", "yes"}, asked' = [asked EXCEPT ![m] = a],
           UNCHANGED <<provider, preference, inbox, doubtful, prefChanges>>
    PROVE  MailInv'
<1>1. PICK by \in {"http", "noop", "nil"} : by = lifecycleMailer
  BY DEF lifecycleMailer
<1>2. (provider = "smtp") <=> (by = "nil")
  BY <1>1, MailTypes DEF lifecycleMailer
<1>3. PICK end \in {"panic", "sent", "sending"} :
        /\ mail' = [mail EXCEPT ![m] = [kind |-> priority, by |-> by, attempts |-> 0, end |-> end]]
        /\ (end = "sent" => by = "noop")
  BY <1>1 DEF HandsOver
<1>4. PICK q \in MailRow : q = [kind |-> priority, by |-> by, attempts |-> 0, end |-> end]
  <2>1. [kind |-> priority, by |-> by, attempts |-> 0, end |-> end] \in MailRow
    BY MailNumbers DEF MailRow, Ends
  <2> QED
    BY <2>1
<1>5. q.by = by /\ q.attempts = 0 /\ q.end = end /\ mail' = [mail EXCEPT ![m] = q]
  BY <1>3, <1>4
<1>6. crashed' \in BOOLEAN /\ (crashed' => provider = "smtp")
  BY <1>1, <1>2 DEF HandsOver
<1> QED
  BY <1>2, <1>3, <1>5, <1>6, MailBegins

LEMMA SendLifecycleKeeps ==
    ASSUME MailInv, NEW m \in Mails, NEW priority \in Priorities, SendLifecycle(m, priority) PROVE MailInv'
<1>1. mail[m] = NoMail /\ UNCHANGED <<provider, preference, inbox, doubtful, prefChanges>>
  BY DEF SendLifecycle
<1>2. CASE /\ mail' = [mail EXCEPT ![m] = [NoMail EXCEPT !.kind = priority, !.end = "suppressed"]]
           /\ UNCHANGED <<asked, crashed>>
  <2>1. PICK q \in MailRow : q = [NoMail EXCEPT !.kind = priority, !.end = "suppressed"]
    <3>1. [NoMail EXCEPT !.kind = priority, !.end = "suppressed"] \in MailRow
      BY MailNumbers DEF NoMail, MailRow, Ends
    <3> QED
      BY <3>1
  <2>2. q.by = "none" /\ q.attempts = 0 /\ q.end = "suppressed" /\ mail' = [mail EXCEPT ![m] = q]
    BY <1>2, <2>1 DEF NoMail
  <2>3. asked' = [asked EXCEPT ![m] = asked[m]] /\ asked[m] \in {"not read", "yes"}
    BY <1>2, SameCounts
  <2>4. crashed' \in BOOLEAN /\ (crashed' => provider = "smtp")
    BY <1>2, MailTypes
  <2> QED
    BY <1>1, <2>2, <2>3, <2>4, MailBegins
<1>3. CASE /\ shouldSend(preference, priority) /\ HandsOver(m, priority)
           /\ asked' = [asked EXCEPT ![m] = IF preference.consent /\ preference.level # "transactional"
                                            THEN "yes" ELSE "no"]
  <2>1. preference.consent /\ preference.level # "transactional"
    BY <1>3 DEF shouldSend
  <2>2. asked' = [asked EXCEPT ![m] = "yes"]
    BY <1>3, <2>1
  <2> QED
    BY <1>1, <1>3, <2>2, HandsOverKeeps
<1>4. CASE HandsOver(m, priority) /\ UNCHANGED asked
  <2>1. asked' = [asked EXCEPT ![m] = asked[m]] /\ asked[m] \in {"not read", "yes"}
    BY <1>4, SameCounts
  <2> QED
    BY <1>1, <1>4, <2>1, HandsOverKeeps
<1> QED
  BY <1>2, <1>3, <1>4 DEF SendLifecycle

\* The arithmetic of an attempt.
LEMMA AttemptCounts ==
    ASSUME NEW n \in 0..3, n < 3, NEW x \in 0..3, NEW y \in 0..3, x <= y, y <= n
    PROVE  /\ n + 1 \in 0..3 /\ x + 1 \in 0..3 /\ y + 1 \in 0..3
           /\ x <= n + 1 /\ y <= n + 1 /\ x + 1 <= n + 1 /\ y + 1 <= n + 1
           /\ x <= y + 1 /\ x + 1 <= y + 1 /\ x + 1 \in 1..(1 + y) /\ x + 0 = x
OBVIOUS

LEMMA AttemptFacts ==
    ASSUME MailInv, NEW m \in Mails, Attempt(m)
    PROVE  /\ mail[m] \in MailRow /\ mail[m].by \in {"http", "smtp"} /\ ~crashed
           /\ mail[m].attempts \in 0..3 /\ mail[m].attempts < 3
           /\ inbox[m] \in 0..3 /\ doubtful[m] \in 0..3
           /\ inbox[m] <= doubtful[m] /\ doubtful[m] <= mail[m].attempts
           /\ mail[m].kind # "otp" /\ provider = "smtp" => FALSE
<1>1. /\ mail[m].end = "sending" /\ mail[m].by \in {"http", "smtp"} /\ ~crashed /\ mail[m].attempts < 3
  BY DEF Attempt, maxRetries
<1>2. mail[m] \in MailRow /\ inbox[m] \in 0..3 /\ doubtful[m] \in 0..3
  BY MailTypes, MailNumbers
<1>3. mail[m].attempts \in 0..3
  BY <1>2, MailNumbers DEF MailRow
<1>4. inbox[m] <= doubtful[m]
  BY <1>1 DEF MailInv, MailAccounted
<1>5. doubtful[m] <= mail[m].attempts /\ (mail[m].kind # "otp" /\ provider = "smtp" => mail[m].by \in {"none", "nil"})
  BY DEF MailInv, MailShape
<1> QED
  BY <1>1, <1>2, <1>3, <1>4, <1>5

\* An attempt ends: sent and arrived, or not sent and arrived only if that is in doubt.
LEMMA AttemptKeeps ==
    ASSUME MailInv, NEW m \in Mails, Attempt(m), NEW end \in {"sent", "backoff", "failed"}, Ended(m, end),
           NEW i \in {inbox[m], inbox[m] + 1}, NEW d \in {doubtful[m], doubtful[m] + 1},
           inbox' = [inbox EXCEPT ![m] = i], doubtful' = [doubtful EXCEPT ![m] = d],
           end = "sent" => i = inbox[m] + 1 /\ d = doubtful[m],
           end # "sent" => i = inbox[m] \/ d = doubtful[m] + 1,
           UNCHANGED <<provider, preference, asked, crashed, prefChanges>>
    PROVE  MailInv'
<1>1. /\ mail[m] \in MailRow /\ mail[m].by \in {"http", "smtp"} /\ ~crashed
      /\ mail[m].attempts \in 0..3 /\ mail[m].attempts < 3
      /\ inbox[m] \in 0..3 /\ doubtful[m] \in 0..3
      /\ inbox[m] <= doubtful[m] /\ doubtful[m] <= mail[m].attempts
      /\ mail[m].kind # "otp" /\ provider = "smtp" => FALSE
  BY AttemptFacts
<1>2. /\ mail[m].attempts + 1 \in 0..3 /\ inbox[m] + 1 \in 0..3 /\ doubtful[m] + 1 \in 0..3
      /\ inbox[m] <= mail[m].attempts + 1 /\ doubtful[m] <= mail[m].attempts + 1
      /\ inbox[m] + 1 <= mail[m].attempts + 1 /\ doubtful[m] + 1 <= mail[m].attempts + 1
      /\ inbox[m] <= doubtful[m] + 1 /\ inbox[m] + 1 <= doubtful[m] + 1 /\ inbox[m] + 1 \in 1..(1 + doubtful[m])
  BY <1>1, AttemptCounts
<1>3. PICK q \in MailRow : q = [mail[m] EXCEPT !.attempts = mail[m].attempts + 1, !.end = end]
  <2>1. [mail[m] EXCEPT !.attempts = mail[m].attempts + 1, !.end = end] \in MailRow
    BY <1>1, <1>2, MailNumbers DEF MailRow, Ends
  <2> QED
    BY <2>1
<1>4. /\ q.attempts = mail[m].attempts + 1 /\ q.end = end /\ q.by = mail[m].by /\ q.kind = mail[m].kind
      /\ mail' = [mail EXCEPT ![m] = q]
  <2>1. mail' = [mail EXCEPT ![m] = q]
    BY <1>3, MailTypes DEF Ended
  <2> QED
    BY <1>1, <1>3, <2>1 DEF MailRow
<1>5. i \in 0..maxRetries /\ d \in 0..maxRetries
  BY <1>1, <1>2, MailNumbers
<1>6. i <= q.attempts /\ d <= q.attempts
  BY <1>1, <1>2, <1>4, Zenon
<1>7. q.end # "sent" => i <= d
  BY <1>1, <1>2, <1>4, Zenon
<1>8. q.end = "sent" => i \in 1..(1 + d)
  BY <1>1, <1>2, <1>4, Zenon
<1>9. asked' = [asked EXCEPT ![m] = asked[m]] /\ asked[m] \in {"not read", "yes"}
  BY SameCounts
<1>10. crashed' \in BOOLEAN /\ (crashed' => provider = "smtp")
  BY MailTypes
<1>11. /\ q.by \in {"http", "smtp"} /\ ~(q.kind # "otp" /\ provider = "smtp") /\ q.end \notin {"suppressed", "no sender"}
  BY <1>1, <1>4
<1> QED
  BY <1>4, <1>5, <1>6, <1>7, <1>8, <1>9, <1>10, <1>11, MailMoves

LEMMA AttemptsKeep ==
    ASSUME MailInv, NEW m \in Mails, Accepted(m) \/ MailRefused(m) \/ NoAnswer(m) PROVE MailInv'
<1>0. inbox = [inbox EXCEPT ![m] = inbox[m]] /\ doubtful = [doubtful EXCEPT ![m] = doubtful[m]]
  BY SameCounts
<1>1. CASE Accepted(m)
  <2>1. /\ Attempt(m) /\ Ended(m, "sent") /\ inbox' = [inbox EXCEPT ![m] = inbox[m] + 1]
        /\ doubtful' = [doubtful EXCEPT ![m] = doubtful[m]]
        /\ UNCHANGED <<provider, preference, asked, crashed, prefChanges>>
    BY <1>0, <1>1 DEF Accepted
  <2> QED
    BY <2>1, AttemptKeeps
<1>2. ASSUME Again(m) \/ Ended(m, "failed") PROVE \E end \in {"backoff", "failed"} : Ended(m, end)
  BY <1>2 DEF Again
<1>3. CASE MailRefused(m)
  <2>1. /\ Attempt(m) /\ (Again(m) \/ Ended(m, "failed")) /\ inbox' = [inbox EXCEPT ![m] = inbox[m]]
        /\ doubtful' = [doubtful EXCEPT ![m] = doubtful[m]]
        /\ UNCHANGED <<provider, preference, asked, crashed, prefChanges>>
    BY <1>0, <1>3 DEF MailRefused
  <2>2. PICK end \in {"backoff", "failed"} : Ended(m, end)
    BY <1>2, <2>1
  <2> QED
    BY <2>1, <2>2, AttemptKeeps
<1>4. CASE NoAnswer(m)
  <2>1. /\ Attempt(m) /\ Again(m) /\ doubtful' = [doubtful EXCEPT ![m] = doubtful[m] + 1]
        /\ UNCHANGED <<provider, preference, asked, crashed, prefChanges>>
    BY <1>4 DEF NoAnswer
  <2>2. PICK arrived \in {0, 1} : inbox' = [inbox EXCEPT ![m] = inbox[m] + arrived]
    BY <1>4 DEF NoAnswer
  <2>3. inbox[m] + 0 = inbox[m]
    BY <2>1, AttemptFacts
  <2>4. PICK i \in {inbox[m], inbox[m] + 1} : inbox' = [inbox EXCEPT ![m] = i]
    BY <2>2, <2>3
  <2>5. PICK end \in {"backoff", "failed"} : Ended(m, end)
    BY <1>2, <2>1
  <2> QED
    BY <2>1, <2>4, <2>5, AttemptKeeps
<1> QED
  BY <1>1, <1>3, <1>4

LEMMA BackoffKeeps == ASSUME MailInv, NEW m \in Mails, Backoff(m) PROVE MailInv'
<1>1. /\ mail[m].end = "backoff" /\ crashed' = crashed
      /\ UNCHANGED <<provider, preference, inbox, doubtful, asked, prefChanges>>
  BY DEF Backoff
<1>2. PICK end \in {"sending", "failed"} : mail' = [mail EXCEPT ![m].end = end]
  BY DEF Backoff
<1>3. mail[m] \in MailRow
  BY MailTypes
<1>4. PICK q \in MailRow : q = [mail[m] EXCEPT !.end = end]
  <2>1. [mail[m] EXCEPT !.end = end] \in MailRow
    BY <1>3 DEF MailRow, Ends
  <2> QED
    BY <2>1
<1>5. /\ q.attempts = mail[m].attempts /\ q.end = end /\ q.by = mail[m].by /\ q.kind = mail[m].kind
      /\ mail' = [mail EXCEPT ![m] = q]
  <2>1. mail' = [mail EXCEPT ![m] = q]
    BY <1>2, <1>4, MailTypes
  <2> QED
    BY <1>3, <1>4, <2>1 DEF MailRow
<1>6. /\ inbox' = [inbox EXCEPT ![m] = inbox[m]] /\ doubtful' = [doubtful EXCEPT ![m] = doubtful[m]]
      /\ asked' = [asked EXCEPT ![m] = asked[m]] /\ asked[m] \in {"not read", "yes"}
      /\ inbox[m] \in 0..maxRetries /\ doubtful[m] \in 0..maxRetries
  BY <1>1, SameCounts
<1>7. inbox[m] <= doubtful[m]
  BY <1>1 DEF MailInv, MailAccounted
<1>8. MailShape(m)
  BY DEF MailInv
<1>9. /\ inbox[m] <= q.attempts /\ doubtful[m] <= q.attempts /\ (q.by \notin {"http", "smtp"} => q.attempts = 0)
      /\ (q.kind # "otp" /\ provider = "smtp" => q.by \in {"none", "nil"})
      /\ q.end \notin {"suppressed", "no sender", "sent"}
  BY <1>5, <1>8, Zenon DEF MailShape
<1>10. crashed' \in BOOLEAN /\ (crashed' => provider = "smtp")
  BY <1>1, MailTypes
<1> QED
  BY <1>1, <1>5, <1>6, <1>7, <1>9, <1>10, MailMoves

LEMMA PreferencesKeep ==
    ASSUME MailInv, NEW p \in Preferences, UpdateUserEmailPreferences(p) PROVE MailInv'
<1>1. prefChanges' \in 0..MaxPrefChanges
  <2>1. prefChanges \in 0..MaxPrefChanges /\ MaxPrefChanges \in Nat
    BY MailTypes, MailNumbers
  <2>2. prefChanges < MaxPrefChanges /\ prefChanges' = prefChanges + 1
    BY DEF UpdateUserEmailPreferences
  <2> QED
    BY <2>1, <2>2
<1>2. preference' \in Preferences /\ UNCHANGED <<provider, mail, inbox, doubtful, asked, crashed>>
  BY DEF UpdateUserEmailPreferences
<1>3. MailTypeOK'
  BY <1>1, <1>2 DEF MailInv, MailTypeOK
<1>4. MailAccounted' /\ \A m \in Mails : MailShape(m)'
  BY <1>2 DEF MailInv, MailAccounted, MailShape
<1> QED
  BY <1>3, <1>4 DEF MailInv

LEMMA MailKeep == MailInv /\ [MailNext]_mailVars => MailInv'
<1> SUFFICES ASSUME MailInv, [MailNext]_mailVars PROVE MailInv'
  OBVIOUS
<1>1. CASE UNCHANGED mailVars
  BY <1>1 DEF mailVars, MailInv, MailTypeOK, MailAccounted, MailShape
<1>2. ASSUME NEW p \in Preferences, UpdateUserEmailPreferences(p) PROVE MailInv'
  BY <1>2, PreferencesKeep
<1>3. ASSUME NEW m \in Mails, NEW priority \in Priorities, SendLifecycle(m, priority) PROVE MailInv'
  BY <1>3, SendLifecycleKeeps
<1>4. ASSUME NEW m \in Mails, MailOTP(m) \/ Accepted(m) \/ MailRefused(m) \/ NoAnswer(m) \/ Backoff(m)
      PROVE  MailInv'
  BY <1>4, OTPKeeps, AttemptsKeep, BackoffKeeps
<1> QED
  BY <1>1, <1>2, <1>3, <1>4 DEF MailNext

LEMMA InitMail == MailInit => MailInv
<1> SUFFICES ASSUME MailInit PROVE MailInv
  OBVIOUS
<1>1. NoMail \in MailRow /\ NoMail.attempts = 0 /\ NoMail.by = "none" /\ NoMail.end = "sending"
  BY MailNumbers DEF NoMail, MailRow, Ends
<1>2. MailTypeOK
  <2>1. 0 \in 0..maxRetries /\ 0 \in 0..MaxPrefChanges
    BY MailNumbers
  <2> QED
    BY <1>1, <2>1 DEF MailInit, MailTypeOK, MailRow
<1>3. \A m \in Mails : mail[m] = NoMail /\ inbox[m] = 0 /\ doubtful[m] = 0 /\ asked[m] = "not read"
  BY DEF MailInit
<1>4. MailAccounted
  BY <1>1, <1>3, ZeroLeast DEF MailInit, MailAccounted
<1>5. \A m \in Mails : MailShape(m)
  BY <1>1, <1>3, ZeroLeast DEF MailShape
<1> QED
  BY <1>2, <1>4, <1>5 DEF MailInv

\* Whatever the provider and however its answers get lost: the answer a caller gets is true up to the
\* attempts nobody can judge, nothing goes against a preference that was read, and the process dies of
\* a mail only with SMTP (processor.go, zeptomail, smtp.go).
THEOREM MailIsAccountedFor == MailSpec => []MailAccounted
<1>1. MailInv => MailAccounted
  BY DEF MailInv
<1> QED
  BY <1>1, InitMail, MailKeep, PTL DEF MailSpec

-----------------------------------------------------------------------------
(***************************************************************************)
(* The DNS zone.                                                            *)
(***************************************************************************)
SyncRecord ==
    [pc : {"idle", "clusters", "ensure", "delete", "done", "error"}, existing : SUBSET DNSRecords,
     todo : SUBSET DNSClusters, ips : [DNSClusters -> DNSAddresses \union {"decommissioned"}],
     quiet : BOOLEAN, found : SUBSET DNSRecords]
UnderWay == {"clusters", "ensure", "delete"}

\* Ids are given once; a sync will delete only what it has found, and creates records of
\* running clusters only.
ZoneShape == IsFiniteSet(zone) /\ \A r \in zone : r.id <= recordId
SyncShape(s) ==
    /\ sync[s].existing \subseteq sync[s].found /\ IsFiniteSet(sync[s].found)
    /\ \A r \in sync[s].found : r.id <= recordId
    /\ sync[s].pc = "ensure" => \A c \in sync[s].todo : sync[s].ips[c] # "decommissioned"

\* Alone in its name, in what a sync has found.
Alone(s, r) == \A q \in sync[s].found : q.name = r.name => q = r

\* What a sync that nothing has disturbed knows of the zone: what it has found is there
\* until it deletes; a record alone in its name waits to be deleted; what is new has new
\* ids and is no copy; and every cluster dealt with had its record or has got it.
QuietShape(s) ==
    /\ sync[s].pc \in {"clusters", "ensure"} => sync[s].found \subseteq zone
    /\ sync[s].pc = "clusters" => zone \subseteq sync[s].found
    /\ sync[s].pc \in UnderWay =>
          /\ \A r \in sync[s].found : r \in zone /\ Alone(s, r) => r \in sync[s].existing
          /\ \A r \in zone \ sync[s].found : \A q \in sync[s].found :
                q.id # r.id /\ ~(q.name = r.name /\ q.content = r.content)
    /\ sync[s].pc \in {"ensure", "delete"} =>
          \A c \in DNSClusters :
             sync[s].ips[c] # "decommissioned" /\ (c \in sync[s].todo => sync[s].pc = "delete") =>
                \/ Holds(c, sync[s].ips[c])
                \/ \E q \in sync[s].found : q.name = c /\ q.content = sync[s].ips[c]

DNSZoneInv ==
    /\ zone \subseteq DNSRecords /\ sync \in [Syncs -> SyncRecord]
    /\ clusterIPs \in [DNSClusters -> DNSAddresses \union {"decommissioned"}]
    /\ recordId \in 0..MaxRecords /\ dnsEdits \in 0..MaxDNSEdits /\ dnsFaults \in 0..MaxDNSFaults
    /\ ZoneShape
    /\ \A s \in Syncs : SyncShape(s) /\ (sync[s].quiet = TRUE => QuietShape(s))

LEMMA NoSyncType == NoSync \in SyncRecord
BY DEF NoSync, SyncRecord

LEMMA InitDNS == DNSZoneInit => DNSZoneInv
<1> SUFFICES ASSUME DNSZoneInit PROVE DNSZoneInv
  OBVIOUS
<1>1. recordId \in 0..MaxRecords /\ dnsEdits \in 0..MaxDNSEdits /\ dnsFaults \in 0..MaxDNSFaults
  BY DNSZoneAssumption DEF DNSZoneAssumption, DNSZoneInit
<1>2. /\ zone \subseteq DNSRecords /\ sync \in [Syncs -> SyncRecord]
      /\ clusterIPs \in [DNSClusters -> DNSAddresses \union {"decommissioned"}]
  BY NoSyncType DEF DNSZoneInit
<1>3. ZoneShape
  BY FS_EmptySet DEF ZoneShape, DNSZoneInit
<1>4. \A s \in Syncs : sync[s].pc = "idle" /\ sync[s].existing = {} /\ sync[s].found = {}
  BY DEF DNSZoneInit, NoSync
<1>5. \A s \in Syncs : SyncShape(s) /\ QuietShape(s)
  BY <1>4, FS_EmptySet DEF SyncShape, QuietShape, UnderWay
<1> QED
  BY <1>1, <1>2, <1>3, <1>5 DEF DNSZoneInv

\* DNSZoneInv has the types of the model.
LEMMA DNSTypes == DNSZoneInv => DNSZoneTypeOK
<1> SUFFICES ASSUME DNSZoneInv PROVE DNSZoneTypeOK
  OBVIOUS
<1>1. ASSUME NEW s \in Syncs
      PROVE  /\ sync[s].pc \in {"idle", "clusters", "ensure", "delete", "done", "error"}
             /\ sync[s].existing \subseteq DNSRecords /\ sync[s].found \subseteq DNSRecords
             /\ sync[s].todo \subseteq DNSClusters /\ sync[s].quiet \in BOOLEAN
             /\ sync[s].ips \in [DNSClusters -> DNSAddresses \union {"decommissioned"}]
  <2>1. sync[s] \in SyncRecord
    BY DEF DNSZoneInv
  <2> QED
    BY <2>1 DEF SyncRecord
<1> QED
  BY <1>1 DEF DNSZoneInv, DNSZoneTypeOK

\* What the two action properties say of one step.
DeletesListed ==
    \A r \in zone : r.id \in {q.id : q \in zone'} \/
        \E s \in Syncs : sync[s].pc = "delete" /\ r.id \in {q.id : q \in sync[s].found}
DoneRight ==
    \A s \in Syncs : sync[s].pc = "delete" /\ sync'[s].pc = "done" /\ sync[s].quiet =>
        \A c \in DNSClusters :
            LET ip == sync[s].ips[c]
                had == {r \in sync[s].found : r.name = c /\ r.content = ip}
            IN  /\ ip # "decommissioned"
                /\ Cardinality({r \in sync[s].found : r.name = c}) < 2
                => (Holds(c, ip) <=> had = {})
DNSOutcome == DNSZoneInv' /\ DeletesListed /\ DoneRight

\* A sync another one or an edit comes across.
LEMMA DisturbedIs ==
    ASSUME sync \in [Syncs -> SyncRecord], NEW s \in Syncs
    PROVE  /\ Disturbed(s) \in SyncRecord
           /\ Disturbed(s).pc = sync[s].pc /\ Disturbed(s).existing = sync[s].existing
           /\ Disturbed(s).found = sync[s].found /\ Disturbed(s).todo = sync[s].todo
           /\ Disturbed(s).ips = sync[s].ips
           /\ sync[s].pc \in UnderWay => Disturbed(s).quiet = FALSE
<1>1. sync[s] \in SyncRecord
  OBVIOUS
<1>2. sync[s].pc \in UnderWay => ~(sync[s].pc \in {"idle", "done", "error"})
  BY DEF UnderWay
<1> QED
  BY <1>1, <1>2 DEF Disturbed, SyncRecord

\* What it knows stays true, as far as it still counts.
LEMMA DisturbedKeeps ==
    ASSUME DNSZoneInv, NEW s \in Syncs, sync'[s] = Disturbed(s), recordId' \in Nat, recordId' >= recordId
    PROVE  SyncShape(s)' /\ (sync'[s].quiet = TRUE => QuietShape(s)')
<1>1. /\ sync'[s].pc = sync[s].pc /\ sync'[s].existing = sync[s].existing
      /\ sync'[s].found = sync[s].found /\ sync'[s].todo = sync[s].todo /\ sync'[s].ips = sync[s].ips
      /\ sync[s].pc \in UnderWay => sync'[s].quiet = FALSE
  BY DisturbedIs DEF DNSZoneInv
<1>2. SyncShape(s) /\ recordId \in Nat /\ sync[s].found \subseteq DNSRecords
  <2>1. sync[s] \in SyncRecord
    BY DEF DNSZoneInv
  <2> QED
    BY <2>1, DNSZoneAssumption DEF DNSZoneInv, SyncRecord, DNSZoneAssumption
<1>3. \A r \in sync[s].found : r.id <= recordId'
  <2> SUFFICES ASSUME NEW r \in sync[s].found PROVE r.id <= recordId'
    OBVIOUS
  <2>1. r.id \in Nat /\ r.id <= recordId
    BY <1>2 DEF SyncShape, DNSRecords
  <2> QED
    BY <1>2, <2>1
<1>4. SyncShape(s)'
  BY <1>1, <1>2, <1>3 DEF SyncShape
<1>5. sync'[s].quiet = TRUE => QuietShape(s)'
  BY <1>1 DEF QuietShape, UnderWay
<1> QED
  BY <1>4, <1>5

\* A sync the step does not touch, in a zone it does not touch.
LEMMA UntouchedKeeps ==
    ASSUME DNSZoneInv, NEW s \in Syncs, sync'[s] = sync[s], UNCHANGED <<zone, recordId>>
    PROVE  SyncShape(s)' /\ (sync'[s].quiet = TRUE => QuietShape(s)')
<1>1. SyncShape(s) /\ (sync[s].quiet = TRUE => QuietShape(s))
  BY DEF DNSZoneInv
<1>2. SyncShape(s)'
  BY <1>1 DEF SyncShape
<1>3. QuietShape(s) => QuietShape(s)'
  BY DEF QuietShape, Alone, Holds
<1> QED
  BY <1>1, <1>2, <1>3

\* Every id of the zone is still there.
LEMMA NothingDeleted ==
    ASSUME \A r \in zone : \E q \in zone' : q.id = r.id
    PROVE  DeletesListed
BY DEF DeletesListed

\* No sync is done in this step.
LEMMA NobodyDone ==
    ASSUME \A s \in Syncs : sync[s].pc = "delete" => sync'[s].pc # "done"
    PROVE  DoneRight
BY DEF DoneRight

\* A record is posted.
LEMMA PostKeeps ==
    ASSUME DNSZoneInv, NEW n \in DNSNames, NEW a \in DNSAddresses, PostRecord(n, a)
    PROVE  /\ zone' \subseteq DNSRecords /\ ZoneShape' /\ zone \subseteq zone'
           /\ recordId' \in 0..MaxRecords /\ recordId' \in Nat /\ recordId \in Nat /\ recordId' >= recordId
           /\ \A r \in zone' \ zone : r.id > recordId /\ r.name = n /\ r.content = a /\ ~Holds(n, a)
           /\ \E r \in zone' : r.name = n /\ r.content = a
<1>0. /\ zone \subseteq DNSRecords /\ IsFiniteSet(zone) /\ \A r \in zone : r.id \in Nat /\ r.id <= recordId
      /\ recordId \in 0..MaxRecords /\ recordId \in Nat /\ MaxRecords \in Nat
  BY DNSZoneAssumption DEF DNSZoneInv, ZoneShape, DNSZoneAssumption, DNSRecords
<1>1. CASE Holds(n, a) /\ UNCHANGED <<zone, recordId>>
  BY <1>0, <1>1 DEF Holds, ZoneShape
<1>2. CASE /\ ~Holds(n, a) /\ recordId < MaxRecords /\ recordId' = recordId + 1
           /\ zone' = zone \union {[id |-> recordId', name |-> n, content |-> a]}
  <2> DEFINE new == [id |-> recordId + 1, name |-> n, content |-> a]
  <2>1. zone' = zone \union {new} /\ new \in DNSRecords /\ new.id = recordId + 1 /\ new.name = n /\ new.content = a
    BY <1>0, <1>2 DEF DNSRecords
  <2> HIDE DEF new
  <2>2. IsFiniteSet(zone')
    BY <1>0, <2>1, FS_AddElement
  <2>3. \A r \in zone' : r.id <= recordId'
    <3>1. recordId' = recordId + 1
      BY <1>2
    <3>2. \A r \in zone : r.id <= recordId + 1
      BY <1>0
    <3> QED
      BY <1>0, <2>1, <3>1, <3>2
  <2>4. recordId' \in 0..MaxRecords /\ recordId' \in Nat /\ recordId' >= recordId
    BY <1>0, <1>2
  <2>5. \A r \in zone' \ zone : r = new
    BY <2>1
  <2>6. new.id > recordId
    BY <1>0, <2>1
  <2> QED
    BY <1>0, <1>2, <2>1, <2>2, <2>3, <2>4, <2>5, <2>6 DEF ZoneShape
<1> QED
  BY <1>1, <1>2 DEF PostRecord

\* Changes by hand.
LEMMA EditsKeep ==
    ASSUME DNSZoneInv, CreateRecord \/ UpdateRecord \/ ClusterMoves
    PROVE  DNSOutcome
<1>0. /\ sync \in [Syncs -> SyncRecord] /\ zone \subseteq DNSRecords /\ recordId \in Nat /\ recordId \in 0..MaxRecords
      /\ dnsEdits \in 0..MaxDNSEdits /\ MaxDNSEdits \in Nat
  BY DNSZoneAssumption DEF DNSZoneInv, DNSZoneAssumption
<1>1. DNSEdit
  BY DEF CreateRecord, UpdateRecord, ClusterMoves
<1>2. /\ sync' \in [Syncs -> SyncRecord] /\ \A s \in Syncs : sync'[s] = Disturbed(s)
      /\ \A s \in Syncs : sync'[s].pc = sync[s].pc
  BY <1>0, <1>1, DisturbedIs DEF DNSEdit
<1>3. dnsEdits' \in 0..MaxDNSEdits /\ dnsFaults' = dnsFaults
  BY <1>0, <1>1 DEF DNSEdit
<1>4. clusterIPs' \in [DNSClusters -> DNSAddresses \union {"decommissioned"}]
  BY DEF DNSZoneInv, CreateRecord, UpdateRecord, ClusterMoves
<1>5. /\ zone' \subseteq DNSRecords /\ ZoneShape'
      /\ recordId' \in 0..MaxRecords /\ recordId' \in Nat /\ recordId' >= recordId
      /\ \A r \in zone : \E q \in zone' : q.id = r.id
  <2>1. CASE CreateRecord
    BY <2>1, PostKeeps DEF CreateRecord
  <2>2. CASE UpdateRecord
    <3>1. PICK r \in zone, a \in DNSAddresses : zone' = (zone \ {r}) \union {[r EXCEPT !.content = a]}
      BY <2>2 DEF UpdateRecord
    <3> DEFINE new == [r EXCEPT !.content = a]
    <3>2. r \in DNSRecords /\ new \in DNSRecords /\ new.id = r.id /\ UNCHANGED recordId
      BY <1>0, <2>2 DEF DNSRecords, UpdateRecord
    <3>3. zone' = (zone \ {r}) \union {new}
      BY <3>1
    <3> HIDE DEF new
    <3>4. IsFiniteSet(zone')
      <4>1. IsFiniteSet(zone \ {r})
        BY FS_RemoveElement DEF DNSZoneInv, ZoneShape
      <4> QED
        BY <3>3, <4>1, FS_AddElement
    <3> QED
      BY <1>0, <3>2, <3>3, <3>4 DEF DNSZoneInv, ZoneShape
  <2>3. CASE ClusterMoves
    BY <1>0, <2>3 DEF ClusterMoves, DNSZoneInv, ZoneShape
  <2> QED
    BY <2>1, <2>2, <2>3
<1>6. \A s \in Syncs : SyncShape(s)' /\ (sync'[s].quiet = TRUE => QuietShape(s)')
  BY <1>2, <1>5, DisturbedKeeps
<1>7. DeletesListed /\ DoneRight
  BY <1>2, <1>5, NothingDeleted, NobodyDone
<1>8. dnsFaults' \in 0..MaxDNSFaults
  BY <1>3 DEF DNSZoneInv
<1> QED
  BY <1>2, <1>3, <1>4, <1>5, <1>6, <1>7, <1>8 DEF DNSOutcome, DNSZoneInv

\* A step of sync s that leaves the zone alone.
LEMMA StageKeeps ==
    ASSUME DNSZoneInv, NEW s \in Syncs, sync' \in [Syncs -> SyncRecord],
           \A t \in Syncs \ {s} : sync'[t] = sync[t],
           SyncShape(s)', sync'[s].quiet = TRUE => QuietShape(s)', sync[s].pc = "delete" => sync'[s].pc # "done" \/ DoneRight,
           UNCHANGED <<zone, clusterIPs, recordId, dnsEdits>>, dnsFaults' \in 0..MaxDNSFaults
    PROVE  DNSOutcome
<1>1. \A t \in Syncs : SyncShape(t)' /\ (sync'[t].quiet = TRUE => QuietShape(t)')
  BY UntouchedKeeps
<1>2. ZoneShape'
  BY DEF DNSZoneInv, ZoneShape
<1>3. DeletesListed
  BY NothingDeleted
<1>4. DoneRight
  BY NobodyDone
<1> QED
  BY <1>1, <1>2, <1>3, <1>4 DEF DNSOutcome, DNSZoneInv

LEMMA ListKeeps == ASSUME DNSZoneInv, NEW s \in Syncs, SyncList(s) PROVE DNSOutcome
<1>0. sync \in [Syncs -> SyncRecord] /\ zone \subseteq DNSRecords /\ ZoneShape
  BY DEF DNSZoneInv
<1>1. PICK existing \in OnePerName(zone) :
        sync' = [sync EXCEPT ![s] = [NoSync EXCEPT !.pc = "clusters", !.existing = existing, !.found = zone]]
  BY DEF SyncList
<1> DEFINE new == [NoSync EXCEPT !.pc = "clusters", !.existing = existing, !.found = zone]
<1>2. /\ existing \subseteq zone /\ \A r \in zone : \E q \in existing : q.name = r.name
  BY DEF OnePerName
<1>3. /\ new \in SyncRecord /\ new.pc = "clusters" /\ new.existing = existing /\ new.found = zone
  BY <1>0, <1>2, NoSyncType DEF SyncRecord
<1> HIDE DEF new
<1>4. sync' \in [Syncs -> SyncRecord] /\ sync'[s] = new /\ \A t \in Syncs \ {s} : sync'[t] = sync[t]
  BY <1>0, <1>1, <1>3 DEF new
<1>5. UNCHANGED <<zone, clusterIPs, recordId, dnsEdits, dnsFaults>> /\ sync[s].pc = "idle"
  BY DEF SyncList
<1>6. SyncShape(s)'
  BY <1>0, <1>2, <1>3, <1>4, <1>5 DEF SyncShape, ZoneShape
<1>7. QuietShape(s)'
  <2>1. \A r \in zone : (\A q \in zone : q.name = r.name => q = r) => r \in existing
    BY <1>2
  <2> QED
    BY <1>3, <1>4, <1>5, <2>1 DEF QuietShape, Alone, UnderWay
<1>8. dnsFaults' \in 0..MaxDNSFaults
  BY <1>5 DEF DNSZoneInv
<1> QED
  BY <1>4, <1>5, <1>6, <1>7, <1>8, StageKeeps

LEMMA ListFailsKeeps == ASSUME DNSZoneInv, NEW s \in Syncs, SyncListFails(s) PROVE DNSOutcome
<1>0. sync \in [Syncs -> SyncRecord] /\ sync[s] \in SyncRecord /\ SyncShape(s)
  BY DEF DNSZoneInv
<1>1. /\ sync' = [sync EXCEPT ![s].pc = "error"] /\ sync[s].pc = "idle"
      /\ UNCHANGED <<zone, clusterIPs, recordId, dnsEdits>>
  BY DEF SyncListFails, CloudflareFails
<1>2. /\ sync' \in [Syncs -> SyncRecord] /\ \A t \in Syncs \ {s} : sync'[t] = sync[t]
      /\ sync'[s].pc = "error" /\ sync'[s].existing = sync[s].existing /\ sync'[s].found = sync[s].found
  BY <1>0, <1>1 DEF SyncRecord
<1>3. SyncShape(s)' /\ QuietShape(s)'
  BY <1>0, <1>1, <1>2 DEF SyncShape, QuietShape, UnderWay
<1>4. dnsFaults' \in 0..MaxDNSFaults
  BY DNSZoneAssumption DEF DNSZoneInv, SyncListFails, CloudflareFails, DNSZoneAssumption
<1> QED
  BY <1>1, <1>2, <1>3, <1>4, StageKeeps

LEMMA ClustersReadKeeps == ASSUME DNSZoneInv, NEW s \in Syncs, SyncClusters(s) PROVE DNSOutcome
<1>0. sync \in [Syncs -> SyncRecord] /\ sync[s] \in SyncRecord /\ SyncShape(s)
      /\ clusterIPs \in [DNSClusters -> DNSAddresses \union {"decommissioned"}]
  BY DEF DNSZoneInv
<1> DEFINE running == {c \in DNSClusters : clusterIPs[c] # "decommissioned"}
           new == [sync[s] EXCEPT !.pc = "ensure", !.ips = clusterIPs, !.todo = running]
<1>1. /\ sync' = [sync EXCEPT ![s] = new] /\ sync[s].pc = "clusters"
      /\ UNCHANGED <<zone, clusterIPs, recordId, dnsEdits, dnsFaults>>
  BY <1>0 DEF SyncClusters, SyncRecord
<1>2. /\ new \in SyncRecord /\ new.pc = "ensure" /\ new.existing = sync[s].existing /\ new.found = sync[s].found
      /\ new.ips = clusterIPs /\ new.todo = running /\ new.quiet = sync[s].quiet
  BY <1>0 DEF SyncRecord
<1> HIDE DEF new
<1>3. sync' \in [Syncs -> SyncRecord] /\ sync'[s] = new /\ \A t \in Syncs \ {s} : sync'[t] = sync[t]
  BY <1>0, <1>1, <1>2
<1>4. SyncShape(s)'
  BY <1>0, <1>1, <1>2, <1>3 DEF SyncShape
<1>5. sync'[s].quiet = TRUE => QuietShape(s)'
  <2> SUFFICES ASSUME sync'[s].quiet = TRUE PROVE QuietShape(s)'
    OBVIOUS
  <2>1. QuietShape(s)
    BY <1>2, <1>3 DEF DNSZoneInv
  <2> QED
    BY <1>1, <1>2, <1>3, <2>1 DEF QuietShape, Alone, UnderWay
<1>6. dnsFaults' \in 0..MaxDNSFaults
  BY <1>1 DEF DNSZoneInv
<1> QED
  BY <1>1, <1>2, <1>3, <1>4, <1>5, <1>6, StageKeeps

LEMMA EnsuredKeeps == ASSUME DNSZoneInv, NEW s \in Syncs, SyncEnsured(s) PROVE DNSOutcome
<1>0. sync \in [Syncs -> SyncRecord] /\ sync[s] \in SyncRecord /\ SyncShape(s)
  BY DEF DNSZoneInv
<1>1. /\ sync' = [sync EXCEPT ![s].pc = "delete"] /\ sync[s].pc = "ensure" /\ sync[s].todo = {}
      /\ UNCHANGED <<zone, clusterIPs, recordId, dnsEdits, dnsFaults>>
  BY DEF SyncEnsured
<1>2. /\ sync' \in [Syncs -> SyncRecord] /\ \A t \in Syncs \ {s} : sync'[t] = sync[t]
      /\ sync'[s].pc = "delete" /\ sync'[s].existing = sync[s].existing /\ sync'[s].found = sync[s].found
      /\ sync'[s].todo = {} /\ sync'[s].ips = sync[s].ips /\ sync'[s].quiet = sync[s].quiet
  BY <1>0, <1>1 DEF SyncRecord
<1>3. SyncShape(s)'
  BY <1>0, <1>1, <1>2 DEF SyncShape
<1>4. sync'[s].quiet = TRUE => QuietShape(s)'
  <2> SUFFICES ASSUME sync'[s].quiet = TRUE PROVE QuietShape(s)'
    OBVIOUS
  <2>1. QuietShape(s)
    BY <1>2 DEF DNSZoneInv
  <2> QED
    BY <1>1, <1>2, <2>1 DEF QuietShape, Alone, Holds, UnderWay
<1>5. dnsFaults' \in 0..MaxDNSFaults
  BY <1>1 DEF DNSZoneInv
<1> QED
  BY <1>1, <1>2, <1>3, <1>4, <1>5, StageKeeps

\* A finite set with fewer than two elements.
LEMMA FewerThanTwo ==
    ASSUME NEW T, IsFiniteSet(T), Cardinality(T) < 2, NEW x \in T, NEW y \in T
    PROVE  x = y
<1> SUFFICES ASSUME x # y PROVE FALSE
  OBVIOUS
<1>1. IsFiniteSet(T \ {x}) /\ Cardinality(T \ {x}) = Cardinality(T) - 1
  BY FS_RemoveElement
<1>2. Cardinality(T) \in Nat
  BY FS_CardinalityType
<1>3. y \in T \ {x}
  OBVIOUS
<1>4. Cardinality(T \ {x}) # 0
  BY <1>1, <1>3, FS_EmptySet
<1>5. Cardinality(T \ {x}) \in Nat
  BY <1>1, FS_CardinalityType
<1> QED
  BY <1>1, <1>2, <1>4, <1>5

LEMMA SyncDoneKeeps == ASSUME DNSZoneInv, NEW s \in Syncs, SyncDone(s) PROVE DNSOutcome
<1>0. sync \in [Syncs -> SyncRecord] /\ sync[s] \in SyncRecord /\ SyncShape(s)
  BY DEF DNSZoneInv
<1>1. /\ sync' = [sync EXCEPT ![s].pc = "done"] /\ sync[s].pc = "delete" /\ sync[s].existing = {}
      /\ UNCHANGED <<zone, clusterIPs, recordId, dnsEdits, dnsFaults>>
  BY DEF SyncDone
<1>2. /\ sync' \in [Syncs -> SyncRecord] /\ \A t \in Syncs \ {s} : sync'[t] = sync[t]
      /\ sync'[s].pc = "done" /\ sync'[s].existing = sync[s].existing /\ sync'[s].found = sync[s].found
  BY <1>0, <1>1 DEF SyncRecord
<1>3. SyncShape(s)' /\ QuietShape(s)'
  BY <1>0, <1>1, <1>2 DEF SyncShape, QuietShape, UnderWay
<1>4. dnsFaults' \in 0..MaxDNSFaults
  BY <1>1 DEF DNSZoneInv
<1>5. DoneRight
  <2> SUFFICES ASSUME NEW t \in Syncs, sync[t].pc = "delete", sync'[t].pc = "done", sync[t].quiet,
                      NEW c \in DNSClusters, sync[t].ips[c] # "decommissioned",
                      Cardinality({r \in sync[t].found : r.name = c}) < 2
               PROVE  Holds(c, sync[t].ips[c]) <=> {r \in sync[t].found : r.name = c /\ r.content = sync[t].ips[c]} = {}
    BY DEF DoneRight
  <2>1. t = s
    BY <1>2
  <2>2. QuietShape(s)
    <3>1. sync[s].quiet = TRUE
      BY <1>0, <2>1 DEF SyncRecord
    <3> QED
      BY <3>1 DEF DNSZoneInv
  <2>3. CASE \A r \in sync[s].found : ~(r.name = c /\ r.content = sync[s].ips[c])
    BY <1>1, <2>1, <2>2, <2>3 DEF QuietShape
  <2>4. CASE \E r \in sync[s].found : r.name = c /\ r.content = sync[s].ips[c]
    <3>1. PICK r \in sync[s].found : r.name = c /\ r.content = sync[s].ips[c]
      BY <2>4
    <3> DEFINE T == {q \in sync[s].found : q.name = c}
    <3>2. IsFiniteSet(T)
      BY <1>0, FS_Subset DEF SyncShape
    <3>3. Alone(s, r)
      BY <2>1, <3>1, <3>2, FewerThanTwo DEF Alone
    <3>4. r \notin zone
      BY <1>1, <2>2, <3>1, <3>3 DEF QuietShape, UnderWay
    <3>5. ~Holds(c, sync[s].ips[c])
      <4> SUFFICES ASSUME NEW q \in zone, q.name = c, q.content = sync[s].ips[c] PROVE FALSE
        BY DEF Holds
      <4>1. CASE q \in sync[s].found
        BY <3>1, <3>3, <3>4, <4>1 DEF Alone
      <4>2. CASE q \notin sync[s].found
        BY <1>1, <2>2, <3>1, <4>2 DEF QuietShape, UnderWay
      <4> QED
        BY <4>1, <4>2
    <3> QED
      BY <2>1, <3>1, <3>5
  <2> QED
    BY <2>3, <2>4
<1> QED
  BY <1>1, <1>2, <1>3, <1>4, <1>5, StageKeeps

\* The requests a sync sends.
LEMMA SyncSent ==
    ASSUME DNSZoneInv, NEW s \in Syncs, NEW pc \in {"ensure", "delete"}, NEW rest \in SUBSET DNSClusters,
           NEW existing \in SUBSET DNSRecords, SyncSends(s, pc, rest, existing)
    PROVE  /\ sync' \in [Syncs -> SyncRecord] /\ \A t \in Syncs \ {s} : sync'[t] = Disturbed(t)
           /\ sync'[s].pc = pc /\ sync'[s].todo = rest /\ sync'[s].existing = existing
           /\ sync'[s].found = sync[s].found /\ sync'[s].ips = sync[s].ips
           /\ sync'[s].quiet = TRUE => sync[s].quiet = TRUE /\ dnsFaults' = dnsFaults
           /\ \A t \in Syncs \ {s} : sync'[t].pc = sync[t].pc
<1>0. sync \in [Syncs -> SyncRecord] /\ sync[s] \in SyncRecord
  BY DEF DNSZoneInv
<1> DEFINE calm == sync[s].quiet /\ dnsFaults' = dnsFaults
           new == [sync[s] EXCEPT !.pc = pc, !.todo = rest, !.existing = existing, !.quiet = calm]
<1>1. sync' = [t \in Syncs |-> IF t = s THEN new ELSE Disturbed(t)]
  BY DEF SyncSends
<1>2. calm \in BOOLEAN
  OBVIOUS
<1>3. calm = TRUE => sync[s].quiet = TRUE /\ dnsFaults' = dnsFaults
  BY <1>0 DEF SyncRecord
<1> HIDE DEF calm
<1>4. /\ new \in SyncRecord /\ new.pc = pc /\ new.todo = rest /\ new.existing = existing
      /\ new.found = sync[s].found /\ new.ips = sync[s].ips /\ new.quiet = calm
  BY <1>0, <1>2 DEF SyncRecord
<1> HIDE DEF new
<1>5. \A t \in Syncs : Disturbed(t) \in SyncRecord /\ Disturbed(t).pc = sync[t].pc
  BY <1>0, DisturbedIs
<1> QED
  BY <1>1, <1>3, <1>4, <1>5

LEMMA EnsureKeeps == ASSUME DNSZoneInv, NEW s \in Syncs, SyncEnsure(s) PROVE DNSOutcome
<1>0. sync \in [Syncs -> SyncRecord] /\ sync[s] \in SyncRecord /\ SyncShape(s) /\ sync[s].pc = "ensure"
      /\ zone \subseteq DNSRecords /\ recordId \in 0..MaxRecords /\ recordId \in Nat /\ ZoneShape
      /\ UNCHANGED <<clusterIPs, dnsEdits>>
  BY DNSZoneAssumption DEF DNSZoneInv, DNSZoneAssumption, SyncEnsure
<1>1. PICK c \in sync[s].todo :
        /\ \/ PostRecord(c, sync[s].ips[c]) /\ UNCHANGED dnsFaults
           \/ CloudflareFails
        /\ SyncSends(s, "ensure", sync[s].todo \ {c}, sync[s].existing)
  BY DEF SyncEnsure
<1> DEFINE ip == sync[s].ips[c]
<1>2. c \in DNSClusters /\ c \in DNSNames /\ ip \in DNSAddresses /\ ip # "decommissioned"
      /\ sync[s].todo \ {c} \in SUBSET DNSClusters /\ sync[s].existing \in SUBSET DNSRecords
      /\ sync[s].found \subseteq DNSRecords
  BY <1>0 DEF SyncShape, SyncRecord, DNSNames
<1>3. /\ sync' \in [Syncs -> SyncRecord] /\ \A t \in Syncs \ {s} : sync'[t] = Disturbed(t)
      /\ sync'[s].pc = "ensure" /\ sync'[s].todo = sync[s].todo \ {c} /\ sync'[s].existing = sync[s].existing
      /\ sync'[s].found = sync[s].found /\ sync'[s].ips = sync[s].ips
      /\ sync'[s].quiet = TRUE => sync[s].quiet = TRUE /\ dnsFaults' = dnsFaults
      /\ \A t \in Syncs \ {s} : sync'[t].pc = sync[t].pc
  BY <1>1, <1>2, SyncSent
<1>4. /\ zone' \subseteq DNSRecords /\ ZoneShape' /\ zone \subseteq zone'
      /\ recordId' \in 0..MaxRecords /\ recordId' \in Nat /\ recordId' >= recordId
      /\ dnsFaults' \in 0..MaxDNSFaults
      /\ dnsFaults' = dnsFaults =>
            /\ \A r \in zone' \ zone : r.id > recordId /\ r.name = c /\ r.content = ip /\ ~Holds(c, ip)
            /\ \E r \in zone' : r.name = c /\ r.content = ip
  <2>1. CASE PostRecord(c, ip) /\ UNCHANGED dnsFaults
    BY <1>2, <2>1, PostKeeps DEF DNSZoneInv
  <2>2. CASE CloudflareFails
    <3>1. dnsFaults' # dnsFaults /\ dnsFaults' \in 0..MaxDNSFaults /\ UNCHANGED <<zone, recordId>>
      BY <2>2, DNSZoneAssumption DEF DNSZoneInv, CloudflareFails, DNSZoneAssumption
    <3> QED
      BY <1>0, <3>1 DEF ZoneShape
  <2> QED
    BY <1>1, <2>1, <2>2
<1>5. SyncShape(s)'
  <2>1. \A r \in sync[s].found : r.id <= recordId'
    <3> SUFFICES ASSUME NEW r \in sync[s].found PROVE r.id <= recordId'
      OBVIOUS
    <3>1. r.id \in Nat /\ r.id <= recordId
      BY <1>0, <1>2 DEF SyncShape, DNSRecords
    <3> QED
      BY <1>0, <1>4, <3>1
  <2> QED
    BY <1>0, <1>3, <2>1 DEF SyncShape
<1>6. sync'[s].quiet = TRUE => QuietShape(s)'
  <2> SUFFICES ASSUME sync'[s].quiet = TRUE PROVE QuietShape(s)'
    OBVIOUS
  <2>1. QuietShape(s) /\ dnsFaults' = dnsFaults
    BY <1>3 DEF DNSZoneInv
  <2>2. sync[s].found \subseteq zone
    BY <1>0, <2>1 DEF QuietShape
  <2>3. \A r \in zone' \ sync[s].found : \A q \in sync[s].found :
           q.id # r.id /\ ~(q.name = r.name /\ q.content = r.content)
    <3> SUFFICES ASSUME NEW r \in zone' \ sync[s].found, NEW q \in sync[s].found
                 PROVE  q.id # r.id /\ ~(q.name = r.name /\ q.content = r.content)
      OBVIOUS
    <3>1. CASE r \in zone
      BY <1>0, <2>1, <3>1 DEF QuietShape, UnderWay
    <3>2. CASE r \notin zone
      <4>1. r.id > recordId /\ r.name = c /\ r.content = ip /\ ~Holds(c, ip)
        BY <1>4, <2>1, <3>2
      <4>2. q \in zone /\ q.id <= recordId /\ q.id \in Nat /\ r.id \in Nat
        BY <1>0, <1>2, <1>4, <2>2 DEF SyncShape, DNSRecords
      <4> HIDE DEF ip
      <4>3. q.id # r.id
        BY <1>0, <4>1, <4>2
      <4>4. ~(q.name = r.name /\ q.content = r.content)
        BY <4>1, <4>2 DEF Holds
      <4> QED
        BY <4>3, <4>4
    <3> QED
      BY <3>1, <3>2
  <2>4. \A r \in sync[s].found : r \in zone' /\ Alone(s, r) => r \in sync[s].existing
    BY <1>0, <2>1, <2>2 DEF QuietShape, UnderWay
  <2>5. ASSUME NEW d \in DNSClusters, sync[s].ips[d] # "decommissioned", d \notin sync[s].todo \ {c}
        PROVE  \/ \E r \in zone' : r.name = d /\ r.content = sync[s].ips[d]
               \/ \E q \in sync[s].found : q.name = d /\ q.content = sync[s].ips[d]
    <3>1. CASE d = c
      BY <1>4, <2>1, <3>1
    <3>2. CASE d # c
      <4>1. \/ Holds(d, sync[s].ips[d])
            \/ \E q \in sync[s].found : q.name = d /\ q.content = sync[s].ips[d]
        BY <1>0, <2>1, <2>5, <3>2 DEF QuietShape
      <4> QED
        BY <1>4, <4>1 DEF Holds
    <3> QED
      BY <3>1, <3>2
  <2>6. sync[s].found \subseteq zone'
    BY <1>4, <2>2
  <2> HIDE DEF ip
  <2> QED
    BY <1>3, <2>3, <2>4, <2>5, <2>6 DEF QuietShape, Alone, Holds, UnderWay
<1>7. \A t \in Syncs : SyncShape(t)' /\ (sync'[t].quiet = TRUE => QuietShape(t)')
  BY <1>3, <1>4, <1>5, <1>6, DisturbedKeeps
<1>8. DeletesListed
  BY <1>4, NothingDeleted
<1>9. DoneRight
  BY <1>0, <1>3, NobodyDone
<1>10. /\ clusterIPs' \in [DNSClusters -> DNSAddresses \union {"decommissioned"}]
       /\ dnsEdits' \in 0..MaxDNSEdits
  BY <1>0 DEF DNSZoneInv
<1> QED
  BY <1>3, <1>4, <1>7, <1>8, <1>9, <1>10 DEF DNSOutcome, DNSZoneInv

LEMMA DeleteKeeps == ASSUME DNSZoneInv, NEW s \in Syncs, SyncDelete(s) PROVE DNSOutcome
<1>0. sync \in [Syncs -> SyncRecord] /\ sync[s] \in SyncRecord /\ SyncShape(s) /\ sync[s].pc = "delete"
      /\ zone \subseteq DNSRecords /\ recordId \in 0..MaxRecords /\ recordId \in Nat /\ ZoneShape
      /\ UNCHANGED <<clusterIPs, dnsEdits>>
  BY DNSZoneAssumption DEF DNSZoneInv, DNSZoneAssumption, SyncDelete
<1>1. PICK r \in sync[s].existing :
        /\ \/ zone' = {q \in zone : q.id # r.id} /\ UNCHANGED <<recordId, dnsFaults>>
           \/ CloudflareFails
        /\ SyncSends(s, "delete", {}, sync[s].existing \ {r})
  BY DEF SyncDelete
<1>2. /\ sync[s].existing \ {r} \in SUBSET DNSRecords /\ {} \in SUBSET DNSClusters
      /\ r \in sync[s].found
  BY <1>0 DEF SyncShape, SyncRecord
<1>3. /\ sync' \in [Syncs -> SyncRecord] /\ \A t \in Syncs \ {s} : sync'[t] = Disturbed(t)
      /\ sync'[s].pc = "delete" /\ sync'[s].todo = {} /\ sync'[s].existing = sync[s].existing \ {r}
      /\ sync'[s].found = sync[s].found /\ sync'[s].ips = sync[s].ips
      /\ sync'[s].quiet = TRUE => sync[s].quiet = TRUE /\ dnsFaults' = dnsFaults
      /\ \A t \in Syncs \ {s} : sync'[t].pc = sync[t].pc
  BY <1>1, <1>2, SyncSent
<1>4. /\ zone' \subseteq zone /\ recordId' = recordId /\ dnsFaults' \in 0..MaxDNSFaults
      /\ \A q \in zone : q.id # r.id => q \in zone'
      /\ dnsFaults' = dnsFaults => \A q \in zone' : q.id # r.id
  <2>1. CASE zone' = {q \in zone : q.id # r.id} /\ UNCHANGED <<recordId, dnsFaults>>
    BY <2>1 DEF DNSZoneInv
  <2>2. CASE CloudflareFails
    <3>1. dnsFaults' # dnsFaults /\ dnsFaults' \in 0..MaxDNSFaults /\ UNCHANGED <<zone, recordId>>
      BY <2>2, DNSZoneAssumption DEF DNSZoneInv, CloudflareFails, DNSZoneAssumption
    <3> QED
      BY <3>1
  <2> QED
    BY <1>1, <2>1, <2>2
<1>5. zone' \subseteq DNSRecords /\ ZoneShape'
  BY <1>0, <1>4, FS_Subset DEF ZoneShape
<1>6. SyncShape(s)'
  BY <1>0, <1>3, <1>4 DEF SyncShape
<1>7. sync'[s].quiet = TRUE => QuietShape(s)'
  <2> SUFFICES ASSUME sync'[s].quiet = TRUE PROVE QuietShape(s)'
    OBVIOUS
  <2>1. QuietShape(s) /\ dnsFaults' = dnsFaults
    BY <1>3 DEF DNSZoneInv
  <2>2. \A x \in zone \ sync[s].found : \A q \in sync[s].found :
           q.id # x.id /\ ~(q.name = x.name /\ q.content = x.content)
    BY <1>0, <2>1 DEF QuietShape, UnderWay
  <2>3. \A x \in sync[s].found : x \in zone' /\ Alone(s, x) => x \in sync[s].existing \ {r}
    BY <1>0, <1>4, <2>1 DEF QuietShape, UnderWay
  <2>4. ASSUME NEW d \in DNSClusters, sync[s].ips[d] # "decommissioned"
        PROVE  \/ \E x \in zone' : x.name = d /\ x.content = sync[s].ips[d]
               \/ \E q \in sync[s].found : q.name = d /\ q.content = sync[s].ips[d]
    <3>1. \/ \E x \in zone : x.name = d /\ x.content = sync[s].ips[d]
          \/ \E q \in sync[s].found : q.name = d /\ q.content = sync[s].ips[d]
      BY <1>0, <2>1, <2>4 DEF QuietShape, Holds
    <3>2. ASSUME NEW x \in zone, x \notin sync[s].found PROVE x \in zone'
      BY <1>2, <1>4, <2>2, <3>2
    <3> QED
      BY <3>1, <3>2
  <2> QED
    BY <1>3, <1>4, <2>2, <2>3, <2>4 DEF QuietShape, Alone, Holds, UnderWay
<1>8. \A t \in Syncs : SyncShape(t)' /\ (sync'[t].quiet = TRUE => QuietShape(t)')
  <2>1. recordId' \in Nat /\ recordId' >= recordId
    BY <1>0, <1>4
  <2> QED
    BY <1>3, <1>6, <1>7, <2>1, DisturbedKeeps
<1>9. DeletesListed
  <2> SUFFICES ASSUME NEW x \in zone PROVE x.id \in {q.id : q \in zone'} \/
                 \E t \in Syncs : sync[t].pc = "delete" /\ x.id \in {q.id : q \in sync[t].found}
    BY DEF DeletesListed
  <2>1. CASE x.id # r.id
    BY <1>4, <2>1
  <2>2. CASE x.id = r.id
    BY <1>0, <1>2, <2>2
  <2> QED
    BY <2>1, <2>2
<1>10. DoneRight
  BY <1>0, <1>3, NobodyDone
<1>11. /\ clusterIPs' \in [DNSClusters -> DNSAddresses \union {"decommissioned"}]
       /\ dnsEdits' \in 0..MaxDNSEdits /\ recordId' \in 0..MaxRecords
  BY <1>0, <1>4 DEF DNSZoneInv
<1> QED
  BY <1>3, <1>4, <1>5, <1>8, <1>9, <1>10, <1>11 DEF DNSOutcome, DNSZoneInv

LEMMA DNSKeeps == ASSUME DNSZoneInv, [DNSZoneNext]_dnsVars PROVE DNSZoneInv' /\ [DeletesListed]_dnsVars /\ [DoneRight]_dnsVars
<1>1. CASE UNCHANGED dnsVars
  <2>1. \A s \in Syncs : SyncShape(s)' /\ (sync'[s].quiet = TRUE => QuietShape(s)')
    BY <1>1, UntouchedKeeps DEF dnsVars
  <2> QED
    BY <1>1, <2>1 DEF dnsVars, DNSZoneInv, ZoneShape
<1>2. CASE DNSZoneNext
  <2>1. DNSOutcome
    BY <1>2, EditsKeep, ListKeeps, ListFailsKeeps, ClustersReadKeeps, EnsureKeeps, EnsuredKeeps, DeleteKeeps, SyncDoneKeeps
       DEF DNSZoneNext
  <2> QED
    BY <2>1 DEF DNSOutcome
<1> QED
  BY <1>1, <1>2

\* A sync of the zone deletes only records it has listed; one that no failure and nobody
\* else has disturbed leaves a running cluster with its record exactly when the cluster had
\* none (dns.go), for any number of syncs, clusters and records.
THEOREM SyncsAreAsTheyAre == DNSZoneSpec => SyncEffect
<1>1. DNSZoneInv /\ [DNSZoneNext]_dnsVars =>
        [\A r \in zone : r.id \in {q.id : q \in zone'} \/
             \E s \in Syncs : sync[s].pc = "delete" /\ r.id \in {q.id : q \in sync[s].found}]_dnsVars
  BY DNSKeeps DEF DeletesListed
<1>2. DNSZoneInv /\ [DNSZoneNext]_dnsVars =>
        [\A s \in Syncs : sync[s].pc = "delete" /\ sync'[s].pc = "done" /\ sync[s].quiet =>
             \A c \in DNSClusters :
                LET ip == sync[s].ips[c]
                    had == {r \in sync[s].found : r.name = c /\ r.content = ip}
                IN  /\ ip # "decommissioned"
                    /\ Cardinality({r \in sync[s].found : r.name = c}) < 2
                    => (Holds(c, ip) <=> had = {})]_dnsVars
  BY DNSKeeps DEF DoneRight
<1>3. DNSZoneInv /\ [DNSZoneNext]_dnsVars => DNSZoneInv'
  BY DNSKeeps
<1> QED
  BY <1>1, <1>2, <1>3, InitDNS, PTL DEF DNSZoneSpec, SyncEffect

=============================================================================
