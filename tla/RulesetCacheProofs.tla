------------------------- MODULE RulesetCacheProofs -------------------------
(***************************************************************************)
(* Proofs about RulesetCache for any number of processes, request handlers  *)
(* and environments and any bounds on the writes.                           *)
(***************************************************************************)
EXTENDS RulesetCache, FiniteSetTheorems, TLAPS

\* One transaction queues a sequence of notifications, none ahead of the rows
\* it leaves behind, and at least one for each environment it changed.
LEMMA OrdersType ==
    ASSUME TypeOK, NEW E \in SUBSET Envs, NEW ns \in Orders(E)
    PROVE  /\ ns \in Seq(Notification)
           /\ \A k \in 1..Len(ns) : \E e \in E : ns[k] = Note(e)
           /\ \A e \in E : \E k \in 1..Len(ns) : ns[k].env = e
<1>1. IsFiniteSet(E)
  BY CacheAssumption, FS_Subset DEF CacheAssumption
<1>2. Cardinality(E) \in Nat
  BY <1>1, FS_CardinalityType
<1>3. \A e \in E : Note(e) \in Notification /\ Note(e).env = e
  BY DEF TypeOK, Note, Notification
<1>4. /\ ns \in [1..Cardinality(E) -> {Note(e) : e \in E}]
      /\ \A e \in E : \E k \in 1..Cardinality(E) : ns[k] = Note(e)
  BY DEF Orders
<1>5. ns \in Seq(Notification) /\ Len(ns) = Cardinality(E)
  BY <1>2, <1>3, <1>4
<1> QED
  BY <1>3, <1>4, <1>5

\* A request changes its own load and, at the end, the cache: nothing else.
LEMMA RequestFrame ==
    ASSUME NEW i \in Instances, NEW h \in Handlers, Request(i, h)
    PROVE  UNCHANGED <<flags, states, segments, conn, queue, hand, phase, told, losses>>
BY DEF Request, Loader, ReadFlags, ReadStates, ReadSegments, StoreRuleset, FailLoad, Miss

\* Every variable keeps its type through a step.
LEMMA TypeStep == TypeOK /\ HandInv /\ LifeInv /\ [Next]_vars => TypeOK'
<1> SUFFICES ASSUME TypeOK, HandInv, LifeInv, [Next]_vars PROVE TypeOK'
  OBVIOUS
<1>0. EmptyRuleset \in Ruleset /\ NoLoad \in Load
  BY DEF EmptyRuleset, NoLoad, Ruleset, Load, LoadStep
<1>1. CASE WriteFlag
  BY <1>1 DEF WriteFlag, TypeOK
<1>2. CASE WriteSegment
  BY <1>2 DEF WriteSegment, TypeOK
<1>3. ASSUME NEW E \in SUBSET Envs, ChangeRows(E)
      PROVE  states' \in [Envs -> Nat] /\ queue' \in [Instances -> Seq(Notification)]
  <2>1. states' \in [Envs -> Nat]
    BY <1>3 DEF ChangeRows, TypeOK
  <2>2. PICK ns \in Orders(E) :
          queue' = [i \in Instances |->
                      IF conn[i] = "listening" THEN queue[i] \o ns ELSE queue[i]]
    BY <1>3 DEF ChangeRows
  <2>3. ns \in Seq(Notification)
    BY OrdersType
  <2> QED
    BY <2>1, <2>2, <2>3 DEF TypeOK
<1>4. ASSUME NEW e \in Envs, UpsertFlagState(e) PROVE TypeOK'
  BY <1>4, <1>3 DEF UpsertFlagState, TypeOK
<1>5. ASSUME NEW E \in SUBSET Envs, DeleteFlag(E) PROVE TypeOK'
  BY <1>5, <1>3 DEF DeleteFlag, TypeOK
<1>6. ASSUME NEW i \in Instances, Start(i) PROVE TypeOK'
  <2>1. conn' \in [Instances -> {"down", "listening", "deaf"}]
    BY <1>6 DEF Start, TypeOK
  <2>2. losses' \in Nat
    BY <1>6 DEF Start, TypeOK
  <2> QED
    BY <1>6, <2>1, <2>2 DEF Start, TypeOK
<1>7. ASSUME NEW i \in Instances, Stop(i) PROVE TypeOK'
  BY <1>7, <1>0 DEF Stop, Blank, TypeOK
<1>8. ASSUME NEW i \in Instances, LoseConnection(i) PROVE TypeOK'
  BY <1>8 DEF LoseConnection, TypeOK
<1>9. ASSUME NEW i \in Instances, Receive(i) PROVE TypeOK'
  BY <1>9 DEF Receive, TypeOK
<1>10. ASSUME NEW i \in Instances, Invalidate(i) PROVE TypeOK'
  <2>1. hand[i] \in Notification
    BY <1>10 DEF Invalidate, HandInv, TypeOK
  <2>2. Cross(i, hand[i].env) \in [Handlers -> Load]
    <3> SUFFICES ASSUME NEW h \in Handlers
                 PROVE  [load[i][h] EXCEPT !.rs.crossed = TRUE] \in Load /\ load[i][h] \in Load
      BY DEF Cross
    <3>1. load[i][h] \in Load
      BY DEF TypeOK
    <3> QED
      BY <3>1 DEF Load, Ruleset
  <2> QED
    BY <1>10, <2>1, <2>2 DEF Invalidate, TypeOK, Notification
<1>11. ASSUME NEW i \in Instances, Announce(i) PROVE TypeOK'
  <2>1. hand[i] \in Notification
    BY <1>11 DEF Announce, HandInv, TypeOK
  <2> QED
    BY <1>11, <2>1 DEF Announce, TypeOK, Notification
<1>12. ASSUME NEW i \in Instances, NEW h \in Handlers, NEW e \in Envs, Miss(i, h, e)
       PROVE  TypeOK'
  BY <1>12, <1>0 DEF Miss, TypeOK, Load, LoadStep
<1>13. ASSUME NEW i \in Instances, NEW h \in Handlers,
              Loader(i, h) \/ FailLoad(i, h)
       PROVE  TypeOK'
  <2>1. load[i][h] \in Load
    BY DEF TypeOK
  <2>2. CASE ReadFlags(i, h)
    <3>1. PICK cut \in BOOLEAN :
            load' = [load EXCEPT ![i][h] =
                       [@ EXCEPT !.pc = "states", !.rs.flags = flags, !.rs.cut = cut]]
      BY <2>2 DEF ReadFlags
    <3>2. [load[i][h] EXCEPT !.pc = "states", !.rs.flags = flags, !.rs.cut = cut] \in Load
      BY <2>1 DEF TypeOK, Load, LoadStep, Ruleset
    <3> QED
      BY <2>2, <3>1, <3>2 DEF ReadFlags, TypeOK
  <2>3. CASE ReadStates(i, h)
    <3>1. load[i][h].env \in Envs /\ states[load[i][h].env] \in Nat
      BY <2>3 DEF ReadStates, TypeOK, LifeInv
    <3>2. PICK cut \in BOOLEAN :
            load' = [load EXCEPT ![i][h] =
                       [@ EXCEPT !.pc = "segments", !.rs.cut = cut,
                                 !.rs.states = states[load[i][h].env]]]
      BY <2>3 DEF ReadStates
    <3>3. [load[i][h] EXCEPT !.pc = "segments", !.rs.cut = cut,
                             !.rs.states = states[load[i][h].env]] \in Load
      BY <2>1, <3>1 DEF Load, LoadStep, Ruleset
    <3> QED
      BY <2>3, <3>2, <3>3 DEF ReadStates, TypeOK
  <2>4. CASE ReadSegments(i, h)
    BY <2>1, <2>4 DEF ReadSegments, TypeOK, Load, LoadStep, Ruleset
  <2>5. CASE StoreRuleset(i, h)
    BY <2>1, <2>5, <1>0 DEF StoreRuleset, TypeOK, Load
  <2>6. CASE FailLoad(i, h)
    BY <2>6, <1>0 DEF FailLoad, TypeOK
  <2> QED
    BY <1>13, <2>2, <2>3, <2>4, <2>5, <2>6 DEF Loader
<1>14. CASE UNCHANGED vars
  BY <1>14 DEF vars, TypeOK
<1> QED
  BY <1>1, <1>2, <1>4, <1>5, <1>6, <1>7, <1>8, <1>9, <1>10, <1>11, <1>12, <1>13,
     <1>14 DEF Next, Write, Life, Listener, Request

-----------------------------------------------------------------------------
\* A notification or a ruleset is not None.
LEMMA NoneApart == None \notin Notification /\ None \notin Ruleset
BY CacheAssumption DEF CacheAssumption, Notification, Ruleset

\* The callback holds a notification exactly while it works on one.
LEMMA HandStep == TypeOK /\ HandInv /\ [Next]_vars => HandInv'
<1> SUFFICES ASSUME TypeOK, HandInv, [Next]_vars PROVE HandInv'
  OBVIOUS
<1>1. ASSUME UNCHANGED <<phase, hand>> PROVE HandInv'
  BY <1>1 DEF HandInv
<1>2. ASSUME NEW i \in Instances, Stop(i) PROVE HandInv'
  BY <1>2, NoneApart DEF HandInv, TypeOK, Stop, Blank
<1>3. ASSUME NEW i \in Instances, Receive(i) PROVE HandInv'
  <2>1. Head(queue[i]) \in Notification
    BY <1>3 DEF TypeOK, Receive
  <2>2. hand'[i] # None /\ phase'[i] # "wait"
    BY <1>3, <2>1, NoneApart DEF TypeOK, Receive
  <2>3. \A j \in Instances \ {i} : hand'[j] = hand[j] /\ phase'[j] = phase[j]
    BY <1>3 DEF TypeOK, Receive
  <2> QED
    BY <2>2, <2>3 DEF HandInv
<1>4. ASSUME NEW i \in Instances, Invalidate(i) PROVE HandInv'
  BY <1>4, NoneApart DEF HandInv, TypeOK, Invalidate
<1>5. ASSUME NEW i \in Instances, Announce(i) PROVE HandInv'
  BY <1>5, NoneApart DEF HandInv, TypeOK, Announce
<1>6. ASSUME Write PROVE HandInv'
  BY <1>1, <1>6 DEF Write, WriteFlag, WriteSegment, UpsertFlagState, DeleteFlag
<1>7. ASSUME NEW i \in Instances, NEW h \in Handlers, Request(i, h) PROVE HandInv'
  BY <1>1, <1>7, RequestFrame
<1> QED
  BY <1>1, <1>2, <1>3, <1>4, <1>5, <1>6, <1>7
  DEF Next, Life, Listener, vars, Start, LoseConnection

\* A running load names an environment; a process that is down runs nothing.
LEMMA LifeStep == TypeOK /\ LifeInv /\ [Next]_vars => LifeInv'
<1> SUFFICES ASSUME TypeOK, LifeInv, [Next]_vars PROVE LifeInv'
  OBVIOUS
<1>1. ASSUME UNCHANGED <<conn, load, cache>> PROVE LifeInv'
  BY <1>1 DEF LifeInv
<1>2. ASSUME NEW i \in Instances, Start(i) PROVE LifeInv'
  BY <1>2 DEF LifeInv, TypeOK, Start
<1>3. ASSUME NEW i \in Instances, Stop(i) PROVE LifeInv'
  BY <1>3 DEF LifeInv, TypeOK, Stop, Blank, NoLoad
<1>4. ASSUME NEW i \in Instances, LoseConnection(i) PROVE LifeInv'
  BY <1>4 DEF LifeInv, TypeOK, LoseConnection
<1>5. ASSUME NEW i \in Instances, Invalidate(i) PROVE LifeInv'
  <2>1. \A h \in Handlers : /\ load'[i][h].pc = load[i][h].pc
                            /\ load'[i][h].env = load[i][h].env
    BY <1>5 DEF Invalidate, Cross, TypeOK, Load
  <2> QED
    BY <1>5, <2>1 DEF LifeInv, TypeOK, Invalidate
<1>6. ASSUME NEW i \in Instances, NEW h \in Handlers, NEW e \in Envs, Miss(i, h, e)
      PROVE  LifeInv'
  BY <1>6 DEF LifeInv, TypeOK, Miss
<1>7. ASSUME NEW i \in Instances, NEW h \in Handlers, Loader(i, h) \/ FailLoad(i, h)
      PROVE  LifeInv'
  <2>0. load[i][h] \in Load
    BY DEF TypeOK
  <2>1. CASE ReadFlags(i, h)
    BY <2>0, <2>1 DEF LifeInv, TypeOK, Load, ReadFlags
  <2>2. CASE ReadStates(i, h)
    BY <2>0, <2>2 DEF LifeInv, TypeOK, Load, ReadStates
  <2>3. CASE ReadSegments(i, h)
    BY <2>0, <2>3 DEF LifeInv, TypeOK, Load, ReadSegments
  <2>4. CASE StoreRuleset(i, h)
    BY <2>0, <2>4 DEF LifeInv, TypeOK, Load, StoreRuleset, NoLoad
  <2>5. CASE FailLoad(i, h)
    BY <2>5 DEF LifeInv, TypeOK, FailLoad, NoLoad
  <2> QED
    BY <1>7, <2>1, <2>2, <2>3, <2>4, <2>5 DEF Loader
<1> QED
  BY <1>1, <1>2, <1>3, <1>4, <1>5, <1>6, <1>7
  DEF Next, Write, Life, Listener, Request, vars, WriteFlag, WriteSegment, UpsertFlagState,
      DeleteFlag, Receive, Announce

-----------------------------------------------------------------------------
\* What a change of rows does to the queues: those of listening processes grow
\* at the end by notifications of the new versions, one or more for each row.
LEMMA RowsQueued ==
    ASSUME TypeOK, NEW E \in SUBSET Envs, ChangeRows(E), NEW i \in Instances
    PROVE  /\ \A e \in Envs : states'[e] = IF e \in E THEN states[e] + 1 ELSE states[e]
           /\ conn[i] # "listening" => queue'[i] = queue[i]
           /\ Len(queue[i]) <= Len(queue'[i])
           /\ \A k \in 1..Len(queue[i]) : queue'[i][k] = queue[i][k]
           /\ \A k \in (Len(queue[i]) + 1)..Len(queue'[i]) :
                 \E e \in E : queue'[i][k] = Note(e)
           /\ conn[i] = "listening" =>
                 \A e \in E : \E k \in 1..Len(queue'[i]) : queue'[i][k].env = e
<1>1. \A e \in Envs : states'[e] = IF e \in E THEN states[e] + 1 ELSE states[e]
  BY DEF ChangeRows
<1>2. PICK ns \in Orders(E) :
        queue' = [j \in Instances |->
                    IF conn[j] = "listening" THEN queue[j] \o ns ELSE queue[j]]
  BY DEF ChangeRows
<1>3. /\ ns \in Seq(Notification)
      /\ \A k \in 1..Len(ns) : \E e \in E : ns[k] = Note(e)
      /\ \A e \in E : \E k \in 1..Len(ns) : ns[k].env = e
  BY OrdersType
<1>4. queue[i] \in Seq(Notification)
  BY DEF TypeOK
<1>5. CASE conn[i] # "listening"
  BY <1>1, <1>2, <1>4, <1>5
<1>6. CASE conn[i] = "listening"
  <2>1. queue'[i] = queue[i] \o ns
    BY <1>2, <1>6
  <2>2. /\ Len(queue'[i]) = Len(queue[i]) + Len(ns)
        /\ \A k \in 1..Len(queue[i]) : queue'[i][k] = queue[i][k]
        /\ \A k \in 1..Len(ns) : queue'[i][Len(queue[i]) + k] = ns[k]
    BY <2>1, <1>3, <1>4
  <2>3. Len(queue[i]) \in Nat /\ Len(ns) \in Nat
    BY <1>3, <1>4
  <2>4. ASSUME NEW k \in (Len(queue[i]) + 1)..Len(queue'[i])
        PROVE  \E e \in E : queue'[i][k] = Note(e)
    <3>1. k - Len(queue[i]) \in 1..Len(ns)
      BY <2>2, <2>3
    <3>2. queue'[i][Len(queue[i]) + (k - Len(queue[i]))] = ns[k - Len(queue[i])]
      BY <3>1, <2>2
    <3>3. Len(queue[i]) + (k - Len(queue[i])) = k
      BY <2>3
    <3> QED
      BY <3>1, <3>2, <3>3, <1>3
  <2>5. ASSUME NEW e \in E
        PROVE  \E k \in 1..Len(queue'[i]) : queue'[i][k].env = e
    <3>1. PICK k \in 1..Len(ns) : ns[k].env = e
      BY <1>3
    <3>2. Len(queue[i]) + k \in 1..Len(queue'[i])
      BY <2>2, <2>3
    <3> QED
      BY <3>1, <3>2, <2>2
  <2> QED
    BY <1>1, <1>6, <2>2, <2>3, <2>4, <2>5
<1> QED
  BY <1>5, <1>6

\* No announcement runs ahead of the table.
LEMMA VersionStep == TypeOK /\ HandInv /\ VersionInv /\ [Next]_vars => VersionInv'
<1> SUFFICES ASSUME TypeOK, HandInv, VersionInv, [Next]_vars PROVE VersionInv'
  OBVIOUS
<1>1. ASSUME UNCHANGED <<states, queue, hand, told>> PROVE VersionInv'
  BY <1>1 DEF VersionInv
<1>2. ASSUME NEW E \in SUBSET Envs, ChangeRows(E), UNCHANGED <<hand, told>>
      PROVE  VersionInv'
  <2> SUFFICES ASSUME NEW i \in Instances
               PROVE  /\ \A k \in 1..Len(queue'[i]) :
                            queue'[i][k].ver <= states'[queue'[i][k].env]
                      /\ hand[i] # None => hand[i].ver <= states'[hand[i].env]
                      /\ \A e \in Envs : told[i][e] <= states'[e]
    BY <1>2 DEF VersionInv
  <2>0. \A e \in Envs : states'[e] = IF e \in E THEN states[e] + 1 ELSE states[e]
    BY <1>2, RowsQueued
  <2>1. \A e \in Envs : /\ states[e] \in Nat /\ states'[e] \in Nat
                        /\ states[e] <= states'[e]
    BY <2>0 DEF TypeOK
  <2>2. ASSUME NEW k \in 1..Len(queue'[i])
        PROVE  queue'[i][k].ver <= states'[queue'[i][k].env]
    <3>1. CASE k \in 1..Len(queue[i])
      <4>1. queue[i][k] \in Notification
        BY <3>1 DEF TypeOK
      <4>2. queue'[i][k] = queue[i][k] /\ queue[i][k].ver <= states[queue[i][k].env]
        BY <3>1, <1>2, RowsQueued DEF VersionInv
      <4>3. queue[i][k].env \in Envs /\ queue[i][k].ver \in Nat
        BY <4>1 DEF Notification
      <4> QED
        BY <4>2, <4>3, <2>1
    <3>2. CASE k \notin 1..Len(queue[i])
      <4>1. Len(queue[i]) \in Nat
        BY DEF TypeOK
      <4>2. k \in (Len(queue[i]) + 1)..Len(queue'[i])
        BY <3>2, <4>1
      <4>3. PICK e \in E : queue'[i][k] = Note(e)
        BY <4>2, <1>2, RowsQueued
      <4>4. states'[e] = states[e] + 1 /\ states[e] \in Nat
        BY <1>2, RowsQueued DEF TypeOK
      <4> QED
        BY <4>3, <4>4 DEF Note
    <3> QED
      BY <3>1, <3>2
  <2>3. hand[i] # None => hand[i].ver <= states'[hand[i].env]
    <3> SUFFICES ASSUME hand[i] # None PROVE hand[i].ver <= states'[hand[i].env]
      OBVIOUS
    <3>1. hand[i].env \in Envs /\ hand[i].ver \in Nat
      BY DEF TypeOK, Notification
    <3>2. hand[i].ver <= states[hand[i].env]
      BY DEF VersionInv
    <3> QED
      BY <2>1, <3>1, <3>2
  <2>4. \A e \in Envs : told[i][e] <= states'[e]
    <3> TAKE e \in Envs
    <3>1. told[i][e] \in Nat /\ told[i][e] <= states[e]
      BY DEF VersionInv, TypeOK
    <3> QED
      BY <2>1, <3>1
  <2> QED
    BY <2>2, <2>3, <2>4
<1>3. ASSUME NEW i \in Instances, Stop(i) PROVE VersionInv'
  BY <1>3 DEF VersionInv, TypeOK, Stop, Blank
<1>4. ASSUME NEW i \in Instances, LoseConnection(i) PROVE VersionInv'
  BY <1>4 DEF VersionInv, TypeOK, LoseConnection
<1>5. ASSUME NEW i \in Instances, Receive(i) PROVE VersionInv'
  <2>1. /\ queue[i] \in Seq(Notification)
        /\ queue[i] # <<>>
        /\ hand'[i] = Head(queue[i])
        /\ queue'[i] = Tail(queue[i])
        /\ UNCHANGED <<states, told>>
    BY <1>5 DEF Receive, TypeOK
  <2>2. \A j \in Instances \ {i} : queue'[j] = queue[j] /\ hand'[j] = hand[j]
    BY <1>5 DEF Receive, TypeOK
  <2>3. \A k \in 1..Len(queue'[i]) :
           k + 1 \in 1..Len(queue[i]) /\ queue'[i][k] = queue[i][k + 1]
    BY <2>1
  <2>4. 1 \in 1..Len(queue[i]) /\ hand'[i] = queue[i][1]
    BY <2>1
  <2>5. \A k \in 1..Len(queue'[i]) : queue'[i][k].ver <= states[queue'[i][k].env]
    BY <2>3 DEF VersionInv
  <2>6. hand'[i].ver <= states[hand'[i].env]
    BY <2>4 DEF VersionInv
  <2> QED
    BY <2>1, <2>2, <2>5, <2>6 DEF VersionInv
<1>6. ASSUME NEW i \in Instances, Invalidate(i) PROVE VersionInv'
  BY <1>6, <1>1 DEF Invalidate
<1>7. ASSUME NEW i \in Instances, Announce(i) PROVE VersionInv'
  <2>1. hand[i] # None /\ hand[i] \in Notification
    BY <1>7 DEF Announce, HandInv, TypeOK
  <2>2. hand[i].ver <= states[hand[i].env]
    BY <2>1 DEF VersionInv
  <2>3. \A e \in Envs : told'[i][e] = IF e = hand[i].env THEN hand[i].ver ELSE told[i][e]
    BY <1>7, <2>1 DEF Announce, TypeOK, Notification
  <2>4. \A j \in Instances \ {i} : told'[j] = told[j] /\ hand'[j] = hand[j]
    BY <1>7 DEF Announce, TypeOK
  <2>5. hand'[i] = None /\ UNCHANGED <<queue, states>>
    BY <1>7 DEF Announce, TypeOK
  <2> QED
    BY <2>2, <2>3, <2>4, <2>5 DEF VersionInv
<1>8. ASSUME Write PROVE VersionInv'
  <2>1. ASSUME NEW e \in Envs, UpsertFlagState(e) PROVE VersionInv'
    BY <1>2, <2>1 DEF UpsertFlagState
  <2>2. ASSUME NEW E \in SUBSET Envs, DeleteFlag(E) PROVE VersionInv'
    BY <1>2, <2>2 DEF DeleteFlag
  <2> QED
    BY <1>1, <1>8, <2>1, <2>2 DEF Write, WriteFlag, WriteSegment
<1>9. ASSUME NEW i \in Instances, NEW h \in Handlers, Request(i, h) PROVE VersionInv'
  BY <1>1, <1>9, RequestFrame
<1>10. ASSUME NEW i \in Instances, Start(i) PROVE VersionInv'
  BY <1>1, <1>10 DEF Start
<1>11. CASE UNCHANGED vars
  BY <1>1, <1>11 DEF vars
<1> QED
  BY <1>3, <1>4, <1>5, <1>6, <1>7, <1>8, <1>9, <1>10, <1>11 DEF Next, Life, Listener

\* The announcements of an environment stay in order: a change is queued behind everything
\* announced before it, and the queue is worked off from its head.
LEMMA OrderStep == TypeOK /\ HandInv /\ VersionInv /\ OrderInv /\ [Next]_vars => OrderInv'
<1> SUFFICES ASSUME TypeOK, HandInv, VersionInv, OrderInv, [Next]_vars PROVE OrderInv'
  OBVIOUS
<1>0. \A i \in Instances : queue[i] \in Seq(Notification) /\ Len(queue[i]) \in Nat
  BY DEF TypeOK
<1>1. ASSUME UNCHANGED <<queue, hand, told>> PROVE OrderInv'
  BY <1>1 DEF OrderInv
<1>2. ASSUME NEW E \in SUBSET Envs, ChangeRows(E), UNCHANGED <<hand, told>>
      PROVE  OrderInv'
  <2> SUFFICES ASSUME NEW i \in Instances, NEW k \in 1..Len(queue'[i])
               PROVE  /\ \A m \in 1..(k - 1) : queue'[i][m].env = queue'[i][k].env
                                                  => queue'[i][m].ver <= queue'[i][k].ver
                      /\ told[i][queue'[i][k].env] <= queue'[i][k].ver
                      /\ hand[i] # None /\ hand[i].env = queue'[i][k].env
                            => hand[i].ver <= queue'[i][k].ver
    BY <1>2 DEF OrderInv
  <2>1. /\ Len(queue[i]) <= Len(queue'[i])
        /\ \A m \in 1..Len(queue[i]) : queue'[i][m] = queue[i][m]
        /\ \A m \in (Len(queue[i]) + 1)..Len(queue'[i]) : \E e \in E : queue'[i][m] = Note(e)
    BY <1>2, RowsQueued
  <2>2. CASE k \in 1..Len(queue[i])
    <3>1. \A m \in 1..(k - 1) : m \in 1..Len(queue[i])
      BY <1>0, <2>2
    <3> QED
      BY <2>1, <2>2, <3>1 DEF OrderInv
  <2>3. CASE k \notin 1..Len(queue[i])
    <3>1. k \in (Len(queue[i]) + 1)..Len(queue'[i])
      BY <1>0, <2>1, <2>3
    <3>2. PICK e \in E : queue'[i][k] = Note(e)
      BY <2>1, <3>1
    <3>3. queue'[i][k].env = e /\ queue'[i][k].ver = states[e] + 1 /\ states[e] \in Nat /\ e \in Envs
      BY <3>2 DEF Note, TypeOK
    <3>4. told[i][e] <= states[e] /\ told[i][e] \in Nat
      BY <3>3 DEF VersionInv, TypeOK
    <3>5. hand[i] # None /\ hand[i].env = e => hand[i].ver <= states[e] /\ hand[i].ver \in Nat
      BY DEF VersionInv, TypeOK, Notification
    <3>6. ASSUME NEW m \in 1..(k - 1), queue'[i][m].env = e
          PROVE  queue'[i][m].ver <= states[e] + 1
      <4>1. CASE m \in 1..Len(queue[i])
        <5>0. queue[i][m] \in Notification /\ queue[i][m] = queue'[i][m]
          BY <1>0, <2>1, <4>1
        <5>1. queue[i][m].ver <= states[e] /\ queue[i][m].ver \in Nat
          BY <3>6, <4>1, <5>0 DEF VersionInv, Notification
        <5> QED
          BY <2>1, <3>3, <4>1, <5>1
      <4>2. CASE m \notin 1..Len(queue[i])
        <5>1. m \in (Len(queue[i]) + 1)..Len(queue'[i])
          BY <1>0, <2>1, <3>1, <4>2
        <5>2. PICK d \in E : queue'[i][m] = Note(d)
          BY <2>1, <5>1
        <5>3. d = e /\ queue'[i][m].ver = states[e] + 1
          BY <3>6, <5>2 DEF Note
        <5> QED
          BY <3>3, <5>3
      <4> QED
        BY <4>1, <4>2
    <3> QED
      BY <3>3, <3>4, <3>5, <3>6
  <2> QED
    BY <2>2, <2>3
<1>3. ASSUME NEW i \in Instances, Stop(i) PROVE OrderInv'
  BY <1>3 DEF OrderInv, TypeOK, Stop, Blank
<1>4. ASSUME NEW i \in Instances, LoseConnection(i) PROVE OrderInv'
  BY <1>4 DEF OrderInv, TypeOK, LoseConnection
<1>5. ASSUME NEW i \in Instances, Receive(i) PROVE OrderInv'
  <2>1. /\ queue[i] # <<>> /\ hand'[i] = Head(queue[i]) /\ queue'[i] = Tail(queue[i]) /\ told' = told
        /\ \A j \in Instances \ {i} : queue'[j] = queue[j] /\ hand'[j] = hand[j]
    BY <1>5 DEF Receive, TypeOK
  <2>2. /\ Len(queue'[i]) = Len(queue[i]) - 1 /\ Len(queue[i]) >= 1 /\ hand'[i] = queue[i][1]
        /\ \A k \in 1..Len(queue'[i]) : queue'[i][k] = queue[i][k + 1]
    BY <1>0, <2>1
  <2>3. ASSUME NEW k \in 1..Len(queue'[i])
        PROVE  /\ \A m \in 1..(k - 1) : queue'[i][m].env = queue'[i][k].env
                                           => queue'[i][m].ver <= queue'[i][k].ver
               /\ told[i][queue'[i][k].env] <= queue'[i][k].ver
               /\ hand'[i].env = queue'[i][k].env => hand'[i].ver <= queue'[i][k].ver
    <3>1. k + 1 \in 1..Len(queue[i]) /\ 1 \in 1..((k + 1) - 1) /\ k \in Nat
      BY <1>0, <2>2
    <3>2. \A m \in 1..(k - 1) : m \in 1..Len(queue'[i]) /\ m + 1 \in 1..((k + 1) - 1)
      BY <1>0, <2>2
    <3> QED
      BY <2>2, <3>1, <3>2 DEF OrderInv
  <2>4. told[i][hand'[i].env] <= hand'[i].ver
    <3>1. 1 \in 1..Len(queue[i])
      BY <1>0, <2>2
    <3> QED
      BY <2>2, <3>1 DEF OrderInv
  <2>5. \A j \in Instances \ {i} : told'[j] = told[j] /\ queue'[j] = queue[j] /\ hand'[j] = hand[j]
    BY <2>1
  <2> SUFFICES ASSUME NEW j \in Instances
               PROVE  /\ \A k \in 1..Len(queue'[j]) : \A m \in 1..(k - 1) :
                            queue'[j][m].env = queue'[j][k].env => queue'[j][m].ver <= queue'[j][k].ver
                      /\ \A k \in 1..Len(queue'[j]) :
                            /\ told'[j][queue'[j][k].env] <= queue'[j][k].ver
                            /\ hand'[j] # None /\ hand'[j].env = queue'[j][k].env
                                  => hand'[j].ver <= queue'[j][k].ver
                      /\ hand'[j] # None => told'[j][hand'[j].env] <= hand'[j].ver
    BY DEF OrderInv
  <2>6. CASE j = i
    BY <2>1, <2>3, <2>4, <2>6
  <2>7. CASE j # i
    BY <2>5, <2>7 DEF OrderInv
  <2> QED
    BY <2>6, <2>7
<1>6. ASSUME NEW i \in Instances, Announce(i) PROVE OrderInv'
  <2>1. hand[i] # None /\ hand[i] \in Notification
    BY <1>6 DEF Announce, HandInv, TypeOK
  <2>2. \A e \in Envs : told'[i][e] = IF e = hand[i].env THEN hand[i].ver ELSE told[i][e]
    BY <1>6, <2>1 DEF Announce, TypeOK, Notification
  <2>3. \A j \in Instances \ {i} : told'[j] = told[j] /\ hand'[j] = hand[j]
    BY <1>6 DEF Announce, TypeOK
  <2>4. hand'[i] = None /\ queue' = queue
    BY <1>6 DEF Announce, TypeOK
  <2>5. \A k \in 1..Len(queue[i]) : queue[i][k].env \in Envs
    <3>1. \A k \in 1..Len(queue[i]) : queue[i][k] \in Notification
      BY <1>0
    <3> QED
      BY <3>1 DEF Notification
  <2>6. \A k \in 1..Len(queue[i]) : told'[i][queue[i][k].env] <= queue[i][k].ver
    BY <2>1, <2>2, <2>5 DEF OrderInv
  <2> QED
    BY <2>3, <2>4, <2>6 DEF OrderInv
<1>7. ASSUME Write PROVE OrderInv'
  <2>1. ASSUME NEW e \in Envs, UpsertFlagState(e) PROVE OrderInv'
    BY <1>2, <2>1 DEF UpsertFlagState
  <2>2. ASSUME NEW E \in SUBSET Envs, DeleteFlag(E) PROVE OrderInv'
    BY <1>2, <2>2 DEF DeleteFlag
  <2> QED
    BY <1>1, <1>7, <2>1, <2>2 DEF Write, WriteFlag, WriteSegment
<1>8. ASSUME NEW i \in Instances, NEW h \in Handlers, Request(i, h) PROVE OrderInv'
  BY <1>1, <1>8, RequestFrame
<1>9. ASSUME NEW i \in Instances, Start(i) \/ Invalidate(i) PROVE OrderInv'
  BY <1>1, <1>9 DEF Start, Invalidate
<1>10. CASE UNCHANGED vars
  BY <1>1, <1>10 DEF vars
<1> QED
  BY <1>3, <1>4, <1>5, <1>6, <1>7, <1>8, <1>9, <1>10 DEF Next, Life, Listener

-----------------------------------------------------------------------------
\* An invalidation that is on its way stays so until the deletion it is for.
LEMMA PendingKept ==
    ASSUME TypeOK, [Next]_vars, NEW i \in Instances, NEW e \in Envs,
           conn[i] = "listening", conn'[i] = "listening", Pending(i, e),
           ~(Invalidate(i) /\ hand[i].env = e)
    PROVE  Pending(i, e)'
<1>1. ASSUME queue'[i] = queue[i], phase'[i] = phase[i], hand'[i] = hand[i]
      PROVE  Pending(i, e)'
  BY <1>1 DEF Pending
<1>2. ASSUME NEW E \in SUBSET Envs, ChangeRows(E), UNCHANGED <<hand, phase>>
      PROVE  Pending(i, e)'
  <2>1. /\ Len(queue[i]) <= Len(queue'[i])
        /\ \A k \in 1..Len(queue[i]) : queue'[i][k] = queue[i][k]
    BY <1>2, RowsQueued
  <2>2. Len(queue[i]) \in Nat /\ Len(queue'[i]) \in Nat
    <3>1. queue'[i] \in Seq(Notification)
      <4>1. PICK ns \in Orders(E) :
              queue' = [j \in Instances |->
                          IF conn[j] = "listening" THEN queue[j] \o ns ELSE queue[j]]
        BY <1>2 DEF ChangeRows
      <4>2. ns \in Seq(Notification)
        BY OrdersType
      <4> QED
        BY <4>1, <4>2 DEF TypeOK
    <3> QED
      BY <3>1 DEF TypeOK
  <2> QED
    BY <1>2, <2>1, <2>2 DEF Pending
<1>3. ASSUME NEW j \in Instances, Stop(j) \/ LoseConnection(j) PROVE Pending(i, e)'
  BY <1>1, <1>3 DEF Stop, LoseConnection, Blank, TypeOK
<1>4. ASSUME NEW j \in Instances, Receive(j) PROVE Pending(i, e)'
  <2>1. CASE j # i
    BY <1>1, <1>4, <2>1 DEF Receive, TypeOK
  <2>2. CASE j = i
    <3>1. /\ queue[i] \in Seq(Notification) /\ queue[i] # <<>>
          /\ phase[i] = "wait" /\ phase'[i] = "received"
          /\ hand'[i] = Head(queue[i]) /\ queue'[i] = Tail(queue[i])
      BY <1>4, <2>2 DEF Receive, TypeOK
    <3>2. PICK k \in 1..Len(queue[i]) : queue[i][k].env = e
      BY <3>1 DEF Pending
    <3>3. CASE k = 1
      BY <3>1, <3>2, <3>3 DEF Pending
    <3>4. CASE k # 1
      <4>1. k - 1 \in 1..Len(queue'[i]) /\ queue'[i][k - 1] = queue[i][k]
        BY <3>1, <3>4
      <4> QED
        BY <4>1, <3>2 DEF Pending
    <3> QED
      BY <3>3, <3>4
  <2> QED
    BY <2>1, <2>2
<1>5. ASSUME NEW j \in Instances, Invalidate(j) PROVE Pending(i, e)'
  <2>1. CASE j # i
    BY <1>1, <1>5, <2>1 DEF Invalidate, TypeOK
  <2>2. CASE j = i
    <3>1. queue' = queue /\ hand[i].env # e
      BY <1>5, <2>2 DEF Invalidate
    <3> QED
      BY <3>1 DEF Pending
  <2> QED
    BY <2>1, <2>2
<1>6. ASSUME NEW j \in Instances, Announce(j) PROVE Pending(i, e)'
  <2>1. CASE j # i
    BY <1>1, <1>6, <2>1 DEF Announce, TypeOK
  <2>2. CASE j = i
    BY <1>6, <2>2 DEF Announce, Pending
  <2> QED
    BY <2>1, <2>2
<1>7. ASSUME Write PROVE Pending(i, e)'
  <2>1. ASSUME NEW f \in Envs, UpsertFlagState(f) PROVE Pending(i, e)'
    BY <1>2, <2>1 DEF UpsertFlagState
  <2>2. ASSUME NEW E \in SUBSET Envs, DeleteFlag(E) PROVE Pending(i, e)'
    BY <1>2, <2>2 DEF DeleteFlag
  <2> QED
    BY <1>1, <1>7, <2>1, <2>2 DEF Write, WriteFlag, WriteSegment
<1>8. ASSUME NEW j \in Instances, NEW h \in Handlers, Request(j, h) PROVE Pending(i, e)'
  BY <1>1, <1>8, RequestFrame
<1>9. ASSUME NEW j \in Instances, Start(j) PROVE Pending(i, e)'
  BY <1>1, <1>9 DEF Start
<1>10. CASE UNCHANGED vars
  BY <1>1, <1>10 DEF vars
<1> QED
  BY <1>3, <1>4, <1>5, <1>6, <1>7, <1>8, <1>9, <1>10 DEF Next, Life, Listener

\* A change of e's rows puts an invalidation on its way to every listening process.
LEMMA ChangeIsPending ==
    ASSUME TypeOK, [Next]_vars, NEW i \in Instances, NEW e \in Envs,
           conn[i] = "listening", states'[e] # states[e]
    PROVE  Pending(i, e)'
<1>1. ASSUME NEW E \in SUBSET Envs, ChangeRows(E) PROVE Pending(i, e)'
  <2>1. e \in E
    BY <1>1, RowsQueued
  <2>2. \E k \in 1..Len(queue'[i]) : queue'[i][k].env = e
    BY <1>1, <2>1, RowsQueued
  <2> QED
    BY <2>2 DEF Pending
<1>2. ASSUME Write PROVE Pending(i, e)'
  <2>1. ASSUME NEW f \in Envs, UpsertFlagState(f) PROVE Pending(i, e)'
    BY <1>1, <2>1 DEF UpsertFlagState
  <2>2. ASSUME NEW E \in SUBSET Envs, DeleteFlag(E) PROVE Pending(i, e)'
    BY <1>1, <2>2 DEF DeleteFlag
  <2> QED
    BY <1>2, <2>1, <2>2 DEF Write, WriteFlag, WriteSegment
<1>3. ASSUME NEW j \in Instances, Life(j) \/ Listener(j) PROVE FALSE
  BY <1>3 DEF Life, Listener, Start, Stop, LoseConnection, Receive, Invalidate, Announce
<1>4. ASSUME NEW j \in Instances, NEW h \in Handlers, Request(j, h) PROVE FALSE
  BY <1>4, RequestFrame
<1>5. CASE UNCHANGED vars
  BY <1>5 DEF vars
<1> QED
  BY <1>2, <1>3, <1>4, <1>5 DEF Next

\* What a process has told moves only to what it just deleted; what counts as
\* deleted changes only by a deletion.
LEMMA AnnouncedStep ==
    ASSUME TypeOK, HandInv, [Next]_vars, NEW i \in Instances, NEW e \in Envs,
           conn'[i] # "down"
    PROVE  /\ \/ told'[i][e] = told[i][e]
              \/ phase[i] = "deleted" /\ hand[i].env = e /\ told'[i][e] = hand[i].ver
           /\ phase'[i] = "deleted" =>
                 /\ hand'[i] = hand[i]
                 /\ phase[i] = "deleted" \/ Invalidate(i)
<1> DEFINE Goal == /\ \/ told'[i][e] = told[i][e]
                      \/ /\ phase[i] = "deleted" /\ hand[i].env = e
                         /\ told'[i][e] = hand[i].ver
                   /\ phase'[i] = "deleted" =>
                        /\ hand'[i] = hand[i]
                        /\ phase[i] = "deleted" \/ Invalidate(i)
<1>1. ASSUME told'[i] = told[i], phase'[i] = phase[i], hand'[i] = hand[i] PROVE Goal
  BY <1>1
<1>2. ASSUME Write PROVE Goal
  BY <1>1, <1>2 DEF Write, WriteFlag, WriteSegment, UpsertFlagState, DeleteFlag
<1>3. ASSUME NEW j \in Instances, Life(j) PROVE Goal
  BY <1>1, <1>3 DEF Life, Start, Stop, LoseConnection, Blank, TypeOK
<1>4. ASSUME NEW j \in Instances, Receive(j) PROVE Goal
  <2>1. CASE j # i
    BY <1>1, <1>4, <2>1 DEF Receive, TypeOK
  <2>2. CASE j = i
    BY <1>4, <2>2 DEF Receive, TypeOK
  <2> QED
    BY <2>1, <2>2
<1>5. ASSUME NEW j \in Instances, Invalidate(j) PROVE Goal
  <2>1. CASE j # i
    BY <1>1, <1>5, <2>1 DEF Invalidate, TypeOK
  <2>2. CASE j = i
    <3>1. told' = told /\ hand' = hand
      BY <1>5 DEF Invalidate
    <3> QED
      BY <1>5, <2>2, <3>1
  <2> QED
    BY <2>1, <2>2
<1>6. ASSUME NEW j \in Instances, Announce(j) PROVE Goal
  <2>1. CASE j # i
    BY <1>1, <1>6, <2>1 DEF Announce, TypeOK
  <2>2. CASE j = i
    <3>1. phase[i] = "deleted" /\ phase'[i] = "wait"
      BY <1>6, <2>2 DEF Announce, TypeOK
    <3>2. hand[i] \in Notification
      BY <3>1 DEF HandInv, TypeOK
    <3>3. told'[i][e] = IF e = hand[i].env THEN hand[i].ver ELSE told[i][e]
      BY <1>6, <2>2, <3>2 DEF Announce, TypeOK, Notification
    <3> QED
      BY <3>1, <3>3
  <2> QED
    BY <2>1, <2>2
<1>7. ASSUME NEW j \in Instances, NEW h \in Handlers, Request(j, h) PROVE Goal
  BY <1>1, <1>7, RequestFrame
<1>8. CASE UNCHANGED vars
  BY <1>1, <1>8 DEF vars
<1> QED
  BY <1>2, <1>3, <1>4, <1>5, <1>6, <1>7, <1>8 DEF Next, Listener

\* What a ruleset of e guarantees survives every step of a listening process
\* but the deletion of e.
LEMMA CoveredStep ==
    ASSUME TypeOK, HandInv, VersionInv, [Next]_vars,
           NEW i \in Instances, NEW e \in Envs,
           conn[i] = "listening", conn'[i] = "listening",
           ~(Invalidate(i) /\ hand[i].env = e),
           NEW rs, Covered(i, e, rs)
    PROVE  Covered(i, e, rs)'
<1> SUFFICES ASSUME ~rs.crossed
             PROVE  /\ rs.states = states'[e] \/ Pending(i, e)'
                    /\ told'[i][e] <= rs.states
                    /\ phase'[i] = "deleted" /\ hand'[i].env = e
                          => hand'[i].ver <= rs.states
  BY DEF Covered
<1>1. /\ rs.states = states[e] \/ Pending(i, e)
      /\ told[i][e] <= rs.states
      /\ phase[i] = "deleted" /\ hand[i].env = e => hand[i].ver <= rs.states
  BY DEF Covered
<1>2. rs.states = states'[e] \/ Pending(i, e)'
  <2>1. CASE Pending(i, e)
    BY <2>1, PendingKept
  <2>2. CASE states'[e] # states[e]
    BY <2>2, ChangeIsPending
  <2> QED
    BY <1>1, <2>1, <2>2
<1>3. told'[i][e] <= rs.states
  BY <1>1, AnnouncedStep
<1>4. phase'[i] = "deleted" /\ hand'[i].env = e => hand'[i].ver <= rs.states
  BY <1>1, AnnouncedStep
<1> QED
  BY <1>2, <1>3, <1>4

-----------------------------------------------------------------------------
\* Only a process that was listening is listening after a step, or one that
\* has just started and has nothing cached and nothing loading.
LEMMA ListeningStep ==
    ASSUME TypeOK, [Next]_vars, NEW i \in Instances, conn'[i] = "listening"
    PROVE  \/ conn[i] = "listening"
           \/ conn[i] = "down" /\ load' = load /\ cache' = cache
<1> DEFINE Goal == \/ conn[i] = "listening"
                   \/ conn[i] = "down" /\ load' = load /\ cache' = cache
<1>1. CASE Write
  BY <1>1 DEF Write, WriteFlag, WriteSegment, UpsertFlagState, DeleteFlag
<1>2. ASSUME NEW j \in Instances, Listener(j) PROVE Goal
  BY <1>2 DEF Listener, Receive, Invalidate, Announce
<1>3. ASSUME NEW j \in Instances, NEW h \in Handlers, Request(j, h) PROVE Goal
  BY <1>3, RequestFrame
<1>4. ASSUME NEW j \in Instances, Start(j) PROVE Goal
  BY <1>4 DEF Start, TypeOK
<1>5. ASSUME NEW j \in Instances, Stop(j) \/ LoseConnection(j) PROVE Goal
  BY <1>5 DEF Stop, LoseConnection, TypeOK
<1>6. ASSUME NEW j \in Instances, Life(j) PROVE Goal
  BY <1>4, <1>5, <1>6 DEF Life
<1>7. CASE UNCHANGED vars
  BY <1>7 DEF vars
<1> QED
  BY <1>1, <1>2, <1>3, <1>6, <1>7 DEF Next

\* The load of a handler after a step: unchanged and not crossed by a deletion
\* of its environment, crossed, past its states query just now, or past its
\* segments query with the same states.
LEMMA LoadAfter ==
    ASSUME TypeOK, HandInv, LifeInv, [Next]_vars, NEW i \in Instances, NEW h \in Handlers,
           conn'[i] = "listening", load'[i][h].pc \in {"segments", "store"}
    PROVE  \/ load'[i][h].rs.crossed
           \/ /\ load[i][h].pc = "states" /\ states' = states
              /\ load'[i][h].env = load[i][h].env
              /\ load'[i][h].rs.states = states[load[i][h].env]
              /\ UNCHANGED <<told, hand, phase, conn>>
           \/ /\ load[i][h].pc \in {"segments", "store"}
              /\ load'[i][h].env = load[i][h].env
              /\ load'[i][h].rs.states = load[i][h].rs.states
              /\ load'[i][h].rs.crossed = load[i][h].rs.crossed
              /\ ~(Invalidate(i) /\ hand[i].env = load[i][h].env)
<1> DEFINE Same == /\ load[i][h].pc \in {"segments", "store"}
                   /\ load'[i][h].env = load[i][h].env
                   /\ load'[i][h].rs.states = load[i][h].rs.states
                   /\ load'[i][h].rs.crossed = load[i][h].rs.crossed
                   /\ ~(Invalidate(i) /\ hand[i].env = load[i][h].env)
           Read == /\ load[i][h].pc = "states" /\ states' = states
                   /\ load'[i][h].env = load[i][h].env
                   /\ load'[i][h].rs.states = states[load[i][h].env]
                   /\ UNCHANGED <<told, hand, phase, conn>>
<1>0. load[i][h] \in Load
  BY DEF TypeOK
<1>1. ASSUME load'[i][h] = load[i][h], ~Invalidate(i) PROVE Same
  BY <1>1
<1>2. CASE Write
  <2>1. phase' = phase /\ load' = load
    BY <1>2 DEF Write, WriteFlag, WriteSegment, UpsertFlagState, DeleteFlag
  <2>2. ~Invalidate(i)
    BY <2>1 DEF Invalidate, TypeOK
  <2> QED
    BY <1>1, <2>1, <2>2
<1>3. ASSUME NEW j \in Instances, Life(j) PROVE Same
  <2>1. load'[i][h] = load[i][h]
    BY <1>3 DEF Life, Start, Stop, LoseConnection, Blank, TypeOK
  <2>2. ~Invalidate(i)
    BY <1>3 DEF Life, Start, Stop, LoseConnection, Blank, Invalidate, TypeOK
  <2> QED
    BY <1>1, <2>1, <2>2
<1>4. ASSUME NEW j \in Instances, Receive(j) \/ Announce(j) PROVE Same
  <2>1. load' = load
    BY <1>4 DEF Receive, Announce
  <2>2. ~Invalidate(i)
    BY <1>4 DEF Receive, Announce, Invalidate, TypeOK
  <2> QED
    BY <1>1, <2>1, <2>2
<1>5. ASSUME NEW j \in Instances, Invalidate(j) PROVE Same \/ load'[i][h].rs.crossed
  <2>1. CASE j # i
    <3>1. load'[i] = load[i] /\ phase'[i] = phase[i]
      BY <1>5, <2>1 DEF Invalidate, TypeOK
    <3>2. ~Invalidate(i)
      BY <3>1 DEF Invalidate, TypeOK
    <3> QED
      BY <1>1, <3>1, <3>2
  <2>2. CASE j = i
    <3>1. load'[i][h] = IF load[i][h].env = hand[i].env /\ load[i][h].pc \in {"segments", "store"}
                        THEN [load[i][h] EXCEPT !.rs.crossed = TRUE]
                        ELSE load[i][h]
      BY <1>5, <2>2 DEF Invalidate, Cross, TypeOK
    <3> QED
      BY <1>0, <3>1, ZenonT(30) DEF Load, Ruleset
  <2> QED
    BY <2>1, <2>2
<1>6. ASSUME NEW j \in Instances, NEW g \in Handlers, Request(j, g) PROVE Same \/ Read
  <2>1. UNCHANGED <<states, conn, hand, phase, told>>
    BY <1>6, RequestFrame
  <2>2. ~Invalidate(i)
    BY <2>1 DEF Invalidate, TypeOK
  <2>3. CASE j # i \/ g # h
    <3>0. CASE ReadFlags(j, g) \/ ReadStates(j, g)
      <4>1. PICK new : load' = [load EXCEPT ![j][g] = new]
        BY <3>0 DEF ReadFlags, ReadStates
      <4> QED
        BY <1>1, <2>2, <2>3, <4>1 DEF TypeOK
    <3>1. CASE ~(ReadFlags(j, g) \/ ReadStates(j, g))
      <4>1. load'[i][h] = load[i][h]
        BY <1>6, <2>3, <3>1 DEF Request, Loader, ReadSegments, StoreRuleset, FailLoad, Miss,
                                TypeOK
      <4> QED
        BY <1>1, <2>2, <4>1
    <3> QED
      BY <3>0, <3>1
  <2>4. CASE j = i /\ g = h
    <3>1. CASE ReadStates(i, h)
      <4>0. PICK cut \in BOOLEAN :
              load' = [load EXCEPT ![i][h] =
                         [@ EXCEPT !.pc = "segments", !.rs.cut = cut,
                                   !.rs.states = states[load[i][h].env]]]
        BY <3>1 DEF ReadStates
      <4>1. load'[i][h] = [load[i][h] EXCEPT !.pc = "segments", !.rs.cut = cut,
                                             !.rs.states = states[load[i][h].env]]
        BY <4>0 DEF TypeOK
      <4> QED
        <5>1. /\ load'[i][h].env = load[i][h].env
              /\ load'[i][h].rs.states = states[load[i][h].env]
          <6> DEFINE seen == states[load[i][h].env]
                     new == [load[i][h] EXCEPT !.pc = "segments", !.rs.cut = cut,
                                               !.rs.states = seen]
          <6>1. new.env = load[i][h].env /\ new.rs.states = seen
            <7> HIDE DEF seen
            <7> QED
              BY <1>0 DEF Load, Ruleset
          <6> QED
            BY <4>1, <6>1
        <5>2. load[i][h].pc = "states"
          BY <3>1 DEF ReadStates
        <5> QED
          BY <2>1, <5>1, <5>2
    <3>2. CASE ReadSegments(i, h)
      <4>1. load'[i][h] = [load[i][h] EXCEPT !.pc = "store", !.rs.segments = segments]
        BY <3>2 DEF ReadSegments, TypeOK
      <4> QED
        <5>1. /\ load'[i][h].env = load[i][h].env
              /\ load'[i][h].rs.states = load[i][h].rs.states
              /\ load'[i][h].rs.crossed = load[i][h].rs.crossed
          BY <1>0, <4>1 DEF Load, Ruleset
        <5>2. load[i][h].pc = "segments"
          BY <3>2 DEF ReadSegments
        <5> QED
          BY <2>2, <5>1, <5>2
    <3>3. ASSUME ReadFlags(i, h) \/ StoreRuleset(i, h) \/ FailLoad(i, h)
                 \/ \E e \in Envs : Miss(i, h, e)
          PROVE  FALSE
      <4>1. CASE ReadFlags(i, h)
        <5>1. PICK cut \in BOOLEAN :
                load' = [load EXCEPT ![i][h] =
                           [@ EXCEPT !.pc = "states", !.rs.flags = flags, !.rs.cut = cut]]
          BY <4>1 DEF ReadFlags
        <5>2. load'[i][h].pc = "states"
          BY <1>0, <5>1 DEF TypeOK, Load
        <5> QED
          BY <5>2
      <4> QED
        BY <1>0, <3>3, <4>1 DEF StoreRuleset, FailLoad, Miss, NoLoad, TypeOK, Load
    <3> QED
      BY <1>6, <2>4, <3>1, <3>2, <3>3 DEF Request, Loader
  <2> QED
    BY <2>3, <2>4
<1>7. CASE UNCHANGED vars
  <2>1. ~Invalidate(i)
    BY <1>7 DEF vars, Invalidate, TypeOK
  <2> QED
    BY <1>1, <1>7, <2>1 DEF vars
<1> QED
  BY <1>2, <1>3, <1>4, <1>5, <1>6, <1>7 DEF Next, Listener

\* The cached ruleset of e after a step: the one before, and e was not deleted,
\* or the one a load of e has just stored.
LEMMA CacheAfter ==
    ASSUME TypeOK, HandInv, LifeInv, [Next]_vars, NEW i \in Instances, NEW e \in Envs,
           conn'[i] = "listening", cache'[i][e] # None
    PROVE  \/ /\ cache'[i][e] = cache[i][e]
              /\ ~(Invalidate(i) /\ hand[i].env = e)
           \/ \E h \in Handlers :
                 /\ load[i][h].pc = "store" /\ load[i][h].env = e
                 /\ cache'[i][e] = load[i][h].rs
                 /\ ~Invalidate(i)
<1> DEFINE Kept == /\ cache'[i][e] = cache[i][e]
                   /\ ~(Invalidate(i) /\ hand[i].env = e)
           Stored == \E h \in Handlers :
                        /\ load[i][h].pc = "store" /\ load[i][h].env = e
                        /\ cache'[i][e] = load[i][h].rs
                        /\ ~Invalidate(i)
<1>1. ASSUME cache'[i][e] = cache[i][e], phase'[i] = phase[i] PROVE Kept
  BY <1>1 DEF Invalidate, TypeOK
<1>2. CASE Write
  BY <1>1, <1>2 DEF Write, WriteFlag, WriteSegment, UpsertFlagState, DeleteFlag
<1>3. ASSUME NEW j \in Instances, Life(j) PROVE Kept
  <2>1. cache'[i] = cache[i] /\ phase'[i] = phase[i]
    BY <1>3 DEF Life, Start, Stop, LoseConnection, Blank, TypeOK
  <2> QED
    BY <1>1, <2>1
<1>4. ASSUME NEW j \in Instances, Receive(j) \/ Announce(j) PROVE Kept
  <2>1. cache' = cache
    BY <1>4 DEF Receive, Announce
  <2>2. ~Invalidate(i)
    BY <1>4 DEF Receive, Announce, Invalidate, TypeOK
  <2> QED
    BY <2>1, <2>2
<1>5. ASSUME NEW j \in Instances, Invalidate(j) PROVE Kept
  <2>1. CASE j # i
    <3>1. cache'[i] = cache[i] /\ phase'[i] = phase[i]
      BY <1>5, <2>1 DEF Invalidate, TypeOK
    <3> QED
      BY <1>1, <3>1
  <2>2. CASE j = i
    <3>1. hand[i] \in Notification
      BY <1>5, <2>2 DEF Invalidate, HandInv, TypeOK
    <3>2. cache'[i][e] = IF e = hand[i].env THEN None ELSE cache[i][e]
      BY <1>5, <2>2, <3>1 DEF Invalidate, TypeOK, Notification
    <3> QED
      BY <3>2
  <2> QED
    BY <2>1, <2>2
<1>6. ASSUME NEW j \in Instances, NEW g \in Handlers, Request(j, g) PROVE Kept \/ Stored
  <2>1. phase' = phase
    BY <1>6, RequestFrame
  <2>2. CASE cache'[i][e] = cache[i][e]
    BY <1>1, <2>1, <2>2
  <2>3. CASE cache'[i][e] # cache[i][e]
    <3>1. StoreRuleset(j, g)
      BY <1>6, <2>3 DEF Request, Loader, ReadFlags, ReadStates, ReadSegments, FailLoad, Miss
    <3>2. load[j][g].pc = "store" /\ load[j][g].env \in Envs
      BY <3>1 DEF StoreRuleset, LifeInv
    <3>3. j = i /\ load[i][g].env = e /\ cache'[i][e] = load[i][g].rs
      BY <2>3, <3>1, <3>2 DEF StoreRuleset, TypeOK
    <3>4. ~Invalidate(i)
      BY <2>1 DEF Invalidate, TypeOK
    <3> QED
      BY <3>2, <3>3, <3>4
  <2> QED
    BY <2>2, <2>3
<1>7. CASE UNCHANGED vars
  BY <1>1, <1>7 DEF vars
<1> QED
  BY <1>2, <1>3, <1>4, <1>5, <1>6, <1>7 DEF Next, Listener

LEMMA LoadInvStep == IInv /\ [Next]_vars => LoadInv'
<1> SUFFICES ASSUME IInv, [Next]_vars, NEW i \in Instances, NEW h \in Handlers,
                    conn'[i] = "listening", load'[i][h].pc \in {"segments", "store"}
             PROVE  Covered(i, load[i][h].env, load[i][h].rs)'
  BY DEF LoadInv
<1> USE DEF IInv
<1>1. CASE load'[i][h].rs.crossed
  BY <1>1 DEF Covered
<1>2. CASE /\ load[i][h].pc = "states" /\ states' = states
           /\ load'[i][h].env = load[i][h].env
           /\ load'[i][h].rs.states = states[load[i][h].env]
           /\ UNCHANGED <<told, hand, phase, conn>>
  <2> DEFINE e == load[i][h].env
  <2>1. e \in Envs
    BY <1>2 DEF LifeInv
  <2>2. told'[i][e] <= states[e]
    BY <1>2, <2>1 DEF VersionInv
  <2>3. phase'[i] = "deleted" /\ hand'[i].env = e => hand'[i].ver <= states[e]
    BY <1>2 DEF VersionInv, HandInv
  <2> QED
    BY <1>2, <2>2, <2>3 DEF Covered
<1>3. CASE /\ load[i][h].pc \in {"segments", "store"}
           /\ load'[i][h].env = load[i][h].env
           /\ load'[i][h].rs.states = load[i][h].rs.states
           /\ load'[i][h].rs.crossed = load[i][h].rs.crossed
           /\ ~(Invalidate(i) /\ hand[i].env = load[i][h].env)
  <2>1. conn[i] = "listening"
    BY <1>3, ListeningStep DEF LifeInv
  <2>2. load[i][h].env \in Envs
    BY <1>3 DEF LifeInv
  <2>3. Covered(i, load[i][h].env, load[i][h].rs)
    BY <1>3, <2>1 DEF LoadInv
  <2>4. \A e \in Envs : \A rs :
           ~(Invalidate(i) /\ hand[i].env = e) /\ Covered(i, e, rs) => Covered(i, e, rs)'
    BY <2>1, CoveredStep
  <2> QED
    BY <1>3, <2>2, <2>3, <2>4 DEF Covered
<1> QED
  BY <1>1, <1>2, <1>3, LoadAfter

LEMMA CacheInvStep == IInv /\ [Next]_vars => CacheInv'
<1> SUFFICES ASSUME IInv, [Next]_vars, NEW i \in Instances, NEW e \in Envs,
                    conn'[i] = "listening", cache'[i][e] # None
             PROVE  Covered(i, e, cache[i][e])'
  BY DEF CacheInv
<1> USE DEF IInv
<1>0. ASSUME conn[i] = "listening", ~(Invalidate(i) /\ hand[i].env = e)
      PROVE  \A rs : Covered(i, e, rs) => Covered(i, e, rs)'
  BY <1>0, CoveredStep
<1>1. CASE cache'[i][e] = cache[i][e] /\ ~(Invalidate(i) /\ hand[i].env = e)
  <2>1. conn[i] = "listening"
    BY <1>1, ListeningStep DEF LifeInv
  <2>2. Covered(i, e, cache[i][e])
    BY <1>1, <2>1 DEF CacheInv
  <2> QED
    BY <1>0, <1>1, <2>1, <2>2 DEF Covered
<1>2. ASSUME NEW h \in Handlers, load[i][h].pc = "store", load[i][h].env = e,
             cache'[i][e] = load[i][h].rs, ~Invalidate(i)
      PROVE  Covered(i, e, cache[i][e])'
  <2>1. conn[i] = "listening"
    BY <1>2, ListeningStep DEF LifeInv
  <2>2. Covered(i, e, load[i][h].rs)
    BY <1>2, <2>1 DEF LoadInv
  <2> QED
    BY <1>0, <1>2, <2>1, <2>2 DEF Covered
<1> QED
  BY <1>1, <1>2, CacheAfter

-----------------------------------------------------------------------------
LEMMA InitIInv == Init => IInv
<1> SUFFICES ASSUME Init PROVE IInv
  OBVIOUS
<1>1. EmptyRuleset \in Ruleset /\ NoLoad \in Load /\ NoLoad.pc = "idle"
  BY DEF EmptyRuleset, NoLoad, Ruleset, Load, LoadStep
<1>2. TypeOK
  BY <1>1 DEF Init, TypeOK
<1>3. HandInv /\ VersionInv /\ OrderInv
  BY DEF Init, HandInv, VersionInv, OrderInv
<1>4. LifeInv /\ LoadInv /\ CacheInv
  BY <1>1 DEF Init, LifeInv, LoadInv, CacheInv
<1> QED
  BY <1>2, <1>3, <1>4 DEF IInv

\* IInv holds in every reachable state: it is the strengthening that makes the
\* properties below inductive, by covering the loads in flight (LoadInv) as
\* well as what is cached (CacheInv), those of a load cut short included.
THEOREM Inductive == Spec => []IInv
<1>1. IInv /\ [Next]_vars => IInv'
  <2> SUFFICES ASSUME IInv, [Next]_vars PROVE IInv'
    OBVIOUS
  <2>1. TypeOK' /\ HandInv' /\ VersionInv' /\ OrderInv' /\ LifeInv'
    BY TypeStep, HandStep, VersionStep, OrderStep, LifeStep DEF IInv
  <2> QED
    BY <2>1, LoadInvStep, CacheInvStep DEF IInv
<1> QED
  BY InitIInv, <1>1, PTL DEF Spec

\* Every variable of the cache, the queues and the loads keeps its type.
THEOREM TypeCorrect == Spec => []TypeOK
BY Inductive, PTL DEF IInv

\* For any number of processes, requests and environments: while a process
\* listens, a cached ruleset whose states are not the table's is about to be
\* dropped, was stored by a load that an invalidation crossed, or misses current
\* rows because a query of its load ended early.
THEOREM StaleStateIsExplained == Spec => []StaleStateExplained
<1>1. IInv => StaleStateExplained
  <2> SUFFICES ASSUME IInv, NEW i \in Instances, NEW e \in Envs,
                      conn[i] = "listening", StateStale(i, e)
               PROVE  \/ Pending(i, e)
                      \/ cache[i][e].crossed
                      \/ cache[i][e].cut /\ ~Behind(i, e)
    BY DEF StaleStateExplained
  <2>1. Covered(i, e, cache[i][e])
    BY DEF IInv, CacheInv, StateStale, Behind
  <2> QED
    BY <2>1 DEF Covered, StateStale, Behind
<1> QED
  BY Inductive, <1>1, PTL

\* For any number of processes, requests and environments: the rows of the
\* uncrossed ruleset a listening process serves, as many as its load got, are
\* never of an older version than what the process has announced.
THEOREM EventThenFreshHolds == Spec => []EventThenFresh
<1>1. IInv => EventThenFresh
  BY DEF IInv, CacheInv, Covered, EventThenFresh
<1> QED
  BY Inductive, <1>1, PTL

\* For any number of processes, requests and environments: the events of an environment leave a
\* process in the order of the changes they announce.  OrderInv is what makes it so: what the
\* callback holds is as new as everything announced.
THEOREM TellsAreForward == Spec => TellsForward
<1>1. ASSUME IInv, [Next]_vars, NEW i \in Instances, conn'[i] # "down", NEW e \in Envs
      PROVE  told'[i][e] >= told[i][e]
  <2>0. told \in [Instances -> [Envs -> Nat]]
    BY <1>1 DEF IInv, TypeOK
  <2>1. CASE told' = told
    BY <2>0, <2>1
  <2>2. ASSUME NEW j \in Instances, Stop(j) PROVE told'[i][e] >= told[i][e]
    <3>1. i # j
      BY <1>1, <2>2 DEF Stop, IInv, TypeOK
    <3>2. told'[i] = told[i]
      BY <2>0, <2>2, <3>1 DEF Stop, Blank
    <3> QED
      BY <2>0, <3>2
  <2>3. ASSUME NEW j \in Instances, Announce(j) PROVE told'[i][e] >= told[i][e]
    <3>1. hand[j] # None /\ hand[j] \in Notification
      BY <1>1, <2>3 DEF Announce, IInv, HandInv, TypeOK
    <3>2. hand[j].ver \in Nat /\ hand[j].env \in Envs /\ told[j][hand[j].env] <= hand[j].ver
      BY <1>1, <3>1 DEF IInv, OrderInv, Notification
    <3>3. told' = [told EXCEPT ![j][hand[j].env] = hand[j].ver]
      BY <2>3 DEF Announce
    <3>4. told'[i][e] = told[i][e] \/ (i = j /\ e = hand[j].env /\ told'[i][e] = hand[j].ver)
      BY <2>0, <3>2, <3>3
    <3> QED
      BY <2>0, <3>2, <3>4
  <2>4. ASSUME NEW j \in Instances, NEW h \in Handlers, Request(j, h) PROVE told' = told
    BY <2>4, RequestFrame
  <2>5. Write => told' = told
    BY DEF Write, WriteFlag, WriteSegment, UpsertFlagState, DeleteFlag
  <2>6. ASSUME NEW j \in Instances, Start(j) \/ LoseConnection(j) \/ Receive(j) \/ Invalidate(j)
        PROVE  told' = told
    BY <2>6 DEF Start, LoseConnection, Receive, Invalidate
  <2>7. UNCHANGED vars => told' = told
    BY DEF vars
  <2> QED
    BY <1>1, <2>1, <2>2, <2>3, <2>4, <2>5, <2>6, <2>7 DEF Next, Life, Listener
<1>2. IInv /\ [Next]_vars => [\A i \in Instances : conn'[i] # "down" =>
                                \A e \in Envs : told'[i][e] >= told[i][e]]_vars
  BY <1>1
<1> QED
  BY Inductive, <1>2, PTL DEF Spec, TellsForward
=============================================================================
