---------------------------- MODULE SystemProofs ----------------------------
(***************************************************************************)
(* Proofs about the evaluation engine (EvalEngine), and about the parts of   *)
(* the server put together: the specification that the system run checks     *)
(* is, for each part, the part's own specification, so what is proved of the *)
(* part holds.                                                               *)
(***************************************************************************)
EXTENDS MCSystem, RecordsProofs, OperationsProofs, JanitorProofs

-----------------------------------------------------------------------------
(***************************************************************************)
(* The evaluation engine.                                                   *)
(***************************************************************************)
\* The keys are ordered: two flags have two places.
LEMMA PositionsDiffer ==
    \A f, g \in EngineFlags : /\ Position(f) \in Nat
                              /\ Position(f) = Position(g) => f = g
<1>1. DOMAIN FlagKeys \subseteq Nat
  BY EngineAssumption DEF EngineAssumption
<1>2. ASSUME NEW f \in EngineFlags
      PROVE  Position(f) \in DOMAIN FlagKeys /\ FlagKeys[Position(f)] = f
  <2>1. \E i \in DOMAIN FlagKeys : FlagKeys[i] = f
    BY DEF EngineFlags, ToSet
  <2> QED
    BY <2>1 DEF Position
<1> QED
  BY <1>1, <1>2

\* Of two flags of a group, one at most has the lower bucket or the smaller key.
LEMMA OneWins ==
    ASSUME EngineTypeOK, NEW f \in EngineFlags, NEW g \in EngineFlags,
           ruleset[f].group, ruleset[g].group, Enabled(f), Enabled(g),
           winsMutexGroup(f), winsMutexGroup(g)
    PROVE  f = g
<1> SUFFICES ASSUME f # g PROVE FALSE
  OBVIOUS
<1>1. bucket[f] \in Nat /\ bucket[g] \in Nat
  BY EngineAssumption DEF EngineTypeOK, EngineAssumption
<1>2. bucket[f] < bucket[g] \/ (bucket[f] = bucket[g] /\ Position(f) < Position(g))
  BY DEF winsMutexGroup
<1>3. bucket[g] < bucket[f] \/ (bucket[g] = bucket[f] /\ Position(g) < Position(f))
  BY DEF winsMutexGroup
<1> QED
  BY <1>1, <1>2, <1>3, PositionsDiffer

\* What is served was not refused.
LEMMA ServedWins ==
    ASSUME NEW f \in EngineFlags, Served(f)
    PROVE  Enabled(f) /\ (ruleset[f].group => winsMutexGroup(f))
<1>1. ASSUME ~ruleset[f].exists PROVE FALSE
  <2>1. Evaluate(f) = Off("NOT_FOUND")
    BY <1>1, Zenon DEF Evaluate, evaluate, evaluateBy
  <2> QED
    BY <2>1 DEF Served, Off, Result
<1>2. ASSUME ruleset[f].exists, ruleset[f].expired \/ ~ruleset[f].enabled PROVE FALSE
  <2>1. Evaluate(f) = Off("DISABLED")
    BY <1>2, Zenon DEF Evaluate, evaluate, evaluateBy
  <2> QED
    BY <2>1 DEF Served, Off, Result
<1>3. ASSUME ruleset[f].exists, ~ruleset[f].expired, ruleset[f].enabled, ruleset[f].group, ~winsMutexGroup(f)
      PROVE FALSE
  <2>1. Evaluate(f) = Off("MUTUALLY_EXCLUDED")
    BY <1>3, Zenon DEF Evaluate, evaluate, evaluateBy
  <2> QED
    BY <2>1 DEF Served, Off, Result
<1> QED
  BY <1>1, <1>2, <1>3 DEF Enabled

LEMMA NewFlagRow == NewFlag \in FlagRow
<1>1. <<>> \in Prereqs
  <2>1. <<>> \in [1..0 -> EngineFlags] /\ IsInjective(<<>>)
    BY DEF IsInjective
  <2>2. 0 \in 0..MaxPrereqs
    BY EngineAssumption DEF EngineAssumption
  <2> QED
    BY <2>1, <2>2 DEF Prereqs
<1>2. 0 \in 0..Full /\ <<>> \in RuleLists /\ <<>> \in VariantLists
  BY EngineAssumption DEF EngineAssumption
<1> QED
  BY <1>1, <1>2 DEF NewFlag, FlagRow

LEMMA EditKeeps ==
    ASSUME EngineTypeOK, NEW f \in EngineFlags, NEW new \in FlagRow, Edit(f, new)
    PROVE  EngineTypeOK'
<1>1. engineEdits' \in 0..MaxEngineEdits
  BY EngineAssumption DEF EngineTypeOK, Edit, EngineAssumption
<1>2. ruleset' \in [EngineFlags -> FlagRow] /\ bucket' = bucket
  BY DEF EngineTypeOK, Edit
<1> QED
  BY <1>1, <1>2 DEF EngineTypeOK

LEMMA EngineKeeps == EngineTypeOK /\ [EngineNext]_engineVars => EngineTypeOK'
<1> SUFFICES ASSUME EngineTypeOK, [EngineNext]_engineVars PROVE EngineTypeOK'
  OBVIOUS
<1>1. CASE UNCHANGED engineVars
  BY <1>1 DEF engineVars, EngineTypeOK
<1>2. ASSUME NEW f \in EngineFlags, UpdateFlag(f) \/ UpdateFlagState(f) \/ RemoveFlag(f) \/ CreateFlag(f)
      PROVE EngineTypeOK'
  <2> DEFINE r == ruleset[f]
  <2>0. r \in FlagRow
    BY DEF EngineTypeOK
  <2>1. ASSUME NEW p \in Prereqs, NEW g \in BOOLEAN PROVE [r EXCEPT !.prereqs = p, !.group = g] \in FlagRow
    BY <2>0 DEF FlagRow
  <2>2. [r EXCEPT !.expired = ~@] \in FlagRow
    BY <2>0 DEF FlagRow
  <2>3. [r EXCEPT !.enabled = ~@] \in FlagRow
    BY <2>0 DEF FlagRow
  <2>4. ASSUME NEW p \in 0..Full PROVE [r EXCEPT !.rollout = p] \in FlagRow
    BY <2>0 DEF FlagRow
  <2>5. ASSUME NEW rs \in RuleLists PROVE [r EXCEPT !.rules = rs] \in FlagRow
    BY <2>0 DEF FlagRow
  <2>6. ASSUME NEW vs \in VariantLists PROVE [r EXCEPT !.variants = vs] \in FlagRow
    BY <2>0 DEF FlagRow
  <2>7. [r EXCEPT !.exists = FALSE] \in FlagRow
    BY <2>0 DEF FlagRow
  <2>8. ASSUME NEW b \in BOOLEAN, NEW o \in BOOLEAN PROVE [NewFlag EXCEPT !.bool = b, !.override = o] \in FlagRow
    BY NewFlagRow DEF FlagRow
  <2>9. PICK new \in FlagRow : Edit(f, new)
    <3>1. CASE UpdateFlag(f)
      BY <3>1, <2>1, <2>2 DEF UpdateFlag
    <3>2. CASE UpdateFlagState(f)
      BY <3>2, <2>3, <2>4, <2>5, <2>6 DEF UpdateFlagState
    <3>3. CASE RemoveFlag(f) \/ CreateFlag(f)
      BY <3>3, <2>7, <2>8 DEF RemoveFlag, CreateFlag
    <3> QED
      BY <1>2, <3>1, <3>2, <3>3
  <2> QED
    BY <2>9, EditKeeps
<1> QED
  BY <1>1, <1>2 DEF EngineNext

LEMMA InitEngine == EngineInit => EngineTypeOK
BY NewFlagRow, EngineAssumption DEF EngineInit, EngineTypeOK, EngineAssumption

\* The rows of the flags keep their types under every edit (engine.go's inputs).
THEOREM EngineTypes == EngineSpec => []EngineTypeOK
BY InitEngine, EngineKeeps, PTL DEF EngineSpec

LEMMA TypedExclusive == EngineTypeOK => MutexExclusive
BY OneWins, ServedWins DEF MutexExclusive

\* Of the flags of a mutual exclusion group one at most serves anything but its
\* default to a user, whatever the hashes, the edits and their order (engine.go:
\* winsMutexGroup).
THEOREM MutexHolds == EngineSpec => []MutexExclusive
BY EngineTypes, TypedExclusive, PTL

-----------------------------------------------------------------------------
(***************************************************************************)
(* Prerequisites.  The loops over them call each other, so what they return  *)
(* is defined only because every call has less left than its caller; what is *)
(* said of a loop is proved for the one with the least left that fails it.   *)
(***************************************************************************)
LEMMA FlagsFinite == IsFiniteSet(EngineFlags)
<1>1. FlagKeys \in Seq(EngineFlags)
  BY EngineAssumption DEF EngineAssumption
<1>2. DOMAIN FlagKeys = 1..Len(FlagKeys) /\ Len(FlagKeys) \in Nat
  BY <1>1
<1>3. IsFiniteSet(1..Len(FlagKeys))
  BY <1>2, FS_Interval
<1>4. FlagKeys \in Surjection(1..Len(FlagKeys), EngineFlags)
  BY <1>1, <1>2 DEF EngineFlags, ToSet, Surjection
<1> QED
  BY <1>3, <1>4, FS_Surjection

\* The flags that are not in the map, and how much of the evaluation is left at most: every
\* loop that is begun has one flag more in the map, or is further on.
Unvisited(V) == Cardinality(EngineFlags \ V)
Width == MaxPrereqs + 2
LeftOf(l) == Unvisited(l[2]) * Width + (MaxPrereqs + 1 - l[3])

LEMMA EngineConstants == MaxPrereqs \in Nat /\ Width \in Nat /\ Width >= 2
BY EngineAssumption DEF EngineAssumption, Width

LEMMA UnvisitedFacts ==
    ASSUME NEW V \in SUBSET EngineFlags, NEW W \in SUBSET EngineFlags, V \subseteq W
    PROVE  /\ Unvisited(V) \in Nat /\ Unvisited(W) \in Nat /\ Unvisited(W) <= Unvisited(V)
           /\ \A g \in EngineFlags \ V : Unvisited(V \cup {g}) \in Nat /\ Unvisited(V \cup {g}) + 1 = Unvisited(V)
<1>1. IsFiniteSet(EngineFlags \ V) /\ IsFiniteSet(EngineFlags \ W)
  BY FlagsFinite, FS_Subset
<1>2. EngineFlags \ W \subseteq EngineFlags \ V
  OBVIOUS
<1>3. Unvisited(V) \in Nat /\ Unvisited(W) \in Nat /\ Unvisited(W) <= Unvisited(V)
  BY <1>1, <1>2, FS_CardinalityType, FS_Subset DEF Unvisited
<1>4. ASSUME NEW g \in EngineFlags \ V
      PROVE  Unvisited(V \cup {g}) \in Nat /\ Unvisited(V \cup {g}) + 1 = Unvisited(V)
  <2>1. EngineFlags \ (V \cup {g}) = (EngineFlags \ V) \ {g}
    OBVIOUS
  <2>2. Cardinality((EngineFlags \ V) \ {g}) = Cardinality(EngineFlags \ V) - 1
    BY <1>1, <1>4, FS_RemoveElement
  <2>3. IsFiniteSet((EngineFlags \ V) \ {g})
    BY <1>1, FS_Subset
  <2>4. Cardinality((EngineFlags \ V) \ {g}) \in Nat
    BY <2>3, FS_CardinalityType
  <2>5. Unvisited(V \cup {g}) = Cardinality((EngineFlags \ V) \ {g})
    BY <2>1, Zenon DEF Unvisited
  <2>6. Unvisited(V \cup {g}) = Unvisited(V) - 1
    BY <2>2, <2>5, Zenon DEF Unvisited
  <2> QED
    BY <2>4, <2>5, <2>6, <1>3
<1> QED
  BY <1>3, <1>4

LEMMA Products ==
    ASSUME NEW a \in Nat, NEW b \in Nat, NEW w \in Nat
    PROVE  /\ a * w \in Nat
           /\ a <= b => a * w <= b * w
           /\ a + 1 = b => a * w + w = b * w
<1>1. a * w \in Nat
  OBVIOUS
<1>2. a <= b => a * w <= b * w
  OBVIOUS
<1>3. a + 1 = b => a * w + w = b * w
  OBVIOUS
<1> QED
  BY <1>1, <1>2, <1>3

LEMMA LoopFields ==
    ASSUME NEW l \in Loops
    PROVE  l[1] \in EngineFlags /\ l[2] \in SUBSET EngineFlags /\ l[3] \in 1..(MaxPrereqs + 1)
BY DEF Loops

LEMMA LeftType == ASSUME NEW l \in Loops PROVE LeftOf(l) \in Nat
<1>1. Unvisited(l[2]) \in Nat
  BY LoopFields, UnvisitedFacts
<1>2. Unvisited(l[2]) * Width \in Nat
  BY <1>1, EngineConstants, Products
<1> QED
  BY <1>2, LoopFields, EngineConstants DEF LeftOf

\* The loop over the prerequisites of one that is not in the map has less left.
LEMMA DeeperIsLess ==
    ASSUME NEW l \in Loops, NEW g \in EngineFlags \ l[2]
    PROVE  /\ <<g, l[2] \cup {g}, 1>> \in Loops
           /\ LeftOf(<<g, l[2] \cup {g}, 1>>) < LeftOf(l)
<1> DEFINE u == Unvisited(l[2] \cup {g})
<1>1. l[2] \in SUBSET EngineFlags /\ l[3] \in 1..(MaxPrereqs + 1)
  BY LoopFields
<1>2. u \in Nat /\ Unvisited(l[2]) \in Nat /\ u + 1 = Unvisited(l[2])
  BY <1>1, UnvisitedFacts
<1>3. u * Width \in Nat /\ u * Width + Width = Unvisited(l[2]) * Width
  BY <1>2, EngineConstants, Products
<1>4. <<g, l[2] \cup {g}, 1>> \in Loops
  BY <1>1, EngineConstants DEF Loops
<1>5. LeftOf(<<g, l[2] \cup {g}, 1>>) = u * Width + MaxPrereqs
  BY EngineConstants, <1>3 DEF LeftOf
<1>6. LeftOf(l) = u * Width + Width + (MaxPrereqs + 1 - l[3])
  BY <1>3 DEF LeftOf
<1> HIDE DEF u
<1>7. u * Width + MaxPrereqs < u * Width + Width + (MaxPrereqs + 1 - l[3])
  BY <1>1, <1>3, EngineConstants DEF Width
<1> QED
  BY <1>4, <1>5, <1>6, <1>7

\* And so has the rest of the loop, with a map that has grown.
LEMMA FurtherIsLess ==
    ASSUME NEW l \in Loops, l[3] <= MaxPrereqs, NEW W \in SUBSET EngineFlags, l[2] \subseteq W
    PROVE  /\ <<l[1], W, l[3] + 1>> \in Loops
           /\ LeftOf(<<l[1], W, l[3] + 1>>) < LeftOf(l)
<1> DEFINE u == Unvisited(W)  v == Unvisited(l[2])
<1>1. l[1] \in EngineFlags /\ l[2] \in SUBSET EngineFlags /\ l[3] \in 1..(MaxPrereqs + 1)
  BY LoopFields
<1>2. u \in Nat /\ v \in Nat /\ u <= v
  BY <1>1, UnvisitedFacts
<1>3. u * Width \in Nat /\ v * Width \in Nat /\ u * Width <= v * Width
  BY <1>2, EngineConstants, Products
<1>4. <<l[1], W, l[3] + 1>> \in Loops
  BY <1>1, EngineConstants DEF Loops
<1>5. LeftOf(<<l[1], W, l[3] + 1>>) = u * Width + (MaxPrereqs + 1 - (l[3] + 1))
  BY DEF LeftOf
<1>6. LeftOf(l) = v * Width + (MaxPrereqs + 1 - l[3])
  BY DEF LeftOf
<1> HIDE DEF u, v
<1>7. u * Width + (MaxPrereqs + 1 - (l[3] + 1)) < v * Width + (MaxPrereqs + 1 - l[3])
  BY <1>1, <1>3, EngineConstants
<1> QED
  BY <1>4, <1>5, <1>6, <1>7

-----------------------------------------------------------------------------
\* What a loop returns: whether all passed, and the map.
Outcomes == BOOLEAN \X (SUBSET EngineFlags)
Returns(l, o) == o \in Outcomes /\ l[2] \subseteq o[2]

\* What needs says of every loop that has less left than l is an outcome.
LessReturns(needs, l) == \A x \in Loops : LeftOf(x) < LeftOf(l) => Returns(x, needs[x])
Agree(needs, other, l) == \A x \in Loops : LeftOf(x) < LeftOf(l) => needs[x] = other[x]

LEMMA OutcomeFacts ==
    ASSUME NEW b \in BOOLEAN, NEW V \in SUBSET EngineFlags
    PROVE  <<b, V>> \in Outcomes /\ <<b, V>>[1] = b /\ <<b, V>>[2] = V
BY Zenon DEF Outcomes

LEMMA PrereqFacts ==
    ASSUME EngineTypeOK, NEW l \in Loops
    PROVE  /\ Len(ruleset[l[1]].prereqs) \in 0..MaxPrereqs
           /\ l[3] <= Len(ruleset[l[1]].prereqs) => ruleset[l[1]].prereqs[l[3]] \in EngineFlags
<1> DEFINE p == ruleset[l[1]].prereqs
<1>1. p \in Prereqs
  BY LoopFields DEF EngineTypeOK, FlagRow
<1>2. PICK n \in 0..MaxPrereqs : p \in [1..n -> EngineFlags]
  BY <1>1 DEF Prereqs
<1>3. Len(p) = n /\ n \in Nat
  BY <1>2, EngineConstants
<1> HIDE DEF p
<1>4. l[3] <= Len(p) => p[l[3]] \in EngineFlags
  BY <1>2, <1>3, LoopFields, EngineConstants
<1> QED
  BY <1>2, <1>3, <1>4 DEF p

\* One evaluation, given the loops with less left: it returns a map that has only grown.
LEMMA EvaluateFacts ==
    ASSUME NEW l \in Loops, NEW g \in EngineFlags \ l[2], NEW needs, NEW other,
           LessReturns(needs, l), Agree(needs, other, l)
    PROVE  /\ evaluateBy(g, l[2], needs)[2] \in SUBSET EngineFlags
           /\ l[2] \subseteq evaluateBy(g, l[2], needs)[2]
           /\ evaluateBy(g, l[2], needs) = evaluateBy(g, l[2], other)
<1> DEFINE x == <<g, l[2] \cup {g}, 1>>
<1>1. x \in Loops /\ LeftOf(x) < LeftOf(l)
  BY DeeperIsLess
<1>2. needs[x] = other[x] /\ Returns(x, needs[x])
  BY <1>1 DEF LessReturns, Agree
<1>3. needs[x][2] \in SUBSET EngineFlags /\ l[2] \subseteq needs[x][2]
  BY <1>2 DEF Returns, Outcomes
<1>4. l[2] \in SUBSET EngineFlags
  BY LoopFields
<1> HIDE DEF x
<1> DEFINE r == ruleset[g]
<1>5. CASE ~r.exists \/ r.expired \/ ~r.enabled \/ (r.group /\ ~winsMutexGroup(g)) \/ r.prereqs = <<>>
  BY <1>5, <1>4 DEF evaluateBy
<1>6. CASE ~(~r.exists \/ r.expired \/ ~r.enabled \/ (r.group /\ ~winsMutexGroup(g)) \/ r.prereqs = <<>>)
  <2>1. \A n : evaluateBy(g, l[2], n) = <<IF n[x][1] THEN Serve(g) ELSE Off("PREREQUISITE_FAILED"), n[x][2]>>
    BY <1>6 DEF evaluateBy, x
  <2>2. \A n : evaluateBy(g, l[2], n)[2] = n[x][2]
    <3>1. \A a, b : <<a, b>>[2] = b
      OBVIOUS
    <3> DEFINE so(n) == IF n[x][1] THEN Serve(g) ELSE Off("PREREQUISITE_FAILED")
    <3>2. \A n : evaluateBy(g, l[2], n) = <<so(n), n[x][2]>>
      BY <2>1, Zenon
    <3> HIDE DEF so
    <3> QED
      BY <3>1, <3>2
  <2>3. evaluateBy(g, l[2], needs) = evaluateBy(g, l[2], other)
    BY <2>1, <1>2, Zenon
  <2> QED
    BY <2>2, <2>3, <1>3, Zenon
<1> QED
  BY <1>5, <1>6

\* The same of a loop.
LEMMA LoopFacts ==
    ASSUME EngineTypeOK, NEW l \in Loops, NEW needs, NEW other, LessReturns(needs, l), Agree(needs, other, l)
    PROVE  Returns(l, LoopFrom(l, needs)) /\ LoopFrom(l, needs) = LoopFrom(l, other)
<1> DEFINE p == ruleset[l[1]].prereqs  g == p[l[3]]
           got(n) == evaluateBy(g, l[2], n)
           rest(n) == <<l[1], got(n)[2], l[3] + 1>>
<1>1. l[1] \in EngineFlags /\ l[2] \in SUBSET EngineFlags /\ l[3] \in 1..(MaxPrereqs + 1)
  BY LoopFields
<1>2. CASE l[3] > Len(p)
  <2>0. ~(l[3] <= Len(p))
    <3>1. Len(p) \in 0..MaxPrereqs
      BY PrereqFacts
    <3> HIDE DEF p
    <3> QED
      BY <3>1, <1>1, <1>2, EngineConstants
  <2>1. \A n : LoopFrom(l, n) = <<TRUE, l[2]>>
    BY <1>2, <2>0, Zenon DEF LoopFrom
  <2>2. Returns(l, <<TRUE, l[2]>>)
    BY <1>1, OutcomeFacts, Zenon DEF Returns
  <2> QED
    BY <2>1, <2>2, Zenon
<1>3. CASE ~(l[3] > Len(p)) /\ g \in l[2]
  <2>0. l[3] <= Len(p)
    BY <1>3, <1>1, PrereqFacts, EngineConstants
  <2>1. \A n : LoopFrom(l, n) = <<FALSE, l[2]>>
    BY <1>3, <2>0 DEF LoopFrom
  <2>2. Returns(l, <<FALSE, l[2]>>)
    BY <1>1, OutcomeFacts, Zenon DEF Returns
  <2> QED
    BY <2>1, <2>2, Zenon
<1>4. CASE ~(l[3] > Len(p)) /\ g \notin l[2]
  <2>1. l[3] <= Len(p) /\ l[3] <= MaxPrereqs /\ g \in EngineFlags \ l[2]
    BY <1>4, <1>1, PrereqFacts, EngineConstants
  <2>2. \A n : LoopFrom(l, n) = IF Passes(g, got(n)[1]) THEN n[rest(n)] ELSE <<FALSE, got(n)[2]>>
    BY <1>4 DEF LoopFrom
  <2>3. got(needs)[2] \in SUBSET EngineFlags /\ l[2] \subseteq got(needs)[2] /\ got(needs) = got(other)
    BY <2>1, EvaluateFacts
  <2> HIDE DEF got
  <2>4. rest(needs) \in Loops /\ LeftOf(rest(needs)) < LeftOf(l)
    BY <2>1, <2>3, FurtherIsLess
  <2>5. needs[rest(needs)] = other[rest(needs)] /\ Returns(rest(needs), needs[rest(needs)])
    BY <2>4 DEF LessReturns, Agree
  <2>6. rest(other) = rest(needs) /\ rest(needs)[2] = got(needs)[2]
    BY <2>3
  <2> HIDE DEF rest, p, g
  <2>7. LoopFrom(l, needs) = LoopFrom(l, other)
    BY <2>2, <2>3, <2>5, <2>6
  <2>8. CASE Passes(g, got(needs)[1])
    <3>1. LoopFrom(l, needs) = needs[rest(needs)]
      BY <2>2, <2>8
    <3> QED
      BY <3>1, <2>3, <2>5, <2>6, <2>7 DEF Returns
  <2>9. CASE ~Passes(g, got(needs)[1])
    <3>1. LoopFrom(l, needs) = <<FALSE, got(needs)[2]>>
      BY <2>2, <2>9
    <3>2. Returns(l, <<FALSE, got(needs)[2]>>)
      BY <2>3, OutcomeFacts, Zenon DEF Returns
    <3> QED
      BY <3>1, <3>2, <2>7, Zenon
  <2> QED
    BY <2>8, <2>9
<1> QED
  BY <1>2, <1>3, <1>4

-----------------------------------------------------------------------------
(* Needs is well defined: there is one function for the loops with less than k left. *)
Upto(k) == {l \in Loops : LeftOf(l) < k}
SolvesUpto(needs, k) ==
    \A l \in Upto(k) : needs[l] = LoopFrom(l, needs) /\ Returns(l, needs[l])

LEMMA SolveMore ==
    ASSUME EngineTypeOK, NEW k \in Nat, NEW needs, SolvesUpto(needs, k)
    PROVE  SolvesUpto([l \in Upto(k + 1) |-> LoopFrom(l, needs)], k + 1)
<1> DEFINE more == [l \in Upto(k + 1) |-> LoopFrom(l, needs)]
<1>1. ASSUME NEW l \in Upto(k + 1)
      PROVE  more[l] = LoopFrom(l, more) /\ Returns(l, more[l])
  <2>1. l \in Loops /\ LeftOf(l) < k + 1 /\ LeftOf(l) \in Nat
    BY LeftType DEF Upto
  <2>2. ASSUME NEW x \in Loops, LeftOf(x) < LeftOf(l)
        PROVE  needs[x] = more[x] /\ Returns(x, needs[x])
    <3>1. LeftOf(x) < k /\ LeftOf(x) < k + 1
      BY <2>1, <2>2, LeftType
    <3>2. x \in Upto(k) /\ x \in Upto(k + 1)
      BY <3>1 DEF Upto
    <3>3. more[x] = LoopFrom(x, needs)
      BY <3>2
    <3> QED
      BY <3>2, <3>3 DEF SolvesUpto
  <2> HIDE DEF more
  <2>3. LessReturns(needs, l) /\ Agree(needs, more, l)
    BY <2>2 DEF LessReturns, Agree
  <2>4. Returns(l, LoopFrom(l, needs)) /\ LoopFrom(l, needs) = LoopFrom(l, more)
    BY <2>1, <2>3, LoopFacts
  <2>5. more[l] = LoopFrom(l, needs)
    BY DEF more
  <2> QED
    BY <2>4, <2>5
<1> QED
  BY <1>1 DEF SolvesUpto

LEMMA SolveAny ==
    ASSUME EngineTypeOK, NEW k \in Nat
    PROVE  \E needs : SolvesUpto(needs, k)
<1> DEFINE Bad == {n \in Nat : ~\E needs : SolvesUpto(needs, n)}
<1>1. ASSUME Bad # {} PROVE FALSE
  <2>1. PICK n \in Bad : \A m \in Bad : n <= m
    BY <1>1, LeastExists
  <2>2. n # 0
    <3>1. Upto(0) = {}
      BY LeftType DEF Upto
    <3>2. \A needs : SolvesUpto(needs, 0)
      BY <3>1 DEF SolvesUpto
    <3> QED
      BY <3>2
  <2>3. n - 1 \in Nat /\ n - 1 \notin Bad /\ n = (n - 1) + 1
    BY <2>1, <2>2
  <2>4. PICK needs : SolvesUpto(needs, n - 1)
    BY <2>3
  <2>5. SolvesUpto([l \in Upto((n - 1) + 1) |-> LoopFrom(l, needs)], (n - 1) + 1)
    BY <2>3, <2>4, SolveMore
  <2>6. \E new : SolvesUpto(new, n)
    BY <2>3, <2>5
  <2> QED
    BY <2>1, <2>6
<1> QED
  BY <1>1

LEMMA NeedsSolves == EngineTypeOK => \A l \in Loops : Needs[l] = LoopFrom(l, Needs)
<1> SUFFICES ASSUME EngineTypeOK PROVE \A l \in Loops : Needs[l] = LoopFrom(l, Needs)
  OBVIOUS
<1> DEFINE all == Unvisited({}) * Width + Width
<1>1. all \in Nat /\ \A l \in Loops : LeftOf(l) < all
  <2>1. Unvisited({}) \in Nat
    BY UnvisitedFacts
  <2>2. Unvisited({}) * Width \in Nat
    BY <2>1, EngineConstants, Products
  <2>3. ASSUME NEW l \in Loops PROVE LeftOf(l) < all
    <3>1. l[2] \in SUBSET EngineFlags /\ l[3] \in 1..(MaxPrereqs + 1)
      BY LoopFields
    <3>2. Unvisited(l[2]) \in Nat /\ Unvisited(l[2]) <= Unvisited({})
      BY <3>1, UnvisitedFacts
    <3>3. Unvisited(l[2]) * Width \in Nat /\ Unvisited(l[2]) * Width <= Unvisited({}) * Width
      BY <2>1, <3>2, EngineConstants, Products
    <3> DEFINE u == Unvisited(l[2]) * Width  v == Unvisited({}) * Width
    <3>4. LeftOf(l) = u + (MaxPrereqs + 1 - l[3]) /\ all = v + Width
      BY DEF LeftOf
    <3>5. u \in Nat /\ v \in Nat /\ u <= v
      BY <3>3, <2>2
    <3> HIDE DEF u, v, all
    <3> QED
      BY <3>1, <3>4, <3>5, EngineConstants DEF Width
  <2> QED
    BY <2>2, <2>3, EngineConstants
<1> HIDE DEF all
<1>2. PICK needs : SolvesUpto(needs, all)
  BY <1>1, SolveAny
<1>3. Upto(all) = Loops
  BY <1>1 DEF Upto
<1> DEFINE whole == [l \in Loops |-> needs[l]]
<1>4. ASSUME NEW l \in Loops PROVE whole[l] = LoopFrom(l, whole)
  <2>1. needs[l] = LoopFrom(l, needs)
    BY <1>2, <1>3 DEF SolvesUpto
  <2>2. \A x \in Loops : needs[x] = whole[x] /\ Returns(x, needs[x])
    BY <1>2, <1>3 DEF SolvesUpto
  <2> HIDE DEF whole
  <2>3. LessReturns(needs, l) /\ Agree(needs, whole, l)
    BY <2>2 DEF LessReturns, Agree
  <2>4. LoopFrom(l, needs) = LoopFrom(l, whole)
    BY <2>3, LoopFacts
  <2> QED
    BY <2>1, <2>2, <2>4
<1>5. whole = [l \in Loops |-> LoopFrom(l, whole)]
  <2>1. \A l \in Loops : needs[l] = LoopFrom(l, whole)
    BY <1>4
  <2> QED
    BY <2>1, Zenon
<1> HIDE DEF whole
<1>6. Needs = [l \in Loops |-> LoopFrom(l, Needs)]
  BY <1>5, Zenon DEF Needs
<1> QED
  BY <1>6, Zenon

\* Every loop returns an outcome, with a map that has only grown.
LEMMA NeedsReturns ==
    ASSUME EngineTypeOK PROVE \A l \in Loops : Returns(l, Needs[l])
<1> DEFINE Bad == {l \in Loops : ~Returns(l, Needs[l])}
           Sizes == {LeftOf(l) : l \in Bad}
<1> SUFFICES ASSUME Bad # {} PROVE FALSE
  OBVIOUS
<1>1. Sizes \subseteq Nat /\ Sizes # {}
  BY LeftType
<1>2. PICK m \in Sizes : \A n \in Sizes : m <= n
  BY <1>1, LeastExists
<1>3. PICK l \in Bad : m = LeftOf(l)
  BY <1>2
<1>4. ASSUME NEW x \in Loops, LeftOf(x) < LeftOf(l) PROVE Returns(x, Needs[x])
  <2>1. LeftOf(x) \in Nat /\ LeftOf(l) \in Nat
    BY <1>3, LeftType
  <2>2. LeftOf(x) \notin Sizes
    BY <1>2, <1>3, <1>4, <2>1
  <2> QED
    BY <2>2
<1>5. LessReturns(Needs, l) /\ Agree(Needs, Needs, l)
  BY <1>4 DEF LessReturns, Agree
<1>6. Returns(l, LoopFrom(l, Needs))
  BY <1>3, <1>5, LoopFacts
<1> QED
  BY <1>3, <1>6, NeedsSolves

-----------------------------------------------------------------------------
(* A raised rollout. *)
NeedsOK == \A l \in Loops : Needs[l] = LoopFrom(l, Needs) /\ Returns(l, Needs[l])

LEMMA NeedsHold == EngineTypeOK => NeedsOK
BY NeedsSolves, NeedsReturns DEF NeedsOK

\* Only the rollout of f is another.
OtherThan(f) ==
    /\ bucket' = bucket
    /\ \A g \in EngineFlags \ {f} : ruleset'[g] = ruleset[g]
    /\ \A g \in EngineFlags :
          /\ ruleset'[g].exists = ruleset[g].exists /\ ruleset'[g].bool = ruleset[g].bool
          /\ ruleset'[g].expired = ruleset[g].expired /\ ruleset'[g].enabled = ruleset[g].enabled
          /\ ruleset'[g].group = ruleset[g].group /\ ruleset'[g].prereqs = ruleset[g].prereqs
          /\ ruleset'[g].override = ruleset[g].override /\ ruleset'[g].rules = ruleset[g].rules
          /\ ruleset'[g].variants = ruleset[g].variants

LEMMA OnlyRollout ==
    ASSUME EngineTypeOK, NEW f \in EngineFlags, OnlyRolloutOf(f), bucket' = bucket
    PROVE  OtherThan(f)
<1>1. ruleset \in [EngineFlags -> FlagRow]
  BY DEF EngineTypeOK
<1>2. \A g \in EngineFlags \ {f} : ruleset'[g] = ruleset[g]
  BY <1>1 DEF OnlyRolloutOf
<1>3. PICK n : ruleset'[f] = [ruleset[f] EXCEPT !.rollout = n]
  BY <1>1 DEF OnlyRolloutOf
<1>4. ruleset[f] \in FlagRow
  BY <1>1
<1>5. /\ ruleset'[f].exists = ruleset[f].exists /\ ruleset'[f].bool = ruleset[f].bool
      /\ ruleset'[f].expired = ruleset[f].expired /\ ruleset'[f].enabled = ruleset[f].enabled
      /\ ruleset'[f].group = ruleset[f].group /\ ruleset'[f].prereqs = ruleset[f].prereqs
      /\ ruleset'[f].override = ruleset[f].override /\ ruleset'[f].rules = ruleset[f].rules
      /\ ruleset'[f].variants = ruleset[f].variants
  BY <1>3, <1>4 DEF FlagRow
<1> QED
  BY <1>2, <1>5, Zenon DEF OtherThan

LEMMA WinsSame ==
    ASSUME NEW f \in EngineFlags, OtherThan(f), NEW g \in EngineFlags
    PROVE  winsMutexGroup(g)' <=> winsMutexGroup(g)
BY DEF OtherThan, winsMutexGroup, Enabled

LEMMA PassesSame ==
    ASSUME NEW f \in EngineFlags, OtherThan(f), NEW g \in EngineFlags, NEW r
    PROVE  Passes(g, r)' <=> Passes(g, r)
BY DEF OtherThan, Passes

LEMMA ServeSame ==
    ASSUME NEW f \in EngineFlags, OtherThan(f), NEW g \in EngineFlags \ {f}
    PROVE  Serve(g)' = Serve(g)
<1>1. ruleset'[g] = ruleset[g] /\ bucket' = bucket
  BY DEF OtherThan
<1> QED
  BY <1>1, Zenon DEF Serve, Default, Result

\* One evaluation, of a flag that is not f.
LEMMA EvaluateSame ==
    ASSUME NEW f \in EngineFlags, OtherThan(f), NEW g \in EngineFlags \ {f}, NEW V,
           Needs'[<<g, V \cup {g}, 1>>] = Needs[<<g, V \cup {g}, 1>>]
    PROVE  evaluateBy(g, V, Needs)' = evaluateBy(g, V, Needs)
<1>1. ruleset'[g] = ruleset[g] /\ (winsMutexGroup(g)' <=> winsMutexGroup(g)) /\ Serve(g)' = Serve(g)
  BY WinsSame, ServeSame DEF OtherThan
<1> QED
  BY <1>1 DEF evaluateBy, Off, Result

LEMMA LoopSame ==
    ASSUME EngineTypeOK, NeedsOK, NeedsOK', NEW f \in EngineFlags, OtherThan(f),
           NEW l \in Loops, f \in l[2],
           \A x \in Loops : f \in x[2] /\ LeftOf(x) < LeftOf(l) => Needs'[x] = Needs[x]
    PROVE  Needs'[l] = Needs[l]
<1> DEFINE p == ruleset[l[1]].prereqs  g == p[l[3]]  got == evaluateBy(g, l[2], Needs)
<1>1. l[1] \in EngineFlags /\ l[2] \in SUBSET EngineFlags /\ l[3] \in 1..(MaxPrereqs + 1)
  BY LoopFields
<1>2. ruleset'[l[1]].prereqs = p
  BY <1>1 DEF OtherThan
<1>3. Needs[l] = LoopFrom(l, Needs) /\ Needs'[l] = LoopFrom(l, Needs)'
  BY DEF NeedsOK
<1>4. Len(p) \in 0..MaxPrereqs /\ (l[3] <= Len(p) => g \in EngineFlags)
  BY PrereqFacts
<1>5. CASE l[3] > Len(p)
  <2>1. ~(l[3] <= Len(p))
    BY <1>1, <1>4, <1>5, EngineConstants
  <2>2. LoopFrom(l, Needs) = <<TRUE, l[2]>>
    BY <1>5, <2>1, Zenon DEF LoopFrom
  <2>3. LoopFrom(l, Needs)' = <<TRUE, l[2]>>
    BY <1>2, <1>5, <2>1, Zenon DEF LoopFrom
  <2> QED
    BY <2>2, <2>3, <1>3
<1>6. CASE ~(l[3] > Len(p)) /\ g \in l[2]
  <2>1. l[3] <= Len(p)
    BY <1>1, <1>4, <1>6, EngineConstants
  <2>2. LoopFrom(l, Needs) = <<FALSE, l[2]>>
    BY <1>6, <2>1 DEF LoopFrom
  <2>3. LoopFrom(l, Needs)' = <<FALSE, l[2]>>
    BY <1>2, <1>6, <2>1 DEF LoopFrom
  <2> QED
    BY <2>2, <2>3, <1>3
<1>7. CASE ~(l[3] > Len(p)) /\ g \notin l[2]
  <2>0. PICK h, o : h = g /\ o = got
    OBVIOUS
  <2> DEFINE next == <<l[1], o[2], l[3] + 1>>
  <2>1. l[3] <= Len(p) /\ l[3] <= MaxPrereqs /\ h \in EngineFlags \ l[2] /\ h \in EngineFlags \ {f}
    BY <1>1, <1>4, <1>7, <2>0, EngineConstants
  <2>2. LoopFrom(l, Needs) = IF Passes(h, o[1]) THEN Needs[next] ELSE <<FALSE, o[2]>>
    BY <1>7, <2>0 DEF LoopFrom
  <2>3. Needs'[<<h, l[2] \cup {h}, 1>>] = Needs[<<h, l[2] \cup {h}, 1>>]
    <3>1. <<h, l[2] \cup {h}, 1>> \in Loops /\ LeftOf(<<h, l[2] \cup {h}, 1>>) < LeftOf(l)
      BY <2>1, DeeperIsLess
    <3>2. f \in <<h, l[2] \cup {h}, 1>>[2]
      OBVIOUS
    <3> QED
      BY <3>1, <3>2
  <2>4. evaluateBy(h, l[2], Needs)' = o
    BY <2>0, <2>1, <2>3, EvaluateSame
  <2>5. o[2] \in SUBSET EngineFlags /\ l[2] \subseteq o[2]
    <3>1. LessReturns(Needs, l) /\ Agree(Needs, Needs, l)
      BY DEF LessReturns, Agree, NeedsOK
    <3> QED
      BY <2>0, <2>1, <3>1, EvaluateFacts
  <2>6. LoopFrom(l, Needs)' = IF Passes(h, o[1])' THEN Needs'[next] ELSE <<FALSE, o[2]>>
    BY <1>2, <1>7, <2>0, <2>4 DEF LoopFrom
  <2>7. Passes(h, o[1])' <=> Passes(h, o[1])
    BY <2>1, PassesSame
  <2>8. Needs'[next] = Needs[next]
    <3>1. next \in Loops /\ LeftOf(next) < LeftOf(l) /\ next[2] = o[2]
      BY <2>1, <2>5, FurtherIsLess
    <3> QED
      BY <3>1, <2>5
  <2> QED
    BY <1>3, <2>2, <2>6, <2>7, <2>8, Zenon
<1> QED
  BY <1>5, <1>6, <1>7

\* What is found of the prerequisites while f is being evaluated does not depend on its
\* rollout: f is in the map, so it is not evaluated again.
LEMMA NeedsSame ==
    ASSUME EngineTypeOK, NeedsOK, NeedsOK', NEW f \in EngineFlags, OtherThan(f)
    PROVE  \A l \in Loops : f \in l[2] => Needs'[l] = Needs[l]
<1> DEFINE Bad == {l \in Loops : f \in l[2] /\ Needs'[l] # Needs[l]}
           Sizes == {LeftOf(l) : l \in Bad}
<1> SUFFICES ASSUME Bad # {} PROVE FALSE
  OBVIOUS
<1>1. Sizes \subseteq Nat /\ Sizes # {}
  BY LeftType
<1>2. PICK m \in Sizes : \A n \in Sizes : m <= n
  BY <1>1, LeastExists
<1>3. PICK l \in Bad : m = LeftOf(l)
  BY <1>2
<1>4. ASSUME NEW x \in Loops, f \in x[2], LeftOf(x) < LeftOf(l) PROVE Needs'[x] = Needs[x]
  <2>1. LeftOf(x) \in Nat /\ LeftOf(l) \in Nat
    BY <1>3, LeftType
  <2>2. LeftOf(x) \notin Sizes
    BY <1>2, <1>3, <1>4, <2>1
  <2> QED
    BY <2>2, <1>4
<1> QED
  BY <1>3, <1>4, LoopSame

\* Who had it by the rollout has it still.
LEMMA ServeRaised ==
    ASSUME NEW f \in EngineFlags, OtherThan(f), EngineTypeOK,
           ruleset[f].rollout \in 1..ruleset'[f].rollout, ruleset'[f].rollout \in Nat,
           Serve(f).reason = "ROLLOUT"
    PROVE  Serve(f)' = Serve(f)
<1> DEFINE hits == RuleHits(ruleset[f].rules, bucket[f])
<1>1. RuleHits(ruleset'[f].rules, bucket'[f]) = hits
  BY DEF OtherThan
<1>2. Default(f)' = Default(f) /\ bucket'[f] = bucket[f] /\ bucket[f] \in Nat
  BY EngineAssumption DEF OtherThan, Default, EngineTypeOK, EngineAssumption
<1>3. ruleset[f].rollout > 0 /\ ruleset'[f].rollout > 0 /\ ruleset[f].rollout <= ruleset'[f].rollout
      /\ ruleset[f].rollout \in Nat
  OBVIOUS
<1> HIDE DEF hits
<1>4. CASE hits # <<>>
  BY <1>1, <1>4 DEF Serve, hits
<1>5. CASE hits = <<>>
  <2>1. Serve(f) = IF bucket[f] < ruleset[f].rollout THEN Result(Default(f), "ROLLOUT") ELSE Result("off", "FALLTHROUGH")
    BY <1>3, <1>5 DEF Serve, hits
  <2>2. bucket[f] < ruleset[f].rollout
    BY <2>1 DEF Result
  <2>3. bucket[f] < ruleset'[f].rollout
    BY <2>2, <1>2, <1>3
  <2>4. Serve(f)' = IF bucket[f] < ruleset'[f].rollout THEN Result(Default(f), "ROLLOUT") ELSE Result("off", "FALLTHROUGH")
    BY <1>1, <1>2, <1>3, <1>5 DEF Serve, hits, Result
  <2> QED
    BY <2>1, <2>2, <2>3, <2>4
<1> QED
  BY <1>4, <1>5

LEMMA RolloutKept ==
    ASSUME EngineTypeOK, EngineTypeOK', NeedsOK, NeedsOK', bucket' = bucket,
           NEW f \in EngineFlags, OnlyRolloutOf(f), ruleset[f].rollout \in 1..ruleset'[f].rollout,
           Evaluate(f).reason = "ROLLOUT"
    PROVE  Evaluate(f)' = Evaluate(f)
<1>1. OtherThan(f)
  BY OnlyRollout
<1>2. ruleset'[f].rollout \in Nat
  <2>1. ruleset'[f] \in FlagRow
    BY DEF EngineTypeOK
  <2> QED
    BY <2>1, EngineAssumption DEF FlagRow, EngineAssumption
<1> DEFINE r == ruleset[f]  x == <<f, {} \cup {f}, 1>>
           refused == ~r.exists \/ r.expired \/ ~r.enabled \/ (r.group /\ ~winsMutexGroup(f))
<1>3. winsMutexGroup(f)' <=> winsMutexGroup(f)
  BY <1>1, WinsSame
<1>4. Needs'[x] = Needs[x]
  <2>1. x \in Loops /\ f \in x[2]
    BY EngineConstants DEF Loops
  <2> QED
    BY <2>1, <1>1, NeedsSame
<1>5. ~refused
  BY DEF Evaluate, evaluate, evaluateBy, Off, Result
<1>6. /\ r.exists /\ ~r.expired /\ r.enabled /\ (r.group => winsMutexGroup(f))
      /\ ruleset'[f].exists /\ ~ruleset'[f].expired /\ ruleset'[f].enabled
      /\ (ruleset'[f].group => winsMutexGroup(f)') /\ ruleset'[f].prereqs = r.prereqs
  BY <1>1, <1>3, <1>5 DEF OtherThan
<1>7. CASE r.prereqs = <<>>
  <2>1. Evaluate(f) = Serve(f)
    BY <1>6, <1>7 DEF Evaluate, evaluate, evaluateBy
  <2>2. Evaluate(f)' = Serve(f)'
    BY <1>6, <1>7 DEF Evaluate, evaluate, evaluateBy
  <2> QED
    BY <2>1, <2>2, <1>1, <1>2, ServeRaised
<1>8. CASE r.prereqs # <<>>
  <2>1. Evaluate(f) = IF Needs[x][1] THEN Serve(f) ELSE Off("PREREQUISITE_FAILED")
    BY <1>6, <1>8 DEF Evaluate, evaluate, evaluateBy
  <2>2. Evaluate(f)' = IF Needs'[x][1] THEN Serve(f)' ELSE Off("PREREQUISITE_FAILED")
    BY <1>6, <1>8 DEF Evaluate, evaluate, evaluateBy, Off, Result
  <2>3. Needs[x][1]
    BY <2>1 DEF Off, Result
  <2> QED
    BY <2>1, <2>2, <2>3, <1>1, <1>2, <1>4, ServeRaised
<1> QED
  BY <1>7, <1>8

LEMMA EditKeepsBuckets == [EngineNext]_engineVars => bucket' = bucket
BY DEF EngineNext, engineVars, UpdateFlag, UpdateFlagState, RemoveFlag, CreateFlag, Edit

\* A rollout that is raised takes the feature from nobody who had it by the rollout, whatever
\* the flag's prerequisites, their prerequisites and cycles among them (engine.go: evaluate,
\* BucketUser).
THEOREM RolloutsOnlyGrow == EngineSpec => RolloutOnlyGrows
<1>1. ASSUME EngineTypeOK, EngineTypeOK', NeedsOK, NeedsOK', [EngineNext]_engineVars
      PROVE  [\A f \in EngineFlags :
                /\ OnlyRolloutOf(f)
                /\ ruleset[f].rollout \in 1..ruleset'[f].rollout
                /\ Evaluate(f).reason = "ROLLOUT"
                => Evaluate(f)' = Evaluate(f)]_engineVars
  BY <1>1, EditKeepsBuckets, RolloutKept
<1> QED
  BY <1>1, NeedsHold, EngineTypes, PTL DEF EngineSpec, RolloutOnlyGrows

-----------------------------------------------------------------------------
(***************************************************************************)
(* The whole.                                                                *)
(***************************************************************************)
\* A step of the whole is, for each part, a step of the part or none.
LEMMA SystemSteps ==
    ASSUME [Next]_vars
    PROVE  /\ [EngineNext]_engineVars /\ [SignupNext]_signupVars /\ [CodesNext]_codeVars
           /\ [GatesNext]_gateVars /\ [ResourcesNext]_resourceVars
           /\ [OrgSettingsNext]_settingsVars /\ [FlagVersionsNext]_versionVars
<1>1. [EngineNext]_engineVars /\ [SignupNext]_signupVars /\ [CodesNext]_codeVars
  BY DEF Next, vars, engineVars, signupVars, codeVars
<1>2. [GatesNext]_gateVars /\ [ResourcesNext]_resourceVars
  BY DEF Next, vars, gateVars, resourceVars, rows_, audit_
<1>3. [OrgSettingsNext]_settingsVars /\ [FlagVersionsNext]_versionVars
  BY DEF Next, vars, settingsVars, versionVars
<1> QED
  BY <1>1, <1>2, <1>3

\* Together the parts keep their invariants, for any values of the constants that the
\* parts' assumptions allow (not the small ones of the run).
THEOREM SystemInductive ==
    Spec => [](EngineTypeOK /\ SignupInv /\ CodesInv /\ GatesInv /\ ResourcesInv
               /\ SettingsInv /\ FlagVersionsInv)
<1>1. Init => EngineTypeOK /\ SignupInv /\ CodesInv /\ GatesInv /\ ResourcesInv
              /\ SettingsInv /\ FlagVersionsInv
  BY InitEngine, InitSignupInv, InitCodesInv, InitGatesInv, InitResourcesInv, InitSettings,
     InitVersions DEF Init
<1>2. ASSUME EngineTypeOK /\ SignupInv /\ CodesInv /\ GatesInv /\ ResourcesInv
             /\ SettingsInv /\ FlagVersionsInv, [Next]_vars
      PROVE  (EngineTypeOK /\ SignupInv /\ CodesInv /\ GatesInv /\ ResourcesInv
              /\ SettingsInv /\ FlagVersionsInv)'
  BY <1>2, SystemSteps, EngineKeeps, SignupKeep, CodesKeep, GatesKeep, ResourcesKeep,
     SettingsKeep, VersionsKeep
<1> QED
  BY <1>1, <1>2, PTL DEF Spec

\* In the system too: one request at most founds an address's account, and the wrong
\* guesses at its code are bounded (auth.go, signup.go).
THEOREM SystemSignup == Spec => []SignupSound
<1>1. SignupInv => SignupSound
  BY DEF SignupInv, SignupSound
<1> QED
  BY <1>1, SystemInductive, PTL

\* In the system too: every change of a resource is accounted for by the audit log, and
\* every change of a flag by its versions (Store.CreateAuditEntry, migration 000088).
THEOREM SystemRecords == Spec => []RecordsFaithful
<1>1. ResourcesInv /\ FlagVersionsInv => RecordsFaithful
  BY DEF ResourcesInv, FlagVersionsInv, RecordsFaithful
<1> QED
  BY <1>1, SystemInductive, PTL

\* In the system too: a rollout that is raised takes the feature from nobody (engine.go).
THEOREM SystemRollouts == Spec => RolloutOnlyGrows
<1>1. Init => EngineInit
  BY DEF Init
<1>2. ASSUME [Next]_vars PROVE [EngineNext]_engineVars
  BY <1>2, SystemSteps
<1> QED
  BY <1>1, <1>2, RolloutsOnlyGrow, PTL DEF Spec, EngineSpec

-----------------------------------------------------------------------------
(***************************************************************************)
(* Billing and the portal in the system.                                     *)
(***************************************************************************)
LEMMA OperationsSteps ==
    ASSUME [Next]_vars
    PROVE  /\ [BillingNext]_billVars /\ [ClustersNext]_clusterVars /\ [ClusterConfigNext]_configVars
           /\ [DeploymentsNext]_deployVars /\ [OpsAccessNext]_accessVars
<1>1. [BillingNext]_billVars /\ [ClustersNext]_clusterVars
  BY DEF Next, vars, billVars, clusterVars
<1>2. [ClusterConfigNext]_configVars /\ [DeploymentsNext]_deployVars /\ [OpsAccessNext]_accessVars
  BY DEF Next, vars, configVars, deployVars, accessVars
<1> QED
  BY <1>1, <1>2

\* Billing and the parts of the portal keep their invariants together.
THEOREM OperationsInductive ==
    Spec => [](BillingInv /\ ClustersInv /\ ClusterConfigInv /\ DeploymentsInv /\ OpsAccessInv)
<1>1. Init => BillingInv /\ ClustersInv /\ ClusterConfigInv /\ DeploymentsInv /\ OpsAccessInv
  BY InitBilling, InitClusters, InitConfig, InitDeploy, InitAccess DEF Init
<1>2. ASSUME BillingInv /\ ClustersInv /\ ClusterConfigInv /\ DeploymentsInv /\ OpsAccessInv, [Next]_vars
      PROVE  (BillingInv /\ ClustersInv /\ ClusterConfigInv /\ DeploymentsInv /\ OpsAccessInv)'
  BY <1>2, OperationsSteps, BillKeep, ClustersKeep, ConfigKeep, DeployKeep, AccessKeep
<1> QED
  BY <1>1, <1>2, PTL DEF Spec

\* In the system too, Stripe's events are applied a bounded number of times and the plan
\* settles on the subscription's (billing.go).
THEOREM SystemBilling == Spec => []BillingSound
<1>1. BillingInv => BillingSound
  BY DEF BillingInv, BillingSound
<1> QED
  BY <1>1, OperationsInductive, PTL

\* In the system too, what the portal writes is kept, up to the overlaps and failed reads that
\* each part names: servers, configurations, versions, roles and tokens
\* (ops-portal/internal/api/handlers).
THEOREM SystemPortal == Spec => []PortalWritesKept
<1>1. ClustersInv /\ ClusterConfigInv /\ DeploymentsInv /\ OpsAccessInv => PortalWritesKept
  BY DEF ClustersInv, ClusterConfigInv, DeploymentsInv, OpsAccessInv, PortalWritesKept
<1> QED
  BY <1>1, OperationsInductive, PTL

-----------------------------------------------------------------------------
(***************************************************************************)
(* The server's process, and the repositories, in the system.                *)
(***************************************************************************)
LEMMA ProcessSteps ==
    ASSUME [Next]_vars
    PROVE  /\ [MigrationsNext]_migrationVars /\ [ServerProcessNext]_serverVars
           /\ [StatusPageNext]_statusVars /\ [MailNext]_mailVars
<1>1. [MigrationsNext]_migrationVars /\ [ServerProcessNext]_serverVars
  BY DEF Next, vars, migrationVars, serverVars
<1>2. [StatusPageNext]_statusVars /\ [MailNext]_mailVars
  BY DEF Next, vars, statusVars, mailVars
<1> QED
  BY <1>1, <1>2

\* The parts of the server's process keep their invariants together.
THEOREM ProcessInductive ==
    Spec => [](MigrationsInv /\ ServerProcessInv /\ StatusPageInv /\ MailInv)
<1>1. Init => MigrationsInv /\ ServerProcessInv /\ StatusPageInv /\ MailInv
  BY InitMigrations, InitServerProcess, InitStatusPage, InitMail DEF Init
<1>2. ASSUME MigrationsInv /\ ServerProcessInv /\ StatusPageInv /\ MailInv, [Next]_vars
      PROVE  (MigrationsInv /\ ServerProcessInv /\ StatusPageInv /\ MailInv)'
  BY <1>2, ProcessSteps, MigrationsKeep, ServerProcessKeep, StatusPageKeep, MailKeep
<1> QED
  BY <1>1, <1>2, PTL DEF Spec

\* In the system too: migrations are applied in order and again only when their row was dirty,
\* the shutdown takes resources away after their users, the status page reports what was, and
\* a mail is sent or accounted for (migrate.go, main.go, status/handler.go, email.go).
THEOREM SystemProcess == Spec => []ProcessSound
<1>1. MigrationsInv /\ ServerProcessInv /\ StatusPageInv /\ MailInv => ProcessSound
  BY ServerProcessIsOrdered, StatusIsTruthful DEF MigrationsInv, MailInv, ProcessSound
<1> QED
  BY <1>1, ProcessInductive, PTL

LEMMA GitSteps == [Next]_vars => [GitProvidersNext]_gitVars
BY DEF Next, vars, gitVars

\* In the system too, a commit is only ever lost with its branch (github/provider.go).
THEOREM SystemCommits == Spec => NoCommitLost
<1>1. Init => GitProvidersInv
  BY InitGit DEF Init
<1>2. GitProvidersInv /\ [GitProvidersNext]_gitVars =>
        [\A b \in GitBranches : \/ gitBranch[b] = Absent \/ gitBranch'[b] = Absent
                                \/ IsPrefix(gitBranch[b], gitBranch'[b])]_gitBranch
  BY GitKeeps DEF GitOutcome, gitVars
<1>3. GitProvidersInv /\ [GitProvidersNext]_gitVars => GitProvidersInv'
  BY GitKeeps, GitStays DEF GitOutcome
<1> QED
  BY <1>1, <1>2, <1>3, GitSteps, PTL DEF Spec, NoCommitLost

-----------------------------------------------------------------------------
(***************************************************************************)
(* Log-ins, members, sandboxes, the staff and the zone in the system: of     *)
(* each the specification of the whole is its own.                           *)
(***************************************************************************)
LEMMA AccountSteps ==
    ASSUME [Next]_vars
    PROVE  /\ [SessionsNext]_loginVars /\ [TeamNext]_teamVars /\ [SandboxesNext]_sandboxVars
           /\ [OpsStaffNext]_staffVars /\ [DNSZoneNext]_dnsVars
<1>1. [SessionsNext]_loginVars /\ [TeamNext]_teamVars
  BY DEF Next, vars, loginVars, teamVars
<1>2. [SandboxesNext]_sandboxVars /\ [OpsStaffNext]_staffVars /\ [DNSZoneNext]_dnsVars
  BY DEF Next, vars, sandboxVars, staffVars, dnsVars
<1> QED
  BY <1>1, <1>2

LEMMA AccountInit == Init => SessionsInit /\ TeamInit /\ SandboxesInit /\ OpsStaffInit /\ DNSZoneInit
BY DEF Init

LEMMA SystemImplements ==
    Spec => SessionsSpec /\ TeamSpec /\ SandboxesSpec /\ OpsStaffSpec /\ DNSZoneSpec
BY AccountInit, AccountSteps, PTL DEF Spec, SessionsSpec, TeamSpec, SandboxesSpec, OpsStaffSpec, DNSZoneSpec

\* In the system too: an account that is locked lets through only the passwords that were
\* being judged when it was, a session that was logged out is refused, and a sign-on through
\* the identity provider fails without a fault for somebody who is a member only (auth.go,
\* sso_auth.go).
THEOREM SystemLogin == Spec => LoginSound
BY SystemImplements, LoginsAreBounded, SignOnFailsOnlyAsMember, PTL DEF LoginSound

\* In the system too: a sandbox is claimed once or cleaned up, and a refresh token of the
\* staff is exchanged once and for an active member (sandbox cleaner, ops_auth.go).
THEOREM SystemAccounts == Spec => AccountsSound
BY SystemImplements, SandboxesAreAccountedFor, StaffSessionsAreSound, PTL DEF AccountsSound

\* In the system too: a sync of the zone deletes only what it listed, and what it leaves of a
\* running cluster is as SyncEffect says (dns.go).
THEOREM SystemSync == Spec => SyncEffect
BY SystemImplements, SyncsAreAsTheyAre, PTL

-----------------------------------------------------------------------------
(***************************************************************************)
(* The rate limits in the system.                                            *)
(***************************************************************************)
LEMMA RateSteps == [Next]_vars => [FixedWindowNext]_fixedVars /\ [GlobalRouterNext]_routerVars
BY DEF Next, vars, fixedVars, routerVars

LEMMA RateInit == Init => FixedWindowInv /\ GlobalRouterInv
BY InitFixed, InitRouter DEF Init

LEMMA RatesAreBounded == FixedWindowInv /\ GlobalRouterInv => RateBounds
BY WindowsBound, ListsBound DEF RateBounds

\* In the system too both limiters bound what they let through (ratelimit.go, security.go).
THEOREM SystemRates == Spec => []RateBounds
BY RateInit, RateSteps, FixedKeeps, RouterKeeps, RatesAreBounded, PTL DEF Spec

-----------------------------------------------------------------------------
(***************************************************************************)
(* The janitor in the system.                                                *)
(***************************************************************************)
LEMMA JanitorSteps ==
    ASSUME [Next]_vars
    PROVE  /\ [JanitorNext]_janitorVars /\ [CodeAnalysisNext]_analysisVars
           /\ [RemoteListingNext]_listVars /\ [CleanupNext]_cleanupVars
<1>1. [JanitorNext]_janitorVars /\ [CodeAnalysisNext]_analysisVars
  BY DEF Next, vars, janitorVars, analysisVars
<1>2. [RemoteListingNext]_listVars /\ [CleanupNext]_cleanupVars
  BY DEF Next, vars, listVars, cleanupVars
<1> QED
  BY <1>1, <1>2

\* The parts of the janitor keep their invariants together.
THEOREM JanitorInductive ==
    Spec => [](JanitorInv /\ CodeAnalysisInv /\ RemoteListingInv /\ CleanupInv)
<1>1. Init => JanitorInv /\ CodeAnalysisInv /\ RemoteListingInv /\ CleanupInv
  BY InitJanitor, InitAnalysis, InitListing, CleanupStarts DEF Init
<1>2. ASSUME JanitorInv /\ CodeAnalysisInv /\ RemoteListingInv /\ CleanupInv, [Next]_vars
      PROVE  (JanitorInv /\ CodeAnalysisInv /\ RemoteListingInv /\ CleanupInv)'
  BY <1>2, JanitorSteps, JanitorKeeps, CodeAnalysisKeeps, RemoteListingKeeps, CleanupKeeps
<1> QED
  BY <1>1, <1>2, PTL DEF Spec

\* In the system too: who follows a scan learns its end, the cleaned code of a plain file is
\* the code without the flag's dead branches, a listing is what the host had but for what was
\* removed meanwhile or cut off, and code goes only to a provider the policy allows
\* (janitor.go, analyzer.go, the git providers, selector.go).
THEOREM SystemJanitor == Spec => []JanitorSound
<1>1. JanitorInv /\ CodeAnalysisInv /\ RemoteListingInv /\ CleanupInv => JanitorSound
  BY FollowersAreTold, CodeIsSentAsAllowed, ListIsSound, CleanIsSound DEF JanitorSound
<1> QED
  BY <1>1, JanitorInductive, PTL

-----------------------------------------------------------------------------
(***************************************************************************)
(* The types of the whole: each part's are in its invariant.                 *)
(***************************************************************************)
LEMMA OthersInductive ==
    Spec => [](SessionsInv /\ TeamInv /\ SandboxesInv /\ OpsStaffInv /\ DNSZoneInv
               /\ GitProvidersInv /\ FixedWindowInv /\ GlobalRouterInv)
<1>1. Init => SessionsInv /\ TeamInv /\ SandboxesInv /\ OpsStaffInv /\ DNSZoneInv
              /\ GitProvidersInv /\ FixedWindowInv /\ GlobalRouterInv
  BY RateInit, AccountInit, InitSessions, InitTeam, InitSandboxes, InitStaff, InitDNS, InitGit DEF Init
<1>2. ASSUME SessionsInv /\ TeamInv /\ SandboxesInv /\ OpsStaffInv /\ DNSZoneInv
             /\ GitProvidersInv /\ FixedWindowInv /\ GlobalRouterInv, [Next]_vars
      PROVE  (SessionsInv /\ TeamInv /\ SandboxesInv /\ OpsStaffInv /\ DNSZoneInv
              /\ GitProvidersInv /\ FixedWindowInv /\ GlobalRouterInv)'
  <2>1. SessionsInv' /\ TeamInv' /\ SandboxesInv' /\ OpsStaffInv' /\ DNSZoneInv'
    BY <1>2, AccountSteps, SessionsKeep, TeamKeeps, SandboxesKeep, StaffKeep, DNSKeeps
  <2>2. GitProvidersInv'
    BY <1>2, GitSteps, GitKeeps, GitStays DEF GitOutcome
  <2>3. FixedWindowInv' /\ GlobalRouterInv'
    BY <1>2, RateSteps, FixedKeeps, RouterKeeps
  <2> QED
    BY <2>1, <2>2, <2>3
<1> QED
  BY <1>1, <1>2, PTL DEF Spec

LEMMA RecordTypes ==
    EngineTypeOK /\ SignupInv /\ CodesInv /\ GatesInv /\ ResourcesInv /\ SettingsInv /\ FlagVersionsInv =>
        SignupTypeOK /\ CodesTypeOK /\ GatesTypeOK /\ ResourcesTypeOK /\ OrgSettingsTypeOK /\ FlagVersionsTypeOK
BY DEF SignupInv, CodesInv, GatesInv, ResourcesInv, SettingsInv, FlagVersionsInv

LEMMA OperationsTypes ==
    BillingInv /\ ClustersInv /\ ClusterConfigInv /\ DeploymentsInv /\ OpsAccessInv =>
        BillingTypeOK /\ ClustersTypeOK /\ ClusterConfigTypeOK /\ DeploymentsTypeOK /\ OpsAccessTypeOK
BY DEF BillingInv, ClustersInv, ClusterConfigInv, DeploymentsInv, OpsAccessInv

LEMMA ProcessTypes ==
    MigrationsInv /\ ServerProcessInv /\ StatusPageInv /\ MailInv =>
        MigrationsTypeOK /\ ServerProcessTypeOK /\ StatusPageTypeOK /\ MailTypeOK
BY DEF MigrationsInv, ServerProcessInv, StatusPageInv, MailInv

LEMMA ScanAndCodeTypes ==
    JanitorInv /\ CodeAnalysisInv /\ RemoteListingInv /\ CleanupInv =>
        JanitorTypeOK /\ CodeAnalysisTypeOK /\ RemoteListingTypeOK /\ CleanupTypeOK
BY DEF JanitorInv, CodeAnalysisInv, RemoteListingInv, CleanupInv

LEMMA OtherTypes ==
    SessionsInv /\ TeamInv /\ SandboxesInv /\ OpsStaffInv /\ DNSZoneInv
    /\ GitProvidersInv /\ FixedWindowInv /\ GlobalRouterInv =>
        /\ SessionsTypeOK /\ TeamTypeOK /\ SandboxesTypeOK /\ OpsStaffTypeOK /\ DNSZoneTypeOK
        /\ GitProvidersTypeOK /\ FixedWindowTypeOK /\ GlobalRouterTypeOK
BY DNSTypes DEF SessionsInv, TeamInv, SandboxesInv, OpsStaffInv, GitProvidersInv, FixedWindowInv, GlobalRouterInv

LEMMA PartsTyped ==
    /\ EngineTypeOK /\ SignupInv /\ CodesInv /\ GatesInv /\ ResourcesInv /\ SettingsInv /\ FlagVersionsInv
    /\ BillingInv /\ ClustersInv /\ ClusterConfigInv /\ DeploymentsInv /\ OpsAccessInv
    /\ MigrationsInv /\ ServerProcessInv /\ StatusPageInv /\ MailInv
    /\ JanitorInv /\ CodeAnalysisInv /\ RemoteListingInv /\ CleanupInv
    /\ SessionsInv /\ TeamInv /\ SandboxesInv /\ OpsStaffInv /\ DNSZoneInv
    /\ GitProvidersInv /\ FixedWindowInv /\ GlobalRouterInv
    => TypeOK
BY RecordTypes, OperationsTypes, ProcessTypes, ScanAndCodeTypes, OtherTypes DEF TypeOK

\* Every part keeps its types, for any values of the constants: rows, queues and counters are
\* within their ranges, and requests at the steps that their handlers have.
THEOREM SystemTypes == Spec => []TypeOK
BY PartsTyped, SystemInductive, OperationsInductive, ProcessInductive, JanitorInductive, OthersInductive, PTL

=============================================================================
