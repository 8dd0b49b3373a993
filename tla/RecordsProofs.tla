--------------------------- MODULE RecordsProofs ---------------------------
(***************************************************************************)
(* Proofs about who is let in: the codes and links of Codes, the gates of    *)
(* Gates, the accounts of Signup, the log-ins and sessions of Sessions, the  *)
(* members of Team and the rate limits of FixedWindow and GlobalRouter; and  *)
(* about an organization's records: its settings (OrgSettings), its          *)
(* resources and their audit log (Resources), the history of its flags       *)
(* (FlagVersions), its sandboxes (Sandboxes) and the staff's sessions on it  *)
(* (OpsStaff).  In each of them an invariant that is preserved by every step *)
(* says why the property that matters holds.                                 *)
(***************************************************************************)
EXTENDS Integers, Codes, Gates, Signup, Sessions, Team, FixedWindow, GlobalRouter,
        OrgSettings, Resources, FlagVersions, Sandboxes, OpsStaff,
        FiniteSetTheorems, WellFoundedInduction, TLAPS

(***************************************************************************)
(* Finite sets.                                                             *)
(***************************************************************************)
LEMMA SubsetCard ==
    ASSUME NEW S, IsFiniteSet(S), NEW T, T \subseteq S
    PROVE  /\ IsFiniteSet(T) /\ Cardinality(T) \in Nat /\ Cardinality(S) \in Nat
           /\ Cardinality(T) <= Cardinality(S)
BY FS_Subset, FS_CardinalityType

\* One more, or one less.
LEMMA AddCard ==
    ASSUME NEW T, IsFiniteSet(T), NEW x
    PROVE  /\ IsFiniteSet(T \cup {x}) /\ Cardinality(T \cup {x}) \in Nat /\ Cardinality(T) \in Nat
           /\ Cardinality(T \cup {x}) <= Cardinality(T) + 1
           /\ x \notin T => Cardinality(T \cup {x}) = Cardinality(T) + 1
BY FS_AddElement, FS_CardinalityType

LEMMA DropCard ==
    ASSUME NEW T, IsFiniteSet(T), NEW x \in T
    PROVE  /\ IsFiniteSet(T \ {x}) /\ Cardinality(T \ {x}) \in Nat /\ Cardinality(T) \in Nat
           /\ Cardinality(T \ {x}) = Cardinality(T) - 1
BY FS_RemoveElement, FS_CardinalityType

\* One element at most.
LEMMA OneCard ==
    ASSUME NEW T, \A x, y \in T : x = y
    PROVE  IsFiniteSet(T) /\ Cardinality(T) <= 1
<1>1. CASE T = {}
  BY <1>1, FS_EmptySet
<1>2. CASE T # {}
  <2>1. PICK x : x \in T
    BY <1>2
  <2>2. T = {x}
    BY <2>1
  <2>3. IsFiniteSet({x}) /\ Cardinality({x}) = 1
    BY FS_Singleton, Zenon
  <2>4. IsFiniteSet(T) /\ Cardinality(T) = 1
    BY <2>2, <2>3, Zenon
  <2> QED
    BY <2>4
<1> QED
  BY <1>1, <1>2

-----------------------------------------------------------------------------
(***************************************************************************)
(* Codes and links.                                                         *)
(***************************************************************************)
\* The requests whose next statement is pc.
AtPc(pc) == {r \in CodeReqs : At(r, pc)}
Marking == {"markReset", "markMagic", "setVerified"}
Inserting == [reset |-> "insertReset", magic |-> "insertMagic"]

LEMMA InitCodesInv == CodesInit => CodesInv
<1> SUFFICES ASSUME CodesInit PROVE CodesInv
  OBVIOUS
<1>1. CodesTypeOK
  BY CodesAssumption DEF CodesInit, CodesTypeOK, CodesAssumption, Kinds, CodePcs
<1>2. CodesShape
  BY DEF CodesInit, CodesShape, HeldKind, At
<1>3. /\ \A t \in Tokens : ReadersOf(t) = {}
      /\ Live("reset") = {} /\ Live("magic") = {}
      /\ AtPc("insertReset") = {} /\ AtPc("insertMagic") = {}
  BY DEF CodesInit, ReadersOf, Live, AtPc, At
<1>4. Cardinality(CodeReqs) \in Nat /\ Cardinality({}) = 0
  BY CodesAssumption, FS_CardinalityType, FS_EmptySet DEF CodesAssumption
<1>5. CodesSingleUse
  <2>1. \A t \in Tokens : uses[t] = 0
    BY DEF CodesInit
  <2>2. \A t \in Tokens : uses[t] + Cardinality(ReadersOf(t)) = 0
    BY <1>3, <1>4, <2>1
  <2>3. password = 0
    BY DEF CodesInit
  <2> QED
    BY <1>3, <1>4, <2>2, <2>3 DEF CodesSingleUse, AtPc
<1> QED
  BY <1>1, <1>2, <1>5 DEF CodesInv

\* Every set that is counted is finite.
LEMMA CodeSetsFinite ==
    /\ \A t : IsFiniteSet(ReadersOf(t)) /\ Cardinality(ReadersOf(t)) \in Nat
                 /\ Cardinality(ReadersOf(t)) <= Cardinality(CodeReqs)
    /\ \A pc : IsFiniteSet(AtPc(pc)) /\ Cardinality(AtPc(pc)) \in Nat
                 /\ Cardinality(AtPc(pc)) <= Cardinality(CodeReqs)
    /\ \A kind : IsFiniteSet(Live(kind)) /\ Cardinality(Live(kind)) \in Nat
    /\ Cardinality(CodeReqs) \in Nat
<1>1. IsFiniteSet(CodeReqs) /\ IsFiniteSet(Tokens)
  BY CodesAssumption, FS_Interval DEF CodesAssumption, Tokens
<1>2. \A t : ReadersOf(t) \subseteq CodeReqs
  BY DEF ReadersOf
<1>3. \A pc : AtPc(pc) \subseteq CodeReqs
  BY DEF AtPc
<1>4. \A kind : Live(kind) \subseteq Tokens
  BY DEF Live
<1> QED
  BY <1>1, <1>2, <1>3, <1>4, SubsetCard

\* A request goes to pc with the token x.
LEMMA CodeMoves ==
    ASSUME CodesInv, NEW r \in CodeReqs, NEW pc \in CodePcs, NEW x \in 0..MaxTokens, To(r, pc, x)
    PROVE  /\ codePc' \in [CodeReqs -> CodePcs] /\ held' \in [CodeReqs -> 0..MaxTokens]
           /\ codePc'[r] = pc /\ held'[r] = x
           /\ \A q \in CodeReqs \ {r} : codePc'[q] = codePc[q] /\ held'[q] = held[q]
           /\ \A t : IF pc \in Marking /\ x = t THEN ReadersOf(t)' = ReadersOf(t) \cup {r}
                     ELSE ReadersOf(t)' = ReadersOf(t) \ {r}
           /\ AtPc("insertReset")' = IF pc = "insertReset" THEN AtPc("insertReset") \cup {r}
                                     ELSE AtPc("insertReset") \ {r}
           /\ AtPc("insertMagic")' = IF pc = "insertMagic" THEN AtPc("insertMagic") \cup {r}
                                     ELSE AtPc("insertMagic") \ {r}
<1>1. codePc \in [CodeReqs -> CodePcs] /\ held \in [CodeReqs -> 0..MaxTokens]
  BY DEF CodesInv, CodesTypeOK
<1>2. /\ codePc' \in [CodeReqs -> CodePcs] /\ held' \in [CodeReqs -> 0..MaxTokens]
      /\ codePc'[r] = pc /\ held'[r] = x
      /\ \A q \in CodeReqs \ {r} : codePc'[q] = codePc[q] /\ held'[q] = held[q]
  BY <1>1 DEF To
<1>3. ASSUME NEW t, pc \in Marking, x = t PROVE ReadersOf(t)' = ReadersOf(t) \cup {r}
  BY <1>2, <1>3 DEF ReadersOf, Marking
<1>4. ASSUME NEW t, ~(pc \in Marking /\ x = t) PROVE ReadersOf(t)' = ReadersOf(t) \ {r}
  BY <1>2, <1>4 DEF ReadersOf, Marking
<1>5. ASSUME NEW p PROVE AtPc(p)' = IF pc = p THEN AtPc(p) \cup {r} ELSE AtPc(p) \ {r}
  BY <1>2 DEF AtPc, At
<1> QED
  BY <1>2, <1>3, <1>4, <1>5

\* Tokens are spent.
LEMMA Spending ==
    ASSUME CodesInv, NEW ts, ts \subseteq 1..made, tokens' = Spent(ts)
    PROVE  /\ tokens' \in [Tokens -> [kind : Kinds, state : {"none", "live", "used", "expired"}]]
           /\ \A t \in Tokens : tokens'[t].kind = tokens[t].kind
           /\ \A t \in Tokens \ ts : tokens'[t] = tokens[t]
           /\ \A t \in Tokens \cap ts : tokens'[t].state = "used"
           /\ \A kind : Live(kind)' = Live(kind) \ ts
           /\ \A t \in Tokens : t > made => tokens'[t].state = "none"
<1>1. tokens \in [Tokens -> [kind : Kinds, state : {"none", "live", "used", "expired"}]] /\ made \in Nat
  BY CodesAssumption DEF CodesInv, CodesTypeOK, CodesAssumption
<1>2. \A t \in Tokens : tokens'[t] = IF t \in ts THEN [tokens[t] EXCEPT !.state = "used"] ELSE tokens[t]
  BY DEF Spent
<1>3. tokens' \in [Tokens -> [kind : Kinds, state : {"none", "live", "used", "expired"}]]
  BY <1>1 DEF Spent
<1>4. /\ \A t \in Tokens : tokens'[t].kind = tokens[t].kind
      /\ \A t \in Tokens \ ts : tokens'[t] = tokens[t]
      /\ \A t \in Tokens \cap ts : tokens'[t].state = "used"
  BY <1>1, <1>2
<1>5. \A kind : Live(kind)' = Live(kind) \ ts
  BY <1>4 DEF Live
<1>6. \A t \in Tokens : t > made => t \notin ts
  BY <1>1 DEF Tokens
<1>7. \A t \in Tokens : t > made => tokens'[t].state = "none"
  BY <1>4, <1>6 DEF CodesInv, CodesShape
<1> QED
  BY <1>3, <1>4, <1>5, <1>7

\* The tokens that were made.
LEMMA LiveMade ==
    ASSUME CodesInv
    PROVE  /\ \A kind : Live(kind) \subseteq 1..made /\ 1..made \subseteq Tokens
           /\ made \in Nat /\ MaxTokens \in Nat /\ made <= MaxTokens
<1>1. made \in Nat /\ MaxTokens \in Nat /\ made <= MaxTokens
  BY CodesAssumption DEF CodesInv, CodesTypeOK, CodesAssumption
<1>2. 1..made \subseteq Tokens
  BY <1>1 DEF Tokens
<1>3. \A t \in Tokens : tokens[t].state = "live" => t \in 1..made
  BY <1>1 DEF CodesInv, CodesShape, Tokens
<1> QED
  BY <1>1, <1>2, <1>3 DEF Live

\* What single use says, in the sets above.
LEMMA SingleUseIs ==
    CodesSingleUse <=>
      /\ \A t \in Tokens :
            uses[t] + Cardinality(ReadersOf(t)) <= IF tokens[t].kind = "once" THEN 1 ELSE Cardinality(CodeReqs)
      /\ Cardinality(Live("reset")) + Cardinality(AtPc("insertReset")) <= Cardinality(CodeReqs)
      /\ Cardinality(Live("magic")) + Cardinality(AtPc("insertMagic")) <= Cardinality(CodeReqs)
      /\ password # 0 => uses[password] > 0
BY DEF CodesSingleUse, AtPc

\* Fewer live tokens and fewer requests about to make one keep the bound.
LEMMA FewerLive ==
    ASSUME NEW L, NEW L1, NEW A, NEW A1, IsFiniteSet(L), IsFiniteSet(A), L1 \subseteq L, A1 \subseteq A,
           NEW n \in Nat, Cardinality(L) + Cardinality(A) <= n
    PROVE  Cardinality(L1) + Cardinality(A1) <= n
<1>1. /\ Cardinality(L1) \in Nat /\ Cardinality(A1) \in Nat /\ Cardinality(L) \in Nat /\ Cardinality(A) \in Nat
      /\ Cardinality(L1) <= Cardinality(L) /\ Cardinality(A1) <= Cardinality(A)
  BY SubsetCard
<1> QED
  BY <1>1

\* The first statement of making a code or link.
LEMMA MakeKeeps ==
    ASSUME CodesInv, NEW r \in CodeReqs, NEW kind \in {"reset", "magic"}, At(r, "idle"),
           To(r, Inserting[kind], 0), tokens' = Spent(Live(kind)),
           UNCHANGED <<made, uses, password, codeFaults>>
    PROVE  CodesInv'
<1> DEFINE pc == Inserting[kind]
<1>1. pc \in CodePcs /\ pc \notin Marking /\ 0 \in 0..MaxTokens
  BY LiveMade DEF Inserting, CodePcs, Marking
<1>2. /\ codePc' \in [CodeReqs -> CodePcs] /\ held' \in [CodeReqs -> 0..MaxTokens]
      /\ codePc'[r] = pc /\ held'[r] = 0
      /\ \A q \in CodeReqs \ {r} : codePc'[q] = codePc[q] /\ held'[q] = held[q]
      /\ \A t : ReadersOf(t)' = ReadersOf(t) \ {r}
      /\ AtPc("insertReset")' = IF pc = "insertReset" THEN AtPc("insertReset") \cup {r}
                                ELSE AtPc("insertReset") \ {r}
      /\ AtPc("insertMagic")' = IF pc = "insertMagic" THEN AtPc("insertMagic") \cup {r}
                                ELSE AtPc("insertMagic") \ {r}
  BY <1>1, CodeMoves
<1>3. /\ tokens' \in [Tokens -> [kind : Kinds, state : {"none", "live", "used", "expired"}]]
      /\ \A t \in Tokens : tokens'[t].kind = tokens[t].kind
      /\ \A t \in Tokens \ Live(kind) : tokens'[t] = tokens[t]
      /\ \A t \in Tokens \cap Live(kind) : tokens'[t].state = "used"
      /\ \A k : Live(k)' = Live(k) \ Live(kind)
      /\ \A t \in Tokens : t > made => tokens'[t].state = "none"
  BY Spending, LiveMade
<1>4. CodesTypeOK'
  BY <1>2, <1>3 DEF CodesInv, CodesTypeOK
<1>5. CodesShape'
  <2>1. pc \notin DOMAIN HeldKind /\ pc # "setPassword"
    BY DEF Inserting, HeldKind
  <2>2. \A q \in CodeReqs : codePc'[q] \in DOMAIN HeldKind =>
           held'[q] \in 1..made' /\ tokens'[held'[q]].kind = HeldKind[codePc'[q]]
    BY <1>2, <1>3, <2>1, LiveMade DEF CodesInv, CodesShape
  <2>3. \A q \in CodeReqs : codePc'[q] = "setPassword" => uses'[held'[q]] > 0
    BY <1>2, <2>1 DEF CodesInv, CodesShape, At
  <2> QED
    BY <1>3, <2>2, <2>3 DEF CodesInv, CodesShape, At, HeldKind
<1>6. CodesSingleUse'
  <2>1. \A t \in Tokens : ReadersOf(t)' = ReadersOf(t)
    <3>1. \A t : r \notin ReadersOf(t)
      BY DEF ReadersOf, At
    <3> QED
      BY <1>2, <3>1
  <2>2. \A t \in Tokens : uses'[t] + Cardinality(ReadersOf(t))' <=
           IF tokens'[t].kind = "once" THEN 1 ELSE Cardinality(CodeReqs)
    BY <1>3, <2>1, SingleUseIs DEF CodesInv
  <2>3. ASSUME NEW k \in {"reset", "magic"}
        PROVE  Cardinality(Live(k))' + Cardinality(AtPc(Inserting[k]))' <= Cardinality(CodeReqs)
    <3>1. CASE k = kind
      <4>1. Live(k)' = {}
        BY <1>3, <3>1
      <4>2. AtPc(Inserting[k])' \subseteq CodeReqs
        BY DEF AtPc
      <4>3. /\ Cardinality(AtPc(Inserting[k]))' <= Cardinality(CodeReqs)
            /\ Cardinality(AtPc(Inserting[k]))' \in Nat /\ Cardinality(CodeReqs) \in Nat
        BY <4>2, SubsetCard, CodesAssumption DEF CodesAssumption
      <4>4. Cardinality(Live(k)') = 0
        BY <4>1, FS_EmptySet
      <4> QED
        BY <4>3, <4>4
    <3>2. CASE k # kind
      <4>1. AtPc(Inserting[k])' \subseteq AtPc(Inserting[k]) /\ Live(k)' \subseteq Live(k)
        BY <1>2, <1>3, <3>2 DEF Inserting
      <4>2. Cardinality(Live(k)) + Cardinality(AtPc(Inserting[k])) <= Cardinality(CodeReqs)
        BY SingleUseIs DEF CodesInv, Inserting
      <4> QED
        BY <4>1, <4>2, FewerLive, CodeSetsFinite
    <3> QED
      BY <3>1, <3>2
  <2>4. /\ Cardinality(Live("reset"))' + Cardinality(AtPc("insertReset"))' <= Cardinality(CodeReqs)
        /\ Cardinality(Live("magic"))' + Cardinality(AtPc("insertMagic"))' <= Cardinality(CodeReqs)
    BY <2>3 DEF Inserting
  <2>5. password' # 0 => uses'[password'] > 0
    BY SingleUseIs DEF CodesInv
  <2> QED
    BY <2>2, <2>4, <2>5 DEF CodesSingleUse, AtPc
<1> QED
  BY <1>4, <1>5, <1>6 DEF CodesInv

\* A token is made, of a kind k; some live ones of that kind were spent before.
LEMMA InsertTokens ==
    ASSUME CodesInv, NEW now, NEW kind \in Kinds,
           now \in [Tokens -> [kind : Kinds, state : {"none", "live", "used", "expired"}]],
           Insert(now, kind)
    PROVE  /\ made' = made + 1 /\ made' \in 1..MaxTokens /\ made' \in Tokens
           /\ tokens' \in [Tokens -> [kind : Kinds, state : {"none", "live", "used", "expired"}]]
           /\ tokens'[made'] = [kind |-> kind, state |-> "live"]
           /\ tokens'[made'].kind = kind /\ tokens'[made'].state = "live"
           /\ \A t \in Tokens \ {made'} : tokens'[t] = now[t]
           /\ tokens[made'].state = "none" /\ uses[made'] = 0
           /\ \A r \in CodeReqs : codePc[r] \in DOMAIN HeldKind => held[r] # made'
           /\ ReadersOf(made') = {} /\ \A k : made' \notin Live(k)
<1>1. made < MaxTokens /\ made' = made + 1 /\ tokens' = [now EXCEPT ![made + 1] = [kind |-> kind, state |-> "live"]]
  BY DEF Insert
<1>2. made' \in 1..MaxTokens /\ made' \in Tokens /\ made' > made
  BY <1>1, LiveMade DEF Tokens
<1>3. [kind |-> kind, state |-> "live"] \in [kind : Kinds, state : {"none", "live", "used", "expired"}]
  OBVIOUS
<1>4. tokens[made'].state = "none" /\ uses[made'] = 0
  BY <1>2 DEF CodesInv, CodesShape
<1>5. \A r \in CodeReqs : codePc[r] \in DOMAIN HeldKind => held[r] # made'
  BY <1>2, LiveMade DEF CodesInv, CodesShape
<1>6. ReadersOf(made') = {} /\ \A k : made' \notin Live(k)
  BY <1>4, <1>5 DEF ReadersOf, Live, HeldKind
<1> QED
  BY <1>1, <1>2, <1>3, <1>4, <1>5, <1>6

\* The second statement of making a code or link.
LEMMA InsertKeeps ==
    ASSUME CodesInv, NEW r \in CodeReqs, NEW kind \in {"reset", "magic"}, At(r, Inserting[kind]),
           To(r, "idle", 0), Insert(tokens, kind), UNCHANGED <<uses, password, codeFaults>>
    PROVE  CodesInv'
<1>1. "idle" \in CodePcs /\ "idle" \notin Marking /\ 0 \in 0..MaxTokens /\ kind \in Kinds
  BY LiveMade DEF CodePcs, Marking, Kinds
<1>2. /\ codePc' \in [CodeReqs -> CodePcs] /\ held' \in [CodeReqs -> 0..MaxTokens]
      /\ codePc'[r] = "idle" /\ held'[r] = 0
      /\ \A q \in CodeReqs \ {r} : codePc'[q] = codePc[q] /\ held'[q] = held[q]
      /\ \A t : ReadersOf(t)' = ReadersOf(t) \ {r}
      /\ AtPc("insertReset")' = AtPc("insertReset") \ {r}
      /\ AtPc("insertMagic")' = AtPc("insertMagic") \ {r}
  BY <1>1, CodeMoves
<1>3. tokens \in [Tokens -> [kind : Kinds, state : {"none", "live", "used", "expired"}]]
  BY DEF CodesInv, CodesTypeOK
<1>4. /\ made' = made + 1 /\ made' \in 1..MaxTokens /\ made' \in Tokens
      /\ tokens' \in [Tokens -> [kind : Kinds, state : {"none", "live", "used", "expired"}]]
      /\ tokens'[made'].kind = kind /\ tokens'[made'].state = "live"
      /\ \A t \in Tokens \ {made'} : tokens'[t] = tokens[t]
      /\ tokens[made'].state = "none" /\ uses[made'] = 0
      /\ \A q \in CodeReqs : codePc[q] \in DOMAIN HeldKind => held[q] # made'
      /\ ReadersOf(made') = {} /\ \A k : made' \notin Live(k)
  BY <1>1, <1>3, InsertTokens
<1>5. CodesTypeOK'
  BY <1>2, <1>4 DEF CodesInv, CodesTypeOK
<1>6. CodesShape'
  <2>1. \A t \in Tokens : t > made' => t > made /\ t # made'
    BY <1>4, LiveMade DEF Tokens
  <2>2. \A t \in Tokens : t > made' => tokens'[t].state = "none"
    BY <1>4, <2>1 DEF CodesInv, CodesShape
  <2>3. \A t \in Tokens : tokens'[t].state \in {"none", "live"} => uses'[t] = 0
    BY <1>4 DEF CodesInv, CodesShape
  <2>4. 1..made \subseteq 1..made' /\ 1..made \subseteq Tokens
    BY <1>4, LiveMade
  <2>5. \A q \in CodeReqs : codePc'[q] \in DOMAIN HeldKind =>
           held'[q] \in 1..made' /\ tokens'[held'[q]].kind = HeldKind[codePc'[q]]
    BY <1>2, <1>4, <2>4 DEF CodesInv, CodesShape, HeldKind
  <2>6. \A q \in CodeReqs : codePc'[q] = "setPassword" => uses'[held'[q]] > 0
    BY <1>2 DEF CodesInv, CodesShape, At
  <2> QED
    BY <2>2, <2>3, <2>5, <2>6 DEF CodesShape, At, HeldKind
<1>7. CodesSingleUse'
  <2>1. \A t \in Tokens : ReadersOf(t)' = ReadersOf(t)
    <3>1. \A t : r \notin ReadersOf(t)
      BY DEF ReadersOf, At, Inserting
    <3> QED
      BY <1>2, <3>1
  <2>2. \A t \in Tokens : uses'[t] + Cardinality(ReadersOf(t))' <=
           IF tokens'[t].kind = "once" THEN 1 ELSE Cardinality(CodeReqs)
    <3> SUFFICES ASSUME NEW t \in Tokens
                 PROVE  uses'[t] + Cardinality(ReadersOf(t))' <=
                           IF tokens'[t].kind = "once" THEN 1 ELSE Cardinality(CodeReqs)
      OBVIOUS
    <3>1. CASE t = made'
      <4>1. Cardinality(ReadersOf(t))' = 0 /\ uses'[t] = 0
        BY <1>4, <2>1, <3>1, FS_EmptySet
      <4> QED
        BY <4>1, CodeSetsFinite
    <3>2. CASE t # made'
      BY <1>4, <2>1, <3>2, SingleUseIs DEF CodesInv
    <3> QED
      BY <3>1, <3>2
  <2>3. ASSUME NEW k \in {"reset", "magic"}
        PROVE  Cardinality(Live(k))' + Cardinality(AtPc(Inserting[k]))' <= Cardinality(CodeReqs)
    <3>0. Cardinality(Live(k)) + Cardinality(AtPc(Inserting[k])) <= Cardinality(CodeReqs)
      BY SingleUseIs DEF CodesInv, Inserting
    <3>1. CASE k = kind
      <4>1. Live(k)' = Live(k) \cup {made'} /\ made' \notin Live(k)
        BY <1>4, <3>1 DEF Live
      <4>2. AtPc(Inserting[k])' = AtPc(Inserting[k]) \ {r} /\ r \in AtPc(Inserting[k])
        BY <1>2, <3>1 DEF AtPc, Inserting
      <4>3. Cardinality(Live(k)') = Cardinality(Live(k)) + 1
        BY <4>1, AddCard, CodeSetsFinite
      <4>4. Cardinality(AtPc(Inserting[k])') = Cardinality(AtPc(Inserting[k])) - 1
        BY <4>2, DropCard, CodeSetsFinite
      <4> QED
        BY <3>0, <4>3, <4>4, CodeSetsFinite
    <3>2. CASE k # kind
      <4>1. Live(k)' \subseteq Live(k)
        BY <1>4, <3>2 DEF Live
      <4>2. AtPc(Inserting[k])' \subseteq AtPc(Inserting[k])
        BY <1>2 DEF Inserting
      <4> QED
        BY <3>0, <4>1, <4>2, FewerLive, CodeSetsFinite
    <3> QED
      BY <3>1, <3>2
  <2>4. /\ Cardinality(Live("reset"))' + Cardinality(AtPc("insertReset"))' <= Cardinality(CodeReqs)
        /\ Cardinality(Live("magic"))' + Cardinality(AtPc("insertMagic"))' <= Cardinality(CodeReqs)
    BY <2>3 DEF Inserting
  <2>5. password' # 0 => uses'[password'] > 0
    BY SingleUseIs DEF CodesInv
  <2> QED
    BY <2>2, <2>4, <2>5 DEF CodesSingleUse, AtPc
<1> QED
  BY <1>5, <1>6, <1>7 DEF CodesInv

\* A one-time or a verification token is made by one statement.
LEMMA OtherInsertKeeps ==
    ASSUME CodesInv, CreateOneTimeToken \/ SendVerificationEmail
    PROVE  CodesInv'
<1> DEFINE now == IF CreateOneTimeToken THEN tokens ELSE Spent(Live("verify"))
<1>1. /\ now \in [Tokens -> [kind : Kinds, state : {"none", "live", "used", "expired"}]]
      /\ \A t \in Tokens : now[t].kind = tokens[t].kind
      /\ \A t \in Tokens : now[t] = tokens[t] \/ (tokens[t].kind = "verify" /\ now[t].state = "used")
  <2>1. tokens \in [Tokens -> [kind : Kinds, state : {"none", "live", "used", "expired"}]]
    BY DEF CodesInv, CodesTypeOK
  <2> QED
    BY <2>1 DEF Spent, Live
<1>2. PICK kind \in {"once", "verify"} : Insert(now, kind)
  <2>1. CASE CreateOneTimeToken
    BY <2>1 DEF CreateOneTimeToken
  <2>2. CASE ~CreateOneTimeToken
    BY <2>2 DEF SendVerificationEmail
  <2> QED
    BY <2>1, <2>2
<1>3. UNCHANGED <<uses, password, codePc, held, codeFaults>>
  BY DEF CreateOneTimeToken, SendVerificationEmail
<1> HIDE DEF now
<1>4. kind \in Kinds
  BY DEF Kinds
<1>5. /\ made' = made + 1 /\ made' \in 1..MaxTokens /\ made' \in Tokens
      /\ tokens' \in [Tokens -> [kind : Kinds, state : {"none", "live", "used", "expired"}]]
      /\ tokens'[made'].kind = kind /\ tokens'[made'].state = "live"
      /\ \A t \in Tokens \ {made'} : tokens'[t] = now[t]
      /\ tokens[made'].state = "none" /\ uses[made'] = 0
      /\ \A q \in CodeReqs : codePc[q] \in DOMAIN HeldKind => held[q] # made'
      /\ ReadersOf(made') = {} /\ \A k : made' \notin Live(k)
  BY <1>1, <1>2, <1>4, InsertTokens
<1>6. CodesTypeOK'
  BY <1>3, <1>5 DEF CodesInv, CodesTypeOK
<1>7. CodesShape'
  <2>1. \A t \in Tokens : t > made' => t > made /\ t # made'
    BY <1>5, LiveMade DEF Tokens
  <2>2. \A t \in Tokens : t > made => now[t].state = "none"
    <3>1. \A t \in Tokens : t > made => tokens[t].state = "none"
      BY DEF CodesInv, CodesShape
    <3>2. \A t \in Tokens : tokens[t].state = "none" => now[t] = tokens[t]
      BY <1>1 DEF now, Spent, Live, CodesInv, CodesTypeOK
    <3> QED
      BY <3>1, <3>2
  <2>3. \A t \in Tokens : t > made' => tokens'[t].state = "none"
    BY <1>5, <2>1, <2>2
  <2>4. \A t \in Tokens : tokens'[t].state \in {"none", "live"} => uses'[t] = 0
    BY <1>1, <1>3, <1>5 DEF CodesInv, CodesShape
  <2>5. 1..made \subseteq 1..made' /\ 1..made \subseteq Tokens
    BY <1>5, LiveMade
  <2>6. \A q \in CodeReqs : codePc'[q] \in DOMAIN HeldKind =>
           held'[q] \in 1..made' /\ tokens'[held'[q]].kind = HeldKind[codePc'[q]]
    BY <1>1, <1>3, <1>5, <2>5 DEF CodesInv, CodesShape, HeldKind
  <2>7. \A q \in CodeReqs : codePc'[q] = "setPassword" => uses'[held'[q]] > 0
    BY <1>3 DEF CodesInv, CodesShape, At
  <2> QED
    BY <2>3, <2>4, <2>6, <2>7 DEF CodesShape, At, HeldKind
<1>8. CodesSingleUse'
  <2>1. \A t : ReadersOf(t)' = ReadersOf(t)
    BY <1>3 DEF ReadersOf
  <2>2. AtPc("insertReset")' = AtPc("insertReset") /\ AtPc("insertMagic")' = AtPc("insertMagic")
    BY <1>3 DEF AtPc, At
  <2>3. Live("reset")' = Live("reset") /\ Live("magic")' = Live("magic")
    <3>1. \A t \in Tokens \ {made'} : tokens[t].kind # "verify" => tokens'[t] = tokens[t]
      BY <1>1, <1>5
    <3>2. \A t \in Tokens : tokens'[t].kind \in {"reset", "magic"} => t # made' /\ tokens[t].kind = tokens'[t].kind
      BY <1>1, <1>5
    <3>3. \A t \in Tokens : tokens[t].state = "live" => t # made'
      BY <1>5
    <3> QED
      BY <3>1, <3>2, <3>3 DEF Live
  <2>4. ASSUME NEW t \in Tokens
        PROVE  uses'[t] + Cardinality(ReadersOf(t))' <=
                  IF tokens'[t].kind = "once" THEN 1 ELSE Cardinality(CodeReqs)
    <3>1. CASE t = made'
      <4>1. Cardinality(ReadersOf(t))' = 0 /\ uses'[t] = 0
        BY <1>3, <1>5, <2>1, <3>1, FS_EmptySet
      <4> QED
        BY <4>1, CodeSetsFinite
    <3>2. CASE t # made'
      <4>1. tokens'[t].kind = tokens[t].kind /\ uses'[t] = uses[t]
        BY <1>1, <1>3, <1>5, <3>2
      <4> QED
        BY <2>1, <4>1, SingleUseIs DEF CodesInv
    <3> QED
      BY <3>1, <3>2
  <2> QED
    BY <1>3, <2>2, <2>3, <2>4, SingleUseIs DEF CodesInv, CodesSingleUse, AtPc
<1> QED
  BY <1>6, <1>7, <1>8 DEF CodesInv

\* A request reads a live token that it will mark.
LEMMA ReadKeeps ==
    ASSUME CodesInv, NEW r \in CodeReqs, At(r, "idle"), NEW pc \in Marking, NEW t \in Live(HeldKind[pc]),
           To(r, pc, t), UNCHANGED <<tokens, made, uses, password, codeFaults>>
    PROVE  CodesInv'
<1>1. pc \in CodePcs /\ t \in 1..made /\ t \in Tokens /\ t \in 0..MaxTokens
  BY LiveMade DEF Marking, CodePcs, Tokens
<1>2. /\ codePc' \in [CodeReqs -> CodePcs] /\ held' \in [CodeReqs -> 0..MaxTokens]
      /\ codePc'[r] = pc /\ held'[r] = t
      /\ \A q \in CodeReqs \ {r} : codePc'[q] = codePc[q] /\ held'[q] = held[q]
      /\ \A x : x # t => ReadersOf(x)' = ReadersOf(x) \ {r}
      /\ AtPc("insertReset")' = AtPc("insertReset") \ {r}
      /\ AtPc("insertMagic")' = AtPc("insertMagic") \ {r}
  BY <1>1, CodeMoves DEF Marking
<1>3. tokens[t].kind = HeldKind[pc] /\ tokens[t].state = "live" /\ pc \in DOMAIN HeldKind /\ pc # "setPassword"
      /\ tokens[t].kind # "once" /\ uses[t] = 0
  BY <1>1 DEF Live, Marking, HeldKind, CodesInv, CodesShape
<1>4. CodesTypeOK'
  BY <1>2 DEF CodesInv, CodesTypeOK
<1>5. CodesShape'
  <2>1. \A q \in CodeReqs : codePc'[q] \in DOMAIN HeldKind =>
           held'[q] \in 1..made' /\ tokens'[held'[q]].kind = HeldKind[codePc'[q]]
    BY <1>1, <1>2, <1>3 DEF CodesInv, CodesShape
  <2>2. \A q \in CodeReqs : codePc'[q] = "setPassword" => uses'[held'[q]] > 0
    BY <1>2, <1>3 DEF CodesInv, CodesShape, At
  <2> QED
    BY <2>1, <2>2 DEF CodesInv, CodesShape, At, HeldKind
<1>6. CodesSingleUse'
  <2>1. ASSUME NEW x \in Tokens
        PROVE  uses'[x] + Cardinality(ReadersOf(x))' <=
                  IF tokens'[x].kind = "once" THEN 1 ELSE Cardinality(CodeReqs)
    <3>1. CASE x = t
      <4>1. ReadersOf(x)' \subseteq CodeReqs
        BY DEF ReadersOf
      <4>2. Cardinality(ReadersOf(x)') \in Nat /\ Cardinality(ReadersOf(x)') <= Cardinality(CodeReqs)
        BY <4>1, SubsetCard, CodesAssumption DEF CodesAssumption
      <4> QED
        BY <1>3, <3>1, <4>2, CodeSetsFinite
    <3>2. CASE x # t
      <4>1. r \notin ReadersOf(x)
        BY DEF ReadersOf, At
      <4>2. ReadersOf(x)' = ReadersOf(x)
        BY <1>2, <3>2, <4>1
      <4> QED
        BY <4>2, SingleUseIs DEF CodesInv
    <3> QED
      BY <3>1, <3>2
  <2>2. Live("reset")' = Live("reset") /\ Live("magic")' = Live("magic")
    BY DEF Live
  <2>3. /\ Cardinality(Live("reset"))' + Cardinality(AtPc("insertReset"))' <= Cardinality(CodeReqs)
        /\ Cardinality(Live("magic"))' + Cardinality(AtPc("insertMagic"))' <= Cardinality(CodeReqs)
    BY <1>2, <2>2, FewerLive, CodeSetsFinite, SingleUseIs DEF CodesInv
  <2> QED
    BY <2>1, <2>3, SingleUseIs DEF CodesInv, CodesSingleUse, AtPc
<1> QED
  BY <1>4, <1>5, <1>6 DEF CodesInv

\* A request marks the token it has read, with other tokens of the kind at most.
LEMMA MarkKeeps ==
    ASSUME CodesInv, NEW r \in CodeReqs, codePc[r] \in Marking, NEW ts, held[r] \in ts, ts \subseteq 1..made,
           tokens' = Spent(ts), Used(held[r]),
           NEW pc \in {"idle", "setPassword"}, NEW x \in 0..MaxTokens, To(r, pc, x),
           pc = "setPassword" => x = held[r] /\ At(r, "markReset"),
           UNCHANGED <<made, password, codeFaults>>
    PROVE  CodesInv'
<1> DEFINE t == held[r]
<1>1. t \in 1..made /\ t \in Tokens /\ r \in ReadersOf(t) /\ tokens[t].kind = HeldKind[codePc[r]]
      /\ tokens[t].kind # "once" /\ codePc[r] \in DOMAIN HeldKind
  BY LiveMade DEF CodesInv, CodesShape, Marking, HeldKind, ReadersOf
<1>2. pc \in CodePcs /\ pc \notin Marking
  BY DEF CodePcs, Marking
<1>3. /\ codePc' \in [CodeReqs -> CodePcs] /\ held' \in [CodeReqs -> 0..MaxTokens]
      /\ codePc'[r] = pc /\ held'[r] = x
      /\ \A q \in CodeReqs \ {r} : codePc'[q] = codePc[q] /\ held'[q] = held[q]
      /\ \A y : ReadersOf(y)' = ReadersOf(y) \ {r}
      /\ AtPc("insertReset")' = AtPc("insertReset") \ {r}
      /\ AtPc("insertMagic")' = AtPc("insertMagic") \ {r}
  BY <1>2, CodeMoves
<1>4. /\ tokens' \in [Tokens -> [kind : Kinds, state : {"none", "live", "used", "expired"}]]
      /\ \A y \in Tokens : tokens'[y].kind = tokens[y].kind
      /\ \A y \in Tokens \ ts : tokens'[y] = tokens[y]
      /\ \A y \in Tokens \cap ts : tokens'[y].state = "used"
      /\ \A k : Live(k)' = Live(k) \ ts
      /\ \A y \in Tokens : y > made => tokens'[y].state = "none"
  BY Spending
<1>5. /\ uses' \in [Tokens -> Nat] /\ uses'[t] = uses[t] + 1 /\ uses[t] \in Nat
      /\ \A y \in Tokens \ {t} : uses'[y] = uses[y]
  BY <1>1 DEF Used, CodesInv, CodesTypeOK
<1> HIDE DEF t
<1>6. CodesTypeOK'
  BY <1>3, <1>4, <1>5 DEF CodesInv, CodesTypeOK
<1>7. \A y \in Tokens : uses[y] > 0 => uses'[y] > 0
  BY <1>5 DEF CodesInv, CodesTypeOK
<1>8. CodesShape'
  <2>1. \A y \in Tokens : tokens'[y].state \in {"none", "live"} => uses'[y] = 0
    <3>1. \A y \in Tokens : tokens'[y].state \in {"none", "live"} => y \notin ts
      BY <1>4
    <3>2. \A y \in Tokens : y \notin ts => y # t
      BY DEF t
    <3> QED
      BY <1>4, <1>5, <3>1, <3>2 DEF CodesInv, CodesShape
  <2>2. \A q \in CodeReqs : codePc'[q] \in DOMAIN HeldKind =>
           held'[q] \in 1..made' /\ tokens'[held'[q]].kind = HeldKind[codePc'[q]]
    <3>1. pc = "setPassword" => tokens[t].kind = "reset" /\ x = t
      BY <1>1 DEF t, At, HeldKind
    <3>2. pc \in DOMAIN HeldKind => pc = "setPassword" /\ HeldKind[pc] = "reset"
      BY DEF HeldKind
    <3>3. \A q \in CodeReqs \ {r} : codePc[q] \in DOMAIN HeldKind =>
             held[q] \in 1..made /\ held[q] \in Tokens /\ tokens[held[q]].kind = HeldKind[codePc[q]]
      BY LiveMade DEF CodesInv, CodesShape
    <3> QED
      BY <1>1, <1>3, <1>4, <3>1, <3>2, <3>3
  <2>3. \A q \in CodeReqs : codePc'[q] = "setPassword" => uses'[held'[q]] > 0
    <3>1. \A q \in CodeReqs \ {r} : codePc[q] = "setPassword" => held[q] \in Tokens /\ uses[held[q]] > 0
      BY LiveMade DEF CodesInv, CodesShape, At, HeldKind
    <3>2. uses'[t] > 0
      BY <1>5
    <3> QED
      BY <1>3, <1>7, <3>1, <3>2 DEF t
  <2> QED
    BY <1>4, <2>1, <2>2, <2>3 DEF CodesShape, At, HeldKind
<1>9. CodesSingleUse'
  <2>1. ASSUME NEW y \in Tokens
        PROVE  uses'[y] + Cardinality(ReadersOf(y))' <=
                  IF tokens'[y].kind = "once" THEN 1 ELSE Cardinality(CodeReqs)
    <3>0. uses[y] + Cardinality(ReadersOf(y)) <= IF tokens[y].kind = "once" THEN 1 ELSE Cardinality(CodeReqs)
      BY SingleUseIs DEF CodesInv
    <3>1. CASE y = t
      <4>1. r \in ReadersOf(y) /\ ReadersOf(y)' = ReadersOf(y) \ {r}
        BY <1>1, <1>3, <3>1
      <4>2. Cardinality(ReadersOf(y)') = Cardinality(ReadersOf(y)) - 1
        BY <4>1, DropCard, CodeSetsFinite
      <4>3. uses'[y] = uses[y] + 1 /\ uses[y] \in Nat
        BY <1>5, <3>1
      <4>4. Cardinality(ReadersOf(y)) \in Nat /\ Cardinality(CodeReqs) \in Nat
        BY CodeSetsFinite, FS_CardinalityType, CodesAssumption
      <4>5. tokens'[y].kind = tokens[y].kind
        BY <1>4
      <4> QED
        BY <3>0, <4>2, <4>3, <4>4, <4>5
    <3>2. CASE y # t
      <4>1. r \notin ReadersOf(y)
        BY <3>2 DEF ReadersOf, t
      <4>2. ReadersOf(y)' = ReadersOf(y)
        BY <1>3, <4>1
      <4> QED
        BY <1>4, <1>5, <3>0, <3>2, <4>2
    <3> QED
      BY <3>1, <3>2
  <2>2. /\ Cardinality(Live("reset"))' + Cardinality(AtPc("insertReset"))' <= Cardinality(CodeReqs)
        /\ Cardinality(Live("magic"))' + Cardinality(AtPc("insertMagic"))' <= Cardinality(CodeReqs)
    <3>1. /\ Live("reset")' \subseteq Live("reset") /\ Live("magic")' \subseteq Live("magic")
      BY <1>4
    <3> QED
      BY <1>3, <3>1, FewerLive, CodeSetsFinite, SingleUseIs DEF CodesInv
  <2>3. password' # 0 => uses'[password'] > 0
    <3>1. password # 0 => password \in Tokens /\ uses[password] > 0
      BY SingleUseIs, LiveMade DEF CodesInv, CodesTypeOK, Tokens
    <3> QED
      BY <1>7, <3>1
  <2> QED
    BY <2>1, <2>2, <2>3 DEF CodesSingleUse, AtPc
<1> QED
  BY <1>6, <1>8, <1>9 DEF CodesInv

\* A request ends, having set the password or failed.
LEMMA EndKeeps ==
    ASSUME CodesInv, NEW r \in CodeReqs, To(r, "idle", 0), UNCHANGED <<tokens, made, uses>>,
           codeFaults' \in 0..MaxCodeFaults,
           password' = password \/ (At(r, "setPassword") /\ password' = held[r])
    PROVE  CodesInv'
<1>1. "idle" \in CodePcs /\ "idle" \notin Marking /\ 0 \in 0..MaxTokens
  BY LiveMade DEF CodePcs, Marking
<1>2. /\ codePc' \in [CodeReqs -> CodePcs] /\ held' \in [CodeReqs -> 0..MaxTokens]
      /\ codePc'[r] = "idle" /\ held'[r] = 0
      /\ \A q \in CodeReqs \ {r} : codePc'[q] = codePc[q] /\ held'[q] = held[q]
      /\ \A y : ReadersOf(y)' = ReadersOf(y) \ {r}
      /\ AtPc("insertReset")' = AtPc("insertReset") \ {r}
      /\ AtPc("insertMagic")' = AtPc("insertMagic") \ {r}
  BY <1>1, CodeMoves
<1>3. password' \in 0..MaxTokens /\ (password' # 0 => uses[password'] > 0)
  BY SingleUseIs DEF CodesInv, CodesTypeOK, CodesShape
<1>4. CodesTypeOK'
  BY <1>2, <1>3 DEF CodesInv, CodesTypeOK
<1>5. CodesShape'
  BY <1>2 DEF CodesInv, CodesShape, At, HeldKind
<1>6. CodesSingleUse'
  <2>1. ASSUME NEW y \in Tokens
        PROVE  uses'[y] + Cardinality(ReadersOf(y))' <=
                  IF tokens'[y].kind = "once" THEN 1 ELSE Cardinality(CodeReqs)
    <3>1. Cardinality(ReadersOf(y)') <= Cardinality(ReadersOf(y)) /\ Cardinality(ReadersOf(y)') \in Nat
      BY <1>2, SubsetCard, CodeSetsFinite
    <3>2. uses[y] + Cardinality(ReadersOf(y)) <= (IF tokens[y].kind = "once" THEN 1 ELSE Cardinality(CodeReqs))
          /\ uses[y] \in Nat
      BY SingleUseIs DEF CodesInv, CodesTypeOK
    <3> QED
      BY <3>1, <3>2, CodeSetsFinite
  <2>2. Live("reset")' = Live("reset") /\ Live("magic")' = Live("magic")
    BY DEF Live
  <2>3. /\ Cardinality(Live("reset"))' + Cardinality(AtPc("insertReset"))' <= Cardinality(CodeReqs)
        /\ Cardinality(Live("magic"))' + Cardinality(AtPc("insertMagic"))' <= Cardinality(CodeReqs)
    BY <1>2, <2>2, FewerLive, CodeSetsFinite, SingleUseIs DEF CodesInv
  <2> QED
    BY <1>3, <2>1, <2>3 DEF CodesSingleUse, AtPc
<1> QED
  BY <1>4, <1>5, <1>6 DEF CodesInv

\* A live token is used up by one statement, or expires.
LEMMA LiveEndsKeeps ==
    ASSUME CodesInv, TokenExchange \/ TokenExpires
    PROVE  CodesInv'
<1>1. UNCHANGED <<made, password, codePc, held, codeFaults>>
  BY DEF TokenExchange, TokenExpires
<1>2. PICK t \in Tokens :
         /\ tokens[t].state = "live"
         /\ \/ tokens' = Spent({t}) /\ Used(t) /\ tokens[t].kind = "once"
            \/ tokens' = [tokens EXCEPT ![t].state = "expired"] /\ uses' = uses
  BY DEF TokenExchange, TokenExpires, Live
<1>3. /\ tokens \in [Tokens -> [kind : Kinds, state : {"none", "live", "used", "expired"}]]
      /\ uses \in [Tokens -> Nat] /\ uses[t] = 0
  BY <1>2 DEF CodesInv, CodesTypeOK, CodesShape
<1>4. /\ tokens' \in [Tokens -> [kind : Kinds, state : {"none", "live", "used", "expired"}]]
      /\ tokens'[t].kind = tokens[t].kind /\ tokens'[t].state \in {"used", "expired"}
      /\ \A y \in Tokens \ {t} : tokens'[y] = tokens[y]
  <2>1. CASE tokens' = Spent({t})
    BY <1>3, <2>1 DEF Spent
  <2>2. CASE tokens' = [tokens EXCEPT ![t].state = "expired"]
    BY <1>3, <2>2
  <2> QED
    BY <1>2, <2>1, <2>2
<1>5. /\ uses' \in [Tokens -> Nat] /\ (uses'[t] = 0 \/ (uses'[t] = 1 /\ tokens[t].kind = "once"))
      /\ \A y \in Tokens \ {t} : uses'[y] = uses[y]
  BY <1>2, <1>3 DEF Used
<1>6. CodesTypeOK'
  BY <1>1, <1>4, <1>5 DEF CodesInv, CodesTypeOK
<1>7. /\ \A y : ReadersOf(y)' = ReadersOf(y)
      /\ AtPc("insertReset")' = AtPc("insertReset") /\ AtPc("insertMagic")' = AtPc("insertMagic")
      /\ Live("reset")' \subseteq Live("reset") /\ Live("magic")' \subseteq Live("magic")
  BY <1>1, <1>4 DEF ReadersOf, AtPc, At, Live
<1>8. t \in 1..made
  BY <1>2, LiveMade DEF CodesInv, CodesShape, Tokens
<1>9. \A y \in Tokens : uses[y] > 0 => uses'[y] > 0
  BY <1>3, <1>5
<1>10. CodesShape'
  <2>1. \A y \in Tokens : y > made => y # t
    BY <1>8, LiveMade DEF Tokens
  <2>2. \A y \in Tokens : y > made' => tokens'[y].state = "none"
    BY <1>1, <1>4, <2>1 DEF CodesInv, CodesShape
  <2>3. \A y \in Tokens : tokens'[y].state \in {"none", "live"} => uses'[y] = 0
    BY <1>4, <1>5 DEF CodesInv, CodesShape
  <2>4. \A q \in CodeReqs : codePc'[q] \in DOMAIN HeldKind =>
           held'[q] \in 1..made' /\ tokens'[held'[q]].kind = HeldKind[codePc'[q]]
    BY <1>1, <1>4, LiveMade DEF CodesInv, CodesShape
  <2>5. \A q \in CodeReqs : codePc'[q] = "setPassword" => uses'[held'[q]] > 0
    BY <1>1, <1>9, LiveMade DEF CodesInv, CodesShape, At, HeldKind
  <2> QED
    BY <2>2, <2>3, <2>4, <2>5 DEF CodesShape, At, HeldKind
<1>11. CodesSingleUse'
  <2>1. ASSUME NEW y \in Tokens
        PROVE  uses'[y] + Cardinality(ReadersOf(y))' <=
                  IF tokens'[y].kind = "once" THEN 1 ELSE Cardinality(CodeReqs)
    <3>0. uses[y] + Cardinality(ReadersOf(y)) <= IF tokens[y].kind = "once" THEN 1 ELSE Cardinality(CodeReqs)
      BY SingleUseIs DEF CodesInv
    <3>1. CASE y = t /\ uses'[t] = 1
      <4>1. tokens[t].kind = "once"
        BY <1>5, <3>1
      <4>2. ReadersOf(t) = {}
        BY <4>1 DEF ReadersOf, CodesInv, CodesShape, HeldKind
      <4>3. Cardinality(ReadersOf(t)') = 0
        BY <1>7, <4>2, FS_EmptySet
      <4> QED
        BY <1>4, <3>1, <4>1, <4>3
    <3>2. CASE ~(y = t /\ uses'[t] = 1)
      <4>1. uses'[y] = uses[y] /\ tokens'[y].kind = tokens[y].kind
        BY <1>3, <1>4, <1>5, <3>2
      <4> QED
        BY <1>7, <3>0, <4>1
    <3> QED
      BY <3>1, <3>2
  <2>2. /\ Cardinality(Live("reset"))' + Cardinality(AtPc("insertReset"))' <= Cardinality(CodeReqs)
        /\ Cardinality(Live("magic"))' + Cardinality(AtPc("insertMagic"))' <= Cardinality(CodeReqs)
    BY <1>7, FewerLive, CodeSetsFinite, SingleUseIs DEF CodesInv
  <2>3. password' # 0 => uses'[password'] > 0
    <3>1. password # 0 => password \in Tokens /\ uses[password] > 0
      BY SingleUseIs, LiveMade DEF CodesInv, CodesTypeOK, Tokens
    <3> QED
      BY <1>1, <1>9, <3>1
  <2> QED
    BY <2>1, <2>2, <2>3 DEF CodesSingleUse, AtPc
<1> QED
  BY <1>6, <1>10, <1>11 DEF CodesInv

LEMMA CodesKeep == ASSUME CodesInv, [CodesNext]_codeVars PROVE CodesInv'
<1>1. ASSUME NEW r \in CodeReqs, ForgotPassword(r) \/ CreateMagicLink(r) PROVE CodesInv'
  BY <1>1, MakeKeeps DEF ForgotPassword, CreateMagicLink, Inserting
<1>2. ASSUME NEW r \in CodeReqs, InsertReset(r) \/ InsertMagic(r) PROVE CodesInv'
  BY <1>2, InsertKeeps DEF InsertReset, InsertMagic, Inserting
<1>3. ASSUME NEW r \in CodeReqs, ResetPassword(r) \/ Exchange(r) \/ VerifyEmail(r) PROVE CodesInv'
  BY <1>3, ReadKeeps DEF ResetPassword, Exchange, VerifyEmail, Marking, HeldKind
<1>4. ASSUME NEW r \in CodeReqs, MarkReset(r) \/ MarkMagic(r) \/ SetEmailVerified(r) PROVE CodesInv'
  <2>1. codePc[r] \in Marking
    BY <1>4 DEF MarkReset, MarkMagic, SetEmailVerified, Marking, At
  <2>2. held[r] \in 1..made /\ held[r] \in 0..MaxTokens /\ 0 \in 0..MaxTokens
    BY <2>1, LiveMade DEF CodesInv, CodesShape, CodesTypeOK, Marking, HeldKind
  <2>3. {held[r]} \subseteq 1..made /\ Live("verify") \union {held[r]} \subseteq 1..made
    BY <2>2, LiveMade
  <2>4. CASE MarkReset(r)
    BY <2>1, <2>2, <2>3, <2>4, MarkKeeps DEF MarkReset
  <2>5. CASE MarkMagic(r)
    BY <2>1, <2>2, <2>3, <2>5, MarkKeeps DEF MarkMagic
  <2>6. CASE SetEmailVerified(r)
    <3>1. held[r] \in Live("verify") \union {held[r]}
      OBVIOUS
    <3> QED
      BY <2>1, <2>2, <2>3, <2>6, <3>1, MarkKeeps DEF SetEmailVerified
  <2> QED
    BY <1>4, <2>4, <2>5, <2>6
<1>5. ASSUME NEW r \in CodeReqs, UpdatePassword(r) \/ CodeFails(r) PROVE CodesInv'
  <2>1. codeFaults' \in 0..MaxCodeFaults
    BY <1>5, CodesAssumption DEF UpdatePassword, CodeFails, CodesInv, CodesTypeOK, CodesAssumption
  <2> QED
    BY <1>5, <2>1, EndKeeps DEF UpdatePassword, CodeFails
<1>6. CASE UNCHANGED codeVars
  BY <1>6 DEF codeVars, CodesInv, CodesTypeOK, CodesShape, CodesSingleUse, ReadersOf, Live, At
<1> QED
  BY <1>1, <1>2, <1>3, <1>4, <1>5, <1>6, OtherInsertKeeps, LiveEndsKeeps DEF CodesNext

\* The invariant of the codes (codes and links, as auth.go, magic_link.go and
\* store.go make, read and mark them) holds however requests interleave and
\* statements fail.
THEOREM CodesInductive == CodesSpec => []CodesInv
BY InitCodesInv, CodesKeep, PTL DEF CodesSpec

\* A one-time token is used once, any other code by no more requests than had read
\* it together; no more codes are live than requests made together; the password
\* is set with an accepted code (auth.go, magic_link.go).
THEOREM CodesAreSingleUse == CodesSpec => []CodesSingleUse
<1>1. CodesInv => CodesSingleUse
  BY DEF CodesInv
<1> QED
  BY <1>1, CodesInductive, PTL

-----------------------------------------------------------------------------
(***************************************************************************)
(* The gates in front of a management request.                              *)
(***************************************************************************)
GateReq == [at : GateSteps, route : Routes, role : MemberRoles,
            held : SUBSET Conditions, waived : SUBSET Conditions]

LEMMA InitGatesInv == GatesInit => GatesInv
<1> SUFFICES ASSUME GatesInit PROVE GatesInv
  OBVIOUS
<1>1. NoGateRequest \in GateReq /\ GateHistory(NoGateRequest)
  BY DEF NoGateRequest, GateReq, GateSteps, Routes, MemberRoles, GateHistory, PastGates
<1>2. 0 \in 0..MaxGateChanges /\ 0 \in 0..MaxGateFaults
  BY GatesAssumption DEF GatesAssumption
<1>3. licenseKey \in LicenseKeys /\ oldRoles \subseteq MemberRoles /\ gatePlan \in GatePlans
      /\ memberRole \in MemberRoles /\ envPerm \in EnvPerms /\ memberRole # "none"
  BY DEF GatesInit, LicenseKeys, MemberRoles, GatePlans, EnvPerms
<1>4. gateReq \in [GateRequests -> GateReq]
  BY <1>1 DEF GatesInit
<1>5. GatesTypeOK
  BY <1>2, <1>3, <1>4 DEF GatesInit, GatesTypeOK, GateReq
<1>6. \A q \in GateRequests : GateHistory(gateReq[q])
  BY <1>1 DEF GatesInit
<1> QED
  BY <1>3, <1>5, <1>6 DEF GatesInv

\* A change outside keeps the histories, which take note of it.
LEMMA WitnessKeeps ==
    ASSUME GatesInv, gateReq' = Witness(gateReq)
    PROVE  /\ gateReq' \in [GateRequests -> GateReq]
           /\ \A q \in GateRequests : GateHistory(gateReq[q])'
<1> SUFFICES ASSUME NEW q \in GateRequests
             PROVE  gateReq'[q] \in GateReq /\ GateHistory(gateReq[q])'
  BY DEF Witness
<1> DEFINE r == gateReq[q]
           new == {c \in Conditions : <<c, r.route, r.role>> \in Granted'}
<1>1. r \in GateReq /\ GateHistory(r)
  BY DEF GatesInv, GatesTypeOK, GateReq
<1>2. CASE r.at \in {"idle", "served", "refused"}
  <2>1. gateReq'[q] = r
    BY <1>2 DEF Witness
  <2> QED
    BY <1>1, <1>2, <2>1 DEF GateHistory
<1>3. CASE r.at \notin {"idle", "served", "refused"}
  <2>1. gateReq'[q] = [r EXCEPT !.held = r.held \union new]
    BY <1>3 DEF Witness
  <2>2. new \subseteq Conditions
    OBVIOUS
  <2>3. \A c \in Conditions, route \in Routes, role \in MemberRoles :
           Satisfied(c, route, role)' => <<c, route, role>> \in Granted'
    BY DEF Granted
  <2>4. /\ gateReq'[q] \in GateReq
        /\ gateReq'[q].at = r.at /\ gateReq'[q].route = r.route /\ gateReq'[q].role = r.role
        /\ gateReq'[q].held = r.held \union new /\ gateReq'[q].waived = r.waived
    BY <1>1, <2>1, <2>2 DEF GateReq
  <2>5. GateHistory(r)
    BY <1>1
  <2>6. PastGates[gateReq'[q].at] \subseteq gateReq'[q].held \union gateReq'[q].waived
    BY <2>4, <2>5 DEF GateHistory
  <2>7. \A c \in Conditions : Satisfied(c, gateReq[q].route, gateReq[q].role)' => c \in gateReq'[q].held
    <3>1. gateReq'[q].route \in Routes /\ gateReq'[q].role \in MemberRoles
      BY <2>4 DEF GateReq
    <3> QED
      BY <2>3, <2>4, <3>1
  <2>8. gateReq'[q].at \in {"plan", "permission"} /\ gateReq'[q].role = "admin"
           /\ "role" \notin gateReq'[q].waived => "permission" \in gateReq'[q].held
    BY <2>4, <2>5 DEF GateHistory
  <2> QED
    BY <2>4, <2>6, <2>7, <2>8 DEF GateHistory, PastGates
<1> QED
  BY <1>2, <1>3

LEMMA ChangeKeeps ==
    ASSUME GatesInv, \/ LicenseExpires \/ PublicKeyChanges \/ UpsertIPAllowlist
                     \/ PlanChanges \/ MemberChanges \/ UpdatePermissions
    PROVE  GatesInv'
<1>1. /\ gateReq' \in [GateRequests -> GateReq]
      /\ \A q \in GateRequests : GateHistory(gateReq[q])'
  BY WitnessKeeps DEF LicenseExpires, PublicKeyChanges, UpsertIPAllowlist, PlanChanges, MemberChanges,
                      UpdatePermissions
<1>2. gateChanges' \in 0..MaxGateChanges /\ gateFaults' = gateFaults
  <2>1. gateChanges < MaxGateChanges /\ gateChanges' = gateChanges + 1 /\ gateFaults' = gateFaults
    BY DEF Change, LicenseExpires, PublicKeyChanges, UpsertIPAllowlist, PlanChanges, MemberChanges,
           UpdatePermissions
  <2> QED
    BY <2>1, GatesAssumption DEF GatesInv, GatesTypeOK, GatesAssumption
<1>3. /\ deployment' = deployment /\ licenseKey' \in {licenseKey, "expired"}
      /\ publicKey' \in BOOLEAN /\ allowlist' \in {"off", "lists", "omits"} /\ gatePlan' \in GatePlans
  <2>1. publicKey \in BOOLEAN /\ allowlist \in {"off", "lists", "omits"} /\ gatePlan \in GatePlans
    BY DEF GatesInv, GatesTypeOK
  <2> QED
    BY <2>1 DEF LicenseExpires, PublicKeyChanges, UpsertIPAllowlist, PlanChanges, MemberChanges, UpdatePermissions
<1>4. /\ memberRole' \in MemberRoles /\ envPerm' \in EnvPerms /\ oldRoles' \subseteq MemberRoles
      /\ memberRole' = "none" => envPerm' = "none"
  <2>1. /\ memberRole \in MemberRoles /\ envPerm \in EnvPerms /\ oldRoles \subseteq MemberRoles
        /\ memberRole = "none" => envPerm = "none"
    BY DEF GatesInv, GatesTypeOK
  <2>2. CASE MemberChanges
    BY <2>1, <2>2 DEF MemberChanges, MemberRoles, EnvPerms
  <2>3. CASE UpdatePermissions
    BY <2>1, <2>3 DEF UpdatePermissions, EnvPerms
  <2>4. CASE LicenseExpires \/ PublicKeyChanges \/ UpsertIPAllowlist \/ PlanChanges
    BY <2>1, <2>4 DEF LicenseExpires, PublicKeyChanges, UpsertIPAllowlist, PlanChanges
  <2> QED
    BY <2>2, <2>3, <2>4
<1>5. GatesTypeOK'
  BY <1>1, <1>2, <1>3, <1>4 DEF GatesInv, GatesTypeOK, GateReq, LicenseKeys
<1> QED
  BY <1>1, <1>4, <1>5 DEF GatesInv

\* One request moves, nothing else.
LEMMA RequestMoves ==
    ASSUME GatesInv, NEW q \in GateRequests, NEW r \in GateReq,
           gateReq' = [gateReq EXCEPT ![q] = r], UNCHANGED <<gateWorld, gateChanges>>,
           gateFaults' \in 0..MaxGateFaults, GateHistory(r)
    PROVE  GatesInv'
<1>1. /\ gateReq \in [GateRequests -> GateReq]
      /\ UNCHANGED <<deployment, licenseKey, publicKey, allowlist, gatePlan, memberRole, envPerm, oldRoles>>
  BY DEF GatesInv, GatesTypeOK, GateReq, gateWorld
<1>2. gateReq' \in [GateRequests -> GateReq]
  BY <1>1
<1>3. GatesTypeOK'
  BY <1>1, <1>2 DEF GatesInv, GatesTypeOK, GateReq
<1>4. \A p \in GateRequests : GateHistory(gateReq'[p])
  BY <1>1 DEF GatesInv
<1>5. \A p \in GateRequests : GateHistory(gateReq[p])'
  BY <1>1, <1>4 DEF GateHistory, Satisfied, IsFeatureEnabled, LicenseVerified
<1> QED
  BY <1>1, <1>3, <1>5 DEF GatesInv

LEMMA ArriveKeeps == ASSUME GatesInv, NEW q \in GateRequests, Arrive(q) PROVE GatesInv'
<1>1. PICK route \in Routes, role \in oldRoles :
         gateReq' = [gateReq EXCEPT ![q] =
             [at |-> "license", route |-> route, role |-> role,
              held |-> {c \in Conditions : Satisfied(c, route, role)}, waived |-> {}]]
  BY DEF Arrive
<1> DEFINE r == [at |-> "license", route |-> route, role |-> role,
                 held |-> {c \in Conditions : Satisfied(c, route, role)}, waived |-> {}]
<1>2. role \in MemberRoles
  BY DEF GatesInv, GatesTypeOK
<1>3. r \in GateReq
  BY <1>2 DEF GateReq, GateSteps
<1>4. GateHistory(r)
  BY DEF GateHistory, PastGates
<1> QED
  BY <1>1, <1>3, <1>4, RequestMoves DEF Arrive, GatesInv, GatesTypeOK

\* A request that is turned away, or passes a gate.
LEMMA TurnAwayKeeps ==
    ASSUME GatesInv, NEW q \in GateRequests, NEW c, TurnAway(q, c), gateFaults' \in 0..MaxGateFaults
    PROVE  GatesInv'
<1> DEFINE r == [gateReq[q] EXCEPT !.at = "refused"]
<1>1. r \in GateReq /\ r.at = "refused"
  BY DEF GatesInv, GatesTypeOK, GateReq, GateSteps
<1>2. gateReq' = [gateReq EXCEPT ![q] = r]
  BY DEF TurnAway
<1> HIDE DEF r
<1>3. GateHistory(r)
  BY <1>1 DEF GateHistory, PastGates
<1> QED
  BY <1>1, <1>2, <1>3, RequestMoves DEF TurnAway

LEMMA PassGateKeeps ==
    ASSUME GatesInv, NEW q \in GateRequests, NEW c \in GateSteps \ {"idle", "served", "refused"},
           NEW next \in GateSteps \ {"idle", "license", "refused"},
           NEW unseen \in BOOLEAN, PassGate(q, c, next, unseen), gateFaults' \in 0..MaxGateFaults,
           LET waived == gateReq[q].waived \union (IF unseen THEN {c} ELSE {})
           IN  /\ PastGates[next] \subseteq gateReq[q].held \union waived
               /\ next \in {"plan", "permission"} /\ gateReq[q].role = "admin" /\ "role" \notin waived =>
                     "permission" \in gateReq[q].held,
           c = "rows" => ~unseen
    PROVE  GatesInv'
<1> DEFINE waived == gateReq[q].waived \union (IF unseen THEN {c} ELSE {})
           r == [gateReq[q] EXCEPT !.at = next, !.waived = IF unseen THEN @ \union {c} ELSE @]
<1>1. gateReq[q] \in GateReq /\ GateHistory(gateReq[q]) /\ gateReq[q].at = c
  BY DEF GatesInv, GatesTypeOK, GateReq, PassGate
<1>2. unseen => c \in Conditions
  BY DEF GateSteps, Conditions
<1>3. /\ r \in GateReq /\ r.at = next /\ r.route = gateReq[q].route /\ r.role = gateReq[q].role
      /\ r.held = gateReq[q].held /\ r.waived = waived
  BY <1>1, <1>2 DEF GateReq
<1>4. gateReq' = [gateReq EXCEPT ![q] = r]
  BY DEF PassGate
<1> HIDE DEF r
<1>5. GateHistory(r)
  BY <1>1, <1>3 DEF GateHistory
<1> QED
  BY <1>3, <1>4, <1>5, RequestMoves DEF PassGate

LEMMA GateFaultsType ==
    ASSUME GatesInv, GateReadFails \/ UNCHANGED gateFaults
    PROVE  gateFaults' \in 0..MaxGateFaults
BY GatesAssumption DEF GatesInv, GatesTypeOK, GateReadFails, GatesAssumption

\* What is satisfied as a request passes is in its history.
LEMMA InHistory ==
    ASSUME GatesInv, NEW q \in GateRequests, gateReq[q].at \notin {"idle", "served", "refused"}
    PROVE  /\ PastGates[gateReq[q].at] \subseteq gateReq[q].held \union gateReq[q].waived
           /\ \A c \in Conditions :
                 Satisfied(c, gateReq[q].route, gateReq[q].role) => c \in gateReq[q].held
BY DEF GatesInv, GateHistory

LEMMA LicenseKeeps == ASSUME GatesInv, NEW q \in GateRequests, LicenseValidation(q) PROVE GatesInv'
<1> DEFINE passes == deployment = "cloud" \/ validateOnPremLicense
                        \/ isCommunityEditionRoute(gateReq[q].route)
           unchecked == deployment = "onprem" /\ licenseKey # "none" /\ ~loadLicensePublicKey
<1>1. gateFaults' \in 0..MaxGateFaults
  BY GateFaultsType DEF LicenseValidation
<1>2. CASE passes /\ PassGate(q, "license", "address", unchecked)
  <2>1. gateReq[q].at = "license"
    BY <1>2 DEF PassGate
  <2>2. ~unchecked => Satisfied("license", gateReq[q].route, gateReq[q].role)
    BY <1>2 DEF Satisfied, validateOnPremLicense, LicenseVerified, GatesInv, GatesTypeOK
  <2>3. ~unchecked => "license" \in gateReq[q].held
    BY <2>1, <2>2, InHistory DEF Conditions
  <2>4. unchecked \in BOOLEAN
    OBVIOUS
  <2> HIDE DEF unchecked
  <2>5. PastGates["address"] = {"license"}
    BY DEF PastGates
  <2>6. /\ "license" \in GateSteps \ {"idle", "served", "refused"}
        /\ "address" \in GateSteps \ {"idle", "license", "refused"}
    BY DEF GateSteps
  <2> QED
    BY <1>1, <1>2, <2>3, <2>4, <2>5, <2>6, PassGateKeeps
<1>3. CASE TurnAway(q, "license")
  BY <1>1, <1>3, TurnAwayKeeps
<1> QED
  BY <1>2, <1>3 DEF LicenseValidation

LEMMA AddressKeeps == ASSUME GatesInv, NEW q \in GateRequests, IPAllowlist(q) PROVE GatesInv'
<1>1. gateFaults' \in 0..MaxGateFaults
  BY GateFaultsType DEF IPAllowlist
<1>2. ASSUME NEW unseen \in BOOLEAN, PassGate(q, "address", "role", unseen), ~unseen => allowlist # "omits"
      PROVE  GatesInv'
  <2>1. gateReq[q].at = "address"
    BY <1>2 DEF PassGate
  <2>2. ~unseen => "address" \in gateReq[q].held
    BY <1>2, <2>1, InHistory DEF Conditions, Satisfied
  <2>3. "license" \in gateReq[q].held \union gateReq[q].waived
    BY <2>1, InHistory DEF PastGates
  <2>4. PastGates["role"] = {"license", "address"}
    BY DEF PastGates
  <2>5. /\ "address" \in GateSteps \ {"idle", "served", "refused"}
        /\ "role" \in GateSteps \ {"idle", "license", "refused"}
    BY DEF GateSteps
  <2> QED
    BY <1>1, <1>2, <2>2, <2>3, <2>4, <2>5, PassGateKeeps
<1>3. CASE TurnAway(q, "address")
  BY <1>1, <1>3, TurnAwayKeeps
<1> QED
  BY <1>2, <1>3 DEF IPAllowlist

LEMMA RoleKeeps == ASSUME GatesInv, NEW q \in GateRequests, RequireRole(q) PROVE GatesInv'
<1>1. gateFaults' \in 0..MaxGateFaults
  BY GateFaultsType DEF RequireRole
<1>2. CASE PassGate(q, "role", "plan", gateReq[q].role # memberRole)
  <2> DEFINE unseen == gateReq[q].role # memberRole
  <2>1. gateReq[q].at = "role"
    BY <1>2 DEF PassGate
  <2>2. ~unseen => Satisfied("role", gateReq[q].route, gateReq[q].role)
    BY DEF Satisfied
  <2>3. ~unseen /\ gateReq[q].role = "admin" => Satisfied("permission", gateReq[q].route, gateReq[q].role)
    BY DEF Satisfied
  <2>4. /\ ~unseen => "role" \in gateReq[q].held
        /\ ~unseen /\ gateReq[q].role = "admin" => "permission" \in gateReq[q].held
    BY <2>1, <2>2, <2>3, InHistory DEF Conditions
  <2>5. {"license", "address"} \subseteq gateReq[q].held \union gateReq[q].waived
    BY <2>1, InHistory DEF PastGates
  <2>6. PastGates["plan"] = {"license", "address", "role"}
    BY DEF PastGates
  <2>7. /\ "role" \in GateSteps \ {"idle", "served", "refused"}
        /\ "plan" \in GateSteps \ {"idle", "license", "refused"}
    BY DEF GateSteps
  <2>8. unseen \in BOOLEAN
    OBVIOUS
  <2> HIDE DEF unseen
  <2>9. PassGate(q, "role", "plan", unseen)
    BY <1>2 DEF unseen
  <2> QED
    BY <1>1, <2>4, <2>5, <2>6, <2>7, <2>8, <2>9, PassGateKeeps
<1>3. CASE TurnAway(q, "role")
  BY <1>1, <1>3, TurnAwayKeeps
<1> QED
  BY <1>2, <1>3 DEF RequireRole

LEMMA PlanKeeps == ASSUME GatesInv, NEW q \in GateRequests, FeatureGate(q) PROVE GatesInv'
<1>1. gateFaults' \in 0..MaxGateFaults
  BY GateFaultsType DEF FeatureGate
<1>2. ASSUME NEW unseen \in BOOLEAN, PassGate(q, "plan", "permission", unseen),
             ~unseen => IsFeatureEnabled(gatePlan, gateReq[q].route)
      PROVE  GatesInv'
  <2>1. gateReq[q].at = "plan"
    BY <1>2 DEF PassGate
  <2>2. ~unseen => "plan" \in gateReq[q].held
    BY <1>2, <2>1, InHistory DEF Conditions, Satisfied
  <2>3. {"license", "address", "role"} \subseteq gateReq[q].held \union gateReq[q].waived
    BY <2>1, InHistory DEF PastGates
  <2>4. gateReq[q].role = "admin" /\ "role" \notin gateReq[q].waived => "permission" \in gateReq[q].held
    BY <2>1 DEF GatesInv, GateHistory
  <2>5. PastGates["permission"] = {"license", "address", "role", "plan"}
    BY DEF PastGates, Conditions
  <2>6. /\ "plan" \in GateSteps \ {"idle", "served", "refused"}
        /\ "permission" \in GateSteps \ {"idle", "license", "refused"}
    BY DEF GateSteps
  <2> QED
    BY <1>1, <1>2, <2>2, <2>3, <2>4, <2>5, <2>6, PassGateKeeps
<1>3. CASE TurnAway(q, "plan")
  BY <1>1, <1>3, TurnAwayKeeps
<1> QED
  BY <1>2, <1>3 DEF FeatureGate

LEMMA PermissionKeeps == ASSUME GatesInv, NEW q \in GateRequests, CheckEnvPermission(q) PROVE GatesInv'
<1>1. gateFaults' \in 0..MaxGateFaults
  BY GateFaultsType DEF CheckEnvPermission
<1>p. gateReq[q].at = "permission" =>
         {"license", "address", "role", "plan"} \subseteq gateReq[q].held \union gateReq[q].waived
  BY InHistory DEF PastGates, Conditions
<1>s. /\ "permission" \in GateSteps \ {"idle", "served", "refused"}
      /\ "served" \in GateSteps \ {"idle", "license", "refused"}
      /\ "rows" \in GateSteps \ {"idle", "license", "refused"}
      /\ PastGates["served"] = {"license", "address", "role", "plan", "permission"}
      /\ PastGates["rows"] = {"license", "address", "role", "plan"}
  BY DEF GateSteps, PastGates, Conditions
<1>2. ASSUME gateReq[q].route # "flags" \/ gateReq[q].role = "admin", NEW unseen \in BOOLEAN,
             unseen <=> gateReq[q].route = "flags" /\ "role" \in gateReq[q].waived,
             PassGate(q, "permission", "served", unseen)
      PROVE  GatesInv'
  <2>1. gateReq[q].at = "permission"
    BY <1>2 DEF PassGate
  <2>2. gateReq[q].route # "flags" => "permission" \in gateReq[q].held
    BY <2>1, InHistory DEF Conditions, Satisfied
  <2>3. gateReq[q].role = "admin" /\ "role" \notin gateReq[q].waived => "permission" \in gateReq[q].held
    BY <2>1 DEF GatesInv, GateHistory
  <2>4. ~unseen => "permission" \in gateReq[q].held
    BY <1>2, <2>2, <2>3
  <2> QED
    BY <1>1, <1>2, <1>p, <1>s, <2>1, <2>4, PassGateKeeps
<1>3. CASE PassGate(q, "permission", "rows", FALSE)
  <2>1. gateReq[q].at = "permission"
    BY <1>3 DEF PassGate
  <2> QED
    BY <1>1, <1>3, <1>p, <1>s, <2>1, PassGateKeeps
<1>4. CASE TurnAway(q, "permission")
  BY <1>1, <1>4, TurnAwayKeeps
<1> QED
  BY <1>2, <1>3, <1>4 DEF CheckEnvPermission

LEMMA RowsKeeps == ASSUME GatesInv, NEW q \in GateRequests, EnvPermissionRows(q) PROVE GatesInv'
<1>1. gateFaults' \in 0..MaxGateFaults
  BY GateFaultsType DEF EnvPermissionRows
<1>2. CASE envPerm = "granted" /\ PassGate(q, "rows", "served", FALSE)
  <2>1. gateReq[q].at = "rows"
    BY <1>2 DEF PassGate
  <2>2. Satisfied("permission", gateReq[q].route, gateReq[q].role)
    BY <1>2 DEF GatesInv, Satisfied
  <2>3. "permission" \in gateReq[q].held
    BY <2>1, <2>2, InHistory DEF Conditions
  <2>4. {"license", "address", "role", "plan"} \subseteq gateReq[q].held \union gateReq[q].waived
    BY <2>1, InHistory DEF PastGates, Conditions
  <2>5. /\ "rows" \in GateSteps \ {"idle", "served", "refused"}
        /\ "served" \in GateSteps \ {"idle", "license", "refused"}
        /\ PastGates["served"] = {"license", "address", "role", "plan", "permission"}
    BY DEF GateSteps, PastGates, Conditions
  <2> QED
    BY <1>1, <1>2, <2>3, <2>4, <2>5, PassGateKeeps
<1>3. CASE TurnAway(q, "rows")
  BY <1>1, <1>3, TurnAwayKeeps
<1> QED
  BY <1>2, <1>3 DEF EnvPermissionRows

LEMMA GatesKeep == ASSUME GatesInv, [GatesNext]_gateVars PROVE GatesInv'
<1>1. CASE UNCHANGED gateVars
  BY <1>1 DEF gateVars, gateWorld, GatesInv, GatesTypeOK, GateHistory, Satisfied, IsFeatureEnabled,
              LicenseVerified
<1> QED
  BY <1>1, ChangeKeeps, ArriveKeeps, LicenseKeeps, AddressKeeps, RoleKeeps, PlanKeeps, PermissionKeeps,
     RowsKeeps DEF GatesNext

\* The invariant of the gates (middleware of the API: auth, role, plan, licence)
\* holds whatever changes while a request passes them.
THEOREM GatesInductive == GatesSpec => []GatesInv
BY InitGatesInv, GatesKeep, PTL DEF GatesSpec

\* A request reaches its handler only if everything asked of it was true while it
\* was on its way, except what a gate let pass unseen or took from an old token.
THEOREM GatesAreSound == GatesSpec => []GatesSound
<1>1. GatesInv => GatesSound
  BY DEF GatesInv, GatesSound, GateHistory, PastGates
<1> QED
  BY <1>1, GatesInductive, PTL

-----------------------------------------------------------------------------
(***************************************************************************)
(* Accounts.                                                                *)
(***************************************************************************)
LEMMA SignupSetsFinite ==
    /\ Cardinality(SignupReqs) \in Nat
    /\ \A c : /\ IsFiniteSet(Counting(c)) /\ Cardinality(Counting(c)) \in Nat
              /\ Cardinality(Counting(c)) <= Cardinality(SignupReqs)
BY SignupAssumption, SubsetCard DEF SignupAssumption, Counting

LEMMA InitSignupInv == SignupInit => SignupInv
<1> SUFFICES ASSUME SignupInit PROVE SignupInv
  OBVIOUS
<1>1. SignupTypeOK
  <2>1. 0 \in 0..MaxCodes /\ 0 \in 0..MaxGuesses /\ 0 \in 0..MaxSignupFaults /\ 0 \in Nat
    BY SignupAssumption DEF SignupAssumption
  <2> QED
    BY <2>1 DEF SignupInit, SignupTypeOK, NoPending, SignupPcs
<1>2. Founders = {}
  BY DEF SignupInit, Founders
<1>3. AccountShape
  BY <1>2 DEF SignupInit, AccountShape
<1>4. OneAccount
  BY FS_EmptySet DEF SignupInit, OneAccount
<1>5. CodeShape
  BY DEF SignupInit, CodeShape, NoPending
<1>6. OTPMax + Cardinality(SignupReqs) - 1 + signupFaults >= 0
  BY SignupAssumption, SignupSetsFinite DEF SignupInit, SignupAssumption
<1>7. GuessesBounded
  BY <1>6 DEF SignupInit, GuessesBounded
<1> QED
  BY <1>1, <1>3, <1>4, <1>5, <1>7 DEF SignupInv

LEMMA NoPendingRow ==
    NoPending \in [code : 0..MaxCodes, attempts : Nat, expired : BOOLEAN] /\ NoPending.code = 0
<1>1. 0 \in 0..MaxCodes /\ 0 \in Nat
  BY SignupAssumption DEF SignupAssumption
<1> QED
  BY <1>1 DEF NoPending

\* A request goes to pc.
LEMMA SignupMoves ==
    ASSUME SignupTypeOK, NEW r \in SignupReqs, NEW pc \in SignupPcs, Goto(r, pc)
    PROVE  /\ signupPc' \in [SignupReqs -> SignupPcs] /\ signupPc'[r] = pc
           /\ \A q \in SignupReqs \ {r} : signupPc'[q] = signupPc[q]
BY DEF SignupTypeOK, Goto

\* A request is answered.
LEMMA SignupReplies ==
    ASSUME SignupTypeOK, NEW r \in SignupReqs, NEW a \in {"none", "sent", "created", "error"}, Reply(r, a)
    PROVE  /\ signupPc' \in [SignupReqs -> SignupPcs] /\ signupPc'[r] = "done"
           /\ \A q \in SignupReqs \ {r} : signupPc'[q] = signupPc[q]
           /\ answers' \in [SignupReqs -> {"none", "sent", "created", "error"}] /\ answers'[r] = a
           /\ \A q \in SignupReqs \ {r} : answers'[q] = answers[q]
<1>1. Goto(r, "done") /\ "done" \in SignupPcs
  BY DEF Reply, SignupPcs
<1> QED
  BY <1>1, SignupMoves DEF Reply, SignupTypeOK

\* A step that founds nothing.
LEMMA AccountKept ==
    ASSUME SignupInv, SignupTypeOK', NEW r \in SignupReqs, UNCHANGED <<users, orgs, owners>>,
           signupPc'[r] \notin {"org", "member"},
           \A q \in SignupReqs \ {r} : signupPc'[q] = signupPc[q],
           \A q \in SignupReqs : answers'[q] = "created" => answers[q] = "created",
           signupFaults' >= signupFaults,
           signupPc[r] \in {"org", "member"} => signupFaults' > 0
    PROVE  AccountShape' /\ OneAccount'
<1>0. signupFaults \in Nat /\ signupFaults' \in Nat
  BY SignupAssumption DEF SignupInv, SignupTypeOK, SignupAssumption
<1>1. Founders' \subseteq Founders
  BY DEF Founders
<1>2. AccountShape'
  <2>1. ~users' => Founders' = {}
    BY <1>1 DEF SignupInv, AccountShape
  <2>2. \A p, q \in Founders' : p = q
    BY <1>1 DEF SignupInv, AccountShape
  <2>3. \A q \in SignupReqs : signupPc'[q] = "member" => q \in orgs'
    BY DEF SignupInv, AccountShape
  <2>4. \A q \in SignupReqs : signupPc'[q] = "org" => q \notin orgs'
    BY DEF SignupInv, AccountShape
  <2>5. \A q \in orgs' : q \in owners' \/ signupPc'[q] = "member" \/ signupFaults' > 0
    <3> SUFFICES ASSUME NEW q \in orgs, q \notin owners, ~(signupFaults' > 0) PROVE signupPc'[q] = "member"
      OBVIOUS
    <3>1. ~(signupFaults > 0)
      BY <1>0
    <3>2. signupPc[q] = "member" /\ q \in SignupReqs
      BY <3>1 DEF SignupInv, AccountShape, SignupTypeOK
    <3>3. q # r
      BY <3>2
    <3> QED
      BY <3>2, <3>3
  <2>6. owners' \subseteq orgs'
    BY DEF SignupInv, AccountShape
  <2> QED
    BY <2>1, <2>2, <2>3, <2>4, <2>5, <2>6 DEF AccountShape
<1>3. OneAccount'
  <2>1. Cardinality(owners)' <= 1 /\ Cardinality(orgs)' <= 1
    BY DEF SignupInv, OneAccount
  <2>2. \A q \in SignupReqs : answers'[q] = "created" => users' /\ q \in owners' \cap orgs'
    BY DEF SignupInv, OneAccount
  <2>3. ASSUME users', owners' = {}
        PROVE signupFaults' > 0 \/ \E q \in SignupReqs : signupPc'[q] \in {"org", "member"}
    <3>1. signupFaults > 0 \/ \E q \in SignupReqs : signupPc[q] \in {"org", "member"}
      BY <2>3 DEF SignupInv, OneAccount
    <3>2. CASE signupFaults > 0
      BY <1>0, <3>2
    <3>3. ASSUME NEW q \in SignupReqs, signupPc[q] \in {"org", "member"}
          PROVE signupFaults' > 0 \/ signupPc'[q] \in {"org", "member"}
      BY <3>3
    <3> QED
      BY <3>1, <3>2, <3>3
  <2> QED
    BY <2>1, <2>2, <2>3 DEF OneAccount
<1> QED
  BY <1>2, <1>3

\* A step that makes no code and judges no guess.
LEMMA CodesKept ==
    ASSUME SignupInv, SignupTypeOK', NEW r \in SignupReqs, UNCHANGED <<codes, wrong>>,
           signupPc'[r] # "upsert", seen'[r] <= codes,
           \A q \in SignupReqs \ {r} : signupPc'[q] = signupPc[q] /\ seen'[q] = seen[q],
           signupFaults' >= signupFaults,
           pending'.code # 0 =>
              /\ pending'.code = pending.code
              /\ pending.attempts + signupFaults + (IF signupPc[r] = "count" THEN 1 ELSE 0)
                    <= pending'.attempts + signupFaults'
    PROVE  CodeShape' /\ GuessesBounded'
<1>0. /\ signupFaults \in Nat /\ signupFaults' \in Nat /\ Cardinality(SignupReqs) \in Nat /\ OTPMax \in Nat
      /\ pending.attempts \in Nat /\ pending'.attempts \in Nat /\ codes \in Nat /\ wrong \in [Codes -> Nat]
      /\ pending.code \in 0..MaxCodes /\ pending'.code \in 0..MaxCodes
  BY SignupAssumption, SignupSetsFinite DEF SignupInv, SignupTypeOK, SignupAssumption
<1>1. GuessesBounded'
  BY <1>0 DEF SignupInv, GuessesBounded
<1>2. pending'.code <= codes'
  BY <1>0 DEF SignupInv, CodeShape
<1>3. \A q \in SignupReqs : seen'[q] <= codes'
  BY DEF SignupInv, CodeShape
<1>4. \A p, q \in SignupReqs :
         signupPc'[p] = "upsert" /\ signupPc'[q] = "upsert" /\ seen'[p] = seen'[q] => p = q
  BY DEF SignupInv, CodeShape
<1>5. \A q \in SignupReqs : signupPc'[q] = "upsert" =>
          seen'[q] # 0 /\ seen'[q] # pending'.code /\ wrong'[seen'[q]] = 0
  BY DEF SignupInv, CodeShape
<1>6. ASSUME NEW c \in Codes, pending'.code = c
      PROVE  wrong'[c] <= pending'.attempts + Cardinality(Counting(c)') + signupFaults'
  <2>1. Counting(c) \ {r} \subseteq Counting(c)' /\ (signupPc[r] # "count" => r \notin Counting(c))
    BY DEF Counting
  <2>2. pending.code = c /\ c # 0
    BY <1>0, <1>6 DEF Codes
  <2>3. wrong[c] <= pending.attempts + Cardinality(Counting(c)) + signupFaults
    BY <2>2 DEF SignupInv, CodeShape
  <2>4. IsFiniteSet(Counting(c)') /\ IsFiniteSet(Counting(c))
    BY SignupAssumption, SubsetCard DEF SignupAssumption, Counting
  <2>5. Cardinality(Counting(c)) <= Cardinality(Counting(c)') + (IF signupPc[r] = "count" THEN 1 ELSE 0)
    <3>1. CASE r \notin Counting(c)
      <4>1. Counting(c) \subseteq Counting(c)'
        BY <2>1, <3>1
      <4> QED
        BY <2>4, <4>1, SubsetCard
    <3>2. CASE r \in Counting(c)
      <4>1. Cardinality(Counting(c) \ {r}) = Cardinality(Counting(c)) - 1
        BY <2>4, <3>2, DropCard
      <4>2. Cardinality(Counting(c) \ {r}) <= Cardinality(Counting(c)')
        BY <2>1, <2>4, SubsetCard
      <4>3. Cardinality(Counting(c)) \in Nat /\ Cardinality(Counting(c)') \in Nat
        BY <2>4, FS_CardinalityType
      <4> QED
        BY <2>1, <3>2, <4>1, <4>2, <4>3
    <3> QED
      BY <3>1, <3>2
  <2>6. /\ Cardinality(Counting(c)) \in Nat /\ Cardinality(Counting(c)') \in Nat
        /\ wrong'[c] = wrong[c] /\ wrong[c] \in Nat
    BY <1>0, <2>4, FS_CardinalityType
  <2>7. pending.attempts + signupFaults + (IF signupPc[r] = "count" THEN 1 ELSE 0)
           <= pending'.attempts + signupFaults'
    BY <1>6, <2>2
  <2>8. CASE signupPc[r] = "count"
    BY <1>0, <2>3, <2>5, <2>6, <2>7, <2>8
  <2>9. CASE signupPc[r] # "count"
    BY <1>0, <2>3, <2>5, <2>6, <2>7, <2>9
  <2> QED
    BY <2>8, <2>9
<1>7. pending'.code # 0 =>
         wrong'[pending'.code] <= pending'.attempts + Cardinality(Counting(pending.code))' + signupFaults'
  BY <1>0, <1>6 DEF Codes, Counting
<1>8. \A c \in Codes : c > codes' => wrong'[c] = 0
  BY DEF SignupInv, CodeShape
<1> QED
  BY <1>1, <1>2, <1>3, <1>4, <1>5, <1>7, <1>8 DEF CodeShape

\* A step of r that founds nothing, makes no code and judges no guess.
LEMMA SignupKept ==
    ASSUME SignupInv, NEW r \in SignupReqs, NEW pc \in SignupPcs \ {"org", "member", "upsert"},
           Goto(r, pc), UNCHANGED <<users, orgs, owners, pending, codes, wrong>>,
           seen' \in [SignupReqs -> 0..MaxCodes], seen'[r] <= codes,
           \A q \in SignupReqs \ {r} : seen'[q] = seen[q],
           answers' \in [SignupReqs -> {"none", "sent", "created", "error"}],
           \A q \in SignupReqs : answers'[q] = "created" => answers[q] = "created",
           guesses' \in 0..MaxGuesses,
           signupFaults' \in 0..MaxSignupFaults, signupFaults' >= signupFaults,
           signupPc[r] \in {"org", "member", "count"} => signupFaults' > signupFaults
    PROVE  SignupInv'
<1>0. SignupTypeOK
  BY DEF SignupInv
<1>1. /\ signupPc' \in [SignupReqs -> SignupPcs] /\ signupPc'[r] = pc
      /\ \A q \in SignupReqs \ {r} : signupPc'[q] = signupPc[q]
  BY <1>0, SignupMoves
<1>2. SignupTypeOK'
  BY <1>0, <1>1 DEF SignupTypeOK
<1>3. signupFaults \in Nat /\ signupFaults' \in Nat /\ pending.attempts \in Nat
  BY <1>0, SignupAssumption DEF SignupTypeOK, SignupAssumption
<1>4. AccountShape' /\ OneAccount'
  <2>1. signupPc[r] \in {"org", "member"} => signupFaults' > 0
    BY <1>3
  <2> QED
    BY <1>1, <1>2, <2>1, AccountKept
<1>5. CodeShape' /\ GuessesBounded'
  <2>1. pending.attempts + signupFaults + (IF signupPc[r] = "count" THEN 1 ELSE 0)
           <= pending'.attempts + signupFaults'
    BY <1>3
  <2>2. pending' = pending
    OBVIOUS
  <2> QED
    BY <1>1, <1>2, <2>1, <2>2, CodesKept
<1> QED
  BY <1>2, <1>4, <1>5 DEF SignupInv

\* A code is made for r.
LEMMA FreshCode ==
    ASSUME SignupInv, NEW r \in SignupReqs, InitiateSignup(r) \/ ResendSignupOTP(r)
    PROVE  SignupInv'
<1>0. SignupTypeOK /\ codes \in Nat /\ signupFaults \in Nat /\ MaxCodes \in Nat
  BY SignupAssumption DEF SignupInv, SignupTypeOK, SignupAssumption
<1>1. /\ signupPc[r] = "idle" /\ codes < MaxCodes /\ codes' = codes + 1
      /\ seen' = [seen EXCEPT ![r] = codes'] /\ Goto(r, "upsert")
      /\ UNCHANGED <<users, orgs, owners, pending, answers, guesses, wrong, signupFaults>>
  BY DEF InitiateSignup, ResendSignupOTP
<1>2. /\ signupPc' \in [SignupReqs -> SignupPcs] /\ signupPc'[r] = "upsert"
      /\ \A q \in SignupReqs \ {r} : signupPc'[q] = signupPc[q]
  BY <1>0, <1>1, SignupMoves DEF SignupPcs
<1>3. /\ seen' \in [SignupReqs -> 0..MaxCodes] /\ seen'[r] = codes + 1
      /\ \A q \in SignupReqs \ {r} : seen'[q] = seen[q]
  BY <1>0, <1>1 DEF SignupTypeOK
<1>4. SignupTypeOK'
  BY <1>0, <1>1, <1>2, <1>3 DEF SignupTypeOK
<1>5. AccountShape' /\ OneAccount'
  BY <1>0, <1>1, <1>2, <1>4, AccountKept
<1>6. GuessesBounded'
  BY <1>1 DEF SignupInv, GuessesBounded
<1>7. /\ pending.code \in Nat /\ pending.code <= codes /\ codes + 1 \in Codes
      /\ \A q \in SignupReqs : seen[q] \in Nat /\ seen[q] <= codes
      /\ wrong[codes + 1] = 0
  BY <1>0, <1>1 DEF SignupInv, CodeShape, SignupTypeOK, Codes
<1>8. CodeShape'
  <2>1. pending'.code <= codes' /\ \A q \in SignupReqs : seen'[q] <= codes'
    BY <1>0, <1>1, <1>3, <1>7
  <2>2. \A c \in Codes : c > codes' => wrong'[c] = 0
    BY <1>0, <1>1 DEF SignupInv, CodeShape, Codes
  <2>3. \A p, q \in SignupReqs :
           signupPc'[p] = "upsert" /\ signupPc'[q] = "upsert" /\ seen'[p] = seen'[q] => p = q
    <3>1. \A p \in SignupReqs \ {r} : seen'[p] # seen'[r]
      BY <1>0, <1>3, <1>7
    <3>2. \A p, q \in SignupReqs \ {r} :
             signupPc'[p] = "upsert" /\ signupPc'[q] = "upsert" /\ seen'[p] = seen'[q] => p = q
      BY <1>2, <1>3 DEF SignupInv, CodeShape
    <3> QED
      BY <3>1, <3>2
  <2>4. \A q \in SignupReqs : signupPc'[q] = "upsert" =>
            seen'[q] # 0 /\ seen'[q] # pending'.code /\ wrong'[seen'[q]] = 0
    <3>1. seen'[r] # 0 /\ seen'[r] # pending'.code /\ wrong'[seen'[r]] = 0
      BY <1>0, <1>1, <1>3, <1>7
    <3>2. \A q \in SignupReqs \ {r} : signupPc'[q] = "upsert" =>
              seen'[q] # 0 /\ seen'[q] # pending'.code /\ wrong'[seen'[q]] = 0
      BY <1>1, <1>2, <1>3 DEF SignupInv, CodeShape
    <3> QED
      BY <3>1, <3>2
  <2>5. Counting(pending.code)' = Counting(pending.code)
    BY <1>1, <1>2, <1>3 DEF Counting
  <2>6. pending'.code # 0 =>
          wrong'[pending'.code] <= pending'.attempts + Cardinality(Counting(pending.code))' + signupFaults'
    BY <1>1, <2>5 DEF SignupInv, CodeShape
  <2> QED
    BY <2>1, <2>2, <2>3, <2>4, <2>6 DEF CodeShape
<1> QED
  BY <1>4, <1>5, <1>6, <1>8 DEF SignupInv

\* r's code becomes the pending one.
LEMMA UpsertKeeps ==
    ASSUME SignupInv, NEW r \in SignupReqs, UpsertPendingRegistration(r)
    PROVE  SignupInv'
<1>0. SignupTypeOK /\ codes \in Nat /\ signupFaults \in Nat /\ MaxCodes \in Nat
  BY SignupAssumption DEF SignupInv, SignupTypeOK, SignupAssumption
<1>1. /\ signupPc[r] = "upsert" /\ Goto(r, "mail")
      /\ pending' = [code |-> seen[r], attempts |-> 0, expired |-> FALSE]
      /\ UNCHANGED <<users, orgs, owners, codes, seen, answers, guesses, wrong, signupFaults>>
  BY DEF UpsertPendingRegistration
<1>2. /\ signupPc' \in [SignupReqs -> SignupPcs] /\ signupPc'[r] = "mail"
      /\ \A q \in SignupReqs \ {r} : signupPc'[q] = signupPc[q]
  BY <1>0, <1>1, SignupMoves DEF SignupPcs
<1>3. pending'.code = seen[r] /\ pending'.attempts = 0 /\ pending' \in [code : 0..MaxCodes, attempts : Nat, expired : BOOLEAN]
  BY <1>0, <1>1 DEF SignupTypeOK
<1>4. SignupTypeOK'
  BY <1>0, <1>1, <1>2, <1>3 DEF SignupTypeOK
<1>5. AccountShape' /\ OneAccount'
  BY <1>0, <1>1, <1>2, <1>4, AccountKept
<1>6. GuessesBounded'
  BY <1>1 DEF SignupInv, GuessesBounded
<1>7. CodeShape'
  <2>1. \A q \in SignupReqs : signupPc'[q] = "upsert" =>
            seen'[q] # 0 /\ seen'[q] # pending'.code /\ wrong'[seen'[q]] = 0
    BY <1>1, <1>2, <1>3 DEF SignupInv, CodeShape
  <2>2. \A p, q \in SignupReqs :
           signupPc'[p] = "upsert" /\ signupPc'[q] = "upsert" /\ seen'[p] = seen'[q] => p = q
    BY <1>1, <1>2 DEF SignupInv, CodeShape
  <2>3. wrong'[pending'.code] = 0 /\ pending'.code <= codes'
    BY <1>1, <1>3 DEF SignupInv, CodeShape
  <2>4. IsFiniteSet(Counting(pending.code)')
    BY SignupAssumption, SubsetCard DEF SignupAssumption, Counting
  <2>5. Cardinality(Counting(pending.code))' \in Nat
    BY <2>4, FS_CardinalityType
  <2>6. wrong'[pending'.code] <= pending'.attempts + Cardinality(Counting(pending.code))' + signupFaults'
    BY <1>0, <1>1, <1>3, <2>3, <2>5
  <2> QED
    BY <1>1, <2>1, <2>2, <2>3, <2>6 DEF SignupInv, CodeShape
<1> QED
  BY <1>4, <1>5, <1>6, <1>7 DEF SignupInv

\* A wrong guess is judged against the pending code.
LEMMA GuessKeeps ==
    ASSUME SignupInv, NEW r \in SignupReqs, CompleteSignup(r)
    PROVE  SignupInv'
<1>0. /\ SignupTypeOK /\ codes \in Nat /\ signupFaults \in Nat /\ MaxCodes \in Nat /\ OTPMax \in Nat
      /\ guesses \in 0..MaxGuesses /\ MaxGuesses \in Nat /\ pending.code \in 0..MaxCodes /\ pending.attempts \in Nat
      /\ signupFaults \in 0..MaxSignupFaults
  BY SignupAssumption DEF SignupInv, SignupTypeOK, SignupAssumption
<1>1. /\ signupPc[r] = "idle" /\ guesses < MaxGuesses /\ guesses' = guesses + 1
      /\ seen' = [seen EXCEPT ![r] = pending.code]
      /\ UNCHANGED <<users, orgs, owners, pending, codes, signupFaults>>
  BY DEF CompleteSignup
<1>2. /\ seen' \in [SignupReqs -> 0..MaxCodes] /\ seen'[r] = pending.code /\ seen'[r] <= codes
      /\ \A q \in SignupReqs \ {r} : seen'[q] = seen[q]
      /\ guesses' \in 0..MaxGuesses
  BY <1>0, <1>1 DEF SignupInv, SignupTypeOK, CodeShape
<1>3. CASE Reply(r, "error") /\ UNCHANGED wrong
  <2>1. /\ answers' \in [SignupReqs -> {"none", "sent", "created", "error"}]
        /\ \A q \in SignupReqs : answers'[q] = "created" => answers[q] = "created"
    BY <1>0, <1>3, SignupReplies
  <2>2. Goto(r, "done") /\ "done" \in SignupPcs
    BY <1>3 DEF Reply, SignupPcs
  <2> QED
    BY <1>0, <1>1, <1>2, <1>3, <2>1, <2>2, SignupKept
<1>4. CASE Goto(r, "user") /\ UNCHANGED <<answers, wrong>>
  <2>1. answers' \in [SignupReqs -> {"none", "sent", "created", "error"}] /\ "user" \in SignupPcs
    BY <1>0, <1>4 DEF SignupTypeOK, SignupPcs
  <2> QED
    BY <1>0, <1>1, <1>2, <1>4, <2>1, SignupKept
<1>5. ASSUME pending.code # 0, pending.attempts < OTPMax, Goto(r, "count"), UNCHANGED answers,
             wrong' = [wrong EXCEPT ![pending.code] = @ + 1]
      PROVE  SignupInv'
  <2>1. /\ signupPc' \in [SignupReqs -> SignupPcs] /\ signupPc'[r] = "count"
        /\ \A q \in SignupReqs \ {r} : signupPc'[q] = signupPc[q]
    BY <1>0, <1>5, SignupMoves DEF SignupPcs
  <2>2. PICK c \in Codes : c = pending.code
    BY <1>0, <1>5 DEF Codes
  <2>3. /\ wrong' \in [Codes -> Nat] /\ wrong'[c] = wrong[c] + 1 /\ wrong[c] \in Nat
        /\ \A d \in Codes \ {c} : wrong'[d] = wrong[d]
    BY <1>0, <1>5, <2>2 DEF SignupTypeOK
  <2>4. SignupTypeOK'
    BY <1>0, <1>1, <1>2, <1>5, <2>1, <2>3 DEF SignupTypeOK
  <2>5. AccountShape' /\ OneAccount'
    BY <1>0, <1>1, <1>5, <2>1, <2>4, AccountKept
  <2>6. /\ Counting(c)' = Counting(c) \cup {r} /\ r \notin Counting(c)
        /\ Counting(c) \cup {r} \subseteq SignupReqs
    BY <1>1, <1>2, <2>1, <2>2 DEF Counting
  <2>7. /\ Cardinality(Counting(c)') = Cardinality(Counting(c)) + 1
        /\ Cardinality(Counting(c)') <= Cardinality(SignupReqs)
        /\ Cardinality(Counting(c)) \in Nat /\ Cardinality(SignupReqs) \in Nat
    BY <2>6, AddCard, SubsetCard, SignupSetsFinite, SignupAssumption DEF SignupAssumption
  <2>8. wrong[c] <= pending.attempts + Cardinality(Counting(c)) + signupFaults
    BY <1>5, <2>2 DEF SignupInv, CodeShape
  <2>9. GuessesBounded'
    <3>1. wrong'[c] <= OTPMax + Cardinality(SignupReqs) - 1 + signupFaults
      BY <1>0, <1>5, <2>3, <2>7, <2>8
    <3> QED
      BY <1>1, <2>3, <3>1 DEF SignupInv, GuessesBounded
  <2>10. CodeShape'
    <3>1. \A d \in Codes : d > codes' => wrong'[d] = 0
      BY <1>0, <1>1, <2>2, <2>3 DEF SignupInv, CodeShape
    <3>2. \A q \in SignupReqs : signupPc'[q] = "upsert" =>
              seen'[q] # 0 /\ seen'[q] # pending'.code /\ wrong'[seen'[q]] = 0
      <4>1. \A q \in SignupReqs \ {r} : signupPc[q] = "upsert" =>
               seen[q] # 0 /\ seen[q] # c /\ wrong[seen[q]] = 0 /\ seen[q] \in Codes
        BY <1>0, <2>2 DEF SignupInv, CodeShape, SignupTypeOK, Codes
      <4> QED
        BY <1>1, <1>2, <2>1, <2>2, <2>3, <4>1
    <3>3. \A p, q \in SignupReqs :
             signupPc'[p] = "upsert" /\ signupPc'[q] = "upsert" /\ seen'[p] = seen'[q] => p = q
      BY <1>2, <2>1 DEF SignupInv, CodeShape
    <3>4. wrong'[c] <= pending.attempts + Cardinality(Counting(c)') + signupFaults
      BY <1>0, <2>3, <2>7, <2>8
    <3>5. wrong'[pending'.code] <= pending'.attempts + Cardinality(Counting(pending.code))' + signupFaults'
      BY <1>1, <2>2, <3>4 DEF Counting
    <3> QED
      BY <1>1, <1>2, <3>1, <3>2, <3>3, <3>5 DEF SignupInv, CodeShape
  <2> QED
    BY <2>4, <2>5, <2>9, <2>10 DEF SignupInv
<1>6. \/ Reply(r, "error") /\ UNCHANGED wrong
      \/ Goto(r, "user") /\ UNCHANGED <<answers, wrong>>
      \/ /\ pending.code # 0 /\ pending.attempts < OTPMax /\ Goto(r, "count") /\ UNCHANGED answers
         /\ wrong' = [wrong EXCEPT ![pending.code] = @ + 1]
  BY <1>0 DEF CompleteSignup
<1> QED
  BY <1>3, <1>4, <1>5, <1>6

\* A wrong guess is counted at the row, whichever code it has by now.
LEMMA CountKeeps ==
    ASSUME SignupInv, NEW r \in SignupReqs, IncrementPendingAttempts(r)
    PROVE  SignupInv'
<1>0. SignupTypeOK /\ codes \in Nat /\ signupFaults \in Nat /\ pending.attempts \in Nat
  BY SignupAssumption DEF SignupInv, SignupTypeOK, SignupAssumption
<1>1. /\ signupPc[r] = "count" /\ Reply(r, "error")
      /\ UNCHANGED <<users, orgs, owners, codes, seen, guesses, wrong, signupFaults>>
  BY DEF IncrementPendingAttempts
<1>2. /\ signupPc' \in [SignupReqs -> SignupPcs] /\ signupPc'[r] = "done"
      /\ \A q \in SignupReqs \ {r} : signupPc'[q] = signupPc[q]
      /\ answers' \in [SignupReqs -> {"none", "sent", "created", "error"}] /\ answers'[r] = "error"
      /\ \A q \in SignupReqs \ {r} : answers'[q] = answers[q]
  BY <1>0, <1>1, SignupReplies
<1>3. /\ pending' \in [code : 0..MaxCodes, attempts : Nat, expired : BOOLEAN]
      /\ pending'.code = pending.code
      /\ pending'.code # 0 => pending'.attempts = pending.attempts + 1
  BY <1>0 DEF IncrementPendingAttempts, SignupTypeOK
<1>4. SignupTypeOK'
  BY <1>0, <1>1, <1>2, <1>3 DEF SignupTypeOK
<1>5. AccountShape' /\ OneAccount'
  BY <1>0, <1>1, <1>2, <1>4, AccountKept
<1>6. seen'[r] <= codes
  BY <1>1 DEF SignupInv, CodeShape
<1>7. pending'.code # 0 =>
        pending.attempts + signupFaults + (IF signupPc[r] = "count" THEN 1 ELSE 0)
           <= pending'.attempts + signupFaults'
  BY <1>0, <1>1, <1>3
<1>8. CodeShape' /\ GuessesBounded'
  BY <1>0, <1>1, <1>2, <1>3, <1>4, <1>6, <1>7, CodesKept
<1> QED
  BY <1>4, <1>5, <1>8 DEF SignupInv

\* A step of r past the sign-up code, with the code's side of the invariant.
LEMMA FoundingKeepsCodes ==
    ASSUME SignupInv, NEW r \in SignupReqs, SignupTypeOK',
           CreateUser(r) \/ CreateOrganization(r) \/ AddOwner(r)
    PROVE  CodeShape' /\ GuessesBounded'
<1>0. SignupTypeOK /\ codes \in Nat /\ signupFaults \in Nat /\ pending.attempts \in Nat
  BY SignupAssumption DEF SignupInv, SignupTypeOK, SignupAssumption
<1>1. /\ signupPc[r] \in {"user", "org", "member"}
      /\ UNCHANGED <<codes, seen, wrong>>
      /\ signupFaults' = signupFaults \/ signupFaults' = signupFaults + 1
      /\ pending' \in {pending, NoPending}
      /\ \E pc \in {"org", "member", "done"} : Goto(r, pc)
  BY DEF CreateUser, CreateOrganization, AddOwner, Reply
<1>2. /\ signupPc'[r] # "upsert" /\ signupPc[r] # "count"
      /\ \A q \in SignupReqs \ {r} : signupPc'[q] = signupPc[q] /\ seen'[q] = seen[q]
  BY <1>0, <1>1, SignupMoves DEF SignupPcs
<1>3. seen'[r] <= codes
  BY <1>1 DEF SignupInv, CodeShape
<1>4. signupFaults' >= signupFaults
  BY <1>0, <1>1
<1>5. pending'.code # 0 =>
        /\ pending'.code = pending.code
        /\ pending.attempts + signupFaults + (IF signupPc[r] = "count" THEN 1 ELSE 0)
           <= pending'.attempts + signupFaults'
  BY <1>0, <1>1, <1>2, <1>4 DEF NoPending
<1> QED
  BY <1>1, <1>2, <1>3, <1>4, <1>5, CodesKept

LEMMA CreateUserKeeps ==
    ASSUME SignupInv, NEW r \in SignupReqs, CreateUser(r)
    PROVE  SignupInv'
<1>0. SignupTypeOK /\ codes \in Nat /\ signupFaults \in Nat
  BY SignupAssumption DEF SignupInv, SignupTypeOK, SignupAssumption
<1>1. /\ signupPc[r] = "user"
      /\ UNCHANGED <<orgs, owners, pending, codes, seen, guesses, wrong, signupFaults>>
  BY DEF CreateUser
<1>2. CASE users
  <2>1. Reply(r, "error") /\ users' = users
    BY <1>2 DEF CreateUser
  <2>2. /\ signupPc' \in [SignupReqs -> SignupPcs] /\ signupPc'[r] = "done"
        /\ \A q \in SignupReqs \ {r} : signupPc'[q] = signupPc[q]
        /\ answers' \in [SignupReqs -> {"none", "sent", "created", "error"}] /\ answers'[r] = "error"
        /\ \A q \in SignupReqs \ {r} : answers'[q] = answers[q]
    BY <1>0, <2>1, SignupReplies
  <2>3. SignupTypeOK'
    BY <1>0, <1>1, <2>1, <2>2 DEF SignupTypeOK
  <2>4. AccountShape' /\ OneAccount'
    BY <1>0, <1>1, <2>1, <2>2, <2>3, AccountKept
  <2> QED
    BY <2>3, <2>4, FoundingKeepsCodes DEF SignupInv
<1>3. CASE ~users
  <2>1. users' = TRUE /\ Goto(r, "org") /\ answers' = answers
    BY <1>3 DEF CreateUser
  <2>2. /\ signupPc' \in [SignupReqs -> SignupPcs] /\ signupPc'[r] = "org"
        /\ \A q \in SignupReqs \ {r} : signupPc'[q] = signupPc[q]
    BY <1>0, <2>1, SignupMoves DEF SignupPcs
  <2>3. users' \in BOOLEAN
    BY <2>1
  <2>4. SignupTypeOK'
    BY <1>0, <1>1, <2>1, <2>2, <2>3 DEF SignupTypeOK
  <2>5. Founders = {}
    BY <1>3 DEF SignupInv, AccountShape
  <2>6. orgs = {} /\ owners = {} /\ \A q \in SignupReqs : signupPc[q] \notin {"org", "member"}
    BY <2>5 DEF Founders
  <2>7. Founders' \subseteq {r}
    BY <1>1, <2>2, <2>6 DEF Founders
  <2>8. AccountShape'
    BY <1>1, <2>1, <2>2, <2>6, <2>7 DEF AccountShape
  <2>9. OneAccount'
    <3>1. Cardinality(owners') <= 1 /\ Cardinality(orgs') <= 1
      BY <1>1 DEF SignupInv, OneAccount
    <3>2. \A q \in SignupReqs : answers'[q] # "created"
      BY <1>3, <2>1 DEF SignupInv, OneAccount
    <3> QED
      BY <2>2, <3>1, <3>2 DEF OneAccount
  <2> QED
    BY <2>4, <2>8, <2>9, FoundingKeepsCodes DEF SignupInv
<1> QED
  BY <1>2, <1>3

LEMMA CreateOrganizationKeeps ==
    ASSUME SignupInv, NEW r \in SignupReqs, CreateOrganization(r)
    PROVE  SignupInv'
<1>0. /\ SignupTypeOK /\ codes \in Nat /\ signupFaults \in Nat
      /\ signupFaults \in 0..MaxSignupFaults /\ MaxSignupFaults \in Nat
  BY SignupAssumption DEF SignupInv, SignupTypeOK, SignupAssumption
<1>1. signupPc[r] = "org" /\ UNCHANGED <<users, owners, pending, codes, seen, guesses, wrong>>
  BY DEF CreateOrganization
<1>2. CASE orgs' = orgs \cup {r} /\ Goto(r, "member") /\ UNCHANGED <<answers, signupFaults>>
  <2>1. /\ signupPc' \in [SignupReqs -> SignupPcs] /\ signupPc'[r] = "member"
        /\ \A q \in SignupReqs \ {r} : signupPc'[q] = signupPc[q]
    BY <1>0, <1>2, SignupMoves DEF SignupPcs
  <2>2. SignupTypeOK'
    BY <1>0, <1>1, <1>2, <2>1 DEF SignupTypeOK
  <2>3. r \in Founders
    BY <1>1 DEF Founders
  <2>4. Founders' \subseteq Founders /\ users /\ Founders \subseteq {r}
    BY <1>1, <1>2, <2>1, <2>3 DEF Founders, SignupInv, AccountShape
  <2>5. AccountShape'
    <3>1. \A q \in SignupReqs : signupPc'[q] = "org" => q \notin orgs'
      BY <1>2, <2>1 DEF SignupInv, AccountShape
    <3>2. \A q \in orgs' : q = r
      BY <1>2, <2>4 DEF Founders
    <3>3. \A q \in SignupReqs : signupPc'[q] = "member" => q \in orgs'
      BY <1>2, <2>1 DEF SignupInv, AccountShape
    <3>4. owners' \subseteq orgs'
      BY <1>1, <1>2 DEF SignupInv, AccountShape
    <3> QED
      BY <1>1, <2>1, <2>4, <3>1, <3>2, <3>3, <3>4 DEF AccountShape
  <2>6. OneAccount'
    <3>1. \A p, q \in orgs' : p = q
      BY <1>2, <2>4 DEF Founders
    <3>2. Cardinality(orgs') <= 1 /\ Cardinality(owners') <= 1
      BY <1>1, <3>1, OneCard DEF SignupInv, OneAccount
    <3>3. \A q \in SignupReqs : answers'[q] = "created" => users' /\ q \in owners' \cap orgs'
      BY <1>1, <1>2 DEF SignupInv, OneAccount
    <3> QED
      BY <2>1, <3>2, <3>3 DEF OneAccount
  <2> QED
    BY <2>2, <2>5, <2>6, FoundingKeepsCodes DEF SignupInv
<1>3. CASE /\ signupFaults < MaxSignupFaults /\ signupFaults' = signupFaults + 1
           /\ Reply(r, "error") /\ UNCHANGED orgs
  <2>1. /\ answers' \in [SignupReqs -> {"none", "sent", "created", "error"}]
        /\ \A q \in SignupReqs : answers'[q] = "created" => answers[q] = "created"
    BY <1>0, <1>3, SignupReplies
  <2>2. Goto(r, "done") /\ "done" \in SignupPcs
    BY <1>3 DEF Reply, SignupPcs
  <2>3. seen' \in [SignupReqs -> 0..MaxCodes] /\ guesses' \in 0..MaxGuesses /\ seen'[r] <= codes
    BY <1>0, <1>1 DEF SignupInv, SignupTypeOK, CodeShape
  <2>4. signupFaults' \in 0..MaxSignupFaults /\ signupFaults' > signupFaults
    BY <1>0, <1>3
  <2> QED
    BY <1>0, <1>1, <1>3, <2>1, <2>2, <2>3, <2>4, SignupKept
<1> QED
  BY <1>2, <1>3 DEF CreateOrganization

LEMMA AddOwnerKeeps ==
    ASSUME SignupInv, NEW r \in SignupReqs, AddOwner(r)
    PROVE  SignupInv'
<1>0. SignupTypeOK /\ codes \in Nat /\ signupFaults \in Nat
  BY SignupAssumption DEF SignupInv, SignupTypeOK, SignupAssumption
<1>1. /\ signupPc[r] = "member" /\ owners' = owners \cup {r} /\ Reply(r, "created")
      /\ pending' \in {NoPending, pending}
      /\ UNCHANGED <<users, orgs, codes, seen, guesses, wrong, signupFaults>>
  BY DEF AddOwner
<1>2. /\ signupPc' \in [SignupReqs -> SignupPcs] /\ signupPc'[r] = "done"
      /\ \A q \in SignupReqs \ {r} : signupPc'[q] = signupPc[q]
      /\ answers' \in [SignupReqs -> {"none", "sent", "created", "error"}] /\ answers'[r] = "created"
      /\ \A q \in SignupReqs \ {r} : answers'[q] = answers[q]
  BY <1>0, <1>1, SignupReplies
<1>3. pending' \in [code : 0..MaxCodes, attempts : Nat, expired : BOOLEAN]
  BY <1>0, <1>1, NoPendingRow DEF SignupTypeOK
<1>4. SignupTypeOK'
  BY <1>0, <1>1, <1>2, <1>3 DEF SignupTypeOK
<1>5. r \in Founders /\ r \in orgs
  BY <1>1 DEF SignupInv, Founders, AccountShape
<1>6. Founders' \subseteq Founders /\ users /\ Founders \subseteq {r}
  BY <1>1, <1>2, <1>5 DEF Founders, SignupInv, AccountShape
<1>7. orgs \subseteq {r} /\ owners' \subseteq {r}
  BY <1>1, <1>6 DEF Founders
<1>8. AccountShape'
  <2>1. \A q \in SignupReqs : signupPc'[q] = "org" => q \notin orgs'
    BY <1>1, <1>2 DEF SignupInv, AccountShape
  <2>2. \A q \in SignupReqs : signupPc'[q] = "member" => q \in orgs'
    BY <1>1, <1>2 DEF SignupInv, AccountShape
  <2> QED
    BY <1>1, <1>5, <1>6, <1>7, <2>1, <2>2 DEF AccountShape
<1>9. OneAccount'
  <2>1. Cardinality(orgs') <= 1
    BY <1>1 DEF SignupInv, OneAccount
  <2>2. \A p, q \in owners' : p = q
    BY <1>7
  <2>3. Cardinality(owners') <= 1
    BY <2>2, OneCard
  <2>4. \A q \in SignupReqs : answers'[q] = "created" => users' /\ q \in owners' \cap orgs'
    BY <1>1, <1>2, <1>5, <1>6 DEF SignupInv, OneAccount
  <2> QED
    BY <1>1, <2>1, <2>3, <2>4 DEF OneAccount
<1> QED
  BY <1>4, <1>8, <1>9, FoundingKeepsCodes DEF SignupInv

\* The code's time passes, and the row is deleted.
LEMMA PendingExpires ==
    ASSUME SignupInv, ExpirePending \/ DeleteExpiredPendingRegistrations
    PROVE  SignupInv'
<1>0. /\ SignupTypeOK /\ codes \in Nat /\ pending \in [code : 0..MaxCodes, attempts : Nat, expired : BOOLEAN]
      /\ 0 \in 0..MaxCodes
  BY SignupAssumption DEF SignupInv, SignupTypeOK, SignupAssumption
<1>1. UNCHANGED <<users, orgs, owners, codes, signupPc, seen, answers, guesses, wrong, signupFaults>>
  BY DEF ExpirePending, DeleteExpiredPendingRegistrations
<1>2. /\ pending' \in [code : 0..MaxCodes, attempts : Nat, expired : BOOLEAN]
      /\ pending'.code # 0 => pending'.code = pending.code /\ pending'.attempts = pending.attempts
  <2>1. CASE pending' = [pending EXCEPT !.expired = TRUE]
    BY <1>0, <2>1
  <2>2. CASE pending' = NoPending
    <3>1. pending' \in [code : 0..MaxCodes, attempts : Nat, expired : BOOLEAN]
      BY <2>2, NoPendingRow
    <3>2. pending'.code = 0
      BY <2>2, NoPendingRow
    <3> QED
      BY <3>1, <3>2
  <2> QED
    BY <2>1, <2>2 DEF ExpirePending, DeleteExpiredPendingRegistrations
<1>3. SignupTypeOK'
  BY <1>0, <1>1, <1>2 DEF SignupTypeOK
<1>4. AccountShape' /\ OneAccount' /\ GuessesBounded'
  BY <1>1 DEF SignupInv, AccountShape, OneAccount, GuessesBounded, Founders
<1>5. CodeShape'
  <2>1. pending'.code # 0 => pending'.code = pending.code /\ pending'.attempts = pending.attempts
    BY <1>2
  <2>2. pending'.code # 0 => Counting(pending.code)' = Counting(pending.code)
    BY <1>1, <2>1 DEF Counting
  <2>3. pending'.code # 0 =>
          wrong'[pending'.code] <= pending'.attempts + Cardinality(Counting(pending.code))' + signupFaults'
    BY <1>1, <2>1, <2>2 DEF SignupInv, CodeShape
  <2>4. pending'.code <= codes'
    BY <1>0, <1>1, <2>1 DEF SignupInv, CodeShape
  <2>5. \A q \in SignupReqs : signupPc'[q] = "upsert" =>
            seen'[q] # 0 /\ seen'[q] # pending'.code /\ wrong'[seen'[q]] = 0
    BY <1>1, <2>1 DEF SignupInv, CodeShape
  <2> QED
    BY <1>1, <2>3, <2>4, <2>5 DEF SignupInv, CodeShape
<1> QED
  BY <1>3, <1>4, <1>5 DEF SignupInv

LEMMA SignupKeep == SignupInv /\ [SignupNext]_signupVars => SignupInv'
<1> SUFFICES ASSUME SignupInv, [SignupNext]_signupVars PROVE SignupInv'
  OBVIOUS
<1>0. /\ SignupTypeOK /\ codes \in Nat /\ signupFaults \in 0..MaxSignupFaults /\ MaxSignupFaults \in Nat
      /\ seen \in [SignupReqs -> 0..MaxCodes] /\ guesses \in 0..MaxGuesses /\ 0 \in 0..MaxCodes
      /\ answers \in [SignupReqs -> {"none", "sent", "created", "error"}]
      /\ \A q \in SignupReqs : seen[q] <= codes
  BY SignupAssumption DEF SignupInv, SignupTypeOK, SignupAssumption, CodeShape
<1>1. ASSUME NEW r \in SignupReqs, SendOTP(r) PROVE SignupInv'
  <2>1. Reply(r, "sent") /\ signupPc[r] = "mail"
        /\ UNCHANGED <<users, orgs, owners, pending, codes, seen, guesses, wrong, signupFaults>>
    BY <1>1 DEF SendOTP
  <2>2. /\ answers' \in [SignupReqs -> {"none", "sent", "created", "error"}]
        /\ \A q \in SignupReqs : answers'[q] = "created" => answers[q] = "created"
    BY <1>0, <2>1, SignupReplies
  <2>3. Goto(r, "done") /\ "done" \in SignupPcs
    BY <2>1 DEF Reply, SignupPcs
  <2> QED
    BY <1>0, <2>1, <2>2, <2>3, SignupKept
<1>2. ASSUME NEW r \in SignupReqs, Register(r) PROVE SignupInv'
  <2>1. Goto(r, "user") /\ signupPc[r] = "idle" /\ seen' = [seen EXCEPT ![r] = 0]
        /\ UNCHANGED <<users, orgs, owners, pending, codes, answers, guesses, wrong, signupFaults>>
    BY <1>2 DEF Register
  <2>2. seen' \in [SignupReqs -> 0..MaxCodes] /\ seen'[r] <= codes /\ \A q \in SignupReqs \ {r} : seen'[q] = seen[q]
    BY <1>0, <2>1
  <2>3. "user" \in SignupPcs
    BY DEF SignupPcs
  <2> QED
    BY <1>0, <2>1, <2>2, <2>3, SignupKept
<1>3. ASSUME NEW r \in SignupReqs, SignupFails(r) PROVE SignupInv'
  <2>1. /\ Reply(r, "error") /\ signupFaults < MaxSignupFaults /\ signupFaults' = signupFaults + 1
        /\ UNCHANGED <<users, orgs, owners, pending, codes, seen, guesses, wrong>>
    BY <1>3 DEF SignupFails
  <2>2. /\ answers' \in [SignupReqs -> {"none", "sent", "created", "error"}]
        /\ \A q \in SignupReqs : answers'[q] = "created" => answers[q] = "created"
    BY <1>0, <2>1, SignupReplies
  <2>3. Goto(r, "done") /\ "done" \in SignupPcs
    BY <2>1 DEF Reply, SignupPcs
  <2>4. signupFaults' \in 0..MaxSignupFaults /\ signupFaults' > signupFaults
    BY <1>0, <2>1
  <2> QED
    BY <1>0, <2>1, <2>2, <2>3, <2>4, SignupKept
<1>4. ASSUME NEW r \in SignupReqs, SignupAgain(r) PROVE SignupInv'
  <2>1. /\ Goto(r, "idle") /\ signupPc[r] = "done" /\ answers' = [answers EXCEPT ![r] = "none"]
        /\ seen' = [seen EXCEPT ![r] = 0]
        /\ UNCHANGED <<users, orgs, owners, pending, codes, guesses, wrong, signupFaults>>
    BY <1>4 DEF SignupAgain
  <2>2. /\ seen' \in [SignupReqs -> 0..MaxCodes] /\ seen'[r] <= codes /\ \A q \in SignupReqs \ {r} : seen'[q] = seen[q]
        /\ answers' \in [SignupReqs -> {"none", "sent", "created", "error"}]
        /\ \A q \in SignupReqs : answers'[q] = "created" => answers[q] = "created"
    BY <1>0, <2>1
  <2>3. "idle" \in SignupPcs
    BY DEF SignupPcs
  <2> QED
    BY <1>0, <2>1, <2>2, <2>3, SignupKept
<1>5. CASE UNCHANGED signupVars
  BY <1>5 DEF signupVars, SignupInv, SignupTypeOK, OneAccount, GuessesBounded, AccountShape, CodeShape, Founders, Counting
<1> QED
  BY <1>1, <1>2, <1>3, <1>4, <1>5, FreshCode, UpsertKeeps, GuessKeeps, CountKeeps, CreateUserKeeps,
     CreateOrganizationKeeps, AddOwnerKeeps, PendingExpires DEF SignupNext, SignupStep

\* The invariant of the accounts (auth.go: Register; signup.go: InitiateSignup,
\* ResendSignupOTP, CompleteSignup) holds however requests for one address
\* interleave and statements fail.
THEOREM SignupInductive == SignupSpec => []SignupInv
BY InitSignupInv, SignupKeep, PTL DEF SignupSpec

\* One request at most founds the account of an address, and a code is good for
\* OTPMax wrong guesses, one more per request that read the count before it was
\* raised and one per count that failed.
THEOREM AccountsAreFoundedOnce == SignupSpec => [](OneAccount /\ GuessesBounded)
<1>1. SignupInv => OneAccount /\ GuessesBounded
  BY DEF SignupInv
<1> QED
  BY <1>1, SignupInductive, PTL

-----------------------------------------------------------------------------
(***************************************************************************)
(* Log-in and sessions.                                                     *)
(***************************************************************************)
\* The requests that were let past the lockout and whose password is being judged.
Judging == {r \in LoginReqs : loginPc[r] = "judge"}

\* Every failure in the window, and every one that may still come of a request that
\* counted in time, is within the bound; a token that was logged out is revoked until it
\* has expired.
SessionsInv ==
    /\ SessionsTypeOK
    /\ failed + Cardinality(Judging) <= MaxFailed - 1 + Cardinality(LoginReqs) + loginFaults
    /\ \A j \in loggedOut : access[j] = "expired" \/ (access[j] = "valid" /\ j \in revoked)

LEMMA JudgingFinite ==
    /\ IsFiniteSet(Judging) /\ Cardinality(Judging) \in Nat /\ Cardinality(LoginReqs) \in Nat
    /\ Cardinality(Judging) <= Cardinality(LoginReqs)
<1>1. Judging \subseteq LoginReqs
  BY DEF Judging
<1> QED
  BY <1>1, SubsetCard, SessionsAssumption DEF SessionsAssumption

LEMMA JudgingFiniteNext ==
    /\ IsFiniteSet(Judging') /\ Cardinality(Judging') \in Nat
    /\ Cardinality(Judging') <= Cardinality(LoginReqs)
<1>1. Judging' \subseteq LoginReqs
  BY DEF Judging
<1> QED
  BY <1>1, SubsetCard, SessionsAssumption DEF SessionsAssumption

LEMMA InitSessions == SessionsInit => SessionsInv
<1> SUFFICES ASSUME SessionsInit PROVE SessionsInv
  OBVIOUS
<1>1. failed = 0 /\ loginFaults = 0 /\ loggedOut = {}
  BY DEF SessionsInit
<1>2. MaxFailed - 1 \in Nat
  BY SessionsAssumption DEF SessionsAssumption
<1>3. failed + Cardinality(Judging) <= MaxFailed - 1 + Cardinality(LoginReqs) + loginFaults
  BY <1>1, <1>2, JudgingFinite
<1>4. mfa \in [secret : 0..MaxSecrets, enabled : BOOLEAN] /\ mfaSecrets \in 0..MaxSecrets
  BY SessionsAssumption DEF SessionsAssumption, SessionsInit
<1>5. SessionsTypeOK
  BY <1>4, SessionsAssumption DEF SessionsAssumption, SessionsInit, SessionsTypeOK
<1> QED
  BY <1>1, <1>3, <1>5 DEF SessionsInv

\* A request moves; the others stay.
LEMMA LoginMoves ==
    ASSUME SessionsTypeOK, NEW r \in LoginReqs, NEW from, NEW to \in {"idle", "judge", "enableMFA"},
           Step(r, from, to)
    PROVE  /\ loginPc' \in [LoginReqs -> {"idle", "judge", "enableMFA"}]
           /\ from = "judge" /\ to # "judge" => Cardinality(Judging') = Cardinality(Judging) - 1
           /\ from # "judge" /\ to # "judge" => Cardinality(Judging') = Cardinality(Judging)
           /\ Cardinality(Judging') <= Cardinality(Judging) + 1
<1>1. /\ loginPc' \in [LoginReqs -> {"idle", "judge", "enableMFA"}]
      /\ loginPc[r] = from /\ loginPc'[r] = to
      /\ \A q \in LoginReqs \ {r} : loginPc'[q] = loginPc[q]
  BY DEF Step, SessionsTypeOK
<1>2. CASE from = "judge" /\ to # "judge"
  <2>1. r \in Judging /\ Judging' = Judging \ {r}
    BY <1>1, <1>2 DEF Judging
  <2> QED
    BY <1>1, <1>2, <2>1, JudgingFinite, DropCard
<1>3. CASE from # "judge" /\ to # "judge"
  <2>1. Judging' = Judging
    BY <1>1, <1>3 DEF Judging
  <2> QED
    BY <1>1, <1>3, <2>1, JudgingFinite
<1>4. CASE to = "judge"
  <2>1. Judging' = Judging \cup {r}
    BY <1>1, <1>4 DEF Judging
  <2> QED
    BY <1>1, <1>4, <2>1, JudgingFinite, AddCard
<1> QED
  BY <1>2, <1>3, <1>4

\* Two sums compared.
LEMMA LoginSums ==
    ASSUME NEW f \in Nat, NEW g \in Nat, NEW a \in Nat, NEW b \in Nat, NEW x \in Nat, NEW y \in Nat, y >= x
    PROVE  /\ g = f /\ b <= a + 1 /\ y = x + 1 => g + b - y <= f + a - x
           /\ g \in {f, f + 1} /\ b = a - 1 => g + b - y <= f + a - x
           /\ g <= f /\ b <= a => g + b - y <= f + a - x
OBVIOUS

\* The bound, from the counts before and after.
LEMMA WithinLockout ==
    ASSUME SessionsInv, failed' \in Nat, loginFaults' \in 0..MaxLoginFaults,
           \/ failed' + Cardinality(Judging') - loginFaults' <= failed + Cardinality(Judging) - loginFaults
           \/ failed' <= MaxFailed - 1 /\ loginFaults' >= 0
    PROVE  failed' + Cardinality(Judging') <= MaxFailed - 1 + Cardinality(LoginReqs) + loginFaults'
<1> DEFINE a == Cardinality(Judging)
           b == Cardinality(Judging')
           n == Cardinality(LoginReqs)
<1>1. a \in Nat /\ b \in Nat /\ n \in Nat /\ b <= n
  BY JudgingFinite, JudgingFiniteNext
<1>2. failed \in Nat /\ loginFaults \in Nat /\ MaxFailed \in Nat /\ MaxLoginFaults \in Nat
  BY SessionsAssumption DEF SessionsInv, SessionsTypeOK, SessionsAssumption
<1>3. failed + a <= MaxFailed - 1 + n + loginFaults
  BY DEF SessionsInv
<1>4. \/ failed' + b - loginFaults' <= failed + a - loginFaults
      \/ failed' <= MaxFailed - 1
  OBVIOUS
<1>5. failed' \in Nat /\ loginFaults' \in Nat
  BY <1>2
<1> DEFINE f == failed
           g == failed'
           x == loginFaults
           y == loginFaults'
<1>7. /\ f + a <= MaxFailed - 1 + n + x /\ (g + b - y <= f + a - x \/ g <= MaxFailed - 1)
      /\ f \in Nat /\ g \in Nat /\ x \in Nat /\ y \in Nat
  BY <1>2, <1>3, <1>4, <1>5
<1> HIDE DEF a, b, n, f, g, x, y
<1>6. g + b <= MaxFailed - 1 + n + y
  BY <1>1, <1>2, <1>7
<1> QED
  BY <1>6 DEF b, n, g, y

\* The faults only count up.
LEMMA LoginFaultsType ==
    ASSUME SessionsTypeOK, \/ UNCHANGED loginFaults
                           \/ loginFaults < MaxLoginFaults /\ loginFaults' = loginFaults + 1
    PROVE  loginFaults' \in 0..MaxLoginFaults /\ loginFaults' \in Nat /\ loginFaults \in Nat
           /\ loginFaults' >= loginFaults
BY SessionsAssumption DEF SessionsAssumption, SessionsTypeOK

\* Judging a password or a code.
LEMMA JudgeKeeps ==
    ASSUME SessionsInv, NEW r \in LoginReqs,
           Login(r) \/ WrongPassword(r) \/ WrongMFACode(r) \/ LoginRefused(r) \/ LoginFails(r)
    PROVE  SessionsInv'
<1>0. SessionsTypeOK /\ failed \in Nat /\ MaxFailed \in Nat
  BY SessionsAssumption DEF SessionsInv, SessionsTypeOK, SessionsAssumption
<1>1. UNCHANGED <<mfa, mfaSecrets, access, revoked, loggedOut>>
  BY DEF Login, WrongPassword, WrongMFACode, LoginRefused, LoginFails, mfaVars, sessionVars
<1>2. /\ failed' \in Nat /\ loginFaults' \in 0..MaxLoginFaults
      /\ loginPc' \in [LoginReqs -> {"idle", "judge", "enableMFA"}]
      /\ \/ failed' + Cardinality(Judging') - loginFaults' <= failed + Cardinality(Judging) - loginFaults
         \/ failed' <= MaxFailed - 1 /\ loginFaults' >= 0
  <2> DEFINE a == Cardinality(Judging)
             b == Cardinality(Judging')
  <2>0. a \in Nat /\ b \in Nat
    BY JudgingFinite, JudgingFiniteNext
  <2>f. /\ loginFaults' \in 0..MaxLoginFaults /\ loginFaults' \in Nat /\ loginFaults \in Nat
        /\ loginFaults' >= loginFaults
    BY <1>0, LoginFaultsType DEF Login, WrongPassword, WrongMFACode, LoginRefused, LoginFails, RecordFailure
  <2>1. CASE Login(r)
    <3>1. loginPc' \in [LoginReqs -> {"idle", "judge", "enableMFA"}] /\ b <= a + 1
      BY <1>0, <2>1, LoginMoves DEF Login
    <3>2. failed' = failed /\ (failed < MaxFailed \/ loginFaults' = loginFaults + 1)
      BY <2>1 DEF Login
    <3> HIDE DEF a, b
    <3>3. failed' + b - loginFaults' <= failed + a - loginFaults \/ failed' <= MaxFailed - 1
      <4>1. CASE failed < MaxFailed
        BY <1>0, <3>2, <4>1
      <4>2. CASE loginFaults' = loginFaults + 1
        BY <1>0, <2>0, <2>f, <3>1, <3>2, <4>2, LoginSums
      <4> QED
        BY <3>2, <4>1, <4>2
    <3> QED
      BY <1>0, <2>f, <3>1, <3>2, <3>3 DEF a, b
  <2>2. CASE WrongPassword(r) \/ WrongMFACode(r)
    <3>1. loginPc' \in [LoginReqs -> {"idle", "judge", "enableMFA"}] /\ b = a - 1
      BY <1>0, <2>2, LoginMoves DEF WrongPassword, WrongMFACode
    <3>2. failed' \in {failed, failed + 1}
      BY <2>2 DEF WrongPassword, WrongMFACode, RecordFailure
    <3> HIDE DEF a, b
    <3>3. failed' \in Nat /\ failed' + b - loginFaults' <= failed + a - loginFaults
      <4>1. failed' \in Nat
        BY <1>0, <3>2
      <4> QED
        BY <1>0, <2>0, <2>f, <3>1, <3>2, <4>1, LoginSums
    <3> QED
      BY <2>f, <3>1, <3>3 DEF a, b
  <2>3. CASE LoginRefused(r) \/ LoginFails(r)
    <3>1. PICK pc \in {"judge", "enableMFA"} : Step(r, pc, "idle")
      BY <2>3 DEF LoginRefused, LoginFails
    <3>2. loginPc' \in [LoginReqs -> {"idle", "judge", "enableMFA"}] /\ b <= a
      <4>1. /\ loginPc' \in [LoginReqs -> {"idle", "judge", "enableMFA"}]
            /\ b = a - 1 \/ b = a
        BY <1>0, <3>1, LoginMoves
      <4> HIDE DEF a, b
      <4> QED
        BY <2>0, <4>1
    <3>3. failed' = failed
      BY <2>3 DEF LoginRefused, LoginFails
    <3> HIDE DEF a, b
    <3>4. failed' + b - loginFaults' <= failed + a - loginFaults
      <4>1. failed' \in Nat /\ failed' <= failed
        BY <1>0, <3>3
      <4> QED
        BY <1>0, <2>0, <2>f, <3>2, <4>1, LoginSums
    <3> QED
      BY <1>0, <2>f, <3>2, <3>3, <3>4 DEF a, b
  <2> QED
    BY <2>1, <2>2, <2>3
<1>3. SessionsTypeOK'
  BY <1>0, <1>1, <1>2 DEF SessionsTypeOK
<1>4. failed' + Cardinality(Judging') <= MaxFailed - 1 + Cardinality(LoginReqs) + loginFaults'
  BY <1>2, WithinLockout
<1> QED
  BY <1>1, <1>3, <1>4 DEF SessionsInv

\* Everything else leaves the failures alone but for their ageing.
LEMMA SessionKeeps ==
    ASSUME SessionsInv,
           \/ \E r \in LoginReqs : LoginSucceeds(r) \/ MFAVerify(r) \/ EnableMFA(r)
           \/ AttemptAges \/ Logout \/ Refresh \/ AccessExpires \/ CleanExpiredRevocations
           \/ MFAEnable \/ MFADisable
    PROVE  SessionsInv'
<1>0. SessionsTypeOK /\ failed \in Nat /\ mfaSecrets \in Nat /\ MaxSecrets \in Nat
  BY SessionsAssumption DEF SessionsInv, SessionsTypeOK, SessionsAssumption
<1>1. failed' \in Nat /\ failed' <= failed
  <2>1. failed' = failed \/ (failed > 0 /\ failed' = failed - 1)
    BY DEF LoginSucceeds, MFAVerify, EnableMFA, AttemptAges, Logout, Refresh, AccessExpires,
           CleanExpiredRevocations, MFAEnable, MFADisable
  <2> QED
    BY <1>0, <2>1
<1>2. /\ loginFaults' \in 0..MaxLoginFaults /\ loginFaults' \in Nat /\ loginFaults \in Nat
      /\ loginFaults' >= loginFaults
  BY <1>0, LoginFaultsType DEF LoginSucceeds, MFAVerify, EnableMFA, AttemptAges, Logout, Fault, Refresh,
     AccessExpires, CleanExpiredRevocations, MFAEnable, MFADisable
<1>3. /\ loginPc' \in [LoginReqs -> {"idle", "judge", "enableMFA"}]
      /\ Cardinality(Judging') <= Cardinality(Judging)
  <2> DEFINE a == Cardinality(Judging)
             b == Cardinality(Judging')
  <2>0. a \in Nat /\ b \in Nat
    BY JudgingFinite, JudgingFiniteNext
  <2>1. CASE UNCHANGED loginPc
    <3>1. Judging' = Judging
      BY <2>1 DEF Judging
    <3> QED
      BY <1>0, <2>0, <2>1, <3>1 DEF SessionsTypeOK
  <2>2. ASSUME NEW r \in LoginReqs, LoginSucceeds(r) \/ MFAVerify(r) \/ EnableMFA(r)
        PROVE  /\ loginPc' \in [LoginReqs -> {"idle", "judge", "enableMFA"}]
               /\ b <= a
    <3>1. \/ Step(r, "judge", "idle") \/ Step(r, "idle", "enableMFA") \/ Step(r, "enableMFA", "idle")
      BY <2>2 DEF LoginSucceeds, MFAVerify, EnableMFA
    <3>2. /\ loginPc' \in [LoginReqs -> {"idle", "judge", "enableMFA"}]
          /\ b = a - 1 \/ b = a
      BY <1>0, <3>1, LoginMoves
    <3> HIDE DEF a, b
    <3> QED
      BY <2>0, <3>2
  <2> QED
    BY <2>1, <2>2 DEF AttemptAges, Logout, Refresh, AccessExpires, CleanExpiredRevocations,
                      MFAEnable, MFADisable
<1>4. failed' + Cardinality(Judging') <= MaxFailed - 1 + Cardinality(LoginReqs) + loginFaults'
  <2> DEFINE a == Cardinality(Judging)
             b == Cardinality(Judging')
  <2>0. a \in Nat /\ b \in Nat /\ b <= a
    BY <1>3, JudgingFinite, JudgingFiniteNext
  <2> HIDE DEF a, b
  <2>1. failed' + b - loginFaults' <= failed + a - loginFaults
    BY <1>0, <1>1, <1>2, <2>0, LoginSums
  <2> QED
    BY <1>1, <1>2, <2>1, WithinLockout DEF a, b
<1>5. /\ access' \in [Jtis -> {"unused", "valid", "expired"}] /\ revoked' \subseteq Jtis /\ loggedOut' \subseteq Jtis
      /\ \A j \in loggedOut' : access'[j] = "expired" \/ (access'[j] = "valid" /\ j \in revoked')
  <2>1. CASE GenerateTokenPair /\ UNCHANGED <<revoked, loggedOut>>
    BY <1>0, <2>1 DEF GenerateTokenPair, SessionsInv, SessionsTypeOK
  <2>2. CASE UNCHANGED sessionVars
    BY <1>0, <2>2 DEF sessionVars, SessionsInv, SessionsTypeOK
  <2>3. CASE Logout
    BY <1>0, <2>3 DEF Logout, JWTAuth, SessionsInv, SessionsTypeOK
  <2>4. CASE AccessExpires
    BY <1>0, <2>4 DEF AccessExpires, SessionsInv, SessionsTypeOK
  <2>5. CASE CleanExpiredRevocations
    BY <1>0, <2>5 DEF CleanExpiredRevocations, SessionsInv, SessionsTypeOK
  <2> QED
    BY <2>1, <2>2, <2>3, <2>4, <2>5 DEF LoginSucceeds, MFAVerify, EnableMFA, AttemptAges, Refresh,
       MFAEnable, MFADisable, sessionVars
<1>6. mfa' \in [secret : 0..MaxSecrets, enabled : BOOLEAN] /\ mfaSecrets' \in 0..MaxSecrets
  <2>1. CASE UNCHANGED mfaVars
    BY <1>0, <2>1 DEF mfaVars, SessionsTypeOK
  <2>2. CASE MFAEnable
    <3>1. mfaSecrets + 1 \in 0..MaxSecrets /\ FALSE \in BOOLEAN
      BY <1>0, <2>2 DEF MFAEnable
    <3> QED
      BY <2>2, <3>1 DEF MFAEnable
  <2>3. CASE \E r \in LoginReqs : EnableMFA(r)
    <3>1. (mfa.secret # 0) \in BOOLEAN
      OBVIOUS
    <3> QED
      BY <1>0, <2>3, <3>1 DEF EnableMFA, SessionsTypeOK
  <2>4. CASE MFADisable
    BY <1>0, <2>4 DEF MFADisable, SessionsTypeOK
  <2> QED
    BY <2>1, <2>2, <2>3, <2>4 DEF LoginSucceeds, MFAVerify, AttemptAges, Logout, Refresh, AccessExpires,
       CleanExpiredRevocations
<1> QED
  BY <1>1, <1>2, <1>3, <1>4, <1>5, <1>6 DEF SessionsInv, SessionsTypeOK

LEMMA SessionsKeep == ASSUME SessionsInv, [SessionsNext]_loginVars PROVE SessionsInv'
<1>1. CASE UNCHANGED loginVars
  <2>1. Judging' = Judging
    BY <1>1 DEF loginVars, Judging
  <2> QED
    BY <1>1, <2>1 DEF loginVars, SessionsInv, SessionsTypeOK
<1> QED
  BY <1>1, JudgeKeeps, SessionKeeps DEF SessionsNext

LEMMA LoginIsSafe == SessionsInv => LockoutBound /\ LoggedOutRefused
<1> SUFFICES ASSUME SessionsInv PROVE LockoutBound /\ LoggedOutRefused
  OBVIOUS
<1> DEFINE a == Cardinality(Judging)
           n == Cardinality(LoginReqs)
<1>1. a \in Nat /\ n \in Nat /\ failed \in Nat /\ loginFaults \in Nat /\ MaxFailed \in Nat
  BY JudgingFinite, SessionsAssumption DEF SessionsInv, SessionsTypeOK, SessionsAssumption
<1>2. failed + a <= MaxFailed - 1 + n + loginFaults
  BY DEF SessionsInv
<1> HIDE DEF a, n
<1>3. failed <= MaxFailed - 1 + n + loginFaults
  BY <1>1, <1>2
<1>4. LoggedOutRefused
  BY DEF SessionsInv, LoggedOutRefused, JWTAuth
<1> QED
  BY <1>3, <1>4 DEF LockoutBound, n

\* The failed log-ins pass the limit only by the requests that had counted in time and by
\* lost counts; a token whose Logout succeeded is refused until it expires (auth.go,
\* middleware/auth.go, scheduler.go), for any number of requests and tokens.
THEOREM LoginsAreBounded == SessionsSpec => [](LockoutBound /\ LoggedOutRefused)
BY InitSessions, SessionsKeep, LoginIsSafe, PTL DEF SessionsSpec

-----------------------------------------------------------------------------
(***************************************************************************)
(* The members of an organization.                                          *)
(***************************************************************************)
\* A request that is free serves no single sign-on;
\* one that looks for a member row holds a user.
TeamShape(r) ==
    /\ Free(r) => teamReq[r].op # "sso"
    /\ teamReq[r].pc \in {"member", "add"} => teamReq[r].id \in 0..MaxUsers
TeamInv == TeamTypeOK /\ \A r \in TeamReqs : TeamShape(r)

TeamRequest ==
    [op : Ops \union {"none", "remove", "erase"}, email : Emails,
     pc : {"ok", "failed", "lookup", "create", "member", "add", "delete", "erase"},
     id : 0..(MaxUsers + MaxMembers)]

LEMMA NoRequestType ==
    /\ NoRequest \in TeamRequest /\ NoRequest.op = "none" /\ NoRequest.pc = "ok" /\ NoRequest.email \in Emails
    /\ [NoRequest EXCEPT !.pc = "failed"] \in TeamRequest
<1>1. (CHOOSE e \in Emails : TRUE) \in Emails
  BY TeamAssumption DEF TeamAssumption
<1>2. 0 \in 0..(MaxUsers + MaxMembers)
  BY TeamAssumption DEF TeamAssumption
<1> QED
  BY <1>1, <1>2 DEF NoRequest, TeamRequest, Ops

LEMMA InitTeam == TeamInit => TeamInv
<1> SUFFICES ASSUME TeamInit PROVE TeamInv
  OBVIOUS
<1>1. /\ MaxUsers \in Nat /\ MaxUsers >= 1 /\ MaxMembers \in Nat /\ MaxMembers >= 1
      /\ MaxTeamFaults \in Nat
  BY TeamAssumption DEF TeamAssumption
<1>2. userOf \in [Emails -> 0..MaxUsers] /\ userCount \in 0..MaxUsers /\ memberCount \in 0..MaxMembers
  BY <1>1 DEF TeamInit
<1>3. members \in [MemberIds -> [user : 0..MaxUsers, role : Roles]]
  <2>1. NoMember \in [user : 0..MaxUsers, role : Roles] /\ [user |-> 1, role |-> "owner"] \in [user : 0..MaxUsers, role : Roles]
    BY <1>1 DEF NoMember, Roles
  <2> QED
    BY <2>1 DEF TeamInit
<1>4. teamReq \in [TeamReqs -> TeamRequest] /\ \A r \in TeamReqs : teamReq[r] = NoRequest
  BY NoRequestType DEF TeamInit
<1>5. ssoStates \subseteq 1..MaxStates /\ teamFaults \in 0..MaxTeamFaults
  BY <1>1 DEF TeamInit
<1>6. ssoOn \in BOOLEAN
  BY Zenon DEF TeamInit
<1> QED
  BY <1>2, <1>3, <1>4, <1>5, <1>6, NoRequestType DEF TeamInv, TeamShape, TeamTypeOK, TeamRequest, Free

\* What a step does to the request it serves: it begins, goes on, or is answered.
LEMMA RequestServed ==
    ASSUME TeamInv, NEW r \in TeamReqs, NEW op \in Ops \union {"remove", "erase"},
           NEW pc \in {"lookup", "delete", "erase"}, NEW e \in Emails,
           NEW id \in 0..(MaxUsers + MaxMembers), ServeTeam(r, op, pc, e, id)
    PROVE  /\ teamReq' \in [TeamReqs -> TeamRequest]
           /\ \A q \in TeamReqs : TeamShape(q)'
           /\ \A q \in TeamReqs \ {r} : teamReq'[q] = teamReq[q]
           /\ teamReq'[r].pc = pc
<1>1. [op |-> op, pc |-> pc, email |-> e, id |-> id] \in TeamRequest
  BY DEF TeamRequest
<1>2. teamReq \in [TeamReqs -> TeamRequest]
  BY DEF TeamInv, TeamTypeOK, TeamRequest
<1>3. teamReq' \in [TeamReqs -> TeamRequest]
  BY <1>1, <1>2 DEF ServeTeam
<1>4. \A q \in TeamReqs \ {r} : teamReq'[q] = teamReq[q]
  BY <1>2 DEF ServeTeam
<1>5. teamReq'[r].pc = pc
  BY <1>2 DEF ServeTeam
<1> QED
  BY <1>3, <1>4, <1>5 DEF TeamInv, TeamShape, Free

LEMMA RequestAdvances ==
    ASSUME TeamInv, NEW r \in TeamReqs, NEW pc \in {"lookup", "create", "member", "add"},
           NEW id \in 0..(MaxUsers + MaxMembers), Advance(r, pc, id),
           pc \in {"member", "add"} => id \in 0..MaxUsers
    PROVE  /\ teamReq' \in [TeamReqs -> TeamRequest]
           /\ \A q \in TeamReqs : TeamShape(q)'
           /\ \A q \in TeamReqs \ {r} : teamReq'[q] = teamReq[q]
           /\ teamReq'[r].pc = pc
<1>2. teamReq \in [TeamReqs -> TeamRequest]
  BY DEF TeamInv, TeamTypeOK, TeamRequest
<1>3. teamReq' \in [TeamReqs -> TeamRequest]
  BY <1>2 DEF Advance, TeamRequest
<1>4. \A q \in TeamReqs \ {r} : teamReq'[q] = teamReq[q]
  BY <1>2 DEF Advance
<1>5. teamReq'[r].pc = pc /\ teamReq'[r].id = id
  BY <1>2 DEF Advance, TeamRequest
<1> QED
  BY <1>3, <1>4, <1>5 DEF TeamInv, TeamShape, Free

LEMMA RequestAnswered ==
    ASSUME TeamInv, NEW r \in TeamReqs, NEW answer \in {"ok", "failed"}, Finish(r, answer)
    PROVE  /\ teamReq' \in [TeamReqs -> TeamRequest]
           /\ \A q \in TeamReqs : TeamShape(q)'
           /\ \A q \in TeamReqs \ {r} : teamReq'[q] = teamReq[q]
           /\ teamReq'[r].pc = answer
<1>1. /\ [NoRequest EXCEPT !.pc = answer] \in TeamRequest
      /\ [NoRequest EXCEPT !.pc = answer].op = "none" /\ [NoRequest EXCEPT !.pc = answer].pc = answer
  BY NoRequestType DEF TeamRequest
<1>2. teamReq \in [TeamReqs -> TeamRequest]
  BY DEF TeamInv, TeamTypeOK, TeamRequest
<1>3. teamReq' \in [TeamReqs -> TeamRequest]
  BY <1>1, <1>2 DEF Finish
<1>4. /\ teamReq'[r] = [NoRequest EXCEPT !.pc = answer]
      /\ \A q \in TeamReqs \ {r} : teamReq'[q] = teamReq[q]
  BY <1>2 DEF Finish
<1> QED
  BY <1>1, <1>3, <1>4 DEF TeamInv, TeamShape, Free

\* No single sign-on fails in this step but as a member, or by a fault.
SSOFailsAsMember ==
    \A r \in TeamReqs :
       teamReq[r].op = "sso" /\ teamReq'[r].pc = "failed" /\ teamFaults' = teamFaults
       => TeamRowsOf(teamReq[r].id) # {}

\* What every step does to the requests.
TeamOutcome ==
    /\ teamReq' \in [TeamReqs -> TeamRequest]
    /\ \A q \in TeamReqs : TeamShape(q)'
    /\ SSOFailsAsMember

\* A step of one request that does not end it in failure.
LEMMA OtherRequestsStand ==
    ASSUME TeamInv, NEW r \in TeamReqs, \A q \in TeamReqs \ {r} : teamReq'[q] = teamReq[q],
           \/ teamReq'[r].pc # "failed" \/ teamReq[r].op # "sso" \/ teamFaults' # teamFaults
           \/ TeamRowsOf(teamReq[r].id) # {}
    PROVE  SSOFailsAsMember
BY DEF SSOFailsAsMember, TeamInv, TeamShape, Free

LEMMA TeamRequestsKeep == ASSUME TeamInv, TeamNext PROVE TeamOutcome
<1>0. /\ teamReq \in [TeamReqs -> TeamRequest] /\ MaxUsers \in Nat /\ MaxMembers \in Nat
      /\ userOf \in [Emails -> 0..MaxUsers] /\ userCount \in 0..MaxUsers /\ teamFaults \in Nat
  BY TeamAssumption DEF TeamInv, TeamTypeOK, TeamRequest, TeamAssumption
<1>z. 0 \in 0..(MaxUsers + MaxMembers) /\ 0..MaxUsers \subseteq 0..(MaxUsers + MaxMembers)
      /\ MemberIds \subseteq 0..(MaxUsers + MaxMembers)
  BY <1>0 DEF MemberIds
<1>1. ASSUME NEW r \in TeamReqs, NEW e \in Emails,
             Invite(r, e) \/ SCIMCreateUser(r, e) \/ SAMLACS(r, e) \/ DeleteMyAccount(r, e)
      PROVE  TeamOutcome
  <2>1. PICK op \in Ops \union {"remove", "erase"}, pc \in {"lookup", "delete", "erase"},
             id \in 0..(MaxUsers + MaxMembers) : ServeTeam(r, op, pc, e, id)
    BY <1>0, <1>1, <1>z DEF Invite, SCIMCreateUser, SAMLACS, DeleteMyAccount, Ops
  <2> QED
    BY <2>1, RequestServed, OtherRequestsStand DEF TeamOutcome
<1>2. ASSUME NEW r \in TeamReqs, NEW e \in Emails, OIDCCallback(r, e) PROVE TeamOutcome
  <2>1. CASE ServeTeam(r, "sso", "lookup", e, 0)
    BY <1>z, <2>1, RequestServed, OtherRequestsStand DEF TeamOutcome, Ops
  <2>2. CASE Finish(r, "failed")
    <3>1. teamReq[r].op # "sso"
      BY <1>2 DEF OIDCCallback, TeamInv, TeamShape
    <3> QED
      BY <2>2, <3>1, RequestAnswered, OtherRequestsStand DEF TeamOutcome
  <2> QED
    BY <1>2, <2>1, <2>2 DEF OIDCCallback
<1>3. ASSUME NEW r \in TeamReqs, GetUserByEmail(r) PROVE TeamOutcome
  <2>1. userOf[teamReq[r].email] \in 0..(MaxUsers + MaxMembers) /\ userOf[teamReq[r].email] \in 0..MaxUsers
    BY <1>0, <1>z DEF TeamRequest
  <2>2. PICK pc \in {"create", "member"} : Advance(r, pc, userOf[teamReq[r].email])
    BY <1>3 DEF GetUserByEmail
  <2> QED
    BY <2>1, <2>2, RequestAdvances, OtherRequestsStand DEF TeamOutcome
<1>4. ASSUME NEW r \in TeamReqs, CreateUserRow(r) PROVE TeamOutcome
  <2>1. CASE userCount < MaxUsers /\ Advance(r, "member", userCount + 1)
    <3>1. userCount + 1 \in 0..(MaxUsers + MaxMembers) /\ userCount + 1 \in 0..MaxUsers
      BY <1>0, <2>1
    <3> QED
      BY <2>1, <3>1, RequestAdvances, OtherRequestsStand DEF TeamOutcome
  <2>2. CASE Advance(r, "lookup", 0)
    BY <1>z, <2>2, RequestAdvances, OtherRequestsStand DEF TeamOutcome
  <2>3. CASE teamReq[r].op # "sso" /\ Finish(r, "failed")
    BY <2>3, RequestAnswered, OtherRequestsStand DEF TeamOutcome
  <2> QED
    BY <1>4, <2>1, <2>2, <2>3 DEF CreateUserRow
<1>5. ASSUME NEW r \in TeamReqs, GetMember(r) PROVE TeamOutcome
  <2>1. CASE Advance(r, "add", teamReq[r].id)
    <3>1. teamReq[r].id \in 0..(MaxUsers + MaxMembers) /\ teamReq[r].id \in 0..MaxUsers
      BY <1>0, <1>5 DEF TeamRequest, TeamInv, TeamShape, GetMember, AtStep
    <3> QED
      BY <2>1, <3>1, RequestAdvances, OtherRequestsStand DEF TeamOutcome
  <2>2. CASE TeamRowsOf(teamReq[r].id) # {} /\ Finish(r, IF teamReq[r].op = "invite" THEN "failed" ELSE "ok")
    <3>1. PICK answer \in {"ok", "failed"} : Finish(r, answer)
      BY <2>2
    <3> QED
      BY <2>2, <3>1, RequestAnswered, OtherRequestsStand DEF TeamOutcome
  <2> QED
    BY <1>5, <2>1, <2>2 DEF GetMember
<1>6. ASSUME NEW r \in TeamReqs, AddOrgMember(r) PROVE TeamOutcome
  <2>1. CASE Finish(r, "ok")
    BY <2>1, RequestAnswered, OtherRequestsStand DEF TeamOutcome
  <2>2. CASE TeamRowsOf(teamReq[r].id) # {} /\ Finish(r, IF teamReq[r].op = "scim" THEN "ok" ELSE "failed")
    <3>1. PICK answer \in {"ok", "failed"} : Finish(r, answer)
      BY <2>2
    <3> QED
      BY <2>2, <3>1, RequestAnswered, OtherRequestsStand DEF TeamOutcome
  <2> QED
    BY <1>6, <2>1, <2>2 DEF AddOrgMember
<1>7. ASSUME NEW r \in TeamReqs, NEW m \in MemberIds, RemoveMember(r, m) PROVE TeamOutcome
  <2>1. ServeTeam(r, "remove", "delete", NoRequest.email, m) /\ m \in 0..(MaxUsers + MaxMembers)
    BY <1>7, <1>z DEF RemoveMember
  <2> QED
    BY <2>1, NoRequestType, RequestServed, OtherRequestsStand DEF TeamOutcome
<1>8. ASSUME NEW r \in TeamReqs, RemoveOrgMember(r) \/ SoftDeleteUser(r) PROVE TeamOutcome
  <2>1. Finish(r, "ok")
    BY <1>8 DEF RemoveOrgMember, SoftDeleteUser
  <2> QED
    BY <2>1, RequestAnswered, OtherRequestsStand DEF TeamOutcome
<1>9. ASSUME NEW r \in TeamReqs, TeamFails(r) PROVE TeamOutcome
  <2>1. Finish(r, "failed") /\ teamFaults' # teamFaults
    BY <1>0, <1>9 DEF TeamFails
  <2> QED
    BY <2>1, RequestAnswered, OtherRequestsStand DEF TeamOutcome
<1>10. CASE OIDCAuthorize \/ StatesLost \/ UpdateRole \/ ConfigureSSO
  <2>1. UNCHANGED teamReq
    BY <1>10 DEF OIDCAuthorize, StatesLost, UpdateRole, ConfigureSSO
  <2> QED
    BY <1>0, <2>1 DEF TeamOutcome, SSOFailsAsMember, TeamInv, TeamShape, Free
<1> QED
  BY <1>1, <1>2, <1>3, <1>4, <1>5, <1>6, <1>7, <1>8, <1>9, <1>10 DEF TeamNext

\* The rows and counters of the organization.
LEMMA TeamRowsKeep ==
    ASSUME TeamInv, TeamNext
    PROVE  /\ userOf' \in [Emails -> 0..MaxUsers] /\ userCount' \in 0..MaxUsers
           /\ members' \in [MemberIds -> [user : 0..MaxUsers, role : Roles]]
           /\ memberCount' \in 0..MaxMembers
           /\ ssoOn' \in BOOLEAN /\ ssoStates' \subseteq 1..MaxStates /\ teamFaults' \in 0..MaxTeamFaults
<1>0. /\ teamReq \in [TeamReqs -> TeamRequest] /\ MaxUsers \in Nat /\ MaxMembers \in Nat
      /\ userOf \in [Emails -> 0..MaxUsers] /\ userCount \in 0..MaxUsers
      /\ members \in [MemberIds -> [user : 0..MaxUsers, role : Roles]] /\ memberCount \in 0..MaxMembers
      /\ ssoOn \in BOOLEAN /\ ssoStates \subseteq 1..MaxStates /\ teamFaults \in 0..MaxTeamFaults
      /\ MaxTeamFaults \in Nat
  BY TeamAssumption DEF TeamInv, TeamTypeOK, TeamRequest, TeamAssumption
<1>1. userOf' \in [Emails -> 0..MaxUsers] /\ userCount' \in 0..MaxUsers
  <2>1. CASE UNCHANGED <<userOf, userCount>>
    BY <1>0, <2>1
  <2>2. ASSUME NEW r \in TeamReqs, userCount < MaxUsers, userCount' = userCount + 1,
               userOf' = [userOf EXCEPT ![teamReq[r].email] = userCount + 1]
        PROVE  userOf' \in [Emails -> 0..MaxUsers] /\ userCount' \in 0..MaxUsers
    <3>1. userCount + 1 \in 0..MaxUsers
      BY <1>0, <2>2
    <3> QED
      BY <1>0, <2>2, <3>1
  <2>3. ASSUME NEW r \in TeamReqs, SoftDeleteUser(r)
        PROVE  userOf' \in [Emails -> 0..MaxUsers] /\ userCount' \in 0..MaxUsers
    BY <1>0, <2>3 DEF SoftDeleteUser
  <2> QED
    BY <2>1, <2>2, <2>3 DEF TeamNext, Invite, SCIMCreateUser, SAMLACS, OIDCCallback, DeleteMyAccount,
       GetUserByEmail, CreateUserRow, GetMember, AddOrgMember, RemoveMember, RemoveOrgMember, TeamFails,
       OIDCAuthorize, StatesLost, UpdateRole, ConfigureSSO
<1>2. members' \in [MemberIds -> [user : 0..MaxUsers, role : Roles]] /\ memberCount' \in 0..MaxMembers
  <2>1. CASE UNCHANGED <<members, memberCount>>
    BY <1>0, <2>1
  <2>2. ASSUME NEW r \in TeamReqs, AddOrgMember(r), ~UNCHANGED <<members, memberCount>>
        PROVE  members' \in [MemberIds -> [user : 0..MaxUsers, role : Roles]] /\ memberCount' \in 0..MaxMembers
    <3>1. teamReq[r].id \in 0..MaxUsers
      BY <2>2 DEF TeamInv, TeamShape, AddOrgMember, AtStep
    <3>2. PICK role \in Roles :
            /\ memberCount < MaxMembers /\ memberCount' = memberCount + 1
            /\ members' = [members EXCEPT ![memberCount + 1] = [user |-> teamReq[r].id, role |-> role]]
      BY <2>2 DEF AddOrgMember, Roles
    <3>3. memberCount + 1 \in 0..MaxMembers
      BY <1>0, <3>2
    <3>4. [user |-> teamReq[r].id, role |-> role] \in [user : 0..MaxUsers, role : Roles]
      BY <3>1
    <3> QED
      BY <1>0, <3>2, <3>3, <3>4
  <2>3. ASSUME NEW r \in TeamReqs, RemoveOrgMember(r)
        PROVE  members' \in [MemberIds -> [user : 0..MaxUsers, role : Roles]] /\ memberCount' \in 0..MaxMembers
    <3>1. NoMember \in [user : 0..MaxUsers, role : Roles]
      BY <1>0 DEF NoMember, Roles
    <3> QED
      BY <1>0, <2>3, <3>1 DEF RemoveOrgMember
  <2>4. CASE UpdateRole
    BY <1>0, <2>4 DEF UpdateRole
  <2> QED
    BY <2>1, <2>2, <2>3, <2>4 DEF TeamNext, Invite, SCIMCreateUser, SAMLACS, OIDCCallback, DeleteMyAccount,
       GetUserByEmail, CreateUserRow, GetMember, RemoveMember, SoftDeleteUser, TeamFails,
       OIDCAuthorize, StatesLost, ConfigureSSO
<1>3. ssoStates' \subseteq 1..MaxStates
  BY <1>0 DEF TeamNext, Invite, SCIMCreateUser, SAMLACS, OIDCCallback, DeleteMyAccount,
       GetUserByEmail, CreateUserRow, GetMember, AddOrgMember, RemoveMember, RemoveOrgMember, SoftDeleteUser,
       TeamFails, OIDCAuthorize, StatesLost, UpdateRole, ConfigureSSO
<1>4. ssoOn' \in BOOLEAN
  <2>1. ssoOn' = ssoOn \/ ssoOn' = ~ssoOn
    BY Zenon DEF TeamNext, Invite, SCIMCreateUser, SAMLACS, OIDCCallback, DeleteMyAccount,
       GetUserByEmail, CreateUserRow, GetMember, AddOrgMember, RemoveMember, RemoveOrgMember, SoftDeleteUser,
       TeamFails, OIDCAuthorize, StatesLost, UpdateRole, ConfigureSSO
  <2> QED
    BY <1>0, <2>1, Zenon
<1>5. teamFaults' \in 0..MaxTeamFaults
  <2>1. teamFaults' = teamFaults \/ (teamFaults < MaxTeamFaults /\ teamFaults' = teamFaults + 1)
    BY DEF TeamNext, Invite, SCIMCreateUser, SAMLACS, OIDCCallback, DeleteMyAccount,
       GetUserByEmail, CreateUserRow, GetMember, AddOrgMember, RemoveMember, RemoveOrgMember, SoftDeleteUser,
       TeamFails, OIDCAuthorize, StatesLost, UpdateRole, ConfigureSSO
  <2> QED
    BY <1>0, <2>1
<1> QED
  BY <1>1, <1>2, <1>3, <1>4, <1>5

LEMMA TeamKeeps == ASSUME TeamInv, [TeamNext]_teamVars PROVE TeamInv' /\ SSOFailsAsMember
<1>1. CASE UNCHANGED teamVars
  BY <1>1 DEF teamVars, TeamInv, TeamShape, TeamTypeOK, Free, SSOFailsAsMember
<1>2. CASE TeamNext
  <2>1. TeamOutcome
    BY <1>2, TeamRequestsKeep
  <2>2. TeamTypeOK'
    BY <1>2, <2>1, TeamRowsKeep DEF TeamOutcome, TeamTypeOK, TeamRequest
  <2> QED
    BY <2>1, <2>2 DEF TeamOutcome, TeamInv
<1> QED
  BY <1>1, <1>2

\* A single sign-on that gets as far as the store fails without a fault of the store only
\* as somebody who is a member (sso_auth.go), however many log-ins race for the rows.
THEOREM SignOnFailsOnlyAsMember == TeamSpec => SSOFailsOnlyAsMember
<1>1. TeamInv /\ [TeamNext]_teamVars =>
        [\A r \in TeamReqs :
            /\ teamReq[r].op = "sso" /\ teamReq'[r].pc = "failed"
            /\ teamFaults' = teamFaults
            => TeamRowsOf(teamReq[r].id) # {}]_teamVars
  BY TeamKeeps DEF SSOFailsAsMember
<1>2. TeamInv /\ [TeamNext]_teamVars => TeamInv'
  BY TeamKeeps
<1> QED
  BY <1>1, <1>2, InitTeam, PTL DEF TeamSpec, SSOFailsOnlyAsMember

-----------------------------------------------------------------------------
(***************************************************************************)
(* The rate limiters.                                                       *)
(***************************************************************************)
\* A set of numbers that is not empty has a least.
LEMMA LeastExists ==
    ASSUME NEW S, S \subseteq Nat, S # {}
    PROVE  \E m \in S : \A y \in S : m <= y
<1> DEFINE R == OpToRel(<, Nat)
<1>1. IsWellFoundedOn(R, Nat)
  BY NatLessThanWellFounded
<1>2. \A x, y \in Nat : <<y, x>> \in R <=> y < x
  BY DEF OpToRel
<1> HIDE DEF R
<1>3. PICK z \in S : \A y \in S : ~ (<<y, z>> \in R)
  BY <1>1, WFMin
<1>4. \A y \in S : ~(y < z)
  <2> SUFFICES ASSUME NEW y \in S PROVE ~(y < z)
    OBVIOUS
  <2>1. y \in Nat /\ z \in Nat /\ ~(<<y, z>> \in R)
    BY <1>3
  <2> QED
    BY <1>2, <2>1
<1>5. z \in Nat /\ \A y \in S : y \in Nat
  OBVIOUS
<1> QED
  BY <1>4, <1>5

\* A finite set of numbers that is not empty has a greatest: a least set without one would
\* have one more element than a set with one.
LEMMA FiniteGreatest ==
    ASSUME NEW S, S \subseteq Nat, IsFiniteSet(S), S # {}
    PROVE  Max(S) \in S /\ \A y \in S : Max(S) >= y
<1> DEFINE Topped(T) == \E m \in T : \A y \in T : m >= y
           Bare == {T \in SUBSET S : T # {} /\ ~Topped(T)}
           Sizes == {Cardinality(T) : T \in Bare}
<1>1. \A T \in SUBSET S : IsFiniteSet(T) /\ Cardinality(T) \in Nat
  BY SubsetCard
<1>2. Bare = {}
  <2> SUFFICES ASSUME Bare # {} PROVE FALSE
    OBVIOUS
  <2>1. Sizes \subseteq Nat /\ Sizes # {}
    BY <1>1
  <2>2. PICK T \in Bare : \A U \in Bare : Cardinality(T) <= Cardinality(U)
    <3>1. PICK m \in Sizes : \A y \in Sizes : m <= y
      BY <2>1, LeastExists
    <3> QED
      BY <3>1
  <2>3. PICK x \in T : TRUE
    OBVIOUS
  <2>4. Cardinality(T \ {x}) < Cardinality(T)
    BY <1>1, DropCard
  <2>5. T \ {x} \notin Bare
    <3>1. Cardinality(T) \in Nat /\ Cardinality(T \ {x}) \in Nat
      BY <1>1
    <3>2. ~(Cardinality(T) <= Cardinality(T \ {x}))
      BY <2>4, <3>1
    <3> QED
      BY <2>2, <3>2, Zenon
  <2>6. CASE T \ {x} = {}
    <3>1. \A y \in T : y = x
      BY <2>6
    <3> QED
      BY <3>1
  <2>7. CASE T \ {x} # {}
    <3>1. PICK m \in T \ {x} : \A y \in T \ {x} : m >= y
      BY <2>5, <2>7
    <3>2. m \in Nat /\ x \in Nat /\ T \subseteq Nat
      OBVIOUS
    <3>3. CASE m >= x
      BY <3>1, <3>3
    <3>4. CASE x >= m
      <4>1. \A y \in T : x >= y
        BY <3>1, <3>2, <3>4
      <4> QED
        BY <4>1
    <3> QED
      BY <3>2, <3>3, <3>4
  <2> QED
    BY <2>6, <2>7
<1>3. Topped(S)
  BY <1>2
<1> QED
  BY <1>3 DEF Max

LEMMA HighestLimit ==
    /\ Max(PlanLimits) \in Nat /\ Max(PlanLimits) >= 1
    /\ \A l \in PlanLimits : l <= Max(PlanLimits)
<1>1. /\ PlanLimits \subseteq Nat /\ IsFiniteSet(PlanLimits) /\ PlanLimits # {}
      /\ \A l \in PlanLimits : l # 0
  BY FixedWindowAssumption DEF FixedWindowAssumption
<1>2. Max(PlanLimits) \in PlanLimits /\ \A y \in PlanLimits : Max(PlanLimits) >= y
  BY <1>1, FiniteGreatest
<1> DEFINE m == Max(PlanLimits)
<1>3. m \in Nat /\ m # 0 /\ \A l \in PlanLimits : l \in Nat /\ m >= l
  BY <1>1, <1>2
<1> HIDE DEF m
<1>4. m \in Nat /\ m >= 1 /\ \A l \in PlanLimits : l <= m
  BY <1>3
<1> QED
  BY <1>4 DEF m

-----------------------------------------------------------------------------
(***************************************************************************)
(* The server's counter.                                                    *)
(***************************************************************************)
AdmittedRows == [at : 0..MaxFixedTime, end : 0..(MaxFixedTime + FixedLength), nth : Nat]

\* A request was served within its window, and was one of those the plan allows;
ServedInside(q) ==
    /\ q.at <= q.end /\ q.end <= q.at + FixedLength /\ q.at <= fixedNow
    /\ 1 <= q.nth /\ q.nth <= Max(PlanLimits)
\* its window is the one that is open, or was over when that one began;
ServedBefore(q) ==
    /\ visitor.count = 0 => q.end < fixedNow
    /\ visitor.count # 0 => \/ q.end = visitor.resetAt /\ q.nth <= visitor.count
                            \/ q.end + FixedLength < visitor.resetAt
\* and the windows of two requests are one, in which they have different places, or apart.
Apart(p, q) ==
    \/ p.end = q.end /\ (p.nth = q.nth => p = q)
    \/ p.end + FixedLength < q.end \/ q.end + FixedLength < p.end

FixedWindowInv ==
    /\ FixedWindowTypeOK
    /\ visitor.count # 0 => visitor.resetAt <= fixedNow + FixedLength
    /\ \A q \in fixedAdmitted : ServedInside(q) /\ ServedBefore(q)
    /\ \A p, q \in fixedAdmitted : Apart(p, q)

LEMMA FixedConstants == FixedLength \in Nat /\ FixedLength >= 1 /\ MaxFixedTime \in Nat /\ MaxPerTick \in Nat
BY FixedWindowAssumption DEF FixedWindowAssumption

LEMMA InitFixed == FixedWindowInit => FixedWindowInv
BY FixedConstants DEF FixedWindowInit, FixedWindowInv, FixedWindowTypeOK, NoVisitor

\* A request is counted for in the window that is open.
LEMMA AdmitKeeps ==
    ASSUME FixedWindowInv, FixedAdmit, fixedNow' = fixedNow, planLimit' \in PlanLimits,
           fixedSeen' \in 0..MaxPerTick,
           visitor' \in [count : Nat, resetAt : 0..(MaxFixedTime + FixedLength)],
           1 <= visitor'.count, visitor'.count <= Max(PlanLimits),
           fixedNow <= visitor'.resetAt, visitor'.resetAt <= fixedNow + FixedLength,
           \A q \in fixedAdmitted : \/ q.end = visitor'.resetAt /\ q.nth < visitor'.count
                                    \/ q.end + FixedLength < visitor'.resetAt
    PROVE  FixedWindowInv'
<1> DEFINE new == visitor'
           e == [at |-> fixedNow, end |-> new.resetAt, nth |-> new.count]
<1>1. /\ fixedNow \in 0..MaxFixedTime /\ fixedAdmitted \subseteq AdmittedRows
      /\ new.count \in Nat /\ new.resetAt \in 0..(MaxFixedTime + FixedLength)
  BY DEF FixedWindowInv, FixedWindowTypeOK, AdmittedRows
<1>2. e \in AdmittedRows
  BY <1>1 DEF AdmittedRows
<1>3. fixedAdmitted' = fixedAdmitted \cup {e}
  BY DEF FixedAdmit
<1>4. new.count \in Nat \ {0} /\ new.count <= Max(PlanLimits) /\ fixedNow <= new.resetAt
      /\ new.resetAt <= fixedNow + FixedLength
  BY <1>1
<1>5. \A q \in fixedAdmitted : \/ q.end = new.resetAt /\ q.nth < new.count
                               \/ q.end + FixedLength < new.resetAt
  OBVIOUS
<1>6. /\ \A q \in fixedAdmitted : ServedInside(q)
      /\ \A p, q \in fixedAdmitted : Apart(p, q)
  BY DEF FixedWindowInv
<1>t. FixedWindowTypeOK'
  BY <1>1, <1>2, <1>3 DEF FixedWindowTypeOK, AdmittedRows
<1>a. visitor'.count # 0 /\ (visitor'.count # 0 => visitor'.resetAt <= fixedNow' + FixedLength)
  BY <1>4
<1> HIDE DEF new
<1>7. e.at = fixedNow /\ e.end = new.resetAt /\ e.nth = new.count
  OBVIOUS
<1> HIDE DEF e
<1>8. \A q \in fixedAdmitted \cup {e} :
         /\ q.at <= q.end /\ q.end <= q.at + FixedLength /\ q.at <= fixedNow
         /\ 1 <= q.nth /\ q.nth <= Max(PlanLimits)
  BY <1>1, <1>4, <1>6, <1>7, FixedConstants, HighestLimit DEF ServedInside
<1>9. \A q \in fixedAdmitted \cup {e} : \/ q.end = new.resetAt /\ q.nth <= new.count
                                        \/ q.end + FixedLength < new.resetAt
  BY <1>1, <1>2, <1>5, <1>7, FixedConstants DEF AdmittedRows
<1>10. \A p, q \in fixedAdmitted \cup {e} : Apart(p, q)
  <2>1. ASSUME NEW q \in fixedAdmitted PROVE Apart(e, q) /\ Apart(q, e)
    BY <1>1, <1>5, <1>7, FixedConstants DEF Apart, AdmittedRows
  <2>2. Apart(e, e)
    BY DEF Apart
  <2> QED
    BY <1>6, <2>1, <2>2
<1>11. \A q \in fixedAdmitted' : ServedInside(q)' /\ ServedBefore(q)'
  BY <1>3, <1>8, <1>9, <1>a DEF ServedInside, ServedBefore, new
<1> QED
  BY <1>t, <1>a, <1>3, <1>10, <1>11 DEF FixedWindowInv, Apart

LEMMA OpenKeepsWindows == ASSUME FixedWindowInv, OpenWindow PROVE FixedWindowInv'
<1>1. /\ fixedNow \in 0..MaxFixedTime /\ visitor.count \in Nat /\ visitor.resetAt \in Nat
      /\ fixedAdmitted \subseteq AdmittedRows /\ planLimit \in PlanLimits
  BY FixedConstants DEF FixedWindowInv, FixedWindowTypeOK, AdmittedRows
<1>2. \A q \in fixedAdmitted : q.end < fixedNow
  <2> SUFFICES ASSUME NEW q \in fixedAdmitted PROVE q.end < fixedNow
    OBVIOUS
  <2>1. ServedBefore(q) /\ q.end \in Nat
    BY <1>1, FixedConstants DEF FixedWindowInv, AdmittedRows
  <2> QED
    BY <1>1, <2>1, FixedConstants DEF OpenWindow, Stale, ServedBefore
<1>3. visitor' = [count |-> 1, resetAt |-> fixedNow + FixedLength]
  BY DEF OpenWindow
<1>4. visitor'.count = 1 /\ visitor'.resetAt = fixedNow + FixedLength
  BY <1>3
<1>5. \A q \in fixedAdmitted : q.end + FixedLength < visitor'.resetAt
  BY <1>1, <1>2, <1>4, FixedConstants DEF AdmittedRows
<1>6. fixedSeen' \in 0..MaxPerTick
  BY FixedConstants DEF FixedWindowInv, FixedWindowTypeOK, OpenWindow, FixedRequest
<1>7. fixedNow <= fixedNow + FixedLength /\ fixedNow + FixedLength \in 0..(MaxFixedTime + FixedLength)
  BY <1>1, FixedConstants
<1>8. FixedAdmit /\ fixedNow' = fixedNow /\ planLimit' = planLimit
  BY DEF OpenWindow
<1>9. /\ visitor' \in [count : Nat, resetAt : 0..(MaxFixedTime + FixedLength)]
      /\ 1 <= visitor'.count /\ visitor'.count <= Max(PlanLimits)
      /\ fixedNow <= visitor'.resetAt /\ visitor'.resetAt <= fixedNow + FixedLength
  BY <1>1, <1>3, <1>4, <1>7, HighestLimit
<1> QED
  BY <1>1, <1>5, <1>6, <1>8, <1>9, AdmitKeeps

LEMMA CountKeepsWindows == ASSUME FixedWindowInv, CountRequest PROVE FixedWindowInv'
<1>1. /\ fixedNow \in 0..MaxFixedTime /\ visitor \in [count : Nat, resetAt : 0..(MaxFixedTime + FixedLength)]
      /\ fixedAdmitted \subseteq AdmittedRows /\ planLimit \in PlanLimits
  BY FixedConstants DEF FixedWindowInv, FixedWindowTypeOK, AdmittedRows
<1>2. visitor.count # 0 /\ fixedNow <= visitor.resetAt /\ visitor.resetAt <= fixedNow + FixedLength
  BY <1>1, FixedConstants DEF CountRequest, Stale, FixedWindowInv
<1>3. visitor' = [visitor EXCEPT !.count = @ + 1]
  BY DEF CountRequest
<1>4. visitor'.count = visitor.count + 1 /\ visitor'.resetAt = visitor.resetAt
      /\ visitor' \in [count : Nat, resetAt : 0..(MaxFixedTime + FixedLength)]
  BY <1>1, <1>3
<1>5. \A q \in fixedAdmitted : \/ q.end = visitor.resetAt /\ q.nth < visitor.count + 1
                               \/ q.end + FixedLength < visitor.resetAt
  BY <1>1, <1>2, FixedConstants DEF FixedWindowInv, ServedBefore, AdmittedRows
<1>6. fixedSeen' \in 0..MaxPerTick
  BY FixedConstants DEF FixedWindowInv, FixedWindowTypeOK, CountRequest, FixedRequest
<1>7. fixedNow' = fixedNow /\ planLimit' = planLimit
  BY DEF CountRequest
<1>8. CASE FixedAdmit /\ ~(visitor'.count > planLimit)
  <2>1. visitor.count + 1 <= Max(PlanLimits) /\ 1 <= visitor.count + 1
    <3>1. planLimit \in Nat /\ planLimit <= Max(PlanLimits) /\ visitor.count \in Nat
      BY <1>1, HighestLimit, FixedWindowAssumption DEF FixedWindowAssumption
    <3> QED
      BY <1>4, <1>8, <3>1, HighestLimit
  <2> QED
    BY <1>1, <1>2, <1>4, <1>5, <1>6, <1>7, <1>8, <2>1, AdmitKeeps
<1>9. CASE fixedAdmitted' = fixedAdmitted
  <2>1. \A q \in fixedAdmitted : ServedInside(q)' /\ ServedBefore(q)'
    <3> SUFFICES ASSUME NEW q \in fixedAdmitted PROVE ServedInside(q)' /\ ServedBefore(q)'
      OBVIOUS
    <3>1. ServedInside(q)'
      BY <1>7 DEF ServedInside, FixedWindowInv
    <3>2. visitor.count + 1 # 0 /\ q.nth \in Nat /\ visitor.count \in Nat
      BY <1>1 DEF AdmittedRows
    <3>3. \/ q.end = visitor.resetAt /\ q.nth <= visitor.count + 1
          \/ q.end + FixedLength < visitor.resetAt
      BY <1>5, <3>2
    <3> QED
      BY <1>4, <3>1, <3>2, <3>3 DEF ServedBefore
  <2>2. FixedWindowTypeOK'
    BY <1>1, <1>4, <1>6, <1>7, <1>9 DEF FixedWindowTypeOK, AdmittedRows
  <2>3. visitor'.resetAt <= fixedNow' + FixedLength
    BY <1>2, <1>4, <1>7
  <2> QED
    BY <1>9, <2>1, <2>2, <2>3 DEF FixedWindowInv, Apart
<1> QED
  BY <1>8, <1>9 DEF CountRequest

LEMMA FixedKeeps == ASSUME FixedWindowInv, [FixedWindowNext]_fixedVars PROVE FixedWindowInv'
<1>0. /\ fixedNow \in 0..MaxFixedTime /\ visitor.count \in Nat /\ visitor.resetAt \in Nat
      /\ fixedAdmitted \subseteq AdmittedRows
  BY FixedConstants DEF FixedWindowInv, FixedWindowTypeOK, AdmittedRows
<1>1. CASE UNCHANGED fixedVars
  BY <1>1 DEF fixedVars, FixedWindowInv, FixedWindowTypeOK, ServedInside, ServedBefore, Apart
<1>2. CASE DropVisitor
  <2>1. \A q \in fixedAdmitted : q.end < fixedNow
    <3> SUFFICES ASSUME NEW q \in fixedAdmitted PROVE q.end < fixedNow
      OBVIOUS
    <3>1. ServedBefore(q) /\ q.end \in Nat
      BY <1>0, FixedConstants DEF FixedWindowInv, AdmittedRows
    <3> QED
      BY <1>0, <1>2, <3>1, FixedConstants DEF DropVisitor, Stale, ServedBefore
  <2>2. visitor' = NoVisitor /\ visitor'.count = 0
    BY <1>2 DEF DropVisitor, NoVisitor
  <2>3. FixedWindowTypeOK'
    BY <1>2, <2>2, FixedConstants DEF DropVisitor, FixedWindowInv, FixedWindowTypeOK, NoVisitor
  <2>4. \A q \in fixedAdmitted : ServedInside(q)' /\ ServedBefore(q)'
    BY <1>2, <2>1, <2>2 DEF DropVisitor, ServedInside, ServedBefore, FixedWindowInv
  <2> QED
    BY <1>2, <2>2, <2>3, <2>4 DEF DropVisitor, FixedWindowInv, Apart
<1>3. CASE ChangePlan
  BY <1>3 DEF ChangePlan, FixedWindowInv, FixedWindowTypeOK, ServedInside, ServedBefore, Apart
<1>4. CASE FixedTick
  <2>1. FixedWindowTypeOK'
    BY <1>4, FixedConstants DEF FixedTick, FixedWindowInv, FixedWindowTypeOK
  <2>2. fixedNow' = fixedNow + 1 /\ visitor' = visitor /\ fixedAdmitted' = fixedAdmitted
    BY <1>4 DEF FixedTick
  <2>3. visitor.count # 0 => visitor.resetAt <= fixedNow + 1 + FixedLength
    BY <1>0, FixedConstants DEF FixedWindowInv
  <2>4. \A q \in fixedAdmitted : q.at <= fixedNow + 1 /\ (visitor.count = 0 => q.end < fixedNow + 1)
    BY <1>0, FixedConstants DEF FixedWindowInv, ServedInside, ServedBefore, AdmittedRows
  <2>5. \A q \in fixedAdmitted : ServedInside(q)' /\ ServedBefore(q)'
    BY <2>2, <2>4 DEF FixedWindowInv, ServedInside, ServedBefore
  <2> QED
    BY <2>1, <2>2, <2>3, <2>5 DEF FixedWindowInv, Apart
<1> QED
  BY <1>1, <1>2, <1>3, <1>4, OpenKeepsWindows, CountKeepsWindows DEF FixedWindowNext

\* The requests of one window are as many as their places.
LEMMA WindowCard ==
    ASSUME NEW S, \A q \in S : q.nth \in 1..Max(PlanLimits),
           \A p, q \in S : p.nth = q.nth => p = q
    PROVE  IsFiniteSet(S) /\ Cardinality(S) \in Nat /\ Cardinality(S) <= Max(PlanLimits)
<1> DEFINE n == Max(PlanLimits)
           f == [q \in S |-> q.nth]
<1>1. n \in Nat
  BY HighestLimit
<1> HIDE DEF n
<1>2. f \in Injection(S, 1..n)
  BY DEF Injection, IsInjective, n
<1>3. IsFiniteSet(1..n) /\ Cardinality(1..n) = n
  BY <1>1, FS_Interval
<1>4. IsFiniteSet(S) /\ Cardinality(S) <= Cardinality(1..n)
  BY <1>2, <1>3, FS_Injection
<1> QED
  BY <1>3, <1>4, FS_CardinalityType DEF n

LEMMA UnionCard ==
    ASSUME NEW S, NEW T, IsFiniteSet(S), IsFiniteSet(T)
    PROVE  IsFiniteSet(S \cup T) /\ Cardinality(S \cup T) \in Nat
           /\ Cardinality(S \cup T) <= Cardinality(S) + Cardinality(T)
<1>1. Cardinality(S \cup T) = Cardinality(S) + Cardinality(T) - Cardinality(S \cap T) /\ IsFiniteSet(S \cup T)
  BY FS_Union
<1>2. Cardinality(S \cap T) \in Nat /\ Cardinality(S) \in Nat /\ Cardinality(T) \in Nat
  BY SubsetCard, FS_CardinalityType
<1> QED
  BY <1>1, <1>2, FS_CardinalityType

\* A stretch as long as a window meets two windows at most.
LEMMA WindowsBound == FixedWindowInv => FixedWindowBound
<1> SUFFICES ASSUME FixedWindowInv, NEW from \in 0..MaxFixedTime
             PROVE  Cardinality(FixedIn(from)) <= 2 * Max(PlanLimits)
  BY DEF FixedWindowBound
<1> DEFINE S == FixedIn(from)
           Of(e) == {q \in S : q.end = e}
<1>1. \A q \in S : q.at \in Nat /\ q.end \in Nat /\ q.nth \in 1..Max(PlanLimits)
                   /\ q.at <= q.end /\ q.end <= q.at + FixedLength
                   /\ from <= q.at /\ q.at <= from + FixedLength
  BY FixedConstants, HighestLimit DEF FixedWindowInv, FixedWindowTypeOK, ServedInside, FixedIn
<1>2. \A p, q \in S : Apart(p, q)
  BY DEF FixedWindowInv, FixedIn
<1>3. ASSUME NEW e PROVE IsFiniteSet(Of(e)) /\ Cardinality(Of(e)) \in Nat /\ Cardinality(Of(e)) <= Max(PlanLimits)
  <2>1. \A q \in Of(e) : q.nth \in 1..Max(PlanLimits)
    BY <1>1
  <2>2. \A p, q \in Of(e) : p.nth = q.nth => p = q
    BY <1>1, <1>2, FixedConstants DEF Apart
  <2> QED
    BY <2>1, <2>2, WindowCard
<1>4. \E d, e : S \subseteq Of(d) \cup Of(e)
  <2> SUFFICES ASSUME \A d, e : ~(S \subseteq Of(d) \cup Of(e)) PROVE FALSE
    OBVIOUS
  <2>1. PICK p \in S : TRUE
    OBVIOUS
  <2>2. PICK q \in S : q.end # p.end
    BY Zenon
  <2>3. PICK r \in S : r.end # p.end /\ r.end # q.end
    BY Zenon
  <2>4. Apart(p, q) /\ Apart(q, r) /\ Apart(p, r)
    BY <1>2
  <2> QED
    BY <1>1, <2>2, <2>3, <2>4, FixedConstants DEF Apart
<1>5. PICK d, e : S \subseteq Of(d) \cup Of(e)
  BY <1>4
<1>6. Cardinality(Of(d) \cup Of(e)) <= Cardinality(Of(d)) + Cardinality(Of(e)) /\ IsFiniteSet(Of(d) \cup Of(e))
      /\ Cardinality(Of(d) \cup Of(e)) \in Nat
  BY <1>3, UnionCard
<1>7. Cardinality(S) \in Nat /\ Cardinality(S) <= Cardinality(Of(d) \cup Of(e))
  BY <1>5, <1>6, SubsetCard
<1>8. Cardinality(Of(d)) \in Nat /\ Cardinality(Of(d)) <= Max(PlanLimits)
      /\ Cardinality(Of(e)) \in Nat /\ Cardinality(Of(e)) <= Max(PlanLimits)
  BY <1>3
<1> HIDE DEF S, Of
<1>9. Cardinality(S) <= 2 * Max(PlanLimits)
  BY <1>6, <1>7, <1>8, HighestLimit
<1> QED
  BY <1>9 DEF S

\* Whatever the requests' times, the changes of plan and the clean-ups, a client is served at
\* most twice the highest limit in a stretch as long as the window (ratelimit.go), for any
\* limits and any window.
THEOREM FixedWindowsAreBounded == FixedWindowSpec => []FixedWindowBound
BY InitFixed, FixedKeeps, WindowsBound, PTL DEF FixedWindowSpec

-----------------------------------------------------------------------------
(***************************************************************************)
(* The router's list of requests.                                           *)
(***************************************************************************)
\* An address's entries are of times at most a window apart, and numbered within the tick;
\* of an address that was not thrown out they hold what the history has of late.
ListShape(ip) ==
    /\ IsFiniteSet(slideReqs[ip])
    /\ \A q \in slideReqs[ip] : q.at <= slideNow
    /\ \A p, q \in slideReqs[ip] : p.at <= q.at + SlideLength
    /\ \A q \in slideReqs[ip] :
          q.at = slideNow => q.nth <= Cardinality({p \in slideReqs[ip] : p.at = slideNow})
    /\ ip \notin evicted => lately[ip] \subseteq Recent(slideReqs[ip], slideNow)

GlobalRouterInv == GlobalRouterTypeOK /\ \A ip \in IPs : ListShape(ip)

LEMMA RouterConstants ==
    /\ IsFiniteSet(IPs) /\ SlideLimit \in Nat /\ SlideLimit >= 1 /\ SlideLength \in Nat /\ SlideLength >= 1
    /\ MaxIPs \in Nat /\ MaxIPs >= 1 /\ ConnLimit \in Nat /\ ConnLimit >= 1 /\ MaxSlideTime \in Nat
BY GlobalRouterAssumption DEF GlobalRouterAssumption

LEMMA NoneKept == Cardinality({ip \in IPs : FALSE}) = 0 /\ Cardinality({}) = 0 /\ IsFiniteSet({})
<1>1. {ip \in IPs : FALSE} = {}
  OBVIOUS
<1> QED
  BY <1>1, FS_EmptySet

LEMMA InitRouter == GlobalRouterInit => GlobalRouterInv
<1> SUFFICES ASSUME GlobalRouterInit PROVE GlobalRouterInv
  OBVIOUS
<1>1. \A ip \in IPs : slideReqs[ip] = {} /\ lately[ip] = {}
  BY DEF GlobalRouterInit
<1>2. {ip \in IPs : slideReqs[ip] # {}} = {}
  BY <1>1
<1>3. GlobalRouterTypeOK
  BY <1>1, <1>2, NoneKept, RouterConstants DEF GlobalRouterInit, GlobalRouterTypeOK
<1>4. \A ip \in IPs : ListShape(ip)
  BY <1>1, NoneKept DEF ListShape
<1> QED
  BY <1>3, <1>4 DEF GlobalRouterInv

LEMMA AcquireType ==
    ASSUME conns \in [IPs -> 0..ConnLimit], NEW ip \in IPs, AcquireConn(ip)
    PROVE  conns' \in [IPs -> 0..ConnLimit]
BY RouterConstants DEF AcquireConn

\* What is cut off is out of the window.
LEMMA CutShape ==
    ASSUME GlobalRouterInv, NEW ip \in IPs
    PROVE  LET cut == Recent(slideReqs[ip], slideNow)
           IN  /\ cut \subseteq slideReqs[ip] /\ cut \subseteq Entries
               /\ IsFiniteSet(cut) /\ Cardinality(cut) \in Nat /\ Cardinality(cut) <= SlideLimit
               /\ {p \in cut : p.at = slideNow} = {p \in slideReqs[ip] : p.at = slideNow}
               /\ Recent(cut, slideNow) = cut
               /\ \A q \in cut : q.at <= slideNow /\ slideNow <= q.at + SlideLength /\ q.at \in Nat
<1> DEFINE cut == Recent(slideReqs[ip], slideNow)
<1>1. /\ slideReqs[ip] \subseteq Entries /\ Cardinality(slideReqs[ip]) <= SlideLimit
      /\ slideNow \in Nat /\ ListShape(ip)
  BY DEF GlobalRouterInv, GlobalRouterTypeOK
<1>2. cut \subseteq slideReqs[ip] /\ Recent(cut, slideNow) = cut
  BY DEF Recent
<1>3. IsFiniteSet(cut) /\ Cardinality(cut) \in Nat /\ Cardinality(cut) <= Cardinality(slideReqs[ip])
      /\ Cardinality(slideReqs[ip]) \in Nat
  BY <1>1, <1>2, SubsetCard DEF ListShape
<1>4. \A q \in cut : q.at <= slideNow /\ slideNow <= q.at + SlideLength /\ q.at \in Nat
  BY <1>1, RouterConstants DEF ListShape, Recent, Entries
<1>5. \A q \in slideReqs[ip] : q.at = slideNow => q.at + SlideLength >= slideNow
  BY <1>1, RouterConstants
<1>6. {p \in cut : p.at = slideNow} = {p \in slideReqs[ip] : p.at = slideNow}
  BY <1>5 DEF Recent
<1>7. Cardinality(cut) <= SlideLimit
  BY <1>1, <1>3, RouterConstants
<1> QED
  BY <1>1, <1>2, <1>3, <1>4, <1>6, <1>7

\* The entry of a request is a new one.
LEMMA EntryIsNew ==
    ASSUME GlobalRouterInv, NEW ip \in IPs, Cardinality(Recent(slideReqs[ip], slideNow)) < SlideLimit
    PROVE  /\ Entry(ip) \in Entries /\ Entry(ip) \notin slideReqs[ip] /\ Entry(ip).at = slideNow
           /\ Entry(ip).nth = Cardinality({q \in slideReqs[ip] : q.at = slideNow}) + 1
<1> DEFINE S == {q \in slideReqs[ip] : q.at = slideNow}
           cut == Recent(slideReqs[ip], slideNow)
<1>1. slideNow \in 0..MaxSlideTime /\ ListShape(ip)
  BY DEF GlobalRouterInv, GlobalRouterTypeOK
<1>2. S \subseteq cut /\ IsFiniteSet(cut) /\ Cardinality(cut) \in Nat
  BY CutShape
<1>3. Cardinality(S) \in Nat /\ Cardinality(S) <= Cardinality(cut)
  BY <1>2, SubsetCard
<1>4. Cardinality(S) + 1 \in 1..SlideLimit
  BY <1>2, <1>3, RouterConstants
<1>5. Entry(ip) = [at |-> slideNow, nth |-> Cardinality(S) + 1]
  BY DEF Entry
<1>6. \A q \in slideReqs[ip] : q.at = slideNow => q.nth <= Cardinality(S)
  BY <1>1 DEF ListShape
<1>7. ~(Cardinality(S) + 1 <= Cardinality(S))
  BY <1>3
<1> HIDE DEF S, cut
<1>8. Entry(ip).at = slideNow /\ Entry(ip).nth = Cardinality(S) + 1 /\ Entry(ip) \in Entries
  BY <1>1, <1>4, <1>5 DEF Entries
<1>9. Entry(ip) \notin slideReqs[ip]
  BY <1>6, <1>7, <1>8
<1> QED
  BY <1>8, <1>9 DEF S

\* The list with the new entry.
LEMMA PushedShape ==
    ASSUME GlobalRouterInv, NEW ip \in IPs, Cardinality(Recent(slideReqs[ip], slideNow)) < SlideLimit
    PROVE  LET list == Recent(slideReqs[ip], slideNow) \cup {Entry(ip)}
           IN  /\ list \subseteq Entries /\ IsFiniteSet(list) /\ Cardinality(list) <= SlideLimit
               /\ \A q \in list : q.at <= slideNow
               /\ \A p, q \in list : p.at <= q.at + SlideLength
               /\ \A q \in list : q.at = slideNow => q.nth <= Cardinality({p \in list : p.at = slideNow})
               /\ Recent(list, slideNow) = list
<1> DEFINE cut == Recent(slideReqs[ip], slideNow)
           e == Entry(ip)
           list == cut \cup {e}
           S == {q \in slideReqs[ip] : q.at = slideNow}
           T == {p \in list : p.at = slideNow}
<1>1. /\ cut \subseteq slideReqs[ip] /\ cut \subseteq Entries
      /\ IsFiniteSet(cut) /\ Cardinality(cut) \in Nat
      /\ {p \in cut : p.at = slideNow} = S /\ Recent(cut, slideNow) = cut
      /\ \A q \in cut : q.at <= slideNow /\ slideNow <= q.at + SlideLength /\ q.at \in Nat
  BY CutShape
<1>2. e \in Entries /\ e \notin slideReqs[ip] /\ e.at = slideNow /\ e.nth = Cardinality(S) + 1
  BY EntryIsNew
<1>3. slideNow \in Nat /\ ListShape(ip) /\ Cardinality(cut) < SlideLimit
  BY DEF GlobalRouterInv, GlobalRouterTypeOK
<1>4. \A q \in S : q.nth <= Cardinality(S) /\ q.nth \in Nat
  <2>1. slideReqs[ip] \subseteq Entries
    BY DEF GlobalRouterInv, GlobalRouterTypeOK
  <2> QED
    BY <1>3, <2>1 DEF ListShape, Entries
<1>5. IsFiniteSet(list) /\ Cardinality(list) \in Nat /\ Cardinality(list) <= Cardinality(cut) + 1
  BY <1>1, AddCard
<1>6. T = S \cup {e}
  BY <1>1, <1>2
<1>7. IsFiniteSet(S) /\ Cardinality(S) \in Nat
  BY <1>1, SubsetCard
<1>8. Cardinality(T) = Cardinality(S) + 1
  BY <1>2, <1>6, <1>7, AddCard
<1> HIDE DEF cut, e, S, T
<1>9. Cardinality(list) <= SlideLimit
  BY <1>1, <1>3, <1>5, RouterConstants
<1>10. \A q \in list : q.at <= slideNow /\ slideNow <= q.at + SlideLength /\ q.at \in Nat
  BY <1>1, <1>2, <1>3, RouterConstants
<1>11. \A p, q \in list : p.at <= q.at + SlideLength
  BY <1>3, <1>10, RouterConstants
<1>12. \A q \in T : q.nth <= Cardinality(T)
  BY <1>2, <1>4, <1>6, <1>7, <1>8
<1>13. Recent(list, slideNow) = list
  BY <1>3, <1>10, RouterConstants DEF Recent
<1> QED
  BY <1>1, <1>2, <1>5, <1>9, <1>10, <1>11, <1>12, <1>13 DEF cut, e, T

\* Past the cap there is an oldest address, and it goes.
LEMMA CapHolds ==
    ASSUME NEW map \in [IPs -> SUBSET Entries],
           Cardinality({ip \in IPs : map[ip] # {}}) <= MaxIPs + 1
    PROVE  /\ OldestIPs(map) = {} => Cardinality({ip \in IPs : map[ip] # {}}) <= MaxIPs
           /\ \A out \in OldestIPs(map) :
                 Cardinality({ip \in IPs : Forget(map, {out})[ip] # {}}) <= MaxIPs
<1> DEFINE kept == {ip \in IPs : map[ip] # {}}
<1>1. IsFiniteSet(kept) /\ Cardinality(kept) \in Nat /\ Cardinality(kept) <= MaxIPs + 1
  BY SubsetCard, RouterConstants
<1>2. ASSUME Cardinality(kept) > MaxIPs PROVE OldestIPs(map) # {}
  <2> DEFINE times == {t \in Nat : \E k \in kept : \E q \in map[k] : q.at = t}
  <2>1. kept # {}
    BY <1>2, NoneKept, RouterConstants
  <2>2. \A k \in kept : \A q \in map[k] : q.at \in Nat
    BY RouterConstants DEF Entries
  <2>3. times # {}
    BY <2>1, <2>2
  <2>4. PICK m \in times : \A y \in times : m <= y
    BY <2>3, LeastExists
  <2>5. PICK k \in kept : \E q \in map[k] : q.at = m
    BY <2>4
  <2>6. \E p \in map[k] : \A j \in kept : \A q \in map[j] : p.at <= q.at
    BY <2>2, <2>4, <2>5
  <2> QED
    BY <1>2, <2>5, <2>6 DEF OldestIPs
<1>3. ASSUME NEW out \in OldestIPs(map)
      PROVE  Cardinality({ip \in IPs : Forget(map, {out})[ip] # {}}) <= MaxIPs
  <2>1. out \in kept
    BY DEF OldestIPs
  <2>2. {ip \in IPs : Forget(map, {out})[ip] # {}} = kept \ {out}
    BY DEF Forget
  <2>3. Cardinality(kept \ {out}) \in Nat /\ Cardinality(kept \ {out}) = Cardinality(kept) - 1
    BY <1>1, <2>1, DropCard
  <2> HIDE DEF kept
  <2>4. Cardinality(kept \ {out}) <= MaxIPs
    BY <1>1, <2>3, RouterConstants
  <2> QED
    BY <2>2, <2>4
<1>4. OldestIPs(map) = {} => Cardinality(kept) <= MaxIPs
  BY <1>1, <1>2, RouterConstants
<1> QED
  BY <1>3, <1>4

\* An address that keeps its entries and its history keeps its shape.
LEMMA SameShape ==
    ASSUME NEW ip, ListShape(ip), slideNow' = slideNow, slideReqs'[ip] = slideReqs[ip],
           ip \notin evicted' => ip \notin evicted /\ lately'[ip] = lately[ip]
    PROVE  ListShape(ip)'
BY DEF ListShape, Recent

\* An address without entries.
LEMMA EmptyShape ==
    ASSUME NEW ip, slideReqs'[ip] = {}, ip \notin evicted' => lately'[ip] = {}
    PROVE  ListShape(ip)'
BY NoneKept DEF ListShape

LEMMA AdmitKeepsLists == ASSUME GlobalRouterInv, NEW ip \in IPs, Admit(ip) PROVE GlobalRouterInv'
<1> DEFINE list == Recent(slideReqs[ip], slideNow) \cup {Entry(ip)}
           map == [slideReqs EXCEPT ![ip] = list]
           kept == {k \in IPs : slideReqs[k] # {}}
           keptMap == {k \in IPs : map[k] # {}}
           log == [lately EXCEPT ![ip] = @ \cup {Entry(ip)}]
<1>1. /\ slideNow \in 0..MaxSlideTime /\ slideReqs \in [IPs -> SUBSET Entries]
      /\ lately \in [IPs -> SUBSET Entries] /\ evicted \subseteq IPs /\ Cardinality(kept) <= MaxIPs
      /\ \A k \in IPs : Cardinality(slideReqs[k]) <= SlideLimit
      /\ conns \in [IPs -> 0..ConnLimit]
  BY DEF GlobalRouterInv, GlobalRouterTypeOK
<1>2. Cardinality(Recent(slideReqs[ip], slideNow)) < SlideLimit
  BY DEF Admit
<1>3. /\ list \subseteq Entries /\ IsFiniteSet(list) /\ Cardinality(list) <= SlideLimit
      /\ \A q \in list : q.at <= slideNow
      /\ \A p, q \in list : p.at <= q.at + SlideLength
      /\ \A q \in list : q.at = slideNow => q.nth <= Cardinality({p \in list : p.at = slideNow})
      /\ Recent(list, slideNow) = list
  BY <1>2, PushedShape
<1>4. Entry(ip) \in Entries
  BY <1>2, EntryIsNew
<1>5. slideNow' = slideNow /\ conns' \in [IPs -> 0..ConnLimit]
  BY <1>1, AcquireType DEF Admit
<1>6. /\ \/ OldestIPs(map) = {} /\ slideReqs' = map /\ evicted' = evicted
         \/ \E out \in OldestIPs(map) :
               slideReqs' = Forget(map, {out}) /\ evicted' = evicted \cup {out}
      /\ lately' = Forget(log, evicted')
  BY DEF Admit
<1>7. ip \notin evicted => lately[ip] \subseteq Recent(slideReqs[ip], slideNow)
  BY DEF GlobalRouterInv, ListShape
<1>8. map \in [IPs -> SUBSET Entries] /\ log \in [IPs -> SUBSET Entries]
  BY <1>1, <1>3, <1>4
<1>9. Cardinality(keptMap) <= MaxIPs + 1
  <2>1. IsFiniteSet(kept) /\ Cardinality(kept) \in Nat
    BY SubsetCard, RouterConstants
  <2>2. IsFiniteSet(kept \cup {ip}) /\ Cardinality(kept \cup {ip}) \in Nat
        /\ Cardinality(kept \cup {ip}) <= Cardinality(kept) + 1
    BY <2>1, AddCard
  <2>3. keptMap \subseteq kept \cup {ip}
    BY <1>1
  <2>4. Cardinality(keptMap) \in Nat /\ Cardinality(keptMap) <= Cardinality(kept \cup {ip})
    BY <2>2, <2>3, SubsetCard
  <2> HIDE DEF kept, keptMap
  <2> QED
    BY <1>1, <2>1, <2>2, <2>4, RouterConstants
<1>10. /\ OldestIPs(map) = {} => Cardinality(keptMap) <= MaxIPs
       /\ \A out \in OldestIPs(map) : Cardinality({k \in IPs : Forget(map, {out})[k] # {}}) <= MaxIPs
  BY <1>8, <1>9, CapHolds
<1>11. map[ip] = list /\ log[ip] = lately[ip] \cup {Entry(ip)}
       /\ \A k \in IPs \ {ip} : map[k] = slideReqs[k] /\ log[k] = lately[k]
  BY <1>1
<1>12. ip \notin evicted => log[ip] \subseteq list
  BY <1>7, <1>11
<1> HIDE DEF list, map, log, keptMap
<1> DEFINE Fits == /\ evicted \subseteq evicted' /\ evicted' \subseteq IPs
                   /\ slideReqs' \in [IPs -> SUBSET Entries]
                   /\ Cardinality({k \in IPs : slideReqs'[k] # {}}) <= MaxIPs
                   /\ \A k \in IPs : slideReqs'[k] = map[k] \/ (slideReqs'[k] = {} /\ k \in evicted')
<1>13. Fits
  <2>1. CASE OldestIPs(map) = {} /\ slideReqs' = map /\ evicted' = evicted
    BY <1>1, <1>8, <1>10, <2>1 DEF keptMap
  <2>2. ASSUME NEW out \in OldestIPs(map), slideReqs' = Forget(map, {out}), evicted' = evicted \cup {out}
        PROVE  Fits
    BY <1>1, <1>8, <1>10, <2>2 DEF Forget, OldestIPs
  <2> QED
    BY <1>6, <2>1, <2>2
<1>14. lately' \in [IPs -> SUBSET Entries] /\ \A k \in IPs \ evicted' : lately'[k] = log[k]
  BY <1>6, <1>8 DEF Forget
<1>15. ASSUME NEW k \in IPs PROVE ListShape(k)' /\ Cardinality(slideReqs'[k]) <= SlideLimit
  <2>0. ListShape(k)
    BY DEF GlobalRouterInv
  <2>1. CASE slideReqs'[k] = {} /\ k \in evicted'
    BY <2>1, EmptyShape, NoneKept, RouterConstants
  <2>2. CASE k # ip /\ slideReqs'[k] = map[k]
    <3>1. slideReqs'[k] = slideReqs[k]
      BY <2>2, <1>11
    <3>2. k \notin evicted' => k \notin evicted /\ lately'[k] = lately[k]
      BY <2>2, <1>11, <1>13, <1>14
    <3> QED
      BY <1>1, <1>5, <2>0, <3>1, <3>2, SameShape
  <2>3. CASE k = ip /\ slideReqs'[k] = map[k]
    <3>1. slideReqs'[ip] = list
      BY <2>3, <1>11
    <3>2. ip \notin evicted' => lately'[ip] \subseteq list
      BY <1>12, <1>13, <1>14
    <3>3. ListShape(ip)'
      BY <1>3, <1>5, <3>1, <3>2 DEF ListShape, Recent
    <3> QED
      BY <1>3, <2>3, <3>1, <3>3
  <2> QED
    BY <1>13, <2>1, <2>2, <2>3
<1>16. GlobalRouterTypeOK'
  BY <1>1, <1>5, <1>13, <1>14, <1>15 DEF GlobalRouterTypeOK
<1> QED
  BY <1>15, <1>16 DEF GlobalRouterInv

LEMMA TooManyKeepsLists == ASSUME GlobalRouterInv, NEW ip \in IPs, TooMany(ip) PROVE GlobalRouterInv'
<1> DEFINE cut == Recent(slideReqs[ip], slideNow)
           kept == {k \in IPs : slideReqs[k] # {}}
<1>1. /\ slideNow \in 0..MaxSlideTime /\ slideReqs \in [IPs -> SUBSET Entries]
      /\ Cardinality(kept) <= MaxIPs
      /\ \A k \in IPs : Cardinality(slideReqs[k]) <= SlideLimit /\ ListShape(k)
  BY DEF GlobalRouterInv, GlobalRouterTypeOK
<1>2. /\ cut \subseteq slideReqs[ip] /\ cut \subseteq Entries
      /\ IsFiniteSet(cut) /\ Cardinality(cut) \in Nat /\ Cardinality(cut) <= SlideLimit
      /\ {p \in cut : p.at = slideNow} = {p \in slideReqs[ip] : p.at = slideNow}
      /\ Recent(cut, slideNow) = cut
  BY CutShape
<1>3. slideReqs' = [slideReqs EXCEPT ![ip] = cut] /\ UNCHANGED <<slideNow, conns, lately, evicted>>
  BY DEF TooMany
<1>4. slideReqs' \in [IPs -> SUBSET Entries] /\ slideReqs'[ip] = cut
      /\ \A k \in IPs \ {ip} : slideReqs'[k] = slideReqs[k]
  BY <1>1, <1>2, <1>3
<1>5. Cardinality({k \in IPs : slideReqs'[k] # {}}) <= MaxIPs
  <2> DEFINE rest == {k \in IPs : slideReqs'[k] # {}}
  <2>1. rest \subseteq kept
    BY <1>2, <1>4
  <2>2. IsFiniteSet(kept)
    BY SubsetCard, RouterConstants
  <2>3. Cardinality(rest) \in Nat /\ Cardinality(rest) <= Cardinality(kept) /\ Cardinality(kept) \in Nat
    BY <2>1, <2>2, SubsetCard
  <2> HIDE DEF rest, kept
  <2>4. Cardinality(rest) <= MaxIPs
    BY <1>1, <2>3, RouterConstants
  <2> QED
    BY <2>4 DEF rest
<1>6. ListShape(ip)'
  <2>1. ListShape(ip)
    BY <1>1
  <2> HIDE DEF cut
  <2>2. \A q \in cut : q.at = slideNow => q.nth <= Cardinality({p \in cut : p.at = slideNow})
    BY <1>2, <2>1 DEF ListShape
  <2>3. ip \notin evicted => lately[ip] \subseteq Recent(cut, slideNow)
    BY <1>2, <2>1 DEF ListShape, cut
  <2>4. \A q \in cut : q.at <= slideNow
    BY <1>2, <2>1 DEF ListShape
  <2>5. \A p, q \in cut : p.at <= q.at + SlideLength
    BY <1>2, <2>1 DEF ListShape
  <2> QED
    BY <1>2, <1>3, <1>4, <2>2, <2>3, <2>4, <2>5 DEF ListShape, Recent
<1>7. \A k \in IPs \ {ip} : ListShape(k)'
  BY <1>1, <1>3, <1>4, SameShape
<1>8. GlobalRouterTypeOK'
  BY <1>1, <1>2, <1>3, <1>4, <1>5 DEF GlobalRouterTypeOK, GlobalRouterInv
<1> QED
  BY <1>6, <1>7, <1>8 DEF GlobalRouterInv

\* An address whose oldest entry is two windows old has none in the window.
LEMMA CleanupKeepsLists == ASSUME GlobalRouterInv, CleanupLoop PROVE GlobalRouterInv'
<1> DEFINE old == {ip \in IPs : \E q \in slideReqs[ip] : q.at + 2 * SlideLength < slideNow}
           kept == {k \in IPs : slideReqs[k] # {}}
<1>1. /\ slideNow \in Nat /\ slideReqs \in [IPs -> SUBSET Entries]
      /\ Cardinality(kept) <= MaxIPs
      /\ \A k \in IPs : Cardinality(slideReqs[k]) <= SlideLimit /\ ListShape(k)
  BY RouterConstants DEF GlobalRouterInv, GlobalRouterTypeOK
<1>2. slideReqs' = Forget(slideReqs, old) /\ UNCHANGED <<slideNow, conns, lately, evicted>>
  BY DEF CleanupLoop
<1>3. slideReqs' \in [IPs -> SUBSET Entries]
      /\ \A k \in IPs : (k \in old => slideReqs'[k] = {}) /\ (k \notin old => slideReqs'[k] = slideReqs[k])
  BY <1>1, <1>2 DEF Forget
<1>4. Cardinality({k \in IPs : slideReqs'[k] # {}}) <= MaxIPs
  <2> DEFINE rest == {k \in IPs : slideReqs'[k] # {}}
  <2>1. rest \subseteq kept
    BY <1>3
  <2>2. IsFiniteSet(kept)
    BY SubsetCard, RouterConstants
  <2>3. Cardinality(rest) \in Nat /\ Cardinality(rest) <= Cardinality(kept) /\ Cardinality(kept) \in Nat
    BY <2>1, <2>2, SubsetCard
  <2> HIDE DEF rest, kept
  <2>4. Cardinality(rest) <= MaxIPs
    BY <1>1, <2>3, RouterConstants
  <2> QED
    BY <2>4 DEF rest
<1>5. ASSUME NEW k \in old PROVE k \notin evicted => lately[k] = {}
  <2>1. PICK q \in slideReqs[k] : q.at + 2 * SlideLength < slideNow
    OBVIOUS
  <2>2. ASSUME NEW p \in slideReqs[k] PROVE ~(p.at + SlideLength >= slideNow)
    <3>1. p.at \in Nat /\ q.at \in Nat /\ p.at <= q.at + SlideLength
      BY <1>1, RouterConstants DEF ListShape, Entries
    <3> QED
      BY <1>1, <2>1, <3>1, RouterConstants
  <2>3. Recent(slideReqs[k], slideNow) = {}
    BY <2>2 DEF Recent
  <2> QED
    BY <1>1, <2>3 DEF ListShape
<1>6. ASSUME NEW k \in IPs PROVE ListShape(k)' /\ Cardinality(slideReqs'[k]) <= SlideLimit
  <2>1. CASE k \in old
    <3>1. slideReqs'[k] = {}
      BY <1>3, <2>1
    <3>2. k \notin evicted' => lately'[k] = {}
      BY <1>2, <1>5, <2>1
    <3>3. ListShape(k)'
      BY <3>1, <3>2, EmptyShape
    <3> QED
      BY <3>1, <3>3, NoneKept, RouterConstants
  <2>2. CASE k \notin old
    BY <1>1, <1>2, <1>3, <2>2, SameShape
  <2> QED
    BY <2>1, <2>2
<1>7. GlobalRouterTypeOK'
  BY <1>2, <1>3, <1>4, <1>6 DEF GlobalRouterTypeOK, GlobalRouterInv
<1> QED
  BY <1>6, <1>7 DEF GlobalRouterInv

LEMMA SlideTickKeepsLists == ASSUME GlobalRouterInv, SlideTick PROVE GlobalRouterInv'
<1>1. /\ slideNow \in 0..MaxSlideTime /\ slideReqs \in [IPs -> SUBSET Entries]
      /\ lately \in [IPs -> SUBSET Entries]
      /\ \A k \in IPs : ListShape(k)
  BY DEF GlobalRouterInv, GlobalRouterTypeOK
<1>2. /\ slideNow' = slideNow + 1 /\ slideNow < MaxSlideTime
      /\ lately' = [ip \in IPs |-> Recent(lately[ip], slideNow + 1)]
      /\ UNCHANGED <<slideReqs, conns, evicted>>
  BY DEF SlideTick
<1>3. slideNow' \in 0..MaxSlideTime /\ lately' \in [IPs -> SUBSET Entries]
  BY <1>1, <1>2, RouterConstants DEF Recent
<1>4. ASSUME NEW k \in IPs PROVE ListShape(k)'
  <2>0. ListShape(k) /\ slideReqs[k] \subseteq Entries
    BY <1>1
  <2>1. \A q \in slideReqs[k] : q.at \in Nat /\ q.at <= slideNow
    BY <2>0 DEF ListShape, Entries
  <2>2. \A q \in slideReqs[k] : q.at <= slideNow + 1 /\ q.at # slideNow + 1
    BY <1>1, <2>1
  <2>3. k \notin evicted => lately'[k] \subseteq Recent(slideReqs[k], slideNow + 1)
    BY <1>2, <2>0 DEF ListShape, Recent
  <2> QED
    BY <1>2, <2>0, <2>2, <2>3 DEF ListShape, Recent
<1>5. GlobalRouterTypeOK'
  BY <1>2, <1>3 DEF GlobalRouterTypeOK, GlobalRouterInv
<1> QED
  BY <1>4, <1>5 DEF GlobalRouterInv

LEMMA RouterKeeps == ASSUME GlobalRouterInv, [GlobalRouterNext]_routerVars PROVE GlobalRouterInv'
<1>1. ASSUME UNCHANGED <<slideNow, slideReqs, lately, evicted>>, conns' \in [IPs -> 0..ConnLimit]
      PROVE  GlobalRouterInv'
  BY <1>1 DEF GlobalRouterInv, GlobalRouterTypeOK, ListShape, Recent
<1>2. conns \in [IPs -> 0..ConnLimit]
  BY DEF GlobalRouterInv, GlobalRouterTypeOK
<1>3. CASE UNCHANGED routerVars
  BY <1>1, <1>2, <1>3 DEF routerVars
<1>4. ASSUME NEW ip \in IPs, StaticAsset(ip) PROVE GlobalRouterInv'
  BY <1>1, <1>2, <1>4, AcquireType DEF StaticAsset
<1>5. ASSUME NEW ip \in IPs, ReleaseConn(ip) PROVE GlobalRouterInv'
  <2>1. conns' \in [IPs -> 0..ConnLimit]
    BY <1>2, <1>5, RouterConstants DEF ReleaseConn
  <2> QED
    BY <1>1, <1>5, <2>1 DEF ReleaseConn
<1> QED
  BY <1>3, <1>4, <1>5, AdmitKeepsLists, TooManyKeepsLists, CleanupKeepsLists, SlideTickKeepsLists
  DEF GlobalRouterNext

LEMMA ListsBound == GlobalRouterInv => SlidingWindowBound
<1> SUFFICES ASSUME GlobalRouterInv, NEW ip \in IPs \ evicted PROVE Cardinality(lately[ip]) <= SlideLimit
  BY DEF SlidingWindowBound
<1> DEFINE cut == Recent(slideReqs[ip], slideNow)
<1>1. IsFiniteSet(cut) /\ Cardinality(cut) \in Nat /\ Cardinality(cut) <= SlideLimit
  BY CutShape
<1>2. lately[ip] \subseteq cut
  BY DEF GlobalRouterInv, ListShape
<1>3. Cardinality(lately[ip]) \in Nat /\ Cardinality(lately[ip]) <= Cardinality(cut)
  BY <1>1, <1>2, SubsetCard
<1> HIDE DEF cut
<1> QED
  BY <1>1, <1>3, RouterConstants

\* An address that the cap has not thrown out is let through at most the limit in any stretch
\* as long as the window, whatever is cut, cleaned up or refused (global-router/security.go:
\* Allow, CleanupLoop), for any limits and any number of addresses.
THEOREM SlidingWindowsAreBounded == GlobalRouterSpec => []SlidingWindowBound
BY InitRouter, RouterKeeps, ListsBound, PTL DEF GlobalRouterSpec

-----------------------------------------------------------------------------
(***************************************************************************)
(* The settings.                                                             *)
(***************************************************************************)
\* What a request makes of a row is a row.
LEMMA MergeType ==
    ASSUME NEW settingRow \in SettingRows, NEW a \in 0..2, NEW b \in 0..1
    PROVE  Merge(settingRow, a, b) \in SettingRows
<1> DEFINE newA == IF a = 0 THEN settingRow.a ELSE a
           newB == IF settingKind = "onboarding" /\ b = 0 THEN settingRow.b ELSE b
           done == settingKind = "onboarding" /\ (settingRow.completed \/ newA * newB # 0)
<1>1. newA \in 0..2 /\ newB \in 0..1
  BY DEF SettingRows
<1>2. done \in BOOLEAN
  OBVIOUS
<1> HIDE DEF newA, newB, done
<1>3. [a |-> newA, b |-> newB, completed |-> done] \in SettingRows
  BY <1>1, <1>2 DEF SettingRows
<1> QED
  BY <1>3 DEF Merge, SettingRow, newA, newB, done

LEMMA RowConstants == /\ NoSettings \in SettingRows /\ Zero \in SettingRows /\ Defaults \in SettingRows
                      /\ NoSettingsRequest.pc = "idle" /\ NoSettingsRequest.op = "update"
                      /\ NoSettingsRequest \in Asked
<1>1. NoSettings \in SettingRows /\ Zero \in SettingRows /\ Defaults \in SettingRows
  BY DEF NoSettings, Zero, Defaults, SettingRow, SettingRows
<1> QED
  BY <1>1, OrgSettingsAssumption DEF NoSettingsRequest, Asked, OrgSettingsAssumption

LEMMA InitSettings == OrgSettingsInit => SettingsInv
<1> SUFFICES ASSUME OrgSettingsInit PROVE SettingsInv
  OBVIOUS
<1>1. OrgSettingsTypeOK
  <2>1. 0 \in 0..MaxSettingsWrites /\ 0 \in 0..MaxSettingsFaults
    BY OrgSettingsAssumption DEF OrgSettingsAssumption
  <2> QED
    BY <2>1, RowConstants DEF OrgSettingsInit, OrgSettingsTypeOK
<1>2. \A q \in SettingsRequests : ReadInHand(q)
  BY RowConstants DEF OrgSettingsInit, ReadInHand, HoldsRow
<1> QED
  BY <1>1, <1>2 DEF SettingsInv, SettingsEditsKept, OrgSettingsInit

\* A request that goes on without a write keeps the invariant.
LEMMA NoWrite ==
    ASSUME SettingsInv, NEW q \in SettingsRequests, NEW r \in Asked,
           settingsReq' = [settingsReq EXCEPT ![q] = r],
           UNCHANGED <<settingKind, settings, settingsRev, serial, overtaken, unread>>,
           settingsFaults' \in 0..MaxSettingsFaults,
           HoldsRow(r)
    PROVE  SettingsInv'
<1>1. OrgSettingsTypeOK'
  BY DEF SettingsInv, OrgSettingsTypeOK
<1>2. ReadOf(settings)' = ReadOf(settings)
  BY DEF ReadOf, Defaults
<1>3. \A p \in SettingsRequests : ReadInHand(p)'
  BY <1>2 DEF SettingsInv, OrgSettingsTypeOK, ReadInHand, HoldsRow
<1> QED
  BY <1>1, <1>3 DEF SettingsInv, SettingsEditsKept

\* A request that writes and ends keeps it, if what it writes is what the writes make
\* in order, or the histories say why not.
LEMMA Write ==
    ASSUME SettingsInv, NEW q \in SettingsRequests, EndSettings(q),
           NEW settingRow \in SettingRows, NEW inOrder \in SettingRows, Written(settingRow, inOrder),
           UNCHANGED <<settingKind, settingsFaults>>,
           overtaken' \in BOOLEAN, unread' \in BOOLEAN,
           settingRow = inOrder \/ overtaken' \/ unread'
    PROVE  SettingsInv'
<1>1. OrgSettingsTypeOK'
  BY RowConstants, OrgSettingsAssumption
  DEF SettingsInv, OrgSettingsTypeOK, EndSettings, Written, OrgSettingsAssumption
<1>2. \A p \in SettingsRequests : ReadInHand(p)'
  <2> TAKE p \in SettingsRequests
  <2>1. CASE p = q
    BY <2>1, RowConstants DEF SettingsInv, OrgSettingsTypeOK, EndSettings, ReadInHand, HoldsRow
  <2>2. CASE p # q
    <3>1. settingsReq'[p] = settingsReq[p] /\ settingsRev' = settingsRev + 1 /\ settingsRev \in Nat
      BY <2>2 DEF SettingsInv, OrgSettingsTypeOK, EndSettings, Written
    <3>2. settingsReq[p].rev \in Nat
      BY DEF SettingsInv, OrgSettingsTypeOK, Asked
    <3> QED
      BY <3>1, <3>2 DEF SettingsInv, ReadInHand, HoldsRow
  <2> QED
    BY <2>1, <2>2
<1> QED
  BY <1>1, <1>2 DEF SettingsInv, SettingsEditsKept, Written

LEMMA SettingsStep ==
    ASSUME SettingsInv, NEW q \in SettingsRequests,
           \/ AskSettings(q) \/ ReadSettings(q) \/ ReadSettingsFails(q) \/ WriteSettingsFails(q)
           \/ UpsertSettings(q) \/ UpdateCustomRole(q) \/ DeleteCustomRole(q) \/ CreateCustomRole(q)
    PROVE  SettingsInv'
<1> DEFINE r == settingsReq[q]
<1>0. r \in Asked /\ settings \in SettingRows /\ serial \in SettingRows /\ settingsFaults \in 0..MaxSettingsFaults
      /\ settingsReq \in [SettingsRequests -> Asked]
      /\ overtaken \in BOOLEAN /\ unread \in BOOLEAN /\ settingsRev \in 0..MaxSettingsWrites
  BY DEF SettingsInv, OrgSettingsTypeOK
<1>t. ReadOf(settings) \in SettingRows /\ ReadOf(serial) \in SettingRows
  BY <1>0, RowConstants DEF ReadOf
<1>h. HoldsRow(r)
  BY DEF SettingsInv, ReadInHand
<1>e. NoSettingsRequest \in Asked /\ NoSettingsRequest.pc = "idle" /\ HoldsRow(NoSettingsRequest)
  BY RowConstants DEF HoldsRow
<1>1. CASE AskSettings(q)
  <2>1. PICK op \in {"create", "update", "delete"}, a \in 0..2, b \in 0..1 :
           /\ op # "update" => settingKind = "role"
           /\ settingsReq' = [settingsReq EXCEPT ![q] =
                [NoSettingsRequest EXCEPT !.pc = IF op = "create" THEN "write" ELSE "read",
                                          !.op = op, !.a = a, !.b = b]]
    BY <1>1 DEF AskSettings
  <2> DEFINE n == [NoSettingsRequest EXCEPT !.pc = IF op = "create" THEN "write" ELSE "read",
                                            !.op = op, !.a = a, !.b = b]
  <2>2. n \in Asked /\ HoldsRow(n)
    BY <1>e, <2>1 DEF Asked, HoldsRow
  <2> QED
    BY <1>0, <1>1, <2>1, <2>2, NoWrite DEF AskSettings, InSettings, settingsHistory
<1>2. CASE ReadSettings(q)
  <2>1. CASE EndSettings(q)
    BY <1>0, <1>2, <1>e, <2>1, NoWrite DEF ReadSettings, InSettings, EndSettings, settingsHistory
  <2>2. CASE ~EndSettings(q)
    <3> DEFINE n == [r EXCEPT !.pc = "write", !.rev = settingsRev, !.base = ReadOf(settings)]
    <3>1. settingsReq' = [settingsReq EXCEPT ![q] = n]
      BY <1>0, <1>2, <2>2 DEF ReadSettings
    <3>2. n \in Asked
      BY <1>0, <1>t DEF Asked
    <3>3. n.rev = settingsRev /\ n.base = ReadOf(settings) /\ n.op = r.op
      BY <1>0 DEF Asked
    <3>4. HoldsRow(n)
      BY <1>0, <1>h, <3>3 DEF HoldsRow
    <3> QED
      BY <1>0, <1>2, <3>1, <3>2, <3>4, NoWrite DEF ReadSettings, InSettings, settingsHistory
  <2> QED
    BY <2>1, <2>2
<1>3. CASE ReadSettingsFails(q)
  <2>0. settingsFaults' \in 0..MaxSettingsFaults
    BY <1>0, <1>3, OrgSettingsAssumption DEF ReadSettingsFails, SettingsFault, OrgSettingsAssumption
  <2>1. CASE EndSettings(q)
    BY <1>0, <1>3, <1>e, <2>0, <2>1, NoWrite DEF ReadSettingsFails, InSettings, EndSettings, settingsHistory
  <2>2. CASE ~EndSettings(q)
    <3> DEFINE n == [r EXCEPT !.pc = "write", !.base = Zero, !.failed = TRUE, !.rev = settingsRev]
    <3>1. settingsReq' = [settingsReq EXCEPT ![q] = n]
      BY <1>0, <1>3, <2>2 DEF ReadSettingsFails
    <3>2. n \in Asked
      BY <1>0, RowConstants DEF Asked
    <3>3. n.rev = settingsRev /\ n.failed /\ n.op = r.op
      BY <1>0 DEF Asked
    <3>4. HoldsRow(n)
      BY <1>0, <1>h, <3>3 DEF HoldsRow
    <3> QED
      BY <1>0, <1>3, <2>0, <3>1, <3>2, <3>4, NoWrite DEF ReadSettingsFails, InSettings, settingsHistory
  <2> QED
    BY <2>1, <2>2
<1>4. CASE WriteSettingsFails(q)
  <2>0. settingsFaults' \in 0..MaxSettingsFaults
    BY <1>0, <1>4, OrgSettingsAssumption DEF WriteSettingsFails, SettingsFault, OrgSettingsAssumption
  <2> QED
    BY <1>0, <1>4, <1>e, <2>0, NoWrite DEF WriteSettingsFails, InSettings, EndSettings, settingsHistory
<1>5. ASSUME UpsertSettings(q) \/ UpdateCustomRole(q), WriteHistory(q), r.op = "update",
             NEW old \in SettingRows, settings = serial => old = ReadOf(settings),
             Written(Merge(r.base, r.a, r.b), Merge(old, r.a, r.b))
      PROVE  SettingsInv'
  <2>1. Merge(r.base, r.a, r.b) \in SettingRows /\ Merge(old, r.a, r.b) \in SettingRows
    BY <1>0, <1>5, MergeType DEF Asked
  <2>2. overtaken' \in BOOLEAN /\ unread' \in BOOLEAN
    BY <1>5 DEF WriteHistory
  <2>3. r.base = old \/ overtaken' \/ unread'
    <3> SUFFICES ASSUME ~overtaken', ~unread' PROVE r.base = old
      OBVIOUS
    <3>1. ~overtaken /\ ~unread /\ r.rev = settingsRev /\ ~r.failed
      BY <1>5 DEF WriteHistory
    <3>2. settings = serial
      BY <3>1 DEF SettingsInv, SettingsEditsKept
    <3>3. r.pc = "write"
      BY <1>5 DEF UpsertSettings, UpdateCustomRole, InSettings
    <3>4. r.base = ReadOf(settings)
      BY <1>5, <1>h, <3>1, <3>3 DEF HoldsRow
    <3> QED
      BY <1>5, <3>2, <3>4
  <2>4. EndSettings(q) /\ UNCHANGED <<settingKind, settingsFaults>>
    BY <1>5 DEF UpsertSettings, UpdateCustomRole, InSettings
  <2> QED
    BY <1>5, <2>1, <2>2, <2>3, <2>4, Write
<1>6. CASE UpsertSettings(q)
  <2>1. r.op = "update"
    BY <1>6, <1>h DEF UpsertSettings, HoldsRow
  <2> QED
    BY <1>5, <1>6, <1>t, <2>1 DEF UpsertSettings
<1>7. CASE UpdateCustomRole(q)
  <2>1. CASE settings = NoSettings
    BY <1>0, <1>7, <1>e, <2>1, NoWrite DEF UpdateCustomRole, InSettings, EndSettings, NothingWritten
  <2>2. CASE settings # NoSettings
    <3>1. WriteHistory(q) /\ Written(Merge(r.base, r.a, r.b), Merge(serial, r.a, r.b)) /\ r.op = "update"
      BY <1>7, <2>2 DEF UpdateCustomRole
    <3>2. settings = serial => serial = ReadOf(settings)
      BY <2>2 DEF ReadOf
    <3> QED
      BY <1>0, <1>5, <1>7, <3>1, <3>2
  <2> QED
    BY <2>1, <2>2
<1>8. CASE DeleteCustomRole(q)
  <2>1. CASE NothingWritten
    BY <1>0, <1>8, <1>e, <2>1, NoWrite DEF DeleteCustomRole, InSettings, EndSettings, NothingWritten
  <2>2. CASE Written(NoSettings, NoSettings)
    BY <1>0, <1>8, <2>2, RowConstants, Write DEF DeleteCustomRole, InSettings
  <2> QED
    BY <1>8, <2>1, <2>2 DEF DeleteCustomRole
<1>9. CASE CreateCustomRole(q)
  <2> DEFINE settingRow == SettingRow(r.a, r.b, FALSE)
  <2>0. settingRow \in SettingRows
    BY <1>0 DEF SettingRow, SettingRows, Asked
  <2>1. CASE NothingWritten
    BY <1>0, <1>9, <1>e, <2>1, NoWrite DEF CreateCustomRole, InSettings, EndSettings, NothingWritten
  <2>2. CASE Written(settingRow, settingRow)
    BY <1>0, <1>9, <2>0, <2>2, Write DEF CreateCustomRole, InSettings
  <2> QED
    BY <1>9, <2>1, <2>2 DEF CreateCustomRole
<1> QED
  BY <1>1, <1>2, <1>3, <1>4, <1>6, <1>7, <1>8, <1>9

-----------------------------------------------------------------------------
LEMMA SettingsKeep == SettingsInv /\ [OrgSettingsNext]_settingsVars => SettingsInv'
<1>1. SettingsInv /\ UNCHANGED settingsVars => SettingsInv'
  <2> SUFFICES ASSUME SettingsInv, UNCHANGED settingsVars PROVE SettingsInv'
    OBVIOUS
  <2>1. OrgSettingsTypeOK' /\ SettingsEditsKept'
    BY DEF settingsVars, SettingsInv, OrgSettingsTypeOK, SettingsEditsKept
  <2>2. \A q \in SettingsRequests : ReadInHand(q)'
    BY DEF settingsVars, SettingsInv, ReadInHand, HoldsRow, ReadOf, Defaults
  <2> QED
    BY <2>1, <2>2 DEF SettingsInv
<1> QED
  BY <1>1, SettingsStep DEF OrgSettingsNext

\* Rows have their types, an update holds the row it read, and no edit is lost but to
\* an overlap or a failed read (handlers/onboarding.go, janitor.go, custom_roles.go).
THEOREM SettingsInductive == OrgSettingsSpec => []SettingsInv
BY InitSettings, SettingsKeep, PTL DEF OrgSettingsSpec

\* The row is what the writes make one after the other, unless a request wrote over a
\* change it had not seen or after a read that failed.
THEOREM EditsAreKept == OrgSettingsSpec => []SettingsEditsKept
<1>1. SettingsInv => SettingsEditsKept
  BY DEF SettingsInv
<1> QED
  BY SettingsInductive, <1>1, PTL

-----------------------------------------------------------------------------
(***************************************************************************)
(* Resources and the audit log.                                             *)
(***************************************************************************)
CallerRow == [op : {"none", "create", "update", "delete", "revoke", "rotate"},
              pc : {"idle", "apply", "begin", "insert"},
              kind : RowKinds \cup {"none"}, row : 0..MaxRows,
              name : Names \cup {0}, project : 0..MaxRows,
              change : 0..MaxMutations, began : 0..MaxMutations, prev : 0..MaxMutations]
RowRow == [kind : RowKinds \cup {"none"}, parent : 0..MaxRows, name : Names \cup {0},
           state : {"live", "grace", "over", "revoked"}]
AuditRow == [change : 1..MaxMutations, prev : 0..MaxMutations, began : 0..MaxMutations]
LimitedKinds == {"project", "environment"}

\* The types, field by field.
LEMMA ResourceTypes ==
    ASSUME ResourcesInv
    PROVE  /\ caller \in [Callers -> CallerRow] /\ row \in [RowIds -> RowRow]
           /\ auditLog \in Seq(AuditRow) /\ Len(auditLog) \in Nat /\ Len(auditLog) <= mutations
           /\ rowCount \in 0..MaxRows /\ MaxRows \in Nat /\ rowCount \in Nat
           /\ mutations \in Nat /\ mutations \in 0..MaxMutations /\ MaxMutations \in Nat
           /\ auditClock \in Nat /\ auditClock \in 0..MaxMutations
           /\ resourceFaults \in Nat /\ resourceFaults \in 0..MaxResourceFaults /\ MaxResourceFaults \in Nat
           /\ failedOpen \in Nat /\ failedOpen <= resourceFaults
           /\ PlanLimit \in Nat \ {0} /\ auditOverlap \in BOOLEAN
BY ResourcesAssumption DEF ResourcesInv, ResourcesTypeOK, CallerRow, RowRow, AuditRow, ResourcesAssumption

LEMMA ResourceSetsFinite ==
    /\ IsFiniteSet(Callers) /\ Cardinality(Callers) \in Nat
    /\ \A k, i : /\ IsFiniteSet(Rows(k, i)) /\ Cardinality(Rows(k, i)) \in Nat
                 /\ IsFiniteSet(Passed(k, i)) /\ Cardinality(Passed(k, i)) \in Nat
                 /\ Cardinality(Passed(k, i)) <= Cardinality(Callers)
    /\ IsFiniteSet(Beginning) /\ Cardinality(Beginning) \in Nat
<1>1. IsFiniteSet(Callers) /\ IsFiniteSet(RowIds)
  BY ResourcesAssumption, FS_Interval DEF ResourcesAssumption, RowIds
<1>2. \A k, i : Rows(k, i) \subseteq RowIds /\ Passed(k, i) \subseteq Callers
  BY DEF Rows, Passed
<1>3. Beginning \subseteq Callers
  BY DEF Beginning
<1> QED
  BY <1>1, <1>2, <1>3, SubsetCard

LEMMA ResourceNumbers ==
    ASSUME ResourcesInv
    PROVE  /\ failedOpen \in Nat /\ PlanLimit \in Nat /\ Cardinality(Callers) \in Nat
           /\ rowCount \in Nat /\ MaxRows \in Nat /\ rowCount <= MaxRows
           /\ mutations \in Nat /\ MaxMutations \in Nat /\ auditClock \in Nat
           /\ 0 \in 0..MaxRows /\ RowIds \subseteq 0..MaxRows
<1>1. PlanLimit \in Nat
  BY ResourceTypes
<1>2. Cardinality(Callers) \in Nat
  BY ResourceSetsFinite
<1> QED
  BY <1>1, <1>2, ResourceTypes DEF RowIds

LEMMA NoCallerRow ==
    /\ NoCaller \in CallerRow /\ NoCaller.pc = "idle"
    /\ NoRow \in RowRow /\ NoRow.kind = "none"
<1>1. 0 \in 0..MaxRows /\ 0 \in 0..MaxMutations
  BY ResourcesAssumption DEF ResourcesAssumption
<1> QED
  BY <1>1 DEF NoCaller, CallerRow, NoRow, RowRow

LEMMA InitResourcesInv == ResourcesInit => ResourcesInv
<1> SUFFICES ASSUME ResourcesInit PROVE ResourcesInv
  OBVIOUS
<1>1. 1 \in 0..MaxRows /\ 2 \in 0..MaxRows /\ 0 \in 0..MaxRows /\ 3 \in 0..MaxRows /\ 1 \in Names
      /\ MaxMutations \in Nat /\ MaxResourceFaults \in Nat /\ PlanLimit \in Nat \ {0} /\ MaxRows \in Nat
  BY ResourcesAssumption DEF ResourcesAssumption
<1>2. "project" \in RowKinds /\ "environment" \in RowKinds /\ "key" \in RowKinds
  BY DEF RowKinds, ParentKind
<1>3. /\ NewRow("project", 0, 1) \in RowRow /\ NewRow("environment", 1, 1) \in RowRow
      /\ NewRow("key", 2, 0) \in RowRow
  BY <1>1, <1>2 DEF NewRow, RowRow
<1>4. row \in [RowIds -> RowRow]
  BY <1>3, NoCallerRow DEF ResourcesInit
<1>5. /\ caller \in [Callers -> CallerRow] /\ \A c \in Callers : caller[c].pc = "idle"
      /\ auditLog = <<>> /\ auditClock = 0 /\ mutations = 0 /\ unlogged = {}
      /\ auditOverlap = FALSE /\ failedOpen = 0 /\ resourceFaults = 0 /\ rowCount = 3
  BY NoCallerRow DEF ResourcesInit
<1>6. auditLog \in Seq(AuditRow) /\ Len(auditLog) = 0
  BY <1>5
<1>7. ResourcesTypeOK
  <2>1. auditOverlap \in BOOLEAN
    BY <1>5
  <2>2. /\ rowCount \in 0..MaxRows /\ mutations \in 0..MaxMutations /\ auditClock \in 0..MaxMutations
        /\ Len(auditLog) <= mutations /\ failedOpen \in 0..resourceFaults /\ resourceFaults \in 0..MaxResourceFaults
    BY <1>1, <1>5, <1>6
  <2> QED
    BY <1>4, <1>5, <1>6, <2>1, <2>2 DEF ResourcesTypeOK, CallerRow, RowRow, AuditRow
<1>8. RowShape
  <2>1. \A i \in RowIds : i > rowCount => row[i].kind = "none"
    BY <1>5, NoCallerRow DEF ResourcesInit, RowIds
  <2>2. \A i \in RowIds : row[i].kind = "key" => row[i].parent \in RowIds
    BY <1>1, NoCallerRow DEF ResourcesInit, RowIds, NewRow
  <2> QED
    BY <1>5, <2>1, <2>2 DEF RowShape
<1>9. Beginning = {} /\ Auditing = {} /\ OpenChanges = {} /\ Unlogged = {} /\ Logged = {}
  BY <1>5, <1>6 DEF Beginning, Auditing, OpenChanges, Unlogged, Logged
<1>10. Cardinality({}) = 0
  BY FS_EmptySet
<1>11. AuditShape
  BY <1>5, <1>6, <1>9, <1>10 DEF AuditShape
<1>12. AuditAccounts
  BY <1>5, <1>6, <1>9, <1>10 DEF AuditAccounts
<1>13. LimitOvershootBound
  <2>1. \A k, i : Passed(k, i) = {}
    BY <1>5 DEF Passed
  <2>2. ASSUME NEW k \in LimitedKinds, NEW i \in 0..MaxRows
        PROVE  Cardinality(Rows(k, i)) + Cardinality(Passed(k, i)) <= PlanLimit - 1 + Cardinality(Callers) + failedOpen
    <3>1. \A j \in RowIds : /\ row[j].kind = "project" => j = 1
                            /\ row[j].kind = "environment" => j = 2
      BY DEF ResourcesInit, RowIds, NewRow, NoRow
    <3>2. \A x, y \in Rows(k, i) : x = y
      BY <3>1 DEF Rows, LimitedKinds
    <3>3. Cardinality(Rows(k, i)) <= 1 /\ Cardinality(Rows(k, i)) \in Nat
      BY <3>2, OneCard, FS_CardinalityType
    <3>4. Cardinality(Callers) \in Nat /\ Cardinality(Callers) # 0
      BY ResourcesAssumption, FS_EmptySet, FS_CardinalityType DEF ResourcesAssumption
    <3>5. Cardinality(Passed(k, i)) = 0
      BY <1>10, <2>1
    <3> QED
      BY <1>1, <1>5, <3>3, <3>4, <3>5
  <2>3. 0 \in 0..MaxRows /\ RowIds \subseteq 0..MaxRows
    BY <1>1 DEF RowIds
  <2> QED
    BY <2>2, <2>3 DEF LimitOvershootBound, LimitedKinds
<1> QED
  BY <1>7, <1>8, <1>11, <1>12, <1>13 DEF ResourcesInv

\* A request's record is replaced.
LEMMA CallerMoves ==
    ASSUME ResourcesInv, NEW c \in Callers, NEW q \in CallerRow, caller' = [caller EXCEPT ![c] = q]
    PROVE  /\ caller' \in [Callers -> CallerRow] /\ caller'[c] = q
           /\ \A d \in Callers \ {c} : caller'[d] = caller[d]
BY ResourceTypes

\* No more rows of a kind, no more requests past the limit.
LEMMA LimitKept ==
    ASSUME ResourcesInv, failedOpen' \in Nat, failedOpen' >= failedOpen,
           \A k \in LimitedKinds, i \in 0..MaxRows :
              Rows(k, i)' \subseteq Rows(k, i) /\ Passed(k, i)' \subseteq Passed(k, i)
    PROVE  LimitOvershootBound'
<1>1. ASSUME NEW k \in LimitedKinds, NEW i \in 0..MaxRows,
             Cardinality(Rows(k, i)) + Cardinality(Passed(k, i)) <= PlanLimit - 1 + Cardinality(Callers) + failedOpen
      PROVE  Cardinality(Rows(k, i)') + Cardinality(Passed(k, i)') <= PlanLimit - 1 + Cardinality(Callers) + failedOpen'
  <2>1. /\ Cardinality(Rows(k, i)') <= Cardinality(Rows(k, i)) /\ Cardinality(Rows(k, i)') \in Nat
        /\ Cardinality(Passed(k, i)') <= Cardinality(Passed(k, i)) /\ Cardinality(Passed(k, i)') \in Nat
    BY SubsetCard, ResourceSetsFinite
  <2>2. Cardinality(Rows(k, i)) \in Nat /\ Cardinality(Passed(k, i)) \in Nat
    BY ResourceSetsFinite
  <2> QED
    BY <1>1, <2>1, <2>2, ResourceNumbers
<1>2. 0 \in 0..MaxRows /\ RowIds \subseteq 0..MaxRows
  BY ResourceTypes DEF RowIds
<1> QED
  BY <1>1, <1>2 DEF ResourcesInv, LimitOvershootBound, LimitedKinds

\* A step that is no part of an audit entry.
LEMMA AuditKept ==
    ASSUME ResourcesInv, UNCHANGED <<audit_, mutations>>,
           \A c \in Callers : \/ caller'[c] = caller[c]
                              \/ {caller[c].pc, caller'[c].pc} \cap {"begin", "insert"} = {}
    PROVE  AuditAccounts' /\ AuditShape'
<1>1. \A c \in Callers : \/ caller'[c] = caller[c]
                         \/ caller[c].pc \notin {"begin", "insert"} /\ caller'[c].pc \notin {"begin", "insert"}
  OBVIOUS
<1>2. UNCHANGED <<auditLog, auditClock, unlogged, auditOverlap, mutations>>
  BY DEF audit_
<1>3. Auditing' = Auditing /\ Beginning' = Beginning /\ \A c \in Auditing : caller'[c] = caller[c]
  BY <1>1 DEF Auditing, Beginning
<1>4. OpenChanges' = OpenChanges
  BY <1>3 DEF OpenChanges
<1>5. Logged' = Logged /\ Unlogged' = Unlogged
  BY <1>2 DEF Logged, Unlogged
<1>6. AuditAccounts'
  BY <1>2, <1>4, <1>5 DEF ResourcesInv, AuditAccounts
<1>7. AuditShape'
  <2>1. \A c, d \in Auditing' : caller'[c].change = caller'[d].change => c = d
    BY <1>3 DEF ResourcesInv, AuditShape
  <2>2. \A c \in Auditing' : caller'[c].change \notin Unlogged'
    BY <1>3, <1>5 DEF ResourcesInv, AuditShape
  <2>3. \A c \in Callers : caller'[c].pc = "insert" => caller'[c] = caller[c]
    BY <1>1
  <2>4. ~auditOverlap =>
          /\ \A c, d \in Callers : caller'[c].pc = "insert" /\ caller'[d].pc = "insert" => c = d
          /\ \A c \in Callers : caller'[c].pc = "insert" =>
                /\ caller'[c].prev = Len(auditLog)
                /\ \A i \in 1..Len(auditLog) : auditLog[i].began < caller'[c].began
    BY <2>3 DEF ResourcesInv, AuditShape
  <2>5. /\ auditClock' + Cardinality(Beginning') <= mutations'
        /\ \A i \in 1..Len(auditLog') : auditLog'[i].began <= auditClock'
        /\ \A c \in Callers : caller'[c].pc = "insert" => caller'[c].began <= auditClock'
    BY <1>2, <1>3, <2>3 DEF ResourcesInv, AuditShape
  <2>6. ~auditOverlap => \A i, j \in 1..Len(auditLog) : i < j => auditLog[i].began < auditLog[j].began
    BY DEF ResourcesInv, AuditShape
  <2> QED
    BY <1>2, <2>1, <2>2, <2>4, <2>5, <2>6 DEF AuditShape
<1> QED
  BY <1>6, <1>7

\* A request arrives.
LEMMA AskKeeps ==
    ASSUME ResourcesInv, NEW c \in Callers, NEW op \in {"create", "update", "delete", "revoke", "rotate"},
           NEW kind \in RowKinds, NEW i \in 0..MaxRows, NEW name \in Names \cup {0},
           Ask_(c, op, kind, i, name),
           IF op = "create" /\ kind \in LimitedKinds THEN TierEnforce(kind, i) ELSE Unlimited,
           op \in {"revoke", "rotate"} => i \in RowIds /\ row[i].kind = "key",
           op = "create" /\ kind = "key" => i \in RowIds
    PROVE  ResourcesInv'
<1> DEFINE q == [NoCaller EXCEPT !.op = op, !.kind = kind, !.row = i, !.name = name, !.pc = "apply",
                                 !.project = ProjectOf(i)]
<1>1. /\ caller[c].pc = "idle" /\ caller' = [caller EXCEPT ![c] = q]
      /\ UNCHANGED <<row, rowCount, audit_, mutations>>
  BY DEF Ask_, rows_
<1>2. ProjectOf(i) \in 0..MaxRows
  <2>1. i = 0 \/ i \in RowIds
    BY ResourceTypes DEF RowIds
  <2>2. CASE i \in RowIds
    <3>1. row[i] \in RowRow /\ i # 0
      BY <2>2, ResourceTypes, SMTT(30) DEF RowIds
    <3>2. row[i].kind = "key" => row[row[i].parent] \in RowRow
      BY <2>2, ResourceTypes DEF ResourcesInv, RowShape
    <3> QED
      BY <3>1, <3>2 DEF ProjectOf, RowRow
  <2>3. CASE i = 0
    <3>1. ProjectOf(i) = 0
      BY <2>3 DEF ProjectOf
    <3> QED
      BY <3>1, ResourceNumbers
  <2> QED
    BY <2>1, <2>2, <2>3
<1>3. /\ q \in CallerRow /\ q.op = op /\ q.kind = kind /\ q.row = i /\ q.pc = "apply"
  BY <1>2, NoCallerRow DEF CallerRow, NoCaller
<1> HIDE DEF q
<1>4. /\ caller' \in [Callers -> CallerRow] /\ caller'[c] = q
      /\ \A d \in Callers \ {c} : caller'[d] = caller[d]
  BY <1>1, <1>3, CallerMoves
<1>5. /\ failedOpen' \in Nat /\ failedOpen' >= failedOpen /\ failedOpen' \in 0..resourceFaults'
      /\ resourceFaults' \in 0..MaxResourceFaults
      /\ failedOpen' = failedOpen \/ failedOpen' = failedOpen + 1
  BY ResourceTypes DEF TierEnforce, Unlimited, ResourceFault
<1>6. ResourcesTypeOK'
  BY <1>1, <1>4, <1>5 DEF ResourcesInv, ResourcesTypeOK, CallerRow, audit_
<1>7. AuditAccounts' /\ AuditShape'
  BY <1>1, <1>3, <1>4, AuditKept
<1>8. RowShape'
  <2>1. op \in {"revoke", "rotate"} => i \in 1..rowCount
    <3>1. ASSUME op \in {"revoke", "rotate"} PROVE i \in RowIds /\ ~(i > rowCount)
      BY <3>1 DEF ResourcesInv, RowShape
    <3> QED
      BY <3>1, ResourceNumbers DEF RowIds
  <2>2. \A d \in Callers : caller'[d].pc = "apply" /\ caller'[d].op \in {"revoke", "rotate"} =>
           caller'[d].row \in 1..rowCount /\ row[caller'[d].row].kind \in {"key", "none"}
    BY <1>3, <1>4, <2>1 DEF ResourcesInv, RowShape
  <2>3. \A d \in Callers : caller'[d].pc = "apply" /\ caller'[d].op = "create" /\ caller'[d].kind = "key" =>
           caller'[d].row \in RowIds
    BY <1>3, <1>4 DEF ResourcesInv, RowShape
  <2> QED
    BY <1>1, <2>2, <2>3 DEF ResourcesInv, RowShape
<1>9. LimitOvershootBound'
  <2>1. \A k, j : Rows(k, j)' = Rows(k, j)
    BY <1>1 DEF Rows
  <2>2. \A k, j : ~(op = "create" /\ kind = k /\ i = j) => Passed(k, j)' \subseteq Passed(k, j)
    BY <1>3, <1>4 DEF Passed
  <2>3. ASSUME NEW k \in LimitedKinds, NEW j \in 0..MaxRows,
               Cardinality(Rows(k, j)) + Cardinality(Passed(k, j)) <= PlanLimit - 1 + Cardinality(Callers) + failedOpen
        PROVE  Cardinality(Rows(k, j)') + Cardinality(Passed(k, j)') <= PlanLimit - 1 + Cardinality(Callers) + failedOpen'
    <3>1. CASE op = "create" /\ kind = k /\ i = j
      <4>1. Passed(k, j)' = Passed(k, j) \cup {c} /\ c \notin Passed(k, j) /\ Passed(k, j) \cup {c} \subseteq Callers
        BY <1>1, <1>3, <1>4, <3>1 DEF Passed
      <4>2. /\ Cardinality(Passed(k, j)') = Cardinality(Passed(k, j)) + 1 /\ Cardinality(Passed(k, j)) \in Nat
            /\ Cardinality(Passed(k, j)') <= Cardinality(Callers) /\ Cardinality(Callers) \in Nat
        BY <4>1, AddCard, SubsetCard, ResourceSetsFinite
      <4>3. Cardinality(Rows(k, j)') = Cardinality(Rows(k, j)) /\ Cardinality(Rows(k, j)) \in Nat
        BY <2>1, ResourceSetsFinite
      <4>4. TierEnforce(k, j)
        BY <3>1
      <4>5. CASE Cardinality(Rows(k, j)) < PlanLimit /\ failedOpen' = failedOpen
        BY <4>2, <4>3, <4>5, ResourceNumbers
      <4>6. CASE failedOpen' = failedOpen + 1
        BY <2>3, <4>2, <4>3, <4>6, ResourceNumbers
      <4> QED
        BY <4>4, <4>5, <4>6 DEF TierEnforce
    <3>2. CASE ~(op = "create" /\ kind = k /\ i = j)
      <4>1. Cardinality(Passed(k, j)') <= Cardinality(Passed(k, j)) /\ Cardinality(Passed(k, j)') \in Nat
        BY <2>2, <3>2, SubsetCard, ResourceSetsFinite
      <4>2. Rows(k, j)' = Rows(k, j)
        BY <2>1
      <4>3. Cardinality(Rows(k, j)) \in Nat /\ Cardinality(Passed(k, j)) \in Nat
        BY ResourceSetsFinite
      <4> QED
        BY <1>5, <2>3, <4>1, <4>2, <4>3, ResourceNumbers
    <3> QED
      BY <3>1, <3>2
  <2>4. 0 \in 0..MaxRows /\ RowIds \subseteq 0..MaxRows
    BY ResourceTypes DEF RowIds
  <2> QED
    BY <2>3, <2>4 DEF ResourcesInv, LimitOvershootBound, LimitedKinds
<1> QED
  BY <1>6, <1>7, <1>8, <1>9 DEF ResourcesInv

\* A request at its statement is refused.
LEMMA RefusedKeeps ==
    ASSUME ResourcesInv, NEW c \in Callers, caller[c].pc = "apply", Refused(c),
           UNCHANGED <<rows_, audit_, mutations, failedOpen>>,
           resourceFaults' = resourceFaults \/ ResourceFault
    PROVE  ResourcesInv'
<1>1. /\ caller' \in [Callers -> CallerRow] /\ caller'[c] = NoCaller
      /\ \A d \in Callers \ {c} : caller'[d] = caller[d]
  BY NoCallerRow, CallerMoves DEF Refused
<1>2. UNCHANGED <<row, rowCount, auditLog, auditClock, unlogged, auditOverlap, mutations, failedOpen>>
  BY DEF rows_, audit_
<1>3. resourceFaults' \in 0..MaxResourceFaults /\ failedOpen \in 0..resourceFaults'
  BY ResourceTypes DEF ResourceFault
<1>4. ResourcesTypeOK'
  BY <1>1, <1>2, <1>3 DEF ResourcesInv, ResourcesTypeOK, CallerRow
<1>5. AuditAccounts' /\ AuditShape'
  BY <1>1, <1>2, NoCallerRow, AuditKept
<1>6. RowShape'
  BY <1>1, <1>2, NoCallerRow DEF ResourcesInv, RowShape
<1>7. \A k, i : Rows(k, i)' = Rows(k, i) /\ Passed(k, i)' \subseteq Passed(k, i)
  BY <1>1, <1>2, NoCallerRow DEF Rows, Passed
<1>8. LimitOvershootBound'
  BY <1>2, <1>7, LimitKept, ResourceNumbers
<1> QED
  BY <1>4, <1>5, <1>6, <1>8 DEF ResourcesInv

\* A change is made and its entry is to be written.
LEMMA ChangeAudited ==
    ASSUME ResourcesInv, NEW c \in Callers, caller[c].pc = "apply", Mutated(c), rowCount' \in 0..MaxRows
    PROVE  /\ caller' \in [Callers -> CallerRow] /\ caller'[c].pc = "begin"
           /\ \A d \in Callers \ {c} : caller'[d] = caller[d]
           /\ mutations' \in 0..MaxMutations /\ Len(auditLog') <= mutations'
           /\ AuditAccounts' /\ AuditShape'
<1> DEFINE q == [NoCaller EXCEPT !.pc = "begin", !.change = mutations',
                    !.project = IF caller[c].op = "create" /\ caller[c].kind = "project"
                                THEN rowCount' ELSE caller[c].project]
<1>0. /\ mutations < MaxMutations /\ mutations' = mutations + 1
      /\ caller' = [caller EXCEPT ![c] = q]
      /\ UNCHANGED <<auditLog, auditClock, unlogged, auditOverlap>>
  BY DEF Mutated, audit_
<1>1. mutations' \in 1..MaxMutations /\ mutations \in Nat /\ mutations' \in 0..MaxMutations
  BY <1>0, ResourceNumbers
<1>2. q \in CallerRow /\ q.pc = "begin" /\ q.change = mutations'
  <2>1. caller[c].project \in 0..MaxRows
    BY ResourceTypes DEF CallerRow
  <2> QED
    BY <1>1, <2>1, NoCallerRow DEF CallerRow, NoCaller
<1> HIDE DEF q
<1>3. /\ caller' \in [Callers -> CallerRow] /\ caller'[c] = q
      /\ \A d \in Callers \ {c} : caller'[d] = caller[d]
  BY <1>0, <1>2, CallerMoves
<1>4. /\ Auditing \subseteq Callers
      /\ Auditing' = Auditing \cup {c} /\ c \notin Auditing /\ Beginning' = Beginning \cup {c} /\ c \notin Beginning
  BY <1>2, <1>3 DEF Auditing, Beginning
<1>5. OpenChanges' = OpenChanges \cup {mutations + 1}
  <2>1. \A d \in Auditing : caller'[d].change = caller[d].change
    BY <1>3, <1>4
  <2>2. caller'[c].change = mutations + 1
    BY <1>0, <1>2, <1>3
  <2> QED
    BY <1>4, <2>1, <2>2 DEF OpenChanges
<1>6. Logged' = Logged /\ Unlogged' = Unlogged
  BY <1>0 DEF Logged, Unlogged
<1>7. 1..mutations = Logged \cup OpenChanges \cup Unlogged
  BY DEF ResourcesInv, AuditAccounts
<1>8. mutations + 1 \notin 1..mutations /\ 1..mutations' = 1..mutations \cup {mutations + 1}
  BY <1>0, <1>1
<1>9. AuditAccounts'
  <2>1. 1..mutations' = Logged' \cup OpenChanges' \cup Unlogged'
    BY <1>5, <1>6, <1>7, <1>8
  <2>2. Logged' \cap (OpenChanges' \cup Unlogged') = {}
    BY <1>5, <1>6, <1>7, <1>8 DEF ResourcesInv, AuditAccounts
  <2>3. Cardinality(Logged') = Len(auditLog') /\ (~auditOverlap' => \A i \in 1..Len(auditLog') : auditLog'[i].prev = i - 1)
    BY <1>0, <1>6 DEF ResourcesInv, AuditAccounts
  <2> QED
    BY <2>1, <2>2, <2>3 DEF AuditAccounts
<1>10. AuditShape'
  <2>1. \A d \in Auditing : caller[d].change \in 1..mutations /\ caller'[d] = caller[d]
    BY <1>3, <1>4, <1>7 DEF OpenChanges
  <2>2. caller'[c].change = mutations + 1
    BY <1>0, <1>2, <1>3
  <2>3. \A d, e \in Auditing' : caller'[d].change = caller'[e].change => d = e
    BY <1>4, <1>8, <2>1, <2>2 DEF ResourcesInv, AuditShape
  <2>4. \A d \in Auditing' : caller'[d].change \notin Unlogged'
    BY <1>4, <1>6, <1>7, <1>8, <2>1, <2>2 DEF ResourcesInv, AuditShape
  <2>5. auditClock' + Cardinality(Beginning') <= mutations'
    <3>1. Cardinality(Beginning') = Cardinality(Beginning) + 1 /\ Cardinality(Beginning) \in Nat
      BY <1>4, AddCard, ResourceSetsFinite
    <3>2. auditClock + Cardinality(Beginning) <= mutations
      BY DEF ResourcesInv, AuditShape
    <3> QED
      BY <1>0, <3>1, <3>2, ResourceNumbers
  <2>6. \A d \in Callers : caller'[d].pc = "insert" => caller'[d] = caller[d]
    BY <1>2, <1>3
  <2>7. ~auditOverlap =>
          /\ \A d, e \in Callers : caller'[d].pc = "insert" /\ caller'[e].pc = "insert" => d = e
          /\ \A d \in Callers : caller'[d].pc = "insert" =>
                /\ caller'[d].prev = Len(auditLog)
                /\ \A i \in 1..Len(auditLog) : auditLog[i].began < caller'[d].began
    BY <2>6 DEF ResourcesInv, AuditShape
  <2>8. /\ \A i \in 1..Len(auditLog) : auditLog[i].began <= auditClock
        /\ \A d \in Callers : caller'[d].pc = "insert" => caller'[d].began <= auditClock
        /\ ~auditOverlap => \A i, j \in 1..Len(auditLog) : i < j => auditLog[i].began < auditLog[j].began
    BY <2>6 DEF ResourcesInv, AuditShape
  <2> QED
    BY <1>0, <2>3, <2>4, <2>5, <2>7, <2>8 DEF AuditShape
<1>11. Len(auditLog') <= mutations'
  BY <1>0, <1>1, ResourceTypes
<1> QED
  BY <1>1, <1>2, <1>3, <1>9, <1>10, <1>11

LEMMA MutatedKeeps ==
    ASSUME ResourcesInv, NEW c \in Callers, caller[c].pc = "apply", Mutated(c),
           row' \in [RowIds -> RowRow], rowCount' \in 0..MaxRows, rowCount' >= rowCount,
           \A i \in RowIds : i <= rowCount => row'[i].kind \in {row[i].kind, "none"},
           \A i \in RowIds : i > rowCount' => row'[i].kind = "none",
           \A i \in RowIds : row'[i].kind = "key" => row'[i].parent \in RowIds,
           \A k \in LimitedKinds, i \in 0..MaxRows :
              \/ Rows(k, i)' \subseteq Rows(k, i)
              \/ c \in Passed(k, i) /\ Rows(k, i)' \subseteq Rows(k, i) \cup {rowCount'}
    PROVE  ResourcesInv'
<1>1. /\ caller' \in [Callers -> CallerRow] /\ caller'[c].pc = "begin"
      /\ \A d \in Callers \ {c} : caller'[d] = caller[d]
      /\ mutations' \in 0..MaxMutations /\ Len(auditLog') <= mutations'
      /\ AuditAccounts' /\ AuditShape'
  BY ChangeAudited
<1>2. UNCHANGED <<auditLog, auditClock, unlogged, auditOverlap, failedOpen, resourceFaults>>
  BY DEF Mutated, audit_
<1>3. ResourcesTypeOK'
  BY <1>1, <1>2 DEF ResourcesInv, ResourcesTypeOK, CallerRow, RowRow
<1>4. RowShape'
  <2>1. ASSUME NEW d \in Callers, caller'[d].pc = "apply", caller'[d].op \in {"revoke", "rotate"}
        PROVE  caller'[d].row \in 1..rowCount' /\ row'[caller'[d].row].kind \in {"key", "none"}
    <3>1. d # c /\ caller'[d] = caller[d]
      BY <1>1, <2>1
    <3>2. caller[d].row \in 1..rowCount /\ row[caller[d].row].kind \in {"key", "none"}
      BY <2>1, <3>1 DEF ResourcesInv, RowShape
    <3>3. caller[d].row \in 1..rowCount' /\ caller[d].row \in RowIds /\ caller[d].row <= rowCount
      BY <3>2, ResourceNumbers DEF RowIds
    <3> QED
      BY <3>1, <3>2, <3>3
  <2>2. \A d \in Callers : caller'[d].pc = "apply" /\ caller'[d].op = "create" /\ caller'[d].kind = "key" =>
           caller'[d].row \in RowIds
    BY <1>1 DEF ResourcesInv, RowShape
  <2> QED
    BY <2>1, <2>2 DEF RowShape
<1>5. LimitOvershootBound'
  <2>1. \A k, i : Passed(k, i)' = Passed(k, i) \ {c}
    BY <1>1 DEF Passed
  <2>2. ASSUME NEW k \in LimitedKinds, NEW i \in 0..MaxRows,
               Cardinality(Rows(k, i)) + Cardinality(Passed(k, i)) <= PlanLimit - 1 + Cardinality(Callers) + failedOpen
        PROVE  Cardinality(Rows(k, i)') + Cardinality(Passed(k, i)') <= PlanLimit - 1 + Cardinality(Callers) + failedOpen
    <3>0. /\ Cardinality(Rows(k, i)) \in Nat /\ Cardinality(Passed(k, i)) \in Nat
          /\ IsFiniteSet(Rows(k, i)) /\ IsFiniteSet(Passed(k, i))
      BY ResourceSetsFinite
    <3>1. CASE Rows(k, i)' \subseteq Rows(k, i)
      <4>1. Passed(k, i)' \subseteq Passed(k, i)
        BY <2>1
      <4>2. /\ Cardinality(Rows(k, i)') <= Cardinality(Rows(k, i)) /\ Cardinality(Rows(k, i)') \in Nat
            /\ Cardinality(Passed(k, i)') <= Cardinality(Passed(k, i)) /\ Cardinality(Passed(k, i)') \in Nat
        BY <3>0, <3>1, <4>1, SubsetCard
      <4> QED
        BY <2>2, <3>0, <4>2, ResourceNumbers
    <3>2. CASE c \in Passed(k, i) /\ Rows(k, i)' \subseteq Rows(k, i) \cup {rowCount'}
      <4>1. Cardinality(Passed(k, i)') = Cardinality(Passed(k, i)) - 1 /\ Cardinality(Passed(k, i)') \in Nat
        BY <2>1, <3>0, <3>2, DropCard
      <4>2. IsFiniteSet(Rows(k, i) \cup {rowCount'}) /\ Cardinality(Rows(k, i) \cup {rowCount'}) <= Cardinality(Rows(k, i)) + 1
        BY <3>0, AddCard
      <4>3. /\ Cardinality(Rows(k, i)') <= Cardinality(Rows(k, i) \cup {rowCount'}) /\ Cardinality(Rows(k, i)') \in Nat
            /\ Cardinality(Rows(k, i) \cup {rowCount'}) \in Nat
        BY <3>2, <4>2, SubsetCard
      <4> QED
        BY <2>2, <3>0, <4>1, <4>2, <4>3, ResourceNumbers
    <3> QED
      BY <3>1, <3>2
  <2> QED
    BY <1>2, <2>2, ResourceNumbers DEF ResourcesInv, LimitOvershootBound, LimitedKinds
<1> QED
  BY <1>1, <1>3, <1>4, <1>5 DEF ResourcesInv

\* A row that keeps its kind and its parent, or goes, is no row more.
LEMMA FewerRows ==
    ASSUME NEW k \in LimitedKinds, NEW i,
           \A j \in RowIds : \/ row'[j].kind = "none"
                             \/ row'[j].kind = row[j].kind /\ row'[j].parent = row[j].parent
    PROVE  Rows(k, i)' \subseteq Rows(k, i)
BY DEF Rows, LimitedKinds

LEMMA InsertRowKeeps ==
    ASSUME ResourcesInv, NEW c \in Callers, InsertRow(c)
    PROVE  ResourcesInv'
<1> DEFINE q == caller[c]
           new == NewRow(q.kind, q.row, q.name)
<1>1. q \in CallerRow /\ q.pc = "apply" /\ q.op = "create"
  BY ResourceTypes DEF InsertRow, On
<1>2. CASE Exists(q.row) /\ ~Taken(q.kind, q.row, q.name, 0)
  <2>1. /\ rowCount < MaxRows /\ rowCount' = rowCount + 1
        /\ row' = [row EXCEPT ![rowCount'] = new] /\ Mutated(c)
    BY <1>2 DEF InsertRow
  <2>2. /\ new \in RowRow /\ new.kind = q.kind /\ new.parent = q.row
        /\ new.kind = "key" => new.parent \in RowIds
    BY <1>1 DEF NewRow, RowRow, CallerRow, ResourcesInv, RowShape
  <2> HIDE DEF new
  <2>3. PICK n \in RowIds : n = rowCount' /\ n = rowCount + 1
    BY <2>1, ResourceNumbers DEF RowIds
  <2>4. /\ row' \in [RowIds -> RowRow] /\ row'[n] = new /\ \A j \in RowIds \ {n} : row'[j] = row[j]
        /\ n \in 0..MaxRows /\ n >= rowCount
    BY <2>1, <2>2, <2>3, ResourceTypes, ResourceNumbers DEF RowIds
  <2>5. \A j \in RowIds : j <= rowCount => row'[j] = row[j]
    BY <2>3, <2>4, ResourceNumbers DEF RowIds
  <2>6. \A j \in RowIds : j > n => row'[j].kind = "none"
    <3>1. \A j \in RowIds : j > n => j # n /\ j > rowCount
      BY <2>3, ResourceNumbers DEF RowIds
    <3> QED
      BY <2>4, <3>1 DEF ResourcesInv, RowShape
  <2>7. \A j \in RowIds : row'[j].kind = "key" => row'[j].parent \in RowIds
    BY <2>2, <2>4 DEF ResourcesInv, RowShape
  <2>8. ASSUME NEW k \in LimitedKinds, NEW i \in 0..MaxRows
        PROVE  \/ Rows(k, i)' \subseteq Rows(k, i)
               \/ c \in Passed(k, i) /\ Rows(k, i)' \subseteq Rows(k, i) \cup {n}
    <3>1. CASE q.kind = k /\ q.row = i
      <4>1. c \in Passed(k, i)
        BY <1>1, <3>1 DEF Passed
      <4>2. Rows(k, i)' \subseteq Rows(k, i) \cup {n}
        BY <2>4 DEF Rows
      <4> QED
        BY <4>1, <4>2
    <3>2. CASE ~(q.kind = k /\ q.row = i)
      <4>1. Rows(k, i)' \subseteq Rows(k, i)
        BY <2>2, <2>4, <3>2 DEF Rows
      <4> QED
        BY <4>1
    <3> QED
      BY <3>1, <3>2
  <2>9. /\ row' \in [RowIds -> RowRow] /\ rowCount' \in 0..MaxRows /\ rowCount' >= rowCount
        /\ \A j \in RowIds : j <= rowCount => row'[j].kind \in {row[j].kind, "none"}
        /\ \A j \in RowIds : j > rowCount' => row'[j].kind = "none"
    BY <2>3, <2>4, <2>5, <2>6
  <2>10. \A k \in LimitedKinds, i \in 0..MaxRows :
            \/ Rows(k, i)' \subseteq Rows(k, i)
            \/ c \in Passed(k, i) /\ Rows(k, i)' \subseteq Rows(k, i) \cup {rowCount'}
    BY <2>3, <2>8, Zenon
  <2> QED
    BY <1>1, <2>1, <2>7, <2>9, <2>10, MutatedKeeps
<1>3. CASE ~(Exists(q.row) /\ ~Taken(q.kind, q.row, q.name, 0))
  <2>1. Refused(c) /\ UNCHANGED <<rows_, audit_, mutations, failedOpen, resourceFaults>>
    BY <1>3 DEF InsertRow
  <2> QED
    BY <1>1, <2>1, RefusedKeeps
<1> QED
  BY <1>2, <1>3

\* A change to rows there are.
LEMMA RowsKept ==
    ASSUME ResourcesInv, NEW c \in Callers, caller[c].pc = "apply", Mutated(c), UNCHANGED rowCount,
           row' \in [RowIds -> RowRow],
           \A j \in RowIds : \/ row'[j].kind = "none"
                             \/ row'[j].kind = row[j].kind /\ row'[j].parent = row[j].parent
    PROVE  ResourcesInv'
<1>1. \A j \in RowIds : j > rowCount' => row'[j].kind = "none"
  BY DEF ResourcesInv, RowShape
<1>2. \A j \in RowIds : row'[j].kind = "key" => row'[j].parent \in RowIds
  BY DEF ResourcesInv, RowShape
<1>3. \A k \in LimitedKinds, i \in 0..MaxRows : Rows(k, i)' \subseteq Rows(k, i)
  BY FewerRows
<1>4. \A j \in RowIds : j <= rowCount => row'[j].kind \in {row[j].kind, "none"}
  OBVIOUS
<1>5. rowCount' \in 0..MaxRows /\ rowCount' >= rowCount
  BY ResourceTypes
<1> QED
  BY <1>1, <1>2, <1>3, <1>4, <1>5, MutatedKeeps

\* One column of one row is written.
LEMMA ColumnWritten ==
    ASSUME ResourcesInv, NEW i, NEW r \in RowRow,
           i \in RowIds => r.kind = row[i].kind /\ r.parent = row[i].parent,
           row' = row \/ row' = [row EXCEPT ![i] = r]
    PROVE  /\ row' \in [RowIds -> RowRow]
           /\ \A j \in RowIds : row'[j].kind = row[j].kind /\ row'[j].parent = row[j].parent
<1>1. row \in [RowIds -> RowRow]
  BY ResourceTypes
<1>2. CASE row' = row
  BY <1>1, <1>2
<1>3. CASE row' = [row EXCEPT ![i] = r]
  <2>1. row' \in [RowIds -> RowRow] /\ \A j \in RowIds : row'[j] = IF j = i THEN r ELSE row[j]
    BY <1>1, <1>3
  <2> QED
    BY <2>1
<1> QED
  BY <1>2, <1>3

LEMMA ChangeKeepsRows ==
    ASSUME ResourcesInv, NEW c \in Callers, UpdateRow(c) \/ DeleteRow(c) \/ RevokeAPIKey(c)
    PROVE  ResourcesInv'
<1> DEFINE q == caller[c]
<1>1. q \in CallerRow /\ q.pc = "apply"
  BY ResourceTypes DEF UpdateRow, DeleteRow, RevokeAPIKey, On
<1>2. CASE UpdateRow(c)
  <2>1. CASE Exists(q.row) /\ Taken(q.kind, row[q.row].parent, q.name, q.row)
    <3>1. Refused(c) /\ UNCHANGED <<rows_, audit_, mutations, failedOpen, resourceFaults>>
      BY <1>2, <2>1 DEF UpdateRow
    <3> QED
      BY <1>1, <3>1, RefusedKeeps
  <2>2. CASE ~(Exists(q.row) /\ Taken(q.kind, row[q.row].parent, q.name, q.row))
    <3>1. /\ row' = row \/ row' = [row EXCEPT ![q.row].name = q.name]
          /\ UNCHANGED rowCount /\ Mutated(c)
      BY <1>2, <2>2 DEF UpdateRow
    <3>2. /\ row' \in [RowIds -> RowRow]
          /\ \A j \in RowIds : row'[j].kind = row[j].kind /\ row'[j].parent = row[j].parent
      <4>1. CASE q.row \in RowIds
        <5>1. row[q.row] \in RowRow /\ q.name \in Names \cup {0}
          BY <1>1, <4>1, ResourceTypes DEF CallerRow
        <5>2. /\ [row[q.row] EXCEPT !.name = q.name] \in RowRow
              /\ [row[q.row] EXCEPT !.name = q.name].kind = row[q.row].kind
              /\ [row[q.row] EXCEPT !.name = q.name].parent = row[q.row].parent
          BY <5>1 DEF RowRow
        <5> QED
          BY <3>1, <5>2, ColumnWritten
      <4>2. CASE q.row \notin RowIds
        BY <3>1, <4>2, ResourceTypes
      <4> QED
        BY <4>1, <4>2
    <3> QED
      BY <1>1, <3>1, <3>2, RowsKept
  <2> QED
    BY <2>1, <2>2
<1>3. CASE DeleteRow(c)
  <2>1. /\ row' = [j \in RowIds |-> IF j \in Below(q.row) \cup {q.row} THEN NoRow ELSE row[j]]
        /\ UNCHANGED rowCount /\ Mutated(c)
    BY <1>3 DEF DeleteRow
  <2>2. /\ row' \in [RowIds -> RowRow]
        /\ \A j \in RowIds : row'[j] = NoRow \/ row'[j] = row[j]
    BY <2>1, NoCallerRow, ResourceTypes
  <2>3. \A j \in RowIds : \/ row'[j].kind = "none"
                          \/ row'[j].kind = row[j].kind /\ row'[j].parent = row[j].parent
    BY <2>2, NoCallerRow
  <2> QED
    BY <1>1, <2>1, <2>2, <2>3, RowsKept
<1>4. CASE RevokeAPIKey(c)
  <2>1. /\ row' = row \/ row' = [row EXCEPT ![q.row].state = "revoked"]
        /\ UNCHANGED rowCount /\ Mutated(c)
    BY <1>4 DEF RevokeAPIKey
  <2>2. /\ row' \in [RowIds -> RowRow]
        /\ \A j \in RowIds : row'[j].kind = row[j].kind /\ row'[j].parent = row[j].parent
    <3>1. CASE q.row \in RowIds
      <4>1. row[q.row] \in RowRow
        BY <3>1, ResourceTypes
      <4>2. /\ [row[q.row] EXCEPT !.state = "revoked"] \in RowRow
            /\ [row[q.row] EXCEPT !.state = "revoked"].kind = row[q.row].kind
            /\ [row[q.row] EXCEPT !.state = "revoked"].parent = row[q.row].parent
        BY <4>1 DEF RowRow
      <4> QED
        BY <2>1, <4>2, ColumnWritten
    <3>2. CASE q.row \notin RowIds
      BY <2>1, <3>2, ResourceTypes
    <3> QED
      BY <3>1, <3>2
  <2> QED
    BY <1>1, <2>1, <2>2, RowsKept
<1> QED
  BY <1>2, <1>3, <1>4

LEMMA RotateKeeps ==
    ASSUME ResourcesInv, NEW c \in Callers, RotateAPIKey(c)
    PROVE  ResourcesInv'
<1>1. caller[c] \in CallerRow /\ caller[c].pc = "apply" /\ caller[c].op = "rotate"
  BY ResourceTypes DEF RotateAPIKey, On
<1>2. PICK i \in RowIds : i = caller[c].row /\ i <= rowCount /\ row[i].kind \in {"key", "none"}
  <2>1. caller[c].row \in 1..rowCount /\ row[caller[c].row].kind \in {"key", "none"}
    BY <1>1 DEF ResourcesInv, RowShape
  <2> QED
    BY <2>1, ResourceNumbers DEF RowIds
<1>3. CASE Exists(i)
  <2> DEFINE old == [row[i] EXCEPT !.state = IF row[i].state = "revoked" THEN row[i].state ELSE "grace"]
             new == NewRow("key", row[i].parent, 0)
  <2>1. /\ rowCount < MaxRows /\ rowCount' = rowCount + 1
        /\ row' = [row EXCEPT ![i].state = IF @ = "revoked" THEN @ ELSE "grace",
                              ![rowCount'] = NewRow("key", row[i].parent, 0)]
        /\ Mutated(c)
    BY <1>2, <1>3 DEF RotateAPIKey
  <2>2. row[i] \in RowRow /\ row[i].kind = "key" /\ row[i].parent \in RowIds
    <3>1. i # 0
      BY DEF RowIds
    <3> QED
      BY <1>2, <1>3, <3>1, ResourceTypes DEF Exists, ResourcesInv, RowShape
  <2>3. new \in RowRow /\ new.kind = "key" /\ new.parent \in RowIds
    BY <2>2, ResourceNumbers DEF NewRow, RowRow, RowKinds, ParentKind
  <2>4. old \in RowRow /\ old.kind = row[i].kind /\ old.parent = row[i].parent
    BY <2>2 DEF RowRow
  <2>5. PICK n \in RowIds : n = rowCount' /\ n = rowCount + 1 /\ n # i
    BY <1>2, <2>1, ResourceNumbers DEF RowIds
  <2>6. row'[n] = new /\ row'[i] = old /\ DOMAIN row' = RowIds /\ \A j \in RowIds \ {n, i} : row'[j] = row[j]
    BY <2>1, <2>2, <2>5, ResourceTypes
  <2> HIDE DEF old, new
  <2>7. row' \in [RowIds -> RowRow]
    <3>1. row' = [j \in RowIds |-> row'[j]]
      BY <2>1, ResourceTypes
    <3>2. \A j \in RowIds : row'[j] \in RowRow
      BY <2>3, <2>4, <2>6, ResourceTypes
    <3> QED
      BY <3>1, <3>2
  <2>8. \A j \in RowIds : j <= rowCount => row'[j].kind = row[j].kind
    <3>1. \A j \in RowIds : j <= rowCount => j # n
      BY <2>5, ResourceNumbers DEF RowIds
    <3> QED
      BY <2>4, <2>6, <3>1
  <2>9. \A j \in RowIds : j > n => row'[j].kind = "none"
    <3>1. \A j \in RowIds : j > n => j # n /\ j > rowCount /\ j # i
      BY <1>2, <2>5, ResourceNumbers DEF RowIds
    <3> QED
      BY <2>6, <3>1 DEF ResourcesInv, RowShape
  <2>10. \A j \in RowIds : row'[j].kind = "key" => row'[j].parent \in RowIds
    BY <2>2, <2>3, <2>4, <2>6 DEF ResourcesInv, RowShape
  <2>11. ASSUME NEW k \in LimitedKinds, NEW m \in 0..MaxRows PROVE Rows(k, m)' \subseteq Rows(k, m)
    BY <2>2, <2>3, <2>4, <2>6 DEF Rows, LimitedKinds
  <2>12. rowCount' \in 0..MaxRows /\ rowCount' >= rowCount
    BY <2>1, ResourceNumbers
  <2> QED
    BY <1>1, <2>1, <2>5, <2>7, <2>8, <2>9, <2>10, <2>11, <2>12, MutatedKeeps
<1>4. CASE ~Exists(i)
  <2>1. Refused(c) /\ UNCHANGED <<rows_, audit_, mutations, failedOpen, resourceFaults>>
    BY <1>2, <1>4 DEF RotateAPIKey
  <2> QED
    BY <1>1, <2>1, RefusedKeeps
<1> QED
  BY <1>3, <1>4

\* Time passes for the keys.
LEMMA GraceKeeps ==
    ASSUME ResourcesInv, (\E i \in RowIds : GraceOver(i)) \/ CleanExpiredGracePeriodKeys
    PROVE  ResourcesInv'
<1>1. UNCHANGED <<rowCount, caller, auditLog, auditClock, unlogged, auditOverlap, mutations, failedOpen, resourceFaults>>
  BY DEF GraceOver, CleanExpiredGracePeriodKeys, audit_
<1>2. /\ row' \in [RowIds -> RowRow]
      /\ \A j \in RowIds : row'[j].kind = row[j].kind /\ row'[j].parent = row[j].parent
  <2>0. row \in [RowIds -> RowRow]
    BY ResourceTypes
  <2>1. ASSUME NEW i \in RowIds, row' = [row EXCEPT ![i].state = "over"]
        PROVE  /\ row' \in [RowIds -> RowRow]
               /\ \A j \in RowIds : row'[j].kind = row[j].kind /\ row'[j].parent = row[j].parent
    <3>1. row' = [row EXCEPT ![i] = [row[i] EXCEPT !.state = "over"]]
      BY <2>0, <2>1
    <3>2. /\ [row[i] EXCEPT !.state = "over"] \in RowRow
          /\ [row[i] EXCEPT !.state = "over"].kind = row[i].kind
          /\ [row[i] EXCEPT !.state = "over"].parent = row[i].parent
      BY <2>0 DEF RowRow
    <3> QED
      BY <3>1, <3>2, ColumnWritten
  <2>2. CASE CleanExpiredGracePeriodKeys
    <3>1. ASSUME NEW j \in RowIds
          PROVE  /\ [row[j] EXCEPT !.state = "revoked"] \in RowRow
                 /\ [row[j] EXCEPT !.state = "revoked"].kind = row[j].kind
                 /\ [row[j] EXCEPT !.state = "revoked"].parent = row[j].parent
      BY <2>0 DEF RowRow
    <3>2. row' = [i \in RowIds |-> IF row[i].state = "over" THEN [row[i] EXCEPT !.state = "revoked"] ELSE row[i]]
      BY <2>2 DEF CleanExpiredGracePeriodKeys
    <3> QED
      BY <2>0, <3>1, <3>2
  <2> QED
    BY <2>1, <2>2 DEF GraceOver
<1>3. ResourcesTypeOK'
  BY <1>1, <1>2 DEF ResourcesInv, ResourcesTypeOK, RowRow
<1>4. AuditAccounts' /\ AuditShape'
  BY <1>1, AuditKept DEF audit_
<1>5. RowShape'
  <2>1. ASSUME NEW c \in Callers, caller[c].pc = "apply", caller[c].op \in {"revoke", "rotate"}
        PROVE  caller[c].row \in 1..rowCount /\ row'[caller[c].row].kind \in {"key", "none"}
    <3>1. caller[c].row \in 1..rowCount /\ row[caller[c].row].kind \in {"key", "none"}
      BY <2>1 DEF ResourcesInv, RowShape
    <3>2. caller[c].row \in RowIds
      BY <3>1, ResourceNumbers DEF RowIds
    <3> QED
      BY <1>2, <3>1, <3>2
  <2> QED
    BY <1>1, <1>2, <2>1 DEF ResourcesInv, RowShape
<1>6. \A k \in LimitedKinds, i \in 0..MaxRows : Rows(k, i)' \subseteq Rows(k, i) /\ Passed(k, i)' \subseteq Passed(k, i)
  <2>1. \A k, i : Passed(k, i)' = Passed(k, i)
    BY <1>1 DEF Passed
  <2> QED
    BY <1>2, <2>1, FewerRows
<1>7. LimitOvershootBound'
  BY <1>1, <1>6, LimitKept, ResourceNumbers
<1> QED
  BY <1>3, <1>4, <1>5, <1>7 DEF ResourcesInv

\* A step of an audit entry: rows and limits are as they were.
LEMMA AuditStepKeeps ==
    ASSUME ResourcesInv, NEW c \in Callers, caller[c].pc \in {"begin", "insert"},
           caller'[c].pc # "apply", \A d \in Callers \ {c} : caller'[d] = caller[d],
           UNCHANGED <<rows_, failedOpen>>
    PROVE  RowShape' /\ LimitOvershootBound'
<1>1. RowShape'
  BY DEF ResourcesInv, RowShape, rows_
<1>2. \A k, i : Rows(k, i)' = Rows(k, i) /\ Passed(k, i)' \subseteq Passed(k, i)
  BY DEF Rows, Passed, rows_
<1> QED
  BY <1>1, <1>2, LimitKept, ResourceNumbers

LEMMA BeginKeeps ==
    ASSUME ResourcesInv, NEW c \in Callers, BeginAudit(c)
    PROVE  ResourcesInv'
<1> DEFINE newest == {i \in 1..Len(auditLog) : \A j \in 1..Len(auditLog) : auditLog[j].began <= auditLog[i].began}
           prev == IF newest = {} THEN 0 ELSE CHOOSE i \in newest : TRUE
           q == [caller[c] EXCEPT !.pc = "insert", !.began = auditClock', !.prev = prev]
<1>1. /\ caller[c].pc = "begin" /\ caller[c] \in CallerRow /\ auditClock' = auditClock + 1
      /\ caller' = [caller EXCEPT ![c].pc = "insert", ![c].began = auditClock', ![c].prev = prev]
      /\ auditOverlap' = (auditOverlap \/ \E d \in Callers : caller[d].pc = "insert")
      /\ UNCHANGED <<row, rowCount, auditLog, unlogged, mutations, failedOpen, resourceFaults>>
  BY ResourceTypes DEF BeginAudit, rows_
<1>2. prev \in 0..Len(auditLog) /\ prev \in 0..MaxMutations
  <2>1. prev = 0 \/ prev \in 1..Len(auditLog)
    OBVIOUS
  <2>2. \A p : p = 0 \/ p \in 1..Len(auditLog) => p \in 0..Len(auditLog) /\ p \in 0..MaxMutations
    BY ResourceTypes
  <2> QED
    BY <2>1, <2>2
<1>3. /\ Beginning' = Beginning \ {c} /\ c \in Beginning
      /\ Cardinality(Beginning') = Cardinality(Beginning) - 1 /\ Cardinality(Beginning') \in Nat
      /\ Cardinality(Beginning) \in Nat
  <2>1. Beginning' = Beginning \ {c} /\ c \in Beginning
    BY <1>1, ResourceTypes, SMTT(30) DEF Beginning, CallerRow
  <2> QED
    BY <2>1, DropCard, ResourceSetsFinite
<1>4. /\ auditClock' + Cardinality(Beginning') <= mutations /\ auditClock' \in 0..MaxMutations
      /\ auditClock' \in Nat
  <2>1. auditClock + Cardinality(Beginning) <= mutations /\ mutations <= MaxMutations
    BY ResourceTypes DEF ResourcesInv, AuditShape
  <2> QED
    BY <1>1, <1>3, <2>1, ResourceNumbers, SMTT(30)
<1>5. /\ q \in CallerRow /\ q.pc = "insert" /\ q.began = auditClock + 1 /\ q.prev = prev
      /\ q.change = caller[c].change
  BY <1>1, <1>2, <1>4 DEF CallerRow
<1>6. caller' = [caller EXCEPT ![c] = q]
  BY <1>1, ResourceTypes
<1> HIDE DEF q
<1>7. /\ caller' \in [Callers -> CallerRow] /\ caller'[c] = q
      /\ \A d \in Callers \ {c} : caller'[d] = caller[d]
  BY <1>5, <1>6, CallerMoves
<1>8. auditOverlap' \in BOOLEAN
  BY <1>1, Zenon
<1>9. ResourcesTypeOK'
  BY <1>1, <1>4, <1>7, <1>8 DEF ResourcesInv, ResourcesTypeOK, CallerRow
<1>10. RowShape' /\ LimitOvershootBound'
  <2>1. caller'[c].pc # "apply" /\ UNCHANGED <<rows_, failedOpen>>
    BY <1>1, <1>5, <1>7 DEF rows_
  <2> QED
    BY <1>1, <1>7, <2>1, AuditStepKeeps
<1>11. /\ Auditing' = Auditing /\ Auditing \subseteq Callers
       /\ \A d \in Auditing : caller'[d].change = caller[d].change
       /\ Logged' = Logged /\ Unlogged' = Unlogged
  <2>1. Auditing' = Auditing /\ Auditing \subseteq Callers
    BY <1>1, <1>5, <1>7 DEF Auditing
  <2> QED
    BY <1>1, <1>5, <1>7, <2>1 DEF Logged, Unlogged
<1>12. OpenChanges' = OpenChanges
  BY <1>11 DEF OpenChanges
<1>13. ~auditOverlap' => ~auditOverlap /\ \A d \in Callers : caller[d].pc # "insert"
  BY <1>1
<1>14. AuditAccounts'
  BY <1>1, <1>11, <1>12, <1>13 DEF ResourcesInv, AuditAccounts
<1>15. AuditShape'
  <2>1. \A d, e \in Auditing' : caller'[d].change = caller'[e].change => d = e
    BY <1>11 DEF ResourcesInv, AuditShape
  <2>2. \A d \in Auditing' : caller'[d].change \notin Unlogged'
    BY <1>11 DEF ResourcesInv, AuditShape
  <2>3. \A i \in 1..Len(auditLog) : auditLog[i].began <= auditClock /\ auditLog[i].began \in Nat
    <3>1. \A i \in 1..Len(auditLog) : auditLog[i] \in AuditRow
      BY ResourceTypes
    <3>2. \A i \in 1..Len(auditLog) : auditLog[i].began \in Nat
      BY <3>1, ResourceNumbers DEF AuditRow
    <3> QED
      BY <3>2 DEF ResourcesInv, AuditShape
  <2>4. \A i \in 1..Len(auditLog') : auditLog'[i].began <= auditClock' /\ auditLog'[i].began < auditClock + 1
    BY <1>1, <2>3, ResourceNumbers
  <2>5. ASSUME ~auditOverlap'
        PROVE  /\ \A d, e \in Callers : caller'[d].pc = "insert" /\ caller'[e].pc = "insert" => d = e
               /\ \A i, j \in 1..Len(auditLog') : i < j => auditLog'[i].began < auditLog'[j].began
               /\ \A d \in Callers : caller'[d].pc = "insert" =>
                     /\ caller'[d].prev = Len(auditLog')
                     /\ \A i \in 1..Len(auditLog') : auditLog'[i].began < caller'[d].began
    <3>1. \A d \in Callers : caller'[d].pc = "insert" => d = c
      BY <1>7, <1>13, <2>5
    <3>2. \A i, j \in 1..Len(auditLog) : i < j => auditLog[i].began < auditLog[j].began
      BY <1>13, <2>5 DEF ResourcesInv, AuditShape
    <3>3. prev = Len(auditLog)
      <4>1. CASE Len(auditLog) = 0
        BY <4>1
      <4>2. CASE Len(auditLog) # 0
        <5>1. Len(auditLog) \in 1..Len(auditLog)
          BY <4>2, ResourceTypes
        <5>2. \A i \in 1..Len(auditLog) : auditLog[i].began <= auditLog[Len(auditLog)].began
          <6> SUFFICES ASSUME NEW i \in 1..Len(auditLog)
                       PROVE  auditLog[i].began <= auditLog[Len(auditLog)].began
            OBVIOUS
          <6>1. Len(auditLog) \in Nat
            BY ResourceTypes
          <6>2. i = Len(auditLog) \/ i < Len(auditLog)
            BY <6>1
          <6>3. auditLog[i].began \in Nat /\ auditLog[Len(auditLog)].began \in Nat
            BY <2>3, <5>1
          <6>4. i < Len(auditLog) => auditLog[i].began < auditLog[Len(auditLog)].began
            BY <3>2, <5>1
          <6> QED
            BY <6>2, <6>3, <6>4
        <5>3. \A i \in newest : i = Len(auditLog)
          <6> SUFFICES ASSUME NEW i \in 1..Len(auditLog), i # Len(auditLog),
                              auditLog[Len(auditLog)].began <= auditLog[i].began
                       PROVE FALSE
            BY <5>1
          <6>1. i < Len(auditLog)
            BY ResourceTypes
          <6> QED
            BY <2>3, <3>2, <5>1, <6>1
        <5>4. newest = {Len(auditLog)}
          BY <5>1, <5>2, <5>3
        <5> QED
          BY <5>4
      <4> QED
        BY <4>1, <4>2
    <3>4. caller'[c].prev = Len(auditLog) /\ caller'[c].began = auditClock + 1
      BY <1>5, <1>7, <3>3
    <3> QED
      BY <1>1, <2>4, <3>1, <3>2, <3>4
  <2>6. ASSUME NEW d \in Callers, caller'[d].pc = "insert" PROVE caller'[d].began <= auditClock'
    <3>1. CASE d = c
      BY <1>1, <1>4, <1>5, <1>7, <3>1
    <3>2. CASE d # c
      <4>1. caller[d].began <= auditClock /\ caller[d].began \in Nat /\ caller'[d] = caller[d]
        <5>1. caller'[d] = caller[d] /\ caller[d] \in CallerRow
          BY <1>7, <3>2, ResourceTypes
        <5>2. caller[d].began <= auditClock
          BY <2>6, <5>1 DEF ResourcesInv, AuditShape
        <5>3. caller[d].began \in Nat
          BY <5>1, ResourceNumbers DEF CallerRow
        <5> QED
          BY <5>1, <5>2, <5>3
      <4> QED
        BY <1>1, <4>1, ResourceNumbers
    <3> QED
      BY <3>1, <3>2
  <2> QED
    BY <1>1, <1>4, <2>1, <2>2, <2>4, <2>5, <2>6 DEF AuditShape
<1> QED
  BY <1>9, <1>10, <1>14, <1>15 DEF ResourcesInv

\* An entry is no longer under way.
LEMMA EntryEnds ==
    ASSUME ResourcesInv, NEW c \in Callers, caller[c].pc \in {"begin", "insert"}, Refused(c),
           UNCHANGED <<rows_, mutations, auditClock, auditOverlap, failedOpen>>
    PROVE  /\ caller' \in [Callers -> CallerRow] /\ RowShape' /\ LimitOvershootBound'
           /\ Auditing' = Auditing \ {c} /\ c \in Auditing /\ Auditing \subseteq Callers
           /\ \A d \in Auditing' : caller'[d] = caller[d]
           /\ \A d \in Callers : caller'[d].pc = "insert" => d # c /\ caller'[d] = caller[d]
           /\ OpenChanges' = OpenChanges \ {caller[c].change}
           /\ caller[c].change \in OpenChanges /\ caller[c].change \notin Unlogged /\ caller[c].change \notin Logged
           /\ caller[c].change \in 1..mutations /\ caller[c].change \in 1..MaxMutations
           /\ auditClock' + Cardinality(Beginning') <= mutations'
<1>1. /\ caller' \in [Callers -> CallerRow] /\ caller'[c] = NoCaller
      /\ \A d \in Callers \ {c} : caller'[d] = caller[d]
  BY NoCallerRow, CallerMoves DEF Refused
<1>2. RowShape' /\ LimitOvershootBound'
  BY <1>1, NoCallerRow, AuditStepKeeps
<1>3. /\ Auditing' = Auditing \ {c} /\ c \in Auditing /\ Auditing \subseteq Callers
      /\ \A d \in Auditing' : caller'[d] = caller[d]
  BY <1>1, NoCallerRow DEF Auditing
<1>4. OpenChanges' = OpenChanges \ {caller[c].change} /\ caller[c].change \in OpenChanges
  <2>1. \A d \in Auditing \ {c} : caller[d].change # caller[c].change
    BY <1>3 DEF ResourcesInv, AuditShape
  <2>2. OpenChanges' = {caller[d].change : d \in Auditing \ {c}}
    BY <1>3 DEF OpenChanges
  <2> QED
    BY <1>3, <2>1, <2>2 DEF OpenChanges
<1>5. caller[c].change \notin Unlogged /\ caller[c].change \notin Logged
  BY <1>3, <1>4 DEF ResourcesInv, AuditShape, AuditAccounts
<1>6. caller[c].change \in 1..mutations /\ caller[c].change \in 1..MaxMutations
  <2>1. caller[c].change \in 1..mutations
    BY <1>4 DEF ResourcesInv, AuditAccounts
  <2> QED
    BY <2>1, ResourceTypes
<1>7. auditClock' + Cardinality(Beginning') <= mutations'
  <2>1. Beginning' \subseteq Beginning
    BY <1>1, NoCallerRow DEF Beginning
  <2>2. Cardinality(Beginning') <= Cardinality(Beginning) /\ Cardinality(Beginning') \in Nat /\ Cardinality(Beginning) \in Nat
    BY <2>1, SubsetCard, ResourceSetsFinite
  <2>3. auditClock + Cardinality(Beginning) <= mutations
    BY DEF ResourcesInv, AuditShape
  <2> QED
    BY <2>2, <2>3, ResourceNumbers
<1> QED
  BY <1>1, <1>2, <1>3, <1>4, <1>5, <1>6, <1>7, NoCallerRow

\* The entry is refused, or a statement of it fails.
LEMMA EntryLost ==
    ASSUME ResourcesInv, NEW c \in Callers, caller[c].pc \in {"begin", "insert"}, Refused(c),
           NEW why, unlogged' = unlogged \cup {<<caller[c].change, why>>},
           UNCHANGED <<rows_, mutations, auditLog, auditClock, auditOverlap, failedOpen>>,
           resourceFaults' = resourceFaults \/ ResourceFault
    PROVE  ResourcesInv'
<1> DEFINE x == caller[c].change
<1>1. /\ caller' \in [Callers -> CallerRow] /\ RowShape' /\ LimitOvershootBound'
      /\ Auditing' = Auditing \ {c} /\ c \in Auditing /\ Auditing \subseteq Callers
      /\ \A d \in Auditing' : caller'[d] = caller[d]
      /\ \A d \in Callers : caller'[d].pc = "insert" => d # c /\ caller'[d] = caller[d]
      /\ OpenChanges' = OpenChanges \ {x}
      /\ x \in OpenChanges /\ x \notin Unlogged /\ x \notin Logged
      /\ x \in 1..mutations
      /\ auditClock' + Cardinality(Beginning') <= mutations'
  BY EntryEnds
<1>2. Unlogged' = Unlogged \cup {x} /\ Logged' = Logged
  <2>1. <<x, why>>[1] = x
    OBVIOUS
  <2>2. Unlogged' = {u[1] : u \in unlogged} \cup {<<x, why>>[1]}
    BY DEF Unlogged
  <2> QED
    BY <2>1, <2>2 DEF Unlogged, Logged
<1>3. AuditAccounts'
  BY <1>1, <1>2 DEF ResourcesInv, AuditAccounts
<1>4. AuditShape'
  <2>1. \A d, e \in Auditing' : caller'[d].change = caller'[e].change => d = e
    BY <1>1 DEF ResourcesInv, AuditShape
  <2>2. \A d \in Auditing' : caller'[d].change \notin Unlogged'
    BY <1>1, <1>2 DEF ResourcesInv, AuditShape
  <2>3. ~auditOverlap =>
          /\ \A d, e \in Callers : caller'[d].pc = "insert" /\ caller'[e].pc = "insert" => d = e
          /\ \A d \in Callers : caller'[d].pc = "insert" =>
                /\ caller'[d].prev = Len(auditLog)
                /\ \A i \in 1..Len(auditLog) : auditLog[i].began < caller'[d].began
    BY <1>1 DEF ResourcesInv, AuditShape
  <2>4. \A d \in Callers : caller'[d].pc = "insert" => caller'[d].began <= auditClock
    BY <1>1 DEF ResourcesInv, AuditShape
  <2> QED
    BY <1>1, <2>1, <2>2, <2>3, <2>4 DEF ResourcesInv, AuditShape
<1>5. resourceFaults' \in 0..MaxResourceFaults /\ failedOpen' \in 0..resourceFaults'
  BY ResourceTypes DEF ResourceFault
<1>6. ResourcesTypeOK'
  BY <1>1, <1>5 DEF ResourcesInv, ResourcesTypeOK, CallerRow, rows_
<1> QED
  BY <1>1, <1>3, <1>4, <1>6 DEF ResourcesInv

\* The entry is written.
LEMMA EntryWritten ==
    ASSUME ResourcesInv, NEW c \in Callers, InsertAudit(c), Exists(caller[c].project)
    PROVE  ResourcesInv'
<1> DEFINE x == caller[c].change
           e == [change |-> x, prev |-> caller[c].prev, began |-> caller[c].began]
           n == Len(auditLog)
<1>1. /\ caller[c].pc = "insert" /\ Refused(c) /\ auditLog' = Append(auditLog, e)
      /\ UNCHANGED <<rows_, auditClock, unlogged, auditOverlap, mutations, failedOpen, resourceFaults>>
  BY DEF InsertAudit
<1>2. /\ caller' \in [Callers -> CallerRow] /\ RowShape' /\ LimitOvershootBound'
      /\ Auditing' = Auditing \ {c} /\ c \in Auditing /\ Auditing \subseteq Callers
      /\ \A d \in Auditing' : caller'[d] = caller[d]
      /\ \A d \in Callers : caller'[d].pc = "insert" => d # c /\ caller'[d] = caller[d]
      /\ OpenChanges' = OpenChanges \ {x}
      /\ x \in OpenChanges /\ x \notin Unlogged /\ x \notin Logged
      /\ x \in 1..mutations /\ x \in 1..MaxMutations
      /\ auditClock' + Cardinality(Beginning') <= mutations'
  BY <1>1, EntryEnds
<1>3. e \in AuditRow /\ e.change = x /\ e.began = caller[c].began /\ e.prev = caller[c].prev
  <2>1. caller[c] \in CallerRow
    BY ResourceTypes
  <2> QED
    BY <1>2, <2>1 DEF AuditRow, CallerRow
<1> HIDE DEF e
<1>4. /\ auditLog' \in Seq(AuditRow) /\ Len(auditLog') = n + 1 /\ auditLog'[n + 1] = e
      /\ \A i \in 1..n : auditLog'[i] = auditLog[i]
      /\ n \in Nat
  BY <1>1, <1>3, ResourceTypes
<1> HIDE DEF n, x
<1>5. Logged = {auditLog[i].change : i \in 1..n} /\ Logged' = {auditLog'[i].change : i \in 1..(n + 1)}
  BY <1>4 DEF Logged, n
<1>6. \A i \in 1..(n + 1) : i \in 1..n \/ i = n + 1
  BY <1>4
<1>7. 1..n \subseteq 1..(n + 1) /\ n + 1 \in 1..(n + 1)
  BY <1>4
<1>8. Logged' = Logged \cup {x} /\ Unlogged' = Unlogged
  <2>1. Logged' \subseteq Logged \cup {x}
    BY <1>3, <1>4, <1>5, <1>6
  <2>2. Logged \subseteq Logged'
    BY <1>4, <1>5, <1>7
  <2>3. x \in Logged'
    BY <1>3, <1>4, <1>5, <1>7
  <2>4. Unlogged' = Unlogged
    BY <1>1 DEF Unlogged
  <2> QED
    BY <2>1, <2>2, <2>3, <2>4
<1>9. Cardinality(Logged') = n + 1 /\ n + 1 <= mutations
  <2>1. Logged \subseteq 1..mutations /\ Logged' \subseteq 1..mutations
    BY <1>2, <1>8 DEF ResourcesInv, AuditAccounts
  <2>2. IsFiniteSet(1..mutations) /\ Cardinality(1..mutations) = mutations
    <3>1. mutations \in Int /\ 1 \in Int /\ mutations >= 0
      BY ResourceNumbers
    <3>2. IsFiniteSet(1..mutations) /\ Cardinality(1..mutations) = IF 1 > mutations THEN 0 ELSE mutations - 1 + 1
      BY <3>1, FS_Interval
    <3> QED
      BY <3>1, <3>2
  <2>3. IsFiniteSet(Logged) /\ Cardinality(Logged) = n
    BY <2>1, <2>2, SubsetCard DEF ResourcesInv, AuditAccounts, n
  <2>4. Cardinality(Logged') = n + 1
    BY <1>2, <1>8, <2>3, AddCard
  <2>5. Cardinality(Logged') <= Cardinality(1..mutations)
    BY <2>1, <2>2, SubsetCard
  <2> QED
    BY <2>2, <2>4, <2>5
<1>10. ~auditOverlap => caller[c].prev = n /\ \A i \in 1..n : auditLog[i].began < caller[c].began
  BY <1>1 DEF ResourcesInv, AuditShape, n
<1>11. AuditAccounts'
  <2>1. 1..mutations' = Logged' \cup OpenChanges' \cup Unlogged'
    BY <1>1, <1>2, <1>8 DEF ResourcesInv, AuditAccounts
  <2>2. Logged' \cap (OpenChanges' \cup Unlogged') = {}
    BY <1>2, <1>8 DEF ResourcesInv, AuditAccounts
  <2>3. ASSUME ~auditOverlap, NEW i \in 1..(n + 1) PROVE auditLog'[i].prev = i - 1
    <3>1. CASE i = n + 1
      BY <1>3, <1>4, <1>10, <2>3, <3>1
    <3>2. CASE i \in 1..n
      <4>1. auditLog[i].prev = i - 1
        BY <2>3, <3>2 DEF ResourcesInv, AuditAccounts, n
      <4> QED
        BY <1>4, <3>2, <4>1
    <3> QED
      BY <1>6, <3>1, <3>2
  <2> QED
    BY <1>1, <1>4, <1>9, <2>1, <2>2, <2>3 DEF AuditAccounts
<1>12. AuditShape'
  <2>1. \A d, f \in Auditing' : caller'[d].change = caller'[f].change => d = f
    BY <1>2 DEF ResourcesInv, AuditShape
  <2>2. \A d \in Auditing' : caller'[d].change \notin Unlogged'
    BY <1>2, <1>8 DEF ResourcesInv, AuditShape
  <2>3. \A d \in Callers : caller'[d].pc = "insert" => caller'[d].began <= auditClock'
    BY <1>1, <1>2 DEF ResourcesInv, AuditShape
  <2>4. \A i \in 1..(n + 1) : auditLog'[i].began <= auditClock'
    <3>1. \A i \in 1..n : auditLog[i].began <= auditClock
      BY DEF ResourcesInv, AuditShape, n
    <3>2. caller[c].began <= auditClock
      BY <1>1 DEF ResourcesInv, AuditShape
    <3> QED
      BY <1>1, <1>3, <1>4, <1>6, <3>1, <3>2
  <2>5. ASSUME ~auditOverlap
        PROVE  /\ \A d \in Callers : caller'[d].pc # "insert"
               /\ \A i, j \in 1..(n + 1) : i < j => auditLog'[i].began < auditLog'[j].began
    <3>1. \A d \in Callers : caller'[d].pc # "insert"
      BY <1>1, <1>2, <2>5 DEF ResourcesInv, AuditShape
    <3>2. \A i, j \in 1..n : i < j => auditLog[i].began < auditLog[j].began
      BY <2>5 DEF ResourcesInv, AuditShape, n
    <3>3. ASSUME NEW i \in 1..(n + 1), NEW j \in 1..(n + 1), i < j
          PROVE auditLog'[i].began < auditLog'[j].began
      <4>1. i \in 1..n
        BY <1>4, <3>3
      <4>2. CASE j \in 1..n
        BY <1>4, <3>2, <3>3, <4>1, <4>2
      <4>3. CASE j = n + 1
        BY <1>3, <1>4, <1>10, <2>5, <4>1, <4>3
      <4> QED
        BY <1>6, <4>2, <4>3
    <3> QED
      BY <3>1, <3>3
  <2> QED
    BY <1>1, <1>2, <1>4, <2>1, <2>2, <2>3, <2>4, <2>5 DEF AuditShape
<1>13. ResourcesTypeOK'
  BY <1>1, <1>2, <1>4, <1>9 DEF ResourcesInv, ResourcesTypeOK, CallerRow, AuditRow, rows_
<1> QED
  BY <1>2, <1>11, <1>12, <1>13 DEF ResourcesInv

LEMMA AuditKeeps ==
    ASSUME ResourcesInv, NEW c \in Callers, InsertAudit(c) \/ AuditFails(c)
    PROVE  ResourcesInv'
<1>1. CASE InsertAudit(c) /\ Exists(caller[c].project)
  BY <1>1, EntryWritten
<1>2. CASE InsertAudit(c) /\ ~Exists(caller[c].project)
  <2>1. /\ caller[c].pc = "insert" /\ Refused(c)
        /\ unlogged' = unlogged \cup {<<caller[c].change, "project gone">>}
        /\ UNCHANGED <<rows_, mutations, auditLog, auditClock, auditOverlap, failedOpen, resourceFaults>>
    BY <1>2 DEF InsertAudit
  <2> QED
    BY <2>1, EntryLost
<1>3. CASE AuditFails(c)
  <2>1. /\ caller[c].pc \in {"begin", "insert"} /\ Refused(c) /\ ResourceFault
        /\ unlogged' = unlogged \cup {<<caller[c].change, "fault">>}
        /\ UNCHANGED <<rows_, mutations, auditLog, auditClock, auditOverlap, failedOpen>>
    BY <1>3 DEF AuditFails
  <2> QED
    BY <2>1, EntryLost
<1> QED
  BY <1>1, <1>2, <1>3

LEMMA ArrivesKeeps ==
    ASSUME ResourcesInv, NEW c \in Callers, Arrives(c)
    PROVE  ResourcesInv'
<1>0. /\ RowKinds = {"project", "environment", "segment", "key"}
      /\ 0 \in 0..MaxRows /\ RowIds \subseteq 0..MaxRows /\ \A i \in RowIds : row[i].name \in Names \cup {0}
  <2>1. \A i \in RowIds : row[i] \in RowRow
    BY ResourceTypes
  <2>2. RowKinds = {"project", "environment", "segment", "key"}
    BY DEF RowKinds, ParentKind
  <2> QED
    BY <2>1, <2>2, ResourceNumbers DEF RowRow
<1>1. ASSUME NEW name \in Names, ProjectCreate(c, name) PROVE ResourcesInv'
  BY <1>0, <1>1, AskKeeps DEF ProjectCreate, LimitedKinds
<1>2. ASSUME NEW i \in RowIds, NEW name \in Names, EnvironmentCreate(c, i, name) PROVE ResourcesInv'
  BY <1>0, <1>2, AskKeeps DEF EnvironmentCreate, LimitedKinds
<1>3. ASSUME NEW i \in RowIds, NEW name \in Names, SegmentCreate(c, i, name) PROVE ResourcesInv'
  BY <1>0, <1>3, AskKeeps DEF SegmentCreate, LimitedKinds
<1>4. ASSUME NEW i \in RowIds, NEW name \in Names, ProjectUpdate(c, i, name) PROVE ResourcesInv'
  BY <1>0, <1>4, AskKeeps DEF ProjectUpdate
<1>5. ASSUME NEW i \in RowIds, NEW name \in Names, EnvironmentUpdate(c, i, name) PROVE ResourcesInv'
  BY <1>0, <1>5, AskKeeps DEF EnvironmentUpdate
<1>6. ASSUME NEW i \in RowIds, SegmentUpdate(c, i) PROVE ResourcesInv'
  BY <1>0, <1>6, AskKeeps DEF SegmentUpdate
<1>7. ASSUME NEW i \in RowIds, APIKeyCreate(c, i) PROVE ResourcesInv'
  BY <1>0, <1>7, AskKeeps DEF APIKeyCreate, LimitedKinds
<1>8. ASSUME NEW i \in RowIds, ProjectDelete(c, i) PROVE ResourcesInv'
  BY <1>0, <1>8, AskKeeps DEF ProjectDelete
<1>9. ASSUME NEW i \in RowIds, EnvironmentDelete(c, i) PROVE ResourcesInv'
  BY <1>0, <1>9, AskKeeps DEF EnvironmentDelete
<1>10. ASSUME NEW i \in RowIds, SegmentDelete(c, i) PROVE ResourcesInv'
  BY <1>0, <1>10, AskKeeps DEF SegmentDelete
<1>11. ASSUME NEW i \in RowIds, APIKeyRevoke(c, i) PROVE ResourcesInv'
  BY <1>0, <1>11, AskKeeps DEF APIKeyRevoke
<1>12. ASSUME NEW i \in RowIds, APIKeyRotate(c, i) PROVE ResourcesInv'
  BY <1>0, <1>12, AskKeeps DEF APIKeyRotate
<1> QED
  BY <1>1, <1>2, <1>3, <1>4, <1>5, <1>6, <1>7, <1>8, <1>9, <1>10, <1>11, <1>12 DEF Arrives

LEMMA ResourcesKeep == ResourcesInv /\ [ResourcesNext]_resourceVars => ResourcesInv'
<1> SUFFICES ASSUME ResourcesInv, [ResourcesNext]_resourceVars PROVE ResourcesInv'
  OBVIOUS
<1>1. ASSUME NEW c \in Callers, ApplyFails(c) PROVE ResourcesInv'
  BY <1>1, RefusedKeeps DEF ApplyFails
<1>2. CASE UNCHANGED resourceVars
  <2>1. UNCHANGED <<row, rowCount, caller, auditLog, auditClock, mutations, unlogged, auditOverlap, failedOpen, resourceFaults>>
    BY <1>2 DEF resourceVars
  <2>2. AuditAccounts' /\ AuditShape'
    BY <2>1, AuditKept DEF audit_
  <2>3. \A k, i : Rows(k, i)' = Rows(k, i) /\ Passed(k, i)' = Passed(k, i)
    BY <2>1 DEF Rows, Passed
  <2>4. LimitOvershootBound'
    BY <2>1, <2>3, LimitKept, ResourceNumbers
  <2>5. ResourcesTypeOK' /\ RowShape'
    BY <2>1 DEF ResourcesInv, ResourcesTypeOK, RowShape
  <2> QED
    BY <2>2, <2>4, <2>5 DEF ResourcesInv
<1> QED
  BY <1>1, <1>2, ArrivesKeeps, InsertRowKeeps, ChangeKeepsRows, RotateKeeps, GraceKeeps, BeginKeeps, AuditKeeps
     DEF ResourcesNext

\* The invariant of the resources (handlers of projects, environments, segments and
\* keys; middleware/tier.go; CreateAuditEntry) holds for any number of requests and
\* rows, whichever statements fail.
THEOREM ResourcesInductive == ResourcesSpec => []ResourcesInv
BY InitResourcesInv, ResourcesKeep, PTL DEF ResourcesSpec

\* A plan's limit is overrun by no more than the creates in flight and the checks that
\* failed open (middleware/tier.go), never by a sequence of requests.
THEOREM LimitIsOverrunByFew == ResourcesSpec => []LimitOvershootBound
<1>1. ResourcesInv => LimitOvershootBound
  BY DEF ResourcesInv
<1> QED
  BY <1>1, ResourcesInductive, PTL

\* Every change of a resource is in the audit log once, about to be, or lost for a
\* reason that is named; entries written one at a time form one chain
\* (Store.CreateAuditEntry).
THEOREM ChangesAreAccountedFor == ResourcesSpec => []AuditAccounts
<1>1. ResourcesInv => AuditAccounts
  BY DEF ResourcesInv
<1> QED
  BY <1>1, ResourcesInductive, PTL

-----------------------------------------------------------------------------
(***************************************************************************)
(* The history of a flag.                                                   *)
(***************************************************************************)
VersionRow == [config : Configs, before : Configs, label : 0..MaxVersions]
RollbackRow == [pc : {"idle", "write", "label"}, to : 0..MaxVersions, config : Configs]

LEMMA VersionTypes ==
    ASSUME FlagVersionsInv
    PROVE  /\ flagConfig \in Configs /\ versions \in Seq(VersionRow) /\ Len(versions) \in Nat
           /\ Len(versions) <= MaxVersions /\ MaxVersions \in Nat
           /\ rollback \in [Rollbacks -> RollbackRow] /\ blurred \in BOOLEAN
           /\ DOMAIN versions = 1..Len(versions)
           /\ \A i \in DOMAIN versions : versions[i] \in VersionRow
<1>1. versions \in Seq(VersionRow)
  BY DEF FlagVersionsInv, FlagVersionsTypeOK, VersionRow
<1> QED
  BY <1>1, FlagVersionsAssumption DEF FlagVersionsInv, FlagVersionsTypeOK, RollbackRow, FlagVersionsAssumption

LEMMA InitVersions == FlagVersionsInit => FlagVersionsInv
<1> SUFFICES ASSUME FlagVersionsInit PROVE FlagVersionsInv
  OBVIOUS
<1>1. /\ flagConfig \in Configs /\ versions = <<>> /\ blurred = FALSE
      /\ rollback = [c \in Rollbacks |-> NoRollback(flagConfig)]
  BY DEF FlagVersionsInit
<1>2. NoRollback(flagConfig) \in RollbackRow /\ NoRollback(flagConfig).pc = "idle"
  BY <1>1, FlagVersionsAssumption DEF NoRollback, RollbackRow, FlagVersionsAssumption
<1>3. rollback \in [Rollbacks -> RollbackRow] /\ \A c \in Rollbacks : rollback[c].pc = "idle"
  BY <1>1, <1>2
<1>4. versions \in Seq(VersionRow) /\ Len(versions) = 0 /\ DOMAIN versions = {}
  BY <1>1
<1>5. blurred \in BOOLEAN
  BY <1>1
<1>6. FlagVersionsTypeOK
  BY <1>1, <1>3, <1>4, <1>5, FlagVersionsAssumption
     DEF FlagVersionsTypeOK, VersionRow, RollbackRow, FlagVersionsAssumption
<1>7. HistoryFaithful
  BY <1>1, <1>4 DEF HistoryFaithful
<1>8. RollbackShape
  BY <1>3, <1>4 DEF RollbackShape
<1> QED
  BY <1>6, <1>7, <1>8 DEF FlagVersionsInv

\* The row is updated, and its version with it.
LEMMA UpdateRowKeeps ==
    ASSUME FlagVersionsInv, NEW cfg \in Configs, UpdateFlagRow(cfg),
           rollback' \in [Rollbacks -> RollbackRow],
           \A c \in Rollbacks :
              \/ rollback'[c] = rollback[c]
              \/ /\ rollback[c].pc = "write" /\ rollback'[c].pc = "label" /\ rollback'[c].to = rollback[c].to
                 /\ rollback'[c].config = rollback[c].config /\ cfg = Restored(rollback[c].config)
    PROVE  FlagVersionsInv'
<1> DEFINE n == Len(versions)
           v == [config |-> cfg, before |-> flagConfig, label |-> 0]
<1>1. /\ n < MaxVersions /\ flagConfig' = cfg /\ versions' = Append(versions, v)
      /\ blurred' = (blurred \/ \E c \in Rollbacks : rollback[c].pc = "label")
  BY DEF UpdateFlagRow
<1>2. v \in VersionRow /\ v.config = cfg /\ v.before = flagConfig /\ v.label = 0
  BY VersionTypes DEF VersionRow
<1> HIDE DEF v
<1>3. /\ versions' \in Seq(VersionRow) /\ Len(versions') = n + 1 /\ versions'[n + 1] = v
      /\ \A i \in 1..n : versions'[i] = versions[i]
      /\ DOMAIN versions' = 1..(n + 1) /\ n \in Nat /\ DOMAIN versions = 1..n
  BY <1>1, <1>2, VersionTypes
<1>4. blurred' \in BOOLEAN /\ (~blurred' => ~blurred /\ \A c \in Rollbacks : rollback[c].pc # "label")
  BY <1>1, Zenon
<1> HIDE DEF n
<1>5. FlagVersionsTypeOK'
  BY <1>1, <1>3, <1>4, VersionTypes DEF FlagVersionsTypeOK, VersionRow, RollbackRow
<1>6. \A i \in 1..(n + 1) : i \in 1..n \/ i = n + 1
  BY <1>3
<1>7. n # 0 => flagConfig = versions[n].config
  BY VersionTypes, <1>3 DEF FlagVersionsInv, HistoryFaithful, n
<1>8. \A i \in 1..n : /\ versions[i].label <= n /\ versions[i].label \in Nat
  <2>1. \A i \in 1..n : versions[i] \in VersionRow
    BY <1>3, VersionTypes
  <2> QED
    BY <1>3, <2>1, VersionTypes DEF FlagVersionsInv, RollbackShape, VersionRow, n
<1>9. HistoryFaithful'
  <2>1. flagConfig' = versions'[Len(versions')].config
    BY <1>1, <1>2, <1>3
  <2>2. \A i \in 2..(n + 1) : versions'[i].before = versions'[i - 1].config
    <3> SUFFICES ASSUME NEW i \in 2..(n + 1) PROVE versions'[i].before = versions'[i - 1].config
      OBVIOUS
    <3>1. CASE i = n + 1
      <4>1. n # 0 /\ n \in 1..n /\ i - 1 = n
        BY <1>3, <3>1
      <4> QED
        BY <1>2, <1>3, <1>7, <3>1, <4>1
    <3>2. CASE i \in 2..n
      <4>1. i \in 1..n /\ i - 1 \in 1..n
        BY <1>3, <3>2
      <4>2. versions[i].before = versions[i - 1].config
        BY <3>2 DEF FlagVersionsInv, HistoryFaithful, n
      <4> QED
        BY <1>3, <4>1, <4>2
    <3> QED
      BY <1>3, <3>1, <3>2
  <2>3. ASSUME ~blurred', NEW i \in 1..(n + 1), versions'[i].label # 0
        PROVE  RolledBack(versions'[i].config, versions'[versions'[i].label].config)
    <3>1. i \in 1..n
      BY <1>2, <1>3, <1>6, <2>3
    <3>2. versions'[i] = versions[i] /\ versions[i].label \in 1..n
      BY <1>3, <1>8, <2>3, <3>1
    <3>3. RolledBack(versions[i].config, versions[versions[i].label].config)
      BY <1>3, <1>4, <2>3, <3>1, <3>2 DEF FlagVersionsInv, HistoryFaithful
    <3> QED
      BY <1>3, <3>2, <3>3
  <2> QED
    BY <1>3, <2>1, <2>2, <2>3 DEF HistoryFaithful
<1>10. RollbackShape'
  <2>1. \A i \in 1..(n + 1) : versions'[i].label <= n + 1
    BY <1>2, <1>3, <1>6, <1>8
  <2>2. ASSUME NEW c \in Rollbacks, rollback'[c].pc # "idle"
        PROVE  /\ rollback'[c].to \in 1..(n + 1) /\ versions'[rollback'[c].to].config = rollback'[c].config
               /\ rollback'[c].config.default \in Texts
    <3>1. /\ rollback[c].pc # "idle" /\ rollback'[c].to = rollback[c].to
          /\ rollback'[c].config = rollback[c].config
      BY <2>2
    <3>2. /\ rollback[c].to \in 1..n /\ versions[rollback[c].to].config = rollback[c].config
          /\ rollback[c].config.default \in Texts
      BY <1>3, <3>1 DEF FlagVersionsInv, RollbackShape
    <3> QED
      BY <1>3, <3>1, <3>2
  <2>3. ASSUME ~blurred', NEW c \in Rollbacks, rollback'[c].pc = "label"
        PROVE  flagConfig' = Restored(rollback'[c].config)
    BY <1>1, <1>4, <2>3
  <2> QED
    BY <1>3, <2>1, <2>2, <2>3 DEF RollbackShape
<1> QED
  BY <1>5, <1>9, <1>10 DEF FlagVersionsInv

\* A rollback reads, or ends, without a write.
LEMMA RollbackReadKeeps ==
    ASSUME FlagVersionsInv, UNCHANGED <<flagConfig, versions, blurred>>,
           rollback' \in [Rollbacks -> RollbackRow],
           \A c \in Rollbacks :
              \/ rollback'[c] = rollback[c]
              \/ rollback'[c].pc = "idle"
              \/ /\ rollback'[c].pc = "write" /\ rollback'[c].to \in DOMAIN versions
                 /\ versions[rollback'[c].to].config = rollback'[c].config
                 /\ rollback'[c].config.default \in Texts
    PROVE  FlagVersionsInv'
<1>1. FlagVersionsTypeOK'
  BY DEF FlagVersionsInv, FlagVersionsTypeOK, RollbackRow
<1>2. HistoryFaithful'
  BY DEF FlagVersionsInv, HistoryFaithful
<1>3. RollbackShape'
  <2>1. \A c \in Rollbacks : rollback'[c].pc # "idle" =>
          /\ rollback'[c].to \in DOMAIN versions /\ versions[rollback'[c].to].config = rollback'[c].config
          /\ rollback'[c].config.default \in Texts
    BY DEF FlagVersionsInv, RollbackShape
  <2>2. ~blurred => \A c \in Rollbacks : rollback'[c].pc = "label" => flagConfig = Restored(rollback'[c].config)
    BY DEF FlagVersionsInv, RollbackShape
  <2> QED
    BY <2>1, <2>2 DEF FlagVersionsInv, RollbackShape
<1> QED
  BY <1>1, <1>2, <1>3 DEF FlagVersionsInv

\* A function from 1 to n is a sequence of length n.
LEMMA LabelSeq ==
    ASSUME NEW S, NEW m \in Nat, NEW s \in [1..m -> S]
    PROVE  s \in Seq(S) /\ Len(s) = m
OBVIOUS

LEMMA LabelKeeps ==
    ASSUME FlagVersionsInv, NEW c \in Rollbacks, UpdateVersionMetadata(c)
    PROVE  FlagVersionsInv'
<1> DEFINE n == Len(versions)
           to == rollback[c].to
           w == [versions[n] EXCEPT !.label = to]
<1>0. /\ rollback[c].pc = "label" /\ rollback[c] \in RollbackRow
      /\ versions' = [versions EXCEPT ![n].label = to]
      /\ rollback' = [rollback EXCEPT ![c] = NoRollback(rollback[c].config)]
      /\ flagConfig' = flagConfig /\ blurred' = blurred
  BY VersionTypes DEF UpdateVersionMetadata
<1>1. /\ to \in 1..n /\ versions[to].config = rollback[c].config /\ rollback[c].config.default \in Texts
      /\ n \in Nat /\ n # 0 /\ n \in 1..n
  BY <1>0, VersionTypes DEF FlagVersionsInv, RollbackShape
<1>2. versions[n] \in VersionRow /\ to \in 0..MaxVersions /\ DOMAIN versions = 1..n
  BY <1>0, <1>1, VersionTypes DEF RollbackRow
<1>3. w \in VersionRow /\ w.label = to /\ w.config = versions[n].config /\ w.before = versions[n].before
  BY <1>2 DEF VersionRow
<1>4. versions' = [versions EXCEPT ![n] = w]
  BY <1>0, <1>1, <1>2
<1> HIDE DEF w
<1>5. /\ versions' \in Seq(VersionRow) /\ Len(versions') = n /\ DOMAIN versions' = 1..n
      /\ versions'[n] = w /\ \A i \in 1..n : i # n => versions'[i] = versions[i]
  <2>1. versions \in [1..n -> VersionRow] /\ n \in Nat
    <3>1. versions \in Seq(VersionRow)
      BY VersionTypes
    <3> QED
      BY <3>1
  <2> HIDE DEF n
  <2>2. versions' \in [1..n -> VersionRow]
    BY <1>3, <1>4, <2>1
  <2>3. versions' \in Seq(VersionRow) /\ Len(versions') = n
    BY <2>1, <2>2, LabelSeq
  <2>4. versions'[n] = w /\ \A i \in 1..n : i # n => versions'[i] = versions[i]
    BY <1>1, <1>4, <2>1
  <2> QED
    BY <2>2, <2>3, <2>4
<1>6. /\ rollback' \in [Rollbacks -> RollbackRow] /\ rollback'[c].pc = "idle"
      /\ \A d \in Rollbacks \ {c} : rollback'[d] = rollback[d]
  BY <1>0, VersionTypes DEF NoRollback, RollbackRow
<1>7. \A i \in 1..n : versions'[i].config = versions[i].config /\ versions'[i].before = versions[i].before
  BY <1>3, <1>5
<1> HIDE DEF n, to
<1>8. FlagVersionsTypeOK'
  BY <1>0, <1>5, <1>6, VersionTypes DEF FlagVersionsTypeOK, VersionRow, RollbackRow, n
<1>9. HistoryFaithful'
  <2>1. flagConfig' = versions'[n].config
    BY <1>0, <1>1, <1>7 DEF FlagVersionsInv, HistoryFaithful, n
  <2>2. \A i \in 2..n : versions'[i].before = versions'[i - 1].config
    <3> SUFFICES ASSUME NEW i \in 2..n PROVE versions'[i].before = versions'[i - 1].config
      OBVIOUS
    <3>1. i \in 1..n /\ i - 1 \in 1..n
      BY <1>1
    <3>2. versions[i].before = versions[i - 1].config
      BY DEF FlagVersionsInv, HistoryFaithful, n
    <3> QED
      BY <1>7, <3>1, <3>2
  <2>3. ASSUME ~blurred, NEW i \in 1..n, versions'[i].label # 0
        PROVE  RolledBack(versions'[i].config, versions'[versions'[i].label].config)
    <3>1. CASE i = n
      <4>1. flagConfig = versions[n].config
        BY <1>1 DEF FlagVersionsInv, HistoryFaithful, n
      <4>2. flagConfig = Restored(rollback[c].config)
        BY <1>0, <2>3 DEF FlagVersionsInv, RollbackShape
      <4>3. RolledBack(versions[n].config, versions[to].config)
        BY <1>1, <4>1, <4>2, FlagVersionsAssumption DEF RolledBack, Restored, FlagVersionsAssumption
      <4> QED
        BY <1>1, <1>3, <1>5, <1>7, <3>1, <4>3
    <3>2. CASE i # n
      <4>1. versions'[i] = versions[i] /\ versions[i] \in VersionRow
        BY <1>2, <1>5, <3>2, VersionTypes
      <4>2. versions[i].label \in 1..n
        <5>1. versions[i].label \in Nat /\ versions[i].label <= n
          BY <1>2, <4>1, VersionTypes DEF FlagVersionsInv, RollbackShape, VersionRow, n
        <5> QED
          BY <1>1, <2>3, <4>1, <5>1
      <4>3. RolledBack(versions[i].config, versions[versions[i].label].config)
        BY <1>2, <2>3, <4>1 DEF FlagVersionsInv, HistoryFaithful
      <4> QED
        BY <1>7, <4>1, <4>2, <4>3
    <3> QED
      BY <3>1, <3>2
  <2> QED
    BY <1>0, <1>5, <2>1, <2>2, <2>3 DEF HistoryFaithful
<1>10. RollbackShape'
  <2>1. ASSUME NEW i \in 1..n PROVE versions'[i].label <= n
    <3>1. CASE i = n
      BY <1>1, <1>3, <1>5, <3>1
    <3>2. CASE i # n
      BY <1>2, <1>5, <3>2 DEF FlagVersionsInv, RollbackShape, n
    <3> QED
      BY <3>1, <3>2
  <2>2. \A d \in Rollbacks : rollback'[d].pc # "idle" =>
           /\ rollback'[d].to \in 1..n /\ versions'[rollback'[d].to].config = rollback'[d].config
           /\ rollback'[d].config.default \in Texts
    BY <1>2, <1>6, <1>7 DEF FlagVersionsInv, RollbackShape
  <2>3. ~blurred => \A d \in Rollbacks : rollback'[d].pc = "label" => flagConfig = Restored(rollback'[d].config)
    BY <1>6 DEF FlagVersionsInv, RollbackShape
  <2> QED
    BY <1>0, <1>5, <2>1, <2>2, <2>3 DEF RollbackShape
<1> QED
  BY <1>8, <1>9, <1>10 DEF FlagVersionsInv

LEMMA VersionsKeep == FlagVersionsInv /\ [FlagVersionsNext]_versionVars => FlagVersionsInv'
<1> SUFFICES ASSUME FlagVersionsInv, [FlagVersionsNext]_versionVars PROVE FlagVersionsInv'
  OBVIOUS
<1>0. rollback \in [Rollbacks -> RollbackRow]
  BY VersionTypes
<1>1. ASSUME NEW cfg \in Configs, EditFlag(cfg) PROVE FlagVersionsInv'
  BY <1>0, <1>1, UpdateRowKeeps DEF EditFlag
<1>2. ASSUME NEW c \in Rollbacks, NEW v \in VersionIds, Rollback(c, v) PROVE FlagVersionsInv'
  <2> DEFINE q == [pc |-> "write", to |-> v, config |-> versions[v].config]
  <2>1. /\ v \in DOMAIN versions /\ versions[v].config.default \in Texts
        /\ rollback' = [rollback EXCEPT ![c] = q]
        /\ UNCHANGED <<flagConfig, versions, blurred>>
    BY <1>2 DEF Rollback
  <2>2. q \in RollbackRow /\ q.pc = "write" /\ q.to = v /\ q.config = versions[v].config
    <3>1. versions[v] \in VersionRow
      BY <2>1, VersionTypes
    <3> QED
      BY <3>1, VersionTypes DEF RollbackRow, VersionRow, VersionIds
  <2> HIDE DEF q
  <2>3. /\ rollback' \in [Rollbacks -> RollbackRow]
        /\ \A d \in Rollbacks : rollback'[d] = IF d = c THEN q ELSE rollback[d]
    BY <1>0, <2>1, <2>2
  <2> QED
    BY <2>1, <2>2, <2>3, RollbackReadKeeps
<1>3. ASSUME NEW c \in Rollbacks, RollbackFlagToVersion(c) PROVE FlagVersionsInv'
  <2> DEFINE q == [rollback[c] EXCEPT !.pc = "label"]
  <2>1. /\ rollback[c].pc = "write" /\ UpdateFlagRow(Restored(rollback[c].config))
        /\ rollback' = [rollback EXCEPT ![c] = q]
    BY <1>0, <1>3 DEF RollbackFlagToVersion
  <2>2. Restored(rollback[c].config) \in Configs
    <3>1. rollback[c].config \in Configs /\ rollback[c].config.default \in Texts
      BY <1>0, <2>1 DEF RollbackRow, FlagVersionsInv, RollbackShape
    <3>2. Reads[rollback[c].config.default] \in Values
      BY <1>3, <3>1, FlagVersionsAssumption DEF RollbackFlagToVersion, FlagVersionsAssumption
    <3> QED
      BY <3>1, <3>2 DEF Restored, Configs
  <2>4. /\ q \in RollbackRow /\ q.pc = "label" /\ q.to = rollback[c].to /\ q.config = rollback[c].config
    BY <1>0 DEF RollbackRow
  <2> HIDE DEF q
  <2>3. /\ rollback' \in [Rollbacks -> RollbackRow]
        /\ \A d \in Rollbacks : rollback'[d] = IF d = c THEN q ELSE rollback[d]
    BY <1>0, <2>1, <2>4
  <2> QED
    BY <2>1, <2>2, <2>3, <2>4, UpdateRowKeeps
<1>4. ASSUME NEW c \in Rollbacks, RollbackFails(c) PROVE FlagVersionsInv'
  <2> DEFINE q == NoRollback(rollback[c].config)
  <2>1. rollback' = [rollback EXCEPT ![c] = q] /\ UNCHANGED <<flagConfig, versions, blurred>>
    BY <1>4 DEF RollbackFails
  <2>2. q \in RollbackRow /\ q.pc = "idle"
    BY <1>0, VersionTypes DEF RollbackRow, NoRollback
  <2> HIDE DEF q
  <2>3. /\ rollback' \in [Rollbacks -> RollbackRow]
        /\ \A d \in Rollbacks : rollback'[d] = IF d = c THEN q ELSE rollback[d]
    BY <1>0, <2>1, <2>2
  <2> QED
    BY <2>1, <2>2, <2>3, RollbackReadKeeps
<1>5. CASE UNCHANGED versionVars
  BY <1>0, <1>5, RollbackReadKeeps DEF versionVars
<1> QED
  BY <1>1, <1>2, <1>3, <1>4, <1>5, LabelKeeps DEF FlagVersionsNext

\* The history of a flag (the trigger of migration 000088, RollbackFlagToVersion) is one
\* line that ends at the row, and a version called a rollback to v has v's content but for
\* the default value, which is what v's string reads as, unless a change slipped in between
\* a rollback's update and its label.
THEOREM HistoryIsFaithful == FlagVersionsSpec => []HistoryFaithful
<1>1. FlagVersionsInv => HistoryFaithful
  BY DEF FlagVersionsInv
<1>2. FlagVersionsSpec => []FlagVersionsInv
  BY InitVersions, VersionsKeep, PTL DEF FlagVersionsSpec
<1> QED
  BY <1>1, <1>2, PTL

-----------------------------------------------------------------------------
(***************************************************************************)
(* Sandboxes.                                                               *)
(***************************************************************************)
ClaimRecord == [pc : {"email", "user", "mark", "claimed", "refused"}, sandbox : SandboxIds]

\* A sandbox that can be used has its organization; while it is made it has no row; an
\* organization that is alive is accounted for.
SandboxShape(s) ==
    /\ sbStatus[s] \in {"active", "claimed"} => sbOrg[s] = "filled"
    /\ s \in sbCreating => sbStatus[s] = "none" /\ sbOrg[s] \in {"empty", "filled"}
    /\ sbOrg[s] = "none" => sbStatus[s] = "none"
    /\ sbOrg[s] \in {"empty", "filled"} =>
          \/ sbStatus[s] \in {"active", "claimed", "expired"}
          \/ s \in sbCreating \cup sbHistory["half made"] \cup sbHistory["org kept"]

\* What a cleanup holds was listed when it could be: what it purges is expired, what it
\* expires and is claimed was raced.
CleanerShape(c) ==
    \A s \in cleaner[c].list :
        /\ cleaner[c].phase = "purge" => sbStatus[s] \in {"expired", "gone"}
        /\ cleaner[c].phase = "expire" =>
              sbStatus[s] # "none" /\ (sbStatus[s] = "claimed" => s \in sbHistory["raced"])

\* Whoever won has claimed a sandbox that nobody can claim again.
WinnerShape(u) ==
    /\ u \in Claimers /\ claim[u].pc = "claimed" /\ claim[u].sandbox \in SandboxIds
    /\ sbStatus[claim[u].sandbox] \in {"claimed", "expired", "gone"}
    /\ claim[u].sandbox \in sbHistory["raced"] \/ sbStatus[claim[u].sandbox] = "claimed"

SandboxesInv ==
    /\ SandboxesTypeOK
    /\ \A s \in SandboxIds : SandboxShape(s)
    /\ \A c \in Cleaners : CleanerShape(c)
    /\ \A u \in sbHistory["won"] : WinnerShape(u)
    /\ \A u, v \in sbHistory["won"] : claim[u].sandbox = claim[v].sandbox => u = v

LEMMA InitSandboxes == SandboxesInit => SandboxesInv
<1> SUFFICES ASSUME SandboxesInit PROVE SandboxesInv
  OBVIOUS
<1>1. sbHistory["won"] = {} /\ \A c \in Cleaners : cleaner[c].list = {}
  BY DEF SandboxesInit, HistoryKinds, Asleep
<1>2. SandboxesTypeOK
  <2>1. cleaner \in [Cleaners -> [phase : {"idle", "expire", "purge"}, list : SUBSET SandboxIds]]
    BY DEF SandboxesInit, Asleep
  <2>2. sbFaults \in 0..MaxSandboxFaults
    BY SandboxesAssumption DEF SandboxesAssumption, SandboxesInit
  <2>3. sbHistory \in [HistoryKinds -> SUBSET (SandboxIds \cup Claimers)]
    BY DEF SandboxesInit
  <2> QED
    BY <2>1, <2>2, <2>3 DEF SandboxesInit, SandboxesTypeOK
<1>3. \A s \in SandboxIds : SandboxShape(s)
  BY DEF SandboxesInit, SandboxShape
<1> QED
  BY <1>1, <1>2, <1>3 DEF SandboxesInv, CleanerShape

\* The types of what a step may use.
LEMMA SandboxTypes ==
    ASSUME SandboxesTypeOK
    PROVE  /\ \A u \in Claimers : claim[u] \in ClaimRecord \/ claim[u] = NoClaim
           /\ \A u \in Claimers : claim[u].pc # "idle" => claim[u] \in ClaimRecord
           /\ \A k \in HistoryKinds : sbHistory[k] \subseteq SandboxIds \cup Claimers
           /\ \A c \in Cleaners : cleaner[c] \in [phase : {"idle", "expire", "purge"}, list : SUBSET SandboxIds]
BY DEF SandboxesTypeOK, ClaimRecord, NoClaim

LEMMA SandboxFaultType ==
    ASSUME SandboxesTypeOK, SandboxFault \/ UNCHANGED sbFaults
    PROVE  sbFaults' \in 0..MaxSandboxFaults
BY SandboxesAssumption DEF SandboxesAssumption, SandboxesTypeOK, SandboxFault

\* A note of the history.
LEMMA NoteKeeps ==
    ASSUME SandboxesTypeOK, NEW k \in HistoryKinds, NEW x \in SandboxIds \cup Claimers, Note(k, x)
    PROVE  /\ sbHistory' \in [HistoryKinds -> SUBSET (SandboxIds \cup Claimers)]
           /\ sbHistory'[k] = sbHistory[k] \cup {x}
           /\ \A i \in HistoryKinds \ {k} : sbHistory'[i] = sbHistory[i]
BY DEF SandboxesTypeOK, Note

\* Create, its failure, and the passing of time.
LEMMA CreateKeeps ==
    ASSUME SandboxesInv, NEW s \in SandboxIds,
           CreateSandboxOrg(s) \/ FillSandboxOrg(s) \/ CreateSandbox(s) \/ CreateSandboxFails(s) \/ SandboxAges(s)
    PROVE  SandboxesInv'
<1>0. SandboxesTypeOK
  BY DEF SandboxesInv
<1>1. UNCHANGED <<claim, accounts, cleaner>>
  BY DEF CreateSandboxOrg, FillSandboxOrg, CreateSandbox, CreateSandboxFails, SandboxAges
<1>2. /\ sbHistory' \in [HistoryKinds -> SUBSET (SandboxIds \cup Claimers)]
      /\ sbHistory'["won"] = sbHistory["won"] /\ sbHistory'["raced"] = sbHistory["raced"]
      /\ sbHistory["half made"] \subseteq sbHistory'["half made"] /\ sbHistory'["org kept"] = sbHistory["org kept"]
      /\ CreateSandboxFails(s) => s \in sbHistory'["half made"]
  <2>1. CASE UNCHANGED sbHistory /\ ~CreateSandboxFails(s)
    BY <1>0, <2>1 DEF SandboxesTypeOK
  <2>2. CASE Note("half made", s)
    BY <1>0, <2>2, NoteKeeps DEF HistoryKinds
  <2> QED
    BY <2>1, <2>2 DEF CreateSandboxOrg, FillSandboxOrg, CreateSandbox, CreateSandboxFails, SandboxAges
<1>3. /\ sbStatus' \in [SandboxIds -> {"none", "active", "claimed", "expired", "gone"}]
      /\ \A x \in SandboxIds : sbStatus'[x] = sbStatus[x] \/ (CreateSandbox(s) /\ x = s /\ sbStatus[x] = "none" /\ sbStatus'[x] = "active")
  BY <1>0 DEF SandboxesInv, SandboxShape, SandboxesTypeOK, CreateSandboxOrg, FillSandboxOrg, CreateSandbox, CreateSandboxFails,
              SandboxAges
<1>4. SandboxesTypeOK'
  <2>1. sbFaults' \in 0..MaxSandboxFaults
    BY <1>0, SandboxFaultType DEF CreateSandboxOrg, FillSandboxOrg, CreateSandbox, CreateSandboxFails, SandboxAges
  <2>2. sbAge' \in [SandboxIds -> {"fresh", "expired", "stale"}]
    BY <1>0 DEF SandboxesTypeOK, CreateSandboxOrg, FillSandboxOrg, CreateSandbox, CreateSandboxFails, SandboxAges
  <2>3. sbOrg' \in [SandboxIds -> {"none", "empty", "filled", "deleted"}]
    BY <1>0 DEF SandboxesTypeOK, CreateSandboxOrg, FillSandboxOrg, CreateSandbox, CreateSandboxFails, SandboxAges
  <2>4. sbCreating' \subseteq SandboxIds
    BY <1>0 DEF SandboxesTypeOK, CreateSandboxOrg, FillSandboxOrg, CreateSandbox, CreateSandboxFails, SandboxAges
  <2> QED
    BY <1>0, <1>1, <1>2, <1>3, <2>1, <2>2, <2>3, <2>4 DEF SandboxesTypeOK
<1>5. \A x \in SandboxIds : SandboxShape(x)'
  <2> SUFFICES ASSUME NEW x \in SandboxIds PROVE SandboxShape(x)'
    OBVIOUS
  <2>1. SandboxShape(x)
    BY DEF SandboxesInv
  <2>2. CASE CreateSandboxOrg(s)
    BY <1>0, <1>2, <2>1, <2>2 DEF SandboxShape, CreateSandboxOrg, SandboxesTypeOK
  <2>3. CASE FillSandboxOrg(s)
    BY <1>0, <1>2, <2>1, <2>3 DEF SandboxShape, FillSandboxOrg, SandboxesTypeOK
  <2>4. CASE CreateSandbox(s)
    BY <1>0, <1>2, <2>1, <2>4 DEF SandboxShape, CreateSandbox, SandboxesTypeOK
  <2>5. CASE CreateSandboxFails(s)
    BY <1>0, <1>2, <2>1, <2>5 DEF SandboxShape, CreateSandboxFails, SandboxesTypeOK
  <2>6. CASE SandboxAges(s)
    BY <1>0, <1>2, <2>1, <2>6 DEF SandboxShape, SandboxAges, SandboxesTypeOK
  <2> QED
    BY <2>2, <2>3, <2>4, <2>5, <2>6
<1>6. \A c \in Cleaners : CleanerShape(c)'
  <2> SUFFICES ASSUME NEW c \in Cleaners, NEW x \in cleaner[c].list
               PROVE  /\ cleaner[c].phase = "purge" => sbStatus'[x] \in {"expired", "gone"}
                      /\ cleaner[c].phase = "expire" =>
                            sbStatus'[x] # "none" /\ (sbStatus'[x] = "claimed" => x \in sbHistory'["raced"])
    BY <1>1 DEF CleanerShape
  <2>1. CleanerShape(c) /\ x \in SandboxIds
    BY <1>0, SandboxTypes DEF SandboxesInv
  <2> QED
    BY <1>2, <1>3, <2>1 DEF CleanerShape
<1>7. \A u \in sbHistory'["won"] : WinnerShape(u)'
  BY <1>1, <1>2, <1>3 DEF SandboxesInv, WinnerShape
<1> QED
  BY <1>1, <1>2, <1>4, <1>5, <1>6, <1>7 DEF SandboxesInv

\* A claim goes on.
LEMMA ClaimMoves ==
    ASSUME SandboxesTypeOK, NEW u \in Claimers, claim[u].pc # "idle",
           NEW pc \in {"email", "user", "mark", "claimed", "refused"}, ClaimGoes(u, pc)
    PROVE  /\ claim' \in [Claimers -> ClaimRecord \cup {NoClaim}]
           /\ claim'[u].pc = pc /\ claim'[u].sandbox = claim[u].sandbox /\ claim[u].sandbox \in SandboxIds
           /\ \A v \in Claimers \ {u} : claim'[v] = claim[v]
<1>1. claim[u] \in ClaimRecord /\ claim \in [Claimers -> ClaimRecord \cup {NoClaim}]
  BY SandboxTypes DEF SandboxesTypeOK, ClaimRecord
<1>2. [claim[u] EXCEPT !.pc = pc] \in ClaimRecord
  BY <1>1 DEF ClaimRecord
<1> QED
  BY <1>1, <1>2 DEF ClaimGoes, ClaimRecord

\* The steps of a claim before its last.
LEMMA ClaimKeeps ==
    ASSUME SandboxesInv, NEW u \in Claimers,
           \/ \E s \in SandboxIds : Claim(u, s)
           \/ EmailIsFree(u) \/ ClaimCreatesUser(u)
           \/ ClaimSandbox(u) /\ UNCHANGED <<sbStatus, sbHistory>>
    PROVE  SandboxesInv'
<1>0. SandboxesTypeOK
  BY DEF SandboxesInv
<1>1. UNCHANGED <<sbStatus, sbAge, sbOrg, sbCreating, cleaner, sbHistory>>
  BY DEF Claim, EmailIsFree, ClaimCreatesUser, ClaimSandbox
<1>2. /\ claim' \in [Claimers -> ClaimRecord \cup {NoClaim}]
      /\ claim[u].pc # "claimed"
      /\ \A v \in Claimers \ {u} : claim'[v] = claim[v]
  <2>1. ASSUME NEW s \in SandboxIds, Claim(u, s)
        PROVE  claim' \in [Claimers -> ClaimRecord \cup {NoClaim}] /\ claim[u].pc # "claimed"
               /\ \A v \in Claimers \ {u} : claim'[v] = claim[v]
    <3>1. [pc |-> IF sbStatus[s] = "active" THEN "email" ELSE "refused", sandbox |-> s] \in ClaimRecord
      BY DEF ClaimRecord
    <3>2. claim[u].pc # "claimed"
      BY <2>1 DEF Claim, NoClaim
    <3>3. claim \in [Claimers -> ClaimRecord \cup {NoClaim}]
      BY <1>0 DEF SandboxesTypeOK, ClaimRecord
    <3> QED
      BY <2>1, <3>1, <3>2, <3>3 DEF Claim
  <2>2. CASE EmailIsFree(u) \/ ClaimCreatesUser(u) \/ (ClaimSandbox(u) /\ UNCHANGED <<sbStatus, sbHistory>>)
    <3>1. claim[u].pc \in {"email", "user", "mark"}
      BY <2>2 DEF EmailIsFree, ClaimCreatesUser, ClaimSandbox
    <3>2. \E pc \in {"email", "user", "mark", "claimed", "refused"} : ClaimGoes(u, pc)
      BY <2>2 DEF EmailIsFree, ClaimCreatesUser, ClaimSandbox
    <3> QED
      BY <1>0, <3>1, <3>2, ClaimMoves
  <2> QED
    BY <2>1, <2>2
<1>3. u \notin sbHistory["won"]
  BY <1>2 DEF SandboxesInv, WinnerShape
<1>4. SandboxesTypeOK'
  <2>1. sbFaults' \in 0..MaxSandboxFaults
    BY <1>0, SandboxFaultType DEF Claim, EmailIsFree, ClaimCreatesUser, ClaimSandbox
  <2>2. accounts' \subseteq Claimers
    BY <1>0 DEF SandboxesTypeOK, Claim, EmailIsFree, ClaimCreatesUser, ClaimSandbox
  <2> QED
    BY <1>0, <1>1, <1>2, <2>1, <2>2 DEF SandboxesTypeOK, ClaimRecord
<1>5. (\A s \in SandboxIds : SandboxShape(s)) /\ \A c \in Cleaners : CleanerShape(c)
  BY DEF SandboxesInv
<1>6. (\A s \in SandboxIds : SandboxShape(s)') /\ \A c \in Cleaners : CleanerShape(c)'
  BY <1>1, <1>5 DEF SandboxShape, CleanerShape
<1>7. \A v \in sbHistory["won"] : v # u /\ v \in Claimers /\ WinnerShape(v)
  BY <1>3 DEF SandboxesInv, WinnerShape
<1>8. \A v \in sbHistory'["won"] : WinnerShape(v)' /\ claim'[v] = claim[v]
  BY <1>1, <1>2, <1>7 DEF WinnerShape
<1> QED
  BY <1>1, <1>4, <1>6, <1>8 DEF SandboxesInv

\* The claim that wins.
LEMMA WinKeeps ==
    ASSUME SandboxesInv, NEW u \in Claimers, ClaimSandbox(u), ~UNCHANGED <<sbStatus, sbHistory>>
    PROVE  SandboxesInv'
<1> DEFINE s == claim[u].sandbox
           inList == \E c \in Cleaners : cleaner[c].phase = "expire" /\ s \in cleaner[c].list
<1>0. SandboxesTypeOK
  BY DEF SandboxesInv
<1>1. /\ claim[u].pc = "mark" /\ sbStatus[s] = "active" /\ sbStatus' = [sbStatus EXCEPT ![s] = "claimed"]
      /\ ClaimGoes(u, "claimed")
      /\ sbHistory' = [sbHistory EXCEPT !["won"] = @ \cup {u}, !["raced"] = @ \cup (IF inList THEN {s} ELSE {})]
      /\ UNCHANGED <<sbAge, sbOrg, sbCreating, accounts, cleaner, sbFaults>>
  BY DEF ClaimSandbox
<1>2. /\ claim' \in [Claimers -> ClaimRecord \cup {NoClaim}]
      /\ claim'[u].pc = "claimed" /\ claim'[u].sandbox = s /\ s \in SandboxIds
      /\ \A v \in Claimers \ {u} : claim'[v] = claim[v]
  BY <1>0, <1>1, ClaimMoves
<1>3. /\ sbHistory' \in [HistoryKinds -> SUBSET (SandboxIds \cup Claimers)]
      /\ sbHistory'["won"] = sbHistory["won"] \cup {u}
      /\ sbHistory["raced"] \subseteq sbHistory'["raced"] /\ (inList => s \in sbHistory'["raced"])
      /\ sbHistory'["half made"] = sbHistory["half made"] /\ sbHistory'["org kept"] = sbHistory["org kept"]
  <2>1. /\ sbHistory \in [HistoryKinds -> SUBSET (SandboxIds \cup Claimers)] /\ DOMAIN sbHistory = HistoryKinds
        /\ {"won", "raced", "half made", "org kept"} \subseteq HistoryKinds
    BY <1>0 DEF SandboxesTypeOK, HistoryKinds
  <2>2. sbHistory' = [k \in HistoryKinds |->
            IF k = "won" THEN sbHistory[k] \cup {u}
            ELSE IF k = "raced" THEN sbHistory[k] \cup (IF inList THEN {s} ELSE {}) ELSE sbHistory[k]]
    BY <1>1, <2>1
  <2> HIDE DEF inList
  <2> QED
    BY <1>2, <2>1, <2>2
<1>4. /\ sbStatus' \in [SandboxIds -> {"none", "active", "claimed", "expired", "gone"}]
      /\ sbStatus'[s] = "claimed" /\ \A x \in SandboxIds \ {s} : sbStatus'[x] = sbStatus[x]
  BY <1>0, <1>1, <1>2 DEF SandboxesTypeOK
<1>5. SandboxesTypeOK'
  BY <1>0, <1>1, <1>2, <1>3, <1>4 DEF SandboxesTypeOK, ClaimRecord
<1>6. \A x \in SandboxIds : SandboxShape(x)'
  <2> SUFFICES ASSUME NEW x \in SandboxIds PROVE SandboxShape(x)'
    OBVIOUS
  <2>1. SandboxShape(x) /\ SandboxShape(s)
    BY <1>2 DEF SandboxesInv
  <2> HIDE DEF s, inList
  <2> QED
    BY <1>1, <1>3, <1>4, <2>1 DEF SandboxShape
<1>7. \A c \in Cleaners : CleanerShape(c)'
  <2> SUFFICES ASSUME NEW c \in Cleaners, NEW x \in cleaner[c].list
               PROVE  /\ cleaner[c].phase = "purge" => sbStatus'[x] \in {"expired", "gone"}
                      /\ cleaner[c].phase = "expire" =>
                            sbStatus'[x] # "none" /\ (sbStatus'[x] = "claimed" => x \in sbHistory'["raced"])
    BY <1>1 DEF CleanerShape
  <2>1. CleanerShape(c) /\ x \in SandboxIds
    BY <1>0, SandboxTypes DEF SandboxesInv
  <2>2. x = s /\ cleaner[c].phase = "expire" => inList
    OBVIOUS
  <2> HIDE DEF s, inList
  <2> QED
    BY <1>1, <1>3, <1>4, <2>1, <2>2 DEF CleanerShape
<1>8. u \notin sbHistory["won"] /\ \A v \in sbHistory["won"] : v \in Claimers /\ v # u /\ WinnerShape(v) /\ claim[v].sandbox # s
  BY <1>1 DEF SandboxesInv, WinnerShape
<1>9. \A v \in sbHistory'["won"] : WinnerShape(v)'
  <2>1. WinnerShape(u)'
    BY <1>2, <1>4 DEF WinnerShape
  <2>2. ASSUME NEW v \in sbHistory["won"] PROVE WinnerShape(v)'
    <3>1. v \in Claimers /\ WinnerShape(v) /\ claim'[v] = claim[v] /\ claim[v].sandbox # s
      BY <1>2, <1>8
    <3> HIDE DEF s, inList
    <3> QED
      BY <1>3, <1>4, <3>1 DEF WinnerShape
  <2> QED
    BY <1>3, <2>1, <2>2
<1>10. \A v, w \in sbHistory'["won"] : claim'[v].sandbox = claim'[w].sandbox => v = w
  BY <1>2, <1>3, <1>8 DEF SandboxesInv
<1> QED
  BY <1>5, <1>6, <1>7, <1>9, <1>10 DEF SandboxesInv

\* The cleanup.
LEMMA CleanerMoves ==
    ASSUME SandboxesTypeOK, NEW c \in Cleaners
    PROVE  /\ \A phase \in {"idle", "expire", "purge"}, list \in SUBSET SandboxIds :
                 Listing(c, phase, list) =>
                    /\ cleaner' \in [Cleaners -> [phase : {"idle", "expire", "purge"}, list : SUBSET SandboxIds]]
                    /\ cleaner'[c].phase = phase /\ cleaner'[c].list = list
                    /\ \A d \in Cleaners \ {c} : cleaner'[d] = cleaner[d]
           /\ \A s : Dealt(c, s) =>
                    /\ cleaner' \in [Cleaners -> [phase : {"idle", "expire", "purge"}, list : SUBSET SandboxIds]]
                    /\ cleaner'[c].phase = cleaner[c].phase /\ cleaner'[c].list = cleaner[c].list \ {s}
                    /\ \A d \in Cleaners \ {c} : cleaner'[d] = cleaner[d]
BY DEF SandboxesTypeOK, Listing, Dealt

\* A listing or the end of a cycle.
LEMMA ListingKeeps ==
    ASSUME SandboxesInv, NEW c \in Cleaners, ListExpiredSandboxes(c) \/ ListStaleSandboxes(c) \/ CleanupEnds(c)
    PROVE  SandboxesInv'
<1>0. SandboxesTypeOK
  BY DEF SandboxesInv
<1>1. UNCHANGED <<sbStatus, sbAge, sbOrg, sbCreating, claim, accounts, sbHistory>>
  BY DEF ListExpiredSandboxes, ListStaleSandboxes, CleanupEnds
<1>2. /\ cleaner' \in [Cleaners -> [phase : {"idle", "expire", "purge"}, list : SUBSET SandboxIds]]
      /\ \A d \in Cleaners \ {c} : cleaner'[d] = cleaner[d]
      /\ \A s \in cleaner'[c].list : /\ cleaner'[c].phase = "purge" => sbStatus[s] = "expired"
                                     /\ cleaner'[c].phase = "expire" => sbStatus[s] = "active"
  <2>1. CASE ListExpiredSandboxes(c)
    BY <1>0, <2>1, CleanerMoves DEF ListExpiredSandboxes
  <2>2. CASE ListStaleSandboxes(c)
    BY <1>0, <2>2, CleanerMoves DEF ListStaleSandboxes
  <2>3. CASE CleanupEnds(c)
    BY <1>0, <2>3, CleanerMoves DEF CleanupEnds
  <2> QED
    BY <2>1, <2>2, <2>3
<1>3. sbFaults' \in 0..MaxSandboxFaults
  BY <1>0, SandboxFaultType DEF ListExpiredSandboxes, ListStaleSandboxes, CleanupEnds
<1>4. SandboxesTypeOK'
  BY <1>0, <1>1, <1>2, <1>3 DEF SandboxesTypeOK
<1>5. \A d \in Cleaners : CleanerShape(d)'
  BY <1>1, <1>2 DEF SandboxesInv, CleanerShape
<1>6. (\A s \in SandboxIds : SandboxShape(s)) /\ \A u \in sbHistory["won"] : WinnerShape(u)
  BY DEF SandboxesInv
<1>7. (\A s \in SandboxIds : SandboxShape(s)') /\ \A u \in sbHistory'["won"] : WinnerShape(u)'
  BY <1>1, <1>6 DEF SandboxShape, WinnerShape
<1> QED
  BY <1>1, <1>4, <1>5, <1>7 DEF SandboxesInv

\* A sandbox expires, or is purged.
LEMMA CleaningKeeps ==
    ASSUME SandboxesInv, NEW c \in Cleaners, NEW s \in SandboxIds,
           SoftDeleteSandbox(c, s) \/ PurgeSandbox(c, s)
    PROVE  SandboxesInv'
<1>0. SandboxesTypeOK /\ CleanerShape(c) /\ s \in cleaner[c].list /\ SandboxShape(s)
  BY DEF SandboxesInv, SoftDeleteSandbox, PurgeSandbox
<1>1. UNCHANGED <<sbAge, sbCreating, claim, accounts>>
  BY DEF SoftDeleteSandbox, PurgeSandbox
<1>2. /\ cleaner' \in [Cleaners -> [phase : {"idle", "expire", "purge"}, list : SUBSET SandboxIds]]
      /\ \A d \in Cleaners : cleaner'[d].phase = cleaner[d].phase /\ cleaner'[d].list \subseteq cleaner[d].list
  <2>1. Dealt(c, s)
    BY DEF SoftDeleteSandbox, PurgeSandbox
  <2> QED
    BY <1>0, <2>1, CleanerMoves
<1>3. /\ sbHistory' \in [HistoryKinds -> SUBSET (SandboxIds \cup Claimers)]
      /\ sbHistory'["won"] = sbHistory["won"] /\ sbHistory'["raced"] = sbHistory["raced"]
      /\ sbHistory'["half made"] = sbHistory["half made"] /\ sbHistory["org kept"] \subseteq sbHistory'["org kept"]
      /\ sbHistory' # sbHistory => s \in sbHistory'["org kept"]
  <2>1. CASE UNCHANGED sbHistory
    BY <1>0, <2>1 DEF SandboxesTypeOK
  <2>2. CASE Note("org kept", s)
    <3>1. "org kept" \in HistoryKinds /\ {"won", "raced", "half made"} \subseteq HistoryKinds \ {"org kept"}
      BY DEF HistoryKinds
    <3>2. /\ sbHistory' \in [HistoryKinds -> SUBSET (SandboxIds \cup Claimers)]
          /\ sbHistory'["org kept"] = sbHistory["org kept"] \cup {s}
          /\ \A i \in HistoryKinds \ {"org kept"} : sbHistory'[i] = sbHistory[i]
      BY <1>0, <2>2, <3>1, NoteKeeps
    <3> QED
      BY <3>1, <3>2
  <2> QED
    BY <2>1, <2>2 DEF SoftDeleteSandbox, PurgeSandbox
<1>4. /\ sbStatus' \in [SandboxIds -> {"none", "active", "claimed", "expired", "gone"}]
      /\ sbOrg' \in [SandboxIds -> {"none", "empty", "filled", "deleted"}]
      /\ \A x \in SandboxIds \ {s} : sbStatus'[x] = sbStatus[x] /\ sbOrg'[x] = sbOrg[x]
      /\ sbStatus[s] # "none"
      /\ \/ sbStatus'[s] = sbStatus[s] /\ sbOrg'[s] = sbOrg[s]
         \/ sbStatus'[s] = "expired" /\ sbOrg'[s] = sbOrg[s] /\ (sbStatus[s] = "claimed" => s \in sbHistory["raced"])
            /\ sbStatus[s] # "gone"
         \/ sbStatus[s] \in {"expired", "gone"} /\ sbStatus'[s] \in {sbStatus[s], "gone"} /\ sbOrg'[s] = "deleted"
         \/ sbStatus[s] \in {"expired", "gone"} /\ sbStatus'[s] = "gone" /\ sbOrg'[s] = sbOrg[s] /\ s \in sbHistory'["org kept"]
  <2>1. CASE SoftDeleteSandbox(c, s)
    BY <1>0, <2>1 DEF SoftDeleteSandbox, CleanerShape, SandboxesTypeOK
  <2>2. CASE PurgeSandbox(c, s)
    <3>1. sbStatus[s] \in {"expired", "gone"}
      BY <1>0, <2>2 DEF PurgeSandbox, CleanerShape
    <3>2. \/ sbOrg' = [sbOrg EXCEPT ![s] = "deleted"] /\ sbStatus' = [sbStatus EXCEPT ![s] = "gone"]
          \/ Note("org kept", s) /\ sbStatus' = [sbStatus EXCEPT ![s] = "gone"] /\ UNCHANGED sbOrg
          \/ sbOrg' = [sbOrg EXCEPT ![s] = "deleted"] /\ UNCHANGED sbStatus
      BY <2>2 DEF PurgeSandbox
    <3>3. Note("org kept", s) => s \in sbHistory'["org kept"]
      <4> SUFFICES ASSUME Note("org kept", s) PROVE s \in sbHistory'["org kept"]
        OBVIOUS
      <4>1. "org kept" \in HistoryKinds /\ s \in SandboxIds \cup Claimers
        BY DEF HistoryKinds
      <4>2. sbHistory'["org kept"] = sbHistory["org kept"] \cup {s}
        BY <1>0, <4>1, NoteKeeps
      <4> QED
        BY <4>2
    <3> QED
      BY <1>0, <3>1, <3>2, <3>3 DEF SandboxesTypeOK
  <2> QED
    BY <2>1, <2>2
<1>5. SandboxesTypeOK'
  <2>1. sbFaults' \in 0..MaxSandboxFaults
    BY <1>0, SandboxFaultType DEF SoftDeleteSandbox, PurgeSandbox
  <2> QED
    BY <1>0, <1>1, <1>2, <1>3, <1>4, <2>1 DEF SandboxesTypeOK
<1>6. \A x \in SandboxIds : SandboxShape(x)'
  <2> SUFFICES ASSUME NEW x \in SandboxIds PROVE SandboxShape(x)'
    OBVIOUS
  <2>1. SandboxShape(x)
    BY DEF SandboxesInv
  <2>2. CASE x # s
    BY <1>1, <1>3, <1>4, <2>1, <2>2 DEF SandboxShape
  <2>3. CASE x = s
    BY <1>0, <1>1, <1>3, <1>4, <2>1, <2>3 DEF SandboxShape, SandboxesTypeOK
  <2> QED
    BY <2>2, <2>3
<1>7. \A d \in Cleaners : CleanerShape(d)'
  <2> SUFFICES ASSUME NEW d \in Cleaners, NEW x \in cleaner'[d].list
               PROVE  /\ cleaner'[d].phase = "purge" => sbStatus'[x] \in {"expired", "gone"}
                      /\ cleaner'[d].phase = "expire" =>
                            sbStatus'[x] # "none" /\ (sbStatus'[x] = "claimed" => x \in sbHistory'["raced"])
    BY DEF CleanerShape
  <2>1. CleanerShape(d) /\ x \in SandboxIds /\ x \in cleaner[d].list
    BY <1>0, <1>2, SandboxTypes DEF SandboxesInv
  <2> QED
    BY <1>2, <1>3, <1>4, <2>1 DEF CleanerShape
<1>8. \A u \in sbHistory'["won"] : WinnerShape(u)'
  <2> SUFFICES ASSUME NEW u \in sbHistory["won"] PROVE WinnerShape(u)'
    BY <1>3
  <2>1. WinnerShape(u)
    BY DEF SandboxesInv
  <2> QED
    BY <1>1, <1>3, <1>4, <2>1 DEF WinnerShape
<1> QED
  BY <1>1, <1>3, <1>5, <1>6, <1>7, <1>8 DEF SandboxesInv

LEMMA SandboxesKeep == ASSUME SandboxesInv, [SandboxesNext]_sandboxVars PROVE SandboxesInv'
<1>1. CASE UNCHANGED sandboxVars
  BY <1>1 DEF sandboxVars, SandboxesInv, SandboxesTypeOK, SandboxShape, CleanerShape, WinnerShape
<1> QED
  BY <1>1, CreateKeeps, ClaimKeeps, WinKeeps, ListingKeeps, CleaningKeeps DEF SandboxesNext

LEMMA AccountedFor == SandboxesInv => SandboxesAccounted
BY DEF SandboxesInv, SandboxShape, WinnerShape, SandboxesAccounted

\* A sandbox is won by one visitor at most and stays theirs unless a cleanup had listed it
\* before; an organization that is alive can be found or was left by a failure
\* (sandbox_handler.go), for any number of sandboxes, visitors and servers.
THEOREM SandboxesAreAccountedFor == SandboxesSpec => []SandboxesAccounted
BY InitSandboxes, SandboxesKeep, AccountedFor, PTL DEF SandboxesSpec

-----------------------------------------------------------------------------
(***************************************************************************)
(* The server's own staff.                                                  *)
(***************************************************************************)
StaffSession == [user : Staff, live : BOOLEAN, email : BOOLEAN]
StaffRequest == [pc : {"create", "drop", "open"}, user : Staff, token : 0..MaxSessions]

\* The refreshes that have read token t and not dropped it yet.
Dropping(t) == {j \in StaffJobs : staffJob[j].pc = "drop" /\ staffJob[j].token = t}

\* A token nobody was given was never read; one that was exchanged is gone and no refresh
\* holds it; two refreshes hold one only if it is in the history.
TokenShape(t) ==
    /\ session[t] = NoSession => exchanged[t] = 0 /\ Dropping(t) = {}
    /\ t \notin staffRaced =>
          /\ exchanged[t] <= 1
          /\ exchanged[t] >= 1 => session[t].live = FALSE /\ Dropping(t) = {}
          /\ \A i, j \in Dropping(t) : i = j

\* A request that goes on has read its user as active.
StaffJobShape(j) ==
    /\ staffJob[j].pc = "drop" => staffJob[j].token \in TokenIds
    /\ staffJob[j].pc \in {"drop", "open"} =>
          staffRow[staffJob[j].user] = "active" \/ staffJob[j].user \in staffRaced

OpsStaffInv ==
    /\ OpsStaffTypeOK
    /\ \A t \in TokenIds : TokenShape(t)
    /\ \A j \in StaffJobs : StaffJobShape(j)

\* The rows a step starts from.
LEMMA StaffTypes ==
    ASSUME OpsStaffTypeOK
    PROVE  /\ \A t \in TokenIds : session[t] # NoSession => session[t] \in StaffSession
           /\ \A t \in TokenIds : session[t].live = TRUE => session[t] # NoSession
           /\ \A j \in StaffJobs : staffJob[j].pc # "idle" => staffJob[j] \in StaffRequest
           /\ NoStaffJob.pc = "idle" /\ NoSession.live = FALSE
           /\ \A x \in StaffSession : x # NoSession
BY OpsStaffAssumption DEF OpsStaffTypeOK, OpsStaffAssumption, StaffSession, StaffRequest, NoSession, NoStaffJob

LEMMA InitStaff == OpsStaffInit => OpsStaffInv
<1> SUFFICES ASSUME OpsStaffInit PROVE OpsStaffInv
  OBVIOUS
<1>1. OpsStaffTypeOK
  BY OpsStaffAssumption DEF OpsStaffAssumption, OpsStaffInit, OpsStaffTypeOK
<1>2. \A j \in StaffJobs : staffJob[j].pc = "idle"
  BY DEF OpsStaffInit, NoStaffJob
<1>3. \A t \in TokenIds : exchanged[t] = 0 /\ Dropping(t) = {}
  BY <1>2 DEF OpsStaffInit, Dropping
<1> QED
  BY <1>1, <1>2, <1>3 DEF OpsStaffInv, TokenShape, StaffJobShape

LEMMA StaffFaultType ==
    ASSUME OpsStaffTypeOK, StaffFault \/ UNCHANGED staffFaults
    PROVE  staffFaults' \in 0..MaxStaffFaults
BY OpsStaffAssumption DEF OpsStaffAssumption, OpsStaffTypeOK, StaffFault

\* Opened for whom it may be.
OpenedForActive ==
    \A t \in TokenIds \ Given :
        session'[t].live => \E u \in {session'[t].user} : staffRow[u] = "active" \/ u \in staffRaced

\* A step that opens nothing.
LEMMA NothingOpened ==
    ASSUME OpsStaffTypeOK, \A t \in TokenIds : session[t] = NoSession => session'[t] = NoSession
    PROVE  OpenedForActive
<1>1. \A t \in TokenIds \ Given : session'[t] = NoSession
  BY DEF Given
<1>2. NoSession.live = FALSE
  BY DEF NoSession
<1> QED
  BY <1>1, <1>2 DEF OpenedForActive

\* Rows of the staff and licenses.
LEMMA StaffRowsKeep ==
    ASSUME OpsStaffInv, \/ \E u \in Staff, status \in {"active", "inactive"} : UpdateStaff(u, status)
                        \/ CreateLicense \/ RevokeLicense \/ OverrideLicenseQuota
    PROVE  OpsStaffInv' /\ OpenedForActive
<1>0. OpsStaffTypeOK
  BY DEF OpsStaffInv
<1>1. UNCHANGED <<session, staffJob, exchanged, staffFaults>> /\ staffRaced \subseteq staffRaced'
  BY DEF UpdateStaff, CreateLicense, RevokeLicense, OverrideLicenseQuota, WriteLicense
<1>2. OpsStaffTypeOK'
  <2>1. license' \in {"none", "valid", "revoked"}
    BY <1>0 DEF OpsStaffTypeOK, UpdateStaff, CreateLicense, RevokeLicense, OverrideLicenseQuota, WriteLicense
  <2>2. staffRow' \in [Staff -> {"none", "active", "inactive"}]
    BY <1>0 DEF OpsStaffTypeOK, UpdateStaff, CreateLicense, RevokeLicense, OverrideLicenseQuota, WriteLicense
  <2>3. staffRaced' \subseteq TokenIds \cup Staff
    BY <1>0 DEF OpsStaffTypeOK, UpdateStaff, CreateLicense, RevokeLicense, OverrideLicenseQuota, WriteLicense
  <2> QED
    BY <1>0, <1>1, <2>1, <2>2, <2>3 DEF OpsStaffTypeOK
<1>3. \A t \in TokenIds : TokenShape(t)'
  <2> SUFFICES ASSUME NEW t \in TokenIds PROVE TokenShape(t)'
    OBVIOUS
  <2>1. TokenShape(t) /\ Dropping(t)' = Dropping(t)
    BY <1>1 DEF OpsStaffInv, Dropping
  <2> QED
    BY <1>1, <2>1 DEF TokenShape
<1>4. \A j \in StaffJobs : StaffJobShape(j)'
  <2> SUFFICES ASSUME NEW j \in StaffJobs PROVE StaffJobShape(j)'
    OBVIOUS
  <2>1. StaffJobShape(j)
    BY DEF OpsStaffInv
  <2>2. ASSUME NEW u \in Staff, NEW status \in {"active", "inactive"}, UpdateStaff(u, status)
        PROVE  StaffJobShape(j)'
    <3>1. staffJob[j].pc \in {"drop", "open"} => staffJob[j].user \in Staff
      BY <1>0, StaffTypes DEF StaffRequest
    <3>2. /\ staffRow' = [staffRow EXCEPT ![u] = status]
          /\ status = "inactive" /\ staffJob[j].pc \in {"drop", "open"} /\ staffJob[j].user = u => u \in staffRaced'
      BY <2>2 DEF UpdateStaff
    <3> QED
      BY <1>0, <1>1, <2>1, <3>1, <3>2 DEF StaffJobShape, OpsStaffTypeOK
  <2>3. CASE UNCHANGED <<staffRow, staffRaced>>
    BY <1>1, <2>1, <2>3 DEF StaffJobShape
  <2> QED
    BY <2>2, <2>3 DEF CreateLicense, RevokeLicense, OverrideLicenseQuota, WriteLicense
<1> QED
  BY <1>0, <1>1, <1>2, <1>3, <1>4, NothingOpened DEF OpsStaffInv

\* A request that creates a member, from its beginning to its insert, or begins a login.
LEMMA StaffJobsKeep ==
    ASSUME OpsStaffInv, NEW j \in StaffJobs,
           (\E u \in Staff : CreateStaff(j, u) \/ StaffLogin(j, u)) \/ InsertStaff(j)
    PROVE  OpsStaffInv' /\ OpenedForActive
<1>0. OpsStaffTypeOK
  BY DEF OpsStaffInv
<1>1. UNCHANGED <<session, license, exchanged, staffRaced>>
  BY DEF CreateStaff, StaffLogin, InsertStaff
<1>2. /\ staffJob' \in [StaffJobs -> StaffRequest \cup {NoStaffJob}]
      /\ \A i \in StaffJobs \ {j} : staffJob'[i] = staffJob[i]
      /\ staffJob[j].pc # "drop" /\ staffJob'[j].pc # "drop"
      /\ staffJob'[j].pc = "open" => staffRow[staffJob'[j].user] = "active"
  <2>1. ASSUME NEW u \in Staff, NEW pc \in {"create", "open"}, StartStaffJob(j, pc, u, 0), pc = "open" => staffRow[u] = "active"
        PROVE  /\ staffJob' \in [StaffJobs -> StaffRequest \cup {NoStaffJob}]
               /\ \A i \in StaffJobs \ {j} : staffJob'[i] = staffJob[i]
               /\ staffJob[j].pc # "drop" /\ staffJob'[j].pc # "drop"
               /\ staffJob'[j].pc = "open" => staffRow[staffJob'[j].user] = "active"
    <3>1. [pc |-> pc, user |-> u, token |-> 0] \in StaffRequest
      BY OpsStaffAssumption DEF StaffRequest, OpsStaffAssumption
    <3>2. staffJob \in [StaffJobs -> StaffRequest \cup {NoStaffJob}]
      BY <1>0 DEF OpsStaffTypeOK, StaffRequest
    <3>3. staffJob'[j] = [pc |-> pc, user |-> u, token |-> 0] /\ staffJob[j].pc = "idle"
      BY <2>1, <3>2 DEF StartStaffJob, NoStaffJob
    <3> QED
      BY <2>1, <3>1, <3>2, <3>3 DEF StartStaffJob
  <2>2. CASE InsertStaff(j)
    <3>2. staffJob \in [StaffJobs -> StaffRequest \cup {NoStaffJob}]
      BY <1>0 DEF OpsStaffTypeOK, StaffRequest
    <3> QED
      BY <2>2, <3>2 DEF InsertStaff, StaffJobEnds, NoStaffJob
  <2> QED
    BY <2>1, <2>2 DEF CreateStaff, StaffLogin
<1>3. /\ staffRow' \in [Staff -> {"none", "active", "inactive"}]
      /\ \A u \in Staff : staffRow[u] = "active" => staffRow'[u] = "active"
  BY <1>0 DEF OpsStaffTypeOK, CreateStaff, StaffLogin, InsertStaff
<1>4. OpsStaffTypeOK'
  <2>1. staffFaults' \in 0..MaxStaffFaults
    BY <1>0, StaffFaultType DEF CreateStaff, StaffLogin, InsertStaff
  <2> QED
    BY <1>0, <1>1, <1>2, <1>3, <2>1 DEF OpsStaffTypeOK, StaffRequest
<1>5. \A t \in TokenIds : TokenShape(t)'
  <2> SUFFICES ASSUME NEW t \in TokenIds PROVE TokenShape(t)'
    OBVIOUS
  <2>1. TokenShape(t) /\ Dropping(t)' = Dropping(t)
    BY <1>2 DEF OpsStaffInv, Dropping
  <2> QED
    BY <1>1, <2>1 DEF TokenShape
<1>6. \A i \in StaffJobs : StaffJobShape(i)'
  <2> SUFFICES ASSUME NEW i \in StaffJobs PROVE StaffJobShape(i)'
    OBVIOUS
  <2>1. StaffJobShape(i) /\ (staffJob'[i].pc # "idle" => staffJob'[i].user \in Staff)
    BY <1>4, StaffTypes DEF OpsStaffInv, OpsStaffTypeOK, StaffRequest, NoStaffJob
  <2> QED
    BY <1>1, <1>2, <1>3, <2>1 DEF StaffJobShape
<1> QED
  BY <1>0, <1>1, <1>4, <1>5, <1>6, NothingOpened DEF OpsStaffInv

\* A refresh reads its token.
LEMMA RefreshKeeps ==
    ASSUME OpsStaffInv, NEW j \in StaffJobs, NEW t \in TokenIds, StaffRefresh(j, t)
    PROVE  OpsStaffInv' /\ OpenedForActive
<1>0. OpsStaffTypeOK /\ session[t].live = TRUE /\ session[t] \in StaffSession /\ session[t] # NoSession
  <2>1. OpsStaffTypeOK /\ session[t].live
    BY DEF OpsStaffInv, StaffRefresh
  <2>2. session[t].live = TRUE
    BY <2>1 DEF OpsStaffTypeOK, NoSession
  <2> QED
    BY <2>1, <2>2, StaffTypes
<1>1. /\ UNCHANGED <<staffRow, session, license, exchanged, staffFaults>>
      /\ staffRow[session[t].user] = "active" /\ staffJob[j] = NoStaffJob
      /\ staffJob' = [staffJob EXCEPT ![j] = [pc |-> "drop", user |-> session[t].user, token |-> t]]
      /\ staffRaced' = staffRaced \cup (IF Dropping(t) # {} THEN {t} ELSE {})
  BY DEF StaffRefresh, StartStaffJob, Dropping
<1>2. /\ staffJob' \in [StaffJobs -> StaffRequest \cup {NoStaffJob}]
      /\ \A i \in StaffJobs \ {j} : staffJob'[i] = staffJob[i]
      /\ staffJob[j].pc = "idle" /\ staffJob'[j].pc = "drop" /\ staffJob'[j].token = t
      /\ staffJob'[j].user = session[t].user
  <2>1. [pc |-> "drop", user |-> session[t].user, token |-> t] \in StaffRequest
    BY <1>0, OpsStaffAssumption DEF StaffRequest, StaffSession, OpsStaffAssumption, TokenIds
  <2>2. staffJob \in [StaffJobs -> StaffRequest \cup {NoStaffJob}]
    BY <1>0 DEF OpsStaffTypeOK, StaffRequest
  <2> QED
    BY <1>1, <2>1, <2>2 DEF NoStaffJob
<1>3. OpsStaffTypeOK'
  <2>1. staffRaced' \subseteq TokenIds \cup Staff
    BY <1>0, <1>1 DEF OpsStaffTypeOK
  <2> QED
    BY <1>0, <1>1, <1>2, <2>1 DEF OpsStaffTypeOK, StaffRequest
<1>4. \A x \in TokenIds : TokenShape(x)'
  <2> SUFFICES ASSUME NEW x \in TokenIds PROVE TokenShape(x)'
    OBVIOUS
  <2>1. TokenShape(x)
    BY DEF OpsStaffInv
  <2>2. CASE x # t
    <3>1. Dropping(x)' = Dropping(x)
      BY <1>2, <2>2 DEF Dropping
    <3> QED
      BY <1>1, <2>1, <2>2, <3>1 DEF TokenShape
  <2>3. CASE x = t
    <3>1. Dropping(t)' = Dropping(t) \cup {j}
      BY <1>2 DEF Dropping
    <3>2. t \notin staffRaced' => Dropping(t) = {} /\ t \notin staffRaced
      BY <1>1
    <3>3. t \notin staffRaced' => ~(exchanged[t] >= 1)
      BY <1>0, <2>1, <2>3, <3>2 DEF TokenShape
    <3>4. t \notin staffRaced' => exchanged[t] <= 1
      BY <2>1, <2>3, <3>2 DEF TokenShape
    <3> QED
      BY <1>0, <1>1, <2>3, <3>1, <3>2, <3>3, <3>4 DEF TokenShape
  <2> QED
    BY <2>2, <2>3
<1>5. \A i \in StaffJobs : StaffJobShape(i)'
  BY <1>1, <1>2 DEF OpsStaffInv, StaffJobShape
<1> QED
  BY <1>0, <1>1, <1>3, <1>4, <1>5, NothingOpened DEF OpsStaffInv

\* A session ends, by itself or for its exchange.
LEMMA DropKeeps ==
    ASSUME OpsStaffInv, NEW j \in StaffJobs, DropSession(j)
    PROVE  OpsStaffInv' /\ OpenedForActive
<1> DEFINE t == staffJob[j].token
<1>0. OpsStaffTypeOK /\ staffJob[j].pc = "drop" /\ t \in TokenIds /\ j \in Dropping(t) /\ staffJob[j] \in StaffRequest
  BY StaffTypes DEF OpsStaffInv, DropSession, StaffJobShape, Dropping
<1>1. TokenShape(t) /\ session[t] # NoSession
  BY <1>0 DEF OpsStaffInv, TokenShape
<1>2. session[t] \in StaffSession /\ session \in [TokenIds -> StaffSession \cup {NoSession}]
  BY <1>0, <1>1, StaffTypes DEF OpsStaffTypeOK, StaffSession
<1>3. /\ staffJob' = [staffJob EXCEPT ![j].pc = "open"] /\ exchanged' = [exchanged EXCEPT ![t] = @ + 1]
      /\ UNCHANGED <<staffRow, license>>
      /\ \/ session' = [session EXCEPT ![t].live = FALSE] /\ UNCHANGED <<staffRaced, staffFaults>>
         \/ StaffFault /\ staffRaced' = staffRaced \cup {t} /\ UNCHANGED session
  BY DEF DropSession
<1>4. /\ staffJob' \in [StaffJobs -> StaffRequest \cup {NoStaffJob}]
      /\ \A i \in StaffJobs \ {j} : staffJob'[i] = staffJob[i]
      /\ staffJob'[j].pc = "open" /\ staffJob'[j].user = staffJob[j].user
  <2>1. staffJob \in [StaffJobs -> StaffRequest \cup {NoStaffJob}]
    BY <1>0 DEF OpsStaffTypeOK, StaffRequest
  <2>2. [staffJob[j] EXCEPT !.pc = "open"] \in StaffRequest
    BY <1>0 DEF StaffRequest
  <2> QED
    BY <1>0, <1>3, <2>1, <2>2 DEF StaffRequest
<1>5. /\ session' \in [TokenIds -> StaffSession \cup {NoSession}]
      /\ \A x \in TokenIds \ {t} : session'[x] = session[x]
      /\ session'[t] # NoSession
      /\ session'[t].live = FALSE \/ t \in staffRaced'
  <2>1. CASE session' = [session EXCEPT ![t].live = FALSE]
    <3>1. [session[t] EXCEPT !.live = FALSE] \in StaffSession
      BY <1>2 DEF StaffSession
    <3>2. [session[t] EXCEPT !.live = FALSE] # NoSession
      BY <1>0, <3>1, StaffTypes
    <3> QED
      BY <1>0, <1>2, <2>1, <3>1, <3>2 DEF StaffSession
  <2>2. CASE staffRaced' = staffRaced \cup {t} /\ UNCHANGED session
    BY <1>1, <1>2, <2>2
  <2> QED
    BY <1>3, <2>1, <2>2
<1>6. exchanged' \in [TokenIds -> Nat] /\ exchanged'[t] = exchanged[t] + 1 /\ exchanged[t] \in Nat
      /\ \A x \in TokenIds \ {t} : exchanged'[x] = exchanged[x]
  BY <1>0, <1>3 DEF OpsStaffTypeOK
<1>7. staffRaced \subseteq staffRaced' /\ staffRaced' \subseteq TokenIds \cup Staff
  BY <1>0, <1>3 DEF OpsStaffTypeOK
<1>8. OpsStaffTypeOK'
  <2>1. staffFaults' \in 0..MaxStaffFaults
    BY <1>0, <1>3, StaffFaultType
  <2> QED
    BY <1>0, <1>3, <1>4, <1>5, <1>6, <1>7, <2>1 DEF OpsStaffTypeOK, StaffRequest, StaffSession
<1>9. \A x \in TokenIds : TokenShape(x)'
  <2> SUFFICES ASSUME NEW x \in TokenIds PROVE TokenShape(x)'
    OBVIOUS
  <2>1. TokenShape(x)
    BY DEF OpsStaffInv
  <2>2. CASE x # t
    <3>1. Dropping(x)' = Dropping(x)
      BY <1>4, <2>2 DEF Dropping
    <3> HIDE DEF t
    <3> QED
      BY <1>5, <1>6, <1>7, <2>1, <2>2, <3>1 DEF TokenShape
  <2>3. CASE x = t
    <3>1. Dropping(x)' = Dropping(x) \ {j}
      BY <1>4, <2>3 DEF Dropping
    <3>0. j \in Dropping(x)
      BY <1>0, <2>3
    <3>2. x \notin staffRaced' => x \notin staffRaced /\ exchanged[x] = 0 /\ Dropping(x)' = {}
      <4>1. exchanged[x] \in Nat
        BY <1>6, <2>3
      <4> HIDE DEF t
      <4> QED
        BY <1>7, <2>1, <3>0, <3>1, <4>1 DEF TokenShape
    <3>3. /\ session'[x] # NoSession /\ exchanged'[x] = exchanged[x] + 1
          /\ session'[x].live = FALSE \/ x \in staffRaced'
      BY <1>5, <1>6, <2>3
    <3> HIDE DEF t
    <3> QED
      BY <3>2, <3>3 DEF TokenShape
  <2> QED
    BY <2>2, <2>3
<1>10. \A i \in StaffJobs : StaffJobShape(i)'
  BY <1>0, <1>3, <1>4, <1>7 DEF OpsStaffInv, StaffJobShape
<1>11. OpenedForActive
  <2>1. \A x \in TokenIds : session[x] = NoSession => session'[x] = NoSession
    BY <1>1, <1>5
  <2> QED
    BY <1>0, <2>1, NothingOpened
<1> QED
  BY <1>8, <1>9, <1>10, <1>11 DEF OpsStaffInv

LEMMA ExpiryKeeps ==
    ASSUME OpsStaffInv, NEW t \in TokenIds, SessionExpires(t)
    PROVE  OpsStaffInv' /\ OpenedForActive
<1>0. OpsStaffTypeOK /\ session[t].live = TRUE /\ session[t] \in StaffSession /\ session[t] # NoSession
  <2>1. OpsStaffTypeOK /\ session[t].live
    BY DEF OpsStaffInv, SessionExpires
  <2>2. session[t].live = TRUE
    BY <2>1 DEF OpsStaffTypeOK, NoSession
  <2> QED
    BY <2>1, <2>2, StaffTypes
<1>1. UNCHANGED <<staffRow, staffJob, license, exchanged, staffRaced, staffFaults>>
      /\ session' = [session EXCEPT ![t].live = FALSE]
  BY DEF SessionExpires
<1>2. session \in [TokenIds -> StaffSession \cup {NoSession}]
  BY <1>0 DEF OpsStaffTypeOK, StaffSession
<1>3. /\ session' \in [TokenIds -> StaffSession \cup {NoSession}]
      /\ \A x \in TokenIds \ {t} : session'[x] = session[x]
      /\ session'[t] # NoSession /\ session'[t].live = FALSE
  <2>1. [session[t] EXCEPT !.live = FALSE] \in StaffSession
    BY <1>0 DEF StaffSession
  <2>2. [session[t] EXCEPT !.live = FALSE] # NoSession
    BY <1>0, <2>1, StaffTypes
  <2> QED
    BY <1>0, <1>1, <1>2, <2>1, <2>2 DEF StaffSession
<1>4. OpsStaffTypeOK'
  BY <1>0, <1>1, <1>3 DEF OpsStaffTypeOK, StaffSession
<1>5. \A x \in TokenIds : TokenShape(x)'
  <2> SUFFICES ASSUME NEW x \in TokenIds PROVE TokenShape(x)'
    OBVIOUS
  <2>1. TokenShape(x) /\ Dropping(x)' = Dropping(x)
    BY <1>1 DEF OpsStaffInv, Dropping
  <2> QED
    BY <1>1, <1>3, <2>1 DEF TokenShape
<1>6. \A i \in StaffJobs : StaffJobShape(i)'
  BY <1>1 DEF OpsStaffInv, StaffJobShape
<1>7. OpenedForActive
  BY <1>0, <1>3, NothingOpened
<1> QED
  BY <1>4, <1>5, <1>6, <1>7 DEF OpsStaffInv

\* A session is opened.
LEMMA OpenKeeps ==
    ASSUME OpsStaffInv, NEW j \in StaffJobs, OpenSession(j)
    PROVE  OpsStaffInv' /\ OpenedForActive
<1>0. OpsStaffTypeOK /\ staffJob[j].pc = "open" /\ staffJob[j] \in StaffRequest /\ StaffJobShape(j)
  BY StaffTypes DEF OpsStaffInv, OpenSession
<1>1. UNCHANGED <<staffRow, license, exchanged, staffRaced>> /\ staffJob' = [staffJob EXCEPT ![j] = NoStaffJob]
  BY DEF OpenSession, StaffJobEnds
<1>2. /\ staffJob' \in [StaffJobs -> StaffRequest \cup {NoStaffJob}]
      /\ \A i \in StaffJobs \ {j} : staffJob'[i] = staffJob[i]
      /\ staffJob'[j].pc = "idle"
  BY <1>0, <1>1 DEF OpsStaffTypeOK, StaffRequest, NoStaffJob
<1>3. \/ UNCHANGED session
      \/ \E t \in TokenIds \ Given :
           session' = [session EXCEPT ![t] = [user |-> staffJob[j].user, live |-> TRUE, email |-> staffJob[j].token = 0]]
  BY DEF OpenSession
<1>4. /\ session' \in [TokenIds -> StaffSession \cup {NoSession}]
      /\ \A x \in TokenIds : \/ session'[x] = session[x]
                             \/ session[x] = NoSession /\ session'[x] # NoSession /\ session'[x].user = staffJob[j].user
  <2>0. session \in [TokenIds -> StaffSession \cup {NoSession}]
    BY <1>0 DEF OpsStaffTypeOK, StaffSession
  <2>1. CASE UNCHANGED session
    BY <2>0, <2>1
  <2>2. ASSUME NEW t \in TokenIds \ Given,
               session' = [session EXCEPT ![t] = [user |-> staffJob[j].user, live |-> TRUE, email |-> staffJob[j].token = 0]]
        PROVE  /\ session' \in [TokenIds -> StaffSession \cup {NoSession}]
               /\ \A x \in TokenIds : \/ session'[x] = session[x]
                                      \/ session[x] = NoSession /\ session'[x] # NoSession /\ session'[x].user = staffJob[j].user
    <3> DEFINE new == [user |-> staffJob[j].user, live |-> TRUE, email |-> staffJob[j].token = 0]
    <3>1. (staffJob[j].token = 0) \in BOOLEAN
      OBVIOUS
    <3>2. new \in StaffSession /\ new.user = staffJob[j].user
      BY <1>0, <3>1 DEF StaffSession, StaffRequest
    <3>3. new # NoSession
      BY <1>0, <3>2, StaffTypes
    <3>4. session[t] = NoSession
      BY DEF Given
    <3> HIDE DEF new
    <3>5. session' = [session EXCEPT ![t] = new]
      BY <2>2 DEF new
    <3> QED
      BY <2>0, <3>2, <3>3, <3>4, <3>5
  <2> QED
    BY <1>3, <2>1, <2>2
<1>5. OpsStaffTypeOK'
  <2>1. staffFaults' \in 0..MaxStaffFaults
    BY <1>0, StaffFaultType DEF OpenSession
  <2> QED
    BY <1>0, <1>1, <1>2, <1>4, <2>1 DEF OpsStaffTypeOK, StaffRequest, StaffSession
<1>6. \A x \in TokenIds : TokenShape(x)'
  <2> SUFFICES ASSUME NEW x \in TokenIds PROVE TokenShape(x)'
    OBVIOUS
  <2>1. TokenShape(x) /\ Dropping(x)' = Dropping(x)
    BY <1>0, <1>2 DEF OpsStaffInv, Dropping
  <2>2. CASE session'[x] = session[x]
    BY <1>1, <2>1, <2>2 DEF TokenShape
  <2>3. CASE session[x] = NoSession /\ session'[x] # NoSession
    BY <1>1, <2>1, <2>3 DEF TokenShape
  <2> QED
    BY <1>4, <2>2, <2>3
<1>7. \A i \in StaffJobs : StaffJobShape(i)'
  BY <1>1, <1>2 DEF OpsStaffInv, StaffJobShape
<1>8. OpenedForActive
  <2> SUFFICES ASSUME NEW t \in TokenIds \ Given, session'[t].live
               PROVE  \E u \in {session'[t].user} : staffRow[u] = "active" \/ u \in staffRaced
    BY DEF OpenedForActive
  <2>1. session[t] = NoSession /\ session'[t] # NoSession
    <3>1. session[t] = NoSession
      BY DEF Given
    <3>2. session'[t] # NoSession
      BY DEF NoSession
    <3> QED
      BY <3>1, <3>2
  <2>2. session'[t].user = staffJob[j].user
    BY <1>4, <2>1
  <2> QED
    BY <1>0, <2>2 DEF StaffJobShape
<1> QED
  BY <1>5, <1>6, <1>7, <1>8 DEF OpsStaffInv

LEMMA StaffKeep == ASSUME OpsStaffInv, [OpsStaffNext]_staffVars PROVE OpsStaffInv' /\ [OpenedForActive]_staffVars
<1>1. CASE UNCHANGED staffVars
  BY <1>1 DEF staffVars, OpsStaffInv, OpsStaffTypeOK, TokenShape, StaffJobShape, Dropping
<1> QED
  BY <1>1, StaffRowsKeep, StaffJobsKeep, RefreshKeeps, DropKeeps, ExpiryKeeps, OpenKeeps DEF OpsStaffNext

LEMMA StaffIsExchangedOnce == OpsStaffInv => ExchangedOnce
BY DEF OpsStaffInv, TokenShape, ExchangedOnce

\* A refresh token of the staff is accepted once, unless two refreshes read it together or
\* its delete failed, and a session is opened for an active member only, or for one who was
\* deactivated after the request had read the row (ops_auth.go), for any number of both.
THEOREM StaffSessionsAreSound == OpsStaffSpec => []ExchangedOnce /\ OpensForActive
<1>1. OpsStaffInv /\ [OpsStaffNext]_staffVars =>
        [\A t \in TokenIds \ Given :
            session'[t].live => \E u \in {session'[t].user} : staffRow[u] = "active" \/ u \in staffRaced]_staffVars
  BY StaffKeep DEF OpenedForActive
<1>2. OpsStaffInv /\ [OpsStaffNext]_staffVars => OpsStaffInv'
  BY StaffKeep
<1> QED
  BY <1>1, <1>2, InitStaff, StaffIsExchangedOnce, PTL DEF OpsStaffSpec, OpensForActive

=============================================================================
