----------------------------- MODULE EvalEngine -----------------------------
(***************************************************************************)
(* The evaluation engine (internal/eval): what one user is served from a     *)
(* ruleset, while administrators edit the ruleset (FlagHandler.Update and    *)
(* UpdateState, one field at a time; flags.go validates neither cycles nor   *)
(* groups).  The hash is an arbitrary function from flags to buckets; a      *)
(* percentage is a number of the Full buckets (10000 in the code).           *)
(***************************************************************************)
EXTENDS Naturals, Sequences, FiniteSets, SequencesExt

CONSTANTS
    FlagKeys,    \* sequence of flag keys in lexicographic order
    Full,        \* buckets of BucketUser (10000)
    RuleLists,   \* values the administrators give to a state's rules
    VariantLists,\* values they give to its variants (weights)
    MaxPrereqs,  \* bound: prerequisites of a flag
    MaxEngineEdits   \* bound: edits of the ruleset

EngineFlags == ToSet(FlagKeys)

ASSUME EngineAssumption ==
    /\ FlagKeys \in Seq(EngineFlags)
    /\ Full \in Nat \ {0} /\ MaxPrereqs \in Nat /\ MaxEngineEdits \in Nat
    /\ <<>> \in RuleLists /\ <<>> \in VariantLists

VARIABLES
    ruleset,  \* ruleset[f]: the flag's row and its state in the environment
    bucket,   \* bucket[f]: BucketUser(f, user)
    engineEdits

engineVars == <<ruleset, bucket, engineEdits>>

\* Prerequisites without repetition.
Prereqs == UNION {{p \in [1..n -> EngineFlags] : IsInjective(p)} : n \in 0..MaxPrereqs}

\* One targeting rule: whether its segments and conditions match the user, its
\* priority, its percentage, the value it gives.
RuleRow == [conds : Seq(BOOLEAN), match : {"all", "any", ""}, priority : Nat,
            percentage : 0..Full, value : {"on", "off"}]

\* bool: a boolean flag ("off" is false); override: the state has a default
\* value of its own ("on"), otherwise the flag's default ("off") is served.
FlagRow == [exists : BOOLEAN, bool : BOOLEAN, expired : BOOLEAN, enabled : BOOLEAN,
            group : BOOLEAN, prereqs : Prereqs, override : BOOLEAN,
            rollout : 0..Full, rules : RuleLists, variants : VariantLists]

EngineTypeOK ==
    /\ ruleset \in [EngineFlags -> FlagRow]
    /\ bucket \in [EngineFlags -> 0..(Full - 1)]
    /\ engineEdits \in 0..MaxEngineEdits

NewFlag == [exists |-> TRUE, bool |-> TRUE, expired |-> FALSE, enabled |-> TRUE, group |-> FALSE,
            prereqs |-> <<>>, override |-> TRUE, rollout |-> 0, rules |-> <<>>,
            variants |-> <<>>]

EngineInit ==
    /\ ruleset = [f \in EngineFlags |-> NewFlag]
    /\ bucket \in [EngineFlags -> 0..(Full - 1)]
    /\ engineEdits = 0

-----------------------------------------------------------------------------
(***************************************************************************)
(* The engine.                                                               *)
(***************************************************************************)
\* MatchConditions over the outcomes of MatchCondition.
MatchConditions(conds, match) ==
    \/ conds = <<>>
    \/ match = "any" /\ \E i \in DOMAIN conds : conds[i]
    \/ match = "all" /\ \A i \in DOMAIN conds : conds[i]

\* A rule without conditions matches everybody; no match type means all.
matchRule(rule) ==
    \/ rule.conds = <<>>
    \/ MatchConditions(rule.conds, IF rule.match = "" THEN "all" ELSE rule.match)

\* The rules, by priority, that match and whose percentage holds a user in bucket b: the
\* first one counts.
RuleHits(rules, b) ==
    SelectSeq(SortSeq(rules, LAMBDA q, r : q.priority < r.priority),
              LAMBDA r : matchRule(r) /\ b < r.percentage)

Enabled(f) == ruleset[f].exists /\ ruleset[f].enabled

\* Mutant: a tie of buckets is won by both flags.
winsTies(f) ==
    \A g \in EngineFlags \ {f} :
        ruleset[g].group /\ Enabled(g) => bucket[f] <= bucket[g]

\* The place of the key in their order.
Position(f) == CHOOSE i \in DOMAIN FlagKeys : FlagKeys[i] = f

\* The lowest bucket among the enabled flags of the group wins; ties go to the
\* smaller key.  Expired flags take part.
winsMutexGroup(f) ==
    \A g \in EngineFlags \ {f} :
        ruleset[g].group /\ Enabled(g) =>
            \/ bucket[f] < bucket[g]
            \/ bucket[f] = bucket[g] /\ Position(f) < Position(g)

\* evaluateVariant: the first variant whose cumulative weight exceeds the
\* bucket, the last one when the weights do not reach it.
evaluateVariant(weights, b) ==
    LET upTo[i \in 0..Len(weights)] == IF i = 0 THEN 0 ELSE upTo[i - 1] + weights[i]
        reached == {i \in DOMAIN weights : b < upTo[i]}
    IN  IF reached = {} THEN Len(weights) ELSE Min(reached)

Result(value, reason) == [value |-> value, reason |-> reason, variant |-> 0]
Default(f) == IF ruleset[f].override THEN "on" ELSE "off"

\* Mutant: the rollout is compared from the top.
ServeFromTop(f) ==
    LET r == ruleset[f]
        hits == RuleHits(r.rules, bucket[f])
    IN
    CASE hits # <<>> ->
           [value |-> Head(hits).value, variant |-> 0,
            reason |-> IF Head(hits).percentage >= Full THEN "TARGETED" ELSE "ROLLOUT"]
      [] hits = <<>> /\ r.rollout > 0 ->
           IF bucket[f] % r.rollout = 0 THEN Result(Default(f), "ROLLOUT")
           ELSE Result("off", "FALLTHROUGH")
      [] OTHER -> Result(Default(f), "FALLTHROUGH")

\* Rules, then the rollout of the default, then the variants, then the default.
Serve(f) ==
    LET r == ruleset[f]
        hits == RuleHits(r.rules, bucket[f])
    IN
    CASE hits # <<>> ->
           [value |-> Head(hits).value, variant |-> 0,
            reason |-> IF Head(hits).percentage >= Full THEN "TARGETED" ELSE "ROLLOUT"]
      [] hits = <<>> /\ r.rollout > 0 ->
           IF bucket[f] < r.rollout THEN Result(Default(f), "ROLLOUT")
           ELSE Result("off", "FALLTHROUGH")
      [] hits = <<>> /\ r.rollout = 0 /\ r.variants # <<>> ->
           [value |-> "on", reason |-> "VARIANT",
            variant |-> evaluateVariant(r.variants, bucket[f])]
      [] OTHER -> Result(Default(f), "FALLTHROUGH")

Off(reason) == Result("off", reason)

\* A prerequisite's result lets the flag that needs it go on.
Passes(g, result) ==
    /\ result.reason \notin {"NOT_FOUND", "DISABLED"}
    /\ ~(ruleset[g].bool /\ result.value = "off")

\* evaluate, given what its loop over the prerequisites says.  visited is one map
\* for the whole call: a flag with prerequisites stays in it when its evaluation
\* is over, so the map is returned with the result.
evaluateBy(f, visited, needs) ==
    LET r == ruleset[f] IN
    IF ~r.exists THEN <<Off("NOT_FOUND"), visited>>
    ELSE IF r.expired \/ ~r.enabled THEN <<Off("DISABLED"), visited>>
    ELSE IF r.group /\ ~winsMutexGroup(f) THEN <<Off("MUTUALLY_EXCLUDED"), visited>>
    ELSE IF r.prereqs = <<>> THEN <<Serve(f), visited>>
    ELSE LET met == needs[<<f, visited \cup {f}, 1>>]
         IN  <<IF met[1] THEN Serve(f) ELSE Off("PREREQUISITE_FAILED"), met[2]>>

\* The loop over the prerequisites of l[1] from number l[3] on, with the map l[2]: it ends at
\* the first that is being evaluated already or does not pass.
Loops == EngineFlags \X (SUBSET EngineFlags) \X (1..(MaxPrereqs + 1))

LoopFrom(l, needs) ==
    LET prereqs == ruleset[l[1]].prereqs
        g == prereqs[l[3]]
        got == evaluateBy(g, l[2], needs)
    IN  CASE l[3] > Len(prereqs) -> <<TRUE, l[2]>>
          [] l[3] <= Len(prereqs) /\ g \in l[2] -> <<FALSE, l[2]>>
          [] OTHER -> IF Passes(g, got[1]) THEN needs[<<l[1], got[2], l[3] + 1>>]
                      ELSE <<FALSE, got[2]>>

Needs[l \in Loops] == LoopFrom(l, Needs)

evaluate(f, visited) == evaluateBy(f, visited, Needs)
Evaluate(f) == evaluate(f, {})[1]

-----------------------------------------------------------------------------
(***************************************************************************)
(* The edits.                                                                *)
(***************************************************************************)
Edit(f, row) ==
    /\ row # ruleset[f]
    /\ engineEdits < MaxEngineEdits
    /\ engineEdits' = engineEdits + 1
    /\ ruleset' = [ruleset EXCEPT ![f] = row]
    /\ UNCHANGED bucket

\* FlagHandler.Update writes the group of every request, also of one that does
\* not name it.
UpdateFlag(f) ==
  /\ ruleset[f].exists
  /\ \/ \E p \in Prereqs, g \in BOOLEAN :
           Edit(f, [ruleset[f] EXCEPT !.prereqs = p, !.group = g])
     \/ Edit(f, [ruleset[f] EXCEPT !.expired = ~@])

UpdateFlagState(f) ==
  /\ ruleset[f].exists
  /\ \/ Edit(f, [ruleset[f] EXCEPT !.enabled = ~@])
     \/ \E p \in 0..Full : Edit(f, [ruleset[f] EXCEPT !.rollout = p])
     \/ \E rs \in RuleLists : Edit(f, [ruleset[f] EXCEPT !.rules = rs])
     \/ \E vs \in VariantLists : Edit(f, [ruleset[f] EXCEPT !.variants = vs])

\* A deleted flag stays among the prerequisites of the others.
RemoveFlag(f) == Edit(f, [ruleset[f] EXCEPT !.exists = FALSE])

\* The flag is made with another type, or without a default of its state.
CreateFlag(f) ==
    \E b, o \in BOOLEAN : Edit(f, [NewFlag EXCEPT !.bool = b, !.override = o])

EngineNext ==
    \E f \in EngineFlags :
        UpdateFlag(f) \/ UpdateFlagState(f) \/ RemoveFlag(f) \/ CreateFlag(f)

EngineSpec == EngineInit /\ [][EngineNext]_engineVars

-----------------------------------------------------------------------------
Served(f) == Evaluate(f).reason \notin {"NOT_FOUND", "DISABLED", "MUTUALLY_EXCLUDED"}

\* Of the flags of a mutual exclusion group a user is served at most one,
\* whatever the buckets, ties included, and the edits.
MutexExclusive ==
    \A f, g \in EngineFlags :
        ruleset[f].group /\ ruleset[g].group /\ Served(f) /\ Served(g) => f = g

OnlyRolloutOf(f) == ruleset' = [ruleset EXCEPT ![f].rollout = ruleset'[f].rollout]

\* A rollout that is raised only adds users: whoever had the feature by the
\* rollout keeps it (a user's bucket does not depend on the percentage).
RolloutOnlyGrows ==
    [][\A f \in EngineFlags :
         /\ OnlyRolloutOf(f)
         /\ ruleset[f].rollout \in 1..ruleset'[f].rollout
         /\ Evaluate(f).reason = "ROLLOUT"
         => Evaluate(f)' = Evaluate(f)]_engineVars

=============================================================================
