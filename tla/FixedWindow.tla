----------------------------- MODULE FixedWindow -----------------------------
(***************************************************************************)
(* The server's rate limiters for one client key (middleware/ratelimit.go:   *)
(* RateLimit, AgentRateLimit and TierRateLimit, whose limit is the plan's at *)
(* the time of the request): a counter that starts anew when its window is   *)
(* over.  Time is counted in ticks.                                          *)
(***************************************************************************)
EXTENDS Naturals, FiniteSets, FiniteSetsExt

CONSTANTS
    PlanLimits,   \* tierLimits: requests admitted per window
    FixedLength,  \* rl.window, in ticks
    MaxFixedTime, \* bound: the clock
    MaxPerTick    \* bound: requests in a tick

ASSUME FixedWindowAssumption ==
    /\ PlanLimits \subseteq Nat \ {0} /\ PlanLimits # {} /\ IsFiniteSet(PlanLimits)
    /\ FixedLength \in Nat \ {0} /\ MaxFixedTime \in Nat /\ MaxPerTick \in Nat

VARIABLES
    fixedNow,      \* the clock
    visitor,       \* the key's entry: requests counted and end of the window
    planLimit,     \* the limit of the organization's plan
    fixedAdmitted, \* history: requests served: when, the end of the window, which of it
    fixedSeen      \* history: requests in this tick

fixedVars == <<fixedNow, visitor, planLimit, fixedAdmitted, fixedSeen>>

NoVisitor == [count |-> 0, resetAt |-> 0]

FixedWindowTypeOK ==
    /\ fixedNow \in 0..MaxFixedTime
    /\ visitor \in [count : Nat, resetAt : 0..(MaxFixedTime + FixedLength)]
    /\ planLimit \in PlanLimits
    /\ fixedAdmitted \subseteq [at : 0..MaxFixedTime, end : 0..(MaxFixedTime + FixedLength), nth : Nat]
    /\ fixedSeen \in 0..MaxPerTick

FixedWindowInit ==
    /\ fixedNow = 0 /\ visitor = NoVisitor /\ planLimit \in PlanLimits
    /\ fixedAdmitted = {} /\ fixedSeen = 0

\* The request is served: X-RateLimit-Remaining and next.ServeHTTP.
FixedAdmit ==
    fixedAdmitted' = fixedAdmitted \union
        {[at |-> fixedNow, end |-> visitor'.resetAt, nth |-> visitor'.count]}
FixedRequest == fixedSeen < MaxPerTick /\ fixedSeen' = fixedSeen + 1

\* No entry, or its window is over (After: strictly).
Stale == visitor.count = 0 \/ fixedNow > visitor.resetAt

OpenWindow ==
    /\ FixedRequest /\ Stale
    /\ visitor' = [count |-> 1, resetAt |-> fixedNow + FixedLength]
    /\ FixedAdmit /\ UNCHANGED <<fixedNow, planLimit>>

\* The request is counted also when it is refused.
CountRequest ==
    /\ FixedRequest /\ ~Stale
    /\ visitor' = [visitor EXCEPT !.count = @ + 1]
    /\ IF visitor'.count > planLimit THEN UNCHANGED fixedAdmitted ELSE FixedAdmit
    /\ UNCHANGED <<fixedNow, planLimit>>

\* The clean-up goroutine.
DropVisitor ==
    /\ Stale /\ visitor' = NoVisitor
    /\ UNCHANGED <<fixedNow, planLimit, fixedAdmitted, fixedSeen>>

ChangePlan ==
    /\ planLimit' \in PlanLimits
    /\ UNCHANGED <<fixedNow, visitor, fixedAdmitted, fixedSeen>>

FixedTick ==
    /\ fixedNow < MaxFixedTime
    /\ fixedNow' = fixedNow + 1 /\ fixedSeen' = 0
    /\ UNCHANGED <<visitor, planLimit, fixedAdmitted>>

FixedWindowNext == OpenWindow \/ CountRequest \/ DropVisitor \/ ChangePlan \/ FixedTick

FixedWindowSpec == FixedWindowInit /\ [][FixedWindowNext]_fixedVars

\* The requests served in a stretch as long as a window.
FixedIn(from) == {q \in fixedAdmitted : from <= q.at /\ q.at <= from + FixedLength}

-----------------------------------------------------------------------------
\* A client gets at most twice the highest limit in any stretch of the length of
\* the window, whatever its requests' times, plan changes and clean-ups: the
\* windows are disjoint, and no request finds a fresh one before the last is over.
FixedWindowBound == \A from \in 0..MaxFixedTime : Cardinality(FixedIn(from)) <= 2 * Max(PlanLimits)

=============================================================================
