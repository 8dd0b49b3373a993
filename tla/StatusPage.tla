----------------------------- MODULE StatusPage -----------------------------
(***************************************************************************)
(* The status recorder and the status page (cmd/server/main.go               *)
(* runStatusRecorder, internal/status/handler.go): every five minutes, and    *)
(* when the process starts, all regions are checked at once and what was seen *)
(* is inserted; the history and the SLA are computed from those rows.          *)
(*                                                                         *)
(* A remote region is probed at localhost:8080, whatever the region: it is    *)
(* this server that answers.  Time is counted in ticks of the recorder.        *)
(***************************************************************************)
EXTENDS Integers, Sequences, FiniteSets, FiniteSetsExt, SequencesExt

CONSTANTS
    Remotes,          \* the other regions
    DayTicks,         \* ticks in a day
    Spans,            \* values of ?days=
    MaxTick, MaxRounds, MaxHealthChanges   \* bounds

ASSUME StatusPageAssumption ==
    /\ IsFiniteSet(Remotes) /\ "local" \notin Remotes /\ DayTicks \in Nat \ {0}
    /\ Spans \subseteq Nat \ {0} /\ IsFiniteSet(Spans)
    /\ MaxTick \in Nat /\ MaxRounds \in Nat /\ MaxHealthChanges \in Nat

VARIABLES
    health,         \* health[p]: what a check of part p finds now
    answering,      \* this server answers on its port
    now,
    round,          \* the recorder's round: when it began, and rows[g] once g was checked
    statusChecks,   \* the rows of status_checks, a round at a time
    missed,         \* rounds that were not inserted
    illAt,          \* history: <<p, t>> when part p was unwell at some moment of tick t
    healthChanges

statusVars == <<health, answering, now, round, statusChecks, missed, illAt, healthChanges>>

AllRegions == {"local"} \cup Remotes

\* The components in the order the history lists them, by name.
ByName == <<"API Server", "Cache", "Connection Pool", "Database", "Flag Evaluation Engine", "Real-time Streaming">>
AllParts == Range(ByName)

\* The parts a check can find unwell, and how; the others always report themselves well.
Unwell == [p \in {"Cache", "Connection Pool", "Database"} |-> IF p = "Database" THEN "down" ELSE "degraded"]
Well == [p \in AllParts |-> "operational"]

NoRound == [began |-> -1, rows |-> <<>>]
DayOf(t) == t \div DayTicks
Statuses == {"operational", "degraded", "down", "unreachable"}
RowsOf == [AllParts -> Statuses] \cup [{"API Server"} -> Statuses]

StatusPageTypeOK ==
    /\ health \in [AllParts -> Statuses] /\ answering \in BOOLEAN /\ now \in 0..MaxTick
    /\ round = [began |-> round.began, rows |-> round.rows] /\ round.began \in -1..MaxTick
    /\ DOMAIN round.rows \subseteq AllRegions /\ round.rows \in [DOMAIN round.rows -> RowsOf]
    /\ statusChecks \in Seq([at : 0..MaxTick, began : -1..MaxTick, rows : [AllRegions -> RowsOf]])
    /\ Len(statusChecks) <= MaxRounds
    /\ missed \in 0..MaxRounds /\ illAt \subseteq AllParts \X (0..MaxTick)
    /\ healthChanges \in 0..MaxHealthChanges

IllNow(t) == {<<p, t>> : p \in {q \in AllParts : health[q] # "operational"}}

StatusPageInit ==
    /\ health = Well /\ answering = FALSE /\ now = 0 /\ round = NoRound
    /\ statusChecks = <<>> /\ missed = 0 /\ illAt = {} /\ healthChanges = 0

-----------------------------------------------------------------------------
\* The surroundings: a part falls ill or recovers, the server comes to answer, time goes on.
HealthChanges(p) ==
    /\ healthChanges < MaxHealthChanges /\ healthChanges' = healthChanges + 1
    /\ health' = [health EXCEPT ![p] = IF @ = "operational" THEN Unwell[p] ELSE "operational"]
    /\ illAt' = illAt \cup IllNow(now) \cup {<<p, now>>}
    /\ UNCHANGED <<answering, now, round, statusChecks, missed>>

ListenAndServe ==
    /\ ~answering /\ answering' = TRUE
    /\ UNCHANGED <<health, now, round, statusChecks, missed, illAt, healthChanges>>

Tick ==
    /\ now < MaxTick /\ now' = now + 1 /\ illAt' = illAt \cup IllNow(now')
    /\ UNCHANGED <<health, answering, round, statusChecks, missed, healthChanges>>

\* The process is restarted: the round it was in is gone.
ProcessRestarts ==
    /\ round # NoRound /\ round' = NoRound /\ answering' = FALSE
    /\ missed' = missed + 1
    /\ UNCHANGED <<health, now, statusChecks, illAt, healthChanges>>

-----------------------------------------------------------------------------
\* record: a round begins, at the start of the process or with the ticker.
Record ==
    /\ round = NoRound /\ Len(statusChecks) + missed < MaxRounds
    /\ round' = [began |-> now, rows |-> <<>>]
    /\ UNCHANGED <<health, answering, now, statusChecks, missed, illAt, healthChanges>>

\* checkLocal: each part looked at in turn, here at once.
checkLocal == health

OnlyAPI(status) == [p \in {"API Server"} |-> status]

\* probeRemoteRegion: /health, then /v1/status, both of this server.  A refused connection
\* is "unreachable" (isUnreachableError), a timeout "down"; without a status page the
\* region is what /health said.
probeRemoteRegion ==
    IF answering THEN {checkLocal, OnlyAPI("operational"), OnlyAPI("degraded"), OnlyAPI("down")}
    ELSE {OnlyAPI("unreachable")}

\* CheckAllRegions: the local region and the remote ones, in any order.
CheckRegion(g) ==
    /\ round # NoRound /\ g \notin DOMAIN round.rows
    /\ \E rows \in IF g = "local" THEN {checkLocal} ELSE probeRemoteRegion :
          round' = [round EXCEPT !.rows = [x \in DOMAIN @ \cup {g} |-> IF x = g THEN rows ELSE @[x]]]
    /\ UNCHANGED <<health, answering, now, statusChecks, missed, illAt, healthChanges>>

Checked == round # NoRound /\ DOMAIN round.rows = AllRegions

\* InsertStatusChecks: one batch, dated now, when all regions have been checked.
InsertStatusChecks ==
    /\ Checked /\ health["Database"] = "operational"
    /\ statusChecks' = Append(statusChecks, [at |-> now, began |-> round.began, rows |-> round.rows])
    /\ round' = NoRound /\ UNCHANGED <<health, answering, now, missed, illAt, healthChanges>>

\* The batch is refused: logged, the round is lost.
InsertFails ==
    /\ Checked /\ missed' = missed + 1 /\ round' = NoRound
    /\ UNCHANGED <<health, answering, now, statusChecks, illAt, healthChanges>>

StatusPageNext ==
    \/ \E p \in DOMAIN Unwell : HealthChanges(p)
    \/ ListenAndServe \/ Tick \/ ProcessRestarts \/ Record
    \/ \E g \in AllRegions : CheckRegion(g)
    \/ InsertStatusChecks \/ InsertFails

StatusPageSpec == StatusPageInit /\ [][StatusPageNext]_statusVars

-----------------------------------------------------------------------------
\* GetComponentHistory: the rows of the last `days' times 24 hours, but the unreachable ones,
\* as counts by day, region and component.
InWindow(days) == {i \in DOMAIN statusChecks : statusChecks[i].at >= now - days * DayTicks}
RowsFor(g, d, p, days) ==
    {i \in InWindow(days) : /\ DayOf(statusChecks[i].at) = d /\ p \in DOMAIN statusChecks[i].rows[g]
                            /\ statusChecks[i].rows[g][p] # "unreachable"}
GoodFor(g, d, p, days) == {i \in RowsFor(g, d, p, days) : statusChecks[i].rows[g][p] = "operational"}

DaysWith(g, days) == {d \in 0..DayOf(now) : \E p \in AllParts : RowsFor(g, d, p, days) # {}}

\* HandleSLA's dates[date]: every component of the day assigns it, the last by name stays.
LastOf(g, d, days) ==
    ByName[Max({k \in DOMAIN ByName : RowsFor(g, d, ByName[k], days) # {}})]
FlaggedGood(g, d, days) ==
    LET p == LastOf(g, d, days) IN GoodFor(g, d, p, days) = RowsFor(g, d, p, days)

\* Mutant: a day without data ends the streak.
StreakStopped(g, days) ==
    LET back == {d \in 0..DayOf(now) : DayOf(now) - d < days}
        counts == {d \in back : d \in DaysWith(g, days) /\ FlaggedGood(g, d, days)}
    IN Cardinality({d \in counts : \A e \in back : e > d => e \in counts})

\* The streak: the days back from today that are flagged, up to one that is not; days
\* without data are passed over.
Streak(g, days) ==
    LET back == {d \in 0..DayOf(now) : DayOf(now) - d < days} \cap DaysWith(g, days)
        counts == {d \in back : FlaggedGood(g, d, days)}
    IN Cardinality({d \in counts : \A e \in back : e > d => e \in counts})

\* Uptime over the window: operational checks of all checks.
UptimeIsFull(g, days) ==
    \A d \in DaysWith(g, days), p \in AllParts : GoodFor(g, d, p, days) = RowsFor(g, d, p, days)

\* What the page says is so.  A part other than the API server is recorded as unwell, for
\* whichever region, only if that part of this server was, between the beginning of the round
\* and its date; such a row spoils the uptime of every window it is in; a region whose uptime is
\* perfect has all its days in its streak.  (The streak of the local region has all its days
\* whatever happened: the last component by name always reports itself well.)
StatusTruthful ==
    /\ \A i \in DOMAIN statusChecks : \A g \in AllRegions :
          \A p \in DOMAIN statusChecks[i].rows[g] \ {"API Server"} :
             statusChecks[i].rows[g][p] # "operational" =>
                /\ \E t \in statusChecks[i].began..statusChecks[i].at : <<p, t>> \in illAt
                /\ \A days \in Spans : i \in InWindow(days) => ~UptimeIsFull(g, days)
    /\ \A g \in AllRegions, days \in Spans :
          UptimeIsFull(g, days) \/ g = "local" =>
              Streak(g, days) = Cardinality({d \in DaysWith(g, days) : DayOf(now) - d < days})

-----------------------------------------------------------------------------
(* What a row stands for, from the moment it is taken.                        *)

\* The rows of region g, taken between two ticks: what is unwell in them was so at one of
\* them, and nothing but the API server is "unreachable"; the rows of the local region are of
\* all parts, the last of which is well.
SeenBetween(rows, g, ill, from, to) ==
    /\ \A p \in DOMAIN rows \ {"API Server"} :
          /\ rows[p] # "unreachable"
          /\ rows[p] # "operational" => \E t \in from..to : <<p, t>> \in ill
    /\ g = "local" => DOMAIN rows = AllParts /\ rows["Real-time Streaming"] = "operational"

\* What ails a part now is remembered, and the last part is never unwell.
HealthRemembered ==
    /\ IllNow(now) \subseteq illAt /\ health["Real-time Streaming"] = "operational"
    /\ \A p \in AllParts : health[p] # "unreachable"

\* The inductive invariant of the recorder.
StatusPageInv ==
    /\ StatusPageTypeOK /\ HealthRemembered
    /\ round # NoRound =>
          /\ round.began <= now /\ Len(statusChecks) + missed < MaxRounds
          /\ \A g \in DOMAIN round.rows : SeenBetween(round.rows[g], g, illAt, round.began, now)
    /\ Len(statusChecks) + missed <= MaxRounds
    /\ \A i \in DOMAIN statusChecks :
          /\ statusChecks[i].at <= now
          /\ \A g \in AllRegions :
                SeenBetween(statusChecks[i].rows[g], g, illAt, statusChecks[i].began, statusChecks[i].at)
=============================================================================
