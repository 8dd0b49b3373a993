------------------------------ MODULE Janitor ------------------------------
(***************************************************************************)
(* The AI janitor for one organization (handlers/janitor.go, its PostgreSQL  *)
(* store and the scan event bus of sse/janitor.go): repositories, scans that *)
(* run in a goroutine of their own, and clients that follow a scan.          *)
(*                                                                           *)
(* What the store does decides how far the handlers get.  ListRepositories   *)
(* does not read the token, so a scan can open no repository and finds no    *)
(* stale flag; GetScan reads the column error_message, which is null, into a *)
(* string and fails, so that no scan is cancelled or sees that it is.  The   *)
(* rows of janitor_stale_flags and janitor_prs, DismissFlag and the body of  *)
(* GeneratePR are beyond reach.                                              *)
(***************************************************************************)
EXTENDS Naturals, Sequences, FiniteSets

CONSTANTS
    Repos,          \* repositories the tokens give access to
    ScanReqs,       \* requests to scan, in flight
    Followers,      \* clients of ScanEvents
    MaxScans,       \* bound: scans created
    FlagCounts,     \* how many flags the organization may have
    FollowBuffer,   \* Subscribe: the channel's capacity
    MaxJanitorFaults \* bound: statements and API calls that fail, crashes

ASSUME JanitorAssumption ==
    /\ IsFiniteSet(Repos) /\ IsFiniteSet(ScanReqs) /\ IsFiniteSet(Followers)
    /\ MaxScans \in Nat /\ FlagCounts \subseteq Nat /\ FlagCounts # {}
    /\ FollowBuffer \in Nat \ {0} /\ MaxJanitorFaults \in Nat

VARIABLES
    repoRow,      \* repoRow[r]: janitor_repositories: "none", "on" (connected), "off"
    scanRecent,   \* lastScanTimes: a scan was asked for in the last five minutes
    scanReq,      \* scanReq[q]: where the request is
    scanRow,      \* scanRow[i]: janitor_scans.status; "none" before CreateScan
    scanRun,      \* scanRun[i]: the goroutine: flags it has left, or why it is gone
    follower,     \* follower[f]: the scan followed, messages buffered, and what it knows
    janitorFaults

janitorVars == <<repoRow, scanRecent, scanReq, scanRow, scanRun, follower, janitorFaults>>

ScanIds == 1..MaxScans
\* left: flags to go; pc: "update" (to in_progress), "flags", "complete", "publish",
\* "done", "lost" (the status update failed) or "none".
NoRun == [pc |-> "none", left |-> 0]
\* early: it subscribed before the scan's end was published; end: the end is in its
\* buffer or was written to it; full: an event found its buffer full.
NotFollowing == [scan |-> 0, buffered |-> 0, early |-> FALSE, end |-> FALSE, full |-> FALSE]

JanitorTypeOK ==
    /\ repoRow \in [Repos -> {"none", "on", "off"}]
    /\ scanRecent \in BOOLEAN
    /\ scanReq \in [ScanReqs -> {"idle", "limit", "check", "create"}]
    /\ scanRow \in [ScanIds -> {"none", "pending", "in_progress", "completed"}]
    /\ scanRun \in [ScanIds ->
          [pc : {"none", "update", "flags", "complete", "publish", "done", "lost"}, left : Nat]]
    /\ follower \in [Followers -> [scan : 0..MaxScans, buffered : 0..FollowBuffer,
                                   early : BOOLEAN, end : BOOLEAN, full : BOOLEAN]]
    /\ janitorFaults \in 0..MaxJanitorFaults

JanitorInit ==
    /\ repoRow = [r \in Repos |-> "none"] /\ scanRecent = FALSE
    /\ scanReq = [q \in ScanReqs |-> "idle"]
    /\ scanRow = [i \in ScanIds |-> "none"] /\ scanRun = [i \in ScanIds |-> NoRun]
    /\ follower = [f \in Followers |-> NotFollowing] /\ janitorFaults = 0

JanitorFault == janitorFaults < MaxJanitorFaults /\ janitorFaults' = janitorFaults + 1

\* The token is checked with the provider, which lists the repositories; the row is
\* made or connected again.
ConnectRepository(r) ==
    /\ repoRow' = [repoRow EXCEPT ![r] = "on"]
    /\ UNCHANGED <<scanRecent, scanReq, scanRow, scanRun, follower, janitorFaults>>

DisconnectRepository(r) ==
    /\ repoRow[r] # "none" /\ repoRow' = [repoRow EXCEPT ![r] = "off"]
    /\ UNCHANGED <<scanRecent, scanReq, scanRow, scanRun, follower, janitorFaults>>

FiveMinutes ==
    /\ scanRecent /\ scanRecent' = FALSE
    /\ UNCHANGED <<repoRow, scanReq, scanRow, scanRun, follower, janitorFaults>>

-----------------------------------------------------------------------------
(* Scan *)

ToScan(q, pc) == scanReq' = [scanReq EXCEPT ![q] = pc]

\* The time of the last scan is read, and written after the body is decoded: nothing
\* keeps another request from reading it in between.
AskScan(q) ==
    /\ scanReq[q] = "idle" /\ ~scanRecent
    /\ ToScan(q, "limit")
    /\ UNCHANGED <<repoRow, scanRecent, scanRow, scanRun, follower, janitorFaults>>

MarkScan(q) ==
    /\ scanReq[q] = "limit"
    /\ scanRecent' = TRUE /\ ToScan(q, "check")
    /\ UNCHANGED <<repoRow, scanRow, scanRun, follower, janitorFaults>>

\* Repositories, balance, projects and flags; without a repository, or the credits,
\* or with a failed statement the request is refused.
CheckScan(q) ==
    /\ scanReq[q] = "check"
    /\ \/ (\E r \in Repos : repoRow[r] = "on") /\ ToScan(q, "create")
       \/ ToScan(q, "idle")
    /\ UNCHANGED <<repoRow, scanRecent, scanRow, scanRun, follower, janitorFaults>>

CreateScan(q) ==
    /\ scanReq[q] = "create" /\ ToScan(q, "idle")
    /\ \/ \E i \in ScanIds, n \in FlagCounts :
             /\ scanRow[i] = "none" /\ \A j \in 1..(i - 1) : scanRow[j] # "none"
             /\ scanRow' = [scanRow EXCEPT ![i] = "pending"]
             /\ scanRun' = [scanRun EXCEPT ![i] = [pc |-> "update", left |-> n]]
             /\ UNCHANGED janitorFaults
       \/ JanitorFault /\ UNCHANGED <<scanRow, scanRun>>
    /\ UNCHANGED <<repoRow, scanRecent, follower>>

-----------------------------------------------------------------------------
(* The event bus *)

\* Mutant: a full channel takes one more event.
PublishPast(i, isEnd) ==
    follower' = [f \in Followers |->
        LET w == follower[f] IN
        IF w.scan # i THEN w
        ELSE IF w.buffered <= FollowBuffer
             THEN [w EXCEPT !.buffered = @ + 1, !.end = @ \/ isEnd]
             ELSE [w EXCEPT !.full = TRUE]]

\* Publish, under the bus's lock: a full channel misses the event.
Publish(i, isEnd) ==
    follower' = [f \in Followers |->
        LET w == follower[f] IN
        IF w.scan # i THEN w
        ELSE IF w.buffered < FollowBuffer
             THEN [w EXCEPT !.buffered = @ + 1, !.end = @ \/ isEnd]
             ELSE [w EXCEPT !.full = TRUE]]

\* The stored events are not replayed: their ID is zero, never above afterEventID.
Subscribe(f, i) ==
    /\ follower[f].scan = 0 /\ scanRow[i] # "none"
    /\ follower' = [follower EXCEPT ![f] =
          [NotFollowing EXCEPT !.scan = i, !.early = scanRun[i].pc # "done"]]
    /\ UNCHANGED <<repoRow, scanRecent, scanReq, scanRow, scanRun, janitorFaults>>

ReceiveEvent(f) ==
    /\ follower[f].buffered > 0
    /\ follower' = [follower EXCEPT ![f].buffered = @ - 1]
    /\ UNCHANGED <<repoRow, scanRecent, scanReq, scanRow, scanRun, janitorFaults>>

Unsubscribe(f) ==
    /\ follower[f].scan # 0
    /\ follower' = [follower EXCEPT ![f] = NotFollowing]
    /\ UNCHANGED <<repoRow, scanRecent, scanReq, scanRow, scanRun, janitorFaults>>

-----------------------------------------------------------------------------
(* runScan *)

Running(i, pc) ==
    /\ scanRun[i].pc = pc
    /\ UNCHANGED <<repoRow, scanRecent, scanReq>>

ScanTo(i, pc) == scanRun' = [scanRun EXCEPT ![i].pc = pc]

\* Without flags the scan is complete at once, and scan.started is not published.
BeginScan(i) ==
    /\ Running(i, "update")
    /\ \/ /\ scanRow' = [scanRow EXCEPT ![i] = "in_progress"]
          /\ IF scanRun[i].left = 0 THEN ScanTo(i, "complete") /\ UNCHANGED follower
             ELSE ScanTo(i, "flags") /\ Publish(i, FALSE)
          /\ UNCHANGED janitorFaults
       \/ JanitorFault /\ ScanTo(i, "lost") /\ UNCHANGED <<scanRow, follower>>

\* A flag: its event is published, and for a stale one every repository is tried
\* without a token and skipped.  The progress update's error is ignored.
ScanFlag(i) ==
    /\ Running(i, "flags")
    /\ scanRun' = [scanRun EXCEPT ![i] =
          [left |-> @.left - 1, pc |-> IF @.left = 1 THEN "complete" ELSE "flags"]]
    /\ Publish(i, FALSE)
    /\ UNCHANGED <<scanRow, janitorFaults>>

\* Mutant: a failed update ends completeScan.
CompleteOrLeave(i) ==
    /\ Running(i, "complete")
    /\ \/ ScanTo(i, "publish") /\ scanRow' = [scanRow EXCEPT ![i] = "completed"] /\ UNCHANGED janitorFaults
       \/ ScanTo(i, "done") /\ JanitorFault /\ UNCHANGED scanRow
    /\ UNCHANGED follower

\* completeScan: the end is published also when the row could not be updated.
CompleteScan(i) ==
    /\ Running(i, "complete") /\ ScanTo(i, "publish")
    /\ \/ scanRow' = [scanRow EXCEPT ![i] = "completed"] /\ UNCHANGED janitorFaults
       \/ JanitorFault /\ UNCHANGED scanRow
    /\ UNCHANGED follower

PublishEnd(i) ==
    /\ Running(i, "publish") /\ ScanTo(i, "done") /\ Publish(i, TRUE)
    /\ UNCHANGED <<scanRow, janitorFaults>>

\* The process dies (two requests writing lastScanTimes at once kill it too): the
\* goroutines, the bus and the times are gone, the rows stay as they are.
JanitorCrash ==
    /\ JanitorFault
    /\ scanRecent' = FALSE /\ scanReq' = [q \in ScanReqs |-> "idle"]
    /\ scanRun' = [i \in ScanIds |-> IF scanRun[i].pc \in {"none", "done"} THEN scanRun[i]
                                     ELSE [scanRun[i] EXCEPT !.pc = "lost"]]
    /\ follower' = [f \in Followers |-> NotFollowing]
    /\ UNCHANGED <<repoRow, scanRow>>

JanitorNext ==
    \/ \E r \in Repos : ConnectRepository(r) \/ DisconnectRepository(r)
    \/ \E q \in ScanReqs : AskScan(q) \/ MarkScan(q) \/ CheckScan(q) \/ CreateScan(q)
    \/ \E f \in Followers : ReceiveEvent(f) \/ Unsubscribe(f) \/ \E i \in ScanIds : Subscribe(f, i)
    \/ \E i \in ScanIds : BeginScan(i) \/ ScanFlag(i) \/ CompleteScan(i) \/ PublishEnd(i)
    \/ FiveMinutes \/ JanitorCrash

JanitorSpec == JanitorInit /\ [][JanitorNext]_janitorVars

-----------------------------------------------------------------------------
\* A client that has followed a scan since before its end and never had a full
\* buffer has been told of the end, also when the row could not be updated.
FollowersLearnEnd ==
    \A f \in Followers :
        LET w == follower[f] IN
        w.scan # 0 /\ w.early /\ ~w.full /\ scanRun[w.scan].pc = "done" => w.end

=============================================================================
