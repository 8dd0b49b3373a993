--------------------------- MODULE JanitorProofs ---------------------------
(***************************************************************************)
(* Proofs about the janitor that cleans an organization's code: its scans    *)
(* (Janitor), the models that read the code (CodeAnalysis), what Git hosts   *)
(* list (RemoteListing), what is left of a file (Cleanup) and the commits on *)
(* the branches of its repositories (GitProviders).                          *)
(***************************************************************************)
EXTENDS Janitor, CodeAnalysis, RemoteListing, Cleanup, GitProviders, FiniteSetTheorems,
        SequenceTheorems, WellFoundedInduction, TLAPS

\* A set of numbers that is not empty has a least.
LEMMA LowestExists ==
    ASSUME NEW S, S \subseteq Nat, S # {}
    PROVE  \E m \in S : \A y \in S : m <= y
<1> DEFINE R == OpToRel(<, Nat)
<1>1. IsWellFoundedOn(R, Nat)
  BY NatLessThanWellFounded
<1>2. \A x, y \in Nat : <<y, x>> \in R <=> y < x
  BY DEF OpToRel
<1> HIDE DEF R
<1>3. PICK z \in S : \A y \in S : ~ (<<y, z>> \in R)
  BY <1>1, WFMin
<1>4. \A y \in S : ~(y < z)
  <2> SUFFICES ASSUME NEW y \in S PROVE ~(y < z)
    OBVIOUS
  <2>1. y \in Nat /\ z \in Nat /\ ~(<<y, z>> \in R)
    BY <1>3
  <2> QED
    BY <1>2, <2>1
<1>5. z \in Nat /\ \A y \in S : y \in Nat
  OBVIOUS
<1> QED
  BY <1>4, <1>5

-----------------------------------------------------------------------------
(***************************************************************************)
(* The scans of the janitor and who follows them.                           *)
(***************************************************************************)
RunRecord == [pc : {"none", "update", "flags", "complete", "publish", "done", "lost"}, left : Nat]
FollowRecord == [scan : 0..MaxScans, buffered : 0..FollowBuffer, early : BOOLEAN, end : BOOLEAN,
                 full : BOOLEAN]

\* A run that is at its flags has one left, and what a client knows of the end is the scan's.
RunShape(i) == scanRun[i].pc = "flags" => scanRun[i].left >= 1
Told(f) ==
    LET w == follower[f] IN
    w.scan # 0 /\ w.early /\ ~w.full /\ scanRun[w.scan].pc = "done" => w.end
\* A scan has a row when it has a run, and one that is followed has both.
ScanRowShape(i) == scanRow[i] = "none" <=> scanRun[i].pc = "none"
FollowShape(f) == follower[f].scan # 0 => scanRun[follower[f].scan].pc # "none"

JanitorInv ==
    /\ JanitorTypeOK
    /\ \A i \in ScanIds : RunShape(i) /\ ScanRowShape(i)
    /\ \A f \in Followers : Told(f) /\ FollowShape(f)

LEMMA JanitorConstants ==
    /\ MaxScans \in Nat /\ FlagCounts \subseteq Nat /\ FollowBuffer \in Nat /\ FollowBuffer >= 1
    /\ MaxJanitorFaults \in Nat
BY JanitorAssumption DEF JanitorAssumption

LEMMA JanitorTypes ==
    ASSUME JanitorTypeOK
    PROVE  /\ scanRun \in [ScanIds -> RunRecord] /\ follower \in [Followers -> FollowRecord]
           /\ janitorFaults \in 0..MaxJanitorFaults
           /\ \A f \in Followers : follower[f].scan # 0 => follower[f].scan \in ScanIds
<1>1. /\ scanRun \in [ScanIds -> RunRecord] /\ follower \in [Followers -> FollowRecord]
      /\ janitorFaults \in 0..MaxJanitorFaults
  BY DEF JanitorTypeOK, RunRecord, FollowRecord
<1>2. \A f \in Followers : follower[f].scan \in 0..MaxScans
  BY <1>1 DEF FollowRecord
<1> QED
  BY <1>1, <1>2, JanitorConstants DEF ScanIds

LEMMA NotFollowingType == NotFollowing \in FollowRecord /\ NotFollowing.scan = 0 /\ NoRun \in RunRecord
                          /\ NoRun.pc = "none"
BY JanitorConstants DEF NotFollowing, FollowRecord, NoRun, RunRecord

LEMMA InitJanitor == JanitorInit => JanitorInv
<1> SUFFICES ASSUME JanitorInit PROVE JanitorInv
  OBVIOUS
<1>1. JanitorTypeOK
  <2>1. scanRun \in [ScanIds -> RunRecord] /\ follower \in [Followers -> FollowRecord]
    BY NotFollowingType DEF JanitorInit
  <2>2. repoRow \in [Repos -> {"none", "on", "off"}] /\ scanRecent \in BOOLEAN
        /\ scanReq \in [ScanReqs -> {"idle", "limit", "check", "create"}]
        /\ scanRow \in [ScanIds -> {"none", "pending", "in_progress", "completed"}]
    BY DEF JanitorInit
  <2>3. janitorFaults \in 0..MaxJanitorFaults
    BY JanitorConstants DEF JanitorInit
  <2> QED
    BY <2>1, <2>2, <2>3 DEF JanitorTypeOK, RunRecord, FollowRecord
<1>2. \A i \in ScanIds : scanRun[i].pc = "none"
  BY NotFollowingType DEF JanitorInit
<1>3. \A f \in Followers : follower[f].scan = 0
  BY NotFollowingType DEF JanitorInit
<1>4. \A i \in ScanIds : scanRow[i] = "none"
  BY DEF JanitorInit
<1> QED
  BY <1>1, <1>2, <1>3, <1>4 DEF JanitorInv, RunShape, ScanRowShape, Told, FollowShape

\* The bus: every follower of the scan has the event or knows that it missed one.
LEMMA PublishTells ==
    ASSUME JanitorInv, NEW i \in ScanIds, NEW isEnd \in BOOLEAN, Publish(i, isEnd)
    PROVE  /\ follower' \in [Followers -> FollowRecord]
           /\ \A f \in Followers :
                 /\ follower'[f].scan = follower[f].scan /\ follower'[f].early = follower[f].early
                 /\ follower[f].scan # i => follower'[f] = follower[f]
                 /\ follower[f].full => follower'[f].full
                 /\ follower[f].end => follower'[f].end
                 /\ follower[f].scan = i /\ isEnd => follower'[f].end \/ follower'[f].full
<1> SUFFICES ASSUME NEW f \in Followers
             PROVE  /\ follower'[f] \in FollowRecord
                    /\ follower'[f].scan = follower[f].scan /\ follower'[f].early = follower[f].early
                    /\ follower[f].scan # i => follower'[f] = follower[f]
                    /\ follower[f].full => follower'[f].full
                    /\ follower[f].end => follower'[f].end
                    /\ follower[f].scan = i /\ isEnd => follower'[f].end \/ follower'[f].full
  BY DEF Publish
<1> DEFINE w == follower[f]
           one == [w EXCEPT !.buffered = @ + 1, !.end = @ \/ isEnd]
           no == [w EXCEPT !.full = TRUE]
<1>1. w \in FollowRecord
  BY JanitorTypes DEF JanitorInv
<1>2. follower'[f] = IF w.scan # i THEN w ELSE IF w.buffered < FollowBuffer THEN one ELSE no
  BY DEF Publish
<1>3. CASE w.scan # i
  BY <1>1, <1>2, <1>3
<1>4. CASE w.scan = i /\ w.buffered < FollowBuffer
  <2>1. w.buffered + 1 \in 0..FollowBuffer
    BY <1>1, <1>4, JanitorConstants DEF FollowRecord
  <2>2. (w.end \/ isEnd) \in BOOLEAN
    BY <1>1 DEF FollowRecord
  <2>3. one \in FollowRecord /\ one.scan = w.scan /\ one.early = w.early /\ one.full = w.full
        /\ one.end = (w.end \/ isEnd)
    BY <1>1, <2>1, <2>2 DEF FollowRecord
  <2>4. follower'[f] = one
    BY <1>2, <1>4
  <2> QED
    BY <1>4, <2>3, <2>4
<1>5. CASE w.scan = i /\ ~(w.buffered < FollowBuffer)
  <2>1. no \in FollowRecord /\ no.scan = w.scan /\ no.early = w.early /\ no.full = TRUE /\ no.end = w.end
    BY <1>1 DEF FollowRecord
  <2>2. follower'[f] = no
    BY <1>2, <1>5
  <2> QED
    BY <1>5, <2>1, <2>2
<1> QED
  BY <1>3, <1>4, <1>5

\* What a step of a run leaves of the followers: each knows what it knew, and of the scan's end
\* when it is over.
Following(i, over) ==
    /\ follower' \in [Followers -> FollowRecord]
    /\ \A f \in Followers :
          /\ follower'[f].scan = follower[f].scan /\ follower'[f].early = follower[f].early
          /\ follower[f].full => follower'[f].full
          /\ follower[f].end => follower'[f].end
          /\ follower[f].scan = i /\ over => follower'[f].end \/ follower'[f].full

\* A step of one run.
LEMMA RunMoves ==
    ASSUME JanitorInv, NEW i \in ScanIds, scanRun[i].pc # "done",
           NEW new \in RunRecord, scanRun' = [scanRun EXCEPT ![i] = new], new.pc # "none",
           new.pc = "flags" => new.left >= 1,
           Following(i, new.pc = "done"),
           scanRow' \in [ScanIds -> {"none", "pending", "in_progress", "completed"}],
           \A k \in ScanIds \ {i} : scanRow'[k] = scanRow[k], scanRow'[i] # "none",
           janitorFaults' \in 0..MaxJanitorFaults, UNCHANGED <<repoRow, scanRecent>>,
           scanReq' \in [ScanReqs -> {"idle", "limit", "check", "create"}]
    PROVE  JanitorInv'
<1>1. scanRun \in [ScanIds -> RunRecord] /\ follower \in [Followers -> FollowRecord]
  BY JanitorTypes DEF JanitorInv
<1>2. scanRun' \in [ScanIds -> RunRecord] /\ scanRun'[i] = new
      /\ \A k \in ScanIds \ {i} : scanRun'[k] = scanRun[k]
  BY <1>1
<1>3. JanitorTypeOK'
  BY <1>2 DEF JanitorTypeOK, RunRecord, FollowRecord, JanitorInv, Following
<1>4. ASSUME NEW k \in ScanIds PROVE RunShape(k)' /\ ScanRowShape(k)'
  <2>1. CASE k = i
    BY <1>2, <2>1 DEF RunShape, ScanRowShape
  <2>2. CASE k # i
    <3>1. RunShape(k) /\ ScanRowShape(k) /\ scanRun'[k] = scanRun[k] /\ scanRow'[k] = scanRow[k]
      BY <1>2, <2>2 DEF JanitorInv
    <3> QED
      BY <3>1 DEF RunShape, ScanRowShape
  <2> QED
    BY <2>1, <2>2
<1>5. ASSUME NEW f \in Followers PROVE Told(f)' /\ FollowShape(f)'
  <2>0. Told(f) /\ FollowShape(f) /\ (follower[f].scan # 0 => follower[f].scan \in ScanIds)
    BY JanitorTypes DEF JanitorInv
  <2>1. CASE follower[f].scan = i
    <3>1. scanRun'[follower'[f].scan] = new
      BY <1>2, <2>1 DEF Following
    <3>2. FollowShape(f)'
      BY <3>1 DEF FollowShape
    <3>3. Told(f)'
      BY <2>1, <3>1 DEF Told, Following
    <3> QED
      BY <3>2, <3>3
  <2>2. CASE follower[f].scan # i /\ follower[f].scan # 0
    <3>1. scanRun'[follower'[f].scan] = scanRun[follower[f].scan]
      BY <1>2, <2>0, <2>2 DEF Following
    <3>2. FollowShape(f)'
      BY <2>0, <2>2, <3>1 DEF FollowShape, Following
    <3>3. Told(f)'
      BY <2>0, <3>1 DEF Told, Following
    <3> QED
      BY <3>2, <3>3
  <2>3. CASE follower[f].scan = 0
    BY <2>3 DEF Told, FollowShape, Following
  <2> QED
    BY <2>1, <2>2, <2>3
<1> QED
  BY <1>3, <1>4, <1>5 DEF JanitorInv

\* A step of one run that publishes.
LEMMA RunPublishes ==
    ASSUME JanitorInv, NEW i \in ScanIds, scanRun[i].pc # "done", scanRow'[i] # "none",
           NEW new \in RunRecord, scanRun' = [scanRun EXCEPT ![i] = new], new.pc # "none",
           new.pc = "flags" => new.left >= 1,
           NEW isEnd \in BOOLEAN, new.pc = "done" => isEnd, Publish(i, isEnd),
           scanRow' \in [ScanIds -> {"none", "pending", "in_progress", "completed"}],
           \A k \in ScanIds \ {i} : scanRow'[k] = scanRow[k],
           UNCHANGED <<repoRow, scanRecent, scanReq, janitorFaults>>
    PROVE  JanitorInv'
<1>1. /\ follower' \in [Followers -> FollowRecord]
      /\ \A f \in Followers :
            /\ follower'[f].scan = follower[f].scan /\ follower'[f].early = follower[f].early
            /\ follower[f].full => follower'[f].full
            /\ follower[f].end => follower'[f].end
            /\ follower[f].scan = i /\ isEnd => follower'[f].end \/ follower'[f].full
  BY PublishTells
<1>2. janitorFaults' \in 0..MaxJanitorFaults
      /\ scanReq' \in [ScanReqs -> {"idle", "limit", "check", "create"}]
  BY DEF JanitorInv, JanitorTypeOK
<1>3. Following(i, new.pc = "done")
  BY <1>1 DEF Following
<1> QED
  BY <1>2, <1>3, RunMoves

LEMMA FaultCounts ==
    ASSUME JanitorTypeOK, JanitorFault
    PROVE  janitorFaults' \in 0..MaxJanitorFaults
BY JanitorConstants DEF JanitorTypeOK, JanitorFault

LEMMA RunsKeep ==
    ASSUME JanitorInv, NEW i \in ScanIds, BeginScan(i) \/ ScanFlag(i) \/ CompleteScan(i) \/ PublishEnd(i)
    PROVE  JanitorInv'
<1>0. /\ JanitorTypeOK /\ scanRun \in [ScanIds -> RunRecord] /\ follower \in [Followers -> FollowRecord]
      /\ janitorFaults \in 0..MaxJanitorFaults
      /\ scanRow \in [ScanIds -> {"none", "pending", "in_progress", "completed"}]
      /\ scanReq \in [ScanReqs -> {"idle", "limit", "check", "create"}]
      /\ RunShape(i) /\ ScanRowShape(i) /\ scanRun[i] \in RunRecord /\ scanRun[i].left \in Nat
  BY JanitorTypes DEF JanitorInv, JanitorTypeOK, RunRecord
<1>1. UNCHANGED <<repoRow, scanRecent, scanReq>> /\ scanRun[i].pc # "done" /\ scanRun[i].pc # "none"
  BY DEF BeginScan, ScanFlag, CompleteScan, PublishEnd, Running
<1>2. scanRow[i] # "none"
  BY <1>0, <1>1 DEF ScanRowShape
<1>3. ASSUME NEW pc \in {"flags", "complete", "publish", "done", "lost"}, ScanTo(i, pc)
      PROVE  \E new \in RunRecord : new.pc = pc /\ new.left = scanRun[i].left
                                    /\ scanRun' = [scanRun EXCEPT ![i] = new]
  <2> DEFINE new == [scanRun[i] EXCEPT !.pc = pc]
  <2>1. new \in RunRecord /\ new.pc = pc /\ new.left = scanRun[i].left
    BY <1>0 DEF RunRecord
  <2>2. scanRun' = [scanRun EXCEPT ![i] = new]
    BY <1>0, <1>3 DEF ScanTo
  <2> QED
    BY <2>1, <2>2
<1>4. CASE BeginScan(i)
  <2>1. CASE /\ scanRow' = [scanRow EXCEPT ![i] = "in_progress"]
             /\ scanRun[i].left = 0 /\ ScanTo(i, "complete") /\ UNCHANGED follower
             /\ UNCHANGED janitorFaults
    <3>1. PICK new \in RunRecord : new.pc = "complete" /\ scanRun' = [scanRun EXCEPT ![i] = new]
      BY <1>3, <2>1
    <3>2. Following(i, new.pc = "done")
      BY <1>0, <2>1, <3>1 DEF Following
    <3> QED
      BY <1>0, <1>1, <2>1, <3>1, <3>2, RunMoves
  <2>2. CASE /\ scanRow' = [scanRow EXCEPT ![i] = "in_progress"]
             /\ scanRun[i].left # 0 /\ ScanTo(i, "flags") /\ Publish(i, FALSE)
             /\ UNCHANGED janitorFaults
    <3>1. PICK new \in RunRecord : new.pc = "flags" /\ new.left = scanRun[i].left
                                   /\ scanRun' = [scanRun EXCEPT ![i] = new]
      BY <1>3, <2>2
    <3>2. new.left >= 1
      BY <1>0, <2>2, <3>1
    <3>3. /\ scanRow' \in [ScanIds -> {"none", "pending", "in_progress", "completed"}]
          /\ scanRow'[i] = "in_progress" /\ \A k \in ScanIds \ {i} : scanRow'[k] = scanRow[k]
      BY <1>0, <2>2
    <3>4. new.pc # "none" /\ (new.pc = "flags" => new.left >= 1) /\ (new.pc = "done" => FALSE)
          /\ scanRow'[i] # "none"
      BY <3>1, <3>2, <3>3
    <3>5. Publish(i, FALSE) /\ UNCHANGED <<repoRow, scanRecent, scanReq, janitorFaults>>
      BY <1>1, <2>2
    <3> QED
      BY <1>1, <3>1, <3>3, <3>4, <3>5, RunPublishes
  <2>3. CASE JanitorFault /\ ScanTo(i, "lost") /\ UNCHANGED <<scanRow, follower>>
    <3>1. PICK new \in RunRecord : new.pc = "lost" /\ scanRun' = [scanRun EXCEPT ![i] = new]
      BY <1>3, <2>3
    <3>2. Following(i, new.pc = "done")
      BY <1>0, <2>3, <3>1 DEF Following
    <3> QED
      BY <1>0, <1>1, <1>2, <2>3, <3>1, <3>2, FaultCounts, RunMoves
  <2> QED
    BY <1>4, <2>1, <2>2, <2>3 DEF BeginScan
<1>5. CASE ScanFlag(i)
  <2> DEFINE n == scanRun[i].left
             new == [left |-> n - 1, pc |-> IF n = 1 THEN "complete" ELSE "flags"]
  <2>1. n \in Nat /\ n >= 1
    BY <1>0, <1>5 DEF ScanFlag, Running, RunShape
  <2>2. new \in RunRecord /\ new.pc # "none" /\ new.pc # "done" /\ (new.pc = "flags" => new.left >= 1)
    BY <2>1 DEF RunRecord
  <2>3. scanRun' = [scanRun EXCEPT ![i] = new]
    BY <1>0, <1>5 DEF ScanFlag
  <2>4. Publish(i, FALSE) /\ UNCHANGED <<scanRow, janitorFaults>>
    BY <1>5 DEF ScanFlag
  <2> HIDE DEF new
  <2>5. /\ scanRow' \in [ScanIds -> {"none", "pending", "in_progress", "completed"}]
        /\ scanRow'[i] # "none" /\ \A k \in ScanIds \ {i} : scanRow'[k] = scanRow[k]
    BY <1>0, <1>2, <2>4
  <2>6. (new.pc = "done" => FALSE) /\ UNCHANGED <<repoRow, scanRecent, scanReq, janitorFaults>>
    BY <1>1, <2>2, <2>4
  <2> QED
    BY <1>1, <2>2, <2>3, <2>4, <2>5, <2>6, RunPublishes
<1>6. CASE CompleteScan(i)
  <2>1. PICK new \in RunRecord : new.pc = "publish" /\ scanRun' = [scanRun EXCEPT ![i] = new]
    BY <1>3, <1>6 DEF CompleteScan
  <2>2. janitorFaults' \in 0..MaxJanitorFaults /\ UNCHANGED follower
    BY <1>0, <1>6, FaultCounts DEF CompleteScan
  <2>3. scanRow' = scanRow \/ scanRow' = [scanRow EXCEPT ![i] = "completed"]
    BY <1>6 DEF CompleteScan
  <2>4. /\ scanRow' \in [ScanIds -> {"none", "pending", "in_progress", "completed"}]
        /\ scanRow'[i] # "none" /\ \A k \in ScanIds \ {i} : scanRow'[k] = scanRow[k]
    BY <1>0, <1>2, <2>3
  <2>5. new.pc # "none" /\ (new.pc = "flags" => new.left >= 1)
        /\ scanReq' \in [ScanReqs -> {"idle", "limit", "check", "create"}]
    BY <1>0, <1>1, <2>1, <2>2
  <2>6. Following(i, new.pc = "done")
    BY <1>0, <2>1, <2>2 DEF Following
  <2> QED
    BY <1>1, <2>1, <2>2, <2>4, <2>5, <2>6, RunMoves
<1>7. CASE PublishEnd(i)
  <2>1. PICK new \in RunRecord : new.pc = "done" /\ scanRun' = [scanRun EXCEPT ![i] = new]
    BY <1>3, <1>7 DEF PublishEnd
  <2>2. Publish(i, TRUE) /\ UNCHANGED <<scanRow, janitorFaults>>
    BY <1>7 DEF PublishEnd
  <2>3. /\ scanRow' \in [ScanIds -> {"none", "pending", "in_progress", "completed"}]
        /\ scanRow'[i] # "none" /\ \A k \in ScanIds \ {i} : scanRow'[k] = scanRow[k]
    BY <1>0, <1>2, <2>2
  <2>4. new.pc # "none" /\ (new.pc = "flags" => new.left >= 1) /\ (new.pc = "done" => TRUE)
        /\ UNCHANGED <<repoRow, scanRecent, scanReq, janitorFaults>>
    BY <1>1, <2>1, <2>2
  <2> QED
    BY <1>1, <2>1, <2>2, <2>3, <2>4, RunPublishes
<1> QED
  BY <1>4, <1>5, <1>6, <1>7

\* A step that moves neither runs nor followers.
LEMMA RequestsOfJanitor ==
    ASSUME JanitorInv, UNCHANGED <<scanRow, scanRun, follower>>,
           repoRow' \in [Repos -> {"none", "on", "off"}], scanRecent' \in BOOLEAN,
           scanReq' \in [ScanReqs -> {"idle", "limit", "check", "create"}],
           janitorFaults' \in 0..MaxJanitorFaults
    PROVE  JanitorInv'
<1>1. JanitorTypeOK'
  BY DEF JanitorInv, JanitorTypeOK
<1> QED
  BY <1>1 DEF JanitorInv, RunShape, ScanRowShape, Told, FollowShape

\* A step of one follower.
LEMMA FollowerMoves ==
    ASSUME JanitorInv, NEW f \in Followers, NEW new \in FollowRecord,
           follower' = [follower EXCEPT ![f] = new],
           UNCHANGED <<repoRow, scanRecent, scanReq, scanRow, scanRun, janitorFaults>>,
           new.scan # 0 => scanRun[new.scan].pc # "none",
           new.scan # 0 /\ new.early /\ ~new.full /\ scanRun[new.scan].pc = "done" => new.end
    PROVE  JanitorInv'
<1>1. follower \in [Followers -> FollowRecord]
  BY JanitorTypes DEF JanitorInv
<1>2. follower' \in [Followers -> FollowRecord] /\ follower'[f] = new
      /\ \A g \in Followers \ {f} : follower'[g] = follower[g]
  BY <1>1
<1>3. JanitorTypeOK'
  BY <1>2 DEF JanitorTypeOK, FollowRecord, JanitorInv
<1>4. \A i \in ScanIds : RunShape(i)' /\ ScanRowShape(i)'
  BY DEF JanitorInv, RunShape, ScanRowShape
<1>5. ASSUME NEW g \in Followers PROVE Told(g)' /\ FollowShape(g)'
  <2>1. CASE g = f
    BY <1>2, <2>1 DEF Told, FollowShape
  <2>2. CASE g # f
    <3>1. Told(g) /\ FollowShape(g) /\ follower'[g] = follower[g] /\ scanRun' = scanRun
      BY <1>2, <2>2 DEF JanitorInv
    <3> QED
      BY <3>1 DEF Told, FollowShape
  <2> QED
    BY <2>1, <2>2
<1> QED
  BY <1>3, <1>4, <1>5 DEF JanitorInv

LEMMA FollowersKeep ==
    ASSUME JanitorInv, NEW f \in Followers,
           ReceiveEvent(f) \/ Unsubscribe(f) \/ \E i \in ScanIds : Subscribe(f, i)
    PROVE  JanitorInv'
<1> DEFINE w == follower[f]
<1>0. follower \in [Followers -> FollowRecord] /\ w \in FollowRecord /\ Told(f) /\ FollowShape(f)
  BY JanitorTypes DEF JanitorInv
<1>1. CASE ReceiveEvent(f)
  <2> DEFINE new == [w EXCEPT !.buffered = @ - 1]
  <2>1. w.buffered - 1 \in 0..FollowBuffer
    BY <1>0, <1>1, JanitorConstants DEF ReceiveEvent, FollowRecord
  <2>2. new \in FollowRecord /\ new.scan = w.scan /\ new.early = w.early /\ new.full = w.full /\ new.end = w.end
    BY <1>0, <2>1 DEF FollowRecord
  <2>3. follower' = [follower EXCEPT ![f] = new]
    BY <1>0, <1>1 DEF ReceiveEvent
  <2>4. /\ new.scan # 0 => scanRun[new.scan].pc # "none"
        /\ new.scan # 0 /\ new.early /\ ~new.full /\ scanRun[new.scan].pc = "done" => new.end
    BY <1>0, <2>2 DEF Told, FollowShape
  <2>5. UNCHANGED <<repoRow, scanRecent, scanReq, scanRow, scanRun, janitorFaults>>
    BY <1>1 DEF ReceiveEvent
  <2> HIDE DEF new
  <2> QED
    BY <2>2, <2>3, <2>4, <2>5, FollowerMoves
<1>2. CASE Unsubscribe(f)
  BY <1>2, NotFollowingType, FollowerMoves DEF Unsubscribe
<1>3. ASSUME NEW i \in ScanIds, Subscribe(f, i) PROVE JanitorInv'
  <2> DEFINE running == scanRun[i].pc # "done"
             new == [NotFollowing EXCEPT !.scan = i, !.early = running]
  <2>1. i \in 0..MaxScans /\ i # 0 /\ running \in BOOLEAN
    BY JanitorConstants DEF ScanIds
  <2>3. follower' = [follower EXCEPT ![f] = new]
    BY <1>3 DEF Subscribe
  <2>5. scanRun[i].pc # "none" /\ (running => scanRun[i].pc # "done")
    BY <1>3 DEF Subscribe, JanitorInv, ScanRowShape
  <2> HIDE DEF running
  <2>2. new \in FollowRecord /\ new.scan = i /\ new.early = running
    BY <2>1, NotFollowingType DEF NotFollowing, FollowRecord
  <2>4. UNCHANGED <<repoRow, scanRecent, scanReq, scanRow, scanRun, janitorFaults>>
    BY <1>3 DEF Subscribe
  <2> HIDE DEF new
  <2>6. /\ new.scan # 0 => scanRun[new.scan].pc # "none"
        /\ new.scan # 0 /\ new.early /\ ~new.full /\ scanRun[new.scan].pc = "done" => new.end
    BY <2>2, <2>5
  <2> QED
    BY <2>2, <2>3, <2>4, <2>6, FollowerMoves
<1> QED
  BY <1>1, <1>2, <1>3

LEMMA ScansAreAsked ==
    ASSUME JanitorInv, NEW q \in ScanReqs, AskScan(q) \/ MarkScan(q) \/ CheckScan(q) \/ CreateScan(q)
    PROVE  JanitorInv'
<1>0. /\ JanitorTypeOK /\ scanReq \in [ScanReqs -> {"idle", "limit", "check", "create"}]
      /\ repoRow \in [Repos -> {"none", "on", "off"}] /\ scanRecent \in BOOLEAN
      /\ janitorFaults \in 0..MaxJanitorFaults
      /\ scanRow \in [ScanIds -> {"none", "pending", "in_progress", "completed"}]
      /\ scanRun \in [ScanIds -> RunRecord] /\ follower \in [Followers -> FollowRecord]
  BY JanitorTypes DEF JanitorInv, JanitorTypeOK
<1>1. ASSUME NEW pc \in {"idle", "limit", "check", "create"}, ToScan(q, pc)
      PROVE  scanReq' \in [ScanReqs -> {"idle", "limit", "check", "create"}]
  BY <1>0, <1>1 DEF ToScan
<1>2. CASE AskScan(q)
  BY <1>0, <1>1, <1>2, RequestsOfJanitor DEF AskScan
<1>3. CASE MarkScan(q)
  BY <1>0, <1>1, <1>3, RequestsOfJanitor DEF MarkScan
<1>4. CASE CheckScan(q)
  <2>1. scanReq' \in [ScanReqs -> {"idle", "limit", "check", "create"}]
    BY <1>1, <1>4 DEF CheckScan
  <2> QED
    BY <1>0, <1>4, <2>1, RequestsOfJanitor DEF CheckScan
<1>5. CASE CreateScan(q)
  <2>0. scanReq' \in [ScanReqs -> {"idle", "limit", "check", "create"}]
        /\ UNCHANGED <<repoRow, scanRecent, follower>>
    BY <1>1, <1>5 DEF CreateScan
  <2>1. CASE JanitorFault /\ UNCHANGED <<scanRow, scanRun>>
    BY <1>0, <2>0, <2>1, FaultCounts, RequestsOfJanitor
  <2>2. ASSUME NEW i \in ScanIds, NEW n \in FlagCounts, scanRow[i] = "none",
               scanRow' = [scanRow EXCEPT ![i] = "pending"],
               scanRun' = [scanRun EXCEPT ![i] = [pc |-> "update", left |-> n]],
               UNCHANGED janitorFaults
        PROVE  JanitorInv'
    <3> DEFINE new == [pc |-> "update", left |-> n]
    <3>1. new \in RunRecord /\ new.pc = "update"
      BY JanitorConstants DEF RunRecord
    <3>2. scanRun[i].pc = "none"
      BY <2>2 DEF JanitorInv, ScanRowShape
    <3>3. /\ scanRow' \in [ScanIds -> {"none", "pending", "in_progress", "completed"}]
          /\ \A k \in ScanIds \ {i} : scanRow'[k] = scanRow[k] /\ scanRow'[i] # "none"
          /\ scanRow'[i] = "pending"
      BY <1>0, <2>2
    <3>4. scanRun' = [scanRun EXCEPT ![i] = new]
      BY <2>2
    <3> HIDE DEF new
    <3>5. Following(i, new.pc = "done")
      BY <1>0, <2>0, <3>1 DEF Following
    <3> QED
      BY <1>0, <2>0, <2>2, <3>1, <3>2, <3>3, <3>4, <3>5, RunMoves
  <2> QED
    BY <1>5, <2>1, <2>2 DEF CreateScan
<1> QED
  BY <1>2, <1>3, <1>4, <1>5

LEMMA CrashKeepsJanitor == ASSUME JanitorInv, JanitorCrash PROVE JanitorInv'
<1>0. JanitorTypeOK /\ scanRun \in [ScanIds -> RunRecord]
  BY JanitorTypes DEF JanitorInv
<1>1. ASSUME NEW i \in ScanIds
      PROVE  /\ scanRun'[i] \in RunRecord
             /\ scanRun'[i].pc # "flags" /\ (scanRun[i].pc = "none" <=> scanRun'[i].pc = "none")
  <2> DEFINE gone == [scanRun[i] EXCEPT !.pc = "lost"]
  <2>1. gone \in RunRecord /\ gone.pc = "lost" /\ scanRun[i] \in RunRecord
    BY <1>0 DEF RunRecord
  <2>2. scanRun'[i] = IF scanRun[i].pc \in {"none", "done"} THEN scanRun[i] ELSE gone
    BY DEF JanitorCrash
  <2> HIDE DEF gone
  <2>3. CASE scanRun[i].pc \in {"none", "done"}
    BY <2>1, <2>2, <2>3
  <2>4. CASE scanRun[i].pc \notin {"none", "done"}
    BY <2>1, <2>2, <2>4
  <2> QED
    BY <2>3, <2>4
<1>2. scanRun' \in [ScanIds -> RunRecord]
  BY <1>1 DEF JanitorCrash
<1>3. follower' \in [Followers -> FollowRecord] /\ \A f \in Followers : follower'[f].scan = 0
  BY NotFollowingType DEF JanitorCrash
<1>4. JanitorTypeOK'
  <2>1. janitorFaults' \in 0..MaxJanitorFaults
    BY <1>0, FaultCounts DEF JanitorCrash
  <2>2. scanRecent' \in BOOLEAN /\ scanReq' \in [ScanReqs -> {"idle", "limit", "check", "create"}]
    BY DEF JanitorCrash
  <2>3. UNCHANGED <<repoRow, scanRow>>
    BY DEF JanitorCrash
  <2> QED
    BY <1>0, <1>2, <1>3, <2>1, <2>2, <2>3 DEF JanitorTypeOK, RunRecord, FollowRecord
<1>5. \A i \in ScanIds : RunShape(i)' /\ ScanRowShape(i)'
  BY <1>1 DEF RunShape, ScanRowShape, JanitorInv, JanitorCrash
<1> QED
  BY <1>3, <1>4, <1>5 DEF JanitorInv, Told, FollowShape

LEMMA JanitorKeeps == ASSUME JanitorInv, [JanitorNext]_janitorVars PROVE JanitorInv'
<1>0. /\ scanReq \in [ScanReqs -> {"idle", "limit", "check", "create"}]
      /\ repoRow \in [Repos -> {"none", "on", "off"}] /\ scanRecent \in BOOLEAN
      /\ janitorFaults \in 0..MaxJanitorFaults
  BY DEF JanitorInv, JanitorTypeOK
<1>1. CASE UNCHANGED janitorVars
  BY <1>0, <1>1, RequestsOfJanitor DEF janitorVars
<1>2. ASSUME NEW r \in Repos, ConnectRepository(r) \/ DisconnectRepository(r) PROVE JanitorInv'
  <2>1. repoRow' \in [Repos -> {"none", "on", "off"}]
        /\ UNCHANGED <<scanRecent, scanReq, scanRow, scanRun, follower, janitorFaults>>
    BY <1>0, <1>2 DEF ConnectRepository, DisconnectRepository
  <2> QED
    BY <1>0, <2>1, RequestsOfJanitor
<1>3. CASE FiveMinutes
  <2>1. scanRecent' \in BOOLEAN /\ UNCHANGED <<repoRow, scanReq, scanRow, scanRun, follower, janitorFaults>>
    BY <1>3 DEF FiveMinutes
  <2> QED
    BY <1>0, <2>1, RequestsOfJanitor
<1> QED
  BY <1>1, <1>2, <1>3, ScansAreAsked, FollowersKeep, RunsKeep, CrashKeepsJanitor DEF JanitorNext

LEMMA FollowersAreTold == JanitorInv => FollowersLearnEnd
BY DEF JanitorInv, Told, FollowersLearnEnd

\* A client that has followed a scan since before its end and never had a full buffer was told
\* of the end, whatever failed and however often the process died (janitor.go: completeScan,
\* sse/janitor.go: Publish), for any number of scans, clients and flags.
THEOREM FollowersAlwaysLearnEnd == JanitorSpec => []FollowersLearnEnd
BY InitJanitor, JanitorKeeps, FollowersAreTold, PTL DEF JanitorSpec

-----------------------------------------------------------------------------
(***************************************************************************)
(* Which model reads the code.                                              *)
(***************************************************************************)
AnalysisPcs == {"idle", "resolve", "send", "record", "regex", "done"}
StoredPolicies == Policies \cup {DefaultPolicy}
AnalysisResults == {"none", "result with code", "result", "raw text", "error"}
LLMNames == {r.name : r \in LLMRows \cup {NoLLM}}
CallRecord == [pc : AnalysisPcs, policy : StoredPolicies, todo : SUBSET Nat, llm : 0..MaxLLMs,
               patterns : SUBSET Secrets, overtaken : BOOLEAN, op : Operations,
               result : AnalysisResults, name : LLMNames]

\* A call that was not overtaken has read the policy and the rules that are stored, or no
\* policy; it tries what the policy names;
Chosen(a) ==
    LET q == analysis[a] IN
    /\ q.pc \in {"resolve", "send"} => "built-in" \in q.patterns
    /\ q.pc = "resolve" => q.todo \subseteq Candidates(q.policy)
    /\ q.pc \in {"resolve", "send"} /\ ~q.overtaken =>
          /\ q.policy \in {policy, DefaultPolicy}
          /\ \A r \in ruleRows : r.enabled /\ r.valid => r.pattern \in q.patterns
\* and what it is about to call is a row that was made, which the policy permits.
Allowed(a) ==
    LET q == analysis[a] IN
    q.pc = "send" => /\ q.llm \in 1..llmCount
                     /\ ~q.overtaken => Permits(policy, q.llm, llmRow[q.llm])
\* A call that went out is to be recorded, or is done and was recorded or not.
UsageLogged(s) ==
    /\ s.call \in Analyses /\ "built-in" \notin s.secrets
    /\ \/ analysis[s.call].pc = "record"
       \/ /\ analysis[s.call].pc = "done"
          /\ s.call \in llmUnrecorded \/ \E x \in llmRecorded : x.call = s.call
LogEntry(x) == analysis[x.call].pc = "done" /\ ((x.status = 500) = (analysis[x.call].result = "error"))

CodeAnalysisInv ==
    /\ CodeAnalysisTypeOK
    /\ analysis \in [Analyses -> CallRecord]
    /\ \A i \in LLMIds : i > llmCount => llmRow[i] = NoLLM
    /\ \A a \in Analyses : Chosen(a) /\ Allowed(a)
    /\ \A s \in llmSent : UsageLogged(s)
    /\ \A x \in llmRecorded : LogEntry(x)

LEMMA AnalysisConstants ==
    /\ MaxLLMs \in Nat /\ MaxPolicyEdits \in Nat /\ MaxAnalysisFaults \in Nat
    /\ \A p \in StoredPolicies : p.default \in 0..MaxLLMs /\ p.allowed \in Seq(1..MaxLLMs)
<1>1. /\ MaxLLMs \in Nat /\ MaxPolicyEdits \in Nat /\ MaxAnalysisFaults \in Nat
      /\ \A p \in Policies : p.default \in 0..MaxLLMs /\ p.allowed \in Seq(1..MaxLLMs)
  BY CodeAnalysisAssumption DEF CodeAnalysisAssumption
<1>2. DefaultPolicy.default = 0 /\ DefaultPolicy.allowed = <<>>
  BY DEF DefaultPolicy
<1>3. 0 \in 0..MaxLLMs /\ <<>> \in Seq(1..MaxLLMs)
  BY <1>1
<1> QED
  BY <1>1, <1>2, <1>3 DEF StoredPolicies

LEMMA NoAnalysisType == NoAnalysis \in CallRecord /\ NoAnalysis.pc = "idle" /\ NoAnalysis.overtaken = FALSE
<1>1. "none" \in LLMNames
  <2>1. NoLLM.name = "none"
    BY DEF NoLLM
  <2> QED
    BY <2>1 DEF LLMNames
<1>2. DefaultPolicy \in StoredPolicies /\ 0 \in 0..MaxLLMs /\ "analyze" \in Operations
  BY AnalysisConstants DEF StoredPolicies, Operations
<1> QED
  BY <1>1, <1>2 DEF NoAnalysis, CallRecord, AnalysisPcs, AnalysisResults

\* Records that have their types are what CodeAnalysisTypeOK asks for.
LEMMA AnalysisTypes ==
    ASSUME policy \in StoredPolicies, llmRow \in [LLMIds -> LLMRows \cup {NoLLM}], llmCount \in 0..MaxLLMs,
           ruleRows \subseteq RuleRows, analysis \in [Analyses -> CallRecord],
           llmRecorded \subseteq [call : Analyses, status : {200, 500}], llmUnrecorded \subseteq Analyses,
           policyEdits \in 0..MaxPolicyEdits, analysisFaults \in 0..MaxAnalysisFaults
    PROVE  CodeAnalysisTypeOK
<1>1. \A a \in Analyses : analysis[a] \in CallRecord
  OBVIOUS
<1>2. \A a \in Analyses : analysis[a].pc \in AnalysisPcs /\ analysis[a].llm \in 0..MaxLLMs
                          /\ analysis[a].policy \in StoredPolicies
  BY <1>1 DEF CallRecord
<1> QED
  BY <1>2 DEF CodeAnalysisTypeOK, AnalysisPcs, StoredPolicies

LEMMA InitAnalysis == CodeAnalysisInit => CodeAnalysisInv
<1> SUFFICES ASSUME CodeAnalysisInit PROVE CodeAnalysisInv
  OBVIOUS
<1>1. analysis \in [Analyses -> CallRecord] /\ \A a \in Analyses : analysis[a].pc = "idle"
  BY NoAnalysisType DEF CodeAnalysisInit
<1>2. policy \in StoredPolicies /\ llmRow \in [LLMIds -> LLMRows \cup {NoLLM}] /\ llmCount \in 0..MaxLLMs
      /\ ruleRows \subseteq RuleRows /\ llmRecorded = {} /\ llmUnrecorded = {} /\ llmSent = {}
      /\ policyEdits \in 0..MaxPolicyEdits /\ analysisFaults \in 0..MaxAnalysisFaults
      /\ \A i \in LLMIds : llmRow[i] = NoLLM
  BY AnalysisConstants DEF CodeAnalysisInit, StoredPolicies
<1>3. CodeAnalysisTypeOK
  BY <1>1, <1>2, AnalysisTypes
<1> QED
  BY <1>1, <1>2, <1>3 DEF CodeAnalysisInv, Chosen, Allowed

LEMMA AnalysisFacts ==
    ASSUME CodeAnalysisInv
    PROVE  /\ policy \in StoredPolicies /\ llmRow \in [LLMIds -> LLMRows \cup {NoLLM}]
           /\ llmCount \in 0..MaxLLMs /\ llmCount \in Nat
           /\ ruleRows \subseteq RuleRows /\ analysis \in [Analyses -> CallRecord]
           /\ llmRecorded \subseteq [call : Analyses, status : {200, 500}] /\ llmUnrecorded \subseteq Analyses
           /\ policyEdits \in 0..MaxPolicyEdits /\ analysisFaults \in 0..MaxAnalysisFaults
           /\ \A a \in Analyses : analysis[a] \in CallRecord
BY AnalysisConstants DEF CodeAnalysisInv, CodeAnalysisTypeOK, StoredPolicies

\* The faults and the edits are counted.
LEMMA AnalysisCounts ==
    ASSUME CodeAnalysisInv
    PROVE  /\ AnalysisFault => analysisFaults' \in 0..MaxAnalysisFaults
           /\ PolicyEdit => policyEdits' \in 0..MaxPolicyEdits
BY AnalysisFacts, AnalysisConstants DEF AnalysisFault, PolicyEdit

\* The policy of an organization without one names nobody.
LEMMA DefaultNamesNobody == Candidates(DefaultPolicy) = {}
<1>1. DefaultPolicy.mode = "approved" /\ DefaultPolicy.default = 0 /\ DefaultPolicy.allowed = <<>>
  BY DEF DefaultPolicy
<1>2. selectApproved(DefaultPolicy) = {}
  BY <1>1 DEF selectApproved
<1> QED
  BY <1>1, <1>2 DEF Candidates

LEMMA CandidatesType ==
    ASSUME NEW p \in StoredPolicies
    PROVE  /\ Candidates(p) \subseteq Nat
           /\ \A n \in Candidates(p) : ProviderAt(p, n) \in 1..MaxLLMs
<1>1. p.default \in 0..MaxLLMs /\ p.allowed \in Seq(1..MaxLLMs) /\ MaxLLMs \in Nat
  BY AnalysisConstants
<1>2. DOMAIN p.allowed \subseteq Nat \ {0} /\ \A n \in DOMAIN p.allowed : p.allowed[n] \in 1..MaxLLMs
  BY <1>1
<1>3. selectApproved(p) \subseteq {0} \cup DOMAIN p.allowed /\ (0 \in selectApproved(p) => p.default # 0)
  BY DEF selectApproved
<1>4. Candidates(p) \in {selectApproved(p), selectBYO(p), {}}
  BY DEF Candidates
<1>5. \A n \in Candidates(p) : n \in DOMAIN p.allowed \/ (n = 0 /\ p.default # 0)
  BY <1>2, <1>3, <1>4 DEF selectBYO
<1> QED
  BY <1>1, <1>2, <1>5 DEF ProviderAt

\* A candidate of the policy whose row fits is permitted by it.
LEMMA FitsIsPermitted ==
    ASSUME NEW p \in StoredPolicies, NEW n \in Candidates(p), NEW r, resolveProviderWithInfo(p, r)
    PROVE  Permits(p, ProviderAt(p, n), r)
<1>1. p.mode \in {"approved", "strict", "byo"}
  BY DEF Candidates
<1>2. r.region \in p.regions /\ (p.mode = "byo" => r.selfHosted)
  BY DEF resolveProviderWithInfo
<1>3. p.default \in 0..MaxLLMs /\ p.allowed \in Seq(1..MaxLLMs) /\ MaxLLMs \in Nat
  BY AnalysisConstants
<1>4. 0 \notin DOMAIN p.allowed
  BY <1>3
<1>5. CASE p.mode = "byo"
  <2>1. n \in DOMAIN p.allowed
    BY <1>5 DEF Candidates, selectBYO
  <2>2. ProviderAt(p, n) = p.allowed[n]
    BY <1>4, <2>1 DEF ProviderAt
  <2> QED
    BY <1>2, <1>5, <2>1, <2>2 DEF Permits
<1>6. CASE p.mode \in {"approved", "strict"}
  <2>1. n \in {0} \cup DOMAIN p.allowed
    BY <1>6 DEF Candidates, selectApproved
  <2>2. CASE n = 0
    BY <1>2, <1>6, <2>2 DEF Permits, ProviderAt
  <2>3. CASE n # 0
    BY <1>2, <1>6, <2>1, <2>3 DEF Permits, ProviderAt
  <2> QED
    BY <2>2, <2>3
<1> QED
  BY <1>1, <1>5, <1>6

\* A call that goes on: its own new state, the others as they were.
LEMMA LLMCallMoves ==
    ASSUME CodeAnalysisInv, NEW a \in Analyses, NEW new \in CallRecord,
           analysis' = [analysis EXCEPT ![a] = new], analysis[a].pc # "done",
           UNCHANGED <<policy, llmRow, llmCount, ruleRows, policyEdits>>,
           analysisFaults' \in 0..MaxAnalysisFaults,
           Chosen(a)', Allowed(a)',
           llmRecorded' \subseteq [call : Analyses, status : {200, 500}], llmUnrecorded' \subseteq Analyses,
           llmUnrecorded \subseteq llmUnrecorded', llmRecorded \subseteq llmRecorded',
           \A s \in llmSent' : (s \in llmSent /\ s.call # a) \/ UsageLogged(s)',
           \A x \in llmRecorded' : (x \in llmRecorded /\ x.call # a) \/ LogEntry(x)'
    PROVE  CodeAnalysisInv'
<1>0. analysis \in [Analyses -> CallRecord]
  BY AnalysisFacts
<1>1. analysis' \in [Analyses -> CallRecord] /\ \A b \in Analyses \ {a} : analysis'[b] = analysis[b]
  BY <1>0
<1>2. CodeAnalysisTypeOK'
  <2>1. /\ policy' \in StoredPolicies /\ llmRow' \in [LLMIds -> LLMRows \cup {NoLLM}]
        /\ llmCount' \in 0..MaxLLMs /\ ruleRows' \subseteq RuleRows
        /\ policyEdits' \in 0..MaxPolicyEdits
    BY AnalysisFacts
  <2> QED
    BY <1>1, <2>1, AnalysisTypes DEF CodeAnalysisTypeOK, CallRecord, AnalysisPcs, StoredPolicies
<1>3. \A i \in LLMIds : i > llmCount' => llmRow'[i] = NoLLM
  BY DEF CodeAnalysisInv
<1>4. ASSUME NEW b \in Analyses \ {a} PROVE Chosen(b)' /\ Allowed(b)'
  <2>1. Chosen(b) /\ Allowed(b) /\ analysis'[b] = analysis[b]
    BY <1>1 DEF CodeAnalysisInv
  <2> QED
    BY <2>1 DEF Chosen, Allowed, Permits
<1>5. ASSUME NEW s \in llmSent' PROVE UsageLogged(s)'
  <2>1. CASE s \in llmSent /\ s.call # a
    <3>1. UsageLogged(s) /\ analysis'[s.call] = analysis[s.call]
      BY <1>1, <2>1 DEF CodeAnalysisInv, UsageLogged
    <3> QED
      BY <3>1 DEF UsageLogged
  <2> QED
    BY <2>1
<1>6. ASSUME NEW x \in llmRecorded' PROVE LogEntry(x)'
  <2>1. CASE x \in llmRecorded /\ x.call # a
    <3>0. x.call \in Analyses
      BY AnalysisFacts
    <3>1. LogEntry(x) /\ analysis'[x.call] = analysis[x.call]
      BY <1>1, <2>1, <3>0 DEF CodeAnalysisInv
    <3> QED
      BY <3>1 DEF LogEntry
  <2> QED
    BY <2>1
<1> QED
  BY <1>1, <1>2, <1>3, <1>4, <1>5, <1>6 DEF CodeAnalysisInv

\* A call that has not gone out is in no log.
LEMMA NotLogged ==
    ASSUME CodeAnalysisInv, NEW a \in Analyses, analysis[a].pc \in {"idle", "resolve", "send"}
    PROVE  (\A s \in llmSent : s.call # a) /\ (\A x \in llmRecorded : x.call # a)
BY DEF CodeAnalysisInv, UsageLogged, LogEntry

\* A record of a call with some of its fields changed.
LEMMA CallPassed ==
    ASSUME NEW q \in CallRecord, NEW n, NEW new, new = [q EXCEPT !.todo = @ \ {n}]
    PROVE  /\ new \in CallRecord /\ new.pc = q.pc /\ new.todo = q.todo \ {n} /\ new.policy = q.policy
           /\ new.patterns = q.patterns /\ new.overtaken = q.overtaken
<1>0. q.todo \ {n} \in SUBSET Nat
  BY DEF CallRecord
<1>1. new = [pc |-> q.pc, policy |-> q.policy, todo |-> q.todo \ {n}, llm |-> q.llm, patterns |-> q.patterns,
             overtaken |-> q.overtaken, op |-> q.op, result |-> q.result, name |-> q.name]
  BY DEF CallRecord
<1>2. new \in CallRecord
  BY <1>0, <1>1 DEF CallRecord
<1> QED
  BY <1>1, <1>2

LEMMA CallFinished ==
    ASSUME NEW q \in CallRecord, NEW pc \in AnalysisPcs, NEW new, new = [q EXCEPT !.pc = pc]
    PROVE  new \in CallRecord /\ new.pc = pc /\ new.result = q.result
BY DEF CallRecord

LEMMA SelectKeeps ==
    ASSUME CodeAnalysisInv, NEW a \in Analyses, NEW op \in Operations, SelectProvider(a, op)
    PROVE  CodeAnalysisInv'
<1>1. PICK p \in {policy, DefaultPolicy} :
         /\ IF p = policy THEN UNCHANGED analysisFaults ELSE AnalysisFault
         /\ analysis' = [analysis EXCEPT ![a] =
                [NoAnalysis EXCEPT !.pc = "resolve", !.policy = p, !.todo = Candidates(p),
                                   !.patterns = NewCodeRedactorWithRules, !.op = op]]
  BY DEF SelectProvider
<1>2. UNCHANGED <<policy, llmRow, llmCount, ruleRows, llmSent, llmRecorded, llmUnrecorded, policyEdits>>
      /\ analysis[a].pc = "idle"
  BY DEF SelectProvider, llmHistory
<1> DEFINE pats == NewCodeRedactorWithRules
           cands == Candidates(p)
           new == [NoAnalysis EXCEPT !.pc = "resolve", !.policy = p, !.todo = cands, !.patterns = pats, !.op = op]
<1>3. p \in StoredPolicies
  BY AnalysisFacts DEF StoredPolicies
<1>4. cands \in SUBSET Nat
  BY <1>3, CandidatesType
<1>5. pats \in SUBSET Secrets /\ "built-in" \in pats
      /\ \A r \in ruleRows : r.enabled /\ r.valid => r.pattern \in pats
  BY AnalysisFacts DEF NewCodeRedactorWithRules, Secrets
<1>6. analysis' = [analysis EXCEPT ![a] = new]
  BY <1>1
<1> HIDE DEF pats, cands
<1>7. new \in CallRecord /\ new.pc = "resolve" /\ new.policy = p /\ new.todo = cands /\ new.patterns = pats
  BY <1>3, <1>4, <1>5, NoAnalysisType DEF NoAnalysis, CallRecord, AnalysisPcs
<1> HIDE DEF new
<1>8. analysis'[a] = new /\ analysisFaults' \in 0..MaxAnalysisFaults
  BY <1>1, <1>6, AnalysisFacts, AnalysisCounts
<1>9. Chosen(a)'
  BY <1>2, <1>5, <1>7, <1>8 DEF Chosen, cands
<1>10. Allowed(a)'
  BY <1>7, <1>8 DEF Allowed
<1>11. /\ \A s \in llmSent' : s \in llmSent /\ s.call # a
       /\ \A x \in llmRecorded' : x \in llmRecorded /\ x.call # a
  BY <1>2, NotLogged
<1> QED
  BY <1>2, <1>6, <1>7, <1>8, <1>9, <1>10, <1>11, AnalysisFacts, LLMCallMoves

LEMMA ResolveKeeps == ASSUME CodeAnalysisInv, NEW a \in Analyses, resolveProvider(a) PROVE CodeAnalysisInv'
<1> DEFINE q == analysis[a]
<1>0. q \in CallRecord /\ q.policy \in StoredPolicies /\ q.todo \subseteq Candidates(q.policy) /\ q.pc = "resolve"
      /\ Chosen(a)
  BY AnalysisFacts DEF resolveProvider, CodeAnalysisInv, Chosen, CallRecord
<1>1. UNCHANGED <<policy, llmRow, llmCount, ruleRows, llmSent, llmRecorded, llmUnrecorded, policyEdits>>
  BY DEF resolveProvider, llmHistory
<1>2. PICK n \in q.todo :
         \/ /\ llmRow[ProviderAt(q.policy, n)] # NoLLM
            /\ resolveProviderWithInfo(q.policy, llmRow[ProviderAt(q.policy, n)])
            /\ UNCHANGED analysisFaults
            /\ analysis' = [analysis EXCEPT ![a] =
                  [q EXCEPT !.pc = "send", !.llm = ProviderAt(q.policy, n),
                            !.name = llmRow[ProviderAt(q.policy, n)].name]]
         \/ /\ AnalysisFault \/ UNCHANGED analysisFaults
            /\ analysis' = [analysis EXCEPT ![a] = [q EXCEPT !.todo = @ \ {n}]]
  BY DEF resolveProvider
<1> DEFINE i == ProviderAt(q.policy, n)
<1>3. i \in 1..MaxLLMs /\ n \in Candidates(q.policy)
  BY <1>0, CandidatesType
<1>4. analysisFaults' \in 0..MaxAnalysisFaults
  BY <1>2, AnalysisFacts, AnalysisCounts
<1>5. /\ \A s \in llmSent' : s \in llmSent /\ s.call # a
      /\ \A x \in llmRecorded' : x \in llmRecorded /\ x.call # a
  BY <1>0, <1>1, NotLogged
<1>6. CASE /\ llmRow[i] # NoLLM /\ resolveProviderWithInfo(q.policy, llmRow[i])
           /\ analysis' = [analysis EXCEPT ![a] = [q EXCEPT !.pc = "send", !.llm = i, !.name = llmRow[i].name]]
  <2> DEFINE new == [q EXCEPT !.pc = "send", !.llm = i, !.name = llmRow[i].name]
  <2>1. i \in LLMIds /\ i \in 0..MaxLLMs /\ llmRow[i].name \in LLMNames /\ i \in Nat
    BY <1>3, AnalysisFacts, AnalysisConstants DEF LLMIds, LLMNames
  <2>2. i \in 1..llmCount
    BY <1>3, <1>6, <2>1, AnalysisFacts DEF CodeAnalysisInv
  <2>3. Permits(q.policy, i, llmRow[i])
    BY <1>0, <1>3, <1>6, FitsIsPermitted
  <2>4. q.policy # DefaultPolicy
    BY <1>3, DefaultNamesNobody
  <2>5. new \in CallRecord /\ new.pc = "send" /\ new.llm = i /\ new.policy = q.policy
        /\ new.patterns = q.patterns /\ new.overtaken = q.overtaken
    <3> DEFINE m == llmRow[i].name
    <3>0. m \in LLMNames
      BY <2>1
    <3>1. new = [q EXCEPT !.pc = "send", !.llm = i, !.name = m]
      OBVIOUS
    <3> HIDE DEF q, i, m, new
    <3> QED
      BY <1>0, <2>1, <3>0, <3>1 DEF CallRecord, AnalysisPcs
  <2>6. analysis' = [analysis EXCEPT ![a] = new] /\ analysis'[a] = new
    BY <1>6, AnalysisFacts
  <2> HIDE DEF new, i
  <2>7. Chosen(a)'
    BY <1>0, <1>1, <2>5, <2>6 DEF Chosen
  <2>8. Allowed(a)'
    BY <1>0, <1>1, <2>2, <2>3, <2>4, <2>5, <2>6 DEF Allowed, Chosen, Permits
  <2> QED
    BY <1>0, <1>1, <1>4, <1>5, <2>5, <2>6, <2>7, <2>8, AnalysisFacts, LLMCallMoves
<1>7. CASE analysis' = [analysis EXCEPT ![a] = [q EXCEPT !.todo = @ \ {n}]]
  <2> DEFINE new == [q EXCEPT !.todo = @ \ {n}]
  <2>1. new \in CallRecord /\ new.pc = q.pc /\ new.todo = q.todo \ {n} /\ new.policy = q.policy
        /\ new.patterns = q.patterns /\ new.overtaken = q.overtaken
    <3> HIDE DEF q
    <3>1. new = [q EXCEPT !.todo = @ \ {n}]
      OBVIOUS
    <3> HIDE DEF new
    <3> QED
      BY <1>0, <3>1, CallPassed
  <2>2. analysis' = [analysis EXCEPT ![a] = new] /\ analysis'[a] = new
    BY <1>7, AnalysisFacts
  <2> HIDE DEF new
  <2>3. Chosen(a)' /\ Allowed(a)'
    BY <1>0, <1>1, <2>1, <2>2 DEF Chosen, Allowed
  <2> QED
    BY <1>0, <1>1, <1>4, <1>5, <2>1, <2>2, <2>3, AnalysisFacts, LLMCallMoves
<1> QED
  BY <1>2, <1>6, <1>7

LEMMA FallbackKeeps == ASSUME CodeAnalysisInv, NEW a \in Analyses, RegexFallback(a) PROVE CodeAnalysisInv'
<1> DEFINE q == analysis[a]
           res == RegexResult(q.op)
           new == [q EXCEPT !.pc = "regex", !.result = res]
<1>1. UNCHANGED <<policy, llmRow, llmCount, ruleRows, llmSent, llmRecorded, llmUnrecorded, policyEdits, analysisFaults>>
      /\ q.pc = "resolve" /\ q \in CallRecord
  BY AnalysisFacts DEF RegexFallback, llmHistory
<1>2. res \in AnalysisResults /\ "regex" \in AnalysisPcs
  BY DEF RegexResult, AnalysisResults, AnalysisPcs
<1>3. analysis' = [analysis EXCEPT ![a] = new] /\ analysis'[a] = new
  BY AnalysisFacts DEF RegexFallback
<1>4. new \in CallRecord /\ new.pc = "regex"
  <2> HIDE DEF q, res
  <2>1. new = [q EXCEPT !.pc = "regex", !.result = res]
    OBVIOUS
  <2>2. new.pc = "regex" /\ new.result = res
    BY <1>1, <2>1 DEF CallRecord
  <2> QED
    BY <1>1, <1>2, <2>1 DEF CallRecord
<1> HIDE DEF new, res
<1>5. Chosen(a)' /\ Allowed(a)'
  BY <1>3, <1>4 DEF Chosen, Allowed
<1>6. /\ \A s \in llmSent' : s \in llmSent /\ s.call # a
      /\ \A x \in llmRecorded' : x \in llmRecorded /\ x.call # a
  BY <1>1, NotLogged
<1> QED
  BY <1>1, <1>3, <1>4, <1>5, <1>6, AnalysisFacts, LLMCallMoves

LEMMA ResultType ==
    ASSUME NEW name, NEW op \in Operations, NEW answer \in Answers
    PROVE  ProviderResult(name, op, answer) \in AnalysisResults
<1>1. /\ DeepSeekAnalyze(answer) \in AnalysisResults /\ OpenAIAnalyze(answer) \in AnalysisResults
      /\ ValidateCleanup(answer) \in AnalysisResults
  BY DEF DeepSeekAnalyze, OpenAIAnalyze, ValidateCleanup, AnalysisResults
<1>2. GeneratePRDescription(answer) \in AnalysisResults
  BY DEF GeneratePRDescription, AnalysisResults, Answers
<1> QED
  BY <1>1, <1>2 DEF ProviderResult, Operations

LEMMA CallKeeps ==
    ASSUME CodeAnalysisInv, NEW a \in Analyses, NEW answer \in Answers, callLLM(a, answer)
    PROVE  CodeAnalysisInv'
<1> DEFINE q == analysis[a]
           res == ProviderResult(q.name, q.op, answer)
           new == [q EXCEPT !.pc = "record", !.result = res]
           out == [call |-> a, secrets |-> RedactContent(q.patterns)]
<1>1. UNCHANGED <<policy, llmRow, llmCount, ruleRows, llmRecorded, llmUnrecorded, policyEdits, analysisFaults>>
      /\ q.pc = "send" /\ q \in CallRecord /\ Chosen(a)
  BY AnalysisFacts DEF callLLM, CodeAnalysisInv
<1>2. res \in AnalysisResults /\ "record" \in AnalysisPcs
  BY <1>1, ResultType DEF AnalysisPcs, CallRecord
<1>3. analysis' = [analysis EXCEPT ![a] = new] /\ analysis'[a] = new
  BY AnalysisFacts DEF callLLM
<1>4. new \in CallRecord /\ new.pc = "record"
  <2> HIDE DEF q, res
  <2>1. new = [q EXCEPT !.pc = "record", !.result = res]
    OBVIOUS
  <2>2. new.pc = "record" /\ new.result = res
    BY <1>1, <2>1 DEF CallRecord
  <2> QED
    BY <1>1, <1>2, <2>1 DEF CallRecord
<1>5. llmSent' = llmSent \cup {out} /\ out.call = a /\ "built-in" \notin out.secrets
  BY <1>1 DEF callLLM, Chosen, RedactContent
<1> HIDE DEF new, res, out
<1>6. Chosen(a)' /\ Allowed(a)'
  BY <1>3, <1>4 DEF Chosen, Allowed
<1>8. (\A s \in llmSent : s.call # a) /\ (\A x \in llmRecorded : x.call # a)
  BY <1>1, NotLogged
<1>9. ASSUME NEW s \in llmSent' PROVE (s \in llmSent /\ s.call # a) \/ UsageLogged(s)'
  <2>1. CASE s = out
    <3>1. s.call = a /\ "built-in" \notin s.secrets /\ analysis'[s.call].pc = "record"
      BY <1>3, <1>4, <1>5, <2>1
    <3> QED
      BY <3>1 DEF UsageLogged
  <2> QED
    BY <1>5, <1>8, <2>1
<1>10. \A x \in llmRecorded' : x \in llmRecorded /\ x.call # a
  BY <1>1, <1>8
<1> QED
  BY <1>1, <1>3, <1>4, <1>6, <1>9, <1>10, AnalysisFacts, LLMCallMoves

LEMMA UsageRecordKeeps == ASSUME CodeAnalysisInv, NEW a \in Analyses, RecordLLMInteraction(a) PROVE CodeAnalysisInv'
<1> DEFINE q == analysis[a]
           new == [q EXCEPT !.pc = "done"]
           entry == [call |-> a, status |-> IF q.result = "error" THEN 500 ELSE 200]
<1>1. UNCHANGED <<policy, llmRow, llmCount, ruleRows, llmSent, policyEdits>>
      /\ q.pc = "record" /\ q \in CallRecord
  BY AnalysisFacts DEF RecordLLMInteraction
<1>2. analysis' = [analysis EXCEPT ![a] = new] /\ analysis'[a] = new
  BY AnalysisFacts DEF RecordLLMInteraction
<1>3. new \in CallRecord /\ new.pc = "done" /\ new.result = q.result
  <2> HIDE DEF q
  <2>1. new = [q EXCEPT !.pc = "done"] /\ "done" \in AnalysisPcs
    BY DEF AnalysisPcs
  <2> HIDE DEF new
  <2> QED
    BY <1>1, <2>1, CallFinished
<1>4. \/ llmRecorded' = llmRecorded \cup {entry} /\ UNCHANGED <<llmUnrecorded, analysisFaults>>
      \/ AnalysisFault /\ llmUnrecorded' = llmUnrecorded \cup {a} /\ UNCHANGED llmRecorded
  BY DEF RecordLLMInteraction
<1>5. entry.call = a /\ entry \in [call : Analyses, status : {200, 500}]
      /\ ((entry.status = 500) = (q.result = "error"))
  OBVIOUS
<1> HIDE DEF new, entry
<1>6. Chosen(a)' /\ Allowed(a)'
  BY <1>2, <1>3 DEF Chosen, Allowed
<1>7. analysisFaults' \in 0..MaxAnalysisFaults
  BY <1>4, AnalysisFacts, AnalysisCounts
<1>8. /\ llmRecorded' \subseteq [call : Analyses, status : {200, 500}] /\ llmUnrecorded' \subseteq Analyses
      /\ llmUnrecorded \subseteq llmUnrecorded' /\ llmRecorded \subseteq llmRecorded'
  BY <1>4, <1>5, AnalysisFacts
<1>9. a \in llmUnrecorded' \/ \E x \in llmRecorded' : x.call = a
  BY <1>4, <1>5
<1>10. ASSUME NEW s \in llmSent' PROVE (s \in llmSent /\ s.call # a) \/ UsageLogged(s)'
  <2>1. s \in llmSent /\ UsageLogged(s)
    BY <1>1 DEF CodeAnalysisInv
  <2>2. CASE s.call = a
    BY <1>2, <1>3, <1>9, <2>1, <2>2 DEF UsageLogged
  <2> QED
    BY <2>1, <2>2
<1>11. ASSUME NEW x \in llmRecorded' PROVE (x \in llmRecorded /\ x.call # a) \/ LogEntry(x)'
  <2>1. CASE x \in llmRecorded
    BY <1>1, <2>1 DEF CodeAnalysisInv, LogEntry
  <2>2. CASE x = entry
    BY <1>2, <1>3, <1>5, <2>2 DEF LogEntry
  <2> QED
    BY <1>4, <2>1, <2>2
<1> QED
  BY <1>1, <1>2, <1>3, <1>6, <1>7, <1>8, <1>10, <1>11, LLMCallMoves

-----------------------------------------------------------------------------
\* What the administrator does leaves calls where they are; those that have read what is
\* stored are marked, unless only a row that nobody has read is made.
LEMMA OvertakeKeeps ==
    ASSUME CodeAnalysisInv, Overtake, PolicyEdit,
           policy' \in StoredPolicies, llmRow' \in [LLMIds -> LLMRows \cup {NoLLM}], llmCount' = llmCount,
           ruleRows' \subseteq RuleRows, \A i \in LLMIds : i > llmCount => llmRow'[i] = NoLLM,
           UNCHANGED <<llmSent, llmRecorded, llmUnrecorded, analysisFaults>>
    PROVE  CodeAnalysisInv'
<1> DEFINE late(a) == analysis[a].overtaken \/ analysis[a].pc \in {"resolve", "send"}
           new(a) == [analysis[a] EXCEPT !.overtaken = late(a)]
<1>1. analysis' = [a \in Analyses |-> new(a)]
  BY DEF Overtake
<1>2. ASSUME NEW a \in Analyses
      PROVE  /\ new(a) \in CallRecord /\ new(a).pc = analysis[a].pc /\ new(a).todo = analysis[a].todo
             /\ new(a).policy = analysis[a].policy /\ new(a).patterns = analysis[a].patterns
             /\ new(a).llm = analysis[a].llm /\ new(a).result = analysis[a].result
             /\ new(a).overtaken = late(a)
  <2> DEFINE q == analysis[a]
             l == late(a)
  <2>1. q \in CallRecord
    BY AnalysisFacts
  <2>2. l \in BOOLEAN
    BY Zenon
  <2>3. new(a) = [q EXCEPT !.overtaken = l]
    OBVIOUS
  <2> HIDE DEF q, l, new
  <2>4. /\ new(a) \in CallRecord /\ new(a).pc = q.pc /\ new(a).todo = q.todo
        /\ new(a).policy = q.policy /\ new(a).patterns = q.patterns
        /\ new(a).llm = q.llm /\ new(a).result = q.result
        /\ new(a).overtaken = l
    BY <2>1, <2>2, <2>3 DEF CallRecord
  <2> QED
    BY <2>4 DEF q, l
<1> HIDE DEF new
<1>3. /\ \A a \in Analyses : analysis'[a] = new(a)
      /\ analysis' \in [Analyses -> CallRecord]
  BY <1>1, <1>2
<1>4. ASSUME NEW a \in Analyses
      PROVE  /\ analysis'[a].pc = analysis[a].pc /\ analysis'[a].todo = analysis[a].todo
             /\ analysis'[a].policy = analysis[a].policy /\ analysis'[a].patterns = analysis[a].patterns
             /\ analysis'[a].llm = analysis[a].llm /\ analysis'[a].result = analysis[a].result
             /\ analysis[a].pc \in {"resolve", "send"} => analysis'[a].overtaken
  <2>1. analysis'[a] = new(a)
    BY <1>3
  <2>2. analysis'[a].overtaken = late(a)
    BY <1>2, <2>1
  <2>3. analysis[a].pc \in {"resolve", "send"} => analysis'[a].overtaken
    BY <2>2, Zenon
  <2> QED
    BY <1>2, <2>1, <2>3
<1>5. policyEdits' \in 0..MaxPolicyEdits
  BY AnalysisFacts, AnalysisCounts
<1>6. CodeAnalysisTypeOK'
  <2>1. /\ llmCount' \in 0..MaxLLMs /\ analysisFaults' \in 0..MaxAnalysisFaults
        /\ llmRecorded' \subseteq [call : Analyses, status : {200, 500}] /\ llmUnrecorded' \subseteq Analyses
    BY AnalysisFacts
  <2> QED
    BY <1>3, <1>5, <2>1 DEF CodeAnalysisTypeOK, CallRecord, AnalysisPcs, StoredPolicies
<1>7. ASSUME NEW a \in Analyses PROVE Chosen(a)' /\ Allowed(a)'
  <2>1. Chosen(a) /\ Allowed(a)
    BY DEF CodeAnalysisInv
  <2> QED
    BY <1>4, <2>1 DEF Chosen, Allowed
<1>8. ASSUME NEW s \in llmSent' PROVE UsageLogged(s)'
  <2>1. s \in llmSent /\ UsageLogged(s) /\ s.call \in Analyses
    BY DEF CodeAnalysisInv, UsageLogged
  <2> QED
    BY <1>4, <2>1 DEF UsageLogged
<1>9. ASSUME NEW x \in llmRecorded' PROVE LogEntry(x)'
  <2>1. x \in llmRecorded /\ LogEntry(x) /\ x.call \in Analyses
    BY AnalysisFacts DEF CodeAnalysisInv
  <2> QED
    BY <1>4, <2>1 DEF LogEntry
<1> QED
  BY <1>3, <1>6, <1>7, <1>8, <1>9 DEF CodeAnalysisInv

LEMMA AdministratorKeeps ==
    ASSUME CodeAnalysisInv,
           \/ \E p \in Policies : UpsertCompliancePolicy(p)
           \/ \E i \in LLMIds : DeleteApprovedProvider(i)
           \/ \E r \in RuleRows : UpsertRedactionRule(r) \/ DeleteRedactionRule(r)
    PROVE  CodeAnalysisInv'
<1>0. /\ policy \in StoredPolicies /\ llmRow \in [LLMIds -> LLMRows \cup {NoLLM}] /\ ruleRows \subseteq RuleRows
      /\ \A i \in LLMIds : i > llmCount => llmRow[i] = NoLLM
  BY AnalysisFacts DEF CodeAnalysisInv
<1>1. /\ Overtake /\ PolicyEdit /\ llmCount' = llmCount
      /\ UNCHANGED <<llmSent, llmRecorded, llmUnrecorded, analysisFaults>>
  BY DEF UpsertCompliancePolicy, DeleteApprovedProvider, UpsertRedactionRule, DeleteRedactionRule, llmHistory
<1>2. policy' \in StoredPolicies
  BY <1>0 DEF UpsertCompliancePolicy, DeleteApprovedProvider, UpsertRedactionRule, DeleteRedactionRule, StoredPolicies
<1>3. llmRow' = llmRow \/ \E i \in LLMIds : llmRow' = [llmRow EXCEPT ![i] = NoLLM]
  BY DEF UpsertCompliancePolicy, DeleteApprovedProvider, UpsertRedactionRule, DeleteRedactionRule
<1>4. llmRow' \in [LLMIds -> LLMRows \cup {NoLLM}] /\ \A i \in LLMIds : i > llmCount => llmRow'[i] = NoLLM
  BY <1>0, <1>3
<1>5. ruleRows' \subseteq RuleRows
  BY <1>0 DEF UpsertCompliancePolicy, DeleteApprovedProvider, UpsertRedactionRule, DeleteRedactionRule
<1> QED
  BY <1>1, <1>2, <1>4, <1>5, OvertakeKeeps

LEMMA ApproveKeeps ==
    ASSUME CodeAnalysisInv, NEW r \in LLMRows, UpsertApprovedProvider(r)
    PROVE  CodeAnalysisInv'
<1>1. /\ llmCount' = llmCount + 1 /\ llmCount < MaxLLMs /\ llmRow' = [llmRow EXCEPT ![llmCount'] = r]
      /\ UNCHANGED <<policy, ruleRows, analysis, llmSent, llmRecorded, llmUnrecorded, policyEdits, analysisFaults>>
  BY DEF UpsertApprovedProvider, llmHistory
<1>2. /\ llmCount \in Nat /\ MaxLLMs \in Nat /\ llmRow \in [LLMIds -> LLMRows \cup {NoLLM}]
      /\ \A i \in LLMIds : i > llmCount => llmRow[i] = NoLLM
  BY AnalysisFacts, AnalysisConstants DEF CodeAnalysisInv
<1>3. /\ llmRow' \in [LLMIds -> LLMRows \cup {NoLLM}] /\ llmCount' \in 0..MaxLLMs
      /\ \A i \in LLMIds : i > llmCount' => llmRow'[i] = NoLLM
      /\ \A i \in 1..llmCount : i \in 1..llmCount' /\ llmRow'[i] = llmRow[i]
  BY <1>1, <1>2 DEF LLMIds
<1>4. CodeAnalysisTypeOK'
  BY <1>1, <1>3, AnalysisFacts DEF CodeAnalysisInv, CodeAnalysisTypeOK, StoredPolicies
<1>5. ASSUME NEW a \in Analyses PROVE Chosen(a)' /\ Allowed(a)'
  <2>1. Chosen(a) /\ Allowed(a)
    BY DEF CodeAnalysisInv
  <2>2. Chosen(a)'
    BY <1>1, <2>1 DEF Chosen
  <2>3. Allowed(a)'
    BY <1>1, <1>3, <2>1 DEF Allowed, Permits
  <2> QED
    BY <2>2, <2>3
<1>6. \A s \in llmSent' : UsageLogged(s)'
  BY <1>1 DEF CodeAnalysisInv, UsageLogged
<1>7. \A x \in llmRecorded' : LogEntry(x)'
  BY <1>1 DEF CodeAnalysisInv, LogEntry
<1> QED
  BY <1>1, <1>3, <1>4, <1>5, <1>6, <1>7 DEF CodeAnalysisInv

LEMMA CodeAnalysisKeeps ==
    ASSUME CodeAnalysisInv, [CodeAnalysisNext]_analysisVars
    PROVE  CodeAnalysisInv'
<1>1. CASE UNCHANGED analysisVars
  <2> USE <1>1 DEF analysisVars
  <2>1. CodeAnalysisTypeOK'
    BY DEF CodeAnalysisInv, CodeAnalysisTypeOK
  <2>2. \A a \in Analyses : Chosen(a)' /\ Allowed(a)'
    BY DEF CodeAnalysisInv, Chosen, Allowed, Permits
  <2>3. (\A s \in llmSent' : UsageLogged(s)') /\ \A x \in llmRecorded' : LogEntry(x)'
    BY DEF CodeAnalysisInv, UsageLogged, LogEntry
  <2> QED
    BY <2>1, <2>2, <2>3 DEF CodeAnalysisInv
<1>2. CASE CodeAnalysisNext
  BY <1>2, AdministratorKeeps, ApproveKeeps, SelectKeeps, ResolveKeeps, FallbackKeeps, CallKeeps, UsageRecordKeeps
     DEF CodeAnalysisNext
<1> QED
  BY <1>1, <1>2

\* What the wrapper masks is not sent.
LEMMA CodeIsSentAsAllowed == ASSUME CodeAnalysisInv PROVE LLMUseAllowed
<1>1. ASSUME NEW a \in Analyses, analysis[a].pc = "send" /\ ~analysis[a].overtaken
      PROVE  /\ Permits(policy, analysis[a].llm, llmRow[analysis[a].llm])
             /\ \A r \in ruleRows : r.enabled /\ r.valid => r.pattern \notin RedactContent(analysis[a].patterns)
  BY <1>1 DEF CodeAnalysisInv, Chosen, Allowed, RedactContent
<1>2. ASSUME NEW s \in llmSent
      PROVE  /\ "built-in" \notin s.secrets
             /\ \/ analysis[s.call].pc = "record"
                \/ s.call \in llmUnrecorded \/ \E x \in llmRecorded : x.call = s.call
  BY DEF CodeAnalysisInv, UsageLogged
<1>3. ASSUME NEW x \in llmRecorded PROVE (x.status = 500) = (analysis[x.call].result = "error")
  BY DEF CodeAnalysisInv, LogEntry
<1> QED
  BY <1>1, <1>2, <1>3 DEF LLMUseAllowed

\* Code goes to a language model only as the stored policy and rules allow, unless they were
\* edited while the call was on its way, and every call that went out is in the log, or its
\* record is to come or failed: whatever the policies, the providers and the rules, and with
\* any number of calls at once.
THEOREM CodeGoesWhereAllowed == CodeAnalysisSpec => []LLMUseAllowed
<1>1. CodeAnalysisSpec => []CodeAnalysisInv
  BY InitAnalysis, CodeAnalysisKeeps, PTL DEF CodeAnalysisSpec
<1> QED
  BY <1>1, CodeIsSentAsAllowed, PTL

-----------------------------------------------------------------------------
(***************************************************************************)
(* What a Git host lists.  `Got' is how much of its list has been asked for. *)
(***************************************************************************)
Before(n) == (n - 1) * PageSize
Got == Before(listPage)

\* What the caller has was there, what stayed is still there, and no entry is there twice.
HostKnown ==
    /\ IsInjective(remote)
    /\ stayed \subseteq ToSet(remote) /\ ToSet(remote) \subseteq everThere
    /\ ToSet(listed) \subseteq everThere /\ ToSet(listTree) \subseteq everThere /\ filesRead \subseteq everThere

\* Page by page: an entry that stayed is got, or is still to come, unless a removal has moved
\* it to a page that was read; one that was got does not come again, unless an addition moves it.
PagesKept ==
    \/ remoteRemoved
    \/ \A k \in DOMAIN remote : k <= Got /\ remote[k] \in stayed => remote[k] \in ToSet(listed)
PagesOnce ==
    \/ remoteAdded
    \/ IsInjective(listed) /\ \A k \in DOMAIN remote : k > Got => remote[k] \notin ToSet(listed)
Paging == listKind # "files" /\ listPc \in {"new", "validate", "list"} => PagesKept /\ PagesOnce

\* The whole list.
ListKept == remoteRemoved \/ LeftOut \/ stayed \subseteq ToSet(listed)
ListOnce == remoteAdded \/ IsInjective(listed)
Returned == Listed => ListKept /\ ListOnce

\* The files.
FileTrouble == LeftOut \/ remoteFaults > 0 \/ ~tokenGood
Reading ==
    /\ listPc = "tree" => stayed \subseteq ToSet(listTree)
    /\ listPc = "read" => FileTrouble \/ stayed \subseteq filesRead \union ToSet(listed)
    /\ listPc = "done" /\ listKind = "files" => FileTrouble \/ stayed \subseteq filesRead

Chose ==
    /\ listPc # "done" => listChosen = 0
    /\ listChosen # 0 => /\ listChosen \in everThere
                         /\ listWant # 0 \/ remoteRemoved \/ stayed \subseteq {listChosen}

Stages ==
    /\ listPc \in {"tree", "read"} => listKind = "files"
    /\ listPc = "choose" => listKind = "repositories"
    /\ treeTruncated => listKind = "files"

RemoteListingInv ==
    /\ RemoteListingTypeOK /\ HostKnown /\ Paging /\ Returned /\ Reading /\ Chose /\ Stages

-----------------------------------------------------------------------------
(* Sequences. *)
LEMMA InsertFacts ==
    ASSUME NEW S, NEW s \in Seq(S), NEW k \in 1..(Len(s) + 1), NEW e \in S
    PROVE  /\ InsertAt(s, k, e) \in Seq(S) /\ Len(InsertAt(s, k, e)) = Len(s) + 1
           /\ (\A j \in 1..(k - 1) : InsertAt(s, k, e)[j] = s[j]) /\ InsertAt(s, k, e)[k] = e
           /\ \A j \in (k + 1)..Len(InsertAt(s, k, e)) : InsertAt(s, k, e)[j] = s[j - 1]
<1> DEFINE r == InsertAt(s, k, e)
           a == SubSeq(s, 1, k - 1)
           c == SubSeq(s, k, Len(s))
<1>1. a \in Seq(S) /\ Len(a) = k - 1 /\ \A j \in 1..(k - 1) : a[j] = s[j]
  OBVIOUS
<1>2. c \in Seq(S) /\ Len(c) = Len(s) + 1 - k /\ \A j \in 1..(Len(s) + 1 - k) : c[j] = s[k + j - 1]
  OBVIOUS
<1>3. r = (a \o <<e>>) \o c
  BY DEF InsertAt
<1> HIDE DEF a, c, r
<1> DEFINE b == a \o <<e>>
<1>4. b \in Seq(S) /\ Len(b) = k /\ (\A j \in 1..(k - 1) : b[j] = s[j]) /\ b[k] = e
  BY <1>1
<1> HIDE DEF b
<1>5. r = b \o c
  BY <1>3 DEF b
<1>6. r \in Seq(S) /\ Len(r) = Len(s) + 1
  <2>1. r \in Seq(S) /\ Len(r) = Len(b) + Len(c)
    BY <1>2, <1>4, <1>5, ConcatProperties
  <2> QED
    BY <1>2, <1>4, <2>1
<1>7. (\A j \in 1..(k - 1) : r[j] = s[j]) /\ r[k] = e
  BY <1>2, <1>4, <1>5, <1>6
<1>8. ASSUME NEW j \in (k + 1)..Len(r) PROVE r[j] = s[j - 1]
  <2>1. r[j] = c[j - k]
    BY <1>2, <1>4, <1>5, <1>6
  <2>2. j - k \in 1..(Len(s) + 1 - k) /\ k + (j - k) - 1 = j - 1
    BY <1>6
  <2> QED
    BY <1>2, <2>1, <2>2
<1> QED
  BY <1>6, <1>7, <1>8 DEF r

LEMMA RemoveFacts ==
    ASSUME NEW S, NEW s \in Seq(S), NEW k \in DOMAIN s, NEW r, r = RemoveAt(s, k)
    PROVE  /\ r \in Seq(S) /\ Len(r) = Len(s) - 1
           /\ \A j \in 1..Len(r) : r[j] = IF j < k THEN s[j] ELSE s[j + 1]
<1> DEFINE a == SubSeq(s, 1, k - 1)
           c == SubSeq(s, k + 1, Len(s))
<1>1. a \in Seq(S) /\ Len(a) = k - 1 /\ \A j \in 1..(k - 1) : a[j] = s[j]
  OBVIOUS
<1>2. c \in Seq(S) /\ Len(c) = Len(s) - k /\ \A j \in 1..(Len(s) - k) : c[j] = s[k + j]
  OBVIOUS
<1>3. r = a \o c
  BY DEF RemoveAt
<1> HIDE DEF a, c
<1>6. r \in Seq(S) /\ Len(r) = Len(s) - 1
  BY <1>1, <1>2, <1>3
<1>7. ASSUME NEW j \in 1..Len(r)
      PROVE  r[j] = IF j < k THEN s[j] ELSE s[j + 1]
  <2>1. CASE j < k
    BY <1>1, <1>2, <1>3, <1>6, <2>1
  <2>2. CASE j >= k
    <3>1. r[j] = c[j - (k - 1)]
      <4>1. r[j] = IF j <= Len(a) THEN a[j] ELSE c[j - Len(a)]
        <5>1. j \in 1..(Len(a) + Len(c))
          BY <1>1, <1>2, <1>6
        <5>2. \A i \in 1..(Len(a) + Len(c)) : (a \o c)[i] = IF i <= Len(a) THEN a[i] ELSE c[i - Len(a)]
          BY <1>1, <1>2, ConcatProperties
        <5> QED
          BY <1>3, <5>1, <5>2
      <4> QED
        BY <1>1, <2>2, <4>1
    <3>2. j - (k - 1) \in 1..(Len(s) - k) /\ k + (j - (k - 1)) = j + 1
      BY <1>6, <2>2
    <3> QED
      BY <1>2, <2>2, <3>1, <3>2
  <2> QED
    BY <2>1, <2>2
<1> QED
  BY <1>6, <1>7

\* A sequence one longer, one shorter: the elements keep their order.
LEMMA RemoteInsertKeeps ==
    ASSUME NEW S, NEW s \in Seq(S), NEW k \in 1..(Len(s) + 1), NEW e \in S, e \notin ToSet(s), IsInjective(s)
    PROVE  /\ InsertAt(s, k, e) \in Seq(S) /\ IsInjective(InsertAt(s, k, e))
           /\ ToSet(InsertAt(s, k, e)) = ToSet(s) \union {e}
           /\ \A j \in DOMAIN InsertAt(s, k, e) :
                 InsertAt(s, k, e)[j] = e \/ \E i \in DOMAIN s : i <= j /\ InsertAt(s, k, e)[j] = s[i]
<1> DEFINE r == InsertAt(s, k, e)
<1>1. /\ r \in Seq(S) /\ Len(r) = Len(s) + 1
      /\ \A j \in 1..Len(r) : r[j] = IF j < k THEN s[j] ELSE IF j = k THEN e ELSE s[j - 1]
  <2>1. /\ r \in Seq(S) /\ Len(r) = Len(s) + 1
        /\ (\A j \in 1..(k - 1) : r[j] = s[j]) /\ r[k] = e
        /\ \A j \in (k + 1)..Len(r) : r[j] = s[j - 1]
    BY InsertFacts
  <2> HIDE DEF r
  <2> QED
    BY <2>1
<1> HIDE DEF r
<1>2. DOMAIN s = 1..Len(s) /\ DOMAIN r = 1..Len(r) /\ Len(s) \in Nat /\ k \in Nat /\ k \in 1..Len(r)
  BY <1>1
<1>3. /\ \A j \in 1..Len(s) : s[j] # e
      /\ \A i, j \in 1..Len(s) : s[i] = s[j] => i = j
  BY <1>2 DEF ToSet, IsInjective
<1>4. \A j \in 1..Len(r) : /\ j < k => j \in 1..Len(s)
                           /\ j > k => j - 1 \in 1..Len(s) /\ j - 1 <= j
  BY <1>1, <1>2
<1>5. IsInjective(r)
  <2> SUFFICES ASSUME NEW i \in 1..Len(r), NEW j \in 1..Len(r), r[i] = r[j] PROVE i = j
    BY <1>2 DEF IsInjective
  <2>1. CASE i = k
    BY <1>1, <1>2, <1>3, <1>4, <2>1
  <2>2. CASE j = k
    BY <1>1, <1>2, <1>3, <1>4, <2>2
  <2>3. CASE i # k /\ j # k
    <3> DEFINE p(x) == IF x < k THEN x ELSE x - 1
    <3>1. p(i) \in 1..Len(s) /\ p(j) \in 1..Len(s) /\ r[i] = s[p(i)] /\ r[j] = s[p(j)]
      BY <1>1, <1>2, <1>4, <2>3
    <3>2. p(i) = p(j)
      BY <1>3, <3>1
    <3> QED
      BY <1>2, <2>3, <3>2
  <2> QED
    BY <2>1, <2>2, <2>3
<1>6. ASSUME NEW j \in DOMAIN r PROVE r[j] = e \/ \E i \in DOMAIN s : i <= j /\ r[j] = s[i]
  <2>1. CASE j < k
    BY <1>1, <1>2, <1>4, <2>1
  <2>2. CASE j > k
    <3>1. j - 1 \in DOMAIN s /\ j - 1 <= j /\ r[j] = s[j - 1]
      BY <1>1, <1>2, <1>4, <2>2
    <3> QED
      BY <3>1
  <2> QED
    BY <1>1, <1>2, <2>1, <2>2
<1>7. ToSet(r) = ToSet(s) \union {e}
  <2>1. e \in ToSet(r)
    BY <1>1, <1>2 DEF ToSet
  <2>2. ASSUME NEW i \in 1..Len(s) PROVE s[i] \in ToSet(r)
    <3>1. CASE i < k
      <4>1. i \in 1..Len(r) /\ r[i] = s[i]
        BY <1>1, <1>2, <3>1
      <4> QED
        BY <1>2, <4>1 DEF ToSet
    <3>2. CASE i >= k
      <4>1. i + 1 \in 1..Len(r) /\ r[i + 1] = s[(i + 1) - 1] /\ (i + 1) - 1 = i
        BY <1>1, <1>2, <3>2
      <4> QED
        BY <1>2, <4>1 DEF ToSet
    <3> QED
      BY <1>2, <3>1, <3>2
  <2> QED
    BY <1>2, <1>6, <2>1, <2>2 DEF ToSet
<1> QED
  BY <1>1, <1>5, <1>6, <1>7 DEF r

LEMMA RemoveKeeps ==
    ASSUME NEW S, NEW s \in Seq(S), NEW k \in DOMAIN s, IsInjective(s)
    PROVE  /\ RemoveAt(s, k) \in Seq(S) /\ IsInjective(RemoveAt(s, k))
           /\ ToSet(RemoveAt(s, k)) = ToSet(s) \ {s[k]}
           /\ \A j \in DOMAIN RemoveAt(s, k) : \E i \in DOMAIN s : j <= i /\ RemoveAt(s, k)[j] = s[i]
<1> DEFINE r == RemoveAt(s, k)
<1>1. /\ r \in Seq(S) /\ Len(r) = Len(s) - 1
      /\ \A j \in 1..Len(r) : r[j] = IF j < k THEN s[j] ELSE s[j + 1]
  BY RemoveFacts
<1> HIDE DEF r
<1>2. DOMAIN s = 1..Len(s) /\ DOMAIN r = 1..Len(r) /\ Len(s) \in Nat /\ k \in Nat /\ k \in 1..Len(s)
  BY <1>1
<1>3. \A i, j \in 1..Len(s) : s[i] = s[j] => i = j
  BY <1>2 DEF IsInjective
<1> DEFINE p(x) == IF x < k THEN x ELSE x + 1
<1>4. \A j \in 1..Len(r) : p(j) \in 1..Len(s) /\ j <= p(j) /\ p(j) # k /\ r[j] = s[p(j)]
  BY <1>1, <1>2
<1>5. IsInjective(r)
  <2> SUFFICES ASSUME NEW i \in 1..Len(r), NEW j \in 1..Len(r), r[i] = r[j] PROVE i = j
    BY <1>2 DEF IsInjective
  <2>1. p(i) = p(j)
    <3> HIDE DEF p
    <3> QED
      BY <1>3, <1>4
  <2> QED
    BY <1>2, <2>1
<1>6. \A j \in DOMAIN r : \E i \in DOMAIN s : j <= i /\ r[j] = s[i]
  <2> HIDE DEF p
  <2> QED
    BY <1>2, <1>4
<1>7. ToSet(r) = ToSet(s) \ {s[k]}
  <2>1. ASSUME NEW j \in 1..Len(r) PROVE r[j] \in ToSet(s) \ {s[k]}
    <3> HIDE DEF p
    <3> QED
      BY <1>2, <1>3, <1>4 DEF ToSet
  <2>2. ASSUME NEW i \in 1..Len(s), i # k PROVE s[i] \in ToSet(r)
    <3>1. CASE i < k
      <4>1. i \in 1..Len(r) /\ r[i] = s[i]
        BY <1>1, <1>2, <3>1
      <4> QED
        BY <1>2, <4>1 DEF ToSet
    <3>2. CASE i > k
      <4>1. i - 1 \in 1..Len(r) /\ r[i - 1] = s[(i - 1) + 1] /\ (i - 1) + 1 = i
        BY <1>1, <1>2, <3>2
      <4> QED
        BY <1>2, <4>1 DEF ToSet
    <3> QED
      BY <1>2, <2>2, <3>1, <3>2
  <2>3. ToSet(s) = {s[i] : i \in 1..Len(s)} /\ ToSet(r) = {r[j] : j \in 1..Len(r)}
    BY <1>2 DEF ToSet
  <2> QED
    BY <2>1, <2>2, <2>3
<1> QED
  BY <1>1, <1>5, <1>6, <1>7 DEF r

LEMMA JoinFacts ==
    ASSUME NEW S, NEW s \in Seq(S), NEW t \in Seq(S)
    PROVE  /\ s \o t \in Seq(S) /\ Len(s \o t) = Len(s) + Len(t) /\ ToSet(s \o t) = ToSet(s) \union ToSet(t)
           /\ \A j \in 1..Len(s) : (s \o t)[j] = s[j]
           /\ \A j \in 1..Len(t) : (s \o t)[Len(s) + j] = t[j]
<1> DEFINE r == s \o t
<1>1. r \in Seq(S) /\ Len(r) = Len(s) + Len(t)
      /\ (\A j \in 1..Len(s) : r[j] = s[j]) /\ \A j \in 1..Len(t) : r[Len(s) + j] = t[j]
  OBVIOUS
<1>2. \A j \in 1..Len(r) : j \in 1..Len(s) \/ \E i \in 1..Len(t) : j = Len(s) + i
  <2> SUFFICES ASSUME NEW j \in 1..Len(r), j \notin 1..Len(s) PROVE \E i \in 1..Len(t) : j = Len(s) + i
    OBVIOUS
  <2>1. j - Len(s) \in 1..Len(t) /\ j = Len(s) + (j - Len(s))
    BY <1>1
  <2> QED
    BY <2>1
<1>3. \A i \in 1..Len(t) : Len(s) + i \in 1..Len(r)
  BY <1>1
<1>4. DOMAIN r = 1..Len(r) /\ DOMAIN s = 1..Len(s) /\ DOMAIN t = 1..Len(t) /\ \A i \in 1..Len(s) : i \in 1..Len(r)
  BY <1>1
<1> HIDE DEF r
<1>5. ToSet(r) = ToSet(s) \union ToSet(t)
  <2>1. ASSUME NEW x \in ToSet(r) PROVE x \in ToSet(s) \union ToSet(t)
    <3>1. PICK j \in 1..Len(r) : x = r[j]
      BY <1>4 DEF ToSet
    <3>2. CASE j \in 1..Len(s)
      BY <1>1, <1>4, <3>1, <3>2 DEF ToSet
    <3>3. ASSUME NEW i \in 1..Len(t), j = Len(s) + i PROVE x \in ToSet(t)
      BY <1>1, <1>4, <3>1, <3>3 DEF ToSet
    <3> QED
      BY <1>2, <3>2, <3>3
  <2>2. ASSUME NEW x \in ToSet(s) PROVE x \in ToSet(r)
    BY <1>1, <1>4 DEF ToSet
  <2>3. ASSUME NEW x \in ToSet(t) PROVE x \in ToSet(r)
    <3>1. PICK i \in 1..Len(t) : x = t[i]
      BY <1>4 DEF ToSet
    <3> QED
      BY <1>1, <1>3, <1>4, <3>1 DEF ToSet
  <2> QED
    BY <2>1, <2>2, <2>3
<1> QED
  BY <1>1, <1>5 DEF r

\* The entries of a page are those at its places.
LEMMA PageFacts ==
    ASSUME NEW S, NEW s \in Seq(S), NEW n \in Nat \ {0}, PageSize \in Nat \ {0}
    PROVE  /\ Before(n) \in Nat /\ Before(n) >= n - 1 /\ n * PageSize = Before(n) + PageSize /\ PageOf(s, n) \in Seq(S)
           /\ \A j \in 1..Len(PageOf(s, n)) :
                 Before(n) + j \in 1..Len(s) /\ Before(n) + j <= Before(n) + PageSize /\ PageOf(s, n)[j] = s[Before(n) + j]
           /\ \A k \in 1..Len(s) : Before(n) < k /\ k <= Before(n) + PageSize =>
                 k - Before(n) \in 1..Len(PageOf(s, n)) /\ PageOf(s, n)[k - Before(n)] = s[k]
           /\ PageOf(s, n) = <<>> <=> Len(s) <= Before(n)
<1> DEFINE base == Before(n)
           page == PageOf(s, n)
<1>1. base \in Nat /\ base >= n - 1 /\ n * PageSize = base + PageSize
  BY DEF Before
<1> DEFINE last == IF Len(s) > base + PageSize THEN base + PageSize ELSE Len(s)
<1>2. page = SubSeq(s, base + 1, last)
  BY <1>1 DEF PageOf, HasNext, Before
<1> HIDE DEF page, base
<1>3. last \in Nat /\ last <= Len(s) /\ last <= base + PageSize /\ (last = Len(s) \/ last = base + PageSize)
  BY <1>1
<1> HIDE DEF last
<1>4. /\ page \in Seq(S) /\ Len(page) = (IF base < last THEN last - base ELSE 0)
      /\ \A j \in 1..Len(page) : page[j] = s[base + j]
  <2>1. \A j \in (base + 1)..last : s[j] \in S
    BY <1>1, <1>3
  <2>2. base + 1 \in Int /\ last \in Int
    BY <1>1, <1>3
  <2>3. /\ page \in Seq(S) /\ Len(page) = (IF base + 1 <= last THEN last - (base + 1) + 1 ELSE 0)
        /\ \A j \in 1..(last - (base + 1) + 1) : page[j] = s[(base + 1) + j - 1]
    BY <1>2, <2>1, <2>2, SubSeqProperties
  <2>4. Len(page) = (IF base < last THEN last - base ELSE 0)
    BY <1>1, <1>3, <2>3
  <2>5. ASSUME NEW j \in 1..Len(page) PROVE page[j] = s[base + j]
    <3>1. j \in 1..(last - (base + 1) + 1) /\ (base + 1) + j - 1 = base + j
      BY <1>1, <1>3, <2>4
    <3> QED
      BY <2>3, <3>1
  <2> QED
    BY <2>3, <2>4, <2>5
<1>5. page = <<>> <=> Len(s) <= base
  <2>1. page = <<>> <=> Len(page) = 0
    BY <1>4
  <2> QED
    BY <1>1, <1>3, <1>4, <2>1
<1>6. /\ \A j \in 1..Len(page) : base + j \in 1..Len(s) /\ base + j <= base + PageSize /\ page[j] = s[base + j]
      /\ \A k \in 1..Len(s) : base < k /\ k <= base + PageSize => k - base \in 1..Len(page) /\ page[k - base] = s[k]
  BY <1>1, <1>3, <1>4
<1> QED
  BY <1>1, <1>4, <1>5, <1>6 DEF page, base

\* The entries that lie at the top, in their order: the nth is the place up to which there
\* are n of them.
LEMMA TopLevelFacts ==
    ASSUME NEW S, NEW s \in Seq(S)
    PROVE  TopLevel(s) \in Seq(S) /\ ToSet(TopLevel(s)) \subseteq ToSet(s) /\ Len(TopLevel(s)) <= Len(s)
<1> DEFINE top == {k \in DOMAIN s : s[k] \notin NestedItems}
           upTo(k) == {j \in top : j <= k}
           place(n) == CHOOSE k \in top : Cardinality({j \in top : j <= k}) = n
           t == [n \in 1..Cardinality(top) |-> s[place(n)]]
<1>1. top \subseteq 1..Len(s) /\ IsFiniteSet(top) /\ Cardinality(top) \in Nat /\ Len(s) \in Nat
  <2>1. top \subseteq 1..Len(s) /\ IsFiniteSet(1..Len(s)) /\ Len(s) \in Nat
    BY FS_Interval
  <2> QED
    BY <2>1, FS_Subset, FS_CardinalityType
<1>2. \A k : upTo(k) \subseteq top /\ IsFiniteSet(upTo(k)) /\ Cardinality(upTo(k)) \in Nat
  BY <1>1, FS_Subset, FS_CardinalityType
<1> DEFINE count(k) == Cardinality(upTo(k))
<1>a. (\A k \in Nat : count(k) \in Nat) /\ count(0) = 0 /\ count(Len(s)) = Cardinality(top)
  <2>1. upTo(Len(s)) = top /\ upTo(0) = {}
    BY <1>1
  <2> HIDE DEF top, upTo
  <2> QED
    BY <1>2, <2>1, FS_EmptySet
<1>b. ASSUME NEW m \in Nat \ {0} PROVE count(m) = count(m - 1) + (IF m \in top THEN 1 ELSE 0)
  <2>1. CASE m \notin top
    <3>1. upTo(m) = upTo(m - 1)
      BY <1>1, <2>1
    <3>2. count(m - 1) \in Nat
      BY <1>a
    <3> HIDE DEF top, upTo
    <3> QED
      BY <2>1, <3>1, <3>2
  <2>2. CASE m \in top
    <3>1. upTo(m) = upTo(m - 1) \cup {m} /\ m \notin upTo(m - 1)
      BY <1>1, <2>2
    <3>2. IsFiniteSet(upTo(m - 1))
      BY <1>2
    <3> HIDE DEF upTo, top
    <3>3. Cardinality(upTo(m - 1) \cup {m}) = Cardinality(upTo(m - 1)) + 1
      BY <3>1, <3>2, FS_AddElement
    <3> QED
      BY <2>2, <3>1, <3>3
  <2> QED
    BY <2>1, <2>2
<1>3. ASSUME NEW n \in 1..Cardinality(top) PROVE place(n) \in top
  <2> DEFINE enough == {m \in Nat : count(m) >= n}
  <2> HIDE DEF count, top
  <2>1. n \in Nat /\ n >= 1 /\ n <= Cardinality(top)
    BY <1>1
  <2>2. Len(s) \in enough /\ 0 \notin enough /\ enough \subseteq Nat
    BY <1>1, <1>a, <2>1
  <2>3. PICK m \in enough : \A y \in enough : m <= y
    <3> HIDE DEF enough
    <3> QED
      BY <2>2, LowestExists
  <2>4. m \in Nat \ {0} /\ m - 1 \in Nat /\ count(m) >= n
    BY <2>2, <2>3
  <2>5. count(m - 1) < n
    <3>1. m - 1 \notin enough
      BY <2>3, <2>4
    <3> QED
      BY <1>a, <2>1, <2>4, <3>1
  <2>6. m \in top /\ count(m) = n
    <3>1. count(m) = count(m - 1) + (IF m \in top THEN 1 ELSE 0) /\ count(m - 1) \in Nat /\ count(m) \in Nat
      BY <1>a, <1>b, <2>4
    <3> QED
      BY <2>1, <2>4, <2>5, <3>1
  <2>7. \E k \in top : Cardinality({j \in top : j <= k}) = n
    BY <2>6 DEF count
  <2> QED
    BY <2>7
<1>4. t = TopLevel(s)
  BY DEF TopLevel
<1>5. \A n \in 1..Cardinality(top) : place(n) \in DOMAIN s
  BY <1>3
<1> HIDE DEF place
<1>6. t \in Seq(S)
  <2> DEFINE c == Cardinality(top)
  <2>1. c \in Nat /\ \A n \in 1..c : s[place(n)] \in S
    BY <1>1, <1>5
  <2> HIDE DEF c
  <2>2. [n \in 1..c |-> s[place(n)]] \in Seq(S)
    BY <2>1
  <2> QED
    BY <2>2 DEF c
<1>7. ToSet(t) \subseteq ToSet(s)
  BY <1>5 DEF ToSet
<1>8. Len(t) <= Len(s)
  <2>0. Len(s) - 1 + 1 = Len(s) /\ Len(s) \in Nat
    OBVIOUS
  <2>1. Cardinality(1..Len(s)) = Len(s) /\ IsFiniteSet(1..Len(s))
    BY <2>0, FS_Interval
  <2>2. Cardinality(top) <= Len(s)
    BY <1>1, <2>1, FS_Subset, FS_CardinalityType
  <2> HIDE DEF top
  <2>3. Len(t) = Cardinality(top)
    BY <1>1, <1>6
  <2> QED
    BY <2>2, <2>3
<1> QED
  BY <1>4, <1>6, <1>7, <1>8

\* A list without repetitions is no longer than what it lists.
LEMMA InjectiveLength ==
    ASSUME NEW S, IsFiniteSet(S), NEW s \in Seq(S), IsInjective(s)
    PROVE  Len(s) <= Cardinality(S) /\ Len(s) = Cardinality(ToSet(s)) /\ Cardinality(S) \in Nat
<1>1. IsFiniteSet(1..Len(s)) /\ Cardinality(1..Len(s)) = Len(s) /\ Len(s) \in Nat
  <2>1. Len(s) \in Nat /\ Len(s) - 1 + 1 = Len(s)
    OBVIOUS
  <2> QED
    BY <2>1, FS_Interval
<1>2. s \in Injection(1..Len(s), S) /\ s \in Surjection(1..Len(s), ToSet(s)) /\ s \in Injection(1..Len(s), ToSet(s))
  <2>1. s \in [1..Len(s) -> S] /\ DOMAIN s = 1..Len(s)
    OBVIOUS
  <2>2. s \in [1..Len(s) -> ToSet(s)]
    BY <2>1 DEF ToSet
  <2>3. \A x \in ToSet(s) : \E i \in 1..Len(s) : s[i] = x
    BY <2>1 DEF ToSet
  <2> QED
    BY <2>1, <2>2, <2>3 DEF Injection, Surjection, IsInjective
<1>3. Cardinality(1..Len(s)) <= Cardinality(S)
  BY <1>2, FS_Injection
<1>4. Cardinality(ToSet(s)) = Cardinality(1..Len(s))
  BY <1>1, <1>2, FS_Surjection
<1> QED
  BY <1>1, <1>3, <1>4, FS_CardinalityType

-----------------------------------------------------------------------------
LEMMA ListConstants ==
    /\ PageSize \in Nat \ {0} /\ IsFiniteSet(RemoteItems) /\ Cardinality(RemoteItems) \in Nat
    /\ MaxRemoteChanges \in Nat /\ MaxRemoteFaults \in Nat
    /\ RemoteItems \subseteq Nat \ {0} /\ \A n \in RemoteItems : 1..n \subseteq RemoteItems
BY RemoteListingAssumption, FS_CardinalityType DEF RemoteListingAssumption

LEMMA OneMoreCounts == ASSUME NEW n \in Nat, NEW m \in Nat, n < m PROVE n + 1 \in 0..m /\ n + 1 > 0
OBVIOUS

LEMMA NothingListed ==
    <<>> \in Seq(RemoteItems) /\ ToSet(<<>>) = {} /\ IsInjective(<<>>)
<1>1. <<>> \in Seq(RemoteItems) /\ DOMAIN <<>> = {}
  OBVIOUS
<1> QED
  BY <1>1 DEF ToSet, IsInjective

LEMMA InitListing == ASSUME RemoteListingInit PROVE RemoteListingInv
<1> USE DEF RemoteListingInit
<1>1. PICK n \in RemoteItems : remote = [i \in 1..n |-> i]
  OBVIOUS
<1>2. n \in Nat \ {0} /\ 1..n \subseteq RemoteItems
  BY ListConstants
<1>3. remote \in Seq(RemoteItems) /\ IsInjective(remote) /\ ToSet(remote) \subseteq RemoteItems
  BY <1>1, <1>2 DEF IsInjective, ToSet
<1>4. RemoteListingTypeOK
  <2>1. listPage \in 1..(Cardinality(RemoteItems) + MaxRemoteChanges + 2)
    BY ListConstants
  <2>2. remoteChanges \in 0..MaxRemoteChanges /\ remoteFaults \in 0..MaxRemoteFaults
    BY ListConstants
  <2> QED
    BY <1>3, <2>1, <2>2, NothingListed DEF RemoteListingTypeOK, ListStages
<1>5. HostKnown
  BY <1>3, NothingListed DEF HostKnown
<1>6. PagesKept /\ PagesOnce
  <2>1. Got = 0
    BY ListConstants DEF Got, Before
  <2>2. \A k \in DOMAIN remote : ~(k <= 0)
    BY <1>1, <1>2
  <2> QED
    BY <2>1, <2>2, NothingListed DEF PagesKept, PagesOnce
<1> QED
  BY <1>4, <1>5, <1>6 DEF RemoteListingInv, Paging, Returned, Listed, Reading, Chose, Stages

\* What the caller has got, and what is got next, when nothing changes at the host's side.
LEMMA ListTypes ==
    ASSUME RemoteListingInv
    PROVE  /\ remote \in Seq(RemoteItems) /\ listed \in Seq(RemoteItems) /\ listTree \in Seq(RemoteItems)
           /\ listPage \in Nat \ {0} /\ listPage <= Cardinality(RemoteItems) + MaxRemoteChanges + 2
           /\ filesRead \subseteq RemoteItems /\ stayed \subseteq RemoteItems /\ everThere \subseteq RemoteItems
           /\ remoteChanges \in Nat /\ remoteChanges <= MaxRemoteChanges
           /\ remoteFaults \in Nat /\ remoteFaults <= MaxRemoteFaults
           /\ listHost \in ListHosts /\ listKind \in ListKinds /\ listPc \in ListStages
           /\ listWant \in RemoteItems \union {0} /\ listChosen \in RemoteItems \union {0}
           /\ Got \in Nat /\ Len(remote) <= Cardinality(RemoteItems) /\ Len(remote) \in Nat
           /\ DOMAIN remote = 1..Len(remote) /\ DOMAIN listed = 1..Len(listed) /\ Len(listed) \in Nat
<1>1. /\ remote \in Seq(RemoteItems) /\ listed \in Seq(RemoteItems) /\ listTree \in Seq(RemoteItems)
      /\ listPage \in 1..(Cardinality(RemoteItems) + MaxRemoteChanges + 2)
      /\ filesRead \subseteq RemoteItems /\ stayed \subseteq RemoteItems /\ everThere \subseteq RemoteItems
      /\ remoteChanges \in 0..MaxRemoteChanges /\ remoteFaults \in 0..MaxRemoteFaults
      /\ listHost \in ListHosts /\ listKind \in ListKinds /\ listPc \in ListStages
      /\ listWant \in RemoteItems \union {0} /\ listChosen \in RemoteItems \union {0}
      /\ IsInjective(remote)
  BY DEF RemoteListingInv, RemoteListingTypeOK, HostKnown
<1>2. listPage \in Nat \ {0} /\ listPage <= Cardinality(RemoteItems) + MaxRemoteChanges + 2
  BY <1>1, ListConstants
<1>3. Got \in Nat
  BY <1>2, ListConstants DEF Got, Before
<1>4. Len(remote) <= Cardinality(RemoteItems)
  BY <1>1, ListConstants, InjectiveLength
<1> QED
  BY <1>1, <1>2, <1>3, <1>4, ListConstants

\* The Booleans of the state.
LEMMA ListFlags ==
    ASSUME RemoteListingInv PROVE tokenGood \in BOOLEAN /\ remoteRemoved \in BOOLEAN /\ remoteAdded \in BOOLEAN
BY DEF RemoteListingInv, RemoteListingTypeOK

\* The host adds an entry: the others are where they were, or one place further.
LEMMA RemoteAddKeeps == ASSUME RemoteListingInv, RemoteAdd PROVE RemoteListingInv'
<1>0. PICK e \in RemoteItems \ ToSet(remote), place \in 1..(Len(remote) + 1) :
         remote' = InsertAt(remote, place, e) /\ everThere' = everThere \union {e}
  BY DEF RemoteAdd
<1>1. /\ UNCHANGED <<listHost, listKind, listPc, listWant, listPage, listed, listTree, treeTruncated,
                     filesRead, listChosen, remoteFaults, tokenGood, stayed, remoteRemoved>>
      /\ remoteAdded' = TRUE /\ remoteChanges < MaxRemoteChanges /\ remoteChanges' = remoteChanges + 1
  BY DEF RemoteAdd, RemoteChange, listProgress
<1>2. e \notin ToSet(remote) /\ IsInjective(remote) /\ remote \in Seq(RemoteItems)
  BY ListTypes DEF RemoteListingInv, HostKnown
<1>3. /\ remote' \in Seq(RemoteItems) /\ IsInjective(remote') /\ ToSet(remote') = ToSet(remote) \union {e}
      /\ \A j \in DOMAIN remote' : remote'[j] = e \/ \E i \in DOMAIN remote : i <= j /\ remote'[j] = remote[i]
  BY <1>0, <1>2, RemoteInsertKeeps
<1>4. DOMAIN remote \subseteq Nat /\ DOMAIN remote' \subseteq Nat
  BY <1>2, <1>3
<1>8. HostKnown'
  BY <1>0, <1>1, <1>3 DEF RemoteListingInv, HostKnown
<1>9. RemoteListingTypeOK'
  <2>1. remoteChanges' \in 0..MaxRemoteChanges
    BY <1>1, ListTypes, ListConstants, OneMoreCounts
  <2>2. everThere' \subseteq RemoteItems /\ remoteAdded' \in BOOLEAN
    BY <1>0, <1>1, ListTypes
  <2> QED
    BY <1>1, <1>3, <2>1, <2>2 DEF RemoteListingInv, RemoteListingTypeOK
<1>10. Paging'
  <2> SUFFICES ASSUME listKind # "files", listPc \in {"new", "validate", "list"} PROVE PagesKept' /\ PagesOnce'
    BY <1>1 DEF Paging
  <2>1. PagesKept /\ Got' = Got /\ Got \in Nat
    BY <1>1, ListTypes DEF RemoteListingInv, Paging, Got
  <2>2. PagesOnce'
    BY <1>1 DEF PagesOnce
  <2>0. remoteRemoved' = remoteRemoved /\ listed' = listed /\ stayed' = stayed
    BY <1>1
  <2>3. CASE remoteRemoved
    <3>1. remoteRemoved'
      BY <2>0, <2>3, Zenon
    <3> QED
      BY <2>2, <3>1, Zenon DEF PagesKept
  <2>4. CASE \A j \in DOMAIN remote : j <= Got /\ remote[j] \in stayed => remote[j] \in ToSet(listed)
    <3>1. ASSUME NEW j \in DOMAIN remote', j <= Got, remote'[j] \in stayed PROVE remote'[j] \in ToSet(listed)
      <4>1. remote'[j] # e
        BY <3>1 DEF RemoteListingInv, HostKnown
      <4>2. PICK i \in DOMAIN remote : i <= j /\ remote'[j] = remote[i]
        BY <1>3, <4>1
      <4>3. i <= Got
        BY <1>4, <2>1, <3>1, <4>2
      <4> QED
        BY <2>4, <3>1, <4>2, <4>3
    <3>2. \A j \in DOMAIN remote' : j <= Got' /\ remote'[j] \in stayed' => remote'[j] \in ToSet(listed')
      BY <2>0, <2>1, <3>1
    <3> QED
      BY <2>2, <3>2, Zenon DEF PagesKept
  <2> QED
    BY <2>1, <2>2, <2>3, <2>4 DEF PagesKept
<1>11. Returned' /\ Reading' /\ Chose' /\ Stages'
  <2>1. Returned'
    BY <1>1 DEF RemoteListingInv, Returned, Listed, ListKept, ListOnce, LeftOut
  <2>2. Reading'
    BY <1>1 DEF RemoteListingInv, Reading, FileTrouble, LeftOut
  <2>3. Chose' /\ Stages'
    BY <1>0, <1>1 DEF RemoteListingInv, Chose, Stages
  <2> QED
    BY <2>1, <2>2, <2>3
<1> QED
  BY <1>8, <1>9, <1>10, <1>11 DEF RemoteListingInv

\* The host removes one: the others are where they were, or one place nearer.
LEMMA RemoteRemoveKeeps == ASSUME RemoteListingInv, RemoteRemove PROVE RemoteListingInv'
<1>0. PICK place \in DOMAIN remote :
         remote' = RemoveAt(remote, place) /\ stayed' = stayed \ {remote[place]}
  BY DEF RemoteRemove
<1>1. /\ UNCHANGED <<listHost, listKind, listPc, listWant, listPage, listed, listTree, treeTruncated,
                     filesRead, listChosen, remoteFaults, tokenGood, everThere, remoteAdded>>
      /\ remoteRemoved' = TRUE /\ remoteChanges < MaxRemoteChanges /\ remoteChanges' = remoteChanges + 1
  BY DEF RemoteRemove, RemoteChange, listProgress
<1>2. IsInjective(remote) /\ remote \in Seq(RemoteItems)
  BY ListTypes DEF RemoteListingInv, HostKnown
<1>3. /\ remote' \in Seq(RemoteItems) /\ IsInjective(remote') /\ ToSet(remote') = ToSet(remote) \ {remote[place]}
      /\ \A j \in DOMAIN remote' : \E i \in DOMAIN remote : j <= i /\ remote'[j] = remote[i]
  BY <1>0, <1>2, RemoveKeeps
<1>4. DOMAIN remote \subseteq Nat /\ DOMAIN remote' \subseteq Nat
  BY <1>2, <1>3
<1>5. HostKnown'
  BY <1>0, <1>1, <1>3 DEF RemoteListingInv, HostKnown
<1>6. RemoteListingTypeOK'
  <2>1. remoteChanges' \in 0..MaxRemoteChanges
    BY <1>1, ListTypes, ListConstants, OneMoreCounts
  <2>2. stayed' \subseteq RemoteItems /\ remoteRemoved' \in BOOLEAN
    BY <1>0, <1>1, ListTypes
  <2> QED
    BY <1>1, <1>3, <2>1, <2>2 DEF RemoteListingInv, RemoteListingTypeOK
<1>7. Paging'
  <2> SUFFICES ASSUME listKind # "files", listPc \in {"new", "validate", "list"} PROVE PagesKept' /\ PagesOnce'
    BY <1>1 DEF Paging
  <2>1. PagesOnce /\ Got' = Got /\ Got \in Nat
    BY <1>1, ListTypes DEF RemoteListingInv, Paging, Got
  <2>2. PagesKept'
    BY <1>1 DEF PagesKept
  <2>3. remoteAdded' = remoteAdded /\ listed' = listed
    BY <1>1
  <2>4. CASE remoteAdded
    BY <2>2, <2>3, <2>4, Zenon DEF PagesOnce
  <2>5. CASE IsInjective(listed) /\ \A j \in DOMAIN remote : j > Got => remote[j] \notin ToSet(listed)
    <3>1. ASSUME NEW j \in DOMAIN remote', j > Got PROVE remote'[j] \notin ToSet(listed)
      <4>1. PICK i \in DOMAIN remote : j <= i /\ remote'[j] = remote[i]
        BY <1>3
      <4>2. i > Got
        BY <1>4, <2>1, <3>1, <4>1
      <4> QED
        BY <2>5, <4>1, <4>2
    <3>2. IsInjective(listed') /\ \A j \in DOMAIN remote' : j > Got' => remote'[j] \notin ToSet(listed')
      BY <2>1, <2>3, <2>5, <3>1
    <3> QED
      BY <2>2, <3>2, Zenon DEF PagesOnce
  <2> QED
    BY <2>1, <2>4, <2>5 DEF PagesOnce
<1>8. Returned' /\ Reading' /\ Chose' /\ Stages'
  <2>1. Returned'
    BY <1>1 DEF RemoteListingInv, Returned, Listed, ListKept, ListOnce, LeftOut
  <2>2. Reading'
    <3>1. (FileTrouble => FileTrouble') /\ stayed' \subseteq stayed
      BY <1>0, <1>1 DEF FileTrouble, LeftOut
    <3> QED
      BY <1>1, <3>1 DEF RemoteListingInv, Reading
  <2>3. Chose' /\ Stages'
    BY <1>1 DEF RemoteListingInv, Chose, Stages
  <2> QED
    BY <2>1, <2>2, <2>3
<1> QED
  BY <1>5, <1>6, <1>7, <1>8 DEF RemoteListingInv

LEMMA RevokeTokenKeeps == ASSUME RemoteListingInv, RevokeToken PROVE RemoteListingInv'
<1>1. /\ UNCHANGED <<listHost, listKind, listPc, listWant, listPage, listed, listTree, treeTruncated,
                     filesRead, listChosen, remoteFaults, remote, stayed, everThere, remoteAdded, remoteRemoved>>
      /\ tokenGood' = FALSE /\ remoteChanges < MaxRemoteChanges /\ remoteChanges' = remoteChanges + 1
  BY DEF RevokeToken, RemoteChange, listProgress, listHistory
<1>2. remoteChanges' \in 0..MaxRemoteChanges
  BY <1>1, ListTypes, ListConstants, OneMoreCounts
<1>3. RemoteListingTypeOK'
  BY <1>1, <1>2 DEF RemoteListingInv, RemoteListingTypeOK
<1>4. HostKnown' /\ Chose' /\ Stages'
  BY <1>1 DEF RemoteListingInv, HostKnown, Chose, Stages
<1>5. Paging' /\ Returned'
  BY <1>1 DEF RemoteListingInv, Paging, PagesKept, PagesOnce, Got, Returned, Listed, ListKept, ListOnce, LeftOut
<1>6. Reading'
  BY <1>1 DEF RemoteListingInv, Reading, FileTrouble
<1> QED
  BY <1>3, <1>4, <1>5, <1>6 DEF RemoteListingInv

\* What a step of the caller leaves alone.
Quiet ==
    UNCHANGED <<listHost, listKind, listWant, remote, tokenGood, remoteChanges, treeTruncated,
                stayed, everThere, remoteRemoved, remoteAdded>>

LEMMA NextStage == AfterListing \in ListStages /\ AfterListing \notin {"new", "validate", "list", "tree"}
      /\ (listKind = "files" => AfterListing = "read") /\ (listKind # "files" => AfterListing \in {"choose", "done"})
      /\ (AfterListing = "choose" => listKind = "repositories")
BY DEF AfterListing, ListStages

\* The token is tried, or a request fails.
LEMMA TokenKeeps == ASSUME RemoteListingInv, NewGitProvider \/ ValidateToken PROVE RemoteListingInv'
<1>1. /\ Quiet /\ listPc \in {"new", "validate"} /\ listPc' \in {"validate", "list"}
      /\ UNCHANGED <<remoteFaults, listPage, listed, listTree, filesRead, listChosen>>
  BY DEF NewGitProvider, ValidateToken, AskedHost, Answered, hostSide, listHistory, listProgress, Quiet
<1>2. listPc' \in ListStages
  BY <1>1 DEF ListStages
<1>3. RemoteListingTypeOK' /\ HostKnown'
  BY <1>1, <1>2 DEF RemoteListingInv, RemoteListingTypeOK, HostKnown, Quiet
<1>4. Paging'
  BY <1>1 DEF RemoteListingInv, Paging, PagesKept, PagesOnce, Got, Quiet
<1>5. Returned' /\ Reading' /\ Chose' /\ Stages'
  BY <1>1 DEF RemoteListingInv, Returned, Listed, Reading, Chose, Stages, Quiet
<1> QED
  BY <1>3, <1>4, <1>5 DEF RemoteListingInv

LEMMA FailKeeps == ASSUME RemoteListingInv, RequestFails PROVE RemoteListingInv'
<1>1. /\ Quiet /\ listPc \in {"new", "validate", "list", "tree"} /\ listPc' = "error" /\ listed' = <<>>
      /\ UNCHANGED <<listPage, listTree, filesRead, listChosen>>
      /\ (remoteFaults < MaxRemoteFaults /\ remoteFaults' = remoteFaults + 1) \/ remoteFaults' = remoteFaults
  BY DEF RequestFails, hostSide, listHistory, Quiet
<1>2. listPc' \in ListStages
  BY <1>1 DEF ListStages
<1>3. remoteFaults' \in 0..MaxRemoteFaults
  BY <1>1, ListTypes, ListConstants, OneMoreCounts
<1>4. RemoteListingTypeOK' /\ HostKnown'
  BY <1>1, <1>2, <1>3, NothingListed DEF RemoteListingInv, RemoteListingTypeOK, HostKnown, Quiet
<1>5. Paging' /\ Returned' /\ Reading' /\ Chose' /\ Stages'
  BY <1>1 DEF RemoteListingInv, Paging, Returned, Listed, Reading, Chose, Stages, Quiet
<1> QED
  BY <1>4, <1>5 DEF RemoteListingInv

\* One more page: what was got before, and what comes after it.
LEMMA PageJoins ==
    ASSUME NEW S, NEW s \in Seq(S), NEW l \in Seq(S), NEW n \in Nat \ {0}, PageSize \in Nat \ {0}
    PROVE  /\ PageOf(s, n) \in Seq(S) /\ l \o PageOf(s, n) \in Seq(S)
           /\ ToSet(PageOf(s, n)) \subseteq ToSet(s)
           /\ ToSet(l \o PageOf(s, n)) = ToSet(l) \union ToSet(PageOf(s, n))
           /\ \A k \in DOMAIN s : Before(n) < k /\ k <= Before(n) + PageSize => s[k] \in ToSet(PageOf(s, n))
           /\ IsInjective(s) => /\ IsInjective(PageOf(s, n))
                                /\ \A k \in DOMAIN s : k > Before(n) + PageSize => s[k] \notin ToSet(PageOf(s, n))
           /\ IsInjective(s) /\ IsInjective(l) /\ (\A k \in DOMAIN s : k > Before(n) => s[k] \notin ToSet(l)) =>
                 IsInjective(l \o PageOf(s, n))
<1> DEFINE base == Before(n)
           page == PageOf(s, n)
<1>1. /\ base \in Nat /\ page \in Seq(S)
      /\ \A j \in 1..Len(page) : base + j \in 1..Len(s) /\ base + j <= base + PageSize /\ page[j] = s[base + j]
      /\ \A k \in 1..Len(s) : base < k /\ k <= base + PageSize => k - base \in 1..Len(page) /\ page[k - base] = s[k]
  BY PageFacts
<1> HIDE DEF page, base
<1>2. DOMAIN s = 1..Len(s) /\ DOMAIN page = 1..Len(page) /\ DOMAIN l = 1..Len(l) /\ Len(l) \in Nat /\ Len(page) \in Nat
  BY <1>1
<1>3. /\ l \o page \in Seq(S) /\ Len(l \o page) = Len(l) + Len(page) /\ ToSet(l \o page) = ToSet(l) \union ToSet(page)
      /\ \A j \in 1..Len(l) : (l \o page)[j] = l[j]
      /\ \A j \in 1..Len(page) : (l \o page)[Len(l) + j] = page[j]
  BY <1>1, JoinFacts
<1>4. ToSet(page) \subseteq ToSet(s)
  BY <1>1, <1>2 DEF ToSet
<1>5. ASSUME NEW k \in DOMAIN s, base < k, k <= base + PageSize PROVE s[k] \in ToSet(page)
  <2>1. k - base \in DOMAIN page /\ page[k - base] = s[k]
    BY <1>1, <1>2, <1>5
  <2> QED
    BY <2>1 DEF ToSet
<1>6. ASSUME IsInjective(s)
      PROVE  IsInjective(page) /\ \A k \in DOMAIN s : k > base + PageSize => s[k] \notin ToSet(page)
  <2>1. \A i, j \in 1..Len(s) : s[i] = s[j] => i = j
    BY <1>2, <1>6 DEF IsInjective
  <2>2. ASSUME NEW i \in 1..Len(page), NEW j \in 1..Len(page), page[i] = page[j] PROVE i = j
    <3>1. base + i = base + j
      BY <1>1, <2>1, <2>2
    <3> QED
      BY <1>1, <3>1
  <2>3. ASSUME NEW k \in 1..Len(s), k > base + PageSize, NEW j \in 1..Len(page), s[k] = page[j] PROVE FALSE
    <3>1. k = base + j
      BY <1>1, <2>1, <2>3
    <3> QED
      BY <1>1, <2>3, <3>1
  <2> QED
    BY <1>2, <2>2, <2>3 DEF IsInjective, ToSet
<1>7. ASSUME IsInjective(s), IsInjective(l), \A k \in DOMAIN s : k > base => s[k] \notin ToSet(l)
      PROVE  IsInjective(l \o page)
  <2> DEFINE r == l \o page
  <2>1. r \in Seq(S) /\ Len(r) = Len(l) + Len(page) /\ DOMAIN r = 1..Len(r)
        /\ (\A j \in 1..Len(l) : r[j] = l[j]) /\ \A j \in 1..Len(page) : r[Len(l) + j] = page[j]
    BY <1>3
  <2> HIDE DEF r
  <2>2. \A j \in 1..Len(page) : page[j] \notin ToSet(l)
    <3> SUFFICES ASSUME NEW j \in 1..Len(page) PROVE page[j] \notin ToSet(l)
      OBVIOUS
    <3>1. base + j \in DOMAIN s /\ base + j > base /\ page[j] = s[base + j]
      BY <1>1, <1>2
    <3> QED
      BY <1>7, <3>1
  <2>3. \A i, j \in 1..Len(l) : l[i] = l[j] => i = j
    BY <1>2, <1>7 DEF IsInjective
  <2>4. \A i, j \in 1..Len(page) : page[i] = page[j] => i = j
    BY <1>2, <1>6, <1>7 DEF IsInjective
  <2>5. \A i \in 1..Len(l) : l[i] \in ToSet(l)
    BY <1>2 DEF ToSet
  <2>6. \A j \in 1..Len(r) : j \notin 1..Len(l) => j - Len(l) \in 1..Len(page) /\ r[j] = page[j - Len(l)]
    <3> SUFFICES ASSUME NEW j \in 1..Len(r), j \notin 1..Len(l)
                 PROVE  j - Len(l) \in 1..Len(page) /\ r[j] = page[j - Len(l)]
      OBVIOUS
    <3>1. j - Len(l) \in 1..Len(page) /\ Len(l) + (j - Len(l)) = j
      BY <1>2, <2>1
    <3> QED
      BY <2>1, <3>1
  <2>7. ASSUME NEW i \in 1..Len(r), NEW j \in 1..Len(r), r[i] = r[j] PROVE i = j
    <3>1. CASE i \in 1..Len(l) /\ j \in 1..Len(l)
      BY <2>1, <2>3, <2>7, <3>1
    <3>2. CASE i \in 1..Len(l) /\ j \notin 1..Len(l)
      BY <2>1, <2>2, <2>5, <2>6, <2>7, <3>2
    <3>3. CASE i \notin 1..Len(l) /\ j \in 1..Len(l)
      BY <2>1, <2>2, <2>5, <2>6, <2>7, <3>3
    <3>4. CASE i \notin 1..Len(l) /\ j \notin 1..Len(l)
      <4>1. i - Len(l) = j - Len(l)
        BY <2>4, <2>6, <2>7, <3>4
      <4> QED
        BY <1>2, <4>1
    <3> QED
      BY <3>1, <3>2, <3>3, <3>4
  <2>8. IsInjective(r)
    BY <2>1, <2>7 DEF IsInjective
  <2> QED
    BY <2>8 DEF r
<1> QED
  BY <1>1, <1>3, <1>4, <1>5, <1>6, <1>7 DEF page, base

\* With the next page the list is as far along as the pages are.
LEMMA PageAdded ==
    ASSUME RemoteListingInv, PagesKept, PagesOnce, Quiet, listed' = listed \o PageOf(remote, listPage)
    PROVE  /\ listed' \in Seq(RemoteItems) /\ ToSet(listed') \subseteq everThere
           /\ remoteRemoved \/ \A k \in DOMAIN remote :
                 k <= Got + PageSize /\ remote[k] \in stayed => remote[k] \in ToSet(listed')
           /\ \/ remoteAdded
              \/ IsInjective(listed') /\ \A k \in DOMAIN remote : k > Got + PageSize => remote[k] \notin ToSet(listed')
<1> DEFINE page == PageOf(remote, listPage)
<1>1. /\ remote \in Seq(RemoteItems) /\ listed \in Seq(RemoteItems) /\ listPage \in Nat \ {0} /\ PageSize \in Nat \ {0}
      /\ Got \in Nat /\ DOMAIN remote = 1..Len(remote) /\ Len(remote) \in Nat
  BY ListTypes, ListConstants
<1>2. IsInjective(remote) /\ ToSet(remote) \subseteq everThere /\ ToSet(listed) \subseteq everThere
  BY DEF RemoteListingInv, HostKnown
<1>3. /\ page \in Seq(RemoteItems) /\ listed' \in Seq(RemoteItems)
      /\ ToSet(page) \subseteq ToSet(remote)
      /\ ToSet(listed') = ToSet(listed) \union ToSet(page)
      /\ \A k \in DOMAIN remote : Got < k /\ k <= Got + PageSize => remote[k] \in ToSet(page)
      /\ \A k \in DOMAIN remote : k > Got + PageSize => remote[k] \notin ToSet(page)
      /\ IsInjective(listed) /\ (\A k \in DOMAIN remote : k > Got => remote[k] \notin ToSet(listed)) => IsInjective(listed')
  <2> DEFINE new == listed \o page
  <2>1. Got = Before(listPage) /\ listed' = new
    BY DEF Got
  <2>2. /\ page \in Seq(RemoteItems) /\ new \in Seq(RemoteItems)
        /\ ToSet(page) \subseteq ToSet(remote)
        /\ ToSet(new) = ToSet(listed) \union ToSet(page)
        /\ \A k \in DOMAIN remote : Got < k /\ k <= Got + PageSize => remote[k] \in ToSet(page)
        /\ \A k \in DOMAIN remote : k > Got + PageSize => remote[k] \notin ToSet(page)
        /\ IsInjective(listed) /\ (\A k \in DOMAIN remote : k > Got => remote[k] \notin ToSet(listed)) => IsInjective(new)
    BY <1>1, <1>2, <2>1, PageJoins
  <2> HIDE DEF new, page
  <2> QED
    BY <2>1, <2>2
<1> HIDE DEF page
<1>4. remoteRemoved \/ \A k \in DOMAIN remote :
         k <= Got + PageSize /\ remote[k] \in stayed => remote[k] \in ToSet(listed')
  <2> SUFFICES ASSUME \A k \in DOMAIN remote : k <= Got /\ remote[k] \in stayed => remote[k] \in ToSet(listed),
                      NEW k \in DOMAIN remote, k <= Got + PageSize, remote[k] \in stayed
               PROVE  remote[k] \in ToSet(listed')
    BY Zenon DEF PagesKept
  <2> QED
    BY <1>1, <1>3
<1>5. \/ remoteAdded
      \/ IsInjective(listed') /\ \A k \in DOMAIN remote : k > Got + PageSize => remote[k] \notin ToSet(listed')
  <2> SUFFICES ASSUME IsInjective(listed), \A k \in DOMAIN remote : k > Got => remote[k] \notin ToSet(listed)
               PROVE  IsInjective(listed') /\ \A k \in DOMAIN remote : k > Got + PageSize => remote[k] \notin ToSet(listed')
    BY Zenon DEF PagesOnce
  <2>1. \A k \in DOMAIN remote : k > Got + PageSize => k > Got
    BY <1>1
  <2> QED
    BY <1>3, <2>1
<1> QED
  BY <1>2, <1>3, <1>4, <1>5

\* The number of the next page is within its range.
LEMMA NextNumber ==
    ASSUME RemoteListingInv, Len(remote) > Before(listPage)
    PROVE  /\ listPage + 1 \in 1..(Cardinality(RemoteItems) + MaxRemoteChanges + 2)
           /\ Before(listPage + 1) = Before(listPage) + PageSize
<1>1. /\ listPage \in Nat \ {0} /\ PageSize \in Nat \ {0} /\ Len(remote) <= Cardinality(RemoteItems)
      /\ Len(remote) \in Nat /\ Cardinality(RemoteItems) \in Nat /\ MaxRemoteChanges \in Nat
  BY ListTypes, ListConstants
<1>2. Before(listPage) \in Nat /\ Before(listPage) >= listPage - 1 /\ Before(listPage + 1) = Before(listPage) + PageSize
  BY <1>1 DEF Before
<1> QED
  BY <1>1, <1>2

\* A page is not the last.
LEMMA PageOnKeeps ==
    ASSUME RemoteListingInv, listPc = "list", listKind # "files", Quiet,
           Len(remote) > Before(listPage), listed' = listed \o PageOf(remote, listPage),
           listPage' = listPage + 1, UNCHANGED <<listPc, listTree, filesRead, listChosen, remoteFaults>>
    PROVE  RemoteListingInv'
<1>1. PagesKept /\ PagesOnce
  BY DEF RemoteListingInv, Paging
<1>2. listPage' \in 1..(Cardinality(RemoteItems) + MaxRemoteChanges + 2) /\ Got' = Got + PageSize
  BY NextNumber DEF Got, Before
<1>3. /\ listed' \in Seq(RemoteItems) /\ ToSet(listed') \subseteq everThere
      /\ remoteRemoved \/ \A k \in DOMAIN remote :
            k <= Got + PageSize /\ remote[k] \in stayed => remote[k] \in ToSet(listed')
      /\ \/ remoteAdded
         \/ IsInjective(listed') /\ \A k \in DOMAIN remote : k > Got + PageSize => remote[k] \notin ToSet(listed')
  BY <1>1, PageAdded
<1>4. remote' = remote /\ stayed' = stayed /\ remoteRemoved' = remoteRemoved /\ remoteAdded' = remoteAdded
  BY DEF Quiet
<1>5. PagesKept'
  BY <1>2, <1>3, <1>4 DEF PagesKept
<1>6. PagesOnce'
  BY <1>2, <1>3, <1>4 DEF PagesOnce
<1>7. RemoteListingTypeOK' /\ HostKnown'
  BY <1>2, <1>3 DEF RemoteListingInv, RemoteListingTypeOK, HostKnown, Quiet
<1>8. Returned' /\ Reading' /\ Chose' /\ Stages'
  BY DEF RemoteListingInv, Returned, Listed, Reading, Chose, Stages, Quiet
<1> QED
  BY <1>5, <1>6, <1>7, <1>8 DEF RemoteListingInv, Paging

\* A list that is not of files is at its end.
LEMMA PageEndKeeps ==
    ASSUME RemoteListingInv, listPc = "list", listKind # "files", Quiet,
           listPc' = AfterListing, UNCHANGED <<listPage, listTree, filesRead, listChosen, remoteFaults>>,
           listed' \in Seq(RemoteItems), ToSet(listed') \subseteq everThere,
           remoteRemoved \/ LeftOut \/ stayed \subseteq ToSet(listed'), remoteAdded \/ IsInjective(listed')
    PROVE  RemoteListingInv'
<1>0. listPc' \in ListStages /\ listPc' \in {"choose", "done"} /\ (listPc' = "choose" => listKind = "repositories")
  BY NextStage
<1>1. RemoteListingTypeOK' /\ HostKnown'
  BY <1>0 DEF RemoteListingInv, RemoteListingTypeOK, HostKnown, Quiet
<1>2. ListKept'
  BY DEF ListKept, LeftOut, Quiet
<1>3. ListOnce'
  BY DEF ListOnce, Quiet
<1>4. Chose' /\ Stages' /\ Reading'
  BY <1>0 DEF RemoteListingInv, Chose, Stages, Reading, Quiet
<1> QED
  BY <1>0, <1>1, <1>2, <1>3, <1>4 DEF RemoteListingInv, Paging, Returned

\* The last page: all of the list has been got.
LEMMA LastPageKeeps ==
    ASSUME RemoteListingInv, listPc = "list", listKind # "files", Quiet,
           Len(remote) <= Before(listPage) + PageSize, listed' = listed \o PageOf(remote, listPage),
           listPc' = AfterListing, UNCHANGED <<listPage, listTree, filesRead, listChosen, remoteFaults>>
    PROVE  RemoteListingInv'
<1>1. PagesKept /\ PagesOnce
  BY DEF RemoteListingInv, Paging
<1>2. /\ listed' \in Seq(RemoteItems) /\ ToSet(listed') \subseteq everThere
      /\ remoteRemoved \/ \A k \in DOMAIN remote :
            k <= Got + PageSize /\ remote[k] \in stayed => remote[k] \in ToSet(listed')
      /\ remoteAdded \/ IsInjective(listed')
  <2>1. /\ listed' \in Seq(RemoteItems) /\ ToSet(listed') \subseteq everThere
        /\ remoteRemoved \/ \A k \in DOMAIN remote :
              k <= Got + PageSize /\ remote[k] \in stayed => remote[k] \in ToSet(listed')
        /\ \/ remoteAdded
           \/ IsInjective(listed') /\ \A k \in DOMAIN remote : k > Got + PageSize => remote[k] \notin ToSet(listed')
    BY <1>1, PageAdded
  <2> QED
    BY <2>1, Zenon
<1>3. \A k \in DOMAIN remote : k <= Got + PageSize
  BY ListTypes, ListConstants DEF Got
<1>4. \A x \in stayed : \E k \in DOMAIN remote : remote[k] = x
  BY DEF RemoteListingInv, HostKnown, ToSet
<1>5. remoteRemoved \/ stayed \subseteq ToSet(listed')
  <2> SUFFICES ASSUME \A k \in DOMAIN remote :
                         k <= Got + PageSize /\ remote[k] \in stayed => remote[k] \in ToSet(listed')
               PROVE  stayed \subseteq ToSet(listed')
    BY <1>2, Zenon
  <2> QED
    BY <1>3, <1>4
<1>6. remoteRemoved \/ LeftOut \/ stayed \subseteq ToSet(listed')
  BY <1>5, Zenon
<1> QED
  BY <1>2, <1>6, PageEndKeeps

LEMMA PagesKeep ==
    ASSUME RemoteListingInv, listPc = "list", listKind # "files", Quiet, NextPage(remote), UNCHANGED remoteFaults
    PROVE  RemoteListingInv'
<1>1. /\ PageSize \in Nat \ {0} /\ listPage \in Nat \ {0} /\ Len(remote) \in Nat
  BY ListTypes, ListConstants
<1>2. listPage * PageSize = Before(listPage) + PageSize /\ Before(listPage) \in Nat
  BY <1>1 DEF Before
<1>3. CASE HasNext(remote, listPage) /\ listPage' = listPage + 1 /\ UNCHANGED listPc
  <2>1. Len(remote) > Before(listPage)
    BY <1>1, <1>2, <1>3 DEF HasNext
  <2> QED
    BY <1>3, <2>1, PageOnKeeps DEF NextPage
<1>4. CASE ~HasNext(remote, listPage) /\ listPc' = AfterListing /\ UNCHANGED listPage
  <2>1. Len(remote) <= Before(listPage) + PageSize
    BY <1>1, <1>2, <1>4 DEF HasNext
  <2> QED
    BY <1>4, <2>1, LastPageKeeps DEF NextPage
<1> QED
  BY <1>3, <1>4 DEF NextPage

LEMMA GitLabPagesKeep == ASSUME RemoteListingInv, GitLabListRepositories PROVE RemoteListingInv'
<1>1. /\ Quiet /\ listPc = "list" /\ listKind = "repositories" /\ UNCHANGED remoteFaults
      /\ listed' = listed \o PageOf(remote, listPage) /\ UNCHANGED <<listTree, filesRead, listChosen>>
      /\ \/ PageOf(remote, listPage) # <<>> /\ listPage' = listPage + 1 /\ UNCHANGED listPc
         \/ PageOf(remote, listPage) = <<>> /\ listPc' = AfterListing /\ UNCHANGED listPage
  BY DEF GitLabListRepositories, AskedHost, Answered, hostSide, listHistory, Quiet
<1>2. /\ PageOf(remote, listPage) = <<>> <=> Len(remote) <= Before(listPage)
      /\ Before(listPage) \in Nat /\ Len(remote) \in Nat /\ PageSize \in Nat
  BY ListTypes, ListConstants, PageFacts
<1>3. CASE PageOf(remote, listPage) # <<>> /\ listPage' = listPage + 1 /\ UNCHANGED listPc
  <2>1. Len(remote) > Before(listPage)
    BY <1>2, <1>3
  <2> QED
    BY <1>1, <1>3, <2>1, PageOnKeeps
<1>4. CASE PageOf(remote, listPage) = <<>> /\ listPc' = AfterListing /\ UNCHANGED listPage
  <2>1. Len(remote) <= Before(listPage) + PageSize
    BY <1>2, <1>4
  <2> QED
    BY <1>1, <1>4, <2>1, LastPageKeeps
<1> QED
  BY <1>1, <1>3, <1>4

\* One page and no more, or the files: a list that may be left short.
LEMMA FilesListed ==
    ASSUME RemoteListingInv, listPc \in {"list", "tree"}, listKind = "files", Quiet, listPc' = "read",
           UNCHANGED <<listPage, listTree, filesRead, listChosen, remoteFaults>>,
           listed' \in Seq(RemoteItems), ToSet(listed') \subseteq everThere,
           LeftOut \/ stayed \subseteq ToSet(listed')
    PROVE  RemoteListingInv'
<1>1. RemoteListingTypeOK' /\ HostKnown'
  BY DEF RemoteListingInv, RemoteListingTypeOK, HostKnown, Quiet, ListStages
<1>2. Reading'
  BY DEF Reading, FileTrouble, LeftOut, Quiet
<1>3. Chose' /\ Stages'
  BY DEF RemoteListingInv, Chose, Stages, Quiet
<1> QED
  BY <1>1, <1>2, <1>3 DEF RemoteListingInv, Paging, Returned, Listed, Quiet

LEMMA GitLabOnceKeeps == ASSUME RemoteListingInv, GitLabListOnce PROVE RemoteListingInv'
<1>1. /\ Quiet /\ listPc = "list" /\ LeftOut /\ UNCHANGED remoteFaults
      /\ listed' = PageOf(remote, 1) /\ listPc' = AfterListing
      /\ UNCHANGED <<listPage, listTree, filesRead, listChosen>>
  BY DEF GitLabListOnce, AskedHost, Answered, hostSide, listHistory, Quiet, LeftOut
<1>2. IsInjective(remote) /\ ToSet(remote) \subseteq everThere /\ remote \in Seq(RemoteItems) /\ PageSize \in Nat \ {0}
  BY ListTypes, ListConstants DEF RemoteListingInv, HostKnown
<1>3. /\ PageOf(remote, 1) \in Seq(RemoteItems) /\ ToSet(PageOf(remote, 1)) \subseteq ToSet(remote)
      /\ IsInjective(PageOf(remote, 1))
  BY <1>2, PageJoins
<1>4. CASE listKind # "files"
  BY <1>1, <1>2, <1>3, <1>4, PageEndKeeps
<1>5. CASE listKind = "files"
  BY <1>1, <1>2, <1>3, <1>5, FilesListed, NextStage
<1> QED
  BY <1>4, <1>5

LEMMA TreeKeeps == ASSUME RemoteListingInv, GitHubGetRef \/ GitHubGetTree PROVE RemoteListingInv'
<1>1. CASE GitHubGetRef
  <2>1. /\ Quiet /\ listPc = "list" /\ listKind = "files" /\ UNCHANGED <<remoteFaults, listPage, listed, filesRead, listChosen>>
        /\ listTree' = remote /\ listPc' = "tree"
    BY <1>1 DEF GitHubGetRef, AskedHost, Answered, hostSide, listHistory, Quiet
  <2>2. RemoteListingTypeOK' /\ HostKnown'
    BY <2>1 DEF RemoteListingInv, RemoteListingTypeOK, HostKnown, Quiet, ListStages
  <2>3. Reading' /\ Chose' /\ Stages'
    BY <2>1 DEF RemoteListingInv, HostKnown, Reading, Chose, Stages, Quiet
  <2> QED
    BY <2>1, <2>2, <2>3 DEF RemoteListingInv, Paging, Returned, Listed
<1>2. CASE GitHubGetTree
  <2>1. /\ listPc = "tree" /\ UNCHANGED <<remoteFaults, listPage, listTree, filesRead, listChosen>>
        /\ UNCHANGED <<listHost, listKind, listWant, remote, tokenGood, remoteChanges,
                       stayed, everThere, remoteRemoved, remoteAdded>>
        /\ listPc' = AfterListing
        /\ \/ listed' = listTree /\ UNCHANGED treeTruncated
           \/ (\E n \in DOMAIN listTree : listed' = SubSeq(listTree, 1, n - 1)) /\ treeTruncated' = TRUE
    BY <1>2 DEF GitHubGetTree, AskedHost, hostSide, listHistory
  <2>2. /\ listKind = "files" /\ stayed \subseteq ToSet(listTree) /\ ToSet(listTree) \subseteq everThere
        /\ listTree \in Seq(RemoteItems)
    BY <2>1, ListTypes DEF RemoteListingInv, Stages, Reading, HostKnown
  <2>3. CASE listed' = listTree /\ UNCHANGED treeTruncated
    BY <2>1, <2>2, <2>3, NextStage, FilesListed DEF Quiet
  <2>4. ASSUME NEW n \in DOMAIN listTree, listed' = SubSeq(listTree, 1, n - 1), treeTruncated' = TRUE
        PROVE  RemoteListingInv'
    <3>1. listed' \in Seq(RemoteItems) /\ ToSet(listed') \subseteq ToSet(listTree)
      BY <2>2, <2>4 DEF ToSet
    <3>2. listPc' = "read"
      BY <2>1, <2>2, NextStage
    <3>3. RemoteListingTypeOK' /\ HostKnown'
      BY <2>1, <2>2, <2>4, <3>1, <3>2 DEF RemoteListingInv, RemoteListingTypeOK, HostKnown, ListStages
    <3>4. Reading'
      BY <2>4, <3>2 DEF Reading, FileTrouble, LeftOut
    <3>5. Chose' /\ Stages'
      BY <2>1, <2>2, <2>4, <3>2 DEF RemoteListingInv, Chose, Stages
    <3> QED
      BY <2>1, <2>2, <3>2, <3>3, <3>4, <3>5 DEF RemoteListingInv, Paging, Returned, Listed
  <2> QED
    BY <2>1, <2>3, <2>4
<1> QED
  BY <1>1, <1>2

\* A directory's page: the list is left short in any case.
LEMMA DirectoryKeeps ==
    ASSUME RemoteListingInv, listPc = "list", listHost = "bitbucket", listKind = "files", Quiet,
           NextPage(TopLevel(remote)), UNCHANGED remoteFaults
    PROVE  RemoteListingInv'
<1> DEFINE top == TopLevel(remote)
<1>1. /\ remote \in Seq(RemoteItems) /\ listed \in Seq(RemoteItems) /\ listPage \in Nat \ {0} /\ PageSize \in Nat \ {0}
      /\ ToSet(remote) \subseteq everThere /\ ToSet(listed) \subseteq everThere
  BY ListTypes, ListConstants DEF RemoteListingInv, HostKnown
<1>2. top \in Seq(RemoteItems) /\ ToSet(top) \subseteq ToSet(remote) /\ Len(top) <= Len(remote)
  BY <1>1, TopLevelFacts
<1>3. /\ listed' = listed \o PageOf(top, listPage) /\ UNCHANGED <<listTree, filesRead, listChosen>>
      /\ \/ HasNext(top, listPage) /\ listPage' = listPage + 1 /\ UNCHANGED listPc
         \/ ~HasNext(top, listPage) /\ listPc' = AfterListing /\ UNCHANGED listPage
  BY DEF NextPage
<1> HIDE DEF top
<1>4. listed' \in Seq(RemoteItems) /\ ToSet(listed') \subseteq everThere
  <2> DEFINE page == PageOf(top, listPage)
  <2>1. page \in Seq(RemoteItems) /\ ToSet(page) \subseteq ToSet(top)
    BY <1>1, <1>2, PageJoins
  <2> HIDE DEF page
  <2>2. listed \o page \in Seq(RemoteItems) /\ ToSet(listed \o page) = ToSet(listed) \union ToSet(page)
    BY <1>1, <2>1, JoinFacts
  <2>3. listed' = listed \o page
    BY <1>3 DEF page
  <2> QED
    BY <1>1, <1>2, <2>1, <2>2, <2>3
<1>5. CASE HasNext(top, listPage) /\ listPage' = listPage + 1 /\ UNCHANGED listPc
  <2>1. Before(listPage) \in Nat /\ listPage * PageSize = Before(listPage) + PageSize
    BY <1>1 DEF Before
  <2>2. Len(remote) \in Nat /\ Len(top) \in Nat /\ Len(top) > Before(listPage) + PageSize
    BY <1>1, <1>2, <1>5, <2>1 DEF HasNext
  <2>3. Len(remote) > Before(listPage)
    BY <1>1, <1>2, <2>1, <2>2
  <2>4. listPage' \in 1..(Cardinality(RemoteItems) + MaxRemoteChanges + 2)
    BY <1>5, <2>3, NextNumber
  <2>5. RemoteListingTypeOK' /\ HostKnown'
    BY <1>3, <1>4, <1>5, <2>4 DEF RemoteListingInv, RemoteListingTypeOK, HostKnown, Quiet
  <2>6. Reading' /\ Chose' /\ Stages'
    BY <1>3, <1>5 DEF RemoteListingInv, Reading, Chose, Stages, Quiet
  <2> QED
    BY <1>5, <2>5, <2>6 DEF RemoteListingInv, Paging, Returned, Listed, Quiet
<1>6. CASE ~HasNext(top, listPage) /\ listPc' = AfterListing /\ UNCHANGED listPage
  <2>1. LeftOut /\ listPc' = "read"
    BY <1>6, NextStage DEF LeftOut
  <2> QED
    BY <1>3, <1>4, <1>6, <2>1, FilesListed
<1> QED
  BY <1>3, <1>5, <1>6

LEMMA PageReadKeeps == ASSUME RemoteListingInv, GitHubList \/ BitbucketList PROVE RemoteListingInv'
<1>1. CASE GitHubList
  <2>1. Quiet /\ listPc = "list" /\ listKind # "files" /\ NextPage(remote) /\ UNCHANGED remoteFaults
    BY <1>1 DEF GitHubList, AskedHost, Answered, hostSide, listHistory, Quiet
  <2> QED
    BY <2>1, PagesKeep
<1>2. CASE BitbucketList /\ listKind # "files"
  <2>1. Quiet /\ listPc = "list" /\ NextPage(remote) /\ UNCHANGED remoteFaults
    BY <1>2 DEF BitbucketList, AskedHost, Answered, hostSide, listHistory, Quiet
  <2> QED
    BY <1>2, <2>1, PagesKeep
<1>3. CASE BitbucketList /\ listKind = "files"
  <2>1. Quiet /\ listPc = "list" /\ listHost = "bitbucket" /\ NextPage(TopLevel(remote)) /\ UNCHANGED remoteFaults
    BY <1>3 DEF BitbucketList, AskedHost, Answered, hostSide, listHistory, Quiet
  <2> QED
    BY <1>3, <2>1, DirectoryKeeps
<1> QED
  BY <1>1, <1>2, <1>3

LEMMA HeadAndTail ==
    ASSUME NEW S, NEW s \in Seq(S), s # <<>>
    PROVE  Tail(s) \in Seq(S) /\ Head(s) \in S /\ ToSet(s) = {Head(s)} \union ToSet(Tail(s))
<1> DEFINE t == Tail(s)
<1>1. t \in Seq(S) /\ Head(s) \in S /\ Len(t) = Len(s) - 1 /\ Head(s) = s[1] /\ \A i \in 1..Len(t) : t[i] = s[i + 1]
  BY HeadTailProperties
<1>2. Len(s) \in Nat /\ Len(s) >= 1 /\ DOMAIN s = 1..Len(s) /\ DOMAIN t = 1..Len(t)
  BY <1>1
<1> HIDE DEF t
<1>3. ASSUME NEW i \in 1..Len(s) PROVE s[i] \in {Head(s)} \union ToSet(t)
  <2>1. CASE i = 1
    BY <1>1, <2>1
  <2>2. CASE i # 1
    <3>1. i - 1 \in 1..Len(t) /\ (i - 1) + 1 = i
      BY <1>1, <1>2, <2>2
    <3> QED
      BY <1>1, <1>2, <3>1 DEF ToSet
  <2> QED
    BY <2>1, <2>2
<1>4. ASSUME NEW i \in 1..Len(t) PROVE t[i] \in ToSet(s)
  <2>1. i + 1 \in 1..Len(s)
    BY <1>1, <1>2
  <2> QED
    BY <1>1, <1>2, <2>1 DEF ToSet
<1>5. Head(s) \in ToSet(s)
  <2>1. 1 \in 1..Len(s)
    BY <1>2
  <2> QED
    BY <1>1, <1>2, <2>1 DEF ToSet
<1>6. ToSet(s) = {s[i] : i \in 1..Len(s)} /\ ToSet(t) = {t[i] : i \in 1..Len(t)}
  BY <1>2 DEF ToSet
<1>7. ToSet(s) = {Head(s)} \union ToSet(t)
  BY <1>3, <1>4, <1>5, <1>6
<1> QED
  BY <1>1, <1>7 DEF t

\* A file is read, or passed over for a reason.
LEMMA FileReadKeeps == ASSUME RemoteListingInv, GetFileContents PROVE RemoteListingInv'
<1> DEFINE f == Head(listed)
<1>1. /\ Quiet /\ listPc = "read" /\ listed # <<>> /\ listed' = Tail(listed)
      /\ UNCHANGED <<listPc, listPage, listTree, listChosen>>
  BY DEF GetFileContents, hostSide, listHistory, Quiet
<1>2. \/ tokenGood /\ f \in ToSet(remote) /\ filesRead' = filesRead \union {f} /\ remoteFaults' = remoteFaults
      \/ ~tokenGood /\ filesRead' = filesRead /\ remoteFaults' = remoteFaults
      \/ f \notin ToSet(remote) /\ filesRead' = filesRead /\ remoteFaults' = remoteFaults
      \/ remoteFaults < MaxRemoteFaults /\ remoteFaults' = remoteFaults + 1 /\ filesRead' = filesRead
  BY DEF GetFileContents
<1>3. /\ listed \in Seq(RemoteItems) /\ stayed \subseteq ToSet(remote) /\ ToSet(remote) \subseteq everThere
      /\ ToSet(listed) \subseteq everThere /\ filesRead \subseteq everThere /\ filesRead \subseteq RemoteItems
      /\ remoteFaults \in Nat /\ remoteFaults <= MaxRemoteFaults /\ MaxRemoteFaults \in Nat
      /\ listKind = "files"
  BY <1>1, ListTypes, ListConstants DEF RemoteListingInv, HostKnown, Stages
<1>4. listed' \in Seq(RemoteItems) /\ f \in RemoteItems /\ ToSet(listed) = {f} \union ToSet(listed')
  BY <1>1, <1>3, HeadAndTail
<1> HIDE DEF f
<1>5. /\ filesRead' \subseteq everThere /\ filesRead' \subseteq RemoteItems /\ filesRead \subseteq filesRead'
      /\ ToSet(listed') \subseteq everThere
  BY <1>2, <1>3, <1>4
<1>6. remoteFaults' \in 0..MaxRemoteFaults /\ (remoteFaults > 0 => remoteFaults' > 0)
  BY <1>2, <1>3, OneMoreCounts
<1>7. RemoteListingTypeOK' /\ HostKnown'
  BY <1>1, <1>4, <1>5, <1>6 DEF RemoteListingInv, RemoteListingTypeOK, HostKnown, Quiet
<1>8. LeftOut' = LeftOut /\ tokenGood' = tokenGood /\ stayed' = stayed /\ listPc' = "read" /\ listKind' = "files"
  BY <1>1, <1>3 DEF LeftOut, Quiet
<1>9. FileTrouble => FileTrouble'
  BY <1>6, <1>8 DEF FileTrouble
<1>10. FileTrouble' \/ stayed \subseteq filesRead' \union ToSet(listed')
  <2>1. CASE FileTrouble
    BY <1>9, <2>1
  <2>2. CASE stayed \subseteq filesRead \union ToSet(listed)
    <3>1. CASE f \in filesRead' \/ f \notin ToSet(remote)
      BY <1>3, <1>4, <1>5, <2>2, <3>1
    <3>2. CASE ~tokenGood
      BY <1>8, <3>2 DEF FileTrouble
    <3>3. CASE remoteFaults < MaxRemoteFaults /\ remoteFaults' = remoteFaults + 1
      <4>1. remoteFaults' > 0
        BY <1>3, <3>3, OneMoreCounts
      <4> QED
        BY <4>1 DEF FileTrouble
    <3> QED
      BY <1>2, <3>1, <3>2, <3>3
  <2> QED
    BY <1>1, <2>1, <2>2 DEF RemoteListingInv, Reading
<1>11. Reading' /\ Chose' /\ Stages'
  <2>1. Reading'
    BY <1>8, <1>10 DEF Reading
  <2> QED
    BY <1>1, <2>1 DEF RemoteListingInv, Chose, Stages, Quiet
<1> QED
  BY <1>7, <1>8, <1>11 DEF RemoteListingInv, Paging, Returned, Listed

LEMMA FilesDoneKeeps == ASSUME RemoteListingInv, FilesDone PROVE RemoteListingInv'
<1>1. /\ Quiet /\ listPc = "read" /\ listed = <<>> /\ listPc' = "done"
      /\ UNCHANGED <<listPage, listed, listTree, filesRead, listChosen, remoteFaults>>
  BY DEF FilesDone, hostSide, listHistory, listProgress, Quiet
<1>2. RemoteListingTypeOK' /\ HostKnown'
  BY <1>1 DEF RemoteListingInv, RemoteListingTypeOK, HostKnown, Quiet, ListStages
<1>3. listKind = "files" /\ ToSet(listed) = {} /\ (FileTrouble => FileTrouble')
  BY <1>1, NothingListed DEF RemoteListingInv, Stages, FileTrouble, LeftOut, Quiet
<1>4. Reading'
  BY <1>1, <1>3 DEF RemoteListingInv, Reading, Quiet
<1>5. Chose' /\ Stages'
  BY <1>1 DEF RemoteListingInv, Chose, Stages, Quiet
<1> QED
  BY <1>1, <1>2, <1>3, <1>4, <1>5 DEF RemoteListingInv, Paging, Returned, Listed, Quiet

LEMMA ChooseKeeps == ASSUME RemoteListingInv, ChooseRepository PROVE RemoteListingInv'
<1>1. /\ Quiet /\ listPc = "choose" /\ listPc' = "done"
      /\ UNCHANGED <<listPage, listed, listTree, filesRead, remoteFaults>>
  BY DEF ChooseRepository, hostSide, listHistory, Quiet
<1>2. \/ listChosen' = 0
      \/ listWant # 0 /\ listChosen' = listWant /\ listWant \in ToSet(listed)
      \/ Len(listed) = 1 /\ listChosen' = listed[1]
  BY DEF ChooseRepository
<1>3. /\ listKind = "repositories" /\ ListKept /\ ListOnce /\ ToSet(listed) \subseteq everThere
      /\ listed \in Seq(RemoteItems) /\ everThere \subseteq RemoteItems /\ listWant \in RemoteItems \union {0}
  BY <1>1, ListTypes DEF RemoteListingInv, Returned, Listed, Stages, HostKnown
<1>4. Len(listed) = 1 => ToSet(listed) = {listed[1]}
  <2>1. DOMAIN listed = 1..Len(listed)
    BY <1>3
  <2>2. Len(listed) = 1 => DOMAIN listed = {1}
    BY <2>1
  <2> QED
    BY <2>2 DEF ToSet
<1>5. listChosen' # 0 => listChosen' \in everThere
  BY <1>2, <1>3, <1>4
<1>6. listChosen' \in RemoteItems \union {0}
  BY <1>3, <1>5
<1>7. ~LeftOut
  BY <1>3 DEF RemoteListingInv, Stages, LeftOut
<1>8. listChosen' # 0 => listWant # 0 \/ remoteRemoved \/ stayed \subseteq {listChosen'}
  BY <1>2, <1>3, <1>4, <1>7 DEF ListKept
<1>9. RemoteListingTypeOK' /\ HostKnown'
  BY <1>1, <1>6 DEF RemoteListingInv, RemoteListingTypeOK, HostKnown, Quiet, ListStages
<1>10. Chose'
  BY <1>1, <1>5, <1>8 DEF Chose, Quiet
<1>11. ListKept' /\ ListOnce'
  BY <1>1, <1>3 DEF ListKept, ListOnce, LeftOut, Quiet
<1>12. Reading' /\ Stages'
  BY <1>1, <1>3 DEF RemoteListingInv, Reading, Stages, Quiet
<1> QED
  BY <1>1, <1>9, <1>10, <1>11, <1>12 DEF RemoteListingInv, Paging, Returned

LEMMA RemoteListingKeeps == ASSUME RemoteListingInv, [RemoteListingNext]_listVars PROVE RemoteListingInv'
<1>1. CASE UNCHANGED listVars
  <2> USE <1>1 DEF listVars
  <2>1. RemoteListingTypeOK' /\ HostKnown'
    BY DEF RemoteListingInv, RemoteListingTypeOK, HostKnown
  <2>2. Paging' /\ Returned'
    BY DEF RemoteListingInv, Paging, PagesKept, PagesOnce, Got, Returned, Listed, ListKept, ListOnce, LeftOut
  <2>3. Reading' /\ Chose' /\ Stages'
    BY DEF RemoteListingInv, Reading, FileTrouble, LeftOut, Chose, Stages
  <2> QED
    BY <2>1, <2>2, <2>3 DEF RemoteListingInv
<1> QED
  BY <1>1, RemoteAddKeeps, RemoteRemoveKeeps, RevokeTokenKeeps, TokenKeeps, FailKeeps, PageReadKeeps, TreeKeeps,
     GitLabPagesKeep, GitLabOnceKeeps, FileReadKeeps, FilesDoneKeeps, ChooseKeeps DEF RemoteListingNext

LEMMA ListIsSound == ASSUME RemoteListingInv PROVE ListingSound
<1>1. ASSUME Listed
      PROVE  /\ ToSet(listed) \subseteq everThere
             /\ stayed \subseteq ToSet(listed) \/ remoteRemoved \/ LeftOut
             /\ Len(listed) = Cardinality(ToSet(listed)) \/ remoteAdded
  <2>1. ListKept /\ ListOnce /\ ToSet(listed) \subseteq everThere
    BY <1>1 DEF RemoteListingInv, Returned, HostKnown
  <2>2. IsInjective(listed) => Len(listed) = Cardinality(ToSet(listed))
    BY ListTypes, ListConstants, InjectiveLength
  <2>3. Len(listed) = Cardinality(ToSet(listed)) \/ remoteAdded
    BY <2>1, <2>2, Zenon DEF ListOnce
  <2>4. stayed \subseteq ToSet(listed) \/ remoteRemoved \/ LeftOut
    BY <2>1, Zenon DEF ListKept
  <2> QED
    BY <2>1, <2>3, <2>4
<1>2. ASSUME listChosen # 0
      PROVE  listChosen \in everThere /\ (listWant # 0 \/ remoteRemoved \/ stayed \subseteq {listChosen})
  BY <1>2 DEF RemoteListingInv, Chose
<1>3. ASSUME listPc = "done", listKind = "files"
      PROVE  /\ filesRead \subseteq everThere
             /\ stayed \subseteq filesRead \/ remoteRemoved \/ LeftOut \/ remoteFaults > 0 \/ ~tokenGood
  <2>1. filesRead \subseteq everThere /\ (FileTrouble \/ stayed \subseteq filesRead)
    BY <1>3 DEF RemoteListingInv, HostKnown, Reading
  <2>2. stayed \subseteq filesRead \/ remoteRemoved \/ LeftOut \/ remoteFaults > 0 \/ ~tokenGood
    BY <2>1, Zenon DEF FileTrouble
  <2> QED
    BY <2>1, <2>2
<1> QED
  BY <1>1, <1>2, <1>3 DEF ListingSound

\* What the janitor reads of a Git host is what was there, complete but for what was removed
\* meanwhile and without repetitions but for what was added; a repository that nobody named is
\* taken only when it is the only one; a scan passes over a file that stayed only after a failure
\* or for a list left short: with pages of any size, any number of entries and any changes.
THEOREM ListingsAreSound == RemoteListingSpec => []ListingSound
<1>1. RemoteListingSpec => []RemoteListingInv
  BY InitListing, RemoteListingKeeps, PTL DEF RemoteListingSpec
<1> QED
  BY <1>1, ListIsSound, PTL

-----------------------------------------------------------------------------
(***************************************************************************)
(* The source cleanup.  Depths are counted in sequences of lines: the file,  *)
(* and the lines of the result.                                              *)
(***************************************************************************)
CountOf(s, K, j) == Cardinality({k \in 1..j : s[k] \in K})
LineDepth(s, j) == CountOf(s, Opening, j) - CountOf(s, Closing, j)
OneIf(l, K) == IF l \in K THEN 1 ELSE 0
Opens(l) == OneIf(l, Opening)
Closes(l) == OneIf(l, Closing)
BlockKinds == {"if", "other"}
Neutral == {"text", "text with literal", "blank", "bare flag if", "flag if on one line", "flag if and else on one line"}
Openers == {"flag if", "flag if with literal", "if", "{"}
InString == {"text with opening brace", "text with closing brace"}
ElseOpen == {"} else {", "else {"}
ElseIfs == {"} else {", "} else if"}

\* Line j closes the block, or a part of the if, that is d deep.
ClosesAt(s, j, d) == s[j] \in Closing /\ LineDepth(s, j - 1) = d

\* A file as it may be written, with the blocks b open at its end: nothing is closed that was
\* not opened, and an else is not followed by another; an else that is still open is in b.
WellFormed(s, b) ==
    /\ s \in Seq(LineKinds) /\ b \in Seq(BlockKinds) /\ LineDepth(s, Len(s)) = Len(b)
    /\ \A j \in 0..Len(s) : LineDepth(s, j) >= 0
    /\ \A j \in 1..Len(s) : s[j] \in Closing => LineDepth(s, j - 1) >= 1
    /\ \A e, j \in 1..Len(s) : s[e] \in ElseOpen /\ e < j /\ s[j] \in ElseIfs /\ LineDepth(s, j - 1) = LineDepth(s, e)
          => \E k \in 1..(j - 1) : e < k /\ ClosesAt(s, k, LineDepth(s, e))
    /\ \A e \in 1..Len(s) : s[e] \in ElseOpen =>
          \/ \E k \in 1..Len(s) : e < k /\ ClosesAt(s, k, LineDepth(s, e))
          \/ LineDepth(s, e) \in 1..Len(b) /\ b[LineDepth(s, e)] = "other"

\* No brace is in a string: only then do the lines' braces say what is open.
Straight(s) == \A i \in 1..Len(s) : s[i] \notin InString

ResultOf(s, c) == [m \in 1..Len(c) |-> s[c[m]]]
Increasing(c, a) ==
    /\ \A m, n \in 1..Len(c) : m < n => c[m] < c[n]
    /\ \A n \in 1..Len(c) : c[n] < a

\* Nesting, InFlagBlock, Plain and writeLine of the lines s.
LineNesting(s, j) == LineDepth(s, j - 1) - Closes(s[j])
BlockOpens(s, i) == s[i] = "flag if" \/ (s[i] = "{" /\ i > 1 /\ s[i - 1] = "bare flag if")
InBlockOf(s, j) == \E i \in 1..(j - 1) : BlockOpens(s, i) /\ \A k \in (i + 1)..j : LineNesting(s, k) > LineNesting(s, i)
PlainFile(s) ==
    /\ \A i \in 1..Len(s) : s[i] = "bare flag if" => i < Len(s) /\ s[i + 1] = "{"
    /\ \A i \in 1..Len(s) : s[i] \notin Misread
WrittenLine(s, c, i) == IF s[i] = "blank" /\ (c = <<>> \/ s[Last(c)] = "blank") THEN c ELSE Append(c, i)

\* The else that is copied up to line x: it is not left before.
ElseAhead(s, a, x) ==
    /\ s[x] = "}" /\ LineDepth(s, x - 1) >= 1
    /\ \A k \in (a - 1)..(x - 1) : LineDepth(s, k) >= LineDepth(s, x - 1)
    /\ \A k \in a..(x - 1) : s[k] \in Closing => LineDepth(s, k - 1) >= LineDepth(s, x - 1) + 1

Outer(x) == IF x = 0 THEN 0 ELSE 1
LineKept(s, c, j) ==
    /\ s[j] \in Statement /\ ~InBlockOf(s, j) => Contains(c, j)
    /\ s[j] \in FlagIf /\ LineNesting(s, j) = 0 => ~Contains(c, j)

\* The result is as deep as the file, but for the else whose braces are left out; what was
\* passed is kept or left out as it should be.
CleanTo(s, c, a, x) ==
    /\ LineDepth(ResultOf(s, c), Len(c)) = LineDepth(s, a - 1) - Outer(x)
    /\ \A n \in 1..Len(c) : s[c[n]] \in Closing => LineDepth(ResultOf(s, c), n - 1) > 0
    /\ \A j \in 1..(a - 1) : LineKept(s, c, j)

Cleaning(s, c, a, x) ==
    /\ a \in 1..(Len(s) + 1) /\ c \in Seq(1..Len(s)) /\ Increasing(c, a)
    /\ x \in Nat /\ (x # 0 => a <= x /\ x <= Len(s))
    /\ PlainFile(s) => CleanTo(s, c, a, x) /\ (x # 0 => ElseAhead(s, a, x))

CleanupInv ==
    /\ CleanupTypeOK /\ (Straight(source) => WellFormed(source, blocks))
    /\ at = 0 => clean = <<>> /\ elseClose = 0
    /\ at # 0 => blocks = <<>> /\ Cleaning(source, clean, at, elseClose)

-----------------------------------------------------------------------------
(* Depths. *)
LEMMA LineSets == Opening \cup Closing \subseteq LineKinds /\ ElseOpen \subseteq Opening /\ ElseIfs \subseteq Opening \cap Closing
BY DEF Opening, Closing, LineKinds, ElseOpen, ElseIfs

\* The lines up to j of a kind, and those up to j - 1.
LEMMA CountStep ==
    ASSUME NEW K, NEW s, NEW j \in Nat \ {0}
    PROVE  /\ CountOf(s, K, j) = CountOf(s, K, j - 1) + OneIf(s[j], K)
           /\ CountOf(s, K, j) \in Nat /\ CountOf(s, K, j - 1) \in Nat
<1> DEFINE upTo(i) == {k \in 1..i : s[k] \in K}
<1>1. ASSUME NEW i \in Nat PROVE IsFiniteSet(upTo(i)) /\ Cardinality(upTo(i)) \in Nat
  <2>1. IsFiniteSet(1..i) /\ upTo(i) \subseteq 1..i
    BY FS_Interval
  <2> HIDE DEF upTo
  <2> QED
    BY <2>1, FS_Subset, FS_CardinalityType
<1>2. j - 1 \in Nat
  OBVIOUS
<1>3. CASE s[j] \in K
  <2>1. upTo(j) = upTo(j - 1) \cup {j} /\ j \notin upTo(j - 1)
    BY <1>3
  <2> HIDE DEF upTo
  <2>2. Cardinality(upTo(j - 1) \cup {j}) = Cardinality(upTo(j - 1)) + 1
    BY <1>1, <1>2, <2>1, FS_AddElement
  <2>3. Cardinality(upTo(j)) = Cardinality(upTo(j - 1)) + (IF s[j] \in K THEN 1 ELSE 0)
    BY <1>3, <2>1, <2>2
  <2> QED
    BY <1>1, <1>2, <2>3 DEF upTo, CountOf, OneIf
<1>4. CASE s[j] \notin K
  <2>1. upTo(j) = upTo(j - 1)
    BY <1>4
  <2> HIDE DEF upTo
  <2>3. Cardinality(upTo(j)) = Cardinality(upTo(j - 1)) + (IF s[j] \in K THEN 1 ELSE 0)
    BY <1>1, <1>2, <1>4, <2>1
  <2> QED
    BY <1>1, <1>2, <2>3 DEF upTo, CountOf, OneIf
<1> QED
  BY <1>3, <1>4

LEMMA DepthStep ==
    ASSUME NEW s, NEW j \in Nat \ {0}
    PROVE  /\ LineDepth(s, j) = LineDepth(s, j - 1) + Opens(s[j]) - Closes(s[j])
           /\ LineDepth(s, j) \in Int /\ LineDepth(s, j - 1) \in Int
<1>1. /\ CountOf(s, Opening, j) = CountOf(s, Opening, j - 1) + Opens(s[j])
      /\ CountOf(s, Opening, j) \in Nat /\ CountOf(s, Opening, j - 1) \in Nat
  BY CountStep DEF Opens
<1>2. /\ CountOf(s, Closing, j) = CountOf(s, Closing, j - 1) + Closes(s[j])
      /\ CountOf(s, Closing, j) \in Nat /\ CountOf(s, Closing, j - 1) \in Nat
  BY CountStep DEF Closes
<1>3. Opens(s[j]) \in Int /\ Closes(s[j]) \in Int
  BY DEF Opens, Closes, OneIf
<1> QED
  BY <1>1, <1>2, <1>3 DEF LineDepth

LEMMA DepthStart == ASSUME NEW s PROVE LineDepth(s, 0) = 0
<1>1. {k \in 1..0 : s[k] \in Opening} = {} /\ {k \in 1..0 : s[k] \in Closing} = {}
  OBVIOUS
<1>2. Cardinality({}) = 0
  BY FS_EmptySet
<1> QED
  BY <1>1, <1>2 DEF LineDepth, CountOf

LEMMA DepthType == ASSUME NEW s, NEW j \in Nat PROVE LineDepth(s, j) \in Int
<1>1. j + 1 \in Nat \ {0} /\ (j + 1) - 1 = j
  OBVIOUS
<1> QED
  BY <1>1, DepthStep

\* Sequences that begin alike are alike deep.
LEMMA DepthPrefix ==
    ASSUME NEW s, NEW t, NEW j \in Nat, \A k \in 1..j : s[k] = t[k]
    PROVE  LineDepth(s, j) = LineDepth(t, j)
<1>1. /\ {k \in 1..j : s[k] \in Opening} = {k \in 1..j : t[k] \in Opening}
      /\ {k \in 1..j : s[k] \in Closing} = {k \in 1..j : t[k] \in Closing}
  OBVIOUS
<1> QED
  BY <1>1 DEF LineDepth, CountOf

\* One more line.
LEMMA LineAdded ==
    ASSUME NEW S, NEW s \in Seq(S), NEW l \in S
    PROVE  /\ Append(s, l) \in Seq(S) /\ Len(Append(s, l)) = Len(s) + 1 /\ Len(s) \in Nat
           /\ (\A k \in 1..Len(s) : Append(s, l)[k] = s[k]) /\ Append(s, l)[Len(s) + 1] = l
           /\ \A j \in 0..Len(s) : LineDepth(Append(s, l), j) = LineDepth(s, j)
           /\ LineDepth(Append(s, l), Len(s) + 1) = LineDepth(s, Len(s)) + Opens(l) - Closes(l)
<1> DEFINE r == Append(s, l)
<1>1. /\ r \in Seq(S) /\ Len(r) = Len(s) + 1 /\ Len(s) \in Nat
      /\ (\A k \in 1..Len(s) : r[k] = s[k]) /\ r[Len(s) + 1] = l
  OBVIOUS
<1> HIDE DEF r
<1>2. ASSUME NEW j \in 0..Len(s) PROVE LineDepth(r, j) = LineDepth(s, j)
  <2>1. j \in Nat /\ \A k \in 1..j : r[k] = s[k]
    BY <1>1
  <2> QED
    BY <2>1, DepthPrefix
<1>3. LineDepth(r, Len(s) + 1) = LineDepth(s, Len(s)) + Opens(l) - Closes(l)
  <2>1. Len(s) + 1 \in Nat \ {0} /\ (Len(s) + 1) - 1 = Len(s) /\ Len(s) \in 0..Len(s)
    BY <1>1
  <2>2. LineDepth(r, Len(s) + 1) = LineDepth(r, Len(s)) + Opens(r[Len(s) + 1]) - Closes(r[Len(s) + 1])
    BY <2>1, DepthStep
  <2> QED
    BY <1>1, <1>2, <2>1, <2>2
<1> QED
  BY <1>1, <1>2, <1>3 DEF r

\* A line that is written in its place: what it closes is open, an else closes an if, and an
\* else is another kind of block.
Follows(b, l, c) ==
    /\ l \in LineKinds /\ c \in Seq(BlockKinds) /\ Len(c) = Len(b) + Opens(l) - Closes(l)
    /\ l \in Closing => b # <<>>
    /\ \A v \in 1..(Len(b) - Closes(l)) : c[v] = b[v]
    /\ l \in ElseOpen => c[Len(c)] = "other"
    /\ l \in ElseIfs => b[Len(b)] = "if"

LEMMA WellFormedGrows ==
    ASSUME NEW s, NEW b, WellFormed(s, b), NEW l, NEW c, Follows(b, l, c)
    PROVE  WellFormed(Append(s, l), c)
<1>0. /\ l \in LineKinds /\ c \in Seq(BlockKinds) /\ Len(c) = Len(b) + Opens(l) - Closes(l)
      /\ l \in Closing => b # <<>>
      /\ \A v \in 1..(Len(b) - Closes(l)) : c[v] = b[v]
      /\ l \in ElseOpen => c[Len(c)] = "other"
      /\ l \in ElseIfs => b[Len(b)] = "if"
  BY DEF Follows
<1> USE <1>0
<1> DEFINE r == Append(s, l)
           n == Len(s) + 1
<1>1. s \in Seq(LineKinds) /\ b \in Seq(BlockKinds) /\ LineDepth(s, Len(s)) = Len(b) /\ Len(b) \in Nat
  BY DEF WellFormed
<1>2. /\ r \in Seq(LineKinds) /\ Len(r) = n /\ Len(s) \in Nat
      /\ (\A k \in 1..Len(s) : r[k] = s[k]) /\ r[n] = l
      /\ \A j \in 0..Len(s) : LineDepth(r, j) = LineDepth(s, j)
      /\ LineDepth(r, n) = LineDepth(s, Len(s)) + Opens(l) - Closes(l)
  BY <1>1, LineAdded
<1> HIDE DEF r
<1>3. n \in Nat /\ n - 1 = Len(s) /\ n >= 1 /\ 1..n = 1..Len(s) \cup {n} /\ n \notin 1..Len(s)
  BY <1>2
<1> HIDE DEF n
<1>4. LineDepth(r, n) = Len(c) /\ Len(c) \in Nat /\ LineDepth(r, n - 1) = Len(b)
  <2>1. Len(s) \in 0..Len(s)
    BY <1>2
  <2> QED
    BY <1>1, <1>2, <1>3, <2>1
<1>5. \A j \in 0..n : LineDepth(r, j) >= 0
  <2> SUFFICES ASSUME NEW j \in 0..n PROVE LineDepth(r, j) >= 0
    OBVIOUS
  <2>1. CASE j = n
    BY <1>4, <2>1
  <2>2. CASE j # n
    <3>1. j \in 0..Len(s)
      BY <1>2, <1>3, <2>2
    <3> QED
      BY <1>2, <3>1 DEF WellFormed
  <2> QED
    BY <2>1, <2>2
<1>6. \A j \in 1..Len(s) : j - 1 \in 0..Len(s) /\ LineDepth(r, j - 1) = LineDepth(s, j - 1) /\ LineDepth(r, j) = LineDepth(s, j)
  BY <1>2
<1>7. \A j \in 1..Len(s) : \A d : ClosesAt(r, j, d) <=> ClosesAt(s, j, d)
  BY <1>2, <1>6 DEF ClosesAt
<1>8. l \in Closing => Len(b) >= 1
  BY <1>1
<1>9. \A j \in 1..n : r[j] \in Closing => LineDepth(r, j - 1) >= 1
  <2> SUFFICES ASSUME NEW j \in 1..n, r[j] \in Closing PROVE LineDepth(r, j - 1) >= 1
    OBVIOUS
  <2>1. CASE j = n
    BY <1>2, <1>4, <1>8, <2>1
  <2>2. CASE j \in 1..Len(s)
    BY <1>2, <1>6, <2>2 DEF WellFormed
  <2> QED
    BY <1>3, <2>1, <2>2
<1>10. ASSUME NEW e \in 1..n, NEW j \in 1..n, r[e] \in ElseOpen, e < j, r[j] \in ElseIfs,
              LineDepth(r, j - 1) = LineDepth(r, e)
       PROVE  \E k \in 1..(j - 1) : e < k /\ ClosesAt(r, k, LineDepth(r, e))
  <2>1. e \in 1..Len(s) /\ r[e] = s[e] /\ LineDepth(r, e) = LineDepth(s, e)
    BY <1>2, <1>3, <1>6, <1>10
  <2>2. CASE j = n
    <3>1. l \in ElseIfs /\ LineDepth(s, e) = Len(b)
      BY <1>2, <1>4, <1>10, <2>1, <2>2
    <3>2. ~(b[LineDepth(s, e)] = "other")
      BY <3>1
    <3>3. PICK k \in 1..Len(s) : e < k /\ ClosesAt(s, k, LineDepth(s, e))
      BY <1>10, <2>1, <3>2 DEF WellFormed
    <3> QED
      BY <1>3, <1>7, <2>1, <2>2, <3>3
  <2>3. CASE j \in 1..Len(s)
    <3>1. r[j] = s[j] /\ LineDepth(r, j - 1) = LineDepth(s, j - 1)
      BY <1>2, <1>6, <2>3
    <3>2. PICK k \in 1..(j - 1) : e < k /\ ClosesAt(s, k, LineDepth(s, e))
      BY <1>10, <2>1, <2>3, <3>1 DEF WellFormed
    <3>3. k \in 1..Len(s)
      BY <1>2, <2>3
    <3> QED
      BY <1>7, <2>1, <3>2, <3>3
  <2> QED
    BY <1>3, <2>2, <2>3
<1>11. ASSUME NEW e \in 1..n, r[e] \in ElseOpen
       PROVE  \/ \E k \in 1..n : e < k /\ ClosesAt(r, k, LineDepth(r, e))
              \/ LineDepth(r, e) \in 1..Len(c) /\ c[LineDepth(r, e)] = "other"
  <2>1. CASE e = n
    <3>1. l \in Opening /\ LineDepth(r, n) = Len(c) /\ c[Len(c)] = "other"
      BY <1>2, <1>4, <1>11, <2>1, LineSets
    <3>2. Len(c) >= 1
      BY <1>1, <1>8, <3>1 DEF Opens, Closes, OneIf
    <3> QED
      BY <1>4, <2>1, <3>1, <3>2
  <2>2. CASE e \in 1..Len(s)
    <3>1. r[e] = s[e] /\ LineDepth(r, e) = LineDepth(s, e)
      BY <1>2, <1>6, <2>2
    <3>2. CASE \E k \in 1..Len(s) : e < k /\ ClosesAt(s, k, LineDepth(s, e))
      BY <1>3, <1>7, <3>1, <3>2
    <3>3. CASE LineDepth(s, e) \in 1..Len(b) /\ b[LineDepth(s, e)] = "other"
      <4>1. CASE LineDepth(s, e) <= Len(b) - Closes(l)
        <5>1. Len(c) >= Len(b) - Closes(l) /\ Closes(l) \in Int /\ Len(b) - Closes(l) \in Int
          BY <1>1 DEF Opens, Closes, OneIf
        <5>2. LineDepth(s, e) \in 1..(Len(b) - Closes(l)) /\ LineDepth(s, e) \in 1..Len(c)
          BY <1>1, <1>4, <3>3, <4>1, <5>1
        <5> QED
          BY <3>1, <3>3, <5>2
      <4>2. CASE ~(LineDepth(s, e) <= Len(b) - Closes(l))
        <5>1. l \in Closing /\ LineDepth(s, e) = Len(b)
          BY <1>1, <3>3, <4>2 DEF Closes, OneIf
        <5>2. ClosesAt(r, n, LineDepth(r, e)) /\ e < n
          BY <1>2, <1>3, <1>4, <2>2, <3>1, <5>1 DEF ClosesAt
        <5> QED
          BY <1>3, <5>2
      <4> QED
        BY <4>1, <4>2
    <3>4. \/ \E k \in 1..Len(s) : e < k /\ ClosesAt(s, k, LineDepth(s, e))
          \/ LineDepth(s, e) \in 1..Len(b) /\ b[LineDepth(s, e)] = "other"
      BY <1>11, <2>2, <3>1, Zenon DEF WellFormed
    <3> QED
      BY <3>2, <3>3, <3>4, Zenon
  <2> QED
    BY <1>3, <2>1, <2>2
<1>12. r \in Seq(LineKinds) /\ c \in Seq(BlockKinds) /\ LineDepth(r, Len(r)) = Len(c) /\ Len(r) = n
  BY <1>2, <1>4
<1> QED
  BY <1>5, <1>9, <1>10, <1>11, <1>12 DEF WellFormed, r

-----------------------------------------------------------------------------
(* The line that closes a block. *)
CloseFrom(s, e, v) == FirstOf({j \in (e + 1)..Len(s) : ClosesAt(s, j, v)})

LEMMA FirstFacts ==
    ASSUME NEW S, S \subseteq Nat
    PROVE  /\ S = {} => FirstOf(S) = 0
           /\ S # {} => FirstOf(S) \in S /\ \A k \in S : FirstOf(S) <= k
<1>1. CASE S = {}
  BY <1>1 DEF FirstOf
<1>2. CASE S # {}
  <2>1. \E j \in S : \A k \in S : j <= k
    BY <1>2, LowestExists
  <2> QED
    BY <1>2, <2>1 DEF FirstOf
<1> QED
  BY <1>1, <1>2

LEMMA CloseFacts ==
    ASSUME NEW s, Len(s) \in Nat, NEW e \in Nat, NEW v
    PROVE  /\ CloseFrom(s, e, v) \in Nat
           /\ CloseFrom(s, e, v) # 0 =>
                 /\ e < CloseFrom(s, e, v) /\ CloseFrom(s, e, v) <= Len(s) /\ ClosesAt(s, CloseFrom(s, e, v), v)
                 /\ \A k \in Nat : e < k /\ k < CloseFrom(s, e, v) => ~ClosesAt(s, k, v)
           /\ (\E j \in (e + 1)..Len(s) : ClosesAt(s, j, v)) => CloseFrom(s, e, v) # 0
<1> DEFINE S == {j \in (e + 1)..Len(s) : ClosesAt(s, j, v)}
<1>1. S \subseteq Nat /\ 0 \notin S
  OBVIOUS
<1>2. CloseFrom(s, e, v) = FirstOf(S)
  BY DEF CloseFrom
<1>3. \A j : j \in S <=> j \in (e + 1)..Len(s) /\ ClosesAt(s, j, v)
  OBVIOUS
<1> HIDE DEF S
<1>4. /\ S = {} => FirstOf(S) = 0
      /\ S # {} => FirstOf(S) \in S /\ \A k \in S : FirstOf(S) <= k
  BY <1>1, FirstFacts
<1> QED
  BY <1>1, <1>2, <1>3, <1>4

\* From v blocks to fewer: one is closed on the way.
LEMMA DepthFalls ==
    ASSUME NEW s, NEW e \in Nat, NEW k \in Nat, e < k, NEW v \in Int, LineDepth(s, e) >= v, LineDepth(s, k) < v
    PROVE  \E m \in (e + 1)..k : ClosesAt(s, m, v)
<1> DEFINE S == {m \in (e + 1)..k : LineDepth(s, m) < v}
<1>1. S \subseteq Nat /\ k \in S
  OBVIOUS
<1>2. PICK m \in S : \A y \in S : m <= y
  BY <1>1, LowestExists
<1>3. m \in (e + 1)..k /\ LineDepth(s, m) < v /\ m \in Nat \ {0} /\ m - 1 \in Nat
  OBVIOUS
<1>4. LineDepth(s, m - 1) >= v
  <2>1. CASE m - 1 = e
    BY <2>1
  <2>2. CASE m - 1 # e
    <3>1. m - 1 \in (e + 1)..k /\ ~(m <= m - 1)
      BY <1>3, <2>2
    <3>2. ~(LineDepth(s, m - 1) < v)
      BY <1>2, <3>1
    <3> QED
      BY <1>3, <3>2, DepthType
  <2> QED
    BY <2>1, <2>2
<1> HIDE DEF S
<1>5. /\ LineDepth(s, m) = LineDepth(s, m - 1) + Opens(s[m]) - Closes(s[m])
      /\ LineDepth(s, m) \in Int /\ LineDepth(s, m - 1) \in Int
  BY <1>3, DepthStep
<1>6. s[m] \in Closing /\ LineDepth(s, m - 1) = v
  BY <1>3, <1>4, <1>5 DEF Opens, Closes, OneIf
<1> QED
  BY <1>3, <1>6 DEF ClosesAt

\* In a file that is done every block is closed, and nothing leaves it before.
LEMMA BlockCloses ==
    ASSUME NEW s, WellFormed(s, <<>>), NEW e \in 1..Len(s), NEW v \in Int, LineDepth(s, e) = v, v >= 1
    PROVE  /\ CloseFrom(s, e, v) \in Nat /\ e < CloseFrom(s, e, v) /\ CloseFrom(s, e, v) <= Len(s)
           /\ ClosesAt(s, CloseFrom(s, e, v), v)
           /\ \A k \in Nat : e < k /\ k < CloseFrom(s, e, v) => ~ClosesAt(s, k, v)
           /\ \A k \in e..(CloseFrom(s, e, v) - 1) : LineDepth(s, k) >= v
           /\ \A k \in (e + 1)..(CloseFrom(s, e, v) - 1) : s[k] \in Closing => LineDepth(s, k - 1) >= v + 1
<1> DEFINE c == CloseFrom(s, e, v)
<1>1. s \in Seq(LineKinds) /\ Len(s) \in Nat /\ LineDepth(s, Len(s)) = 0 /\ e \in Nat
  <2>1. Len(<<>>) = 0
    OBVIOUS
  <2> QED
    BY <2>1 DEF WellFormed
<1>2. e < Len(s)
  BY <1>1
<1>3. \E j \in (e + 1)..Len(s) : ClosesAt(s, j, v)
  BY <1>1, <1>2, DepthFalls
<1>4. /\ c \in Nat /\ e < c /\ c <= Len(s) /\ ClosesAt(s, c, v)
      /\ \A k \in Nat : e < k /\ k < c => ~ClosesAt(s, k, v)
  BY <1>1, <1>3, CloseFacts
<1> HIDE DEF c
<1>5. ASSUME NEW k \in e..(c - 1) PROVE LineDepth(s, k) >= v
  <2>1. k \in Nat /\ LineDepth(s, k) \in Int
    BY <1>1, DepthType
  <2>2. CASE k = e
    BY <2>2
  <2>3. CASE k # e /\ LineDepth(s, k) < v
    <3>1. \E m \in (e + 1)..k : ClosesAt(s, m, v)
      BY <1>1, <2>1, <2>3, DepthFalls
    <3> QED
      BY <1>1, <1>4, <2>1, <3>1
  <2> QED
    BY <2>1, <2>2, <2>3
<1>6. ASSUME NEW k \in (e + 1)..(c - 1), s[k] \in Closing PROVE LineDepth(s, k - 1) >= v + 1
  <2>1. k - 1 \in e..(c - 1) /\ k \in Nat /\ e < k /\ k < c /\ k - 1 \in Nat
    BY <1>1, <1>4
  <2>2. LineDepth(s, k - 1) >= v /\ LineDepth(s, k - 1) # v
    BY <1>4, <1>5, <1>6, <2>1 DEF ClosesAt
  <2> QED
    BY <2>1, <2>2, DepthType
<1> QED
  BY <1>4, <1>5, <1>6 DEF c

\* findCloseBraceLine and findCloseBraceFrom, which count the braces of every line.
EndsOn(s, j, d) == ClosesAt(s, j, d) \/ (s[j] \in Paired /\ LineDepth(s, j - 1) + 1 = d)
BlockCloseLine(s, o) == FirstOf({j \in o..Len(s) : EndsOn(s, j, LineDepth(s, o - 1) + 1)})
ElseCloseLine(s, e) ==
    IF s[e] = "flag if and else on one line" THEN e
    ELSE FirstOf({j \in (e + 1)..Len(s) : EndsOn(s, j, LineDepth(s, e))})

LEMMA CloseLines ==
    ASSUME NEW s, Len(s) \in Nat, NEW o \in 1..Len(s)
    PROVE  /\ BlockCloseLine(s, o) \in Nat
           /\ BlockCloseLine(s, o) # 0 => o <= BlockCloseLine(s, o) /\ BlockCloseLine(s, o) <= Len(s)
           /\ ElseCloseLine(s, o) \in Nat /\ ElseCloseLine(s, o) <= Len(s)
<1>1. ASSUME NEW f \in Nat, NEW d
      PROVE  LET c == FirstOf({j \in f..Len(s) : EndsOn(s, j, d)})
             IN  c \in Nat /\ (c # 0 => f <= c /\ c <= Len(s))
  <2> DEFINE S == {j \in f..Len(s) : EndsOn(s, j, d)}
  <2>1. S \subseteq Nat /\ S \subseteq f..Len(s)
    OBVIOUS
  <2> HIDE DEF S
  <2>2. (S = {} => FirstOf(S) = 0) /\ (S # {} => FirstOf(S) \in S)
    BY <2>1, FirstFacts
  <2>3. FirstOf(S) = 0 \/ FirstOf(S) \in f..Len(s)
    BY <2>1, <2>2, Zenon
  <2>4. FirstOf(S) \in Nat /\ (FirstOf(S) # 0 => f <= FirstOf(S) /\ FirstOf(S) <= Len(s))
    <3> DEFINE m == FirstOf(S)
    <3>1. m = 0 \/ m \in f..Len(s)
      BY <2>3
    <3> HIDE DEF m
    <3>2. m \in Nat /\ (m # 0 => f <= m /\ m <= Len(s))
      BY <3>1
    <3> QED
      BY <3>2 DEF m
  <2> QED
    BY <2>4 DEF S
<1>2. o \in Nat /\ o + 1 \in Nat
  OBVIOUS
<1>3. BlockCloseLine(s, o) \in Nat /\ (BlockCloseLine(s, o) # 0 => o <= BlockCloseLine(s, o) /\ BlockCloseLine(s, o) <= Len(s))
  BY <1>1, <1>2 DEF BlockCloseLine
<1>4. CASE s[o] = "flag if and else on one line"
  <2>1. ElseCloseLine(s, o) = o
    BY <1>4, Zenon DEF ElseCloseLine
  <2>2. o <= Len(s)
    OBVIOUS
  <2> QED
    BY <1>2, <1>3, <2>1, <2>2
<1>5. CASE s[o] # "flag if and else on one line"
  <2> DEFINE c == FirstOf({j \in (o + 1)..Len(s) : EndsOn(s, j, LineDepth(s, o))})
  <2>1. ElseCloseLine(s, o) = c
    BY <1>5 DEF ElseCloseLine
  <2>2. c \in Nat /\ (c # 0 => c <= Len(s))
    BY <1>1, <1>2
  <2> HIDE DEF c
  <2> QED
    BY <1>3, <2>1, <2>2
<1> QED
  BY <1>4, <1>5

\* Lines with a "{" and its "}" do not end a block: the first line that does is the one that
\* brings the depth down.
LEMMA FirstClose ==
    ASSUME NEW s, WellFormed(s, <<>>), NEW e \in 1..Len(s), NEW v \in Int, LineDepth(s, e) = v, v >= 1,
           NEW f \in {e, e + 1}, f = e => ~EndsOn(s, e, v)
    PROVE  FirstOf({j \in f..Len(s) : EndsOn(s, j, v)}) = CloseFrom(s, e, v)
<1> DEFINE c == CloseFrom(s, e, v)
           S == {j \in f..Len(s) : EndsOn(s, j, v)}
<1>1. /\ c \in Nat /\ e < c /\ c <= Len(s) /\ ClosesAt(s, c, v)
      /\ \A k \in Nat : e < k /\ k < c => ~ClosesAt(s, k, v)
      /\ \A k \in e..(c - 1) : LineDepth(s, k) >= v
  BY BlockCloses
<1> HIDE DEF c
<1>2. Len(s) \in Nat
  BY DEF WellFormed
<1>3. c \in S /\ S \subseteq Nat
  BY <1>1, <1>2 DEF EndsOn
<1>4. ASSUME NEW k \in S, k < c PROVE FALSE
  <2>1. k \in Nat /\ EndsOn(s, k, v) /\ e <= k
    BY <1>2
  <2>2. k # e
    BY <1>4
  <2>3. e < k /\ k - 1 \in e..(c - 1) /\ k - 1 \in Nat
    BY <1>1, <1>4, <2>1, <2>2
  <2>4. LineDepth(s, k - 1) + 1 = v
    BY <1>1, <1>4, <2>1, <2>3 DEF EndsOn
  <2>5. LineDepth(s, k - 1) >= v /\ LineDepth(s, k - 1) \in Int
    BY <1>1, <2>3, DepthType
  <2> QED
    BY <2>4, <2>5
<1> HIDE DEF S
<1>5. FirstOf(S) \in S /\ FirstOf(S) <= c
  BY <1>3, FirstFacts
<1>6. FirstOf(S) = c
  <2> DEFINE m == FirstOf(S)
  <2>1. m \in Nat /\ m <= c
    BY <1>3, <1>5
  <2>2. ~(m < c)
    BY <1>4, <1>5
  <2> HIDE DEF m
  <2>3. m = c
    BY <1>1, <2>1, <2>2
  <2> QED
    BY <2>3 DEF m
<1> QED
  BY <1>6 DEF S, c

-----------------------------------------------------------------------------
(* What is written, and what is passed over. *)
LEMMA ResultAdded ==
    ASSUME NEW s \in Seq(LineKinds), NEW c \in Seq(1..Len(s)), NEW i \in 1..Len(s)
    PROVE  /\ ResultOf(s, c) \in Seq(LineKinds) /\ Len(ResultOf(s, c)) = Len(c)
           /\ ResultOf(s, Append(c, i)) = Append(ResultOf(s, c), s[i])
<1>1. Len(c) \in Nat /\ \A m \in 1..Len(c) : c[m] \in 1..Len(s) /\ s[c[m]] \in LineKinds
  OBVIOUS
<1>2. ResultOf(s, c) \in Seq(LineKinds) /\ Len(ResultOf(s, c)) = Len(c)
  <2>1. ResultOf(s, c) \in [1..Len(c) -> LineKinds]
    BY <1>1 DEF ResultOf
  <2> QED
    BY <1>1, <2>1
<1>3. s[i] \in LineKinds
  OBVIOUS
<1>4. /\ Len(Append(c, i)) = Len(c) + 1 /\ Append(c, i)[Len(c) + 1] = i
      /\ \A m \in 1..Len(c) : Append(c, i)[m] = c[m]
  OBVIOUS
<1> DEFINE r == ResultOf(s, c)
           t == ResultOf(s, Append(c, i))
           u == Append(r, s[i])
<1>5. u \in Seq(LineKinds) /\ Len(u) = Len(c) + 1 /\ u[Len(c) + 1] = s[i] /\ \A m \in 1..Len(c) : u[m] = r[m]
  <2> HIDE DEF r
  <2>1. r \in Seq(LineKinds) /\ Len(r) = Len(c)
    BY <1>2 DEF r
  <2> QED
    BY <1>1, <1>3, <2>1
<1>6. \A m \in 1..Len(c) : r[m] = s[c[m]]
  BY DEF ResultOf
<1>7. t = [m \in 1..(Len(c) + 1) |-> s[Append(c, i)[m]]]
  BY <1>4 DEF ResultOf
<1>8. u = [m \in 1..(Len(c) + 1) |-> u[m]]
  <2> HIDE DEF u
  <2> QED
    BY <1>5
<1>9. \A m \in 1..(Len(c) + 1) : u[m] = s[Append(c, i)[m]]
  <2> HIDE DEF u, r
  <2> TAKE m \in 1..(Len(c) + 1)
  <2>1. CASE m = Len(c) + 1
    BY <1>4, <1>5, <2>1
  <2>2. CASE m \in 1..Len(c)
    BY <1>4, <1>5, <1>6, <2>2
  <2> QED
    BY <1>1, <2>1, <2>2
<1>10. t = u
  <2> HIDE DEF u, t
  <2> QED
    BY <1>7, <1>8, <1>9
<1> QED
  BY <1>2, <1>10

LEMMA WrittenFacts ==
    ASSUME NEW s \in Seq(LineKinds), NEW c \in Seq(1..Len(s)), NEW a \in 1..Len(s), Increasing(c, a)
    PROVE  /\ WrittenLine(s, c, a) \in Seq(1..Len(s)) /\ Increasing(WrittenLine(s, c, a), a + 1)
           /\ \A j : j # a => (Contains(WrittenLine(s, c, a), j) <=> Contains(c, j))
           /\ s[a] # "blank" => Contains(WrittenLine(s, c, a), a)
<1>1. Len(c) \in Nat /\ Len(s) \in Nat /\ \A m \in 1..Len(c) : c[m] \in 1..Len(s)
  OBVIOUS
<1>2. CASE WrittenLine(s, c, a) = c /\ s[a] = "blank"
  BY <1>1, <1>2 DEF Increasing
<1>3. CASE WrittenLine(s, c, a) = Append(c, a)
  <2> DEFINE d == Append(c, a)
  <2>1. /\ d \in Seq(1..Len(s)) /\ Len(d) = Len(c) + 1 /\ d[Len(c) + 1] = a
        /\ \A m \in 1..Len(c) : d[m] = c[m]
    OBVIOUS
  <2> HIDE DEF d
  <2>5. 1..Len(d) = 1..Len(c) \cup {Len(c) + 1} /\ a \in Int /\ a < a + 1
    BY <1>1, <2>1
  <2>6. \A n \in 1..Len(c) : d[n] < a /\ d[n] \in Int
    <3> TAKE n \in 1..Len(c)
    <3>1. c[n] < a /\ c[n] \in 1..Len(s) /\ d[n] = c[n]
      BY <1>1, <2>1 DEF Increasing
    <3>2. c[n] \in Int
      BY <3>1
    <3> QED
      BY <3>1, <3>2
  <2>7. \A m, n \in 1..Len(d) : m < n => d[m] < d[n]
    <3> TAKE m, n \in 1..Len(d)
    <3> HAVE m < n
    <3>1. m \in 1..Len(c)
      BY <1>1, <2>1
    <3>2. CASE n \in 1..Len(c)
      BY <2>1, <3>1, <3>2 DEF Increasing
    <3>3. CASE n = Len(c) + 1
      BY <2>1, <2>6, <3>1, <3>3
    <3> QED
      BY <2>5, <3>2, <3>3
  <2>2. Increasing(d, a + 1)
    <3>1. \A n \in 1..Len(d) : d[n] < a + 1
      <4> TAKE n \in 1..Len(d)
      <4>1. CASE n \in 1..Len(c)
        <5>1. d[n] < a /\ d[n] \in Int
          BY <2>6, <4>1
        <5> HIDE DEF d
        <5> QED
          BY <2>5, <5>1
      <4>2. CASE n = Len(c) + 1
        BY <2>1, <2>5, <4>2
      <4> QED
        BY <2>5, <4>1, <4>2
    <3> QED
      BY <2>7, <3>1 DEF Increasing
  <2>3. \A j : Contains(d, j) <=> j = a \/ Contains(c, j)
    <3>1. \A j : Contains(c, j) => Contains(d, j)
      BY <2>1, <2>5, Zenon DEF Contains
    <3>2. Contains(d, a)
      BY <2>1, <2>5, Zenon DEF Contains
    <3>3. \A j : Contains(d, j) => j = a \/ Contains(c, j)
      <4> SUFFICES ASSUME NEW j, Contains(d, j), j # a PROVE Contains(c, j)
        OBVIOUS
      <4>1. PICK i \in 1..Len(d) : d[i] = j
        BY DEF Contains
      <4>2. i \in 1..Len(c)
        BY <2>1, <2>5, <4>1
      <4> QED
        BY <2>1, <4>1, <4>2 DEF Contains
    <3> QED
      BY <3>1, <3>2, <3>3
  <2> QED
    BY <1>3, <2>1, <2>2, <2>3 DEF d
<1> QED
  BY <1>2, <1>3 DEF WrittenLine

\* A line is written: it closes only what the result has open, and it is no outer if on the flag.
LEMMA WriteKeeps ==
    ASSUME NEW s, s \in Seq(LineKinds), NEW c, NEW a \in 1..Len(s), NEW x, Cleaning(s, c, a, x), x # 0 => a < x,
           PlainFile(s) => (s[a] \in Closing => LineDepth(s, a - 1) - Outer(x) >= 1)
                           /\ ~(s[a] \in FlagIf /\ LineNesting(s, a) = 0)
    PROVE  Cleaning(s, WrittenLine(s, c, a), a + 1, x)
<1> DEFINE w == WrittenLine(s, c, a)
<1>1. Len(s) \in Nat /\ c \in Seq(1..Len(s)) /\ Increasing(c, a) /\ x \in Nat /\ Len(c) \in Nat /\ (x # 0 => x <= Len(s))
  BY DEF Cleaning
<1>2. /\ w \in Seq(1..Len(s)) /\ Increasing(w, a + 1)
      /\ \A j : j # a => (Contains(w, j) <=> Contains(c, j))
      /\ s[a] # "blank" => Contains(w, a)
  BY <1>1, WrittenFacts
<1>3. a + 1 \in 1..(Len(s) + 1) /\ (a + 1) - 1 = a /\ a - 1 \in Nat /\ a \in Nat \ {0}
  BY <1>1
<1>4. x # 0 => a + 1 <= x
  BY <1>1
<1>5. ASSUME PlainFile(s) PROVE CleanTo(s, w, a + 1, x) /\ (x # 0 => ElseAhead(s, a + 1, x))
  <2> DEFINE r == ResultOf(s, c)
  <2>1. CleanTo(s, c, a, x) /\ (x # 0 => ElseAhead(s, a, x))
    BY <1>5 DEF Cleaning
  <2>2. x # 0 => ElseAhead(s, a + 1, x)
    <3> HAVE x # 0
    <3>1. (a + 1) - 1 \in (a - 1)..(x - 1) /\ \A k \in ((a + 1) - 1)..(x - 1) : k \in (a - 1)..(x - 1)
      BY <1>1, <1>4
    <3>2. \A k \in (a + 1)..(x - 1) : k \in a..(x - 1)
      BY <1>1
    <3> QED
      BY <2>1, <3>1, <3>2 DEF ElseAhead
  <2>3. \A j \in 1..a : LineKept(s, w, j)
    <3> TAKE j \in 1..a
    <3>1. CASE j = a
      <4>1. s[a] \in Statement => Contains(w, a)
        BY <1>2 DEF Statement
      <4> QED
        BY <1>5, <3>1, <4>1 DEF LineKept
    <3>2. CASE j # a
      <4>1. j \in 1..(a - 1)
        BY <3>2, <1>3
      <4>2. LineKept(s, c, j)
        BY <2>1, <4>1 DEF CleanTo
      <4>3. Contains(w, j) <=> Contains(c, j)
        BY <1>2, <3>2
      <4> QED
        BY <4>2, <4>3 DEF LineKept
    <3> QED
      BY <3>1, <3>2
  <2>4. /\ LineDepth(s, a) = LineDepth(s, a - 1) + Opens(s[a]) - Closes(s[a])
        /\ LineDepth(s, a) \in Int /\ LineDepth(s, a - 1) \in Int
    BY <1>3, DepthStep
  <2>5. Outer(x) \in Int /\ Opens(s[a]) \in Int /\ Closes(s[a]) \in Int
    BY DEF Outer, Opens, Closes, OneIf
  <2>6. LineDepth(r, Len(c)) = LineDepth(s, a - 1) - Outer(x)
    BY <2>1 DEF CleanTo
  <2>7. \A n \in 1..Len(c) : s[c[n]] \in Closing => LineDepth(r, n - 1) > 0
    BY <2>1 DEF CleanTo
  <2>8. /\ r \in Seq(LineKinds) /\ Len(r) = Len(c) /\ ResultOf(s, Append(c, a)) = Append(r, s[a])
    BY <1>1, ResultAdded
  <2>9. s[a] \in LineKinds
    OBVIOUS
  <2>10. /\ LineDepth(ResultOf(s, w), Len(w)) = LineDepth(s, a) - Outer(x)
         /\ \A n \in 1..Len(w) : s[w[n]] \in Closing => LineDepth(ResultOf(s, w), n - 1) > 0
    <3>1. CASE w = c /\ s[a] = "blank"
      <4>1. Opens(s[a]) = 0 /\ Closes(s[a]) = 0
        BY <3>1 DEF Opens, Closes, OneIf, Opening, Closing
      <4>2. LineDepth(s, a) = LineDepth(s, a - 1)
        BY <2>4, <4>1
      <4> HIDE DEF w, r
      <4>3. ResultOf(s, w) = r
        BY <3>1 DEF r
      <4> QED
        BY <2>6, <2>7, <3>1, <4>2, <4>3
    <3>2. CASE w = Append(c, a)
      <4> HIDE DEF r
      <4> DEFINE t == Append(r, s[a])
      <4>1. /\ \A j \in 0..Len(c) : LineDepth(t, j) = LineDepth(r, j)
            /\ LineDepth(t, Len(c) + 1) = LineDepth(r, Len(c)) + Opens(s[a]) - Closes(s[a])
        BY <2>8, <2>9, LineAdded
      <4> HIDE DEF t
      <4>2. Len(w) = Len(c) + 1 /\ w[Len(c) + 1] = a /\ \A m \in 1..Len(c) : w[m] = c[m]
        <5> HIDE DEF w
        <5> QED
          BY <1>1, <3>2
      <4>3. ResultOf(s, w) = t
        <5> HIDE DEF w
        <5> QED
          BY <2>8, <3>2 DEF t
      <4> HIDE DEF w
      <4>4. LineDepth(t, Len(w)) = LineDepth(s, a) - Outer(x)
        BY <2>4, <2>5, <2>6, <4>1, <4>2
      <4>5. ASSUME NEW n \in 1..Len(w), s[w[n]] \in Closing PROVE LineDepth(t, n - 1) > 0
        <5>1. CASE n \in 1..Len(c)
          <6>1. n - 1 \in 0..Len(c)
            BY <1>1, <5>1
          <6> QED
            BY <2>7, <4>1, <4>2, <4>5, <5>1, <6>1
        <5>2. CASE n = Len(c) + 1
          <6>1. n - 1 = Len(c) /\ n - 1 \in 0..Len(c) /\ s[a] \in Closing
            BY <1>1, <4>2, <4>5, <5>2
          <6>2. LineDepth(s, a - 1) - Outer(x) >= 1
            BY <1>5, <6>1
          <6>3. LineDepth(t, n - 1) = LineDepth(s, a - 1) - Outer(x)
            BY <2>6, <4>1, <6>1
          <6> QED
            BY <2>4, <2>5, <6>2, <6>3
        <5> QED
          BY <1>1, <4>2, <5>1, <5>2
      <4> QED
        BY <4>3, <4>4, <4>5
    <3> QED
      BY <3>1, <3>2 DEF WrittenLine
  <2> HIDE DEF w, r
  <2> QED
    BY <1>3, <2>2, <2>3, <2>10 DEF CleanTo
<1> HIDE DEF w
<1>6. Cleaning(s, w, a + 1, x)
  BY <1>1, <1>2, <1>3, <1>4, <1>5 DEF Cleaning
<1> QED
  BY <1>6 DEF w

\* Lines are passed over: none is a statement outside the flag's blocks.
LEMMA SkipKeeps ==
    ASSUME NEW s, Len(s) \in Nat, NEW c, NEW a, NEW x, Cleaning(s, c, a, x),
           NEW b \in 1..(Len(s) + 1), a <= b, NEW y \in Nat, y # 0 => b <= y /\ y <= Len(s),
           PlainFile(s) => /\ LineDepth(s, b - 1) - Outer(y) = LineDepth(s, a - 1) - Outer(x)
                           /\ \A j \in a..(b - 1) : s[j] \in Statement => InBlockOf(s, j)
                           /\ y # 0 => ElseAhead(s, b, y)
    PROVE  Cleaning(s, c, b, y)
<1>1. c \in Seq(1..Len(s)) /\ a \in 1..(Len(s) + 1) /\ Len(c) \in Nat /\ Increasing(c, a)
  BY DEF Cleaning
<1>2. \A n \in 1..Len(c) : c[n] \in 1..Len(s)
  BY <1>1
<1>3. Increasing(c, b)
  BY <1>1, <1>2 DEF Increasing
<1>4. ASSUME PlainFile(s) PROVE CleanTo(s, c, b, y)
  <2>1. CleanTo(s, c, a, x)
    BY <1>4 DEF Cleaning
  <2>2. ASSUME NEW j \in 1..(b - 1) PROVE LineKept(s, c, j)
    <3>1. CASE j \in 1..(a - 1)
      BY <2>1, <3>1 DEF CleanTo
    <3>2. CASE j \in a..(b - 1)
      <4>1. ~Contains(c, j)
        BY <1>1, <1>2, <3>2 DEF Contains, Increasing
      <4>2. s[j] \in Statement => InBlockOf(s, j)
        BY <1>4, <3>2
      <4> QED
        BY <4>1, <4>2 DEF LineKept
    <3> QED
      BY <1>1, <3>1, <3>2
  <2>3. LineDepth(s, b - 1) - Outer(y) = LineDepth(s, a - 1) - Outer(x)
    BY <1>4
  <2> QED
    BY <2>1, <2>2, <2>3 DEF CleanTo
<1> QED
  BY <1>1, <1>3, <1>4 DEF Cleaning

-----------------------------------------------------------------------------
(* The file is written. *)
LEMMA FrontFacts ==
    ASSUME NEW S, NEW b \in Seq(S), b # <<>>
    PROVE  /\ Front(b) \in Seq(S) /\ Len(Front(b)) = Len(b) - 1 /\ Len(b) \in Nat \ {0}
           /\ (\A v \in 1..(Len(b) - 1) : Front(b)[v] = b[v]) /\ Last(b) = b[Len(b)]
<1>1. Len(b) \in Nat \ {0} /\ \A v \in 1..(Len(b) - 1) : b[v] \in S
  OBVIOUS
<1>2. 1 \in 1..(Len(b) + 1) /\ Len(b) - 1 \in (1 - 1)..Len(b) /\ (Len(b) - 1) - 1 + 1 = Len(b) - 1 /\ 1 + (Len(b) - 1) - 1 = Len(b) - 1
  BY <1>1
<1>3. Front(b) \in Seq(S) /\ Len(Front(b)) = Len(b) - 1
  BY <1>1, <1>2, SubSeqProperties DEF Front
<1>4. \A v \in 1..(Len(b) - 1) : Front(b)[v] = b[1 + v - 1] /\ 1 + v - 1 = v
  BY <1>1, <1>2, SubSeqProperties DEF Front
<1> QED
  BY <1>1, <1>3, <1>4 DEF Last

LEMMA PushFacts ==
    ASSUME NEW S, NEW b \in Seq(S), NEW k \in S
    PROVE  /\ Append(b, k) \in Seq(S) /\ Len(Append(b, k)) = Len(b) + 1 /\ Len(b) \in Nat
           /\ (\A v \in 1..Len(b) : Append(b, k)[v] = b[v]) /\ Append(b, k)[Len(b) + 1] = k
OBVIOUS

LEMMA TwoLines ==
    ASSUME NEW S, NEW s \in Seq(S), NEW k \in S, NEW l \in S
    PROVE  s \o <<k, l>> = Append(Append(s, k), l)
<1> DEFINE t == <<k, l>>
           u == s \o t
           q == Append(s, k)
           v == Append(q, l)
<1>1. t \in Seq(S) /\ Len(t) = 2 /\ t[1] = k /\ t[2] = l /\ Len(s) \in Nat
  OBVIOUS
<1>2. q \in Seq(S) /\ Len(q) = Len(s) + 1 /\ q[Len(s) + 1] = k /\ \A i \in 1..Len(s) : q[i] = s[i]
  OBVIOUS
<1> HIDE DEF t, q
<1>3. /\ v \in Seq(S) /\ Len(v) = Len(s) + 2 /\ v[Len(s) + 2] = l /\ v[Len(s) + 1] = k
      /\ \A i \in 1..Len(s) : v[i] = s[i]
  BY <1>1, <1>2
<1>4. /\ u \in Seq(S) /\ Len(u) = Len(s) + 2 /\ u[Len(s) + 2] = l /\ u[Len(s) + 1] = k
      /\ \A i \in 1..Len(s) : u[i] = s[i]
  <2>1. u \in Seq(S) /\ Len(u) = Len(s) + Len(t) /\ \A i \in 1..Len(s) + Len(t) : u[i] = IF i <= Len(s) THEN s[i] ELSE t[i - Len(s)]
    BY <1>1, ConcatProperties, Zenon
  <2> HIDE DEF u
  <2>2. Len(u) = Len(s) + 2 /\ Len(s) + 2 \in 1..Len(s) + Len(t) /\ Len(s) + 1 \in 1..Len(s) + Len(t) /\ (Len(s) + 2) - Len(s) = 2 /\ (Len(s) + 1) - Len(s) = 1
    BY <1>1, <2>1
  <2>3. u[Len(s) + 2] = l /\ u[Len(s) + 1] = k
    BY <1>1, <2>1, <2>2
  <2>4. \A i \in 1..Len(s) : u[i] = s[i]
    BY <1>1, <2>1, <2>2
  <2> QED
    BY <2>1, <2>2, <2>3, <2>4
<1>5. 1..(Len(s) + 2) = 1..Len(s) \cup {Len(s) + 1, Len(s) + 2}
  BY <1>1
<1> HIDE DEF u, v
<1>6. \A i \in 1..(Len(s) + 2) : u[i] = v[i]
  BY <1>3, <1>4, <1>5
<1>7. u = v
  BY <1>1, <1>3, <1>4, <1>6, SeqEqual
<1> QED
  BY <1>7 DEF u, v, t, q

LEMMA LineCounts ==
    /\ \A l \in Neutral : Opens(l) = 0 /\ Closes(l) = 0 /\ l \notin ElseOpen \cup ElseIfs \cup Closing
    /\ \A l \in Openers : Opens(l) = 1 /\ Closes(l) = 0 /\ l \notin ElseOpen \cup ElseIfs \cup Closing
    /\ Opens("}") = 0 /\ Closes("}") = 1 /\ "}" \notin ElseOpen \cup ElseIfs
    /\ Opens("} else {") = 1 /\ Closes("} else {") = 1
    /\ Opens("} else if") = 1 /\ Closes("} else if") = 1 /\ "} else if" \notin ElseOpen
    /\ Opens("else {") = 1 /\ Closes("else {") = 0 /\ "else {" \notin ElseIfs \cup Closing
    /\ {"text", "blank", "bare flag if", "flag if", "if", "{", "}", "} else {", "} else if", "else {"} \subseteq LineKinds
BY DEF Opens, Closes, OneIf, Opening, Closing, ElseOpen, ElseIfs, LineKinds, Neutral, Openers, FlagIf, Statement

LEMMA OtherKind == "other" \in BlockKinds /\ "if" \in BlockKinds
BY DEF BlockKinds

LEMMA LineMembers == Neutral \cup Openers \subseteq LineKinds
BY DEF Neutral, Openers, LineKinds, Opening, Paired, FlagIf, Statement

LEMMA PlainIsStraight == ASSUME NEW s, PlainFile(s) PROVE Straight(s)
BY DEF PlainFile, Straight, Misread, InString

LEMMA LineGrows ==
    ASSUME NEW s, NEW b, WellFormed(s, b)
    PROVE  /\ \A l \in Neutral : WellFormed(Append(s, l), b)
           /\ \A l \in Openers, k \in BlockKinds : WellFormed(Append(s, l), Append(b, k))
           /\ b # <<>> => WellFormed(Append(s, "}"), Front(b))
           /\ b # <<>> /\ Last(b) = "if" => /\ WellFormed(Append(s, "} else {"), Append(Front(b), "other"))
                                            /\ WellFormed(Append(s, "} else if"), b)
           /\ WellFormed(Append(s, "else {"), Append(b, "other"))
<1>1. b \in Seq(BlockKinds) /\ Len(b) \in Nat
  BY DEF WellFormed
<1>2. ASSUME NEW l \in Neutral PROVE WellFormed(Append(s, l), b)
  <2>1. Opens(l) = 0 /\ Closes(l) = 0 /\ l \notin ElseOpen /\ l \notin ElseIfs /\ l \notin Closing /\ l \in LineKinds
    BY LineCounts, LineMembers
  <2>2. Follows(b, l, b)
    BY <1>1, <2>1 DEF Follows
  <2> QED
    BY <2>2, WellFormedGrows
<1>3. ASSUME NEW l \in Openers, NEW k \in BlockKinds PROVE WellFormed(Append(s, l), Append(b, k))
  <2> DEFINE c == Append(b, k)
  <2>1. c \in Seq(BlockKinds) /\ Len(c) = Len(b) + 1 /\ \A v \in 1..Len(b) : c[v] = b[v]
    BY <1>1, OtherKind, PushFacts
  <2> HIDE DEF c
  <2>3. Opens(l) = 1 /\ Closes(l) = 0 /\ l \notin ElseOpen /\ l \notin ElseIfs /\ l \notin Closing /\ l \in LineKinds
    BY LineCounts, LineMembers
  <2>4. Follows(b, l, c)
    BY <1>1, <2>1, <2>3 DEF Follows
  <2>2. WellFormed(Append(s, l), c)
    BY <2>4, WellFormedGrows
  <2> QED
    BY <2>2 DEF c
<1>4. ASSUME b # <<>> PROVE WellFormed(Append(s, "}"), Front(b))
  <2> DEFINE c == Front(b)
  <2>1. c \in Seq(BlockKinds) /\ Len(c) = Len(b) - 1 /\ \A v \in 1..(Len(b) - 1) : c[v] = b[v]
    BY <1>1, <1>4, FrontFacts
  <2> HIDE DEF c
  <2>3. ASSUME NEW l \in LineKinds, Opens(l) = 0, Closes(l) = 1, l \notin ElseOpen, l \notin ElseIfs PROVE Follows(b, l, c)
    BY <1>1, <1>4, <2>1, <2>3 DEF Follows
  <2>4. Follows(b, "}", c)
    BY <2>3, LineCounts
  <2>2. WellFormed(Append(s, "}"), c)
    BY <2>4, WellFormedGrows
  <2> QED
    BY <2>2 DEF c
<1>5. ASSUME b # <<>>, Last(b) = "if" PROVE WellFormed(Append(s, "} else {"), Append(Front(b), "other"))
  <2> DEFINE f == Front(b)
             c == Append(f, "other")
  <2>1. f \in Seq(BlockKinds) /\ Len(f) = Len(b) - 1 /\ (\A v \in 1..(Len(b) - 1) : f[v] = b[v]) /\ b[Len(b)] = "if"
    BY <1>1, <1>5, FrontFacts
  <2> HIDE DEF f
  <2>2. c \in Seq(BlockKinds) /\ Len(c) = Len(f) + 1 /\ (\A v \in 1..Len(f) : c[v] = f[v]) /\ c[Len(f) + 1] = "other"
    BY <2>1, OtherKind, PushFacts
  <2> HIDE DEF c
  <2>3. Len(c) = Len(b) /\ (\A v \in 1..(Len(b) - 1) : c[v] = b[v]) /\ c[Len(c)] = "other"
    BY <1>1, <2>1, <2>2
  <2>6. ASSUME NEW l \in LineKinds, Opens(l) = 1, Closes(l) = 1 PROVE Follows(b, l, c)
    BY <1>1, <1>5, <2>1, <2>2, <2>3, <2>6 DEF Follows
  <2>5. Follows(b, "} else {", c)
    BY <2>6, LineCounts
  <2>4. WellFormed(Append(s, "} else {"), c)
    BY <2>5, WellFormedGrows
  <2> QED
    BY <2>4 DEF c, f
<1>6. ASSUME b # <<>>, Last(b) = "if" PROVE WellFormed(Append(s, "} else if"), b)
  <2>1. b[Len(b)] = "if"
    BY <1>1, <1>6, FrontFacts
  <2>3. ASSUME NEW l \in LineKinds, Opens(l) = 1, Closes(l) = 1, l \notin ElseOpen PROVE Follows(b, l, b)
    BY <1>1, <1>6, <2>1, <2>3 DEF Follows
  <2>2. Follows(b, "} else if", b)
    BY <2>3, LineCounts
  <2> QED
    BY <2>2, WellFormedGrows
<1>7. WellFormed(Append(s, "else {"), Append(b, "other"))
  <2> DEFINE c == Append(b, "other")
  <2>1. c \in Seq(BlockKinds) /\ Len(c) = Len(b) + 1 /\ (\A v \in 1..Len(b) : c[v] = b[v]) /\ c[Len(b) + 1] = "other"
    BY <1>1, OtherKind, PushFacts
  <2> HIDE DEF c
  <2>4. ASSUME NEW l \in LineKinds, Opens(l) = 1, Closes(l) = 0, l \notin ElseIfs, l \notin Closing PROVE Follows(b, l, c)
    BY <1>1, <2>1, <2>4 DEF Follows
  <2>3. Follows(b, "else {", c)
    BY <2>4, LineCounts
  <2>2. WellFormed(Append(s, "else {"), c)
    BY <2>3, WellFormedGrows
  <2> QED
    BY <2>2 DEF c
<1> QED
  BY <1>2, <1>3, <1>4, <1>5, <1>6, <1>7

-----------------------------------------------------------------------------
(* The actions. *)
\* The model's words for the file, in the terms of the lemmas.
LEMMA FileWords ==
    ASSUME source \in Seq(LineKinds)
    PROVE  /\ DOMAIN source = 1..Len(source) /\ Len(source) \in Nat
           /\ \A j : Depth(j) = LineDepth(source, j) /\ Nesting(j) = LineNesting(source, j)
           /\ \A j : InFlagBlock(j) <=> InBlockOf(source, j)
           /\ Plain <=> PlainFile(source)
           /\ \A c, i : writeLine(c, i) = WrittenLine(source, c, i)
           /\ \A o : findCloseBraceLine(o) = BlockCloseLine(source, o)
           /\ \A e : findCloseBraceFrom(e) = ElseCloseLine(source, e)
<1>1. DOMAIN source = 1..Len(source) /\ Len(source) \in Nat
  OBVIOUS
<1>2. ASSUME NEW j PROVE Depth(j) = LineDepth(source, j)
  BY Zenon DEF Depth, LineDepth, CountOf
<1>3. ASSUME NEW j PROVE Nesting(j) = LineNesting(source, j)
  <2>1. (IF source[j] \in Closing THEN 1 ELSE 0) = Closes(source[j])
    BY DEF Closes, OneIf
  <2> QED
    BY <1>2, <2>1 DEF Nesting, LineNesting
<1>4. ASSUME NEW j PROVE InFlagBlock(j) <=> InBlockOf(source, j)
  BY <1>3 DEF InFlagBlock, InBlockOf, BlockOpens
<1>5. Plain <=> PlainFile(source)
  BY <1>1 DEF Plain, PlainFile
<1>6. ASSUME NEW c, NEW i PROVE writeLine(c, i) = WrittenLine(source, c, i)
  BY DEF writeLine, WrittenLine
<1>7. ASSUME NEW o PROVE findCloseBraceLine(o) = BlockCloseLine(source, o)
  BY <1>2, Zenon DEF findCloseBraceLine, BlockCloseLine, ClosesOn, EndsOn, ClosesAt
<1>8. ASSUME NEW e PROVE findCloseBraceFrom(e) = ElseCloseLine(source, e)
  BY <1>2, Zenon DEF findCloseBraceFrom, ElseCloseLine, ClosesOn, EndsOn, ClosesAt
<1> QED
  BY <1>1, <1>2, <1>3, <1>4, <1>5, <1>6, <1>7, <1>8

LEMMA CleanupStarts == ASSUME CleanupInit PROVE CleanupInv
<1>1. source = <<>> /\ blocks = <<>> /\ at = 0 /\ elseClose = 0 /\ clean = <<>>
  BY DEF CleanupInit
<1>2. <<>> \in Seq(LineKinds) /\ <<>> \in Seq(BlockKinds) /\ Len(<<>>) = 0 /\ <<>> \in Seq(DOMAIN source)
  OBVIOUS
<1>3. WellFormed(<<>>, <<>>)
  <2>1. 1..0 = {} /\ 0..0 = {0}
    OBVIOUS
  <2> QED
    BY <1>2, <2>1, DepthStart DEF WellFormed
<1>4. CleanupTypeOK
  BY <1>1, <1>2, CleanupAssumption DEF CleanupTypeOK, BlockKinds
<1> QED
  BY <1>1, <1>3, <1>4 DEF CleanupInv

\* While the file is written only its form is at stake.
LEMMA FileGrows ==
    ASSUME CleanupInv, at = 0, UNCHANGED <<at, elseClose, clean>>,
           source' \in Seq(LineKinds), blocks' \in Seq(BlockKinds), Straight(source') => WellFormed(source', blocks'),
           Len(source') <= MaxLines, Len(blocks') <= MaxNesting
    PROVE  CleanupInv'
<1>1. clean = <<>> /\ elseClose = 0 /\ clean' = <<>> /\ elseClose' = 0 /\ at' = 0
  BY DEF CleanupInv
<1>3. <<>> \in Seq(DOMAIN source')
  OBVIOUS
<1>4. CleanupTypeOK'
  BY <1>1, <1>3, CleanupAssumption DEF CleanupTypeOK, BlockKinds
<1> QED
  BY <1>1, <1>4 DEF CleanupInv

\* The blocks that may be open.
Open(b) == b \in Seq(BlockKinds) /\ Len(b) <= MaxNesting

LEMMA NestingBound ==
    ASSUME NEW b \in Seq(BlockKinds), Len(b) <= MaxNesting
    PROVE  /\ Len(b) < MaxNesting => \A k \in BlockKinds : Open(Append(b, k))
           /\ b # <<>> => Open(Front(b)) /\ \A k \in BlockKinds : Open(Append(Front(b), k))
<1> USE DEF Open
<1>1. Len(b) \in Nat /\ \A k \in BlockKinds : Append(b, k) \in Seq(BlockKinds) /\ Len(Append(b, k)) = Len(b) + 1
  BY PushFacts
<1>2. ASSUME b # <<>>
      PROVE  /\ Front(b) \in Seq(BlockKinds) /\ Len(Front(b)) = Len(b) - 1
             /\ \A k \in BlockKinds : Append(Front(b), k) \in Seq(BlockKinds) /\ Len(Append(Front(b), k)) = Len(b)
  <2>1. Front(b) \in Seq(BlockKinds) /\ Len(Front(b)) = Len(b) - 1
    BY <1>2, FrontFacts
  <2>2. \A k \in BlockKinds : Append(Front(b), k) \in Seq(BlockKinds) /\ Len(Append(Front(b), k)) = Len(Front(b)) + 1
    BY <2>1, PushFacts
  <2> QED
    BY <1>1, <2>1, <2>2
<1> QED
  BY <1>1, <1>2, CleanupAssumption

LEMMA AddLineKeeps == ASSUME CleanupInv, NEW l \in LineKinds, AddLine(l) PROVE CleanupInv'
<1>1. /\ (Straight(source) => WellFormed(source, blocks)) /\ source \in Seq(LineKinds) /\ blocks \in Seq(BlockKinds)
      /\ Len(source) \in Nat /\ Len(blocks) \in Nat /\ Len(blocks) <= MaxNesting
  BY DEF CleanupInv, CleanupTypeOK, BlockKinds
<1>2. at = 0 /\ Len(source) < MaxLines /\ source' = Append(source, l) /\ UNCHANGED <<at, elseClose, clean>>
  BY DEF AddLine
<1>3. /\ source' \in Seq(LineKinds) /\ Len(source') <= MaxLines
      /\ Straight(source') => Straight(source) /\ l \notin InString
  <2>1. /\ Append(source, l) \in Seq(LineKinds) /\ Len(Append(source, l)) = Len(source) + 1
        /\ (\A i \in 1..Len(source) : Append(source, l)[i] = source[i]) /\ Append(source, l)[Len(source) + 1] = l
    BY <1>1, PushFacts
  <2>2. ASSUME Straight(source') PROVE Straight(source) /\ l \notin InString
    <3>1. Len(source) + 1 \in 1..(Len(source) + 1) /\ \A i \in 1..Len(source) : i \in 1..(Len(source) + 1)
      BY <1>1
    <3> QED
      BY <1>2, <2>1, <2>2, <3>1 DEF Straight
  <2> QED
    BY <1>1, <1>2, <2>1, <2>2, CleanupAssumption
<1>4. (Straight(source') => WellFormed(source', blocks')) /\ Open(blocks')
  <2>1. CASE l \in {"text", "blank"} \cup (Awkward \ {"flag if with literal"}) /\ UNCHANGED blocks
    <3>1. l \notin InString => l \in Neutral
      BY <2>1 DEF Neutral, Awkward, InString
    <3> QED
      BY <1>1, <1>2, <1>3, <2>1, <3>1, LineGrows DEF Open
  <2>2. CASE l \in {"flag if", "flag if with literal", "if"} /\ Push("if")
    <3>1. l \in Openers /\ blocks' = Append(blocks, "if") /\ Len(blocks) < MaxNesting
      BY <2>2 DEF Openers, Push
    <3>2. Open(blocks')
      BY <1>1, <3>1, OtherKind, NestingBound
    <3> QED
      BY <1>1, <1>2, <1>3, <3>1, <3>2, LineGrows, OtherKind
  <2>3. CASE l = "{" /\ Push("other")
    <3>1. l \in Openers /\ blocks' = Append(blocks, "other") /\ Len(blocks) < MaxNesting
      BY <2>3 DEF Openers, Push
    <3>2. Open(blocks')
      BY <1>1, <3>1, OtherKind, NestingBound
    <3> QED
      BY <1>1, <1>2, <1>3, <3>1, <3>2, LineGrows, OtherKind
  <2>4. CASE l = "} else {" /\ Inside("if") /\ blocks' = Append(Front(blocks), "other")
    <3>1. blocks # <<>> /\ Last(blocks) = "if"
      BY <2>4 DEF Inside
    <3>2. Open(blocks')
      BY <1>1, <2>4, <3>1, OtherKind, NestingBound
    <3> QED
      BY <1>1, <1>2, <1>3, <2>4, <3>1, <3>2, LineGrows
  <2>5. CASE l = "} else if" /\ Inside("if") /\ UNCHANGED blocks
    <3>1. blocks # <<>> /\ Last(blocks) = "if"
      BY <2>5 DEF Inside
    <3> QED
      BY <1>1, <1>2, <1>3, <2>5, <3>1, LineGrows DEF Open
  <2>6. CASE l = "}" /\ blocks # <<>> /\ blocks' = Front(blocks)
    <3>3. Open(blocks')
      BY <1>1, <2>6, NestingBound
    <3> QED
      BY <1>1, <1>2, <1>3, <2>6, <3>3, LineGrows
  <2> QED
    BY <2>1, <2>2, <2>3, <2>4, <2>5, <2>6 DEF AddLine
<1> QED
  BY <1>2, <1>3, <1>4, FileGrows DEF Open

LEMMA AddTwoLinesKeeps == ASSUME CleanupInv, AddTwoLines PROVE CleanupInv'
<1>1. /\ (Straight(source) => WellFormed(source, blocks)) /\ source \in Seq(LineKinds) /\ blocks \in Seq(BlockKinds)
      /\ Len(source) \in Nat /\ Len(blocks) \in Nat /\ Len(blocks) <= MaxNesting
  BY DEF CleanupInv, CleanupTypeOK, BlockKinds
<1>2. at = 0 /\ Len(source) + 1 < MaxLines /\ UNCHANGED <<at, elseClose, clean>>
  BY DEF AddTwoLines
<1>3. ASSUME NEW k \in LineKinds, NEW l \in LineKinds, source' = source \o <<k, l>>
      PROVE  /\ source' = Append(Append(source, k), l)
             /\ source' \in Seq(LineKinds) /\ Len(source') <= MaxLines /\ (Straight(source') => Straight(source))
  <2>1. source' = Append(Append(source, k), l)
    BY <1>1, <1>3, TwoLines
  <2>2. /\ Append(source, k) \in Seq(LineKinds) /\ Len(Append(source, k)) = Len(source) + 1
        /\ \A i \in 1..Len(source) : Append(source, k)[i] = source[i]
    BY <1>1, PushFacts
  <2>3. /\ Append(Append(source, k), l) \in Seq(LineKinds) /\ Len(Append(Append(source, k), l)) = Len(Append(source, k)) + 1
        /\ \A i \in 1..(Len(source) + 1) : Append(Append(source, k), l)[i] = Append(source, k)[i]
    BY <2>2, PushFacts
  <2>4. ASSUME Straight(source') PROVE Straight(source)
    <3>1. \A i \in 1..Len(source) : i \in 1..(Len(source) + 1) /\ i \in 1..((Len(source) + 1) + 1)
      BY <1>1
    <3> QED
      BY <2>1, <2>2, <2>3, <2>4, <3>1 DEF Straight
  <2> QED
    BY <1>1, <1>2, <2>1, <2>2, <2>3, <2>4, CleanupAssumption
<1>4. /\ source' \in Seq(LineKinds) /\ Len(source') <= MaxLines /\ Open(blocks')
      /\ Straight(source') => WellFormed(source', blocks')
  <2>1. CASE source' = source \o <<"bare flag if", "{">> /\ Push("if")
    <3>1. blocks' = Append(blocks, "if") /\ Len(blocks) < MaxNesting /\ "{" \in Openers /\ "bare flag if" \in Neutral
      BY <2>1 DEF Push, Openers, Neutral
    <3>3. Open(blocks')
      BY <1>1, <3>1, OtherKind, NestingBound
    <3>4. source' = Append(Append(source, "bare flag if"), "{") /\ source' \in Seq(LineKinds) /\ Len(source') <= MaxLines
          /\ (Straight(source') => Straight(source))
      BY <1>3, <2>1, LineCounts
    <3>5. ASSUME Straight(source) PROVE WellFormed(Append(source, "bare flag if"), blocks)
      BY <1>1, <3>1, <3>5, LineGrows
    <3>6. Straight(source) => WellFormed(Append(Append(source, "bare flag if"), "{"), Append(blocks, "if"))
      BY <3>1, <3>5, LineGrows, OtherKind
    <3> QED
      BY <3>1, <3>3, <3>4, <3>6
  <2>2. CASE source' = source \o <<"bare flag if", "text">> /\ UNCHANGED blocks
    <3>1. "text" \in Neutral /\ "bare flag if" \in Neutral
      BY DEF Neutral
    <3>2. source' = Append(Append(source, "bare flag if"), "text") /\ source' \in Seq(LineKinds) /\ Len(source') <= MaxLines
          /\ (Straight(source') => Straight(source))
      BY <1>3, <2>2, LineCounts
    <3>3. ASSUME Straight(source) PROVE WellFormed(Append(source, "bare flag if"), blocks)
      BY <1>1, <3>1, <3>3, LineGrows
    <3>4. Straight(source) => WellFormed(Append(Append(source, "bare flag if"), "text"), blocks)
      BY <3>1, <3>3, LineGrows
    <3> QED
      BY <1>1, <2>2, <3>2, <3>4 DEF Open
  <2>3. CASE /\ source' = source \o <<"}", "else {">>
             /\ Inside("if") /\ blocks' = Append(Front(blocks), "other")
    <3>1. blocks # <<>>
      BY <2>3 DEF Inside
    <3>4. Open(blocks')
      BY <1>1, <2>3, <3>1, OtherKind, NestingBound
    <3>5. source' = Append(Append(source, "}"), "else {") /\ source' \in Seq(LineKinds) /\ Len(source') <= MaxLines
          /\ (Straight(source') => Straight(source))
      BY <1>3, <2>3, LineCounts
    <3>6. ASSUME Straight(source) PROVE WellFormed(Append(source, "}"), Front(blocks))
      BY <1>1, <3>1, <3>6, LineGrows
    <3>7. Straight(source) => WellFormed(Append(Append(source, "}"), "else {"), Append(Front(blocks), "other"))
      BY <3>6, LineGrows
    <3> QED
      BY <2>3, <3>4, <3>5, <3>7
  <2> QED
    BY <2>1, <2>2, <2>3 DEF AddTwoLines
<1> QED
  BY <1>2, <1>4, FileGrows DEF Open

\* Once the cleanup runs the file stays, and what is written is at stake.
LEMMA CleaningGoesOn ==
    ASSUME CleanupInv, UNCHANGED <<source, blocks>>, blocks = <<>>, Cleaning(source, clean', at', elseClose')
    PROVE  CleanupInv'
<1>1. source \in Seq(LineKinds) /\ Len(source) \in Nat /\ Len(source) <= MaxLines /\ DOMAIN source = 1..Len(source)
  BY DEF CleanupInv, CleanupTypeOK
<1>2. /\ at' \in 1..(Len(source) + 1) /\ clean' \in Seq(1..Len(source))
      /\ elseClose' \in Nat /\ (elseClose' # 0 => at' <= elseClose' /\ elseClose' <= Len(source))
  BY DEF Cleaning
<1> DEFINE a == at'
           x == elseClose'
<1>3. a \in 0..(MaxLines + 1) /\ x \in 0..MaxLines /\ a # 0
  <2>1. a \in 1..(Len(source) + 1) /\ x \in Nat /\ (x # 0 => x <= Len(source))
    BY <1>2
  <2> HIDE DEF a, x
  <2> QED
    BY <1>1, <2>1, CleanupAssumption
<1>4. CleanupTypeOK'
  BY <1>1, <1>2, <1>3 DEF CleanupInv, CleanupTypeOK
<1> QED
  BY <1>3, <1>4 DEF CleanupInv

LEMMA StartEmpty == ASSUME NEW s \in Seq(LineKinds) PROVE Cleaning(s, <<>>, 1, 0)
<1>1. Len(s) \in Nat /\ <<>> \in Seq(1..Len(s)) /\ Len(<<>>) = 0 /\ 1..0 = {} /\ 1 - 1 = 0 /\ 1 \in 1..(Len(s) + 1)
  OBVIOUS
<1>2. LineDepth(ResultOf(s, <<>>), 0) = 0 /\ LineDepth(s, 0) = 0
  BY DepthStart
<1>3. Outer(0) = 0
  BY DEF Outer
<1> QED
  BY <1>1, <1>2, <1>3 DEF Cleaning, CleanTo, Increasing

LEMMA StartWhole ==
    ASSUME NEW s \in Seq(LineKinds), PlainFile(s) => WellFormed(s, <<>>), \A i \in 1..Len(s) : s[i] \notin FlagIf
    PROVE  Cleaning(s, [i \in 1..Len(s) |-> i], Len(s) + 1, 0)
<1> DEFINE c == [i \in 1..Len(s) |-> i]
           r == ResultOf(s, c)
<1>1. Len(s) \in Nat /\ (Len(s) + 1) - 1 = Len(s) /\ Len(s) + 1 \in 1..(Len(s) + 1)
  OBVIOUS
<1>2. c \in Seq(1..Len(s)) /\ Len(c) = Len(s) /\ \A i \in 1..Len(s) : c[i] = i
  BY <1>1
<1> HIDE DEF c
<1>3. Increasing(c, Len(s) + 1)
  <2>1. \A n \in 1..Len(c) : c[n] = n /\ n \in 1..Len(s) /\ n < Len(s) + 1
    BY <1>1, <1>2
  <2>2. \A n \in 1..Len(c) : c[n] < Len(s) + 1
    BY <2>1
  <2>3. \A m, n \in 1..Len(c) : m < n => c[m] < c[n]
    BY <2>1
  <2> QED
    BY <2>2, <2>3 DEF Increasing
<1>4. \A k \in 1..Len(s) : r[k] = s[k]
  BY <1>2 DEF ResultOf
<1> HIDE DEF r
<1>5. \A j \in 0..Len(s) : LineDepth(r, j) = LineDepth(s, j)
  <2> TAKE j \in 0..Len(s)
  <2>1. j \in Nat /\ \A k \in 1..j : r[k] = s[k]
    BY <1>1, <1>4
  <2> QED
    BY <2>1, DepthPrefix
<1>6. Outer(0) = 0 /\ LineDepth(s, Len(s)) \in Int
  BY <1>1, DepthType DEF Outer
<1>7. LineDepth(r, Len(c)) = LineDepth(s, (Len(s) + 1) - 1) - Outer(0)
  <2>1. Len(s) \in 0..Len(s)
    BY <1>1
  <2> QED
    BY <1>1, <1>2, <1>5, <1>6, <2>1
<1>8. PlainFile(s) => \A n \in 1..Len(c) : s[c[n]] \in Closing => LineDepth(r, n - 1) > 0
  <2> HAVE PlainFile(s)
  <2> TAKE n \in 1..Len(c)
  <2> HAVE s[c[n]] \in Closing
  <2>1. n \in 1..Len(s) /\ c[n] = n /\ n - 1 \in 0..Len(s) /\ n - 1 \in Nat
    BY <1>1, <1>2
  <2>2. LineDepth(s, n - 1) >= 1
    BY <2>1 DEF WellFormed
  <2> QED
    BY <1>5, <2>1, <2>2, DepthType
<1>9. \A j \in 1..((Len(s) + 1) - 1) : LineKept(s, c, j)
  <2> TAKE j \in 1..((Len(s) + 1) - 1)
  <2>1. j \in 1..Len(s)
    BY <1>1
  <2>2. Contains(c, j) /\ s[j] \notin FlagIf
    BY <1>2, <2>1 DEF Contains
  <2> QED
    BY <2>2 DEF LineKept
<1>10. PlainFile(s) => CleanTo(s, c, Len(s) + 1, 0)
  BY <1>7, <1>8, <1>9 DEF CleanTo, r
<1>11. Cleaning(s, c, Len(s) + 1, 0)
  BY <1>1, <1>2, <1>3, <1>10 DEF Cleaning
<1> QED
  BY <1>11 DEF c

LEMMA CleanupStartKeeps == ASSUME CleanupInv, StartCleanup PROVE CleanupInv'
<1>1. /\ source \in Seq(LineKinds) /\ DOMAIN source = 1..Len(source) /\ (Straight(source) => WellFormed(source, <<>>)) /\ blocks = <<>>
      /\ clean = <<>> /\ elseClose = 0 /\ elseClose' = 0 /\ UNCHANGED <<source, blocks>>
  BY DEF CleanupInv, CleanupTypeOK, StartCleanup
<1>2. Cleaning(source, clean', at', elseClose')
  <2>1. CASE \E i \in DOMAIN source : source[i] \in FlagIf
    <3>1. clean' = <<>> /\ at' = 1
      BY <1>1, <2>1 DEF StartCleanup
    <3> QED
      BY <1>1, <3>1, StartEmpty
  <2>2. CASE ~\E i \in DOMAIN source : source[i] \in FlagIf
    <3>1. clean' = [i \in 1..Len(source) |-> i] /\ at' = Len(source) + 1
      BY <1>1, <2>2 DEF StartCleanup
    <3> QED
      BY <1>1, <2>2, <3>1, StartWhole, PlainIsStraight
  <2> QED
    BY <2>1, <2>2
<1> QED
  BY <1>1, <1>2, CleaningGoesOn

-----------------------------------------------------------------------------
(* The scan. *)
\* In a plain file the block of an if on the flag on line a opens on the line or the next.
BlockIf == {"flag if", "bare flag if"}
OpenOf(s, a) == IF s[a] = "flag if" THEN a ELSE a + 1

LEMMA FlagBlock ==
    ASSUME NEW s, WellFormed(s, <<>>), PlainFile(s), NEW a \in 1..Len(s), s[a] \in BlockIf
    PROVE  /\ OpenOf(s, a) \in 1..Len(s) /\ OpenOf(s, a) \in {a, a + 1} /\ BlockOpens(s, OpenOf(s, a))
           /\ FirstOf({j \in a..Len(s) : s[j] \in Opening \cup Paired}) = OpenOf(s, a)
           /\ LineDepth(s, OpenOf(s, a) - 1) = LineDepth(s, a - 1)
           /\ LineDepth(s, OpenOf(s, a)) = LineDepth(s, a - 1) + 1
           /\ LineDepth(s, a - 1) \in Int /\ LineDepth(s, a - 1) >= 0
           /\ s[OpenOf(s, a)] \notin Closing \cup Paired /\ s[OpenOf(s, a)] \notin Statement /\ s[a] \notin Statement
<1> DEFINE o == OpenOf(s, a)
           S == {j \in a..Len(s) : s[j] \in Opening \cup Paired}
<1>1. s \in Seq(LineKinds) /\ Len(s) \in Nat /\ a \in Nat \ {0} /\ a + 1 \in Nat \ {0} /\ (a + 1) - 1 = a
  BY DEF WellFormed
<1>2. LineDepth(s, a - 1) \in Int /\ LineDepth(s, a - 1) >= 0
  <2>1. a - 1 \in 0..Len(s) /\ a - 1 \in Nat
    BY <1>1
  <2> QED
    BY <2>1, DepthType DEF WellFormed
<1>3. S \subseteq Nat /\ \A j : j \in S <=> j \in a..Len(s) /\ s[j] \in Opening \cup Paired
  BY <1>1
<1> HIDE DEF S
<1>4. S # {} => FirstOf(S) \in S /\ \A k \in S : FirstOf(S) <= k
  BY <1>3, FirstFacts
<1>5. CASE s[a] = "flag if"
  <2>1. o = a
    BY <1>5 DEF OpenOf
  <2>2. s[a] \in Opening /\ Opens(s[a]) = 1 /\ Closes(s[a]) = 0 /\ s[a] \notin Closing \cup Paired /\ s[a] \notin Statement
    BY <1>5 DEF Opens, Closes, OneIf, Opening, Closing, Paired, Statement
  <2>3. a \in S
    BY <1>1, <1>3, <2>2
  <2>4. FirstOf(S) = a
    BY <1>1, <1>3, <1>4, <2>3
  <2>5. LineDepth(s, a) = LineDepth(s, a - 1) + 1
    BY <1>1, <1>2, <2>2, DepthStep
  <2>6. BlockOpens(s, o)
    BY <1>5, <2>1 DEF BlockOpens
  <2> QED
    BY <1>2, <2>1, <2>2, <2>4, <2>5, <2>6 DEF S
<1>6. CASE s[a] # "flag if"
  <2>1. o = a + 1 /\ s[a] = "bare flag if"
    BY <1>6, Zenon DEF OpenOf, BlockIf
  <2>2. a < Len(s) /\ s[a + 1] = "{"
    BY <2>1 DEF PlainFile
  <2>3. /\ s[a] \notin Opening \cup Paired /\ Opens(s[a]) = 0 /\ Closes(s[a]) = 0 /\ s[a] \notin Statement
        /\ s[a + 1] \in Opening /\ Opens(s[a + 1]) = 1 /\ Closes(s[a + 1]) = 0 /\ s[a + 1] \notin Closing \cup Paired /\ s[a + 1] \notin Statement
    BY <2>1, <2>2 DEF Opens, Closes, OneIf, Opening, Closing, Paired, Statement
  <2>10. a < Len(s)
    BY <2>2
  <2>9. a + 1 \in a..Len(s) /\ a + 1 \in 1..Len(s) /\ a + 1 > 1
    BY <1>1, <2>10
  <2>4. a + 1 \in S /\ a \notin S
    BY <1>3, <2>3, <2>9
  <2>5. FirstOf(S) = a + 1
    BY <1>1, <1>3, <1>4, <2>4
  <2>6. LineDepth(s, a) = LineDepth(s, a - 1)
    BY <1>1, <1>2, <2>3, DepthStep
  <2>7. LineDepth(s, a + 1) = LineDepth(s, a) + 1
    BY <1>1, <1>2, <2>3, <2>6, DepthStep
  <2>8. BlockOpens(s, o) /\ a + 1 \in 1..Len(s)
    <3>1. s[a + 1] = "{" /\ a + 1 > 1 /\ s[(a + 1) - 1] = "bare flag if"
      BY <1>1, <2>1, <2>2, <2>9
    <3> QED
      BY <2>1, <2>9, <3>1 DEF BlockOpens
  <2> QED
    BY <1>1, <1>2, <2>1, <2>3, <2>5, <2>6, <2>7, <2>8 DEF S
<1> QED
  BY <1>5, <1>6

\* A line with a "{" and its "}" is taken for the whole block.
LEMMA OneLineBlock ==
    ASSUME source \in Seq(LineKinds), at \in 1..Len(source), source[at] \in Paired
    PROVE  BlockEnd = at /\ findOpenBraceLine(at) = at
<1>1. at \in Nat \ {0} /\ at - 1 \in Nat /\ Len(source) \in Nat
  OBVIOUS
<1>2. ASSUME NEW S, S \subseteq at..Len(source), at \in S PROVE FirstOf(S) = at
  <2>1. S \subseteq Nat /\ \A k \in S : at <= k
    BY <1>1, <1>2
  <2>2. FirstOf(S) \in S /\ FirstOf(S) <= at
    BY <1>2, <2>1, FirstFacts
  <2> DEFINE m == FirstOf(S)
  <2>3. m \in Nat /\ m <= at /\ at <= m
    BY <2>1, <2>2
  <2> HIDE DEF m
  <2>4. m = at
    BY <1>1, <2>3
  <2> QED
    BY <2>4 DEF m
<1>3. at \in at..Len(source)
  BY <1>1
<1>4. findOpenBraceLine(at) = at
  <2> DEFINE S == {j \in at..Len(source) : source[j] \in Opening \cup Paired}
  <2>1. S \subseteq at..Len(source) /\ at \in S
    BY <1>1, <1>3
  <2> HIDE DEF S
  <2>2. FirstOf(S) = at
    BY <1>2, <2>1
  <2> QED
    BY <2>2 DEF findOpenBraceLine, S
<1>5. findCloseBraceLine(at) = at
  <2> DEFINE S == {j \in at..Len(source) : EndsOn(source, j, LineDepth(source, at - 1) + 1)}
  <2>1. S \subseteq at..Len(source) /\ at \in S
    BY <1>1, <1>3 DEF EndsOn
  <2>2. findCloseBraceLine(at) = FirstOf(S)
    BY FileWords DEF BlockCloseLine
  <2> HIDE DEF S
  <2> QED
    BY <1>2, <2>1, <2>2
<1> QED
  BY <1>1, <1>4, <1>5 DEF BlockEnd

\* A line is written when it has no block to leave out: in a plain file, no if on the flag.
LEMMA WriteLineKeeps == ASSUME CleanupInv, WriteLine PROVE CleanupInv'
<1>1. source \in Seq(LineKinds) /\ at \in DOMAIN source /\ elseClose = 0
  BY DEF CleanupInv, CleanupTypeOK, WriteLine
<1>2. at \in 1..Len(source) /\ Len(source) \in Nat /\ at # 0
  BY <1>1
<1>3. blocks = <<>> /\ (PlainFile(source) => WellFormed(source, <<>>)) /\ Cleaning(source, clean, at, elseClose)
  BY <1>2, PlainIsStraight DEF CleanupInv
<1>4. ASSUME PlainFile(source) PROVE source[at] \notin FlagIf
  <2> SUFFICES ASSUME source[at] \in FlagIf PROVE FALSE
    OBVIOUS
  <2>0. source[at] \in BlockIf
    <3>1. source[at] # "flag if on one line"
      <4> SUFFICES ASSUME source[at] = "flag if on one line" PROVE FALSE
        OBVIOUS
      <4>1. BlockEnd # 0
        <5>1. source[at] \in Paired
          BY DEF Paired
        <5>2. BlockEnd = at
          BY <1>1, <1>2, <5>1, OneLineBlock
        <5> QED
          BY <1>2, <5>2, Zenon
      <4> QED
        BY <1>1, <4>1 DEF WriteLine, AtBlock
    <3> QED
      BY <1>2, <1>4, <3>1 DEF FlagIf, PlainFile, Misread, BlockIf
  <2> DEFINE o == OpenOf(source, at)
             v == LineDepth(source, at - 1) + 1
  <2>1. /\ o \in 1..Len(source) /\ FirstOf({j \in at..Len(source) : source[j] \in Opening \cup Paired}) = o
        /\ LineDepth(source, o - 1) = LineDepth(source, at - 1) /\ LineDepth(source, o) = v
        /\ v \in Int /\ v >= 1 /\ source[o] \notin Closing \cup Paired
    <3>1. /\ o \in 1..Len(source) /\ FirstOf({j \in at..Len(source) : source[j] \in Opening \cup Paired}) = o
          /\ LineDepth(source, o - 1) = LineDepth(source, at - 1) /\ LineDepth(source, o) = v
          /\ LineDepth(source, at - 1) \in Int /\ LineDepth(source, at - 1) >= 0 /\ source[o] \notin Closing \cup Paired
      BY <1>2, <1>3, <1>4, <2>0, FlagBlock, Zenon
    <3> QED
      BY <3>1
  <2>2. findOpenBraceLine(at) = o /\ o # 0
    BY <2>1 DEF findOpenBraceLine
  <2> HIDE DEF o, v
  <2>3. findCloseBraceLine(o) = CloseFrom(source, o, v)
    <3>1. findCloseBraceLine(o) = FirstOf({j \in o..Len(source) : EndsOn(source, j, LineDepth(source, o - 1) + 1)})
      BY <1>1, FileWords DEF BlockCloseLine
    <3>2. LineDepth(source, o - 1) + 1 = v
      BY <2>1 DEF v
    <3>3. ~EndsOn(source, o, v)
      BY <2>1 DEF EndsOn, ClosesAt
    <3>4. FirstOf({j \in o..Len(source) : EndsOn(source, j, v)}) = CloseFrom(source, o, v)
      BY <1>3, <1>4, <2>1, <3>3, FirstClose
    <3> QED
      BY <3>1, <3>2, <3>4
  <2>4. CloseFrom(source, o, v) \in Nat /\ o < CloseFrom(source, o, v)
    BY <1>3, <1>4, <2>1, BlockCloses
  <2>5. BlockEnd # 0
    BY <1>2, <2>1, <2>2, <2>3, <2>4 DEF BlockEnd
  <2> QED
    BY <1>1, <2>5 DEF WriteLine, AtBlock
<1>5. PlainFile(source) => (source[at] \in Closing => LineDepth(source, at - 1) - Outer(elseClose) >= 1)
  <2>1. Outer(elseClose) = 0
    BY <1>1 DEF Outer
  <2>2. at - 1 \in Nat
    BY <1>2
  <2>3. PlainFile(source) => (source[at] \in Closing => LineDepth(source, at - 1) >= 1)
    BY <1>2, <1>3 DEF WellFormed
  <2> QED
    BY <2>1, <2>2, <2>3, DepthType
<1>6. Cleaning(source, WrittenLine(source, clean, at), at + 1, elseClose)
  BY <1>1, <1>2, <1>3, <1>4, <1>5, WriteKeeps
<1>7. clean' = WrittenLine(source, clean, at) /\ at' = at + 1 /\ elseClose' = elseClose /\ UNCHANGED <<source, blocks>>
  BY <1>1, FileWords DEF WriteLine
<1> QED
  BY <1>3, <1>6, <1>7, CleaningGoesOn

LEMMA WriteElseKeeps == ASSUME CleanupInv, WriteElse PROVE CleanupInv'
<1>1. source \in Seq(LineKinds) /\ elseClose # 0 /\ Len(source) \in Nat /\ UNCHANGED <<source, blocks>> /\ at' = at + 1
  BY DEF CleanupInv, CleanupTypeOK, WriteElse
<1>2. blocks = <<>> /\ Cleaning(source, clean, at, elseClose)
  BY <1>1 DEF CleanupInv
<1>3. /\ at \in 1..(Len(source) + 1) /\ elseClose \in Nat /\ at <= elseClose /\ elseClose <= Len(source)
      /\ at \in Nat \ {0} /\ at - 1 \in Nat
  BY <1>1, <1>2 DEF Cleaning
<1>4. at \in 1..Len(source) /\ at + 1 \in 1..(Len(source) + 1) /\ (at + 1) - 1 = at
  BY <1>1, <1>3
<1> DEFINE s == source
           a == at
           x == elseClose
<1>5. PlainFile(s) => ElseAhead(s, a, x)
  BY <1>1, <1>2 DEF Cleaning
<1>6. Outer(x) = 1 /\ Outer(0) = 0
  BY <1>1 DEF Outer
<1>7. /\ LineDepth(s, a) = LineDepth(s, a - 1) + Opens(s[a]) - Closes(s[a])
      /\ LineDepth(s, a) \in Int /\ LineDepth(s, a - 1) \in Int /\ LineDepth(s, x - 1) \in Int
  <2>1. x - 1 \in Nat
    BY <1>3
  <2> QED
    BY <1>3, <2>1, DepthStep, DepthType
<1>8. CASE at < elseClose
  <2>1. a \in a..(x - 1) /\ a - 1 \in (a - 1)..(x - 1)
    BY <1>3, <1>8
  <2>2. ASSUME PlainFile(s) PROVE /\ s[a] \in Closing => LineDepth(s, a - 1) - Outer(x) >= 1
                                  /\ ~(s[a] \in FlagIf /\ LineNesting(s, a) = 0)
    <3>1. LineDepth(s, x - 1) >= 1 /\ LineDepth(s, a - 1) >= LineDepth(s, x - 1)
      BY <1>5, <2>1, <2>2 DEF ElseAhead
    <3>2. s[a] \in Closing => LineDepth(s, a - 1) >= LineDepth(s, x - 1) + 1
      BY <1>5, <2>1, <2>2 DEF ElseAhead
    <3>3. s[a] \in FlagIf => Closes(s[a]) = 0
      BY DEF FlagIf, Closes, OneIf, Closing
    <3> HIDE DEF s, a, x
    <3>4. s[a] \in FlagIf => LineNesting(s, a) >= 1
      BY <1>7, <3>1, <3>3 DEF LineNesting
    <3> QED
      BY <1>6, <1>7, <3>1, <3>2, <3>4
  <2>3. Cleaning(source, WrittenLine(source, clean, at), at + 1, elseClose)
    BY <1>1, <1>2, <1>4, <1>8, <2>2, WriteKeeps
  <2>4. clean' = WrittenLine(source, clean, at) /\ elseClose' = elseClose
    BY <1>1, <1>8, FileWords DEF WriteElse
  <2> QED
    BY <1>1, <1>2, <2>3, <2>4, CleaningGoesOn
<1>9. CASE ~(at < elseClose)
  <2>1. at = elseClose
    BY <1>3, <1>9
  <2>2. ASSUME PlainFile(s) PROVE /\ LineDepth(s, (a + 1) - 1) - Outer(0) = LineDepth(s, a - 1) - Outer(x)
                                  /\ \A j \in a..((a + 1) - 1) : s[j] \in Statement => InBlockOf(s, j)
    <3>1. s[a] = "}"
      BY <1>5, <2>1, <2>2 DEF ElseAhead
    <3>2. Opens(s[a]) = 0 /\ Closes(s[a]) = 1 /\ s[a] \notin Statement
      BY <3>1, LineCounts DEF Statement
    <3>3. a..((a + 1) - 1) = {a}
      BY <1>3
    <3> HIDE DEF s, a, x
    <3> QED
      BY <1>4, <1>6, <1>7, <3>2, <3>3 DEF a
  <2>3. Cleaning(source, clean, at + 1, 0)
    <3>1. at <= at + 1 /\ 0 \in Nat
      BY <1>3
    <3> QED
      BY <1>1, <1>2, <1>4, <2>2, <3>1, SkipKeeps
  <2>4. clean' = clean /\ elseClose' = 0
    BY <1>9 DEF WriteElse
  <2> QED
    BY <1>1, <1>2, <2>3, <2>4, CleaningGoesOn
<1> QED
  BY <1>8, <1>9

\* The lines of the block are in it.
LEMMA FlagBody ==
    ASSUME NEW s, NEW o \in Nat \ {0}, NEW v \in Int, NEW c \in Nat, BlockOpens(s, o), s[o] \notin Closing,
           LineDepth(s, o - 1) = v - 1,
           \A k \in o..(c - 1) : LineDepth(s, k) >= v,
           \A k \in (o + 1)..(c - 1) : s[k] \in Closing => LineDepth(s, k - 1) >= v + 1,
           NEW j \in (o + 1)..(c - 1)
    PROVE  InBlockOf(s, j)
<1>1. LineNesting(s, o) = v - 1
  <2>1. Closes(s[o]) = 0
    BY DEF Closes, OneIf
  <2> QED
    BY <2>1 DEF LineNesting
<1>2. ASSUME NEW k \in (o + 1)..j PROVE LineNesting(s, k) > LineNesting(s, o)
  <2>1. k \in (o + 1)..(c - 1) /\ k - 1 \in o..(c - 1) /\ k - 1 \in Nat
    OBVIOUS
  <2>2. LineDepth(s, k - 1) \in Int /\ LineDepth(s, k - 1) >= v
    BY <2>1, DepthType
  <2>3. CASE s[k] \in Closing
    <3>1. Closes(s[k]) = 1 /\ LineDepth(s, k - 1) >= v + 1
      BY <2>1, <2>3 DEF Closes, OneIf
    <3> QED
      BY <1>1, <2>2, <3>1 DEF LineNesting
  <2>4. CASE s[k] \notin Closing
    <3>1. Closes(s[k]) = 0
      BY <2>4 DEF Closes, OneIf
    <3> QED
      BY <1>1, <2>2, <3>1 DEF LineNesting
  <2> QED
    BY <2>3, <2>4
<1>3. o \in 1..(j - 1)
  OBVIOUS
<1> QED
  BY <1>2, <1>3 DEF InBlockOf

\* An else is closed by a line of its own.
LEMMA ElseCloses ==
    ASSUME NEW s, WellFormed(s, <<>>), PlainFile(s), NEW e \in 1..Len(s), s[e] \in ElseOpen,
           NEW v \in Int, LineDepth(s, e) = v, v >= 1
    PROVE  /\ CloseFrom(s, e, v) \in Nat /\ CloseFrom(s, e, v) # 0
           /\ ElseAhead(s, e + 1, CloseFrom(s, e, v))
<1> DEFINE x == CloseFrom(s, e, v)
<1>1. Len(s) \in Nat
  BY DEF WellFormed
<1>2. /\ x \in Nat /\ e < x /\ x <= Len(s) /\ ClosesAt(s, x, v)
      /\ \A k \in Nat : e < k /\ k < x => ~ClosesAt(s, k, v)
      /\ \A k \in e..(x - 1) : LineDepth(s, k) >= v
      /\ \A k \in (e + 1)..(x - 1) : s[k] \in Closing => LineDepth(s, k - 1) >= v + 1
  BY BlockCloses
<1> HIDE DEF x
<1>3. x \in 1..Len(s) /\ (e + 1) - 1 = e /\ x # 0
  BY <1>1, <1>2
<1>4. s[x] \in Closing /\ LineDepth(s, x - 1) = v
  BY <1>2 DEF ClosesAt
<1>5. s[x] \notin ElseIfs
  <2> SUFFICES ASSUME s[x] \in ElseIfs PROVE FALSE
    OBVIOUS
  <2>1. PICK k \in 1..(x - 1) : e < k /\ ClosesAt(s, k, LineDepth(s, e))
    BY <1>2, <1>3, <1>4 DEF WellFormed
  <2>2. k \in Nat /\ k < x
    BY <1>3
  <2> QED
    BY <1>2, <2>1, <2>2
<1>6. s[x] = "}"
  BY <1>3, <1>4, <1>5 DEF Closing, ElseIfs, PlainFile, Misread
<1>7. ElseAhead(s, e + 1, x)
  BY <1>2, <1>3, <1>4, <1>6 DEF ElseAhead
<1> QED
  BY <1>2, <1>3, <1>7 DEF x

\* What is left out of a plain file: a block, and what follows it up to the body of its else.
Left(s, a, b, y) ==
    /\ LineDepth(s, b - 1) - Outer(y) = LineDepth(s, a - 1) - Outer(0)
    /\ \A j \in a..(b - 1) : s[j] \in Statement => InBlockOf(s, j)
    /\ y # 0 => ElseAhead(s, b, y)

BlockClose(s, a) == CloseFrom(s, OpenOf(s, a), LineDepth(s, a - 1) + 1)

LEMMA BlockLeft ==
    ASSUME NEW s, WellFormed(s, <<>>), PlainFile(s), NEW a \in 1..Len(s), s[a] \in BlockIf
    PROVE  /\ LineDepth(s, BlockClose(s, a) - 1) = LineDepth(s, a - 1) + 1
           /\ s[BlockClose(s, a)] \in {"}", "} else {"}
           /\ \A j \in a..BlockClose(s, a) : s[j] \in Statement => InBlockOf(s, j)
<1> DEFINE o == OpenOf(s, a)
           v == LineDepth(s, a - 1) + 1
           c == BlockClose(s, a)
<1>0. c = CloseFrom(s, o, v)
  BY DEF BlockClose
<1>1. /\ o \in 1..Len(s) /\ o \in {a, a + 1} /\ BlockOpens(s, o)
      /\ LineDepth(s, o - 1) = LineDepth(s, a - 1) /\ LineDepth(s, o) = LineDepth(s, a - 1) + 1
      /\ LineDepth(s, a - 1) \in Int /\ LineDepth(s, a - 1) >= 0
      /\ s[o] \notin Closing \cup Paired /\ s[o] \notin Statement /\ s[a] \notin Statement
  BY FlagBlock, Zenon
<1>2. v \in Int /\ v >= 1 /\ LineDepth(s, o) = v /\ LineDepth(s, o - 1) = v - 1 /\ Len(s) \in Nat /\ o \in Nat \ {0}
  <2>1. Len(s) \in Nat
    BY DEF WellFormed
  <2> QED
    BY <1>1, <2>1
<1>3. /\ c \in Nat /\ o < c /\ c <= Len(s) /\ ClosesAt(s, c, v)
      /\ \A k \in o..(c - 1) : LineDepth(s, k) >= v
      /\ \A k \in (o + 1)..(c - 1) : s[k] \in Closing => LineDepth(s, k - 1) >= v + 1
  <2> HIDE DEF c, o, v
  <2>1. o \in 1..Len(s)
    BY <1>1
  <2>2. v \in Int /\ LineDepth(s, o) = v /\ v >= 1
    BY <1>2
  <2> QED
    BY <1>0, <2>1, <2>2, BlockCloses
<1> HIDE DEF c, o
<1>4. s[c] \in Closing /\ LineDepth(s, c - 1) = v
  BY <1>3 DEF ClosesAt
<1>5. c \in 1..Len(s) /\ c # 0
  BY <1>2, <1>3
<1>6. s[c] = "}" \/ s[c] = "} else {"
  BY <1>4, <1>5 DEF Closing, PlainFile, Misread
<1>7. ASSUME NEW j \in a..c, s[j] \in Statement PROVE InBlockOf(s, j)
  <2>1. j # a /\ j # o /\ j # c
    BY <1>1, <1>6, <1>7 DEF Statement
  <2>2. j \in (o + 1)..(c - 1)
    BY <1>1, <1>2, <1>3, <2>1
  <2> QED
    BY <1>1, <1>2, <1>3, <2>2, FlagBody
<1>8. s[c] \in {"}", "} else {"}
  BY <1>6
<1> QED
  BY <1>4, <1>7, <1>8 DEF c

\* Behind the block closed on line c, or behind the line e of its else.
LEMMA LeftWithoutElse ==
    ASSUME NEW s, NEW a \in Nat \ {0}, NEW c \in Nat \ {0}, LineDepth(s, a - 1) \in Int,
           LineDepth(s, c - 1) = LineDepth(s, a - 1) + 1,
           \A j \in a..c : s[j] \in Statement => InBlockOf(s, j), Opens(s[c]) = 0, Closes(s[c]) = 1
    PROVE  Left(s, a, c + 1, 0)
<1>2. LineDepth(s, c) = LineDepth(s, a - 1)
  BY DepthStep
<1>3. (c + 1) - 1 = c
  OBVIOUS
<1> QED
  BY <1>2, <1>3 DEF Left

LEMMA LeftWithElse ==
    ASSUME NEW s, WellFormed(s, <<>>), PlainFile(s), NEW a \in Nat \ {0}, LineDepth(s, a - 1) \in Int, LineDepth(s, a - 1) >= 0,
           NEW e \in 1..Len(s), s[e] \in ElseOpen, LineDepth(s, e) = LineDepth(s, a - 1) + 1,
           \A j \in a..e : s[j] \in Statement => InBlockOf(s, j)
    PROVE  /\ CloseFrom(s, e, LineDepth(s, e)) # 0
           /\ Left(s, a, e + 1, CloseFrom(s, e, LineDepth(s, e)))
<1> DEFINE v == LineDepth(s, e)
           x == CloseFrom(s, e, v)
<1>1. v \in Int /\ v >= 1
  OBVIOUS
<1>2. x \in Nat /\ x # 0 /\ ElseAhead(s, e + 1, x)
  <2> HIDE DEF v
  <2>1. LineDepth(s, e) = v
    BY DEF v
  <2> QED
    BY <1>1, <2>1, ElseCloses
<1> HIDE DEF x
<1>3. Outer(x) = 1 /\ Outer(0) = 0
  BY <1>2 DEF Outer
<1>4. (e + 1) - 1 = e
  OBVIOUS
<1>5. LineDepth(s, e) - Outer(x) = LineDepth(s, a - 1) - Outer(0)
  BY <1>3
<1>6. Left(s, a, e + 1, x)
  BY <1>2, <1>4, <1>5 DEF Left
<1> QED
  BY <1>2, <1>6 DEF x

LEMMA ElseLineFacts ==
    ASSUME source \in Seq(LineKinds), NEW c \in 1..Len(source)
    PROVE  /\ \/ ElseLine(c) = 0
              \/ ElseLine(c) = c
              \/ ElseLine(c) = c + 1 /\ c + 1 <= Len(source)
           /\ ElseLine(c) = 0 /\ source[c] \in {"}", "} else {"} => source[c] = "}"
           /\ ElseLine(c) = c => source[c] \in ElseIfs \cup {"flag if and else on one line"}
           /\ ElseLine(c) = c + 1 => source[c] = "}" /\ source[c + 1] = "else {"
<1>1. Len(source) \in Nat /\ c \in Nat /\ c # 0 /\ c + 1 # 0 /\ c # c + 1 /\ (c < Len(source) => c + 1 <= Len(source))
  OBVIOUS
<1> DEFINE later == source[c] = "}" /\ c < Len(source) /\ source[c + 1] = "else {"
<1>2. CASE source[c] \in ElseIfs \cup {"flag if and else on one line"}
  <2>1. ElseLine(c) = c
    BY <1>2 DEF ElseLine, ElseIfs
  <2> QED
    BY <1>1, <1>2, <2>1, Zenon
<1>3. CASE source[c] \notin ElseIfs \cup {"flag if and else on one line"} /\ later
  <2>1. ElseLine(c) = c + 1
    BY <1>3 DEF ElseLine, ElseIfs
  <2> QED
    BY <1>1, <1>3, <2>1, Zenon
<1>4. CASE source[c] \notin ElseIfs \cup {"flag if and else on one line"} /\ ~later
  <2>1. ElseLine(c) = 0
    BY <1>4 DEF ElseLine, ElseIfs
  <2>2. source[c] \in {"}", "} else {"} => source[c] = "}"
    BY <1>4 DEF ElseIfs
  <2> QED
    BY <1>1, <2>1, <2>2, Zenon
<1> QED
  BY <1>2, <1>3, <1>4

LEMMA RemoveBlockKeeps == ASSUME CleanupInv, RemoveBlock PROVE CleanupInv'
<1> DEFINE s == source
           c == BlockEnd
           e == ElseLine(BlockEnd)
           y == findElseBlock(e)
           x == IF y > e THEN y ELSE 0
           b == (IF y # 0 THEN e ELSE c) + 1
<1>1. /\ s \in Seq(LineKinds) /\ at \in 1..Len(s) /\ s[at] \in FlagIf /\ c # 0 /\ Len(s) \in Nat /\ at # 0
      /\ elseClose = 0 /\ UNCHANGED <<source, blocks, clean>> /\ at' = b /\ elseClose' = x
  <2>1. s \in Seq(LineKinds) /\ at \in DOMAIN s /\ s[at] \in FlagIf /\ c # 0
    BY DEF CleanupInv, CleanupTypeOK, RemoveBlock, AtBlock
  <2>2. elseClose = 0 /\ UNCHANGED <<source, blocks, clean>> /\ at' = b /\ elseClose' = x
    BY DEF RemoveBlock
  <2> QED
    BY <2>1, <2>2
<1>2. blocks = <<>> /\ (PlainFile(s) => WellFormed(s, <<>>)) /\ Cleaning(s, clean, at, 0)
  BY <1>1, PlainIsStraight DEF CleanupInv
<1> DEFINE o == findOpenBraceLine(at)
<1>3. o \in at..Len(s) /\ c = BlockCloseLine(s, o)
  <2>1. o # 0 /\ c = findCloseBraceLine(o)
    BY <1>1 DEF BlockEnd
  <2> DEFINE S == {j \in at..Len(source) : source[j] \in Opening \cup Paired}
  <2>2. S \subseteq Nat /\ S \subseteq at..Len(s)
    BY <1>1
  <2>3. o = FirstOf(S)
    BY DEF findOpenBraceLine
  <2> HIDE DEF S
  <2>4. o \in S
    BY <2>1, <2>2, <2>3, FirstFacts
  <2> QED
    BY <1>1, <2>1, <2>2, <2>4, FileWords
<1>4. c \in 1..Len(s) /\ at <= c
  <2>1. o \in 1..Len(s)
    BY <1>1, <1>3
  <2>2. c \in Nat /\ o <= c /\ c <= Len(s)
    BY <1>1, <1>3, <2>1, CloseLines
  <2> HIDE DEF o, c
  <2> QED
    BY <1>1, <1>3, <2>1, <2>2
<1>5. /\ e = 0 \/ e = c \/ (e = c + 1 /\ c + 1 <= Len(s))
      /\ e = 0 /\ s[c] \in {"}", "} else {"} => s[c] = "}"
      /\ e = c => s[c] \in ElseIfs \cup {"flag if and else on one line"}
      /\ e = c + 1 => s[c] = "}" /\ s[c + 1] = "else {"
  BY <1>1, <1>4, ElseLineFacts, Zenon
<1>6. y = IF e = 0 THEN 0 ELSE ElseCloseLine(s, e)
  BY <1>1, FileWords DEF findElseBlock
<1> HIDE DEF c, e, y, o
<1>11. e \in Nat /\ (e = 0 \/ e = c \/ e = c + 1) /\ (e # 0 => e \in 1..Len(s))
  <2>1. e = 0 \/ e = c \/ (e = c + 1 /\ c + 1 <= Len(s))
    BY <1>5
  <2> QED
    BY <1>1, <1>4, <2>1
<1>7. y \in Nat /\ y <= Len(s) /\ (y # 0 => e # 0)
  <2>1. CASE e = 0
    BY <1>1, <1>6, <2>1
  <2>2. CASE e # 0
    BY <1>1, <1>6, <1>11, <2>2, CloseLines
  <2> QED
    BY <2>1, <2>2
<1>12. x \in Nat /\ x <= Len(s) /\ (x # 0 => x = y /\ y # 0 /\ e < x)
  BY <1>1, <1>7, <1>11
<1> HIDE DEF x
<1>8. b \in 1..(Len(s) + 1) /\ at <= b /\ (x # 0 => b <= x /\ x <= Len(s))
  <2>1. CASE y # 0
    <3>1. b = e + 1 /\ (e = c \/ e = c + 1)
      BY <1>7, <1>11, <2>1
    <3> HIDE DEF b
    <3>2. e \in 1..Len(s)
      BY <1>7, <1>11, <2>1
    <3> QED
      BY <1>1, <1>4, <1>12, <3>1, <3>2
  <2>2. CASE y = 0
    <3>1. b = c + 1 /\ x = 0
      BY <1>12, <2>2
    <3> HIDE DEF b
    <3> QED
      BY <1>1, <1>4, <3>1
  <2> QED
    BY <2>1, <2>2
<1>13. ASSUME PlainFile(s), s[at] = "flag if on one line" PROVE Left(s, at, b, x)
  <2>1. c = at
    <3>1. source[at] \in Paired
      BY <1>13, Zenon DEF Paired
    <3> QED
      BY <1>1, <3>1, OneLineBlock DEF c
  <2>2. e = 0
    BY <1>5, <1>13, <2>1, <1>11 DEF ElseIfs
  <2>3. x = 0 /\ b = at + 1 /\ at \in Nat \ {0} /\ (at + 1) - 1 = at /\ at..at = {at}
    BY <1>1, <1>6, <1>12, <2>1, <2>2
  <2>4. Opens(s[at]) = 0 /\ Closes(s[at]) = 0 /\ s[at] \notin Statement
    BY <1>13 DEF Opens, Closes, OneIf, Opening, Closing, Statement
  <2>5. LineDepth(s, at) = LineDepth(s, at - 1)
    BY <2>3, <2>4, DepthStep
  <2> HIDE DEF b
  <2> QED
    BY <2>3, <2>4, <2>5 DEF Left
<1>9. ASSUME PlainFile(s), s[at] # "flag if on one line" PROVE Left(s, at, b, x)
  <2>0. s[at] \in BlockIf /\ WellFormed(s, <<>>)
    BY <1>1, <1>2, <1>9 DEF FlagIf, PlainFile, Misread, BlockIf
  <2>1. /\ o = OpenOf(s, at) /\ LineDepth(s, o - 1) = LineDepth(s, at - 1)
        /\ LineDepth(s, at - 1) \in Int /\ LineDepth(s, at - 1) >= 0
        /\ LineDepth(s, o) = LineDepth(s, at - 1) + 1 /\ s[o] \notin Closing \cup Paired
    <3>1. o = FirstOf({j \in at..Len(s) : s[j] \in Opening \cup Paired})
      BY DEF o, findOpenBraceLine
    <3>2. /\ FirstOf({j \in at..Len(s) : s[j] \in Opening \cup Paired}) = OpenOf(s, at)
          /\ LineDepth(s, OpenOf(s, at) - 1) = LineDepth(s, at - 1)
          /\ LineDepth(s, at - 1) \in Int /\ LineDepth(s, at - 1) >= 0
          /\ LineDepth(s, OpenOf(s, at)) = LineDepth(s, at - 1) + 1 /\ s[OpenOf(s, at)] \notin Closing \cup Paired
      BY <1>1, <1>9, <2>0, FlagBlock, Zenon
    <3>3. o = OpenOf(s, at)
      BY <3>1, <3>2, Zenon
    <3> QED
      BY <3>2, <3>3, Zenon
  <2>2. c = BlockClose(s, at)
    <3> DEFINE v == LineDepth(s, at - 1) + 1
    <3>1. o \in 1..Len(s) /\ v \in Int /\ v >= 1 /\ LineDepth(s, o) = v /\ LineDepth(s, o - 1) + 1 = v
      BY <1>1, <1>3, <2>1
    <3> HIDE DEF v
    <3>2. ~EndsOn(s, o, v)
      BY <2>1 DEF EndsOn, ClosesAt
    <3>3. FirstOf({j \in o..Len(s) : EndsOn(s, j, v)}) = CloseFrom(s, o, v)
      BY <2>0, <3>1, <3>2, FirstClose
    <3>4. c = FirstOf({j \in o..Len(s) : EndsOn(s, j, v)})
      BY <1>3, <3>1 DEF BlockCloseLine
    <3>5. OpenOf(s, at) = o
      BY <2>1
    <3>6. BlockClose(s, at) = CloseFrom(s, o, v)
      BY <3>5 DEF BlockClose, v
    <3> QED
      BY <3>3, <3>4, <3>6
  <2>3. /\ LineDepth(s, c - 1) = LineDepth(s, at - 1) + 1
        /\ s[c] \in {"}", "} else {"}
        /\ \A j \in at..c : s[j] \in Statement => InBlockOf(s, j)
    BY <1>1, <1>9, <2>0, <2>2, BlockLeft, Zenon
  <2>4. c \in Nat \ {0} /\ at \in Nat \ {0} /\ c + 1 \in Nat \ {0} /\ (c + 1) - 1 = c
    BY <1>1, <1>4
  <2>5. CASE e = 0
    <3>1. x = 0 /\ s[c] = "}"
      BY <1>5, <1>6, <1>12, <2>3, <2>5
    <3>3. Opens(s[c]) = 0 /\ Closes(s[c]) = 1
      BY <3>1, LineCounts
    <3>2. Left(s, at, c + 1, 0)
      BY <2>1, <2>3, <2>4, <3>3, LeftWithoutElse
    <3> QED
      BY <1>6, <2>5, <3>1, <3>2
  <2>6. ASSUME e \in 1..Len(s), s[e] \in ElseOpen, LineDepth(s, e) = LineDepth(s, at - 1) + 1,
               \A j \in at..e : s[j] \in Statement => InBlockOf(s, j), e # 0
        PROVE  Left(s, at, b, x)
    <3>1. CloseFrom(s, e, LineDepth(s, e)) # 0 /\ Left(s, at, e + 1, CloseFrom(s, e, LineDepth(s, e)))
      BY <1>9, <2>0, <2>1, <2>4, <2>6, LeftWithElse
    <3> DEFINE v == LineDepth(s, e)
    <3>2. v \in Int /\ v >= 1 /\ v = LineDepth(s, e)
      BY <2>1, <2>6
    <3> HIDE DEF v
    <3>3. FirstOf({j \in (e + 1)..Len(s) : EndsOn(s, j, v)}) = CloseFrom(s, e, v)
      <4>1. e + 1 \in {e, e + 1} /\ e + 1 # e
        BY <1>11
      <4>2. LineDepth(s, e) = v /\ v >= 1 /\ v \in Int /\ e \in 1..Len(s)
        BY <2>6, <3>2
      <4> QED
        BY <2>0, <4>1, <4>2, FirstClose
    <3>4. y = FirstOf({j \in (e + 1)..Len(s) : EndsOn(s, j, v)})
      BY <1>6, <2>6, <3>2 DEF ElseCloseLine, ElseOpen
    <3>5. y = CloseFrom(s, e, LineDepth(s, e)) /\ y # 0
      BY <3>1, <3>2, <3>3, <3>4
    <3>6. e < y
      BY <1>1, <1>11, <2>6, <3>1, <3>5, CloseFacts
    <3>7. b = e + 1 /\ x = y
      BY <1>7, <1>11, <3>5, <3>6 DEF x
    <3> HIDE DEF b
    <3> QED
      BY <3>1, <3>5, <3>7
  <2>7. CASE e = c /\ e # 0
    <3>1. s[c] = "} else {" /\ s[e] \in ElseOpen
      BY <1>5, <2>3, <2>7 DEF ElseOpen, ElseIfs
    <3>2. Opens(s[c]) = 1 /\ Closes(s[c]) = 1
      BY <3>1, LineCounts
    <3>3. LineDepth(s, c) = LineDepth(s, c - 1)
      BY <2>4, <3>2, DepthStep
    <3> QED
      BY <1>4, <2>3, <2>6, <2>7, <3>1, <3>3
  <2>8. CASE e = c + 1 /\ e # 0
    <3>1. s[c] = "}" /\ s[c + 1] = "else {" /\ s[e] \in ElseOpen /\ s[e] \notin Statement
      BY <1>5, <2>8 DEF ElseOpen, Statement
    <3>2. Opens(s[c]) = 0 /\ Closes(s[c]) = 1 /\ Opens(s[c + 1]) = 1 /\ Closes(s[c + 1]) = 0
      BY <3>1, LineCounts
    <3>3. LineDepth(s, c + 1) = LineDepth(s, c - 1)
      <4>1. LineDepth(s, c) = LineDepth(s, c - 1) - 1 /\ LineDepth(s, c - 1) \in Int
        BY <2>4, <3>2, DepthStep
      <4>2. LineDepth(s, c + 1) = LineDepth(s, c) + 1
        BY <2>4, <3>2, <4>1, DepthStep
      <4> QED
        BY <4>1, <4>2
    <3>4. \A j \in at..e : j \in at..c \/ j = e
      BY <1>1, <2>4, <2>8
    <3>5. e \in 1..Len(s)
      BY <1>11, <2>8
    <3>6. \A j \in at..e : s[j] \in Statement => InBlockOf(s, j)
      BY <2>3, <3>1, <3>4
    <3> QED
      BY <2>3, <2>6, <2>8, <3>1, <3>3, <3>5, <3>6
  <2> QED
    BY <1>11, <2>5, <2>7, <2>8
<1> HIDE DEF b
<1>10. Cleaning(s, clean, b, x)
  <2>1. PlainFile(s) => /\ LineDepth(s, b - 1) - Outer(x) = LineDepth(s, at - 1) - Outer(0)
                        /\ \A j \in at..(b - 1) : s[j] \in Statement => InBlockOf(s, j)
                        /\ x # 0 => ElseAhead(s, b, x)
    BY <1>9, <1>13 DEF Left
  <2> QED
    BY <1>1, <1>2, <1>8, <1>12, <2>1, SkipKeeps
<1> QED
  BY <1>1, <1>2, <1>10, CleaningGoesOn

-----------------------------------------------------------------------------
LEMMA CleanupKeeps == ASSUME CleanupInv, [CleanupNext]_cleanupVars PROVE CleanupInv'
<1>1. CASE UNCHANGED cleanupVars
  BY <1>1 DEF cleanupVars, CleanupInv, CleanupTypeOK
<1>2. CASE CleanupNext
  BY <1>2, AddLineKeeps, AddTwoLinesKeeps, CleanupStartKeeps, WriteLineKeeps, RemoveBlockKeeps, WriteElseKeeps DEF CleanupNext
<1> QED
  BY <1>1, <1>2

LEMMA CleanIsSound == ASSUME CleanupInv PROVE CleanCodeSound
<1> SUFFICES ASSUME at = Len(source) + 1, Plain
             PROVE  /\ Balanced
                    /\ \A m, n \in DOMAIN clean : m < n => clean[m] < clean[n]
                    /\ \A j \in DOMAIN source :
                          /\ source[j] \in Statement /\ ~InFlagBlock(j) => Contains(clean, j)
                          /\ source[j] \in FlagIf /\ Nesting(j) = 0 => ~Contains(clean, j)
  BY DEF CleanCodeSound
<1>1. source \in Seq(LineKinds) /\ Len(source) \in Nat /\ DOMAIN source = 1..Len(source) /\ at # 0
  BY DEF CleanupInv, CleanupTypeOK
<1>2. blocks = <<>> /\ WellFormed(source, <<>>) /\ Cleaning(source, clean, at, elseClose) /\ PlainFile(source)
  BY <1>1, FileWords, PlainIsStraight DEF CleanupInv
<1>3. /\ clean \in Seq(1..Len(source)) /\ Len(clean) \in Nat /\ DOMAIN clean = 1..Len(clean)
      /\ Increasing(clean, at) /\ elseClose = 0 /\ CleanTo(source, clean, at, 0)
  BY <1>1, <1>2 DEF Cleaning
<1> DEFINE r == ResultOf(source, clean)
<1>4. ASSUME NEW n \in 0..Len(clean) PROVE Balance(n) = LineDepth(r, n)
  <2>1. \A m \in 1..n : r[m] = source[clean[m]]
    BY <1>3 DEF ResultOf
  <2> HIDE DEF r
  <2>2. /\ {m \in 1..n : source[clean[m]] \in Opening} = {m \in 1..n : r[m] \in Opening}
        /\ {m \in 1..n : source[clean[m]] \in Closing} = {m \in 1..n : r[m] \in Closing}
    BY <2>1
  <2> QED
    BY <2>2 DEF Balance, LineDepth, CountOf
<1>5. LineDepth(source, Len(source)) = 0
  <2>1. Len(<<>>) = 0
    OBVIOUS
  <2> QED
    BY <1>2, <2>1 DEF WellFormed
<1>6. at - 1 = Len(source) /\ Outer(0) = 0
  BY <1>1 DEF Outer
<1>7. LineDepth(r, Len(clean)) = 0
  BY <1>3, <1>5, <1>6 DEF CleanTo
<1>8. Balanced
  <2>1. Len(clean) \in 0..Len(clean) /\ \A n \in 1..Len(clean) : n - 1 \in 0..Len(clean)
    BY <1>3
  <2>2. Balance(Len(clean)) = 0
    BY <1>4, <1>7, <2>1
  <2>3. \A n \in 1..Len(clean) : source[clean[n]] \in Closing => Balance(n - 1) > 0
    BY <1>3, <1>4, <2>1 DEF CleanTo
  <2> QED
    BY <1>3, <2>2, <2>3 DEF Balanced
<1>9. \A m, n \in DOMAIN clean : m < n => clean[m] < clean[n]
  BY <1>3 DEF Increasing
<1>10. ASSUME NEW j \in 1..Len(source)
       PROVE  /\ source[j] \in Statement /\ ~InFlagBlock(j) => Contains(clean, j)
              /\ source[j] \in FlagIf /\ Nesting(j) = 0 => ~Contains(clean, j)
  <2>1. LineKept(source, clean, j)
    BY <1>3, <1>6 DEF CleanTo
  <2> QED
    BY <1>1, <2>1, FileWords DEF LineKept
<1> QED
  BY <1>1, <1>8, <1>9, <1>10

\* GenerateCleanCode: whatever plain file is given, every brace of the result has its partner,
\* lines keep their order, no statement outside the flag's blocks is lost, and no outer `if'
\* on the flag is left.
THEOREM CleanedCodeIsSound == CleanupSpec => []CleanCodeSound
<1>1. CleanupInit => CleanupInv
  BY CleanupStarts
<1>2. CleanupInv /\ [CleanupNext]_cleanupVars => CleanupInv'
  BY CleanupKeeps
<1>3. CleanupInv => CleanCodeSound
  BY CleanIsSound
<1> QED
  BY <1>1, <1>2, <1>3, PTL DEF CleanupSpec

-----------------------------------------------------------------------------
(***************************************************************************)
(* The branches of a repository.                                             *)
(***************************************************************************)
CommitNumbers == 1..MaxCommits
GitPcs == {"ok", "error", "start", "exists", "branch", "commit", "update", "pr"}
GitCallRow == [op : GitOps \union {"none"}, branch : GitBranches, pc : GitPcs, head : Seq(CommitNumbers)]

LEMMA GitTypes ==
    GitProvidersTypeOK <=>
        /\ gitHost \in GitHosts /\ gitBranch \in [GitBranches -> Seq(CommitNumbers) \union {Absent}]
        /\ gitPRs \subseteq GitBranches /\ gitCall \in [GitCalls -> GitCallRow]
        /\ gitCommits \in 0..MaxCommits /\ gitFaults \in 0..MaxGitFaults
BY DEF GitProvidersTypeOK, CommitNumbers, GitPcs, GitCallRow

\* A line of commits begins every longer one.
LEMMA AppendedLine ==
    ASSUME NEW s \in Seq(CommitNumbers), NEW n \in CommitNumbers
    PROVE  Append(s, n) \in Seq(CommitNumbers) /\ Append(s, n) # <<>> /\ IsPrefix(s, Append(s, n))
<1>1. Append(s, n) \in Seq(CommitNumbers) /\ Len(Append(s, n)) = Len(s) + 1 /\ Len(s) \in Nat
  OBVIOUS
<1>2. \A i \in 1..Len(s) : Append(s, n)[i] = s[i]
  OBVIOUS
<1>3. SubSeq(s, 1, Len(s)) = SubSeq(Append(s, n), 1, Len(s))
  BY <1>1, <1>2
<1>4. Len(Append(s, n)) # 0 /\ Len(s) <= Len(Append(s, n))
  <2> DEFINE k == Len(s)
             m == Len(Append(s, n))
  <2>1. m = k + 1 /\ k \in Nat
    BY <1>1
  <2> HIDE DEF k, m
  <2>2. m # 0 /\ k <= m
    BY <2>1
  <2> QED
    BY <2>2 DEF k, m
<1>5. Append(s, n) # <<>>
  BY <1>4
<1> QED
  BY <1>1, <1>3, <1>4, <1>5 DEF IsPrefix

LEMMA SameLine ==
    ASSUME NEW s \in Seq(CommitNumbers) PROVE IsPrefix(s, s)
BY DEF IsPrefix

LEMMA FrontOfLine ==
    ASSUME NEW s \in Seq(CommitNumbers), s # <<>> PROVE IsPrefix(Front(s), s)
<1>1. Len(s) \in Nat \ {0}
  OBVIOUS
<1>2. /\ Front(s) \in Seq(CommitNumbers) /\ Len(Front(s)) = Len(s) - 1
      /\ \A i \in 1..(Len(s) - 1) : Front(s)[i] = s[i]
  BY <1>1 DEF Front
<1>3. SubSeq(Front(s), 1, Len(Front(s))) = SubSeq(s, 1, Len(Front(s)))
  BY <1>1, <1>2
<1> QED
  BY <1>1, <1>2, <1>3 DEF IsPrefix

\* What a step does to the branches: the call's branch goes, comes or grows.
BranchGrows(c) ==
    \E s \in Seq(CommitNumbers) \union {Absent} :
        /\ gitBranch' = [gitBranch EXCEPT ![gitCall[c].branch] = s]
        /\ Branch(c) = Absent \/ s = Absent \/ IsPrefix(Branch(c), s)

LEMMA GrownBranch ==
    ASSUME GitProvidersInv, NEW c \in GitCalls, BranchGrows(c)
    PROVE  /\ gitBranch' \in [GitBranches -> Seq(CommitNumbers) \union {Absent}]
           /\ \A b \in GitBranches : \/ gitBranch[b] = Absent \/ gitBranch'[b] = Absent
                                     \/ IsPrefix(gitBranch[b], gitBranch'[b])
<1>1. /\ gitBranch \in [GitBranches -> Seq(CommitNumbers) \union {Absent}] /\ gitCall[c].branch \in GitBranches
  BY GitTypes DEF GitProvidersInv, GitCallRow
<1>2. PICK s \in Seq(CommitNumbers) \union {Absent} :
        /\ gitBranch' = [gitBranch EXCEPT ![gitCall[c].branch] = s]
        /\ Branch(c) = Absent \/ s = Absent \/ IsPrefix(Branch(c), s)
  BY DEF BranchGrows
<1>3. \A b \in GitBranches : gitBranch'[b] = IF b = gitCall[c].branch THEN s ELSE gitBranch[b]
  BY <1>1, <1>2
<1>4. \A b \in GitBranches : gitBranch[b] = Absent \/ IsPrefix(gitBranch[b], gitBranch[b])
  BY <1>1, SameLine
<1>5. gitBranch' \in [GitBranches -> Seq(CommitNumbers) \union {Absent}]
  BY <1>1, <1>2
<1> QED
  BY <1>2, <1>3, <1>4, <1>5 DEF Branch

\* What a step does to the call: another step, with what it has read.
CallMoves(c) ==
    \E q \in GitCallRow : gitCall' = [gitCall EXCEPT ![c] = q] /\ (q.pc = "update" => q.head # <<>>)

LEMMA CallMoved ==
    ASSUME GitProvidersInv, NEW c \in GitCalls, CallMoves(c)
    PROVE  /\ gitCall' \in [GitCalls -> GitCallRow]
           /\ \A d \in GitCalls : gitCall'[d].pc = "update" => gitCall'[d].head # <<>>
<1>1. PICK q \in GitCallRow : gitCall' = [gitCall EXCEPT ![c] = q] /\ (q.pc = "update" => q.head # <<>>)
  BY DEF CallMoves
<1>2. gitCall \in [GitCalls -> GitCallRow] /\ \A d \in GitCalls : gitCall[d].pc = "update" => gitCall[d].head # <<>>
  BY GitTypes DEF GitProvidersInv
<1>3. \A d \in GitCalls : gitCall'[d] = IF d = c THEN q ELSE gitCall[d]
  BY <1>1, <1>2
<1> QED
  BY <1>1, <1>2, <1>3

LEMMA CallTo ==
    ASSUME GitProvidersInv, NEW c \in GitCalls, NEW pc \in GitPcs \ {"update"}, Call(c, pc)
    PROVE  CallMoves(c)
<1>1. gitCall \in [GitCalls -> GitCallRow]
  BY GitTypes DEF GitProvidersInv
<1>2. gitCall[c] \in GitCallRow
  BY <1>1
<1> DEFINE q == [gitCall[c] EXCEPT !.pc = pc]
<1>3. q \in GitCallRow /\ q.pc = pc
  BY <1>2 DEF GitCallRow
<1>4. gitCall' = [gitCall EXCEPT ![c] = q]
  BY <1>1 DEF Call
<1> QED
  BY <1>3, <1>4 DEF CallMoves

\* A call that ends or goes on without having touched a branch, or that moved one.
BranchMoves(c) == UNCHANGED gitBranch \/ BranchGrows(c)

LEMMA GitMoved ==
    ASSUME GitProvidersInv, NEW c \in GitCalls, BranchMoves(c), CallMoves(c), UNCHANGED gitHost,
           gitPRs' \subseteq GitBranches, gitCommits' \in 0..MaxCommits, gitFaults' \in 0..MaxGitFaults
    PROVE  /\ GitProvidersInv'
           /\ \A b \in GitBranches : \/ gitBranch[b] = Absent \/ gitBranch'[b] = Absent
                                     \/ IsPrefix(gitBranch[b], gitBranch'[b])
<1>0. gitHost \in GitHosts /\ gitBranch \in [GitBranches -> Seq(CommitNumbers) \union {Absent}]
  BY GitTypes DEF GitProvidersInv
<1>1. /\ gitBranch' \in [GitBranches -> Seq(CommitNumbers) \union {Absent}]
      /\ \A b \in GitBranches : \/ gitBranch[b] = Absent \/ gitBranch'[b] = Absent
                                \/ IsPrefix(gitBranch[b], gitBranch'[b])
  <2>1. CASE UNCHANGED gitBranch
    BY <1>0, <2>1, SameLine
  <2>2. CASE BranchGrows(c)
    BY <2>2, GrownBranch
  <2> QED
    BY <2>1, <2>2 DEF BranchMoves
<1>2. GitProvidersTypeOK'
  <2>1. gitHost' \in GitHosts /\ gitCall' \in [GitCalls -> GitCallRow]
    BY <1>0, CallMoved
  <2> QED
    BY <1>1, <2>1 DEF GitProvidersTypeOK, CommitNumbers, GitPcs, GitCallRow
<1> QED
  BY <1>1, <1>2, CallMoved DEF GitProvidersInv

LEMMA GitFacts ==
    ASSUME GitProvidersInv, NEW c \in GitCalls
    PROVE  /\ gitHost \in GitHosts /\ gitPRs \subseteq GitBranches /\ gitCommits \in 0..MaxCommits
           /\ gitFaults \in 0..MaxGitFaults /\ MaxCommits \in Nat /\ MaxGitFaults \in Nat
           /\ gitCall \in [GitCalls -> GitCallRow]
           /\ gitCall[c] \in GitCallRow /\ gitCall[c].branch \in GitBranches /\ gitCall[c].head \in Seq(CommitNumbers)
           /\ gitCall[c].pc = "update" => gitCall[c].head # <<>>
           /\ Branch(c) \in Seq(CommitNumbers) \union {Absent}
           /\ AfterCommit(c) \in GitPcs \ {"update"}
           /\ {"ok", "error", "exists", "branch", "commit", "start"} \subseteq GitPcs \ {"update"}
<1>1. MaxCommits \in Nat /\ MaxGitFaults \in Nat
  BY GitProvidersAssumption DEF GitProvidersAssumption
<1>2. AfterCommit(c) \in GitPcs \ {"update"} /\ {"ok", "error", "exists", "branch", "commit", "start"} \subseteq GitPcs \ {"update"}
  BY DEF AfterCommit, GitPcs
<1>3. gitCall \in [GitCalls -> GitCallRow] /\ gitBranch \in [GitBranches -> Seq(CommitNumbers) \union {Absent}]
  BY GitTypes DEF GitProvidersInv
<1>4. gitCall[c] \in GitCallRow /\ gitCall[c].branch \in GitBranches /\ gitCall[c].head \in Seq(CommitNumbers)
  BY <1>3 DEF GitCallRow
<1> QED
  BY <1>1, <1>2, <1>3, <1>4, GitTypes DEF GitProvidersInv, Branch

\* The branch is set to a line that goes on from what it was.
LEMMA SetGrows ==
    ASSUME NEW c, NEW s \in Seq(CommitNumbers) \union {Absent}, SetBranch(c, s),
           Branch(c) = Absent \/ s = Absent \/ IsPrefix(Branch(c), s)
    PROVE  BranchMoves(c)
BY DEF SetBranch, BranchGrows, BranchMoves

GitOutcome ==
    /\ GitProvidersInv'
    /\ \A b \in GitBranches : \/ gitBranch[b] = Absent \/ gitBranch'[b] = Absent
                              \/ IsPrefix(gitBranch[b], gitBranch'[b])

LEMMA StartKeepsLines ==
    ASSUME GitProvidersInv, NEW c \in GitCalls, StartCall(c) PROVE GitOutcome
<1>1. PICK op \in GitOps, b \in GitBranches :
          gitCall' = [gitCall EXCEPT ![c] =
             [op |-> op, branch |-> b, head |-> <<>>,
              pc |-> CASE op \in {"commit", "createPR"} -> IF gitHost = "gitlab" THEN "commit" ELSE "exists"
                       [] OTHER -> "start"]]
  BY DEF StartCall
<1> DEFINE pc == CASE op \in {"commit", "createPR"} -> IF gitHost = "gitlab" THEN "commit" ELSE "exists"
                   [] OTHER -> "start"
           q == [op |-> op, branch |-> b, head |-> <<>>, pc |-> pc]
<1>2. pc \in {"commit", "exists", "start"}
  OBVIOUS
<1>3. pc \in GitPcs \ {"update"} /\ <<>> \in Seq(CommitNumbers) /\ op \in GitOps \union {"none"}
  BY <1>2, GitFacts
<1> HIDE DEF pc
<1>4. q \in GitCallRow /\ q.pc # "update"
  BY <1>3 DEF GitCallRow
<1>5. CallMoves(c)
  BY <1>1, <1>4 DEF CallMoves, pc
<1> QED
  BY <1>5, GitFacts, GitMoved DEF StartCall, BranchMoves, GitOutcome

LEMMA HostKeepsLines ==
    ASSUME GitProvidersInv, NEW c \in GitCalls,
           APIFails(c) \/ CreatePullRequest(c) \/ UpdatePullRequest(c) \/ MergePullRequest(c)
    PROVE  GitOutcome
<1>1. UNCHANGED <<gitHost, gitBranch, gitCommits>>
  BY DEF APIFails, CreatePullRequest, UpdatePullRequest, MergePullRequest, InCall
<1>2. gitPRs' \subseteq GitBranches
  BY GitFacts DEF APIFails, CreatePullRequest, UpdatePullRequest, MergePullRequest
<1>3. gitFaults' \in 0..MaxGitFaults
  BY GitFacts DEF APIFails, CreatePullRequest, UpdatePullRequest, MergePullRequest
<1>4. \E pc \in GitPcs \ {"update"} : Call(c, pc)
  BY GitFacts DEF APIFails, CreatePullRequest, UpdatePullRequest, MergePullRequest
<1>5. CallMoves(c)
  BY <1>4, CallTo
<1> QED
  BY <1>1, <1>2, <1>3, <1>5, GitFacts, GitMoved DEF BranchMoves, GitOutcome

LEMMA BranchKeepsLines ==
    ASSUME GitProvidersInv, NEW c \in GitCalls, CreateBranch(c) \/ DeleteBranch(c) \/ MakeBranch(c)
    PROVE  GitOutcome
<1>1. UNCHANGED <<gitHost, gitCommits, gitFaults>> /\ gitPRs' \subseteq GitBranches
  BY GitFacts DEF CreateBranch, DeleteBranch, MakeBranch, InCall
<1>2. BranchMoves(c)
  <2>1. CASE Branch(c) = Absent /\ SetBranch(c, <<>>)
    <3>1. <<>> \in Seq(CommitNumbers) \union {Absent}
      OBVIOUS
    <3> QED
      BY <2>1, <3>1, SetGrows
  <2>2. CASE SetBranch(c, Absent)
    BY <2>2, SetGrows
  <2>3. CASE UNCHANGED gitBranch
    BY <2>3 DEF BranchMoves
  <2> QED
    BY <2>1, <2>2, <2>3 DEF CreateBranch, DeleteBranch, MakeBranch
<1>3. \E pc \in GitPcs \ {"update"} : Call(c, pc)
  BY GitFacts DEF CreateBranch, DeleteBranch, MakeBranch
<1>4. CallMoves(c)
  BY <1>3, CallTo
<1> QED
  BY <1>1, <1>2, <1>4, GitFacts, GitMoved DEF GitOutcome

LEMMA ExistsKeepsLines ==
    ASSUME GitProvidersInv, NEW c \in GitCalls, BranchExists(c) PROVE GitOutcome
<1>1. UNCHANGED <<gitHost, gitBranch, gitPRs, gitCommits, gitFaults>>
  BY DEF BranchExists, InCall
<1>2. CASE Call(c, "branch")
  <2>1. CallMoves(c)
    BY <1>2, CallTo, GitFacts
  <2> QED
    BY <1>1, <2>1, GitFacts, GitMoved DEF BranchMoves, GitOutcome
<1>3. CASE Branch(c) # Absent /\ gitCall' = [gitCall EXCEPT ![c].pc = "commit", ![c].head = Branch(c)]
  <2> DEFINE q == [gitCall[c] EXCEPT !.pc = "commit", !.head = Branch(c)]
  <2>1. q \in GitCallRow /\ q.pc = "commit"
    BY <1>3, GitFacts DEF GitCallRow
  <2>2. gitCall' = [gitCall EXCEPT ![c] = q]
    BY <1>3, GitFacts
  <2>3. CallMoves(c)
    BY <2>1, <2>2 DEF CallMoves
  <2> QED
    BY <1>1, <2>3, GitFacts, GitMoved DEF BranchMoves, GitOutcome
<1> QED
  BY <1>2, <1>3 DEF BranchExists

LEMMA BuildKeepsLines ==
    ASSUME GitProvidersInv, NEW c \in GitCalls, BuildCommit(c) PROVE GitOutcome
<1>1. /\ UNCHANGED <<gitHost, gitBranch, gitPRs, gitFaults>> /\ gitCommits < MaxCommits /\ gitCommits' = gitCommits + 1
      /\ gitCall' = [gitCall EXCEPT ![c].pc = "update", ![c].head = Append(@, gitCommits')]
  BY DEF BuildCommit, InCall
<1>2. gitCommits' \in 0..MaxCommits /\ gitCommits' \in CommitNumbers
  BY <1>1, GitFacts DEF CommitNumbers
<1> DEFINE line == Append(gitCall[c].head, gitCommits')
           q == [gitCall[c] EXCEPT !.pc = "update", !.head = line]
<1>3. line \in Seq(CommitNumbers) /\ line # <<>>
  BY <1>2, GitFacts, AppendedLine
<1>4. gitCall' = [gitCall EXCEPT ![c] = q]
  BY <1>1, GitFacts
<1> HIDE DEF line
<1>5. q \in GitCallRow /\ q.head = line
  BY <1>3, GitFacts DEF GitCallRow, GitPcs
<1>6. CallMoves(c)
  BY <1>3, <1>4, <1>5 DEF CallMoves
<1> QED
  BY <1>1, <1>2, <1>6, GitFacts, GitMoved DEF BranchMoves, GitOutcome

LEMMA UpdateKeepsLines ==
    ASSUME GitProvidersInv, NEW c \in GitCalls, UpdateRef(c) PROVE GitOutcome
<1>1. /\ UNCHANGED <<gitHost, gitPRs, gitCommits, gitFaults>> /\ gitCall[c].pc = "update"
      /\ \/ Branch(c) = Front(gitCall[c].head) /\ SetBranch(c, gitCall[c].head)
         \/ UNCHANGED gitBranch
      /\ Call(c, AfterCommit(c)) \/ Call(c, "error")
  BY DEF UpdateRef, InCall
<1>2. BranchMoves(c)
  <2>1. CASE Branch(c) = Front(gitCall[c].head) /\ SetBranch(c, gitCall[c].head)
    <3>1. IsPrefix(Front(gitCall[c].head), gitCall[c].head)
      BY <1>1, GitFacts, FrontOfLine
    <3> QED
      BY <2>1, <3>1, GitFacts, SetGrows
  <2>2. CASE UNCHANGED gitBranch
    BY <2>2 DEF BranchMoves
  <2> QED
    BY <1>1, <2>1, <2>2
<1>3. CallMoves(c)
  BY <1>1, CallTo, GitFacts
<1> QED
  BY <1>1, <1>2, <1>3, GitFacts, GitMoved DEF GitOutcome

LEMMA CommitKeepsLines ==
    ASSUME GitProvidersInv, NEW c \in GitCalls, CommitFiles(c) PROVE GitOutcome
<1>1. UNCHANGED <<gitHost, gitPRs, gitFaults>> /\ (Call(c, AfterCommit(c)) \/ Call(c, "error"))
  BY DEF CommitFiles, InCall
<1>2. CallMoves(c)
  BY <1>1, CallTo, GitFacts
<1>3. CASE /\ gitCommits < MaxCommits /\ gitCommits' = gitCommits + 1
           /\ SetBranch(c, IF Branch(c) = Absent THEN <<gitCommits'>> ELSE Append(Branch(c), gitCommits'))
  <2>1. gitCommits' \in 0..MaxCommits /\ gitCommits' \in CommitNumbers
    BY <1>3, GitFacts DEF CommitNumbers
  <2>2. CASE Branch(c) = Absent
    <3>1. <<gitCommits'>> \in Seq(CommitNumbers) \union {Absent} /\ SetBranch(c, <<gitCommits'>>)
      BY <1>3, <2>1, <2>2
    <3>2. BranchMoves(c)
      BY <2>2, <3>1, SetGrows
    <3> QED
      BY <1>1, <1>2, <2>1, <3>2, GitFacts, GitMoved DEF GitOutcome
  <2>3. CASE Branch(c) # Absent
    <3> DEFINE line == Append(Branch(c), gitCommits')
    <3>1. line \in Seq(CommitNumbers) /\ IsPrefix(Branch(c), line) /\ SetBranch(c, line)
      BY <1>3, <2>1, <2>3, GitFacts, AppendedLine
    <3>2. line \in Seq(CommitNumbers) \union {Absent}
      BY <3>1
    <3>3. BranchMoves(c)
      BY <3>1, <3>2, SetGrows
    <3> QED
      BY <1>1, <1>2, <2>1, <3>3, GitFacts, GitMoved DEF GitOutcome
  <2> QED
    BY <2>2, <2>3
<1>4. CASE UNCHANGED <<gitBranch, gitCommits>>
  BY <1>1, <1>2, <1>4, GitFacts, GitMoved DEF BranchMoves, GitOutcome
<1> QED
  BY <1>3, <1>4 DEF CommitFiles

LEMMA GitKeeps == GitProvidersInv /\ GitProvidersNext => GitOutcome
<1> SUFFICES ASSUME GitProvidersInv, NEW c \in GitCalls, GitHubStep(c) \/ GitLabStep(c) \/ BitbucketStep(c)
             PROVE  GitOutcome
  BY DEF GitProvidersNext
<1> QED
  BY StartKeepsLines, HostKeepsLines, BranchKeepsLines, ExistsKeepsLines, BuildKeepsLines, UpdateKeepsLines,
     CommitKeepsLines DEF GitHubStep, GitLabStep, BitbucketStep, GitStep

LEMMA GitStays == GitProvidersInv /\ UNCHANGED gitVars => GitProvidersInv'
BY DEF gitVars, GitProvidersInv, GitProvidersTypeOK

LEMMA InitGit == GitProvidersInit => GitProvidersInv
<1> SUFFICES ASSUME GitProvidersInit PROVE GitProvidersInv
  OBVIOUS
<1>1. (CHOOSE b \in GitBranches : TRUE) \in GitBranches /\ MaxCommits \in Nat /\ MaxGitFaults \in Nat
  BY GitProvidersAssumption DEF GitProvidersAssumption
<1>2. <<>> \in Seq(CommitNumbers) /\ "ok" \in GitPcs
  BY DEF GitPcs
<1>3. IdleCall \in GitCallRow /\ IdleCall.pc = "ok"
  BY <1>1, <1>2 DEF IdleCall, GitCallRow
<1>4. GitProvidersTypeOK
  BY <1>1, <1>3, GitTypes DEF GitProvidersInit
<1> QED
  BY <1>3, <1>4 DEF GitProvidersInit, GitProvidersInv

\* The calls and the branches keep their types, and a commit about to be put on a branch has
\* the line it was built on (janitor/github, gitlab, bitbucket: CommitFiles).
THEOREM GitProvidersInductive == GitProvidersSpec => []GitProvidersInv
BY InitGit, GitKeeps, GitStays, PTL DEF GitProvidersSpec, GitOutcome

\* Whatever calls overlap, and whichever answers are lost, a commit is only ever lost with its
\* branch (github/provider.go: UpdateRef without force).
THEOREM NoCommitIsLost == GitProvidersSpec => NoCommitLost
<1>1. GitProvidersInv /\ [GitProvidersNext]_gitVars =>
        [\A b \in GitBranches : \/ gitBranch[b] = Absent \/ gitBranch'[b] = Absent
                                \/ IsPrefix(gitBranch[b], gitBranch'[b])]_gitBranch
  BY GitKeeps DEF GitOutcome, gitVars
<1> QED
  BY <1>1, GitProvidersInductive, PTL DEF GitProvidersSpec, NoCommitLost

=============================================================================
