------------------------------ MODULE DNSZone ------------------------------
(***************************************************************************)
(* The DNS page of the operations portal (ops-portal handlers/dns.go and     *)
(* cloudflare/client.go): the A records of the zone are listed, created and   *)
(* updated by hand, and "synced" with the clusters' addresses.  A sync reads  *)
(* the records, then the clusters, then sends one request per record; it      *)
(* looks at no answer, and another request may come between any two.          *)
(* Cloudflare (external) refuses a record that is there already.              *)
(***************************************************************************)
EXTENDS Naturals, FiniteSets

CONSTANTS
    DNSClusters,    \* clusters; the record of c is c.api.featuresignals.com
    DNSOthers,      \* other names of the zone
    DNSAddresses,   \* public addresses
    Syncs,          \* sync requests
    MaxRecords,     \* bound: records ever made
    MaxDNSEdits,    \* bound: changes by hand, of the zone or of a cluster
    MaxDNSFaults    \* bound: requests to Cloudflare that fail

ASSUME DNSZoneAssumption ==
    /\ IsFiniteSet(DNSClusters) /\ IsFiniteSet(DNSOthers) /\ IsFiniteSet(DNSAddresses)
    /\ DNSClusters \intersect DNSOthers = {} /\ IsFiniteSet(Syncs)
    /\ MaxRecords \in Nat /\ MaxDNSEdits \in Nat /\ MaxDNSFaults \in Nat

VARIABLES
    zone,       \* the A records: id, name, content
    clusterIPs, \* clusterIPs[c]: its address, or "decommissioned"
    sync,       \* sync[s]: where the request is, and what it has read
    recordId,   \* the last id given
    dnsEdits, dnsFaults

dnsVars == <<zone, clusterIPs, sync, recordId, dnsEdits, dnsFaults>>

DNSNames == DNSClusters \union DNSOthers
DNSRecords == [id : 1..MaxRecords, name : DNSNames, content : DNSAddresses]
NoSync == [pc |-> "idle", existing |-> {}, todo |-> {}, ips |-> [c \in DNSClusters |-> "decommissioned"],
           quiet |-> TRUE, found |-> {}]

DNSZoneTypeOK ==
    /\ zone \subseteq DNSRecords
    /\ clusterIPs \in [DNSClusters -> DNSAddresses \union {"decommissioned"}]
    /\ \A s \in Syncs :
          /\ sync[s].pc \in {"idle", "clusters", "ensure", "delete", "done", "error"}
          /\ sync[s].existing \subseteq DNSRecords /\ sync[s].found \subseteq DNSRecords
          /\ sync[s].todo \subseteq DNSClusters /\ sync[s].quiet \in BOOLEAN
          /\ sync[s].ips \in [DNSClusters -> DNSAddresses \union {"decommissioned"}]
    /\ recordId \in 0..MaxRecords
    /\ dnsEdits \in 0..MaxDNSEdits /\ dnsFaults \in 0..MaxDNSFaults

DNSZoneInit ==
    /\ zone = {} /\ recordId = 0
    /\ clusterIPs \in [DNSClusters -> DNSAddresses]
    /\ sync = [s \in Syncs |-> NoSync]
    /\ dnsEdits = 0 /\ dnsFaults = 0

-----------------------------------------------------------------------------
\* Cloudflare: an identical record is refused; an id that is gone is an error.
Holds(n, a) == \E r \in zone : r.name = n /\ r.content = a

PostRecord(n, a) ==
    \/ /\ ~Holds(n, a) /\ recordId < MaxRecords /\ recordId' = recordId + 1
       /\ zone' = zone \union {[id |-> recordId', name |-> n, content |-> a]}
    \/ Holds(n, a) /\ UNCHANGED <<zone, recordId>>

\* A request that fails changes nothing; only the caller could know.
CloudflareFails ==
    /\ dnsFaults < MaxDNSFaults /\ dnsFaults' = dnsFaults + 1
    /\ UNCHANGED <<zone, recordId>>

\* History: a change of the zone or of a cluster disturbs the syncs under way.
Disturbed(s) == IF sync[s].pc \in {"idle", "done", "error"} THEN sync[s]
                ELSE [sync[s] EXCEPT !.quiet = FALSE]

DNSEdit ==
    /\ dnsEdits < MaxDNSEdits /\ dnsEdits' = dnsEdits + 1
    /\ sync' = [s \in Syncs |-> Disturbed(s)] /\ UNCHANGED dnsFaults

\* Create and Update by hand.
CreateRecord ==
    /\ DNSEdit
    /\ \E n \in DNSNames, a \in DNSAddresses : PostRecord(n, a)
    /\ UNCHANGED clusterIPs

UpdateRecord ==
    /\ DNSEdit
    /\ \E r \in zone, a \in DNSAddresses :
          /\ ~Holds(r.name, a)
          /\ zone' = (zone \ {r}) \union {[r EXCEPT !.content = a]}
    /\ UNCHANGED <<recordId, clusterIPs>>

\* The cluster is provisioned anew or decommissioned (Clusters).
ClusterMoves ==
    /\ DNSEdit
    /\ \E c \in DNSClusters, a \in DNSAddresses \union {"decommissioned"} :
          clusterIPs' = [clusterIPs EXCEPT ![c] = a]
    /\ UNCHANGED <<zone, recordId>>

-----------------------------------------------------------------------------
\* `existing' maps the name without ".featuresignals.com" to a record: of several
\* records with one name it holds the last.
OnePerName(set) ==
    {e \in SUBSET set : /\ \A r \in set : \E q \in e : q.name = r.name
                        /\ \A q, r \in e : q.name = r.name => q = r}

\* The keys are names without their domain and the clusters are looked up with it
\* ("eu.api" against "eu.api.featuresignals.com"): nothing is found, the branch
\* that would update a record and keep it is never taken.
ExistingKey(r) == [name |-> r.name, domain |-> FALSE]
RecordName(c) == [name |-> c, domain |-> TRUE]
ExistingRecord(s, c) == {r \in sync[s].existing : ExistingKey(r) = RecordName(c)}

SyncList(s) ==
    /\ sync[s].pc = "idle"
    /\ \E existing \in OnePerName(zone) :
          sync' = [sync EXCEPT ![s] = [NoSync EXCEPT !.pc = "clusters", !.existing = existing, !.found = zone]]
    /\ UNCHANGED <<zone, clusterIPs, recordId, dnsEdits, dnsFaults>>

SyncListFails(s) ==
    /\ sync[s].pc = "idle" /\ CloudflareFails
    /\ sync' = [sync EXCEPT ![s].pc = "error"]
    /\ UNCHANGED <<clusterIPs, dnsEdits>>

SyncClusters(s) ==
    /\ sync[s].pc = "clusters"
    /\ sync' = [sync EXCEPT ![s].pc = "ensure", ![s].ips = clusterIPs,
                            ![s].todo = {c \in DNSClusters : clusterIPs[c] # "decommissioned"}]
    /\ UNCHANGED <<zone, clusterIPs, recordId, dnsEdits, dnsFaults>>

\* A request of the sync, whose outcome is not looked at.
SyncSends(s, pc, rest, existing) ==
    sync' = [t \in Syncs |->
        IF t = s THEN [sync[s] EXCEPT !.pc = pc, !.todo = rest, !.existing = existing,
                                      !.quiet = @ /\ dnsFaults' = dnsFaults]
        ELSE Disturbed(t)]

\* For a cluster whose record is not found: it is created.
SyncEnsure(s) ==
    /\ sync[s].pc = "ensure"
    /\ \E c \in sync[s].todo :
          /\ ExistingRecord(s, c) = {}
          /\ \/ PostRecord(c, sync[s].ips[c]) /\ UNCHANGED dnsFaults
             \/ CloudflareFails
          /\ SyncSends(s, "ensure", sync[s].todo \ {c}, sync[s].existing)
    /\ UNCHANGED <<clusterIPs, dnsEdits>>

SyncEnsured(s) ==
    /\ sync[s].pc = "ensure" /\ sync[s].todo = {}
    /\ sync' = [sync EXCEPT ![s].pc = "delete"]
    /\ UNCHANGED <<zone, clusterIPs, recordId, dnsEdits, dnsFaults>>

\* Mutant: deleted by name.
SyncDeleteByName(s) ==
    /\ sync[s].pc = "delete"
    /\ \E r \in sync[s].existing :
          /\ \/ zone' = {q \in zone : q.name # r.name} /\ UNCHANGED <<recordId, dnsFaults>>
             \/ CloudflareFails
          /\ SyncSends(s, "delete", {}, sync[s].existing \ {r})
    /\ UNCHANGED <<clusterIPs, dnsEdits>>

\* What is left in `existing' is deleted, by its id.
SyncDelete(s) ==
    /\ sync[s].pc = "delete"
    /\ \E r \in sync[s].existing :
          /\ \/ zone' = {q \in zone : q.id # r.id} /\ UNCHANGED <<recordId, dnsFaults>>
             \/ CloudflareFails
          /\ SyncSends(s, "delete", {}, sync[s].existing \ {r})
    /\ UNCHANGED <<clusterIPs, dnsEdits>>

SyncDone(s) ==
    /\ sync[s].pc = "delete" /\ sync[s].existing = {}
    /\ sync' = [sync EXCEPT ![s].pc = "done"]
    /\ UNCHANGED <<zone, clusterIPs, recordId, dnsEdits, dnsFaults>>

DNSZoneNext ==
    \/ CreateRecord \/ UpdateRecord \/ ClusterMoves
    \/ \E s \in Syncs : \/ SyncList(s) \/ SyncListFails(s) \/ SyncClusters(s) \/ SyncEnsure(s)
                        \/ SyncEnsured(s) \/ SyncDelete(s) \/ SyncDone(s)

DNSZoneSpec == DNSZoneInit /\ [][DNSZoneNext]_dnsVars

-----------------------------------------------------------------------------
\* What a sync does to the zone.  It deletes only records it has listed: one that
\* another request made since stays.  And one that no failure and nobody else has
\* disturbed leaves a running cluster with its record exactly when the cluster had
\* none: the record it finds is "identical" when it is created again, and is then
\* deleted as an orphan.
SyncEffect ==
    /\ [][\A r \in zone : r.id \in {q.id : q \in zone'} \/
             \E s \in Syncs : sync[s].pc = "delete" /\ r.id \in {q.id : q \in sync[s].found}]_dnsVars
    /\ [][\A s \in Syncs : sync[s].pc = "delete" /\ sync'[s].pc = "done" /\ sync[s].quiet =>
             \A c \in DNSClusters :
                LET ip == sync[s].ips[c]
                    had == {r \in sync[s].found : r.name = c /\ r.content = ip}
                IN  /\ ip # "decommissioned"
                    /\ Cardinality({r \in sync[s].found : r.name = c}) < 2
                    => (Holds(c, ip) <=> had = {})]_dnsVars

=============================================================================
