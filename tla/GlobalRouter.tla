---------------------------- MODULE GlobalRouter ----------------------------
(***************************************************************************)
(* The global router's limits (deploy/global-router): a request that passed  *)
(* the filter asks the per-address rate limiter (the times of the requests   *)
(* it let through, cut to the window at each request, with a cap on the      *)
(* addresses kept and a clean-up loop) and then the limiter of connections,  *)
(* and is proxied.  Static assets skip the rate limiter.  The two limiters   *)
(* have locks of their own and share nothing, so a request's pass through    *)
(* both is one step.  Time is counted in ticks.  An address's list is in the *)
(* order of time, so it is the set of its entries: a time, and which of the  *)
(* address's requests of that tick it was.                                   *)
(***************************************************************************)
EXTENDS Naturals, FiniteSets

CONSTANTS
    IPs,            \* addresses
    SlideLimit,     \* rl.limit
    SlideLength,    \* rl.window, in ticks
    MaxIPs,         \* rl.maxIPs
    ConnLimit,      \* connLimiter.max
    MaxSlideTime    \* bound: the clock

ASSUME GlobalRouterAssumption ==
    /\ IsFiniteSet(IPs) /\ SlideLimit \in Nat \ {0} /\ SlideLength \in Nat \ {0}
    /\ MaxIPs \in Nat \ {0} /\ ConnLimit \in Nat \ {0} /\ MaxSlideTime \in Nat

VARIABLES
    slideNow,     \* the clock
    slideReqs,    \* slideReqs[ip]: the entries of the requests let through; {}: no list
    conns,        \* conns[ip]: requests being served
    lately,       \* history: requests let through in the last SlideLength ticks
                  \* (of the addresses never thrown out)
    evicted       \* history: addresses the cap has thrown out

routerVars == <<slideNow, slideReqs, conns, lately, evicted>>

Entries == [at : 0..MaxSlideTime, nth : 1..SlideLimit]

GlobalRouterTypeOK ==
    /\ slideNow \in 0..MaxSlideTime
    /\ slideReqs \in [IPs -> SUBSET Entries]
    /\ \A ip \in IPs : Cardinality(slideReqs[ip]) <= SlideLimit
    /\ Cardinality({ip \in IPs : slideReqs[ip] # {}}) <= MaxIPs
    /\ conns \in [IPs -> 0..ConnLimit]
    /\ lately \in [IPs -> SUBSET Entries]
    /\ evicted \subseteq IPs

GlobalRouterInit ==
    /\ slideNow = 0 /\ slideReqs = [ip \in IPs |-> {}] /\ conns = [ip \in IPs |-> 0]
    /\ lately = [ip \in IPs |-> {}] /\ evicted = {}

\* connLimiter.Acquire: beyond the limit the request is refused.
AcquireConn(ip) ==
    conns' = IF conns[ip] < ConnLimit THEN [conns EXCEPT ![ip] = @ + 1] ELSE conns

\* isStaticAsset: rateLimitMiddleware passes the request on at once.
StaticAsset(ip) == AcquireConn(ip) /\ UNCHANGED <<slideNow, slideReqs, lately, evicted>>

\* The entries still in the window at a time (Before: only strictly older ones go).
Recent(list, now) == {q \in list : q.at + SlideLength >= now}

\* PushBack(now): the address's next request of this tick.
Entry(ip) ==
    [at |-> slideNow, nth |-> Cardinality({q \in slideReqs[ip] : q.at = slideNow}) + 1]

\* The addresses with the oldest entry of all: one of them is thrown out when
\* the map has grown past the cap, be it the one just let in.
OldestIPs(map) ==
    LET kept == {ip \in IPs : map[ip] # {}}
    IN  {ip \in kept : /\ Cardinality(kept) > MaxIPs
                       /\ \E p \in map[ip] : \A k \in kept : \A q \in map[k] : p.at <= q.at}

Forget(map, S) == [ip \in IPs |-> IF ip \in S THEN {} ELSE map[ip]]

\* Allow, and connLimitMiddleware after it: a request the latter refuses has been
\* counted by the former.
Admit(ip) ==
    /\ Cardinality(Recent(slideReqs[ip], slideNow)) < SlideLimit
    /\ LET map == [slideReqs EXCEPT ![ip] = Recent(@, slideNow) \union {Entry(ip)}]
       IN  \/ OldestIPs(map) = {} /\ slideReqs' = map /\ UNCHANGED evicted
           \/ \E out \in OldestIPs(map) :
                 slideReqs' = Forget(map, {out}) /\ evicted' = evicted \union {out}
    /\ lately' = Forget([lately EXCEPT ![ip] = @ \union {Entry(ip)}], evicted')
    /\ AcquireConn(ip)
    /\ UNCHANGED slideNow

TooMany(ip) ==
    /\ Cardinality(Recent(slideReqs[ip], slideNow)) >= SlideLimit
    /\ slideReqs' = [slideReqs EXCEPT ![ip] = Recent(@, slideNow)]
    /\ UNCHANGED <<slideNow, conns, lately, evicted>>

\* serveProxy or serveStatic has answered: connLimiter.Release.
ReleaseConn(ip) ==
    /\ conns[ip] > 0
    /\ conns' = [conns EXCEPT ![ip] = @ - 1]
    /\ UNCHANGED <<slideNow, slideReqs, lately, evicted>>

\* Mutant of CleanupLoop: one window is enough.
CleanupSoon ==
    /\ slideReqs' = Forget(slideReqs, {ip \in IPs : \E q \in slideReqs[ip] : q.at + SlideLength < slideNow})
    /\ UNCHANGED <<slideNow, conns, lately, evicted>>

\* Addresses whose oldest entry is older than two windows.
CleanupLoop ==
    /\ slideReqs' = Forget(slideReqs, {ip \in IPs : \E q \in slideReqs[ip] : q.at + 2 * SlideLength < slideNow})
    /\ UNCHANGED <<slideNow, conns, lately, evicted>>

SlideTick ==
    /\ slideNow < MaxSlideTime /\ slideNow' = slideNow + 1
    /\ lately' = [ip \in IPs |-> Recent(lately[ip], slideNow')]
    /\ UNCHANGED <<slideReqs, conns, evicted>>

GlobalRouterNext ==
    \/ \E ip \in IPs : StaticAsset(ip) \/ Admit(ip) \/ TooMany(ip) \/ ReleaseConn(ip)
    \/ CleanupLoop \/ SlideTick

GlobalRouterSpec == GlobalRouterInit /\ [][GlobalRouterNext]_routerVars

-----------------------------------------------------------------------------
\* An address the cap has not thrown out gets at most the limit in any stretch
\* of the length of the window: cutting at each request, and the clean-up that
\* judges an address by its oldest entry alone, never forget a request that counts.
SlidingWindowBound == \A ip \in IPs \ evicted : Cardinality(lately[ip]) <= SlideLimit

=============================================================================
