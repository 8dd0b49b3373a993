--------------------------- MODULE DeliveryProofs ---------------------------
(***************************************************************************)
(* Proofs about the three ways out of the server: streams, webhooks and      *)
(* product events, for any number of readers, webhooks and workers, any      *)
(* buffer, queue and batch size, any number of attempts and any bounds.      *)
(***************************************************************************)
EXTENDS MCDelivery, TLAPS

-----------------------------------------------------------------------------
(***************************************************************************)
(* The streams: types.                                                      *)
(***************************************************************************)
LEMMA InitTypes == StreamInit => StreamTypeOK
BY StreamAssumption
DEF StreamInit, StreamTypeOK, StreamAssumption, Broadcast, NoBroadcast, Stages

\* The death of the process.
LEMMA DiesTypes ==
    ASSUME StreamTypeOK, Dies, UNCHANGED version,
           answer' \in [Readers -> Nat \cup {Nobody}], held' \in [Readers -> Nat \cup {Nobody}],
           ready' \subseteq Readers, closing' \subseteq Readers, missed' \subseteq Readers
    PROVE  StreamTypeOK'
<1>1. NoBroadcast \in Broadcast
  BY DEF NoBroadcast, Broadcast
<1>2. buf' \in [Readers -> 0..BufSize]
  BY StreamAssumption DEF Dies, StreamAssumption
<1>3. stage' \in [Readers -> Stages]
  BY DEF StreamTypeOK, Dies, Stages
<1> QED
  BY <1>1, <1>2, <1>3 DEF StreamTypeOK, Dies

\* removeClient keeps the server's types.
LEMMA RemoveTypes ==
    ASSUME StreamTypeOK, NEW r \in Readers, removeClient(r), UNCHANGED <<version, answer, held, ready, closing, missed>>,
           stage' \in [Readers -> Stages]
    PROVE  StreamTypeOK'
<1>1. bcast' \in Broadcast
  BY DEF StreamTypeOK, removeClient, Broadcast
<1>2. buf' \in [Readers -> 0..BufSize]
  BY StreamAssumption DEF StreamTypeOK, removeClient, StreamAssumption
<1> QED
  BY <1>1, <1>2 DEF StreamTypeOK, removeClient

LEMMA ServerTypes ==
    ASSUME StreamTypeOK, Change \/ Stop \/ Restart \/ Listener
    PROVE  StreamTypeOK'
<1>1. CASE Change
  BY <1>1 DEF StreamTypeOK, Change
<1>2. CASE Stop
  <2>1. /\ UNCHANGED <<version, answer, held, ready, closing, missed>>
        /\ Dies
    BY <1>2 DEF Stop
  <2> QED
    BY <2>1, DiesTypes DEF StreamTypeOK
<1>3. CASE Restart
  BY <1>3 DEF StreamTypeOK, Restart
<1>4. CASE StartBroadcast
  <2>1. bcast' = [pc |-> "range", todo |-> registry, to |-> Nobody, gone |-> FALSE]
    BY <1>4 DEF StartBroadcast, NoBroadcast
  <2>2. bcast' \in Broadcast
    BY <2>1 DEF StreamTypeOK, Broadcast
  <2> QED
    BY <1>4, <2>2 DEF StreamTypeOK, StartBroadcast
<1>5. ASSUME NEW r \in Readers, NextClient(r) PROVE StreamTypeOK'
  BY <1>5 DEF StreamTypeOK, NextClient, Broadcast
<1>6. CASE Send
  <2>1. buf' \in [Readers -> 0..BufSize]
    <3>1. buf[bcast.to] # BufSize /\ bcast.to \in Readers => buf[bcast.to] + 1 \in 0..BufSize
      BY StreamAssumption DEF StreamTypeOK, StreamAssumption
    <3> QED
      BY <1>6, <3>1 DEF StreamTypeOK, Send
  <2>2. bcast' \in Broadcast
    BY <1>6 DEF StreamTypeOK, Send, Broadcast
  <2> QED
    BY <1>6, <2>1, <2>2 DEF StreamTypeOK, Send
<1>7. CASE SendOnClosed
  <2>1. /\ UNCHANGED <<version, answer, held, ready, closing, missed>>
        /\ Dies
    BY <1>7 DEF SendOnClosed
  <2> QED
    BY <2>1, DiesTypes DEF StreamTypeOK
<1>8. CASE EndBroadcast
  BY <1>8 DEF StreamTypeOK, EndBroadcast, Broadcast, NoBroadcast
<1> QED
  BY <1>1, <1>2, <1>3, <1>4, <1>5, <1>6, <1>7, <1>8 DEF Listener

LEMMA ReaderTypes ==
    ASSUME StreamTypeOK, StreamShape, NEW r \in Readers, NewClient(r) \/ Go(r) \/ Answer(r) \/ Upset(r)
    PROVE  StreamTypeOK'
<1> USE DEF server
<1>1. CASE NewClient(r)
  BY <1>1 DEF StreamTypeOK, NewClient, Stages
<1>2. CASE Ask(r)
  BY <1>2 DEF StreamTypeOK, Ask
<1>3. CASE Answer(r)
  <2>1. After(r) \in Stages
    BY DEF After, Stages
  <2>2. stage' \in [Readers -> Stages]
    BY <1>3, <2>1 DEF StreamTypeOK, Answer
  <2> QED
    BY <1>3, <2>2 DEF StreamTypeOK, Answer
<1>4. CASE FetchFails(r)
  <2>1. After(r) \in Stages
    BY DEF After, Stages
  <2>2. stage' \in [Readers -> Stages]
    BY <1>4, <2>1 DEF StreamTypeOK, FetchFails
  <2> QED
    BY <1>4, <2>2 DEF StreamTypeOK, FetchFails
<1>5. CASE Tick(r)
  BY <1>5 DEF StreamTypeOK, Tick, Stages
<1>6. CASE Connect(r)
  <2>1. missed' \subseteq Readers /\ UNCHANGED <<version, answer, held, ready, closing>>
    BY <1>6 DEF StreamTypeOK, Connect
  <2>2. CASE Fatal
    BY <2>1, <2>2, DiesTypes DEF Fatal, StreamTypeOK
  <2>3. CASE ~Fatal
    <3>1. PICK todo \in {bcast.todo, bcast.todo \cup {r}} :
             bcast' = IF bcast.pc = "idle" THEN bcast ELSE [bcast EXCEPT !.todo = todo]
      BY <1>6, <2>3 DEF Connect
    <3>2. bcast' \in Broadcast
      BY <3>1 DEF StreamTypeOK, Broadcast
    <3>3. r \in Readers \ Pollers
      BY <1>6 DEF StreamShape, Connect
    <3> QED
      BY <1>6, <2>1, <2>3, <3>2, <3>3, ZenonT(30) DEF StreamTypeOK, Connect, Stages
  <2> QED
    BY <2>2, <2>3
<1>7. CASE Receive(r)
  BY <1>7, StreamAssumption DEF StreamTypeOK, Receive, Stages, StreamAssumption
<1>8. CASE GoMute(r)
  BY <1>8 DEF StreamTypeOK, GoMute
<1>9. CASE Break(r)
  <2>1. UNCHANGED <<version, answer, held, ready, closing, missed>>
    BY <1>9 DEF Break
  <2>2. CASE Fatal
    BY <2>1, <2>2, DiesTypes DEF Fatal, StreamTypeOK
  <2>3. CASE ~Fatal
    <3>1. stage' \in [Readers -> Stages]
      BY <1>9, <2>3 DEF StreamTypeOK, Break, Stages
    <3> QED
      BY <1>9, <2>1, <2>3, <3>1, RemoveTypes DEF Break
  <2> QED
    BY <2>2, <2>3
<1>10. CASE Close(r)
  BY <1>10 DEF StreamTypeOK, Close
<1>11. CASE Exit(r)
  <2>1. UNCHANGED <<version, answer, held, ready, closing, missed>>
    BY <1>11 DEF Exit
  <2>2. CASE Fatal
    BY <2>1, <2>2, DiesTypes DEF Fatal, StreamTypeOK
  <2>3. CASE ~Fatal
    <3>1. stage' \in [Readers -> Stages]
      BY <1>11, <2>3 DEF StreamTypeOK, Exit, Stages
    <3> QED
      BY <1>11, <2>1, <2>3, <3>1, RemoveTypes DEF Exit
  <2> QED
    BY <2>2, <2>3
<1> QED
  BY <1>1, <1>2, <1>3, <1>4, <1>5, <1>6, <1>7, <1>8, <1>9, <1>10, <1>11
  DEF Go, Upset, Cancelled

-----------------------------------------------------------------------------
(***************************************************************************)
(* The inductive invariant: the server's steps.                             *)
(***************************************************************************)
LEMMA InitStreamInv == StreamInit => StreamInv
<1>1. StreamInit => StreamShape /\ \A r \in Attached : Covered(r)
  BY DEF StreamInit, StreamShape, NoBroadcast, Attached, Fetching
<1> QED
  BY <1>1, InitTypes DEF StreamInv

\* A process that died has no stream left.
LEMMA DiesShape ==
    ASSUME StreamInv, Dies, StreamTypeOK', UNCHANGED answer
    PROVE  StreamShape' /\ Attached' = {}
<1>1. bcast' = NoBroadcast /\ registry' = {} /\ pending' = 0
  BY DEF Dies
<1>2. \A r \in Readers : stage'[r] = IF stage[r] = "read" THEN "dial" ELSE stage[r]
  BY DEF Dies
<1>3. \A r \in Readers :
         /\ answer'[r] # Nobody => stage'[r] \in Fetching
         /\ stage'[r] = "read" => r \in registry'
         /\ stage'[r] \in {"dial", "read"} => r \notin Pollers
  BY <1>2 DEF StreamInv, StreamShape, Fetching
<1> QED
  BY <1>1, <1>3 DEF StreamShape, NoBroadcast, Attached

LEMMA ServerSteps ==
    ASSUME StreamInv, Change \/ Stop \/ Restart \/ Listener
    PROVE  StreamInv'
<1>0. StreamTypeOK'
  BY ServerTypes DEF StreamInv
<1>1. CASE Change
  <2>1. StreamShape'
    BY <1>1 DEF Change, StreamInv, StreamShape, StreamTypeOK
  <2>2. ASSUME NEW r \in Attached' PROVE Covered(r)'
    BY <1>1, <2>2 DEF Change, StreamInv, StreamShape, StreamTypeOK, Attached, Covered, Coming
  <2> QED
    BY <1>0, <2>1, <2>2 DEF StreamInv
<1>2. CASE Stop \/ SendOnClosed
  BY <1>0, <1>2, DiesShape DEF Stop, SendOnClosed, StreamInv
<1>3. CASE Restart
  <2>1. StreamShape' /\ Attached' = {}
    BY <1>3 DEF Restart, StreamInv, StreamShape, StreamTypeOK, Attached
  <2> QED
    BY <1>0, <2>1 DEF StreamInv
<1>4. CASE StartBroadcast
  <2>0. bcast' = [pc |-> "range", todo |-> registry, to |-> Nobody, gone |-> FALSE]
    BY <1>4 DEF StartBroadcast, NoBroadcast
  <2>a. serving
    BY <1>4 DEF StartBroadcast, StreamInv, StreamShape
  <2>b. serving'
    BY <1>4, <2>a, Zenon DEF StartBroadcast
  <2>c. bcast'.pc = "range" /\ bcast'.to = Nobody /\ ~bcast'.gone
    BY <2>0
  <2>1. StreamShape'
    BY <1>4, <2>b, <2>c DEF StartBroadcast, StreamInv, StreamShape
  <2>2. ASSUME NEW r \in Attached' PROVE Covered(r)'
    BY <1>4, <2>0, <2>2 DEF StartBroadcast, Attached, Covered, Coming
  <2> QED
    BY <1>0, <2>1, <2>2 DEF StreamInv
<1>5. ASSUME NEW q \in Readers, NextClient(q) PROVE StreamInv'
  <2>0. /\ bcast'.pc = "send" /\ bcast'.todo = bcast.todo \ {q} /\ bcast'.to = q /\ bcast'.gone = bcast.gone
        /\ bcast.pc = "range" /\ ~bcast.gone
    BY <1>5 DEF NextClient, StreamInv, StreamShape, StreamTypeOK, Broadcast
  <2>1. StreamShape'
    BY <1>5, <2>0, StreamAssumption
    DEF NextClient, StreamInv, StreamShape, StreamTypeOK, StreamAssumption, NoBroadcast
  <2>2. ASSUME NEW r \in Attached' PROVE Covered(r)'
    BY <1>5, <2>0, <2>2 DEF NextClient, StreamInv, Attached, Covered, Coming
  <2> QED
    BY <1>0, <2>1, <2>2 DEF StreamInv
<1>6. CASE Send
  <2>0. /\ bcast'.pc = "range" /\ bcast'.todo = bcast.todo /\ bcast'.to = Nobody /\ bcast'.gone = bcast.gone
        /\ ~bcast.gone /\ bcast.to \in Readers
    BY <1>6 DEF Send, StreamInv, StreamShape, StreamTypeOK, Broadcast
  <2>1. StreamShape'
    BY <1>6, <2>0 DEF Send, StreamInv, StreamShape, NoBroadcast
  <2>2. /\ buf'[bcast.to] > 0
        /\ \A r \in Readers \ {bcast.to} : buf'[r] = buf[r]
    BY <1>6, <2>0, StreamAssumption DEF Send, StreamInv, StreamTypeOK, StreamAssumption
  <2>3. ASSUME NEW r \in Attached' PROVE Covered(r)'
    <3>1. r \in Attached /\ r \in Readers
      BY <1>6, <2>3 DEF Send, Attached, StreamInv, StreamTypeOK
    <3> QED
      BY <1>6, <2>0, <2>2, <3>1 DEF Send, StreamInv, Covered, Coming
  <2> QED
    BY <1>0, <2>1, <2>3 DEF StreamInv
<1>7. CASE EndBroadcast
  <2>1. StreamShape'
    BY <1>7 DEF EndBroadcast, StreamInv, StreamShape, NoBroadcast
  <2>2. ASSUME NEW r \in Attached' PROVE Covered(r)'
    BY <1>7, <2>2 DEF EndBroadcast, StreamInv, Attached, Covered, Coming
  <2> QED
    BY <1>0, <2>1, <2>2 DEF StreamInv
<1> QED
  BY <1>1, <1>2, <1>3, <1>4, <1>5, <1>6, <1>7 DEF Listener

-----------------------------------------------------------------------------
(***************************************************************************)
(* The readers' steps.                                                      *)
(***************************************************************************)
\* A removed reader is attached no more; the others keep what they had.
LEMMA RemoveKeeps ==
    ASSUME StreamInv, NEW r \in Readers, removeClient(r), StreamTypeOK',
           UNCHANGED <<version, answer, held, missed>>,
           stage'[r] # "read",
           stage'[r] \in {"dial", "read"} => r \notin Pollers,
           answer[r] # Nobody => stage'[r] \in Fetching,
           \A q \in Readers \ {r} : stage'[q] = stage[q]
    PROVE  StreamInv'
<1>0. /\ bcast'.pc = bcast.pc /\ bcast'.to = bcast.to
      /\ bcast'.todo = bcast.todo \ {r} /\ bcast'.gone = (bcast.gone \/ bcast.to = r)
  BY DEF removeClient, StreamInv, StreamTypeOK, Broadcast
<1>1. StreamShape'
  <2>1. IF bcast'.pc = "send" THEN bcast'.to # Nobody ELSE bcast'.to = Nobody /\ ~bcast'.gone
    BY <1>0, StreamAssumption DEF StreamInv, StreamShape, StreamAssumption
  <2>2. \A q \in Readers :
           /\ answer'[q] # Nobody => stage'[q] \in Fetching
           /\ stage'[q] = "read" => q \in registry'
           /\ q \in registry' => stage'[q] \in {"read", "event"}
           /\ stage'[q] \in {"dial", "read"} => q \notin Pollers
    BY DEF removeClient, StreamInv, StreamShape
  <2>3. ~serving' => registry' = {} /\ pending' = 0 /\ bcast' = NoBroadcast
    <3> SUFFICES ASSUME ~serving PROVE registry' = {} /\ pending' = 0 /\ bcast' = NoBroadcast
      BY DEF removeClient
    <3>1. registry = {} /\ pending = 0 /\ bcast = NoBroadcast
      BY DEF StreamInv, StreamShape
    <3>2. bcast' = NoBroadcast
      BY <3>1, StreamAssumption DEF removeClient, NoBroadcast, StreamAssumption
    <3> QED
      BY <3>1, <3>2 DEF removeClient
  <2> QED
    BY <2>1, <2>2, <2>3 DEF StreamShape
<1>2. ASSUME NEW q \in Attached' PROVE Covered(q)'
  <2>1. q \in Attached /\ q \in Readers \ {r}
    BY <1>2 DEF Attached, removeClient, StreamInv, StreamTypeOK
  <2>2. Coming(q) => Coming(q)'
    BY <1>0, <2>1 DEF Coming, removeClient, StreamInv, StreamTypeOK
  <2> QED
    BY <2>1, <2>2 DEF Covered, StreamInv
<1> QED
  BY <1>1, <1>2 DEF StreamInv

\* A step that leaves the server alone and moves one reader.
LEMMA ReaderMoves ==
    ASSUME StreamInv, NEW r \in Readers, UNCHANGED <<version, server>>, StreamTypeOK',
           \A q \in Readers \ {r} : /\ stage'[q] = stage[q] /\ answer'[q] = answer[q]
                                    /\ held'[q] = held[q] /\ (q \in missed => q \in missed'),
           answer'[r] # Nobody => stage'[r] \in Fetching,
           stage'[r] = "read" => r \in registry,
           r \in registry => stage'[r] \in {"read", "event"},
           stage'[r] \in {"dial", "read"} => r \notin Pollers,
           r \in Attached' => Covered(r)'
    PROVE  StreamInv'
<1>1. StreamShape'
  BY DEF server, StreamInv, StreamShape
<1>2. ASSUME NEW q \in Attached', q # r PROVE Covered(q)'
  <2>1. q \in Attached /\ q \in Readers \ {r}
    BY <1>2 DEF Attached, server, StreamInv, StreamTypeOK
  <2> QED
    BY <2>1 DEF Covered, Coming, server, StreamInv
<1> QED
  BY <1>1, <1>2 DEF StreamInv

LEMMA ReaderSteps ==
    ASSUME StreamInv, NEW r \in Readers, NewClient(r) \/ Go(r) \/ Answer(r) \/ Upset(r)
    PROVE  StreamInv'
<1>0. StreamTypeOK'
  BY ReaderTypes DEF StreamInv
<1>s. /\ StreamTypeOK /\ StreamShape
      /\ \A q \in Attached : Covered(q)
  BY DEF StreamInv
<1>1. CASE NewClient(r)
  <2>1. stage'[r] = "init" /\ r \notin registry /\ answer[r] = Nobody
    BY <1>1, <1>s DEF NewClient, StreamTypeOK, StreamShape, Fetching
  <2> QED
    BY <1>0, <1>1, <1>s, <2>1, ReaderMoves DEF NewClient, StreamTypeOK, Attached, server, Fetching
<1>2. CASE Ask(r)
  <2>1. r \in Attached' => Covered(r)'
    BY <1>2, <1>s DEF Ask, StreamTypeOK, Attached, Covered, Fetching
  <2> QED
    BY <1>0, <1>2, <1>s, <2>1, ReaderMoves DEF Ask, StreamTypeOK, StreamShape, Fetching
<1>3. CASE Answer(r)
  <2>1. /\ stage'[r] = After(r) /\ held'[r] = answer[r] /\ answer'[r] = Nobody
        /\ stage[r] \in Fetching /\ UNCHANGED <<version, server>>
    BY <1>3, <1>s DEF Answer, StreamTypeOK, StreamShape
  <2>2. r \in Attached' => Covered(r)'
    <3> SUFFICES ASSUME r \in Attached', answer[r] # version PROVE Covered(r)'
      BY <2>1 DEF Covered
    <3>1. r \in Attached /\ stage[r] = "event"
      BY <1>s, <2>1 DEF Attached, StreamShape, Fetching, server
    <3>2. Coming(r) \/ r \in missed
      BY <1>3, <1>s, <3>1 DEF Covered, Answer
    <3> QED
      BY <1>3, <2>1, <3>2 DEF Covered, Coming, Answer, server
  <2>3. /\ After(r) = "read" => r \in registry
        /\ r \in registry => After(r) = "read"
        /\ After(r) \in {"dial", "read"} => r \notin Pollers
    BY <1>s DEF After, StreamTypeOK
  <2> QED
    BY <1>0, <1>3, <1>s, <2>1, <2>2, <2>3, ReaderMoves DEF Answer, StreamTypeOK
<1>4. CASE FetchFails(r)
  <2>1. /\ answer'[r] = Nobody /\ r \in missed' /\ missed \subseteq missed'
        /\ stage'[r] = (IF r \in Relays /\ stage[r] = "init" THEN "init" ELSE After(r))
        /\ UNCHANGED <<version, server>>
    BY <1>4, <1>s DEF FetchFails, StreamTypeOK
  <2>2. /\ After(r) = "read" => r \in registry
        /\ r \in registry => After(r) = "read" /\ stage[r] # "init"
        /\ After(r) \in {"dial", "read"} => r \notin Pollers
    BY <1>s DEF After, StreamTypeOK, StreamShape
  <2>3. Covered(r)'
    BY <2>1 DEF Covered
  <2> QED
    BY <1>0, <1>4, <1>s, <2>1, <2>2, <2>3, ReaderMoves DEF FetchFails, StreamTypeOK
<1>5. CASE Tick(r)
  <2>1. stage'[r] = "tick" /\ r \notin registry /\ answer'[r] = Nobody
    BY <1>5, <1>s DEF Tick, StreamTypeOK, StreamShape, Fetching
  <2> QED
    BY <1>0, <1>5, <1>s, <2>1, ReaderMoves DEF Tick, StreamTypeOK, Attached, server
<1>6. CASE Connect(r)
  <2>1. CASE Fatal
    BY <1>0, <1>6, <2>1, DiesShape DEF Connect, Fatal, StreamInv
  <2>2. CASE ~Fatal
    <3>0. /\ registry' = registry \cup {r} /\ serving
          /\ stage'[r] = "read" /\ \A q \in Readers \ {r} : stage'[q] = stage[q]
          /\ stage[r] = "dial" /\ UNCHANGED <<version, pending, serving, buf, mute, answer, held>>
          /\ missed \subseteq missed' /\ (held[r] = version \/ r \in missed')
      BY <1>6, <1>s, <2>2 DEF Connect, StreamTypeOK
    <3>1. /\ bcast'.pc = bcast.pc /\ bcast'.to = bcast.to /\ bcast'.gone = bcast.gone
          /\ bcast.todo \subseteq bcast'.todo
      <4>1. PICK todo \in {bcast.todo, bcast.todo \cup {r}} :
               bcast' = IF bcast.pc = "idle" THEN bcast ELSE [bcast EXCEPT !.todo = todo]
        BY <1>6, <2>2 DEF Connect
      <4> QED
        BY <4>1, <1>s DEF StreamTypeOK, Broadcast
    <3>2. StreamShape'
      BY <1>s, <3>0, <3>1 DEF StreamShape, Fetching
    <3>3. ASSUME NEW q \in Attached' PROVE Covered(q)'
      <4>1. q = r => Covered(q)'
        BY <3>0 DEF Covered
      <4>2. q # r => q \in Attached /\ q \in Readers
        BY <1>s, <3>0, <3>3 DEF Attached, StreamTypeOK
      <4> QED
        BY <1>s, <3>0, <3>1, <4>1, <4>2 DEF Covered, Coming
    <3> QED
      BY <1>0, <3>2, <3>3 DEF StreamInv
  <2> QED
    BY <2>1, <2>2
<1>7. CASE Receive(r)
  <2>0. /\ stage[r] = "read" /\ answer[r] = Nobody
        /\ \A q \in Readers \ {r} : buf'[q] = buf[q] /\ stage'[q] = stage[q]
        /\ UNCHANGED <<version, pending, serving, bcast, registry, mute, answer, held>>
        /\ missed \subseteq missed'
    BY <1>7, <1>s DEF Receive, StreamTypeOK, StreamShape, Fetching
  <2>1. IF r \in mute THEN r \in missed' /\ stage'[r] = "read" ELSE stage'[r] = "event"
    BY <1>7, <1>s DEF Receive, StreamTypeOK
  <2>2. StreamShape'
    BY <1>s, <2>0, <2>1 DEF StreamShape, Fetching
  <2>3. ASSUME NEW q \in Attached' PROVE Covered(q)'
    <3>1. q = r => Covered(q)'
      BY <2>0, <2>1 DEF Covered
    <3>2. q # r => q \in Attached /\ q \in Readers
      BY <1>s, <2>0, <2>3 DEF Attached, StreamTypeOK
    <3> QED
      BY <1>s, <2>0, <3>1, <3>2 DEF Covered, Coming
  <2> QED
    BY <1>0, <2>2, <2>3 DEF StreamInv
<1>8. CASE GoMute(r)
  <2>1. StreamShape' /\ Attached' \subseteq Attached
    BY <1>8, <1>s DEF GoMute, StreamShape, Attached
  <2> QED
    BY <1>0, <1>8, <1>s, <2>1 DEF GoMute, StreamInv, Covered, Coming
<1>9. CASE Break(r)
  <2>1. CASE Fatal
    BY <1>0, <1>9, <2>1, DiesShape DEF Break, Fatal, StreamInv
  <2>2. CASE ~Fatal
    <3>1. /\ removeClient(r) /\ r \in registry
          /\ stage'[r] = (IF stage[r] = "read" THEN "dial" ELSE stage[r])
          /\ \A q \in Readers \ {r} : stage'[q] = stage[q]
      BY <1>9, <1>s, <2>2 DEF Break, StreamTypeOK
    <3>2. /\ stage'[r] \in {"dial", "read"} => r \notin Pollers
          /\ answer[r] # Nobody => stage'[r] \in Fetching
          /\ stage'[r] # "read"
      BY <1>s, <3>1 DEF StreamShape, Fetching
    <3> QED
      BY <1>0, <1>9, <3>1, <3>2, RemoveKeeps DEF Break
  <2> QED
    BY <2>1, <2>2
<1>10. CASE Close(r)
  <2>1. StreamShape' /\ Attached' = Attached
    BY <1>10, <1>s DEF Close, server, StreamShape, Attached
  <2> QED
    BY <1>0, <1>10, <1>s, <2>1 DEF Close, server, StreamInv, Covered, Coming
<1>11. CASE Exit(r)
  <2>1. CASE Fatal
    BY <1>0, <1>11, <2>1, DiesShape DEF Exit, Fatal, StreamInv
  <2>2. CASE ~Fatal
    <3>1. /\ removeClient(r) /\ stage'[r] = "closed" /\ stage[r] \notin Fetching
          /\ \A q \in Readers \ {r} : stage'[q] = stage[q]
      BY <1>11, <1>s, <2>2 DEF Exit, StreamTypeOK, Fetching
    <3>2. answer[r] = Nobody
      BY <1>s, <3>1 DEF StreamShape
    <3> QED
      BY <1>0, <1>11, <3>1, <3>2, RemoveKeeps DEF Exit, Fetching
  <2> QED
    BY <2>1, <2>2
<1> QED
  BY <1>1, <1>2, <1>3, <1>4, <1>5, <1>6, <1>7, <1>8, <1>9, <1>10, <1>11
  DEF Go, Upset, Cancelled

LEMMA StreamSteps == ASSUME StreamInv, [StreamNext]_streamVars PROVE StreamInv'
<1>1. CASE UNCHANGED streamVars
  BY <1>1 DEF streamVars, StreamInv, StreamTypeOK, StreamShape, Attached, Covered, Coming
<1> QED
  BY <1>1, ServerSteps, ReaderSteps DEF StreamNext

-----------------------------------------------------------------------------
(***************************************************************************)
(* Queues.                                                                  *)
(***************************************************************************)
\* What sequences hold when one is appended to, or loses its head.
LEMMA AppendSeq ==
    ASSUME NEW S, NEW s \in Seq(S), NEW x \in S
    PROVE  /\ Append(s, x) \in Seq(S) /\ Len(Append(s, x)) = Len(s) + 1
           /\ \A i \in 1..Len(s) : Append(s, x)[i] = s[i]
           /\ Append(s, x)[Len(s) + 1] = x
OBVIOUS

LEMMA TailSeq ==
    ASSUME NEW S, NEW s \in Seq(S), s # <<>>
    PROVE  /\ Len(s) \in Nat /\ Len(s) >= 1
           /\ Head(s) \in S /\ Head(s) = s[1]
           /\ Tail(s) \in Seq(S) /\ Len(Tail(s)) = Len(s) - 1
           /\ \A i \in 1..Len(Tail(s)) : Tail(s)[i] = s[i + 1]
OBVIOUS

LEMMA AppendSet ==
    ASSUME NEW S, NEW s \in Seq(S), NEW x \in S
    PROVE  /\ ToSet(Append(s, x)) = ToSet(s) \cup {x}
           /\ IsInjective(s) /\ x \notin ToSet(s) => IsInjective(Append(s, x))
<1> DEFINE t == Append(s, x)
<1>1. /\ t \in Seq(S) /\ Len(t) = Len(s) + 1 /\ Len(s) \in Nat
      /\ \A i \in 1..Len(s) : t[i] = s[i]
      /\ t[Len(s) + 1] = x
  BY AppendSeq
<1>2. DOMAIN s = 1..Len(s) /\ DOMAIN t = 1..(Len(s) + 1)
  BY <1>1
<1> HIDE DEF t
<1>3. ToSet(t) = ToSet(s) \cup {x}
  <2>1. \A i \in DOMAIN t : i \in DOMAIN s \/ i = Len(s) + 1
    BY <1>1, <1>2
  <2>2. \A i \in DOMAIN s : i \in DOMAIN t
    BY <1>1, <1>2
  <2>3. Len(s) + 1 \in DOMAIN t
    BY <1>1, <1>2
  <2> QED
    BY <1>1, <1>2, <2>1, <2>2, <2>3 DEF ToSet
<1>4. IsInjective(s) /\ x \notin ToSet(s) => IsInjective(t)
  BY <1>1, <1>2 DEF IsInjective, ToSet
<1> QED
  BY <1>3, <1>4 DEF t

LEMMA TailSet ==
    ASSUME NEW S, NEW s \in Seq(S), s # <<>>
    PROVE  /\ Head(s) \in S /\ Tail(s) \in Seq(S)
           /\ ToSet(s) = {Head(s)} \cup ToSet(Tail(s))
           /\ IsInjective(s) => IsInjective(Tail(s)) /\ Head(s) \notin ToSet(Tail(s))
<1> DEFINE t == Tail(s)
<1>1. /\ Len(s) \in Nat /\ Len(s) >= 1
      /\ Head(s) \in S /\ Head(s) = s[1]
      /\ t \in Seq(S) /\ Len(t) = Len(s) - 1
      /\ \A i \in 1..Len(t) : t[i] = s[i + 1]
  BY TailSeq
<1>2. DOMAIN s = 1..Len(s) /\ DOMAIN t = 1..(Len(s) - 1)
  BY <1>1
<1> HIDE DEF t
<1>3. ToSet(s) = {s[1]} \cup ToSet(t)
  <2>1. \A i \in DOMAIN s : i = 1 \/ (i - 1 \in DOMAIN t /\ t[i - 1] = s[i])
    BY <1>1, <1>2
  <2>2. \A i \in DOMAIN t : i + 1 \in DOMAIN s /\ t[i] = s[i + 1]
    BY <1>1, <1>2
  <2>3. 1 \in DOMAIN s
    BY <1>1, <1>2
  <2>4. ToSet(s) \subseteq {s[1]} \cup ToSet(t)
    BY <2>1 DEF ToSet
  <2>5. {s[1]} \cup ToSet(t) \subseteq ToSet(s)
    BY <2>2, <2>3 DEF ToSet
  <2> QED
    BY <2>4, <2>5
<1>4. ASSUME IsInjective(s) PROVE IsInjective(t) /\ s[1] \notin ToSet(t)
  <2>1. \A i \in DOMAIN t : i + 1 \in DOMAIN s /\ t[i] = s[i + 1] /\ i \in Nat \ {0}
    BY <1>1, <1>2
  <2>2. 1 \in DOMAIN s
    BY <1>1, <1>2
  <2> QED
    BY <1>4, <2>1, <2>2 DEF IsInjective, ToSet
<1> QED
  BY <1>1, <1>3, <1>4 DEF t

LEMMA EmptySeqSet == ToSet(<<>>) = {} /\ IsInjective(<<>>)
BY DEF ToSet, IsInjective

-----------------------------------------------------------------------------
(***************************************************************************)
(* The product events.                                                      *)
(***************************************************************************)
LEMMA InitEmitterInv == EmitterInit => EmitterInv
<1> SUFFICES ASSUME EmitterInit PROVE EmitterInv
  OBVIOUS
<1>1. EmitterTypeOK
  <2>1. /\ 0 \in 0..MaxEmits /\ 0 <= BufferSize /\ 0 <= BatchSize /\ 1 \in 1..FlushMax
        /\ 0 \in 0..FlushMax
    BY EmitterAssumption DEF EmitterAssumption
  <2>2. <<>> \in Seq(EmitIds) /\ Len(<<>>) = 0
    OBVIOUS
  <2> QED
    BY <2>1, <2>2 DEF EmitterInit, EmitterTypeOK
<1>2. EventsConserved
  BY EmitterAssumption, EmptySeqSet DEF EmitterInit, EventsConserved, EmitterAssumption, EmitIds
<1>3. EmitterShape
  BY EmitterAssumption, EmptySeqSet DEF EmitterInit, EmitterShape, EmitterAssumption
<1> QED
  BY <1>1, <1>2, <1>3 DEF EmitterInv

\* The ids of the events in channel and batch.
LEMMA EmitterIds ==
    ASSUME EmitterInv
    PROVE  /\ ToSet(ch) \subseteq 1..calls /\ ToSet(batch) \subseteq 1..calls
           /\ calls \in Nat /\ MaxEmits \in Nat /\ 1..calls \subseteq EmitIds
           /\ \A n \in EmitIds : n > calls => inserted[n] = 0
<1>1. /\ 1..calls = {n \in EmitIds : inserted[n] > 0} \cup ToSet(ch) \cup ToSet(batch)
                     \cup dropped \cup discarded
      /\ calls \in 0..MaxEmits /\ inserted \in [EmitIds -> 0..FlushMax]
  BY DEF EmitterInv, EventsConserved, EmitterTypeOK
<1>2. MaxEmits \in Nat /\ FlushMax \in Nat
  BY EmitterAssumption DEF EmitterAssumption
<1>3. calls \in Nat /\ 1..calls \subseteq EmitIds
  BY <1>1, <1>2 DEF EmitIds
<1>4. \A n \in EmitIds : n \in Nat /\ inserted[n] \in Nat /\ (inserted[n] > 0 => n \in 1..calls)
  BY <1>1, <1>2 DEF EmitIds
<1>5. \A n \in EmitIds : n > calls => inserted[n] = 0
  BY <1>3, <1>4
<1> QED
  BY <1>1, <1>2, <1>3, <1>5

LEMMA EmitKeeps == ASSUME EmitterInv, Emit PROVE EmitterInv'
<1> DEFINE n == calls + 1
<1>1. /\ n \in EmitIds /\ n \notin 1..calls /\ 1..n = 1..calls \cup {n} /\ calls' = n
      /\ inserted[n] = 0 /\ n \notin ToSet(ch) /\ n \notin ToSet(batch)
  BY EmitterIds, EmitterAssumption, SMTT(30) DEF Emit, EmitIds, EmitterInv, EmitterTypeOK, EmitterAssumption
<1>2. UNCHANGED <<chClosed, batch, runPc, attempt, inserted, discarded, mainPc>>
  BY DEF Emit
<1>3. CASE ~chClosed /\ Len(ch) < BufferSize
  <2>1. ch' = Append(ch, n) /\ dropped' = dropped
    BY <1>3 DEF Emit
  <2>2. ch \in Seq(EmitIds)
    BY DEF EmitterInv, EmitterTypeOK
  <2>3. /\ ToSet(ch') = ToSet(ch) \cup {n} /\ IsInjective(ch')
        /\ ch' \in Seq(EmitIds) /\ Len(ch') = Len(ch) + 1
    BY <1>1, <2>1, <2>2, AppendSet, AppendSeq DEF EmitterInv, EmitterShape
  <2>4. EmitterTypeOK'
    BY <1>1, <1>2, <1>3, <2>1, <2>2, <2>3, EmitterAssumption
    DEF EmitterInv, EmitterTypeOK, EmitterAssumption, EmitIds
  <2>5. runPc \notin {"last", "done"}
    BY <1>3 DEF EmitterInv, EmitterShape
  <2>6. EventsConserved'
    BY <1>1, <1>2, <2>1, <2>3, <2>5 DEF EmitterInv, EventsConserved
  <2>7. EmitterShape'
    BY <1>1, <1>2, <2>3, <2>5 DEF EmitterInv, EmitterShape
  <2> QED
    BY <2>4, <2>6, <2>7 DEF EmitterInv
<1>4. CASE ~(~chClosed /\ Len(ch) < BufferSize)
  <2>1. dropped' = dropped \cup {n} /\ ch' = ch
    BY <1>4 DEF Emit
  <2>2. EmitterTypeOK'
    BY <1>1, <1>2, <2>1 DEF EmitterInv, EmitterTypeOK, EmitIds
  <2>3. EventsConserved'
    BY <1>1, <1>2, <2>1 DEF EmitterInv, EventsConserved
  <2>4. EmitterShape'
    BY <1>2, <2>1 DEF EmitterInv, EmitterShape
  <2> QED
    BY <2>2, <2>3, <2>4 DEF EmitterInv
<1> QED
  BY <1>3, <1>4

LEMMA ReceiveKeeps == ASSUME EmitterInv, ReceiveEvent PROVE EmitterInv'
<1> DEFINE n == Head(ch)
<1>1. /\ ch' = Tail(ch) /\ batch' = Append(batch, n)
      /\ runPc = "select" /\ ch # <<>>
      /\ runPc' = IF Len(batch') >= BatchSize THEN "flush" ELSE "select"
      /\ UNCHANGED <<calls, chClosed, attempt, inserted, dropped, discarded, mainPc>>
  BY DEF ReceiveEvent
<1>2. ch \in Seq(EmitIds) /\ batch \in Seq(EmitIds)
  BY DEF EmitterInv, EmitterTypeOK
<1>3. /\ n \in EmitIds /\ ch' \in Seq(EmitIds) /\ Len(ch') = Len(ch) - 1 /\ Len(ch) \in Nat
      /\ ToSet(ch) = {n} \cup ToSet(ch')
      /\ IsInjective(ch') /\ n \notin ToSet(ch')
  BY <1>1, <1>2, TailSet, TailSeq DEF EmitterInv, EmitterShape
<1>4. n \notin ToSet(batch)
  BY <1>3 DEF EmitterInv, EmitterShape
<1>5. /\ ToSet(batch') = ToSet(batch) \cup {n} /\ IsInjective(batch')
      /\ batch' \in Seq(EmitIds) /\ Len(batch') = Len(batch) + 1 /\ Len(batch) \in Nat
  BY <1>1, <1>2, <1>3, <1>4, AppendSet, AppendSeq DEF EmitterInv, EmitterShape
<1> HIDE DEF n
<1>6. EmitterTypeOK'
  BY <1>1, <1>3, <1>5, EmitterAssumption
  DEF EmitterInv, EmitterTypeOK, EmitterShape, EmitterAssumption
<1>7. EventsConserved'
  BY <1>1, <1>3, <1>5 DEF EmitterInv, EventsConserved
<1>8. EmitterShape'
  <2>1. inserted[n] = 0 /\ attempt = 1
    BY <1>1, <1>3 DEF EmitterInv, EmitterShape
  <2>2. runPc' = "select" => Len(batch') < BatchSize
    BY <1>1, <1>5, EmitterAssumption DEF EmitterAssumption
  <2> QED
    BY <1>1, <1>3, <1>4, <1>5, <2>1, <2>2 DEF EmitterInv, EmitterShape
<1> QED
  BY <1>6, <1>7, <1>8 DEF EmitterInv

\* A flush that stores the batch, or does not.
LEMMA StoreKeeps ==
    ASSUME EmitterInv, Flushing, StoreBatch \/ UNCHANGED inserted
    PROVE  /\ inserted' \in [EmitIds -> 0..FlushMax]
           /\ \A n \in ToSet(batch) : inserted'[n] <= attempt
           /\ \A n \in EmitIds \ ToSet(batch) : inserted'[n] = inserted[n]
           /\ \A n \in EmitIds : inserted[n] <= inserted'[n]
           /\ \A n \in EmitIds : inserted'[n] > 0 => inserted[n] > 0 \/ n \in ToSet(batch)
<1>1. ToSet(batch) \subseteq EmitIds /\ inserted \in [EmitIds -> 0..FlushMax] /\ attempt \in 1..FlushMax
      /\ \A n \in ToSet(batch) : inserted[n] < attempt
  BY EmitterIds DEF EmitterInv, EmitterTypeOK, EmitterShape
<1>2. CASE StoreBatch
  <2>1. \A n \in EmitIds : inserted'[n] = inserted[n] + IF n \in ToSet(batch) THEN 1 ELSE 0
    BY <1>2 DEF StoreBatch
  <2>2. \A n \in EmitIds : inserted[n] + (IF n \in ToSet(batch) THEN 1 ELSE 0) \in 0..FlushMax
    BY <1>1, EmitterAssumption DEF EmitterAssumption
  <2>3. inserted' \in [EmitIds -> 0..FlushMax]
    BY <1>2, <2>2 DEF StoreBatch
  <2> QED
    BY <1>1, <2>1, <2>2, <2>3
<1>3. CASE UNCHANGED inserted
  BY <1>1, <1>3
<1> QED
  BY <1>2, <1>3

\* The end of a flush: what the batch held is stored or given up.
LEMMA EndFlushKeeps ==
    ASSUME EmitterInv, Flushing, StoreBatch \/ UNCHANGED inserted, EndFlush,
           UNCHANGED <<calls, ch, chClosed, dropped, mainPc>>,
           \/ StoreBatch /\ UNCHANGED discarded
           \/ discarded' = discarded \cup ToSet(batch)
    PROVE  EmitterInv'
<1>1. /\ inserted' \in [EmitIds -> 0..FlushMax]
      /\ \A n \in EmitIds \ ToSet(batch) : inserted'[n] = inserted[n]
      /\ \A n \in EmitIds : inserted[n] <= inserted'[n]
      /\ \A n \in EmitIds : inserted'[n] > 0 => inserted[n] > 0 \/ n \in ToSet(batch)
  BY StoreKeeps
<1>2. batch' = <<>> /\ attempt' = 1 /\ runPc' = IF runPc = "last" THEN "done" ELSE "select"
  BY DEF EndFlush
<1>3. ToSet(batch') = {} /\ IsInjective(batch') /\ Len(batch') = 0 /\ batch' \in Seq(EmitIds)
  BY <1>2, EmptySeqSet
<1>4. ToSet(batch) \subseteq EmitIds /\ ToSet(batch) \subseteq 1..calls /\ 1..calls \subseteq EmitIds
  BY EmitterIds
<1>5. EmitterTypeOK'
  BY <1>1, <1>2, <1>3, <1>4, EmitterAssumption DEF EmitterInv, EmitterTypeOK, EmitterAssumption
<1>6. \A n \in ToSet(batch) : inserted'[n] > 0 \/ n \in discarded'
  <2>1. CASE StoreBatch
    BY <1>4, <2>1 DEF StoreBatch, EmitterInv, EmitterTypeOK
  <2>2. CASE discarded' = discarded \cup ToSet(batch)
    BY <2>2
  <2> QED
    BY <2>1, <2>2
<1>7. EventsConserved'
  <2>1. discarded' \subseteq discarded \cup ToSet(batch) /\ discarded \subseteq discarded'
    OBVIOUS
  <2>2. {n \in EmitIds : inserted[n] > 0} \subseteq {n \in EmitIds : inserted'[n] > 0}
    BY <1>1 DEF EmitterInv, EmitterTypeOK
  <2>3. {n \in EmitIds : inserted'[n] > 0} \subseteq {n \in EmitIds : inserted[n] > 0} \cup ToSet(batch)
    BY <1>1
  <2>4. ToSet(batch) \subseteq {n \in EmitIds : inserted'[n] > 0} \cup discarded'
    BY <1>4, <1>6
  <2>5. runPc' = "done" => ch' = <<>> /\ batch' = <<>>
    BY <1>2 DEF EmitterInv, EmitterShape
  <2> QED
    BY <1>3, <2>1, <2>2, <2>3, <2>4, <2>5 DEF EmitterInv, EventsConserved
<1>8. EmitterShape'
  <2>1. \A n \in ToSet(ch) : n \in EmitIds \ ToSet(batch)
    BY EmitterIds DEF EmitterInv, EmitterShape
  <2> QED
    BY <1>1, <1>2, <1>3, <2>1, EmitterAssumption DEF EmitterInv, EmitterShape, EmitterAssumption
<1> QED
  BY <1>5, <1>7, <1>8 DEF EmitterInv

LEMMA FlushFailsKeeps == ASSUME EmitterInv, FlushFails PROVE EmitterInv'
<1>1. CASE attempt < FlushMax
  <2>1. /\ attempt' = attempt + 1 /\ UNCHANGED <<batch, runPc, discarded>>
        /\ UNCHANGED <<calls, ch, chClosed, dropped, mainPc>>
        /\ Flushing /\ (StoreBatch \/ UNCHANGED inserted)
    BY <1>1 DEF FlushFails
  <2>2. /\ inserted' \in [EmitIds -> 0..FlushMax]
        /\ \A n \in ToSet(batch) : inserted'[n] <= attempt
        /\ \A n \in EmitIds \ ToSet(batch) : inserted'[n] = inserted[n]
        /\ \A n \in EmitIds : inserted[n] <= inserted'[n]
        /\ \A n \in EmitIds : inserted'[n] > 0 => inserted[n] > 0 \/ n \in ToSet(batch)
    BY <2>1, StoreKeeps
  <2>3. attempt \in Nat /\ attempt' \in 1..FlushMax
    BY <1>1, <2>1, EmitterAssumption DEF EmitterInv, EmitterTypeOK, EmitterAssumption
  <2>4. EmitterTypeOK'
    BY <2>1, <2>2, <2>3 DEF EmitterInv, EmitterTypeOK
  <2>5. EventsConserved'
    <3>1. {n \in EmitIds : inserted[n] > 0} \subseteq {n \in EmitIds : inserted'[n] > 0}
      BY <2>2 DEF EmitterInv, EmitterTypeOK
    <3>2. {n \in EmitIds : inserted'[n] > 0} \subseteq {n \in EmitIds : inserted[n] > 0} \cup ToSet(batch)
      BY <2>2
    <3> QED
      BY <2>1, <3>1, <3>2 DEF EmitterInv, EventsConserved
  <2>6. EmitterShape'
    <3>1. \A n \in ToSet(ch) : n \in EmitIds \ ToSet(batch)
      BY EmitterIds DEF EmitterInv, EmitterShape
    <3>2. \A n \in ToSet(batch) : inserted'[n] < attempt'
      <4>1. ToSet(batch) \subseteq EmitIds
        BY EmitterIds
      <4> QED
        BY <2>1, <2>2, <2>3, <4>1
    <3>3. runPc \in {"flush", "last"}
      BY <2>1 DEF Flushing
    <3> QED
      BY <2>1, <2>2, <3>1, <3>2, <3>3 DEF EmitterInv, EmitterShape
  <2> QED
    BY <2>4, <2>5, <2>6 DEF EmitterInv
<1>2. CASE ~(attempt < FlushMax)
  BY <1>2, EndFlushKeeps DEF FlushFails
<1> QED
  BY <1>1, <1>2

LEMMA EmitterSteps == ASSUME EmitterInv, [EmitterNext]_emitterVars PROVE EmitterInv'
<1>1. CASE Emit
  BY <1>1, EmitKeeps
<1>2. CASE ReceiveEvent
  BY <1>2, ReceiveKeeps
<1>3. CASE SeeClosed
  <2>1. UNCHANGED <<calls, ch, chClosed, batch, attempt, inserted, dropped, discarded, mainPc>>
    BY <1>3 DEF SeeClosed
  <2>2. /\ runPc = "select" /\ chClosed /\ ch = <<>>
        /\ runPc' = IF batch = <<>> THEN "done" ELSE "last"
    BY <1>3 DEF SeeClosed
  <2> QED
    BY <2>1, <2>2 DEF EmitterInv, EmitterTypeOK, EventsConserved, EmitterShape
<1>4. CASE FlushOk
  BY <1>4, EndFlushKeeps DEF FlushOk
<1>5. CASE FlushFails
  BY <1>5, FlushFailsKeeps
<1>6. CASE FlushTick
  <2>1. UNCHANGED <<calls, ch, chClosed, batch, attempt, inserted, dropped, discarded, mainPc>>
    BY <1>6 DEF FlushTick
  <2>2. runPc = "select" /\ runPc' = "flush"
    BY <1>6 DEF FlushTick
  <2> QED
    BY <2>1, <2>2 DEF EmitterInv, EmitterTypeOK, EventsConserved, EmitterShape
<1>7. CASE ShutdownServer \/ (\E timedOut \in BOOLEAN : CloseReturns(timedOut))
  BY <1>7 DEF ShutdownServer, CloseReturns, EmitterInv, EmitterTypeOK, EventsConserved, EmitterShape
<1>8. CASE CloseEmitter
  BY <1>8 DEF CloseEmitter, EmitterInv, EmitterTypeOK, EventsConserved, EmitterShape
<1>9. CASE UNCHANGED emitterVars
  BY <1>9 DEF emitterVars, EmitterInv, EmitterTypeOK, EventsConserved, EmitterShape
<1> QED
  BY <1>1, <1>2, <1>3, <1>4, <1>5, <1>6, <1>7, <1>8, <1>9 DEF EmitterNext, RunEmitter

-----------------------------------------------------------------------------
(***************************************************************************)
(* The webhook deliveries.                                                  *)
(***************************************************************************)
LEMMA InitWebhookInv == WebhookInit => WebhookInv
<1> SUFFICES ASSUME WebhookInit PROVE WebhookInv
  OBVIOUS
<1>1. /\ 0 \in 0..MaxEdits /\ 0 \in 0..MaxEvents /\ 0 \in 0..MaxRetries /\ 0 <= QueueCap
      /\ <<>> \in Seq(Event) /\ <<>> \in Seq(Job) /\ Len(<<>>) = 0
  BY WebhookAssumption DEF WebhookAssumption
<1>2. WebhookTypeOK
  BY <1>1 DEF WebhookInit, WebhookTypeOK, NoDispatch, HookStates
<1>3. InTodo = {} /\ InWork = {} /\ InWorkers = {}
  BY <1>1 DEF WebhookInit, InTodo, InWork, InWorkers, NoDispatch
<1>4. DeliveryConserved
  BY <1>3 DEF WebhookInit, DeliveryConserved, SuccessIsReal, InFlight
<1>5. OnePlace /\ NewEvents /\ PostedByWorker
  BY <1>1, <1>3 DEF WebhookInit, OnePlace, NewEvents, PostedByWorker, NoDispatch
<1> QED
  BY <1>2, <1>4, <1>5 DEF WebhookInv

\* The places are what they were when the variables they are read from are.
LEMMA SameTodo == ASSUME disp'.todo = disp.todo PROVE InTodo' = InTodo
BY DEF InTodo
LEMMA SameWork == ASSUME work' = work PROVE InWork' = InWork
BY DEF InWork
LEMMA SameWorkers == ASSUME worker' = worker PROVE InWorkers' = InWorkers
BY DEF InWorkers

\* Administrators edit the rows.
LEMMA HookEditKeeps ==
    ASSUME WebhookInv, NEW h \in Hooks, CreateWebhook(h) \/ UpdateWebhook(h)
    PROVE  WebhookInv'
<1>1. UNCHANGED <<notified, events, disp, work, worker, whCtx, received, owed, rows, lost>>
  BY DEF CreateWebhook, UpdateWebhook, goroutines
<1>2. hooks' \in [Hooks -> HookStates] /\ edits' \in 0..MaxEdits
  <2>1. hooks \in [Hooks -> HookStates] /\ edits \in 0..MaxEdits /\ MaxEdits \in Nat
    BY WebhookAssumption DEF WebhookInv, WebhookTypeOK, WebhookAssumption
  <2>2. edits < MaxEdits /\ edits' = edits + 1
    BY DEF CreateWebhook, UpdateWebhook
  <2>3. PICK s \in HookStates : hooks' = [hooks EXCEPT ![h] = s]
    BY DEF CreateWebhook, UpdateWebhook, HookStates
  <2> QED
    BY <2>1, <2>2, <2>3
<1>3. InTodo' = InTodo /\ InWork' = InWork /\ InWorkers' = InWorkers
  BY <1>1, SameTodo, SameWork, SameWorkers
<1>4. WebhookTypeOK'
  BY <1>1, <1>2 DEF WebhookInv, WebhookTypeOK
<1>5. DeliveryConserved'
  BY <1>1, <1>3 DEF WebhookInv, DeliveryConserved, SuccessIsReal, InFlight
<1>6. OnePlace' /\ NewEvents' /\ PostedByWorker'
  BY <1>1, <1>3 DEF WebhookInv, OnePlace, NewEvents, PostedByWorker
<1> QED
  BY <1>4, <1>5, <1>6 DEF WebhookInv

LEMMA DeleteKeeps ==
    ASSUME WebhookInv, NEW h \in Hooks, DeleteWebhook(h)
    PROVE  WebhookInv'
<1>1. UNCHANGED <<notified, events, disp, work, worker, whCtx, received, owed>>
  BY DEF DeleteWebhook, goroutines
<1>2. hooks' \in [Hooks -> HookStates] /\ edits' \in 0..MaxEdits
  BY WebhookAssumption DEF WebhookInv, WebhookTypeOK, DeleteWebhook, HookStates, WebhookAssumption
<1>3. rows' \subseteq rows /\ lost' = lost \cup {x[1] : x \in rows \ rows'}
  BY DEF DeleteWebhook
<1>4. {x[1] : x \in rows'} \cup lost' = {x[1] : x \in rows} \cup lost
  BY <1>3
<1>5. InTodo' = InTodo /\ InWork' = InWork /\ InWorkers' = InWorkers
  BY <1>1, SameTodo, SameWork, SameWorkers
<1>6. WebhookTypeOK'
  <2>1. rows' \subseteq Deliveries \X BOOLEAN
    BY <1>3 DEF WebhookInv, WebhookTypeOK
  <2>2. \A x \in rows : x[1] \in Deliveries
    BY DEF WebhookInv, WebhookTypeOK
  <2>3. lost' \subseteq Deliveries
    BY <1>3, <2>2 DEF WebhookInv, WebhookTypeOK
  <2> QED
    BY <1>1, <1>2, <2>1, <2>3 DEF WebhookInv, WebhookTypeOK
<1>7. DeliveryConserved'
  <2>1. owed' = InFlight' \cup {x[1] : x \in rows'} \cup lost'
    BY <1>1, <1>4, <1>5 DEF WebhookInv, DeliveryConserved, InFlight
  <2>2. InFlight' \cap ({x[1] : x \in rows'} \cup lost') = {}
    BY <1>4, <1>5 DEF WebhookInv, DeliveryConserved, InFlight
  <2> QED
    BY <1>1, <1>3, <2>1, <2>2 DEF WebhookInv, DeliveryConserved, SuccessIsReal
<1>8. OnePlace' /\ NewEvents' /\ PostedByWorker'
  BY <1>1, <1>5 DEF WebhookInv, OnePlace, NewEvents, PostedByWorker
<1> QED
  BY <1>6, <1>7, <1>8 DEF WebhookInv

\* A flag change.
LEMMA NotifyKeeps == ASSUME WebhookInv, NotifyFlagChange PROVE WebhookInv'
<1>1. /\ UNCHANGED <<hooks, edits, disp, work, worker, whCtx, received, rows, owed, lost>>
      /\ notified' = notified + 1
  BY DEF NotifyFlagChange
<1>2. InTodo' = InTodo /\ InWork' = InWork /\ InWorkers' = InWorkers
  BY <1>1, SameTodo, SameWork, SameWorkers
<1>3. notified \in Nat /\ notified' \in 1..MaxEvents /\ events \in Seq(Event) /\ Len(events) \in Nat
      /\ Len(events) <= QueueCap /\ QueueCap \in Nat
  BY <1>1, WebhookAssumption DEF WebhookInv, WebhookTypeOK, NotifyFlagChange, WebhookAssumption
<1>4. PICK org \in BOOLEAN : events' = IF Len(events) = QueueCap THEN events
                                      ELSE Append(events, [id |-> notified', org |-> org])
  BY DEF NotifyFlagChange
<1> DEFINE e == [id |-> notified', org |-> org]
<1>5. e \in Event /\ e.id = notified'
  BY <1>3 DEF Event
<1> HIDE DEF e
<1>6. \A d \in owed : d[2] <= notified /\ d[2] \in Nat
  BY DEF WebhookInv, NewEvents, WebhookTypeOK, Deliveries
<1>7. /\ events' \in Seq(Event) /\ Len(events') <= QueueCap
      /\ NewEvents'
  <2>1. CASE Len(events) = QueueCap
    <3>1. events' = events
      BY <1>4, <2>1
    <3>2. \A i \in 1..Len(events) : events[i].id <= notified /\ events[i].id \in Nat
      <4>1. \A i \in 1..Len(events) : events[i] \in Event
        BY <1>3
      <4> QED
        BY <4>1 DEF WebhookInv, NewEvents, Event
    <3> QED
      BY <1>1, <1>3, <1>6, <3>1, <3>2 DEF WebhookInv, NewEvents
  <2>2. CASE Len(events) # QueueCap
    <3>1. events' = Append(events, e)
      BY <1>4, <2>2 DEF e
    <3>2. /\ events' \in Seq(Event) /\ Len(events') = Len(events) + 1
          /\ \A i \in 1..Len(events) : events'[i] = events[i]
          /\ events'[Len(events) + 1] = e
      BY <1>3, <1>5, <3>1, AppendSeq
    <3>3. \A i \in 1..Len(events') : i \in 1..Len(events) \/ i = Len(events) + 1
      BY <1>3, <3>2
    <3>4. \A i \in 1..Len(events) : events[i].id <= notified /\ events[i].id \in Nat
      <4>1. \A i \in 1..Len(events) : events[i] \in Event
        BY <1>3
      <4> QED
        BY <4>1 DEF WebhookInv, NewEvents, Event
    <3>5. \A i \in 1..Len(events) : events[i].id # notified' /\ events[i].id <= notified'
      BY <1>1, <1>3, <3>4
    <3>6. \A d \in owed : d[2] # notified' /\ d[2] <= notified'
      BY <1>1, <1>3, <1>6
    <3>7. \A i, k \in 1..Len(events') : events'[i].id = events'[k].id => i = k
      BY <1>5, <3>2, <3>3, <3>5 DEF WebhookInv, NewEvents
    <3>8. \A i \in 1..Len(events') : events'[i].id <= notified'
      BY <1>3, <1>5, <3>2, <3>3, <3>5
    <3>9. \A d \in owed', i \in 1..Len(events') : d[2] # events'[i].id
      BY <1>1, <1>5, <3>2, <3>3, <3>6 DEF WebhookInv, NewEvents
    <3>10. Len(events') <= QueueCap
      BY <1>3, <2>2, <3>2
    <3> QED
      BY <1>1, <3>2, <3>6, <3>7, <3>8, <3>9, <3>10 DEF NewEvents
  <2> QED
    BY <2>1, <2>2
<1>8. WebhookTypeOK'
  BY <1>1, <1>3, <1>7 DEF WebhookInv, WebhookTypeOK
<1>9. DeliveryConserved'
  BY <1>1, <1>2 DEF WebhookInv, DeliveryConserved, SuccessIsReal, InFlight
<1>10. OnePlace' /\ PostedByWorker'
  BY <1>1, <1>2 DEF WebhookInv, OnePlace, PostedByWorker
<1> QED
  BY <1>7, <1>8, <1>9, <1>10 DEF WebhookInv

\* What is left of the events' queue when its head is taken.
LEMMA TakeEvent ==
    ASSUME WebhookInv, events # <<>>, events' = Tail(events), UNCHANGED notified
    PROVE  /\ Head(events) \in Event /\ Head(events).id <= notified
           /\ \A d \in owed : d[2] # Head(events).id
           /\ events' \in Seq(Event) /\ Len(events') <= QueueCap
           /\ \A i, k \in 1..Len(events') : events'[i].id = events'[k].id => i = k
           /\ \A i \in 1..Len(events') : events'[i].id <= notified' /\ events'[i].id # Head(events).id
           /\ \A d \in owed, i \in 1..Len(events') : d[2] # events'[i].id
<1>1. events \in Seq(Event) /\ Len(events) <= QueueCap /\ QueueCap \in Nat
  BY WebhookAssumption DEF WebhookInv, WebhookTypeOK, WebhookAssumption
<1>2. /\ Len(events) \in Nat /\ Len(events) >= 1
      /\ Head(events) \in Event /\ Head(events) = events[1]
      /\ events' \in Seq(Event) /\ Len(events') = Len(events) - 1
      /\ \A i \in 1..Len(events') : events'[i] = events[i + 1]
  BY <1>1, TailSeq
<1>3. 1 \in 1..Len(events) /\ \A i \in 1..Len(events') : i + 1 \in 1..Len(events) /\ i + 1 # 1 /\ i \in Nat
  BY <1>2
<1>4. \A i, k \in 1..Len(events') : events'[i].id = events'[k].id => i = k
  <2>1. \A i, k \in 1..Len(events') : events'[i].id = events'[k].id => i + 1 = k + 1
    BY <1>2, <1>3 DEF WebhookInv, NewEvents
  <2> QED
    BY <1>3, <2>1
<1>5. \A i \in 1..Len(events') : events'[i].id <= notified' /\ events'[i].id # Head(events).id
  BY <1>2, <1>3 DEF WebhookInv, NewEvents
<1>6. \A d \in owed, i \in 1..Len(events') : d[2] # events'[i].id
  BY <1>2, <1>3 DEF WebhookInv, NewEvents
<1>7. Head(events).id <= notified /\ \A d \in owed : d[2] # Head(events).id
  BY <1>2, <1>3 DEF WebhookInv, NewEvents
<1>8. Len(events') <= QueueCap
  BY <1>1, <1>2
<1> QED
  BY <1>2, <1>4, <1>5, <1>6, <1>7, <1>8

LEMMA DispatchKeeps == ASSUME WebhookInv, Dispatch PROVE WebhookInv'
<1>1. /\ UNCHANGED <<hooks, edits, notified, work, worker, whCtx, received, rows>>
      /\ events # <<>> /\ events' = Tail(events) /\ disp.pc = "wait"
  BY DEF Dispatch
<1> DEFINE e == Head(events)
<1>2. /\ e \in Event /\ e.id <= notified
      /\ \A d \in owed : d[2] # e.id
      /\ events' \in Seq(Event) /\ Len(events') <= QueueCap
      /\ \A i, k \in 1..Len(events') : events'[i].id = events'[k].id => i = k
      /\ \A i \in 1..Len(events') : events'[i].id <= notified' /\ events'[i].id # e.id
      /\ \A d \in owed, i \in 1..Len(events') : d[2] # events'[i].id
  BY <1>1, TakeEvent
<1>3. InWork' = InWork /\ InWorkers' = InWorkers
  BY <1>1, SameWork, SameWorkers
<1>4. disp.todo = {} /\ InTodo = {}
  BY <1>1 DEF WebhookInv, PostedByWorker, InTodo
<1>5. ASSUME NEW got \in SUBSET Matching,
             owed' = owed \cup {<<h, e.id>> : h \in Matching},
             lost' = lost \cup {<<h, e.id>> : h \in Matching \ got},
             disp' = [pc |-> "fan", todo |-> JobsFor(got, e.id)]
      PROVE  WebhookInv'
  <2> DEFINE Found == {<<h, e.id>> : h \in Matching}
             New == {<<h, e.id>> : h \in got}
             Gone == {<<h, e.id>> : h \in Matching \ got}
  <2>1. e.id \in 1..MaxEvents /\ Matching \subseteq Hooks
    BY <1>2 DEF Event, Matching
  <2>2. /\ Found \subseteq Deliveries /\ Found = New \cup Gone /\ New \cap Gone = {}
        /\ \A d \in Found : d[2] = e.id
    BY <2>1, <1>5 DEF Deliveries
  <2>3. \A d \in Found : d \notin owed
    BY <1>2, <2>2
  <2>4. disp'.todo = JobsFor(got, e.id) /\ disp'.pc = "fan"
    BY <1>5
  <2>5. JobsFor(got, e.id) \subseteq Job
    <3>1. \A h \in got : <<h, e.id>> \in Deliveries
      BY <2>1, <1>5 DEF Deliveries
    <3>2. \A h \in got : [d |-> <<h, e.id>>, broken |-> hooks[h] = "broken"] \in Job
      BY <3>1 DEF Job
    <3> QED
      BY <3>2 DEF JobsFor
  <2>6. InTodo' = New
    <3>1. InTodo' = {j.d : j \in JobsFor(got, e.id)}
      BY <2>4 DEF InTodo
    <3>2. \A j \in JobsFor(got, e.id) : \E h \in got : j.d = <<h, e.id>>
      BY DEF JobsFor
    <3>3. \A h \in got : \E j \in JobsFor(got, e.id) : j.d = <<h, e.id>>
      <4> SUFFICES ASSUME NEW h \in got PROVE \E j \in JobsFor(got, e.id) : j.d = <<h, e.id>>
        OBVIOUS
      <4> DEFINE j == [d |-> <<h, e.id>>, broken |-> hooks[h] = "broken"]
      <4>1. j \in JobsFor(got, e.id) /\ j.d = <<h, e.id>>
        BY DEF JobsFor
      <4> QED
        BY <4>1
    <3> QED
      BY <3>1, <3>2, <3>3
  <2>7. \A j, k \in JobsFor(got, e.id) : j.d = k.d => j = k
    BY DEF JobsFor
  <2> HIDE DEF Found, New, Gone
  <2>8. owed' = owed \cup Found /\ lost' = lost \cup Gone
    BY <1>5 DEF Found, Gone
  <2>9. WebhookTypeOK'
    <3>1. disp' \in [pc : {"wait", "fan", "returned"}, todo : SUBSET Job]
      BY <1>5, <2>5
    <3> QED
      BY <1>1, <1>2, <2>2, <2>8, <3>1 DEF WebhookInv, WebhookTypeOK
  <2>10. DeliveryConserved'
    <3>1. /\ owed = InFlight \cup {x[1] : x \in rows} \cup lost
          /\ InFlight \cap ({x[1] : x \in rows} \cup lost) = {}
          /\ InFlight = InWork \cup InWorkers
      BY <1>4 DEF WebhookInv, DeliveryConserved, InFlight
    <3>2. InFlight' = New \cup InFlight
      BY <1>3, <2>6, <3>1 DEF InFlight
    <3>3. {x[1] : x \in rows'} = {x[1] : x \in rows}
      BY <1>1
    <3>4. owed' = InFlight' \cup {x[1] : x \in rows'} \cup lost'
      BY <2>2, <2>8, <3>1, <3>2, <3>3
    <3>5. InFlight' \cap ({x[1] : x \in rows'} \cup lost') = {}
      BY <2>2, <2>3, <2>8, <3>1, <3>2, <3>3
    <3> QED
      BY <1>1, <3>4, <3>5 DEF WebhookInv, DeliveryConserved, SuccessIsReal
  <2>11. OnePlace'
    <3>1. InWork \subseteq owed /\ InWorkers \subseteq owed
      BY DEF WebhookInv, DeliveryConserved, InFlight
    <3>2. New \cap (InWork \cup InWorkers) = {}
      BY <2>2, <2>3, <3>1
    <3> QED
      BY <1>1, <1>3, <2>4, <2>6, <2>7, <3>2 DEF WebhookInv, OnePlace
  <2>12. NewEvents'
    BY <1>1, <1>2, <2>2, <2>8 DEF WebhookInv, NewEvents
  <2>13. PostedByWorker'
    <3>1. \A d \in Deliveries : received[d] > 0 => d \in owed' \ (InTodo' \cup InWork')
      BY <1>3, <2>2, <2>3, <2>6, <2>8 DEF WebhookInv, PostedByWorker
    <3> QED
      BY <1>1, <2>4, <3>1 DEF WebhookInv, PostedByWorker
  <2> QED
    BY <2>9, <2>10, <2>11, <2>12, <2>13 DEF WebhookInv
<1>6. CASE UNCHANGED <<owed, lost, disp>>
  <2>1. InTodo' = InTodo
    BY <1>6, SameTodo
  <2>2. WebhookTypeOK'
    BY <1>1, <1>2, <1>6 DEF WebhookInv, WebhookTypeOK
  <2>3. DeliveryConserved' /\ OnePlace' /\ PostedByWorker'
    BY <1>1, <1>3, <1>6, <2>1
    DEF WebhookInv, DeliveryConserved, SuccessIsReal, InFlight, OnePlace, PostedByWorker
  <2>4. NewEvents'
    BY <1>1, <1>2, <1>6 DEF WebhookInv, NewEvents
  <2> QED
    BY <2>2, <2>3, <2>4 DEF WebhookInv
<1>7. \/ \E got \in SUBSET Matching :
            /\ owed' = owed \cup {<<h, e.id>> : h \in Matching}
            /\ lost' = lost \cup {<<h, e.id>> : h \in Matching \ got}
            /\ disp' = [pc |-> "fan", todo |-> JobsFor(got, e.id)]
      \/ UNCHANGED <<owed, lost, disp>>
  BY DEF Dispatch
<1> QED
  BY <1>5, <1>6, <1>7

\* The fan-out.
LEMMA FanOutKeeps == ASSUME WebhookInv, FanOut PROVE WebhookInv'
<1>1. PICK j \in disp.todo :
         /\ Len(work) < QueueCap
         /\ work' = Append(work, j)
         /\ disp' = [disp EXCEPT !.todo = @ \ {j}]
  BY DEF FanOut
<1>2. /\ UNCHANGED <<hooks, edits, notified, events, worker, whCtx, received, rows, owed, lost>>
      /\ disp.pc = "fan"
  BY DEF FanOut
<1>3. /\ disp \in [pc : {"wait", "fan", "returned"}, todo : SUBSET Job]
      /\ work \in Seq(Job) /\ Len(work) \in Nat /\ QueueCap \in Nat
  BY WebhookAssumption DEF WebhookInv, WebhookTypeOK, WebhookAssumption
<1>4. disp'.pc = "fan" /\ disp'.todo = disp.todo \ {j} /\ j \in Job
  BY <1>1, <1>2, <1>3
<1>5. /\ work' \in Seq(Job) /\ Len(work') = Len(work) + 1
      /\ \A i \in 1..Len(work) : work'[i] = work[i]
      /\ work'[Len(work) + 1] = j
  BY <1>1, <1>3, <1>4, AppendSeq
<1>6. InWorkers' = InWorkers
  BY <1>2, SameWorkers
<1>7. /\ \A i \in 1..Len(work') : i \in 1..Len(work) \/ i = Len(work) + 1
      /\ \A i \in 1..Len(work) : i \in 1..Len(work')
      /\ Len(work) + 1 \in 1..Len(work')
  BY <1>3, <1>5
<1>8. InWork' = InWork \cup {j.d}
  <2>1. InWork' \subseteq InWork \cup {j.d}
    BY <1>5, <1>7 DEF InWork
  <2>2. InWork \subseteq InWork' /\ j.d \in InWork'
    BY <1>5, <1>7 DEF InWork
  <2> QED
    BY <2>1, <2>2
<1>9. InTodo = InTodo' \cup {j.d} /\ j.d \notin InTodo'
  <2>1. \A k \in disp.todo : k.d = j.d => k = j
    BY <1>1 DEF WebhookInv, OnePlace
  <2> QED
    BY <1>1, <1>4, <2>1 DEF InTodo
<1>10. InFlight' = InFlight
  BY <1>6, <1>8, <1>9 DEF InFlight
<1>11. WebhookTypeOK'
  <2>1. disp' \in [pc : {"wait", "fan", "returned"}, todo : SUBSET Job]
    BY <1>1, <1>3
  <2>2. Len(work') <= QueueCap
    BY <1>1, <1>3, <1>5
  <2> QED
    BY <1>2, <1>5, <2>1, <2>2 DEF WebhookInv, WebhookTypeOK
<1>12. DeliveryConserved'
  BY <1>2, <1>10 DEF WebhookInv, DeliveryConserved, SuccessIsReal
<1>13. OnePlace'
  <2>1. j.d \notin InWork /\ j.d \notin InWorkers
    BY <1>9 DEF WebhookInv, OnePlace
  <2>2. \A i, k \in 1..Len(work') : work'[i].d = work'[k].d => i = k
    <3>1. \A i \in 1..Len(work) : work'[i].d # j.d
      BY <1>5, <2>1 DEF InWork
    <3>2. \A i, k \in 1..Len(work) : work'[i].d = work'[k].d => i = k
      BY <1>5 DEF WebhookInv, OnePlace
    <3> QED
      BY <1>5, <1>7, <3>1, <3>2
  <2>3. \A i, k \in disp'.todo : i.d = k.d => i = k
    BY <1>4 DEF WebhookInv, OnePlace
  <2>4. InTodo' \cap (InWork' \cup InWorkers') = {} /\ InWork' \cap InWorkers' = {}
    BY <1>6, <1>8, <1>9, <2>1 DEF WebhookInv, OnePlace
  <2> QED
    BY <2>2, <2>3, <2>4 DEF OnePlace
<1>14. NewEvents'
  BY <1>2 DEF WebhookInv, NewEvents
<1>15. PostedByWorker'
  BY <1>2, <1>4, <1>8, <1>9 DEF WebhookInv, PostedByWorker
<1> QED
  BY <1>11, <1>12, <1>13, <1>14, <1>15 DEF WebhookInv

\* The dispatcher waits again, or returns and gives up what it had to fan out.
LEMMA DispatcherEndsKeeps ==
    ASSUME WebhookInv, FannedOut \/ DispatcherReturns
    PROVE  WebhookInv'
<1>1. /\ UNCHANGED <<hooks, edits, notified, events, work, worker, whCtx, received, rows, owed>>
      /\ disp' \in [pc : {"wait", "fan", "returned"}, todo : SUBSET Job]
      /\ disp'.todo = {} /\ lost' = lost \cup InTodo
  <2>1. CASE FannedOut
    BY <2>1 DEF FannedOut, NoDispatch, InTodo
  <2>2. CASE DispatcherReturns
    BY <2>2 DEF DispatcherReturns, InTodo
  <2> QED
    BY <2>1, <2>2
<1>2. InTodo' = {} /\ InWork' = InWork /\ InWorkers' = InWorkers
  BY <1>1, SameWork, SameWorkers DEF InTodo
<1>3. InTodo \subseteq owed
  BY DEF WebhookInv, DeliveryConserved, InFlight
<1>4. WebhookTypeOK'
  BY <1>1, <1>3 DEF WebhookInv, WebhookTypeOK
<1>5. DeliveryConserved'
  <2>1. owed' = InFlight' \cup {x[1] : x \in rows'} \cup lost'
    BY <1>1, <1>2 DEF WebhookInv, DeliveryConserved, InFlight
  <2>2. InFlight' \cap ({x[1] : x \in rows'} \cup lost') = {}
    BY <1>1, <1>2 DEF WebhookInv, DeliveryConserved, OnePlace, InFlight
  <2> QED
    BY <1>1, <2>1, <2>2 DEF WebhookInv, DeliveryConserved, SuccessIsReal
<1>6. OnePlace' /\ NewEvents' /\ PostedByWorker'
  BY <1>1, <1>2 DEF WebhookInv, OnePlace, NewEvents, PostedByWorker
<1> QED
  BY <1>4, <1>5, <1>6 DEF WebhookInv

\* A worker takes a delivery from the queue.
LEMMA TakeKeeps == ASSUME WebhookInv, NEW w \in Workers, Take(w) PROVE WebhookInv'
<1> DEFINE j == Head(work)
           job == [pc |-> "try", job |-> j, attempt |-> 1, ok |-> FALSE]
<1>1. /\ UNCHANGED <<hooks, edits, notified, events, disp, whCtx, received, rows, owed, lost>>
      /\ worker[w] = Idle /\ work # <<>> /\ work' = Tail(work)
      /\ worker' = [worker EXCEPT ![w] = job]
  BY DEF Take
<1>2. /\ work \in Seq(Job) /\ QueueCap \in Nat /\ MaxRetries \in Nat \ {0} /\ Len(work) <= QueueCap
      /\ worker \in [Workers -> {Idle} \cup Busy]
  BY WebhookAssumption DEF WebhookInv, WebhookTypeOK, WebhookAssumption
<1>3. /\ Len(work) \in Nat /\ Len(work) >= 1
      /\ j \in Job /\ j = work[1]
      /\ work' \in Seq(Job) /\ Len(work') = Len(work) - 1
      /\ \A i \in 1..Len(work') : work'[i] = work[i + 1]
  BY <1>1, <1>2, TailSeq
<1> HIDE DEF j
<1>4. job \in Busy /\ job # Idle /\ job.job = j /\ job.pc = "try" /\ job.attempt = 1 /\ ~job.ok
  BY <1>2, <1>3 DEF Busy, Idle
<1> HIDE DEF job
<1>5. worker'[w] = job /\ \A v \in Workers \ {w} : worker'[v] = worker[v]
  BY <1>1, <1>2
<1>6. 1 \in 1..Len(work) /\ \A i \in 1..Len(work') : i + 1 \in 1..Len(work) /\ i + 1 # 1 /\ i \in Nat
  BY <1>3
<1>7. /\ InWork = InWork' \cup {j.d} /\ j.d \notin InWork'
      /\ \A i, k \in 1..Len(work') : work'[i].d = work'[k].d => i = k
  <2>1. \A i \in 1..Len(work) : i = 1 \/ (i - 1 \in 1..Len(work') /\ work'[i - 1] = work[i])
    BY <1>3
  <2>2. InWork \subseteq InWork' \cup {j.d}
    BY <1>3, <2>1, SMTT(30) DEF InWork
  <2>3. InWork' \cup {j.d} \subseteq InWork
    BY <1>3, <1>6 DEF InWork
  <2>4. \A i \in 1..Len(work') : work'[i].d # j.d
    BY <1>3, <1>6 DEF WebhookInv, OnePlace
  <2>5. \A i, k \in 1..Len(work') : work'[i].d = work'[k].d => i + 1 = k + 1
    BY <1>3, <1>6 DEF WebhookInv, OnePlace
  <2>6. \A i, k \in 1..Len(work') : work'[i].d = work'[k].d => i = k
    BY <1>6, <2>5
  <2> QED
    BY <2>2, <2>3, <2>4, <2>6 DEF InWork
<1>8. InWorkers' = InWorkers \cup {j.d} /\ j.d \notin InWorkers
  <2>1. j.d \notin InWorkers
    BY <1>7 DEF WebhookInv, OnePlace
  <2>2. InWorkers' \subseteq InWorkers \cup {j.d}
    BY <1>4, <1>5 DEF InWorkers
  <2>3. InWorkers \subseteq InWorkers' /\ j.d \in InWorkers'
    BY <1>1, <1>4, <1>5 DEF InWorkers
  <2> QED
    BY <2>1, <2>2, <2>3
<1>9. InTodo' = InTodo
  BY <1>1, SameTodo
<1>10. InFlight' = InFlight
  BY <1>7, <1>8, <1>9 DEF InFlight
<1>11. WebhookTypeOK'
  <2>1. worker' \in [Workers -> {Idle} \cup Busy]
    BY <1>1, <1>2, <1>4
  <2>2. Len(work') <= QueueCap
    BY <1>2, <1>3
  <2> QED
    BY <1>1, <1>3, <2>1, <2>2 DEF WebhookInv, WebhookTypeOK
<1>12. received[j.d] = 0
  <2>1. j.d \in InWork /\ j.d \in Deliveries
    BY <1>3, <1>7 DEF Job
  <2>2. received[j.d] \in 0..MaxRetries /\ ~(received[j.d] > 0)
    BY <2>1 DEF WebhookInv, WebhookTypeOK, PostedByWorker
  <2> QED
    BY <1>2, <2>2
<1>13. DeliveryConserved'
  <2>1. \A v, u \in Workers :
          worker'[v] # Idle /\ worker'[u] # Idle /\ worker'[v].job.d = worker'[u].job.d => v = u
    <3>1. \A v \in Workers \ {w} : worker'[v] # Idle => worker'[v].job.d # j.d
      BY <1>5, <1>8 DEF InWorkers
    <3>2. \A v, u \in Workers \ {w} :
            worker'[v] # Idle /\ worker'[u] # Idle /\ worker'[v].job.d = worker'[u].job.d => v = u
      BY <1>5 DEF WebhookInv, DeliveryConserved
    <3> QED
      BY <1>4, <1>5, <3>1, <3>2
  <2>2. SuccessIsReal'
    BY <1>1, <1>4, <1>5, <1>12 DEF WebhookInv, DeliveryConserved, SuccessIsReal
  <2> QED
    BY <1>1, <1>10, <2>1, <2>2 DEF WebhookInv, DeliveryConserved
<1>14. OnePlace'
  BY <1>1, <1>7, <1>8, <1>9 DEF WebhookInv, OnePlace
<1>15. NewEvents'
  BY <1>1 DEF WebhookInv, NewEvents
<1>16. PostedByWorker'
  BY <1>1, <1>4, <1>5, <1>7, <1>9 DEF WebhookInv, PostedByWorker
<1> QED
  BY <1>11, <1>13, <1>14, <1>15, <1>16 DEF WebhookInv

\* What is known of a worker that makes a delivery.
LEMMA BusyWorker ==
    ASSUME WebhookInv, NEW w \in Workers, worker[w] # Idle
    PROVE  /\ worker[w] \in Busy /\ worker[w].job.d \in Deliveries
           /\ worker[w].job.d \in InWorkers /\ worker[w].job.d \in owed
           /\ \A v \in Workers \ {w} : worker[v] # Idle => worker[v].job.d # worker[w].job.d
<1>1. worker[w] \in Busy
  BY DEF WebhookInv, WebhookTypeOK
<1>2. worker[w].job.d \in Deliveries
  BY <1>1 DEF Busy, Job
<1>3. worker[w].job.d \in InWorkers
  BY DEF InWorkers
<1>4. worker[w].job.d \in owed
  BY <1>3 DEF WebhookInv, DeliveryConserved, InFlight
<1>5. \A v \in Workers \ {w} : worker[v] # Idle => worker[v].job.d # worker[w].job.d
  BY DEF WebhookInv, DeliveryConserved
<1> QED
  BY <1>1, <1>2, <1>3, <1>4, <1>5

\* A worker is done with its delivery, which left a row or is lost.
LEMMA DoneKeeps ==
    ASSUME WebhookInv, NEW w \in Workers, worker[w] # Idle,
           worker' = [worker EXCEPT ![w] = Idle],
           UNCHANGED <<hooks, edits, notified, events, disp, work, whCtx, received, owed>>,
           \/ rows' = rows /\ lost' = lost \cup {worker[w].job.d}
           \/ /\ rows' = rows \cup {<<worker[w].job.d, worker[w].ok>>} /\ lost' = lost
              /\ worker[w].pc = "record"
    PROVE  WebhookInv'
<1> DEFINE d == worker[w].job.d
           Rowed == {x[1] : x \in rows}
<1>1. /\ worker[w] \in Busy /\ d \in Deliveries /\ d \in InWorkers /\ d \in owed
      /\ \A v \in Workers \ {w} : worker[v] # Idle => worker[v].job.d # d
  BY BusyWorker
<1>2. worker \in [Workers -> {Idle} \cup Busy]
  BY DEF WebhookInv, WebhookTypeOK
<1>3. worker'[w] = Idle /\ \A v \in Workers \ {w} : worker'[v] = worker[v]
  BY <1>2
<1>4. InWorkers = InWorkers' \cup {d} /\ d \notin InWorkers'
  <2>1. InWorkers \subseteq InWorkers' \cup {d}
    BY <1>3 DEF InWorkers
  <2>2. InWorkers' \subseteq InWorkers
    BY <1>3 DEF InWorkers
  <2>3. d \notin InWorkers'
    BY <1>1, <1>3 DEF InWorkers
  <2> QED
    BY <1>1, <2>1, <2>2, <2>3
<1>5. InTodo' = InTodo /\ InWork' = InWork
  BY SameTodo, SameWork
<1>6. /\ InFlight = InFlight' \cup {d} /\ d \notin InFlight'
      /\ owed = InFlight \cup Rowed \cup lost
      /\ InFlight \cap (Rowed \cup lost) = {}
  BY <1>1, <1>4, <1>5 DEF WebhookInv, OnePlace, DeliveryConserved, InFlight
<1>7. {x[1] : x \in rows'} \cup lost' = Rowed \cup lost \cup {d}
  <2>1. CASE rows' = rows /\ lost' = lost \cup {d}
    BY <2>1
  <2>2. CASE rows' = rows \cup {<<d, worker[w].ok>>} /\ lost' = lost
    <3>1. <<d, worker[w].ok>>[1] = d
      OBVIOUS
    <3>2. {x[1] : x \in rows'} = Rowed \cup {d}
      BY <2>2, <3>1
    <3> QED
      BY <2>2, <3>2
  <2> QED
    BY <2>1, <2>2
<1>8. worker[w].ok \in BOOLEAN
  BY <1>1 DEF Busy
<1>9. WebhookTypeOK'
  <2>1. rows' \subseteq Deliveries \X BOOLEAN /\ lost' \subseteq Deliveries
    BY <1>1, <1>8 DEF WebhookInv, WebhookTypeOK
  <2>2. worker' \in [Workers -> {Idle} \cup Busy]
    BY <1>2
  <2> QED
    BY <2>1, <2>2 DEF WebhookInv, WebhookTypeOK
<1>10. DeliveryConserved'
  <2>1. owed' = InFlight' \cup ({x[1] : x \in rows'} \cup lost')
    BY <1>6, <1>7
  <2>2. InFlight' \cap ({x[1] : x \in rows'} \cup lost') = {}
    BY <1>6, <1>7
  <2>3. \A v, u \in Workers :
          worker'[v] # Idle /\ worker'[u] # Idle /\ worker'[v].job.d = worker'[u].job.d => v = u
    BY <1>3 DEF WebhookInv, DeliveryConserved
  <2>4. \A x, y \in rows' : x[1] = y[1] => x = y
    <3>1. \A x \in rows : x[1] # d
      BY <1>1, <1>6
    <3>2. \A x, y \in rows : x[1] = y[1] => x = y
      BY DEF WebhookInv, DeliveryConserved
    <3> QED
      BY <3>1, <3>2
  <2>5. SuccessIsReal'
    <3>1. \A x \in rows' : x[2] => received[x[1]] > 0
      <4>1. CASE rows' = rows
        BY <4>1 DEF WebhookInv, DeliveryConserved, SuccessIsReal
      <4>2. CASE rows' = rows \cup {<<d, worker[w].ok>>} /\ worker[w].pc = "record"
        <5>1. worker[w].ok => received[d] > 0
          BY <4>2 DEF WebhookInv, PostedByWorker
        <5>2. \A x \in rows : x[2] => received[x[1]] > 0
          BY DEF WebhookInv, DeliveryConserved, SuccessIsReal
        <5> QED
          BY <4>2, <5>1, <5>2
      <4> QED
        BY <4>1, <4>2
    <3> QED
      BY <1>3, <3>1 DEF WebhookInv, DeliveryConserved, SuccessIsReal
  <2> QED
    BY <2>1, <2>2, <2>3, <2>4, <2>5 DEF DeliveryConserved
<1>11. OnePlace'
  BY <1>4, <1>5 DEF WebhookInv, OnePlace
<1>12. NewEvents' /\ PostedByWorker'
  BY <1>3, <1>5 DEF WebhookInv, NewEvents, PostedByWorker
<1> QED
  BY <1>9, <1>10, <1>11, <1>12 DEF WebhookInv

\* A worker makes an attempt at its delivery: the endpoint may get it.
LEMMA AttemptKeeps ==
    ASSUME WebhookInv, NEW w \in Workers, Trying(w),
           NEW b \in Busy, b.job = worker[w].job, worker' = [worker EXCEPT ![w] = b],
           UNCHANGED <<hooks, edits, notified, events, disp, work, whCtx, rows, owed, lost>>,
           Received(w) \/ UNCHANGED received,
           b.pc = "record" \/ (b.pc = "try" /\ b.attempt = worker[w].attempt + 1),
           b.ok => b.pc = "record" /\ Received(w)
    PROVE  WebhookInv'
<1> DEFINE d == worker[w].job.d
<1>1. worker[w] # Idle /\ worker[w].pc = "try" /\ b # Idle /\ b.job.d = d
  BY DEF Trying, Busy, Idle
<1>2. /\ worker[w] \in Busy /\ d \in Deliveries /\ d \in InWorkers /\ d \in owed
      /\ \A v \in Workers \ {w} : worker[v] # Idle => worker[v].job.d # d
  BY <1>1, BusyWorker
<1>3. worker \in [Workers -> {Idle} \cup Busy] /\ received \in [Deliveries -> 0..MaxRetries]
      /\ MaxRetries \in Nat
  BY WebhookAssumption DEF WebhookInv, WebhookTypeOK, WebhookAssumption
<1>4. worker'[w] = b /\ \A v \in Workers \ {w} : worker'[v] = worker[v]
  BY <1>3
<1>5. received[d] \in Nat /\ received[d] < worker[w].attempt /\ worker[w].attempt \in 1..MaxRetries
  BY <1>1, <1>2, <1>3 DEF WebhookInv, DeliveryConserved, SuccessIsReal, Busy
<1>6. /\ received' \in [Deliveries -> 0..MaxRetries]
      /\ \A c \in Deliveries \ {d} : received'[c] = received[c]
      /\ received[d] <= received'[d] /\ received'[d] <= worker[w].attempt
      /\ Received(w) => received'[d] > 0
  <2>1. CASE Received(w)
    <3>1. received'[d] = received[d] + 1 /\ \A c \in Deliveries \ {d} : received'[c] = received[c]
      BY <1>2, <1>3, <2>1 DEF Received
    <3>2. received[d] + 1 \in 0..MaxRetries
      BY <1>3, <1>5
    <3>3. received' \in [Deliveries -> 0..MaxRetries]
      BY <1>3, <2>1, <3>2 DEF Received
    <3> QED
      BY <1>3, <1>5, <3>1, <3>3
  <2>2. CASE UNCHANGED received
    <3>1. ~Received(w)
      BY <1>2, <1>3, <1>5, <2>2 DEF Received
    <3> QED
      BY <1>3, <1>5, <2>2, <3>1
  <2> QED
    BY <2>1, <2>2
<1> HIDE DEF d
<1>7. InWorkers' = InWorkers
  <2>1. InWorkers \subseteq InWorkers'
    BY <1>1, <1>4 DEF InWorkers, d
  <2>2. InWorkers' \subseteq InWorkers
    BY <1>1, <1>4 DEF InWorkers, d
  <2> QED
    BY <2>1, <2>2
<1>8. InTodo' = InTodo /\ InWork' = InWork /\ InFlight' = InFlight
  BY <1>7, SameTodo, SameWork DEF InFlight
<1>9. WebhookTypeOK'
  BY <1>3, <1>6 DEF WebhookInv, WebhookTypeOK
<1>10. \A v \in Workers \ {w} : worker[v] # Idle =>
          worker[v].job.d \in Deliveries \ {d}
  BY <1>2, BusyWorker
<1>11. DeliveryConserved'
  <2>1. \A v, u \in Workers :
          worker'[v] # Idle /\ worker'[u] # Idle /\ worker'[v].job.d = worker'[u].job.d => v = u
    BY <1>1, <1>4, <1>10 DEF WebhookInv, DeliveryConserved
  <2>2. \A x \in rows' : x[2] => received'[x[1]] > 0
    <3>1. \A x \in rows : x[1] \in Deliveries
      BY DEF WebhookInv, WebhookTypeOK
    <3>2. \A x \in rows : received[x[1]] <= received'[x[1]]
      BY <1>3, <1>6, <3>1
    <3>3. \A x \in rows : received[x[1]] \in Nat /\ received'[x[1]] \in Nat
      BY <1>3, <1>6, <3>1
    <3> QED
      BY <3>2, <3>3 DEF WebhookInv, DeliveryConserved, SuccessIsReal
  <2>3. \A v \in Workers : worker'[v] # Idle /\ worker'[v].pc = "try" =>
          received'[worker'[v].job.d] < worker'[v].attempt
    <3>1. \A v \in Workers \ {w} : worker'[v] # Idle /\ worker'[v].pc = "try" =>
             received'[worker'[v].job.d] < worker'[v].attempt
      BY <1>4, <1>6, <1>10 DEF WebhookInv, DeliveryConserved, SuccessIsReal
    <3>2. b.pc = "try" => received'[d] < b.attempt
      <4>1. received'[d] \in Nat /\ worker[w].attempt \in Nat
        BY <1>2, <1>3, <1>5, <1>6
      <4>2. b.pc = "try" => b.attempt = worker[w].attempt + 1
        OBVIOUS
      <4> QED
        BY <1>6, <4>1, <4>2
    <3> QED
      BY <1>1, <1>4, <3>1, <3>2
  <2>4. SuccessIsReal'
    BY <2>2, <2>3 DEF SuccessIsReal
  <2> QED
    BY <1>8, <2>1, <2>4 DEF WebhookInv, DeliveryConserved
<1>12. OnePlace' /\ NewEvents'
  BY <1>7, <1>8 DEF WebhookInv, OnePlace, NewEvents
<1>13. PostedByWorker'
  <2>1. \A c \in Deliveries : received'[c] > 0 => c \in owed' \ (InTodo' \cup InWork')
    <3>1. d \in owed /\ d \notin InTodo \cup InWork
      BY <1>2 DEF WebhookInv, OnePlace
    <3> QED
      BY <1>6, <1>8, <3>1 DEF WebhookInv, PostedByWorker
  <2>2. \A v \in Workers : worker'[v] # Idle /\ worker'[v].ok =>
          worker'[v].pc = "record" /\ received'[worker'[v].job.d] > 0
    BY <1>1, <1>4, <1>6, <1>10 DEF WebhookInv, PostedByWorker
  <2> QED
    BY <2>1, <2>2 DEF WebhookInv, PostedByWorker
<1> QED
  BY <1>9, <1>11, <1>12, <1>13 DEF WebhookInv

LEMMA AnsweredKeeps == ASSUME WebhookInv, NEW w \in Workers, Answered(w) PROVE WebhookInv'
<1>1. Trying(w) /\ Received(w)
      /\ UNCHANGED <<hooks, edits, notified, events, disp, work, whCtx, rows, owed, lost>>
  BY DEF Answered
<1>2. PICK ok \in BOOLEAN : worker' = [worker EXCEPT ![w].pc = "record", ![w].ok = ok]
  BY DEF Answered
<1>3. worker[w] \in Busy
  BY <1>1, BusyWorker DEF Trying
<1> DEFINE b == [worker[w] EXCEPT !.pc = "record", !.ok = ok]
<1>4. b \in Busy /\ b.job = worker[w].job /\ b.pc = "record"
  BY <1>3 DEF Busy
<1>5. worker' = [worker EXCEPT ![w] = b]
  BY <1>2 DEF WebhookInv, WebhookTypeOK
<1> HIDE DEF b
<1> QED
  BY <1>1, <1>4, <1>5, AttemptKeeps

LEMMA RetryKeeps == ASSUME WebhookInv, NEW w \in Workers, Retry(w) PROVE WebhookInv'
<1>1. /\ Trying(w) /\ (Received(w) \/ UNCHANGED received)
      /\ UNCHANGED <<hooks, edits, notified, events, disp, work, whCtx, rows, owed, lost>>
  BY DEF Retry
<1>2. worker[w] \in Busy /\ worker[w].pc = "try" /\ worker[w] # Idle
  BY <1>1, BusyWorker DEF Trying
<1>3. ~worker[w].ok
  BY <1>2 DEF WebhookInv, PostedByWorker
<1> DEFINE b == NextTry(worker[w])
<1>4. b \in Busy
  BY <1>2, WebhookAssumption DEF Busy, WebhookAssumption, NextTry
<1>5. /\ b.job = worker[w].job /\ b.ok = worker[w].ok
      /\ b.pc = "record" \/ (b.pc = "try" /\ b.attempt = worker[w].attempt + 1)
  BY <1>2 DEF Busy, NextTry
<1>6. worker' = [worker EXCEPT ![w] = b]
  BY DEF Retry
<1> HIDE DEF b
<1> QED
  BY <1>1, <1>3, <1>4, <1>5, <1>6, AttemptKeeps

\* The process ends.
LEMMA ExitKeeps == ASSUME WebhookInv, ExitWebhooks PROVE WebhookInv'
<1>1. /\ UNCHANGED <<hooks, edits, notified, received, rows, owed>>
      /\ whCtx' = "exited" /\ lost' = lost \cup InFlight
      /\ events' = <<>> /\ work' = <<>>
      /\ disp' = [pc |-> "returned", todo |-> {}]
      /\ worker' = [v \in Workers |-> Idle]
  BY DEF ExitWebhooks
<1>2. /\ <<>> \in Seq(Event) /\ <<>> \in Seq(Job) /\ Len(<<>>) = 0 /\ 0 <= QueueCap
      /\ \A i \in 1..0 : FALSE
  BY WebhookAssumption DEF WebhookAssumption
<1>3. InTodo' = {} /\ InWork' = {} /\ InWorkers' = {}
  BY <1>1, <1>2 DEF InTodo, InWork, InWorkers
<1>4. /\ owed = InFlight \cup {x[1] : x \in rows} \cup lost /\ owed \subseteq Deliveries
  BY DEF WebhookInv, DeliveryConserved, WebhookTypeOK
<1>5. WebhookTypeOK'
  BY <1>1, <1>2, <1>4 DEF WebhookInv, WebhookTypeOK
<1>6. DeliveryConserved'
  <2>1. owed' = InFlight' \cup {x[1] : x \in rows'} \cup lost' /\ InFlight' = {}
    BY <1>1, <1>3, <1>4 DEF InFlight
  <2>2. \A v \in Workers : worker'[v] = Idle
    BY <1>1
  <2> QED
    BY <1>1, <2>1, <2>2 DEF WebhookInv, DeliveryConserved, SuccessIsReal
<1>7. OnePlace' /\ NewEvents' /\ PostedByWorker'
  BY <1>1, <1>2, <1>3 DEF WebhookInv, OnePlace, NewEvents, PostedByWorker
<1> QED
  BY <1>5, <1>6, <1>7 DEF WebhookInv

LEMMA WebhookSteps == ASSUME WebhookInv, [WebhookNext]_webhookVars PROVE WebhookInv'
<1>1. ASSUME NEW h \in Hooks, CreateWebhook(h) \/ UpdateWebhook(h) \/ DeleteWebhook(h)
      PROVE  WebhookInv'
  BY <1>1, HookEditKeeps, DeleteKeeps
<1>2. CASE NotifyFlagChange
  BY <1>2, NotifyKeeps
<1>3. CASE Dispatcher
  BY <1>3, DispatchKeeps, FanOutKeeps, DispatcherEndsKeeps DEF Dispatcher
<1>4. CASE CancelDispatcher \/ UNCHANGED webhookVars
  <2>1. /\ UNCHANGED <<hooks, edits, notified, events, disp, work, worker, received, rows, owed, lost>>
        /\ whCtx' \in {whCtx, "cancelled"}
    BY <1>4 DEF CancelDispatcher, webhookVars
  <2>2. InTodo' = InTodo /\ InWork' = InWork /\ InWorkers' = InWorkers
    BY <2>1, SameTodo, SameWork, SameWorkers
  <2>3. WebhookTypeOK'
    BY <2>1 DEF WebhookInv, WebhookTypeOK
  <2>4. DeliveryConserved' /\ OnePlace' /\ NewEvents' /\ PostedByWorker'
    BY <2>1, <2>2
    DEF WebhookInv, DeliveryConserved, SuccessIsReal, InFlight, OnePlace, NewEvents, PostedByWorker
  <2> QED
    BY <2>3, <2>4 DEF WebhookInv
<1>5. CASE ExitWebhooks
  BY <1>5, ExitKeeps
<1>6. ASSUME NEW w \in Workers, Worker(w) PROVE WebhookInv'
  <2>1. CASE Take(w)
    BY <2>1, TakeKeeps
  <2>2. CASE BadURL(w)
    BY <2>2, DoneKeeps DEF BadURL
  <2>3. CASE Answered(w)
    BY <2>3, AnsweredKeeps
  <2>4. CASE Retry(w)
    BY <2>4, RetryKeeps
  <2>5. CASE Record(w)
    BY <2>5, DoneKeeps DEF Record
  <2> QED
    BY <1>6, <2>1, <2>2, <2>3, <2>4, <2>5 DEF Worker
<1> QED
  BY <1>1, <1>2, <1>3, <1>4, <1>5, <1>6 DEF WebhookNext

-----------------------------------------------------------------------------
(***************************************************************************)
(* The theorems.                                                            *)
(***************************************************************************)
\* Whatever the server, the readers and their connections do, a reader on a live
\* stream has an event coming, has missed one, or is at the current version or
\* about to be (sse/server.go, sdks/go/client.go, cmd/relay).
THEOREM StreamInductive == StreamSpec => []StreamInv
BY InitStreamInv, StreamSteps, PTL DEF StreamSpec

\* A streaming reader that holds an outdated version has an event or a fetch coming,
\* or missed one while it was not connected or when its fetch failed: the event a
\* full buffer drops (sse/server.go) never is the reason.
THEOREM StaleStreamIsExplained == StreamSpec => []StaleStreamExplained
<1>1. StreamInv => StaleStreamExplained
  BY DEF StreamInv, StaleStreamExplained, Covered
<1> QED
  BY StreamInductive, <1>1, PTL

-----------------------------------------------------------------------------

\* Whatever administrators, the dispatcher and its workers do, and whenever the
\* context is cancelled or the process ends, a delivery is in one place, an event in
\* the queue was never dispatched before, and only a worker posts
\* (internal/webhook/dispatcher.go).
THEOREM WebhookInductive == WebhookSpec => []WebhookInv
BY InitWebhookInv, WebhookSteps, PTL DEF WebhookSpec

\* Every delivery the dispatcher found to make is in flight once, has one row, or was
\* lost in one of the ways the code knows, and a row that says success stands for a
\* request the endpoint answered: for any number of webhooks, workers and attempts and
\* any capacity of the queues (internal/webhook/dispatcher.go, worker.go).
THEOREM DeliveriesAreConserved == WebhookSpec => []DeliveryConserved
<1>1. WebhookInv => DeliveryConserved
  BY DEF WebhookInv
<1> QED
  BY WebhookInductive, <1>1, PTL

\* However Emit, the flushing goroutine and Close interleave, an event is at one place
\* of channel and batch and stored once an attempt at most (internal/events/emitter.go).
THEOREM EmitterInductive == EmitterSpec => []EmitterInv
BY InitEmitterInv, EmitterSteps, PTL DEF EmitterSpec

\* Every event Emit was called with is stored, on its way, refused by a full or closed
\* channel, or given up after the last attempt; once the goroutine is done neither
\* channel nor batch holds one: for every channel and batch size and number of attempts
\* (internal/events/emitter.go).
THEOREM EventsAreConserved == EmitterSpec => []EventsConserved
<1>1. EmitterInv => EventsConserved
  BY DEF EmitterInv
<1> QED
  BY EmitterInductive, <1>1, PTL

\* The three parts keep their types, side by side: queues within their capacity, no
\* delivery posted and no event stored more often than there are attempts.
THEOREM DeliveryTypes == Spec => []TypeOK
<1> DEFINE Inv == StreamInv /\ WebhookInv /\ EmitterInv
<1>1. Init => Inv
  BY InitStreamInv, InitWebhookInv, InitEmitterInv DEF Init
<1>2. Inv /\ [Next]_vars => Inv'
  <2>1. StreamInv /\ [StreamNext]_streamVars => StreamInv'
    BY StreamSteps
  <2>2. WebhookInv /\ [WebhookNext]_webhookVars => WebhookInv'
    BY WebhookSteps
  <2>3. EmitterInv /\ [EmitterNext]_emitterVars => EmitterInv'
    BY EmitterSteps
  <2>4. [Next]_vars => /\ [StreamNext]_streamVars
                       /\ [WebhookNext]_webhookVars
                       /\ [EmitterNext]_emitterVars
    BY DEF Next, vars
  <2> QED
    BY <2>1, <2>2, <2>3, <2>4
<1>3. Inv => TypeOK
  BY DEF StreamInv, WebhookInv, EmitterInv, TypeOK
<1> QED
  BY <1>1, <1>2, <1>3, PTL DEF Spec

=============================================================================
