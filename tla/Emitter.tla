------------------------------- MODULE Emitter -------------------------------
(***************************************************************************)
(* The product-event emitter (internal/events/emitter.go) from the first     *)
(* Emit to the end of the process: the buffered channel, the goroutine that  *)
(* batches and flushes with retries, and the shutdown of cmd/server/main.go, *)
(* which closes the channel while goroutines that emit may still run.        *)
(***************************************************************************)
EXTENDS Naturals, Sequences, FiniteSets, SequencesExt

CONSTANTS
    BufferSize,  \* capacity of the channel
    BatchSize,   \* events of a full batch
    FlushMax,    \* flushMaxRetries (3)
    MaxEmits     \* bound: calls of Emit

ASSUME EmitterAssumption ==
    /\ BufferSize \in Nat \ {0} /\ BatchSize \in Nat \ {0}
    /\ FlushMax \in Nat \ {0} /\ MaxEmits \in Nat

VARIABLES
    calls,     \* Emit calls so far; the n-th emits event n
    ch,        \* the channel's buffer
    chClosed,  \* Close has closed it
    batch,     \* the events run has taken and not stored
    runPc,     \* run: selecting, flushing, flushing for the last time, done
    attempt,   \* the flush's attempt
    inserted,  \* inserted[n]: rows of event n in product_events
    dropped,   \* events refused by a full channel, or sent on the closed one
    discarded, \* events of batches given up after FlushMax attempts
    mainPc     \* main: serving, stopping (Shutdown is over), closing, returned

emitterVars == <<calls, ch, chClosed, batch, runPc, attempt, inserted, dropped,
                 discarded, mainPc>>

EmitIds == 1..MaxEmits

EmitterTypeOK ==
    /\ calls \in 0..MaxEmits
    /\ ch \in Seq(EmitIds) /\ Len(ch) <= BufferSize
    /\ chClosed \in BOOLEAN
    /\ batch \in Seq(EmitIds) /\ Len(batch) <= BatchSize
    /\ runPc \in {"select", "flush", "last", "done"}
    /\ attempt \in 1..FlushMax
    /\ inserted \in [EmitIds -> 0..FlushMax]
    /\ dropped \subseteq EmitIds /\ discarded \subseteq EmitIds
    /\ mainPc \in {"serving", "stopping", "closing", "returned"}

EmitterInit ==
    /\ calls = 0 /\ ch = <<>> /\ chClosed = FALSE
    /\ batch = <<>> /\ runPc = "select" /\ attempt = 1
    /\ inserted = [n \in EmitIds |-> 0]
    /\ dropped = {} /\ discarded = {}
    /\ mainPc = "serving"

\* Mutant: the select without its default branch, on a channel of any size.
EmitUnbounded ==
    /\ calls < MaxEmits /\ mainPc # "returned" /\ ~chClosed
    /\ calls' = calls + 1
    /\ ch' = Append(ch, calls')
    /\ UNCHANGED <<dropped, chClosed, batch, runPc, attempt, inserted, discarded, mainPc>>

\* Emit never blocks.  After Close it panics; the goroutines that call it are
\* requests that outlived Shutdown's ten seconds, and the HTTP server recovers.
Emit ==
    /\ calls < MaxEmits /\ mainPc # "returned"
    /\ calls' = calls + 1
    /\ IF ~chClosed /\ Len(ch) < BufferSize
       THEN ch' = Append(ch, calls') /\ UNCHANGED dropped
       ELSE dropped' = dropped \cup {calls'} /\ UNCHANGED ch
    /\ UNCHANGED <<chClosed, batch, runPc, attempt, inserted, discarded, mainPc>>

\* run: the receive; a full batch is flushed.
ReceiveEvent ==
    /\ runPc = "select" /\ ch # <<>> /\ mainPc # "returned"
    /\ batch' = Append(batch, Head(ch))
    /\ ch' = Tail(ch)
    /\ runPc' = IF Len(batch') >= BatchSize THEN "flush" ELSE "select"
    /\ UNCHANGED <<calls, chClosed, attempt, inserted, dropped, discarded, mainPc>>

\* Mutant: the ticker leaves a batch that is not full.
FlushTickWhenFull ==
    /\ runPc = "select" /\ Len(batch) >= BatchSize /\ mainPc # "returned"
    /\ runPc' = "flush"
    /\ UNCHANGED <<calls, ch, chClosed, batch, attempt, inserted, dropped,
                   discarded, mainPc>>

\* run: the ticker.
FlushTick ==
    /\ runPc = "select" /\ batch # <<>> /\ mainPc # "returned"
    /\ runPc' = "flush"
    /\ UNCHANGED <<calls, ch, chClosed, batch, attempt, inserted, dropped,
                   discarded, mainPc>>

\* run: the channel is closed and empty.
SeeClosed ==
    /\ runPc = "select" /\ chClosed /\ ch = <<>> /\ mainPc # "returned"
    /\ runPc' = IF batch = <<>> THEN "done" ELSE "last"
    /\ UNCHANGED <<calls, ch, chClosed, batch, attempt, inserted, dropped,
                   discarded, mainPc>>

Flushing == runPc \in {"flush", "last"} /\ mainPc # "returned"

EndFlush ==
    /\ batch' = <<>> /\ attempt' = 1
    /\ runPc' = IF runPc = "last" THEN "done" ELSE "select"

\* InsertProductEvents: one batch, all rows or none, and no key that would tell
\* a second insert of the same event.
StoreBatch == inserted' = [n \in EmitIds |-> inserted[n] + IF n \in ToSet(batch) THEN 1 ELSE 0]

FlushOk ==
    /\ Flushing
    /\ StoreBatch /\ EndFlush
    /\ UNCHANGED <<calls, ch, chClosed, dropped, discarded, mainPc>>

\* Mutant: a batch that fails is given up at the first error.
FlushFailsOnce ==
    /\ Flushing
    /\ EndFlush
    /\ UNCHANGED <<calls, ch, chClosed, dropped, mainPc, inserted, discarded>>

\* An error, or a timeout after the rows were committed; the batch is given up
\* after the last attempt.
FlushFails ==
    /\ Flushing
    /\ StoreBatch \/ UNCHANGED inserted
    /\ IF attempt < FlushMax
       THEN attempt' = attempt + 1 /\ UNCHANGED <<batch, runPc, discarded>>
       ELSE EndFlush /\ discarded' = discarded \cup ToSet(batch)
    /\ UNCHANGED <<calls, ch, chClosed, dropped, mainPc>>

\* srv.Shutdown returned, with or without every request finished.
ShutdownServer ==
    /\ mainPc = "serving"
    /\ mainPc' = "stopping"
    /\ UNCHANGED <<calls, ch, chClosed, batch, runPc, attempt, inserted,
                   dropped, discarded>>

CloseEmitter ==
    /\ mainPc = "stopping"
    /\ chClosed' = TRUE
    /\ mainPc' = "closing"
    /\ UNCHANGED <<calls, ch, batch, runPc, attempt, inserted, dropped, discarded>>

\* Close returns when run is done or five seconds have passed; the process ends.
CloseReturns(timedOut) ==
    /\ mainPc = "closing"
    /\ runPc = "done" \/ timedOut
    /\ mainPc' = "returned"
    /\ UNCHANGED <<calls, ch, chClosed, batch, runPc, attempt, inserted,
                   dropped, discarded>>

RunEmitter == ReceiveEvent \/ SeeClosed \/ FlushOk \/ FlushFails

EmitterNext ==
    \/ Emit \/ RunEmitter \/ FlushTick
    \/ ShutdownServer \/ CloseEmitter
    \/ \E timedOut \in BOOLEAN : CloseReturns(timedOut)

\* The goroutine runs and the ticker ticks; main goes on once it was told to.
EmitterFairness ==
    /\ WF_emitterVars(RunEmitter) /\ WF_emitterVars(FlushTick)
    /\ WF_emitterVars(CloseEmitter)
    /\ WF_emitterVars(CloseReturns(FALSE))

EmitterSpec == EmitterInit /\ [][EmitterNext]_emitterVars /\ EmitterFairness

-----------------------------------------------------------------------------
\* What Emit took is stored, on its way, or was given up after the last
\* attempt: in particular a Close that ends because run is done ("drains pending
\* events") leaves no event in the channel or in the batch.
EventsConserved ==
    /\ 1..calls = {n \in EmitIds : inserted[n] > 0} \cup ToSet(ch) \cup ToSet(batch)
                  \cup dropped \cup discarded
    /\ runPc = "done" => ch = <<>> /\ batch = <<>>

(***************************************************************************)
(* Why, as an invariant: an event is at one place of channel and batch, was  *)
(* not stored before it is in the batch, and there once an attempt at most;  *)
(* run sees the channel closed only when it stays empty.                     *)
(***************************************************************************)
EmitterShape ==
    /\ IsInjective(ch) /\ IsInjective(batch) /\ ToSet(ch) \cap ToSet(batch) = {}
    /\ \A n \in ToSet(ch) : inserted[n] = 0
    /\ \A n \in ToSet(batch) : inserted[n] < attempt
    /\ runPc \in {"select", "done"} => attempt = 1
    /\ runPc = "select" => Len(batch) < BatchSize
    /\ runPc \in {"last", "done"} => chClosed /\ ch = <<>>

EmitterInv == EmitterTypeOK /\ EventsConserved /\ EmitterShape

\* An event accepted before the shutdown is stored or given up, or the process
\* ends by the timeout of Close.
EventsFlushed ==
    \A n \in EmitIds :
        n \in ToSet(ch) ~> inserted[n] > 0 \/ n \in discarded \/ mainPc = "returned"
=============================================================================
