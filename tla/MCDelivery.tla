----------------------------- MODULE MCDelivery -----------------------------
(***************************************************************************)
(* The three ways out of the server, each by itself: `focus' says which one  *)
(* moves.  They share no state, so nothing is lost by not interleaving them.  *)
(***************************************************************************)
EXTENDS Streaming, Webhooks, Emitter

VARIABLE focus

Only(part) == focus = part /\ UNCHANGED focus

Init ==
    /\ focus \in {"streams", "webhooks", "product events"}
    /\ StreamInit /\ WebhookInit /\ EmitterInit

Next ==
    \/ Only("streams") /\ StreamNext /\ UNCHANGED <<webhookVars, emitterVars>>
    \/ Only("webhooks") /\ WebhookNext /\ UNCHANGED <<streamVars, emitterVars>>
    \/ Only("product events") /\ EmitterNext /\ UNCHANGED <<streamVars, webhookVars>>

\* The fairness of the part that moves: StreamFairness, WebhookFairness and
\* EmitterFairness.
Fairness ==
    /\ WF_streamVars(Only("streams") /\ Listener)
    /\ WF_streamVars(Only("streams") /\ Restart)
    /\ \A r \in Readers :
          /\ WF_streamVars(Only("streams") /\ Go(r))
          /\ SF_streamVars(Only("streams") /\ Ask(r))
          /\ SF_streamVars(Only("streams") /\ Answer(r))
    /\ WF_webhookVars(Only("webhooks") /\ Dispatcher)
    /\ \A w \in Workers : WF_webhookVars(Only("webhooks") /\ Worker(w))
    /\ WF_emitterVars(Only("product events") /\ RunEmitter)
    /\ WF_emitterVars(Only("product events") /\ FlushTick)
    /\ WF_emitterVars(Only("product events") /\ CloseEmitter)
    /\ WF_emitterVars(Only("product events") /\ CloseReturns(FALSE))

vars == <<streamVars, webhookVars, emitterVars, focus>>
Spec == Init /\ [][Next]_vars /\ Fairness

\* Every part's state has its type: queues within their capacity, a delivery and
\* an event known by a number, the stages of dispatcher, workers and readers.
TypeOK == StreamTypeOK /\ WebhookTypeOK /\ EmitterTypeOK
=============================================================================
