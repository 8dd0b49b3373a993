--------------------------- MODULE CreditsProofs ---------------------------
(***************************************************************************)
(* Proofs about Credits for any set of callers, bearers, keys and periods   *)
(* and any pool size: the inductive invariant, the conservation of credits  *)
(* and the refinement of the ledger.                                        *)
(***************************************************************************)
EXTENDS Credits, FiniteSetTheorems, TLAPS


\* How a statement changes the calls: c goes on to s with its arguments, or it
\* returns; every other call is untouched.
Others(c) == \A d \in Callers \ {c} : call'[d] = call[d]

Moved(c, s) ==
    /\ call' \in [Callers -> Call]
    /\ Others(c)
    /\ call'[c].pc = s
    /\ call'[c].op = call[c].op /\ call'[c].key = call[c].key
    /\ call'[c].bearer = call[c].bearer /\ call'[c].credits = call[c].credits
    /\ call'[c].period = call[c].period /\ call'[c].paid = call[c].paid

Ended(c, a) ==
    /\ call' \in [Callers -> Call]
    /\ Others(c)
    /\ call'[c].pc = "idle" /\ call'[c].answer = a
    /\ a # "error" => /\ call'[c].key = call[c].key /\ call'[c].op = call[c].op
                      /\ a # "ok" => call'[c].paid = call[c].paid

LEMMA GotoMoves ==
    ASSUME TypeOK, NEW c \in Callers, NEW s \in Steps, Goto(c, s) PROVE Moved(c, s)
<1>1. call[c] \in Call /\ [call[c] EXCEPT !.pc = s] \in Call
  BY DEF TypeOK, Call
<1>2. call' = [call EXCEPT ![c] = [call[c] EXCEPT !.pc = s]]
  BY DEF Goto, TypeOK
<1>3. call'[c] = [call[c] EXCEPT !.pc = s] /\ Others(c) /\ call' \in [Callers -> Call]
  BY <1>1, <1>2 DEF TypeOK, Others
<1> QED
  BY <1>1, <1>3 DEF Moved, Call

LEMMA ReturnEnds ==
    ASSUME TypeOK, NEW c \in Callers, NEW a \in {"ok", "replay", "insufficient"},
           Return(c, a)
    PROVE  Ended(c, a)
<1> DEFINE r == [call[c] EXCEPT !.pc = "idle", !.bearer = None, !.credits = 0,
                                !.todo = {}, !.answer = a]
<1>0. call[c] \in Call /\ "idle" \in Steps
  BY DEF TypeOK, Steps
<1>1. call[c] \in Call /\ r \in Call
  BY <1>0 DEF Call
<1>2. call' = [call EXCEPT ![c] = r]
  BY DEF Return, TypeOK
<1>3. call'[c] = r /\ Others(c) /\ call' \in [Callers -> Call]
  BY <1>1, <1>2 DEF TypeOK, Others
<1> QED
  BY <1>1, <1>3 DEF Ended, Call

LEMMA ErrorEnds ==
    ASSUME TypeOK, NEW c \in Callers, ReturnError(c) PROVE Ended(c, "error")
<1>1. [NoCall EXCEPT !.answer = "error"] \in Call
  BY CreditsAssumption DEF NoCall, Call, Steps
<1>2. /\ call'[c] = [NoCall EXCEPT !.answer = "error"]
      /\ Others(c) /\ call' \in [Callers -> Call]
  BY <1>1 DEF ReturnError, TypeOK, Others
<1> QED
  BY <1>2 DEF Ended, NoCall

LEMMA PaidEnds ==
    ASSUME TypeOK, NEW c \in Callers, call[c].op = "consume",
           call' = [call EXCEPT ![c] =
                      [NoCall EXCEPT !.op = "consume", !.key = call[c].key,
                                     !.paid = TRUE, !.answer = "ok"]]
    PROVE  Ended(c, "ok") /\ call'[c].paid
<1> DEFINE r == [NoCall EXCEPT !.op = "consume", !.key = call[c].key,
                               !.paid = TRUE, !.answer = "ok"]
<1>1. r \in Call
  BY CreditsAssumption DEF NoCall, Call, Steps, TypeOK
<1>2. call'[c] = r /\ Others(c) /\ call' \in [Callers -> Call]
  BY <1>1 DEF TypeOK, Others
<1> QED
  BY <1>2 DEF Ended, NoCall

\* What each statement does to the calls, and the tables it leaves alone.
LEMMA Shape ==
    ASSUME IInv, NEW c \in Callers
    PROVE  /\ Lookup(c) =>
                 /\ UNCHANGED tables
                 /\ \/ Moved(c, "begin")
                    \/ Ended(c, "replay") /\ call[c].key \in consumed
           /\ Begin(c) => Moved(c, "deduct") /\ UNCHANGED tables
           /\ Deduct(c) =>
                 /\ UNCHANGED tables
                 /\ \/ /\ Moved(c, "insert")
                       /\ RowFree(call[c].bearer)
                       /\ balance[call[c].bearer] >= call[c].credits
                    \/ Moved(c, "check")
           /\ Check(c) => Ended(c, "insufficient") /\ UNCHANGED tables
           /\ Insert(c) =>
                 /\ UNCHANGED tables
                 /\ \/ Moved(c, "aborted")
                    \/ Moved(c, "commit") /\ call[c].key \notin consumed
           /\ Commit(c) => Ended(c, "error") \/ (Ended(c, "ok") /\ call'[c].paid)
           /\ CommitAborted(c) => Ended(c, "error") /\ UNCHANGED tables
           /\ RecordPurchase(c) => Moved(c, "topup") /\ UNCHANGED tables
           /\ TopUp(c) => /\ Moved(c, "settle") /\ UNCHANGED tables
                          /\ RowFree(call[c].bearer)
           /\ Settle(c) => Ended(c, "ok") \/ Ended(c, "error")
           /\ GrantReturns(c) => Ended(c, "ok") /\ UNCHANGED tables
           /\ Fail(c) => Ended(c, "error") /\ UNCHANGED tables
<1>0. TypeOK /\ {"begin", "deduct", "insert", "check", "aborted", "commit",
                "topup", "settle"} \subseteq Steps
  BY DEF IInv, Steps, ConsumeSteps, PurchaseSteps
<1>1. Lookup(c) => /\ UNCHANGED tables
                   /\ \/ Moved(c, "begin")
                      \/ Ended(c, "replay") /\ call[c].key \in consumed
  BY <1>0, GotoMoves, ReturnEnds DEF Lookup
<1>2. Begin(c) => Moved(c, "deduct") /\ UNCHANGED tables
  BY <1>0, GotoMoves DEF Begin
<1>3. Deduct(c) => /\ UNCHANGED tables
                   /\ \/ /\ Moved(c, "insert")
                         /\ RowFree(call[c].bearer)
                         /\ balance[call[c].bearer] >= call[c].credits
                      \/ Moved(c, "check")
  BY <1>0, GotoMoves DEF Deduct
<1>4. Check(c) => Ended(c, "insufficient") /\ UNCHANGED tables
  BY <1>0, ReturnEnds DEF Check
<1>5. Insert(c) => /\ UNCHANGED tables
                   /\ \/ Moved(c, "aborted")
                      \/ Moved(c, "commit") /\ call[c].key \notin consumed
  BY <1>0, GotoMoves DEF Insert
<1>6. Commit(c) => Ended(c, "error") \/ (Ended(c, "ok") /\ call'[c].paid)
  <2> SUFFICES ASSUME Commit(c)
               PROVE  Ended(c, "error") \/ (Ended(c, "ok") /\ call'[c].paid)
    OBVIOUS
  <2>1. call[c].op = "consume"
    BY DEF Commit, IInv, ArgsInv, ConsumeSteps
  <2> QED
    BY <1>0, <2>1, PaidEnds, ErrorEnds DEF Commit
<1>7. CommitAborted(c) => Ended(c, "error") /\ UNCHANGED tables
  BY <1>0, ErrorEnds DEF CommitAborted
<1>8. RecordPurchase(c) => Moved(c, "topup") /\ UNCHANGED tables
  BY <1>0, GotoMoves DEF RecordPurchase
<1>9. TopUp(c) => /\ Moved(c, "settle") /\ UNCHANGED tables
                  /\ RowFree(call[c].bearer)
  BY <1>0, GotoMoves DEF TopUp
<1>10. Settle(c) => Ended(c, "ok") \/ Ended(c, "error")
  BY <1>0, ReturnEnds, ErrorEnds DEF Settle
<1>11. GrantReturns(c) => Ended(c, "ok") /\ UNCHANGED tables
  BY <1>0, ReturnEnds DEF GrantReturns
<1>12. Fail(c) => Ended(c, "error") /\ UNCHANGED tables
  BY <1>0, ErrorEnds DEF Fail
<1> QED
  BY <1>1, <1>2, <1>3, <1>4, <1>5, <1>6, <1>7, <1>8, <1>9, <1>10, <1>11, <1>12

\* The same for the two statements of a grant.
LEMMA RecordShape ==
    ASSUME IInv, NEW c \in Callers, NEW b \in Bearers, RecordGrant(c, b)
    PROVE  /\ call[c].pc = "grant"
           /\ grants' = grants \cup {<<b, call[c].period>>}
           /\ UNCHANGED <<balance, lifetime, used, bought, consumed, credited>>
           /\ call' \in [Callers -> Call] /\ Others(c)
           /\ call'[c].op = call[c].op /\ call'[c].period = call[c].period
           /\ \/ call'[c].pc = "grant"
              \/ /\ call'[c].pc = "credit" /\ call'[c].bearer = b
                 /\ <<b, call[c].period>> \notin grants
<1>0. call \in [Callers -> Call] /\ call[c] \in Call /\ call[c].pc = "grant"
  BY DEF IInv, TypeOK, RecordGrant
<1>1. CASE <<b, call[c].period>> \in grants
  <2> DEFINE r == [call[c] EXCEPT !.todo = @ \ {b}]
  <2>1. r \in Call /\ r.pc = "grant" /\ r.op = call[c].op /\ r.period = call[c].period
    BY <1>0 DEF Call
  <2>2. call' = [call EXCEPT ![c] = r]
    BY <1>0, <1>1 DEF RecordGrant
  <2> HIDE DEF r
  <2>3. /\ call' \in [Callers -> Call] /\ Others(c) /\ call'[c].pc = "grant"
        /\ call'[c].op = call[c].op /\ call'[c].period = call[c].period
    BY <1>0, <2>1, <2>2 DEF Others
  <2> QED
    BY <1>0, <2>3 DEF RecordGrant
<1>2. CASE <<b, call[c].period>> \notin grants
  <2> DEFINE r == [call[c] EXCEPT !.pc = "credit", !.bearer = b]
  <2>1. /\ r \in Call /\ r.pc = "credit" /\ r.bearer = b
        /\ r.op = call[c].op /\ r.period = call[c].period
    BY <1>0 DEF Call, Steps, GrantSteps
  <2>2. call' = [call EXCEPT ![c] = r]
    BY <1>0, <1>2 DEF RecordGrant
  <2> HIDE DEF r
  <2>3. /\ call' \in [Callers -> Call] /\ Others(c)
        /\ call'[c].pc = "credit" /\ call'[c].bearer = b
        /\ call'[c].op = call[c].op /\ call'[c].period = call[c].period
    BY <1>0, <2>1, <2>2 DEF Others
  <2> QED
    BY <1>0, <1>2, <2>3 DEF RecordGrant
<1> QED
  BY <1>1, <1>2

LEMMA GrantShape ==
    ASSUME IInv, NEW c \in Callers, AddMonthlyCredits(c)
    PROVE  /\ call[c].pc = "credit" /\ RowFree(call[c].bearer)
           /\ balance' = [balance EXCEPT ![call[c].bearer] = @ + Units]
           /\ credited' = credited \cup {<<call[c].bearer, call[c].period>>}
           /\ UNCHANGED <<lifetime, used, bought, consumed, grants>>
           /\ call' \in [Callers -> Call] /\ Others(c)
           /\ call'[c].pc = "grant"
           /\ call'[c].op = call[c].op /\ call'[c].period = call[c].period
<1>0. call \in [Callers -> Call] /\ call[c] \in Call
  BY DEF IInv, TypeOK
<1> DEFINE r == [call[c] EXCEPT !.pc = "grant", !.bearer = None,
                                !.todo = @ \ {call[c].bearer}]
<1>1. r \in Call /\ r.pc = "grant" /\ r.op = call[c].op /\ r.period = call[c].period
  BY <1>0 DEF Call, Steps, GrantSteps
<1>2. call' = [call EXCEPT ![c] = r]
  BY <1>0 DEF AddMonthlyCredits
<1> HIDE DEF r
<1>3. /\ call' \in [Callers -> Call] /\ Others(c) /\ call'[c].pc = "grant"
      /\ call'[c].op = call[c].op /\ call'[c].period = call[c].period
  BY <1>0, <1>1, <1>2 DEF Others
<1> QED
  BY <1>3 DEF AddMonthlyCredits

\* The same for the calls that are made.
LEMMA ConsumeShape ==
    ASSUME IInv, NEW c \in Callers, NEW b \in Bearers, NEW k \in Keys,
           NEW n \in Amounts, ConsumeCredits(c, b, k, n)
    PROVE  /\ call' \in [Callers -> Call] /\ Others(c) /\ UNCHANGED tables
           /\ call'[c].pc \in {"begin", "lookup"}
           /\ call'[c].op = "consume" /\ call'[c].bearer = b
           /\ call'[c].credits = n /\ ~call'[c].paid /\ call'[c].answer = "none"
<1> DEFINE r == [NoCall EXCEPT !.pc = IF k = NoKey THEN "begin" ELSE "lookup",
                               !.op = "consume", !.bearer = b, !.key = k,
                               !.credits = n]
<1>1. call \in [Callers -> Call] /\ n \in Nat
  BY CreditsAssumption DEF IInv, TypeOK
<1>2. /\ r \in Call /\ r.pc \in {"begin", "lookup"} /\ r.op = "consume"
      /\ r.bearer = b /\ r.credits = n /\ ~r.paid /\ r.answer = "none"
  BY <1>1 DEF NoCall, Call, Steps, ConsumeSteps
<1>3. call' = [call EXCEPT ![c] = r] /\ UNCHANGED tables
  BY DEF ConsumeCredits
<1> HIDE DEF r
<1> QED
  BY <1>1, <1>2, <1>3 DEF Others

LEMMA PurchaseShape ==
    ASSUME IInv, NEW c \in Callers, NEW b \in Bearers, NEW n \in Packs,
           PurchaseCredits(c, b, n)
    PROVE  /\ call' \in [Callers -> Call] /\ Others(c) /\ UNCHANGED tables
           /\ call'[c].pc = "buy" /\ call'[c].op = "purchase"
           /\ call'[c].bearer = b /\ call'[c].credits = n
<1> DEFINE r == [NoCall EXCEPT !.pc = "buy", !.op = "purchase", !.bearer = b,
                               !.credits = n]
<1>1. call \in [Callers -> Call] /\ n \in Nat /\ NoKey \in Keys
  BY CreditsAssumption DEF IInv, TypeOK
<1>2. r \in Call /\ r.pc = "buy" /\ r.op = "purchase" /\ r.bearer = b /\ r.credits = n
  BY <1>1 DEF NoCall, Call, Steps, PurchaseSteps
<1>3. call' = [call EXCEPT ![c] = r] /\ UNCHANGED tables
  BY DEF PurchaseCredits
<1> HIDE DEF r
<1> QED
  BY <1>1, <1>2, <1>3 DEF Others

LEMMA MonthlyShape ==
    ASSUME IInv, NEW c \in Callers, NEW p \in Periods, GrantMonthlyCredits(c, p)
    PROVE  /\ call' \in [Callers -> Call] /\ Others(c) /\ UNCHANGED tables
           /\ call'[c].pc = "grant" /\ call'[c].op = "grant" /\ call'[c].period = p
<1> DEFINE r == [NoCall EXCEPT !.pc = "grant", !.op = "grant", !.period = p,
                               !.todo = IF Units > 0 THEN Bearers ELSE {}]
<1>1. call \in [Callers -> Call] /\ NoKey \in Keys
  BY CreditsAssumption DEF IInv, TypeOK
<1>2. r \in Call /\ r.pc = "grant" /\ r.op = "grant" /\ r.period = p
  BY <1>1 DEF NoCall, Call, Steps, GrantSteps
<1>3. call' = [call EXCEPT ![c] = r] /\ UNCHANGED tables
  BY DEF GrantMonthlyCredits
<1> HIDE DEF r
<1> QED
  BY <1>1, <1>2, <1>3 DEF Others
\* Every step keeps the types; a committed deduction finds its credits still there.
LEMMA TypeStep ==
    ASSUME IInv, NEW c \in Callers, Step(c)
    PROVE  TypeOK'
<1> USE CreditsAssumption
<1>1. ASSUME Lookup(c) PROVE TypeOK'
  BY <1>1, Shape DEF Lookup, Moved, Ended, Others, tables, IInv, TypeOK
<1>2. ASSUME Begin(c) PROVE TypeOK'
  BY <1>2, Shape DEF Begin, Moved, Ended, Others, tables, IInv, TypeOK
<1>3. ASSUME Deduct(c) PROVE TypeOK'
  BY <1>3, Shape DEF Deduct, Moved, Ended, Others, tables, IInv, TypeOK
<1>4. ASSUME Check(c) PROVE TypeOK'
  BY <1>4, Shape DEF Check, Moved, Ended, Others, tables, IInv, TypeOK
<1>5. ASSUME Insert(c) PROVE TypeOK'
  BY <1>5, Shape DEF Insert, Moved, Ended, Others, tables, IInv, TypeOK
<1>6. ASSUME Commit(c) PROVE TypeOK'
  <2>1. call[c].bearer \in Bearers /\ call[c].key \in Keys
    BY <1>6 DEF Commit, IInv, ArgsInv, ConsumeSteps, TypeOK, Call
  <2>2. call[c].credits \in Nat /\ balance[call[c].bearer] >= call[c].credits
    BY <1>6 DEF Commit, IInv, LockInv, TypeOK, Call
  <2>3. balance' \in [Bearers -> Nat]
    BY <1>6, <2>1, <2>2 DEF Commit, IInv, TypeOK
  <2>4. lifetime' \in [Bearers -> Nat] /\ used' \in [Bearers -> Nat]
    BY <1>6, <2>1, <2>2 DEF Commit, IInv, TypeOK
  <2>5. call' \in [Callers -> Call]
    BY <1>6, Shape DEF Ended, Others, IInv
  <2> QED
    BY <1>6, <2>1, <2>3, <2>4, <2>5 DEF Commit, IInv, TypeOK
<1>7. ASSUME CommitAborted(c) PROVE TypeOK'
  BY <1>7, Shape DEF CommitAborted, Moved, Ended, Others, tables, IInv, TypeOK
<1>8. ASSUME RecordPurchase(c) PROVE TypeOK'
  BY <1>8, Shape DEF RecordPurchase, Moved, Ended, Others, tables, IInv, TypeOK
<1>9. ASSUME TopUp(c) PROVE TypeOK'
  BY <1>9, Shape DEF TopUp, Moved, Ended, Others, tables, IInv, TypeOK
<1>10. ASSUME Settle(c) PROVE TypeOK'
  <2>1. call[c].bearer \in Bearers /\ call[c].credits \in Nat
    BY <1>10 DEF Settle, IInv, ArgsInv, PurchaseSteps, TypeOK, Call
  <2>2. balance' \in [Bearers -> Nat] /\ bought' \in [Bearers -> Nat]
    BY <1>10, <2>1 DEF Settle, IInv, TypeOK
  <2>3. call' \in [Callers -> Call]
    BY <1>10, Shape DEF Ended, Others, IInv
  <2> QED
    BY <1>10, <2>2, <2>3 DEF Settle, IInv, TypeOK
<1>11. ASSUME NEW b \in Bearers, RecordGrant(c, b) PROVE TypeOK'
  <2>1. call[c].period \in Periods
    BY <1>11, RecordShape DEF IInv, ArgsInv, GrantSteps
  <2>2. /\ grants' = grants \cup {<<b, call[c].period>>}
        /\ UNCHANGED <<balance, lifetime, used, bought, consumed, credited>>
        /\ call' \in [Callers -> Call]
    BY <1>11, RecordShape
  <2> QED
    BY <1>11, <2>1, <2>2 DEF IInv, TypeOK
<1>12. ASSUME AddMonthlyCredits(c) PROVE TypeOK'
  <2>1. call[c].bearer \in Bearers /\ call[c].period \in Periods
    BY <1>12 DEF AddMonthlyCredits, IInv, ArgsInv, GrantSteps
  <2>2. balance' \in [Bearers -> Nat]
    BY <1>12, <2>1 DEF AddMonthlyCredits, IInv, TypeOK
  <2>3. credited' \subseteq Bearers \X Periods
    BY <1>12, <2>1 DEF AddMonthlyCredits, IInv, TypeOK
  <2>4. call' \in [Callers -> Call]
    BY <1>12, GrantShape
  <2> QED
    BY <1>12, <2>2, <2>3, <2>4 DEF AddMonthlyCredits, IInv, TypeOK
<1>13. ASSUME GrantReturns(c) PROVE TypeOK'
  BY <1>13, Shape DEF Ended, Others, GrantReturns, IInv, TypeOK, tables
<1>14. ASSUME Fail(c) PROVE TypeOK'
  BY <1>14, Shape DEF Fail, Moved, Ended, Others, tables, IInv, TypeOK
<1>15. ASSUME NEW b \in Bearers, NEW k \in Keys, NEW n \in Amounts, ConsumeCredits(c, b, k, n)
      PROVE  TypeOK'
  BY <1>15, ConsumeShape DEF IInv, TypeOK, tables
<1>16. ASSUME NEW b \in Bearers, NEW n \in Packs, PurchaseCredits(c, b, n)
      PROVE  TypeOK'
  BY <1>16, PurchaseShape DEF IInv, TypeOK, tables
<1>17. ASSUME NEW p \in Periods, GrantMonthlyCredits(c, p) PROVE TypeOK'
  BY <1>17, MonthlyShape DEF IInv, TypeOK, tables
<1> QED
  BY <1>1, <1>2, <1>3, <1>4, <1>5, <1>6, <1>7, <1>8, <1>9, <1>10,
     <1>11, <1>12, <1>13, <1>14, <1>15, <1>16, <1>17
     DEF Step, Statement

\* A call keeps the arguments it was made with until it returns.
LEMMA ArgsStep ==
    ASSUME IInv, NEW c \in Callers, Step(c)
    PROVE  ArgsInv'
<1>1. ASSUME Lookup(c) PROVE ArgsInv'
  BY <1>1, Shape
     DEF Lookup, Moved, Ended, Others, tables, IInv, ArgsInv, ConsumeSteps,
         PurchaseSteps, GrantSteps
<1>2. ASSUME Begin(c) PROVE ArgsInv'
  BY <1>2, Shape
     DEF Begin, Moved, Ended, Others, tables, IInv, ArgsInv, ConsumeSteps,
         PurchaseSteps, GrantSteps
<1>3. ASSUME Deduct(c) PROVE ArgsInv'
  BY <1>3, Shape
     DEF Deduct, Moved, Ended, Others, tables, IInv, ArgsInv, ConsumeSteps,
         PurchaseSteps, GrantSteps
<1>4. ASSUME Check(c) PROVE ArgsInv'
  BY <1>4, Shape
     DEF Check, Moved, Ended, Others, tables, IInv, ArgsInv, ConsumeSteps,
         PurchaseSteps, GrantSteps
<1>5. ASSUME Insert(c) PROVE ArgsInv'
  BY <1>5, Shape
     DEF Insert, Moved, Ended, Others, tables, IInv, ArgsInv, ConsumeSteps,
         PurchaseSteps, GrantSteps
<1>6. ASSUME Commit(c) PROVE ArgsInv'
  BY <1>6, Shape
     DEF Ended, Others, IInv, ArgsInv, ConsumeSteps, PurchaseSteps, GrantSteps
<1>7. ASSUME CommitAborted(c) PROVE ArgsInv'
  BY <1>7, Shape
     DEF CommitAborted, Moved, Ended, Others, tables, IInv, ArgsInv, ConsumeSteps,
         PurchaseSteps, GrantSteps
<1>8. ASSUME RecordPurchase(c) PROVE ArgsInv'
  BY <1>8, Shape
     DEF RecordPurchase, Moved, Ended, Others, tables, IInv, ArgsInv,
         ConsumeSteps, PurchaseSteps, GrantSteps
<1>9. ASSUME TopUp(c) PROVE ArgsInv'
  BY <1>9, Shape
     DEF TopUp, Moved, Ended, Others, tables, IInv, ArgsInv, ConsumeSteps,
         PurchaseSteps, GrantSteps
<1>10. ASSUME Settle(c) PROVE ArgsInv'
  <2>1. call'[c].pc = "idle" /\ \A d \in Callers \ {c} : call'[d] = call[d]
    BY <1>10, Shape DEF Ended, Others
  <2>2. consumed' = consumed /\ grants' = grants /\ credited' = credited
    BY <1>10 DEF Settle
  <2> QED
    BY <2>1, <2>2 DEF IInv, ArgsInv, ConsumeSteps, PurchaseSteps, GrantSteps
<1>11. ASSUME NEW b \in Bearers, RecordGrant(c, b) PROVE ArgsInv'
  <2>1. /\ call[c].pc = "grant"
        /\ grants' = grants \cup {<<b, call[c].period>>}
        /\ UNCHANGED <<balance, lifetime, used, bought, consumed, credited>>
    BY <1>11, RecordShape
  <2>2. /\ \A d \in Callers \ {c} : call'[d] = call[d]
        /\ call'[c].op = call[c].op /\ call'[c].period = call[c].period
    BY <1>11, RecordShape DEF Others
  <2>3. \/ call'[c].pc = "grant"
        \/ /\ call'[c].pc = "credit" /\ call'[c].bearer = b
           /\ <<b, call[c].period>> \notin grants
    BY <1>11, RecordShape
  <2> QED
    BY <1>11, <2>1, <2>2, <2>3
       DEF IInv, ArgsInv, ConsumeSteps, PurchaseSteps, GrantSteps
<1>12. ASSUME AddMonthlyCredits(c) PROVE ArgsInv'
  BY <1>12, GrantShape
     DEF Others, tables, IInv, ArgsInv, ConsumeSteps, PurchaseSteps, GrantSteps
<1>13. ASSUME GrantReturns(c) PROVE ArgsInv'
  BY <1>13, Shape
     DEF GrantReturns, Moved, Ended, Others, tables, IInv, ArgsInv, ConsumeSteps,
         PurchaseSteps, GrantSteps
<1>14. ASSUME Fail(c) PROVE ArgsInv'
  BY <1>14, Shape
     DEF Fail, Moved, Ended, Others, tables, IInv, ArgsInv, ConsumeSteps,
         PurchaseSteps, GrantSteps
<1>15. ASSUME NEW b \in Bearers, NEW k \in Keys, NEW n \in Amounts, ConsumeCredits(c, b, k, n)
      PROVE  ArgsInv'
  <2>1. UNCHANGED tables /\ \A d \in Callers \ {c} : call'[d] = call[d]
    BY <1>15, ConsumeShape DEF Others
  <2>2. /\ call'[c].pc \in {"begin", "lookup"} /\ call'[c].op = "consume"
        /\ call'[c].bearer = b /\ call'[c].credits = n /\ ~call'[c].paid
        /\ call'[c].answer = "none"
    BY <1>15, ConsumeShape
  <2> QED
    BY <1>15, <2>1, <2>2
       DEF IInv, ArgsInv, ConsumeSteps, PurchaseSteps, GrantSteps, tables
<1>16. ASSUME NEW b \in Bearers, NEW n \in Packs, PurchaseCredits(c, b, n)
      PROVE  ArgsInv'
  <2>1. UNCHANGED tables /\ \A d \in Callers \ {c} : call'[d] = call[d]
    BY <1>16, PurchaseShape DEF Others
  <2>2. /\ call'[c].pc = "buy" /\ call'[c].op = "purchase"
        /\ call'[c].bearer = b /\ call'[c].credits = n
    BY <1>16, PurchaseShape
  <2> QED
    BY <1>16, <2>1, <2>2
       DEF IInv, ArgsInv, ConsumeSteps, PurchaseSteps, GrantSteps, tables
<1>17. ASSUME NEW p \in Periods, GrantMonthlyCredits(c, p) PROVE ArgsInv'
  <2>1. UNCHANGED tables /\ \A d \in Callers \ {c} : call'[d] = call[d]
    BY <1>17, MonthlyShape DEF Others
  <2>2. /\ call'[c].pc = "grant" /\ call'[c].op = "grant" /\ call'[c].period = p
    BY <1>17, MonthlyShape
  <2> QED
    BY <1>17, <2>1, <2>2
       DEF IInv, ArgsInv, ConsumeSteps, PurchaseSteps, GrantSteps, tables
<1> QED
  BY <1>1, <1>2, <1>3, <1>4, <1>5, <1>6, <1>7, <1>8, <1>9, <1>10,
     <1>11, <1>12, <1>13, <1>14, <1>15, <1>16, <1>17
     DEF Step, Statement

\* A row lock is taken only when it is free, and only its holder lowers the balance.
LEMMA LockStep ==
    ASSUME IInv, NEW c \in Callers, Step(c)
    PROVE  LockInv'
<1>1. ASSUME Lookup(c) PROVE LockInv'
  BY <1>1, Shape DEF Lookup, Moved, Ended, Others, tables, IInv, LockInv, RowFree
<1>2. ASSUME Begin(c) PROVE LockInv'
  BY <1>2, Shape DEF Begin, Moved, Ended, Others, tables, IInv, LockInv, RowFree
<1>3. ASSUME Deduct(c) PROVE LockInv'
  <2>1. CASE /\ balance[call[c].bearer] >= call[c].credits
             /\ RowFree(call[c].bearer)
             /\ Goto(c, "insert")
    <3>1. /\ call'[c].pc = "insert" /\ call'[c].bearer = call[c].bearer
          /\ call'[c].credits = call[c].credits
          /\ \A d \in Callers \ {c} : call'[d] = call[d]
      BY <2>1 DEF Goto, IInv, TypeOK, Call
    <3>2. balance' = balance
      BY <1>3 DEF Deduct, tables
    <3> QED
      BY <2>1, <3>1, <3>2 DEF RowFree, IInv, LockInv
  <2>2. CASE Goto(c, "check")
    <3>1. call'[c].pc = "check" /\ \A d \in Callers \ {c} : call'[d] = call[d]
      BY <2>2 DEF Goto, IInv, TypeOK, Call
    <3>2. balance' = balance
      BY <1>3 DEF Deduct, tables
    <3> QED
      BY <3>1, <3>2 DEF IInv, LockInv
  <2> QED
    BY <1>3, <2>1, <2>2 DEF Deduct
<1>4. ASSUME Check(c) PROVE LockInv'
  BY <1>4, Shape DEF Check, Moved, Ended, Others, tables, IInv, LockInv, RowFree
<1>5. ASSUME Insert(c) PROVE LockInv'
  BY <1>5, Shape DEF Insert, Moved, Ended, Others, tables, IInv, LockInv, RowFree
<1>6. ASSUME Commit(c) PROVE LockInv'
  <2>1. /\ call'[c].pc = "idle"
        /\ \A d \in Callers \ {c} : call'[d] = call[d]
    BY <1>6, Shape DEF Ended, Others, IInv
  <2>2. \A d \in Callers \ {c} :
            call[d].pc \in {"insert", "commit"} =>
                balance'[call[d].bearer] = balance[call[d].bearer]
    <3> SUFFICES ASSUME NEW d \in Callers \ {c}, call[d].pc \in {"insert", "commit"}
                 PROVE  balance'[call[d].bearer] = balance[call[d].bearer]
      OBVIOUS
    <3>1. call[d].bearer \in Bearers /\ call[d].bearer # call[c].bearer
      BY <1>6 DEF Commit, IInv, ArgsInv, LockInv, ConsumeSteps
    <3> QED
      BY <1>6, <3>1 DEF Commit, IInv, TypeOK
  <2> QED
    BY <2>1, <2>2 DEF IInv, LockInv
<1>7. ASSUME CommitAborted(c) PROVE LockInv'
  BY <1>7, Shape
     DEF CommitAborted, Moved, Ended, Others, tables, IInv, LockInv, RowFree
<1>8. ASSUME RecordPurchase(c) PROVE LockInv'
  BY <1>8, Shape
     DEF RecordPurchase, Moved, Ended, Others, tables, IInv, LockInv, RowFree
<1>9. ASSUME TopUp(c) PROVE LockInv'
  BY <1>9, Shape DEF TopUp, Moved, Ended, Others, tables, IInv, LockInv, RowFree
<1>10. ASSUME Settle(c) PROVE LockInv'
  <2>1. /\ call'[c].pc = "idle"
        /\ \A d \in Callers \ {c} : call'[d] = call[d]
    BY <1>10, Shape DEF Ended, Others, IInv
  <2>2. \A d \in Callers \ {c} :
            call[d].pc \in {"insert", "commit"} =>
                balance'[call[d].bearer] = balance[call[d].bearer]
    <3> SUFFICES ASSUME NEW d \in Callers \ {c}, call[d].pc \in {"insert", "commit"}
                 PROVE  balance'[call[d].bearer] = balance[call[d].bearer]
      OBVIOUS
    <3>1. call[d].bearer \in Bearers /\ call[d].bearer # call[c].bearer
      BY <1>10 DEF Settle, IInv, ArgsInv, LockInv, ConsumeSteps
    <3> QED
      BY <1>10, <3>1 DEF Settle, IInv, TypeOK
  <2> QED
    BY <2>1, <2>2 DEF IInv, LockInv
<1>11. ASSUME NEW b \in Bearers, RecordGrant(c, b) PROVE LockInv'
  <2>1. /\ call[c].pc = "grant"
        /\ grants' = grants \cup {<<b, call[c].period>>}
        /\ UNCHANGED <<balance, lifetime, used, bought, consumed, credited>>
    BY <1>11, RecordShape
  <2>2. /\ \A d \in Callers \ {c} : call'[d] = call[d]
        /\ call'[c].op = call[c].op /\ call'[c].period = call[c].period
    BY <1>11, RecordShape DEF Others
  <2>3. \/ call'[c].pc = "grant"
        \/ /\ call'[c].pc = "credit" /\ call'[c].bearer = b
           /\ <<b, call[c].period>> \notin grants
    BY <1>11, RecordShape
  <2> QED
    BY <1>11, <2>1, <2>2, <2>3 DEF IInv, LockInv
<1>12. ASSUME AddMonthlyCredits(c) PROVE LockInv'
  <2>1. /\ call[c].pc = "credit" /\ call'[c].pc = "grant"
        /\ \A d \in Callers \ {c} : call'[d] = call[d]
        /\ balance' = [balance EXCEPT ![call[c].bearer] = @ + Units]
    BY <1>12, GrantShape DEF Others
  <2>2. call[c].bearer \in Bearers
    BY <2>1 DEF IInv, ArgsInv
  <2>3. \A d \in Callers : call[d].pc \in {"insert", "commit"} =>
           call[d].bearer \in Bearers /\ call[d].credits \in Nat
    BY DEF IInv, ArgsInv, ConsumeSteps, TypeOK, Call
  <2>4. \A b \in Bearers : balance[b] \in Nat /\ balance'[b] >= balance[b]
    BY <2>1, <2>2, CreditsAssumption DEF IInv, TypeOK
  <2>5. \A d \in Callers : call[d].pc \in {"insert", "commit"} =>
           balance'[call[d].bearer] >= call[d].credits
    <3> SUFFICES ASSUME NEW d \in Callers, call[d].pc \in {"insert", "commit"}
                 PROVE  balance'[call[d].bearer] >= call[d].credits
      OBVIOUS
    <3>1. balance[call[d].bearer] >= call[d].credits
      BY DEF IInv, LockInv
    <3>2. balance'[call[d].bearer] \in Nat
      BY <2>1, <2>2, <2>3, CreditsAssumption DEF IInv, TypeOK
    <3> QED
      BY <2>3, <2>4, <3>1, <3>2
  <2> QED
    BY <2>1, <2>5 DEF IInv, LockInv
<1>13. ASSUME GrantReturns(c) PROVE LockInv'
  BY <1>13, Shape
     DEF GrantReturns, Moved, Ended, Others, tables, IInv, LockInv, RowFree
<1>14. ASSUME Fail(c) PROVE LockInv'
  BY <1>14, Shape DEF Fail, Moved, Ended, Others, tables, IInv, LockInv, RowFree
<1>15. ASSUME NEW b \in Bearers, NEW k \in Keys, NEW n \in Amounts, ConsumeCredits(c, b, k, n)
      PROVE  LockInv'
  <2>1. UNCHANGED tables /\ \A d \in Callers \ {c} : call'[d] = call[d]
    BY <1>15, ConsumeShape DEF Others
  <2>2. /\ call'[c].pc \in {"begin", "lookup"} /\ call'[c].op = "consume"
        /\ call'[c].bearer = b /\ call'[c].credits = n /\ ~call'[c].paid
        /\ call'[c].answer = "none"
    BY <1>15, ConsumeShape
  <2> QED
    BY <1>15, <2>1, <2>2 DEF IInv, LockInv, tables
<1>16. ASSUME NEW b \in Bearers, NEW n \in Packs, PurchaseCredits(c, b, n)
      PROVE  LockInv'
  <2>1. UNCHANGED tables /\ \A d \in Callers \ {c} : call'[d] = call[d]
    BY <1>16, PurchaseShape DEF Others
  <2>2. /\ call'[c].pc = "buy" /\ call'[c].op = "purchase"
        /\ call'[c].bearer = b /\ call'[c].credits = n
    BY <1>16, PurchaseShape
  <2> QED
    BY <1>16, <2>1, <2>2 DEF IInv, LockInv, tables
<1>17. ASSUME NEW p \in Periods, GrantMonthlyCredits(c, p) PROVE LockInv'
  <2>1. UNCHANGED tables /\ \A d \in Callers \ {c} : call'[d] = call[d]
    BY <1>17, MonthlyShape DEF Others
  <2>2. /\ call'[c].pc = "grant" /\ call'[c].op = "grant" /\ call'[c].period = p
    BY <1>17, MonthlyShape
  <2> QED
    BY <1>17, <2>1, <2>2 DEF IInv, LockInv, tables
<1> QED
  BY <1>1, <1>2, <1>3, <1>4, <1>5, <1>6, <1>7, <1>8, <1>9, <1>10,
     <1>11, <1>12, <1>13, <1>14, <1>15, <1>16, <1>17
     DEF Step, Statement

\* A key is inserted only when no row and no open transaction has it.
LEMMA KeyStep ==
    ASSUME IInv, NEW c \in Callers, Step(c)
    PROVE  KeyInv'
<1>1. ASSUME Lookup(c) PROVE KeyInv'
  BY <1>1, Shape DEF Lookup, Moved, Ended, Others, tables, IInv, KeyInv
<1>2. ASSUME Begin(c) PROVE KeyInv'
  BY <1>2, Shape DEF Begin, Moved, Ended, Others, tables, IInv, KeyInv
<1>3. ASSUME Deduct(c) PROVE KeyInv'
  BY <1>3, Shape DEF Deduct, Moved, Ended, Others, tables, IInv, KeyInv
<1>4. ASSUME Check(c) PROVE KeyInv'
  BY <1>4, Shape DEF Check, Moved, Ended, Others, tables, IInv, KeyInv
<1>5. ASSUME Insert(c) PROVE KeyInv'
  BY <1>5, Shape DEF Insert, Moved, Ended, Others, tables, IInv, KeyInv
<1>6. ASSUME Commit(c) PROVE KeyInv'
  <2>1. /\ call'[c].pc = "idle"
        /\ \A d \in Callers \ {c} : call'[d] = call[d]
    BY <1>6, Shape DEF Ended, Others, IInv
  <2> QED
    BY <1>6, <2>1 DEF Commit, IInv, KeyInv
<1>7. ASSUME CommitAborted(c) PROVE KeyInv'
  BY <1>7, Shape DEF CommitAborted, Moved, Ended, Others, tables, IInv, KeyInv
<1>8. ASSUME RecordPurchase(c) PROVE KeyInv'
  BY <1>8, Shape DEF RecordPurchase, Moved, Ended, Others, tables, IInv, KeyInv
<1>9. ASSUME TopUp(c) PROVE KeyInv'
  BY <1>9, Shape DEF TopUp, Moved, Ended, Others, tables, IInv, KeyInv
<1>10. ASSUME Settle(c) PROVE KeyInv'
  <2>1. call'[c].pc = "idle" /\ \A d \in Callers \ {c} : call'[d] = call[d]
    BY <1>10, Shape DEF Ended, Others
  <2>2. consumed' = consumed /\ grants' = grants /\ credited' = credited
    BY <1>10 DEF Settle
  <2> QED
    BY <2>1, <2>2 DEF IInv, KeyInv
<1>11. ASSUME NEW b \in Bearers, RecordGrant(c, b) PROVE KeyInv'
  <2>1. /\ call[c].pc = "grant"
        /\ grants' = grants \cup {<<b, call[c].period>>}
        /\ UNCHANGED <<balance, lifetime, used, bought, consumed, credited>>
    BY <1>11, RecordShape
  <2>2. /\ \A d \in Callers \ {c} : call'[d] = call[d]
        /\ call'[c].op = call[c].op /\ call'[c].period = call[c].period
    BY <1>11, RecordShape DEF Others
  <2>3. \/ call'[c].pc = "grant"
        \/ /\ call'[c].pc = "credit" /\ call'[c].bearer = b
           /\ <<b, call[c].period>> \notin grants
    BY <1>11, RecordShape
  <2> QED
    BY <1>11, <2>1, <2>2, <2>3 DEF IInv, KeyInv
<1>12. ASSUME AddMonthlyCredits(c) PROVE KeyInv'
  BY <1>12, GrantShape DEF Others, tables, IInv, KeyInv
<1>13. ASSUME GrantReturns(c) PROVE KeyInv'
  BY <1>13, Shape DEF GrantReturns, Moved, Ended, Others, tables, IInv, KeyInv
<1>14. ASSUME Fail(c) PROVE KeyInv'
  BY <1>14, Shape DEF Fail, Moved, Ended, Others, tables, IInv, KeyInv
<1>15. ASSUME NEW b \in Bearers, NEW k \in Keys, NEW n \in Amounts, ConsumeCredits(c, b, k, n)
      PROVE  KeyInv'
  <2>1. UNCHANGED tables /\ \A d \in Callers \ {c} : call'[d] = call[d]
    BY <1>15, ConsumeShape DEF Others
  <2>2. /\ call'[c].pc \in {"begin", "lookup"} /\ call'[c].op = "consume"
        /\ call'[c].bearer = b /\ call'[c].credits = n /\ ~call'[c].paid
        /\ call'[c].answer = "none"
    BY <1>15, ConsumeShape
  <2> QED
    BY <1>15, <2>1, <2>2 DEF IInv, KeyInv, tables
<1>16. ASSUME NEW b \in Bearers, NEW n \in Packs, PurchaseCredits(c, b, n)
      PROVE  KeyInv'
  <2>1. UNCHANGED tables /\ \A d \in Callers \ {c} : call'[d] = call[d]
    BY <1>16, PurchaseShape DEF Others
  <2>2. /\ call'[c].pc = "buy" /\ call'[c].op = "purchase"
        /\ call'[c].bearer = b /\ call'[c].credits = n
    BY <1>16, PurchaseShape
  <2> QED
    BY <1>16, <2>1, <2>2 DEF IInv, KeyInv, tables
<1>17. ASSUME NEW p \in Periods, GrantMonthlyCredits(c, p) PROVE KeyInv'
  <2>1. UNCHANGED tables /\ \A d \in Callers \ {c} : call'[d] = call[d]
    BY <1>17, MonthlyShape DEF Others
  <2>2. /\ call'[c].pc = "grant" /\ call'[c].op = "grant" /\ call'[c].period = p
    BY <1>17, MonthlyShape
  <2> QED
    BY <1>17, <2>1, <2>2 DEF IInv, KeyInv, tables
<1> QED
  BY <1>1, <1>2, <1>3, <1>4, <1>5, <1>6, <1>7, <1>8, <1>9, <1>10,
     <1>11, <1>12, <1>13, <1>14, <1>15, <1>16, <1>17
     DEF Step, Statement

\* The credits of a grant are added by the call that recorded it.
LEMMA GrantStep ==
    ASSUME IInv, NEW c \in Callers, Step(c)
    PROVE  GrantInv'
<1>1. ASSUME Lookup(c) PROVE GrantInv'
  BY <1>1, Shape DEF Lookup, Moved, Ended, Others, tables, IInv, GrantInv
<1>2. ASSUME Begin(c) PROVE GrantInv'
  BY <1>2, Shape DEF Begin, Moved, Ended, Others, tables, IInv, GrantInv
<1>3. ASSUME Deduct(c) PROVE GrantInv'
  BY <1>3, Shape DEF Deduct, Moved, Ended, Others, tables, IInv, GrantInv
<1>4. ASSUME Check(c) PROVE GrantInv'
  BY <1>4, Shape DEF Check, Moved, Ended, Others, tables, IInv, GrantInv
<1>5. ASSUME Insert(c) PROVE GrantInv'
  BY <1>5, Shape DEF Insert, Moved, Ended, Others, tables, IInv, GrantInv
<1>6. ASSUME Commit(c) PROVE GrantInv'
  <2>1. call'[c].pc = "idle" /\ \A d \in Callers \ {c} : call'[d] = call[d]
    BY <1>6, Shape DEF Ended, Others
  <2>2. grants' = grants /\ credited' = credited
    BY <1>6 DEF Commit
  <2> QED
    BY <2>1, <2>2 DEF IInv, GrantInv
<1>7. ASSUME CommitAborted(c) PROVE GrantInv'
  BY <1>7, Shape DEF CommitAborted, Moved, Ended, Others, tables, IInv, GrantInv
<1>8. ASSUME RecordPurchase(c) PROVE GrantInv'
  BY <1>8, Shape DEF RecordPurchase, Moved, Ended, Others, tables, IInv, GrantInv
<1>9. ASSUME TopUp(c) PROVE GrantInv'
  BY <1>9, Shape DEF TopUp, Moved, Ended, Others, tables, IInv, GrantInv
<1>10. ASSUME Settle(c) PROVE GrantInv'
  <2>1. call'[c].pc = "idle" /\ \A d \in Callers \ {c} : call'[d] = call[d]
    BY <1>10, Shape DEF Ended, Others
  <2>2. consumed' = consumed /\ grants' = grants /\ credited' = credited
    BY <1>10 DEF Settle
  <2> QED
    BY <2>1, <2>2 DEF IInv, GrantInv
<1>11. ASSUME NEW b \in Bearers, RecordGrant(c, b) PROVE GrantInv'
  <2>1. /\ call[c].pc = "grant"
        /\ grants' = grants \cup {<<b, call[c].period>>}
        /\ UNCHANGED <<balance, lifetime, used, bought, consumed, credited>>
    BY <1>11, RecordShape
  <2>2. /\ \A d \in Callers \ {c} : call'[d] = call[d]
        /\ call'[c].op = call[c].op /\ call'[c].period = call[c].period
    BY <1>11, RecordShape DEF Others
  <2>3. \/ call'[c].pc = "grant"
        \/ /\ call'[c].pc = "credit" /\ call'[c].bearer = b
           /\ <<b, call[c].period>> \notin grants
    BY <1>11, RecordShape
  <2> QED
    BY <1>11, <2>1, <2>2, <2>3 DEF IInv, GrantInv
<1>12. ASSUME AddMonthlyCredits(c) PROVE GrantInv'
  <2>1. /\ call'[c].pc = "grant"
        /\ \A d \in Callers \ {c} : call'[d] = call[d]
    BY <1>12, GrantShape DEF Others
  <2>2. grants' = grants /\ credited' = credited \cup {<<call[c].bearer, call[c].period>>}
    BY <1>12 DEF AddMonthlyCredits
  <2>3. /\ <<call[c].bearer, call[c].period>> \in grants
        /\ \A d \in Callers \ {c} : call[d].pc = "credit" =>
              <<call[d].bearer, call[d].period>> # <<call[c].bearer, call[c].period>>
    BY <1>12 DEF AddMonthlyCredits, IInv, GrantInv
  <2> QED
    BY <2>1, <2>2, <2>3 DEF IInv, GrantInv
<1>13. ASSUME GrantReturns(c) PROVE GrantInv'
  BY <1>13, Shape DEF GrantReturns, Moved, Ended, Others, tables, IInv, GrantInv
<1>14. ASSUME Fail(c) PROVE GrantInv'
  BY <1>14, Shape DEF Fail, Moved, Ended, Others, tables, IInv, GrantInv
<1>15. ASSUME NEW b \in Bearers, NEW k \in Keys, NEW n \in Amounts, ConsumeCredits(c, b, k, n)
      PROVE  GrantInv'
  <2>1. UNCHANGED tables /\ \A d \in Callers \ {c} : call'[d] = call[d]
    BY <1>15, ConsumeShape DEF Others
  <2>2. /\ call'[c].pc \in {"begin", "lookup"} /\ call'[c].op = "consume"
        /\ call'[c].bearer = b /\ call'[c].credits = n /\ ~call'[c].paid
        /\ call'[c].answer = "none"
    BY <1>15, ConsumeShape
  <2> QED
    BY <1>15, <2>1, <2>2 DEF IInv, GrantInv, tables
<1>16. ASSUME NEW b \in Bearers, NEW n \in Packs, PurchaseCredits(c, b, n)
      PROVE  GrantInv'
  <2>1. UNCHANGED tables /\ \A d \in Callers \ {c} : call'[d] = call[d]
    BY <1>16, PurchaseShape DEF Others
  <2>2. /\ call'[c].pc = "buy" /\ call'[c].op = "purchase"
        /\ call'[c].bearer = b /\ call'[c].credits = n
    BY <1>16, PurchaseShape
  <2> QED
    BY <1>16, <2>1, <2>2 DEF IInv, GrantInv, tables
<1>17. ASSUME NEW p \in Periods, GrantMonthlyCredits(c, p) PROVE GrantInv'
  <2>1. UNCHANGED tables /\ \A d \in Callers \ {c} : call'[d] = call[d]
    BY <1>17, MonthlyShape DEF Others
  <2>2. /\ call'[c].pc = "grant" /\ call'[c].op = "grant" /\ call'[c].period = p
    BY <1>17, MonthlyShape
  <2> QED
    BY <1>17, <2>1, <2>2 DEF IInv, GrantInv, tables
<1> QED
  BY <1>1, <1>2, <1>3, <1>4, <1>5, <1>6, <1>7, <1>8, <1>9, <1>10,
     <1>11, <1>12, <1>13, <1>14, <1>15, <1>16, <1>17
     DEF Step, Statement

\* Answers stay true: keys are never forgotten.
LEMMA AnswersStep ==
    ASSUME IInv, NEW c \in Callers, Step(c)
    PROVE  AnswersTrue'
<1>1. ASSUME Lookup(c) PROVE AnswersTrue'
  BY <1>1, Shape
     DEF Lookup, Moved, Ended, Others, tables, IInv, AnswersTrue, ArgsInv,
         ConsumeSteps
<1>2. ASSUME Begin(c) PROVE AnswersTrue'
  BY <1>2, Shape
     DEF Begin, Moved, Ended, Others, tables, IInv, AnswersTrue, ArgsInv,
         ConsumeSteps
<1>3. ASSUME Deduct(c) PROVE AnswersTrue'
  BY <1>3, Shape
     DEF Deduct, Moved, Ended, Others, tables, IInv, AnswersTrue, ArgsInv,
         ConsumeSteps
<1>4. ASSUME Check(c) PROVE AnswersTrue'
  BY <1>4, Shape
     DEF Check, Moved, Ended, Others, tables, IInv, AnswersTrue, ArgsInv,
         ConsumeSteps
<1>5. ASSUME Insert(c) PROVE AnswersTrue'
  BY <1>5, Shape
     DEF Insert, Moved, Ended, Others, tables, IInv, AnswersTrue, ArgsInv,
         ConsumeSteps
<1>6. ASSUME Commit(c) PROVE AnswersTrue'
  <2>1. \A d \in Callers \ {c} : call'[d] = call[d]
    BY <1>6, Shape DEF Ended, Others, IInv
  <2>2. consumed \subseteq consumed'
    BY <1>6 DEF Commit
  <2>3. \/ call'[c].paid /\ call'[c].answer = "ok"
        \/ call'[c].answer = "error"
    BY <1>6, Shape DEF Ended
  <2> QED
    BY <2>1, <2>2, <2>3 DEF IInv, AnswersTrue
<1>7. ASSUME CommitAborted(c) PROVE AnswersTrue'
  BY <1>7, Shape
     DEF CommitAborted, Moved, Ended, Others, tables, IInv, AnswersTrue, ArgsInv,
         ConsumeSteps
<1>8. ASSUME RecordPurchase(c) PROVE AnswersTrue'
  BY <1>8, Shape
     DEF RecordPurchase, Moved, Ended, Others, tables, IInv, AnswersTrue, ArgsInv,
         ConsumeSteps
<1>9. ASSUME TopUp(c) PROVE AnswersTrue'
  BY <1>9, Shape
     DEF TopUp, Moved, Ended, Others, tables, IInv, AnswersTrue, ArgsInv,
         ConsumeSteps
<1>10. ASSUME Settle(c) PROVE AnswersTrue'
  <2>1. \A d \in Callers \ {c} : call'[d] = call[d]
    BY <1>10, Shape DEF Ended, Others
  <2>2. call[c].op = "purchase"
    BY <1>10 DEF Settle, IInv, ArgsInv, PurchaseSteps
  <2>3. call'[c].answer = "error" \/ call'[c].op = "purchase"
    BY <1>10, <2>2, Shape DEF Ended
  <2>4. consumed' = consumed
    BY <1>10 DEF Settle, tables
  <2> QED
    BY <2>1, <2>3, <2>4 DEF IInv, AnswersTrue
<1>11. ASSUME NEW b \in Bearers, RecordGrant(c, b) PROVE AnswersTrue'
  <2>1. /\ call[c].pc = "grant"
        /\ grants' = grants \cup {<<b, call[c].period>>}
        /\ UNCHANGED <<balance, lifetime, used, bought, consumed, credited>>
    BY <1>11, RecordShape
  <2>2. /\ \A d \in Callers \ {c} : call'[d] = call[d]
        /\ call'[c].op = call[c].op /\ call'[c].period = call[c].period
    BY <1>11, RecordShape DEF Others
  <2>3. \/ call'[c].pc = "grant"
        \/ /\ call'[c].pc = "credit" /\ call'[c].bearer = b
           /\ <<b, call[c].period>> \notin grants
    BY <1>11, RecordShape
  <2> QED
    BY <1>11, <2>1, <2>2, <2>3 DEF IInv, AnswersTrue
<1>12. ASSUME AddMonthlyCredits(c) PROVE AnswersTrue'
  BY <1>12, GrantShape DEF Others, tables, IInv, AnswersTrue, ArgsInv, ConsumeSteps
<1>13. ASSUME GrantReturns(c) PROVE AnswersTrue'
  <2>1. \A d \in Callers \ {c} : call'[d] = call[d]
    BY <1>13, Shape DEF Ended, Others
  <2>2. call[c].op = "grant"
    BY <1>13 DEF GrantReturns, IInv, ArgsInv, GrantSteps
  <2>3. call'[c].answer = "error" \/ call'[c].op = "grant"
    BY <1>13, <2>2, Shape DEF Ended
  <2>4. consumed' = consumed
    BY <1>13 DEF GrantReturns, tables
  <2> QED
    BY <2>1, <2>3, <2>4 DEF IInv, AnswersTrue
<1>14. ASSUME Fail(c) PROVE AnswersTrue'
  BY <1>14, Shape
     DEF Fail, Moved, Ended, Others, tables, IInv, AnswersTrue, ArgsInv,
         ConsumeSteps
<1>15. ASSUME NEW b \in Bearers, NEW k \in Keys, NEW n \in Amounts, ConsumeCredits(c, b, k, n)
      PROVE  AnswersTrue'
  <2>1. UNCHANGED tables /\ \A d \in Callers \ {c} : call'[d] = call[d]
    BY <1>15, ConsumeShape DEF Others
  <2>2. /\ call'[c].pc \in {"begin", "lookup"} /\ call'[c].op = "consume"
        /\ call'[c].bearer = b /\ call'[c].credits = n /\ ~call'[c].paid
        /\ call'[c].answer = "none"
    BY <1>15, ConsumeShape
  <2> QED
    BY <1>15, <2>1, <2>2 DEF IInv, AnswersTrue, tables
<1>16. ASSUME NEW b \in Bearers, NEW n \in Packs, PurchaseCredits(c, b, n)
      PROVE  AnswersTrue'
  <2>1. UNCHANGED tables /\ \A d \in Callers \ {c} : call'[d] = call[d]
    BY <1>16, PurchaseShape DEF Others
  <2>2. /\ call'[c].pc = "buy" /\ call'[c].op = "purchase"
        /\ call'[c].bearer = b /\ call'[c].credits = n
    BY <1>16, PurchaseShape
  <2> QED
    BY <1>16, <2>1, <2>2 DEF IInv, AnswersTrue, tables
<1>17. ASSUME NEW p \in Periods, GrantMonthlyCredits(c, p) PROVE AnswersTrue'
  <2>1. UNCHANGED tables /\ \A d \in Callers \ {c} : call'[d] = call[d]
    BY <1>17, MonthlyShape DEF Others
  <2>2. /\ call'[c].pc = "grant" /\ call'[c].op = "grant" /\ call'[c].period = p
    BY <1>17, MonthlyShape
  <2> QED
    BY <1>17, <2>1, <2>2 DEF IInv, AnswersTrue, tables
<1> QED
  BY <1>1, <1>2, <1>3, <1>4, <1>5, <1>6, <1>7, <1>8, <1>9, <1>10,
     <1>11, <1>12, <1>13, <1>14, <1>15, <1>16, <1>17
     DEF Step, Statement


\* The initial state satisfies the invariant.
LEMMA InitIInv == ASSUME Init PROVE IInv
BY CreditsAssumption
   DEF Init, IInv, TypeOK, ArgsInv, LockInv, KeyInv, GrantInv, AnswersTrue, Call, Steps,
       ConsumeSteps, PurchaseSteps, GrantSteps, NoCall

\* A step, or a stutter, keeps the invariant.
LEMMA NextIInv == ASSUME IInv, [Next]_vars PROVE IInv'
<1>1. CASE Next
  <2>1. PICK c \in Callers : Step(c)
    BY <1>1 DEF Next
  <2> QED
    BY <2>1, TypeStep, ArgsStep, LockStep, KeyStep, GrantStep, AnswersStep DEF IInv
<1>2. CASE UNCHANGED vars
  BY <1>2 DEF vars, IInv, TypeOK, ArgsInv, LockInv, KeyInv, GrantInv, AnswersTrue
<1> QED
  BY <1>1, <1>2

\* The invariant holds in every reachable state.
THEOREM Inductive == Spec => []IInv
<1>1. Init => IInv
  BY InitIInv
<1>2. IInv /\ [Next]_vars => IInv'
  BY NextIInv
<1> QED
  BY <1>1, <1>2, PTL DEF Spec

\* No balance goes negative: ConsumeCredits' UPDATE ... WHERE balance >= n and
\* its row lock keep every committed balance, total and call in its type.
THEOREM TypeCorrect == Spec => []TypeOK
<1>1. IInv => TypeOK
  BY DEF IInv
<1> QED
  BY <1>1, Inductive, PTL

\* ConsumeCredits answers truthfully, whatever raced with it.
THEOREM AnswersAreTrue == Spec => []AnswersTrue
<1>1. IInv => AnswersTrue
  BY DEF IInv
<1> QED
  BY <1>1, Inductive, PTL

-----------------------------------------------------------------------------
\* The number of periods whose grant reached b's balance.
Months(b) == Cardinality({p \in Periods : <<b, p>> \in credited})

\* It is a number, and so is what the grants brought.
LEMMA MonthsNat == ASSUME NEW b PROVE Months(b) \in Nat /\ Units * Months(b) \in Nat
<1>1. IsFiniteSet({p \in Periods : <<b, p>> \in credited})
  BY CreditsAssumption, FS_Subset
<1>2. Months(b) \in Nat
  BY <1>1, FS_CardinalityType DEF Months
<1> QED
  BY <1>2, CreditsAssumption
\* Each committed step keeps both sides of the balance equal.
LEMMA ConservedStep ==
    ASSUME IInv, Conserved, NEW c \in Callers, Step(c)
    PROVE  Conserved'
<1> USE CreditsAssumption
<1>1. ASSUME Lookup(c) PROVE Conserved'
  BY <1>1 DEF Lookup, Conserved, tables
<1>2. ASSUME Begin(c) PROVE Conserved'
  BY <1>2 DEF Begin, Conserved, tables
<1>3. ASSUME Deduct(c) PROVE Conserved'
  BY <1>3 DEF Deduct, Conserved, tables
<1>4. ASSUME Check(c) PROVE Conserved'
  BY <1>4 DEF Check, Conserved, tables
<1>5. ASSUME Insert(c) PROVE Conserved'
  BY <1>5 DEF Insert, Conserved, tables
<1>6. ASSUME Commit(c) PROVE Conserved'
  <2>1. call[c].bearer \in Bearers /\ call[c].credits \in Nat
    BY <1>6 DEF Commit, IInv, ArgsInv, ConsumeSteps, TypeOK, Call
  <2>2. credited' = credited /\ bought' = bought
    BY <1>6 DEF Commit
  <2>3. ASSUME NEW b \in Bearers
        PROVE  balance'[b] + used'[b] = balance[b] + used[b]
    BY <1>6, <2>1 DEF Commit, IInv, TypeOK
  <2>4. ASSUME NEW b \in Bearers
        PROVE  lifetime[b] = used[b] => lifetime'[b] = used'[b]
    BY <1>6, <2>1 DEF Commit, IInv, TypeOK
  <2> QED
    BY <2>2, <2>3, <2>4 DEF Conserved
<1>7. ASSUME CommitAborted(c) PROVE Conserved'
  BY <1>7 DEF CommitAborted, Conserved, tables
<1>8. ASSUME RecordPurchase(c) PROVE Conserved'
  BY <1>8 DEF RecordPurchase, Conserved, tables
<1>9. ASSUME TopUp(c) PROVE Conserved'
  BY <1>9 DEF TopUp, Conserved, tables
<1>10. ASSUME Settle(c) PROVE Conserved'
  <2>1. call[c].bearer \in Bearers /\ call[c].credits \in Nat
    BY <1>10 DEF Settle, IInv, ArgsInv, PurchaseSteps, TypeOK, Call
  <2>2. credited' = credited /\ used' = used /\ lifetime' = lifetime
    BY <1>10 DEF Settle
  <2>3. ASSUME NEW b \in Bearers
        PROVE  \/ balance'[b] = balance[b] /\ bought'[b] = bought[b]
               \/ /\ balance'[b] = balance[b] + call[c].credits
                  /\ bought'[b] = bought[b] + call[c].credits
    BY <1>10, <2>1 DEF Settle, IInv, TypeOK
  <2> SUFFICES ASSUME NEW b \in Bearers
               PROVE  /\ balance'[b] + used[b] = Seed + bought'[b] + Units * Months(b)
                      /\ lifetime[b] = used[b]
    BY <2>2 DEF Conserved, Months
  <2>4. /\ balance[b] + used[b] = Seed + bought[b] + Units * Months(b)
        /\ lifetime[b] = used[b]
    BY DEF Conserved, Months
  <2>5. /\ balance[b] \in Nat /\ used[b] \in Nat /\ bought[b] \in Nat
        /\ Units * Months(b) \in Nat
    BY MonthsNat DEF IInv, TypeOK
  <2> QED
    BY <2>1, <2>3, <2>4, <2>5
<1>11. ASSUME NEW b \in Bearers, RecordGrant(c, b) PROVE Conserved'
  BY <1>11 DEF RecordGrant, Conserved, tables
<1>12. ASSUME AddMonthlyCredits(c) PROVE Conserved'
  <2> DEFINE x == call[c].bearer
             q == call[c].period
  <2>1. x \in Bearers /\ q \in Periods
    BY <1>12 DEF AddMonthlyCredits, IInv, ArgsInv, GrantSteps
  <2>2. <<x, q>> \notin credited
    BY <1>12 DEF AddMonthlyCredits, IInv, GrantInv
  <2>3. /\ used' = used /\ lifetime' = lifetime /\ bought' = bought
        /\ credited' = credited \cup {<<x, q>>}
        /\ balance' = [balance EXCEPT ![x] = @ + Units]
    BY <1>12 DEF AddMonthlyCredits
  <2> HIDE DEF x, q
  <2> SUFFICES ASSUME NEW b \in Bearers
               PROVE  /\ balance'[b] + used[b] = Seed + bought[b] + Units * Months(b)'
                      /\ lifetime[b] = used[b]
    BY <2>3 DEF Conserved, Months
  <2>4. /\ balance[b] + used[b] = Seed + bought[b] + Units * Months(b)
        /\ lifetime[b] = used[b]
    BY DEF Conserved, Months
  <2>5. /\ balance[b] \in Nat /\ used[b] \in Nat /\ bought[b] \in Nat
        /\ Months(b) \in Nat
    BY MonthsNat DEF IInv, TypeOK
  <2>6. CASE b = x
    <3>1. {p \in Periods : <<b, p>> \in credited'}
             = {p \in Periods : <<b, p>> \in credited} \cup {q}
      BY <2>1, <2>3, <2>6
    <3>2. IsFiniteSet({p \in Periods : <<b, p>> \in credited})
      BY FS_Subset
    <3>3. q \notin {p \in Periods : <<b, p>> \in credited}
      BY <2>2, <2>6
    <3>4. Months(b)' = Months(b) + 1
      BY <3>1, <3>2, <3>3, FS_AddElement DEF Months
    <3>5. balance'[b] = balance[b] + Units
      BY <2>1, <2>3, <2>6 DEF IInv, TypeOK
    <3>6. Units * (Months(b) + 1) = Units * Months(b) + Units
      BY <2>5
    <3>7. Units * Months(b) \in Nat
      BY <2>5
    <3> HIDE CreditsAssumption
    <3>8. Units \in Nat /\ Seed \in Nat
      BY CreditsAssumption
    <3> QED
      BY <2>4, <2>5, <3>4, <3>5, <3>6, <3>7, <3>8
  <2>7. CASE b # x
    <3>1. {p \in Periods : <<b, p>> \in credited'} = {p \in Periods : <<b, p>> \in credited}
      BY <2>3, <2>7
    <3>2. balance'[b] = balance[b]
      BY <2>3, <2>7 DEF IInv, TypeOK
    <3> QED
      BY <2>4, <3>1, <3>2 DEF Months
  <2> QED
    BY <2>6, <2>7
<1>13. ASSUME GrantReturns(c) PROVE Conserved'
  BY <1>13 DEF GrantReturns, Conserved, tables
<1>14. ASSUME Fail(c) PROVE Conserved'
  BY <1>14 DEF Fail, Conserved, tables
<1>15. ASSUME NEW b \in Bearers, NEW k \in Keys, NEW n \in Amounts, ConsumeCredits(c, b, k, n)
      PROVE  Conserved'
  BY <1>15 DEF ConsumeCredits, Conserved, tables
<1>16. ASSUME NEW b \in Bearers, NEW n \in Packs, PurchaseCredits(c, b, n)
      PROVE  Conserved'
  BY <1>16 DEF PurchaseCredits, Conserved, tables
<1>17. ASSUME NEW p \in Periods, GrantMonthlyCredits(c, p) PROVE Conserved'
  BY <1>17 DEF GrantMonthlyCredits, Conserved, tables
<1> QED
  BY <1>1, <1>2, <1>3, <1>4, <1>5, <1>6, <1>7, <1>8, <1>9, <1>10,
     <1>11, <1>12, <1>13, <1>14, <1>15, <1>16, <1>17
     DEF Step, Statement


\* Credits are conserved whatever ConsumeCredits, PurchaseCredits and
\* GrantMonthlyCredits calls race, fail or lose their answer.
THEOREM CreditsConserved == Spec => []Conserved
<1>1. Init => Conserved
  <2> SUFFICES ASSUME Init PROVE Conserved
    OBVIOUS
  <2>1. \A b \in Bearers : {p \in Periods : <<b, p>> \in credited} = {}
    BY DEF Init
  <2>2. Cardinality({}) = 0
    BY FS_EmptySet
  <2>3. Units * 0 = 0 /\ Seed \in Nat
    BY CreditsAssumption
  <2>4. ASSUME NEW b \in Bearers
        PROVE  balance[b] = Seed /\ used[b] = 0 /\ bought[b] = 0 /\ lifetime[b] = 0
    BY DEF Init
  <2>5. ASSUME NEW b \in Bearers
        PROVE  Units * Cardinality({p \in Periods : <<b, p>> \in credited}) = 0
    BY <2>1, <2>2, <2>3
  <2> QED
    BY <2>3, <2>4, <2>5 DEF Conserved
<1>2. IInv /\ Conserved /\ [Next]_vars => Conserved'
  <2> SUFFICES ASSUME IInv, Conserved, [Next]_vars PROVE Conserved'
    OBVIOUS
  <2>1. CASE UNCHANGED vars
    BY <2>1 DEF vars, Conserved
  <2>2. CASE Next
    BY <2>2, ConservedStep DEF Next
  <2> QED
    BY <2>1, <2>2
<1> QED
  BY <1>1, <1>2, Inductive, PTL DEF Spec

-----------------------------------------------------------------------------
\* Every step is one operation of the ledger or leaves it alone.
LEMMA LedgerStep ==
    ASSUME IInv, NEW c \in Callers, Step(c)
    PROVE  [Ledger!Next]_(Ledger!vars)
<1>1. ASSUME Lookup(c) PROVE [Ledger!Next]_(Ledger!vars)
  BY <1>1 DEF Lookup, tables, Ledger!vars
<1>2. ASSUME Begin(c) PROVE [Ledger!Next]_(Ledger!vars)
  BY <1>2 DEF Begin, tables, Ledger!vars
<1>3. ASSUME Deduct(c) PROVE [Ledger!Next]_(Ledger!vars)
  BY <1>3 DEF Deduct, tables, Ledger!vars
<1>4. ASSUME Check(c) PROVE [Ledger!Next]_(Ledger!vars)
  BY <1>4 DEF Check, tables, Ledger!vars
<1>5. ASSUME Insert(c) PROVE [Ledger!Next]_(Ledger!vars)
  BY <1>5 DEF Insert, tables, Ledger!vars
<1>6. ASSUME Commit(c) PROVE [Ledger!Next]_(Ledger!vars)
  <2>1. /\ call[c].bearer \in Bearers /\ call[c].key \in Keys /\ call[c].credits \in Amounts
        /\ call[c].key \notin consumed
        /\ balance[call[c].bearer] >= call[c].credits
    BY <1>6 DEF Commit, IInv, ArgsInv, LockInv, KeyInv, ConsumeSteps, TypeOK, Call
  <2>2. Ledger!Charge(call[c].bearer, call[c].key, call[c].credits)
    BY <1>6, <2>1 DEF Commit, Ledger!Charge
  <2> QED
    BY <2>1, <2>2 DEF Ledger!Next
<1>7. ASSUME CommitAborted(c) PROVE [Ledger!Next]_(Ledger!vars)
  BY <1>7 DEF CommitAborted, tables, Ledger!vars
<1>8. ASSUME RecordPurchase(c) PROVE [Ledger!Next]_(Ledger!vars)
  BY <1>8 DEF RecordPurchase, tables, Ledger!vars
<1>9. ASSUME TopUp(c) PROVE [Ledger!Next]_(Ledger!vars)
  BY <1>9 DEF TopUp, tables, Ledger!vars
<1>10. ASSUME Settle(c) PROVE [Ledger!Next]_(Ledger!vars)
  <2>1. call[c].bearer \in Bearers /\ call[c].credits \in Packs
    BY <1>10 DEF Settle, IInv, ArgsInv, PurchaseSteps
  <2>2. Ledger!Buy(call[c].bearer, call[c].credits)
    BY <1>10 DEF Settle, Ledger!Buy
  <2> QED
    BY <2>1, <2>2 DEF Ledger!Next
<1>11. ASSUME NEW b \in Bearers, RecordGrant(c, b) PROVE [Ledger!Next]_(Ledger!vars)
  BY <1>11 DEF RecordGrant, tables, Ledger!vars
<1>12. ASSUME AddMonthlyCredits(c) PROVE [Ledger!Next]_(Ledger!vars)
  <2>1. /\ call[c].bearer \in Bearers /\ call[c].period \in Periods
        /\ <<call[c].bearer, call[c].period>> \notin credited
    BY <1>12 DEF AddMonthlyCredits, IInv, ArgsInv, GrantInv, GrantSteps
  <2>2. Ledger!Grant(call[c].bearer, call[c].period)
    BY <1>12, <2>1 DEF AddMonthlyCredits, Ledger!Grant
  <2> QED
    BY <2>1, <2>2 DEF Ledger!Next
<1>13. ASSUME GrantReturns(c) PROVE [Ledger!Next]_(Ledger!vars)
  BY <1>13 DEF GrantReturns, tables, Ledger!vars
<1>14. ASSUME Fail(c) PROVE [Ledger!Next]_(Ledger!vars)
  BY <1>14 DEF Fail, tables, Ledger!vars
<1>15. ASSUME NEW b \in Bearers, NEW k \in Keys, NEW n \in Amounts, ConsumeCredits(c, b, k, n)
      PROVE  [Ledger!Next]_(Ledger!vars)
  BY <1>15 DEF ConsumeCredits, tables, Ledger!vars
<1>16. ASSUME NEW b \in Bearers, NEW n \in Packs, PurchaseCredits(c, b, n)
      PROVE  [Ledger!Next]_(Ledger!vars)
  BY <1>16 DEF PurchaseCredits, tables, Ledger!vars
<1>17. ASSUME NEW p \in Periods, GrantMonthlyCredits(c, p)
      PROVE  [Ledger!Next]_(Ledger!vars)
  BY <1>17 DEF GrantMonthlyCredits, tables, Ledger!vars
<1> QED
  BY <1>1, <1>2, <1>3, <1>4, <1>5, <1>6, <1>7, <1>8, <1>9, <1>10,
     <1>11, <1>12, <1>13, <1>14, <1>15, <1>16, <1>17
     DEF Step, Statement


\* The store implements the ledger: one atomic charge for a key and never more
\* than the balance, one grant for a period, for any number of concurrent calls.
THEOREM ImplementsLedger == Spec => LedgerSpec
<1>1. Init => Ledger!Init
  BY DEF Init, Ledger!Init
<1>2. IInv /\ [Next]_vars => [Ledger!Next]_(Ledger!vars)
  <2> SUFFICES ASSUME IInv, [Next]_vars PROVE [Ledger!Next]_(Ledger!vars)
    OBVIOUS
  <2>1. CASE UNCHANGED vars
    BY <2>1 DEF vars, Ledger!vars
  <2>2. CASE Next
    BY <2>2, LedgerStep DEF Next
  <2> QED
    BY <2>1, <2>2
<1> QED
  BY <1>1, <1>2, Inductive, PTL DEF Spec, LedgerSpec, Ledger!Spec
=============================================================================
