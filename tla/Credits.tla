------------------------------ MODULE Credits ------------------------------
(***************************************************************************)
(* The pre-paid credits of one organization as the PostgreSQL store keeps   *)
(* them (internal/store/postgres/credit_store.go, migration 000102):        *)
(* ConsumeCredits, PurchaseCredits and GrantMonthlyCredits, statement by    *)
(* statement, called by concurrent request goroutines that share one        *)
(* connection pool.                                                         *)
(*                                                                         *)
(* The insert-only tables credit_purchases and credit_consumptions are      *)
(* abstracted to the sums of their credits columns and, for the second, the *)
(* set of idempotency keys its unique index holds.  What a transaction has  *)
(* written and not committed is in its call's pc; a missing balance row is  *)
(* a balance of 0, as in GetCreditBalance.                                  *)
(***************************************************************************)
EXTENDS Integers, FiniteSets

CONSTANTS
    Callers,   \* request goroutines that call the credit store
    Bearers,   \* cost bearers
    Keys,      \* idempotency keys, NoKey included
    NoKey,     \* the empty key: no lookup, yet stored as '' and so unique too
    Periods,   \* billing periods
    Amounts,   \* credits one consumption takes
    Packs,     \* sizes of the active credit packs
    Units,     \* credits granted for a month by the organization's plan
    None,      \* no bearer, no period
    Seed,      \* the balance the seeding migration gave the organization
    MaxConns,  \* size of the connection pool (DB_MAX_CONNS)
    MaxBought  \* bound: no purchase starts once this much was bought

ASSUME CreditsAssumption ==
    /\ IsFiniteSet(Callers)
    /\ NoKey \in Keys
    /\ IsFiniteSet(Periods)
    /\ Amounts \subseteq Nat \ {0}
    /\ Packs \subseteq Nat \ {0}
    /\ Units \in Nat
    /\ Seed \in Nat
    /\ MaxConns \in Nat
    /\ MaxBought \in Nat

VARIABLES
    balance,   \* credit_balances.balance, committed
    lifetime,  \* credit_balances.lifetime_used, committed
    used,      \* sum of the credits of b's credit_consumptions rows
    bought,    \* sum of the credits of b's credit_purchases rows
    consumed,  \* idempotency keys in credit_consumptions
    grants,    \* <<bearer, period>> rows of monthly_credit_grants
    credited,  \* <<bearer, period>> grants whose credits reached the balance
    call       \* call[c]: the store call goroutine c is in, or its last answer

vars == <<balance, lifetime, used, bought, consumed, grants, credited, call>>

(***************************************************************************)
(* Where a call stands.  From "deduct" to "commit", in "check" and in       *)
(* "topup" and "settle" it has a transaction, hence a connection; in        *)
(* "insert", "commit" and "settle" it holds the lock of its balance row;    *)
(* "aborted" is a transaction a unique violation has put in the failed      *)
(* state, whose COMMIT rolls back.                                          *)
(***************************************************************************)
ConsumeSteps == {"lookup", "begin", "deduct", "check", "insert", "commit", "aborted"}
PurchaseSteps == {"buy", "topup", "settle"}
GrantSteps == {"grant", "credit"}
Steps == {"idle"} \cup ConsumeSteps \cup PurchaseSteps \cup GrantSteps

InTx == {"deduct", "check", "insert", "commit", "aborted", "topup", "settle"}

\* bearer, key, period and credits are the arguments; todo the bearers a grant
\* still has to visit; paid whether this call's deduction was committed.
Call == [pc : Steps, op : {"none", "consume", "purchase", "grant"},
         bearer : Bearers \cup {None}, key : Keys, period : Periods \cup {None},
         credits : Nat, todo : SUBSET Bearers, paid : BOOLEAN,
         answer : {"none", "ok", "replay", "insufficient", "error"}]

NoCall == [pc |-> "idle", op |-> "none", bearer |-> None, key |-> NoKey,
           period |-> None, credits |-> 0, todo |-> {}, paid |-> FALSE,
           answer |-> "none"]

\* No balance is negative.
TypeOK ==
    /\ balance \in [Bearers -> Nat]
    /\ lifetime \in [Bearers -> Nat]
    /\ used \in [Bearers -> Nat]
    /\ bought \in [Bearers -> Nat]
    /\ consumed \subseteq Keys
    /\ grants \subseteq Bearers \X Periods
    /\ credited \subseteq Bearers \X Periods
    /\ call \in [Callers -> Call]

Init ==
    /\ balance = [b \in Bearers |-> Seed]
    /\ lifetime = [b \in Bearers |-> 0]
    /\ used = [b \in Bearers |-> 0]
    /\ bought = [b \in Bearers |-> 0]
    /\ consumed = {}
    /\ grants = {}
    /\ credited = {}
    /\ call = [c \in Callers |-> NoCall]

-----------------------------------------------------------------------------
\* Connections of the pool that nobody holds.  A statement outside a
\* transaction needs one only while it runs.
FreeConns == MaxConns - Cardinality({c \in Callers : call[c].pc \in InTx})

\* Nobody's transaction holds the lock of b's balance row.
RowFree(b) ==
    \A d \in Callers :
        call[d].pc \in {"insert", "commit", "settle"} => call[d].bearer # b

\* The call moves on to its next statement.
Goto(c, s) == call' = [call EXCEPT ![c].pc = s]

\* The call returns a to its caller.
Return(c, a) ==
    call' = [call EXCEPT ![c].pc = "idle", ![c].bearer = None,
                         ![c].credits = 0, ![c].todo = {}, ![c].answer = a]

\* The call returns an error, which says nothing of what was committed.
ReturnError(c) == call' = [call EXCEPT ![c] = [NoCall EXCEPT !.answer = "error"]]

tables == <<balance, lifetime, used, bought, consumed, grants, credited>>

-----------------------------------------------------------------------------
(***************************************************************************)
(* ConsumeCredits(orgID, b, n, operation, metadata, k).                     *)
(***************************************************************************)
ConsumeCredits(c, b, k, n) ==
    /\ call[c].pc = "idle"
    /\ call' = [call EXCEPT ![c] =
                  [NoCall EXCEPT !.pc = IF k = NoKey THEN "begin" ELSE "lookup",
                                 !.op = "consume", !.bearer = b, !.key = k,
                                 !.credits = n]]
    /\ UNCHANGED tables

\* lookupIdempotentConsumption.  Not found and a failed query alike go on.
Lookup(c) ==
    /\ call[c].pc = "lookup"
    /\ FreeConns > 0
    /\ \/ call[c].key \in consumed /\ Return(c, "replay")
       \/ Goto(c, "begin")
    /\ UNCHANGED tables

Begin(c) ==
    /\ call[c].pc = "begin"
    /\ FreeConns > 0
    /\ Goto(c, "deduct")
    /\ UNCHANGED tables

\* Mutant: the balance is read, and the row is not locked.
DeductUnlocked(c) ==
    /\ call[c].pc = "deduct"
    /\ IF balance[call[c].bearer] >= call[c].credits
       THEN Goto(c, "insert")
       ELSE Goto(c, "check")
    /\ UNCHANGED tables

\* UPDATE ... WHERE balance >= n: locks the row, or matches none and locks
\* nothing.  A row that matched and was locked is tested again once it is free.
Deduct(c) ==
    /\ call[c].pc = "deduct"
    /\ \/ /\ balance[call[c].bearer] >= call[c].credits
          /\ RowFree(call[c].bearer)
          /\ Goto(c, "insert")
       \/ /\ balance[call[c].bearer] < call[c].credits
          /\ Goto(c, "check")
    /\ UNCHANGED tables

\* No row: GetCreditBalance asks for a second connection while the transaction
\* keeps its own.  Whatever it reads, both branches answer
\* ErrInsufficientCredits; the row the second one inserts is rolled back.
Check(c) ==
    /\ call[c].pc = "check"
    /\ FreeConns > 0
    /\ Return(c, "insufficient")
    /\ UNCHANGED tables

\* Mutant: the unique index on (org_id, idempotency_key) is missing.
InsertUnchecked(c) ==
    /\ call[c].pc = "insert"
    /\ Goto(c, "commit")
    /\ UNCHANGED tables

\* Mutant: the conflicting insert waits for ever.
InsertWaits(c) ==
    /\ call[c].pc = "insert"
    /\ call[c].key \notin consumed
    /\ Goto(c, "commit")
    /\ UNCHANGED tables

\* INSERT INTO credit_consumptions.  The unique index makes it wait for a
\* transaction that inserted the same key, and fail if that one committed.
Insert(c) ==
    /\ call[c].pc = "insert"
    /\ \A d \in Callers : call[d].pc = "commit" => call[d].key # call[c].key
    /\ IF call[c].key \in consumed THEN Goto(c, "aborted") ELSE Goto(c, "commit")
    /\ UNCHANGED tables

\* COMMIT; the answer can be lost on its way back.
Commit(c) ==
    /\ call[c].pc = "commit"
    /\ balance' = [balance EXCEPT ![call[c].bearer] = @ - call[c].credits]
    /\ lifetime' = [lifetime EXCEPT ![call[c].bearer] = @ + call[c].credits]
    /\ used' = [used EXCEPT ![call[c].bearer] = @ + call[c].credits]
    /\ consumed' = consumed \cup {call[c].key}
    /\ \/ call' = [call EXCEPT ![c] =
                     [NoCall EXCEPT !.op = "consume", !.key = call[c].key,
                                    !.paid = TRUE, !.answer = "ok"]]
       \/ ReturnError(c)
    /\ UNCHANGED <<bought, grants, credited>>

\* Mutant: the deduction is committed without its row, as the comment in the
\* code has it ("Our UPDATE is committed; the other tx's consumption record
\* covers it").
CommitDeduction(c) ==
    /\ call[c].pc = "aborted"
    /\ balance' = [balance EXCEPT ![call[c].bearer] = @ - call[c].credits]
    /\ lifetime' = [lifetime EXCEPT ![call[c].bearer] = @ + call[c].credits]
    /\ Return(c, "ok")
    /\ UNCHANGED <<used, bought, consumed, grants, credited>>

\* Mutant: the rolled-back commit is reported as a success.
CommitAbortedAsOk(c) ==
    /\ call[c].pc = "aborted"
    /\ Return(c, "ok")
    /\ UNCHANGED tables

\* COMMIT of the failed transaction rolls back; pgx reports that as an error.
CommitAborted(c) ==
    /\ call[c].pc = "aborted"
    /\ ReturnError(c)
    /\ UNCHANGED tables

-----------------------------------------------------------------------------
(***************************************************************************)
(* PurchaseCredits(orgID, packID): the pack fixes the bearer and the size.  *)
(***************************************************************************)
PurchaseCredits(c, b, n) ==
    /\ call[c].pc = "idle"
    /\ \A x \in Bearers : bought[x] < MaxBought
    /\ call' = [call EXCEPT ![c] =
                  [NoCall EXCEPT !.pc = "buy", !.op = "purchase", !.bearer = b,
                                 !.credits = n]]
    /\ UNCHANGED tables

\* BEGIN, INSERT INTO credit_purchases.
RecordPurchase(c) ==
    /\ call[c].pc = "buy"
    /\ FreeConns > 0
    /\ Goto(c, "topup")
    /\ UNCHANGED tables

\* INSERT ... ON CONFLICT DO UPDATE of the balance locks its row.
TopUp(c) ==
    /\ call[c].pc = "topup"
    /\ RowFree(call[c].bearer)
    /\ Goto(c, "settle")
    /\ UNCHANGED tables

Settle(c) ==
    /\ call[c].pc = "settle"
    /\ bought' = [bought EXCEPT ![call[c].bearer] = @ + call[c].credits]
    /\ balance' = [balance EXCEPT ![call[c].bearer] = @ + call[c].credits]
    /\ Return(c, "ok") \/ ReturnError(c)
    /\ UNCHANGED <<lifetime, used, consumed, grants, credited>>

-----------------------------------------------------------------------------
(***************************************************************************)
(* GrantMonthlyCredits(orgID, plan, p): for every bearer two statements,    *)
(* each its own transaction.                                                *)
(***************************************************************************)
GrantMonthlyCredits(c, p) ==
    /\ call[c].pc = "idle"
    /\ call' = [call EXCEPT ![c] =
                  [NoCall EXCEPT !.pc = "grant", !.op = "grant", !.period = p,
                                 !.todo = IF Units > 0 THEN Bearers ELSE {}]]
    /\ UNCHANGED tables

\* Mutant: the row is inserted, and nobody looks whether it was there.
RecordGrantBlind(c, b) ==
    /\ call[c].pc = "grant"
    /\ b \in call[c].todo
    /\ FreeConns > 0
    /\ grants' = grants \cup {<<b, call[c].period>>}
    /\ call' = [call EXCEPT ![c].pc = "credit", ![c].bearer = b]
    /\ UNCHANGED <<balance, lifetime, used, bought, consumed, credited>>

\* INSERT INTO monthly_credit_grants ON CONFLICT DO NOTHING.
RecordGrant(c, b) ==
    /\ call[c].pc = "grant"
    /\ b \in call[c].todo
    /\ FreeConns > 0
    /\ grants' = grants \cup {<<b, call[c].period>>}
    /\ IF <<b, call[c].period>> \in grants
       THEN call' = [call EXCEPT ![c].todo = @ \ {b}]
       ELSE call' = [call EXCEPT ![c].pc = "credit", ![c].bearer = b]
    /\ UNCHANGED <<balance, lifetime, used, bought, consumed, credited>>

\* INSERT INTO credit_balances ON CONFLICT DO UPDATE.
AddMonthlyCredits(c) ==
    /\ call[c].pc = "credit"
    /\ FreeConns > 0
    /\ RowFree(call[c].bearer)
    /\ balance' = [balance EXCEPT ![call[c].bearer] = @ + Units]
    /\ credited' = credited \cup {<<call[c].bearer, call[c].period>>}
    /\ call' = [call EXCEPT ![c].pc = "grant", ![c].bearer = None,
                            ![c].todo = @ \ {call[c].bearer}]
    /\ UNCHANGED <<lifetime, used, bought, consumed, grants>>

GrantReturns(c) ==
    /\ call[c].pc = "grant"
    /\ call[c].todo = {}
    /\ Return(c, "ok")
    /\ UNCHANGED tables

-----------------------------------------------------------------------------
\* A statement fails, the request is cancelled or the process dies: what the
\* call's transaction wrote is rolled back.
Fail(c) ==
    /\ call[c].pc # "idle"
    /\ ReturnError(c)
    /\ UNCHANGED tables

\* The statements of a call that has been made.
Statement(c) ==
    \/ Lookup(c) \/ Begin(c) \/ Deduct(c) \/ Check(c) \/ Insert(c)
    \/ Commit(c) \/ CommitAborted(c)
    \/ RecordPurchase(c) \/ TopUp(c) \/ Settle(c)
    \/ \E b \in Bearers : RecordGrant(c, b)
    \/ AddMonthlyCredits(c) \/ GrantReturns(c)

Step(c) ==
    \/ \E b \in Bearers, k \in Keys, n \in Amounts : ConsumeCredits(c, b, k, n)
    \/ \E b \in Bearers, n \in Packs : PurchaseCredits(c, b, n)
    \/ \E p \in Periods : GrantMonthlyCredits(c, p)
    \/ Statement(c)
    \/ Fail(c)

Next == \E c \in Callers : Step(c)

\* A goroutine that can run its next statement does; locks and connections are
\* handed out in the order of waiting, so nobody waits while others overtake
\* it for ever.  Clients call, and calls fail, or not.
Fairness == \A c \in Callers : SF_vars(Statement(c))

Spec == Init /\ [][Next]_vars /\ Fairness

-----------------------------------------------------------------------------
(***************************************************************************)
(* Inductive invariant.                                                     *)
(***************************************************************************)
\* A call in flight has the arguments its statements use.
ArgsInv ==
    \A c \in Callers :
        /\ call[c].pc \in ConsumeSteps \cup PurchaseSteps \cup {"credit"}
              => call[c].bearer \in Bearers
        /\ call[c].pc \in GrantSteps => call[c].period \in Periods
        /\ call[c].pc \in ConsumeSteps => /\ call[c].op = "consume"
                                          /\ call[c].credits \in Amounts
                                          /\ ~call[c].paid
        /\ call[c].pc \in PurchaseSteps => /\ call[c].op = "purchase"
                                           /\ call[c].credits \in Packs
        /\ call[c].pc \in GrantSteps => call[c].op = "grant"

\* A balance row is locked by one transaction at a time, and one that has
\* deducted from it still finds the credits there.
LockInv ==
    \A c \in Callers :
        /\ call[c].pc \in {"insert", "commit", "settle"} =>
              \A d \in Callers \ {c} :
                  call[d].pc \in {"insert", "commit", "settle"}
                      => call[d].bearer # call[c].bearer
        /\ call[c].pc \in {"insert", "commit"}
              => balance[call[c].bearer] >= call[c].credits

\* A key that a transaction has inserted is nobody else's.
KeyInv ==
    \A c \in Callers : call[c].pc = "commit" =>
        /\ call[c].key \notin consumed
        /\ \A d \in Callers \ {c} :
              call[d].pc = "commit" => call[d].key # call[c].key

\* Only the call that recorded a grant can still add its credits.
GrantInv ==
    /\ credited \subseteq grants
    /\ \A c \in Callers : call[c].pc = "credit" =>
          /\ <<call[c].bearer, call[c].period>> \in grants \ credited
          /\ \A d \in Callers \ {c} :
                call[d].pc = "credit" =>
                    <<call[d].bearer, call[d].period>>
                        # <<call[c].bearer, call[c].period>>

-----------------------------------------------------------------------------
(***************************************************************************)
(* Properties.                                                              *)
(***************************************************************************)
\* Credits neither vanish nor appear: whatever calls raced, failed or lost
\* their answer, each bearer's balance and recorded consumptions add up to
\* what it was given, and lifetime_used agrees with the consumption rows.
Conserved ==
    \A b \in Bearers :
        /\ balance[b] + used[b]
              = Seed + bought[b]
                + Units * Cardinality({p \in Periods : <<b, p>> \in credited})
        /\ lifetime[b] = used[b]

\* What ConsumeCredits answers is what happened: a success was paid for by
\* this call, a replay by an earlier one, and nobody is charged who was told
\* that the credits do not suffice.
AnswersTrue ==
    \A c \in Callers :
        call[c].pc = "idle" /\ call[c].op = "consume" =>
            /\ call[c].answer = "ok" => call[c].paid
            /\ call[c].answer = "replay" => call[c].key \in consumed
            /\ call[c].answer = "insufficient" => ~call[c].paid

IInv == TypeOK /\ ArgsInv /\ LockInv /\ KeyInv /\ GrantInv /\ AnswersTrue

\* Every committed step of the store is one atomic operation of the ledger:
\* no overdraft, one charge for a key, one grant for a period.
Ledger == INSTANCE CreditLedger WITH charged <- consumed
LedgerSpec == Ledger!Spec

\* As long as the pool has a connection to spare, row locks, unique-index
\* waits and the second connection of GetCreditBalance never leave a call
\* waiting for ever.
CallsReturn ==
    \A c \in Callers : call[c].pc # "idle" ~> call[c].pc = "idle"

(***************************************************************************)
(* What the documentation says, which the code does not do.                 *)
(***************************************************************************)
\* domain/credits.go: GrantMonthlyCredits is "Idempotent: safe to call multiple
\* times per period": when a call for the period has returned without an error,
\* and none is at work any more that could still add them, the period's credits
\* have been added.
GrantHonoured ==
    (\A d \in Callers : call[d].op = "grant" => call[d].pc = "idle") =>
        \A c \in Callers : call[c].op = "grant" /\ call[c].answer = "ok" =>
            \A b \in Bearers : <<b, call[c].period>> \in credited
=============================================================================
