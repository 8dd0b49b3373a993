------------------------------- MODULE Codes -------------------------------
(***************************************************************************)
(* The codes and links one user proves who they are with: password-reset     *)
(* codes, magic links, one-time tokens and e-mail verification tokens        *)
(* (auth.go, magic_link.go, store.go).  A statement of the store is one      *)
(* step; handlers interleave between them.                                   *)
(***************************************************************************)
EXTENDS Naturals, FiniteSets

CONSTANTS
    CodeReqs,       \* requests in flight
    MaxTokens,      \* bound: codes and links made
    MaxCodeFaults   \* bound: statements that fail

ASSUME CodesAssumption ==
    IsFiniteSet(CodeReqs) /\ MaxTokens \in Nat /\ MaxCodeFaults \in Nat

VARIABLES
    tokens,      \* tokens[t]: kind and state of the t-th token made
    made,        \* tokens made so far
    uses,        \* history: uses[t]: requests that token t let through
    password,    \* the reset code that set the password, 0 for the first one
    codePc,      \* codePc[r]: the next statement of r
    held,        \* held[r]: the token r has read
    codeFaults

codeVars == <<tokens, made, uses, password, codePc, held, codeFaults>>

Kinds == {"reset", "magic", "once", "verify"}
Tokens == 1..MaxTokens
CodePcs == {"idle", "insertReset", "insertMagic", "markReset", "markMagic",
            "setPassword", "setVerified"}

CodesTypeOK ==
    /\ tokens \in [Tokens -> [kind : Kinds, state : {"none", "live", "used", "expired"}]]
    /\ made \in 0..MaxTokens
    /\ uses \in [Tokens -> Nat]
    /\ password \in 0..MaxTokens
    /\ codePc \in [CodeReqs -> CodePcs]
    /\ held \in [CodeReqs -> 0..MaxTokens]
    /\ codeFaults \in 0..MaxCodeFaults

CodesInit ==
    /\ tokens = [t \in Tokens |-> [kind |-> "reset", state |-> "none"]]
    /\ made = 0 /\ uses = [t \in Tokens |-> 0] /\ password = 0
    /\ codePc = [r \in CodeReqs |-> "idle"] /\ held = [r \in CodeReqs |-> 0]
    /\ codeFaults = 0

At(r, pc) == codePc[r] = pc
To(r, pc, x) == /\ codePc' = [codePc EXCEPT ![r] = pc]
                /\ held' = [held EXCEPT ![r] = x]
Live(kind) == {t \in Tokens : tokens[t].kind = kind /\ tokens[t].state = "live"}

\* The tokens with those of the set `ts' marked used.
Spent(ts) == [t \in Tokens |-> IF t \in ts THEN [tokens[t] EXCEPT !.state = "used"] ELSE tokens[t]]

\* `now' with one more live token of the kind.
Insert(now, kind) ==
    /\ made < MaxTokens
    /\ made' = made + 1
    /\ tokens' = [now EXCEPT ![made + 1] = [kind |-> kind, state |-> "live"]]

Used(t) == uses' = [uses EXCEPT ![t] = @ + 1]

-----------------------------------------------------------------------------
(* Making tokens.                                                           *)

\* ForgotPassword up to the first statement of SetPasswordResetToken, which
\* marks the user's unused codes; the new one is inserted by the next.
ForgotPassword(r) ==
    /\ At(r, "idle") /\ To(r, "insertReset", 0)
    /\ tokens' = Spent(Live("reset"))
    /\ UNCHANGED <<made, uses, password, codeFaults>>

InsertReset(r) ==
    /\ At(r, "insertReset") /\ To(r, "idle", 0)
    /\ Insert(tokens, "reset")
    /\ UNCHANGED <<uses, password, codeFaults>>

\* CreateMagicLinkToken has the same two statements.
CreateMagicLink(r) ==
    /\ At(r, "idle") /\ To(r, "insertMagic", 0)
    /\ tokens' = Spent(Live("magic"))
    /\ UNCHANGED <<made, uses, password, codeFaults>>

InsertMagic(r) ==
    /\ At(r, "insertMagic") /\ To(r, "idle", 0)
    /\ Insert(tokens, "magic")
    /\ UNCHANGED <<uses, password, codeFaults>>

CreateOneTimeToken ==
    /\ Insert(tokens, "once")
    /\ UNCHANGED <<uses, password, codePc, held, codeFaults>>

\* SendVerificationEmail: one column of the user's row, so the new token
\* overwrites the last one.
SendVerificationEmail ==
    /\ Insert(Spent(Live("verify")), "verify")
    /\ UNCHANGED <<uses, password, codePc, held, codeFaults>>

-----------------------------------------------------------------------------
(* Using them.                                                              *)

\* ResetPassword: ConsumePasswordResetToken selects the unused codes and finds
\* the one that matches.
ResetPassword(r) ==
    /\ At(r, "idle")
    /\ \E t \in Live("reset") : To(r, "markReset", t)
    /\ UNCHANGED <<tokens, made, uses, password, codeFaults>>

\* It marks the code by its id, whatever its state is by then.
MarkReset(r) ==
    /\ At(r, "markReset")
    /\ tokens' = Spent({held[r]}) /\ Used(held[r])
    /\ To(r, "setPassword", held[r])
    /\ UNCHANGED <<made, password, codeFaults>>

UpdatePassword(r) ==
    /\ At(r, "setPassword") /\ To(r, "idle", 0)
    /\ password' = held[r]
    /\ UNCHANGED <<tokens, made, uses, codeFaults>>

\* Exchange: ConsumeMagicLinkToken reads the link's row.
Exchange(r) ==
    /\ At(r, "idle")
    /\ \E t \in Live("magic") : To(r, "markMagic", t)
    /\ UNCHANGED <<tokens, made, uses, password, codeFaults>>

MarkMagic(r) ==
    /\ At(r, "markMagic") /\ To(r, "idle", 0)
    /\ tokens' = Spent({held[r]}) /\ Used(held[r])
    /\ UNCHANGED <<made, password, codeFaults>>

\* Mutant: the token is read and never marked.
TokenExchangeUnmarked ==
    /\ \E t \in Live("once") : Used(t)
    /\ UNCHANGED <<tokens, made, password, codePc, held, codeFaults>>

\* TokenExchange: ConsumeOneTimeToken tests and marks in one statement.
TokenExchange ==
    /\ \E t \in Live("once") : tokens' = Spent({t}) /\ Used(t)
    /\ UNCHANGED <<made, password, codePc, held, codeFaults>>

VerifyEmail(r) ==
    /\ At(r, "idle")
    /\ \E t \in Live("verify") : To(r, "setVerified", t)
    /\ UNCHANGED <<tokens, made, uses, password, codeFaults>>

\* SetEmailVerified clears the column, a newer token included.
SetEmailVerified(r) ==
    /\ At(r, "setVerified") /\ To(r, "idle", 0)
    /\ tokens' = Spent(Live("verify") \union {held[r]}) /\ Used(held[r])
    /\ UNCHANGED <<made, password, codeFaults>>

TokenExpires ==
    /\ \E t \in Tokens : /\ tokens[t].state = "live"
                         /\ tokens' = [tokens EXCEPT ![t].state = "expired"]
    /\ UNCHANGED <<made, uses, password, codePc, held, codeFaults>>

-----------------------------------------------------------------------------
\* A statement of r fails, or its process dies: the handler returns.
CodeFails(r) ==
    /\ ~At(r, "idle") /\ codeFaults < MaxCodeFaults
    /\ codeFaults' = codeFaults + 1
    /\ To(r, "idle", 0)
    /\ UNCHANGED <<tokens, made, uses, password>>

CodesNext ==
    \/ \E r \in CodeReqs :
          \/ ForgotPassword(r) \/ InsertReset(r) \/ CreateMagicLink(r) \/ InsertMagic(r)
          \/ ResetPassword(r) \/ MarkReset(r) \/ UpdatePassword(r)
          \/ Exchange(r) \/ MarkMagic(r) \/ VerifyEmail(r) \/ SetEmailVerified(r)
          \/ CodeFails(r)
    \/ CreateOneTimeToken \/ SendVerificationEmail \/ TokenExchange \/ TokenExpires

CodesSpec == CodesInit /\ [][CodesNext]_codeVars

-----------------------------------------------------------------------------
\* The requests that have read the token and are to mark it.
ReadersOf(t) == {r \in CodeReqs : codePc[r] \in {"markReset", "markMagic", "setVerified"} /\ held[r] = t}

\* A one-time token is used once.  A reset code, a link or a verification token, which
\* are read and marked in two statements, is used by no more requests than had read it
\* together, and there are no more live codes of a kind than requests that made one
\* together; the password is only ever set with a code that was accepted.
CodesSingleUse ==
    /\ \A t \in Tokens :
          uses[t] + Cardinality(ReadersOf(t)) <= IF tokens[t].kind = "once" THEN 1 ELSE Cardinality(CodeReqs)
    /\ Cardinality(Live("reset")) + Cardinality({r \in CodeReqs : At(r, "insertReset")}) <= Cardinality(CodeReqs)
    /\ Cardinality(Live("magic")) + Cardinality({r \in CodeReqs : At(r, "insertMagic")}) <= Cardinality(CodeReqs)
    /\ password # 0 => uses[password] > 0

(***************************************************************************)
(* Why, as an invariant: a token that was not made, or is live, let nobody    *)
(* through; a request holds a token that was made, of the kind it asked for.  *)
(***************************************************************************)
HeldKind == [markReset |-> "reset", setPassword |-> "reset", markMagic |-> "magic", setVerified |-> "verify"]

CodesShape ==
    /\ \A t \in Tokens : t > made => tokens[t].state = "none"
    /\ \A t \in Tokens : tokens[t].state \in {"none", "live"} => uses[t] = 0
    /\ \A r \in CodeReqs : codePc[r] \in DOMAIN HeldKind =>
          held[r] \in 1..made /\ tokens[held[r]].kind = HeldKind[codePc[r]]
    /\ \A r \in CodeReqs : At(r, "setPassword") => uses[held[r]] > 0

CodesInv == CodesTypeOK /\ CodesSingleUse /\ CodesShape

=============================================================================
