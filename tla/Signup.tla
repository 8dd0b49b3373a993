------------------------------- MODULE Signup -------------------------------
(***************************************************************************)
(* How an account comes to be, for one email address: Register (auth.go),    *)
(* and the sign-up with a code (signup.go: InitiateSignup, ResendSignupOTP,  *)
(* CompleteSignup), with the rows they write one statement at a time outside *)
(* a transaction (store.go: users, organizations, org_members,               *)
(* pending_registrations).  Any statement may fail.                          *)
(***************************************************************************)
EXTENDS Naturals, FiniteSets

CONSTANTS
    SignupReqs,    \* requests in flight
    OTPMax,        \* domain.OTPMaxAttempts
    MaxCodes,      \* bound: codes sent
    MaxGuesses,    \* bound: calls of CompleteSignup
    MaxSignupFaults \* bound: statements that fail

ASSUME SignupAssumption ==
    /\ IsFiniteSet(SignupReqs) /\ OTPMax \in Nat \ {0}
    /\ MaxCodes \in Nat /\ MaxGuesses \in Nat /\ MaxSignupFaults \in Nat

VARIABLES
    users,     \* the row of the email: absent, present
    orgs,      \* requests that have created an organization
    owners,    \* requests whose organization has the user as its owner
    pending,   \* pending_registrations: code 0 is no row
    codes,     \* codes made so far
    signupPc,  \* signupPc[r]: the next statement of r
    seen,      \* seen[r]: the code r was judged against, or is to send
    answers,   \* answers[r]: what r's client got
    guesses,   \* CompleteSignup calls so far
    wrong,     \* history: wrong[c]: wrong guesses judged against code c
    signupFaults

signupVars == <<users, orgs, owners, pending, codes, signupPc, seen, answers,
                guesses, wrong, signupFaults>>

Codes == 1..MaxCodes
SignupPcs == {"idle", "upsert", "mail", "count", "user", "org", "member", "done"}

SignupTypeOK ==
    /\ users \in BOOLEAN
    /\ orgs \subseteq SignupReqs /\ owners \subseteq SignupReqs
    /\ pending \in [code : 0..MaxCodes, attempts : Nat, expired : BOOLEAN]
    /\ codes \in 0..MaxCodes
    /\ signupPc \in [SignupReqs -> SignupPcs]
    /\ seen \in [SignupReqs -> 0..MaxCodes]
    /\ answers \in [SignupReqs -> {"none", "sent", "created", "error"}]
    /\ guesses \in 0..MaxGuesses
    /\ wrong \in [Codes -> Nat]
    /\ signupFaults \in 0..MaxSignupFaults

NoPending == [code |-> 0, attempts |-> 0, expired |-> FALSE]

SignupInit ==
    /\ users = FALSE /\ orgs = {} /\ owners = {}
    /\ pending = NoPending /\ codes = 0
    /\ signupPc = [r \in SignupReqs |-> "idle"]
    /\ seen = [r \in SignupReqs |-> 0]
    /\ answers = [r \in SignupReqs |-> "none"]
    /\ guesses = 0
    /\ wrong = [c \in Codes |-> 0]
    /\ signupFaults = 0

Goto(r, pc) == signupPc' = [signupPc EXCEPT ![r] = pc]
Reply(r, a) == Goto(r, "done") /\ answers' = [answers EXCEPT ![r] = a]

\* The client has its answer; the same request slot serves another call.
SignupAgain(r) ==
    /\ signupPc[r] = "done" /\ answers[r] # "created"
    /\ Goto(r, "idle")
    /\ answers' = [answers EXCEPT ![r] = "none"] /\ seen' = [seen EXCEPT ![r] = 0]
    /\ UNCHANGED <<users, orgs, owners, pending, codes, guesses, wrong, signupFaults>>

-----------------------------------------------------------------------------
\* InitiateSignup: no user has the address (checked here, not when the code is
\* used); a fresh code is made.
InitiateSignup(r) ==
    /\ signupPc[r] = "idle" /\ ~users /\ codes < MaxCodes
    /\ codes' = codes + 1
    /\ seen' = [seen EXCEPT ![r] = codes']
    /\ Goto(r, "upsert")
    /\ UNCHANGED <<users, orgs, owners, pending, answers, guesses, wrong, signupFaults>>

\* ResendSignupOTP: the same for an address with a pending row.
ResendSignupOTP(r) ==
    /\ signupPc[r] = "idle" /\ pending.code # 0 /\ codes < MaxCodes
    /\ codes' = codes + 1
    /\ seen' = [seen EXCEPT ![r] = codes']
    /\ Goto(r, "upsert")
    /\ UNCHANGED <<users, orgs, owners, pending, answers, guesses, wrong, signupFaults>>

\* One row per address; a new code starts at no attempts.
UpsertPendingRegistration(r) ==
    /\ signupPc[r] = "upsert"
    /\ pending' = [code |-> seen[r], attempts |-> 0, expired |-> FALSE]
    /\ Goto(r, "mail")
    /\ UNCHANGED <<users, orgs, owners, codes, seen, answers, guesses, wrong, signupFaults>>

SendOTP(r) ==
    /\ signupPc[r] = "mail"
    /\ Reply(r, "sent")
    /\ UNCHANGED <<users, orgs, owners, pending, codes, seen, guesses, wrong, signupFaults>>

\* The code's ten minutes pass; the lifecycle job deletes expired rows.
ExpirePending ==
    /\ pending.code # 0 /\ ~pending.expired
    /\ pending' = [pending EXCEPT !.expired = TRUE]
    /\ UNCHANGED <<users, orgs, owners, codes, signupPc, seen, answers, guesses, wrong, signupFaults>>

DeleteExpiredPendingRegistrations ==
    /\ pending.expired
    /\ pending' = NoPending
    /\ UNCHANGED <<users, orgs, owners, codes, signupPc, seen, answers, guesses, wrong, signupFaults>>

-----------------------------------------------------------------------------
\* Mutant: the limit is off by one.
CompleteSignupLate(r) ==
    /\ signupPc[r] = "idle" /\ guesses < MaxGuesses
    /\ guesses' = guesses + 1
    /\ seen' = [seen EXCEPT ![r] = pending.code]
    /\ IF pending.code = 0 \/ pending.expired \/ pending.attempts > OTPMax
       THEN Reply(r, "error") /\ UNCHANGED wrong
       ELSE \/ Goto(r, "user") /\ UNCHANGED <<answers, wrong>>
            \/ /\ Goto(r, "count")
               /\ wrong' = [wrong EXCEPT ![pending.code] = @ + 1]
               /\ UNCHANGED answers
    /\ UNCHANGED <<users, orgs, owners, pending, codes, signupFaults>>

\* CompleteSignup reads the pending row and judges the code against it: right,
\* or wrong and to be counted.
CompleteSignup(r) ==
    /\ signupPc[r] = "idle" /\ guesses < MaxGuesses
    /\ guesses' = guesses + 1
    /\ seen' = [seen EXCEPT ![r] = pending.code]
    /\ IF pending.code = 0 \/ pending.expired \/ pending.attempts >= OTPMax
       THEN Reply(r, "error") /\ UNCHANGED wrong
       ELSE \/ Goto(r, "user") /\ UNCHANGED <<answers, wrong>>
            \/ /\ Goto(r, "count")
               /\ wrong' = [wrong EXCEPT ![pending.code] = @ + 1]
               /\ UNCHANGED answers
    /\ UNCHANGED <<users, orgs, owners, pending, codes, signupFaults>>

\* The row keeps its id when its code is replaced, and the count with it; a row
\* that is gone is not touched.
IncrementPendingAttempts(r) ==
    /\ signupPc[r] = "count"
    /\ pending' = IF pending.code = 0 THEN pending
                  ELSE [pending EXCEPT !.attempts = @ + 1]
    /\ Reply(r, "error")
    /\ UNCHANGED <<users, orgs, owners, codes, seen, guesses, wrong, signupFaults>>

\* Register starts where CompleteSignup arrives with a right code.
Register(r) ==
    /\ signupPc[r] = "idle"
    /\ Goto(r, "user")
    /\ seen' = [seen EXCEPT ![r] = 0]
    /\ UNCHANGED <<users, orgs, owners, pending, codes, answers, guesses, wrong, signupFaults>>

\* Mutant: an address that has a user gets a second one.
CreateUserTwice(r) ==
    /\ signupPc[r] = "user"
    /\ users' = TRUE /\ Goto(r, "org") /\ UNCHANGED answers
    /\ UNCHANGED <<orgs, owners, pending, codes, seen, guesses, wrong, signupFaults>>

\* users.email is unique.
CreateUser(r) ==
    /\ signupPc[r] = "user"
    /\ IF users THEN Reply(r, "error") /\ UNCHANGED users
       ELSE users' = TRUE /\ Goto(r, "org") /\ UNCHANGED answers
    /\ UNCHANGED <<orgs, owners, pending, codes, seen, guesses, wrong, signupFaults>>

\* A slug that is taken is changed and tried again by CompleteSignup only.
CreateOrganization(r) ==
    /\ signupPc[r] = "org"
    /\ \/ orgs' = orgs \cup {r} /\ Goto(r, "member") /\ UNCHANGED <<answers, signupFaults>>
       \/ /\ seen[r] = 0 /\ signupFaults < MaxSignupFaults
          /\ signupFaults' = signupFaults + 1
          /\ Reply(r, "error") /\ UNCHANGED orgs
    /\ UNCHANGED <<users, owners, pending, codes, seen, guesses, wrong>>

\* The owner; CompleteSignup deletes the pending row, which may fail unnoticed.
AddOwner(r) ==
    /\ signupPc[r] = "member"
    /\ owners' = owners \cup {r}
    /\ pending' \in IF seen[r] = 0 THEN {pending} ELSE {NoPending, pending}
    /\ Reply(r, "created")
    /\ UNCHANGED <<users, orgs, codes, seen, guesses, wrong, signupFaults>>

\* A statement of r fails: the request ends where it is, nothing is undone.  A
\* count that fails is ignored.
SignupFails(r) ==
    /\ signupPc[r] \notin {"idle", "done"} /\ signupFaults < MaxSignupFaults
    /\ signupFaults' = signupFaults + 1
    /\ Reply(r, "error")
    /\ UNCHANGED <<users, orgs, owners, pending, codes, seen, guesses, wrong>>

SignupStep(r) ==
    \/ InitiateSignup(r) \/ ResendSignupOTP(r) \/ UpsertPendingRegistration(r)
    \/ SendOTP(r) \/ CompleteSignup(r) \/ IncrementPendingAttempts(r)
    \/ Register(r) \/ CreateUser(r) \/ CreateOrganization(r) \/ AddOwner(r)
    \/ SignupFails(r) \/ SignupAgain(r)

SignupNext ==
    \/ ExpirePending \/ DeleteExpiredPendingRegistrations
    \/ \E r \in SignupReqs : SignupStep(r)

SignupSpec == SignupInit /\ [][SignupNext]_signupVars

-----------------------------------------------------------------------------
\* However registrations and sign-ups of one address race, at most one of them
\* is told it made the account, and it did: user, organization and ownership
\* are there.  A user without an organization, who can neither sign in nor
\* register again, is only left by a statement that failed.
OneAccount ==
    /\ Cardinality(owners) <= 1 /\ Cardinality(orgs) <= 1
    /\ \A r \in SignupReqs : answers[r] = "created" => users /\ r \in owners \cap orgs
    /\ users /\ owners = {} =>
          \/ signupFaults > 0
          \/ \E r \in SignupReqs : signupPc[r] \in {"org", "member"}

\* A code is good for OTPMax wrong guesses and at most one more per request
\* that read the count before another counted; a count that fails is one more.
GuessesBounded ==
    \A c \in Codes : wrong[c] <= OTPMax + Cardinality(SignupReqs) - 1 + signupFaults

(***************************************************************************)
(* Why, as an invariant: one request gets past the unique index on the        *)
(* address; a code becomes the pending one once, and no guess is judged       *)
(* against it before; the wrong guesses at the pending code are counted, to   *)
(* be counted, or of requests whose count failed.                             *)
(***************************************************************************)
Founders == {r \in SignupReqs : signupPc[r] \in {"org", "member"}} \cup orgs \cup owners
Counting(c) == {r \in SignupReqs : signupPc[r] = "count" /\ seen[r] = c}

AccountShape ==
    /\ ~users => Founders = {}
    /\ \A r, s \in Founders : r = s
    /\ owners \subseteq orgs
    /\ \A r \in SignupReqs : signupPc[r] = "member" => r \in orgs
    /\ \A r \in SignupReqs : signupPc[r] = "org" => r \notin orgs
    /\ \A r \in orgs : r \in owners \/ signupPc[r] = "member" \/ signupFaults > 0

CodeShape ==
    /\ pending.code <= codes
    /\ \A c \in Codes : c > codes => wrong[c] = 0
    /\ \A r \in SignupReqs : seen[r] <= codes
    /\ \A r, s \in SignupReqs :
          signupPc[r] = "upsert" /\ signupPc[s] = "upsert" /\ seen[r] = seen[s] => r = s
    /\ \A r \in SignupReqs : signupPc[r] = "upsert" =>
          seen[r] # 0 /\ seen[r] # pending.code /\ wrong[seen[r]] = 0
    /\ pending.code # 0 =>
          wrong[pending.code] <= pending.attempts + Cardinality(Counting(pending.code)) + signupFaults

SignupInv == SignupTypeOK /\ OneAccount /\ GuessesBounded /\ AccountShape /\ CodeShape
=============================================================================
