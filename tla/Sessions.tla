------------------------------ MODULE Sessions ------------------------------
(***************************************************************************)
(* Log-in, its lockout and its second factor, and access tokens with their   *)
(* revocations, for one user (auth.go, mfa.go, middleware/auth.go, jwt.go,   *)
(* scheduler.go).  A statement of the store is one step.                     *)
(***************************************************************************)
EXTENDS Naturals, FiniteSets

CONSTANTS
    LoginReqs,      \* requests in flight
    MaxFailed,      \* maxFailedLoginAttempts
    MaxSecrets,     \* bound: MFA secrets made
    Jtis,           \* access tokens (bound: sessions opened)
    MaxLoginFaults  \* bound: statements that fail

ASSUME SessionsAssumption ==
    /\ IsFiniteSet(LoginReqs) /\ IsFiniteSet(Jtis)
    /\ MaxFailed \in Nat \ {0} /\ MaxSecrets \in Nat /\ MaxLoginFaults \in Nat

VARIABLES
    failed,      \* failed log-ins of the last 15 minutes
    mfa,         \* the row of mfa_secrets (secret 0: none)
    mfaSecrets,  \* secrets made so far
    access,      \* access[j]: unused, valid or expired
    revoked,     \* token_revocations
    loggedOut,   \* history: tokens whose Logout was answered with success
    loginPc,     \* loginPc[r]: the next statement of r
    loginFaults

loginVars == <<failed, mfa, mfaSecrets, access, revoked, loggedOut, loginPc, loginFaults>>
mfaVars == <<mfa, mfaSecrets>>
sessionVars == <<access, revoked, loggedOut>>

SessionsTypeOK ==
    /\ failed \in Nat
    /\ mfa \in [secret : 0..MaxSecrets, enabled : BOOLEAN]
    /\ mfaSecrets \in 0..MaxSecrets
    /\ access \in [Jtis -> {"unused", "valid", "expired"}]
    /\ revoked \subseteq Jtis /\ loggedOut \subseteq Jtis
    /\ loginPc \in [LoginReqs -> {"idle", "judge", "enableMFA"}]
    /\ loginFaults \in 0..MaxLoginFaults

SessionsInit ==
    /\ failed = 0
    /\ mfa = [secret |-> 0, enabled |-> FALSE] /\ mfaSecrets = 0
    /\ access = [j \in Jtis |-> "unused"] /\ revoked = {} /\ loggedOut = {}
    /\ loginPc = [r \in LoginReqs |-> "idle"]
    /\ loginFaults = 0

Step(r, from, to) == loginPc[r] = from /\ loginPc' = [loginPc EXCEPT ![r] = to]

\* GenerateTokenPair: a fresh access token (its refresh token is not stored).
GenerateTokenPair ==
    \E j \in Jtis : access[j] = "unused" /\ access' = [access EXCEPT ![j] = "valid"]

-----------------------------------------------------------------------------
(* Log-in.                                                                  *)

\* The lockout check; an error of the count reads as 0.
Login(r) ==
    /\ Step(r, "idle", "judge")
    /\ \/ failed < MaxFailed /\ UNCHANGED loginFaults
       \/ loginFaults < MaxLoginFaults /\ loginFaults' = loginFaults + 1
    /\ UNCHANGED <<failed, mfaVars, sessionVars>>

\* RecordLoginAttempt; its error is dropped.
RecordFailure ==
    \/ failed' = failed + 1 /\ UNCHANGED loginFaults
    \/ loginFaults < MaxLoginFaults /\ loginFaults' = loginFaults + 1 /\ UNCHANGED failed

\* Unknown address or wrong password.
WrongPassword(r) ==
    /\ Step(r, "judge", "idle")
    /\ RecordFailure
    /\ UNCHANGED <<mfaVars, sessionVars>>

\* The password is right; VerifyMFAForLogin then fails the code.
WrongMFACode(r) ==
    /\ mfa.enabled /\ Step(r, "judge", "idle")
    /\ RecordFailure
    /\ UNCHANGED <<mfaVars, sessionVars>>

\* No membership, SSO enforced, or a code is asked for: no attempt recorded.
LoginRefused(r) ==
    /\ Step(r, "judge", "idle")
    /\ UNCHANGED <<failed, mfaVars, sessionVars, loginFaults>>

LoginSucceeds(r) ==
    /\ Step(r, "judge", "idle")
    /\ GenerateTokenPair
    /\ UNCHANGED <<failed, mfaVars, revoked, loggedOut, loginFaults>>

AttemptAges ==
    /\ failed > 0 /\ failed' = failed - 1
    /\ UNCHANGED <<mfaVars, sessionVars, loginPc, loginFaults>>

-----------------------------------------------------------------------------
(* Sessions.                                                                *)

\* JWTAuth: an unexpired token is admitted unless it is known to be revoked;
\* `lost' is an error of the revocation check, which admits it.
JWTAuth(j, lost) == access[j] = "valid" /\ (lost \/ j \notin revoked)

Fault(lost) ==
    IF lost THEN loginFaults < MaxLoginFaults /\ loginFaults' = loginFaults + 1
            ELSE UNCHANGED loginFaults

Logout ==
    /\ \E j \in Jtis, lost \in BOOLEAN :
          /\ JWTAuth(j, lost) /\ Fault(lost)
          /\ revoked' = revoked \union {j}
          /\ loggedOut' = loggedOut \union {j}
    /\ UNCHANGED <<failed, mfaVars, access, loginPc>>

\* Refresh validates the refresh token alone: no row is looked at.
Refresh ==
    /\ \E j \in Jtis : access[j] # "unused"
    /\ GenerateTokenPair
    /\ UNCHANGED <<failed, mfaVars, revoked, loggedOut, loginPc, loginFaults>>

AccessExpires ==
    /\ \E j \in Jtis : access[j] = "valid" /\ access' = [access EXCEPT ![j] = "expired"]
    /\ UNCHANGED <<failed, mfaVars, revoked, loggedOut, loginPc, loginFaults>>

\* Mutant: every revocation is taken for an old one.
CleanAllRevocations ==
    /\ revoked' = {}
    /\ UNCHANGED <<failed, mfaVars, access, loggedOut, loginPc, loginFaults>>

\* The scheduler's clean-up: rows whose token has expired.
CleanExpiredRevocations ==
    /\ revoked' = {j \in revoked : access[j] # "expired"}
    /\ UNCHANGED <<failed, mfaVars, access, loggedOut, loginPc, loginFaults>>

-----------------------------------------------------------------------------
(* The second factor.                                                       *)

SignedIn == \E j \in Jtis : JWTAuth(j, FALSE)

\* Enable: UpsertMFASecret, which also switches the factor off.
MFAEnable ==
    /\ SignedIn /\ mfaSecrets < MaxSecrets
    /\ mfaSecrets' = mfaSecrets + 1
    /\ mfa' = [secret |-> mfaSecrets + 1, enabled |-> FALSE]
    /\ UNCHANGED <<failed, sessionVars, loginPc, loginFaults>>

\* Verify reads the secret and finds the code right for it.
MFAVerify(r) ==
    /\ SignedIn /\ mfa.secret # 0
    /\ Step(r, "idle", "enableMFA")
    /\ UNCHANGED <<failed, mfaVars, sessionVars, loginFaults>>

\* EnableMFA switches on whatever row there is.
EnableMFA(r) ==
    /\ Step(r, "enableMFA", "idle")
    /\ mfa' = [mfa EXCEPT !.enabled = mfa.secret # 0]
    /\ UNCHANGED <<failed, mfaSecrets, sessionVars, loginFaults>>

MFADisable ==
    /\ SignedIn /\ mfa.secret # 0
    /\ mfa' = [secret |-> 0, enabled |-> FALSE]
    /\ UNCHANGED <<failed, mfaSecrets, sessionVars, loginPc, loginFaults>>

\* A statement of r fails, or its process dies: the handler returns.
LoginFails(r) ==
    /\ loginFaults < MaxLoginFaults /\ loginFaults' = loginFaults + 1
    /\ \E pc \in {"judge", "enableMFA"} : Step(r, pc, "idle")
    /\ UNCHANGED <<failed, mfaVars, sessionVars>>

SessionsNext ==
    \/ \E r \in LoginReqs :
          \/ Login(r) \/ WrongPassword(r) \/ WrongMFACode(r) \/ LoginRefused(r)
          \/ LoginSucceeds(r) \/ MFAVerify(r) \/ EnableMFA(r) \/ LoginFails(r)
    \/ AttemptAges \/ Logout \/ Refresh \/ AccessExpires \/ CleanExpiredRevocations
    \/ MFAEnable \/ MFADisable

SessionsSpec == SessionsInit /\ [][SessionsNext]_loginVars

-----------------------------------------------------------------------------
\* The lockout counts before it judges: the failures in the window pass the
\* limit only by the requests that had counted in time, and by lost counts.
LockoutBound == failed <= MaxFailed - 1 + Cardinality(LoginReqs) + loginFaults

\* A token whose Logout succeeded is refused until it expires: the clean-up of
\* the revocations never forgets one that still validates.
LoggedOutRefused == \A j \in loggedOut : ~JWTAuth(j, FALSE)

=============================================================================
