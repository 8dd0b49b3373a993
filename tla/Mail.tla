-------------------------------- MODULE Mail --------------------------------
(***************************************************************************)
(* Outgoing mail: the provider main.go selects, the lifecycle processor that  *)
(* asks for the user's preference (internal/lifecycle/processor.go), the two  *)
(* senders of one-time codes and the mailer, which try three times             *)
(* (internal/zeptomail, internal/email/smtp.go), and the no-op mailer.         *)
(*                                                                         *)
(* Only the welcome mail goes through the processor at this commit (the other  *)
(* callers are commented out); the processor is modelled for every priority.   *)
(***************************************************************************)
EXTENDS Naturals, FiniteSets

CONSTANTS
    Mails,             \* mails to be sent
    MaxPrefChanges     \* bound

maxRetries == 3

ASSUME MailAssumption == IsFiniteSet(Mails) /\ MaxPrefChanges \in Nat

VARIABLES
    provider,     \* the configuration: EMAIL_PROVIDER and whether its settings are complete
    preference,   \* the user's consent and preference
    mail,         \* mail[m]: its kind, how it goes out, its attempts and how the call ended
    inbox,        \* copies of m that arrived
    doubtful,     \* history: attempts at m that failed for the sender and may have arrived
    asked,        \* history: what the preference said about m when it was read
    crashed,      \* the process has died
    prefChanges

mailVars == <<provider, preference, mail, inbox, doubtful, asked, crashed, prefChanges>>

Providers == {"zeptomail", "zeptomail, no token", "smtp", "smtp, no host", "none", "unknown"}
Priorities == {"transactional", "important", "lifecycle"}
Preferences == [consent : BOOLEAN, level : {"transactional", "important", "all"}]
Ends == {"sending", "backoff", "sent", "failed", "suppressed", "no sender", "panic"}

NoMail == [kind |-> "none", by |-> "none", attempts |-> 0, end |-> "sending"]

MailTypeOK ==
    /\ provider \in Providers /\ preference \in Preferences
    /\ mail \in [Mails -> [kind : Priorities \cup {"none", "otp"}, by : {"none", "nil", "noop", "http", "smtp"},
                           attempts : 0..maxRetries, end : Ends]]
    /\ inbox \in [Mails -> 0..maxRetries] /\ doubtful \in [Mails -> 0..maxRetries]
    /\ asked \in [Mails -> {"not read", "yes", "no"}] /\ crashed \in BOOLEAN /\ prefChanges \in 0..MaxPrefChanges

MailInit ==
    /\ provider \in Providers /\ preference \in Preferences
    /\ mail = [m \in Mails |-> NoMail] /\ inbox = [m \in Mails |-> 0]
    /\ doubtful = [m \in Mails |-> 0] /\ asked = [m \in Mails |-> "not read"]
    /\ crashed = FALSE /\ prefChanges = 0

\* main: the lifecycle mailer and the sender of codes for each provider.  SMTP has a sender
\* of codes and no lifecycle mailer.
lifecycleMailer ==
    CASE provider = "zeptomail" -> "http" [] provider = "smtp" -> "nil" [] OTHER -> "noop"
otpSender ==
    CASE provider = "zeptomail" -> "http" [] provider = "smtp" -> "smtp"
      [] provider = "none" -> "noop" [] OTHER -> "nil"

UpdateUserEmailPreferences(p) ==
    /\ ~crashed /\ p # preference /\ prefChanges < MaxPrefChanges
    /\ preference' = p /\ prefChanges' = prefChanges + 1
    /\ UNCHANGED <<provider, mail, inbox, doubtful, asked, crashed>>

-----------------------------------------------------------------------------
\* SendOTP, SendPasswordResetOTP: no sender is looked for first and answered with 503; the
\* no-op mailer logs and says it was sent.
MailOTP(m) ==
    /\ ~crashed /\ mail[m] = NoMail
    /\ mail' = [mail EXCEPT ![m] = [kind |-> "otp", by |-> otpSender, attempts |-> 0,
                                     end |-> CASE otpSender = "nil" -> "no sender"
                                               [] otpSender = "noop" -> "sent" [] OTHER -> "sending"]]
    /\ UNCHANGED <<provider, preference, inbox, doubtful, asked, crashed, prefChanges>>

\* Mutant: the user's consent is not looked at.
ShouldSendAnyway(p, priority) ==
    CASE p.level = "transactional" -> FALSE
      [] p.level = "important" -> priority = "important"
      [] OTHER -> TRUE

\* Processor.shouldSend, for a priority that is not transactional.
shouldSend(p, priority) ==
    p.consent /\ CASE p.level = "transactional" -> FALSE
                   [] p.level = "important" -> priority = "important"
                   [] OTHER -> TRUE

\* The mail goes to the mailer.  There is no check for a mailer that is nil: the goroutine of
\* the handler panics, which ends the process.
HandsOver(m, priority) ==
    /\ mail' = [mail EXCEPT ![m] = [kind |-> priority, by |-> lifecycleMailer, attempts |-> 0,
                                     end |-> CASE lifecycleMailer = "nil" -> "panic"
                                               [] lifecycleMailer = "noop" -> "sent" [] OTHER -> "sending"]]
    /\ crashed' = (lifecycleMailer = "nil")

\* Processor.Send: transactional mail goes out; for the rest the preference is read, and when
\* it cannot be read the mail goes out.
SendLifecycle(m, priority) ==
    /\ ~crashed /\ mail[m] = NoMail
    /\ \/ /\ priority # "transactional" /\ ~shouldSend(preference, priority)
          /\ mail' = [mail EXCEPT ![m] = [NoMail EXCEPT !.kind = priority, !.end = "suppressed"]]
          /\ UNCHANGED <<asked, crashed>>
       \/ /\ priority # "transactional" /\ shouldSend(preference, priority) /\ HandsOver(m, priority)
          /\ asked' = [asked EXCEPT ![m] = IF preference.consent /\ preference.level # "transactional"
                                           THEN "yes" ELSE "no"]
       \/ HandsOver(m, priority) /\ UNCHANGED asked
    /\ UNCHANGED <<provider, preference, inbox, doubtful, prefChanges>>

-----------------------------------------------------------------------------
\* One attempt and what it comes to.
Attempt(m) == ~crashed /\ mail[m].end = "sending" /\ mail[m].attempts < maxRetries /\ mail[m].by \in {"http", "smtp"}
Ended(m, end) == mail' = [mail EXCEPT ![m].attempts = @ + 1, ![m].end = end]
Again(m) == Ended(m, IF mail[m].attempts + 1 < maxRetries THEN "backoff" ELSE "failed")

Accepted(m) ==
    /\ Attempt(m) /\ Ended(m, "sent") /\ inbox' = [inbox EXCEPT ![m] = @ + 1]
    /\ UNCHANGED <<provider, preference, doubtful, asked, crashed, prefChanges>>

\* The provider refuses: 4xx is final, 5xx and every SMTP refusal are tried again.
MailRefused(m) ==
    /\ Attempt(m) /\ \/ mail[m].by = "http" /\ Ended(m, "failed")
                     \/ Again(m)
    /\ UNCHANGED <<provider, preference, inbox, doubtful, asked, crashed, prefChanges>>

\* No answer in time, or the connection breaks; with SMTP also a QUIT that fails after the
\* mail was taken.  The mail may have arrived.
NoAnswer(m) ==
    /\ Attempt(m) /\ Again(m) /\ doubtful' = [doubtful EXCEPT ![m] = @ + 1]
    /\ \E arrived \in {0, 1} : inbox' = [inbox EXCEPT ![m] = @ + arrived]
    /\ UNCHANGED <<provider, preference, asked, crashed, prefChanges>>

\* The backoff: over, or the request's context ends first.
Backoff(m) ==
    /\ ~crashed /\ mail[m].end = "backoff"
    /\ \E end \in {"sending", "failed"} : mail' = [mail EXCEPT ![m].end = end]
    /\ UNCHANGED <<provider, preference, inbox, doubtful, asked, crashed, prefChanges>>

MailNext ==
    \/ \E p \in Preferences : UpdateUserEmailPreferences(p)
    \/ \E m \in Mails :
          \/ MailOTP(m) \/ \E priority \in Priorities : SendLifecycle(m, priority)
          \/ Accepted(m) \/ MailRefused(m) \/ NoAnswer(m) \/ Backoff(m)

MailSpec == MailInit /\ [][MailNext]_mailVars

-----------------------------------------------------------------------------
\* The answer a caller gets is true up to the attempts nobody can judge: a mail said to be
\* sent by a real provider arrived; it arrived more than once, or though it is said to have
\* failed, only by attempts that got no answer; nothing goes against a preference that was
\* read; and the process dies of a mail only with SMTP, for which there is no lifecycle mailer.
MailAccounted ==
    /\ \A m \in Mails :
          /\ mail[m].end = "sent" /\ mail[m].by \in {"http", "smtp"} =>
                inbox[m] \in 1..(1 + doubtful[m])
          /\ mail[m].end # "sent" => inbox[m] <= doubtful[m]
          /\ mail[m].end \in {"suppressed", "no sender"} => inbox[m] = 0
          /\ asked[m] # "no"
    /\ crashed => provider = "smtp" /\ \A m \in Mails : mail[m].kind # "otp" => inbox[m] = 0

\* How a mail stands: what by says of the provider, and the attempts behind what may have arrived.
MailShape(m) ==
    /\ inbox[m] <= mail[m].attempts /\ doubtful[m] <= mail[m].attempts
    /\ mail[m].by \notin {"http", "smtp"} => mail[m].attempts = 0
    /\ mail[m].kind # "otp" /\ provider = "smtp" => mail[m].by \in {"none", "nil"}
    /\ mail[m].end \in {"suppressed", "no sender"} => mail[m].by \in {"none", "nil"}

MailInv == MailTypeOK /\ MailAccounted /\ \A m \in Mails : MailShape(m)
=============================================================================
