# FeatureSignals: a TLA+ verification project

TLA+ models of the parts of FeatureSignals in which concurrency, failure and
order decide whether the program is right, the TLC configurations that check
them on small instances, and TLAPS proofs of what matters most for every size.
Paths below are relative to the repository; `internal/` stands for
`src/server/internal/`, `handlers/` for `internal/api/handlers/`.

    tlc -workers 2 -config MCSystem.cfg MCSystem     # one run
    tlapm RulesetCacheProofs.tla                     # one module's proofs

`PROJECT.json` lists every run, which lines of the source each definition
models (`map`), one mutation of the model that breaks each property
(`mutants`), the disagreements found (`findings`) and the hazards the
properties are aimed at (`hazards`).

## 1. Inventory

The server is one Go binary, run as several processes against one PostgreSQL
database. A management API edits flags; an evaluation API serves them from an
in-memory cache; PostgreSQL LISTEN/NOTIFY tells every process of changes; SSE
and webhooks tell clients. Beside it stand a relay, client SDKs, a global
router in front of the regions, and an operations portal with a database of its
own.

| Component | State | Hard part | Modules | Status |
|---|---|---|---|---|
| Ruleset cache, change notification (`store/cache`, `ListenForChanges`, trigger of migration 000001) | rulesets per process, LISTEN session and its queue | loads run unlocked beside invalidations; the listener may go deaf | `RulesetCache` | modelled |
| Credit store (`credit_store.go`) | balances, consumptions, purchases, grants | row locks, idempotency keys, half-done grants, pool limit | `Credits`, `CreditLedger` | modelled |
| Flag states (`handlers/flags.go`) | `flag_states` rows | read-modify-write of whole rows | `FlagStates` | partly |
| Change requests (`handlers/approval.go`) | `approval_requests` | racing reviews; three statements | `FlagStates` | modelled |
| Flag history (`flag_history.go`, migration 000088) | `flag_versions` | label in a second statement | `FlagVersions` | modelled |
| Scheduler (`scheduler/scheduler.go`) | advisory lock, due rows | lost session; races with handlers and gateway | `FlagStates`, `Billing`, `Signup`, `Sessions`, `Resources` | partly |
| SSE server (`sse/server.go`), relay, Go SDK | client map, channels of 64; version held by each reader | map ranged over after the unlock, full buffers, reconnects | `Streaming` | server modelled, the others partly |
| Webhook dispatcher (`webhook/`) | two queues of 256, ten workers, delivery rows | full queues, retries, edits, shutdown | `Webhooks` | modelled |
| Event emitter (`events/emitter.go`) | channel, batch | full channel, failed flush, Close against Emit | `Emitter` | partly (no Redis publisher: it is not wired) |
| Evaluation engine (`eval/`) | the ruleset | recursion over prerequisites, ties in a mutual exclusion group, edges of the rollout | `EvalEngine` | modelled |
| Accounts (`auth.go`, `signup.go`, `mfa.go`, `magic_link.go`) | users, pending registrations, codes, attempts, revocations | check and mark in two statements | `Signup`, `Codes`, `Sessions` | modelled |
| Team, SSO, SCIM | members, SSO states | three ways in at once | `Team` | modelled |
| Middleware (`api/middleware`) | counters per client; license, plan, role, permissions | every gate reads for itself; window edge | `Gates`, `FixedWindow` | partly |
| Billing (`handlers/billing.go`, `payment/`) | subscription, payment events, plan | repeated, reordered, half-handled events; hourly jobs | `Billing` | modelled |
| Resources and audit log (`projects.go`, `segments.go`, `apikeys.go`, `tier.go`, `CreateAuditEntry`) | rows, keys with grace, hash chain | limit checked before the insert; chain head read by concurrent appends | `Resources` | modelled |
| Organization settings (onboarding, roles, janitor config) | one row each | read, change, write back whole | `OrgSettings` | modelled |
| AI janitor | scans, event bus; branches of a Git host; approved models | goroutines per scan, overlapping commits, paged lists that move | `Janitor`, `GitProviders`, `RemoteListing`, `Cleanup`, `CodeAnalysis` | partly |
| Sandboxes (`sandbox_handler.go`) | sandbox row, organization | claim against clean-up | `Sandboxes` | modelled |
| Server operations API (`ops.go`, `ops_auth.go`) | staff, sessions, licenses | refresh token read and dropped in two statements | `OpsStaff` | partly |
| Mail, life cycle | attempts, preferences | no answer is no failure | `Mail` | modelled |
| Status page (`status/`) | status rows | a window and a streak over days | `StatusPage` | modelled |
| Start, shutdown, migrations (`cmd/server`, `migrate/`) | goroutines, pool, schema version | order of release; replicas that migrate together | `ServerProcess`, `Migrations` | modelled |
| Global router (`deploy/global-router`) | times per address, connections | window, cap and clean-up | `GlobalRouter` | partly |
| Operations portal (`src/ops-portal`) | clusters, servers, deployments, configurations, users, DNS zone | whole rows written back after minutes | `Clusters`, `Deployments`, `ClusterConfig`, `OpsAccess`, `DNSZone` | modelled |
| PostgreSQL store | all tables | two-statement operations outside a transaction | the above | partly |
| Importers, OpenAPI generator, public pages, dashboard, MCP server, edge worker | - | text and user interface | - | not modelled |

Interactions. Every writer of `flag_states` (handlers, reviewers, scheduler)
ends in `Store.UpsertFlagState`; the row trigger turns the commit into one
notification; each process's listener goroutine deletes its cached ruleset,
broadcasts to its SSE clients and dispatches webhooks; the next evaluation
misses and loads. `FlagStates` models the writers, `RulesetCache` what follows
the write up to the announcement, `Streaming` and `Webhooks` what follows the
announcement, `EvalEngine` what is served from the ruleset in the end. The other
parts meet only in tables that one of them writes and the others read once
(an organization's plan, a member's role), and there the reader's module lets
the value change at any moment (`Gates.PlanChanges`, `FixedWindow.ChangePlan`).

What makes each part correct:

* cache: a change of a flag state reaches every listening process; a client
  that was told of a change is not served something older;
* what leaves the server: a change, a delivery or an event is lost only where
  the code says so (full buffer, last retry, shutdown), and nothing waits for ever;
* credits: no overdraft, one charge per key, one grant per period, nothing lost
  or created, truthful answers, no call stuck;
* flag states and every other row that is read and written back: a write
  changes what its author asked for, unless requests overlapped; schedules fire
  once due; "applied" means applied;
* codes, tokens, gateway events, sandboxes, sessions: each takes effect once, or
  as often as requests were at it together;
* limits and gates: the overshoot of a check that precedes its use is bounded
  by the requests in flight, and what was withdrawn before is not granted;
* records (audit, versions, status, mail): they account for what happened.

## 2. Modules

One module per component; each has its variables, `...Init`, one action per
handler, statement or goroutine step, `...Next` and `...Spec`.

**The core**

| Module | Actions |
|---|---|
| `RulesetCache` | `UpsertFlagState`, `WriteFlag`, `DeleteFlag`, `WriteSegment`; `Start`, `Stop`, `LoseConnection`; `Receive`, `Invalidate`, `Announce`; `Miss`, `ReadFlags`, `ReadStates`, `ReadSegments`, `StoreRuleset`, `FailLoad` |
| `CreditLedger` | what the store promises: `Charge`, `Buy`, `Grant`, each atomic |
| `Credits` | `ConsumeCredits` .. `CommitAborted`; `PurchaseCredits`, `RecordPurchase`, `TopUp`, `Settle`; `GrantMonthlyCredits`, `RecordGrant`, `AddMonthlyCredits`, `GrantReturns`; `Fail` |
| `FlagStates` | `UpdateState`, `Kill`, `Promote`, `SyncEnvironments`, `Save`; `Create`, `Review`, `Decide`, `Apply`, `Mark`, `Abandon`; `TryLock`, `List`, `FireOne`, `SkipOne`, `EndTick`, `BreakTick`, `LoseSession`; `Pass` |

**RulesetCache.** Table contents are version numbers: one for the project's
`flags`, one for its `segments`, one for each environment's `flag_states`. A
ruleset is the versions its three queries returned (`Store.LoadRuleset` runs
them outside a transaction, each on its own snapshot). `crossed` is a history
bit on a ruleset: an invalidation of the environment ran between the states
query and the map write. `told` is the newest version announced to clients.
A process is down, listening or deaf: `ListenForChanges` never LISTENs again
after its session is lost, and a failed start is only logged. `cut` is a bit on a ruleset, too: the loops over
flags and states end on an error as on the last row (`rows.Err()` is not looked
at), so a load that loses its connection between two rows may return what it
has, and that is cached like a whole ruleset. The callback is
three steps, since requests run between the receive, the locked delete and the
announcements.

**Credits.** One action is one statement; an open transaction is a pc between
`begin` and commit, and its writes become visible at `Commit`/`Settle`. Waiting
for a balance row (`RowFree`), for another transaction's unique key (`Insert`)
and for a pool connection (`FreeConns`) are guards. `Check` is the look at the
balance after a deduction that touched no row: `GetCreditBalance` takes a
second connection while the transaction holds its own. A duplicate key aborts
the transaction in PostgreSQL, so the commit that follows is a rollback and
returns an error (`CommitAborted`). `Fail` is any statement error, cancellation
or death of the process, at any point. `used`, `bought`, `credited` and `paid`
are history.

**FlagStates.** A row keeps the five fields the writers treat differently:
`enabled`, the variants, the rest of the configuration, and the two schedule
times. A handler reads (`Hold`, with the draft it computes) and writes later
(`Save`); in between its draft may go `stale`, which the model records, as it
records a read whose error the code ignores. A request body is a partial
function (`Merge`). The scheduler's tick is the advisory lock, the list, one
upsert per row and the unlock, any of which may fail; a lost session frees the
lock while the tick runs on. `Pass` is the clock. There is one change request,
reviewed by any number of racing reviewers.

**What leaves the server** (composed in `MCDelivery`)

| Module | Models | Abstraction |
|---|---|---|
| `Streaming` | the SSE server's client map and buffers one access at a time, the broadcast that goes on over the map after the unlock, and its readers: SDK polling, SDK streaming, relay | the environment is its version; an event carries none, it makes its receiver fetch. `missed` records a change that went by while the reader was not connected or that its failed fetch lost. A concurrent map iteration and write is undefined in Go: here it may crash the process |
| `Webhooks` | notifier, events queue, fan-out, work queue, workers with retries, delivery rows, endpoint edits, cancellation | an endpoint answers, refuses or times out after it received; `received` counts what it got |
| `Emitter` | `Emit`, batch and flush with retries, `Close` with its timeout, emits after it | the n-th call emits event n |

**Everything that needs no fairness** (composed in `MCSystem`)

| Module | What a step is |
|---|---|
| `EvalEngine` | an edit of the ruleset; `Evaluate` is a function of it, with the hash an arbitrary bucket per flag; the loops over prerequisites, which call each other, are one recursive function (`Needs`) |
| `Signup`, `Codes`, `Sessions`, `Team` | a statement of a handler; any may fail; requests interleave between two |
| `Gates`, `FixedWindow`, `GlobalRouter` | a gate's read, a request at a limiter, a clean-up, a tick of the clock; a request is its tick and its number in it, so that the router's list per address is a set |
| `Billing` | a gateway event delivered any number of times in any order, an update of Stripe's with any status, or an hourly job: the list of statements left, executed one at a time, lost in a crash; whether an organization is inactive, a trial over or a grace period past is left open, so the jobs may find it so at any moment |
| `Resources`, `OrgSettings`, `FlagVersions` | check, change and audit of a request as separate statements; a rollback decodes the recorded default value into a Go string and writes the string's characters where JSON is wanted (`Restored`) |
| `Janitor`, `Sandboxes`, `OpsStaff` | a statement of a request, a scan's goroutine, a follower's channel, the clean-up of a replica |
| `GitProviders`, `RemoteListing` | one request to GitHub, GitLab or Bitbucket, which may fail with or without its effect, while the host changes; GitHub may answer with a part of a tree |
| `Cleanup` | a line added to a file, then a line of the cleanup's pass over it, or of the copy of an `else`; a line is what it says of braces, `if` and `else`, and the scans for a brace are the first line at a depth, the opening line included; lines with several braces, or with one in a string, are among them |
| `CodeAnalysis` | an edit of the policy; selection, redaction, call and record of an analysis |
| `Clusters`, `Deployments`, `ClusterConfig`, `OpsAccess`, `DNSZone` | a read, a provider call or a whole-row write of a portal request or goroutine |
| `Migrations`, `ServerProcess` | a statement of golang-migrate by a replica; a step of main, a worker, a request |
| `StatusPage`, `Mail` | a probe or an insert; an attempt of a mail |

The MC modules extend their parts and add one variable, `focus`, which is
chosen in `Init` and never changes: only the part it names moves. The parts
share no variable, so a behaviour of all of them is an interleaving of
behaviours of each, and an invariant of one part sees nothing of the others'
steps: interleaving them would multiply the states and show nothing more.
`Pinned` gives the parts that do not move one initial state each. Where two
parts do interact through data (plan, role, cluster row), the module that reads
has the other's write as an action of its own.

The proofs are in modules of their own, which extend what they are about:

| Module | Proves about |
|---|---|
| `RulesetCacheProofs`, `CreditsProofs`, `FlagStatesProofs` | the core, one each; `CreditsProofs` also the refinement of `CreditLedger` |
| `DeliveryProofs` | `Streaming`, `Webhooks`, `Emitter`, and `MCDelivery`, which composes them |
| `RecordsProofs` | `Codes`, `Gates`, `Signup`, `Sessions`, `Team`, `FixedWindow`, `GlobalRouter`; `OrgSettings`, `Resources`, `FlagVersions`, `Sandboxes`, `OpsStaff` |
| `JanitorProofs` | `Janitor`, `CodeAnalysis`, `RemoteListing`, `Cleanup`, `GitProviders` |
| `OperationsProofs` | `Billing`, `Clusters`, `ClusterConfig`, `Deployments`, `OpsAccess`, `DNSZone`, `Migrations`, `ServerProcess`, `StatusPage`, `Mail` |
| `SystemProofs` | `EvalEngine`, and `MCSystem`: what was proved of each part, of the whole |

History. Lost updates are what this code does when requests overlap; a property
that forbade them would just be false. The modules therefore keep history
variables that say whether they did (`overlap`, `overtaken`, `raced`,
`alongside`, `letGo`, ...), set by what another request did meanwhile and never by
the effect itself, and the properties say that nothing else loses a write.
Definitions whose comment begins with "Mutant:" are slightly wrong forms of the
definition after them and take no part in a specification; `PROJECT.json`
lists one for each property, the others were checked in the same way, so that
each part of a conjunction is known to be able to fail.

Abstraction throughout: identifiers are model values; JSON, logging, wording and
HTTP status codes are left out. Cryptography is taken to work. The services
that are not in the repository (Stripe, PayU, Git hosts, Hetzner, Cloudflare,
mail providers, language models, golang-migrate) are modelled from how the code
calls them: they answer, refuse, or do what was asked and lose the answer.

## 3. Runs

| Run | Instance | Shows |
|---|---|---|
| `ruleset_cache` | 1 process, 2 handlers, 1 environment, 2 state writes, 1 flag and 1 segment write, 1 lost session | `IInv`; `StaleStateExplained`: a stale cached state in a listening process has its invalidation on the way, comes from a crossed load, or lacks rows because its load was cut short; `EventThenFresh`: after a client was told of a change no row it is served is of an older state (crossed loads aside); `TellsForward`: events of an environment never go backwards; `StaleStateEvicted`: what is stale, and not crossed, goes |
| `ruleset_cache_any_change` | 1 process, 2 environments | violation of `AnyChangeInvalidates`, finding 1 |
| `ruleset_cache_converge` | 1 process, 2 state writes | violation of `InstancesConverge`, finding 2 |
| `credits` | 2 callers, 2 bearers, keys {empty, k1}, 1 period, amounts of 2, packs of 1, 3 connections | `IInv` (no negative balance), `Conserved`, `AnswersTrue`, `LedgerSpec` (refinement of `CreditLedger`), `CallsReturn` |
| `credits_grant` | 1 caller, nothing bought | violation of `GrantHonoured`, finding 3: the grant is recorded, the call fails, the next call for the period returns success and adds nothing |
| `flag_states` | 3 requests in flight, 3 calls, 2 schedulers, 2 environments, 2 faults, symmetric | `IInv`, `TickExclusive`, `AppliedWasWritten`, `OnlyWhatWasAsked` |
| `flag_states_fires` | 2 requests, 2 schedulers, 1 fault | `ScheduleFires` |
| `flag_states_kill` | 2 requests, no fault | violation of `KillHolds`, finding 4 |
| `flag_states_approved` | the same | violation of `ApprovedIsApplied`, finding 5 |
| `delivery` | one reader of each sort, one at a time, buffer of 1, 3 changes; 1 endpoint, 2 workers, queues of 1, 2 attempts, 2 events; channel and batch of 2, 3 emits | `StaleStreamExplained`: an event dropped by a full buffer never leaves a connected reader stale; `CatchesUp`; `DeliveryConserved`: every delivery found to be made is in one place, recorded truly, or lost in a known way; `DeliveriesSettle`; `EventsConserved`: what Emit took is stored, on its way or given up; `EventsFlushed` |
| `billing_login_restores` | 1 request, 1 event | violation of `LoginRestores`, finding 6 |
| `system` | two requests in flight in most parts, one fault each; see below | one property, or two, for each of the 28 parts; see below |

The properties of `system`:

| Property | Part | Says |
|---|---|---|
| `MutexExclusive`, `RolloutOnlyGrows` | `EvalEngine` | of a mutual exclusion group a user is served one flag, ties included; raising a rollout takes nobody out |
| `SignupSound` | `Signup` | one account, complete, however sign-ups race; wrong guesses bounded by the limit, the requests in flight and the counts that failed |
| `CodesSingleUse` | `Codes` | a one-time token once; the others no more often than requests had read them together |
| `LoginSound` | `Sessions`, `Team` | the lock-out counts; a logged-out token stays refused whatever is cleaned up; single sign-on turns nobody away but members (whose second insert conflicts) |
| `GatesSound` | `Gates` | every condition asked of a request (the permission row only of a body with the fields it guards) was true while it was on its way, or its gate could not read it, or it came from an old token |
| `RateBounds` | `FixedWindow`, `GlobalRouter` | at most twice the limit in a window's length; at most the limit |
| `BillingSound` | `Billing` | an event acts once per handler that was at it together; without overlap or fault, Pro has a subscription that is paid, past due, or of the status Stripe's last update gave |
| `LimitOvershootBound`, `RecordsFaithful` | `Resources`, `FlagVersions` | the plan's limit is passed only by requests in flight together and checks that failed open; every change is in the audit log or known not to be, and the hash chain is a chain unless entries were written at once; versions are one line that ends at the row, and a rollback's is the one it names but for the default value |
| `SettingsEditsKept` | `OrgSettings` | an edit is lost to an overlap or a failed read only |
| `JanitorSound`, `NoCommitLost` | the janitor's five | who follows a scan learns its end; the cleaned code of a plain file keeps its braces and every statement outside the flag's blocks; a listing is what the host had, as far as paging and cut-off trees can tell; code goes only to a permitted model, redacted and recorded; no commit is overwritten |
| `AccountsSound` | `Sandboxes`, `OpsStaff` | one winner of a sandbox, which stays theirs unless a clean-up had listed it; no live organization without a row; a staff token once, for active staff |
| `PortalWritesKept`, `SyncEffect` | the portal's five | versions, configuration edits, roles, tokens and paid servers are accounted for, up to overlaps, failed reads and versions set by hand; a DNS sync deletes only what it listed |
| `ProcessSound` | `Migrations`, `ServerProcess`, `StatusPage`, `Mail` | files in order, by one replica, again only after one was seen dirty; pool closed after its users; the page reports what was measured; a mail is sent, refused or doubtful as said |

Bounds, and why they are enough to meet the interesting cases:

* Cache. Processes share only the tables and the trigger, and the invalidation
  of an environment touches nothing of another's, so one process and one
  environment show every race of a load with an invalidation; two handlers are
  needed for two loads that finish in the wrong order, two writes for a
  notification that queues behind the one in hand. `MaxLosses = 1` gives a deaf process
  and a restart after it. The proofs lift all of these but the temporal ones.
* Credits (`credits_grant` needs one caller only: with two, a grant still in
  flight would look like one that is lost). Two callers give every pair of operations; an amount of two against
  a seed of one makes a consumption fail, then succeed after a purchase or a
  grant; the shared key gives replays and the duplicate-key race. Three
  connections are one more than the callers: with every connection held by an
  open transaction, `GetCreditBalance` inside one waits for all of them, which
  is why `CallsReturn` is claimed for a pool with a connection to spare only.
* Flag states. A lost update takes two requests; the third lets a reviewer race
  the two. Two schedulers are what the lock is for. `MaxTime = 1` gives "due"
  and "not yet due". Two faults let a session be lost and an upsert fail in one
  behaviour. `MCPatches` holds a body that edits the configuration and sets a
  time to enable, and one that toggles and sets a time to disable: with the
  change request's payload, which has variants, they write every field, and
  each leaves out fields that the other sets.
* Delivery. Readers meet only at the broadcast, which visits them one by one,
  and in the crash of a shared process, which a single reader can meet as well;
  the proof covers any number (two at once were checked without the liveness
  part). A buffer or queue of one is full after one event; three changes put
  one in the buffer, one behind it and one on its way. Two workers and two
  attempts give a retry beside another delivery. A batch is full and is not.
* System (752 321 states). A race takes two requests, and every part in which requests
  can race has two (three edits for the configuration, whose versions repeat only
  then). The gates (`GateRequests`), the janitor's requests (`ScanReqs`), the
  listings, the analyses (`Analyses`) and the mails (`Mails`) have one: what a
  request races with there is not another of its kind but changes of what it
  reads (role, plan, rows, the host, the policy, the preferences), or the
  goroutines and followers of two scans, which are actions of those modules.
  The gates start on the plan Pro, which can
  change on the way. Every limit has something
  beyond it: a third guess at a code with one attempt, a third row under a
  limit of two, a second scan, a schema with a gap. One fault lets each
  statement fail in turn. The clock of a limiter runs through two windows and
  more. `Cleanup` has every file of five lines and two levels, which holds an
  `if` on the flag with its `else` inside another block, and in each at most one
  line on which braces are miscounted or that has several (`MaxAwkward`). The
  default values of `FlagVersions` are a string that is no JSON, one whose characters are a number,
  and a number: refused by the write, written as something else, refused by the read. `r1` and `r2` are
  interchangeable in every part that has them, so `SYMMETRY` is sound; its
  properties have no liveness.

Fairness:

* cache: weak fairness of the listener goroutine and of a started load. The
  callback is bounded by a five-second timeout and the queries by the request's
  context. Writers, requests, failures and restarts are never forced.
* credits: strong fairness of each call's next statement. PostgreSQL grants row
  locks, and pgxpool hands out connections, in the order of waiting, so a
  waiter is not overtaken for ever.
* flag states: weak fairness of the scheduler's ticker and of a started
  request. Faults are bounded; a fault at every tick would of course stop a
  schedule.
* streams: weak fairness of the goroutines of server and readers and of the
  restart of a process that is down (the container restarts it); strong
  fairness of a reader's request and of its answer: of the fetches of a loop that
  goes on for ever not every one is lost. `CatchesUp` supposes that the server
  stops crashing, and promises nothing to a streaming reader that missed an
  event: nothing in the code makes it fetch.
* webhooks and events: weak fairness of dispatcher, workers, the emitter's loop,
  its ticker, and of main once it was told to stop. An endpoint need not answer.

Deadlock is checked in the runs of the core, where processes can restart,
callers call again and tickers tick. `delivery`, `system` and
`billing_login_restores` have it off: processes end there, requests are
finite in number, and a part whose bounds are used up stops.

## 4. Proofs

For every number of processes, handlers, environments, callers, bearers, keys,
periods, requests, schedulers, readers, workers, clusters, branches and
replicas, every buffer size and every value of the bounds. Each part has an
invariant that is shown to be inductive (the initial states, then one lemma for
each group of actions, combined by PTL); the theorems are drawn from it. The
assumptions are the `ASSUME` of each part: bounds are numbers, sets of requests
finite where something is counted, queues and buffers at least one long, and
the few names that must differ (a replica is not called "free", a role not
"gone", a member of staff not "none"). Four say what the code's data is: there is
somebody to invite (`Emails # {}`), a stored policy names approved models by
numbers they may have, a host that may have a list of n entries may have a
shorter one, and a string is longer in JSON than what its characters are, by its
quotes (`Reads[t] # t`). TLC evaluates all of them in the runs.

An invariant here has three layers: the types, the property itself, and a
"shape", which says what a request between two of its statements knows about
the tables: what it read is still so, or the history variable says who changed
it. The last layer is where the argument is; TLC checked each one on a small
instance before it was proved.

* `RulesetCacheProofs`: `Inductive`, `TypeCorrect`, `StaleStateIsExplained`,
  `EventThenFreshHolds`, `TellsAreForward`. The first two properties are not
  inductive alone: they speak of the cache, while the danger is in the hands of
  a load. `Covered` is the strengthening: a ruleset past its states query,
  cached or not, is crossed, or both current-or-pending and as new as everything
  deleted or announced, for the rows it has: that rows are missing is what `cut`
  records, and the first property names it as an explanation. `VersionInv` (no notification runs ahead of the table)
  carries the announcements; `OrderInv` (the queue of notifications is in the
  order of the writes, behind the one in hand, behind what was told) gives
  `TellsForward`, an action property.
* `CreditsProofs`: `Inductive`, `TypeCorrect`, `AnswersAreTrue`,
  `CreditsConserved`, `ImplementsLedger`. `LockInv` (a row is locked by one
  transaction, whose deduction stays covered) gives the absence of overdrafts;
  `KeyInv` (an inserted key is nobody else's) one charge a key; `GrantInv` (one
  owner for a recorded, uncredited grant) one grant a period. Each committed
  statement maps to one ledger step, every other to a stutter. Conservation
  takes the finite-set theorems for the cardinality of the credited periods.
* `FlagStatesProofs`: `Inductive`, `TypeCorrect`, `TicksExclusive`,
  `AppliedIsWritten`, `WritesOnlyWhatWasAsked` (an action property).
  `DraftFresh` and `BatchFresh` say what a draft, or a row of the scheduler's
  batch, still has in common with the table until it goes stale; `LockHeld` ties
  the exclusion of ticks to the lock; `OpShape` and `TickShape` say what each
  stage knows.
* `DeliveryProofs`: `StreamInductive`, `StaleStreamIsExplained`,
  `WebhookInductive`, `DeliveriesAreConserved`, `EmitterInductive`,
  `EventsAreConserved`, `DeliveryTypes`. Streams: the property speaks of a
  reader at rest, `Covered` also of one that fetches; that a full buffer costs
  nothing is the case `Send`, where the event is dropped only if another waits
  in front. Webhooks and events: the places a delivery or an event can be in are
  disjoint (`OnePlace`, `EmitterShape`), no queue holds anything twice, and what
  is new in a queue is nowhere else, so nothing is counted twice or dropped
  between two places.
* `RecordsProofs`, who is let in: `CodesInductive`, `CodesAreSingleUse`, `GatesInductive`,
  `GatesAreSound`, `SignupInductive`, `AccountsAreFoundedOnce`. Both the uses
  of a code and the guesses at one are counted against the requests that had
  read it together, with the cardinality theorems; `CodesShape` (a live code has
  let nobody through, a request holds a code of the kind it asked for) and
  `CodeShape` (two pending sign-ups never have one code, a new code starts
  without guesses) are what the counting rests on. `GateHistory` says of a request
  past a gate that the gate's condition held on its way, or which exception
  applies.
  `LoginsAreBounded`: the failures in a lock-out's window are counted together
  with the log-ins whose password is being judged (`SessionsInv`): the bound is
  only inductive with what may still come. `SignOnFailsOnlyAsMember`, an action
  property: a sign-on at its member row holds a user (`TeamShape`).
  `FixedWindowsAreBounded`: the windows of two served requests are one, in which
  they have different places, or more than a window apart (`Apart`), so a stretch
  of a window's length meets two, and each has as many places as the plan allows.
  `SlidingWindowsAreBounded`: the list of an address the cap has not thrown out
  holds all that the history has of late (`ListShape`), though the code cuts it
  lazily and the clean-up judges it by its oldest entry: its entries are never
  more than a window apart, so when the oldest is older than two windows all are
  older than one.
* `RecordsProofs`, the records: `SettingsInductive`, `EditsAreKept`;
  `ResourcesInductive`, `LimitIsOverrunByFew`, `ChangesAreAccountedFor`;
  `HistoryIsFaithful`; `SandboxesAreAccountedFor`; `StaffSessionsAreSound`.
  `ReadInHand`: an update that nobody has overtaken still holds the row. The rows
  beyond the limit are counted against the creates in flight and the checks that
  failed open; `RowShape` (a row's number is used once) keeps what a request has
  in hand what it was, and `AuditShape` has one entry under way for each change, in
  the order in which they began unless two were written at once. `RollbackShape`:
  what a rollback read is the content of the version it names, with a default value
  that decodes into a string; the theorem's last part then says what became of that
  value (`RolledBack`), for any JSON values and any way of reading a string as JSON
  that does not give the string itself back. Sandboxes: what a
  clean-up holds was listed before the claim, or its claim is in the history
  (`CleanerShape`), and a winner's sandbox can be claimed by nobody else
  (`WinnerShape`). Staff: a token that was exchanged is gone and no refresh holds
  it, and no two hold one unless they read it together (`TokenShape`).
* `JanitorProofs`: `FollowersAlwaysLearnEnd`, `CodeGoesWhereAllowed`,
  `ListingsAreSound`, `CleanedCodeIsSound`, `GitProvidersInductive`,
  `NoCommitIsLost`.
  - `JanitorInv`: a run that is done has published its end on every path, so a
    client that was subscribed and never full knows it; that a followed scan has a
    run, and a run in its flags has one left, closes the gaps.
  - `CodeAnalysisInv`: a call that no edit has overtaken holds the stored policy and
    rules, or the default policy that permits nothing; the row it chose is one
    the policy permits; a call that went out is at its record or past it.
  - `RemoteListingInv`: of the entries before the page in hand, those that stayed
    are in the result unless a removal moved them over the edge; those behind it
    are not, unless an addition did. It rests on what inserting into a sequence
    and removing from it do to the others' positions, and on a page being a
    contiguous part.
  - `CleanupInv`: the file is one that can be written (`WellFormed`: depths never
    below zero, no second `else`), and the pass is right so far (`Cleaning`): the
    result is as deep as the file up to the line in hand, less one inside an
    `else` whose braces are dropped (`ElseAhead`: it is not left before its
    closing line), and every line passed was kept or left out as it should be.
    All this is said of a `Plain` file: the lines on which the code miscounts
    (an `else if`, a literal on the line of an `if` on the flag, such an `if` with
    its `else` on one line, a brace in a string) are in the model, and section 5 has
    what they do. The pass takes a step per line, and a block left out is judged by the depth at
    its two ends, so no induction over the file is needed. `LineDepth` stands for
    the counts of braces in the model.
  - `NoCommitLost`, an action property: it is enough that a commit about to be put
    on a branch is the last of a line that is not empty, since the host takes it
    only on the rest of that line.
* `OperationsProofs`: `BillingInductive`, `PlansAreSettled`,
  `ServersAreAccountedFor`, `ConfigEditsAreKept`, `VersionsAreRecorded`,
  `RolesAndTokensAreKept`, `SyncsAreAsTheyAre`; `MigrationsAreSound`,
  `ShutdownIsOrdered`, `StatusPageIsTruthful`, `MailIsAccountedFor`. `PlanLeadsOn`: the statements a
  handler has left end in a plan and a subscription that agree, or in a status that
  is Stripe's word (`asTold`), from which no writer draws a conclusion. `ServerHands`:
  a server without a row is in the hands of one job. `ConfigShape`,
  `DeployShape`, `RolesHeld` and `TokensHeld`: what a portal request read is
  current, or something overlapped, a read failed (`astray`), or a version was set by a
  request (`versionBlurred`). `QuietShape`: what a sync that nothing has
  disturbed knows of the zone at each stage. `RowStands` and `Knows`: the number in the
  migrations table stands for files carried out, and so does one that was read
  to be forced, however old it is. `ClosedInOrder`: the deferred calls still to
  run are the last of the list, and the ones before them were made.
  `SeenBetween`: a row that says "unwell" is backed by a tick of its round.
  `MailShape`: an attempt lies behind every copy that may have arrived.
* `SystemProofs`: `EngineTypes`, `MutexHolds` (two flags of a group cannot both
  come first by bucket and key), `RolloutsOnlyGrow`. `Needs` is recursive, and its
  calls go through a map that grows along the way, so it has to be shown that
  there is such a function at all: every call has less left than its caller
  (`LeftOf`: the flags not in the map, then the prerequisites of the loop still to
  come), a solution for the loops with less than k left gives one for k + 1, and the
  least k without one does not exist (`SolveAny`). In the same way, by the
  loop with the least left, every loop returns a map that has only grown, and none
  that has f in its map depends on f's rollout. Then, a step of `MCSystem` being for each part
  a step of it or none, `SystemInductive`, `OperationsInductive`,
  `ProcessInductive` and from them `SystemSignup`, `SystemRecords`,
  `SystemBilling`, `SystemPortal`, `SystemProcess`, `SystemCommits`: the
  properties of the run `system` by the names the run checks. For the other
  parts `Spec` is shown to imply the part's own specification, and `SystemLogin`,
  `SystemAccounts`, `SystemSync`, `SystemRates`, `SystemJanitor` follow from the
  parts' theorems, as does `SystemRollouts`; `SystemTypes` takes every part's
  invariant for its types. With it each property of the run is a theorem.

Only model-checked:

* the liveness properties (`StaleStateEvicted`, `CallsReturn`, `ScheduleFires`,
  `CatchesUp`, `DeliveriesSettle`, `EventsFlushed`): fairness is beyond the
  prover;
* what `Evaluate` computes in other respects (rules, variants): the models of
  `RuleHits` and `evaluateVariant` are sorts, selections and sums over sequences,
  about which no property is stated but those above;
* the six violations, which are counterexamples.

## 5. Findings

1. `ARCHITECTURE.md:312` says rulesets are invalidated "when any flag, state, or
   segment changes"; the trigger is on `flag_states` only.
2. `ARCHITECTURE.md:601` says invalidation "keeps all instances in sync"; a load
   crossed by an invalidation stores the old ruleset after the deletion, where
   it stays until the next change.
3. `domain/credits.go:128` says a grant is "safe to call multiple times per
   period"; the grant row and the credits are two transactions, and a failure
   between them loses the credits for good.
4. `flags.go:591` says Kill "instantly disables a flag"; an edit of the
   configuration that read the row before and writes after turns it on again.
5. `approval.go:113` says "If approved, the change is applied"; a payload
   without `org_id`, as in the tests, is rejected by the database and the
   request is stuck in "approved".
6. `auth.go:298` says "Restore soft-deleted org on login (within grace period)";
   `GetOrganization` does not select `deleted_at`, so the login never restores,
   and the organization is hard-deleted.

Seen while reading, with no run of their own. The modules have these as they are
in the code.

*Evaluation and delivery.* `ListFlags` and `LoadRuleset` leave their loops without
looking at `rows.Err()` (`store.go:542-549`, `1317-1331`): a connection lost between
two rows gives a ruleset that lacks rows, cached as the whole until the next change
of the environment. The engine's `visited` set is shared between the
branches of the prerequisites, so a prerequisite reached twice (no cycle) fails
(`engine.go:39`; `PERFORMANCE.md:50`). A stream that reconnects fetches nothing
(`ARCHITECTURE.md:629` says it "triggers refetch"). `PERFORMANCE.md:249` has the
broadcast "under `RLock`"; it iterates after unlocking. The glossary promises
"up to 5 attempts" for webhooks, `dispatcher.go:82` makes 3; the `break` in
`deliver` leaves the select, not the loop. Main waits for neither the dispatcher
nor its workers. A commit of product events whose answer is lost is repeated.
In SSE mode the Go client never becomes ready after a failed first fetch. The
Redis publisher is not wired, and its subscriber loops without the "exponential
backoff" it announces.

*Flags.* The scheduler's audit entries have no organization, which the schema
rejects (`ARCHITECTURE.md:380`); `IsListening` stays true after the session is
lost; Promote drops the variants and erases the target's schedule; a partial
update clears the mutual exclusion group (`flags.go:282`); the version trigger
fires on UPDATE only, and a version holds neither the group nor the
prerequisites; a rollback labels the newest version, whoever made it. A rollback never brings a
default value back, though `flag_history.go:5` announces "Rollback to any previous version": `store.go:680-699`
decodes the JSONB value into a Go string, which fails for booleans, numbers and
objects, and writes a string's bare characters into the JSONB column, which fails or
gives another value. The permission of an environment is asked only for bodies with
`enabled`, rules, percentage or variants (`flags.go:408`): one with the default value or
the schedule alone passes without it.

*Credits and billing.* An "updated" subscription of Stripe's that is unpaid, paused or
cancelled leaves the plan Pro (`billing.go:457`), and dunning, which lists `past_due`
only (`store.go:1602`), never finds it. `credit_store.go:232` says "Our UPDATE is committed" where
the transaction is aborted, and `:204` "create it then retry" and never retries;
an empty idempotency key is a key like any other; `GrantMonthlyCredits` has no
caller. Dunning and trial expiry can overwrite a plan that was just paid for; a
subscription that becomes active again after dunning leaves the plan free; an
organization restored between the list and the delete is deleted
(`scheduler.go:254`); the hourly jobs run outside the advisory lock; the trial
middleware never sees a trial date (`trial.go:19`).

*Accounts.* The role in a token stays until the token expires; `team.go:294`
says "replaces" and only upserts; an MFA secret made between Verify's read and
its write is the one that is enabled; the conflict branch of the SSO member
insert is dead; `UpdateCustomRole` answers 200 for a role that is gone; the
onboarding and janitor settings are built from nothing when their read fails.
`ratelimit.go:28` says "sliding-window" and is a fixed one. The tier, feature and
address gates let requests pass when they cannot read; the license gate passes
when its key cannot be loaded (`license.go:90`) and lists paths that do not exist.
An API key that is rotated loses its type and expiry, and its grace is not
looked at. The entry for a deleted project is always refused by the foreign key
(migration 000090); an entry's hash uses another clock than its row, and the
chain is read in the order of transaction starts; before-states are read after
the change (`webhook.go:145`, `segments.go`).

*Janitor.* A scan opens no repository (`ListRepositories` leaves the token out);
`GetScan` fails on a null `error_message`, so nothing is cancelled; a null
`dismiss_reason` keeps the stale-flag handlers from their rows; nothing calls
the bus's Cleanup. GitLab's lists are one page, Bitbucket's files one directory;
GitHub refuses the parentless commit made for a missing branch, and marks the tree of a
large repository as truncated, which `ListFiles` does not look at
(`github/provider.go:217-241`): a scan then passes over the rest without an error.
`analyzer.go:116` says the cleaned code is "syntactically valid"; an `else if` is taken
for an `else`, and since braces are counted character by character from the opening
line on (`analyzer.go:239-258`), an `if` whose line holds a literal loses only that line,
one with its `else` on the same line loses both, and a brace in a string counts. The compliance
store's `ON CONFLICT (id)` never fires, `RequireDataMasking` only warns, and
nothing calls the wrappers.

*Sandboxes, operations, status, mail.* `SoftDeleteSandbox` has no guard against a
claim; Claim makes its user before the guarded update, adds no member and ignores
the expiry; "ListExpiredClaimedSandboxes" selects expired ones. In the server's
operations API Logout and Me always answer 401, a refreshed token lacks the e-mail
that the next request needs, audit inserts are refused, and a license gets no key.
The status recorder "prunes" nothing and probes remote regions at
`localhost:8080`. With `EMAIL_PROVIDER=smtp` the lifecycle mailer is nil and
sign-up panics (`signup.go:301`); a failed QUIT sends an SMTP mail again.
Migrations: a dirty version is forced to the number below it, which need not
exist, and a replica may read "dirty" while another is just at work.

*Portal and router.* A DNS sync deletes the records it should keep
(`dns.go:129-194` against `OPS_PORTAL.md:380`); the provisioning poll writes back
a row it read minutes ago; Deprovision forgets a server whose deletion failed; a
login writes the whole user row back; the map of refresh tokens has no lock; two
snapshots can have one version; nothing pushes what `config.go` says "will be
pushed when cluster recovers"; an update whose read of the snapshots fails is merged on
nothing and wipes the stored edits (`config.go:116-125`, `318-327`); PUT on a cluster
takes the version from its body, and a health check from the answer
(`clusters.go:398`, `422`, `253`; `dashboard.go:105`), whatever was deployed; only approved canaries ever become "success"; an
approval and a rejection of a canary both win. The router never cleans the
limiters it keeps per domain.

## 6. Not modelled, and why

* Flag creation, import and sandbox seeding write rows of flags nobody else
  knows yet; single inserts and the pruning of rows nobody else reads change
  nothing that is shared.
* Importers and the migration handler: translations of text; Execute is a stub.
* OpenAPI generator, public pages, e-mail templates, prompts: text.
* Dashboard, MCP server, edge worker: user interface and proxying. The other
  SDKs repeat the Go client's loops in other languages.
* Redis publisher: not wired into the server.
* Janitor pull requests (GeneratePR, DismissFlag): not reachable, as said above;
  the Git operations they would use are in `GitProviders`.
* TLS, DNS answers and proxying of the router; headers, CORS, logging, metrics.
* Two hazards besides those listed have no property. The map of last
  scan times has no lock (`janitor.go:200`): two requests may both pass it, or end
  the process, and `Janitor` has both (`MarkScan`, `JanitorCrash`), but nothing
  stated here depends on it. An empty
  idempotency key is in `Credits` (`NoKey`) and behaves as any other.
* Three listed hazards have none either. The blanked row after a failed read
  (`flags.go:428`) and the approval that races a rejection (`store.go:1430`) are
  in `FlagStates` as the code has them; properties that forbade them would be
  false, and nothing promises them. The pool exhausted by its own transactions
  (`credit_store.go:196`) is outside the bound of `CallsReturn`.
* DNS: the client reads one page of the zone's records, the model all of them.

## 7. What is left

The models cover what the inventory lists, and every invariant, action property and
refinement that a passing run checks is proved; liveness is left to TLC.
What a next step could add:

1. the places where two modules meet in a table (plan, role, cluster row) as a
   composition, where now the reader's module has the other's write as an action;
2. the Redis publisher, once the server uses it, as a second `Emitter`;
3. the janitor's pull requests, once they can be reached: `GitProviders` and
   `Cleanup` have what they are made of.
