------------------------------ MODULE MCSystem ------------------------------
(***************************************************************************)
(* The parts of the server, of the portal and of the global router that have *)
(* a module and no fairness, each by itself: `focus' says which one moves.    *)
(* They share no variable, so nothing is lost by not interleaving them.       *)
(***************************************************************************)
EXTENDS EvalEngine, Signup, Codes, Sessions, Team, Gates, FixedWindow,
        GlobalRouter, Billing, Resources, OrgSettings, FlagVersions, Janitor,
        GitProviders, RemoteListing, Cleanup, CodeAnalysis, Sandboxes,
        OpsStaff, Clusters, Deployments, ClusterConfig, OpsAccess, DNSZone,
        Migrations, ServerProcess, StatusPage, Mail, TLC

VARIABLE focus

vars == <<focus,
          engineVars, signupVars, codeVars, loginVars,
          teamVars, gateVars, fixedVars, routerVars,
          billVars, resourceVars, settingsVars, versionVars,
          janitorVars, gitVars, listVars, cleanupVars,
          analysisVars, sandboxVars, staffVars, clusterVars,
          deployVars, configVars, accessVars, dnsVars,
          migrationVars, serverVars, statusVars, mailVars>>

-----------------------------------------------------------------------------
(* Values for the constants.                                                *)

\* Three flags, in the order of their keys.
MCFlagKeys == <<"a", "b", "c">>

\* A rule: what its conditions say of the user, match type, priority, percentage,
\* value.  One rule; two of which the later has the better priority; a partial one.
Rule(c, m, p, q, v) == [conds |-> c, match |-> m, priority |-> p, percentage |-> q, value |-> v]
MCRuleLists == {<<>>,
                <<Rule(<<TRUE, FALSE>>, "any", 2, 2, "off"), Rule(<<TRUE>>, "all", 1, 2, "on")>>,
                <<Rule(<<TRUE, FALSE>>, "all", 1, 2, "on"), Rule(<<>>, "", 2, 1, "off")>>}
\* No variants, two of one bucket each, and one that nobody gets.
MCVariantLists == {<<>>, <<1, 1>>, <<0, 1, 2>>}

\* Policies: everything forbidden, one provider by default, a list of providers, one
\* region, one's own machines.
LLMPolicy(m, d, al, rs) == [mode |-> m, default |-> d, allowed |-> al, regions |-> rs]
MCPolicies == {LLMPolicy("disabled", 0, <<>>, {}), LLMPolicy("approved", 1, <<2>>, {"eu"}),
               LLMPolicy("byo", 1, <<1, 2>>, {"us", "eu"}), LLMPolicy("strict", 2, <<2>>, {"us"})}
MCLLMRows == {[name |-> n, region |-> g, selfHosted |-> n = "deepseek"] :
                n \in {"openai", "deepseek"}, g \in {"eu", "us"}}
MCRuleRows == {[pattern |-> "custom", enabled |-> TRUE, valid |-> v] : v \in BOOLEAN}

\* A default value of a flag of strings, which a Go string reads as its text, and one of
\* another type, which it does not read; a text of digits is, as JSON, a number.
MCReads == [text \in {"word", "digits"} |-> IF text = "digits" THEN "number" ELSE "none"]

\* Requests that come in twos are the same two in every part.
Interchangeable == Permutations(SignupReqs)

-----------------------------------------------------------------------------
\* Where a part may start in several ways, the others stay with the first.
Pinned ==
    /\ focus # "engine" => bucket = [f \in EngineFlags |-> 0]
    /\ focus # "rate limits" => planLimit = 1
    /\ focus # "git" => gitHost = "github"
    /\ focus # "listing" => listHost = "github" /\ listKind = "files" /\ remote = <<1>>
    /\ focus # "gates" => deployment = "cloud" /\ licenseKey = "none" /\ memberRole = "admin"
    /\ gatePlan = "pro"  \* the gates rank a trial as they rank Pro
    /\ focus # "dns" => clusterIPs = [c \in DNSClusters |-> "a"]
    /\ focus # "settings" => settingKind = "role"
    /\ flagConfig \in [rest : {"x"},   \* the one content is as good as the other
                      default : IF focus = "versions" THEN Values ELSE {"number"}]
    /\ focus # "mail" => provider = "none" /\ preference = [consent |-> TRUE, level |-> "all"]

Init ==
    /\ focus \in {"engine", "signup", "codes", "sessions", "team", "gates",
                 "rate limits", "router", "billing", "resources", "settings",
                 "versions", "janitor", "git", "listing", "cleanup", "analysis",
                 "sandboxes", "staff", "clusters", "deployments", "config",
                 "access", "dns", "migrations", "process", "status", "mail"}
    /\ Pinned
    /\ EngineInit /\ SignupInit /\ CodesInit /\ SessionsInit /\ TeamInit
    /\ GatesInit /\ FixedWindowInit /\ GlobalRouterInit /\ BillingInit /\ ResourcesInit
    /\ OrgSettingsInit /\ FlagVersionsInit /\ JanitorInit /\ GitProvidersInit /\ RemoteListingInit
    /\ CleanupInit /\ CodeAnalysisInit /\ SandboxesInit /\ OpsStaffInit /\ ClustersInit
    /\ DeploymentsInit /\ ClusterConfigInit /\ OpsAccessInit /\ DNSZoneInit /\ MigrationsInit
    /\ ServerProcessInit /\ StatusPageInit /\ MailInit

\* The parts with the most steps come last: TLC lists what stays once for all of them.
Next ==
    /\ UNCHANGED focus
    /\ IF focus = "engine" THEN EngineNext ELSE UNCHANGED engineVars
    /\ IF focus = "codes" THEN CodesNext ELSE UNCHANGED codeVars
    /\ IF focus = "rate limits" THEN FixedWindowNext ELSE UNCHANGED fixedVars
    /\ IF focus = "router" THEN GlobalRouterNext ELSE UNCHANGED routerVars
    /\ IF focus = "settings" THEN OrgSettingsNext ELSE UNCHANGED settingsVars
    /\ IF focus = "versions" THEN FlagVersionsNext ELSE UNCHANGED versionVars
    /\ IF focus = "listing" THEN RemoteListingNext ELSE UNCHANGED listVars
    /\ IF focus = "cleanup" THEN CleanupNext ELSE UNCHANGED cleanupVars
    /\ IF focus = "sandboxes" THEN SandboxesNext ELSE UNCHANGED sandboxVars
    /\ IF focus = "staff" THEN OpsStaffNext ELSE UNCHANGED staffVars
    /\ IF focus = "clusters" THEN ClustersNext ELSE UNCHANGED clusterVars
    /\ IF focus = "config" THEN ClusterConfigNext ELSE UNCHANGED configVars
    /\ IF focus = "access" THEN OpsAccessNext ELSE UNCHANGED accessVars
    /\ IF focus = "dns" THEN DNSZoneNext ELSE UNCHANGED dnsVars
    /\ IF focus = "migrations" THEN MigrationsNext ELSE UNCHANGED migrationVars
    /\ IF focus = "process" THEN ServerProcessNext ELSE UNCHANGED serverVars
    /\ IF focus = "status" THEN StatusPageNext ELSE UNCHANGED statusVars
    /\ IF focus = "mail" THEN MailNext ELSE UNCHANGED mailVars
    /\ IF focus = "analysis" THEN CodeAnalysisNext ELSE UNCHANGED analysisVars
    /\ IF focus = "sessions" THEN SessionsNext ELSE UNCHANGED loginVars
    /\ IF focus = "deployments" THEN DeploymentsNext ELSE UNCHANGED deployVars
    /\ IF focus = "signup" THEN SignupNext ELSE UNCHANGED signupVars
    /\ IF focus = "resources" THEN ResourcesNext ELSE UNCHANGED resourceVars
    /\ IF focus = "janitor" THEN JanitorNext ELSE UNCHANGED janitorVars
    /\ IF focus = "gates" THEN GatesNext ELSE UNCHANGED gateVars
    /\ IF focus = "git" THEN GitProvidersNext ELSE UNCHANGED gitVars
    /\ IF focus = "team" THEN TeamNext ELSE UNCHANGED teamVars
    /\ IF focus = "billing" THEN BillingNext ELSE UNCHANGED billVars

Spec == Init /\ [][Next]_vars

-----------------------------------------------------------------------------
(* What is checked, of the part that moves: the others are as they began.     *)

\* The part that moves keeps its types: rows, queues and counters within their
\* ranges, requests at the steps their handlers have.
TypeOK ==
    /\ focus = "engine" => EngineTypeOK
    /\ focus = "signup" => SignupTypeOK
    /\ focus = "codes" => CodesTypeOK
    /\ focus = "sessions" => SessionsTypeOK
    /\ focus = "team" => TeamTypeOK
    /\ focus = "gates" => GatesTypeOK
    /\ focus = "rate limits" => FixedWindowTypeOK
    /\ focus = "router" => GlobalRouterTypeOK
    /\ focus = "billing" => BillingTypeOK
    /\ focus = "resources" => ResourcesTypeOK
    /\ focus = "settings" => OrgSettingsTypeOK
    /\ focus = "versions" => FlagVersionsTypeOK
    /\ focus = "janitor" => JanitorTypeOK
    /\ focus = "git" => GitProvidersTypeOK
    /\ focus = "listing" => RemoteListingTypeOK
    /\ focus = "cleanup" => CleanupTypeOK
    /\ focus = "analysis" => CodeAnalysisTypeOK
    /\ focus = "sandboxes" => SandboxesTypeOK
    /\ focus = "staff" => OpsStaffTypeOK
    /\ focus = "clusters" => ClustersTypeOK
    /\ focus = "deployments" => DeploymentsTypeOK
    /\ focus = "config" => ClusterConfigTypeOK
    /\ focus = "access" => OpsAccessTypeOK
    /\ focus = "dns" => DNSZoneTypeOK
    /\ focus = "migrations" => MigrationsTypeOK
    /\ focus = "process" => ServerProcessTypeOK
    /\ focus = "status" => StatusPageTypeOK
    /\ focus = "mail" => MailTypeOK

\* Signing up twice at once makes one account, and the attempts at a code are bounded
\* (signup.go).
SignupSound == focus = "signup" => OneAccount /\ GuessesBounded

\* The lock-out counts the failed logins but for those in flight; a session that was
\* logged out stays so; a login through the identity provider fails for a member only as
\* described (auth.go, scheduler.go, sso_auth.go).
LoginSound == [](LockoutBound /\ LoggedOutRefused) /\ SSOFailsOnlyAsMember

\* However the gateway's events come, each is applied a bounded number of times, and
\* the plan they settle on is the subscription's (billing.go).
BillingSound == focus = "billing" => EventsAppliedBound /\ SettledPlan

\* Both limiters bound what they admit in every window (ratelimit.go of the server and
\* of the global router).
RateBounds ==
    /\ focus = "rate limits" => FixedWindowBound
    /\ focus = "router" => SlidingWindowBound

\* The janitor: who follows a scan learns its end, the cleaned code is the code without
\* the flag's dead branches, a listing is what the host had, and code goes only to a
\* provider the policy allows.
JanitorSound ==
    /\ focus = "janitor" => FollowersLearnEnd
    /\ focus = "cleanup" => CleanCodeSound
    /\ focus = "listing" => ListingSound
    /\ focus = "analysis" => LLMUseAllowed

\* What changed is recorded: in the audit log (but for what its races leave out) and in
\* the flag's versions, of which a rollback restores one.
RecordsFaithful ==
    /\ focus = "resources" => AuditAccounts
    /\ focus = "versions" => HistoryFaithful

\* The portal: a deployment's version, a configuration edit, a user's role and token and
\* a server that is paid for are each still accounted for when requests overlap.
PortalWritesKept ==
    /\ focus = "deployments" => VersionRecorded
    /\ focus = "config" => ConfigEditsKept
    /\ focus = "access" => RolesAndTokensKept
    /\ focus = "clusters" => ServersAccounted

\* Sandboxes are claimed once or cleaned up; a staff session is exchanged once, and
\* opens for active staff only.
AccountsSound == [](SandboxesAccounted /\ ExchangedOnce) /\ OpensForActive

\* The process: migrations are applied in order and once, a shutdown takes resources
\* away after their users, the status page reports what was measured, and a mail is
\* sent or accounted for.
ProcessSound ==
    /\ focus = "migrations" => MigrationsSound
    /\ focus = "process" => ShutdownOrdered
    /\ focus = "status" => StatusTruthful
    /\ focus = "mail" => MailAccounted

=============================================================================
