SPECIFICATION Spec
CONSTANTS
    FlagKeys <- MCFlagKeys
    Full = 2
    RuleLists <- MCRuleLists
    VariantLists <- MCVariantLists
    MaxPrereqs = 2
    MaxEngineEdits = 2
    SignupReqs = {r1, r2}
    OTPMax = 1
    MaxCodes = 2
    MaxGuesses = 3
    MaxSignupFaults = 1
    CodeReqs = {r1, r2}
    MaxTokens = 2
    MaxCodeFaults = 1
    LoginReqs = {r1, r2}
    MaxFailed = 2
    MaxSecrets = 2
    Jtis = {j1, j2}
    MaxLoginFaults = 1
    Emails = {e1}
    TeamReqs = {r1, r2}
    MaxUsers = 2
    MaxMembers = 2
    MaxStates = 1
    MaxTeamFaults = 1
    GateRequests = {q1}
    MaxGateChanges = 2
    MaxGateFaults = 1
    PlanLimits = {1, 2}
    FixedLength = 2
    MaxFixedTime = 6
    MaxPerTick = 3
    IPs = {ip1, ip2}
    SlideLimit = 2
    SlideLength = 1
    MaxIPs = 1
    ConnLimit = 1
    MaxSlideTime = 5
    BillReqs = {r1, r2}
    MaxStripeEvents = 2
    MaxBillFaults = 1
    Callers = {r1, r2}
    Names = {1, 2}
    PlanLimit = 2
    MaxRows = 5
    MaxMutations = 2
    MaxResourceFaults = 1
    SettingsRequests = {r1, r2}
    MaxSettingsWrites = 2
    MaxSettingsFaults = 1
    Rests = {"x", "y"}
    Values = {"word", "digits", "number"}
    Texts = {"word", "digits"}
    Reads <- MCReads
    NoJSON = "none"
    Rollbacks = {r1, r2}
    MaxVersions = 3
    Repos = {repo}
    ScanReqs = {q1}
    Followers = {q2}
    MaxScans = 2
    FlagCounts = {0, 2}
    FollowBuffer = 1
    MaxJanitorFaults = 1
    GitHosts = {"github", "gitlab", "bitbucket"}
    GitBranches = {main}
    GitCalls = {r1, r2}
    MaxCommits = 2
    MaxGitFaults = 1
    ListHosts = {"github", "gitlab", "bitbucket"}
    RemoteItems = {1, 2, 3}
    NestedItems = {2}
    PageSize = 1
    MaxRemoteChanges = 2
    MaxRemoteFaults = 1
    MaxLines = 5
    MaxNesting = 2
    MaxAwkward = 1
    Analyses = {q1}
    Policies <- MCPolicies
    LLMRows <- MCLLMRows
    RuleRows <- MCRuleRows
    MaxLLMs = 2
    MaxPolicyEdits = 2
    MaxAnalysisFaults = 1
    SandboxIds = {s1}
    Claimers = {r1, r2}
    Cleaners = {c1, c2}
    MaxSandboxFaults = 1
    Staff = {u1}
    StaffJobs = {r1, r2}
    MaxSessions = 2
    MaxStaffFaults = 1
    ClusterIds = {eu}
    ClusterJobs = {r1, r2}
    MaxServers = 2
    MaxClusterFaults = 1
    DeployClusters = {eu}
    Versions = {v1, v2}
    DeployJobs = {r1, r2}
    MaxDeployments = 2
    MaxDeployFaults = 1
    ConfigEdits = {r1, r2, r3}
    MaxConfigFaults = 1
    OpsUsers = {u1}
    OpsRoles = {"admin", "viewer"}
    AccessJobs = {r1, r2}
    MaxRefresh = 2
    MaxAccessFaults = 1
    DNSClusters = {"eu"}
    DNSOthers = {"app"}
    DNSAddresses = {"a", "b"}
    Syncs = {"s1", "s2"}
    MaxRecords = 3
    MaxDNSEdits = 1
    MaxDNSFaults = 1
    Replicas = {"p1", "p2"}
    SchemaVersions = {1, 2, 4}
    MaxBoots = 3
    MaxMigrationFaults = 1
    HttpRequests = {"q1"}
    Remotes = {"eu"}
    DayTicks = 1
    Spans = {3}
    MaxTick = 2
    MaxRounds = 2
    MaxHealthChanges = 1
    Mails = {m1}
    MaxPrefChanges = 1
INVARIANTS TypeOK MutexExclusive SignupSound CodesSingleUse GatesSound RateBounds BillingSound LimitOvershootBound RecordsFaithful SettingsEditsKept JanitorSound PortalWritesKept ProcessSound
PROPERTIES NoCommitLost AccountsSound RolloutOnlyGrows LoginSound SyncEffect
SYMMETRY Interchangeable
CHECK_DEADLOCK FALSE
