---------------------------- MODULE CodeAnalysis ----------------------------
(***************************************************************************)
(* Which language model may read an organization's code                      *)
(* (internal/janitor/codeanalysis): the policy and the approved providers in  *)
(* the compliance store, the selector that reads them, the wrapper that       *)
(* redacts, calls and records.  The calls that use the library are external:  *)
(* each selects a provider and makes one call through the wrapper.            *)
(*                                                                         *)
(* Of the prompt and the answer only their form is kept: JSON as asked for,   *)
(* other text, or an error of the call.                                       *)
(***************************************************************************)
EXTENDS Naturals, Sequences, FiniteSets

CONSTANTS
    Analyses,          \* calls
    Policies,          \* the policies an administrator may store
    LLMRows,           \* the providers an administrator may approve
    RuleRows,          \* the redaction rules an administrator may store
    MaxLLMs,           \* bound: rows of approved_llm_providers
    MaxPolicyEdits,    \* bound: policies stored and providers deleted
    MaxAnalysisFaults  \* bound: statements that fail

ASSUME CodeAnalysisAssumption ==
    /\ IsFiniteSet(Analyses) /\ MaxLLMs \in Nat /\ MaxPolicyEdits \in Nat /\ MaxAnalysisFaults \in Nat
    /\ \A p \in Policies : p.default \in 0..MaxLLMs /\ p.allowed \in Seq(1..MaxLLMs)

VARIABLES
    policy,     \* the organization's row of llm_compliance_policies
    llmRow,     \* approved_llm_providers by id: NoLLM before it is made and after it is deleted
    llmCount,   \* rows made
    ruleRows,   \* redaction_rules
    analysis,   \* analysis[a]: the call's stage and what it holds
    llmSent,    \* history: calls that went out, with what they took along
    llmRecorded, llmUnrecorded,  \* history: calls recorded, calls whose record failed
    policyEdits, analysisFaults

analysisVars == <<policy, llmRow, llmCount, ruleRows, analysis, llmSent, llmRecorded, llmUnrecorded,
                  policyEdits, analysisFaults>>

LLMIds == 1..MaxLLMs
NoLLM == [name |-> "none", region |-> "none", selfHosted |-> FALSE]

\* The policy of an organization that has none, or whose policy could not be read: approved
\* mode, but no provider is approved.
DefaultPolicy == [mode |-> "approved", default |-> 0, allowed |-> <<>>, regions |-> {"us", "eu"}]
NoAnalysis == [pc |-> "idle", policy |-> DefaultPolicy, todo |-> {}, llm |-> 0, patterns |-> {},
               overtaken |-> FALSE, op |-> "analyze", result |-> "none", name |-> "none"]

\* SupportsSelfHosted of the providers that are registered.
Capabilities == [n \in {"deepseek", "openai-compatible", "openai", "azure-openai"} |->
                    n \in {"deepseek", "openai-compatible"}]

Operations == {"analyze", "generate_pr", "validate"}
Answers == {"json", "text", "error"}

CodeAnalysisTypeOK ==
    /\ policy \in Policies \cup {DefaultPolicy}
    /\ llmRow \in [LLMIds -> LLMRows \cup {NoLLM}] /\ llmCount \in 0..MaxLLMs
    /\ ruleRows \subseteq RuleRows
    /\ \A a \in Analyses :
          /\ analysis[a].pc \in {"idle", "resolve", "send", "record", "regex", "done"}
          /\ analysis[a].llm \in 0..MaxLLMs /\ analysis[a].policy \in Policies \cup {DefaultPolicy}
    /\ llmRecorded \subseteq [call : Analyses, status : {200, 500}] /\ llmUnrecorded \subseteq Analyses
    /\ policyEdits \in 0..MaxPolicyEdits /\ analysisFaults \in 0..MaxAnalysisFaults

CodeAnalysisInit ==
    /\ policy = DefaultPolicy /\ llmRow = [i \in LLMIds |-> NoLLM] /\ llmCount = 0 /\ ruleRows = {}
    /\ analysis = [a \in Analyses |-> NoAnalysis]
    /\ llmSent = {} /\ llmRecorded = {} /\ llmUnrecorded = {}
    /\ policyEdits = 0 /\ analysisFaults = 0

AnalysisFault == analysisFaults < MaxAnalysisFaults /\ analysisFaults' = analysisFaults + 1
llmHistory == <<llmSent, llmRecorded, llmUnrecorded>>

-----------------------------------------------------------------------------
(* The administrator. *)
\* What calls in flight have read is not what is stored any more.
Overtake == analysis' = [a \in Analyses |-> [analysis[a] EXCEPT
                !.overtaken = @ \/ analysis[a].pc \in {"resolve", "send"}]]
PolicyEdit == policyEdits < MaxPolicyEdits /\ policyEdits' = policyEdits + 1

UpsertCompliancePolicy(p) ==
    /\ PolicyEdit /\ policy' = p /\ Overtake
    /\ UNCHANGED <<llmRow, llmCount, ruleRows, llmHistory, analysisFaults>>

\* The statement gives no id, so it never meets a conflict: it always makes a row.
UpsertApprovedProvider(r) ==
    /\ llmCount < MaxLLMs /\ llmCount' = llmCount + 1
    /\ llmRow' = [llmRow EXCEPT ![llmCount'] = r]
    /\ UNCHANGED <<policy, ruleRows, analysis, llmHistory, policyEdits, analysisFaults>>

DeleteApprovedProvider(i) ==
    /\ llmRow[i] # NoLLM /\ PolicyEdit
    /\ llmRow' = [llmRow EXCEPT ![i] = NoLLM] /\ Overtake
    /\ UNCHANGED <<policy, llmCount, ruleRows, llmHistory, analysisFaults>>

\* A rule, too, is only ever added or deleted: nothing is disabled by storing it again.
UpsertRedactionRule(r) ==
    /\ PolicyEdit /\ ruleRows' = ruleRows \cup {r} /\ Overtake
    /\ UNCHANGED <<policy, llmRow, llmCount, llmHistory, analysisFaults>>

DeleteRedactionRule(r) ==
    /\ r \in ruleRows /\ PolicyEdit /\ ruleRows' = ruleRows \ {r} /\ Overtake
    /\ UNCHANGED <<policy, llmRow, llmCount, llmHistory, analysisFaults>>

-----------------------------------------------------------------------------
(* SelectProvider. *)
\* The providers to try are named by their places in the policy's list, 0 for the default,
\* which is tried first and not again.
selectApproved(p) ==
    {n \in {0} \cup DOMAIN p.allowed : IF n = 0 THEN p.default # 0 ELSE p.allowed[n] # p.default}
selectBYO(p) == DOMAIN p.allowed
ProviderAt(p, n) == IF n = 0 THEN p.default ELSE p.allowed[n]

\* Strict is approved, with a warning.
Candidates(p) ==
    CASE p.mode \in {"approved", "strict"} -> selectApproved(p) [] p.mode = "byo" -> selectBYO(p)
      [] OTHER -> {}

\* The built-in patterns and those of the rules that are enabled and compile.
NewCodeRedactorWithRules == {"built-in"} \cup {r.pattern : r \in {x \in ruleRows : x.enabled /\ x.valid}}

\* The policy is read, and the rules for the wrapper's redactor.
SelectProvider(a, op) ==
    /\ analysis[a].pc = "idle"
    /\ \E p \in {policy, DefaultPolicy} :
          /\ IF p = policy THEN UNCHANGED analysisFaults ELSE AnalysisFault
          /\ analysis' = [analysis EXCEPT ![a] =
                [NoAnalysis EXCEPT !.pc = "resolve", !.policy = p, !.todo = Candidates(p),
                                   !.patterns = NewCodeRedactorWithRules, !.op = op]]
    /\ UNCHANGED <<policy, llmRow, llmCount, ruleRows, llmHistory, policyEdits>>

\* Mutant: the region is not compared.
resolveAnyRegion(p, r) ==
    /\ p.mode = "byo" => r.selfHosted
    /\ r.name \in DOMAIN Capabilities /\ (r.selfHosted => Capabilities[r.name])

\* The row's region is allowed, its provider is registered, and self-hosted if it says so
\* (in BYO mode it must).
resolveProviderWithInfo(p, r) ==
    /\ p.mode = "byo" => r.selfHosted
    /\ r.region \in p.regions
    /\ r.name \in DOMAIN Capabilities /\ (r.selfHosted => Capabilities[r.name])

\* The next candidate's row is read: it is taken, or passed over, also when it is gone or
\* cannot be read.
resolveProvider(a) ==
    /\ analysis[a].pc = "resolve"
    /\ \E n \in analysis[a].todo :
       LET q == analysis[a]
           i == ProviderAt(q.policy, n)
           fits == llmRow[i] # NoLLM /\ resolveProviderWithInfo(q.policy, llmRow[i])
       IN  /\ \A m \in q.todo : n <= m
           /\ \/ /\ fits /\ UNCHANGED analysisFaults
                 /\ analysis' = [analysis EXCEPT ![a] =
                       [q EXCEPT !.pc = "send", !.llm = i, !.name = llmRow[i].name]]
              \/ /\ IF fits THEN AnalysisFault ELSE UNCHANGED analysisFaults
                 /\ analysis' = [analysis EXCEPT ![a] = [q EXCEPT !.todo = @ \ {n}]]
    /\ UNCHANGED <<policy, llmRow, llmCount, ruleRows, llmHistory, policyEdits>>

-----------------------------------------------------------------------------
(* What the caller is returned for what the model answers. *)
\* deepseek keeps the cleaned snippets, openai drops them; what is not JSON is an error.
DeepSeekAnalyze(answer) == IF answer = "json" THEN "result with code" ELSE "error"
OpenAIAnalyze(answer) == IF answer = "json" THEN "result" ELSE "error"

\* A description that is not JSON is taken as it is.
GeneratePRDescription(answer) ==
    CASE answer = "json" -> "result" [] answer = "text" -> "raw text" [] OTHER -> "error"

ValidateCleanup(answer) == IF answer = "json" THEN "result" ELSE "error"

ProviderResult(name, op, answer) ==
    CASE op = "analyze" -> IF name = "deepseek" THEN DeepSeekAnalyze(answer) ELSE OpenAIAnalyze(answer)
      [] op = "generate_pr" -> GeneratePRDescription(answer)
      [] op = "validate" -> ValidateCleanup(answer)

\* The regular expressions never fail; they call every cleanup valid.
RegexResult(op) == IF op = "analyze" THEN "result with code" ELSE "result"

\* No candidate is left: the regular expressions, which send nothing.
RegexFallback(a) ==
    /\ analysis[a].pc = "resolve" /\ analysis[a].todo = {}
    /\ analysis' = [analysis EXCEPT ![a].pc = "regex", ![a].result = RegexResult(analysis[a].op)]
    /\ UNCHANGED <<policy, llmRow, llmCount, ruleRows, llmHistory, policyEdits, analysisFaults>>

-----------------------------------------------------------------------------
(* The wrapper. *)
\* The secrets in a file, each of the kind that one pattern is for.
Secrets == {"built-in"} \cup {r.pattern : r \in RuleRows}

RedactContent(patterns) == Secrets \ patterns

\* The files are redacted, the provider called: an answer, an error or an answer that
\* cannot be read.
callLLM(a, answer) ==
    /\ analysis[a].pc = "send"
    /\ llmSent' = llmSent \cup {[call |-> a, secrets |-> RedactContent(analysis[a].patterns)]}
    /\ analysis' = [analysis EXCEPT ![a].pc = "record",
          ![a].result = ProviderResult(analysis[a].name, analysis[a].op, answer)]
    /\ UNCHANGED <<policy, llmRow, llmCount, ruleRows, llmRecorded, llmUnrecorded, policyEdits, analysisFaults>>

\* RecordLLMInteraction; its failure is logged and the answer returned all the same.
RecordLLMInteraction(a) ==
    /\ analysis[a].pc = "record" /\ analysis' = [analysis EXCEPT ![a].pc = "done"]
    /\ \/ llmRecorded' = llmRecorded \cup {[call |-> a, status |-> IF analysis[a].result = "error" THEN 500 ELSE 200]}
          /\ UNCHANGED <<llmUnrecorded, analysisFaults>>
       \/ AnalysisFault /\ llmUnrecorded' = llmUnrecorded \cup {a} /\ UNCHANGED llmRecorded
    /\ UNCHANGED <<policy, llmRow, llmCount, ruleRows, llmSent, policyEdits>>

CodeAnalysisNext ==
    \/ \E p \in Policies : UpsertCompliancePolicy(p)
    \/ \E r \in LLMRows : UpsertApprovedProvider(r)
    \/ \E i \in LLMIds : DeleteApprovedProvider(i)
    \/ \E r \in RuleRows : UpsertRedactionRule(r) \/ DeleteRedactionRule(r)
    \/ \E a \in Analyses :
          \/ \E op \in Operations : SelectProvider(a, op)
          \/ resolveProvider(a) \/ RegexFallback(a) \/ (\E answer \in Answers : callLLM(a, answer)) \/ RecordLLMInteraction(a)

CodeAnalysisSpec == CodeAnalysisInit /\ [][CodeAnalysisNext]_analysisVars

-----------------------------------------------------------------------------
\* What a policy says of a provider.
Permits(p, i, r) ==
    /\ p.mode # "disabled" /\ r.region \in p.regions
    /\ \/ \E n \in DOMAIN p.allowed : p.allowed[n] = i
       \/ p.mode # "byo" /\ p.default = i
    /\ p.mode = "byo" => r.selfHosted

\* Code is sent only to a provider that the policy stored at that moment permits, and
\* without what the rules stored at that moment mask, unless one of them was edited between
\* the selection and the call; a policy that could not be read permits no provider
\* (selector.go).  And every call that went out is in the interaction log, or its record is
\* still to come or failed, with the status the caller saw (compliance_provider.go).
LLMUseAllowed ==
    /\ \A a \in Analyses : analysis[a].pc = "send" /\ ~analysis[a].overtaken =>
          /\ Permits(policy, analysis[a].llm, llmRow[analysis[a].llm])
          /\ \A r \in ruleRows : r.enabled /\ r.valid => r.pattern \notin RedactContent(analysis[a].patterns)
    /\ \A s \in llmSent : /\ "built-in" \notin s.secrets
                          /\ \/ analysis[s.call].pc = "record"
                             \/ s.call \in llmUnrecorded \/ \E x \in llmRecorded : x.call = s.call
    /\ \A x \in llmRecorded : (x.status = 500) = (analysis[x.call].result = "error")
=============================================================================
