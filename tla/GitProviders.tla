---------------------------- MODULE GitProviders ----------------------------
(***************************************************************************)
(* The Git providers of the AI janitor (internal/janitor/github, gitlab,     *)
(* bitbucket): the operations of janitor.GitProvider that change a           *)
(* repository, called concurrently for branches of one repository.  A call   *)
(* of the host's API is one step, and it may fail, with or without its       *)
(* effect.  GitHub's CommitFiles reads the head, builds a commit on it and   *)
(* moves the branch to it; the other two send one request.  A branch is the  *)
(* sequence of the commits made on it since it left the default branch.      *)
(***************************************************************************)
EXTENDS Naturals, Sequences, FiniteSets, SequencesExt

CONSTANTS
    GitHosts,     \* "github", "gitlab", "bitbucket"
    GitBranches,  \* branch names
    GitCalls,     \* calls in flight
    MaxCommits,   \* bound: commits made
    MaxGitFaults  \* bound: API calls that report an error

ASSUME GitProvidersAssumption ==
    /\ GitHosts \subseteq {"github", "gitlab", "bitbucket"}
    /\ IsFiniteSet(GitBranches) /\ GitBranches # {} /\ IsFiniteSet(GitCalls)
    /\ MaxCommits \in Nat /\ MaxGitFaults \in Nat

VARIABLES
    gitHost,      \* the host of the repository
    gitBranch,    \* gitBranch[b]: commits of the branch, or Absent
    gitPRs,       \* branches with an open pull request
    gitCall,      \* gitCall[c]: the operation, where it is and what it has read
    gitCommits,   \* commits made
    gitFaults

gitVars == <<gitHost, gitBranch, gitPRs, gitCall, gitCommits, gitFaults>>

Absent == <<0>>                        \* no branch: commits are numbered from 1
IdleCall == [op |-> "none", pc |-> "ok", branch |-> CHOOSE b \in GitBranches : TRUE, head |-> <<>>]
GitOps == {"createBranch", "deleteBranch", "commit", "createPR", "updatePR", "mergePR"}

GitProvidersTypeOK ==
    /\ gitHost \in GitHosts
    /\ gitBranch \in [GitBranches -> Seq(1..MaxCommits) \union {Absent}]
    /\ gitPRs \subseteq GitBranches
    /\ gitCall \in [GitCalls -> [op : GitOps \union {"none"}, branch : GitBranches,
          pc : {"ok", "error", "start", "exists", "branch", "commit", "update", "pr"},
          head : Seq(1..MaxCommits)]]
    /\ gitCommits \in 0..MaxCommits
    /\ gitFaults \in 0..MaxGitFaults

GitProvidersInit ==
    /\ gitHost \in GitHosts
    /\ gitBranch = [b \in GitBranches |-> Absent] /\ gitPRs = {}
    /\ gitCall = [c \in GitCalls |-> IdleCall] /\ gitCommits = 0 /\ gitFaults = 0

Call(c, pc) == gitCall' = [gitCall EXCEPT ![c].pc = pc]
InCall(c, pc) == gitCall[c].pc = pc /\ UNCHANGED gitHost
Branch(c) == gitBranch[gitCall[c].branch]
SetBranch(c, commits) == gitBranch' = [gitBranch EXCEPT ![gitCall[c].branch] = commits]

\* What follows CommitFiles: CreatePullRequest opens the request.
AfterCommit(c) == IF gitCall[c].op = "createPR" THEN "pr" ELSE "ok"

StartCall(c) ==
    /\ gitCall[c].pc \in {"ok", "error"}
    /\ \E op \in GitOps, b \in GitBranches :
          gitCall' = [gitCall EXCEPT ![c] =
             [op |-> op, branch |-> b, head |-> <<>>,
              pc |-> CASE op \in {"commit", "createPR"} -> IF gitHost = "gitlab" THEN "commit" ELSE "exists"
                       [] OTHER -> "start"]]
    /\ UNCHANGED <<gitHost, gitBranch, gitPRs, gitCommits, gitFaults>>

\* An API call that fails: the operation returns the error.  When only the answer
\* is lost the request has been carried out: the "error" of the steps below.
APIFails(c) ==
    /\ gitCall[c].pc \notin {"ok", "error"}
    /\ gitFaults < MaxGitFaults /\ gitFaults' = gitFaults + 1
    /\ Call(c, "error")
    /\ UNCHANGED <<gitHost, gitBranch, gitPRs, gitCommits>>

\* CreateBranch: the base's head, then the ref; a branch that exists is an error.
CreateBranch(c) ==
    /\ InCall(c, "start") /\ gitCall[c].op = "createBranch"
    /\ \/ Branch(c) = Absent /\ SetBranch(c, <<>>) /\ (Call(c, "ok") \/ Call(c, "error"))
       \/ Branch(c) # Absent /\ Call(c, "error") /\ UNCHANGED gitBranch
    /\ UNCHANGED <<gitPRs, gitCommits, gitFaults>>

\* The host closes the requests of a branch that is gone.
DeleteBranch(c) ==
    /\ InCall(c, "start") /\ gitCall[c].op = "deleteBranch"
    /\ \/ /\ Branch(c) # Absent /\ SetBranch(c, Absent)
          /\ gitPRs' = gitPRs \ {gitCall[c].branch}
          /\ (Call(c, "ok") \/ Call(c, "error"))
       \/ Branch(c) = Absent /\ Call(c, "error") /\ UNCHANGED <<gitBranch, gitPRs>>
    /\ UNCHANGED <<gitCommits, gitFaults>>

\* BranchExists, and the head GitHub's commit will be built on (a branch that goes
\* between the two is an error, as in APIFails).
BranchExists(c) ==
    /\ InCall(c, "exists")
    /\ \/ Branch(c) = Absent /\ Call(c, "branch")
       \/ /\ Branch(c) # Absent
          /\ gitCall' = [gitCall EXCEPT ![c].pc = "commit", ![c].head = Branch(c)]
    /\ UNCHANGED <<gitBranch, gitPRs, gitCommits, gitFaults>>

\* CommitFiles makes the branch.  On GitHub the commit built then has no parent:
\* parentSHA stays empty, and the host refuses to move the branch to it.
MakeBranch(c) ==
    /\ InCall(c, "branch")
    /\ \/ /\ Branch(c) = Absent /\ SetBranch(c, <<>>)
          /\ Call(c, IF gitHost = "github" THEN "error" ELSE "commit")
       \/ Branch(c) # Absent /\ Call(c, "error") /\ UNCHANGED gitBranch
    /\ UNCHANGED <<gitPRs, gitCommits, gitFaults>>

\* The commit.  GitHub: blobs, tree and commit objects, seen by nobody yet.
BuildCommit(c) ==
    /\ InCall(c, "commit")
    /\ gitCommits < MaxCommits /\ gitCommits' = gitCommits + 1
    /\ gitCall' = [gitCall EXCEPT ![c].pc = "update", ![c].head = Append(@, gitCommits')]
    /\ UNCHANGED <<gitBranch, gitPRs, gitFaults>>

\* Mutant: force-push.
ForceRef(c) ==
    /\ InCall(c, "update")
    /\ \/ Branch(c) # Absent /\ SetBranch(c, gitCall[c].head) /\ Call(c, AfterCommit(c))
       \/ Branch(c) = Absent /\ UNCHANGED gitBranch /\ Call(c, "error")
    /\ UNCHANGED <<gitPRs, gitCommits, gitFaults>>

\* Git.UpdateRef without force: the head must be the new commit's parent.
UpdateRef(c) ==
    /\ InCall(c, "update")
    /\ LET head == gitCall[c].head
       IN  \/ /\ Branch(c) = Front(head) /\ SetBranch(c, head)
              /\ (Call(c, AfterCommit(c)) \/ Call(c, "error"))
           \/ Branch(c) # Front(head) /\ UNCHANGED gitBranch /\ Call(c, "error")
    /\ UNCHANGED <<gitPRs, gitCommits, gitFaults>>

\* GitLab (which makes the branch too: start_branch) and Bitbucket: one request.
CommitFiles(c) ==
    /\ InCall(c, "commit")
    /\ \/ /\ gitHost = "gitlab" \/ Branch(c) # Absent
          /\ gitCommits < MaxCommits /\ gitCommits' = gitCommits + 1
          /\ SetBranch(c, IF Branch(c) = Absent THEN <<gitCommits'>> ELSE Append(Branch(c), gitCommits'))
          /\ (Call(c, AfterCommit(c)) \/ Call(c, "error"))
       \/ /\ gitHost = "bitbucket" /\ Branch(c) = Absent
          /\ Call(c, "error") /\ UNCHANGED <<gitBranch, gitCommits>>
    /\ UNCHANGED <<gitPRs, gitFaults>>

\* The host refuses a second request, or one for a branch that is gone or empty.
CreatePullRequest(c) ==
    /\ InCall(c, "pr")
    /\ LET b == gitCall[c].branch
       IN  \/ /\ b \notin gitPRs /\ Branch(c) \notin {Absent, <<>>}
              /\ gitPRs' = gitPRs \union {b} /\ (Call(c, "ok") \/ Call(c, "error"))
           \/ /\ b \in gitPRs \/ Branch(c) \in {Absent, <<>>}
              /\ Call(c, "error") /\ UNCHANGED gitPRs
    /\ UNCHANGED <<gitBranch, gitCommits, gitFaults>>

\* UpdatePullRequest: the request's branch, then CommitFiles.
UpdatePullRequest(c) ==
    /\ InCall(c, "start") /\ gitCall[c].op = "updatePR"
    /\ Call(c, IF gitCall[c].branch \notin gitPRs THEN "error"
               ELSE IF gitHost = "gitlab" THEN "commit" ELSE "exists")
    /\ UNCHANGED <<gitBranch, gitPRs, gitCommits, gitFaults>>

MergePullRequest(c) ==
    /\ InCall(c, "start") /\ gitCall[c].op = "mergePR"
    /\ \/ /\ gitCall[c].branch \in gitPRs /\ gitPRs' = gitPRs \ {gitCall[c].branch}
          /\ (Call(c, "ok") \/ Call(c, "error"))
       \/ gitCall[c].branch \notin gitPRs /\ Call(c, "error") /\ UNCHANGED gitPRs
    /\ UNCHANGED <<gitBranch, gitCommits, gitFaults>>

\* What every provider does alike, and how each one commits.
GitStep(c) ==
    \/ StartCall(c) \/ APIFails(c) \/ CreateBranch(c) \/ DeleteBranch(c)
    \/ CreatePullRequest(c) \/ UpdatePullRequest(c) \/ MergePullRequest(c)

GitHubStep(c) ==
    gitHost = "github" /\ (GitStep(c) \/ BranchExists(c) \/ MakeBranch(c) \/ BuildCommit(c) \/ UpdateRef(c))
GitLabStep(c) == gitHost = "gitlab" /\ (GitStep(c) \/ CommitFiles(c))
BitbucketStep(c) ==
    gitHost = "bitbucket" /\ (GitStep(c) \/ BranchExists(c) \/ MakeBranch(c) \/ CommitFiles(c))

GitProvidersNext == \E c \in GitCalls : GitHubStep(c) \/ GitLabStep(c) \/ BitbucketStep(c)

GitProvidersSpec == GitProvidersInit /\ [][GitProvidersNext]_gitVars

-----------------------------------------------------------------------------
\* A commit is only ever lost with its branch, whatever calls overlap: GitHub's
\* commit, built on a head that was read three requests earlier, never replaces
\* the one that got in between.
NoCommitLost ==
    [][\A b \in GitBranches :
          \/ gitBranch[b] = Absent \/ gitBranch'[b] = Absent
          \/ IsPrefix(gitBranch[b], gitBranch'[b])]_gitBranch

\* The inductive invariant: a commit about to be put on a branch is the last of its line.
GitProvidersInv ==
    /\ GitProvidersTypeOK
    /\ \A c \in GitCalls : gitCall[c].pc = "update" => gitCall[c].head # <<>>
=============================================================================
