--------------------------- MODULE RemoteListing ---------------------------
(***************************************************************************)
(* What the AI janitor reads of a Git host: the repositories a token sees    *)
(* (ConnectRepository), the files of a branch and their contents (a scan),   *)
(* the open pull requests.  The host answers page by page and goes on        *)
(* changing between two requests; a request may fail, and the token may be   *)
(* revoked.  The host's list is a sequence; a new entry comes anywhere in    *)
(* it, since the hosts sort by name or by date.                              *)
(***************************************************************************)
EXTENDS Naturals, Sequences, FiniteSets, SequencesExt

CONSTANTS
    ListHosts,         \* "github", "gitlab", "bitbucket"
    RemoteItems,       \* repositories, files or requests, as numbers from 1
    NestedItems,       \* the files among them that lie in a subdirectory
    PageSize,          \* entries of a page
    MaxRemoteChanges,  \* bound: changes on the host's side
    MaxRemoteFaults    \* bound: requests that fail

ASSUME RemoteListingAssumption ==
    /\ ListHosts \subseteq {"github", "gitlab", "bitbucket"}
    /\ RemoteItems \subseteq Nat \ {0} /\ IsFiniteSet(RemoteItems) /\ \A n \in RemoteItems : 1..n \subseteq RemoteItems
    /\ NestedItems \subseteq RemoteItems /\ PageSize \in Nat \ {0}
    /\ MaxRemoteChanges \in Nat /\ MaxRemoteFaults \in Nat

VARIABLES
    listHost,       \* the host
    listKind,       \* what is listed
    listPc,         \* where the caller is
    listWant,       \* ConnectRepository: the repository asked for, or 0
    remote,         \* the host's list
    tokenGood,      \* the token has not been revoked
    listPage,       \* the page asked for next
    listed,         \* what the caller has got
    listTree,       \* GitHub's ListFiles: the tree of the commit that was the head
    treeTruncated,  \* ... and whether the host's answer was a part of it, and said so
    filesRead,      \* files whose contents were read
    listChosen,     \* the repository ConnectRepository stores, or 0
    stayed,         \* history: entries there since the listing began
    everThere,      \* history: entries there at some time of it
    remoteRemoved,  \* history: something was removed while it went on
    remoteAdded,    \* history: something was added while it went on
    remoteChanges, remoteFaults

listVars == <<listHost, listKind, listPc, listWant, remote, tokenGood, listPage, listed, listTree,
              treeTruncated, filesRead, listChosen, stayed, everThere, remoteRemoved, remoteAdded,
              remoteChanges, remoteFaults>>
listProgress == <<listPage, listed, listTree, filesRead, listChosen>>
listHistory == <<stayed, everThere, remoteRemoved, remoteAdded>>
hostSide == <<listHost, listKind, listWant, remote, tokenGood, remoteChanges>>

ListKinds == {"repositories", "files", "pulls"}
ListStages == {"new", "validate", "list", "tree", "read", "choose", "done", "error"}

RemoteListingTypeOK ==
    /\ listHost \in ListHosts /\ listKind \in ListKinds /\ listPc \in ListStages
    /\ listWant \in RemoteItems \union {0} /\ listChosen \in RemoteItems \union {0}
    /\ remote \in Seq(RemoteItems) /\ listed \in Seq(RemoteItems) /\ listTree \in Seq(RemoteItems)
    /\ tokenGood \in BOOLEAN /\ treeTruncated \in BOOLEAN
    /\ listPage \in 1..(Cardinality(RemoteItems) + MaxRemoteChanges + 2)
    /\ filesRead \subseteq RemoteItems /\ stayed \subseteq RemoteItems /\ everThere \subseteq RemoteItems
    /\ remoteRemoved \in BOOLEAN /\ remoteAdded \in BOOLEAN
    /\ remoteChanges \in 0..MaxRemoteChanges /\ remoteFaults \in 0..MaxRemoteFaults

RemoteListingInit ==
    /\ listHost \in ListHosts /\ listKind \in ListKinds
    /\ listWant \in IF listKind = "repositories" THEN RemoteItems \union {0} ELSE {0}
    /\ \E n \in RemoteItems : remote = [i \in 1..n |-> i]
    /\ listPc = "new" /\ tokenGood = TRUE
    /\ listPage = 1 /\ listed = <<>> /\ listTree = <<>> /\ treeTruncated = FALSE
    /\ filesRead = {} /\ listChosen = 0
    /\ stayed = ToSet(remote) /\ everThere = ToSet(remote)
    /\ remoteRemoved = FALSE /\ remoteAdded = FALSE /\ remoteChanges = 0 /\ remoteFaults = 0

-----------------------------------------------------------------------------
\* The host's side: entries come and go, and a token is revoked.
RemoteChange ==
    /\ remoteChanges < MaxRemoteChanges /\ remoteChanges' = remoteChanges + 1
    /\ UNCHANGED <<listHost, listKind, listPc, listWant, listProgress, treeTruncated, remoteFaults>>

RemoteAdd ==
    /\ RemoteChange
    /\ \E i \in RemoteItems \ ToSet(remote), k \in 1..(Len(remote) + 1) :
          /\ remote' = InsertAt(remote, k, i) /\ everThere' = everThere \union {i}
    /\ remoteAdded' = TRUE
    /\ UNCHANGED <<tokenGood, stayed, remoteRemoved>>

RemoteRemove ==
    /\ RemoteChange
    /\ \E k \in DOMAIN remote :
          remote' = RemoveAt(remote, k) /\ stayed' = stayed \ {remote[k]}
    /\ remoteRemoved' = TRUE
    /\ UNCHANGED <<tokenGood, everThere, remoteAdded>>

RevokeToken ==
    /\ RemoteChange
    /\ tokenGood /\ tokenGood' = FALSE
    /\ UNCHANGED <<remote, listHistory>>

-----------------------------------------------------------------------------
\* One page of the host's list, and whether there is another: NextPage of GitHub,
\* `next' of Bitbucket.
HasNext(s, n) == Len(s) > n * PageSize
PageOf(s, n) == SubSeq(s, (n - 1) * PageSize + 1, IF HasNext(s, n) THEN n * PageSize ELSE Len(s))

\* What a complete listing is for: files are read, a repository is chosen.
AfterListing ==
    CASE listKind = "files" -> "read" [] listKind = "repositories" -> "choose" [] OTHER -> "done"

\* An answered request of the listing.
AskedHost(pc) == listPc = pc /\ tokenGood /\ UNCHANGED <<hostSide, listHistory, remoteFaults>>
Answered(pc) == AskedHost(pc) /\ UNCHANGED treeTruncated

\* The factories validate the token, and so does ConnectRepository once more.
NewGitProvider ==
    /\ Answered("new")
    /\ listPc' = IF listKind = "repositories" THEN "validate" ELSE "list"
    /\ UNCHANGED listProgress

ValidateToken ==
    /\ Answered("validate")
    /\ listPc' = "list"
    /\ UNCHANGED listProgress

\* Mutant: an error ends the listing with what it has.
RequestFailsPartial ==
    /\ listPc \in {"new", "validate", "list", "tree"}
    /\ \/ remoteFaults < MaxRemoteFaults /\ remoteFaults' = remoteFaults + 1
       \/ ~tokenGood /\ UNCHANGED remoteFaults
    /\ listPc' = IF listPc = "list" THEN AfterListing ELSE "error"
    /\ UNCHANGED <<hostSide, listHistory, listPage, listed, listTree, treeTruncated, filesRead, listChosen>>

\* A request that fails, or is refused for its token: the operation returns the
\* error and nothing of what it has got.
RequestFails ==
    /\ listPc \in {"new", "validate", "list", "tree"}
    /\ \/ remoteFaults < MaxRemoteFaults /\ remoteFaults' = remoteFaults + 1
       \/ ~tokenGood /\ UNCHANGED remoteFaults
    /\ listPc' = "error" /\ listed' = <<>>
    /\ UNCHANGED <<hostSide, listHistory, listPage, listTree, treeTruncated, filesRead, listChosen>>

\* A page and the way to the next one.
NextPage(s) ==
    /\ listed' = listed \o PageOf(s, listPage)
    /\ \/ HasNext(s, listPage) /\ listPage' = listPage + 1 /\ UNCHANGED listPc
       \/ ~HasNext(s, listPage) /\ listPc' = AfterListing /\ UNCHANGED listPage
    /\ UNCHANGED <<listTree, filesRead, listChosen>>

\* GitHub: ListRepositories and ListPullRequests follow NextPage.
GitHubList ==
    /\ listHost = "github" /\ listKind # "files" /\ Answered("list")
    /\ NextPage(remote)

\* GitHub's ListFiles: the ref and its commit, then the whole tree of that commit.
GitHubGetRef ==
    /\ listHost = "github" /\ listKind = "files" /\ Answered("list")
    /\ listTree' = remote /\ listPc' = "tree"
    /\ UNCHANGED <<listPage, listed, filesRead, listChosen>>

\* A tree beyond the host's limits is answered in part, with a flag beside it that
\* nothing looks at: the part is the list.
GitHubGetTree ==
    /\ AskedHost("tree") /\ listPc' = AfterListing
    /\ \/ listed' = listTree /\ UNCHANGED treeTruncated
       \/ /\ \E n \in DOMAIN listTree : listed' = SubSeq(listTree, 1, n - 1)
          /\ treeTruncated' = TRUE
    /\ UNCHANGED <<listPage, listTree, filesRead, listChosen>>

\* GitLab's ListRepositories counts the pages up to an empty one.
GitLabListRepositories ==
    /\ listHost = "gitlab" /\ listKind = "repositories" /\ Answered("list")
    /\ listed' = listed \o PageOf(remote, listPage)
    /\ \/ PageOf(remote, listPage) # <<>> /\ listPage' = listPage + 1 /\ UNCHANGED listPc
       \/ PageOf(remote, listPage) = <<>> /\ listPc' = AfterListing /\ UNCHANGED listPage
    /\ UNCHANGED <<listTree, filesRead, listChosen>>

\* Its ListFiles and ListPullRequests ask for one page.
GitLabListOnce ==
    /\ listHost = "gitlab" /\ listKind # "repositories" /\ Answered("list")
    /\ listed' = PageOf(remote, 1) /\ listPc' = AfterListing
    /\ UNCHANGED <<listPage, listTree, filesRead, listChosen>>

\* Bitbucket: every list goes through getPaginatedResults; its `src' lists one
\* directory, whose subdirectories ListFiles skips.
TopLevel(s) ==
    LET top == {k \in DOMAIN s : s[k] \notin NestedItems}
    IN  [n \in 1..Cardinality(top) |-> s[CHOOSE k \in top : Cardinality({j \in top : j <= k}) = n]]

BitbucketList ==
    /\ listHost = "bitbucket" /\ Answered("list")
    /\ NextPage(IF listKind = "files" THEN TopLevel(remote) ELSE remote)

\* runScan reads the listed files one by one at the branch's head of the moment;
\* one that is gone, or whose request fails, is passed over.
GetFileContents ==
    /\ listPc = "read" /\ listed # <<>>
    /\ \/ tokenGood /\ Head(listed) \in ToSet(remote)
          /\ filesRead' = filesRead \union {Head(listed)} /\ UNCHANGED remoteFaults
       \/ /\ ~tokenGood \/ Head(listed) \notin ToSet(remote)
          /\ UNCHANGED <<filesRead, remoteFaults>>
       \/ /\ remoteFaults < MaxRemoteFaults /\ remoteFaults' = remoteFaults + 1
          /\ UNCHANGED filesRead
    /\ listed' = Tail(listed)
    /\ UNCHANGED <<hostSide, listHistory, listPc, listPage, listTree, treeTruncated, listChosen>>

FilesDone ==
    /\ listPc = "read" /\ listed = <<>> /\ listPc' = "done"
    /\ UNCHANGED <<hostSide, listHistory, listProgress, treeTruncated, remoteFaults>>

\* ConnectRepository: the one that was named, or the only one; otherwise the list
\* goes back for the user to pick from, and nothing is stored.
ChooseRepository ==
    /\ listPc = "choose" /\ listPc' = "done"
    /\ listChosen' = IF listWant # 0 THEN (IF listWant \in ToSet(listed) THEN listWant ELSE 0)
                     ELSE IF Len(listed) = 1 THEN listed[1] ELSE 0
    /\ UNCHANGED <<hostSide, listHistory, listPage, listed, listTree, treeTruncated, filesRead, remoteFaults>>

RemoteListingNext ==
    \/ RemoteAdd \/ RemoteRemove \/ RevokeToken
    \/ NewGitProvider \/ ValidateToken \/ RequestFails
    \/ GitHubList \/ GitHubGetRef \/ GitHubGetTree
    \/ GitLabListRepositories \/ GitLabListOnce \/ BitbucketList
    \/ GetFileContents \/ FilesDone \/ ChooseRepository

RemoteListingSpec == RemoteListingInit /\ [][RemoteListingNext]_listVars

-----------------------------------------------------------------------------
\* The lists that leave something out with nothing changing and nothing failing:
\* GitLab's one page, Bitbucket's one directory, and a tree GitHub cut short.
LeftOut ==
    \/ listHost = "gitlab" /\ listKind # "repositories"
    \/ listHost = "bitbucket" /\ listKind = "files"
    \/ treeTruncated

Listed == listPc \in {"done", "choose"} /\ listKind # "files"

\* A list that was returned is the host's list as far as paging can tell: every
\* entry was there at some time; one that was there all the time is missing only
\* when another was removed meanwhile (or the host's list is not read to its end);
\* one comes twice only when another was added meanwhile.  An error returns no part
\* of a list: ConnectRepository, given no name, takes the only repository and never
\* the first page's.  A scan passes over a file that was there all the time only
\* after a failed request, a revoked token, or for a list left short: a tree cut
\* short is taken for the whole.
ListingSound ==
    /\ Listed =>
          /\ ToSet(listed) \subseteq everThere
          /\ stayed \subseteq ToSet(listed) \/ remoteRemoved \/ LeftOut
          /\ Len(listed) = Cardinality(ToSet(listed)) \/ remoteAdded
    /\ listChosen # 0 =>
          /\ listChosen \in everThere
          /\ listWant # 0 \/ remoteRemoved \/ stayed \subseteq {listChosen}
    /\ listPc = "done" /\ listKind = "files" =>
          /\ filesRead \subseteq everThere
          /\ \/ stayed \subseteq filesRead \/ remoteRemoved \/ LeftOut
             \/ remoteFaults > 0 \/ ~tokenGood

=============================================================================
