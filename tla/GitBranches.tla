------------------------------ MODULE GitBranches ------------------------------
(***************************************************************************)
(* The branch lists of the Git provider registry                           *)
(* (internal/gitprovider): the cache of lists with its two limits, the     *)
(* fill that the callers of one repository share, and how each provider    *)
(* collects a list.  A fill is detached from the caller that starts it: it *)
(* ends with the provider's answer, or when its last caller left.          *)
(*                                                                         *)
(* Branch names are numbers in the order in which the provider lists them. *)
(* A fill has the name of the caller that started it.                      *)
(***************************************************************************)
EXTENDS Integers, FiniteSets, FiniteSetsExt

CONSTANTS
    Listers,            \* callers of ListBranches and ValidateBranch
    GitRepos,           \* repository URLs after normalizeCacheKey
    GitKind,            \* [GitRepos -> {"github", "azure", "gitlab"}]
    GitRefused,         \* repositories outside the GitHub allowlist
    ListerGroups,       \* <<callers that run together, start time, changes before>>
    ListerRepo,         \* [Listers -> GitRepos]
    ListerBranch,       \* [Listers -> Int]: branch to validate, 0 to list
    FirstBranches,      \* [GitRepos -> SUBSET Nat]: branches at the start
    PageSize,           \* 100: per_page of GitHub and GitLab
    MaxPages,           \* githubMaxPages
    MaxBranches,        \* githubMaxBranches, providerMaxBranches
    CacheCapacity,      \* maxBranchCacheEntries
    CacheWeightLimit,   \* maxBranchCacheWeight
    BranchCacheTTL,     \* cacheTTL
    FillTimeout,        \* branchFillTimeout
    MaxGitTime,         \* bound: clock
    MaxGitChanges,      \* bound: branch changes at the provider
    Pushed,             \* pairs <<repository, branch>> that may change
    GitFaults           \* "leave", and errors of the provider: subset of
                        \* {"rateLimited", "authentication", "notFound", "upstream"}

ASSUME GitBranchesAssumption ==
    /\ IsFiniteSet(Listers) /\ IsFiniteSet(GitRepos)
    /\ {PageSize, MaxPages, MaxBranches, CacheCapacity, CacheWeightLimit,
        BranchCacheTTL, FillTimeout} \subseteq Nat \ {0}
    /\ {MaxGitTime, MaxGitChanges} \subseteq Nat
    /\ \A r \in GitRepos : FirstBranches[r] \subseteq Nat \ {0}

VARIABLES
    gitClock,       \* the clock of the process
    upstream,       \* [GitRepos -> SUBSET Nat]: branches at the provider
    gitChanges,     \* number of changes at the provider
    branchCache,    \* Registry.cache
    inflight,       \* Registry.inflight
    fill,           \* branchFill, by the caller that started it
    lister          \* callers

gitVars == <<gitClock, upstream, gitChanges, branchCache, inflight, fill, lister>>

NoLister == "none"

\* An empty place of the cache.  `asOf` is the time at which the provider was
\* asked for the list; the code does not keep it.
NoList == [list |-> {}, weight |-> 0, stored |-> -1, asOf |-> -1]

NoFill == [status |-> "none", repo |-> NoLister, page |-> 0, list |-> {}, n |-> 0,
           waiters |-> 0, abandoned |-> FALSE, err |-> "nil", began |-> 0,
           moved |-> FALSE]

NewLister == [pc |-> "idle", fill |-> NoLister, list |-> {}, err |-> "nil",
              age |-> 0]

GitInit ==
    /\ upstream = FirstBranches
    /\ branchCache = [r \in GitRepos |-> NoList]
    /\ inflight = [r \in GitRepos |-> NoLister]
    /\ fill = [c \in Listers |-> NoFill]
    /\ \E g \in ListerGroups :
          /\ gitClock = g[2]
          /\ gitChanges = g[3]
          /\ lister = [c \in Listers |->
                IF c \in g[1] THEN NewLister ELSE [NewLister EXCEPT !.pc = "absent"]]

--------------------------------------------------------------------------------
(***************************************************************************)
(* The cache.                                                              *)
(***************************************************************************)

CachedForever(r) == branchCache[r].stored >= 0

\* cachedBranches finds a list before it expires.
cachedBranches(r) ==
    /\ branchCache[r].stored >= 0
    /\ gitClock < branchCache[r].stored + BranchCacheTTL

\* An entry costs one unit, and each of its branches one.
branchCacheWeight(n) == 1 + n

Kept(cache) == {r \in DOMAIN cache : cache[r].stored >= 0}

retainedCacheWeight(cache, keys) == MapThenSumSet(LAMBDA r : cache[r].weight, keys)

\* The loop condition of evictCacheEntriesUntilFit.
CacheFits(cache, keys, weight) ==
    /\ Cardinality(keys) < CacheCapacity
    /\ retainedCacheWeight(cache, keys) + weight =< CacheWeightLimit

\* What eviction can leave: the oldest entries go first, in the order of the
\* map among equals, and none goes once the new entry fits.
evictCacheEntriesUntilFit(cache, weight) ==
    {keys \in SUBSET Kept(cache) :
        LET out == Kept(cache) \ keys IN
        /\ CacheFits(cache, keys, weight)
        /\ \A x \in out, y \in keys : cache[x].stored =< cache[y].stored
        /\ out # {} =>
             \E x \in out :
                /\ \A z \in out : cache[z].stored =< cache[x].stored
                /\ ~CacheFits(cache, keys \cup {x}, weight)}

WithoutExpired(cache) ==
    [r \in GitRepos |->
        IF cache[r].stored >= 0 /\ gitClock < cache[r].stored + BranchCacheTTL
        THEN cache[r] ELSE NoList]

\* storeCacheEntry: a list over the weight limit is not kept (an older list of
\* the repository stays until it expires).
storeCacheEntry(r, f) ==
    LET weight == branchCacheWeight(f.n)
        old == [WithoutExpired(branchCache) EXCEPT ![r] = NoList]
    IN  IF weight > CacheWeightLimit THEN {branchCache}
        ELSE {[x \in GitRepos |->
                 IF x = r THEN [list |-> f.list, weight |-> weight,
                                stored |-> gitClock, asOf |-> f.began]
                 ELSE IF x \in keys THEN old[x] ELSE NoList] :
              keys \in evictCacheEntriesUntilFit(old, weight)}

--------------------------------------------------------------------------------
(***************************************************************************)
(* A caller of Registry.ListBranches or Registry.ValidateBranch.           *)
(***************************************************************************)

Answered(c, list, err, asOf) ==
    lister' = [lister EXCEPT ![c] = [@ EXCEPT !.pc = "answered", !.list = list,
                                              !.err = err, !.age = gitClock - asOf]]

\* ListBranches up to the cache: provider and allowlist first, then the list
\* that is cached.
ListBranches(c) ==
    LET r == ListerRepo[c] IN
    /\ lister[c].pc = "idle"
    /\ IF r \in GitRefused THEN Answered(c, {}, "notAllowed", gitClock)
       ELSE IF cachedBranches(r)
       THEN Answered(c, branchCache[r].list, "nil", branchCache[r].asOf)
       ELSE lister' = [lister EXCEPT ![c].pc = "missed"]
    /\ UNCHANGED <<gitClock, upstream, gitChanges, branchCache, inflight, fill>>

\* joinBranchFill, under fillMu: join the running fill, else take a list that
\* was stored since the miss, else start a fill that does not end with the
\* caller.
joinBranchFill(c) ==
    LET r == ListerRepo[c] IN
    /\ lister[c].pc = "missed"
    /\ \/ /\ inflight[r] # NoLister
          /\ fill' = [fill EXCEPT ![inflight[r]].waiters = @ + 1]
          /\ lister' = [lister EXCEPT ![c] = [@ EXCEPT !.pc = "waiting",
                                                       !.fill = inflight[r]]]
          /\ UNCHANGED inflight
       \/ /\ inflight[r] = NoLister /\ cachedBranches(r)
          /\ Answered(c, branchCache[r].list, "nil", branchCache[r].asOf)
          /\ UNCHANGED <<inflight, fill>>
       \/ /\ inflight[r] = NoLister /\ ~cachedBranches(r)
          /\ inflight' = [inflight EXCEPT ![r] = c]
          /\ fill' = [fill EXCEPT ![c] = [NoFill EXCEPT !.status = "running", !.repo = r,
                                                        !.page = 1, !.waiters = 1,
                                                        !.began = gitClock]]
          /\ lister' = [lister EXCEPT ![c] = [@ EXCEPT !.pc = "waiting", !.fill = c]]
    /\ UNCHANGED <<gitClock, upstream, gitChanges, branchCache>>

\* The select takes the result of the fill.
ReceiveList(c) ==
    LET f == fill[lister[c].fill] IN
    /\ lister[c].pc = "waiting" /\ f.status = "done"
    /\ Answered(c, IF f.err = "nil" THEN f.list ELSE {}, f.err, f.began)
    /\ UNCHANGED <<gitClock, upstream, gitChanges, branchCache, inflight, fill>>

\* Registry.ValidateBranch: the branch is in the list.
ValidateBranch(c) == ListerBranch[c] \in lister[c].list

\* leaveBranchFill, under fillMu: the last caller of a running fill cancels it.
leaveBranchFill(c) ==
    LET r == ListerRepo[c]  k == lister[c].fill IN
    IF inflight[r] # k THEN UNCHANGED <<fill, inflight>>
    ELSE IF fill[k].waiters > 1
    THEN fill' = [fill EXCEPT ![k].waiters = @ - 1] /\ UNCHANGED inflight
    ELSE /\ fill' = [fill EXCEPT ![k].waiters = @ - 1, ![k].abandoned = TRUE]
         /\ inflight' = [inflight EXCEPT ![r] = NoLister]

\* The context of the request ends while the caller waits.
ContextEnds(c) ==
    /\ "leave" \in GitFaults
    /\ lister[c].pc = "waiting"
    /\ leaveBranchFill(c)
    /\ Answered(c, {}, "context", gitClock)
    /\ UNCHANGED <<gitClock, upstream, gitChanges, branchCache>>

--------------------------------------------------------------------------------
(***************************************************************************)
(* The goroutine of a fill.  Each step is one response of the provider.    *)
(***************************************************************************)

Page(all, p) ==
    {b \in all : LET rank == Cardinality({x \in all : x =< b})
                 IN  (p - 1) * PageSize < rank /\ rank =< p * PageSize}

Returns(k, err) == fill' = [fill EXCEPT ![k] = [@ EXCEPT !.status = "returned", !.err = err]]

Collects(k, response, status, page) ==
    fill' = [fill EXCEPT ![k] = [@ EXCEPT !.list = @ \cup response,
                                          !.n = @ + Cardinality(response),
                                          !.status = status, !.page = page]]

\* githubProvider.ListBranches: one page after the other, as the Link header
\* says, within the limits of pages and of branches.
githubPage(k) ==
    LET f == fill[k]
        all == upstream[f.repo]
        response == Page(all, f.page)
        more == Cardinality(all) > f.page * PageSize
    IN  IF f.page > MaxPages \/ f.n + Cardinality(response) > MaxBranches
        THEN Returns(k, "upstream")
        ELSE Collects(k, response, IF more THEN "running" ELSE "returned",
                      IF more THEN f.page + 1 ELSE f.page)

\* azureDevOpsProvider.ListBranches: all refs in one response.
azureRefs(k) ==
    LET all == upstream[fill[k].repo]
    IN  IF Cardinality(all) > MaxBranches THEN Returns(k, "upstream")
        ELSE Collects(k, all, "returned", 1)

\* gitlabProvider.ListBranches: the first page is the list.
gitlabBranches(k) ==
    LET response == Page(upstream[fill[k].repo], 1)
    IN  IF Cardinality(response) > MaxBranches THEN Returns(k, "upstream")
        ELSE Collects(k, response, "returned", 1)

ProviderAnswers(k) ==
    /\ fill[k].status = "running"
    /\ CASE GitKind[fill[k].repo] = "github" -> githubPage(k)
         [] GitKind[fill[k].repo] = "azure" -> azureRefs(k)
         [] GitKind[fill[k].repo] = "gitlab" -> gitlabBranches(k)
    /\ UNCHANGED <<gitClock, upstream, gitChanges, branchCache, inflight, lister>>

\* The provider refuses (githubResponseError, azureDevOpsResponseError,
\* gitLabResponseError: rate limit, credentials, not found, other), the bound
\* of the fill passes, or every caller left and the context is cancelled.
ProviderFails(k) ==
    /\ fill[k].status = "running"
    /\ \/ \E err \in GitFaults \ {"leave"} : Returns(k, err)
       \/ gitClock >= fill[k].began + FillTimeout /\ Returns(k, "upstream")
       \/ fill[k].abandoned /\ Returns(k, "context")
    /\ UNCHANGED <<gitClock, upstream, gitChanges, branchCache, inflight, lister>>

\* What the fill leaves in inflight: a newer fill of the repository stays.
InflightAfter(k) == IF inflight[fill[k].repo] = k THEN NoLister ELSE inflight[fill[k].repo]

\* runBranchFill after the provider returned, under fillMu: keep the list
\* unless everybody left, publish the result, end the fill.
runBranchFill(k) ==
    LET f == fill[k] IN
    /\ f.status = "returned"
    /\ IF ~f.abandoned /\ f.err = "nil"
       THEN branchCache' \in storeCacheEntry(f.repo, f)
       ELSE UNCHANGED branchCache
    /\ fill' = [fill EXCEPT ![k] = [@ EXCEPT !.status = "done", !.page = 0, !.n = 0,
                                             !.moved = FALSE]]
    /\ inflight' = [inflight EXCEPT ![f.repo] = InflightAfter(k)]
    /\ UNCHANGED <<gitClock, upstream, gitChanges, lister>>

--------------------------------------------------------------------------------
\* Before the first call and after the last answer nothing of interest happens.
Busy == \E c \in Listers : lister[c].pc \in {"missed", "waiting", "answered"}
        /\ \E d \in Listers : lister[d].pc \in {"idle", "missed", "waiting"}

\* Somebody pushes or deletes a branch.
BranchChanges ==
    /\ gitChanges < MaxGitChanges /\ Busy
    /\ \E push \in Pushed :
          LET r == push[1]  b == push[2] IN
          /\ upstream' = [upstream EXCEPT ![r] = IF b \in @ THEN @ \ {b} ELSE @ \cup {b}]
          /\ fill' = [k \in Listers |-> [fill[k] EXCEPT !.moved = @ \/ (fill[k].repo = r /\ fill[k].status # "done")]]
    /\ gitChanges' = gitChanges + 1
    /\ UNCHANGED <<gitClock, branchCache, inflight, lister>>

\* Time passes while a provider is waited for, at most for the bound of the
\* fill, or between calls; the steps of the process take no time.
GitTick ==
    /\ gitClock < MaxGitTime /\ Busy
    /\ \A k \in Listers :
          /\ fill[k].status # "returned"
          /\ fill[k].status = "running" => gitClock < fill[k].began + FillTimeout
          /\ lister[k].pc = "waiting" => fill[lister[k].fill].status # "done"
    /\ gitClock' = gitClock + 1
    /\ UNCHANGED <<upstream, gitChanges, branchCache, inflight, fill, lister>>

ListerSteps(c) == ListBranches(c) \/ joinBranchFill(c) \/ ReceiveList(c)

FillSteps(k) == ProviderAnswers(k) \/ ProviderFails(k) \/ runBranchFill(k)

GitNext ==
    \/ \E c \in Listers : ListerSteps(c) \/ ContextEnds(c) \/ FillSteps(c)
    \/ BranchChanges
    \/ GitTick

GitSpec == GitInit /\ [][GitNext]_gitVars

--------------------------------------------------------------------------------
(***************************************************************************)
(* Properties.                                                             *)
(***************************************************************************)

GitErrors == {"nil", "notAllowed", "context", "rateLimited", "authentication",
              "notFound", "upstream"}

GitTypeOK ==
    /\ gitClock \in 0..MaxGitTime
    /\ gitChanges \in 0..MaxGitChanges
    /\ \A r \in GitRepos :
          /\ upstream[r] \subseteq Nat
          /\ branchCache[r].stored \in -1..MaxGitTime
          /\ inflight[r] \in Listers \cup {NoLister}
    /\ \A k \in Listers :
          /\ fill[k].status \in {"none", "running", "returned", "done"}
          /\ fill[k].waiters \in 0..Cardinality(Listers)
          /\ fill[k].err \in GitErrors
          /\ lister[k].pc \in {"absent", "idle", "missed", "waiting", "answered"}
          /\ lister[k].err \in GitErrors

\* The cache stays within both of its limits (storeCacheEntry), and so its
\* memory is bounded whatever repositories are asked for.
CacheWithinLimits ==
    /\ Cardinality(Kept(branchCache)) =< CacheCapacity
    /\ retainedCacheWeight(branchCache, Kept(branchCache)) =< CacheWeightLimit

\* Callers of one repository share one fill: at most one fill that somebody
\* waits for runs at a time, also after an abandoned one ends late.
OneFillPerRepository ==
    \A j, k \in Listers :
        /\ fill[j].status \in {"running", "returned"} /\ ~fill[j].abandoned
        /\ fill[k].status \in {"running", "returned"} /\ ~fill[k].abandoned
        /\ fill[j].repo = fill[k].repo
        => j = k

\* A caller that leaves ends nobody else's listing: whoever stays gets the
\* provider's answer, never the end of another caller's context.
LeavingCancelsNobody ==
    \A c \in Listers : lister[c].pc = "waiting" => ~fill[lister[c].fill].abandoned

\* A list that is handed out was asked for within the cache time and one fill
\* bound of now.
ListsAreRecentEnough ==
    \A c \in Listers :
        lister[c].pc = "answered" /\ lister[c].err = "nil" =>
            lister[c].age =< BranchCacheTTL + FillTimeout

\* A list of GitHub or Azure DevOps is whole: a repository that did not change
\* while it was read gives all its branches or an error, never a part of them.
ListsAreWhole ==
    \A k \in Listers :
        LET f == fill[k] IN
        /\ f.status = "returned" /\ f.err = "nil" /\ ~f.moved
        /\ GitKind[f.repo] # "gitlab"
        => f.list = upstream[f.repo]

\* "Valid is true when the branch exists in the repository": a branch of a
\* repository that never changed is answered as valid.
ExistingBranchesAreValid ==
    \A c \in Listers :
        /\ lister[c].pc = "answered" /\ lister[c].err = "nil" /\ gitChanges = 0
        /\ ListerBranch[c] \in upstream[ListerRepo[c]]
        => ValidateBranch(c)

\* Every caller is answered: a fill ends for everybody who waits for it.
ListersAreAnswered ==
    \A c \in Listers : []<>(lister[c].pc \notin {"missed", "waiting"})
================================================================================
