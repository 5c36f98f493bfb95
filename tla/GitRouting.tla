------------------------------- MODULE GitRouting -------------------------------
(***************************************************************************)
(* Which provider a repository URL goes to, which project it names there,  *)
(* and what the client is told when the provider refuses                   *)
(* (internal/gitprovider, handlers/git.go).  A URL is a record of the      *)
(* parts that the parsers look at; a path is a sequence of segments, each  *)
(* of which stands for a class of texts: "Name" and "name" are one name in *)
(* two spellings, "bad" is a segment that isSafeRepositoryPathSegment (and *)
(* the patterns of GitHub) refuse after decoding.                          *)
(***************************************************************************)
EXTENDS Integers, Sequences, FiniteSets

CONSTANTS
    GitHosts,           \* host names of the URLs
    GitPaths,           \* paths of the URLs
    GitPorts,           \* explicit ports, "" for none
    GitLabServer,       \* [scheme, host, port] of GITLAB_BASE_URL
    GitConfigured,      \* providers with credentials: subset of {"azure", "gitlab"}
    AllowedGitHub       \* GitHub allowlist as paths; empty allows all

ASSUME GitRoutingAssumption ==
    /\ \A p \in GitPaths : p \in Seq(STRING) /\ Len(p) > 0
    /\ GitConfigured \subseteq {"azure", "gitlab"}

VARIABLE asked          \* the URL and the response that are looked at

Schemes == {"https", "http", "ssh", "git"}

\* form: "url" has a scheme, "scp" is user@host:path, "bare" is host/path.
Urls ==
    [form : {"url", "scp", "bare"}, scheme : Schemes,
     user : {"none", "git", "org", "password"}, host : GitHosts, port : GitPorts,
     query : BOOLEAN, path : GitPaths, dotGit : BOOLEAN]

\* A form has only its own parts.
WellFormed(u) ==
    /\ u.form = "scp" => u.user \in {"git", "org"} /\ u.port = "" /\ ~u.query /\ u.scheme = "ssh"
    /\ u.form = "bare" => u.user = "none" /\ u.port = "" /\ ~u.query /\ u.scheme = "https"

Lower(s) == IF s = "Name" THEN "name" ELSE s

LowerPath(p) == [i \in DOMAIN p |-> Lower(p[i])]

\* parseRepositoryOrigin: scp is read as ssh, a bare URL as https.
parseRepositoryOrigin(u) ==
    [scheme |-> u.scheme, host |-> u.host, port |-> u.port]

\* effectivePort: explicit, else of the scheme; "" never matches.
effectivePort(o) ==
    IF o.port = "bad" THEN ""
    ELSE IF o.port # "" THEN o.port
    ELSE IF o.scheme = "http" THEN "80"
    ELSE IF o.scheme = "https" THEN "443"
    ELSE ""

Invalid == [err |-> "invalid", project |-> <<>>]

Project(p) == [err |-> "nil", project |-> p]

Safe(p) == \A i \in DOMAIN p : p[i] # "bad"

--------------------------------------------------------------------------------
(***************************************************************************)
(* GitHub.                                                                 *)
(***************************************************************************)

isGitHubURLCandidate(u) ==
    /\ u.host = "github.com"
    /\ u.form = "scp" => u.user = "git"

\* parseGitHubURL, validateGitHubParsedURL, validateGitHubSSHURL and
\* parseGitHubPath.
parseGitHubURL(u) ==
    IF /\ \/ u.form = "scp"
          \/ /\ u.form = "url" /\ ~u.query
             /\ \/ u.scheme = "https" /\ u.user = "none" /\ u.port = ""
                \/ u.scheme = "ssh" /\ u.user = "git" /\ u.port \in {"", "22"}
       /\ Len(u.path) = 2 /\ Safe(u.path)
    THEN Project(u.path) ELSE Invalid

\* githubProvider.authorizeRepository with normalizeGitHubAllowedRepositories:
\* owner and name are compared without case; no list allows all.
AllowedRepository(p) ==
    AllowedGitHub = {} \/ \E a \in AllowedGitHub : LowerPath(a) = LowerPath(p)

--------------------------------------------------------------------------------
(***************************************************************************)
(* Azure DevOps.                                                           *)
(***************************************************************************)

isAzureDevOpsHost(h) ==
    h \in {"dev.azure.com", "ssh.dev.azure.com", "org.visualstudio.com"}

\* parseAzureSSHPath: v3, organization, project, repository.
parseAzureSSHPath(p) ==
    IF Len(p) = 4 /\ p[1] = "v3" /\ Safe(p) THEN Project(Tail(p)) ELSE Invalid

\* parseAzureDevURL: organization, project, _git, repository.
parseAzureDevURL(p) ==
    IF Len(p) = 4 /\ p[3] = "_git" /\ Safe(p) THEN Project(<<p[1], p[2], p[4]>>) ELSE Invalid

\* parseAzureVSParsedURL: the organization is in the host name, and an old
\* collection name before the project is dropped.
parseAzureVSParsedURL(p) ==
    LET q == IF Len(p) = 4 /\ p[1] = "DefaultCollection" THEN Tail(p) ELSE p
    IN  IF Len(q) = 3 /\ q[2] = "_git" /\ Safe(p) THEN Project(<<"org", q[1], q[3]>>)
        ELSE Invalid

parseAzureDevOpsURL(u) ==
    CASE u.form # "url" /\ u.host = "ssh.dev.azure.com" ->
            IF u.form = "scp" THEN parseAzureSSHPath(u.path) ELSE Invalid
      [] u.form = "url" /\ u.scheme = "ssh" ->
            IF /\ u.host = "ssh.dev.azure.com" /\ ~u.query /\ u.port \in {"", "22"}
               /\ u.user \notin {"none", "password"}
            THEN parseAzureSSHPath(u.path) ELSE Invalid
      [] OTHER ->
            IF u.form # "url" \/ u.scheme \notin {"http", "https"} \/ u.query
               \/ u.user = "password"
            THEN Invalid
            ELSE IF u.host = "dev.azure.com" THEN parseAzureDevURL(u.path)
            ELSE IF u.host = "org.visualstudio.com" THEN parseAzureVSParsedURL(u.path)
            ELSE Invalid

--------------------------------------------------------------------------------
(***************************************************************************)
(* GitLab.                                                                 *)
(***************************************************************************)

\* What stands before the first "-" segment, which separates a project from
\* its pages.
BeforeDash(p) ==
    LET dashes == {i \in DOMAIN p : p[i] = "-"}
    IN  IF dashes = {} THEN p
        ELSE SubSeq(p, 1, (CHOOSE i \in dashes : \A j \in dashes : i =< j) - 1)

gitLabProjectPathFromEscapedPath(p) ==
    LET q == BeforeDash(p) IN IF Len(q) < 2 \/ ~Safe(q) THEN Invalid ELSE Project(q)

\* parseGitLabProjectPath: parseGitLabSSH, parseGitLabSSHURL (any port, no
\* password) and parseGitLabHTTP (no user at all).
parseGitLabProjectPath(u) ==
    IF \/ u.form = "scp"
       \/ u.form = "url" /\ ~u.query /\ u.scheme = "ssh" /\ u.user # "password"
       \/ u.form = "url" /\ ~u.query /\ u.scheme \in {"http", "https"} /\ u.user = "none"
    THEN gitLabProjectPathFromEscapedPath(u.path)
    ELSE Invalid

CustomGitLab == GitLabServer.host # "gitlab.com"

\* matchesGitLabCustomOrigin: a web URL must also have the port of the server.
matchesGitLabCustomOrigin(o) ==
    /\ o.host = GitLabServer.host
    /\ o.scheme \in {"http", "https"} =>
         effectivePort(o) # "" /\ effectivePort(o) = effectivePort(GitLabServer)

--------------------------------------------------------------------------------
(***************************************************************************)
(* Routing.                                                                *)
(***************************************************************************)

Routed(provider, parsed) ==
    IF parsed.err # "nil" THEN [err |-> parsed.err, provider |-> provider, project |-> <<>>]
    ELSE IF provider # "github" /\ provider \notin GitConfigured
    THEN [err |-> "unavailable", provider |-> provider, project |-> <<>>]
    ELSE [err |-> "nil", provider |-> provider, project |-> parsed.project]

Unsupported == [err |-> "unsupported", provider |-> "none", project |-> <<>>]

\* detectProvider with detectGitHubProvider, detectAzureDevOpsProvider,
\* detectGitLabProvider and configuredProvider.
detectProvider(u) ==
    LET o == parseRepositoryOrigin(u) IN
    IF isGitHubURLCandidate(u) THEN Routed("github", parseGitHubURL(u))
    ELSE IF isAzureDevOpsHost(o.host) THEN Routed("azure", parseAzureDevOpsURL(u))
    ELSE IF CustomGitLab
    THEN IF matchesGitLabCustomOrigin(o) THEN Routed("gitlab", parseGitLabProjectPath(u))
         ELSE Unsupported
    ELSE IF o.host = "gitlab.com" THEN Routed("gitlab", parseGitLabProjectPath(u))
    ELSE Unsupported

\* The start of Registry.ListBranches: provider, then authorizeRepository.
RouteOf(u) ==
    LET d == detectProvider(u) IN
    IF d.err = "nil" /\ d.provider = "github" /\ ~AllowedRepository(d.project)
    THEN [d EXCEPT !.err = "notAllowed"] ELSE d

--------------------------------------------------------------------------------
(***************************************************************************)
(* Refusals.  A response has a status code, a usable Retry-After header or *)
(* none, and for GitHub the rest of the limit and its reset time.          *)
(***************************************************************************)

Responses ==
    [provider : {"github", "azure", "gitlab"}, code : {200, 401, 403, 404, 429, 500},
     retryAfter : BOOLEAN, remaining : {"none", "0", "some"}, reset : BOOLEAN]

Refusal(kind, retry) == [kind |-> kind, retry |-> retry]

\* githubResponseError with githubRateLimitError.
githubResponseError(r) ==
    IF r.code = 200 THEN Refusal("nil", FALSE)
    ELSE IF r.code \in {403, 429} /\ (r.retryAfter \/ r.remaining = "0")
    THEN Refusal("rateLimited", r.retryAfter \/ r.reset)
    ELSE IF r.code = 429 THEN Refusal("rateLimited", FALSE)
    ELSE IF r.code \in {401, 403} THEN Refusal("authentication", FALSE)
    ELSE IF r.code = 404 THEN Refusal("notFound", FALSE)
    ELSE Refusal("upstream", FALSE)

azureDevOpsResponseError(r) ==
    CASE r.code = 200 -> Refusal("nil", FALSE)
      [] r.code = 429 -> Refusal("rateLimited", r.retryAfter)
      [] r.code \in {401, 403} -> Refusal("authentication", FALSE)
      [] r.code = 404 -> Refusal("notFound", FALSE)
      [] OTHER -> Refusal("upstream", FALSE)

gitLabResponseError(r) == azureDevOpsResponseError(r)

ResponseError(r) ==
    CASE r.provider = "github" -> githubResponseError(r)
      [] r.provider = "azure" -> azureDevOpsResponseError(r)
      [] r.provider = "gitlab" -> gitLabResponseError(r)

\* writeGitProviderError; `unavailable` wraps the upstream failure.
writeGitProviderError(kind) ==
    CASE kind = "rateLimited" -> 429
      [] kind \in {"invalid", "unsupported"} -> 400
      [] kind = "notAllowed" -> 403
      [] kind = "notFound" -> 404
      [] kind = "authentication" -> 502
      [] kind \in {"upstream", "unavailable"} -> 503
      [] OTHER -> 500

--------------------------------------------------------------------------------
NotAsked == [url |-> <<>>, response |-> <<>>]

RouteInit == asked = NotAsked

AskUrl ==
    /\ asked = NotAsked
    /\ \E u \in Urls : WellFormed(u) /\ asked' = [NotAsked EXCEPT !.url = <<u>>]

AskResponse ==
    /\ asked = NotAsked
    /\ \E r \in Responses : asked' = [NotAsked EXCEPT !.response = <<r>>]

RouteNext == AskUrl \/ AskResponse

RouteSpec == RouteInit /\ [][RouteNext]_asked

IsUrl == asked.url # <<>>

\* Other ways to write a URL: without or with ".git", in the other case, and
\* as web, ssh:// and scp URL of the same server.
Spellings(u) ==
    {v \in {[u EXCEPT !.dotGit = d, !.path = p, !.form = w[1], !.scheme = w[2],
                      !.user = w[3], !.port = w[4]] :
              d \in BOOLEAN, p \in {u.path, LowerPath(u.path)},
              w \in {<<u.form, u.scheme, u.user, u.port>>, <<"scp", "ssh", "git", "">>,
                     <<"url", "ssh", "git", "">>}} :
        WellFormed(v)}

\* A project is found under every spelling of its URL, with the same verdict of
\* the allowlist: "all three yield the same project path" (gitlab.go), and the
\* host and the names are compared without case (github.go).
SpellingsAgree ==
    IsUrl =>
        LET u == asked.url[1]  d == RouteOf(u) IN
        d.provider \in {"github", "gitlab"} /\ d.err \in {"nil", "notAllowed"} =>
            \A v \in Spellings(u) :
                LET e == RouteOf(v) IN
                /\ e.err = d.err /\ e.provider = d.provider
                /\ LowerPath(e.project) = LowerPath(d.project)

\* The GitLab provider asks its own server only for projects of that server: a
\* URL of another host or of another port of the host is not looked up there
\* (detectProvider: "the provider would query the custom server (with its
\* token) for a project that lives elsewhere").
ProjectsOfOwnServer ==
    IsUrl =>
        LET u == asked.url[1] IN
        RouteOf(u).provider = "gitlab" /\ RouteOf(u).err = "nil" /\ CustomGitLab =>
            /\ u.host = GitLabServer.host
            /\ u.scheme # "ssh" => effectivePort(u) = effectivePort(GitLabServer)

\* A limit of the provider reaches the client as 429, with the time to retry
\* whenever the provider named one, and the credentials of the backend are
\* never reported as a problem of the client's own.
RefusalsReachTheClient ==
    asked.response # <<>> =>
        LET r == asked.response[1]  e == ResponseError(r) IN
        /\ \/ r.code = 429
           \/ r.provider = "github" /\ r.code = 403 /\ (r.retryAfter \/ r.remaining = "0")
           => /\ writeGitProviderError(e.kind) = 429
              /\ r.retryAfter => e.retry
        /\ r.code # 200 => writeGitProviderError(e.kind) \notin {400, 401, 403}
================================================================================
