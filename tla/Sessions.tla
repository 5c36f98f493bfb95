------------------------------ MODULE Sessions ------------------------------
(* The login sessions of one user: login, refresh with token rotation,       *)
(* logout, logout-all, the changes an admin makes to the account             *)
(* (api/handlers/auth.go, users.go), the refresh token table                 *)
(* (database/refresh_token_repository.go), the block lists of the session    *)
(* store and the JWT check that reads them (sessionstore, middleware/auth.go)*)
(* A request is a process that runs once; a request is answered in the step  *)
(* that makes its last check.  bcrypt, signing and hashing are abstracted to *)
(* the facts the handlers decide on.                                         *)
EXTENDS Integers, Sequences, FiniteSets, FiniteSetsExt, SequencesExt

CONSTANTS
    Requests,           \* request processes
    Scripts,            \* requests that run together: [ask : Requests -> kind ("none" for a free slot),
                        \* started : when the session at the start began]
    AccessTTL,          \* AccessTokenExpiration
    BlockSkew,          \* sessionBlockSkew
    ReuseGrace,         \* RefreshReuseGrace
    IdleTimeout,        \* SessionIdleTimeout
    MaxLifetime,        \* SessionMaxLifetime
    MaxPerUser,         \* MaxRefreshTokensPerUser
    MaxNow,             \* bound: the last moment
    MaxRows,            \* bound: refresh token rows
    MaxTouches,         \* bound: activity writes on their way
    SessionFaults       \* subset of {"revoke", "replay", "create"}: writes that may fail

ASSUME SessionsAssumption ==
    /\ AccessTTL \in Nat \ {0} /\ MaxPerUser \in Nat \ {0}
    /\ \A s \in Scripts : s.ask \in [Requests -> {"login", "refresh", "logout", "logoutAll",
                                              "password", "disable", "enable", "role", "none"}]

NoFamily == 0        \* a login whose refresh token was not stored has no rows
Roles == {"admin", "user"}

VARIABLES
    now,
    account,        \* the users row: [role, disabled, password]
    rows,           \* refresh_tokens, in the order of creation
    cookies,        \* refresh tokens that a client received
    access,         \* access tokens that a client received
    sessionBlock,   \* session_block: family -> until
    userBlock,      \* user_block: [at, until]
    touches,        \* activity writes on their way
    request,        \* the requests
    ended,          \* ghost: families that a finished logout or change has ended
    reason,         \* ghost: families revoked for a reason other than a race
    touched         \* ghost: the latest activity written for a family

sessionVars == <<now, account, rows, cookies, access, sessionBlock, userBlock,
                 touches, request, ended, reason, touched>>
blockVars == <<sessionBlock, userBlock>>
ghostVars == <<ended, reason>>

FamilyIds == 0 .. MaxRows

Fresh(kind) == [kind |-> kind, at |-> "new", tok |-> 0, fam |-> NoFamily, role |-> "user",
                iat |-> 0, password |-> 0, start |-> 0, failed |-> FALSE]

SessionsTypeOK ==
    /\ now \in 0 .. MaxNow
    /\ account \in [role : Roles, disabled : BOOLEAN, password : 0 .. 1]
    /\ \A i \in DOMAIN rows : rows[i] \in
        [fam : FamilyIds, revoked : BOOLEAN, rotatedAt : -1 .. MaxNow, last : 0 .. MaxNow,
         started : -MaxLifetime .. MaxNow]
    /\ cookies \subseteq DOMAIN rows
    /\ \A a \in access : a.fam \in FamilyIds /\ a.iat \in 0 .. now /\ a.role \in Roles
    /\ sessionBlock \in [FamilyIds -> Nat]

\* One session exists: its first token and its access token are at the client.
SessionsInit ==
    /\ now = 0
    /\ account = [role |-> "admin", disabled |-> FALSE, password |-> 0]
    /\ cookies = {1}
    /\ access = {[fam |-> 1, iat |-> 0, role |-> "admin", via |-> "login"]}
    /\ sessionBlock = [f \in FamilyIds |-> 0]
    /\ userBlock = [at |-> -1, until |-> 0]
    /\ touches = {}
    /\ \E s \in Scripts :
        /\ request = [r \in Requests |-> Fresh(s.ask[r])]
        /\ rows = <<[fam |-> 1, revoked |-> FALSE, rotatedAt |-> -1, last |-> 0, started |-> s.started]>>
    /\ ended = {} /\ reason = {}
    /\ touched = [f \in FamilyIds |-> 0]

----------------------------------------------------------------------------
(* The refresh token table.                                                  *)

\* expires_at is the end of the session: createRefreshToken takes the earlier of the
\* token lifetime and the session deadline.
Expiry(row) == row.started + MaxLifetime
Active(row) == ~row.revoked /\ now < Expiry(row)

RevokeWhere(rs, Match(_)) ==
    [i \in DOMAIN rs |-> IF Match(i) THEN [rs[i] EXCEPT !.revoked = TRUE] ELSE rs[i]]

RevokeFamily(rs, f) == RevokeWhere(rs, LAMBDA i : rs[i].fam = f)
RevokeAllForUser(rs) == RevokeWhere(rs, LAMBDA i : TRUE)
RevokeByID(rs, t) == RevokeWhere(rs, LAMBDA i : i = t)

ActiveRows(rs) == {i \in DOMAIN rs : Active(rs[i])}
CountActiveInFamily(f) == Cardinality({i \in ActiveRows(rows) : rows[i].fam = f})

\* createRefreshToken: at the limit, RevokeOldestForUser keeps the newest
\* MaxPerUser - 1 active tokens.  cut are the families it ended.
RevokeOldest(rs) ==
    LET active == ActiveRows(rs)
        old == {i \in active : Cardinality({j \in active : j > i}) >= MaxPerUser - 1}
    IN IF Cardinality(active) >= MaxPerUser
       THEN [rs |-> RevokeWhere(rs, LAMBDA i : i \in old), cut |-> {rs[i].fam : i \in old}]
       ELSE [rs |-> rs, cut |-> {}]

NewRow(f, started, last) ==
    [fam |-> f, revoked |-> FALSE, rotatedAt |-> -1, last |-> last, started |-> started]

\* TouchFamily: active tokens, never back.
TouchFamily(rs, f, at) ==
    [i \in DOMAIN rs |-> IF rs[i].fam = f /\ Active(rs[i]) /\ rs[i].last < at
                         THEN [rs[i] EXCEPT !.last = at] ELSE rs[i]]

----------------------------------------------------------------------------
(* The session store and the JWT check.                                      *)

IsSessionBlocked(f) == now < sessionBlock[f]

\* userBlockApplies: an access token issued at or before the block.
IsUserBlocked(iat) == now < userBlock.until /\ iat <= userBlock.at

\* ValidateJWT and CheckRevocation: the request with this token is accepted.
Accepted(a) == now < a.iat + AccessTTL /\ ~IsSessionBlocked(a.fam) /\ ~IsUserBlocked(a.iat)

\* BlockSessions keeps the later end (GREATEST).
BlockSessions(fs, until) ==
    [f \in FamilyIds |-> IF f \in fs THEN Max({sessionBlock[f], until}) ELSE sessionBlock[f]]

\* sessionBlockUntil, sessionLongBlockUntil
BlockUntil(failed) == now + BlockSkew + IF failed THEN MaxLifetime ELSE AccessTTL

BlockUser == [at |-> now, until |-> now + AccessTTL]

----------------------------------------------------------------------------
(* Requests.                                                                 *)

Is(r, kind, at) == request[r].kind = kind /\ request[r].at = at
Goes(r, q) == request' = [request EXCEPT ![r] = q]
GoesTo(r, at) == Goes(r, [request[r] EXCEPT !.at = at])
Answered(r) == GoesTo(r, "done")

Token(q, via) == [fam |-> q.fam, iat |-> q.iat, role |-> q.role, via |-> via]

\* Login: find the user and compare the password (or hit the login cache).
LoginVerify(r) ==
    /\ Is(r, "login", "new") /\ Len(rows) < MaxRows
    /\ Goes(r, [request[r] EXCEPT !.at = "verified", !.password = account.password])
    /\ UNCHANGED <<now, account, rows, cookies, access, blockVars, touches, ghostVars, touched>>

\* Login: the second read of the user, with the checks on it.
LoginReread(r) ==
    /\ Is(r, "login", "verified")
    /\ IF account.disabled \/ account.password # request[r].password
       THEN Answered(r)
       ELSE Goes(r, [request[r] EXCEPT !.at = "reread", !.role = account.role])
    /\ UNCHANGED <<now, account, rows, cookies, access, blockVars, touches, ghostVars, touched>>

\* sessionAccessToken: login, refresh and the grace answer sign here.
SignToken(r) ==
    /\ request[r].at \in {"reread", "rotated", "grace"}
    /\ Goes(r, [request[r] EXCEPT !.at = IF @ = "grace" THEN "graceSigned" ELSE "signed", !.iat = now])
    /\ UNCHANGED <<now, account, rows, cookies, access, blockVars, touches, ghostVars, touched>>

\* recheckUserActive after signing; a refresh that fails it revokes all sessions
\* (rejectRefreshAfterRecheck).
RecheckUser(r) ==
    /\ request[r].at \in {"signed", "graceSigned"}
    /\ IF account.disabled
       THEN /\ Answered(r)
            /\ rows' = IF request[r].kind = "login" THEN rows ELSE RevokeAllForUser(rows)
            /\ reason' = IF request[r].kind = "login" THEN reason ELSE FamilyIds
       ELSE /\ GoesTo(r, IF request[r].at = "signed" THEN "rechecked" ELSE "graceRechecked")
            /\ UNCHANGED <<rows, reason>>
    /\ UNCHANGED <<now, account, cookies, access, blockVars, touches, ended, touched>>

\* createRefreshToken of a login: the limit, then the new row; a failed write leaves
\* the access token without a refresh token.
LoginIssue(r) ==
    /\ Is(r, "login", "rechecked") /\ Len(rows) < MaxRows
    /\ LET f == Len(rows) + 1
           kept == RevokeOldest(rows)
           q == [request[r] EXCEPT !.fam = f]
       IN \/ /\ rows' = Append(kept.rs, NewRow(f, now, now))
             /\ Goes(r, [q EXCEPT !.at = "issued", !.tok = f])
             /\ reason' = reason \cup kept.cut
             /\ UNCHANGED access
          \/ /\ "create" \in SessionFaults
             /\ access' = access \cup {Token(request[r], "login")}
             /\ Answered(r)
             /\ UNCHANGED <<rows, reason>>
    /\ UNCHANGED <<now, account, cookies, blockVars, touches, ended, touched>>

\* recheckSessionActive of a login: hand out both tokens, or abandonSession.
LoginAnswer(r) ==
    /\ Is(r, "login", "issued")
    /\ IF CountActiveInFamily(request[r].fam) > 0
       THEN /\ access' = access \cup {Token(request[r], "login")}
            /\ cookies' = cookies \cup {request[r].tok}
            /\ UNCHANGED <<rows, reason>>
       ELSE /\ rows' = RevokeFamily(rows, request[r].fam)
            /\ reason' = reason \cup {request[r].fam}
            /\ UNCHANGED <<access, cookies>>
    /\ Answered(r)
    /\ UNCHANGED <<now, account, blockVars, touches, ended, touched>>

----------------------------------------------------------------------------
(* Refresh.                                                                  *)

\* withinReuseGrace: rotated, not revoked, a short time ago, in a live session.
WithinGrace(row, at) ==
    row.rotatedAt # -1 /\ at - row.rotatedAt <= ReuseGrace /\ at <= Expiry(row)

\* Refresh reads the presented token and the session block.
RefreshRead(r) ==
    /\ Is(r, "refresh", "new")
    /\ \E t \in cookies :
        LET row == rows[t]
            q == [request[r] EXCEPT !.tok = t, !.fam = row.fam, !.start = now]
        IN \/ /\ row.revoked
              /\ Goes(r, [q EXCEPT !.at = "consumed"])
              /\ UNCHANGED <<rows, reason>>
           \/ /\ ~row.revoked /\ now > Expiry(row)
              /\ rows' = RevokeFamily(rows, row.fam)
              /\ reason' = reason \cup {row.fam}
              /\ Goes(r, [q EXCEPT !.at = "done"])
           \/ /\ ~row.revoked /\ now <= Expiry(row) /\ now - row.last > IdleTimeout
              /\ rows' = RevokeByID(rows, t)
              /\ reason' = reason \cup {row.fam}
              /\ Goes(r, [q EXCEPT !.at = "done"])
           \/ /\ ~row.revoked /\ now <= Expiry(row) /\ now - row.last <= IdleTimeout
              /\ IsSessionBlocked(row.fam)
              /\ rows' = RevokeFamily(rows, row.fam)
              /\ reason' = reason \cup {row.fam}
              /\ Goes(r, [q EXCEPT !.at = "done"])
           \/ /\ ~row.revoked /\ now <= Expiry(row) /\ now - row.last <= IdleTimeout
              /\ ~IsSessionBlocked(row.fam)
              /\ Goes(r, [q EXCEPT !.at = "found"])
              /\ UNCHANGED <<rows, reason>>
    /\ UNCHANGED <<now, account, cookies, access, blockVars, touches, ended, touched>>

\* Refresh reads the user; a disabled one loses all sessions.
RefreshUser(r) ==
    /\ Is(r, "refresh", "found")
    /\ IF account.disabled
       THEN rows' = RevokeAllForUser(rows) /\ reason' = FamilyIds /\ Answered(r)
       ELSE /\ Goes(r, [request[r] EXCEPT !.at = "rotate", !.role = account.role])
            /\ UNCHANGED <<rows, reason>>
    /\ UNCHANGED <<now, account, cookies, access, blockVars, touches, ended, touched>>

\* carryLatestActivity: the activity of the old row as it is inside the transaction.
CarryLatest(row, start) == row.last

\* The rotation transaction: MarkRotatedIfActive takes the old token, its successor
\* is created; a token that another request consumed goes the other way.
Rotate(r) ==
    /\ Is(r, "refresh", "rotate") /\ Len(rows) < MaxRows
    /\ LET t == request[r].tok
           used == [rows EXCEPT ![t].revoked = TRUE, ![t].rotatedAt = request[r].start]
           kept == RevokeOldest(used)
       IN IF rows[t].revoked
          THEN GoesTo(r, "consumed") /\ UNCHANGED <<rows, reason>>
          ELSE /\ rows' = Append(kept.rs, NewRow(rows[t].fam, rows[t].started,
                                                 CarryLatest(used[t], request[r].start)))
               /\ reason' = reason \cup kept.cut
               /\ Goes(r, [request[r] EXCEPT !.at = "rotated", !.tok = Len(rows) + 1])
    /\ UNCHANGED <<now, account, cookies, access, blockVars, touches, ended, touched>>

\* refreshConsumedToken, tryGraceRefresh: a token rotated a moment ago gets an access
\* token; a blocked session is revoked; any other reuse revokes the family.
RefreshConsumed(r) ==
    /\ Is(r, "refresh", "consumed")
    /\ LET row == rows[request[r].tok]
           f == row.fam
           grace == WithinGrace(row, request[r].start) /\ ~account.disabled
                    /\ CountActiveInFamily(f) > 0
       IN \/ /\ grace /\ ~IsSessionBlocked(f)
             /\ Goes(r, [request[r] EXCEPT !.at = "grace", !.role = account.role])
             /\ UNCHANGED <<rows, reason>>
          \/ /\ grace /\ IsSessionBlocked(f)
             /\ rows' = RevokeFamily(rows, f) /\ reason' = reason \cup {f}
             /\ Answered(r)
          \/ /\ ~grace
             /\ \/ /\ rows' = RevokeFamily(rows, f)
                   /\ GoesTo(r, "replayed")
                \/ /\ "replay" \in SessionFaults
                   /\ Goes(r, [request[r] EXCEPT !.at = "replayed", !.failed = TRUE])
                   /\ UNCHANGED rows
             /\ reason' = IF WithinGrace(row, request[r].start) THEN reason ELSE reason \cup {f}
    /\ UNCHANGED <<now, account, cookies, access, blockVars, touches, ended, touched>>

\* refreshConsumedToken: the session block of a replayed family.
ReplayBlock(r) ==
    /\ Is(r, "refresh", "replayed")
    /\ sessionBlock' = BlockSessions({request[r].fam}, BlockUntil(request[r].failed))
    /\ Answered(r)
    /\ ended' = IF request[r].failed THEN ended ELSE ended \cup {request[r].fam}
    /\ UNCHANGED <<now, account, rows, cookies, access, userBlock, touches, reason, touched>>

HandOutUnchecked(r) ==
    /\ request[r].kind = "refresh" /\ request[r].at \in {"rechecked", "graceRechecked"}
    /\ access' = access \cup {Token(request[r], "refresh")}
    /\ cookies' = IF request[r].at = "rechecked" THEN cookies \cup {request[r].tok} ELSE cookies
    /\ Answered(r)
    /\ UNCHANGED <<now, account, rows, blockVars, touches, ghostVars, touched>>

\* recheckSessionActive of a refresh, then the answer; only a rotation sets a cookie.
RefreshAnswer(r) ==
    /\ request[r].kind = "refresh" /\ request[r].at \in {"rechecked", "graceRechecked"}
    /\ IF CountActiveInFamily(request[r].fam) > 0
       THEN /\ access' = access \cup {Token(request[r], "refresh")}
            /\ cookies' = IF request[r].at = "rechecked" THEN cookies \cup {request[r].tok} ELSE cookies
       ELSE UNCHANGED <<access, cookies>>
    /\ Answered(r)
    /\ UNCHANGED <<now, account, rows, blockVars, touches, ghostVars, touched>>

----------------------------------------------------------------------------
(* Logout, logout-all and account changes.                                   *)

\* Logout revokes the family of the cookie (revokeLogoutSessions) ...
LogoutRevoke(r) ==
    /\ Is(r, "logout", "new")
    /\ \E t \in cookies :
        LET f == rows[t].fam
            q == [request[r] EXCEPT !.at = "revoked", !.fam = f]
        IN /\ reason' = reason \cup {f}
           /\ \/ rows' = RevokeFamily(rows, f) /\ Goes(r, q)
              \/ /\ "revoke" \in SessionFaults
                 /\ Goes(r, [q EXCEPT !.failed = TRUE])
                 /\ UNCHANGED rows
    /\ UNCHANGED <<now, account, cookies, access, blockVars, touches, ended, touched>>

\* ... and then blocks the session.
LogoutBlock(r) ==
    /\ Is(r, "logout", "revoked")
    /\ sessionBlock' = BlockSessions({request[r].fam}, BlockUntil(request[r].failed))
    /\ Answered(r)
    /\ ended' = IF request[r].failed THEN ended ELSE ended \cup {request[r].fam}
    /\ UNCHANGED <<now, account, rows, cookies, access, userBlock, touches, reason, touched>>

\* DisableUser, EnableUser, ChangeUserRole write the account (guardedAdminChange);
\* enabling blocks the earlier tokens and revokes nothing.
ChangeAccount(r) ==
    /\ \/ /\ Is(r, "disable", "new") /\ account' = [account EXCEPT !.disabled = TRUE]
          /\ GoesTo(r, "changed")
       \/ /\ Is(r, "enable", "new") /\ account' = [account EXCEPT !.disabled = FALSE]
          /\ GoesTo(r, "listed")
       \/ /\ Is(r, "role", "new") /\ account' = [account EXCEPT !.role = "user"]
          /\ IF account.role = "user" THEN Answered(r) ELSE GoesTo(r, "changed")
    /\ UNCHANGED <<now, rows, cookies, access, blockVars, touches, ghostVars, touched>>

\* ResetUserPassword writes the hash only.
ResetPassword(r) ==
    /\ Is(r, "password", "new")
    /\ account' = [account EXCEPT !.password = 1]
    /\ GoesTo(r, "changed")
    /\ UNCHANGED <<now, rows, cookies, access, blockVars, touches, ghostVars, touched>>

\* RevokeAllForUser, the first step of logout-all and of revokeUserAccess.
RevokeAll(r) ==
    /\ \/ Is(r, "logoutAll", "new")
       \/ request[r].at = "changed"
    /\ rows' = RevokeAllForUser(rows)
    /\ reason' = FamilyIds
    /\ Goes(r, [request[r] EXCEPT !.at = IF request[r].kind = "logoutAll" THEN "all" ELSE "listed",
                                  !.tok = Len(rows)])
    /\ UNCHANGED <<now, account, cookies, access, blockVars, touches, ended, touched>>

\* recentSessionsToBlock and blockSessions of logout-all.
BlockListed(r) ==
    /\ Is(r, "logoutAll", "all")
    /\ sessionBlock' = BlockSessions({rows[i].fam : i \in DOMAIN rows}, BlockUntil(FALSE))
    /\ GoesTo(r, "listed")
    /\ UNCHANGED <<now, account, rows, cookies, access, userBlock, touches, ghostVars, touched>>

\* BlockUser: every access token issued up to now.  The families that existed when
\* the tokens were revoked are ended.
BlockAccount(r) ==
    /\ request[r].at = "listed"
    /\ userBlock' = BlockUser
    /\ Answered(r)
    /\ ended' = ended \cup {rows[i].fam : i \in 1 .. request[r].tok}
    /\ UNCHANGED <<now, account, rows, cookies, access, sessionBlock, touches, reason, touched>>

----------------------------------------------------------------------------
(* Activity and time.                                                        *)

\* AuthRequiredWithOptions: an accepted request starts an activity write.
Activity(a) ==
    /\ Accepted(a) /\ Cardinality(touches) < MaxTouches
    /\ touches' = touches \cup {[fam |-> a.fam, at |-> now]}
    /\ UNCHANGED <<now, account, rows, cookies, access, blockVars, request, ghostVars, touched>>

\* The activity write arrives.
ApplyTouch(w) ==
    /\ touches' = touches \ {w}
    /\ rows' = TouchFamily(rows, w.fam, w.at)
    /\ touched' = IF \E i \in DOMAIN rows : rows[i].fam = w.fam /\ Active(rows[i])
                  THEN [touched EXCEPT ![w.fam] = Max({@, w.at})] ELSE touched
    /\ UNCHANGED <<now, account, cookies, access, blockVars, request, ghostVars>>

SessionTick ==
    /\ now < MaxNow
    /\ now' = now + 1
    /\ UNCHANGED <<account, rows, cookies, access, blockVars, touches, request, ghostVars, touched>>

RequestStep(r) ==
    \/ LoginVerify(r) \/ LoginReread(r) \/ SignToken(r) \/ RecheckUser(r)
    \/ LoginIssue(r) \/ LoginAnswer(r)
    \/ RefreshRead(r) \/ RefreshUser(r) \/ Rotate(r) \/ RefreshConsumed(r)
    \/ ReplayBlock(r) \/ RefreshAnswer(r)
    \/ LogoutRevoke(r) \/ LogoutBlock(r)
    \/ ChangeAccount(r) \/ ResetPassword(r) \/ RevokeAll(r) \/ BlockListed(r) \/ BlockAccount(r)

SessionsNext ==
    \/ \E r \in Requests : RequestStep(r)
    \/ \E a \in access : Activity(a)
    \/ \E w \in touches : ApplyTouch(w)
    \/ SessionTick

SessionsSpec == SessionsInit /\ [][SessionsNext]_sessionVars

----------------------------------------------------------------------------
(* Properties.                                                               *)

\* A session that a logout, logout-all, account change or replay has ended stays
\* ended: none of its access tokens is accepted, also not one that a refresh handed
\* out while the session was being revoked (Logout, LogoutAll, revokeUserAccess:
\* revoke before block), and none of its refresh tokens is active.
EndedSessionsStayEnded ==
    /\ \A a \in access : a.fam \in ended => ~Accepted(a)
    /\ \A i \in DOMAIN rows : rows[i].fam \in ended => ~Active(rows[i])

\* Requests that race (two tabs refresh with the same cookie, activity, a login
\* elsewhere) never end a session: a family without an active token was revoked for a
\* reason (logout, change, limit, lifetime, idle time or a late reuse).
RacesKeepSession ==
    \A i \in DOMAIN rows :
        \/ rows[i].fam \in reason \/ now >= Expiry(rows[i])
        \/ \E j \in DOMAIN rows : rows[j].fam = rows[i].fam /\ Active(rows[j])

\* Activity that was written for a session survives its token rotation
\* (carryLatestActivity, the guard of TouchFamily).
ActivityIsCarried ==
    \A i \in DOMAIN rows : Active(rows[i]) => rows[i].last >= touched[rows[i].fam]

Changing == \E r \in Requests : request[r].at \in {"changed", "listed"}

\* An access token that a refresh handed out carries the current role of the user, and
\* a disabled user has no accepted access token, once the change is complete
\* (ChangeUserRole, DisableUser and recheckUserActive).
AccessFollowsAccount ==
    ~Changing => \A a \in access : Accepted(a) =>
        ~account.disabled /\ (a.via = "refresh" => a.role = account.role)

\* A session has at most one active refresh token: a rotation consumes its token
\* before it creates the successor (MarkRotatedIfActive).
OneActiveTokenPerSession ==
    \A i, j \in DOMAIN rows : i # j /\ rows[i].fam = rows[j].fam => ~(Active(rows[i]) /\ Active(rows[j]))
=============================================================================
