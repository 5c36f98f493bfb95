------------------------------ MODULE Accounts ------------------------------
(* Accounts: the guarded changes of an admin (role, disable, delete), the    *)
(* login through the identity provider with its one-time state and the CLI   *)
(* hand-over, and API keys (handlers/users.go, oidc.go, api_keys.go,         *)
(* database/user_repository.go, sessionstore, middleware/combined_auth.go).  *)
(* Requests of any replica interleave between their database statements; a   *)
(* transaction is one step.  The refresh session of a browser login is the   *)
(* one of Sessions and is not repeated here.                                 *)
EXTENDS Integers, FiniteSets

CONSTANTS
    Locals,         \* IDs of the local accounts, all admins at the start
    AcRequests,
    AcScripts,      \* request -> [kind, caller, target]
    SsoRole,        \* role that the identity provider gives its user
    VerifySlots     \* maxConcurrentArgon2Verifies

ASSUME AccountsAssumption ==
    /\ Locals \subseteq 1 .. 9 /\ AcRequests \subseteq 1 .. 9
    /\ SsoRole \in {"admin", "user"} /\ VerifySlots \in Nat \ {0}

VARIABLES
    people,         \* account rows: exists, name, role, disabled, sso (linked to the subject)
    loginState,     \* login states of the session store: request -> saved, used
    cli,            \* the CLI session: status and the login whose token it holds
    keys,           \* API key -> ID of its account, 0 when there is no key
    slots,          \* verifies that hold a slot of the limiter
    acReq,
    tokens,         \* logins whose token was handed out
    blocked,        \* logins whose token a user block revokes
    \* history
    shut,           \* accounts that a finished request disabled or deleted
    ssoDemoted,     \* an identity provider took the admin role of an account
    handed          \* polls that got the token of the CLI session

acVars == <<people, loginState, cli, keys, slots, acReq, tokens, blocked, shut, ssoDemoted, handed>>

NewId(r) == 10 + r
AcIds == Locals \cup {NewId(r) : r \in AcRequests}
KeyIds == {0} \cup AcRequests
NoCli == [status |-> "none", login |-> 0]
NoPerson == [exists |-> FALSE, name |-> 0, role |-> "user", disabled |-> FALSE, sso |-> FALSE]
Logins == {"sso", "cli", "replay"}
Admins == {"demote", "promote", "disable", "enable", "delete"}

AcInit ==
    /\ people = [i \in AcIds |-> IF i \in Locals THEN [exists |-> TRUE, name |-> i, role |-> "admin", disabled |-> FALSE, sso |-> FALSE]
                                 ELSE NoPerson]
    /\ loginState = [r \in AcRequests |-> "saved"] /\ cli = NoCli
    /\ keys = [k \in KeyIds |-> IF k = 0 THEN 2 ELSE 0] /\ slots = 0
    /\ \E s \in AcScripts : acReq = [r \in AcRequests |->
          [kind |-> s[r].kind, caller |-> s[r].caller, target |-> s[r].target, pc |-> "start", id |-> 0, row |-> NoPerson, late |-> FALSE, ok |-> FALSE]]
    /\ tokens = {} /\ blocked = {} /\ shut = {} /\ ssoDemoted = FALSE /\ handed = {}

Kind(r, kinds, pc) == acReq[r].kind \in kinds /\ acReq[r].pc = pc
Then(r, pc) == acReq' = [acReq EXCEPT ![r].pc = pc]

----------------------------------------------------------------------------
(* Guarded changes.                                                          *)

\* DeleteUser, setDisabled and ChangeUserRole: not the own account; the target must exist, and a role
\* of an SSO account is not changed by hand.
FindTarget(r) ==
    LET t == acReq[r].target
    IN /\ Kind(r, Admins, "start")
       /\ Then(r, IF acReq[r].caller = t \/ ~people[t].exists \/ (acReq[r].kind \in {"demote", "promote"} /\ people[t].sso)
                  THEN "done" ELSE "guard")
       /\ UNCHANGED <<people, loginState, cli, keys, slots, tokens, blocked, shut, ssoDemoted, handed>>

AllAdmins(rows) == {i \in AcIds : rows[i].exists /\ rows[i].role = "admin"}

\* lockAdminRows, without the disabled ones.
EnabledAdmins(rows) == {i \in AcIds : rows[i].exists /\ rows[i].role = "admin" /\ ~rows[i].disabled}

\* Inside the lock the caller must still be an enabled admin.
CallerIsAdmin(r) == acReq[r].caller \in EnabledAdmins(people)

\* wouldRemoveLastAdmin
LastAdmin(t) == t \in EnabledAdmins(people) /\ EnabledAdmins(people) \ {t} = {}

Removes(kind) == kind \in {"demote", "disable", "delete"}

Changed(kind, row) ==
    CASE kind = "demote" -> [row EXCEPT !.role = "user"]
      [] kind = "promote" -> [row EXCEPT !.role = "admin"]
      [] kind = "disable" -> [row EXCEPT !.disabled = TRUE]
      [] kind = "enable" -> [row EXCEPT !.disabled = FALSE]
      [] OTHER -> NoPerson

\* guardedAdminChange: one transaction under the locks of all admin rows.  A role that is already set
\* ends the request; everything else is followed by the revocation.
guardedAdminChange(r) ==
    LET t == acReq[r].target
        new == Changed(acReq[r].kind, people[t])
        allowed == CallerIsAdmin(r) /\ people[t].exists /\ ~(Removes(acReq[r].kind) /\ LastAdmin(t))
    IN /\ Kind(r, Admins, "guard")
       /\ people' = IF allowed THEN [people EXCEPT ![t] = new] ELSE people
       /\ Then(r, IF ~allowed \/ (acReq[r].kind \in {"demote", "promote"} /\ new = people[t]) THEN "done" ELSE "block")
       /\ UNCHANGED <<loginState, cli, keys, slots, tokens, blocked, shut, ssoDemoted, handed>>

Signed(i) == {q \in AcRequests : acReq[q].kind \in Logins /\ acReq[q].id = i /\ acReq[q].pc \in {"recheck", "answer", "done"}}

\* BlockUser: every token of the account that was issued at or before now.
blockIssuedTokens(r) ==
    /\ Kind(r, Admins, "block")
    /\ blocked' = blocked \cup Signed(acReq[r].target)
    /\ shut' = IF acReq[r].kind \in {"disable", "delete"} THEN shut \cup {acReq[r].target}
               ELSE IF acReq[r].kind = "enable" THEN shut \ {acReq[r].target} ELSE shut
    /\ Then(r, IF acReq[r].kind = "delete" THEN "keys" ELSE "done")
    /\ UNCHANGED <<people, loginState, cli, keys, slots, tokens, ssoDemoted, handed>>

DeleteAllForUser(r) ==
    /\ Kind(r, Admins, "keys")
    /\ keys' = [k \in KeyIds |-> IF keys[k] = acReq[r].target THEN 0 ELSE keys[k]]
    /\ Then(r, "done")
    /\ UNCHANGED <<people, loginState, cli, slots, tokens, blocked, shut, ssoDemoted, handed>>

----------------------------------------------------------------------------
(* Login through the identity provider.                                      *)

\* Authorize and CLIAuth save the state before the login starts; a replay carries the state of request 1.
StateOf(r) == IF acReq[r].kind = "replay" THEN 1 ELSE r

\* ConsumeOIDCState: read and delete under the row lock.
ConsumeOIDCState(r) == [loginState EXCEPT ![StateOf(r)] = "used"]

CallbackState(r) ==
    /\ Kind(r, Logins, "start")
    /\ IF loginState[StateOf(r)] = "saved"
       THEN /\ loginState' = ConsumeOIDCState(r) /\ Then(r, "find")
            /\ cli' = IF acReq[r].kind = "cli" THEN [status |-> "pending", login |-> r] ELSE cli
       ELSE Then(r, "done") /\ UNCHANGED <<loginState, cli>>
    /\ UNCHANGED <<people, keys, slots, tokens, blocked, shut, ssoDemoted, handed>>

ByExternalID == {i \in AcIds : people[i].exists /\ people[i].sso}
ByUsername(n) == {i \in AcIds : people[i].exists /\ people[i].name = n}

\* provisionUser reads: the linked account, else the account of that name, else it creates one.
provisionUser(r) ==
    LET found == IF ByExternalID # {} THEN ByExternalID ELSE ByUsername(acReq[r].target)
    IN /\ Kind(r, Logins, "find")
       /\ IF found = {} THEN Then(r, "create")
          ELSE \E i \in found : acReq' = [acReq EXCEPT ![r].id = i, ![r].row = people[i],
                                                      ![r].pc = IF people[i].disabled THEN "done" ELSE "sync"]
       /\ UNCHANGED <<people, loginState, cli, keys, slots, tokens, blocked, shut, ssoDemoted, handed>>

\* UpdateProfile writes the columns of the profile, the link and the role of an SSO account.
UpdateProfile(now, row) == [now EXCEPT !.sso = TRUE, !.role = SsoRole]

\* updateExistingOIDCUser and linkLocalUserToOIDC.  The unique index refuses a second account of the subject.
SyncUser(r) ==
    LET i == acReq[r].id
    IN /\ Kind(r, Logins, "sync")
       /\ IF people[i].exists /\ ByExternalID \subseteq {i}
          THEN /\ people' = [people EXCEPT ![i] = UpdateProfile(@, acReq[r].row)]
               /\ ssoDemoted' = (ssoDemoted \/ (people[i].role = "admin" /\ SsoRole # "admin"))
               /\ Then(r, "sign")
          ELSE Then(r, "done") /\ UNCHANGED <<people, ssoDemoted>>
       /\ UNCHANGED <<loginState, cli, keys, slots, tokens, blocked, shut, handed>>

\* The unique indexes on the name and on the subject.
Duplicate(n) == ByExternalID # {} \/ ByUsername(n) # {}

\* createOIDCUser: after a duplicate it returns the account of the subject, if that is the one.
createOIDCUser(r) ==
    LET n == acReq[r].target
    IN /\ Kind(r, Logins, "create")
       /\ IF ~Duplicate(n)
          THEN /\ people' = [people EXCEPT ![NewId(r)] = [exists |-> TRUE, name |-> n, role |-> SsoRole, disabled |-> FALSE, sso |-> TRUE]]
               /\ acReq' = [acReq EXCEPT ![r].id = NewId(r), ![r].pc = "sign"]
          ELSE /\ IF ByExternalID = {} THEN Then(r, "done")
                  ELSE \E i \in ByExternalID : acReq' = [acReq EXCEPT ![r].id = i, ![r].pc = "sign"]
               /\ UNCHANGED people
       /\ UNCHANGED <<loginState, cli, keys, slots, tokens, blocked, shut, ssoDemoted, handed>>

SignLogin(r) ==
    /\ Kind(r, Logins, "sign") /\ Then(r, "recheck")
    /\ UNCHANGED <<people, loginState, cli, keys, slots, tokens, blocked, shut, ssoDemoted, handed>>

\* recheckUserActive, after the token was signed.
recheckUserActive(r) ==
    /\ Kind(r, Logins, "recheck")
    /\ Then(r, IF people[acReq[r].id].exists /\ ~people[acReq[r].id].disabled THEN "answer" ELSE "done")
    /\ UNCHANGED <<people, loginState, cli, keys, slots, tokens, blocked, shut, ssoDemoted, handed>>

\* The browser gets the token; a CLI login stores it in its session (UpdateCLIAuth), which may be gone.
AnswerLogin(r) ==
    /\ Kind(r, Logins, "answer") /\ Then(r, "done")
    /\ IF acReq[r].kind = "cli"
       THEN /\ cli' = IF cli.status = "pending" THEN [cli EXCEPT !.status = "completed"] ELSE cli
            /\ UNCHANGED tokens
       ELSE tokens' = tokens \cup {r} /\ UNCHANGED cli
    /\ UNCHANGED <<people, loginState, keys, slots, blocked, shut, ssoDemoted, handed>>

CliExpires ==
    /\ cli.status \in {"pending", "completed"} /\ cli' = [cli EXCEPT !.status = "none"]
    /\ UNCHANGED <<people, loginState, keys, slots, acReq, tokens, blocked, shut, ssoDemoted, handed>>

\* CLIToken looks first: pending and missing sessions are answered at once.
GetCLIAuth(r) ==
    /\ Kind(r, {"poll"}, "start")
    /\ Then(r, IF cli.status = "completed" THEN "consume" ELSE IF cli.status = "pending" THEN "start" ELSE "done")
    /\ UNCHANGED <<people, loginState, cli, keys, slots, tokens, blocked, shut, ssoDemoted, handed>>

ConsumeCLIAuth(r) ==
    /\ Kind(r, {"poll"}, "consume") /\ Then(r, "done")
    /\ IF cli.status = "completed"
       THEN cli' = [cli EXCEPT !.status = "none"] /\ tokens' = tokens \cup {cli.login} /\ handed' = handed \cup {r}
       ELSE UNCHANGED <<cli, tokens, handed>>
    /\ UNCHANGED <<people, loginState, keys, slots, blocked, shut, ssoDemoted>>

----------------------------------------------------------------------------
(* API keys.                                                                 *)

\* CreateAPIKey looks for the account, then inserts the key; the two are not one transaction.
CreateKeyCheck(r) ==
    /\ Kind(r, {"createKey"}, "start")
    /\ Then(r, IF people[acReq[r].target].exists THEN "insert" ELSE "done")
    /\ UNCHANGED <<people, loginState, cli, keys, slots, tokens, blocked, shut, ssoDemoted, handed>>

CreateAPIKey(r) ==
    /\ Kind(r, {"createKey"}, "insert") /\ Then(r, "done")
    /\ keys' = [keys EXCEPT ![r] = acReq[r].target]
    /\ UNCHANGED <<people, loginState, cli, slots, tokens, blocked, shut, ssoDemoted, handed>>

DeleteAPIKey(r) ==
    /\ Kind(r, {"deleteKey"}, "start") /\ Then(r, "done")
    /\ \E k \in {j \in KeyIds : keys[j] = acReq[r].target} \cup {0} : keys' = [keys EXCEPT ![k] = 0]
    /\ UNCHANGED <<people, loginState, cli, slots, tokens, blocked, shut, ssoDemoted, handed>>

\* authenticateAPIKey: the key, a slot for the verify (503 without one), then the account.
FindKey(r) ==
    /\ Kind(r, {"useKey"}, "start")
    /\ acReq' = [acReq EXCEPT ![r].late = acReq[r].target \in shut,
                             ![r].pc = IF \E k \in KeyIds : keys[k] = acReq[r].target THEN "verify" ELSE "done"]
    /\ UNCHANGED <<people, loginState, cli, keys, slots, tokens, blocked, shut, ssoDemoted, handed>>

acquire(r) ==
    /\ Kind(r, {"useKey"}, "verify")
    /\ IF slots < VerifySlots THEN slots' = slots + 1 /\ Then(r, "verifying") ELSE Then(r, "done") /\ UNCHANGED slots
    /\ UNCHANGED <<people, loginState, cli, keys, tokens, blocked, shut, ssoDemoted, handed>>

\* The hash matches, or not.
release(r) ==
    /\ Kind(r, {"useKey"}, "verifying") /\ slots' = slots - 1
    /\ Then(r, "user") \/ Then(r, "done")
    /\ UNCHANGED <<people, loginState, cli, keys, tokens, blocked, shut, ssoDemoted, handed>>

\* The account of the key exists and is enabled.
KeyUserActive(r) == people[acReq[r].target].exists /\ ~people[acReq[r].target].disabled

KeyUser(r) ==
    /\ Kind(r, {"useKey"}, "user")
    /\ acReq' = [acReq EXCEPT ![r].pc = "done", ![r].ok = KeyUserActive(r)]
    /\ UNCHANGED <<people, loginState, cli, keys, slots, tokens, blocked, shut, ssoDemoted, handed>>

AcNext ==
    \/ CliExpires
    \/ \E r \in AcRequests :
          \/ FindTarget(r) \/ guardedAdminChange(r) \/ blockIssuedTokens(r) \/ DeleteAllForUser(r)
          \/ CallbackState(r) \/ provisionUser(r) \/ SyncUser(r) \/ createOIDCUser(r) \/ SignLogin(r) \/ recheckUserActive(r) \/ AnswerLogin(r)
          \/ GetCLIAuth(r) \/ ConsumeCLIAuth(r)
          \/ CreateKeyCheck(r) \/ CreateAPIKey(r) \/ DeleteAPIKey(r) \/ FindKey(r) \/ acquire(r) \/ release(r) \/ KeyUser(r)

AcSpec == AcInit /\ [][AcNext]_acVars

----------------------------------------------------------------------------
(* Properties.                                                               *)

\* Every variable has its type, and the slots in use are the verifies that run.
AcTypeOK ==
    /\ \A i \in AcIds : people[i].role \in {"admin", "user"}
    /\ cli.status \in {"none", "pending", "completed"} /\ tokens \subseteq AcRequests /\ blocked \subseteq AcRequests
    /\ slots = Cardinality({r \in AcRequests : acReq[r].pc = "verifying"}) /\ slots <= VerifySlots

\* Admins who demote, disable or delete each other at the same time leave one enabled admin, unless
\* the identity provider itself took the role of an account (guardedAdminChange).
AnAdminRemains == ssoDemoted \/ \E i \in AcIds : people[i].exists /\ people[i].role = "admin" /\ ~people[i].disabled

\* When the request that disabled or deleted an account is past its block, no login of that account
\* holds a token that still works, however the login and the request interleave (recheckUserActive).
ShutAccountHasNoToken ==
    \A q \in tokens : LET i == acReq[q].id
                      IN i \in shut /\ (~people[i].exists \/ people[i].disabled) => q \in blocked

\* A login never enables an account that an admin disabled (UpdateProfile writes its columns only).
LoginKeepsDisabled ==
    [][\A i \in AcIds : people[i].exists /\ people[i].disabled /\ people'[i].exists /\ ~people'[i].disabled
          => \E r \in AcRequests : acReq[r].kind = "enable" /\ acReq[r].pc = "guard"]_acVars

\* A login state serves one callback, and the token of a CLI session goes to one poll.
OneTimeValuesServeOnce ==
    /\ \A q, r \in AcRequests : q # r /\ {acReq[q].kind, acReq[r].kind} \subseteq Logins /\ StateOf(q) = StateOf(r)
          => acReq[q].pc \in {"start", "done"} \/ acReq[r].pc \in {"start", "done"}
    /\ Cardinality(handed) <= 1

\* Concurrent first logins of one subject make one account, and no name belongs to two accounts.
OneAccountPerSubject == Cardinality(ByExternalID) <= 1 /\ \A i \in AcIds : Cardinality(ByUsername(people[i].name)) <= 1

\* An API key of an account that was disabled or deleted before the request is refused, also a key
\* that was created while the account was being deleted (authenticateAPIKey reads the account).
KeyFollowsAccount ==
    \A r \in AcRequests : acReq[r].late /\ acReq[r].ok
       => \E q \in AcRequests : acReq[q].kind = "enable" /\ acReq[q].pc \notin {"start", "guard"}
=============================================================================
