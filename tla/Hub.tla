-------------------------------- MODULE Hub --------------------------------
(* websocket/hub.go, client.go, revalidate.go, revocable.go and handlers/    *)
(* websocket.go: the WebSocket clients of one replica.  A client is checked, *)
(* upgraded and registered; the hub sends to it, and removes it when it is   *)
(* slow, gone, or its credential is revoked, here, on another replica        *)
(* (through the fan-out) or at the revalidation.                             *)
(*                                                                           *)
(* All connections are of one user.  The credential of a connection is       *)
(* "old" (issued before the user revocation, if there is one) or "new"; for  *)
(* an API key it is the time of the connection that counts.                  *)
EXTENDS Integers, FiniteSets

CONSTANTS
    Sockets,        \* /ws connections
    Streams,        \* pod stream sessions, which the hub can revoke too
    Auth,           \* connection -> "token" or "key"
    Revocations,    \* subset of {"token", "key", "user", "instance"}
    SendBuffer,     \* sendBufferSize
    HubFaults       \* subset of {"lookup", "revalidate", "row"}: a failed lookup of the upgrade or of the
                    \* revalidation, a lost fan-out row

ASSUME HubAssumption ==
    /\ Sockets \cap Streams = {} /\ SendBuffer \in Nat
    /\ Revocations \subseteq {"token", "key", "user", "instance"} /\ HubFaults \subseteq {"lookup", "revalidate", "row"}

VARIABLES
    hubState,       \* "run", "done" (Shutdown was called) or "stopped" (the Run loop ended)
    clients,        \* registered clients
    subs,           \* clients that subscribed to the instance
    revocables,     \* registered stream sessions
    sock,           \* the goroutines of a client: handler, read pump, write pump, and its send channel
    cred,           \* connection -> "none", "old" or "new"
    trusted,        \* connections whose check passed because a lookup failed (history)
    slow,           \* sender -> the clients it found slow and will remove
    revoke,         \* revocation -> "no", "here", "there" (written), "row" (published), "done" or "lost"
    revokedNow      \* stream sessions that the hub revoked, with the reason

hubVars == <<hubState, clients, subs, revocables, sock, cred, trusted, slow, revoke, revokedNow>>

Senders == {"all", "instance"}
NewSocket == [pc |-> "new", reader |-> "off", writer |-> "off", buf |-> 0, closes |-> 0]

HubInit ==
    /\ hubState = "run" /\ clients = {} /\ subs = {} /\ revocables = {} /\ trusted = {}
    /\ sock = [c \in Sockets |-> NewSocket]
    /\ cred = [c \in Sockets \cup Streams |-> "none"]
    /\ slow = [x \in Senders |-> {}]
    /\ revoke = [k \in Revocations |-> "no"]
    /\ revokedNow = [s \in Streams |-> "no"]

Written(k) == k \in Revocations /\ revoke[k] # "no"

\* RevocationStatus, apiKeyRevoked and userInactive: what the database says of the credential.
CredRevoked(c, credential) ==
    \/ Auth[c] = "token" /\ Written("token") /\ credential = "old"
    \/ Auth[c] = "key" /\ Written("key")
    \/ Written("user") /\ credential = "old"

\* A login after the user revocation gives a new token; an API key authenticates with the time now.
Credentials(c) ==
    IF ~Written("user") THEN {"old"} ELSE IF Auth[c] = "key" THEN {"new"} ELSE {"old", "new"}

----------------------------------------------------------------------------
(* The client set, under h.mu.                                               *)

\* removeClientLocked for each of C: nothing for a client that is not registered.
removeClientLocked(C) ==
    /\ clients' = clients \ C
    /\ subs' = subs \ C
    /\ sock' = [c \in Sockets |-> IF c \in C \cap clients THEN [sock[c] EXCEPT !.closes = @ + 1] ELSE sock[c]]

\* disconnectIdentities: the clients and the sessions for which match holds.
disconnectIdentities(match) ==
    /\ removeClientLocked(match \cap clients)
    /\ revocables' = revocables \ match
    /\ revokedNow' = [s \in Streams |-> IF s \in match \cap revocables THEN "revoked" ELSE revokedNow[s]]

----------------------------------------------------------------------------
(* handlers/websocket.go: the upgrade.                                       *)

\* HandleWebSocket or handleAPIKeyUpgrade up to the upgrade.  A store error passes.
checkSession(c) ==
    /\ sock[c].pc = "new"
    /\ \E credential \in Credentials(c) :
        /\ cred' = [cred EXCEPT ![c] = credential]
        /\ \/ sock' = [sock EXCEPT ![c].pc = IF CredRevoked(c, credential) THEN "refused" ELSE "checked"]
              /\ UNCHANGED trusted
           \/ /\ "lookup" \in HubFaults
              /\ sock' = [sock EXCEPT ![c].pc = "checked"] /\ trusted' = trusted \cup {c}
    /\ UNCHANGED <<hubState, clients, subs, revocables, slow, revoke, revokedNow>>

\* NewClientWithIdentity and Register: refused after Shutdown, else the pumps start.
Register(c) ==
    /\ sock[c].pc = "checked"
    /\ IF hubState # "run"
       THEN sock' = [sock EXCEPT ![c].pc = "refused"] /\ UNCHANGED clients
       ELSE /\ clients' = clients \cup {c}
            /\ sock' = [sock EXCEPT ![c].pc = "registered", ![c].reader = "on", ![c].writer = "on"]
    /\ UNCHANGED <<hubState, subs, revocables, cred, trusted, slow, revoke, revokedNow>>

NoRecheck(c) ==
    /\ sock[c].pc = "registered"
    /\ sock' = [sock EXCEPT ![c].pc = "open"]
    /\ UNCHANGED <<hubState, clients, subs, revocables, cred, trusted, slow, revoke, revokedNow>>

\* The check after the registration and DisconnectClient.
Recheck(c) ==
    /\ sock[c].pc = "registered"
    /\ LET gone == IF CredRevoked(c, cred[c]) THEN {c} \cap clients ELSE {}
           removed(C) == [x \in Sockets |-> [sock[x] EXCEPT !.pc = IF x = c THEN "open" ELSE @,
                                                            !.closes = IF x \in C THEN @ + 1 ELSE @]]
       IN \/ /\ clients' = clients \ gone /\ subs' = subs \ gone /\ sock' = removed(gone) /\ UNCHANGED trusted
          \/ /\ "lookup" \in HubFaults
             /\ sock' = removed({}) /\ trusted' = trusted \cup {c} /\ UNCHANGED <<clients, subs>>
    /\ UNCHANGED <<hubState, revocables, cred, slow, revoke, revokedNow>>

----------------------------------------------------------------------------
(* client.go: the pumps.                                                     *)

\* handleInbound: subscribe is ignored for a client that is not registered.
Subscribe(c) ==
    /\ sock[c].reader = "on"
    /\ subs' = IF c \in clients THEN subs \cup {c} ELSE subs
    /\ UNCHANGED <<hubState, clients, revocables, sock, cred, trusted, slow, revoke, revokedNow>>

Unsubscribe(c) ==
    /\ sock[c].reader = "on"
    /\ subs' = subs \ {c}
    /\ UNCHANGED <<hubState, clients, revocables, sock, cred, trusted, slow, revoke, revokedNow>>

\* handleSend: one message, or the closed channel; the connection is closed then.  A failed write,
\* a failed ping and the expiry of the credential end the write pump too.
writePump(c) ==
    /\ sock[c].writer = "on"
    /\ sock' = [sock EXCEPT ![c].writer = IF sock[c].buf > 0 THEN "on" ELSE "off",
                            ![c].buf = IF @ > 0 THEN @ - 1 ELSE @]
    /\ sock[c].buf > 0 \/ sock[c].closes > 0
    /\ UNCHANGED <<hubState, clients, subs, revocables, cred, trusted, slow, revoke, revokedNow>>

WriterEnds(c) ==
    /\ sock[c].writer = "on"
    /\ sock' = [sock EXCEPT ![c].writer = "off"]
    /\ UNCHANGED <<hubState, clients, subs, revocables, cred, trusted, slow, revoke, revokedNow>>

\* readPump: the client leaves, or its connection was closed; then Unregister waits for the Run loop ...
ReaderStops(c) ==
    /\ sock[c].reader = "on"
    /\ sock' = [sock EXCEPT ![c].reader = "leaving"]
    /\ UNCHANGED <<hubState, clients, subs, revocables, cred, trusted, slow, revoke, revokedNow>>

\* ... which takes it in its select ...
RunUnregister(c) ==
    /\ hubState \in {"run", "done"} /\ sock[c].reader = "leaving"
    /\ clients' = clients \ {c} /\ subs' = subs \ {c}
    /\ sock' = [sock EXCEPT ![c].reader = "off", ![c].closes = IF c \in clients THEN @ + 1 ELSE @]
    /\ UNCHANGED <<hubState, revocables, cred, trusted, slow, revoke, revokedNow>>

\* ... or for the shutdown.
UnregisterDone(c) ==
    /\ hubState # "run" /\ sock[c].reader = "leaving"
    /\ sock' = [sock EXCEPT ![c].reader = "off"]
    /\ UNCHANGED <<hubState, clients, subs, revocables, cred, trusted, slow, revoke, revokedNow>>

----------------------------------------------------------------------------
(* hub.go: sending.                                                          *)

\* Run with a broadcast message, and deliverInstance: a send to every client with room; the full
\* ones are remembered, and removed after the read lock was given back (finishSend).
Send(x) ==
    /\ slow[x] = {} /\ (x = "all" => hubState # "stopped")
    /\ LET to == IF x = "all" THEN clients ELSE subs \cap clients
           full == {c \in to : sock[c].buf = SendBuffer}
       IN /\ to # {}
          /\ sock' = [c \in Sockets |-> IF c \in to \ full THEN [sock[c] EXCEPT !.buf = @ + 1] ELSE sock[c]]
          /\ slow' = [slow EXCEPT ![x] = full]
    /\ UNCHANGED <<hubState, clients, subs, revocables, cred, trusted, revoke, revokedNow>>

finishSend(x) ==
    /\ slow[x] # {}
    /\ removeClientLocked(slow[x])
    /\ slow' = [slow EXCEPT ![x] = {}]
    /\ UNCHANGED <<hubState, revocables, cred, trusted, revoke, revokedNow>>

----------------------------------------------------------------------------
(* Revocation and shutdown.                                                  *)

\* A handler of this replica or of another one writes the revocation.
WriteRevocation(k) ==
    /\ revoke[k] = "no"
    /\ \E where \in {"here", "there"} : revoke' = [revoke EXCEPT ![k] = where]
    /\ UNCHANGED <<hubState, clients, subs, revocables, sock, cred, trusted, slow, revokedNow>>

\* DisconnectToken, DisconnectAPIKey, DisconnectUser and DisconnectInstance on this replica.
Disconnect(k) ==
    /\ revoke[k] = "here"
    /\ revoke' = [revoke EXCEPT ![k] = "done"]
    /\ disconnectIdentities(
           CASE k = "token" -> {c \in clients \cup revocables : Auth[c] = "token" /\ cred[c] = "old"}
             [] k = "key" -> {c \in clients \cup revocables : Auth[c] = "key"}
             [] k = "user" -> clients \cup revocables
             [] OTHER -> revocables)
    /\ UNCHANGED <<hubState, cred, trusted, slow>>

\* The other replica publishes it (an instance is not published) ...
PublishRevocation(k) ==
    /\ revoke[k] = "there"
    /\ \/ k # "instance" /\ revoke' = [revoke EXCEPT ![k] = "row"]
       \/ (k = "instance" \/ "row" \in HubFaults) /\ revoke' = [revoke EXCEPT ![k] = "lost"]
    /\ UNCHANGED <<hubState, clients, subs, revocables, sock, cred, trusted, slow, revokedNow>>

\* disconnectUserIssuedBefore, disconnectTokenLocal and disconnectAPIKeyLocal: the connections that a
\* row names; of the user, only those with a credential from before the row.
NamedByRow(k) ==
    IF k = "key" THEN {c \in clients \cup revocables : Auth[c] = "key"}
    ELSE {c \in clients \cup revocables : (k = "token" => Auth[c] = "token") /\ cred[c] = "old"}

\* ... and the poller of this replica applies the row.
FanoutRevoke(k) ==
    /\ revoke[k] = "row" /\ hubState = "run"
    /\ revoke' = [revoke EXCEPT ![k] = "done"]
    /\ disconnectIdentities(NamedByRow(k))
    /\ UNCHANGED <<hubState, cred, trusted, slow>>

\* revalidate: the identities in the database, and the access of the sessions; a failed lookup stops
\* the run, and the rest passes.
revalidate ==
    /\ hubState = "run"
    /\ LET lost == {c \in clients \cup revocables : CredRevoked(c, cred[c]) \/ (c \in Streams /\ Written("instance"))}
       IN /\ lost # {}
          /\ \E found \in IF "revalidate" \in HubFaults THEN SUBSET lost ELSE {lost} : disconnectIdentities(found)
    /\ UNCHANGED <<hubState, cred, trusted, slow, revoke>>

HubShutdown ==
    /\ hubState = "run"
    /\ hubState' = "done"
    /\ UNCHANGED <<clients, subs, revocables, sock, cred, trusted, slow, revoke, revokedNow>>

\* The Run loop sees done: closeAllClients, and revokeAll after the unlock.
closeAllClients ==
    /\ hubState = "done"
    /\ hubState' = "stopped"
    /\ removeClientLocked(clients)
    /\ revocables' = {}
    /\ revokedNow' = [s \in Streams |-> IF s \in revocables THEN "shutdown" ELSE revokedNow[s]]
    /\ UNCHANGED <<cred, trusted, slow, revoke>>

SocketNext ==
    \/ \E c \in Sockets : \/ checkSession(c) \/ Register(c) \/ Recheck(c) \/ Subscribe(c) \/ Unsubscribe(c)
                          \/ writePump(c) \/ WriterEnds(c) \/ ReaderStops(c) \/ RunUnregister(c) \/ UnregisterDone(c)
    \/ \E x \in Senders : Send(x) \/ finishSend(x)

RevocationNext ==
    \/ \E k \in Revocations : WriteRevocation(k) \/ Disconnect(k) \/ PublishRevocation(k) \/ FanoutRevoke(k)
    \/ revalidate \/ HubShutdown \/ closeAllClients

HubNext == SocketNext \/ RevocationNext

HubSpec == HubInit /\ [][HubNext]_hubVars

----------------------------------------------------------------------------
(* Properties.                                                               *)

\* The goroutines of a client.
SocketStates == [pc : {"new", "checked", "registered", "open", "refused"}, reader : {"off", "on", "leaving"},
                 writer : {"off", "on"}, buf : 0 .. SendBuffer, closes : Nat]

\* Types of the hub state.
HubTypeOK ==
    /\ hubState \in {"run", "done", "stopped"}
    /\ clients \subseteq Sockets /\ subs \subseteq Sockets /\ trusted \subseteq Sockets /\ revocables \subseteq Streams
    /\ sock \in [Sockets -> SocketStates]
    /\ cred \in [Sockets \cup Streams -> {"none", "old", "new"}]
    /\ slow \in [Senders -> SUBSET Sockets]
    /\ revoke \in [Revocations -> {"no", "here", "there", "row", "done", "lost"}]
    /\ revokedNow \in [Streams -> {"no", "revoked", "shutdown"}]

\* removeClientLocked, Subscribe and deliverInstance: a send channel is closed at most once and nobody
\* sends on a closed one, however removals by the senders, the revocations, the Run loop and the
\* shutdown cross (each would panic).
SendChannelSafe ==
    \A c \in Sockets : /\ sock[c].closes <= 1
                       /\ c \in clients \cup subs => sock[c].closes = 0

\* HandleWebSocket: after the handler, no client with a revoked credential is left once the replica has
\* disconnected it: the revocation before the registration is seen by the second check.
NoRevokedClient ==
    \A c \in Sockets, k \in Revocations \ {"instance"} :
        /\ sock[c].pc = "open" /\ c \notin trusted /\ revoke[k] = "done"
        /\ \/ k = "token" /\ Auth[c] = "token" /\ cred[c] = "old"
           \/ k = "key" /\ Auth[c] = "key"
           \/ k = "user" /\ cred[c] = "old"
        => c \notin clients

\* disconnectUserIssuedBefore: "a session that the user opened after the revocation stays open" when
\* the revocation came from another replica.
NewSessionsStay ==
    [][\A k \in Revocations, c \in Sockets :
            revoke[k] = "row" /\ revoke'[k] = "done" /\ c \in clients /\ ~CredRevoked(c, cred[c]) => c \in clients']_hubVars

\* Register: "a client is either refused or closed by the shutdown": nobody stays after it.
ShutdownLeavesNobody ==
    hubState = "stopped" => clients = {} /\ subs = {} /\ revocables = {}

\* StartRevalidation: a revoked client is removed in the end, also when the row of the other replica is
\* lost and when the check of the upgrade failed open.
RevokedClientGoes ==
    \A c \in Sockets : []<>(c \in clients /\ CredRevoked(c, cred[c]) => hubState # "run")

\* Unregister: the read pump of a closed connection ends ("preventing goroutine leaks"), whatever the
\* hub does.
ReadPumpEnds ==
    \A c \in Sockets : []<>(sock[c].reader # "leaving")
=============================================================================
