------------------------------- MODULE PodDial -------------------------------
(* The dial of a pod stream to the API server: the port-forward dial         *)
(* (k8s/port_forward_dial.go: dialPodConn, its dialers and connGuard) and    *)
(* the exec upgrade (k8s/pod_exec_dial.go: boundedRoundTripper).  Both try a *)
(* WebSocket and fall back to SPDY.  The dial runs in a goroutine of its own *)
(* because client-go does not follow the context everywhere; the caller      *)
(* waits for its result, its own context and the bound, and what arrives     *)
(* after it gave up must be closed.  The server may stall at any point.      *)
EXTENDS Naturals, FiniteSets

CONSTANTS
    DialKinds,      \* subset of {"forward", "exec"}
    Proxied,        \* subset of BOOLEAN: is there a proxy (no connGuard then)
    DialFaults      \* subset of {"lateGuard"}: the guard goroutine is scheduled only after the dial

ASSUME PodDialAssumption == DialKinds \subseteq {"forward", "exec"} /\ Proxied \subseteq BOOLEAN

VARIABLES
    setup,          \* [kind, proxy]
    ctx,            \* the caller's context: "live" or "ended"
    bound,          \* podUpgradeBound has passed for the current leg
    dialer,         \* "ws", "connect", "store", "upgrade" or "ended"
    raw,            \* the connection: [open, deadline, known : the guard has it]
    guard,          \* the guard goroutine of a port-forward: "none", "new", "waits" or "ended"
    stop,           \* the channel that ends it is closed
    chan,           \* "empty", "conn", "upgradeFailure" or "error"
    waiter          \* [at : "waits", "conn", "streams", "gaveUp" or "failed"; why; reaper : BOOLEAN]

dialVars == <<setup, ctx, bound, dialer, raw, guard, stop, chan, waiter>>

NoConn == [open |-> FALSE, deadline |-> FALSE, known |-> FALSE]

DialInit ==
    /\ setup \in [kind : DialKinds, proxy : Proxied]
    /\ ctx = "live" /\ bound = FALSE /\ dialer = "ws" /\ raw = NoConn /\ guard = "none" /\ stop = FALSE /\ chan = "empty"
    /\ waiter = [at |-> "waits", why |-> "", reaper |-> FALSE]

Guarded == ~setup.proxy

\* What the dial sees of its context: cancelled, or past the bound, or cancelled by the caller's return.
CtxDone == ctx = "ended" \/ bound \/ (setup.kind = "forward" /\ waiter.at # "waits")

----------------------------------------------------------------------------
(* The dial goroutine.                                                       *)

\* wsTunnelDialer and the WebSocket executor: the handshake follows the deadline of the context, not
\* its end; a failed upgrade falls back to SPDY, in the same goroutine for a port-forward.
WebSocket ==
    /\ dialer = "ws"
    /\ \/ ~bound /\ raw' = [NoConn EXCEPT !.open = TRUE] /\ chan' = "conn" /\ dialer' = "ended" /\ UNCHANGED guard
       \/ ~bound /\ setup.kind = "forward" /\ dialer' = "connect" /\ UNCHANGED <<raw, chan>>
              /\ guard' = IF Guarded THEN "new" ELSE "none"
       \/ ~bound /\ setup.kind = "exec" /\ chan' = "upgradeFailure" /\ dialer' = "ended" /\ UNCHANGED <<raw, guard>>
       \/ chan' = "error" /\ dialer' = "ended" /\ UNCHANGED <<raw, guard>>
    /\ UNCHANGED <<setup, ctx, bound, stop, waiter>>

\* connGuard.dial: DialContext follows the context; the connection gets its deadline at once.
Connect ==
    /\ dialer = "connect"
    /\ \/ ~CtxDone /\ raw' = [open |-> TRUE, deadline |-> Guarded, known |-> FALSE] /\ dialer' = "store" /\ UNCHANGED <<chan, stop>>
       \/ dialer' = "ended" /\ chan' = "error" /\ stop' = TRUE /\ UNCHANGED raw
    /\ UNCHANGED <<setup, ctx, bound, guard, waiter>>

\* g.conn = conn, under the mutex of the guard.
StoreConn ==
    /\ dialer = "store"
    /\ raw' = [raw EXCEPT !.known = Guarded] /\ dialer' = "upgrade"
    /\ UNCHANGED <<setup, ctx, bound, guard, stop, chan, waiter>>

clearDeadline(c) == [c EXCEPT !.deadline = FALSE]

\* The upgrade response.  Its read ends with a closed connection, or at the deadline if it has one;
\* else only the server ends it.  (The exec caller clears the deadline in guardedUpgrader, after it
\* has the response.)
UpgradeAnswered ==
    /\ dialer = "upgrade" /\ raw.open
    /\ \/ ~(raw.deadline /\ bound) /\ raw' = (IF setup.kind = "forward" THEN clearDeadline(raw) ELSE raw) /\ chan' = "conn"
       \/ raw' = [raw EXCEPT !.open = FALSE] /\ chan' = "error"
    /\ dialer' = "ended" /\ stop' = TRUE
    /\ UNCHANGED <<setup, ctx, bound, guard, waiter>>

UpgradeCut ==
    /\ dialer = "upgrade" /\ (~raw.open \/ (raw.deadline /\ bound))
    /\ raw' = [raw EXCEPT !.open = FALSE] /\ chan' = "error" /\ dialer' = "ended" /\ stop' = TRUE
    /\ UNCHANGED <<setup, ctx, bound, guard, waiter>>

----------------------------------------------------------------------------
(* The guard goroutine of spdyPodDialer.                                     *)

CloseRaw(c) == IF c.known THEN [c EXCEPT !.open = FALSE] ELSE c

\* It starts to wait: at once, or, as a goroutine may, only now.
GuardStarts ==
    /\ guard = "new" /\ (~stop \/ "lateGuard" \in DialFaults)
    /\ guard' = "waits"
    /\ UNCHANGED <<setup, ctx, bound, dialer, raw, stop, chan, waiter>>

\* A goroutine that waits is woken by the channel that is ready first; one that comes late may take either.
GuardWakes ==
    /\ guard = "waits"
    /\ \/ CtxDone /\ (stop => "lateGuard" \in DialFaults) /\ raw' = CloseRaw(raw)
       \/ stop /\ UNCHANGED raw
    /\ guard' = "ended"
    /\ UNCHANGED <<setup, ctx, bound, dialer, stop, chan, waiter>>

\* A guard that was never scheduled before the dial ended: it finds stop closed.
GuardSkipped ==
    /\ guard = "new" /\ stop /\ "lateGuard" \notin DialFaults
    /\ guard' = "ended"
    /\ UNCHANGED <<setup, ctx, bound, dialer, raw, stop, chan, waiter>>

----------------------------------------------------------------------------
(* The caller: dialPodConn and RoundTrip.                                    *)

\* The result.  An exec upgrade that failed is tried again as SPDY, with a new bound, unless the
\* context has ended; its connection loses its deadline in NewConnection.
TakeResult ==
    /\ waiter.at = "waits" /\ chan # "empty"
    /\ chan' = "empty"
    /\ CASE chan = "conn" ->
              /\ waiter' = [waiter EXCEPT !.at = "conn"]
              /\ raw' = (IF setup.kind = "exec" THEN clearDeadline(raw) ELSE raw) /\ UNCHANGED <<dialer, bound>>
         [] chan = "upgradeFailure" /\ ctx = "live" -> dialer' = "connect" /\ bound' = FALSE /\ UNCHANGED <<raw, waiter>>
         [] OTHER -> waiter' = [waiter EXCEPT !.at = "failed", !.why = "dial"] /\ UNCHANGED <<raw, dialer, bound>>
    /\ UNCHANGED <<setup, ctx, guard, stop>>

\* OpenPodPortStream: the error stream, then the data stream; a failure closes the connection.
OpenPodPortStream ==
    /\ setup.kind = "forward" /\ waiter.at = "conn"
    /\ \/ waiter' = [waiter EXCEPT !.at = "streams"] /\ UNCHANGED raw
       \/ waiter' = [waiter EXCEPT !.at = "failed", !.why = "stream"] /\ raw' = [raw EXCEPT !.open = FALSE]
    /\ UNCHANGED <<setup, ctx, bound, dialer, guard, stop, chan>>

\* abandon and the end of dialPodConn: a goroutine waits for the result; the exec caller also closes
\* the raw connection.
GiveUp(why) ==
    /\ waiter' = [at |-> "gaveUp", why |-> why, reaper |-> TRUE]
    /\ raw' = IF setup.kind = "exec" /\ Guarded THEN CloseRaw(raw) ELSE raw
    /\ UNCHANGED <<setup, ctx, bound, dialer, guard, stop, chan>>

ContextEnds == waiter.at = "waits" /\ ctx = "ended" /\ GiveUp("context")

\* The bound; for an exec a result that is ready wins.
TimesOut == waiter.at = "waits" /\ bound /\ (setup.kind = "exec" => chan = "empty")

BoundEnds == TimesOut /\ GiveUp("bound")

\* The goroutine that closes what comes late.
ReapNothing(c) == c

CloseLate(c) == [c EXCEPT !.open = FALSE]

Reap ==
    /\ waiter.reaper /\ chan # "empty"
    /\ raw' = (IF chan = "conn" THEN CloseLate(raw) ELSE raw)
    /\ chan' = "empty" /\ waiter' = [waiter EXCEPT !.reaper = FALSE]
    /\ UNCHANGED <<setup, ctx, bound, dialer, guard, stop>>

----------------------------------------------------------------------------
(* The surroundings: the session is ended, the time passes.                  *)

EndContext ==
    /\ ctx = "live" /\ ctx' = "ended"
    /\ UNCHANGED <<setup, bound, dialer, raw, guard, stop, chan, waiter>>

BoundPasses ==
    /\ ~bound /\ bound' = TRUE
    /\ UNCHANGED <<setup, ctx, dialer, raw, guard, stop, chan, waiter>>

----------------------------------------------------------------------------
WaiterSteps == TakeResult \/ OpenPodPortStream \/ ContextEnds \/ BoundEnds
GuardSteps == GuardStarts \/ GuardWakes \/ GuardSkipped

DialNext ==
    \/ WebSocket \/ Connect \/ StoreConn \/ UpgradeAnswered \/ UpgradeCut
    \/ WaiterSteps \/ GuardSteps \/ Reap
    \/ EndContext \/ BoundPasses

DialSpec == DialInit /\ [][DialNext]_dialVars

----------------------------------------------------------------------------
\* The type invariant of this module.
DialTypeOK ==
    /\ setup \in [kind : DialKinds, proxy : Proxied] /\ ctx \in {"live", "ended"} /\ bound \in BOOLEAN /\ stop \in BOOLEAN
    /\ dialer \in {"ws", "connect", "store", "upgrade", "ended"}
    /\ raw \in [open : BOOLEAN, deadline : BOOLEAN, known : BOOLEAN]
    /\ guard \in {"none", "new", "waits", "ended"} /\ chan \in {"empty", "conn", "upgradeFailure", "error"}
    /\ waiter.at \in {"waits", "conn", "streams", "gaveUp", "failed"} /\ waiter.reaper \in BOOLEAN

\* A connection that the caller was given is open and has no deadline left: no goroutine of the dial
\* closes it later, and it does not break when the bound of the upgrade passes.
DeliveredConnectionStays == waiter.at \in {"conn", "streams"} => raw.open /\ ~raw.deadline

\* A dial that the caller gave up leaves no connection: when every goroutine of it has ended, it is
\* closed ("an upgrade that completes after a revoke would start the command after the session was
\* audited as ended").
NoConnectionLeft ==
    waiter.at \in {"gaveUp", "failed"} /\ dialer = "ended" /\ guard \in {"none", "ended"} /\ ~waiter.reaper => ~raw.open

\* A dialled connection has one owner: the caller, who finds it open, or nobody, and then it is closed.
ConnectionHasOneOwner == DeliveredConnectionStays /\ NoConnectionLeft

\* An exec upgrade is reported as too slow only when it is, never when its result is there: the inner
\* context also ends after the result was sent ("a result that is ready wins").
ReadyResultWins ==
    [][setup.kind = "exec" /\ waiter'.why = "bound" /\ waiter.why # "bound" => bound /\ chan = "empty"]_dialVars

CallerReturned == waiter.at # "waits"

\* Every goroutine of a dial without a proxy has ended.
GoroutinesEnded == Guarded => dialer = "ended" /\ guard \in {"none", "ended"} /\ ~waiter.reaper

\* The dial goroutine ends, also with a proxy (dialPodConn: "The dial goroutine always ends with the bound").
DialAlwaysEnds == <>[](dialer = "ended")
=============================================================================
