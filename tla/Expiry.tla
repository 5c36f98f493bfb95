------------------------------- MODULE Expiry -------------------------------
(***************************************************************************)
(* When a stack expires.  An instance has a TTL (ttl_minutes > 0, expiry   *)
(* restarted by every deploy), a fixed stop time (ttl_minutes 0 with an    *)
(* expires_at) or neither.  Updates, extends, deploys, stops, the bulk     *)
(* forms of them, the TTL reaper and a delete by a cleanup policy all read *)
(* the row, decide on their copy, and write the WHOLE copy back; the       *)
(* module is about what such a write does to the expiry that another       *)
(* actor stored in between.                                                *)
(*                                                                         *)
(* The long-running operations are reduced to their writes to the instance *)
(* row (module Deployer has their logs, owners and crashes): a start       *)
(* writes the caller's copy, the end reads the row again and writes it.    *)
(* Times are whole units counted from 1; 0 stands for "no expiry".         *)
(***************************************************************************)
EXTENDS Integers

CONSTANTS ExpiryStarts,    \* first rows, with what each request asks for
          ExpiryRequests,  \* request numbers
          MaxTTL,          \* MAX_INSTANCE_TTL_DAYS
          MaxExpiryTime,   \* bound of the clock
          ExpiryFaults     \* "restart" and "reap": failing writes

ASSUME ExpiryAssumption ==
  /\ MaxTTL \in Nat \ {0}
  /\ MaxExpiryTime \in Nat \ {0}
  /\ ExpiryRequests \subseteq Nat \ {0}
  /\ ExpiryStarts # {}

VARIABLES eNow,    \* the clock
          irow,    \* the instance row
          latest,  \* the request (or the reaper) of the newest operation
          ereq,    \* the requests
          reap     \* the TTL reaper of the leader

expiryVars == <<eNow, irow, latest, ereq, reap>>

Bulk == {"bulkDeploy", "bulkStop"}
DeployKinds == {"deploy", "bulkDeploy"}
StopKinds == {"stop", "bulkStop"}
ExtendKinds == {"until", "minutes", "reset", "extend"}
Later(a, b) == IF a > b THEN a ELSE b
Sooner(a, b) == IF a < b THEN a ELSE b
Busy == {"running", "partial", "deploying", "stopping", "cleaning"}

-----------------------------------------------------------------------------
(* The rules for TTLs and stop times.                                      *)

NotSent == -1
ReaperOperation == -1
Refusal == [ttl |-> NotSent, expires |-> 0]

hasFixedStopTime(i) == i.ttl = 0 /\ i.expires # 0

stopTimePassed(i) == hasFixedStopTime(i) /\ i.expires <= eNow

(* requestedExpiry: the TTL and expiry for a sent TTL (or NotSent) and a   *)
(* sent stop time (or 0), with no default TTL.                             *)
requestedExpiry(ttl, stop) ==
  IF stop # 0
  THEN IF ttl = NotSent /\ stop > eNow /\ stop <= eNow + MaxTTL
       THEN [ttl |-> 0, expires |-> stop] ELSE Refusal
  ELSE IF ttl > MaxTTL THEN Refusal
       ELSE [ttl |-> Later(ttl, 0), expires |-> IF ttl > 0 THEN eNow + ttl ELSE 0]

deployExpiry(i) == Later(eNow + Sooner(i.ttl, MaxTTL), i.expires)

(* extendExpiry: minutes more, from the expiry or from now when that has   *)
(* passed, at most the limit from now, never earlier than it was.          *)
extendExpiry(i, minutes) ==
  Later(Sooner(Later(i.expires, eNow) + Sooner(minutes, MaxTTL), eNow + MaxTTL), i.expires)

(* UpdateInstance: what a sent TTL and stop time do to a row.  The stored  *)
(* stop time sent back is no change, nor is the stored TTL next to it.     *)
UpdatedExpiry(i, ttl, stop) ==
  LET echoed  == stop # 0 /\ stop = i.expires
      sent    == IF echoed THEN 0 ELSE stop
      newTTL  == IF echoed /\ ttl = i.ttl THEN NotSent ELSE ttl
  IN  IF newTTL = NotSent /\ sent = 0 THEN [ttl |-> i.ttl, expires |-> i.expires]
      ELSE requestedExpiry(newTTL, sent)

(* ExtendTTL: a new stop time, some minutes, the deprecated TTL body or    *)
(* one more TTL period.                                                    *)
ExtendedExpiry(i, kind, n) ==
  LET same(e) == [ttl |-> i.ttl, expires |-> e]
      none    == i.ttl = 0 /\ i.expires = 0
  IN  CASE kind = "until"   -> IF none \/ n <= Later(eNow, i.expires) \/ n > eNow + MaxTTL
                               THEN Refusal ELSE same(n)
        [] kind = "minutes" -> IF none THEN Refusal ELSE same(extendExpiry(i, n))
        [] kind = "reset"   -> IF n > MaxTTL THEN Refusal
                               ELSE [ttl |-> n, expires |-> eNow + n]
        [] kind = "extend"  -> IF i.ttl = 0 THEN Refusal ELSE same(extendExpiry(i, i.ttl))

DeployableFrom(kind) == {"draft", "stopped", "error", "running"}
                        \cup IF kind \in Bulk THEN {} ELSE {"partial"}
StoppableFrom(kind) == {"running", "deploying"}
                       \cup IF kind \in Bulk THEN {} ELSE {"partial"}

-----------------------------------------------------------------------------
(* The requests.                                                           *)

NoCopy == [live |-> FALSE, status |-> "draft", ttl |-> 0, expires |-> 0]
NewExpiryRequest(ask) == [ask |-> ask, pc |-> "new", known |-> NoCopy, mine |-> NoCopy,
                          seen |-> NoCopy, since |-> 0]

ExpiryInit ==
  /\ eNow = 1
  /\ \E s \in ExpiryStarts :
       /\ irow = s.row
       /\ ereq = [r \in ExpiryRequests |-> NewExpiryRequest(s.asks[r])]
  /\ latest = 0
  /\ reap = [pc |-> "idle", mine |-> NoCopy]

KindOf(r) == ereq[r].ask.kind
AtPoint(r, pc, kinds) == ereq[r].pc = pc /\ KindOf(r) \in kinds
Moves(r, new) == ereq' = [ereq EXCEPT ![r] = new]
Finished(r) == [NewExpiryRequest(ereq[r].ask) EXCEPT !.pc = "done"]
Ends(r) == Moves(r, Finished(r))
With(i, e) == [i EXCEPT !.ttl = e.ttl, !.expires = e.expires]
Copied(r, copy, pc) == [ereq[r] EXCEPT !.pc = pc, !.mine = copy, !.seen = irow, !.since = eNow]

(* The GET of a client that sends the whole instance back.                 *)
Get(r) ==
  /\ AtPoint(r, "new", {"echo"})
  /\ Moves(r, [ereq[r] EXCEPT !.pc = "got", !.known = irow])
  /\ UNCHANGED <<eNow, irow, latest, reap>>

(* UpdateInstance up to its write.                                         *)
UpdateInstance(r) ==
  /\ \/ AtPoint(r, "new", {"update"})
     \/ AtPoint(r, "got", {"echo"})
  /\ LET sent == IF KindOf(r) = "echo" THEN ereq[r].known
                 ELSE [ttl |-> ereq[r].ask.ttl, expires |-> ereq[r].ask.at]
         e    == UpdatedExpiry(irow, sent.ttl, sent.expires)
     IN  IF ~irow.live \/ e = Refusal THEN Ends(r)
         ELSE Moves(r, Copied(r, With(irow, e), "save"))
  /\ UNCHANGED <<eNow, irow, latest, reap>>

(* ExtendTTL up to its write.                                              *)
ExtendTTL(r) ==
  /\ AtPoint(r, "new", ExtendKinds)
  /\ LET e == ExtendedExpiry(irow, KindOf(r), ereq[r].ask.at)
     IN  IF ~irow.live \/ e = Refusal THEN Ends(r)
         ELSE Moves(r, Copied(r, With(irow, e), "save"))
  /\ UNCHANGED <<eNow, irow, latest, reap>>

(* Update of the repository: the whole copy, inserted when the row is gone.*)
Save(r) ==
  /\ ereq[r].pc = "save"
  /\ irow' = ereq[r].mine
  /\ Ends(r)
  /\ UNCHANGED <<eNow, latest, reap>>

(* DeployInstance and BulkDeploy: status and stop time are checked on the  *)
(* copy, then the values are built.                                        *)
DeployInstance(r) ==
  /\ AtPoint(r, "new", DeployKinds)
  /\ IF irow.live /\ irow.status \in DeployableFrom(KindOf(r)) /\ ~stopTimePassed(irow)
     THEN Moves(r, Copied(r, irow, "build"))
     ELSE Ends(r)
  /\ UNCHANGED <<eNow, irow, latest, reap>>

RestartSingleOnly(r) ==
  IF ereq[r].mine.ttl > 0 /\ KindOf(r) = "deploy"
  THEN [ereq[r].mine EXCEPT !.expires = deployExpiry(ereq[r].mine)] ELSE ereq[r].mine
Restarted(r) ==
  IF ereq[r].mine.ttl > 0
  THEN [ereq[r].mine EXCEPT !.expires = deployExpiry(ereq[r].mine)] ELSE ereq[r].mine

(* The end of the build: it fails, or the TTL clock restarts.  The error   *)
(* of the restart's write is dropped.                                      *)
RestartTTL(r) ==
  /\ AtPoint(r, "build", DeployKinds)
  /\ \/ Ends(r) /\ UNCHANGED irow
     \/ /\ ereq[r].mine.ttl > 0
        /\ irow' = Restarted(r)
        /\ Moves(r, [ereq[r] EXCEPT !.pc = "start", !.mine = irow', !.seen = irow'])
     \/ /\ ereq[r].mine.ttl = 0 \/ "restart" \in ExpiryFaults
        /\ Moves(r, [ereq[r] EXCEPT !.pc = "start", !.mine = Restarted(r)])
        /\ UNCHANGED irow
  /\ UNCHANGED <<eNow, latest, reap>>

(* Manager.Deploy refuses, or starts with one write of the copy.           *)
StartDeploy(r) ==
  /\ AtPoint(r, "start", DeployKinds)
  /\ \/ Ends(r) /\ UNCHANGED <<irow, latest>>
     \/ /\ irow' = [ereq[r].mine EXCEPT !.status = "deploying"]
        /\ latest' = r
        /\ Moves(r, [ereq[r] EXCEPT !.pc = "work"])
  /\ UNCHANGED <<eNow, reap>>

(* StopInstance and BulkStop, up to StopWithCharts.                        *)
StopInstance(r) ==
  /\ AtPoint(r, "new", StopKinds)
  /\ IF irow.live /\ irow.status \in StoppableFrom(KindOf(r))
     THEN Moves(r, Copied(r, irow, "start"))
     ELSE Ends(r)
  /\ UNCHANGED <<eNow, irow, latest, reap>>

StartStop(r) ==
  /\ AtPoint(r, "start", StopKinds)
  /\ \/ Ends(r) /\ UNCHANGED <<irow, latest>>
     \/ /\ irow' = [ereq[r].mine EXCEPT !.status = "stopping"]
        /\ latest' = r
        /\ Moves(r, [ereq[r] EXCEPT !.pc = "work"])
  /\ UNCHANGED <<eNow, reap>>

(* finalizeDeploy and finalizeStop read the row; a deploy that another     *)
(* operation replaced leaves the row alone.                                *)
FinalRead(r) ==
  /\ AtPoint(r, "work", DeployKinds \cup StopKinds)
  /\ IF ~irow.live \/ (KindOf(r) \in DeployKinds /\ (irow.status # "deploying" \/ latest # r))
     THEN Ends(r)
     ELSE Moves(r, [ereq[r] EXCEPT !.pc = "end", !.mine = irow, !.seen = irow])
  /\ UNCHANGED <<eNow, irow, latest, reap>>

FinalWrite(r) ==
  /\ AtPoint(r, "end", DeployKinds \cup StopKinds)
  /\ \E status \in IF KindOf(r) \in DeployKinds THEN {"running", "partial", "error"}
                    ELSE {"stopped", "error"} :
       irow' = [ereq[r].mine EXCEPT !.status = status]
  /\ Ends(r)
  /\ UNCHANGED <<eNow, latest, reap>>

(* A cleanup policy lists the instances of its cluster ...                 *)
PolicyList(r) ==
  /\ AtPoint(r, "new", {"policyDelete"})
  /\ IF irow.live THEN Moves(r, Copied(r, irow, "listed")) ELSE Ends(r)
  /\ UNCHANGED <<eNow, irow, latest, reap>>

(* ... and deletes one that its list shows as not busy: after the hook, a  *)
(* draft at once, a stopped or failed one by a clean (MarkCleanStart asks  *)
(* for a status with cluster resources).                                   *)
CleanStatuses == {"running", "partial", "stopped", "error"}
DeleteInstance(r) ==
  /\ AtPoint(r, "listed", {"policyDelete"})
  /\ \/ Ends(r) /\ UNCHANGED <<irow, latest>>   \* busy, refused by the hook, or not marked
     \/ /\ ereq[r].mine.status = "draft"
        /\ irow' = NoCopy
        /\ Ends(r)
        /\ UNCHANGED latest
     \/ /\ ereq[r].mine.status \in {"stopped", "error"}
        /\ irow.live /\ irow.status \in CleanStatuses
        /\ irow' = [irow EXCEPT !.status = "cleaning"]
        /\ latest' = r
        /\ Moves(r, [ereq[r] EXCEPT !.pc = "work"])
  /\ UNCHANGED <<eNow, reap>>

(* The end of that clean: the row goes, or a failed clean keeps it.        *)
FinalDelete(r) ==
  /\ AtPoint(r, "work", {"policyDelete"})
  /\ \/ irow' = NoCopy
     \/ irow' = IF irow.live THEN [irow EXCEPT !.status = "error"] ELSE irow
  /\ Ends(r)
  /\ UNCHANGED <<eNow, latest, reap>>

-----------------------------------------------------------------------------
(* The TTL reaper.                                                         *)

ListExpired == /\ irow.live /\ irow.status \in {"running", "partial"}
               /\ irow.expires # 0 /\ irow.expires < eNow

(* processExpired: the list of a cycle; a failing one lists nothing.       *)
ReapList ==
  /\ reap.pc = "idle" /\ ListExpired
  /\ reap' = [pc |-> "listed", mine |-> irow]
  /\ UNCHANGED <<eNow, irow, latest, ereq>>

(* The stop of a listed instance writes the listed copy.  Without charts   *)
(* or cluster there is no stop, and the copy is written as stopped; that   *)
(* write may fail too, or the term ends (not for ever: up to the clock's   *)
(* bound).                                                                 *)
ReapStop ==
  /\ reap.pc = "listed"
  /\ \/ /\ irow' = [reap.mine EXCEPT !.status = "stopping"]
        /\ latest' = ReaperOperation
        /\ reap' = [pc |-> "work", mine |-> NoCopy]
     \/ /\ irow' = [reap.mine EXCEPT !.status = "stopped"]
        /\ reap' = [pc |-> "idle", mine |-> NoCopy]
        /\ UNCHANGED latest
     \/ /\ "reap" \in ExpiryFaults /\ eNow < MaxExpiryTime
        /\ reap' = [pc |-> "idle", mine |-> NoCopy]
        /\ UNCHANGED <<irow, latest>>
  /\ UNCHANGED <<eNow, ereq>>

(* The stop that the reaper started ends like every stop.                  *)
ReapFinalRead ==
  /\ reap.pc = "work"
  /\ reap' = IF irow.live THEN [pc |-> "end", mine |-> irow] ELSE [pc |-> "idle", mine |-> NoCopy]
  /\ UNCHANGED <<eNow, irow, latest, ereq>>

ReapFinalWrite ==
  /\ reap.pc = "end"
  /\ \E status \in {"stopped", "error"} : irow' = [reap.mine EXCEPT !.status = status]
  /\ reap' = [pc |-> "idle", mine |-> NoCopy]
  /\ UNCHANGED <<eNow, latest, ereq>>

Reaper == ReapList \/ ReapStop \/ ReapFinalRead \/ ReapFinalWrite

ExpiryTick ==
  /\ eNow < MaxExpiryTime
  /\ eNow' = eNow + 1
  /\ UNCHANGED <<irow, latest, ereq, reap>>

RequestStep(r) ==
  \/ Get(r) \/ UpdateInstance(r) \/ ExtendTTL(r) \/ Save(r)
  \/ DeployInstance(r) \/ RestartTTL(r) \/ StartDeploy(r)
  \/ StopInstance(r) \/ StartStop(r) \/ FinalRead(r) \/ FinalWrite(r)
  \/ PolicyList(r) \/ DeleteInstance(r) \/ FinalDelete(r)

ExpiryNext == (\E r \in ExpiryRequests : RequestStep(r)) \/ Reaper \/ ExpiryTick

ExpirySpec == ExpiryInit /\ [][ExpiryNext]_expiryVars

-----------------------------------------------------------------------------
Rows == [live : BOOLEAN, status : {"draft", "stopped", "error"} \cup Busy,
         ttl : Nat, expires : Nat]

ExpiryTypeOK ==
  /\ eNow \in 1 .. MaxExpiryTime
  /\ irow \in Rows
  /\ latest \in ExpiryRequests \cup {0, ReaperOperation}
  /\ \A r \in ExpiryRequests :
       /\ ereq[r].pc \in {"new", "got", "save", "build", "start", "work", "end", "listed", "done"}
       /\ {ereq[r].known, ereq[r].mine, ereq[r].seen} \subseteq Rows
       /\ ereq[r].since \in 0 .. eNow
  /\ reap.pc \in {"idle", "listed", "work", "end"} /\ reap.mine \in Rows

(* An expiry is only ever moved to a time within the limit from then, also *)
(* by a deploy of a TTL set before MAX_INSTANCE_TTL_DAYS was lowered       *)
(* (requestedExpiry, deployExpiry, extendExpiry) and by stale copies.      *)
ExpiryWithinLimit ==
  [][irow'.expires > irow.expires => irow'.expires <= eNow + MaxTTL]_expiryVars

(* A deploy and an extend (but for the deprecated ttl_minutes body) never  *)
(* make the expiry earlier, unless another write changed the expiry since  *)
(* their read.                                                             *)
NeverShortened ==
  [][\A r \in ExpiryRequests :
       /\ ereq'[r] # ereq[r]
       /\ KindOf(r) \in DeployKinds \cup {"until", "minutes", "extend"}
       /\ ereq[r].seen.expires = irow.expires /\ ereq[r].seen.ttl = irow.ttl
       => irow'.expires >= irow.expires]_expiryVars

(* A deploy that started runs with no expiry or one after the moment its   *)
(* request came in, so an expiry of the past does not stop it at once;     *)
(* this holds for bulk deploys and when the restart's own write failed.    *)
DeployOutlivesOldExpiry ==
  \A r \in ExpiryRequests :
    AtPoint(r, "work", DeployKinds) =>
      ereq[r].mine.expires = 0 \/ ereq[r].mine.expires > ereq[r].since

(* GET, change, PUT: a client that sends back the expiry it read changes   *)
(* nothing when the row still has it.                                      *)
EchoKeepsExpiry ==
  \A r \in ExpiryRequests :
    /\ AtPoint(r, "save", {"echo"})
    /\ ereq[r].known.ttl = ereq[r].seen.ttl /\ ereq[r].known.expires = ereq[r].seen.expires
    => ereq[r].mine = ereq[r].seen

(* A running stack past its expiry does not stay so: the reaper stops it,  *)
(* or somebody gives it a later expiry or takes it away.                   *)
Overdue == irow.live /\ irow.status \in {"running", "partial"} /\ irow.expires # 0 /\ irow.expires < eNow
ExpiredIsStopped == []<>~Overdue

(* A redeploy of an instance that was extended keeps the later expiry.     *)
RedeployKeepsExtension ==
  [][\A r \in ExpiryRequests :
       ereq'[r] # ereq[r] /\ KindOf(r) \in DeployKinds => irow'.expires >= irow.expires]_expiryVars

(* A cleanup policy does not delete an instance that is running or in the  *)
(* middle of an operation.                                                 *)
PolicyKeepsBusyStacks ==
  [][\A r \in ExpiryRequests :
       AtPoint(r, "listed", {"policyDelete"}) /\ ereq'[r] # ereq[r] /\ irow' # irow => irow.status \notin Busy]_expiryVars
=============================================================================
