---------------------------- MODULE ExpiryWarner ----------------------------
(* The expiry warner (internal/ttl/warner.go) with the instance writes that  *)
(* it races with: handlers that read a row, change it and save the copy      *)
(* (stack_instance_repository.go, Update).  Two warners stand for the old    *)
(* and the new leader around a handover.                                     *)
EXTENDS Integers, FiniteSets

CONSTANTS
    WarnInstances,  \* stack instances
    Warners,        \* warners that run at the same time
    Expiries,       \* possible values of expires_at
    Threshold,      \* w.threshold
    Tolerance,      \* expiryMatchTolerance
    MaxWarnTime,    \* bound: the last moment
    MaxSaves        \* bound: saves of an instance

NoExpiry == 0

ASSUME WarnerAssumption == Expiries \subseteq Nat \ {NoExpiry} /\ Tolerance \in Nat \ {0}

VARIABLES
    warnClock,
    instRow,        \* stack_instances: [running, expires, warned]
    saves,          \* handlers between their read and their save
    savesDone,      \* bound counter
    warner,         \* [list, found, mark]: what a cycle still has to do
    epoch,          \* ghost: how often the expiry time of an instance changed
    warnings,       \* ghost: warnings sent, by instance and epoch
    unsent          \* ghost: marks of a warner that died before it notified

warnVars == <<warnClock, instRow, saves, savesDone, warner, epoch, warnings, unsent>>

WarnTypeOK ==
    /\ warnClock \in 0 .. MaxWarnTime
    /\ instRow \in [WarnInstances -> [running : BOOLEAN, expires : Expiries \cup {NoExpiry}, warned : BOOLEAN]]
    /\ warnings \in [WarnInstances -> [0 .. MaxSaves -> 0 .. 2]]

WarnInit ==
    /\ warnClock = 0
    /\ instRow = [i \in WarnInstances |->
        [running |-> TRUE, expires |-> CHOOSE e \in Expiries : \A f \in Expiries : e <= f, warned |-> FALSE]]
    /\ saves = {} /\ savesDone = 0
    /\ warner = [w \in Warners |-> [list |-> {}, mark |-> {}]]
    /\ epoch = [i \in WarnInstances |-> 0]
    /\ warnings = [i \in WarnInstances |-> [n \in 0 .. MaxSaves |-> 0]]
    /\ unsent = {}

SameExpiry(a, b) ==
    a = b \/ (a # NoExpiry /\ b # NoExpiry /\ a - b < Tolerance /\ b - a < Tolerance)

----------------------------------------------------------------------------
(* The warner.                                                               *)

ListExpiringSoon ==
    {i \in WarnInstances :
        /\ instRow[i].running /\ ~instRow[i].warned
        /\ instRow[i].expires > warnClock /\ instRow[i].expires <= warnClock + Threshold}

\* check: list the instances without a warning for their expiry time.
CheckList(w) ==
    /\ warner[w] = [list |-> {}, mark |-> {}] /\ ListExpiringSoon # {}
    /\ warner' = [warner EXCEPT ![w].list =
        {[inst |-> i, expires |-> instRow[i].expires] : i \in ListExpiringSoon}]
    /\ UNCHANGED <<warnClock, instRow, saves, savesDone, epoch, warnings, unsent>>

MarkAny(l) == instRow[l.inst].expires # NoExpiry

\* MarkExpiryWarned: no warning yet, and the expiry time is still the listed one.
MarkExpiryWarned(l) ==
    /\ ~instRow[l.inst].warned
    /\ SameExpiry(instRow[l.inst].expires, l.expires)

\* check: mark the next instance; one that does not match any more is left out.
Mark(w, l) ==
    /\ l \in warner[w].list /\ warner[w].mark = {}
    /\ IF MarkExpiryWarned(l)
       THEN /\ instRow' = [instRow EXCEPT ![l.inst].warned = TRUE]
            /\ warner' = [warner EXCEPT ![w] = [list |-> @.list \ {l},
                            mark |-> {[inst |-> l.inst, epoch |-> epoch[l.inst]]}]]
       ELSE /\ warner' = [warner EXCEPT ![w].list = @ \ {l}]
            /\ UNCHANGED instRow
    /\ UNCHANGED <<warnClock, saves, savesDone, epoch, warnings, unsent>>

\* check: notify after the mark.
Notify(w, m) ==
    /\ m \in warner[w].mark
    /\ warner' = [warner EXCEPT ![w].mark = {}]
    /\ warnings' = [warnings EXCEPT ![m.inst][m.epoch] = IF @ < 2 THEN @ + 1 ELSE @]
    /\ UNCHANGED <<warnClock, instRow, saves, savesDone, epoch, unsent>>

\* The process is killed between two steps.
WarnerKilled(w) ==
    /\ warner[w] # [list |-> {}, mark |-> {}]
    /\ warner' = [warner EXCEPT ![w] = [list |-> {}, mark |-> {}]]
    /\ unsent' = unsent \cup warner[w].mark
    /\ UNCHANGED <<warnClock, instRow, saves, savesDone, epoch, warnings>>

----------------------------------------------------------------------------
(* The writers of stack_instances.                                           *)

\* A handler (deploy, extend, TTL change, stop) reads the row and changes its copy.
ReadForSave(i) ==
    /\ savesDone < MaxSaves
    /\ savesDone' = savesDone + 1
    /\ \E e \in Expiries \cup {NoExpiry, instRow[i].expires}, run \in BOOLEAN :
        saves' = saves \cup {[inst |-> i, expires |-> e, running |-> run, warned |-> instRow[i].warned]}
    /\ UNCHANGED <<warnClock, instRow, warner, epoch, warnings, unsent>>

\* clearExpiryWarningIfExpiryChanged; the save itself leaves expiry_warned_at out.
WarnedAfterUpdate(row, s) == row.warned /\ SameExpiry(row.expires, s.expires)

\* Update: one transaction.
UpdateInstance(s) ==
    /\ saves' = saves \ {s}
    /\ instRow' = [instRow EXCEPT ![s.inst] =
        [running |-> s.running, expires |-> s.expires, warned |-> WarnedAfterUpdate(@, s)]]
    /\ epoch' = IF SameExpiry(instRow[s.inst].expires, s.expires) THEN epoch
                ELSE [epoch EXCEPT ![s.inst] = @ + 1]
    /\ UNCHANGED <<warnClock, savesDone, warner, warnings, unsent>>

WarnTick ==
    /\ warnClock < MaxWarnTime
    /\ warnClock' = warnClock + 1
    /\ UNCHANGED <<instRow, saves, savesDone, warner, epoch, warnings, unsent>>

WarnNext ==
    \/ \E w \in Warners :
        \/ CheckList(w) \/ WarnerKilled(w)
        \/ \E l \in warner[w].list : Mark(w, l)
        \/ \E m \in warner[w].mark : Notify(w, m)
    \/ \E i \in WarnInstances : ReadForSave(i)
    \/ \E s \in saves : UpdateInstance(s)
    \/ WarnTick

WarnSpec == WarnInit /\ [][WarnNext]_warnVars

----------------------------------------------------------------------------
(* Properties.                                                               *)

\* An expiry time is warned about at most once, with two warners and with handlers
\* that save copies read before the warning (MarkExpiryWarned; Update never writes
\* expiry_warned_at).
OneWarningPerExpiry ==
    \A i \in WarnInstances, n \in 0 .. MaxSaves : warnings[i][n] <= 1

\* The mark never hides a warning: a marked instance was warned about its current
\* expiry time, is about to be, or the warner died between mark and notification.
MarkMeansWarned ==
    \A i \in WarnInstances : instRow[i].warned =>
        \/ warnings[i][epoch[i]] > 0
        \/ \E w \in Warners : [inst |-> i, epoch |-> epoch[i]] \in warner[w].mark
        \/ [inst |-> i, epoch |-> epoch[i]] \in unsent
=============================================================================
