---------------------------- MODULE SessionStores ----------------------------
(***************************************************************************)
(* The two session stores behind one interface: MemoryStore keeps times in *)
(* full, MySQLStore keeps them in whole seconds in the table               *)
(* session_entries, which replicas of an older version write too.  Every   *)
(* operation is applied to both; the module compares what they answer.     *)
(*                                                                         *)
(* A time is a number of clock units, PerSecond of them to a second.  The  *)
(* keys are one blocked token, some blocked sessions, one OIDC state and   *)
(* one CLI login; user blocks have entries of their own.  Entries of one   *)
(* kind never touch those of another, so a behaviour uses one of them.     *)
(***************************************************************************)
EXTENDS Naturals, Sequences

CONSTANTS PerSecond,        \* clock units of a second
          BlockedSessions,  \* the sessions that may be blocked, in order
          Untils,           \* ends of token and session blocks
          SecondTTL,        \* lifetime of one-time values, in clock units
          UserBlockTTL,     \* lifetime of a user block, in clock units
          MaxStoreTime,     \* bound of the clock
          StoreFaults       \* "batch": a batch of BlockSessions fails

ASSUME SessionStoresAssumption ==
  /\ PerSecond \in Nat \ {0} /\ SecondTTL \in Nat \ {0} /\ UserBlockTTL \in Nat \ {0}
  /\ Untils \subseteq Nat /\ MaxStoreTime \in Nat \ {0}

VARIABLES ssNow,    \* the clock
          mem,      \* MemoryStore: key -> end and data
          sql,      \* session_entries: key -> end (seconds) and data
          userRow,  \* the user_block and user_block_ms rows, and memory's entry
          blocks,   \* the blocks of the user so far: time and version
          answer,   \* the last answers of a Consume or Get
          usage     \* what this behaviour uses: blocks, values or the user

storeVars == <<ssNow, mem, sql, userRow, blocks, answer, usage>>

Sec(t) == t \div PerSecond
SessionKeys == {BlockedSessions[n] : n \in 1 .. Len(BlockedSessions)}
StoreKeys == {"token", "oidc", "cli"} \cup SessionKeys
NoEntry == [end |-> 0, data |-> "none"]
NoBlock == [end |-> 0, at |-> 0]
Greater(a, b) == IF a > b THEN a ELSE b

StoreInit ==
  /\ ssNow = 1
  /\ mem = [k \in StoreKeys |-> NoEntry]
  /\ sql = [k \in StoreKeys |-> NoEntry]
  /\ userRow = [mem |-> NoBlock, sec |-> NoBlock, ms |-> NoBlock]
  /\ blocks = {}
  /\ answer = [mem |-> "none", sql |-> "none", end |-> 0]
  /\ usage \in {"token", "sessions", "user", "values"}

-----------------------------------------------------------------------------
(* Whether an entry still counts.  Blocks end at their time in memory; a   *)
(* one-time value still counts at its end; a row until its second begins.  *)
MemBlocked(k) == ssNow < mem[k].end
MemKept(k) == mem[k].data # "none" /\ ssNow <= mem[k].end
SqlCounts(k) == sql[k].end > Sec(ssNow)

BlockToken(until) ==
  /\ mem' = [mem EXCEPT !["token"] = [end |-> until, data |-> "block"]]
  /\ sql' = [sql EXCEPT !["token"] = [end |-> Sec(until), data |-> "block"]]
  /\ UNCHANGED <<ssNow, userRow, blocks, answer>>

(* One session in a batch: the later end stays.                            *)
sessionBlockUpsert(row, until) == [end |-> Greater(row.end, Sec(until)), data |-> "block"]

(* BlockSessions: all sessions in memory, batch by batch in MySQL.  The    *)
(* batches before a failing one stay written, and the caller gets an error.*)
StoreBlockSessions(until) ==
  /\ mem' = [k \in StoreKeys |-> IF k \in SessionKeys
                                 THEN [end |-> Greater(mem[k].end, until), data |-> "block"]
                                 ELSE mem[k]]
  /\ sql' = [k \in StoreKeys |-> IF k \in SessionKeys THEN sessionBlockUpsert(sql[k], until)
                                 ELSE sql[k]]
  /\ UNCHANGED <<ssNow, userRow, blocks, answer>>

FailedBatch(until) ==
  /\ "batch" \in StoreFaults
  /\ \E n \in 0 .. Len(BlockedSessions) - 1 :
       sql' = [k \in StoreKeys |-> IF \E i \in 1 .. n : k = BlockedSessions[i]
                                   THEN sessionBlockUpsert(sql[k], until) ELSE sql[k]]
  /\ UNCHANGED <<ssNow, mem, userRow, blocks, answer>>

-----------------------------------------------------------------------------
(* User blocks.                                                            *)

(* BlockUser of this version writes both rows ...                          *)
StoreBlockUser ==
  /\ userRow' = [mem |-> [end |-> ssNow + UserBlockTTL, at |-> ssNow],
                 sec |-> [end |-> Sec(ssNow + UserBlockTTL), at |-> Sec(ssNow)],
                 ms  |-> [end |-> Sec(ssNow + UserBlockTTL), at |-> ssNow]]
  /\ blocks' = blocks \cup {[at |-> ssNow, new |-> TRUE]}
  /\ UNCHANGED <<ssNow, mem, sql, answer>>

(* ... a replica of an older version only the row with the seconds.        *)
OldBlockUser ==
  /\ userRow' = [userRow EXCEPT !.sec = [end |-> Sec(ssNow + UserBlockTTL), at |-> Sec(ssNow)]]
  /\ blocks' = blocks \cup {[at |-> ssNow, new |-> FALSE]}
  /\ UNCHANGED <<ssNow, mem, sql, answer>>

UnblockUser ==
  /\ userRow' = [mem |-> NoBlock, sec |-> NoBlock, ms |-> NoBlock]
  /\ blocks' = {}
  /\ UNCHANGED <<ssNow, mem, sql, answer>>

(* parseBlockedAt: the last unit of the second.                            *)
SecondsEntry(row) == row.at * PerSecond + (PerSecond - 1)

userBlockTime(sec, ms) ==
  IF ms = NoBlock THEN SecondsEntry(sec)
  ELSE IF sec = NoBlock \/ Sec(ms.at) >= sec.at THEN ms.at
  ELSE SecondsEntry(sec)

(* A token is known by the time of its issue; one without iat_ms shows     *)
(* only the second.                                                        *)
IssuedAt(t, iatMs) == IF iatMs THEN t ELSE Sec(t) * PerSecond

SqlUserBlocked(t, iatMs) ==
  LET alive(row) == IF row.end > Sec(ssNow) THEN row ELSE NoBlock
      sec == alive(userRow.sec)
      ms  == alive(userRow.ms)
  IN  (sec # NoBlock \/ ms # NoBlock) /\ IssuedAt(t, iatMs) <= userBlockTime(sec, ms)

MemUserBlocked(t, iatMs) ==
  /\ userRow.mem # NoBlock /\ ssNow < userRow.mem.end
  /\ IssuedAt(t, iatMs) <= userBlockTime([end |-> 1, at |-> Sec(userRow.mem.at)], userRow.mem)

-----------------------------------------------------------------------------
(* One-time values: an OIDC state and a CLI login.  Their keys are random, *)
(* so a key is saved once.                                                 *)
SaveValue(k) ==
  /\ mem[k] = NoEntry /\ sql[k] = NoEntry
  /\ mem' = [mem EXCEPT ![k] = [end |-> ssNow + SecondTTL, data |-> "pending"]]
  /\ sql' = [sql EXCEPT ![k] = [end |-> Sec(ssNow + SecondTTL), data |-> "pending"]]
  /\ answer' = [mem |-> "none", sql |-> "none", end |-> 0]
  /\ UNCHANGED <<ssNow, userRow, blocks>>

(* UpdateCLIAuth: only while the login is there; memory drops a late one.  *)
UpdateCLIAuth ==
  /\ mem' = [mem EXCEPT !["cli"] = IF MemKept("cli") THEN [@ EXCEPT !.data = "completed"] ELSE NoEntry]
  /\ sql' = [sql EXCEPT !["cli"] = IF SqlCounts("cli") THEN [@ EXCEPT !.data = "completed"] ELSE @]
  /\ UNCHANGED <<ssNow, userRow, blocks, answer>>

Answers(k) == [mem |-> IF MemKept(k) THEN mem[k].data ELSE "none",
               sql |-> IF SqlCounts(k) THEN sql[k].data ELSE "none",
               end |-> Greater(mem[k].end, sql[k].end * PerSecond)]

(* GetCLIAuth leaves the login; memory drops a late one.                   *)
StoreGetCLIAuth ==
  /\ answer' = Answers("cli")
  /\ mem' = [mem EXCEPT !["cli"] = IF MemKept("cli") THEN @ ELSE NoEntry]
  /\ UNCHANGED <<ssNow, sql, userRow, blocks>>

(* ConsumeOIDCState and ConsumeCLIAuth: memory takes the entry out in any  *)
(* case, MySQL in one transaction with the lock on the row it found.       *)
Consume(k) ==
  /\ answer' = Answers(k)
  /\ mem' = [mem EXCEPT ![k] = NoEntry]
  /\ sql' = [sql EXCEPT ![k] = IF SqlCounts(k) THEN NoEntry ELSE @]
  /\ UNCHANGED <<ssNow, userRow, blocks>>

MySQLCleanup ==
  /\ sql' = [k \in StoreKeys |-> IF sql[k].end < Sec(ssNow) THEN NoEntry ELSE sql[k]]
  /\ userRow' = [userRow EXCEPT !.sec = IF @.end < Sec(ssNow) THEN NoBlock ELSE @,
                                !.ms = IF @.end < Sec(ssNow) THEN NoBlock ELSE @]
  /\ UNCHANGED <<ssNow, mem, blocks, answer>>

MemoryCleanup ==
  /\ mem' = [k \in StoreKeys |-> IF ssNow > mem[k].end THEN NoEntry ELSE mem[k]]
  /\ userRow' = [userRow EXCEPT !.mem = IF ssNow > @.end THEN NoBlock ELSE @]
  /\ UNCHANGED <<ssNow, sql, blocks, answer>>

StoreTick ==
  /\ ssNow < MaxStoreTime
  /\ ssNow' = ssNow + 1
  /\ UNCHANGED <<mem, sql, userRow, blocks, answer>>

StoreUse ==
  \/ usage = "token" /\ \E until \in Untils : until > ssNow /\ BlockToken(until)
  \/ usage = "sessions" /\ \E until \in Untils : until > ssNow /\ (StoreBlockSessions(until) \/ FailedBatch(until))
  \/ usage = "user" /\ (StoreBlockUser \/ OldBlockUser \/ UnblockUser)
  \/ usage = "values" /\ \E k \in {"oidc", "cli"} : SaveValue(k) \/ Consume(k)
  \/ usage = "values" /\ (UpdateCLIAuth \/ StoreGetCLIAuth)
  \/ MySQLCleanup \/ MemoryCleanup \/ StoreTick

StoreNext == StoreUse /\ UNCHANGED usage

StoreSpec == StoreInit /\ [][StoreNext]_storeVars

-----------------------------------------------------------------------------
StoreTypeOK ==
  /\ ssNow \in 1 .. MaxStoreTime
  /\ \A k \in StoreKeys : {mem[k].data, sql[k].data} \subseteq {"none", "block", "pending", "completed"}
  /\ \A f \in {"mem", "sec", "ms"} : userRow[f].end \in Nat /\ userRow[f].at \in Nat
  /\ \A b \in blocks : b.at <= ssNow
  /\ {answer.mem, answer.sql} \subseteq {"none", "pending", "completed"}

(* The stores agree on blocked tokens and sessions, but for the second in  *)
(* which a block ends (expires_at holds whole seconds); a row that a       *)
(* failed BlockSessions left only ever blocks more.                        *)
BlocksAgree ==
  \A k \in {"token"} \cup SessionKeys :
    MemBlocked(k) => SqlCounts(k) \/ Sec(mem[k].end) = Sec(ssNow)

(* The stores agree on one-time values, but for the second in which the    *)
(* value ends: what one hands out once, the other hands out once.          *)
ValuesAgree == answer.mem = answer.sql \/ Sec(answer.end) <= Sec(ssNow)


(* A second, shorter block of a session never makes the stored end of the  *)
(* first earlier, in either store (a cleanup takes out what has ended).    *)
BlocksNeverShrink ==
  [][\A k \in SessionKeys :
       /\ mem'[k].end >= mem[k].end \/ ssNow > mem[k].end
       /\ sql'[k].end >= sql[k].end \/ sql[k].end < Sec(ssNow)]_storeVars

(* The seconds in which replicas of both versions blocked the user.        *)
MixedSeconds == {Sec(b.at) : b \in {x \in blocks : ~x.new}} \cap {Sec(b.at) : b \in {x \in blocks : x.new}}

(* Every token issued up to the latest block of the user is refused while  *)
(* the block lasts, whichever version wrote it and whether or not the      *)
(* token has iat_ms, but for the documented limit of a rolling update: two *)
(* blocks of different versions in one second.                             *)
OldTokensAreBlocked ==
  \A b \in blocks : Sec(b.at + UserBlockTTL) > Sec(ssNow) /\ Sec(b.at) \notin MixedSeconds =>
    \A t \in 1 .. b.at, iatMs \in BOOLEAN :
      SqlUserBlocked(t, iatMs) /\ (b.new => MemUserBlocked(t, iatMs) \/ ssNow >= b.at + UserBlockTTL)

(* A token with iat_ms issued after every block stays valid, unless an     *)
(* older version blocked in its second (its rule is by the second).        *)
NewTokensAreValid ==
  \A t \in 1 .. ssNow :
    /\ \A b \in blocks : b.at < t /\ (~b.new => Sec(b.at) < Sec(t))
    => ~SqlUserBlocked(t, TRUE) /\ ~MemUserBlocked(t, TRUE)
=============================================================================
