-------------------------------- MODULE Retention --------------------------------
(***************************************************************************)
(* The events and the snapshots that the daemon stores, and how many of    *)
(* them it keeps: consumeAlerts and runSnapshotWriter in main, with the    *)
(* tables of internal/storage/sqlite.go.                                   *)
(*                                                                         *)
(* Each table has one writer, which saves a row and may then prune.  The   *)
(* writer of events prunes when the alerts it has received in this run     *)
(* make a multiple of Every; that of snapshots after each (Every is 1).    *)
(* Of a row only its time matters here, and the offset of the local time   *)
(* that it is written in, which changes with the seasons, or with the zone *)
(* of a later process.  Alerts come in the order of their time and without *)
(* delay.                                                                  *)
(***************************************************************************)
EXTENDS TextTime, FiniteSetsExt

CONSTANTS
  Tables,
  Keep, Every,         \* table -> rows kept by pruning, rows between prunings
  Offsets,             \* of local time from UTC
  MaxRows              \* bounds the rows ever received

ASSUME RetentionAssumption ==
  /\ Keep \in [Tables -> Nat \ {0}] /\ Every \in [Tables -> Nat \ {0}]
  /\ UTC \in Offsets /\ Offsets \subseteq Int /\ \A o \in Offsets : o % Second = 0
  /\ MaxRows \in Nat

VARIABLES
  offset,    \* that of the time written now
  rows,      \* table -> its rows
  received,  \* table -> rows received so far, which numbers them
  count,     \* table -> rows received in this run, modulo Every
  writer,    \* table -> what its writer is about to do
  missed     \* history: table -> prunings not done since the last one, although due
             \* or on their way when the process ended

retention == <<offset, rows, received, count, writer, missed>>

Row == [id : Nat, time : Nat, offset : Offsets]

RetentionTypeOK ==
  /\ offset \in Offsets
  /\ rows \in [Tables -> SUBSET Row]
  /\ received \in [Tables -> Nat]
  /\ count \in [Tables -> Nat] /\ \A tb \in Tables : count[tb] < Every[tb]
  /\ writer \in [Tables -> {"receive", "save", "prune"}]
  /\ missed \in [Tables -> Nat]

RetentionInit ==
  /\ offset = UTC
  /\ rows = [tb \in Tables |-> {}]
  /\ received = [tb \in Tables |-> 0] /\ count = [tb \in Tables |-> 0]
  /\ writer = [tb \in Tables |-> "receive"]
  /\ missed = [tb \in Tables |-> 0]

--------------------------------------------------------------------------------
\* An alert arrives, or the ticker of the snapshots.
Receive(tb) ==
  /\ writer[tb] = "receive" /\ received[tb] < MaxRows
  /\ received' = [received EXCEPT ![tb] = received[tb] + 1]
  /\ count' = [count EXCEPT ![tb] = IF count[tb] + 1 = Every[tb] THEN 0 ELSE count[tb] + 1]
  /\ writer' = [writer EXCEPT ![tb] = "save"]
  /\ UNCHANGED <<rows, missed>>

\* Mutant: whether pruning is due is not looked at.
PruneDueNever(tb) == FALSE

PruneDue(tb) == count[tb] = 0

\* SaveEvent, SaveSnapshot
Save(tb) ==
  /\ writer[tb] = "save"
  /\ rows' = [rows EXCEPT ![tb] = rows[tb] \cup {[id |-> received[tb], time |-> now, offset |-> offset]}]
  /\ writer' = [writer EXCEPT ![tb] = IF PruneDue(tb) THEN "prune" ELSE "receive"]
  /\ UNCHANGED <<received, count, missed>>

\* A pruning that was due is not done.
Miss(tb) == missed' = [missed EXCEPT ![tb] = missed[tb] + 1]

\* A row that is not saved, signalCtx being cancelled for one reason, prunes nothing.
SaveFails(tb) ==
  /\ writer[tb] = "save"
  /\ writer' = [writer EXCEPT ![tb] = "receive"]
  /\ IF PruneDue(tb) THEN Miss(tb) ELSE UNCHANGED missed
  /\ UNCHANGED <<rows, received, count>>

RowText(r) == Written(r.time, r.offset)

\* Mutant: the oldest rows are the ones that stay.
NewestOldest(table, n) ==
  {kept \in kSubset(IF n < Cardinality(table) THEN n ELSE Cardinality(table), table) :
     \A r \in kept, s \in table \ kept : RowText(r) <= RowText(s)}

\* The results of ORDER BY timestamp DESC LIMIT n: rows of one text in any order.
Newest(table, n) ==
  {kept \in kSubset(IF n < Cardinality(table) THEN n ELSE Cardinality(table), table) :
     \A r \in kept, s \in table \ kept : RowText(s) <= RowText(r)}

\* PruneEvents, PruneSnapshots
Prune(tb) ==
  /\ writer[tb] = "prune"
  /\ \E kept \in Newest(rows[tb], Keep[tb]) : rows' = [rows EXCEPT ![tb] = kept]
  /\ missed' = [missed EXCEPT ![tb] = 0]
  /\ writer' = [writer EXCEPT ![tb] = "receive"]
  /\ UNCHANGED <<received, count>>

PruneFails(tb) ==
  /\ writer[tb] = "prune"
  /\ writer' = [writer EXCEPT ![tb] = "receive"]
  /\ Miss(tb)
  /\ UNCHANGED <<rows, received, count>>

\* A new process counts from nothing.
RetentionRestart ==
  /\ missed' = [tb \in Tables |->
       IF count[tb] = 0 /\ writer[tb] = "receive" THEN missed[tb] ELSE missed[tb] + 1]
  /\ count' = [tb \in Tables |-> 0]
  /\ writer' = [tb \in Tables |-> "receive"]
  /\ UNCHANGED <<offset, rows, received>>

Writes(tb) ==
  /\ Receive(tb) \/ Save(tb) \/ SaveFails(tb) \/ Prune(tb) \/ PruneFails(tb)
  /\ UNCHANGED offset

\* The clocks are changed, or the process has another zone than the one before it.
OffsetChanges == offset' \in Offsets /\ UNCHANGED <<rows, received, count, writer, missed>>

--------------------------------------------------------------------------------
(* Properties. *)

\* A table outgrows what is kept of it by one interval of pruning, and by one more
\* for each pruning since the last one done that failed, was skipped with a row that
\* could not be saved, or was forgotten with the count of a process that ended.
RowsBounded ==
  \A tb \in Tables : Cardinality(rows[tb]) <= Keep[tb] + Every[tb] * (missed[tb] + 1)

\* Pruning gives up old rows for new ones.  The order of texts is that of local time
\* at best: a row may go for an older one, but only if the clocks went back between
\* the two, and by no more than they did.  Against rows written in UTC that bound is a
\* second longer, as their text is not in the order of time at a whole second.
NewestKept ==
  [][\A tb \in Tables : \A gone \in rows[tb] \ rows'[tb] :
       /\ Cardinality(rows'[tb]) = Keep[tb]
       /\ \A kept \in rows'[tb] :
            \/ gone.time - kept.time <= kept.offset - gone.offset
            \/ kept.offset = UTC /\ gone.time - kept.time < UTC - gone.offset + Second]_rows
================================================================================
