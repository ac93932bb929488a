--------------------------------- MODULE Database ---------------------------------
(***************************************************************************)
(* What the daemon keeps in its database, beside what it holds in memory,  *)
(* and what a start after a stop or a crash makes of the two.              *)
(*                                                                         *)
(* The parts share the process, the clock and the database, and no other   *)
(* state; a restart is one for all of them.  workload names those that     *)
(* something happens to.                                                   *)
(***************************************************************************)
EXTENDS Lists, RuntimeConfig, Auth, Retention, StatsCache, Schema

CONSTANT Workloads  \* sets of parts

\* The items of the lists and the settings share the account that BestEffort keeps.
ASSUME ItemsAssumption == Items \cap Settings = {}

VARIABLE workload

vars == <<workload, now, history, lists, config, auth, retention, statistics, schema>>

Init ==
  /\ workload \in Workloads
  /\ now = 1
  /\ HistoryInit /\ ListsInit /\ ConfigInit /\ AuthInit /\ RetentionInit /\ StatsInit
  /\ "lists" \in workload \/ learning = "off"
  /\ IF "schema" \in workload THEN SchemaInit ELSE Opened

\* A part at work, which needs an open database.
Works(part) == part \in workload /\ opening = "open" /\ UNCHANGED <<workload, now, schema>>

ListsStep ==
  Works("lists") /\ ListsNext /\ UNCHANGED <<config, auth, retention, statistics>>

ConfigStep ==
  Works("config") /\ ConfigNext /\ UNCHANGED <<lists, auth, retention, statistics>>

AuthStep ==
  Works("auth") /\ AuthNext /\ UNCHANGED <<history, lists, config, retention, statistics>>

RetentionStep ==
  \E tb \in Tables :
    /\ Works(tb) /\ (Writes(tb) \/ OffsetChanges)
    /\ UNCHANGED <<history, lists, config, auth, statistics>>

StatsStep ==
  Works("statistics") /\ StatsNext /\ UNCHANGED <<history, lists, config, auth, retention>>

SchemaStep ==
  /\ "schema" \in workload /\ SchemaNext
  /\ UNCHANGED <<workload, now, history, lists, config, auth, retention, statistics>>

Time ==
  /\ workload \cap ({"auth", "statistics"} \cup Tables) # {}
  /\ StatsInTime /\ Tick
  /\ UNCHANGED <<workload, history, lists, config, auth, retention, statistics, schema>>

\* The process ends anywhere, whatever is under way, and starts anew; what it can
\* read of the database decides what it goes by.
Restart ==
  \E loaded \in BOOLEAN, readable \in SUBSET Settings :
    /\ "config" \in workload \/ readable = Settings
    /\ "lists" \in workload \/ loaded
    /\ LoadFromStorage(loaded) /\ Restore(readable)
    /\ "lists" \in workload \/ learning' = "off"
    /\ Reloaded({k \in Items : ~loaded /\ table[k] # Absent}
                  \cup {s \in Settings \ readable : stored[s] # Unset})
    /\ AuthRestart /\ StatsRestart /\ RetentionRestart
    /\ IF "schema" \in workload THEN Reopen ELSE UNCHANGED schema
    /\ UNCHANGED <<workload, now>>

Next ==
  \/ ListsStep \/ ConfigStep \/ AuthStep \/ RetentionStep \/ StatsStep \/ SchemaStep
  \/ Time \/ Restart

Spec == Init /\ [][Next]_vars

--------------------------------------------------------------------------------
TypeOK ==
  /\ ListsTypeOK /\ ConfigTypeOK /\ AuthTypeOK /\ RetentionTypeOK /\ StatsTypeOK /\ SchemaTypeOK
  /\ raced \cup doubtful \subseteq Items \cup Settings
================================================================================
