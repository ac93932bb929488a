------------------------------- MODULE MCDatabase -------------------------------
(* Database on a small instance. *)
EXTENDS Database, TLC

Yaml == [log_level |-> "info", detection_enabled |-> "true", detection_dedup_window |-> "30s"]

\* The switch both ways, several settings at once, and a refusal after a success.
SomePatches ==
  { [detection_enabled |-> "true"],
    [detection_enabled |-> "false"],
    [log_level |-> "debug", detection_dedup_window |-> "60s"],
    [detection_enabled |-> "false", detection_dedup_window |-> "bad"] }

Stored == {"events", "snapshots"}

KeepTwo == [tb \in Stored |-> 2]

\* UTC in winter, and an hour more in summer.
London == {0, 4}

EveryOther == [events |-> 2, snapshots |-> 1]

\* The parts share nothing but the restart.
OneAtATime ==
  {{part} : part \in {"lists", "config", "auth", "statistics", "schema"} \cup Stored}

OnlySchema == {{"schema"}}

Symmetry == Permutations(ListHandlers) \cup Permutations(ConfigHandlers) \cup Permutations(Logins)
================================================================================
