--------------------------------- MODULE Schema ---------------------------------
(***************************************************************************)
(* Opening the database (Open and migrate, internal/storage/sqlite.go): a  *)
(* file that is new, or of schema version 1 or 2.  Each statement commits  *)
(* on its own, and the process may end or a statement fail between any two.*)
(* Version 1 is version 2 without the sessions table.                      *)
(***************************************************************************)
EXTENDS Naturals, Sequences

CONSTANT NoVersion  \* schema_version has no row, or does not exist

Schema == <<"schema_version", "events", "snapshots", "whitelist", "blacklist", "config", "sessions">>

SchemaTables == {Schema[i] : i \in 1 .. Len(Schema)}

schemaVersion == 2

ASSUME SchemaAssumption == NoVersion \notin Nat

VARIABLES
  tables,   \* tables of the file
  version,  \* row of schema_version
  opening,  \* what Open is about to do
  todo,     \* tables that schemaSQL has yet to create
  trouble   \* history: a statement of this Open has failed

schema == <<tables, version, opening, todo, trouble>>

SchemaTypeOK ==
  /\ tables \subseteq SchemaTables
  /\ version \in {NoVersion, 1, 2} /\ (version # NoVersion => "schema_version" \in tables)
  /\ opening \in {"look", "create", "record", "read", "v2", "update", "chmod", "open", "failed"}
  /\ trouble \in BOOLEAN

\* The database is open and all is well.
Opened ==
  /\ tables = SchemaTables /\ version = schemaVersion
  /\ opening = "open" /\ todo = << >> /\ trouble = FALSE

SchemaInit ==
  /\ \/ tables = {} /\ version = NoVersion
     \/ tables = SchemaTables \ {"sessions"} /\ version = 1
     \/ tables = SchemaTables /\ version = 2
  /\ opening = "look" /\ todo = << >> /\ trouble = FALSE

--------------------------------------------------------------------------------
\* Is there a table schema_version?
FindVersion ==
  /\ opening = "look"
  /\ IF "schema_version" \in tables
     THEN opening' = "read" /\ UNCHANGED todo
     ELSE opening' = "create" /\ todo' = Schema
  /\ UNCHANGED <<tables, version, trouble>>

\* Mutant: the version is recorded with its table, before the other tables.
CreateTableRecorded ==
  /\ opening = "create"
  /\ tables' = tables \cup {Head(todo)}
  /\ todo' = Tail(todo)
  /\ version' = schemaVersion
  /\ opening' = IF todo' = << >> THEN "record" ELSE "create"
  /\ UNCHANGED trouble

\* CREATE TABLE IF NOT EXISTS, of the next table.
CreateTable ==
  /\ opening = "create"
  /\ tables' = tables \cup {Head(todo)}
  /\ todo' = Tail(todo)
  /\ opening' = IF todo' = << >> THEN "record" ELSE "create"
  /\ UNCHANGED <<version, trouble>>

\* INSERT INTO schema_version
RecordVersion ==
  /\ opening = "record"
  /\ version' = schemaVersion
  /\ opening' = "chmod"
  /\ UNCHANGED <<tables, todo, trouble>>

ReadVersion ==
  /\ opening = "read"
  /\ opening' = CASE version = NoVersion -> "failed"
                  [] version = 1         -> "v2"
                  [] OTHER               -> "chmod"
  /\ UNCHANGED <<tables, version, todo, trouble>>

\* migrationV2SQL
MigrateV2 ==
  /\ opening = "v2"
  /\ tables' = tables \cup {"sessions"}
  /\ opening' = "update"
  /\ UNCHANGED <<version, todo, trouble>>

UpdateVersion ==
  /\ opening = "update"
  /\ version' = schemaVersion
  /\ opening' = "chmod"
  /\ UNCHANGED <<tables, todo, trouble>>

Chmod ==
  /\ opening = "chmod"
  /\ opening' = "open"
  /\ UNCHANGED <<tables, version, todo, trouble>>

\* Any statement, or chmod, fails or runs out of time; main exits.
StatementFails ==
  /\ opening \notin {"open", "failed"}
  /\ opening' = "failed" /\ trouble' = TRUE
  /\ UNCHANGED <<tables, version, todo>>

\* The process has ended, at whatever moment, and a new one opens the file.
Reopen ==
  /\ opening' = "look" /\ todo' = << >> /\ trouble' = FALSE
  /\ UNCHANGED <<tables, version>>

SchemaNext ==
  \/ FindVersion \/ CreateTable \/ RecordVersion \/ ReadVersion \/ MigrateV2 \/ UpdateVersion
  \/ Chmod \/ StatementFails

--------------------------------------------------------------------------------
(* Properties. *)

\* A database that opens has every table of the current version, however often and
\* wherever its creation or its migration was cut short before.
OpenIsCurrent ==
  opening = "open" => tables = SchemaTables /\ version = schemaVersion

\* "migrate ensures the database schema is at the current version": it fails only
\* when a statement does.
MigrateEnsures == opening = "failed" => trouble
================================================================================
