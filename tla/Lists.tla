--------------------------------- MODULE Lists ---------------------------------
(***************************************************************************)
(* Whitelist and blacklist (internal/state/whitelist.go): the handlers of  *)
(* the API that add and delete an entry (handlers_lists.go), the learning  *)
(* mode that adds many (learning.go), and the loading at start (main).     *)
(*                                                                         *)
(* The item of an entry is its list and address, which name a map entry    *)
(* and a row alike (both normalise the address).  The entry itself is its  *)
(* comment.                                                                *)
(***************************************************************************)
EXTENDS BestEffort, FiniteSets

CONSTANTS
  WhiteItems, BlackItems,
  Comments,      \* of entries added by hand
  ListHandlers,  \* goroutines that serve requests
  Absent         \* no entry, no request

Items == WhiteItems \cup BlackItems

Entries == Comments \cup {"auto-learned"}

\* Changes under way: a deletion's entry is Absent.
ListRequest == [item : Items, entry : Comments \cup {Absent}, at : {"memory", "table"}]

ASSUME ListsAssumption ==
  /\ WhiteItems \cap BlackItems = {}
  /\ Absent \notin Entries \cup ListRequest

VARIABLES
  memory,   \* item -> entry of the maps, or Absent
  table,    \* item -> row of the tables, or Absent
  change,   \* handler -> ListRequest, or Absent
  learning, \* the learning mode: "observing", "saving", or "off"
  batch     \* learned items that remain to be saved

lists == <<memory, table, change, learning, batch>>

ListsTypeOK ==
  /\ memory \in [Items -> Entries \cup {Absent}]
  /\ table \in [Items -> Entries \cup {Absent}]
  /\ change \in [ListHandlers -> ListRequest \cup {Absent}]
  /\ learning \in {"observing", "saving", "off"}
  /\ batch \subseteq WhiteItems /\ (learning # "saving" => batch = {})

ListsInit ==
  /\ table \in [Items -> {Absent}] /\ memory = table
  /\ change = [h \in ListHandlers |-> Absent]
  /\ learning \in {"observing", "off"} /\ batch = {}

\* Items of the requests of some handlers.
Requested(handlers) == {change[g].item : g \in {g \in handlers : change[g] # Absent}}

\* Items of the changes under way, that of handler h left out.
ListsBusy(h) == batch \cup Requested(ListHandlers \ {h})

--------------------------------------------------------------------------------
(* handleAddWhitelist, handleAddBlacklist, and their handleDelete. *)

Request(h, k, e) ==
  /\ change[h] = Absent
  /\ change' = [change EXCEPT ![h] = [item |-> k, entry |-> e, at |-> "memory"]]
  /\ Begins({k}, ListsBusy(h))
  /\ UNCHANGED <<memory, table, learning, batch>>

\* Mutant: an entry that is there already is left as it is.
ChangedOnce(k, e) ==
  IF e # Absent /\ memory[k] # Absent THEN memory ELSE [memory EXCEPT ![k] = e]

\* The map with an entry added or replaced, or removed.
Changed(k, e) == [memory EXCEPT ![k] = e]

\* AddWhitelist, AddBlacklist, RemoveWhitelist, RemoveBlacklist.
ChangeMemory(h) ==
  /\ change[h] # Absent /\ change[h].at = "memory"
  /\ memory' = Changed(change[h].item, change[h].entry)
  /\ change' = [change EXCEPT ![h] = [change[h] EXCEPT !.at = "table"]]
  /\ UNCHANGED <<table, learning, batch, history>>

\* Save... and Delete...Entry; the response is the same whether they fail or not.
ChangeTable(h) ==
  /\ change[h] # Absent /\ change[h].at = "table"
  /\ LET k == change[h].item IN
     \/ /\ table' = [table EXCEPT ![k] = change[h].entry]
        /\ Ends({k}, {k}, {}, ListsBusy(h))
     \/ /\ UNCHANGED table
        /\ Ends({k}, {}, {k}, ListsBusy(h))
  /\ change' = [change EXCEPT ![h] = Absent]
  /\ UNCHANGED <<memory, learning, batch>>

--------------------------------------------------------------------------------
(* LearningMode.Run, and main's goroutine that persists what it returns. *)

\* The time is up: the associated clients, whoever they are, are added at once.
LearningEnds(learned) ==
  /\ learning = "observing"
  /\ memory' = [k \in Items |-> IF k \in learned THEN "auto-learned" ELSE memory[k]]
  /\ batch' = learned /\ learning' = IF learned = {} THEN "off" ELSE "saving"
  /\ Begins(learned, Requested(ListHandlers))
  /\ UNCHANGED <<table, change>>

\* One entry after the other; one that fails is passed over.
SaveLearned(k) ==
  /\ k \in batch
  /\ batch' = batch \ {k}
  /\ learning' = IF batch' = {} THEN "off" ELSE learning
  /\ \/ /\ table' = [table EXCEPT ![k] = "auto-learned"]
        /\ Ends({k}, {k}, {}, Requested(ListHandlers))
     \/ /\ UNCHANGED table
        /\ Ends({k}, {}, {k}, Requested(ListHandlers))
  /\ UNCHANGED <<memory, change>>

--------------------------------------------------------------------------------
\* main starts anew: both lists are loaded, or neither when one cannot be read.
LoadFromStorage(loaded) ==
  /\ memory' = IF loaded THEN table ELSE [k \in Items |-> Absent]
  /\ change' = [h \in ListHandlers |-> Absent]
  /\ learning' \in {"observing", "off"} /\ batch' = {}
  /\ UNCHANGED table

ListsNext ==
  \/ \E h \in ListHandlers :
       \/ \E k \in Items, e \in Comments \cup {Absent} : Request(h, k, e)
       \/ ChangeMemory(h) \/ ChangeTable(h)
  \/ \E learned \in SUBSET WhiteItems : LearningEnds(learned)
  \/ \E k \in WhiteItems : SaveLearned(k)

--------------------------------------------------------------------------------
(* Properties. *)

\* After changes that came one after the other, by hand or learned, the last of
\* them written, a restart finds the entry that the daemon goes by: no request,
\* crash or earlier failure leaves the two apart for longer.
ListsAgree ==
  \A k \in Items \ doubtful :
    k \notin batch \cup Requested(ListHandlers) => memory[k] = table[k]
================================================================================
