------------------------------- MODULE BestEffort -------------------------------
(***************************************************************************)
(* What the admin handlers of the API have in common: a change is made in  *)
(* memory first and written to the database afterwards, under another lock *)
(* or none, and a failed write is only logged.  Memory and database can    *)
(* then be expected to agree on an item when the changes to it came one    *)
(* after the other and the last one was written.  The two variables are    *)
(* history and keep account of that; no code depends on them.              *)
(***************************************************************************)
VARIABLES
  raced,    \* items whose changes under way have overlapped
  doubtful  \* items on which memory and database need not agree

history == <<raced, doubtful>>

HistoryInit == raced = {} /\ doubtful = {}

\* A change of the items begins; busy are those of changes under way.
Begins(items, busy) ==
  /\ raced' = raced \cup (items \cap busy)
  /\ UNCHANGED doubtful

\* A change of the items ends, with some saved and some changed in memory only;
\* busy are the items of the changes still under way.
Ends(items, saved, unsaved, busy) ==
  LET quiet == items \ busy IN
  /\ raced' = raced \ quiet
  /\ doubtful' = (doubtful \ (quiet \cap saved)) \cup (quiet \cap (raced \cup unsaved))

\* The process has started anew, and could not read some of the items.
Reloaded(unread) == raced' = {} /\ doubtful' = unread
================================================================================
