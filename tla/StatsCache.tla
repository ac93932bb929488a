-------------------------------- MODULE StatsCache --------------------------------
(***************************************************************************)
(* GET /api/stats (internal/api/handlers_events.go): the handlers share a  *)
(* cache of one answer, which they look into under a lock, compute without *)
(* it, and write under it again.                                           *)
(*                                                                         *)
(* An answer is the window it is about and the time at which the events    *)
(* were read for it.                                                       *)
(***************************************************************************)
EXTENDS TextTime

CONSTANTS
  StatsHandlers, StatsWindows,
  CacheTTL,
  MaxCompute,  \* the longest time that a handler takes
  NoAnswer

ASSUME StatsAssumption ==
  CacheTTL \in Nat \ {0} /\ MaxCompute \in Nat /\ NoAnswer \notin [window : StatsWindows, read : Nat]

VARIABLES
  cache,  \* [answer, expires], or NoAnswer
  stats   \* handler -> [window, since, at, answer], or NoAnswer

statistics == <<cache, stats>>

Answer == [window : StatsWindows, read : Nat]

StatsTypeOK ==
  /\ cache \in [answer : Answer, expires : Nat] \cup {NoAnswer}
  /\ stats \in [StatsHandlers ->
       [window : StatsWindows, since : Nat, at : {"read", "store", "respond"},
        answer : Answer \cup {NoAnswer}] \cup {NoAnswer}]

StatsInit ==
  /\ cache = NoAnswer
  /\ stats = [h \in StatsHandlers |-> NoAnswer]

\* Mutant: the window of the cached answer is not compared.
HitAny(w) == cache # NoAnswer /\ now < cache.expires

Hit(w) == cache # NoAnswer /\ cache.answer.window = w /\ now < cache.expires

\* The request comes in and looks into the cache.
Ask(h, w) ==
  /\ stats[h] = NoAnswer
  /\ stats' = [stats EXCEPT ![h] =
       [window |-> w, since |-> now,
        at     |-> IF Hit(w) THEN "respond" ELSE "read",
        answer |-> IF Hit(w) THEN cache.answer ELSE NoAnswer]]
  /\ UNCHANGED cache

\* ListEvents; an error ends the request.
Read(h) ==
  /\ stats[h] # NoAnswer /\ stats[h].at = "read"
  /\ \/ stats' = [stats EXCEPT ![h] = [stats[h] EXCEPT
                    !.at = "store", !.answer = [window |-> stats[h].window, read |-> now]]]
     \/ stats' = [stats EXCEPT ![h] = NoAnswer]
  /\ UNCHANGED cache

Store(h) ==
  /\ stats[h] # NoAnswer /\ stats[h].at = "store"
  /\ cache' = [answer |-> stats[h].answer, expires |-> now + CacheTTL]
  /\ stats' = [stats EXCEPT ![h] = [stats[h] EXCEPT !.at = "respond"]]

Respond(h) ==
  /\ stats[h] # NoAnswer /\ stats[h].at = "respond"
  /\ stats' = [stats EXCEPT ![h] = NoAnswer]
  /\ UNCHANGED cache

\* No handler takes longer than MaxCompute.
StatsInTime == \A h \in StatsHandlers : stats[h] # NoAnswer => now < stats[h].since + MaxCompute

StatsRestart == cache' = NoAnswer /\ stats' = [h \in StatsHandlers |-> NoAnswer]

StatsNext ==
  \E h \in StatsHandlers :
    (\E w \in StatsWindows : Ask(h, w)) \/ Read(h) \/ Store(h) \/ Respond(h)

--------------------------------------------------------------------------------
\* An answer is for the window asked for, and its events were read no longer before
\* the request than the cache keeps an answer and one handler takes to compute it:
\* the age of an answer is counted from its storing, and handlers overwrite each
\* other's in any order.
AnswersRecent ==
  \A h \in StatsHandlers : stats[h] # NoAnswer /\ stats[h].at = "respond" =>
    /\ stats[h].answer.window = stats[h].window
    /\ stats[h].since < stats[h].answer.read + CacheTTL + MaxCompute
================================================================================
