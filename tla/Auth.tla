---------------------------------- MODULE Auth ----------------------------------
(***************************************************************************)
(* Logins and sessions (internal/api/auth.go): the limiter of failed       *)
(* logins, which forgets everything at a restart, and the sessions table   *)
(* (internal/storage/sqlite.go), which does not.                           *)
(*                                                                         *)
(* A failure is its time, numbered so that two of one time differ.  The    *)
(* request a session is used for is not modelled, only whether it is let   *)
(* through; nor is the role, which is the session's for as long as it is   *)
(* there.  The time that a handler reads just before it takes the mutex is *)
(* read with it.                                                           *)
(***************************************************************************)
EXTENDS TextTime, FiniteSets

CONSTANTS
  IPs, Logins, Requests,  \* goroutines that serve a login and any other request
  Tokens,
  Threshold, FailureWindow, Lockout, SessionTTL,
  MaxFailures,            \* bounds the failures between two restarts
  None                    \* no record, no request, no session

ASSUME AuthAssumption ==
  /\ Threshold \in Nat \ {0} /\ FailureWindow \in Nat \ {0} /\ SessionTTL \in Nat
  /\ Lockout \in Nat /\ FailureWindow <= Lockout
  /\ MaxFailures \in Nat /\ IsFiniteSet(Logins)
  /\ None \notin IPs /\ None \notin Nat

VARIABLES
  entries,   \* ip -> [failures, lockedTill] or None; 0 is the zero time
  login,     \* handler -> [ip, at] or None
  sessions,  \* token -> time of expiry, or None
  issued,    \* tokens issued so far: none is drawn twice
  request,   \* handler -> [token, expires] or None
  failed     \* history: ip -> its failures since its last success or the start

auth == <<entries, login, sessions, issued, request, failed>>

Failures == [time : Nat, nr : Nat]

Record == [failures : SUBSET Failures, lockedTill : Nat]

ASSUME RecordAssumption == None \notin Record

NoRecord == [failures |-> {}, lockedTill |-> 0]

AuthTypeOK ==
  /\ entries \in [IPs -> Record \cup {None}]
  /\ login \in [Logins -> [ip : IPs, at : {"verify", "success"}] \cup {None}]
  /\ sessions \in [Tokens -> Nat \cup {None}]
  /\ issued \subseteq Tokens
  /\ request \in [Requests -> [token : Tokens, expires : Nat] \cup {None}]
  /\ failed \in [IPs -> SUBSET Failures]

AuthInit ==
  /\ entries = [ip \in IPs |-> None]
  /\ login = [l \in Logins |-> None]
  /\ sessions = [k \in Tokens |-> None] /\ issued = {}
  /\ request = [r \in Requests |-> None]
  /\ failed = [ip \in IPs |-> {}]

--------------------------------------------------------------------------------
(* loginRateLimiter; each of its methods holds the mutex throughout. *)

\* pruneFailures
Pruned(failures) == {f \in failures : f.time + FailureWindow > now}

\* sweepStaleLocked
Swept ==
  [ip \in IPs |->
     IF entries[ip] = None THEN None
     ELSE LET kept == Pruned(entries[ip].failures) IN
          IF kept = {} /\ entries[ip].lockedTill < now THEN None
          ELSE [entries[ip] EXCEPT !.failures = kept]]

\* Mutant: a lockout has left no failures, and counts as over.
LockedOutWithFailures(ip) ==
  entries[ip] # None /\ now < entries[ip].lockedTill /\ entries[ip].failures # {}

LockedOut(ip) == entries[ip] # None /\ now < entries[ip].lockedTill

\* Mutant: the failures that led to a lockout are kept.
AfterFailureKeep(record, f) ==
  LET failures == record.failures \cup {f} IN
  [failures |-> failures,
   lockedTill |-> IF Cardinality(failures) >= Threshold THEN now + Lockout
                  ELSE record.lockedTill]

\* recordFailure
AfterFailure(record, f) ==
  LET failures == Pruned(record.failures) \cup {f} IN
  IF Cardinality(failures) >= Threshold
  THEN [failures |-> {}, lockedTill |-> now + Lockout]
  ELSE [record EXCEPT !.failures = failures]

--------------------------------------------------------------------------------
(* handleLogin *)

\* The check, which sweeps whatever its answer; a handler that passes goes on to
\* read its request.
Check(l, ip) ==
  /\ login[l] = None
  /\ entries' = Swept
  /\ login' = IF LockedOut(ip) THEN login
              ELSE [login EXCEPT ![l] = [ip |-> ip, at |-> "verify"]]
  /\ UNCHANGED <<sessions, issued, request, failed>>

\* An unreadable request, or CreateSession fails: nothing is recorded.
GiveUpLogin(l) ==
  /\ login[l] # None /\ login[l].at = "verify"
  /\ login' = [login EXCEPT ![l] = None]
  /\ UNCHANGED <<entries, sessions, issued, request, failed>>

\* Wrong credentials.
Fail(l) ==
  /\ login[l] # None /\ login[l].at = "verify"
  /\ LET ip == login[l].ip
         f  == [time |-> now, nr |-> Cardinality(failed[ip])] IN
     /\ Cardinality(failed[ip]) < MaxFailures
     /\ entries' = [entries EXCEPT ![ip] =
                      AfterFailure(IF entries[ip] = None THEN NoRecord ELSE entries[ip], f)]
     /\ failed' = [failed EXCEPT ![ip] = failed[ip] \cup {f}]
  /\ login' = [login EXCEPT ![l] = None]
  /\ UNCHANGED <<sessions, issued, request>>

\* Right credentials, and the session is stored.
CreateSession(l, k) ==
  /\ login[l] # None /\ login[l].at = "verify"
  /\ k \notin issued
  /\ issued' = issued \cup {k}
  /\ sessions' = [sessions EXCEPT ![k] = now + SessionTTL]
  /\ login' = [login EXCEPT ![l] = [ip |-> login[l].ip, at |-> "success"]]
  /\ UNCHANGED <<entries, request, failed>>

\* recordSuccess, and the answer.
Succeed(l) ==
  /\ login[l] # None /\ login[l].at = "success"
  /\ entries' = [entries EXCEPT ![login[l].ip] = None]
  /\ failed' = [failed EXCEPT ![login[l].ip] = {}]
  /\ login' = [login EXCEPT ![l] = None]
  /\ UNCHANGED <<sessions, issued, request>>

--------------------------------------------------------------------------------
(* Sessions: handleLogout, resolveSession, runSessionPruner. *)

\* A logout whose deletion fails answers alike and changes nothing.
Logout(k) ==
  /\ sessions[k] # None
  /\ sessions' = [sessions EXCEPT ![k] = None]
  /\ UNCHANGED <<entries, login, issued, request, failed>>

\* GetSession finds the row.
Look(r, k) ==
  /\ request[r] = None /\ sessions[k] # None
  /\ request' = [request EXCEPT ![r] = [token |-> k, expires |-> sessions[k]]]
  /\ UNCHANGED <<entries, login, sessions, issued, failed>>

\* The request is let through.
Admit(r) ==
  /\ request[r] # None /\ now < request[r].expires
  /\ request' = [request EXCEPT ![r] = None]
  /\ UNCHANGED <<entries, login, sessions, issued, failed>>

\* The session has expired and is deleted, if that succeeds.
Expire(r) ==
  /\ request[r] # None /\ ~(now < request[r].expires)
  /\ request' = [request EXCEPT ![r] = None]
  /\ \/ sessions' = [sessions EXCEPT ![request[r].token] = None]
     \/ UNCHANGED sessions
  /\ UNCHANGED <<entries, login, issued, failed>>

\* Mutant: rows are compared with the end of the lifetime that starts now.
PrunableAll(k) == sessions[k] # None /\ Written(sessions[k], UTC) < Written(now + SessionTTL, UTC)

\* PruneExpiredSessions, which compares texts, of UTC all of them.
Prunable(k) == sessions[k] # None /\ Written(sessions[k], UTC) < Written(now, UTC)

PruneSessions ==
  /\ sessions' = [k \in Tokens |-> IF Prunable(k) THEN None ELSE sessions[k]]
  /\ UNCHANGED <<entries, login, issued, request, failed>>

--------------------------------------------------------------------------------
\* The process starts anew; the table is what it was.
AuthRestart ==
  /\ entries' = [ip \in IPs |-> None]
  /\ login' = [l \in Logins |-> None]
  /\ request' = [r \in Requests |-> None]
  /\ failed' = [ip \in IPs |-> {}]
  /\ UNCHANGED <<sessions, issued>>

AuthNext ==
  \/ \E l \in Logins :
       \/ \E ip \in IPs : Check(l, ip)
       \/ GiveUpLogin(l) \/ Fail(l) \/ Succeed(l)
       \/ \E k \in Tokens : CreateSession(l, k)
  \/ \E k \in Tokens : Logout(k)
  \/ \E r \in Requests :
       \/ \E k \in Tokens : Look(r, k)
       \/ Admit(r) \/ Expire(r)
  \/ PruneSessions

--------------------------------------------------------------------------------
(* Properties. *)

\* However many logins of one address are under way at once, and in whatever order
\* they check and record: since its last success no more of its failures lie in one
\* window than the threshold and those that had passed the check before it was met.
FailuresBounded ==
  \A ip \in IPs :
    Cardinality(Pruned(failed[ip])) <= Threshold + Cardinality(Logins) - 1

\* An address is locked out only for a threshold of failures in one window, the
\* last of them within the duration of a lockout, and none made good since.
LockoutJustified ==
  \A ip \in IPs : LockedOut(ip) =>
    \E last \in failed[ip] :
      /\ now < last.time + Lockout
      /\ Cardinality({f \in failed[ip] : /\ f.time <= last.time
                                         /\ f.time + FailureWindow > last.time}) >= Threshold

\* A session stays until it is logged out or expires, whatever the order of the
\* texts it is pruned by makes of that: at most the fraction of a second is lost.
SessionsLast ==
  [][\A k \in Tokens : sessions[k] # None /\ sessions'[k] = None =>
       Logout(k) \/ sessions[k] < now + Second]_sessions
================================================================================
