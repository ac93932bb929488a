----------------------------- MODULE DatabaseProofs -----------------------------
(***************************************************************************)
(* Proofs about Database: logins and sessions, the rows it retains, the    *)
(* cache of statistics, its schema, and the lists and settings that it     *)
(* shares with memory.  Each part has an invariant of its own; the part's  *)
(* steps, the clock and a restart keep it, and nothing else touches the    *)
(* part.                                                                   *)
(***************************************************************************)
EXTENDS Database, FiniteSetTheorems, TLAPS

\* The order of texts is that of local time, but for a row of UTC at a whole second.
Earlier(t, o, u, p) ==
  \/ t + o <= u + p
  \/ p = UTC /\ t + o < u + p + Second

LEMMA TextType == \A t, o \in Int : Written(t, o) \in Int
BY TimeAssumption DEF Written

LEMMA TextsLocal ==
  ASSUME NEW t \in Int, NEW o \in Int, NEW u \in Int, NEW p \in Int,
         Written(t, o) <= Written(u, p)
  PROVE  Earlier(t, o, u, p)
<1>1. Second \in Nat \ {0}
  BY TimeAssumption
<1>2. Written(t, o) \in {2 * (t + o), 2 * (t + o + Second) - 1}
  BY DEF Written
<1>3. \/ Written(u, p) = 2 * (u + p)
      \/ p = UTC /\ Written(u, p) = 2 * (u + p + Second) - 1
  BY DEF Written
<1> QED BY <1>1, <1>2, <1>3 DEF Earlier

(***************************************************************************)
(* Logins and sessions.                                                    *)
(*                                                                         *)
(* The argument for the limiter.  Every failure since the last success is  *)
(* still in the record of its address, or out of the window, or lies a     *)
(* lockout before the time until which the address was last locked out, so *)
(* an address that is not locked out has fewer than Threshold failures in  *)
(* the window.  It is locked out by one more, and the handlers that passed *)
(* the check until then are the only ones that can still add to them.      *)
(***************************************************************************)

\* The failures that lie in the window at t.
InWindow(F, t) == {f \in F : f.time + FailureWindow > t}

\* The failures that count at a failure's time, up to it.
Counted(F, last) == {f \in F : f.time <= last.time /\ f.time + FailureWindow > last.time}

\* What a record e and the failures F of an address have to do with each other at t.
Finite(F, t) == IsFiniteSet(F) /\ F \subseteq Failures /\ \A f \in F : f.time <= t

Few(e, F) == e # None => e.failures \subseteq F /\ Cardinality(e.failures) < Threshold

Accounted(e, F, t) ==
  \A f \in F :
    \/ e # None /\ f \in e.failures
    \/ f.time + FailureWindow <= t
    \/ e # None /\ f.time + Lockout <= e.lockedTill

Reasoned(e, F) ==
  e # None /\ e.lockedTill # 0 =>
    \E last \in F : e.lockedTill = last.time + Lockout
                    /\ Cardinality(Counted(F, last)) >= Threshold

Sound(e, F, t) == Finite(F, t) /\ Few(e, F) /\ Accounted(e, F, t) /\ Reasoned(e, F)

\* The handlers that have passed the check for an address and have not yet verified.
Verifying(ip) == {l \in Logins : login[l] # None /\ login[l].at = "verify" /\ login[l].ip = ip}

Locked(e, t) == e # None /\ t < e.lockedTill

Underway(ip) ==
  LockedOut(ip) =>
    Cardinality(InWindow(failed[ip], now)) + Cardinality(Verifying(ip))
      <= Threshold + Cardinality(Logins) - 1

LimiterInv == \A ip \in IPs : Sound(entries[ip], failed[ip], now) /\ Underway(ip)

\* A handler that has read a session has read what the table says, if it still does.
SessionInv ==
  /\ \A k \in Tokens : sessions[k] # None => k \in issued
  /\ \A r \in Requests : request[r] # None =>
       /\ request[r].token \in issued
       /\ sessions[request[r].token] \in {None, request[r].expires}

AuthInv == now \in Nat /\ AuthTypeOK /\ LimiterInv /\ SessionInv

--------------------------------------------------------------------------------
(* Records. *)

\* Pruned is InWindow now.
LEMMA PrunedWindow == \A F : Pruned(F) = InWindow(F, now)
BY DEF Pruned, InWindow

\* An address that is not locked out has fewer failures in the window than the
\* threshold: recordFailure would have locked it out.
LEMMA UnlockedFew ==
  ASSUME NEW e \in Record \cup {None}, NEW F, NEW t \in Nat, Sound(e, F, t), ~Locked(e, t)
  PROVE  Cardinality(InWindow(F, t)) <= Threshold - 1
<1> USE AuthAssumption DEF Sound, Finite
<1>1. \A f \in F : f.time \in Nat
  BY DEF Failures
<1>2. CASE e = None
  <2>1. InWindow(F, t) = {}
    BY <1>1, <1>2 DEF InWindow, Accounted
  <2> QED BY <2>1, FS_EmptySet
<1>3. CASE e # None
  <2>1. e \in Record
    BY <1>3
  <2>2. e.lockedTill \in Nat /\ e.lockedTill <= t
    BY <2>1, <1>3 DEF Locked, Record
  <2>3. e.failures \subseteq F /\ Cardinality(e.failures) < Threshold
    BY <1>3 DEF Few
  <2>4. InWindow(F, t) \subseteq e.failures
    <3> SUFFICES ASSUME NEW f \in F, f.time + FailureWindow > t
                 PROVE  f \in e.failures
      BY DEF InWindow
    <3>1. ~(f.time + FailureWindow <= t)
      BY <1>1
    <3>2. ~(f.time + Lockout <= e.lockedTill)
      BY <1>1, <2>2
    <3> QED BY <3>1, <3>2 DEF Accounted
  <2>5. IsFiniteSet(e.failures)
    BY <2>3, FS_Subset
  <2>6. Cardinality(InWindow(F, t)) <= Cardinality(e.failures) /\ IsFiniteSet(InWindow(F, t))
    BY <2>4, <2>5, FS_Subset
  <2>7. Cardinality(InWindow(F, t)) \in Nat /\ Cardinality(e.failures) \in Nat
    BY <2>5, <2>6, FS_CardinalityType
  <2> QED BY <2>3, <2>6, <2>7
<1> QED BY <1>2, <1>3

\* Time goes by.
LEMMA SoundLater ==
  ASSUME NEW e \in Record \cup {None}, NEW F, NEW t \in Nat, Sound(e, F, t)
  PROVE  Sound(e, F, t + 1)
<1>1. Finite(F, t + 1)
  BY DEF Sound, Finite, Failures
<1>2. Accounted(e, F, t + 1)
  BY AuthAssumption DEF Sound, Finite, Failures, Accounted
<1> QED BY <1>1, <1>2 DEF Sound

\* A sweep forgets of a record only what is out of the window.
LEMMA SoundSwept ==
  ASSUME AuthTypeOK, now \in Nat, NEW ip \in IPs, NEW F, Sound(entries[ip], F, now)
  PROVE  /\ Sound(Swept[ip], F, now)
         /\ Swept[ip] \in Record \cup {None}
         /\ Locked(Swept[ip], now) => LockedOut(ip)
<1> USE AuthAssumption
<1> DEFINE e == entries[ip]
           kept == Pruned(e.failures)
           s == Swept[ip]
<1>0. e \in Record \cup {None}
  BY DEF AuthTypeOK
<1>1. \A f \in F : f.time \in Nat
  BY DEF Sound, Finite, Failures
<1>2. CASE e = None
  <2>1. s = None
    BY <1>2 DEF Swept
  <2> QED BY <2>1, <1>2 DEF Locked
<1>3. CASE e # None
  <2>0. e \in Record /\ e.failures \subseteq F /\ Cardinality(e.failures) < Threshold
    BY <1>0, <1>3 DEF Sound, Few
  <2>1. e.lockedTill \in Nat /\ e.failures \subseteq Failures
    BY <2>0 DEF Record
  <2>2. kept \subseteq e.failures /\ IsFiniteSet(e.failures)
    BY <2>0, FS_Subset DEF Pruned, Sound, Finite
  <2>3. Cardinality(kept) < Threshold
    <3>1. Cardinality(kept) <= Cardinality(e.failures) /\ IsFiniteSet(kept)
      BY <2>2, FS_Subset
    <3>2. Cardinality(kept) \in Nat /\ Cardinality(e.failures) \in Nat
      BY <2>2, <3>1, FS_CardinalityType
    <3> QED BY <3>1, <3>2, <2>0
  <2>4. \A f \in F : f \in kept \/ f.time + FailureWindow <= now \/ f.time + Lockout <= e.lockedTill
    <3> SUFFICES ASSUME NEW f \in F, ~(f.time + FailureWindow <= now),
                        ~(f.time + Lockout <= e.lockedTill)
                 PROVE  f \in kept
      OBVIOUS
    <3>1. f \in e.failures
      BY DEF Sound, Accounted
    <3> QED BY <3>1, <1>1 DEF Pruned
  <2>5. CASE kept = {} /\ e.lockedTill < now
    <3>1. s = None
      BY <2>5, <1>3 DEF Swept
    <3>2. Accounted(None, F, now)
      <4> SUFFICES ASSUME NEW f \in F
                   PROVE  f.time + FailureWindow <= now
        BY DEF Accounted
      <4>1. f.time + FailureWindow <= now \/ f.time + Lockout <= e.lockedTill
        BY <2>4, <2>5
      <4> QED BY <4>1, <1>1, <2>1, <2>5
    <3> QED BY <3>1, <3>2 DEF Sound, Few, Reasoned, Locked
  <2>6. CASE ~(kept = {} /\ e.lockedTill < now)
    <3>1. s = [failures |-> kept, lockedTill |-> e.lockedTill]
      BY <2>6, <1>3, <2>0 DEF Swept, Record
    <3> HIDE DEF kept, s, e
    <3>2. s \in Record /\ s # None /\ s.failures = kept /\ s.lockedTill = e.lockedTill
      BY <3>1, <2>1, <2>2, RecordAssumption DEF Record
    <3>3. Few(s, F)
      BY <3>2, <2>0, <2>2, <2>3 DEF Few
    <3>4. Accounted(s, F, now)
      BY <3>2, <2>4 DEF Accounted
    <3>5. Reasoned(s, F)
      BY <3>2, <1>3 DEF Sound, Reasoned, e
    <3>6. Locked(s, now) => LockedOut(ip)
      BY <3>2, <1>3 DEF Locked, LockedOut, e
    <3> QED BY <3>2, <3>3, <3>4, <3>5, <3>6 DEF Sound, s, e
  <2> QED BY <2>5, <2>6
<1> QED BY <1>2, <1>3

\* What recordFailure takes for no record.
LEMMA SoundNoRecord ==
  ASSUME NEW F, NEW t \in Nat, Sound(None, F, t)
  PROVE  Sound(NoRecord, F, t) /\ NoRecord \in Record
<1>1. NoRecord \in Record /\ NoRecord # None
  BY RecordAssumption DEF NoRecord, Record
<1>2. Few(NoRecord, F)
  BY AuthAssumption, FS_EmptySet DEF Few, NoRecord
<1>3. Accounted(NoRecord, F, t)
  BY DEF Sound, Accounted
<1>4. Reasoned(NoRecord, F)
  BY DEF Reasoned, NoRecord
<1> QED BY <1>1, <1>2, <1>3, <1>4 DEF Sound

\* A failure that is recorded leaves the record sound.
LEMMA SoundFailure ==
  ASSUME NEW e \in Record, NEW F, now \in Nat, Sound(e, F, now),
         NEW f \in Failures, f.time = now
  PROVE  Sound(AfterFailure(e, f), F \cup {f}, now) /\ AfterFailure(e, f) \in Record
<1> USE AuthAssumption
<1> DEFINE G == F \cup {f}
           failures == Pruned(e.failures) \cup {f}
           a == AfterFailure(e, f)
<1>0. /\ e # None /\ e.lockedTill \in Nat /\ e.failures \subseteq Failures
      /\ f.time \in Nat /\ \A g \in G : g.time \in Nat
  BY RecordAssumption DEF Record, Failures, Sound, Finite
<1>1. Finite(G, now)
  BY <1>0, FS_AddElement DEF Sound, Finite
<1>2. e.failures \subseteq F /\ Cardinality(e.failures) < Threshold
  BY <1>0 DEF Sound, Few
<1>3. failures \subseteq G /\ failures \subseteq Failures
  BY <1>0, <1>2 DEF Pruned
<1>4. IsFiniteSet(G) /\ IsFiniteSet(failures)
  BY <1>1, <1>3, FS_Subset DEF Finite
<1>5. Cardinality(failures) \in Nat
  BY <1>4, FS_CardinalityType
<1>6. CASE Cardinality(failures) >= Threshold
  <2>1. a = [failures |-> {}, lockedTill |-> now + Lockout]
    BY <1>6 DEF AfterFailure
  <2> HIDE DEF a
  <2>2. a \in Record /\ a # None /\ a.failures = {} /\ a.lockedTill = now + Lockout
    BY <2>1, RecordAssumption DEF Record
  <2>3. Few(a, G)
    BY <2>2, FS_EmptySet DEF Few
  <2>4. Accounted(a, G, now)
    <3>1. \A g \in G : g.time <= now
      BY <1>1 DEF Finite
    <3>2. \A g \in G : g.time + Lockout <= a.lockedTill
      BY <3>1, <2>2, <1>0
    <3> QED BY <3>2, <2>2 DEF Accounted
  <2>5. Reasoned(a, G)
    <3>1. failures \subseteq Counted(G, f)
      <4> SUFFICES ASSUME NEW g \in failures
                   PROVE  g.time <= f.time /\ g.time + FailureWindow > f.time
        BY <1>3 DEF Counted
      <4>1. CASE g = f
        BY <4>1, <1>0
      <4>2. CASE g \in Pruned(e.failures)
        BY <4>2, <1>1, <1>2, <1>3 DEF Pruned, Finite
      <4> QED BY <4>1, <4>2
    <3>2. IsFiniteSet(Counted(G, f))
      BY <1>4, FS_Subset DEF Counted
    <3>3. Cardinality(failures) <= Cardinality(Counted(G, f)) /\ Cardinality(Counted(G, f)) \in Nat
      BY <3>1, <3>2, FS_Subset, FS_CardinalityType
    <3>4. Cardinality(Counted(G, f)) >= Threshold
      BY <3>3, <1>5, <1>6
    <3> QED BY <3>4, <2>2 DEF Reasoned
  <2> QED BY <1>1, <2>2, <2>3, <2>4, <2>5 DEF Sound, a
<1>7. CASE ~(Cardinality(failures) >= Threshold)
  <2>1. a = [failures |-> failures, lockedTill |-> e.lockedTill]
    BY <1>7 DEF AfterFailure, Record
  <2> HIDE DEF a, failures
  <2>2. a \in Record /\ a # None /\ a.failures = failures /\ a.lockedTill = e.lockedTill
    BY <2>1, <1>0, <1>3, RecordAssumption DEF Record
  <2>3. Few(a, G)
    BY <2>2, <1>3, <1>5, <1>7 DEF Few
  <2>4. Accounted(a, G, now)
    <3> SUFFICES ASSUME NEW g \in G, ~(g.time + FailureWindow <= now),
                        ~(g.time + Lockout <= e.lockedTill)
                 PROVE  g \in failures
      BY <2>2 DEF Accounted
    <3>1. CASE g = f
      BY <3>1 DEF failures
    <3>2. CASE g # f
      <4>1. g \in e.failures
        BY <3>2 DEF Sound, Accounted
      <4> QED BY <4>1, <1>0 DEF failures, Pruned
    <3> QED BY <3>1, <3>2
  <2>5. Reasoned(a, G)
    <3> SUFFICES ASSUME e.lockedTill # 0
                 PROVE  \E last \in G : e.lockedTill = last.time + Lockout
                                        /\ Cardinality(Counted(G, last)) >= Threshold
      BY <2>2 DEF Reasoned
    <3>1. PICK last \in F : e.lockedTill = last.time + Lockout
                            /\ Cardinality(Counted(F, last)) >= Threshold
      BY <1>0 DEF Sound, Reasoned
    <3>2. Counted(F, last) \subseteq Counted(G, last) /\ IsFiniteSet(Counted(G, last))
      BY <1>4, FS_Subset DEF Counted
    <3>3. /\ Cardinality(Counted(F, last)) <= Cardinality(Counted(G, last))
          /\ Cardinality(Counted(F, last)) \in Nat /\ Cardinality(Counted(G, last)) \in Nat
      BY <3>2, FS_Subset, FS_CardinalityType
    <3>4. Cardinality(Counted(G, last)) >= Threshold
      BY <3>1, <3>3
    <3> QED BY <3>1, <3>4
  <2> QED BY <1>1, <2>2, <2>3, <2>4, <2>5 DEF Sound, a
<1> QED BY <1>6, <1>7

\* No record goes with no failures.
LEMMA SoundNothing == \A t : Sound(None, {}, t)
BY FS_EmptySet DEF Sound, Finite, Few, Accounted, Reasoned

--------------------------------------------------------------------------------
(* The handlers under way. *)

LEMMA VerifyingFinite ==
  \A ip : /\ IsFiniteSet(Verifying(ip)) /\ Cardinality(Verifying(ip)) \in Nat
          /\ Cardinality(Logins) \in Nat /\ Cardinality(Verifying(ip)) <= Cardinality(Logins)
BY AuthAssumption, FS_Subset, FS_CardinalityType DEF Verifying

LEMMA WindowFinite ==
  ASSUME NEW F, NEW t, Finite(F, t), NEW u
  PROVE  IsFiniteSet(InWindow(F, u)) /\ Cardinality(InWindow(F, u)) \in Nat
BY FS_Subset, FS_CardinalityType DEF InWindow, Finite

\* An address that is locked out has no more failures, and no more handlers on their
\* way to one, than there were when it was locked out.
LEMMA LimiterGivesBound ==
  ASSUME now \in Nat, AuthTypeOK, LimiterInv
  PROVE  FailuresBounded
<1> USE AuthAssumption
<1> SUFFICES ASSUME NEW ip \in IPs
             PROVE  Cardinality(Pruned(failed[ip])) <= Threshold + Cardinality(Logins) - 1
  BY DEF FailuresBounded
<1>1. /\ Cardinality(InWindow(failed[ip], now)) \in Nat
      /\ Cardinality(Verifying(ip)) \in Nat /\ Cardinality(Logins) \in Nat
  BY WindowFinite, VerifyingFinite DEF LimiterInv, Sound
<1>2. CASE LockedOut(ip)
  BY <1>1, <1>2, PrunedWindow DEF LimiterInv, Underway
<1>3. CASE ~LockedOut(ip)
  <2>1. Cardinality(InWindow(failed[ip], now)) <= Threshold - 1
    BY <1>3, UnlockedFew DEF LimiterInv, LockedOut, Locked, AuthTypeOK
  <2> QED BY <2>1, <1>1, PrunedWindow
<1> QED BY <1>2, <1>3

LEMMA LimiterGivesJustified ==
  ASSUME now \in Nat, AuthTypeOK, LimiterInv
  PROVE  LockoutJustified
<1> SUFFICES ASSUME NEW ip \in IPs, LockedOut(ip)
             PROVE  \E last \in failed[ip] :
                      /\ now < last.time + Lockout
                      /\ Cardinality(Counted(failed[ip], last)) >= Threshold
  BY DEF LockoutJustified, Counted
<1>1. entries[ip] # None /\ entries[ip].lockedTill # 0 /\ now < entries[ip].lockedTill
  BY DEF LockedOut, AuthTypeOK, Record
<1>2. PICK last \in failed[ip] :
        /\ entries[ip].lockedTill = last.time + Lockout
        /\ Cardinality(Counted(failed[ip], last)) >= Threshold
  BY <1>1 DEF LimiterInv, Sound, Reasoned
<1> QED BY <1>1, <1>2

--------------------------------------------------------------------------------
(* Every step keeps the invariant. *)

\* A step that does not touch the records, and lets no handler pass the check.
LEMMA LimiterKept ==
  ASSUME now \in Nat, LimiterInv, UNCHANGED <<now, entries, failed>>,
         \A ip \in IPs : Verifying(ip)' \subseteq Verifying(ip)
  PROVE  LimiterInv'
<1> SUFFICES ASSUME NEW ip \in IPs, LockedOut(ip)
             PROVE  Cardinality(InWindow(failed[ip], now)) + Cardinality(Verifying(ip)')
                      <= Threshold + Cardinality(Logins) - 1
  BY DEF LimiterInv, Underway, LockedOut
<1>1. Cardinality(Verifying(ip)') <= Cardinality(Verifying(ip))
  BY VerifyingFinite, FS_Subset
<1>2. /\ Cardinality(Verifying(ip)') \in Nat /\ Cardinality(Verifying(ip)) \in Nat
      /\ Cardinality(Logins) \in Nat
      /\ Cardinality(InWindow(failed[ip], now)) \in Nat
  <2>1. IsFiniteSet(Verifying(ip)')
    BY VerifyingFinite, FS_Subset
  <2> QED BY <2>1, FS_CardinalityType, VerifyingFinite, WindowFinite DEF LimiterInv, Sound
<1>3. Cardinality(InWindow(failed[ip], now)) + Cardinality(Verifying(ip))
        <= Threshold + Cardinality(Logins) - 1
  BY DEF LimiterInv, Underway
<1> QED BY <1>1, <1>2, <1>3, AuthAssumption

\* The bound for one address that stays locked out.
LEMMA UnderwayKept ==
  ASSUME NEW ip \in IPs, Finite(failed[ip], now), Underway(ip), LockedOut(ip)' => LockedOut(ip),
         failed'[ip] = failed[ip],
         InWindow(failed[ip], now') \subseteq InWindow(failed[ip], now),
         Verifying(ip)' \subseteq Verifying(ip)
  PROVE  Underway(ip)'
<1> SUFFICES ASSUME LockedOut(ip)
             PROVE  Cardinality(InWindow(failed[ip], now')) + Cardinality(Verifying(ip)')
                      <= Threshold + Cardinality(Logins) - 1
  BY DEF Underway
<1>1. IsFiniteSet(Verifying(ip)') /\ IsFiniteSet(InWindow(failed[ip], now))
      /\ IsFiniteSet(InWindow(failed[ip], now'))
  BY VerifyingFinite, WindowFinite, FS_Subset
<1>2. /\ Cardinality(Verifying(ip)') <= Cardinality(Verifying(ip))
      /\ Cardinality(InWindow(failed[ip], now')) <= Cardinality(InWindow(failed[ip], now))
  BY <1>1, VerifyingFinite, FS_Subset
<1>3. /\ Cardinality(Verifying(ip)') \in Nat /\ Cardinality(Verifying(ip)) \in Nat
      /\ Cardinality(InWindow(failed[ip], now)) \in Nat
      /\ Cardinality(InWindow(failed[ip], now')) \in Nat
      /\ Cardinality(Logins) \in Nat
  BY <1>1, FS_CardinalityType, VerifyingFinite
<1>4. Cardinality(InWindow(failed[ip], now)) + Cardinality(Verifying(ip))
        <= Threshold + Cardinality(Logins) - 1
  BY DEF Underway
<1> QED BY <1>2, <1>3, <1>4, AuthAssumption

LEMMA LimiterCheck ==
  ASSUME AuthInv, UNCHANGED now, NEW l \in Logins, NEW ip \in IPs, Check(l, ip)
  PROVE  LimiterInv' /\ AuthTypeOK'
<1>1. AuthTypeOK'
  <2>1. entries' \in [IPs -> Record \cup {None}]
    BY SoundSwept DEF AuthInv, LimiterInv, Check, Swept
  <2> QED BY <2>1 DEF AuthInv, AuthTypeOK, Check
<1>2. SUFFICES ASSUME NEW i \in IPs
               PROVE  Sound(entries'[i], failed'[i], now') /\ Underway(i)'
  BY <1>1 DEF LimiterInv
<1>3. /\ entries'[i] = Swept[i] /\ failed' = failed /\ now' = now
      /\ Sound(entries[i], failed[i], now) /\ Underway(i)
  BY DEF AuthInv, LimiterInv, Check
<1>4. Sound(Swept[i], failed[i], now) /\ (Locked(Swept[i], now) => LockedOut(i))
  BY <1>3, SoundSwept DEF AuthInv
<1>5. LockedOut(i)' => LockedOut(i)
  BY <1>3, <1>4 DEF LockedOut, Locked
<1>6. LockedOut(i) => Verifying(i)' \subseteq Verifying(i)
  BY DEF Check, Verifying, AuthInv, AuthTypeOK
<1>7. Underway(i)'
  <2>1. CASE LockedOut(i)
    BY <2>1, <1>3, <1>5, <1>6, UnderwayKept DEF Sound
  <2>2. CASE ~LockedOut(i)
    BY <2>2, <1>5 DEF Underway
  <2> QED BY <2>1, <2>2
<1> QED BY <1>3, <1>4, <1>7

LEMMA LimiterFail ==
  ASSUME AuthInv, UNCHANGED now, NEW l \in Logins, Fail(l)
  PROVE  LimiterInv' /\ AuthTypeOK'
<1> USE AuthAssumption
<1>0. login[l] \in [ip : IPs, at : {"verify", "success"}] /\ login[l].at = "verify"
  BY DEF AuthInv, AuthTypeOK, Fail
<1>1. PICK ip \in IPs : login[l].ip = ip
  BY <1>0
<1> DEFINE F == failed[ip]
<1>a. PICK f : f = [time |-> now, nr |-> Cardinality(F)]
  OBVIOUS
<1>b. PICK e : e = IF entries[ip] = None THEN NoRecord ELSE entries[ip]
  OBVIOUS
<1>2. /\ entries' = [entries EXCEPT ![ip] = AfterFailure(e, f)]
      /\ failed' = [failed EXCEPT ![ip] = F \cup {f}]
      /\ login' = [login EXCEPT ![l] = None]
      /\ UNCHANGED <<sessions, issued, request>> /\ now' = now
  BY <1>1, <1>a, <1>b DEF Fail
<1>3. Sound(entries[ip], F, now) /\ Underway(ip) /\ now \in Nat
  BY <1>1 DEF AuthInv, LimiterInv
<1>4. f \in Failures /\ f.time = now
  BY <1>a, <1>3, FS_CardinalityType DEF Failures, Sound, Finite
<1>5. e \in Record /\ Sound(e, F, now)
  BY <1>b, <1>3, SoundNoRecord DEF AuthInv, AuthTypeOK
<1>6. Sound(AfterFailure(e, f), F \cup {f}, now) /\ AfterFailure(e, f) \in Record
  BY <1>3, <1>4, <1>5, SoundFailure
<1>7. AuthTypeOK'
  <2>1. entries' \in [IPs -> Record \cup {None}]
    BY <1>2, <1>6 DEF AuthInv, AuthTypeOK
  <2>2. failed' \in [IPs -> SUBSET Failures]
    BY <1>1, <1>2, <1>4 DEF AuthInv, AuthTypeOK
  <2>3. login' \in [Logins -> [ip : IPs, at : {"verify", "success"}] \cup {None}]
    BY <1>2 DEF AuthInv, AuthTypeOK
  <2> QED BY <1>2, <2>1, <2>2, <2>3 DEF AuthInv, AuthTypeOK
<1>8. \A i \in IPs : Verifying(i)' \subseteq Verifying(i)
  BY <1>2 DEF Verifying, AuthInv, AuthTypeOK
<1>9. Underway(ip)'
  <2> SUFFICES Cardinality(InWindow(F \cup {f}, now)) + Cardinality(Verifying(ip)')
                 <= Threshold + Cardinality(Logins) - 1
    BY <1>1, <1>2 DEF Underway, AuthInv, AuthTypeOK
  <2>1. l \in Verifying(ip) /\ Verifying(ip)' \subseteq Verifying(ip) \ {l}
    BY <1>0, <1>1, <1>2 DEF Verifying, Fail, AuthInv, AuthTypeOK
  <2>2. /\ IsFiniteSet(Verifying(ip) \ {l}) /\ IsFiniteSet(Logins \ {l})
        /\ Cardinality(Verifying(ip) \ {l}) = Cardinality(Verifying(ip)) - 1
        /\ Cardinality(Logins \ {l}) = Cardinality(Logins) - 1
    BY <2>1, VerifyingFinite, FS_RemoveElement
  <2>3. /\ IsFiniteSet(Verifying(ip)')
        /\ Cardinality(Verifying(ip)') <= Cardinality(Verifying(ip)) - 1
        /\ Cardinality(Verifying(ip)') <= Cardinality(Logins) - 1
    <3>1. Verifying(ip)' \subseteq Logins \ {l}
      BY <2>1 DEF Verifying
    <3> QED BY <2>1, <2>2, <3>1, FS_Subset
  <2>4. IsFiniteSet(InWindow(F, now)) /\ Cardinality(InWindow(F, now)) \in Nat
    BY <1>3, WindowFinite DEF Sound
  <2>5. InWindow(F \cup {f}, now) \subseteq InWindow(F, now) \cup {f}
    BY DEF InWindow
  <2>6. /\ IsFiniteSet(InWindow(F \cup {f}, now))
        /\ Cardinality(InWindow(F \cup {f}, now)) <= Cardinality(InWindow(F, now)) + 1
    <3>1. /\ IsFiniteSet(InWindow(F, now) \cup {f})
          /\ Cardinality(InWindow(F, now) \cup {f}) <= Cardinality(InWindow(F, now)) + 1
      <4>1. /\ IsFiniteSet(InWindow(F, now) \cup {f})
            /\ Cardinality(InWindow(F, now) \cup {f}) =
                 IF f \in InWindow(F, now) THEN Cardinality(InWindow(F, now))
                                          ELSE Cardinality(InWindow(F, now)) + 1
        BY <2>4, FS_AddElement
      <4> QED BY <4>1, <2>4
    <3>2. /\ IsFiniteSet(InWindow(F \cup {f}, now))
          /\ Cardinality(InWindow(F \cup {f}, now)) <= Cardinality(InWindow(F, now) \cup {f})
      BY <2>5, <3>1, FS_Subset
    <3>3. /\ Cardinality(InWindow(F, now) \cup {f}) \in Nat
          /\ Cardinality(InWindow(F \cup {f}, now)) \in Nat
      BY <3>1, <3>2, FS_CardinalityType
    <3> QED BY <3>1, <3>2, <3>3, <2>4
  <2>7. /\ Cardinality(Verifying(ip)') \in Nat /\ Cardinality(Verifying(ip)) \in Nat
        /\ Cardinality(Logins) \in Nat /\ Cardinality(InWindow(F \cup {f}, now)) \in Nat
    BY <2>3, <2>6, FS_CardinalityType, VerifyingFinite
  <2>8. CASE LockedOut(ip)
    <3>1. Cardinality(InWindow(F, now)) + Cardinality(Verifying(ip))
            <= Threshold + Cardinality(Logins) - 1
      BY <2>8, <1>3 DEF Underway
    <3> QED BY <3>1, <2>3, <2>4, <2>6, <2>7
  <2>9. CASE ~LockedOut(ip)
    <3>1. Cardinality(InWindow(F, now)) <= Threshold - 1
      BY <1>1, <1>3, <2>9, UnlockedFew DEF LockedOut, Locked, AuthInv, AuthTypeOK
    <3> QED BY <3>1, <2>3, <2>4, <2>6, <2>7
  <2> QED BY <2>8, <2>9
<1>10. ASSUME NEW i \in IPs, i # ip
       PROVE  Sound(entries'[i], failed'[i], now') /\ Underway(i)'
  <2>1. /\ entries'[i] = entries[i] /\ failed'[i] = failed[i] /\ now' = now
        /\ Sound(entries[i], failed[i], now) /\ Underway(i)
    BY <1>1, <1>2, <1>10 DEF AuthInv, AuthTypeOK, LimiterInv
  <2>2. Underway(i)'
    BY <2>1, <1>8, UnderwayKept DEF Sound, LockedOut
  <2> QED BY <2>1, <2>2
<1>11. Sound(entries'[ip], failed'[ip], now')
  BY <1>1, <1>2, <1>6 DEF AuthInv, AuthTypeOK
<1>12. \A i \in IPs : Sound(entries'[i], failed'[i], now') /\ Underway(i)'
  BY <1>9, <1>10, <1>11
<1> QED BY <1>7, <1>12 DEF LimiterInv

LEMMA LimiterSucceed ==
  ASSUME AuthInv, UNCHANGED now, NEW l \in Logins, Succeed(l)
  PROVE  LimiterInv' /\ AuthTypeOK'
<1> DEFINE ip == login[l].ip
<1>1. ip \in IPs
  BY DEF AuthInv, AuthTypeOK, Succeed
<1>2. /\ entries' = [entries EXCEPT ![ip] = None] /\ failed' = [failed EXCEPT ![ip] = {}]
      /\ login' = [login EXCEPT ![l] = None] /\ now' = now
      /\ UNCHANGED <<sessions, issued, request>>
  BY DEF Succeed
<1>3. AuthTypeOK'
  BY <1>1, <1>2 DEF AuthInv, AuthTypeOK
<1>4. \A i \in IPs : Verifying(i)' \subseteq Verifying(i)
  BY <1>2 DEF Verifying, AuthInv, AuthTypeOK
<1> SUFFICES ASSUME NEW i \in IPs
             PROVE  Sound(entries'[i], failed'[i], now') /\ Underway(i)'
  BY <1>3 DEF LimiterInv
<1>5. CASE i = ip
  <2>1. entries'[i] = None /\ failed'[i] = {}
    BY <1>2, <1>5 DEF AuthInv, AuthTypeOK
  <2> QED BY <2>1, SoundNothing DEF Underway, LockedOut
<1>6. CASE i # ip
  <2>1. /\ entries'[i] = entries[i] /\ failed'[i] = failed[i] /\ now' = now
        /\ Sound(entries[i], failed[i], now) /\ Underway(i)
    BY <1>1, <1>2, <1>6 DEF AuthInv, AuthTypeOK, LimiterInv
  <2>2. Underway(i)'
    BY <2>1, <1>4, UnderwayKept DEF Sound, LockedOut
  <2> QED BY <2>1, <2>2
<1> QED BY <1>5, <1>6

LEMMA LimiterTick ==
  ASSUME AuthInv, Tick, UNCHANGED auth
  PROVE  LimiterInv'
<1> SUFFICES ASSUME NEW i \in IPs
             PROVE  Sound(entries'[i], failed'[i], now') /\ Underway(i)'
  BY DEF LimiterInv
<1>1. /\ entries' = entries /\ failed' = failed /\ login' = login /\ now' = now + 1 /\ now \in Nat
      /\ Sound(entries[i], failed[i], now) /\ Underway(i) /\ entries[i] \in Record \cup {None}
  BY DEF auth, Tick, AuthInv, AuthTypeOK, LimiterInv
<1>2. Sound(entries[i], failed[i], now + 1)
  BY <1>1, SoundLater
<1>3. LockedOut(i)' => LockedOut(i)
  BY <1>1 DEF LockedOut, Record
<1>4. InWindow(failed[i], now') \subseteq InWindow(failed[i], now)
  BY <1>1, AuthAssumption DEF InWindow, Sound, Finite, Failures
<1>5. Verifying(i)' = Verifying(i)
  BY <1>1 DEF Verifying
<1>6. Underway(i)'
  BY <1>1, <1>3, <1>4, <1>5, UnderwayKept DEF Sound
<1> QED BY <1>1, <1>2, <1>6

\* The steps of handlers that do not touch the records.
LEMMA LimiterOther ==
  ASSUME AuthInv, UNCHANGED now,
         \/ \E l \in Logins : GiveUpLogin(l) \/ \E k \in Tokens : CreateSession(l, k)
         \/ \E k \in Tokens : Logout(k)
         \/ \E r \in Requests : (\E k \in Tokens : Look(r, k)) \/ Admit(r) \/ Expire(r)
         \/ PruneSessions
  PROVE  LimiterInv' /\ AuthTypeOK'
<1>0. now \in Nat /\ AuthTypeOK /\ LimiterInv
  BY DEF AuthInv
<1>1. ASSUME NEW l \in Logins, GiveUpLogin(l)
      PROVE  AuthTypeOK' /\ UNCHANGED <<entries, failed>>
             /\ \A ip \in IPs : Verifying(ip)' \subseteq Verifying(ip)
  BY <1>0, <1>1 DEF GiveUpLogin, AuthTypeOK, Verifying
<1>2. ASSUME NEW l \in Logins, NEW k \in Tokens, CreateSession(l, k)
      PROVE  AuthTypeOK' /\ UNCHANGED <<entries, failed>>
             /\ \A ip \in IPs : Verifying(ip)' \subseteq Verifying(ip)
  <2>1. /\ login[l] \in [ip : IPs, at : {"verify", "success"}]
        /\ login' = [login EXCEPT ![l] = [ip |-> login[l].ip, at |-> "success"]]
        /\ sessions' = [sessions EXCEPT ![k] = now + SessionTTL]
        /\ issued' = issued \cup {k} /\ UNCHANGED <<entries, request, failed>>
    BY <1>0, <1>2 DEF CreateSession, AuthTypeOK
  <2>2. login' \in [Logins -> [ip : IPs, at : {"verify", "success"}] \cup {None}]
    BY <1>0, <2>1 DEF AuthTypeOK
  <2>3. sessions' \in [Tokens -> Nat \cup {None}]
    BY <1>0, <2>1, AuthAssumption DEF AuthTypeOK
  <2>4. AuthTypeOK'
    BY <1>0, <2>1, <2>2, <2>3 DEF AuthTypeOK
  <2>5. \A ip \in IPs : Verifying(ip)' \subseteq Verifying(ip)
    BY <1>0, <2>1 DEF AuthTypeOK, Verifying
  <2> QED BY <2>1, <2>4, <2>5
<1>3. ASSUME NEW k \in Tokens, Logout(k)
      PROVE  AuthTypeOK' /\ UNCHANGED <<entries, failed, login>>
  BY <1>0, <1>3 DEF Logout, AuthTypeOK
<1>4. ASSUME NEW r \in Requests, NEW k \in Tokens, Look(r, k)
      PROVE  AuthTypeOK' /\ UNCHANGED <<entries, failed, login>>
  BY <1>0, <1>4 DEF Look, AuthTypeOK
<1>5. ASSUME NEW r \in Requests, Admit(r)
      PROVE  AuthTypeOK' /\ UNCHANGED <<entries, failed, login>>
  BY <1>0, <1>5 DEF Admit, AuthTypeOK
<1>6. ASSUME NEW r \in Requests, Expire(r)
      PROVE  AuthTypeOK' /\ UNCHANGED <<entries, failed, login>>
  <2>1. sessions' \in [Tokens -> Nat \cup {None}]
    BY <1>0, <1>6 DEF Expire, AuthTypeOK
  <2> QED BY <1>0, <1>6, <2>1 DEF Expire, AuthTypeOK
<1>7. ASSUME PruneSessions
      PROVE  AuthTypeOK' /\ UNCHANGED <<entries, failed, login>>
  BY <1>0, <1>7 DEF PruneSessions, AuthTypeOK
<1>8. ASSUME UNCHANGED <<entries, failed, login>>
      PROVE  UNCHANGED <<entries, failed>> /\ \A ip \in IPs : Verifying(ip)' \subseteq Verifying(ip)
  BY <1>8 DEF Verifying
<1> QED BY <1>0, <1>1, <1>2, <1>3, <1>4, <1>5, <1>6, <1>7, <1>8, LimiterKept

\* A token is issued once, so what a request has read of a session stays true of it.
LEMMA SessionStep ==
  ASSUME AuthInv, AuthNext
  PROVE  SessionInv'
<1> USE DEF AuthInv, AuthTypeOK, SessionInv
<1>1. ASSUME UNCHANGED <<sessions, issued, request>>
      PROVE  SessionInv'
  BY <1>1
<1>2. ASSUME NEW l \in Logins, NEW ip \in IPs, Check(l, ip)
      PROVE  SessionInv'
  BY <1>1, <1>2 DEF Check
<1>3. ASSUME NEW l \in Logins, GiveUpLogin(l) \/ Fail(l) \/ Succeed(l)
      PROVE  SessionInv'
  BY <1>1, <1>3 DEF GiveUpLogin, Fail, Succeed
<1>4. ASSUME NEW l \in Logins, NEW k \in Tokens, CreateSession(l, k)
      PROVE  SessionInv'
  BY <1>4 DEF CreateSession
<1>5. ASSUME NEW k \in Tokens, Logout(k)
      PROVE  SessionInv'
  BY <1>5 DEF Logout
<1>6. ASSUME NEW r \in Requests, NEW k \in Tokens, Look(r, k)
      PROVE  SessionInv'
  <2>1. /\ sessions[k] # None /\ k \in issued /\ UNCHANGED <<sessions, issued>>
        /\ request' = [request EXCEPT ![r] = [token |-> k, expires |-> sessions[k]]]
    BY <1>6 DEF Look
  <2>2. ASSUME NEW q \in Requests, request'[q] # None
        PROVE  /\ request'[q].token \in issued'
               /\ sessions'[request'[q].token] \in {None, request'[q].expires}
    BY <2>1, <2>2
  <2> QED BY <2>1, <2>2
<1>7. ASSUME NEW r \in Requests, Admit(r)
      PROVE  SessionInv'
  BY <1>7 DEF Admit
<1>8. ASSUME NEW r \in Requests, Expire(r)
      PROVE  SessionInv'
  BY <1>8 DEF Expire
<1>9. ASSUME PruneSessions
      PROVE  SessionInv'
  BY <1>9 DEF PruneSessions
<1> QED BY <1>2, <1>3, <1>4, <1>5, <1>6, <1>7, <1>8, <1>9 DEF AuthNext

LEMMA AuthStepInv ==
  ASSUME AuthInv, AuthNext, UNCHANGED now
  PROVE  AuthInv'
<1>1. LimiterInv' /\ AuthTypeOK'
  <2>1. CASE \E l \in Logins, ip \in IPs : Check(l, ip)
    BY <2>1, LimiterCheck
  <2>2. CASE \E l \in Logins : Fail(l)
    BY <2>2, LimiterFail
  <2>3. CASE \E l \in Logins : Succeed(l)
    BY <2>3, LimiterSucceed
  <2>4. CASE \/ \E l \in Logins : GiveUpLogin(l) \/ \E k \in Tokens : CreateSession(l, k)
             \/ \E k \in Tokens : Logout(k)
             \/ \E r \in Requests : (\E k \in Tokens : Look(r, k)) \/ Admit(r) \/ Expire(r)
             \/ PruneSessions
    BY <2>4, LimiterOther
  <2> QED BY <2>1, <2>2, <2>3, <2>4 DEF AuthNext
<1>2. SessionInv'
  BY SessionStep
<1> QED BY <1>1, <1>2 DEF AuthInv

LEMMA AuthTickInv ==
  ASSUME AuthInv, Tick, UNCHANGED auth
  PROVE  AuthInv'
<1>1. now' \in Nat
  BY DEF AuthInv, Tick
<1>2. AuthTypeOK' /\ SessionInv'
  BY DEF AuthInv, AuthTypeOK, SessionInv, auth
<1> QED BY <1>1, <1>2, LimiterTick DEF AuthInv

LEMMA AuthRestartInv ==
  ASSUME AuthInv, AuthRestart, UNCHANGED now
  PROVE  AuthInv'
<1>1. AuthTypeOK' /\ SessionInv'
  BY DEF AuthInv, AuthTypeOK, SessionInv, AuthRestart
<1>2. ASSUME NEW ip \in IPs
      PROVE  Sound(entries'[ip], failed'[ip], now') /\ Underway(ip)'
  <2>1. entries'[ip] = None /\ failed'[ip] = {}
    BY DEF AuthRestart
  <2> QED BY <2>1, SoundNothing DEF Underway, LockedOut
<1> QED BY <1>1, <1>2 DEF AuthInv, LimiterInv

\* Of the database's steps those of logins and sessions, the clock and a restart
\* concern them.
LEMMA AuthSteps ==
  ASSUME [Next]_vars
  PROVE  \/ AuthNext /\ UNCHANGED now
         \/ Tick /\ UNCHANGED auth
         \/ AuthRestart /\ UNCHANGED now
         \/ UNCHANGED <<now, auth>>
<1>1. CASE ListsStep
  BY <1>1 DEF ListsStep, Works
<1>2. CASE ConfigStep
  BY <1>2 DEF ConfigStep, Works
<1>3. CASE AuthStep
  BY <1>3 DEF AuthStep, Works
<1>4. CASE RetentionStep
  BY <1>4 DEF RetentionStep, Works
<1>5. CASE StatsStep
  BY <1>5 DEF StatsStep, Works
<1>6. CASE SchemaStep
  BY <1>6 DEF SchemaStep
<1>7. CASE Time
  BY <1>7 DEF Time
<1>8. CASE Restart
  BY <1>8 DEF Restart
<1>9. CASE UNCHANGED vars
  BY <1>9 DEF vars
<1> QED BY <1>1, <1>2, <1>3, <1>4, <1>5, <1>6, <1>7, <1>8, <1>9 DEF Next

LEMMA AuthInitInv == Init => AuthInv
<1> SUFFICES ASSUME Init
             PROVE  AuthInv
  OBVIOUS
<1>0. now = 1 /\ AuthInit
  BY DEF Init
<1>1. AuthTypeOK /\ SessionInv
  BY <1>0 DEF AuthInit, AuthTypeOK, SessionInv
<1>2. \A ip \in IPs : Sound(entries[ip], failed[ip], now) /\ Underway(ip)
  BY <1>0, SoundNothing DEF AuthInit, Underway, LockedOut
<1> QED BY <1>0, <1>1, <1>2 DEF AuthInv, LimiterInv

LEMMA AuthInvariant == Spec => []AuthInv
<1>1. AuthInv /\ [Next]_vars => AuthInv'
  <2> SUFFICES ASSUME AuthInv, [Next]_vars
               PROVE  AuthInv'
    OBVIOUS
  <2>1. CASE UNCHANGED <<now, auth>>
    BY <2>1 DEF auth, AuthInv, AuthTypeOK, SessionInv, LimiterInv, Underway, Verifying, LockedOut
  <2> QED BY <2>1, AuthSteps, AuthStepInv, AuthTickInv, AuthRestartInv
<1> QED BY <1>1, AuthInitInv, PTL DEF Spec

--------------------------------------------------------------------------------
(* Theorems. *)

\* However logins of one address interleave, no more than Threshold and those that
\* had passed the check before it was met fail within one window.
THEOREM FailuresCorrect == Spec => []FailuresBounded
<1>1. AuthInv => FailuresBounded
  BY LimiterGivesBound DEF AuthInv
<1> QED BY <1>1, AuthInvariant, PTL

\* No address is locked out without Threshold failures in one window.
THEOREM LockoutCorrect == Spec => []LockoutJustified
<1>1. AuthInv => LockoutJustified
  BY LimiterGivesJustified DEF AuthInv
<1> QED BY <1>1, AuthInvariant, PTL

\* A session goes by logout or when it has expired, but for a fraction of a second.
THEOREM SessionsCorrect == Spec => SessionsLast
<1>1. AuthInv /\ [Next]_vars =>
        [\A k \in Tokens : sessions[k] # None /\ sessions'[k] = None =>
           Logout(k) \/ sessions[k] < now + Second]_sessions
  <2> SUFFICES ASSUME AuthInv, [Next]_vars, NEW k \in Tokens,
                      sessions[k] # None, sessions'[k] = None
               PROVE  Logout(k) \/ sessions[k] < now + Second
    OBVIOUS
  <2> USE TimeAssumption DEF AuthInv, AuthTypeOK
  <2>0. now \in Nat /\ sessions[k] \in Nat /\ Second \in Nat \ {0}
    OBVIOUS
  <2>1. CASE AuthNext
    <3>1. ASSUME NEW l \in Logins, NEW j \in Tokens, CreateSession(l, j)
          PROVE  FALSE
      <4>1. sessions'[k] \in {sessions[k], now + SessionTTL}
        BY <3>1 DEF CreateSession
      <4> QED BY <4>1, <2>0, AuthAssumption
    <3>2. ASSUME NEW j \in Tokens, Logout(j)
          PROVE  Logout(k)
      BY <3>2 DEF Logout
    <3>3. ASSUME NEW r \in Requests, Expire(r)
          PROVE  sessions[k] < now + Second
      <4>1. request[r] # None /\ ~(now < request[r].expires) /\ request[r].token = k
        BY <3>3 DEF Expire
      <4>2. sessions[k] = request[r].expires
        BY <4>1 DEF SessionInv
      <4> QED BY <4>1, <4>2, <2>0
    <3>4. ASSUME PruneSessions
          PROVE  sessions[k] < now + Second
      <4>1. Written(sessions[k], UTC) < Written(now, UTC)
        BY <3>4 DEF PruneSessions, Prunable
      <4>2. Earlier(sessions[k], UTC, now, UTC)
        <5>1. sessions[k] \in Int /\ now \in Int /\ UTC \in Int
          BY <2>0 DEF UTC
        <5>2. Written(sessions[k], UTC) <= Written(now, UTC)
          BY <4>1, <5>1, TextType
        <5> QED BY <5>1, <5>2, TextsLocal
      <4> QED BY <4>2, <2>0 DEF Earlier, UTC
    <3>5. ASSUME UNCHANGED sessions
          PROVE  FALSE
      BY <3>5
    <3> QED BY <2>1, <3>1, <3>2, <3>3, <3>4, <3>5
            DEF AuthNext, Check, GiveUpLogin, Fail, Succeed, Look, Admit
  <2>2. CASE UNCHANGED auth
    BY <2>2 DEF auth
  <2>3. CASE AuthRestart
    BY <2>3 DEF AuthRestart
  <2> QED BY <2>1, <2>2, <2>3, AuthSteps DEF auth
<1> QED BY <1>1, AuthInvariant, PTL DEF Spec, SessionsLast

--------------------------------------------------------------------------------
(* Retention. *)

\* What a table may hold when its writer stands where it does.
Bound(tb) == Keep[tb] + Every[tb] * missed[tb]

TableInv(tb) ==
  /\ IsFiniteSet(rows[tb])
  /\ writer[tb] = "receive" => Cardinality(rows[tb]) <= Bound(tb) + count[tb]
  /\ writer[tb] = "save" =>
       Cardinality(rows[tb]) + 1 <= Bound(tb) + (IF count[tb] = 0 THEN Every[tb] ELSE count[tb])
  /\ writer[tb] = "prune" => count[tb] = 0 /\ Cardinality(rows[tb]) <= Bound(tb) + Every[tb]

RetentionInv == now \in Nat /\ RetentionTypeOK /\ \A tb \in Tables : TableInv(tb)

LEMMA TableTypes ==
  ASSUME RetentionTypeOK, NEW tb \in Tables, IsFiniteSet(rows[tb])
  PROVE  /\ Keep[tb] \in Nat \ {0} /\ Every[tb] \in Nat \ {0} /\ missed[tb] \in Nat
         /\ count[tb] \in Nat /\ count[tb] < Every[tb] /\ received[tb] \in Nat
         /\ Every[tb] * missed[tb] \in Nat /\ Bound(tb) \in Nat
         /\ Cardinality(rows[tb]) \in Nat
         /\ writer[tb] \in {"receive", "save", "prune"}
<1>1. Cardinality(rows[tb]) \in Nat
  BY FS_CardinalityType
<1>2. /\ Keep[tb] \in Nat \ {0} /\ Every[tb] \in Nat \ {0} /\ missed[tb] \in Nat
      /\ count[tb] \in Nat /\ count[tb] < Every[tb] /\ received[tb] \in Nat
      /\ writer[tb] \in {"receive", "save", "prune"}
  BY RetentionAssumption DEF RetentionTypeOK
<1>3. Every[tb] * missed[tb] \in Nat
  BY <1>2
<1> QED BY <1>1, <1>2, <1>3 DEF Bound

\* One more pruning missed, one more interval of rows.
LEMMA BoundMissed ==
  ASSUME NEW e \in Nat, NEW n \in Nat
  PROVE  e * (n + 1) = e * n + e
OBVIOUS

\* Pruning keeps at most Keep rows, and all when there are no more.
LEMMA NewestSome ==
  ASSUME NEW all, IsFiniteSet(all), NEW n \in Nat, NEW kept \in Newest(all, n)
  PROVE  /\ kept \subseteq all /\ IsFiniteSet(kept) /\ Cardinality(kept) <= n
         /\ kept # all => Cardinality(kept) = n
<1>1. Cardinality(all) \in Nat
  BY FS_CardinalityType
<1>2. kept \subseteq all
  BY DEF Newest, kSubset
<1>3. Cardinality(kept) = IF n < Cardinality(all) THEN n ELSE Cardinality(all)
  BY DEF Newest, kSubset
<1>4. IsFiniteSet(kept) /\ (Cardinality(all) = Cardinality(kept) => all = kept)
  BY <1>2, FS_Subset
<1> QED BY <1>1, <1>2, <1>3, <1>4

LEMMA TableStep ==
  ASSUME RetentionInv, UNCHANGED now, NEW tb \in Tables, Writes(tb)
  PROVE  RetentionInv'
<1> USE DEF RetentionInv
<1> DEFINE n == Cardinality(rows[tb])
<1>0. /\ RetentionTypeOK /\ TableInv(tb) /\ IsFiniteSet(rows[tb])
      /\ Keep[tb] \in Nat \ {0} /\ Every[tb] \in Nat \ {0} /\ missed[tb] \in Nat
      /\ count[tb] \in Nat /\ count[tb] < Every[tb] /\ received[tb] \in Nat
      /\ Every[tb] * missed[tb] \in Nat /\ Bound(tb) \in Nat /\ n \in Nat
      /\ offset' = offset
  BY TableTypes DEF TableInv, Writes
<1>1. ASSUME NEW other \in Tables \ {tb}
      PROVE  TableInv(other)'
  <2>1. /\ rows'[other] = rows[other] /\ count'[other] = count[other]
        /\ writer'[other] = writer[other] /\ missed'[other] = missed[other]
    <3> USE <1>0 DEF RetentionTypeOK
    <3>1. CASE Receive(tb)
      BY <3>1 DEF Receive
    <3>2. CASE Save(tb)
      BY <3>2 DEF Save
    <3>3. CASE SaveFails(tb)
      BY <3>3 DEF SaveFails, Miss
    <3>4. CASE Prune(tb)
      BY <3>4 DEF Prune
    <3>5. CASE PruneFails(tb)
      BY <3>5 DEF PruneFails, Miss
    <3> QED BY <3>1, <3>2, <3>3, <3>4, <3>5 DEF Writes
  <2> QED BY <2>1 DEF TableInv, Bound
<1>2. RetentionTypeOK' /\ TableInv(tb)'
  <2>1. CASE Receive(tb)
    <3>1. /\ writer[tb] = "receive" /\ UNCHANGED <<rows, missed>>
          /\ received' = [received EXCEPT ![tb] = received[tb] + 1]
          /\ writer' = [writer EXCEPT ![tb] = "save"]
          /\ count' = [count EXCEPT ![tb] = IF count[tb] + 1 = Every[tb] THEN 0 ELSE count[tb] + 1]
      BY <2>1 DEF Receive
    <3>2. /\ count[tb] + 1 # Every[tb] => count[tb] + 1 < Every[tb]
          /\ 0 < Every[tb] /\ count[tb] + 1 \in Nat
      BY <1>0
    <3>3. RetentionTypeOK'
      <4>1. ASSUME NEW t \in Tables
            PROVE  count'[t] < Every[t]
        BY <1>0, <3>1, <3>2 DEF RetentionTypeOK
      <4>2. count' \in [Tables -> Nat]
        BY <1>0, <3>1, <3>2 DEF RetentionTypeOK
      <4> QED BY <1>0, <3>1, <4>1, <4>2 DEF RetentionTypeOK
    <3>4. /\ writer'[tb] = "save" /\ rows'[tb] = rows[tb] /\ missed'[tb] = missed[tb]
          /\ count'[tb] = IF count[tb] + 1 = Every[tb] THEN 0 ELSE count[tb] + 1
      <4>1. tb \in DOMAIN count /\ tb \in DOMAIN writer
        BY <1>0 DEF RetentionTypeOK
      <4> QED BY <3>1, <4>1
    <3>5. n <= Bound(tb) + count[tb]
      BY <3>1 DEF TableInv
    <3> QED BY <1>0, <3>3, <3>4, <3>5 DEF TableInv, Bound
  <2>2. CASE Save(tb)
    <3> DEFINE row == [id |-> received[tb], time |-> now, offset |-> offset]
    <3>1. /\ writer[tb] = "save" /\ UNCHANGED <<received, count, missed>>
          /\ rows' = [rows EXCEPT ![tb] = rows[tb] \cup {row}]
          /\ writer' = [writer EXCEPT ![tb] = IF count[tb] = 0 THEN "prune" ELSE "receive"]
      BY <2>2 DEF Save, PruneDue
    <3>2. row \in Row
      BY <1>0 DEF Row, RetentionTypeOK
    <3> HIDE DEF row
    <3>3. RetentionTypeOK'
      BY <1>0, <3>1, <3>2 DEF RetentionTypeOK
    <3>4. /\ writer'[tb] = (IF count[tb] = 0 THEN "prune" ELSE "receive")
          /\ rows'[tb] = rows[tb] \cup {row} /\ missed'[tb] = missed[tb] /\ count'[tb] = count[tb]
      BY <3>1 DEF RetentionTypeOK
    <3>5. n + 1 <= Bound(tb) + (IF count[tb] = 0 THEN Every[tb] ELSE count[tb])
      BY <3>1 DEF TableInv
    <3>6. IsFiniteSet(rows'[tb]) /\ Cardinality(rows'[tb]) <= n + 1 /\ Cardinality(rows'[tb]) \in Nat
      <4>1. /\ IsFiniteSet(rows[tb] \cup {row})
            /\ Cardinality(rows[tb] \cup {row}) = IF row \in rows[tb] THEN n ELSE n + 1
        BY <1>0, FS_AddElement
      <4> QED BY <1>0, <3>4, <4>1
    <3> QED BY <1>0, <3>3, <3>4, <3>5, <3>6 DEF TableInv, Bound
  <2>3. CASE SaveFails(tb)
    <3>1. /\ writer[tb] = "save" /\ UNCHANGED <<rows, received, count>>
          /\ writer' = [writer EXCEPT ![tb] = "receive"]
          /\ IF count[tb] = 0 THEN missed' = [missed EXCEPT ![tb] = missed[tb] + 1]
                              ELSE missed' = missed
      BY <2>3 DEF SaveFails, PruneDue, Miss
    <3>2. RetentionTypeOK'
      BY <1>0, <3>1 DEF RetentionTypeOK
    <3>3. /\ writer'[tb] = "receive" /\ rows'[tb] = rows[tb] /\ count'[tb] = count[tb]
          /\ missed'[tb] = IF count[tb] = 0 THEN missed[tb] + 1 ELSE missed[tb]
      BY <3>1 DEF RetentionTypeOK
    <3>4. n + 1 <= Bound(tb) + (IF count[tb] = 0 THEN Every[tb] ELSE count[tb])
      BY <3>1 DEF TableInv
    <3> QED BY <1>0, <3>2, <3>3, <3>4, BoundMissed DEF TableInv, Bound
  <2>4. CASE Prune(tb)
    <3>1. PICK kept \in Newest(rows[tb], Keep[tb]) : rows' = [rows EXCEPT ![tb] = kept]
      BY <2>4 DEF Prune
    <3>2. /\ writer[tb] = "prune" /\ UNCHANGED <<received, count>>
          /\ missed' = [missed EXCEPT ![tb] = 0] /\ writer' = [writer EXCEPT ![tb] = "receive"]
      BY <2>4 DEF Prune
    <3>3. kept \subseteq rows[tb] /\ IsFiniteSet(kept) /\ Cardinality(kept) <= Keep[tb]
      BY <1>0, NewestSome
    <3>4. RetentionTypeOK'
      BY <1>0, <3>1, <3>2, <3>3 DEF RetentionTypeOK
    <3>5. /\ writer'[tb] = "receive" /\ rows'[tb] = kept /\ count'[tb] = 0 /\ missed'[tb] = 0
      BY <1>0, <3>1, <3>2 DEF RetentionTypeOK, TableInv
    <3>6. Every[tb] * 0 = 0
      BY <1>0
    <3> QED BY <1>0, <3>3, <3>4, <3>5, <3>6 DEF TableInv, Bound
  <2>5. CASE PruneFails(tb)
    <3>1. /\ writer[tb] = "prune" /\ UNCHANGED <<rows, received, count>>
          /\ writer' = [writer EXCEPT ![tb] = "receive"]
          /\ missed' = [missed EXCEPT ![tb] = missed[tb] + 1]
      BY <2>5 DEF PruneFails, Miss
    <3>2. RetentionTypeOK'
      BY <1>0, <3>1 DEF RetentionTypeOK
    <3>3. /\ writer'[tb] = "receive" /\ rows'[tb] = rows[tb] /\ count'[tb] = 0
          /\ missed'[tb] = missed[tb] + 1 /\ n <= Bound(tb) + Every[tb]
      BY <1>0, <3>1 DEF RetentionTypeOK, TableInv
    <3> QED BY <1>0, <3>2, <3>3, BoundMissed DEF TableInv, Bound
  <2> QED BY <2>1, <2>2, <2>3, <2>4, <2>5 DEF Writes
<1> QED BY <1>1, <1>2

LEMMA RetentionRestartInv ==
  ASSUME RetentionInv, UNCHANGED now, RetentionRestart
  PROVE  RetentionInv'
<1> USE DEF RetentionInv
<1>1. RetentionTypeOK'
  BY RetentionAssumption DEF RetentionTypeOK, RetentionRestart
<1>2. ASSUME NEW tb \in Tables
      PROVE  TableInv(tb)'
  <2>1. /\ TableInv(tb) /\ IsFiniteSet(rows[tb])
        /\ Keep[tb] \in Nat \ {0} /\ Every[tb] \in Nat \ {0} /\ missed[tb] \in Nat
        /\ count[tb] \in Nat /\ count[tb] < Every[tb]
        /\ Every[tb] * missed[tb] \in Nat /\ Bound(tb) \in Nat
        /\ Cardinality(rows[tb]) \in Nat /\ writer[tb] \in {"receive", "save", "prune"}
    BY TableTypes DEF TableInv
  <2>2. /\ rows' = rows /\ count'[tb] = 0 /\ writer'[tb] = "receive"
        /\ missed'[tb] = IF count[tb] = 0 /\ writer[tb] = "receive" THEN missed[tb]
                         ELSE missed[tb] + 1
    BY DEF RetentionRestart
  <2> QED BY <2>1, <2>2, BoundMissed DEF TableInv, Bound
<1> QED BY <1>1, <1>2

\* Of the database's steps these concern the tables.
LEMMA RetentionSteps ==
  ASSUME [Next]_vars
  PROVE  \/ UNCHANGED now /\ \E tb \in Tables : Writes(tb)
         \/ Tick /\ UNCHANGED retention
         \/ OffsetChanges /\ UNCHANGED now
         \/ RetentionRestart /\ UNCHANGED now
         \/ UNCHANGED <<now, retention>>
<1>1. CASE ListsStep
  BY <1>1 DEF ListsStep, Works
<1>2. CASE ConfigStep
  BY <1>2 DEF ConfigStep, Works
<1>3. CASE AuthStep
  BY <1>3 DEF AuthStep, Works
<1>4. CASE RetentionStep
  <2>1. PICK tb \in Tables : Works(tb) /\ (Writes(tb) \/ OffsetChanges)
    BY <1>4 DEF RetentionStep
  <2> QED BY <2>1 DEF Works
<1>5. CASE StatsStep
  BY <1>5 DEF StatsStep, Works
<1>6. CASE SchemaStep
  BY <1>6 DEF SchemaStep
<1>7. CASE Time
  BY <1>7 DEF Time
<1>8. CASE Restart
  BY <1>8 DEF Restart
<1>9. CASE UNCHANGED vars
  BY <1>9 DEF vars
<1> QED BY <1>1, <1>2, <1>3, <1>4, <1>5, <1>6, <1>7, <1>8, <1>9 DEF Next

LEMMA RetentionInvariant == Spec => []RetentionInv
<1>1. Init => RetentionInv
  <2> SUFFICES ASSUME Init
               PROVE  RetentionInv
    OBVIOUS
  <2>0. now = 1 /\ RetentionInit
    BY DEF Init
  <2>1. RetentionTypeOK
    BY <2>0, RetentionAssumption DEF RetentionInit, RetentionTypeOK
  <2>2. ASSUME NEW tb \in Tables
        PROVE  TableInv(tb)
    <3>1. rows[tb] = {} /\ count[tb] = 0 /\ writer[tb] = "receive" /\ missed[tb] = 0
      BY <2>0 DEF RetentionInit
    <3>2. Keep[tb] \in Nat /\ Every[tb] \in Nat /\ Every[tb] * 0 = 0
      BY RetentionAssumption
    <3> QED BY <3>1, <3>2, FS_EmptySet DEF TableInv, Bound
  <2> QED BY <2>0, <2>1, <2>2 DEF RetentionInv
<1>2. RetentionInv /\ [Next]_vars => RetentionInv'
  <2> SUFFICES ASSUME RetentionInv, [Next]_vars
               PROVE  RetentionInv'
    OBVIOUS
  <2>1. ASSUME UNCHANGED retention, now' \in Nat
        PROVE  RetentionInv'
    BY <2>1 DEF retention, RetentionInv, RetentionTypeOK, TableInv, Bound
  <2>2. CASE Tick /\ UNCHANGED retention
    BY <2>1, <2>2 DEF Tick, RetentionInv
  <2>3. CASE UNCHANGED <<now, retention>>
    BY <2>1, <2>3 DEF RetentionInv
  <2>4. CASE OffsetChanges /\ UNCHANGED now
    BY <2>4 DEF OffsetChanges, RetentionInv, RetentionTypeOK, TableInv, Bound
  <2> QED BY <2>2, <2>3, <2>4, RetentionSteps, TableStep, RetentionRestartInv
<1> QED BY <1>1, <1>2, PTL DEF Spec

\* A table outgrows its limit by one interval, and one more for each pruning missed.
THEOREM RowsCorrect == Spec => []RowsBounded
<1>1. RetentionInv => RowsBounded
  <2> SUFFICES ASSUME RetentionInv, NEW tb \in Tables
               PROVE  Cardinality(rows[tb]) <= Keep[tb] + Every[tb] * (missed[tb] + 1)
    BY DEF RowsBounded
  <2>1. /\ TableInv(tb) /\ IsFiniteSet(rows[tb])
        /\ Keep[tb] \in Nat \ {0} /\ Every[tb] \in Nat \ {0} /\ missed[tb] \in Nat
        /\ count[tb] \in Nat /\ count[tb] < Every[tb]
        /\ Every[tb] * missed[tb] \in Nat /\ Bound(tb) \in Nat
        /\ Cardinality(rows[tb]) \in Nat /\ writer[tb] \in {"receive", "save", "prune"}
    BY TableTypes DEF TableInv, RetentionInv
  <2> QED BY <2>1, BoundMissed DEF TableInv, Bound
<1> QED BY <1>1, RetentionInvariant, PTL

\* Pruning leaves Keep rows, and none that is older than one it removed by more than
\* the clocks went back between the two, but for a second.
THEOREM NewestCorrect == Spec => NewestKept
<1>1. RetentionInv /\ [Next]_vars =>
        [\A tb \in Tables : \A gone \in rows[tb] \ rows'[tb] :
           /\ Cardinality(rows'[tb]) = Keep[tb]
           /\ \A kept \in rows'[tb] :
                \/ gone.time - kept.time <= kept.offset - gone.offset
                \/ kept.offset = UTC /\ gone.time - kept.time < UTC - gone.offset + Second]_rows
  <2> SUFFICES ASSUME RetentionInv, [Next]_vars,
                      NEW tb \in Tables, NEW gone \in rows[tb] \ rows'[tb]
               PROVE  /\ Cardinality(rows'[tb]) = Keep[tb]
                      /\ \A r \in rows'[tb] :
                           \/ gone.time - r.time <= r.offset - gone.offset
                           \/ r.offset = UTC /\ gone.time - r.time < UTC - gone.offset + Second
    OBVIOUS
  <2>0. RetentionTypeOK /\ IsFiniteSet(rows[tb]) /\ Keep[tb] \in Nat
    BY RetentionAssumption DEF RetentionInv, TableInv
  <2>1. PICK u \in Tables : Writes(u)
    BY RetentionSteps DEF retention, RetentionRestart, OffsetChanges
  <2>2. Prune(u) /\ u = tb
    BY <2>0, <2>1 DEF Writes, Receive, Save, SaveFails, Prune, PruneFails, RetentionTypeOK
  <2>3. PICK kept \in Newest(rows[tb], Keep[tb]) : rows' = [rows EXCEPT ![tb] = kept]
    BY <2>2 DEF Prune
  <2>4. rows'[tb] = kept
    BY <2>0, <2>3 DEF RetentionTypeOK
  <2>5. kept \subseteq rows[tb] /\ kept # rows[tb] /\ Cardinality(kept) = Keep[tb]
    BY <2>0, <2>4, NewestSome
  <2>6. ASSUME NEW r \in kept
        PROVE  \/ gone.time - r.time <= r.offset - gone.offset
               \/ r.offset = UTC /\ gone.time - r.time < UTC - gone.offset + Second
    <3>1. Written(gone.time, gone.offset) <= Written(r.time, r.offset)
      BY <2>4, <2>6 DEF Newest, RowText
    <3>2. /\ gone.time \in Nat /\ r.time \in Nat /\ gone.offset \in Int /\ r.offset \in Int
          /\ Second \in Nat /\ UTC \in Int
      <4>1. gone \in Row /\ r \in Row
        BY <2>0, <2>5, <2>6 DEF RetentionTypeOK
      <4>2. Offsets \subseteq Int /\ Second \in Nat /\ UTC \in Int
        BY TimeAssumption, RetentionAssumption DEF UTC
      <4> QED BY <4>1, <4>2 DEF Row
    <3>3. Earlier(gone.time, gone.offset, r.time, r.offset)
      BY <3>1, <3>2, TextsLocal
    <3> QED BY <3>2, <3>3 DEF Earlier
  <2> QED BY <2>4, <2>5, <2>6
<1> QED BY <1>1, RetentionInvariant, PTL DEF Spec, NewestKept

--------------------------------------------------------------------------------
(* The cache of statistics. *)

\* An answer to be stored has been read since the request came in, and an answer in
\* the cache expires in time after its reading.
AnswerInv ==
  /\ \A h \in StatsHandlers : stats[h] # NoAnswer =>
       /\ stats[h].since <= now /\ now <= stats[h].since + MaxCompute
       /\ stats[h].at # "read" =>
            stats[h].answer \in Answer /\ stats[h].answer.window = stats[h].window
       /\ stats[h].at = "store" => stats[h].since <= stats[h].answer.read
       /\ stats[h].at = "respond" =>
            stats[h].since < stats[h].answer.read + CacheTTL + MaxCompute
  /\ cache # NoAnswer => cache.expires <= cache.answer.read + CacheTTL + MaxCompute

StatsInv == now \in Nat /\ StatsTypeOK /\ AnswerInv

\* A request, and an entry of the cache.
StatsRequest ==
  [window : StatsWindows, since : Nat, at : {"read", "store", "respond"},
   answer : Answer \cup {NoAnswer}]

CacheEntry == [answer : Answer, expires : Nat]

\* What AnswerInv says of one request, and of the cache.
RequestInv(q) ==
  /\ q.since <= now /\ now <= q.since + MaxCompute
  /\ q.at # "read" => q.answer \in Answer /\ q.answer.window = q.window
  /\ q.at = "store" => q.since <= q.answer.read
  /\ q.at = "respond" => q.since < q.answer.read + CacheTTL + MaxCompute

EntryInv(c) == c.expires <= c.answer.read + CacheTTL + MaxCompute

LEMMA StatsInvParts ==
  StatsInv <=> /\ now \in Nat /\ cache \in CacheEntry \cup {NoAnswer}
               /\ stats \in [StatsHandlers -> StatsRequest \cup {NoAnswer}]
               /\ \A h \in StatsHandlers : stats[h] # NoAnswer => RequestInv(stats[h])
               /\ cache # NoAnswer => EntryInv(cache)
BY DEF StatsInv, StatsTypeOK, AnswerInv, StatsRequest, CacheEntry, RequestInv, EntryInv

\* A step changes one request, and the cache perhaps.
LEMMA StatsChange ==
  ASSUME StatsInv, UNCHANGED now, NEW h \in StatsHandlers, NEW q, NEW c,
         stats' = [stats EXCEPT ![h] = q], cache' = c,
         q \in StatsRequest \cup {NoAnswer}, q # NoAnswer => RequestInv(q),
         c \in CacheEntry \cup {NoAnswer}, c # NoAnswer => EntryInv(c)
  PROVE  StatsInv'
<1>1. \A g \in StatsHandlers : stats'[g] = IF g = h THEN q ELSE stats[g]
  BY StatsInvParts
<1>2. stats' \in [StatsHandlers -> StatsRequest \cup {NoAnswer}]
  BY StatsInvParts
<1>3. \A g \in StatsHandlers : stats'[g] # NoAnswer => RequestInv(stats'[g])
  BY <1>1, StatsInvParts
<1>4. StatsTypeOK' /\ now' \in Nat
  BY <1>2, StatsInvParts DEF StatsTypeOK, StatsRequest, CacheEntry
<1>5. AnswerInv'
  BY <1>3 DEF AnswerInv, RequestInv, EntryInv
<1> QED BY <1>4, <1>5 DEF StatsInv

LEMMA StatsStepInv ==
  ASSUME StatsInv, StatsNext, UNCHANGED now
  PROVE  StatsInv'
<1> USE StatsAssumption
<1>0. /\ now \in Nat /\ cache \in CacheEntry \cup {NoAnswer}
      /\ stats \in [StatsHandlers -> StatsRequest \cup {NoAnswer}]
      /\ \A h \in StatsHandlers : stats[h] # NoAnswer => RequestInv(stats[h])
      /\ cache # NoAnswer => EntryInv(cache)
  BY StatsInvParts
<1>1. ASSUME NEW h \in StatsHandlers, NEW w \in StatsWindows, Ask(h, w)
      PROVE  StatsInv'
  <2>1. PICK q : q = [window |-> w, since |-> now, at |-> IF Hit(w) THEN "respond" ELSE "read",
                      answer |-> IF Hit(w) THEN cache.answer ELSE NoAnswer]
    OBVIOUS
  <2>2. stats' = [stats EXCEPT ![h] = q] /\ cache' = cache
    BY <1>1, <2>1 DEF Ask
  <2>3. CASE Hit(w)
    <3>1. /\ cache.answer \in Answer /\ cache.expires \in Nat /\ cache.answer.read \in Nat
          /\ cache.answer.window = w /\ now < cache.expires
          /\ cache.expires <= cache.answer.read + CacheTTL + MaxCompute
      BY <1>0, <2>3 DEF Hit, CacheEntry, Answer, EntryInv
    <3>2. /\ q \in StatsRequest /\ q.since = now /\ q.at = "respond" /\ q.answer = cache.answer
          /\ q.window = w
      BY <1>0, <2>1, <2>3, <3>1 DEF StatsRequest
    <3>3. RequestInv(q)
      BY <1>0, <3>1, <3>2 DEF RequestInv
    <3> QED BY <1>0, <2>2, <3>2, <3>3, StatsChange
  <2>4. CASE ~Hit(w)
    <3>1. q \in StatsRequest /\ q.since = now /\ q.at = "read"
      BY <1>0, <2>1, <2>4 DEF StatsRequest
    <3>2. RequestInv(q)
      BY <1>0, <3>1 DEF RequestInv
    <3> QED BY <1>0, <2>2, <3>1, <3>2, StatsChange
  <2> QED BY <2>3, <2>4
<1>2. ASSUME NEW h \in StatsHandlers, Read(h)
      PROVE  StatsInv'
  <2>0. /\ stats[h] # NoAnswer /\ stats[h] \in StatsRequest /\ cache' = cache /\ RequestInv(stats[h])
    BY <1>0, <1>2 DEF Read
  <2>1. CASE stats' = [stats EXCEPT ![h] = NoAnswer]
    BY <1>0, <2>0, <2>1, StatsChange
  <2>2. CASE stats' = [stats EXCEPT ![h] = [stats[h] EXCEPT
                    !.at = "store", !.answer = [window |-> stats[h].window, read |-> now]]]
    <3>1. PICK a : a = [window |-> stats[h].window, read |-> now]
      OBVIOUS
    <3>2. a \in Answer /\ a.window = stats[h].window /\ a.read = now
      BY <1>0, <2>0, <3>1 DEF Answer, StatsRequest
    <3>3. PICK q : q = [stats[h] EXCEPT !.at = "store", !.answer = a]
      OBVIOUS
    <3>4. /\ q \in StatsRequest /\ q.since = stats[h].since /\ q.at = "store"
          /\ q.answer = a /\ q.window = stats[h].window
      BY <2>0, <3>2, <3>3 DEF StatsRequest
    <3>5. RequestInv(q)
      BY <2>0, <3>2, <3>4 DEF RequestInv
    <3>6. stats' = [stats EXCEPT ![h] = q]
      BY <2>2, <3>1, <3>3
    <3> QED BY <1>0, <2>0, <3>4, <3>5, <3>6, StatsChange
  <2> QED BY <1>2, <2>1, <2>2 DEF Read
<1>3. ASSUME NEW h \in StatsHandlers, Store(h)
      PROVE  StatsInv'
  <2>1. PICK q : q = [stats[h] EXCEPT !.at = "respond"]
    OBVIOUS
  <2>2. PICK c : c = [answer |-> stats[h].answer, expires |-> now + CacheTTL]
    OBVIOUS
  <2>3. /\ stats' = [stats EXCEPT ![h] = q] /\ cache' = c
        /\ stats[h] # NoAnswer /\ stats[h] \in StatsRequest /\ stats[h].at = "store"
        /\ RequestInv(stats[h])
    BY <1>0, <1>3, <2>1, <2>2 DEF Store
  <2>4. /\ stats[h].answer \in Answer /\ stats[h].answer.window = stats[h].window
        /\ stats[h].answer.read \in Nat /\ stats[h].since \in Nat
        /\ stats[h].since <= now /\ now <= stats[h].since + MaxCompute
        /\ stats[h].since <= stats[h].answer.read
    BY <2>3 DEF RequestInv, StatsRequest, Answer
  <2>5. /\ q \in StatsRequest /\ q.since = stats[h].since /\ q.at = "respond"
        /\ q.answer = stats[h].answer /\ q.window = stats[h].window
    BY <2>1, <2>3 DEF StatsRequest
  <2>6. RequestInv(q)
    BY <1>0, <2>4, <2>5 DEF RequestInv
  <2>7. c \in CacheEntry /\ EntryInv(c)
    BY <1>0, <2>2, <2>4 DEF CacheEntry, EntryInv
  <2> QED BY <2>3, <2>5, <2>6, <2>7, StatsChange
<1>4. ASSUME NEW h \in StatsHandlers, Respond(h)
      PROVE  StatsInv'
  BY <1>0, <1>4, StatsChange DEF Respond
<1> QED BY <1>1, <1>2, <1>3, <1>4 DEF StatsNext

LEMMA StatsTickInv ==
  ASSUME StatsInv, StatsInTime, Tick, UNCHANGED statistics
  PROVE  StatsInv'
<1>1. /\ now' = now + 1 /\ now \in Nat /\ UNCHANGED <<cache, stats>>
  BY DEF Tick, StatsInv, statistics
<1>2. \A h \in StatsHandlers : stats[h] # NoAnswer => stats[h].since \in Nat
  BY DEF StatsInv, StatsTypeOK
<1>3. AnswerInv'
  BY <1>1, <1>2, StatsAssumption DEF AnswerInv, StatsInv, StatsInTime
<1> QED BY <1>1, <1>3 DEF StatsInv, StatsTypeOK

LEMMA StatsRestartInv ==
  ASSUME StatsInv, StatsRestart, UNCHANGED now
  PROVE  StatsInv'
BY DEF StatsInv, StatsTypeOK, AnswerInv, StatsRestart

\* Of the database's steps these concern the cache.
LEMMA StatsSteps ==
  ASSUME [Next]_vars
  PROVE  \/ StatsNext /\ UNCHANGED now
         \/ Tick /\ StatsInTime /\ UNCHANGED statistics
         \/ StatsRestart /\ UNCHANGED now
         \/ UNCHANGED <<now, statistics>>
<1>1. CASE ListsStep
  BY <1>1 DEF ListsStep, Works
<1>2. CASE ConfigStep
  BY <1>2 DEF ConfigStep, Works
<1>3. CASE AuthStep
  BY <1>3 DEF AuthStep, Works
<1>4. CASE RetentionStep
  BY <1>4 DEF RetentionStep, Works
<1>5. CASE StatsStep
  BY <1>5 DEF StatsStep, Works
<1>6. CASE SchemaStep
  BY <1>6 DEF SchemaStep
<1>7. CASE Time
  BY <1>7 DEF Time
<1>8. CASE Restart
  BY <1>8 DEF Restart
<1>9. CASE UNCHANGED vars
  BY <1>9 DEF vars
<1> QED BY <1>1, <1>2, <1>3, <1>4, <1>5, <1>6, <1>7, <1>8, <1>9 DEF Next

LEMMA StatsInvariant == Spec => []StatsInv
<1>1. Init => StatsInv
  BY DEF Init, StatsInit, StatsInv, StatsTypeOK, AnswerInv
<1>2. StatsInv /\ [Next]_vars => StatsInv'
  <2> SUFFICES ASSUME StatsInv, [Next]_vars
               PROVE  StatsInv'
    OBVIOUS
  <2>1. CASE UNCHANGED <<now, statistics>>
    BY <2>1 DEF statistics, StatsInv, StatsTypeOK, AnswerInv
  <2> QED BY <2>1, StatsSteps, StatsStepInv, StatsTickInv, StatsRestartInv
<1> QED BY <1>1, <1>2, PTL DEF Spec

\* A cached answer is one for the window asked for, and no older than the cache keeps
\* it and a handler takes to compute it.
THEOREM AnswersCorrect == Spec => []AnswersRecent
<1>1. StatsInv => AnswersRecent
  BY DEF StatsInv, AnswerInv, AnswersRecent
<1> QED BY <1>1, StatsInvariant, PTL
--------------------------------------------------------------------------------
(* The schema. *)

\* A version tells which tables there are, and each place in migrate what it has done.
SchemaInv ==
  /\ SchemaTypeOK
  /\ version = 2 => tables = SchemaTables
  /\ version = 1 => SchemaTables \ {"sessions"} \subseteq tables
  /\ opening \in {"chmod", "open"} => version = 2
  /\ opening = "v2" => version = 1
  /\ opening \in {"record", "update"} => tables = SchemaTables
  /\ opening = "create" =>
       /\ version = NoVersion /\ todo \in Seq(SchemaTables) /\ todo # << >>
       /\ \A t \in SchemaTables : t \in tables \/ \E i \in 1 .. Len(todo) : todo[i] = t

LEMMA SchemaIsSeq ==
  /\ Schema \in Seq(SchemaTables) /\ Schema # << >> /\ "sessions" \in SchemaTables /\ "schema_version" \in SchemaTables
  /\ \A t \in SchemaTables : \E i \in 1 .. Len(Schema) : Schema[i] = t
<1>1. Len(Schema) = 7 /\ Schema # << >>
  BY DEF Schema
<1>2. \A i \in 1 .. Len(Schema) : Schema[i] \in SchemaTables
  BY DEF SchemaTables
<1>3. Schema \in Seq(SchemaTables)
  BY <1>1, <1>2 DEF Schema
<1>4. Schema[7] = "sessions" /\ Schema[1] = "schema_version"
  BY DEF Schema
<1> QED BY <1>1, <1>2, <1>3, <1>4 DEF SchemaTables

LEMMA CreateTableInv ==
  ASSUME SchemaInv, CreateTable
  PROVE  SchemaInv'
<1>1. /\ version = NoVersion /\ todo \in Seq(SchemaTables) /\ todo # << >>
      /\ \A t \in SchemaTables : t \in tables \/ \E i \in 1 .. Len(todo) : todo[i] = t
  BY DEF SchemaInv, CreateTable
<1>2. /\ Head(todo) \in SchemaTables /\ Head(todo) = todo[1]
      /\ Tail(todo) \in Seq(SchemaTables) /\ Len(Tail(todo)) = Len(todo) - 1
      /\ \A i \in 1 .. Len(Tail(todo)) : Tail(todo)[i] = todo[i + 1]
      /\ Len(todo) \in Nat
  BY <1>1
<1>3. \A t \in SchemaTables :
        t \in tables' \/ \E i \in 1 .. Len(todo') : todo'[i] = t
  <2> SUFFICES ASSUME NEW t \in SchemaTables, t \notin tables'
               PROVE  \E i \in 1 .. Len(Tail(todo)) : Tail(todo)[i] = t
    BY DEF CreateTable
  <2>1. PICK i \in 1 .. Len(todo) : todo[i] = t
    BY <1>1 DEF CreateTable
  <2>2. i # 1
    BY <1>2, <2>1 DEF CreateTable
  <2>3. i - 1 \in 1 .. Len(Tail(todo)) /\ Tail(todo)[i - 1] = t
    BY <1>2, <2>1, <2>2
  <2> QED BY <2>3
<1>4. tables' \subseteq SchemaTables
  BY <1>2 DEF SchemaInv, SchemaTypeOK, CreateTable
<1>5. CASE Tail(todo) = << >>
  <2>1. todo' = << >> /\ Len(todo') = 0
    BY <1>5 DEF CreateTable
  <2>2. tables' = SchemaTables
    BY <1>3, <1>4, <2>1
  <2> QED BY <1>1, <1>5, <2>2, SchemaAssumption DEF SchemaInv, SchemaTypeOK, CreateTable
<1>6. CASE Tail(todo) # << >>
  BY <1>1, <1>2, <1>3, <1>4, <1>6, SchemaAssumption DEF SchemaInv, SchemaTypeOK, CreateTable
<1> QED BY <1>5, <1>6

LEMMA SchemaStepInv ==
  ASSUME SchemaInv, SchemaNext
  PROVE  SchemaInv'
<1> USE SchemaAssumption DEF SchemaInv, SchemaTypeOK
<1>1. CASE FindVersion
  BY <1>1, SchemaIsSeq DEF FindVersion
<1>2. CASE CreateTable
  BY <1>2, CreateTableInv
<1>3. CASE RecordVersion
  BY <1>3, SchemaIsSeq DEF RecordVersion, schemaVersion
<1>4. CASE ReadVersion
  BY <1>4 DEF ReadVersion
<1>5. CASE MigrateV2
  BY <1>5, SchemaIsSeq DEF MigrateV2
<1>6. CASE UpdateVersion
  BY <1>6, SchemaIsSeq DEF UpdateVersion, schemaVersion
<1>7. CASE Chmod
  BY <1>7 DEF Chmod
<1>8. CASE StatementFails
  BY <1>8 DEF StatementFails
<1> QED BY <1>1, <1>2, <1>3, <1>4, <1>5, <1>6, <1>7, <1>8 DEF SchemaNext

\* Of the database's steps these concern the schema.
LEMMA SchemaSteps ==
  ASSUME [Next]_vars
  PROVE  SchemaNext \/ Reopen \/ UNCHANGED schema
<1>1. CASE ListsStep
  BY <1>1 DEF ListsStep, Works
<1>2. CASE ConfigStep
  BY <1>2 DEF ConfigStep, Works
<1>3. CASE AuthStep
  BY <1>3 DEF AuthStep, Works
<1>4. CASE RetentionStep
  BY <1>4 DEF RetentionStep, Works
<1>5. CASE StatsStep
  BY <1>5 DEF StatsStep, Works
<1>6. CASE SchemaStep
  BY <1>6 DEF SchemaStep
<1>7. CASE Time
  BY <1>7 DEF Time
<1>8. CASE Restart
  BY <1>8 DEF Restart
<1>9. CASE UNCHANGED vars
  BY <1>9 DEF vars
<1> QED BY <1>1, <1>2, <1>3, <1>4, <1>5, <1>6, <1>7, <1>8, <1>9 DEF Next

LEMMA SchemaInvariant == Spec => []SchemaInv
<1>1. Init => SchemaInv
  <2> SUFFICES ASSUME Init
               PROVE  SchemaInv
    OBVIOUS
  <2>1. SchemaInit \/ Opened
    BY DEF Init
  <2>2. "schema_version" \in SchemaTables /\ "schema_version" # "sessions"
    BY SchemaIsSeq
  <2>3. NoVersion # 1 /\ NoVersion # 2
    BY SchemaAssumption
  <2>4. CASE Opened
    BY <2>2, <2>3, <2>4 DEF Opened, schemaVersion, SchemaInv, SchemaTypeOK
  <2>5. CASE SchemaInit
    <3>1. opening = "look" /\ trouble = FALSE
      BY <2>5 DEF SchemaInit
    <3>2. /\ version = 2 => tables = SchemaTables
          /\ version = 1 => SchemaTables \ {"sessions"} \subseteq tables
      BY <2>3, <2>5 DEF SchemaInit
    <3>3. /\ tables \subseteq SchemaTables /\ version \in {NoVersion, 1, 2}
          /\ version # NoVersion => "schema_version" \in tables
      BY <2>2, <2>3, <2>5 DEF SchemaInit
    <3> QED BY <3>1, <3>2, <3>3 DEF SchemaInv, SchemaTypeOK
  <2> QED BY <2>1, <2>4, <2>5
<1>2. SchemaInv /\ [Next]_vars => SchemaInv'
  <2> SUFFICES ASSUME SchemaInv, [Next]_vars
               PROVE  SchemaInv'
    OBVIOUS
  <2>1. CASE Reopen
    BY <2>1 DEF Reopen, SchemaInv, SchemaTypeOK
  <2>2. CASE UNCHANGED schema
    BY <2>2 DEF schema, SchemaInv, SchemaTypeOK
  <2> QED BY <2>1, <2>2, SchemaSteps, SchemaStepInv
<1> QED BY <1>1, <1>2, PTL DEF Spec

\* A database that opens has every table of the current version, wherever its
\* creation or its migration was cut short before.
THEOREM OpenCorrect == Spec => []OpenIsCurrent
<1>1. SchemaInv => OpenIsCurrent
  BY DEF SchemaInv, OpenIsCurrent, schemaVersion
<1> QED BY <1>1, SchemaInvariant, PTL
--------------------------------------------------------------------------------
(* Types of the lists and the settings, and of the account they share. *)

\* About the item of a handler's request, and the steps a request has behind it.
ApplyDone(r, s) == \A i \in r.todo : Steps[i] # <<"apply", s>>
MirrorDone(r) == \A i \in r.todo : Steps[i] # <<"mirror", "detection_enabled">>

\* What is done was accepted, and nothing is saved before everything is applied.
Accepted(r) ==
  /\ \A s \in DOMAIN r.patch : ApplyDone(r, s) => r.patch[s] # Refused
  /\ r.saved # {} => \A i \in r.todo : i >= 5

ConfigTypes ==
  ConfigTypeOK /\ \A h \in ConfigHandlers : put[h] # Unset => Accepted(put[h])

HistoryTypes == raced \cup doubtful \subseteq Items \cup Settings

LEMMA StepsAre ==
  /\ Len(Steps) = 7
  /\ Steps[1] = <<"apply", "log_level">> /\ Steps[2] = <<"mirror", "detection_enabled">>
  /\ Steps[3] = <<"apply", "detection_enabled">>
  /\ Steps[4] = <<"apply", "detection_dedup_window">>
  /\ Steps[5] = <<"persist", "log_level">> /\ Steps[6] = <<"persist", "detection_enabled">>
  /\ Steps[7] = <<"persist", "detection_dedup_window">>
BY DEF Steps

LEMMA SmallestStep ==
  ASSUME NEW S \in SUBSET (1 .. 7), S # {}
  PROVE  Min(S) \in S /\ \A i \in S : Min(S) <= i
<1>1. \E m \in S : \A i \in S : m <= i
  <2>1. CASE 1 \in S
    BY <2>1
  <2>2. CASE 1 \notin S /\ 2 \in S
    BY <2>2
  <2>3. CASE 1 \notin S /\ 2 \notin S /\ 3 \in S
    BY <2>3
  <2>4. CASE 1 \notin S /\ 2 \notin S /\ 3 \notin S /\ 4 \in S
    BY <2>4
  <2>5. CASE 1 \notin S /\ 2 \notin S /\ 3 \notin S /\ 4 \notin S /\ 5 \in S
    BY <2>5
  <2>6. CASE 1 \notin S /\ 2 \notin S /\ 3 \notin S /\ 4 \notin S /\ 5 \notin S /\ 6 \in S
    BY <2>6
  <2>7. CASE 1 \notin S /\ 2 \notin S /\ 3 \notin S /\ 4 \notin S /\ 5 \notin S /\ 6 \notin S
    <3>1. \A i \in S : i = 7
      BY <2>7
    <3>2. PICK m \in S : TRUE
      OBVIOUS
    <3>3. m = 7 /\ \A i \in S : m <= i
      BY <3>1
    <3> QED BY <3>3
  <2> QED BY <2>1, <2>2, <2>3, <2>4, <2>5, <2>6, <2>7
<1> QED BY <1>1 DEF Min

\* The next step of a request.
LEMMA NextStep ==
  ASSUME ConfigTypes, NEW h \in ConfigHandlers, put[h] # Unset
  PROVE  /\ put[h] \in ConfigRequest /\ put[h].patch \in Patches
         /\ put[h].todo \in SUBSET (1 .. 7) /\ put[h].saved \in SUBSET Settings
         /\ put[h].unsaved \in SUBSET Settings
         /\ DOMAIN put[h].patch \subseteq Settings
         /\ put[h].saved \cup put[h].unsaved \subseteq DOMAIN put[h].patch
         /\ First(h) \in put[h].todo /\ First(h) \in 1 .. 7
         /\ \A i \in put[h].todo : First(h) <= i
         /\ Steps[First(h)][2] \in DOMAIN put[h].patch
<1>1. /\ put[h] \in ConfigRequest /\ put[h].todo # {} /\ put[h].todo \subseteq StepsOf(put[h].patch)
      /\ put[h].saved \cup put[h].unsaved \subseteq DOMAIN put[h].patch
  BY DEF ConfigTypes, ConfigTypeOK
<1>2. /\ put[h].patch \in Patches /\ put[h].todo \in SUBSET (1 .. 7)
      /\ put[h].saved \in SUBSET Settings /\ put[h].unsaved \in SUBSET Settings
  BY <1>1, StepsAre DEF ConfigRequest
<1>3. First(h) \in put[h].todo /\ \A i \in put[h].todo : First(h) <= i
  BY <1>1, <1>2, SmallestStep DEF First
<1> QED BY <1>1, <1>2, <1>3, ConfigAssumption DEF StepsOf

\* What a step with some setting has left behind.
LEMMA StepOrder ==
  ASSUME ConfigTypes, NEW h \in ConfigHandlers, NEW what, NEW s, At(h, what, s)
  PROVE  /\ put[h] # Unset /\ s \in DOMAIN put[h].patch
         /\ what = "apply" => First(h) \in 1 .. 4 /\ put[h].saved = {}
         /\ what = "mirror" => First(h) \in 1 .. 4 /\ put[h].saved = {}
         /\ what = "persist" =>
              /\ First(h) \in 5 .. 7 /\ MirrorDone(put[h])
              /\ \A t \in Settings : ApplyDone(put[h], t)
<1>1. put[h] # Unset /\ Steps[First(h)] = <<what, s>>
  BY DEF At
<1>2. /\ First(h) \in put[h].todo /\ First(h) \in 1 .. 7 /\ put[h].todo \in SUBSET (1 .. 7)
      /\ \A i \in put[h].todo : First(h) <= i
      /\ Steps[First(h)][2] \in DOMAIN put[h].patch
  BY <1>1, NextStep
<1>3. s \in DOMAIN put[h].patch
  BY <1>1, <1>2
<1>4. ASSUME what = "apply" \/ what = "mirror"
      PROVE  First(h) \in 1 .. 4 /\ put[h].saved = {}
  <2>1. First(h) \in 1 .. 4
    BY <1>1, <1>2, <1>4, StepsAre
  <2> QED BY <1>1, <1>2, <2>1 DEF ConfigTypes, Accepted
<1>5. ASSUME what = "persist"
      PROVE  /\ First(h) \in 5 .. 7 /\ MirrorDone(put[h])
             /\ \A t \in Settings : ApplyDone(put[h], t)
  <2>1. First(h) \in 5 .. 7
    BY <1>1, <1>2, <1>5, StepsAre
  <2>2. \A i \in put[h].todo : i \in 5 .. 7
    BY <1>2, <2>1
  <2> QED BY <2>1, <2>2, StepsAre DEF MirrorDone, ApplyDone
<1> QED BY <1>1, <1>3, <1>4, <1>5

\* A request under way.
PutOK(r) ==
  /\ r.todo # {} /\ r.todo \subseteq StepsOf(r.patch)
  /\ r.saved \cup r.unsaved \subseteq DOMAIN r.patch
  /\ Accepted(r)

LEMMA ConfigTypesParts ==
  ConfigTypes <=>
    /\ live \in [Settings -> Values \ {Refused}] /\ mirror \in Values \ {Refused}
    /\ stored \in [Settings -> (Values \ {Refused}) \cup {Unset}]
    /\ put \in [ConfigHandlers -> ConfigRequest \cup {Unset}]
    /\ \A h \in ConfigHandlers : put[h] # Unset => PutOK(put[h])
BY DEF ConfigTypes, ConfigTypeOK, PutOK

\* A step changes one request, and perhaps the settings.
LEMMA PutChange ==
  ASSUME ConfigTypes, NEW h \in ConfigHandlers, NEW r \in ConfigRequest \cup {Unset},
         r # Unset => PutOK(r), put' = [put EXCEPT ![h] = r],
         live' \in [Settings -> Values \ {Refused}], mirror' \in Values \ {Refused},
         stored' \in [Settings -> (Values \ {Refused}) \cup {Unset}]
  PROVE  ConfigTypes'
<1>1. \A g \in ConfigHandlers : put'[g] = IF g = h THEN r ELSE put[g]
  BY ConfigTypesParts
<1>2. put' \in [ConfigHandlers -> ConfigRequest \cup {Unset}]
  BY ConfigTypesParts
<1>3. \A g \in ConfigHandlers : put'[g] # Unset => PutOK(put'[g])
  BY <1>1, ConfigTypesParts
<1> QED BY <1>2, <1>3 DEF ConfigTypes, ConfigTypeOK, PutOK

\* A request that goes on is well-formed when what is left is.
LEMMA ProceedRequest ==
  ASSUME ConfigTypes, NEW h \in ConfigHandlers, put[h] # Unset,
         NEW u, NEW v, u \cup v \subseteq DOMAIN put[h].patch, Proceed(h, u, v),
         \A s \in DOMAIN put[h].patch :
           (\A i \in put[h].todo \ {First(h)} : Steps[i] # <<"apply", s>>)
             => put[h].patch[s] # Refused,
         v # {} => \A i \in put[h].todo : i >= 5
  PROVE  \E r \in ConfigRequest \cup {Unset} :
           /\ put' = [put EXCEPT ![h] = r]
           /\ r # Unset => PutOK(r)
<1>0. /\ put[h].patch \in Patches /\ put[h].todo \in SUBSET (1 .. 7)
      /\ DOMAIN put[h].patch \subseteq Settings /\ put[h].todo \subseteq StepsOf(put[h].patch)
      /\ First(h) \in put[h].todo
  BY NextStep DEF ConfigTypes, ConfigTypeOK
<1>1. CASE put[h].todo # {First(h)}
  <2>1. PICK r : r = [patch |-> put[h].patch, todo |-> put[h].todo \ {First(h)},
                      unsaved |-> u, saved |-> v]
    OBVIOUS
  <2>2. put' = [put EXCEPT ![h] = r]
    BY <1>1, <2>1 DEF Proceed
  <2>3. /\ r.patch = put[h].patch /\ r.todo = put[h].todo \ {First(h)}
        /\ r.unsaved = u /\ r.saved = v
    BY <2>1
  <2>4. r \in ConfigRequest
    BY <1>0, <2>1, StepsAre DEF ConfigRequest
  <2>5. Accepted(r)
    BY <2>3 DEF Accepted, ApplyDone
  <2>6. PutOK(r)
    BY <1>0, <1>1, <2>3, <2>5 DEF PutOK
  <2> QED BY <2>2, <2>4, <2>6
<1>2. CASE put[h].todo = {First(h)}
  BY <1>2 DEF Proceed
<1> QED BY <1>1, <1>2

LEMMA ConfigStepTypes ==
  ASSUME ConfigTypes, ConfigNext
  PROVE  ConfigTypes'
<1>0. /\ live \in [Settings -> Values \ {Refused}] /\ mirror \in Values \ {Refused}
      /\ stored \in [Settings -> (Values \ {Refused}) \cup {Unset}]
      /\ put \in [ConfigHandlers -> ConfigRequest \cup {Unset}]
      /\ \A h \in ConfigHandlers : put[h] # Unset => PutOK(put[h])
  BY ConfigTypesParts
<1>1. PICK h \in ConfigHandlers :
        \/ \E p \in Patches : Put(h, p)
        \/ Refuse(h) \/ Mirror(h)
        \/ \E s \in Settings : Apply(h, s) \/ Persist(h, s)
  BY DEF ConfigNext
<1>2. ASSUME NEW p \in Patches, Put(h, p)
      PROVE  ConfigTypes'
  <2>1. PICK r : r = [patch |-> p, todo |-> StepsOf(p), unsaved |-> {}, saved |-> {}]
    OBVIOUS
  <2>2. put' = [put EXCEPT ![h] = r] /\ UNCHANGED <<live, mirror, stored>>
    BY <1>2, <2>1 DEF Put
  <2>3. r.patch = p /\ r.todo = StepsOf(p) /\ r.unsaved = {} /\ r.saved = {}
    BY <2>1
  <2>4. \A s \in DOMAIN p : \E i \in StepsOf(p) : Steps[i] = <<"apply", s>>
    BY StepsAre, ConfigAssumption DEF StepsOf, Settings
  <2>5. r \in ConfigRequest
    BY <2>1, StepsAre DEF ConfigRequest, StepsOf
  <2>6. PutOK(r)
    <3>1. DOMAIN p # {} /\ DOMAIN p \subseteq Settings
      BY ConfigAssumption
    <3>2. Accepted(r)
      BY <2>3, <2>4 DEF Accepted, ApplyDone
    <3>3. StepsOf(p) # {}
      BY <2>4, <3>1
    <3> QED BY <2>3, <3>2, <3>3 DEF PutOK
  <2> QED BY <1>0, <2>2, <2>5, <2>6, PutChange
<1>3. CASE Refuse(h)
  BY <1>0, <1>3, PutChange DEF Refuse
<1>4. ASSUME NEW what, NEW s \in Settings, At(h, what, s), put[h].patch[s] # Refused
      PROVE  /\ s \in DOMAIN put[h].patch /\ put[h].patch[s] \in Values \ {Refused}
             /\ \A t \in DOMAIN put[h].patch :
                  (\A i \in put[h].todo \ {First(h)} : Steps[i] # <<"apply", t>>)
                    => put[h].patch[t] # Refused
  <2>1. put[h] # Unset /\ s \in DOMAIN put[h].patch /\ Steps[First(h)] = <<what, s>>
    BY <1>4, StepOrder DEF At
  <2>2. put[h].patch \in Patches
    BY <2>1, NextStep
  <2>3. put[h].patch[s] \in Values
    BY <2>1, <2>2 DEF Values
  <2>4. Accepted(put[h])
    BY <1>0, <2>1 DEF PutOK
  <2>5. ASSUME NEW t \in DOMAIN put[h].patch,
               \A i \in put[h].todo \ {First(h)} : Steps[i] # <<"apply", t>>
        PROVE  put[h].patch[t] # Refused
    <3>1. CASE t = s
      BY <1>4, <3>1
    <3>2. CASE t # s
      BY <2>1, <2>4, <2>5, <3>2 DEF Accepted, ApplyDone
    <3> QED BY <3>1, <3>2
  <2> QED BY <1>4, <2>1, <2>3, <2>5
<1>5. CASE Mirror(h)
  <2>1. /\ At(h, "mirror", "detection_enabled")
        /\ put[h].patch["detection_enabled"] # Refused
        /\ mirror' = put[h].patch["detection_enabled"] /\ UNCHANGED <<live, stored>>
        /\ Proceed(h, put[h].unsaved \cup {"detection_enabled"}, put[h].saved)
    BY <1>5 DEF Mirror
  <2>2. put[h] # Unset /\ put[h].saved = {}
    BY <2>1, StepOrder
  <2>3. put[h].saved \cup put[h].unsaved \subseteq DOMAIN put[h].patch
    BY <2>2, NextStep
  <2>4. "detection_enabled" \in Settings
    BY DEF Settings
  <2>5. PICK r \in ConfigRequest \cup {Unset} :
          /\ put' = [put EXCEPT ![h] = r]
          /\ r # Unset => PutOK(r)
    BY <1>4, <2>1, <2>2, <2>3, <2>4, ProceedRequest
  <2>6. mirror' \in Values \ {Refused}
    BY <1>4, <2>1, <2>4
  <2>7. /\ live' \in [Settings -> Values \ {Refused}] /\ mirror' \in Values \ {Refused}
        /\ stored' \in [Settings -> (Values \ {Refused}) \cup {Unset}]
    BY <1>0, <2>1, <2>6
  <2> QED BY <2>5, <2>7, PutChange
<1>6. ASSUME NEW s \in Settings, Apply(h, s)
      PROVE  ConfigTypes'
  <2>1. /\ At(h, "apply", s) /\ put[h].patch[s] # Refused
        /\ live' = [live EXCEPT ![s] = put[h].patch[s]] /\ UNCHANGED <<mirror, stored>>
        /\ Proceed(h, put[h].unsaved \cup {s}, put[h].saved)
    BY <1>6 DEF Apply
  <2>2. put[h] # Unset /\ put[h].saved = {}
    BY <2>1, StepOrder
  <2>3. put[h].saved \cup put[h].unsaved \subseteq DOMAIN put[h].patch
    BY <2>2, NextStep
  <2>4. PICK r \in ConfigRequest \cup {Unset} :
          /\ put' = [put EXCEPT ![h] = r]
          /\ r # Unset => PutOK(r)
    BY <1>4, <2>1, <2>2, <2>3, ProceedRequest
  <2>5. live' \in [Settings -> Values \ {Refused}]
    BY <1>0, <1>4, <2>1
  <2>6. /\ live' \in [Settings -> Values \ {Refused}] /\ mirror' \in Values \ {Refused}
        /\ stored' \in [Settings -> (Values \ {Refused}) \cup {Unset}]
    BY <1>0, <2>1, <2>5
  <2> QED BY <2>4, <2>6, PutChange
<1>7. ASSUME NEW s \in Settings, Persist(h, s)
      PROVE  ConfigTypes'
  <2>1. At(h, "persist", s) /\ UNCHANGED <<live, mirror>>
    BY <1>7 DEF Persist
  <2>2. /\ put[h] # Unset /\ s \in DOMAIN put[h].patch /\ ApplyDone(put[h], s)
        /\ First(h) \in 5 .. 7
    BY <2>1, StepOrder
  <2>3. put[h].patch[s] # Refused
    BY <1>0, <2>2 DEF PutOK, Accepted
  <2>4. /\ put[h].saved \cup put[h].unsaved \subseteq DOMAIN put[h].patch
        /\ \A i \in put[h].todo : i >= 5
    BY <2>2, NextStep
  <2>5. PICK r \in ConfigRequest \cup {Unset} :
          /\ put' = [put EXCEPT ![h] = r]
          /\ r # Unset => PutOK(r)
    <3>1. CASE Proceed(h, put[h].unsaved \ {s}, put[h].saved \cup {s})
      BY <1>4, <2>1, <2>2, <2>3, <2>4, <3>1, ProceedRequest
    <3>2. CASE Proceed(h, put[h].unsaved, put[h].saved)
      BY <1>4, <2>1, <2>2, <2>3, <2>4, <3>2, ProceedRequest
    <3> QED BY <1>7, <3>1, <3>2 DEF Persist
  <2>6. stored' \in [Settings -> (Values \ {Refused}) \cup {Unset}]
    <3>1. stored' = stored \/ stored' = [stored EXCEPT ![s] = put[h].patch[s]]
      BY <1>7 DEF Persist
    <3> QED BY <1>0, <1>4, <2>1, <2>3, <3>1
  <2>7. /\ live' \in [Settings -> Values \ {Refused}] /\ mirror' \in Values \ {Refused}
        /\ stored' \in [Settings -> (Values \ {Refused}) \cup {Unset}]
    BY <1>0, <2>1, <2>6
  <2> QED BY <2>5, <2>7, PutChange
<1> QED BY <1>1, <1>2, <1>3, <1>5, <1>6, <1>7

LEMMA RestoreTypes ==
  ASSUME ConfigTypes, NEW readable \in SUBSET Settings, Restore(readable)
  PROVE  ConfigTypes'
<1>1. /\ live' = Restored(readable) /\ mirror' = Restored(readable)["detection_enabled"]
      /\ put' = [h \in ConfigHandlers |-> Unset] /\ stored' = stored
  BY DEF Restore, RestoredMirror
<1>2. stored \in [Settings -> (Values \ {Refused}) \cup {Unset}]
  BY ConfigTypesParts
<1>3. Restored(readable) \in [Settings -> Values \ {Refused}]
  BY <1>2, ConfigAssumption DEF Restored
<1>4. mirror' \in Values \ {Refused}
  BY <1>1, <1>3 DEF Settings
<1> QED BY <1>1, <1>2, <1>3, <1>4 DEF ConfigTypes, ConfigTypeOK
--------------------------------------------------------------------------------
(* The lists. *)

\* The steps that keep account of other items leave these alone.
LEMMA OtherItems ==
  ASSUME NEW S, NEW items \in SUBSET S, NEW busy, NEW saved, NEW unsaved,
         Begins(items, busy) \/ Ends(items, saved, unsaved, busy)
  PROVE  \A k : k \notin S => (k \in raced' <=> k \in raced) /\ (k \in doubtful' <=> k \in doubtful)
BY DEF Begins, Ends

LEMMA ConfigAccount ==
  ASSUME ConfigTypes, ConfigNext
  PROVE  \A k : k \notin Settings =>
           (k \in raced' <=> k \in raced) /\ (k \in doubtful' <=> k \in doubtful)
<1>1. PICK h \in ConfigHandlers :
        \/ \E p \in Patches : Put(h, p)
        \/ Refuse(h) \/ Mirror(h)
        \/ \E s \in Settings : Apply(h, s) \/ Persist(h, s)
  BY DEF ConfigNext
<1>2. ASSUME NEW p \in Patches, Put(h, p)
      PROVE  \A k : k \notin Settings =>
               (k \in raced' <=> k \in raced) /\ (k \in doubtful' <=> k \in doubtful)
  BY <1>2, OtherItems, ConfigAssumption DEF Put
<1>3. ASSUME NEW u, NEW v, put[h] # Unset, Proceed(h, u, v)
      PROVE  \A k : k \notin Settings =>
               (k \in raced' <=> k \in raced) /\ (k \in doubtful' <=> k \in doubtful)
  <2>1. DOMAIN put[h].patch \subseteq Settings
    BY <1>3, NextStep
  <2> QED BY <1>3, <2>1, OtherItems DEF Proceed, history
<1>4. CASE Refuse(h)
  <2>1. DOMAIN put[h].patch \subseteq Settings
    BY <1>4, NextStep DEF Refuse
  <2> QED BY <1>4, <2>1, OtherItems DEF Refuse
<1>5. CASE Mirror(h)
  BY <1>3, <1>5 DEF Mirror, At
<1>6. ASSUME NEW s \in Settings, Apply(h, s) \/ Persist(h, s)
      PROVE  \A k : k \notin Settings =>
               (k \in raced' <=> k \in raced) /\ (k \in doubtful' <=> k \in doubtful)
  <2>1. put[h] # Unset /\ \E u, v : Proceed(h, u, v)
    BY <1>6 DEF Apply, Persist, At
  <2> QED BY <1>3, <2>1
<1> QED BY <1>1, <1>2, <1>4, <1>5, <1>6

\* Memory is what the last change made it, of the changes that did not overlap; and
\* the account knows every overlap.
RowsInv ==
  /\ \A h \in ListHandlers : change[h] # Absent /\ change[h].at = "table"
       => change[h].item \in raced \/ memory[change[h].item] = change[h].entry
  /\ \A k \in batch : k \in raced \/ memory[k] = "auto-learned"
  /\ \A h, g \in ListHandlers :
       h # g /\ change[h] # Absent /\ change[g] # Absent /\ change[h].item = change[g].item
         => change[h].item \in raced
  /\ \A h \in ListHandlers : change[h] # Absent /\ change[h].item \in batch
       => change[h].item \in raced

ListsInv == ListsTypeOK /\ RowsInv /\ ListsAgree

\* A handler's step changes its request, and nothing of the others.
LEMMA RequestChange ==
  ASSUME ListsTypeOK, NEW h \in ListHandlers, NEW r \in ListRequest \cup {Absent},
         change' = [change EXCEPT ![h] = r]
  PROVE  /\ change' \in [ListHandlers -> ListRequest \cup {Absent}]
         /\ \A g \in ListHandlers : change'[g] = IF g = h THEN r ELSE change[g]
BY DEF ListsTypeOK

LEMMA BusyItems ==
  ASSUME NEW h \in ListHandlers, NEW k
  PROVE  /\ k \in ListsBusy(h) <=>
              k \in batch \/ \E g \in ListHandlers : g # h /\ change[g] # Absent /\ change[g].item = k
         /\ k \in Requested(ListHandlers) <=>
              \E g \in ListHandlers : change[g] # Absent /\ change[g].item = k
BY DEF ListsBusy, Requested

LEMMA RequestInvStep ==
  ASSUME ListsInv, NEW h \in ListHandlers, NEW k \in Items, NEW e \in Comments \cup {Absent},
         Request(h, k, e)
  PROVE  ListsInv'
<1>1. PICK r : r = [item |-> k, entry |-> e, at |-> "memory"]
  OBVIOUS
<1>2. r \in ListRequest /\ r # Absent /\ r.item = k /\ r.at = "memory"
  BY <1>1, ListsAssumption DEF ListRequest
<1>3. /\ change[h] = Absent /\ change' = [change EXCEPT ![h] = r]
      /\ raced' = raced \cup ({k} \cap ListsBusy(h)) /\ doubtful' = doubtful
      /\ memory' = memory /\ table' = table /\ learning' = learning /\ batch' = batch
  BY <1>1 DEF Request, Begins
<1>4. /\ change' \in [ListHandlers -> ListRequest \cup {Absent}]
      /\ \A g \in ListHandlers : change'[g] = IF g = h THEN r ELSE change[g]
  BY <1>2, <1>3, RequestChange DEF ListsInv
<1>5. k \in raced' <=> k \in raced \/ k \in batch
               \/ \E g \in ListHandlers : g # h /\ change[g] # Absent /\ change[g].item = k
  BY <1>3, BusyItems
<1>6. ListsTypeOK'
  BY <1>3, <1>4 DEF ListsInv, ListsTypeOK
<1>7. RowsInv'
  BY <1>2, <1>3, <1>4, <1>5 DEF ListsInv, RowsInv
<1>8. ListsAgree'
  <2>1. \A i : i \in Requested(ListHandlers) => i \in Requested(ListHandlers)'
    BY <1>3, <1>4 DEF Requested
  <2> QED BY <1>3, <2>1 DEF ListsInv, ListsAgree
<1> QED BY <1>6, <1>7, <1>8 DEF ListsInv

LEMMA ChangeMemoryInv ==
  ASSUME ListsInv, NEW h \in ListHandlers, ChangeMemory(h)
  PROVE  ListsInv'
<1>0. PICK k : k = change[h].item
  OBVIOUS
<1>1. PICK r : r = [change[h] EXCEPT !.at = "table"]
  OBVIOUS
<1>2. /\ change[h] \in ListRequest /\ change[h] # Absent
      /\ k \in Items /\ change[h].entry \in Entries \cup {Absent}
  BY <1>0 DEF ListsInv, ListsTypeOK, ChangeMemory, ListRequest, Entries
<1>3. r \in ListRequest /\ r # Absent /\ r.item = k /\ r.at = "table" /\ r.entry = change[h].entry
  BY <1>0, <1>1, <1>2, ListsAssumption DEF ListRequest
<1>4. /\ change' = [change EXCEPT ![h] = r] /\ memory' = [memory EXCEPT ![k] = r.entry]
      /\ table' = table /\ learning' = learning /\ batch' = batch
      /\ raced' = raced /\ doubtful' = doubtful
  BY <1>0, <1>1, <1>3 DEF ChangeMemory, Changed, history
<1>5. /\ change' \in [ListHandlers -> ListRequest \cup {Absent}]
      /\ \A g \in ListHandlers : change'[g] = IF g = h THEN r ELSE change[g]
  BY <1>3, <1>4, RequestChange DEF ListsInv
<1>6. memory \in [Items -> Entries \cup {Absent}]
  BY DEF ListsInv, ListsTypeOK
<1>7. ListsTypeOK'
  BY <1>2, <1>3, <1>4, <1>5, <1>6 DEF ListsInv, ListsTypeOK
<1>8. /\ memory'[k] = r.entry
      /\ \A i \in Items : i # k => memory'[i] = memory[i]
  BY <1>2, <1>4, <1>6
<1>9. \A g \in ListHandlers : change[g] # Absent => change[g] \in ListRequest /\ change[g].item \in Items
  BY DEF ListsInv, ListsTypeOK, ListRequest
<1>10. RowsInv'
  <2>1. \A g \in ListHandlers : change'[g] # Absent /\ change'[g].at = "table"
          => change'[g].item \in raced' \/ memory'[change'[g].item] = change'[g].entry
    BY <1>0, <1>2, <1>3, <1>4, <1>5, <1>8, <1>9 DEF ListsInv, RowsInv
  <2>2. \A i \in batch' : i \in raced' \/ memory'[i] = "auto-learned"
    <3>1. \A i \in batch : i \in Items
      BY DEF ListsInv, ListsTypeOK, Items
    <3> QED BY <1>0, <1>2, <1>4, <1>8, <3>1 DEF ListsInv, RowsInv
  <2> QED BY <1>0, <1>2, <1>3, <1>4, <1>5, <2>1, <2>2 DEF ListsInv, RowsInv
<1>11. ListsAgree'
  <2>1. \A i : i \in Requested(ListHandlers)' <=> i \in Requested(ListHandlers)
    BY <1>0, <1>2, <1>3, <1>5 DEF Requested
  <2>2. k \in Requested(ListHandlers)
    BY <1>0, <1>2 DEF Requested
  <2> QED BY <1>4, <1>8, <2>1, <2>2 DEF ListsInv, ListsAgree
<1> QED BY <1>7, <1>10, <1>11 DEF ListsInv

LEMMA ChangeTableInv ==
  ASSUME ListsInv, NEW h \in ListHandlers, ChangeTable(h)
  PROVE  ListsInv'
<1>0. PICK k : k = change[h].item
  OBVIOUS
<1>1. PICK saved, unsaved :
        \/ /\ saved = {k} /\ unsaved = {} /\ table' = [table EXCEPT ![k] = change[h].entry]
           /\ Ends({k}, saved, unsaved, ListsBusy(h))
        \/ /\ saved = {} /\ unsaved = {k} /\ table' = table
           /\ Ends({k}, saved, unsaved, ListsBusy(h))
  BY <1>0 DEF ChangeTable
<1>2. /\ change[h] \in ListRequest /\ change[h] # Absent /\ change[h].at = "table"
      /\ k \in Items /\ change[h].entry \in Entries \cup {Absent}
  BY <1>0 DEF ListsInv, ListsTypeOK, ChangeTable, ListRequest, Entries
<1>3. /\ change' = [change EXCEPT ![h] = Absent]
      /\ memory' = memory /\ learning' = learning /\ batch' = batch
  BY DEF ChangeTable
<1>4. /\ change' \in [ListHandlers -> ListRequest \cup {Absent}]
      /\ \A g \in ListHandlers : change'[g] = IF g = h THEN Absent ELSE change[g]
  BY <1>3, RequestChange DEF ListsInv
<1>5. memory \in [Items -> Entries \cup {Absent}] /\ table \in [Items -> Entries \cup {Absent}]
  BY DEF ListsInv, ListsTypeOK
<1>6. /\ \A i : i # k => (i \in raced' <=> i \in raced) /\ (i \in doubtful' <=> i \in doubtful)
      /\ k \in ListsBusy(h) => (k \in raced' <=> k \in raced) /\ (k \in doubtful' <=> k \in doubtful)
      /\ k \notin ListsBusy(h) /\ k \notin doubtful' => k \notin raced /\ saved = {k}
  BY <1>1 DEF Ends
<1>7. k \in ListsBusy(h) <=>
        k \in batch \/ \E g \in ListHandlers : g # h /\ change[g] # Absent /\ change[g].item = k
  BY BusyItems
<1>8. ListsTypeOK'
  BY <1>1, <1>2, <1>3, <1>4, <1>5 DEF ListsInv, ListsTypeOK
<1>9. RowsInv'
  <2>1. \A g \in ListHandlers : change'[g] # Absent => g # h /\ change'[g] = change[g]
    BY <1>4
  <2>2. \A g \in ListHandlers : change'[g] # Absent /\ change'[g].item \in raced
          => change'[g].item \in raced'
    BY <1>6, <1>7, <2>1
  <2>3. \A i \in batch' : i \in raced => i \in raced'
    BY <1>3, <1>6, <1>7
  <2> QED BY <1>3, <2>1, <2>2, <2>3 DEF ListsInv, RowsInv
<1>10. ListsAgree'
  <2> SUFFICES ASSUME NEW i \in Items, i \notin doubtful',
                      i \notin batch', i \notin Requested(ListHandlers)'
               PROVE  memory'[i] = table'[i]
    BY DEF ListsAgree
  <2>1. \A g \in ListHandlers : ~(change'[g] # Absent /\ change'[g].item = i)
    BY DEF Requested
  <2>2. CASE i # k
    <3>1. i \notin Requested(ListHandlers)
      BY <1>0, <1>4, <2>1, <2>2 DEF Requested
    <3>2. table'[i] = table[i]
      BY <1>1, <1>5, <2>2
    <3> QED BY <1>3, <1>6, <2>2, <3>1, <3>2 DEF ListsInv, ListsAgree
  <2>3. CASE i = k
    <3>1. k \notin ListsBusy(h)
      BY <1>3, <1>4, <1>7, <2>1, <2>3
    <3>2. k \notin raced /\ saved = {k}
      BY <1>6, <2>3, <3>1
    <3>3. table' = [table EXCEPT ![k] = change[h].entry]
      BY <1>1, <3>2
    <3>4. memory[k] = change[h].entry
      BY <1>0, <1>2, <3>2 DEF ListsInv, RowsInv
    <3> QED BY <1>2, <1>3, <1>5, <2>3, <3>3, <3>4
  <2> QED BY <2>2, <2>3
<1> QED BY <1>8, <1>9, <1>10 DEF ListsInv

LEMMA LearningEndsInv ==
  ASSUME ListsInv, NEW learned \in SUBSET WhiteItems, LearningEnds(learned)
  PROVE  ListsInv'
<1>1. /\ batch = {} /\ batch' = learned /\ table' = table /\ change' = change
      /\ memory' = [k \in Items |-> IF k \in learned THEN "auto-learned" ELSE memory[k]]
      /\ raced' = raced \cup (learned \cap Requested(ListHandlers)) /\ doubtful' = doubtful
      /\ learning' = IF learned = {} THEN "off" ELSE "saving"
  BY DEF ListsInv, ListsTypeOK, LearningEnds, Begins
<1>2. /\ change \in [ListHandlers -> ListRequest \cup {Absent}]
      /\ memory \in [Items -> Entries \cup {Absent}] /\ table \in [Items -> Entries \cup {Absent}]
      /\ learned \subseteq Items
  BY DEF ListsInv, ListsTypeOK, Items
<1>3. \A g \in ListHandlers : change[g] # Absent => change[g].item \in Items
  BY <1>2 DEF ListRequest
<1>4. \A k : k \in Requested(ListHandlers) <=>
               \E g \in ListHandlers : change[g] # Absent /\ change[g].item = k
  BY DEF Requested
<1>5. \A k \in Items : memory'[k] = IF k \in learned THEN "auto-learned" ELSE memory[k]
  BY <1>1
<1>6. ListsTypeOK'
  <2>1. memory' \in [Items -> Entries \cup {Absent}]
    BY <1>1, <1>2 DEF Entries
  <2> QED BY <1>1, <1>2, <2>1 DEF ListsTypeOK
<1>7. RowsInv'
  BY <1>1, <1>2, <1>3, <1>4, <1>5 DEF ListsInv, RowsInv
<1>8. ListsAgree'
  <2>1. Requested(ListHandlers)' = Requested(ListHandlers)
    BY <1>1 DEF Requested
  <2> QED BY <1>1, <1>5, <2>1 DEF ListsInv, ListsAgree
<1> QED BY <1>6, <1>7, <1>8 DEF ListsInv

LEMMA SaveLearnedInv ==
  ASSUME ListsInv, NEW k \in WhiteItems, SaveLearned(k)
  PROVE  ListsInv'
<1>1. PICK saved, unsaved :
        \/ /\ saved = {k} /\ unsaved = {} /\ table' = [table EXCEPT ![k] = "auto-learned"]
           /\ Ends({k}, saved, unsaved, Requested(ListHandlers))
        \/ /\ saved = {} /\ unsaved = {k} /\ table' = table
           /\ Ends({k}, saved, unsaved, Requested(ListHandlers))
  BY DEF SaveLearned
<1>2. /\ k \in batch /\ batch' = batch \ {k} /\ memory' = memory /\ change' = change
      /\ learning' = IF batch' = {} THEN "off" ELSE learning
  BY DEF SaveLearned
<1>3. /\ change \in [ListHandlers -> ListRequest \cup {Absent}] /\ k \in Items
      /\ memory \in [Items -> Entries \cup {Absent}] /\ table \in [Items -> Entries \cup {Absent}]
      /\ batch \subseteq WhiteItems /\ learning \in {"observing", "saving", "off"}
      /\ learning # "saving" => batch = {}
  BY DEF ListsInv, ListsTypeOK, Items
<1>4. /\ \A i : i # k => (i \in raced' <=> i \in raced) /\ (i \in doubtful' <=> i \in doubtful)
      /\ k \in Requested(ListHandlers) =>
           (k \in raced' <=> k \in raced) /\ (k \in doubtful' <=> k \in doubtful)
      /\ k \notin Requested(ListHandlers) /\ k \notin doubtful' => k \notin raced /\ saved = {k}
  BY <1>1 DEF Ends
<1>5. \A i : i \in Requested(ListHandlers) <=>
               \E g \in ListHandlers : change[g] # Absent /\ change[g].item = i
  BY DEF Requested
<1>6. ListsTypeOK'
  <2>1. table' \in [Items -> Entries \cup {Absent}]
    BY <1>1, <1>3 DEF Entries
  <2>2. /\ batch' \subseteq WhiteItems /\ learning' \in {"observing", "saving", "off"}
        /\ learning' # "saving" => batch' = {}
    BY <1>2, <1>3
  <2> QED BY <1>2, <1>3, <2>1, <2>2 DEF ListsTypeOK
<1>7. RowsInv'
  <2>1. \A g \in ListHandlers : change[g] # Absent /\ change[g].item \in raced
          => change[g].item \in raced'
    BY <1>4, <1>5
  <2>2. \A i \in batch' : i \in raced => i \in raced'
    BY <1>2, <1>4
  <2> QED BY <1>2, <2>1, <2>2 DEF ListsInv, RowsInv
<1>8. ListsAgree'
  <2> SUFFICES ASSUME NEW i \in Items, i \notin doubtful',
                      i \notin batch', i \notin Requested(ListHandlers)'
               PROVE  memory'[i] = table'[i]
    BY DEF ListsAgree
  <2>1. i \notin Requested(ListHandlers)
    BY <1>2 DEF Requested
  <2>2. CASE i # k
    <3>1. table'[i] = table[i]
      BY <1>1, <1>3, <2>2
    <3> QED BY <1>2, <1>4, <2>1, <2>2, <3>1 DEF ListsInv, ListsAgree
  <2>3. CASE i = k
    <3>1. k \notin raced /\ saved = {k}
      BY <1>4, <2>1, <2>3
    <3>2. table' = [table EXCEPT ![k] = "auto-learned"]
      BY <1>1, <3>1
    <3>3. memory[k] = "auto-learned"
      BY <1>2, <3>1 DEF ListsInv, RowsInv
    <3> QED BY <1>2, <1>3, <2>3, <3>2, <3>3
  <2> QED BY <2>2, <2>3
<1> QED BY <1>6, <1>7, <1>8 DEF ListsInv

LEMMA ListsStepInv ==
  ASSUME ListsInv, ListsNext
  PROVE  ListsInv'
BY RequestInvStep, ChangeMemoryInv, ChangeTableInv, LearningEndsInv, SaveLearnedInv DEF ListsNext

\* What a restart cannot read is in doubt.
LEMMA LoadInv ==
  ASSUME ListsInv, NEW loaded \in BOOLEAN, LoadFromStorage(loaded),
         raced' = {}, \A k \in Items : ~loaded /\ table[k] # Absent => k \in doubtful'
  PROVE  ListsInv'
<1>1. /\ memory' = IF loaded THEN table ELSE [k \in Items |-> Absent]
      /\ change' = [h \in ListHandlers |-> Absent] /\ table' = table
      /\ learning' \in {"observing", "off"} /\ batch' = {}
  BY DEF LoadFromStorage
<1>2. table \in [Items -> Entries \cup {Absent}]
  BY DEF ListsInv, ListsTypeOK
<1>3. ListsTypeOK'
  BY <1>1, <1>2 DEF ListsTypeOK
<1>4. RowsInv'
  BY <1>1 DEF RowsInv
<1>5. ListsAgree'
  BY <1>1, <1>2 DEF ListsAgree
<1> QED BY <1>3, <1>4, <1>5 DEF ListsInv

\* Other steps leave the lists alone, and the account of their items.
LEMMA ListsInvKept ==
  ASSUME ListsInv, UNCHANGED lists,
         \A k \in Items : (k \in raced' <=> k \in raced) /\ (k \in doubtful' <=> k \in doubtful)
  PROVE  ListsInv'
<1>1. /\ memory' = memory /\ table' = table /\ change' = change
      /\ learning' = learning /\ batch' = batch
  BY DEF lists
<1>2. /\ \A h \in ListHandlers : change[h] # Absent => change[h].item \in Items
      /\ batch \subseteq Items
  BY DEF ListsInv, ListsTypeOK, ListRequest, Items
<1>3. Requested(ListHandlers)' = Requested(ListHandlers)
  BY <1>1 DEF Requested
<1> QED BY <1>1, <1>2, <1>3 DEF ListsInv, ListsTypeOK, RowsInv, ListsAgree

\* Of the database's steps these concern the lists.
LEMMA ListsSteps ==
  ASSUME [Next]_vars
  PROVE  \/ ListsNext
         \/ ConfigNext /\ UNCHANGED lists
         \/ \E loaded \in BOOLEAN :
              /\ LoadFromStorage(loaded) /\ raced' = {}
              /\ \A k \in Items : ~loaded /\ table[k] # Absent => k \in doubtful'
         \/ UNCHANGED <<history, lists>>
<1>1. CASE ListsStep
  BY <1>1 DEF ListsStep
<1>2. CASE ConfigStep
  BY <1>2 DEF ConfigStep
<1>3. CASE AuthStep
  BY <1>3 DEF AuthStep
<1>4. CASE RetentionStep
  BY <1>4 DEF RetentionStep
<1>5. CASE StatsStep
  BY <1>5 DEF StatsStep
<1>6. CASE SchemaStep
  BY <1>6 DEF SchemaStep
<1>7. CASE Time
  BY <1>7 DEF Time
<1>8. CASE Restart
  BY <1>8 DEF Restart, Reloaded
<1>9. CASE UNCHANGED vars
  BY <1>9 DEF vars
<1> QED BY <1>1, <1>2, <1>3, <1>4, <1>5, <1>6, <1>7, <1>8, <1>9 DEF Next

\* ... and these the settings.
LEMMA ConfigSteps ==
  ASSUME [Next]_vars
  PROVE  \/ ConfigNext
         \/ ListsNext /\ UNCHANGED config
         \/ \E readable \in SUBSET Settings :
              /\ Restore(readable) /\ raced' = {}
              /\ \A s \in Settings \ readable : stored[s] # Unset => s \in doubtful'
         \/ UNCHANGED <<history, config>>
<1>1. CASE ListsStep
  BY <1>1 DEF ListsStep
<1>2. CASE ConfigStep
  BY <1>2 DEF ConfigStep
<1>3. CASE AuthStep
  BY <1>3 DEF AuthStep
<1>4. CASE RetentionStep
  BY <1>4 DEF RetentionStep
<1>5. CASE StatsStep
  BY <1>5 DEF StatsStep
<1>6. CASE SchemaStep
  BY <1>6 DEF SchemaStep
<1>7. CASE Time
  BY <1>7 DEF Time
<1>8. CASE Restart
  BY <1>8 DEF Restart, Reloaded
<1>9. CASE UNCHANGED vars
  BY <1>9 DEF vars
<1> QED BY <1>1, <1>2, <1>3, <1>4, <1>5, <1>6, <1>7, <1>8, <1>9 DEF Next

LEMMA ConfigTypesInit == Init => ConfigTypes
<1> SUFFICES ASSUME Init
             PROVE  ConfigTypes
  OBVIOUS
<1>1. /\ live = Defaults /\ mirror = Defaults["detection_enabled"]
      /\ stored = [s \in Settings |-> Unset] /\ put = [h \in ConfigHandlers |-> Unset]
  BY DEF Init, ConfigInit
<1>2. mirror \in Values \ {Refused}
  BY <1>1, ConfigAssumption DEF Settings
<1> QED BY <1>1, <1>2, ConfigAssumption DEF ConfigTypes, ConfigTypeOK

LEMMA ConfigTypesInvariant == Spec => []ConfigTypes
<1>1. ConfigTypes /\ [Next]_vars => ConfigTypes'
  <2> SUFFICES ASSUME ConfigTypes, [Next]_vars
               PROVE  ConfigTypes'
    OBVIOUS
  <2>1. CASE UNCHANGED config
    BY <2>1 DEF config, ConfigTypes, ConfigTypeOK
  <2> QED BY <2>1, ConfigSteps, ConfigStepTypes, RestoreTypes DEF history
<1> QED BY <1>1, ConfigTypesInit, PTL DEF Spec

LEMMA ListsInvariant == Spec => []ListsInv
<1>1. Init => ListsInv
  BY DEF Init, ListsInit, ListsInv, ListsTypeOK, RowsInv, ListsAgree
<1>2. ConfigTypes /\ ListsInv /\ [Next]_vars => ListsInv'
  <2> SUFFICES ASSUME ConfigTypes, ListsInv, [Next]_vars
               PROVE  ListsInv'
    OBVIOUS
  <2>1. CASE ConfigNext /\ UNCHANGED lists
    <3>1. \A k \in Items : k \notin Settings
      BY ItemsAssumption
    <3> QED BY <2>1, <3>1, ConfigAccount, ListsInvKept
  <2>2. CASE UNCHANGED <<history, lists>>
    BY <2>2, ListsInvKept DEF history
  <2> QED BY <2>1, <2>2, ListsSteps, ListsStepInv, LoadInv
<1> QED BY <1>1, <1>2, ConfigTypesInvariant, PTL DEF Spec

\* After changes that came one after the other, the last of them written, the lists in
\* memory are those in the database.
THEOREM ListsCorrect == Spec => []ListsAgree
<1>1. ListsInv => ListsAgree
  BY DEF ListsInv
<1> QED BY <1>1, ListsInvariant, PTL
--------------------------------------------------------------------------------
(* The settings. *)

\* What a restart would restore is what the subsystem goes by, and the responses tell.
Matches(l, m, st, s) ==
  /\ l[s] = IF st[s] # Unset THEN st[s] ELSE Defaults[s]
  /\ s = "detection_enabled" => m = l[s]

\* A request's settings, when no other request races for them: what it has applied is
\* there still, what it has saved agrees, and what it has not touched yet did before.
Undisturbed(r, l, m, st, ra, db) ==
  \A s \in DOMAIN r.patch \ ra :
    /\ ApplyDone(r, s) => l[s] = r.patch[s]
    /\ s = "detection_enabled" /\ MirrorDone(r) => m = r.patch[s]
    /\ s \in r.saved => Matches(l, m, st, s)
    /\ s \notin r.saved \cup r.unsaved \cup db => Matches(l, m, st, s)

SettingsInv ==
  /\ ConfigTypes
  /\ \A h \in ConfigHandlers : put[h] # Unset =>
       Undisturbed(put[h], live, mirror, stored, raced, doubtful)
  /\ \A h, g \in ConfigHandlers : h # g /\ put[h] # Unset /\ put[g] # Unset =>
       DOMAIN put[h].patch \cap DOMAIN put[g].patch \subseteq raced
  /\ \A s \in Settings \ doubtful :
       (\A h \in ConfigHandlers : put[h] = Unset \/ s \notin DOMAIN put[h].patch)
         => Matches(live, mirror, stored, s)

LEMMA ConfigBusyIs ==
  ASSUME NEW h \in ConfigHandlers, NEW s
  PROVE  s \in ConfigBusy(h) <=>
           \E g \in ConfigHandlers : g # h /\ put[g] # Unset /\ s \in DOMAIN put[g].patch
BY DEF ConfigBusy

LEMMA PutSettings ==
  ASSUME SettingsInv, ConfigTypes', NEW h \in ConfigHandlers, NEW p \in Patches, Put(h, p)
  PROVE  SettingsInv'
<1>1. PICK r : r = [patch |-> p, todo |-> StepsOf(p), unsaved |-> {}, saved |-> {}]
  OBVIOUS
<1>2. /\ put[h] = Unset /\ put' = [put EXCEPT ![h] = r]
      /\ live' = live /\ mirror' = mirror /\ stored' = stored
      /\ raced' = raced \cup (DOMAIN p \cap ConfigBusy(h)) /\ doubtful' = doubtful
  BY <1>1 DEF Put, Begins
<1>3. /\ r.patch = p /\ r.todo = StepsOf(p) /\ r.unsaved = {} /\ r.saved = {}
      /\ r \in ConfigRequest /\ r # Unset
  BY <1>1, StepsAre, UnsetAssumption DEF ConfigRequest, StepsOf
<1>4. \A g \in ConfigHandlers : put'[g] = IF g = h THEN r ELSE put[g]
  BY <1>2, ConfigTypesParts DEF SettingsInv
<1>5. DOMAIN p \subseteq Settings
  BY ConfigAssumption
<1>6. /\ \A s \in DOMAIN p : ~ApplyDone(r, s)
      /\ "detection_enabled" \in DOMAIN p => ~MirrorDone(r)
  BY <1>3, <1>5, StepsAre DEF ApplyDone, MirrorDone, StepsOf, Settings
<1>7. Undisturbed(r, live, mirror, stored, raced', doubtful)
  <2> SUFFICES ASSUME NEW s \in DOMAIN p, s \notin raced', s \notin doubtful
               PROVE  Matches(live, mirror, stored, s)
    BY <1>3, <1>6 DEF Undisturbed
  <2>1. \A g \in ConfigHandlers : put[g] = Unset \/ s \notin DOMAIN put[g].patch
    BY <1>2, ConfigBusyIs
  <2> QED BY <1>5, <2>1 DEF SettingsInv
<1>8. \A g \in ConfigHandlers : put[g] # Unset =>
        Undisturbed(put[g], live, mirror, stored, raced', doubtful)
  BY <1>2 DEF SettingsInv, Undisturbed
<1>9. \A g \in ConfigHandlers : put'[g] # Unset =>
        Undisturbed(put'[g], live', mirror', stored', raced', doubtful')
  BY <1>2, <1>4, <1>7, <1>8
<1>10. \A g, f \in ConfigHandlers : g # f /\ put'[g] # Unset /\ put'[f] # Unset =>
         DOMAIN put'[g].patch \cap DOMAIN put'[f].patch \subseteq raced'
  <2>1. \A g \in ConfigHandlers : g # h /\ put[g] # Unset =>
          DOMAIN p \cap DOMAIN put[g].patch \subseteq raced'
    BY <1>2, ConfigBusyIs
  <2>2. \A g, f \in ConfigHandlers : g # f /\ put[g] # Unset /\ put[f] # Unset =>
          DOMAIN put[g].patch \cap DOMAIN put[f].patch \subseteq raced'
    BY <1>2 DEF SettingsInv
  <2> QED BY <1>3, <1>4, <2>1, <2>2
<1>11. \A s \in Settings \ doubtful' :
         (\A g \in ConfigHandlers : put'[g] = Unset \/ s \notin DOMAIN put'[g].patch)
           => Matches(live', mirror', stored', s)
  BY <1>2, <1>4 DEF SettingsInv
<1> QED BY <1>9, <1>10, <1>11 DEF SettingsInv, Undisturbed, Matches, ApplyDone, MirrorDone

\* A step of a request changes nothing but its settings, and the account says so.
Elsewhere(r) ==
  \A s \in Settings \ DOMAIN r.patch :
    /\ live'[s] = live[s] /\ stored'[s] = stored[s]
    /\ s = "detection_enabled" => mirror' = mirror

\* A request that goes on.
LEMMA GoesOn ==
  ASSUME SettingsInv, ConfigTypes', NEW h \in ConfigHandlers, put[h] # Unset,
         NEW r, r.patch = put[h].patch, put' = [put EXCEPT ![h] = r], r # Unset,
         UNCHANGED history, Elsewhere(put[h]),
         Undisturbed(r, live', mirror', stored', raced, doubtful)
  PROVE  SettingsInv'
<1>1. \A g \in ConfigHandlers : put'[g] = IF g = h THEN r ELSE put[g]
  BY ConfigTypesParts DEF SettingsInv
<1>2. raced' = raced /\ doubtful' = doubtful
  BY DEF history
<1>3. \A g \in ConfigHandlers : put[g] # Unset => DOMAIN put[g].patch \subseteq Settings
  BY NextStep DEF SettingsInv
<1>4. ASSUME NEW g \in ConfigHandlers, g # h, put[g] # Unset
      PROVE  Undisturbed(put[g], live', mirror', stored', raced, doubtful)
  <2>1. \A s \in DOMAIN put[g].patch \ raced : s \in Settings \ DOMAIN put[h].patch
    BY <1>3, <1>4 DEF SettingsInv
  <2>2. Undisturbed(put[g], live, mirror, stored, raced, doubtful)
    BY <1>4 DEF SettingsInv
  <2> QED BY <2>1, <2>2 DEF Undisturbed, Elsewhere, Matches
<1>5. \A g \in ConfigHandlers : put'[g] # Unset =>
        Undisturbed(put'[g], live', mirror', stored', raced', doubtful')
  BY <1>1, <1>2, <1>4
<1>6. \A g, f \in ConfigHandlers : g # f /\ put'[g] # Unset /\ put'[f] # Unset =>
        DOMAIN put'[g].patch \cap DOMAIN put'[f].patch \subseteq raced'
  BY <1>1, <1>2 DEF SettingsInv
<1>7. \A s \in Settings \ doubtful' :
        (\A g \in ConfigHandlers : put'[g] = Unset \/ s \notin DOMAIN put'[g].patch)
          => Matches(live', mirror', stored', s)
  <2> SUFFICES ASSUME NEW s \in Settings, s \notin doubtful,
                      \A g \in ConfigHandlers : put'[g] = Unset \/ s \notin DOMAIN put'[g].patch
               PROVE  Matches(live', mirror', stored', s)
    BY <1>2
  <2>1. \A g \in ConfigHandlers : put[g] = Unset \/ s \notin DOMAIN put[g].patch
    BY <1>1
  <2>2. s \notin DOMAIN put[h].patch
    BY <2>1
  <2>3. Matches(live, mirror, stored, s)
    BY <2>1 DEF SettingsInv
  <2> QED BY <2>2, <2>3 DEF Elsewhere, Matches
<1> QED BY <1>5, <1>6, <1>7 DEF SettingsInv, Undisturbed, Matches, ApplyDone, MirrorDone

\* A request that is answered, its settings saved or known to be unsaved.
LEMMA Finishes ==
  ASSUME SettingsInv, ConfigTypes', NEW h \in ConfigHandlers, put[h] # Unset,
         NEW r, r.patch = put[h].patch, put' = [put EXCEPT ![h] = Unset],
         Ends(DOMAIN put[h].patch, r.saved, r.unsaved, ConfigBusy(h)), Elsewhere(put[h]),
         Undisturbed(r, live', mirror', stored', raced, doubtful)
  PROVE  SettingsInv'
<1>1. \A g \in ConfigHandlers : put'[g] = IF g = h THEN Unset ELSE put[g]
  BY ConfigTypesParts DEF SettingsInv
<1>2. \A s : s \notin DOMAIN put[h].patch \/ s \in ConfigBusy(h) =>
        (s \in raced' <=> s \in raced) /\ (s \in doubtful' <=> s \in doubtful)
  BY DEF Ends
<1>3. \A g \in ConfigHandlers : put[g] # Unset => DOMAIN put[g].patch \subseteq Settings
  BY NextStep DEF SettingsInv
<1>4. ASSUME NEW g \in ConfigHandlers, g # h, put[g] # Unset
      PROVE  Undisturbed(put[g], live', mirror', stored', raced', doubtful')
  <2>1. \A s \in DOMAIN put[g].patch \ raced' :
          s \in Settings \ DOMAIN put[h].patch /\ s \notin raced /\ (s \in doubtful' <=> s \in doubtful)
    <3> SUFFICES ASSUME NEW s \in DOMAIN put[g].patch, s \notin raced'
                 PROVE  s \in Settings \ DOMAIN put[h].patch /\ s \notin raced
                          /\ (s \in doubtful' <=> s \in doubtful)
      OBVIOUS
    <3>1. s \in ConfigBusy(h)
      BY <1>4, ConfigBusyIs
    <3> QED BY <1>2, <1>3, <1>4, <3>1 DEF SettingsInv
  <2>2. Undisturbed(put[g], live, mirror, stored, raced, doubtful)
    BY <1>4 DEF SettingsInv
  <2> QED BY <2>1, <2>2 DEF Undisturbed, Elsewhere, Matches
<1>5. \A g \in ConfigHandlers : put'[g] # Unset =>
        Undisturbed(put'[g], live', mirror', stored', raced', doubtful')
  BY <1>1, <1>4
<1>6. \A g, f \in ConfigHandlers : g # f /\ put'[g] # Unset /\ put'[f] # Unset =>
        DOMAIN put'[g].patch \cap DOMAIN put'[f].patch \subseteq raced'
  <2> SUFFICES ASSUME NEW g \in ConfigHandlers, NEW f \in ConfigHandlers, g # f,
                      put'[g] # Unset, put'[f] # Unset,
                      NEW s \in DOMAIN put'[g].patch \cap DOMAIN put'[f].patch
               PROVE  s \in raced'
    OBVIOUS
  <2>1. /\ g # h /\ f # h /\ put[g] # Unset /\ put[f] # Unset
        /\ s \in DOMAIN put[g].patch /\ s \in DOMAIN put[f].patch
    BY <1>1
  <2>2. s \in raced
    BY <2>1 DEF SettingsInv
  <2>3. s \in ConfigBusy(h)
    BY <2>1, ConfigBusyIs
  <2> QED BY <1>2, <2>2, <2>3
<1>7. \A s \in Settings \ doubtful' :
        (\A g \in ConfigHandlers : put'[g] = Unset \/ s \notin DOMAIN put'[g].patch)
          => Matches(live', mirror', stored', s)
  <2> SUFFICES ASSUME NEW s \in Settings, s \notin doubtful',
                      \A g \in ConfigHandlers : put'[g] = Unset \/ s \notin DOMAIN put'[g].patch
               PROVE  Matches(live', mirror', stored', s)
    OBVIOUS
  <2>1. \A g \in ConfigHandlers : g = h \/ put[g] = Unset \/ s \notin DOMAIN put[g].patch
    BY <1>1
  <2>2. s \notin ConfigBusy(h)
    BY <2>1, ConfigBusyIs
  <2>3. CASE s \in DOMAIN put[h].patch
    <3>1. s \notin raced /\ s \notin r.unsaved /\ (s \in r.saved \/ s \notin doubtful)
      BY <2>2, <2>3 DEF Ends
    <3> QED BY <2>3, <3>1 DEF Undisturbed
  <2>4. CASE s \notin DOMAIN put[h].patch
    <3>1. Matches(live, mirror, stored, s)
      BY <1>2, <2>1, <2>4 DEF SettingsInv
    <3> QED BY <2>4, <3>1 DEF Elsewhere, Matches
  <2> QED BY <2>3, <2>4
<1> QED BY <1>5, <1>6, <1>7 DEF SettingsInv, Undisturbed, Matches, ApplyDone, MirrorDone

\* Both, of a step that Proceed ends.
LEMMA ProceedInv ==
  ASSUME SettingsInv, ConfigTypes', NEW h \in ConfigHandlers, put[h] # Unset,
         NEW u, NEW v, u \cup v \subseteq DOMAIN put[h].patch, Proceed(h, u, v), Elsewhere(put[h]),
         \A r : r.patch = put[h].patch /\ r.todo = put[h].todo \ {First(h)}
                  /\ r.unsaved = u /\ r.saved = v
                => Undisturbed(r, live', mirror', stored', raced, doubtful)
  PROVE  SettingsInv'
<1>1. PICK r : r = [patch |-> put[h].patch, todo |-> put[h].todo \ {First(h)},
                    unsaved |-> u, saved |-> v]
  OBVIOUS
<1>2. /\ r.patch = put[h].patch /\ r.todo = put[h].todo \ {First(h)}
      /\ r.unsaved = u /\ r.saved = v
  BY <1>1
<1>3. Undisturbed(r, live', mirror', stored', raced, doubtful)
  BY <1>2
<1>4. CASE put[h].todo # {First(h)}
  <2>1. r \in ConfigRequest
    BY <1>1, NextStep, StepsAre DEF SettingsInv, ConfigRequest
  <2>2. r # Unset
    BY <2>1, UnsetAssumption
  <2>3. put' = [put EXCEPT ![h] = r] /\ UNCHANGED history
    BY <1>1, <1>4 DEF Proceed
  <2> QED BY <1>2, <1>3, <2>2, <2>3, GoesOn
<1>5. CASE put[h].todo = {First(h)}
  <2>1. /\ put' = [put EXCEPT ![h] = Unset]
        /\ Ends(DOMAIN put[h].patch, r.saved, r.unsaved, ConfigBusy(h))
    BY <1>2, <1>5 DEF Proceed
  <2> QED BY <1>2, <1>3, <2>1, Finishes
<1> QED BY <1>4, <1>5

LEMMA RefuseInv ==
  ASSUME SettingsInv, ConfigTypes', NEW h \in ConfigHandlers, Refuse(h)
  PROVE  SettingsInv'
<1>1. /\ put[h] # Unset /\ Steps[First(h)][1] \in {"mirror", "apply"}
      /\ put' = [put EXCEPT ![h] = Unset]
      /\ Ends(DOMAIN put[h].patch, {}, put[h].unsaved, ConfigBusy(h))
      /\ live' = live /\ mirror' = mirror /\ stored' = stored
  BY DEF Refuse
<1>2. First(h) \in put[h].todo /\ First(h) \in 1 .. 7
  BY <1>1, NextStep DEF SettingsInv
<1>3. First(h) \in 1 .. 4
  BY <1>1, <1>2, StepsAre
<1>4. put[h].saved = {}
  BY <1>1, <1>2, <1>3 DEF SettingsInv, ConfigTypes, Accepted
<1>5. Undisturbed(put[h], live', mirror', stored', raced, doubtful)
  BY <1>1 DEF SettingsInv
<1>6. Elsewhere(put[h])
  BY <1>1 DEF Elsewhere
<1> QED BY <1>1, <1>4, <1>5, <1>6, Finishes

LEMMA MirrorInv ==
  ASSUME SettingsInv, ConfigTypes', NEW h \in ConfigHandlers, Mirror(h)
  PROVE  SettingsInv'
<1>1. /\ At(h, "mirror", "detection_enabled") /\ Steps[First(h)] = <<"mirror", "detection_enabled">>
      /\ mirror' = put[h].patch["detection_enabled"] /\ live' = live /\ stored' = stored
      /\ Proceed(h, put[h].unsaved \cup {"detection_enabled"}, put[h].saved)
  BY DEF Mirror, At
<1>2. put[h] # Unset /\ "detection_enabled" \in DOMAIN put[h].patch /\ put[h].saved = {}
  BY <1>1, StepOrder DEF SettingsInv
<1>3. put[h].saved \cup put[h].unsaved \subseteq DOMAIN put[h].patch
  BY <1>2, NextStep DEF SettingsInv
<1>4. Undisturbed(put[h], live, mirror, stored, raced, doubtful)
  BY <1>2 DEF SettingsInv
<1>5. Elsewhere(put[h])
  BY <1>1, <1>2 DEF Elsewhere
<1>6. ASSUME NEW r, r.patch = put[h].patch, r.todo = put[h].todo \ {First(h)},
             r.unsaved = put[h].unsaved \cup {"detection_enabled"}, r.saved = put[h].saved
      PROVE  Undisturbed(r, live', mirror', stored', raced, doubtful)
  <2>1. \A s : ApplyDone(r, s) => ApplyDone(put[h], s)
    BY <1>1, <1>6 DEF ApplyDone
  <2> QED BY <1>1, <1>2, <1>4, <1>6, <2>1 DEF Undisturbed, Matches
<1> QED BY <1>1, <1>2, <1>3, <1>5, <1>6, ProceedInv

LEMMA ApplyInv ==
  ASSUME SettingsInv, ConfigTypes', NEW h \in ConfigHandlers, NEW s \in Settings, Apply(h, s)
  PROVE  SettingsInv'
<1>1. /\ At(h, "apply", s) /\ Steps[First(h)] = <<"apply", s>>
      /\ live' = [live EXCEPT ![s] = put[h].patch[s]] /\ mirror' = mirror /\ stored' = stored
      /\ Proceed(h, put[h].unsaved \cup {s}, put[h].saved)
  BY DEF Apply, At
<1>2. put[h] # Unset /\ s \in DOMAIN put[h].patch /\ put[h].saved = {}
  BY <1>1, StepOrder DEF SettingsInv
<1>3. /\ put[h].saved \cup put[h].unsaved \subseteq DOMAIN put[h].patch
      /\ DOMAIN put[h].patch \subseteq Settings
  BY <1>2, NextStep DEF SettingsInv
<1>4. Undisturbed(put[h], live, mirror, stored, raced, doubtful)
  BY <1>2 DEF SettingsInv
<1>5. /\ live'[s] = put[h].patch[s]
      /\ \A t \in Settings : t # s => live'[t] = live[t]
  BY <1>1, ConfigTypesParts DEF SettingsInv
<1>6. Elsewhere(put[h])
  BY <1>1, <1>2, <1>5 DEF Elsewhere
<1>7. ASSUME NEW r, r.patch = put[h].patch, r.todo = put[h].todo \ {First(h)},
             r.unsaved = put[h].unsaved \cup {s}, r.saved = put[h].saved
      PROVE  Undisturbed(r, live', mirror', stored', raced, doubtful)
  <2>1. \A t : t # s /\ ApplyDone(r, t) => ApplyDone(put[h], t)
    BY <1>1, <1>7 DEF ApplyDone
  <2>2. MirrorDone(r) => MirrorDone(put[h])
    BY <1>1, <1>7 DEF MirrorDone
  <2>3. ASSUME NEW t \in DOMAIN r.patch \ raced
        PROVE  /\ ApplyDone(r, t) => live'[t] = r.patch[t]
               /\ t = "detection_enabled" /\ MirrorDone(r) => mirror' = r.patch[t]
               /\ t \notin r.saved \cup r.unsaved \cup doubtful => Matches(live', mirror', stored', t)
    BY <1>1, <1>3, <1>4, <1>5, <1>7, <2>1, <2>2, <2>3 DEF Undisturbed, Matches
  <2> QED BY <1>2, <1>7, <2>3 DEF Undisturbed
<1> QED BY <1>1, <1>2, <1>3, <1>6, <1>7, ProceedInv

LEMMA PersistInv ==
  ASSUME SettingsInv, ConfigTypes', NEW h \in ConfigHandlers, NEW s \in Settings, Persist(h, s)
  PROVE  SettingsInv'
<1>1. /\ At(h, "persist", s) /\ Steps[First(h)] = <<"persist", s>>
      /\ live' = live /\ mirror' = mirror
  BY DEF Persist, At
<1>2. /\ put[h] # Unset /\ s \in DOMAIN put[h].patch /\ MirrorDone(put[h])
      /\ \A t \in Settings : ApplyDone(put[h], t)
  BY <1>1, StepOrder DEF SettingsInv
<1>3. /\ put[h].saved \cup put[h].unsaved \subseteq DOMAIN put[h].patch
      /\ DOMAIN put[h].patch \subseteq Settings /\ put[h].patch \in Patches
  BY <1>2, NextStep DEF SettingsInv
<1>4. Undisturbed(put[h], live, mirror, stored, raced, doubtful)
  BY <1>2 DEF SettingsInv
<1>5. \A t \in DOMAIN put[h].patch \ raced :
        /\ live[t] = put[h].patch[t]
        /\ t = "detection_enabled" => mirror = put[h].patch[t]
  BY <1>2, <1>3, <1>4 DEF Undisturbed
<1>6. put[h].patch[s] # Unset
  BY <1>2, <1>3, UnsetAssumption DEF Values
<1>7. CASE /\ stored' = [stored EXCEPT ![s] = put[h].patch[s]]
           /\ Proceed(h, put[h].unsaved \ {s}, put[h].saved \cup {s})
  <2>1. /\ stored'[s] = put[h].patch[s]
        /\ \A t \in Settings : t # s => stored'[t] = stored[t]
    BY <1>7, ConfigTypesParts DEF SettingsInv
  <2>2. Elsewhere(put[h])
    BY <1>1, <1>2, <2>1 DEF Elsewhere
  <2>3. ASSUME NEW r, r.patch = put[h].patch, r.todo = put[h].todo \ {First(h)},
               r.unsaved = put[h].unsaved \ {s}, r.saved = put[h].saved \cup {s}
        PROVE  Undisturbed(r, live', mirror', stored', raced, doubtful)
    <3> SUFFICES ASSUME NEW t \in DOMAIN r.patch \ raced
                 PROVE  /\ live'[t] = r.patch[t]
                        /\ t = "detection_enabled" => mirror' = r.patch[t]
                        /\ t \in r.saved => Matches(live', mirror', stored', t)
                        /\ t \notin r.saved \cup r.unsaved \cup doubtful
                             => Matches(live', mirror', stored', t)
      BY DEF Undisturbed
    <3>1. CASE t = s
      BY <1>1, <1>5, <1>6, <2>1, <2>3, <3>1 DEF Matches
    <3>2. CASE t # s
      BY <1>1, <1>3, <1>4, <1>5, <2>1, <2>3, <3>2 DEF Undisturbed, Matches
    <3> QED BY <3>1, <3>2
  <2> QED BY <1>2, <1>3, <1>7, <2>2, <2>3, ProceedInv
<1>8. CASE stored' = stored /\ Proceed(h, put[h].unsaved, put[h].saved)
  <2>1. Elsewhere(put[h])
    BY <1>1, <1>8 DEF Elsewhere
  <2>2. ASSUME NEW r, r.patch = put[h].patch, r.todo = put[h].todo \ {First(h)},
               r.unsaved = put[h].unsaved, r.saved = put[h].saved
        PROVE  Undisturbed(r, live', mirror', stored', raced, doubtful)
    BY <1>1, <1>4, <1>5, <1>8, <2>2 DEF Undisturbed
  <2> QED BY <1>2, <1>3, <1>8, <2>1, <2>2, ProceedInv
<1> QED BY <1>7, <1>8 DEF Persist

LEMMA SettingsStepInv ==
  ASSUME SettingsInv, ConfigNext
  PROVE  SettingsInv'
<1>1. ConfigTypes'
  BY ConfigStepTypes DEF SettingsInv
<1> QED BY <1>1, PutSettings, RefuseInv, MirrorInv, ApplyInv, PersistInv DEF ConfigNext

\* What a restart cannot read is in doubt.
LEMMA RestoreInv ==
  ASSUME SettingsInv, NEW readable \in SUBSET Settings, Restore(readable), raced' = {},
         \A s \in Settings \ readable : stored[s] # Unset => s \in doubtful'
  PROVE  SettingsInv'
<1>1. /\ live' = Restored(readable) /\ mirror' = Restored(readable)["detection_enabled"]
      /\ put' = [h \in ConfigHandlers |-> Unset] /\ stored' = stored
  BY DEF Restore, RestoredMirror
<1>2. ConfigTypes'
  BY RestoreTypes DEF SettingsInv
<1>3. \A s \in Settings : live'[s] = IF s \in readable /\ stored[s] # Unset THEN stored[s] ELSE Defaults[s]
  BY <1>1 DEF Restored
<1>4. \A s \in Settings \ doubtful' : Matches(live', mirror', stored', s)
  BY <1>1, <1>3 DEF Matches
<1> QED BY <1>1, <1>2, <1>4 DEF SettingsInv, Matches

\* The lists' steps leave the settings alone, and the account of them.
LEMMA ListsAccount ==
  ASSUME ListsTypeOK, ListsNext
  PROVE  \A s : s \notin Items =>
           (s \in raced' <=> s \in raced) /\ (s \in doubtful' <=> s \in doubtful)
<1>1. ASSUME NEW h \in ListHandlers, NEW k \in Items, NEW e \in Comments \cup {Absent},
             Request(h, k, e)
      PROVE  \A s : s \notin Items =>
               (s \in raced' <=> s \in raced) /\ (s \in doubtful' <=> s \in doubtful)
  BY <1>1, OtherItems DEF Request
<1>2. ASSUME NEW h \in ListHandlers, ChangeMemory(h)
      PROVE  UNCHANGED history
  BY <1>2 DEF ChangeMemory
<1>3. ASSUME NEW h \in ListHandlers, ChangeTable(h)
      PROVE  \A s : s \notin Items =>
               (s \in raced' <=> s \in raced) /\ (s \in doubtful' <=> s \in doubtful)
  <2>1. change[h].item \in Items
    BY <1>3 DEF ChangeTable, ListsTypeOK, ListRequest
  <2> QED BY <1>3, <2>1, OtherItems DEF ChangeTable
<1>4. ASSUME NEW learned \in SUBSET WhiteItems, LearningEnds(learned)
      PROVE  \A s : s \notin Items =>
               (s \in raced' <=> s \in raced) /\ (s \in doubtful' <=> s \in doubtful)
  BY <1>4, OtherItems DEF LearningEnds, Items
<1>5. ASSUME NEW k \in WhiteItems, SaveLearned(k)
      PROVE  \A s : s \notin Items =>
               (s \in raced' <=> s \in raced) /\ (s \in doubtful' <=> s \in doubtful)
  BY <1>5, OtherItems DEF SaveLearned, Items
<1> QED BY <1>1, <1>2, <1>3, <1>4, <1>5 DEF ListsNext, history

LEMMA SettingsInvKept ==
  ASSUME SettingsInv, UNCHANGED config,
         \A s \in Settings : (s \in raced' <=> s \in raced) /\ (s \in doubtful' <=> s \in doubtful)
  PROVE  SettingsInv'
<1>1. live' = live /\ mirror' = mirror /\ stored' = stored /\ put' = put
  BY DEF config
<1>2. \A h \in ConfigHandlers : put[h] # Unset => DOMAIN put[h].patch \subseteq Settings
  BY NextStep DEF SettingsInv
<1>3. ConfigTypes'
  BY <1>1 DEF SettingsInv, ConfigTypes, ConfigTypeOK
<1>4. \A h \in ConfigHandlers : put[h] # Unset =>
        Undisturbed(put[h], live, mirror, stored, raced', doubtful')
  <2> SUFFICES ASSUME NEW h \in ConfigHandlers, put[h] # Unset
               PROVE  Undisturbed(put[h], live, mirror, stored, raced', doubtful')
    OBVIOUS
  <2>1. Undisturbed(put[h], live, mirror, stored, raced, doubtful)
    BY DEF SettingsInv
  <2> QED BY <1>2, <2>1 DEF Undisturbed
<1>5. \A h, g \in ConfigHandlers : h # g /\ put[h] # Unset /\ put[g] # Unset =>
        DOMAIN put[h].patch \cap DOMAIN put[g].patch \subseteq raced'
  BY <1>2 DEF SettingsInv
<1>6. \A h \in ConfigHandlers : put'[h] # Unset =>
        Undisturbed(put'[h], live', mirror', stored', raced', doubtful')
  BY <1>1, <1>4
<1>7. \A s \in Settings \ doubtful' :
        (\A h \in ConfigHandlers : put'[h] = Unset \/ s \notin DOMAIN put'[h].patch)
          => Matches(live', mirror', stored', s)
  BY <1>1 DEF SettingsInv
<1> QED BY <1>1, <1>3, <1>5, <1>6, <1>7
           DEF SettingsInv, Undisturbed, Matches, ApplyDone, MirrorDone

LEMMA SettingsInvariant == Spec => []SettingsInv
<1>1. Init => SettingsInv
  <2> SUFFICES ASSUME Init
               PROVE  SettingsInv
    OBVIOUS
  <2>1. /\ live = Defaults /\ mirror = Defaults["detection_enabled"]
        /\ stored = [s \in Settings |-> Unset] /\ put = [h \in ConfigHandlers |-> Unset]
    BY DEF Init, ConfigInit
  <2> QED BY <2>1, ConfigTypesInit DEF SettingsInv, Matches
<1>2. SettingsInv /\ ListsInv /\ [Next]_vars => SettingsInv'
  <2> SUFFICES ASSUME SettingsInv, ListsInv, [Next]_vars
               PROVE  SettingsInv'
    OBVIOUS
  <2>1. CASE ListsNext /\ UNCHANGED config
    <3>1. \A s \in Settings : s \notin Items
      BY ItemsAssumption
    <3> QED BY <2>1, <3>1, ListsAccount, SettingsInvKept DEF ListsInv
  <2>2. CASE UNCHANGED <<history, config>>
    BY <2>2, SettingsInvKept DEF history
  <2> QED BY <2>1, <2>2, ConfigSteps, SettingsStepInv, RestoreInv
<1> QED BY <1>1, <1>2, ListsInvariant, PTL DEF Spec

\* What answered requests that came one after the other have set and stored is what a
\* restart restores, and what the responses tell.
THEOREM SettingsCorrect == Spec => []SettingsAgree
<1>1. SettingsInv => SettingsAgree
  BY DEF SettingsInv, SettingsAgree, Matches, Restored
<1> QED BY <1>1, SettingsInvariant, PTL

--------------------------------------------------------------------------------
(* Types. *)

LEMMA HistoryTypesInvariant == Spec => []HistoryTypes
<1>1. Init => HistoryTypes
  BY DEF Init, HistoryInit, HistoryTypes
<1>2. HistoryTypes /\ ListsInv /\ ConfigTypes /\ [Next]_vars => HistoryTypes'
  <2> SUFFICES ASSUME HistoryTypes, ListsInv, ConfigTypes, [Next]_vars
               PROVE  HistoryTypes'
    OBVIOUS
  <2>1. CASE ConfigNext
    BY <2>1, ConfigAccount DEF HistoryTypes
  <2>2. CASE ListsNext
    BY <2>2, ListsAccount DEF HistoryTypes, ListsInv
  <2>3. CASE Restart
    BY <2>3 DEF Restart, Reloaded, HistoryTypes
  <2>4. CASE UNCHANGED history
    BY <2>4 DEF history, HistoryTypes
  <2>5. ConfigNext \/ ListsNext \/ Restart \/ UNCHANGED history
    BY DEF Next, vars, ListsStep, ConfigStep, AuthStep, RetentionStep, StatsStep, SchemaStep, Time
  <2> QED BY <2>1, <2>2, <2>3, <2>4, <2>5
<1> QED BY <1>1, <1>2, ListsInvariant, ConfigTypesInvariant, PTL DEF Spec

\* The variables keep their types.
THEOREM TypeCorrect == Spec => []TypeOK
<1>1. ListsInv /\ ConfigTypes /\ AuthInv /\ RetentionInv /\ StatsInv /\ SchemaInv /\ HistoryTypes
        => TypeOK
  BY DEF ListsInv, ConfigTypes, AuthInv, RetentionInv, StatsInv, SchemaInv, HistoryTypes, TypeOK
<1> QED BY <1>1, ListsInvariant, ConfigTypesInvariant, AuthInvariant, RetentionInvariant,
           StatsInvariant, SchemaInvariant, HistoryTypesInvariant, PTL
================================================================================
