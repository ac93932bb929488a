-------------------------- MODULE DetectionRulesProofs --------------------------
(***************************************************************************)
(* Proofs about the detection rules, for every set of keys, access points, *)
(* devices and configurations, every threshold, window and timeout, and    *)
(* every order of frames.  The rules share the frames alone, so each has   *)
(* an invariant of its own over the state that it remembers and what was   *)
(* on the air.  The parser keeps nothing from one packet to the next: what *)
(* is proved of it is that elements written one after the other are found  *)
(* again, as many as were received.                                        *)
(***************************************************************************)
EXTENDS DetectionRules, FiniteSetTheorems, WellFoundedInduction, TLAPS

\* Time goes on, and only at a frame.
LEMMA Clock ==
  ASSUME now \in Times, [Next]_vars
  PROVE  /\ now \in Nat /\ now' \in Times /\ now' \in Nat /\ now <= now'
         /\ registered' = registered
<1>1. Times \subseteq Nat
  BY FramesAssumption DEF Times
<1>2. CASE now' = now
  BY <1>1, <1>2 DEF Next, vars, Deauth, Beacon, ProbeResponse, Access, ProbeRequest, Capture,
        OnlyDevice
<1>3. CASE \E t \in Times : FrameAt(t) /\ registered' = registered
  BY <1>1, <1>3 DEF FrameAt
<1> QED
  BY <1>2, <1>3 DEF Next, vars, Deauth, Beacon, ProbeResponse, Access, ProbeRequest, Capture,
     OnlyDevice

\* A step of the flood rules is a frame of a key or leaves what they remember alone.
LEMMA FloodMoves ==
  ASSUME [Next]_vars
  PROVE  \/ \E k \in FloodKeys : FloodProcess(k, now')
         \/ UNCHANGED <<tracker, floodCalls, heard>> /\ floodEvent' \in {None, floodEvent}
<1>1. CASE \E k \in FloodKeys, t \in Times : Deauth(k, t)
  BY <1>1 DEF Deauth, FrameAt, IfRegistered, floodVars
<1>2. CASE ~\E k \in FloodKeys, t \in Times : Deauth(k, t)
  BY <1>2 DEF Next, vars, Beacon, ProbeResponse, Access, ProbeRequest, Capture, OnlyDevice,
     IfRegistered, FloodIgnore, floodVars
<1> QED
  BY <1>1, <1>2

\* A set of natural numbers that is not empty has a least one.
LEMMA Least ==
  ASSUME NEW S \in SUBSET Nat, S # {}
  PROVE  Min(S) \in S /\ \A y \in S : Min(S) <= y
<1> DEFINE R == {p \in Nat \X Nat : p[1] < p[2]}
<1>1. IsWellFoundedOn(R, Nat)
  BY NatLessThanWellFounded DEF OpToRel
<1> HIDE DEF R
<1>2. S \subseteq Nat
  OBVIOUS
<1>3. \E x \in S : \A y \in S : ~(<<y, x>> \in R)
  BY <1>1, <1>2, WFMin
<1>4. PICK x \in S : \A y \in S : ~(<<y, x>> \in R)
  BY <1>3
<1>5. ASSUME NEW y \in S PROVE x <= y
  <2>1. x \in Nat /\ y \in Nat
    BY <1>2
  <2>2. y < x => <<y, x>> \in R
    BY <2>1 DEF R
  <2> QED
    BY <1>4, <2>1, <2>2
<1> QED
  BY <1>5 DEF Min

--------------------------------------------------------------------------------
(* The flood rules. *)

\* q is the end of h, and what h has before it lies before bound.
Ends(q, h, bound) ==
  /\ Len(q) <= Len(h)
  /\ \A i \in 1..Len(q) : q[i] = h[Len(h) - Len(q) + i]
  /\ \A i \in 1..(Len(h) - Len(q)) : h[i] < bound

\* The frames were heard in order; a key that is forgotten was last heard before the
\* window; one that is not has in its timestamps all that a window can still reach.
Recalled(k) ==
  /\ \A i, j \in DOMAIN heard[k] : i <= j => heard[k][i] <= heard[k][j]
  /\ \A i \in DOMAIN heard[k] : heard[k][i] <= now
  /\ tracker[k] = None => \A i \in DOMAIN heard[k] : heard[k][i] < now - FloodWindow
  /\ tracker[k] # None =>
       /\ tracker[k].lastSeen <= now
       /\ \A i \in DOMAIN heard[k] : heard[k][i] <= tracker[k].lastSeen
       /\ Ends(tracker[k].timestamps, heard[k], tracker[k].lastSeen - FloodWindow)

FloodInv == FloodTypeOK /\ \A k \in FloodKeys : Recalled(k)

\* Times are numbers.
LEMMA TimesNat == Times \subseteq Nat
BY FramesAssumption DEF Times

\* The last m of n places.
LEMMA LastPlaces ==
  ASSUME NEW n \in Nat, NEW m \in Nat, m <= n
  PROVE  IsFiniteSet((n - m + 1)..n) /\ Cardinality((n - m + 1)..n) = m
<1>1. PICK a \in Int : a = n - m + 1
  OBVIOUS
<1>2. IsFiniteSet(a..n) /\ Cardinality(a..n) = IF a > n THEN 0 ELSE n - a + 1
  <2>1. n \in Int
    OBVIOUS
  <2> QED
    BY <2>1, FS_Interval
<1>3. Cardinality(a..n) = m
  BY <1>1, <1>2
<1> QED
  BY <1>1, <1>2, <1>3

\* Numbers of the flood rules; a key is forgotten after more than a window.
LEMMA FloodNumbers ==
  /\ FloodThreshold \in Nat \ {0} /\ FloodWindow \in Nat \ {0} /\ FloodMaxAge \in Nat \ {0}
  /\ \A a, b \in Nat : a - b > FloodMaxAge * FloodWindow => b < a - FloodWindow
<1>1. FloodThreshold \in Nat \ {0} /\ FloodWindow \in Nat \ {0} /\ FloodMaxAge \in Nat \ {0}
  BY FloodAssumption
<1>2. ASSUME NEW x \in Nat \ {0}, NEW y \in Nat \ {0} PROVE x * y \in Nat /\ x * y >= y
  <2>1. x - 1 \in Nat /\ x * y = (x - 1) * y + y
    BY <1>2
  <2>2. (x - 1) * y \in Nat
    BY <2>1
  <2> QED
    BY <2>1, <2>2
<1>3. FloodMaxAge * FloodWindow \in Nat /\ FloodMaxAge * FloodWindow >= FloodWindow
  BY <1>1, <1>2
<1> QED
  BY <1>1, <1>3

\* No more of h lies in the window than q is long, when the rest of h is too old.
LEMMA CountAtMost ==
  ASSUME NEW h \in Seq(Times), NEW q \in Seq(Times), NEW t \in Nat, NEW bound \in Int,
         Ends(q, h, bound), bound <= t - FloodWindow
  PROVE  CountIn(h, t) <= Len(q)
<1> DEFINE C == {i \in DOMAIN h : h[i] >= t - FloodWindow}
           I == (Len(h) - Len(q) + 1)..Len(h)
<1>1. Len(h) \in Nat /\ Len(q) \in Nat /\ Len(q) <= Len(h) /\ DOMAIN h = 1..Len(h)
  BY DEF Ends
<1>2. \A i \in 1..Len(h) : h[i] \in Nat
  <2>1. \A i \in 1..Len(h) : h[i] \in Times
    OBVIOUS
  <2> QED
    BY <2>1, TimesNat
<1>3. ASSUME NEW i \in C PROVE i \in I
  <2>1. i \in 1..Len(h) /\ h[i] >= t - FloodWindow /\ h[i] \in Nat
    BY <1>1, <1>2
  <2>2. ~(i \in 1..(Len(h) - Len(q)))
    BY <2>1, FloodNumbers DEF Ends
  <2> QED
    BY <1>1, <2>1, <2>2
<1>4. C \in SUBSET I
  BY <1>3
<1>5. IsFiniteSet(I) /\ Cardinality(I) = Len(q)
  BY <1>1, LastPlaces
<1> HIDE DEF C, I
<1>6. Cardinality(C) <= Len(q)
  BY <1>4, <1>5, FS_Subset
<1> QED
  BY <1>6 DEF CountIn, C

\* Nor less, when all of q is in it.
LEMMA CountAtLeast ==
  ASSUME NEW h \in Seq(Times), NEW q \in Seq(Times), NEW t \in Nat, NEW bound \in Int,
         Ends(q, h, bound), \A i \in 1..Len(q) : q[i] >= t - FloodWindow
  PROVE  CountIn(h, t) >= Len(q)
<1> DEFINE C == {i \in DOMAIN h : h[i] >= t - FloodWindow}
           I == (Len(h) - Len(q) + 1)..Len(h)
<1>1. Len(h) \in Nat /\ Len(q) \in Nat /\ Len(q) <= Len(h) /\ DOMAIN h = 1..Len(h)
  BY DEF Ends
<1>2. ASSUME NEW i \in I PROVE i \in C
  <2>1. i \in 1..Len(h) /\ i - (Len(h) - Len(q)) \in 1..Len(q)
    BY <1>1
  <2>2. Len(h) - Len(q) + (i - (Len(h) - Len(q))) = i
    BY <1>1, <2>1
  <2>3. q[i - (Len(h) - Len(q))] = h[i]
    BY <2>1, <2>2 DEF Ends
  <2> QED
    BY <1>1, <2>1, <2>3
<1>3. IsFiniteSet(I) /\ Cardinality(I) = Len(q)
  BY <1>1, LastPlaces
<1>4. IsFiniteSet(C)
  <2>1. C \in SUBSET (1..Len(h)) /\ IsFiniteSet(1..Len(h))
    BY <1>1, FS_Interval
  <2> QED
    BY <2>1, FS_Subset
<1>5. I \in SUBSET C
  BY <1>2
<1> HIDE DEF C, I
<1>6. Cardinality(I) <= Cardinality(C)
  BY <1>4, <1>5, FS_Subset
<1> QED
  BY <1>3, <1>6 DEF CountIn, C

\* A frame more for both.
LEMMA AppendEnds ==
  ASSUME NEW h \in Seq(Times), NEW q \in Seq(Times), NEW t \in Times, NEW bound \in Int,
         Ends(q, h, bound)
  PROVE  Ends(Append(q, t), Append(h, t), bound)
<1>1. /\ Len(h) \in Nat /\ Len(q) \in Nat /\ Len(q) <= Len(h)
      /\ Len(Append(h, t)) = Len(h) + 1 /\ Len(Append(q, t)) = Len(q) + 1
      /\ \A i \in 1..Len(h) : Append(h, t)[i] = h[i]
      /\ \A i \in 1..Len(q) : Append(q, t)[i] = q[i]
      /\ Append(h, t)[Len(h) + 1] = t /\ Append(q, t)[Len(q) + 1] = t
  BY DEF Ends
<1>2. ASSUME NEW i \in 1..(Len(q) + 1)
      PROVE  Append(q, t)[i] = Append(h, t)[Len(h) - Len(q) + i]
  <2>1. CASE i = Len(q) + 1
    BY <1>1, <2>1
  <2>2. CASE i \in 1..Len(q)
    BY <1>1, <2>2 DEF Ends
  <2> QED
    BY <1>1, <2>1, <2>2
<1>3. \A i \in 1..(Len(h) - Len(q)) : Append(h, t)[i] < bound
  BY <1>1 DEF Ends
<1>4. Len(Append(h, t)) - Len(Append(q, t)) = Len(h) - Len(q)
  BY <1>1
<1>5. Len(Append(q, t)) <= Len(Append(h, t))
  BY <1>1
<1> QED
  BY <1>1, <1>2, <1>3, <1>4, <1>5 DEF Ends

\* Pruning to the window keeps the end that lies in it.
LEMMA WindowEnds ==
  ASSUME NEW h \in Seq(Times), NEW a \in Seq(Times), NEW t \in Nat,
         Ends(a, h, t - FloodWindow), a # << >>, a[Len(a)] >= t - FloodWindow,
         NEW recent, recent = InWindow(a, t)
  PROVE  /\ recent \in Seq(Times) /\ recent # << >> /\ Len(recent) <= Len(a)
         /\ recent[1] >= t - FloodWindow
         /\ Len(recent) = Len(a) => recent = a
         /\ Ends(recent, h, t - FloodWindow)
<1> DEFINE fresh == {i \in DOMAIN a : a[i] >= t - FloodWindow}
<1>1. /\ Len(a) \in Nat /\ Len(h) \in Nat /\ Len(a) <= Len(h)
      /\ DOMAIN a = 1..Len(a) /\ Len(a) \in DOMAIN a
  BY DEF Ends
<1>2. fresh \in SUBSET Nat /\ Len(a) \in fresh
  BY <1>1
<1> HIDE DEF fresh
<1>3. PICK m : m = Min(fresh)
  OBVIOUS
<1>4. m \in fresh /\ \A i \in fresh : m <= i
  BY <1>2, <1>3, Least
<1>5. m \in 1..Len(a) /\ a[m] >= t - FloodWindow
  BY <1>1, <1>4 DEF fresh
<1>6. ASSUME NEW i \in 1..(m - 1) PROVE a[i] < t - FloodWindow
  <2>1. i \in DOMAIN a /\ ~(m <= i)
    BY <1>1, <1>5
  <2>2. ~(a[i] >= t - FloodWindow)
    BY <1>4, <2>1 DEF fresh
  <2>3. a[i] \in Nat
    <3>1. a[i] \in Times
      BY <1>1, <2>1
    <3> QED
      BY <3>1, TimesNat
  <2> QED
    BY <2>2, <2>3, FloodNumbers
<1>7. recent = SubSeq(a, m, Len(a))
  BY <1>3 DEF InWindow, Onward, fresh
<1>9. /\ recent \in Seq(Times) /\ Len(recent) = Len(a) - m + 1
      /\ \A i \in 1..Len(recent) : recent[i] = a[m - 1 + i]
  <2>1. recent = [i \in 1..(Len(a) - m + 1) |-> a[i + m - 1]]
    BY <1>1, <1>5, <1>7
  <2>2. Len(a) - m + 1 \in Nat
    BY <1>1, <1>5
  <2>3. \A i \in 1..(Len(a) - m + 1) : i + m - 1 \in 1..Len(a) /\ i + m - 1 = m - 1 + i
    BY <1>1, <1>5
  <2>4. \A i \in 1..(Len(a) - m + 1) : a[i + m - 1] \in Times
    BY <2>3
  <2>5. recent \in Seq(Times) /\ Len(recent) = Len(a) - m + 1
    BY <2>1, <2>2, <2>4
  <2> QED
    BY <2>1, <2>3, <2>5
<1>10. /\ Len(recent) \in Nat /\ Len(recent) <= Len(a) /\ 1 \in 1..Len(recent)
       /\ Len(h) - Len(recent) = Len(h) - Len(a) + (m - 1)
  BY <1>1, <1>5, <1>9
<1>11. recent # << >> /\ recent[1] >= t - FloodWindow
  <2>1. recent[1] = a[m]
    <3>1. m - 1 + 1 = m
      BY <1>5
    <3> QED
      BY <1>9, <1>10, <3>1
  <2> QED
    BY <1>5, <1>10, <2>1
<1>12. ASSUME Len(recent) = Len(a) PROVE recent = a
  <2>1. m = 1
    BY <1>1, <1>5, <1>9, <1>12
  <2> QED
    BY <1>1, <1>7, <2>1
<1>13. ASSUME NEW i \in 1..Len(recent) PROVE recent[i] = h[Len(h) - Len(recent) + i]
  <2>1. m - 1 + i \in 1..Len(a)
    BY <1>1, <1>5, <1>9
  <2>2. Len(h) - Len(recent) + i = Len(h) - Len(a) + (m - 1 + i)
    BY <1>1, <1>5, <1>9
  <2>3. a[m - 1 + i] = h[Len(h) - Len(a) + (m - 1 + i)]
    BY <2>1 DEF Ends
  <2> QED
    BY <1>9, <2>2, <2>3
<1>14. ASSUME NEW i \in 1..(Len(h) - Len(recent)) PROVE h[i] < t - FloodWindow
  <2>1. CASE i \in 1..(Len(h) - Len(a))
    BY <2>1 DEF Ends
  <2>2. CASE i \notin 1..(Len(h) - Len(a))
    <3>1. PICK j \in Int : j = i - (Len(h) - Len(a))
      <4>1. i \in Int /\ i - (Len(h) - Len(a)) \in Int
        BY <1>1, <1>10
      <4> QED
        BY <4>1
    <3>2. j \in 1..(m - 1) /\ j \in 1..Len(a) /\ Len(h) - Len(a) + j = i
      <4>a. PICK la \in Nat : la = Len(a)
        BY <1>1, Zenon
      <4>b. PICK lh \in Nat : lh = Len(h)
        BY <1>1, Zenon
      <4>c. PICK lr \in Nat : lr = Len(recent)
        BY <1>10, Zenon
      <4>1. la = Len(a) /\ lh = Len(h) /\ lr = Len(recent)
        BY <4>a, <4>b, <4>c
      <4>2. m \in Nat /\ m <= la /\ lh - lr = lh - la + (m - 1)
        BY <1>1, <1>5, <1>10, <4>1
      <4>3. i \in Int /\ 1 <= i /\ i <= lh - lr /\ i \notin 1..(lh - la)
        BY <1>14, <2>2, <4>1
      <4>4. j \in Int /\ j = i - (lh - la)
        BY <3>1, <4>1
      <4>5. j \in 1..(m - 1) /\ j \in 1..la /\ lh - la + j = i
        BY <4>2, <4>3, <4>4
      <4> QED
        BY <4>1, <4>5
    <3>3. a[j] = h[i]
      BY <3>2 DEF Ends
    <3> QED
      BY <1>6, <3>2, <3>3
  <2> QED
    BY <2>1, <2>2
<1>15. Ends(recent, h, t - FloodWindow)
  BY <1>1, <1>10, <1>13, <1>14 DEF Ends
<1> QED
  BY <1>9, <1>10, <1>11, <1>12, <1>15

\* What the end of h is does not change when the bound moves on.
LEMMA EndsLater ==
  ASSUME NEW h \in Seq(Times), NEW q \in Seq(Times), NEW b \in Int, NEW c \in Int,
         Ends(q, h, b), b <= c
  PROVE  Ends(q, h, c)
<1>1. Len(h) \in Nat /\ Len(q) \in Nat /\ Len(q) <= Len(h)
  BY DEF Ends
<1>2. ASSUME NEW i \in 1..(Len(h) - Len(q)) PROVE h[i] < c
  <2>1. i \in 1..Len(h) /\ h[i] < b
    BY <1>1 DEF Ends
  <2>2. h[i] \in Times
    BY <2>1
  <2>3. h[i] \in Nat
    BY <2>2, TimesNat
  <2> QED
    BY <2>1, <2>3
<1> QED
  BY <1>1, <1>2 DEF Ends

\* The types of what is remembered of a key.
LEMMA FloodTypes ==
  ASSUME FloodTypeOK, NEW k \in FloodKeys
  PROVE  /\ heard[k] \in Seq(Times)
         /\ \A i \in DOMAIN heard[k] : heard[k][i] \in Times /\ heard[k][i] \in Nat
         /\ tracker[k] # None =>
              /\ tracker[k] \in Tracker
              /\ tracker[k].timestamps \in Seq(Times) /\ tracker[k].lastSeen \in Times
              /\ tracker[k].lastSeen \in Nat
              /\ Len(tracker[k].timestamps) \in Nat
              /\ Len(tracker[k].timestamps) < FloodThreshold
<1>1. heard[k] \in Seq(Times) /\ tracker[k] \in Tracker \cup {None}
  BY DEF FloodTypeOK
<1>2. \A i \in DOMAIN heard[k] : heard[k][i] \in Times
  BY <1>1
<1>3. ASSUME tracker[k] # None
      PROVE  /\ tracker[k] \in Tracker
             /\ tracker[k].timestamps \in Seq(Times) /\ tracker[k].lastSeen \in Times
             /\ Len(tracker[k].timestamps) < FloodThreshold
  BY <1>1, <1>3 DEF FloodTypeOK, Tracker
<1>4. ASSUME tracker[k] # None PROVE Len(tracker[k].timestamps) \in Nat
  BY <1>3, <1>4
<1> QED
  BY <1>1, <1>2, <1>3, <1>4, TimesNat

\* A cleanup keeps a key's tracker or forgets a key that no window can reach.
LEMMA KeptRecalls ==
  ASSUME FloodTypeOK, NEW k \in FloodKeys, Recalled(k), now \in Nat,
         NEW t \in Nat, now <= t
  PROVE  /\ Kept(t)[k] \in {None, tracker[k]}
         /\ Kept(t)[k] = None => \A i \in DOMAIN heard[k] : heard[k][i] < t - FloodWindow
<1>1. Kept(t)[k] \in {None, tracker[k]}
  BY DEF Kept
<1>2. ASSUME Kept(t)[k] = None, NEW i \in DOMAIN heard[k]
      PROVE  heard[k][i] < t - FloodWindow
  <2>1. heard[k][i] \in Nat
    BY FloodTypes
  <2>2. CASE tracker[k] = None
    <3>1. heard[k][i] < now - FloodWindow
      BY <2>2 DEF Recalled
    <3> QED
      BY <2>1, <3>1, FloodNumbers
  <2>3. CASE tracker[k] # None
    <3>1. t - tracker[k].lastSeen > FloodMaxAge * FloodWindow
      BY <1>2, <2>3 DEF Kept, FloodStale
    <3>2. tracker[k].lastSeen \in Nat
      BY <2>3, FloodTypes
    <3>3. tracker[k].lastSeen < t - FloodWindow
      BY <3>1, <3>2, FloodNumbers
    <3>4. heard[k][i] <= tracker[k].lastSeen
      BY <2>3 DEF Recalled
    <3> QED
      BY <2>1, <3>2, <3>3, <3>4, FloodNumbers
  <2> QED
    BY <2>2, <2>3
<1> QED
  BY <1>1, <1>2

\* A count is a number.
LEMMA CountType ==
  ASSUME NEW h \in Seq(Times), NEW t
  PROVE  CountIn(h, t) \in Nat
<1>1. Len(h) \in Nat /\ DOMAIN h = 1..Len(h)
  OBVIOUS
<1>2. {i \in DOMAIN h : h[i] >= t - FloodWindow} \in SUBSET (1..Len(h))
  BY <1>1
<1>3. IsFiniteSet(1..Len(h))
  <2>1. 1 \in Int /\ Len(h) \in Int
    BY <1>1
  <2> QED
    BY <2>1, FS_Interval
<1>4. IsFiniteSet({i \in DOMAIN h : h[i] >= t - FloodWindow})
  BY <1>2, <1>3, FS_Subset
<1> QED
  BY <1>4, FS_CardinalityType DEF CountIn

\* The timestamps of a key with the frame at hand: the end of what was heard of it
\* that lies in the window, never more than the threshold although the cap is twice
\* that; and when they reach it, the window held one frame less before.
LEMMA TrackedRecalls ==
  ASSUME FloodTypeOK, NEW k \in FloodKeys, Recalled(k), now \in Nat,
         NEW t \in Times, now <= t, NEW recent, recent = Tracked(k, t)
  PROVE  /\ recent \in Seq(Times) /\ recent # << >> /\ Len(recent) <= FloodThreshold
         /\ recent[1] >= t - FloodWindow
         /\ Ends(recent, Append(heard[k], t), t - FloodWindow)
         /\ Len(recent) = FloodThreshold => CountIn(heard[k], t) = FloodThreshold - 1
<1> DEFINE tr == Kept(t)[k]
<1>1. PICK old : old = IF tr = None THEN << >> ELSE tr.timestamps
  OBVIOUS
<1>2. t \in Nat /\ heard[k] \in Seq(Times) /\ t - FloodWindow \in Int
  BY FloodTypes, TimesNat, FloodNumbers
<1>3. tr \in {None, tracker[k]}
  BY <1>2, KeptRecalls
<1>4. old \in Seq(Times) /\ Len(old) \in Nat /\ Len(old) < FloodThreshold
      /\ Ends(old, heard[k], t - FloodWindow)
  <2>1. CASE tr = None
    <3>1. old = << >> /\ Len(old) = 0
      BY <1>1, <2>1
    <3>2. \A i \in DOMAIN heard[k] : heard[k][i] < t - FloodWindow
      BY <1>2, <2>1, KeptRecalls
    <3>3. Len(heard[k]) \in Nat /\ DOMAIN heard[k] = 1..Len(heard[k])
      BY <1>2
    <3>4. \A i \in 1..(Len(heard[k]) - Len(old)) : heard[k][i] < t - FloodWindow
      BY <3>1, <3>2, <3>3
    <3>5. Ends(old, heard[k], t - FloodWindow)
      BY <3>1, <3>3, <3>4 DEF Ends
    <3> QED
      BY <3>1, <3>5, FloodNumbers
  <2>2. CASE tr # None
    <3>1. old = tracker[k].timestamps /\ tracker[k] # None
      BY <1>1, <1>3, <2>2
    <3>2. /\ old \in Seq(Times) /\ Len(old) \in Nat /\ Len(old) < FloodThreshold
          /\ tracker[k].lastSeen \in Nat
      BY <3>1, FloodTypes
    <3>3. /\ Ends(old, heard[k], tracker[k].lastSeen - FloodWindow)
          /\ tracker[k].lastSeen <= now
      BY <3>1 DEF Recalled
    <3>6. PICK l \in Nat : l = tracker[k].lastSeen
      BY <3>2
    <3>7. l <= now
      BY <3>3, <3>6
    <3>8. l - FloodWindow \in Int /\ l - FloodWindow <= t - FloodWindow
      BY <1>2, <3>7, FloodNumbers
    <3>4. /\ tracker[k].lastSeen - FloodWindow \in Int
          /\ tracker[k].lastSeen - FloodWindow <= t - FloodWindow
      BY <3>6, <3>8, Zenon
    <3>5. Ends(old, heard[k], t - FloodWindow)
      BY <1>2, <3>2, <3>3, <3>4, EndsLater
    <3> QED
      BY <3>2, <3>5
  <2> QED
    BY <2>1, <2>2
<1>5. PICK a : a = Append(old, t)
  OBVIOUS
<1>6. /\ a \in Seq(Times) /\ Len(a) = Len(old) + 1 /\ a # << >> /\ a[Len(a)] = t
      /\ \A i \in 1..Len(old) : a[i] = old[i]
  BY <1>4, <1>5
<1>7. Len(a) \in Nat /\ Len(a) <= FloodThreshold /\ Len(a) <= 2 * FloodThreshold
  <2>1. FloodThreshold \in Nat
    BY FloodNumbers
  <2> QED
    BY <1>4, <1>6, <2>1
<1>8. LastN(a, 2 * FloodThreshold) = a
  BY <1>7 DEF LastN
<1>9. Tracked(k, t) = InWindow(a, t)
  BY <1>1, <1>5, <1>8 DEF Tracked
<1>10. Ends(a, Append(heard[k], t), t - FloodWindow)
  BY <1>2, <1>4, <1>5, AppendEnds
<1>11. a[Len(a)] >= t - FloodWindow /\ Append(heard[k], t) \in Seq(Times)
  BY <1>2, <1>6, FloodNumbers
<1> HIDE DEF tr
<1>12. recent = InWindow(a, t)
  BY <1>9
<1>13. /\ recent \in Seq(Times) /\ recent # << >> /\ Len(recent) <= Len(a)
       /\ recent[1] >= t - FloodWindow
       /\ Len(recent) = Len(a) => recent = a
       /\ Ends(recent, Append(heard[k], t), t - FloodWindow)
  <2>1. PICK h : h = Append(heard[k], t)
    OBVIOUS
  <2>2. h \in Seq(Times) /\ Ends(a, h, t - FloodWindow)
    BY <1>10, <1>11, <2>1
  <2>3. /\ recent \in Seq(Times) /\ recent # << >> /\ Len(recent) <= Len(a)
        /\ recent[1] >= t - FloodWindow
        /\ Len(recent) = Len(a) => recent = a
        /\ Ends(recent, h, t - FloodWindow)
    BY <1>2, <1>6, <1>11, <1>12, <2>2, WindowEnds
  <2> QED
    BY <2>1, <2>3
<1>14. Len(recent) \in Nat /\ Len(recent) <= FloodThreshold
  BY <1>7, <1>13, FloodNumbers
<1>15. ASSUME Len(recent) = FloodThreshold
       PROVE  CountIn(heard[k], t) = FloodThreshold - 1
  <2>1. recent = a /\ Len(old) = FloodThreshold - 1
    BY <1>4, <1>6, <1>7, <1>13, <1>14, <1>15, FloodNumbers
  <2>2. ASSUME NEW i \in 1..Len(old) PROVE old[i] >= t - FloodWindow
    <3>1. PICK d \in Nat : d = Len(heard[k]) - Len(old)
      <4>1. Len(heard[k]) \in Nat /\ Len(old) <= Len(heard[k])
        BY <1>2, <1>4 DEF Ends
      <4>2. Len(heard[k]) - Len(old) \in Nat
        BY <1>4, <4>1
      <4> QED
        BY <4>2
    <3>2. Len(heard[k]) \in Nat /\ DOMAIN heard[k] = 1..Len(heard[k]) /\ 1 \in 1..Len(old)
      BY <1>2, <1>4, <2>2
    <3>3. old[1] = heard[k][d + 1] /\ old[i] = heard[k][d + i]
      BY <1>4, <3>1, <3>2, <2>2 DEF Ends
    <3>4. d + 1 \in DOMAIN heard[k] /\ d + i \in DOMAIN heard[k] /\ d + 1 <= d + i
      BY <1>4, <3>1, <3>2, <2>2
    <3>5. old[1] <= old[i]
      BY <3>3, <3>4 DEF Recalled
    <3>6. old[1] >= t - FloodWindow
      BY <1>6, <1>13, <2>1, <3>2
    <3>7. old[1] \in Nat /\ old[i] \in Nat
      BY <3>3, <3>4, FloodTypes
    <3> QED
      BY <1>2, <3>5, <3>6, <3>7
  <2>3. CountIn(heard[k], t) >= Len(old)
    BY <1>2, <1>4, <2>2, CountAtLeast
  <2>4. CountIn(heard[k], t) <= Len(old) /\ CountIn(heard[k], t) \in Nat
    <3>1. PICK b \in Int : b = t - FloodWindow
      BY <1>2
    <3>2. Ends(old, heard[k], b) /\ b <= t - FloodWindow
      BY <1>4, <3>1
    <3> QED
      BY <1>2, <1>4, <3>2, CountAtMost, CountType
  <2> QED
    BY <1>4, <2>1, <2>3, <2>4, FloodNumbers
<1> QED
  BY <1>13, <1>14, <1>15

\* The count of calls stays below the interval.
LEMMA CallsType ==
  ASSUME NEW calls \in 0..(CleanupInterval - 1)
  PROVE  NextCall(calls) \in 0..(CleanupInterval - 1)
<1>1. CleanupInterval \in Nat \ {0} /\ calls + 1 \in Nat
  BY FramesAssumption
<1> QED
  BY <1>1 DEF NextCall

\* A key of which no frame came is remembered as well, however much later.
LEMMA StillRecalled ==
  ASSUME FloodTypeOK, NEW k \in FloodKeys, Recalled(k), now \in Nat, now' \in Nat,
         now <= now', heard'[k] = heard[k],
         tracker'[k] = tracker[k] \/ tracker'[k] = Kept(now')[k]
  PROVE  Recalled(k)'
<1>1. \A i \in DOMAIN heard[k] : heard[k][i] \in Nat /\ heard[k][i] <= now'
  <2>1. \A i \in DOMAIN heard[k] : heard[k][i] \in Nat /\ heard[k][i] <= now
    BY FloodTypes DEF Recalled
  <2> QED
    BY <2>1
<1>2. tracker'[k] \in {None, tracker[k]}
  BY KeptRecalls
<1>3. ASSUME tracker'[k] = None
      PROVE  \A i \in DOMAIN heard[k] : heard[k][i] < now' - FloodWindow
  <2>1. CASE tracker[k] = None
    <3>1. \A i \in DOMAIN heard[k] : heard[k][i] < now - FloodWindow
      BY <2>1 DEF Recalled
    <3> QED
      BY <1>1, <3>1, FloodNumbers
  <2>2. CASE tracker[k] # None
    BY <1>3, <2>2, KeptRecalls
  <2> QED
    BY <2>1, <2>2
<1>4. ASSUME tracker'[k] # None
      PROVE  /\ tracker[k].lastSeen <= now'
             /\ \A i \in DOMAIN heard[k] : heard[k][i] <= tracker[k].lastSeen
             /\ Ends(tracker[k].timestamps, heard[k], tracker[k].lastSeen - FloodWindow)
             /\ tracker'[k] = tracker[k]
  <2>1. tracker'[k] = tracker[k] /\ tracker[k] # None
    BY <1>2, <1>4
  <2>2. tracker[k].lastSeen <= now /\ tracker[k].lastSeen \in Nat
    BY <2>1, FloodTypes DEF Recalled
  <2>3. tracker[k].lastSeen <= now'
    BY <2>2
  <2> QED
    BY <2>1, <2>3 DEF Recalled
<1> QED
  BY <1>1, <1>3, <1>4 DEF Recalled

\* Nothing was heard of k yet since its last event.
LEMMA NothingHeard ==
  ASSUME NEW bound \in Int
  PROVE  Ends(<< >>, << >>, bound)
BY DEF Ends

\* A frame of k: its timestamps are the end of what was heard, or an event clears both.
LEMMA FloodProcessStep ==
  ASSUME FloodInv, now \in Nat, now' \in Times, now <= now',
         NEW k \in FloodKeys, FloodProcess(k, now')
  PROVE  /\ FloodInv'
         /\ floodEvent' # None =>
              floodEvent'.key = k /\ RealMetrics(floodEvent', heard[k], now')
<1> DEFINE t == now'
<1>1. PICK recent : recent = Tracked(k, t)
  OBVIOUS
<1>2. FloodTypeOK /\ Recalled(k) /\ t \in Nat
  BY TimesNat DEF FloodInv
<1>3. /\ recent \in Seq(Times) /\ recent # << >> /\ Len(recent) <= FloodThreshold
      /\ recent[1] >= t - FloodWindow
      /\ Ends(recent, Append(heard[k], t), t - FloodWindow)
      /\ Len(recent) = FloodThreshold => CountIn(heard[k], t) = FloodThreshold - 1
  BY <1>1, <1>2, TrackedRecalls
<1> DEFINE flood == Len(recent) >= FloodThreshold
<1>5. /\ Len(recent) \in Nat /\ (flood => Len(recent) = FloodThreshold)
      /\ ~flood => Len(recent) < FloodThreshold
  BY <1>3, FloodNumbers
<1>6. PICK q : q = IF flood THEN << >> ELSE recent
  OBVIOUS
<1>7. PICK h : h = IF flood THEN << >> ELSE Append(heard[k], t)
  OBVIOUS
<1>8. /\ floodCalls' = NextCall(floodCalls)
      /\ tracker' = [Kept(t) EXCEPT ![k] = [timestamps |-> q, lastSeen |-> t]]
      /\ floodEvent' = IF flood
           THEN [key |-> k, FrameCount |-> Len(recent), Duration |-> t - Head(recent)]
           ELSE None
      /\ heard' = [heard EXCEPT ![k] = h]
  BY <1>1, <1>6, <1>7 DEF FloodProcess, AfterEvent
<1> HIDE DEF t, flood
<1>9. t = now'
  BY DEF t
<1>10. heard[k] \in Seq(Times) /\ Append(heard[k], t) \in Seq(Times)
  BY <1>2, <1>9, FloodTypes
<1>11. q \in Seq(Times) /\ h \in Seq(Times) /\ Len(q) < FloodThreshold
  <2>1. CASE flood
    <3>1. q = << >> /\ h = << >> /\ Len(q) = 0
      BY <1>6, <1>7, <2>1
    <3> QED
      BY <3>1, FloodNumbers
  <2>2. CASE ~flood
    BY <1>3, <1>5, <1>6, <1>7, <1>10, <2>2
  <2> QED
    BY <2>1, <2>2
<1>12. Ends(q, h, t - FloodWindow)
  <2>1. CASE flood
    <3>1. t - FloodWindow \in Int
      BY <1>2, <1>9, FloodNumbers
    <3> QED
      BY <1>6, <1>7, <2>1, <3>1, NothingHeard
  <2>2. CASE ~flood
    BY <1>3, <1>6, <1>7, <2>2
  <2> QED
    BY <2>1, <2>2
<1>13. PICK g : g = Append(heard[k], t)
  OBVIOUS
<1>22. /\ \A i, j \in DOMAIN g : i <= j => g[i] <= g[j]
       /\ \A i \in DOMAIN g : g[i] <= t
  <2>1. PICK n \in Nat : n = Len(heard[k])
    BY <1>10
  <2>2. /\ DOMAIN heard[k] = 1..n /\ DOMAIN g = 1..(n + 1)
        /\ \A i \in 1..n : g[i] = heard[k][i]
        /\ g[n + 1] = t
    BY <1>10, <1>13, <2>1
  <2>3. \A i \in 1..n : g[i] \in Nat /\ g[i] <= now
    BY <1>2, <2>2, FloodTypes DEF Recalled
  <2>4. \A i \in 1..n : g[i] <= t
    BY <1>2, <1>9, <2>3
  <2>5. \A i \in 1..(n + 1) : i \in 1..n \/ i = n + 1
    OBVIOUS
  <2>6. \A i \in 1..(n + 1) : g[i] <= t
    BY <1>2, <1>9, <2>2, <2>4, <2>5
  <2>7. ASSUME NEW i \in 1..(n + 1), NEW j \in 1..(n + 1), i <= j PROVE g[i] <= g[j]
    <3>1. CASE j = n + 1
      BY <2>2, <2>6, <3>1
    <3>2. CASE j # n + 1
      <4>1. i \in 1..n /\ j \in 1..n
        BY <2>7, <3>2
      <4> QED
        BY <1>2, <2>2, <2>7, <4>1 DEF Recalled
    <3> QED
      BY <3>1, <3>2
  <2> QED
    BY <2>2, <2>6, <2>7
<1>23. /\ \A i, j \in DOMAIN h : i <= j => h[i] <= h[j]
       /\ \A i \in DOMAIN h : h[i] <= t
  <2>1. h = g \/ h = << >>
    BY <1>7, <1>13
  <2>2. DOMAIN << >> = {}
    OBVIOUS
  <2> QED
    BY <1>22, <2>1, <2>2
<1>14. [timestamps |-> q, lastSeen |-> t] \in Tracker
  BY <1>9, <1>11 DEF Tracker
<1>15. Kept(t) \in [FloodKeys -> Tracker \cup {None}]
  BY <1>2 DEF FloodTypeOK, Kept
<1>16. /\ tracker'[k] = [timestamps |-> q, lastSeen |-> t] /\ tracker'[k] # None
       /\ heard'[k] = h
       /\ \A j \in FloodKeys \ {k} : tracker'[j] = Kept(t)[j] /\ heard'[j] = heard[j]
  BY <1>2, <1>8, <1>14, <1>15, TrackerAssumption DEF FloodTypeOK
<1>17. Recalled(k)'
  <2>1. /\ tracker'[k].lastSeen = t /\ tracker'[k].timestamps = q
        /\ tracker'[k].lastSeen <= now'
    BY <1>2, <1>9, <1>16
  <2> QED
    BY <1>9, <1>12, <1>16, <1>23, <2>1 DEF Recalled
<1>18. ASSUME NEW j \in FloodKeys \ {k} PROVE Recalled(j)'
  BY <1>2, <1>9, <1>16, StillRecalled DEF FloodInv
<1>19. FloodTypeOK'
  <2>1. tracker' \in [FloodKeys -> Tracker \cup {None}]
    BY <1>8, <1>14, <1>15
  <2>2. ASSUME NEW j \in FloodKeys, tracker'[j] # None
        PROVE  Len(tracker'[j].timestamps) < FloodThreshold
    <3>1. CASE j = k
      BY <1>11, <1>16, <3>1
    <3>2. CASE j # k
      <4>1. tracker'[j] = tracker[j]
        BY <1>2, <1>9, <1>16, <2>2, <3>2, KeptRecalls DEF FloodInv
      <4> QED
        BY <1>2, <2>2, <4>1, FloodTypes
    <3> QED
      BY <3>1, <3>2
  <2>3. floodCalls' \in 0..(CleanupInterval - 1)
    BY <1>2, <1>8, CallsType DEF FloodTypeOK
  <2>4. heard' \in [FloodKeys -> Seq(Times)]
    BY <1>2, <1>8, <1>11 DEF FloodTypeOK
  <2>5. floodEvent' \in [key : FloodKeys, FrameCount : Nat, Duration : Times] \cup {None}
    <3>1. t - Head(recent) \in Times
      <4>1. recent[1] \in Times /\ Head(recent) = recent[1]
        BY <1>3
      <4>2. recent[1] <= t
        <5>1. /\ Len(g) \in Nat /\ DOMAIN g = 1..Len(g) /\ Len(recent) <= Len(g)
              /\ 1 \in 1..Len(recent)
          BY <1>3, <1>5, <1>10, <1>13 DEF Ends
        <5>2. Len(g) - Len(recent) + 1 \in DOMAIN g
          BY <1>5, <5>1
        <5>3. recent[1] = g[Len(g) - Len(recent) + 1]
          BY <1>3, <1>13, <5>1 DEF Ends
        <5> QED
          BY <1>22, <5>2, <5>3
      <4> QED
        BY <1>9, <4>1, <4>2, FramesAssumption DEF Times
    <3> QED
      BY <1>5, <1>8, <3>1
  <2> QED
    BY <2>1, <2>2, <2>3, <2>4, <2>5 DEF FloodTypeOK
<1>20. FloodInv'
  BY <1>17, <1>18, <1>19 DEF FloodInv
<1>21. ASSUME floodEvent' # None
       PROVE  floodEvent'.key = k /\ RealMetrics(floodEvent', heard[k], now')
  <2>1. /\ flood
        /\ floodEvent' = [key |-> k, FrameCount |-> Len(recent), Duration |-> t - Head(recent)]
    BY <1>8, <1>21
  <2>2. Head(recent) = recent[1] /\ recent[1] \in Times
    BY <1>3
  <2>3. recent[1] \in Nat
    BY <2>2, TimesNat
  <2>4. t - Head(recent) <= FloodWindow
    BY <1>2, <1>3, <1>9, <2>2, <2>3, FloodNumbers
  <2>5. ASSUME NEW i \in DOMAIN heard[k], heard[k][i] >= t - FloodWindow
        PROVE  t - heard[k][i] <= t - Head(recent)
    <3>1. PICK n \in Nat : n = Len(heard[k])
      BY <1>10
    <3>2. /\ Len(g) = n + 1 /\ DOMAIN g = 1..(n + 1) /\ i \in 1..n /\ g[i] = heard[k][i]
      BY <1>10, <1>13, <2>5, <3>1
    <3>3. PICK d \in Nat : d = Len(g) - Len(recent)
      <4>1. Len(recent) <= Len(g) /\ Len(g) \in Nat
        BY <1>3, <1>13, <3>2 DEF Ends
      <4>2. Len(g) - Len(recent) \in Nat
        BY <1>5, <4>1
      <4> QED
        BY <4>2
    <3>4. 1 \in 1..Len(recent)
      BY <1>3, <1>5
    <3>5. recent[1] = g[d + 1] /\ \A j \in 1..d : g[j] < t - FloodWindow
      BY <1>3, <1>13, <3>3, <3>4 DEF Ends
    <3>6. heard[k][i] \in Nat /\ t - FloodWindow \in Int
      BY <1>2, <1>9, FloodTypes, FloodNumbers
    <3>7. i \notin 1..d
      BY <2>5, <3>2, <3>5, <3>6
    <3>8. d + 1 \in DOMAIN g /\ i \in DOMAIN g /\ d + 1 <= i
      BY <1>5, <3>2, <3>3, <3>4, <3>7
    <3>9. recent[1] <= heard[k][i]
      BY <1>22, <3>2, <3>5, <3>8
    <3> QED
      BY <1>2, <1>9, <2>2, <2>3, <3>6, <3>9
  <2>6. /\ floodEvent'.FrameCount = Len(recent) /\ floodEvent'.Duration = t - Head(recent)
        /\ floodEvent'.key = k
    BY <2>1
  <2>7. Len(recent) >= FloodThreshold /\ Len(recent) = CountIn(heard[k], t) + 1
    BY <1>3, <1>5, <2>1, FloodNumbers DEF flood
  <2> QED
    BY <1>9, <2>4, <2>5, <2>6, <2>7, Zenon DEF RealMetrics
<1> QED
  BY <1>20, <1>21

\* Every step keeps what the flood rules remember in agreement with what was heard.
LEMMA FloodStep ==
  ASSUME FloodInv, now \in Times, [Next]_vars
  PROVE  FloodInv'
<1>1. now \in Nat /\ now' \in Times /\ now' \in Nat /\ now <= now'
  BY Clock
<1>2. CASE \E k \in FloodKeys : FloodProcess(k, now')
  BY <1>1, <1>2, FloodProcessStep
<1>3. CASE UNCHANGED <<tracker, floodCalls, heard>> /\ floodEvent' \in {None, floodEvent}
  <2>1. FloodTypeOK'
    BY <1>3 DEF FloodInv, FloodTypeOK
  <2>2. ASSUME NEW k \in FloodKeys PROVE Recalled(k)'
    BY <1>1, <1>3, StillRecalled DEF FloodInv
  <2> QED
    BY <2>1, <2>2 DEF FloodInv
<1> QED
  BY <1>2, <1>3, FloodMoves

\* What is remembered bounds what a window holds.
LEMMA FloodInvComplete == FloodInv /\ now \in Times => FloodComplete
<1> SUFFICES ASSUME FloodInv, now \in Times, NEW k \in FloodKeys
             PROVE  CountIn(heard[k], now) < FloodThreshold
  BY DEF FloodComplete
<1>1. FloodTypeOK /\ Recalled(k) /\ now \in Nat /\ heard[k] \in Seq(Times)
  BY FloodTypes, TimesNat DEF FloodInv
<1>2. CASE tracker[k] = None
  <2>1. \A i \in DOMAIN heard[k] : heard[k][i] < now - FloodWindow /\ heard[k][i] \in Nat
    BY <1>1, <1>2, FloodTypes DEF Recalled
  <2>2. {i \in DOMAIN heard[k] : heard[k][i] >= now - FloodWindow} = {}
    BY <1>1, <2>1, FloodNumbers
  <2>3. CountIn(heard[k], now) = 0
    BY <2>2, FS_EmptySet DEF CountIn
  <2> QED
    BY <2>3, FloodNumbers
<1>3. CASE tracker[k] # None
  <2>1. PICK q : q = tracker[k].timestamps
    OBVIOUS
  <2>2. PICK b \in Int : b = tracker[k].lastSeen - FloodWindow
    <3>1. tracker[k].lastSeen - FloodWindow \in Int
      BY <1>1, <1>3, FloodTypes, FloodNumbers
    <3> QED
      BY <3>1
  <2>3. q \in Seq(Times) /\ Len(q) \in Nat /\ Len(q) < FloodThreshold
    BY <1>1, <1>3, <2>1, FloodTypes
  <2>4. Ends(q, heard[k], b) /\ b <= now - FloodWindow
    <3>1. tracker[k].lastSeen \in Nat
      BY <1>1, <1>3, FloodTypes
    <3>2. tracker[k].lastSeen <= now
      BY <1>1, <1>3 DEF Recalled
    <3>3. b <= now - FloodWindow
      BY <1>1, <2>2, <3>1, <3>2, FloodNumbers
    <3> QED
      BY <1>1, <1>3, <2>1, <2>2, <3>3 DEF Recalled
  <2>5. CountIn(heard[k], now) <= Len(q)
    BY <1>1, <2>3, <2>4, CountAtMost
  <2>6. CountIn(heard[k], now) \in Nat
    BY <1>1, CountType
  <2> QED
    BY <2>3, <2>5, <2>6, FloodNumbers
<1> QED
  BY <1>2, <1>3

\* The event of a step has the metrics of the frames behind it.
LEMMA FloodEventStep ==
  ASSUME FloodInv, now \in Times, [Next]_vars, floodEvent' # floodEvent, floodEvent' # None
  PROVE  RealMetrics(floodEvent', heard[floodEvent'.key], now')
<1>1. now \in Nat /\ now' \in Times /\ now <= now'
  BY Clock
<1>2. PICK k \in FloodKeys : FloodProcess(k, now')
  BY FloodMoves
<1> QED
  BY <1>1, <1>2, FloodProcessStep

--------------------------------------------------------------------------------
(* The unauthorized device rule. *)

\* The map and the device's last event agree, unless a cleanup forgot one that is past
\* its cooldown.  A rule that is not registered has seen nothing.
DeviceInv ==
  /\ DeviceTypeOK
  /\ "unauthorized_device" \notin registered => deviceEvent = None /\ intruder = None
  /\ \A d \in Devices :
       \/ lastAlertByMAC[d] = alertedAt[d]
       \/ lastAlertByMAC[d] = None /\ now - alertedAt[d] > Cooldown

\* A step of the rule examines a device, ignores the frame, or is none.
LEMMA DeviceMoves ==
  ASSUME [Next]_vars
  PROVE  \/ /\ "unauthorized_device" \in registered
            /\ \E d \in Devices, protected \in BOOLEAN : Examine(d, protected, now')
         \/ /\ deviceEvent' = None /\ intruder' = None
            /\ UNCHANGED <<lastAlertByMAC, deviceCalls, alertedAt>>
         \/ UNCHANGED deviceVars /\ "unauthorized_device" \notin registered
         \/ UNCHANGED <<now, deviceVars>>
<1>1. CASE \E d \in Devices, b \in ProtectedBSSIDs \cup {None}, t \in Times : Access(d, b, t)
  <2>1. PICK d \in Devices, b \in ProtectedBSSIDs \cup {None}, t \in Times : Access(d, b, t)
    BY <1>1
  <2>2. t = now'
    BY <2>1 DEF Access, FrameAt
  <2>3. CASE "unauthorized_device" \in registered
    <3>1. Examine(d, b \in ProtectedBSSIDs, t)
      BY <2>1, <2>3 DEF Access, OnlyDevice, DeviceAccess, IfRegistered
    <3>2. (b \in ProtectedBSSIDs) \in BOOLEAN
      OBVIOUS
    <3> QED
      BY <2>2, <2>3, <3>1, <3>2, Zenon
  <2>4. CASE "unauthorized_device" \notin registered
    BY <2>1, <2>4 DEF Access, OnlyDevice, IfRegistered
  <2> QED
    BY <2>3, <2>4
<1>2. CASE \E d \in Devices, s \in ProtectedSSIDs \cup {None}, t \in Times :
             ProbeRequest(d, s, t)
  <2>1. PICK d \in Devices, s \in ProtectedSSIDs \cup {None}, t \in Times :
          ProbeRequest(d, s, t)
    BY <1>2
  <2>2. t = now'
    BY <2>1 DEF ProbeRequest, FrameAt
  <2>3. CASE "unauthorized_device" \in registered /\ AlertOnProbe
    <3>1. Examine(d, s \in ProtectedSSIDs, t)
      BY <2>1, <2>3 DEF ProbeRequest, OnlyDevice, DeviceProbe, IfRegistered
    <3>2. (s \in ProtectedSSIDs) \in BOOLEAN
      OBVIOUS
    <3> QED
      BY <2>2, <2>3, <3>1, <3>2, Zenon
  <2>4. CASE "unauthorized_device" \in registered /\ ~AlertOnProbe
    BY <2>1, <2>4 DEF ProbeRequest, OnlyDevice, DeviceProbe, DeviceIgnore, IfRegistered
  <2>5. CASE "unauthorized_device" \notin registered
    BY <2>1, <2>5 DEF ProbeRequest, OnlyDevice, IfRegistered
  <2> QED
    BY <2>3, <2>4, <2>5
<1>3. CASE \/ \E k \in FloodKeys, t \in Times : Deauth(k, t)
           \/ \E b \in BSSIDs, s \in SSIDs \cup {None}, p \in Profiles, t \in Times :
                Beacon(b, s, p, t) \/ ProbeResponse(b, s, p, t)
  BY <1>3 DEF Deauth, Beacon, ProbeResponse, DeviceIgnore, IfRegistered, deviceVars
<1>4. CASE UNCHANGED vars
  BY <1>4 DEF vars
<1>5. CASE \E s \in Transmissions, reception \in Receptions :
             \E n \in 0..Len(Body(s)) : Capture(s, n, reception)
  BY <1>5 DEF Capture, vars, deviceVars
<1> QED
  BY <1>1, <1>2, <1>3, <1>4, <1>5 DEF Next

\* An examined device is alerted exactly when its last event is a cooldown in the past.
LEMMA ExamineStep ==
  ASSUME DeviceInv, now \in Nat, now' \in Times, now <= now',
         "unauthorized_device" \in registered, registered' = registered,
         NEW d \in Devices, NEW protected \in BOOLEAN, Examine(d, protected, now')
  PROVE  /\ DeviceInv'
         /\ intruder' # None => intruder' = d
         /\ deviceEvent' =
              IF intruder' # None /\ (alertedAt[d] = None \/ now' - alertedAt[d] >= Cooldown)
              THEN d ELSE None
<1> DEFINE t == now'
<1>1. t \in Nat /\ Cooldown \in Nat \ {0} /\ None \notin Times /\ None \notin Devices
  BY TimesNat, DeviceAssumption, FramesAssumption DEF Times
<1>2. /\ lastAlertByMAC \in [Devices -> Times \cup {None}]
      /\ alertedAt \in [Devices -> Times \cup {None}]
      /\ deviceCalls' \in 0..(CleanupInterval - 1)
  BY CallsType DEF DeviceInv, DeviceTypeOK, Examine
<1>3. AlertsKept(t) \in [Devices -> Times \cup {None}]
  BY <1>2 DEF AlertsKept
<1>4. ASSUME NEW e \in Devices
      PROVE  \/ AlertsKept(t)[e] = alertedAt[e]
             \/ AlertsKept(t)[e] = None /\ t - alertedAt[e] > Cooldown
  <2>1. CASE lastAlertByMAC[e] = alertedAt[e]
    BY <2>1 DEF AlertsKept
  <2>2. CASE lastAlertByMAC[e] # alertedAt[e]
    <3>1. lastAlertByMAC[e] = None /\ now - alertedAt[e] > Cooldown
      BY <2>2 DEF DeviceInv
    <3>2. alertedAt[e] \in Nat
      BY <1>2, <2>2, <3>1, TimesNat
    <3> QED
      BY <1>1, <3>1, <3>2 DEF AlertsKept
  <2> QED
    BY <2>1, <2>2
<1>5. Cooling(d, t) <=> ~(alertedAt[d] = None \/ t - alertedAt[d] >= Cooldown)
  <2>1. alertedAt[d] \in Nat \/ alertedAt[d] = None
    BY <1>2, TimesNat
  <2>2. None \notin Nat
    BY FramesAssumption
  <2>3. CASE AlertsKept(t)[d] = alertedAt[d]
    BY <1>1, <2>1, <2>2, <2>3 DEF Cooling
  <2>4. CASE AlertsKept(t)[d] # alertedAt[d]
    <3>1. AlertsKept(t)[d] = None /\ t - alertedAt[d] > Cooldown /\ alertedAt[d] # None
      BY <1>4, <2>4
    <3> QED
      BY <1>1, <2>1, <3>1 DEF Cooling
  <2> QED
    BY <2>3, <2>4
<1>6. CASE ~(protected /\ d \notin Whitelist)
  <2>1. /\ lastAlertByMAC' = AlertsKept(t) /\ alertedAt' = alertedAt
        /\ deviceEvent' = None /\ intruder' = None
    BY <1>6 DEF Examine
  <2>2. DeviceInv'
    BY <1>2, <1>3, <1>4, <2>1 DEF DeviceInv, DeviceTypeOK
  <2> QED
    BY <2>1, <2>2
<1>7. CASE protected /\ d \notin Whitelist /\ Cooling(d, t)
  <2>1. /\ lastAlertByMAC' = AlertsKept(t) /\ alertedAt' = alertedAt
        /\ deviceEvent' = None /\ intruder' = d
    BY <1>7 DEF Examine, AlertsAfter
  <2>2. DeviceInv'
    BY <1>2, <1>3, <1>4, <2>1 DEF DeviceInv, DeviceTypeOK
  <2> QED
    BY <1>5, <1>7, <2>1, <2>2
<1>8. CASE protected /\ d \notin Whitelist /\ ~Cooling(d, t)
  <2>1. /\ lastAlertByMAC' = [AlertsKept(t) EXCEPT ![d] = t]
        /\ alertedAt' = [alertedAt EXCEPT ![d] = t]
        /\ deviceEvent' = d /\ intruder' = d
    BY <1>8 DEF Examine, AlertsAfter
  <2>2. /\ lastAlertByMAC' \in [Devices -> Times \cup {None}]
        /\ alertedAt' \in [Devices -> Times \cup {None}]
    BY <1>2, <1>3, <2>1
  <2>3. ASSUME NEW e \in Devices
        PROVE  \/ lastAlertByMAC'[e] = alertedAt'[e]
               \/ lastAlertByMAC'[e] = None /\ t - alertedAt'[e] > Cooldown
    BY <1>2, <1>3, <1>4, <2>1
  <2>4. DeviceInv'
    BY <1>2, <2>1, <2>2, <2>3 DEF DeviceInv, DeviceTypeOK
  <2> QED
    BY <1>1, <1>5, <1>8, <2>1, <2>4
<1> QED
  BY <1>6, <1>7, <1>8

\* The rule's memory stays in agreement, and it raises its events as it should.
LEMMA DeviceStep ==
  ASSUME DeviceInv, now \in Times, [Next]_vars
  PROVE  /\ DeviceInv'
         /\ \/ UNCHANGED <<now, deviceVars>>
            \/ deviceEvent' =
                 LET last == IF intruder' = None THEN None ELSE alertedAt[intruder']
                 IN IF intruder' # None /\ (last = None \/ now' - last >= Cooldown)
                    THEN intruder' ELSE None
<1>1. /\ now \in Nat /\ now' \in Times /\ now' \in Nat /\ now <= now'
      /\ registered' = registered
  BY Clock
<1>2. ASSUME lastAlertByMAC' = lastAlertByMAC, alertedAt' = alertedAt,
             deviceCalls' = deviceCalls, deviceEvent' = None, intruder' = None
      PROVE  DeviceInv'
  <2>1. DeviceTypeOK'
    BY <1>2 DEF DeviceInv, DeviceTypeOK
  <2>2. ASSUME NEW d \in Devices, lastAlertByMAC[d] # alertedAt[d]
        PROVE  lastAlertByMAC[d] = None /\ now' - alertedAt[d] > Cooldown
    <3>1. lastAlertByMAC[d] = None /\ now - alertedAt[d] > Cooldown
      BY <2>2 DEF DeviceInv
    <3>2. alertedAt[d] \in Nat
      BY <2>2, <3>1, TimesNat DEF DeviceInv, DeviceTypeOK
    <3>3. Cooldown \in Nat
      BY DeviceAssumption
    <3> QED
      BY <1>1, <3>1, <3>2, <3>3
  <2> QED
    BY <1>2, <2>1, <2>2 DEF DeviceInv
<1>3. CASE /\ "unauthorized_device" \in registered
           /\ \E d \in Devices, protected \in BOOLEAN : Examine(d, protected, now')
  <2>1. PICK d \in Devices, protected \in BOOLEAN : Examine(d, protected, now')
    BY <1>3
  <2>2. /\ DeviceInv'
        /\ intruder' # None => intruder' = d
        /\ deviceEvent' =
             IF intruder' # None /\ (alertedAt[d] = None \/ now' - alertedAt[d] >= Cooldown)
             THEN d ELSE None
    BY <1>1, <1>3, <2>1, ExamineStep
  <2> QED
    BY <2>2
<1>4. CASE /\ deviceEvent' = None /\ intruder' = None
           /\ UNCHANGED <<lastAlertByMAC, deviceCalls, alertedAt>>
  BY <1>2, <1>4
<1>5. CASE UNCHANGED deviceVars /\ "unauthorized_device" \notin registered
  <2>1. deviceEvent' = None /\ intruder' = None
    BY <1>5 DEF deviceVars, DeviceInv
  <2> QED
    BY <1>2, <1>5, <2>1 DEF deviceVars
<1>6. CASE UNCHANGED <<now, deviceVars>>
  BY <1>1, <1>6 DEF DeviceInv, DeviceTypeOK, deviceVars
<1> QED
  BY <1>3, <1>4, <1>5, <1>6, DeviceMoves

--------------------------------------------------------------------------------
(* The beacon flood rule. *)

\* A window counts what beaconed in it, and who beaconed within its length is on the air.
Timely(w, air, t) ==
  /\ w.windowStart <= t
  /\ \A x \in Present(w.newBSSIDs) :
       /\ w.windowStart <= w.newBSSIDs[x] /\ w.newBSSIDs[x] <= t
       /\ t - w.newBSSIDs[x] <= BeaconWindow => air[x] # None /\ air[x] >= w.newBSSIDs[x]

\* Who was in an event since the last cleanup is known, and counted no more.
SpentInv(c) ==
  /\ \A x \in spent[c] : known[x] # None
  /\ chans[c] # None => Present(chans[c].newBSSIDs) \cap spent[c] = {}

\* Nobody beacons in the future.
AirInv == \A c \in Channels, x \in BSSIDs : onAir[c][x] # None => onAir[c][x] <= now

BeaconInv ==
  /\ BeaconTypeOK
  /\ AirInv
  /\ "beacon_flood" \notin registered => beaconEvent = None
  /\ \A c \in Channels : chans[c] # None => Timely(chans[c], onAir[c], now)
  /\ \A c \in Channels : SpentInv(c)
  /\ BeaconSound

\* The numbers of the rule.
LEMMA BeaconNumbers ==
  /\ Times \subseteq Nat /\ None \notin Nat /\ None \notin Times
  /\ BeaconWindow \in Nat /\ LearningPeriod \in Nat
BY TimesNat, BeaconAssumption, FramesAssumption DEF Times

\* A window stays timely while who is on the air within its length stays there.
LEMMA TimelyLater ==
  ASSUME NEW w \in Window, NEW air \in [BSSIDs -> Times \cup {None}],
         NEW later \in [BSSIDs -> Times \cup {None}], NEW s \in Nat, NEW t \in Nat, s <= t,
         Timely(w, air, s),
         \A x \in BSSIDs : air[x] # None /\ t - air[x] <= BeaconWindow
                             => later[x] # None /\ later[x] >= air[x]
  PROVE  Timely(w, later, t)
<1>1. w.windowStart \in Nat /\ w.windowStart <= t
  <2>1. w.windowStart \in Times /\ w.windowStart <= s
    BY DEF Window, Timely
  <2>2. w.windowStart \in Nat
    BY <2>1, BeaconNumbers
  <2> QED
    BY <2>1, <2>2
<1>2. ASSUME NEW x \in Present(w.newBSSIDs)
      PROVE  /\ w.windowStart <= w.newBSSIDs[x] /\ w.newBSSIDs[x] <= t
             /\ t - w.newBSSIDs[x] <= BeaconWindow
                  => later[x] # None /\ later[x] >= w.newBSSIDs[x]
  <2>1. /\ w.newBSSIDs[x] \in Nat /\ x \in BSSIDs
        /\ air[x] \in Nat \cup {None} /\ later[x] \in Nat \cup {None}
    BY BeaconNumbers DEF Window, Present
  <2>2. /\ w.windowStart <= w.newBSSIDs[x] /\ w.newBSSIDs[x] <= s
        /\ s - w.newBSSIDs[x] <= BeaconWindow => air[x] # None /\ air[x] >= w.newBSSIDs[x]
    BY DEF Timely
  <2>3. w.newBSSIDs[x] <= t
    BY <2>1, <2>2
  <2>4. ASSUME t - w.newBSSIDs[x] <= BeaconWindow
        PROVE  later[x] # None /\ later[x] >= w.newBSSIDs[x]
    <3>1. s - w.newBSSIDs[x] <= BeaconWindow
      BY <2>1, <2>4, BeaconNumbers
    <3>2. air[x] # None /\ air[x] >= w.newBSSIDs[x] /\ air[x] \in Nat
      BY <2>1, <2>2, <3>1
    <3>3. t - air[x] <= BeaconWindow
      BY <2>1, <2>4, <3>2, BeaconNumbers
    <3>4. later[x] # None /\ later[x] >= air[x] /\ later[x] \in Nat
      BY <2>1, <3>2, <3>3
    <3> QED
      BY <2>1, <3>2, <3>4
  <2> QED
    BY <2>2, <2>3, <2>4
<1> QED
  BY <1>1, <1>2 DEF Timely

\* So it does when it counts the access point that beacons now.
LEMMA TimelyCounted ==
  ASSUME NEW w \in Window, NEW air \in [BSSIDs -> Times \cup {None}], NEW t \in Times,
         NEW b \in BSSIDs, Timely(w, air, t), air[b] = t,
         NEW v \in Window, v.windowStart = w.windowStart,
         \A x \in BSSIDs : v.newBSSIDs[x] = IF x = b THEN t ELSE w.newBSSIDs[x]
  PROVE  /\ Present(v.newBSSIDs) = Present(w.newBSSIDs) \cup {b}
         /\ Timely(v, air, t)
<1>1. w.windowStart \in Times
  BY DEF Window
<1>2. t \in Nat /\ t # None
  BY BeaconNumbers
<1>3. Present(v.newBSSIDs) = Present(w.newBSSIDs) \cup {b}
  BY <1>1, <1>2 DEF Present
<1>4. ASSUME NEW x \in Present(v.newBSSIDs)
      PROVE  /\ v.windowStart <= v.newBSSIDs[x] /\ v.newBSSIDs[x] <= t
             /\ t - v.newBSSIDs[x] <= BeaconWindow
                  => air[x] # None /\ air[x] >= v.newBSSIDs[x]
  <2>1. CASE x = b
    <3>1. v.newBSSIDs[x] = t /\ w.windowStart <= t
      BY <1>1, <2>1 DEF Timely
    <3> QED
      BY <1>1, <1>2, <2>1, <3>1
  <2>2. CASE x # b
    <3>1. x \in Present(w.newBSSIDs) /\ v.newBSSIDs[x] = w.newBSSIDs[x]
      BY <1>1, <1>3, <2>2 DEF Present
    <3> QED
      BY <1>1, <3>1 DEF Timely
  <2> QED
    BY <2>1, <2>2
<1>5. Timely(v, air, t)
  BY <1>1, <1>4 DEF Timely
<1> QED
  BY <1>1, <1>3, <1>5

\* A window that starts now counts nobody.
LEMMA TimelyEmpty ==
  ASSUME NEW air, NEW t \in Times
  PROVE  /\ EmptyWindow(t) \in Window /\ Present(EmptyWindow(t).newBSSIDs) = {}
         /\ EmptyWindow(t).windowStart = t
         /\ Timely(EmptyWindow(t), air, t)
<1>1. /\ EmptyWindow(t) \in Window /\ Present(EmptyWindow(t).newBSSIDs) = {}
      /\ EmptyWindow(t).windowStart = t
  BY DEF EmptyWindow, Window, Present
<1>2. t <= t
  BY TimesNat
<1> QED
  BY <1>1, <1>2 DEF Timely

\* A step of the rule takes in a beacon, ignores the frame, or is none.
LEMMA BeaconMoves ==
  ASSUME [Next]_vars
  PROVE  \/ /\ "beacon_flood" \in registered
            /\ \E b \in BSSIDs, c \in Channels : BeaconProcess(b, c, now')
         \/ /\ beaconEvent' = None
            /\ UNCHANGED <<startedAt, known, chans, beaconCalls, onAir, spent>>
         \/ UNCHANGED beaconVars /\ "beacon_flood" \notin registered
         \/ UNCHANGED <<now, beaconVars>>
<1>1. CASE \E b \in BSSIDs, s \in SSIDs \cup {None}, p \in Profiles, t \in Times :
             Beacon(b, s, p, t)
  <2>1. PICK b \in BSSIDs, s \in SSIDs \cup {None}, p \in Profiles, t \in Times :
          Beacon(b, s, p, t)
    BY <1>1
  <2>2. t = now' /\ p.Channel \in Channels
    BY <2>1 DEF Beacon, FrameAt, Channels
  <2>3. CASE "beacon_flood" \in registered
    <3>1. BeaconProcess(b, p.Channel, t)
      BY <2>1, <2>3 DEF Beacon, IfRegistered
    <3> QED
      BY <2>2, <2>3, <3>1
  <2>4. CASE "beacon_flood" \notin registered
    BY <2>1, <2>4 DEF Beacon, IfRegistered
  <2> QED
    BY <2>3, <2>4
<1>2. CASE \/ \E k \in FloodKeys, t \in Times : Deauth(k, t)
           \/ \E b \in BSSIDs, s \in SSIDs \cup {None}, p \in Profiles, t \in Times :
                ProbeResponse(b, s, p, t)
           \/ \E d \in Devices, b \in ProtectedBSSIDs \cup {None}, t \in Times :
                Access(d, b, t)
           \/ \E d \in Devices, s \in ProtectedSSIDs \cup {None}, t \in Times :
                ProbeRequest(d, s, t)
  BY <1>2 DEF Deauth, ProbeResponse, Access, ProbeRequest, OnlyDevice, BeaconIgnore,
     IfRegistered, beaconVars
<1>3. CASE UNCHANGED vars
  BY <1>3 DEF vars
<1>4. CASE \E s \in Transmissions, reception \in Receptions :
             \E n \in 0..Len(Body(s)) : Capture(s, n, reception)
  BY <1>4 DEF Capture
<1> QED
  BY <1>1, <1>2, <1>3, <1>4 DEF Next

\* Who is on the air stays there within the window's length, and b is there now.
LEMMA AirStep ==
  ASSUME BeaconTypeOK, AirInv, now \in Nat, now' \in Times, now <= now',
         NEW b \in BSSIDs, NEW c \in Channels, BeaconProcess(b, c, now'), NEW d \in Channels
  PROVE  /\ onAir[d] \in [BSSIDs -> Times \cup {None}]
         /\ onAir'[d] \in [BSSIDs -> Times \cup {None}]
         /\ onAir'[c][b] = now'
         /\ \A x \in BSSIDs : onAir[d][x] # None /\ now' - onAir[d][x] <= BeaconWindow
                                => onAir'[d][x] # None /\ onAir'[d][x] >= onAir[d][x]
         /\ \A x \in BSSIDs : onAir'[d][x] # None => onAir'[d][x] <= now'
<1>1. onAir' = [e \in Channels |-> [x \in BSSIDs |->
        IF e = c /\ x = b THEN now'
        ELSE IF onAir[e][x] # None /\ now' - onAir[e][x] > BeaconWindow THEN None
        ELSE onAir[e][x]]]
  BY DEF BeaconProcess
<1>2. onAir \in [Channels -> [BSSIDs -> Times \cup {None}]]
  BY DEF BeaconTypeOK
<1>3. onAir' \in [Channels -> [BSSIDs -> Times \cup {None}]]
  BY <1>1, <1>2
<1>4. onAir'[c][b] = now'
  BY <1>1
<1>5. ASSUME NEW x \in BSSIDs, onAir[d][x] # None
      PROVE  onAir[d][x] \in Nat /\ onAir[d][x] <= now'
  <2>1. onAir[d][x] \in Nat /\ now' \in Nat
    BY <1>2, <1>5, BeaconNumbers
  <2> QED
    BY <1>5, <2>1 DEF AirInv
<1>6. ASSUME NEW x \in BSSIDs, onAir[d][x] # None, now' - onAir[d][x] <= BeaconWindow
      PROVE  onAir'[d][x] # None /\ onAir'[d][x] >= onAir[d][x]
  <2>1. onAir[d][x] \in Nat /\ now' \in Nat /\ now' # None /\ onAir[d][x] <= now'
    BY <1>5, <1>6, BeaconNumbers
  <2>2. onAir'[d][x] = IF d = c /\ x = b THEN now' ELSE onAir[d][x]
    BY <1>1, <1>6, <2>1, BeaconNumbers
  <2> QED
    BY <1>6, <2>1, <2>2
<1>7. ASSUME NEW x \in BSSIDs, onAir'[d][x] # None PROVE onAir'[d][x] <= now'
  <2>1. now' \in Nat
    BY BeaconNumbers
  <2>2. onAir'[d][x] = now' \/ onAir'[d][x] = onAir[d][x]
    BY <1>1, <1>7
  <2> QED
    BY <1>5, <1>7, <2>1, <2>2
<1> QED
  BY <1>2, <1>3, <1>4, <1>6, <1>7

\* What a cleanup leaves.
LEMMA BeaconCleanup ==
  ASSUME BeaconTypeOK, NEW t \in Times
  PROVE  /\ Remembered(t) \in [BSSIDs -> Times \cup {None}]
         /\ LiveWindows(t) \in [Channels -> Window \cup {None}]
         /\ Uncleaned \in [Channels -> SUBSET BSSIDs]
         /\ \A c \in Channels : LiveWindows(t)[c] = None \/ LiveWindows(t)[c] = chans[c]
         /\ \A c \in Channels : Uncleaned[c] = {} \/ /\ Uncleaned = spent
                                                     /\ Remembered(t) = known
                                                     /\ LiveWindows(t) = chans
BY DEF BeaconTypeOK, Remembered, LiveWindows, Uncleaned

\* A beacon that counts nowhere.
LEMMA BeaconKnownStep ==
  ASSUME BeaconInv, now \in Nat, now' \in Times, now <= now', registered' = registered,
         NEW b \in BSSIDs, NEW c \in Channels, BeaconProcess(b, c, now'),
         BeaconKnown(b, now')
  PROVE  BeaconInv' /\ beaconEvent' = None
<1>1. /\ known' = [Remembered(now') EXCEPT ![b] = now'] /\ chans' = LiveWindows(now')
      /\ beaconEvent' = None /\ spent' = Uncleaned
  BY DEF BeaconKnown
<1>2. BeaconTypeOK /\ AirInv /\ now' \in Nat /\ now' # None
  BY BeaconNumbers DEF BeaconInv
<1>3. /\ startedAt' \in Times \cup {None} /\ beaconCalls' \in 0..(CleanupInterval - 1)
      /\ onAir' \in [Channels -> [BSSIDs -> Times \cup {None}]]
  <2>1. startedAt' \in Times \cup {None}
    BY <1>2 DEF BeaconProcess, BeaconTypeOK, Start
  <2>2. beaconCalls' \in 0..(CleanupInterval - 1)
    BY <1>2, CallsType DEF BeaconProcess, BeaconTypeOK
  <2>3. onAir' \in [Channels -> [BSSIDs -> Times \cup {None}]]
    BY <1>2 DEF BeaconProcess, BeaconTypeOK
  <2> QED
    BY <2>1, <2>2, <2>3
<1>4. BeaconTypeOK'
  BY <1>1, <1>2, <1>3, BeaconCleanup DEF BeaconTypeOK
<1>5. AirInv'
  BY <1>2, AirStep DEF AirInv
<1>6. ASSUME NEW d \in Channels, chans'[d] # None PROVE Timely(chans'[d], onAir'[d], now')
  <2>1. chans'[d] = chans[d] /\ chans[d] # None /\ chans[d] \in Window
    BY <1>1, <1>2, <1>6, BeaconCleanup DEF BeaconTypeOK
  <2>2. Timely(chans[d], onAir[d], now)
    BY <2>1 DEF BeaconInv
  <2> QED
    BY <1>2, <2>1, <2>2, AirStep, TimelyLater
<1>7. ASSUME NEW d \in Channels PROVE SpentInv(d)'
  <2>1. CASE Uncleaned[d] = {}
    BY <1>1, <2>1 DEF SpentInv
  <2>2. CASE Uncleaned[d] # {}
    <3>1. Uncleaned = spent /\ Remembered(now') = known /\ LiveWindows(now') = chans
      BY <1>2, <2>2, BeaconCleanup
    <3>2. /\ \A x \in spent[d] : known[x] # None
          /\ chans[d] # None => Present(chans[d].newBSSIDs) \cap spent[d] = {}
      BY DEF BeaconInv, SpentInv
    <3>3. known \in [BSSIDs -> Times \cup {None}] /\ spent[d] \subseteq BSSIDs
      BY <1>2 DEF BeaconTypeOK
    <3>4. \A x \in spent[d] : known'[x] # None
      BY <1>1, <1>2, <3>1, <3>2, <3>3
    <3>5. chans' = chans /\ spent' = spent
      BY <1>1, <3>1
    <3> QED
      BY <3>2, <3>4, <3>5 DEF SpentInv
  <2> QED
    BY <2>1, <2>2
<1> QED
  BY <1>1, <1>4, <1>5, <1>6, <1>7 DEF BeaconInv, BeaconSound

\* What a window counted becomes known, and what was known stays so.
LEMMA PromotedKnows ==
  ASSUME NEW base \in [BSSIDs -> Times \cup {None}], NEW w \in Window
  PROVE  /\ Promoted(base, w) \in [BSSIDs -> Times \cup {None}]
         /\ \A x \in BSSIDs : base[x] # None \/ x \in Present(w.newBSSIDs)
                                => Promoted(base, w)[x] # None
BY DEF Promoted, Window, Present

\* A BSSID that is new: the window that counts it, and the event it may complete.
LEMMA BeaconNewStep ==
  ASSUME BeaconInv, now \in Nat, now' \in Times, now <= now', registered' = registered,
         "beacon_flood" \in registered,
         NEW b \in BSSIDs, NEW c \in Channels, BeaconProcess(b, c, now'),
         BeaconNew(b, c, now')
  PROVE  /\ BeaconInv'
         /\ beaconEvent' # None
              => beaconEvent'.bssids \cap Uncleaned[beaconEvent'.channel] = {}
<1> DEFINE t == now'
<1>1. BeaconTypeOK /\ AirInv /\ t \in Nat /\ t # None /\ t \in Times
  BY BeaconNumbers DEF BeaconInv
<1>2. PICK live : live = LiveWindows(t)
  OBVIOUS
<1>3. PICK base0 : base0 = Remembered(t)
  OBVIOUS
<1>4. PICK w0 : w0 = IF live[c] = None THEN EmptyWindow(t) ELSE live[c]
  OBVIOUS
<1>5. PICK base : base = IF Expired(w0, t) THEN Promoted(base0, w0) ELSE base0
  OBVIOUS
<1>6. PICK w1 : w1 = IF Expired(w0, t) THEN EmptyWindow(t) ELSE w0
  OBVIOUS
<1>7. PICK w : w = [w1 EXCEPT !.lastSeen = t, !.newBSSIDs[b] = t]
  OBVIOUS
<1>8. PICK new : new = Present(w.newBSSIDs)
  OBVIOUS
<1> DEFINE flood == Cardinality(new) >= BeaconThreshold
<1>9. /\ ~Learning(t) /\ base0[b] = None
      /\ chans' = [live EXCEPT ![c] = IF flood THEN EmptyWindow(t) ELSE w]
      /\ known' = IF flood THEN Promoted(base, w) ELSE base
      /\ beaconEvent' = IF flood
           THEN [channel |-> c, bssids |-> new, Duration |-> t - w.windowStart] ELSE None
      /\ spent' = IF flood THEN [Uncleaned EXCEPT ![c] = Uncleaned[c] \cup new] ELSE Uncleaned
  BY <1>2, <1>3, <1>4, <1>5, <1>6, <1>7, <1>8 DEF BeaconNew
<1> HIDE DEF t, flood
<1>10. t = now'
  BY DEF t
<1>11. /\ base0 \in [BSSIDs -> Times \cup {None}]
       /\ live \in [Channels -> Window \cup {None}]
       /\ Uncleaned \in [Channels -> SUBSET BSSIDs]
       /\ \A d \in Channels : live[d] = None \/ live[d] = chans[d]
       /\ \A d \in Channels : Uncleaned[d] = {} \/ /\ Uncleaned = spent
                                                   /\ base0 = known
                                                   /\ live = chans
  BY <1>1, <1>2, <1>3, BeaconCleanup
<1>12. ASSUME NEW d \in Channels, live[d] # None
       PROVE  live[d] \in Window /\ Timely(live[d], onAir'[d], t)
  <2>1. live[d] = chans[d] /\ chans[d] # None /\ live[d] \in Window
    BY <1>11, <1>12
  <2>2. Timely(chans[d], onAir[d], now)
    BY <2>1 DEF BeaconInv
  <2> QED
    BY <1>1, <1>10, <2>1, <2>2, AirStep, TimelyLater
<1>13. /\ onAir'[c] \in [BSSIDs -> Times \cup {None}] /\ onAir'[c][b] = t
  BY <1>1, <1>10, AirStep
<1>14. w0 \in Window /\ Timely(w0, onAir'[c], t)
  BY <1>1, <1>4, <1>12, TimelyEmpty
<1>15. w1 \in Window /\ Timely(w1, onAir'[c], t) /\ t - w1.windowStart <= BeaconWindow
  <2>1. CASE Expired(w0, t)
    <3>1. w1 = EmptyWindow(t)
      BY <1>6, <2>1
    <3>2. w1 \in Window /\ Timely(w1, onAir'[c], t) /\ w1.windowStart = t
      BY <1>1, <3>1, TimelyEmpty
    <3> QED
      BY <1>1, <3>2, BeaconNumbers
  <2>2. CASE ~Expired(w0, t)
    <3>1. w1 = w0 /\ ~(t - w0.windowStart > BeaconWindow)
      BY <1>6, <2>2 DEF Expired
    <3>2. w0.windowStart \in Nat
      BY <1>14, BeaconNumbers DEF Window
    <3> QED
      BY <1>1, <1>14, <3>1, <3>2, BeaconNumbers
  <2> QED
    BY <2>1, <2>2
<1>16. /\ w \in Window /\ w.windowStart = w1.windowStart
       /\ new = Present(w1.newBSSIDs) \cup {b}
       /\ Timely(w, onAir'[c], t)
  <2>1. PICK air : air = onAir'[c]
    OBVIOUS
  <2>2. air \in [BSSIDs -> Times \cup {None}] /\ air[b] = t /\ Timely(w1, air, t)
    BY <1>13, <1>15, <2>1
  <2>3. w \in Window /\ w.windowStart = w1.windowStart
    BY <1>1, <1>7, <1>15 DEF Window
  <2>4. \A x \in BSSIDs : w.newBSSIDs[x] = IF x = b THEN t ELSE w1.newBSSIDs[x]
    BY <1>1, <1>7, <1>15 DEF Window
  <2>5. /\ Present(w.newBSSIDs) = Present(w1.newBSSIDs) \cup {b}
        /\ Timely(w, air, t)
    BY SMTT(30), <1>1, <1>15, <2>2, <2>3, <2>4, TimelyCounted
  <2> QED
    BY <1>8, <2>1, <2>3, <2>5
<1>17. Present(w1.newBSSIDs) \subseteq Present(w0.newBSSIDs) /\ new \subseteq BSSIDs
  BY <1>1, <1>6, <1>8, TimelyEmpty DEF Present
<1>18. base \in [BSSIDs -> Times \cup {None}] /\ \A x \in BSSIDs : base0[x] # None => base[x] # None
  BY <1>5, <1>11, <1>14, PromotedKnows
<1>19. /\ known' \in [BSSIDs -> Times \cup {None}]
       /\ \A x \in BSSIDs : base0[x] # None => known'[x] # None
       /\ flood => \A x \in new : known'[x] # None
  BY <1>8, <1>9, <1>16, <1>17, <1>18, PromotedKnows
<1>20. ASSUME NEW d \in Channels, NEW x \in Uncleaned[d]
       PROVE  base0[x] # None /\ x \in BSSIDs
  BY <1>11 DEF BeaconInv, SpentInv
<1>21. new \cap Uncleaned[c] = {}
  <2>1. b \notin Uncleaned[c]
    BY <1>9, <1>20
  <2>2. Present(w0.newBSSIDs) \cap Uncleaned[c] = {}
    <3>1. CASE live[c] = None
      BY <1>1, <1>4, <3>1, TimelyEmpty
    <3>2. CASE live[c] # None /\ Uncleaned[c] # {}
      <4>1. w0 = chans[c] /\ chans[c] # None /\ Uncleaned = spent
        BY <1>4, <1>11, <3>2
      <4> QED
        BY <4>1 DEF BeaconInv, SpentInv
    <3> QED
      BY <3>1, <3>2
  <2> QED
    BY <1>16, <1>17, <2>1, <2>2
<1>22. /\ EmptyWindow(t) \in Window /\ Present(EmptyWindow(t).newBSSIDs) = {}
       /\ Timely(EmptyWindow(t), onAir'[c], t)
  BY <1>1, TimelyEmpty
<1>23. /\ chans' \in [Channels -> Window \cup {None}]
       /\ spent' \in [Channels -> SUBSET BSSIDs]
       /\ chans'[c] = IF flood THEN EmptyWindow(t) ELSE w
       /\ spent'[c] = IF flood THEN Uncleaned[c] \cup new ELSE Uncleaned[c]
       /\ \A d \in Channels \ {c} : chans'[d] = live[d] /\ spent'[d] = Uncleaned[d]
  BY <1>9, <1>11, <1>16, <1>17, <1>22
<1>24. t - w.windowStart \in Times
  <2>1. w.windowStart \in Times /\ w.windowStart <= t
    BY <1>16 DEF Window, Timely
  <2> QED
    BY <1>1, <2>1, FramesAssumption DEF Times
<1>25. BeaconTypeOK'
  <2>1. startedAt' \in Times \cup {None}
    BY <1>1, <1>10 DEF BeaconProcess, BeaconTypeOK, Start
  <2>2. beaconCalls' \in 0..(CleanupInterval - 1)
    BY <1>1, CallsType DEF BeaconProcess, BeaconTypeOK
  <2>3. onAir' \in [Channels -> [BSSIDs -> Times \cup {None}]]
    BY <1>1, <1>10 DEF BeaconProcess, BeaconTypeOK
  <2>4. beaconEvent' \in [channel : Channels, bssids : SUBSET BSSIDs, Duration : Times]
                        \cup {None}
    BY <1>9, <1>17, <1>24
  <2> QED
    BY <1>19, <1>23, <2>1, <2>2, <2>3, <2>4 DEF BeaconTypeOK
<1>26. AirInv'
  BY <1>1, <1>10, AirStep DEF AirInv
<1>27. ASSUME NEW d \in Channels, chans'[d] # None PROVE Timely(chans'[d], onAir'[d], now')
  <2>1. CASE d = c
    BY <1>10, <1>16, <1>22, <1>23, <2>1
  <2>2. CASE d # c
    <3>1. chans'[d] = live[d]
      BY <1>23, <2>2
    <3> QED
      BY <1>10, <1>12, <1>27, <3>1
  <2> QED
    BY <2>1, <2>2
<1>28. ASSUME NEW d \in Channels PROVE SpentInv(d)'
  <2>1. ASSUME NEW x \in spent'[d] PROVE known'[x] # None
    <3>1. x \in Uncleaned[d] \/ (flood /\ x \in new)
      BY <1>23, <2>1
    <3> QED
      BY <1>19, <1>20, <3>1
  <2>2. ASSUME chans'[d] # None PROVE Present(chans'[d].newBSSIDs) \cap spent'[d] = {}
    <3>1. CASE d = c /\ flood
      BY <1>22, <1>23, <3>1
    <3>2. CASE d = c /\ ~flood
      BY <1>8, <1>21, <1>23, <3>2
    <3>3. CASE d # c
      <4>1. chans'[d] = live[d] /\ spent'[d] = Uncleaned[d] /\ live[d] = chans[d]
        BY <1>11, <1>23, <2>2, <3>3
      <4>2. Uncleaned[d] = {} \/ Uncleaned[d] = spent[d]
        BY <1>11
      <4> QED
        BY <2>2, <4>1, <4>2 DEF BeaconInv, SpentInv
    <3> QED
      BY <3>1, <3>2, <3>3
  <2> QED
    BY <2>1, <2>2 DEF SpentInv
<1>29. ASSUME beaconEvent' # None
       PROVE  /\ now' - startedAt' >= LearningPeriod
              /\ beaconEvent'.bssids \subseteq Present(onAir'[beaconEvent'.channel])
              /\ Cardinality(beaconEvent'.bssids) >= BeaconThreshold
              /\ beaconEvent'.bssids \cap Uncleaned[beaconEvent'.channel] = {}
  <2>1. flood /\ beaconEvent'.bssids = new /\ beaconEvent'.channel = c
    BY <1>9, <1>29
  <2>2. startedAt' \in Nat /\ ~(t - startedAt' < LearningPeriod)
    <3>1. startedAt' = Start(t)
      BY <1>10 DEF BeaconProcess
    <3>2. Start(t) \in Nat
      BY <1>1, BeaconNumbers DEF BeaconTypeOK, Start
    <3> QED
      BY <1>9, <3>1, <3>2 DEF Learning
  <2>3. ASSUME NEW x \in new PROVE x \in Present(onAir'[c])
    <3>1. /\ w.windowStart \in Nat /\ w.newBSSIDs[x] \in Nat /\ x \in BSSIDs
          /\ x \in Present(w.newBSSIDs)
      BY <1>8, <1>16, BeaconNumbers DEF Window, Present
    <3>2. w.windowStart <= w.newBSSIDs[x]
      BY <1>16, <3>1 DEF Timely
    <3>3. t - w.newBSSIDs[x] <= BeaconWindow
      BY <1>1, <1>15, <1>16, <3>1, <3>2, BeaconNumbers
    <3>4. onAir'[c][x] # None
      BY <1>16, <3>1, <3>3 DEF Timely
    <3> QED
      BY <3>1, <3>4 DEF Present
  <2> QED
    BY <1>1, <1>10, <1>21, <2>1, <2>2, <2>3, BeaconNumbers DEF flood
<1> QED
  BY <1>25, <1>26, <1>27, <1>28, <1>29 DEF BeaconInv, BeaconSound

\* The rule's invariant is kept, and an event is about nobody who was in one before.
LEMMA BeaconStep ==
  ASSUME BeaconInv, now \in Times, [Next]_vars
  PROVE  /\ BeaconInv'
         /\ beaconEvent' # None /\ beaconEvent' # beaconEvent
              => beaconEvent'.bssids \cap Uncleaned[beaconEvent'.channel] = {}
<1>1. /\ now \in Nat /\ now' \in Times /\ now' \in Nat /\ now <= now'
      /\ registered' = registered
  BY Clock
<1>2. ASSUME UNCHANGED <<startedAt, known, chans, beaconCalls, onAir, spent>>,
             beaconEvent' = None
      PROVE  BeaconInv'
  <2>1. BeaconTypeOK /\ BeaconTypeOK'
    BY <1>2 DEF BeaconInv, BeaconTypeOK
  <2>2. ASSUME NEW c \in Channels, NEW x \in BSSIDs, onAir[c][x] # None
        PROVE  onAir[c][x] <= now'
    <3>1. onAir[c][x] \in Nat
      BY <2>1, <2>2, TimesNat DEF BeaconTypeOK
    <3>2. onAir[c][x] <= now
      BY <2>2 DEF BeaconInv, AirInv
    <3> QED
      BY <1>1, <3>1, <3>2
  <2>3. AirInv'
    BY <1>2, <2>2 DEF AirInv
  <2>4. ASSUME NEW c \in Channels, chans[c] # None
        PROVE  Timely(chans[c], onAir[c], now')
    <3>1. /\ chans[c] \in Window /\ onAir[c] \in [BSSIDs -> Times \cup {None}]
          /\ Timely(chans[c], onAir[c], now)
      BY <2>1, <2>4 DEF BeaconInv, BeaconTypeOK
    <3>2. ASSUME NEW x \in BSSIDs, onAir[c][x] # None PROVE onAir[c][x] >= onAir[c][x]
      <4>1. onAir[c][x] \in Nat
        BY <3>1, <3>2, TimesNat
      <4> QED
        BY <4>1
    <3> QED
      BY <1>1, <3>1, <3>2, TimelyLater
  <2>5. \A c \in Channels : SpentInv(c)'
    BY <1>2 DEF BeaconInv, SpentInv
  <2> QED
    BY <1>2, <2>1, <2>3, <2>4, <2>5 DEF BeaconInv, BeaconSound
<1>3. CASE /\ "beacon_flood" \in registered
           /\ \E b \in BSSIDs, c \in Channels : BeaconProcess(b, c, now')
  <2>1. PICK b \in BSSIDs, c \in Channels : BeaconProcess(b, c, now')
    BY <1>3
  <2>2. CASE BeaconKnown(b, now')
    BY <1>1, <2>1, <2>2, BeaconKnownStep
  <2>3. CASE BeaconNew(b, c, now')
    BY <1>1, <1>3, <2>1, <2>3, BeaconNewStep
  <2> QED
    BY <2>1, <2>2, <2>3 DEF BeaconProcess
<1>4. CASE /\ beaconEvent' = None
           /\ UNCHANGED <<startedAt, known, chans, beaconCalls, onAir, spent>>
  BY <1>2, <1>4
<1>5. CASE UNCHANGED beaconVars /\ "beacon_flood" \notin registered
  BY <1>2, <1>5 DEF beaconVars, BeaconInv
<1>6. CASE UNCHANGED <<now, beaconVars>>
  BY <1>1, <1>6 DEF BeaconInv, BeaconTypeOK, AirInv, Timely, SpentInv, BeaconSound, beaconVars
<1> QED
  BY <1>3, <1>4, <1>5, <1>6, BeaconMoves

--------------------------------------------------------------------------------
(* The evil twin rule. *)

\* The records of an SSID: one for an access point, that counts no frame that was not
\* there.
Listed(recs, counts) ==
  /\ recs \in Seq(Record)
  /\ \A i, j \in DOMAIN recs : i # j => recs[i].BSSID # recs[j].BSSID
  /\ \A i \in DOMAIN recs : recs[i].BeaconCount <= counts[recs[i].BSSID]

\* The map of alerts is what was reported, unless a cleanup forgot what is stale.
Agreed(s, p) ==
  \/ alerted[s][p] = reported[s][p]
  \/ alerted[s][p] = None /\ now - reported[s][p] > StaleTimeout

TwinInv ==
  /\ TwinTypeOK
  /\ "evil_twin" \notin registered => twinEvent = None
  /\ \A s \in SSIDs : Listed(records[s], frameCount[s])
  /\ \A s \in SSIDs, p \in Pairs : Agreed(s, p)
  /\ TwinEvidence

\* The numbers of the rule.
LEMMA TwinNumbers ==
  /\ Times \subseteq Nat /\ None \notin Nat /\ None \notin Times
  /\ MinBeacons \in Nat \ {0} /\ StaleTimeout \in Nat \ {0} /\ TwinLearning \in Nat
BY TimesNat, TwinAssumption, FramesAssumption DEF Times

\* Counting stops at MinBeacons, and never goes back.
LEMMA UptoCounts ==
  ASSUME NEW m \in Nat, NEW n \in Nat, m <= n
  PROVE  /\ Upto(m) <= Upto(n)
         /\ Upto(n) \in 0..MinBeacons
         /\ Upto(n + 1) \in 1..MinBeacons
         /\ n <= MinBeacons => n <= Upto(n + 1)
BY TwinNumbers DEF Upto

\* There is an n-th of a set of positions, for as many n as it has members.
LEMMA NthThere ==
  ASSUME NEW m \in Nat, NEW positions \in SUBSET (1..m),
         NEW n \in 1..Cardinality(positions)
  PROVE  /\ Nth(positions, n) \in positions
         /\ Cardinality({j \in positions : j <= Nth(positions, n)}) = n
<1> DEFINE Through(x) == {j \in positions : j <= x}
<1>1. /\ IsFiniteSet(positions) /\ Cardinality(positions) \in Nat /\ n \in Nat
      /\ n <= Cardinality(positions) /\ n >= 1
  <2>1. IsFiniteSet(1..m)
    BY FS_Interval
  <2>2. IsFiniteSet(positions)
    BY <2>1, FS_Subset
  <2>3. Cardinality(positions) \in Nat
    BY <2>2, FS_CardinalityType
  <2> QED
    BY <2>2, <2>3
<1>2. ASSUME NEW x \in Nat
      PROVE  IsFiniteSet(Through(x)) /\ Cardinality(Through(x)) \in Nat
  <2>1. Through(x) \subseteq positions
    OBVIOUS
  <2> QED
    BY <1>1, <2>1, FS_Subset, FS_CardinalityType
<1> DEFINE S == {x \in Nat : Cardinality(Through(x)) >= n}
<1>0. \A j \in positions : j \in Nat /\ 1 <= j /\ j <= m
  OBVIOUS
<1>3. m \in S
  <2>1. Through(m) = positions
    BY <1>0
  <2> QED
    BY <1>1, <2>1
<1>4. PICK i \in S : \A y \in S : i <= y
  <2>1. S \in SUBSET Nat /\ S # {}
    BY <1>3
  <2> QED
    BY <2>1, Least
<1>5. i \in Nat /\ Cardinality(Through(i)) >= n
  OBVIOUS
<1>6. i # 0
  <2>1. SUFFICES ASSUME i = 0 PROVE FALSE
    OBVIOUS
  <2>2. Through(i) = {}
    <3>1. \A j \in positions : ~(j <= i)
      BY <1>0, <2>1
    <3> QED
      BY <3>1
  <2> QED
    BY <1>1, <1>5, <2>2, FS_EmptySet
<1>7. i - 1 \in Nat /\ ~(i <= i - 1)
  BY <1>5, <1>6
<1>8. Cardinality(Through(i - 1)) < n
  <2>1. ~(i - 1 \in S)
    BY <1>4, <1>7
  <2>2. ~(Cardinality(Through(i - 1)) >= n)
    BY <1>7, <2>1
  <2>3. Cardinality(Through(i - 1)) \in Nat
    BY <1>2, <1>7
  <2> HIDE DEF Through
  <2> QED
    BY <1>1, <2>2, <2>3
<1>9. i \in positions
  <2>1. SUFFICES ASSUME i \notin positions PROVE FALSE
    OBVIOUS
  <2>2. Through(i) = Through(i - 1)
    <3>1. \A j \in positions : j <= i <=> j <= i - 1
      BY <1>0, <1>5, <2>1
    <3> QED
      BY <3>1
  <2> QED
    BY <1>1, <1>2, <1>5, <1>7, <1>8, <2>2
<1>10. Cardinality(Through(i)) = n
  <2>1. Through(i) = Through(i - 1) \cup {i} /\ i \notin Through(i - 1)
    <3>1. \A j \in positions : j <= i <=> j <= i - 1 \/ j = i
      BY <1>0, <1>5
    <3> QED
      BY <1>7, <1>9, <3>1
  <2>2. Cardinality(Through(i)) = Cardinality(Through(i - 1)) + 1
    BY <1>2, <1>7, <2>1, FS_AddElement
  <2>3. Cardinality(Through(i - 1)) \in Nat
    BY <1>2, <1>7
  <2> HIDE DEF Through
  <2> QED
    BY <1>1, <1>5, <1>8, <2>2, <2>3
<1> QED
  BY <1>9, <1>10 DEF Nth

\* A cleanup leaves the records it keeps as they were.
LEMMA ActiveListed ==
  ASSUME NEW recs, NEW counts, Listed(recs, counts), NEW t \in Times
  PROVE  Listed(Active(recs, t), counts)
<1> DEFINE keep == {i \in DOMAIN recs : t - recs[i].LastSeen <= StaleTimeout}
           kept == Active(recs, t)
<1>1. /\ recs \in Seq(Record) /\ Len(recs) \in Nat /\ DOMAIN recs = 1..Len(recs)
      /\ keep \in SUBSET (1..Len(recs))
  BY DEF Listed
<1>2. Cardinality(keep) \in Nat
  <2>1. IsFiniteSet(1..Len(recs))
    BY <1>1, FS_Interval
  <2> QED
    BY <1>1, <2>1, FS_Subset, FS_CardinalityType
<1> DEFINE at == [n \in 1..Cardinality(keep) |-> Nth(keep, n)]
<1>3. kept = [n \in 1..Cardinality(keep) |-> recs[at[n]]]
  BY DEF Active
<1>4. ASSUME NEW n \in 1..Cardinality(keep)
      PROVE  /\ at[n] \in 1..Len(recs)
             /\ Cardinality({j \in keep : j <= at[n]}) = n
  <2>1. at[n] = Nth(keep, n)
    OBVIOUS
  <2> HIDE DEF keep, at
  <2>2. Nth(keep, n) \in keep /\ Cardinality({j \in keep : j <= Nth(keep, n)}) = n
    BY <1>1, NthThere
  <2> QED
    BY <1>1, <2>1, <2>2
<1> HIDE DEF keep, kept, at
<1>5. ASSUME NEW n \in 1..Cardinality(keep) PROVE recs[at[n]] \in Record
  <2>1. at[n] \in 1..Len(recs)
    BY <1>4
  <2> QED
    BY <1>1, <2>1
<1>6. kept \in Seq(Record) /\ DOMAIN kept = 1..Cardinality(keep)
  BY <1>2, <1>3, <1>5
<1>7. ASSUME NEW k \in DOMAIN kept, NEW n \in DOMAIN kept, k # n
      PROVE  kept[k].BSSID # kept[n].BSSID
  <2>1. at[k] # at[n]
    <3>1. Cardinality({j \in keep : j <= at[k]}) = k
      BY <1>4, <1>6
    <3>2. Cardinality({j \in keep : j <= at[n]}) = n
      BY <1>4, <1>6
    <3> QED
      BY <1>7, <3>1, <3>2
  <2>2. at[k] \in DOMAIN recs /\ at[n] \in DOMAIN recs
    BY <1>1, <1>4, <1>6
  <2> QED
    BY <1>3, <1>6, <2>1, <2>2 DEF Listed
<1>8. ASSUME NEW n \in DOMAIN kept PROVE kept[n].BeaconCount <= counts[kept[n].BSSID]
  BY <1>1, <1>3, <1>4, <1>6 DEF Listed
<1>9. Listed(kept, counts)
  BY <1>6, <1>7, <1>8 DEF Listed
<1> QED
  BY <1>9 DEF kept

\* What a cleanup leaves of the records and of the alerts.
LEMMA TwinCleanup ==
  ASSUME TwinInv, now \in Nat, NEW t \in Times, now <= t
  PROVE  /\ ActiveRecords(t) = [s \in SSIDs |-> ActiveRecords(t)[s]]
         /\ \A s \in SSIDs : Listed(ActiveRecords(t)[s], frameCount[s])
         /\ ActiveAlerts(t) \in [SSIDs -> [Pairs -> Times \cup {None}]]
         /\ \A s \in SSIDs, p \in Pairs :
              \/ ActiveAlerts(t)[s][p] = reported[s][p]
              \/ ActiveAlerts(t)[s][p] = None /\ t - reported[s][p] > StaleTimeout
<1>1. /\ records \in [SSIDs -> Seq(Record)]
      /\ alerted \in [SSIDs -> [Pairs -> Times \cup {None}]]
      /\ reported \in [SSIDs -> [Pairs -> Times \cup {None}]]
  BY DEF TwinInv, TwinTypeOK
<1>2. ASSUME NEW s \in SSIDs PROVE Listed(ActiveRecords(t)[s], frameCount[s])
  <2>1. Listed(records[s], frameCount[s])
    BY DEF TwinInv
  <2>2. Listed(Active(records[s], t), frameCount[s])
    BY <2>1, ActiveListed
  <2> QED
    BY <2>1, <2>2 DEF ActiveRecords
<1>3. ActiveRecords(t) = [s \in SSIDs |-> ActiveRecords(t)[s]]
  BY <1>1 DEF ActiveRecords
<1>4. ActiveAlerts(t) \in [SSIDs -> [Pairs -> Times \cup {None}]]
  BY <1>1 DEF ActiveAlerts
<1>5. ASSUME NEW s \in SSIDs, NEW p \in Pairs, ActiveAlerts(t)[s][p] # reported[s][p]
      PROVE  ActiveAlerts(t)[s][p] = None /\ t - reported[s][p] > StaleTimeout
  <2>1. t \in Nat /\ StaleTimeout \in Nat
    BY TwinNumbers
  <2>2. \/ ActiveAlerts(t)[s][p] = alerted[s][p]
        \/ ActiveAlerts(t)[s][p] = None /\ t - alerted[s][p] > StaleTimeout
    BY DEF ActiveAlerts
  <2>3. CASE alerted[s][p] = reported[s][p]
    BY <1>5, <2>2, <2>3
  <2>4. CASE alerted[s][p] # reported[s][p]
    <3>1. alerted[s][p] = None /\ now - reported[s][p] > StaleTimeout
      BY <2>4 DEF TwinInv, Agreed
    <3>2. reported[s][p] \in Nat
      BY <1>1, <2>4, <3>1, TwinNumbers
    <3>3. t - reported[s][p] > StaleTimeout
      BY <2>1, <3>1, <3>2
    <3> QED
      BY <2>2, <3>1, <3>3
  <2> QED
    BY <2>3, <2>4
<1> QED
  BY <1>2, <1>3, <1>4, <1>5

\* A frame of an access point leaves its record a record.
LEMMA RefreshedRecord ==
  ASSUME NEW record \in Record, NEW p \in Profile, NEW t \in Times,
         Upto(record.BeaconCount + 1) \in 1..MinBeacons
  PROVE  /\ Refreshed(record, p, t) \in Record
         /\ Refreshed(record, p, t).BSSID = record.BSSID
         /\ Refreshed(record, p, t).BeaconCount = Upto(record.BeaconCount + 1)
<1>1. Updated(record.profile, p) \in Profile
  BY DEF Updated, Profile, Record
<1> QED
  BY <1>1 DEF Refreshed, Record

\* A frame of b is counted in b's record, which there is from then on.
LEMMA RecordedListed ==
  ASSUME NEW recs, NEW counts \in [BSSIDs -> 0..MinBeacons], Listed(recs, counts),
         NEW b \in BSSIDs, NEW p \in Profiles, NEW t \in Times,
         NEW after, after = Recorded(recs, b, p, t),
         NEW later, \A x \in BSSIDs : later[x] = IF x = b THEN Upto(counts[b] + 1)
                                                 ELSE counts[x]
  PROVE  Listed(after, later) /\ \E i \in DOMAIN after : after[i].BSSID = b
<1>1. recs \in Seq(Record) /\ Len(recs) \in Nat /\ DOMAIN recs = 1..Len(recs)
  BY DEF Listed
<1>2. /\ MinBeacons \in Nat \ {0} /\ t \in Times /\ p \in Profile
      /\ counts[b] \in 0..MinBeacons
  BY TwinNumbers, ProfilesAssumption
<1>3. ASSUME NEW i \in DOMAIN recs
      PROVE  /\ recs[i] \in Record /\ recs[i].BSSID \in BSSIDs
             /\ recs[i].BeaconCount \in 1..MinBeacons
             /\ recs[i].BeaconCount <= counts[recs[i].BSSID]
  <2>1. recs[i] \in Record
    BY <1>1
  <2>2. recs[i].BeaconCount <= counts[recs[i].BSSID]
    BY DEF Listed
  <2> QED
    BY <2>1, <2>2 DEF Record
<1>4. CASE \E i \in DOMAIN recs : recs[i].BSSID = b
  <2>1. after = [i \in DOMAIN recs |->
                  IF recs[i].BSSID = b THEN Refreshed(recs[i], p, t) ELSE recs[i]]
    BY <1>4 DEF Recorded
  <2>2. ASSUME NEW i \in DOMAIN recs
        PROVE  /\ after[i] \in Record /\ after[i].BSSID = recs[i].BSSID
               /\ after[i].BeaconCount <= later[recs[i].BSSID]
    <3>1. CASE recs[i].BSSID # b
      <4>1. after[i] = recs[i] /\ later[recs[i].BSSID] = counts[recs[i].BSSID]
        BY <1>3, <2>1, <3>1
      <4> QED
        BY <1>3, <4>1
    <3>2. CASE recs[i].BSSID = b
      <4>1. recs[i] \in Record
        BY <1>3
      <4>2. PICK m \in Nat : m = recs[i].BeaconCount
        BY <1>2, <1>3
      <4>3. Upto(m + 1) \in 1..MinBeacons /\ Upto(m + 1) <= Upto(counts[b] + 1)
        <5>1. /\ counts[b] \in Nat /\ m <= counts[b]
          BY <1>2, <1>3, <3>2, <4>2
        <5>2. /\ m + 1 \in Nat /\ counts[b] + 1 \in Nat /\ m <= m
              /\ m + 1 <= counts[b] + 1
          BY <5>1
        <5> QED
          BY <5>2, UptoCounts
      <4>4. after[i] = Refreshed(recs[i], p, t)
        BY <2>1, <3>2
      <4>5. /\ Refreshed(recs[i], p, t) \in Record
            /\ Refreshed(recs[i], p, t).BSSID = recs[i].BSSID
            /\ Refreshed(recs[i], p, t).BeaconCount = Upto(m + 1)
        BY <1>2, <4>1, <4>2, <4>3, RefreshedRecord
      <4> QED
        BY <3>2, <4>3, <4>4, <4>5
    <3> QED
      BY <3>1, <3>2
  <2>3. after \in Seq(Record) /\ DOMAIN after = DOMAIN recs
    <3>1. DOMAIN after = 1..Len(recs) /\ after = [i \in 1..Len(recs) |-> after[i]]
      BY <1>1, <2>1
    <3>2. \A i \in 1..Len(recs) : after[i] \in Record
      BY <1>1, <2>2
    <3> QED
      BY <1>1, <3>1, <3>2
  <2>4. Listed(after, later)
    BY <2>2, <2>3 DEF Listed
  <2> QED
    BY <1>4, <2>2, <2>3, <2>4
<1>5. CASE ~\E i \in DOMAIN recs : recs[i].BSSID = b
  <2> DEFINE new == [BSSID |-> b, profile |-> p, FirstSeen |-> t, LastSeen |-> t,
                     BeaconCount |-> 1]
  <2>1. after = Append(recs, new)
    BY <1>5 DEF Recorded
  <2>2. new \in Record /\ new.BSSID = b /\ new.BeaconCount = 1
    BY <1>2 DEF Record
  <2> HIDE DEF new
  <2>3. /\ after \in Seq(Record) /\ DOMAIN after = 1..(Len(recs) + 1)
        /\ after[Len(recs) + 1] = new
        /\ \A i \in DOMAIN recs : after[i] = recs[i]
    BY <1>1, <2>1, <2>2
  <2>4. ASSUME NEW i \in DOMAIN after
        PROVE  \/ i \in DOMAIN recs /\ after[i] = recs[i] /\ after[i].BSSID # b
               \/ i = Len(recs) + 1 /\ after[i] = new
    BY <1>1, <1>5, <2>3
  <2>5. ASSUME NEW i \in DOMAIN after, NEW j \in DOMAIN after, i # j
        PROVE  after[i].BSSID # after[j].BSSID
    <3>1. CASE i \in DOMAIN recs /\ j \in DOMAIN recs
      BY <2>3, <2>5, <3>1 DEF Listed
    <3>2. CASE ~(i \in DOMAIN recs /\ j \in DOMAIN recs)
      BY <2>2, <2>4, <2>5, <3>2
    <3> QED
      BY <3>1, <3>2
  <2>6. ASSUME NEW i \in DOMAIN after PROVE after[i].BeaconCount <= later[after[i].BSSID]
    <3>1. CASE i \in DOMAIN recs
      BY <1>3, <1>5, <2>3, <3>1
    <3>2. CASE i = Len(recs) + 1
      <4>1. 1 <= Upto(counts[b] + 1)
        <5>1. counts[b] \in Nat
          BY <1>2
        <5>2. Upto(counts[b] + 1) \in 1..MinBeacons
          BY <5>1, UptoCounts
        <5> QED
          BY <1>2, <5>2
      <4> QED
        BY <2>2, <2>3, <3>2, <4>1
    <3> QED
      BY <2>4, <3>1, <3>2
  <2>7. Len(recs) + 1 \in DOMAIN after
    BY <1>1, <2>3
  <2> QED
    BY <2>2, <2>3, <2>5, <2>6, <2>7 DEF Listed
<1> QED
  BY <1>4, <1>5

\* The two access points of a suspicion are two, and both were heard often enough.
LEMMA SuspectsHeard ==
  ASSUME NEW recs, NEW counts \in [BSSIDs -> 0..MinBeacons], Listed(recs, counts),
         NEW b \in BSSIDs, \E i \in DOMAIN recs : recs[i].BSSID = b, Suspicion(recs, b),
         NEW other, other = FirstObserved(recs, b).BSSID
  PROVE  /\ other \in BSSIDs /\ other # b /\ {b, other} \in Pairs
         /\ counts[b] >= MinBeacons /\ counts[other] >= MinBeacons
<1>1. recs \in Seq(Record) /\ DOMAIN recs \subseteq Nat
  BY DEF Listed
<1>2. ASSUME NEW i \in DOMAIN recs, recs[i].BeaconCount >= MinBeacons
      PROVE  recs[i].BSSID \in BSSIDs /\ counts[recs[i].BSSID] >= MinBeacons
  <2>1. recs[i] \in Record
    BY <1>1
  <2>2. recs[i].BeaconCount <= counts[recs[i].BSSID]
    BY DEF Listed
  <2>3. recs[i].BSSID \in BSSIDs /\ recs[i].BeaconCount \in 1..MinBeacons
    BY <2>1 DEF Record
  <2>4. counts[recs[i].BSSID] \in 0..MinBeacons
    BY <2>3
  <2> QED
    BY <1>2, <2>2, <2>3, <2>4, TwinNumbers
<1>3. PICK i \in DOMAIN recs : recs[i].BSSID = b /\ recs[i].BeaconCount >= MinBeacons
  BY DEF Suspicion, RecordOf
<1>4. PICK j \in DOMAIN recs :
        recs[j].BSSID = other /\ other # b /\ recs[j].BeaconCount >= MinBeacons
  <2>1. PICK j : j = Min(Others(recs, b))
    OBVIOUS
  <2>2. Others(recs, b) \in SUBSET Nat /\ Others(recs, b) # {}
    BY <1>1 DEF Others, Suspicion
  <2>3. j \in Others(recs, b)
    BY <2>1, <2>2, Least
  <2>4. FirstObserved(recs, b) = recs[j]
    BY <2>1 DEF FirstObserved
  <2>5. j \in DOMAIN recs /\ recs[j].BSSID # b
    BY <2>3 DEF Others
  <2> QED
    BY <2>4, <2>5 DEF Suspicion
<1>5. other \in BSSIDs /\ other # b /\ counts[b] >= MinBeacons /\ counts[other] >= MinBeacons
  BY <1>2, <1>3, <1>4
<1>6. Cardinality({b, other}) = 2
  <2>1. PICK S : S = {other}
    OBVIOUS
  <2>2. IsFiniteSet(S) /\ Cardinality(S) = 1
    BY <2>1, FS_Singleton
  <2>3. {b, other} = S \cup {b} /\ b \notin S
    BY <1>5, <2>1
  <2>4. Cardinality(S \cup {b}) = Cardinality(S) + 1
    BY <2>2, <2>3, FS_AddElement
  <2> QED
    BY <2>2, <2>3, <2>4
<1> QED
  BY <1>5, <1>6 DEF Pairs

\* A step of the rule takes in a frame, ignores it, or is none.
LEMMA TwinMoves ==
  ASSUME [Next]_vars
  PROVE  \/ /\ "evil_twin" \in registered
            /\ \E s \in SSIDs, b \in BSSIDs, p \in Profiles : TwinProcess(s, b, p, now')
         \/ TwinIgnore
         \/ UNCHANGED twinVars /\ "evil_twin" \notin registered
         \/ UNCHANGED <<now, twinVars>>
<1>1. CASE \E b \in BSSIDs, s \in SSIDs \cup {None}, p \in Profiles, t \in Times :
             Beacon(b, s, p, t) \/ ProbeResponse(b, s, p, t)
  <2>1. PICK b \in BSSIDs, s \in SSIDs \cup {None}, p \in Profiles, t \in Times :
          Beacon(b, s, p, t) \/ ProbeResponse(b, s, p, t)
    BY <1>1
  <2>2. t = now'
    BY <2>1 DEF Beacon, ProbeResponse, FrameAt
  <2>3. CASE "evil_twin" \in registered /\ s # None
    <3>1. TwinProcess(s, b, p, t)
      BY <2>1, <2>3 DEF Beacon, ProbeResponse, IfRegistered
    <3> QED
      BY <2>1, <2>2, <2>3, <3>1
  <2>4. CASE "evil_twin" \in registered /\ s = None
    BY <2>1, <2>4 DEF Beacon, ProbeResponse, IfRegistered
  <2>5. CASE "evil_twin" \notin registered
    BY <2>1, <2>5 DEF Beacon, ProbeResponse, IfRegistered
  <2> QED
    BY <2>3, <2>4, <2>5
<1>2. CASE \/ \E k \in FloodKeys, t \in Times : Deauth(k, t)
           \/ \E d \in Devices, b \in ProtectedBSSIDs \cup {None}, t \in Times :
                Access(d, b, t)
           \/ \E d \in Devices, s \in ProtectedSSIDs \cup {None}, t \in Times :
                ProbeRequest(d, s, t)
  BY <1>2 DEF Deauth, Access, ProbeRequest, OnlyDevice, IfRegistered
<1>3. CASE UNCHANGED vars
  BY <1>3 DEF vars
<1>4. CASE \E s \in Transmissions, reception \in Receptions :
             \E n \in 0..Len(Body(s)) : Capture(s, n, reception)
  BY <1>4 DEF Capture
<1> QED
  BY <1>1, <1>2, <1>3, <1>4 DEF Next

\* A frame of an access point, the record that counts it, and the event it may complete.
LEMMA TwinProcessStep ==
  ASSUME TwinInv, now \in Nat, now' \in Times, now <= now', registered' = registered,
         "evil_twin" \in registered,
         NEW s \in SSIDs, NEW b \in BSSIDs, NEW p \in Profiles, TwinProcess(s, b, p, now')
  PROVE  /\ TwinInv'
         /\ \A z \in SSIDs, q \in Pairs :
              reported[z][q] # None /\ reported'[z][q] # reported[z][q]
                => now' - reported[z][q] >= StaleTimeout
<1>1. PICK t \in Times : t = now' /\ t \in Nat /\ t # None
  BY TwinNumbers
<1>2. PICK active : active = ActiveRecords(t)
  OBVIOUS
<1>3. PICK alerts : alerts = ActiveAlerts(t)
  OBVIOUS
<1>4. PICK recs : recs = Recorded(active[s], b, p, t)
  OBVIOUS
<1>5. PICK other : other = FirstObserved(recs, b).BSSID
  OBVIOUS
<1>6. PICK start : start = IF twinStart = None THEN t ELSE twinStart
  OBVIOUS
<1> DEFINE pair == {b, other}
           alarm == /\ t - start >= TwinLearning
                    /\ Suspicion(recs, b)
                    /\ ~Quiet(alerts[s][pair], t)
<1>7. /\ twinStart' = start /\ twinCalls' = NextCall(twinCalls)
      /\ records' = [active EXCEPT ![s] = recs]
      /\ frameCount' = [frameCount EXCEPT ![s] =
                          [frameCount[s] EXCEPT ![b] = Upto(frameCount[s][b] + 1)]]
      /\ IF alarm
         THEN /\ alerted' = [alerts EXCEPT ![s] = [alerts[s] EXCEPT ![pair] = t]]
              /\ twinEvent' = [ssid |-> s, suspect |-> b, legitimate |-> other]
              /\ reported' = [reported EXCEPT ![s] = [reported[s] EXCEPT ![pair] = t]]
         ELSE alerted' = alerts /\ twinEvent' = None /\ reported' = reported
  BY <1>1, <1>2, <1>3, <1>4, <1>5, <1>6 DEF TwinProcess
<1> HIDE DEF pair, alarm
<1>8. /\ twinStart \in Times \cup {None}
      /\ frameCount \in [SSIDs -> [BSSIDs -> 0..MinBeacons]]
      /\ reported \in [SSIDs -> [Pairs -> Times \cup {None}]]
  BY DEF TwinInv, TwinTypeOK
<1>9. /\ \A z \in SSIDs : Listed(active[z], frameCount[z])
      /\ active = [z \in SSIDs |-> active[z]]
      /\ alerts \in [SSIDs -> [Pairs -> Times \cup {None}]]
      /\ \A z \in SSIDs, q \in Pairs :
           \/ alerts[z][q] = reported[z][q]
           \/ alerts[z][q] = None /\ t - reported[z][q] > StaleTimeout
  BY <1>1, <1>2, <1>3, TwinCleanup
<1>10. start \in Times
  BY <1>1, <1>6, <1>8
<1>11. twinCalls' \in 0..(CleanupInterval - 1)
  BY <1>7, CallsType DEF TwinInv, TwinTypeOK
<1>12. frameCount' \in [SSIDs -> [BSSIDs -> 0..MinBeacons]]
  <2>1. frameCount[s][b] \in 0..MinBeacons
    BY <1>8
  <2>2. frameCount[s][b] \in Nat /\ frameCount[s][b] + 1 \in Nat
    BY <2>1, TwinNumbers
  <2>3. Upto(frameCount[s][b] + 1) \in 0..MinBeacons
    <3>1. frameCount[s][b] + 1 <= frameCount[s][b] + 1
      BY <2>2
    <3> QED
      BY <2>2, <3>1, UptoCounts
  <2> QED
    BY <1>7, <1>8, <2>3
<1>13. /\ frameCount'[s] \in [BSSIDs -> 0..MinBeacons]
       /\ \A x \in BSSIDs : frameCount'[s][x] = IF x = b THEN Upto(frameCount[s][b] + 1)
                                                ELSE frameCount[s][x]
       /\ \A z \in SSIDs : z # s => frameCount'[z] = frameCount[z]
  BY <1>7, <1>8, <1>12
<1>14. Listed(recs, frameCount'[s]) /\ \E i \in DOMAIN recs : recs[i].BSSID = b
  <2>1. PICK counts : counts = frameCount[s]
    OBVIOUS
  <2>2. PICK later : later = frameCount'[s]
    OBVIOUS
  <2>3. counts \in [BSSIDs -> 0..MinBeacons] /\ Listed(active[s], counts)
    BY <1>8, <1>9, <2>1
  <2>4. \A x \in BSSIDs : later[x] = IF x = b THEN Upto(counts[b] + 1) ELSE counts[x]
    BY <1>13, <2>1, <2>2
  <2>5. Listed(recs, later) /\ \E i \in DOMAIN recs : recs[i].BSSID = b
    BY <1>4, <2>3, <2>4, RecordedListed
  <2> QED
    BY <2>2, <2>5
<1>15. records' = [z \in SSIDs |-> IF z = s THEN recs ELSE active[z]]
  BY <1>7, <1>9
<1>16. \A z \in SSIDs : Listed(records'[z], frameCount'[z])
  BY <1>9, <1>13, <1>14, <1>15
<1>17. /\ records' \in [SSIDs -> Seq(Record)]
       /\ \A z \in SSIDs : \A i, j \in DOMAIN records'[z] :
            i # j => records'[z][i].BSSID # records'[z][j].BSSID
  BY <1>15, <1>16 DEF Listed
<1>18. ASSUME alarm
       PROVE  /\ other \in BSSIDs /\ other # b /\ pair \in Pairs
              /\ frameCount'[s][b] >= MinBeacons /\ frameCount'[s][other] >= MinBeacons
              /\ t - start >= TwinLearning /\ ~Quiet(alerts[s][pair], t)
              /\ twinEvent' = [ssid |-> s, suspect |-> b, legitimate |-> other]
  <2>1. PICK counts : counts = frameCount'[s]
    OBVIOUS
  <2>2. counts \in [BSSIDs -> 0..MinBeacons] /\ Listed(recs, counts)
    BY <1>13, <1>14, <2>1
  <2>3. Suspicion(recs, b) /\ t - start >= TwinLearning /\ ~Quiet(alerts[s][pair], t)
    BY <1>18 DEF alarm
  <2>4. /\ other \in BSSIDs /\ other # b /\ {b, other} \in Pairs
        /\ counts[b] >= MinBeacons /\ counts[other] >= MinBeacons
    BY <1>5, <1>14, <2>2, <2>3, SuspectsHeard
  <2> QED
    BY <1>7, <1>18, <2>1, <2>3, <2>4 DEF pair
<1>19. /\ alerted' \in [SSIDs -> [Pairs -> Times \cup {None}]]
       /\ reported' \in [SSIDs -> [Pairs -> Times \cup {None}]]
       /\ \A z \in SSIDs, q \in Pairs :
            \/ alerted'[z][q] = alerts[z][q] /\ reported'[z][q] = reported[z][q]
            \/ alarm /\ z = s /\ q = pair /\ alerted'[z][q] = t /\ reported'[z][q] = t
  <2>1. CASE alarm
    <3>1. /\ alerted' = [alerts EXCEPT ![s] = [alerts[s] EXCEPT ![pair] = t]]
          /\ reported' = [reported EXCEPT ![s] = [reported[s] EXCEPT ![pair] = t]]
          /\ pair \in Pairs
      BY <1>7, <1>18, <2>1
    <3> QED
      BY <1>8, <1>9, <2>1, <3>1
  <2>2. CASE ~alarm
    BY <1>7, <1>8, <1>9, <2>2
  <2> QED
    BY <2>1, <2>2
<1>20. twinEvent' \in [ssid : SSIDs, suspect : BSSIDs, legitimate : BSSIDs] \cup {None}
  BY <1>7, <1>18
<1>21. TwinTypeOK'
  BY <1>7, <1>10, <1>11, <1>12, <1>17, <1>19, <1>20 DEF TwinTypeOK
<1>22. ASSUME NEW z \in SSIDs, NEW q \in Pairs, alerted'[z][q] # reported'[z][q]
       PROVE  alerted'[z][q] = None /\ t - reported'[z][q] > StaleTimeout
  <2>1. alerted'[z][q] = alerts[z][q] /\ reported'[z][q] = reported[z][q]
    BY <1>19, <1>22
  <2>2. alerts[z][q] = None /\ t - reported[z][q] > StaleTimeout
    BY <1>9, <1>22, <2>1
  <2> QED
    BY <2>1, <2>2
<1>23. TwinEvidence'
  <2>1. CASE alarm
    BY <1>1, <1>7, <1>18, <2>1 DEF TwinEvidence
  <2>2. CASE ~alarm
    BY <1>7, <2>2 DEF TwinEvidence
  <2> QED
    BY <2>1, <2>2
<1>24. ASSUME NEW z \in SSIDs, NEW q \in Pairs, reported[z][q] # None,
              reported'[z][q] # reported[z][q]
       PROVE  t - reported[z][q] >= StaleTimeout
  <2>1. alarm /\ z = s /\ q = pair
    BY <1>19, <1>24
  <2>2. ~(alerts[z][q] # None /\ t - alerts[z][q] < StaleTimeout)
    BY <1>18, <2>1 DEF Quiet
  <2>3. reported[z][q] \in Nat /\ StaleTimeout \in Nat
    BY <1>8, <1>24, TwinNumbers
  <2>4. \/ alerts[z][q] = reported[z][q]
        \/ t - reported[z][q] > StaleTimeout
    BY <1>9
  <2> QED
    BY <1>1, <1>24, <2>2, <2>3, <2>4
<1> QED
  BY <1>1, <1>16, <1>21, <1>22, <1>23, <1>24 DEF TwinInv, Agreed

\* The rule's invariant is kept, and two access points are not reported again too soon.
LEMMA TwinStep ==
  ASSUME TwinInv, now \in Times, [Next]_vars
  PROVE  /\ TwinInv'
         /\ \A z \in SSIDs, q \in Pairs :
              reported[z][q] # None /\ reported'[z][q] # reported[z][q]
                => now' - reported[z][q] >= StaleTimeout
<1>1. /\ now \in Nat /\ now' \in Times /\ now' \in Nat /\ now <= now'
      /\ registered' = registered
  BY Clock
<1>2. ASSUME UNCHANGED <<twinStart, records, alerted, twinCalls, frameCount, reported>>,
             twinEvent' = None
      PROVE  TwinInv' /\ reported' = reported
  <2>1. TwinTypeOK'
    BY <1>2 DEF TwinInv, TwinTypeOK
  <2>2. ASSUME NEW s \in SSIDs, NEW p \in Pairs, alerted[s][p] # reported[s][p]
        PROVE  alerted[s][p] = None /\ now' - reported[s][p] > StaleTimeout
    <3>1. alerted[s][p] = None /\ now - reported[s][p] > StaleTimeout
      BY <2>2 DEF TwinInv, Agreed
    <3>2. reported[s][p] \in Nat /\ StaleTimeout \in Nat
      <4>1. reported \in [SSIDs -> [Pairs -> Times \cup {None}]]
        BY DEF TwinInv, TwinTypeOK
      <4>2. reported[s][p] \in Times \cup {None}
        BY <4>1
      <4> QED
        BY <2>2, <3>1, <4>2, TwinNumbers
    <3> QED
      BY <1>1, <3>1, <3>2
  <2>3. \A s \in SSIDs, p \in Pairs : Agreed(s, p)'
    BY <1>2, <2>2 DEF Agreed
  <2>4. \A s \in SSIDs : Listed(records'[s], frameCount'[s])
    BY <1>2 DEF TwinInv
  <2>5. TwinEvidence'
    BY <1>2 DEF TwinEvidence
  <2> QED
    BY <1>2, <2>1, <2>3, <2>4, <2>5 DEF TwinInv
<1>3. CASE /\ "evil_twin" \in registered
           /\ \E s \in SSIDs, b \in BSSIDs, p \in Profiles : TwinProcess(s, b, p, now')
  BY <1>1, <1>3, TwinProcessStep
<1>4. CASE TwinIgnore
  BY <1>2, <1>4 DEF TwinIgnore
<1>5. CASE UNCHANGED twinVars /\ "evil_twin" \notin registered
  <2>1. twinEvent' = None
    BY <1>5 DEF TwinInv, twinVars
  <2> QED
    BY <1>2, <1>5, <2>1 DEF twinVars
<1>6. CASE UNCHANGED <<now, twinVars>>
  <2>1. UNCHANGED <<now, registered, twinStart, records, alerted, twinCalls, twinEvent,
                    frameCount, reported>>
    BY <1>1, <1>6 DEF twinVars
  <2> QED
    BY <2>1 DEF TwinInv, TwinTypeOK, TwinEvidence, Agreed
<1> QED
  BY <1>3, <1>4, <1>5, <1>6, TwinMoves

--------------------------------------------------------------------------------
(* The parser: the elements in a body are found again. *)

\* The elements from the i-th byte on, given those behind the first.
ElementsFrom(data, from, i) ==
  IF ~Whole(data, i) THEN << >>
  ELSE <<[id |-> data[i], info |-> SubSeq(data, i + 2, i + 1 + data[i + 1])]>>
         \o from[AfterElement(data, i)]

\* An element takes two bytes at least, and ends within the data.
LEMMA ElementForward ==
  ASSUME NEW data \in Seq(Byte), NEW i \in 1..(Len(data) + 1), Whole(data, i)
  PROVE  /\ AfterElement(data, i) \in 1..(Len(data) + 1) /\ i + 2 <= AfterElement(data, i)
         /\ data[i] \in Byte /\ data[i + 1] \in Byte /\ i + 1 \in 1..Len(data)
<1>1. Len(data) \in Nat /\ i \in Nat /\ i > 0 /\ i + 1 <= Len(data)
  BY DEF Whole
<1>2. i \in DOMAIN data /\ i + 1 \in DOMAIN data
  BY <1>1
<1>3. data[i] \in Byte /\ data[i + 1] \in Byte
  BY <1>2
<1> DEFINE size == data[i + 1]
<1>4. size \in Nat
  <2> HIDE DEF size
  <2>1. size \in Byte
    BY <1>3 DEF size
  <2> QED
    BY <2>1 DEF Byte
<1>5. /\ Len(data) > i /\ Len(data) > i + size
      /\ AfterElement(data, i) = i + 2 + size
  BY DEF Whole, AfterElement
<1> HIDE DEF size
<1>6. /\ AfterElement(data, i) \in Nat /\ i + 2 <= AfterElement(data, i)
      /\ AfterElement(data, i) <= Len(data) + 1
  BY <1>1, <1>4, <1>5
<1>7. AfterElement(data, i) \in 1..(Len(data) + 1) /\ i + 1 \in 1..Len(data)
  BY <1>1, <1>6
<1> QED
  BY <1>3, <1>6, <1>7

\* The recursion of IterateIEs has a solution, since every element is behind the one before.
LEMMA IterateIEsUnfolds ==
  ASSUME NEW data \in Seq(Byte)
  PROVE  \E from :
           /\ IterateIEs(data) = from[1]
           /\ \A i \in 1..(Len(data) + 1) : from[i] = ElementsFrom(data, from, i)
<1> DEFINE n == Len(data) + 1
           Solves(g, k) == \A i \in k..n : g[i] = ElementsFrom(data, g, i)
           Solved == {k \in 1..n : \E g : Solves(g, k)}
<1>1. n \in Nat /\ n >= 1
  OBVIOUS
<1>2. n \in Solved
  <2>1. ~Whole(data, n)
    BY DEF Whole
  <2>2. Solves([i \in {n} |-> << >>], n)
    BY <1>1, <2>1 DEF ElementsFrom
  <2> QED
    BY <1>1, <2>2
<1>3. ASSUME NEW k \in Solved, k # 1 PROVE k - 1 \in Solved
  <2>1. k \in 2..n /\ k - 1 \in 1..n
    BY <1>1, <1>3
  <2>2. PICK g : Solves(g, k)
    BY <1>3
  <2> DEFINE h == [i \in k-1..n |-> IF i = k - 1 THEN ElementsFrom(data, g, k - 1) ELSE g[i]]
  <2>3. ASSUME NEW i \in k-1..n PROVE h[i] = ElementsFrom(data, h, i)
    <3>1. h[i] = ElementsFrom(data, g, i)
      BY <1>1, <2>1, <2>2
    <3>2. CASE ~Whole(data, i)
      BY <3>1, <3>2 DEF ElementsFrom
    <3>3. CASE Whole(data, i)
      <4>0. i \in 1..(Len(data) + 1)
        BY <2>1
      <4>1. AfterElement(data, i) \in 1..(Len(data) + 1) /\ i + 2 <= AfterElement(data, i)
        BY <4>0, <3>3, ElementForward
      <4>2. AfterElement(data, i) \in k..n /\ AfterElement(data, i) # k - 1
        BY <2>1, <4>0, <4>1
      <4>3. h[AfterElement(data, i)] = g[AfterElement(data, i)]
        BY <2>1, <4>2
      <4> QED
        BY <3>1, <4>3 DEF ElementsFrom
    <3> QED
      BY <3>2, <3>3
  <2>4. Solves(h, k - 1)
    BY <2>3
  <2> QED
    BY <2>1, <2>4
<1>4. 1 \in Solved
  <2>1. Solved \in SUBSET Nat /\ Solved # {}
    BY <1>1, <1>2
  <2>2. Min(Solved) \in Solved /\ \A k \in Solved : Min(Solved) <= k
    BY <2>1, Least
  <2>3. Min(Solved) \in Nat
    BY <2>1, <2>2
  <2>4. Min(Solved) - 1 \notin Solved
    BY <2>2, <2>3
  <2> QED
    BY <1>3, <2>2, <2>4
<1>5. PICK g : Solves(g, 1)
  BY <1>4
<1> DEFINE from == CHOOSE f : f = [i \in 1..(Len(data) + 1) |-> ElementsFrom(data, f, i)]
           first == [i \in 1..(Len(data) + 1) |-> g[i]]
<1>6. first = [i \in 1..(Len(data) + 1) |-> ElementsFrom(data, first, i)]
  <2> SUFFICES ASSUME NEW i \in 1..n PROVE first[i] = ElementsFrom(data, first, i)
    OBVIOUS
  <2>1. first[i] = ElementsFrom(data, g, i)
    BY <1>5
  <2>2. CASE Whole(data, i)
    <3>1. first[AfterElement(data, i)] = g[AfterElement(data, i)]
      <4>1. AfterElement(data, i) \in 1..(Len(data) + 1)
        BY <2>2, ElementForward
      <4> QED
        BY <4>1
    <3> HIDE DEF first
    <3> QED
      BY <2>1, <3>1 DEF ElementsFrom
  <2> QED
    BY <2>1, <2>2 DEF ElementsFrom
<1>7. from = [i \in 1..(Len(data) + 1) |-> ElementsFrom(data, from, i)]
  <2> HIDE DEF first
  <2> QED
    BY <1>6, Zenon
<1>8. IterateIEs(data) = from[1]
  BY Zenon DEF IterateIEs, ElementsFrom
<1>9. \A i \in 1..(Len(data) + 1) : from[i] = ElementsFrom(data, from, i)
  <2> HIDE DEF from
  <2> QED
    BY <1>7
<1> QED
  BY <1>8, <1>9

\* What holds of 0 and, with any number below n, of the next holds up to n.
LEMMA Induction ==
  ASSUME NEW n \in Nat, NEW S, 0 \in S, \A i \in 0..(n - 1) : i \in S => i + 1 \in S
  PROVE  \A i \in 0..n : i \in S
<1> DEFINE Out == {i \in 0..n : i \notin S}
<1>1. CASE Out = {}
  BY <1>1
<1>2. CASE Out # {}
  <2>1. Out \in SUBSET Nat
    OBVIOUS
  <2>2. Min(Out) \in Out /\ \A i \in Out : Min(Out) <= i
    BY <1>2, <2>1, Least
  <2> DEFINE m == Min(Out)
  <2> HIDE DEF m
  <2>3. m \in 0..n /\ m \notin S /\ \A i \in Out : m <= i
    BY <2>2 DEF m
  <2>4. m # 0
    BY <2>3
  <2>5. m - 1 \in 0..(n - 1) /\ m - 1 \in 0..n /\ ~(m <= m - 1)
    BY <2>3, <2>4
  <2>6. m - 1 \in S
    BY <2>3, <2>5
  <2>7. m - 1 + 1 = m
    BY <2>3
  <2> QED
    BY <2>3, <2>5, <2>6, <2>7
<1> QED
  BY <1>1, <1>2

\* What two sequences make one after the other.
LEMMA Concatenation ==
  ASSUME NEW S, NEW a \in Seq(S), NEW b \in Seq(S)
  PROVE  /\ a \o b \in Seq(S) /\ Len(a \o b) = Len(a) + Len(b)
         /\ Len(a) \in Nat /\ Len(b) \in Nat
         /\ \A x \in 1..Len(a) : (a \o b)[x] = a[x]
         /\ \A x \in 1..Len(b) : (a \o b)[Len(a) + x] = b[x]
OBVIOUS

\* An element in bytes.
LEMMA BytesOfElement ==
  ASSUME NEW e \in SentElement
  PROVE  /\ Bytes(e) \in Seq(Byte) /\ Len(Bytes(e)) = 2 + Len(e.info)
         /\ Bytes(e)[1] = e.id /\ Bytes(e)[2] = Len(e.info)
         /\ \A x \in 1..Len(e.info) : Bytes(e)[2 + x] = e.info[x]
         /\ e.info \in Seq(Byte) /\ Len(e.info) \in Nat /\ e.id \in Byte
<1>1. e.info \in Seq(Byte) /\ Len(e.info) \in Byte /\ e.id \in Byte
  BY DEF SentElement
<1>2. Len(e.info) \in Nat
  BY <1>1
<1> DEFINE head == <<e.id, Len(e.info)>>
<1>3. head \in Seq(Byte) /\ Len(head) = 2 /\ head[1] = e.id /\ head[2] = Len(e.info)
  BY <1>1
<1>4. Bytes(e) = head \o e.info
  BY DEF Bytes
<1> HIDE DEF head
<1> DEFINE info == e.info
<1>5. info \in Seq(Byte)
  BY <1>1
<1> HIDE DEF info
<1>6. /\ head \o info \in Seq(Byte) /\ Len(head \o info) = Len(head) + Len(info)
      /\ \A x \in 1..Len(head) : (head \o info)[x] = head[x]
      /\ \A x \in 1..Len(info) : (head \o info)[Len(head) + x] = info[x]
  <2>1. head \in Seq(Byte)
    BY <1>3
  <2> HIDE DEF Byte
  <2> QED
    BY <2>1, <1>5, Concatenation
<1>7. 1 \in 1..Len(head) /\ 2 \in 1..Len(head)
  BY <1>3
<1>8. (head \o info)[1] = head[1] /\ (head \o info)[2] = head[2]
  BY <1>6, <1>7
<1> QED
  BY <1>1, <1>2, <1>3, <1>4, <1>6, <1>8 DEF info

\* The recursion of Encoding has a solution.
LEMMA EncodingUnfolds ==
  ASSUME NEW ies \in Seq(SentElement)
  PROVE  /\ Encoding(ies)[0] = << >>
         /\ \A i \in 1..Len(ies) : Encoding(ies)[i] = Encoding(ies)[i - 1] \o Bytes(ies[i])
<1> DEFINE n == Len(ies)
           Step(g, i) == IF i = 0 THEN << >> ELSE g[i - 1] \o Bytes(ies[i])
           Solves(g, k) == \A i \in 0..k : g[i] = Step(g, i)
           Solved == {k \in 0..n : \E g : Solves(g, k)}
<1>1. n \in Nat
  OBVIOUS
<1>2. 0 \in Solved
  <2>1. Solves([i \in {0} |-> << >>], 0)
    OBVIOUS
  <2>2. 0 \in 0..n
    BY <1>1
  <2> HIDE DEF Solves
  <2> QED
    BY <2>1, <2>2
<1>3. ASSUME NEW k \in 0..(n - 1), k \in Solved PROVE k + 1 \in Solved
  <2>1. PICK g : Solves(g, k)
    BY <1>3
  <2> DEFINE h == [i \in 0..(k + 1) |-> IF i = k + 1 THEN Step(g, k + 1) ELSE g[i]]
  <2>2. ASSUME NEW i \in 0..(k + 1) PROVE h[i] = Step(h, i)
    <3>1. h[i] = Step(g, i)
      BY <1>1, <2>1
    <3>2. CASE i = 0
      BY <3>1, <3>2
    <3>3. CASE i # 0
      <4>1. i - 1 \in 0..(k + 1) /\ i - 1 # k + 1
        BY <1>1, <3>3
      <4>2. h[i - 1] = g[i - 1]
        BY <4>1
      <4> QED
        BY <3>1, <4>2
    <3> QED
      BY <3>2, <3>3
  <2>3. Solves(h, k + 1)
    BY <2>2
  <2>4. k + 1 \in 0..n
    BY <1>1
  <2> QED
    BY <2>3, <2>4
<1>4. n \in Solved
  <2> HIDE DEF Solved, n
  <2>1. \A i \in 0..n : i \in Solved
    BY <1>1, <1>2, <1>3, Induction
  <2> QED
    BY <1>1, <2>1
<1>5. PICK g : Solves(g, n)
  BY <1>4
<1> DEFINE upto == CHOOSE f :
                     f = [i \in 0..Len(ies) |-> IF i = 0 THEN << >> ELSE f[i - 1] \o Bytes(ies[i])]
           first == [i \in 0..n |-> g[i]]
<1>6. first = [i \in 0..n |-> Step(first, i)]
  <2> SUFFICES ASSUME NEW i \in 0..n PROVE first[i] = Step(first, i)
    OBVIOUS
  <2>1. first[i] = Step(g, i)
    BY <1>5
  <2>2. CASE i # 0
    <3>1. i - 1 \in 0..n
      BY <1>1, <2>2
    <3> QED
      BY <2>1, <3>1
  <2> QED
    BY <2>1, <2>2
<1>7. upto = [i \in 0..Len(ies) |-> IF i = 0 THEN << >> ELSE upto[i - 1] \o Bytes(ies[i])]
  <2> HIDE DEF first
  <2> QED
    BY <1>6, Zenon
<1>8. Encoding(ies) = upto
  BY Zenon DEF Encoding
<1> HIDE DEF upto
<1>9. ASSUME NEW i \in 0..n
      PROVE  upto[i] = IF i = 0 THEN << >> ELSE upto[i - 1] \o Bytes(ies[i])
  BY <1>7
<1>10. 0 \in 0..n /\ \A i \in 1..n : i \in 0..n /\ i # 0
  BY <1>1
<1> QED
  BY <1>8, <1>9, <1>10

\* What the elements from the first on come to in bytes.
LEMMA EncodingType ==
  ASSUME NEW ies \in Seq(SentElement)
  PROVE  \A i \in 0..Len(ies) : Encoding(ies)[i] \in Seq(Byte)
<1> DEFINE u == Encoding(ies)
           S == {i \in Nat : u[i] \in Seq(Byte)}
<1>1. Len(ies) \in Nat
  OBVIOUS
<1>2. 0 \in S
  <2>1. u[0] = << >>
    BY EncodingUnfolds
  <2> HIDE DEF u
  <2>2. u[0] \in Seq(Byte)
    BY <2>1
  <2> QED
    BY <2>2
<1>3. ASSUME NEW i \in 0..(Len(ies) - 1), i \in S PROVE i + 1 \in S
  <2>1. i + 1 \in 1..Len(ies) /\ (i + 1) - 1 = i
    BY <1>1
  <2>2. u[i + 1] = u[i] \o Bytes(ies[i + 1])
    <3>1. \A j \in 1..Len(ies) : u[j] = u[j - 1] \o Bytes(ies[j])
      BY EncodingUnfolds
    <3>2. u[i + 1] = u[(i + 1) - 1] \o Bytes(ies[i + 1])
      BY <2>1, <3>1, Zenon
    <3> QED
      BY <2>1, <3>2
  <2>3. ies[i + 1] \in SentElement
    BY <2>1
  <2>4. Bytes(ies[i + 1]) \in Seq(Byte)
    BY <2>3, BytesOfElement
  <2>5. u[i] \in Seq(Byte)
    BY <1>3
  <2> HIDE DEF u
  <2>6. u[i + 1] \in Seq(Byte)
    BY <2>2, <2>4, <2>5
  <2> QED
    BY <2>6
<1> HIDE DEF S
<1>4. \A i \in 0..Len(ies) : i \in S
  BY <1>1, <1>2, <1>3, Induction
<1> QED
  BY <1>4 DEF S

\* Encoding, for what follows: u is the encoding of the elements in ies.
IsEncoding(ies, u) ==
  /\ u[0] = << >>
  /\ \A i \in 0..Len(ies) : u[i] \in Seq(Byte)
  /\ \A i \in 1..Len(ies) :
       /\ i - 1 \in 0..Len(ies)
       /\ Len(u[i - 1]) \in Nat /\ Len(ies[i].info) \in Nat
       /\ Len(u[i]) = Len(u[i - 1]) + 2 + Len(ies[i].info)
       /\ \A x \in 1..Len(u[i - 1]) : u[i][x] = u[i - 1][x]
       /\ u[i][Len(u[i - 1]) + 1] = ies[i].id
       /\ u[i][Len(u[i - 1]) + 2] = Len(ies[i].info)
       /\ \A x \in 1..Len(ies[i].info) : u[i][Len(u[i - 1]) + 2 + x] = ies[i].info[x]

LEMMA EncodingIsEncoding ==
  ASSUME NEW ies \in Seq(SentElement)
  PROVE  IsEncoding(ies, Encoding(ies))
<1> DEFINE u == Encoding(ies)
<1>1. u[0] = << >> /\ \A i \in 1..Len(ies) : u[i] = u[i - 1] \o Bytes(ies[i])
  BY EncodingUnfolds
<1>2. \A i \in 0..Len(ies) : u[i] \in Seq(Byte)
  BY EncodingType
<1> HIDE DEF u
<1> SUFFICES IsEncoding(ies, u)
  BY DEF u
<1>3. ASSUME NEW i \in 1..Len(ies)
      PROVE  /\ i - 1 \in 0..Len(ies)
             /\ Len(u[i - 1]) \in Nat /\ Len(ies[i].info) \in Nat
             /\ Len(u[i]) = Len(u[i - 1]) + 2 + Len(ies[i].info)
             /\ \A x \in 1..Len(u[i - 1]) : u[i][x] = u[i - 1][x]
             /\ u[i][Len(u[i - 1]) + 1] = ies[i].id
             /\ u[i][Len(u[i - 1]) + 2] = Len(ies[i].info)
             /\ \A x \in 1..Len(ies[i].info) : u[i][Len(u[i - 1]) + 2 + x] = ies[i].info[x]
  <2> DEFINE a == u[i - 1]
             e == ies[i]
             b == Bytes(e)
  <2>1. i - 1 \in 0..Len(ies) /\ e \in SentElement
    OBVIOUS
  <2>2. a \in Seq(Byte)
    BY <1>2, <2>1
  <2>3. u[i] = a \o b
    BY <1>1
  <2> HIDE DEF a, e, b
  <2>4. /\ b \in Seq(Byte) /\ Len(b) = 2 + Len(e.info) /\ b[1] = e.id /\ b[2] = Len(e.info)
        /\ \A x \in 1..Len(e.info) : b[2 + x] = e.info[x]
        /\ Len(e.info) \in Nat
    BY <2>1, BytesOfElement DEF b
  <2>5. /\ Len(a \o b) = Len(a) + Len(b) /\ Len(a) \in Nat
        /\ \A x \in 1..Len(a) : (a \o b)[x] = a[x]
        /\ \A x \in 1..Len(b) : (a \o b)[Len(a) + x] = b[x]
    <3>1. b \in Seq(Byte)
      BY <2>4
    <3> HIDE DEF Byte
    <3> QED
      BY <2>2, <3>1, Concatenation
  <2> DEFINE size == Len(e.info)
             c == a \o b
  <2> HIDE DEF size, c
  <2>6. size \in Nat /\ Len(b) = 2 + size
    BY <2>4 DEF size
  <2>7. 1 \in 1..Len(b) /\ 2 \in 1..Len(b) /\ \A x \in 1..size : 2 + x \in 1..Len(b)
    BY <2>6
  <2>8. \A x \in 1..size : Len(a) + (2 + x) = Len(a) + 2 + x
    BY <2>5, <2>6
  <2>9. c[Len(a) + 1] = b[1] /\ c[Len(a) + 2] = b[2]
    BY <2>5, <2>7 DEF c
  <2>10. ASSUME NEW x \in 1..size PROVE c[Len(a) + 2 + x] = e.info[x]
    <3>1. c[Len(a) + (2 + x)] = b[2 + x]
      BY <2>5, <2>7 DEF c
    <3>2. b[2 + x] = e.info[x]
      BY <2>4 DEF size
    <3> QED
      BY <2>8, <3>1, <3>2
  <2>11. Len(c) = Len(a) + 2 + size
    BY <2>5, <2>6 DEF c
  <2> QED
    BY <2>1, <2>3, <2>4, <2>5, <2>9, <2>10, <2>11 DEF a, e, c, size
<1> QED
  BY <1>1, <1>2, <1>3 DEF IsEncoding

\* The bytes of fewer elements are those of more, up to where they end.
LEMMA Prefix ==
  ASSUME NEW ies \in Seq(SentElement), NEW u, IsEncoding(ies, u),
         NEW i \in 0..Len(ies), NEW j \in 0..Len(ies), i <= j
  PROVE  /\ Len(u[i]) \in Nat /\ Len(u[j]) \in Nat /\ Len(u[i]) <= Len(u[j])
         /\ \A x \in 1..Len(u[i]) : u[j][x] = u[i][x]
<1> DEFINE S == {d \in Nat : /\ Len(u[i]) <= Len(u[i + d])
                             /\ \A x \in 1..Len(u[i]) : u[i + d][x] = u[i][x]}
           n == Len(ies) - i
<1>1. n \in Nat /\ Len(ies) \in Nat
  OBVIOUS
<1>2. \A k \in 0..Len(ies) : Len(u[k]) \in Nat
  BY DEF IsEncoding
<1>3. 0 \in S
  <2>1. i + 0 = i /\ Len(u[i]) <= Len(u[i])
    BY <1>2
  <2> QED
    BY <2>1
<1>4. ASSUME NEW d \in 0..(n - 1), d \in S PROVE d + 1 \in S
  <2> DEFINE k == i + (d + 1)
  <2>1. k \in 1..Len(ies) /\ i + d \in 0..Len(ies) /\ k - 1 = i + d
    BY <1>1
  <2> HIDE DEF k
  <2>2. /\ Len(ies[k].info) \in Nat
        /\ Len(u[k]) = Len(u[k - 1]) + 2 + Len(ies[k].info)
        /\ \A x \in 1..Len(u[k - 1]) : u[k][x] = u[k - 1][x]
    BY <2>1 DEF IsEncoding
  <2>3. Len(u[i]) <= Len(u[k - 1]) /\ \A x \in 1..Len(u[i]) : u[k - 1][x] = u[i][x]
    BY <1>4, <2>1
  <2>4. Len(u[i]) \in Nat /\ Len(u[k - 1]) \in Nat
    BY <1>2, <2>1
  <2>5. Len(u[i]) <= Len(u[k])
    <3> DEFINE size == Len(ies[k].info)
    <3>1. size \in Nat /\ Len(u[k]) = Len(u[k - 1]) + 2 + size
      BY <2>2
    <3> DEFINE least == Len(u[i])
               most  == Len(u[k - 1])
    <3>2. least \in Nat /\ most \in Nat /\ least <= most
      BY <2>3, <2>4
    <3>3. Len(u[k]) = most + 2 + size
      BY <3>1
    <3> HIDE DEF size, least, most
    <3>4. least <= most + 2 + size
      BY <3>1, <3>2
    <3> QED
      BY <3>3, <3>4 DEF least
  <2>6. ASSUME NEW x \in 1..Len(u[i]) PROVE u[k][x] = u[i][x]
    <3>1. x \in 1..Len(u[k - 1])
      BY <2>3, <2>4
    <3> QED
      BY <2>2, <2>3, <3>1
  <2> QED
    BY <2>5, <2>6 DEF k
<1> HIDE DEF S
<1>5. \A d \in 0..n : d \in S
  BY <1>1, <1>3, <1>4, Induction
<1>6. j - i \in 0..n /\ i + (j - i) = j
  BY <1>1
<1> QED
  BY <1>2, <1>5, <1>6 DEF S

\* n entries of a sequence behind the q-th.
LEMMA Extract ==
  ASSUME NEW S, NEW data \in Seq(S), NEW q \in Nat, NEW n \in Nat, q + n <= Len(data)
  PROVE  /\ Len(SubSeq(data, q + 1, q + n)) = n /\ SubSeq(data, q + 1, q + n) \in Seq(S)
         /\ \A x \in 1..n : SubSeq(data, q + 1, q + n)[x] = data[q + x]
<1> DEFINE first == q + 1
           last  == q + n
<1>1. first \in Nat /\ last \in Nat /\ 1 <= first /\ last <= Len(data)
  OBVIOUS
<1>2. last - first + 1 = n /\ first <= last + 1 /\ \A x \in 1..n : first + x - 1 = q + x
  OBVIOUS
<1> HIDE DEF first, last
<1>3. SubSeq(data, first, last) \in Seq(S)
  BY <1>1
<1>4. Len(SubSeq(data, first, last)) = n
  BY <1>1, <1>2
<1>5. \A x \in 1..n : SubSeq(data, first, last)[x] = data[first + x - 1]
  BY SMTT(30), <1>1, <1>2
<1> QED
  BY <1>2, <1>3, <1>4, <1>5 DEF first, last

\* Two sequences of one length and the same entries are one.
LEMMA SameEntries ==
  ASSUME NEW S, NEW a \in Seq(S), NEW b \in Seq(S), Len(a) = Len(b),
         \A x \in 1..Len(a) : a[x] = b[x]
  PROVE  a = b
OBVIOUS

\* The first k bytes of all the elements hold those up to some number, and not the next.
LEMMA HeldUpTo ==
  ASSUME NEW ies \in Seq(SentElement), NEW u, IsEncoding(ies, u), NEW k \in Nat
  PROVE  \E r \in 0..Len(ies) : /\ Len(u[r]) <= k
                                /\ {i \in 1..Len(ies) : Len(u[i]) <= k} = 1..r
                                /\ r < Len(ies) => Len(u[r + 1]) > k
<1> DEFINE Held == {i \in 0..Len(ies) : Len(u[i]) <= k}
           Behind == {i \in 0..Len(ies) : Len(u[i]) > k}
<1>1. Len(ies) \in Nat
  OBVIOUS
<1>2. \A i \in 0..Len(ies) : Len(u[i]) \in Nat
  BY DEF IsEncoding
<1>3. Len(u[0]) = 0
  BY DEF IsEncoding
<1>4. \A i, j \in 0..Len(ies) : i <= j => Len(u[i]) <= Len(u[j])
  BY Prefix
<1>5. CASE Behind = {}
  <2>1. \A i \in 0..Len(ies) : Len(u[i]) <= k
    BY <1>2, <1>5
  <2>2. {i \in 1..Len(ies) : Len(u[i]) <= k} = 1..Len(ies)
    BY <1>1, <2>1
  <2>3. Len(ies) \in 0..Len(ies) /\ ~(Len(ies) < Len(ies))
    BY <1>1
  <2> QED
    BY <2>1, <2>2, <2>3
<1>6. CASE Behind # {}
  <2> DEFINE m == Min(Behind)
  <2>1. Behind \in SUBSET Nat
    OBVIOUS
  <2>2. m \in Behind /\ \A i \in Behind : m <= i
    BY <1>6, <2>1, Least
  <2> HIDE DEF m
  <2>3. m \in 0..Len(ies) /\ Len(u[m]) > k
    BY <2>2
  <2>4. m # 0
    BY <1>3, <2>3
  <2> DEFINE r == m - 1
  <2>5. r \in 0..Len(ies) /\ r + 1 = m /\ r < m /\ r < Len(ies)
    BY <2>3, <2>4
  <2> HIDE DEF r
  <2>6. Len(u[r]) <= k
    <3>1. r \notin Behind
      BY <2>2, <2>3, <2>5
    <3> QED
      BY <1>2, <2>5, <3>1
  <2>7. ASSUME NEW i \in 1..Len(ies), Len(u[i]) <= k PROVE i \in 1..r
    <3>1. i \in 0..Len(ies)
      OBVIOUS
    <3>2. m <= i => Len(u[m]) <= Len(u[i])
      BY <1>4, <2>3, <3>1
    <3>3. ~(m <= i)
      BY <1>2, <2>3, <2>7, <3>1, <3>2
    <3> QED
      BY <2>3, <2>5, <3>3
  <2>8. ASSUME NEW i \in 1..r PROVE i \in 1..Len(ies) /\ Len(u[i]) <= k
    <3>1. i \in 0..Len(ies) /\ i <= r /\ i \in 1..Len(ies)
      BY <2>5
    <3>2. Len(u[i]) <= Len(u[r])
      BY <1>4, <2>5, <3>1
    <3> QED
      BY <1>2, <2>5, <2>6, <3>1, <3>2
  <2>9. {i \in 1..Len(ies) : Len(u[i]) <= k} = 1..r
    BY <2>7, <2>8
  <2> QED
    BY <2>3, <2>5, <2>6, <2>9
<1> QED
  BY <1>5, <1>6

\* An element of which the first k bytes hold the length byte is where it was put.
LEMMA InPlace ==
  ASSUME NEW ies \in Seq(SentElement), NEW u, IsEncoding(ies, u),
         NEW k \in 0..Len(u[Len(ies)]), NEW m \in 1..Len(ies)
  PROVE  LET q    == Len(u[m - 1])
             data == SubSeq(u[Len(ies)], 1, k) IN
         /\ q + 2 <= k => /\ data[q + 1] = ies[m].id
                          /\ data[(q + 1) + 1] = Len(ies[m].info)
         /\ Len(u[m]) <= k =>
              SubSeq(data, q + 3, q + 2 + Len(ies[m].info)) = ies[m].info
<1> DEFINE q    == Len(u[m - 1])
           all  == u[Len(ies)]
           data == SubSeq(all, 1, k)
<1>1. m \in 0..Len(ies) /\ m - 1 \in 0..Len(ies) /\ Len(ies) \in 0..Len(ies) /\ m <= Len(ies)
  OBVIOUS
<1> DEFINE w == u[m]
           info == ies[m].info
           size == Len(info)
<1>2. /\ q \in Nat /\ size \in Nat /\ Len(w) = q + 2 + size
      /\ w[q + 1] = ies[m].id /\ w[q + 2] = size
      /\ \A x \in 1..size : w[q + 2 + x] = info[x]
  BY DEF IsEncoding
<1>3. /\ Len(all) \in Nat /\ Len(w) <= Len(all) /\ \A x \in 1..Len(w) : all[x] = w[x]
  BY <1>1, Prefix
<1>4. all \in Seq(Byte)
  BY <1>1 DEF IsEncoding
<1>5. k \in Nat /\ k <= Len(all)
  BY <1>3
<1>6. data \in Seq(Byte) /\ Len(data) = k /\ \A x \in 1..k : data[x] = all[x]
  <2> HIDE DEF Byte
  <2> QED
    BY <1>3, <1>4, <1>5
<1>7. info \in Seq(Byte)
  <2>1. ies[m] \in SentElement
    OBVIOUS
  <2> QED
    BY <2>1, BytesOfElement
<1> HIDE DEF q, all, data, w, info, size
<1>8. ASSUME q + 2 <= k PROVE data[q + 1] = ies[m].id /\ data[q + 2] = size
  <2>1. /\ q + 1 \in 1..k /\ q + 2 \in 1..k
        /\ q + 1 \in 1..Len(w) /\ q + 2 \in 1..Len(w)
    BY <1>2, <1>5, <1>8
  <2> QED
    BY <1>2, <1>3, <1>6, <2>1
<1>9. ASSUME Len(w) <= k PROVE SubSeq(data, q + 3, q + 2 + size) = info
  <2> DEFINE c == SubSeq(data, q + 3, q + 2 + size)
  <2>1. q + 3 \in Nat /\ q + 2 + size <= Len(data) /\ q + 3 >= 1 /\ q + 2 + size \in Nat
    BY <1>2, <1>3, <1>5, <1>6, <1>9
  <2>2. /\ Len(c) = size /\ c \in Seq(Byte)
        /\ \A x \in 1..size : c[x] = data[q + 2 + x]
    <3> DEFINE p == q + 2
    <3>1. p \in Nat /\ q + 3 = p + 1 /\ p + size <= Len(data)
      BY <1>2, <2>1
    <3>2. data \in Seq(Byte) /\ size \in Nat
      BY <1>2, <1>6
    <3> HIDE DEF p, Byte
    <3>3. /\ Len(SubSeq(data, p + 1, p + size)) = size
          /\ SubSeq(data, p + 1, p + size) \in Seq(Byte)
          /\ \A x \in 1..size : SubSeq(data, p + 1, p + size)[x] = data[p + x]
      BY <3>1, <3>2, Extract
    <3> QED
      BY <3>1, <3>3 DEF p
  <2> HIDE DEF c
  <2>3. ASSUME NEW x \in 1..size PROVE c[x] = info[x]
    <3>1. q + 2 + x \in 1..k /\ q + 2 + x \in 1..Len(w)
      BY <1>2, <1>5, <1>9
    <3>2. data[q + 2 + x] = w[q + 2 + x]
      BY <1>3, <1>6, <3>1
    <3> QED
      BY <1>2, <2>2, <3>2
  <2>4. Len(info) = size
    BY DEF size
  <2>5. c = info
    <3> HIDE DEF Byte
    <3>1. c \in Seq(Byte) /\ Len(c) = Len(info) /\ \A x \in 1..Len(c) : c[x] = info[x]
      BY <2>2, <2>3, <2>4
    <3> QED
      BY <1>7, <3>1, SameEntries
  <2> QED
    BY <2>5 DEF c
<1>10. (q + 1) + 1 = q + 2
  BY <1>2
<1> QED
  BY <1>8, <1>9, <1>10 DEF q, all, data, w, info, size

\* An entry and those that follow it.
LEMMA Prepend ==
  ASSUME NEW S, NEW s \in Seq(S), NEW m \in 1..Len(s), NEW r \in 0..Len(s), m <= r
  PROVE  <<s[m]>> \o SubSeq(s, m + 1, r) = SubSeq(s, m, r)
<1> DEFINE rest == SubSeq(s, m + 1, r)
           both == SubSeq(s, m, r)
<1>1. m \in Nat /\ r \in Nat /\ r - m \in Nat /\ r <= Len(s) /\ Len(s) \in Nat
  OBVIOUS
<1>2. rest \in Seq(S) /\ Len(rest) = r - m /\ \A x \in 1..(r - m) : rest[x] = s[m + x]
  <2>1. m + (r - m) = r
    BY <1>1
  <2> QED
    BY <1>1, <2>1, Extract
<1>3. /\ both \in Seq(S) /\ Len(both) = r - m + 1
      /\ \A x \in 1..(r - m + 1) : both[x] = s[m - 1 + x]
  <2> DEFINE p == m - 1
             n == r - m + 1
  <2>1. p \in Nat /\ n \in Nat /\ p + 1 = m /\ p + n = r /\ p + n <= Len(s)
    BY <1>1
  <2> HIDE DEF p, n
  <2>2. /\ Len(SubSeq(s, p + 1, p + n)) = n /\ SubSeq(s, p + 1, p + n) \in Seq(S)
        /\ \A x \in 1..n : SubSeq(s, p + 1, p + n)[x] = s[p + x]
    BY <2>1, Extract
  <2> QED
    BY <2>1, <2>2 DEF p, n
<1>4. <<s[m]>> \in Seq(S) /\ Len(<<s[m]>>) = 1
  OBVIOUS
<1> HIDE DEF rest, both
<1> DEFINE c == <<s[m]>> \o rest
<1>5. c \in Seq(S) /\ Len(c) = r - m + 1
  <2>1. rest \in Seq(S)
    BY <1>2
  <2>2. c \in Seq(S) /\ Len(c) = 1 + Len(rest)
    BY <1>4, <2>1
  <2> QED
    BY <1>1, <1>2, <2>2
<1>6. ASSUME NEW x \in 1..(r - m + 1) PROVE c[x] = both[x]
  <2>1. CASE x = 1
    <3>1. m - 1 + x = m
      BY <1>1, <2>1
    <3>2. c[x] = s[m]
      BY <1>2, <2>1
    <3> QED
      BY <1>3, <3>1, <3>2
  <2>2. CASE x # 1
    <3> DEFINE y == x - 1
    <3>1. y \in 1..(r - m) /\ x = 1 + y /\ m - 1 + x = m + y
      BY <1>1, <2>2
    <3> HIDE DEF y
    <3>2. c[1 + y] = rest[y]
      BY <1>2, <3>1
    <3> QED
      BY <1>2, <1>3, <3>1, <3>2
  <2> QED
    BY <2>1, <2>2
<1> HIDE DEF c
<1>7. c = both
  <2>1. both \in Seq(S) /\ Len(both) = Len(c)
    BY <1>3, <1>5
  <2>2. \A x \in 1..Len(c) : c[x] = both[x]
    BY <1>5, <1>6
  <2> QED
    BY <1>5, <2>1, <2>2
<1> QED
  BY <1>7 DEF c, rest, both

\* iterateIEs finds the elements of which the first k bytes hold all, and no other.
LEMMA IterateFindsHeld ==
  ASSUME NEW ies \in Seq(SentElement), NEW k \in 0..Len(Encoded(ies))
  PROVE  \E r \in 0..Len(ies) :
           /\ {i \in 1..Len(ies) : Len(Encoding(ies)[i]) <= k} = 1..r
           /\ IterateIEs(SubSeq(Encoded(ies), 1, k)) = SubSeq(ies, 1, r)
<1> DEFINE u == Encoding(ies)
           all == u[Len(ies)]
           data == SubSeq(all, 1, k)
<1>1. IsEncoding(ies, u)
  BY EncodingIsEncoding
<1>2. Encoded(ies) = all
  BY DEF Encoded
<1> HIDE DEF u
<1>3. Len(ies) \in Nat /\ Len(ies) \in 0..Len(ies)
  OBVIOUS
<1>4. all \in Seq(Byte)
  BY <1>1, <1>3 DEF IsEncoding
<1>5. k \in 0..Len(all) /\ k \in Nat
  BY <1>2, <1>4
<1>6. data \in Seq(Byte) /\ Len(data) = k
  <2> HIDE DEF Byte, all
  <2> QED
    BY <1>4, <1>5
<1> HIDE DEF all, data
<1>7. PICK from : /\ IterateIEs(data) = from[1]
                  /\ \A i \in 1..(Len(data) + 1) : from[i] = ElementsFrom(data, from, i)
  BY <1>6, IterateIEsUnfolds
<1>8. PICK r \in 0..Len(ies) : /\ Len(u[r]) <= k
                               /\ {i \in 1..Len(ies) : Len(u[i]) <= k} = 1..r
                               /\ r < Len(ies) => Len(u[r + 1]) > k
  BY <1>1, <1>5, HeldUpTo
<1>9. \A i \in 0..Len(ies) : Len(u[i]) \in Nat
  BY <1>1 DEF IsEncoding
<1>10. \A i, j \in 0..Len(ies) : i <= j => Len(u[i]) <= Len(u[j])
  BY <1>1, Prefix
<1>11. ASSUME NEW m \in 1..Len(ies)
       PROVE  /\ Len(u[m - 1]) \in Nat /\ Len(ies[m].info) \in Nat
              /\ Len(u[m]) = Len(u[m - 1]) + 2 + Len(ies[m].info)
              /\ Len(u[m - 1]) + 2 <= k =>
                   /\ data[Len(u[m - 1]) + 1] = ies[m].id
                   /\ data[(Len(u[m - 1]) + 1) + 1] = Len(ies[m].info)
              /\ Len(u[m]) <= k =>
                   SubSeq(data, Len(u[m - 1]) + 3, Len(u[m - 1]) + 2 + Len(ies[m].info))
                     = ies[m].info
  <2>1. /\ Len(u[m - 1]) \in Nat /\ Len(ies[m].info) \in Nat
        /\ Len(u[m]) = Len(u[m - 1]) + 2 + Len(ies[m].info)
    BY <1>1 DEF IsEncoding
  <2>2. k \in 0..Len(u[Len(ies)])
    BY <1>5 DEF all
  <2>3. LET q == Len(u[m - 1])
            d == SubSeq(u[Len(ies)], 1, k) IN
        /\ q + 2 <= k => d[q + 1] = ies[m].id /\ d[(q + 1) + 1] = Len(ies[m].info)
        /\ Len(u[m]) <= k => SubSeq(d, q + 3, q + 2 + Len(ies[m].info)) = ies[m].info
    BY <1>1, <2>2, InPlace
  <2> QED
    BY <2>1, <2>3 DEF all, data
<1> DEFINE S == {d \in Nat : from[Len(u[r - d]) + 1] = SubSeq(ies, r - d + 1, r)}
<1>12. 0 \in S
  <2> DEFINE p == Len(u[r]) + 1
  <2>1. p \in 1..(Len(data) + 1) /\ p - 1 = Len(u[r])
    BY <1>6, <1>8, <1>9, <1>5
  <2>2. ~Whole(data, p)
    <3>1. CASE r = Len(ies)
      <4>1. k <= Len(u[r])
        BY <1>5, <3>1 DEF all
      <4> QED
        BY <1>5, <1>6, <1>9, <4>1 DEF Whole
    <3>2. CASE r # Len(ies)
      <4> DEFINE size == Len(ies[r + 1].info)
                 q == Len(u[r])
      <4>1. r + 1 \in 1..Len(ies) /\ (r + 1) - 1 = r /\ r < Len(ies)
        BY <1>3, <3>2
      <4>2. /\ q \in Nat /\ size \in Nat /\ Len(u[r + 1]) = q + 2 + size
            /\ q + 2 <= k => data[(q + 1) + 1] = size
        BY <4>1, <1>11
      <4>3. q + 2 + size > k
        BY <1>8, <4>1, <4>2
      <4> HIDE DEF size, q
      <4>4. Whole(data, p) => q + 2 <= k
        BY <1>5, <1>6, <4>2 DEF Whole, q
      <4>5. Whole(data, p) => k > q + 1 + size
        BY <1>6, <4>2, <4>4 DEF Whole, q
      <4> QED
        BY <1>5, <4>2, <4>3, <4>5
    <3> QED
      BY <3>1, <3>2
  <2>3. from[p] = << >>
    BY <1>7, <2>1, <2>2 DEF ElementsFrom
  <2>4. SubSeq(ies, r + 1, r) = << >>
    OBVIOUS
  <2>5. r - 0 = r
    OBVIOUS
  <2> QED
    BY <2>3, <2>4, <2>5
<1>13. ASSUME NEW d \in 0..(r - 1), d \in S PROVE d + 1 \in S
  <2> DEFINE m == r - d
             q == Len(u[m - 1])
             size == Len(ies[m].info)
  <2>1. /\ m \in 1..Len(ies) /\ m <= r /\ r - (d + 1) = m - 1
        /\ m \in 0..Len(ies) /\ m \in Nat /\ r \in Nat /\ r <= Len(ies)
    BY <1>3
  <2>2. from[Len(u[m]) + 1] = SubSeq(ies, m + 1, r)
    BY <1>13
  <2> HIDE DEF m
  <2>3. /\ q \in Nat /\ size \in Nat /\ Len(u[m]) = q + 2 + size
        /\ q + 2 <= k => data[q + 1] = ies[m].id /\ data[(q + 1) + 1] = size
        /\ Len(u[m]) <= k => SubSeq(data, q + 3, q + 2 + size) = ies[m].info
    BY <1>11, <2>1
  <2>4. Len(u[m]) <= k
    <3>1. Len(u[m]) <= Len(u[r])
      BY <1>10, <2>1
    <3> QED
      BY <1>5, <1>8, <1>9, <2>1, <3>1
  <2>5. ies[m] \in SentElement
    BY <2>1
  <2>6. ies[m] = [id |-> ies[m].id, info |-> ies[m].info]
    BY <2>5 DEF SentElement
  <2> HIDE DEF q, size
  <2>7. q + 2 <= k /\ q + 1 \in 1..(Len(data) + 1)
    BY <1>5, <1>6, <2>3, <2>4
  <2>8. data[q + 1] = ies[m].id /\ data[(q + 1) + 1] = size
    BY <2>3, <2>7
  <2>9. Whole(data, q + 1)
    BY <1>5, <1>6, <2>3, <2>4, <2>8 DEF Whole
  <2>10. AfterElement(data, q + 1) = Len(u[m]) + 1
    BY <2>3, <2>8 DEF AfterElement
  <2>11. SubSeq(data, (q + 1) + 2, (q + 1) + 1 + data[(q + 1) + 1]) = ies[m].info
    <3>1. (q + 1) + 2 = q + 3 /\ (q + 1) + 1 + size = q + 2 + size
      BY <2>3
    <3> QED
      BY <2>3, <2>4, <2>8, <3>1
  <2>12. from[q + 1] = ElementsFrom(data, from, q + 1)
    BY <1>7, <2>7
  <2>13. from[q + 1] = <<ies[m]>> \o SubSeq(ies, m + 1, r)
    BY <2>2, <2>6, <2>8, <2>9, <2>10, <2>11, <2>12 DEF ElementsFrom
  <2>14. <<ies[m]>> \o SubSeq(ies, m + 1, r) = SubSeq(ies, m, r)
    <3> HIDE DEF SentElement
    <3> QED
      BY <2>1, Prepend
  <2>15. from[Len(u[r - (d + 1)]) + 1] = SubSeq(ies, r - (d + 1) + 1, r)
    <3>1. r - (d + 1) + 1 = m
      BY <2>1
    <3> QED
      BY <2>1, <2>13, <2>14, <3>1 DEF q
  <2> QED
    BY <2>15
<1> HIDE DEF S
<1>14. \A d \in 0..r : d \in S
  <2>1. r \in Nat
    BY <1>3
  <2> QED
    BY <1>12, <1>13, <2>1, Induction
<1>15. from[1] = SubSeq(ies, 1, r)
  <2>1. r \in 0..r /\ r - r = 0
    BY <1>3
  <2>2. from[Len(u[0]) + 1] = SubSeq(ies, 0 + 1, r)
    BY <1>14, <2>1 DEF S
  <2>3. Len(u[0]) = 0
    BY <1>1 DEF IsEncoding
  <2> QED
    BY <2>2, <2>3
<1> QED
  BY <1>2, <1>7, <1>8, <1>15 DEF u, data

\* A set of numbers up to n that is not empty has a greatest one.
LEMMA Greatest ==
  ASSUME NEW n \in Nat, NEW S \in SUBSET (1..n), S # {}
  PROVE  Max(S) \in S /\ \A y \in S : Max(S) >= y
<1> DEFINE D == {n - y : y \in S}
           x == n - Min(D)
<1>1. D \in SUBSET Nat /\ D # {}
  <2>1. \A y \in S : n - y \in Nat
    OBVIOUS
  <2>2. PICK y \in S : TRUE
    OBVIOUS
  <2>3. n - y \in D
    BY <2>2
  <2> QED
    BY <2>1, <2>3
<1>2. Min(D) \in D /\ \A d \in D : Min(D) <= d
  BY <1>1, Least
<1> DEFINE m == Min(D)
<1> HIDE DEF m
<1>3. PICK z \in S : m = n - z
  BY <1>2 DEF m
<1>4. ASSUME NEW y \in S PROVE z >= y
  <2>1. n - y \in D
    OBVIOUS
  <2>2. m <= n - y
    BY <1>2, <2>1 DEF m
  <2> QED
    BY <1>3, <2>2
<1> QED
  BY <1>4 DEF Max

\* The map of elements: of each id the last one's content.
LEMMA ElementMapLast ==
  ASSUME NEW x \in Seq(SentElement)
  PROVE  /\ DOMAIN ElementMap(x) = {x[i].id : i \in 1..Len(x)}
         /\ \A id \in DOMAIN ElementMap(x) :
              \E j \in 1..Len(x) :
                /\ x[j].id = id /\ ElementMap(x)[id] = x[j].info
                /\ \A i \in 1..Len(x) : x[i].id = id => i <= j
<1>1. Len(x) \in Nat /\ DOMAIN x = 1..Len(x)
  OBVIOUS
<1>2. DOMAIN ElementMap(x) = {x[i].id : i \in 1..Len(x)}
  BY <1>1 DEF ElementMap
<1>3. ASSUME NEW id \in {x[i].id : i \in 1..Len(x)}
      PROVE  \E j \in 1..Len(x) :
                /\ x[j].id = id /\ ElementMap(x)[id] = x[j].info
                /\ \A i \in 1..Len(x) : x[i].id = id => i <= j
  <2> DEFINE S == {i \in 1..Len(x) : x[i].id = id}
  <2>1. S \in SUBSET (1..Len(x)) /\ S # {}
    BY <1>3
  <2>2. ElementMap(x)[id] = x[Max(S)].info
    BY <1>1 DEF ElementMap
  <2>3. Max(S) \in S /\ \A i \in S : Max(S) >= i
    BY <1>1, <2>1, Greatest
  <2> DEFINE j == Max(S)
  <2> HIDE DEF j
  <2>4. j \in 1..Len(x) /\ x[j].id = id
    BY <2>3 DEF j
  <2>5. ASSUME NEW i \in 1..Len(x), x[i].id = id PROVE i <= j
    <3>1. i \in S
      BY <2>5
    <3>2. j >= i
      BY <2>3, <3>1 DEF j
    <3> QED
      BY <1>1, <2>4, <3>2
  <2> QED
    BY <2>2, <2>4, <2>5 DEF j
<1> QED
  BY <1>2, <1>3

\* extractSSID finds an element of id 0, when there is one.
LEMMA SSIDOfSome ==
  ASSUME NEW x \in Seq(SentElement)
  PROVE  \/ /\ \A i \in 1..Len(x) : x[i].id # 0
            /\ SSIDOf(x) = << >>
         \/ \E i \in 1..Len(x) : x[i].id = 0 /\ SSIDOf(x) = x[i].info
<1> DEFINE at == {i \in 1..Len(x) : x[i].id = 0}
<1>1. DOMAIN x = 1..Len(x) /\ Len(x) \in Nat
  OBVIOUS
<1>2. SSIDOf(x) = IF at = {} THEN << >> ELSE x[Min(at)].info
  BY <1>1 DEF SSIDOf
<1>3. CASE at = {}
  BY <1>2, <1>3
<1>4. CASE at # {}
  <2>1. at \in SUBSET Nat
    OBVIOUS
  <2>2. Min(at) \in at
    BY <1>4, <2>1, Least
  <2> QED
    BY <1>2, <1>4, <2>2
<1> QED
  BY <1>3, <1>4

\* The beginning of a sequence.
LEMMA Beginning ==
  ASSUME NEW S, NEW a \in Seq(S), NEW n \in 0..Len(a)
  PROVE  /\ SubSeq(a, 1, n) \in Seq(S) /\ Len(SubSeq(a, 1, n)) = n
         /\ \A x \in 1..n : SubSeq(a, 1, n)[x] = a[x]
OBVIOUS

\* The beginning of two sequences behind the first.
LEMMA BehindFirst ==
  ASSUME NEW S, NEW a \in Seq(S), NEW b \in Seq(S), NEW n \in Len(a)..(Len(a) + Len(b))
  PROVE  /\ n - Len(a) \in 0..Len(b)
         /\ SubSeq(SubSeq(a \o b, 1, n), Len(a) + 1, n) = SubSeq(b, 1, n - Len(a))
<1> DEFINE q == Len(a)
           k == n - q
           c == a \o b
           d == SubSeq(c, 1, n)
           e == SubSeq(d, q + 1, n)
           f == SubSeq(b, 1, k)
<1>1. /\ c \in Seq(S) /\ Len(c) = q + Len(b) /\ q \in Nat /\ Len(b) \in Nat
      /\ \A x \in 1..Len(b) : c[q + x] = b[x]
  BY Concatenation
<1>2. n \in Nat /\ k \in 0..Len(b) /\ n \in 0..Len(c) /\ q + k = n /\ k \in Nat
  BY <1>1
<1> HIDE DEF c
<1>3. d \in Seq(S) /\ Len(d) = n /\ \A x \in 1..n : d[x] = c[x]
  BY <1>1, <1>2, Beginning
<1>4. f \in Seq(S) /\ Len(f) = k /\ \A x \in 1..k : f[x] = b[x]
  BY <1>2, Beginning
<1> HIDE DEF d, f, k, q
<1>5. e \in Seq(S) /\ Len(e) = k /\ \A x \in 1..k : e[x] = d[q + x]
  <2>1. q + k <= Len(d)
    BY <1>2, <1>3
  <2>2. /\ Len(SubSeq(d, q + 1, q + k)) = k /\ SubSeq(d, q + 1, q + k) \in Seq(S)
        /\ \A x \in 1..k : SubSeq(d, q + 1, q + k)[x] = d[q + x]
    BY <1>1, <1>2, <1>3, <2>1, Extract
  <2> QED
    BY <1>2, <2>2
<1> HIDE DEF e
<1>6. ASSUME NEW x \in 1..k PROVE e[x] = f[x]
  <2>1. q + x \in 1..n /\ x \in 1..Len(b)
    BY <1>1, <1>2
  <2> QED
    BY <1>1, <1>3, <1>4, <1>5, <2>1
<1>7. e = f
  BY <1>4, <1>5, <1>6
<1> QED
  BY <1>2, <1>7 DEF c, d, e, f, k, q

\* What the body of a transmission is made of.
LEMMA SendableBody ==
  ASSUME NEW s, Sendable(s)
  PROVE  /\ s.elements \in Seq(SentElement) /\ s.fixed \in Seq(Byte)
         /\ Encoded(s.elements) \in Seq(Byte) /\ Body(s) \in Seq(Byte)
         /\ Len(Body(s)) = Len(s.fixed) + Len(Encoded(s.elements))
         /\ Len(s.fixed) \in Nat /\ Len(Encoded(s.elements)) \in Nat /\ Len(Body(s)) \in Nat
         /\ \A x \in 1..Len(s.fixed) : Body(s)[x] = s.fixed[x]
<1> DEFINE a == s.fixed
           b == Encoded(s.elements)
<1>1. s.elements \in Seq(SentElement) /\ a \in Seq(Byte)
  BY DEF Sendable
<1>2. b \in Seq(Byte)
  <2>1. Len(s.elements) \in 0..Len(s.elements)
    BY <1>1
  <2> QED
    BY <1>1, <2>1, EncodingType DEF Encoded
<1>3. Body(s) = a \o b
  BY DEF Body
<1> HIDE DEF a, b, Byte
<1>4. a \in Seq(Byte)
  BY <1>1
<1>5. /\ a \o b \in Seq(Byte) /\ Len(a \o b) = Len(a) + Len(b)
      /\ Len(a) \in Nat /\ Len(b) \in Nat
      /\ \A x \in 1..Len(a) : (a \o b)[x] = a[x]
  BY <1>2, <1>4, Concatenation
<1>6. Len(a \o b) \in Nat
  BY <1>5
<1> QED
  BY <1>1, <1>2, <1>3, <1>5, <1>6 DEF a, b

\* iterateIEs on what was captured behind the fixed fields finds the elements received.
LEMMA BehindFixed ==
  ASSUME NEW s, Sendable(s), NEW n \in Len(s.fixed)..Len(Body(s))
  PROVE  \E r \in 0..Len(s.elements) :
           /\ Received(s, n) = 1..r
           /\ IterateIEs(SubSeq(SubSeq(Body(s), 1, n), Len(s.fixed) + 1, n))
                = SubSeq(s.elements, 1, r)
<1> DEFINE a == s.fixed
           ies == s.elements
           b == Encoded(ies)
           k == n - Len(a)
<1>1. /\ ies \in Seq(SentElement) /\ a \in Seq(Byte) /\ b \in Seq(Byte)
      /\ Len(Body(s)) = Len(a) + Len(b)
      /\ Len(a) \in Nat /\ Len(b) \in Nat
  BY SendableBody
<1>2. Body(s) = a \o b
  BY DEF Body
<1>3. k \in 0..Len(b) /\ SubSeq(SubSeq(a \o b, 1, n), Len(a) + 1, n) = SubSeq(b, 1, k)
  <2> HIDE DEF a, b, Byte
  <2>1. n \in Len(a)..(Len(a) + Len(b))
    BY <1>1 DEF a
  <2>2. a \in Seq(Byte) /\ b \in Seq(Byte)
    BY <1>1
  <2> QED
    BY <2>1, <2>2, BehindFirst
<1>4. PICK r \in 0..Len(ies) : /\ {i \in 1..Len(ies) : Len(Encoding(ies)[i]) <= k} = 1..r
                               /\ IterateIEs(SubSeq(b, 1, k)) = SubSeq(ies, 1, r)
  BY <1>1, <1>3, IterateFindsHeld
<1>5. Received(s, n) = {i \in 1..Len(ies) : Len(Encoding(ies)[i]) <= k}
  <2>1. DOMAIN ies = 1..Len(ies)
    BY <1>1
  <2>2. ASSUME NEW i \in 1..Len(ies)
        PROVE  Len(a) + Len(Encoding(ies)[i]) <= n <=> Len(Encoding(ies)[i]) <= k
    <3>1. Len(Encoding(ies)[i]) \in Nat
      <4>1. IsEncoding(ies, Encoding(ies))
        BY <1>1, EncodingIsEncoding
      <4>2. i \in 0..Len(ies)
        OBVIOUS
      <4>3. Encoding(ies)[i] \in Seq(Byte)
        BY <4>1, <4>2, Zenon DEF IsEncoding
      <4> QED
        BY <4>3
    <3>2. n \in Nat
      BY <1>1
    <3> DEFINE l == Len(Encoding(ies)[i])
               la == Len(a)
    <3> HIDE DEF l, la
    <3>3. la \in Nat /\ l \in Nat
      BY <1>1, <3>1 DEF l, la
    <3>4. la + l <= n <=> l <= n - la
      BY <3>2, <3>3
    <3> QED
      BY <3>4 DEF l, la
  <2> QED
    BY <2>1, <2>2 DEF Received
<1> QED
  BY <1>2, <1>3, <1>4, <1>5

\* Of a body cut off within the fixed fields no element is received.
LEMMA WithinFixed ==
  ASSUME NEW s, Sendable(s), NEW n \in Nat, n < Len(s.fixed)
  PROVE  Received(s, n) = {}
<1>1. s.elements \in Seq(SentElement) /\ Len(s.fixed) \in Nat
  BY SendableBody
<1>2. ASSUME NEW i \in DOMAIN s.elements
      PROVE  ~(Len(s.fixed) + Len(Encoding(s.elements)[i]) <= n)
  <2>1. i \in 0..Len(s.elements)
    BY <1>1
  <2>2. Encoding(s.elements)[i] \in Seq(Byte)
    BY <1>1, <2>1, EncodingType
  <2>3. Len(Encoding(s.elements)[i]) \in Nat
    BY <2>2
  <2> DEFINE l == Len(Encoding(s.elements)[i])
             la == Len(s.fixed)
  <2> HIDE DEF l, la
  <2>4. la \in Nat /\ l \in Nat /\ n < la
    BY <1>1, <2>3 DEF l, la
  <2>5. ~(la + l <= n)
    BY <2>4
  <2> QED
    BY <2>5 DEF l, la
<1> QED
  BY <1>2 DEF Received

\* What gopacket and extractInfoElements would make of all elements of a beacon.
Infos(es) == [i \in DOMAIN es |-> [id |-> es[i].id, info |-> Info(es[i])]]

\* It is elements again.
LEMMA InfosType ==
  ASSUME NEW es \in Seq(SentElement)
  PROVE  /\ Infos(es) \in Seq(SentElement) /\ Len(Infos(es)) = Len(es)
         /\ \A i \in 1..Len(es) :
              Infos(es)[i].id = es[i].id /\ Infos(es)[i].info = Info(es[i])
<1>1. Len(es) \in Nat /\ DOMAIN es = 1..Len(es) /\ \A i \in 1..Len(es) : es[i] \in SentElement
  OBVIOUS
<1>2. ASSUME NEW e \in SentElement
      PROVE  [id |-> e.id, info |-> Info(e)] \in SentElement
  <2> DEFINE q == e.info
  <2>1. e.id \in Byte /\ q \in Seq(Byte) /\ Len(q) \in Byte
    BY DEF SentElement
  <2> HIDE DEF q
  <2>2. Info(e) \in Seq(Byte) /\ Len(Info(e)) \in Byte
    <3>1. CASE e.id = Vendor
      <4>1. Info(e) = SubSeq(q, 5, Len(q))
        BY <3>1 DEF Info, q
      <4>2. SubSeq(q, 5, Len(q)) \in Seq(Byte)
        BY <2>1
      <4>3. Len(SubSeq(q, 5, Len(q))) = IF Len(q) >= 4 THEN Len(q) - 4 ELSE 0
        BY <2>1
      <4> DEFINE l == Len(q)
      <4> HIDE DEF l
      <4>5. l \in 0..255
        BY <2>1 DEF Byte, l
      <4>6. (IF l >= 4 THEN l - 4 ELSE 0) \in 0..255
        BY <4>5
      <4>4. Len(SubSeq(q, 5, Len(q))) \in Byte
        BY <4>3, <4>6, Zenon DEF Byte, l
      <4> QED
        BY <4>1, <4>2, <4>4
    <3>2. CASE e.id # Vendor
      BY <2>1, <3>2 DEF Info, q
    <3> QED
      BY <3>1, <3>2
  <2> QED
    BY <2>1, <2>2 DEF SentElement
<1> HIDE DEF SentElement
<1>3. \A i \in 1..Len(es) : Infos(es)[i] \in SentElement
  BY <1>1, <1>2 DEF Infos
<1>4. Infos(es) \in [1..Len(es) -> SentElement]
  BY <1>1, <1>3 DEF Infos
<1> QED
  BY <1>1, <1>4 DEF Infos

\* gopacket decodes the elements up to some number.
LEMMA LayersOfFirst ==
  ASSUME NEW es \in Seq(SentElement), NEW r \in 0..Len(es)
  PROVE  \E k \in 0..r :
           /\ {i \in 1..r : \A j \in 1..i : Decodable(es[j])} = 1..k
           /\ ElementLayers(SubSeq(es, 1, r)) = SubSeq(Infos(es), 1, k)
<1> DEFINE x   == SubSeq(es, 1, r)
           bad == {i \in 1..r : ~Decodable(es[i])}
           k   == IF bad = {} THEN r ELSE Min(bad) - 1
<1> HIDE DEF SentElement
<1>1. r \in Nat /\ x \in Seq(SentElement) /\ Len(x) = r /\ \A i \in 1..r : x[i] = es[i]
  BY Beginning
<1> HIDE DEF x
<1>2. DOMAIN x = 1..r
  BY <1>1
<1>3. bad = {i \in DOMAIN x : ~Decodable(x[i])}
  BY <1>1, <1>2
<1>4. /\ k \in 0..r
      /\ \A i \in 1..k : Decodable(es[i])
      /\ k < r => ~Decodable(es[k + 1])
  <2>1. CASE bad = {}
    BY <1>1, <2>1
  <2>2. CASE bad # {}
    <3> DEFINE m == Min(bad)
    <3>1. bad \in SUBSET Nat
      BY <1>1
    <3>2. m \in bad /\ \A y \in bad : m <= y
      BY <2>2, <3>1, Least
    <3> HIDE DEF m
    <3>3. k = m - 1
      BY <2>2 DEF m
    <3>4. m \in 1..r /\ ~Decodable(es[m]) /\ k + 1 = m
      BY <1>1, <3>2, <3>3
    <3>5. \A i \in 1..k : Decodable(es[i])
      BY <1>1, <3>2, <3>3, <3>4
    <3> HIDE DEF k
    <3> QED
      BY <1>1, <3>3, <3>4, <3>5
  <2> QED
    BY <2>1, <2>2
<1>5. ElementLayers(x) = [i \in 1..k |-> [id |-> x[i].id, info |-> Info(x[i])]]
  BY <1>1, <1>3 DEF ElementLayers
<1> HIDE DEF bad, k
<1>6. {i \in 1..r : \A j \in 1..i : Decodable(es[j])} = 1..k
  <2>1. ASSUME NEW i \in 1..r, \A j \in 1..i : Decodable(es[j]) PROVE i \in 1..k
    <3>1. ~(k + 1 <= i)
      <4> SUFFICES ASSUME k + 1 <= i PROVE FALSE
        OBVIOUS
      <4>1. k + 1 \in 1..i /\ k < r
        BY <1>1, <1>4
      <4> QED
        BY <1>4, <2>1, <4>1
    <3> QED
      BY <1>1, <1>4, <3>1
  <2>2. ASSUME NEW i \in 1..k PROVE i \in 1..r /\ \A j \in 1..i : Decodable(es[j])
    BY <1>1, <1>4
  <2> QED
    BY <2>1, <2>2
<1> DEFINE y == Infos(es)
           z == SubSeq(y, 1, k)
<1>7. /\ y \in Seq(SentElement) /\ Len(y) = Len(es)
      /\ \A i \in 1..Len(es) : y[i] = [id |-> es[i].id, info |-> Info(es[i])]
  BY InfosType DEF Infos
<1> HIDE DEF y
<1>8. k \in 0..Len(y)
  BY <1>1, <1>4, <1>7
<1>9. z \in Seq(SentElement) /\ Len(z) = k /\ \A i \in 1..k : z[i] = y[i]
  BY <1>7, <1>8, Beginning
<1> HIDE DEF z
<1>10. z = [i \in 1..k |-> [id |-> x[i].id, info |-> Info(x[i])]]
  <2>1. ASSUME NEW i \in 1..k PROVE z[i] = [id |-> x[i].id, info |-> Info(x[i])]
    <3>1. i \in 1..r /\ i \in 1..Len(es)
      BY <1>1, <1>4
    <3>2. x[i] = es[i] /\ z[i] = y[i] /\ y[i] = [id |-> es[i].id, info |-> Info(es[i])]
      BY <1>1, <1>7, <1>9, <3>1
    <3> QED
      BY <3>2, Zenon
  <2>2. z = [i \in 1..k |-> z[i]]
    BY <1>9
  <2> QED
    BY <2>1, <2>2
<1> QED
  BY <1>4, <1>5, <1>6, <1>10 DEF x, y, z

\* The parsers of elements find those received.
LEMMA ElementsReceived ==
  ASSUME NEW s, Sendable(s), NEW n \in 0..Len(Body(s)), NEW reception,
         s.Type \in {"Beacon", "ProbeResponse", "AssocReq", "ProbeRequest"}
  PROVE  \E r \in 0..Len(s.elements) :
           LET p   == Packet(s, n, reception)
               ies == SubSeq(s.elements, 1, r) IN
           /\ Received(s, n) = 1..r
           /\ Layered(p) = IF s.Type \in APTypes THEN ElementLayers(ies) ELSE << >>
           /\ Unlayered(p) = IF s.Type = "AssocReq" THEN ies ELSE << >>
           /\ s.Type = "ProbeRequest" => IterateIEs(p.body) = ies
<1> DEFINE p == Packet(s, n, reception)
           body == SubSeq(Body(s), 1, n)
<1>1. p.body = body /\ p.Type = s.Type
  BY DEF Packet
<1>2. /\ s.elements \in Seq(SentElement) /\ s.fixed \in Seq(Byte) /\ Body(s) \in Seq(Byte)
      /\ Len(s.fixed) \in Nat
      /\ Len(Body(s)) = Len(s.fixed) + Len(Encoded(s.elements))
      /\ Len(Encoded(s.elements)) \in Nat /\ Len(Body(s)) \in Nat
  BY SendableBody
<1>3. n \in Nat /\ Len(body) = n /\ body \in Seq(Byte)
  <2> DEFINE all == Body(s)
             size == Len(all)
  <2>1. all \in Seq(Byte) /\ size \in Nat
    BY <1>2
  <2>2. n \in 0..size
    OBVIOUS
  <2> HIDE DEF all
  <2>3. n \in Nat
    BY <2>1, <2>2
  <2>4. n \in 0..Len(all) /\ all \in Seq(Byte)
    BY <2>1, <2>2
  <2> HIDE DEF Byte, size
  <2>5. Len(SubSeq(all, 1, n)) = n /\ SubSeq(all, 1, n) \in Seq(Byte)
    BY <2>4, Beginning
  <2> QED
    BY <2>3, <2>5 DEF all
<1> HIDE DEF p, body
<1>4. Decoded(p) <=> s.Type \in DOMAIN FixedLength /\ n >= FixedLength[s.Type]
  BY <1>1, <1>3 DEF Decoded
<1>5. CASE s.Type = "ProbeRequest"
  <2>1. s.fixed = << >> /\ Len(s.fixed) = 0
    BY <1>5 DEF Sendable
  <2>2. n \in Len(s.fixed)..Len(Body(s))
    BY <1>2, <2>1
  <2>3. PICK r \in 0..Len(s.elements) :
           /\ Received(s, n) = 1..r
           /\ IterateIEs(SubSeq(SubSeq(Body(s), 1, n), Len(s.fixed) + 1, n))
                = SubSeq(s.elements, 1, r)
    BY <2>2, BehindFixed
  <2>4. SubSeq(body, Len(s.fixed) + 1, n) = body
    <3>1. SubSeq(body, 1, Len(body)) = body
      BY <1>3
    <3> QED
      BY <1>3, <2>1, <3>1
  <2>5. Layered(p) = << >> /\ Unlayered(p) = << >>
    BY <1>1, <1>5 DEF Layered, Unlayered, APTypes
  <2> QED
    BY <1>1, <1>5, <2>3, <2>4, <2>5 DEF p, body, APTypes
<1>6. ASSUME s.Type # "ProbeRequest"
      PROVE  Len(s.fixed) = FixedLength[s.Type] /\ (Decoded(p) <=> n >= Len(s.fixed))
  <2>1. s.Type \in DOMAIN FixedLength
    BY <1>6 DEF FixedLength
  <2> QED
    BY <1>4, <2>1 DEF Sendable
<1>7. CASE s.Type # "ProbeRequest" /\ n < Len(s.fixed)
  <2>1. Received(s, n) = {}
    BY <1>3, <1>7, WithinFixed
  <2>2. ~Decoded(p)
    BY <1>2, <1>3, <1>6, <1>7
  <2>3. Layered(p) = << >> /\ Unlayered(p) = << >>
    BY <2>2 DEF Layered, Unlayered
  <2>4. /\ 0 \in 0..Len(s.elements) /\ 1..0 = {}
        /\ SubSeq(s.elements, 1, 0) = << >>
    BY <1>2
  <2>5. ElementLayers(<< >>) = << >>
    <3>1. DOMAIN << >> = {} /\ {i \in {} : ~Decodable(<< >>[i])} = {} /\ 1..0 = {}
      OBVIOUS
    <3> QED
      BY <3>1 DEF ElementLayers
  <2> QED
    BY <1>7, <2>1, <2>3, <2>4, <2>5 DEF p
<1>8. CASE s.Type # "ProbeRequest" /\ n >= Len(s.fixed)
  <2> DEFINE size == Len(Body(s))
             least == Len(s.fixed)
  <2>0. size \in Nat /\ least \in Nat /\ n \in 0..size /\ n >= least
    BY <1>2, <1>8
  <2> HIDE DEF size, least
  <2>1. n \in Len(s.fixed)..Len(Body(s))
    <3>1. n \in least..size
      BY <2>0
    <3> QED
      BY <3>1 DEF size, least
  <2>2. PICK r \in 0..Len(s.elements) :
           /\ Received(s, n) = 1..r
           /\ IterateIEs(SubSeq(SubSeq(Body(s), 1, n), Len(s.fixed) + 1, n))
                = SubSeq(s.elements, 1, r)
    BY <2>1, BehindFixed
  <2>3. Decoded(p)
    BY <1>6, <1>8
  <2> HIDE DEF FixedLength
  <2>4. CASE s.Type = "AssocReq"
    <3>1. Len(s.fixed) + 1 = 5
      <4>1. FixedLength[s.Type] = 4
        BY <2>4 DEF FixedLength
      <4>2. Len(s.fixed) = 4
        BY <1>6, <1>8, <4>1, Zenon
      <4> QED
        BY <4>2
    <3>2. Layered(p) = << >> /\ Unlayered(p) = IterateIEs(SubSeq(body, 5, n))
      BY <1>1, <1>3, <2>3, <2>4 DEF Layered, Unlayered, APTypes
    <3>3. s.Type \notin APTypes /\ s.Type # "ProbeRequest"
      BY <2>4 DEF APTypes
    <3>4. Unlayered(p) = SubSeq(s.elements, 1, r)
      BY <2>2, <3>1, <3>2 DEF body
    <3> QED
      BY <2>2, <2>4, <3>2, <3>3, <3>4, Zenon DEF p
  <2>5. CASE s.Type \in APTypes
    <3> USE DEF APTypes
    <3>1. Len(s.fixed) + 1 = 13
      <4>1. FixedLength[s.Type] = 12
        <5>1. FixedLength["Beacon"] = 12 /\ FixedLength["ProbeResponse"] = 12
          BY DEF FixedLength
        <5> QED
          BY <2>5, <5>1
      <4>2. Len(s.fixed) = 12
        BY <1>6, <1>8, <4>1, Zenon
      <4> QED
        BY <4>2
    <3>2. /\ Unlayered(p) = << >>
          /\ Layered(p) = ElementLayers(IterateIEs(SubSeq(body, 13, n)))
      BY <1>1, <1>3, <2>3, <2>5 DEF Layered, Unlayered
    <3> QED
      BY <2>2, <2>5, <3>1, <3>2 DEF p, body
  <2> QED
    BY <1>8, <2>4, <2>5 DEF APTypes
<1> QED
  BY <1>2, <1>3, <1>5, <1>7, <1>8

\* Frequencies of the channels are told apart.
LEMMA ChannelOfFrequency ==
  ASSUME NEW c \in 1..177
  PROVE  Channel(Frequency(c)) = c
<1>1. CASE c = 14
  BY <1>1 DEF Channel, Frequency
<1>2. CASE c < 14
  <2> DEFINE z == 2407 + 5 * c
  <2>1. Frequency(c) = z /\ z \in 2412..2472 /\ z # 2484 /\ z \notin 5000..5885
    BY <1>2 DEF Frequency
  <2>2. Channel(Frequency(c)) = (z - 2412) \div 5 + 1
    <3> HIDE DEF z
    <3> QED
      BY <2>1 DEF Channel
  <2>3. (2407 + 5 * c - 2412) \div 5 = c - 1
    OBVIOUS
  <2> QED
    BY <2>2, <2>3
<1>3. CASE c > 14
  <2>1. /\ Frequency(c) = 5000 + 5 * c /\ 5000 + 5 * c \in 5000..5885
        /\ 5000 + 5 * c \notin 2412..2472 /\ 5000 + 5 * c # 2484
    BY <1>3 DEF Frequency
  <2>2. Channel(Frequency(c)) = (5000 + 5 * c - 5000) \div 5
    BY <2>1 DEF Channel
  <2>3. (5000 + 5 * c - 5000) \div 5 = c
    OBVIOUS
  <2> QED
    BY <2>2, <2>3
<1> QED
  BY <1>1, <1>2, <1>3

\* The fields of a frame.
LEMMA FrameFields ==
  ASSUME NEW p
  PROVE  /\ Frame(p).FrameType = Class(p.Type)
         /\ Frame(p).SrcMAC = p.Address2 /\ Frame(p).DstMAC = p.Address1
         /\ Frame(p).BSSID = p.Address3 /\ Frame(p).Channel = Channel(Signal(p))
         /\ Frame(p).InfoElements = InfoElements(p)
         /\ Frame(p).SSIDPresent <=>
              \/ 0 \in DOMAIN InfoElements(p)
              \/ \E i \in DOMAIN (Layered(p) \o Unlayered(p)) :
                   (Layered(p) \o Unlayered(p))[i].id = 0
         /\ Frame(p).SSID =
              IF SSIDOf(Layered(p) \o Unlayered(p)) = << >> /\ 0 \in DOMAIN InfoElements(p)
              THEN InfoElements(p)[0] ELSE SSIDOf(Layered(p) \o Unlayered(p))
         /\ Frame(p).BeaconInterval = Field(p, "BeaconInterval")
<1> DEFINE ies   == InfoElements(p)
           found == Layered(p) \o Unlayered(p)
           ssid  == SSIDOf(found)
           present == 0 \in DOMAIN ies \/ \E i \in DOMAIN found : found[i].id = 0
           text == IF ssid = << >> /\ 0 \in DOMAIN ies THEN ies[0] ELSE ssid
<1>1. /\ Frame(p).FrameType = Class(p.Type)
      /\ Frame(p).SrcMAC = p.Address2 /\ Frame(p).DstMAC = p.Address1
      /\ Frame(p).BSSID = p.Address3 /\ Frame(p).Channel = Channel(Signal(p))
      /\ Frame(p).InfoElements = ies
      /\ Frame(p).SSIDPresent = present /\ Frame(p).SSID = text
      /\ Frame(p).BeaconInterval = Field(p, "BeaconInterval")
  BY DEF Frame
<1> QED
  BY <1>1

\* What the first r elements say.
LEMMA FirstElements ==
  ASSUME NEW es \in Seq(SentElement), NEW r \in 0..Len(es)
  PROVE  LET x == SubSeq(es, 1, r)
             m == ElementMap(x) IN
         /\ x \in Seq(SentElement) /\ Len(x) = r /\ DOMAIN x = 1..r /\ \A i \in 1..r : x[i] = es[i]
         /\ DOMAIN m = {es[i].id : i \in 1..r}
         /\ \A i \in 1..r : \/ m[es[i].id] = es[i].info
                            \/ \E j \in 1..r : j > i /\ es[j].id = es[i].id
         /\ \A i \in 1..r :
              es[i].id = 0 /\ (\A j \in 1..r : es[j].id = es[i].id => j = i) =>
                0 \in DOMAIN m /\ m[0] = es[i].info /\ SSIDOf(x) = es[i].info
         /\ (\A i \in 1..r : es[i].id # 0) => SSIDOf(x) = << >>
         /\ SSIDOf(x) = << >> \/ \E i \in 1..r : es[i].id = 0 /\ SSIDOf(x) = es[i].info
         /\ 0 \in DOMAIN m => \E i \in 1..r : es[i].id = 0 /\ m[0] = es[i].info
<1> DEFINE x == SubSeq(es, 1, r)
           m == ElementMap(x)
<1>1. x \in Seq(SentElement) /\ Len(x) = r /\ \A i \in 1..r : x[i] = es[i]
  <2> HIDE DEF SentElement
  <2> QED
    BY Beginning
<1> HIDE DEF x
<1>2. DOMAIN x = 1..r /\ r \in Nat
  BY <1>1
<1>3. /\ DOMAIN m = {x[i].id : i \in 1..Len(x)}
      /\ \A id \in DOMAIN m :
           \E j \in 1..Len(x) : /\ x[j].id = id /\ m[id] = x[j].info
                                /\ \A i \in 1..Len(x) : x[i].id = id => i <= j
  BY <1>1, ElementMapLast
<1>4. \/ /\ \A i \in 1..Len(x) : x[i].id # 0
         /\ SSIDOf(x) = << >>
      \/ \E i \in 1..Len(x) : x[i].id = 0 /\ SSIDOf(x) = x[i].info
  BY <1>1, SSIDOfSome
<1> HIDE DEF m
<1>5. DOMAIN m = {es[i].id : i \in 1..r}
  BY <1>1, <1>3
<1>6. ASSUME NEW id \in DOMAIN m
      PROVE  \E j \in 1..r : /\ es[j].id = id /\ m[id] = es[j].info
                             /\ \A i \in 1..r : es[i].id = id => i <= j
  <2>1. PICK j \in 1..Len(x) : /\ x[j].id = id /\ m[id] = x[j].info
                               /\ \A i \in 1..Len(x) : x[i].id = id => i <= j
    BY <1>3
  <2>2. j \in 1..r /\ x[j] = es[j]
    BY <1>1
  <2>3. ASSUME NEW i \in 1..r, es[i].id = id PROVE i <= j
    BY <1>1, <2>1, <2>3
  <2> QED
    BY <2>1, <2>2, <2>3
<1>7. \/ (\A i \in 1..r : es[i].id # 0) /\ SSIDOf(x) = << >>
      \/ \E i \in 1..r : es[i].id = 0 /\ SSIDOf(x) = es[i].info
  BY <1>1, <1>4
<1>8. ASSUME NEW i \in 1..r
      PROVE  \/ m[es[i].id] = es[i].info
             \/ \E j \in 1..r : j > i /\ es[j].id = es[i].id
  <2>1. PICK j \in 1..r : /\ es[j].id = es[i].id /\ m[es[i].id] = es[j].info
                          /\ i <= j
    BY <1>5, <1>6
  <2> QED
    BY <2>1
<1>9. ASSUME NEW i \in 1..r, es[i].id = 0, \A j \in 1..r : es[j].id = es[i].id => j = i
      PROVE  0 \in DOMAIN m /\ m[0] = es[i].info /\ SSIDOf(x) = es[i].info
  <2>1. 0 \in DOMAIN m
    BY <1>5, <1>9
  <2>2. PICK j \in 1..r : es[j].id = 0 /\ m[0] = es[j].info
    BY <1>6, <2>1
  <2>3. PICK k \in 1..r : es[k].id = 0 /\ SSIDOf(x) = es[k].info
    BY <1>7, <1>9
  <2> QED
    BY <1>9, <2>1, <2>2, <2>3
<1>10. (\A i \in 1..r : es[i].id # 0) => SSIDOf(x) = << >>
  BY <1>7
<1>11. 0 \in DOMAIN m => \E i \in 1..r : es[i].id = 0 /\ m[0] = es[i].info
  BY <1>6
<1>12. SSIDOf(x) = << >> \/ \E i \in 1..r : es[i].id = 0 /\ SSIDOf(x) = es[i].info
  BY <1>7
<1> QED
  BY <1>1, <1>2, <1>5, <1>8, <1>9, <1>10, <1>11, <1>12 DEF m, x

\* What the frame can have of each element of s.
Handed(s) == IF s.Type \in APTypes THEN Infos(s.elements) ELSE s.elements

LEMMA HandedElements ==
  ASSUME NEW s, s.elements \in Seq(SentElement)
  PROVE  /\ Handed(s) \in Seq(SentElement) /\ Len(Handed(s)) = Len(s.elements)
         /\ \A i \in 1..Len(s.elements) :
              /\ Handed(s)[i].id = s.elements[i].id
              /\ Handed(s)[i].info = Content(s, i)
              /\ s.elements[i].id = 0 => Handed(s)[i].info = s.elements[i].info
<1> HIDE DEF SentElement
<1>1. CASE s.Type \in APTypes
  <2>1. Handed(s) = Infos(s.elements)
    BY <1>1 DEF Handed
  <2>2. \A i \in 1..Len(s.elements) : Content(s, i) = Info(s.elements[i])
    BY <1>1 DEF Content
  <2>3. \A i \in 1..Len(s.elements) :
          s.elements[i].id = 0 => Info(s.elements[i]) = s.elements[i].info
    BY DEF Info, Vendor
  <2> QED
    BY <2>1, <2>2, <2>3, InfosType
<1>2. CASE s.Type \notin APTypes
  BY <1>2 DEF Handed, Content
<1> QED
  BY <1>1, <1>2

\* The frame of p is made of the first r elements of s, those that n bytes hold and
\* gopacket decodes.
FindsReceived(s, n, p, r) ==
  LET x == SubSeq(Handed(s), 1, r) IN
  /\ Carried(s, n) = 1..r
  /\ s.Type \in APTypes /\ Carried(s, n) # {} => InfoElements(p) = ElementMap(x)
  /\ s.Type = "ProbeRequest" => InfoElements(p) = ElementMap(x)
  /\ Layered(p) \o Unlayered(p) = IF s.Type = "ProbeRequest" THEN << >> ELSE x

\* The elements of a frame are those carried.
LEMMA FrameElements ==
  ASSUME NEW s, Sendable(s), NEW n \in 0..Len(Body(s)), NEW reception,
         s.Type \in {"Beacon", "ProbeResponse", "AssocReq", "ProbeRequest"}
  PROVE  \E r \in 0..Len(s.elements) : FindsReceived(s, n, Packet(s, n, reception), r)
<1> DEFINE p == Packet(s, n, reception)
           es == s.elements
           all == Handed(s)
<1>1. PICK q \in 0..Len(es) :
        /\ Received(s, n) = 1..q
        /\ Layered(p) = IF s.Type \in APTypes THEN ElementLayers(SubSeq(es, 1, q)) ELSE << >>
        /\ Unlayered(p) = IF s.Type = "AssocReq" THEN SubSeq(es, 1, q) ELSE << >>
        /\ s.Type = "ProbeRequest" => IterateIEs(p.body) = SubSeq(es, 1, q)
  BY ElementsReceived
<1>2. es \in Seq(SentElement)
  BY SendableBody
<1> HIDE DEF SentElement
<1>3. all \in Seq(SentElement) /\ Len(all) = Len(es) /\ Len(es) \in Nat
  BY <1>2, HandedElements
<1>4. PICK r \in 0..q :
        /\ Carried(s, n) = 1..r
        /\ s.Type \in APTypes => ElementLayers(SubSeq(es, 1, q)) = SubSeq(all, 1, r)
        /\ s.Type \notin APTypes => r = q /\ all = es
  <2>1. CASE s.Type \in APTypes
    <3>1. Carried(s, n) = {i \in 1..q : \A j \in 1..i : Decodable(es[j])}
      BY <1>1, <2>1 DEF Carried
    <3>2. all = Infos(es)
      BY <2>1 DEF Handed
    <3> QED
      BY <1>2, <2>1, <3>1, <3>2, LayersOfFirst
  <2>2. CASE s.Type \notin APTypes
    <3>1. Carried(s, n) = 1..q /\ all = es
      BY <1>1, <2>2 DEF Carried, Handed
    <3>2. q \in 0..q
      BY <1>3
    <3> QED
      BY <2>2, <3>1, <3>2
  <2> QED
    BY <2>1, <2>2
<1>5. r \in 0..Len(es)
  BY <1>3
<1> DEFINE x == SubSeq(all, 1, r)
<1>6. x \in Seq(SentElement) /\ Len(x) = r
  BY <1>3, <1>5, Beginning
<1>7. /\ Layered(p) = IF s.Type \in APTypes THEN x ELSE << >>
      /\ Unlayered(p) = IF s.Type = "AssocReq" THEN x ELSE << >>
      /\ s.Type = "ProbeRequest" => IterateIEs(p.body) = x
  <2>1. "AssocReq" \notin APTypes /\ "ProbeRequest" \notin APTypes
    BY DEF APTypes
  <2> QED
    BY <1>1, <1>4, <2>1
<1> HIDE DEF x, p, es, all
<1>8. x \o << >> = x /\ << >> \o x = x /\ << >> \o << >> = << >>
  BY <1>6
<1>9. Layered(p) \o Unlayered(p) = IF s.Type = "ProbeRequest" THEN << >> ELSE x
  BY <1>7, <1>8 DEF APTypes
<1>10. ASSUME s.Type \in APTypes, Carried(s, n) # {}
      PROVE  InfoElements(p) = ElementMap(x)
  <2>1. r # 0
    <3>1. 1..0 = {}
      OBVIOUS
    <3> QED
      BY <1>4, <1>10, <3>1
  <2>2. x # << >>
    BY <1>6, <2>1
  <2>3. Layered(p) = x
    BY <1>7, <1>10
  <2> QED
    BY <2>2, <2>3 DEF InfoElements
<1>11. ASSUME s.Type = "ProbeRequest" PROVE InfoElements(p) = ElementMap(x)
  <2>1. Layered(p) = << >> /\ IterateIEs(p.body) = x
    BY <1>7, <1>11 DEF APTypes
  <2> QED
    BY <2>1 DEF InfoElements
<1>12. FindsReceived(s, n, p, r)
  BY <1>4, <1>9, <1>10, <1>11 DEF FindsReceived, x, all
<1> QED
  BY <1>5, <1>12 DEF p, es

\* What was received in full holds its first element.
LEMMA FirstReceived ==
  ASSUME NEW s, Sendable(s), s.elements # << >>
  PROVE  1 \in DOMAIN s.elements /\ 1 \in Received(s, Len(Body(s)))
<1> DEFINE n == Len(Body(s))
           ies == s.elements
           u == Encoding(ies)
<1>1. /\ ies \in Seq(SentElement) /\ s.fixed \in Seq(Byte) /\ Body(s) \in Seq(Byte)
      /\ n = Len(s.fixed) + Len(u[Len(ies)])
  BY SendableBody DEF Encoded
<1>2. IsEncoding(ies, u)
  BY <1>1, EncodingIsEncoding
<1> HIDE DEF u, SentElement, ies
<1>3. Len(ies) \in Nat /\ Len(ies) >= 1 /\ DOMAIN ies = 1..Len(ies) /\ Len(s.fixed) \in Nat
  BY <1>1 DEF ies
<1>4. 1 \in 0..Len(ies) /\ Len(ies) \in 0..Len(ies)
  BY <1>3
<1>5. Len(u[1]) <= Len(u[Len(ies)])
  BY <1>1, <1>2, <1>3, <1>4, Prefix
<1>6. Len(u[1]) \in Nat /\ Len(u[Len(ies)]) \in Nat
  <2>1. u[1] \in Seq(Byte) /\ u[Len(ies)] \in Seq(Byte)
    BY <1>2, <1>4, Zenon DEF IsEncoding
  <2> QED
    BY <2>1
<1>7. Len(s.fixed) + Len(u[1]) <= n
  BY <1>1, <1>3, <1>5, <1>6
<1>8. 1 \in DOMAIN ies
  BY <1>3
<1> QED
  BY <1>7, <1>8, Zenon DEF Received, u, ies

\* What is sent well and received in full is accepted.
LEMMA WellFormedAccepted ==
  ASSUME NEW s, Sendable(s), NEW reception, WellFormed(s), ~reception.BadFCS
  PROVE  Parse(Packet(s, Len(Body(s)), reception)).err = "nil"
<1> DEFINE n == Len(Body(s))
           p == Packet(s, n, reception)
           f == Frame(p)
<1>1. /\ p.body = SubSeq(Body(s), 1, n) /\ p.Type = s.Type /\ ~BadFCS(p)
      /\ p.Address1 = s.Address1 /\ p.Address2 = s.Address2 /\ p.Address3 = s.Address3
  BY DEF Packet, BadFCS
<1>2. /\ Body(s) \in Seq(Byte) /\ Len(s.fixed) \in Nat /\ n \in Nat
      /\ n = Len(s.fixed) + Len(Encoded(s.elements)) /\ Len(Encoded(s.elements)) \in Nat
      /\ \A x \in 1..Len(s.fixed) : Body(s)[x] = s.fixed[x]
      /\ s.elements \in Seq(SentElement)
  BY SendableBody
<1> HIDE DEF p
<1>3. p.body = Body(s) /\ Len(p.body) = n
  <2> DEFINE all == Body(s)
  <2>1. all \in Seq(Byte)
    BY <1>2
  <2> HIDE DEF all, Byte
  <2>2. SubSeq(all, 1, Len(all)) = all
    BY <2>1
  <2> QED
    BY <1>1, <2>2 DEF all
<1>4. n \in 0..Len(Body(s))
  <2>1. n \in Nat
    BY <1>2, Zenon
  <2> HIDE DEF n
  <2>2. n \in 0..n
    BY <2>1
  <2> QED
    BY <2>2 DEF n
<1>5. /\ f.FrameType = Class(s.Type)
      /\ f.SrcMAC = s.Address2 /\ f.DstMAC = s.Address1 /\ f.BSSID = s.Address3
      /\ f.SSID = IF SSIDOf(Layered(p) \o Unlayered(p)) = << >> /\ 0 \in DOMAIN InfoElements(p)
                  THEN InfoElements(p)[0] ELSE SSIDOf(Layered(p) \o Unlayered(p))
      /\ f.BeaconInterval = Field(p, "BeaconInterval")
  BY <1>1, FrameFields
<1> HIDE DEF f
<1>6. s.Type # "none"
  BY DEF WellFormed
<1>7. ASSUME f.FrameType \in APTypes PROVE ValidAP(f)
  <2>1. s.Type \in {"Beacon", "ProbeResponse"} /\ f.FrameType = s.Type
    BY <1>5, <1>7 DEF Class, SameName, QoSData, Null, OtherData, APTypes
  <2>2. /\ Unicast(s.Address2) /\ ~AllZero(s.Address2) /\ ~AllZero(s.Address1)
        /\ s.Address3 = s.Address2 /\ Word(s.fixed, 9) \in BeaconIntervals
        /\ s.elements # << >> /\ Decodable(s.elements[1])
        /\ s.Type = "Beacon" => s.Address1 = Broadcast
        /\ \A i \in DOMAIN s.elements : s.elements[i].id = 0 => ValidSSID(s.elements[i].info)
    BY <2>1, Zenon DEF WellFormed, APTypes
  <2>3. Len(s.fixed) = 12
    <3>1. s.Type \in DOMAIN FixedLength /\ FixedLength[s.Type] = 12
      BY <2>1 DEF FixedLength
    <3> QED
      BY <3>1 DEF Sendable
  <2>4. n >= 12
    BY <1>2, <2>3
  <2>5. f.BeaconInterval \in BeaconIntervals
    <3>1. Decoded(p)
      <4>1. s.Type \in DOMAIN FixedLength /\ FixedLength[s.Type] = 12
        BY <2>1 DEF FixedLength
      <4> QED
        BY <1>1, <1>3, <2>4, <4>1 DEF Decoded
    <3>2. s.Type \in DOMAIN Places["BeaconInterval"] /\ Places["BeaconInterval"][s.Type] = 9
      BY <2>1 DEF Places
    <3>3. Field(p, "BeaconInterval") = Word(p.body, 9)
      BY <1>1, <3>1, <3>2 DEF Field
    <3>4. p.body[9] = s.fixed[9] /\ p.body[9 + 1] = s.fixed[9 + 1]
      BY <1>2, <1>3, <2>3
    <3>5. Word(p.body, 9) = Word(s.fixed, 9)
      BY <3>4, Zenon DEF Word
    <3>6. f.BeaconInterval = Word(s.fixed, 9)
      BY <1>5, <3>3, <3>5, Zenon
    <3> QED
      BY <2>2, <3>6, Zenon
  <2>6. ValidSSID(f.SSID)
    <3>1. PICK r \in 0..Len(s.elements) : FindsReceived(s, n, p, r)
      BY <1>4, <2>1, FrameElements DEF p
    <3>2. Carried(s, n) # {}
      <4>1. 1 \in Received(s, n)
        BY <2>2, FirstReceived
      <4>2. \A i \in 1..1 : Decodable(s.elements[i])
        <5>1. \A i \in 1..1 : i = 1
          OBVIOUS
        <5> QED
          BY <2>2, <5>1
      <4>3. 1 \in Carried(s, n)
        BY <4>1, <4>2 DEF Carried
      <4> QED
        BY <4>3
    <3> DEFINE es == Handed(s)
               x == SubSeq(es, 1, r)
               m == ElementMap(x)
    <3>3. InfoElements(p) = m /\ Layered(p) \o Unlayered(p) = x
      BY <2>1, <3>1, <3>2 DEF FindsReceived, APTypes
    <3>7. /\ es \in Seq(SentElement) /\ Len(es) = Len(s.elements)
          /\ \A i \in 1..Len(s.elements) :
               /\ es[i].id = s.elements[i].id
               /\ s.elements[i].id = 0 => es[i].info = s.elements[i].info
      BY <1>2, HandedElements
    <3> HIDE DEF es
    <3>8. r \in 0..Len(es)
      BY <3>7
    <3> HIDE DEF SentElement
    <3>4. /\ \/ SSIDOf(x) = << >>
             \/ \E i \in 1..r : es[i].id = 0 /\ SSIDOf(x) = es[i].info
          /\ 0 \in DOMAIN m => \E i \in 1..r : es[i].id = 0 /\ m[0] = es[i].info
      BY <3>7, <3>8, FirstElements
    <3> HIDE DEF x, m
    <3>5. \A i \in 1..r : i \in DOMAIN s.elements /\ i \in 1..Len(s.elements)
      BY <1>2
    <3>6. ValidSSID(SSIDOf(x)) /\ (0 \in DOMAIN m => ValidSSID(m[0]))
      <4>1. ValidSSID(<< >>)
        BY DEF ValidSSID
      <4> QED
        <5>1. \A i \in 1..r : es[i].id = 0 => ValidSSID(es[i].info)
          BY <2>2, <3>5, <3>7, Zenon
        <5>2. ValidSSID(SSIDOf(x))
          BY <3>4, <4>1, <5>1, Zenon
        <5>3. 0 \in DOMAIN m => ValidSSID(m[0])
          BY <3>4, <5>1, Zenon
        <5> QED
          BY <5>2, <5>3
    <3> QED
      BY <1>5, <3>3, <3>6
  <2> QED
    <3>1. ~AllZero(f.BSSID) /\ Unicast(f.BSSID) /\ f.SrcMAC = f.BSSID
      BY <1>5, <2>2, Zenon
    <3>2. IF f.FrameType = "Beacon" THEN f.DstMAC = Broadcast ELSE ~AllZero(f.DstMAC)
      BY <1>5, <2>1, <2>2, Zenon
    <3> QED
      BY <2>5, <2>6, <3>1, <3>2 DEF ValidAP
<1>8. ValidStation(f)
  BY <1>5 DEF ValidStation, WellFormed
<1>9. Valid(f)
  BY <1>7, <1>8 DEF Valid
<1> QED
  BY <1>1, <1>6, <1>9 DEF Parse, p, f

\* A capture of any transmission, however received and wherever cut off, is faithful.
LEMMA CaptureFaithful ==
  ASSUME NEW s, Sendable(s), NEW reception, reception.channel \in 1..177,
         NEW n \in 0..Len(Body(s))
  PROVE  Faithful([sent |-> s, bytes |-> n, reception |-> reception,
                   result |-> Parse(Packet(s, n, reception))])
<1> DEFINE p == Packet(s, n, reception)
           f == Frame(p)
           result == Parse(p)
           c == [sent |-> s, bytes |-> n, reception |-> reception, result |-> result]
           carried == Carried(s, n)
           ids == {s.elements[i].id : i \in carried}
           elements == (s.Type \in APTypes /\ carried # {}) \/ s.Type = "ProbeRequest"
<1>1. /\ p.Type = s.Type /\ p.Address1 = s.Address1 /\ p.Address2 = s.Address2
      /\ p.Address3 = s.Address3
      /\ reception.aligned => Signal(p) = Frequency(reception.channel)
  BY DEF Packet, Signal
<1>2. result.frame = f
  BY DEF Parse
<1>3. WellFormed(s) /\ n = Len(Body(s)) /\ ~reception.BadFCS => result.err = "nil"
  BY WellFormedAccepted
<1>4. reception.aligned => Channel(Signal(p)) = reception.channel
  BY <1>1, ChannelOfFrequency
<1> HIDE DEF p
<1>5. /\ f.FrameType = Class(s.Type)
      /\ f.SrcMAC = s.Address2 /\ f.DstMAC = s.Address1 /\ f.BSSID = s.Address3
      /\ f.Channel = Channel(Signal(p))
      /\ f.InfoElements = InfoElements(p)
      /\ f.SSIDPresent <=>
           \/ 0 \in DOMAIN InfoElements(p)
           \/ \E i \in DOMAIN (Layered(p) \o Unlayered(p)) :
                (Layered(p) \o Unlayered(p))[i].id = 0
      /\ f.SSID = IF SSIDOf(Layered(p) \o Unlayered(p)) = << >> /\ 0 \in DOMAIN InfoElements(p)
                  THEN InfoElements(p)[0] ELSE SSIDOf(Layered(p) \o Unlayered(p))
  BY <1>1, FrameFields
<1> HIDE DEF f, result
<1>6. s.Type \in SameName => f.FrameType = s.Type
  <2>1. s.Type \in SameName => Class(s.Type) = s.Type
    BY DEF Class, SameName, QoSData, Null, OtherData
  <2> QED
    BY <1>5, <2>1, Zenon
<1>7. ASSUME elements \/ s.Type = "AssocReq"
      PROVE  /\ elements =>
                  /\ DOMAIN f.InfoElements = ids
                  /\ \A i \in carried :
                       \/ f.InfoElements[s.elements[i].id] = Content(s, i)
                       \/ \E j \in carried : j > i /\ s.elements[j].id = s.elements[i].id
                  /\ f.SSIDPresent <=> 0 \in ids
                  /\ 0 \notin ids => f.SSID = << >>
             /\ \A i \in carried :
                  s.elements[i].id = 0 /\ s.elements[i].info # << >> /\ Single(s, i, carried) =>
                    f.SSID = s.elements[i].info
  <2>1. s.Type \in {"Beacon", "ProbeResponse", "AssocReq", "ProbeRequest"}
    BY <1>7 DEF APTypes
  <2>2. PICK r \in 0..Len(s.elements) :
          /\ carried = 1..r
          /\ elements => InfoElements(p) = ElementMap(SubSeq(Handed(s), 1, r))
          /\ Layered(p) \o Unlayered(p) =
               IF s.Type = "ProbeRequest" THEN << >> ELSE SubSeq(Handed(s), 1, r)
    <3>1. PICK r \in 0..Len(s.elements) : FindsReceived(s, n, p, r)
      BY <2>1, FrameElements DEF p
    <3> QED
      BY <3>1 DEF FindsReceived
  <2> DEFINE es == Handed(s)
             x == SubSeq(es, 1, r)
             m == ElementMap(x)
             found == Layered(p) \o Unlayered(p)
  <2>3. /\ es \in Seq(SentElement) /\ Len(es) = Len(s.elements)
        /\ \A i \in 1..Len(s.elements) :
             /\ es[i].id = s.elements[i].id /\ es[i].info = Content(s, i)
             /\ s.elements[i].id = 0 => es[i].info = s.elements[i].info
    <3>1. s.elements \in Seq(SentElement)
      BY SendableBody
    <3> QED
      BY <3>1, HandedElements
  <2> HIDE DEF es
  <2>13. r \in 0..Len(es) /\ es \in Seq(SentElement)
    BY <2>3
  <2>4. /\ DOMAIN x = 1..r /\ \A i \in 1..r : x[i] = es[i]
        /\ DOMAIN m = {es[i].id : i \in 1..r}
        /\ \A i \in 1..r : \/ m[es[i].id] = es[i].info
                           \/ \E j \in 1..r : j > i /\ es[j].id = es[i].id
        /\ \A i \in 1..r :
             es[i].id = 0 /\ (\A j \in 1..r : es[j].id = es[i].id => j = i) =>
               0 \in DOMAIN m /\ m[0] = es[i].info /\ SSIDOf(x) = es[i].info
        /\ (\A i \in 1..r : es[i].id # 0) => SSIDOf(x) = << >>
    <3> HIDE DEF SentElement
    <3> QED
      BY <2>13, FirstElements
  <2> HIDE DEF x, m, found, carried, elements
  <2>12. /\ ids = {es[i].id : i \in 1..r}
         /\ \A i \in 1..r : /\ es[i].id = s.elements[i].id /\ es[i].info = Content(s, i)
                            /\ s.elements[i].id = 0 => es[i].info = s.elements[i].info
    <3>1. Len(s.elements) \in Nat /\ \A i \in 1..r : i \in 1..Len(s.elements)
      BY <2>3
    <3>2. \A i \in 1..r : /\ es[i].id = s.elements[i].id /\ es[i].info = Content(s, i)
                          /\ s.elements[i].id = 0 => es[i].info = s.elements[i].info
      BY <2>3, <3>1
    <3> QED
      BY <2>2, <3>2
  <2>5. /\ carried = 1..r
        /\ elements => InfoElements(p) = m
        /\ found = IF s.Type = "ProbeRequest" THEN << >> ELSE x
    BY <2>2 DEF x, m, found, es
  <2>6. SSIDOf(<< >>) = << >>
    BY DEF SSIDOf
  <2>7. elements => DOMAIN f.InfoElements = ids
    BY <1>5, <2>2, <2>4, <2>12 DEF es, m, x
  <2>8. ASSUME elements, NEW i \in carried
        PROVE  \/ f.InfoElements[s.elements[i].id] = Content(s, i)
               \/ \E j \in carried : j > i /\ s.elements[j].id = s.elements[i].id
    <3>1. i \in 1..r /\ f.InfoElements = m
      BY <1>5, <2>2, <2>5, <2>8
    <3>2. \/ m[es[i].id] = es[i].info
          \/ \E j \in 1..r : j > i /\ es[j].id = es[i].id
      BY <2>4, <3>1
    <3> QED
      BY <2>2, <2>12, <3>1, <3>2
  <2>9. ASSUME elements PROVE f.SSIDPresent <=> 0 \in ids
    <3>1. f.SSIDPresent <=> 0 \in ids \/ \E i \in DOMAIN found : found[i].id = 0
      BY <1>5, <2>7, <2>9 DEF found
    <3>2. ASSUME NEW i \in DOMAIN found, found[i].id = 0 PROVE 0 \in ids
      <4>1. found = x
        BY <2>5, <3>2
      <4>2. i \in 1..r /\ es[i].id = 0
        BY <2>4, <3>2, <4>1
      <4> QED
        BY <2>12, <4>2
    <3> QED
      BY <3>1, <3>2
  <2>10. ASSUME elements, 0 \notin ids PROVE f.SSID = << >>
    <3>1. \A i \in 1..r : es[i].id # 0
      BY <2>10, <2>12
    <3>2. SSIDOf(found) = << >>
      BY <2>4, <2>5, <2>6, <3>1
    <3>3. 0 \notin DOMAIN InfoElements(p)
      BY <1>5, <2>7, <2>10
    <3> QED
      BY <1>5, <3>2, <3>3 DEF found
  <2>11. ASSUME NEW i \in carried, s.elements[i].id = 0, s.elements[i].info # << >>,
                Single(s, i, carried)
         PROVE  f.SSID = s.elements[i].info
    <3>1. /\ i \in 1..r /\ es[i].id = 0 /\ es[i].info # << >>
          /\ es[i].info = s.elements[i].info
          /\ \A j \in 1..r : es[j].id = es[i].id => j = i
      BY SMTT(30), <2>2, <2>11, <2>12 DEF Single
    <3>2. 0 \in DOMAIN m /\ m[0] = es[i].info /\ SSIDOf(x) = es[i].info
      BY <2>4, <3>1
    <3>3. CASE s.Type = "ProbeRequest"
      <4>1. elements
        BY <3>3 DEF elements
      <4>2. SSIDOf(found) = << >> /\ InfoElements(p) = m
        <5>1. found = << >>
          BY <2>5, <3>3
        <5> QED
          BY <2>5, <2>6, <4>1, <5>1, Zenon
      <4> QED
        BY <1>5, <3>1, <3>2, <4>2 DEF found
    <3>4. CASE s.Type # "ProbeRequest"
      <4>1. SSIDOf(found) = es[i].info
        BY <2>5, <3>2, <3>4
      <4> QED
        BY <1>5, <3>1, <4>1 DEF found
    <3> QED
      BY <3>3, <3>4
  <2> QED
    BY <2>7, <2>8, <2>9, <2>10, <2>11
<1>8. c.sent = s /\ c.bytes = n /\ c.reception = reception /\ c.result = result
  OBVIOUS
<1> HIDE DEF c
<1> SUFFICES Faithful(c)
  BY DEF c, result, p
<1> QED
  BY <1>2, <1>3, <1>4, <1>5, <1>6, <1>7, <1>8 DEF Faithful

--------------------------------------------------------------------------------
(* The rules together. *)

Inv ==
  /\ now \in Times
  /\ registered \in SUBSET Rules
  /\ capture = None \/ capture.sent \in Transmissions
  /\ FloodInv /\ BeaconInv /\ TwinInv /\ DeviceInv

\* Before the first frame no rule remembers anything.
LEMMA Initially == Init => Inv
<1> SUFFICES ASSUME Init PROVE Inv
  OBVIOUS
<1>1. /\ Times \subseteq Nat /\ None \notin Nat /\ 0 \in Times /\ now = 0
      /\ 0 \in 0..(CleanupInterval - 1)
  BY TimesNat, FramesAssumption DEF Init, Times
<1>2. registered \in SUBSET Rules /\ capture = None
  BY ConfigurationAssumption DEF Init
<1>3. FloodInv
  BY <1>1 DEF Init, FloodInit, FloodInv, FloodTypeOK, Recalled, Ends, Tracker
<1>4. BeaconInv
  BY <1>1 DEF Init, BeaconInit, BeaconInv, BeaconTypeOK, AirInv, SpentInv, BeaconSound
<1>5. TwinInv
  <2>1. TwinTypeOK
    <3>1. 0 \in 0..MinBeacons /\ << >> \in Seq(Record)
      BY TwinNumbers
    <3>2. records \in [SSIDs -> Seq(Record)] /\ \A s \in SSIDs : DOMAIN records[s] = {}
      BY <3>1 DEF Init, TwinInit
    <3> QED
      BY <1>1, <3>1, <3>2 DEF Init, TwinInit, TwinTypeOK
  <2>2. \A s \in SSIDs : Listed(records[s], frameCount[s])
    BY DEF Init, TwinInit, Listed
  <2>3. \A s \in SSIDs, p \in Pairs : Agreed(s, p)
    BY DEF Init, TwinInit, Agreed
  <2> QED
    BY <2>1, <2>2, <2>3 DEF Init, TwinInit, TwinInv, TwinEvidence
<1>6. DeviceInv
  BY <1>1 DEF Init, DeviceInit, DeviceInv, DeviceTypeOK
<1> QED
  BY <1>1, <1>2, <1>3, <1>4, <1>5, <1>6 DEF Inv

\* A frame, or a packet, keeps the invariant of every rule.
LEMMA Continues ==
  ASSUME Inv, [Next]_vars
  PROVE  Inv'
<1>1. now' \in Times /\ registered' = registered
  BY Clock DEF Inv
<1>2. capture' = None \/ capture'.sent \in Transmissions
  BY DEF Inv, Next, vars, Deauth, Beacon, ProbeResponse, Access, ProbeRequest, OnlyDevice,
     Capture
<1>3. FloodInv' /\ BeaconInv' /\ TwinInv' /\ DeviceInv'
  BY FloodStep, BeaconStep, TwinStep, DeviceStep DEF Inv
<1> QED
  BY <1>1, <1>2, <1>3 DEF Inv

\* The invariants of the rules hold whatever the frames are and however they follow each
\* other (dispatchFrames, detector.go).
THEOREM Invariance == Spec => []Inv
<1>1. Init => Inv
  BY Initially
<1>2. Inv /\ [Next]_vars => Inv'
  BY Continues
<1> QED
  BY <1>1, <1>2, PTL DEF Spec

\* Every variable of the rules has its type, the records that the evil twin rule keeps of an
\* SSID (rule_evil_twin.go) are of different access points.
THEOREM TypeCorrect == Spec => []TypeOK
<1>1. Inv => TypeOK
  BY DEF Inv, TypeOK, FloodInv, BeaconInv, TwinInv, DeviceInv
<1> QED
  BY <1>1, Invariance, PTL

\* No key ever has threshold frames within one window since its last event, whatever the
\* tracker cut off, reset or cleaned up (floodRule.Process).
THEOREM FloodCompleteCorrect == Spec => []FloodComplete
<1>1. Inv => FloodComplete
  BY FloodInvComplete DEF Inv
<1> QED
  BY <1>1, Invariance, PTL

\* A flood event has threshold frames of its key within one window behind it, and its
\* count and duration are those of all the frames there since the key's last event
\* (floodRule.process).
THEOREM FloodSoundCorrect == Spec => FloodSound
<1>1. Inv /\ [Next]_vars =>
        [floodEvent' # floodEvent /\ floodEvent' # None =>
           RealMetrics(floodEvent', heard[floodEvent'.key], now')]_<<now, floodVars>>
  BY FloodEventStep DEF Inv
<1> QED
  BY <1>1, Invariance, PTL DEF Spec, FloodSound

\* A beacon flood event is about threshold access points that all beaconed on its channel
\* within one window, and never comes while the rule learns (beaconFloodRule.Process).
THEOREM BeaconSoundCorrect == Spec => []BeaconSound
<1>1. Inv => BeaconSound
  BY DEF Inv, BeaconInv
<1> QED
  BY <1>1, Invariance, PTL

\* Until a cleanup no access point is in two events of a channel (promoteWindowToKnown).
THEOREM BeaconOnceCorrect == Spec => BeaconOnce
<1>1. Inv /\ [Next]_vars =>
        [beaconEvent' # None /\ beaconEvent' # beaconEvent =>
           beaconEvent'.bssids \cap Uncleaned[beaconEvent'.channel] = {}]_<<now, beaconVars>>
  BY BeaconStep DEF Inv
<1> QED
  BY <1>1, Invariance, PTL DEF Spec, BeaconOnce

\* An evil twin event is about two access points that were each heard min_beacons times,
\* and never comes in the learning period (evaluateCandidateLocked).
THEOREM TwinEvidenceCorrect == Spec => []TwinEvidence
<1>1. Inv => TwinEvidence
  BY DEF Inv, TwinInv
<1> QED
  BY <1>1, Invariance, PTL

\* Two access points are not reported twice within stale_timeout, although the cleanup
\* deletes alerts and records (rule_evil_twin.go, cleanupStale).
THEOREM TwinSpacingCorrect == Spec => TwinSpacing
<1>1. Inv /\ [Next]_vars =>
        [\A s \in SSIDs, pair \in Pairs :
           reported[s][pair] # None /\ reported'[s][pair] # reported[s][pair]
             => now' - reported[s][pair] >= StaleTimeout]_<<now, twinVars>>
  BY TwinStep DEF Inv
<1> QED
  BY <1>1, Invariance, PTL DEF Spec, TwinSpacing

\* An intruder is reported exactly when its last report is a cooldown in the past, also
\* after the cleanup deleted the time of that report (unauthorizedDeviceRule.Process).
THEOREM IntrusionReportedCorrect == Spec => IntrusionReported
<1>1. Inv /\ [Next]_vars =>
        [LET last == IF intruder' = None THEN None ELSE alertedAt[intruder']
         IN deviceEvent' =
              IF intruder' # None /\ (last = None \/ now' - last >= Cooldown)
              THEN intruder' ELSE None]_<<now, deviceVars>>
  BY DeviceStep DEF Inv
<1> QED
  BY <1>1, Invariance, PTL DEF Spec, IntrusionReported

\* What captureLoop has of a packet is what was sent, as far as it was received: whatever
\* the station sends, however it is received and wherever it is cut off (parser.Parse).
THEOREM ParsedCorrect == Spec => []ParsedAsSent
<1>1. Init => ParsedAsSent
  BY DEF Init, ParsedAsSent
<1>2. ParsedAsSent /\ [Next]_vars => ParsedAsSent'
  <2> SUFFICES ASSUME ParsedAsSent, [Next]_vars PROVE ParsedAsSent'
    OBVIOUS
  <2>1. CASE capture' = capture
    BY <2>1 DEF ParsedAsSent
  <2>2. CASE \E s \in Transmissions, reception \in Receptions :
               \E n \in 0..Len(Body(s)) : Capture(s, n, reception)
    <3>1. PICK s \in Transmissions, reception \in Receptions :
            \E n \in 0..Len(Body(s)) : Capture(s, n, reception)
      BY <2>2
    <3>2. PICK n \in 0..Len(Body(s)) :
             capture' = [sent |-> s, bytes |-> n, reception |-> reception,
                         result |-> Parse(Packet(s, n, reception))]
      BY <3>1 DEF Capture
    <3>3. Sendable(s) /\ reception.channel \in 1..177
      BY CaptureAssumption
    <3>4. Faithful(capture')
      BY <3>2, <3>3, CaptureFaithful
    <3> QED
      BY <3>4 DEF ParsedAsSent
  <2> QED
    BY <2>1, <2>2 DEF Next, vars, Deauth, Beacon, ProbeResponse, Access, ProbeRequest, OnlyDevice
<1> QED
  BY <1>1, <1>2, PTL DEF Spec
================================================================================
