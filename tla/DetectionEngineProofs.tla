------------------------- MODULE DetectionEngineProofs -------------------------
(***************************************************************************)
(* Proofs about DetectionEngine for every set of rules and events, every   *)
(* channel capacity, limit and sweep interval.                             *)
(***************************************************************************)
EXTENDS DetectionEngine, FiniteSetTheorems, TLAPS

\* What Process returns is a sequence of at most MaxRuleEvents events.
LEMMA UptoType ==
  ASSUME NEW S, NEW n \in Nat, NEW q \in Upto(S, n)
  PROVE  q \in Seq(S) /\ Len(q) <= n
<1>1. PICK m \in 0..n : q \in [1..m -> S]
  BY DEF Upto
<1>2. m \in Nat /\ m <= n
  BY <1>1
<1> QED
  BY <1>1, <1>2

\* Append adds one element of the same kind.
LEMMA AppendType ==
  ASSUME NEW S, NEW q \in Seq(S), NEW e \in S
  PROVE  Append(q, e) \in Seq(S) /\ Len(Append(q, e)) = Len(q) + 1
OBVIOUS

\* A window that is not larger than two positive ones is positive.
LEMMA LeastType ==
  ASSUME NEW a \in Int, NEW b \in Int
  PROVE  /\ Least(a, b) \in Int /\ Least(a, b) <= a /\ Least(a, b) <= b
         /\ a > 0 /\ b > 0 => Least(a, b) > 0
BY DEF Least

\* The goroutine is inside emit with an event in hand.
EmitInv ==
  pc \in {"window", "decide", "send"} => events # << >> /\ Head(events) \in Events

\* The ticker's period is positive once the engine runs.
TickerInv == pc # "new" => sweepEvery > 0

TypeInv == TypeOK /\ EmitInv /\ TickerInv

\* A sweep leaves a well-typed map that is a part of the one it found.
LEMMA SweepType ==
  ASSUME TypeOK, SweepDedup
  PROVE  /\ dedup' \in [Keys -> Nat \cup {None}]
         /\ evicted' \in SUBSET Keys
         /\ \A k \in Keys : dedup'[k] # None => dedup'[k] = dedup[k]
BY DEF TypeOK, SweepDedup

\* The initial state is well typed.
LEMMA InitType == Init => TypeInv
<1> SUFFICES ASSUME Init PROVE TypeInv
  OBVIOUS
<1> USE EngineAssumption DEF Init
<1>1. window \in Int /\ window > 0 /\ win \in Int
  OBVIOUS
<1>2. /\ dedup \in [Keys -> Nat \cup {None}]
      /\ recorded \in [Keys -> Nat \cup {None}]
      /\ minWin \in [Keys -> Int]
  BY <1>1
<1>3. rules \in Seq(RuleNames) /\ todo \in Seq(RuleNames)
  OBVIOUS
<1>4. events \in Seq(Events \cup {Nil}) /\ alerts \in Seq(Events)
  OBVIOUS
<1>5. Len(alerts) <= AlertCap
  OBVIOUS
<1> QED
  BY <1>1, <1>2, <1>3, <1>4, <1>5 DEF TypeInv, TypeOK, EmitInv, TickerInv

\* Every step keeps the types.
LEMMA StepType == TypeInv /\ [Next]_vars => TypeInv'
<1> SUFFICES ASSUME TypeInv, [Next]_vars PROVE TypeInv'
  OBVIOUS
<1> USE EngineAssumption DEF TypeInv, TypeOK, EmitInv, TickerInv, work, knobs, hist
<1>1. ASSUME NEW r \in RuleNames, Register(r) PROVE TypeInv'
  BY <1>1 DEF Register
<1>2. CASE Run
  BY <1>2 DEF Run
<1>3. ASSUME NEW v \in BOOLEAN, SetEnabled(v) PROVE TypeInv'
  BY <1>3 DEF SetEnabled
<1>4. ASSUME NEW d \in Windows, SetDedupWindow(d) PROVE TypeInv'
  <2>1. d \in Int
    OBVIOUS
  <2>2. minWin' \in [Keys -> Int]
    BY <1>4, <2>1 DEF SetDedupWindow, Least
  <2> QED
    BY <1>4, <2>1, <2>2 DEF SetDedupWindow
<1>5. CASE Exit
  BY <1>5 DEF Exit
<1>6. CASE SelectTicker
  BY <1>6, SweepType DEF SelectTicker
<1>7. CASE SelectFrame
  BY <1>7 DEF SelectFrame
<1>8. CASE ProcessRule
  <2>1. events' \in Seq(Events \cup {Nil})
    BY <1>8, UptoType DEF ProcessRule
  <2>2. todo' \in Seq(RuleNames)
    BY <1>8 DEF ProcessRule
  <2> QED
    BY <1>8, <2>1, <2>2 DEF ProcessRule
<1>9. CASE EndFrame
  <2>1. /\ dedup' \in [Keys -> Nat \cup {None}]
        /\ evicted' \in SUBSET Keys
    BY <1>9, SweepType DEF EndFrame, NoSweep
  <2> QED
    BY <1>9, <2>1 DEF EndFrame
<1>10. CASE EmitSkip
  BY <1>10 DEF EmitSkip
<1>11. CASE EmitEnabled
  BY <1>11 DEF EmitEnabled
<1>12. CASE EmitWindow
  BY <1>12 DEF EmitWindow
<1>13. CASE EmitSuppress
  BY <1>13 DEF EmitSuppress
<1>14. CASE EmitRecord
  <2>1. /\ dedup' \in [Keys -> Nat \cup {None}]
        /\ recorded' \in [Keys -> Nat \cup {None}]
        /\ minWin' \in [Keys -> Int]
        /\ evicted' \in SUBSET Keys
    BY <1>14 DEF EmitRecord
  <2> QED
    BY <1>14, <2>1 DEF EmitRecord
<1>15. CASE EmitSend
  <2>1. DedupKey(Head(events)) \in Keys
    BY <1>15 DEF EmitSend, Keys
  <2>2. /\ alerts' \in Seq(Events) /\ Len(alerts') <= AlertCap
        /\ sentOff' \in Nat
    <3>1. CASE Len(alerts) < AlertCap
      <4>1. Head(events) \in Events
        BY <1>15 DEF EmitSend
      <4>2. alerts' \in Seq(Events) /\ Len(alerts') = Len(alerts) + 1
        <5>1. alerts' = Append(alerts, Head(events))
          BY <1>15, <3>1 DEF EmitSend
        <5> QED
          BY <5>1, <4>1, AppendType
      <4> QED
        BY <1>15, <2>1, <3>1, <4>2 DEF EmitSend
    <3>2. CASE ~(Len(alerts) < AlertCap)
      BY <1>15, <2>1, <3>2 DEF EmitSend
    <3> QED
      BY <3>1, <3>2
  <2>3. events' \in Seq(Events \cup {Nil})
    BY <1>15 DEF EmitSend
  <2> QED
    BY <1>15, <2>2, <2>3 DEF EmitSend
<1>16. CASE ReceiveAlert
  BY <1>16 DEF ReceiveAlert
<1>17. CASE Cancel
  BY <1>17 DEF Cancel
<1>18. CASE CloseFrames
  BY <1>18 DEF CloseFrames
<1>19. CASE Tick
  BY <1>19 DEF Tick
<1>20. CASE UNCHANGED vars
  BY <1>20 DEF vars, code
<1> QED
  BY <1>1, <1>2, <1>3, <1>4, <1>5, <1>6, <1>7, <1>8, <1>9, <1>10, <1>11, <1>12,
     <1>13, <1>14, <1>15, <1>16, <1>17, <1>18, <1>19, <1>20 DEF Next

\* Type correctness of the engine: in particular the alerts channel never holds
\* more than its capacity and the window stays positive.
THEOREM TypeCorrect == Spec => []TypeOK
<1>1. Spec => []TypeInv
  BY InitType, StepType, PTL DEF Spec
<1> QED
  BY <1>1, PTL DEF TypeInv

--------------------------------------------------------------------------------
(* Spacing of the records that emit makes. *)

\* What the map remembers is when the key was last recorded; what it has forgotten
\* without being overfull is more than two windows old; and emit never holds a
\* window smaller than any in force since the key was last recorded.
SpacingInv ==
  \A k \in Keys :
    /\ dedup[k] # None => dedup[k] = recorded[k]
    /\ recorded[k] # None => recorded[k] <= clock
    /\ recorded[k] # None /\ dedup[k] = None /\ k \notin evicted
         => clock - recorded[k] > 2 * minWin[k]
    /\ 0 < minWin[k] /\ minWin[k] <= window
    /\ pc = "decide" => minWin[k] <= win

\* An entry that a sweep removes either is more than two windows old or is
\* noted as evicted.
LEMMA SweepSpacing ==
  ASSUME TypeInv, SpacingInv, SweepDedup,
         UNCHANGED <<recorded, minWin, clock, window, win>>, pc' # "decide"
  PROVE  SpacingInv'
<1> SUFFICES ASSUME NEW k \in Keys
             PROVE  /\ dedup'[k] # None => dedup'[k] = recorded[k]
                    /\ recorded[k] # None => recorded[k] <= clock
                    /\ recorded[k] # None /\ dedup'[k] = None /\ k \notin evicted'
                         => clock - recorded[k] > 2 * minWin[k]
                    /\ 0 < minWin[k] /\ minWin[k] <= window
  BY DEF SpacingInv
<1> USE DEF TypeInv, TypeOK
<1>1. dedup'[k] # None => dedup'[k] = recorded[k]
  BY SweepType DEF SpacingInv
<1>2. ASSUME recorded[k] # None, dedup'[k] = None, k \notin evicted'
      PROVE  clock - recorded[k] > 2 * minWin[k]
  <2>1. k \notin evicted
    BY <1>2 DEF SweepDedup
  <2>2. CASE dedup[k] = None
    BY <1>2, <2>1, <2>2 DEF SpacingInv
  <2>3. CASE dedup[k] # None
    <3>1. dedup[k] = recorded[k] /\ recorded[k] \in Nat
      BY <2>3, <1>2 DEF SpacingInv
    <3>2. ~Fresh(k)
      BY <1>2, <2>3 DEF SweepDedup
    <3>3. dedup[k] < clock - 2 * window
      BY <2>3, <3>2 DEF Fresh
    <3> QED
      BY <3>1, <3>3, minWin[k] <= window, minWin[k] \in Int DEF SpacingInv
  <2> QED
    BY <2>2, <2>3
<1> QED
  BY <1>1, <1>2 DEF SpacingInv

\* The spacing invariant holds of every reachable state.
LEMMA SpacingInvariant == Spec => [](TypeInv /\ SpacingInv)
<1>1. Init => SpacingInv
  BY EngineAssumption DEF Init, SpacingInv
<1>2. TypeInv /\ SpacingInv /\ [Next]_vars => SpacingInv'
  <2> SUFFICES ASSUME TypeInv, SpacingInv, [Next]_vars PROVE SpacingInv'
    OBVIOUS
  <2> USE EngineAssumption DEF TypeInv, TypeOK, work, knobs, hist
  <2>1. CASE EmitRecord
    <3>1. PICK k \in Keys : k = DedupKey(Head(events))
      BY <2>1 DEF EmitRecord, EmitInv, Keys
    <3>2. /\ dedup' = [dedup EXCEPT ![k] = clock]
          /\ recorded' = [recorded EXCEPT ![k] = clock]
          /\ minWin' = [minWin EXCEPT ![k] = window]
          /\ evicted' = evicted \ {k}
          /\ pc' = "send"
          /\ UNCHANGED <<clock, window, win>>
      BY <2>1, <3>1 DEF EmitRecord
    <3> QED
      BY <3>2 DEF SpacingInv
  <2>2. CASE SelectTicker
    BY <2>2, SweepSpacing DEF SelectTicker
  <2>3. CASE EndFrame
    <3>1. CASE phase = 0
      BY <2>3, <3>1, SweepSpacing DEF EndFrame
    <3>2. CASE phase # 0
      BY <2>3, <3>2 DEF EndFrame, NoSweep, SpacingInv
    <3> QED
      BY <3>1, <3>2
  <2>4. ASSUME NEW d \in Windows, SetDedupWindow(d) PROVE SpacingInv'
    <3>1. ASSUME NEW k \in Keys
          PROVE  /\ minWin'[k] <= minWin[k] /\ 0 < minWin'[k] /\ minWin'[k] <= window'
                 /\ minWin'[k] \in Int
      <4>1. d \in Int /\ d > 0 /\ minWin'[k] = Least(minWin[k], d) /\ window' = d
        BY <2>4 DEF SetDedupWindow
      <4> QED
        BY SMTT(30), <4>1, LeastType DEF SpacingInv
    <3>2. UNCHANGED <<dedup, recorded, evicted, clock, pc, win>>
      BY <2>4 DEF SetDedupWindow
    <3>3. ASSUME NEW k \in Keys
          PROVE  /\ recorded[k] # None => recorded[k] \in Nat
                 /\ minWin[k] \in Int /\ clock \in Nat /\ win \in Int
      BY <3>1 DEF SpacingInv
    <3>4. ASSUME NEW k \in Keys, recorded[k] # None, dedup[k] = None, k \notin evicted
          PROVE  clock - recorded[k] > 2 * minWin'[k]
      <4>1. clock - recorded[k] > 2 * minWin[k]
        BY <3>4 DEF SpacingInv
      <4> QED
        BY <3>1, <3>3, <3>4, <4>1
    <3>5. ASSUME NEW k \in Keys, pc = "decide"
          PROVE  minWin'[k] <= win
      <4>1. minWin[k] <= win
        BY <3>5 DEF SpacingInv
      <4> QED
        BY <3>1, <3>3, <4>1
    <3> QED
      BY <3>1, <3>2, <3>4, <3>5 DEF SpacingInv
  <2>5. CASE Tick
    <3>1. clock' = clock + 1 /\ UNCHANGED <<dedup, recorded, minWin, evicted, window, pc, win>>
      BY <2>5 DEF Tick
    <3> QED
      BY <3>1 DEF SpacingInv
  <2>6. CASE EmitWindow
    <3>1. win' = window /\ UNCHANGED <<dedup, recorded, minWin, evicted, window, clock>>
      BY <2>6 DEF EmitWindow
    <3> QED
      BY <3>1 DEF SpacingInv
  <2>7. ASSUME UNCHANGED <<dedup, recorded, minWin, evicted, window, clock, win>>,
               pc' = pc \/ pc' # "decide"
        PROVE  SpacingInv'
    BY <2>7 DEF SpacingInv
  <2>8. ASSUME NEW r \in RuleNames, Register(r) PROVE SpacingInv'
    BY <2>7, <2>8 DEF Register
  <2>9. ASSUME NEW v \in BOOLEAN, SetEnabled(v) PROVE SpacingInv'
    BY <2>7, <2>9 DEF SetEnabled
  <2>10. CASE Run \/ Exit \/ SelectFrame \/ ProcessRule
    BY <2>7, <2>10 DEF Run, Exit, SelectFrame, ProcessRule
  <2>11. CASE EmitSkip \/ EmitEnabled \/ EmitSuppress \/ EmitSend
    BY <2>7, <2>11 DEF EmitSkip, EmitEnabled, EmitSuppress, EmitSend
  <2>12. CASE ReceiveAlert \/ Cancel \/ CloseFrames
    BY <2>7, <2>12 DEF ReceiveAlert, Cancel, CloseFrames
  <2>13. CASE UNCHANGED vars
    BY <2>7, <2>13 DEF vars, code
  <2> QED
    BY <2>1, <2>2, <2>3, <2>4, <2>5, <2>6, <2>8, <2>9, <2>10, <2>11, <2>12, <2>13
       DEF Next
<1> QED
  BY <1>1, <1>2, InitType, StepType, PTL DEF Spec

\* Records of one key are at least the smallest window apart that was in force
\* between them, unless an overfull map forgot the key.
THEOREM SpacingCorrect == Spec => DedupSpacing
<1>1. TypeInv /\ SpacingInv /\ [Next]_vars =>
        [\A k \in Keys :
           /\ recorded[k] # None
           /\ k \notin evicted
           /\ pc = "decide" /\ pc' = "send" /\ DedupKey(Head(events)) = k
           => clock - recorded[k] >= minWin[k]]_vars
  <2> SUFFICES ASSUME TypeInv, SpacingInv, Next, NEW k \in Keys,
                      recorded[k] # None, k \notin evicted,
                      pc = "decide", pc' = "send", DedupKey(Head(events)) = k
               PROVE  clock - recorded[k] >= minWin[k]
    OBVIOUS
  <2>1. EmitRecord
    BY DEF Next, Register, Run, SetEnabled, SetDedupWindow, Exit, SelectTicker,
           SelectFrame, ProcessRule, EndFrame, EmitSkip, EmitEnabled, EmitWindow,
           EmitSuppress, EmitSend, ReceiveAlert, Cancel, CloseFrames, Tick, work
  <2>2. ~Suppressed(k)
    BY <2>1 DEF EmitRecord
  <2>3. /\ minWin[k] \in Int /\ recorded[k] \in Nat /\ clock \in Nat /\ win \in Int
        /\ 0 < minWin[k] /\ minWin[k] <= win
    BY DEF TypeInv, TypeOK, SpacingInv
  <2>4. CASE dedup[k] = None
    BY <2>3, <2>4 DEF SpacingInv
  <2>5. CASE dedup[k] # None
    <3>1. dedup[k] = recorded[k]
      BY <2>5 DEF SpacingInv
    <3> QED
      BY <2>2, <2>3, <2>5, <3>1 DEF Suppressed
  <2> QED
    BY <2>4, <2>5
<1> QED
  BY <1>1, SpacingInvariant, PTL DEF Spec, DedupSpacing

\* An event is suppressed only within a window of the record of an event of the same
\* key that was not suppressed itself, whether or not that one found room in the
\* alerts channel.
THEOREM SuppressionCorrect == Spec => SuppressionNeedsRecentRecord
<1>1. TypeInv /\ SpacingInv /\ [Next]_vars =>
        [\A k \in Keys :
           pc = "decide" /\ pc' = "work" /\ DedupKey(Head(events)) = k
           => recorded[k] # None /\ clock - recorded[k] < win]_vars
  <2> SUFFICES ASSUME TypeInv, SpacingInv, Next, NEW k \in Keys,
                      pc = "decide", pc' = "work", DedupKey(Head(events)) = k
               PROVE  recorded[k] # None /\ clock - recorded[k] < win
    OBVIOUS
  <2>1. EmitSuppress
    BY DEF Next, Register, Run, SetEnabled, SetDedupWindow, Exit, SelectTicker,
           SelectFrame, ProcessRule, EndFrame, EmitSkip, EmitEnabled, EmitWindow,
           EmitRecord, EmitSend, ReceiveAlert, Cancel, CloseFrames, Tick, work
  <2>2. dedup[k] # None /\ clock - dedup[k] < win
    BY <2>1 DEF EmitSuppress, Suppressed
  <2>3. dedup[k] = recorded[k]
    BY <2>2 DEF SpacingInv
  <2> QED
    BY <2>2, <2>3
<1> QED
  BY <1>1, SpacingInvariant, PTL DEF Spec, SuppressionNeedsRecentRecord

--------------------------------------------------------------------------------
(* Switching the engine off. *)

\* An alert counts as sent after the switch only if its emit was under way, and
\* emit handles one event at a time.
QuiesceInv ==
  /\ sentOff <= 1
  /\ enabled => sentOff = 0
  /\ sentOff = 1 => pc \notin {"window", "decide", "send"}

\* After SetEnabled(false) at most one more alert is sent.
THEOREM QuiesceCorrect == Spec => []DisabledQuiesces
<1>1. Init => QuiesceInv
  BY DEF Init, QuiesceInv
<1>2. TypeInv /\ QuiesceInv /\ [Next]_vars => QuiesceInv'
  <2> SUFFICES ASSUME TypeInv, QuiesceInv, [Next]_vars PROVE QuiesceInv'
    OBVIOUS
  <2> USE DEF TypeInv, TypeOK, QuiesceInv, work, knobs, hist
  <2>1. ASSUME NEW v \in BOOLEAN, SetEnabled(v) PROVE QuiesceInv'
    BY <2>1 DEF SetEnabled
  <2>2. CASE EmitSend
    <3>1. sentOff = 0
      BY <2>2 DEF EmitSend
    <3> QED
      BY <2>2, <3>1 DEF EmitSend
  <2>3. CASE EmitEnabled
    BY <2>3 DEF EmitEnabled
  <2>4. CASE EmitWindow \/ EmitRecord
    BY <2>4 DEF EmitWindow, EmitRecord
  <2>5. ASSUME UNCHANGED <<sentOff, enabled>>,
               pc' = pc \/ pc' \notin {"window", "decide", "send"}
        PROVE  QuiesceInv'
    BY <2>5
  <2>6. ASSUME NEW r \in RuleNames, Register(r) PROVE QuiesceInv'
    BY <2>5, <2>6 DEF Register
  <2>7. ASSUME NEW d \in Windows, SetDedupWindow(d) PROVE QuiesceInv'
    BY <2>5, <2>7 DEF SetDedupWindow
  <2>8. CASE Run \/ Exit \/ SelectFrame \/ SelectTicker \/ ProcessRule \/ EndFrame
    BY <2>5, <2>8 DEF Run, Exit, SelectFrame, SelectTicker, ProcessRule, EndFrame
  <2>9. CASE EmitSkip \/ EmitSuppress
    BY <2>5, <2>9 DEF EmitSkip, EmitSuppress
  <2>10. CASE ReceiveAlert \/ Cancel \/ CloseFrames \/ Tick
    BY <2>5, <2>10 DEF ReceiveAlert, Cancel, CloseFrames, Tick
  <2>11. CASE UNCHANGED vars
    BY <2>5, <2>11 DEF vars, code
  <2> QED
    BY <2>1, <2>2, <2>3, <2>4, <2>6, <2>7, <2>8, <2>9, <2>10, <2>11 DEF Next
<1>3. QuiesceInv => DisabledQuiesces
  BY DEF QuiesceInv, DisabledQuiesces
<1> QED
  BY <1>1, <1>2, <1>3, InitType, StepType, PTL DEF Spec

--------------------------------------------------------------------------------
(* Size of the dedup map. *)

\* Frames begun since the last frame sweep, the current one included.
Round == IF phase = 0 THEN SweepInterval ELSE phase

Entries(d) == {k \in Keys : d[k] # None}

\* Between frames every frame since the last sweep has added at most PerFrame
\* entries; inside one, what rules and events are still to come is not yet used
\* up.  A recorded entry whose event is still in hand is the 1.
BoundInv ==
  /\ \A i, j \in 1..Len(rules) : rules[i] = rules[j] => i = j
  /\ Len(todo) <= Cardinality(RuleNames)
  /\ Len(events) <= MaxRuleEvents
  /\ pc \in {"new", "select", "done"} =>
       /\ events = << >>
       /\ Size(dedup) <= MaxDedupEntries + phase * PerFrame
  /\ pc \in {"work", "window", "decide", "send"} =>
       Size(dedup) + Len(todo) * MaxRuleEvents + Len(events)
         <= MaxDedupEntries + Round * PerFrame + (IF pc = "send" THEN 1 ELSE 0)

\* The keys are finitely many, so every part of them has a size.
LEMMA KeysFinite ==
  /\ IsFiniteSet(Keys)
  /\ \A S \in SUBSET Keys : IsFiniteSet(S) /\ Cardinality(S) \in Nat
<1>1. IsFiniteSet(Keys)
  <2> DEFINE f == [e \in Events |-> DedupKey(e)]
  <2>1. f \in Surjection(Events, Keys)
    BY Zenon DEF Surjection, Keys
  <2> QED
    BY <2>1, EngineAssumption, FS_Surjection
<1> QED
  BY <1>1, FS_Subset, FS_CardinalityType

\* The numbers of the bound are natural numbers.
LEMMA Numbers ==
  /\ Cardinality(RuleNames) \in Nat
  /\ PerFrame \in Nat
  /\ SweepInterval * PerFrame \in Nat
  /\ SweepInterval * PerFrame <= MaxDedupEntries
  /\ \A d : Size(d) \in Nat
<1>1. Cardinality(RuleNames) \in Nat
  BY EngineAssumption, FS_CardinalityType
<1>2. PerFrame \in Nat
  BY <1>1, EngineAssumption DEF PerFrame
<1>3. \A d : Size(d) \in Nat
  BY KeysFinite DEF Size
<1> QED
  BY <1>1, <1>2, <1>3, EngineAssumption, SweepAssumption

\* Multiplication by a natural number is monotone and distributes.
LEMMA Times ==
  ASSUME NEW a \in Nat, NEW b \in Nat, NEW c \in Nat
  PROVE  /\ a * c \in Nat
         /\ a <= b => a * c <= b * c
         /\ (a + 1) * c = a * c + c
<1>1. a * c \in Nat
  OBVIOUS
<1>2. (a + 1) * c = a * c + c
  OBVIOUS
<1>3. ASSUME a <= b PROVE a * c <= b * c
  <2>1. PICK x \in Nat : b = a + x
    BY <1>3
  <2>2. b * c = a * c + x * c
    BY <2>1
  <2>3. x * c \in Nat
    BY <2>1
  <2> QED
    BY <2>2, <2>3, <1>1
<1> QED
  BY <1>1, <1>2, <1>3

\* Registration refuses a second rule of the same name, so there are at most as
\* many registered rules as names.
LEMMA RuleCount ==
  ASSUME rules \in Seq(RuleNames),
         \A i, j \in 1..Len(rules) : rules[i] = rules[j] => i = j
  PROVE  Len(rules) <= Cardinality(RuleNames)
<1>1. rules \in [1..Len(rules) -> RuleNames] /\ Len(rules) \in Nat
  OBVIOUS
<1>2. IsFiniteSet(1..Len(rules)) /\ Cardinality(1..Len(rules)) = Len(rules)
  <2>1. Cardinality(1..Len(rules)) = IF 1 > Len(rules) THEN 0 ELSE Len(rules) - 1 + 1
    BY <1>1, FS_Interval
  <2>2. IsFiniteSet(1..Len(rules))
    BY <1>1, FS_Interval
  <2> QED
    BY <1>1, <2>1, <2>2
<1>3. Cardinality(1..Len(rules)) <= Cardinality(RuleNames)
  <2> SUFFICES ASSUME Cardinality(1..Len(rules)) > Cardinality(RuleNames)
               PROVE  FALSE
    BY <1>1, <1>2, Numbers
  <2>1. \E x, y \in 1..Len(rules) : x # y /\ rules[x] = rules[y]
    BY <1>1, <1>2, EngineAssumption, FS_PigeonHole
  <2> QED
    BY <2>1
<1> QED
  BY <1>2, <1>3

\* A sweep of a map of at most twice the limit leaves at most the limit: half
\* of what is too much is enough.
LEMMA SweepSize ==
  ASSUME TypeOK, SweepDedup, Size(dedup) <= 2 * MaxDedupEntries
  PROVE  Size(dedup') <= MaxDedupEntries
<1> DEFINE fresh == {k \in Keys : Fresh(k)}
<1>1. PICK left \in SUBSET Keys :
        /\ Survivors(left)
        /\ dedup' = [k \in Keys |-> IF k \in left THEN dedup[k] ELSE None]
  BY DEF SweepDedup
<1>2. fresh \subseteq Entries(dedup) /\ Entries(dedup) \subseteq Keys
  BY DEF Fresh, Entries
<1>3. /\ IsFiniteSet(fresh) /\ Cardinality(fresh) \in Nat
      /\ Cardinality(fresh) <= 2 * MaxDedupEntries
  <2>1. Cardinality(fresh) <= Cardinality(Entries(dedup))
    BY <1>2, KeysFinite, FS_Subset
  <2>2. Cardinality(fresh) \in Nat /\ Cardinality(Entries(dedup)) \in Nat
    BY <1>2, KeysFinite
  <2>3. Size(dedup) = Cardinality(Entries(dedup))
    BY DEF Size, Entries
  <2> QED
    BY <2>1, <2>2, <2>3, KeysFinite, EngineAssumption
<1>4. left \subseteq fresh /\ Cardinality(left) <= MaxDedupEntries
  <2>1. CASE Cardinality(fresh) <= MaxDedupEntries
    BY <1>1, <2>1 DEF Survivors
  <2>2. CASE ~(Cardinality(fresh) <= MaxDedupEntries)
    <3>1. PICK old \in SUBSET fresh :
            /\ Oldest(old, fresh, Cardinality(fresh) \div 2)
            /\ left = fresh \ old
      BY <1>1, <2>2 DEF Survivors
    <3>2. Cardinality(old) = Cardinality(fresh) \div 2
      BY <3>1 DEF Oldest
    <3>3. fresh \cap old = old
      OBVIOUS
    <3>4. Cardinality(left) = Cardinality(fresh) - Cardinality(fresh \cap old)
      BY <3>1, <1>3, KeysFinite, FS_Difference
    <3>5. Cardinality(left) = Cardinality(fresh) - Cardinality(fresh) \div 2
      BY <3>2, <3>3, <3>4
    <3> HIDE DEF fresh
    <3> QED
      BY <3>1, <3>5, <1>3, EngineAssumption
  <2> QED
    BY <2>1, <2>2
<1>5. Entries(dedup') = left
  BY <1>1, <1>4 DEF Entries, Fresh
<1> QED
  BY <1>4, <1>5 DEF Size, Entries

\* Recording a key adds at most one entry.
LEMMA RecordSize ==
  ASSUME TypeOK, NEW k \in Keys, NEW t \in Nat
  PROVE  Size([dedup EXCEPT ![k] = t]) <= Size(dedup) + 1
<1>1. Entries([dedup EXCEPT ![k] = t]) = Entries(dedup) \cup {k}
  BY EngineAssumption DEF Entries, TypeOK
<1>2. IsFiniteSet(Entries(dedup))
  BY KeysFinite DEF Entries
<1>3. Cardinality(Entries(dedup) \cup {k}) <= Cardinality(Entries(dedup)) + 1
  <2>1. Cardinality(Entries(dedup)) \in Nat
    BY <1>2, FS_CardinalityType
  <2>2. Cardinality(Entries(dedup) \cup {k})
          = IF k \in Entries(dedup) THEN Cardinality(Entries(dedup))
                                     ELSE Cardinality(Entries(dedup)) + 1
    BY <1>2, FS_AddElement
  <2> QED
    BY <2>1, <2>2
<1> QED
  BY <1>1, <1>3 DEF Size, Entries

\* Before any sweep the map holds at most twice the limit.
LEMMA SweepReady ==
  ASSUME TypeInv, BoundInv, pc = "select" \/ (pc = "work" /\ todo = << >> /\ events = << >>)
  PROVE  Size(dedup) <= 2 * MaxDedupEntries
<1> USE EngineAssumption DEF TypeInv, TypeOK
<1>1. phase \in Nat /\ phase <= SweepInterval /\ Round \in Nat /\ Round <= SweepInterval
  BY DEF Round
<1>2. /\ phase * PerFrame <= SweepInterval * PerFrame /\ phase * PerFrame \in Nat
      /\ Round * PerFrame <= SweepInterval * PerFrame /\ Round * PerFrame \in Nat
  BY <1>1, Times, Numbers
<1>3. CASE pc = "select"
  <2>1. Size(dedup) <= MaxDedupEntries + phase * PerFrame
    BY <1>3 DEF BoundInv
  <2> HIDE DEF TypeInv, TypeOK
  <2> QED
    BY <1>2, <2>1, Numbers
<1>4. CASE pc = "work" /\ todo = << >> /\ events = << >>
  <2>1. Size(dedup) + 0 * MaxRuleEvents + 0 <= MaxDedupEntries + Round * PerFrame + 0
    BY <1>4 DEF BoundInv
  <2> QED
    BY <1>2, <2>1, Numbers
<1> QED
  BY <1>3, <1>4

\* The bound invariant holds of every reachable state.
LEMMA BoundInvariant == Spec => [](TypeInv /\ BoundInv)
<1>1. Init => BoundInv
  <2> SUFFICES ASSUME Init PROVE BoundInv
    OBVIOUS
  <2>1. Size(dedup) = 0
    <3>1. Entries(dedup) = {}
      BY DEF Init, Entries
    <3> QED
      BY <3>1, FS_EmptySet DEF Size, Entries
  <2>2. 0 * PerFrame = 0
    BY Numbers
  <2> QED
    BY <2>1, <2>2, Numbers, EngineAssumption DEF Init, BoundInv
<1>2. TypeInv /\ BoundInv /\ [Next]_vars => BoundInv'
  <2> SUFFICES ASSUME TypeInv, BoundInv, [Next]_vars PROVE BoundInv'
    OBVIOUS
  <2> USE EngineAssumption DEF TypeInv, TypeOK, work, knobs, hist
  <2>0. /\ Size(dedup) \in Nat /\ Size(dedup') \in Nat
        /\ PerFrame \in Nat /\ Cardinality(RuleNames) \in Nat
        /\ phase * PerFrame \in Nat
        /\ Len(todo) * MaxRuleEvents \in Nat
    BY Numbers, Times
  <2>1. ASSUME NEW r \in RuleNames, Register(r) PROVE BoundInv'
    <3>1. \A i, j \in 1..Len(rules') : rules'[i] = rules'[j] => i = j
      BY <2>1 DEF Register, BoundInv
    <3> QED
      BY <2>1, <3>1 DEF Register, BoundInv, Round
  <2>2. CASE SelectFrame
    <3>1. Len(rules) <= Cardinality(RuleNames) /\ Len(rules) \in Nat
      BY RuleCount DEF BoundInv
    <3>2. Len(rules) * MaxRuleEvents <= PerFrame
      BY <3>1, <2>0, Times DEF PerFrame
    <3>3. Round' = phase + 1
      BY <2>2 DEF SelectFrame, Round
    <3>4. (phase + 1) * PerFrame = phase * PerFrame + PerFrame
      BY <2>0, Times
    <3>5. /\ Size(dedup) <= MaxDedupEntries + phase * PerFrame /\ events = << >>
          /\ todo' = rules /\ pc' = "work" /\ UNCHANGED <<rules, events, dedup>>
      BY <2>2 DEF SelectFrame, BoundInv
    <3>6. Len(rules) * MaxRuleEvents \in Nat
      BY <3>1
    <3>7. Size(dedup') + Len(todo') * MaxRuleEvents + Len(events')
            <= MaxDedupEntries + Round' * PerFrame + 0
      <4>1. Size(dedup') = Size(dedup) /\ Len(events') = 0
        BY <3>5
      <4> HIDE DEF TypeInv, TypeOK
      <4> QED
        BY <4>1, <3>2, <3>3, <3>4, <3>5, <3>6, <2>0
    <3> QED
      BY <3>1, <3>5, <3>7 DEF BoundInv
  <2>3. CASE ProcessRule
    <3>1. events' \in Seq(Events \cup {Nil}) /\ Len(events') <= MaxRuleEvents
      BY <2>3, UptoType DEF ProcessRule
    <3>2. Len(todo') + 1 = Len(todo) /\ Len(todo') \in Nat
      BY <2>3 DEF ProcessRule
    <3>3. Len(todo) * MaxRuleEvents = Len(todo') * MaxRuleEvents + MaxRuleEvents
      BY <3>2, Times
    <3>4. /\ pc = "work" /\ pc' = "work" /\ events = << >>
          /\ UNCHANGED <<rules, dedup, phase>> /\ Round' = Round
      BY <2>3 DEF ProcessRule, Round
    <3>5. Size(dedup) + Len(todo) * MaxRuleEvents + 0
            <= MaxDedupEntries + Round * PerFrame + 0
      BY <3>4 DEF BoundInv
    <3>6. Len(todo') * MaxRuleEvents \in Nat /\ Len(events') \in Nat
      BY <3>1, <3>2, Times
    <3>7. Round * PerFrame \in Nat
      BY <2>0, Times DEF Round
    <3>8. Size(dedup') + Len(todo') * MaxRuleEvents + Len(events')
            <= MaxDedupEntries + Round' * PerFrame + 0
      <4>1. Size(dedup') = Size(dedup) /\ Round' * PerFrame = Round * PerFrame
        BY <3>4
      <4> HIDE DEF TypeInv, TypeOK
      <4> QED
        BY SMTT(30), <4>1, <3>1, <3>3, <3>5, <3>6, <3>7, <2>0
    <3>9. Len(todo') <= Cardinality(RuleNames)
      BY <3>2, <2>0 DEF BoundInv
    <3> QED
      BY <3>1, <3>4, <3>8, <3>9 DEF BoundInv
  <2>4. CASE SelectTicker
    <3>1. Size(dedup') <= MaxDedupEntries
      BY <2>4, SweepReady, SweepSize DEF SelectTicker
    <3>2. /\ pc = "select" /\ UNCHANGED <<pc, rules, todo, events, phase>>
      BY <2>4 DEF SelectTicker
    <3>3. Size(dedup') <= MaxDedupEntries + phase' * PerFrame
      <4>1. phase' * PerFrame = phase * PerFrame
        BY <3>2
      <4> HIDE DEF TypeInv, TypeOK
      <4> QED
        BY <3>1, <4>1, <2>0
    <3> QED
      BY <3>2, <3>3 DEF BoundInv
  <2>5. CASE EndFrame
    <3>1. /\ pc' = "select" /\ UNCHANGED <<rules, todo, events, phase>>
          /\ events = << >> /\ todo = << >> /\ pc = "work"
      BY <2>5 DEF EndFrame
    <3>2. CASE phase = 0
      <4>1. Size(dedup') <= MaxDedupEntries
        BY <2>5, <3>1, <3>2, SweepReady, SweepSize DEF EndFrame
      <4>2. Size(dedup') <= MaxDedupEntries + phase' * PerFrame
        <5>1. phase' * PerFrame = phase * PerFrame
          BY <3>1
        <5> HIDE DEF TypeInv, TypeOK
        <5> QED
          BY <4>1, <5>1, <2>0
      <4> QED
        BY <3>1, <4>2 DEF BoundInv
    <3>3. CASE phase # 0
      <4>1. Size(dedup) + 0 * MaxRuleEvents + 0 <= MaxDedupEntries + phase * PerFrame + 0
        BY <3>1, <3>3 DEF BoundInv, Round
      <4>2. dedup' = dedup
        BY <2>5, <3>3 DEF EndFrame, NoSweep
      <4>3. Size(dedup') <= MaxDedupEntries + phase' * PerFrame
        BY <4>1, <4>2, <3>1, <2>0
      <4> QED
        BY <3>1, <4>3 DEF BoundInv
    <3> QED
      BY <3>2, <3>3
  <2>6. CASE EmitRecord
    <3>1. PICK k \in Keys : k = DedupKey(Head(events))
      BY <2>6 DEF EmitRecord, EmitInv, Keys
    <3>2. /\ dedup' = [dedup EXCEPT ![k] = clock] /\ pc = "decide" /\ pc' = "send"
          /\ UNCHANGED <<rules, todo, events, phase>> /\ Round' = Round
      BY <2>6, <3>1 DEF EmitRecord, Round
    <3>3. Size(dedup') <= Size(dedup) + 1
      BY <3>2, RecordSize
    <3>4. Size(dedup) + Len(todo) * MaxRuleEvents + Len(events)
            <= MaxDedupEntries + Round * PerFrame + 0
      BY <3>2 DEF BoundInv
    <3>5. Round * PerFrame \in Nat
      BY <2>0, Times DEF Round
    <3>6. Size(dedup') + Len(todo) * MaxRuleEvents + Len(events)
            <= MaxDedupEntries + Round * PerFrame + 1
      <4>1. Len(events) \in Nat /\ MaxDedupEntries \in Nat
        BY Numbers
      <4> HIDE DEF TypeInv, TypeOK
      <4> QED
        BY SMTT(30), <3>3, <3>4, <3>5, <2>0, <4>1
    <3>7. Size(dedup') + Len(todo') * MaxRuleEvents + Len(events')
            <= MaxDedupEntries + Round' * PerFrame + 1
      BY <3>2, <3>6
    <3> QED
      BY <3>2, <3>7 DEF BoundInv
  <2>7. ASSUME pc' = "work", pc \in {"work", "decide", "send"}, events # << >>,
               events' = Tail(events), UNCHANGED <<rules, todo, dedup, phase>>
        PROVE  BoundInv'
    <3>1. Len(events') + 1 = Len(events) /\ Len(events') \in Nat
      BY <2>7
    <3>2. Size(dedup) + Len(todo) * MaxRuleEvents + Len(events)
            <= MaxDedupEntries + Round * PerFrame + 1
      <4>1. Round * PerFrame \in Nat
        BY <2>0, Times DEF Round
      <4> QED
        BY SMTT(30), <2>7, <4>1, <2>0 DEF BoundInv
    <3>3. Round' = Round /\ Round * PerFrame \in Nat
      BY <2>7, <2>0, Times DEF Round
    <3>4. Size(dedup') = Size(dedup) /\ Len(todo') = Len(todo) /\ Round' * PerFrame = Round * PerFrame
      BY <2>7, <3>3
    <3> QED
      BY SMTT(30), <2>7, <3>1, <3>2, <3>3, <3>4, <2>0 DEF BoundInv
  <2>8. CASE EmitSkip
    BY <2>7, <2>8 DEF EmitSkip
  <2>9. CASE EmitSuppress
    BY <2>7, <2>9 DEF EmitSuppress, EmitInv
  <2>10. CASE EmitSend
    BY <2>7, <2>10 DEF EmitSend, EmitInv
  <2>11. ASSUME UNCHANGED <<rules, todo, events, dedup, phase>>,
                \/ pc' = pc
                \/ pc' \in {"select", "done"} /\ pc \in {"new", "select"}
                \/ pc' \in {"window", "decide"} /\ pc \in {"work", "window"}
         PROVE  BoundInv'
    BY <2>11 DEF BoundInv, Round
  <2>12. ASSUME NEW v \in BOOLEAN, SetEnabled(v) PROVE BoundInv'
    BY <2>11, <2>12 DEF SetEnabled
  <2>13. ASSUME NEW d \in Windows, SetDedupWindow(d) PROVE BoundInv'
    BY <2>11, <2>13 DEF SetDedupWindow
  <2>14. CASE Run \/ Exit \/ EmitEnabled \/ EmitWindow
    BY <2>11, <2>14 DEF Run, Exit, EmitEnabled, EmitWindow
  <2>15. CASE ReceiveAlert \/ Cancel \/ CloseFrames \/ Tick
    BY <2>11, <2>15 DEF ReceiveAlert, Cancel, CloseFrames, Tick
  <2>16. CASE UNCHANGED vars
    BY <2>11, <2>16 DEF vars, code
  <2> QED
    BY <2>1, <2>2, <2>3, <2>4, <2>5, <2>6, <2>8, <2>9, <2>10, <2>12, <2>13, <2>14,
       <2>15, <2>16 DEF Next
<1> QED
  BY <1>1, <1>2, InitType, StepType, PTL DEF Spec

\* The dedup map exceeds maxDedupEntries by at most one interval of frames, in
\* the code's numbers 15000 entries for five rules of one event each.
THEOREM BoundCorrect == Spec => []DedupBounded
<1>1. TypeInv /\ BoundInv => DedupBounded
  <2> SUFFICES ASSUME TypeInv, BoundInv PROVE DedupBounded
    OBVIOUS
  <2> USE EngineAssumption DEF TypeInv, TypeOK
  <2>1. phase \in Nat /\ phase <= SweepInterval /\ Round \in Nat /\ Round <= SweepInterval
    BY DEF Round
  <2>2. /\ phase * PerFrame <= SweepInterval * PerFrame /\ phase * PerFrame \in Nat
        /\ Round * PerFrame <= SweepInterval * PerFrame /\ Round * PerFrame \in Nat
    BY <2>1, Times, Numbers
  <2>3. CASE pc \in {"new", "select", "done"}
    <3>1. Size(dedup) <= MaxDedupEntries + phase * PerFrame
      BY <2>3 DEF BoundInv
    <3> HIDE DEF TypeInv, TypeOK
    <3> QED
      BY <3>1, <2>2, Numbers DEF DedupBounded
  <2>4. CASE pc \in {"work", "window", "decide", "send"}
    <3>1. Len(todo) * MaxRuleEvents \in Nat /\ Len(events) \in Nat
      BY Times
    <3>2. Size(dedup) + Len(todo) * MaxRuleEvents + Len(events)
            <= MaxDedupEntries + Round * PerFrame + (IF pc = "send" THEN 1 ELSE 0)
      BY <2>4 DEF BoundInv
    <3>3. pc = "send" => Len(events) >= 1
      BY DEF EmitInv
    <3> HIDE DEF TypeInv, TypeOK
    <3> QED
      BY SMTT(30), <3>1, <3>2, <3>3, <2>2, Numbers DEF DedupBounded
  <2> QED
    BY <2>3, <2>4
<1> QED
  BY <1>1, BoundInvariant, PTL

\* Every sweep, by the ticker or after the last frame of an interval, leaves at
\* most maxDedupEntries entries.
THEOREM SweepCorrect == Spec => SweepRestoresLimit
<1>1. TypeInv /\ BoundInv /\ [Next]_vars =>
        [\/ pc = "work" /\ pc' = "select" /\ phase = 0
         \/ tick /\ ~tick'
         => Size(dedup') <= MaxDedupEntries]_vars
  <2> SUFFICES ASSUME TypeInv, BoundInv, Next,
                      \/ pc = "work" /\ pc' = "select" /\ phase = 0
                      \/ tick /\ ~tick'
               PROVE  Size(dedup') <= MaxDedupEntries
    OBVIOUS
  <2>1. SelectTicker \/ (EndFrame /\ phase = 0)
    <3>1. CASE pc = "work" /\ pc' = "select" /\ phase = 0
      BY <3>1 DEF Next, Register, Run, SetEnabled, SetDedupWindow, Exit, SelectTicker,
             SelectFrame, ProcessRule, EndFrame, EmitSkip, EmitEnabled, EmitWindow,
             EmitSuppress, EmitRecord, EmitSend, ReceiveAlert, Cancel, CloseFrames,
             Tick, work
    <3>2. CASE tick /\ ~tick'
      <4>1. ASSUME tick' = tick \/ tick' = (tick \/ clock' % sweepEvery = 0)
            PROVE  FALSE
        BY <3>2, <4>1
      <4> QED
        BY <4>1, Zenon DEF Next, Register, Run, SetEnabled, SetDedupWindow, Exit, SelectTicker,
               SelectFrame, ProcessRule, EndFrame, EmitSkip, EmitEnabled, EmitWindow,
               EmitSuppress, EmitRecord, EmitSend, ReceiveAlert, Cancel, CloseFrames,
               Tick, work
    <3> QED
      BY <3>1, <3>2
  <2>2. CASE SelectTicker
    BY <2>2, SweepReady, SweepSize DEF SelectTicker, TypeInv
  <2>3. CASE EndFrame /\ phase = 0
    BY <2>3, SweepReady, SweepSize DEF EndFrame, TypeInv
  <2> QED
    BY <2>1, <2>2, <2>3
<1> QED
  BY <1>1, BoundInvariant, PTL DEF Spec, SweepRestoresLimit
================================================================================
