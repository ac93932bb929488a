----------------------------- MODULE ShutdownProofs -----------------------------
(***************************************************************************)
(* Proofs about Shutdown for every set of hooks and callers, every budget  *)
(* and every deadline.                                                     *)
(***************************************************************************)
EXTENDS Shutdown, SequenceTheorems, TLAPS

\* Moving the head of one sequence to the end of another keeps their
\* concatenation.
LEMMA MoveHead ==
  ASSUME NEW S, NEW s \in Seq(S), NEW t \in Seq(S), t # << >>
  PROVE  Append(s, Head(t)) \o Tail(t) = s \o t
OBVIOUS

\* The reverse of a sequence is a sequence of the same kind.
LEMMA ReverseType ==
  ASSUME NEW S, NEW s \in Seq(S)
  PROVE  Reverse(s) \in Seq(S)
BY DEF Reverse

\* A sequence is a prefix of any concatenation that it begins.
LEMMA PrefixOfConcat ==
  ASSUME NEW S, NEW s \in Seq(S), NEW t \in Seq(S)
  PROVE  IsPrefix(s, s \o t)
<1>1. /\ Len(s) \in Nat /\ Len(t) \in Nat
      /\ s \o t \in Seq(S)
      /\ Len(s \o t) = Len(s) + Len(t)
      /\ \A i \in 1..Len(s) : (s \o t)[i] = s[i]
  OBVIOUS
<1>2. SubSeq(s, 1, Len(s)) = SubSeq(s \o t, 1, Len(s))
  BY <1>1
<1> QED
  BY <1>1, <1>2 DEF IsPrefix

\* The time the manager gives one more hook.
LEMMA OneMoreBudget ==
  ASSUME NEW n \in Nat
  PROVE  /\ HookBudget * n \in Nat
         /\ HookBudget * (n + 1) = HookBudget * n + HookBudget
BY ShutdownAssumption

\* A hook's wait ends with its budget and no later than the deadline.
LEMMA ExpiryType ==
  ASSUME TypeOK
  PROVE  /\ Expiry \in Nat /\ Expiry <= Deadline
         /\ Expiry <= hookStart + HookBudget
BY ShutdownAssumption DEF TypeOK, Expiry, Earlier

--------------------------------------------------------------------------------
(* The inductive invariant. *)

\* The hooks started and those to come are the copy read backwards.
OrderInv ==
  /\ mgr = "idle" => order = << >> /\ copied = << >>
  /\ mgr = "next" => order \o todo = Reverse(copied)
  /\ mgr = "wait" => todo # << >> /\ order \o Tail(todo) = Reverse(copied)
  /\ mgr = "done" => order = Reverse(copied)

\* A hook that runs or has failed is in the errors, or is being waited for.
ErrorInv ==
  \A h \in Hooks :
    run[h] \in {"running", "failed"} =>
      h \in errs \/ (mgr = "wait" /\ h = Head(todo))

\* What a caller was returned are the errors of the complete run.
ResultInv ==
  \A c \in Callers : caller[c] = "returned" => mgr = "done" /\ result[c] = errs

\* Every hook started so far has used at most its budget, and the current one
\* was started within the budgets of those before it.
TimeInv ==
  /\ mgr = "wait" =>
       /\ Len(order) > 0
       /\ hookStart <= HookBudget * (Len(order) - 1)
       /\ hookStart <= clock /\ clock <= Expiry
  /\ clock <= HookBudget * Len(order)

Inv == TypeOK /\ OrderInv /\ ErrorInv /\ ResultInv /\ TimeInv

--------------------------------------------------------------------------------
\* A new manager satisfies the invariant.
LEMMA InitInv == Init => Inv
<1> SUFFICES ASSUME Init PROVE Inv
  OBVIOUS
<1> USE ShutdownAssumption DEF Init
<1>1. TypeOK
  BY DEF TypeOK
<1>2. OrderInv /\ ErrorInv /\ ResultInv
  BY DEF OrderInv, ErrorInv, ResultInv
<1>3. TimeInv
  BY OneMoreBudget DEF TimeInv
<1> QED
  BY <1>1, <1>2, <1>3 DEF Inv

\* Every step keeps the types.
LEMMA StepType == TypeOK /\ OrderInv /\ [Next]_vars => TypeOK'
<1> SUFFICES ASSUME TypeOK, OrderInv, [Next]_vars PROVE TypeOK'
  OBVIOUS
<1> USE ShutdownAssumption DEF TypeOK, work
<1>1. ASSUME NEW h \in Hooks, Register(h) PROVE TypeOK'
  BY <1>1 DEF Register
<1>2. ASSUME NEW h \in Hooks, HookReturn(h) PROVE TypeOK'
  BY <1>2 DEF HookReturn
<1>3. ASSUME NEW c \in Callers, Call(c) PROVE TypeOK'
  BY <1>3 DEF Call
<1>4. ASSUME NEW c \in Callers, Return(c) PROVE TypeOK'
  BY <1>4 DEF Return
<1>5. CASE Begin
  BY <1>5, ReverseType DEF Begin
<1>6. CASE StartHook
  BY <1>6 DEF StartHook
<1>7. CASE End
  BY <1>7 DEF End
<1>8. CASE Tick
  BY <1>8, ExpiryType DEF Tick
<1>9. CASE UNCHANGED vars
  BY <1>9 DEF vars
<1>10. ASSUME mgr = "wait", todo # << >>, NEW f \in BOOLEAN, NextHook(f)
       PROVE TypeOK'
  BY <1>10 DEF NextHook
<1>11. CASE Collect \/ GiveUp
  BY <1>10, <1>11 DEF Collect, GiveUp, OrderInv
<1> QED
  BY <1>1, <1>2, <1>3, <1>4, <1>5, <1>6, <1>7, <1>8, <1>9, <1>11
  DEF Next, Finished

\* Every step keeps the whole.
LEMMA StepInv == Inv /\ [Next]_vars => Inv'
<1> SUFFICES ASSUME Inv, [Next]_vars PROVE Inv'
  OBVIOUS
<1>1. TypeOK /\ OrderInv /\ ErrorInv /\ ResultInv /\ TimeInv
  BY DEF Inv
<1>2. TypeOK'
  BY <1>1, StepType
<1> USE <1>1
<1>3. ASSUME NEW h \in Hooks, Register(h) PROVE Inv'
  BY <1>2, <1>3
  DEF Register, work, Inv, OrderInv, ErrorInv, ResultInv, TimeInv, Expiry
<1>4. ASSUME NEW h \in Hooks, HookReturn(h) PROVE Inv'
  <2>1. ErrorInv'
    BY <1>4 DEF HookReturn, work, ErrorInv, TypeOK
  <2> QED
    BY <1>2, <1>4, <2>1 DEF HookReturn, work, Inv, OrderInv, ResultInv, TimeInv, Expiry
<1>5. ASSUME NEW c \in Callers, Call(c) PROVE Inv'
  <2>1. ResultInv'
    BY <1>5 DEF Call, work, ResultInv, TypeOK
  <2> QED
    BY <1>2, <1>5, <2>1 DEF Call, work, Inv, OrderInv, ErrorInv, TimeInv, Expiry
<1>6. ASSUME NEW c \in Callers, Return(c) PROVE Inv'
  <2>1. ResultInv'
    BY <1>6 DEF Return, work, ResultInv, TypeOK
  <2> QED
    BY <1>2, <1>6, <2>1 DEF Return, work, Inv, OrderInv, ErrorInv, TimeInv, Expiry
<1>7. CASE Begin
  <2>1. OrderInv'
    BY <1>7, ReverseType DEF Begin, OrderInv, TypeOK
  <2>2. ErrorInv' /\ ResultInv' /\ TimeInv'
    BY <1>7 DEF Begin, ErrorInv, ResultInv, TimeInv
  <2> QED
    BY <1>2, <2>1, <2>2 DEF Inv
<1>8. CASE StartHook
  <2>1. OrderInv'
    BY <1>8, MoveHead DEF StartHook, OrderInv, TypeOK
  <2>2. ErrorInv' /\ ResultInv'
    BY <1>8 DEF StartHook, ErrorInv, ResultInv, TypeOK
  <2>3. /\ Len(order') = Len(order) + 1 /\ Len(order) \in Nat
        /\ clock' = clock /\ hookStart' = clock
    BY <1>8 DEF StartHook, TypeOK
  <2>4. clock <= HookBudget * Len(order) /\ clock \in Nat /\ clock <= Deadline
    BY DEF TimeInv, TypeOK
  <2>5. TimeInv'
    BY <2>3, <2>4, OneMoreBudget, ShutdownAssumption DEF TimeInv, Expiry, Earlier
  <2> QED
    BY <1>2, <2>1, <2>2, <2>5 DEF Inv
<1>9. ASSUME mgr = "wait", NEW f \in BOOLEAN, NextHook(f),
             run[Head(todo)] \in {"running", "failed"} => f
      PROVE Inv'
  <2>1. OrderInv'
    BY <1>9 DEF NextHook, OrderInv, TypeOK
  <2>2. ErrorInv'
    BY <1>9 DEF NextHook, ErrorInv, OrderInv
  <2>3. ResultInv' /\ TimeInv'
    BY <1>9 DEF NextHook, ResultInv, TimeInv
  <2> QED
    BY <1>2, <2>1, <2>2, <2>3 DEF Inv
<1>10. CASE Collect
  BY <1>9, <1>10 DEF Collect
<1>11. CASE GiveUp
  BY <1>9, <1>11 DEF GiveUp
<1>12. CASE End
  <2>1. OrderInv'
    BY <1>12 DEF End, OrderInv, TypeOK
  <2> QED
    BY <1>2, <1>12, <2>1 DEF End, Inv, ErrorInv, ResultInv, TimeInv
<1>13. CASE Tick
  <2>1. /\ Len(order) > 0 /\ hookStart <= HookBudget * (Len(order) - 1)
        /\ Len(order) \in Nat /\ hookStart \in Nat /\ clock \in Nat
        /\ hookStart <= clock /\ clock < Expiry
    BY <1>13 DEF Tick, TimeInv, TypeOK
  <2>2. HookBudget * Len(order) = HookBudget * (Len(order) - 1) + HookBudget
        /\ HookBudget * (Len(order) - 1) \in Nat
    BY <2>1, OneMoreBudget
  <2>3. TimeInv'
    BY <1>13, <2>1, <2>2, ExpiryType, ShutdownAssumption
    DEF Tick, work, TimeInv, Expiry
  <2> QED
    BY <1>2, <1>13, <2>3 DEF Tick, work, Inv, OrderInv, ErrorInv, ResultInv
<1>14. CASE UNCHANGED vars
  BY <1>2, <1>14 DEF vars, work, Inv, OrderInv, ErrorInv, ResultInv, TimeInv, Expiry
<1> QED
  BY <1>3, <1>4, <1>5, <1>6, <1>7, <1>8, <1>10, <1>11, <1>12, <1>13, <1>14
  DEF Next, Finished

\* The invariant holds in every state a shutdown can reach.
THEOREM Invariance == Spec => []Inv
BY InitInv, StepInv, PTL DEF Spec

--------------------------------------------------------------------------------
(* What follows from it. *)

\* The shutdown's state stays well typed.
THEOREM TypeCorrect == Spec => []TypeOK
<1>1. Inv => TypeOK
  BY DEF Inv
<1> QED
  BY <1>1, Invariance, PTL

\* Every hook has its turn, last registered first, whatever the others did.
THEOREM OrderCorrect == Spec => []EveryHookInTurn
<1>1. Inv => EveryHookInTurn
  <2> SUFFICES ASSUME Inv PROVE EveryHookInTurn
    OBVIOUS
  <2>1. TypeOK /\ OrderInv
    BY DEF Inv
  <2>2. order \in Seq(Hooks) /\ todo \in Seq(Hooks) /\ Reverse(copied) \in Seq(Hooks)
    BY <2>1, ReverseType DEF TypeOK
  <2>3. CASE mgr = "idle"
    <3>1. order = << >> /\ << >> \o Reverse(copied) = Reverse(copied)
      BY <2>1, <2>2, <2>3 DEF OrderInv
    <3> QED
      BY <2>2, <2>3, <3>1, PrefixOfConcat DEF EveryHookInTurn
  <2>4. CASE mgr = "next"
    BY <2>1, <2>2, <2>4, PrefixOfConcat DEF EveryHookInTurn, OrderInv
  <2>5. CASE mgr = "wait"
    <3>1. Tail(todo) \in Seq(Hooks) /\ order \o Tail(todo) = Reverse(copied)
      BY <2>1, <2>2, <2>5 DEF OrderInv
    <3> QED
      BY <2>2, <2>5, <3>1, PrefixOfConcat DEF EveryHookInTurn
  <2>6. CASE mgr = "done"
    <3>1. order = Reverse(copied) /\ order \o << >> = order /\ << >> \in Seq(Hooks)
      BY <2>1, <2>2, <2>6 DEF OrderInv
    <3> QED
      BY <2>2, <3>1, PrefixOfConcat DEF EveryHookInTurn
  <2> QED
    BY <2>1, <2>3, <2>4, <2>5, <2>6 DEF TypeOK
<1> QED
  BY <1>1, Invariance, PTL

\* No failed or unfinished hook is missing from the errors that any caller is
\* returned.
THEOREM ErrorsCorrect == Spec => []ErrorsComplete
<1>1. Inv => ErrorsComplete
  BY DEF Inv, ErrorInv, ResultInv, ErrorsComplete
<1> QED
  BY <1>1, Invariance, PTL

\* The hooks' budgets and the deadline bound the time of the whole.
THEOREM TimeCorrect == Spec => []ShutdownBounded
<1>1. Inv => ShutdownBounded
  BY DEF Inv, TimeInv, TypeOK, ShutdownBounded, Earlier
<1> QED
  BY <1>1, Invariance, PTL
================================================================================
