------------------------------ MODULE DaemonProofs ------------------------------
(* Proofs about Daemon, for every list of channels and all time limits. *)
EXTENDS Daemon, SequencesExt, TLAPS

--------------------------------------------------------------------------------
(* What main and the hooks do is a use of the shutdown manager: each step is a *)
(* step of Shutdown, or leaves all of its variables alone.                     *)

USE DEF Sm!vars, Sm!work, manager, vars

\* Steps that have no part in the manager.
LEMMA Outside ==
  ASSUME Signal \/ PipelineStart \/ StartFailed \/ StartConsumers \/ APIFailed
           \/ PipelineStop \/ ConsumersEnd \/ Goroutines
  PROVE  UNCHANGED Sm!vars
<1>1. CASE Signal          BY <1>1 DEF Signal
<1>2. CASE PipelineStart   BY <1>2 DEF PipelineStart
<1>3. CASE StartFailed     BY <1>3 DEF StartFailed
<1>4. CASE StartConsumers  BY <1>4 DEF StartConsumers
<1>5. CASE APIFailed       BY <1>5 DEF APIFailed
<1>6. CASE PipelineStop    BY <1>6 DEF PipelineStop
<1>7. CASE ConsumersEnd    BY <1>7 DEF ConsumersEnd
<1>8. CASE Goroutines      BY <1>8 DEF Goroutines
<1>. QED BY <1>1, <1>2, <1>3, <1>4, <1>5, <1>6, <1>7, <1>8

\* Steps of main that call the manager.
LEMMA Calls ==
  ASSUME RegisterCapture \/ RegisterStorage \/ RegisterAPI \/ RegisterConsumers
           \/ CallShutdown \/ Exit
  PROVE  [Sm!Next]_Sm!vars
<1>1. \A h \in HookNames : Sm!Register(h) => Sm!Next  BY DEF Sm!Next
<1>2. CASE RegisterCapture    BY <1>1, <1>2 DEF RegisterCapture, HookNames
<1>3. CASE RegisterStorage    BY <1>1, <1>3 DEF RegisterStorage, HookNames
<1>4. CASE RegisterAPI
  <2>1. CASE Sm!Register("api_stop")  BY <1>1, <2>1 DEF HookNames
  <2>2. CASE UNCHANGED manager        BY <1>4, <2>2 DEF RegisterAPI
  <2>. QED BY <1>4, <2>1, <2>2 DEF RegisterAPI
<1>5. CASE RegisterConsumers  BY <1>1, <1>5 DEF RegisterConsumers, HookNames
<1>6. CASE CallShutdown       BY <1>6 DEF CallShutdown, Sm!Next
<1>7. CASE Exit               BY <1>7 DEF Exit, Sm!Next
<1>. QED BY <1>2, <1>3, <1>4, <1>5, <1>6, <1>7

\* Hooks that return, which each do as one of the manager's hooks.
LEMMA HooksReturn ==
  ASSUME CaptureStopped \/ StorageClosed \/ APIStopped \/ ConsumersStopped \/ ConsumersLate
  PROVE  Sm!Next
<1>1. ASSUME NEW h \in HookNames, NEW r, Returns(h, r)
      PROVE  Sm!Next
  BY <1>1 DEF Returns, Sm!Next
<1>2. CASE CaptureStopped    BY <1>1, <1>2 DEF CaptureStopped, HookNames
<1>3. CASE StorageClosed     BY <1>1, <1>3 DEF StorageClosed, HookNames
<1>4. CASE APIStopped        BY <1>1, <1>4 DEF APIStopped, HookNames
<1>5. CASE ConsumersStopped  BY <1>1, <1>5 DEF ConsumersStopped, HookNames
<1>6. CASE ConsumersLate     BY <1>1, <1>6 DEF ConsumersLate, HookNames
<1>. QED BY <1>2, <1>3, <1>4, <1>5, <1>6

LEMMA StepSimulation == ASSUME Next PROVE [Sm!Next]_Sm!vars
<1>1. CASE Signal       BY <1>1, Outside
<1>2. CASE Main         BY <1>2, Outside, Calls DEF Main
<1>3. CASE StartHook    BY <1>3 DEF StartHook, Sm!Next
<1>4. CASE ManagerStep  BY <1>4 DEF ManagerStep, Sm!Next
<1>5. CASE HookStep     BY <1>5, Outside, HooksReturn DEF HookStep
<1>6. CASE ConsumersEnd \/ Goroutines  BY <1>6, Outside
<1>7. CASE Tick         BY <1>7 DEF Tick, Sm!Next
<1>8. CASE Finished     BY <1>8 DEF Finished
<1>. QED BY <1>1, <1>2, <1>3, <1>4, <1>5, <1>6, <1>7, <1>8 DEF Next

\* The daemon uses the shutdown manager as Shutdown describes it: hooks registered
\* once each, one call, hooks that return once.  What Shutdown's theorems say of
\* any hooks and callers they say of these.
THEOREM ImplementsShutdown == Spec => Sm!Spec
<1>1. Init => Sm!Init  BY DEF Init
<1>2. [Next]_vars => [Sm!Next]_Sm!vars  BY StepSimulation
<1>. QED BY <1>1, <1>2, PTL DEF Spec, Sm!Spec

--------------------------------------------------------------------------------
(* The inductive invariant. *)

\* The hopper, when there is one, has ended before Stop goes on.
QuietInv ==
  /\ ~hopping => hop = "off"
  /\ stopPc \in {"setType", "linkUp", "ok", "failed"} => ~hopping \/ hop = "done"

ManagerTypes ==
  /\ hooks \in Seq(HookNames) /\ todo \in Seq(HookNames)
  /\ mgr \in {"idle", "next", "wait", "done"}
  /\ mgr = "wait" => todo # << >>
  /\ run \in [HookNames -> {"new", "running", "ok", "failed"}]
  /\ errs \subseteq HookNames
  /\ caller \in [{"main"} -> {"out", "in", "returned"}]
  /\ result \in [{"main"} -> SUBSET HookNames]

\* The manager does nothing before main calls it.
PhaseInv ==
  /\ caller["main"] = "out" => mgr = "idle"
  /\ caller["main"] = "in" => mainPc = "shutdown"
  /\ caller["main"] = "returned" => mainPc = "end" /\ mgr = "done"
  /\ mgr = "idle" => \A h \in HookNames : run[h] = "new"
  /\ mgr = "done" => todo = << >>

\* The hooks are registered in the order in which main starts what they stop.
RegisteredInv ==
  /\ mainPc \notin {"start", "end"} => Contains(hooks, "capture_stop")
  /\ mainPc \notin {"start", "storage", "end"} /\ storage = "open" =>
       Contains(hooks, "storage_close")
  /\ mainPc \in {"start", "storage", "consumers", "api", "hooks"} =>
       ~Contains(hooks, "consumer_stop")
  /\ mainPc \in {"wait", "shutdown"} =>
       /\ hooks # << >> /\ hooks[Len(hooks)] = "consumer_stop"
       /\ \A i \in 1..(Len(hooks) - 1) : hooks[i] # "consumer_stop"

\* A hook is still to come, or has an error, or did well; and consumer_stop comes
\* before storage_close.
TurnInv ==
  mgr # "idle" =>
    /\ \A h \in HookNames :
         Contains(hooks, h) => Contains(todo, h) \/ h \in errs \/ run[h] = "ok"
    /\ \/ /\ todo # << >> /\ Head(todo) = "consumer_stop"
          /\ ~Contains(Tail(todo), "consumer_stop")
          /\ run["storage_close"] = "new"
       \/ /\ ~Contains(todo, "consumer_stop")
          /\ "consumer_stop" \in errs \/ run["consumer_stop"] = "ok"

\* What it means that a hook did well.
EffectInv ==
  /\ run["consumer_stop"] = "ok" => ~consuming
  /\ storage = "closed" => run["storage_close"] # "new"
  /\ run["storage_close"] = "ok" => storage = "closed"
  /\ run["capture_stop"] = "ok" => stopPc = "ok"
  /\ stopPc # "idle" => startPc = "started"
  /\ stopPc \in {"linkUp", "ok"} => mode = "managed"

EndInv ==
  exit = "0" =>
    /\ mainPc = "end" /\ mgr = "done"
    /\ mode = "managed" /\ ~consuming /\ storage # "open"

Inv ==
  /\ QuietInv /\ ManagerTypes /\ PhaseInv /\ RegisteredInv
  /\ TurnInv /\ EffectInv /\ EndInv

--------------------------------------------------------------------------------
(* Sequences of hooks. *)

LEMMA ContainsAppend ==
  ASSUME NEW S, NEW s \in Seq(S), NEW e \in S, NEW x
  PROVE  /\ Append(s, e) \in Seq(S)
         /\ Contains(Append(s, e), x) <=> Contains(s, x) \/ x = e
<1>1. Len(Append(s, e)) = Len(s) + 1 /\ Len(s) \in Nat  OBVIOUS
<1>2. \A i \in 1..Len(s) : Append(s, e)[i] = s[i]  OBVIOUS
<1>3. Append(s, e)[Len(s) + 1] = e  OBVIOUS
<1>. QED BY <1>1, <1>2, <1>3 DEF Contains

LEMMA ContainsTail ==
  ASSUME NEW S, NEW s \in Seq(S), s # << >>, NEW x
  PROVE  /\ Tail(s) \in Seq(S) /\ Head(s) \in S
         /\ Contains(s, x) <=> Contains(Tail(s), x) \/ x = Head(s)
<1>1. Len(s) \in Nat \ {0} /\ Len(Tail(s)) = Len(s) - 1  OBVIOUS
<1>2. \A i \in 1..(Len(s) - 1) : Tail(s)[i] = s[i + 1]  OBVIOUS
<1>3. Head(s) = s[1]  OBVIOUS
<1>4. ASSUME Contains(s, x), x # Head(s)
      PROVE  Contains(Tail(s), x)
  <2>1. PICK i \in 1..Len(s) : s[i] = x  BY <1>4 DEF Contains
  <2>2. i - 1 \in 1..(Len(s) - 1) /\ (i - 1) + 1 = i  BY <1>1, <1>3, <1>4, <2>1
  <2>3. Tail(s)[i - 1] = x  BY <1>2, <2>1, <2>2
  <2>. QED BY <1>1, <2>2, <2>3 DEF Contains
<1>5. ASSUME Contains(Tail(s), x)
      PROVE  Contains(s, x)
  <2>1. PICK i \in 1..(Len(s) - 1) : Tail(s)[i] = x  BY <1>1, <1>5 DEF Contains
  <2>2. i + 1 \in 1..Len(s) /\ s[i + 1] = x  BY <1>1, <1>2, <2>1
  <2>. QED BY <2>2 DEF Contains
<1>6. x = Head(s) => Contains(s, x)  BY <1>1, <1>3 DEF Contains
<1>. QED BY <1>4, <1>5, <1>6

LEMMA ReverseHooks ==
  ASSUME NEW S, NEW s \in Seq(S)
  PROVE  /\ Reverse(s) \in Seq(S) /\ Len(Reverse(s)) = Len(s)
         /\ \A i \in 1..Len(s) : Reverse(s)[i] = s[Len(s) - i + 1]
BY DEF Reverse

LEMMA ContainsReverse ==
  ASSUME NEW S, NEW s \in Seq(S), NEW x, Contains(s, x)
  PROVE  Contains(Reverse(s), x)
<1>1. PICK i \in 1..Len(s) : s[i] = x  BY DEF Contains
<1>2. Len(s) - i + 1 \in 1..Len(s) /\ Len(s) - (Len(s) - i + 1) + 1 = i  BY <1>1
<1>3. Reverse(s)[Len(s) - i + 1] = x  BY <1>1, <1>2, ReverseHooks
<1>. QED BY <1>2, <1>3, ReverseHooks DEF Contains

\* What was registered last comes first.
LEMMA LastIsFirst ==
  ASSUME NEW S, NEW s \in Seq(S), NEW x, s # << >>, s[Len(s)] = x,
         \A i \in 1..(Len(s) - 1) : s[i] # x
  PROVE  /\ Reverse(s) # << >> /\ Head(Reverse(s)) = x
         /\ ~Contains(Tail(Reverse(s)), x)
<1>. DEFINE r == Reverse(s)
<1>1. r \in Seq(S) /\ Len(r) = Len(s) /\ Len(s) \in Nat \ {0}  BY ReverseHooks
<1>2. r # << >> /\ Head(r) = r[1]  BY <1>1
<1>3. r[1] = x  BY <1>1, ReverseHooks
<1>4. ASSUME NEW i \in 1..(Len(s) - 1)
      PROVE  Tail(r)[i] # x
  <2>1. Tail(r)[i] = r[i + 1]  BY <1>1
  <2>2. r[i + 1] = s[Len(s) - (i + 1) + 1]  BY <1>1, ReverseHooks
  <2>3. Len(s) - (i + 1) + 1 \in 1..(Len(s) - 1)  BY <1>1
  <2>. QED BY <2>1, <2>2, <2>3
<1>5. Len(Tail(r)) = Len(s) - 1  BY <1>1
<1>. QED BY <1>2, <1>3, <1>4, <1>5 DEF Contains

--------------------------------------------------------------------------------
(* The hopper and Stop. *)

LEMMA QuietStep == ASSUME QuietInv, Next PROVE QuietInv'
<1>. USE DEF QuietInv, hopper, interface, pipeline
<1>1. CASE Signal         BY <1>1 DEF Signal
<1>2. CASE Main
  <2>1. CASE PipelineStart
    <3>1. CASE StartBegin  BY <3>1 DEF StartBegin
    <3>2. CASE EnableType  BY <3>2 DEF EnableType
    <3>3. CASE EnableLink  BY <3>3 DEF EnableLink
    <3>4. CASE Open        BY <3>4 DEF Open, HopperRun
    <3>5. CASE OpenFailed  BY <3>5 DEF OpenFailed
    <3>6. CASE Revert      BY <3>6 DEF Revert
    <3>. QED BY <2>1, <3>1, <3>2, <3>3, <3>4, <3>5, <3>6 DEF PipelineStart, Start
  <2>2. CASE ~PipelineStart
    <3>1. UNCHANGED pipeline
      BY <1>2, <2>2 DEF Main, StartFailed, RegisterCapture, RegisterStorage, StartConsumers,
         APIFailed, RegisterAPI, RegisterConsumers, CallShutdown, Exit
    <3>. QED BY <3>1
  <2>. QED BY <2>1, <2>2
<1>3. CASE StartHook      BY <1>3 DEF StartHook, StopCall
<1>4. CASE ManagerStep    BY <1>4 DEF ManagerStep
<1>5. CASE HookStep
  <2>1. CASE PipelineStop
    <3>1. CASE StopWait     BY <3>1 DEF StopWait
    <3>2. CASE DisableType  BY <3>2 DEF DisableType
    <3>3. CASE DisableLink  BY <3>3 DEF DisableLink
    <3>. QED BY <2>1, <3>1, <3>2, <3>3 DEF PipelineStop, Stop
  <2>2. CASE ~PipelineStop
    <3>1. UNCHANGED pipeline
      BY <1>5, <2>2 DEF HookStep, CaptureStopped, StorageClosed, APIStopped,
         ConsumersStopped, ConsumersLate
    <3>. QED BY <3>1
  <2>. QED BY <2>1, <2>2
<1>6. CASE ConsumersEnd   BY <1>6 DEF ConsumersEnd
<1>7. CASE Goroutines
  <2>1. CASE CaptureEnds  BY <2>1 DEF CaptureEnds
  <2>2. CASE Hop
    BY <2>2 DEF Hop, HopBegin, HopFailed, HopSucceeded, HopTimer, HopExit
  <2>. QED BY <1>7, <2>1, <2>2 DEF Goroutines
<1>8. CASE Tick           BY <1>8 DEF Tick
<1>9. CASE Finished       BY <1>9 DEF Finished
<1>. QED BY <1>1, <1>2, <1>3, <1>4, <1>5, <1>6, <1>7, <1>8, <1>9 DEF Next

\* Monitor mode is disabled only when no channel switch is under way any more.
THEOREM QuietCorrect == Spec => []HopperQuiet
<1>1. Init => QuietInv
  BY DEF Init, PipelineInit, HopperInit, QuietInv
<1>2. QuietInv /\ [Next]_vars => QuietInv'
  <2>1. CASE Next            BY <2>1, QuietStep
  <2>2. CASE UNCHANGED vars  BY <2>2 DEF QuietInv, pipeline, hopper, interface
  <2>. QED BY <2>1, <2>2
<1>3. QuietInv => HopperQuiet  BY DEF QuietInv, HopperQuiet
<1>. QED BY <1>1, <1>2, <1>3, PTL DEF Spec

--------------------------------------------------------------------------------
(* The manager. *)

LEMMA ManagerTypesStep ==
  ASSUME ManagerTypes, [Sm!Next]_Sm!vars
  PROVE  ManagerTypes'
<1>. USE DEF ManagerTypes
<1>1. CASE UNCHANGED Sm!vars  BY <1>1
<1>2. ASSUME NEW h \in HookNames, Sm!Register(h)
      PROVE  ManagerTypes'
  BY <1>2, ContainsAppend DEF Sm!Register
<1>3. ASSUME NEW h \in HookNames, Sm!HookReturn(h)
      PROVE  ManagerTypes'
  BY <1>3 DEF Sm!HookReturn
<1>4. ASSUME NEW c \in {"main"}, Sm!Call(c) \/ Sm!Return(c)
      PROVE  ManagerTypes'
  BY <1>4 DEF Sm!Call, Sm!Return
<1>5. CASE Sm!Begin
  <2>1. Reverse(hooks) \in Seq(HookNames)  BY ReverseHooks
  <2>2. todo' \in Seq(HookNames)  BY <1>5, <2>1 DEF Sm!Begin, Sm!Reverse, Reverse
  <2>. QED BY <1>5, <2>2 DEF Sm!Begin
<1>6. CASE Sm!StartHook  BY <1>6 DEF Sm!StartHook
<1>7. ASSUME NEW f \in BOOLEAN, mgr = "wait", Sm!NextHook(f)
      PROVE  ManagerTypes'
  <2>1. todo' \in Seq(HookNames) /\ Head(todo) \in HookNames
    BY <1>7, ContainsTail DEF Sm!NextHook
  <2>2. errs' \subseteq HookNames
    BY <1>7, <2>1 DEF Sm!NextHook
  <2>. QED BY <1>7, <2>1, <2>2 DEF Sm!NextHook
<1>8. CASE Sm!Collect  BY <1>7, <1>8 DEF Sm!Collect
<1>9. CASE Sm!GiveUp   BY <1>7, <1>9 DEF Sm!GiveUp
<1>10. CASE Sm!End     BY <1>10 DEF Sm!End
<1>11. CASE Sm!Tick    BY <1>11 DEF Sm!Tick
<1>12. CASE Sm!Finished  BY <1>12 DEF Sm!Finished
<1>. QED BY <1>1, <1>2, <1>3, <1>4, <1>5, <1>6, <1>8, <1>9, <1>10, <1>11, <1>12 DEF Sm!Next

\* A hook's goroutine returns.
LEMMA ReturnOf ==
  ASSUME ManagerTypes, NEW h \in HookNames, NEW r, Returns(h, r)
  PROVE  /\ run[h] = "running" /\ r \in {"ok", "failed"}
         /\ run' = [run EXCEPT ![h] = r]
         /\ UNCHANGED <<hooks, todo, mgr, errs, caller, result>>
BY DEF ManagerTypes, Returns, Sm!HookReturn

\* A hook returns what its goroutine does for it.
LEMMA HookResults ==
  ASSUME ManagerTypes, HookStep, ~PipelineStop
  PROVE  \E h \in HookNames, r \in {"ok", "failed"} :
           /\ run[h] = "running" /\ run' = [run EXCEPT ![h] = r]
           /\ UNCHANGED <<hooks, todo, mgr, errs, caller, result, mainPc, exit, pipeline, consuming>>
           /\ h = "consumer_stop" /\ r = "ok" => ~consuming
           /\ h = "capture_stop" => r = stopPc
           /\ IF h = "storage_close" THEN storage' = "closed" ELSE UNCHANGED storage
<1>1. CASE CaptureStopped
  BY <1>1, ReturnOf DEF CaptureStopped, HookNames, parts
<1>2. CASE StorageClosed
  <2>1. PICK r \in {"ok", "failed"} : Returns("storage_close", r)  BY <1>2 DEF StorageClosed
  <2>. QED BY <1>2, <2>1, ReturnOf DEF StorageClosed, HookNames
<1>3. CASE APIStopped
  <2>1. PICK r \in {"ok", "failed"} : Returns("api_stop", r)  BY <1>3 DEF APIStopped
  <2>. QED BY <1>3, <2>1, ReturnOf DEF APIStopped, HookNames, parts
<1>4. CASE ConsumersStopped
  BY <1>4, ReturnOf DEF ConsumersStopped, HookNames, parts
<1>5. CASE ConsumersLate
  BY <1>5, ReturnOf DEF ConsumersLate, HookNames, parts
<1>. QED BY <1>1, <1>2, <1>3, <1>4, <1>5 DEF HookStep

\* Nothing is registered any more once main has called Shutdown.
LEMMA PhaseStep ==
  ASSUME ManagerTypes, ManagerTypes', PhaseInv, Next
  PROVE  PhaseInv'
<1>. USE DEF PhaseInv
<1>0. caller["main"] \in {"out", "in", "returned"}  BY DEF ManagerTypes
<1>1. CASE Signal          BY <1>1 DEF Signal
<1>2. CASE PipelineStart   BY <1>2 DEF PipelineStart
<1>3. CASE StartFailed     BY <1>0, <1>3 DEF StartFailed
<1>4. CASE RegisterCapture BY <1>0, <1>4 DEF RegisterCapture, Sm!Register
<1>5. CASE RegisterStorage
  BY <1>0, <1>5 DEF RegisterStorage, Sm!Register
<1>6. CASE StartConsumers  BY <1>0, <1>6 DEF StartConsumers
<1>7. CASE APIFailed       BY <1>0, <1>7 DEF APIFailed
<1>8. CASE RegisterAPI
  BY <1>0, <1>8 DEF RegisterAPI, Sm!Register
<1>9. CASE RegisterConsumers  BY <1>0, <1>9 DEF RegisterConsumers, Sm!Register
<1>10. CASE CallShutdown
  BY <1>0, <1>10 DEF CallShutdown, Sm!Call, ManagerTypes
<1>11. CASE Exit
  BY <1>0, <1>11 DEF Exit, Sm!Return, ManagerTypes
<1>12. CASE StartHook
  BY <1>0, <1>12 DEF StartHook, Sm!StartHook, ManagerTypes
<1>13. CASE ManagerStep
  <2>1. mgr # "done" /\ mgr' # "idle" /\ UNCHANGED <<caller, mainPc>>
    BY <1>13 DEF ManagerStep, Sm!Begin, Sm!Collect, Sm!GiveUp, Sm!NextHook, Sm!End
  <2>2. caller["main"] # "out"
    BY <1>0, <1>13 DEF ManagerStep, Sm!Begin, Sm!Collect, Sm!GiveUp, Sm!NextHook, Sm!End
  <2>3. mgr' = "done" => todo' = << >>
    BY <1>13 DEF ManagerStep, Sm!Begin, Sm!Collect, Sm!GiveUp, Sm!NextHook, Sm!End
  <2>. QED BY <1>0, <2>1, <2>2, <2>3
<1>14. CASE HookStep
  <2>1. CASE PipelineStop   BY <2>1 DEF PipelineStop
  <2>2. CASE ~PipelineStop
    BY <1>14, <2>2, HookResults DEF ManagerTypes
  <2>. QED BY <2>1, <2>2
<1>15. CASE ConsumersEnd    BY <1>15 DEF ConsumersEnd
<1>16. CASE Goroutines      BY <1>16 DEF Goroutines
<1>17. CASE Tick            BY <1>17 DEF Tick, Sm!Tick
<1>18. CASE Finished        BY <1>18 DEF Finished
<1>. QED
  BY <1>1, <1>2, <1>3, <1>4, <1>5, <1>6, <1>7, <1>8, <1>9, <1>10, <1>11, <1>12, <1>13,
     <1>14, <1>15, <1>16, <1>17, <1>18 DEF Next, Main

--------------------------------------------------------------------------------
(* The order of registration. *)

LEMMA Registers ==
  ASSUME ManagerTypes, NEW h \in HookNames, Sm!Register(h)
  PROVE  /\ hooks' = Append(hooks, h)
         /\ \A g \in HookNames : Contains(hooks', g) <=> Contains(hooks, g) \/ g = h
<1>1. hooks \in Seq(HookNames) /\ hooks' = Append(hooks, h)
  BY DEF ManagerTypes, Sm!Register
<1>. QED BY <1>1, ContainsAppend

\* Everything that is running has its hook, consumer_stop the last one.
LEMMA RegisteredStep ==
  ASSUME ManagerTypes, ManagerTypes', PhaseInv, RegisteredInv, Next
  PROVE  RegisteredInv'
<1>. USE DEF RegisteredInv
<1>0. "capture_stop" \in HookNames /\ "storage_close" \in HookNames
        /\ "api_stop" \in HookNames /\ "consumer_stop" \in HookNames
  BY DEF HookNames
<1>a. UNCHANGED <<hooks, mainPc, storage>> => RegisteredInv'
  OBVIOUS
<1>1. CASE Signal          BY <1>1, <1>a DEF Signal, parts
<1>2. CASE PipelineStart   BY <1>2, <1>a DEF PipelineStart, parts
<1>3. CASE StartFailed     BY <1>3 DEF StartFailed
<1>4. CASE RegisterCapture BY <1>0, <1>4, Registers DEF RegisterCapture
<1>5. CASE RegisterStorage
  <2>1. CASE storage = "open"  BY <1>0, <1>5, <2>1, Registers DEF RegisterStorage, parts
  <2>2. CASE storage # "open"  BY <1>5, <2>2 DEF RegisterStorage, parts
  <2>. QED BY <2>1, <2>2
<1>6. CASE StartConsumers  BY <1>6 DEF StartConsumers
<1>7. CASE APIFailed       BY <1>7 DEF APIFailed
<1>8. CASE RegisterAPI
  <2>1. CASE Sm!Register("api_stop")  BY <1>0, <1>8, <2>1, Registers DEF RegisterAPI
  <2>2. CASE UNCHANGED manager        BY <1>8, <2>2 DEF RegisterAPI
  <2>. QED BY <1>8, <2>1, <2>2 DEF RegisterAPI
<1>9. CASE RegisterConsumers
  <2>1. mainPc = "hooks" /\ mainPc' = "wait" /\ UNCHANGED storage
    BY <1>9 DEF RegisterConsumers, parts
  <2>2. /\ hooks' = Append(hooks, "consumer_stop")
        /\ \A g \in HookNames : Contains(hooks', g) <=> Contains(hooks, g) \/ g = "consumer_stop"
    BY <1>0, <1>9, Registers DEF RegisterConsumers
  <2>3. hooks \in Seq(HookNames) /\ Len(hooks) \in Nat  BY DEF ManagerTypes
  <2>4. Len(hooks') = Len(hooks) + 1 /\ hooks'[Len(hooks')] = "consumer_stop"
    BY <1>0, <2>2, <2>3
  <2>5. ASSUME NEW i \in 1..(Len(hooks') - 1)
        PROVE  hooks'[i] # "consumer_stop"
    <3>1. i \in 1..Len(hooks)  BY <2>3, <2>4
    <3>2. hooks'[i] = hooks[i]  BY <1>0, <2>2, <2>3, <3>1
    <3>3. ~Contains(hooks, "consumer_stop")  BY <2>1
    <3>. QED BY <3>1, <3>2, <3>3 DEF Contains
  <2>6. hooks' # << >>  BY <1>0, <2>2, <2>3
  <2>. QED BY <1>0, <2>1, <2>2, <2>4, <2>5, <2>6
<1>10. CASE CallShutdown
  BY <1>10 DEF CallShutdown, Sm!Call, parts
<1>11. CASE Exit           BY <1>11 DEF Exit, Sm!Return, parts
<1>12. CASE StartHook      BY <1>12, <1>a DEF StartHook, Sm!StartHook
<1>13. CASE ManagerStep
  <2>1. UNCHANGED hooks
    BY <1>13 DEF ManagerStep, Sm!Begin, Sm!Collect, Sm!GiveUp, Sm!NextHook, Sm!End
  <2>. QED BY <1>13, <1>a, <2>1 DEF ManagerStep, parts
<1>14. CASE HookStep
  <2>1. CASE PipelineStop   BY <1>a, <2>1 DEF PipelineStop, parts
  <2>2. CASE ~PipelineStop
    <3>1. UNCHANGED <<hooks, mainPc>>  BY <1>14, <2>2, HookResults
    <3>2. storage' = "closed" \/ UNCHANGED storage  BY <1>14, <2>2, HookResults
    <3>. QED BY <3>1, <3>2
  <2>. QED BY <2>1, <2>2
<1>15. CASE ConsumersEnd    BY <1>15, <1>a DEF ConsumersEnd
<1>16. CASE Goroutines      BY <1>16, <1>a DEF Goroutines, parts
<1>17. CASE Tick            BY <1>17, <1>a DEF Tick, Sm!Tick, parts
<1>18. CASE Finished        BY <1>18, <1>a DEF Finished, parts
<1>. QED
  BY <1>1, <1>2, <1>3, <1>4, <1>5, <1>6, <1>7, <1>8, <1>9, <1>10, <1>11, <1>12, <1>13,
     <1>14, <1>15, <1>16, <1>17, <1>18 DEF Next, Main

--------------------------------------------------------------------------------
(* The order of the hooks. *)

\* The wait for a hook ends: the hook has done well or leaves an error.
LEMMA HookOver ==
  ASSUME ManagerTypes, Sm!Collect \/ Sm!GiveUp
  PROVE  /\ mgr = "wait" /\ mgr' = "next"
         /\ todo # << >> /\ todo' = Tail(todo) /\ Head(todo) \in HookNames
         /\ errs \subseteq errs' /\ UNCHANGED <<hooks, run, caller>>
         /\ run[Head(todo)] = "ok" \/ Head(todo) \in errs'
<1>1. mgr = "wait" /\ todo # << >> /\ Head(todo) \in HookNames
  BY ContainsTail DEF ManagerTypes, Sm!Collect, Sm!GiveUp
<1>2. CASE Sm!Collect
  <2>1. CASE run[Head(todo)] = "failed"
    BY <1>1, <1>2, <2>1 DEF Sm!Collect, Sm!NextHook
  <2>2. CASE run[Head(todo)] # "failed"
    BY <1>1, <1>2, <2>2 DEF Sm!Collect, Sm!NextHook
  <2>. QED BY <2>1, <2>2
<1>3. CASE Sm!GiveUp  BY <1>1, <1>3 DEF Sm!GiveUp, Sm!NextHook
<1>. QED BY <1>2, <1>3

\* The manager copies the hooks, reversed.
LEMMA TurnBegin ==
  ASSUME ManagerTypes, PhaseInv, RegisteredInv, Sm!Begin
  PROVE  TurnInv'
<1>1. caller["main"] = "in" /\ mainPc = "shutdown" /\ hooks \in Seq(HookNames)
  BY DEF ManagerTypes, PhaseInv, Sm!Begin
<1>2. todo' = Reverse(hooks) /\ UNCHANGED <<hooks, errs, run>> /\ mgr = "idle"
  BY DEF Sm!Begin, Sm!Reverse, Reverse
<1>3. \A h \in HookNames : Contains(hooks, h) => Contains(todo', h)
  BY <1>1, <1>2, ContainsReverse
<1>4. todo' # << >> /\ Head(todo') = "consumer_stop" /\ ~Contains(Tail(todo'), "consumer_stop")
  BY <1>1, <1>2, LastIsFirst DEF RegisteredInv
<1>5. run["storage_close"] = "new"
  BY <1>2 DEF PhaseInv, HookNames
<1>. QED BY <1>2, <1>3, <1>4, <1>5 DEF TurnInv

\* The wait for a hook is over.
LEMMA TurnNext ==
  ASSUME ManagerTypes, TurnInv, Sm!Collect \/ Sm!GiveUp
  PROVE  TurnInv'
<1>1. /\ mgr = "wait" /\ mgr' = "next"
      /\ todo # << >> /\ todo' = Tail(todo) /\ Head(todo) \in HookNames
      /\ errs \subseteq errs' /\ UNCHANGED <<hooks, run, caller>>
      /\ run[Head(todo)] = "ok" \/ Head(todo) \in errs'
  BY HookOver
<1>2. \A x : Contains(todo, x) <=> Contains(todo', x) \/ x = Head(todo)
  BY <1>1, ContainsTail DEF ManagerTypes
<1>3. ASSUME NEW h \in HookNames, Contains(hooks', h)
      PROVE  Contains(todo', h) \/ h \in errs' \/ run'[h] = "ok"
  BY <1>1, <1>2, <1>3 DEF TurnInv
<1>4. /\ ~Contains(todo', "consumer_stop")
      /\ "consumer_stop" \in errs' \/ run'["consumer_stop"] = "ok"
  <2>1. CASE Head(todo) = "consumer_stop" /\ ~Contains(Tail(todo), "consumer_stop")
    BY <1>1, <2>1
  <2>2. CASE /\ ~Contains(todo, "consumer_stop")
             /\ "consumer_stop" \in errs \/ run["consumer_stop"] = "ok"
    BY <1>1, <1>2, <2>2
  <2>. QED BY <1>1, <2>1, <2>2 DEF TurnInv
<1>. QED BY <1>3, <1>4 DEF TurnInv

\* A hook is started.
LEMMA TurnStart ==
  ASSUME ManagerTypes, TurnInv, Sm!StartHook
  PROVE  TurnInv'
<1>1. /\ todo # << >> /\ Head(todo) \in HookNames
      /\ mgr # "idle" /\ run' = [run EXCEPT ![Head(todo)] = "running"]
      /\ UNCHANGED <<hooks, todo, errs>>
  BY ContainsTail DEF ManagerTypes, Sm!StartHook
<1>2. Contains(todo, Head(todo))  BY <1>1, ContainsTail DEF ManagerTypes
<1>3. \A h \in HookNames \ {Head(todo)} : run'[h] = run[h]
  BY <1>1 DEF ManagerTypes
<1>4. ASSUME NEW h \in HookNames, Contains(hooks', h)
      PROVE  Contains(todo', h) \/ h \in errs' \/ run'[h] = "ok"
  <2>1. CASE h = Head(todo)  BY <1>1, <1>2, <2>1
  <2>2. CASE h # Head(todo)  BY <1>1, <1>3, <1>4, <2>2 DEF TurnInv
  <2>. QED BY <2>1, <2>2
<1>5. CASE /\ Head(todo) = "consumer_stop" /\ ~Contains(Tail(todo), "consumer_stop")
           /\ run["storage_close"] = "new"
  <2>1. run'["storage_close"] = "new"  BY <1>3, <1>5 DEF HookNames
  <2>. QED BY <1>1, <1>4, <1>5, <2>1 DEF TurnInv
<1>6. CASE /\ ~Contains(todo, "consumer_stop")
           /\ "consumer_stop" \in errs \/ run["consumer_stop"] = "ok"
  <2>1. Head(todo) # "consumer_stop"  BY <1>2, <1>6
  <2>2. run'["consumer_stop"] = run["consumer_stop"]  BY <1>3, <2>1 DEF HookNames
  <2>. QED BY <1>1, <1>4, <1>6, <2>2 DEF TurnInv
<1>. QED BY <1>1, <1>5, <1>6 DEF TurnInv

\* A hook returns.
LEMMA TurnReturn ==
  ASSUME ManagerTypes, TurnInv, HookStep, ~PipelineStop
  PROVE  TurnInv'
<1>1. PICK h \in HookNames, r \in {"ok", "failed"} :
        /\ run[h] = "running" /\ run' = [run EXCEPT ![h] = r]
        /\ UNCHANGED <<hooks, todo, mgr, errs>>
  BY HookResults
<1>2. \A g \in HookNames : run[g] \in {"ok", "new"} => run'[g] = run[g]
  BY <1>1 DEF ManagerTypes
<1>. QED BY <1>1, <1>2 DEF TurnInv, HookNames

LEMMA TurnStep ==
  ASSUME ManagerTypes, PhaseInv, RegisteredInv, TurnInv, Next
  PROVE  TurnInv'
<1>a. UNCHANGED <<hooks, todo, mgr, errs, run>> => TurnInv'
  BY DEF TurnInv
<1>b. mgr = "idle" /\ UNCHANGED mgr => TurnInv'
  BY DEF TurnInv
<1>c. caller["main"] # "out" => mainPc \in {"shutdown", "end"}
  BY DEF PhaseInv, ManagerTypes
<1>1. CASE Main
  <2>1. CASE mainPc \in {"shutdown", "end"}
    BY <1>1, <2>1, <1>a DEF Main, PipelineStart, StartFailed, RegisterCapture, RegisterStorage,
       StartConsumers, APIFailed, RegisterAPI, RegisterConsumers, CallShutdown, Exit, Sm!Return
  <2>2. CASE mainPc \notin {"shutdown", "end"}
    <3>1. mgr = "idle"  BY <1>c, <2>2 DEF PhaseInv
    <3>2. UNCHANGED mgr
      BY <1>1, <2>2 DEF Main, PipelineStart, StartFailed, RegisterCapture, RegisterStorage,
         StartConsumers, APIFailed, RegisterAPI, RegisterConsumers, CallShutdown, Exit,
         Sm!Register, Sm!Call
    <3>. QED BY <1>b, <3>1, <3>2
  <2>. QED BY <2>1, <2>2
<1>2. CASE StartHook    BY <1>2, TurnStart DEF StartHook
<1>3. CASE ManagerStep
  <2>1. CASE Sm!Begin  BY <2>1, TurnBegin
  <2>2. CASE Sm!Collect \/ Sm!GiveUp  BY <2>2, TurnNext
  <2>3. CASE Sm!End
    BY <2>3 DEF Sm!End, TurnInv
  <2>. QED BY <1>3, <2>1, <2>2, <2>3 DEF ManagerStep
<1>4. CASE HookStep
  <2>1. CASE PipelineStop   BY <1>a, <2>1, Outside
  <2>2. CASE ~PipelineStop  BY <1>4, <2>2, TurnReturn
  <2>. QED BY <2>1, <2>2
<1>5. CASE Signal \/ ConsumersEnd \/ Goroutines  BY <1>5, <1>a, Outside
<1>6. CASE Tick             BY <1>6, <1>a DEF Tick, Sm!Tick
<1>7. CASE Finished         BY <1>7, <1>a DEF Finished
<1>. QED BY <1>1, <1>2, <1>3, <1>4, <1>5, <1>6, <1>7 DEF Next

--------------------------------------------------------------------------------
(* What the hooks have done, and what the process ends with. *)

\* Of Start and Stop only the type of the interface matters.
InterfaceInv ==
  /\ stopPc # "idle" => startPc = "started"
  /\ stopPc \in {"linkUp", "ok"} => mode = "managed"

LEMMA InterfaceStep == ASSUME InterfaceInv, Start \/ Stop \/ StopCall PROVE InterfaceInv'
<1>. USE DEF InterfaceInv
<1>1. CASE Start
  BY <1>1 DEF Start, StartBegin, EnableType, EnableLink, Open, OpenFailed, Revert
<1>2. CASE Stop
  BY <1>2 DEF Stop, StopWait, DisableType, DisableLink
<1>3. CASE StopCall  BY <1>3 DEF StopCall
<1>. QED BY <1>1, <1>2, <1>3

LEMMA EffectStep ==
  ASSUME ManagerTypes, PhaseInv, EffectInv, Next
  PROVE  EffectInv'
<1>. USE DEF EffectInv
<1>a. UNCHANGED <<run, consuming, storage, stopPc, startPc, mode>> => EffectInv'
  OBVIOUS
<1>b. InterfaceInv  BY DEF InterfaceInv
<1>c. caller["main"] # "out" => mainPc \in {"shutdown", "end"}
  BY DEF PhaseInv, ManagerTypes
<1>d. mainPc \notin {"shutdown", "end"} => \A h \in HookNames : run[h] = "new"
  BY <1>c DEF PhaseInv
<1>e. "capture_stop" \in HookNames /\ "storage_close" \in HookNames
        /\ "consumer_stop" \in HookNames
  BY DEF HookNames
<1>1. CASE Signal  BY <1>1, <1>a DEF Signal, pipeline, interface, parts
<1>2. CASE Main
  <2>1. CASE PipelineStart
    <3>1. InterfaceInv'  BY <1>b, <2>1, InterfaceStep DEF PipelineStart
    <3>2. UNCHANGED <<run, consuming, storage>>  BY <2>1 DEF PipelineStart, parts
    <3>3. stopPc' = stopPc
      BY <2>1 DEF PipelineStart, Start, StartBegin, EnableType, EnableLink, Open, OpenFailed,
         Revert
    <3>. QED BY <3>1, <3>2, <3>3 DEF InterfaceInv
  <2>2. CASE StartConsumers \/ RegisterAPI
    <3>1. run' = run
      BY <2>2 DEF StartConsumers, RegisterAPI, Sm!Register
    <3>2. UNCHANGED <<storage, stopPc, startPc, mode>>
      BY <2>2 DEF StartConsumers, RegisterAPI, pipeline, interface
    <3>3. run["consumer_stop"] = "new"
      BY <1>d, <1>e, <2>2 DEF StartConsumers, RegisterAPI
    <3>. QED BY <3>1, <3>2, <3>3
  <2>3. CASE ~(PipelineStart \/ StartConsumers \/ RegisterAPI)
    <3>1. UNCHANGED <<run, parts, pipeline>>
      BY <1>2, <2>3 DEF Main, StartFailed, RegisterCapture, RegisterStorage, APIFailed,
         RegisterConsumers, CallShutdown, Exit, Sm!Register, Sm!Call, Sm!Return
    <3>. QED BY <1>a, <3>1 DEF pipeline, interface, parts
  <2>. QED BY <2>1, <2>2, <2>3
<1>3. CASE StartHook
  <2>1. /\ Head(todo) \in HookNames /\ run' = [run EXCEPT ![Head(todo)] = "running"]
        /\ UNCHANGED <<consuming, storage>>
    BY <1>3, ContainsTail DEF StartHook, Sm!StartHook, ManagerTypes
  <2>2. \A h \in HookNames : run'[h] = run[h] \/ run'[h] = "running"
    BY <2>1 DEF ManagerTypes
  <2>3. InterfaceInv' /\ (stopPc = "ok" => stopPc' = "ok")
    <3>1. CASE StopCall  BY <1>b, <3>1, InterfaceStep DEF StopCall
    <3>2. CASE UNCHANGED pipeline  BY <1>b, <3>2 DEF pipeline, interface, InterfaceInv
    <3>. QED BY <1>3, <3>1, <3>2 DEF StartHook
  <2>. QED BY <1>e, <2>1, <2>2, <2>3 DEF InterfaceInv
<1>4. CASE ManagerStep
  <2>1. run' = run
    BY <1>4 DEF ManagerStep, Sm!Begin, Sm!Collect, Sm!GiveUp, Sm!NextHook, Sm!End
  <2>. QED BY <1>4, <1>a, <2>1 DEF ManagerStep, pipeline, interface, parts
<1>5. CASE PipelineStop
  <2>1. InterfaceInv'  BY <1>b, <1>5, InterfaceStep DEF PipelineStop
  <2>2. UNCHANGED <<run, consuming, storage>>  BY <1>5 DEF PipelineStop, parts
  <2>3. stopPc # "ok"
    BY <1>5 DEF PipelineStop, Stop, StopWait, DisableType, DisableLink
  <2>. QED BY <2>1, <2>2, <2>3 DEF InterfaceInv
<1>6. CASE HookStep /\ ~PipelineStop
  <2>1. PICK h \in HookNames, r \in {"ok", "failed"} :
          /\ run[h] = "running" /\ run' = [run EXCEPT ![h] = r]
          /\ UNCHANGED <<pipeline, consuming>>
          /\ h = "consumer_stop" /\ r = "ok" => ~consuming
          /\ h = "capture_stop" => r = stopPc
          /\ IF h = "storage_close" THEN storage' = "closed" ELSE UNCHANGED storage
    BY <1>6, HookResults
  <2>2. UNCHANGED <<stopPc, startPc, mode>>  BY <2>1 DEF pipeline, interface
  <2>3. run'[h] = r /\ \A g \in HookNames \ {h} : run'[g] = run[g]
    BY <2>1 DEF ManagerTypes
  <2>4. run'["consumer_stop"] = "ok" => ~consuming'  BY <1>e, <2>1, <2>3
  <2>5. run'["capture_stop"] = "ok" => stopPc' = "ok"  BY <1>e, <2>1, <2>2, <2>3
  <2>6. /\ storage' = "closed" => run'["storage_close"] # "new"
        /\ run'["storage_close"] = "ok" => storage' = "closed"
    BY <1>e, <2>1, <2>3
  <2>. QED BY <2>2, <2>4, <2>5, <2>6
<1>7. CASE ConsumersEnd
  BY <1>7 DEF ConsumersEnd, pipeline, interface
<1>8. CASE Goroutines
  <2>1. UNCHANGED <<stopPc, startPc, mode>>
    BY <1>8 DEF Goroutines, CaptureEnds, Hop, interface
  <2>. QED BY <1>8, <1>a, <2>1 DEF Goroutines, parts
<1>9. CASE Tick      BY <1>9, <1>a DEF Tick, Sm!Tick, pipeline, interface, parts
<1>10. CASE Finished BY <1>10, <1>a DEF Finished, pipeline, interface, parts
<1>. QED BY <1>1, <1>2, <1>3, <1>4, <1>5, <1>6, <1>7, <1>8, <1>9, <1>10 DEF Next, HookStep

\* When main leaves with no errors, every hook that was registered has done well.
LEMMA AllWell ==
  ASSUME ManagerTypes, PhaseInv, RegisteredInv, TurnInv, EffectInv,
         mainPc = "shutdown", mgr = "done", errs = {}
  PROVE  mode = "managed" /\ ~consuming /\ storage # "open"
<1>1. ASSUME NEW h \in HookNames, Contains(hooks, h)
      PROVE  run[h] = "ok"
  <2>1. ~Contains(todo, h)  BY DEF PhaseInv, Contains
  <2>. QED BY <1>1, <2>1 DEF TurnInv
<1>2. mode = "managed"
  <2>1. Contains(hooks, "capture_stop")  BY DEF RegisteredInv
  <2>. QED BY <1>1, <2>1 DEF HookNames, EffectInv
<1>3. ~consuming
  <2>1. hooks \in Seq(HookNames) /\ hooks # << >> /\ hooks[Len(hooks)] = "consumer_stop"
    BY DEF ManagerTypes, RegisteredInv
  <2>2. Len(hooks) \in 1..Len(hooks)  BY <2>1
  <2>3. Contains(hooks, "consumer_stop")  BY <2>1, <2>2 DEF Contains
  <2>. QED BY <1>1, <2>3 DEF HookNames, EffectInv
<1>4. storage # "open"
  <2>1. SUFFICES ASSUME storage = "open" PROVE FALSE  OBVIOUS
  <2>2. Contains(hooks, "storage_close")  BY <2>1 DEF RegisteredInv
  <2>. QED BY <1>1, <2>1, <2>2 DEF HookNames, EffectInv
<1>. QED BY <1>2, <1>3, <1>4

LEMMA EndStep ==
  ASSUME ManagerTypes, PhaseInv, RegisteredInv, TurnInv, EffectInv, EndInv, Next
  PROVE  EndInv'
<1>1. CASE exit = "0"
  <2>1. mainPc = "end" /\ mgr = "done" /\ ~Running  BY <1>1 DEF EndInv, Running
  <2>2. ~(Main \/ StartHook \/ ManagerStep)
    <3>1. ~Main
      BY <2>1 DEF Main, PipelineStart, StartFailed, RegisterCapture, RegisterStorage,
         StartConsumers, APIFailed, RegisterAPI, RegisterConsumers, CallShutdown, Exit
    <3>2. ~StartHook  BY <2>1 DEF StartHook, Sm!StartHook
    <3>3. ~ManagerStep
      BY <2>1 DEF ManagerStep, Sm!Begin, Sm!Collect, Sm!GiveUp, Sm!End
    <3>. QED BY <3>1, <3>2, <3>3
  <2>3. ~(Signal \/ HookStep \/ ConsumersEnd \/ Goroutines \/ Tick)
    BY <2>1 DEF Signal, HookStep, PipelineStop, CaptureStopped, StorageClosed, APIStopped,
       ConsumersStopped, ConsumersLate, Returns, ConsumersEnd, Goroutines, Tick
  <2>4. Finished  BY <2>2, <2>3 DEF Next
  <2>. QED BY <2>4 DEF Finished, EndInv, parts, pipeline, interface
<1>2. CASE exit # "0"
  <2>1. CASE Exit
    <3>1. SUFFICES ASSUME exit' = "0" PROVE EndInv'  BY DEF EndInv
    <3>2. mainPc = "shutdown" /\ mainPc' = "end" /\ mgr = "done" /\ mgr' = mgr
      BY <2>1 DEF Exit, Sm!Return
    <3>3. result'["main"] = errs  BY <2>1 DEF Exit, Sm!Return, ManagerTypes
    <3>4. errs = {}  BY <2>1, <3>1, <3>3 DEF Exit
    <3>5. UNCHANGED <<mode, consuming, storage>>
      BY <2>1 DEF Exit, parts, pipeline, interface
    <3>. QED BY <3>2, <3>4, <3>5, AllWell DEF EndInv
  <2>2. CASE ~Exit
    <3>1. exit' = exit \/ exit' = "1"
      <4>1. CASE Main
        BY <2>2, <4>1 DEF Main, PipelineStart, StartFailed, RegisterCapture, RegisterStorage,
           StartConsumers, APIFailed, RegisterAPI, RegisterConsumers, CallShutdown
      <4>2. CASE HookStep
        BY <4>2, HookResults DEF HookStep, PipelineStop, CaptureStopped, StorageClosed,
           APIStopped, ConsumersStopped, ConsumersLate
      <4>3. CASE Signal \/ StartHook \/ ManagerStep \/ ConsumersEnd \/ Goroutines \/ Tick \/ Finished
        BY <4>3 DEF Signal, StartHook, ManagerStep, ConsumersEnd, Goroutines, Tick, Finished
      <4>. QED BY <4>1, <4>2, <4>3 DEF Next
    <3>. QED BY <1>2, <3>1 DEF EndInv
  <2>. QED BY <2>1, <2>2
<1>. QED BY <1>1, <1>2

--------------------------------------------------------------------------------
(* Theorems. *)

\* The invariant of the whole.
THEOREM Invariance == Spec => []Inv
<1>1. Init => Inv
  <2>. SUFFICES ASSUME Init PROVE Inv  OBVIOUS
  <2>. USE DEF Init, Sm!Init
  <2>1. QuietInv       BY DEF QuietInv, PipelineInit, HopperInit
  <2>2. ManagerTypes   BY DEF ManagerTypes
  <2>3. PhaseInv       BY DEF PhaseInv
  <2>4. RegisteredInv  BY DEF RegisteredInv, Contains
  <2>5. TurnInv        BY DEF TurnInv
  <2>6. EffectInv      BY DEF EffectInv, HookNames, PipelineInit
  <2>7. EndInv         BY DEF EndInv
  <2>. QED BY <2>1, <2>2, <2>3, <2>4, <2>5, <2>6, <2>7 DEF Inv
<1>2. Inv /\ [Next]_vars => Inv'
  <2>. SUFFICES ASSUME Inv, [Next]_vars PROVE Inv'  OBVIOUS
  <2>1. CASE Next
    <3>1. ManagerTypes'  BY <2>1, StepSimulation, ManagerTypesStep DEF Inv
    <3>2. QuietInv'      BY <2>1, QuietStep DEF Inv
    <3>3. PhaseInv'      BY <2>1, <3>1, PhaseStep DEF Inv
    <3>4. RegisteredInv' BY <2>1, <3>1, RegisteredStep DEF Inv
    <3>5. TurnInv'       BY <2>1, TurnStep DEF Inv
    <3>6. EffectInv'     BY <2>1, EffectStep DEF Inv
    <3>7. EndInv'        BY <2>1, EndStep DEF Inv
    <3>. QED BY <3>1, <3>2, <3>3, <3>4, <3>5, <3>6, <3>7 DEF Inv
  <2>2. CASE UNCHANGED vars
    BY <2>2 DEF Inv, QuietInv, ManagerTypes, PhaseInv, RegisteredInv, TurnInv, EffectInv,
       EndInv, parts, pipeline, hopper, interface
  <2>. QED BY <2>1, <2>2
<1>. QED BY <1>1, <1>2, PTL DEF Spec

\* Status 0 is given only when the interface is back, the consumers have ended and
\* the database is closed, whatever hangs or fails and whatever the time limits.
THEOREM ExitCorrect == Spec => []ExitClean
<1>1. Inv => ExitClean  BY DEF Inv, EndInv, ExitClean
<1>. QED BY <1>1, Invariance, PTL

\* A database closed under a running consumer does not go unreported.
THEOREM CloseCorrect == Spec => []ClosedAfterConsumers
<1>1. Inv => ClosedAfterConsumers
  <2>. SUFFICES ASSUME Inv, storage = "closed", consuming
                PROVE  "consumer_stop" \in errs
    BY DEF ClosedAfterConsumers
  <2>1. run["storage_close"] # "new" /\ run["consumer_stop"] # "ok"
    BY DEF Inv, EffectInv
  <2>2. mgr # "idle"  BY <2>1 DEF Inv, PhaseInv, HookNames
  <2>. QED BY <2>1, <2>2 DEF Inv, TurnInv
<1>. QED BY <1>1, Invariance, PTL

--------------------------------------------------------------------------------
(* The hopper's back-off. *)

\* A back-off that is active is what Run waits for, and within its limit.
BackoffInv ==
  /\ idx \in Entries /\ chosen \in Entries \cup {0}
  /\ hop \in {"set", "refused"} => chosen \in Entries
  /\ failures \in 0..FailureThreshold
  /\ backoff \in 0..MaxBackoff
  /\ backoff > 0 => wait = backoff /\ failures = FailureThreshold

LEMMA DoubledBounds ==
  ASSUME BackoffInv, chosen \in Entries
  PROVE  Doubled \in 1..MaxBackoff /\ Doubled >= backoff
<1>. USE HopperAssumption
<1>1. Dwells[chosen] \in Nat \ {0}  BY DEF Entries
<1>2. backoff \in Nat /\ backoff <= MaxBackoff /\ MaxBackoff \in Nat \ {0}  BY DEF BackoffInv
<1>3. CASE backoff = 0
  BY <1>1, <1>2, <1>3 DEF Doubled, Lesser
<1>4. CASE backoff # 0
  BY <1>2, <1>4 DEF Doubled, Lesser
<1>. QED BY <1>3, <1>4

LEMMA HopperKeeps ==
  ASSUME BackoffInv, Hop \/ HopperRun
  PROVE  BackoffInv' /\ (backoff > 0 /\ backoff' > 0 => wait' >= wait)
<1>. USE HopperAssumption
<1>0. Len(Dwells) \in Nat \ {0}  OBVIOUS
<1>1. CASE HopperRun
  BY <1>0, <1>1 DEF HopperRun, BackoffInv, Entries
<1>2. CASE \E c \in BOOLEAN : HopBegin(c)
  <2>1. idx' \in Entries /\ chosen' \in Entries
    BY <1>0, <1>2 DEF HopBegin, BackoffInv, Entries
  <2>. QED BY <1>2, <2>1 DEF HopBegin, BackoffInv
<1>3. CASE HopFailed
  <2>1. chosen \in Entries  BY <1>3 DEF HopFailed, BackoffInv
  <2>2. Doubled \in 1..MaxBackoff /\ Doubled >= backoff  BY <2>1, DoubledBounds
  <2>3. failures' \in 0..FailureThreshold
    BY <1>3 DEF HopFailed, BackoffInv, Lesser
  <2>4. CASE failures' < FailureThreshold
    <3>1. backoff = 0 /\ backoff' = 0
      BY <1>3, <2>4 DEF HopFailed, BackoffInv, Lesser
    <3>. QED BY <1>3, <2>1, <2>3, <3>1 DEF HopFailed, BackoffInv
  <2>5. CASE failures' = FailureThreshold
    <3>1. backoff' = Doubled /\ wait' = Doubled  BY <1>3, <2>5 DEF HopFailed
    <3>. QED BY <1>3, <2>1, <2>2, <2>5, <3>1 DEF HopFailed, BackoffInv
  <2>. QED BY <2>3, <2>4, <2>5
<1>4. CASE HopSucceeded  BY <1>4 DEF HopSucceeded, BackoffInv
<1>5. CASE HopTimer \/ HopExit
  BY <1>5 DEF HopTimer, HopExit, BackoffInv
<1>. QED BY <1>1, <1>2, <1>3, <1>4, <1>5 DEF Hop, CaptureDone

\* Only the hopper's goroutine, and the start of it, touch the back-off.
LEMMA HopperOnly ==
  ASSUME [Next]_vars
  PROVE  Hop \/ HopperRun \/ UNCHANGED hopper
<1>1. CASE PipelineStart
  BY <1>1 DEF PipelineStart, Start, StartBegin, EnableType, EnableLink, Open, OpenFailed, Revert
<1>2. CASE Goroutines
  BY <1>2 DEF Goroutines, CaptureEnds
<1>3. CASE PipelineStop
  BY <1>3 DEF PipelineStop, Stop, StopWait, DisableType, DisableLink
<1>4. CASE StartHook  BY <1>4 DEF StartHook, StopCall, pipeline
<1>5. CASE Main /\ ~PipelineStart
  BY <1>5 DEF Main, StartFailed, RegisterCapture, RegisterStorage, StartConsumers, APIFailed,
     RegisterAPI, RegisterConsumers, CallShutdown, Exit, pipeline
<1>6. CASE HookStep /\ ~PipelineStop
  BY <1>6 DEF HookStep, CaptureStopped, StorageClosed, APIStopped, ConsumersStopped,
     ConsumersLate, pipeline
<1>7. CASE Signal \/ ManagerStep \/ ConsumersEnd \/ Tick \/ Finished \/ UNCHANGED vars
  BY <1>7 DEF Signal, ManagerStep, ConsumersEnd, Tick, Finished, pipeline
<1>. QED BY <1>1, <1>2, <1>3, <1>4, <1>5, <1>6, <1>7 DEF Next

\* On a broken interface the waits only grow, for all dwell times and limits.
THEOREM WaitsCorrect == Spec => WaitsGrow
<1>1. Init => BackoffInv
  BY HopperAssumption DEF Init, PipelineInit, HopperInit, BackoffInv, Entries
<1>2. BackoffInv /\ [Next]_vars =>
        BackoffInv' /\ [backoff > 0 /\ backoff' > 0 => wait' >= wait]_hopper
  <2>. SUFFICES ASSUME BackoffInv, [Next]_vars
                PROVE  BackoffInv' /\ [backoff > 0 /\ backoff' > 0 => wait' >= wait]_hopper
    OBVIOUS
  <2>1. CASE Hop \/ HopperRun      BY <2>1, HopperKeeps
  <2>2. CASE UNCHANGED hopper
    BY <2>2 DEF hopper, BackoffInv
  <2>. QED BY <2>1, <2>2, HopperOnly
<1>. QED BY <1>1, <1>2, PTL DEF Spec, WaitsGrow
================================================================================
