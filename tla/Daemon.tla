--------------------------------- MODULE Daemon ---------------------------------
(***************************************************************************)
(* main (cmd/tobimaru/main.go) from the start of the pipeline to the exit  *)
(* of the process: the order in which it starts its parts and registers    *)
(* their shutdown hooks, the ways out before that, and the four hooks      *)
(* under the shutdown manager of Shutdown, on the pipeline of Pipeline.    *)
(*                                                                         *)
(* The consumers are all goroutines of consumerWG, the HTTP server and the *)
(* hub among them.  The clock stands still until the shutdown begins.      *)
(***************************************************************************)
EXTENDS Pipeline

CONSTANTS
  HookBudget, Deadline,  \* of the shutdown manager
  ConsumerTimeout        \* how long consumer_stop waits (10s)

ASSUME DaemonAssumption == ConsumerTimeout \in Nat \ {0}

HookNames == {"capture_stop", "storage_close", "api_stop", "consumer_stop"}

VARIABLES
  mainPc,     \* where main is
  storage,    \* the repository: "none" when it is disabled
  consuming,  \* a goroutine of consumerWG runs
  giveUpAt,   \* when consumer_stop gives up
  exit,       \* the status of the process
  \* the shutdown manager's
  hooks, copied, mgr, todo, hookStart, run, errs, caller, result, order

Sm == INSTANCE Shutdown WITH Hooks <- HookNames, Callers <- {"main"}

manager  == <<hooks, copied, mgr, todo, hookStart, run, errs, caller, result, order>>
parts    == <<storage, consuming, giveUpAt>>
vars     == <<clock, signalDone, pipeline, mainPc, parts, exit, manager>>

Running == exit = "none"

TypeOK ==
  /\ PipelineTypeOK /\ Sm!TypeOK
  /\ mainPc \in {"start", "storage", "consumers", "api", "hooks", "wait", "shutdown", "end"}
  /\ storage \in {"none", "open", "closed"}
  /\ signalDone \in BOOLEAN /\ consuming \in BOOLEAN
  /\ giveUpAt \in 0..(Deadline + ConsumerTimeout)
  /\ exit \in {"none", "0", "1"}

\* The signal context has just been made, the storage is open or disabled.
Init ==
  /\ Sm!Init /\ PipelineInit
  /\ signalDone = FALSE
  /\ mainPc = "start" /\ exit = "none"
  /\ storage \in {"none", "open"}
  /\ consuming = FALSE /\ giveUpAt = 0

--------------------------------------------------------------------------------
(* main. *)

Signal ==
  /\ Running /\ ~signalDone
  /\ signalDone' = TRUE
  /\ UNCHANGED <<clock, pipeline, mainPc, parts, exit, manager>>

PipelineStart ==
  /\ Running /\ mainPc = "start" /\ Start
  /\ UNCHANGED <<clock, signalDone, mainPc, parts, exit, manager>>

\* os.Exit(1): the process ends where it is, and no hook is run.
StartFailed ==
  /\ Running /\ mainPc = "start" /\ startPc = "failed"
  /\ exit' = "1" /\ mainPc' = "end"
  /\ UNCHANGED <<clock, signalDone, pipeline, parts, manager>>

RegisterCapture ==
  /\ mainPc = "start" /\ startPc = "started"
  /\ Sm!Register("capture_stop")
  /\ mainPc' = "storage"
  /\ UNCHANGED <<clock, signalDone, pipeline, parts, exit>>

RegisterStorage ==
  /\ mainPc = "storage"
  /\ IF storage = "open" THEN Sm!Register("storage_close") ELSE UNCHANGED manager
  /\ mainPc' = "consumers"
  /\ UNCHANGED <<clock, signalDone, pipeline, parts, exit>>

\* The goroutines of the consumers; one of them runs in every configuration.
StartConsumers ==
  /\ mainPc = "consumers"
  /\ consuming' = TRUE
  /\ mainPc' = "api"
  /\ UNCHANGED <<clock, signalDone, pipeline, storage, giveUpAt, exit, manager>>

\* NewServer refuses authentication without storage: os.Exit(1).
APIFailed ==
  /\ mainPc = "api" /\ storage = "none"
  /\ exit' = "1" /\ mainPc' = "end"
  /\ UNCHANGED <<clock, signalDone, pipeline, parts, manager>>

\* The API may be disabled.  Its goroutines are consumers like the others.
RegisterAPI ==
  /\ mainPc = "api"
  /\ \/ Sm!Register("api_stop") /\ consuming' = TRUE
     \/ UNCHANGED <<manager, consuming>>
  /\ mainPc' = "hooks"
  /\ UNCHANGED <<clock, signalDone, pipeline, storage, giveUpAt, exit>>

RegisterConsumers ==
  /\ mainPc = "hooks"
  /\ Sm!Register("consumer_stop")
  /\ mainPc' = "wait"
  /\ UNCHANGED <<clock, signalDone, pipeline, parts, exit>>

\* <-signalCtx.Done(), then sm.Shutdown.
CallShutdown ==
  /\ mainPc = "wait" /\ signalDone
  /\ Sm!Call("main")
  /\ mainPc' = "shutdown"
  /\ UNCHANGED <<clock, signalDone, pipeline, parts, exit>>

\* The status tells whether a hook failed or was given up.
Exit ==
  /\ mainPc = "shutdown" /\ Sm!Return("main")
  /\ exit' = IF result'["main"] = {} THEN "0" ELSE "1"
  /\ mainPc' = "end"
  /\ UNCHANGED <<clock, signalDone, pipeline, parts>>

--------------------------------------------------------------------------------
(* The shutdown manager and the hooks' goroutines. *)

\* A hook's goroutine begins with the hook: Stop is called, or the wait for the
\* consumers gets its own timer.
StartHook ==
  /\ Sm!StartHook
  /\ IF Head(todo) = "capture_stop" THEN StopCall ELSE UNCHANGED pipeline
  /\ giveUpAt' = IF Head(todo) = "consumer_stop" THEN clock + ConsumerTimeout ELSE giveUpAt
  /\ UNCHANGED <<signalDone, mainPc, storage, consuming, exit>>

ManagerStep ==
  /\ Sm!Begin \/ Sm!Collect \/ Sm!GiveUp \/ Sm!End
  /\ UNCHANGED <<signalDone, pipeline, mainPc, parts, exit>>

\* h's goroutine returns r.
Returns(h, r) == Running /\ Sm!HookReturn(h) /\ run'[h] = r

PipelineStop ==
  /\ Running /\ Stop
  /\ UNCHANGED <<clock, signalDone, mainPc, parts, exit, manager>>

CaptureStopped ==
  /\ stopPc \in {"ok", "failed"}
  /\ Returns("capture_stop", stopPc)
  /\ UNCHANGED <<signalDone, pipeline, mainPc, parts, exit>>

\* Close may fail, and the database is closed none the less.
StorageClosed ==
  /\ \E r \in {"ok", "failed"} : Returns("storage_close", r)
  /\ storage' = "closed"
  /\ UNCHANGED <<signalDone, pipeline, mainPc, consuming, giveUpAt, exit>>

\* httpd.Shutdown ends, or meets ShutdownTimeout.
APIStopped ==
  /\ \E r \in {"ok", "failed"} : Returns("api_stop", r)
  /\ UNCHANGED <<signalDone, pipeline, mainPc, parts, exit>>

\* case <-done
ConsumersStopped ==
  /\ ~consuming
  /\ Returns("consumer_stop", "ok")
  /\ UNCHANGED <<signalDone, pipeline, mainPc, parts, exit>>

\* case <-time.After(10 * time.Second)
ConsumersLate ==
  /\ clock >= giveUpAt
  /\ Returns("consumer_stop", "failed")
  /\ UNCHANGED <<signalDone, pipeline, mainPc, parts, exit>>

--------------------------------------------------------------------------------
(* The goroutines. *)

\* The last consumer ends, some time after the signal or the end of capture.
ConsumersEnd ==
  /\ Running /\ consuming /\ CaptureDone
  /\ consuming' = FALSE
  /\ UNCHANGED <<clock, signalDone, pipeline, mainPc, storage, giveUpAt, exit, manager>>

Goroutines ==
  /\ Running
  /\ CaptureEnds \/ Hop
  /\ UNCHANGED <<clock, signalDone, mainPc, parts, exit, manager>>

\* A second passes, unless something is due that cannot wait for it.
Tick ==
  /\ Running /\ InTime /\ Sm!Tick
  /\ UNCHANGED <<signalDone, pipeline, mainPc, parts, exit>>

\* The process has ended.
Finished == ~Running /\ UNCHANGED vars

Main ==
  \/ PipelineStart \/ StartFailed \/ RegisterCapture \/ RegisterStorage
  \/ StartConsumers \/ APIFailed \/ RegisterAPI \/ RegisterConsumers
  \/ CallShutdown \/ Exit

HookStep ==
  \/ PipelineStop \/ CaptureStopped \/ StorageClosed \/ APIStopped
  \/ ConsumersStopped \/ ConsumersLate

Next ==
  \/ Signal \/ Main \/ StartHook \/ ManagerStep \/ HookStep
  \/ ConsumersEnd \/ Goroutines \/ Tick \/ Finished

Spec == Init /\ [][Next]_vars

\* main and the manager run, commands that main starts with end, time passes;
\* neither a hook nor a consumer need ever end.
FairSpec ==
  /\ Spec
  /\ WF_vars(Main) /\ WF_vars(StartHook \/ ManagerStep)
  /\ WF_vars(Tick) /\ WF_vars(PipelineStop)

--------------------------------------------------------------------------------
(* Properties. *)

\* Status 0 is the truth: the interface is back in managed mode, no consumer runs
\* any more, and the database, if there was one, is closed.
ExitClean ==
  exit = "0" => /\ mode = "managed"
                /\ ~consuming
                /\ storage # "open"

\* The database is closed under a consumer that still runs only when the wait for
\* the consumers was given up, and then the errors say so.
ClosedAfterConsumers ==
  storage = "closed" /\ consuming => "consumer_stop" \in errs

\* A signal ends the process, whichever consumer, command or hook hangs.
DaemonExits == signalDone ~> exit # "none"
================================================================================
