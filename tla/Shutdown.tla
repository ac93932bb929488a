-------------------------------- MODULE Shutdown --------------------------------
(***************************************************************************)
(* The shutdown manager (internal/shutdown/shutdown.go).  Shutdown runs    *)
(* the registered hooks one after the other, the last one first; each runs *)
(* in a goroutine of its own and is waited for until its own timeout or    *)
(* the deadline of the whole shutdown, whichever is sooner.  A hook that   *)
(* was given up goes on in the background.                                 *)
(*                                                                         *)
(* clock counts seconds since Shutdown began.  The manager itself takes no *)
(* time: the clock moves only while it waits, and not past the moment at   *)
(* which its wait ends.                                                    *)
(***************************************************************************)
EXTENDS Naturals, Sequences, FiniteSets, SequencesExt

CONSTANTS
  Hooks,       \* hooks a component may register
  Callers,     \* goroutines that call Shutdown
  HookBudget,  \* time given to one hook (5s)
  Deadline     \* time given to the whole shutdown (30s)

ASSUME ShutdownAssumption ==
  /\ IsFiniteSet(Hooks)
  /\ HookBudget \in Nat \ {0} /\ Deadline \in Nat \ {0}

VARIABLES
  hooks,      \* m.hooks
  copied,     \* doShutdown's copy of it
  mgr,        \* where doShutdown is
  todo,       \* hooks of the copy not yet run, the next one first
  hookStart,  \* when the current hook was started
  run,        \* per hook: what its goroutine is doing
  errs,       \* hooks with an error in errs
  clock,
  caller,     \* per caller of Shutdown: where it is
  result,     \* per caller: the errors it was returned
  \* history
  order       \* hooks in the order they were started

work == <<copied, mgr, todo, hookStart, errs, order>>
vars == <<hooks, work, run, clock, caller, result>>

Earlier(a, b) == IF a < b THEN a ELSE b

\* hookCtx: the timeout derived from the context of the shutdown.
Expiry == Earlier(hookStart + HookBudget, Deadline)

TypeOK ==
  /\ hooks \in Seq(Hooks) /\ copied \in Seq(Hooks) /\ todo \in Seq(Hooks)
  /\ order \in Seq(Hooks)
  /\ mgr \in {"idle", "next", "wait", "done"}
  /\ hookStart \in 0..Deadline /\ clock \in 0..Deadline
  /\ run \in [Hooks -> {"new", "running", "ok", "failed"}]
  /\ errs \subseteq Hooks
  /\ caller \in [Callers -> {"out", "in", "returned"}]
  /\ result \in [Callers -> SUBSET Hooks]

\* NewManager
Init ==
  /\ hooks = << >> /\ copied = << >> /\ todo = << >> /\ order = << >>
  /\ mgr = "idle"
  /\ hookStart = 0 /\ clock = 0
  /\ run = [h \in Hooks |-> "new"]
  /\ errs = {}
  /\ caller = [c \in Callers |-> "out"]
  /\ result = [c \in Callers |-> {}]

--------------------------------------------------------------------------------
(* Register and the callers of Shutdown. *)

\* Register, also while the shutdown runs; every component registers one hook.
Register(h) ==
  /\ ~Contains(hooks, h)
  /\ hooks' = Append(hooks, h)
  /\ UNCHANGED <<work, run, clock, caller, result>>

Call(c) ==
  /\ caller[c] = "out"
  /\ caller' = [caller EXCEPT ![c] = "in"]
  /\ UNCHANGED <<hooks, work, run, clock, result>>

\* shutdownOnce lets everybody return when the one run is complete.
Return(c) ==
  /\ caller[c] = "in" /\ mgr = "done"
  /\ caller' = [caller EXCEPT ![c] = "returned"]
  /\ result' = [result EXCEPT ![c] = errs]
  /\ UNCHANGED <<hooks, work, run, clock>>

--------------------------------------------------------------------------------
(* doShutdown, run by whichever caller comes first. *)

\* Mutant: the hooks run in the order of their registration.
BeginForward ==
  /\ mgr = "idle" /\ \E c \in Callers : caller[c] = "in"
  /\ copied' = hooks /\ todo' = hooks
  /\ mgr' = "next"
  /\ UNCHANGED <<hooks, hookStart, errs, order, run, clock, caller, result>>

\* The hooks are copied under the lock and taken from the last one back.
Begin ==
  /\ mgr = "idle" /\ \E c \in Callers : caller[c] = "in"
  /\ copied' = hooks /\ todo' = Reverse(hooks)
  /\ mgr' = "next"
  /\ UNCHANGED <<hooks, hookStart, errs, order, run, clock, caller, result>>

StartHook ==
  /\ mgr = "next" /\ todo # << >>
  /\ run' = [run EXCEPT ![Head(todo)] = "running"]
  /\ hookStart' = clock
  /\ order' = Append(order, Head(todo))
  /\ mgr' = "wait"
  /\ UNCHANGED <<hooks, copied, todo, errs, clock, caller, result>>

\* The wait is over; failed says whether the hook leaves an error.
NextHook(failed) ==
  /\ errs' = IF failed THEN errs \cup {Head(todo)} ELSE errs
  /\ todo' = Tail(todo)
  /\ mgr' = "next"
  /\ UNCHANGED <<hooks, copied, hookStart, order, run, clock, caller, result>>

\* Mutant: only the last error is kept.
CollectLast ==
  /\ mgr = "wait" /\ run[Head(todo)] \in {"ok", "failed"}
  /\ errs' = IF run[Head(todo)] = "failed" THEN {Head(todo)} ELSE errs
  /\ todo' = Tail(todo)
  /\ mgr' = "next"
  /\ UNCHANGED <<hooks, copied, hookStart, order, run, clock, caller, result>>

\* case err := <-done
Collect ==
  /\ mgr = "wait" /\ run[Head(todo)] \in {"ok", "failed"}
  /\ NextHook(run[Head(todo)] = "failed")

\* Mutant: the first hook that times out ends the shutdown.
GiveUpAll ==
  /\ mgr = "wait" /\ clock >= Expiry
  /\ errs' = errs \cup {Head(todo)}
  /\ todo' = << >>
  /\ mgr' = "next"
  /\ UNCHANGED <<hooks, copied, hookStart, order, run, clock, caller, result>>

\* Mutant: a hook is waited for even when its time is up.
GiveUpNever ==
  /\ mgr = "wait" /\ clock >= Expiry /\ run[Head(todo)] # "running"
  /\ NextHook(TRUE)

\* case <-hookCtx.Done()
GiveUp ==
  /\ mgr = "wait" /\ clock >= Expiry
  /\ NextHook(TRUE)

\* Every hook has had its turn.
End ==
  /\ mgr = "next" /\ todo = << >>
  /\ mgr' = "done"
  /\ UNCHANGED <<hooks, copied, todo, hookStart, errs, order, run, clock, caller, result>>

--------------------------------------------------------------------------------
\* A hook returns, in time or long after it was given up.
HookReturn(h) ==
  /\ run[h] = "running"
  /\ \E r \in {"ok", "failed"} : run' = [run EXCEPT ![h] = r]
  /\ UNCHANGED <<hooks, work, clock, caller, result>>

\* A second passes while the manager waits.
Tick ==
  /\ mgr = "wait" /\ clock < Expiry
  /\ clock' = clock + 1
  /\ UNCHANGED <<hooks, work, run, caller, result>>

\* The process ends when its callers have returned.
Finished == (\A c \in Callers : caller[c] = "returned") /\ UNCHANGED vars

Manager == Begin \/ StartHook \/ Collect \/ GiveUp \/ End

Next ==
  \/ \E h \in Hooks : Register(h) \/ HookReturn(h)
  \/ \E c \in Callers : Call(c) \/ Return(c)
  \/ Begin \/ StartHook \/ Collect \/ GiveUp \/ End
  \/ Tick \/ Finished

Spec == Init /\ [][Next]_vars

\* The manager and its callers run and time passes; no hook need ever return.
FairSpec ==
  /\ Spec
  /\ WF_vars(Manager) /\ WF_vars(Tick)
  /\ \A c \in Callers : WF_vars(Return(c))

--------------------------------------------------------------------------------
(* Properties. *)

\* Hooks start in the reverse order of registration, each once, whatever the ones
\* before did, and a shutdown that is over has started every one, those whose turn
\* came after the deadline included.  That is doShutdown's own comment ("a slow hook
\* cannot skip all remaining hooks"); main-internal.md says of these that they are
\* skipped.
EveryHookInTurn ==
  /\ IsPrefix(order, Reverse(copied))
  /\ mgr = "done" => order = Reverse(copied)

\* Whoever called Shutdown, first or not, is told the whole story: a hook that
\* failed, or that was given up and is still running or failed later, is among the
\* errors it was returned.
ErrorsComplete ==
  \A c \in Callers : caller[c] = "returned" =>
    \A h \in Hooks : run[h] \in {"running", "failed"} => h \in result[c]

\* Slow hooks together take no more than their budgets, and all of them no more
\* than the deadline.
ShutdownBounded == clock <= Earlier(Deadline, HookBudget * Len(order))

\* Shutdown returns to every caller although no hook does.
ShutdownReturns == \A c \in Callers : caller[c] = "in" ~> caller[c] = "returned"
================================================================================
