-------------------------------- MODULE Pipeline --------------------------------
(***************************************************************************)
(* Start and Stop of the capture pipeline (internal/capture/pipeline.go)   *)
(* with the monitor mode of the interface as the Linux build sets it       *)
(* (monitor_linux.go), and the hopper's goroutine.  Frames are the subject *)
(* of FrameFlow; of captureLoop only its end matters here.                 *)
(*                                                                         *)
(* A command of the operating system takes time.  It runs under a context: *)
(* over before it begins, the command is not run; over later, the command  *)
(* is killed, which may come too late to undo it.  Stop is given           *)
(* context.Background(), as main does, so only its own timeout bounds it.  *)
(***************************************************************************)
EXTENDS ChannelHopper

CONSTANT DisableTimeout  \* disableMonitorTimeout (5s)

ASSUME PipelineAssumption == DisableTimeout \in Nat \ {0}

VARIABLES
  clock,         \* seconds of the shutdown
  signalDone,    \* the context given to Start
  mode,          \* type of the interface
  hopping,       \* p.hopper # nil
  startPc,       \* where Start is, or how it ended
  captureEnded,  \* captureCancel was called
  stopPc,        \* where Stop is, or how it ended
  disableBy      \* when Stop's disableCtx ends

interface == <<mode, startPc, captureEnded, stopPc, disableBy>>
pipeline  == <<hopper, hopping, interface>>

PipelineTypeOK ==
  /\ HopperTypeOK
  /\ mode \in {"managed", "monitor"} /\ hopping \in BOOLEAN
  /\ startPc \in {"idle", "setType", "linkUp", "open", "revert", "started", "failed"}
  /\ stopPc \in {"idle", "hopper", "setType", "linkUp", "ok", "failed"}
  /\ captureEnded \in BOOLEAN /\ disableBy \in Nat

PipelineInit ==
  /\ HopperInit
  /\ mode = "managed" /\ hopping \in BOOLEAN
  /\ startPc = "idle" /\ stopPc = "idle"
  /\ captureEnded = FALSE /\ disableBy = 0

\* captureCtx is a child of the context given to Start.
CaptureDone == captureEnded \/ signalDone

--------------------------------------------------------------------------------
(* Start. *)

\* A command is run next, unless the context is over already.
OrFailed(next) == IF signalDone THEN "failed" ELSE next

StartBegin ==
  /\ startPc = "idle"
  /\ startPc' = OrFailed("setType")
  /\ UNCHANGED <<hopper, hopping, mode, captureEnded, stopPc, disableBy>>

\* iw dev set type monitor; killed by the signal, it may have had its effect.
EnableType ==
  /\ startPc = "setType"
  /\ \/ mode' = "monitor" /\ startPc' = OrFailed("linkUp")
     \/ mode' = mode /\ startPc' = "failed"
     \/ signalDone /\ mode' = "monitor" /\ startPc' = "failed"
  /\ UNCHANGED <<hopper, hopping, captureEnded, stopPc, disableBy>>

\* ip link set up; when it fails the type stays.
EnableLink ==
  /\ startPc = "linkUp"
  /\ startPc' \in {"open", "failed"}
  /\ UNCHANGED <<hopper, hopping, mode, captureEnded, stopPc, disableBy>>

\* OpenCapture; with a handle the goroutines are started.
Open ==
  /\ startPc = "open"
  /\ startPc' = "started"
  /\ IF hopping THEN HopperRun ELSE UNCHANGED hopper
  /\ UNCHANGED <<hopping, mode, captureEnded, stopPc, disableBy>>

\* Without one monitor mode is reverted, under a context derived from Start's.
OpenFailed ==
  /\ startPc = "open"
  /\ startPc' = OrFailed("revert")
  /\ UNCHANGED <<hopper, hopping, mode, captureEnded, stopPc, disableBy>>

\* DisableMonitor's result is only logged.
Revert ==
  /\ startPc = "revert"
  /\ startPc' = "failed"
  /\ mode' \in {"managed", mode}
  /\ UNCHANGED <<hopper, hopping, captureEnded, stopPc, disableBy>>

Start == StartBegin \/ EnableType \/ EnableLink \/ Open \/ OpenFailed \/ Revert

--------------------------------------------------------------------------------
(* The goroutines. *)

\* captureLoop ends by itself, after a read error.
CaptureEnds ==
  /\ startPc = "started" /\ ~CaptureDone
  /\ captureEnded' = TRUE
  /\ UNCHANGED <<hopper, hopping, mode, startPc, stopPc, disableBy>>

\* channelHopperLoop
Hop ==
  /\ \/ HopBegin(CaptureDone)
     \/ HopFailed \/ HopSucceeded
     \/ HopTimer
     \/ CaptureDone /\ HopExit
  /\ UNCHANGED <<hopping, interface>>

--------------------------------------------------------------------------------
(* Stop. *)

StopCall ==
  /\ startPc = "started" /\ stopPc = "idle"
  /\ captureEnded' = TRUE
  /\ stopPc' = "hopper"
  /\ UNCHANGED <<hopper, hopping, mode, startPc, disableBy>>

\* Mutant: monitor mode is disabled without waiting for the hopper.
StopWaitNot ==
  /\ stopPc = "hopper"
  /\ stopPc' = "setType" /\ disableBy' = clock + DisableTimeout
  /\ UNCHANGED <<hopper, hopping, mode, startPc, captureEnded>>

\* case <-p.hopperDone; the timeout of disableCtx begins.
StopWait ==
  /\ stopPc = "hopper"
  /\ hopping => hop = "done"
  /\ stopPc' = "setType" /\ disableBy' = clock + DisableTimeout
  /\ UNCHANGED <<hopper, hopping, mode, startPc, captureEnded>>

\* Mutant: a failure to set the type is passed over.
DisableTypeLenient ==
  /\ stopPc = "setType"
  /\ stopPc' = "linkUp" /\ mode' \in {"managed", mode}
  /\ UNCHANGED <<hopper, hopping, startPc, captureEnded, disableBy>>

\* iw dev set type managed; killed at its timeout, it may have had its effect.
DisableType ==
  /\ stopPc = "setType"
  /\ \/ mode' = "managed" /\ stopPc' = "linkUp"
     \/ mode' = mode /\ stopPc' = "failed"
     \/ clock >= disableBy /\ mode' = "managed" /\ stopPc' = "failed"
  /\ UNCHANGED <<hopper, hopping, startPc, captureEnded, disableBy>>

\* ip link set up
DisableLink ==
  /\ stopPc = "linkUp"
  /\ stopPc' \in {"ok", "failed"}
  /\ UNCHANGED <<hopper, hopping, mode, startPc, captureEnded, disableBy>>

Stop == StopWait \/ DisableType \/ DisableLink

\* No command of Stop outlives disableCtx.
InTime == stopPc \in {"setType", "linkUp"} => clock < disableBy

--------------------------------------------------------------------------------
(* Properties. *)

\* While Stop disables monitor mode, and ever after, no channel switch is under
\* way, begun before the cancellation or after.
HopperQuiet ==
  stopPc \in {"setType", "linkUp", "ok", "failed"} =>
    hop \notin {"next", "set", "refused", "dwell"}
================================================================================
