------------------------------- MODULE FrameFlow -------------------------------
(***************************************************************************)
(* The path of a frame through the daemon, as main wires it when detection *)
(* and the state engine are both on: captureLoop -> frames -> fanOut ->    *)
(* detectorCh and stateCh -> the detection goroutine and                   *)
(* consumeStateFrames; and the alerts -> consumeAlerts -> storage.         *)
(* Two contexts end it: signalCtx (SIGINT, SIGTERM), and captureCtx, its   *)
(* child, which captureLoop also cancels when it returns.                  *)
(*                                                                         *)
(* A frame is its number in the order NextPacket returned it; an alert is  *)
(* the number of the frame that raised it and its own among those which    *)
(* the rules raise on that frame and emit does not suppress.               *)
(* DetectionEngine has the detail of emit, which is a single step here.    *)
(***************************************************************************)
EXTENDS Naturals, Sequences, SequencesExt

CONSTANTS
  MaxFrames,  \* frames the radio delivers
  FrameCap,   \* monitor.capture.frame_buffer_size, of all three frame channels
  AlertCap,   \* capacity of the alerts channel
  MaxEvents   \* alerts that all rules together raise on one frame

ASSUME FlowAssumption ==
  /\ MaxFrames \in Nat /\ MaxEvents \in Nat
  /\ FrameCap \in Nat \ {0} /\ AlertCap \in Nat \ {0}

VARIABLES
  signalDone, captureDone,     \* signalCtx and captureCtx are cancelled
  handleClosed,                \* the watcher has closed the pcap handle
  capPc, capFrame,             \* captureLoop and the frame it is sending
  read,                        \* number of the last frame read
  tickReady,                   \* a tick of parseErrTicker waits in its channel
  frames, framesClosed,        \* p.frames
  fanPc, fanFrame,             \* fanOut
  detCh, detClosed,            \* detectorCh
  detPc, detFrame, detEvents,  \* the detection goroutine, the frame it dispatches
                               \* and how many alerts that has raised
  stCh, stClosed, stPc,        \* stateCh and consumeStateFrames
  alerts, alertsClosed,        \* engine.Alerts()
  alPc, alEvent,               \* consumeAlerts
  \* history
  sent,                        \* frames sent on p.frames
  detSeen, stSeen,             \* frames taken to dispatch, frames given to ProcessFrame
  saved                        \* alerts stored

ctxs  == <<signalDone, captureDone, handleClosed>>
cap   == <<capPc, capFrame, read>>
src   == <<frames, framesClosed>>
fan   == <<fanPc, fanFrame>>
dispatch == <<detPc, detFrame, detEvents, detSeen>>
det   == <<detCh, detClosed, dispatch>>
st    == <<stCh, stClosed, stPc, stSeen>>
als   == <<alerts, alertsClosed>>
al    == <<alPc, alEvent, saved>>
vars  == <<ctxs, cap, tickReady, src, fan, det, st, als, al, sent>>

FrameIds == 1..MaxFrames

AlertIds == FrameIds \X (1..MaxEvents)

TypeOK ==
  /\ signalDone \in BOOLEAN /\ captureDone \in BOOLEAN /\ handleClosed \in BOOLEAN
  /\ capPc \in {"top", "read", "send", "close", "cancel", "done"}
  /\ capFrame \in 0..MaxFrames /\ read \in 0..MaxFrames
  /\ tickReady \in BOOLEAN
  /\ frames \in Seq(FrameIds) /\ Len(frames) <= FrameCap /\ framesClosed \in BOOLEAN
  /\ fanPc \in {"select", "det", "state", "closeDet", "closeState", "done"}
  /\ fanFrame \in 0..MaxFrames
  /\ detCh \in Seq(FrameIds) /\ Len(detCh) <= FrameCap /\ detClosed \in BOOLEAN
  /\ stCh \in Seq(FrameIds) /\ Len(stCh) <= FrameCap /\ stClosed \in BOOLEAN
  /\ detPc \in {"select", "dispatch", "done"} /\ stPc \in {"select", "done"}
  /\ detFrame \in 0..MaxFrames /\ detEvents \in 0..MaxEvents
  /\ alerts \in Seq(AlertIds) /\ Len(alerts) <= AlertCap /\ alertsClosed \in BOOLEAN
  /\ alPc \in {"select", "save", "insert", "done"}
  /\ alEvent \in (0..MaxFrames) \X (0..MaxEvents)
  /\ sent \in Seq(FrameIds)
  /\ detSeen \in Seq(FrameIds) /\ stSeen \in Seq(FrameIds)
  /\ saved \in Seq(AlertIds)

Init ==
  /\ signalDone = FALSE /\ captureDone = FALSE /\ handleClosed = FALSE
  /\ capPc = "top" /\ capFrame = 0 /\ read = 0
  /\ tickReady = FALSE
  /\ frames = << >> /\ framesClosed = FALSE
  /\ fanPc = "select" /\ fanFrame = 0
  /\ detCh = << >> /\ detClosed = FALSE /\ detPc = "select"
  /\ detFrame = 0 /\ detEvents = 0
  /\ stCh = << >> /\ stClosed = FALSE /\ stPc = "select"
  /\ alerts = << >> /\ alertsClosed = FALSE
  /\ alPc = "select" /\ alEvent = <<0, 0>>
  /\ sent = << >>
  /\ detSeen = << >> /\ stSeen = << >> /\ saved = << >>

--------------------------------------------------------------------------------
(* Contexts. *)

\* A signal cancels signalCtx and with it its child captureCtx.
Signal ==
  /\ ~signalDone
  /\ signalDone' = TRUE /\ captureDone' = TRUE
  /\ UNCHANGED <<handleClosed, cap, tickReady, src, fan, det, st, als, al, sent>>

\* The watcher goroutine of Start closes the handle to unblock NextPacket.
CloseHandle ==
  /\ captureDone /\ ~handleClosed
  /\ handleClosed' = TRUE
  /\ UNCHANGED <<signalDone, captureDone, cap, tickReady, src, fan, det, st, als, al,
                 sent>>

\* parseErrTicker (30s) fires; its channel holds one tick.
ParseErrTick ==
  /\ capPc \in {"top", "read", "send"}
  /\ ~tickReady /\ tickReady' = TRUE
  /\ UNCHANGED <<ctxs, cap, src, fan, det, st, als, al, sent>>

--------------------------------------------------------------------------------
(* captureLoop. *)

CapGoto(pc) == capPc' = pc /\ UNCHANGED <<capFrame, read>>

CapOnly == UNCHANGED <<fan, det, st, als, al>>

\* The check at the top of the loop.
CapTop ==
  /\ capPc = "top"
  /\ IF captureDone THEN CapGoto("close") ELSE CapGoto("read")
  /\ UNCHANGED <<ctxs, tickReady, src, sent>> /\ CapOnly

\* NextPacket timed out, or the packet did not parse or has an unknown type.
CapSkip ==
  /\ capPc = "read" /\ ~handleClosed
  /\ CapGoto("top")
  /\ UNCHANGED <<ctxs, tickReady, src, sent>> /\ CapOnly

\* NextPacket returned a frame that parses.
CapRead ==
  /\ capPc = "read" /\ ~handleClosed
  /\ read < MaxFrames
  /\ read' = read + 1 /\ capFrame' = read + 1 /\ capPc' = "send"
  /\ UNCHANGED <<ctxs, tickReady, src, sent>> /\ CapOnly

\* NextPacket failed, because the handle is closed or on its own.
CapError ==
  /\ capPc = "read"
  /\ CapGoto("close")
  /\ UNCHANGED <<ctxs, tickReady, src, sent>> /\ CapOnly

\* case p.frames <- frame
CapSend ==
  /\ capPc = "send" /\ Len(frames) < FrameCap
  /\ frames' = Append(frames, capFrame)
  /\ sent' = Append(sent, capFrame)
  /\ CapGoto("top")
  /\ UNCHANGED <<ctxs, tickReady, framesClosed>> /\ CapOnly

\* case <-ctx.Done()
CapAbort ==
  /\ capPc = "send" /\ captureDone
  /\ CapGoto("close")
  /\ UNCHANGED <<ctxs, tickReady, src, sent>> /\ CapOnly

\* case <-parseErrTicker.C: back to the top without the frame.
CapTicker ==
  /\ capPc = "send" /\ tickReady
  /\ tickReady' = FALSE
  /\ CapGoto("top")
  /\ UNCHANGED <<ctxs, src, sent>> /\ CapOnly

\* Deferred: stop the ticker and close(p.frames), then cancel().
CapClose ==
  /\ capPc = "close"
  /\ tickReady' = FALSE /\ framesClosed' = TRUE
  /\ CapGoto("cancel")
  /\ UNCHANGED <<ctxs, frames, sent>> /\ CapOnly

CapCancel ==
  /\ capPc = "cancel"
  /\ captureDone' = TRUE
  /\ CapGoto("done")
  /\ UNCHANGED <<signalDone, handleClosed, tickReady, src, sent>> /\ CapOnly

--------------------------------------------------------------------------------
(* fanOut. *)

FanOnly == UNCHANGED <<ctxs, cap, tickReady, als, al, sent>>

\* case frame := <-source
FanRecv ==
  /\ fanPc = "select" /\ frames # << >>
  /\ fanFrame' = Head(frames) /\ frames' = Tail(frames)
  /\ fanPc' = "det"
  /\ UNCHANGED <<framesClosed, det, st>> /\ FanOnly

\* Mutant: a full sink is skipped (select with a default).
FanSendDetDrop ==
  /\ fanPc = "det"
  /\ detCh' = IF Len(detCh) < FrameCap THEN Append(detCh, fanFrame) ELSE detCh
  /\ fanPc' = "state"
  /\ UNCHANGED <<fanFrame, src, detClosed, dispatch, st>> /\ FanOnly

\* Mutant: ctx.Done() leaves the inner select, not the loop over the sinks.
FanSendDetBreak ==
  /\ fanPc = "det"
  /\ \/ Len(detCh) < FrameCap /\ detCh' = Append(detCh, fanFrame)
     \/ signalDone /\ UNCHANGED detCh
  /\ fanPc' = "state"
  /\ UNCHANGED <<fanFrame, src, detClosed, dispatch, st>> /\ FanOnly

\* The sinks in order, each a select between the send and ctx.Done().
FanSendDet ==
  /\ fanPc = "det" /\ Len(detCh) < FrameCap
  /\ detCh' = Append(detCh, fanFrame)
  /\ fanPc' = "state"
  /\ UNCHANGED <<fanFrame, src, detClosed, dispatch, st>> /\ FanOnly

FanSendState ==
  /\ fanPc = "state" /\ Len(stCh) < FrameCap
  /\ stCh' = Append(stCh, fanFrame)
  /\ fanPc' = "select"
  /\ UNCHANGED <<fanFrame, src, stClosed, stPc, stSeen, det>> /\ FanOnly

\* Mutant: the sends to the sinks do not watch ctx.Done().
FanEndAtSelect ==
  /\ fanPc = "select" /\ (signalDone \/ (framesClosed /\ frames = << >>))
  /\ fanPc' = "closeDet"
  /\ UNCHANGED <<fanFrame, src, det, st>> /\ FanOnly

\* Cancelled anywhere, or the source is closed and empty.
FanEnd ==
  /\ \/ fanPc \in {"select", "det", "state"} /\ signalDone
     \/ fanPc = "select" /\ framesClosed /\ frames = << >>
  /\ fanPc' = "closeDet"
  /\ UNCHANGED <<fanFrame, src, det, st>> /\ FanOnly

\* Deferred: close every sink.
FanCloseDet ==
  /\ fanPc = "closeDet"
  /\ detClosed' = TRUE /\ fanPc' = "closeState"
  /\ UNCHANGED <<fanFrame, src, detCh, dispatch, st>> /\ FanOnly

FanCloseState ==
  /\ fanPc = "closeState"
  /\ stClosed' = TRUE /\ fanPc' = "done"
  /\ UNCHANGED <<fanFrame, src, stCh, stPc, stSeen, det>> /\ FanOnly

--------------------------------------------------------------------------------
(* The consumers. *)

\* case frame := <-frames
DetRecv ==
  /\ detPc = "select" /\ detCh # << >>
  /\ detFrame' = Head(detCh) /\ detCh' = Tail(detCh)
  /\ detSeen' = Append(detSeen, Head(detCh))
  /\ detPc' = "dispatch"
  /\ UNCHANGED <<ctxs, cap, tickReady, src, fan, detClosed, detEvents, st, als, al, sent>>

\* A rule raises one more alert on the frame; the channel may be full, and then the
\* alert is gone.  No signal interrupts a dispatch.
DetEmit ==
  /\ detPc = "dispatch" /\ detEvents < MaxEvents
  /\ detEvents' = detEvents + 1
  /\ alerts' = IF Len(alerts) < AlertCap THEN Append(alerts, <<detFrame, detEvents + 1>>)
                                        ELSE alerts
  /\ UNCHANGED <<ctxs, cap, tickReady, src, fan, detCh, detClosed, detPc, detFrame,
                 detSeen, st, alertsClosed, al, sent>>

\* Every rule has seen the frame.
DetNext ==
  /\ detPc = "dispatch"
  /\ detPc' = "select"
  /\ detFrame' = 0 /\ detEvents' = 0
  /\ UNCHANGED <<ctxs, cap, tickReady, src, fan, detCh, detClosed, detSeen, st, als, al,
                 sent>>

DetEnd ==
  /\ detPc = "select"
  /\ signalDone \/ (detClosed /\ detCh = << >>)
  /\ detPc' = "done" /\ alertsClosed' = TRUE
  /\ UNCHANGED <<ctxs, cap, tickReady, src, fan, detCh, detClosed, detFrame, detEvents,
                 detSeen, st, alerts, al, sent>>

\* consumeStateFrames
StRecv ==
  /\ stPc = "select" /\ stCh # << >>
  /\ stCh' = Tail(stCh) /\ stSeen' = Append(stSeen, Head(stCh))
  /\ UNCHANGED <<ctxs, cap, tickReady, src, fan, det, stClosed, stPc, als, al, sent>>

\* Mutant: the consumer leaves what is still in the closed channel.
StEndEarly ==
  /\ stPc = "select"
  /\ signalDone \/ stClosed
  /\ stPc' = "done"
  /\ UNCHANGED <<ctxs, cap, tickReady, src, fan, det, stCh, stClosed, stSeen, als, al,
                 sent>>

StEnd ==
  /\ stPc = "select"
  /\ signalDone \/ (stClosed /\ stCh = << >>)
  /\ stPc' = "done"
  /\ UNCHANGED <<ctxs, cap, tickReady, src, fan, det, stCh, stClosed, stSeen, als, al,
                 sent>>

\* consumeAlerts logs and publishes the alert, then stores it.
AlRecv ==
  /\ alPc = "select" /\ alerts # << >>
  /\ alEvent' = Head(alerts) /\ alerts' = Tail(alerts)
  /\ alPc' = "save"
  /\ UNCHANGED <<ctxs, cap, tickReady, src, fan, det, st, alertsClosed, saved, sent>>

\* Mutant: SaveEvent works on a context of its own, which no signal cancels.
AlSaveDetached ==
  /\ alPc = "save"
  /\ alPc' = "insert"
  /\ UNCHANGED <<ctxs, cap, tickReady, src, fan, det, st, als, alEvent, saved, sent>>

\* SaveEvent works on signalCtx: ExecContext fails at once when that is cancelled.
AlSave ==
  /\ alPc = "save"
  /\ IF signalDone THEN alPc' = "select" /\ alEvent' = <<0, 0>>
                   ELSE alPc' = "insert" /\ UNCHANGED alEvent
  /\ UNCHANGED <<ctxs, cap, tickReady, src, fan, det, st, als, saved, sent>>

\* The insert is done or fails, for a signal that comes now as for anything else;
\* either way the loop goes on.
AlInsert ==
  /\ alPc = "insert"
  /\ saved' = Append(saved, alEvent) \/ saved' = saved
  /\ alPc' = "select" /\ alEvent' = <<0, 0>>
  /\ UNCHANGED <<ctxs, cap, tickReady, src, fan, det, st, als, sent>>

AlEnd ==
  /\ alPc = "select"
  /\ signalDone \/ (alertsClosed /\ alerts = << >>)
  /\ alPc' = "done"
  /\ UNCHANGED <<ctxs, cap, tickReady, src, fan, det, st, als, alEvent, saved, sent>>

--------------------------------------------------------------------------------
Capture == CapTop \/ CapSkip \/ CapRead \/ CapError \/ CapSend \/ CapAbort
           \/ CapTicker \/ CapClose \/ CapCancel
FanOut == FanRecv \/ FanSendDet \/ FanSendState \/ FanEnd \/ FanCloseDet \/ FanCloseState
Detector == DetRecv \/ DetEmit \/ DetNext \/ DetEnd
StateConsumer == StRecv \/ StEnd
AlertConsumer == AlRecv \/ AlSave \/ AlInsert \/ AlEnd

AllDone ==
  /\ capPc = "done" /\ fanPc = "done" /\ detPc = "done"
  /\ stPc = "done" /\ alPc = "done"

\* main has returned from sm.Shutdown; nothing is left to run.
Finished == AllDone /\ signalDone /\ UNCHANGED vars

Next ==
  \/ Signal \/ CloseHandle \/ ParseErrTick
  \/ CapTop \/ CapSkip \/ CapRead \/ CapError \/ CapSend \/ CapAbort
  \/ CapTicker \/ CapClose \/ CapCancel
  \/ FanRecv \/ FanSendDet \/ FanSendState \/ FanEnd \/ FanCloseDet \/ FanCloseState
  \/ DetRecv \/ DetEmit \/ DetNext \/ DetEnd \/ StRecv \/ StEnd
  \/ AlRecv \/ AlSave \/ AlInsert \/ AlEnd
  \/ Finished

Spec == Init /\ [][Next]_vars

\* Goroutines that can run do run.  No packet, signal or tick need ever come,
\* but a closed handle does fail the read that is waiting on it.
FairSpec ==
  /\ Spec
  /\ WF_vars(CloseHandle)
  /\ WF_vars(CapTop) /\ WF_vars(handleClosed /\ CapError)
  /\ WF_vars(CapSend \/ CapAbort \/ CapTicker) /\ WF_vars(CapClose \/ CapCancel)
  /\ WF_vars(FanOut) /\ WF_vars(Detector) /\ WF_vars(StateConsumer)
  /\ WF_vars(AlertConsumer)

--------------------------------------------------------------------------------
(* Properties. *)

\* The frame fanOut holds, as long as sink s has not got it.
InHand(s) == IF fanPc \in s THEN <<fanFrame>> ELSE << >>

\* Until a signal comes, every frame sent on p.frames is in exactly one place on
\* its way to each of the two consumers, in the order of capture.
FramesConserved ==
  ~signalDone =>
    /\ sent = detSeen \o detCh \o InHand({"det"}) \o frames
    /\ sent = stSeen \o stCh \o InHand({"det", "state"}) \o frames

\* Whatever the shutdown cuts off, the state engine has got a prefix of what the
\* detector got, and that is a prefix of what was captured.
SinksAgree ==
  /\ IsPrefix(stSeen \o stCh, detSeen \o detCh)
  /\ IsPrefix(detSeen \o detCh, sent)

\* When capture ends by itself (a read error), everything behind it drains: both
\* consumers have seen every frame sent and every alert in the channel was taken.
CaptureEndDrains ==
  AllDone /\ ~signalDone =>
    detSeen = sent /\ stSeen = sent /\ alerts = << >>

\* What has reached the sinks and the database.
Reached == [s \in {"detector", "state"} |-> IF s = "detector" THEN detSeen ELSE stSeen]

SinksDone ==
  {s \in {"detector", "state"} : IF s = "detector" THEN detPc = "done" ELSE stPc = "done"}

\* The alert whose insert is under way.
Writing == IF alPc = "insert" THEN {alEvent} ELSE {}

D == INSTANCE Delivery WITH
       Frames <- FrameIds, Events <- 1..MaxEvents,
       closed <- framesClosed, cut <- signalDone,
       got <- Reached, ended <- SinksDone, writing <- Writing, stored <- saved

\* Channels, fan-out and goroutines together are two followers of one stream: each
\* gets every frame in turn and ends before the end of the stream only for a signal;
\* and of the alerts, several a frame, each is stored at most once, in the order in
\* which they were raised, and after a signal at most the one under way.
Delivers == D!Spec

\* A signal ends every goroutine, however full the channels are, and so does the
\* end of capture, although signalCtx is still alive.
AllStop == signalDone \/ framesClosed ~> AllDone
================================================================================
