----------------------------- MODULE FrameFlowProofs -----------------------------
(***************************************************************************)
(* Proofs about FrameFlow for every number of frames and of alerts raised  *)
(* on a frame, and all channel capacities.                                 *)
(***************************************************************************)
EXTENDS FrameFlow, SequenceTheorems, TLAPS

\* Receiving moves the head of a channel behind what was received before.
LEMMA MoveHead ==
  ASSUME NEW S, NEW s \in Seq(S), NEW t \in Seq(S), t # << >>
  PROVE  Append(s, Head(t)) \o Tail(t) = s \o t
OBVIOUS

\* The same with the head in hand in between.
LEMMA HeadInHand ==
  ASSUME NEW S, NEW s \in Seq(S), NEW t \in Seq(S), t # << >>
  PROVE  (s \o <<Head(t)>>) \o Tail(t) = s \o t
OBVIOUS

\* Sending to a channel appends to the concatenation it ends.
LEMMA AppendConcat ==
  ASSUME NEW S, NEW s \in Seq(S), NEW t \in Seq(S), NEW e \in S
  PROVE  /\ s \o Append(t, e) = Append(s \o t, e)
         /\ s \o Append(t, e) = (s \o t) \o <<e>>
OBVIOUS

\* A sequence is a prefix of itself and of any concatenation that it begins.
LEMMA PrefixOfConcat ==
  ASSUME NEW S, NEW s \in Seq(S), NEW t \in Seq(S)
  PROVE  IsPrefix(s, s \o t) /\ IsPrefix(s, s)
<1>1. /\ Len(s) \in Nat /\ Len(t) \in Nat
      /\ s \o t \in Seq(S)
      /\ Len(s \o t) = Len(s) + Len(t)
      /\ \A i \in 1..Len(s) : (s \o t)[i] = s[i]
  OBVIOUS
<1>2. SubSeq(s, 1, Len(s)) = SubSeq(s \o t, 1, Len(s))
  BY <1>1
<1> QED
  BY <1>1, <1>2 DEF IsPrefix

\* A prefix stays one when the longer sequence grows.
LEMMA PrefixGrows ==
  ASSUME NEW S, NEW s \in Seq(S), NEW t \in Seq(S), NEW e \in S, IsPrefix(s, t)
  PROVE  IsPrefix(s, Append(t, e))
<1>1. /\ Len(s) \in Nat /\ Len(t) \in Nat /\ Len(s) <= Len(t)
      /\ Len(Append(t, e)) = Len(t) + 1
      /\ \A i \in 1..Len(s) : Append(t, e)[i] = t[i]
  BY DEF IsPrefix
<1>2. SubSeq(t, 1, Len(s)) = SubSeq(Append(t, e), 1, Len(s))
  BY <1>1
<1> QED
  BY <1>1, <1>2 DEF IsPrefix

--------------------------------------------------------------------------------
(* Types. *)

\* Taking from a channel and adding to one.
LEMMA ReceiveType ==
  ASSUME NEW S, NEW q \in Seq(S), q # << >>
  PROVE  /\ Head(q) \in S /\ Tail(q) \in Seq(S)
         /\ Len(q) \in Nat /\ Len(Tail(q)) = Len(q) - 1
OBVIOUS

\* A send makes a channel longer by one element.
LEMMA SendType ==
  ASSUME NEW S, NEW q \in Seq(S), NEW e \in S
  PROVE  /\ Append(q, e) \in Seq(S)
         /\ Len(q) \in Nat /\ Len(Append(q, e)) = Len(q) + 1
OBVIOUS

\* What is in hand is a frame.
HandInv ==
  /\ capPc = "send" => capFrame \in FrameIds
  /\ fanPc \in {"det", "state"} => fanFrame \in FrameIds
  /\ detPc = "dispatch" => detFrame \in FrameIds
  /\ alPc \in {"save", "insert"} => alEvent \in AlertIds

TypeInv == TypeOK /\ HandInv

\* What consumeAlerts holds between two alerts.
LEMMA NoEventType == <<0, 0>> \in (0..MaxFrames) \X (0..MaxEvents)
BY FlowAssumption

\* The initial state is well typed.
LEMMA InitType == Init => TypeInv
<1> SUFFICES ASSUME Init PROVE TypeInv
  OBVIOUS
<1>1. << >> \in Seq(FrameIds) /\ << >> \in Seq(AlertIds) /\ Len(<< >>) = 0
  OBVIOUS
<1>2. 0 \in 0..MaxFrames /\ 0 \in 0..MaxEvents /\ 0 <= FrameCap /\ 0 <= AlertCap
  BY FlowAssumption
<1>3. TypeOK
  BY <1>1, <1>2, NoEventType DEF Init, TypeOK
<1> QED
  BY <1>3 DEF Init, TypeInv, HandInv

\* The steps of captureLoop and of the contexts keep the types.
LEMMA CaptureType ==
  ASSUME TypeInv, Signal \/ CloseHandle \/ ParseErrTick \/ Capture
  PROVE  TypeInv'
<1> USE FlowAssumption
    DEF TypeInv, TypeOK, HandInv, ctxs, cap, src, fan, det, dispatch, st, als, al,
        CapOnly, CapGoto
<1>1. CASE Signal
  BY <1>1 DEF Signal
<1>2. CASE CloseHandle
  BY <1>2 DEF CloseHandle
<1>3. CASE ParseErrTick
  BY <1>3 DEF ParseErrTick
<1>4. CASE CapTop
  <2>1. /\ capPc' \in {"close", "read"}
        /\ UNCHANGED <<ctxs, capFrame, read, tickReady, src, fan, det, st, als, al, sent>>
    BY <1>4 DEF CapTop
  <2>2. /\ capPc' \in {"top", "read", "send", "close", "cancel", "done"}
        /\ capPc' # "send"
    BY <2>1
  <2> QED
    BY <2>1, <2>2
<1>5. CASE CapSkip
  BY <1>5 DEF CapSkip
<1>6. CASE CapRead
  BY <1>6 DEF CapRead, FrameIds
<1>7. CASE CapError
  BY <1>7 DEF CapError
<1>8. CASE CapSend
  BY <1>8, SendType DEF CapSend
<1>9. CASE CapAbort
  BY <1>9 DEF CapAbort
<1>10. CASE CapTicker
  <2>2. /\ capPc' = "top" /\ tickReady' = FALSE
        /\ UNCHANGED <<ctxs, capFrame, read, src, fan, det, st, als, al, sent>>
    BY <1>10 DEF CapTicker
  <2>3. /\ tickReady' \in BOOLEAN
        /\ capPc' \in {"top", "read", "send", "close", "cancel", "done"}
        /\ capPc' # "send" /\ UNCHANGED <<capFrame, read>>
    BY <2>2
  <2>4. UNCHANGED <<ctxs, src, fan, det, st, als, al, sent>>
    BY <2>2
  <2> QED
    BY <2>3, <2>4
<1>11. CASE CapClose
  <2>1. /\ capPc' = "cancel" /\ tickReady' = FALSE /\ framesClosed' = TRUE
        /\ UNCHANGED <<ctxs, capFrame, read, frames, fan, det, st, als, al, sent>>
    BY <1>11 DEF CapClose
  <2>2. /\ capPc' \in {"top", "read", "send", "close", "cancel", "done"}
        /\ capPc' # "send" /\ tickReady' \in BOOLEAN /\ framesClosed' \in BOOLEAN
    BY <2>1
  <2>3. UNCHANGED <<ctxs, capFrame, read, frames, fan, det, st, als, al, sent>>
    BY <2>1
  <2> QED
    BY <2>2, <2>3
<1>12. CASE CapCancel
  BY <1>12 DEF CapCancel
<1> QED
  BY <1>1, <1>2, <1>3, <1>4, <1>5, <1>6, <1>7, <1>8, <1>9, <1>10, <1>11, <1>12
  DEF Capture

\* The steps of fanOut keep the types.
LEMMA FanOutType ==
  ASSUME TypeInv, FanOut
  PROVE  TypeInv'
<1> USE FlowAssumption
    DEF TypeInv, TypeOK, HandInv, ctxs, cap, src, fan, det, dispatch, st, als, al, FanOnly
<1>1. CASE FanRecv
  <2>1. Head(frames) \in FrameIds /\ frames' \in Seq(FrameIds) /\ Len(frames') <= FrameCap
    BY <1>1, ReceiveType DEF FanRecv
  <2>2. fanFrame' \in FrameIds /\ fanFrame' \in 0..MaxFrames
    <3>1. fanFrame' = Head(frames)
      BY <1>1 DEF FanRecv
    <3> QED
      BY SMTT(30), <2>1, <3>1 DEF FrameIds
  <2> QED
    BY SMTT(30), <1>1, <2>1, <2>2 DEF FanRecv
<1>2. CASE FanSendDet
  BY <1>2, SendType DEF FanSendDet
<1>3. CASE FanSendState
  BY <1>3, SendType DEF FanSendState
<1>4. CASE FanEnd
  BY <1>4 DEF FanEnd
<1>5. CASE FanCloseDet
  BY <1>5 DEF FanCloseDet
<1>6. CASE FanCloseState
  BY <1>6 DEF FanCloseState
<1> QED
  BY <1>1, <1>2, <1>3, <1>4, <1>5, <1>6 DEF FanOut

\* An alert is a pair that consumeAlerts can hold.
LEMMA AlertIdsType == AlertIds \subseteq (0..MaxFrames) \X (0..MaxEvents)
<1>1. FrameIds \subseteq 0..MaxFrames /\ 1..MaxEvents \subseteq 0..MaxEvents
  BY FlowAssumption DEF FrameIds
<1> QED
  BY <1>1 DEF AlertIds

\* The steps of the consumers keep the types.
LEMMA ConsumerType ==
  ASSUME TypeInv, Detector \/ StateConsumer \/ AlertConsumer
  PROVE  TypeInv'
<1> USE FlowAssumption
    DEF TypeInv, TypeOK, HandInv, ctxs, cap, src, fan, det, dispatch, st, als, al
<1>1. CASE DetRecv
  <2>1. Head(detCh) \in FrameIds /\ detCh' \in Seq(FrameIds) /\ Len(detCh') <= FrameCap
    BY <1>1, ReceiveType DEF DetRecv
  <2>2. detSeen' \in Seq(FrameIds)
    BY <1>1, <2>1, SendType DEF DetRecv
  <2>3. detFrame' \in FrameIds /\ detFrame' \in 0..MaxFrames
    <3>1. detFrame' = Head(detCh)
      BY <1>1 DEF DetRecv
    <3> QED
      BY SMTT(30), <2>1, <3>1 DEF FrameIds
  <2>4. TypeOK'
    BY SMTT(30), <1>1, <2>1, <2>2, <2>3 DEF DetRecv
  <2>5. HandInv'
    BY <1>1, <2>3 DEF DetRecv
  <2> QED
    BY <2>4, <2>5
<1>8. CASE DetEmit
  <2>1. detEvents' \in 1..MaxEvents /\ detEvents' \in 0..MaxEvents
    BY <1>8 DEF DetEmit
  <2>2. <<detFrame, detEvents + 1>> \in AlertIds
    BY <1>8, <2>1 DEF DetEmit, AlertIds
  <2>3. alerts' \in Seq(AlertIds) /\ Len(alerts') <= AlertCap
    <3>1. CASE Len(alerts) < AlertCap
      BY <1>8, <3>1, <2>2, SendType DEF DetEmit
    <3>2. CASE ~(Len(alerts) < AlertCap)
      BY <1>8, <3>2 DEF DetEmit
    <3> QED
      BY <3>1, <3>2
  <2>4. TypeOK'
    BY <1>8, <2>1, <2>3 DEF DetEmit
  <2>5. HandInv'
    BY <1>8 DEF DetEmit
  <2> QED
    BY <2>4, <2>5
<1>9. CASE DetNext
  BY <1>9 DEF DetNext
<1>2. CASE DetEnd
  BY <1>2 DEF DetEnd
<1>3. CASE StRecv
  BY <1>3, ReceiveType, SendType DEF StRecv
<1>4. CASE StEnd
  BY <1>4 DEF StEnd
<1>5. CASE AlRecv
  <2>1. Head(alerts) \in AlertIds /\ alerts' \in Seq(AlertIds) /\ Len(alerts') <= AlertCap
    BY <1>5, ReceiveType DEF AlRecv
  <2>2. alEvent' \in AlertIds /\ alEvent' \in (0..MaxFrames) \X (0..MaxEvents)
    BY <1>5, <2>1, AlertIdsType DEF AlRecv
  <2>3. /\ alPc' = "save"
        /\ UNCHANGED <<ctxs, cap, tickReady, src, fan, det, st, alertsClosed, saved, sent>>
    BY <1>5 DEF AlRecv
  <2>4. TypeOK'
    BY <2>1, <2>2, <2>3
  <2>5. HandInv'
    BY <2>2, <2>3
  <2> QED
    BY <2>4, <2>5
<1>6. CASE AlSave
  BY SMTT(30), <1>6, NoEventType DEF AlSave
<1>10. CASE AlInsert
  <2>1. saved' \in Seq(AlertIds)
    BY <1>10, SendType DEF AlInsert
  <2> QED
    BY <1>10, <2>1, NoEventType DEF AlInsert
<1>7. CASE AlEnd
  BY <1>7 DEF AlEnd
<1> QED
  BY <1>1, <1>2, <1>3, <1>4, <1>5, <1>6, <1>7, <1>8, <1>9, <1>10
  DEF Detector, StateConsumer, AlertConsumer

\* Next, its disjuncts grouped by the goroutine that takes them.
LEMMA NextByGoroutine ==
  [Next]_vars =>
    \/ Signal \/ CloseHandle \/ ParseErrTick \/ Capture
    \/ FanOut
    \/ Detector \/ StateConsumer \/ AlertConsumer
    \/ UNCHANGED vars
BY DEF Next, Finished, Capture, FanOut, Detector, StateConsumer, AlertConsumer

\* Every step keeps the types.
LEMMA StepType == TypeInv /\ [Next]_vars => TypeInv'
<1>1. TypeInv /\ UNCHANGED vars => TypeInv'
  BY DEF TypeInv, TypeOK, HandInv, vars, ctxs, cap, src, fan, det, dispatch, st, als, al
<1> QED
  BY <1>1, NextByGoroutine, CaptureType, FanOutType, ConsumerType

\* Every goroutine holds what the point it has reached in the code needs.
THEOREM TypeInvariance == Spec => []TypeInv
BY InitType, StepType, PTL DEF Spec

\* The goroutines, channels and contexts stay well typed; no channel ever holds
\* more than its capacity.
THEOREM TypeCorrect == Spec => []TypeOK
<1>1. TypeInv => TypeOK
  BY DEF TypeInv
<1> QED
  BY <1>1, TypeInvariance, PTL

--------------------------------------------------------------------------------
(* Where the frames are. *)

\* What each consumer has got or will get from its channel.
ToDetector == detSeen \o detCh
ToState    == stSeen \o stCh

\* While fanOut runs, every frame sent is behind its place in the order of the
\* sinks; once it has ended, what it left behind is a suffix.
FlowInv ==
  /\ fanPc \in {"select", "state"} => sent = ToDetector \o frames
  /\ fanPc = "det" => sent = (ToDetector \o <<fanFrame>>) \o frames
  /\ fanPc \in {"select", "det"} => ToDetector = ToState
  /\ fanPc = "state" => ToDetector = ToState \o <<fanFrame>>
  /\ IsPrefix(ToState, ToDetector)
  /\ IsPrefix(ToDetector, sent)

\* Who closes what, and what has ended without a signal has drained its source.
DrainInv ==
  /\ framesClosed => capPc \in {"cancel", "done"}
  /\ detClosed => fanPc \in {"closeState", "done"}
  /\ stClosed => fanPc = "done"
  /\ alertsClosed => detPc = "done"
  /\ ~signalDone =>
       /\ fanPc \in {"closeDet", "closeState", "done"} =>
            /\ framesClosed /\ frames = << >>
            /\ ToDetector = sent /\ ToState = sent
       /\ detPc = "done" => detClosed /\ detCh = << >>
       /\ stPc = "done" => stClosed /\ stCh = << >>
       /\ alPc = "done" => alertsClosed /\ alerts = << >>

\* The concatenations are sequences of frames.
LEMMA FlowType ==
  ASSUME TypeInv
  PROVE  /\ ToDetector \in Seq(FrameIds) /\ ToState \in Seq(FrameIds)
         /\ frames \in Seq(FrameIds) /\ sent \in Seq(FrameIds)
         /\ detCh \in Seq(FrameIds) /\ stCh \in Seq(FrameIds)
         /\ detSeen \in Seq(FrameIds) /\ stSeen \in Seq(FrameIds)
BY DEF TypeInv, TypeOK, ToDetector, ToState

\* The prefixes that the equations imply.
LEMMA PrefixOfEquation ==
  ASSUME NEW S, NEW s \in Seq(S), NEW t \in Seq(S), NEW e \in S
  PROVE  /\ IsPrefix(s, (s \o <<e>>) \o t)
         /\ IsPrefix(s, s \o <<e>>)
<1>1. <<e>> \in Seq(S) /\ <<e>> \o t \in Seq(S)
  OBVIOUS
<1>2. (s \o <<e>>) \o t = s \o (<<e>> \o t)
  BY <1>1, ConcatAssociative
<1> QED
  BY <1>1, <1>2, PrefixOfConcat

\* A frame sent on p.frames joins both ends.
LEMMA SendFlow ==
  ASSUME TypeInv, TypeInv', FlowInv, CapSend
  PROVE  FlowInv'
<1>1. /\ frames' = Append(frames, capFrame) /\ sent' = Append(sent, capFrame)
      /\ capFrame \in FrameIds
      /\ UNCHANGED <<fanPc, fanFrame, detSeen, detCh, stSeen, stCh>>
  BY DEF CapSend, CapOnly, fan, det, dispatch, st, TypeInv, HandInv
<1>2. ToDetector' = ToDetector /\ ToState' = ToState
  BY <1>1 DEF ToDetector, ToState
<1>3. /\ ToDetector \in Seq(FrameIds) /\ ToState \in Seq(FrameIds)
      /\ frames \in Seq(FrameIds) /\ sent \in Seq(FrameIds)
  BY FlowType
<1>4. fanPc = "det" => ToDetector \o <<fanFrame>> \in Seq(FrameIds)
  BY <1>3 DEF TypeInv, HandInv
<1>5. fanPc \in {"select", "state"} => sent' = ToDetector \o frames'
  <2>1. ToDetector \o frames' = Append(ToDetector \o frames, capFrame)
    BY <1>1, <1>3, AppendConcat
  <2> QED
    BY <1>1, <2>1 DEF FlowInv
<1>6. fanPc = "det" => sent' = (ToDetector \o <<fanFrame>>) \o frames'
  <2>1. fanPc = "det" => (ToDetector \o <<fanFrame>>) \o frames'
                           = Append((ToDetector \o <<fanFrame>>) \o frames, capFrame)
    BY SMTT(30), <1>1, <1>3, <1>4, AppendConcat
  <2> QED
    BY <1>1, <2>1 DEF FlowInv
<1>7. IsPrefix(ToDetector, sent')
  BY <1>1, <1>3, PrefixGrows DEF FlowInv
<1> QED
  BY <1>1, <1>2, <1>5, <1>6, <1>7 DEF FlowInv

\* A consumer that receives takes from its channel what it adds to its record.
LEMMA ReceiveFlow ==
  ASSUME TypeInv, DetRecv \/ StRecv
  PROVE  ToDetector' = ToDetector /\ ToState' = ToState
<1>1. CASE DetRecv
  BY <1>1, MoveHead, FlowType DEF DetRecv, ToDetector, ToState, st
<1>2. CASE StRecv
  BY <1>2, MoveHead, FlowType DEF StRecv, ToDetector, ToState, det, dispatch
<1> QED
  BY <1>1, <1>2

\* fanOut takes a frame and passes it on, one sink at a time.
LEMMA FanFlow ==
  ASSUME TypeInv, TypeInv', FlowInv, FanRecv \/ FanSendDet \/ FanSendState
  PROVE  FlowInv'
<1>1. /\ ToDetector \in Seq(FrameIds) /\ ToState \in Seq(FrameIds)
      /\ frames \in Seq(FrameIds) /\ sent \in Seq(FrameIds)
      /\ detCh \in Seq(FrameIds) /\ stCh \in Seq(FrameIds)
      /\ detSeen \in Seq(FrameIds) /\ stSeen \in Seq(FrameIds)
  BY FlowType
<1>2. CASE FanRecv
  <2>1. /\ fanPc = "select" /\ fanPc' = "det" /\ frames # << >>
        /\ fanFrame' = Head(frames) /\ frames' = Tail(frames) /\ sent' = sent
        /\ ToDetector' = ToDetector /\ ToState' = ToState
    BY <1>2 DEF FanRecv, FanOnly, det, dispatch, st, ToDetector, ToState
  <2>2. sent = ToDetector \o frames /\ ToDetector = ToState
    BY <2>1 DEF FlowInv
  <2>3. sent' = (ToDetector' \o <<fanFrame'>>) \o frames'
    BY <1>1, <2>1, <2>2, HeadInHand
  <2>4. IsPrefix(ToState', ToDetector') /\ IsPrefix(ToDetector', sent')
    BY <1>1, <2>1, <2>2, PrefixOfConcat
  <2> QED
    BY <2>1, <2>2, <2>3, <2>4 DEF FlowInv
<1>3. CASE FanSendDet
  <2>1. /\ fanPc = "det" /\ fanPc' = "state" /\ fanFrame \in FrameIds
        /\ detCh' = Append(detCh, fanFrame)
        /\ UNCHANGED <<fanFrame, frames, sent, detSeen, stSeen, stCh>>
    BY <1>3 DEF FanSendDet, FanOnly, src, st, dispatch, TypeInv, HandInv
  <2>2. ToDetector' = ToDetector \o <<fanFrame>> /\ ToState' = ToState
    <3>1. detSeen \o Append(detCh, fanFrame) = (detSeen \o detCh) \o <<fanFrame>>
      BY SMTT(30), <1>1, <2>1, AppendConcat
    <3> QED
      BY <2>1, <3>1 DEF ToDetector, ToState
  <2>3. sent = (ToDetector \o <<fanFrame>>) \o frames /\ ToDetector = ToState
    BY <2>1 DEF FlowInv
  <2>4. ToDetector' \in Seq(FrameIds)
    BY <1>1, <2>1, <2>2
  <2>5. IsPrefix(ToState', ToDetector') /\ IsPrefix(ToDetector', sent')
    BY <1>1, <2>1, <2>2, <2>3, <2>4, PrefixOfEquation, PrefixOfConcat
  <2> QED
    BY <2>1, <2>2, <2>3, <2>5 DEF FlowInv
<1>4. CASE FanSendState
  <2>1. /\ fanPc = "state" /\ fanPc' = "select" /\ fanFrame \in FrameIds
        /\ stCh' = Append(stCh, fanFrame)
        /\ UNCHANGED <<fanFrame, frames, sent, detSeen, detCh, stSeen>>
    BY <1>4 DEF FanSendState, FanOnly, src, det, dispatch, TypeInv, HandInv
  <2>2. ToState' = ToState \o <<fanFrame>> /\ ToDetector' = ToDetector
    <3>1. stSeen \o Append(stCh, fanFrame) = (stSeen \o stCh) \o <<fanFrame>>
      BY SMTT(30), <1>1, <2>1, AppendConcat
    <3> QED
      BY <2>1, <3>1 DEF ToDetector, ToState
  <2>3. sent = ToDetector \o frames /\ ToDetector = ToState \o <<fanFrame>>
    BY <2>1 DEF FlowInv
  <2>4. IsPrefix(ToState', ToDetector') /\ IsPrefix(ToDetector', sent')
    BY <1>1, <2>1, <2>2, <2>3, PrefixOfConcat
  <2> QED
    BY <2>1, <2>2, <2>3, <2>4 DEF FlowInv
<1> QED
  BY <1>2, <1>3, <1>4

\* Every step keeps the order of the frames.
LEMMA StepFlow ==
  ASSUME TypeInv, TypeInv', FlowInv, [Next]_vars
  PROVE  FlowInv'
<1>1. CASE CapSend
  BY <1>1, SendFlow
<1>2. CASE FanRecv \/ FanSendDet \/ FanSendState
  BY <1>2, FanFlow
<1>3. CASE DetRecv \/ StRecv
  <2>1. UNCHANGED <<fanPc, fanFrame, frames, sent>>
    BY <1>3 DEF DetRecv, StRecv, fan, src
  <2>2. ToDetector' = ToDetector /\ ToState' = ToState
    BY <1>3, ReceiveFlow
  <2> QED
    BY <2>1, <2>2 DEF FlowInv
<1>4. CASE FanEnd \/ FanCloseDet \/ FanCloseState
  <2>1. /\ fanPc' \in {"closeDet", "closeState", "done"}
        /\ UNCHANGED <<detCh, detSeen, stCh, stSeen, frames, sent>>
    BY <1>4 DEF FanEnd, FanCloseDet, FanCloseState, FanOnly, src, det, dispatch, st
  <2> QED
    BY <2>1 DEF FlowInv, ToDetector, ToState
<1>5. CASE UNCHANGED <<fanPc, fanFrame, frames, sent, detCh, detSeen, stCh, stSeen>>
  BY <1>5 DEF FlowInv, ToDetector, ToState
<1>6. Signal \/ CloseHandle \/ ParseErrTick
        => UNCHANGED <<fanPc, fanFrame, frames, sent, detCh, detSeen, stCh, stSeen>>
  BY DEF Signal, CloseHandle, ParseErrTick, fan, src, det, dispatch, st
<1>7. Capture => CapSend \/ UNCHANGED <<fanPc, fanFrame, frames, sent,
                                        detCh, detSeen, stCh, stSeen>>
  BY DEF Capture, CapTop, CapSkip, CapRead, CapError, CapAbort, CapTicker, CapClose,
         CapCancel, CapOnly, fan, src, det, dispatch, st
<1>8. DetEmit \/ DetNext \/ DetEnd \/ StEnd \/ AlertConsumer
        => UNCHANGED <<fanPc, fanFrame, frames, sent, detCh, detSeen, stCh, stSeen>>
  BY DEF DetEmit, DetNext, DetEnd, StEnd, AlertConsumer, AlRecv, AlSave, AlInsert, AlEnd,
         fan, src, det, dispatch, st
<1>9. UNCHANGED vars
        => UNCHANGED <<fanPc, fanFrame, frames, sent, detCh, detSeen, stCh, stSeen>>
  BY DEF vars, fan, src, det, dispatch, st
<1> QED
  BY <1>1, <1>2, <1>3, <1>4, <1>5, <1>6, <1>7, <1>8, <1>9, NextByGoroutine
  DEF FanOut, Detector, StateConsumer

\* fanOut ends by itself only when its source is closed and empty, and then has
\* passed everything on.
LEMMA FanDrain ==
  ASSUME TypeInv, FlowInv, DrainInv, FanOut
  PROVE  DrainInv'
<1> USE DEF FanOnly, ctxs, cap, src, det, dispatch, st, als, al
<1>1. CASE FanRecv \/ FanSendDet \/ FanSendState
  BY <1>1 DEF FanRecv, FanSendDet, FanSendState, DrainInv
<1>2. CASE FanEnd
  <2>1. ~signalDone => /\ framesClosed /\ frames = << >>
                       /\ ToDetector = sent /\ ToState = sent
    <3>1. ToDetector \in Seq(FrameIds)
      BY FlowType
    <3>2. ToDetector \o << >> = ToDetector
      BY <3>1
    <3>3. ~signalDone => fanPc = "select" /\ framesClosed /\ frames = << >>
      BY <1>2 DEF FanEnd
    <3> QED
      BY <3>2, <3>3 DEF FlowInv
  <2>2. ToDetector' = ToDetector /\ ToState' = ToState
    BY <1>2 DEF FanEnd, ToDetector, ToState
  <2> QED
    BY <1>2, <2>1, <2>2 DEF FanEnd, DrainInv
<1>3. CASE FanCloseDet \/ FanCloseState
  <2>1. ToDetector' = ToDetector /\ ToState' = ToState
    BY <1>3 DEF FanCloseDet, FanCloseState, ToDetector, ToState
  <2> QED
    BY <1>3, <2>1 DEF FanCloseDet, FanCloseState, DrainInv
<1> QED
  BY <1>1, <1>2, <1>3 DEF FanOut

\* The consumers end by themselves only when their channel is closed and empty.
LEMMA ConsumerDrain ==
  ASSUME TypeInv, DrainInv, Detector \/ StateConsumer \/ AlertConsumer
  PROVE  DrainInv'
<1> USE DEF ctxs, cap, src, fan, det, dispatch, st, als, al
<1>1. CASE DetRecv \/ StRecv
  <2>1. ToDetector' = ToDetector /\ ToState' = ToState
    BY <1>1, ReceiveFlow
  <2>2. CASE DetRecv
    BY <2>1, <2>2 DEF DetRecv, DrainInv
  <2>3. CASE StRecv
    BY <2>1, <2>3 DEF StRecv, DrainInv
  <2> QED
    BY <1>1, <2>2, <2>3
<1>2. CASE DetEnd
  BY <1>2 DEF DetEnd, DrainInv, ToDetector, ToState
<1>3. CASE StEnd
  BY <1>3 DEF StEnd, DrainInv, ToDetector, ToState
<1>4. CASE AlRecv \/ AlSave \/ AlInsert
  <2>1. CASE AlRecv
    BY <2>1 DEF AlRecv, DrainInv, ToDetector, ToState
  <2>2. CASE AlSave
    BY <2>2 DEF AlSave, DrainInv, ToDetector, ToState
  <2>3. CASE AlInsert
    BY <2>3 DEF AlInsert, DrainInv, ToDetector, ToState
  <2> QED
    BY <1>4, <2>1, <2>2, <2>3
<1>5. CASE AlEnd
  BY <1>5 DEF AlEnd, DrainInv, ToDetector, ToState
<1>6. CASE DetEmit
  <2>1. detPc = "dispatch" /\ ~alertsClosed
    BY <1>6 DEF DetEmit, DrainInv
  <2> QED
    BY <1>6, <2>1 DEF DetEmit, DrainInv, ToDetector, ToState
<1>7. CASE DetNext
  BY <1>7 DEF DetNext, DrainInv, ToDetector, ToState
<1> QED
  BY <1>1, <1>2, <1>3, <1>4, <1>5, <1>6, <1>7 DEF Detector, StateConsumer, AlertConsumer

\* captureLoop sends nothing after it has closed its channel.
LEMMA CaptureDrain ==
  ASSUME DrainInv, Signal \/ CloseHandle \/ ParseErrTick \/ Capture
  PROVE  DrainInv'
<1> USE DEF ctxs, cap, src, fan, det, dispatch, st, als, al, CapOnly, CapGoto,
            ToDetector, ToState
<1>1. CASE Signal \/ CloseHandle \/ ParseErrTick
  <2>1. CASE Signal
    BY <2>1 DEF Signal, DrainInv
  <2>2. CASE CloseHandle
    BY <2>2 DEF CloseHandle, DrainInv
  <2>3. CASE ParseErrTick
    BY <2>3 DEF ParseErrTick, DrainInv
  <2> QED
    BY <1>1, <2>1, <2>2, <2>3
<1>2. CASE CapTop \/ CapSkip \/ CapRead \/ CapError
  BY <1>2 DEF CapTop, CapSkip, CapRead, CapError, DrainInv
<1>3. CASE CapSend
  BY <1>3 DEF CapSend, DrainInv
<1>4. CASE CapAbort \/ CapTicker \/ CapClose \/ CapCancel
  <2>1. CASE CapAbort
    BY <2>1 DEF CapAbort, DrainInv
  <2>2. CASE CapTicker
    BY <2>2 DEF CapTicker, DrainInv
  <2>3. CASE CapClose
    BY <2>3 DEF CapClose, DrainInv
  <2>4. CASE CapCancel
    BY <2>4 DEF CapCancel, DrainInv
  <2> QED
    BY <1>4, <2>1, <2>2, <2>3, <2>4
<1> QED
  BY <1>1, <1>2, <1>3, <1>4 DEF Capture

\* Where each captured frame is, and in which order the channels are closed.
THEOREM FlowInvariance == Spec => [](TypeInv /\ FlowInv /\ DrainInv)
<1>1. Init => TypeInv /\ FlowInv /\ DrainInv
  <2> SUFFICES ASSUME Init PROVE FlowInv /\ DrainInv
    BY InitType
  <2>1. << >> \in Seq(FrameIds) /\ << >> \o << >> = << >>
    OBVIOUS
  <2>2. ToDetector = << >> /\ ToState = << >> /\ ToDetector \o frames = << >>
    BY <2>1 DEF Init, ToDetector, ToState
  <2>3. IsPrefix(<< >>, << >>)
    BY <2>1, PrefixOfConcat
  <2> QED
    BY <2>2, <2>3 DEF Init, FlowInv, DrainInv
<1>2. TypeInv /\ FlowInv /\ DrainInv /\ [Next]_vars => (TypeInv /\ FlowInv /\ DrainInv)'
  <2> SUFFICES ASSUME TypeInv, FlowInv, DrainInv, [Next]_vars
               PROVE  TypeInv' /\ FlowInv' /\ DrainInv'
    OBVIOUS
  <2>1. TypeInv'
    BY StepType
  <2>2. FlowInv'
    BY <2>1, StepFlow
  <2>3. UNCHANGED vars => DrainInv'
    BY DEF vars, ctxs, cap, src, fan, det, dispatch, st, als, al, DrainInv, ToDetector,
           ToState
  <2>4. DrainInv'
    BY <2>3, NextByGoroutine, CaptureDrain, FanDrain, ConsumerDrain
  <2> QED
    BY <2>1, <2>2, <2>4
<1> QED
  BY <1>1, <1>2, PTL DEF Spec

\* Until a signal comes, no frame sent is lost, doubled or out of order on its
\* way to either consumer.
THEOREM ConservationCorrect == Spec => []FramesConserved
<1>1. TypeInv /\ FlowInv /\ DrainInv => FramesConserved
  <2> SUFFICES ASSUME TypeInv, FlowInv, DrainInv, ~signalDone
               PROVE  /\ sent = ToDetector \o InHand({"det"}) \o frames
                      /\ sent = ToState \o InHand({"det", "state"}) \o frames
    BY DEF FramesConserved, ToDetector, ToState
  <2>1. ToDetector \in Seq(FrameIds) /\ ToState \in Seq(FrameIds)
    BY FlowType
  <2>2. ToDetector \o << >> = ToDetector /\ ToState \o << >> = ToState
    BY <2>1
  <2>3. CASE fanPc \in {"select", "det", "state"}
    BY <2>2, <2>3 DEF FlowInv, InHand
  <2>4. CASE fanPc \in {"closeDet", "closeState", "done"}
    BY <2>2, <2>4 DEF DrainInv, InHand
  <2> QED
    BY <2>3, <2>4 DEF TypeInv, TypeOK
<1> QED
  BY <1>1, FlowInvariance, PTL

\* The state engine is never ahead of the detector, nor either of the capture.
THEOREM SinksCorrect == Spec => []SinksAgree
<1>1. FlowInv => SinksAgree
  BY DEF FlowInv, SinksAgree, ToDetector, ToState
<1> QED
  BY <1>1, FlowInvariance, PTL

\* Everything drains when capture ends by itself.
THEOREM DrainCorrect == Spec => []CaptureEndDrains
<1>1. TypeInv /\ DrainInv => CaptureEndDrains
  <2> SUFFICES ASSUME TypeInv, DrainInv, AllDone, ~signalDone
               PROVE  detSeen = sent /\ stSeen = sent /\ alerts = << >>
    BY DEF CaptureEndDrains
  <2>1. /\ detCh = << >> /\ stCh = << >> /\ alerts = << >>
        /\ detSeen \o detCh = sent /\ stSeen \o stCh = sent
    BY DEF AllDone, DrainInv, ToDetector, ToState
  <2>2. detSeen \o << >> = detSeen /\ stSeen \o << >> = stSeen
    BY DEF TypeInv, TypeOK
  <2> QED
    BY <2>1, <2>2
<1> QED
  BY <1>1, FlowInvariance, PTL

--------------------------------------------------------------------------------
(* FrameFlow implements Delivery. *)

\* Each frame is newer than the one before.
Ascending(seq) == \A i, j \in DOMAIN seq : i < j => seq[i] < seq[j]

\* Each alert was raised after the one before.
InOrder(seq) == \A i, j \in DOMAIN seq : i < j => D!Before(seq[i], seq[j])

\* The alert is on a frame taken to dispatch, and not on what is left of its dispatch.
Raised(a) ==
  /\ D!Holds(detSeen, a[1])
  /\ detPc = "dispatch" /\ a[1] = detFrame => a[2] <= detEvents

\* Consumed by the detector up to f.
Latest(f) == D!Holds(detSeen, f) /\ \A g : D!Holds(detSeen, g) => g <= f

\* Frames are sent in the order of capture, each once, and alerts are in the channel,
\* in hand and stored in the order in which they are raised, each once.
FrameOrder ==
  /\ Ascending(sent)
  /\ \A i \in DOMAIN sent : sent[i] <= read
  /\ capPc = "send" => capFrame = read /\ D!Newer(capFrame, sent)

AlertOrder ==
  /\ detPc = "dispatch" => Latest(detFrame)
  /\ InOrder(alerts)
  /\ \A i \in DOMAIN alerts : Raised(alerts[i]) /\ D!After(alerts[i], saved)
  /\ alPc \in {"save", "insert"} =>
       /\ Raised(alEvent) /\ D!After(alEvent, saved)
       /\ \A i \in DOMAIN alerts : D!Before(alEvent, alerts[i])
  /\ \A i \in DOMAIN saved : Raised(saved[i])

OrderInv == FrameOrder /\ AlertOrder

\* A frame newer than all of an ascending sequence may follow it.
LEMMA AppendAscending ==
  ASSUME NEW q \in Seq(FrameIds), NEW f \in FrameIds, Ascending(q), D!Newer(f, q)
  PROVE  Ascending(Append(q, f))
<1>1. /\ Len(q) \in Nat /\ DOMAIN q = 1..Len(q) /\ DOMAIN Append(q, f) = 1..(Len(q) + 1)
      /\ Append(q, f)[Len(q) + 1] = f
      /\ \A i \in DOMAIN q : Append(q, f)[i] = q[i] /\ q[i] \in FrameIds
  OBVIOUS
<1> SUFFICES ASSUME NEW i \in DOMAIN Append(q, f), NEW j \in DOMAIN Append(q, f), i < j
             PROVE  Append(q, f)[i] < Append(q, f)[j]
  BY DEF Ascending
<1>2. i \in DOMAIN q
  BY <1>1
<1>3. CASE j \in DOMAIN q
  BY <1>1, <1>2, <1>3 DEF Ascending
<1>4. CASE j = Len(q) + 1
  BY <1>1, <1>2, <1>4 DEF D!Newer
<1> QED
  BY <1>1, <1>3, <1>4

\* What an element more changes of what a sequence holds.
LEMMA AppendHolds ==
  ASSUME NEW q \in Seq(FrameIds), NEW f \in FrameIds
  PROVE  /\ D!Holds(Append(q, f), f)
         /\ \A g : D!Holds(q, g) => D!Holds(Append(q, f), g)
         /\ \A g : D!Holds(Append(q, f), g) => D!Holds(q, g) \/ g = f
<1>1. /\ Len(q) \in Nat /\ DOMAIN q = 1..Len(q) /\ DOMAIN Append(q, f) = 1..(Len(q) + 1)
      /\ Append(q, f)[Len(q) + 1] = f
      /\ \A i \in DOMAIN q : Append(q, f)[i] = q[i]
  OBVIOUS
<1>2. Len(q) + 1 \in DOMAIN Append(q, f)
  BY <1>1
<1>3. \A i \in DOMAIN Append(q, f) : i \in DOMAIN q \/ i = Len(q) + 1
  BY <1>1
<1>4. \A i \in DOMAIN q : i \in DOMAIN Append(q, f)
  BY <1>1
<1> QED
  BY <1>1, <1>2, <1>3, <1>4 DEF D!Holds

\* An alert that comes after all of a sequence in order may follow it.
LEMMA AppendInOrder ==
  ASSUME NEW q \in Seq(AlertIds), NEW a \in AlertIds
  PROVE  /\ InOrder(q) /\ D!After(a, q) => InOrder(Append(q, a))
         /\ \A i \in DOMAIN Append(q, a) :
              (i \in DOMAIN q /\ Append(q, a)[i] = q[i]) \/ Append(q, a)[i] = a
<1>1. /\ Len(q) \in Nat /\ DOMAIN q = 1..Len(q) /\ DOMAIN Append(q, a) = 1..(Len(q) + 1)
      /\ Append(q, a)[Len(q) + 1] = a
      /\ \A i \in DOMAIN q : Append(q, a)[i] = q[i]
  OBVIOUS
<1>2. \A i \in DOMAIN Append(q, a) :
        \/ i \in DOMAIN q /\ Append(q, a)[i] = q[i]
        \/ i = Len(q) + 1 /\ Append(q, a)[i] = a
  BY <1>1
<1>3. ASSUME InOrder(q), D!After(a, q),
             NEW i \in DOMAIN Append(q, a), NEW j \in DOMAIN Append(q, a), i < j
      PROVE  D!Before(Append(q, a)[i], Append(q, a)[j])
  <2>1. i \in DOMAIN q
    BY <1>1, <1>3
  <2>2. CASE j \in DOMAIN q
    BY <1>1, <1>3, <2>1, <2>2 DEF InOrder
  <2>3. CASE j = Len(q) + 1
    BY <1>1, <1>3, <2>1, <2>3 DEF D!After
  <2> QED
    BY <1>1, <2>2, <2>3
<1>4. InOrder(q) /\ D!After(a, q) => InOrder(Append(q, a))
  BY <1>3 DEF InOrder
<1> QED
  BY <1>2, <1>4

\* Taking the head leaves the rest in order, behind the head.
LEMMA TailInOrder ==
  ASSUME NEW q \in Seq(AlertIds), q # << >>, InOrder(q)
  PROVE  /\ InOrder(Tail(q))
         /\ \A i \in DOMAIN Tail(q) : D!Before(Head(q), Tail(q)[i])
         /\ \A i \in DOMAIN Tail(q) : i + 1 \in DOMAIN q /\ Tail(q)[i] = q[i + 1]
         /\ 1 \in DOMAIN q /\ Head(q) = q[1]
<1>1. /\ Len(q) \in Nat \ {0} /\ DOMAIN q = 1..Len(q) /\ DOMAIN Tail(q) = 1..(Len(q) - 1)
      /\ \A i \in 1..(Len(q) - 1) : Tail(q)[i] = q[i + 1]
      /\ Head(q) = q[1]
  OBVIOUS
<1>2. \A i \in DOMAIN Tail(q) : i + 1 \in DOMAIN q /\ Tail(q)[i] = q[i + 1] /\ 1 < i + 1
  BY <1>1
<1>3. 1 \in DOMAIN q
  BY <1>1
<1>4. \A i, j \in DOMAIN Tail(q) : i < j => i + 1 < j + 1
  BY <1>1
<1> QED
  BY <1>1, <1>2, <1>3, <1>4 DEF InOrder

\* The head of the second part of a prefix is the next element of the whole.
LEMMA NextOfPrefix ==
  ASSUME NEW s \in Seq(FrameIds), NEW t \in Seq(FrameIds), NEW u \in Seq(FrameIds),
         t # << >>, IsPrefix(s \o t, u)
  PROVE  /\ Len(s) < Len(u) /\ Len(s) \in Nat /\ Len(u) \in Nat
         /\ Head(t) = u[Len(s) + 1]
         /\ \A i \in 1..Len(s) : s[i] = u[i]
<1>1. /\ Len(s) \in Nat /\ Len(t) \in Nat \ {0} /\ Len(u) \in Nat
      /\ Len(s \o t) = Len(s) + Len(t)
      /\ \A i \in 1..Len(s) : (s \o t)[i] = s[i]
      /\ (s \o t)[Len(s) + 1] = t[1] /\ Head(t) = t[1]
  OBVIOUS
<1>2. /\ Len(s \o t) <= Len(u)
      /\ SubSeq(s \o t, 1, Len(s \o t)) = SubSeq(u, 1, Len(s \o t))
  BY DEF IsPrefix
<1>3. s \o t \in Seq(FrameIds)
  OBVIOUS
<1>4. \A i \in 1..Len(s \o t) : (s \o t)[i] = u[i]
  <2>1. \A i \in 1..Len(s \o t) : /\ SubSeq(s \o t, 1, Len(s \o t))[i] = (s \o t)[i]
                                  /\ SubSeq(u, 1, Len(s \o t))[i] = u[i]
    BY <1>1, <1>2, <1>3
  <2> QED
    BY <2>1, <1>2
<1>5. Len(s) + 1 \in 1..Len(s \o t) /\ \A i \in 1..Len(s) : i \in 1..Len(s \o t)
  BY <1>1
<1>6. \A i \in 1..Len(s) : s[i] = u[i]
  BY <1>1, <1>4, <1>5
<1>7. Head(t) = u[Len(s) + 1]
  BY <1>1, <1>4, <1>5
<1>8. Len(s) < Len(u)
  BY <1>1, <1>2
<1> QED
  BY <1>1, <1>6, <1>7, <1>8

\* A prefix of a prefix.
LEMMA PrefixTransitive ==
  ASSUME NEW s \in Seq(FrameIds), NEW t \in Seq(FrameIds), NEW u \in Seq(FrameIds),
         IsPrefix(s, t), IsPrefix(t, u)
  PROVE  IsPrefix(s, u)
<1>1. /\ Len(s) \in Nat /\ Len(t) \in Nat /\ Len(u) \in Nat
      /\ Len(s) <= Len(t) /\ Len(t) <= Len(u)
      /\ SubSeq(s, 1, Len(s)) = SubSeq(t, 1, Len(s))
      /\ SubSeq(t, 1, Len(t)) = SubSeq(u, 1, Len(t))
  BY DEF IsPrefix
<1>2. \A i \in 1..Len(t) : t[i] = u[i]
  <2>1. \A i \in 1..Len(t) : /\ SubSeq(t, 1, Len(t))[i] = t[i]
                             /\ SubSeq(u, 1, Len(t))[i] = u[i]
    BY <1>1
  <2> QED
    BY <2>1, <1>1
<1>3. SubSeq(t, 1, Len(s)) = SubSeq(u, 1, Len(s))
  BY <1>1, <1>2
<1> QED
  BY <1>1, <1>3 DEF IsPrefix

\* Frames are read and sent in order.
LEMMA CaptureKeepsOrder ==
  ASSUME TypeInv, OrderInv, Signal \/ CloseHandle \/ ParseErrTick \/ Capture
  PROVE  OrderInv'
<1> USE DEF ctxs, cap, src, fan, det, dispatch, st, als, al, CapOnly, CapGoto
<1>1. UNCHANGED <<alerts, alPc, alEvent, saved, dispatch>>
  BY DEF Signal, CloseHandle, ParseErrTick, Capture, CapTop, CapSkip, CapRead, CapError,
         CapSend, CapAbort, CapTicker, CapClose, CapCancel
<1>2. AlertOrder'
  BY <1>1 DEF OrderInv, AlertOrder, Raised, Latest
<1>3. /\ sent \in Seq(FrameIds) /\ read \in Nat
      /\ \A i \in DOMAIN sent : sent[i] \in Nat
  <2>1. sent \in Seq(FrameIds) /\ read \in 0..MaxFrames
    BY DEF TypeInv, TypeOK
  <2>2. FrameIds \subseteq Nat /\ 0..MaxFrames \subseteq Nat
    BY FlowAssumption DEF FrameIds
  <2>3. \A i \in DOMAIN sent : sent[i] \in FrameIds
    BY <2>1
  <2> QED
    BY <2>1, <2>2, <2>3
<1>4. CASE CapRead
  <2>1. /\ capPc' = "send" /\ capFrame' = read + 1 /\ read' = read + 1 /\ sent' = sent
    BY <1>4 DEF CapRead
  <2>2. \A i \in DOMAIN sent : sent[i] <= read' /\ sent[i] < read + 1
    BY <1>3, <2>1 DEF OrderInv, FrameOrder
  <2> QED
    BY <1>2, <2>1, <2>2 DEF OrderInv, FrameOrder, D!Newer
<1>5. CASE CapSend
  <2>1. /\ capPc' = "top" /\ read' = read /\ sent' = Append(sent, read)
        /\ read \in FrameIds /\ D!Newer(read, sent)
    BY <1>5 DEF CapSend, OrderInv, FrameOrder, TypeInv, HandInv
  <2>2. Ascending(sent')
    BY <1>3, <2>1, AppendAscending DEF OrderInv, FrameOrder
  <2>3. \A i \in DOMAIN sent' : sent'[i] <= read
    <3>1. \A i \in DOMAIN Append(sent, read) :
            \/ i \in DOMAIN sent /\ Append(sent, read)[i] = sent[i]
            \/ Append(sent, read)[i] = read
      BY <1>3
    <3>2. \A i \in DOMAIN sent : sent[i] <= read
      BY DEF OrderInv, FrameOrder
    <3> QED
      BY <1>3, <2>1, <3>1, <3>2
  <2> QED
    BY <1>2, <2>1, <2>2, <2>3 DEF OrderInv, FrameOrder
<1>6. CASE UNCHANGED <<read, sent>> /\ (capPc' = "send" => UNCHANGED <<capPc, capFrame>>)
  BY <1>2, <1>6 DEF OrderInv, FrameOrder, D!Newer
<1>7. \/ CapRead \/ CapSend
      \/ UNCHANGED <<read, sent>> /\ (capPc' = "send" => UNCHANGED <<capPc, capFrame>>)
  BY DEF Signal, CloseHandle, ParseErrTick, Capture, CapTop, CapSkip, CapError, CapAbort,
         CapTicker, CapClose, CapCancel
<1> QED
  BY <1>4, <1>5, <1>6, <1>7

\* What every alert under way and stored has in common, kept by a change of what the
\* detector has got and is at.
LEMMA RaisedKept ==
  ASSUME AlertOrder, UNCHANGED <<alerts, alPc, alEvent, saved>>,
         \A a \in AlertIds : Raised(a) => Raised(a)',
         TypeInv, (detPc = "dispatch" => Latest(detFrame))'
  PROVE  AlertOrder'
<1>1. /\ \A i \in DOMAIN alerts : alerts[i] \in AlertIds
      /\ \A i \in DOMAIN saved : saved[i] \in AlertIds
      /\ alPc \in {"save", "insert"} => alEvent \in AlertIds
  BY SMTT(30) DEF TypeInv, TypeOK, HandInv
<1>2. \A i \in DOMAIN alerts : Raised(alerts[i])'
  BY <1>1 DEF AlertOrder
<1>3. \A i \in DOMAIN saved : Raised(saved[i])'
  BY <1>1 DEF AlertOrder
<1>4. alPc \in {"save", "insert"} => Raised(alEvent)'
  BY <1>1 DEF AlertOrder
<1> QED
  BY <1>2, <1>3, <1>4 DEF AlertOrder

\* A frame taken to dispatch is newer than all before.
LEMMA ReceiveKeepsOrder ==
  ASSUME TypeInv, TypeInv', FlowInv, OrderInv, DetRecv
  PROVE  OrderInv'
<1> DEFINE f == Head(detCh)
<1>1. /\ detSeen' = Append(detSeen, f) /\ detFrame' = f /\ detPc' = "dispatch"
      /\ UNCHANGED <<sent, read, capPc, capFrame, alerts, alPc, alEvent, saved>>
  BY DEF DetRecv, cap, als, al
<1>2. /\ detSeen \in Seq(FrameIds) /\ detCh \in Seq(FrameIds) /\ sent \in Seq(FrameIds)
      /\ detCh # << >> /\ f \in FrameIds
  BY ReceiveType DEF DetRecv, TypeInv, TypeOK
<1>3. \A g : D!Holds(detSeen, g) => g < f
  <2>1. IsPrefix(detSeen \o detCh, sent)
    BY DEF FlowInv, ToDetector
  <2>2. /\ Len(detSeen) < Len(sent) /\ Len(detSeen) \in Nat /\ Len(sent) \in Nat
        /\ f = sent[Len(detSeen) + 1]
        /\ \A i \in 1..Len(detSeen) : detSeen[i] = sent[i]
    BY <1>2, <2>1, NextOfPrefix
  <2>3. DOMAIN detSeen = 1..Len(detSeen) /\ DOMAIN sent = 1..Len(sent)
    BY <1>2
  <2>4. \A i \in 1..Len(detSeen) :
          i \in DOMAIN sent /\ Len(detSeen) + 1 \in DOMAIN sent /\ i < Len(detSeen) + 1
    BY <2>2, <2>3
  <2>5. \A i \in 1..Len(detSeen) : detSeen[i] < f
    BY <2>2, <2>4 DEF OrderInv, FrameOrder, Ascending
  <2> QED
    BY <2>3, <2>5 DEF D!Holds
<1>4. /\ D!Holds(detSeen', f)
      /\ \A g : D!Holds(detSeen, g) => D!Holds(detSeen', g)
      /\ \A g : D!Holds(detSeen', g) => D!Holds(detSeen, g) \/ g = f
  BY <1>1, <1>2, AppendHolds
<1>5. f \in Nat /\ \A g : D!Holds(detSeen, g) => g \in Nat
  <2>1. FrameIds \subseteq Nat
    BY FlowAssumption DEF FrameIds
  <2>2. \A i \in DOMAIN detSeen : detSeen[i] \in FrameIds
    BY <1>2
  <2>3. ASSUME NEW g, D!Holds(detSeen, g) PROVE g \in Nat
    BY <2>1, <2>2, <2>3 DEF D!Holds
  <2> QED
    BY <1>2, <2>1, <2>3
<1>6. Latest(detFrame)'
  BY <1>1, <1>3, <1>4, <1>5 DEF Latest
<1>7. \A a \in AlertIds : Raised(a) => Raised(a)'
  <2> SUFFICES ASSUME NEW a \in AlertIds, Raised(a) PROVE Raised(a)'
    OBVIOUS
  <2>1. D!Holds(detSeen, a[1]) /\ a[1] < f /\ a[1] \in Nat
    BY <1>3, <1>5 DEF Raised
  <2> QED
    BY <1>1, <1>4, <1>5, <2>1 DEF Raised
<1>8. AlertOrder'
  BY <1>1, <1>6, <1>7, RaisedKept DEF OrderInv
<1> QED
  BY <1>1, <1>8 DEF OrderInv, FrameOrder

\* An alert raised comes after all that were raised before.
LEMMA EmitKeepsOrder ==
  ASSUME TypeInv, TypeInv', OrderInv, DetEmit
  PROVE  OrderInv'
<1> PICK e : e = <<detFrame, detEvents + 1>>
  OBVIOUS
<1>1. /\ detPc = "dispatch" /\ detEvents' = detEvents + 1
      /\ alerts' = alerts \/ alerts' = Append(alerts, e)
      /\ UNCHANGED <<sent, read, capPc, capFrame, detPc, detFrame, detSeen,
                     alPc, alEvent, saved>>
  BY DEF DetEmit, cap, al
<1>2. /\ alerts \in Seq(AlertIds) /\ saved \in Seq(AlertIds)
      /\ detEvents \in Nat /\ detEvents < MaxEvents /\ detFrame \in FrameIds
      /\ alPc \in {"save", "insert"} => alEvent \in AlertIds
  BY <1>1 DEF TypeInv, TypeOK, HandInv, DetEmit
<1>3. e \in AlertIds /\ e[1] = detFrame /\ e[2] = detEvents + 1
  BY <1>2, FlowAssumption DEF AlertIds
<1>4. Latest(detFrame)
  BY <1>1 DEF OrderInv, AlertOrder
<1>5. \A a \in AlertIds : Raised(a) => Raised(a)' /\ D!Before(a, e)
  <2> SUFFICES ASSUME NEW a \in AlertIds, Raised(a) PROVE Raised(a)' /\ D!Before(a, e)
    OBVIOUS
  <2>1. a[1] \in Nat /\ a[2] \in Nat /\ detFrame \in Nat
    BY <1>2 DEF AlertIds, FrameIds
  <2>2. a[1] <= detFrame /\ (a[1] = detFrame => a[2] <= detEvents)
    BY <1>1, <1>4 DEF Raised, Latest
  <2>3. a[1] = detFrame => a[2] <= detEvents'
    BY <1>1, <1>2, <2>1, <2>2
  <2>4. Raised(a)'
    BY <1>1, <2>3 DEF Raised
  <2>5. D!Before(a, e)
    BY <1>2, <1>3, <2>1, <2>2 DEF D!Before
  <2> QED
    BY <2>4, <2>5
<1>6. Raised(e)'
  BY <1>1, <1>2, <1>3, <1>4 DEF Raised, Latest
<1>7. /\ \A i \in DOMAIN alerts : alerts[i] \in AlertIds /\ Raised(alerts[i])
      /\ \A i \in DOMAIN saved : saved[i] \in AlertIds /\ Raised(saved[i])
  BY <1>2 DEF OrderInv, AlertOrder
<1>8. D!After(e, alerts) /\ D!After(e, saved)
  BY <1>5, <1>7 DEF D!After
<1>9. \A i \in DOMAIN alerts' :
        \/ i \in DOMAIN alerts /\ alerts'[i] = alerts[i]
        \/ alerts'[i] = e
  BY SMTT(30), <1>1, <1>2, <1>3, AppendInOrder
<1>10. InOrder(alerts')
  BY <1>1, <1>2, <1>3, <1>8, AppendInOrder DEF OrderInv, AlertOrder
<1>11. (\A i \in DOMAIN alerts : Raised(alerts[i]) /\ D!After(alerts[i], saved))'
  BY <1>1, <1>5, <1>6, <1>7, <1>8, <1>9 DEF OrderInv, AlertOrder
<1>12. (\A i \in DOMAIN saved : Raised(saved[i]))'
  BY <1>1, <1>5, <1>7
<1>13. (alPc \in {"save", "insert"} =>
          /\ Raised(alEvent) /\ D!After(alEvent, saved)
          /\ \A i \in DOMAIN alerts : D!Before(alEvent, alerts[i]))'
  BY <1>1, <1>2, <1>5, <1>9 DEF OrderInv, AlertOrder
<1>14. Latest(detFrame)'
  BY <1>1, <1>4 DEF Latest
<1>15. AlertOrder'
  BY <1>1, <1>10, <1>11, <1>12, <1>13, <1>14 DEF AlertOrder
<1> QED
  BY <1>1, <1>15 DEF OrderInv, FrameOrder

\* The end of a dispatch and of the goroutine takes no alert back.
LEMMA EndKeepsOrder ==
  ASSUME TypeInv, OrderInv, DetNext \/ DetEnd
  PROVE  OrderInv'
<1>1. /\ detPc' \in {"select", "done"} /\ detSeen' = detSeen
      /\ UNCHANGED <<sent, read, capPc, capFrame, alerts, alPc, alEvent, saved>>
  BY DEF DetNext, DetEnd, cap, als, al
<1>2. \A a \in AlertIds : Raised(a) => Raised(a)'
  BY <1>1 DEF Raised
<1>3. AlertOrder'
  BY <1>1, <1>2, RaisedKept DEF OrderInv
<1> QED
  BY <1>1, <1>3 DEF OrderInv, FrameOrder

\* Alerts are taken and stored in the order in which they were raised.
LEMMA StoreKeepsOrder ==
  ASSUME TypeInv, TypeInv', OrderInv, AlRecv \/ AlSave \/ AlInsert \/ AlEnd
  PROVE  OrderInv'
<1>1. /\ alerts \in Seq(AlertIds) /\ saved \in Seq(AlertIds)
      /\ UNCHANGED <<sent, read, capPc, capFrame, dispatch>>
  BY DEF AlRecv, AlSave, AlInsert, AlEnd, cap, det, dispatch, TypeInv, TypeOK
<1>2. UNCHANGED <<detPc, detFrame, detEvents, detSeen>>
  BY <1>1 DEF dispatch
<1>3. FrameOrder'
  BY <1>1 DEF OrderInv, FrameOrder
<1>4. \A a : Raised(a)' <=> Raised(a)
  BY <1>2 DEF Raised
<1>5. (detPc = "dispatch" => Latest(detFrame))'
  BY <1>2 DEF OrderInv, AlertOrder, Latest
<1>6. CASE AlRecv
  <2>1. /\ alerts # << >> /\ alEvent' = Head(alerts) /\ alerts' = Tail(alerts)
        /\ alPc' = "save" /\ saved' = saved
    BY <1>6 DEF AlRecv
  <2>2. /\ InOrder(alerts')
        /\ \A i \in DOMAIN alerts' : D!Before(alEvent', alerts'[i])
        /\ \A i \in DOMAIN alerts' : i + 1 \in DOMAIN alerts /\ alerts'[i] = alerts[i + 1]
        /\ 1 \in DOMAIN alerts /\ alEvent' = alerts[1]
    BY <1>1, <2>1, TailInOrder DEF OrderInv, AlertOrder
  <2>3. AlertOrder'
    BY <1>4, <1>5, <2>1, <2>2 DEF OrderInv, AlertOrder
  <2> QED
    BY <1>3, <2>3 DEF OrderInv
<1>7. CASE UNCHANGED <<alerts, saved>> /\ alPc' \in {"select", "done"}
  <2>1. AlertOrder'
    BY <1>4, <1>5, <1>7 DEF OrderInv, AlertOrder
  <2> QED
    BY <1>3, <2>1 DEF OrderInv
<1>8. CASE AlSave /\ alPc' = "insert"
  <2>1. alPc = "save" /\ UNCHANGED <<alerts, saved, alEvent>>
    BY <1>8 DEF AlSave, als
  <2>2. AlertOrder'
    BY <1>4, <1>5, <1>8, <2>1 DEF OrderInv, AlertOrder
  <2> QED
    BY <1>3, <2>2 DEF OrderInv
<1>9. CASE AlInsert /\ saved' = Append(saved, alEvent)
  <2>1. /\ alPc = "insert" /\ alPc' = "select" /\ alerts' = alerts /\ alEvent \in AlertIds
    BY <1>9 DEF AlInsert, als, TypeInv, HandInv
  <2>2. \A i \in DOMAIN saved' :
          (i \in DOMAIN saved /\ saved'[i] = saved[i]) \/ saved'[i] = alEvent
    BY <1>1, <1>9, <2>1, AppendInOrder
  <2>3. \A i \in DOMAIN alerts : D!After(alerts[i], saved')
    BY <2>1, <2>2 DEF OrderInv, AlertOrder, D!After
  <2>4. \A i \in DOMAIN saved' : Raised(saved'[i])
    BY <2>1, <2>2 DEF OrderInv, AlertOrder
  <2>5. AlertOrder'
    BY <1>4, <1>5, <2>1, <2>3, <2>4 DEF OrderInv, AlertOrder
  <2> QED
    BY <1>3, <2>5 DEF OrderInv
<1>10. \/ AlRecv
       \/ UNCHANGED <<alerts, saved>> /\ alPc' \in {"select", "done"}
       \/ AlSave /\ alPc' = "insert"
       \/ AlInsert /\ saved' = Append(saved, alEvent)
  BY DEF AlSave, AlInsert, AlEnd, als
<1> QED
  BY <1>6, <1>7, <1>8, <1>9, <1>10

\* Every step keeps the order.
LEMMA StepOrder ==
  ASSUME TypeInv, TypeInv', FlowInv, OrderInv, [Next]_vars
  PROVE  OrderInv'
<1> DEFINE same == <<sent, read, capPc, capFrame, alerts, alPc, alEvent, saved,
                     detPc, detFrame, detEvents, detSeen>>
<1>1. FanOut \/ StateConsumer \/ UNCHANGED vars => UNCHANGED same
  BY DEF FanOut, FanRecv, FanSendDet, FanSendState, FanEnd, FanCloseDet, FanCloseState,
         FanOnly, StateConsumer, StRecv, StEnd, vars, cap, src, det, dispatch, st, als, al
<1>2. UNCHANGED same => OrderInv'
  <2> SUFFICES ASSUME UNCHANGED same PROVE OrderInv'
    OBVIOUS
  <2>1. FrameOrder'
    BY DEF OrderInv, FrameOrder
  <2>2. AlertOrder'
    BY DEF OrderInv, AlertOrder, Raised, Latest
  <2> QED
    BY <2>1, <2>2 DEF OrderInv
<1> QED
  BY <1>1, <1>2, NextByGoroutine, CaptureKeepsOrder, ReceiveKeepsOrder, EmitKeepsOrder,
     EndKeepsOrder, StoreKeepsOrder
  DEF Detector, AlertConsumer

\* The order holds throughout, with what it rests on.
THEOREM OrderInvariance == Spec => [](TypeInv /\ FlowInv /\ DrainInv /\ OrderInv)
<1>1. Init => OrderInv
  <2> SUFFICES ASSUME Init PROVE OrderInv
    OBVIOUS
  <2>1. DOMAIN << >> = {}
    OBVIOUS
  <2> QED
    BY <2>1 DEF Init, OrderInv, FrameOrder, AlertOrder, Ascending, InOrder
<1>2. TypeInv /\ FlowInv /\ OrderInv /\ [Next]_vars => OrderInv'
  BY StepType, StepOrder
<1> QED
  BY <1>1, <1>2, FlowInvariance, PTL DEF Spec

\* A sink that receives gets the next frame of the stream.
LEMMA ReceiveDelivers ==
  ASSUME TypeInv, FlowInv, DetRecv \/ StRecv
  PROVE  D!Deliver("detector") \/ D!Deliver("state")
<1>1. /\ detSeen \in Seq(FrameIds) /\ detCh \in Seq(FrameIds) /\ sent \in Seq(FrameIds)
      /\ stSeen \in Seq(FrameIds) /\ stCh \in Seq(FrameIds)
  BY FlowType
<1>2. CASE DetRecv
  <2>1. /\ detPc = "select" /\ detCh # << >>
        /\ detSeen' = Append(detSeen, Head(detCh))
        /\ UNCHANGED <<sent, framesClosed, signalDone, stSeen, stPc, alPc, alEvent,
                       saved>>
        /\ detPc' = "dispatch"
    BY <1>2 DEF DetRecv, ctxs, src, st, al
  <2>2. Len(detSeen) < Len(sent) /\ Head(detCh) = sent[Len(detSeen) + 1]
    <3>1. IsPrefix(detSeen \o detCh, sent)
      BY DEF FlowInv, ToDetector
    <3> QED
      BY <1>1, <2>1, <3>1, NextOfPrefix
  <2>3. /\ Reached["detector"] = detSeen
        /\ "detector" \notin SinksDone /\ SinksDone' = SinksDone
    BY <2>1 DEF Reached, SinksDone
  <2>4. Reached' = [Reached EXCEPT !["detector"] = Append(@, sent[Len(@) + 1])]
    BY <2>1, <2>2 DEF Reached
  <2> QED
    BY <2>1, <2>2, <2>3, <2>4 DEF D!Deliver, Writing
<1>3. CASE StRecv
  <2>1. /\ stPc = "select" /\ stCh # << >>
        /\ stSeen' = Append(stSeen, Head(stCh))
        /\ UNCHANGED <<sent, framesClosed, signalDone, detSeen, detPc, stPc,
                       alPc, alEvent, saved>>
    BY <1>3 DEF StRecv, ctxs, src, det, dispatch, al
  <2>2. Len(stSeen) < Len(sent) /\ Head(stCh) = sent[Len(stSeen) + 1]
    <3>1. IsPrefix(stSeen \o stCh, sent)
      BY FlowType, PrefixTransitive DEF FlowInv, ToState
    <3> QED
      BY <1>1, <2>1, <3>1, NextOfPrefix
  <2>3. Reached["state"] = stSeen /\ "state" \notin SinksDone /\ SinksDone' = SinksDone
    BY <2>1 DEF Reached, SinksDone
  <2>4. Reached' = [Reached EXCEPT !["state"] = Append(@, sent[Len(@) + 1])]
    BY <2>1, <2>2 DEF Reached
  <2> QED
    BY <2>1, <2>2, <2>3, <2>4 DEF D!Deliver, Writing
<1> QED
  BY <1>2, <1>3

\* A sink that ends without a signal has got all of the stream.
LEMMA EndDelivers ==
  ASSUME TypeInv, DrainInv, DetEnd \/ StEnd
  PROVE  D!End("detector") \/ D!End("state")
<1>1. detSeen \in Seq(FrameIds) /\ stSeen \in Seq(FrameIds)
  BY FlowType
<1>2. detSeen \o << >> = detSeen /\ stSeen \o << >> = stSeen
  BY <1>1
<1>3. CASE DetEnd
  <2>1. /\ detPc = "select" /\ detPc' = "done"
        /\ signalDone \/ (detClosed /\ detCh = << >>)
        /\ UNCHANGED <<sent, framesClosed, signalDone, detSeen, stSeen, stPc,
                       alPc, alEvent, saved>>
    BY <1>3 DEF DetEnd, ctxs, src, st, al
  <2>2. signalDone \/ (framesClosed /\ detSeen = sent)
    BY <1>2, <2>1 DEF DrainInv, ToDetector
  <2>3. Reached["detector"] = detSeen /\ Reached' = Reached
    BY <2>1 DEF Reached
  <2>4. "detector" \notin SinksDone /\ SinksDone' = SinksDone \cup {"detector"}
    BY <2>1 DEF SinksDone
  <2> QED
    BY <2>1, <2>2, <2>3, <2>4 DEF D!End, Writing
<1>4. CASE StEnd
  <2>1. /\ stPc = "select" /\ stPc' = "done"
        /\ signalDone \/ (stClosed /\ stCh = << >>)
        /\ UNCHANGED <<sent, framesClosed, signalDone, detSeen, stSeen, detPc,
                       alPc, alEvent, saved>>
    BY <1>4 DEF StEnd, ctxs, src, det, dispatch, al
  <2>2. signalDone \/ (framesClosed /\ stSeen = sent)
    BY <1>2, <2>1 DEF DrainInv, ToState
  <2>3. Reached["state"] = stSeen /\ Reached' = Reached
    BY <2>1 DEF Reached
  <2>4. "state" \notin SinksDone /\ SinksDone' = SinksDone \cup {"state"}
    BY <2>1 DEF SinksDone
  <2> QED
    BY <2>1, <2>2, <2>3, <2>4 DEF D!End, Writing
<1> QED
  BY <1>3, <1>4

\* A step of the goroutines is a step of Delivery, or leaves it where it is.
LEMMA StepDelivers ==
  ASSUME TypeInv, FlowInv, DrainInv, OrderInv, [Next]_vars
  PROVE  [D!Next]_(D!vars)
<1> DEFINE same == <<sent, framesClosed, signalDone, detSeen, stSeen, stPc, saved>>
           ends == {detPc, detPc'} \subseteq {"select", "dispatch"} \/ detPc' = detPc
<1> USE DEF ctxs, cap, src, fan, det, dispatch, st, als, al, CapOnly, CapGoto, FanOnly
<1>1. UNCHANGED <<detSeen, stSeen, stPc>> /\ ends => UNCHANGED <<Reached, SinksDone>>
  BY DEF Reached, SinksDone
<1>2. UNCHANGED <<alPc, alEvent>> => UNCHANGED Writing
  BY DEF Writing
<1>3. UNCHANGED same /\ ends /\ UNCHANGED Writing => UNCHANGED D!vars
  BY <1>1 DEF D!vars
<1>4. CASE Signal
  <2>1. D!Cut
    BY <1>1, <1>2, <1>4 DEF Signal, D!Cut
  <2> QED
    BY <2>1 DEF D!Next
<1>5. CASE CapClose
  <2>1. D!Close
    BY <1>1, <1>2, <1>5 DEF CapClose, D!Close
  <2> QED
    BY <2>1 DEF D!Next
<1>6. CASE CapSend
  <2>1. /\ ~framesClosed /\ capFrame \in FrameIds /\ D!Newer(capFrame, sent)
        /\ sent' = Append(sent, capFrame)
    BY <1>6 DEF CapSend, TypeInv, TypeOK, HandInv, DrainInv, OrderInv, FrameOrder
  <2>2. D!Send(capFrame)
    BY <1>1, <1>2, <1>6, <2>1 DEF CapSend, D!Send
  <2> QED
    BY <2>1, <2>2 DEF D!Next
<1>7. CASE DetRecv \/ StRecv
  BY <1>7, ReceiveDelivers DEF D!Next, D!Sinks
<1>8. CASE DetEnd \/ StEnd
  BY <1>8, EndDelivers DEF D!Next, D!Sinks
<1>9. CASE DetEmit \/ DetNext
  BY <1>2, <1>3, <1>9 DEF DetEmit, DetNext
<1>10. CASE AlSave /\ ~signalDone
  <2>1. /\ alPc = "save" /\ alPc' = "insert" /\ UNCHANGED <<alEvent, same, detPc>>
    BY <1>10 DEF AlSave
  <2>2. Writing = {} /\ Writing' = {alEvent}
    BY <2>1 DEF Writing
  <2>3. /\ alEvent \in FrameIds \X (1..MaxEvents)
        /\ D!Holds(Reached["detector"], alEvent[1]) /\ D!After(alEvent, saved)
    BY <2>1 DEF TypeInv, HandInv, AlertIds, OrderInv, AlertOrder, Raised, Reached
  <2>4. D!Write(alEvent)
    BY <1>1, <1>10, <2>1, <2>2, <2>3 DEF D!Write
  <2> QED
    BY <2>3, <2>4 DEF D!Next
<1>11. CASE AlInsert
  <2>1. /\ alPc = "insert" /\ alPc' = "select"
        /\ saved' = Append(saved, alEvent) \/ saved' = saved
        /\ UNCHANGED <<sent, framesClosed, signalDone, detSeen, stSeen, stPc, detPc>>
    BY <1>11 DEF AlInsert
  <2>2. Writing = {alEvent} /\ Writing' = {}
    BY <2>1 DEF Writing
  <2>3. alEvent \in FrameIds \X (1..MaxEvents)
    BY <2>1 DEF TypeInv, HandInv, AlertIds
  <2>4. D!Store(alEvent)
    BY <1>1, <2>1, <2>2 DEF D!Store
  <2> QED
    BY <2>3, <2>4 DEF D!Next
<1>12. CASE AlRecv \/ AlEnd \/ (AlSave /\ signalDone)
  <2>1. /\ alPc # "insert" /\ alPc' # "insert" /\ UNCHANGED <<same, detPc>>
    BY <1>12 DEF AlRecv, AlEnd, AlSave
  <2>2. UNCHANGED Writing
    BY <2>1 DEF Writing
  <2> QED
    BY <1>3, <2>1, <2>2
<1>13. CASE UNCHANGED <<same, detPc, alPc, alEvent>>
  BY <1>2, <1>3, <1>13
<1>14. CloseHandle \/ ParseErrTick \/ CapTop \/ CapSkip \/ CapRead \/ CapError
         => UNCHANGED <<same, detPc, alPc, alEvent>>
  BY DEF CloseHandle, ParseErrTick, CapTop, CapSkip, CapRead, CapError
<1>15. CapAbort \/ CapTicker \/ CapCancel => UNCHANGED <<same, detPc, alPc, alEvent>>
  BY DEF CapAbort, CapTicker, CapCancel
<1>16. FanOut => UNCHANGED <<same, detPc, alPc, alEvent>>
  BY DEF FanOut, FanRecv, FanSendDet, FanSendState, FanEnd, FanCloseDet, FanCloseState
<1>17. UNCHANGED vars => UNCHANGED <<same, detPc, alPc, alEvent>>
  BY DEF vars
<1> QED
  BY <1>4, <1>5, <1>6, <1>7, <1>8, <1>9, <1>10, <1>11, <1>12, <1>13, <1>14, <1>15, <1>16,
     <1>17, NextByGoroutine
  DEF Capture, Detector, StateConsumer, AlertConsumer

\* For every number of frames and of alerts raised on a frame and all capacities, the
\* path of a frame and of its alerts through the goroutines and channels is an
\* implementation of Delivery.
THEOREM ImplementsDelivery == Spec => Delivers
<1>1. Init => D!Init
  <2> SUFFICES ASSUME Init PROVE D!Init
    OBVIOUS
  <2>1. Reached = [s \in D!Sinks |-> << >>] /\ SinksDone = {} /\ Writing = {}
    BY DEF Init, Reached, SinksDone, Writing, D!Sinks
  <2> QED
    BY <2>1 DEF Init, D!Init
<1>2. TypeInv /\ FlowInv /\ DrainInv /\ OrderInv /\ [Next]_vars => [D!Next]_(D!vars)
  BY StepDelivers
<1> QED
  BY <1>1, <1>2, OrderInvariance, PTL DEF Spec, Delivers, D!Spec
================================================================================
