------------------------------- MODULE HubProofs -------------------------------
(***************************************************************************)
(* Proofs about Hub for every set of streams, every number of messages and *)
(* every capacity.                                                         *)
(***************************************************************************)
EXTENDS Hub, TLAPS

\* What has been broadcast or waits for it was published.
CountInv == Len(cast) + Len(queue) <= published

\* A stream in the map is open and has a handler that subscribed it; a closed
\* channel is in no map any more, and its handler will not subscribe again.
ChannelInv ==
  /\ subs \cap closed = {}
  /\ \A s \in subs \cup closed : pc[s] \in {"loop", "leaving", "done"}
  /\ ~panicked

Inv == TypeOK /\ CountInv /\ ChannelInv

\* The types of the counts, for the steps that need arithmetic.
LEMMA Counts ==
  ASSUME Inv
  PROVE  /\ published \in Nat /\ MaxMessages \in Nat /\ published <= MaxMessages
         /\ QueueCap \in Nat \ {0} /\ BufferCap \in Nat \ {0}
         /\ Len(cast) \in Nat /\ Len(queue) \in Nat
         /\ Len(cast) + Len(queue) <= published
BY HubAssumption DEF Inv, TypeOK, CountInv

--------------------------------------------------------------------------------
(* The steps. *)

\* Publish queues the message or, when the queue is full, drops it.
LEMMA PublishStep == Inv /\ Publish => Inv'
<1> SUFFICES ASSUME Inv, Publish PROVE Inv'
  OBVIOUS
<1>1. /\ published' = published + 1 /\ published' \in Messages
      /\ published' \in 0..MaxMessages
      /\ UNCHANGED <<ctxDone, hubPc, cast, subs, buf, closed, from, missed, got,
                     panicked, pc, srvPc>>
  BY Counts DEF Publish, hub, streams, Messages
<1>2. CASE Len(queue) < QueueCap
  <2>1. queue \in Seq(Messages) /\ queue' = Append(queue, published')
    BY <1>1, <1>2 DEF Publish, Inv, TypeOK
  <2>2. /\ queue' \in Seq(Messages)
        /\ Len(queue') = Len(queue) + 1
    BY <1>1, <2>1
  <2>3. Len(queue') <= QueueCap /\ Len(cast) + Len(queue') <= published'
    BY <1>1, <1>2, <2>2, Counts
  <2> QED
    BY <1>1, <2>2, <2>3 DEF Inv, TypeOK, CountInv, ChannelInv
<1>3. CASE ~(Len(queue) < QueueCap)
  <2>1. queue' = queue
    BY <1>3 DEF Publish
  <2>2. Len(cast) + Len(queue) <= published'
    BY <1>1, Counts
  <2> QED
    BY <1>1, <2>1, <2>2 DEF Inv, TypeOK, CountInv, ChannelInv
<1> QED
  BY <1>2, <1>3

\* A broadcast meets open channels only and fills none beyond its capacity.
LEMMA BroadcastStep == Inv /\ Broadcast => Inv'
<1> SUFFICES ASSUME Inv, Broadcast PROVE Inv'
  OBVIOUS
<1> DEFINE m == Head(queue)
<1>1. /\ queue \in Seq(Messages) /\ queue # << >> /\ cast \in Seq(Messages)
      /\ cast' = Append(cast, m) /\ queue' = Tail(queue)
      /\ UNCHANGED <<ctxDone, published, hubPc, subs, closed, from, got, pc, srvPc>>
  BY DEF Broadcast, Inv, TypeOK
<1>2. /\ m \in Messages
      /\ cast' \in Seq(Messages) /\ queue' \in Seq(Messages)
      /\ Len(cast') = Len(cast) + 1 /\ Len(queue') = Len(queue) - 1
  BY <1>1
<1>3. Len(cast') + Len(queue') <= published /\ Len(queue') <= QueueCap
  <2>1. Len(queue) <= QueueCap
    BY DEF Inv, TypeOK
  <2> QED
    BY <1>2, <2>1, Counts
<1>4. /\ buf' = [s \in Streams |-> IF s \in Ready THEN Append(buf[s], m) ELSE buf[s]]
      /\ missed' = [s \in Streams |->
                      IF s \in subs \ Ready THEN missed[s] \cup {m} ELSE missed[s]]
      /\ panicked' = (panicked \/ subs \cap closed # {})
  BY DEF Broadcast
<1> HIDE DEF m
<1>5. missed' \in [Streams -> SUBSET Messages]
  BY <1>2, <1>4 DEF Inv, TypeOK
<1>6. buf' \in [Streams -> Seq(Messages)]
  BY <1>2, <1>4 DEF Inv, TypeOK
<1>7. ASSUME NEW s \in Streams PROVE Len(buf'[s]) <= BufferCap
  <2>1. buf[s] \in Seq(Messages) /\ Len(buf[s]) \in Nat /\ Len(buf[s]) <= BufferCap
    BY DEF Inv, TypeOK
  <2>2. CASE s \in Ready
    <3>1. Len(buf[s]) < BufferCap
      BY <2>2 DEF Ready
    <3>2. Len(buf'[s]) = Len(buf[s]) + 1
      BY <1>2, <1>4, <2>1, <2>2
    <3> QED
      BY <2>1, <3>1, <3>2, Counts
  <2>3. CASE s \notin Ready
    BY <1>4, <2>1, <2>3
  <2> QED
    BY <2>2, <2>3
<1>8. panicked' = FALSE
  BY <1>4 DEF Inv, ChannelInv
<1>9. TypeOK'
  BY <1>1, <1>2, <1>3, <1>5, <1>6, <1>7, <1>8 DEF Inv, TypeOK
<1> QED
  BY <1>1, <1>3, <1>8, <1>9 DEF Inv, CountInv, ChannelInv

\* closeAll closes what is in the map and nothing else.
LEMMA CloseAllStep == Inv /\ CloseAll => Inv'
<1> SUFFICES ASSUME Inv, CloseAll PROVE Inv'
  OBVIOUS
<1>1. /\ subs' = {} /\ closed' = closed \cup subs /\ hubPc' = "done"
      /\ UNCHANGED <<ctxDone, published, queue, cast, buf, from, missed, got, pc, srvPc>>
  BY DEF CloseAll
<1>2. panicked' = FALSE
  BY DEF CloseAll, Inv, ChannelInv
<1> QED
  BY <1>1, <1>2 DEF Inv, TypeOK, CountInv, ChannelInv

\* A new subscriber's channel is open: its handler had none before.
LEMMA SubscribeStep ==
  ASSUME Inv, NEW s \in Streams, Subscribe(s)
  PROVE  Inv'
<1>1. /\ pc[s] = "accepted" /\ pc' = [pc EXCEPT ![s] = "loop"]
      /\ subs' = subs \cup {s} /\ from' = [from EXCEPT ![s] = Len(cast)]
      /\ UNCHANGED <<ctxDone, published, queue, hubPc, cast, buf, closed, missed, got,
                     panicked, srvPc>>
  BY DEF Subscribe, hub
<1>2. s \notin closed
  BY <1>1 DEF Inv, ChannelInv
<1>3. Len(cast) \in 0..MaxMessages
  BY Counts
<1>4. TypeOK'
  BY <1>1, <1>3 DEF Inv, TypeOK
<1>5. ChannelInv'
  BY <1>1, <1>2 DEF Inv, TypeOK, ChannelInv
<1> QED
  BY <1>1, <1>4, <1>5 DEF Inv, CountInv

\* A message goes from the buffer to the client.
LEMMA ReceiveStep ==
  ASSUME Inv, NEW s \in Streams, Receive(s)
  PROVE  Inv'
<1>1. /\ buf[s] # << >>
      /\ got' = [got EXCEPT ![s] = Append(got[s], Head(buf[s]))]
      /\ buf' = [buf EXCEPT ![s] = Tail(buf[s])]
      /\ UNCHANGED <<ctxDone, published, queue, hubPc, cast, subs, closed, from, missed,
                     panicked, pc, srvPc>>
  BY DEF Receive, hub
<1>2. buf[s] \in Seq(Messages) /\ got[s] \in Seq(Messages) /\ Len(buf[s]) <= BufferCap
  BY DEF Inv, TypeOK
<1>3. /\ Tail(buf[s]) \in Seq(Messages) /\ Len(Tail(buf[s])) = Len(buf[s]) - 1
      /\ Append(got[s], Head(buf[s])) \in Seq(Messages)
  BY <1>1, <1>2
<1>4. Len(Tail(buf[s])) <= BufferCap
  BY <1>2, <1>3, Counts
<1>5. TypeOK'
  BY <1>1, <1>3, <1>4 DEF Inv, TypeOK
<1> QED
  BY <1>1, <1>5 DEF Inv, CountInv, ChannelInv

\* The other steps of a handler move it on and at most take it from the map.
LEMMA MoveStep ==
  ASSUME Inv, NEW s \in Streams,
         Open(s) \/ EndOfStream(s) \/ Disconnect(s) \/ Unsubscribe(s)
  PROVE  Inv'
<1>1. /\ pc' \in [Streams -> {"idle", "accepted", "loop", "leaving", "done"}]
      /\ subs' \subseteq subs
      /\ \A t \in Streams : pc[t] \in {"loop", "leaving", "done"}
                              => pc'[t] \in {"loop", "leaving", "done"}
  BY DEF Inv, TypeOK, Open, EndOfStream, Disconnect, Unsubscribe, streams
<1>2. UNCHANGED <<ctxDone, published, queue, hubPc, cast, buf, closed, from, missed, got,
                  panicked, srvPc>>
  BY DEF Open, EndOfStream, Disconnect, Unsubscribe, hub, streams
<1> QED
  BY <1>1, <1>2 DEF Inv, TypeOK, CountInv, ChannelInv

\* Signals and the server's steps touch no channel.
LEMMA OuterStep ==
  ASSUME Inv, HubExit \/ Signal \/ StopAccepting \/ ServerStopped \/ Finished \/ UNCHANGED vars
  PROVE  Inv'
<1>1. /\ ctxDone' \in BOOLEAN /\ srvPc' \in {"run", "wait", "done"}
      /\ hubPc' \in {"run", "close", "done"}
  BY DEF Inv, TypeOK, HubExit, Signal, StopAccepting, ServerStopped, Finished, vars, hub
<1>2. UNCHANGED <<published, queue, cast, subs, buf, closed, from, missed, got, panicked, pc>>
  BY DEF HubExit, Signal, StopAccepting, ServerStopped, Finished, vars, hub, streams
<1> QED
  BY <1>1, <1>2 DEF Inv, TypeOK, CountInv, ChannelInv

\* The invariant holds in every state the hub and its streams can reach.
THEOREM Invariance == Spec => []Inv
<1>1. Init => Inv
  <2> SUFFICES ASSUME Init PROVE Inv
    OBVIOUS
  <2>1. 0 \in 0..MaxMessages /\ 0 <= QueueCap /\ 0 <= BufferCap
    BY HubAssumption
  <2>2. << >> \in Seq(Messages) /\ Len(<< >>) = 0
    OBVIOUS
  <2>3. TypeOK
    BY <2>1, <2>2 DEF Init, TypeOK
  <2>4. CountInv
    BY <2>2 DEF Init, CountInv
  <2>5. ChannelInv
    BY DEF Init, ChannelInv
  <2> QED
    BY <2>3, <2>4, <2>5 DEF Inv
<1>2. Inv /\ [Next]_vars => Inv'
  BY PublishStep, BroadcastStep, CloseAllStep, SubscribeStep, ReceiveStep, MoveStep,
     OuterStep DEF Next
<1> QED
  BY <1>1, <1>2, PTL DEF Spec

--------------------------------------------------------------------------------
(* What follows from it. *)

\* The hub's variables keep their types: no queue and no buffer exceeds its capacity.
THEOREM TypeCorrect == Spec => []TypeOK
<1>1. Inv => TypeOK
  BY DEF Inv
<1> QED
  BY <1>1, Invariance, PTL

\* No channel is closed twice and nothing is sent on a closed one.
THEOREM PanicCorrect == Spec => []NeverPanics
<1>1. Inv => NeverPanics
  BY DEF Inv, ChannelInv, NeverPanics
<1> QED
  BY <1>1, Invariance, PTL

--------------------------------------------------------------------------------
(* What the streams get. *)

\* Messages go through the hub in the order of Publish, and a message that someone
\* missed is older than all that still wait.
OrderInv ==
  /\ Increasing(cast) /\ Increasing(queue)
  /\ \A i \in DOMAIN cast :
       cast[i] <= published /\ \A j \in DOMAIN queue : cast[i] < queue[j]
  /\ \A j \in DOMAIN queue : queue[j] <= published
  /\ \A s \in Streams : \A m \in missed[s] :
       m <= published /\ \A j \in DOMAIN queue : m < queue[j]

\* StreamExact, of one stream.
Exact(s) ==
  /\ Increasing(Delivered(s))
  /\ Range(Delivered(s)) \subseteq Owed(s)
  /\ \A m \in Owed(s) \ Range(Delivered(s)), d \in Range(Delivered(s)) : d < m
  /\ s \in subs => Range(Delivered(s)) = Owed(s)

\* Nothing is delivered before a stream has subscribed.
StreamInv(s) ==
  /\ from[s] <= Len(cast)
  /\ pc[s] \in {"idle", "accepted"} => Delivered(s) = << >>
  /\ Exact(s)

DeliveryInv == OrderInv /\ \A s \in Streams : StreamInv(s)

\* What Append does to a sequence of messages.
LEMMA AppendFacts ==
  ASSUME NEW q \in Seq(Messages), NEW e \in Messages
  PROVE  /\ Append(q, e) \in Seq(Messages)
         /\ Len(Append(q, e)) = Len(q) + 1 /\ Len(q) \in Nat
         /\ DOMAIN q = 1..Len(q) /\ DOMAIN Append(q, e) = 1..(Len(q) + 1)
         /\ \A i \in 1..Len(q) : Append(q, e)[i] = q[i] /\ q[i] \in Messages
         /\ Append(q, e)[Len(q) + 1] = e
OBVIOUS

\* The elements of a longer sequence.
LEMMA AppendRange ==
  ASSUME NEW q \in Seq(Messages), NEW e \in Messages
  PROVE  Range(Append(q, e)) = Range(q) \cup {e}
<1>1. PICK n \in Nat : n = Len(q)
  BY AppendFacts
<1>2. PICK r : r = Append(q, e)
  OBVIOUS
<1>3. /\ DOMAIN q = 1..n /\ DOMAIN r = 1..(n + 1)
      /\ \A i \in 1..n : r[i] = q[i]
      /\ r[n + 1] = e
  BY AppendFacts, <1>1, <1>2
<1>4. \A i \in 1..(n + 1) : i \in 1..n \/ i = n + 1
  OBVIOUS
<1>5. 1..n \subseteq 1..(n + 1) /\ n + 1 \in 1..(n + 1)
  OBVIOUS
<1>6. Range(r) = Range(q) \cup {e}
  BY <1>3, <1>4, <1>5 DEF Range
<1> QED
  BY <1>2, <1>6

\* An increasing sequence stays one when something greater comes last.
LEMMA AppendIncreasing ==
  ASSUME NEW q \in Seq(Messages), NEW e \in Messages, Increasing(q),
         \A i \in DOMAIN q : q[i] < e
  PROVE  Increasing(Append(q, e))
<1>1. ASSUME NEW i \in 1..(Len(q) + 1), NEW j \in 1..(Len(q) + 1), i < j
      PROVE  Append(q, e)[i] < Append(q, e)[j]
  <2>1. i \in 1..Len(q) /\ (j \in 1..Len(q) \/ j = Len(q) + 1)
    BY <1>1, AppendFacts
  <2> QED
    BY <1>1, <2>1, AppendFacts DEF Increasing
<1> QED
  BY <1>1, AppendFacts DEF Increasing

\* What Tail leaves.
LEMMA TailFacts ==
  ASSUME NEW q \in Seq(Messages), q # << >>
  PROVE  /\ Tail(q) \in Seq(Messages) /\ Head(q) \in Messages /\ Head(q) = q[1]
         /\ Len(q) \in Nat \ {0} /\ DOMAIN q = 1..Len(q)
         /\ DOMAIN Tail(q) = 1..(Len(q) - 1)
         /\ \A i \in 1..(Len(q) - 1) : Tail(q)[i] = q[i + 1]
OBVIOUS

\* Two sequences with the same elements are the same.
LEMMA SameSequence ==
  ASSUME NEW p \in Seq(Messages), NEW q \in Seq(Messages), Len(p) = Len(q),
         \A i \in 1..Len(p) : p[i] = q[i]
  PROVE  p = q
<1>1. p = [i \in 1..Len(p) |-> p[i]] /\ q = [i \in 1..Len(q) |-> q[i]]
  OBVIOUS
<1> QED
  BY <1>1, Zenon

\* A message appended to the second part is appended to the whole.
LEMMA ConcatAppend ==
  ASSUME NEW p \in Seq(Messages), NEW q \in Seq(Messages), NEW e \in Messages
  PROVE  p \o Append(q, e) = Append(p \o q, e)
<1> DEFINE a == p \o Append(q, e)
           b == Append(p \o q, e)
<1>1. a \in Seq(Messages) /\ b \in Seq(Messages) /\ Len(a) = Len(b)
  OBVIOUS
<1>2. \A i \in 1..Len(a) : a[i] = b[i]
  OBVIOUS
<1> HIDE DEF a, b
<1>3. a = b
  BY <1>1, <1>2, SameSequence
<1> QED
  BY <1>3 DEF a, b

\* The first of the second part moved to the end of the first leaves the whole.
LEMMA ConcatShift ==
  ASSUME NEW p \in Seq(Messages), NEW q \in Seq(Messages), q # << >>
  PROVE  Append(p, Head(q)) \o Tail(q) = p \o q
<1> DEFINE a == Append(p, Head(q)) \o Tail(q)
           b == p \o q
<1>1. a \in Seq(Messages) /\ b \in Seq(Messages) /\ Len(a) = Len(b)
  BY TailFacts
<1>2. \A i \in 1..Len(a) : a[i] = b[i]
  BY TailFacts
<1> HIDE DEF a, b
<1>3. a = b
  BY <1>1, <1>2, SameSequence
<1> QED
  BY <1>3 DEF a, b

\* A stream's sequences.
LEMMA DeliveredType ==
  ASSUME TypeOK, NEW s \in Streams
  PROVE  /\ got[s] \in Seq(Messages) /\ buf[s] \in Seq(Messages)
         /\ Delivered(s) \in Seq(Messages)
BY DEF TypeOK, Delivered

\* Every step keeps the order.
LEMMA OrderStep == Inv /\ OrderInv /\ [Next]_vars => OrderInv'
<1> SUFFICES ASSUME Inv, OrderInv, [Next]_vars PROVE OrderInv'
  OBVIOUS
<1>1. /\ queue \in Seq(Messages) /\ cast \in Seq(Messages)
      /\ published \in Nat /\ MaxMessages \in Nat
      /\ missed \in [Streams -> SUBSET Messages]
  BY Counts DEF Inv, TypeOK
<1>2. CASE Publish
  <2>1. /\ published' = published + 1 /\ published' \in Messages
        /\ UNCHANGED <<cast, missed>>
    BY <1>1, <1>2 DEF Publish, streams, Messages
  <2>2. CASE queue' = queue
    BY <1>1, <2>1, <2>2 DEF OrderInv, Messages
  <2>3. CASE queue' = Append(queue, published')
    <3>1. /\ DOMAIN queue' = 1..(Len(queue) + 1) /\ Len(queue) \in Nat
          /\ DOMAIN queue = 1..Len(queue) /\ DOMAIN cast = 1..Len(cast)
          /\ \A i \in 1..Len(queue) : queue'[i] = queue[i] /\ queue[i] \in Messages
          /\ queue'[Len(queue) + 1] = published'
      BY <1>1, <2>1, <2>3, AppendFacts
    <3>2. \A i \in DOMAIN queue : queue[i] < published'
      BY <1>1, <2>1, <3>1 DEF OrderInv, Messages
    <3>3. Increasing(queue')
      BY <1>1, <2>1, <2>3, <3>2, AppendIncreasing DEF OrderInv
    <3>4. \A i \in DOMAIN cast : cast[i] <= published' /\ cast[i] < published'
      <4>1. \A i \in DOMAIN cast : cast[i] \in Messages
        BY <1>1
      <4> QED
        BY <1>1, <2>1, <4>1 DEF OrderInv, Messages
    <3>5. \A s \in Streams : \A m \in missed[s] : m <= published' /\ m < published'
      BY <1>1, <2>1 DEF OrderInv, Messages
    <3>6. \A j \in DOMAIN queue' : j \in DOMAIN queue \/ j = Len(queue) + 1
      BY <3>1
    <3>7. \A j \in DOMAIN queue' : queue'[j] <= published'
      BY <1>1, <2>1, <3>1, <3>2, <3>6 DEF Messages
    <3>8. \A i \in DOMAIN cast, j \in DOMAIN queue' : cast[i] < queue'[j]
      BY <3>1, <3>4, <3>6 DEF OrderInv
    <3>9. \A s \in Streams : \A m \in missed[s] : \A j \in DOMAIN queue' : m < queue'[j]
      BY <3>1, <3>5, <3>6 DEF OrderInv
    <3>10. Increasing(cast')
      BY <2>1 DEF OrderInv
    <3> QED
      BY <2>1, <3>3, <3>4, <3>5, <3>7, <3>8, <3>9, <3>10 DEF OrderInv
  <2> QED
    BY <1>2, <2>1, <2>2, <2>3 DEF Publish
<1>3. CASE Broadcast
  <2>1. PICK m \in Messages : m = Head(queue)
    BY <1>1, <1>3, TailFacts DEF Broadcast
  <2>2. /\ queue # << >> /\ queue' = Tail(queue) /\ cast' = Append(cast, m)
        /\ published' = published
        /\ \A s \in Streams : missed'[s] \subseteq missed[s] \cup {m}
    BY <1>3, <2>1 DEF Broadcast
  <2>3. /\ DOMAIN queue' = 1..(Len(queue) - 1) /\ Len(queue) \in Nat
        /\ DOMAIN queue = 1..Len(queue)
        /\ \A i \in 1..(Len(queue) - 1) : queue'[i] = queue[i + 1]
        /\ m = queue[1] /\ 1 \in DOMAIN queue
    BY <1>1, <2>1, <2>2, TailFacts
  <2>4. \A j \in DOMAIN queue' : j + 1 \in DOMAIN queue /\ 1 < j + 1
    BY <2>3
  <2>5. \A j \in DOMAIN queue' : m < queue'[j] /\ queue'[j] <= published
    BY <2>3, <2>4 DEF OrderInv, Increasing
  <2>6. Increasing(queue')
    <3>1. \A i, j \in DOMAIN queue' : i < j => i + 1 < j + 1
      BY <2>3
    <3> QED
      BY <2>3, <2>4, <3>1 DEF OrderInv, Increasing
  <2>7. \A i \in DOMAIN cast : cast[i] < m
    BY <2>3 DEF OrderInv
  <2>8. Increasing(cast')
    BY <1>1, <2>2, <2>7, AppendIncreasing DEF OrderInv
  <2>9. m <= published
    BY <2>3 DEF OrderInv
  <2>10. \A i \in DOMAIN cast' : cast'[i] = m \/ (i \in DOMAIN cast /\ cast'[i] = cast[i])
    <3>1. /\ DOMAIN cast' = 1..(Len(cast) + 1) /\ DOMAIN cast = 1..Len(cast)
          /\ Len(cast) \in Nat
          /\ \A i \in 1..Len(cast) : cast'[i] = cast[i]
          /\ cast'[Len(cast) + 1] = m
      BY <1>1, <2>2, AppendFacts
    <3> QED
      BY <3>1
  <2>11. \A i \in DOMAIN cast, j \in DOMAIN queue' : cast[i] < queue'[j]
    BY <2>3, <2>4 DEF OrderInv
  <2>12. \A i \in DOMAIN cast' :
           cast'[i] <= published' /\ \A j \in DOMAIN queue' : cast'[i] < queue'[j]
    BY <2>2, <2>5, <2>9, <2>10, <2>11 DEF OrderInv
  <2>13. \A s \in Streams : \A x \in missed'[s] :
           x <= published' /\ \A j \in DOMAIN queue' : x < queue'[j]
    <3> SUFFICES ASSUME NEW s \in Streams, NEW x \in missed'[s]
                 PROVE  x <= published' /\ \A j \in DOMAIN queue' : x < queue'[j]
      OBVIOUS
    <3>1. CASE x = m
      BY <2>2, <2>5, <2>9, <3>1
    <3>2. CASE x \in missed[s]
      BY <2>2, <2>3, <2>4, <3>2 DEF OrderInv
    <3> QED
      BY <2>2, <3>1, <3>2
  <2> QED
    BY <2>2, <2>5, <2>6, <2>8, <2>12, <2>13 DEF OrderInv
<1>4. CASE UNCHANGED <<published, queue, cast, missed>>
  BY <1>4 DEF OrderInv, Increasing
<1>5. \/ Publish \/ Broadcast
      \/ UNCHANGED <<published, queue, cast, missed>>
  BY DEF Next, HubExit, CloseAll, Open, Subscribe, Receive, EndOfStream, Disconnect,
         Unsubscribe, Signal, StopAccepting, ServerStopped, Finished, vars, hub, streams
<1> QED
  BY <1>2, <1>3, <1>4, <1>5

\* The messages a stream was owed were broadcast.
LEMMA OwedCast ==
  ASSUME Inv, NEW s \in Streams, NEW d \in Owed(s)
  PROVE  \E i \in DOMAIN cast : d = cast[i]
<1>1. PICK i \in (from[s] + 1)..Len(cast) : d = cast[i]
  BY DEF Owed
<1>2. from[s] \in Nat /\ Len(cast) \in Nat /\ DOMAIN cast = 1..Len(cast)
  BY Counts DEF Inv, TypeOK
<1>3. i \in DOMAIN cast
  BY <1>2
<1> QED
  BY <1>1, <1>3

\* One message more goes to those with room, is missed by those without, and is
\* beyond what those that have left can still get.
LEMMA BroadcastStream ==
  ASSUME Inv, OrderInv, Broadcast, NEW s \in Streams, StreamInv(s)
  PROVE  StreamInv(s)'
<1>1. /\ queue \in Seq(Messages) /\ cast \in Seq(Messages) /\ queue # << >>
      /\ got[s] \in Seq(Messages) /\ buf[s] \in Seq(Messages)
      /\ Delivered(s) \in Seq(Messages) /\ missed[s] \subseteq Messages
      /\ from[s] \in Nat /\ from[s] <= Len(cast)
  BY DeliveredType DEF Inv, TypeOK, Broadcast, StreamInv
<1>2. PICK m \in Messages : m = Head(queue)
  BY <1>1, TailFacts
<1>3. /\ cast' = Append(cast, m)
      /\ buf'[s] = IF s \in Ready THEN Append(buf[s], m) ELSE buf[s]
      /\ missed'[s] = IF s \in subs \ Ready THEN missed[s] \cup {m} ELSE missed[s]
      /\ UNCHANGED <<subs, from, got, pc>>
  BY <1>2 DEF Broadcast
<1>4. m = queue[1] /\ 1 \in DOMAIN queue
  BY <1>1, <1>2, TailFacts
<1>5. m \notin missed[s] /\ \A i \in DOMAIN cast : cast[i] < m
  BY <1>1, <1>4 DEF OrderInv, Messages
<1>6. {cast'[i] : i \in (from'[s] + 1)..Len(cast')}
        = {cast[i] : i \in (from[s] + 1)..Len(cast)} \cup {m}
  <2>1. /\ Len(cast') = Len(cast) + 1 /\ Len(cast) \in Nat
        /\ \A i \in 1..Len(cast) : cast'[i] = cast[i]
        /\ cast'[Len(cast) + 1] = m
    BY <1>1, <1>3, AppendFacts
  <2>2. \A i \in (from[s] + 1)..(Len(cast) + 1) :
          i \in (from[s] + 1)..Len(cast) \/ i = Len(cast) + 1
    BY <1>1, <2>1
  <2>3. /\ Len(cast) + 1 \in (from[s] + 1)..(Len(cast) + 1)
        /\ (from[s] + 1)..Len(cast) \subseteq (from[s] + 1)..(Len(cast) + 1)
        /\ (from[s] + 1)..Len(cast) \subseteq 1..Len(cast)
    BY <1>1, <2>1
  <2> QED
    BY <1>3, <2>1, <2>2, <2>3
<1>7. \A d \in Owed(s) : d < m
  BY <1>5, OwedCast
<1>8. from'[s] <= Len(cast')
  BY <1>1, <1>3, AppendFacts
<1>9. CASE s \in Ready
  <2>1. Delivered(s)' = Append(Delivered(s), m)
    <3>1. buf'[s] = Append(buf[s], m) /\ got'[s] = got[s]
      BY <1>3, <1>9
    <3>2. got[s] \o Append(buf[s], m) = Append(got[s] \o buf[s], m)
      BY <1>1, ConcatAppend
    <3>3. Delivered(s)' = got'[s] \o buf'[s]
      BY DEF Delivered
    <3> QED
      BY <3>1, <3>2, <3>3, Zenon DEF Delivered
  <2>2. Owed(s)' = Owed(s) \cup {m} /\ s \in subs
    BY <1>3, <1>5, <1>6, <1>9 DEF Owed, Ready
  <2>3. Range(Delivered(s))' = Range(Delivered(s)) \cup {m}
    BY <1>1, <2>1, AppendRange
  <2>4. Range(Delivered(s)) = Owed(s)
    BY <2>2 DEF StreamInv, Exact
  <2>5. \A i \in DOMAIN Delivered(s) : Delivered(s)[i] < m
    BY <1>7, <2>4 DEF Range
  <2>6. Increasing(Delivered(s))'
    BY <1>1, <2>1, <2>5, AppendIncreasing DEF StreamInv, Exact
  <2>7. Range(Delivered(s))' = Owed(s)'
    BY <2>2, <2>3, <2>4
  <2>8. pc'[s] \notin {"idle", "accepted"}
    BY <1>3, <2>2 DEF Inv, ChannelInv
  <2> QED
    BY <1>8, <2>6, <2>7, <2>8 DEF StreamInv, Exact
<1>10. CASE s \notin Ready
  <2>1. Delivered(s)' = Delivered(s)
    BY <1>3, <1>10 DEF Delivered
  <2>2. CASE s \in subs
    <3>1. Owed(s)' = Owed(s)
      <4>1. m \notin Owed(s)
        <5>1. Owed(s) \subseteq Messages
          BY <1>1, OwedCast
        <5> QED
          BY <1>7, <5>1 DEF Messages
      <4> QED
        BY <1>3, <1>6, <1>10, <2>2, <4>1 DEF Owed
    <3> QED
      BY <1>3, <1>8, <2>1, <3>1 DEF StreamInv, Exact
  <2>3. CASE s \notin subs
    <3>1. Owed(s)' = Owed(s) \cup {m}
      BY <1>3, <1>5, <1>6, <2>3 DEF Owed
    <3>2. \A d \in Range(Delivered(s)) : d < m
      BY <1>7 DEF StreamInv, Exact
    <3> QED
      BY <1>3, <1>8, <2>1, <2>3, <3>1, <3>2 DEF StreamInv, Exact
  <2> QED
    BY <2>2, <2>3
<1> QED
  BY <1>9, <1>10

\* A new subscriber has got nothing and is owed nothing.
LEMMA SubscribeStream ==
  ASSUME Inv, NEW s \in Streams, Subscribe(s), StreamInv(s)
  PROVE  StreamInv(s)'
<1>1. /\ pc[s] = "accepted" /\ from'[s] = Len(cast) /\ pc'[s] = "loop"
      /\ UNCHANGED <<cast, got, buf, missed>>
  BY DEF Subscribe, hub, Inv, TypeOK
<1>2. Len(cast) \in Nat
  BY Counts
<1>3. Delivered(s)' = << >>
  BY <1>1 DEF StreamInv, Delivered
<1>4. Owed(s)' = {}
  BY <1>1, <1>2 DEF Owed
<1>5. Range(<< >>) = {} /\ Increasing(<< >>)
  BY DEF Range, Increasing
<1> QED
  BY <1>1, <1>2, <1>3, <1>4, <1>5 DEF StreamInv, Exact

\* A stream keeps what it was owed and what it got when neither changes, and a message
\* that goes from the buffer to the client stays delivered.
LEMMA QuietStream ==
  ASSUME Inv, [Next]_vars, ~Broadcast, NEW s \in Streams, ~Subscribe(s), StreamInv(s)
  PROVE  StreamInv(s)'
<1>1. /\ cast' = cast /\ missed' = missed
  BY DEF Next, Publish, HubExit, CloseAll, Open, Subscribe, Receive, EndOfStream, Disconnect,
         Unsubscribe, Signal, StopAccepting, ServerStopped, Finished, vars, hub, streams
<1>2. from'[s] = from[s] /\ (s \in subs' => s \in subs)
  BY DEF Next, Publish, HubExit, CloseAll, Open, Subscribe, Receive, EndOfStream, Disconnect,
         Unsubscribe, Signal, StopAccepting, ServerStopped, Finished, vars, hub, streams,
         Inv, TypeOK
<1>3. pc'[s] \in {"idle", "accepted"} => pc[s] \in {"idle", "accepted"}
  BY DEF Next, Publish, HubExit, CloseAll, Open, Subscribe, Receive, EndOfStream, Disconnect,
         Unsubscribe, Signal, StopAccepting, ServerStopped, Finished, vars, hub, streams,
         Inv, TypeOK
<1>4. Owed(s)' = Owed(s)
  BY <1>1, <1>2 DEF Owed
<1>5. Delivered(s)' = Delivered(s)
  <2>1. CASE Receive(s)
    <3>1. got[s] \in Seq(Messages) /\ buf[s] \in Seq(Messages) /\ buf[s] # << >>
      BY <2>1 DEF Inv, TypeOK, Receive
    <3>2. got'[s] = Append(got[s], Head(buf[s])) /\ buf'[s] = Tail(buf[s])
      BY <2>1 DEF Inv, TypeOK, Receive
    <3>3. Append(got[s], Head(buf[s])) \o Tail(buf[s]) = got[s] \o buf[s]
      BY <3>1, ConcatShift
    <3> QED
      BY <3>2, <3>3 DEF Delivered
  <2>2. CASE ~Receive(s)
    <3>1. got'[s] = got[s] /\ buf'[s] = buf[s]
      BY <2>2 DEF Next, Publish, HubExit, CloseAll, Open, Subscribe, Receive, EndOfStream,
           Disconnect, Unsubscribe, Signal, StopAccepting, ServerStopped, Finished, vars,
           hub, streams, Inv, TypeOK
    <3> QED
      BY <3>1 DEF Delivered
  <2> QED
    BY <2>1, <2>2
<1> QED
  BY <1>1, <1>2, <1>3, <1>4, <1>5 DEF StreamInv, Exact

\* Every dashboard gets what was broadcast while it was subscribed, in the order of
\* Publish and once, but for what found its own buffer full.
THEOREM StreamCorrect == Spec => []StreamExact
<1>1. Init => DeliveryInv
  <2> SUFFICES ASSUME Init PROVE DeliveryInv
    OBVIOUS
  <2>1. OrderInv
    BY DEF Init, OrderInv, Increasing
  <2>2. ASSUME NEW s \in Streams PROVE StreamInv(s)
    <3>1. Delivered(s) = << >> /\ from[s] = 0 /\ Len(cast) = 0
      BY DEF Init, Delivered
    <3>2. Owed(s) = {}
      BY <3>1 DEF Owed, Init
    <3>3. Range(<< >>) = {} /\ Increasing(<< >>)
      BY DEF Range, Increasing
    <3> QED
      BY <3>1, <3>2, <3>3 DEF StreamInv, Exact
  <2> QED
    BY <2>1, <2>2 DEF DeliveryInv
<1>2. Inv /\ DeliveryInv /\ [Next]_vars => DeliveryInv'
  <2> SUFFICES ASSUME Inv, DeliveryInv, [Next]_vars PROVE DeliveryInv'
    OBVIOUS
  <2>1. OrderInv'
    BY OrderStep DEF DeliveryInv
  <2>2. ASSUME NEW s \in Streams PROVE StreamInv(s)'
    BY BroadcastStream, SubscribeStream, QuietStream DEF DeliveryInv
  <2> QED
    BY <2>1, <2>2 DEF DeliveryInv
<1>3. DeliveryInv => StreamExact
  BY DEF DeliveryInv, StreamInv, Exact, StreamExact
<1> QED
  BY <1>1, <1>2, <1>3, Invariance, PTL DEF Spec
================================================================================
