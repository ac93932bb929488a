---------------------------------- MODULE Hub ----------------------------------
(***************************************************************************)
(* The SSE hub (internal/api/sse.go), the stream handlers that subscribe   *)
(* to it (handlers_stream.go) and as much of the HTTP server's shutdown    *)
(* (server.go) as decides whether a handler can still start.               *)
(*                                                                         *)
(* A message is its number in the order of Publish.  A stream is one       *)
(* request for /api/stream, so it is opened at most once.                  *)
(***************************************************************************)
EXTENDS Naturals, Sequences, Functions

CONSTANTS
  Streams,      \* requests for /api/stream
  MaxMessages,  \* messages published
  QueueCap,     \* capacity of publishQueue (256)
  BufferCap     \* subscriberBuffer (64)

ASSUME HubAssumption ==
  MaxMessages \in Nat /\ QueueCap \in Nat \ {0} /\ BufferCap \in Nat \ {0}

VARIABLES
  ctxDone,         \* signalCtx is cancelled
  published,       \* messages given to Publish
  queue,           \* publishQueue
  hubPc,           \* Hub.Run
  subs,            \* the map: streams that broadcast sees
  buf, closed,     \* the subscribers' channels, and which are closed
  pc,              \* per stream: where its handler is
  srvPc,           \* Server.Run
  \* history
  panicked,        \* a send on a closed channel or a second close
  cast,            \* messages broadcast
  from,            \* per stream: how many of those came before it subscribed
  missed,          \* per stream: messages dropped because its buffer was full
  got              \* per stream: messages written to the client

hub     == <<queue, hubPc, cast>>
streams == <<subs, buf, closed, from, missed, got, panicked>>
vars    == <<ctxDone, published, hub, streams, pc, srvPc>>

Messages == 1..MaxMessages

TypeOK ==
  /\ ctxDone \in BOOLEAN
  /\ published \in 0..MaxMessages
  /\ queue \in Seq(Messages) /\ Len(queue) <= QueueCap
  /\ hubPc \in {"run", "close", "done"}
  /\ subs \subseteq Streams /\ closed \subseteq Streams
  /\ buf \in [Streams -> Seq(Messages)]
  /\ \A s \in Streams : Len(buf[s]) <= BufferCap
  /\ pc \in [Streams -> {"idle", "accepted", "loop", "leaving", "done"}]
  /\ srvPc \in {"run", "wait", "done"}
  /\ panicked \in BOOLEAN
  /\ cast \in Seq(Messages)
  /\ from \in [Streams -> 0..MaxMessages]
  /\ missed \in [Streams -> SUBSET Messages]
  /\ got \in [Streams -> Seq(Messages)]

\* NewHub, before Run and the server start.
Init ==
  /\ ctxDone = FALSE /\ published = 0
  /\ queue = << >> /\ hubPc = "run" /\ cast = << >>
  /\ subs = {} /\ closed = {} /\ panicked = FALSE
  /\ buf = [s \in Streams |-> << >>] /\ got = buf
  /\ from = [s \in Streams |-> 0]
  /\ missed = [s \in Streams |-> {}]
  /\ pc = [s \in Streams |-> "idle"]
  /\ srvPc = "run"

--------------------------------------------------------------------------------
(* The hub. *)

\* Publish never blocks: a full queue drops the message, also when Run is gone.
Publish ==
  /\ published < MaxMessages
  /\ published' = published + 1
  /\ queue' = IF Len(queue) < QueueCap THEN Append(queue, published + 1) ELSE queue
  /\ UNCHANGED <<ctxDone, hubPc, cast, streams, pc, srvPc>>

\* Subscribers with room for one more message.
Ready == {s \in subs : Len(buf[s]) < BufferCap}

\* Mutant: a full subscriber ends the round for everybody.
BroadcastReturn ==
  /\ hubPc = "run" /\ queue # << >>
  /\ LET m == Head(queue)
         served == IF Ready = subs THEN subs ELSE {} IN
       /\ buf' = [s \in Streams |-> IF s \in served THEN Append(buf[s], m) ELSE buf[s]]
       /\ missed' = [s \in Streams |->
                       IF s \in subs \ Ready THEN missed[s] \cup {m} ELSE missed[s]]
       /\ cast' = Append(cast, m)
  /\ queue' = Tail(queue)
  /\ panicked' = (panicked \/ Ready \cap closed # {})
  /\ UNCHANGED <<ctxDone, published, hubPc, subs, closed, from, got, pc, srvPc>>

\* Run takes a message and broadcasts it under the read lock: every subscriber
\* gets it or, when its buffer is full, misses it.
Broadcast ==
  /\ hubPc = "run" /\ queue # << >>
  /\ LET m == Head(queue) IN
       /\ buf' = [s \in Streams |-> IF s \in Ready THEN Append(buf[s], m) ELSE buf[s]]
       /\ missed' = [s \in Streams |->
                       IF s \in subs \ Ready THEN missed[s] \cup {m} ELSE missed[s]]
       /\ cast' = Append(cast, m)
  /\ queue' = Tail(queue)
  /\ panicked' = (panicked \/ subs \cap closed # {})
  /\ UNCHANGED <<ctxDone, published, hubPc, subs, closed, from, got, pc, srvPc>>

\* case <-ctx.Done()
HubExit ==
  /\ hubPc = "run" /\ ctxDone
  /\ hubPc' = "close"
  /\ UNCHANGED <<ctxDone, published, queue, cast, streams, pc, srvPc>>

\* Mutant: the map is emptied and the channels stay open.
CloseAllClearOnly ==
  /\ hubPc = "close"
  /\ hubPc' = "done"
  /\ subs' = {}
  /\ UNCHANGED <<ctxDone, published, queue, cast, closed, buf, from, missed, got,
                 panicked, pc, srvPc>>

\* Deferred closeAll, under the lock.
CloseAll ==
  /\ hubPc = "close"
  /\ hubPc' = "done"
  /\ closed' = closed \cup subs
  /\ subs' = {}
  /\ panicked' = (panicked \/ subs \cap closed # {})
  /\ UNCHANGED <<ctxDone, published, queue, cast, buf, from, missed, got, pc, srvPc>>

--------------------------------------------------------------------------------
(* handleStream. *)

\* The server hands the request to the handler, which sends the headers.
Open(s) ==
  /\ srvPc = "run" /\ pc[s] = "idle"
  /\ pc' = [pc EXCEPT ![s] = "accepted"]
  /\ UNCHANGED <<ctxDone, published, hub, streams, srvPc>>

\* Subscribe, whatever has become of the hub meanwhile; then the hello event.
Subscribe(s) ==
  /\ pc[s] = "accepted"
  /\ pc' = [pc EXCEPT ![s] = "loop"]
  /\ subs' = subs \cup {s}
  /\ from' = [from EXCEPT ![s] = Len(cast)]
  /\ UNCHANGED <<ctxDone, published, hub, buf, closed, missed, got, panicked, srvPc>>

\* case msg := <-msgCh, written to the client.
Receive(s) ==
  /\ pc[s] = "loop" /\ buf[s] # << >>
  /\ got' = [got EXCEPT ![s] = Append(@, Head(buf[s]))]
  /\ buf' = [buf EXCEPT ![s] = Tail(@)]
  /\ UNCHANGED <<ctxDone, published, hub, subs, closed, from, missed, panicked, pc, srvPc>>

\* msgCh is closed and empty.
EndOfStream(s) ==
  /\ pc[s] = "loop" /\ s \in closed /\ buf[s] = << >>
  /\ pc' = [pc EXCEPT ![s] = "leaving"]
  /\ UNCHANGED <<ctxDone, published, hub, streams, srvPc>>

\* The client has gone: r.Context() is done, or the keepalive cannot be written.
Disconnect(s) ==
  /\ pc[s] = "loop"
  /\ pc' = [pc EXCEPT ![s] = "leaving"]
  /\ UNCHANGED <<ctxDone, published, hub, streams, srvPc>>

\* Mutant: unsubscribe closes the channel too.
UnsubscribeClose(s) ==
  /\ pc[s] = "leaving"
  /\ pc' = [pc EXCEPT ![s] = "done"]
  /\ subs' = subs \ {s}
  /\ closed' = closed \cup {s}
  /\ panicked' = (panicked \/ s \in closed)
  /\ UNCHANGED <<ctxDone, published, hub, buf, from, missed, got, srvPc>>

\* Deferred unsubscribe: the channel is forgotten, not closed.
Unsubscribe(s) ==
  /\ pc[s] = "leaving"
  /\ pc' = [pc EXCEPT ![s] = "done"]
  /\ subs' = subs \ {s}
  /\ UNCHANGED <<ctxDone, published, hub, buf, closed, from, missed, got, panicked, srvPc>>

--------------------------------------------------------------------------------
(* The server and its surroundings. *)

Signal ==
  /\ ~ctxDone
  /\ ctxDone' = TRUE
  /\ UNCHANGED <<published, hub, streams, pc, srvPc>>

\* Run sees ctx.Done(): httpd.Shutdown closes the listener.  It neither cancels
\* the requests that are being served nor closes their connections.
StopAccepting ==
  /\ srvPc = "run" /\ ctxDone
  /\ srvPc' = "wait"
  /\ UNCHANGED <<ctxDone, published, hub, streams, pc>>

\* It waits until no request is left, or for ShutdownTimeout.
ServerStopped ==
  /\ srvPc = "wait"
  /\ srvPc' = "done"
  /\ UNCHANGED <<ctxDone, published, hub, streams, pc>>

HubRun == Broadcast \/ HubExit \/ CloseAll

Handler(s) == Subscribe(s) \/ Receive(s) \/ EndOfStream(s) \/ Unsubscribe(s)

\* Everything has come to its end.
Finished ==
  /\ hubPc = "done" /\ srvPc = "done"
  /\ \A s \in Streams : pc[s] \in {"idle", "done"}
  /\ UNCHANGED vars

Next ==
  \/ Publish \/ Broadcast \/ HubExit \/ CloseAll
  \/ \E s \in Streams :
       \/ Open(s) \/ Subscribe(s) \/ Receive(s)
       \/ EndOfStream(s) \/ Disconnect(s) \/ Unsubscribe(s)
  \/ Signal \/ StopAccepting \/ ServerStopped
  \/ Finished

Spec == Init /\ [][Next]_vars

\* Goroutines run, and the select of Run cannot prefer the queue to ctx.Done()
\* for ever.  A client that is connected reads what is written to it; none need
\* ever leave.
FairSpec ==
  /\ Spec
  /\ WF_vars(HubRun) /\ SF_vars(HubExit)
  /\ WF_vars(StopAccepting) /\ WF_vars(ServerStopped)
  /\ \A s \in Streams : WF_vars(Handler(s))

--------------------------------------------------------------------------------
(* Properties. *)

\* What has reached the client of s or is on its way to it.
Delivered(s) == got[s] \o buf[s]

\* What was broadcast since s subscribed and did not meet a full buffer.
Owed(s) == {cast[i] : i \in (from[s] + 1)..Len(cast)} \ missed[s]

Increasing(seq) == \A i, j \in DOMAIN seq : i < j => seq[i] < seq[j]

\* A dashboard gets every message that was broadcast while it was subscribed, in the
\* order of Publish and once, except those that found its own buffer full: another
\* slow subscriber costs it nothing.  When it has left, what it got is where that
\* stopped, with no gap before.
StreamExact ==
  \A s \in Streams :
    LET reached == Range(Delivered(s)) IN
    /\ Increasing(Delivered(s))
    /\ reached \subseteq Owed(s)
    /\ \A m \in Owed(s) \ reached, d \in reached : d < m
    /\ s \in subs => reached = Owed(s)

\* However unsubscribing, broadcasting and the end of Run fall together, no
\* channel is closed twice and nothing is sent on a closed one.
NeverPanics == ~panicked

\* A handler that was subscribed when the signal came, or in time before
\* closeAll, ends.
SubscribedEnds == \A s \in Streams : (ctxDone /\ s \in subs /\ hubPc # "done") ~> pc[s] = "done"

\* handlers_stream.go:15: "closing the browser tab or the daemon shutting down
\* both terminate the loop".
ShutdownEndsStreams == \A s \in Streams : (ctxDone /\ pc[s] = "loop") ~> pc[s] = "done"
================================================================================
