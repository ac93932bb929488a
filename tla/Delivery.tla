--------------------------------- MODULE Delivery ---------------------------------
(***************************************************************************)
(* What the path of a frame promises, whatever channels, goroutines and    *)
(* contexts it is made of: captureLoop appends to one stream of frames,    *)
(* the detector and the state engine each follow it from its beginning at  *)
(* their own pace, and some of the alerts that the detector raises on what *)
(* it has seen are stored, one at a time.  FrameFlow implements it.        *)
(***************************************************************************)
EXTENDS Naturals, Sequences

CONSTANTS
  Frames,  \* numbers in the order of capture
  Events   \* numbers of the alerts raised on one frame

VARIABLES
  sent,    \* the stream
  closed,  \* nothing is sent any more
  cut,     \* a signal has come
  got,     \* per sink: the frames it has processed
  ended,   \* sinks that have ended
  writing, \* the alert that is being stored, if any
  stored   \* alerts in the database, each a frame and a number

vars == <<sent, closed, cut, got, ended, writing, stored>>

Sinks == {"detector", "state"}

Init ==
  /\ sent = << >> /\ stored = << >>
  /\ closed = FALSE /\ cut = FALSE
  /\ got = [s \in Sinks |-> << >>]
  /\ ended = {} /\ writing = {}

\* The frame comes after all of the sequence.
Newer(f, seq) == \A i \in DOMAIN seq : seq[i] < f

Holds(seq, f) == \E i \in DOMAIN seq : seq[i] = f

\* Alert a was raised before alert b.
Before(a, b) == a[1] < b[1] \/ (a[1] = b[1] /\ a[2] < b[2])

\* The alert comes after all of the sequence.
After(a, seq) == \A i \in DOMAIN seq : Before(seq[i], a)

\* Captured frames may be lost before they are sent, and never come again.
Send(f) ==
  /\ ~closed /\ Newer(f, sent)
  /\ sent' = Append(sent, f)
  /\ UNCHANGED <<closed, cut, got, ended, writing, stored>>

Close ==
  /\ closed' = TRUE
  /\ UNCHANGED <<sent, cut, got, ended, writing, stored>>

Cut ==
  /\ cut' = TRUE
  /\ UNCHANGED <<sent, closed, got, ended, writing, stored>>

\* The next frame of the stream, as far as the sink is concerned.
Deliver(s) ==
  /\ s \notin ended
  /\ Len(got[s]) < Len(sent)
  /\ got' = [got EXCEPT ![s] = Append(@, sent[Len(@) + 1])]
  /\ UNCHANGED <<sent, closed, cut, ended, writing, stored>>

\* Only a signal ends a sink before the end of the stream.
End(s) ==
  /\ s \notin ended
  /\ cut \/ (closed /\ got[s] = sent)
  /\ ended' = ended \cup {s}
  /\ UNCHANGED <<sent, closed, cut, got, writing, stored>>

\* An alert on a frame that the detector has got begins to be stored, in the order in
\* which alerts are raised and never again; none begins after a signal.
Write(a) ==
  /\ ~cut /\ writing = {}
  /\ Holds(got["detector"], a[1]) /\ After(a, stored)
  /\ writing' = {a}
  /\ UNCHANGED <<sent, closed, cut, got, ended, stored>>

\* The one under way is stored, although a signal has come meanwhile, or is not.
Store(a) ==
  /\ writing = {a} /\ writing' = {}
  /\ stored' = Append(stored, a) \/ stored' = stored
  /\ UNCHANGED <<sent, closed, cut, got, ended>>

Next ==
  \/ \E f \in Frames : Send(f)
  \/ \E a \in Frames \X Events : Write(a) \/ Store(a)
  \/ \E s \in Sinks : Deliver(s) \/ End(s)
  \/ Close \/ Cut

Spec == Init /\ [][Next]_vars
================================================================================
