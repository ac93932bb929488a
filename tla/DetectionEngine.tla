---------------------------- MODULE DetectionEngine ----------------------------
(***************************************************************************)
(* The detection engine (internal/detector/detector.go): one dispatch      *)
(* goroutine takes frames, runs every registered rule on each, and emits   *)
(* the rules' events on a bounded channel after deduplicating them.        *)
(* Other goroutines flip the engine's two atomics (enabled, dedupWindow)   *)
(* and read the alerts channel at any moment, so every atomic load and the *)
(* locked decision of emit is a step of its own.                           *)
(*                                                                         *)
(* A frame is what the rules make of it: Process returns any sequence of   *)
(* at most MaxRuleEvents events, a nil among them or none (also the        *)
(* outcome of a panic, which processRule recovers from).  The uint64       *)
(* frameCount only matters modulo the sweep interval; phase is that        *)
(* remainder.                                                              *)
(***************************************************************************)
EXTENDS Integers, Sequences, FiniteSets

CONSTANTS
  RuleNames,        \* names of the rules main may register
  Events,           \* security events the rules can produce (records)
  Nil,              \* a nil *SecurityEvent
  None,             \* no time recorded
  Windows,          \* dedup windows the API may set (whole seconds)
  AlertCap,         \* capacity of the alerts channel
  MaxDedupEntries,  \* maxDedupEntries (10000)
  SweepInterval,    \* dedupSweepFrameInterval (1000)
  MaxRuleEvents,    \* events one Process call returns at most
  MaxClock          \* bound on time

\* Of an event, the key keeps its type and two addresses (Nil for none); what
\* else the record holds does not count.
DedupKey(e) == <<e.EventType, e.SrcMAC, e.BSSID>>

Keys == {DedupKey(e) : e \in Events}

Upto(S, n) == UNION {[1..m -> S] : m \in 0..n}

\* Events one frame can put through emit.
PerFrame == Cardinality(RuleNames) * MaxRuleEvents

ASSUME EngineAssumption ==
  /\ IsFiniteSet(RuleNames)
  /\ IsFiniteSet(Events)
  /\ Nil \notin Events
  /\ None \notin Int
  /\ Windows \subseteq Int
  /\ AlertCap \in Nat \ {0}
  /\ MaxDedupEntries \in Nat
  /\ SweepInterval \in Nat \ {0}
  /\ MaxRuleEvents \in Nat
  /\ MaxClock \in Nat

\* The limit leaves room for one interval of frames: 1000 frames, five rules of
\* one event each, 10000 entries.
ASSUME SweepAssumption == SweepInterval * PerFrame <= MaxDedupEntries

VARIABLES
  rules,        \* registered rules, in registration order
  pc,           \* where the dispatch goroutine is
  todo,         \* rules the current frame has still to visit
  events,       \* events of the current rule not yet through emit
  win,          \* emit's local copy of the window
  phase,        \* frameCount % SweepInterval
  dedup,        \* dedup map: key -> time, None when absent
  enabled,      \* e.enabled
  window,       \* e.dedupWindow
  sweepEvery,   \* the ticker's period, fixed by Run
  tick,         \* a value waits in ticker.C
  alerts,       \* contents of the alerts channel
  alertsClosed, \* close(e.alerts) has run
  ctxDone,      \* ctx is cancelled
  framesClosed, \* the frames channel is closed and empty
  clock,        \* seconds since Run
  \* history variables, never read by the engine
  recorded,     \* per key: when emit last recorded it, or None
  minWin,       \* per key: smallest window in force since then
  evicted,      \* keys a full map made a sweep forget since then
  sentOff       \* alerts sent since the engine was disabled; 0 while enabled

code == <<rules, pc, todo, events, win, phase, dedup, enabled, window,
          sweepEvery, tick, alerts, alertsClosed, ctxDone, framesClosed, clock>>
hist == <<recorded, minWin, evicted, sentOff>>
vars == <<code, hist>>

\* What only the dispatch goroutine writes, and what only others write.
work  == <<pc, todo, events, win, phase>>
knobs == <<enabled, window, ctxDone, framesClosed, clock>>

Size(d) == Cardinality({k \in Keys : d[k] # None})

Least(a, b) == IF a < b THEN a ELSE b

TypeOK ==
  /\ rules \in Seq(RuleNames)
  /\ pc \in {"new", "select", "work", "window", "decide", "send", "done"}
  /\ todo \in Seq(RuleNames)
  /\ events \in Seq(Events \cup {Nil})
  /\ win \in Int
  /\ phase \in 0..(SweepInterval - 1)
  /\ dedup \in [Keys -> Nat \cup {None}]
  /\ enabled \in BOOLEAN
  /\ window \in Int /\ window > 0
  /\ sweepEvery \in Nat
  /\ tick \in BOOLEAN
  /\ alerts \in Seq(Events)
  /\ Len(alerts) <= AlertCap
  /\ alertsClosed \in BOOLEAN
  /\ ctxDone \in BOOLEAN
  /\ framesClosed \in BOOLEAN
  /\ clock \in Nat
  /\ recorded \in [Keys -> Nat \cup {None}]
  /\ minWin \in [Keys -> Int]
  /\ evicted \in SUBSET Keys
  /\ sentOff \in Nat

--------------------------------------------------------------------------------
(* Construction and configuration. *)

\* NewEngine: an empty map and channel, the configured window and switch.
Init ==
  /\ rules = << >> /\ todo = << >> /\ events = << >> /\ alerts = << >>
  /\ pc = "new"
  /\ phase = 0
  /\ dedup = [k \in Keys |-> None]
  /\ enabled \in BOOLEAN
  /\ window \in {w \in Windows : w > 0}
  /\ win = window
  /\ sweepEvery = 0
  /\ tick = FALSE
  /\ alertsClosed = FALSE /\ ctxDone = FALSE /\ framesClosed = FALSE
  /\ clock = 0
  /\ recorded = [k \in Keys |-> None]
  /\ minWin = [k \in Keys |-> window]
  /\ evicted = {}
  /\ sentOff = 0

\* Register: refused once the engine runs or when the name is taken.
Register(r) ==
  /\ pc = "new"
  /\ \A i \in 1..Len(rules) : rules[i] # r
  /\ rules' = Append(rules, r)
  /\ UNCHANGED <<work, dedup, knobs, sweepEvery, tick, alerts, alertsClosed, hist>>

\* Run: the ticker's period is taken from the window once, at least a second.
Run ==
  /\ pc = "new"
  /\ pc' = "select"
  /\ sweepEvery' = (IF window > 1 THEN window ELSE 1)
  /\ UNCHANGED <<rules, todo, events, win, phase, dedup, knobs, tick, alerts,
                 alertsClosed, hist>>

\* SetEnabled, from an API request or the restore of persisted settings.
SetEnabled(v) ==
  /\ enabled' = v
  /\ sentOff' = (IF v THEN 0 ELSE sentOff)
  /\ UNCHANGED <<rules, work, dedup, window, ctxDone, framesClosed, clock,
                 sweepEvery, tick, alerts, alertsClosed, recorded, minWin, evicted>>

\* SetDedupWindow: a window that is not positive is ignored.
SetDedupWindow(d) ==
  /\ d > 0
  /\ window' = d
  /\ minWin' = [k \in Keys |-> Least(minWin[k], d)]
  /\ UNCHANGED <<rules, work, dedup, enabled, ctxDone, framesClosed, clock,
                 sweepEvery, tick, alerts, alertsClosed, recorded, evicted, sentOff>>

--------------------------------------------------------------------------------
(* sweepDedup, one locked section. *)

\* Mutant: the cutoff leaves out the window.
FreshNow(k) == dedup[k] # None /\ ~(dedup[k] < clock)

\* Entries strictly older than two windows go first.
Fresh(k) == dedup[k] # None /\ ~(dedup[k] < clock - 2 * window)

\* old holds the oldest n keys of S: what slices.SortFunc puts in front (ties
\* in any order).
Oldest(old, S, n) ==
  /\ old \subseteq S
  /\ Cardinality(old) = n
  /\ \A k \in old, l \in S \ old : dedup[k] <= dedup[l]

\* Mutant: an overfull map loses a quarter of its entries.
SurvivorsQuarter(left) ==
  LET fresh == {k \in Keys : Fresh(k)} IN
  IF Cardinality(fresh) <= MaxDedupEntries
  THEN left = fresh
  ELSE \E old \in SUBSET fresh :
         /\ Oldest(old, fresh, Cardinality(fresh) \div 4)
         /\ left = fresh \ old

\* The entries the map keeps after a sweep.
Survivors(left) ==
  LET fresh == {k \in Keys : Fresh(k)} IN
  IF Cardinality(fresh) <= MaxDedupEntries
  THEN left = fresh
  ELSE \E old \in SUBSET fresh :
         /\ Oldest(old, fresh, Cardinality(fresh) \div 2)
         /\ left = fresh \ old

SweepDedup ==
  \E left \in SUBSET Keys :
    /\ Survivors(left)
    /\ dedup' = [k \in Keys |-> IF k \in left THEN dedup[k] ELSE None]
    /\ evicted' = evicted \cup {k \in Keys : Fresh(k) /\ k \notin left}

NoSweep == UNCHANGED <<dedup, evicted>>

--------------------------------------------------------------------------------
(* The dispatch goroutine. *)

\* case <-ctx.Done(), and the closed frames channel: return, close(e.alerts).
Exit ==
  /\ pc = "select"
  /\ ctxDone \/ framesClosed
  /\ pc' = "done"
  /\ alertsClosed' = TRUE
  /\ UNCHANGED <<rules, todo, events, win, phase, dedup, knobs, sweepEvery,
                 tick, alerts, hist>>

\* case <-ticker.C
SelectTicker ==
  /\ pc = "select"
  /\ tick
  /\ tick' = FALSE
  /\ SweepDedup
  /\ UNCHANGED <<rules, work, knobs, sweepEvery, alerts, alertsClosed,
                 recorded, minWin, sentOff>>

\* case frame := <-frames: dispatch counts the frame and turns to the rules.
SelectFrame ==
  /\ pc = "select"
  /\ ~framesClosed
  /\ pc' = "work"
  /\ todo' = rules
  /\ phase' = (IF phase + 1 = SweepInterval THEN 0 ELSE phase + 1)
  /\ UNCHANGED <<rules, events, win, dedup, knobs, sweepEvery, tick, alerts,
                 alertsClosed, hist>>

\* rule.Process on the frame; a panic leaves no events.
ProcessRule ==
  /\ pc = "work" /\ events = << >> /\ todo # << >>
  /\ \E evs \in Upto(Events \cup {Nil}, MaxRuleEvents) : events' = evs
  /\ todo' = Tail(todo)
  /\ UNCHANGED <<rules, pc, win, phase, dedup, knobs, sweepEvery, tick, alerts,
                 alertsClosed, hist>>

\* Mutant: no sweep at the end of a frame.
EndFrameNoSweep ==
  /\ pc = "work" /\ events = << >> /\ todo = << >>
  /\ NoSweep
  /\ pc' = "select"
  /\ UNCHANGED <<rules, todo, events, win, phase, knobs, sweepEvery, tick,
                 alerts, alertsClosed, recorded, minWin, sentOff>>

\* The frame is done; every SweepInterval-th frame ends with a sweep.
EndFrame ==
  /\ pc = "work" /\ events = << >> /\ todo = << >>
  /\ IF phase = 0 THEN SweepDedup ELSE NoSweep
  /\ pc' = "select"
  /\ UNCHANGED <<rules, todo, events, win, phase, knobs, sweepEvery, tick,
                 alerts, alertsClosed, recorded, minWin, sentOff>>

\* emit returns early for a nil event and while the engine is disabled.
EmitSkip ==
  /\ pc = "work" /\ events # << >>
  /\ Head(events) = Nil \/ ~enabled
  /\ events' = Tail(events)
  /\ UNCHANGED <<rules, pc, todo, win, phase, dedup, knobs, sweepEvery, tick,
                 alerts, alertsClosed, hist>>

\* Mutant: the switch is not looked at.
EmitEnabledAlways ==
  /\ pc = "work" /\ events # << >>
  /\ Head(events) # Nil
  /\ pc' = "window"
  /\ UNCHANGED <<rules, todo, events, win, phase, dedup, knobs, sweepEvery,
                 tick, alerts, alertsClosed, hist>>

\* emit found the engine enabled.
EmitEnabled ==
  /\ pc = "work" /\ events # << >>
  /\ Head(events) # Nil /\ enabled
  /\ pc' = "window"
  /\ UNCHANGED <<rules, todo, events, win, phase, dedup, knobs, sweepEvery,
                 tick, alerts, alertsClosed, hist>>

\* window := e.DedupWindow()
EmitWindow ==
  /\ pc = "window"
  /\ win' = window
  /\ pc' = "decide"
  /\ UNCHANGED <<rules, todo, events, phase, dedup, knobs, sweepEvery, tick,
                 alerts, alertsClosed, hist>>

Suppressed(k) == dedup[k] # None /\ clock - dedup[k] < win

\* Mutant: a suppressed duplicate renews its entry.
EmitSuppressRenew ==
  /\ pc = "decide"
  /\ Suppressed(DedupKey(Head(events)))
  /\ dedup' = [dedup EXCEPT ![DedupKey(Head(events))] = clock]
  /\ pc' = "work"
  /\ events' = Tail(events)
  /\ UNCHANGED <<rules, todo, win, phase, knobs, sweepEvery, tick,
                 alerts, alertsClosed, hist>>

\* The locked decision, first outcome: a duplicate within the window.
EmitSuppress ==
  /\ pc = "decide"
  /\ Suppressed(DedupKey(Head(events)))
  /\ pc' = "work"
  /\ events' = Tail(events)
  /\ UNCHANGED <<rules, todo, win, phase, dedup, knobs, sweepEvery, tick,
                 alerts, alertsClosed, hist>>

\* Second outcome: the time is recorded, before anything is sent.
EmitRecord ==
  /\ pc = "decide"
  /\ LET k == DedupKey(Head(events)) IN
       /\ ~Suppressed(k)
       /\ dedup' = [dedup EXCEPT ![k] = clock]
       /\ recorded' = [recorded EXCEPT ![k] = clock]
       /\ minWin' = [minWin EXCEPT ![k] = window]
       /\ evicted' = evicted \ {k}
  /\ pc' = "send"
  /\ UNCHANGED <<rules, todo, events, win, phase, knobs, sweepEvery, tick,
                 alerts, alertsClosed, sentOff>>

\* The non-blocking send: a full channel drops the event.
EmitSend ==
  /\ pc = "send"
  /\ IF Len(alerts) < AlertCap
     THEN /\ alerts' = Append(alerts, Head(events))
          /\ sentOff' = (IF enabled THEN 0 ELSE sentOff + 1)
     ELSE UNCHANGED <<alerts, sentOff>>
  /\ events' = Tail(events)
  /\ pc' = "work"
  /\ UNCHANGED <<rules, todo, win, phase, dedup, knobs, sweepEvery, tick,
                 alertsClosed, recorded, minWin, evicted>>

--------------------------------------------------------------------------------
(* The surroundings. *)

\* consumeAlerts takes the next alert.
ReceiveAlert ==
  /\ alerts # << >>
  /\ alerts' = Tail(alerts)
  /\ UNCHANGED <<rules, work, dedup, knobs, sweepEvery, tick, alertsClosed, hist>>

Cancel ==
  /\ ~ctxDone
  /\ ctxDone' = TRUE
  /\ UNCHANGED <<rules, work, dedup, enabled, window, framesClosed, clock,
                 sweepEvery, tick, alerts, alertsClosed, hist>>

CloseFrames ==
  /\ ~framesClosed
  /\ framesClosed' = TRUE
  /\ UNCHANGED <<rules, work, dedup, enabled, window, ctxDone, clock,
                 sweepEvery, tick, alerts, alertsClosed, hist>>

\* A second passes; the ticker's one-slot channel keeps at most one tick.
Tick ==
  /\ pc # "new"
  /\ clock < MaxClock
  /\ clock' = clock + 1
  /\ tick' = (tick \/ clock' % sweepEvery = 0)
  /\ UNCHANGED <<rules, work, dedup, enabled, window, ctxDone, framesClosed,
                 sweepEvery, alerts, alertsClosed, hist>>

Next ==
  \/ \E r \in RuleNames : Register(r)
  \/ Run
  \/ \E v \in BOOLEAN : SetEnabled(v)
  \/ \E d \in Windows : SetDedupWindow(d)
  \/ Exit \/ SelectTicker \/ SelectFrame \/ ProcessRule \/ EndFrame
  \/ EmitSkip \/ EmitEnabled \/ EmitWindow \/ EmitSuppress \/ EmitRecord \/ EmitSend
  \/ ReceiveAlert \/ Cancel \/ CloseFrames \/ Tick

Spec == Init /\ [][Next]_vars

--------------------------------------------------------------------------------
(* Properties. *)

\* emit records a key, and then tries to send its event, at least the smallest
\* window apart that was in force since the last time, whatever SetDedupWindow and
\* the sweeps did meanwhile; only a sweep of an overfull map may forget a key early.
DedupSpacing ==
  [][\A k \in Keys :
       /\ recorded[k] # None
       /\ k \notin evicted
       /\ pc = "decide" /\ pc' = "send" /\ DedupKey(Head(events)) = k
       => clock - recorded[k] >= minWin[k]]_vars

\* emit suppresses an event only when its key was recorded less than a window ago:
\* a stream of duplicates never keeps itself suppressed.  The record does not say
\* that there was an alert: emit makes it before the send, which drops the event
\* when the channel is full, and then the key is silent for a window after nothing.
SuppressionNeedsRecentRecord ==
  [][\A k \in Keys :
       pc = "decide" /\ pc' = "work" /\ DedupKey(Head(events)) = k
       => recorded[k] # None /\ clock - recorded[k] < win]_vars

\* The map outgrows maxDedupEntries by no more than what one sweep interval of
\* frames can add.
DedupBounded == Size(dedup) <= MaxDedupEntries + SweepInterval * PerFrame

\* A sweep always brings the map back to maxDedupEntries, although it removes
\* only half of what it finds.
SweepRestoresLimit ==
  [][\/ pc = "work" /\ pc' = "select" /\ phase = 0
     \/ tick /\ ~tick'
     => Size(dedup') <= MaxDedupEntries]_vars

\* Once SetEnabled(false) has returned, the engine sends at most the one alert
\* whose emit had already passed the check.
DisabledQuiesces == sentOff <= 1
================================================================================
