-------------------------------- MODULE FloodRule --------------------------------
(***************************************************************************)
(* The sliding-window rule that DeauthFloodRule and DisassocFloodRule share *)
(* (internal/detector/rule_flood.go).  A key is the pair of source and     *)
(* BSSID; frames of other types return before anything is counted.         *)
(***************************************************************************)
EXTENDS RuleFrames, Sequences, FiniteSets, FiniteSetsExt

CONSTANTS
  FloodKeys,
  FloodThreshold,
  FloodWindow,
  FloodMaxAge      \* windows after which a silent key is forgotten (5)

ASSUME FloodAssumption ==
  /\ FloodThreshold \in Nat \ {0}
  /\ FloodWindow \in Nat \ {0}
  /\ FloodMaxAge \in Nat \ {0}
  /\ None \notin FloodKeys

\* floodTracker
Tracker == [timestamps : Seq(Times), lastSeen : Times]

ASSUME TrackerAssumption == None \notin Tracker

VARIABLES
  tracker,     \* key -> None or [timestamps, lastSeen]
  floodCalls,  \* callCount % CleanupInterval
  floodEvent,  \* what the last frame raised: None or [key, FrameCount, Duration]
  heard        \* history: per key, the frames since its last event

floodVars == <<tracker, floodCalls, floodEvent, heard>>

FloodTypeOK ==
  /\ tracker \in [FloodKeys -> Tracker \cup {None}]
  /\ \A k \in FloodKeys :
       tracker[k] # None => Len(tracker[k].timestamps) < FloodThreshold
  /\ floodCalls \in 0..(CleanupInterval - 1)
  /\ floodEvent \in [key : FloodKeys, FrameCount : Nat, Duration : Times] \cup {None}
  /\ heard \in [FloodKeys -> Seq(Times)]

FloodInit ==
  /\ tracker = [k \in FloodKeys |-> None]
  /\ floodCalls = 0
  /\ floodEvent = None
  /\ heard = [k \in FloodKeys |-> << >>]

--------------------------------------------------------------------------------
\* cleanupStale: nothing heard for five windows.
FloodStale(tr, t) == t - tr.lastSeen > FloodMaxAge * FloodWindow

Kept(t) ==
  IF CleanupDue(floodCalls)
  THEN [k \in FloodKeys |->
          IF tracker[k] # None /\ FloodStale(tracker[k], t) THEN None ELSE tracker[k]]
  ELSE tracker

LastN(s, n) == IF Len(s) <= n THEN s ELSE SubSeq(s, Len(s) - n + 1, Len(s))

\* s from the first of the given positions on.
Onward(s, positions) == SubSeq(s, Min(positions), Len(s))

\* Mutant: the window is open at its older end.
InWindowOpen(s, t) == Onward(s, {i \in DOMAIN s : s[i] > t - FloodWindow})

\* Without the timestamps up to the first that is not before the cutoff; the frame
\* at t itself is such a one.
InWindow(s, t) == Onward(s, {i \in DOMAIN s : s[i] >= t - FloodWindow})

\* The tracker of k with the frame at t: capped, then pruned to the window.
Tracked(k, t) ==
  LET tr  == Kept(t)[k]
      old == IF tr = None THEN << >> ELSE tr.timestamps
  IN InWindow(LastN(Append(old, t), 2 * FloodThreshold), t)

\* Mutant: an event leaves the timestamps in place.
AfterEventKeep(s) == LastN(s, FloodThreshold)

\* What an event leaves of the timestamps.
AfterEvent(s) == << >>

\* process of a frame of k at t.
FloodProcess(k, t) ==
  LET recent == Tracked(k, t)
      flood  == Len(recent) >= FloodThreshold
  IN
  /\ floodCalls' = NextCall(floodCalls)
  /\ tracker' = [Kept(t) EXCEPT ![k] =
       [timestamps |-> IF flood THEN AfterEvent(recent) ELSE recent, lastSeen |-> t]]
  /\ floodEvent' = IF flood
       THEN [key |-> k, FrameCount |-> Len(recent), Duration |-> t - Head(recent)]
       ELSE None
  /\ heard' = [heard EXCEPT ![k] = IF flood THEN << >> ELSE Append(@, t)]

\* A frame of another type returns nil before anything is counted.
FloodIgnore ==
  /\ floodEvent' = None
  /\ UNCHANGED <<tracker, floodCalls, heard>>

--------------------------------------------------------------------------------
(* Properties. *)

\* Of a sequence of times, how many lie in the window that ends at t.
CountIn(s, t) == Cardinality({i \in DOMAIN s : s[i] >= t - FloodWindow})

\* Nothing is missed: whatever was capped, pruned, reset or cleaned up, no key
\* ever has threshold frames within one window since its last event.
FloodComplete == \A k \in FloodKeys : CountIn(heard[k], now) < FloodThreshold

\* The metrics of the event e, of what was heard of its key before the frame at t.
RealMetrics(e, before, t) ==
  /\ e.FrameCount >= FloodThreshold
  /\ e.FrameCount = CountIn(before, t) + 1
  /\ e.Duration <= FloodWindow
  /\ \A i \in DOMAIN before : before[i] >= t - FloodWindow => t - before[i] <= e.Duration

\* Nothing is made up and nothing is lost: an event reports at least threshold frames
\* of its key, as many as the window really holds since the key's last event, the one
\* at hand included, and a duration that reaches back to the first of them and no
\* further.  Pruning and the cap at twice the threshold take none of these away.
FloodSound ==
  [][floodEvent' # floodEvent /\ floodEvent' # None =>
       RealMetrics(floodEvent', heard[floodEvent'.key], now')]_<<now, floodVars>>
================================================================================
