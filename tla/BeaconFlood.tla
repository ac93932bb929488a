------------------------------- MODULE BeaconFlood -------------------------------
(***************************************************************************)
(* The beacon flood rule (internal/detector/rule_beacon_flood.go): counts, *)
(* per channel, the BSSIDs that beacon for the first time, in windows that *)
(* start with the first such beacon.  The samples and counts that only     *)
(* decorate an event are left out.                                         *)
(***************************************************************************)
EXTENDS RuleFrames, FiniteSets

CONSTANTS
  BeaconThreshold,
  BeaconWindow,
  LearningPeriod,
  BeaconMaxAge      \* windows, besides the learning period, until cleanup (10)

ASSUME BeaconAssumption ==
  /\ BeaconThreshold \in Nat \ {0} /\ BeaconWindow \in Nat \ {0}
  /\ LearningPeriod \in Nat /\ BeaconMaxAge \in Nat \ {0}

VARIABLES
  startedAt,    \* time of the first beacon
  known,        \* knownBSSIDs: last time each was refreshed
  chans,        \* channel -> None or its window
  beaconCalls,  \* callCount % CleanupInterval
  beaconEvent,  \* None or [channel, bssids, Duration]
  \* history
  onAir,        \* per channel and BSSID: its last beacon, if within the window
  spent         \* per channel: BSSIDs in events since the last cleanup

beaconVars == <<startedAt, known, chans, beaconCalls, beaconEvent, onAir, spent>>

Window == [windowStart : Times, lastSeen : Times,
           newBSSIDs : [BSSIDs -> Times \cup {None}]]

BeaconTypeOK ==
  /\ startedAt \in Times \cup {None}
  /\ known \in [BSSIDs -> Times \cup {None}]
  /\ chans \in [Channels -> Window \cup {None}]
  /\ beaconCalls \in 0..(CleanupInterval - 1)
  /\ beaconEvent \in [channel : Channels, bssids : SUBSET BSSIDs, Duration : Times]
                    \cup {None}
  /\ onAir \in [Channels -> [BSSIDs -> Times \cup {None}]]
  /\ spent \in [Channels -> SUBSET BSSIDs]

BeaconInit ==
  /\ startedAt = None
  /\ known = [b \in BSSIDs |-> None]
  /\ chans = [c \in Channels |-> None]
  /\ beaconCalls = 0
  /\ beaconEvent = None
  /\ onAir = [c \in Channels |-> [b \in BSSIDs |-> None]]
  /\ spent = [c \in Channels |-> {}]

--------------------------------------------------------------------------------
Present(m) == {b \in BSSIDs : m[b] # None}

\* reset: an empty window that starts now.
EmptyWindow(t) ==
  [windowStart |-> t, lastSeen |-> t, newBSSIDs |-> [b \in BSSIDs |-> None]]

\* Mutant: what a window counted is not remembered.
PromotedNothing(base, w) == base

\* promoteWindowToKnown: maps.Copy(known, newBSSIDs).
Promoted(base, w) ==
  [b \in BSSIDs |-> IF w.newBSSIDs[b] = None THEN base[b] ELSE w.newBSSIDs[b]]

\* cleanupStale
Old(at, t) == t - at > LearningPeriod + BeaconMaxAge * BeaconWindow

Remembered(t) ==
  IF CleanupDue(beaconCalls)
  THEN [b \in BSSIDs |-> IF known[b] # None /\ Old(known[b], t) THEN None ELSE known[b]]
  ELSE known

LiveWindows(t) ==
  IF CleanupDue(beaconCalls)
  THEN [c \in Channels |->
          IF chans[c] # None /\ Old(chans[c].lastSeen, t) THEN None ELSE chans[c]]
  ELSE chans

Start(t) == IF startedAt = None THEN t ELSE startedAt

Learning(t) == t - Start(t) < LearningPeriod

\* Mutant: a window never ends by its age.
ExpiredNever(w, t) == FALSE

Expired(w, t) == t - w.windowStart > BeaconWindow

Uncleaned == IF CleanupDue(beaconCalls) THEN [c \in Channels |-> {}] ELSE spent

\* A beacon that is counted nowhere: still learning, or the BSSID is known.
BeaconKnown(b, t) ==
  /\ Learning(t) \/ Remembered(t)[b] # None
  /\ known' = [Remembered(t) EXCEPT ![b] = t]
  /\ chans' = LiveWindows(t)
  /\ beaconEvent' = None
  /\ spent' = Uncleaned

\* A new BSSID: a window that is over is promoted and restarted, the BSSID is
\* counted, and the threshold raises an event that promotes and restarts too.
BeaconNew(b, c, t) ==
  LET w0    == IF LiveWindows(t)[c] = None THEN EmptyWindow(t) ELSE LiveWindows(t)[c]
      over  == Expired(w0, t)
      base  == IF over THEN Promoted(Remembered(t), w0) ELSE Remembered(t)
      w1    == IF over THEN EmptyWindow(t) ELSE w0
      w     == [w1 EXCEPT !.lastSeen = t, !.newBSSIDs[b] = t]
      new   == Present(w.newBSSIDs)
      flood == Cardinality(new) >= BeaconThreshold
  IN
  /\ ~Learning(t) /\ Remembered(t)[b] = None
  /\ chans' = [LiveWindows(t) EXCEPT ![c] = IF flood THEN EmptyWindow(t) ELSE w]
  /\ known' = IF flood THEN Promoted(base, w) ELSE base
  /\ beaconEvent' = IF flood
       THEN [channel |-> c, bssids |-> new, Duration |-> t - w.windowStart] ELSE None
  /\ spent' = IF flood THEN [Uncleaned EXCEPT ![c] = @ \cup new] ELSE Uncleaned

\* Process, for a beacon of b on channel c.
BeaconProcess(b, c, t) ==
  /\ startedAt' = Start(t)
  /\ beaconCalls' = NextCall(beaconCalls)
  /\ onAir' = [d \in Channels |-> [x \in BSSIDs |->
       IF d = c /\ x = b THEN t
       ELSE IF onAir[d][x] # None /\ t - onAir[d][x] > BeaconWindow THEN None
       ELSE onAir[d][x]]]
  /\ BeaconKnown(b, t) \/ BeaconNew(b, c, t)

\* Not a beacon: nil.
BeaconIgnore ==
  /\ beaconEvent' = None
  /\ UNCHANGED <<startedAt, known, chans, beaconCalls, onAir, spent>>

--------------------------------------------------------------------------------
(* Properties. *)

\* An event never comes while the rule is learning, and behind it are threshold
\* BSSIDs that all beaconed on its channel within one window, although windows
\* are reset, promoted and cleaned up by the beacons of others.
BeaconSound ==
  beaconEvent # None =>
    /\ now - startedAt >= LearningPeriod
    /\ beaconEvent.bssids \subseteq Present(onAir[beaconEvent.channel])
    /\ Cardinality(beaconEvent.bssids) >= BeaconThreshold

\* A BSSID counts once on a channel: until a cleanup, which may forget it, it is
\* in no second event there, however windows end and events follow each other.
BeaconOnce ==
  [][beaconEvent' # None /\ beaconEvent' # beaconEvent =>
       beaconEvent'.bssids \cap Uncleaned[beaconEvent'.channel] = {}]_<<now, beaconVars>>
================================================================================
