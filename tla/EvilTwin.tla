--------------------------------- MODULE EvilTwin ---------------------------------
(***************************************************************************)
(* The evil twin rule (internal/detector/rule_evil_twin.go): remembers the *)
(* access points of every SSID and scores each one that beacons against    *)
(* the first other one.                                                    *)
(***************************************************************************)
EXTENDS RuleFrames, Sequences, FiniteSets, FiniteSetsExt, SequencesExt

CONSTANTS
  IEWeights,       \* information element id -> what a difference adds
  ScoreThreshold,
  StaleTimeout,
  TwinLearning,    \* learning_period
  MinBeacons

ASSUME TwinAssumption ==
  /\ ScoreThreshold \in Nat \ {0} /\ StaleTimeout \in Nat \ {0}
  /\ TwinLearning \in Nat /\ MinBeacons \in Nat \ {0}

VARIABLES
  twinStart,  \* time of the first frame
  records,    \* SSID -> records of its access points, in the order of arrival
  alerted,    \* SSID -> pair of BSSIDs -> time of the last event, or None
  twinCalls,  \* callCount % CleanupInterval
  twinEvent,  \* None or [ssid, suspect, legitimate]
  \* history
  frameCount, \* per SSID and BSSID: frames so far, counted up to MinBeacons
  reported    \* per SSID and pair: when it was last reported, or None

twinVars == <<twinStart, records, alerted, twinCalls, twinEvent, frameCount, reported>>

Pairs == {p \in SUBSET BSSIDs : Cardinality(p) = 2}

Record == [BSSID : BSSIDs, profile : Profile, FirstSeen : Times,
           LastSeen : Times, BeaconCount : 1..MinBeacons]

TwinTypeOK ==
  /\ twinStart \in Times \cup {None}
  /\ records \in [SSIDs -> Seq(Record)]
  /\ \A s \in SSIDs : \A i, j \in DOMAIN records[s] :
       i # j => records[s][i].BSSID # records[s][j].BSSID
  /\ alerted \in [SSIDs -> [Pairs -> Times \cup {None}]]
  /\ twinCalls \in 0..(CleanupInterval - 1)
  /\ twinEvent \in [ssid : SSIDs, suspect : BSSIDs, legitimate : BSSIDs]
                  \cup {None}
  /\ frameCount \in [SSIDs -> [BSSIDs -> 0..MinBeacons]]
  /\ reported \in [SSIDs -> [Pairs -> Times \cup {None}]]

TwinInit ==
  /\ twinStart = None
  /\ records = [s \in SSIDs |-> << >>]
  /\ alerted = [s \in SSIDs |-> [p \in Pairs |-> None]]
  /\ twinCalls = 0
  /\ twinEvent = None
  /\ frameCount = [s \in SSIDs |-> [b \in BSSIDs |-> 0]]
  /\ reported = [s \in SSIDs |-> [p \in Pairs |-> None]]

--------------------------------------------------------------------------------
(* The score of two profiles. *)

\* The element of that id, None when the profile has none.
Element(p, id) == IF p.InfoElements = None THEN None ELSE p.InfoElements[id]

\* sameIE of 48, 221 and so on: what both lack, or have alike, adds nothing.
ElementScore(p, q) ==
  MapThenSumSet(LAMBDA id : IEWeights[id],
                {id \in DOMAIN IEWeights : Element(p, id) # Element(q, id)})

\* evilTwinScore: the BSSIDs always differ.
Score(p, q) ==
  50 + (IF p.Channel # 0 /\ q.Channel # 0 /\ p.Channel # q.Channel THEN 30 ELSE 0)
     + (IF p.Capability # q.Capability THEN 20 ELSE 0)
     + ElementScore(p, q)

--------------------------------------------------------------------------------
(* The records of one SSID. *)

Upto(n) == IF n < MinBeacons THEN n ELSE MinBeacons

\* What updateAPRecord takes over: a channel or capability of 0 leaves the old
\* one, and so does a frame without information elements.
Updated(p, q) ==
  [Channel |-> IF q.Channel = 0 THEN p.Channel ELSE q.Channel,
   Capability |-> IF q.Capability = 0 THEN p.Capability ELSE q.Capability,
   InfoElements |-> IF q.InfoElements = None THEN p.InfoElements ELSE q.InfoElements]

\* The n-th of a set of positions.
Nth(positions, n) ==
  CHOOSE i \in positions : Cardinality({j \in positions : j <= i}) = n

\* cleanupStale: of the records the active ones, in their order.
Active(recs, t) ==
  LET keep == {i \in DOMAIN recs : t - recs[i].LastSeen <= StaleTimeout}
  IN [n \in 1..Cardinality(keep) |-> recs[Nth(keep, n)]]

ActiveRecords(t) ==
  IF CleanupDue(twinCalls) THEN [s \in SSIDs |-> Active(records[s], t)] ELSE records

\* Mutant: the cleanup starts the map of alerts afresh.
ActiveAlertsEmptied(t) ==
  IF CleanupDue(twinCalls)
  THEN [s \in SSIDs |-> [p \in Pairs |-> None]]
  ELSE alerted

ActiveAlerts(t) ==
  IF CleanupDue(twinCalls)
  THEN [s \in SSIDs |-> [p \in Pairs |->
          IF alerted[s][p] # None /\ t - alerted[s][p] > StaleTimeout
          THEN None ELSE alerted[s][p]]]
  ELSE alerted

\* updateAPRecord
Refreshed(record, p, t) ==
  [record EXCEPT !.LastSeen = t, !.BeaconCount = Upto(@ + 1), !.profile = Updated(@, p)]

\* The records once the frame is taken in.
Recorded(recs, b, p, t) ==
  IF \E i \in DOMAIN recs : recs[i].BSSID = b
  THEN [i \in DOMAIN recs |->
          IF recs[i].BSSID = b THEN Refreshed(recs[i], p, t) ELSE recs[i]]
  ELSE Append(recs, [BSSID |-> b, profile |-> p, FirstSeen |-> t, LastSeen |-> t,
                     BeaconCount |-> 1])

RecordOf(recs, b) == recs[CHOOSE i \in DOMAIN recs : recs[i].BSSID = b]

\* Where the suspect's record is not.
Others(recs, b) == {i \in DOMAIN recs : recs[i].BSSID # b}

\* firstObservedAP: the records are in the order of their FirstSeen, and an equal one
\* does not displace the first.
FirstObserved(recs, b) == recs[Min(Others(recs, b))]

\* Mutant: the other access point need not have been heard often enough.
SuspicionHasty(recs, b) ==
  /\ RecordOf(recs, b).BeaconCount >= MinBeacons
  /\ Others(recs, b) # {}
  /\ Score(FirstObserved(recs, b).profile, RecordOf(recs, b).profile) >= ScoreThreshold

\* The conditions of evaluateCandidateLocked on the records.
Suspicion(recs, b) ==
  /\ RecordOf(recs, b).BeaconCount >= MinBeacons
  /\ Others(recs, b) # {}
  /\ FirstObserved(recs, b).BeaconCount >= MinBeacons
  /\ Score(FirstObserved(recs, b).profile, RecordOf(recs, b).profile) >= ScoreThreshold

Quiet(last, t) == last # None /\ t - last < StaleTimeout

\* Process, for a beacon or probe response of b.
TwinProcess(s, b, p, t) ==
  LET start == IF twinStart = None THEN t ELSE twinStart
      recs  == Recorded(ActiveRecords(t)[s], b, p, t)
      pair  == {b, FirstObserved(recs, b).BSSID}
      alarm == /\ t - start >= TwinLearning
               /\ Suspicion(recs, b)
               /\ ~Quiet(ActiveAlerts(t)[s][pair], t)
  IN
  /\ twinStart' = start
  /\ twinCalls' = NextCall(twinCalls)
  /\ records' = [ActiveRecords(t) EXCEPT ![s] = recs]
  /\ frameCount' = [frameCount EXCEPT ![s][b] = Upto(@ + 1)]
  /\ IF alarm
     THEN /\ alerted' = [ActiveAlerts(t) EXCEPT ![s][pair] = t]
          /\ twinEvent' = [ssid |-> s, suspect |-> b,
                           legitimate |-> FirstObserved(recs, b).BSSID]
          /\ reported' = [reported EXCEPT ![s][pair] = t]
     ELSE alerted' = ActiveAlerts(t) /\ twinEvent' = None /\ UNCHANGED reported

\* Another frame, or one without an SSID: nil.
TwinIgnore ==
  /\ twinEvent' = None
  /\ UNCHANGED <<twinStart, records, alerted, twinCalls, frameCount, reported>>

--------------------------------------------------------------------------------
(* Properties. *)

\* Two access points are reported at most once per stale_timeout, whichever of
\* them is called the suspect, however their records come and go.
TwinSpacing ==
  [][\A s \in SSIDs, pair \in Pairs :
       reported[s][pair] # None /\ reported'[s][pair] # reported[s][pair]
         => now' - reported[s][pair] >= StaleTimeout]_<<now, twinVars>>

\* An event is about two access points that were both heard min_beacons times,
\* and it never comes in the learning period.
TwinEvidence ==
  twinEvent # None =>
    /\ now - twinStart >= TwinLearning
    /\ twinEvent.suspect # twinEvent.legitimate
    /\ frameCount[twinEvent.ssid][twinEvent.suspect] >= MinBeacons
    /\ frameCount[twinEvent.ssid][twinEvent.legitimate] >= MinBeacons

================================================================================
