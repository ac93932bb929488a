--------------------------- MODULE UnauthorizedDevice ---------------------------
(***************************************************************************)
(* The unauthorized device rule (internal/detector/                        *)
(* rule_unauthorized_device.go).  Association, reassociation and           *)
(* authentication frames access the access point that protectedAPKey       *)
(* names; a probe request asks for an SSID.  None stands for every target  *)
(* that is not protected, no target at all among them.                     *)
(***************************************************************************)
EXTENDS RuleFrames

CONSTANTS
  Devices,
  Whitelist,         \* whitelist of the rule's configuration
  ProtectedBSSIDs, ProtectedSSIDs,
  AlertOnProbe,
  Cooldown

\* What Init refuses.
ASSUME DeviceAssumption ==
  /\ None \notin Devices \cup ProtectedBSSIDs \cup ProtectedSSIDs
  /\ ProtectedBSSIDs \cup ProtectedSSIDs # {}
  /\ AlertOnProbe \in BOOLEAN /\ (AlertOnProbe => ProtectedSSIDs # {})
  /\ Cooldown \in Nat \ {0}

VARIABLES
  lastAlertByMAC,  \* device -> None or time
  deviceCalls,     \* callCount % CleanupInterval
  deviceEvent,     \* device the last frame raised an event for, or None
  \* history
  intruder,        \* device whose intrusion the last frame was, or None
  alertedAt        \* device -> time of its last event, or None

deviceVars == <<lastAlertByMAC, deviceCalls, deviceEvent, intruder, alertedAt>>

DeviceTypeOK ==
  /\ lastAlertByMAC \in [Devices -> Times \cup {None}]
  /\ deviceCalls \in 0..(CleanupInterval - 1)
  /\ deviceEvent \in Devices \cup {None}
  /\ intruder \in Devices \cup {None}
  /\ alertedAt \in [Devices -> Times \cup {None}]

DeviceInit ==
  /\ lastAlertByMAC = [d \in Devices |-> None]
  /\ deviceCalls = 0
  /\ deviceEvent = None /\ intruder = None
  /\ alertedAt = [d \in Devices |-> None]

--------------------------------------------------------------------------------
\* trackCall: the map once cleanupStale, if due, has removed what is past cooldown.
AlertsKept(t) ==
  [d \in Devices |->
     IF /\ CleanupDue(deviceCalls)
        /\ lastAlertByMAC[d] # None /\ t - lastAlertByMAC[d] > Cooldown
     THEN None ELSE lastAlertByMAC[d]]

Cooling(d, t) ==
  AlertsKept(t)[d] # None /\ t - AlertsKept(t)[d] < Cooldown

\* Mutant: every intrusion starts the cooldown anew.
AlertsAfterRenewed(d, t, raised) == [AlertsKept(t) EXCEPT ![d] = t]

\* Only an event starts the cooldown.
AlertsAfter(d, t, raised) ==
  IF raised THEN [AlertsKept(t) EXCEPT ![d] = t] ELSE AlertsKept(t)

\* emitUnauthorizedDeviceEvent, for a target that is protected or not.
Examine(d, protected, t) ==
  LET intrusion == protected /\ d \notin Whitelist
      raised    == intrusion /\ ~Cooling(d, t)
  IN
  /\ deviceCalls' = NextCall(deviceCalls)
  /\ lastAlertByMAC' = IF intrusion THEN AlertsAfter(d, t, raised) ELSE AlertsKept(t)
  /\ deviceEvent' = IF raised THEN d ELSE None
  /\ intruder' = IF intrusion THEN d ELSE None
  /\ alertedAt' = IF raised THEN [alertedAt EXCEPT ![d] = t] ELSE alertedAt

\* A frame that does not concern the rule returns before it is counted.
DeviceIgnore ==
  /\ deviceEvent' = None /\ intruder' = None
  /\ UNCHANGED <<lastAlertByMAC, deviceCalls, alertedAt>>

\* processProtectedAPAccess
DeviceAccess(d, b, t) == Examine(d, b \in ProtectedBSSIDs, t)

\* processProbeRequest; isRelevantFrameType passes probe requests on request.
DeviceProbe(d, s, t) ==
  IF AlertOnProbe THEN Examine(d, s \in ProtectedSSIDs, t) ELSE DeviceIgnore

--------------------------------------------------------------------------------
(* Properties. *)

\* A device that keeps trying is reported once per cooldown, whichever targets it
\* tries and whatever cleanup forgot: an intrusion raises an event exactly when the
\* last event of its device is at least a cooldown in the past.
IntrusionReported ==
  [][LET last == IF intruder' = None THEN None ELSE alertedAt[intruder']
     IN deviceEvent' = IF intruder' # None /\ (last = None \/ now' - last >= Cooldown)
                       THEN intruder' ELSE None]_<<now, deviceVars>>
================================================================================
