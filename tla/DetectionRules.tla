----------------------------- MODULE DetectionRules -----------------------------
(***************************************************************************)
(* The rules main registers (registerDetectionRules).  The configuration   *)
(* enables each of them or not; they share the frames and their timestamps *)
(* and nothing else, so a rule that is not registered stands still.        *)
(*                                                                         *)
(* The frames are what Parse makes of packets.  A rule's steps are given   *)
(* what its frame says, which ParsedAsSent shows to be what was on the     *)
(* air; the packets themselves are followed when no rule is registered.    *)
(***************************************************************************)
EXTENDS FloodRule, BeaconFlood, EvilTwin, UnauthorizedDevice, Parser

CONSTANTS
  Configurations,  \* sets of rules a configuration enables
  Transmissions,   \* what stations send
  Receptions       \* [channel, aligned, BadFCS]: how it is received

Rules == {"flood", "beacon_flood", "evil_twin", "unauthorized_device"}

ASSUME ConfigurationAssumption == Configurations \subseteq SUBSET Rules

\* Channel 177 is the last of the 5 GHz band.
ASSUME CaptureAssumption ==
  /\ \A s \in Transmissions : Sendable(s)
  /\ \A reception \in Receptions : reception.channel \in 1..177

VARIABLES
  registered,
  capture  \* the packet captured, see Faithful, or None

vars == <<now, registered, capture, floodVars, beaconVars, twinVars, deviceVars>>

TypeOK ==
  /\ now \in Times
  /\ registered \in SUBSET Rules
  /\ capture = None \/ capture.sent \in Transmissions
  /\ FloodTypeOK /\ BeaconTypeOK /\ TwinTypeOK /\ DeviceTypeOK

Init ==
  /\ now = 0
  /\ registered \in Configurations
  /\ capture = None
  /\ FloodInit /\ BeaconInit /\ TwinInit /\ DeviceInit

\* What a rule does of a frame: nothing at all when it is not registered.
IfRegistered(r, process, standStill) ==
  IF r \in registered THEN process ELSE UNCHANGED standStill

\* A deauthentication or disassociation frame.
Deauth(k, t) ==
  /\ FrameAt(t)
  /\ IfRegistered("flood", FloodProcess(k, t), floodVars)
  /\ IfRegistered("beacon_flood", BeaconIgnore, beaconVars)
  /\ IfRegistered("evil_twin", TwinIgnore, twinVars)
  /\ IfRegistered("unauthorized_device", DeviceIgnore, deviceVars)
  /\ UNCHANGED <<registered, capture>>

\* A beacon; one without an SSID says nothing to the evil twin rule.
Beacon(b, s, p, t) ==
  /\ FrameAt(t)
  /\ IfRegistered("flood", FloodIgnore, floodVars)
  /\ IfRegistered("beacon_flood", BeaconProcess(b, p.Channel, t), beaconVars)
  /\ IfRegistered("evil_twin",
                  IF s = None THEN TwinIgnore ELSE TwinProcess(s, b, p, t), twinVars)
  /\ IfRegistered("unauthorized_device", DeviceIgnore, deviceVars)
  /\ UNCHANGED <<registered, capture>>

\* A probe response concerns the evil twin rule alone.
ProbeResponse(b, s, p, t) ==
  /\ FrameAt(t)
  /\ IfRegistered("flood", FloodIgnore, floodVars)
  /\ IfRegistered("beacon_flood", BeaconIgnore, beaconVars)
  /\ IfRegistered("evil_twin",
                  IF s = None THEN TwinIgnore ELSE TwinProcess(s, b, p, t), twinVars)
  /\ IfRegistered("unauthorized_device", DeviceIgnore, deviceVars)
  /\ UNCHANGED <<registered, capture>>

\* A frame that only the unauthorized device rule looks at.
OnlyDevice(process) ==
  /\ IfRegistered("flood", FloodIgnore, floodVars)
  /\ IfRegistered("beacon_flood", BeaconIgnore, beaconVars)
  /\ IfRegistered("evil_twin", TwinIgnore, twinVars)
  /\ IfRegistered("unauthorized_device", process, deviceVars)
  /\ UNCHANGED <<registered, capture>>

\* An association, reassociation or authentication frame.
Access(d, b, t) == FrameAt(t) /\ OnlyDevice(DeviceAccess(d, b, t))

ProbeRequest(d, s, t) == FrameAt(t) /\ OnlyDevice(DeviceProbe(d, s, t))

\* captureLoop parses a packet of which n bytes were captured: one packet, as Parse
\* keeps nothing from one to the next.
Capture(s, n, reception) ==
  /\ registered = {} /\ capture = None
  /\ capture' = [sent |-> s, bytes |-> n, reception |-> reception,
                 result |-> Parse(Packet(s, n, reception))]
  /\ UNCHANGED <<now, registered, floodVars, beaconVars, twinVars, deviceVars>>

Next ==
  \/ \E t \in Times :
       \/ \E k \in FloodKeys : Deauth(k, t)
       \/ \E b \in BSSIDs, s \in SSIDs \cup {None}, p \in Profiles :
            Beacon(b, s, p, t) \/ ProbeResponse(b, s, p, t)
       \/ \E d \in Devices :
            \/ \E b \in ProtectedBSSIDs \cup {None} : Access(d, b, t)
            \/ \E s \in ProtectedSSIDs \cup {None} : ProbeRequest(d, s, t)
  \/ \E s \in Transmissions, reception \in Receptions :
       \E n \in 0..Len(Body(s)) : Capture(s, n, reception)

Spec == Init /\ [][Next]_vars

--------------------------------------------------------------------------------
\* What Parse makes of a packet is what was sent, as far as it was received.
ParsedAsSent == capture # None => Faithful(capture)

\* processAssocResponse: "only process successful associations (status code 0)".
OnlySuccesses == capture # None => Confirmed(capture)
================================================================================
