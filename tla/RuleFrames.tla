------------------------------- MODULE RuleFrames -------------------------------
(***************************************************************************)
(* What the detection rules have in common.  They run one after the other  *)
(* in the dispatch goroutine, know the time only from the Timestamp of the *)
(* frame at hand, and every CleanupInterval-th frame that concerns a rule  *)
(* makes it forget what is stale before it looks at the frame.             *)
(*                                                                         *)
(* What the beacons of an access point say of it is a profile: its channel *)
(* and capability field, 0 when absent, and its information elements.      *)
(***************************************************************************)
EXTENDS Integers

CONSTANTS
  None,             \* no value: no map entry, the zero time, no event
  BSSIDs, SSIDs,    \* of the access points on the air
  Profiles,         \* [Channel, Capability, InfoElements]
  CleanupInterval,  \* 10000 calls
  MaxTime           \* bound on time

ASSUME FramesAssumption ==
  /\ None \notin Int
  /\ CleanupInterval \in Nat \ {0} /\ MaxTime \in Nat

\* What can be put together of the profiles, field by field.
Profile == [Channel : {p.Channel : p \in Profiles},
            Capability : {p.Capability : p \in Profiles},
            InfoElements : {p.InfoElements : p \in Profiles}]

ASSUME ProfilesAssumption == Profiles \subseteq Profile

VARIABLE now  \* Timestamp of the last frame

Times == 0..MaxTime

Channels == {p.Channel : p \in Profiles}

\* Frames come in the order of capture, with timestamps that do not decrease.
FrameAt(t) ==
  /\ t >= now
  /\ now' = t

\* callCount modulo the interval, and whether this call cleans up.
NextCall(calls) == (calls + 1) % CleanupInterval

CleanupDue(calls) == NextCall(calls) = 0
================================================================================
