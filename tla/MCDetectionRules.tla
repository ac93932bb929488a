---------------------------- MODULE MCDetectionRules ----------------------------
(* DetectionRules on small instances. *)
EXTENDS DetectionRules

\* One rule at a time, as the rules share nothing; and none, for the packets.
OneRule == {{}} \cup {{r} : r \in Rules}

NoRule == {{}}

\* The weight of the RSN element, which alone exceeds the threshold with 50.
Weights == 48 :> 40

\* An access point on channel 1, and the same on channel 6, which is just enough
\* for the threshold.
Home  == [Channel |-> 1, Capability |-> 1, InfoElements |-> 48 :> "wpa2"]
Moved == [Home EXCEPT !.Channel = 6]

OnAir == {Home, Moved}

\* More than two access points of one SSID on record only early on.
FewOnRecord == now <= 1 \/ \A s \in SSIDs : Len(records[s]) <= 2

\* A rule starts with its first beacon: at 0, as later starts differ in nothing but
\* the clock.  One channel is busy, the other has one access point within a window.
OneBusy == startedAt \in {None, 0} /\ Cardinality(Present(onAir[6])) <= 1

\* A captured packet is checked and the behaviour ends there; the clock, which no
\* packet depends on, stands at 0.
Bound ==
  /\ FewOnRecord /\ OneBusy
  /\ capture = None /\ (registered = {} => now = 0)

Sent(type, to, from, bssid, fixed, elements) ==
  [Type |-> type, Address1 |-> to, Address2 |-> from, Address3 |-> bssid,
   fixed |-> fixed, elements |-> elements]

SSID(text) == [id |-> 0, info |-> text]

Rates == [id |-> 1, info |-> <<130>>]

RSN == [id |-> 48, info |-> <<1, 0>>]

OfVendor(data) == [id |-> Vendor, info |-> data]

\* A network shown, hidden and without a name; elements in another order; a name that
\* is no text; vendor elements, two of them whole, and one too short before another
\* element or before all.
Named    == <<SSID(<<97, 98>>), Rates, RSN>>
Variants ==
  {Named, <<SSID(<< >>), Rates>>, <<Rates>>, <<RSN, SSID(<<97>>)>>, <<SSID(<<7>>)>>,
   <<SSID(<<97>>), OfVendor(<<0, 80, 242, 4, 9>>), OfVendor(<<0, 80, 242, 1>>)>>,
   <<SSID(<<97>>), OfVendor(<<0, 80, 67>>), RSN>>, <<OfVendor(<<1>>), SSID(<<97>>)>>}

\* A time stamp, part of which could be elements, then the interval, the capability.
Beaconing(interval) == <<5, 0, 0, 2, 97, 98, 0, 0, interval, 0, 33, 4>>

AccessPoints ==
  {Sent(type, to, from, "ap", Beaconing(100), ies) :
     type \in {"Beacon", "ProbeResponse"}, to \in {Broadcast, "station", "zero"},
     from \in {"ap", "station"}, ies \in Variants}
  \cup {Sent("Beacon", Broadcast, "ap", "ap", Beaconing(0), Named)}

\* Success is status 0; 17 is a refusal.
Answers ==
  {Sent(type, "station", "ap", "ap", <<33, 4, status, 0, 1, 0>>, <<Rates>>) :
     type \in {"AssocResp", "ReassocResp"}, status \in {0, 17}}

Requesting ==
  {Sent("ProbeRequest", to, from, to, << >>, ies) :
     to \in {Broadcast, "zero"}, from \in {"station", "multicast"}, ies \in Variants}
  \cup {Sent("AssocReq", "ap", "station", "ap", <<33, 4, 10, 0>>, ies) : ies \in Variants}
  \cup {Sent("ReassocReq", "ap", "station", "ap", <<33, 4, 10, 0>>, Named)}

FewElements ==
  {Sent(type, "ap", from, "ap", <<7, 0>>, << >>) :
     type \in {"Deauth", "Disassoc", "Data", "DataQOSData", "DataNull", "ActionNoAck", "none"},
     from \in {"station", "multicast"}}
  \cup {Sent("Auth", "ap", from, "ap", <<0, 0, 1, 0, 0, 0>>, << >>) :
          from \in {"station", "multicast"}}
  \cup {Sent(type, "ap", "none", "none", << >>, << >>) : type \in {"CTS", "CtrlWrapper"}}

Stations == AccessPoints \cup Answers \cup Requesting \cup FewElements

\* Both bands and the odd channel, a bad checksum, a header that does not add up.
Heard ==
  {[channel |-> c, aligned |-> TRUE, BadFCS |-> FALSE] : c \in {1, 13, 14, 36, 165}}
  \cup {[channel |-> 1, aligned |-> a, BadFCS |-> TRUE] : a \in BOOLEAN}

Symmetry == Permutations(BSSIDs)
================================================================================
