--------------------------------- MODULE Parser ---------------------------------
(***************************************************************************)
(* Parse (internal/parser/parser.go): from a captured packet to the frame  *)
(* that detection and the state engine work on.                            *)
(*                                                                         *)
(* A packet is the radiotap header, the type and the three addresses of    *)
(* the 802.11 header, and the body in bytes: fixed fields, then elements   *)
(* of id, length and content.  Sequence numbers and flags are handed on    *)
(* as they are and left out.  Bytes of text are ASCII.  A body holds fewer *)
(* than maxIEsPerFrame (256) elements, so that no cap is reached.          *)
(*                                                                         *)
(* gopacket decodes the headers, the fixed fields when all of them are     *)
(* there, and the elements of beacons and probe responses, of which it     *)
(* takes a vendor element's first four bytes apart.  Its layer of a        *)
(* probe request has no payload, that of an association request has its    *)
(* elements, and that of a reassociation is of a type not asked for.       *)
(***************************************************************************)
EXTENDS Integers, Sequences, FiniteSets, FiniteSetsExt, SequencesExt

\* Addresses that are no station's; "none" is one that the frame does not have.
Broadcast == "broadcast"

NoUnicast == {"none", "multicast", Broadcast}

\* isUnicastMAC; the address of zeros passes.
Unicast(mac) == mac \notin NoUnicast

\* allZeroMAC, which an absent address also is.
AllZero(mac) == mac \in {"none", "zero"}

--------------------------------------------------------------------------------
(* Bytes. *)

\* The little-endian word at i.
Word(data, i) == data[i] + 256 * data[i + 1]

\* Length of the fixed fields, and the places of those that are read.
FixedLength == [Beacon |-> 12, ProbeResponse |-> 12, AssocReq |-> 4, AssocResp |-> 6,
                Auth |-> 6, Deauth |-> 2, Disassoc |-> 2]

Places ==
  [BeaconInterval |-> [Beacon |-> 9, ProbeResponse |-> 9],
   Capability     |-> [Beacon |-> 11, ProbeResponse |-> 11, AssocReq |-> 1, AssocResp |-> 1],
   ReasonCode     |-> [Deauth |-> 1, Disassoc |-> 1],
   Status         |-> [AssocResp |-> 3],
   AuthAlgorithm  |-> [Auth |-> 1],
   AuthSeq        |-> [Auth |-> 3],
   AuthStatus     |-> [Auth |-> 5]]

\* gopacket has a layer for the fixed fields of p.
Decoded(p) == p.Type \in DOMAIN FixedLength /\ Len(p.body) >= FixedLength[p.Type]

Field(p, name) ==
  IF Decoded(p) /\ p.Type \in DOMAIN Places[name]
  THEN Word(p.body, Places[name][p.Type]) ELSE 0

\* The element at i is all there.
Whole(data, i) == Len(data) > i /\ Len(data) > i + data[i + 1]

\* Mutant: the length byte is not counted.
AfterElementEarly(data, i) == i + 1 + data[i + 1]

\* Where the next element begins.
AfterElement(data, i) == i + 2 + data[i + 1]

\* iterateIEs: elements up to the first that is cut off.
IterateIEs(data) ==
  LET from[i \in 1..(Len(data) + 1)] ==
        IF ~Whole(data, i) THEN << >>
        ELSE <<[id |-> data[i], info |-> SubSeq(data, i + 2, i + 1 + data[i + 1])]>>
               \o from[AfterElement(data, i)]
  IN from[1]

\* The map of elements: of two with one id, the last.
ElementMap(ies) ==
  [id \in {ies[i].id : i \in DOMAIN ies} |->
     ies[Max({i \in DOMAIN ies : ies[i].id = id})].info]

--------------------------------------------------------------------------------
(* The steps of Parse. *)

\* parseRadioTap and hasBadFCS: nothing is read of a header whose two parts do not
\* match, nor of one that is not there.
Signal(p) == IF p.RadioTap.aligned THEN p.RadioTap.ChannelFreq ELSE 0

BadFCS(p) == p.RadioTap.aligned /\ p.RadioTap.BadFCS

\* freqToChannel
Channel(freq) ==
  CASE freq = 2484         -> 14
    [] freq \in 2412..2472 -> (freq - 2412) \div 5 + 1
    [] freq \in 5000..5885 -> (freq - 5000) \div 5
    [] OTHER               -> 0

\* classifyFrame, of a type named as its class or one of several in a class.
SameName == {"Beacon", "ProbeRequest", "ProbeResponse", "Auth", "Deauth", "Disassoc", "AssocReq",
             "AssocResp", "ReassocReq", "ReassocResp", "Action", "CTS", "RTS", "ACK",
             "BlockAckReq", "BlockAck"}

QoSData == {"DataQOSData", "DataQOSDataCFAck", "DataQOSDataCFPoll", "DataQOSDataCFAckPoll"}

Null == {"DataNull", "DataCFAckNoData", "DataCFPollNoData", "DataCFAckPollNoData", "DataQOSNull",
         "DataQOSCFPollNoData", "DataQOSCFAckPollNoData"}

OtherData == {"Data", "DataCFAck", "DataCFPoll", "DataCFAckPoll"}

Class(type) ==
  CASE type \in SameName     -> type
    [] type = "ActionNoAck"  -> "Action"
    [] type \in QoSData      -> "QoSData"
    [] type \in Null         -> "Null"
    [] type \in OtherData    -> "Data"
    [] OTHER                 -> "Unknown"

\* What gopacket makes an element of: a vendor's begins with four bytes that go to its
\* OUI, and the code reads no more than Info.
Vendor == 221

Decodable(element) == element.id = Vendor => Len(element.info) >= 4

Info(element) ==
  IF element.id = Vendor THEN SubSeq(element.info, 5, Len(element.info)) ELSE element.info

\* Its layers, up to the first element that it cannot decode.
ElementLayers(ies) ==
  LET bad  == {i \in DOMAIN ies : ~Decodable(ies[i])}
      good == IF bad = {} THEN Len(ies) ELSE Min(bad) - 1 IN
  [i \in 1..good |-> [id |-> ies[i].id, info |-> Info(ies[i])]]

\* The types whose elements gopacket decodes.
APTypes == {"Beacon", "ProbeResponse"}

\* Elements that gopacket has decoded, and those behind a layer that it has not.
Layered(p) ==
  IF Decoded(p) /\ p.Type \in APTypes
  THEN ElementLayers(IterateIEs(SubSeq(p.body, 13, Len(p.body)))) ELSE << >>

Unlayered(p) ==
  IF Decoded(p) /\ p.Type = "AssocReq"
  THEN IterateIEs(SubSeq(p.body, 5, Len(p.body))) ELSE << >>

\* extractSSID: of the first SSID element, if there is one.
SSIDOf(ies) ==
  LET at == {i \in DOMAIN ies : ies[i].id = 0} IN
  IF at = {} THEN << >> ELSE ies[Min(at)].info

\* extractInfoElements; when that finds nothing the whole body is read as elements,
\* its fixed fields included.
InfoElements(p) ==
  IF Layered(p) # << >> THEN ElementMap(Layered(p)) ELSE ElementMap(IterateIEs(p.body))

\* The frame of p, before it is validated.
Frame(p) ==
  LET ies   == InfoElements(p)
      known == Layered(p) \o Unlayered(p)
      ssid  == SSIDOf(known) IN
  [FrameType |-> Class(p.Type),
   SrcMAC |-> p.Address2, DstMAC |-> p.Address1, BSSID |-> p.Address3,
   Channel |-> Channel(Signal(p)),
   InfoElements |-> ies,
   SSIDPresent |-> 0 \in DOMAIN ies \/ \E i \in DOMAIN known : known[i].id = 0,
   SSID |-> IF ssid = << >> /\ 0 \in DOMAIN ies THEN ies[0] ELSE ssid,
   BeaconInterval |-> Field(p, "BeaconInterval"), Capability |-> Field(p, "Capability"),
   ReasonCode |-> Field(p, "ReasonCode"), Status |-> Field(p, "Status"),
   AuthAlgorithm |-> Field(p, "AuthAlgorithm"), AuthSeq |-> Field(p, "AuthSeq"),
   AuthStatus |-> Field(p, "AuthStatus")]

\* isValidSSID
ValidSSID(ssid) == Len(ssid) <= 32 /\ \A i \in DOMAIN ssid : ssid[i] \in 32..126

BeaconIntervals == 1..10000

\* validateParsedFrame: what an access point sends about itself.
ValidAP(f) ==
  /\ ~AllZero(f.BSSID) /\ Unicast(f.BSSID) /\ f.SrcMAC = f.BSSID
  /\ IF f.FrameType = "Beacon" THEN f.DstMAC = Broadcast ELSE ~AllZero(f.DstMAC)
  /\ f.BeaconInterval \in BeaconIntervals
  /\ ValidSSID(f.SSID)

\* The other types that are looked at.
ValidStation(f) == Unicast(f.SrcMAC) /\ ~AllZero(f.DstMAC)

Valid(f) ==
  /\ f.FrameType \in APTypes => ValidAP(f)
  /\ f.FrameType \in {"ProbeRequest", "AssocReq", "ReassocReq", "Auth", "Data", "QoSData"} =>
       ValidStation(f)

\* A packet that is no 802.11 frame has the type "none".
Parse(p) ==
  LET f == Frame(p) IN
  [frame |-> f,
   err   |-> CASE BadFCS(p)        -> "errBadFCS"
               [] p.Type = "none"  -> "ErrNoDot11Layer"
               [] ~Valid(f)        -> "errFrameRejected"
               [] OTHER            -> "nil"]

\* What processAssocResponse takes for a successful association.
Associates(f) == f.FrameType \in {"AssocResp", "ReassocResp"} /\ f.Status = 0

--------------------------------------------------------------------------------
(* The other side: what a station sends, and how much of it is captured. *)

\* A transmission s is [Type, Address1, Address2, Address3, fixed, elements], with
\* the fixed fields in bytes.
Byte == 0..255

\* An element's length is one byte.
SentElement == {e \in [id : Byte, info : Seq(Byte)] : Len(e.info) \in Byte}

Sendable(s) ==
  /\ s.fixed \in Seq(Byte)
  /\ s.Type \in DOMAIN FixedLength => Len(s.fixed) = FixedLength[s.Type]
  /\ s.Type = "ProbeRequest" => s.fixed = << >>
  /\ s.elements \in Seq(SentElement) /\ Len(s.elements) < 256

Bytes(element) == <<element.id, Len(element.info)>> \o element.info

\* The bytes of the first i elements, for every i.
Encoding(ies) ==
  LET upto[i \in 0..Len(ies)] == IF i = 0 THEN << >> ELSE upto[i - 1] \o Bytes(ies[i])
  IN upto

Encoded(ies) == Encoding(ies)[Len(ies)]

Body(s) == s.fixed \o Encoded(s.elements)

\* The frequency of a channel.
Frequency(channel) ==
  IF channel = 14 THEN 2484 ELSE IF channel < 14 THEN 2407 + 5 * channel ELSE 5000 + 5 * channel

\* The packet of s with the first n bytes of its body, on a channel.
Packet(s, n, reception) ==
  [RadioTap |-> [ChannelFreq |-> Frequency(reception.channel),
                 aligned |-> reception.aligned, BadFCS |-> reception.BadFCS],
   Type |-> s.Type, Address1 |-> s.Address1, Address2 |-> s.Address2, Address3 |-> s.Address3,
   body |-> SubSeq(Body(s), 1, n)]

\* Elements of s of which the first n bytes hold all.
Received(s, n) ==
  {i \in DOMAIN s.elements : Len(s.fixed) + Len(Encoding(s.elements)[i]) <= n}

\* Of an access point's frame those before the first that gopacket cannot decode.
Carried(s, n) ==
  {i \in Received(s, n) :
     s.Type \in APTypes => \A j \in 1..i : Decodable(s.elements[j])}

\* What is kept of the i-th element.
Content(s, i) == IF s.Type \in APTypes THEN Info(s.elements[i]) ELSE s.elements[i].info

--------------------------------------------------------------------------------
(* Properties, of a capture c: [sent, bytes, reception, result]. *)

\* A transmission as it should be: a frame from one station, with an SSID that can be read
\* and, from an access point, at least one element, the first no vendor's without an OUI.
WellFormed(s) ==
  /\ s.Type # "none"
  /\ \A i \in DOMAIN s.elements : s.elements[i].id = 0 => ValidSSID(s.elements[i].info)
  /\ Unicast(s.Address2) /\ ~AllZero(s.Address2) /\ ~AllZero(s.Address1)
  /\ s.Type \in APTypes =>
       /\ s.Address3 = s.Address2 /\ Word(s.fixed, 9) \in BeaconIntervals
       /\ s.elements # << >> /\ Decodable(s.elements[1])
  /\ s.Type = "Beacon" => s.Address1 = Broadcast

\* No other element of s that was kept has the id of the i-th.
Single(s, i, carried) ==
  \A j \in carried : s.elements[j].id = s.elements[i].id => j = i

\* A well-formed frame received in full is accepted.  An accepted frame has the type
\* and the addresses that were sent, and the channel that was listened on; wherever
\* it was cut off, no element of a beacon or a probe is lost before the cut, changed
\* or made up, with three exceptions: the last of several with one id takes the place
\* of the others; and in the frames of an access point a vendor element is without its
\* first four bytes, and one that has fewer takes all that follow it away.  An empty
\* SSID stays apart from none, and also an association request's SSID is the one sent.
Faithful(c) ==
  LET s        == c.sent
      f        == c.result.frame
      carried  == Carried(s, c.bytes)
      ids      == {s.elements[i].id : i \in carried}
      \* of a beacon of which no element is kept the fixed fields are misread
      elements == (s.Type \in APTypes /\ carried # {}) \/ s.Type = "ProbeRequest" IN
  /\ WellFormed(s) /\ c.bytes = Len(Body(s)) /\ ~c.reception.BadFCS => c.result.err = "nil"
  /\ c.result.err = "nil" =>
       /\ s.Type \in SameName => f.FrameType = s.Type
       /\ <<f.DstMAC, f.SrcMAC, f.BSSID>> = <<s.Address1, s.Address2, s.Address3>>
       /\ c.reception.aligned => f.Channel = c.reception.channel
       /\ elements =>
            /\ DOMAIN f.InfoElements = ids
            /\ \A i \in carried :
                 \/ f.InfoElements[s.elements[i].id] = Content(s, i)
                 \/ \E j \in carried : j > i /\ s.elements[j].id = s.elements[i].id
            /\ f.SSIDPresent <=> 0 \in ids
            /\ 0 \notin ids => f.SSID = << >>
       /\ elements \/ s.Type = "AssocReq" =>
            \A i \in carried :
              s.elements[i].id = 0 /\ s.elements[i].info # << >> /\ Single(s, i, carried) =>
                f.SSID = s.elements[i].info

\* "AssocResp/ReassocResp (status=0)": what is taken for a success was sent as one.
Confirmed(c) ==
  c.result.err = "nil" /\ c.bytes = Len(Body(c.sent)) /\ Associates(c.result.frame) =>
    Word(c.sent.fixed, 3) = 0
================================================================================
