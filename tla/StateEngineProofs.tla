---------------------------- MODULE StateEngineProofs ----------------------------
(***************************************************************************)
(* Proofs about StateEngine for all access points, clients, SSIDs, TTLs    *)
(* and bounds on time.                                                     *)
(***************************************************************************)
EXTENDS StateEngine, TLAPS

\* ProcessFrame's locals are set where a later step reads them.
LocalsInv ==
  /\ pc \in {"probeUpdate", "probeSSID", "dataInsert"} => cur \in Clients
  /\ pc = "probeSSID" => ssid \in SSIDs

TypeInv == TypeOK /\ LocalsInv

\* The time of a sweep is past, and no entry is younger than the last frame.
TimeInv ==
  /\ evNow <= clock
  /\ \A b \in APs : aps[b] # None => aps[b].LastSeen <= frameTs
  /\ \A c \in Clients : clients[c] # None => clients[c].LastSeen <= frameTs

Inv == TypeInv /\ TimeInv

\* What New builds is a client record.
LEMMA NewType ==
  ASSUME NEW first \in Times \cup {None}, NEW now \in Times,
         NEW b \in APs \cup {None}, NEW traffic \in BOOLEAN
  PROVE  New(first, now, b, traffic) \in ClientInfo
BY DEF New, ClientInfo

\* Update gives the client an entry that is as young as the new one; of an
\* entry that was there FirstSeen, a BSSID, the traffic and the SSIDs stay.
LEMMA UpdatedEntry ==
  ASSUME TypeOK, NEW c \in Clients, NEW new \in ClientInfo
  PROVE  /\ Updated(c, new) \in [Clients -> ClientInfo \cup {None}]
         /\ Updated(c, new)[c] \in ClientInfo
         /\ Updated(c, new)[c].LastSeen = new.LastSeen
         /\ clients[c] # None =>
              /\ Updated(c, new)[c].FirstSeen = clients[c].FirstSeen
              /\ clients[c].BSSID # None => Updated(c, new)[c].BSSID # None
              /\ clients[c].Traffic => Updated(c, new)[c].Traffic
              /\ clients[c].ProbeSSIDs = Updated(c, new)[c].ProbeSSIDs
         /\ \A d \in Clients : d # c => Updated(c, new)[d] = clients[d]
<1> DEFINE traffic == clients[c].Traffic \/ new.Traffic
           assoc == clients[c].Associated \/ new.Associated
           where == IF new.BSSID = None THEN clients[c].BSSID ELSE new.BSSID
           merged == Merged(clients[c], new)
           entry == IF clients[c] = None THEN new ELSE merged
<1>1. clients \in [Clients -> ClientInfo \cup {None}]
  BY DEF TypeOK
<1>2. Updated(c, new) = [clients EXCEPT ![c] = entry]
  BY DEF Updated
<1>3. clients[c] # None =>
        /\ merged \in ClientInfo
        /\ merged.LastSeen = new.LastSeen
        /\ merged.FirstSeen = clients[c].FirstSeen
        /\ clients[c].BSSID # None => merged.BSSID # None
        /\ clients[c].Traffic => merged.Traffic
        /\ clients[c].ProbeSSIDs = merged.ProbeSSIDs
  <2> SUFFICES ASSUME clients[c] # None
               PROVE  /\ merged \in ClientInfo
                      /\ merged.LastSeen = new.LastSeen
                      /\ merged.FirstSeen = clients[c].FirstSeen
                      /\ clients[c].BSSID # None => merged.BSSID # None
                      /\ clients[c].Traffic => merged.Traffic
                      /\ clients[c].ProbeSSIDs = merged.ProbeSSIDs
    OBVIOUS
  <2>1. traffic \in BOOLEAN /\ assoc \in BOOLEAN /\ (clients[c].Traffic => traffic)
    OBVIOUS
  <2>2. clients[c] \in ClientInfo
    BY <1>1
  <2>3. where \in APs \cup {None} /\ (clients[c].BSSID # None => where # None)
    BY <2>2 DEF ClientInfo
  <2>4. merged = [clients[c] EXCEPT !.LastSeen = new.LastSeen, !.BSSID = where,
                                    !.Traffic = traffic, !.Associated = assoc]
    BY DEF Merged
  <2> HIDE DEF traffic, assoc, where, merged
  <2>5. merged \in ClientInfo
    BY <2>1, <2>2, <2>3, <2>4 DEF ClientInfo
  <2>6. /\ merged.LastSeen = new.LastSeen /\ merged.FirstSeen = clients[c].FirstSeen
        /\ merged.BSSID = where /\ merged.Traffic = traffic
        /\ clients[c].ProbeSSIDs = merged.ProbeSSIDs
    BY <2>2, <2>4 DEF ClientInfo
  <2> QED
    BY <2>1, <2>3, <2>5, <2>6
<1>4. entry \in ClientInfo /\ entry.LastSeen = new.LastSeen
  BY <1>3
<1> HIDE DEF merged
<1>5. clients[c] # None => entry = merged
  OBVIOUS
<1> HIDE DEF entry
<1> QED
  BY <1>1, <1>2, <1>3, <1>4, <1>5

\* What a handler or a sweep may do to the clients: ts is the time of the frame.
Kept(ts) ==
  \A c \in Clients :
    /\ clients[c] # None => clients'[c] # None
    /\ clients[c] # None =>
         /\ clients'[c].FirstSeen = clients[c].FirstSeen
         /\ clients'[c].LastSeen >= clients[c].LastSeen
         /\ clients[c].BSSID # None => clients'[c].BSSID # None
         /\ clients[c].Traffic => clients'[c].Traffic
         /\ clients[c].ProbeSSIDs \subseteq clients'[c].ProbeSSIDs
    /\ clients'[c] # None => clients'[c].LastSeen <= ts

\* And to the access points.
KeptAPs(ts) ==
  \A b \in APs :
    /\ aps[b] # None =>
         /\ aps'[b] # None
         /\ aps'[b].FirstSeen = aps[b].FirstSeen
         /\ aps'[b].LastSeen >= aps[b].LastSeen
         /\ aps[b].SSID # None => aps'[b].SSID # None
    /\ aps'[b] # None => aps'[b].LastSeen <= ts

\* Every write of one client's entry keeps what has to be kept.
LEMMA UpdatedKept ==
  ASSUME Inv, NEW c \in Clients, NEW new \in ClientInfo, NEW ts \in Times,
         ts >= frameTs, new.LastSeen = ts, clients' = Updated(c, new)
  PROVE  /\ clients' \in [Clients -> ClientInfo \cup {None}]
         /\ Kept(ts)
<1> USE DEF Inv, TypeInv
<1>1. /\ clients' \in [Clients -> ClientInfo \cup {None}]
      /\ clients'[c] \in ClientInfo /\ clients'[c] # None
      /\ clients'[c].LastSeen = ts
      /\ clients[c] # None =>
           /\ clients'[c].FirstSeen = clients[c].FirstSeen
           /\ clients[c].BSSID # None => clients'[c].BSSID # None
           /\ clients[c].Traffic => clients'[c].Traffic
           /\ clients[c].ProbeSSIDs = clients'[c].ProbeSSIDs
      /\ \A d \in Clients : d # c => clients'[d] = clients[d]
  BY UpdatedEntry, EntryAssumption
<1>2. \A d \in Clients : clients[d] # None =>
        clients[d].LastSeen \in Times /\ clients[d].LastSeen <= ts
  BY DEF TimeInv, TypeOK, ClientInfo, Times
<1>3. ts \in Int
  BY DEF Times
<1> QED
  BY <1>1, <1>2, <1>3 DEF Kept, Times

\* A field of an entry that is there is set, and the entry made as young as the
\* frame.
LEMMA FieldSetKept ==
  ASSUME Inv, NEW c \in Clients, NEW ts \in Times, ts >= frameTs,
         clients[c] # None, NEW assoc \in BOOLEAN, NEW traffic \in BOOLEAN,
         clients[c].Traffic => traffic, NEW where \in APs \cup {None},
         clients[c].BSSID # None => where # None,
         clients' = [clients EXCEPT ![c] = [clients[c] EXCEPT
                       !.Associated = assoc, !.Traffic = traffic, !.BSSID = where,
                       !.LastSeen = ts]]
  PROVE  /\ clients' \in [Clients -> ClientInfo \cup {None}]
         /\ Kept(ts)
<1> USE DEF Inv, TypeInv
<1> DEFINE entry == [clients[c] EXCEPT !.Associated = assoc, !.Traffic = traffic,
                                       !.BSSID = where, !.LastSeen = ts]
<1>1. clients \in [Clients -> ClientInfo \cup {None}]
  BY DEF TypeOK
<1>2. /\ entry \in ClientInfo /\ entry.LastSeen = ts
      /\ entry.FirstSeen = clients[c].FirstSeen
      /\ entry.Traffic = traffic /\ entry.BSSID = where
      /\ clients[c].ProbeSSIDs = entry.ProbeSSIDs
  BY <1>1 DEF ClientInfo
<1>3. clients' = [clients EXCEPT ![c] = entry]
  OBVIOUS
<1> HIDE DEF entry
<1>4. /\ clients' \in [Clients -> ClientInfo \cup {None}]
      /\ clients'[c] = entry /\ entry # None
      /\ \A d \in Clients : d # c => clients'[d] = clients[d]
  BY <1>1, <1>2, <1>3, EntryAssumption
<1>5. \A d \in Clients : clients[d] # None =>
        clients[d].LastSeen \in Times /\ clients[d].LastSeen <= ts
  BY DEF TimeInv, TypeOK, ClientInfo, Times
<1>6. ts \in Int
  BY DEF Times
<1> QED
  BY <1>2, <1>4, <1>5, <1>6 DEF Kept, Times

\* No write at all keeps everything.
LEMMA UnchangedKept ==
  ASSUME Inv, NEW ts \in Times, ts >= frameTs, UNCHANGED clients
  PROVE  /\ clients' \in [Clients -> ClientInfo \cup {None}]
         /\ Kept(ts)
<1>1. \A d \in Clients : clients[d] # None =>
        clients[d].LastSeen \in Times /\ clients[d].LastSeen <= ts
  BY DEF Inv, TypeInv, TimeInv, TypeOK, ClientInfo, Times
<1> QED
  BY <1>1 DEF Kept, Times, Inv, TypeInv, TypeOK

\* No write at all of an access point either.
LEMMA UnchangedAPs ==
  ASSUME Inv, NEW ts \in Times, ts >= frameTs, UNCHANGED aps
  PROVE  /\ aps' \in [APs -> APInfo \cup {None}]
         /\ KeptAPs(ts)
<1>1. \A b \in APs : aps[b] # None =>
        aps[b].LastSeen \in Times /\ aps[b].LastSeen <= ts
  BY DEF Inv, TypeInv, TimeInv, TypeOK, APInfo, Times
<1> QED
  BY <1>1 DEF KeptAPs, Times, Inv, TypeInv, TypeOK

\* A beacon or a probe response writes one access point's entry and keeps what has
\* to be kept.
LEMMA UpdatedAPKept ==
  ASSUME Inv, NEW b \in APs, NEW ts \in Times, ts >= frameTs,
         NEW s \in SSIDs \cup {None}, NEW present \in BOOLEAN,
         aps' = UpdatedAP(b, ts, s, present)
  PROVE  /\ aps' \in [APs -> APInfo \cup {None}]
         /\ KeptAPs(ts)
<1> USE DEF Inv, TypeInv
<1> DEFINE entry ==
      IF aps[b] = None
      THEN [FirstSeen |-> ts, LastSeen |-> ts, SSID |-> s, Hidden |-> present /\ s = None]
      ELSE [FirstSeen |-> aps[b].FirstSeen, LastSeen |-> ts,
            SSID      |-> IF s = None THEN aps[b].SSID ELSE s,
            Hidden    |-> s = None /\ (present \/ aps[b].Hidden)]
<1>1. aps \in [APs -> APInfo \cup {None}]
  BY DEF TypeOK
<1>2. aps' = [aps EXCEPT ![b] = entry]
  BY DEF UpdatedAP
<1>3. /\ entry \in APInfo /\ entry.LastSeen = ts
      /\ aps[b] # None => /\ entry.FirstSeen = aps[b].FirstSeen
                          /\ aps[b].SSID # None => entry.SSID # None
  BY <1>1 DEF APInfo
<1> HIDE DEF entry
<1>4. /\ aps' \in [APs -> APInfo \cup {None}]
      /\ aps'[b] = entry /\ entry # None
      /\ \A a \in APs : a # b => aps'[a] = aps[a]
  BY <1>1, <1>2, <1>3, EntryAssumption
<1>5. \A a \in APs : aps[a] # None =>
        aps[a].LastSeen \in Times /\ aps[a].LastSeen <= ts
  BY DEF TimeInv, TypeOK, APInfo, Times
<1>6. ts \in Int
  BY DEF Times
<1> QED
  BY <1>3, <1>4, <1>5, <1>6 DEF KeptAPs, Times

--------------------------------------------------------------------------------
(* The steps. *)

\* What a step of ProcessFrame leaves behind.
FrameKept ==
  /\ TypeInv' /\ Kept(frameTs') /\ KeptAPs(frameTs') /\ frameTs <= frameTs'
  /\ UNCHANGED <<clock, evictor>>

\* ProcessFrame's first step of a frame that is about one client and is not over.
LEMMA ClientStep ==
  ASSUME Inv, NEW ts \in Times, ts >= frameTs, frameTs' = ts,
         clients' \in [Clients -> ClientInfo \cup {None}], Kept(ts),
         UNCHANGED <<aps, clock, evictor>>,
         pc' \in {"idle", "probeUpdate", "probeSSID", "dataInsert", "deauthSrc"},
         cur' \in Clients \cup {None}, exists' \in BOOLEAN, ssid' \in SSIDs \cup {None},
         bssid' \in APs \cup {None}, LocalsInv'
  PROVE  FrameKept
BY UnchangedAPs DEF FrameKept, Inv, TypeInv, TypeOK, evictor, Times

\* A frame that is taken is no older than the one before.
LEMMA TakenFrame ==
  ASSUME NEW t \in Times, TakeFrame(t)
  PROVE  frameTs' = t /\ t >= frameTs /\ pc = "idle"
BY DEF TakeFrame

\* MarkDisassociated keeps what has to be kept.
LEMMA DisassociatedKept ==
  ASSUME Inv, NEW c \in Clients \cup {None}, frameTs' \in Times, frameTs' >= frameTs,
         MarkDisassociated(c)
  PROVE  /\ clients' \in [Clients -> ClientInfo \cup {None}]
         /\ Kept(frameTs')
<1>1. CASE c # None /\ clients[c] # None
  <2>1. c \in Clients /\ clients[c] \in ClientInfo
    BY <1>1 DEF Inv, TypeInv, TypeOK
  <2>2. clients[c].Traffic \in BOOLEAN /\ clients[c].BSSID \in APs \cup {None}
    BY <2>1 DEF ClientInfo
  <2>3. clients' = [clients EXCEPT ![c] = [clients[c] EXCEPT
          !.Associated = FALSE, !.Traffic = clients[c].Traffic,
          !.BSSID = clients[c].BSSID, !.LastSeen = frameTs']]
    BY <1>1, <2>1 DEF MarkDisassociated, ClientInfo
  <2> QED
    BY <1>1, <2>1, <2>2, <2>3, FieldSetKept
<1>2. CASE ~(c # None /\ clients[c] # None)
  BY <1>2, UnchangedKept DEF MarkDisassociated
<1> QED
  BY <1>1, <1>2

\* The frames about access points and the first steps of those about clients.
LEMMA FirstStep ==
  ASSUME Inv, NEW t \in Times,
         \/ \E b \in APs, s \in SSIDs \cup {None} :
              \/ \E present \in BOOLEAN : ProcessBeacon(b, s, present, t)
              \/ ProcessProbeResponse(b, s, t)
         \/ \E c \in Clients, s \in SSIDs \cup {None} : ProbeGet(c, s, t)
         \/ \E c \in Clients, b \in APs :
              \/ AssocRequest(c, b, t) \/ AssocResponse(c, b, t)
              \/ DataIncrement(c, b, t) \/ DataUnknown(c, b, t)
         \/ \E dst, src \in Clients \cup {None} : DeauthDst(dst, src, t)
  PROVE  FrameKept
<1> USE DEF Inv, TypeInv, LocalsInv, evictor
<1>1. /\ pc \in {"idle", "probeUpdate", "probeSSID", "dataInsert", "deauthSrc"}
      /\ cur \in Clients \cup {None} /\ exists \in BOOLEAN
      /\ ssid \in SSIDs \cup {None} /\ bssid \in APs \cup {None}
      /\ clients \in [Clients -> ClientInfo \cup {None}]
  BY DEF TypeOK
<1>2. ASSUME NEW b \in APs, NEW s \in SSIDs \cup {None}, NEW present \in BOOLEAN,
             ProcessBeacon(b, s, present, t) \/ ProcessProbeResponse(b, s, t)
      PROVE  FrameKept
  <2>1. /\ frameTs' = t /\ t >= frameTs
        /\ UNCHANGED <<clients, clock, pc, cur, exists, ssid, bssid, evPc, evNow>>
    BY <1>2, TakenFrame DEF ProcessBeacon, ProcessProbeResponse
  <2>2. aps' = UpdatedAP(b, t, s, present) \/ aps' = UpdatedAP(b, t, s, FALSE)
    BY <1>2 DEF ProcessBeacon, ProcessProbeResponse
  <2>3. aps' \in [APs -> APInfo \cup {None}] /\ KeptAPs(t)
    BY <2>1, <2>2, UpdatedAPKept
  <2>4. Kept(t)
    BY <2>1, UnchangedKept
  <2> QED
    BY <2>1, <2>3, <2>4 DEF FrameKept, TypeOK, Times
<1>3. ASSUME NEW c \in Clients, NEW s \in SSIDs \cup {None}, ProbeGet(c, s, t)
      PROVE  FrameKept
  <2>1. /\ frameTs' = t /\ t >= frameTs /\ UNCHANGED <<aps, clients, clock, bssid, evPc, evNow>>
        /\ pc' = "probeUpdate" /\ cur' = c /\ ssid' = s /\ exists' \in BOOLEAN
    BY <1>3, TakenFrame DEF ProbeGet
  <2> QED
    BY <1>1, <2>1, UnchangedKept, ClientStep
<1>4. ASSUME NEW c \in Clients, NEW b \in APs, AssocRequest(c, b, t) PROVE FrameKept
  <2>1. /\ frameTs' = t /\ t >= frameTs /\ pc = "idle"
        /\ UNCHANGED <<aps, clock, pc, cur, exists, ssid, bssid, evPc, evNow>>
    BY <1>4, TakenFrame DEF AssocRequest
  <2>2. New(t, t, b, FALSE) \in ClientInfo
    BY NewType
  <2>3. New(t, t, b, FALSE).LastSeen = t
    BY DEF New
  <2>4. clients' \in [Clients -> ClientInfo \cup {None}] /\ Kept(t)
    BY <1>4, <2>1, <2>2, <2>3, UpdatedKept DEF AssocRequest
  <2> QED
    BY <1>1, <2>1, <2>4, ClientStep
<1>5. ASSUME NEW c \in Clients, NEW b \in APs,
             AssocResponse(c, b, t) \/ DataIncrement(c, b, t)
      PROVE  FrameKept
  <2>1. /\ frameTs' = t /\ t >= frameTs /\ pc = "idle" /\ clients[c] # None
        /\ UNCHANGED <<aps, clock, pc, cur, exists, ssid, bssid, evPc, evNow>>
    BY <1>5, TakenFrame DEF AssocResponse, DataIncrement
  <2>2. clients[c] \in ClientInfo
    BY <1>1, <2>1
  <2>3. CASE AssocResponse(c, b, t)
    <3>1. clients' = [clients EXCEPT ![c] = [clients[c] EXCEPT
            !.Associated = TRUE, !.Traffic = clients[c].Traffic, !.BSSID = b, !.LastSeen = t]]
      BY <1>1, <2>2, <2>3 DEF AssocResponse, ClientInfo
    <3>2. clients[c].Traffic \in BOOLEAN
      BY <2>2 DEF ClientInfo
    <3> QED
      BY ZenonT(40), <1>1, <2>1, <3>1, <3>2, FieldSetKept, ClientStep, StateAssumption
  <2>4. CASE DataIncrement(c, b, t)
    <3>1. clients' = [clients EXCEPT ![c] = [clients[c] EXCEPT
            !.Associated = clients[c].Associated, !.Traffic = TRUE, !.BSSID = b,
            !.LastSeen = t]]
      BY <1>1, <2>2, <2>4 DEF DataIncrement, ClientInfo
    <3>2. clients[c].Associated \in BOOLEAN
      BY <2>2 DEF ClientInfo
    <3> QED
      BY ZenonT(40), <1>1, <2>1, <3>1, <3>2, FieldSetKept, ClientStep, StateAssumption
  <2> QED
    BY <1>5, <2>3, <2>4
<1>6. ASSUME NEW c \in Clients, NEW b \in APs, DataUnknown(c, b, t) PROVE FrameKept
  <2>1. /\ frameTs' = t /\ t >= frameTs
        /\ UNCHANGED <<aps, clients, clock, exists, ssid, evPc, evNow>>
        /\ pc' = "dataInsert" /\ cur' = c /\ bssid' = b
    BY <1>6, TakenFrame DEF DataUnknown
  <2> QED
    BY <1>1, <2>1, UnchangedKept, ClientStep
<1>7. ASSUME NEW dst \in Clients \cup {None}, NEW src \in Clients \cup {None},
             DeauthDst(dst, src, t)
      PROVE  FrameKept
  <2>1. /\ frameTs' = t /\ t >= frameTs
        /\ UNCHANGED <<aps, clock, exists, ssid, bssid, evPc, evNow>>
        /\ pc' = "deauthSrc" /\ cur' = src /\ MarkDisassociated(dst)
    BY <1>7, TakenFrame DEF DeauthDst
  <2>2. clients' \in [Clients -> ClientInfo \cup {None}] /\ Kept(t)
    BY <2>1, DisassociatedKept
  <2> QED
    BY <1>1, <2>1, <2>2, ClientStep
<1> QED
  BY <1>2, <1>3, <1>4, <1>5, <1>6, <1>7

\* The later steps of the handlers.
LEMMA LaterStep ==
  ASSUME Inv, ProbeUpdate \/ ProbeAddSSID \/ DeauthSrc \/ DataInsert
  PROVE  FrameKept
<1> USE DEF Inv, TypeInv, LocalsInv, evictor
<1>1. /\ pc \in {"idle", "probeUpdate", "probeSSID", "dataInsert", "deauthSrc"}
      /\ cur \in Clients \cup {None} /\ exists \in BOOLEAN
      /\ ssid \in SSIDs \cup {None} /\ bssid \in APs \cup {None}
      /\ clients \in [Clients -> ClientInfo \cup {None}]
      /\ frameTs \in Times /\ frameTs >= frameTs
  BY DEF TypeOK, Times
<1>2. CASE ProbeUpdate
  <2> DEFINE new == New(IF exists THEN None ELSE frameTs, frameTs, None, FALSE)
  <2>1. cur \in Clients /\ frameTs' = frameTs /\ UNCHANGED <<aps, clock, evPc, evNow>>
    BY <1>2 DEF ProbeUpdate
  <2>2. new \in ClientInfo /\ new.LastSeen = frameTs
    BY <1>1, NewType DEF New
  <2>3. clients' = Updated(cur, new)
    BY <1>2 DEF ProbeUpdate
  <2> HIDE DEF new
  <2>4. clients' \in [Clients -> ClientInfo \cup {None}] /\ Kept(frameTs)
    BY <1>1, <2>1, <2>2, <2>3, UpdatedKept
  <2>5. /\ pc' \in {"idle", "probeSSID"} /\ cur' \in Clients \cup {None}
        /\ exists' \in BOOLEAN /\ ssid' \in SSIDs \cup {None} /\ bssid' \in APs \cup {None}
        /\ pc' = "probeSSID" => ssid' \in SSIDs /\ cur' \in Clients
    BY <1>1, <1>2, <2>1 DEF ProbeUpdate, Return
  <2> QED
    BY <1>1, <2>1, <2>4, <2>5, ClientStep
<1>3. CASE ProbeAddSSID
  <2>1. /\ cur \in Clients /\ ssid \in SSIDs
        /\ frameTs' = frameTs /\ UNCHANGED <<aps, clock, evPc, evNow>>
        /\ pc' = "idle" /\ cur' = None /\ exists' = FALSE /\ ssid' = None /\ bssid' = None
    BY <1>3 DEF ProbeAddSSID, Return
  <2>2. CASE clients[cur] = None
    <3>1. clients' = clients
      BY <1>1, <1>3, <2>1, <2>2 DEF ProbeAddSSID
    <3> QED
      BY <1>1, <2>1, <3>1, UnchangedKept, ClientStep
  <2>3. CASE clients[cur] # None
    <3> DEFINE probed == clients[cur].ProbeSSIDs \cup {ssid}
               entry == [clients[cur] EXCEPT !.ProbeSSIDs = probed]
    <3>1. /\ clients[cur] \in ClientInfo /\ probed \in SUBSET SSIDs
          /\ clients[cur].ProbeSSIDs \subseteq probed
      BY <1>1, <2>1, <2>3 DEF ClientInfo
    <3>2. clients' = [clients EXCEPT ![cur] = entry]
      BY <1>3, <2>3 DEF ProbeAddSSID
    <3> HIDE DEF probed
    <3>3. /\ entry \in ClientInfo /\ entry.LastSeen = clients[cur].LastSeen
          /\ entry.FirstSeen = clients[cur].FirstSeen
          /\ entry.BSSID = clients[cur].BSSID
          /\ entry.Traffic = clients[cur].Traffic /\ entry.ProbeSSIDs = probed
      BY <3>1 DEF ClientInfo
    <3> HIDE DEF entry
    <3>4. /\ clients' \in [Clients -> ClientInfo \cup {None}]
          /\ clients'[cur] = entry /\ entry # None
          /\ \A d \in Clients : d # cur => clients'[d] = clients[d]
      BY <1>1, <2>1, <3>2, <3>3, EntryAssumption
    <3>5. \A d \in Clients : clients[d] # None =>
            clients[d].LastSeen \in Int /\ clients[d].LastSeen <= frameTs
      BY DEF TimeInv, TypeOK, ClientInfo, Times
    <3>6. \A d \in Clients : d # cur =>
            /\ clients'[d] = clients[d]
            /\ clients[d] # None => /\ clients[d].LastSeen >= clients[d].LastSeen
                                   /\ clients[d].LastSeen <= frameTs
      BY <3>4, <3>5
    <3>7. /\ clients'[cur] # None /\ clients'[cur].LastSeen <= frameTs
          /\ clients'[cur].LastSeen >= clients[cur].LastSeen
          /\ clients'[cur].FirstSeen = clients[cur].FirstSeen
          /\ clients[cur].BSSID # None => clients'[cur].BSSID # None
          /\ clients[cur].Traffic => clients'[cur].Traffic
          /\ clients[cur].ProbeSSIDs \subseteq clients'[cur].ProbeSSIDs
      BY <2>1, <2>3, <3>1, <3>3, <3>4, <3>5
    <3>8. Kept(frameTs)
      BY <3>6, <3>7 DEF Kept
    <3> QED
      BY <1>1, <2>1, <3>4, <3>8, ClientStep
  <2> QED
    BY <2>2, <2>3
<1>4. CASE DeauthSrc
  <2>1. /\ frameTs' = frameTs /\ MarkDisassociated(cur)
        /\ UNCHANGED <<aps, clock, evPc, evNow>>
        /\ pc' = "idle" /\ cur' = None /\ exists' = FALSE /\ ssid' = None /\ bssid' = None
    BY <1>4 DEF DeauthSrc, Return
  <2>2. clients' \in [Clients -> ClientInfo \cup {None}] /\ Kept(frameTs)
    BY <1>1, <2>1, DisassociatedKept
  <2> QED
    BY <1>1, <2>1, <2>2, ClientStep
<1>5. CASE DataInsert
  <2>1. /\ cur \in Clients /\ frameTs' = frameTs /\ UNCHANGED <<aps, clock, evPc, evNow>>
        /\ pc' = "idle" /\ cur' = None /\ exists' = FALSE /\ ssid' = None /\ bssid' = None
        /\ clients' = Updated(cur, New(frameTs, frameTs, bssid, TRUE))
    BY <1>5 DEF DataInsert, Return
  <2>2. /\ New(frameTs, frameTs, bssid, TRUE) \in ClientInfo
        /\ New(frameTs, frameTs, bssid, TRUE).LastSeen = frameTs
    BY <1>1, NewType DEF New
  <2>3. clients' \in [Clients -> ClientInfo \cup {None}] /\ Kept(frameTs)
    BY <1>1, <2>1, <2>2, UpdatedKept
  <2> QED
    BY <1>1, <2>1, <2>3, ClientStep
<1> QED
  BY <1>2, <1>3, <1>4, <1>5

\* Whatever ProcessFrame does next keeps what has to be kept.
LEMMA FrameStep ==
  ASSUME Inv, ProcessFrame
  PROVE  FrameKept
BY FirstStep, LaterStep DEF ProcessFrame

\* A sweep removes stale entries and touches nothing else.
LEMMA SweepStep ==
  ASSUME Inv, Eviction
  PROVE  /\ TypeInv' /\ UNCHANGED <<clock, consumer>> /\ evNow' <= clock
         /\ \A b \in APs :
              \/ aps'[b] = aps[b]
              \/ aps'[b] = None /\ Stale(aps[b], TTL)
         /\ \A c \in Clients :
              \/ clients'[c] = clients[c]
              \/ clients'[c] = None /\ Stale(clients[c], TTL)
              \/ /\ clients'[c] = None
                 /\ Stale(clients[c], ProbeOnlyTTL) /\ ProbeOnly(clients[c])
<1>1. /\ aps \in [APs -> APInfo \cup {None}]
      /\ clients \in [Clients -> ClientInfo \cup {None}]
      /\ evNow \in Times /\ clock \in Times /\ evNow <= clock
      /\ 0 \in Times /\ 0 <= clock /\ clock <= clock
  BY StateAssumption DEF Inv, TypeInv, TypeOK, TimeInv, Times
<1>2. UNCHANGED <<clock, consumer>>
  BY DEF Eviction, EvictStart, EvictAPs, EvictProbeOnly, EvictClients
<1>3. evPc' \in {"idle", "aps", "probeOnly", "clients"} /\ evNow' \in {evNow, clock, 0}
  BY DEF Eviction, EvictStart, EvictAPs, EvictProbeOnly, EvictClients
<1>4. \A b \in APs :
        \/ aps'[b] = aps[b]
        \/ aps'[b] = None /\ Stale(aps[b], TTL)
  <2>1. CASE EvictAPs
    BY <2>1 DEF EvictAPs
  <2>2. CASE UNCHANGED aps
    BY <2>2
  <2> QED
    BY <2>1, <2>2 DEF Eviction, EvictStart, EvictProbeOnly, EvictClients
<1>5. aps' \in [APs -> APInfo \cup {None}]
  BY <1>1 DEF Eviction, EvictStart, EvictAPs, EvictProbeOnly, EvictClients
<1>6. \A c \in Clients :
        \/ clients'[c] = clients[c]
        \/ clients'[c] = None /\ Stale(clients[c], TTL)
        \/ /\ clients'[c] = None
           /\ Stale(clients[c], ProbeOnlyTTL) /\ ProbeOnly(clients[c])
  BY DEF Eviction, EvictStart, EvictAPs, EvictProbeOnly, EvictClients
<1>7. clients' \in [Clients -> ClientInfo \cup {None}]
  BY <1>1 DEF Eviction, EvictStart, EvictAPs, EvictProbeOnly, EvictClients
<1>8. TypeInv'
  BY <1>1, <1>2, <1>3, <1>5, <1>7 DEF Inv, TypeInv, TypeOK, LocalsInv, consumer
<1> QED
  BY <1>1, <1>2, <1>3, <1>4, <1>6, <1>8

\* Every step keeps the invariant.
LEMMA StepInv == Inv /\ [Next]_vars => Inv'
<1> SUFFICES ASSUME Inv, [Next]_vars PROVE Inv'
  OBVIOUS
<1>1. CASE ProcessFrame
  <2>1. FrameKept
    BY <1>1, FrameStep
  <2> QED
    BY <2>1 DEF FrameKept, Kept, KeptAPs, Inv, TimeInv, evictor
<1>2. CASE Eviction
  BY <1>2, SweepStep DEF Inv, TimeInv, consumer
<1>3. CASE Tick
  <2>1. /\ clock' \in Times /\ clock' \in Int
        /\ clock < clock' /\ clock \in Int /\ evNow \in Int
    BY <1>3, StateAssumption DEF Tick, Inv, TypeInv, TypeOK, Times
  <2>2. evNow <= clock'
    BY <2>1 DEF Inv, TimeInv
  <2> QED
    BY <1>3, <2>1, <2>2 DEF Tick, Inv, TypeInv, TypeOK, LocalsInv, TimeInv, consumer, evictor
<1>4. CASE UNCHANGED vars
  BY <1>4 DEF vars, Inv, TypeInv, TypeOK, LocalsInv, TimeInv, consumer, evictor
<1> QED
  BY <1>1, <1>2, <1>3, <1>4 DEF Next

\* The invariant holds however handlers and sweeps are interleaved.
THEOREM Invariance == Spec => []Inv
<1>1. Init => Inv
  <2> SUFFICES ASSUME Init PROVE Inv
    OBVIOUS
  <2>1. 0 \in Times /\ 0 <= 0
    BY StateAssumption DEF Times
  <2>2. TypeOK
    BY <2>1 DEF Init, TypeOK
  <2>3. LocalsInv /\ TimeInv
    BY <2>1 DEF Init, LocalsInv, TimeInv
  <2> QED
    BY <2>2, <2>3 DEF Inv, TypeInv
<1> QED
  BY <1>1, StepInv, PTL DEF Spec

--------------------------------------------------------------------------------
(* What follows from it. *)

\* The maps stay well typed.
THEOREM TypeCorrect == Spec => []TypeOK
<1>1. Inv => TypeOK
  BY DEF Inv, TypeInv
<1> QED
  BY <1>1, Invariance, PTL

\* No entry is evicted before its life is over.
THEOREM RetentionCorrect == Spec => RetainedWhileFresh
<1> DEFINE Retained ==
      /\ \A b \in APs :
           aps[b] # None /\ aps'[b] = None => clock > aps[b].LastSeen + TTL
      /\ \A c \in Clients :
           clients[c] # None /\ clients'[c] = None
             => clock > clients[c].LastSeen + Life(clients[c])
<1>1. Inv /\ [Next]_vars => Retained
  <2> SUFFICES ASSUME Inv, [Next]_vars PROVE Retained
    OBVIOUS
  <2>1. CASE ProcessFrame
    <3>1. FrameKept
      BY <2>1, FrameStep
    <3> QED
      BY <3>1 DEF FrameKept, Kept, KeptAPs
  <2>2. CASE Eviction
    <3>1. /\ evNow <= clock /\ clock \in Int /\ evNow \in Int
          /\ TTL \in Int /\ ProbeOnlyTTL \in Int
      BY StateAssumption DEF Inv, TypeInv, TypeOK, TimeInv, Times
    <3>2. ASSUME NEW b \in APs, aps[b] # None, Stale(aps[b], TTL)
          PROVE  clock > aps[b].LastSeen + TTL
      <4>1. aps[b].LastSeen \in Int
        BY <3>2 DEF Inv, TypeInv, TypeOK, APInfo, Times
      <4> QED
        BY <3>1, <3>2, <4>1 DEF Stale
    <3>3. ASSUME NEW c \in Clients, clients[c] # None,
                 \/ Stale(clients[c], TTL)
                 \/ Stale(clients[c], ProbeOnlyTTL) /\ ProbeOnly(clients[c])
          PROVE  clock > clients[c].LastSeen + Life(clients[c])
      <4>1. clients[c].LastSeen \in Int
        BY <3>3 DEF Inv, TypeInv, TypeOK, ClientInfo, Times
      <4>2. /\ Life(clients[c]) \in Int
            /\ Life(clients[c]) <= TTL
            /\ ProbeOnly(clients[c]) => Life(clients[c]) <= ProbeOnlyTTL
        BY <3>1 DEF Life, Earlier
      <4>3. PICK life \in Int : life = Life(clients[c])
        BY <4>2
      <4>4. PICK seen \in Int : seen = clients[c].LastSeen
        BY <4>1
      <4>5. seen < evNow - TTL \/ (seen < evNow - ProbeOnlyTTL /\ ProbeOnly(clients[c]))
        BY <3>3, <4>4 DEF Stale
      <4>6. life <= TTL /\ (ProbeOnly(clients[c]) => life <= ProbeOnlyTTL)
        BY <4>2, <4>3
      <4>7. clock > seen + life
        BY <3>1, <4>5, <4>6
      <4> QED
        BY <4>3, <4>4, <4>7
    <3> QED
      BY <2>2, <3>2, <3>3, SweepStep
  <2>3. CASE Tick \/ UNCHANGED vars
    BY <2>3 DEF Tick, vars
  <2> QED
    BY <2>1, <2>2, <2>3 DEF Next
<1> QED
  BY <1>1, Invariance, PTL DEF Spec, RetainedWhileFresh

\* What is known of an access point or a client is kept as long as its entry is.
THEOREM EntryCorrect == Spec => EntryKept
<1> DEFINE APEntriesKept ==
      \A b \in APs :
        aps[b] # None /\ aps'[b] # None =>
          /\ aps'[b].FirstSeen = aps[b].FirstSeen
          /\ aps'[b].LastSeen >= aps[b].LastSeen
          /\ aps[b].SSID # None => aps'[b].SSID # None
    EntriesKept ==
      \A c \in Clients :
        clients[c] # None /\ clients'[c] # None =>
          /\ clients'[c].FirstSeen = clients[c].FirstSeen
          /\ clients'[c].LastSeen >= clients[c].LastSeen
          /\ clients[c].BSSID # None => clients'[c].BSSID # None
          /\ clients[c].Traffic => clients'[c].Traffic
          /\ clients[c].ProbeSSIDs \subseteq clients'[c].ProbeSSIDs
<1>1. Inv /\ [Next]_vars => APEntriesKept /\ EntriesKept
  <2> SUFFICES ASSUME Inv, [Next]_vars PROVE APEntriesKept /\ EntriesKept
    OBVIOUS
  <2>1. CASE ProcessFrame
    <3>1. FrameKept
      BY <2>1, FrameStep
    <3> QED
      BY <3>1 DEF FrameKept, Kept, KeptAPs
  <2>2. /\ \A b \in APs : aps[b] # None => aps[b].LastSeen >= aps[b].LastSeen
        /\ \A c \in Clients : clients[c] # None => clients[c].LastSeen >= clients[c].LastSeen
    BY DEF Inv, TypeInv, TypeOK, APInfo, ClientInfo, Times
  <2>3. CASE Eviction
    BY <2>2, <2>3, SweepStep
  <2>4. CASE Tick \/ UNCHANGED vars
    BY <2>2, <2>4 DEF Tick, vars
  <2> QED
    BY <2>1, <2>3, <2>4 DEF Next
<1> QED
  BY <1>1, Invariance, PTL DEF Spec, EntryKept
================================================================================
