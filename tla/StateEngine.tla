------------------------------ MODULE StateEngine ------------------------------
(***************************************************************************)
(* The state engine (internal/state): the AP and client maps, written by   *)
(* consumeStateFrames (ProcessFrame) and by the eviction goroutine.  Each  *)
(* map has its own lock and every map operation is one locked section, so  *)
(* a handler or a sweep that makes several calls can be interleaved with   *)
(* the other between any two of them.  Readers change nothing.             *)
(*                                                                         *)
(* Of an entry the model keeps what decides its fate or is merged with     *)
(* care: the two times; of an access point its name and whether it hides   *)
(* it; of a client Associated, where, whether FrameCount is positive, and  *)
(* the probed SSIDs.  The channel, the signal strength, the information    *)
(* elements and the capability are those of a frame and left out.          *)
(***************************************************************************)
EXTENDS Integers, FiniteSets

CONSTANTS
  APs, Clients,    \* BSSIDs and client MACs on the air
  SSIDs,           \* names of networks
  None,            \* no entry, no name, no address; as a time, the zero time.Time
  TTL,             \* state.ttl
  ProbeOnlyTTL,    \* probeOnlyTTL (2 minutes)
  MaxClock,        \* bound on time
  MaxLag           \* how old a frame can be when it is processed

ASSUME StateAssumption ==
  /\ TTL \in Nat /\ ProbeOnlyTTL \in Nat /\ MaxClock \in Nat /\ MaxLag \in Nat
  /\ None \notin Int /\ None \notin Clients /\ None \notin APs /\ None \notin SSIDs

VARIABLES
  aps,         \* APMap: None or an access point's record
  clients,     \* ClientMap: None or a client record
  clock,       \* time.Now()
  frameTs,     \* Timestamp of the frame in process, or of the last one
  pc, cur,     \* where ProcessFrame is, and the client it is about
  exists,      \* processProbeRequest's local
  ssid,        \* the probed SSID, None for a wildcard
  bssid,       \* processDataFrame's local
  evPc, evNow  \* the eviction goroutine and the time it took its cutoffs

consumer == <<frameTs, pc, cur, exists, ssid, bssid>>
evictor  == <<evPc, evNow>>
vars     == <<aps, clients, clock, consumer, evictor>>

Times == 0..MaxClock

APInfo == [FirstSeen : Times, LastSeen : Times, SSID : SSIDs \cup {None}, Hidden : BOOLEAN]

ClientInfo == [FirstSeen : Times \cup {None}, LastSeen : Times, Associated : BOOLEAN,
               BSSID : APs \cup {None}, Traffic : BOOLEAN, ProbeSSIDs : SUBSET SSIDs]

\* No entry is not an entry.
ASSUME EntryAssumption == None \notin APInfo /\ None \notin ClientInfo

\* ProcessFrame returns; its locals are gone.
Return == pc' = "idle" /\ cur' = None /\ exists' = FALSE /\ ssid' = None /\ bssid' = None

Earlier(a, b) == IF a < b THEN a ELSE b

ProbeOnly(c) == ~c.Traffic /\ ~c.Associated

\* How long an entry lives after its last frame.
Life(c) == IF ProbeOnly(c) THEN Earlier(TTL, ProbeOnlyTTL) ELSE TTL

TypeOK ==
  /\ aps \in [APs -> APInfo \cup {None}]
  /\ clients \in [Clients -> ClientInfo \cup {None}]
  /\ clock \in Times /\ frameTs \in Times
  /\ pc \in {"idle", "probeUpdate", "probeSSID", "dataInsert", "deauthSrc"}
  /\ cur \in Clients \cup {None}
  /\ exists \in BOOLEAN
  /\ ssid \in SSIDs \cup {None} /\ bssid \in APs \cup {None}
  /\ evPc \in {"idle", "aps", "probeOnly", "clients"} /\ evNow \in Times

Init ==
  /\ aps = [b \in APs |-> None]
  /\ clients = [c \in Clients |-> None]
  /\ clock = 0 /\ frameTs = 0
  /\ pc = "idle" /\ cur = None /\ exists = FALSE /\ ssid = None /\ bssid = None
  /\ evPc = "idle" /\ evNow = 0

--------------------------------------------------------------------------------
(* Map operations. *)

\* The record of a client associated with b, or of one that has probed (b = None).
New(first, now, b, traffic) ==
  [FirstSeen |-> first, LastSeen |-> now, Associated |-> b # None, BSSID |-> b,
   Traffic |-> traffic, ProbeSSIDs |-> {}]

\* Mutant: the entry is overwritten instead of merged.
UpdatedOverwrite(c, new) == [clients EXCEPT ![c] = new]

\* What Update merges of the caller's record into the one that is there.
Merged(old, new) ==
  [old EXCEPT !.LastSeen = new.LastSeen,
              !.BSSID = IF new.BSSID = None THEN old.BSSID ELSE new.BSSID,
              !.Traffic = old.Traffic \/ new.Traffic,
              !.Associated = old.Associated \/ new.Associated]

\* ClientMap.Update: insert, or merge what the caller supplied.
Updated(c, new) ==
  [clients EXCEPT ![c] = IF @ = None THEN new ELSE Merged(@, new)]

\* UpdateBeacon; FirstSeen stays, and a name until another one comes.  An SSID that
\* is present and empty (None) hides the name.
UpdatedAP(b, now, s, present) ==
  [aps EXCEPT ![b] =
     IF aps[b] = None
     THEN [FirstSeen |-> now, LastSeen |-> now, SSID |-> s, Hidden |-> present /\ s = None]
     ELSE [FirstSeen |-> aps[b].FirstSeen, LastSeen |-> now,
           SSID      |-> IF s = None THEN aps[b].SSID ELSE s,
           Hidden    |-> s = None /\ (present \/ aps[b].Hidden)]]

--------------------------------------------------------------------------------
(* ProcessFrame, in the goroutine of consumeStateFrames. *)

\* The next frame: frames arrive in the order of capture, some time after it.
TakeFrame(t) ==
  /\ pc = "idle"
  /\ t >= frameTs /\ t >= clock - MaxLag /\ t <= clock
  /\ frameTs' = t

ProcessBeacon(b, s, present, t) ==
  /\ TakeFrame(t)
  /\ s # None => present
  /\ aps' = UpdatedAP(b, t, s, present)
  /\ UNCHANGED <<clients, clock, pc, cur, exists, ssid, bssid, evictor>>

\* Of a probe response an empty SSID says nothing.
ProcessProbeResponse(b, s, t) ==
  /\ TakeFrame(t)
  /\ aps' = UpdatedAP(b, t, s, FALSE)
  /\ UNCHANGED <<clients, clock, pc, cur, exists, ssid, bssid, evictor>>

\* processProbeRequest: Get, then Update, then AddProbeSSID.
ProbeGet(c, s, t) ==
  /\ TakeFrame(t)
  /\ pc' = "probeUpdate" /\ cur' = c /\ ssid' = s
  /\ exists' = (clients[c] # None)
  /\ UNCHANGED <<aps, clients, clock, bssid, evictor>>

\* An entry that exists is updated without a FirstSeen.
ProbeUpdate ==
  /\ pc = "probeUpdate"
  /\ clients' = Updated(cur, New(IF exists THEN None ELSE frameTs, frameTs, None, FALSE))
  /\ IF ssid = None THEN Return
     ELSE pc' = "probeSSID" /\ UNCHANGED <<cur, exists, ssid, bssid>>
  /\ UNCHANGED <<aps, clock, frameTs, evictor>>

ProbeAddSSID ==
  /\ pc = "probeSSID"
  /\ clients' = [clients EXCEPT ![cur] =
       IF @ = None THEN None
       ELSE [@ EXCEPT !.ProbeSSIDs = clients[cur].ProbeSSIDs \cup {ssid}]]
  /\ Return
  /\ UNCHANGED <<aps, clock, frameTs, evictor>>

\* processAssocRequest
AssocRequest(c, b, t) ==
  /\ TakeFrame(t)
  /\ clients' = Updated(c, New(t, t, b, FALSE))
  /\ UNCHANGED <<aps, clock, pc, cur, exists, ssid, bssid, evictor>>

\* processAssocResponse with status 0: MarkAssociated, of a known client.
AssocResponse(c, b, t) ==
  /\ TakeFrame(t)
  /\ clients[c] # None
  /\ clients' = [clients EXCEPT ![c].Associated = TRUE, ![c].LastSeen = t, ![c].BSSID = b]
  /\ UNCHANGED <<aps, clock, pc, cur, exists, ssid, bssid, evictor>>

MarkDisassociated(c) ==
  IF c # None /\ clients[c] # None
  THEN clients' = [clients EXCEPT ![c].Associated = FALSE, ![c].LastSeen = frameTs']
  ELSE UNCHANGED clients

\* processDeauthDisassoc: DstMAC, then SrcMAC; None is a broadcast, an address
\* that is not a client, or no address.
DeauthDst(dst, src, t) ==
  /\ TakeFrame(t)
  /\ MarkDisassociated(dst)
  /\ pc' = "deauthSrc" /\ cur' = src
  /\ UNCHANGED <<aps, clock, exists, ssid, bssid, evictor>>

DeauthSrc ==
  /\ pc = "deauthSrc"
  /\ frameTs' = frameTs
  /\ MarkDisassociated(cur)
  /\ Return
  /\ UNCHANGED <<aps, clock, evictor>>

\* processDataFrame: IncrementFrame of a known client, and
DataIncrement(c, b, t) ==
  /\ TakeFrame(t)
  /\ clients[c] # None
  /\ clients' = [clients EXCEPT ![c].Traffic = TRUE, ![c].LastSeen = t, ![c].BSSID = b]
  /\ UNCHANGED <<aps, clock, pc, cur, exists, ssid, bssid, evictor>>

\* for an unknown one, a second call that inserts it.
DataUnknown(c, b, t) ==
  /\ TakeFrame(t)
  /\ clients[c] = None
  /\ pc' = "dataInsert" /\ cur' = c /\ bssid' = b
  /\ UNCHANGED <<aps, clients, clock, exists, ssid, evictor>>

DataInsert ==
  /\ pc = "dataInsert"
  /\ clients' = Updated(cur, New(frameTs, frameTs, bssid, TRUE))
  /\ Return
  /\ UNCHANGED <<aps, clock, frameTs, evictor>>

--------------------------------------------------------------------------------
(* RunEviction: the cutoffs are taken once, then three locked sections. *)

Stale(e, life) == e # None /\ e.LastSeen < evNow - life

EvictStart ==
  /\ evPc = "idle"
  /\ evPc' = "aps" /\ evNow' = clock
  /\ UNCHANGED <<aps, clients, clock, consumer>>

EvictAPs ==
  /\ evPc = "aps"
  /\ aps' = [b \in APs |-> IF Stale(aps[b], TTL) THEN None ELSE aps[b]]
  /\ evPc' = "probeOnly"
  /\ UNCHANGED <<clients, clock, consumer, evNow>>

\* Mutant: the short TTL applies to every client that is not associated.
EvictProbeOnlyAny ==
  /\ evPc = "probeOnly"
  /\ clients' = [c \in Clients |->
       IF Stale(clients[c], ProbeOnlyTTL) /\ ~clients[c].Associated
       THEN None ELSE clients[c]]
  /\ evPc' = "clients"
  /\ UNCHANGED <<aps, clock, consumer, evNow>>

EvictProbeOnly ==
  /\ evPc = "probeOnly"
  /\ clients' = [c \in Clients |->
       IF Stale(clients[c], ProbeOnlyTTL) /\ ProbeOnly(clients[c])
       THEN None ELSE clients[c]]
  /\ evPc' = "clients"
  /\ UNCHANGED <<aps, clock, consumer, evNow>>

EvictClients ==
  /\ evPc = "clients"
  /\ clients' = [c \in Clients |-> IF Stale(clients[c], TTL) THEN None ELSE clients[c]]
  /\ evPc' = "idle" /\ evNow' = 0
  /\ UNCHANGED <<aps, clock, consumer>>

--------------------------------------------------------------------------------
Tick ==
  /\ clock < MaxClock
  /\ clock' = clock + 1
  /\ UNCHANGED <<aps, clients, consumer, evictor>>

ProcessFrame ==
  \/ \E t \in Times :
       \/ \E b \in APs, s \in SSIDs \cup {None} :
            \/ \E present \in BOOLEAN : ProcessBeacon(b, s, present, t)
            \/ ProcessProbeResponse(b, s, t)
       \/ \E c \in Clients, s \in SSIDs \cup {None} : ProbeGet(c, s, t)
       \/ \E c \in Clients, b \in APs :
            \/ AssocRequest(c, b, t) \/ AssocResponse(c, b, t)
            \/ DataIncrement(c, b, t) \/ DataUnknown(c, b, t)
       \/ \E dst, src \in Clients \cup {None} : DeauthDst(dst, src, t)
  \/ ProbeUpdate \/ ProbeAddSSID \/ DeauthSrc \/ DataInsert

Eviction == EvictStart \/ EvictAPs \/ EvictProbeOnly \/ EvictClients

Next == ProcessFrame \/ Eviction \/ Tick

Spec == Init /\ [][Next]_vars

--------------------------------------------------------------------------------
(* Properties. *)

\* An entry stays for the full life its last frame gave it, however the three
\* parts of a sweep fall between the steps of the handlers: the short TTL never
\* takes a client that has sent data or is associated when it is removed.
RetainedWhileFresh ==
  [][/\ \A b \in APs :
          aps[b] # None /\ aps'[b] = None => clock > aps[b].LastSeen + TTL
     /\ \A c \in Clients :
          clients[c] # None /\ clients'[c] = None
            => clock > clients[c].LastSeen + Life(clients[c])]_vars

\* While an entry is tracked its FirstSeen does not change and its LastSeen does not
\* go back; an access point that has been named keeps a name, also when it hides it;
\* and of a client no traffic, no probed SSID and no BSSID is forgotten, whatever
\* frames come.
EntryKept ==
  [][/\ \A b \in APs :
          aps[b] # None /\ aps'[b] # None =>
            /\ aps'[b].FirstSeen = aps[b].FirstSeen
            /\ aps'[b].LastSeen >= aps[b].LastSeen
            /\ aps[b].SSID # None => aps'[b].SSID # None
     /\ \A c \in Clients :
          clients[c] # None /\ clients'[c] # None =>
            /\ clients'[c].FirstSeen = clients[c].FirstSeen
            /\ clients'[c].LastSeen >= clients[c].LastSeen
            /\ clients[c].BSSID # None => clients'[c].BSSID # None
            /\ clients[c].Traffic => clients'[c].Traffic
            /\ clients[c].ProbeSSIDs \subseteq clients'[c].ProbeSSIDs]_vars

\* specs/domains/state.md:94: an update "preserves `FirstSeen`"; so no client is
\* tracked without one.
FirstSeenKnown == \A c \in Clients : clients[c] # None => clients[c].FirstSeen # None
================================================================================
