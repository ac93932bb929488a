# Tobimaru: TLA+ models and proofs

Tobimaru is a wireless intrusion detection daemon: it captures 802.11 frames in
monitor mode, runs detection rules on them, keeps a picture of the network,
stores events in SQLite and serves a dashboard over HTTP and SSE. This directory
holds TLA+ models of its concurrent core, the TLC configurations that check them
and proofs about them for TLAPS. Line numbers refer to `src/`.

* [Inventory](#inventory): the parts of the system
* [Modules](#modules): which module models what, and how it reads against the code
* [Runs](#runs): what TLC checks, with which bounds
* [Fairness](#fairness)
* [Proofs](#proofs)
* [Findings](#findings)
* [Not modelled](#not-modelled)
* [Plan](#plan)

## Inventory

Frames flow one way through the daemon, each arrow a bounded Go channel:

    captureLoop -> p.frames -> fanOut -+-> detectorCh -> detection engine -> alerts -> consumeAlerts -> storage, SSE hub
                                       +-> stateCh    -> state engine (AP and client maps)
    HTTP handlers read the maps and the database, and switch the engine; the SSE hub feeds /api/stream.
    A signal cancels signalCtx; main then runs the shutdown hooks, last registered first.

| Component | Code | State it keeps | Operations | What is hard | What makes it correct |
|---|---|---|---|---|---|
| Detection engine | `internal/detector/detector.go` | rules, dedup map, two atomics, frame counter, alerts channel | Register, Run, dispatch, emit, sweepDedup, SetEnabled, SetDedupWindow | atomics change between the steps of emit; the map overflows; nobody reads the alerts | spacing of alerts with one key, bounded map, quiet when disabled, ends when told |
| Detection rules | `internal/detector/rule_*.go` | per-key timestamps, known BSSIDs, AP records, alert times per device | Process, cleanupStale | windows, resets, caps and cleanups that forget | an event exactly when the air warrants one |
| Frame flow | `capture/pipeline.go`, `cmd/tobimaru/main.go` | three frame channels, the alerts channel, two contexts | captureLoop, fanOut, consumers | select between a send and a cancellation, in every goroutine | no frame lost, doubled or reordered before a signal; everything ends after one |
| State engine | `internal/state/{state,ap,client}.go` | AP map and client map, a lock each | ProcessFrame's handlers, RunEviction, Snapshot | several locked sections per handler and per sweep | entries live as long as their TTL, merges lose nothing |
| SSE hub and streams | `internal/api/{sse,handlers_stream}.go` | publish queue, subscribers and their buffers | Publish, broadcast, Subscribe, unsubscribe, closeAll | slow clients, shutdown against subscribe | nobody pays for another's slowness, no panic, streams end |
| Shutdown manager | `internal/shutdown/shutdown.go` | hooks, a Once, the collected error | Register, Shutdown | hooks that hang, concurrent callers, two nested timeouts | every hook has its turn, errors complete, bounded time |
| Pipeline start/stop, monitor mode, channel hopper | `internal/capture/` | interface mode, goroutines, back-off | Start, Stop, Run of the hopper | partial failure, Stop against a channel switch | the interface is put back; waits grow while the radio is broken |
| Start and exit of the daemon | `cmd/tobimaru/main.go` | what has been started, the four hooks, the exit status | main | early exits, hooks that hang, a wait longer than its hook's budget | the process ends, and its status is the truth |
| Lists, auto-learning | `internal/state/{whitelist,learning}.go`, `api/handlers_lists.go` | maps and tables | add, remove, learn, load | memory against database, under different locks; writes that fail | both agree again after the next change or restart |
| Runtime configuration | `api/handlers_config.go`, `restorePersistedMutable` | settings in the subsystems, a copy in the server, rows in `config` | PUT /api/config, restore | a later setting refused, a failed write, concurrent requests | a restart restores what was set; the server reports what the engine does |
| Authentication | `api/auth.go` | failed logins and lockouts in memory, sessions in the database | login, logout, resolveSession, prune | logins check and record in two steps; failures are swept, emptied and forgotten; sessions are pruned by text | a lockout comes in time and with reason; a session lasts |
| Storage | `internal/storage/` | SQLite tables | migrate, save, list, prune | a start cut short between two statements; prunings missed; the order of texts | an open database is complete; tables stay bounded; the newest rows stay |
| Statistics | `api/handlers_events.go` | one cached answer | GET /api/stats | handlers compute without the lock and overwrite each other | no answer too old or of another window |
| Frame parser | `internal/parser/parser.go` | none | Parse | frames cut off or damaged, elements that gopacket leaves undecoded | the frame is what was sent, as far as it was received |
| HTTP server, other read-only handlers, configuration, logging, dashboard | the rest | little or none | | | |

`PROJECT.json` lists the components with their status, and under `hazards` each
place in the code that is hard to test, with the properties that watch it.

## Modules

Each module states at its head what it abstracts; each action is named after the
function it models and carries the case or statement it stands for.

**DetectionEngine** - the dispatch goroutine step by step (`pc`), since
`SetEnabled`, `SetDedupWindow` and the reader of the alerts act between any two
steps. `emit` is four steps: the `enabled` load (`EmitSkip`, `EmitEnabled`), the
window load (`EmitWindow`), the locked decision (`EmitSuppress`, `EmitRecord`)
and the non-blocking send (`EmitSend`). A rule is any function from frames to at
most `MaxRuleEvents` events (nil included); a panicking rule yields none. The
`frameCount` is kept modulo the sweep interval. `sweepDedup` is one action: the
mutex is held throughout. `recorded`, `minWin`, `evicted` and `sentOff` are
history; `recorded` is set with the map, before the send that may drop the event. `framesClosed` means closed *and empty*, the moment
at which Go's receive reports the end.

**FrameFlow** - `captureLoop`, `fanOut`, the detection goroutine, `consumeStateFrames`
and `consumeAlerts`, in the wiring main builds when detection and the state engine
are both on (the other three are parts of it). The rules run on a frame may raise
several alerts, each sent or dropped on its own (`DetEmit`), while `consumeAlerts`
takes those sent before; that one looks at `signalCtx` (`AlSave`) and inserts
(`AlInsert`) in two steps, as the signal may come between them. `captureCtx` is the child of `signalCtx` that
`captureLoop` also cancels itself; fanOut and the consumers watch `signalCtx`.
What `consumeAlerts` writes to the database, and prunes there, is in `Retention`.
`Delivery` is what all of it promises: two followers of one stream of frames, which
get every frame in turn and end before the end of the stream only for a signal, and
some of the alerts stored, in the order in which they were raised and at most once
each; after a signal only the one that was being stored when it came.
`FrameFlow` implements it (`Delivers`), with the channels, the fan-out and the
contexts hidden.

**StateEngine** - every map operation is one locked section, so one action. A
handler that makes several (`processProbeRequest`: Get, Update, AddProbeSSID;
`processDataFrame`; `processDeauthDisassoc`) is as many actions, and the eviction
sweep is three. Of an entry the model keeps what decides its fate and what is
merged with care: an access point's name and whether it hides it, where a beacon
and a probe response say different things with an empty name, and a client's
BSSID, traffic and probed SSIDs; not what is simply copied from the last frame.
`RunEviction` reads `time.Now()` twice in a row; the model takes the two as one. Frames that
change no map are not steps. A frame is at most `MaxLag` old when processed.

**Hub** - `Hub.Run`, the stream handlers one by one, and of the HTTP server the
moment it stops taking requests. A broadcast is atomic: it holds the read lock,
which excludes Subscribe, unsubscribe and closeAll. A receiver may drain its
channel during a broadcast, but each subscriber is met once in it, so only the
receiver's order against its own send matters, which both orders of the actions
give.

**Shutdown** - `doShutdown` with the hooks' goroutines and the callers behind the
`sync.Once`. The manager takes no time of its own: the clock moves while it
waits, never past the moment its wait ends.

**RuleFrames, FloodRule, BeaconFlood, EvilTwin, UnauthorizedDevice,
DetectionRules** - one `Process` call is one action, since rules run in the
dispatch goroutine under their own mutex. `RuleFrames` holds what they share:
frame timestamps (monotone: the packets of one interface in order of capture) and
`callCount` modulo the cleanup interval. `FloodRule` is the helper behind the
deauth and the disassoc rule. `DetectionRules` composes them as
`registerDetectionRules` does; a rule returns nil for the frames that do not
concern it. Factors of the windows that the code writes as literals (5 and 10)
are constants. That the engine may drop the event a rule has raised is seen in
`DetectionEngine`, not here: the rule does not know of it.

**ChannelHopper, Pipeline, Daemon** - the life of the process. `ChannelHopper` is
`Next` and the loop of `Run`; a switch is a command in flight (`hop = "set"`), so
that it can overlap what Stop does. `Pipeline` adds `Start` with its failure
paths, `Stop`, and the type the interface is left in, as `monitor_linux.go` sets
it: two commands each way, each under a context and each able to fail or to be
killed too late to undo it. `Daemon` extends it with main: what it starts, which
hook it registers when, its early exits, and the shutdown manager, which is an
`INSTANCE` of `Shutdown` with main as the only caller. `consuming` stands for the
goroutines of `consumerWG`; what they do meanwhile is in the other modules.

**Parser** - `Parse` as a function from a packet (radiotap header, type, three
addresses, body in bytes) to a frame and an error, step by step as the code has it:
radiotap, classification, fixed fields, elements through gopacket's layers, then
through the raw payload, validation. What gopacket decodes is external; its
behaviour is taken from how parser.go and parser_test.go use it (a probe request's
layer has no payload, parser_test.go:728-806), and for vendor elements from the
library: it takes their first four bytes apart as the OUI, which parser.go does not
read, and ends its layers at one that is shorter (`Info`, `Decodable`). The other side is there too: a
transmission, its encoding as in `internal/testutil/pcapgen.go`, and its reception,
so that the frame can be compared with what was sent. `DetectionRules` captures one
packet in the configuration without rules (`Capture`), as `Parse` keeps nothing
from one packet to the next. `IterateIEs` and `Encoding` are recursive functions
rather than recursive operators, for the sake of the proofs.

**BestEffort, Lists, RuntimeConfig** - what an administrator changes. A
change is made in memory first and written afterwards under another lock, so each
is two steps (`ChangeMemory`, `ChangeTable`), a patch of settings as many as
`handlePutConfig` has statements that change something (`Steps`). The write may
fail, and the answer is the same. `BestEffort` holds two history variables that
keep account of which items may differ in memory and database because their
changes overlapped or the last write failed.

**TextTime** - the clock, and the order of the texts that the database keeps of
times. They are RFC3339Nano: the local time, then its offset from UTC, and a fraction
of zero is left out, so that in UTC "5Z" sorts after "5.5Z" (any other zone's offset
sorts before the point). A second has `Second` ticks, at most ten. Sessions are
written in UTC (sqlite.go:439), events and snapshots in local time (sqlite.go:156,
243).

**Auth** - the limiter, whose methods hold its mutex throughout and are one action
each (`Check` with its sweep, `Fail`, `Succeed`), while a login is several of them
with bcrypt and the database in between; `resolveSession` as a read of the row
(`Look`) and a decision (`Admit`, `Expire`); logout and the pruner. `failed` is
history.

**Retention** - the writers of events (`consumeAlerts`) and of snapshots
(`runSnapshotWriter`), each a small loop: receive, save, prune when due. A save and
a pruning may fail. `count` is the code's counter modulo the interval; `missed` is
history. `offset` is that of the local time in which rows are written; it may change
at any moment (`OffsetChanges`), as with the seasons, or from one process to the
next.

**StatsCache** - `handleStats` as four steps: the look into the cache under its
lock, the query, the store, the answer.

**Schema** - `Open` and `migrate` statement by statement, from a new file, one of
version 1 or one of version 2. `CreateTable` is one statement of `schemaSQL`.
`Reopen` is a new process after an end at any point.

**Database** - composes the seven modules above with one clock and one `Restart`,
which may come at any moment, forgets what is in memory, and may not be able to
read everything of the database. `workload` says which parts are at work.

The `MC*` modules only give constants their values.

## Runs

Deadlock is checked in every run; where the daemon may come to rest a `Finished`
step says when that is legitimate. Times are small integers, a second each.

| Run | Instance | What it shows |
|---|---|---|
| `engine` | 4 keys, windows 0, 1, 2 (0 must be ignored), limit 2, sweep after every frame, channel of 1, clock to 2, the keys interchangeable | `DedupSpacing`, `SuppressionNeedsRecentRecord`, `DisabledQuiesces`, `DedupBounded`, `SweepRestoresLimit`. The clock lets an entry age past either window and past two of window 1, and a window change fall between load and decision; while it stands still nothing ages and only halving helps against an overfull map, the worst case. |
| `flow` | 2 frames, at most 2 alerts on each, all channels of capacity 1 | `FramesConserved`, `SinksAgree`, `CaptureEndDrains`, `AllStop`, `Delivers`. Two frames fill a channel of one and leave one in hand: every sender blocks in some state; of two alerts on one frame the second meets a full channel or a free one. |
| `state` | one AP, one client, one SSID, TTL 2, probe-only TTL 1, frames up to 1 late, clock to 4 | `RetainedWhileFresh`, `EntryKept`. Entries are independent of each other, so one of each kind meets every interleaving of a handler with a sweep; the clock passes both TTLs twice. |
| `state_first_seen` | clock to 5 | violation, see Findings |
| `hub` | 2 streams, 3 messages, queue and buffers of 1 | `StreamExact`, `NeverPanics`, `SubscribedEnds`. Every buffer overflows, and one stream can be slow while the other is not. |
| `hub_streams` | 1 stream | violation |
| `shutdown` | 3 hooks, 2 callers, budget 2, deadline 3 | `EveryHookInTurn`, `ErrorsComplete`, `ShutdownReturns`. Two budgets exceed the deadline: the second hook is cut short, and the turn of the third comes when the deadline has passed. |
| `rules` | 3 BSSIDs, 2 profiles, 2 flood keys, thresholds 3 and 2, windows 1, cooldown 2, cleanup every 3 calls, times to 3; one rule registered at a time; more than two access points of one SSID on record only up to time 1, the beacon flood rule's first beacon at 0 with one of the two channels busy and the other with one access point within a window, and nothing after a capture (a state constraint). For the parser over a hundred transmissions of every class of type, in eight variants of elements, vendor elements whole and shorter than their OUI among them, cut off after every number of bytes, on five channels and with three kinds of header | `FloodComplete`, `FloodSound`, `BeaconSound`, `BeaconOnce`, `TwinSpacing`, `TwinEvidence`, `IntrusionReported`, `ParsedAsSent`. Rules share no state, so one at a time loses nothing; the states behind a capture are checked and not continued. |
| `refused_reassociation` | the same transmissions, no rule | violation, see Findings |
| `daemon` | two channels with dwells 1 and 3, back-off from the second failure up to 4; the code's 5, 5, 10 and 30 seconds as 1, 1, 2 and 6 | `HopperQuiet`, `ExitClean`, `ClosedAfterConsumers`, `WaitsGrow`, `DaemonExits`. The shutdown's times keep the ratios of the code, so consumer_stop outlives its budget as it does there; the dwells differ by the weight of the code and the back-off meets its limit from either. |
| `database` | lists: one item per list, two comments, two handlers; settings: two handlers and four patches, with the switch both ways, two settings at once and a refusal after a success; two logins of one address, threshold 2, window 2, lockout 2; two sessions of 3 ticks; two tables that keep 2 rows, pruned every 2 and every row, 5 rows received, local time that is UTC or two seconds ahead; two statistics handlers, two windows, a cache of 2 ticks; a second of two ticks, clock to 5; all three kinds of schema; one part at a time with the restart | `ListsAgree`, `SettingsAgree`, `FailuresBounded`, `LockoutJustified`, `SessionsLast`, `RowsBounded`, `NewestKept`, `AnswersRecent`, `OpenIsCurrent`. The parts share nothing but the restart and the clock; items, settings but for the order in a patch, and addresses do not affect each other. Two handlers give every overlap, since a third only adds to what is in doubt or under way already; two ticks to a second are enough for texts and times to differ in order within one, and an offset of two seconds for clocks that go back by more. |
| `schema_interrupted` | only the schema | violation |

The runs that expect a violation are instances of the same modules and differ
from the passing ones only in their bounds.

`FloodSound` says that a flood event carries the real metrics: as many frames as the
window holds of the key since its last event, and the time they took. `FloodComplete`
says that there never are `threshold` of them without an event - with the cap, the
pruning, the reset and the cleanup the rule keeps the sliding window its documentation
promises. From the two together it follows that the real count is always `threshold`
itself; see Findings.

`BeaconOnce` ends at the next cleanup on purpose: `promoteWindowToKnown` copies
the times of one channel's window over `knownBSSIDs`, also over later ones, so a
cleanup may forget a BSSID that was heard since.

Every property has a mutant in `PROJECT.json`: a variant of one definition, as a
plausible bug would leave it, under which TLC finds the property violated. The
variants stand in the modules before the definitions they vary, marked `Mutant`.

## Fairness

Safety properties assume nothing. For liveness:

* A goroutine that can run does run (weak fairness of its steps): Go's scheduler
  is preemptive.
* A `select` in which `ctx.Done()` stays ready takes that case at some time
  although others are ready too: Go chooses at random. This is strong fairness
  of `HubExit` (hub), whose other cases a producer can keep ready for ever.
* The handle's `CloseHandle` makes the pending `NextPacket` fail. No frame,
  tick, signal or alert need ever come.
* Hub: a client that is connected takes what is written to it. None need leave.
* Shutdown: time passes. No hook need return.
* Daemon: main and the manager run, the commands that main starts with come to an
  end, and so do those of Stop (its own timeout kills them). No hook, consumer,
  channel switch or signal need come to an end or happen at all.

Database has no liveness property: nothing there waits for anything. That the
detection goroutine ends is part of `AllStop`, in FrameFlow.

## Proofs

Each theorem holds for every value of the constants: any number of rules,
events, frames, streams, devices and hooks, all capacities, limits and times.

| Module | Theorem | Statement |
|---|---|---|
| `DetectionEngineProofs` | `TypeCorrect` | `Spec => []TypeOK` |
| | `SpacingCorrect` | `Spec => DedupSpacing` |
| | `SuppressionCorrect` | `Spec => SuppressionNeedsRecentRecord` |
| | `QuiesceCorrect` | `Spec => []DisabledQuiesces` |
| | `BoundCorrect` | `Spec => []DedupBounded` |
| | `SweepCorrect` | `Spec => SweepRestoresLimit` |
| `FrameFlowProofs` | `TypeCorrect` | `Spec => []TypeOK` |
| | `ConservationCorrect` | `Spec => []FramesConserved` |
| | `SinksCorrect` | `Spec => []SinksAgree` |
| | `DrainCorrect` | `Spec => []CaptureEndDrains` |
| | `ImplementsDelivery` | `Spec => Delivers`, that is `Spec => D!Spec`: FrameFlow implements Delivery |
| `StateEngineProofs` | `TypeCorrect` | `Spec => []TypeOK` |
| | `RetentionCorrect` | `Spec => RetainedWhileFresh` |
| | `EntryCorrect` | `Spec => EntryKept` |
| `HubProofs` | `TypeCorrect` | `Spec => []TypeOK` |
| | `PanicCorrect` | `Spec => []NeverPanics` |
| | `StreamCorrect` | `Spec => []StreamExact` |
| `ShutdownProofs` | `TypeCorrect` | `Spec => []TypeOK` |
| | `OrderCorrect` | `Spec => []EveryHookInTurn` |
| | `ErrorsCorrect` | `Spec => []ErrorsComplete` |
| | `TimeCorrect` | `Spec => []ShutdownBounded` (only proved: a shutdown takes no longer than its deadline and than the budgets of its hooks together) |
| `DaemonProofs` | `ImplementsShutdown` | `Spec => Sm!Spec`: the daemon implements the specification of the shutdown manager, hooks and caller being main's |
| | `QuietCorrect` | `Spec => []HopperQuiet` |
| | `ExitCorrect` | `Spec => []ExitClean` |
| | `CloseCorrect` | `Spec => []ClosedAfterConsumers` |
| | `WaitsCorrect` | `Spec => WaitsGrow` |
| `DetectionRulesProofs` | `TypeCorrect` | `Spec => []TypeOK` |
| | `FloodCompleteCorrect` | `Spec => []FloodComplete` |
| | `FloodSoundCorrect` | `Spec => FloodSound` |
| | `BeaconSoundCorrect` | `Spec => []BeaconSound` |
| | `BeaconOnceCorrect` | `Spec => BeaconOnce` |
| | `TwinEvidenceCorrect` | `Spec => []TwinEvidence` |
| | `TwinSpacingCorrect` | `Spec => TwinSpacing` |
| | `IntrusionReportedCorrect` | `Spec => IntrusionReported` |
| | `ParsedCorrect` | `Spec => []ParsedAsSent` |
| `DatabaseProofs` | `FailuresCorrect` | `Spec => []FailuresBounded` |
| | `LockoutCorrect` | `Spec => []LockoutJustified` |
| | `SessionsCorrect` | `Spec => SessionsLast` |
| | `TypeCorrect` | `Spec => []TypeOK` |
| | `RowsCorrect` | `Spec => []RowsBounded` |
| | `NewestCorrect` | `Spec => NewestKept` |
| | `AnswersCorrect` | `Spec => []AnswersRecent` |
| | `OpenCorrect` | `Spec => []OpenIsCurrent` |
| | `ListsCorrect` | `Spec => []ListsAgree` |
| | `SettingsCorrect` | `Spec => []SettingsAgree` |

`Spec` of `DatabaseProofs` is that of `Database`: restarts at any moment and every
part at work at once, where the run has one at a time. That of
`DetectionRulesProofs` has any set of rules registered, any times and no state
constraint, where the run has one rule at a time. The type invariants of these
modules are proved and no longer among the runs' properties.

### The detection engine

None of the properties is inductive. The invariants behind them:

* `TypeInv` adds to the types that inside `emit` an event is in hand, and that a
  running engine has a positive ticker period.
* `SpacingInv` relates the map to the history: an entry is the time at which its
  key was last recorded, never later than the clock; a recorded key that has no
  entry and was not evicted was recorded more than two of the smallest windows
  ago; and the window emit has loaded (at `decide`) is no smaller than the
  smallest in force since. The delicate case is a window that shrinks between the
  load and the decision.
* `QuiesceInv`: at most one alert was sent while disabled, none while enabled,
  and once it has been sent no event can be past the `enabled` load of `emit`.
* `BoundInv` counts, in units of one event, what can still be added: between
  frames the map holds at most the limit plus the frames since the last sweep
  times the events per frame; inside a frame the same holds with what the frame's
  remaining rules and events may still add included. It needs `SweepAssumption`:
  one interval adds no more than the limit (in the code 1000 frames, five rules
  of one event each, against 10000), or half of an overfull map would still be
  over it.

### The other modules

* *FrameFlow.* `TypeInv` adds that a goroutine which is about to send holds a
  frame. `FlowInv` says where each frame sent is: the detector's share and the
  state engine's differ by what fanOut has in hand, and both are prefixes of what
  was sent also after a signal, when the suffix is what a cancelled fanOut gave
  up. `DrainInv` orders the ends: a goroutine that ended without a signal ended
  because its channel was closed and empty, and that channel was closed by a
  goroutine that had ended before. The refinement of `Delivery` takes from `FlowInv`
  that what a consumer receives is the next frame of the stream, from `DrainInv` that
  it ends at the end of the stream, and needs `OrderInv` besides: frames are sent in
  ascending order, and the alerts stored, in hand and in the channel ascend in this
  order, by frame and then by their number on it, each raised on a frame that was
  dispatched, and on the one that is being dispatched no more than have been raised.
* *StateEngine.* `TimeInv`: the time at which a sweep took its cutoffs is past,
  and no entry is younger than the last frame. The first makes an
  eviction late enough whenever its section comes; the second keeps `LastSeen`
  from going back, since frames are processed in the order of capture. `Kept`
  and `KeptAPs` are the contracts that every write of an entry is shown to meet
  once.
* *Hub.* `ChannelInv`: the map and the closed channels have nothing in common,
  and only a handler that has subscribed is in either. `closeAll` moves channels
  from the one to the other, unsubscribe only forgets them. `CountInv` bounds
  what was broadcast by what was published, for the types. `StreamCorrect` needs
  `OrderInv`, that broadcasts are numbered in the order of Publish, and then that a
  broadcast adds its message to what is owed to a subscriber and either to its
  buffer or to what it missed; what lies in the buffer comes after all that was
  taken, and a receiver only moves it from the one to the other (`SameSequence`).
* *Shutdown.* The invariant joins four parts: hooks started and hooks to come are
  together the reversed copy (`OrderInv`); a hook that failed, was given up or
  still runs although the manager has passed it has its error (`ErrorInv`);
  callers hold either nothing or the final result (`ResultInv`); the time spent
  is within the budgets of the hooks started and within the deadline (`TimeInv`).
* *Daemon.* `QuietInv` says that the hopper, where there is one, has ended once
  Stop has waited for it. `ExitClean` relates the first state to the last and
  needs all of `RegisteredInv` (whatever runs has its hook, consumer_stop being the
  last one registered), `PhaseInv` (no hook runs before main calls), `TurnInv` (a
  hook of the copy is still to come, or has an error, or did well; and
  consumer_stop comes before storage_close) and `EffectInv` (what it means that a
  hook did well): with no error and nothing to come, all did well. The same
  invariant gives `ClosedAfterConsumers`. `BackoffInv` says that an active back-off
  is the wait itself and is within its limit, so that doubling cannot shrink it.
  The refinement maps every step of the daemon to a step of `Shutdown` or to a
  stutter, hence `Shutdown`'s theorems hold of main's four hooks.

* *The detection rules.* Each rule has an invariant over what it remembers and the
  history of what was on the air; `Inv` joins the four, with the clock. A step of
  one rule is a frame that it takes in, a frame that it ignores, or nothing
  (`FloodMoves`, `BeaconMoves`, `TwinMoves`, `DeviceMoves`).
  Flood: `Recalled` says that the timestamps of a tracker are the end of the frames
  heard since the last event, and that what comes before them is too old for any
  window from now on. As a tracker with `threshold` frames left in the window
  raises an event and is emptied, the cap at twice as many never takes one that
  counts: that gives `FloodComplete`, and as the tracker then holds all that the
  window does and nothing else (`TrackedRecalls`), its length is the real count and
  its first element the first of them, `FloodSound` (`WindowEnds`, `CountAtLeast` and
  `CountType` count the frames of a window at the end of a sequence of times).
  Beacon flood: a window is `Timely`, what it counts having beaconed after its start
  and, within its length, being still on the air; an access point that was in an
  event since the cleanup is known and in no window of its channel (`SpentInv`),
  which holds because an event promotes the window and restarts it in one step.
  Evil twin: `Listed` says that the records of an SSID are of different access
  points and count no frame that was not heard, also after a cleanup has closed the
  gaps (`NthThere`, `ActiveListed`); `Agreed` that the time of an alert is that of
  the last report, unless it was deleted when that report was stale.
  Unauthorized device: the same for the alert time of a device and its cooldown.
* *The parser.* `ParsedAsSent` is about one step, so no invariant is needed, but what
  two recursive functions do to data of any length: `Encoding` writes elements one
  after the other, and `IterateIEs` reads them. That each recursion has a solution at
  all is proved first (`EncodingUnfolds`; `IterateIEsUnfolds`, as an element takes at
  least two bytes and ends within the data, `ElementForward`), by the least number for
  which it has none (`Least`, `Induction`). `InPlace` then says where in the bytes of all
  elements each of them lies, `HeldUpTo` that the bytes captured hold the elements up to
  some number, and `IterateFindsHeld`, from that number back to the first, that these
  are what `IterateIEs` returns: it stops at the first that is cut off, whatever its
  bytes. `LayersOfFirst` and `FirstReceived` say what gopacket's layers leave of these:
  in an access point's frame those before the first vendor element without an OUI,
  which is again a beginning of what was sent (`Carried`, `Content`). `FrameElements`
  follows them to the frame, `WellFormedAccepted` shows that validation rejects nothing that is as it should be,
  and `CaptureFaithful` puts the parts together.
* *Auth.* `LimiterInv` has two parts. `Sound` accounts for every failure since the
  last success: it is still in the record of its address, or out of the window, or
  lies a lockout before the time until which the address was locked out
  (`Accounted`); and a lockout rests on a failure with a threshold of others before
  it (`Reasoned`). Sweeping, emptying and forgetting keep both, which needs that a
  window is no longer than a lockout. `Underway` counts what a lockout does not
  stop: the failures in the window and the handlers that have passed the check are
  together at most the threshold and the other logins. `SessionInv` says that a
  request in hand knows the expiry that the table has, if it has the session still:
  the deletion after an expiry then takes only what has expired.
* *Retention.* `TableInv` bounds a table for each place where its writer may be:
  between rows by what is kept, an interval per pruning missed, and the rows
  counted since. A restart throws the count away and is a pruning missed, unless
  the count was zero with nothing in hand. `NewestKept` follows from the order of
  texts alone: `TextsLocal` says that it is the order of local time, but for a text
  of UTC at a whole second, which may be late by less than a second; so two times
  are out of order by no more than their offsets differ, and that. `SessionsLast`
  takes from it the case in which both are UTC.
* *StatsCache.* `AnswerInv` gives the age of the cached answer at its expiry, the
  cache's time and one computation, whoever stored it, and of an answer under way.
* *Schema.* `SchemaInv`: a version on record means that the tables up to it are
  there, in every state of `opening`; and while the tables are being created
  `todo` is what is missing.
* *Lists and settings.* Both rest on an account of what may be out of step:
  memory and table agree on an item that is in no request, has not failed and has
  not raced. `RowsInv` says how a request in hand relates to memory, item by item;
  `SettingsInv` the same for each statement of a patch that is still to come
  (`NextStep`, `StepOrder`: the steps of a request are those of `Settings` in
  order), for the engine and for the server's copy of its switch.

Assumptions: those named `...Assumption` in the modules, which TLC evaluates in
the runs: capacities and intervals are positive, times natural, placeholders
(`None`, `Nil`) distinct from values; a lockout is no shorter than the window
(15 minutes each in the code); `SweepAssumption`; and `CaptureAssumption`, that a
transmission is one (`Sendable`: bytes, the fixed fields of its type in full, a length
byte per element, fewer elements than the parser's cap of 256) and that a channel is
one that `freqToChannel` knows.

Only model-checked: every liveness property (reasoning with fairness and ENABLED
is outside what tlapm supports), that is `AllStop`, `SubscribedEnds`,
`ShutdownReturns` and `DaemonExits`.

## Findings

Each has a run in which TLC reaches the state in question.

* `state_first_seen`: an eviction between the lookup and the update of a probe
  request re-inserts the client with the zero `FirstSeen` (state.go:193).
* `hub_streams`: a stream accepted before the listener closes that subscribes
  after `closeAll` is never ended by the hub, and `httpd.Shutdown` waits for it
  until its timeout (sse.go:169). The end of the process is not part of the model.
* `schema_interrupted`: a creation of the schema that is cut short between its first
  statement and the last leaves a `schema_version` without a row, and every later
  start fails to read it until the file is removed (sqlite.go:107). `OpenIsCurrent`
  is the other half: what does open is complete. A migration cut short is repeated.
* `refused_reassociation`: of a reassociation response the status is never read, so
  a client whose reassociation was refused counts as associated (parser.go:411).

Met while modelling, without a run: `emit` records the time before its
non-blocking send, so an event dropped on a full channel silences its key for a
window, although the map is documented as the last *emission* time
(detector.go:40); the `select` that sends a parsed frame has a case for the
statistics ticker, and when Go picks it the frame is gone (pipeline.go:339, where
line 286 says that parsed frames are sent; `CapTicker`); between two sweeps the dedup map exceeds the
10000 entries that specs/domains/detection.md gives it (`DedupBounded` is what
holds); a signal leaves frames in the channels that main.go:293 says are drained;
`Snapshot` copies two maps under two locks and is no point in time (state.go:56);
a data frame of a client known from a probe leaves it unassociated, against the
comment at state.go:315; the beacon flood window is tumbling, not sliding
(rule_beacon_flood.go:14).

About the shutdown: specs/contracts/main-internal.md:210 says that after the deadline
the remaining hooks are skipped and the shutdown returns at once. They are started all
the same, each in its turn and given up at once (its context is over) unless it
returns first, and go on running when the shutdown has returned. `EveryHookInTurn`
states what the comment of `doShutdown` says (shutdown.go:79-81, no hook is skipped
because of a slow one) and what the code does; the run `shutdown` reaches a hook whose
turn comes after the deadline, so there the two documents cannot both be right. A
hook's five seconds are not independent of the deadline either
(specs/domains/lifecycle.md).

About the flood rule: rule_flood.go:91-94 and specs/domains/detection.md:273 tell of a
real frame count that is captured before capping, so that consumers see the intensity
of an attack. The count is real (`FloodSound`) and never more than `threshold`: the
tracker is emptied by every event, so it has `threshold` frames in the window for the
first time when it raises the next (`FloodComplete`). Neither cap (rule_flood.go:71-78,
98-102) has any effect on it, and how strong an attack is shows only in how often
events are raised, most of which `emit` suppresses.

About the daemon: the early exits of main (main.go:252) and an `EnableMonitor`
that fails at its second command (pipeline.go:186) end the process with the
interface in monitor mode, as does a signal during Start, whose revert runs under
a context derived from the one that is over; `ExitClean` speaks of status 0 only.
consumer_stop waits ten seconds in a hook that is given five and does not look at
the context it is given (main.go:293-308), so it is given up with consumers
running and the database is closed under them; the process then ends with status
1 (`ClosedAfterConsumers`). main-internal.md:119-123 says of capture_stop that it
completes regardless of the deadline; it is given up after five seconds like any
other.

About lists and settings: `state.NewEngine` takes the configured whitelist and
does nothing with it; overlapping requests on one item, a failed write, or a
setting refused after others were applied leave memory and database apart until
the next change or restart, with no sign of it but a line in the log; learned
entries overwrite those added by hand.

About the parser: when gopacket has decoded no element, line 207 reads the whole
payload of the frame as elements, whatever its type, where specs/domains/parser.md
speaks of probe and association requests. The fixed fields of association and
reassociation requests, of deauthentications and of a beacon cut off before its
first element are then read as elements, and the SSID of a reassociation request
can be made up of them; `ParsedAsSent` leaves these out and says what holds. The
attempt to prove it showed one case that the run did not have: a beacon without any
element, received in full, may be rejected for an SSID that is part of its timestamp.
802.11 knows no such beacon, and `WellFormed` excludes it. Of several elements with
one id (vendor elements) the frame keeps the last. Of a vendor element in a beacon or
a probe response it keeps what follows the first four bytes, as gopacket has these in
`OUI` and parser.go:505-507 copies `Info` alone, while the same element of a probe
request, read by `iterateIEs`, is kept whole; `InfoElements` is said to map an id to
the raw data. One with fewer than four bytes ends gopacket's layers, so the elements
behind it are lost, with the SSID if it is among them. `ParsedAsSent` names both
exceptions.
parser.md also says that all management frames need a unicast source;
`validateParsedFrame` asks for it in requests and authentications only.

About the evil twin rule: the access point whose frame is at hand is always the
suspect, also when it was there first (rule_evil_twin.go:213).

About the database: `max_events` is exceeded by up to a hundred rows while all goes
well, and for ever by runs that end before their hundredth alert (`RowsBounded` is
what holds); rows are pruned in the order of their texts, which are
written in local time: storage.md:109 says that the oldest are deleted, but in the hour
after the clocks go back the rows of the hour before count as newer (`NewestKept` says
by how much), and in UTC a row of a whole second counts as later than the rest of that
second; sessions may be pruned a fraction of a second early (`SessionsLast`);
one successful login lifts the lockout of its address when it had passed the check
before; `locked` prunes an entry that its sweep has just pruned; a logout whose
deletion fails answers like one that succeeds and leaves the session; an older
statistics answer can replace a newer one (`AnswersRecent` says for how long);
`LatestSnapshot` is called nowhere; specs/domains/storage.md:88 has version 1 where
schema.go has 2, and storage.md:114 calls the migration idempotent, which it is
only from the moment on at which the version is on record.

## Not modelled

Configuration loading and logging (before any goroutine starts), routing and
middleware of the HTTP server, the read-only handlers but for the statistics and
the data transfer objects (they format what others keep), the SQL engine, whose
statements are atomic here, the web dashboard, and the darwin build of monitor
mode, where there is nothing to restore. Of the state engine, the attributes
copied from the last frame (channel, signal strength, capability, elements), and
operations of its maps that the daemon does not call. The configurations of main
with storage or API switched off appear in `Daemon`, where they decide which hooks
exist; `Database` is about a daemon that has both.

## Plan

What is left, in order of worth:

1. Refinements: `DetRecv` and `DetEmit` of FrameFlow as the abstraction of a dispatch
   of DetectionEngine; a durable map that Lists and RuntimeConfig implement while no
   item is in doubt.
