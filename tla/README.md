# A formal model of disparo-seguro-calls

This directory is the verification project of the Go server in this repository: TLA+ modules that model its
stateful parts, TLC configurations that check them on small instances, and TLAPS proofs of the properties that
matter most. Paths below are relative to the repository's root.

- `tlc -config <X>.cfg <MCModule>` runs a check; `PROJECT.json` lists the runs with the module, the configuration
  and what each shows, the lines of code each definition stands for (`map`), the hazards, the findings and the
  theorems.
- `tlapm <Module>Proofs.tla` checks the proofs.
- Configurations that are not in `PROJECT.json` are run by hand: each shows one disagreement between the code and a
  sentence of the repository (section 6).

## 1. The system

A WhatsApp calling server. A *session* is one paired WhatsApp line; each call of a session has a *call manager*
that speaks the signalling (offer, ack, accept, transport, terminate) and carries the media over *relays*
(WebRTC data channels). Operators use calls from a browser (WebRTC or WebSocket bridge) through an HTTP API; a
*broker* fans the call list out to the browsers and keeps each call's owner. A *broadcast* calls a list of numbers
and plays a recording, a *dialer* runs campaigns over the lines, an *AI stack* can take the audio of a call, a
*LiveKit bridge* mirrors it into a room, and a *Chatwoot* integration stores conversations and retries what could
not be delivered.

| Component | State | Operations | Talks to | What is hard |
|---|---|---|---|---|
| Call state machine (`internal/voip/call/callstate.go`) | state of a call, timestamps, end reason | `ApplyTransition` | call manager | transitions that are not allowed are errors that most callers ignore |
| Call manager (`internal/voip/call/callmanager*.go`) | current call, call key, SRTP session, accepted device, codec, send loop | `StartCall`, `AcceptCall`, `RejectCall`, `EndCall`, `Hold`, `Resume`, `HandleCall{Offer,Accept,Ack,Transport,Terminate}`, `onRelayConnected`, `cleanupMedia` | session (callbacks), relays, sockets | `mu` is dropped for every send and taken again; four kinds of thread meet in it |
| Session wiring (`cmd/server/session.go`, `callregistry.go`) | registry of calls, bridges | `createCall`, `wireCall`, `handleEvent`, `startOutgoing`, `teardownAllCalls` | call managers, broker, LiveKit | the registry, the broker's list and the manager's state are three copies of one fact |
| Broker (`cmd/server/broker.go`) and HTTP API (`httpapi.go`) | call records with owners, history, subscribers | `upsertCall`, `setOwner`, `reassignOwner`, `endCall`, `broadcast`, `serveSSE`; start, accept, reject, end, hold, resume, transfer, pickup | browsers, call managers | look-up and use are not atomic; whole records are written from stale reads; slow subscribers |
| Broadcast (`cmd/server/broadcast.go`) | results by number, slots | `runCampaign`, `broadcastOne`, `pumpAudio` | session, broker | it learns of the call by polling a list that others keep |
| Dialer (`internal/platform/dialer`: queue, reservation, scheduler) | leads, attempts, locks, running campaigns | `NextJob`, `UpdateJobStatus`, `HandleRetry`, `StartCampaign`, `PauseCampaign`, `StopCampaign`, `campaignLoop`, `dispatchCall` | session manager | overlapping loops, asynchronous dispatch, retries, limits |
| Orchestration (`internal/platform/dialer/orchestration.go`, `campaigns_api.go`) | idempotency keys, execution jobs, circuit breakers, costs, ledger | `CheckOrRegister`, `Transition`, `Check`/`RecordSuccess`/`RecordFailure`, `RecordCost`, `RecordTransaction` | dialer, API | repeated requests, late reports, half-open circuits, duplicates |
| Relay manager (`internal/voip/transport/sctprelay.go`) | connections by endpoint | `ConfigureRelays`, `OnOpen`, `failConnection`, `Cleanup`, `Broadcast` | call manager | callbacks of connections that are gone, concurrent dials |
| Audio of a call (`callmanager_media.go`, `bridge.go`, `ws_bridge.go`, `recorder.go`, `internal/livekitbridge`) | codecs, capture buffer, bridges, recording, room | `FeedCapturedPCM`, `handleAudioRelayData`, `setBridge`, `setWSBridge`, `removeCall`, `finalizeRecording`, `AttachCall`, `DetachCall` | relays, browsers, SFU | what is used by several threads is closed by any of several others |
| Session and instance managers (`cmd/server/sessionmanager.go`, `internal/platform/instance`) | sessions by id, rows, databases, pairing state | create, pair, log out, delete, restore, `GetInstancesPool` | whatsmeow, databases | three stores without a common transaction, crashes, handlers of sessions that are gone |
| AI stack (`internal/ai`) | AI sessions, adapters, provider connections, audio channels, catalog | start, stop, interrupt, play, reap, fallback | call manager, HTTP | bounded channels, locks held over writes, teardown order |
| Chatwoot (`cmd/server/chatwoot*.go`) | outbox rows, configuration, dedup sets | push, retry with backoff, import, webhook | Chatwoot, whatsmeow | crash between send and delete, retries on stale copies, loops of own posts |
| Video signalling (`callmanager_video*.go`) | upgrade state | offer, accept, stop | call manager | a late accept of an upgrade, stanzas sent after the unlock |
| Messaging endpoints, groups, presence, polls | none | one whatsmeow call each | whatsmeow | - |
| Web client, native codec, browser extension | - | - | - | outside the model |

**Properties that make each one correct**

- *Call manager*: the first accept wins; only the device that answered ends the call from the far side; the receive
  keys are that device's; a call that has an open relay and an accept connects, whichever came first; an ended call
  is final and everything it held (registry entry, LiveKit session, codec, send loop) is released.
- *Desk*: a panel knows every listed call; an ended call is in the history; nobody writes to a closed channel.
- *Broadcast*: it never has more calls than its slots and leaves none behind.
- *Dialer*: a lead is never enqueued, claimed or called twice, dialled at most as often as its campaign allows, and
  eventually called or given up; no lock blocks the queue.
- *Orchestration*: a request that is repeated enqueues nothing; each call's cost is booked once; the breaker goes by
  its count.
- *Relay manager*: one living connection per endpoint, at most `maxOpenRelays` open; dials settle.
- *Audio*: every codec, bridge, room and recording is released once, whoever ends the call; closing a bridge does not
  hang up.
- *Sessions*: a crash orphans no database; a pairing survives restarts; what is deleted stays deleted; losses of the
  connection are announced.
- *AI stack*: a stop ends in silence and leaves nothing running; the catalog's counts are those of the sessions.
- *Chatwoot*: a message is neither lost nor kept for ever; it is given up only after its attempts; own posts are
  never relayed.

## 2. Modules

| Module | Models | Checked by |
|---|---|---|
| `CallState` | `callstate.go`: the transition table as `Allowed`, `Target`, `ApplyTransition`; `mapStatus` | through `CallManager`, `CallDesk` |
| `CallManager` | one call with the threads that work on it, its callbacks into registry, broker and LiveKit, and the relays as it sees them | `MCCallManager` |
| `CallDesk` | the calls of one session: broker, registry, callbacks, requests of browsers, event streams | `MCCallDesk` |
| `Broadcast` | calls in bulk, over `CallDesk` | `MCCallDesk` |
| `CallAudio` | the audio of one call: bridges, registry swap, recorder, LiveKit room, data plane, release | `MCCallAudio` |
| `SctpRelay` | the relay manager: connections, dials, timeouts, keepalives, callbacks of the WebRTC library, `Cleanup` | `MCSctpRelay` |
| `RelayView` | what the relay manager promises the call manager | as a refinement, by `MCSctpRelay` |
| `Dialer` | one campaign: queue, locks, loops, dispatches, lines | `MCDialer` |
| `Orchestration` | requests that execute a campaign: idempotency, execution jobs | `MCCampaign` |
| `Ledger` | circuit breaker and cost engine | `MCCampaign` |
| `Campaign` | `Dialer`, `Orchestration` and `Ledger` composed | `MCCampaign` |
| `SessionLife` | sessions, instances, their rows and databases, pairing, crashes and `Restore` | `MCSessionLife` |
| `Chatwoot` | push, outbox and worker, import, webhook, configuration, crashes | `MCChatwoot` |
| `Delivery` | what the bridge to Chatwoot promises a message | as a refinement, by `MCChatwoot` |
| `AISession` | gateway, registry entry, adapter and provider connection of one AI session | `MCAIStack` |
| `Fabric` | catalog, routing and fallback of AI providers | `MCAIStack` |
| `AIStack` | `AISession` beside `Fabric` | `MCAIStack` |
| `CallManagerProofs`, `SctpRelayProofs`, `CampaignProofs` (with `Dialer`), `DeskProofs`, `CallAudioProofs`, `SessionLifeProofs`, `ChatwootProofs`, `AIProofs` | the theorems | TLAPS |

Definitions whose comment says *faulty* or *as if* are not used by any specification: each is a plausible mistake, and
`PROJECT.json` (`mutants`) says in which definition's place the property of a run has to notice it.

### CallManager

`CallManager.mu` is released and taken again inside most handlers, so an action is what a thread does between one
`Lock` and the next, and `pc[t]` says where thread `t` goes on. The threads are those of the program: the event
loop of whatsmeow (`Event`, one stanza at a time), the goroutine of `StartCall` that waits for the ack of the offer
(`Ack`), HTTP requests and teardowns (`Clients`), and the relays' `OnOpen` callbacks (`opened`). `emitState` calls
back with `mu` held; its callbacks are therefore part of the action that emits (`EmitState`).

Data is reduced to what the properties tell apart: the call key is there or not, the SRTP session has the device it
decrypts and whether it was rekeyed by an accept, endpoints are absent, usable, or present but without what
`buildRelayConfigs` wants. Codec creation, decryption of the call key and every send may fail.

`dir` is chosen once: one behaviour follows one call, outgoing or incoming. `endedBy`, `elsewhere` and `rejected`
are history variables that the properties use.

### CallDesk and Broadcast

Here several calls meet several people. A thread is a browser's request (`Clients`), an event stream (`Panels`), a
task of a broadcast, the event loop or the relay's callback; `pc` and `on` say where it is and with which call. Every
emission of a call manager holds that manager's lock (`held`) while it reads the owner (`EmitRead`), writes the record
(`EmitWrite`) and broadcasts. A broadcast takes the broker's read lock (`Broadcast`), writes to the channels of those
that were subscribed then (`Send`, any channel may be full) and lets go; `broadcastCallList` reads the list before, in a
step of its own (`TakeList`). `serveSSE` subscribes before it sends its snapshot.

`Broadcast` adds the goroutine of `runCampaign` and its tasks: a task dials with the actions of the desk
(`CreateCall`, `BeginCall`, `OfferSent`), polls the list (`Answered`), gives up (`NoAnswer`) or plays (`PumpAudio`),
hangs up with `EndCall` and notes the outcome (`Close`). The number of slots follows `runCampaign`.

### CallAudio

Each thread has a script of what it still has to do (`todo`), built from the handler it runs: a browser's request
attaches a bridge, a hang-up, a terminate stanza or a teardown of the session ends the call. Swaps of the registry
entry, the later closing of what was swapped out, ICE failure and its `terminateCall`, `removeCall` with
`finalizeRecording` and `cleanupMedia` are steps of their own. `hub` is the lock of the LiveKit bridge manager, which
`AttachCall` holds over its HTTP request and which the peer audio of every call needs. Audio itself is a flag per
direction and stage; the recording is whether anything was taped and how often it was handed over.

### SessionLife

A session has a row, a database, an entry in the manager and a client, and an instance may have a row over it; the
statements that change one of them are actions of their own, in the order of the handlers. `Ev(id)` and `Qr(id)` are
the goroutines of the client's events and of its QR codes, which outlive a replaced client. `Fault` is an error of a
database, `Crash` the end of the process at any step; `RestoreRow` and its followers are `Restore`. `leaked`, `late`,
`untold` and the like are history variables that name the exceptions the properties allow.

### Chatwoot and Delivery

Every goroutine that delivers takes the same steps, one per HTTP request to Chatwoot: contact, create, conversation,
open, post. What happens after success or failure depends on who it is: a push puts the message into the outbox, the
worker reschedules, kills or deletes the row it has a copy of, an import forgets. Chatwoot may be away before or after
it took a request. `Delivery` is the promise to a message: tried, then delivered, kept or given up; only a fault
before it is kept loses it. The mapping (`Status`) reads it off the row, the pushes under way and what was posted.

### Dialer, Orchestration, Ledger, Campaign

The loop's decision (`LoopSelect`), its claim (`LoopClaim`: `NextJob`, `Reserve`, the interval's timestamp) and each
step of the dispatch goroutine are actions of their own, since the loop and its dispatches share no lock.
`select` in `campaignLoop` takes any ready channel, so a cancelled loop may go round once more; a paused campaign
that is started again therefore has two loops for a while. Time is abstract: a line is cooling and a lead is waiting
until some later step says it is not. A call is in `live` from `createCall` until it leaves the session's registry,
which is what `ActiveCalls` counts. `StartCampaign` is called from tests only; the HTTP API pauses and stops.

`Orchestration` is `executeCampaign`: the key is registered, a job created and moved on, and the leads are enqueued by
a goroutine. `Campaign` conjoins that enqueueing with `Dialer!Enqueue`; apart from it the two share nothing, and
breaker and costs share nothing with either, so that `part` makes each behaviour about one of them.

### AISession, Fabric

A step is what happens between two locks (`amu` of the adapter, `pmu` of the provider). The adapter keeps `amu` while
the provider dials; Grok's and Gemini's `mu`, the playback channel with room for `Room` chunks, the reader goroutine
and the context decide how a stop ends. Gemini's `Start` and `Interrupt` take a lock they already hold; the model
leaves such a thread where it is. `crashed` is a nil dereference after Grok's `Stop`. `Fabric` counts each provider's
sessions against what the sessions really have (`using`); health is a function of the counted outcomes.

### SctpRelay and RelayView

A connection is an object with a life of its own: the map may have forgotten it, or hold another one at its
endpoint, while its goroutines and callbacks go on. The model therefore keeps the state per connection (`Conns`) and
the map beside it. `setup` follows `connectToRelay`, `callback` its `OnOpen`, `timer` the goroutine of the 20 s
timeout, `doomed` the calls of `teardown` that are due. `failConnection` goes by the connection and `closeConnection`
by the id, as in the code. The `select` and the `close` in `teardown` are not one step in the code; what that can
lead to (two of them close `stopCh`) is the action `DoubleClose`, after which the process has stopped.

`RelayView` is the contract: listed relays connect, open up to the cap and get lost, and every opening is reported.
`CallManager` has these steps as `Dial`, `RelayOpen`, `RelayLost`, `OnRelayConnected` and `CleanRelay`; a dial that
replaces an open entry is there a loss followed by a dial, and a report of an unlisted connection is one that was
listed when its callback began.

## 3. Runs

| Run | Instance | Shows |
|---|---|---|
| `call_safety` | 2 clients, 2 callee devices, 1 relay, symmetric | the safety properties of a call and that no step takes an answered or ended call over |
| `call_liveness` | 1 client, 2 devices, 1 relay, `FairSpec` | accept and relay opening never miss each other; the media of an ended call is torn down |
| `desk` | 2 clients, 1 panel, 2 calls, cap 1, seven scenarios, one of them a broadcast to both numbers with an operator who ends one | no send on a closed channel, no call unknown to a panel, no end unrecorded; the broadcast keeps to its slots and leaves no call |
| `audio` | 2 bridges, 2 enders, seven plans | everything is released once; closing a bridge hangs nobody up |
| `relay_safety` | 2 endpoints, 2 connections, 2 dialers, caps 1, ICE failures, symmetric | the map lists living connections, also when one dial takes another's place |
| `relay_teardown` | 1 endpoint, 2 connections, 1 dialer, `Cleanup`, `FairSpec` | dials settle, closed channels leave the map; `SctpRelay` implements `RelayView` |
| `campaign` | 2 leads, 1 line, 2 loops, 2 dispatches, a request and its repetition; 2 probes, threshold 2, repeated cost reports | no lead enqueued, claimed or called twice; breaker and ledger |
| `dialer_liveness` | the dialer alone, in `ai` mode, `FairSpec` | every lead is called or given up |
| `sessionlife` | 1 session, 2 admins, five scenarios, 2 faults, 2 losses of the connection | no database orphaned, pairings survive, deletions are final, losses are announced |
| `instance_delete` | 1 instance, 1 fault | *violated*: an instance cannot be deleted any more |
| `chatwoot` | 1 message in nine traffics and its import, 1 push, 1 import, 2 attempts, 1 fault, `FairSpec` | nothing is lost, kept for ever, given up early or sent back; `Chatwoot` implements `Delivery` |
| `ai` | 1 session with each provider, 2 requests, room 1; 2 callers of the fabric; fair | a stop comes to its end and leaves nothing; the catalog counts its sessions |

**Why the bounds are enough.** Two devices are the smallest number that tells the answering device from another one,
and two clients let any two requests overlap with the event loop and the ack goroutine; one relay is enough for a
property that asks whether *some* relay is open. Two loops are the smallest number with a restart, and with two
dispatches and two leads two claims can collide. Two connections are the smallest number in which a late callback of one can
meet the other, and with a cap of one the second is already above it; `Events` takes ICE failures in `relay_safety` and
`Cleanup` in `relay_teardown`, where both together would grow too large. At the desk one panel meets every order of
subscription and broadcast, two calls are one more than the cap; where panels do not matter (transfer, broadcast) none
is open. Of bridges and enders there are two, so that one swaps out the other's bridge while a third thread ends the
call. A session meets others only in the manager's map, hence one session; two faults are a crash during the
recovery from another. A message meets others only in the outbox, which the worker takes row by row: one message with
two copies of its event covers push against worker, and the second attempt is the last. Rooms and probes follow the
same rule: one more than fits.

**Scenarios.** `CallDesk`, `SessionLife`, `CallAudio` and `Chatwoot` take what people ask for from a constant set of
scenarios (`Scenarios`, `Plans`, `Traffics`). Within a scenario every interleaving, failure, crash and answer of the far
side is open; the scenarios keep the instances small by not mixing requests that do not meet.

**Fairness.** `CallManager!Fairness`: goroutines that have begun a handler go on with it, and an `OnOpen` callback is
run; nothing is assumed of stanzas, requests or relays. `Dialer!Fairness`: the ticker ticks and the loop body runs,
dispatch goroutines go on, delays pass; and some call ends after the other, which is the callees' doing and is needed
because a line that is full for ever dials nobody. `LeadsReached` is conditional on the campaign being left running
with a connected line. `EventStep` and `ClientStep` are weakly fair as a whole: each thread has at most one of their
actions enabled at a time but for the choice between outcomes. `SctpRelay!Fairness`: goroutines that run go on, callbacks
that are due are run, the timeout expires; relays, networks and callers may do nothing, and the keepalive's ticker
need not tick. `Chatwoot!Fairness`: pushes and the worker go on and the backoff passes; nothing is assumed of WhatsApp,
Chatwoot or operators, and `Redelivered` is conditional on session, configuration and Chatwoot staying. `AISession!Fairness`:
requests that were taken and the goroutines of a session go on; of the peer and the provider nothing is assumed.

## 4. Proofs

Every invariant and every action property of a passing run is also a theorem of TLAPS, for all values of the constants
that meet the assumptions below; `PROJECT.json` (`theorems`) lists them by name. TLC had checked the invariants, and on small instances the
inductive ones, before they were proved.

The theorems follow one argument. The property is strengthened until it is inductive; the strengthening holds in
`Init`; each action is shown to keep it, in a step of its own; and the property is a conjunct of it, or follows. Where
an action disturbs little of a large invariant, frame lemmas say once what a step of thread `t` leaves to the other
threads. The strengthenings say what the code relies on without saying it:

- **`CallManagerProofs!Inv`**: nothing has happened to a call that has not begun (`Beginning`); which handlers run in
  which direction (`Directions`); SRTP exists only with a call key (`Keys`); the accept under way comes from the device
  that has answered, or nobody has (`Accepting`) - without it two accepts, each past the first-accept check, could not be
  told to be impossible; a call that is connecting or beyond has an answering device (`Answered`).
- **`SctpRelayProofs!Inv`** adds to `ListedIsAlive`: a connection that is not listed yet has been touched by nobody
  (`Untouched`), which an insertion needs, and a dial has an endpoint (`Dialled`). The cap is shown on top of it by
  counting (`FewerOpen`, `OnOpenKeepsCap`), and the refinement with one more invariant, `Opened`: `OnOpen` runs once and
  finds its connection not open. `ImplementsViewSteps` is the safety half of the refinement; the promise that every
  opening is reported is checked by `relay_teardown`.
- **`CampaignProofs`**, the dialer: a dispatch that works has a lead in progress that is locked (`Working`), a loop that
  claims has a line (`Choosing`), dials and attempts go together (`Counting`), a lead whose call was placed is not
  eligible again (`Placed`), and the running loop is alive and not cancelled (`Running`).
  The composition: every step of `Campaign` is a step of `Dialer` or leaves it alone (`CampaignImplementsDialer`), so
  that the theorems about `Dialer` hold with any requests; a request that goes on has its key and shares it with no other
  that does (`KeysTaken`); the breaker's state follows its count (`Counted`).
  The ledger: what is booked has an id of its own, and a job's sum is the cardinality of what was charged to it
  (`Booking`). That sums count bookings exactly (`SumsAreOfBookings`) needs nothing of the callers; that each *call* is
  booked exactly once (`CallsAreBookedOnce`) needs `OneIdPerCall`.
- **`DeskProofs`**, the channels: a thread that writes to them holds the broker's read lock and writes to panels that are
  subscribed; a panel whose channel is closed has left, which took the lock, and nobody who has left subscribes again
  (`Locked`). What panels know (`Told`): a panel that has joined *hears* of every listed call - it knows it, will ask for
  the list, or an event that tells of it is in somebody's hands and will reach it (`Hears`). It is what makes
  `serveSSE`'s order, subscribe first and read the list then, right.
  The calls (`DeskInv`): where each thread may be with which call (`Place`), that it has that call's lock exactly while it
  emits (`Stage`), that nobody else has to do with a call that is being made (`Alone`); for every call that is over or
  listed, either the history has it or somebody is on the way to put it there (`Recorded`); for the calls of a broadcast,
  that a task is at work on each that is on, and that each waits, is worked on or has its outcome (`BulkCall`); and that
  there are no more tasks at work than slots (`Campaigning`).
- **`CallAudioProofs!AudioInv`** reasons about the scripts. A script keeps to an order (`Scripts`): one unlock after what
  it unlocks, one `finalize`, nothing to be released after a look-up that may still fail. Whoever is to release LiveKit's
  lock holds it, and only he attaches (`Locking`). Each open connection and codec has an owner (`Owned`): a thread whose
  script closes it, or the registry's entry while the call is registered. An ended call's codec and room wait for a
  thread that will release them (`Ending`). The recording goes through three hands one after the other - the entry, the
  thread that took it out, the goroutine that finishes it - and is in one of them only (`Finishing`). And while the call
  goes on, every script silences a bridge before it closes it (`Silent`), which is all that keeps the close from hanging
  up.
- **`SessionLifeProofs!LifeInv`**: the step a request is at says what it is for (`Places`); a session that is being made
  has one request only (`Fresh`), two at once are noted in `overlap` (`Alone`); who is in the manager has a row (`Rows`);
  the order of a deletion, database before row before instance (`Dropping`); a deleted session is only its own request's
  affair (`Lingering`); a paired client has its device until a deletion takes it (`Devices`); what was recorded is in the
  manager or still to be restored (`Restorable`), and is not being undone (`NotUndone`); a session that is up has had its
  guard rearmed since the last loss was told (`Rearmed`).
- **`ChatwootProofs!ChatInv`**: no row, *and no copy of it that the worker has read*, counts more attempts than have
  failed (`Earned`, `Draining`), so that a death is earned even when the row changed under the worker; the worker deletes
  only the row of a message that needs it no more; a webhook that is on its way is an agent's or will be refused
  (`EchoesRefused`). On it rests `KeepsThePromise`: each action maps to a step of `Delivery` or a stutter, by following
  what the action does to the `Status` of the one message it is about (`Promised`) and that it leaves the others
  theirs; a crash and a purge change many at once and are treated on their own.
- **`AIProofs`**: the adapter's lock is the starter's from the dial on (`StarterHolds`); the gateway gives the adapter to
  one request, which is the only one to stop it (`OneStops`); only Grok's reader runs and it does not come back
  (`ReaderOfGrok`); what is behind the stopping request at each of its steps (`Closed`). For the fabric, a step that moves
  one session from one provider to another moves their counts by one each (`Moves`), so that the counts are the
  cardinalities they stand for (`Agreeing`); `CompleteSession`'s floor at zero is never needed.

**Assumptions.** The names of threads, devices and null values differ (`AudioAssumption` says it of the goroutines that a
bridge's ICE callback starts, too), and the numbers are naturals with `FirstAttempt <= MaxAttempts`; endpoints,
connections, tasks of a broadcast and sessions of the fabric are finitely many, since they are counted. `FreshAssumption`
and `NumbersAssumption` say that two starts are never of the same call, nor of one that is offered, because ids of calls
are random; and that a session has one broadcast, as `broadcast.go` makes sure. Nothing is assumed of how many devices,
relays, panels, calls, leads, lines, loops, requests, sessions, messages, bridges or clients there are, nor of caps,
thresholds, attempts, faults and losses.

Two theorems have a hypothesis besides the specification, which is about those who use the code and which the code does
not enforce. `NothingIsLeft` assumes that nobody rejects a call of the broadcast (`NobodyRejects`): `RejectCall` on a call
that was answered ignores the refused transition and leaves the call alive (section 6), so that the broadcast ends and its
call stays on the list. The proof showed that nothing else can leave a call behind. `CallsAreBookedOnce` assumes
that the reports of one call go by one id (`OneIdPerCall`): `RecordCost` falls back to the *job* for a missing id, so that
two calls of a job reported without one are booked as one.

The exceptions that properties of `SessionLife` name are real: without `overlap` (another request worked on the session
while it was deleted), `leaked` (a drop of the database failed) or `late` (the goroutine of an earlier loss ran after the
session was back) TLC finds `DeletedIsGone`, `DatabaseHasRow` and `LossesAnnounced` violated.

**Proved and not the property of a run**: `TypeOK` of `CallManager`, `Dialer` and `SctpRelay`, that the send loop ends
with the call, that connected calls were answered, that dials are bounded, that a running campaign has a loop, that no
lead that waits is locked, that open relays are capped, that the sums of the ledger count its bookings, and the safety
half of the refinement of `RelayView`.

**Model-checked only.** Liveness, which TLAPS does not do here: `OpenRelayConnects`, `EndedIsTornDown`, `LeadsReached`,
`HandshakeSettles`, `ClosedChannelLeaves`, `StopSilences`, `Redelivered` and the liveness half of `ImplementsView`. And the
configurations that end in a violation (sections 5 and 6), of which there is nothing to prove.

## 5. Findings of a run

`instance_delete`: `Restore` drops a session without a jid and leaves its row of `instances`; `instance.Manager.Delete`
then fails on the missing session before it deletes the row, for ever.

## 6. Configurations run by hand

Each contradicts a sentence of the repository. They check one property and end in a violation.

| Configuration (module) | Property | What the code does | The sentence |
|---|---|---|---|
| `CallAcceptRepairsKey` (`MCCallManager`) | `AcceptRepairsKey` | the key repaired in the accept's first critical section is overwritten in its second | `callmanager_signaling.go:102` "a retransmissão é a única chance de reparar a chave" |
| `CallListedCallsAreLive` (`MCCallManager`) | `ListedCallsAreLive` | `doStartCall` lists a call that has ended (`httpapi.go:595`); nothing removes it | `client/src/components/domain/call/OtherCallsList.tsx:11`, "Other active calls" |
| `CallRejectedStaysDown` (`MCCallManager`) | `RejectedStaysDown` | `RejectCall` after an accept tears the media down and leaves the call (`callmanager.go:244`) | `client/public/openapi.yaml:521`, "Rejeitada" |
| `CallDeskClaim` (`MCCallDesk`) | `ClaimedByOne` | the state callback writes back an owner it read before the claim, and a second client gets through | `httpapi.go:696` "evita dois clientes pegarem a mesma chamada" |
| `CallDeskCap` (`MCCallDesk`) | `SessionWithinCap` | `startOutgoing` never asks for the cap: a broadcast and another call exceed it | `broadcast.go:209` "nunca fura o limite de chamadas simultâneas da sessão" |
| `CallAudioDownlink` (`MCCallAudio`) | `WsHearsPeer` | nothing ever writes the peer's audio to a WebSocket bridge | `ws_bridge.go:21` "O áudio do peer (WhatsApp → browser) vem pelo mesmo caminho na direção inversa" |
| `CallAudioFrames` (`MCCallAudio`) | `FrameOnce` | each frame of the peer is pushed to the room twice, by `wireCall` and by the hook of `BridgeSession.Start` | `livekitbridge/bridge.go:108` "recebe o PCM do interlocutor do WhatsApp e enfileira para envio ao LiveKit" |
| `DialerLimit` (`MCDialer`) | `ConcurrencyLimitKept` | the slot is counted after the loop has gone on (`scheduler.go:226`) | `dialer_test.go:152` "concurrency limit exceeded" |
| `DialerLease` (`MCDialer`) | `LeaseExpires` | a reservation never expires (`reservation.go:31`) | `docs/recovery-runbook.md:19` "O lease do reservation engine expira automaticamente após 30 segundos" |
| `RelayOpenCap` (`MCSctpRelay`) | `ChannelsWithinCap` | a dial that replaces another leaves a channel open that nobody counts (`sctprelay.go:170`) | `sctprelay.go:22` "limita quantos relays ficam abertos ao mesmo tempo por chamada" |
| `AIStopIsFinal` (`MCAIStack`) | `StopIsFinal` | a stop between the registration of a session and the start of its adapter finds nothing to stop, and the session starts | `gateway.go:142` "StopAISession terminates the AI session." |
| `ChatwootMirror` (`MCChatwoot`) | `AgentNeverMirrored` | the echo of an agent's message may come before it is marked as sent | `chatwoot.go:202` "O que o agente mandou pelo próprio Chatwoot nunca é espelhado — já está na conversa, espelhar duplicaria" |

Other states the models reach, or that reading the code for them showed, which contradict no sentence:

- *Calls*: a transport stanza that replaces the offer's endpoints leaves a call connecting with no timer to end it; an
  ack handled after the end creates SRTP sessions and dials relays; `teardownAllCalls` between `createCall` and
  `StartCall` leaves a call that runs and is registered nowhere.
- *Desk*: `broadcastCallList` may send an older list after a newer one (`broker.go:299`); `Resume` writes a stale owner
  over a pickup.
- *Broadcast*: `endCall` deletes the record, so `StatusEnded` is never seen (`broadcast.go:282`) and a number that
  declines keeps its slot until `max_ring_ms`; a call answered between the last poll and the hang-up is cut and noted
  as no-answer; equal numbers share one result; finished broadcasts are kept for ever; a `reject` of one of its calls after the
  callee has answered takes the call out of the registry and does not end it (`callmanager.go:244`); its next state puts it
  back on the list, where nothing takes it off again. `LeavesNoCall` holds while nobody does that.
- *Dialer*: `AvailableSlots` leaves out the calls of full and offline lines; after pause and start two loops may dial
  one line within its interval; a repeated request is told a new job id that names no job (`campaigns_api.go:133`); a
  job is complete once its leads are enqueued; every call passes a half-open breaker.
- *Relays*: two `ConfigureRelays` that overlap dial more than `maxDialRelays`; two teardowns of one connection may
  both close `stopCh`; a pc created after its teardown is never closed.
- *Audio*: `AttachCall` blocks the peer audio of every call while it waits for LiveKit; a WebRTC bridge that takes over
  from a WebSocket one leaves it registered, and its later close ends the call; the codec may be used while it is
  closed; a call's recording finished after its removal from the list loses its number.
- *Sessions*: a failed drop leaks the database; a session whose `startPairing` fails stays registered without an
  instance; a late status update may overwrite a newer one.
- *Chatwoot*: a row revived by an operator may be killed by the worker's copy of its attempts; two pushes may create two
  conversations; media without a caption whose download fails counts as delivered; the webhook answers 200 though the
  send failed.
- *AI*: `Interrupt` after Grok's `Stop` dereferences nil; Gemini locks itself out; a provider with one failure and no
  success is never eligible again (`fabric.go:268`).

## 7. Plan

Done: all the modules of section 2, their runs, and the proofs of every invariant, action property and refinement
step that a run checks.

Left, in this order:

1. `CallManager`'s relay steps stated as an instance of `RelayView`, and the two composed, so that `OpenRelayConnects` may
   be asked of both together;
2. what the hand-run configurations disprove, proved for the callers that keep to the rules: `RejectedStaysDown` when no
   accept was handled before, `ClaimedByOne` when no state callback is under way;
3. `VideoSignalling`: upgrade, downgrade and hold of the video against late stanzas. Reading it showed two races: a late
   `VideoStateUpgradeAccept` turns the camera on again after `StopVideo` (`callmanager_video_signaling.go:52` and `:170`),
   and stanzas that are sent after the unlock may be swapped;
4. the RTP send loop with its jitter and hold tone.

## 8. Not modelled, and why

Encodings and cryptography (RTP, SRTP, STUN, stanzas, codecs) are functions of bytes whose results the models only
distinguish where a property does. The messaging endpoints (`messaging.go`, `groups.go`, `chatting.go`, `presence.go`,
`contacts.go`) make one library call per request and keep no state. Storage is one SQL statement per operation; the rows
that matter (sessions, instances, outbox) are variables of `SessionLife` and `Chatwoot`. Video signalling is planned.
The web client, the native codec and the browser extension are outside the server. The simulation harness, tracing,
RBAC tables and webhooks of the dialer are output only. The AI gateway and `StartCampaign` are modelled although only
tests call them: the code is complete and its races are those a caller will meet.
