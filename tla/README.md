# A TLA+ development of libp2p-switch

libp2p-switch (this repository, `src/`) dials peers over several transports,
secures and multiplexes the connections, and hands protocol streams to the
application. This directory models its core in TLA+, checks the models with TLC
and proves part of what they claim with TLAPS. Paths are relative to the
repository.

## The system

| Component | State | Operations | What makes it correct |
|---|---|---|---|
| Dial queue of a peer, `src/dialer/queue.js` | `_queue`, `isRunning`, `denylisted`, `denylistCount` | add, start, stop, abort, denylist, `_run` and its listeners | one attempt at a time; every queued dial is answered once; a denied peer is not dialed |
| DialQueueManager, `src/dialer/queueManager.js` | `_queues`, `_queue`, `_coldCallQueue`, `_dialingQueues`, `isRunning`, the clean timer | add, run, `_onQueueStopped`, clearDenylist, start, stop, `_clean` | no more than `MAX_PARALLEL_DIALS` slots, none leaked, none idle while peers wait; bounded cold calls |
| Dialer API, `src/dialer/index.js` | none | connect, dial, dialFSM | priorities and defaults |
| ConnectionFSM, `src/connection/index.js`, `base.js` | the state machine, `conn`, `muxer`, listeners | dial, protect, encrypt, upgrade, close, shake and every callback | each attempt ends once and says so; a closed connection stays closed and holds nothing |
| ConnectionManager, `src/connection/manager.js` | `connections` | add, get, getOne, remove, getAllById; addStreamMuxer | tracks exactly the live connections; the switch's events tell the truth |
| IncomingConnectionFSM, `incoming.js`, `handler.js` | a second state machine | protect, encrypt, upgrade, close | what the switch says of a peer follows the connections it tracks |
| Switch, `src/index.js` | `state`, transports, protocols, muxers | start, stop, handle, unhandle, hangUp | services follow the state; starts are undone; every stop ends, in any order of calls |
| TransportManager, `src/transport.js` | listeners per transport | add, remove, dial, listen, close, dialables | dials only addresses that are dialable |
| LimitDialer, `src/limit-dialer/` | a queue per peer, a cancel token per dial | dialMany, dialSingle | one task of a call at a time, one winner, an answer that accounts for every address |
| Stats, `src/stats/` | counters, update queue, timer, old peers | push, start, stop, forPeer | nothing counted twice or lost; no lost or stray timer; bounded delay |
| Observer, `src/observer.js`, `observe-connection.js` | promises of the peers' identities | message, peer:closed | messages reach the stats, late or not |
| Protocol muxer, get-peer-info, utils, plaintext | none of their own | pass-through and pure helpers | |

How they interact: the API puts a request in the queue of its peer and the peer
in a waiting set of the manager, which starts queues while slots are free. A
running queue creates a ConnectionFSM, which the ConnectionManager tracks, and
waits for its `muxed`, `unmuxed` or `close`. `error` calls the user back and may
deny the peer. A queue with nothing left stops, frees its slot and makes the
manager run again. All of this is synchronous calls that nest; transports,
handshakes, muxers and timers call back later, in any order, whatever has become
of the connection they belong to.

What is hard here is the nesting inside one turn of the event loop (a queue stops
inside the abort of another, a callback dials or hangs up in the middle of a
transition) and the late callbacks of closed connections. `PROJECT.json` lists
these as hazards at the lines where they bite.

## The modules

### Dialer

Queue, DialQueueManager and the part of the connection bookkeeping they use,
for several peers. Variables keep the names of the fields. The variable `agenda` is what is left of the
current turn of the event loop: its head is the innermost call. A synchronous
call puts frames in front, `nextTick` puts one at the end, and what starts a
turn (network, timers, the switch, fresh user code) needs it empty. One action
is one function up to the point where it calls out:

- `DialRefused`, `DialDenied`, `DialQueued` are the ways through
  `DialQueueManager.add`; `Run` is `run`; `QueueRunStops`, `QueueRunReuses`,
  `QueueRunCreates` are the ways through `Queue._run`; `AbortNext`, `AbortEnds`
  its `abort`; `Denylist` and `OnError` the `error` listener; `Muxes` and
  `Unmuxes` the other listeners; `StopNext`, `CleanNext`, `Delete` the loops of
  `stop` and `_clean`.
- A stop of the switch is two actions, as `STOPPING` has two listeners:
  `ManagerStop` when it begins, which aborts every queue, and `CloseConnections`
  when the listeners are closed, which closes every tracked connection there is
  by then, dials in flight included. `closesDue` counts the stops that are
  between the two, `MaxStops` at most. Users dial in between, and the switch may
  run again by then: it does when two stops overlapped and the later series was
  done first.
- A user's callback is a frame (`UserF`) during which it may dial, or hang up,
  as `NestedCalls` says.
- A connection is one of the phases in `ConnState`. "late" is a connection that closed
  before its transport dial answered.

`abandoned` belongs to no object of the code. It records whose connection was
tracked when a hang-up or a stop closed it, and no guard reads it:
`AnswerIsOwed` does, to say of which requests the answer may be lost.

Left out: the peer book lookup that can throw in `_run`; the length of the deny
time (a denial is "until", then "expired"); the order of the tracked
connections in a hang-up or a stop (any order); what travels over a connection.
Closing the listeners is assumed to take a turn of the event loop, so a stop never
closes connections in the turn that aborted the queues.

### ConnectionFSM

All outgoing connections to one peer other than ourselves (a dial to ourselves never leaves
DISCONNECTED and is in Dialer): the table of transitions, one action per state
entered (`EntersDialing`, `EntersMuxed`, ...), one per group of listeners
(`HearsMuxed`, ...), `Close`, and one action per callback (`TransportConnects`,
`Encrypts`, `UpgradeFails`, `MuxerEnds`, ...). A callback is enabled in every
state: the code never cancels an operation. `fsm-event` sets the state
first and calls the handler afterwards, and accepts DISCONNECTED to DISCONNECTED
as a transition; `Enters` says so. `Remove` is `ConnectionManager.remove`, with
the two `peer-mux` events (`muxHeard` is the last one) and the count of
`connection:end`.

Left out: inbound connections to the same peer (module Inbound has them); the
`error:` events nobody in the repository listens to; a user who goes on calling
a connection after it ended. That `setPeerInfo` throws when the protector
answers late ends the callback (`Protects`).

External code is assumed to call each callback once. A muxer may call back
`end` at once or later and may emit `close` at any time, once.

### ConnectionLifecycle

The contract between the two: the phases module Dialer moves a connection
through, each in one direction, and that the queue is resumed at most once, when the
attempt is over. `KeepsLifecycle` in ConnectionFSM is its specification under the
mapping `Phase`.

### Addresses and LimitDialer

`Addresses` is the pure part of `src/transport.js`: `Destination`,
`OurAddresses` and `Dialables`. An address is a sequence of parts, cut so that a
prefix of the text is a prefix of the sequence; port 4001 is two parts next to
port 40. The reference they are checked against is `LeadsToUs` in LimitDialer,
which says what an address is, not how its text begins.

`LimitDialer` is `TransportManager.dial`, `dialMany` and the queue of each peer.
`Dial` filters the addresses and pushes the first; `Connects`, `Fails` and
`TimesOut` are the three ends of a task, each with the callback of `tryEach`
that pushes the next task before the worker takes one; `LateConnects` and
`LateFails` are what the transport says after the timeout. async.queue is
external: pushing schedules its processing (`Work`), a finished worker takes
waiting tasks at once (`Processes`). The branch of `_doWork` for a cancelled
token is not in the model, since `OneTaskEach` shows that no task of a call runs
once its token is set.

### Stat and Stats

`Stat` is one object of `src/stats/stat.js` as a record: operations queued and
applied, the timer and its ticks left, and the age of the oldest queued
operation. `Stats` is the global stat, those of transports and protocols, and
those of peers with the place they are in: `peerStats`, `oldPeers` or nowhere.
A message is in flight until the promise of its peer's identity resolves
(`Deliver`), which may be after the peer was closed (it becomes current again)
or the stats stopped (it is not counted). The cache of old peers is external:
any look-up or insertion may drop any other entries (`Forgets`), whose
operations the history variable `forgotten` keeps count of. Time does not pass
a timer that is due, and `retimer.reschedule(0)`, a library's, is taken to fire
before the next tick: `StalenessIsBounded` rests on it. Left out: moving averages; which counter a message is for.
The switch calls `start` and `stop` of the stats in alternation, which
`ServicesFollowState` shows.

### Inbound and Switch

`Inbound` is a connection the peer opens: the connection handler,
`IncomingConnectionFSM` up to MUXED, the stream muxer's handler with identify,
and the tracked ConnectionFSM made of it, in its states MUXED, DISCONNECTING
and DISCONNECTED. The phases that last for part of a turn have no state of
their own. All connections are of one peer, where `remove` has its cases.
A failed connection goes through `remove` too, tracked or not
(`IncomingFails`). A negotiation that fails leaves the connection ENCRYPTING,
as the code does: nothing forces it on.

`Switch` extends it with the life cycle: the table of `src/index.js`, the series
of operations that start (`Listen`, `ListenerOpens`, `ListenerFails`) and stop
(`CloseListeners`, `ListenersClosed`, `CloseConnections`, `HearsClose`), each
identified by its start or stop, because several may be under way: nothing
cancels a series, and its `done` meets whatever state the machine is in. A
listener that fails fires `stop` itself. `agenda` is the rest of the current
turn, as in Dialer. Left out: `handle` and `unhandle`, which edit a table; the
addresses that replace ours once a listener is open; a listener whose
`getAddrs` fails; connections we dialed (Dialer and ConnectionFSM have those);
a muxer that calls back `end` at once (ConnectionFSM has it). There is something
to listen on (`Listening # <<>>`): with no listeners a start or a stop is done
in the turn it began.

### Arrays

`Filter` is `Array.prototype.filter`, as `remove` uses it on the tracked
connections and `dialables` on addresses. It is a recursive function over a
set of positions, because the provers know nothing of what `SelectSeq` returns;
the sums in Stats are the community modules' `SumFunction` for the same reason.

### MCDialer, MCConnection, MCLimitDialer, MCStats, MCSwitch

Definitions for the configurations: the kinds of request, symmetries, address
lists, transports, and the constraint `StaleEntryOnly`, which only narrows the
search of a violation.

## The runs

| Run | Instance | Shows |
|---|---|---|
| `Dialer_contention` | 2 peers, 3 requests, 1 slot, 1 cold call, permanent denial at the 2nd failure | limits, slots, answers, denials under contention, nested dials, inbound connections and failing identify |
| `Dialer_restart` | 2 peers, 3 requests, 1 stop under way at once | stops (queues first, connections later), starts and cleans while dials are under way and callbacks dial |
| `Dialer_holders` | 1 peer and ourselves, 3 requests, 1 slot | nested hang-up, close by the holder of an FSM, clearDenylist, self dial, unmuxed connections |
| `Dialer_live` | 2 peers, 3 requests, 1 slot, no protocols | every request answered, every slot returned, with callbacks (also of an abort inside a denial) that dial |
| `Connection_race` | 3 connections, private, none or 1 transport, identify | closes and nested dials and hang-ups racing late callbacks; muxers that end at once or later |
| `Connection_lifecycle` | 2 connections, none or 2 transports, listeners that dial | refinement of ConnectionLifecycle; every attempt and every close ends |
| `LimitDialer_calls` | 3 calls, 2 peers, 2 workers each, lists of 2 to 4 addresses | one task each, complete answers, no late answer counts, no dial to ourselves, every call answered |
| `Stats_counts` | 2 peers, a transport, a protocol, 4 messages, queue limit 4, timeout 4 | counts agree, timers follow queues, bounded delay |
| `Switch_lifecycle` | 2 connections, 2 transports with a listener each, 2 starts, 1 stop | services, listeners and connections over starts, stops and failures in any order; every stop ends |

Bounds. Two peers and one slot are the smallest instance in which one peer
waits for another; three requests let one peer have a dial in flight, one
queued and one issued from a callback. Each request is issued once, so a peer
fails at most three times: `DenyAttempts = 2` reaches both kinds of denial.
One stop under way at once lets its connections be closed before or after the next
start, with dials of before and after it in flight; the theorems hold for any
number of them. Three
connections are the fewest where one closes late while another is live and a
third is being dialed; two transports make the retry loop turn. Three calls are the fewest with one
waiting while both workers of a peer are taken. The queue limit of Stats is the
number of messages, so the timeout shrinks from the whole to zero, and the bound
on the delay, 6 ticks, is reached. In Switch one stop by the user and two starts
that may fail give up to three series of stopping; the passing run does not wait
for the switch to settle between calls (`Patient = FALSE`). The systems may
really stop (all requests issued and answered), so deadlock is not checked;
`Spec` has no state constraint in any passing run. Symmetry is used in safety runs only.

Three more runs end in a violation, each of a sentence of the repository; their
findings are in `PROJECT.json`:

- `Dialer_stale_entry`: "keep the queue processing", but `run()` gives up at a
  waiting peer whose queue was cleaned, with a slot free and peers behind it.
- `Connection_late_base`: a connection that closed while dialing keeps the base
  connection its transport opens later.
- `Switch_stop`: "Close all the listeners and muxers", but a listener that opens
  after another one of its start failed stays open in a stopped switch. The same
  happens when `stop` is called while listeners open, and to a connection that
  is identified after `stop` took the list of connections.

Other sentences of the repository have a definition in the modules and no run.
Each of them TLC refutes when it is made the property of the run of its module
(for `DenyingAborts`, with one peer and `DenyAttempts = 1`):

- `DenyingAborts` (Dialer): "The queue will be immediately aborted", but the
  last failure allowed denies the peer and returns before `abort()`.
- `DenialIsPermanent` (Dialer): "permanently denied", but `_clean` forgets it.
- `EndsAreRemovals` (ConnectionFSM): `connection:end` is emitted for a
  connection that was removed before.
- `MuxClosedFollowsMuxed` (ConnectionFSM): `peer-mux-closed` is emitted for a
  peer that never was muxed.
- `DialsArePerPeerLimited` (LimitDialer): "number of concurrent outbound dials
  to make per peer", but a dial that times out goes on without a worker.
- `UpdatedWithinTimeout` (Stats): "The maximum interval" is
  `computeThrottleTimeout`, but every push puts the timer off, by less each
  time; `StalenessIsBounded` is the bound that holds.
- `MuxedIsOpen` (Inbound): a muxer that closes after the last message of
  identify and before its callback leaves a muxed connection without a muxer,
  tracked until somebody hangs up.

Seen on the way: `start()` does not `run()`, so peers
dialed while the switch was stopped wait for the next dial, and the timer of
`_clean` is not armed again; a hang-up, or a stop of the switch, closes a
dial in flight without calling its callback (`AnswerIsOwed` names the two as the
only exceptions), and a stop whose series is late does so to dials of a switch that
runs again; a nested hang-up or reset of a denylist, or a close with an error on an unmuxed connection,
lets a queue stop or start again with another attempt in flight, so `OneAttempt` is not checked in
`Dialer_holders`. An address of a peer whose text goes on
where one of ours ends (port 40 of ours, 4001 of theirs, same host) is never
dialed; an address we had before, with our own id, is. The statistics of
protocols are not stopped with the rest. A message that resolves after its peer
was closed makes the peer current again.

## Fairness

A turn that began runs to its end: the code is synchronous (`WF` of `TurnStep`,
`Turn`). In Dialer an attempt and a handshake settle one way or the other:
transports are timed by `dialTimeout`, and an error or an answer is
assumed from every handshake. Nothing in the code enforces the latter, since
handshakes have no timeout; without the assumption a silent peer keeps its slot
for ever. The event loop delivers every callback, however many turns come first,
hence `SF` where other turns can disable it for a moment. In `Dialer_live` the
requests open a muxed connection and no protocol, which keeps the instance small
enough for liveness: waiting for a protocol handshake is the one step
`ShakeEnds`, and that a request which waits for it is not forgotten is `AnswerIsOwed`,
checked with handshakes in the other runs and proved. In ConnectionFSM the
number of turns is bounded and `WF` is enough; `muxer.end` is assumed to call
back. In LimitDialer the queue is processed and every task settles, which
`dialTimeout` enforces; nothing makes a transport answer after its timeout. In
Switch a listener opens or fails, closing one calls back, and `muxer.end` calls
back; connections, identify and users are not made to go on. Users, peers and the timers of the denylist and the clean owe nothing.

## The proofs

TLAPS checks the theorems below for any values of the constants that satisfy
the module's named assumption (`DialerAssumption`, `ConnectionAssumption`, ...),
which TLC evaluates in every run of the module. They need nothing else, but for
the hypotheses on what may happen that are named below. Each argument is an inductive
invariant: a conjunction of named parts that TLC checked on the bounded
instances before it was proved, one lemma for each action or group of actions
it could disturb, and a theorem that says it holds throughout; the properties
the runs check follow from it.

| Module | About | Proves |
|---|---|---|
| `ArrayProofs` | `Arrays` | what `Filter` returns, for every sequence and set |
| `DialerProofs` | `Dialer` | types, the slots, the waiting sets; what a turn may have left to do, and what that means for dropped and denied queues and for free slots |
| `DialerAnswerProofs` | `Dialer` | where a request is, who attends to it, and what it is owed until it is answered |
| `DialerAttemptProofs` | `Dialer` | in which order a turn runs what it has left, that a queue has one attempt at a time, and that a clean takes its Queue object away only if its peer is denied for ever |
| `ConnectionProofs` | `ConnectionFSM` | types, tracking, resumed queues, events, connected peers; the refinement |
| `LimitDialerProofs` | `LimitDialer`, `Addresses` | types, tasks, answers, addresses |
| `StatsProofs` | `Stat`, `Stats` | how a sum over a function changes with one of its values; types, delays, timers, counts |
| `SwitchProofs` | `Inbound`, `Switch` | types, services, listeners, connections, stops |

**Dialer.** `TypeInv` adds to the types that only issued requests are queued,
connected or on the agenda: an action that takes the peer of a request needs it
to have one. `SlotInv` joins `DialLimit`, `SlotsAreHeld` and that the set of
slots is finite; they need each other, since `run()` tests the limit before it
takes a slot for a queue it starts, and `stop()` gives the slot back only when
the queue was running. `WaitingInv` (for `ColdCallsAreBounded`) adds that the
cold Set holds nobody twice, without which `delete()` would leave a copy.

The other invariants are about the agenda. `TurnInv`: a turn has one removal of
a queue due at most, before the rest of the walk (`stop`, `_clean`) that asked
for it. `DropInv` (for `DroppedQueuesAreIdle`): until the `DeleteF` of a peer
runs its queue is still to be aborted, or it was drained and nothing can fill
it, because the peer is denied, the manager is stopped, or the removal is next;
if it was started again meanwhile, its `_run` comes first and stops it.
`DrainInv` (for `DeniedQueuesAreDrained`): a peer denied for a while has its
`abort` due, or an empty queue whose `_run`, if it runs, is due. `WorkInv` (for
`WorkConserving`): whenever a slot is free and somebody waits `run()` is next, and
running it once is enough: one slot is free, or one peer waits.

`AnswerIsOwed` takes three more, in which the agenda counts as the set of frames
left (`Pending`): `Turned` says for each step which frame it is done with and
which frames that close a connection it adds. `PlaceInv`: a queued
request is queued once, at its own peer, with no connection and no handshake.
`AttendedInv`: a peer with requests queued has a Queue object, and runs, waits or
has an abort to come, its own or by the walk of a stop. `OwedInv`: a request that
was not answered is placed (queued, attempted, shaking hands, or closed and in
`abandoned`) or its callback is pending; a disconnection after a failure comes after
that callback; one that is no failure is of a request in `abandoned`, as are all the
connections a hang-up or a stop has still to close, or comes from the user who was
given the connection. `abandoned` only grows. Between turns nothing is pending, so what is left of the
three is the property.

`OneAttempt` holds between turns only because of the order inside one.
`TurnOrder` is that order, in four parts. `OrderInv`: a function that comes back
to a queue (an error, a disconnection) never waits beneath one that starts
afresh (the user, a walk, a removal), is there once, and nothing about a peer is
above the `_run` that resumes its queue. `FailInv`: an error is followed at once
by the disconnection of its connection, which still listens if its Queue object
is kept. `AbortInv`: what follows an abort at once is the removal of the same
queue, or the disconnection of the failed connection.
`ResumeInv`: a queue to be resumed beneath another call runs and attempts nothing. With it
`AttemptInv` can be stated at every step: no peer has two attempts, none over a
muxed connection its queue listens to, one while the queue is `Busy` (it runs
and no `_run` of it is due), and otherwise only one whose end, or whose
removal, is due (`Ended`); and a dial of our own id gets nowhere. `Sound` and
`Goes` say what a step may put in front of the turn for all this to stay, so
that the lemma for an action has only to show what it adds. Between turns
nothing is due and the property is left.

`CleanSparesAttempts` is an action property: only `_delete` takes a Queue object
away, so what counts is what is true while one is due. `SpareInv`: an attempt of
a queue that is about to be dropped is one of a peer denied for ever or of a
stopped manager, or its disconnection is still to come in this turn; and if the peer
is denied for a while none can begin, since its queue is empty, or the
connection whose failure aborts it still listens. When the removal is on top
`OrderInv` rules the disconnection out.

Some of these theorems have a hypothesis, because TLC refutes them without it or
because they rest on one that it refutes. Every run that checks the property
satisfies it:

- `DroppedQueuesAreIdleHolds` assumes that no callback calls `clearDenylist`
  (`"clearDenylist" \notin NestedCalls`). With it, 4 requests,
  `DenyAttempts = 1`, `Events = {"clean", "clearDenylist"}` and `NestedCalls =
  {"dial", "clearDenylist"}`, TLC finds a trace of 30 steps: `_clean` aborts
  the running queue of a peer denied for ever, which frees a slot; the queue
  started on it fails at once; its callback clears the denylist of the first
  peer and dials it again; the queue just aborted fills and starts, and is
  removed. `AttendedInvariant`, and with it `AnswerIsOwedHolds`, has the same
  hypothesis: the proof rests on a removed queue being empty.
- `WorkConservingHolds` assumes that there is no `_clean` and no restart: run
  `Dialer_stale_entry` is the counterexample for the first, and `start()` does
  not `run()` for the second.
- `OneAttemptHolds` assumes that no callback hangs up or calls `clearDenylist`
  and that no user closes a connection with an error (`NoClosing`). Each of the
  three alone is refuted: with 3 requests and `NestedCalls = {"dial",
  "clearDenylist"}`, an attempt fails and its abort frees the slot; the queue
  started on it fails at once; its callback clears the denylist of the first peer
  and dials it again; that dial starts, and only then is the first attempt
  disconnected, which stops the queue of the second.
  `CleanSparesAttemptsHolds` takes the same hypothesis, as it rests on
  `AttemptInv`. Of the three TLC refutes it for `clearDenylist` only. With hang-ups in
  callbacks, or closes with an error, it finds no violation on instances of the
  size of `Dialer_restart` (without the restart), and it is not proved.

**ConnectionFSM.** `ConnectionInv` has six parts. `AgendaInv`: only the head of
the agenda may be a transition or an event that runs at once; what a turn puts
off are closes, disconnects, `identify`, and the clean-up of a connection whose
queue was told. `StageInv` relates for each connection the state, the operation in flight
and what runs next; it is where the late callbacks are dealt with, since an
operation in flight belongs to the state that began it only while the connection
has not closed. `TrackInv` and `PeerInv` are `TrackedUntilDisconnected` and
`PeerIsConnected` made true inside a turn, `MuxInv` is the same for
`MuxEventsTell`. The actions fall into four groups, those
that create, those that proceed (`Proceeds`), the last transition, and those
that leave the state alone (`Stays`); the lemmas named `...Steps` say that an
action keeps the stage of its connection and spares the others.

`LifecycleKept` is the refinement `Spec => KeepsLifecycle`. `Phases` says what
`Phase` is in each state under the invariant, where its cases exclude each other; `Moving` turns a
change of one phase into a step of ConnectionLifecycle; `CreatingMaps`,
`ProceedingMaps`, `RemovingMaps`, `StayingMaps` and `OthersMap` find the step, or the
stutter, for each group of actions. So what module Dialer assumes of a
connection (one direction, one end, one resumption, when the attempt is
over) holds for any number of connections, transports and nested calls.

**LimitDialer.** `TaskInv`: the queue of a peer holds exactly the calls for it
that have no answer yet, each once, and the token of a call is set with its
connection. `AddressInv`: the addresses of a call are dialable ones, and what it
has tried and has still to try makes up its list at every step. That no address
of our own is dialed (`SelfIsNeverDialed`) then follows from what `Filter` and
`Destination` return.

**Stats.** `TimelyInv` (for `StalenessIsBounded`): the age of the oldest operation plus what
the timer has left is within the sum of the timeouts that a queue of that length
went through. `TimersInv` adds where each stat is. `CountsInv` adds the
messages in flight to the counts, and uses the lemmas about sums.

**Switch.** `AgendaInv`: after its head a turn only tells of series that are
done. `ServicesInv` follows the table. `PeerInv` orders the stages of an inbound
connection. `AwaitedInv`: what a stop waits for is being closed, or its `close`
is heard next. `ListenersInv`: a completed start has nothing opening, and an
open listener of it belongs to a switch that is started, is about to be, or
closes its listeners next.

Lemmas about data. The library's induction theorems cannot be instantiated here,
so `Filter` and the sums are recursive functions over a set, and induction over
them is done with the least number, or the smallest set, where a fact fails
(`UptoInduction`).

Every invariant and action property of a passing run is proved. Model-checked only:

- liveness (`EveryRequestAnswered`, `SlotsAreReturned`, `EveryAttemptEnds`,
  `EveryCloseEnds`, `EveryDialIsAnswered`, `EveryCallSettles`), which needs
  fairness and ENABLED, out of the prover's reach;
- the runs that end in a violation: a counterexample needs no proof.

## Not modelled, and the plan

Done: the modules above, the refinement of ConnectionLifecycle, and the proofs
of the last section.

Left, in this order:

1. DialService: what a user of the dialer is promised (one answer for each
   request), which Dialer implements.
2. `uniqueBy` and `availableTransports`, the choice of what to listen on, which
   the constant `Listening` of Switch stands for.

Out of scope: `plaintext` and `errors` keep no state that a property could be
about; `get-peer-info` is a look-up in the peer book, a library; protocol
negotiation, the crypto and the muxers are other packages, present by their
outcomes; `TransportManager.add` and `remove` edit the table of transports.
