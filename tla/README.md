# Verification of the multi-terminal gateway

TLA+ models of the parts of multi-terminal that keep state and run concurrently, the
TLC configurations that check them on small instances, and TLAPS proofs of all safety
properties for every value of the parameters. The reference is the code under
`src/`; each definition that models code is listed with its lines in `PROJECT.json`.

    tlc -config buf_stream.cfg MCRingBuffer      # one run; the table below has them all
    tlapm RingBuffer_proofs.tla                  # all proofs of one module

## 1. The system

Multi-terminal shows the shells of many hosts in one browser page. A Go gateway
(`src/gateway`) holds the SSH sessions; a Vue page (`src/frontend/src`) talks to it
over one WebSocket.

| Part | Source | State | Operations | Interacts with |
|---|---|---|---|---|
| Ring buffer | `router/buffer.go` | storage, two cursors that never wrap, closed flag, condition variable | Write, TryRead, blocking Read, Close, Available, IsHigh, IsLow | filled by a session's shell, polled by the router |
| Stream router, buffer pool | `router/router.go`, `pkg/buffer/pool.go` | buffers by session, stop channel | RegisterBuffer, aggregate every 20 ms, sendSlowWarning, Stop | reads the registry and buffers, sets the slow flag, broadcasts through the hub |
| Session registry, reconnection | `session/*.go` | map of sessions; state, time stamp and slow flag of each | Register, Unregister, Get, Detach, Attach, HandleReconnect, cleanup loop | used by HandleWS, the router and the broadcast engine |
| Connections and hub | `server/conn.go`, `server/server.go` | ConnMap, Send channel and two pumps per connection | HandleWS, Hub.Run, Broadcast, ReadPump, WritePump | the page; the risk engine for every input |
| Broadcast engine | `multiexec/engine.go` | one mutex | Broadcast, BroadcastSync | registry, shell streams |
| Admission | `resource/*.go`, `server/server.go` | time stamps by address, circuit state | Allow, Cleanup, AllowConnection, the monitor | in front of the upgrade in HandleWS |
| Graceful restart | `server/graceful.go`, `cmd/server/main.go` | snapshot, listener; a state file and a socket file | the signal loop, HandleUSR2Signal, startHandoffListener | the hub; a new process |
| Frontend worker | `workers/ws.worker.ts` | socket, locked sessions, queued blocks, timers | connect, input, send, resize, disconnect, messages, timers | the gateway and the page |
| Frame codec | `pkg/codec/frame.go`, `workers/parser.ts` | none | Serialize, Deserialize, parseFrame | router, graceful restart, worker |
| SSH manager and client | `ssh/*.go` | clients by host; channels of each | GetOrCreate, Close, OpenPTY | sessions |
| Prompt probe | `session/context_checker.go` | none | ProbeSession | shell streams |
| Risk engine | `risk/engine.go`, `server/server.go` | rules | LoadRules, AddDefaultRules, Check; handleInput | read pumps, a rule file |
| Audit, diff, configuration, metrics | `audit`, `diff`, `config`, `metrics` | log files, counters | logging, comparison | main |
| Stores and components of the page | `stores/*.ts`, `App.vue`, `components/*.vue` | selection, pending confirmations, flags | clicks, rendering | the worker |

What is hard here, and what each part owes:

- **Ring buffer.** Cursors that wrap, a buffer at its limit, readers on a condition
  variable. Bytes come out once and in order; EOF is final; no wake-up is lost.
- **Registry.** Handlers race for a detached session while the cleanup loop reads state,
  time stamp and clock in three steps. One owner per session; only overdue sessions go.
- **Connections.** Two goroutines tear one connection down while a third broadcasts into
  its channel, and broadcasts overlap. Answers are exact on a healthy connection, and all
  inputs are answered.
- **Router.** Two tests of the water marks per round while the shell writes and buffers
  are replaced. The flag follows the backlog in both directions; slow sessions hold up
  nobody.
- **Broadcast engine.** Sessions change between check and write. Every target is written
  once or reported; hosts see the same history.
- **Admission.** Equal time stamps, cleanup between requests, verdicts on old counts.
- **Graceful restart.** Signals while a round runs, failures in the middle, crashes that
  leave files behind, goroutines of old listeners.
- **Frontend worker.** Timers of overlapping inputs. What is queued is replayed at most
  once and in order, and every lock is released.
- **Frames.** Fields of fixed width, counts that wrap, messages that end early. A whole
  frame is read as it was written.
- **SSH.** Look-up, connection and store without a lock; connections that break in the
  middle of a set-up; a deadline that the stream ignores. No channel is
  lost, a client only in a race, and the probe says what it has seen.
- **Risk engine.** Two checks of one command while the rules are replaced. The rules are
  those of one good file; an answer is one that some rules in force give.
- **Confirmations.** Requests arrive while the user reads one. Each has one fate, and a
  click answers what was read.

`PROJECT.json` lists these hazards at the lines where they bite, with the properties
that would show them going wrong. Where the code does go wrong, no property says that it
does not: the note of the hazard and section 4 say what happens instead.

## 2. Modules

Data is abstracted to what the properties tell apart; control is kept. A handler that
holds a mutex or runs in the page's event loop is one action; where the code gives up a
lock, loads a value and uses it later, or calls out, it is several. Variables marked
`history` are read by no action. `X_Something` next to an operator `X` is a faulty
variant of it: a plausible mistake in that code, which the property named in
`PROJECT.json` must detect.

### RingBuffer and ByteStream
`WriteCall`, `TryRead`, `Read`/`Resume` and `Close` are the methods of `buffer.go`.
`data`, `write`, `read` and `closed` are its fields; `pc` and `want` say where each
goroutine in the blocking `Read` is; `left` records that a Read has left bytes behind,
which no Signal announces. `CopyLen` is what Go's `copy` does at the end of
the storage: a slice that reaches past it is cut there. `ByteStream` is the promise to
the router: a FIFO of bounded capacity that accepts nothing once shut, until a step that
visibly gives the promise up. The refinement maps the stream's `lossy` to "some Write
returned ErrBufferFull or some Read ran past the write cursor".
The 64 bit cursors cannot overflow in practice and are naturals.

### SessionRegistry
`Get` and `Attach` are the two halves of HandleReconnect, which holds no lock between
them. cleanup is `CleanupVisit` (GetState), `CleanupLoadStamp` (the argument of
time.Since, loaded without `s.mu`), `CleanupCompare`, `CleanupDelete`. Time is discrete;
`age` is the time since LastActiveAt, saturated above the TTL. `MaxPause` bounds the
ticks during the examination of one session.

### ConnPumps
One connection is `reader` and `writer` (the pumps), `send`/`closed` (the channel), and
`phase` (HandleWS, which blocks on the hub's Register channel). Sends on a closed channel
and a second close set `panicked`, which stops every action, as a panic ends the process.
`HubReceive` and `HubStore` are apart because HandleWS goes on in between. Hub.Broadcast
takes no lock: `todo[b]` is what the Range of goroutine `b` has still to visit, and those of
the router (output frames and slow warnings) and of the signal loop (maintenance frames)
overlap. `ClientOversize` is a message beyond the read limit of `conn.go:36`, on which
ReadMessage fails although the link is up. The Unregister
case of Hub.Run is left out: nothing in the program sends on that channel. The properties
speak of a connection's `Pipeline`: what its client has received, what WritePump holds and
what is in Send, in this order.

### StreamRouter
A round is `AggregateStart`, then for each session `VisitHigh`, `VisitLow` and `VisitRead`,
then `AggregateEnd`. The buffer is the number of bytes in it, and a session may get a new
buffer while the router holds the old one. `PoolGetLen` is 0: `Pool.Get` returns a slice
with capacity and no length. A slow warning is a broadcast, which a full Send channel
drops: that is in ConnPumps, and nothing here says what the clients have been told.

### Multiexec
A call of Broadcast or BroadcastSync (`mode`) goes through `Lock`, then `Get`, `GetState`,
`GetSlow` and `Write` (or the start of a goroutine) for each target, with `SessionChanges`
in between. A session that has left the registry is still held by whoever looked it up, and
may still be active. Slices are references, so `content` may change under a goroutine that has yet
to write.

### Admission
A request goes through `Arrive` (extractIP), `Allow` and `AllowConnection`. The time stamps
of an address are numbers of its grants, whose times are in `granted`. The monitor counts
(`GetCurrentFDUsage`) and judges later (`CheckAndUpdate`). The gate is modelled as
`InitResourceGuard` sets it up.

### Handover
`main` is the goroutine of run(): `TakeSignal`, then HandleUSR2Signal as
`BroadcastMaintenance`, `RangeStart`, `RangeEnd`, `WriteFile`, `CloseListener`, `Listen`.
`server[l]` is the goroutine of listener `l`. `Crash` may come between any two steps and
keeps the two files only. A write that fails may leave the old state file or a cut one.

### EchoLock
Handlers of the worker's event loop. All timers have the same delay and fire in the order
they were set, so `timers` is a queue of which only the head fires. `shown` records the
blocks that went to the page with their frame, `replayed` those that a timer posted.

### FrameCodec
Pure: `Serialize` (which `MaintenanceFrame` repeats), `Deserialize` and `parseFrame` on
sequences of bytes. The number of values of a byte and the widths of the fields are
constants, so that counts and lengths wrap within the reach of TLC; 256, 4 and 2 in the
code. `CopyAt` is Go's `copy` at an offset: what does not fit is left out. Shifts by
bytes and the loops over bytes and blocks are recursive functions.

### Page
Composes `EchoLock` and `FrameCodec` with the confirmation flow: `Receive` is the worker's
onmessage on the bytes of a message; `RequestConfirmation` the page's handler, with the
semantics of a JavaScript Map (an entry is overwritten in its place); `Look` and `Resolve`
are the user's eyes and click, which may be on different requests.

### SSHManager and PromptProbe
Each access of GetOrCreate and Close to the sync.Map, each answer of the host in OpenPTY
and each call into the library is an action of its own. `link` tells a connection that
broke from one that was closed; the manager sees no difference. `PromptProbe` extends it
with ProbeSession on a shell that was opened that way: output comes in chunks that are
cut anywhere, and the deadline is only looked at between two reads.

### RiskGate
LoadRules is `LoadRead` (the file) and `LoadApply` (parse, compile, install). A pattern is
the set of commands it matches, or one that does not compile. handleInput asks twice:
`CheckAndBlock`, `CheckAndConfirm`. `Meaning` is the reference definition of what rules
say of a command; `seen` collects it over the rules in force while a command is handled.

The `MC` modules give the constants their values for TLC.

## 3. Runs

| Run | Instance | Shows |
|---|---|---|
| `buf_stream` | size 3, 2 byte values, slices up to 3, 2 blocking readers, 5 bytes written | `SignalNotLost`, `FIFO`, `EOFMeansDrained`, refinement of ByteStream, `ReadersReleased` |
| `ses_registry` | 1 session, 3 handlers, TTL 3, pause 2 | `OneOwner`, `OnlyOverdueReaped`, `AbandonedReaped` |
| `conn_pumps` | 2 connections, one of which sends an input and may fail or exceed the read limit, channel of 1; 2 broadcasts of the router, or one of it and one of the signal loop | `AnswersExact`, `CastsAccounted`, `PanicNeedsFailure`, `InputsAnswered` |
| `rtr_rounds` | 2 sessions, one with a replaced buffer, size 3 | `HighFlagged`, `LowUnflagged`, `HealthyPolled` |
| `mex_calls` | 2 hosts, 2 callers, 2 calls of either kind, source among the targets, stuck and broken shells, slices used again, 2 changes of sessions | `FIFO`, `SameOrder` of BroadcastSync, `Accounted`, `CallReturns` |
| `adm_gate` | 3 requests, 2 addresses, window 2, limit 2, 4 descriptors | `WindowBound`, `RefusedOnlyWhenFull`, `BreakerFollows` |
| `life_restart` | 2 connections, 2 new processes, 3 signals, 1 crash or failing call | `HandedComplete`, `OneListener`, `UpdateOffered`, `FirstServed` |
| `page_flow` | 2 sessions, 1 socket, 3 frames, 2 inputs, 3 answers; frames of up to 3 blocks with bytes from 0 to 3, and all messages of up to 8 bytes from 0 to 2 | `WireExact`, `ReplayAccounted`, `LocksReleased`, `RequestsAccounted`, `AnswersMeant` |
| `ssh_shell` | 1 host, 2 goroutines, 2 connections, 1 probe, 2 writes of the shell | `OrphanNeedsRace`, `ClosedEntryLeaves`, `ChannelsAccounted`, `VerdictJustified`, `ProbeReturns` |
| `risk_gate` | 2 handlers, 2 loaders, 2 commands, 7 documents, 3 versions of the file | `RulesCurrent`, `VerdictSteady` |
| `life_term` | 2 signals, no fault | violated: `TermShutsDown` |
| `rtr_output` | 2 sessions | violated: `OutputSent` |

`ses_registry` and `adm_gate` check `TypeOK` by itself; in most others it is a conjunct of
one of the invariants, and for the ring buffer and the router the types are proved only. The properties are stated in words above their
definitions. `WireExact` says nothing about states: it compares the parsers with
`Serialize` on all frames and messages of the instance, at once.

**Why the bounds are enough.** Five bytes through a storage of three make both cursors
wrap, at every offset, with the buffer full, empty and in between. Three handlers give a
session an owner who loses it and two who race for it; a TTL of 3 with a pause of 2 leaves
a tick in which a reclaim is early enough. A channel of one message is full after one
broadcast, so both the drop and the blocked answer happen; two broadcasts of one goroutine
could be swapped, and two of different goroutines overlap in every way. A buffer of three has its marks
at 2 and 1, all backlogs lie on, above and below them. Two callers are what
it takes for two hosts to disagree, and two calls with one list of targets interleave in
every way. Window 2 and limit 2 with three requests have
grants at equal times, one exactly a window old, and a refusal between them; with four
descriptors the levels are 0-2, 3 and 4. Three signals give a round that replaces the
listener of another while a process is served, and one lost to the full channel; a single
crash or failure may come at any step. Two inputs let the timer of one fire in the window
of the next; three frames with two sessions have a request replaced by another of its
session while a third waits. With a base of 4, ids use both of their bytes, a count
of three is the largest that does not wrap, and a length may point past the end of a
message at every place.
Two goroutines are enough for every overlap of GetOrCreate, Close and OpenPTY of one host;
hosts do not share anything. Two loaders and three versions let an older file be stored
last. `risk_gate` alone uses symmetry, of handlers and of loaders, which are
interchangeable there and whose run has no liveness property.

`CHECK_DEADLOCK FALSE` stands where the bounds let the system come to rest (all messages
sent, all requests answered, the router stopped) or where a panic stops it.

**Fairness.** Weak fairness of goroutines that can run: a reader whose wait has returned,
the pumps, the hub, the router and cleanup loops with their tickers, the monitor, the main
goroutine and the goroutines of listeners, a probe, the clock that passes its deadline,
and a timer that is set. The Go scheduler and
the event loop of the browser give that. `Lock` of the broadcast engine has strong
fairness, because sync.Mutex hands itself over to a waiter that starves. In the registry
the clock advances. Clients, shells, writers, the network, signals and the process
supervisor owe nothing.

## 4. What the runs found

Two runs check a statement of the repository that the code does not keep
(`findings` in `PROJECT.json` quotes it):

- `life_term`: after SIGTERM the loop of run() goes on, since `break` leaves the switch, so
  "shutting down" is logged and nothing is shut down (`main.go:85`).
- `rtr_output`: the pool's slices have length 0, so the router reads nothing and sends no
  output at all (`router.go:102`).

Met while modelling, and in the models as the code has them, without a run of their own:

- after a 2 byte Write and a 1 byte Read a second goroutine in Read sleeps on, with a byte
  pending, until the next Write or Close, because each Write signals once and a Read does
  not pass the signal on (`buffer.go:51`, `57`, `66`), the exception in `SignalNotLost` and
  `ReadersReleased`;
- a Write that finds too little room copies and advances all the same, so that more than
  the size counts as unread and older bytes are overwritten (`buffer.go:49`); one that
  reaches the end of the storage is cut there with a nil error (`buffer.go:55`); the
  blocking Read copies past the write cursor (`buffer.go:73`); `FIFO` holds until then;
- both pumps close Send, and ConnMap keeps connections whose channel is closed, so that a
  client that goes away, or one that sends a message of more than 65535 bytes over a healthy
  link, can end the process (`conn.go:36`, `56`), the exceptions in `PanicNeedsFailure`;
- two broadcasts of different goroutines may reach two connections in different orders, and
  a full Send channel drops a slow warning as any other broadcast (`server.go:70-79`);
- cleanup may delete a session that was reclaimed in the last moments of its TTL
  (`manager.go:45`), the exception in `OnlyOverdueReaped`; a session that a late Attach
  marks expired is never taken out (`reconnect.go:74`);
- a slow session is not read, so its backlog never falls and it stays slow until it gets a
  new buffer (`router.go:94`), where `docs/性能与容量设计.md:31` has the backlog consumed down
  to the low mark and reading resumed; `LowUnflagged` speaks of a backlog that is low;
- the goroutines of two Broadcast calls may write in either order, and they write the
  caller's own slice (`engine.go:54`, `engine.go:60`), so `FIFO` speaks of BroadcastSync
  only; BroadcastSync waits for a stuck shell with the mutex held (`engine.go:96`), the
  exception in `CallReturns`;
- the monitor cannot count descriptors when none is left (`circuit_breaker.go:64`), which
  `BreakerFollows` excludes; IPv6 peers share the key `[` (`server.go:129`); nothing
  calls `InitResourceGuard` or `SetSessionManager`;
- a SIGUSR2 that finds the signal channel full is dropped; a listener serves one process
  and leaves the next waiting (`graceful.go:131`);
- output of a locked session is queued, and its frame is posted to the page at once all the
  same (`ws.worker.ts:79`), so that a queued block reaches the page twice unless a later
  input throws its second copy away. The comment next to it says "Queue the frame instead
  of delivering" (`ws.worker.ts:71`), and `docs/执行与编排协议.md:89` wants such output held
  back during the window. `ReplayAccounted` states what the code does: `queued` is part of
  `shown`; the timer of an earlier input ends the window of a later one (`ws.worker.ts:39`);
- the first default rule has a look-ahead, which Go's regexp does not know, so that no
  default rule is ever loaded, and init drops the error (`risk/engine.go:158`,
  `server.go:86`). The comment of AddDefaultRules says that it "loads the default risk
  rules" (`risk/engine.go:153`), and `docs/方案.md:443` has destructive commands blocked;
  until a rule file has been loaded none is. `RulesCurrent` claims nothing for that time; a
  command that needs
  confirmation is let through with a message (`server.go:103`), and resumed connections
  are not checked at all (`server.go:170`); an unknown action hides later rules; an object
  with an empty list is an error where an empty array clears the rules; rules that turn
  from "confirm" to "block" between the two checks let the command pass, the exception in
  `VerdictSteady`;
- two GetOrCreate, or two Close, of one host at once may lose a live client
  (`ssh/manager.go:34`, `55`), the exception in `OrphanNeedsRace`; a client whose
  connection broke is handed out for ever, and nothing starts keepaliveLoop;
- a probe of a silent shell never returns, because the stream ignores deadlines, where
  `docs/执行与编排协议.md:77` has it end in time as "unknown", which `ProbeReturns` excludes;
  its verdict depends on where the network cuts the output;
- the session count is a uint8: a round with 256 sessions sends nothing, one with more loses
  all but the first few (`router.go:113`); `WireExact` is about frames whose count has not
  wrapped, `FramesArrive` shows what becomes of the others;
- a message that ends inside a block is rejected, by `Deserialize` with an error and by
  `parseFrame` with null (`parser.ts:39`), where `docs/API设计.md:97` wants the incomplete
  buffer kept and joined with the next fragment; `WireExact` says nothing of such messages,
  and `CutFrames` proves the rejection; a resize frame has no
  length field, so that no parser of the repository reads it (`ws.worker.ts:17`);
- the page reads the slow flag from a field that does not exist (`App.vue:62`) and ignores
  output messages; of a confirmation frame only the first block is used, and the gateway
  sends none; a request that another of its session overwrites is never answered
  (`risk.ts:21`); a second click answers the next request (`ConfirmModal.vue:36`), the
  exceptions in `AnswersMeant`.

## 5. Proofs

| Module | Theorem | For every |
|---|---|---|
| `RingBuffer_proofs` | `TypeCorrect`, `SignalsAreNotLost`, `FIFOCorrect`, `EOFCorrect`, `Refinement` | size, byte set, slice lengths, set of readers, number of bytes |
| | `RouterTypeCorrect` (StreamRouter) | set of sessions, size, number of buffers of a session |
| `SessionRegistry_proofs` | `TypeCorrect`, `OneOwnerCorrect`, `CleanupCorrect` | set of sessions and handlers, TTL, pause up to the TTL |
| `Gateway_proofs` | `TypeCorrect`, `WindowCorrect`, `RefusalCorrect` | set of addresses and requests, window, limit, descriptor limit, clock bound |
| | `ListenersDoNotLeak`, `HandoffsComplete` (Handover) | set of connections and new processes, number of signals, crashes and failures |
| `ConnPumps_proofs` | `AnswersAreExact`, `CastsAreAccounted`, `PanicsNeedFailures` | set of connections and of broadcasting goroutines, capacity of Send, number of inputs and broadcasts |
| `Multiexec_proofs` | `TargetsAccounted`, `SyncInOrder`, `ShellsAgree` | set of sessions and callers, lists of targets, number of calls and of changes |
| `PromptProbe_proofs` | `OrphansNeedRaces`, `ClosedEntriesLeave`, `ChannelsAreAccounted`, `VerdictsJustified` | set of hosts and goroutines, number of connections, output of the shell, number of probes |
| `RiskGate_proofs` | `CheckMeaning`, `RulesAreCurrent`, `VerdictsSteady` | set of documents, commands, handlers and loaders, number of edits |
| `Page_proofs` | `ReplaysAreAccounted`, `RequestsAreAccounted`, `AnswersAreMeant` | set of sessions, sockets and messages, number of frames, inputs and answers |
| | `ParsesExactly`, `CutFrames`, `FramesArrive`, `NothingInvented`, `WireIsExact` | number of values of a byte, width of ids and lengths, message, frame whose ids and lengths fit |

The router's proofs are in one module with those of the buffers it polls, and those of the
restart with those of admission; hence the names `RouterSpec` and `HandoverSpec` of their
specifications, and `RingSize` for the router's BufferSize.

Assumptions are those named in the modules: sizes and limits are positive, bounds are
natural numbers, slices given to TryRead are no longer than the storage (after an overflow a
longer one would index out of range; the router's have at most 4096 bytes), `MaxPause` is at
most the TTL, there is a host and a command (without one the functions that start at "some
host" and "some command" would have no type), a request that arrives is one for a session
(`WireAssumption`), and the blocks of `WireExact` have ids and lengths that fit their fields
(`SampleAssumption`; ids are uint32 in the code, and a block of the router has at most the
4096 bytes of a slice of the pool). No assumption bounds a set, except where the code does.

Each theorem about a run's property follows from one inductive invariant per module, `Inv`
or the named ones below, of which the property is a part.

- **Ring buffer.** `FIFO` is inductive together with the types; `EOFMeansDrained` needs
  `EOFInv` (after EOF the buffer is closed, and drained unless a loss came first), since
  only a closed buffer stays drained. Below it lie lemmas on remainders: consecutive
  positions are consecutive slots until they wrap (`ModShift`, `ModWrap`), and
  positions less than a size apart are in different slots (`ModDistinct`), so that a write
  into the room never touches an unread byte. `SignalNotLost` is inductive with the types:
  a reader begins to wait on an empty buffer only, and the Write that fills it wakes one.
  `Refinement` maps each action to a step of
  ByteStream or a stutter under that invariant.
- **Registry.** `OneOwner` is inductive with the types. `OnlyOverdueReaped` needs
  `SweepInv`, which says for each step of an examination what may have happened since it
  began: no later than `pause` ticks ago the session was detached, so a reclaim is at most
  that old; a loaded stamp that is not the session's own any more is too young to be
  overdue, unless the reclaim was in the last `MaxPause` ticks of the TTL.
- **Admission.** `WindowBound` speaks of all grants, the limiter counts those it keeps.
  The invariant connects them: kept ones are grants (`KeptGranted`), grants are in order of
  time (`InOrder`), and those not kept have left the window (`ForgottenExpired`). A grant
  with `Max` predecessors in the window would then find `Max` kept (`RoomInWindow`).
- **Connections.** All three properties rest on `Healthy`: while the link is up and no
  oversize message has come both pumps are in their loops, so nobody closes Send and
  WritePump drops nothing. Then every step
  leaves a pipeline (received, in the writer's hands, in Send) as it is, or appends one
  message (`PipeCases`, from the lemmas `PipelineAppend`, `PipelineTake` and
  `PipelineWrite`). An answer is newer than the answers there, because inputs are handled
  in order; a broadcast is newer than those of its goroutine there, because a connection
  that is still to be visited has not got the goroutine's present one (`Fresh`). Of the
  broadcasts of two goroutines no order is claimed.
- **Router.** Only the types are proved: the backlogs stay within the capacity and the
  buffer in the router's hand is one of the session it visits, whatever is replaced
  meanwhile. What the marks and the flag owe each other is liveness.
- **Broadcast engine.** Every step of Next is one of ten effects (`StepCases`): a target
  is skipped, checked, failed, handed to a goroutine, delivered, and so on. `Accounted` is a balance
  (`Balance`) that each of them keeps; it needs to know where loops and goroutines can be
  (`Loops`, `Goroutines`), and lemmas on how the cardinality of the set of arrivals changes
  when one input is appended. `FIFO` needs who owns which call and slice (`Owners`,
  `Slices`) and that a slice is not used again before its call returns (`InputsHeld`).
  `SameOrder` is not inductive: what carries it is that `e.mu` is held for a whole call, so
  that a call whose input is followed by another's is over (`Ended`), and gets no
  further input anywhere.
- **Graceful restart.** `OneListener` becomes inductive with one fact: between the close of
  the old listener and the opening of the new one none is open. `HandedComplete` speaks of
  processes that were served, with gm.state of that moment, perhaps of a later round; the
  proof needs that gm.state only grows within a process (`Collected`), so that whoever
  waits at a listener will do with any later one (`Promised`).
- **SSH.** What the goroutines hold makes the properties of the map inductive: a client
  that is to be stored is in no other hand (`FreshOnce`), one whose entry is to be deleted
  is closed (`DeletesClosed`). Unless calls of a host have overlapped, no second call of a
  kind is under way (`Alone`), so that what a call has found in the map is still so when it
  stores or deletes (`LookupHolds`).
- **Probe.** `VerdictJustified` needs only that a shell that is being set up has no probe.
- **Risk engine.** `CheckMeaning` shows that the scan of Check finds what the declarative
  `Meaning` says, with the least match from the well-foundedness of the numbers. Unless two
  LoadRules have overlapped, what one has read is no older than what was loaded last
  (`LoadsInTurn`), and from the first good load on what is in force is a good document
  (`InForce`); a handler's first question leaves a trace of what it learnt (`Asked`).
- **Page.** Frames are numbered as they come. `ReplayAccounted` needs that nothing queued is
  newer than the last frame (`BlocksOld`), so that a new block goes behind all others, and
  that there are no more timers than inputs. For the requests the same (`RequestsOld`), and
  that those on their way are in order and newer than all that have come to the dialog
  (`Waiting`): then one that overwrites an entry is later than it, and none comes twice.
  `AnswersMeant` speaks of clicks that have been made; what makes it inductive is what the
  dialog shows before the click (`InMind`): the request that was read last, or a later one
  of its session in the same place, until a click with it in mind.
- **Frames.** What a recursive function computes for every input takes an induction over
  numbers. The library's induction theorems have a predicate as a parameter, which the
  provers cannot instantiate, so it is stated for sets (`SetInduction`, from the
  well-foundedness of the numbers), and so is recursion (`Recursion`: a function with a
  first value and each value from the one before exists). With these the loop of the parser
  is shown to succeed exactly if the blocks fit, each where the one before ends (`Offsets`,
  `LoopOffsets`, `LoopSucceeds`), which is `ParsesExactly`; a beginning of the message has
  the same fields where it has them at all (`SameFields`), which gives `CutFrames`.
  `Serialize` writes each block at the end of the one before and touches nothing else
  (`PutBlockIs`, `SerializeIs`). The fields match because writing a number and reading it
  back are inverse, both ways (`UintOfPut` for a number that fits, `PutOfUint` for any
  bytes): one direction is `FramesArrive`, the other `NothingInvented`, and `WireIsExact`
  puts both together for the frames whose count has not wrapped.

The inductive invariants were checked by TLC on the instances of the runs before they were
proved.

Only model-checked: the liveness properties (`ReadersReleased`, `AbandonedReaped`,
`InputsAnswered`, `HighFlagged`, `LowUnflagged`, `HealthyPolled`, `CallReturns`, `BreakerFollows`,
`UpdateOffered`, `FirstServed`, `LocksReleased`, `ProbeReturns`). They rest on fairness and
on which actions are enabled, which the prover does not reach. Every invariant, action
property and refinement that a passing run checks is also proved.

## 6. Not modelled

- Diff engine and audit: no caller in the program, and no state but log files; what they do
  is regular expressions, hashes and compression of a library. (The name of a command log
  has a resolution of one second, so that a second command of a session within it replaces
  the log of the first: `audit/service.go:79`.)
- Configuration and metrics: values read once, and counters of a library.
- Selection of sessions, the terminal store and Terminal.vue: single assignments in one
  event loop and rendering.
- WaitForHandoff, CircuitBreaker.Stop, keepaliveLoop, cancelConfirmation, the Unregister
  case of Hub.Run: no caller. The start-up checks of Guard: they only read limits.
- The composition of StreamRouter and ConnPumps: the router sends no output at all
  (`rtr_output`), and its warnings reach the clients as any broadcast in ConnPumps does.

## 7. Plan

The safety part is complete for the modules there are. What is left would be new models:
the composition of StreamRouter with ConnPumps once the router sends output, the resumed
connections with the risk check once they have one, and the audit and diff engines once
the program calls them. The liveness properties wait for a prover of fairness; their safety
parts (which states can follow a request) are in the invariants above.
