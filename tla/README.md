# Glutton in TLA+

Glutton is a honeypot: iptables TPROXY rules redirect all TCP and UDP traffic to
two local listeners, the first matching rule of `rules.yaml` picks a handler, and
the handler talks to the client, records what was said and hands the record to the
producers. This project models the parts of it whose correctness depends on the
order in which goroutines, peers, timers and signals act, checks the models with TLC
on small instances, and proves with TLAPS, for every size, the safety properties of
every modelled part.

- [Inventory](#inventory)
- [Modules and the code](#modules-and-the-code)
- [Runs](#runs)
- [Proofs](#proofs)
- [Where code and documents disagree](#where-code-and-documents-disagree)
- [Known behaviour that no run singles out](#known-behaviour-that-no-run-singles-out)
- [What is not modelled](#what-is-not-modelled)
- [Plan](#plan)

## Inventory

| Component | State it keeps | Operations | What is hard | What makes it correct |
|---|---|---|---|---|
| Process lifecycle (`app/server.go`, `glutton.go`, `server.go`) | main's position, the context, the Shutdown in progress, the ID file | makeID, config, listeners, Init, Start, signal, Shutdown, exit | two goroutines may run Shutdown; main ends the process when `udpListen` returns; kills and restarts | a signal ends the process; finished Shutdowns leave no rule; the sensor keeps its ID |
| iptables (`iptables.go`) | the kernel's TPROXY rules | append if absent, delete one | survives the process | one deletion undoes every start before it |
| Listener loops (`glutton.go`) | the UDP buffer, the context | accept/read, match, register, start handler | handlers of all flows share the table and, for UDP, one buffer | a flow is described by recent metadata of its own endpoint; only proxy rules forward; while the process lives every handled packet is reported |
| Connection table (`connection/connection.go`) | source endpoint to Metadata, ticker | Register, Get, FlushOlderThan | key reuse, flush at the age limit, late flushes | bounded age, entries never change while young |
| Rules (`rules/rules.go`) | the compiled list | Match, first wins | none (pure) | modelled as an ordered list inside Dispatch |
| Catch-all TCP (`protocols/protocols.go`, `peek.go`) | two layered `bufio.Reader`s | peek 4, classify, peek 16, hand over | peeked bytes must come back in order; short or silent clients | the chosen handler sees the stream from its first byte |
| Generic TCP (`protocols/tcp/tcp.go`) | the bytes read | read loop, reply, store, produce | limit checked after a full read | bounded memory, always reported |
| HTTP handlers (`protocols/tcp/http.go`, `ethereum_rpc.go`, `protocols/spicy/handlers/http.go`, `spicy/helpers.go`) | the request read so far | read head and body, produce, answer, dial out | layered readers, segments, pipelining, stalls, a deadline left behind by Peek | reported exactly when head and announced bytes were read, before it is answered; JSON-RPC answers match their messages |
| Conversational and one-shot handlers (`protocols/tcp/*.go`) | record of the dialogue, read buffer | read, parse, note, answer, produce | many early exits; records alias the buffer; pipelining | the record is produced once and agrees with the dialogue |
| TCP forwarder (`protocols/tcp/proxy_tcp.go`) | two sockets, two copies, a channel, a watcher | dial, pipe x 2, half-close, cancel, produce | five actors over two sockets | nothing lost or cut short, counts and samples exact, everything released |
| UDP handler (`protocols/udp/udp.go`) | none | store, produce | reads a shared buffer late | reported once; its bytes may be another packet's, see [known behaviour](#known-behaviour-that-no-run-singles-out) |
| Spicy bridge (`protocols/spicy/parser.go`) | one worker, reply channels, C memory | Initialize, Parse, Cleanup | timeouts race replies; stalls; C memory freed by hand | freed exactly once; a Parse the worker accepted returns |
| Payload store (`protocols/helpers/helpers.go`) | files named by hash | look, create, write | concurrent Stores of one payload, disk errors, kills, a buffer that changes meanwhile | a file holds what its name says; once stored it stays |
| Producers (`producer/producer.go`) | the hpfeeds channel, the HTTP client | encode, send, POST | a stuck publisher, an encoding error, a POST whose answer is lost | at most once to each sink; a slow sink does not hold handlers |
| Logging, scanner, monitor, codecs | - | - | - | see [What is not modelled](#what-is-not-modelled) |

They interact by calls (listener to rules, table and handlers; catch-all to Spicy and
to other handlers), by shared state (the table, `g.ctx`, the UDP buffer), by channels
(pipe results, Spicy commands and replies, hpfeeds events, signals) and through the
kernel (sockets, iptables, files). The hazards are listed one by one, with the line
where each bites, in `PROJECT.json`.

## Modules and the code

**ConnTable** - `connection.go`. `table` is the map with the zero Metadata for absent
keys, `pending` the one tick `ticker.C` can hold. `Register`, `FlushOlderThan` and
`Get` each run under the mutex, so each is atomic. Time is an integer; `Advance` may
not pass a tick, and `MaxLag` bounds how late the flushing goroutine runs.

**Dispatch** - extends ConnTable with `tcpListen` and `udpListen`. A step ends where
the loop blocks or touches the table: select, accept or read, register and dispatch.
`conns` and `packets` keep every flow with the Metadata it was given. A handler is what
it does with the Metadata (events, in any number for the handlers that report per
message; the upstream dialled) and, for UDP, its two reads of the slice. A rule is the
set of (network, port) pairs its expression matches. `UDPReadFails` is the read error
that is logged and then dereferences a nil address, `PanicTCP` a handler's panic, and
`ProcessEnds` the return of `Start` and `main` once `udpListen` has returned; each
stops all handlers where they are.

**ProxyTCP** - one session of `HandleProxyTCP`. `hpc`, `ppc` and `wpc` are the
program counters of the handler, the two pipe goroutines and the watcher. A byte is
its position in the stream; a chunk is any part of what is available. Socket state
is `fd` (open, closed), `readShut`/`writeShut` (half-closes), and the far end's
`sent`/`fin`/`rst`. The deferred calls are the handler's last steps in their order:
stop the watcher, close the target, produce, close the client.

**Relay** - what the forwarder promises: two directions that deliver, count and break
off by themselves, a verdict for each ("complete" only if everything sent was
delivered and counted, "failed" only after a reset), and one report that nothing
contradicts later. ProxyTCP implements it: `ImplementsRelay` is `Relay`'s `Spec` under
the mapping `R`, in which a direction is broken once its `io.Copy` has returned and
has its verdict once its pipe has sent its result.

**TCPRoute** - the `"tcp"` closure, `HandleTCP`, and both HTTP handlers over one
connection. `outer` is the buffer of the first Peek (or of the Go HTTP handler's
reader), `inner` that of the second Peek or of the Spicy HTTP handler's reader;
`FillInner` moves bytes from one to the other. The parser's verdict is a free choice;
`stuck` is a Spicy worker that will take no more commands, which leaves a Parse, and
its connection, waiting (`ParseBlocked`). A request is `HeadLen` bytes and what its
Content-Length announces, chosen when the head is complete; `chunked` marks one whose
body is in chunks, which neither handler reads, and `panicked` a Content-Length above
`MaxAlloc`, which the Go handler cannot allocate. The event of `HandleTCP` has the
entries of `server.events` in their order: `sendRandom`'s reply, then what was read.
`relay` records that a goroutine was started on a dialled connection; that goroutine is
another `HandleTCP`.

**HTTP** - pure operators for the above: which reply each handler gives, and
`handleEthereumRPC` with its loop turn by turn (`answerMessage`).

**Handlers** - the loops of sip, rdp, bittorrent, smb, mongodb, ftp, telnet, mqtt,
memcache, iscsi and smtp, and the single exchanges of adb, jabber and rfb, over one
connection. They share `Read`, `Message`, `WriteOK`, `WriteFails` and `Return`;
`Message` is one disjunct per handler. `cells` is the
content of the shared read buffer: an entry that is a slice of it is resolved when the
record is produced (`encoded`), not when it is noted.

**SpicyWorker** - Parse, Cleanup and the worker goroutine. `worker` names whom it
works for; `mem` is the life of each C result; `drainer` the goroutines left behind
by timeouts. `WorkerStalls` is a C++ parser that never returns.

**Lifecycle** - main through makeID, configuration, listeners, Init and `Start`, the
signal goroutine, `Shutdown`, `Kill` and `Restart`, over the number of copies of each
iptables rule and the sensor's ID file. `Torn` is an ID file created and not written.

**Reporting** - the end of every flow: `helpers.Store`, then `ProduceTCP`/`ProduceUDP`
and the Producer. Flows share the payload directory, the hpfeeds publisher and (UDP)
the receive buffer. A payload stands for its hash and is written in two pieces, so
that a torn or mixed file can be told from a whole one. `spoiled` remembers files
whose Store met a kill, a disk error or an overwritten buffer, which is what
`StoredIntact` excepts. `GetSample` is Telnet's download, which only stores.

MC modules only give constants their values. `map` in `PROJECT.json` names the lines
behind every definition. Operators called "Mutant" are plausible bugs of the
definition they precede; replacing the definition by one must violate a property.

## Runs

| Run | Question | Bounds |
|---|---|---|
| `proxy_capture` | Does a session implement `Relay`, do counts and samples agree, is everything released, under every interleaving? | 2 bytes from the client, 1 from the target, cap 1: several chunks, partial writes and the cap are all reached; sessions with and without a target |
| `proxy_ends` | Does a session end by idle timeout or cancellation, and its watcher with it? | 1 byte one way, so one pipe can block in Write while the other blocks in Read |
| `dispatch` | Whose metadata does a flow get, who is forwarded, how old can an entry get, can a young one change, is every handled packet reported, and does cancelling end the UDP loop? | any 2 flows, TCP or UDP; one IPv4 and one other source; a port that the proxy rule matches (for UDP too) and one that another rule matches (none for UDP); TTL = Period = 1, clock to 3: an entry is flushed and made again, and a second packet overwrites the buffer under the first's handler |
| `lifecycle` | Cleaning, termination and the sensor's ID over kills, failed starts and restarts | 3 starts of the process, with and without Spicy |
| `spicy_worker` | C memory, blocking and termination around the worker | 3 parses, 2 cleanups |
| `tcp_route` | Stream integrity, memory bound, reports, JSON-RPC answers and termination of the catch-all and the HTTP handlers | sizes scaled down keeping their order: peeks 1 and 2, buffer 4, read 3, maximum 3, head 3, body up to 3 with the Spicy cap at 2, and a Content-Length of 4 that cannot be allocated, up to 8 bytes, so that a pipelined request follows; batches of up to 2 messages |
| `handlers` | Records and ends of the fourteen handlers | 6 units, buffer of 2, so the buffer is filled and overwritten; DATA limit 2, so it is reached |
| `reporting` | Are stored files what their names say, is no event delivered twice and no encodable one missed, and who can hold a handler? | a TCP session and a UDP packet with the same bytes and a Telnet sample, one kill and restart, three configurations of the sinks |
| `dispatch_upstream`, `lifecycle_rules`, `tcp_route_stream`, `reporting_sinks` | what a document says and the code does not do | see below |

Deadlock checking is off where the system may stop: `dispatch*` (the bound on flows is
used up, or the process has ended), `lifecycle*` (the process ended for the last
time), `reporting*` (all flows have ended) and `spicy_worker` (all callers are done, or
wait for ever as described below).

*Fairness.* Weak fairness of goroutine steps: the Go scheduler runs what can run.
A step that needs a deadline is part of those steps because the code sets one
(`SetReadDeadline` before each read, `time.After` in Parse). In `ProxyTCP` nothing
is assumed of the far ends or of cancellation, and a session without an idle timeout
has no timeout steps. In `Dispatch` nothing is assumed of `Accept`, nor of
TCP handlers: neither a blocked `tcpListen` nor a handler is required to end. In
`TCPRoute` a Parse is taken by the worker only while that is not `stuck`, and nothing
ends the wait otherwise. In `SpicyWorker` the send on the unbuffered
channel is strongly fair, since Go queues blocked senders in order; the send itself
has no timeout. In `Lifecycle` nobody has to send a signal. In `Reporting` the HTTP
client's timeout makes `HTTPFails` a step that is always taken in the end, while
nothing is assumed of the collector; the hpfeeds publisher goes on or is stuck, and
`FlowsEnd` says who then waits.

## Proofs

Each theorem is for every value of the constants that the named assumptions allow,
while a run is for one choice of them. A `*Invariance` theorem states the
inductive invariant of its module, and the others follow from it. TLC confirmed each
of these invariants on the instances of the runs before it was proved.

| Module | Theorems | For every |
|---|---|---|
| `ConnTable_proofs` | `CTInvariance`, `CTTypeCorrect`, `EntryAge`, `EntriesStable` | set of keys and rules, all times |
| `Dispatch_proofs` | `DInvariance`, `ListenersUseTable`, `ListenersEntryAge`, `ListenersEntriesStable`, `DispatchTypeCorrect`, `MetadataRecent`, `OwnRuleForwards`, `FinalReportsOnce` | rule list, sources, ports, number of flows |
| `ProxyTCP_proofs` | `SessionInvariance`, `SessionTypeCorrect`, `SessionCounts`, `SessionStaysOpen`, `SessionReleases`, `SessionCapture`, `RefInvariance`, `SessionImplementsRelay`, `SessionNeverWaitsInVain`, `SessionRunsOut` | session configuration, cap, number of bytes |
| `TCPRoute_proofs` | `RInvariance`, `RouteTypeCorrect`, `RouteStreamIntact`, `HTTPReportedAsAnnounced`, `BatchesAnswered`, `RouteRunsOut`, `RouteNotStuck` | sizes of peeks, buffers, reads, heads and bodies, any segmentation, JSON-RPC batches of any length |
| `Handlers_proofs` | `HInvariance`, `HandlersTypeCorrect`, `SessionReportedOnce`, `RecordAgrees`, `LastReadReported`, `SessionRunsOut`, `SessionNeverStuck` | buffer size, SMTP and Telnet limits, number of messages, any cuts |
| `SpicyWorker_proofs` | `WInvariance`, `WorkerTypeCorrect`, `ResultFreedOnce`, `WorkerNeverBlocks`, `WaitersAreAnswered` | number of callers |
| `Lifecycle_proofs` | `LInvariance`, `LifecycleTypeCorrect`, `ShutdownCleans`, `SensorIDStays`, `ShutdownsNeverStuck` | number of starts |
| `Reporting_proofs` | `RpInvariance`, `ReportingTypeCorrect`, `PayloadsIntact`, `EventsDeliveredOnce`, `StoredStays`, `FlowsHaveFewSteps` | flows, payloads, configurations, kills |

### The connection table

`ConnTable_proofs` proves, for every set of keys and rules and all times,

- `CTTypeCorrect`: `CTSpec => []CTTypeOK`;
- `EntryAge`: `CTSpec => []EntryAgeBounded`, no entry outlives TTL + Period + MaxLag;
- `EntriesStable`: `CTSpec => EntryStable`, only a flush of an entry older than TTL
  changes one.

The bound on an entry's age is not inductive: nothing in it prevents time from
running on. `CTInv` adds that the clock never passes the next tick, nor the lag
allowed to a pending flush (`ClockOK`), and that what is in the table was young enough
for the last flush (`NothingOld`). Assumed: `NoRuleAssumption`, `PortsAssumption` and
`TimesAssumption` (a positive period longer than the lag).

### The listeners

`Dispatch_proofs` first shows `DSpec => CTSpec` (`ListenersUseTable`): every step of
the listeners and their handlers is a step of ConnTable or leaves the table alone.
The bound on an entry's age and its stability are thus theorems about the running
sensor too. The rest needs `DInv`. `MetadataFromRecentFlow` speaks of metadata that a
flow already has; what a later flow will get is in the table, so `OwnerInv` traces
every table entry as well to the flow that registered it, which must still be on
record. `LoopInv` says that between accepting and registering a flow has no metadata,
`ForwardInv` that only its own rule took a connection to the forwarder, `EventInv`
what an event may say. Assumed, besides those of the table: `SourcesAssumption`,
`RuleListAssumption`, and `FallbackAssumption`, that the two synthesized rules are
among the rules.

`FinalReportsOnce` is the safety half of `PacketsReported`: a packet has one event once
its handler is through and none before; the forwarder's event, which a connection has
at most once, comes only with its end. The other TCP handlers may report any number
of times, and of them it says only that a connection without a handler has no event. It
needs that the flow a listener hands over has no handler yet (`HandoverInv`), or a
dispatch could start a second one.

The proof attempt corrected one property. `OnlyProxyRulesForward` used to ask that a
forwarded connection's rule be of type `proxy_tcp`. That is not so for every rule
list: the loader accepts a `conn_handler` rule whose target is `proxy_tcp`, which
selects the same handler. The property now says that the rule's handler name is
`proxy_tcp`, however the rule came by it.

### The TCP forwarder

`ProxyTCP_proofs` proves, for every session configuration, every cap on the samples
and any number of bytes,

- `SessionTypeCorrect`: `Spec => []TypeOK`;
- `SessionCounts`: `Spec => []CountsAgree`;
- `SessionStaysOpen`: `Spec => []OpenUntilBothDone`;
- `SessionReleases`: `Spec => []ReturnReleasesAll`;
- `SessionCapture`: `Spec => []CaptureIsPrefix`.

All but the last follow from one invariant, `IInv`, in four parts: types; `CountInv`
(until a copy ends, what was read is counted or still in the buffer; a failed write
breaks this and ends the copy, after which only the order of the counters remains);
`ControlInv` (what each state of the handler says of the pipes and of the results on
their way: while it receives, results sent plus results taken equal the pipes that
exited, which is why it can stop at two); and `SocketInv` (before the handler unwinds
only the watcher closes sockets, and only after a cancellation). Types need the
rest: that the event is a sequence of captures relies on there being no or two results,
and that a sample is a sequence of positions on the buffer not exceeding what was
read. `SessionCapture` is proved on top: only a completed Write changes a sample
or a count (`SampleFrame`), and `storePayload` extends the prefix up to the cap
(`StorePayloadExtends`). Assumed: `SessionsAssumption` and `MaxBytesAssumption`.

The same module proves `SessionImplementsRelay`: `Spec => ImplementsRelay`. Under
the mapping, what a far end does is `Relay`'s `Sends`, `Finishes` or `Resets`; a
successful dial is `Connect`; a completed `Write` is `Deliver`; every way for
`io.Copy` to return is `Break`; sending the result is `Judge`; producing is
`MakeReport`; all other steps stutter. The hard steps are `Judge` and `MakeReport`,
which `IInv` alone does not support, since it does not say why a copy ended. `RefInv`
adds that: a half of a socket is shut only by the pipe that is done with it
(`ShutInv`), so a pipe that meets the end of a stream has met its sender's
(`CompleteInv`) and an unexpected error can only be a reset (`FailedInv`); and each
result is the final account of an exited pipe, with no pipe sending two
(`ResultInv`), so the report is of both directions.

Two more theorems carry the part of `CancelEndsSession`, `IdleSessionEnds` and
`WatcherExits` that needs no fairness. `SessionNeverWaitsInVain`: whoever waits waits for
someone who can still act. A pipe finds room for its result; while the handler waits
for results one is there or a pipe still runs, and until then a cancellation is
listened for, being carried out, or has closed both sockets; a watcher left when the
handler unwinds has been told to stop. `WatchInv` strengthens it with the order of
telling the watcher and receiving. `SessionRunsOut`: each step of one of the four
goroutines lowers `SessionWork`, which counts bytes a far end may still send, chunks
to write and control states to go through, and neither a far end nor a cancellation
raises it. So a session cannot go round for ever without consuming input.

### The catch-all, HandleTCP and HTTP

Bytes are positions, so `RunInv` can say all that matters about buffers at once: what
was read, the second buffer and the first are three runs of consecutive positions,
cut at two points; the fallback alone has the second buffer's run in front of its
own, which is the loss that `tcp_route_stream` shows. Filling, moving and reading
move a cut (`RunCut`, `RunConcat`), and `StreamIntact` joins the runs. For the
requests, `HTTPInv` says how much was read in each state; that a body is unfinished
in state "body" is what tells a dropped connection from a request read to its announced
end. `SizeInv`
needs the bound `MaxPayload` while HandleTCP reads on, to give `MaxPayload + ReadSize`
at its end. Assumed: `SizesAssumption`.

`BatchesAnswered` proves `EthereumAnswers` for batches of any length. What a recursive
function computes needs induction, and the library's induction theorems cannot be
used, since they take a predicate as parameter. A set can take its place: a set of
numbers that contains 0 and with each number the next contains all of them
(`SetInduction`), which follows from the well-foundedness of `<`, stated without such
a parameter. With it the loop of `handleEthereumRPC` is shown to exist as a function
of the number of turns, and after each turn its responses answer exactly the known
messages among those dealt with, each at the place that its rank among them gives
(`Answered`). `EthInv` adds that a reply is made once, for the request at hand.

`RouteRunsOut` gives the variant behind `RouteEnds`: `RouteWork` counts each byte once
for every buffer it has still to pass, so that no turn of Peek's loop, of HandleTCP's or
of the body's leaves everything where it was. `RouteNotStuck` says that in each control
state some step's guard holds, `ParseBlocked` apart: a fill has room for what it reads,
and a loop over the request has something left to read.

### The conversational handlers

`HInv` has one part per property, about the handlers that property is about, and each
part is preserved on its own once the types are known:

- `TypeInv`: who uses which stage and which counter; SMTP's count of lines stays
  positive while its data loop runs, which is what its type rests on.
- `BufferInv`: what was just read is at the front of the read buffer, each entry that
  is a slice of the buffer fits in it, and handlers without such a buffer note copies
  of what was read. A report resolves slices at that moment, so the entry of the last
  message gets the front of the buffer back, which is `ReportsLastRead`; an earlier
  entry gets whatever its cells hold by then, and nothing is said of it.
- `OnceInv`: before they read, ADB and Jabber have taken nothing, so what they report
  begins with the first unit; a deferring handler reports in `Return` only.
- `ReplyInv`: `RepliesRecorded` by control state. A handler that notes first is one
  reply ahead exactly while it writes and owes exactly one; the others are never ahead.
- `DataInv`: SMTP's reports are in order and of lines up to `Position`, the line before
  the one at hand, and the last `MaxDataRead + 1 - dataLeft` of them are the lines
  just before it (`Block`). The bound on what was produced is what makes the
  order inductive.
- `TranscriptInv`: MongoDB's record is one message behind while one is at hand, and
  complete when it reads or writes; for Telnet and FTP no entry is later than what was
  taken.

The number of entries is a cardinality of index sets (`Said`, `Replied`), not
the length of a selection, so that one lemma about adding an entry (`WithAppend`) serves
all of them. Assumed: `HandlerBounds` (a buffer and Telnet's replies of at least one,
the limits natural numbers).

`SessionRunsOut` and `SessionNeverStuck` stand behind `SessionEnds`. `Work` counts the
units the client may still send and the lines at hand, weighted by the replies one of
them can cause, and every step of a handler lowers it: no dialogue goes round
without a read. That some step is possible until the session has ended means that
every message is one its handler has a case for, in whatever stage it is.

### The Spicy worker

`ResultHasOwner` says who frees an allocated result; `WInv` adds who will, before it
exists: while the worker is at a command its reply channel is empty and either the
caller waits or the goroutine it left behind does, never both (`AnswerAwaited`).
`WorkerNeverBlocks` gets from the same facts that the channel's capacity of one
suffices. `WaitersAreAnswered` says that whoever waits on a reply channel, the goroutine
left behind included, finds the reply there or the worker at its command, unless a C++
parser has stalled; a Cleanup whose command got through is never left waiting.
Assumed: `CallersAssumption` and `NamesAssumption` (no goroutine has the
name of one of the worker's own states).

### The process

`SensorIDKept` needs to know that makeID stands between creating and writing the file
exactly when the file is torn (`IDInv`). `CompletedShutdownCleans` needs that there is
never a second copy of a rule, that a process that waits or has failed installs none,
and which rules a Shutdown under way has already deleted (`RuleInv`), whichever
goroutine runs it (`ShutdownInv`, `ExitInv`). Assumed: `MaxRunsAssumption`.

Main and the signal goroutine may both be in Shutdown, and only one of them gets its
Cleanup through to the Spicy worker. `ShutdownsNeverStuck` says that this is harmless:
after a signal or a failed Start a Shutdown is under way, and one that waits for a
worker that is gone is not alone, the other having finished and being about to end the
process. `CleanupInv` adds that the worker is gone only once somebody has finished.

### Storing and reporting

A file being written by several Stores is neither whole nor stable, so `StoredIntact`
alone is not inductive. `FileInv` says, of a payload no Store of which was disturbed:
a piece of its file is right or missing, and a missing one has a writer that has not
passed it yet. The last writer therefore leaves the file whole, also when a
second `Create` truncated it half way. `EventInv` says how far each event has got in
each control state, which gives `DeliveredOnce`: no event twice, and none missed that
needs no encoding or can be encoded. `FlowsHaveFewSteps` is the variant behind
`FlowsEnd`: a flow's own steps lead down a ladder of ten rungs, and no other flow, packet,
publisher, kill or restart puts it back, so no Store starts over because of a file it
shares and no POST is repeated. Assumed: `MixedAssumption`,
`InfoAssumption`, `SetupsAssumption`, `KillsAssumption` and `ContentsAssumption`
(payloads differ from the two marks for a missing piece and an absent file).

### Model-checked only

Every invariant and every safety action property of the passing runs is a theorem. What
is left to TLC is liveness, since fairness and `ENABLED` are beyond the prover:
`IdleSessionEnds`, `CancelEndsSession`, `WatcherExits`, `PacketsReported`,
`CancelStopsUDP`, `SignalEndsProcess`, `ParseReturns`, `CommandsServed`, `RouteEnds`,
`SessionEnds` and `FlowsEnd`. For most of them the theorems above give what the argument
rests on, for every size: a variant that each step of the goroutine lowers and nobody
raises, and an invariant that it never waits for what cannot come. The variants count
what a peer may still send, so they are stated relative to the bound on that, which may
be any number. What remains for TLC is that a step whose guard holds is
taken.

## Where code and documents disagree

- `dispatch_upstream`: the table is keyed by source endpoint only, and
  `HandleProxyTCP` dials the upstream of the rule in the Metadata. A connection that
  matches a `proxy_tcp` rule but whose endpoint is still registered with another rule
  is closed without being forwarded.
- `lifecycle_rules`: `Shutdown` cancels first. `udpListen` then returns, `Start` and
  `main` return, and the process ends while the signal goroutine may still be deleting
  rules. A rule can thus survive an ordinary SIGTERM.
- `tcp_route_stream`: with Spicy enabled and no verdict, the second Peek has moved the
  first bytes into a buffer that goes out of scope; `HandleTCP` reads on behind them.
- `reporting_sinks`: with hpfeeds enabled `LogTCP` gob-encodes the event first. The types
  TCP handlers put into `Decoded` are not registered with gob, so this fails, and
  `LogTCP` returns before the HTTP collector is tried: neither sink gets the event, while
  `docs/logging.md:58` says the HTTP producer "marshals each event as JSON and POSTs it
  to `producers.http.remote`" and `docs/logging.md:67` that hpfeeds "publishes
  gob-encoded `producer.Event` values". `DeliveredOnce` is what remains true.

## Known behaviour that no run singles out

All of this is in the models. The properties make no claim about it; where one names an
exception for it, that is said here. The first group disagrees with a document or a
comment of the repository.

- *UDP payloads.* `HandleUDP` runs on a slice of `udpListen`'s one buffer
  (`glutton.go:184`), so a packet can be stored and reported with a later packet's
  bytes, and its file can hold other bytes than its name says. `README.md:18`: Glutton
  "records all connections, including metadata and payloads". No property is stated of
  a UDP payload; `StoredIntact` excepts files whose buffer was overwritten (`spoiled`).
- *Aliased records.* Payloads noted by sip, rdp, bittorrent, smb and iscsi are slices of
  the read buffer (`sip.go:68`); the entries of all but the last message are reported
  with what later reads left there. `ReportsLastRead` is about the last message only.
- *Second Cleanup.* `parser.go:221` says of `Cleanup` that "it's probably safe to call
  multiple times". The second call waits for ever on a worker that has ended.
  `CommandsServed` is about a live worker; that the process still ends is
  `SignalEndsProcess`.
- *Memcache.* `docs/extension-system.md:22` asks a handler to "close the connection when
  done". `HandleMemcache` (`memcache.go:15`) has no Close. `SessionEnds` claims its end,
  and the close of all others.
- *Sample marks.* After a partial write that fails, the bytes delivered are neither
  counted nor sampled (`written <= fwd`), so `truncated`, which `docs/logging.md:54`
  says "reflects whether more bytes were forwarded than captured", may be false although
  more was forwarded. `Relay`'s `Entry` goes by the bytes counted, as the code does.

Others contradict no document, or only in spirit:

- a request whose body is in chunks is reported without it by both HTTP handlers: its
  `ContentLength` is -1 (`http.go:149`), and Spicy's looks for a Content-Length only
  (`spicy/helpers.go:41`). `HTTPRecorded` is about the bytes a Content-Length announces;
- a Content-Length too long to allocate panics in the Go handler (`http.go:151`), and
  nothing recovers a handler's panic;
- a Parse that the Spicy worker does not take, after a parser stalled or Cleanup, waits
  for ever (`parser.go:169`), and so does its connection: the exception `ParseBlocked`
  of `RouteEnds`;
- after a cancellation the process ends as soon as `udpListen` has returned, whatever
  handlers have not yet reported;
- `dstPort` of an event comes from the same possibly older Metadata as the rule;
- a payload file torn by a kill or a disk error is never repaired: later Stores of the
  same bytes find it and do nothing. A repeated payload is reported with an empty hash;
- a kill between creating and writing `glutton.id` makes every later start fail;
- Peek's 200 ms deadline is never lifted for the Spicy HTTP handler, so a request that
  arrives more slowly is closed unreported, whatever `conn_timeout` says;
- the two HTTP handlers answer differently: a POST that is neither Ethereum nor YARN
  gets no reply from the Go handler and a plain one from Spicy's, a request to dial a
  plain one from Go's and none from Spicy's; half a request is reported by neither;
- Jabber reports 1024 bytes of its reader's buffer, what follows the line included;
  RFB reports nothing;
- `HandleTCP` notes `data[:length % 1024]`, nothing for a multiple of 1024, and the
  payload of its event is that of the first entry: `sendRandom`'s own bytes;
- a client that sends fewer bytes than a Peek asks for is closed without a record;
- Telnet and FTP drop lines pipelined behind the one they read; FTP ends after one
  command because its loop condition is always true;
- a MongoDB length below 16 panics (the record is still produced); connections without
  an applicable rule or handler stay open.

## What is not modelled

- Message codecs (`smb/`, `rdp/`, `iscsi/`), `bridge.cpp`, BPF compilation: fixed
  conversions without state; a parse is a free choice of its outcome.
- The contents of Memcache's per-connection map, which only its own replies show; the
  wording of replies and the layout of events.
- The cases of `ReadInitialBytes` other than HTTP, `NestedFromFlat`, `GetDeepStr` and
  `formatRequest`: nothing calls them.
- Logging, the system monitor, scanner detection (beyond its being asked), mocks: they
  change no state that others read.
- Crashes of the process by running out of memory or descriptors.
- Real time: a deadline is a step that may come whenever a read waits, so the models
  say what happens after a timeout and not after how many milliseconds. Memory use is
  modelled where the code limits it (`HandleTCP`), not as allocation.
- The data race on `g.ctx`: every value it takes derives from the same cancellable
  context, so one flag stands for it.
- Socket options, keepalive, and the forwarder's branches for connections that are not
  `*net.TCPConn`, which this program never creates.

## Plan

1. *Done:* ConnTable, Dispatch, ProxyTCP with its abstract Relay, Lifecycle,
   SpicyWorker, TCPRoute with HTTP, Handlers, Reporting.
2. *Done:* the safety properties of all modules as theorems, the refinement of Relay and
   the table's use by the listeners included.
3. *Done:* the safety side of the liveness properties as theorems: variants for the
   sessions of the forwarder, of the handlers and of the catch-all and for the flows of
   the reporters, and never-stuck invariants for these, the Spicy worker and Shutdown.
4. *Open:* the codecs, the rules' expressions and the other parts listed above as not
   modelled.
