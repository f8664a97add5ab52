# A TLA+ verification of bs

bs is the agent tsuru runs on every node. It receives the containers' logs and
forwards them, reports the containers' status to tsuru, checks the host, and
collects metrics. These modules model it from the Go code, TLC checks them on
small instances, and TLAPS proves the safety properties for every value of the
constants.

## The system and its inventory

| Part | Code | Module | Status |
|---|---|---|---|
| Syslog parser and message format | `log/parser.go`, `log/parser.rl`, `log/format.go` | `LineParser` | modelled, proved |
| Message routing, container data and its LRU cache, syslog fan-out and buffer pool | `log/log.go` `Handle`, `container/container.go`, `sendMessage` of the backends | `Routing` | modelled, safety proved; names from labels not told apart |
| Message loop: channel, quit, reconnection | `log/log.go` `processMessages` | `Forwarder` (composed with `BufferedConn`) | modelled, safety proved |
| Buffered connection: `bufio.Writer`, flush ticker, deadlines | `log/bufferconn.go` | `BufferedConn` | modelled, proved |
| What a forwarder promises | (abstract) | `LogStream`; mapping in `ForwarderStream` | refinement checked and proved |
| Splitting of long messages | `log/syslogforwarder.go` `splitParts` | `SplitParts` | modelled, proved |
| Websocket forwarder: reader, pinger, expiry | `log/wsforwarder.go` | `WsForwarder` | partly (message contents and clock times abstracted); safety proved |
| Gelf forwarder: fields and levels | `log/gelfforwarder.go` | `GelfFields`, the send in `Routing` | partly, proved; its loop is `processMessages` |
| File monitor and its position file | `log/monitor.go` | `FileMonitor` | modelled, safety proved |
| Kubernetes log streamer | `log/monitor.go` | `KubeStreamer` | modelled, safety proved |
| Status reporter and removal of zombies | `status/status.go` | `StatusReporter` | modelled, safety proved |
| Host checks | `status/hostcheck.go` | `HostChecks` | modelled, safety proved |
| Metrics runner and rounds | `metric/` | `Metrics` | modelled but for the arithmetic and the messages' fields; safety proved |
| Start, stop, signals | `main.go`, `log/log.go`, `metric/runner.go` | `Lifecycle` | modelled, safety proved |
| Configuration, logging, node addresses | `config/`, `bslog/`, `node/` | none | read once or output only; constants of the modules |

How they interact: `main` starts the log forwarder, the runner and the
reporter. Lines arrive from the syslog server, which parses them, or from file
monitors; `Handle`, called by many goroutines, looks up the container and passes
the message to each backend, and each backend address has one message loop with
one connection. The reporter runs the host checks between inspecting the
containers and reporting them. The runner's rounds use the container cache too.

`PROJECT.json` holds, for every definition, the lines it models (`map`), and for
every hazard of the code the line where it bites and the properties that watch
it.

## Modules, state and actions

**LineParser** reads a line byte by byte, a byte being one of the ten classes the
automaton tells apart. `cs`, `starts` and `entries` are `parseLogLine`'s; states and
transitions have the names Ragel gave them. Groups are spans of positions, so the
line need not be kept. Beside the automaton runs the grammar of `parser.rl`, read
as it is written: `threads` are all the ways of matching the bytes so far. `Handle`
is `Parse` with the first half of `LogForwarder.Handle`; whether a date parses is a
choice.

**Routing** has the calls of `Handle` from the lookup in the cache to the last
backend's send, and the goroutines that take messages from the channels. An
inspection, the addition to the cache, the formatting, each copy and each send are
steps of their own. `Route` is the list of the channels a message goes to: backends
in any order, a syslog backend with one channel per address, each channel with its
own size. A send to one without a buffer reaches a goroutine that waits in its
select, or is dropped. `pool` and `text` are the buffers of `syslogBackend`: `Get` may
return any buffer that was given back, whoever still refers to it. A buffer nobody
refers to is as good as new, which keeps the model finite.

**GelfFields** has `findFieldInMsg` and `parseFields` as operators on texts made of
pieces, and a reference definition by words. The parser takes any digits for a
priority; `Atoi` fails for one above `MaxInt`.

**BufferedConn.** Every method holds `c.mu` throughout, so a call is one step.
`w` is the content of the `bufio.Writer`, `werr` its sticky error, `timed` is
`c.to > 0`, `wire` what the socket took, `written` (history) what callers wrote.
`Kept`/`Emitted`/`Stranded` say what `bufio` does with a payload that fits,
splits over a flush or bypasses the buffer, and what a failure part way leaves.
The socket accepts, stalls (a write then needs a deadline to fail) or is broken.
`BufSize = 0` is a connection without a writer (udp).

**Forwarder** instantiates `BufferedConn` as the current connection. `pc` is the
goroutine's place: `check` (quit), `connect`, `loop` (inner select), `process` and
`write`, `close` and `closing`. `Send` is the non-blocking send, with the hand-off
of a channel without buffer. `accepted`, `processed`, `gone`, `lossy` are history.
**ForwarderStream** reads it as a stream of units and maps it onto **LogStream**,
the promise: units leave in order, at most once, and what is given up is given up
from the front.

**SplitParts** works on lengths only: header, content, trailer, limit. A part
records where its content starts, its size, its total length and whether its
trailer was intact when copied: the last part is built in place over the message.
Division by zero and negative slices are the state `panic`. `MaxMessage` bounds the
content: the syslog server delivers at most 65536 bytes, lines of files may be longer.

**WsForwarder** has the message loop and, per connection, a reader, a pinger and a
flush loop, with `connMutex`, each buffer's mutex, and the forwarder's fields
`bufferConn` and `expireConnCh`, which belong to the newest connection while
goroutines of older ones read them. A pinger reads `expireConnCh` when it comes to
its select (`PingSelect`) and waits on the channel it read, be it of a newer connection.
`writeWithDeadline` is taken apart into its two locks, each with the read of the
field that follows it, and its write.

**FileMonitor** follows one log file over several monitors: decode, note the
time, handle; the ticker reads the time, truncates the position file, writes it.
At a line that does not decode (`garbled`) the stream ends while tail goes on
(`GiveUp`): the monitor is `stuck` until its tail is killed (`KillTail`), and only then is
it replaced. `Crash` keeps only the two files.

**KubeStreamer** has the watcher (sweep, glob, scan, select, quit) and per monitor
its tail process, its `run` goroutine, its position goroutine and its lock.

**StatusReporter** has the report loop, the goroutines of the removals, and a
caller of `waitPendingRemovals` (today only the tests call it); docker and tsuru are the environment. The status a
unit is reported with decides nothing here and is left out.

**HostChecks** has `checkCollection.Run` and one goroutine per running check; the
container check takes one step per docker call, and a call that fails may have
had its effect. The host fails and recovers, and bs may be restarted.

**Metrics** has the runner's loop, a round's calls in order, one goroutine per
container between `wg.Add` and `wg.Done`, and the host's collectors. Of a value it
keeps whether `json.Marshal` takes it: `Quotient` by zero is NaN.

**Lifecycle** has `main`, `LogForwarder.Start/Stop/Wait`, the signal handler with one
goroutine per `Stop`, and the workers, server, streamer, runner and reporter as
coarse states whose ends the other modules justify. `LogForwarder.Stop` has three
steps: kill the server, close the quit channels, send to the streamer, which may
have to wait for it.

## Runs

| Run | Bounds | Shows |
|---|---|---|
| `line_parser` | every line of up to 17 bytes | the automaton accepts what the grammar does; the groups `Handle` uses are those of one derivation, but for a tag that may be a host |
| `routing` | 2 callers, 2 keys, cache of 1, tsuru and gelf (channels without a buffer) before and after 2 syslog addresses (channels of 1) | messages carry their own container's data; a buffer holds its message until it is written; `Handle` returns although no channel is emptied |
| `message_text` | `splitParts`: contents of 1-130 bytes, limits 8-26 and none; gelf: texts of up to 7 pieces | parts fit, cover the content once, keep the trailer; the count is right below ten parts; no panic when there is room; fields and level found are those of the reference |
| `forwarder` | 3 messages of 1-3 units, channels of 0, 1 and 2, buffer of 2 | order and exactly-once (`Fifo`), no loss without a failure, `LogStream`; the goroutine ends after stop; messages are delivered, if need be by the ticker alone |
| `ws` | 2 connections, with expiry | pings and messages exclude each other; after quit everything ends; goroutines of a replaced connection end; a websocket closed for want of a pong is replaced if messages keep coming |
| `file_monitor` | 3 lines, 2 timestamps, lines that do not decode, 3 monitors, crashes and failed saves | the position never covers a line nobody read; each line before the first that does not decode is handled in the end |
| `kube` | 2 files, 1 event (a file appears, a tail dies, a line does not decode), failed lookups | one tail per file; none after `watch` returned; `stop` returns and a file whose monitor ended is read again, unless a tail outlives its stream |
| `status` | an app container and another one | one removal of a container at a time; of others than tsuru's only those whose inspection failed are removed; zombies are removed in the end |
| `host_checks` | 3 checks (one filtered), timeout, failures, restarts | a run that timed out is kept and waited for; no run disturbs the container of another; `Run` returns; checks succeed again after recovery |
| `metrics` | 2 containers, 3 connections, all failures | rounds do not overlap; a container's failure stays its own; the host's round is complete unless a call fails or the clock stood still; `Stop` returns |
| `lifecycle` | backends with 1, 0, 1 addresses; 1, 2; 2, 1; one with none; or no backend | the process ends only after the services main waits for; a signal ends it, and so does a failed `Start` unless it stranded workers |

The bounds are the smallest at which each path happens: a payload larger than the
buffer, a channel that is full and one without a buffer, two equal timestamps, a
monitor that is replaced, a connection whose predecessor's pinger still runs, marks
of three digits. The shortest line with a date, a time, a tag and a content has 17
bytes, and lines of that length take every transition of the automaton. In
`routing` two keys evict each other from the cache, and a buffer given back too
early would be taken by the other caller or address. In `message_text` a name of the whitelist is the end of another,
as in the default one. Files, containers and connections meet only through the
watcher, the report loop, the join and the forwarder's fields, for which two of
each are enough. A connection without a writer (`BufSize = 0`) is covered by the
proofs only. Deadlock checking is off only where the system may stop for good: it
was told to (`Forwarder`, `WsForwarder`, `KubeStreamer`, `Metrics`, `Lifecycle`), the function
returned (`SplitParts`, `GelfFields`), a monitor is stuck (`FileMonitor`), or the bound on events ends the model.

### Where the code and its documents or tests disagree

`file_monitor_repeat` checks what a test says and finds it violated: a monitor
restarted with no new line stores position 0, so the next restart repeats every
line (`monitor.go:113`).

Other behaviours limit what the passing properties say; where one does not simply
state the behaviour, it makes an exception of exactly that state:

* A container that is not tsuru's and cannot be inspected is reported as if it
  were, and removed when tsuru does not know it (`status.go:171`), although
  `README.md:35` says that bs "doesn't mess with any container not managed by tsuru".
  `OnlyManagedRemoved` excepts them (`unseen`).
* If the second syslog address fails, `Start` waits for ever for the goroutine of
  the first, whose backend was not registered (`syslogforwarder.go:95`,
  `log.go:136-140`). `StartErrorReturns` excepts `Stranded`.
* A line that is not JSON ends the stream while tail lives; `wait` then holds the
  lock and the watcher hangs in `alive` (`monitor.go:128-134, 167`).
  `StopReturns` and `DeadMonitorReplaced` of `KubeStreamer` except that state, `Stuck`.
* Every monitor reads from the first line on, so that nothing behind a line that does
  not decode is ever handled, restarts or not (`monitor.go:73, 128-134`).
  `EventuallyHandled` speaks of the lines before it (`Readable`).
* A line that shares its timestamp with the one the position was saved at is skipped
  after a restart (`monitor.go:136`). `CoveredLinesWereSeen` and `EventuallyHandled` take
  a line of the same timestamp for it.
* `LogForwarder.Wait` does not wait for the streamer, and `Stop` tells it last: the
  process may end with the streamer running and its tails left behind
  (`log.go:179-196`). `EndsAfterServices` says that this happens only while `Stop` is on
  its way to the streamer.
* A tag made of letters, digits, `-`, `.` and `:` with neither a host before it nor a
  pid behind it could be the host: its container is lost, or is the start of the
  content (`parser.go:482-632`). `ReadAsOneDerivation` excepts it (`MaybeHost`).
* A word with `uri=` inside, such as `request_uri=/`, hides the field `uri` behind it;
  both are in the default whitelist (`gelfforwarder.go:158`). `FieldsFound` says so.
* Messages of severity debug get gelf's level error, because 7 has the bits of 3
  (`gelfforwarder.go:60`). `FieldsFound` says so.
* When the cpu's counters stood still between two rounds the host's shares are NaN,
  and that round's cpu and network metrics are lost (`host.go:145`).
  `HostRoundComplete` says so.
* From ten parts on the marks announce fewer parts than are sent
  (`syslogforwarder.go:191`); `FewPartsCounted` stops at nine.
* The result of a check that timed out is reported as success by a later round
  (`hostcheck.go:93`), so `Recovers` says nothing of when a run began.
* A missed pong closes the socket, which is reopened only when a message is
  written (`wsforwarder.go:211`); `DeadReplaced` assumes that messages keep coming.
* `writeWithDeadline` reads `f.bufferConn` twice while `connect` may replace it, and
  would unlock a mutex it does not hold (`wsforwarder.go:224-225`). The liveness
  properties of `WsForwarder` except the end of the process that follows.
* Cached container data is never refreshed (`container.go:113`): for a name that
  passed to another container `DataOfItsKey` allows the data of either.

## Fairness

* Goroutines run: weak fairness of their steps; strong where a step waits for a
  lock others take and release (Go's mutexes hand over to starving waiters).
* `select` chooses at random among ready cases, so a ready `quit`, `abort` or
  `streamDone` is not ignored for ever: strong fairness of those branches.
* Tickers and timers fire.
* `Forwarder`, `WsForwarder`: a stalled peer reads or goes away at last. It is needed:
  `close` turns deadlines off before it flushes. `EventuallyDelivered` also needs
  a peer that is dialled again and again to be reachable at last.
* `StatusReporter`: docker and tsuru are not unavailable for ever; their clients
  have timeouts, so calls end.
* `HostChecks`: checks progress on a host that works and may hang on one that
  does not; a finished result is not late in every round.
* `KubeStreamer`: looking up a container and starting tail do not fail for ever.
  Nothing is assumed about lines that do not decode.
* `Routing`: the steps of `Handle`, docker's answers included; nothing of the
  goroutines that empty the channels.
* `Metrics`: docker, conntrack and the backend answer or fail, so goroutines go on.
  (`conntrack` is run without a timeout; that it ends is assumed.)
* `Lifecycle`: workers end after quit (`Terminates` of `Forwarder`) and clients of a
  killed server go away. Runner and reporter end after `abort`; for the reporter
  this presumes that its host checks end, which the code guarantees only with
  `HOSTCHECK_TIMEOUT` set (`RunReturns`; the default, 0, is no timeout). Nothing is
  assumed of the streamer.
* `FileMonitor`: the watcher starts a monitor when there is none. Nothing is assumed of
  lines that do not decode, nor that a tail is ever killed.

## Proofs

Each proof module extends the components it is about and uses only the assumptions
on the constants that they name. Components that share a proof module have distinct
names for their parts, hence `FileSpec`, `ReporterSpec`, `ProgramSpec`, `SplitSpec`,
`GelfSpec`.

* **BufferedConnProofs**: any buffer size, payloads and bound. The invariant is
  `TypeOK`, `Stream` and `Quiet` (a closed connection without an error has an empty
  buffer). `Stream` relates socket, buffer and history, because a prefix alone does
  not survive the next flush; `Quiet` is what makes a late tick harmless. The main
  lemma, `WriteSplits`, says that what a write keeps and emits are buffer and
  payload split in two. Theorems: `TypeCorrect`, `StreamHolds`, `NoGapOnTheWire`,
  `CloseFlushes`, `NothingAfterClose`.
* **ForwarderProofs**: any channel, buffer and messages. `FifoInv` adds that a message
  is in hand exactly while it is processed; `ConnInv` says at each point of the loop
  whether there is a connection. Theorems: `FifoHolds`, `ExitIsClean`. For the stream
  of units `LinkInv` takes over the connection's invariant from `BufferedConnProofs`,
  and `UnitsConcat` says that the units of two sequences of messages are those of
  one followed by those of the other. Then every step does one of three things to the
  stream (`StreamNext`): nothing (`Same`), one message more at the end (`Grows`), or units
  leave at the front, all of them to the socket unless the connection fails (`Gives`).
  Theorem `NothingLost` follows, with `StreamInv`, and so does `Refinement`: the
  forwarder implements `LogStream`.
* **LineParserProofs**: lines of any length. `Stands` is a table of what each state of
  the automaton means: the set of places of the grammar that the ways of matching have
  come to. It is preserved by every transition, so the 35 states are the grammar's
  subset construction: `AutomatonRecognises`. For the groups, `ReadInv` says what
  every way of matching shares with the automaton's spans before its tag, in it,
  behind it and in its content; in a final state one of them `Leads`: its content starts last and its
  tag is the one kept, unless a later word took its place (`Lost`). Theorem `OneReading`.
* **BackendProofs**, of the three backends' own code:
  * `splitParts`: any header, trailer and limit, contents up to `MaxMessage`, 99999999 bytes.
    `SplitInv` keeps that in the loop the message is longer than the limit, which
    is why the mark of the last part cannot reach the trailer, and that the content
    left starts where the last part ended. Theorems: `AllPartsFit`,
    `AllTrailersIntact`, `PartsContiguous`, and `NoPanicWithRoom`, for which each part
    takes a byte, so parts and their marks are bounded by the content. With at most
    nine parts every mark has six bytes, so all parts but the last are of one size
    and the quotient counts them (`FewInv`): `FewPartsAnnounced`.
  * websocket: any number of connections. `LockInv` says who holds `connMutex` and each
    buffer's mutex: the message loop (`MainInv`), a pinger, which may have got the lock of
    a newer connection than its own (`PingInv`), that sockets given up are closed
    (`SockInv`), and that the newest connection's expire channel is open as long as the
    loop may close it (`ExpireInv`). Theorems: `LockInvariant`, `FramesAreExclusive`,
    `ChannelsClosedOnce`.
  * gelf: any text, whitelist of names without a blank, and priority. `FieldValue` says
    that `findFieldInMsg` finds the value the words of the text give a field, or nothing,
    `NoEqualSign` that a text without an equal sign, which `parseFields` does not look
    at, gives no field a value. Theorem `FieldsReported`.
* **RoutingProofs**: any callers, keys, cache size and buffers, any backends in
  any order, channels of any size, none included. `HandleInv`
  says what each call holds at each of its steps, `DataInv` that entries of the cache
  and items of channels are sound for their key. Theorem `OwnData`. For
  `BuffersKept` the items of an address are numbered by their `Places`, the goroutine's
  own being 0: `OutOfPool` says that no buffer in a place is in the pool and that it
  holds its message, `OnePlace` that it is in no other place and in no caller's hands.
  Without `OnePlace` the buffer that `WriteLast` gives back could be somebody else's.
* **MonitorProofs**. `KubeStreamer`, for any finite set of files and number of events:
  `MapInv` says that a running tail is the one the map has for its file, `LockInv` that a
  monitor marked finished is locked until its process is dead, `QuitInv` what is left to
  stop at the end of `watch`. Theorems: `OneTail`, `NoOrphans`. `FileMonitor`, for any
  lines, timestamps and restarts: a position is `Good` if a seen line has it and no line
  up to it is missing; every copy of the position, in the file, loaded, in memory or
  about to be written, is. Theorem `CoveredSeen`.
* **MetricsProofs**: any containers and connections. `RoundInv` says that the `WaitGroup`
  counts the goroutines of this round, `ContInv` what a container has sent by where its
  goroutine is, `HostInv` the same of the host. Theorems: `RoundsStayApart`,
  `ContainersStayApart`, `HostRoundsComplete`, and `ConntrackKeeps`, of the loop that
  drops the host's connections with itself.
* **ServiceProofs**. `StatusReporter`, for any containers: `Accounted` pairs each key of
  `removeMap` with one goroutine: `RemovalsExclusive`. `OnlyHarmless` says that what was
  reported, answered or is being removed is tsuru's or was not inspected:
  `ForeignContainersSafe`. `HostChecks`, for any checks, filter and number of
  goroutines: `LateRunsAccounted` is what keeps a second run away from the container's
  fixed name; with it, that only the check `create` calls docker, and that `Run` waits
  for a goroutine it knows, `ContainerUndisturbed` is inductive. Theorems: `LateRuns`,
  `Undisturbed`. `Lifecycle`, for any configurations: what main waited for stays ended
  (`EndInv`), each service is stopped once and after the signal (`StopInv`), the log forwarder
  has no server only if it has no backend (`LogInv`), the streamer runs on only while
  `Stop` has yet to reach it (`KubeInv`). Theorem `ProgramEndsAfterServices`.

`TypeOK`, `Stream`, `WirePrefix`, `ClosedComplete`, `SilentAfterClose` of `BufferedConn`,
`CleanExit` of `Forwarder`, and `ClosedOnce` and `LockInv` of `BackendProofs` are proved
although no run lists them.

Where a proof needs induction over data (the units of a sequence of messages,
conntrack's loop, the words of a text) it takes the least element of the set of
counterexamples (`Least`, from the library's `WFMin`), as the library's induction
theorems take an operator, which the provers cannot instantiate.

Only model-checked: the liveness properties (`Terminates`, `EventuallyDelivered`,
`HandleReturns`, `Drains`, `ReplacedEnd`, `DeadReplaced`, `EventuallyHandled`, both
`StopReturns`, `DeadMonitorReplaced`, `ZombiesRemoved`, `RunReturns`, `Recovers`,
`SignalExits`, `StartErrorReturns`), as the prover has neither fairness nor `ENABLED`.
Every invariant that a passing run checks is proved, and so is the refinement.

## Not modelled

* `config/`, `bslog/`, `node/`: environment variables and interfaces read once,
  formatting and output. What they can yield are the constants of the modules.
* Libraries: the syslog server, the docker client, `gelf.Writer`, the websocket
  codec, `bufio`, the LRU cache and `sync.Pool` appear as the code uses them.
* The handshake of a websocket has no deadline (`wsforwarder.go:158`): that it ends is
  assumed.
* The arithmetic of the metrics, the fields of the messages to logstash, tsuru and
  gelf, and the dates themselves.
