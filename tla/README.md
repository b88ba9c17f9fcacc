# irpc in TLA+

A specification of irpc, checked with TLC on small instances; the safety of every
part is also proved with TLAPS for instances of any size. Line numbers are those
of the Go sources under `src/`.

## The system

| Part | Sources | What it keeps | Module |
|---|---|---|---|
| client connection | `client/client.go`, `client_call.go` | `seq`, `pending`, `closing`, `shutdown` under `mutex`; the `Conn` | `RpcClient`, `CallPromise` |
| xClient, circuit breaker | `client/xclient*.go`, `circuit_breaker.go` | `cachedClient`, `breakers`, `isShutdown` | `XClient` |
| `Broadcast`, `Fork`, `Inform` | `client/xclient_broadcast.go`, `xclient_fork.go`, `xclient.go` | one channel and one `MultiError` per invocation | `Gather` |
| selectors | `client/selector_*.go` | servers, weights, ring | `Selectors` |
| discovery | `client/discovery_*.go`, `xclient.go` | pairs, watcher channels | `Discovery` |
| registry plugins | `serverplugin/consul.go`, `redis.go`, `zookeeper.go` | registered services, nodes of the store | `Registry`, composed in `Membership` |
| server connections | `server/server_serve.go`, `server.go` | `activeConn`, `doneChan`, `inShutdown`, `handlerMsgNum` | `RpcServer` |
| request handling, gateway, JSON-RPC | `server/server.go`, `service.go`, `server_register.go`, `context.go`, `pool.go`, `gateway.go`, `server_jsonrpc2.go`, `util/compress.go` | `serviceMap`, `router`, pools | `Requests` |
| message header | `protocol/message_header.go` | bits | `Header` |
| streams, file transfer | `server/stream.go`, `file_transfer.go`, `client/xclient.go` | tokens handed out and not yet presented | `Transfer` |
| codecs, transports, other plugins, logs, utilities | `codec/`, `serverplugin/`, `util/`, `share/`, `log/` | | see the end |

A user calls an xClient. It follows the lists of a discovery, which learns of
servers from the registry that their plugins write to. It selects a server,
takes or makes a connection to it and calls through it, several at once in
`Broadcast`, `Fork` and `Inform`. The connection numbers each request, writes it
and lets `input` match the responses. The server reads requests of a connection
in one goroutine, handles each in another and writes the responses directly or,
with `AsyncWrite`, through a third. `Shutdown` has to bring all of these to an
end. Files and streams take a token by a call and then a connection of their own.

Each `MC` module only gives constants their values. `PROJECT.json` maps every
definition to the lines it models and lists the hazards of the code with the
properties that watch them. Comments that begin with `Mutant:` mark changed
copies of a definition that are used to see that a property can fail.

## The modules

### RpcClient: one connection of the client

The goroutines are the callers (`pc[c]`), `input` (`inPc`), `heartbeat`
(`hbPc`), the users of `Close` and the user of `ServerMessageChan`. They share
`seq`, `pending`, `closing`, `shutdown` and `pluginClosed` under
`client.mutex`; a critical section never blocks, so it is one action. Between
two critical sections there is a step: a call is registered (`Register`),
encoded (`Encode`), written (`Write`), its message freed (`Free`) and its header
looked at again (`CheckOneway`), and anything may happen in between. `pool`,
`msg` and `bit` are the messages of `protocol.msgPool`: a message that was freed
may be taken by another call while its former user still reads it. The peer is
external: it answers in any order, pushes requests of its own and may go away.
`crashed` is the fatal error of the Go runtime after an unlock of an unlocked
mutex; nothing moves after it.

`MaxSeq` bounds the numbers; `uint64` does not wrap around within the life of a
connection. `SendRaw` takes its number from the user: `RawSeqsFresh` says that
it collides with none of the client's.

`CallPromise` is the abstract specification: calls are idle, open, answered or
failed; a call ends once, and if it ends well then with the response to its own
request. `KeepsPromise` is the refinement; the mapping reads the outcome where
the user does, from the channel for `Go`, from the returned error otherwise.

### XClient: cache of clients, fail modes, breaker

`op[p]` is a goroutine in `Call`, `SendRaw` or its share of `Inform`,
`Broadcast` and `Fork` ("Sweep"), with the locals of the code: the key `k`, the
client `cl`, the error. Acquiring a client is split where the code unlocks
`c.mu`: `Select`, `Check` and the two stores of a breaker's reset, `Find`,
`Generate` (connect outside the lock), `Set`. `removeClient` is `Remove` and
`CloseRemoved`. `Turn` is what a fail mode does after an attempt; Failbackup is
`Go`, `Sent`, `BackupLatency`, `Receive`. A client is a connection that is up
until it is lost or closed: what `RpcClient` shows of one is used here, not
repeated. Closing a `*Client` that is down is fatal, as in `RpcClient`
(`fatal`); the clients of a `CacheClientBuilder` are the user's.

### Gather: Broadcast, Fork and Inform

One invocation: the caller (`pc`) and a goroutine per server (`gpc[k]`), the
channel `done`, the `MultiError` and the receipts. The three methods differ in
the order of a goroutine's last steps and in when the caller stops; `mode` is
the one called. The reply of the caller has two words because nothing keeps two
goroutines from copying theirs at the same time.

### Selectors

All six modes over lists with metadata. Metadata is what the code reads of it.
The hash of `ConsistentHash` gives any key of its ring; Go's map order is any.
`count` is a history variable: how often each server was selected from the list
in force. A server's exact share of the calls is its weight over `Total`, the sum
of the weights; `Ahead` is how far `count` is above it. `ShareKept` bounds it on
both sides. Upwards the bound is one call for every mode. Downwards it is one
call for round robin only: smooth weighted round robin lets one of five servers
with the weights 1, 1, 1, 6, 6 fall a whole call behind, so for it the bound is
`Short`, at most 1/2 + 1/3 + ... + 1/n calls with n servers.

### Registry, Discovery, Membership

`Registry` is one server's plugin: `Start` and its refresh goroutine, `Register`,
`Unregister`, `Stop`, a crash, and the store, whose nodes have an age in update
intervals. `Flavors` tells apart plugins that overwrite a node (consul, redis)
and that delete and create it (zookeeper). `Discovery` is the watch goroutine of
`ConsulDiscovery`, `Update` of `MultipleServersDiscovery`, and an xClient that
reads, watches and closes; each publication is sent by a goroutine of its own.
`Membership` composes them: the nodes of the store are the tree that is watched.

### RpcServer: connections of the server and their end

`apc` is the goroutine in `ServeListener`, `cpc[c]` the `serveConn` of each
connection, `rq[r]` a request and its goroutine, `wpc[c]` `serveAsyncWrite`,
`spc` the call of `Shutdown`. `out[r]` says what became of the response:
written, queued in `writeCh`, or lost, because the connection or the channel was
closed. The deferred functions of `serveConn` are actions of their own in the
order Go runs them: `CloseWriteCh`, `Drain`, `EndConn`. `counted`, `expired` and
`leftBefore` are history variables.

### Header, Requests

`Header` has the two bytes of flags as numbers, with the code's masks as
arithmetic. `Requests` follows a request from `send` through encoding, `Zip`,
the connection, `readRequest`, `handleRequest` or
`handleRequestForFunction` or a handler of `AddHandler`, to the response and
`input`; requests also come from the HTTP gateway and from JSON-RPC. Every
place at which the code returns early with an error is a branch. A payload is a
size and the set of requests whose data is in it, which is how data of another
request is seen. The buffers of `Zip`, the messages, arguments and replies are
pooled. When the connection ends, `input` fails the callers that wait on it, not
those of the gateway.

### Transfer

The token RPC, the LRU cache of `WaitNum` tokens, the accept loop, which reads
tokens inline, and both ends of the connection. The RPC may run more than once
and late. `full` remembers that more tokens were out than the cache holds.

## The runs

| Run | Instance | Checks |
|---|---|---|
| `calls` | a `Call` and a `Go`, one `Close`; the first may find no codec, the second may fail to encode | `NoFalseSuccess`, `NoStrandedCall`, `NothingSentAfterClose`, `KeepsPromise` |
| `beat` | a heartbeat, a one-way `Go` and a one-way `SendRaw` sharing messages | `WireHeaders`, `FailedBeatClosesConn` |
| `ends` | a `Call` and a two-way `SendRaw`, `ServerMessageChan`, one request of the server | `RepliesMatch`, `EndedConnReleasesCallers` |
| `close` | a `Call` and a `Close` | `CloseIsHarmless`, which is violated |
| `shutdown` | two connections (TCP and TLS), two requests of which one may be refused, gateway, `Shutdown` and `Close`, direct writes | `CountedAreAnswered`, `ServeReturnsDrained` |
| `server_ends` | one connection with `AsyncWrite`, two requests, a client that leaves, `Shutdown` | `ShutdownClosesConns`, `HandlersFinish` |
| `gather` | three servers, two that may be unreachable, one that may hang, the timer | `ErrorIsReal`, `ForkReplyReady`, `EveryoneEnds` |
| `xclient` | a `Call` beside a `SendRaw` or a sweep, all fail modes, two servers of which one has a builder, two connections, one retry, a breaker of threshold 1, `Close` | `RightServer`, `SuccessIsReal`, `BreakerHolds`, `AnswerEndsCall`, `EvictsOwnClient` |
| `membership` | one service, two plugins, one failing store operation, a crash; a discovery with -1, 0 or 1 retries, three lists | `LiveIsRegistered`, `Settled`, `GivesUpAfterRetries`, `StopEnds`, `DeadIsForgotten` |
| `requests` | two registrations, two requests, the pools with and without `Reset`, two answers of a handler | `OneAnswer`, `OutcomeIsReal`, `NoForeignData`, `PublishedIsFound`, `FreedOnce`, `NobodyForgotten` |
| `transfer` | an upload beside a download, or two streams; three tokens, a cache of two, two buffers, one fault | `HandlerOfItsCall`, `PendingAreKept`, `NilIsWhole`, `SentArrives`, `EveryoneIsAccepted`, `TransferEnds` |
| `selectors` | every list of up to three servers and four kinds of metadata, one update, seven selections | `SelectedIsListed`, `FoundIfListed`, `ShareKept` |

Each property is stated in words above its definition.

Why the bounds are enough:

- Two calls meet in `pending`, in the pool and on the connection two at a time;
  a reply goes astray, a message is recycled or an entry overwritten between
  two of them. The kinds of calls are spread over three instances because their
  product has tens of millions of states. Only `calls` and `close` have a user
  of `Close`: a second one dies.
- In `shutdown` one connection is accepted while the other is served. In
  `server_ends` one response fills `writeCh` and the other handler waits.
- In `xclient` the second of two connections replaces the first while a
  goroutine still holds it, and one retry is one change of server or client.
- In `membership` one failed write lies between two refreshes; two lists can
  overtake each other and a third is the one to settle on. The channel holds one
  list instead of ten, so that it is full.
- In `requests` the second request is one whose buffers and objects the first
  one may have left behind.
- In `transfer` three tokens overflow a cache of two.
- In `selectors` seven selections are more than the sum of two weights, 3 + 3.

`TypeOK` is proved for `RpcClient`, `RpcServer`, `Gather` and `Selectors`; the invariants
proved of the other modules contain the types they need. TLC finds `TypeOK` true
on the instances above.

## Fairness

Weak fairness for every goroutine that can take a step, which is what the Go
scheduler gives. Beyond that: a read from a connection that has ended returns;
the context of a heartbeat expires (it is made with a timeout); the minute of
`Broadcast` passes; the services of a server return (`HandlersFinish` and
`ShutdownClosesConns` are about the server's own waiting); the call to a server
that is not in `CanHang` returns; tickers tick and nodes expire; a handler of a
file or stream works on what arrives; TCP keep-alive finds a host that is gone,
on a connection on which the code has set it. Two actions are strongly fair: a
`select` does not neglect a closed channel for ever (`RefreshEnds`; Go chooses
at random among ready cases), and a watch of the registry can be set up in the
end (`WatchTree`). Nothing is assumed of peers, of faults, of users who may
cancel, close, register or shut down, nor of `Shutdown`'s context.

No run checks for deadlock: every system here may come to a quiet end.

## Proofs

| Module | Theorem | States |
|---|---|---|
| `RpcClientProofs` | `TypeCorrect` | `TypeOK` |
| | `RepliesAreOwn` | `RepliesMatch`, if `RawSeqsFresh` |
| | `PluginOnce` | `PluginClosedOnce` |
| | `SilentAfterClose` | `NothingSentAfterClose` |
| | `NobodyStranded` | `NoStrandedCall`, if `RawSeqsFresh` |
| | `HeadersAreOwn` | `WireHeaders`, if `RawSeqsFresh` |
| | `SuccessIsReal` | `NoFalseSuccess`, if `RawSeqsFresh` and `OneWay \subseteq RawCalls` |
| | `PromiseKept` | `KeepsPromise`, under the same two |
| `RpcServerProofs` | `ServerTypes` | `TypeOK` |
| | `ShutdownAnswers` | `CountedAreAnswered`, if `~AsyncWrite` |
| | `ServeReturnsAfterDrain` | `ServeReturnsDrained` |
| `GatherProofs` | `GatherTypes`, `ErrorsAreReal`, `ForkRepliesReady` | `TypeOK`, `ErrorIsReal`, `ForkReplyReady` |
| `XClientProofs` | `ClientsOfTheirServers`, `EvictionsAreOwn` | `RightServer`, `EvictsOwnClient` |
| | `SuccessesAreReal`, `AnswersEndCalls` | `SuccessIsReal`, `AnswerEndsCall` |
| | `BreakersHold` | `BreakerHolds` |
| `MembershipProofs` | `MembershipInvariance` | `RegInv /\ DisInv` |
| | `LiveServersRegistered`, `ServersSettle`, `GivesUpInTime` | `LiveIsRegistered`, `Settled`, `GivesUpAfterRetries` |
| `TransferProofs` | `TransferInvariance` | `TransferInv` |
| | `HandlersServeTheirCall`, `PendingTokensKept`, `NilDownloadsAreWhole` | `HandlerOfItsCall`, `PendingAreKept`, `NilIsWhole` |
| `RequestsProofs` | `CompressIndependent`, `StatusIndependent`, `TypeIndependent` | a setter of `Header` stores its argument and leaves the other fields of every byte alone |
| | `RequestsInvariance` | `RequestsInv` |
| | `RequestsFreedOnce`, `RequestsAnsweredOnce`, `RequestsOutcomesReal` | `FreedOnce`, `OneAnswer`, `OutcomeIsReal` |
| | `RequestsKeptApart`, `RequestsNotForgotten`, `RequestsPublishedFound` | `NoForeignData`, `NobodyForgotten`, `PublishedIsFound` |
| `SelectorsProofs` | `TypeCorrect` | `TypeOK` |
| | `SelectsListed`, `FindsListed`, `SharesKept` | `SelectedIsListed`, `FoundIfListed`, `ShareKept` |

They hold for all constants that satisfy the named assumptions of each module,
beside the hypotheses in the table. The assumptions are finite sets of
goroutines, bounds that are numbers, and the kinds of the constants; two say
more. `MembershipConstants`: the service that is discovered is one that the
plugin may register. `RequestsAsks`: a request without a path, which is what
`Client.heartbeat` sends, is not one-way. Every inductive invariant was checked
with TLC on the instance of the component's run before it was proved.

**RpcClient.** `RepliesMatch` is not inductive: that a reply goes to its own
call depends on how numbers are given out. `Numbers` says that no two calls have
the same number, that a number given out is below `seq` and that a call in
`pending` is there under its own; `Carried` says that requests, replies and the
reply input is delivering carry the number of their call; `ClosedConn` ties
`closing`, `shutdown` and `pluginClosed` to a closed connection. Their
conjunction with the types and `RepliesMatch` is inductive. The headers need
ownership: between `Encode` and `Free` a call is the only user of its message
(`Owned`). `SuccessIsReal` adds `NoSilentEnd`: the branch of `CheckOneway` that
signals without an error is not taken when no message of `Call` and `Go` is
one-way. The refinement needs, on top of these, that only what was written is
answered (`Answered`) and that a signalled call is out of `pending` or `input`
has failed it and stopped (`OnceSignalled`); then a step changes the status of
one call, or fails some that are open, and each is a step of `CallPromise`.

**RpcServer.** `handlerMsgNum` is the number of requests between their count and
their end (`Counts`). With that, a wait that ends at 0 means that no handler is
left (`Drained`). `Placed` says that nothing is written before a request was
handled, `Ends` at which point of `Shutdown` or `Close` the listener and
`doneChan` are closed, and `Kept` who may have closed a connection: whoever ended
the server, a `serveConn` that left before that, or one that read nothing.

**Gather.** The number of results the caller waits for is the number of
goroutines that have not been received from (`Counted`, a cardinality). Every
recorded error is that of a failed call or the timer's (`Recorded`); while `Fork`
waits, every result it took was a failure (`NoneTaken`), so when none is left all
have failed; `Fork`'s goroutines have copied the whole reply before they signal
(`Copied`).

**XClient.** `CacheOK`: what is cached under a key is a client made for it.
`Sound` says of each goroutine's locals that client and key belong together at
every place where both are used, also in the locals that Failbackup keeps across
its two calls of `Go`. What an operation returns needs its course: `OnCourse`
counts the attempts that are left against `retries` at each place of the loops
and says that no answer has come yet; `Honest` follows the nil that Failbackup
has from `Go`. For the breaker, the failures counted and the goroutines that may
yet fail without asking it again (`MayFail`, a cardinality) are together at most
`Threshold - 1` and the number of goroutines.

**Membership.** `Refreshed`: while the store has answered, a node in its last
interval is one that the refresh goroutine, or `Register`, is about to write;
the places of both and the pending tick decide. `Numbered`: of the lists on
their way none is newer than the last one published, and that one has one
content. `OnItsWay`: a watching xClient has the last list, or it is in the
channel or with a sender, or a known way to lose it has happened. `Counted` ties
`retry` to the failures in a row.

**Transfer.** `OwnToken`: a connection carries the token of the call that
dialled it, through the backlog (`Queue`) to the handler. `NothingLost`: what a
download has saved and what is under way is what the handler wrote, and the
handler closes only after the whole file. `Entries`: the LRU list holds no token
twice, none that was taken, each with the kind its caller asked for, and all
that are out unless it has overflowed.

**Requests.** `RequestsInv` speaks of each request by itself. `Asking`: a
request waits to be written, is on its way, or is with the server, in one of
these places only, and an answer that was written is on its way while the caller
waits. `Serving`: how often a request was answered and freed at each place of
its goroutine, including a handler that answers more than once. `Real`: which
responses the service stands behind. `Clean`: whose data may be in what the
request holds; with clean pools (`PoolsClean`) that is its own unless it is in
`torn`. The queues hold a request once. `Registered` is an invariant of its own,
of the service map. Writing the proof showed that the model let the end of a
client's connection end a call of the HTTP gateway, which has none;
`InputEnds` now leaves those alone.

**Selectors.** The sums and the nearest servers are recursive functions over the
list. `Induction` (a set with 0 and the successors of its members is `Nat`) is
derived from the library's theorem that `<` is well founded, and gives what these
functions compute: a sum is additive, a gain of one server is a gain of the sum,
a positive sum has a positive term, and `Nearest` holds some of the nearest and
no other. `RingInv`: what the hash ring lacks has stayed with empty metadata.
`RoundInv`: from round robin's position on, going round, counts do not fall, and
no two differ by more than one (`Lap`). For the weighted selectors `ShareKept` is
far from inductive. `Account` says what `CurrentWeight` means: it is
`Picks * weight - count * Total`, the negative of `Ahead`, and adds up to 0 over
the list. That nobody is a call ahead follows: the best one has gained, and the
gained weights add up to `Total`, so the greatest is positive. How far one server
may be behind depends on all of them, so the invariant (`Shortfall`) bounds what
any set of k servers is short of together, by `Short(n, Total)[n - k]`. If the
selected server is in the set, it has paid `Total`, which is at least what the
set has gained. If it is not, it had the greatest weight of the set and itself,
so the k others have at most k / (k + 1) of what the k + 1 have together after
gaining, and the bound for k follows from that for k + 1, down from all n, who are short
of nothing.

Left to TLC: liveness under fairness (`EndedConnReleasesCallers`,
`FailedBeatClosesConn`, `ShutdownClosesConns`, `HandlersFinish`, `EveryoneEnds`,
`StopEnds`, `DeadIsForgotten`, `SentArrives`, `EveryoneIsAccepted`,
`TransferEnds`), which this prover does not do. Every safety property of a
passing run is proved.

## What the code does not do

Where a comment, a doc or the plain purpose of the code says otherwise. The
model does what the code does, and the properties name these cases as their
exceptions or assume them away.

Shown by a run, or by one changed constant:

- `Close` on a connection that is closing or shut down unlocks twice
  (`client.go:297` and the deferred one) and the process dies; the comment
  promises `ErrShutdown`. `input` sets `shutdown` when the peer goes away, so a
  single `Close` after that is enough. Run `close`.
- The message is freed before `IsOneway` is asked (`client_call.go:204-206`):
  when another goroutine has taken it for a one-way call, a two-way call
  succeeds without an answer. `OneWay = {a1}` in `RpcClient_calls.cfg` violates
  `NoFalseSuccess`.
- With `AsyncWrite` the channel is closed before the wait for the handlers that
  write to it (`server_serve.go:202`; the comment at 189 has the other order in
  mind). `AsyncWrite = TRUE` in `RpcServer_shutdown.cfg` violates
  `CountedAreAnswered`.
- `Close` of a server does not set `inShutdown`: a connection accepted meanwhile
  is served after it, with a writer that ends at once. `CanClose = TRUE` in
  `RpcServer_ends.cfg` violates `HandlersFinish`.

In the model, without a run:

- A request is counted by its own goroutine (`server_serve.go:263`): one that was
  read and not yet counted is not waited for.
- `Broadcast` and `Fork` signal a result before they record its error
  (`xclient_broadcast.go:69`, `xclient_fork.go:71`): the caller may return nil
  although a call, or every call, failed.
- Failbackup returns `err1`, which is nil, when the second call cannot be sent
  (`xclient_call.go:141`). `SuccessIsReal` has it as its exception.
- `RetriesAfterWatchFailed = 0` retries for ever (`discovery_consul.go:158-163`);
  the comment at line 27 says "0 means no retry".
- `Stop` of a registry plugin without `UpdateInterval` waits for ever
  (`consul.go:157`).
- The refresh goroutine re-creates a node that `Unregister` has just deleted
  (`zookeeper.go:100`); it expires.
- `Zip` returns bytes of a buffer that it has put back (`util/compress.go:72`).
  With `UsePool`, objects without `Reset` keep what they held (`pool.go:50`).
  `NoForeignData` has both as exceptions.
- `handleRequest` evaluates the arguments of its deferred `HandleError` early
  (`server.go:142`), so failures of the service leave the status Normal.
- A panic outside of the service leaves the caller unanswered
  (`server_serve.go:256`).
- `handleJSONRPCRequest` assigns to a field of a nil result
  (`server_jsonrpc2.go:87`).
- `UpdateServer` of the consistent hash removes servers that stay but have empty
  metadata (`selector_consistent_hash.go:36`). `FoundIfListed` has it as an
  exception.
- The pinger of the ICMP selector is never run, so its weights are 191 or 0; with
  all weights 0 the first server is selected.
- A cancelled `SendFile` or `DownloadFile` turns for ever (`xclient.go:286, 347`).
- `Stop` of the file and stream services closes a nil channel (`stream.go:176`,
  `file_transfer.go:207`), and `NewStreamService` ignores the acceptor it is
  given (`stream.go:48`).

## Not modelled

- **Codecs, compression formats, hashes**: external libraries. That they fail is
  a branch of `RpcClient` and `Requests`. What an encoding computes is data.
- **Layout of a message**: lengths and metadata bytes. They are sequential
  conversions without state; the header's bits, which several parts write, are
  in `Header`.
- **Transports** (`client/client_connect.go`, `server/listener*.go`, `kcp.go`, `quic.go`,
  `memconn.go`): constructors
  of listeners and connections.
- **Limiting, access, alias and tee plugins**: the limit is an external token
  bucket; that a plugin refuses a connection or a request is a branch of
  `RpcServer` and `Requests`.
- **Metrics, tracing, logging**: output.
- **mdns**: answers queries from a list and keeps nothing in a registry.
- **Buffer size classes, address and conversion helpers** (`util/`, `share/`):
  sequential access to data.
- **The deadlock of `serveConn` on its own `writeCh`** (`server_serve.go:226`)
  is listed as a hazard without a property: `server_ends` has no refused request.
- **Unlocked sorting of shared pairs** (`xclient.go:549, 577`): an order that no
  other part depends on.
- **Setters** of an xClient (`Auth`, `SetPlugins`, `SetSelector`): configuration
  before use.
