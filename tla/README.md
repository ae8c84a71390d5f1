# apipro: specifications, model checking and proofs

This directory holds TLA+ models of the parts of apipro where several
goroutines, requests or processes share state, the TLC configurations that
check them on small instances, and TLAPS proofs of the results that should hold
for every instance. `PROJECT.json` is the index: components, runs, the source
lines behind every definition, hazards and theorems.

Paths below are relative to the repository root.

## 1. The system

Two processes share a Redis and a database.

    clients --HTTP--> apipro-api --gRPC--> apipro-rpc ----> MySQL / SQLite
            --WS----> chat hub                   |
                          |                      v
                          +------------------> Redis
            snapshot files <-- JSONP endpoints

*apipro-api* (`cmd/api`) terminates the encrypted transport, limits the rate per
address, forwards calls, serves JSONP endpoints that also write snapshot files,
and runs the websocket chat hub (`pkg/wschat`). *apipro-rpc* (`cmd/rpc`) holds
the business logic: twelve display handlers behind a cache, and the account
handlers (login, registration, SMS codes, sessions). Shared libraries are under
`common/`.

### Inventory

State, who changes it, and what the code promises:

| part | source | shared state | promise |
|---|---|---|---|
| DB semaphore | `common/db/semaphore.go` | buffered channel, `waiting` | at most N queries at once, no token lost, waiters served |
| degrade manager | `common/degrade/degrade.go`, `recordDBErrorForDegrade`, gauge goroutine | mode, watcher channels | consumers see the most recent mode; detectors only make it worse |
| cache manager, fallback chain, warmers | `common/cache/*.go`, `NewServiceContext` | L1, Redis, singleflight group, breakers | one load per key, every request answered, what is cached can be decoded |
| display handlers | `cmd/rpc/internal/logic/call.go` | (through the cache) | key, type and error treatment fit each other |
| sessions | `common/auth/session.go` and its handlers | two Redis keys per session | a revoked session stays revoked, tokens rotate once |
| registration, SMS, captcha, uid counter | `call.go`, `sms_store.go`, `serviceContext.go`, `encrypted.go` | user table, codes, idempotency keys, counters | one account per phone, codes used once |
| login and sliding windows | `call.go`, `common/ratelimit/ratelimit.go` | ZSETs, failure counter, lock | wrong passwords lead to a lock, counters expire |
| multi-dimension limiter | `common/ratelimit/multi.go` | counters and ZSETs | slots are counted exactly and do not leak |
| chat hub, message ids | `pkg/wschat/hub.go`, `bootChatMsgIDCounter` | room maps, send queues, history list, id counter | room maps agree, entering misses no comment, closed connections go away |
| snapshots | `cmd/api/internal/handler/jsonp.go` | temporary and published file | the published file is always whole |
| encrypted transport | `pkg/codec/codec.go`, `middleware.go` | none | what one side encodes the other reads; the answer belongs to the request |
| builders and read queries | `cmd/rpc/internal/svc/builders.go`, `common/model/match_model.go`, `live_room_model.go`, `live_type_model.go` | tables that change between queries | the groups of a document agree, limits do not hide what should be shown |
| hashing, metrics, start-up, generated code | see section 7 | none, or start-up only | not modelled |

## 2. Conventions

* A handler is a sequence of steps. A step is one Redis command, one query, one
  channel operation, one locked section, or one file-system call, with the local
  computation that follows it. Steps of different goroutines interleave freely.
* `pc` and `job` (or `todo`, `at`, `doc`) are the handlers' program counters and
  locals. A variable that the code does not have is called a history variable
  where it is declared.
* A dependency in the constant `Faults` (or an event in `Events`) may fail at
  every step that uses it; the step then takes the code's error path. A failed
  command has no effect.
* Keys with a TTL may disappear at any time (`Expire` actions), except in
  `Session`, where the order of three TTLs matters and there is a clock, and in
  `HttpApi`, where a lookup finds a cached document or not.
* Data is reduced to what the properties tell apart: a document is a kind and a
  version, a comment its number, a file the sequence of documents its bytes come
  from, a window its size.
* `Ops`, `Methods`, `Faults` and `Events` choose which handlers and failures a
  run uses. Bounds are constants named `Max...` and appear only in guards.
* Where the code promises something only as long as two requests do not overlap,
  or no command fails, a history variable records the overlap or the failure
  (`raced`, `shared`, `failed`, `happened`, `fallback`, `calls`), and the property
  says what holds without it. The interleavings with the overlap are explored all
  the same, so that the exception is exactly as wide as the property says.
* `X_Something` next to a definition `X`, marked `Mutant`, is `X` with a
  plausible mistake. It is not part of the specification; putting it in place of
  `X` breaks the property named in `PROJECT.json`, which shows that the property
  depends on that detail of the code.
* `CHECK_DEADLOCK FALSE` is set where a behaviour may end because its calls,
  comments or tokens are used up or every connection is gone. The semaphore and
  the cache runs leave the check on.

## 3. Modules

**`Permits`** is the abstract semaphore: a set of holders no larger than the
capacity. **`DbSemaphore`** is the code: `Acquire` with its cancellation path,
`TryAcquire`, `Release`, `WithToken`, over a Go channel with the runtime's FIFO
queue of parked senders. `ImplementsPermits` maps the holders to the goroutines
whose element is in the channel.

**`DegradeModes`** has modes, levels and the service matrix, and is used by every
module that consults the mode. **`Degrade`** has the mutators (mode change and
snapshot of the watchers under the mutex: one step), then `notify` one channel
operation per step (send; on a full channel, drop the oldest and retry), the
registration of watchers at any time, and the gauge goroutine. `MaxCalls` bounds
a behaviour.

**`DisplayApi`** is the table of the display handlers: cache key, decoded type,
treatment of a database error, and what the warmers store. **`CacheManager`** is
`GetOrLoadT` over it: `Begin` (degrade gate), `GetL1`, `GetL2`, `Rejected` (open
breaker, fallback chain), `JoinFlight`, `Load`, `LoadDone`, `LoadFails`,
`Canceled`, the write-back goroutine (`WriteL1`, `WriteL2`), the warmers
(`RefreshLoad`, `RefreshStore`), and the invalidations in their separate
commands. The breaker of go-zero is external: it may reject when recent calls of
the family failed. The fallback chain is the one `NewServiceContext` builds.

**`Session`** has the access and refresh keys of each token as expiry times, the
handlers `Login` (last step), `GuestLogin`, `RefreshStart`, `Logout`,
`UserDetail`, and one action per Redis command: `Lookup`, `Get`, `DelSess`,
`DelRefresh`, `Persist`, `PersistRefresh`, with the queries `Status` and
`Reread`. `Ban` is the administrator's, outside this program.

**`Registration`** follows `handleRegister`: idempotency key, code, captcha,
semaphore token, duplicate check, uid (`AllocIncr`, `AllocFallback`), `Insert`,
session, cached answer; with `handleSmsGetCode`, `handleSmsCheckCode`, the
captcha endpoint, and `Boot`, a restart of the RPC service. The table's keys on
uid and phone are in `Taken`.

**`Login`** is one client address and one phone: three sliding windows in a row
(count, then add), lock, query, comparison (a choice), failure counter with its
separate `EXPIRE`, lock.

**`MultiLimiter`** is `Check`, `Acquire`, rollback, `Release` and the middleware
around a served request. The limiter is not wired into a service yet.

**`ChatHub`** has connections with a read pump (handlers one after another), a
write pump (`queue` shrinks), and the goroutine that removes a slow client from
its rooms. `members` is `Hub.rooms`, `rooms` is `Client.rooms`. A broadcast
copies the members in a locked section and sends afterwards, one client per
step. History is the Redis list with the table as a fallback; ids come from a
counter that the RPC service sets at its start.

**`Snapshot`** is `writeSnapshot` over POSIX files: open with truncation, write
(possibly short), rename; with crashes at every step.

**`Codec`** has padding, ECB, `Encrypt`, `Decrypt`, `EncodeFrame`, `DecodeFrame`
as operators over any byte size, block size and invertible block cipher (AES is
the assumption `CodecAssumption`). **`Catalog`** has the display queries
(selection, join, `ORDER BY ... LIMIT` with every order of ties) and the pure
parts of the builders as operators on a small table. **`HttpApi`** composes the
two with `DisplayApi`: `Send` puts bytes on the wire, `Transport` or
`JsonpHandler` unwraps them, `CallFails` and `Call` are `callRPC` and the handler
(gate, parameter, cache), `LoaderQuery`, `LoaderQueryFails`, `LoaderDone` are the
builder query by query and the write to the cache, `Read` is the client, and
`Edit` is the back office, between any two steps. Two properties are about the
bytes, three about documents built from one version of the tables
(`FreshDocs`).

## 4. Runs

Each run asks all its questions of one instance, with all failures of that
component enabled. "Bounds" says what the instance is and why it suffices.

| run | shows | bounds |
|---|---|---|
| `semaphore` | tokens are exactly the holders; `waiting` is exact; nobody is parked beside a free token; refines `Permits`; a parked goroutine is served | 4 goroutines, 2 tokens: a queue of two and a barging newcomer both occur |
| `degrade` | the calls the service makes never fan out two transitions at once; only `Set` and `DemoteIfBetter` lower the mode; consumers have or will get the current mode unless two fan-outs overlapped; the gauges converge | 2 callers, 2 watchers, channels of 1 (the second send overflows), 2 calls of any kind |
| `cache_flight` | one loader per key, a waiter has a leader, every request is answered | 2 requests (leader and waiter), Level 1 and 3, Normal and Emergency |
| `cache_keys` | what one handler caches the others can decode; no CDN document where errors are swallowed; a successful invalidation leaves nothing older in Redis unless a load or write was under way | 3 handlers over shared keys, 2 requests, 1 update |
| `session` | a session that has left Redis never returns; an answered logout ends the token; a token is exchanged once unless two refreshes overlapped or a command failed | 2 requests at a time, 4 in all, 3 tokens: a token, its successor and a competitor; the clock passes the two shorter TTLs |
| `registration` | all successful answers for a phone name one account; uids are fresh until the fallback was used; a code is accepted once unless two checks overlapped | 2 requests at a time on one phone, 4 in all, 2 tokens, a restart |
| `login` | no window admits more than its limit and one per overlapping request; a failure counter expires or leads to the lock, which follows | 2 requests, three windows of growing tightness, lock after 3 |
| `multi` | counters equal the slots taken until something fails or expires; no negative counter stays; a leaked slot has a TTL; windows overshoot only by overlap | 2 requests, a window, an inactive rule and slots |
| `chat_rooms` | the two room maps agree; an ended connection is in no room; only a connection whose queue was full is dropped; every closed read pump ends | 2 connections, queues of 1 so that every second frame removes a client, 4 events |
| `chat_history` | whoever is in a room has been sent what another replay would show, from the list or from the table | 2 connections, history of 1 so that trimming occurs, 2 comments, 5 events, Redis failing, list expiring, a start of the RPC service |
| `snapshot` | the published file is whole unless two writers overlapped | 2 requests, documents of two lengths, 3 files, crashes |
| `endpoints` | bytes made with the codec are refused only when a raw ciphertext begins like a frame; answer and request fit; no match is passed over for a later one but by its own type's limit; a listed match can be opened; the room groups agree | 6 byte values and blocks of 4 (one parameter makes a raw text begin with the frame bytes, padding of 1 and of a full block occur), 3 matches, 3 rooms, limits of 1 to 3 so that every LIMIT cuts, 2 requests, 1 edit and 1 failed query per document |

Two requests show what a third would: every step of the modelled handlers reads
or writes keys one at a time, and the races are between one handler's two
commands and one other handler. Where three parties matter (a queue of two behind
a full semaphore) there are four. `MaxEvents`, `MaxRequests` and `MaxCalls` bound
the length of a behaviour; each is larger than the shortest behaviour that breaks
the property when one of its mutants is put in place.

Symmetry is declared for requests and connections in the runs that check no
liveness.

### Where the code and its documentation disagree

Met while modelling. The models follow the code; the properties above are what
holds of it. Paths are under `src/`.

*Check, then act in separate commands.*

* `common/degrade/degrade.go:20` "Consumers always see the most recent mode":
  `notify` runs after the mutex is released, so two transitions can be sent in the
  opposite order of their stores (`ConsumersSeeMostRecentMode` excludes exactly that).
* `common/cache/manager.go:415` says `Invalidate` deletes from both caches; between
  the two deletions a hit in Redis puts the old value back in L1.
* `common/cache/manager.go:240` announces a second look at L2 inside singleflight;
  the loader is called at once.
* `common/auth/session.go:135` "rotates": two concurrent refreshes both issue.
* `cmd/rpc/internal/svc/sms_store.go:7` "Verify is one-shot": two concurrent checks
  both accept.
* `cmd/rpc/internal/logic/call.go:407` says the token avoids the race between the
  duplicate check and the insert; the semaphore has many tokens. The unique key then
  refuses the row, and line 464 reports it as a real database error.
* `common/ratelimit/multi.go:155` calls `Acquire` atomic; `common/ratelimit/ratelimit.go:40`
  counts and adds in two commands. Limits are exceeded by the number of overlapping requests.
* `cmd/api/internal/handler/jsonp.go:277` "atomically": requests share the temporary name.
* `pkg/wschat/hub.go:447` replays "last 50": `LRANGE 0 historyLim` includes both ends.
  `hub.go:800` assumes the list is in order of the ids; `INCR`, `INSERT` and `LPUSH` are separate.

*A failure between two commands.*

* `call.go:652`, `call.go:332-333`, `multi.go:189`: when the `EXPIRE` after the first
  `INCR` fails, the counter never expires.
* `multi.go:232` "paired": a request that failed open gives back slots it does not have.
* `session.go:200` "already gone": a Redis error of `Get` is taken for a missing session.
* `session.go:162` answers "banned" when the status query fails.

*A restart.*

* `serviceContext.go:120-121`: `SETNX` leaves a uid counter alone that the fallback has overtaken.
* `serviceContext.go:258`: `SET` takes the message counter back to a `MAX(id)` read earlier.

*The code does something else.*

* `degrade.go:184-185` "one notch at a time": `DemoteIfBetter` stores any better mode.
* `manager.go:207` tries the fallback chain on loader errors: only on a rejected call.
  `manager.go:309` says the next request will hit; what is stored may not decode.
* `serviceContext.go:183`, `:191`: the chain is not asked in Emergency mode, and reads another freecache.
* `call.go:717-718` says the warmers keep working; they store base64 strings under keys read as lists.
* `degrade.go:28-29` "Strong consistency": Level 3 joins a flight that began earlier.
* `session.go:167` "refresh window NOT extended": it is. `call.go:522-523` expects an
  expired access token to be refreshable: `Get` refuses it. `session.go:206-207`: `RevokeAllForUID` does nothing.
* `hub.go:862` "per-user rate limiting": per connection.
* `pkg/codec/middleware.go:94` "if that fails, try raw AES": the two first bytes decide, nothing else is tried.
  `middleware.go:107` documents `clientInfo:{sessionId, seq, plat}`: the fields are read at the top level.
  `encrypted.go:29` passes the header `X-Session` on; a session inside an envelope is not used.
* `builders.go:186` "Per-type cap = 30 items": the `LIMIT` counts (match, room) rows.
* `common/model/match_model.go:137` "hot upcoming matches": there is no condition on the time.
* `common/model/chat_room_message_model.go:50-51` announces oldest-first, the query is
  newest-first, as its caller expects.
* `encrypted.go:234-235` calls the SMS path fail-open; `handleSmsGetCode` refuses when its cooldown command fails.

## 5. Fairness

Weak fairness, always of the steps of a goroutine that has started and is not
waiting for input; never of the arrival of calls, of failures, of expiry or of
cancellation.

* `DbSemaphore`: a goroutine inside `Acquire` runs, and a holder gives its token
  back (`WithToken` releases after f, whether f succeeds, fails or panics). That f
  ends is an assumption about the environment: the query runs under the context
  of the RPC call, which go-zero's server ends. Weak fairness suffices because
  the channel's queue is FIFO.
* `Degrade`: a running `notify` and a gauge goroutine with something to receive.
* `CacheManager`: the steps of a request, its loader (which ends or fails, under
  the same assumption on queries), and its write-back.
* `ChatHub`: handlers, the read error of a closed connection, the removal of a
  slow client. Not the write pumps: a client that reads nothing is the case of
  interest, and sends never block.
* `Login`: the steps of a request; a Redis command answers or fails (the client
  library's timeouts, external).

## 6. Proofs

Every invariant and every action property that a run checks is also proved, by
TLAPS, for all values of the constants that the named assumptions allow. What the
runs check beyond that is liveness, which this prover does not reach.

| module | proves | inductive invariant |
|---|---|---|
| `DbSemaphoreProofs` | `DbSemaphore`, refinement of `Permits` | `IInv` |
| `DegradeProofs` | `Degrade` | `FanOut` |
| `DocumentProofs` | `CacheManager`, `Snapshot` | `Led`, `DocsSound`, `Answers`, `Sticks`; `Alone` |
| `SessionProofs` | `Session` | `Known`, `LogoutInv`, `RotationInv` |
| `RegistrationProofs` | `Registration` | `Accounts`, `UidsBehind`, `CodesUsed` |
| `LimiterProofs` | `MultiLimiter`, `Login` | `Counted`, `Owed`, `Lives`, `Overshoot`; `LoginOvershoot` |
| `ChatHubProofs` | `ChatHub` | `MapsInv`, `DropInv`, `Hist` |
| `HttpApiProofs` | `Codec`, `Catalog`, `HttpApi` | `Wired`, `Built` |

### Assumptions

`SemaphoreAssumption`, `DegradeAssumption`, `NobodyAssumption`,
`SnapshotAssumption`, `SessionAssumption`, `MultiLimiterAssumption` and `SomeSlot`,
`LoginAssumption`, `ChatHubAssumption`, `CodecAssumption`, `HttpApiAssumption`.
They say that capacities and limits are natural numbers (positive where the code
has a positive literal), that bounds and lifetimes are natural numbers, that
documents are not empty, that the value for "no request" is none, that a login
passes at least one limiter and is locked after more than one failure, and that
there are finitely many goroutines at the semaphore and requests at the limiters.
`CodecAssumption` has the one fact about AES: the two directions of a block are
inverse to each other. `HttpApiAssumption` types the requests and the tables, and
says that the 6 bytes of a frame's header are no multiple of a block (16 in the
code), and that a byte is large enough for the status codes and, because an answer
names its document by a number, for the number of requests. All of them are
evaluated by TLC in the runs.

### Arguments

**`DbSemaphoreProofs`**: `SpecTypeOK`, `SpecTokensAreHolders`,
`SpecWaitingIsExact`, `SpecParkedOnlyWhenFull`, `SpecImplementsPermits`. The
inductive invariant `IInv` is the conjunction of the four invariants. None of them
is inductive alone: `Release` hands its token to the head of the queue, which
keeps the count only if that goroutine is parked, and the queue is empty when the
count drops only because nobody is parked beside a free token. Cardinalities are
handled by four counting lemmas, the removal of a canceled goroutine from the
middle of the queue by `RemoveAtProperties`. The refinement follows from `IInv`,
action by action.

**`DegradeProofs`**: `SpecTypeOK`, `SpecWiredAtMostOneNotifier`,
`SpecConsumersSeeMostRecentMode`, `SpecOnlyRecoveryLowers`. The invariant `FanOut`
describes a fan-out under way: every registered watcher is either still in the
notifier's list, and the notifier carries the current mode, or already has the
current mode as its last queued value or its exported one; and after a drop the
retry finds room. The wired theorem shows that the calls the RPC service makes
(only `recordDBErrorForDegrade`, which promotes from Normal to Degraded once) never
overlap two fan-outs, which is the exception of the consumers' theorem.

**`DocumentProofs`**, the cache: `SpecSingleFlight`, `SpecNoRedirectWithoutErrors`,
`SpecSharedKeysAgree`, `SpecInvalidationSticksInL2`. `Led` is `SingleFlight` seen
from the requests. The other three speak of what is in a cache, and what a finished
load, a write-back goroutine or a warmer carries enters it later; so the invariants
speak of every document *in stock*: in Redis or on its way there (`InStock`). One
lemma per group of actions (`Flow...`) shows that a step brings into stock only what
was there or what a loader, a warmer or the fallback chain has just made (`New`).
From it, `DocsSound` (decodable by every handler of the key, the CDN document only
where a breaker can trip) and `Sticks` (not older than the last invalidation) are
shown once for all actions. `Answers` carries `SharedKeysAgree` over to the answers.

The snapshot files: `WholeAlone`. `Alone` says, while no two writers have
overlapped, that the writer's descriptor is the temporary name's file, that this is
not the published one, and what it holds at each stage; a leftover of a crash is
covered because opening truncates.

**`SessionProofs`**: `RevokedForGood` (an action property), `LogoutForGood`,
`RotationOnce`. `Known` says that clients and requests hold only tokens that were
issued, so that `persist` writes a key nobody holds; from it every step keeps old
records and never sets an old session key (`Onward`). `LogoutInv` adds what a logout
between its two `DEL`s has achieved. `RotationInv` follows an exchange from `Get`
over the `DEL` to `persist`: an exchanged token has no session, and a refresh past
its `Get` is the first and only one for its token. The property alone is not
inductive, since nothing in it keeps a late `persist` from issuing a second time.

**`RegistrationProofs`**: `SpecOkAnswersAgree`, `SpecUidsFresh`, `SpecSmsOneShot`.
`Accounts`: the unique key on the phone keeps one row per phone, and an answer that
is given, cached, or about to be given (a request past its `INSERT`) names a row;
without the requests in between, a late `idemSet` could cache anything.
`UidsBehind`: until the fallback is used, the counter is not behind any uid that is
stored or carried to an `INSERT`, and a restart seeds it with the largest one of the
table only if it does not exist. `CodesUsed`: without an overlap at most one request
is between comparing a code and deleting it, and an accepted code is neither stored
nor carried; with `CodesKnown`, a new code is one that nobody has.

**`LimiterProofs`**, the limiter of several dimensions: `SpecCountExact`,
`SpecNoNegativeDrift`, `SpecLeakExpires`, `SpecWindowOvershoot`. `Counted` adds to
`CountExact` what a request holds at each point of its loops (`Paired`), without
which a release might give back a slot that it does not have. `Owed`: below zero,
some request is still to look at the counter and reset it. `Lives` adds that a key
that does not exist counts 0. `Overshoot` counts the requests that have passed the
check of a window as members already.

The login: `SpecRateOvershoot`, `SpecLockFollows`, `SpecFailCounterExpires`, for any
requests, limiters and limits. The last two are inductive beside the types of the
variables. The first is not: a request between `ZCARD` and `ZADD` adds its member
whatever the window holds by then, so `LoginOvershoot` counts these requests too.

**`ChatHubProofs`**: `SpecMembershipAgrees`, `SpecGoneIsNowhere`,
`SpecOnlySlowAreDropped`, `SpecJoinMissesNothing`, for any connections, rooms, queue
sizes, limits, frames and failures. `MapsInv` joins the first two with the types of
the maps: `GoneIsNowhere` needs the agreement, because `unregisterAll` leaves the
rooms that the client's own map names, and it needs that a handler about to join
belongs to a read pump that has not ended. `DropInv`: only clients whose queue was
full have a removal pending. `Hist` extends `JoinMissesNothing` to every point of the
handlers (`Covered`): a comment that a replay would show is in the client's queue, or
some handler has still to broadcast it to that client, or the client's own replay has
read it. The broadcast's copy of the members is taken after the comment is stored,
and the replay reads after the client has joined; each of the two orders is used in
one case of the proof. What the table's newest rows and the list's first entries are
after an insertion, a trim or an expiry is in lemmas of their own.

**`HttpApiProofs`**, the codec: `DecryptEncrypt`, `EncryptDecrypt`,
`FrameRoundTrip`, facts about the operators (no state): both directions of the
inverse, through lemmas on padding and on blocks.

The requests: `SpecRefusedOnlyIfAmbiguous`, `SpecAnswerFitsRequest`. `Wired` says for
each phase of a request what its bytes or the call in progress have to do with what
was sent; the codec's theorems carry it over the two encryptions. A raw
ciphertext that begins like a frame is refused and never misread, because its length
is a multiple of the block size and that of a frame is not.

The documents: `SpecEarlierIsListed`, `SpecListedCanBeOpened`, `SpecRoomGroupsAgree`.
They hold of documents that no edit has overtaken, but a document is read by several
queries with edits in between; `Built` says of every such document, and of the groups
a loader has so far, that each group is an answer its query may get from the present
tables (`DocFits`, `GroupFits`), and every edit makes all older ones exempt. What
follows from that for the lists (`DocsEarlier`, `DocsOpened`, `DocsAgree`) is a fact
about the operators of `Catalog`: about selections cut by a limit, with ties in any
order.

### Only model-checked

Liveness (`ParkedIsServed`, `GaugeConverges`, `EveryRequestAnswered`,
`ClosedGoesAway`, `LockEventually`), which rests on fairness and so on `ENABLED`.

## 7. Not modelled

* `BuildGiftRank`, `BuildUserInfo` and the single-table reads behind them: one row
  set copied into one document. Columns that only travel from a row to a document.
* The auth handlers of the HTTP service forward to methods modelled in `Login`,
  `Registration` and `Session` (the captcha endpoint is in `Registration`); static
  files are plain reads.
* AES itself, and password hashing: pure functions with unit tests.
* Metrics, logging, request ids: written and never read by the program.
* Opening the database, configuration, wiring: sequential and before any request;
  what the wiring decides is part of the models it concerns.
* Generated code, SQL schemas, the demo page, start scripts.
* Inside modelled parts: the HTTP client of the OSS fallback (never reached with
  the empty base URL it is given), the unused legacy read path and invalidations of
  `common/cache/cache.go`, the number in viewer-count frames (no order is promised),
  collisions of the nanosecond timestamps used as ZSET members, the development
  bypass of SMS codes, `SelfTest` and statistics of the cache manager.
* `c.rooms` is read without the hub's lock in two handlers while `unregisterAll`
  replaces the map. The read sees the old or the new map; both outcomes are
  covered by the interleavings of the locked section with the read.
* Concurrency in `HttpApi`: its requests come one after the other. What concurrent
  requests do to the cache is in `CacheManager`, to the snapshot files in `Snapshot`.

## 8. What could follow

* `Registration` and `Session` in one module (the session step of
  `handleRegister`), and `DbSemaphore` below `Registration` through `Permits`.
* An atomic publication as an abstract specification that `Snapshot` implements
  while writers do not overlap; a session that is absent, live or gone, for `Session`.
