# A verification development of Nexus Relay

Nexus Relay is a Nostr relay front end in TypeScript. It proxies clients to a
strfry relay and lets registered clients ("peers") fetch events from each other
over WebRTC, with the relay as directory and signalling server. These TLA+
modules model what keeps state in it: peers, their connections and events, what
they earn, the upstreams of a client, and the browser library at the other end.
TLC checks small instances, TLAPS proves the main invariants for every instance.

Paths below are relative to the repository's root.

## 1. Inventory

| Component | State it keeps | Operations | Talks to |
|---|---|---|---|
| Peer registry (`src/peers/manager.ts`, `src/signaling/handler.ts`, `src/server.ts`) | `clients`, `registeredPeers` | register, heartbeat, disconnect, orphan notices | Redis, every tracker below |
| Classifier (`src/peers/classifier.ts`) | `peerReputation`, `peerEventsServed`, `peerPublicKeys` | initReputation, adjustReputation, classifyPeer, promotePeer, demotePeer, the 60 s sweep | Redis, cache tracker, badges |
| Peer records (`src/redis/client.ts`) | `nexus:peer:<id>` hashes with TTL, `peers:all`, `peers:casual`, `peers:super` | setPeer, setPeerStatus, removePeer, refreshPeerTtl, set commands, cleanup at start | Redis |
| Connection tracker (`src/peers/connections.ts`) | `superPeerConnections`, `peerToSuper` | registerConnection, removeConnection, handleSuperPeerDisconnect, cleanupPeerConnections | none |
| Cache tracker (`src/peers/cache-tracker.ts`) | `peerEvents`, `eventPeers`, `eventMeta`, `authorEvents`, `kindEvents` | addEventToPeer, removePeerFromCache, pruneOldEvents, findPeersForFilter | none |
| strfry proxy (`src/proxy.ts`) | `upstreams`, `pendingMessages`, `reqTimestamps` | proxyToStrfry, _proxyRaw, closeUpstream, WebSocket listeners | strfry, profile cache |
| Broadcast (`src/broadcast.ts`) | its WebSocket, reconnect timer, `confirmedEventIds` | forward new events to peers, evict, reconnect, stop | strfry, cache tracker |
| Rewards (`onStats`, `src/payments.ts`) | `lastReportedServed`, `peerIdentity`, event counts, `pendingPayments` | verify a report, adjust the reputation, pay | broadcast, LNBits |
| Rate limiter (`handler.ts`) | `rateLimits` | isRateLimited, cleanupRateLimit | none |
| Router (`src/router.ts`) | none | route, smartReq | all of the above |
| Profile cache (`src/redis/profile-cache.ts`) | profile hashes in Redis | cacheProfile, getCachedProfiles | Redis |
| Feed proxy (`src/feed-proxy.ts`) | one WebSocket per request | serveFeed | feed engine, strfry |
| TURN credentials (`src/server.ts`) | `turnCache` | generateTurnCredentials | Cloudflare |
| Badges, metrics, HTTP, utilities | counters | publish, count, serve files | strfry |
| Browser library (`lib/src`) | peer id and role, WebRTC peers, IndexedDB | connect, register, offers, signals | the relay, other browsers |

What makes these parts hard:

* The process has one thread but nearly every handler is an `async` function
  that gives it up at each Redis command. Two heartbeats, the 60 s sweep, a
  registration and a disconnect of one client interleave command by command.
* `ws` emits `close` after `error`, and `server.ts` calls `handleDisconnect`
  from both.
* `registeredPeers`, the hash, the three sets, the reputation, the cache index
  and the connection maps describe the same peer and are written at different
  times. The hash can vanish on its own, when its TTL runs out.
* `setPeer`, `promotePeer`, `demotePeer` and `removePeer` are sequences of
  commands with nothing to make them atomic; Redis may fail, and the process
  may die, between any two.
* The listeners of an upstream find the client's entry by id, so those of an
  old WebSocket act on the entry of its successor. The same holds of the browser
  library, whose `onclose` cleans up whatever session the client has by then.
* A profile REQ waits for Redis and a feed REQ for the Feed Engine while what
  the client sends next goes on; the client may be gone when they return.
* Two browsers fetch from each other over a relay that drops signals past a
  limit, and neither end knows which instance a signal was meant for.
* Reports are cumulative, are cut by both ends at different times, and turn into
  reputation and money.

What would make each part correct: a live registered peer can be found through
the index; a peer that has left leaves nothing; a role is in one set and in
the hash alike; a record expires; an orphan is told once; no super peer is
overbooked; the five maps of the cache index are one relation, and a filter is
answered from them as from that relation; a message reaches strfry once, in
order, in the end; a feed REQ has one EOSE; a cached profile gives way only to a newer one;
a reputation survives its connection and stays above the baseline; what is paid
was served and is paid once; a WebRTC connection belongs to a session that
lives, and a fetch nothing disturbs completes.

## 2. Modules

| Module | Models | How its state corresponds to the code |
|---|---|---|
| `Clients` | the UUID per WebSocket (`server.ts`) | constants only |
| `PeerStore` | `redis/client.ts` | `hash[c]` is the peer's hash: its status, whether it is complete, whether it has a TTL; `sets` the three index sets |
| `Connections` | `peers/connections.ts` | `links.peers` is `superPeerConnections`, `links.super` is `peerToSuper`; each operation an operator on the pair |
| `PeerRegistry` | `manager.ts`, `classifier.ts`, the message handlers, `server.ts`, `index.ts` | extends the two above; see below |
| `CacheTracker` | `peers/cache-tracker.ts` | the five maps by their names, one action per operation, `FindPeersForFilter` as an operator |
| `EventDirectory` | nothing of the code: the abstract specification of `CacheTracker` | one relation `holds` and what is `known` of an event |
| `Broadcast` | `broadcast.ts` | `listener` is the WebSocket, `timer` is `reconnectTimer`, `confirmed` is `confirmedEventIds` in its order of insertion |
| `Signaling` | the handlers of `handler.ts` that never wait, over `Connections` and `Broadcast` | `win` is `rateLimits` for one type, `client` the clients map with `registeredPeers` |
| `Upstream` | `proxy.ts`, for one client | `upstream`, `pending` are its entries in the two maps; `ws`, `first`, `sent` the WebSockets made for it |
| `ProfileCache` | `redis/profile-cache.ts`, for one author | `stored` is `created_at` of the cached version, `checks` the HGETs under way |
| `Session` | `router.ts`, `feed-proxy.ts` and the profile REQs of `proxy.ts`, for one client | extends the two above; `feed` is the stage of each feed REQ, `timer` its ten seconds |
| `Rewards` | `onStats`, the reputations of `classifier.ts`, `payments.ts` | `rep`, `served`, `pk`, `due`, `pending` are the maps of the code, `stored` the reputations in Redis, `call` the calls of `payPeer` that run |
| `PeerClient` | `lib/src/client.ts`, `p2p.ts`, `cache.ts`, with as much of the relay as they see | `sock`, `ws`, `p2p` are the WebSockets, `this.ws` and `this.p2p`; `peers` is `P2PManager.peers` per session; `index`, `last`, `credit` belong to the relay |
| `...Proofs` | theorems about the module they are named for | |
| `DataLemmas` | lemmas about sequences without repetitions and about the sum of a function | used for `wire`, and for every property that compares a count with a sum |
| `MC...` | instances for TLC | |

`MCMemory`, `MCSession` and `MCRewards` check in one run what shares no state. Their
variable `part` says whose steps a behaviour takes, since the product of the parts would
show no more than each of them. `MCMemory` takes the steps of the links (`LinksNext`), or
of the index (`CacheTracker`), or of the listener and the gate of one client. `MCSession`
takes those of a session with one look-up at a time of one version, or those of the
profile cache alone with all of them. `MCRewards` takes those of the reputations, where no
address is given, or those of the payments, where its `View` counts states as one that
differ only in what no payment reads (the reputations, in memory and in Redis). The
theorems are about the modules as they stand, without parts.

### PeerRegistry

A running handler is a *task*: a slot with the client it serves and `pc`, the
one Redis command it waits for. `wire` is the queue of commands on the one Redis
connection, of which the first `done` are executed and not yet answered.

* `Register`, `Heartbeat`, `SocketError`, `SocketClose`, `ClassifyAllPeers` start
  a task, after the checks the handler makes before its first `await`.
* `RedisExec` executes the next command of the queue (`Execute` is the command's
  effect on `PeerStore`, `Answer` its reply).
* `Resume(i)` lets the handler of the i-th answer go on to its next command or to
  its end, with everything it assigns on the way (`RegisterStep`,
  `HeartbeatStep`, `ClassifyStep`, `DisconnectStep`).
* `CacheHave`, `Stats`, `P2PConnected`, `Broadcast`, `PruneOldEvents` never wait
  and are one step each.
* `Expire` removes a hash whose TTL ran out; `RedisFault` rejects every command
  in flight; `Crash` and `Restart` lose the memory and run `cleanupStaleSets`.

Answers are handled in the order of their arrival if they arrive apart
(`Chunk = 1`). Answers in one chunk resolve their promises together, and the
order in which the handlers go on then depends on how many promises each has
nested; `Chunk > 1` allows any order among that many.

Data abstracted away:

* **Age, bandwidth and storage.** A read of a complete casual hash answers
  "casual" or, as a free choice, "eligible".
* **Reputation.** `scored` holds the clients that have an entry in
  `peerReputation`. `Rewards` has the values: an entry is never below the baseline
  of 70 (`ReputationFloor`, proved), so it always meets the 50 for a promotion
  and never the 30 for a demotion, while a missing entry counts as 0 and does the
  opposite.
* **The cache index** is, for this module, the set `cached` of clients with at
  least one event.
* A RECONNECT notice is counted in `notices`, up to 2.

`past` is a history variable. It records what befell a client, so that a
property can say precisely which behaviours it excepts; no action reads it.

| mark | meaning |
|---|---|
| `register`, `again` | it registered once; more than once |
| `lapsed` | a heartbeat found its hash expired |
| `fault` | Redis failed while a handler worked for it |
| `raced_register` | its socket left while `registerPeer` was running for it |
| `raced_classify` | its socket left while a heartbeat or a sweep was to classify it, or a sweep started with it after it had left |

### Signaling, Broadcast

The handlers of messages are one step each, since none of these waits for Redis. Of a
registration, a heartbeat and a disconnect the module has the moments at which they
touch what is kept in memory: `Register` enters `registeredPeers`, `Lapse` leaves it
since the hash is gone, and a disconnect is `Disconnect` (which goes no further for a
client that is not registered), `OrphanPeers` and `Cleanup` as Redis answers, perhaps
twice, or `DisconnectFails`. Between these anything else may happen; which commands
are sent is the subject of `PeerRegistry`. `uncleaned` names the clients that lapsed and
did not register again and those whose disconnect failed: the code leaves their
connections. Time is the *age* of what is remembered, which makes the state
finite without a bound on the clock. `recent` counts what was let through at
each age, `age[e]` the messages since an id was put in the confirmed set, and
`leaked` collects the slots whose peer has moved or lost its pointer: histories the
properties need and no action reads. The maps (`LinksNext`) and the windows
(`GateNext`) never read each other, since reports of connections are not rate limited. The forwarding of an event is in
`PeerRegistry`.

### Upstream, ProfileCache, Session

No entry of one client touches another's, so the modules follow one client. A
message is a number, in the order of sending. A profile REQ waits in `lookups`
for Redis before it reaches `_proxyRaw`; a feed REQ goes through the stages
`ids`, `connecting`, `open`, `timedout`, `answered`, `over`; in `timedout` and `answered`
the relay has called `close()` and the listeners are still there. What the Feed Engine gives
back is proxied as any REQ is, through Redis if it asks for profiles only. The aborted handshake of a socket
that is closed while it connects is the same as a closing one: its events come
later and forget the entry and the queue.

Redis executes and answers the relay's commands in the order they are sent, so
`CacheProfile` reads as it sends and `CheckAnswered` compares and writes. The
write is sent as the answer is handled, after which the order is fixed. Other
clients bring profiles too; that is no other than this one bringing them, since
any REQ may bring any version.

`Session` composes the two: any message may bring a profile, and a profile REQ
is answered from the cache or goes on. `excused` says of a feed REQ what went wrong with
its connection: an answer or an error after `close()` makes another EOSE each
(`lateAnswer`, `lateError`), and a socket that strfry closes (`hangUp`), or that opened
only after the timer was spent (`slow`), may make none. `ProfileSpec` is the cache alone,
with any version arriving at any time; `behind` marks a look-up sent while a newer
version was being looked up.

### Rewards

A reputation counts half points (the decay is half a point). What Redis has is
`stored`, as of all SETs sent so far; a GET keeps what it read in `read` until it
is answered. The registrations of one connection follow each other here (their overlaps
are in `PeerRegistry`); after a lapse the next may give another key, or none, while the
counts of the connection go on. A GET, a SET or the commands before a cleanup may fail
for the clients in `Failing`. Three histories say what the code writes over or leaves
behind: `raced` names the connections of a key that another connection used, and those
whose reputation changed while it was loaded; `unsaved` those whose last GET or SET
failed, or that registered again without their key; `inherited` the keys registered by a
connection that had a count left of another. The constants of the code are scaled: a
threshold of 2, a bonus at every second event, a boost of 3 half points at most.

### PeerClient

A session is one WebSocket of a browser; its P2PManager is named by it. The
relay gives each an id of its own, so a manager names the other end by session.
`chan` holds the signals from one session to another, in order, since each goes
over two WebSockets and a relay with one thread; the relay drops what is past
the rate limit. Every SimplePeer instance has a number: a signal says from which
it comes and which it answers, and `Take` is what SimplePeer does with a signal
that fits or does not (it destroys itself). `marred` holds the pairs of sessions
between which something was lost, so that `FetchEnds` can claim all the others; `cut`
the browsers whose session was torn down by the late close of an earlier socket.

## 3. Runs

| Run | Instance | Shows |
|---|---|---|
| `registry` | 1 client, 3 tasks, strict order, every failure, the sweep | indexing, roles and TTL hold, and leftovers have a cause, over every interleaving of three handlers of one client |
| `live_registry` | 1 client, 2 tasks, answers in pairs, expiry and Redis faults, the pruning without the sweep | a clean close is cleaned up in the end, also when answers are handled out of order |
| `links` | 2 clients, 2 tasks, no sweep, no failure | the connection maps across handlers of two clients: orphans are told once, nothing of a closed client stays unexplained |
| `memory` | links: 3 clients, a limit of 2 peers; gate: 3 messages per window of 2 ticks, 2 event ids for a set of 2; index: 2 peers, 2 events, 2 authors, 2 kinds, 2 dates, 4 ticks | the connection maps under registrations, lapses, reports and disconnects that wait, run twice or fail; the rate limiter where windows meet; the listener and the confirmed ids; the five maps, the filter and the refinement of `EventDirectory` |
| `upstream` | 3 messages, 3 WebSockets, 1 feed REQ, every failure; profile cache: 3 versions, 4 look-ups under way | order, uniqueness, queue ownership, EOSE, progress; which profile stays in the cache |
| `rewards` | 2 connections, 2 keys, 2 calls, a threshold of 2, any command may fail; 4 events a connection for the reputations, 2 for the payments | reputations over reconnections, changes of key and failures; payments over lapses, changes of key and failed calls |
| `p2p` | 2 browsers, 3 sessions, 2 events, 1 fetch each | sessions, connections, credits, and fetches that complete |
| `ghost_registration` | 1 client, 2 tasks, no failure | counterexample to "always current" (`src/broadcast.ts:88`) |
| `stale_offer` | the same, with expiry | counterexample to "Cache should be cleaned" (`tests/test-fase4.ts:136`) |
| `immortal_hash` | 1 client, 2 tasks, no failure | counterexample to the TTL of `peer:{id}` (`ARQUITETURA.md:90`) |
| `two_upstreams` | 3 messages, 3 WebSockets, dropped connections | counterexample to "One strfry connection per Nexus client" (`src/proxy.ts:28`) |
| `older_profile` | 2 versions, 2 look-ups | counterexample to "Só atualiza se o evento é mais recente que o cacheado" (`src/redis/profile-cache.ts:34`) |

Why the bounds are enough.

* *Registry.* `Task` bounds handlers *at a time*, not in all: a slot is used again.
  All that is shared between two handlers of different clients is the queue and
  the connection maps, so the interesting races are among handlers of one
  client, and three cover those found: a disconnect beside a heartbeat beside a
  sweep, `error` and `close` beside a promotion. Once Redis failed a client, which most
  properties except, two at a time are left (`AfterFault`). `links` adds the second
  client; a sweep does not touch the connection maps.
* *memory.* Three clients and a limit of two let a super peer be full, also with
  itself, a peer move twice, and a client be reported while it leaves. In a window of two
  ticks the limit of three can pass at its end, and the next window begins one tick later,
  within what `recent` counts; refused messages go on being counted. Windows of different
  clients share nothing. A set of two ids is full after two. In the index the limit of
  two events per peer is reached, and four ticks with a `MaxAge` of one make events old.
* *upstream.* Three WebSockets are a stale one, its successor and the successor of
  that, and three messages open them. `Session` passes on only whether a profile is
  cached; which version is the question of the profile cache, where four look-ups of three
  versions let newer, equal and older ones surround each other, and what is behind one
  newer version be ahead of another.
* *rewards.* Two connections of one key, of two, or of none, and a change
  from one key to the other, are all that can meet in Redis or in the pending set; two
  calls would be the double payment; two events for each connection are two
  payments, of which one may be skipped, or half a payment before and half after a change
  of key.
* *p2p.* Each browser holds one event the other wants, so both may fetch at once;
  the second session of one of them makes late closes, stale instances and
  signals for a session that is gone. Which event a browser gets from the relay
  (`Fed`) and which may expire (`Mortal`) is fixed, for the size.

`MaxMsg`, `MaxWs`, `MaxFeeds`, `MaxServed`, `MaxFetch` bound behaviours, so runs of
`Upstream`, `Session`, `Rewards` and `PeerClient` stop when they are used up and
deadlock is not checked there.

`Timers` says which of the two timers of `src/index.ts` run. The pruning of the
cache index can only take a client out of `cached`, where `CacheHave` and
`Broadcast` put it; it is left to `live_registry` and the counterexamples. The sweep is
left to `registry`, which checks what it may do wrong, and to them. `Failures` likewise
names what may go wrong. Distinct states: `links` 1.3 million, `registry` 0.9,
`rewards` and `live_registry` 0.5, `upstream` 0.4, `p2p` 0.1 million, `memory`
47 000 (of which the index, all of whose constants are symmetric, has 300).

Clients, tasks, keys, calls, and what the index is about, are symmetric in `registry`,
`links`, `memory` and `rewards`, which check no liveness.

### Fairness

`PeerRegistry`: weak fairness of `RedisExec` and of `Resume(1)`. Redis answers
what it was sent, and the event loop runs the continuation of an answered
promise; nothing in the code can hold either back. No message, timer or failure
is assumed to happen. `CloseIsCleaned` is thus about closes only, and it
excepts, with `Tidy`, a client one of the hazards befell.

`Upstream`, `Session`: weak fairness of `LookupDone` (Redis answers), of the end of a
connection attempt of each WebSocket (it opens or is refused), of `Closed` (`ws`
ends a closing handshake after 30 s at the latest), of the Feed Engine's answer and of
the ten-second timer. That strfry answers a feed REQ is *not* assumed. The Feed Engine's
answer is: `http.get` has no timeout, and one that never answers leaves the REQ
waiting. A client is not assumed to send or to leave.

`Rewards`: none. `fetchWithTimeout` clears its timer when the headers arrive, after which
only the HTTP client's default of 300 s between two chunks bounds the body, so that
nothing in the code makes a call of `payPeer` end. What the code does promise is an
invariant: a key is pending only as long as a call is at work for it (`PendingAtWork`).

`CacheTracker`, `Signaling`, `ProfileCache`: none; only safety is stated of them.

`PeerClient`: weak fairness of the exchange as a whole (`Handshake`): what was sent
arrives or was dropped as it was sent, WebRTC connects two instances that have each
other's descriptions, IndexedDB answers. Nobody is assumed to connect, fetch or
leave.

## 4. What the code leaves open

The properties hold *but for* these sequences, which the marks of `past` name.
The violation runs show five of them as disagreements with a statement of the
repository: 1, 2, 3, 7 and 10. In 13, 16 and 17 the code differs from a comment too; no
property asserts what the code does there.

1. A client that closes while `registerPeer` waits for Redis is registered after
   its disconnect has found nothing to do. It stays in `registeredPeers`; the
   sweep goes on classifying it (`raced_register`).
2. A heartbeat that finds the hash expired removes the client from
   `registeredPeers` only. The disconnect then returns early: cache entries,
   connections, reputation and set memberships stay (`lapsed`; `uncleaned` in `Signaling`).
3. A promotion decided before the disconnect's DEL recreates the hash with one
   field and no TTL, and adds the client to `peers:super` (`raced_classify`).
4. A super peer that lapses and registers again is in `peers:casual` and
   `peers:super` (`again`).
5. A Redis error in `handleDisconnect` is swallowed, and the cleanup ends there;
   one in the sweep ends the process (`fault`).
6. A peer reported by a second super peer keeps its slot at the first; when the
   first disconnects, the peer's pointer to the second is deleted.
7. The listeners of a replaced upstream delete the entry and the queue of its
   successor, so that two upstreams of one client may be open.
8. A REQ that waits for Redis or the Feed Engine goes to `_proxyRaw` after its
   client has left, and opens an upstream that nobody closes; it also sends what
   `closeUpstream` left in the queue.
9. A feed REQ gets another EOSE if strfry answers after the timeout, and another if an
   error follows the relay's own `close()`; and none if strfry
   closes the socket first, or opens it after the timer has fired and then does
   not answer (`excused`).
10. Of two profiles looked up at once the older may be written last (`behind`).
11. A report or heartbeat that comes while the reputation is loaded is
    overwritten by it, and two connections of one key overwrite each other's
    (`raced`). A SET that fails is forgotten; after a GET that failed the client is
    registered without a reputation, and its next report overwrites the one Redis
    has with one that starts from the baseline (`unsaved`). A connection that registers
    another key after a lapse has it paid for events of the first (`inherited`). A payment due while another is pending is forgotten.
12. A repeated event evicts an id from a full `confirmedEventIds` and adds none.
    After `stopBroadcastListener` the close event schedules a reconnection.
13. Up to one less than twice the limit of messages passes within a window's length
    (`RateIsBounded`), though `src/signaling/handler.ts:35` calls the windows sliding.
14. The late `close` of an earlier WebSocket tears down the session that followed it
    in the browser (`cut`). Connections of that session made afterwards have no
    `this.ws` to send over.
15. A browser that has a connection to a peer drops every further offer of that
    peer, and two that fetch from each other at once destroy both attempts
    (`marred`).
16. A filter with ids and nothing else finds events that were announced without
    metadata, though `src/peers/cache-tracker.ts:108` says "Only matches events that have
    metadata indexed". `FilterExact` is silent on this case.
17. An event announced without metadata is never pruned: it stays until the peers that
    have it leave, though `src/peers/cache-tracker.ts:224` says "Remove events older than
    24h from all indices". `EventDirectory` lets such an event stay or go.

`LeftoversExplained` turns 1 to 5 around: whatever is left of a closed client has one
of these causes, and each can leave only certain things.

## 5. Proofs

`tlapm` checks every theorem to the last leaf; nothing is assumed but the named
assumptions on constants (`ClientsAssumption`, `ConnectionsAssumption`,
`RegistryAssumption`, `TrackerAssumption`, `BroadcastAssumption`,
`SignalingAssumption`, `UpstreamAssumption`, `ProfileAssumption`,
`SessionAssumption`, `RewardsAssumption`, `PeerClientAssumption`). Those of the
modules whose properties add up over clients, keys or browsers say that there are
finitely many; nothing else is finite or bounded in a proof.

**`DataLemmas`.** `SumFunction` is defined by recursion, and the induction theorems
of the library cannot be instantiated. What a proof needs of it is still provable:
the strict subsets of a finite set are well-founded, so a set on which a claim about
the sum fails has a minimal one (`SubsetInduction`, stated for a set of sets instead
of a predicate). From there: the sum exists and is that of a value and of the rest
(`SumsAddUp`), what changing one value does to it (`SumOfChanged`), that it is
monotonic, that the sum of sums is the sum of their values, and what shifting a
history by one age does to the sum of a part of it (`SumOfShiftedPart`).

**`ConnectionsProofs`.** `ConnInv` is the conjunction of `ConnTypeOK`,
`WithinCapacity` and `PointerIsListed`. It is inductive as it stands, and its
lemmas are stated for a pair of maps, so that `PeerRegistryProofs` uses them for
handlers that call two operations. `CleanupIsComplete` needs `PointerIsListed`:
the code deletes the pointers of the peers the super peer lists, and no other
pointer can lead to it.

**`CacheTrackerProofs`.** `IInv` joins types, `Mirror`, `MetaOnlyForHeld` and
`IndicesExact`; none of the last three is inductive without the others
(`pruneOldEvents` reads `eventPeers` to clean `peerEvents`, and
`removeEventMetadata` reads `eventMeta` to clean the secondary indices).
`FilterExact` follows from `IInv` without a further step.
`TrackerImplementsDirectory` shows that each step is a step of
`EventDirectory` under the refinement mapping, or a stutter.

**`PeerRegistryProofs`.** The inductive invariant `IInv` has these parts:

| part | says | needed for |
|---|---|---|
| `DataOK`, `TasksOK` | types | everything |
| `WireInv` | a task is in the queue once, executed commands have answers | the command a resumed handler waited for has been executed |
| `NewInv` | nothing knows a client before it connects | `Connect` starts from nothing |
| `GoneInv` | a disconnect or a demotion serves only a client that has left | an open client loses nothing |
| `ScoredInv` | a client that is here without a reputation is not, and is not becoming, super | `GoneInv` for demotions |
| `TtlInv` | a full hash without TTL has its writer before the EXPIRE | `FullHashHasTtl` |
| `IndexInv` | `peers:all`, `peers:casual`, `registeredPeers` are entered in this order | `IndexedWhileLive` |
| `ToldInv` | who was told of a super peer is off its set, and the super peer has left | `OrphansToldOnce` |
| `ConnInv` | as above | `RegistryLinksSafe` |

The argument rests on sockets going one way: from new to open to errored or
closed, never back. `IndexedWhileLive` alone is not inductive: that a registration
about to enter `registeredPeers` has added the client to both sets, and that a
promotion that took it from `peers:casual` will add it to `peers:super`, must be
known of the tasks; and a demotion or a disconnect, which would break it, must
be known not to exist for an open client, which is `GoneInv`, which needs
`ScoredInv`. The proof has one step per action, and under it one per part the action
can disturb. Lemmas about the queue are stated once, for sequences in
`DataLemmas` and for the tasks in `StartTask`, `SendTask`, `ReturnTask` and
`ExecTask`. `IInv` was
checked with TLC on the three instances of the module before it was proved.

Two properties speak of a client whose handlers have all ended, and need to know what
each handler still has to do before that. Four more invariants say so, and a fifth says
in which order the commands of one client wait; each is inductive with `IInv` and those
above it, and was checked with TLC:

| part | says | needed for |
|---|---|---|
| `OpInv` | a handler waits for the commands of its kind, and only a sweep has more clients to serve | which handler can touch what |
| `OpenInv` | a client that is here and not in `registeredPeers` is served by registrations alone, and there is nothing of it in memory, nor in Redis before one begins | a client that leaves unregistered, which `handleDisconnect` ignores, leaves something only if a registration was running |
| `RoleInv` | of a registered client, `status` and the index sets agree, but for what the promotions under way have done or have yet to do | `StatusMatchesSet` |
| `LeaveInv` | of a client that has left, each entry in memory and each key of Redis has a disconnect that has yet to remove it, or one of the three marked races explains it | `LeftoversExplained` |
| `QueueInv` | a registration's HSET that waits is ahead of every command of a heartbeat or sweep for the client, whose status is not yet "super" | `RoleKept` |

`StatusMatchesSet` is not inductive because a promotion is three commands, and several
may run at once: `RoleInv` asks of a hash that says "super" that the client is in
`peers:super` or some promotion has its SADD to come, and is off `peers:casual` or some
promotion has its SREM to come; and of one that says "casual" that no promotion has got
past its HSET, which holds because no command of an open client that registered once
sets the status back. In `LeaveInv` what a disconnect has yet to do depends on the
command it waits for, so `DelDue`, `AllDue`, `SuperDue` and `CasualDue` are separate: a
second disconnect of the client (from the `close` after an `error`) executes the same
commands later and can put nothing back. A registration still running is exactly what
can, which is why every datum but the events and the connections is guarded by
`raced_register`.

`RoleKept` is an action property, checked by TLC on the small instance and then proved:
no step takes from an open client, however often it registered, its place in
`registeredPeers`, its reputation, its place in `peers:super`, or a "super" status but
for a hash that is gone; only a heartbeat that finds no hash, or a fault of Redis, opens
the way to that. It follows from `GoneInv` (no command of an open client is a
disconnect's or a demotion's) and `QueueInv`. The danger is a second REGISTER sent while
the first runs, whose `setPeer` writes "casual" again: its HSET is sent before the
client is in `registeredPeers`, hence before any heartbeat or sweep can send a command
for it, and the one connection to Redis executes in the order sent.

**`SignalingProofs`.** `LinksInv` adds to `ConnInv` that a client that is neither
registered nor leaving, and not in `uncleaned`, is nobody's super peer (`OnlyRegistered`,
from which `Departed` follows, and which a report keeps because only a registered client
reports) and that `leaked` is exact. `RelayImplementsConnections` shows that every handler
changes the maps as one operation of `connections.ts`, so that what is proved of `ConnSpec`
holds of the relay. For the listener, `FreshStays` is not inductive: an id in the set must
be at least as old as the ids behind it are many, so that what is evicted from a full
set is old enough (`AgeInv`). For the windows, `PassedInv` divides what passed in
the last ten seconds at the age of the window of the client (`Fits`): since it began
exactly its count passed, cut at the limit, and one of these messages opened it; before it
at most one less than the limit, since the window before it was over, so that the message
that opened that one is too old to count. From that, `RateBound` and `RefusedWhenBusy`
follow at once (the first is
stated in this module only), but neither is inductive: a bound on the whole says nothing of how much of
it is about to leave the last ten seconds.

**`SessionProofs`.** `NewerProfileStays` rests on `ProfileInv`: a look-up that is not
behind, and read something older, stays ahead of what is stored and of the look-ups
before it; it is proved of `ProfileSpec` and of `SessionSpec` alike. `OneEose` rests on
`Bounded`, which counts the EOSEs of a feed REQ against its stage: none before it is
answered or timed out, and one more for each of the two late events, neither of which can
have happened in an earlier stage. For
the upstream, `UpstreamInv` says that a message waits, or has one place (the queue, the
first message of a connecting socket, among what was sent), and never both:
`SentOnce` alone says nothing of what is still to be sent. `OrderInv` extends
`InOrder` to these places: the queue is in order, and so is it after the first message
of a socket that may still open; the look-ups under way are in order and after every
profile REQ that has a place, which is why a profile REQ that comes back from Redis may be
put last. A REQ that the Feed Engine gave back is excepted, since it is looked up later
than it was sent. It holds of the sockets only while the client is there, but of the
look-ups always.

**`RewardsProofs`.** `RepInv` joins the floor, the agreement of memory and Redis
(`Stored`, for clients neither in `raced` nor in `unsaved`) and the meaning of `raced`: a
key that two connections share has them in it (`Shared`).
A `GET` in flight has read what is still stored, unless its client is in `raced`.
`PayInv` is `OnePaymentAtATime` and `PendingAtWork` with types. `EarnedInv` accounts for every verified
event twice. Over all keys (`AllEarned`), the events pay for the payments made, those
that are pending and what every connection has counted towards the next. For one key
(`OwnEarned`), they pay for its own payments and for what the connections that are
registered with it now have counted, as long as no connection brought it a count made with
another: that is `inherited`. `AllEarned` is what a change of key cannot disturb.

**`PeerClientProofs`.** `NoStrayConnection` is strengthened in two directions.
`PeersAreCurrent` says that the manager a connection is under is `this.p2p` as well,
since that is the manager `_cleanup` destroys. `LiveIsCurrent` says of every live
socket of a browser outside `cut` that its session is the one the client has, without
which an open handler, an offer or a signal of an older session could make a
connection. For the credit the sessions of a browser have to follow one another
(`InTurn`): then what is reported over a socket is the count of its own manager, even
for a browser in `cut`. The second half of `CreditedWasServed` needs `DeliveredInv`: what
was received and what is on its way, by connection, is no more than was served. A
connection is made with nothing on its way, and whatever ends one only loses.

| Theorem | Property of run |
|---|---|
| `RegistryTypes` | `TypeOK` of `registry` |
| `LivePeersAreIndexed` | `IndexedWhileLive` of `registry` |
| `OpenPeersKeepTheirRole` | `NeverDemotedWhileOpen` of `registry` |
| `FullHashesExpire` | `FullHashHasTtl` of `registry` |
| `OrphansAreToldOnce` | `OrphansToldOnce` of `links` |
| `StatusesMatchSets` | `StatusMatchesSet` of `registry` |
| `LeftoversAreExplained` | `LeftoversExplained` of `registry` |
| `RolesAreKept` | `RoleKept`, an action property that no run repeats |
| `RegistryImplementsConnections` | every step on the maps is one operation of `ConnSpec`, so `CleanupForgets` holds here too |
| `RegistryLinksSafe` | `WithinCapacity`, `PointerIsListed`, here inside the registry |
| `ConnectionsSafe`, `CleanupIsComplete` | of the maps alone: capacity, pointers, and that a cleaned up client is named by nobody |
| `SignalingSafe`, `PointersAreListed`, `DepartedAreForgotten`, `SlotsAreAccounted` | `WithinCapacity`, `PointerIsListed`, `Departed`, `SlotsAccounted` of `memory` |
| `ListenerSafe`, `ReconnectionIsPending`, `RefusalIsDeserved`, `SignalingTypeCorrect` | `FreshStays`, `ReconnectPending`, `RefusedWhenBusy`, `TypeOK` of `memory` |
| `RateIsBounded` | `RateBound`, which no run repeats |
| `TrackerTypes`, `PrimaryIndicesMirror`, `SecondaryIndicesExact`, `FiltersAnsweredExactly`, `TrackerImplementsDirectory` | `TrackerTypeOK`, `Mirror`, `IndicesExact`, `FilterExact`, `ImplementsDirectory` of `memory` |
| `NewerProfileStays`, `NewerProfileStaysInSession` | `NewestWins` of `upstream`, of the cache alone and inside a session |
| `OneEose`, `UpstreamSafe`, `MessagesSentOnce`, `MessagesInOrder`, `SessionTypeCorrect` | `EoseOnce`, `QueueHasOwner`, `SentOnce`, `InOrder`, `SessionTypeOK` of `upstream` |
| `ReputationsSafe`, `StoredMatchesMemory` | `ReputationFloor`, `MemoryIsStored` of `rewards`, whatever fails |
| `NoDoublePayment`, `PendingHasCall`, `PaymentsAreEarned`, `RewardsTypeCorrect` | `OnePaymentAtATime`, `PendingAtWork`, `PaidForServed`, `TypeOK` of `rewards`, whatever fails |
| `ConnectionsEndWithSession`, `CreditIsServed`, `PeerClientTypeCorrect` | `NoStrayConnection`, `CreditedWasServed`, `TypeOK` of `p2p` |

Only model-checked: `CloseIsCleaned`, `EveryMessageHandled` and `FetchEnds`, which are
liveness. Every safety property that a passing run checks is a
theorem.

## 6. Not modelled

* HTTP endpoints and static files, metrics and latency samples (`reqTimestamps`,
  `offerTimestamps`), badges: no decision reads their state.
* TURN credentials: one cached value that concurrent requests may fetch twice.
* The cut of `smartReq` at 20 offers of 3 peers: it keeps no state, and the walk it
  cuts is `FindPeersForFilter`.
* Message wording, the blacklist's content, signature checks, and WebRTC below
  SimplePeer.
* `subscribe`, `publish` and `requestP2P` of the library, which only send; that
  `publish` caches its event is in the model an event the relay sends.

What is worth doing next: the registry's handlers shown to implement the shorter
registrations of `Signaling` and `Rewards`, and their disconnects.
