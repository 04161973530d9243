# A verification of Hypermerge

Hypermerge keeps Automerge documents in hypercores: append-only feeds, one per
author and document, that are replicated between peers. This directory holds
TLA+ models of its core, the TLC instances that check them, and proofs for all
values of the constants. Sources are named relative to the repository's root;
`RepoBackend.ts:520` means `src/RepoBackend.ts`, line 520.

## Inventory

| Component | State | Operations | Hard behaviour |
|---|---|---|---|
| **RepoBackend** | open documents and actors, the stores | create, open, `loadDocument`, merge, requests, `syncChanges`, `syncReadyActors`, messages from peers, close | everything is a callback: actors, documents, cursors and clocks become ready in any order, and state is read before an `await` and used after it |
| **Actor** | `changes` (a sparse array), the callbacks that wait for it | open the feed, read it, downloads, sync events, local writes | downloads fill the array out of order; an append is pending when the write returns |
| **DocBackend** | Automerge state, `changes` (counters), clock, `ready` queue | init, local and remote changes | closures queue until it is ready; a change can reach it twice |
| **CursorStore, ClockStore** | SQLite tables | update with the larger entry, get, `getMaximumSatisfiedClock` | updates arrive in any order and again |
| **FeedStore** | open feeds, the table of feeds that are known | open or create, append, stream, close | opening is asynchronous, and what is on disk may have holes |
| **DocFrontend, Handle, RepoFrontend** | Automerge frontend, mode, queued changes | change, init, patch, set the actor id | two message queues to and from the backend; callbacks of the user make changes |
| **NetworkPeer** | connection in use, pending ones | add, confirm, pick another, close | duplicates: both peers must agree on one connection, by messages on different connections |
| **Network, PeerConnection, Heartbeat** | swarms, peers, sockets, timers | connect, introduce, close, time out | the two ends learn at different times that a connection is gone |
| **ReplicationManager, MessageRouter** | feeds shared with each peer, protocol per connection | announce and share feeds | sharing is per peer, messages are per connection |
| **Multiplex, MessageBus** | channels by name and by remote id | open, data, end, destroy | both ends open and close the same names at once |
| **Metadata, FileStore, StreamLogic** | file ledger, header blocks | replay, write, chunk | answers before the ledger is loaded |
| **RepoFrontend queries, CryptoClient** | callbacks by number | query, answer | answers come back in any order, or a handler throws |
| **FileServer, FileServerClient** | whether it listens, requests | upload, headers, stream | readers come while a file is written or replicated |
| **Queue** | items, one subscriber | push, subscribe, once | re-entrance |
| **Crawler, TraverseLogic** | documents seen | traverse | documents open as it goes |
| **Keys, Crypto, KeyStore, SqlDatabase** | | | I/O, encodings and cryptography |

How they interact. The user talks to a RepoFrontend, which exchanges messages
with the RepoBackend (possibly another process). The backend opens an Actor for
each feed that a document's cursor names, and hands the changes it reads to the
DocBackends whose cursors select them. When a feed is opened, or found to be
shared with a peer, the cursors and clocks of its documents are sent to peers; a
cursor that arrives widens ours, so that more actors are opened. Feeds are
replicated by the ReplicationManager over the connection that NetworkPeer
confirmed.

What makes each of them correct: a document shows exactly the part of the feeds
that its cursor selects and that has arrived, nothing skipped, and catches up
(RepoBackend, Actor, DocBackend); a feed is its author's changes in order
(Actor); stores only grow and survive a crash (stores); both peers use the same
connection and find another when it dies (NetworkPeer); both peers replicate
every feed that they have in common (ReplicationManager); a frontend shows what
the backend has and its changes reach the backend in order (DocFrontend);
channels of the same name, and no others, are joined, and can be closed
(Multiplex); a reader gets a whole file or none, the ledger lists whole files,
and every query is answered (Files, Metadata, RepoFrontend).
`PROJECT.json` lists the hazards, each at its line.

## Modules

| Module | What it is |
|---|---|
| `Clock` | `Clock.ts`: vector clocks as functions from actors to numbers |
| `ClockProofs` | the laws of that algebra |
| `RepoBackend` | one repository: RepoBackend, Actor, DocBackend, CursorStore, ClockStore, FeedStore |
| `RepoBackendProofs` | lemmas about its operators, type correctness, its inductive invariant and the theorems that follow |
| `RepoBackendDocs` | no wake-up is lost; what feeds hold and documents show |
| `PeerLink` | the abstract specification of two peers with duplicate connections |
| `NetworkPeer` | NetworkPeer, with the parts of Network, PeerConnection and Heartbeat it depends on |
| `NetworkPeerProofs` | its type correctness, its safety theorems, and that it implements `PeerLink` |
| `Replication` | two repositories that find out which feeds they share: ReplicationManager, MessageRouter, and what RepoBackend and FeedStore do with cursors and feeds. Composed with `PeerLink` |
| `ReplicationProofs` | its type correctness and the four safety theorems: what is shared, what is replicated, and where an answer finds a connection |
| `DocSession` | one document from the user to its feed and back: DocFrontend, Handle, DocBackend and the two message queues of RepoFrontend and RepoBackend |
| `DocSessionProofs` | its type correctness and the five safety theorems |
| `Multiplex` | the two ends of a connection that carries named channels |
| `MultiplexProofs` | its inductive invariant and the two safety theorems |
| `Ledger` | Metadata's ledger of files, and the queries of RepoFrontend and CryptoClient with `RepoBackend.handleQuery` |
| `HyperFiles` | FileStore, StreamLogic, FileServer and its client; extends `Ledger` |
| `HyperFilesProofs` | the inductive invariant of both and the three safety theorems |
| `MCRepoBackend`, `MCNetworkPeer`, `MCReplication` | instances for TLC; the other modules are checked as they are |

Operators named `Bug...` are mutants: what a plausible mistake would make of the
operator that follows. No specification uses them; they are there to show that a
property notices the mistake.

### RepoBackend

A handler that runs to its end without awaiting is one action. What runs after
an `await`, in a stream callback or on a feed event is another one.

| State | Code |
|---|---|
| `cursors`, `hasClock`, `peerClocks` | tables Cursors and Clocks. Of this repository's own clocks only whether a row exists is kept, since that is all `getGoodClock` asks; all peers are one |
| `feedInfo`, `owned`, `blocks`, `feedLength` | table Feeds and the hypercore files. An actor in `LocalActors` is a key pair that this repository may generate |
| `actorState` | `none`; `creating` with keys or `opening` without; `streaming` while `onFeedReady` reads the feed; `ready` |
| `changes`, `streamEnd`, `syncWait`, `unsynced` | `Actor.changes`, the length that the read stream covers, the callbacks of `syncReadyActors` that wait in `Actor.q`, and downloads that hypercore has not yet reported as synced |
| `docState` | `none`; `loading` until the actors are awaited; `sliced` or `holed` while the local actor is awaited; `ready`; `failed` when `init` threw |
| `docActor`, `docChanges`, `back`, `readyQ`, `loadIds` | `actorId`, `changes`, the set of changes given to Automerge, the closures queued on `ready`, and the actors `loadDocument` awaits |
| `rendered` | the document was announced with `minimumClockSatisfied` and content, so that its frontend takes changes |
| `brought`, `borrowed` | history, in no code: the actors that a merge, here or at a peer, put into the cursor of each document, and the documents that write with such an actor |

The actions are `Create`, `Open`, `NeedsActorId`, `Request`, `Merge` (messages
from the frontend); `LoadReuse`, `LoadInit`, `LoadFresh` (the rest of
`loadDocument`); `FeedReady`, `StreamEnd`, `Download`, `SyncEvent`, `Flush`
(events of a feed); `CursorMessage`; `RemoteAppend` (a peer's user); `Restart`.

Abstractions. Automerge's state is the set of changes it was given; a change is
its actor, its number and, as a ghost, the document whose user made it. A cursor
entry without a bound is the number `Infinity`. The clocks of all peers are one
clock that only grows. `Settled` says that an event from a socket is handled
after the microtasks of a `loadDocument` that has what it awaits; actors becoming
ready and messages from the frontend are not held back. An Automerge that gets a
change whose predecessor is missing throws (`DocInit`). A merge may come at any time:
the frontend asks for the source's clock only (`RepoFrontend.ts:102`), so the target
may be unopened, loading or ready. A peer's clock may name any actors of the cursor
that the peer announces, ours among them (`MayHave`).

### NetworkPeer and PeerLink

Two peers and a set of connections. Each end of a connection has a socket
(`open`, `ended` once the other end is gone, `closed` by us) and an ordered queue
of messages on the way; messages of different connections are not ordered.
`pendingConnections` is a Set, which iterates in the order of insertion, so it is a
sequence here (`Added`), and the first open one is picked (`FirstOpen`). The
actions are the handlers: `OnConnection` (send Info), `AddConnection` (Info
arrives), `OnConfirmConnection`, `SocketEnd`, `CloseConnection`
(`PeerConnection.close` for any reason, with `onConnectionClosed`), `Close`
(`Network.close`).

`PeerLink` says what the two promise, with one variable for the ends of the
connections (not opened, may be taken into use, was taken or cannot be any more,
gone) and one for the connection that each side uses. The authority takes another
connection only when its own is dead; the other side takes the one that the
authority uses, or, if what was sent before a close may still arrive
(`LateDelivery`), one that has died there; nobody takes a connection twice. How
the choice is announced is not part of it. `NetworkPeer` is checked and proved to
implement it, with the mapping at the property `LinkSpec`; `Replication` is built on it, so
that it has all the behaviour of the connections at a small part of the states.

The comment at `NetworkPeer.ts:54-59` says that a duplicate of a connection in
use is closed. The code keeps it pending, and `CloseConnection` relies on that;
the model follows the code.

### Replication

Two repositories and the connections between them, as `PeerLink` says. A step of
the connections takes `onPeer` with it for the side that takes a connection into
use.

| State | Code |
|---|---|
| `feedInfo`, `loaded`, `actors`, `cursors` | table Feeds, `FeedStore.loaded` with how far each feed is open, `RepoBackend.actors`, table Cursors without the bounds |
| `replicating` | `ReplicationManager.replicating`: the feeds shared with the peer |
| `joined` | the connections in `protocols` and in the `buses` of both routers |
| `joining`, `replicated` | pairs of connection and feed: `replicateWith` waits for `getFeed`; `feed.replicate` was called on the protocol of that connection |
| `msgs` | `DiscoveryIds`, `CursorMessage` and the opening of a feed's channel, on the way on some connection |

The actions are `Connections` (with `onPeer`), `OnDiscoveryIds`, `OnDiscoveryKey`
and `OnCursorMessage` (messages arrive), `FeedReady` (a feed is open: it is saved,
announced, its actor is ready and its replication starts), `Create`, `Open` and
`InitActorFeed` (a user creates a document, opens one, and writes to it).

A message that is to be answered by a peer without a connection is consumed and its
handler throws (`Throws`, `ReplicationManager.ts:115`): what the message asked for is
not done, and the process is taken to survive that. `joined` and `replicated` lose
what belongs to a connection when that connection is gone, which is when
`protocols.delete` runs (`ReplicationManager.ts:124-126`).

Abstractions. The messages of all channels of a connection are one set: they may
arrive in any order. A discovery id stands for its feed. The `then` of a feed that
is open already and the readiness of its actor are microtasks, and belong to the
step that causes them. Clocks, which go along with the cursors, are left out, and
so is a CursorMessage without documents. What an earlier session may have left is
a constant (`Stores`); nobody restarts during a run. A document that has any
cursor has its root in it (`StoresAssumption`, and the guard of `InitActorFeed`):
`create`, `open` and an announcement put it there; only a merge into a document
that was never opened does not, and it is outside of this model. How `merge`
changes a cursor is in `RepoBackend`; it announces nothing of the actors that
are open already (`RepoBackend.ts:236-240`), so that `Meet` is a claim
about repositories that do not merge.

### DocSession

`RepoBackend` looks at a document from the feeds; `DocSession` looks at it from
the user. README.md:184-200 of the repository suggests to run the frontend and
the backend in two threads, so the two message queues are variables and a message
is handled at any later time. What one handler does without awaiting is one step.

| State | Code |
|---|---|
| `front` | the DocFrontend: `mode`, `ready`, `actorId`, the length of `changeQ`, and of the Automerge frontend its next number, its unanswered requests and its content; whether it is watched, and what the handle was given last |
| `toBackend`, `toFrontend` | the two queues, with what the handlers read of each message |
| `stored`, `docState`, `docActor`, `applied`, `held`, `feed` | what `loadDocument` will find, and the DocBackend: how far it is loaded, its actor, what Automerge has applied and what it holds back, what `writeChange` has written |
| `hasClock`, `spares` | whether the clock row exists, and how many feeds NeedsActorIdMsg made |

The actions are the user's `Create`, `Open`, `Watch`, `QueueChange`,
`WriteChange`, `Destroy`; the backend's handlers `ReceiveCreate`, `ReceiveOpen`,
`ReceiveNeedsActorId`, `ReceiveRequest`; `Load` and `RemoteChange`, by which the
rest of the backend reaches the document; and the frontend's handlers
`ReceiveReady`, `ReceivePatch`, `ReceiveActorId`.

The history variable `upsets` records three orders that a session can meet and
that break the agreement of the two ends: `early` (a change comes while the
document is being loaded, and its patch overtakes the ReadyMsg), `nested` (a
change made in the callback of another is sent before it, `DocFrontend.ts:142`),
and `reopened` (`destroy` is a no-op for the backend, which announces nothing to
the new frontend). A property that mentions one of them holds in all other
sessions, and TLC shows that it is needed: the first is the finding of
`doc_early_patch`, the last leaves the document pending. No change is lost in a nested session either, as
`ChangesConserved` says; a document that is destroyed takes with it what waits in
its `changeQ`.

Automerge is what its three functions do with numbered changes: `applyPatch`
throws on an answer to another request than the first, `applyLocalChange` throws
on a number it knows and holds a change whose predecessor is missing.
`getGoodClock` may answer either way for a document without a clock row. A document
that is loaded gets any writable actor of its cursor (`LocalActorIds`): one of an
earlier session or a new one, or the spare that a NeedsActorIdMsg made while it was
loading. A handle that the user kept from before `destroy` still holds the `change`
of the old DocFrontend (`DocFrontend.ts:65`); changes through it are not modelled.

### Multiplex

Both ends of one connection with an ordered queue of frames each way. A channel is
a record under its number: whether it is open or dying, its name, whether it was
opened here, which ends were sent and received, how many chunks were written and
read, and whose. The actions are `Open`, `Write`, `End`, `Destroy`, `Close` (of the
multiplex), `Shutdown` (the connection is gone, or `_destroy`), `Teardown`
(`Channel._destroy`, which streamx calls in a later tick) and the four frames.

`getNextId` counts up for ever; the model takes the lowest number of which no
trace is left, so that few numbers are enough for any number of channels. Three
numbers are enough for one name: TLC finds no Start that waits for a number. Chunks
are numbered, and End carries how many came before it, so that loss,
duplication and mixing of channels show.

`upsets` records `crossed` (a name is announced while its old channel is dying: the
Start is joined to a channel that is about to forget itself, and a `close()` at the
other end hangs) and `early` (a channel is destroyed before the Start of the other
end has come, which can make both ends create channels for ever). The run
`multiplex` shows that nothing
else keeps a close from coming to its end or the ends from coming to rest.

`Close` ends the channels. The `end()` that follows when all of them are closed
(`Multiplex.ts:92-95`) also ends the stream of frames, so that a frame which comes
after it is lost as after `Shutdown`; it has no action. Nothing in `src` calls
`Multiplex.close`: a PeerConnection destroys its socket.

### Ledger and HyperFiles

`Ledger` has the ledger on disk and what is being appended to it, the map `files`
with `ready` and `replay`, and for the queries the callbacks by number, the two
queues, and the queries that wait for a feed (`signing`) or for the ledger
(`readyQ`). `HyperFiles` adds the feed of each file, its upload (the source, the
bytes pending in ChunkSizeTransform, the chunks on their way) and the readers at a
peer, to whom the feed is replicated block by block. `Restart` kills the process
between any two steps: the feeds and the ledger's disk stay.

A byte is its place in the file, so that order, loss and repetition show; the block
size is 2, and pieces have up to 3 bytes, so that a piece may fill no chunk, one,
or two with the rest of the piece before. The header counts one block more than
there is when the size is a multiple of the block size (`StreamLogic.ts:29`), which
`GetsTheFile` states as it is; nothing in the repository reads that number. A
recorded file of an earlier session is there from the start, so that questions come
before the ledger is read.

## Runs

Runs take from seconds to some minutes. The bounds are the smallest at which
every action fires and the listed hazards occur.

| Run | Instance | Properties |
|---|---|---|
| `repo_reopen` | a peer's document with two changes, two key pairs of ours to write it, one restart; fair | `FeedOrder`, `DurableChangesShown`, `StoresGrow`, `LoadingEnds`, `ReadyConverges` |
| `repo_merge` | our document merged into a peer's at any time, one session | `TypeOK`, `CountedIsApplied`, `BackIsCursorOfLogs`, `ForksAreMerged`, `NoLostWakeup` |
| `net_peer` | three connections, in a network where messages may outlive a close and in one where they do not; fair | `TypeOK`, `ClosingHoldsNothing`, `NothingOrphaned`, `LinkSpec`, `ReconnectsOnTime` |
| `rep_share` | two connections, a document that the authority has on disk or creates, an actor of the other side; messages may outlive a close | `TypeOK`, `SharedIsReplicated`, `OnlyCommonFeeds`, `Meet`, `ExchangeEnds` |
| `doc_session` | one document, new or with up to two stored changes; three changes of the user, up to two changes of others (the stored ones among them), one destroy; fair | `TypeOK`, `ChangesConserved`, `FeedInOrder`, `RequestsAreTheActors`, `UndisturbedShowsDocument`, `WatcherUpToDate`, `QueuedChangesRun` |
| `multiplex` | one name, opened twice, one chunk per channel; fair | `TablesAgree`, `ReadsOneChannel`, `CloseResolvesUncrossed`, `SettlesUnlessEarly` |
| `hyper_files` | one file to upload (up to 3 bytes) and one recorded, one reader, two queries per life, one restart; fair | `GetsTheFile`, `LedgerIsTrue`, `ToldOfFiles`, `QueriesAnswered` |

Two changes per feed are enough for blocks out of order, a hole and a request
after a restart; two actors of ours for the one that `loadDocument` makes and the
one that NeedsActorIdMsg makes; one restart for a crash at any point and for a disk
that holds a part of a feed (for any number of restarts the safety properties are
theorems). Three connections are
the fewest where one is in use, one is picked next and
one stays pending. Two connections are a reconnection: what belongs to the first
is there when the second is in use. Two feeds are one that both find in an
announcement of the authority and one that is announced when it is opened. Three
changes of the user are one that waits, one that is written and one made in its
callback. Two calls of `openChannel` for one name are both ends opening it, or one
end opening it again while frames of the first channel are on the way. Files of 0 to
3 bytes with blocks of 2 are the empty one, less than a block, a block, and more; two
queries are the fewest whose answers can change places. Symmetry over
connections that nothing tells apart is used in `rep_share`, which
checks no liveness. `CHECK_DEADLOCK FALSE` is set everywhere: a repository
whose peers and users do no more may stop.

Five runs end in a violation, each a disagreement between the code and what the
repository says of it (quoted in `PROJECT.json`):

- `repo_open_hole` (`OpenedLoads`): a document that is opened while block 2 of a
  feed has arrived and block 1 has not is sliced with a hole. `init` throws, the
  promise is dropped, and the document never becomes ready.
- `repo_min_clock` (`CoveredIsRendered`): the changes come first and the clock of
  a peer later; nothing compares them again, and the document is not shown.
- `repo_fork` (`OneDocPerFeed`): a document that is merged into while it is loading
  may get the source's own actor, and both documents write one feed. The instance
  has no restart, so one session is enough; after a restart the same can happen to a
  target that was loaded when it was merged into. `ForksAreMerged` shows that a
  merge, here or at a peer, is the only cause.
- `net_late_confirm` (`Reconnects`): a ConfirmConnection that arrives after the
  confirmation of another connection replaces it, and when that connection times
  out the two peers do not meet again. `ReconnectsOnTime` in the run `net_peer` shows
  that late delivery across connections is the only cause: without it they always meet.
- `doc_early_patch` (`FirstPatchIsReady`): the patch of a change that came while the
  document was being loaded overtakes the ReadyMsg; the frontend then ignores the
  ReadyMsg, and with it the actor id and what was loaded.

Four more were met while modelling and have no run of their own. The models do what
the code does, and the properties except the case; TLC finds the first one when every
message is claimed to find a connection (`using[m.to] # None`), and the others when the
exception is left out:

- A late ConfirmConnection, as in `net_late_confirm`, may leave the other peer without
  a connection while an announcement is on the way to it. Its handler throws
  (`ReplicationManager.ts:115`), and the announcement is lost (`Throws`). The
  authority never throws there, which is a theorem; and `Meet` says that nothing is
  missing when both use one connection again.
- A document that is destroyed and opened again is not announced
  (`RepoBackend.ts:225`) and stays pending until another change comes (`reopened`).
- A Start that is joined to the dying channel of its name leaves a `close()` at the
  other end waiting (`crossed`): its End meets a destroyed stream (`Multiplex.ts:157`).
- When both ends open a name and one destroys its channel before the Start of the other
  has come, that Start makes a new channel, which announces itself, and the Destroy
  that follows destroys it; then the other end gets a Start and a Destroy, and so on
  for ever (`early`).

A comment says that questions about documents are answered at once
(`RepoBackend.ts:667-668`); the code puts all of them on `readyQ`, behind the ledger,
and the model follows the code.

### Fairness

`RepoBackend`: callbacks that are due are run (`LoadReuse`/`LoadFresh`,
`LoadInit`, `FeedReady`, `StreamEnd`, `SyncEvent`), as the event loop does, and a
peer that has a block of a feed we opened delivers it (`Download`), as live
replication does. Neither users, nor peers' cursor messages, nor restarts are
fair. (`LoadingEnds` leaves out a document for which no key pair is left, since their
number is bounded.) `NetworkPeer`: messages and ends of sockets arrive, and a heartbeat that
nothing answers times out (20 s, `Heartbeat.ts:14`). Nobody must connect or close.
`Replication` needs no fairness: `ExchangeEnds` says that, while two peers stay
connected, every message that is handled and every feed that opens lowers a number
(`Remaining`), so that the exchange ends when what has arrived is handled.
`DocSession`: messages are delivered and `loadDocument` comes to its end; no user
and no other author has to do anything. `Multiplex`: frames are delivered, streams
that are due are destroyed, and an end learns that the other one has gone.
`HyperFiles`: the ledger opens, queries and answers are handled and feeds open to
sign; uploads and readers may stop at any time.

## Proofs

The theorems hold for all values of the constants that satisfy the modules'
assumptions, which TLC evaluates on every instance.

Those of `RepoBackend`, and `Clock` below it, are about all sets of actors and
documents, all lengths, cursors, merges and numbers of restarts that satisfy
`ConstantsAssumption`:

- `ClockProofs`: `Gte` is a preorder, `Union` is its least upper bound and is
  commutative, associative and idempotent, so cursors and clocks may arrive in
  any order and again; a satisfied minimum clock stays satisfied as the document
  grows (`SatisfiedIsStable`), which is why it needs to be checked only when a
  clock or a document changes.
- `TypeCorrect == Spec => []TypeOK`. `TypeOK` is not inductive: that a request is
  a well-formed change needs that a document that can write has an actor
  (`ActorsKnown`). The lemmas say what each operator returns: `Reach`, `Length`
  and `NextSeq` are defined by `CHOOSE`, and that the chosen number exists is
  proved from the least-number principle.
- `StoreInvariant`: memory agrees with the disk. `OpenHoldsBlocks` says what each
  stage of opening an actor has read; it is needed because `StreamEnd` overwrites
  entries of `Actor.changes` that a download may have put there before.
  `WriterHoldsBlocks` says that a document never writes to an actor that has not
  read its feed, so that an append hits a free index; it rests on `OwnedIsKnown`:
  a key pair with blocks is never generated again.
- `StoresOnlyGrow == Spec => StoresGrow` follows from it and from the laws of
  `Union`.
- `NothingSkipped == Spec => []CountedIsApplied`. The strengthening `Counted` adds
  that a document counts nothing before it is sliced, and that a sliced one has
  what it counts: `LoadInit` runs after an `await`, when `syncChanges` may have
  queued more closures and the logs may have grown, so it needs that logs only
  grow between restarts (`ChangesKept`).
- `NoWakeupIsLost == Spec => []NoLostWakeup`: a block in memory that the cursor of
  an open document selects is counted, or a callback is due that will count it.
  The strengthening `WakeInv` says, for every document that is being loaded or
  ready, what is due (`Wakes`): a "sync" event, a callback of `syncReadyActors`, the
  end of a read stream, or a closure on `doc.ready`. Only an actor that is being
  opened is waited for (`WaitsForOpening`): a callback that waited for one that is
  ready already would never run. `RootsKnown` says that a root that was written
  has a cursor, so that it is not created again.
- `ForksComeFromMerges == Spec => []ForksAreMerged`, without a hypothesis: for any
  merges, cursors of peers and restarts, two documents write one feed only if a merge
  put its actor into a cursor. `OwnerInv` says that
  an actor of ours belongs to at most one document, the one that has it otherwise than
  by being brought it, whose cursor has all of it (`OneOwner`, `RootsInCursor`); that a
  document writes with an actor that belongs to it, unless it borrowed one
  (`WritersOwn`); that what a feed of ours holds is of documents that have it in their
  cursors (`HeldKnown`); and that a log of ours has no holes (`Contiguous`).
- As long as no document writes with an actor that was brought (`borrowed = {}`), four
  more theorems hold: `FeedsHoldOneDoc` (`OneDocPerFeed`), `FeedsInOrder`
  (`FeedOrder`), `DocsShowTheirFeeds` (`BackIsCursorOfLogs`) and `DurableIsShown`
  (`DurableChangesShown`). This speaks of what happened and forbids no step: merges
  and restarts come as they like. It cannot be dropped: the run `repo_fork` shows
  two documents in one feed. In `repo_reopen` nothing is ever borrowed,
  in `repo_merge` it may be. The invariant `DocInv` says, in that scope,
  that a log of ours holds the changes of the one document that its actor belongs to
  (`OneDocument`, `HasOwner`); and that the document
  counts all of it, or will when `doc.ready` is drained (`Complete`), so that the
  next number it writes is free. A document shows what it counts (`Shown`).

`NetworkPeerProofs`, for any set of connections and both kinds of network:

- One inductive invariant, `LinkInv`, serves them all: what a side holds was
  introduced and is in use or pending, not both (`HeldInv`); a confirmation on its
  way is of the connection that the authority uses, or is late, and is yet to be
  taken (`ConfirmInv`); the other side uses what the authority uses, or what is dead
  there (`FollowInv`). `UntakenInv` is there for the refinement: what the authority
  may still take, the other side has not taken, since `PeerLink` lets nobody take a
  connection twice.
- A lemma for each handler says that it keeps `LinkInv` and what it does to the
  connections (`Opens`, `Keeps`, `Takes`, `Drops`, `Swaps`, `Fails`); the theorems use
  those effects only.
- `TypeCorrect`, `ClosingHolds` and `Orphans` (`NothingOrphaned`): a peer that closes
  holds no connection, and a connection that may be used is always found.
- `ImplementsLink == Spec => LinkSpec`: each effect is a step of `PeerLink` or a
  stutter.

`ReplicationProofs`, for any feeds, documents, connections and stores that
satisfy `ConnsAssumption` and `StoresAssumption`, with and without late delivery:

- `OnlyCommonFeedsHolds` needs that a message names only feeds that its sender has
  opened, and a channel only feeds that both have (`FeedsAreKnown`): then believing
  the peer (`ReplicationManager.ts:78`) does no harm.
- `SharedIsReplicatedHolds` rests on it, since a feed is marked whether or not we
  have it, and on `UsedInv`: a connection in use was taken into use, so that it does
  not come back to life after its death. Both use of `PeerLink` only what a step
  does to the ends in use (`UsedStep`, `UsingStep`).
- `AuthorityAnswersHolds == Spec => []AuthorityAnswers`: whatever outlives a close,
  the authority has a connection in use when a message arrives, so "peer has no
  connection" is never thrown there. `AnswersInv` says that the authority listens only
  on the connection that it uses. Of the other end this is false.
  `TakenInv` says that what one side has taken, or made a channel on, the authority
  has taken.
- `MeetHolds == Spec => []Meet`: where nothing is due any more, what both have is
  replicated at both ends and the cursors of a common document are the same. `Meet`
  is about quiet states only; `MeetInv` says, in every state, what is due
  otherwise. Of a feed that both have, an announcement is on the way or one of them
  shares it (`AllAnnounced`; `Welcomed` while the other side has not taken the
  connection yet). What one side replicates the other one replicates, waits for
  (`WaitsForFeeds`) or gets the channel of (`ChannelsMeet`), and both mark
  (`MarkedAsShared`). When the root of a document is shared, each feed of its cursor
  is in the peer's, on the way there, or of an actor that is being opened and will be
  announced then (`CursorsTold`); with `RootsKnown` and `CursorsAreTrue`, which say
  that a cursor has its root and that its sender has what it says.

`DocSessionProofs`, for any number of changes, of changes of other authors and of
calls of `destroy` that satisfy `SessionConstants` (other authors may have at
least one change, since the disk may hold one):

- `TypeCorrect` and `RequestsHold == Spec => []RequestsAreTheActors`. `TypeInv`
  names the `Author`: the actor of a loaded document, or the root of one whose
  CreateMsg is on its way. The frontend knows it or knows none, and every request is
  of it. `Upto` bounds the numbers: no change of ours, no request and no number in a
  patch is larger than what was made so far and at most one of an earlier session.
- A lemma for each kind of step says what it does (`Kept` and `Enabled` for the
  frontend's handlers, `Answered` for a request); the two theorems below use those.
- `FeedInOrderHolds == Spec => []FeedInOrder`. `SeqInv` says that every request
  follows on a change that is applied or requested before it (`Ordered`), also the
  first one of a frontend that was opened again, which starts from the number in a
  patch: that number is one of an applied change (`Confirmed`). So nothing is ever
  held back, and what is written is the next number. `GapInv` says that what is
  applied has no gaps (`Closed`), so that a number that is not larger than the latest
  one is known.
- `ConservedHolds == Spec => []ChangesConserved`. While the document is pending,
  nothing was sent, and each patch on its way has the number that she is to start
  from (`PendingInv`); the first message is the ReadyMsg, which names the actor. Once
  she may write, she is ahead of all that is sent, applied or told (`WriteInv`). So
  the requests are distinct and new, and the backend rejects none of them.
- `UndisturbedHolds == Spec => []UndisturbedShowsDocument` and
  `WatcherHolds == Spec => []WatcherUpToDate`. Both speak of a document with empty
  queues, or of one that was told something; `ShowInv` says in every state, as long as
  nothing has upset the order, what the queues hold: all that is applied is shown or
  in a patch on its way (`Shows`); the optimistic requests are the actor's numbers
  after the last one that was answered, each of them is on its way or has its answer
  coming, and the answers come in their order (`Answers`), so that the head of
  `requests` is the one a patch acknowledges; and a watched document was told what it
  shows, or a patch that changes something and ends in a callback is on its way
  (`Told`, `Fine`), also behind a patch whose callback is left out.

`MultiplexProofs`, for any set of names that is not empty and any numbers of
channels, of calls of `openChannel` and of chunks (`MultiplexConstants`):

- `TablesHold == Spec => []TablesAgree` and `ReadsHold == Spec => []ReadsOneChannel`.
  Neither property is inductive: whether a frame can be read depends on the frames
  before it. `MuxInv` therefore speaks of one direction at a time: the frames `q` on
  their way to an end, what the sender's numbers stand for there (`r`), the channels
  `h` of that end and the channels `t` of the sender. `Link(q, r, h, t)` says
  - `Framed`: of each number Start comes first and Destroy last, and any other frame
    comes when the number is known, or after its Start;
  - `Announced` and `Forgotten`: the number of a channel its end still has is known or
    will be, and no Destroy is on the way; of any other number one is;
  - `Named`: all that is left of a number has one name;
  - `Replaced`: when a name is announced again, the number that stood for it is
    forgotten first. A sender announces a name only after `_destroy` of its old
    channel, which sent the Destroy;
  - `OneSource`: so only one number stands for an open channel, and what it has read
    comes from there;
  - `Counted`: the chunks of a number follow on what was read, and its End and the
    sender's count on the last of them.

  `Table` is what `TablesAgree` says of names, with its converse. An end that is gone
  has no link; `Forgotten` holds while both ends are there, since an end that
  outlives the other is never told.
- There is a lemma for each way in which a link changes (the channels of the
  receiver, a frame of each type sent, a frame of each type received), and the
  proof of each action puts together one for each direction.

`HyperFilesProofs`, for any files, sizes, pieces, readers, queries and restarts, and
any block size that is not 0 (`LedgerConstants` and `FileConstants`: the files that are
recorded to begin with are finitely many, and have one byte each, which the bound on
sizes has to allow):

- One inductive invariant, `InvHolds == Spec => []Inv`. Of the files, `FilesInv` says
  that while bytes come, the blocks in the feed and then those in the queue are all
  full and hold what was processed (`InFlight`), that what is pending is less than a
  block, and that in the end the last block is the only one that may be shorter. A
  feed that ends with a header is whole (`IsWhole`), and an unfinished one has none
  (`Unfinished`), also after a crash: no later process writes to the feed. Hence
  nothing comes after a header (`Steady`), which is what keeps the requests
  (`RequestsInv`) and the blocks of the ledger (`ListedInv`) true.
- `ReadHolds == Spec => []GetsTheFile`. The arithmetic is that of the block size: a
  size lies between two of its multiples that are settled by it (`Between`), so a
  transform that pushes all full blocks leaves the rest (`FullBlocks`), and a flush
  pushes one chunk or, if nothing is pending, counts one that is never passed on
  (`LastChunk`): that is the block too many. `CutHoldsBytes` then says that a file cut
  in blocks, flattened, is the file.
- `LedgerHolds == Spec => []LedgerIsTrue`. `LedgerInv` says that the ids on the disk
  and those that are `Late` (being appended, or to be added again once the ledger is
  read) are all different, and what is known before and after the reading (`Lists`).
  A written file is in neither, since its upload has just ended (`BlockOk`), so each
  block that is added is new; `AddBlocksOf` says what `AddBlocks` makes of new blocks:
  all are dirty, and the map has just them in addition.
- `ToldHolds == Spec => []ToldOfFiles`. `QueryInv` says that every number is at one
  place at most (`OnePlace`) and that a query that waits, in a queue, for a feed or for
  the ledger, is the one whose callback is kept (`Kept`). So a callback is never
  dropped while a query or an answer of its number is under way, and what
  `ServeReadyQ` answers comes from a map that has all that is on the disk.
- What a recursive function computes, over the blocks of the ledger or over those of a
  file, is proved without an induction theorem: the places at which two such functions
  differ have no least one, so there are none (`NoDescent`). To that end `AddBlocks` is
  a recursive function of its own instead of a fold.

Only model-checked: all liveness (`LoadingEnds`, `ReadyConverges`, `ReconnectsOnTime`,
`QueuedChangesRun`, `CloseResolvesUncrossed`, `SettlesUnlessEarly`,
`QueriesAnswered`), which is out of the prover's reach, `ExchangeEnds`, whose sums over sets are left to
TLC, and the five properties that are violated. Every other property that a run checks
is a theorem.

## Not modelled

Swarm discovery, the version prefix, encryption and block formats; document
messages, progress events and debugging; hashing, HTTP headers and status codes;
the content of signatures and boxes, and so what `CryptoClient.verifiedMessage`
makes of them; the crawler, whose only effect on the rest is that documents are
opened. The class `Queue` is modelled where it is used, not by itself. An
error of a store or of hypercore is not modelled except for the loading that
fails and the answer that finds no connection; of the others, an append to the
ledger that fails leaves the file in the map and not on the disk
(`Metadata.ts:187-189`), and one of the header leaves an upload that is never settled
(`FileStore.ts:52`, `:62`). A data block that is itself JSON with the fields of a
header would be taken for one (`FileStore.ts:30`); blocks are not parsed here. Changes
through the handle of a document that was destroyed, and the `end()` of
`Multiplex.close`, are left out, as said above. A user who opens a file as a document
(`RepoBackend.ts:217`) is not modelled. `Backend.applyChanges`, hypercore, streamx
and the sockets are external and appear as the code uses them.

## Plan

The models of the plan are there. What is left:

1. Two repositories: `RepoBackend` twice with replicated feeds instead of the
   environment's `Download` and `CursorMessage`, for the convergence of their
   documents, with merges; its states are out of reach with the feeds as they are
   now, so it needs an abstraction of `RepoBackend` first.
2. Document messages, which are sent to the peers that share a document's root feed.
