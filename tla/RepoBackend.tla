---------------------------- MODULE RepoBackend ----------------------------
(***************************************************************************)
(* One repository: RepoBackend.ts with its actors (Actor.ts), documents    *)
(* (DocBackend.ts) and the stores they read (CursorStore, ClockStore,      *)
(* FeedStore).                                                             *)
(*                                                                         *)
(* Every author of a document writes a feed of her own.  The cursor of a   *)
(* document says which feeds, and how much of each, make up the document.  *)
(* An Actor holds the blocks of one feed in memory; a DocBackend counts in *)
(* its map "changes" how many blocks of each feed it handed to Automerge.  *)
(* Blocks come from the disk, the network and the local user, and actors,  *)
(* documents, cursors and clocks become ready in any order.                *)
(*                                                                         *)
(* A handler that runs to its end without awaiting is one step.  What runs *)
(* after an await, in a stream callback or in a feed event is a step of    *)
(* its own; see Settled.  The reactions of syncReadyActors run as part of  *)
(* the step that makes the actor ready.                                    *)
(***************************************************************************)
EXTENDS Clock, FiniteSets

CONSTANTS
  LocalActors,    \* ids of the key pairs this repository may generate
  RemoteActors,   \* ids of the feeds that peers write
  Docs,           \* document ids: the id of a document's root actor
  NoActor,        \* actorId undefined
  MaxSeq,         \* bound: changes in one feed
  Infinity,       \* INFINITY_SEQ: the cursor entry that has no bound
  RemoteDoc,      \* the document each remote actor writes
  RemoteLength,   \* bound: how many changes each remote actor writes
  PeerCursor,     \* the cursor a peer announces for each document
  MergePairs,     \* the merges <<target, source>> the user may ask for
  MaxRestarts     \* bound: crashes or restarts of the process

Actors == LocalActors \cup RemoteActors

ASSUME ConstantsAssumption ==
  /\ IsFiniteSet(Actors)
  /\ LocalActors \cap RemoteActors = {}
  /\ Docs \subseteq Actors
  /\ NoActor \notin Actors
  /\ MaxSeq \in Nat
  /\ Infinity \in Nat /\ Infinity > MaxSeq
  /\ RemoteDoc \in [RemoteActors -> Docs]
  /\ RemoteLength \in [RemoteActors -> 0..MaxSeq]
  /\ PeerCursor \in [Docs -> ClocksOver(Actors, 0..Infinity)]
  /\ MergePairs \subseteq Docs \X Docs
  /\ MaxRestarts \in Nat

VARIABLES
  (* What survives a restart: the SQLite tables and the hypercore files.   *)
  cursors,      \* Cursors: this repository's cursor of each document
  hasClock,     \* Clocks: documents with a row of this repository
  peerClocks,   \* Clocks: the peer's clock of each document
  feedInfo,     \* Feeds: the feeds that were opened here once
  owned,        \* Feeds.isWritable: feeds whose secret key is stored
  blocks,       \* the blocks each feed holds on disk, by index from 1
  feedLength,   \* feed.length: the length each feed is known to have
  restarts,     \* how often the process went down
  (* The peers. *)
  published,    \* how many changes each remote actor has written
  (* History: what merges and peers did to the cursors, and what came of it.
     No guard reads it. *)
  brought,      \* actors of each cursor that a merge or a peer's cursor put there
  borrowed,     \* documents that were given one of those to write with
  (* Actor *)
  actorState,   \* how far each Actor is open
  changes,      \* Actor.changes: a sparse array
  streamEnd,    \* length of the read stream an opening Actor waits for
  syncWait,     \* syncReadyActors callbacks that wait for onReady
  unsynced,     \* feeds with a download since their last sync event
  (* DocBackend, and loadDocument's local variables. *)
  docState,     \* how far each DocBackend is loaded
  docActor,     \* DocBackend.actorId
  docChanges,   \* DocBackend.changes
  back,         \* the changes handed to Automerge
  readyQ,       \* actors of the syncChanges closures queued on doc.ready
  loadIds,      \* the actors loadDocument waits for
  rendered      \* whether content was announced with its minimum clock

storeVars == <<cursors, hasClock, peerClocks, feedInfo, owned, blocks,
               feedLength, restarts>>
actorVars == <<actorState, changes, streamEnd, syncWait, unsynced>>
docVars   == <<docState, docActor, docChanges, back, readyQ, loadIds, rendered>>
histVars  == <<brought, borrowed>>
vars      == <<storeVars, published, histVars, actorVars, docVars>>

-----------------------------------------------------------------------------
(* Values *)

\* A change as Automerge sees it: the seq-th change of an actor.  "doc" is
\* the document whose user made it; the code does not record it.
Change == [actor : Actors, seq : 1..MaxSeq, doc : Docs]

\* Sparse arrays of changes, indexed from 1.
Logs == UNION {[I -> Change] : I \in SUBSET (1..MaxSeq)}
EmptyLog == [i \in {} |-> NoActor]
\* Mutant: indexes count from 0.
BugPut(log, i, c) == [j \in DOMAIN log \cup {i - 1} |-> IF j = i - 1 THEN c ELSE log[j]]

Put(log, i, c) == [j \in DOMAIN log \cup {i} |-> IF j = i THEN c ELSE log[j]]

\* array.length: one more than the largest index of a JavaScript array.
Length(log) ==
  CHOOSE n \in 0..MaxSeq : DOMAIN log \subseteq 1..n /\ (n = 0 \/ n \in DOMAIN log)

\* Actor.writeChange: the index of the next local change.
\* Mutant: the length of the feed, whose append is still pending.
BugNextIndex(a) == feedLength[a] + 1

NextIndex(a) == Length(changes[a]) + 1

RemoteChange(a, i) == [actor |-> a, seq |-> i, doc |-> RemoteDoc[a]]

NoChanges == [a \in Actors |-> 0]

\* The largest element of a finite nonempty set of numbers.
Largest(S) == CHOOSE n \in S : \A m \in S : m <= n

\* DocBackend.clock after updateClock has seen the changes in S.
ClockOf(S) == [a \in {c.actor : c \in S} |-> Largest({c.seq : c \in {x \in S : x.actor = a}})]

\* Frontend.change numbers a request with the first free number of its actor.
NextSeq(d) ==
  CHOOSE n \in 1..(MaxSeq + 1) :
    /\ \A c \in back[d] : c.actor = docActor[d] => c.seq < n
    /\ n = 1 \/ \E c \in back[d] : c.actor = docActor[d] /\ c.seq = n - 1

\* localActorId looks for a writable feed.  Metadata.writable is filled by
\* ActorFeedReady and lives in memory.
IsWritable(a) == a \in owned /\ actorState[a] \in {"streaming", "ready"}

\* A key pair that was never used: initActorFeed makes one.
IsFresh(a) ==
  /\ a \in LocalActors \ Docs
  /\ a \notin feedInfo
  /\ actorState[a] = "none"
  /\ \A d \in Docs : a \notin DOMAIN cursors[d]

\* CursorStore.addActor
\* Mutant: replace the cursor, rather than upsert its rows.
BugAddActor(d, a) == [cursors EXCEPT ![d] = Entry(a, Infinity)]

AddActor(d, a) == [cursors EXCEPT ![d] = Union(@, Entry(a, Infinity))]

\* The awaits of loadDocument: for the actors of the cursor, and for the
\* local actor.
\* Mutant: loadDocument does not await the actors.
BugCanSlice(d) == docState[d] = "loading"

CanSlice(d) == docState[d] = "loading" /\ \A a \in loadIds[d] : actorState[a] = "ready"
CanInit(d)  == docState[d] \in {"sliced", "holed"} /\ actorState[docActor[d]] = "ready"

\* A loadDocument that has what it awaits runs on as a microtask, before the
\* next event that comes from a socket.
Settled == \A d \in Docs : ~CanSlice(d) /\ ~CanInit(d)

\* doc.ready is a queue until loadDocument subscribes to it.
\* Mutant: a document that is not ready drops what arrives.
BugIsLoading(d) == docState[d] = "failed"

IsLoading(d) == docState[d] \in {"loading", "sliced", "holed", "failed"}

-----------------------------------------------------------------------------
Init ==
  /\ cursors    = [d \in Docs |-> EmptyClock]
  /\ hasClock   = {}
  /\ peerClocks = [d \in Docs |-> EmptyClock]
  /\ feedInfo   = {}
  /\ owned      = {}
  /\ blocks     = [a \in Actors |-> EmptyLog]
  /\ feedLength = [a \in Actors |-> 0]
  /\ restarts   = 0
  /\ published  = [a \in RemoteActors |-> 0]
  /\ brought    = [d \in Docs |-> {}]
  /\ borrowed   = {}
  /\ actorState = [a \in Actors |-> "none"]
  /\ changes    = [a \in Actors |-> EmptyLog]
  /\ streamEnd  = [a \in Actors |-> 0]
  /\ syncWait   = {}
  /\ unsynced   = {}
  /\ docState   = [d \in Docs |-> "none"]
  /\ docActor   = [d \in Docs |-> NoActor]
  /\ docChanges = [d \in Docs |-> NoChanges]
  /\ back       = [d \in Docs |-> {}]
  /\ readyQ     = [d \in Docs |-> {}]
  /\ loadIds    = [d \in Docs |-> {}]
  /\ rendered   = [d \in Docs |-> FALSE]

-----------------------------------------------------------------------------
(* syncChanges: hand the changes that have arrived to the documents.       *)

\* The loop of syncChanges: from index "from", as far as the cursor's entry
\* allows and no block is missing.
\* Mutant: no bound from the cursor.
BugReach(log, from, max) ==
  CHOOSE i \in from..(MaxSeq + from) :
    (from + 1)..i \subseteq DOMAIN log /\ (i + 1) \notin DOMAIN log

Reach(log, from, max) ==
  CHOOSE i \in from..(MaxSeq + from) :
    /\ \A j \in (from + 1)..i : j <= max /\ j \in DOMAIN log
    /\ ~(i + 1 <= max /\ i + 1 \in DOMAIN log)

\* doc.changes of document d after the closures of the actors in A ran.
Pulled(A, had, log, cursor) ==
  [a \in Actors |-> IF a \in A THEN Reach(log[a], had[a], At(cursor, a)) ELSE had[a]]

\* The changes the closures collected.
Collected(had, has, log) ==
  UNION {{log[a][i] : i \in (had[a] + 1)..has[a]} : a \in Actors}

\* getGoodClock: a document whose clock row exists, or whose changes cover
\* the clock of a peer, has its minimum clock satisfied.
IsGood(d, given, clocks) ==
  \/ d \in hasClock
  \/ DOMAIN clocks[d] # {} /\ IsSatisfied(clocks[d], ClockOf(given))

\* documentNotify for the documents in "patched", which pushed a patch, and
\* those in "readied", which pushed a ReadyMsg with the changes they loaded.
Notify(patched, readied, given, clocks) ==
  LET good == {d \in patched \cup readied : IsGood(d, given[d], clocks)}
  IN /\ hasClock' = hasClock \cup (good \cap patched)
     /\ rendered' = [d \in Docs |-> rendered[d] \/ (d \in good /\ given[d] # {})]

\* syncChanges(a) for every a in A.  A document that is still loading queues
\* the closure on doc.ready; a ready one runs it and pushes a patch if there
\* was anything to apply.  "written" are documents with a local change.
SyncChanges(A, written, given, log, cursor, clocks) ==
  LET due == [d \in Docs |-> A \cap DOMAIN cursor[d]]
  IN /\ readyQ' = [d \in Docs |-> IF IsLoading(d) THEN readyQ[d] \cup due[d] ELSE readyQ[d]]
     /\ docChanges' = [d \in Docs |->
          IF docState[d] = "ready"
          THEN Pulled(due[d], docChanges[d], log, cursor[d])
          ELSE docChanges[d]]
     /\ back' = [d \in Docs |-> given[d] \cup Collected(docChanges[d], docChanges'[d], log)]
     /\ Notify(written \cup {d \in Docs : docChanges'[d] # docChanges[d]}, {}, back', clocks)

\* DocBackend.init: hand Automerge the slices, then drain the closures that
\* queued on doc.ready.  A hole in the slices makes Automerge throw, and the
\* promise of loadDocument is rejected before doc.ready is subscribed.
DocInit(d, holed, slices, sliced, cursor) ==
  IF holed
  THEN /\ docState' = [docState EXCEPT ![d] = "failed"]
       /\ docChanges' = [docChanges EXCEPT ![d] = sliced]
       /\ back' = back
       /\ UNCHANGED <<readyQ, hasClock, rendered>>
  ELSE /\ docState' = [docState EXCEPT ![d] = "ready"]
       /\ docChanges' = [docChanges EXCEPT ![d] = Pulled(readyQ[d], sliced, changes, cursor)]
       /\ back' = [back EXCEPT ![d] = slices \cup Collected(sliced, docChanges'[d], changes)]
       /\ readyQ' = [readyQ EXCEPT ![d] = {}]
       /\ Notify(IF docChanges'[d] # sliced THEN {d} ELSE {}, {d}, back', peerClocks)

\* syncReadyActors: open the actors that are not open; those that are ready
\* sync at once, the others when they become ready.
\* Mutant: only the actors that become ready later sync.
BugSyncReadyActors(ids, cursor, clocks) ==
  /\ actorState' = [a \in Actors |->
       IF a \in ids /\ actorState[a] = "none" THEN "opening" ELSE actorState[a]]
  /\ syncWait' = syncWait \cup {a \in ids : actorState[a] # "ready"}
  /\ UNCHANGED <<hasClock, docChanges, back, readyQ, rendered>>

SyncReadyActors(ids, cursor, clocks) ==
  LET ready == {a \in ids : actorState[a] = "ready"}
  IN /\ actorState' = [a \in Actors |->
          IF a \in ids /\ actorState[a] = "none" THEN "opening" ELSE actorState[a]]
     /\ syncWait' = syncWait \cup (ids \ ready)
     /\ SyncChanges(ready, {}, back, changes, cursor, clocks)

\* The actors that document d gets from elsewhere when it takes in a clock.
Brought(d, clock) == [brought EXCEPT ![d] = @ \cup (DOMAIN clock \ DOMAIN cursors[d])]

-----------------------------------------------------------------------------
(* Messages from the frontend: receive *)

\* CreateMsg: a document with a new root actor, ready at once.
Create(d) ==
  /\ d \in LocalActors
  /\ docState[d] = "none"
  /\ DOMAIN cursors[d] = {}
  /\ hasClock' = hasClock \cup {d}
  /\ cursors' = AddActor(d, d)
  /\ actorState' = [actorState EXCEPT ![d] = "creating"]
  /\ docState' = [docState EXCEPT ![d] = "ready"]
  /\ docActor' = [docActor EXCEPT ![d] = d]
  /\ rendered' = [rendered EXCEPT ![d] = TRUE]
  /\ UNCHANGED <<peerClocks, feedInfo, owned, blocks, feedLength, restarts, published, histVars,
                 changes, streamEnd, syncWait, unsynced,
                 docChanges, back, readyQ, loadIds>>

\* The user knows the id: a peer made the document or this repository did.
IsKnown(d) == d \in RemoteActors \/ DOMAIN cursors[d] # {}

\* OpenMsg: loadDocument awaits the actors that are in the cursor now.
Open(d) ==
  /\ docState[d] = "none"
  /\ IsKnown(d)
  /\ cursors' = AddActor(d, d)
  /\ docState' = [docState EXCEPT ![d] = "loading"]
  /\ loadIds' = [loadIds EXCEPT ![d] = DOMAIN cursors'[d]]
  /\ actorState' = [a \in Actors |->
       IF a \in DOMAIN cursors'[d] /\ actorState[a] = "none" THEN "opening" ELSE actorState[a]]
  /\ UNCHANGED <<hasClock, peerClocks, feedInfo, owned, blocks, feedLength, restarts,
                 published, histVars, changes, streamEnd, syncWait, unsynced,
                 docActor, docChanges, back, readyQ, rendered>>

\* NeedsActorIdMsg: initActorFeed adds a new actor to the cursor.  A document
\* that is loading ignores it; one that is ready keeps the id it has.  The
\* frontend asks before it knows whether the repository has an actor for the
\* document.
NeedsActorId(d, fresh) ==
  /\ docState[d] # "none"
  /\ IsFresh(fresh)
  /\ cursors' = AddActor(d, fresh)
  /\ actorState' = [actorState EXCEPT ![fresh] = "creating"]
  /\ UNCHANGED <<hasClock, peerClocks, feedInfo, owned, blocks, feedLength, restarts,
                 published, histVars, changes, streamEnd, syncWait, unsynced, docVars>>

\* RequestMsg: apply a local change, write it to the actor, let every
\* document with that actor pick it up, and append it to the feed (see Flush).
Request(d) ==
  LET a   == docActor[d]
      c   == [actor |-> a, seq |-> NextSeq(d), doc |-> d]
      log == [changes EXCEPT ![a] = Put(@, NextIndex(a), c)]
  IN /\ docState[d] = "ready" /\ rendered[d]
     /\ NextIndex(a) <= MaxSeq
     /\ NextSeq(d) <= MaxSeq
     /\ changes' = log
     /\ SyncChanges({a}, {d}, [back EXCEPT ![d] = @ \cup {c}], log, cursors, peerClocks)
     /\ UNCHANGED <<cursors, peerClocks, feedInfo, owned, blocks, feedLength, restarts,
                    published, histVars, actorState, streamEnd, syncWait, unsynced,
                    docState, docActor, loadIds>>

\* MergeMsg: take the changes a document shows now into another document,
\* whether that one is ready, loading or not open.
Merge(d, src) ==
  /\ <<d, src>> \in MergePairs
  /\ docState[src] = "ready" /\ rendered[src]
  /\ IsKnown(d)
  /\ cursors' = [cursors EXCEPT ![d] = Union(@, ClockOf(back[src]))]
  /\ brought' = Brought(d, ClockOf(back[src]))
  /\ SyncReadyActors(DOMAIN ClockOf(back[src]), cursors', peerClocks)
  /\ UNCHANGED <<peerClocks, feedInfo, owned, blocks, feedLength, restarts, published, borrowed,
                 changes, streamEnd, unsynced, docState, docActor, loadIds>>

-----------------------------------------------------------------------------
(* loadDocument, after allReadyActors                                       *)

\* actor.changes.slice(0, max) for the actors that were awaited.
SliceLength(d, a) ==
  LET n   == Length(changes[a])
      max == At(cursors[d], a)
  IN IF a \notin loadIds[d] THEN 0 ELSE IF n <= max THEN n ELSE max

Slices(d) ==
  UNION {{changes[a][i] : i \in (1..SliceLength(d, a)) \cap DOMAIN changes[a]} : a \in Actors}

\* Mutant: the missing blocks are filtered out.
BugHasHole(d) == FALSE

HasHole(d) == \E a \in Actors : ~(1..SliceLength(d, a) \subseteq DOMAIN changes[a])

\* localActorId.  Mutant: any writable feed will do.
BugWritableIn(d) == {a \in LocalActors : IsWritable(a)}

WritableIn(d) == {a \in DOMAIN cursors[d] : IsWritable(a)}

\* The cursor has a writable actor: await it.  The rows come in no order, so
\* any of them may be the first.
LoadReuse(d, a) ==
  /\ CanSlice(d)
  /\ a \in WritableIn(d)
  /\ docState' = [docState EXCEPT ![d] = IF HasHole(d) THEN "holed" ELSE "sliced"]
  /\ docActor' = [docActor EXCEPT ![d] = a]
  /\ docChanges' = [docChanges EXCEPT ![d] = [x \in Actors |-> SliceLength(d, x)]]
  /\ back' = [back EXCEPT ![d] = Slices(d)]
  /\ borrowed' = IF a \in brought[d] THEN borrowed \cup {d} ELSE borrowed
  /\ UNCHANGED <<storeVars, published, brought, actorVars, readyQ, loadIds, rendered>>

\* ... and continue once it is ready.
LoadInit(d) ==
  /\ CanInit(d)
  /\ DocInit(d, docState[d] = "holed", back[d], docChanges[d], cursors[d])
  /\ UNCHANGED <<cursors, peerClocks, feedInfo, owned, blocks, feedLength, restarts,
                 published, histVars, actorVars, docActor, loadIds>>

\* The cursor has none: initActorFeed, and initialise without waiting.
LoadFresh(d, fresh) ==
  /\ CanSlice(d)
  /\ WritableIn(d) = {}
  /\ IsFresh(fresh)
  /\ cursors' = AddActor(d, fresh)
  /\ actorState' = [actorState EXCEPT ![fresh] = "creating"]
  /\ docActor' = [docActor EXCEPT ![d] = fresh]
  /\ DocInit(d, HasHole(d), Slices(d), [x \in Actors |-> SliceLength(d, x)], cursors'[d])
  /\ UNCHANGED <<peerClocks, feedInfo, owned, blocks, feedLength, restarts, published, histVars,
                 changes, streamEnd, syncWait, unsynced, loadIds>>

-----------------------------------------------------------------------------
(* Actor: events of its feed                                               *)

\* The length of a feed when it is opened; its stream reads to there.
\* Mutant: one block too far.
BugStreamLength(a) == IF feedLength[a] = 0 THEN 0 ELSE feedLength[a] + 1

StreamLength(a) == feedLength[a]

\* onFeedReady: the feed is open, its secret key and its row are stored, and
\* the blocks it has now are streamed from the disk.
FeedReady(a) ==
  /\ actorState[a] \in {"creating", "opening"}
  /\ actorState' = [actorState EXCEPT ![a] = "streaming"]
  /\ owned' = IF actorState[a] = "creating" THEN owned \cup {a} ELSE owned
  /\ feedInfo' = feedInfo \cup {a}
  /\ streamEnd' = [streamEnd EXCEPT ![a] = StreamLength(a)]
  /\ UNCHANGED <<cursors, hasClock, peerClocks, blocks, feedLength, restarts, published, histVars,
                 changes, syncWait, unsynced, docVars>>

\* The read stream ends when every block it covers was read; it waits for a
\* block that is not on disk.  Then the actor is ready, and syncs if there
\* was data or if a syncReadyActors callback waits.
StreamEnd(a) ==
  LET from == [i \in 1..streamEnd[a] |-> blocks[a][i]]
      log  == [changes EXCEPT ![a] =
                [i \in DOMAIN @ \cup DOMAIN from |-> IF i \in DOMAIN from THEN from[i] ELSE @[i]]]
  IN /\ actorState[a] = "streaming"
     /\ 1..streamEnd[a] \subseteq DOMAIN blocks[a]
     /\ actorState' = [actorState EXCEPT ![a] = "ready"]
     /\ changes' = log
     /\ syncWait' = syncWait \ {a}
     /\ SyncChanges(IF streamEnd[a] > 0 \/ a \in syncWait THEN {a} ELSE {}, {},
                    back, log, cursors, peerClocks)
     /\ UNCHANGED <<cursors, peerClocks, feedInfo, owned, blocks, feedLength, restarts,
                    published, histVars, streamEnd, unsynced, docState, docActor, loadIds>>

\* A block arrives, in any order, and with it the length of the feed.  An
\* actor whose feed is open parses it (onDownload) but does not sync.
Download(a, i) ==
  /\ Settled
  /\ a \in feedInfo
  /\ i \in (1..published[a]) \ DOMAIN blocks[a]
  /\ blocks' = [blocks EXCEPT ![a] = Put(@, i, RemoteChange(a, i))]
  /\ feedLength' = [feedLength EXCEPT ![a] = published[a]]
  /\ unsynced' = unsynced \cup {a}
  /\ changes' = IF actorState[a] \in {"streaming", "ready"}
                THEN [changes EXCEPT ![a] = Put(@, i, RemoteChange(a, i))]
                ELSE changes
  /\ UNCHANGED <<cursors, hasClock, peerClocks, feedInfo, owned, restarts, published, histVars,
                 actorState, streamEnd, syncWait, docVars>>

\* hypercore's "sync": every block of the feed is there.  onSync.
SyncEvent(a) ==
  /\ Settled
  /\ a \in unsynced
  /\ 1..feedLength[a] \subseteq DOMAIN blocks[a]
  /\ unsynced' = unsynced \ {a}
  /\ SyncChanges(IF actorState[a] \in {"streaming", "ready"} THEN {a} ELSE {}, {},
                 back, changes, cursors, peerClocks)
  /\ UNCHANGED <<cursors, peerClocks, feedInfo, owned, blocks, feedLength, restarts, published, histVars,
                 actorState, changes, streamEnd, syncWait, docState, docActor, loadIds>>

\* FeedStore.append of the oldest change that writeChange left to append.
Flush(a) ==
  LET i == feedLength[a] + 1
  IN /\ IsWritable(a)
     /\ i \in DOMAIN changes[a]
     /\ blocks' = [blocks EXCEPT ![a] = Put(@, i, changes[a][i])]
     /\ feedLength' = [feedLength EXCEPT ![a] = i]
     /\ UNCHANGED <<cursors, hasClock, peerClocks, feedInfo, owned, restarts, published, histVars,
                    actorVars, docVars>>

-----------------------------------------------------------------------------
(* Peers, and the process                                                  *)

\* A remote user writes a change.
RemoteAppend(a) ==
  /\ published[a] < RemoteLength[a]
  /\ published' = [published EXCEPT ![a] = @ + 1]
  /\ UNCHANGED <<storeVars, histVars, actorVars, docVars>>

\* The clocks that a CursorMessage may hold.
PeerClocks == ClocksOver(Actors, 1..MaxSeq)

\* A peer may have this clock of document d: of actors in the cursor it
\* announces, what they have published and what we have stored.
MayHave(d, clock) ==
  /\ DOMAIN clock \subseteq DOMAIN PeerCursor[d]
  /\ \A a \in DOMAIN clock :
       clock[a] <= IF a \in RemoteActors THEN published[a] ELSE feedLength[a]

\* onMessage, CursorMessage: store the peer's clock, widen our own cursor,
\* and sync the actors the peer's cursor names.  A peer knows a document of
\* ours, and our actors, from the cursors we announced; it may have merged
\* one of our documents into another.
CursorMessage(d, clock) ==
  /\ Settled
  /\ IsKnown(d)
  /\ MayHave(d, clock)
  /\ DOMAIN PeerCursor[d] # {}
  /\ DOMAIN PeerCursor[d] \cap LocalActors \subseteq UNION {DOMAIN cursors[e] : e \in Docs}
  /\ peerClocks' = [peerClocks EXCEPT ![d] = Union(@, clock)]
  /\ cursors' = [cursors EXCEPT ![d] = Union(@, PeerCursor[d])]
  /\ brought' = Brought(d, PeerCursor[d])
  /\ SyncReadyActors(DOMAIN PeerCursor[d], cursors', peerClocks')
  /\ UNCHANGED <<feedInfo, owned, blocks, feedLength, restarts, published, borrowed,
                 changes, streamEnd, unsynced, docState, docActor, loadIds>>

\* The process ends, in order or not: close does not wait for appends.  What
\* is in memory is gone.
Restart ==
  /\ restarts < MaxRestarts
  /\ restarts' = restarts + 1
  /\ actorState' = [a \in Actors |-> "none"]
  /\ changes'    = [a \in Actors |-> EmptyLog]
  /\ streamEnd'  = [a \in Actors |-> 0]
  /\ syncWait'   = {}
  /\ unsynced'   = {}
  /\ docState'   = [d \in Docs |-> "none"]
  /\ docActor'   = [d \in Docs |-> NoActor]
  /\ docChanges' = [d \in Docs |-> NoChanges]
  /\ back'       = [d \in Docs |-> {}]
  /\ readyQ'     = [d \in Docs |-> {}]
  /\ loadIds'    = [d \in Docs |-> {}]
  /\ rendered'   = [d \in Docs |-> FALSE]
  /\ UNCHANGED <<cursors, hasClock, peerClocks, feedInfo, owned, blocks, feedLength, published,
                 histVars>>

-----------------------------------------------------------------------------
Next ==
  \/ \E d \in Docs : Create(d) \/ Open(d) \/ Request(d) \/ LoadInit(d)
  \/ \E d \in Docs, a \in LocalActors :
       NeedsActorId(d, a) \/ LoadReuse(d, a) \/ LoadFresh(d, a)
  \/ \E d, src \in Docs : Merge(d, src)
  \/ \E a \in Actors : FeedReady(a) \/ StreamEnd(a)
  \/ \E a \in RemoteActors : RemoteAppend(a) \/ SyncEvent(a)
  \/ \E a \in RemoteActors, i \in 1..MaxSeq : Download(a, i)
  \/ \E a \in LocalActors : Flush(a)
  \/ \E d \in Docs, clock \in PeerClocks : CursorMessage(d, clock)
  \/ Restart

Spec == Init /\ [][Next]_vars

\* Callbacks that are due are run, and a peer that has a block delivers it.
\* Nothing obliges a user to do anything, a peer to write or to announce its
\* cursor, or the process to stop.
Fairness ==
  /\ \A d \in Docs :
       /\ WF_vars(LoadInit(d))
       /\ WF_vars(\E a \in LocalActors : LoadReuse(d, a) \/ LoadFresh(d, a))
  /\ \A a \in Actors : WF_vars(FeedReady(a)) /\ WF_vars(StreamEnd(a))
  /\ \A a \in RemoteActors : WF_vars(SyncEvent(a)) /\ WF_vars(\E i \in 1..MaxSeq : Download(a, i))

FairSpec == Spec /\ Fairness

-----------------------------------------------------------------------------
(* Properties *)

\* The type invariant.
TypeOK ==
  /\ cursors \in [Docs -> ClocksOver(Actors, 0..Infinity)]
  /\ hasClock \subseteq Docs
  /\ peerClocks \in [Docs -> ClocksOver(Actors, 0..MaxSeq)]
  /\ feedInfo \subseteq Actors
  /\ owned \subseteq LocalActors
  /\ blocks \in [Actors -> Logs]
  /\ feedLength \in [Actors -> 0..MaxSeq]
  /\ restarts \in 0..MaxRestarts
  /\ published \in [RemoteActors -> 0..MaxSeq]
  /\ brought \in [Docs -> SUBSET Actors]
  /\ borrowed \subseteq Docs
  /\ actorState \in [Actors -> {"none", "creating", "opening", "streaming", "ready"}]
  /\ changes \in [Actors -> Logs]
  /\ streamEnd \in [Actors -> 0..MaxSeq]
  /\ syncWait \subseteq Actors
  /\ unsynced \subseteq RemoteActors
  /\ docState \in [Docs -> {"none", "loading", "sliced", "holed", "ready", "failed"}]
  /\ docActor \in [Docs -> LocalActors \cup {NoActor}]
  /\ docChanges \in [Docs -> [Actors -> 0..MaxSeq]]
  /\ back \in [Docs -> SUBSET Change]
  /\ readyQ \in [Docs -> SUBSET Actors]
  /\ loadIds \in [Docs -> SUBSET Actors]
  /\ rendered \in [Docs -> BOOLEAN]

\* What a ready document counts in doc.changes it has given to Automerge: no
\* block is skipped, whatever order blocks, cursors and callbacks come in.
\* (DocBackend.init, syncChanges)
CountedIsApplied ==
  \A d \in Docs, a \in Actors :
    docState[d] = "ready" =>
      \A i \in 1..docChanges[d][a] : i \in DOMAIN changes[a] /\ changes[a][i] \in back[d]

\* A ready document is the part of the feeds that its cursor selects and
\* that it counts, and nothing else.  One that writes with an actor that a
\* merge brought is not: it shows its own changes, beyond what the merge let
\* it read.
BackIsCursorOfLogs ==
  \A d \in Docs \ borrowed : docState[d] = "ready" =>
    /\ \A a \in Actors : docChanges[d][a] <= At(cursors[d], a)
    /\ back[d] = Collected(NoChanges, docChanges[d], changes)

\* A ready document never lags behind blocks that are in memory and that its
\* cursor selects, unless a callback that will sync that actor is due: no
\* wake-up is lost between downloads, cursor messages, merges and loading.
NoLostWakeup ==
  \A d \in Docs, a \in Actors :
    (/\ docState[d] = "ready"
     /\ actorState[a] = "ready"
     /\ a \notin unsynced)
    => ~(/\ docChanges[d][a] < At(cursors[d], a)
         /\ (docChanges[d][a] + 1) \in DOMAIN changes[a])

\* The n-th block of a feed is the n-th change of its author (the check that
\* writeChange only logs), in memory and on disk.
FeedOrder ==
  \A a \in Actors :
    /\ \A i \in DOMAIN changes[a] : changes[a][i].actor = a /\ changes[a][i].seq = i
    /\ \A i \in DOMAIN blocks[a]  : blocks[a][i].actor = a /\ blocks[a][i].seq = i

\* A feed of ours holds changes of two documents only if a merge, here or at
\* a peer, put its actor into the cursor of one of them: neither opening,
\* loading, asking for actor ids nor a restart mixes the feeds of documents.
ForksAreMerged ==
  \A a \in LocalActors :
    \A i, j \in DOMAIN blocks[a] :
      LET d == blocks[a][i].doc
          e == blocks[a][j].doc
      IN d # e => a \in brought[d] \cup brought[e]

\* One feed per author and document: a feed of ours never holds changes of
\* two documents.
OneDocPerFeed ==
  \A a \in LocalActors :
    \A i, j \in DOMAIN blocks[a] : blocks[a][i].doc = blocks[a][j].doc

\* A local change that reached the disk is in its document whenever that
\* document is ready, in this session or a later one.
DurableChangesShown ==
  \A d \in Docs, a \in LocalActors :
    docState[d] = "ready" =>
      \A i \in DOMAIN blocks[a] : blocks[a][i].doc = d => blocks[a][i] \in back[d]

\* Neither a cursor nor a peer's clock ever shrinks, and no block on disk is
\* overwritten, across restarts too.
StoresGrow ==
  [][/\ \A d \in Docs : /\ Gte(cursors'[d], cursors[d])
                        /\ Gte(peerClocks'[d], peerClocks[d])
     /\ \A a \in Actors : \A i \in DOMAIN blocks[a] :
          i \in DOMAIN blocks'[a] /\ blocks'[a][i] = blocks[a][i]]_vars

\* A document that is ready for good gets every change the remote actors in
\* its cursor have written.
HasPublished(d) ==
  \A a \in RemoteActors \cap DOMAIN cursors[d] :
    \A i \in 1..published[a] : i <= At(cursors[d], a) => RemoteChange(a, i) \in back[d]

ReadyConverges ==
  \A d \in Docs :
    (docState[d] = "ready") ~> (HasPublished(d) \/ docState[d] # "ready")

\* Loading comes to an end, if not always well: after a restart too, when the
\* disk holds a part of a feed, whose read stream then waits for the rest.
\* (The key pairs are bounded here; a document may be left without one.)
LoadingEnds ==
  \A d \in Docs : (docState[d] \in {"loading", "sliced", "holed"})
                    ~> \/ docState[d] \in {"ready", "failed", "none"}
                       \/ ~\E a \in LocalActors : IsFresh(a)

\* A document that was opened becomes ready.
OpenedLoads ==
  \A d \in Docs : IsLoading(d) ~> (docState[d] \in {"ready", "none"})

\* A document that holds all a peer announced, and something, is shown.
Covers(d) ==
  /\ docState[d] = "ready"
  /\ back[d] # {}
  /\ DOMAIN peerClocks[d] # {}
  /\ IsSatisfied(peerClocks[d], ClockOf(back[d]))

CoveredIsRendered ==
  \A d \in Docs : Covers(d) ~> (rendered[d] \/ ~Covers(d))

=============================================================================
