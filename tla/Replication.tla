---------------------------- MODULE Replication ----------------------------
(***************************************************************************)
(* How two repositories come to replicate the feeds they have in common:   *)
(* ReplicationManager.ts, FeedStore.ts, MessageRouter.ts, and what         *)
(* RepoBackend.ts does with the cursors that name the feeds.  Connections  *)
(* are taken and dropped as PeerLink says, which NetworkPeer implements.   *)
(*                                                                         *)
(* On every connection that is taken into use the authority announces its  *)
(* feeds; later each side announces a feed that it opens for the first     *)
(* time.  The set "replicating" of what is shared with the peer is kept    *)
(* per peer; buses and protocols are kept per connection, and deliver what *)
(* a connection carried when another one is in use already.                *)
(***************************************************************************)
EXTENDS FiniteSets, Naturals

CONSTANTS
  Conns, None,       \* connections, and no connection
  LateDelivery,      \* whether what was sent before close() may still arrive
  Feeds,             \* feeds; a discovery id stands for its feed
  Docs,              \* documents: the id of a document is its root feed
  Owner,             \* the repository that has the secret key of a feed
  Stores             \* what an earlier session may have left on the disks: the
                     \* feeds and the cursors of each repository

VARIABLES
  (* NetworkPeer *)
  ends, using,
  (* FeedStore, Actor, CursorStore *)
  feedInfo,     \* Feeds: the feeds that were opened once
  loaded,       \* FeedStore.loaded, and how far each feed is open
  actors,       \* RepoBackend.actors
  cursors,      \* the feeds in the cursor of each document
  (* ReplicationManager *)
  replicating,  \* what is shared with the peer
  joined,       \* connections that have a protocol and buses
  joining,      \* <<connection, feed>>: replicateWith waits for a feed to open
  replicated,   \* <<connection, feed>>: feed.replicate was called
  msgs          \* on the way, on all connections

linkVars == <<ends, using>>
feedVars == <<feedInfo, loaded, actors, cursors>>
repVars  == <<replicating, joined, joining, replicated, msgs>>
vars     == <<linkVars, feedVars, repVars>>

Link == INSTANCE PeerLink

Authority == Link!Authority
Other     == Link!Other
Sides     == Link!Sides
Peer(s)   == Link!Peer(s)

ASSUME FeedsAssumption ==
  /\ Docs \subseteq Feeds
  /\ Owner \in [Feeds -> Sides]
  /\ Stores \subseteq [feeds : [Sides -> SUBSET Feeds],
                       cursors : [Sides -> [Docs -> SUBSET Feeds]]]

ASSUME ConnsAssumption == None \notin Conns

\* A document that was created, opened or announced to us has its root in its
\* cursor.
ASSUME StoresAssumption ==
  \A store \in Stores, s \in Sides, d \in Docs :
    store.cursors[s][d] # {} => d \in store.cursors[s][d]

-----------------------------------------------------------------------------
(* Values *)

Cursors == UNION {[D -> SUBSET Feeds] : D \in SUBSET Docs}

Messages ==
  [to : Sides, conn : Conns, type : {"DiscoveryIds", "DiscoveryKey"}, ids : SUBSET Feeds]
    \cup [to : Sides, conn : Conns, type : {"CursorMessage"}, cursors : Cursors]

Ids(s, c, ids) == [to |-> Peer(s), conn |-> c, type |-> "DiscoveryIds", ids |-> ids]

\* hypercore-protocol: the channel of a feed is opened.
Channel(s, c, f) == [to |-> Peer(s), conn |-> c, type |-> "DiscoveryKey", ids |-> {f}]

\* CursorStore.docsWithActor
DocsWithActor(cur, f) == {d \in Docs : f \in cur[d]}

\* The CursorMessage of s with every document that feed f belongs to, for
\* cursors "cur".  An empty one is left out.
Announced(s, c, cur, f) ==
  IF DocsWithActor(cur, f) = {} THEN {}
  ELSE {[to |-> Peer(s), conn |-> c, type |-> "CursorMessage",
         cursors |-> [d \in DocsWithActor(cur, f) |-> cur[d]]]}

\* Mutant: the documents of an actor are not announced when it is ready.
BugActorFeedReady(s, cur, F) == {}

\* actorNotify, ActorFeedReady: the actor's documents are announced if one of
\* them is shared with the peer.
ActorFeedReady(s, cur, F) ==
  UNION {Announced(s, using[s], cur, f) :
           f \in {x \in F : DocsWithActor(cur, x) \cap replicating[s] # {}}}

\* Mutant: nobody asks whether there is a connection.
BugDeliverable(M) == M

\* What is written to a connection that the peer's end has left is lost.
Deliverable(M) == {m \in M : m.conn # None /\ Link!IsLive(m.to, m.conn)}

IsGone(s, c) == ends'[s][c] = "gone"

\* Messages that the connections still carry after a step of PeerLink.
Surviving(M) ==
  {m \in M : ~IsGone(m.to, m.conn) /\ (LateDelivery \/ ~IsGone(Peer(m.to), m.conn))}

-----------------------------------------------------------------------------
Init ==
  /\ Link!Init
  /\ \E store \in Stores : feedInfo = store.feeds /\ cursors = store.cursors
  /\ loaded = [s \in Sides |-> [f \in Feeds |-> "none"]]
  /\ actors = [s \in Sides |-> {}]
  /\ replicating = [s \in Sides |-> {}]
  /\ joined = [s \in Sides |-> {}]
  /\ joining = [s \in Sides |-> {}]
  /\ replicated = [s \in Sides |-> {}]
  /\ msgs = {}

-----------------------------------------------------------------------------
(* ReplicationManager *)

\* Feeds in F that are not open are opened.
Opening(s, F) ==
  [loaded EXCEPT ![s] = [f \in Feeds |-> IF f \in F /\ @[f] = "none" THEN "opening" ELSE @[f]]]

\* replicateWith: of the feeds in "ids" we know those that we have opened once;
\* the discovery makes RepoBackend announce their documents.  A feed that is
\* not open yet is replicated when getFeed has it.  The protocol is that of the
\* connection in use.
ReplicateWith(s, ids, M) ==
  LET c   == using[s]
      has == ids \cap feedInfo[s]
      now == {f \in has : loaded[s][f] = "ready"}
  IN /\ c # None
     /\ replicating' = [replicating EXCEPT ![s] = @ \cup ids]
     /\ loaded' = Opening(s, has)
     /\ joining' = [joining EXCEPT ![s] = @ \cup ({c} \X (has \ now))]
     /\ replicated' = [replicated EXCEPT ![s] = @ \cup ({c} \X now)]
     /\ msgs' = M \cup Deliverable((UNION {Announced(s, c, cursors[s], f) : f \in has})
                                  \cup {Channel(s, c, f) : f \in now})

\* Without a connection getOrCreateProtocol throws; the message is lost.
Throws(s, M) ==
  /\ using[s] = None
  /\ msgs' = M
  /\ UNCHANGED <<replicating, loaded, joining, replicated>>

\* A message that has arrived on a connection where somebody listens.
Arrived(m) ==
  /\ m \in msgs
  /\ Link!IsLive(m.to, m.conn)
  /\ m.conn \in joined[m.to]

\* The filter of onMessage.
Shared(s, ids) == (ids \ replicating[s]) \cap feedInfo[s]

\* onMessage
OnDiscoveryIds(m) ==
  LET s == m.to
  IN /\ Arrived(m) /\ m.type = "DiscoveryIds"
     /\ ReplicateWith(s, Shared(s, m.ids), msgs \ {m}) \/ Throws(s, msgs \ {m})
     /\ UNCHANGED <<linkVars, feedInfo, actors, cursors, joined>>

\* The protocol has the channel already.
\* Mutant: every channel that the peer opens is answered.
BugHasChannel(s, c, ids) == FALSE

HasChannel(s, c, ids) == {c} \X ids \subseteq replicated[s]

\* The peer opens the channel of a feed; the protocol says "discovery-key" if
\* this end has not opened it.
OnDiscoveryKey(m) ==
  LET s == m.to
  IN /\ Arrived(m) /\ m.type = "DiscoveryKey"
     /\ \/ /\ HasChannel(s, m.conn, m.ids)
           /\ msgs' = msgs \ {m}
           /\ UNCHANGED <<loaded, replicating, joining, replicated>>
        \/ /\ ~HasChannel(s, m.conn, m.ids)
           /\ ReplicateWith(s, m.ids, msgs \ {m}) \/ Throws(s, msgs \ {m})
     /\ UNCHANGED <<linkVars, feedInfo, actors, cursors, joined>>

\* The sides that take a connection into use in a step of PeerLink.
Confirming == {s \in Sides : using'[s] # None /\ using'[s] # using[s]}

\* onPeer: "replicating" starts anew, and the authority announces its feeds.
\* Mutant: what was shared over the last connection stays.
BugReset(on) == replicating

Reset(on) == [s \in Sides |-> IF s \in on THEN {} ELSE replicating[s]]

\* Mutant: every feed that a cursor names is announced.
BugWelcome(on) ==
  {Ids(s, using'[s], feedInfo[s] \cup (UNION {cursors[s][d] : d \in Docs})) : s \in on \cap {Authority}}

Welcome(on) == {Ids(s, using'[s], feedInfo[s]) : s \in on \cap {Authority}}

\* A step of the connections, with onPeer.  What belonged to an end that is
\* gone is forgotten.
Connections ==
  /\ Link!Next
  /\ replicating' = Reset(Confirming)
  /\ joined' = [s \in Sides |->
       {c \in joined[s] \cup ({using'[s]} \ {None}) : ~IsGone(s, c)}]
  /\ joining' = [s \in Sides |-> {p \in joining[s] : ~IsGone(s, p[1])}]
  /\ replicated' = [s \in Sides |-> {p \in replicated[s] : ~IsGone(s, p[1])}]
  /\ msgs' = Surviving(msgs \cup Welcome(Confirming))
  /\ UNCHANGED feedVars

-----------------------------------------------------------------------------
(* RepoBackend and FeedStore *)

\* getReadyActor for every feed in F, when the cursors of s are "cur".  The
\* actor of a feed that is open already is ready at once.
OpenActors(s, F, cur, M) ==
  /\ cursors' = [cursors EXCEPT ![s] = cur]
  /\ actors' = [actors EXCEPT ![s] = @ \cup F]
  /\ loaded' = Opening(s, F)
  /\ msgs' = M \cup Deliverable(
       ActorFeedReady(s, cur, {f \in F \ actors[s] : loaded[s][f] = "ready"}))
  /\ UNCHANGED <<linkVars, feedInfo, replicating, joined, joining, replicated>>

Widened(s, d, F) == [cursors[s] EXCEPT ![d] = @ \cup F]

\* create: a new key pair is the root of a new document.
Create(s, d) ==
  /\ Owner[d] = s
  /\ d \notin feedInfo[s] \cup actors[s]
  /\ cursors[s][d] = {}
  /\ OpenActors(s, {d}, Widened(s, d, {d}), msgs)

\* open: the user has the document's id from somebody who has the document.
Open(s, d) ==
  /\ \E t \in Sides : cursors[t][d] # {}
  /\ d \notin actors[s]
  /\ OpenActors(s, cursors[s][d] \cup {d}, Widened(s, d, {d}), msgs)

\* A key pair of s that was not used before, and is no document's.
IsFresh(s, f) ==
  /\ Owner[f] = s /\ f \notin Docs
  /\ f \notin feedInfo[s] \cup actors[s]
  /\ \A d \in Docs : f \notin cursors[s][d]

\* initActorFeed, for a document that is open and so has its root in its cursor.
InitActorFeed(s, d, f) ==
  /\ IsFresh(s, f)
  /\ d \in actors[s] \cap cursors[s][d]
  /\ OpenActors(s, {f}, Widened(s, d, {f}), msgs)

\* onMessage, CursorMessage: widen our own cursors and open the actors.
OnCursorMessage(m) ==
  LET s == m.to
  IN /\ Arrived(m) /\ m.type = "CursorMessage"
     /\ OpenActors(s, UNION {m.cursors[d] : d \in DOMAIN m.cursors},
          [d \in Docs |-> cursors[s][d] \cup (IF d \in DOMAIN m.cursors THEN m.cursors[d] ELSE {})],
          msgs \ {m})

\* onFeedCreated.  Mutant: only onPeer announces feeds.
BugCreated(s, f) == {}

Created(s, f) == {Ids(s, using[s], {f})}

\* FeedInfoStore.save: a feed that was not opened before is created.
Saved(s, f) == IF f \in feedInfo[s] THEN {} ELSE Created(s, f)

\* A feed is open (feed.ready).  A new one is saved, which announces it to the
\* peer; then its actor is ready, and replicateWith goes on.
FeedReady(s, f) ==
  LET waiting == {p \in joining[s] : p[2] = f}
  IN /\ loaded[s][f] = "opening"
     /\ loaded' = [loaded EXCEPT ![s][f] = "ready"]
     /\ feedInfo' = [feedInfo EXCEPT ![s] = @ \cup {f}]
     /\ joining' = [joining EXCEPT ![s] = @ \ waiting]
     /\ replicated' = [replicated EXCEPT ![s] = @ \cup waiting]
     /\ msgs' = msgs \cup Deliverable(Saved(s, f) \cup {Channel(s, p[1], f) : p \in waiting}
                                     \cup ActorFeedReady(s, cursors[s], {f} \cap actors[s]))
     /\ UNCHANGED <<linkVars, actors, cursors, replicating, joined>>

-----------------------------------------------------------------------------
Next ==
  \/ Connections
  \/ \E m \in msgs : OnDiscoveryIds(m) \/ OnDiscoveryKey(m) \/ OnCursorMessage(m)
  \/ \E s \in Sides, f \in Feeds : FeedReady(s, f)
  \/ \E s \in Sides, d \in Docs : Create(s, d) \/ Open(s, d)
  \/ \E s \in Sides, d \in Docs, f \in Feeds : InitActorFeed(s, d, f)

Spec == Init /\ [][Next]_vars

-----------------------------------------------------------------------------
(* Properties *)

\* The type invariant.
TypeOK ==
  /\ ends \in [Sides -> [Conns -> {"none", "idle", "used", "gone"}]]
  /\ using \in [Sides -> Conns \cup {None}]
  /\ feedInfo \in [Sides -> SUBSET Feeds]
  /\ loaded \in [Sides -> [Feeds -> {"none", "opening", "ready"}]]
  /\ actors \in [Sides -> SUBSET Feeds]
  /\ cursors \in [Sides -> [Docs -> SUBSET Feeds]]
  /\ replicating \in [Sides -> SUBSET Feeds]
  /\ joined \in [Sides -> SUBSET Conns]
  /\ joining \in [Sides -> SUBSET (Conns \X Feeds)]
  /\ replicated \in [Sides -> SUBSET (Conns \X Feeds)]
  /\ msgs \subseteq Messages

\* A feed that is marked as shared with the peer is replicated, or about to
\* be, on the connection in use: the mark makes onMessage ignore the feed when
\* the peer announces it, and must not outlive a connection.
SharedIsReplicated ==
  \A s \in Sides :
    Link!IsBusy(s) =>
      {using[s]} \X replicating[s] \subseteq joining[s] \cup replicated[s]

\* Nobody replicates a feed that the peer has never opened (replicateWith:
\* "The peer has not yet been verified to have this key").
OnlyCommonFeeds ==
  \A s \in Sides : \A p \in joining[s] \cup replicated[s] :
    p[2] \in feedInfo[s] \cap feedInfo[Peer(s)]

\* Both peers use c, and it works.
InUse(c) == \A s \in Sides : using[s] = c /\ Link!IsLive(s, c)

\* ... and nothing is due on it.
Quiet(c) ==
  /\ InUse(c)
  /\ \A m \in msgs : m.conn # c
  /\ \A s \in Sides, f \in Feeds : loaded[s][f] # "opening"

\* When nothing is due any more, every feed that both have is replicated on
\* the connection in use, at both ends, and the two cursors of a document
\* whose root both have are the same: neither waits for an announcement that
\* was made too early, or to nobody.  (onPeer, onFeedCreated, actorNotify)
Meet ==
  \A c \in Conns : Quiet(c) =>
    LET common == feedInfo[Authority] \cap feedInfo[Other]
    IN /\ \A f \in common, s \in Sides : <<c, f>> \in replicated[s]
       /\ \A d \in Docs \cap common : cursors[Authority][d] = cursors[Other][d]

\* What the exchange on c may still bring about: messages, where a channel
\* weighs more than a cursor and most on another connection, since it is
\* answered on c; and for every feed all that happens to it only once.
Remaining(c) ==
  LET channels == {m \in msgs : m.type = "DiscoveryKey"}
      Left(done) == Cardinality({t \in Sides \X Feeds : t[2] \notin done[t[1]]})
      In(state)  == Cardinality({t \in Sides \X Feeds : loaded[t[1]][t[2]] = state})
  IN Cardinality(msgs) + 2 * Cardinality(channels) + 2 * Cardinality({m \in channels : m.conn # c})
       + 6 * Cardinality({t \in Sides \X Conns \X Feeds : <<t[2], t[3]>> \notin replicated[t[1]]})
       + 5 * Left(replicating) + 4 * In("none") + 3 * In("opening") + 2 * Left(actors)

\* A message was handled, or a feed has opened.
Handled ==
  /\ UNCHANGED linkVars
  /\ \/ msgs \ msgs' # {}
     \/ \E s \in Sides, f \in Feeds : loaded[s][f] = "opening" /\ loaded'[s][f] = "ready"

\* Two peers that stay connected come to the end of their announcements: an
\* answer to an answer, or to what a connection still delivers that was left,
\* always brings the exchange nearer to its end.  (onMessage, the event
\* "discovery-key", onDiscovery)
ExchangeEnds ==
  [][\A c \in Conns : InUse(c) /\ Handled => Remaining(c)' < Remaining(c)]_vars

=============================================================================
