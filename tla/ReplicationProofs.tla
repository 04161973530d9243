------------------------- MODULE ReplicationProofs -------------------------
(***************************************************************************)
(* Theorems about Replication, for any feeds, documents and connections:   *)
(* what is marked as shared with the peer is replicated on the connection  *)
(* in use, nobody replicates a feed that only one of the two has, a        *)
(* message to the authority finds a connection to answer on, and when      *)
(* nothing is due both ends replicate what both have and know the same     *)
(* actors.                                                                 *)
(***************************************************************************)
EXTENDS Replication, TLAPS

\* The two sides.
LEMMA PeerLemma ==
  ASSUME NEW s \in Sides
  PROVE  Peer(s) \in Sides /\ Peer(s) # s /\ Peer(Peer(s)) = s
  BY DEF Peer, Sides, Link!Peer, Link!Sides, Link!Authority, Link!Other

-----------------------------------------------------------------------------
(* Messages *)

LEMMA IdsLemma ==
  ASSUME NEW s \in Sides, NEW c \in Conns, NEW F \in SUBSET Feeds
  PROVE  Ids(s, c, F) \in Messages
  BY PeerLemma DEF Ids, Messages

LEMMA ChannelLemma ==
  ASSUME NEW s \in Sides, NEW c \in Conns, NEW f \in Feeds
  PROVE  Channel(s, c, f) \in Messages
  BY PeerLemma DEF Channel, Messages

LEMMA AnnouncedLemma ==
  ASSUME NEW s \in Sides, NEW c, NEW cur \in [Docs -> SUBSET Feeds], NEW f,
         NEW m, m \in Announced(s, c, cur, f)
  PROVE  /\ m.to = Peer(s) /\ m.conn = c /\ m.type = "CursorMessage"
         /\ c \in Conns => m \in Messages
<1> DEFINE D == DocsWithActor(cur, f)
           C == [d \in D |-> cur[d]]
<1>1. m = [to |-> Peer(s), conn |-> c, type |-> "CursorMessage", cursors |-> C]
  BY DEF Announced
<1>2. D \in SUBSET Docs
  BY DEF DocsWithActor
<1>3. C \in [D -> SUBSET Feeds]
  BY <1>2
<1>4. C \in Cursors
  BY <1>2, <1>3 DEF Cursors
<1> HIDE DEF D, C
<1> QED
  BY <1>1, <1>4, PeerLemma DEF Messages

\* What is delivered from a set of messages of s over its connection.
LEMMA DeliverableLemma ==
  ASSUME TypeOK, NEW s \in Sides, NEW M,
         \A m \in M : m.conn = using[s],
         using[s] \in Conns => M \subseteq Messages
  PROVE  Deliverable(M) \subseteq Messages
  BY DEF Deliverable, TypeOK

LEMMA ActorFeedReadyLemma ==
  ASSUME NEW s \in Sides, NEW cur \in [Docs -> SUBSET Feeds], NEW F,
         NEW m \in ActorFeedReady(s, cur, F)
  PROVE  /\ m.conn = using[s] /\ m.type = "CursorMessage"
         /\ using[s] \in Conns => m \in Messages
<1> DEFINE c == using[s]
<1>1. PICK f : m \in Announced(s, c, cur, f)
  BY DEF ActorFeedReady
<1> HIDE DEF c
<1>2. m.conn = c /\ m.type = "CursorMessage"
  BY <1>1 DEF Announced
<1>3. c \in Conns => m \in Messages
  BY <1>1, AnnouncedLemma
<1> QED
  BY <1>2, <1>3 DEF c

LEMMA OpeningLemma ==
  ASSUME TypeOK, NEW s \in Sides, NEW F
  PROVE  Opening(s, F) \in [Sides -> [Feeds -> {"none", "opening", "ready"}]]
  BY DEF Opening, TypeOK

\* The feeds that a message names.
LEMMA MessageLemma ==
  ASSUME NEW m \in Messages
  PROVE  /\ m.to \in Sides /\ m.conn \in Conns
         /\ m.type \in {"DiscoveryIds", "DiscoveryKey", "CursorMessage"}
         /\ m.type # "CursorMessage" => m.ids \subseteq Feeds
         /\ m.type = "CursorMessage" =>
              /\ DOMAIN m.cursors \subseteq Docs
              /\ \A d \in DOMAIN m.cursors : m.cursors[d] \subseteq Feeds
  BY DEF Messages, Cursors

-----------------------------------------------------------------------------
(* Type correctness *)

LEMMA LinkLemma ==
  ASSUME TypeOK, Link!Next
  PROVE  /\ ends' \in [Sides -> [Conns -> {"none", "idle", "used", "gone"}]]
         /\ using' \in [Sides -> Conns \cup {None}]
<1> DEFINE E == {"none", "idle", "used", "gone"}
<1> USE DEF TypeOK, Sides
<1>0. Link!Authority \in Link!Sides /\ Link!Other \in Link!Sides
  BY DEF Link!Sides
<1>1. ASSUME NEW s \in Link!Sides, NEW c \in Conns, Link!Open(s, c)
      PROVE  ends' \in [Sides -> [Conns -> E]] /\ using' \in [Sides -> Conns \cup {None}]
  <2>1. PICK e \in E : ends' = [ends EXCEPT ![s][c] = e]
    BY <1>1 DEF Link!Open
  <2>2. using' = using
    BY <1>1 DEF Link!Open
  <2> HIDE DEF E
  <2>3. ends \in [Sides -> [Conns -> E]] /\ using \in [Sides -> Conns \cup {None}]
    BY DEF E
  <2> QED
    BY <2>1, <2>2, <2>3
<1>2. ASSUME NEW c \in Conns, Link!Choose(c) \/ Link!Follow(c)
      PROVE  ends' \in [Sides -> [Conns -> E]] /\ using' \in [Sides -> Conns \cup {None}]
  <2>1. PICK s \in Link!Sides : /\ ends' = [ends EXCEPT ![s][c] = "used"]
                               /\ using' = [using EXCEPT ![s] = c]
    BY <1>0, <1>2 DEF Link!Choose, Link!Follow
  <2> QED
    BY <2>1
<1>3. ASSUME NEW s \in Link!Sides, NEW D \in SUBSET Conns, Link!Down(s, D)
      PROVE  ends' \in [Sides -> [Conns -> E]] /\ using' \in [Sides -> Conns \cup {None}]
  <2>1. PICK lost :
          \/ ends' = Link!Dead(s, D, lost) /\ UNCHANGED using
          \/ /\ ends' = Link!Dead(s, D, lost)
             /\ using' = [using EXCEPT ![s] = None]
          \/ \E c \in Conns \ D :
               /\ ends' = [Link!Dead(s, D, lost) EXCEPT ![s][c] = "used"]
               /\ using' = [using EXCEPT ![s] = c]
    BY <1>3 DEF Link!Down
  <2>2. Link!Dead(s, D, lost) \in [Sides -> [Conns -> E]]
    BY DEF Link!Dead
  <2> DEFINE X == Link!Dead(s, D, lost)
  <2> HIDE DEF X
  <2>3. X \in [Sides -> [Conns -> E]]
    BY <2>2 DEF X
  <2>4. using' = using \/ \E c \in Conns \cup {None} : using' = [using EXCEPT ![s] = c]
    BY <2>1
  <2>5. using' \in [Sides -> Conns \cup {None}]
    BY <2>4
  <2>6. ends' = X \/ \E c \in Conns : ends' = [X EXCEPT ![s] = [X[s] EXCEPT ![c] = "used"]]
    BY <2>1 DEF X
  <2>7. ends' \in [Sides -> [Conns -> E]]
    <3>1. "used" \in E
      OBVIOUS
    <3> HIDE DEF E
    <3>2. \A c \in Conns : [X[s] EXCEPT ![c] = "used"] \in [Conns -> E]
      BY <2>3, <3>1
    <3> QED
      BY ZenonT(40), <2>3, <2>6, <3>2
  <2> QED
    BY <2>5, <2>7
<1> QED
  BY <1>1, <1>2, <1>3 DEF Link!Next

LEMMA TypeInit == Init => TypeOK
  BY FeedsAssumption DEF Init, TypeOK, Link!Init, Sides

LEMMA ReplicateWithType ==
  ASSUME TypeOK, NEW s \in Sides, NEW ids \in SUBSET Feeds, NEW M \in SUBSET Messages,
         ReplicateWith(s, ids, M)
  PROVE  /\ loaded' \in [Sides -> [Feeds -> {"none", "opening", "ready"}]]
         /\ replicating' \in [Sides -> SUBSET Feeds]
         /\ joining' \in [Sides -> SUBSET (Conns \X Feeds)]
         /\ replicated' \in [Sides -> SUBSET (Conns \X Feeds)]
         /\ msgs' \subseteq Messages
<1> DEFINE has == ids \cap feedInfo[s]
           now == {f \in has : loaded[s][f] = "ready"}
           c   == using[s]
           A   == (UNION {Announced(s, c, cursors[s], f) : f \in has})
                    \cup {Channel(s, c, f) : f \in now}
<1>1. c \in Conns
  BY DEF ReplicateWith, TypeOK
<1>2. cursors[s] \in [Docs -> SUBSET Feeds]
  BY DEF TypeOK
<1>3. A \subseteq Messages
  <2> DEFINE cur == cursors[s]
  <2> HIDE DEF c, cur
  <2>1. ASSUME NEW f \in has, NEW m \in Announced(s, c, cur, f)
        PROVE  m \in Messages
    BY <1>1, <1>2, <2>1, AnnouncedLemma DEF cur
  <2>2. ASSUME NEW f \in now
        PROVE  Channel(s, c, f) \in Messages
    BY <1>1, <2>2, ChannelLemma
  <2> HIDE DEF has, now
  <2> QED
    BY <2>1, <2>2 DEF cur
<1>4. msgs' = M \cup Deliverable(A)
  BY DEF ReplicateWith
<1>5. msgs' \subseteq Messages
  BY <1>3, <1>4 DEF Deliverable
<1>6. loaded' \in [Sides -> [Feeds -> {"none", "opening", "ready"}]]
  BY OpeningLemma DEF ReplicateWith
<1>7. replicating' \in [Sides -> SUBSET Feeds]
  BY DEF ReplicateWith, TypeOK
<1>8. joining' \in [Sides -> SUBSET (Conns \X Feeds)]
  <2>1. joining' = [joining EXCEPT ![s] = @ \cup ({c} \X (has \ now))]
    BY DEF ReplicateWith
  <2>2. {c} \X (has \ now) \subseteq Conns \X Feeds
    BY <1>1
  <2> QED
    BY <2>1, <2>2 DEF TypeOK
<1>9. replicated' \in [Sides -> SUBSET (Conns \X Feeds)]
  <2>1. replicated' = [replicated EXCEPT ![s] = @ \cup ({c} \X now)]
    BY DEF ReplicateWith
  <2>2. {c} \X now \subseteq Conns \X Feeds
    BY <1>1
  <2> QED
    BY <2>1, <2>2 DEF TypeOK
<1> QED
  BY <1>5, <1>6, <1>7, <1>8, <1>9

LEMMA OpenActorsType ==
  ASSUME TypeOK, NEW s \in Sides, NEW F \in SUBSET Feeds,
         NEW cur \in [Docs -> SUBSET Feeds], NEW M \in SUBSET Messages,
         OpenActors(s, F, cur, M)
  PROVE  TypeOK'
<1> DEFINE A == ActorFeedReady(s, cur, {f \in F \ actors[s] : loaded[s][f] = "ready"})
<1>1. msgs' = M \cup Deliverable(A)
  BY DEF OpenActors
<1>2. Deliverable(A) \subseteq Messages
  BY ActorFeedReadyLemma, DeliverableLemma
<1>3. msgs' \subseteq Messages
  BY <1>1, <1>2
<1>4. loaded' \in [Sides -> [Feeds -> {"none", "opening", "ready"}]]
  BY OpeningLemma DEF OpenActors
<1> QED
  BY <1>3, <1>4 DEF OpenActors, TypeOK, linkVars

LEMMA TypeConnections ==
  ASSUME TypeOK, Connections
  PROVE  TypeOK'
<1>1. /\ ends' \in [Sides -> [Conns -> {"none", "idle", "used", "gone"}]]
      /\ using' \in [Sides -> Conns \cup {None}]
  BY LinkLemma DEF Connections
<1>2. msgs' \subseteq Messages
  <2>1. ASSUME NEW s \in Sides, s \in Confirming
        PROVE  Ids(s, using'[s], feedInfo[s]) \in Messages
    BY <1>1, <2>1, IdsLemma DEF Confirming, TypeOK
  <2>2. Welcome(Confirming) \subseteq Messages
    BY <2>1 DEF Welcome, Confirming
  <2> QED
    BY <2>2 DEF Connections, Surviving, TypeOK
<1>3. joined' \in [Sides -> SUBSET Conns]
  BY <1>1 DEF Connections, TypeOK
<1>4. /\ joining' \in [Sides -> SUBSET (Conns \X Feeds)]
      /\ replicated' \in [Sides -> SUBSET (Conns \X Feeds)]
  BY DEF Connections, TypeOK
<1>5. replicating' \in [Sides -> SUBSET Feeds]
  BY DEF Connections, Reset, TypeOK
<1> QED
  BY <1>1, <1>2, <1>3, <1>4, <1>5 DEF Connections, TypeOK, feedVars

LEMMA TypeMessages ==
  ASSUME TypeOK, NEW m \in msgs,
         OnDiscoveryIds(m) \/ OnDiscoveryKey(m) \/ OnCursorMessage(m)
  PROVE  TypeOK'
<1>1. m \in Messages /\ msgs \ {m} \in SUBSET Messages
  BY DEF TypeOK
<1>2. m.to \in Sides
  BY <1>1, MessageLemma
<1>3. CASE OnDiscoveryIds(m)
  <2>1. Shared(m.to, m.ids) \in SUBSET Feeds
    BY <1>2 DEF Shared, TypeOK
  <2>2. CASE ReplicateWith(m.to, Shared(m.to, m.ids), msgs \ {m})
    BY <1>1, <1>2, <1>3, <2>1, <2>2, ReplicateWithType DEF OnDiscoveryIds, TypeOK, linkVars
  <2>3. CASE Throws(m.to, msgs \ {m})
    BY <1>1, <1>3, <2>3 DEF OnDiscoveryIds, Throws, TypeOK, linkVars
  <2> QED
    BY <1>3, <2>2, <2>3 DEF OnDiscoveryIds
<1>4. CASE OnDiscoveryKey(m)
  <2>1. m.ids \in SUBSET Feeds
    BY <1>1, <1>4, MessageLemma DEF OnDiscoveryKey
  <2>2. CASE ReplicateWith(m.to, m.ids, msgs \ {m})
    BY <1>1, <1>2, <1>4, <2>1, <2>2, ReplicateWithType DEF OnDiscoveryKey, TypeOK, linkVars
  <2>3. CASE msgs' = msgs \ {m} /\ UNCHANGED <<loaded, replicating, joining, replicated>>
    BY <1>1, <1>4, <2>3 DEF OnDiscoveryKey, TypeOK, linkVars
  <2> QED
    BY <1>4, <2>2, <2>3 DEF OnDiscoveryKey, Throws
<1>5. CASE OnCursorMessage(m)
  <2> DEFINE F   == UNION {m.cursors[d] : d \in DOMAIN m.cursors}
             cur == [d \in Docs |-> cursors[m.to][d] \cup
                       (IF d \in DOMAIN m.cursors THEN m.cursors[d] ELSE {})]
  <2>1. OpenActors(m.to, F, cur, msgs \ {m}) /\ m.type = "CursorMessage"
    BY <1>5 DEF OnCursorMessage
  <2>2. \A d \in DOMAIN m.cursors : m.cursors[d] \subseteq Feeds
    BY <1>1, <2>1, MessageLemma
  <2>3. F \in SUBSET Feeds
    BY <2>2
  <2>4. cur \in [Docs -> SUBSET Feeds]
    BY <1>2, <2>2 DEF TypeOK
  <2> HIDE DEF F, cur
  <2> QED
    BY <1>1, <1>2, <2>1, <2>3, <2>4, OpenActorsType
<1> QED
  BY <1>3, <1>4, <1>5

LEMMA TypeFeedReady ==
  ASSUME TypeOK, NEW s \in Sides, NEW f \in Feeds, FeedReady(s, f)
  PROVE  TypeOK'
<1> DEFINE waiting == {p \in joining[s] : p[2] = f}
           A == Saved(s, f)
           B == {Channel(s, p[1], f) : p \in waiting}
           C == ActorFeedReady(s, cursors[s], {f} \cap actors[s])
<1>1. msgs' = msgs \cup Deliverable(A \cup B \cup C)
  BY DEF FeedReady
<1>2. waiting \subseteq Conns \X Feeds
  BY DEF TypeOK
<1>3. Deliverable(A) \subseteq Messages
  <2>1. \A m \in A : m.conn = using[s]
    BY DEF Saved, Created, Ids
  <2>2. using[s] \in Conns => A \subseteq Messages
    BY IdsLemma DEF Saved, Created
  <2> HIDE DEF A
  <2> QED
    BY <2>1, <2>2, DeliverableLemma
<1>4. B \subseteq Messages
  BY <1>2, ChannelLemma
<1>5. Deliverable(C) \subseteq Messages
  <2>1. cursors[s] \in [Docs -> SUBSET Feeds]
    BY DEF TypeOK
  <2>2. (\A m \in C : m.conn = using[s]) /\ (using[s] \in Conns => C \subseteq Messages)
    BY <2>1, ActorFeedReadyLemma
  <2> HIDE DEF C
  <2> QED
    BY <2>2, DeliverableLemma
<1> HIDE DEF A, B, C
<1>6. msgs' \subseteq Messages
  BY <1>1, <1>3, <1>4, <1>5 DEF Deliverable, TypeOK
<1>7. joining' \in [Sides -> SUBSET (Conns \X Feeds)] /\ replicated' \in [Sides -> SUBSET (Conns \X Feeds)]
  BY <1>2 DEF FeedReady, TypeOK
<1> QED
  BY <1>6, <1>7 DEF FeedReady, TypeOK, linkVars

LEMMA TypeUser ==
  ASSUME TypeOK, NEW s \in Sides, NEW d \in Docs,
         Create(s, d) \/ Open(s, d) \/ \E f \in Feeds : InitActorFeed(s, d, f)
  PROVE  TypeOK'
<1>1. ASSUME NEW F \in SUBSET Feeds
      PROVE  Widened(s, d, F) \in [Docs -> SUBSET Feeds]
  BY DEF Widened, TypeOK
<1>2. msgs \in SUBSET Messages
  BY DEF TypeOK
<1>3. CASE Open(s, d)
  <2>1. {d} \in SUBSET Feeds /\ cursors[s][d] \cup {d} \in SUBSET Feeds
    BY FeedsAssumption DEF TypeOK
  <2> QED
    BY <1>1, <1>2, <1>3, <2>1, OpenActorsType DEF Open
<1>4. ASSUME NEW f \in Feeds, InitActorFeed(s, d, f)
      PROVE  TypeOK'
  <2>1. {f} \in SUBSET Feeds
    OBVIOUS
  <2> QED
    BY <1>1, <1>2, <1>4, <2>1, OpenActorsType DEF InitActorFeed
<1>5. CASE Create(s, d)
  <2>1. {d} \in SUBSET Feeds
    BY FeedsAssumption
  <2> QED
    BY <1>1, <1>2, <1>5, <2>1, OpenActorsType DEF Create
<1> QED
  BY <1>3, <1>4, <1>5

LEMMA TypeNext ==
  ASSUME TypeOK, [Next]_vars
  PROVE  TypeOK'
<1>1. CASE UNCHANGED vars
  BY <1>1 DEF vars, linkVars, feedVars, repVars, TypeOK
<1>2. CASE Next
  BY <1>2, TypeConnections, TypeMessages, TypeFeedReady, TypeUser DEF Next
<1> QED
  BY <1>1, <1>2

\* Every variable stays in its type, and every message names a connection.
THEOREM TypeCorrect == Spec => []TypeOK
<1>1. Init => TypeOK
  BY TypeInit
<1>2. TypeOK /\ [Next]_vars => TypeOK'
  BY TypeNext
<1> QED
  BY <1>1, <1>2, PTL DEF Spec

-----------------------------------------------------------------------------
(* Nobody replicates a feed that only one of the two has *)

\* A message names feeds that its sender has opened, and a channel is of a
\* feed that both have.
FeedsAreKnown(m) ==
  /\ m.type # "CursorMessage" => m.ids \subseteq feedInfo[Peer(m.to)]
  /\ m.type = "DiscoveryKey" => m.ids \subseteq feedInfo[m.to]

CommonInv == (\A m \in msgs : FeedsAreKnown(m)) /\ OnlyCommonFeeds

\* A feed that a step of ReplicateWith shares is one that both have, if the
\* peer has the feeds that it named.
LEMMA ReplicateWithCommon ==
  ASSUME TypeOK, CommonInv, NEW s \in Sides, NEW ids \in SUBSET Feeds, NEW M,
         ids \subseteq feedInfo[Peer(s)], M \subseteq msgs,
         ReplicateWith(s, ids, M), UNCHANGED feedInfo
  PROVE  CommonInv'
<1> DEFINE has == ids \cap feedInfo[s]
           now == {f \in has : loaded[s][f] = "ready"}
           c   == using[s]
           new == (UNION {Announced(s, c, cursors[s], f) : f \in has})
                    \cup {Channel(s, c, f) : f \in now}
<1>1. ASSUME NEW m \in new
      PROVE  FeedsAreKnown(m)
  <2>1. CASE m \in UNION {Announced(s, c, cursors[s], f) : f \in has}
    BY <2>1 DEF Announced, FeedsAreKnown
  <2>2. ASSUME NEW f \in now, m = Channel(s, c, f)
        PROVE  FeedsAreKnown(m)
    BY <2>2, PeerLemma DEF Channel, FeedsAreKnown
  <2> QED
    BY <2>1, <2>2
<1>2. msgs' \subseteq msgs \cup new
  BY DEF ReplicateWith, Deliverable
<1>3. \A m \in msgs' : FeedsAreKnown(m)
  BY <1>1, <1>2 DEF CommonInv
<1>4. ASSUME NEW t \in Sides, NEW p \in joining'[t] \cup replicated'[t]
      PROVE  p[2] \in feedInfo[t] \cap feedInfo[Peer(t)]
  <2>1. \/ p \in joining[t] \cup replicated[t]
        \/ t = s /\ p \in {c} \X has
    BY <1>4 DEF ReplicateWith, TypeOK
  <2> QED
    BY <2>1 DEF CommonInv, OnlyCommonFeeds
<1> QED
  BY <1>3, <1>4 DEF CommonInv, OnlyCommonFeeds, FeedsAreKnown

\* A step that sends no feed ids.
LEMMA OpenActorsCommon ==
  ASSUME TypeOK, CommonInv, NEW s \in Sides, NEW F, NEW cur, NEW M, M \subseteq msgs,
         OpenActors(s, F, cur, M)
  PROVE  CommonInv'
<1>1. ASSUME NEW m \in msgs'
      PROVE  FeedsAreKnown(m)
  <2>1. CASE m \in msgs
    BY <2>1 DEF CommonInv
  <2>2. CASE m \notin msgs
    <3>1. m.type = "CursorMessage"
      BY <2>2 DEF OpenActors, Deliverable, ActorFeedReady, Announced
    <3> QED
      BY <3>1 DEF FeedsAreKnown
  <2> QED
    BY <2>1, <2>2
<1> QED
  BY <1>1 DEF OpenActors, CommonInv, OnlyCommonFeeds, FeedsAreKnown

LEMMA ConnectionsCommon ==
  ASSUME TypeOK, CommonInv, Connections
  PROVE  CommonInv'
<1>1. UNCHANGED feedInfo
  BY DEF Connections, feedVars
<1>2. ASSUME NEW m \in msgs'
      PROVE  FeedsAreKnown(m)
  <2>1. m \in msgs \/ m \in Welcome(Confirming)
    BY <1>2 DEF Connections, Surviving
  <2>2. CASE m \in msgs
    BY <2>2 DEF CommonInv
  <2>3. CASE m \in Welcome(Confirming)
    <3>1. PICK s \in Sides : m = Ids(s, using'[s], feedInfo[s])
      BY <2>3 DEF Welcome, Confirming
    <3>2. m.type = "DiscoveryIds" /\ m.ids = feedInfo[s] /\ Peer(m.to) = s
      BY <3>1, PeerLemma DEF Ids
    <3> QED
      BY <3>2 DEF FeedsAreKnown
  <2> QED
    BY <2>1, <2>2, <2>3
<1>3. \A s \in Sides : joining'[s] \subseteq joining[s] /\ replicated'[s] \subseteq replicated[s]
  BY DEF Connections
<1> QED
  BY <1>1, <1>2, <1>3 DEF CommonInv, OnlyCommonFeeds, FeedsAreKnown

LEMMA FeedReadyCommon ==
  ASSUME TypeOK, CommonInv, NEW s \in Sides, NEW f \in Feeds, FeedReady(s, f)
  PROVE  CommonInv'
<1> DEFINE waiting == {p \in joining[s] : p[2] = f}
           new == Saved(s, f) \cup {Channel(s, p[1], f) : p \in waiting}
                    \cup ActorFeedReady(s, cursors[s], {f} \cap actors[s])
<1>1. \A t \in Sides : feedInfo[t] \subseteq feedInfo'[t]
  BY DEF FeedReady, TypeOK
<1>2. f \in feedInfo'[s]
  BY DEF FeedReady, TypeOK
<1>3. ASSUME NEW m \in new
      PROVE  FeedsAreKnown(m)'
  <2>1. CASE m \in Saved(s, f)
    <3>1. m.type = "DiscoveryIds" /\ m.ids = {f} /\ Peer(m.to) = s
      BY <2>1, PeerLemma DEF Saved, Created, Ids
    <3> QED
      BY <1>2, <3>1 DEF FeedsAreKnown
  <2>2. ASSUME NEW p \in waiting, m = Channel(s, p[1], f)
        PROVE  FeedsAreKnown(m)'
    <3>1. m.ids = {f} /\ m.to = Peer(s) /\ Peer(m.to) = s /\ m.to \in Sides
      BY <2>2, PeerLemma DEF Channel
    <3>2. f \in feedInfo[s] \cap feedInfo[Peer(s)]
      BY <2>2 DEF CommonInv, OnlyCommonFeeds
    <3> QED
      BY <1>1, <3>1, <3>2 DEF FeedsAreKnown
  <2>3. CASE m \in ActorFeedReady(s, cursors[s], {f} \cap actors[s])
    BY <2>3 DEF ActorFeedReady, Announced, FeedsAreKnown
  <2> QED
    BY <2>1, <2>2, <2>3
<1>4. ASSUME NEW m \in msgs
      PROVE  FeedsAreKnown(m)'
  <2>1. FeedsAreKnown(m) /\ m.to \in Sides /\ Peer(m.to) \in Sides
    BY MessageLemma, PeerLemma DEF CommonInv, TypeOK
  <2> QED
    BY <1>1, <2>1 DEF FeedsAreKnown
<1>5. msgs' \subseteq msgs \cup new
  BY DEF FeedReady, Deliverable
<1>6. \A t \in Sides : joining'[t] \cup replicated'[t] \subseteq joining[t] \cup replicated[t]
  BY DEF FeedReady, TypeOK
<1> HIDE DEF new
<1>7. (\A m \in msgs : FeedsAreKnown(m))'
  BY <1>3, <1>4, <1>5
<1>8. OnlyCommonFeeds'
  <2>1. ASSUME NEW t \in Sides, NEW p \in joining'[t] \cup replicated'[t]
        PROVE  p[2] \in feedInfo'[t] \cap feedInfo'[Peer(t)]
    <3>1. p[2] \in feedInfo[t] \cap feedInfo[Peer(t)]
      BY <1>6, <2>1 DEF CommonInv, OnlyCommonFeeds
    <3> QED
      BY <1>1, <3>1, PeerLemma
  <2> QED
    BY <2>1 DEF OnlyCommonFeeds
<1> QED
  BY <1>7, <1>8 DEF CommonInv

LEMMA MessagesCommon ==
  ASSUME TypeOK, CommonInv, NEW m \in msgs,
         OnDiscoveryIds(m) \/ OnDiscoveryKey(m) \/ OnCursorMessage(m)
  PROVE  CommonInv'
<1>1. FeedsAreKnown(m) /\ m \in Messages /\ m.to \in Sides
  BY MessageLemma DEF CommonInv, TypeOK
<1>2. CASE OnDiscoveryIds(m)
  <2>1. Shared(m.to, m.ids) \subseteq feedInfo[Peer(m.to)] /\ Shared(m.to, m.ids) \in SUBSET Feeds
    BY <1>1, <1>2 DEF Shared, FeedsAreKnown, OnDiscoveryIds, TypeOK
  <2>2. CASE ReplicateWith(m.to, Shared(m.to, m.ids), msgs \ {m})
    BY <1>1, <1>2, <2>1, <2>2, ReplicateWithCommon DEF OnDiscoveryIds
  <2>3. CASE Throws(m.to, msgs \ {m})
    BY <1>2, <2>3 DEF OnDiscoveryIds, Throws, CommonInv, OnlyCommonFeeds, FeedsAreKnown
  <2> QED
    BY <1>2, <2>2, <2>3 DEF OnDiscoveryIds
<1>3. CASE OnDiscoveryKey(m)
  <2>1. m.ids \subseteq feedInfo[Peer(m.to)] /\ m.ids \in SUBSET Feeds
    BY <1>1, <1>3, MessageLemma DEF FeedsAreKnown, OnDiscoveryKey
  <2>2. CASE ReplicateWith(m.to, m.ids, msgs \ {m})
    BY <1>1, <1>3, <2>1, <2>2, ReplicateWithCommon DEF OnDiscoveryKey
  <2>3. CASE msgs' = msgs \ {m} /\ UNCHANGED <<loaded, replicating, joining, replicated>>
    BY <1>3, <2>3 DEF OnDiscoveryKey, CommonInv, OnlyCommonFeeds, FeedsAreKnown
  <2> QED
    BY <1>3, <2>2, <2>3 DEF OnDiscoveryKey, Throws
<1>4. CASE OnCursorMessage(m)
  BY <1>1, <1>4, OpenActorsCommon DEF OnCursorMessage
<1> QED
  BY <1>2, <1>3, <1>4

LEMMA CommonNext ==
  ASSUME TypeOK, CommonInv, [Next]_vars
  PROVE  CommonInv'
<1>1. CASE UNCHANGED vars
  BY <1>1 DEF vars, feedVars, repVars, CommonInv, OnlyCommonFeeds, FeedsAreKnown
<1>2. ASSUME NEW s \in Sides, NEW d \in Docs, Open(s, d)
      PROVE  CommonInv'
  BY <1>2, OpenActorsCommon DEF Open
<1>3. ASSUME NEW s \in Sides, NEW d \in Docs, NEW f \in Feeds, InitActorFeed(s, d, f)
      PROVE  CommonInv'
  BY <1>3, OpenActorsCommon DEF InitActorFeed
<1>4. ASSUME NEW s \in Sides, NEW d \in Docs, Create(s, d)
      PROVE  CommonInv'
  BY <1>4, OpenActorsCommon DEF Create
<1> QED
  BY <1>1, <1>2, <1>3, <1>4, ConnectionsCommon, MessagesCommon, FeedReadyCommon DEF Next

LEMMA CommonInit == Init => CommonInv
  BY DEF Init, CommonInv, OnlyCommonFeeds

\* No repository replicates, or waits to replicate, a feed that the peer has
\* never opened (ReplicationManager.replicateWith).
THEOREM OnlyCommonFeedsHolds == Spec => []OnlyCommonFeeds
<1>1. Init => TypeOK /\ CommonInv
  BY TypeInit, CommonInit
<1>2. TypeOK /\ CommonInv /\ [Next]_vars => (TypeOK /\ CommonInv)'
  BY TypeNext, CommonNext
<1>3. CommonInv => OnlyCommonFeeds
  BY DEF CommonInv
<1> QED
  BY <1>1, <1>2, <1>3, PTL DEF Spec

-----------------------------------------------------------------------------
(* What is marked as shared is replicated *)

\* The connection in use was taken into use.
UsedInv == \A s \in Sides : using[s] # None => ends[s][using[s]] \in {"used", "gone"}

\* What a step of the connections does to an end that is in use or gone.
LEMMA UsedStep ==
  ASSUME TypeOK, Link!Next, NEW s \in Sides, NEW c \in Conns,
         ends[s][c] \in {"used", "gone"}
  PROVE  /\ ends'[s][c] \in {"used", "gone"}
         /\ ends[s][c] = "gone" => ends'[s][c] = "gone"
<1> USE DEF TypeOK, Sides
<1>0. Link!Authority \in Link!Sides /\ Link!Other \in Link!Sides
  BY DEF Link!Sides
<1>1. ASSUME NEW t \in Link!Sides, NEW x \in Conns, Link!Open(t, x)
      PROVE  ends'[s][c] = ends[s][c]
  <2>1. PICK e : ends' = [ends EXCEPT ![t][x] = e] /\ ends[t][x] = "none"
    BY <1>1 DEF Link!Open
  <2>2. t # s \/ x # c
    BY <2>1
  <2> QED
    BY <2>1, <2>2
<1>2. ASSUME NEW x \in Conns, Link!Choose(x) \/ Link!Follow(x)
      PROVE  ends'[s][c] = ends[s][c]
  BY <1>0, <1>2 DEF Link!Choose, Link!Follow
<1>3. ASSUME NEW t \in Link!Sides, NEW D \in SUBSET Conns, Link!Down(t, D)
      PROVE  /\ ends'[s][c] \in {"used", "gone"}
             /\ ends[s][c] = "gone" => ends'[s][c] = "gone"
  <2>1. PICK lost \in SUBSET {x \in D : ends[Link!Peer(t)][x] = "idle"} :
          \/ ends' = Link!Dead(t, D, lost)
          \/ \E x \in Conns \ D : /\ ends[t][x] = "idle"
                                  /\ ends' = [Link!Dead(t, D, lost) EXCEPT ![t][x] = "used"]
    BY <1>3 DEF Link!Down
  <2>2. Link!Peer(t) \in Link!Sides /\ Link!Peer(t) # t
    BY DEF Link!Peer, Link!Sides, Link!Authority, Link!Other
  <2> DEFINE X == Link!Dead(t, D, lost)
  <2>3. /\ DOMAIN X = Link!Sides /\ DOMAIN X[t] = Conns
        /\ X[s][c] = IF s = t /\ c \in D THEN "gone" ELSE ends[s][c]
    BY <2>2 DEF Link!Dead
  <2> HIDE DEF X
  <2>4. CASE ends' = X
    BY <2>3, <2>4
  <2>5. ASSUME NEW x \in Conns \ D, ends[t][x] = "idle", ends' = [X EXCEPT ![t][x] = "used"]
        PROVE  ends'[s][c] = X[s][c]
    <3>1. s # t \/ c # x
      BY <2>5
    <3> QED
      BY <2>3, <2>5, <3>1
  <2> QED
    BY <2>1, <2>3, <2>4, <2>5 DEF X
<1> QED
  BY <1>1, <1>2, <1>3 DEF Link!Next

\* A side keeps what it uses, drops it, or takes a connection into use.
LEMMA UsingStep ==
  ASSUME TypeOK, Link!Next, NEW s \in Sides
  PROVE  \/ using'[s] \in {using[s], None}
         \/ using'[s] \in Conns /\ ends'[s][using'[s]] = "used"
<1> USE DEF TypeOK, Sides
<1>0. Link!Authority \in Link!Sides /\ Link!Other \in Link!Sides
  BY DEF Link!Sides
<1>1. ASSUME NEW t \in Link!Sides, NEW x \in Conns, Link!Open(t, x)
      PROVE  using'[s] = using[s]
  BY <1>1 DEF Link!Open
<1>2. ASSUME NEW x \in Conns, Link!Choose(x) \/ Link!Follow(x)
      PROVE  using'[s] = using[s] \/ (using'[s] = x /\ ends'[s][x] = "used")
  <2>1. PICK t \in Link!Sides : /\ ends' = [ends EXCEPT ![t][x] = "used"]
                                /\ using' = [using EXCEPT ![t] = x]
    BY <1>0, <1>2 DEF Link!Choose, Link!Follow
  <2>2. CASE t = s
    BY <2>1, <2>2
  <2>3. CASE t # s
    BY <2>1, <2>3
  <2> QED
    BY <2>2, <2>3
<1>3. ASSUME NEW t \in Link!Sides, NEW D \in SUBSET Conns, Link!Down(t, D)
      PROVE  \/ using'[s] \in {using[s], None}
             \/ using'[s] \in Conns /\ ends'[s][using'[s]] = "used"
  <2>1. PICK lost :
          \/ using' = using \/ using' = [using EXCEPT ![t] = None]
          \/ \E x \in Conns \ D : /\ ends' = [Link!Dead(t, D, lost) EXCEPT ![t][x] = "used"]
                                  /\ using' = [using EXCEPT ![t] = x]
    BY <1>3 DEF Link!Down
  <2> DEFINE X == Link!Dead(t, D, lost)
  <2>2. DOMAIN X = Link!Sides /\ DOMAIN X[t] = Conns
    BY DEF Link!Dead
  <2>3. CASE using' = using \/ using' = [using EXCEPT ![t] = None]
    BY <2>3
  <2> HIDE DEF X
  <2>4. ASSUME NEW x \in Conns \ D, ends' = [X EXCEPT ![t][x] = "used"],
               using' = [using EXCEPT ![t] = x]
        PROVE  using'[s] = using[s] \/ (using'[s] = x /\ ends'[s][x] = "used")
    <3>1. CASE t = s
      BY <2>2, <2>4, <3>1
    <3>2. CASE t # s
      BY <2>4, <3>2
    <3> QED
      BY <3>1, <3>2
  <2> QED
    BY <2>1, <2>3, <2>4 DEF X
<1> QED
  BY <1>1, <1>2, <1>3 DEF Link!Next

LEMMA UsedNext ==
  ASSUME TypeOK, UsedInv, [Next]_vars
  PROVE  UsedInv'
<1>1. CASE Link!Next
  <2>1. ASSUME NEW s \in Sides, using'[s] # None
        PROVE  ends'[s][using'[s]] \in {"used", "gone"}
    <3>1. CASE using'[s] = using[s]
      <4>1. using[s] \in Conns /\ ends[s][using[s]] \in {"used", "gone"}
        BY <2>1, <3>1 DEF UsedInv, TypeOK
      <4> QED
        BY <1>1, <3>1, <4>1, UsedStep
    <3> QED
      BY <1>1, <2>1, <3>1, UsingStep
  <2> QED
    BY <2>1 DEF UsedInv
<1>2. CASE UNCHANGED linkVars
  BY <1>2 DEF UsedInv, linkVars
<1>3. Link!Next \/ UNCHANGED linkVars
  BY DEF Next, vars, Connections, OnDiscoveryIds, OnDiscoveryKey, OnCursorMessage, FeedReady,
         Create, Open, InitActorFeed, OpenActors
<1> QED
  BY <1>1, <1>2, <1>3

-----------------------------------------------------------------------------
LEMMA ReplicateWithShared ==
  ASSUME TypeOK, SharedIsReplicated, NEW s \in Sides, NEW ids, NEW M,
         ids \subseteq feedInfo[s], ReplicateWith(s, ids, M), UNCHANGED linkVars
  PROVE  SharedIsReplicated'
<1> DEFINE has == ids \cap feedInfo[s]
           now == {f \in has : loaded[s][f] = "ready"}
           c   == using[s]
<1>1. \A t \in Sides : joining[t] \cup replicated[t] \subseteq joining'[t] \cup replicated'[t]
  BY DEF ReplicateWith, TypeOK
<1>2. {c} \X ids \subseteq joining'[s] \cup replicated'[s]
  <2>1. /\ joining'[s] = joining[s] \cup ({c} \X (has \ now))
        /\ replicated'[s] = replicated[s] \cup ({c} \X now)
    BY DEF ReplicateWith, TypeOK
  <2>2. {c} \X ids \subseteq ({c} \X (has \ now)) \cup ({c} \X now)
    OBVIOUS
  <2> QED
    BY <2>1, <2>2
<1>3. \A t \in Sides : replicating'[t] = IF t = s THEN replicating[s] \cup ids ELSE replicating[t]
  BY DEF ReplicateWith, TypeOK
<1>4. UNCHANGED using /\ \A t \in Sides : Link!IsBusy(t)' = Link!IsBusy(t)
  BY DEF linkVars, Link!IsBusy, Link!IsLive
<1>5. ASSUME NEW t \in Sides, Link!IsBusy(t), NEW f \in replicating'[t]
      PROVE  <<using[t], f>> \in joining'[t] \cup replicated'[t]
  <2>1. CASE f \in replicating[t]
    BY <1>1, <1>5, <2>1 DEF SharedIsReplicated
  <2>2. CASE t = s /\ f \in ids
    BY <1>2, <2>2
  <2> QED
    BY <1>3, <1>5, <2>1, <2>2
<1> QED
  BY <1>4, <1>5 DEF SharedIsReplicated

LEMMA ConnectionsShared ==
  ASSUME TypeOK, UsedInv, SharedIsReplicated, Connections
  PROVE  SharedIsReplicated'
<1>1. ASSUME NEW s \in Sides, Link!IsBusy(s)', NEW f \in replicating'[s]
      PROVE  <<using'[s], f>> \in joining'[s] \cup replicated'[s]
  <2> DEFINE c == using'[s]
  <2>1. c # None /\ ends'[s][c] # "gone"
    BY <1>1 DEF Link!IsBusy, Link!IsLive
  <2>2. s \notin Confirming /\ f \in replicating[s]
    BY <1>1 DEF Connections, Reset
  <2>3. c = using[s]
    BY <2>1, <2>2 DEF Confirming
  <2>4. c \in Conns /\ ends[s][c] \in {"used", "gone"}
    BY <2>1, <2>3 DEF UsedInv, TypeOK
  <2>5. ends[s][c] = "used"
    BY <2>1, <2>4, UsedStep DEF Connections
  <2>6. <<c, f>> \in joining[s] \cup replicated[s]
    BY <2>1, <2>2, <2>3, <2>5 DEF SharedIsReplicated, Link!IsBusy, Link!IsLive
  <2> HIDE DEF c
  <2>7. \A p \in joining[s] \cup replicated[s] :
          ends'[s][p[1]] # "gone" => p \in joining'[s] \cup replicated'[s]
    BY DEF Connections, IsGone
  <2> QED
    BY <2>1, <2>6, <2>7 DEF c
<1> QED
  BY <1>1 DEF SharedIsReplicated

LEMMA SharedNext ==
  ASSUME TypeOK, CommonInv, UsedInv, SharedIsReplicated, [Next]_vars
  PROVE  SharedIsReplicated'
<1> DEFINE Still == /\ UNCHANGED <<linkVars, replicating>>
                    /\ \A s \in Sides : joining[s] \cup replicated[s] \subseteq
                                          joining'[s] \cup replicated'[s]
<1>1. CASE Still
  BY <1>1 DEF linkVars, SharedIsReplicated, Link!IsBusy, Link!IsLive
<1>2. ASSUME NEW m \in msgs, OnDiscoveryIds(m) \/ OnDiscoveryKey(m) \/ OnCursorMessage(m)
      PROVE  SharedIsReplicated'
  <2>1. FeedsAreKnown(m) /\ m.to \in Sides
    BY MessageLemma DEF CommonInv, TypeOK
  <2>2. CASE OnDiscoveryIds(m)
    BY <1>1, <2>1, <2>2, ReplicateWithShared DEF OnDiscoveryIds, Shared, Throws
  <2>3. CASE OnDiscoveryKey(m) /\ ReplicateWith(m.to, m.ids, msgs \ {m})
    BY <2>1, <2>3, ReplicateWithShared DEF OnDiscoveryKey, FeedsAreKnown
  <2>4. CASE OnDiscoveryKey(m) /\ ~ReplicateWith(m.to, m.ids, msgs \ {m})
    BY <1>1, <2>4 DEF OnDiscoveryKey, Throws
  <2>5. CASE OnCursorMessage(m)
    BY <1>1, <2>5 DEF OnCursorMessage, OpenActors
  <2> QED
    BY <1>2, <2>2, <2>3, <2>4, <2>5
<1>3. ASSUME NEW s \in Sides, NEW f \in Feeds, FeedReady(s, f)
      PROVE  Still
  BY <1>3 DEF FeedReady, TypeOK
<1>4. ASSUME NEW s \in Sides, NEW d \in Docs,
             Create(s, d) \/ Open(s, d) \/ \E f \in Feeds : InitActorFeed(s, d, f)
      PROVE  Still
  BY <1>4 DEF Create, Open, InitActorFeed, OpenActors
<1>5. UNCHANGED vars => Still
  BY DEF vars, repVars
<1> HIDE DEF Still
<1> QED
  BY <1>1, <1>2, <1>3, <1>4, <1>5, ConnectionsShared DEF Next

LEMMA SharedInit == Init => UsedInv /\ SharedIsReplicated
  BY DEF Init, UsedInv, SharedIsReplicated, Link!Init, Link!IsBusy, Sides

\* Whatever is marked as shared with the peer is replicated, or will be once
\* its feed is open, on the connection in use: the mark, which makes onMessage
\* ignore the feed, never outlives a connection.
THEOREM SharedIsReplicatedHolds == Spec => []SharedIsReplicated
<1> DEFINE Inv == TypeOK /\ CommonInv /\ UsedInv /\ SharedIsReplicated
<1>1. Init => Inv
  BY TypeInit, CommonInit, SharedInit
<1>2. Inv /\ [Next]_vars => Inv'
  BY TypeNext, CommonNext, UsedNext, SharedNext
<1>3. Inv => SharedIsReplicated
  OBVIOUS
<1> QED
  BY <1>1, <1>2, <1>3, PTL DEF Spec

-----------------------------------------------------------------------------
(* Who has a connection to answer on *)

\* What a step of the connections does to the choice of the two sides: none is
\* given up before it is dead, and what is taken was never taken before.
LEMMA TakeStep ==
  ASSUME TypeOK, UsedInv, Link!Next
  PROVE  /\ using'[Authority] # using[Authority] =>
              /\ using'[Other] = using[Other]
              /\ using[Authority] # None => ends'[Authority][using[Authority]] = "gone"
              /\ using'[Authority] # None => /\ ends[Authority][using'[Authority]] = "idle"
                                            /\ ends[Other][using'[Authority]] # "none"
         /\ using'[Other] # using[Other] =>
              \/ /\ using'[Other] = None
                 /\ using[Other] # None => ends'[Other][using[Other]] = "gone"
              \/ /\ ends[Other][using'[Other]] = "idle"
                 /\ \/ using'[Other] = using[Authority]
                    \/ LateDelivery /\ ends[Authority][using'[Other]] = "gone"
<1> DEFINE Goal ==
             /\ using'[Authority] # using[Authority] =>
                  /\ using'[Other] = using[Other]
                  /\ using[Authority] # None => ends'[Authority][using[Authority]] = "gone"
                  /\ using'[Authority] # None => /\ ends[Authority][using'[Authority]] = "idle"
                                                /\ ends[Other][using'[Authority]] # "none"
             /\ using'[Other] # using[Other] =>
                  \/ /\ using'[Other] = None
                     /\ using[Other] # None => ends'[Other][using[Other]] = "gone"
                  \/ /\ ends[Other][using'[Other]] = "idle"
                     /\ \/ using'[Other] = using[Authority]
                        \/ LateDelivery /\ ends[Authority][using'[Other]] = "gone"
<1>0. /\ Authority = Link!Authority /\ Other = Link!Other /\ Authority # Other
      /\ Sides = {Authority, Other} /\ Link!Sides = Sides
      /\ Link!Peer(Authority) = Other /\ Link!Peer(Other) = Authority
  BY DEF Authority, Other, Sides, Link!Sides, Link!Authority, Link!Other, Link!Peer
<1>1. /\ using \in [Sides -> Conns \cup {None}]
      /\ ends \in [Sides -> [Conns -> {"none", "idle", "used", "gone"}]]
  BY DEF TypeOK
<1>2. ASSUME NEW s \in Sides, ~Link!IsBusy(s), using[s] # None
      PROVE  ends[s][using[s]] = "gone"
  BY <1>1, <1>2 DEF Link!IsBusy, Link!IsLive, UsedInv
<1>3. ASSUME NEW s \in Sides, ~Link!IsBusy(s), using[s] # None
      PROVE  ends'[s][using[s]] = "gone"
  BY <1>1, <1>2, <1>3, UsedStep
<1>4. ASSUME NEW s \in Sides, NEW c \in Conns, Link!Open(s, c)
      PROVE  Goal
  BY <1>4 DEF Link!Open
<1>5. ASSUME NEW c \in Conns, Link!Choose(c)
      PROVE  Goal
  <2>1. using' = [using EXCEPT ![Authority] = c]
    BY <1>0, <1>5 DEF Link!Choose
  <2>2. using'[Authority] = c /\ using'[Other] = using[Other]
    BY <1>0, <1>1, <2>1
  <2> QED
    BY <1>0, <1>3, <1>5, <2>2 DEF Link!Choose
<1>6. ASSUME NEW c \in Conns, Link!Follow(c)
      PROVE  Goal
  <2>1. using' = [using EXCEPT ![Other] = c]
    BY <1>0, <1>6 DEF Link!Follow
  <2>2. using'[Other] = c /\ using'[Authority] = using[Authority]
    BY <1>0, <1>1, <2>1
  <2> QED
    BY <1>0, <1>6, <2>2 DEF Link!Follow
<1>7. ASSUME NEW s \in Sides, NEW D \in SUBSET Conns, Link!Down(s, D)
      PROVE  Goal
  <2>1. PICK lost \in SUBSET {x \in D : ends[Link!Peer(s)][x] = "idle"} :
          \/ UNCHANGED using
          \/ /\ ~Link!IsBusy(s) \/ using[s] \in D
             /\ ends' = Link!Dead(s, D, lost)
             /\ using' = [using EXCEPT ![s] = None]
          \/ /\ s = Authority
             /\ ~Link!IsBusy(s) \/ using[s] \in D
             /\ \E c \in Conns \ D :
                  /\ ends[s][c] = "idle" /\ ends[Other][c] # "none"
                  /\ using' = [using EXCEPT ![s] = c]
                  /\ ends' = [Link!Dead(s, D, lost) EXCEPT ![s][c] = "used"]
    BY <1>0, <1>7 DEF Link!Down
  <2> DEFINE X == Link!Dead(s, D, lost)
  <2>2. /\ DOMAIN X = Sides /\ DOMAIN X[s] = Conns
        /\ \A x \in D : X[s][x] = "gone"
    BY <1>0, <1>1 DEF Link!Dead
  <2> HIDE DEF X
  <2>3. CASE UNCHANGED using
    BY <2>3
  <2>4. ASSUME ~Link!IsBusy(s) \/ using[s] \in D, ends' = X, using' = [using EXCEPT ![s] = None]
        PROVE  Goal
    <3>1. using[s] # None => ends'[s][using[s]] = "gone"
      BY <1>3, <2>2, <2>4
    <3>2. using'[s] = None /\ \A t \in Sides : t # s => using'[t] = using[t]
      BY <1>1, <2>4
    <3> QED
      BY <1>0, <3>1, <3>2
  <2>5. ASSUME s = Authority, ~Link!IsBusy(s) \/ using[s] \in D, NEW c \in Conns \ D,
               ends[s][c] = "idle", ends[Other][c] # "none",
               using' = [using EXCEPT ![s] = c], ends' = [X EXCEPT ![s][c] = "used"]
        PROVE  Goal
    <3>1. using'[Authority] = c /\ using'[Other] = using[Other]
      BY <1>0, <1>1, <2>5
    <3>2. \A x \in D : ends'[s][x] = "gone"
      BY <2>2, <2>5
    <3>3. using[s] # None => ends'[s][using[s]] = "gone"
      BY <1>3, <2>5, <3>2
    <3> QED
      BY <2>5, <3>1, <3>3
  <2> HIDE DEF Goal
  <2> QED
    BY <2>1, <2>3, <2>4, <2>5 DEF X
<1> HIDE DEF Goal
<1>8. Goal
  BY <1>0, <1>4, <1>5, <1>6, <1>7 DEF Link!Next
<1> QED
  BY <1>8 DEF Goal

\* The end of a connection goes on from "none" to "gone", and never back.
LEMMA EndStep ==
  ASSUME TypeOK, Link!Next, NEW s \in Sides, NEW c \in Conns, ends[s][c] # "none"
  PROVE  /\ ends'[s][c] # "none"
         /\ ends[s][c] = "gone" => ends'[s][c] = "gone"
         /\ ends'[s][c] = "idle" => ends[s][c] = "idle"
<1> DEFINE Goal == /\ ends'[s][c] # "none"
                   /\ ends[s][c] = "gone" => ends'[s][c] = "gone"
                   /\ ends'[s][c] = "idle" => ends[s][c] = "idle"
<1>0. /\ Link!Authority \in Link!Sides /\ Link!Other \in Link!Sides /\ Sides = Link!Sides
      /\ ends \in [Sides -> [Conns -> {"none", "idle", "used", "gone"}]]
  BY DEF Link!Sides, Sides, TypeOK
<1>1. CASE ends[s][c] \in {"used", "gone"}
  BY <1>1, UsedStep
<1>2. ASSUME ends[s][c] = "idle" PROVE ends'[s][c] # "none"
  <2>1. ASSUME NEW t \in Link!Sides, NEW x \in Conns, Link!Open(t, x)
        PROVE  ends'[s][c] # "none"
    <3>1. PICK e : ends' = [ends EXCEPT ![t][x] = e] /\ ends[t][x] = "none"
      BY <2>1 DEF Link!Open
    <3>2. t # s \/ x # c
      BY <1>2, <3>1
    <3> QED
      BY <1>0, <1>2, <3>1, <3>2
  <2>2. ASSUME NEW x \in Conns, Link!Choose(x) \/ Link!Follow(x)
        PROVE  ends'[s][c] # "none"
    <3>1. PICK t \in Link!Sides : ends' = [ends EXCEPT ![t][x] = "used"]
      BY <1>0, <2>2 DEF Link!Choose, Link!Follow
    <3> QED
      BY <1>0, <1>2, <3>1
  <2>3. ASSUME NEW t \in Link!Sides, NEW D \in SUBSET Conns, Link!Down(t, D)
        PROVE  ends'[s][c] # "none"
    <3>1. PICK lost :
            \/ ends' = Link!Dead(t, D, lost)
            \/ \E x \in Conns \ D : ends' = [Link!Dead(t, D, lost) EXCEPT ![t][x] = "used"]
      BY <2>3 DEF Link!Down
    <3> DEFINE X == Link!Dead(t, D, lost)
    <3>2. /\ DOMAIN X = Sides /\ \A u \in Sides : DOMAIN X[u] = Conns
          /\ X[s][c] # "none"
      BY <1>0, <1>2 DEF Link!Dead
    <3> HIDE DEF X
    <3>3. \A x \in Conns : ends' = [X EXCEPT ![t][x] = "used"] => ends'[s][c] # "none"
      BY <1>0, <3>2
    <3> QED
      BY <3>1, <3>2, <3>3 DEF X
  <2> QED
    BY <2>1, <2>2, <2>3 DEF Link!Next
<1> QED
  BY <1>0, <1>1, <1>2

\* What was taken into use by one side was taken by the authority; what belongs
\* to a connection at an end was made when that end was taken.
IsTaken(s, c) == ends[s][c] \in {"used", "gone"}

TakenInv ==
  /\ UsedInv
  /\ \A s \in Sides : using[s] # None => ends[Peer(s)][using[s]] # "none"
  /\ using[Other] # None => IsTaken(Authority, using[Other])
  /\ \A c \in joined[Other] : IsTaken(Authority, c)
  /\ \A s \in Sides : \A c \in joined[s] : IsTaken(s, c)
  /\ \A s \in Sides : \A p \in joining[s] \cup replicated[s] : IsTaken(s, p[1])

LEMMA BothSides == /\ Sides = {Authority, Other} /\ Authority # Other
                   /\ Peer(Authority) = Other /\ Peer(Other) = Authority
  BY DEF Authority, Other, Sides, Peer, Link!Sides, Link!Authority, Link!Other, Link!Peer

LEMMA ConnectionsTaken ==
  ASSUME TypeOK, TakenInv, TypeOK', UsedInv', Connections
  PROVE  TakenInv'
<1>0. Link!Next
  BY DEF Connections
<1>1. \A s \in Sides, c \in Conns : IsTaken(s, c) => ends'[s][c] \in {"used", "gone"}
  BY <1>0, UsedStep DEF IsTaken
<1>2. \A s \in Sides, c \in Conns : ends[s][c] # "none" => ends'[s][c] # "none"
  BY <1>0, EndStep
<1>3. /\ using \in [Sides -> Conns \cup {None}] /\ using' \in [Sides -> Conns \cup {None}]
      /\ joined \in [Sides -> SUBSET Conns]
      /\ joining \in [Sides -> SUBSET (Conns \X Feeds)]
      /\ replicated \in [Sides -> SUBSET (Conns \X Feeds)]
  BY DEF TypeOK
<1>4. UsedInv
  BY DEF TakenInv
<1>5. ASSUME NEW s \in Sides, using'[s] # None
      PROVE  ends'[Peer(s)][using'[s]] # "none"
  <2>1. CASE using'[s] = using[s]
    BY <1>2, <1>3, <1>5, <2>1, PeerLemma DEF TakenInv
  <2>2. CASE s = Authority /\ using'[s] # using[s]
    <3>1. ends[Other][using'[s]] # "none"
      BY <1>0, <1>4, <1>5, <2>2, TakeStep
    <3> QED
      BY <1>2, <1>3, <1>5, <2>2, <3>1, BothSides
  <2>3. CASE s = Other /\ using'[s] # using[s]
    <3>1. using'[Other] = using[Authority] \/ ends[Authority][using'[Other]] = "gone"
      BY <1>0, <1>4, <1>5, <2>3, TakeStep
    <3>2. ends[Authority][using'[Other]] # "none"
      BY <1>3, <1>4, <1>5, <2>3, <3>1, BothSides DEF UsedInv
    <3> QED
      BY <1>2, <1>3, <1>5, <2>3, <3>2, BothSides
  <2> QED
    BY <2>1, <2>2, <2>3, BothSides
<1>6. ASSUME using'[Other] # None
      PROVE  ends'[Authority][using'[Other]] \in {"used", "gone"}
  <2>1. CASE using'[Other] = using[Other]
    BY <1>1, <1>3, <1>6, <2>1, BothSides DEF TakenInv
  <2>2. CASE using'[Other] # using[Other]
    <3>1. using'[Other] = using[Authority] \/ ends[Authority][using'[Other]] = "gone"
      BY <1>0, <1>4, <1>6, <2>2, TakeStep
    <3>2. IsTaken(Authority, using'[Other])
      BY <1>3, <1>4, <1>6, <3>1, BothSides DEF UsedInv, IsTaken
    <3> QED
      BY <1>1, <1>3, <1>6, <3>2, BothSides
  <2> QED
    BY <2>1, <2>2
<1>7. ASSUME NEW s \in Sides, NEW c \in joined'[s]
      PROVE  ends'[s][c] \in {"used", "gone"} /\ (s = Other => ends'[Authority][c] \in {"used", "gone"})
  <2>1. c \in joined[s] \/ (c = using'[s] /\ c # None)
    BY <1>7 DEF Connections
  <2>2. CASE c \in joined[s]
    BY <1>1, <1>3, <2>2, BothSides DEF TakenInv
  <2>3. CASE c = using'[s] /\ c # None
    BY <1>6, <2>3 DEF UsedInv
  <2> QED
    BY <2>1, <2>2, <2>3
<1>8. ASSUME NEW s \in Sides, NEW p \in joining'[s] \cup replicated'[s]
      PROVE  ends'[s][p[1]] \in {"used", "gone"}
  <2>1. p \in joining[s] \cup replicated[s]
    BY <1>8 DEF Connections
  <2>2. p[1] \in Conns
    BY <1>3, <2>1
  <2>3. IsTaken(s, p[1])
    BY <2>1 DEF TakenInv
  <2> QED
    BY <1>1, <2>2, <2>3
<1> QED
  BY <1>5, <1>6, <1>7, <1>8, BothSides DEF TakenInv, IsTaken

\* The other steps share over the connection in use.
LEMMA TakenLocal ==
  ASSUME TypeOK, TakenInv, UNCHANGED <<linkVars, joined>>,
         \A s \in Sides : \A p \in joining'[s] \cup replicated'[s] :
           p \in joining[s] \cup replicated[s] \/ (p[1] = using[s] /\ using[s] # None)
  PROVE  TakenInv'
<1>1. \A s \in Sides : \A p \in joining'[s] \cup replicated'[s] : ends[s][p[1]] \in {"used", "gone"}
  BY DEF TakenInv, UsedInv, IsTaken
<1>2. \A s \in Sides : \A c : IsTaken(s, c)' <=> IsTaken(s, c)
  BY DEF IsTaken, linkVars
<1>3. UNCHANGED <<ends, using, joined>>
  BY DEF linkVars
<1> QED
  BY <1>1, <1>2, <1>3, BothSides DEF TakenInv, UsedInv, IsTaken

LEMMA SharedOverUsing ==
  ASSUME TypeOK, NEW s \in Sides, NEW ids, NEW M, ReplicateWith(s, ids, M)
  PROVE  \A t \in Sides : \A p \in joining'[t] \cup replicated'[t] :
           p \in joining[t] \cup replicated[t] \/ (p[1] = using[t] /\ using[t] # None)
  BY DEF ReplicateWith, TypeOK

LEMMA TakenNext ==
  ASSUME TypeOK, TakenInv, TypeOK', [Next]_vars
  PROVE  TakenInv'
<1> DEFINE Local == /\ UNCHANGED <<linkVars, joined>>
                    /\ \A t \in Sides : \A p \in joining'[t] \cup replicated'[t] :
                         p \in joining[t] \cup replicated[t] \/ (p[1] = using[t] /\ using[t] # None)
<1>1. CASE Connections
  BY <1>1, ConnectionsTaken, UsedNext DEF TakenInv
<1>2. ASSUME NEW m \in msgs, OnDiscoveryIds(m) \/ OnDiscoveryKey(m) \/ OnCursorMessage(m)
      PROVE  Local
  <2>1. m.to \in Sides
    BY MessageLemma DEF TypeOK
  <2>2. CASE OnDiscoveryIds(m)
    BY <2>1, <2>2, SharedOverUsing DEF OnDiscoveryIds, Throws
  <2>3. CASE OnDiscoveryKey(m)
    BY <2>1, <2>3, SharedOverUsing DEF OnDiscoveryKey, Throws
  <2>4. CASE OnCursorMessage(m)
    BY <2>4 DEF OnCursorMessage, OpenActors
  <2> QED
    BY <1>2, <2>2, <2>3, <2>4
<1>3. ASSUME NEW s \in Sides, NEW f \in Feeds, FeedReady(s, f)
      PROVE  Local
  BY <1>3 DEF FeedReady, TypeOK
<1>4. ASSUME NEW s \in Sides, NEW d \in Docs,
             Create(s, d) \/ Open(s, d) \/ \E f \in Feeds : InitActorFeed(s, d, f)
      PROVE  Local
  BY <1>4 DEF Create, Open, InitActorFeed, OpenActors
<1>5. Local => TakenInv'
  BY TakenLocal
<1> HIDE DEF Local
<1>6. UNCHANGED vars => Local
  BY DEF Local, vars, repVars
<1> QED
  BY <1>1, <1>2, <1>3, <1>4, <1>5, <1>6 DEF Next

LEMMA TakenInit == Init => TakenInv
  BY BothSides DEF Init, TakenInv, UsedInv, IsTaken, Link!Init, Link!Sides, Sides

\* A message that reaches the authority finds a connection to answer on.
AuthorityAnswers ==
  \A m \in msgs : Arrived(m) /\ m.to = Authority => using[Authority] # None

\* The authority listens on the connection it uses only.
AnswersInv ==
  /\ \A s \in Sides : None \notin joined[s]
  /\ joined[Authority] \subseteq {using[Authority]}

LEMMA AnswersNext ==
  ASSUME TypeOK, TypeOK', TakenInv, AnswersInv, [Next]_vars
  PROVE  AnswersInv'
<1>1. CASE Connections
  <2>1. \A s \in Sides : None \notin joined'[s]
    BY <1>1, ConnsAssumption DEF Connections, AnswersInv
  <2>2. using'[Authority] = using[Authority] \/ using[Authority] = None
          \/ IsGone(Authority, using[Authority])
    BY <1>1, TakeStep DEF Connections, TakenInv, IsGone
  <2>3. ASSUME NEW c \in joined'[Authority]
        PROVE  c = using'[Authority]
    <3>1. (c \in joined[Authority] \/ c = using'[Authority]) /\ ~IsGone(Authority, c)
      BY <1>1, <2>3, BothSides DEF Connections
    <3>2. c \in joined[Authority] => c = using[Authority] /\ c # None
      BY BothSides DEF AnswersInv
    <3> QED
      BY <2>2, <3>1, <3>2
  <2> QED
    BY <2>1, <2>3 DEF AnswersInv
<1>2. CASE UNCHANGED <<linkVars, joined>>
  BY <1>2 DEF linkVars, AnswersInv
<1>3. Connections \/ UNCHANGED <<linkVars, joined>>
  BY DEF Next, vars, repVars, OnDiscoveryIds, OnDiscoveryKey, OnCursorMessage, FeedReady,
         Create, Open, InitActorFeed, OpenActors
<1> QED
  BY <1>1, <1>2, <1>3

LEMMA AnswersInit == Init => AnswersInv
  BY BothSides DEF Init, AnswersInv, Link!Init

\* The repository that chooses the connections always has one in use when a
\* message arrives, however late: "peer has no connection" of
\* getOrCreateProtocol is never thrown there, but at the other end only.
THEOREM AuthorityAnswersHolds == Spec => []AuthorityAnswers
<1> DEFINE Inv == TypeOK /\ TakenInv /\ AnswersInv
<1>1. Init => Inv
  BY TypeInit, TakenInit, AnswersInit
<1>2. Inv /\ [Next]_vars => Inv'
  BY TypeNext, TakenNext, AnswersNext
<1>3. Inv => AuthorityAnswers
  BY BothSides DEF AuthorityAnswers, Arrived, AnswersInv
<1> QED
  BY <1>1, <1>2, <1>3, PTL DEF Spec

-----------------------------------------------------------------------------
(* What both have is replicated at both ends, and the cursors meet *)

\* What s sends over its connection will be read, now or when the other side
\* has taken the connection too.
Reaches(s) ==
  /\ using[s] # None
  /\ Link!IsLive(s, using[s]) /\ Link!IsLive(Peer(s), using[s])
  /\ using[Peer(s)] = using[s] \/ ends[Peer(s)][using[s]] = "idle"

\* A message that names feed f, or a channel of it, is on its way to t.
Due(M, t, c, type, f) ==
  \E m \in M : m.to = t /\ m.conn = c /\ m.type = type /\ f \in m.ids

\* A cursor of d that has feed f is on its way to t.
CursorDue(M, t, c, d, f) ==
  \E m \in M : /\ m.to = t /\ m.conn = c /\ m.type = "CursorMessage"
               /\ d \in DOMAIN m.cursors /\ f \in m.cursors[d]

\* replicateWith waits for feeds that are being opened only.
WaitsForFeeds == \A s \in Sides : \A p \in joining[s] : loaded[s][p[2]] = "opening"

\* What the authority has is announced on a connection that the other side has
\* not taken yet.
Welcomed ==
  (using[Authority] # None /\ Link!IsLive(Authority, using[Authority])
     /\ ends[Other][using[Authority]] = "idle") =>
  \A f \in feedInfo[Authority] : Due(msgs, Other, using[Authority], "DiscoveryIds", f)

\* On a connection that both use, what both have is announced or shared.
AllAnnounced ==
  \A c \in Conns : InUse(c) =>
    \A f \in feedInfo[Authority] \cap feedInfo[Other] :
      \/ Due(msgs, Authority, c, "DiscoveryIds", f) \/ Due(msgs, Other, c, "DiscoveryIds", f)
      \/ f \in replicating[Authority] \cup replicating[Other]

\* A feed that one side replicates is replicated by the other one too, or its
\* channel is on the way there.
ChannelsMeet ==
  \A s \in Sides : Reaches(s) =>
    \A f \in Feeds : <<using[s], f>> \in replicated[s] =>
      \/ <<using[s], f>> \in joining[Peer(s)] \cup replicated[Peer(s)]
      \/ Due(msgs, Peer(s), using[s], "DiscoveryKey", f)

\* What is replicated over the connection in use is marked as shared.
MarkedAsShared ==
  \A s \in Sides : \A p \in joining[s] \cup replicated[s] :
    p[1] = using[s] => p[2] \in replicating[s]

\* A cursor that is not empty has the root of its document.
RootsKnown == \A s \in Sides, d \in Docs : cursors[s][d] # {} => d \in cursors[s][d]

\* A cursor on the way has its root, and no feed that its sender does not have.
CursorsAreTrue ==
  \A m \in msgs : m.type = "CursorMessage" =>
    \A d \in DOMAIN m.cursors : d \in m.cursors[d] /\ m.cursors[d] \subseteq cursors[Peer(m.to)][d]

\* When the root of a document is shared with the peer, the peer has every feed
\* of its cursor, is about to hear of it, or will when the feed is open.
CursorsTold ==
  \A s \in Sides : Reaches(s) =>
    \A d \in Docs \cap replicating[s] : \A f \in cursors[s][d] :
      \/ f \in cursors[Peer(s)][d]
      \/ CursorDue(msgs, Peer(s), using[s], d, f)
      \/ f \in actors[s] /\ loaded[s][f] = "opening"

MeetInv ==
  /\ WaitsForFeeds /\ Welcomed /\ AllAnnounced /\ ChannelsMeet
  /\ MarkedAsShared /\ RootsKnown /\ CursorsAreTrue /\ CursorsTold

LEMMA MeetInit == Init => MeetInv
<1> SUFFICES ASSUME Init PROVE MeetInv
  OBVIOUS
<1>1. PICK store \in Stores : feedInfo = store.feeds /\ cursors = store.cursors
  BY DEF Init
<1>2. RootsKnown
  BY <1>1, StoresAssumption DEF RootsKnown
<1>3. \A s \in Sides : using[s] = None
  BY DEF Init, Link!Init, Sides
<1>4. \A c \in Conns : ~InUse(c)
  BY <1>3, ConnsAssumption, BothSides DEF InUse
<1> QED
  BY <1>2, <1>3, <1>4, BothSides
     DEF Init, MeetInv, WaitsForFeeds, Welcomed, AllAnnounced, ChannelsMeet, MarkedAsShared,
         CursorsAreTrue, CursorsTold, Reaches

\* The invariant shows what is promised once nothing is due.
LEMMA MeetFollows ==
  ASSUME TypeOK, OnlyCommonFeeds, SharedIsReplicated, MeetInv
  PROVE  Meet
<1> SUFFICES ASSUME NEW c \in Conns, Quiet(c)
             PROVE  LET common == feedInfo[Authority] \cap feedInfo[Other]
                    IN /\ \A f \in common, s \in Sides : <<c, f>> \in replicated[s]
                       /\ \A d \in Docs \cap common : cursors[Authority][d] = cursors[Other][d]
  BY DEF Meet
<1> DEFINE common == feedInfo[Authority] \cap feedInfo[Other]
<1>1. /\ c # None /\ InUse(c) /\ \A m \in msgs : m.conn # c
      /\ \A s \in Sides : using[s] = c /\ Link!IsLive(s, c) /\ Reaches(s) /\ Link!IsBusy(s)
      /\ \A s \in Sides, f \in Feeds : loaded[s][f] # "opening"
  BY ConnsAssumption, PeerLemma DEF Quiet, InUse, Reaches, Link!IsBusy
<1>2. \A s \in Sides : joining[s] = {}
  <2> SUFFICES ASSUME NEW s \in Sides, NEW p \in joining[s] PROVE FALSE
    OBVIOUS
  <2>1. p[2] \in Feeds
    BY DEF TypeOK
  <2> QED
    BY <1>1, <2>1 DEF MeetInv, WaitsForFeeds
<1>3. ASSUME NEW f \in common
      PROVE  \A s \in Sides : <<c, f>> \in replicated[s]
  <2>1. PICK s \in Sides : f \in replicating[s]
    BY <1>1, BothSides DEF MeetInv, AllAnnounced, Due
  <2>2. <<c, f>> \in replicated[s]
    BY <1>1, <1>2, <2>1 DEF SharedIsReplicated
  <2>3. f \in Feeds
    BY BothSides DEF TypeOK
  <2>4. <<c, f>> \in replicated[Peer(s)]
    BY <1>1, <1>2, <2>2, <2>3, PeerLemma DEF MeetInv, ChannelsMeet, Due
  <2> QED
    BY <2>2, <2>4, BothSides
<1>4. ASSUME NEW d \in Docs \cap common, NEW s \in Sides
      PROVE  cursors[s][d] \subseteq cursors[Peer(s)][d]
  <2>1. d \in replicating[s]
    <3>1. <<c, d>> \in replicated[s]
      BY <1>3
    <3> QED
      BY <1>1, <3>1 DEF MeetInv, MarkedAsShared
  <2>2. ASSUME NEW f \in cursors[s][d]
        PROVE  f \in cursors[Peer(s)][d]
    <3>1. f \in Feeds
      BY DEF TypeOK
    <3> QED
      BY <1>1, <2>1, <3>1 DEF MeetInv, CursorsTold, CursorDue
  <2> QED
    BY <2>2
<1> QED
  BY <1>3, <1>4, BothSides

\* A side that takes a connection has not used it before.
LEMMA NewConnection ==
  ASSUME TypeOK, TakenInv, Link!Next, NEW s \in Sides, using'[s] # None, using'[s] # using[s]
  PROVE  ends[s][using'[s]] = "idle"
  BY TakeStep, BothSides DEF TakenInv

\* A step of the connections reaches nobody who was not reached before, unless
\* s has just taken its connection.
LEMMA ReachStep ==
  ASSUME TypeOK, TakenInv, Link!Next, NEW s \in Sides, using'[s] = using[s], Reaches(s)'
  PROVE  Reaches(s)
<1> DEFINE c == using[s]
<1>1. c # None /\ c \in Conns
  BY DEF Reaches, TypeOK
<1>2. Peer(s) \in Sides /\ ends \in [Sides -> [Conns -> {"none", "idle", "used", "gone"}]]
  BY PeerLemma DEF TypeOK
<1>3. /\ ends'[s][c] \in {"idle", "used"} /\ ends'[Peer(s)][c] \in {"idle", "used"}
      /\ using'[Peer(s)] = c \/ ends'[Peer(s)][c] = "idle"
  BY DEF Reaches, Link!IsLive
<1>4. ends[s][c] # "none" /\ ends[Peer(s)][c] # "none"
  BY <1>1 DEF TakenInv, UsedInv
<1>5. ends[s][c] # "gone" /\ ends[Peer(s)][c] # "gone"
  BY <1>1, <1>2, <1>3, <1>4, EndStep
<1>6. using[Peer(s)] = c \/ ends[Peer(s)][c] = "idle"
  <2>1. CASE ends'[Peer(s)][c] = "idle"
    BY <1>1, <1>2, <1>4, <2>1, EndStep
  <2>2. CASE using'[Peer(s)] = c /\ using[Peer(s)] # c
    BY <1>1, <1>2, <2>2, NewConnection
  <2> QED
    BY <1>3, <2>1, <2>2
<1> QED
  BY <1>1, <1>2, <1>4, <1>5, <1>6 DEF Reaches, Link!IsLive

LEMMA KeepsMessages ==
  ASSUME TypeOK, Connections, NEW m \in msgs,
         \A s \in Sides : ends'[s][m.conn] # "gone"
  PROVE  m \in msgs'
<1>1. m.to \in Sides /\ Peer(m.to) \in Sides
  BY MessageLemma, PeerLemma DEF TypeOK
<1> QED
  BY <1>1 DEF Connections, Surviving, IsGone

LEMMA KeepsDue ==
  ASSUME TypeOK, Connections, NEW t, NEW c, \A s \in Sides : ends'[s][c] # "gone"
  PROVE  /\ \A type, f : Due(msgs, t, c, type, f) => Due(msgs', t, c, type, f)
         /\ \A d, f : CursorDue(msgs, t, c, d, f) => CursorDue(msgs', t, c, d, f)
  BY KeepsMessages DEF Due, CursorDue

LEMMA ConnectionsMeet ==
  ASSUME TypeOK, TypeOK', TakenInv, MeetInv, Connections
  PROVE  MeetInv'
<1>0. /\ Link!Next /\ UsedInv /\ UNCHANGED <<feedInfo, loaded, actors, cursors>>
      /\ \A s \in Sides : joining'[s] \subseteq joining[s] /\ replicated'[s] \subseteq replicated[s]
  BY DEF Connections, TakenInv, feedVars
<1>1. /\ using \in [Sides -> Conns \cup {None}] /\ using' \in [Sides -> Conns \cup {None}]
      /\ ends \in [Sides -> [Conns -> {"none", "idle", "used", "gone"}]]
      /\ ends' \in [Sides -> [Conns -> {"none", "idle", "used", "gone"}]]
      /\ joining \in [Sides -> SUBSET (Conns \X Feeds)]
      /\ replicated \in [Sides -> SUBSET (Conns \X Feeds)]
      /\ replicating \in [Sides -> SUBSET Feeds]
  BY DEF TypeOK
\* A side that takes a connection starts anew.
<1>2. ASSUME NEW s \in Sides, using'[s] # None, using'[s] # using[s]
      PROVE  /\ replicating'[s] = {}
             /\ \A p \in joining[s] \cup replicated[s] : p[1] # using'[s]
  <2>1. s \in Confirming
    BY <1>2 DEF Confirming
  <2>2. replicating'[s] = {}
    BY <2>1 DEF Connections, Reset
  <2>3. ~IsTaken(s, using'[s])
    BY <1>0, <1>2, NewConnection DEF IsTaken
  <2> QED
    BY <2>2, <2>3 DEF TakenInv
<1>3. ASSUME NEW s \in Sides, using'[s] = None \/ using'[s] = using[s]
      PROVE  replicating'[s] = replicating[s]
  BY <1>3 DEF Connections, Reset, Confirming
<1>4. ASSUME NEW s \in Sides, Reaches(s)'
      PROVE  /\ using'[s] \in Conns /\ using'[s] # None
             /\ \A t \in Sides : ends'[t][using'[s]] # "gone"
             /\ using'[s] = using[s] => Reaches(s)
  <2>1. using'[s] \in Conns /\ using'[s] # None
    BY <1>1, <1>4 DEF Reaches
  <2>2. \A t \in Sides : ends'[t][using'[s]] # "gone"
    BY <1>4, BothSides DEF Reaches, Link!IsLive
  <2> QED
    BY <1>0, <1>4, <2>1, <2>2, ReachStep
<1>5. WaitsForFeeds'
  BY <1>0 DEF MeetInv, WaitsForFeeds
<1>6. Welcomed'
  <2> DEFINE c == using'[Authority]
  <2> SUFFICES ASSUME c # None, ends'[Authority][c] \in {"idle", "used"},
                      ends'[Other][c] = "idle", NEW f \in feedInfo[Authority]
               PROVE  Due(msgs', Other, c, "DiscoveryIds", f)
    BY <1>0 DEF Welcomed, Link!IsLive
  <2>1. c \in Conns /\ \A t \in Sides : ends'[t][c] # "gone"
    BY <1>1, BothSides
  <2>2. CASE c = using[Authority]
    <3>1. ends[Other][c] = "idle"
      <4>1. ends[Other][c] # "none"
        BY <2>2, BothSides DEF TakenInv
      <4> QED
        BY <1>0, <2>1, <4>1, BothSides, EndStep
    <3>2. Link!IsLive(Authority, c)
      <4>1. ends[Authority][c] \in {"used", "gone"}
        BY <2>2, BothSides DEF TakenInv, UsedInv
      <4> QED
        BY <1>0, <2>1, <4>1, BothSides, UsedStep DEF Link!IsLive
    <3>3. Due(msgs, Other, c, "DiscoveryIds", f)
      BY <2>2, <3>1, <3>2 DEF MeetInv, Welcomed
    <3> QED
      BY <2>1, <3>3, KeepsDue
  <2>3. CASE c # using[Authority]
    <3> DEFINE m == Ids(Authority, c, feedInfo[Authority])
    <3>1. m \in Welcome(Confirming)
      BY <2>3, BothSides DEF Welcome, Confirming
    <3>2. m.to = Other /\ m.conn = c /\ m.type = "DiscoveryIds" /\ f \in m.ids
      BY BothSides DEF Ids
    <3>3. m \in msgs'
      BY <2>1, <3>1, <3>2, BothSides DEF Connections, Surviving, IsGone
    <3> QED
      BY <3>2, <3>3 DEF Due
  <2> QED
    BY <2>2, <2>3
<1>7. AllAnnounced'
  <2> SUFFICES ASSUME NEW c \in Conns, InUse(c)', NEW f \in feedInfo[Authority] \cap feedInfo[Other]
               PROVE  \/ Due(msgs', Authority, c, "DiscoveryIds", f)
                      \/ Due(msgs', Other, c, "DiscoveryIds", f)
                      \/ f \in replicating'[Authority] \cup replicating'[Other]
    BY <1>0 DEF AllAnnounced
  <2>1. \A s \in Sides : using'[s] = c /\ ends'[s][c] # "gone" /\ Link!IsLive(s, c)'
    BY DEF InUse, Link!IsLive
  <2>2. \A s \in Sides : ends[s][c] \in {"used", "gone"} => Link!IsLive(s, c)
    BY <1>0, <2>1, UsedStep DEF Link!IsLive
  <2>3. CASE using[Authority] = c /\ using[Other] = c
    <3>1. \A s \in Sides : ends[s][c] \in {"used", "gone"}
      BY <2>3, BothSides, ConnsAssumption DEF TakenInv, UsedInv
    <3>2. InUse(c)
      BY <2>2, <2>3, <3>1, BothSides DEF InUse
    <3>3. \A s \in Sides : replicating'[s] = replicating[s]
      BY <1>3, <2>1, <2>3, BothSides
    <3>4. \/ Due(msgs, Authority, c, "DiscoveryIds", f) \/ Due(msgs, Other, c, "DiscoveryIds", f)
          \/ f \in replicating[Authority] \cup replicating[Other]
      BY <3>2 DEF MeetInv, AllAnnounced
    <3> QED
      BY <2>1, <3>3, <3>4, BothSides, KeepsDue
  <2>4. CASE using[Authority] = c /\ using[Other] # c
    <3>1. ends[Other][c] = "idle"
      BY <1>0, <2>1, <2>4, BothSides, ConnsAssumption, NewConnection
    <3>2. Link!IsLive(Authority, c)
      BY <2>2, <2>4, BothSides, ConnsAssumption DEF TakenInv, UsedInv
    <3>3. Due(msgs, Other, c, "DiscoveryIds", f)
      BY <2>4, <3>1, <3>2, ConnsAssumption DEF MeetInv, Welcomed
    <3> QED
      BY <2>1, <3>3, KeepsDue
  <2>5. CASE using[Authority] # c
    <3>1. ends[Authority][c] = "idle" /\ using'[Other] = using[Other]
      BY <1>0, <2>1, <2>5, BothSides, ConnsAssumption, TakeStep
    <3>2. IsTaken(Authority, c)
      BY <2>1, <3>1, BothSides, ConnsAssumption DEF TakenInv
    <3> QED
      BY <3>1, <3>2 DEF IsTaken
  <2> QED
    BY <2>3, <2>4, <2>5
<1>8. ChannelsMeet'
  <2> SUFFICES ASSUME NEW s \in Sides, Reaches(s)', NEW f \in Feeds, <<using'[s], f>> \in replicated'[s]
               PROVE  \/ <<using'[s], f>> \in joining'[Peer(s)] \cup replicated'[Peer(s)]
                      \/ Due(msgs', Peer(s), using'[s], "DiscoveryKey", f)
    BY DEF ChannelsMeet
  <2>1. using'[s] = using[s]
    <3>1. <<using'[s], f>> \in replicated[s] /\ <<using'[s], f>>[1] = using'[s]
      BY <1>0
    <3> QED
      BY <1>2, <1>4, <3>1
  <2>2. Reaches(s) /\ <<using[s], f>> \in replicated[s]
    BY <1>0, <1>4, <2>1
  <2>3. \/ <<using[s], f>> \in joining[Peer(s)] \cup replicated[Peer(s)]
        \/ Due(msgs, Peer(s), using[s], "DiscoveryKey", f)
    BY <2>2 DEF MeetInv, ChannelsMeet
  <2>4. Peer(s) \in Sides /\ ~IsGone(Peer(s), using[s])
    BY <1>4, <2>1, PeerLemma DEF IsGone
  <2>5. \A p \in joining[Peer(s)] \cup replicated[Peer(s)] :
          p[1] = using[s] => p \in joining'[Peer(s)] \cup replicated'[Peer(s)]
    BY <2>4 DEF Connections
  <2> QED
    BY <1>4, <2>1, <2>3, <2>5, KeepsDue
<1>9. MarkedAsShared'
  <2> SUFFICES ASSUME NEW s \in Sides, NEW p \in joining'[s] \cup replicated'[s], p[1] = using'[s]
               PROVE  p[2] \in replicating'[s]
    BY DEF MarkedAsShared
  <2>1. p \in joining[s] \cup replicated[s] /\ p[1] # None
    BY <1>0, <1>1, ConnsAssumption
  <2>2. using'[s] = using[s]
    BY <1>2, <2>1
  <2> QED
    BY <1>3, <2>1, <2>2 DEF MeetInv, MarkedAsShared
<1>10. RootsKnown'
  BY <1>0 DEF MeetInv, RootsKnown
<1>11. CursorsAreTrue'
  <2> SUFFICES ASSUME NEW m \in msgs', m.type = "CursorMessage", NEW d \in DOMAIN m.cursors
               PROVE  d \in m.cursors[d] /\ m.cursors[d] \subseteq cursors[Peer(m.to)][d]
    BY <1>0 DEF CursorsAreTrue
  <2>1. m \in msgs
    BY DEF Connections, Surviving, Welcome, Ids
  <2> QED
    BY <2>1 DEF MeetInv, CursorsAreTrue
<1>12. CursorsTold'
  <2> SUFFICES ASSUME NEW s \in Sides, Reaches(s)', NEW d \in Docs \cap replicating'[s],
                      NEW f \in cursors[s][d]
               PROVE  \/ f \in cursors[Peer(s)][d]
                      \/ CursorDue(msgs', Peer(s), using'[s], d, f)
                      \/ f \in actors[s] /\ loaded[s][f] = "opening"
    BY <1>0 DEF CursorsTold
  <2>1. using'[s] = using[s]
    BY <1>2, <1>4
  <2>2. Reaches(s) /\ d \in replicating[s]
    BY <1>3, <1>4, <2>1
  <2> QED
    BY <1>4, <2>1, <2>2, KeepsDue DEF MeetInv, CursorsTold
<1> QED
  BY <1>5, <1>6, <1>7, <1>8, <1>9, <1>10, <1>11, <1>12 DEF MeetInv

\* The other steps leave the connections alone.
LEMMA SameReach ==
  ASSUME UNCHANGED linkVars
  PROVE  /\ \A s : Reaches(s)' <=> Reaches(s)
         /\ \A c : InUse(c)' <=> InUse(c)
  BY DEF linkVars, Reaches, InUse, Link!IsLive

\* n tells the peer of s about documents, with the cursors "cur".
Tells(n, s, cur) ==
  /\ n.to = Peer(s) /\ n.conn = using[s] /\ n.type = "CursorMessage"
  /\ \A d \in DOMAIN n.cursors : d \in Docs /\ cur[d] # {} /\ n.cursors[d] = cur[d]

LEMMA AnnouncedTells ==
  ASSUME NEW s \in Sides, NEW cur \in [Docs -> SUBSET Feeds], NEW f
  PROVE  /\ \A n \in Announced(s, using[s], cur, f) : Tells(n, s, cur)
         /\ \A d \in Docs : f \in cur[d] =>
              \E n \in Announced(s, using[s], cur, f) : d \in DOMAIN n.cursors
<1> DEFINE D == DocsWithActor(cur, f)
           C == [d \in D |-> cur[d]]
           n == [to |-> Peer(s), conn |-> using[s], type |-> "CursorMessage", cursors |-> C]
<1>1. Announced(s, using[s], cur, f) = IF D = {} THEN {} ELSE {n}
  BY DEF Announced
<1>2. \A d : d \in D <=> d \in Docs /\ f \in cur[d]
  BY DEF DocsWithActor
<1>3. DOMAIN C = D /\ \A d \in D : C[d] = cur[d]
  OBVIOUS
<1>4. /\ n.to = Peer(s) /\ n.conn = using[s] /\ n.type = "CursorMessage" /\ n.cursors = C
  OBVIOUS
<1> HIDE DEF D, C, n
<1>5. Tells(n, s, cur)
  BY <1>2, <1>3, <1>4 DEF Tells
<1> QED
  BY <1>1, <1>2, <1>3, <1>4, <1>5

LEMMA ActorFeedReadyTells ==
  ASSUME NEW s \in Sides, NEW cur \in [Docs -> SUBSET Feeds], NEW F
  PROVE  /\ \A n \in ActorFeedReady(s, cur, F) : Tells(n, s, cur)
         /\ \A f \in F, d \in Docs \cap replicating[s] : f \in cur[d] =>
              \E n \in ActorFeedReady(s, cur, F) : d \in DOMAIN n.cursors
<1>1. ASSUME NEW n \in ActorFeedReady(s, cur, F) PROVE Tells(n, s, cur)
  BY <1>1, AnnouncedTells DEF ActorFeedReady
<1>2. ASSUME NEW f \in F, NEW d \in Docs \cap replicating[s], f \in cur[d]
      PROVE  \E n \in ActorFeedReady(s, cur, F) : d \in DOMAIN n.cursors
  <2>1. DocsWithActor(cur, f) \cap replicating[s] # {}
    BY <1>2 DEF DocsWithActor
  <2>2. PICK n \in Announced(s, using[s], cur, f) : d \in DOMAIN n.cursors
    BY <1>2, AnnouncedTells
  <2> QED
    BY <2>1, <2>2 DEF ActorFeedReady
<1> QED
  BY <1>1, <1>2

\* What s tells of a document over a connection that reaches the peer is due
\* there.
LEMMA ToldIsDue ==
  ASSUME NEW s \in Sides, Reaches(s), NEW M, NEW n, n \in M, NEW cur, Tells(n, s, cur),
         NEW d \in DOMAIN n.cursors, Deliverable(M) \subseteq msgs'
  PROVE  \A f \in cur[d] : CursorDue(msgs', Peer(s), using[s], d, f)
<1>1. n \in Deliverable(M)
  BY DEF Tells, Reaches, Deliverable
<1> QED
  BY <1>1 DEF Tells, CursorDue

\* A cursor that is told has its root, and what its sender has.
LEMMA ToldIsTrue ==
  ASSUME NEW s \in Sides, NEW cur, NEW n, Tells(n, s, cur), NEW now, cur = now[s],
         \A d \in Docs : cur[d] # {} => d \in cur[d]
  PROVE  \A d \in DOMAIN n.cursors : d \in n.cursors[d] /\ n.cursors[d] \subseteq now[Peer(n.to)][d]
  BY PeerLemma DEF Tells

\* A step of s that wakes actors, where "cur" only adds what the peer has, or
\* what is in F and new to s.
LEMMA OpenActorsMeet ==
  ASSUME TypeOK, MeetInv, NEW s \in Sides, NEW F, NEW cur \in [Docs -> SUBSET Feeds],
         NEW M, M \subseteq msgs, OpenActors(s, F, cur, M),
         \A n \in msgs \ M :
           /\ n.to = s /\ n.type = "CursorMessage"
           /\ \A d \in DOMAIN n.cursors : d \in Docs => n.cursors[d] \subseteq cur[d],
         \A d \in Docs : cursors[s][d] \subseteq cur[d] /\ (cur[d] # {} => d \in cur[d]),
         \A d \in Docs : \A f \in cur[d] \ cursors[s][d] :
           f \in F \ actors[s] \/ f \in cursors[Peer(s)][d]
  PROVE  MeetInv'
<1> DEFINE R == {f \in F \ actors[s] : loaded[s][f] = "ready"}
           A == ActorFeedReady(s, cur, R)
<1>0. /\ UNCHANGED <<linkVars, feedInfo, replicating, joined, joining, replicated, using>>
      /\ cursors' = [cursors EXCEPT ![s] = cur]
      /\ actors' = [actors EXCEPT ![s] = @ \cup F]
      /\ loaded' = Opening(s, F)
      /\ msgs' = M \cup Deliverable(A)
  BY DEF OpenActors, linkVars
<1>1. /\ cursors \in [Sides -> [Docs -> SUBSET Feeds]] /\ actors \in [Sides -> SUBSET Feeds]
      /\ loaded \in [Sides -> [Feeds -> {"none", "opening", "ready"}]]
      /\ joining \in [Sides -> SUBSET (Conns \X Feeds)]
  BY DEF TypeOK
<1>2. /\ cursors'[s] = cur /\ \A t \in Sides : t # s => cursors'[t] = cursors[t]
      /\ \A t \in Sides, d \in Docs : cursors[t][d] \subseteq cursors'[t][d]
  BY <1>0, <1>1
<1>3. \A t \in Sides : actors[t] \subseteq actors'[t] /\ F \subseteq actors'[s]
  BY <1>0, <1>1
<1>4. /\ \A t \in Sides, f \in Feeds : loaded[t][f] = "opening" => loaded'[t][f] = "opening"
      /\ \A f \in Feeds \cap F : loaded[s][f] # "ready" => loaded'[s][f] = "opening"
  BY <1>0, <1>1 DEF Opening
<1>5. \A n \in A : Tells(n, s, cur)
  BY ActorFeedReadyTells
<1>6. \A n \in msgs' : n \in msgs \/ Tells(n, s, cur)
  BY <1>0, <1>5 DEF Deliverable
<1>7. /\ \A n \in msgs : n.type # "CursorMessage" => n \in msgs'
      /\ \A t \in Sides, n \in msgs : n.to # s => n \in msgs'
  BY <1>0
<1>8. \A t, c, f : /\ Due(msgs, t, c, "DiscoveryIds", f) => Due(msgs', t, c, "DiscoveryIds", f)
                   /\ Due(msgs, t, c, "DiscoveryKey", f) => Due(msgs', t, c, "DiscoveryKey", f)
  BY <1>7 DEF Due
<1>9. WaitsForFeeds'
  BY <1>0, <1>1, <1>4 DEF MeetInv, WaitsForFeeds
<1>10. Welcomed'
  BY <1>0, <1>8 DEF MeetInv, Welcomed, linkVars, Link!IsLive
<1>11. AllAnnounced'
  BY <1>0, <1>8, SameReach DEF MeetInv, AllAnnounced
<1>12. ChannelsMeet'
  BY <1>0, <1>8, SameReach DEF MeetInv, ChannelsMeet
<1>13. MarkedAsShared'
  BY <1>0 DEF MeetInv, MarkedAsShared
<1>14. RootsKnown'
  BY <1>2 DEF MeetInv, RootsKnown
<1>15. CursorsAreTrue'
  <2> SUFFICES ASSUME NEW n \in msgs', n.type = "CursorMessage", NEW d \in DOMAIN n.cursors
               PROVE  d \in n.cursors[d] /\ n.cursors[d] \subseteq cursors'[Peer(n.to)][d]
    BY DEF CursorsAreTrue
  <2>1. CASE n \in msgs
    <3>1. n.to \in Sides /\ Peer(n.to) \in Sides /\ d \in Docs
      BY <2>1, MessageLemma, PeerLemma DEF TypeOK
    <3>2. d \in n.cursors[d] /\ n.cursors[d] \subseteq cursors[Peer(n.to)][d]
      BY <2>1 DEF MeetInv, CursorsAreTrue
    <3> QED
      BY <1>2, <3>1, <3>2
  <2>2. CASE Tells(n, s, cur)
    BY <1>2, <2>2, ToldIsTrue
  <2> QED
    BY <1>6, <2>1, <2>2
<1>16. CursorsTold'
  <2> SUFFICES ASSUME NEW t \in Sides, Reaches(t), NEW d \in Docs \cap replicating[t],
                      NEW f \in cursors'[t][d]
               PROVE  \/ f \in cursors'[Peer(t)][d]
                      \/ CursorDue(msgs', Peer(t), using[t], d, f)
                      \/ f \in actors'[t] /\ loaded'[t][f] = "opening"
    <3>1. using' = using /\ replicating' = replicating /\ \A t : Reaches(t)' <=> Reaches(t)
      BY <1>0, SameReach
    <3> QED
      BY <3>1 DEF CursorsTold
  <2>0. Peer(t) \in Sides /\ Peer(t) # t
    BY PeerLemma
  <2>1. f \in Feeds
    BY <1>1, <1>2
  <2>2. CASE f \in cursors[t][d]
    <3>1. \/ f \in cursors[Peer(t)][d]
          \/ CursorDue(msgs, Peer(t), using[t], d, f)
          \/ f \in actors[t] /\ loaded[t][f] = "opening"
      BY <2>2 DEF MeetInv, CursorsTold
    <3>2. CASE CursorDue(msgs, Peer(t), using[t], d, f)
      <4>1. PICK n \in msgs : /\ n.to = Peer(t) /\ n.conn = using[t] /\ n.type = "CursorMessage"
                              /\ d \in DOMAIN n.cursors /\ f \in n.cursors[d]
        BY <3>2 DEF CursorDue
      <4>2. CASE n \in msgs'
        BY <4>1, <4>2 DEF CursorDue
      <4>3. CASE n \notin msgs'
        <5>1. n \in msgs \ M
          BY <1>0, <4>3
        <5>2. Peer(t) = s /\ n.cursors[d] \subseteq cur[d]
          BY <4>1, <5>1
        <5> QED
          BY <1>2, <4>1, <5>2
      <4> QED
        BY <4>2, <4>3
    <3> QED
      BY <1>2, <1>3, <1>4, <2>0, <2>1, <3>1, <3>2
  <2>3. CASE f \notin cursors[t][d]
    <3>1. t = s /\ f \in cur[d] \ cursors[s][d]
      BY <1>2, <2>3
    <3>2. CASE f \in cursors[Peer(s)][d]
      BY <1>2, <2>0, <3>1, <3>2
    <3>3. CASE f \in F \ actors[s] /\ loaded[s][f] # "ready"
      BY <1>3, <1>4, <2>1, <3>1, <3>3
    <3>4. CASE f \in F \ actors[s] /\ loaded[s][f] = "ready"
      <4>1. PICK n \in A : d \in DOMAIN n.cursors
        BY <3>1, <3>4, ActorFeedReadyTells
      <4>2. Deliverable(A) \subseteq msgs'
        BY <1>0
      <4> HIDE DEF A
      <4>3. CursorDue(msgs', Peer(s), using[s], d, f)
        BY <1>5, <3>1, <4>1, <4>2, ToldIsDue
      <4> QED
        BY <3>1, <4>3
    <3> QED
      BY <3>1, <3>2, <3>3, <3>4
  <2> QED
    BY <2>2, <2>3
<1> QED
  BY <1>9, <1>10, <1>11, <1>12, <1>13, <1>14, <1>15, <1>16 DEF MeetInv

\* An end that listens on a connection has taken it; so if the peer uses it and
\* reaches this end, both use it.
LEMMA ListensToUsing ==
  ASSUME TakenInv, NEW s \in Sides, NEW c \in joined[s]
  PROVE  /\ ends[s][c] # "idle"
         /\ Reaches(Peer(s)) /\ using[Peer(s)] = c => using[s] = c
  BY PeerLemma DEF TakenInv, IsTaken, Reaches

\* The feeds of a message are marked as shared, and replicated if the message
\* opened a channel.
LEMMA ReplicateWithMeet ==
  ASSUME TypeOK, TakenInv, MeetInv, NEW s \in Sides, NEW ids \in SUBSET Feeds,
         ids \subseteq feedInfo[s], NEW m \in msgs, m.to = s, Arrived(m),
         m.type \in {"DiscoveryIds", "DiscoveryKey"},
         m.type = "DiscoveryIds" => m.ids \cap feedInfo[s] \subseteq ids \cup replicating[s],
         m.type = "DiscoveryKey" => m.ids = ids,
         ReplicateWith(s, ids, msgs \ {m}),
         UNCHANGED <<linkVars, feedInfo, actors, cursors, joined>>
  PROVE  MeetInv'
<1> DEFINE c   == using[s]
           now == {f \in ids : loaded[s][f] = "ready"}
           A   == UNION {Announced(s, c, cursors[s], f) : f \in ids}
           B   == {Channel(s, c, f) : f \in now}
<1>0. /\ UNCHANGED <<ends, using, feedInfo, actors, cursors>> /\ UNCHANGED linkVars
      /\ c # None /\ ids \cap feedInfo[s] = ids
  BY DEF ReplicateWith, linkVars
<1>1. /\ replicating' = [replicating EXCEPT ![s] = @ \cup ids]
      /\ loaded' = Opening(s, ids)
      /\ joining' = [joining EXCEPT ![s] = @ \cup ({c} \X (ids \ now))]
      /\ replicated' = [replicated EXCEPT ![s] = @ \cup ({c} \X now)]
      /\ msgs' = (msgs \ {m}) \cup Deliverable(A \cup B)
  BY <1>0 DEF ReplicateWith
<1>2. /\ cursors \in [Sides -> [Docs -> SUBSET Feeds]] /\ replicating \in [Sides -> SUBSET Feeds]
      /\ loaded \in [Sides -> [Feeds -> {"none", "opening", "ready"}]]
      /\ joining \in [Sides -> SUBSET (Conns \X Feeds)]
      /\ replicated \in [Sides -> SUBSET (Conns \X Feeds)]
  BY DEF TypeOK
<1>3. /\ replicating'[s] = replicating[s] \cup ids
      /\ joining'[s] = joining[s] \cup ({c} \X (ids \ now))
      /\ replicated'[s] = replicated[s] \cup ({c} \X now)
      /\ \A t \in Sides : t # s => /\ replicating'[t] = replicating[t]
                                   /\ joining'[t] = joining[t] /\ replicated'[t] = replicated[t]
  BY <1>1, <1>2
<1>4. /\ \A t \in Sides, f \in Feeds : loaded[t][f] = "opening" => loaded'[t][f] = "opening"
      /\ \A f \in ids \ now : loaded'[s][f] = "opening"
  BY <1>1, <1>2 DEF Opening
<1>5. cursors[s] \in [Docs -> SUBSET Feeds]
  BY <1>2
<1>6. \A n \in A : Tells(n, s, cursors[s])
  BY <1>5, AnnouncedTells
<1>7. \A n \in B : n.type = "DiscoveryKey"
  BY DEF Channel
<1> HIDE DEF A, B
<1>8. \A n \in msgs' : n \in msgs \/ n.type = "DiscoveryKey" \/ Tells(n, s, cursors[s])
  BY <1>1, <1>6, <1>7 DEF Deliverable
<1>9. \A n \in msgs : n # m => n \in msgs'
  BY <1>1
<1>10. /\ \A t, x, d, f : CursorDue(msgs, t, x, d, f) => CursorDue(msgs', t, x, d, f)
       /\ \A t, x, type, f : Due(msgs, t, x, type, f) =>
            \/ Due(msgs', t, x, type, f)
            \/ t = s /\ x = m.conn /\ type = m.type /\ f \in m.ids
  BY <1>9 DEF CursorDue, Due
<1>11. \A t : Reaches(t)' <=> Reaches(t)
  BY <1>0, SameReach
<1>12. WaitsForFeeds'
  <2> SUFFICES ASSUME NEW t \in Sides, NEW p \in joining'[t]
               PROVE  loaded'[t][p[2]] = "opening"
    BY DEF WaitsForFeeds
  <2>1. CASE p \in joining[t]
    BY <1>2, <1>4, <2>1 DEF MeetInv, WaitsForFeeds
  <2>2. CASE t = s /\ p \in {c} \X (ids \ now)
    BY <1>4, <2>2
  <2> QED
    BY <1>3, <2>1, <2>2
<1>13. Welcomed'
  <2> SUFFICES ASSUME using[Authority] # None, Link!IsLive(Authority, using[Authority]),
                      ends[Other][using[Authority]] = "idle", NEW f \in feedInfo[Authority]
               PROVE  Due(msgs', Other, using[Authority], "DiscoveryIds", f)
    BY <1>0 DEF Welcomed, Link!IsLive
  <2>1. Due(msgs, Other, using[Authority], "DiscoveryIds", f)
    BY DEF MeetInv, Welcomed
  <2>2. ~(s = Other /\ m.conn = using[Authority])
    BY ListensToUsing DEF Arrived
  <2> QED
    BY <1>10, <2>1, <2>2
<1>14. AllAnnounced'
  <2> SUFFICES ASSUME NEW x \in Conns, InUse(x), NEW f \in feedInfo[Authority] \cap feedInfo[Other]
               PROVE  \/ Due(msgs', Authority, x, "DiscoveryIds", f)
                      \/ Due(msgs', Other, x, "DiscoveryIds", f)
                      \/ f \in replicating'[Authority] \cup replicating'[Other]
    BY <1>0, SameReach DEF AllAnnounced
  <2>1. \A t \in Sides : replicating[t] \subseteq replicating'[t] /\ f \in feedInfo[t]
    BY <1>3, BothSides
  <2>2. CASE m.type = "DiscoveryIds" /\ f \in m.ids
    BY <1>3, <2>1, <2>2, BothSides
  <2>3. CASE ~(m.type = "DiscoveryIds" /\ f \in m.ids)
    BY <1>10, <2>1, <2>3, BothSides DEF MeetInv, AllAnnounced
  <2> QED
    BY <2>2, <2>3
<1>15. ChannelsMeet'
  <2> SUFFICES ASSUME NEW t \in Sides, Reaches(t), NEW f \in Feeds, <<using[t], f>> \in replicated'[t]
               PROVE  \/ <<using[t], f>> \in joining'[Peer(t)] \cup replicated'[Peer(t)]
                      \/ Due(msgs', Peer(t), using[t], "DiscoveryKey", f)
    BY <1>0, <1>11 DEF ChannelsMeet
  <2>0. Peer(t) \in Sides /\ Peer(t) # t /\ Peer(s) # s
    BY PeerLemma
  <2>1. CASE <<using[t], f>> \in replicated[t]
    <3>1. \/ <<using[t], f>> \in joining[Peer(t)] \cup replicated[Peer(t)]
          \/ Due(msgs, Peer(t), using[t], "DiscoveryKey", f)
      BY <2>1 DEF MeetInv, ChannelsMeet
    <3>2. \A u \in Sides : joining[u] \subseteq joining'[u] /\ replicated[u] \subseteq replicated'[u]
      BY <1>3
    <3>3. CASE Peer(t) = s /\ using[t] = m.conn /\ m.type = "DiscoveryKey" /\ f \in m.ids
      <4>1. t = Peer(s) /\ using[s] = m.conn
        BY <3>3, PeerLemma, ListensToUsing DEF Arrived
      <4>2. <<c, f>> \in ({c} \X (ids \ now)) \cup ({c} \X now)
        BY <3>3
      <4> QED
        BY <1>3, <3>3, <4>1, <4>2
    <3> QED
      BY <1>10, <2>0, <3>1, <3>2, <3>3
  <2>2. CASE t = s /\ f \in now
    <3>1. Channel(s, c, f) \in B
      BY <2>2 DEF B
    <3>2. Channel(s, c, f) \in Deliverable(A \cup B)
      BY <2>2, <3>1 DEF Deliverable, Channel, Reaches
    <3> QED
      BY <1>1, <2>2, <3>2 DEF Due, Channel
  <2> QED
    BY <1>3, <2>1, <2>2
<1>16. MarkedAsShared'
  BY <1>0, <1>3 DEF MeetInv, MarkedAsShared
<1>17. RootsKnown'
  BY <1>0 DEF MeetInv, RootsKnown
<1>18. CursorsAreTrue'
  <2> SUFFICES ASSUME NEW n \in msgs', n.type = "CursorMessage", NEW d \in DOMAIN n.cursors
               PROVE  d \in n.cursors[d] /\ n.cursors[d] \subseteq cursors[Peer(n.to)][d]
    BY <1>0 DEF CursorsAreTrue
  <2>1. CASE n \in msgs
    BY <2>1 DEF MeetInv, CursorsAreTrue
  <2>2. CASE Tells(n, s, cursors[s])
    BY <2>2, ToldIsTrue DEF MeetInv, RootsKnown
  <2> QED
    BY <1>8, <2>1, <2>2
<1>19. CursorsTold'
  <2> SUFFICES ASSUME NEW t \in Sides, Reaches(t), NEW d \in Docs \cap replicating'[t],
                      NEW f \in cursors[t][d]
               PROVE  \/ f \in cursors[Peer(t)][d]
                      \/ CursorDue(msgs', Peer(t), using[t], d, f)
                      \/ f \in actors[t] /\ loaded'[t][f] = "opening"
    BY <1>0, <1>11 DEF CursorsTold
  <2>1. f \in Feeds
    BY <1>2
  <2>2. CASE d \in replicating[t]
    BY <1>4, <1>10, <2>1, <2>2 DEF MeetInv, CursorsTold
  <2>3. CASE t = s /\ d \in ids
    <3>1. d \in cursors[s][d]
      BY <2>3 DEF MeetInv, RootsKnown
    <3>2. PICK n \in Announced(s, c, cursors[s], d) : d \in DOMAIN n.cursors
      BY <1>5, <3>1, AnnouncedTells
    <3>3. n \in A
      BY <2>3, <3>2 DEF A
    <3>4. Deliverable(A) \subseteq msgs'
      BY <1>1 DEF Deliverable
    <3> QED
      BY <1>6, <2>3, <3>2, <3>3, <3>4, ToldIsDue
  <2> QED
    BY <1>3, <2>2, <2>3
<1> QED
  BY <1>12, <1>13, <1>14, <1>15, <1>16, <1>17, <1>18, <1>19 DEF MeetInv

\* A step that only handles a message.
OnlyMessages == UNCHANGED <<linkVars, feedVars, replicating, joined, joining, replicated>>

\* The channel of a feed is opened by an end that has opened it already.
LEMMA HasChannelMeet ==
  ASSUME TypeOK, TakenInv, MeetInv, NEW s \in Sides, NEW m \in msgs, m.to = s, Arrived(m),
         m.type = "DiscoveryKey", HasChannel(s, m.conn, m.ids), msgs' = msgs \ {m},
         OnlyMessages
  PROVE  MeetInv'
<1>0. /\ ends' = ends /\ using' = using /\ UNCHANGED linkVars /\ feedInfo' = feedInfo
      /\ actors' = actors /\ cursors' = cursors /\ loaded' = loaded /\ replicating' = replicating
      /\ joining' = joining /\ replicated' = replicated
  BY DEF OnlyMessages, linkVars, feedVars
<1>1. msgs' \subseteq msgs /\ (\A t : Reaches(t)' <=> Reaches(t)) /\ (\A c : InUse(c)' <=> InUse(c))
  BY <1>0, SameReach
<1>2. \A n \in msgs : n.type # "DiscoveryKey" => n \in msgs'
  OBVIOUS
<1>3. /\ \A t, x, d, f : CursorDue(msgs, t, x, d, f) => CursorDue(msgs', t, x, d, f)
      /\ \A t, x, f : Due(msgs, t, x, "DiscoveryIds", f) => Due(msgs', t, x, "DiscoveryIds", f)
      /\ \A t, x, f : Due(msgs, t, x, "DiscoveryKey", f) =>
           Due(msgs', t, x, "DiscoveryKey", f) \/ (t = s /\ x = m.conn /\ f \in m.ids)
  BY <1>2 DEF CursorDue, Due
<1>4. ChannelsMeet'
  <2> SUFFICES ASSUME NEW t \in Sides, Reaches(t), NEW f \in Feeds, <<using[t], f>> \in replicated[t]
               PROVE  \/ <<using[t], f>> \in joining[Peer(t)] \cup replicated[Peer(t)]
                      \/ Due(msgs', Peer(t), using[t], "DiscoveryKey", f)
    BY <1>0, <1>1 DEF ChannelsMeet
  <2>1. \/ <<using[t], f>> \in joining[Peer(t)] \cup replicated[Peer(t)]
        \/ Due(msgs, Peer(t), using[t], "DiscoveryKey", f)
    BY DEF MeetInv, ChannelsMeet
  <2>2. \A g \in m.ids : <<m.conn, g>> \in replicated[s]
    BY DEF HasChannel
  <2> QED
    BY <1>3, <2>1, <2>2
<1>5. WaitsForFeeds' /\ MarkedAsShared' /\ RootsKnown' /\ CursorsAreTrue'
  BY <1>0, <1>1 DEF MeetInv, WaitsForFeeds, MarkedAsShared, RootsKnown, CursorsAreTrue
<1>6. Welcomed'
  BY <1>0, <1>3 DEF MeetInv, Welcomed, Link!IsLive
<1>7. AllAnnounced'
  BY <1>0, <1>3, <1>1 DEF MeetInv, AllAnnounced
<1>8. CursorsTold'
  <2> SUFFICES ASSUME NEW t \in Sides, Reaches(t), NEW d \in Docs \cap replicating[t],
                      NEW f \in cursors[t][d]
               PROVE  \/ f \in cursors[Peer(t)][d]
                      \/ CursorDue(msgs', Peer(t), using[t], d, f)
                      \/ f \in actors[t] /\ loaded[t][f] = "opening"
    BY <1>0, <1>1 DEF CursorsTold
  <2> QED
    BY <1>3 DEF MeetInv, CursorsTold
<1> QED
  BY <1>4, <1>5, <1>6, <1>7, <1>8 DEF MeetInv

\* A message that is lost because there is no connection in use came over one
\* that the peer does not reach this end by.
LEMMA ThrowsMeet ==
  ASSUME TypeOK, TakenInv, MeetInv, NEW s \in Sides, NEW m \in msgs, m.to = s, Arrived(m),
         m.type # "CursorMessage", using[s] = None, msgs' = msgs \ {m}, OnlyMessages
  PROVE  MeetInv'
<1>0. /\ ends' = ends /\ using' = using /\ UNCHANGED linkVars /\ feedInfo' = feedInfo
      /\ actors' = actors /\ cursors' = cursors /\ loaded' = loaded /\ replicating' = replicating
      /\ joining' = joining /\ replicated' = replicated
  BY DEF OnlyMessages, linkVars, feedVars
<1>1. msgs' \subseteq msgs /\ (\A t : Reaches(t)' <=> Reaches(t)) /\ (\A c : InUse(c)' <=> InUse(c))
  BY <1>0, SameReach
<1>2. \A n \in msgs : n.type = "CursorMessage" => n \in msgs'
  OBVIOUS
<1>3. /\ \A t, x, d, f : CursorDue(msgs, t, x, d, f) => CursorDue(msgs', t, x, d, f)
      /\ \A t, x, type, f : Due(msgs, t, x, type, f) =>
           Due(msgs', t, x, type, f) \/ (t = s /\ x = m.conn)
  BY <1>2 DEF CursorDue, Due
<1>4. m.conn \in Conns /\ m.conn # None
  BY MessageLemma, ConnsAssumption DEF TypeOK
<1>5. m.conn \in joined[s] /\ ends[s][m.conn] # "idle" /\ ~InUse(m.conn)
  BY <1>4, ListensToUsing DEF Arrived, InUse
<1>6. \A t \in Sides : Reaches(t) /\ Peer(t) = s => using[t] # m.conn
  <2>1. Reaches(Peer(s)) => using[Peer(s)] # m.conn
    BY <1>4, <1>5, ListensToUsing
  <2> QED
    BY <2>1, BothSides
<1>7. ChannelsMeet'
  <2> SUFFICES ASSUME NEW t \in Sides, Reaches(t), NEW f \in Feeds, <<using[t], f>> \in replicated[t]
               PROVE  \/ <<using[t], f>> \in joining[Peer(t)] \cup replicated[Peer(t)]
                      \/ Due(msgs', Peer(t), using[t], "DiscoveryKey", f)
    BY <1>0, <1>1 DEF ChannelsMeet
  <2>1. \/ <<using[t], f>> \in joining[Peer(t)] \cup replicated[Peer(t)]
        \/ Due(msgs, Peer(t), using[t], "DiscoveryKey", f)
    BY DEF MeetInv, ChannelsMeet
  <2> QED
    BY <1>3, <1>6, <2>1
<1>8. WaitsForFeeds' /\ MarkedAsShared' /\ RootsKnown' /\ CursorsAreTrue'
  BY <1>0, <1>1 DEF MeetInv, WaitsForFeeds, MarkedAsShared, RootsKnown, CursorsAreTrue
<1>9. Welcomed'
  BY <1>0, <1>3, <1>5 DEF MeetInv, Welcomed, Link!IsLive
<1>10. AllAnnounced'
  BY <1>0, <1>1, <1>3, <1>5 DEF MeetInv, AllAnnounced
<1>11. CursorsTold'
  <2> SUFFICES ASSUME NEW t \in Sides, Reaches(t), NEW d \in Docs \cap replicating[t],
                      NEW f \in cursors[t][d]
               PROVE  \/ f \in cursors[Peer(t)][d]
                      \/ CursorDue(msgs', Peer(t), using[t], d, f)
                      \/ f \in actors[t] /\ loaded[t][f] = "opening"
    BY SMTT(30), <1>0, <1>1 DEF CursorsTold
  <2> QED
    BY <1>3 DEF MeetInv, CursorsTold
<1> QED
  BY <1>7, <1>8, <1>9, <1>10, <1>11 DEF MeetInv

\* A feed that is open is announced if it is new, its channels are opened, and
\* its documents are told.
LEMMA FeedReadyMeet ==
  ASSUME TypeOK, TakenInv, MeetInv, NEW s \in Sides, NEW f \in Feeds, FeedReady(s, f)
  PROVE  MeetInv'
<1> DEFINE waiting == {p \in joining[s] : p[2] = f}
           A == Saved(s, f)
           B == {Channel(s, p[1], f) : p \in waiting}
           C == ActorFeedReady(s, cursors[s], {f} \cap actors[s])
<1>0. /\ UNCHANGED <<ends, using, actors, cursors, replicating>> /\ UNCHANGED linkVars
      /\ loaded[s][f] = "opening"
      /\ loaded' = [loaded EXCEPT ![s][f] = "ready"]
      /\ feedInfo' = [feedInfo EXCEPT ![s] = @ \cup {f}]
      /\ joining' = [joining EXCEPT ![s] = @ \ waiting]
      /\ replicated' = [replicated EXCEPT ![s] = @ \cup waiting]
      /\ msgs' = msgs \cup Deliverable(A \cup B \cup C)
  BY DEF FeedReady, linkVars
<1>1. /\ cursors \in [Sides -> [Docs -> SUBSET Feeds]] /\ feedInfo \in [Sides -> SUBSET Feeds]
      /\ loaded \in [Sides -> [Feeds -> {"none", "opening", "ready"}]]
      /\ joining \in [Sides -> SUBSET (Conns \X Feeds)]
      /\ replicated \in [Sides -> SUBSET (Conns \X Feeds)]
  BY DEF TypeOK
<1>2. /\ feedInfo'[s] = feedInfo[s] \cup {f}
      /\ joining'[s] = joining[s] \ waiting /\ replicated'[s] = replicated[s] \cup waiting
      /\ \A t \in Sides : t # s => /\ feedInfo'[t] = feedInfo[t]
                                   /\ joining'[t] = joining[t] /\ replicated'[t] = replicated[t]
      /\ \A t \in Sides, g \in Feeds : ~(t = s /\ g = f) => loaded'[t][g] = loaded[t][g]
  BY <1>0, <1>1
<1>3. \A t \in Sides : joining'[t] \cup replicated'[t] = joining[t] \cup replicated[t]
  BY <1>2
<1>4. cursors[s] \in [Docs -> SUBSET Feeds]
  BY <1>1
<1>5. \A n \in C : Tells(n, s, cursors[s])
  BY <1>4, ActorFeedReadyTells
<1>6. \A n \in A \cup B : n.type # "CursorMessage"
  BY DEF Saved, Created, Ids, Channel
<1>7. ASSUME Reaches(s)
      PROVE  /\ f \notin feedInfo[s] => Due(msgs', Peer(s), using[s], "DiscoveryIds", f)
             /\ <<using[s], f>> \in waiting => Due(msgs', Peer(s), using[s], "DiscoveryKey", f)
  <2>1. ASSUME f \notin feedInfo[s]
        PROVE  Due(msgs', Peer(s), using[s], "DiscoveryIds", f)
    <3>1. Ids(s, using[s], {f}) \in A
      BY <2>1 DEF Saved, Created
    <3>2. Ids(s, using[s], {f}) \in msgs'
      BY <1>0, <1>7, <3>1 DEF Deliverable, Reaches, Ids
    <3> QED
      BY <3>2 DEF Due, Ids
  <2>2. ASSUME <<using[s], f>> \in waiting
        PROVE  Due(msgs', Peer(s), using[s], "DiscoveryKey", f)
    <3>1. Channel(s, using[s], f) \in B
      BY <2>2
    <3>2. Channel(s, using[s], f) \in msgs'
      BY <1>0, <1>7, <3>1 DEF Deliverable, Reaches, Channel
    <3> QED
      BY <3>2 DEF Due, Channel
  <2> QED
    BY <2>1, <2>2
<1> HIDE DEF A, B
<1>8. \A n \in msgs' : n \in msgs \/ n.type # "CursorMessage" \/ Tells(n, s, cursors[s])
  BY <1>0, <1>5, <1>6 DEF Deliverable
<1>9. /\ \A t, x, type, g : Due(msgs, t, x, type, g) => Due(msgs', t, x, type, g)
      /\ \A t, x, d, g : CursorDue(msgs, t, x, d, g) => CursorDue(msgs', t, x, d, g)
  BY <1>0 DEF Due, CursorDue
<1>10. \A t : Reaches(t)' <=> Reaches(t)
  BY <1>0, SameReach
<1>11. WaitsForFeeds'
  <2> SUFFICES ASSUME NEW t \in Sides, NEW p \in joining'[t]
               PROVE  loaded'[t][p[2]] = "opening"
    BY DEF WaitsForFeeds
  <2>1. p \in joining[t] /\ p[2] \in Feeds /\ ~(t = s /\ p[2] = f)
    BY <1>1, <1>2
  <2> QED
    BY <1>2, <2>1 DEF MeetInv, WaitsForFeeds
<1>12. Welcomed'
  <2> SUFFICES ASSUME using[Authority] # None, Link!IsLive(Authority, using[Authority]),
                      ends[Other][using[Authority]] = "idle", NEW g \in feedInfo'[Authority]
               PROVE  Due(msgs', Other, using[Authority], "DiscoveryIds", g)
    BY <1>0 DEF Welcomed, Link!IsLive
  <2>1. CASE g \in feedInfo[Authority]
    BY <1>9, <2>1 DEF MeetInv, Welcomed
  <2>2. CASE g \notin feedInfo[Authority]
    <3>1. s = Authority /\ g = f
      BY <1>2, <2>2, BothSides
    <3>2. Reaches(Authority)
      BY BothSides DEF Reaches, Link!IsLive
    <3> QED
      BY <1>7, <2>2, <3>1, <3>2, BothSides
  <2> QED
    BY <2>1, <2>2
<1>13. AllAnnounced'
  <2> SUFFICES ASSUME NEW x \in Conns, InUse(x), NEW g \in feedInfo'[Authority] \cap feedInfo'[Other]
               PROVE  \/ Due(msgs', Authority, x, "DiscoveryIds", g)
                      \/ Due(msgs', Other, x, "DiscoveryIds", g)
                      \/ g \in replicating[Authority] \cup replicating[Other]
    <3>1. replicating' = replicating /\ \A x : InUse(x)' <=> InUse(x)
      BY <1>0, SameReach
    <3> QED
      BY <3>1 DEF AllAnnounced
  <2>1. CASE g \in feedInfo[Authority] \cap feedInfo[Other]
    BY <1>9, <2>1 DEF MeetInv, AllAnnounced
  <2>2. CASE g \notin feedInfo[Authority] \cap feedInfo[Other]
    <3>1. g = f /\ f \notin feedInfo[s]
      BY <1>2, <2>2, BothSides
    <3>2. Reaches(s) /\ using[s] = x
      BY PeerLemma, ConnsAssumption DEF InUse, Reaches
    <3> QED
      BY <1>7, <3>1, <3>2, BothSides
  <2> QED
    BY <2>1, <2>2
<1>14. ChannelsMeet'
  <2> SUFFICES ASSUME NEW t \in Sides, Reaches(t), NEW g \in Feeds, <<using[t], g>> \in replicated'[t]
               PROVE  \/ <<using[t], g>> \in joining'[Peer(t)] \cup replicated'[Peer(t)]
                      \/ Due(msgs', Peer(t), using[t], "DiscoveryKey", g)
    BY <1>0, <1>10 DEF ChannelsMeet
  <2>1. CASE <<using[t], g>> \in replicated[t]
    BY <1>3, <1>9, <2>1, PeerLemma DEF MeetInv, ChannelsMeet
  <2>2. CASE <<using[t], g>> \notin replicated[t]
    <3>1. t = s /\ <<using[s], g>> \in waiting
      BY <1>2, <2>2
    <3>2. g = f
      BY <3>1
    <3> QED
      BY <1>7, <3>1, <3>2
  <2> QED
    BY <2>1, <2>2
<1>15. MarkedAsShared'
  BY <1>0, <1>3 DEF MeetInv, MarkedAsShared
<1>16. RootsKnown'
  BY <1>0 DEF MeetInv, RootsKnown
<1>17. CursorsAreTrue'
  <2> SUFFICES ASSUME NEW n \in msgs', n.type = "CursorMessage", NEW d \in DOMAIN n.cursors
               PROVE  d \in n.cursors[d] /\ n.cursors[d] \subseteq cursors[Peer(n.to)][d]
    BY <1>0 DEF CursorsAreTrue
  <2>1. CASE n \in msgs
    BY <2>1 DEF MeetInv, CursorsAreTrue
  <2>2. CASE Tells(n, s, cursors[s])
    BY <2>2, ToldIsTrue DEF MeetInv, RootsKnown
  <2> QED
    BY <1>8, <2>1, <2>2
<1>18. CursorsTold'
  <2> SUFFICES ASSUME NEW t \in Sides, Reaches(t), NEW d \in Docs \cap replicating[t],
                      NEW g \in cursors[t][d]
               PROVE  \/ g \in cursors[Peer(t)][d]
                      \/ CursorDue(msgs', Peer(t), using[t], d, g)
                      \/ g \in actors[t] /\ loaded'[t][g] = "opening"
    <3>1. UNCHANGED <<using, replicating, cursors, actors>>
      BY <1>0
    <3> QED
      BY <1>10, <3>1 DEF CursorsTold
  <2>1. g \in Feeds
    BY <1>1
  <2>2. \/ g \in cursors[Peer(t)][d] \/ CursorDue(msgs, Peer(t), using[t], d, g)
        \/ g \in actors[t] /\ loaded[t][g] = "opening"
    BY DEF MeetInv, CursorsTold
  <2>3. CASE t = s /\ g = f /\ f \in actors[s]
    <3>1. PICK n \in C : d \in DOMAIN n.cursors
      BY <1>4, <2>3, ActorFeedReadyTells
    <3>2. Deliverable(C) \subseteq msgs'
      BY <1>0 DEF Deliverable
    <3> HIDE DEF C
    <3> QED
      BY <1>5, <2>3, <3>1, <3>2, ToldIsDue
  <2>4. CASE ~(t = s /\ g = f)
    BY <1>2, <1>9, <2>1, <2>2, <2>4
  <2> QED
    BY <1>9, <2>2, <2>3, <2>4
<1> QED
  BY <1>11, <1>12, <1>13, <1>14, <1>15, <1>16, <1>17, <1>18 DEF MeetInv

LEMMA UserMeet ==
  ASSUME TypeOK, MeetInv, NEW s \in Sides, NEW d \in Docs,
         Create(s, d) \/ Open(s, d) \/ \E f \in Feeds : InitActorFeed(s, d, f)
  PROVE  MeetInv'
<1>0. /\ cursors \in [Sides -> [Docs -> SUBSET Feeds]] /\ Docs \subseteq Feeds
      /\ \A x \in Docs : cursors[s][x] # {} => x \in cursors[s][x]
  BY FeedsAssumption DEF TypeOK, MeetInv, RootsKnown
<1>1. ASSUME NEW F \in SUBSET Feeds
      PROVE  /\ Widened(s, d, F) \in [Docs -> SUBSET Feeds]
             /\ \A x \in Docs : Widened(s, d, F)[x] = IF x = d THEN cursors[s][d] \cup F
                                                      ELSE cursors[s][x]
  BY <1>0 DEF Widened
<1>2. CASE Open(s, d)
  <2> DEFINE cur == Widened(s, d, {d})
             F   == cursors[s][d] \cup {d}
  <2>1. OpenActors(s, F, cur, msgs) /\ d \notin actors[s]
    BY <1>2 DEF Open
  <2>2. /\ cur \in [Docs -> SUBSET Feeds]
        /\ \A x \in Docs : cur[x] = IF x = d THEN cursors[s][d] \cup {d} ELSE cursors[s][x]
    BY <1>0, <1>1
  <2> HIDE DEF cur
  <2>3. \A x \in Docs : cursors[s][x] \subseteq cur[x] /\ (cur[x] # {} => x \in cur[x])
    BY <1>0, <2>2
  <2>4. \A x \in Docs : \A g \in cur[x] \ cursors[s][x] : g \in F \ actors[s]
    BY <2>1, <2>2
  <2> HIDE DEF F
  <2> QED
    BY <2>1, <2>2, <2>3, <2>4, OpenActorsMeet
<1>3. ASSUME NEW f \in Feeds, InitActorFeed(s, d, f)
      PROVE  MeetInv'
  <2> DEFINE cur == Widened(s, d, {f})
  <2>1. OpenActors(s, {f}, cur, msgs) /\ f \notin actors[s] /\ d \in cursors[s][d]
    BY <1>3 DEF InitActorFeed, IsFresh
  <2>2. /\ cur \in [Docs -> SUBSET Feeds]
        /\ \A x \in Docs : cur[x] = IF x = d THEN cursors[s][d] \cup {f} ELSE cursors[s][x]
    BY <1>1
  <2> HIDE DEF cur
  <2>3. \A x \in Docs : cursors[s][x] \subseteq cur[x] /\ (cur[x] # {} => x \in cur[x])
    BY <1>0, <2>1, <2>2
  <2>4. \A x \in Docs : \A g \in cur[x] \ cursors[s][x] : g \in {f} \ actors[s]
    BY <2>1, <2>2
  <2> QED
    BY <2>1, <2>2, <2>3, <2>4, OpenActorsMeet
<1>4. CASE Create(s, d)
  <2> DEFINE cur == Widened(s, d, {d})
  <2>1. OpenActors(s, {d}, cur, msgs) /\ d \notin actors[s] /\ cursors[s][d] = {}
    BY <1>4 DEF Create
  <2>2. /\ cur \in [Docs -> SUBSET Feeds] /\ {d} \in SUBSET Feeds
        /\ \A x \in Docs : cur[x] = IF x = d THEN cursors[s][d] \cup {d} ELSE cursors[s][x]
    BY <1>0, <1>1
  <2> HIDE DEF cur
  <2>3. \A x \in Docs : cursors[s][x] \subseteq cur[x] /\ (cur[x] # {} => x \in cur[x])
    BY <1>0, <2>2
  <2>4. \A x \in Docs : \A g \in cur[x] \ cursors[s][x] : g \in {d} \ actors[s]
    BY <2>1, <2>2
  <2> QED
    BY <2>1, <2>2, <2>3, <2>4, OpenActorsMeet
<1> QED
  BY <1>2, <1>3, <1>4

LEMMA CursorMessageMeet ==
  ASSUME TypeOK, MeetInv, NEW m \in msgs, OnCursorMessage(m)
  PROVE  MeetInv'
<1> DEFINE s   == m.to
           F   == UNION {m.cursors[d] : d \in DOMAIN m.cursors}
           cur == [d \in Docs |-> cursors[s][d] \cup
                     (IF d \in DOMAIN m.cursors THEN m.cursors[d] ELSE {})]
<1>1. OpenActors(s, F, cur, msgs \ {m}) /\ m.type = "CursorMessage"
  BY DEF OnCursorMessage
<1>2. s \in Sides /\ \A d \in DOMAIN m.cursors : m.cursors[d] \subseteq Feeds
  BY <1>1, MessageLemma DEF TypeOK
<1>3. /\ cursors \in [Sides -> [Docs -> SUBSET Feeds]]
      /\ \A d \in Docs : cursors[s][d] # {} => d \in cursors[s][d]
      /\ \A d \in DOMAIN m.cursors :
           d \in m.cursors[d] /\ m.cursors[d] \subseteq cursors[Peer(s)][d]
  BY <1>1, <1>2 DEF TypeOK, MeetInv, RootsKnown, CursorsAreTrue
<1>4. /\ cur \in [Docs -> SUBSET Feeds]
      /\ \A d \in Docs : cur[d] = cursors[s][d] \cup
                           (IF d \in DOMAIN m.cursors THEN m.cursors[d] ELSE {})
  BY <1>2, <1>3
<1> HIDE DEF cur, F
<1>5. \A d \in Docs : cursors[s][d] \subseteq cur[d] /\ (cur[d] # {} => d \in cur[d])
  BY <1>3, <1>4
<1>6. \A d \in Docs : \A g \in cur[d] \ cursors[s][d] : g \in cursors[Peer(s)][d]
  BY <1>3, <1>4
<1>7. \A n \in msgs \ (msgs \ {m}) :
        /\ n.to = s /\ n.type = "CursorMessage"
        /\ \A d \in DOMAIN n.cursors : d \in Docs => n.cursors[d] \subseteq cur[d]
  BY <1>1, <1>4
<1>8. s \in Sides /\ msgs \ {m} \subseteq msgs
  BY <1>2
<1> HIDE DEF s
<1> QED
  BY <1>1, <1>4, <1>5, <1>6, <1>7, <1>8, OpenActorsMeet

LEMMA MeetNext ==
  ASSUME TypeOK, TypeOK', CommonInv, TakenInv, MeetInv, [Next]_vars
  PROVE  MeetInv'
<1>1. CASE Connections
  BY <1>1, ConnectionsMeet
<1>2. ASSUME NEW m \in msgs, OnDiscoveryIds(m) \/ OnDiscoveryKey(m)
      PROVE  MeetInv'
  <2>1. m \in Messages /\ m.to \in Sides /\ FeedsAreKnown(m)
    BY MessageLemma DEF TypeOK, CommonInv
  <2>2. CASE OnDiscoveryIds(m)
    <3> DEFINE ids == Shared(m.to, m.ids)
    <3>1. /\ ids \in SUBSET Feeds /\ ids \subseteq feedInfo[m.to]
          /\ m.ids \cap feedInfo[m.to] \subseteq ids \cup replicating[m.to]
      BY <2>1 DEF Shared, TypeOK
    <3>2. /\ ReplicateWith(m.to, ids, msgs \ {m}) \/ Throws(m.to, msgs \ {m})
          /\ Arrived(m) /\ m.type = "DiscoveryIds"
          /\ UNCHANGED <<linkVars, feedInfo, actors, cursors, joined>>
      BY <2>2 DEF OnDiscoveryIds
    <3> HIDE DEF ids
    <3>3. CASE ReplicateWith(m.to, ids, msgs \ {m})
      BY <2>1, <3>1, <3>2, <3>3, ReplicateWithMeet
    <3>4. CASE Throws(m.to, msgs \ {m})
      BY <2>1, <3>2, <3>4, ThrowsMeet DEF Throws, OnlyMessages, feedVars
    <3> QED
      BY <3>2, <3>3, <3>4
  <2>3. CASE OnDiscoveryKey(m) /\ ReplicateWith(m.to, m.ids, msgs \ {m})
    <3>1. m.ids \in SUBSET Feeds /\ m.ids \subseteq feedInfo[m.to]
      BY <2>1, <2>3, MessageLemma DEF OnDiscoveryKey, FeedsAreKnown
    <3> QED
      BY <2>1, <2>3, <3>1, ReplicateWithMeet DEF OnDiscoveryKey
  <2>4. CASE OnDiscoveryKey(m) /\ HasChannel(m.to, m.conn, m.ids) /\ msgs' = msgs \ {m}
               /\ UNCHANGED <<loaded, replicating, joining, replicated>>
    BY <2>1, <2>4, HasChannelMeet DEF OnDiscoveryKey, OnlyMessages, feedVars
  <2>5. CASE OnDiscoveryKey(m) /\ Throws(m.to, msgs \ {m})
    BY <2>1, <2>5, ThrowsMeet DEF OnDiscoveryKey, Throws, OnlyMessages, feedVars
  <2> QED
    BY <1>2, <2>2, <2>3, <2>4, <2>5 DEF OnDiscoveryKey
<1>3. CASE UNCHANGED vars
  <2>1. UNCHANGED <<ends, using, linkVars, feedInfo, loaded, actors, cursors, replicating,
                    joining, replicated, msgs>>
    BY <1>3 DEF vars, linkVars, feedVars, repVars
  <2>2. (\A t : Reaches(t)' <=> Reaches(t)) /\ (\A c : InUse(c)' <=> InUse(c))
    BY <2>1, SameReach
  <2> QED
    BY <2>1, <2>2 DEF MeetInv, WaitsForFeeds, Welcomed, AllAnnounced, ChannelsMeet,
                      MarkedAsShared, RootsKnown, CursorsAreTrue, CursorsTold, Link!IsLive
<1> QED
  BY <1>1, <1>2, <1>3, CursorMessageMeet, FeedReadyMeet, UserMeet DEF Next

\* When nothing is due on a connection that both sides use, every feed that both
\* have is replicated at both ends, and the two cursors of a document whose root
\* both have are the same (onPeer, onFeedCreated, actorNotify).
THEOREM MeetHolds == Spec => []Meet
<1> DEFINE Inv == TypeOK /\ CommonInv /\ TakenInv /\ SharedIsReplicated /\ MeetInv
<1>1. Init => Inv
  BY TypeInit, CommonInit, TakenInit, SharedInit, MeetInit
<1>2. Inv /\ [Next]_vars => Inv'
  BY TypeNext, CommonNext, TakenNext, SharedNext, MeetNext DEF TakenInv
<1>3. Inv => Meet
  BY MeetFollows DEF CommonInv
<1> QED
  BY <1>1, <1>2, <1>3, PTL DEF Spec
=============================================================================
