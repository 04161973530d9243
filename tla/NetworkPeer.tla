---------------------------- MODULE NetworkPeer ----------------------------
(***************************************************************************)
(* NetworkPeer.ts, with Network.onConnection and PeerConnection.ts: two    *)
(* peers who may be connected to each other several times, since each of   *)
(* them looks the other up in every swarm.  They must agree on one of the  *)
(* connections.  The peer with the larger id has authority: it picks one   *)
(* and sends ConfirmConnection over it; the other one waits for that.      *)
(*                                                                         *)
(* Each connection delivers in order, but nothing orders the messages of   *)
(* two connections.  An end that is closed is noticed at the other end by  *)
(* the end of its socket, which makes it unwritable but calls nothing; its *)
(* PeerConnection is closed when its heartbeat times out.                  *)
(***************************************************************************)
EXTENDS Sequences, FiniteSets, SequencesExt

CONSTANTS
  Conns,        \* connections
  None,         \* no connection
  LateDelivery  \* whether what was sent before close() may still arrive: the
                \* cases to consider

ASSUME ConstantsAssumption == None \notin Conns /\ LateDelivery \subseteq BOOLEAN

\* The peer for which weHaveAuthority holds, and the other.
Authority == "authority"
Other     == "other"
Sides     == {Authority, Other}
Peer(s)   == IF s = Authority THEN Other ELSE Authority

VARIABLES
  socket,      \* rawSocket of each end: an ended socket is not writable
  wire,        \* messages on the way to each end of each connection
  pending,     \* pendingConnections, in the order they were added
  connection,  \* connection
  isClosing,   \* isClosing
  known,       \* the sides whose Network has a NetworkPeer for the other one
  left,        \* the sides whose Network has left its swarms
  late         \* the case of LateDelivery

vars == <<socket, wire, pending, connection, isClosing, known, left, late>>

Init ==
  /\ socket     = [s \in Sides |-> [c \in Conns |-> "none"]]
  /\ wire       = [s \in Sides |-> [c \in Conns |-> <<>>]]
  /\ pending    = [s \in Sides |-> <<>>]
  /\ connection = [s \in Sides |-> None]
  /\ isClosing  = [s \in Sides |-> FALSE]
  /\ known      = {}
  /\ left       = {}
  /\ late       \in LateDelivery

-----------------------------------------------------------------------------
IsOpen(s, c)   == socket[s][c] = "open"
IsConnected(s) == connection[s] # None /\ IsOpen(s, connection[s])

\* addConnection confirms.
\* Mutant: a duplicate of a connection that works is confirmed too.
BugMayConfirm(s) == s = Authority

MayConfirm(s) == s = Authority /\ ~IsConnected(s)

\* The connections that s can still find.
IsHeld(s, c) == connection[s] = c \/ Contains(pending[s], c)

\* pendingConnections is a Set: it has each connection once, in the order in
\* which they were added.
Added(conns, c) == IF Contains(conns, c) THEN conns ELSE Append(conns, c)

\* Messages to an end that is gone go nowhere.
\* Mutant: what is sent is not a message.
BugSent(w, s, c, msg) == [w EXCEPT ![Peer(s)][c] = Append(@, c)]

Sent(w, s, c, msg) ==
  IF socket[Peer(s)][c] \in {"ended", "closed"} THEN w
  ELSE [w EXCEPT ![Peer(s)][c] = Append(@, msg)]

\* Closing the ends that s has of the connections in C.
Closed(s, C) ==
  [socket EXCEPT ![s] = [c \in Conns |-> IF c \in C THEN "closed" ELSE @[c]]]

Drained(w, s, C) ==
  [t \in Sides |-> [c \in Conns |->
     IF c \in C /\ (t = s \/ ~late) THEN <<>> ELSE w[t][c]]]

\* confirmConnection, for a peer that has "conns" pending.
\* Mutant: the duplicates are forgotten.
BugConfirm(s, c, conns, w) ==
  /\ wire' = IF s = Authority THEN Sent(w, s, c, "ConfirmConnection") ELSE w
  /\ connection' = [connection EXCEPT ![s] = c]
  /\ pending' = [pending EXCEPT ![s] = <<>>]

Confirm(s, c, conns, w) ==
  /\ wire' = IF s = Authority THEN Sent(w, s, c, "ConfirmConnection") ELSE w
  /\ connection' = [connection EXCEPT ![s] = c]
  /\ pending' = [pending EXCEPT ![s] = RemoveFirst(conns, c)]

\* The place of the first connection that is open, or 0.
FirstOpen(s, conns) == SelectInSeq(conns, LAMBDA x : IsOpen(s, x))

\* pickNewConnection: the first pending connection that is open, if any.
\* Mutant: the first one, if it is open.
BugPickNewConnection(s, conns, w) ==
  IF s = Authority /\ ~isClosing[s] /\ conns # <<>> /\ IsOpen(s, Head(conns))
  THEN Confirm(s, Head(conns), conns, w)
  ELSE /\ connection' = [connection EXCEPT ![s] = None]
       /\ pending' = [pending EXCEPT ![s] = conns]
       /\ wire' = w

PickNewConnection(s, conns, w) ==
  LET first == FirstOpen(s, conns)
  IN IF s = Authority /\ ~isClosing[s] /\ first # 0
     THEN Confirm(s, conns[first], conns, w)
     ELSE /\ connection' = [connection EXCEPT ![s] = None]
          /\ pending' = [pending EXCEPT ![s] = conns]
          /\ wire' = w

-----------------------------------------------------------------------------
\* Network.onConnection: the swarm has a socket for us; introduce ourselves.
OnConnection(s, c) ==
  /\ socket[s][c] = "none"
  /\ s \notin left
  /\ socket' = [socket EXCEPT ![s][c] = "open"]
  /\ wire' = Sent(wire, s, c, "Info")
  /\ UNCHANGED <<pending, connection, isClosing, known, left, late>>

\* addConnection, when the peer's Info arrives.
AddConnection(s, c) ==
  LET w == [wire EXCEPT ![s][c] = Tail(@)]
  IN /\ IsOpen(s, c)
     /\ wire[s][c] # <<>> /\ Head(wire[s][c]) = "Info"
     /\ known' = known \cup {s}
     /\ \/ /\ isClosing[s]
           /\ socket' = Closed(s, {c})
           /\ wire' = Drained(w, s, {c})
           /\ UNCHANGED <<pending, connection>>
        \/ /\ ~isClosing[s]
           /\ ~MayConfirm(s)
           /\ pending' = [pending EXCEPT ![s] = Added(@, c)]
           /\ wire' = w
           /\ UNCHANGED <<socket, connection>>
        \/ /\ ~isClosing[s]
           /\ MayConfirm(s)
           /\ Confirm(s, c, pending[s], w)
           /\ UNCHANGED socket
     /\ UNCHANGED <<isClosing, left, late>>

\* onMsg
\* Mutant: a peer that is connected ignores the message.
BugOnConfirmConnection(s, c) ==
  /\ IsOpen(s, c)
  /\ wire[s][c] # <<>> /\ Head(wire[s][c]) = "ConfirmConnection"
  /\ IF IsConnected(s)
     THEN /\ wire' = [wire EXCEPT ![s][c] = Tail(@)]
          /\ UNCHANGED <<pending, connection>>
     ELSE Confirm(s, c, pending[s], [wire EXCEPT ![s][c] = Tail(@)])
  /\ UNCHANGED <<socket, isClosing, known, left, late>>

OnConfirmConnection(s, c) ==
  /\ IsOpen(s, c)
  /\ wire[s][c] # <<>> /\ Head(wire[s][c]) = "ConfirmConnection"
  /\ Confirm(s, c, pending[s], [wire EXCEPT ![s][c] = Tail(@)])
  /\ UNCHANGED <<socket, isClosing, known, left, late>>

\* The socket ends because the other end was closed.  No handler runs, and
\* what was still on its way may be lost.
SocketEnd(s, c) ==
  /\ IsOpen(s, c)
  /\ socket[Peer(s)][c] \in {"ended", "closed"}
  /\ socket' = [socket EXCEPT ![s][c] = "ended"]
  /\ wire' = [wire EXCEPT ![s][c] = <<>>]
  /\ UNCHANGED <<pending, connection, isClosing, known, left, late>>

\* PeerConnection.close, by the user or because no heartbeat came in time.
\* onConnectionClosed picks another connection if this was the one in use.
CloseConnection(s, c) ==
  LET conns == RemoveFirst(pending[s], c)
  IN /\ socket[s][c] \in {"open", "ended"}
     /\ socket' = Closed(s, {c})
     /\ IF connection[s] = c
        THEN PickNewConnection(s, conns, Drained(wire, s, {c}))
        ELSE /\ pending' = [pending EXCEPT ![s] = conns]
             /\ wire' = Drained(wire, s, {c})
             /\ UNCHANGED connection
     /\ UNCHANGED <<isClosing, known, left, late>>

\* Network.close: close the connection in use and the pending ones, without
\* picking another, and leave the swarms.
\* Mutant: isClosing is set after the connection in use was closed.
BugClose(s) ==
  /\ s \in known \ left
  /\ left' = left \cup {s}
  /\ isClosing' = [isClosing EXCEPT ![s] = TRUE]
  /\ socket' = Closed(s, {connection[s]})
  /\ PickNewConnection(s, pending[s], wire)
  /\ UNCHANGED <<known, late>>

Close(s) ==
  LET C == IF s \in known THEN {c \in Conns : IsHeld(s, c)} ELSE {}
  IN /\ s \notin left
     /\ left' = left \cup {s}
     /\ isClosing' = [isClosing EXCEPT ![s] = s \in known]
     /\ socket' = Closed(s, C)
     /\ wire' = Drained(wire, s, C)
     /\ connection' = [connection EXCEPT ![s] = None]
     /\ pending' = [pending EXCEPT ![s] = <<>>]
     /\ UNCHANGED <<known, late>>

Next ==
  \/ \E s \in Sides, c \in Conns :
       \/ OnConnection(s, c)
       \/ AddConnection(s, c)
       \/ OnConfirmConnection(s, c)
       \/ SocketEnd(s, c)
       \/ CloseConnection(s, c)
  \/ \E s \in Sides : Close(s)

Spec == Init /\ [][Next]_vars

\* A heartbeat that nothing answers any more times out.
HeartbeatTimeout(s, c) == socket[s][c] = "ended" /\ CloseConnection(s, c)

\* Messages and the ends of sockets arrive, and heartbeats time out.  Nobody
\* has to connect, to close a connection that works, or to leave.
Fairness ==
  \A s \in Sides, c \in Conns :
    /\ WF_vars(AddConnection(s, c))
    /\ WF_vars(OnConfirmConnection(s, c))
    /\ WF_vars(SocketEnd(s, c))
    /\ WF_vars(HeartbeatTimeout(s, c))

FairSpec == Spec /\ Fairness

-----------------------------------------------------------------------------
(* Properties *)

\* The type invariant.
TypeOK ==
  /\ socket \in [Sides -> [Conns -> {"none", "open", "ended", "closed"}]]
  /\ wire \in [Sides -> [Conns -> Seq({"Info", "ConfirmConnection"})]]
  /\ pending \in [Sides -> Seq(Conns)]
  /\ connection \in [Sides -> Conns \cup {None}]
  /\ isClosing \in [Sides -> BOOLEAN]
  /\ known \subseteq Sides
  /\ left \subseteq Sides
  /\ late \in LateDelivery

\* Connection c is open at s and may still be taken into use there: its Info
\* is on the way, or it is pending.
MayBeTaken(s, c) ==
  \/ socket[Peer(s)][c] = "none"
  \/ Contains(wire[s][c], "Info")
  \/ Contains(pending[s], c)

\* The ends of the connections as PeerLink sees them.
End(s, c) ==
  CASE socket[s][c] = "none" -> "none"
    [] socket[s][c] \in {"ended", "closed"} -> "gone"
    [] IsOpen(s, c) -> IF MayBeTaken(s, c) THEN "idle" ELSE "used"

Ends == [s \in Sides |-> [c \in Conns |-> End(s, c)]]

\* The pair keeps the promise of PeerLink: the authority never gives up a
\* connection that works for a duplicate, and the other peer never takes a
\* connection that the authority has open and does not use.
Link == INSTANCE PeerLink WITH
  ends  <- Ends,
  using <- connection,
  LateDelivery <- TRUE \in LateDelivery
LinkSpec == Link!Spec

\* While it has no connection, the authority has no open one in store.
\* (addConnection, pickNewConnection)
AuthorityNeverIdles ==
  connection[Authority] = None =>
    \A i \in DOMAIN pending[Authority] : ~IsOpen(Authority, pending[Authority][i])

\* A peer that is closing holds no connection, whatever was on its way when
\* it was closed, and takes no other one.
ClosingHoldsNothing ==
  \A s \in Sides : isClosing[s] => connection[s] = None /\ pending[s] = <<>>

\* Where nothing outlives close(), a connection that works and was added to a
\* peer is in use there or kept pending: it can be picked, and close() will
\* find it.
HeldOnTime ==
  \A s \in Sides, c \in Conns :
    (/\ ~late
     /\ \A t \in Sides : IsOpen(t, c)
     /\ ~Contains(wire[s][c], "Info"))
    => IsHeld(s, c)

\* A connection that may be used is found when one is needed.
NothingOrphaned == AuthorityNeverIdles /\ HeldOnTime

\* A connection that works, between peers that do not shut down.
Usable(c) == left = {} /\ \A s \in Sides : IsOpen(s, c)

\* Both peers use the same connection, and it works.
InUse(c) == \A s \in Sides : connection[s] = c /\ IsOpen(s, c)

\* The peers agree on a connection that works.
Agree == \E c \in Conns : InUse(c)

\* Peers with a connection that keeps working come to use the same one, after
\* any sequence of duplicates, closed connections and timeouts: none works for
\* ever while they do not agree.
Reconnects == \A c \in Conns : []<>(Agree \/ ~Usable(c))

\* ... which holds where nothing outlives close().
ReconnectsOnTime == \A c \in Conns : []<>(Agree \/ late \/ ~Usable(c))

=============================================================================
