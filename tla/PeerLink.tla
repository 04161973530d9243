------------------------------ MODULE PeerLink ------------------------------
(***************************************************************************)
(* What two NetworkPeers promise about their duplicate connections: one of *)
(* them, the authority, uses a connection until it is dead before it takes *)
(* another, and the other one never takes a connection that is live at the *)
(* authority and is not the authority's.  No connection is taken twice.    *)
(* Nothing here says how the choice is announced.                          *)
(***************************************************************************)
CONSTANTS
  Conns,        \* connections
  None,         \* no connection
  LateDelivery  \* whether what was sent before close() may still arrive

Authority == "authority"
Other     == "other"
Sides     == {Authority, Other}
Peer(s)   == IF s = Authority THEN Other ELSE Authority

VARIABLES
  ends,    \* each end of each connection: "none" yet, "idle" and may be taken
           \* into use, "used" once it was or cannot be, and "gone"
  using    \* the connection each side uses

vars == <<ends, using>>

Init ==
  /\ ends = [s \in Sides |-> [c \in Conns |-> "none"]]
  /\ using = [s \in Sides |-> None]

IsLive(s, c) == ends[s][c] \in {"idle", "used"}

\* Side s uses a connection that is live at its end.
IsBusy(s) == using[s] # None /\ IsLive(s, using[s])

\* An end of a connection opens; if the other end is gone already, it may be
\* of no use.
Open(s, c) ==
  /\ ends[s][c] = "none"
  /\ \/ ends' = [ends EXCEPT ![s][c] = "idle"]
     \/ ends[Peer(s)][c] = "gone" /\ ends' = [ends EXCEPT ![s][c] = "used"]
  /\ UNCHANGED using

\* The authority has no live connection and takes one.
Choose(c) ==
  /\ ~IsBusy(Authority)
  /\ ends[Authority][c] = "idle" /\ ends[Other][c] # "none"
  /\ ends' = [ends EXCEPT ![Authority][c] = "used"]
  /\ using' = [using EXCEPT ![Authority] = c]

\* The other side takes the connection the authority uses; or one that has
\* died there, if the news of it was late.
Follow(c) ==
  /\ ends[Other][c] = "idle"
  /\ c = using[Authority] \/ (LateDelivery /\ ends[Authority][c] = "gone")
  /\ ends' = [ends EXCEPT ![Other][c] = "used"]
  /\ using' = [using EXCEPT ![Other] = c]

\* The ends that s has of the connections in D die.  In "lost", the other
\* side will not learn any more that it may use them.
Dead(s, D, lost) ==
  [ends EXCEPT ![s] = [c \in Conns |-> IF c \in D THEN "gone" ELSE @[c]],
               ![Peer(s)] = [c \in Conns |-> IF c \in lost THEN "used" ELSE @[c]]]

\* If the connection in use is dead, a side may drop it, and the authority may
\* take another one at once.
Down(s, D) ==
  /\ \A c \in D : ends[s][c] # "none"
  /\ \E lost \in SUBSET {c \in D : ends[Peer(s)][c] = "idle"} :
       \/ UNCHANGED using /\ ends' = Dead(s, D, lost)
       \/ /\ ~IsBusy(s) \/ using[s] \in D
          /\ using' = [using EXCEPT ![s] = None]
          /\ ends' = Dead(s, D, lost)
       \/ /\ s = Authority
          /\ ~IsBusy(s) \/ using[s] \in D
          /\ \E c \in Conns \ D :
               /\ ends[s][c] = "idle" /\ ends[Other][c] # "none"
               /\ using' = [using EXCEPT ![s] = c]
               /\ ends' = [Dead(s, D, lost) EXCEPT ![s][c] = "used"]

Next ==
  \/ \E s \in Sides, c \in Conns : Open(s, c)
  \/ \E c \in Conns : Choose(c) \/ Follow(c)
  \/ \E s \in Sides, D \in SUBSET Conns : Down(s, D)

Spec == Init /\ [][Next]_vars
=============================================================================
