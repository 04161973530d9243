--------------------------- MODULE MCReplication ---------------------------
(* Instances of Replication for TLC. *)
EXTENDS Replication, TLC

CONSTANTS c1, c2, d, b, none

TwoConns == {c1, c2}

\* One document of the authority, to which the other side may add an actor.
OneDoc == {d}
TwoFeeds == {d, b}
Writers == (d :> Authority) @@ (b :> Other)

\* The authority has the document on disk, and the other side has nothing.
AuthorityHasIt ==
  {[feeds |-> (Authority :> {d}) @@ (Other :> {}),
    cursors |-> (Authority :> (d :> {d})) @@ (Other :> (d :> {}))]}

\* ... or nobody has it yet.
AuthorityMayHaveIt ==
  AuthorityHasIt \cup
    {[feeds |-> [s \in Sides |-> {}], cursors |-> [s \in Sides |-> (d :> {})]]}

ConnsAreAlike == Permutations(TwoConns)
=============================================================================
