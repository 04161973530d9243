--------------------------- MODULE MCRepoBackend ---------------------------
(***************************************************************************)
(* Instances of RepoBackend for TLC.  Feeds named d... are root actors, so *)
(* they are also documents.                                                *)
(***************************************************************************)
EXTENDS RepoBackend, TLC

CONSTANTS f1, f2, d1, d2, none

NoMerges == {}

\* A document d1 of ours and a document d2 of a peer.
OneFresh   == {d1, f1}
TwoRemotes == {d2}
TwoDocs    == {d1, d2}
TwoWriters == [a \in {d2} |-> d2]
TwoLength  == [a \in {d2} |-> 2]
TwoCursor  == [d \in {d1, d2} |-> [a \in {d} \cap {d2} |-> Infinity]]
OursIntoTheirs == {<<d2, d1>>}

\* A document d1 of a peer, and actors of ours to write it.
TheirLocals  == {f1}
MoreLocals   == {f1, f2}
TheirRemotes == {d1}
TheirDocs    == {d1}
TheirWriters == [a \in {d1} |-> d1]
TheirLength  == [a \in {d1} |-> 2]
TheirCursor  == [d \in {d1} |-> [a \in {d1} |-> Infinity]]
=============================================================================
