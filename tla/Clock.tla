------------------------------- MODULE Clock -------------------------------
(***************************************************************************)
(* Clock.ts: vector clocks.  A clock maps the ids of some actors to a      *)
(* sequence number; an actor it does not mention counts as 0.  A clock is  *)
(* a function whose domain is the set of keys of the JavaScript object, so *)
(* an explicit zero entry and an absent one stay different, as they are in *)
(* the code.  A cursor (CursorStore.ts) is a clock too, whose entries may  *)
(* be the number that stands for Infinity.                                 *)
(***************************************************************************)
EXTENDS Naturals

\* The clocks over a set of actors A with entries in S.
ClocksOver(A, S) == UNION {[D -> S] : D \in SUBSET A}

\* {}
EmptyClock == [a \in {} |-> 0]

\* { [a]: n }
Entry(a, n) == [x \in {a} |-> n]

\* clock[a] || 0
At(c, a) == IF a \in DOMAIN c THEN c[a] ELSE 0

-----------------------------------------------------------------------------
(* Comparison *)

\* gte: every entry of either clock is at least as large in c1 as in c2.
Gte(c1, c2) ==
  /\ \A a \in DOMAIN c1 : c1[a] >= At(c2, a)
  /\ \A a \in DOMAIN c2 : At(c1, a) >= c2[a]

\* cmp
Cmp(c1, c2) ==
  CASE Gte(c1, c2) /\ Gte(c2, c1)   -> "EQ"
    [] Gte(c1, c2) /\ ~Gte(c2, c1)  -> "GT"
    [] ~Gte(c1, c2) /\ Gte(c2, c1)  -> "LT"
    [] OTHER                        -> "CONCUR"

\* equal: an absent entry equals an explicit zero.
Equal(c1, c2) == Cmp(c1, c2) = "EQ"

\* equivalent: entry by entry, where undefined differs from zero.
Equivalent(c1, c2) ==
  \A a \in DOMAIN c1 \cup DOMAIN c2 :
    /\ a \in DOMAIN c1 /\ a \in DOMAIN c2
    /\ c1[a] = c2[a]

\* isSatisfied: every id of the target is a key of the candidate, with at
\* least the target's number.  A zero entry of the target needs a key too.
IsSatisfied(target, candidate) ==
  \A a \in DOMAIN target :
    a \in DOMAIN candidate /\ candidate[a] >= target[a]

-----------------------------------------------------------------------------
(* Combination *)

Larger(m, n) == IF m >= n THEN m ELSE n
Smaller(m, n) == IF m <= n THEN m ELSE n

\* union, addTo: the pointwise maximum.
Union(c1, c2) ==
  [a \in DOMAIN c1 \cup DOMAIN c2 |-> Larger(At(c1, a), At(c2, a))]

\* intersection: the pointwise minimum, without its zeros.
Intersection(c1, c2) ==
  [a \in {x \in DOMAIN c1 \cup DOMAIN c2 : Smaller(At(c1, x), At(c2, x)) > 0}
     |-> Smaller(At(c1, a), At(c2, a))]

=============================================================================
