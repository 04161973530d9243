---------------------------- MODULE ClockProofs ----------------------------
(***************************************************************************)
(* The laws of Clock that the stores and the documents rely on: gte orders *)
(* clocks, union is their least upper bound, and the tests that the code   *)
(* uses for "the same" and "satisfied" agree with that order.              *)
(***************************************************************************)
EXTENDS Clock, TLAPS

\* A clock: natural numbers for some actors.
IsClock(c) == c \in [DOMAIN c -> Nat]

LEMMA ClocksOverAreClocks ==
  ASSUME NEW A, NEW S \in SUBSET Nat, NEW c \in ClocksOver(A, S)
  PROVE  IsClock(c) /\ DOMAIN c \subseteq A /\ \A a \in DOMAIN c : c[a] \in S
<1>1. PICK D \in SUBSET A : c \in [D -> S]
  BY DEF ClocksOver
<1>2. DOMAIN c = D /\ \A a \in D : c[a] \in Nat
  BY <1>1
<1> QED
  BY <1>1, <1>2 DEF IsClock

\* gte is reflexive (Clock.gte).
THEOREM GteReflexive ==
  ASSUME NEW c, IsClock(c)
  PROVE  Gte(c, c)
BY DEF Gte, At, IsClock

\* gte is transitive (Clock.gte).
THEOREM GteTransitive ==
  ASSUME NEW c1, NEW c2, NEW c3, IsClock(c1), IsClock(c2), IsClock(c3),
         Gte(c1, c2), Gte(c2, c3)
  PROVE  Gte(c1, c3)
<1>1. \A a : At(c1, a) \in Nat /\ At(c2, a) \in Nat /\ At(c3, a) \in Nat
  BY DEF At, IsClock
<1>2. \A a : At(c1, a) >= At(c2, a) /\ At(c2, a) >= At(c3, a)
  BY <1>1 DEF Gte, At, IsClock
<1>3. \A a : At(c1, a) >= At(c3, a)
  BY <1>1, <1>2
<1> QED
  BY <1>3 DEF Gte, At

LEMMA AtUnion ==
  ASSUME NEW c1, NEW c2, NEW a, IsClock(c1), IsClock(c2)
  PROVE  At(Union(c1, c2), a) = IF At(c1, a) >= At(c2, a) THEN At(c1, a) ELSE At(c2, a)
BY DEF At, Union, Larger, IsClock

LEMMA UnionIsClock ==
  ASSUME NEW c1, NEW c2, IsClock(c1), IsClock(c2)
  PROVE  /\ IsClock(Union(c1, c2))
         /\ DOMAIN Union(c1, c2) = DOMAIN c1 \cup DOMAIN c2
BY DEF At, Union, Larger, IsClock

\* Entries of a union are entries of its arguments, so a union is a clock
\* over the same actors and numbers.
LEMMA UnionInClocksOver ==
  ASSUME NEW A, NEW S \in SUBSET Nat, NEW c1 \in ClocksOver(A, S), NEW c2 \in ClocksOver(A, S)
  PROVE  Union(c1, c2) \in ClocksOver(A, S)
<1>1. /\ DOMAIN c1 \subseteq A /\ \A a \in DOMAIN c1 : c1[a] \in S
      /\ DOMAIN c2 \subseteq A /\ \A a \in DOMAIN c2 : c2[a] \in S
  BY ClocksOverAreClocks
<1>2. ASSUME NEW a \in DOMAIN c1 \cup DOMAIN c2
      PROVE  Larger(At(c1, a), At(c2, a)) \in S
  <2>1. CASE a \in DOMAIN c1 /\ a \in DOMAIN c2
    BY <1>1, <2>1 DEF Larger, At
  <2>2. CASE a \in DOMAIN c1 /\ a \notin DOMAIN c2
    <3>1. At(c1, a) \in S /\ At(c1, a) \in Nat /\ At(c2, a) = 0
      BY <1>1, <2>2 DEF At
    <3> QED
      BY <3>1 DEF Larger
  <2>3. CASE a \notin DOMAIN c1 /\ a \in DOMAIN c2
    <3>1. At(c2, a) \in S /\ At(c2, a) \in Nat /\ At(c1, a) = 0
      BY <1>1, <2>3 DEF At
    <3> QED
      BY <3>1 DEF Larger
  <2> QED
    BY <1>2, <2>1, <2>2, <2>3
<1>3. Union(c1, c2) \in [DOMAIN c1 \cup DOMAIN c2 -> S]
  BY <1>2 DEF Union
<1> QED
  BY <1>1, <1>3 DEF ClocksOver

\* union is an upper bound of both clocks (Clock.union): what a cursor or a
\* peer's clock had is still there after an update.
THEOREM UnionIsUpperBound ==
  ASSUME NEW c1, NEW c2, IsClock(c1), IsClock(c2)
  PROVE  Gte(Union(c1, c2), c1) /\ Gte(Union(c1, c2), c2)
<1>1. \A a : At(c1, a) \in Nat /\ At(c2, a) \in Nat
  BY DEF At, IsClock
<1>2. \A a : At(Union(c1, c2), a) >= At(c1, a) /\ At(Union(c1, c2), a) >= At(c2, a)
  BY <1>1, AtUnion
<1> QED
  BY <1>2 DEF Gte, At

\* ... and the least one.
THEOREM UnionIsLeast ==
  ASSUME NEW c1, NEW c2, NEW c, IsClock(c1), IsClock(c2), IsClock(c),
         Gte(c, c1), Gte(c, c2)
  PROVE  Gte(c, Union(c1, c2))
<1>1. \A a : At(c1, a) \in Nat /\ At(c2, a) \in Nat /\ At(c, a) \in Nat
  BY DEF At, IsClock
<1>2. \A a : At(c, a) >= At(c1, a) /\ At(c, a) >= At(c2, a)
  BY <1>1 DEF Gte, At, IsClock
<1>3. \A a : At(c, a) >= At(Union(c1, c2), a)
  BY <1>2, AtUnion
<1> QED
  BY <1>3 DEF Gte, At

\* The order in which cursors and clocks arrive does not matter.
THEOREM UnionCommutative ==
  ASSUME NEW c1, NEW c2, IsClock(c1), IsClock(c2)
  PROVE  Union(c1, c2) = Union(c2, c1)
<1>1. \A a : At(c1, a) \in Nat /\ At(c2, a) \in Nat
  BY DEF At, IsClock
<1>2. \A a : Larger(At(c1, a), At(c2, a)) = Larger(At(c2, a), At(c1, a))
  BY <1>1 DEF Larger
<1> QED
  BY <1>2 DEF Union

THEOREM UnionAssociative ==
  ASSUME NEW c1, NEW c2, NEW c3, IsClock(c1), IsClock(c2), IsClock(c3)
  PROVE  Union(Union(c1, c2), c3) = Union(c1, Union(c2, c3))
<1>1. \A a : At(c1, a) \in Nat /\ At(c2, a) \in Nat /\ At(c3, a) \in Nat
  BY DEF At, IsClock
<1>2. \A a : Larger(At(Union(c1, c2), a), At(c3, a)) = Larger(At(c1, a), At(Union(c2, c3), a))
  BY <1>1, AtUnion DEF Larger
<1>3. /\ DOMAIN Union(c1, c2) = DOMAIN c1 \cup DOMAIN c2
      /\ DOMAIN Union(c2, c3) = DOMAIN c2 \cup DOMAIN c3
  BY DEF Union
<1>4. Union(Union(c1, c2), c3) =
        [a \in DOMAIN c1 \cup DOMAIN c2 \cup DOMAIN c3 |-> Larger(At(Union(c1, c2), a), At(c3, a))]
  BY <1>3 DEF Union
<1>5. Union(c1, Union(c2, c3)) =
        [a \in DOMAIN c1 \cup DOMAIN c2 \cup DOMAIN c3 |-> Larger(At(c1, a), At(Union(c2, c3), a))]
  BY <1>3 DEF Union
<1> QED
  BY <1>2, <1>4, <1>5

\* A message that is delivered twice changes nothing.
THEOREM UnionIdempotent ==
  ASSUME NEW c, IsClock(c)
  PROVE  Union(c, c) = c
BY DEF Union, At, Larger, IsClock

\* isSatisfied implies gte, so a document that satisfies its minimum clock
\* has every change the clock names (Clock.isSatisfied).
THEOREM SatisfiedIsGte ==
  ASSUME NEW target, NEW candidate, IsClock(target), IsClock(candidate),
         IsSatisfied(target, candidate)
  PROVE  Gte(candidate, target)
BY DEF IsSatisfied, Gte, At, IsClock

\* A document that satisfies a clock keeps satisfying it as it grows.
THEOREM SatisfiedIsStable ==
  ASSUME NEW target, NEW candidate, NEW c, IsClock(target), IsClock(candidate), IsClock(c),
         IsSatisfied(target, candidate)
  PROVE  IsSatisfied(target, Union(candidate, c))
<1>1. DOMAIN Union(candidate, c) = DOMAIN candidate \cup DOMAIN c
  BY UnionIsClock
<1>2. \A a : At(candidate, a) \in Nat /\ At(c, a) \in Nat
  BY DEF At, IsClock
<1>3. \A a \in DOMAIN target : target[a] \in Nat
  BY DEF IsClock
<1> QED
  BY <1>1, <1>2, <1>3, AtUnion DEF IsSatisfied, At

\* equal is antisymmetry up to absent entries: clocks that are each gte the
\* other have the same number for every actor (Clock.equal).
THEOREM EqualIsPointwise ==
  ASSUME NEW c1, NEW c2, IsClock(c1), IsClock(c2)
  PROVE  Equal(c1, c2) <=> \A a \in DOMAIN c1 \cup DOMAIN c2 : At(c1, a) = At(c2, a)
<1>1. \A a : At(c1, a) \in Nat /\ At(c2, a) \in Nat
  BY DEF At, IsClock
<1>2. Equal(c1, c2) <=> Gte(c1, c2) /\ Gte(c2, c1)
  BY DEF Equal, Cmp
<1>3. Gte(c1, c2) /\ Gte(c2, c1)
        <=> \A a \in DOMAIN c1 \cup DOMAIN c2 : At(c1, a) = At(c2, a)
  BY <1>1 DEF Gte, At, IsClock
<1> QED
  BY <1>2, <1>3

\* equivalent is the finer test: it implies equal (Clock.equivalent).
THEOREM EquivalentIsEqual ==
  ASSUME NEW c1, NEW c2, IsClock(c1), IsClock(c2), Equivalent(c1, c2)
  PROVE  Equal(c1, c2) /\ c1 = c2
<1>1. DOMAIN c1 = DOMAIN c2 /\ \A a \in DOMAIN c1 : c1[a] = c2[a]
  BY DEF Equivalent
<1>2. c1 = c2
  BY <1>1 DEF IsClock
<1>3. Equal(c1, c2)
  BY <1>1, EqualIsPointwise DEF At
<1> QED
  BY <1>2, <1>3

\* The intersection of two clocks is below both (Clock.intersection).
THEOREM IntersectionIsLowerBound ==
  ASSUME NEW c1, NEW c2, IsClock(c1), IsClock(c2)
  PROVE  Gte(c1, Intersection(c1, c2)) /\ Gte(c2, Intersection(c1, c2))
<1>1. \A a : At(c1, a) \in Nat /\ At(c2, a) \in Nat
  BY DEF At, IsClock
<1>2. \A a : At(Intersection(c1, c2), a) = Smaller(At(c1, a), At(c2, a))
  BY <1>1 DEF Intersection, At, Smaller, IsClock
<1>3. \A a : /\ At(c1, a) >= At(Intersection(c1, c2), a)
             /\ At(c2, a) >= At(Intersection(c1, c2), a)
  BY <1>1, <1>2 DEF Smaller
<1> QED
  BY <1>3 DEF Gte, At
=============================================================================
