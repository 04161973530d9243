-------------------------- MODULE DocSessionProofs --------------------------
(***************************************************************************)
(* Theorems about DocSession, for any number of changes, of other authors' *)
(* changes and of calls of destroy: its types, that both ends agree on the *)
(* actor that writes, that the feed holds the user's changes in order, that*)
(* none of her changes is lost or made twice, and that a document which    *)
(* nothing disturbs comes to show what the backend has.                    *)
(***************************************************************************)
EXTENDS DocSession, Integers, FiniteSetTheorems, SequenceTheorems, WellFoundedInduction, TLAPS

-----------------------------------------------------------------------------
(* Queues *)

LEMMA TailOf ==
  ASSUME NEW S, NEW q \in Seq(S), q # <<>>
  PROVE  /\ Len(q) \in Nat \ {0} /\ DOMAIN q = 1..Len(q)
         /\ Head(q) = q[1] /\ q[1] \in S /\ 1 \in DOMAIN q
         /\ Tail(q) \in Seq(S) /\ Len(Tail(q)) = Len(q) - 1
         /\ \A i \in DOMAIN Tail(q) : i \in Nat /\ i + 1 \in DOMAIN q /\ Tail(q)[i] = q[i + 1]
         /\ \A i \in DOMAIN q : i # 1 => i - 1 \in DOMAIN Tail(q) /\ Tail(q)[i - 1] = q[i]
<1>1. Len(q) \in Nat \ {0} /\ DOMAIN q = 1..Len(q) /\ q \in [1..Len(q) -> S]
  BY LenProperties, EmptySeq
<1>2. /\ Tail(q) \in Seq(S) /\ Len(Tail(q)) = Len(q) - 1
      /\ \A i \in 1..Len(Tail(q)) : Tail(q)[i] = q[i + 1]
  BY HeadTailProperties
<1>3. DOMAIN Tail(q) = 1..(Len(q) - 1)
  BY <1>2, LenProperties
<1>4. Head(q) = q[1]
  OBVIOUS
<1> QED
  BY <1>1, <1>2, <1>3, <1>4

LEMMA ConcatOf ==
  ASSUME NEW S, NEW q \in Seq(S), NEW r \in Seq(S)
  PROVE  /\ q \o r \in Seq(S) /\ Len(q \o r) = Len(q) + Len(r)
         /\ Len(q) \in Nat /\ DOMAIN q = 1..Len(q) /\ Len(r) \in Nat /\ DOMAIN r = 1..Len(r)
         /\ DOMAIN (q \o r) = 1..(Len(q) + Len(r))
         /\ \A i \in DOMAIN q : i \in DOMAIN (q \o r) /\ (q \o r)[i] = q[i]
         /\ \A j \in DOMAIN r : Len(q) + j \in DOMAIN (q \o r) /\ (q \o r)[Len(q) + j] = r[j]
         /\ \A i \in DOMAIN (q \o r) : i \in DOMAIN q \/ i - Len(q) \in DOMAIN r
<1>1. /\ Len(q) \in Nat /\ DOMAIN q = 1..Len(q) /\ Len(r) \in Nat /\ DOMAIN r = 1..Len(r)
  BY LenProperties
<1>2. /\ q \o r \in Seq(S) /\ Len(q \o r) = Len(q) + Len(r)
      /\ \A i \in 1..Len(q) + Len(r) : (q \o r)[i] = IF i <= Len(q) THEN q[i] ELSE r[i - Len(q)]
  BY ConcatProperties
<1>3. DOMAIN (q \o r) = 1..(Len(q) + Len(r))
  BY <1>2, LenProperties
<1> QED
  BY <1>1, <1>2, <1>3

\* How many messages of a type a queue has.
Places(q, type) == {i \in DOMAIN q : q[i].type = type}
Count(q, type) == Cardinality(Places(q, type))

LEMMA CountType ==
  ASSUME NEW S, NEW q \in Seq(S), NEW type
  PROVE  Count(q, type) \in Nat /\ IsFiniteSet(Places(q, type))
<1>1. Len(q) \in Nat /\ DOMAIN q = 1..Len(q)
  BY LenProperties
<1>2. IsFiniteSet(1..Len(q))
  BY <1>1, FS_Interval
<1>3. Places(q, type) \in SUBSET (1..Len(q))
  BY <1>1 DEF Places
<1>4. IsFiniteSet(Places(q, type))
  BY <1>2, <1>3, FS_Subset
<1> QED
  BY <1>4, FS_CardinalityType DEF Count

LEMMA CountTail ==
  ASSUME NEW S, NEW q \in Seq(S), q # <<>>, NEW type
  PROVE  Count(Tail(q), type) = Count(q, type) - (IF Head(q).type = type THEN 1 ELSE 0)
<1> DEFINE P == Places(q, type)
           T == Places(Tail(q), type)
           f == [i \in T |-> i + 1]
<1>1. IsFiniteSet(P) /\ IsFiniteSet(T) /\ Cardinality(P) \in Nat
  <2>1. Tail(q) \in Seq(S)
    BY TailOf
  <2> QED
    BY <2>1, CountType DEF Count
<1>2. f \in Bijection(T, P \ {1})
  <2>1. \A i \in T : i \in Nat /\ i + 1 \in P \ {1}
    BY TailOf DEF Places
  <2>2. f \in [T -> P \ {1}]
    BY <2>1
  <2>3. \A i, j \in T : f[i] = f[j] => i = j
    BY <2>1
  <2>4. \A j \in P \ {1} : \E i \in T : f[i] = j
    <3> TAKE j \in P \ {1}
    <3>1. j - 1 \in T /\ j = (j - 1) + 1
      BY TailOf DEF Places
    <3> QED
      BY <3>1
  <2> QED
    BY <2>2, <2>3, <2>4 DEF Bijection, Injection, IsInjective, Surjection
<1>3. Cardinality(P \ {1}) = Cardinality(T)
  BY <1>1, <1>2, FS_Bijection DEF ExistsBijection
<1>4. Cardinality(P \ {1}) = IF 1 \in P THEN Cardinality(P) - 1 ELSE Cardinality(P)
  BY <1>1, FS_RemoveElement
<1>5. 1 \in P <=> Head(q).type = type
  BY TailOf DEF Places
<1> HIDE DEF P, T
<1>6. Cardinality(T) = Cardinality(P) - (IF Head(q).type = type THEN 1 ELSE 0)
  BY <1>1, <1>3, <1>4, <1>5
<1> QED
  BY <1>6 DEF P, T, Count

\* Messages that are added are all of the type, or none.
LEMMA CountConcat ==
  ASSUME NEW S, NEW q \in Seq(S), NEW r \in Seq(S), NEW type
  PROVE  /\ (\A i \in DOMAIN r : r[i].type = type) => Count(q \o r, type) = Count(q, type) + Len(r)
         /\ (\A i \in DOMAIN r : r[i].type # type) => Count(q \o r, type) = Count(q, type)
<1> DEFINE P == Places(q, type)
           R == (Len(q) + 1)..(Len(q) + Len(r))
<1>0. /\ Len(q) \in Nat /\ Len(r) \in Nat /\ DOMAIN q = 1..Len(q) /\ DOMAIN r = 1..Len(r)
      /\ DOMAIN (q \o r) = 1..(Len(q) + Len(r))
  BY ConcatOf
<1>1. ASSUME \A i \in DOMAIN r : r[i].type # type
      PROVE  Places(q \o r, type) = P
  <2>1. \A i \in DOMAIN q : i \in DOMAIN (q \o r) /\ (q \o r)[i] = q[i]
    BY ConcatOf
  <2>2. ASSUME NEW i \in DOMAIN (q \o r), i \notin DOMAIN q
        PROVE  (q \o r)[i].type # type
    <3>1. i - Len(q) \in DOMAIN r /\ Len(q) + (i - Len(q)) = i
      BY <1>0, <2>2
    <3>2. (q \o r)[i] = r[i - Len(q)]
      BY <3>1, ConcatOf
    <3> QED
      BY <1>1, <3>1, <3>2
  <2> QED
    BY <2>1, <2>2 DEF Places
<1>2. ASSUME \A i \in DOMAIN r : r[i].type = type
      PROVE  Places(q \o r, type) = P \cup R
  <2>1. \A i \in DOMAIN q : i \in DOMAIN (q \o r) /\ (q \o r)[i] = q[i]
    BY ConcatOf
  <2>2. ASSUME NEW i \in R
        PROVE  i \in DOMAIN (q \o r) /\ (q \o r)[i].type = type
    <3>1. i - Len(q) \in DOMAIN r /\ Len(q) + (i - Len(q)) = i
      BY <1>0, <2>2
    <3>2. (q \o r)[i] = r[i - Len(q)] /\ i \in DOMAIN (q \o r)
      BY <3>1, ConcatOf
    <3> QED
      BY <1>2, <3>1, <3>2
  <2>3. \A i \in DOMAIN (q \o r) : i \in DOMAIN q \/ i \in R
    BY <1>0
  <2> QED
    BY <2>1, <2>2, <2>3 DEF Places
<1>3. IsFiniteSet(P) /\ Cardinality(P) \in Nat
  BY CountType DEF Count
<1>4. IsFiniteSet(R) /\ Cardinality(R) = Len(r)
  <2> DEFINE a == Len(q) + 1
             b == Len(q) + Len(r)
  <2>1. /\ a \in Int /\ b \in Int
        /\ (IF a > b THEN 0 ELSE b - a + 1) = Len(r)
    BY <1>0
  <2> HIDE DEF a, b
  <2>2. IsFiniteSet(a..b) /\ Cardinality(a..b) = Len(r)
    BY <2>1, FS_Interval
  <2> QED
    BY <2>2 DEF a, b
<1>5. P \cap R = {}
  BY <1>0 DEF Places
<1>6. Cardinality(P \cup R) = Cardinality(P) + Len(r)
  <2> HIDE DEF P, R
  <2>1. Cardinality(P \cup R) = Cardinality(P) + Cardinality(R) - Cardinality({})
    BY <1>3, <1>4, <1>5, FS_Union
  <2> QED
    BY <1>0, <1>3, <1>4, <2>1, FS_EmptySet
<1> QED
  BY <1>1, <1>2, <1>6 DEF Count

-----------------------------------------------------------------------------
(* Numbered changes *)

MaxSeq == MaxChanges + MaxRemote

LEMMA NumbersLemma ==
  /\ MaxSeq \in Nat \ {0} /\ MaxChanges \in Nat /\ MaxRemote \in Nat \ {0} /\ MaxDestroys \in Nat
  /\ MaxChanges < MaxSeq /\ MaxRemote <= MaxSeq
  /\ NoActor \notin Locals /\ Remote \notin Locals /\ Remote # NoActor
  BY SessionConstants DEF SessionConstants, MaxSeq

LEMMA ChangeType ==
  /\ \A c \in Change : /\ c.actor \in Locals \cup {Remote} /\ c.seq \in 1..MaxSeq
                        /\ c = [actor |-> c.actor, seq |-> c.seq]
  /\ \A a \in Locals \cup {Remote}, n \in 1..MaxSeq : [actor |-> a, seq |-> n] \in Change
  /\ NoChange \notin Change
  BY NumbersLemma DEF Change, NoChange, MaxSeq

LEMMA GreatestNat ==
  ASSUME NEW T \in SUBSET Nat, NEW n \in Nat, \A m \in T : m <= n, T # {}
  PROVE  \E m \in T : \A k \in T : k <= m
<1> DEFINE U == {m \in Nat : \A k \in T : k <= m}
<1>1. n \in U /\ U \in SUBSET Nat
  OBVIOUS
<1>2. PICK m \in U : \A k \in U : ~(<<k, m>> \in OpToRel(<, Nat))
  BY <1>1, NatLessThanWellFounded, WFMin
<1>3. \A k \in U : ~(k < m)
  BY <1>2 DEF OpToRel
<1>4. CASE m \in T
  BY <1>4
<1>5. CASE m \notin T
  <2>1. \A k \in T : k < m
    BY <1>5
  <2>2. m \in Nat \ {0}
    <3>1. PICK k \in T : TRUE
      OBVIOUS
    <3>2. m \in Nat /\ k \in Nat /\ k < m
      BY <2>1
    <3> QED
      BY <3>2
  <2>3. m - 1 \in U
    BY <2>1, <2>2
  <2> QED
    BY <1>3, <2>2, <2>3
<1> QED
  BY <1>4, <1>5

IsLatest(S, a, n) ==
  /\ \A c \in S : c.actor = a => c.seq <= n
  /\ n = 0 \/ [actor |-> a, seq |-> n] \in S

LEMMA LatestLemma ==
  ASSUME NEW S \in SUBSET Change, NEW a
  PROVE  Latest(S, a) \in 0..MaxSeq /\ IsLatest(S, a, Latest(S, a))
<1> DEFINE T == {c.seq : c \in {d \in S : d.actor = a}}
<1>1. Latest(S, a) = CHOOSE n \in 0..MaxSeq : IsLatest(S, a, n)
  BY DEF Latest, IsLatest, MaxSeq
<1>2. \E n \in 0..MaxSeq : IsLatest(S, a, n)
  <2>1. CASE T = {}
    <3>1. IsLatest(S, a, 0)
      BY <2>1 DEF IsLatest
    <3> QED
      BY <3>1, NumbersLemma
  <2>2. CASE T # {}
    <3>1. T \in SUBSET Nat /\ \A m \in T : m \in 1..MaxSeq
      BY ChangeType, NumbersLemma
    <3>2. PICK m \in T : \A k \in T : k <= m
      <4>1. MaxSeq \in Nat /\ \A m \in T : m <= MaxSeq
        BY <3>1, NumbersLemma
      <4> HIDE DEF T
      <4> QED
        BY <2>2, <3>1, <4>1, GreatestNat
    <3>3. PICK c \in S : c.actor = a /\ c.seq = m
      OBVIOUS
    <3>4. [actor |-> a, seq |-> m] = c
      BY <3>3, ChangeType
    <3>5. IsLatest(S, a, m)
      BY <3>2, <3>4 DEF IsLatest
    <3> QED
      BY <3>1, <3>5
  <2> QED
    BY <2>1, <2>2
<1> QED
  BY <1>1, <1>2

LEMMA LatestIs ==
  ASSUME NEW S \in SUBSET Change, NEW a, NEW n \in 0..MaxSeq, IsLatest(S, a, n)
  PROVE  Latest(S, a) = n
<1> DEFINE m == Latest(S, a)
<1>1. m \in 0..MaxSeq /\ IsLatest(S, a, m)
  BY LatestLemma
<1> HIDE DEF m
<1>2. n = 0 \/ n <= m
  <2>1. [actor |-> a, seq |-> n].actor = a /\ [actor |-> a, seq |-> n].seq = n
    OBVIOUS
  <2> QED
    BY <1>1, <2>1 DEF IsLatest
<1>3. m = 0 \/ m <= n
  <2>1. [actor |-> a, seq |-> m].actor = a /\ [actor |-> a, seq |-> m].seq = m
    OBVIOUS
  <2> QED
    BY <1>1, <2>1 DEF IsLatest
<1> QED
  BY <1>1, <1>2, <1>3, NumbersLemma DEF m

\* Every change is there with all the earlier ones of its actor.
Closed(S) == \A c \in S : \A k \in 1..c.seq : [actor |-> c.actor, seq |-> k] \in S

LEMMA ClosedLemma ==
  ASSUME NEW S \in SUBSET Change, Closed(S), NEW c \in Change
  PROVE  c \in S <=> c.seq <= Latest(S, c.actor)
<1> DEFINE n == Latest(S, c.actor)
<1>1. n \in 0..MaxSeq /\ IsLatest(S, c.actor, n)
  BY LatestLemma
<1> HIDE DEF n
<1>2. c.seq \in 1..MaxSeq /\ c = [actor |-> c.actor, seq |-> c.seq]
  BY ChangeType
<1>3. ASSUME c.seq <= n
      PROVE  c \in S
  <2> DEFINE d == [actor |-> c.actor, seq |-> n]
  <2>1. d \in S /\ d.actor = c.actor /\ d.seq = n
    BY <1>1, <1>2, <1>3, NumbersLemma DEF IsLatest
  <2> HIDE DEF d
  <2>2. c.seq \in 1..d.seq
    BY <1>1, <1>2, <1>3, <2>1, NumbersLemma
  <2> QED
    BY <1>2, <2>1, <2>2 DEF Closed
<1> QED
  BY <1>1, <1>3 DEF n, IsLatest

\* The changes k+1 to k+n of actor a, in order.
IsRun(cs, a, k, n) ==
  /\ cs \in Seq(Change) /\ Len(cs) = n /\ DOMAIN cs = 1..n
  /\ \A i \in 1..n : cs[i] = [actor |-> a, seq |-> k + i] /\ cs[i].actor = a /\ cs[i].seq = k + i

LEMMA ChangesOfIs ==
  ASSUME NEW a \in Locals \cup {Remote}, NEW k \in Nat, NEW m \in k..MaxSeq,
         NEW n \in Nat, m - k = n
  PROVE  IsRun(ChangesOf(a, k, m), a, k, n)
<1> DEFINE cs == ChangesOf(a, k, m)
<1>1. cs = [i \in 1..n |-> [actor |-> a, seq |-> k + i]]
  BY DEF ChangesOf
<1>2. \A i \in 1..n : k + i \in 1..MaxSeq
  BY NumbersLemma
<1>3. \A i \in 1..n : [actor |-> a, seq |-> k + i] \in Change
  BY <1>2, ChangeType
<1> HIDE DEF cs
<1>4. cs \in Seq(Change) /\ Len(cs) = n
  <2>1. cs \in [1..n -> Change]
    BY <1>1, <1>3
  <2> QED
    BY <2>1, SeqDef, LenProperties
<1>5. DOMAIN cs = 1..n /\ \A i \in 1..n : cs[i] = [actor |-> a, seq |-> k + i]
  BY <1>1
<1>6. \A i \in 1..n : cs[i].actor = a /\ cs[i].seq = k + i
  BY <1>5
<1> QED
  BY <1>4, <1>5, <1>6 DEF IsRun, cs

LEMMA ChangesOfSet ==
  ASSUME NEW a \in Locals \cup {Remote}, NEW k \in Nat, NEW m \in k..MaxSeq
  PROVE  \A c : c \in ToSet(ChangesOf(a, k, m)) <=>
                c \in Change /\ c.actor = a /\ c.seq \in (k + 1)..m
<1> DEFINE n == m - k
           cs == ChangesOf(a, k, m)
<1>1. /\ cs \in Seq(Change) /\ DOMAIN cs = 1..n
      /\ \A i \in 1..n : cs[i] = [actor |-> a, seq |-> k + i]
  <2>1. n \in Nat /\ m - k = n
    BY NumbersLemma
  <2> HIDE DEF n
  <2>2. IsRun(cs, a, k, n)
    BY <2>1, ChangesOfIs
  <2> HIDE DEF cs
  <2> QED
    BY <2>2 DEF IsRun
<1> HIDE DEF cs
<1>2. \A c : c \in ToSet(cs) <=> \E i \in 1..n : c = [actor |-> a, seq |-> k + i]
  BY <1>1 DEF ToSet
<1>3. ASSUME NEW c \in Change, c.actor = a, c.seq \in (k + 1)..m
      PROVE  c \in ToSet(cs)
  <2>1. c.seq - k \in 1..n /\ k + (c.seq - k) = c.seq
    BY <1>3, NumbersLemma
  <2>2. c = [actor |-> a, seq |-> c.seq]
    BY <1>3, ChangeType
  <2> QED
    BY <1>2, <2>1, <2>2
<1>4. \A i \in 1..n : k + i \in (k + 1)..m /\ k + i \in 1..MaxSeq
  BY NumbersLemma
<1>5. \A c : c \in ToSet(cs) => c \in Change /\ c.actor = a /\ c.seq \in (k + 1)..m
  BY <1>2, <1>4, ChangeType
<1> QED
  BY <1>3, <1>5 DEF cs

LEMMA RipeLemma ==
  ASSUME NEW S \in SUBSET Change, NEW had \in SUBSET Change
  PROVE  /\ Ripe(S, had) \in SUBSET S
         /\ Closed(had) => Closed(had \cup Ripe(S, had))
         /\ \A c \in Change :
              /\ S = {c} /\ Closed(had)
              /\ c.seq = 1 \/ [actor |-> c.actor, seq |-> c.seq - 1] \in had
              => Ripe(S, had) = {c}
<1>1. \A c : c \in Ripe(S, had) <=>
        c \in S /\ \A k \in 1..c.seq : [actor |-> c.actor, seq |-> k] \in had \cup S
  BY DEF Ripe
<1>2. ASSUME Closed(had), NEW c \in Ripe(S, had), NEW k \in 1..c.seq
      PROVE  [actor |-> c.actor, seq |-> k] \in had \cup Ripe(S, had)
  <2> DEFINE d == [actor |-> c.actor, seq |-> k]
  <2>1. d \in had \cup S /\ d.actor = c.actor /\ d.seq = k
    BY <1>1, <1>2
  <2> HIDE DEF d
  <2>2. \A j \in 1..d.seq : j \in 1..c.seq
    BY <1>1, <2>1, ChangeType, NumbersLemma
  <2>3. \A j \in 1..d.seq : [actor |-> d.actor, seq |-> j] \in had \cup S
    BY <1>1, <1>2, <2>1, <2>2
  <2> QED
    BY <1>1, <2>1, <2>3 DEF d
<1>3. ASSUME NEW c \in Change, S = {c}, Closed(had),
             c.seq = 1 \/ [actor |-> c.actor, seq |-> c.seq - 1] \in had
      PROVE  Ripe(S, had) = {c}
  <2>1. c.seq \in 1..MaxSeq /\ c = [actor |-> c.actor, seq |-> c.seq]
    BY ChangeType
  <2>2. ASSUME NEW k \in 1..c.seq, k # c.seq
        PROVE  [actor |-> c.actor, seq |-> k] \in had
    <3> DEFINE d == [actor |-> c.actor, seq |-> c.seq - 1]
    <3>1. d \in had /\ d.actor = c.actor /\ d.seq = c.seq - 1 /\ k \in 1..(c.seq - 1)
      BY <1>3, <2>1, <2>2, NumbersLemma
    <3> HIDE DEF d
    <3> QED
      BY <1>3, <3>1 DEF Closed
  <2> QED
    BY <1>1, <1>3, <2>1, <2>2
<1> QED
  BY <1>1, <1>2, <1>3 DEF Closed

-----------------------------------------------------------------------------
(* What the frontend does with a message *)

\* A handler that made "a" the actor and s the last number of a document that
\* was f, and let nobody write ...
Kept(f, g, a, s) ==
  /\ g.actor = a /\ g.seq = s /\ g.changeQ = f.changeQ
  /\ g.mode = f.mode \/ (f.mode = "pending" /\ a = NoActor /\ g.mode = "read")
  /\ g.requests = f.requests \/ (f.requests # <<>> /\ g.requests = Tail(f.requests))

\* ... or let the functions that wait in changeQ run.
Enabled(f, g, a, s) ==
  /\ g.actor = a /\ g.seq = s + f.changeQ /\ g.changeQ = 0
  /\ f.mode \in {"pending", "read"} /\ a # NoActor /\ g.mode = "write"
  /\ g.requests = ChangesOf(a, s, s + f.changeQ)

LEMMA NewStateLemma ==
  ASSUME NEW f \in Fronts
  PROVE  /\ NewState(f) \in Fronts
         /\ NewState(f).mode = f.mode /\ NewState(f).actor = f.actor
         /\ NewState(f).changeQ = f.changeQ /\ NewState(f).seq = f.seq
         /\ NewState(f).requests = f.requests
<1>1. View(f) \in SUBSET Change
  <2>1. f.requests \in Seq(Change) /\ f.shown \in SUBSET Change
    BY DEF Fronts
  <2>2. ToSet(f.requests) \in SUBSET Change
    BY <2>1, LenProperties DEF ToSet
  <2> QED
    BY <2>1, <2>2 DEF View
<1> QED
  BY <1>1 DEF NewState, Fronts

LEMMA WrittenLemma ==
  ASSUME NEW f \in Fronts, NEW n \in Nat, f.seq + n <= MaxSeq, f.actor \in Locals
  PROVE  /\ Written(f, n) \in Fronts
         /\ Written(f, n).mode = f.mode /\ Written(f, n).actor = f.actor
         /\ Written(f, n).changeQ = f.changeQ /\ Written(f, n).seq = f.seq + n
         /\ Written(f, n).requests = f.requests \o ChangesOf(f.actor, f.seq, f.seq + n)
<1> DEFINE cs == ChangesOf(f.actor, f.seq, f.seq + n)
           g == [f EXCEPT !.seq = @ + n, !.requests = @ \o cs]
<1>1. f.seq \in Nat /\ f.requests \in Seq(Change) /\ f.seq + n \in 0..MaxSeq
  BY NumbersLemma DEF Fronts, MaxSeq
<1>2. cs \in Seq(Change)
  <2>1. f.seq + n \in f.seq..MaxSeq /\ (f.seq + n) - f.seq = n
    BY <1>1, NumbersLemma
  <2> QED
    BY <1>1, <2>1, ChangesOfIs DEF IsRun
<1>3. f.requests \o cs \in Seq(Change)
  BY <1>1, <1>2, ConcatProperties
<1> HIDE DEF cs
<1>4. /\ g \in Fronts /\ g.mode = f.mode /\ g.actor = f.actor /\ g.changeQ = f.changeQ
      /\ g.seq = f.seq + n /\ g.requests = f.requests \o cs
  BY <1>1, <1>3 DEF Fronts, MaxSeq
<1>5. Written(f, n) = NewState(g)
  BY DEF Written, cs
<1> HIDE DEF g
<1> QED
  BY <1>4, <1>5, NewStateLemma DEF cs

LEMMA EnableWritesLemma ==
  ASSUME NEW f \in Fronts, f.mode \in {"pending", "read"}, f.requests = <<>>,
         f.seq + f.changeQ <= MaxSeq, f.actor # NoActor
  PROVE  EnableWrites(f) \in Fronts /\ Enabled(f, EnableWrites(f), f.actor, f.seq)
<1> DEFINE g == [f EXCEPT !.mode = "write", !.changeQ = 0]
<1>1. g \in Fronts /\ g.mode = "write" /\ g.actor = f.actor /\ g.changeQ = 0 /\ g.seq = f.seq
      /\ g.requests = <<>>
  <2>1. 0 \in 0..MaxChanges
    BY NumbersLemma
  <2> QED
    BY <2>1 DEF Fronts
<1>2. f.changeQ \in Nat /\ f.actor \in Locals /\ f.seq \in Nat
  BY NumbersLemma DEF Fronts
<1>3. EnableWrites(f) = Written(g, f.changeQ)
  BY DEF EnableWrites
<1> DEFINE cs == ChangesOf(f.actor, f.seq, f.seq + f.changeQ)
<1>4. cs \in Seq(Change)
  <2>1. f.seq + f.changeQ \in f.seq..MaxSeq /\ (f.seq + f.changeQ) - f.seq = f.changeQ
    BY <1>2, NumbersLemma
  <2> QED
    BY <1>2, <2>1, ChangesOfIs DEF IsRun
<1>5. <<>> \o cs = cs
  BY <1>4, ConcatEmptySeq
<1> HIDE DEF g
<1>6. /\ Written(g, f.changeQ) \in Fronts
      /\ Written(g, f.changeQ).mode = g.mode /\ Written(g, f.changeQ).actor = g.actor
      /\ Written(g, f.changeQ).changeQ = g.changeQ /\ Written(g, f.changeQ).seq = g.seq + f.changeQ
      /\ Written(g, f.changeQ).requests = g.requests \o ChangesOf(g.actor, g.seq, g.seq + f.changeQ)
  BY <1>1, <1>2, WrittenLemma
<1> QED
  BY <1>1, <1>2, <1>3, <1>5, <1>6 DEF Enabled

LEMMA AppliedPatchLemma ==
  ASSUME NEW f \in Fronts, NEW p \in Patches
  PROVE  LET g == AppliedPatch(f, p)
         IN /\ g \in Fronts
            /\ Kept(f, g, f.actor, IF f.actor # NoActor /\ p.seq > f.seq THEN p.seq ELSE f.seq)
            /\ g.mode = f.mode
<1>1. f.requests \in Seq(Change) /\ p.seq \in 0..MaxSeq /\ f.seq \in 0..MaxSeq
  BY DEF Fronts, Patches, MaxSeq
<1>2. f.requests # <<>> => Tail(f.requests) \in Seq(Change)
  BY <1>1, HeadTailProperties
<1>3. p.add \in SUBSET Change
  BY DEF Patches
<1> QED
  BY <1>1, <1>2, <1>3 DEF AppliedPatch, Fronts, Kept, MaxSeq

LEMMA PatchedLemma ==
  ASSUME NEW f \in Fronts, NEW p \in Patches, NEW good \in BOOLEAN,
         f.mode # "write" => f.requests = <<>>,
         f.seq + f.changeQ <= MaxSeq, p.seq + f.changeQ <= MaxSeq
  PROVE  LET s == IF f.actor # NoActor /\ p.seq > f.seq THEN p.seq ELSE f.seq
             g == Patched(f, p, good)
         IN /\ g \in Fronts
            /\ Kept(f, g, f.actor, s) \/ (f.mode = "pending" /\ Enabled(f, g, f.actor, s))
<1> DEFINE s == IF f.actor # NoActor /\ p.seq > f.seq THEN p.seq ELSE f.seq
           g == AppliedPatch(f, p)
           h == CASE g.mode # "pending" -> g
                  [] g.mode = "pending" /\ g.actor # NoActor -> [EnableWrites(g) EXCEPT !.ready = TRUE]
                  [] OTHER -> [g EXCEPT !.mode = "read", !.ready = TRUE]
<1>1. g \in Fronts /\ Kept(f, g, f.actor, s) /\ g.mode = f.mode
  BY AppliedPatchLemma
<1>2. f.requests \in Seq(Change) /\ s \in Nat /\ s + f.changeQ <= MaxSeq
  BY DEF Fronts, Patches
<1>3. Patched(f, p, good) = IF p.add # {} /\ good THEN NewState(h) ELSE g
  BY DEF Patched
<1> HIDE DEF s, g
<1>4. CASE g.mode # "pending"
  <2>1. h = g
    BY <1>4
  <2>2. NewState(g) \in Fronts /\ Kept(f, NewState(g), f.actor, s)
    BY <1>1, <1>4, NewStateLemma DEF Kept
  <2> QED
    BY <1>1, <1>3, <2>1, <2>2 DEF s
<1>5. CASE g.mode = "pending" /\ g.actor # NoActor
  <2> DEFINE k == EnableWrites(g)
             e == [k EXCEPT !.ready = TRUE]
  <2>1. h = e
    BY <1>5
  <2>2. g.requests = <<>> /\ g.seq = s /\ g.changeQ = f.changeQ /\ g.actor = f.actor
    BY <1>1, <1>5 DEF Kept
  <2>3. k \in Fronts /\ Enabled(g, k, g.actor, g.seq)
    BY <1>1, <1>2, <1>5, <2>2, EnableWritesLemma
  <2> HIDE DEF k
  <2>4. e \in Fronts /\ Enabled(f, e, f.actor, s)
    BY <1>1, <1>5, <2>2, <2>3 DEF Fronts, Enabled
  <2> HIDE DEF e
  <2>5. NewState(e) \in Fronts /\ Enabled(f, NewState(e), f.actor, s)
    BY <2>4, NewStateLemma DEF Enabled
  <2> QED
    BY <1>1, <1>3, <1>5, <2>1, <2>5 DEF s
<1>6. CASE g.mode = "pending" /\ g.actor = NoActor
  <2> DEFINE r == [g EXCEPT !.mode = "read", !.ready = TRUE]
  <2>1. h = r
    BY <1>6
  <2>2. r \in Fronts /\ Kept(f, r, f.actor, s)
    BY <1>1, <1>6 DEF Fronts, Kept
  <2> HIDE DEF r
  <2>3. NewState(r) \in Fronts /\ Kept(f, NewState(r), f.actor, s)
    BY <2>2, NewStateLemma DEF Kept
  <2> QED
    BY <1>1, <1>3, <2>1, <2>3 DEF s
<1> QED
  BY <1>4, <1>5, <1>6

LEMMA SetActorIdLemma ==
  ASSUME NEW f \in Fronts, NEW a \in Locals, f.mode # "write" => f.requests = <<>>,
         f.seq + f.changeQ <= MaxSeq
  PROVE  LET g == SetActorId(f, a)
         IN /\ g \in Fronts
            /\ Kept(f, g, a, f.seq) \/ (f.mode = "read" /\ Enabled(f, g, a, f.seq))
            /\ f.mode = "pending" => g = [f EXCEPT !.actor = a]
<1> DEFINE g == [f EXCEPT !.actor = a]
<1>1. g \in Fronts /\ Kept(f, g, a, f.seq)
  BY DEF Fronts, Kept
<1>2. a # NoActor
  BY NumbersLemma
<1>3. CASE f.mode # "read"
  BY <1>1, <1>3 DEF SetActorId
<1>4. CASE f.mode = "read"
  <2>1. g.mode = "read" /\ g.requests = <<>> /\ g.seq = f.seq /\ g.changeQ = f.changeQ /\ g.actor = a
    BY <1>1, <1>4 DEF Fronts
  <2> HIDE DEF g
  <2>2. EnableWrites(g) \in Fronts /\ Enabled(g, EnableWrites(g), a, f.seq)
    BY <1>1, <1>2, <2>1, EnableWritesLemma
  <2>3. SetActorId(f, a) = EnableWrites(g)
    BY <1>4 DEF SetActorId, g
  <2> QED
    BY <1>4, <2>1, <2>2, <2>3 DEF Enabled
<1> QED
  BY <1>3, <1>4

LEMMA InitializedLemma ==
  ASSUME NEW f \in Fronts, NEW msg \in FrontMsgs, f.mode = "pending", f.requests = <<>>,
         f.seq + f.changeQ <= MaxSeq, msg.patch.seq + f.changeQ <= MaxSeq
  PROVE  \E s \in {f.seq, msg.patch.seq} :
           LET g == Initialized(f, msg)
               a == IF msg.actor # NoActor THEN msg.actor ELSE f.actor
           IN /\ g \in Fronts /\ s >= f.seq /\ (s # f.seq => a # NoActor)
              /\ Kept(f, g, a, s) \/ (s >= msg.patch.seq /\ Enabled(f, g, a, s))
<1> DEFINE p == msg.patch
           a == IF msg.actor # NoActor THEN msg.actor ELSE f.actor
           k == IF msg.actor # NoActor THEN SetActorId(f, msg.actor) ELSE f
           s == IF k.actor # NoActor /\ p.seq > k.seq THEN p.seq ELSE k.seq
<1>1. p \in Patches /\ p.seq \in Nat /\ f.seq \in Nat /\ msg.good \in BOOLEAN
      /\ msg.actor \in Locals \cup {NoActor}
  BY NumbersLemma DEF FrontMsgs, Patches, Fronts
<1>2. /\ k \in Fronts /\ k.actor = a /\ k.seq = f.seq /\ k.changeQ = f.changeQ
      /\ k.mode = f.mode /\ k.requests = f.requests
  <2>1. CASE msg.actor # NoActor
    <3>1. k = [f EXCEPT !.actor = msg.actor] /\ msg.actor \in Locals
      BY <1>1, <2>1, SetActorIdLemma
    <3> QED
      BY <2>1, <3>1 DEF Fronts
  <2>2. CASE msg.actor = NoActor
    BY <2>2
  <2> QED
    BY <2>1, <2>2
<1>3. Initialized(f, msg) = IF msg.some THEN Patched(k, p, msg.good) ELSE k
  BY DEF Initialized
<1> HIDE DEF k
<1>4. CASE ~msg.some
  <2>1. Kept(f, k, a, f.seq) /\ Initialized(f, msg) = k /\ f.seq >= f.seq
    BY <1>1, <1>2, <1>3, <1>4 DEF Kept
  <2> QED
    BY <1>2, <2>1
<1>5. CASE msg.some
  <2> DEFINE g == Patched(k, p, msg.good)
  <2>1. g \in Fronts /\ (Kept(k, g, k.actor, s) \/ (k.mode = "pending" /\ Enabled(k, g, k.actor, s)))
    BY <1>1, <1>2, PatchedLemma
  <2>2. s \in {f.seq, p.seq} /\ s >= f.seq /\ (s # f.seq => a # NoActor)
    BY <1>1, <1>2
  <2> HIDE DEF g
  <2>3. Enabled(k, g, k.actor, s) => a # NoActor /\ s >= p.seq /\ Enabled(f, g, a, s)
    <3>1. Enabled(k, g, k.actor, s) => a # NoActor /\ Enabled(f, g, a, s)
      BY <1>2 DEF Enabled
    <3>2. a # NoActor => s >= p.seq
      BY <1>1, <1>2
    <3> QED
      BY <3>1, <3>2
  <2>4. Kept(k, g, k.actor, s) => Kept(f, g, a, s)
    BY <1>2 DEF Kept
  <2> HIDE DEF s
  <2>5. Initialized(f, msg) = g
    BY <1>3, <1>5 DEF g
  <2> QED
    BY <2>1, <2>2, <2>3, <2>4, <2>5
<1> QED
  BY <1>4, <1>5

-----------------------------------------------------------------------------
(* Types, and who writes *)

\* The actor that writes to the document, as soon as it is known.
Creating == \E i \in DOMAIN toBackend : toBackend[i].type = "CreateMsg"
Author == IF docState = "ready" THEN docActor ELSE IF Creating THEN Root ELSE NoActor

\* No number of ours is larger than what the user has written here and, at
\* most one change, in an earlier session.
Upto == 1 + asked - front.changeQ
IsNumbered(c) == IF c.actor = Remote THEN c.seq <= MaxRemote ELSE c.seq <= Upto

\* The frontend knows the actor or none; a document that cannot be written has
\* made no request.
FrontInv ==
  /\ front.actor \in {NoActor, Author}
  /\ front.mode = "write" => front.actor # NoActor
  /\ front.mode = "none" => front = NewFrontend("none", NoActor)
  /\ front.mode # "write" => front.requests = <<>>
  /\ front.mode = "none" /\ destroys = 0 => toBackend = <<>> /\ docState = "none" /\ asked = 0
  /\ front.changeQ <= asked /\ front.seq <= Upto

\* Requests are the author's; a document is created before all else; and
\* every NeedsActorIdMsg is for a change that was asked for.
QueueInv ==
  /\ \A i \in InFlight :
       /\ toBackend[i].change \in Change
       /\ toBackend[i].change.actor = Author /\ toBackend[i].change.seq <= Upto
  /\ \A i \in DOMAIN toBackend : toBackend[i].type = "CreateMsg" => i = 1 /\ docState = "none"
  /\ spares + Count(toBackend, "NeedsActorIdMsg") <= asked

\* The backend speaks when the document is loaded, and then of its actor.
MsgInv ==
  \A i \in DOMAIN toFrontend :
    /\ docState = "ready"
    /\ toFrontend[i].type \in {"ReadyMsg", "ActorIdMsg"} => toFrontend[i].actor = docActor
    /\ toFrontend[i].patch.seq <= Upto

DocInv ==
  /\ docState = "ready" <=> docActor # NoActor
  /\ \A c \in applied \cup held : IsNumbered(c)

TypeInv == TypeOK /\ FrontInv /\ QueueInv /\ MsgInv /\ DocInv

LEMMA InFlightPlaces == InFlight = Places(toBackend, "RequestMsg")
  BY DEF InFlight, Places

LEMMA UptoType ==
  ASSUME TypeInv
  PROVE  Upto \in 1..MaxSeq /\ asked \in 0..MaxChanges /\ front.changeQ \in 0..MaxChanges
         /\ front.seq \in 0..MaxSeq /\ front.seq + front.changeQ <= MaxSeq
<1>1. asked \in 0..MaxChanges /\ front \in Fronts /\ front.changeQ <= asked /\ front.seq <= Upto
  BY DEF TypeInv, TypeOK, FrontInv
<1>2. front.changeQ \in 0..MaxChanges /\ front.seq \in 0..MaxSeq
  BY <1>1 DEF Fronts, MaxSeq
<1> QED
  BY <1>1, <1>2, NumbersLemma DEF Upto

LEMMA RequestsLemma ==
  ASSUME NEW cs \in Seq(Change)
  PROVE  /\ Requests(cs) \in Seq(BackMsgs) /\ Len(Requests(cs)) = Len(cs)
         /\ DOMAIN Requests(cs) = DOMAIN cs
         /\ \A i \in DOMAIN cs : Requests(cs)[i].type = "RequestMsg" /\ Requests(cs)[i].change = cs[i]
<1>1. Len(cs) \in Nat /\ DOMAIN cs = 1..Len(cs) /\ \A i \in 1..Len(cs) : cs[i] \in Change
  BY LenProperties
<1>2. Requests(cs) = [i \in 1..Len(cs) |-> Request(cs[i])]
  BY <1>1 DEF Requests
<1>3. \A i \in 1..Len(cs) : Request(cs[i]) \in BackMsgs /\ Request(cs[i]).type = "RequestMsg"
                            /\ Request(cs[i]).change = cs[i]
  BY <1>1 DEF Request, BackMsg, BackMsgs
<1> QED
  BY <1>1, <1>2, <1>3

\* Messages that are put into the queue.
LEMMA QueueAppend ==
  ASSUME TypeInv, NEW r \in Seq(BackMsgs), toBackend' = toBackend \o r,
         UNCHANGED <<docState, docActor, spares>>, Upto <= Upto', Upto' \in Nat, asked' \in Nat,
         \A j \in DOMAIN r :
           /\ r[j].type # "CreateMsg"
           /\ r[j].type = "RequestMsg" => /\ r[j].change \in Change /\ r[j].change.actor = Author
                                         /\ r[j].change.seq <= Upto',
         \/ asked <= asked' /\ \A j \in DOMAIN r : r[j].type # "NeedsActorIdMsg"
         \/ asked + Len(r) <= asked' /\ \A j \in DOMAIN r : r[j].type = "NeedsActorIdMsg"
  PROVE  QueueInv' /\ Author' = Author /\ toBackend' \in Seq(BackMsgs)
<1>0. toBackend \in Seq(BackMsgs) /\ QueueInv /\ spares \in Nat /\ asked \in Nat
  BY NumbersLemma DEF TypeInv, TypeOK
<1>1. /\ toBackend' \in Seq(BackMsgs)
      /\ \A i \in DOMAIN toBackend : i \in DOMAIN toBackend' /\ toBackend'[i] = toBackend[i]
      /\ \A i \in DOMAIN toBackend' :
           i \in DOMAIN toBackend \/ (i - Len(toBackend) \in DOMAIN r /\ toBackend'[i] = r[i - Len(toBackend)])
  <2>1. \A i \in DOMAIN (toBackend \o r) : i = Len(toBackend) + (i - Len(toBackend))
    BY <1>0, ConcatOf
  <2> QED
    BY <1>0, <2>1, ConcatOf
<1>2. Creating' <=> Creating
  BY <1>1 DEF Creating
<1>3. Author' = Author
  BY <1>2 DEF Author
<1>4. ASSUME NEW i \in InFlight'
      PROVE  toBackend'[i].change \in Change /\ toBackend'[i].change.actor = Author'
             /\ toBackend'[i].change.seq <= Upto'
  <2>1. CASE i \in DOMAIN toBackend
    <3>1. i \in InFlight
      BY <1>1, <1>4, <2>1 DEF InFlight
    <3>2. toBackend[i].change \in Change /\ toBackend[i].change.actor = Author
          /\ toBackend[i].change.seq <= Upto
      BY <1>0, <3>1 DEF QueueInv
    <3>3. Upto \in Int /\ Upto' \in Int /\ toBackend[i].change.seq \in Int
      BY <3>2, UptoType, ChangeType, NumbersLemma
    <3> QED
      BY <1>1, <1>3, <2>1, <3>2, <3>3
  <2>2. CASE i \notin DOMAIN toBackend
    BY <1>1, <1>3, <1>4, <2>2 DEF InFlight
  <2> QED
    BY <2>1, <2>2
<1>5. \A i \in DOMAIN toBackend' : toBackend'[i].type = "CreateMsg" => i = 1 /\ docState' = "none"
  BY <1>0, <1>1 DEF QueueInv
<1>6. spares' + Count(toBackend, "NeedsActorIdMsg")' <= asked'
  <2> DEFINE n == Count(toBackend, "NeedsActorIdMsg")
  <2>1. n \in Nat /\ spares + n <= asked /\ Len(r) \in Nat
    BY <1>0, CountType, LenProperties DEF QueueInv
  <2>2. CASE asked <= asked' /\ \A j \in DOMAIN r : r[j].type # "NeedsActorIdMsg"
    <3>1. Count(toBackend', "NeedsActorIdMsg") = n
      BY <1>0, <2>2, CountConcat
    <3> HIDE DEF n
    <3> QED
      BY <1>0, <2>1, <2>2, <3>1
  <2>3. CASE asked + Len(r) <= asked' /\ \A j \in DOMAIN r : r[j].type = "NeedsActorIdMsg"
    <3>1. Count(toBackend', "NeedsActorIdMsg") = n + Len(r)
      BY <1>0, <2>3, CountConcat
    <3> HIDE DEF n
    <3> QED
      BY <1>0, <2>1, <2>3, <3>1
  <2> QED
    BY <2>2, <2>3
<1> QED
  BY <1>1, <1>3, <1>4, <1>5, <1>6 DEF QueueInv

\* A message that the backend takes.
LEMMA QueueTail ==
  ASSUME TypeInv, toBackend # <<>>, toBackend' = Tail(toBackend), Author' = Author,
         UNCHANGED frontVars,
         spares' = IF Head(toBackend).type = "NeedsActorIdMsg" THEN spares + 1 ELSE spares
  PROVE  QueueInv' /\ toBackend' \in Seq(BackMsgs) /\ spares' \in 0..MaxChanges /\ ~Creating'
<1>0. toBackend \in Seq(BackMsgs) /\ QueueInv /\ spares \in Nat /\ asked \in 0..MaxChanges
  BY NumbersLemma DEF TypeInv, TypeOK
<1>1. /\ toBackend' \in Seq(BackMsgs)
      /\ \A i \in DOMAIN toBackend' : i + 1 \in DOMAIN toBackend /\ toBackend'[i] = toBackend[i + 1]
      /\ \A i \in DOMAIN toBackend' : i + 1 # 1
  <2>1. \A i \in DOMAIN toBackend' : i \in 1..Len(Tail(toBackend)) /\ Len(Tail(toBackend)) \in Nat
    BY <1>0, TailOf, LenProperties
  <2> QED
    BY <1>0, <2>1, TailOf
<1>2. Upto' = Upto /\ asked' = asked
  BY DEF Upto, frontVars
<1>3. \A i \in InFlight' : i + 1 \in InFlight
  BY <1>1 DEF InFlight
<1>4. \A i \in InFlight' : /\ toBackend'[i].change \in Change /\ toBackend'[i].change.actor = Author'
                          /\ toBackend'[i].change.seq <= Upto'
  <2> TAKE i \in InFlight'
  <2>1. i + 1 \in InFlight /\ toBackend'[i] = toBackend[i + 1]
    BY <1>1, <1>3 DEF InFlight
  <2> QED
    BY <1>0, <1>2, <2>1 DEF QueueInv
<1>5. \A i \in DOMAIN toBackend' : toBackend'[i].type # "CreateMsg"
  BY <1>0, <1>1 DEF QueueInv
<1>6. spares' + Count(toBackend, "NeedsActorIdMsg")' <= asked' /\ spares' \in 0..MaxChanges
  <2> DEFINE n == Count(toBackend, "NeedsActorIdMsg")
             k == Count(toBackend', "NeedsActorIdMsg")
  <2>1. n \in Nat /\ spares + n <= asked
    BY <1>0, CountType DEF QueueInv
  <2>2. k = n - (IF Head(toBackend).type = "NeedsActorIdMsg" THEN 1 ELSE 0)
    BY <1>0, CountTail
  <2>3. k \in Nat
    BY <1>1, CountType
  <2> HIDE DEF n, k
  <2>4. spares' + k <= asked /\ spares' \in 0..MaxChanges
    BY <1>0, <2>1, <2>2, <2>3, NumbersLemma
  <2> QED
    BY <1>2, <2>4 DEF k
<1> QED
  BY <1>1, <1>4, <1>5, <1>6 DEF QueueInv, Creating

-----------------------------------------------------------------------------
(* The steps of the frontend *)

\* What a message from the backend does to the frontend.
Received ==
  LET m == Head(toFrontend)
  IN /\ toFrontend # <<>> /\ m \in FrontMsgs /\ toFrontend' = Tail(toFrontend)
     /\ UNCHANGED <<asked, destroys, backendVars, upsets>>
     /\ front' \in Fronts
     /\ \/ front.mode = "none" /\ UNCHANGED <<front, toBackend>>
        \/ /\ front.mode # "none"
           /\ \E a \in {front.actor, docActor}, s \in {front.seq, m.patch.seq} :
                /\ s >= front.seq
                /\ s # front.seq => a # NoActor
                /\ m.type = "ReadyMsg" /\ front.mode = "pending" => a = docActor
                /\ a # front.actor => m.type # "PatchMsg"
                /\ \/ Kept(front, front', a, s) /\ UNCHANGED toBackend
                   \/ /\ Enabled(front, front', a, s)
                      /\ front.mode = "pending" => m.type # "ActorIdMsg" /\ s >= m.patch.seq
                      /\ toBackend' = toBackend \o Requests(ChangesOf(a, s, s + front.changeQ))

\* ... and to the queue, where f is what it makes of the frontend.
LEMMA ReceiveLemma ==
  ASSUME TypeInv, NEW type, NEW f \in Fronts, Receive(type, f), Head(toFrontend).type = type,
         NEW a \in {front.actor, docActor}, NEW s \in {front.seq, Head(toFrontend).patch.seq},
         front.mode # "none" =>
           /\ s >= front.seq
           /\ s # front.seq => a # NoActor
           /\ type = "ReadyMsg" /\ front.mode = "pending" => a = docActor
           /\ a # front.actor => type # "PatchMsg"
           /\ \/ Kept(front, f, a, s)
              \/ /\ Enabled(front, f, a, s)
                 /\ front.mode = "pending" =>
                      type # "ActorIdMsg" /\ s >= Head(toFrontend).patch.seq
  PROVE  Received
<1>0. /\ toFrontend # <<>> /\ toFrontend' = Tail(toFrontend)
      /\ UNCHANGED <<asked, destroys, backendVars, upsets>>
      /\ front' = IF front.mode = "none" THEN front ELSE f
      /\ toBackend' = toBackend \o Requests(Pushed(front, front'))
  BY DEF Receive, Heading, Send
<1>1. /\ toFrontend \in Seq(FrontMsgs) /\ toBackend \in Seq(BackMsgs) /\ front \in Fronts
      /\ front.mode # "write" => front.requests = <<>>
  BY DEF TypeInv, TypeOK, FrontInv
<1>2. Head(toFrontend) \in FrontMsgs
  BY <1>0, <1>1, HeadTailProperties
<1>3. Pushed(front, front') = <<>> => toBackend' = toBackend
  <2>1. Requests(<<>>) = <<>>
    BY RequestsLemma DEF Requests
  <2> QED
    BY <1>0, <1>1, <2>1, ConcatEmptySeq
<1>4. CASE front.mode = "none"
  <2>1. Pushed(front, front') = <<>>
    BY <1>0, <1>1, <1>4 DEF Pushed
  <2> QED
    BY <1>0, <1>1, <1>2, <1>3, <1>4, <2>1 DEF Received
<1>5. CASE front.mode # "none"
  <2>1. front' = f
    BY <1>0, <1>5
  <2>2. Kept(front, f, a, s) => Pushed(front, f) = <<>>
    BY <1>1 DEF Kept, Pushed
  <2>3. Enabled(front, f, a, s) => Pushed(front, f) = ChangesOf(a, s, s + front.changeQ)
    BY DEF Enabled, Pushed
  <2>4. \/ Kept(front, front', a, s) /\ UNCHANGED toBackend
        \/ /\ Enabled(front, front', a, s)
           /\ front.mode = "pending" =>
                Head(toFrontend).type # "ActorIdMsg" /\ s >= Head(toFrontend).patch.seq
           /\ toBackend' = toBackend \o Requests(ChangesOf(a, s, s + front.changeQ))
    BY <1>0, <1>3, <1>5, <2>1, <2>2, <2>3
  <2> QED
    BY <1>0, <1>2, <1>5, <2>1, <2>4 DEF Received
<1> QED
  BY <1>4, <1>5

LEMMA ReceivedLemma ==
  ASSUME TypeInv, ReceiveReady \/ ReceivePatch \/ ReceiveActorId
  PROVE  Received
<1> DEFINE m == Head(toFrontend)
<1>0. /\ toFrontend # <<>> /\ toFrontend \in Seq(FrontMsgs) /\ front \in Fronts
      /\ front.mode # "write" => front.requests = <<>>
  BY DEF ReceiveReady, ReceivePatch, ReceiveActorId, Receive, Heading, TypeInv, TypeOK, FrontInv
<1>1. m \in FrontMsgs /\ m = toFrontend[1] /\ 1 \in DOMAIN toFrontend
  BY <1>0, TailOf
<1>2. /\ docState = "ready" /\ docActor # NoActor
      /\ m.type \in {"ReadyMsg", "ActorIdMsg"} => m.actor = docActor
      /\ m.patch.seq <= Upto
  BY <1>1 DEF TypeInv, MsgInv, DocInv
<1>3. /\ m.patch \in Patches /\ m.patch.seq \in Nat /\ m.good \in BOOLEAN
      /\ front.seq + front.changeQ <= MaxSeq /\ m.patch.seq + front.changeQ <= MaxSeq
      /\ front.seq \in Nat
  <2>1. m.patch \in Patches /\ m.patch.seq \in Nat /\ m.good \in BOOLEAN
    BY <1>1, NumbersLemma DEF FrontMsgs, Patches
  <2>2. m.patch.seq + front.changeQ <= MaxSeq
    BY <1>2, <2>1, UptoType, NumbersLemma DEF Upto
  <2> QED
    BY <2>1, <2>2, UptoType, NumbersLemma
<1>4. docActor \in Locals
  BY <1>2 DEF TypeInv, TypeOK
<1> HIDE DEF m
<1>5. Kept(front, front, front.actor, front.seq)
  BY DEF Kept
<1>6. CASE ReceiveReady
  <2>1. Receive("ReadyMsg", Initialized(front, m)) /\ m.type = "ReadyMsg"
    BY <1>6 DEF ReceiveReady, Receive, Heading, m
  <2>2. CASE front.mode # "pending"
    <3>1. Initialized(front, m) = front
      BY <2>2 DEF Initialized
    <3> QED
      BY <1>0, <1>3, <1>5, <2>1, <2>2, <3>1, ReceiveLemma DEF m
  <2>3. CASE front.mode = "pending"
    <3> DEFINE g == Initialized(front, m)
    <3>1. (IF m.actor # NoActor THEN m.actor ELSE front.actor) = docActor
      BY <1>2, <2>1
    <3>2. front.requests = <<>>
      BY <1>0, <2>3
    <3>3. PICK s \in {front.seq, m.patch.seq} :
            /\ g \in Fronts /\ s >= front.seq
            /\ Kept(front, g, docActor, s) \/ (s >= m.patch.seq /\ Enabled(front, g, docActor, s))
      BY <1>0, <1>1, <1>3, <2>3, <3>1, <3>2, InitializedLemma DEF m
    <3> HIDE DEF g
    <3>4. Receive("ReadyMsg", g)
      BY <2>1 DEF g
    <3> QED
      BY <1>2, <2>1, <3>3, <3>4, ReceiveLemma DEF m
  <2> QED
    BY <2>2, <2>3
<1>7. CASE ReceivePatch
  <2> DEFINE g == IF Mismatch(front, m.patch) THEN front ELSE Patched(front, m.patch, m.good)
             s == IF front.actor # NoActor /\ m.patch.seq > front.seq THEN m.patch.seq ELSE front.seq
  <2>1. Receive("PatchMsg", g) /\ m.type = "PatchMsg"
    BY <1>7 DEF ReceivePatch, Receive, Heading, m
  <2>2. CASE Mismatch(front, m.patch)
    <3>1. g = front
      BY <2>2
    <3> QED
      BY <1>0, <1>3, <1>5, <2>1, <3>1, ReceiveLemma DEF m
  <2>3. CASE ~Mismatch(front, m.patch)
    <3>1. /\ g \in Fronts
          /\ \/ Kept(front, g, front.actor, s)
             \/ front.mode = "pending" /\ Enabled(front, g, front.actor, s)
      BY <1>0, <1>3, <2>3, PatchedLemma
    <3>2. s \in {front.seq, m.patch.seq} /\ s >= front.seq /\ (s # front.seq => front.actor # NoActor)
      BY <1>3
    <3>3. Enabled(front, g, front.actor, s) => s >= m.patch.seq
      <4>1. front.actor # NoActor => s >= m.patch.seq
        BY <1>3
      <4> QED
        BY <4>1 DEF Enabled
    <3> HIDE DEF g, s
    <3> QED
      BY <2>1, <3>1, <3>2, <3>3, ReceiveLemma DEF m
  <2> QED
    BY <2>2, <2>3
<1>8. CASE ReceiveActorId
  <2> DEFINE g == SetActorId(front, m.actor)
  <2>1. Receive("ActorIdMsg", g) /\ m.type = "ActorIdMsg"
    BY <1>8 DEF ReceiveActorId, Receive, Heading, m
  <2>2. m.actor = docActor
    BY <1>2, <2>1
  <2>3. /\ g \in Fronts
        /\ \/ Kept(front, g, docActor, front.seq)
           \/ front.mode = "read" /\ Enabled(front, g, docActor, front.seq)
    BY <1>0, <1>3, <1>4, <2>2, SetActorIdLemma
  <2> HIDE DEF g
  <2> QED
    BY <1>3, <2>1, <2>3, ReceiveLemma DEF m
<1> QED
  BY <1>6, <1>7, <1>8

-----------------------------------------------------------------------------
(* Type correctness *)

\* A step of the frontend, which may have read a message.
LEMMA FrontTypes ==
  ASSUME TypeInv, UNCHANGED backendVars, Upto <= Upto', Upto' \in Nat,
         FrontInv', QueueInv', toBackend' \in Seq(BackMsgs), front' \in Fronts,
         asked' \in 0..MaxChanges, destroys' \in 0..MaxDestroys,
         upsets' \subseteq {"early", "nested", "reopened"}, toFrontend' \in Seq(FrontMsgs),
         \A i \in DOMAIN toFrontend' : \E j \in DOMAIN toFrontend : toFrontend'[i] = toFrontend[j]
  PROVE  TypeInv'
<1>1. TypeOK'
  BY DEF TypeInv, TypeOK, backendVars
<1>2. Upto \in Nat /\ applied \in SUBSET Change /\ held \in SUBSET Change /\ toFrontend \in Seq(FrontMsgs)
  BY UptoType, NumbersLemma DEF TypeInv, TypeOK
<1>3. MsgInv'
  <2> SUFFICES ASSUME NEW i \in DOMAIN toFrontend'
               PROVE  /\ docState' = "ready"
                      /\ toFrontend'[i].type \in {"ReadyMsg", "ActorIdMsg"} => toFrontend'[i].actor = docActor'
                      /\ toFrontend'[i].patch.seq <= Upto'
    BY DEF MsgInv
  <2>1. PICK j \in DOMAIN toFrontend : toFrontend'[i] = toFrontend[j]
    OBVIOUS
  <2>2. toFrontend[j].patch.seq \in Nat
    <3>1. toFrontend[j] \in FrontMsgs
      BY <1>2, LenProperties
    <3> QED
      BY <3>1, NumbersLemma DEF FrontMsgs, Patches
  <2>3. /\ docState = "ready"
        /\ toFrontend[j].type \in {"ReadyMsg", "ActorIdMsg"} => toFrontend[j].actor = docActor
        /\ toFrontend[j].patch.seq <= Upto
    BY DEF TypeInv, MsgInv
  <2>4. toFrontend[j].patch.seq <= Upto'
    BY <1>2, <2>2, <2>3
  <2> QED
    BY <2>1, <2>3, <2>4 DEF backendVars
<1>4. DocInv'
  <2>1. \A c \in applied \cup held : IsNumbered(c)'
    <3> TAKE c \in applied \cup held
    <3>1. c.seq \in Nat /\ IsNumbered(c)
      BY <1>2, ChangeType, NumbersLemma DEF TypeInv, DocInv
    <3> QED
      BY <1>2, <3>1 DEF IsNumbered
  <2> QED
    BY <2>1 DEF DocInv, TypeInv, backendVars
<1> QED
  BY <1>1, <1>3, <1>4 DEF TypeInv

LEMMA SameMessages ==
  ASSUME TypeInv, toFrontend' = toFrontend \/ (toFrontend # <<>> /\ toFrontend' = Tail(toFrontend))
  PROVE  /\ toFrontend' \in Seq(FrontMsgs)
         /\ \A i \in DOMAIN toFrontend' : \E j \in DOMAIN toFrontend : toFrontend'[i] = toFrontend[j]
<1>1. toFrontend \in Seq(FrontMsgs)
  BY DEF TypeInv, TypeOK
<1> QED
  BY SMTT(30), <1>1, TailOf

LEMMA NewFrontendType ==
  ASSUME NEW mode \in {"none", "pending", "read", "write"}, NEW a \in Locals \cup {NoActor}
  PROVE  NewFrontend(mode, a) \in Fronts
<1>1. <<>> \in Seq(Change) /\ 0 \in 0..MaxChanges /\ 0 \in 0..(MaxChanges + MaxRemote)
  BY NumbersLemma, EmptySeq
<1> QED
  BY <1>1 DEF NewFrontend, Fronts, Nothing

LEMMA BackMsgType ==
  ASSUME NEW type \in {"CreateMsg", "OpenMsg", "NeedsActorIdMsg"}
  PROVE  LET r == <<BackMsg(type, NoChange)>>
         IN /\ r \in Seq(BackMsgs) /\ Len(r) = 1 /\ DOMAIN r = {1}
            /\ \A j \in DOMAIN r : r[j].type = type
BY DEF BackMsg, BackMsgs

LEMMA CreateType ==
  ASSUME TypeInv, Create
  PROVE  TypeInv'
<1> DEFINE r == <<BackMsg("CreateMsg", NoChange)>>
<1>1. toBackend = <<>> /\ docState = "none" /\ asked = 0 /\ spares \in Nat
  BY NumbersLemma DEF Create, TypeInv, FrontInv, TypeOK
<1>2. /\ front' = NewFrontend("write", Root) /\ toBackend' = toBackend \o r
      /\ UNCHANGED <<asked, destroys, toFrontend, backendVars, upsets>>
  BY DEF Create, Send
<1>3. /\ r \in Seq(BackMsgs) /\ DOMAIN r = {1} /\ \A j \in DOMAIN r : r[j].type = "CreateMsg"
  BY BackMsgType
<1> HIDE DEF r
<1>4. toBackend' = r
  BY <1>1, <1>2, <1>3, ConcatEmptySeq
<1>5. Author' = Root
  BY <1>1, <1>2, <1>3, <1>4 DEF Author, Creating, backendVars
<1>6. front'.mode = "write" /\ front'.actor = Root /\ front'.changeQ = 0 /\ front'.seq = 0
  BY <1>2 DEF NewFrontend
<1>7. front' \in Fronts /\ Root # NoActor
  BY <1>2, NewFrontendType, NumbersLemma DEF Locals
<1>8. Upto' = 1 /\ Upto = 1
  <2>1. front.changeQ = 0
    BY DEF Create, TypeInv, FrontInv, NewFrontend
  <2> QED
    BY <1>1, <1>2, <1>6, <2>1 DEF Upto
<1>9. FrontInv'
  BY <1>1, <1>2, <1>5, <1>6, <1>7, <1>8 DEF FrontInv
<1>10. QueueInv'
  <2>1. InFlight' = {}
    BY <1>3, <1>4 DEF InFlight
  <2>2. Count(toBackend, "NeedsActorIdMsg") \in Nat /\ Count(r, "NeedsActorIdMsg") = 0
    <3>1. Places(r, "NeedsActorIdMsg") = {}
      BY <1>3 DEF Places
    <3>2. toBackend \in Seq(BackMsgs)
      BY DEF TypeInv, TypeOK
    <3> QED
      BY <3>1, <3>2, CountType, FS_EmptySet DEF Count
  <2>3. spares + Count(toBackend', "NeedsActorIdMsg") <= asked'
    <3>1. spares + Count(toBackend, "NeedsActorIdMsg") <= asked
      BY DEF TypeInv, QueueInv
    <3> QED
      BY <1>1, <1>2, <1>4, <2>2, <3>1
  <2> QED
    BY <1>1, <1>2, <1>3, <1>4, <2>1, <2>3 DEF QueueInv, backendVars
<1> QED
  <2>1. /\ asked' \in 0..MaxChanges /\ destroys' \in 0..MaxDestroys
        /\ upsets' \subseteq {"early", "nested", "reopened"}
    BY <1>2 DEF TypeInv, TypeOK
  <2> QED
    BY <1>2, <1>3, <1>4, <1>7, <1>8, <1>9, <1>10, <2>1, SameMessages, FrontTypes

LEMMA OpenType ==
  ASSUME TypeInv, Open
  PROVE  TypeInv' /\ Author' = Author
<1> DEFINE r == <<BackMsg("OpenMsg", NoChange)>>
<1>1. /\ front' = NewFrontend("pending", NoActor) /\ toBackend' = toBackend \o r
      /\ UNCHANGED <<asked, destroys, toFrontend, backendVars>>
      /\ upsets' \subseteq upsets \cup {"reopened"}
  BY DEF Open, Send
<1>2. /\ r \in Seq(BackMsgs) /\ \A j \in DOMAIN r : r[j].type = "OpenMsg"
  BY BackMsgType
<1> HIDE DEF r
<1>3. /\ front'.mode = "pending" /\ front'.actor = NoActor /\ front'.changeQ = 0 /\ front'.seq = 0
      /\ front'.requests = <<>> /\ front' \in Fronts
  BY <1>1, NewFrontendType DEF NewFrontend
<1>4. asked \in Nat /\ asked' = asked /\ asked' \in 0..MaxChanges
  BY <1>1, NumbersLemma DEF TypeInv, TypeOK
<1>5. Upto' = Upto /\ Upto' \in Nat
  <2>1. front.changeQ = 0
    BY DEF Open, TypeInv, FrontInv, NewFrontend
  <2> QED
    BY <1>3, <1>4, <2>1 DEF Upto
<1>6. QueueInv' /\ Author' = Author /\ toBackend' \in Seq(BackMsgs)
  <2>1. UNCHANGED <<docState, docActor, spares>>
    BY <1>1 DEF backendVars
  <2>2. Upto <= Upto' /\ asked <= asked' /\ asked' \in Nat
    BY <1>4, <1>5
  <2>3. \A j \in DOMAIN r : r[j].type \notin {"CreateMsg", "RequestMsg", "NeedsActorIdMsg"}
    BY <1>2
  <2> QED
    BY <1>1, <1>2, <1>5, <2>1, <2>2, <2>3, QueueAppend
<1>7. FrontInv'
  BY <1>3, <1>4, <1>5, NumbersLemma DEF FrontInv
<1> QED
  <2>1. destroys' \in 0..MaxDestroys /\ upsets' \subseteq {"early", "nested", "reopened"}
    BY <1>1 DEF TypeInv, TypeOK
  <2> QED
    BY <1>1, <1>3, <1>4, <1>5, <1>6, <1>7, <2>1, SameMessages, FrontTypes

LEMMA WatchType ==
  ASSUME TypeInv, Watch
  PROVE  /\ TypeInv' /\ Author' = Author
         /\ front'.mode = front.mode /\ front'.actor = front.actor
         /\ front'.changeQ = front.changeQ /\ front'.seq = front.seq
         /\ UNCHANGED <<asked, destroys, toBackend, toFrontend, backendVars, upsets>>
<1> DEFINE f == [front EXCEPT !.watched = TRUE]
<1>1. front' = NewState(f) /\ front.mode # "none"
      /\ UNCHANGED <<asked, destroys, toBackend, toFrontend, backendVars, upsets>>
  BY DEF Watch
<1>2. /\ f \in Fronts /\ f.mode = front.mode /\ f.actor = front.actor /\ f.changeQ = front.changeQ
      /\ f.seq = front.seq /\ f.requests = front.requests
  BY DEF TypeInv, TypeOK, Fronts
<1> HIDE DEF f
<1>3. /\ front' \in Fronts /\ front'.mode = front.mode /\ front'.actor = front.actor
      /\ front'.changeQ = front.changeQ /\ front'.seq = front.seq /\ front'.requests = front.requests
  BY <1>1, <1>2, NewStateLemma
<1>4. Author' = Author /\ Upto' = Upto /\ Upto' \in Nat
  BY <1>1, <1>3, UptoType, NumbersLemma DEF Author, Creating, Upto, backendVars
<1>5. FrontInv'
  BY <1>1, <1>3, <1>4 DEF TypeInv, FrontInv, backendVars
<1>6. QueueInv'
  BY <1>1, <1>4 DEF TypeInv, QueueInv, InFlight, Count, Places, backendVars
<1>7. /\ toBackend' \in Seq(BackMsgs) /\ asked' \in 0..MaxChanges /\ destroys' \in 0..MaxDestroys
      /\ upsets' \subseteq {"early", "nested", "reopened"}
  BY <1>1 DEF TypeInv, TypeOK
<1> QED
  BY <1>1, <1>3, <1>4, <1>5, <1>6, <1>7, SameMessages, FrontTypes

LEMMA QueueChangeType ==
  ASSUME TypeInv, QueueChange
  PROVE  /\ TypeInv' /\ Author' = Author /\ Upto' = Upto
         /\ asked' = asked + 1 /\ front.mode \in {"pending", "read"}
         /\ front' = [front EXCEPT !.changeQ = @ + 1]
         /\ front'.mode = front.mode /\ front'.actor = front.actor
         /\ front'.changeQ = front.changeQ + 1 /\ front'.seq = front.seq
         /\ \E r \in Seq(BackMsgs) : /\ toBackend' = toBackend \o r
                                     /\ \A j \in DOMAIN r : r[j].type = "NeedsActorIdMsg"
<1> DEFINE r == IF front.actor = NoActor THEN <<BackMsg("NeedsActorIdMsg", NoChange)>> ELSE <<>>
<1>1. /\ front' = [front EXCEPT !.changeQ = @ + 1] /\ toBackend' = toBackend \o r
      /\ asked' = asked + 1 /\ asked < MaxChanges /\ front.mode \in {"pending", "read"}
      /\ UNCHANGED <<destroys, toFrontend, backendVars, upsets>>
  BY DEF QueueChange, Send
<1>2. /\ r \in Seq(BackMsgs) /\ Len(r) \in Nat /\ Len(r) <= 1
      /\ \A j \in DOMAIN r : r[j].type = "NeedsActorIdMsg"
  <2>1. <<>> \in Seq(BackMsgs) /\ Len(<<>>) = 0 /\ DOMAIN <<>> = {}
    BY EmptySeq
  <2> QED
    BY <2>1, BackMsgType
<1> HIDE DEF r
<1>3. asked \in Nat /\ asked' \in 0..MaxChanges /\ front.changeQ <= asked /\ front.changeQ \in Nat
  BY <1>1, UptoType, NumbersLemma DEF TypeInv, FrontInv
<1>4. /\ front' \in Fronts /\ front'.mode = front.mode /\ front'.actor = front.actor
      /\ front'.changeQ = front.changeQ + 1 /\ front'.seq = front.seq
      /\ front'.requests = front.requests
  <2>1. front.changeQ + 1 \in 0..MaxChanges
    BY <1>1, <1>3, NumbersLemma
  <2> QED
    BY <1>1, <2>1 DEF TypeInv, TypeOK, Fronts
<1>5. Upto' = Upto /\ Upto' \in Nat
  <2>1. Upto \in Nat
    BY UptoType, NumbersLemma
  <2> QED
    BY <1>1, <1>3, <1>4, <2>1 DEF Upto
<1>6. QueueInv' /\ Author' = Author /\ toBackend' \in Seq(BackMsgs)
  <2>1. UNCHANGED <<docState, docActor, spares>>
    BY <1>1 DEF backendVars
  <2>2. Upto <= Upto' /\ asked + Len(r) <= asked' /\ asked' \in Nat
    BY <1>1, <1>2, <1>3, <1>5
  <2>3. \A j \in DOMAIN r : r[j].type \notin {"CreateMsg", "RequestMsg"}
    BY <1>2
  <2> QED
    BY <1>1, <1>2, <1>5, <2>1, <2>2, <2>3, QueueAppend
<1>7. FrontInv'
  BY <1>1, <1>3, <1>4, <1>5, <1>6 DEF TypeInv, FrontInv
<1>8. TypeInv'
  <2>1. destroys' \in 0..MaxDestroys /\ upsets' \subseteq {"early", "nested", "reopened"}
    BY <1>1 DEF TypeInv, TypeOK
  <2>2. Upto <= Upto'
    BY <1>5
  <2> QED
    BY <1>1, <1>3, <1>4, <1>5, <1>6, <1>7, <2>1, <2>2, SameMessages, FrontTypes
<1> QED
  BY <1>1, <1>2, <1>4, <1>5, <1>6, <1>8

LEMMA ReverseLemma ==
  ASSUME NEW cs \in Seq(Change)
  PROVE  /\ Reverse(cs) \in Seq(Change) /\ Len(Reverse(cs)) = Len(cs) /\ DOMAIN Reverse(cs) = DOMAIN cs
         /\ \A i \in DOMAIN cs : Len(cs) + 1 - i \in DOMAIN cs /\ Reverse(cs)[i] = cs[Len(cs) + 1 - i]
<1>1. Len(cs) \in Nat /\ DOMAIN cs = 1..Len(cs) /\ \A i \in 1..Len(cs) : cs[i] \in Change
  BY LenProperties
<1>2. \A i \in 1..Len(cs) : (Len(cs) - i) + 1 = Len(cs) + 1 - i /\ Len(cs) + 1 - i \in 1..Len(cs)
  BY <1>1
<1>3. Reverse(cs) = [i \in 1..Len(cs) |-> cs[(Len(cs) - i) + 1]]
  BY DEF Reverse
<1>4. Reverse(cs) = [i \in 1..Len(cs) |-> cs[Len(cs) + 1 - i]]
  BY <1>2, <1>3
<1> QED
  BY <1>1, <1>2, <1>4

\* The requests that a step of the frontend sends, and what it does with them.
Writes(n) ==
  /\ n \in Nat /\ front.mode = "write" /\ asked + n <= MaxChanges
  /\ front.actor \in Locals /\ front.actor = Author
  /\ asked' = asked + n /\ front' \in Fronts
  /\ front'.mode = "write" /\ front'.actor = front.actor
  /\ front'.changeQ = front.changeQ /\ front'.seq = front.seq + n
  /\ UNCHANGED <<destroys, toFrontend, backendVars>>
  /\ LET cs == Reverse(ChangesOf(front.actor, front.seq, front.seq + n))
     IN /\ toBackend' = toBackend \o Requests(cs)
        /\ cs \in Seq(Change) /\ Len(cs) = n /\ DOMAIN cs = 1..n
        /\ \A i \in 1..n : cs[i] = [actor |-> front.actor, seq |-> front.seq + n + 1 - i]

LEMMA WritesLemma ==
  ASSUME TypeInv, NEW n \in 1..2, WriteChange(n)
  PROVE  Writes(n)
<1> DEFINE cs == ChangesOf(front.actor, front.seq, front.seq + n)
<1>1. /\ front.mode = "write" /\ asked + n <= MaxChanges /\ asked' = asked + n
      /\ front' = Written(front, n) /\ toBackend' = toBackend \o Requests(Reverse(cs))
      /\ UNCHANGED <<destroys, toFrontend, backendVars>>
  BY DEF WriteChange, Send
<1>2. front \in Fronts /\ front.actor # NoActor /\ front.actor = Author /\ front.actor \in Locals
      /\ front.seq \in Nat /\ n \in Nat /\ front.actor \in Locals \cup {Remote}
  BY <1>1, NumbersLemma DEF TypeInv, TypeOK, FrontInv, Fronts
<1>3. front.seq + n <= MaxSeq
  <2>1. front.seq <= 1 + asked - front.changeQ
    BY DEF TypeInv, FrontInv, Upto
  <2> QED
    BY SMTT(30), <1>1, <1>2, <2>1, UptoType, NumbersLemma
<1>4. /\ front' \in Fronts /\ front'.mode = "write" /\ front'.actor = front.actor
      /\ front'.changeQ = front.changeQ /\ front'.seq = front.seq + n
  BY <1>1, <1>2, <1>3, WrittenLemma
<1>5. /\ cs \in Seq(Change) /\ Len(cs) = n /\ DOMAIN cs = 1..n
      /\ \A i \in 1..n : cs[i] = [actor |-> front.actor, seq |-> front.seq + i]
  <2>1. front.seq + n \in front.seq..MaxSeq /\ (front.seq + n) - front.seq = n
    BY <1>2, <1>3, NumbersLemma
  <2>2. IsRun(cs, front.actor, front.seq, n)
    BY <1>2, <2>1, ChangesOfIs
  <2> HIDE DEF cs
  <2> QED
    BY <2>2 DEF IsRun
<1>6. /\ Reverse(cs) \in Seq(Change) /\ Len(Reverse(cs)) = n /\ DOMAIN Reverse(cs) = 1..n
      /\ \A i \in 1..n : Reverse(cs)[i] = cs[n + 1 - i]
  <2> HIDE DEF cs
  <2> QED
    BY <1>5, ReverseLemma
<1> HIDE DEF cs
<1>7. \A i \in 1..n : Reverse(cs)[i] = [actor |-> front.actor, seq |-> front.seq + n + 1 - i]
  <2>1. \A i \in 1..n : n + 1 - i \in 1..n /\ front.seq + (n + 1 - i) = front.seq + n + 1 - i
    BY <1>2
  <2> QED
    BY <1>5, <1>6, <2>1
<1> QED
  BY <1>1, <1>2, <1>4, <1>6, <1>7 DEF Writes, cs

LEMMA WriteChangeType ==
  ASSUME TypeInv, NEW n \in 1..2, WriteChange(n)
  PROVE  TypeInv' /\ Author' = Author
<1> DEFINE cs == Reverse(ChangesOf(front.actor, front.seq, front.seq + n))
           r == Requests(cs)
<1>1. Writes(n)
  BY WritesLemma
<1>2. /\ asked' = asked + n /\ front' \in Fronts /\ front.mode = "write"
      /\ front'.mode = "write" /\ front'.actor = front.actor /\ asked + n <= MaxChanges
      /\ front'.changeQ = front.changeQ /\ front'.seq = front.seq + n
      /\ UNCHANGED <<destroys, toFrontend, backendVars>> /\ toBackend' = toBackend \o r
      /\ front.actor \in Locals /\ front.actor = Author
  BY <1>1 DEF Writes
<1>3. /\ cs \in Seq(Change) /\ Len(cs) = n /\ DOMAIN cs = 1..n
      /\ \A i \in 1..n : cs[i] = [actor |-> front.actor, seq |-> front.seq + n + 1 - i]
  BY <1>1 DEF Writes
<1> HIDE DEF cs
<1>4. /\ r \in Seq(BackMsgs) /\ DOMAIN r = 1..n
      /\ \A i \in 1..n : r[i].type = "RequestMsg" /\ r[i].change = cs[i]
  BY <1>3, RequestsLemma
<1> HIDE DEF r
<1>5. /\ asked \in Nat /\ asked' \in 0..MaxChanges /\ front.changeQ <= asked
      /\ front.changeQ \in Nat /\ front.seq \in Nat /\ front.seq <= Upto /\ Upto \in Nat
  BY <1>2, UptoType, NumbersLemma DEF TypeInv, FrontInv
<1>6. Upto' = Upto + n /\ Upto' \in Nat /\ front.seq + n <= Upto'
  <2>1. n \in Nat
    OBVIOUS
  <2>2. Upto' = 1 + (asked + n) - front.changeQ
    BY <1>2 DEF Upto
  <2> QED
    BY <1>5, <2>1, <2>2 DEF Upto
<1>7. QueueInv' /\ Author' = Author /\ toBackend' \in Seq(BackMsgs)
  <2>1. UNCHANGED <<docState, docActor, spares>>
    BY <1>2 DEF backendVars
  <2>2. Upto <= Upto' /\ asked <= asked' /\ asked' \in Nat
    BY <1>2, <1>5, <1>6
  <2>3. \A j \in DOMAIN r : /\ r[j].type \notin {"CreateMsg", "NeedsActorIdMsg"}
                            /\ r[j].change \in Change /\ r[j].change.actor = Author
                            /\ r[j].change.seq <= Upto'
    <3> TAKE j \in DOMAIN r
    <3>1. r[j].change = cs[j] /\ cs[j] \in Change /\ j \in 1..n
      BY <1>3, <1>4, LenProperties
    <3>2. cs[j].actor = Author /\ cs[j].seq = front.seq + n + 1 - j
      BY <1>2, <1>3, <3>1
    <3> QED
      BY <1>4, <1>5, <1>6, <3>1, <3>2
  <2> QED
    BY <1>2, <1>4, <1>6, <2>1, <2>2, <2>3, QueueAppend
<1>8. FrontInv'
  <2>1. front.actor # NoActor
    BY <1>2, NumbersLemma
  <2>2. front'.mode # "none" /\ front'.mode = "write"
    BY <1>2
  <2>3. front'.changeQ <= asked' /\ front'.seq <= Upto'
    BY <1>2, <1>5, <1>6
  <2> QED
    BY <1>2, <1>7, <2>1, <2>2, <2>3 DEF FrontInv
<1>9. destroys' \in 0..MaxDestroys /\ upsets' \subseteq {"early", "nested", "reopened"}
  BY <1>2 DEF TypeInv, TypeOK, WriteChange
<1>10. Upto <= Upto'
  BY <1>5, <1>6
<1> QED
  BY <1>2, <1>5, <1>6, <1>7, <1>8, <1>9, <1>10, SameMessages, FrontTypes

LEMMA DestroyType ==
  ASSUME TypeInv, Destroy
  PROVE  TypeInv' /\ Author' = Author
<1>1. /\ front' = NewFrontend("none", NoActor) /\ destroys' = destroys + 1
      /\ destroys < MaxDestroys
      /\ UNCHANGED <<asked, toBackend, toFrontend, backendVars, upsets>>
  BY DEF Destroy
<1>2. /\ front'.mode = "none" /\ front'.actor = NoActor /\ front'.changeQ = 0 /\ front'.seq = 0
      /\ front'.requests = <<>> /\ front' \in Fronts
  BY <1>1, NewFrontendType DEF NewFrontend
<1>3. /\ asked \in 0..MaxChanges /\ asked' \in 0..MaxChanges /\ destroys \in Nat
      /\ destroys' \in 0..MaxDestroys /\ destroys' # 0
      /\ upsets' \subseteq {"early", "nested", "reopened"} /\ toBackend' \in Seq(BackMsgs)
  BY <1>1, NumbersLemma DEF TypeInv, TypeOK
<1>4. Upto <= Upto' /\ Upto \in Nat /\ Upto' \in Nat /\ Upto' >= 0
  BY <1>1, <1>2, <1>3, UptoType, NumbersLemma DEF Upto
<1>5. Author' = Author
  BY <1>1 DEF Author, Creating, backendVars
<1>6. QueueInv'
  <2>1. ASSUME NEW i \in InFlight
        PROVE  toBackend[i].change.seq <= Upto'
    <3>1. toBackend[i].change \in Change /\ toBackend[i].change.seq <= Upto
      BY <2>1 DEF TypeInv, QueueInv
    <3>2. toBackend[i].change.seq \in Nat
      BY <3>1, ChangeType, NumbersLemma
    <3> QED
      BY <1>4, <3>1, <3>2
  <2>2. InFlight' = InFlight
    BY <1>1 DEF InFlight
  <2> QED
    BY <1>1, <1>5, <2>1, <2>2 DEF TypeInv, QueueInv, Count, Places, backendVars
<1>7. FrontInv'
  BY <1>1, <1>2, <1>3, <1>4 DEF FrontInv
<1> QED
  BY <1>1, <1>2, <1>3, <1>4, <1>5, <1>6, <1>7, SameMessages, FrontTypes

LEMMA ReceivedType ==
  ASSUME TypeInv, Received
  PROVE  TypeInv' /\ Author' = Author
<1> DEFINE m == Head(toFrontend)
<1>0. toFrontend # <<>> /\ toFrontend \in Seq(FrontMsgs) /\ front \in Fronts
  BY DEF Received, TypeInv, TypeOK
<1>1. m \in FrontMsgs /\ m = toFrontend[1] /\ 1 \in DOMAIN toFrontend
  BY <1>0, TailOf
<1>2. docState = "ready" /\ m.patch.seq <= Upto /\ m.patch.seq \in Nat /\ docActor \in Locals
      /\ docActor # NoActor /\ Author = docActor
  <2>1. docState = "ready" /\ m.patch.seq <= Upto
    BY <1>1 DEF TypeInv, MsgInv
  <2>2. m.patch.seq \in Nat
    BY <1>1, NumbersLemma DEF FrontMsgs, Patches
  <2> QED
    BY <2>1, <2>2 DEF TypeInv, TypeOK, DocInv, Author
<1>3. /\ toFrontend' = Tail(toFrontend) /\ front' \in Fronts
      /\ UNCHANGED <<asked, destroys, backendVars, upsets>>
  BY DEF Received
<1>4. /\ asked \in 0..MaxChanges /\ asked' \in 0..MaxChanges /\ destroys' \in 0..MaxDestroys
      /\ upsets' \subseteq {"early", "nested", "reopened"} /\ toBackend \in Seq(BackMsgs)
      /\ UNCHANGED <<docState, docActor, spares>>
  BY <1>3 DEF TypeInv, TypeOK, backendVars
<1>5. CASE UNCHANGED <<front, toBackend>>
  <2>1. Author' = Author /\ Upto' = Upto /\ Upto \in Nat /\ Upto <= Upto' /\ Upto' \in Nat
    BY <1>3, <1>4, <1>5, UptoType, NumbersLemma DEF Author, Creating, Upto
  <2>2. FrontInv'
    BY <1>3, <1>4, <1>5, <2>1 DEF TypeInv, FrontInv
  <2>3. QueueInv'
    BY <1>3, <1>4, <1>5, <2>1 DEF TypeInv, QueueInv, InFlight, Count, Places
  <2>4. toBackend' \in Seq(BackMsgs)
    BY <1>4, <1>5
  <2> QED
    BY <1>0, <1>3, <1>4, <2>1, <2>2, <2>3, <2>4, SameMessages, FrontTypes
<1>6. ASSUME front.mode # "none", NEW a \in {front.actor, docActor}, NEW s \in {front.seq, m.patch.seq},
             s >= front.seq,
             \/ Kept(front, front', a, s) /\ UNCHANGED toBackend
             \/ /\ Enabled(front, front', a, s)
                /\ toBackend' = toBackend \o Requests(ChangesOf(a, s, s + front.changeQ))
      PROVE  TypeInv' /\ Author' = Author
  <2>0. /\ front.changeQ <= asked /\ front.seq <= Upto /\ front.actor \in {NoActor, Author}
        /\ front.mode = "write" => front.actor # NoActor
        /\ front.mode # "write" => front.requests = <<>>
    BY DEF TypeInv, FrontInv
  <2>1. s \in Nat /\ s <= Upto /\ front.seq \in Nat /\ front.changeQ \in Nat /\ Upto \in Nat
        /\ a \in {NoActor, Author}
    BY <1>2, <2>0, UptoType, NumbersLemma
  <2>2. CASE Kept(front, front', a, s) /\ UNCHANGED toBackend
    <3>1. Author' = Author /\ Upto' = Upto /\ Upto <= Upto' /\ Upto' \in Nat
      BY <1>3, <1>4, <2>1, <2>2 DEF Author, Creating, Upto, Kept
    <3>2. FrontInv'
      <4>1. front'.actor \in {NoActor, Author'} /\ front'.mode # "none"
        BY <1>6, <2>1, <2>2, <3>1 DEF Kept
      <4>2. front'.mode = "write" => front'.actor # NoActor
        <5>1. front'.mode = "write" => front.mode = "write" /\ front.actor = Author
          BY <2>0, <2>2 DEF Kept
        <5>2. front'.mode = "write" => a = Author
          BY <1>2, <5>1
        <5> QED
          BY <1>2, <2>2, <5>2 DEF Kept
      <4>3. front'.mode # "write" => front'.requests = <<>>
        BY <2>0, <2>2 DEF Kept
      <4>4. front'.changeQ <= asked' /\ front'.seq <= Upto'
        BY <1>3, <2>0, <2>1, <2>2, <3>1 DEF Kept
      <4> QED
        BY <4>1, <4>2, <4>3, <4>4 DEF FrontInv
    <3>3. QueueInv'
      BY <1>3, <1>4, <2>2, <3>1 DEF TypeInv, QueueInv, InFlight, Count, Places
    <3>4. toBackend' \in Seq(BackMsgs)
      BY <1>4, <2>2
    <3> QED
      BY <1>0, <1>3, <1>4, <3>1, <3>2, <3>3, <3>4, SameMessages, FrontTypes
  <2>3. CASE /\ Enabled(front, front', a, s)
             /\ toBackend' = toBackend \o Requests(ChangesOf(a, s, s + front.changeQ))
    <3> DEFINE n == front.changeQ
               cs == ChangesOf(a, s, s + n)
               r == Requests(cs)
    <3>1. /\ front'.actor = a /\ front'.seq = s + n /\ front'.changeQ = 0 /\ a = Author
          /\ front'.mode = "write" /\ toBackend' = toBackend \o r
      BY <2>1, <2>3 DEF Enabled
    <3>2. Upto' = Upto + n /\ Upto' \in Nat /\ Upto <= Upto' /\ s + n <= Upto'
      BY SMTT(30), <1>3, <1>4, <2>1, <3>1, NumbersLemma DEF Upto
    <3>3. s + n <= MaxSeq
      BY <1>4, <2>0, <2>1, <3>2, NumbersLemma DEF Upto
    <3>4. /\ cs \in Seq(Change) /\ DOMAIN cs = 1..n
          /\ \A i \in 1..n : cs[i].actor = a /\ cs[i].seq = s + i
      <4>1. a \in Locals \cup {Remote} /\ n \in Nat
        BY <1>2, <2>1, <3>1
      <4> HIDE DEF n
      <4>2. s + n \in s..MaxSeq /\ (s + n) - s = n
        BY <2>1, <3>3, <4>1, NumbersLemma
      <4>3. IsRun(cs, a, s, n)
        BY <2>1, <4>1, <4>2, ChangesOfIs
      <4> HIDE DEF cs
      <4> QED
        BY <4>3 DEF IsRun
    <3> HIDE DEF cs
    <3>5. /\ r \in Seq(BackMsgs) /\ DOMAIN r = 1..n
          /\ \A i \in 1..n : r[i].type = "RequestMsg" /\ r[i].change = cs[i]
      BY <3>4, RequestsLemma
    <3> HIDE DEF r
    <3>6. QueueInv' /\ Author' = Author /\ toBackend' \in Seq(BackMsgs)
      <4>1. \A j \in DOMAIN r : /\ r[j].type \notin {"CreateMsg", "NeedsActorIdMsg"}
                                /\ r[j].change \in Change /\ r[j].change.actor = Author
                                /\ r[j].change.seq <= Upto'
        <5> TAKE j \in DOMAIN r
        <5>1. r[j].change = cs[j] /\ cs[j] \in Change /\ j \in 1..n
          BY <3>4, <3>5, LenProperties
        <5>2. cs[j].actor = Author /\ cs[j].seq = s + j
          BY <3>1, <3>4, <5>1
        <5> QED
          BY <2>1, <3>2, <3>5, <5>1, <5>2
      <4>2. asked <= asked' /\ asked' \in Nat
        BY <1>3, <1>4, NumbersLemma
      <4> QED
        BY <1>4, <3>1, <3>2, <3>5, <4>1, <4>2, QueueAppend
    <3>7. FrontInv'
      <4>1. front'.actor # NoActor /\ front'.actor = Author' /\ front'.mode # "none"
        BY <1>2, <3>1, <3>6
      <4>2. front'.changeQ <= asked' /\ front'.seq <= Upto'
        BY <1>3, <1>4, <3>1, <3>2, NumbersLemma
      <4> QED
        BY <3>1, <4>1, <4>2 DEF FrontInv
    <3> QED
      BY <1>0, <1>3, <1>4, <3>2, <3>6, <3>7, SameMessages, FrontTypes
  <2> QED
    BY <1>6, <2>2, <2>3
<1> QED
  BY <1>5, <1>6 DEF Received

-----------------------------------------------------------------------------
(* The steps of the backend *)

LEMMA StoresLemma ==
  ASSUME NEW S \in Stores
  PROVE  /\ S \in SUBSET Change /\ Closed(S)
         /\ \A c \in S : c.seq = 1 /\ c.actor \in {Old, Remote}
<1>1. PICK n \in {0, 1}, m \in {0, 1} : S = ToSet(ChangesOf(Old, 0, n)) \cup ToSet(ChangesOf(Remote, 0, m))
  BY DEF Stores
<1>2. /\ n \in 0..MaxSeq /\ m \in 0..MaxSeq /\ n \in Nat /\ m \in Nat
      /\ Old \in Locals \cup {Remote} /\ Remote \in Locals \cup {Remote}
  BY NumbersLemma DEF Locals
<1>3. \A c : c \in ToSet(ChangesOf(Old, 0, n)) <=> c \in Change /\ c.actor = Old /\ c.seq \in (0 + 1)..n
  BY <1>2, ChangesOfSet
<1>4. \A c : c \in ToSet(ChangesOf(Remote, 0, m)) <=> c \in Change /\ c.actor = Remote /\ c.seq \in (0 + 1)..m
  BY <1>2, ChangesOfSet
<1>5. /\ \A c : c \in (0 + 1)..n => c = 1
      /\ \A c : c \in (0 + 1)..m => c = 1
  OBVIOUS
<1>6. /\ S \in SUBSET Change
      /\ \A c \in S : c.seq = 1 /\ c.actor \in {Old, Remote}
  BY <1>1, <1>3, <1>4, <1>5
<1>7. Closed(S)
  <2> SUFFICES ASSUME NEW c \in S, NEW k \in 1..c.seq
               PROVE  [actor |-> c.actor, seq |-> k] \in S
    BY DEF Closed
  <2>1. k = c.seq /\ c = [actor |-> c.actor, seq |-> c.seq]
    BY <1>6, ChangeType
  <2> QED
    BY <2>1
<1> QED
  BY <1>6, <1>7

LEMMA LatestBound ==
  ASSUME NEW S \in SUBSET Change, \A c \in S : IsNumbered(c), Upto \in Nat
  PROVE  \A a \in Locals \cup {NoActor} : Latest(S, a) <= Upto
<1> TAKE a \in Locals \cup {NoActor}
<1>1. Latest(S, a) \in 0..MaxSeq /\ IsLatest(S, a, Latest(S, a))
  BY LatestLemma
<1>2. CASE Latest(S, a) = 0
  BY <1>2
<1>3. CASE Latest(S, a) # 0
  <2> DEFINE d == [actor |-> a, seq |-> Latest(S, a)]
  <2>1. d \in S /\ d.actor = a /\ d.seq = Latest(S, a)
    BY <1>1, <1>3 DEF IsLatest
  <2> HIDE DEF d
  <2>2. IsNumbered(d) /\ d.actor # Remote
    BY <2>1, NumbersLemma
  <2> QED
    BY <2>1, <2>2 DEF IsNumbered
<1> QED
  BY <1>2, <1>3

LEMMA ArrivingLemma ==
  ASSUME NEW S \in SUBSET Change, NEW n \in 0..1, Latest(S, Remote) + n <= MaxRemote
  PROVE  /\ Arriving(S, n) \in SUBSET Change
         /\ \A c \in Arriving(S, n) : c.actor = Remote /\ c.seq <= MaxRemote
         /\ Closed(S) => Closed(S \cup Arriving(S, n))
<1> DEFINE k == Latest(S, Remote)
           T == Arriving(S, n)
<1>1. k \in 0..MaxSeq /\ IsLatest(S, Remote, k)
  BY LatestLemma
<1>2. k \in Nat /\ k + n \in k..MaxSeq /\ k + n <= MaxRemote
  BY <1>1, NumbersLemma
<1>3. \A c : c \in T <=> c \in Change /\ c.actor = Remote /\ c.seq \in (k + 1)..(k + n)
  <2>1. T = ToSet(ChangesOf(Remote, k, k + n))
    BY DEF Arriving
  <2>2. Remote \in Locals \cup {Remote}
    OBVIOUS
  <2> HIDE DEF k, T
  <2> QED
    BY <1>2, <2>1, <2>2, ChangesOfSet
<1> HIDE DEF k, T
<1>4. \A c \in T : c.seq <= MaxRemote
  BY <1>2, <1>3, NumbersLemma
<1>5. ASSUME Closed(S), NEW c \in S \cup T, NEW j \in 1..c.seq
      PROVE  [actor |-> c.actor, seq |-> j] \in S \cup T
  <2>1. CASE c \in S
    BY <1>5, <2>1 DEF Closed
  <2>2. CASE c \in T
    <3>1. c \in Change /\ c.actor = Remote /\ c.seq = k + 1 /\ c = [actor |-> c.actor, seq |-> c.seq]
      BY <1>2, <1>3, <2>2, ChangeType
    <3>2. CASE j = k + 1
      BY <2>2, <3>1, <3>2
    <3>3. CASE j # k + 1
      <4> DEFINE d == [actor |-> Remote, seq |-> k]
      <4>1. d \in S /\ d.seq = k /\ d.actor = Remote /\ j \in 1..d.seq
        BY <1>1, <1>2, <3>1, <3>3 DEF IsLatest
      <4> HIDE DEF d
      <4> QED
        BY <1>5, <3>1, <4>1 DEF Closed
    <3> QED
      BY <3>2, <3>3
  <2> QED
    BY <2>1, <2>2
<1> QED
  BY <1>3, <1>4, <1>5 DEF T, Closed

LEMMA PatchType ==
  ASSUME NEW add \in SUBSET Change, NEW ack \in Change \cup {NoChange}, NEW now \in SUBSET Change, NEW a
  PROVE  PatchOf(add, ack, now, a) \in Patches /\ PatchOf(add, ack, now, a).seq = Latest(now, a)
         /\ PatchOf(add, ack, now, a).add = add /\ PatchOf(add, ack, now, a).ack = ack
<1>1. Latest(now, a) \in 0..(MaxChanges + MaxRemote)
  BY LatestLemma DEF MaxSeq
<1> QED
  BY <1>1 DEF PatchOf, Patches

LEMMA PatchMsgType ==
  ASSUME NEW good \in BOOLEAN, NEW p \in Patches
  PROVE  /\ PatchMsg(good, p) \in FrontMsgs
         /\ PatchMsg(good, p).type = "PatchMsg" /\ PatchMsg(good, p).patch = p
  BY DEF PatchMsg, FrontMsgs

LEMMA ReadyMsgType ==
  ASSUME NEW good \in BOOLEAN, NEW a \in Locals, NEW p \in Patches
  PROVE  /\ ReadyMsg(good, a, TRUE, p) \in FrontMsgs
         /\ ReadyMsg(good, a, TRUE, p).type = "ReadyMsg"
         /\ ReadyMsg(good, a, TRUE, p).actor = a /\ ReadyMsg(good, a, TRUE, p).patch = p
  BY DEF ReadyMsg, FrontMsgs

LEMMA SmallMessageTypes ==
  ASSUME NEW a \in Locals
  PROVE  /\ ReadyMsg(FALSE, a, FALSE, NoPatch) \in FrontMsgs /\ ActorIdMsg(a) \in FrontMsgs
         /\ ReadyMsg(FALSE, a, FALSE, NoPatch).actor = a /\ ActorIdMsg(a).actor = a
         /\ ReadyMsg(FALSE, a, FALSE, NoPatch).type = "ReadyMsg" /\ ActorIdMsg(a).type = "ActorIdMsg"
         /\ ReadyMsg(FALSE, a, FALSE, NoPatch).patch.seq = 0 /\ ActorIdMsg(a).patch.seq = 0
<1>1. 0 \in 0..(MaxChanges + MaxRemote)
  BY NumbersLemma DEF MaxSeq
<1>2. NoPatch \in Patches /\ NoPatch.seq = 0
  BY <1>1 DEF NoPatch, Patches
<1> QED
  BY <1>2 DEF ReadyMsg, ActorIdMsg, FrontMsgs

\* A step of the backend that sends r.
LEMMA BackTypes ==
  ASSUME TypeInv, UNCHANGED frontVars, UNCHANGED stored,
         toBackend' \in Seq(BackMsgs), QueueInv', docState # "none" \/ toBackend # <<>>,
         docState' \in {"none", "loading", "ready"}, docActor' \in Locals \cup {NoActor},
         docState' = "ready" <=> docActor' # NoActor,
         docState = "ready" => docState' = "ready" /\ docActor' = docActor,
         front.actor # NoActor => Author' = Author,
         applied' \in SUBSET Change, held' \in SUBSET Change, feed' \in Seq(Change),
         \A c \in applied' \cup held' : IsNumbered(c),
         hasClock' \in BOOLEAN, spares' \in 0..MaxChanges,
         upsets' \subseteq {"early", "nested", "reopened"},
         NEW r \in Seq(FrontMsgs), toFrontend' = toFrontend \o r,
         \A i \in DOMAIN r : /\ docState' = "ready"
                             /\ r[i].type \in {"ReadyMsg", "ActorIdMsg"} => r[i].actor = docActor'
                             /\ r[i].patch.seq <= Upto
  PROVE  TypeInv'
<1>0. toFrontend \in Seq(FrontMsgs) /\ FrontInv /\ MsgInv /\ TypeOK
  BY DEF TypeInv, TypeOK
<1>1. Upto' = Upto /\ UNCHANGED <<front, asked, destroys>>
  BY DEF Upto, frontVars
<1>2. /\ toFrontend' \in Seq(FrontMsgs)
      /\ \A i \in DOMAIN toFrontend' :
           \/ i \in DOMAIN toFrontend /\ toFrontend'[i] = toFrontend[i]
           \/ i - Len(toFrontend) \in DOMAIN r /\ toFrontend'[i] = r[i - Len(toFrontend)]
  <2>1. \A i \in DOMAIN (toFrontend \o r) : i = Len(toFrontend) + (i - Len(toFrontend))
    BY <1>0, ConcatOf
  <2> QED
    BY <1>0, <2>1, ConcatOf
<1>3. MsgInv'
  <2> SUFFICES ASSUME NEW i \in DOMAIN toFrontend'
               PROVE  /\ docState' = "ready"
                      /\ toFrontend'[i].type \in {"ReadyMsg", "ActorIdMsg"} => toFrontend'[i].actor = docActor'
                      /\ toFrontend'[i].patch.seq <= Upto'
    BY DEF MsgInv
  <2>1. CASE i \in DOMAIN toFrontend /\ toFrontend'[i] = toFrontend[i]
    BY <1>0, <1>1, <2>1 DEF MsgInv
  <2>2. CASE i - Len(toFrontend) \in DOMAIN r /\ toFrontend'[i] = r[i - Len(toFrontend)]
    BY <1>1, <2>2
  <2> QED
    BY <1>2, <2>1, <2>2
<1>4. FrontInv'
  BY <1>0, <1>1 DEF FrontInv
<1>5. DocInv'
  <2>1. \A c \in applied' \cup held' : IsNumbered(c)'
    BY <1>1 DEF IsNumbered
  <2> QED
    BY <2>1 DEF DocInv
<1>6. TypeOK'
  BY <1>0, <1>1, <1>2 DEF TypeOK
<1> QED
  BY <1>3, <1>4, <1>5, <1>6 DEF TypeInv

\* What is at the head of the backend's queue.
LEMMA HeadOfQueue ==
  ASSUME TypeInv, toBackend # <<>>
  PROVE  /\ toBackend \in Seq(BackMsgs) /\ 1 \in DOMAIN toBackend /\ Head(toBackend) = toBackend[1]
         /\ Creating <=> Head(toBackend).type = "CreateMsg"
         /\ Creating => docState = "none"
         /\ Head(toBackend).type = "RequestMsg" =>
              /\ 1 \in InFlight
              /\ Head(toBackend).change \in Change
              /\ Head(toBackend).change.actor = Author /\ Head(toBackend).change.seq <= Upto
<1>1. toBackend \in Seq(BackMsgs) /\ QueueInv
  BY DEF TypeInv, TypeOK
<1>2. 1 \in DOMAIN toBackend /\ Head(toBackend) = toBackend[1]
  BY <1>1, TailOf
<1> QED
  BY <1>1, <1>2 DEF QueueInv, Creating, InFlight

LEMMA NoMessages == <<>> \in Seq(FrontMsgs) /\ DOMAIN <<>> = {}
  BY EmptySeq

LEMMA BackTypesNow ==
  ASSUME TypeInv
  PROVE  /\ asked \in 0..MaxChanges /\ applied \in SUBSET Change /\ held \in SUBSET Change
         /\ feed \in Seq(Change) /\ hasClock \in BOOLEAN /\ spares \in 0..MaxChanges
         /\ upsets \subseteq {"early", "nested", "reopened"} /\ stored \in Stores
         /\ docState \in {"none", "loading", "ready"} /\ docActor \in Locals \cup {NoActor}
         /\ docState = "ready" <=> docActor # NoActor
         /\ toFrontend \in Seq(FrontMsgs) /\ toFrontend \o <<>> = toFrontend
         /\ \A c \in applied \cup held : IsNumbered(c)
         /\ front.actor \in {NoActor, Author}
  BY ConcatEmptySeq DEF TypeInv, TypeOK, DocInv, FrontInv

LEMMA ReceiveCreateType ==
  ASSUME TypeInv, ReceiveCreate
  PROVE  TypeInv' /\ Author' = Author
<1> DEFINE r == <<ReadyMsg(FALSE, Root, FALSE, NoPatch)>>
<1>1. /\ toBackend # <<>> /\ Head(toBackend).type = "CreateMsg" /\ toBackend' = Tail(toBackend)
      /\ docState' = "ready" /\ docActor' = Root /\ hasClock' = TRUE
      /\ toFrontend' = toFrontend \o r
      /\ UNCHANGED <<frontVars, stored, applied, held, feed, spares, upsets>>
  BY DEF ReceiveCreate, Heading, Notify
<1>2. Root \in Locals /\ Root # NoActor
  BY NumbersLemma DEF Locals
<1>3. /\ r \in Seq(FrontMsgs) /\ DOMAIN r = {1} /\ r[1].actor = Root /\ r[1].patch.seq = 0
  <2> DEFINE msg == ReadyMsg(FALSE, Root, FALSE, NoPatch)
  <2>1. msg \in FrontMsgs /\ msg.actor = Root /\ msg.patch.seq = 0
    BY <1>2, SmallMessageTypes
  <2> HIDE DEF msg
  <2>2. <<msg>> \in Seq(FrontMsgs) /\ DOMAIN <<msg>> = {1} /\ <<msg>>[1] = msg
    BY <2>1
  <2> QED
    BY <2>1, <2>2 DEF msg
<1> HIDE DEF r
<1>4. Creating /\ docState = "none"
  BY <1>1, HeadOfQueue
<1>5. Author' = Author
  BY <1>1, <1>4 DEF Author
<1>6. QueueInv' /\ toBackend' \in Seq(BackMsgs) /\ spares' \in 0..MaxChanges
  BY <1>1, <1>5, QueueTail
<1>7. \A i \in DOMAIN r : /\ docState' = "ready" /\ r[i].actor = docActor'
                          /\ r[i].patch.seq <= Upto
  BY <1>1, <1>3, UptoType, NumbersLemma
<1>8. \A c \in applied' \cup held' : IsNumbered(c)
  BY <1>1, BackTypesNow
<1> QED
  BY <1>1, <1>2, <1>3, <1>4, <1>5, <1>6, <1>7, <1>8, BackTypesNow, BackTypes

LEMMA ReceiveOpenType ==
  ASSUME TypeInv, ReceiveOpen
  PROVE  TypeInv' /\ Author' = Author
<1>1. /\ toBackend # <<>> /\ Head(toBackend).type = "OpenMsg" /\ toBackend' = Tail(toBackend)
      /\ docState' = IF docState = "none" THEN "loading" ELSE docState
      /\ UNCHANGED <<frontVars, toFrontend, stored, docActor, applied, held, feed, hasClock, spares, upsets>>
  BY DEF ReceiveOpen, Heading
<1>2. ~Creating
  BY <1>1, HeadOfQueue
<1>3. ~Creating'
  <2>1. \A i \in DOMAIN Tail(toBackend) : i + 1 \in DOMAIN toBackend /\ Tail(toBackend)[i] = toBackend[i + 1]
    BY <1>1, HeadOfQueue, TailOf
  <2> QED
    BY <1>1, <1>2, <2>1 DEF Creating
<1>4. Author' = Author
  BY <1>1, <1>2, <1>3, BackTypesNow DEF Author
<1>5. QueueInv' /\ toBackend' \in Seq(BackMsgs) /\ spares' \in 0..MaxChanges
  BY <1>1, <1>4, QueueTail
<1>6. toFrontend' = toFrontend \o <<>>
  BY <1>1, BackTypesNow
<1>7. \A c \in applied' \cup held' : IsNumbered(c)
  BY <1>1, BackTypesNow
<1>8. /\ docState' \in {"none", "loading", "ready"}
      /\ docState' = "ready" <=> docActor' # NoActor
      /\ docState = "ready" => docState' = "ready" /\ docActor' = docActor
  BY <1>1, BackTypesNow
<1> QED
  BY <1>1, <1>4, <1>5, <1>6, <1>7, <1>8, NoMessages, BackTypesNow, BackTypes

LEMMA ReceiveNeedsActorIdType ==
  ASSUME TypeInv, ReceiveNeedsActorId
  PROVE  TypeInv' /\ Author' = Author /\ docActor' = docActor
<1>1. /\ toBackend # <<>> /\ Head(toBackend).type = "NeedsActorIdMsg" /\ toBackend' = Tail(toBackend)
      /\ spares' = spares + 1
      /\ IF docState = "ready"
         THEN docActor' = KeptActor(Spare) /\ toFrontend' = toFrontend \o <<ActorIdMsg(docActor')>>
         ELSE UNCHANGED <<docActor, toFrontend>>
      /\ UNCHANGED <<frontVars, stored, docState, applied, held, feed, hasClock, upsets>>
  BY DEF ReceiveNeedsActorId, Heading, Notify
<1>2. ~Creating
  BY <1>1, HeadOfQueue
<1>3. ~Creating'
  <2>1. \A i \in DOMAIN Tail(toBackend) : i + 1 \in DOMAIN toBackend /\ Tail(toBackend)[i] = toBackend[i + 1]
    BY <1>1, HeadOfQueue, TailOf
  <2> QED
    BY <1>1, <1>2, <2>1 DEF Creating
<1>4. docActor' = docActor
  BY <1>1, BackTypesNow DEF KeptActor
<1>5. Author' = Author
  BY <1>1, <1>2, <1>3, <1>4 DEF Author
<1>6. QueueInv' /\ toBackend' \in Seq(BackMsgs) /\ spares' \in 0..MaxChanges
  BY <1>1, <1>5, QueueTail
<1>7. \A c \in applied' \cup held' : IsNumbered(c)
  BY <1>1, BackTypesNow
<1>8. CASE docState = "ready"
  <2> DEFINE r == <<ActorIdMsg(docActor)>>
  <2>1. docActor \in Locals
    BY <1>8, BackTypesNow
  <2>2. r \in Seq(FrontMsgs) /\ DOMAIN r = {1} /\ r[1].actor = docActor /\ r[1].patch.seq = 0
    <3> DEFINE msg == ActorIdMsg(docActor)
    <3>1. msg \in FrontMsgs /\ msg.actor = docActor /\ msg.patch.seq = 0
      BY <2>1, SmallMessageTypes
    <3> HIDE DEF msg
    <3>2. <<msg>> \in Seq(FrontMsgs) /\ DOMAIN <<msg>> = {1} /\ <<msg>>[1] = msg
      BY <3>1
    <3> QED
      BY <3>1, <3>2 DEF msg
  <2>3. toFrontend' = toFrontend \o r
    BY <1>1, <1>4, <1>8
  <2> HIDE DEF r
  <2>4. \A i \in DOMAIN r : /\ docState' = "ready" /\ r[i].actor = docActor'
                            /\ r[i].patch.seq <= Upto
    BY <1>1, <1>4, <1>8, <2>2, UptoType, NumbersLemma
  <2> QED
    BY <1>1, <1>4, <1>5, <1>6, <1>7, <1>8, <2>2, <2>3, <2>4, BackTypesNow, BackTypes
<1>9. CASE docState # "ready"
  <2>1. toFrontend' = toFrontend \o <<>>
    BY <1>1, <1>9, BackTypesNow
  <2> QED
    BY <1>1, <1>4, <1>5, <1>6, <1>7, <1>9, <2>1, NoMessages, BackTypesNow, BackTypes
<1> QED
  BY <1>4, <1>5, <1>8, <1>9

\* What a request does to the backend.
Answered(c, ripe) ==
  /\ toBackend # <<>> /\ Head(toBackend).type = "RequestMsg" /\ toBackend' = Tail(toBackend)
  /\ docState = "ready" /\ docActor \in Locals /\ Author = docActor
  /\ c = Head(toBackend).change /\ c \in Change /\ c.actor = docActor /\ c.seq <= Upto
  /\ ripe = Ripe(held \cup {c}, applied) /\ ripe \in SUBSET Change
  /\ applied' \in SUBSET Change
  /\ \/ UNCHANGED <<applied, held, feed, hasClock, toFrontend>> /\ ~IsFeedable(c)
     \/ /\ IsFeedable(c)
        /\ applied' = applied \cup ripe /\ held' = (held \cup {c}) \ ripe /\ feed' = Append(feed, c)
        /\ \E good \in BOOLEAN :
             /\ hasClock' = good
             /\ toFrontend' = toFrontend \o <<PatchMsg(good, PatchOf(ripe, c, applied', docActor))>>
  /\ UNCHANGED <<frontVars, stored, docState, docActor, spares, upsets>>

LEMMA AnsweredLemma ==
  ASSUME TypeInv, ReceiveRequest
  PROVE  \E c, ripe : Answered(c, ripe)
<1> DEFINE c == Head(toBackend).change
           ripe == Ripe(held \cup {c}, applied)
<1>1. /\ toBackend # <<>> /\ Head(toBackend).type = "RequestMsg" /\ docState = "ready"
  BY DEF ReceiveRequest, Heading
<1>2. docActor \in Locals /\ Author = docActor
  BY <1>1, BackTypesNow DEF Author
<1>3. c \in Change /\ c.actor = docActor /\ c.seq <= Upto
  BY <1>1, <1>2, HeadOfQueue
<1>4. applied \in SUBSET Change /\ held \cup {c} \in SUBSET Change /\ hasClock \in BOOLEAN
  BY <1>3, BackTypesNow
<1>5. ripe \in SUBSET Change /\ applied \cup ripe \in SUBSET Change
  BY <1>4, RipeLemma
<1>6. Good(hasClock) \subseteq BOOLEAN
  BY DEF Good
<1>7. /\ toBackend' = Tail(toBackend)
      /\ IF IsFeedable(c)
         THEN /\ applied' = applied \cup ripe
              /\ held' = (held \cup {c}) \ ripe
              /\ feed' = Append(feed, c)
              /\ \E good \in Good(hasClock) :
                   /\ hasClock' = good
                   /\ toFrontend' = toFrontend \o <<PatchMsg(good, PatchOf(ripe, c, applied', docActor))>>
         ELSE UNCHANGED <<applied, held, feed, hasClock, toFrontend>>
      /\ UNCHANGED <<frontVars, stored, docState, docActor, spares, upsets>>
  BY DEF ReceiveRequest, Notify
<1> HIDE DEF c
<1>8. ripe = Ripe(held \cup {c}, applied)
  OBVIOUS
<1> HIDE DEF ripe
<1>9. CASE IsFeedable(c)
  <2>1. Answered(c, ripe)
    BY <1>1, <1>2, <1>3, <1>4, <1>5, <1>6, <1>7, <1>8, <1>9 DEF Answered, c
  <2> QED
    BY <2>1
<1>10. CASE ~IsFeedable(c)
  <2>1. Answered(c, ripe)
    BY <1>1, <1>2, <1>3, <1>4, <1>5, <1>6, <1>7, <1>8, <1>10 DEF Answered, c
  <2> QED
    BY <2>1
<1> QED
  BY <1>9, <1>10

LEMMA ReceiveRequestType ==
  ASSUME TypeInv, NEW c, NEW ripe, Answered(c, ripe)
  PROVE  TypeInv' /\ Author' = Author
<1>1. /\ toBackend # <<>> /\ Head(toBackend).type = "RequestMsg" /\ toBackend' = Tail(toBackend)
      /\ docState = "ready" /\ docActor \in Locals
      /\ c \in Change /\ c.actor = docActor /\ c.seq <= Upto
      /\ ripe = Ripe(held \cup {c}, applied) /\ ripe \in SUBSET Change /\ applied' \in SUBSET Change
      /\ UNCHANGED <<frontVars, stored, docState, docActor, spares, upsets>>
  BY DEF Answered
<1>2. Author' = Author
  BY <1>1 DEF Author
<1>3. QueueInv' /\ toBackend' \in Seq(BackMsgs) /\ spares' \in 0..MaxChanges
  BY <1>1, <1>2, QueueTail
<1>4. CASE UNCHANGED <<applied, held, feed, hasClock, toFrontend>>
  <2>1. toFrontend' = toFrontend \o <<>>
    BY <1>4, BackTypesNow
  <2>2. \A d \in applied' \cup held' : IsNumbered(d)
    BY <1>4, BackTypesNow
  <2> QED
    BY <1>1, <1>2, <1>3, <1>4, <2>1, <2>2, NoMessages, BackTypesNow, BackTypes
<1>5. ASSUME applied' = applied \cup ripe, held' = (held \cup {c}) \ ripe, feed' = Append(feed, c),
             NEW good \in BOOLEAN, hasClock' = good,
             toFrontend' = toFrontend \o <<PatchMsg(good, PatchOf(ripe, c, applied', docActor))>>
      PROVE  TypeInv'
  <2> DEFINE msg == PatchMsg(good, PatchOf(ripe, c, applied', docActor))
             r == <<msg>>
  <2>1. \A d \in applied' \cup held' : IsNumbered(d)
    <3>1. IsNumbered(c)
      BY <1>1, NumbersLemma DEF IsNumbered
    <3>2. ripe \subseteq held \cup {c}
      BY <1>1 DEF Ripe
    <3> QED
      BY <1>5, <3>1, <3>2, BackTypesNow
  <2>2. msg \in FrontMsgs /\ msg.type = "PatchMsg" /\ msg.patch.seq = Latest(applied', docActor)
    <3> DEFINE p == PatchOf(ripe, c, applied', docActor)
    <3>0. ripe \in SUBSET Change /\ c \in Change \cup {NoChange} /\ applied' \in SUBSET Change
      BY <1>1
    <3>1. p \in Patches /\ p.seq = Latest(applied', docActor)
      BY <3>0, PatchType
    <3> HIDE DEF p
    <3>2. /\ PatchMsg(good, p) \in FrontMsgs /\ PatchMsg(good, p).type = "PatchMsg"
          /\ PatchMsg(good, p).patch = p
      BY <1>5, <3>1, PatchMsgType
    <3> QED
      BY <3>1, <3>2 DEF p
  <2>3. Latest(applied', docActor) <= Upto
    <3>1. \A S \in SUBSET Change : (\A d \in S : IsNumbered(d)) => Latest(S, docActor) <= Upto
      BY <1>1, LatestBound, UptoType, NumbersLemma
    <3> QED
      BY <1>1, <2>1, <3>1
  <2> HIDE DEF msg
  <2>4. r \in Seq(FrontMsgs) /\ DOMAIN r = {1} /\ r[1] = msg
    BY <2>2
  <2>5. toFrontend' = toFrontend \o r
    BY <1>5 DEF msg
  <2> HIDE DEF r
  <2>6. \A i \in DOMAIN r : /\ docState' = "ready" /\ r[i].type \notin {"ReadyMsg", "ActorIdMsg"}
                            /\ r[i].patch.seq <= Upto
    BY <1>1, <2>2, <2>3, <2>4
  <2>7. held' \in SUBSET Change /\ feed' \in Seq(Change)
    BY <1>1, <1>5, BackTypesNow, AppendProperties
  <2> QED
    BY <1>1, <1>2, <1>3, <1>5, <2>1, <2>4, <2>5, <2>6, <2>7, BackTypesNow, BackTypes
<1> QED
  BY <1>2, <1>4, <1>5 DEF Answered

LEMMA LoadType ==
  ASSUME TypeInv, NEW n \in 0..1, Load(n)
  PROVE  /\ TypeInv' /\ docState = "loading" /\ Author = NoActor /\ InFlight = {} /\ ~Creating
         /\ docActor' \in Locals
<1> DEFINE late == Arriving(stored, n)
           b == docActor'
<1>1. /\ docState = "loading" /\ Latest(stored, Remote) + n <= MaxRemote
      /\ docState' = "ready" /\ docActor' = b /\ applied' = stored \cup late
      /\ upsets' \subseteq upsets \cup {"early"}
      /\ UNCHANGED <<frontVars, toBackend, stored, held, feed, spares>>
  BY DEF Load
<1>2. b \in Locals /\ b # NoActor
  BY NumbersLemma DEF Load, LocalActorIds, Locals
<1>3. ~Creating /\ Author = NoActor /\ front.actor = NoActor
  <2>1. ~Creating
    BY <1>1 DEF Creating, TypeInv, QueueInv
  <2> QED
    BY <1>1, <2>1, BackTypesNow DEF Author
<1>4. InFlight = {}
  <2> SUFFICES ASSUME NEW i \in InFlight
               PROVE  FALSE
    OBVIOUS
  <2>1. toBackend[i].change \in Change /\ toBackend[i].change.actor = NoActor
    BY <1>3 DEF TypeInv, QueueInv
  <2> QED
    BY <2>1, ChangeType, NumbersLemma
<1>5. QueueInv' /\ toBackend' \in Seq(BackMsgs)
  <2>1. InFlight' = {} /\ toBackend' \in Seq(BackMsgs)
    BY <1>1, <1>4 DEF InFlight, TypeInv, TypeOK
  <2>2. \A i \in DOMAIN toBackend' : toBackend'[i].type # "CreateMsg"
    BY <1>1, <1>3 DEF Creating
  <2>3. spares' + Count(toBackend', "NeedsActorIdMsg") <= asked'
    BY <1>1 DEF TypeInv, QueueInv, frontVars
  <2> QED
    BY <2>1, <2>2, <2>3 DEF QueueInv
<1>6. /\ stored \in SUBSET Change /\ Closed(stored)
      /\ \A c \in stored : c.seq = 1 /\ c.actor \in {Old, Remote}
  BY BackTypesNow, StoresLemma
<1>7. late \in SUBSET Change /\ \A c \in late : c.actor = Remote /\ c.seq <= MaxRemote
  BY <1>1, <1>6, ArrivingLemma
<1>8. Upto \in Nat /\ 1 <= Upto
  BY UptoType, NumbersLemma
<1> HIDE DEF late, b
<1>9. /\ applied' \in SUBSET Change /\ \A c \in applied' \cup held' : IsNumbered(c)
      /\ \A c \in stored : IsNumbered(c)
  <2>1. \A c \in stored : IsNumbered(c)
    BY <1>6, <1>8, NumbersLemma DEF IsNumbered
  <2>2. \A c \in late : IsNumbered(c)
    BY <1>7 DEF IsNumbered
  <2> QED
    BY <1>1, <1>6, <1>7, <2>1, <2>2, BackTypesNow
<1>10. \E first \in BOOLEAN, good \in BOOLEAN :
         /\ hasClock' \in BOOLEAN
         /\ toFrontend' = toFrontend \o
              ((IF n > 0 THEN <<PatchMsg(first, PatchOf(late, NoChange, applied', docActor'))>> ELSE <<>>)
               \o <<ReadyMsg(good, docActor', TRUE, PatchOf(stored, NoChange, stored, docActor'))>>)
  BY BackTypesNow DEF Load, Notify, Good, late
<1>11. PICK first \in BOOLEAN, good \in BOOLEAN :
         /\ hasClock' \in BOOLEAN
         /\ toFrontend' = toFrontend \o
              ((IF n > 0 THEN <<PatchMsg(first, PatchOf(late, NoChange, applied', docActor'))>> ELSE <<>>)
               \o <<ReadyMsg(good, docActor', TRUE, PatchOf(stored, NoChange, stored, docActor'))>>)
  BY <1>10
<1> DEFINE one == PatchMsg(first, PatchOf(late, NoChange, applied', docActor'))
           two == ReadyMsg(good, docActor', TRUE, PatchOf(stored, NoChange, stored, docActor'))
           r == (IF n > 0 THEN <<one>> ELSE <<>>) \o <<two>>
<1>12. one \in FrontMsgs /\ one.type = "PatchMsg" /\ one.patch.seq <= Upto
  <2> DEFINE p == PatchOf(late, NoChange, applied', docActor')
  <2>1. p \in Patches /\ p.seq = Latest(applied', docActor')
    BY <1>7, <1>9, PatchType
  <2>2. Latest(applied', docActor') <= Upto
    <3>1. \A S \in SUBSET Change : (\A d \in S : IsNumbered(d)) => Latest(S, b) <= Upto
      BY <1>2, <1>8, LatestBound
    <3> QED
      BY <1>1, <1>9, <3>1
  <2> HIDE DEF p
  <2>3. one = PatchMsg(first, p)
    BY DEF p
  <2> HIDE DEF one
  <2> QED
    BY <2>1, <2>2, <2>3, PatchMsgType
<1>13. two \in FrontMsgs /\ two.type = "ReadyMsg" /\ two.actor = docActor' /\ two.patch.seq <= Upto
  <2> DEFINE p == PatchOf(stored, NoChange, stored, docActor')
  <2>1. p \in Patches /\ p.seq = Latest(stored, docActor')
    BY <1>6, PatchType
  <2>2. Latest(stored, docActor') <= Upto
    BY <1>1, <1>2, <1>6, <1>8, <1>9, LatestBound
  <2> HIDE DEF p
  <2>3. two = ReadyMsg(good, b, TRUE, p)
    BY <1>1 DEF p
  <2> HIDE DEF two
  <2>4. two \in FrontMsgs /\ two.type = "ReadyMsg" /\ two.actor = b /\ two.patch = p
    BY <1>2, <2>1, <2>3 DEF ReadyMsg, FrontMsgs
  <2> QED
    BY <1>1, <2>1, <2>2, <2>4
<1>14. toFrontend' = toFrontend \o r
  BY <1>11
<1> HIDE DEF one, two
<1>15. r \in Seq(FrontMsgs) /\ \A i \in DOMAIN r : r[i] \in {one, two}
  <2>1. <<two>> \in Seq(FrontMsgs) /\ DOMAIN <<two>> = {1} /\ <<two>>[1] = two
    BY <1>13
  <2>2. <<one>> \in Seq(FrontMsgs) /\ DOMAIN <<one>> = {1} /\ <<one>>[1] = one /\ Len(<<one>>) = 1
    BY <1>12
  <2>3. r = <<one>> \o <<two>> \/ r = <<two>>
    <3>1. <<>> \o <<two>> = <<two>>
      BY <2>1, ConcatEmptySeq
    <3> QED
      BY <3>1
  <2> HIDE DEF r
  <2>4. ASSUME NEW q \in Seq(FrontMsgs), NEW t \in Seq(FrontMsgs), r = q \o t,
               \A i \in DOMAIN q : q[i] = one, \A i \in DOMAIN t : t[i] = two
        PROVE  r \in Seq(FrontMsgs) /\ \A i \in DOMAIN r : r[i] \in {one, two}
    <3>1. \A i \in DOMAIN (q \o t) : i = Len(q) + (i - Len(q))
      BY ConcatOf
    <3> QED
      BY <2>4, <3>1, ConcatOf
  <2>5. CASE r = <<one>> \o <<two>>
    <3> DEFINE q == <<one>>
               t == <<two>>
    <3>1. /\ q \in Seq(FrontMsgs) /\ t \in Seq(FrontMsgs) /\ r = q \o t
          /\ \A i \in DOMAIN q : q[i] = one
          /\ \A i \in DOMAIN t : t[i] = two
      BY <2>1, <2>2, <2>5
    <3> HIDE DEF q, t
    <3> QED
      BY <2>4, <3>1
  <2>6. CASE r = <<two>>
    BY <2>1, <2>6
  <2> QED
    BY <2>3, <2>5, <2>6
<1> HIDE DEF r
<1>16. \A i \in DOMAIN r : /\ docState' = "ready"
                           /\ r[i].type \in {"ReadyMsg", "ActorIdMsg"} => r[i].actor = docActor'
                           /\ r[i].patch.seq <= Upto
  BY <1>1, <1>12, <1>13, <1>15
<1>17. /\ held' \in SUBSET Change /\ feed' \in Seq(Change) /\ spares' \in 0..MaxChanges
       /\ upsets' \subseteq {"early", "nested", "reopened"} /\ docActor' \in Locals
       /\ docActor' # NoActor /\ hasClock' \in BOOLEAN
  BY <1>1, <1>2, <1>11, BackTypesNow
<1>18. TypeInv'
  BY <1>1, <1>3, <1>5, <1>9, <1>14, <1>15, <1>16, <1>17, BackTypes
<1> QED
  BY <1>1, <1>3, <1>4, <1>17, <1>18 DEF b

LEMMA RemoteChangeType ==
  ASSUME TypeInv, RemoteChange
  PROVE  TypeInv' /\ Author' = Author
<1> DEFINE late == Arriving(applied, 1)
<1>1. /\ docState = "ready" /\ Latest(applied, Remote) < MaxRemote /\ applied' = applied \cup late
      /\ UNCHANGED <<frontVars, toBackend, stored, docState, docActor, held, feed, spares, upsets>>
  BY DEF RemoteChange
<1>2. PICK good \in BOOLEAN :
        /\ hasClock' = good
        /\ toFrontend' = toFrontend \o <<PatchMsg(good, PatchOf(late, NoChange, applied', docActor))>>
  BY BackTypesNow DEF RemoteChange, Notify, Good
<1>3. applied \in SUBSET Change /\ Latest(applied, Remote) + 1 <= MaxRemote
  BY <1>1, BackTypesNow, LatestLemma, NumbersLemma
<1>4. late \in SUBSET Change /\ \A c \in late : c.actor = Remote /\ c.seq <= MaxRemote
  <2>1. 1 \in 0..1
    OBVIOUS
  <2> QED
    BY <1>3, <2>1, ArrivingLemma
<1> HIDE DEF late
<1>5. applied' \in SUBSET Change /\ \A c \in applied' \cup held' : IsNumbered(c)
  <2>1. \A c \in late : IsNumbered(c)
    BY <1>4 DEF IsNumbered
  <2> QED
    BY <1>1, <1>4, <2>1, BackTypesNow
<1>6. docActor \in Locals /\ docActor # NoActor
  BY <1>1, BackTypesNow
<1> DEFINE one == PatchMsg(good, PatchOf(late, NoChange, applied', docActor))
<1>7. one \in FrontMsgs /\ one.type = "PatchMsg" /\ one.patch.seq <= Upto
  <2> DEFINE p == PatchOf(late, NoChange, applied', docActor)
  <2>1. p \in Patches /\ p.seq = Latest(applied', docActor)
    BY <1>4, <1>5, PatchType
  <2>2. Latest(applied', docActor) <= Upto
    <3>1. \A S \in SUBSET Change : (\A d \in S : IsNumbered(d)) => Latest(S, docActor) <= Upto
      BY <1>6, LatestBound, UptoType, NumbersLemma
    <3> QED
      BY <1>5, <3>1
  <2> HIDE DEF p
  <2>3. one = PatchMsg(good, p)
    BY DEF p
  <2> HIDE DEF one
  <2> QED
    BY <2>1, <2>2, <2>3, PatchMsgType
<1>8. toFrontend' = toFrontend \o <<one>>
  BY <1>2
<1> HIDE DEF one
<1> DEFINE r == <<one>>
<1>9. r \in Seq(FrontMsgs) /\ DOMAIN r = {1} /\ r[1] = one
  BY <1>7
<1>10. Author' = Author /\ QueueInv' /\ toBackend' \in Seq(BackMsgs)
  <2>1. Author' = Author /\ Upto' = Upto /\ InFlight' = InFlight
    BY <1>1 DEF Author, Creating, Upto, InFlight, frontVars
  <2>2. QueueInv'
    BY <1>1, <2>1 DEF TypeInv, QueueInv, Count, Places, frontVars
  <2> QED
    BY <1>1, <2>1, <2>2 DEF TypeInv, TypeOK
<1> HIDE DEF r
<1>11. \A i \in DOMAIN r : /\ docState' = "ready" /\ r[i].type \notin {"ReadyMsg", "ActorIdMsg"}
                           /\ r[i].patch.seq <= Upto
  BY <1>1, <1>7, <1>9
<1>12. /\ held' \in SUBSET Change /\ feed' \in Seq(Change) /\ spares' \in 0..MaxChanges
       /\ upsets' \subseteq {"early", "nested", "reopened"} /\ hasClock' \in BOOLEAN
  BY <1>1, <1>2, BackTypesNow
<1>13. toFrontend' = toFrontend \o r
  BY <1>8 DEF r
<1> QED
  BY <1>1, <1>5, <1>6, <1>9, <1>10, <1>11, <1>12, <1>13, BackTypes

-----------------------------------------------------------------------------
(* The theorems on types and authors *)

LEMMA InitType ==
  ASSUME Init
  PROVE  TypeInv
<1>1. /\ front = NewFrontend("none", NoActor) /\ asked = 0 /\ destroys = 0
      /\ toBackend = <<>> /\ toFrontend = <<>> /\ stored \in Stores /\ docState = "none"
      /\ docActor = NoActor /\ applied = {} /\ held = {} /\ feed = <<>> /\ hasClock \in BOOLEAN
      /\ spares = 0 /\ upsets = {}
  BY DEF Init
<1>2. /\ front \in Fronts /\ front.mode = "none" /\ front.actor = NoActor /\ front.changeQ = 0
      /\ front.seq = 0 /\ front.requests = <<>>
  BY <1>1, NewFrontendType DEF NewFrontend
<1>3. /\ DOMAIN toBackend = {} /\ DOMAIN toFrontend = {} /\ toBackend \in Seq(BackMsgs)
      /\ toFrontend \in Seq(FrontMsgs) /\ feed \in Seq(Change)
  BY <1>1, EmptySeq
<1>4. asked \in 0..MaxChanges /\ destroys \in 0..MaxDestroys /\ spares \in 0..MaxChanges
  BY <1>1, NumbersLemma
<1>5. TypeOK
  BY <1>1, <1>2, <1>3, <1>4 DEF TypeOK
<1>6. Upto = 1
  BY <1>1, <1>2 DEF Upto
<1>7. FrontInv
  BY <1>1, <1>2, <1>6 DEF FrontInv
<1>8. QueueInv
  <2>1. Places(toBackend, "NeedsActorIdMsg") = {} /\ InFlight = {}
    BY <1>3 DEF Places, InFlight
  <2>2. Count(toBackend, "NeedsActorIdMsg") = 0
    BY <2>1, FS_EmptySet DEF Count
  <2> QED
    BY <1>1, <1>3, <2>1, <2>2 DEF QueueInv
<1>9. MsgInv /\ DocInv
  BY <1>1, <1>3 DEF MsgInv, DocInv
<1> QED
  BY <1>5, <1>7, <1>8, <1>9 DEF TypeInv

LEMMA StepType ==
  ASSUME TypeInv, [Next]_vars
  PROVE  TypeInv'
<1>1. CASE Create
  BY <1>1, CreateType
<1>2. CASE Open
  BY <1>2, OpenType
<1>3. CASE Watch
  BY <1>3, WatchType
<1>4. CASE QueueChange
  BY <1>4, QueueChangeType
<1>5. CASE Destroy
  BY <1>5, DestroyType
<1>6. CASE \E n \in 1..2 : WriteChange(n)
  BY <1>6, WriteChangeType
<1>7. CASE \E n \in 0..1 : Load(n)
  BY <1>7, LoadType
<1>8. CASE RemoteChange
  BY <1>8, RemoteChangeType
<1>9. CASE ReceiveCreate
  BY <1>9, ReceiveCreateType
<1>10. CASE ReceiveOpen
  BY <1>10, ReceiveOpenType
<1>11. CASE ReceiveNeedsActorId
  BY <1>11, ReceiveNeedsActorIdType
<1>12. CASE ReceiveRequest
  BY <1>12, AnsweredLemma, ReceiveRequestType
<1>13. CASE ReceiveReady \/ ReceivePatch \/ ReceiveActorId
  BY <1>13, ReceivedLemma, ReceivedType
<1>14. CASE UNCHANGED vars
  <2>1. /\ UNCHANGED <<front, asked, destroys, toBackend, toFrontend>>
        /\ UNCHANGED <<stored, docState, docActor, applied, held, feed, hasClock, spares, upsets>>
    BY <1>14 DEF vars, frontVars, backendVars
  <2>2. Upto' = Upto /\ Author' = Author /\ InFlight' = InFlight
    BY <2>1 DEF Upto, Author, Creating, InFlight
  <2>3. TypeOK' /\ FrontInv'
    BY <2>1, <2>2 DEF TypeInv, TypeOK, FrontInv
  <2>4. QueueInv'
    BY <2>1, <2>2 DEF TypeInv, QueueInv, Count, Places
  <2>5. MsgInv' /\ DocInv'
    BY <2>1, <2>2 DEF TypeInv, MsgInv, DocInv, IsNumbered
  <2> QED
    BY <2>3, <2>4, <2>5 DEF TypeInv
<1> QED
  BY <1>1, <1>2, <1>3, <1>4, <1>5, <1>6, <1>7, <1>8, <1>9, <1>10, <1>11, <1>12, <1>13, <1>14
  DEF Next, Deliver

LEMMA TypesHold == Spec => []TypeInv
<1>1. Init => TypeInv
  BY InitType
<1>2. TypeInv /\ [Next]_vars => TypeInv'
  BY StepType
<1> QED
  BY <1>1, <1>2, PTL DEF Spec

\* Every variable has its type: no number of a change leaves its range, though
\* the frontend takes the next one from the patches it is sent and forgets it
\* when the document is closed, and there are never more feeds made for
\* NeedsActorIdMsg than changes that were asked for.
THEOREM TypeCorrect == Spec => []TypeOK
<1>1. TypeInv => TypeOK
  BY DEF TypeInv
<1> QED
  BY <1>1, TypesHold, PTL

\* Whoever numbered a request, the document that takes it writes to the feed of
\* that actor: ReadyMsg and ActorIdMsg name the one actor the document has, a
\* frontend that knows none sends nothing, and a second NeedsActorIdMsg does
\* not change it.  (documentNotify, initActor, RepoBackend.receive)
THEOREM RequestsHold == Spec => []RequestsAreTheActors
<1>1. TypeInv => RequestsAreTheActors
  BY DEF TypeInv, QueueInv, Author, RequestsAreTheActors
<1> QED
  BY <1>1, TypesHold, PTL

-----------------------------------------------------------------------------
(* The order of the feed *)

\* Change k of actor a is applied, or requested before place n of the queue.
Before(q, c, n) == \E j \in DOMAIN q : j < n /\ q[j].type = "RequestMsg" /\ q[j].change = c
Follows(had, q, a, k, n) ==
  k = 0 \/ [actor |-> a, seq |-> k] \in had \/ Before(q, [actor |-> a, seq |-> k], n)

\* Every request follows on an earlier one or on what is applied, and so does
\* the next one, after change k.
Ordered(had, q, a, k) ==
  /\ \A i \in DOMAIN q : q[i].type = "RequestMsg" => Follows(had, q, a, q[i].change.seq - 1, i)
  /\ Follows(had, q, a, k, Len(q) + 1)

\* The number that a patch tells the frontend is one of an applied change.
Confirms(had, a, m) == m.patch.seq = 0 \/ [actor |-> a, seq |-> m.patch.seq] \in had
Confirmed(had, p, a) == \A i \in DOMAIN p : Confirms(had, a, p[i])

GapInv ==
  /\ Closed(applied)
  /\ docState # "ready" => applied = {} /\ held = {} /\ feed = <<>>
  /\ docState = "ready" => stored \subseteq applied
  /\ Creating => stored = {}
  /\ front.actor = NoActor => front.seq = 0

\* While the user makes no change in the callback of another, nothing is held.
SeqInv ==
  "nested" \notin upsets =>
    /\ held = {}
    /\ Ordered(applied, toBackend, Author, front.seq)
    /\ Confirmed(applied, toFrontend, docActor)
    /\ docState = "ready" => Latest(applied, docActor) = Latest(stored, docActor) + Len(feed)
    /\ FeedInOrder

OrderInv == GapInv /\ SeqInv

LEMMA OrderedMore ==
  ASSUME NEW had, NEW had2, had \subseteq had2, NEW q, NEW a, NEW k, Ordered(had, q, a, k)
  PROVE  Ordered(had2, q, a, k) /\ Ordered(had2, q, a, 0)
         /\ \A s : Follows(had2, q, a, s, Len(q) + 1) => Ordered(had2, q, a, s)
BY DEF Ordered, Follows

LEMMA OrderedAppend ==
  ASSUME NEW had, NEW q \in Seq(BackMsgs), NEW r \in Seq(BackMsgs), NEW a, NEW k,
         Ordered(had, q, a, k), \A j \in DOMAIN r : r[j].type # "RequestMsg"
  PROVE  Ordered(had, q \o r, a, k)
<1> DEFINE p == q \o r
<1>1. /\ Len(q) \in Nat /\ Len(r) \in Nat /\ Len(p) = Len(q) + Len(r)
      /\ \A i \in DOMAIN q : i \in DOMAIN p /\ p[i] = q[i] /\ i \in Nat /\ i <= Len(q)
      /\ \A i \in DOMAIN p : p[i].type = "RequestMsg" => i \in DOMAIN q
  <2>1. \A i \in DOMAIN p : i = Len(q) + (i - Len(q))
    BY ConcatOf
  <2> QED
    BY <2>1, ConcatOf
<1> HIDE DEF p
<1>2. \A c, n : Before(q, c, n) => Before(p, c, n)
  BY <1>1 DEF Before
<1>3. \A c : Before(q, c, Len(q) + 1) => Before(p, c, Len(p) + 1)
  <2> SUFFICES ASSUME NEW c, NEW j \in DOMAIN q, q[j].type = "RequestMsg", q[j].change = c
               PROVE  Before(p, c, Len(p) + 1)
    BY DEF Before
  <2>1. j \in DOMAIN p /\ p[j] = q[j] /\ j < Len(p) + 1
    BY <1>1
  <2> QED
    BY <2>1 DEF Before
<1>4. \A i \in DOMAIN p : p[i].type = "RequestMsg" => Follows(had, p, a, p[i].change.seq - 1, i)
  BY <1>1, <1>2 DEF Ordered, Follows
<1>5. Follows(had, p, a, k, Len(p) + 1)
  BY <1>3 DEF Ordered, Follows
<1> QED
  BY <1>4, <1>5 DEF Ordered, p

LEMMA OrderedRun ==
  ASSUME NEW had, NEW q \in Seq(BackMsgs), NEW a, NEW s \in Nat, NEW n \in Nat,
         Ordered(had, q, a, s), NEW cs, IsRun(cs, a, s, n)
  PROVE  Ordered(had, q \o Requests(cs), a, s + n)
<1> DEFINE r == Requests(cs)
           p == q \o r
           At(k) == [actor |-> a, seq |-> k]
<1>1. /\ cs \in Seq(Change) /\ Len(cs) = n /\ DOMAIN cs = 1..n
      /\ \A i \in 1..n : cs[i] = At(s + i) /\ cs[i].seq = s + i
  BY DEF IsRun
<1>2. /\ r \in Seq(BackMsgs) /\ Len(r) = n /\ DOMAIN r = 1..n
      /\ \A i \in 1..n : r[i].type = "RequestMsg" /\ r[i].change = cs[i]
  BY <1>1, RequestsLemma
<1> HIDE DEF r
<1>3. /\ Len(q) \in Nat /\ Len(p) = Len(q) + n
      /\ \A i \in DOMAIN q : i \in DOMAIN p /\ p[i] = q[i] /\ i \in 1..Len(q)
      /\ \A i \in DOMAIN p : i \in DOMAIN q \/ i - Len(q) \in 1..n
      /\ \A j \in 1..n : Len(q) + j \in DOMAIN p /\ p[Len(q) + j] = r[j]
      /\ \A i \in DOMAIN p : i \in Nat
  <2>0. r \in Seq(BackMsgs)
    BY <1>2
  <2>1. /\ Len(q) \in Nat /\ DOMAIN q = 1..Len(q) /\ Len(p) = Len(q) + Len(r)
        /\ DOMAIN p = 1..(Len(q) + Len(r))
        /\ \A i \in DOMAIN q : i \in DOMAIN p /\ p[i] = q[i]
        /\ \A j \in DOMAIN r : Len(q) + j \in DOMAIN p /\ p[Len(q) + j] = r[j]
    BY <2>0, ConcatOf
  <2> HIDE DEF p
  <2>2. \A i \in DOMAIN p : i \in Nat /\ (i \in DOMAIN q \/ i - Len(q) \in 1..n)
    BY <1>2, <2>1
  <2> QED
    BY <1>2, <2>1, <2>2
<1> HIDE DEF p
<1>4. \A c, m : Before(q, c, m) => Before(p, c, m)
  BY <1>3 DEF Before
<1>5. \A j \in 1..n, m \in Nat : Len(q) + j < m => Before(p, At(s + j), m)
  <2> TAKE j \in 1..n, m \in Nat
  <2>1. Len(q) + j \in DOMAIN p /\ p[Len(q) + j].type = "RequestMsg" /\ p[Len(q) + j].change = At(s + j)
    <3>1. Len(q) + j \in DOMAIN p /\ p[Len(q) + j] = r[j]
      BY <1>3
    <3>2. r[j].type = "RequestMsg" /\ r[j].change = cs[j] /\ cs[j] = At(s + j)
      BY <1>1, <1>2
    <3> HIDE DEF At
    <3> QED
      BY <3>1, <3>2
  <2> HIDE DEF At
  <2> QED
    BY <2>1 DEF Before
\* What comes after i of the new requests follows on the one before it.
<1>6. ASSUME NEW i \in 0..n, NEW m \in Nat, Len(q) + i < m
      PROVE  Follows(had, p, a, s + i, m)
  <2>1. CASE i = 0
    <3>1. Follows(had, q, a, s, Len(q) + 1) /\ s + i = s
      BY <2>1 DEF Ordered
    <3>2. \A c : Before(q, c, Len(q) + 1) => Before(p, c, m)
      <4> SUFFICES ASSUME NEW c, NEW j \in DOMAIN q, q[j].type = "RequestMsg", q[j].change = c
                   PROVE  Before(p, c, m)
        BY DEF Before
      <4>1. j \in DOMAIN p /\ p[j] = q[j] /\ j < m
        BY <1>3, <1>6, <2>1
      <4> QED
        BY <4>1 DEF Before
    <3> QED
      BY <3>1, <3>2 DEF Follows
  <2>2. CASE i # 0
    <3>1. i \in 1..n
      BY <2>2
    <3> QED
      BY <1>5, <1>6, <3>1 DEF Follows
  <2> QED
    BY <2>1, <2>2
<1>7. ASSUME NEW i \in DOMAIN p, p[i].type = "RequestMsg"
      PROVE  Follows(had, p, a, p[i].change.seq - 1, i)
  <2>1. CASE i \in DOMAIN q
    BY <1>3, <1>4, <1>7, <2>1 DEF Ordered, Follows
  <2>2. CASE i - Len(q) \in 1..n
    <3> DEFINE j == i - Len(q)
    <3>1. i = Len(q) + j /\ j - 1 \in 0..n /\ Len(q) + (j - 1) < i /\ i \in Nat
      <4>1. i \in Nat /\ Len(q) \in Nat /\ i - Len(q) \in 1..n
        BY <1>3, <2>2
      <4>2. i = Len(q) + j
        BY <4>1
      <4> HIDE DEF j
      <4>3. j \in 1..n
        BY <4>1 DEF j
      <4> QED
        BY <4>1, <4>2, <4>3
    <3>2. p[i] = r[j]
      BY <1>3, <2>2, <3>1
    <3>3. p[i].change.seq = s + j
      BY <1>1, <1>2, <2>2, <3>2
    <3>4. p[i].change.seq - 1 = s + (j - 1)
      BY <2>2, <3>3
    <3>5. Follows(had, p, a, s + (j - 1), i)
      BY <1>6, <3>1
    <3> QED
      BY <3>4, <3>5
  <2> QED
    BY <1>3, <2>1, <2>2
<1>8. Follows(had, p, a, s + n, Len(p) + 1)
  BY <1>3, <1>6
<1> QED
  BY <1>7, <1>8 DEF Ordered, p, r

LEMMA OrderedTail ==
  ASSUME NEW had, NEW had2, had \subseteq had2, NEW q \in Seq(BackMsgs), q # <<>>, NEW a, NEW k,
         Ordered(had, q, a, k), Head(q).type = "RequestMsg" => Head(q).change \in had2
  PROVE  Ordered(had2, Tail(q), a, k)
<1> DEFINE t == Tail(q)
<1>1. /\ Len(q) \in Nat \ {0} /\ Len(t) = Len(q) - 1 /\ Head(q) = q[1]
      /\ \A i \in DOMAIN t : i \in Nat /\ i + 1 \in DOMAIN q /\ t[i] = q[i + 1]
      /\ \A i \in DOMAIN q : i \in Nat /\ (i # 1 => i - 1 \in DOMAIN t /\ t[i - 1] = q[i])
  BY TailOf
<1> HIDE DEF t
<1>2. ASSUME NEW c, NEW n \in Nat, Before(q, c, n + 1)
      PROVE  c \in had2 \/ Before(t, c, n)
  <2>1. PICK j \in DOMAIN q : j < n + 1 /\ q[j].type = "RequestMsg" /\ q[j].change = c
    BY <1>2 DEF Before
  <2>2. CASE j = 1
    BY <1>1, <2>1, <2>2
  <2>3. CASE j # 1
    <3>1. j - 1 \in DOMAIN t /\ t[j - 1] = q[j] /\ j - 1 < n
      BY <1>1, <2>1, <2>3
    <3> QED
      BY <2>1, <3>1 DEF Before
  <2> QED
    BY <2>2, <2>3
<1>3. \A s, n : n \in Nat /\ Follows(had, q, a, s, n + 1) => Follows(had2, t, a, s, n)
  BY <1>2 DEF Follows
<1>4. ASSUME NEW i \in DOMAIN t, t[i].type = "RequestMsg"
      PROVE  Follows(had2, t, a, t[i].change.seq - 1, i)
  <2>1. Follows(had, q, a, q[i + 1].change.seq - 1, i + 1) /\ i \in Nat /\ t[i] = q[i + 1]
    BY <1>1, <1>4 DEF Ordered
  <2> QED
    BY <1>3, <2>1
<1>5. Follows(had2, t, a, k, Len(t) + 1)
  <2>1. Follows(had, q, a, k, Len(q) + 1) /\ Len(q) \in Nat /\ Len(q) = Len(t) + 1
    BY <1>1 DEF Ordered
  <2> QED
    BY <1>3, <2>1
<1> QED
  BY <1>4, <1>5 DEF Ordered, t

LEMMA LatestSame ==
  ASSUME NEW S \in SUBSET Change, NEW T \in SUBSET Change, NEW a, \A c \in T : c.actor # a
  PROVE  Latest(S \cup T, a) = Latest(S, a)
<1>1. Latest(S, a) \in 0..MaxSeq /\ IsLatest(S, a, Latest(S, a))
  BY LatestLemma
<1>2. IsLatest(S \cup T, a, Latest(S, a))
  BY <1>1 DEF IsLatest
<1> QED
  BY <1>1, <1>2, LatestIs

LEMMA LatestConfirmed ==
  ASSUME NEW S \in SUBSET Change, NEW a, NEW m, m.patch.seq = Latest(S, a)
  PROVE  \A had : S \subseteq had => Confirms(had, a, m)
BY LatestLemma DEF IsLatest, Confirms

LEMMA ConfirmedConcat ==
  ASSUME NEW had, NEW had2, had \subseteq had2, NEW a, NEW p \in Seq(FrontMsgs), NEW r \in Seq(FrontMsgs),
         Confirmed(had, p, a), Confirmed(had2, r, a)
  PROVE  Confirmed(had2, p \o r, a)
<1>1. \A i \in DOMAIN (p \o r) : i = Len(p) + (i - Len(p))
  BY ConcatOf
<1>2. \A i \in DOMAIN (p \o r) : \/ i \in DOMAIN p /\ (p \o r)[i] = p[i]
                                 \/ i - Len(p) \in DOMAIN r /\ (p \o r)[i] = r[i - Len(p)]
  BY <1>1, ConcatOf
<1> QED
  BY <1>2 DEF Confirmed, Confirms

LEMMA CreatingAppend ==
  ASSUME TypeInv, OrderInv, NEW r \in Seq(BackMsgs), toBackend' = toBackend \o r,
         \A j \in DOMAIN r : r[j].type # "CreateMsg"
  PROVE  Creating' => stored = {}
<1>0. toBackend \in Seq(BackMsgs)
  BY DEF TypeInv, TypeOK
<1>1. \A i \in DOMAIN (toBackend \o r) : i = Len(toBackend) + (i - Len(toBackend))
  BY <1>0, ConcatOf
<1>2. Creating' => Creating
  BY <1>0, <1>1, ConcatOf DEF Creating
<1> QED
  BY <1>2 DEF OrderInv, GapInv

\* A step of the frontend.
LEMMA FrontOrder ==
  ASSUME TypeInv, OrderInv, UNCHANGED backendVars, upsets \subseteq upsets',
         Creating' => stored = {}, front'.actor = NoActor => front'.seq = 0,
         "nested" \notin upsets' => Ordered(applied, toBackend', Author', front'.seq),
         toFrontend' = toFrontend \/ (toFrontend # <<>> /\ toFrontend' = Tail(toFrontend))
  PROVE  OrderInv'
<1>1. UNCHANGED <<stored, docState, docActor, applied, held, feed>>
  BY DEF backendVars
<1>2. GapInv'
  BY <1>1 DEF OrderInv, GapInv
<1>3. Confirmed(applied, toFrontend, docActor) => Confirmed(applied, toFrontend', docActor)
  <2>1. \A i \in DOMAIN toFrontend' : \E j \in DOMAIN toFrontend : toFrontend'[i] = toFrontend[j]
    BY SameMessages
  <2> QED
    BY <2>1 DEF Confirmed
<1>4. SeqInv'
  <2> SUFFICES ASSUME "nested" \notin upsets'
               PROVE  /\ held' = {}
                      /\ Ordered(applied', toBackend', Author', front'.seq)
                      /\ Confirmed(applied', toFrontend', docActor')
                      /\ docState' = "ready" =>
                           Latest(applied', docActor') = Latest(stored', docActor') + Len(feed')
                      /\ FeedInOrder'
    BY DEF SeqInv
  <2>1. /\ held = {} /\ Confirmed(applied, toFrontend, docActor)
        /\ docState = "ready" => Latest(applied, docActor) = Latest(stored, docActor) + Len(feed)
        /\ FeedInOrder /\ "nested" \notin upsets
    BY DEF OrderInv, SeqInv
  <2>2. FeedInOrder'
    BY <1>1, <2>1 DEF FeedInOrder
  <2> QED
    BY <1>1, <1>3, <2>1, <2>2
<1> QED
  BY <1>2, <1>4 DEF OrderInv

LEMMA OrderNow ==
  ASSUME OrderInv, "nested" \notin upsets
  PROVE  /\ held = {} /\ Ordered(applied, toBackend, Author, front.seq)
         /\ Ordered(applied, toBackend, Author, 0)
         /\ Confirmed(applied, toFrontend, docActor)
         /\ docState = "ready" => Latest(applied, docActor) = Latest(stored, docActor) + Len(feed)
         /\ FeedInOrder
BY OrderedMore DEF OrderInv, SeqInv

LEMMA CreateOrder ==
  ASSUME TypeInv, OrderInv, Create
  PROVE  OrderInv'
<1> DEFINE r == <<BackMsg("CreateMsg", NoChange)>>
<1>1. /\ toBackend = <<>> /\ stored = {} /\ front' = NewFrontend("write", Root)
      /\ toBackend' = toBackend \o r
      /\ UNCHANGED <<asked, destroys, toFrontend, backendVars, upsets>>
  BY DEF Create, Send, TypeInv, FrontInv
<1>2. /\ r \in Seq(BackMsgs) /\ DOMAIN r = {1} /\ \A j \in DOMAIN r : r[j].type = "CreateMsg"
  BY BackMsgType
<1> HIDE DEF r
<1>3. toBackend' = r
  BY <1>1, <1>2, ConcatEmptySeq
<1>4. front'.actor # NoActor /\ front'.seq = 0
  BY <1>1, NumbersLemma DEF NewFrontend, Locals
<1>5. Ordered(applied, toBackend', Author', front'.seq)
  BY <1>2, <1>3, <1>4 DEF Ordered, Follows
<1> QED
  BY <1>1, <1>4, <1>5, FrontOrder

LEMMA OpenOrder ==
  ASSUME TypeInv, OrderInv, Open
  PROVE  OrderInv'
<1> DEFINE r == <<BackMsg("OpenMsg", NoChange)>>
<1>1. /\ front' = NewFrontend("pending", NoActor) /\ toBackend' = toBackend \o r
      /\ UNCHANGED <<asked, destroys, toFrontend, backendVars>> /\ upsets \subseteq upsets'
  BY DEF Open, Send
<1>2. /\ r \in Seq(BackMsgs) /\ \A j \in DOMAIN r : r[j].type = "OpenMsg"
      /\ toBackend \in Seq(BackMsgs)
  BY BackMsgType DEF TypeInv, TypeOK
<1> HIDE DEF r
<1>3. front'.seq = 0 /\ Author' = Author
  BY <1>1, OpenType DEF NewFrontend
<1>4. "nested" \notin upsets' => Ordered(applied, toBackend', Author', front'.seq)
  <2>1. \A j \in DOMAIN r : r[j].type # "RequestMsg"
    BY <1>2
  <2> QED
    BY <1>1, <1>2, <1>3, <2>1, OrderNow, OrderedAppend
<1>5. Creating' => stored = {}
  BY <1>1, <1>2, CreatingAppend
<1> QED
  BY <1>1, <1>3, <1>4, <1>5, FrontOrder

LEMMA WatchOrder ==
  ASSUME TypeInv, OrderInv, Watch
  PROVE  OrderInv'
<1>1. /\ Author' = Author /\ front'.actor = front.actor /\ front'.seq = front.seq
      /\ UNCHANGED <<asked, destroys, toBackend, toFrontend, backendVars, upsets>>
  BY WatchType
<1>2. "nested" \notin upsets' => Ordered(applied, toBackend', Author', front'.seq)
  BY <1>1, OrderNow
<1>3. (Creating' => stored = {}) /\ (front'.actor = NoActor => front'.seq = 0)
  BY <1>1 DEF Creating, OrderInv, GapInv
<1> QED
  BY <1>1, <1>2, <1>3, FrontOrder

LEMMA QueueChangeOrder ==
  ASSUME TypeInv, OrderInv, QueueChange
  PROVE  OrderInv'
<1>1. /\ Author' = Author /\ front'.actor = front.actor /\ front'.seq = front.seq
      /\ UNCHANGED <<destroys, toFrontend, backendVars, upsets>>
  BY QueueChangeType DEF QueueChange
<1>2. PICK r \in Seq(BackMsgs) : /\ toBackend' = toBackend \o r
                                 /\ \A j \in DOMAIN r : r[j].type = "NeedsActorIdMsg"
  BY QueueChangeType
<1>3. toBackend \in Seq(BackMsgs)
  BY DEF TypeInv, TypeOK
<1>4. "nested" \notin upsets' => Ordered(applied, toBackend', Author', front'.seq)
  <2>1. \A j \in DOMAIN r : r[j].type # "RequestMsg"
    BY <1>2
  <2> QED
    BY <1>1, <1>2, <1>3, <2>1, OrderNow, OrderedAppend
<1>5. (Creating' => stored = {}) /\ (front'.actor = NoActor => front'.seq = 0)
  BY <1>1, <1>2, CreatingAppend DEF OrderInv, GapInv
<1> QED
  BY <1>1, <1>4, <1>5, FrontOrder

LEMMA WriteChangeOrder ==
  ASSUME TypeInv, OrderInv, NEW n \in 1..2, WriteChange(n)
  PROVE  OrderInv'
<1> DEFINE cs == Reverse(ChangesOf(front.actor, front.seq, front.seq + n))
           r == Requests(cs)
<1>1. /\ front.actor \in Locals /\ front.actor = Author /\ toBackend' = toBackend \o r
      /\ front'.actor = front.actor /\ front'.seq = front.seq + n
      /\ UNCHANGED <<destroys, toFrontend, backendVars>>
      /\ cs \in Seq(Change) /\ Len(cs) = n /\ DOMAIN cs = 1..n
      /\ \A i \in 1..n : cs[i] = [actor |-> front.actor, seq |-> front.seq + n + 1 - i]
  BY WritesLemma DEF Writes
<1>2. Author' = Author /\ upsets \subseteq upsets' /\ (n = 2 => "nested" \in upsets')
  BY WriteChangeType DEF WriteChange
<1>3. front.seq \in Nat /\ toBackend \in Seq(BackMsgs)
  BY UptoType, NumbersLemma DEF TypeInv, TypeOK
<1> HIDE DEF cs
<1>4. \A j \in DOMAIN r : r[j].type = "RequestMsg"
  BY <1>1, RequestsLemma
<1>5. r \in Seq(BackMsgs)
  BY <1>1, RequestsLemma
<1> HIDE DEF r
<1>6. "nested" \notin upsets' => Ordered(applied, toBackend', Author', front'.seq)
  <2> SUFFICES ASSUME "nested" \notin upsets'
               PROVE  Ordered(applied, toBackend', Author', front'.seq)
    OBVIOUS
  <2>1. n = 1 /\ "nested" \notin upsets
    BY <1>2
  <2>2. IsRun(cs, Author, front.seq, 1)
    <3>1. front.seq + 1 + 1 - 1 = front.seq + 1 /\ 1 \in 1..1 /\ \A i \in 1..1 : i = 1
      BY <1>3
    <3>2. cs[1] = [actor |-> front.actor, seq |-> front.seq + 1]
      BY <1>1, <2>1, <3>1
    <3> QED
      BY <1>1, <2>1, <3>1, <3>2 DEF IsRun
  <2>3. Ordered(applied, toBackend \o Requests(cs), Author, front.seq + 1)
    BY <1>3, <2>1, <2>2, OrderNow, OrderedRun
  <2> QED
    BY <1>1, <1>2, <2>1, <2>3 DEF r
<1>7. (Creating' => stored = {}) /\ (front'.actor = NoActor => front'.seq = 0)
  BY <1>1, <1>4, <1>5, CreatingAppend, NumbersLemma
<1> QED
  BY <1>1, <1>2, <1>6, <1>7, FrontOrder

LEMMA DestroyOrder ==
  ASSUME TypeInv, OrderInv, Destroy
  PROVE  OrderInv'
<1>1. /\ front' = NewFrontend("none", NoActor) /\ Author' = Author
      /\ UNCHANGED <<asked, toBackend, toFrontend, backendVars, upsets>>
  BY DestroyType DEF Destroy
<1>2. front'.seq = 0
  BY <1>1 DEF NewFrontend
<1>3. "nested" \notin upsets' => Ordered(applied, toBackend', Author', front'.seq)
  BY <1>1, <1>2, OrderNow
<1>4. Creating' => stored = {}
  BY <1>1 DEF Creating, OrderInv, GapInv
<1> QED
  BY <1>1, <1>2, <1>3, <1>4, FrontOrder

LEMMA ReceivedOrder ==
  ASSUME TypeInv, OrderInv, Received
  PROVE  OrderInv'
<1> DEFINE m == Head(toFrontend)
<1>0. toFrontend # <<>> /\ toFrontend \in Seq(FrontMsgs) /\ toBackend \in Seq(BackMsgs)
  BY DEF Received, TypeInv, TypeOK
<1>1. m \in FrontMsgs /\ m = toFrontend[1] /\ 1 \in DOMAIN toFrontend
  BY <1>0, TailOf
<1>2. /\ docState = "ready" /\ m.patch.seq \in Nat /\ docActor \in Locals /\ docActor # NoActor
      /\ Author = docActor /\ front.seq \in Nat /\ front.changeQ \in Nat
      /\ front.actor \in {NoActor, docActor}
  <2>1. docState = "ready"
    BY <1>1 DEF TypeInv, MsgInv
  <2>2. m.patch.seq \in Nat
    BY <1>1, NumbersLemma DEF FrontMsgs, Patches
  <2> QED
    BY <2>1, <2>2, UptoType, NumbersLemma DEF TypeInv, TypeOK, DocInv, FrontInv, Author
<1>3. /\ toFrontend' = Tail(toFrontend) /\ UNCHANGED <<asked, destroys, backendVars, upsets>>
  BY DEF Received
<1>4. Author' = Author
  BY ReceivedType
<1>5. "nested" \notin upsets => Confirms(applied, Author, m)
  BY <1>1, <1>2, OrderNow DEF Confirmed
<1> HIDE DEF m
<1>6. CASE UNCHANGED <<front, toBackend>>
  <2>1. "nested" \notin upsets' => Ordered(applied, toBackend', Author', front'.seq)
    BY <1>3, <1>4, <1>6, OrderNow
  <2>2. (Creating' => stored = {}) /\ (front'.actor = NoActor => front'.seq = 0)
    BY <1>6 DEF Creating, OrderInv, GapInv
  <2> QED
    BY <1>0, <1>3, <2>1, <2>2, FrontOrder
<1>7. ASSUME NEW a \in {front.actor, docActor}, NEW s \in {front.seq, m.patch.seq},
             s >= front.seq, s # front.seq => a # NoActor,
             \/ Kept(front, front', a, s) /\ UNCHANGED toBackend
             \/ /\ Enabled(front, front', a, s)
                /\ toBackend' = toBackend \o Requests(ChangesOf(a, s, s + front.changeQ))
      PROVE  OrderInv'
  <2>1. s \in Nat
    BY <1>2
  <2>2. "nested" \notin upsets => Ordered(applied, toBackend, Author, s)
    <3> SUFFICES ASSUME "nested" \notin upsets
                 PROVE  Ordered(applied, toBackend, Author, s)
      OBVIOUS
    <3>1. CASE s = front.seq
      BY <3>1, OrderNow
    <3>2. CASE s = m.patch.seq
      <4>1. Follows(applied, toBackend, Author, s, Len(toBackend) + 1)
        BY <1>5, <3>2 DEF Confirms, Follows
      <4>2. Ordered(applied, toBackend, Author, front.seq)
        BY OrderNow
      <4> QED
        BY <4>1, <4>2, OrderedMore
    <3> QED
      BY <3>1, <3>2
  <2>3. CASE Kept(front, front', a, s) /\ UNCHANGED toBackend
    <3>1. front'.actor = a /\ front'.seq = s
      BY <2>3 DEF Kept
    <3>2. a = NoActor => front.actor = NoActor /\ s = front.seq
      BY <1>2, <1>7
    <3>3. (Creating' => stored = {}) /\ (front'.actor = NoActor => front'.seq = 0)
      BY <2>3, <3>1, <3>2 DEF Creating, OrderInv, GapInv
    <3>4. "nested" \notin upsets' => Ordered(applied, toBackend', Author', front'.seq)
      BY <1>3, <1>4, <2>2, <2>3, <3>1
    <3> QED
      BY <1>0, <1>3, <3>3, <3>4, FrontOrder
  <2>4. CASE /\ Enabled(front, front', a, s)
             /\ toBackend' = toBackend \o Requests(ChangesOf(a, s, s + front.changeQ))
    <3> DEFINE n == front.changeQ
               cs == ChangesOf(a, s, s + n)
               r == Requests(cs)
    <3>1. /\ front'.actor = a /\ front'.seq = s + n /\ a = Author /\ toBackend' = toBackend \o r
      BY <1>2, <2>4 DEF Enabled
    <3>2. IsRun(cs, a, s, n)
      <4>1. s + n <= MaxSeq
        <5>1. TypeInv'
          BY ReceivedType
        <5>2. front' \in Fronts
          BY <5>1 DEF TypeInv, TypeOK
        <5> QED
          BY <2>1, <3>1, <5>2, NumbersLemma DEF Fronts, MaxSeq
      <4>2. a \in Locals \cup {Remote} /\ s + n \in s..MaxSeq /\ (s + n) - s = n /\ n \in Nat
        BY <1>2, <2>1, <3>1, <4>1, NumbersLemma
      <4> HIDE DEF n
      <4> QED
        BY <2>1, <4>2, ChangesOfIs
    <3> HIDE DEF cs
    <3>3. r \in Seq(BackMsgs) /\ \A j \in DOMAIN r : r[j].type = "RequestMsg"
      BY <3>2, RequestsLemma DEF IsRun
    <3>4. "nested" \notin upsets' => Ordered(applied, toBackend', Author', front'.seq)
      <4>1. "nested" \notin upsets => Ordered(applied, toBackend \o Requests(cs), a, s + n)
        BY <1>0, <1>2, <2>1, <2>2, <3>1, <3>2, OrderedRun
      <4> QED
        BY <1>3, <1>4, <3>1, <4>1
    <3> HIDE DEF r
    <3>5. (Creating' => stored = {}) /\ (front'.actor = NoActor => front'.seq = 0)
      BY <1>2, <3>1, <3>3, CreatingAppend
    <3> QED
      BY <1>0, <1>3, <3>4, <3>5, FrontOrder
  <2> QED
    BY <1>7, <2>3, <2>4
<1> QED
  BY <1>6, <1>7 DEF Received, m

\* A message of the backend's queue is taken, and r is sent.
LEMMA TakenOrder ==
  ASSUME TypeInv, OrderInv, TypeInv', toBackend # <<>>, toBackend' = Tail(toBackend),
         UNCHANGED <<frontVars, stored, upsets>>, ~Creating', Author' = Author,
         docState' # "ready" => applied' = {} /\ held' = {} /\ feed' = <<>>,
         docState' = "ready" => stored \subseteq applied',
         Closed(applied'), applied \subseteq applied',
         docState # "ready" \/ docActor' = docActor,
         NEW r \in Seq(FrontMsgs), toFrontend' = toFrontend \o r,
         Confirmed(applied', r, docActor'),
         "nested" \notin upsets =>
           /\ Head(toBackend).type = "RequestMsg" => Head(toBackend).change \in applied'
           /\ held' = {}
           /\ docState' = "ready" => Latest(applied', docActor') = Latest(stored, docActor') + Len(feed')
           /\ \A i \in DOMAIN feed' : feed'[i] = [actor |-> docActor', seq |-> Latest(stored, docActor') + i]
  PROVE  OrderInv'
<1>0. toBackend \in Seq(BackMsgs) /\ toFrontend \in Seq(FrontMsgs) /\ UNCHANGED front
  BY DEF TypeInv, TypeOK, frontVars
<1>1. GapInv'
  BY <1>0 DEF OrderInv, GapInv
<1>2. SeqInv'
  <2> SUFFICES ASSUME "nested" \notin upsets
               PROVE  /\ Ordered(applied', toBackend', Author', front'.seq)
                      /\ Confirmed(applied', toFrontend', docActor')
                      /\ FeedInOrder'
    BY DEF SeqInv
  <2>1. Ordered(applied', toBackend', Author', front'.seq)
    BY <1>0, OrderNow, OrderedTail
  <2>2. Confirmed(applied, toFrontend, docActor')
    <3>1. CASE docState # "ready"
      BY <3>1 DEF TypeInv, MsgInv, Confirmed
    <3>2. CASE docActor' = docActor
      BY <3>2, OrderNow
    <3> QED
      BY <3>1, <3>2
  <2>3. Confirmed(applied', toFrontend', docActor')
    BY <1>0, <2>2, ConfirmedConcat
  <2>4. FeedInOrder'
    BY DEF FeedInOrder
  <2> QED
    BY <2>1, <2>3, <2>4
<1> QED
  BY <1>1, <1>2 DEF OrderInv

LEMMA ConfirmedNone == \A had, a : Confirmed(had, <<>>, a)
  BY EmptySeq DEF Confirmed

LEMMA ReceiveCreateOrder ==
  ASSUME TypeInv, OrderInv, ReceiveCreate
  PROVE  OrderInv'
<1> DEFINE msg == ReadyMsg(FALSE, Root, FALSE, NoPatch)
           r == <<msg>>
<1>1. /\ toBackend # <<>> /\ Head(toBackend).type = "CreateMsg" /\ toBackend' = Tail(toBackend)
      /\ docState' = "ready" /\ docActor' = Root /\ toFrontend' = toFrontend \o r
      /\ UNCHANGED <<frontVars, stored, applied, held, feed, spares, upsets>>
  BY DEF ReceiveCreate, Heading, Notify
<1>2. TypeInv' /\ Author' = Author
  BY ReceiveCreateType
<1>3. Root \in Locals
  BY DEF Locals
<1>4. msg \in FrontMsgs /\ msg.patch.seq = 0
  BY <1>3, SmallMessageTypes
<1> HIDE DEF msg
<1>5. r \in Seq(FrontMsgs) /\ DOMAIN r = {1} /\ r[1] = msg
  BY <1>4
<1> HIDE DEF r
<1>6. Confirmed(applied', r, docActor')
  BY <1>4, <1>5 DEF Confirmed, Confirms
<1>7. Creating /\ docState = "none"
  BY <1>1, HeadOfQueue
<1>8. applied = {} /\ held = {} /\ feed = <<>> /\ stored = {} /\ Closed(applied)
  BY <1>7 DEF OrderInv, GapInv
<1>9. ~Creating'
  BY <1>1, <1>2, QueueTail
<1>10. Latest(applied', docActor') = Latest(stored, docActor') + Len(feed')
  <2>1. Latest({}, Root) \in 0..MaxSeq
    BY LatestLemma
  <2>2. Latest({}, Root) = Latest({}, Root) + 0
    BY <2>1, NumbersLemma
  <2> QED
    BY <1>1, <1>8, <2>2, EmptySeq
<1>11. DOMAIN feed' = {}
  BY <1>1, <1>8, EmptySeq
<1> QED
  BY <1>1, <1>2, <1>5, <1>6, <1>7, <1>8, <1>9, <1>10, <1>11, TakenOrder

LEMMA ReceiveOpenOrder ==
  ASSUME TypeInv, OrderInv, ReceiveOpen
  PROVE  OrderInv'
<1>1. /\ toBackend # <<>> /\ Head(toBackend).type = "OpenMsg" /\ toBackend' = Tail(toBackend)
      /\ docState' = "ready" <=> docState = "ready"
      /\ UNCHANGED <<frontVars, toFrontend, stored, docActor, applied, held, feed, upsets>>
  BY DEF ReceiveOpen, Heading
<1>2. TypeInv' /\ Author' = Author
  BY ReceiveOpenType
<1>3. ~Creating'
  <2>1. spares' = IF Head(toBackend).type = "NeedsActorIdMsg" THEN spares + 1 ELSE spares
    BY <1>1 DEF ReceiveOpen
  <2> QED
    BY <1>1, <1>2, <2>1, QueueTail
<1>4. toFrontend' = toFrontend \o <<>>
  BY <1>1, BackTypesNow
<1>5. /\ docState' # "ready" => applied' = {} /\ held' = {} /\ feed' = <<>>
      /\ docState' = "ready" => stored \subseteq applied'
      /\ Closed(applied') /\ applied \subseteq applied'
  BY <1>1 DEF OrderInv, GapInv
<1>6. "nested" \notin upsets =>
        /\ held' = {}
        /\ docState' = "ready" => Latest(applied', docActor') = Latest(stored, docActor') + Len(feed')
        /\ \A i \in DOMAIN feed' : feed'[i] = [actor |-> docActor', seq |-> Latest(stored, docActor') + i]
  BY <1>1, OrderNow DEF FeedInOrder
<1> QED
  BY <1>1, <1>2, <1>3, <1>4, <1>5, <1>6, NoMessages, ConfirmedNone, TakenOrder

LEMMA ReceiveNeedsActorIdOrder ==
  ASSUME TypeInv, OrderInv, ReceiveNeedsActorId
  PROVE  OrderInv'
<1>1. /\ toBackend # <<>> /\ Head(toBackend).type = "NeedsActorIdMsg" /\ toBackend' = Tail(toBackend)
      /\ spares' = spares + 1
      /\ \/ docState = "ready" /\ toFrontend' = toFrontend \o <<ActorIdMsg(docActor')>>
         \/ toFrontend' = toFrontend
      /\ UNCHANGED <<frontVars, stored, docState, applied, held, feed, upsets>>
  BY DEF ReceiveNeedsActorId, Heading, Notify
<1>2. TypeInv' /\ Author' = Author /\ docActor' = docActor
  BY ReceiveNeedsActorIdType
<1>3. ~Creating'
  BY <1>1, <1>2, QueueTail
<1>4. /\ docState' # "ready" => applied' = {} /\ held' = {} /\ feed' = <<>>
      /\ docState' = "ready" => stored \subseteq applied'
      /\ Closed(applied') /\ applied \subseteq applied'
  BY <1>1 DEF OrderInv, GapInv
<1>5. "nested" \notin upsets =>
        /\ held' = {}
        /\ docState' = "ready" => Latest(applied', docActor') = Latest(stored, docActor') + Len(feed')
        /\ \A i \in DOMAIN feed' : feed'[i] = [actor |-> docActor', seq |-> Latest(stored, docActor') + i]
  BY <1>1, <1>2, OrderNow DEF FeedInOrder
<1>6. \E r \in Seq(FrontMsgs) : toFrontend' = toFrontend \o r /\ Confirmed(applied', r, docActor')
  <2>1. CASE docState = "ready" /\ toFrontend' = toFrontend \o <<ActorIdMsg(docActor')>>
    <3> DEFINE msg == ActorIdMsg(docActor')
               r == <<msg>>
    <3>1. docActor' \in Locals
      BY <1>2, <2>1, BackTypesNow
    <3>2. msg \in FrontMsgs /\ msg.patch.seq = 0
      BY <3>1, SmallMessageTypes
    <3>3. toFrontend' = toFrontend \o r
      BY <2>1
    <3> HIDE DEF msg
    <3>4. r \in Seq(FrontMsgs) /\ DOMAIN r = {1} /\ r[1] = msg
      BY <3>2
    <3> HIDE DEF r
    <3>5. Confirmed(applied', r, docActor')
      BY <3>2, <3>4 DEF Confirmed, Confirms
    <3> QED
      BY <3>3, <3>4, <3>5
  <2>2. CASE toFrontend' = toFrontend
    BY <2>2, NoMessages, BackTypesNow, ConfirmedNone
  <2> QED
    BY <1>1, <2>1, <2>2
<1> QED
  BY <1>1, <1>2, <1>3, <1>4, <1>5, <1>6, TakenOrder

\* A request that follows on what is applied is applied itself.
LEMMA NextNumber ==
  ASSUME NEW S \in SUBSET Change, Closed(S), NEW c \in Change,
         c.seq - 1 = 0 \/ [actor |-> c.actor, seq |-> c.seq - 1] \in S, c.seq > Latest(S, c.actor)
  PROVE  /\ c \notin S /\ c.seq = Latest(S, c.actor) + 1
         /\ Ripe({c}, S) = {c} /\ Latest(S \cup {c}, c.actor) = c.seq
<1> DEFINE n == Latest(S, c.actor)
<1>1. n \in 0..MaxSeq /\ IsLatest(S, c.actor, n)
  BY LatestLemma
<1>2. c.seq \in 1..MaxSeq /\ c = [actor |-> c.actor, seq |-> c.seq]
  BY ChangeType
<1>3. c \notin S
  BY <1>1, <1>2, NumbersLemma, ClosedLemma
<1>4. c.seq = n + 1
  <2>1. CASE c.seq - 1 = 0
    BY <1>1, <1>2, <2>1, NumbersLemma
  <2>2. CASE c.seq - 1 # 0
    <3> DEFINE d == [actor |-> c.actor, seq |-> c.seq - 1]
    <3>1. d \in S /\ d.actor = c.actor /\ d.seq = c.seq - 1
      BY <2>2
    <3> HIDE DEF d
    <3>2. d.seq <= n
      BY <1>1, <3>1 DEF IsLatest
    <3> HIDE DEF n
    <3> QED
      BY <1>1, <1>2, <3>1, <3>2, NumbersLemma DEF n
  <2> QED
    BY <2>1, <2>2
<1>5. c.seq = 1 \/ [actor |-> c.actor, seq |-> c.seq - 1] \in S
  BY <1>2, NumbersLemma
<1>6. Ripe({c}, S) = {c}
  <2>1. {c} \in SUBSET Change
    OBVIOUS
  <2> QED
    BY <1>5, <2>1, RipeLemma
<1> HIDE DEF n
<1>7. IsLatest(S \cup {c}, c.actor, c.seq)
  <2>1. \A d \in S : d.actor = c.actor => d.seq <= c.seq
    <3> TAKE d \in S
    <3>1. d.seq \in Nat /\ (d.actor = c.actor => d.seq <= n)
      BY <1>1, ChangeType, NumbersLemma DEF IsLatest
    <3> QED
      BY <1>1, <1>4, <3>1, NumbersLemma
  <2>2. c.seq <= c.seq
    BY <1>2, NumbersLemma
  <2> QED
    BY <1>2, <2>1, <2>2 DEF IsLatest
<1>8. S \cup {c} \in SUBSET Change /\ c.seq \in 0..MaxSeq
  BY <1>2, NumbersLemma
<1> QED
  BY <1>3, <1>4, <1>6, <1>7, <1>8, LatestIs DEF n

LEMMA ReceiveRequestOrder ==
  ASSUME TypeInv, OrderInv, NEW c, NEW ripe, Answered(c, ripe)
  PROVE  OrderInv'
<1>1. /\ toBackend # <<>> /\ Head(toBackend).type = "RequestMsg" /\ toBackend' = Tail(toBackend)
      /\ docState = "ready" /\ docActor \in Locals /\ Author = docActor
      /\ c = Head(toBackend).change /\ c \in Change /\ c.actor = docActor
      /\ ripe = Ripe(held \cup {c}, applied) /\ ripe \in SUBSET Change /\ applied' \in SUBSET Change
      /\ UNCHANGED <<frontVars, stored, docState, docActor, spares, upsets>>
  BY DEF Answered
<1>2. TypeInv' /\ Author' = Author
  BY ReceiveRequestType
<1>3. ~Creating'
  BY <1>1, <1>2, QueueTail
<1>4. /\ applied \in SUBSET Change /\ held \in SUBSET Change /\ feed \in Seq(Change)
      /\ stored \in SUBSET Change /\ Closed(applied) /\ stored \subseteq applied
      /\ toBackend \in Seq(BackMsgs)
  BY <1>1, BackTypesNow, StoresLemma DEF OrderInv, GapInv, TypeInv, TypeOK
<1>5. "nested" \notin upsets =>
        c.seq - 1 = 0 \/ [actor |-> c.actor, seq |-> c.seq - 1] \in applied
  <2> SUFFICES ASSUME "nested" \notin upsets
               PROVE  c.seq - 1 = 0 \/ [actor |-> c.actor, seq |-> c.seq - 1] \in applied
    OBVIOUS
  <2>1. Follows(applied, toBackend, docActor, toBackend[1].change.seq - 1, 1)
    BY <1>1, HeadOfQueue, OrderNow DEF Ordered
  <2>2. \A j \in DOMAIN toBackend : ~(j < 1)
    BY <1>4, LenProperties
  <2> QED
    BY <1>1, <2>1, <2>2, HeadOfQueue DEF Follows, Before
<1>6. CASE UNCHANGED <<applied, held, feed, hasClock, toFrontend>> /\ ~IsFeedable(c)
  <2>1. toFrontend' = toFrontend \o <<>>
    BY <1>6, BackTypesNow
  <2>2. c \in applied'
    <3>1. Latest(applied, c.actor) \in 0..MaxSeq /\ c.seq \in 1..MaxSeq
      BY <1>1, <1>4, LatestLemma, ChangeType
    <3>2. c.seq <= Latest(applied, c.actor)
      BY <1>6, <3>1, NumbersLemma DEF IsFeedable
    <3> QED
      BY <1>1, <1>4, <1>6, <3>2, ClosedLemma
  <2>3. "nested" \notin upsets =>
          /\ held' = {}
          /\ Latest(applied', docActor') = Latest(stored, docActor') + Len(feed')
          /\ \A i \in DOMAIN feed' : feed'[i] = [actor |-> docActor', seq |-> Latest(stored, docActor') + i]
    BY <1>1, <1>6, OrderNow DEF FeedInOrder
  <2>4. Closed(applied') /\ stored \subseteq applied' /\ applied \subseteq applied'
    BY <1>4, <1>6
  <2> QED
    BY <1>1, <1>2, <1>3, <2>1, <2>2, <2>3, <2>4, NoMessages, ConfirmedNone, TakenOrder
<1>7. ASSUME IsFeedable(c), applied' = applied \cup ripe, held' = (held \cup {c}) \ ripe,
             feed' = Append(feed, c), NEW good \in BOOLEAN,
             toFrontend' = toFrontend \o <<PatchMsg(good, PatchOf(ripe, c, applied', docActor))>>
      PROVE  OrderInv'
  <2> DEFINE msg == PatchMsg(good, PatchOf(ripe, c, applied', docActor))
             r == <<msg>>
  <2>1. msg \in FrontMsgs /\ msg.patch.seq = Latest(applied', docActor)
    <3> DEFINE p == PatchOf(ripe, c, applied', docActor)
    <3>0. ripe \in SUBSET Change /\ c \in Change \cup {NoChange} /\ applied' \in SUBSET Change
      BY <1>1
    <3>1. p \in Patches /\ p.seq = Latest(applied', docActor)
      BY <3>0, PatchType
    <3> HIDE DEF p
    <3>2. PatchMsg(good, p) \in FrontMsgs /\ PatchMsg(good, p).patch = p
      BY <1>7, <3>1, PatchMsgType
    <3> QED
      BY <3>1, <3>2 DEF p
  <2>2. toFrontend' = toFrontend \o r
    BY <1>7
  <2> HIDE DEF msg
  <2>3. r \in Seq(FrontMsgs) /\ DOMAIN r = {1} /\ r[1] = msg
    BY <2>1
  <2> HIDE DEF r
  <2>4. Confirmed(applied', r, docActor')
    <3>1. Confirms(applied', docActor, msg)
      BY <1>1, <2>1, LatestConfirmed
    <3> QED
      BY <1>1, <2>3, <3>1 DEF Confirmed
  <2>5. Closed(applied') /\ stored \subseteq applied' /\ applied \subseteq applied'
    <3>1. held \cup {c} \in SUBSET Change
      BY <1>1, <1>4
    <3>2. Closed(applied \cup Ripe(held \cup {c}, applied))
      BY <1>4, <3>1, RipeLemma
    <3> QED
      BY <1>1, <1>4, <1>7, <3>2
  <2>6. ASSUME "nested" \notin upsets
        PROVE  /\ c \in applied' /\ held' = {}
               /\ Latest(applied', docActor') = Latest(stored, docActor') + Len(feed')
               /\ \A i \in DOMAIN feed' : feed'[i] = [actor |-> docActor', seq |-> Latest(stored, docActor') + i]
    <3>1. /\ held = {} /\ Latest(applied, docActor) = Latest(stored, docActor) + Len(feed)
          /\ \A i \in DOMAIN feed : feed[i] = [actor |-> docActor, seq |-> Latest(stored, docActor) + i]
      BY <1>1, <2>6, OrderNow DEF FeedInOrder
    <3>2. /\ c.seq = Latest(applied, docActor) + 1 /\ Ripe({c}, applied) = {c}
          /\ Latest(applied \cup {c}, docActor) = c.seq
      BY <1>1, <1>4, <1>5, <1>7, <2>6, NextNumber DEF IsFeedable
    <3>3. ripe = {c} /\ held' = {} /\ applied' = applied \cup {c}
      <4>1. held \cup {c} = {c}
        BY <3>1
      <4> QED
        BY <1>1, <1>7, <3>1, <3>2, <4>1
    <3>4. /\ Len(feed) \in Nat /\ Len(feed') = Len(feed) + 1 /\ DOMAIN feed = 1..Len(feed)
          /\ DOMAIN feed' = 1..(Len(feed) + 1) /\ feed'[Len(feed) + 1] = c
          /\ \A i \in 1..Len(feed) : feed'[i] = feed[i]
      BY <1>1, <1>4, <1>7, AppendProperties, LenProperties
    <3>5. Latest(stored, docActor) \in Nat /\ Latest(applied, docActor) \in Nat
      BY <1>4, LatestLemma, NumbersLemma
    <3>6. c.seq = Latest(stored, docActor) + (Len(feed) + 1)
      BY <3>1, <3>2, <3>4, <3>5
    <3>7. c = [actor |-> docActor, seq |-> Latest(stored, docActor) + (Len(feed) + 1)]
      BY <1>1, <3>6, ChangeType
    <3>8. \A i \in DOMAIN feed' : feed'[i] = [actor |-> docActor, seq |-> Latest(stored, docActor) + i]
      <4> TAKE i \in DOMAIN feed'
      <4>1. i \in 1..Len(feed) \/ i = Len(feed) + 1
        BY <3>4
      <4> QED
        BY <3>1, <3>4, <3>7, <4>1
    <3> QED
      BY <1>1, <3>2, <3>3, <3>4, <3>6, <3>8
  <2> QED
    BY <1>1, <1>2, <1>3, <2>2, <2>3, <2>4, <2>5, <2>6, TakenOrder
<1> QED
  BY <1>6, <1>7 DEF Answered

LEMMA LoadOrder ==
  ASSUME TypeInv, OrderInv, NEW n \in 0..1, Load(n)
  PROVE  OrderInv'
<1> DEFINE late == Arriving(stored, n)
<1>1. /\ Latest(stored, Remote) + n <= MaxRemote
      /\ docState' = "ready" /\ applied' = stored \cup late /\ upsets \subseteq upsets'
      /\ UNCHANGED <<frontVars, toBackend, stored, held, feed, spares>>
  BY DEF Load
<1>2. /\ TypeInv' /\ docState = "loading" /\ Author = NoActor /\ InFlight = {} /\ ~Creating
      /\ docActor' \in Locals
  BY LoadType
<1>3. /\ stored \in SUBSET Change /\ Closed(stored)
  BY BackTypesNow, StoresLemma
<1>4. late \in SUBSET Change /\ (\A c \in late : c.actor = Remote) /\ Closed(stored \cup late)
  BY <1>1, <1>3, ArrivingLemma
<1> HIDE DEF late
<1>5. held = {} /\ feed = <<>> /\ front.seq = 0 /\ UNCHANGED front
  <2>1. front.actor = NoActor
    BY <1>2, BackTypesNow
  <2> QED
    BY <1>1, <1>2, <2>1 DEF OrderInv, GapInv, frontVars
<1>6. GapInv'
  BY <1>1, <1>2, <1>4, <1>5 DEF GapInv, Creating
<1>7. Ordered(applied', toBackend', Author', front'.seq)
  <2>1. \A i \in DOMAIN toBackend : toBackend[i].type # "RequestMsg"
    BY <1>2 DEF InFlight
  <2> QED
    BY <1>1, <1>5, <2>1 DEF Ordered, Follows
<1>8. Latest(applied', docActor') = Latest(stored, docActor') + Len(feed')
  <2>1. Latest(stored \cup late, docActor') = Latest(stored, docActor')
    <3>1. \A c \in late : c.actor # docActor'
      BY <1>2, <1>4, NumbersLemma
    <3> QED
      BY <1>3, <1>4, <3>1, LatestSame
  <2>2. Latest(stored, docActor') \in Nat
    BY <1>3, LatestLemma, NumbersLemma
  <2> QED
    BY <1>1, <1>5, <2>1, <2>2, EmptySeq
<1>9. FeedInOrder'
  BY <1>1, <1>5, EmptySeq DEF FeedInOrder
<1>10. \E first, good :
         toFrontend' = toFrontend \o
           ((IF n > 0 THEN <<PatchMsg(first, PatchOf(late, NoChange, applied', docActor'))>> ELSE <<>>)
            \o <<ReadyMsg(good, docActor', TRUE, PatchOf(stored, NoChange, stored, docActor'))>>)
  BY DEF Load, Notify, late
<1>11. PICK first, good :
         toFrontend' = toFrontend \o
           ((IF n > 0 THEN <<PatchMsg(first, PatchOf(late, NoChange, applied', docActor'))>> ELSE <<>>)
            \o <<ReadyMsg(good, docActor', TRUE, PatchOf(stored, NoChange, stored, docActor'))>>)
  BY <1>10
<1> DEFINE one == PatchMsg(first, PatchOf(late, NoChange, applied', docActor'))
           two == ReadyMsg(good, docActor', TRUE, PatchOf(stored, NoChange, stored, docActor'))
<1>12. one.patch.seq = Latest(applied', docActor') /\ two.patch.seq = Latest(stored, docActor')
  BY DEF PatchMsg, ReadyMsg, PatchOf
<1> HIDE DEF one, two
<1>13. Confirms(applied', docActor', one) /\ Confirms(applied', docActor', two)
  <2>1. applied' \in SUBSET Change /\ stored \subseteq applied'
    BY <1>1, <1>3, <1>4
  <2> QED
    BY <1>3, <1>12, <2>1, LatestConfirmed
<1>14. \A i \in DOMAIN toFrontend' : toFrontend'[i] \in {one, two}
  <2> DEFINE r == (IF n > 0 THEN <<one>> ELSE <<>>) \o <<two>>
  <2>1. toFrontend' = toFrontend \o r
    BY <1>11 DEF one, two
  <2>2. toFrontend = <<>>
    <3>1. DOMAIN toFrontend = {}
      BY <1>2 DEF TypeInv, MsgInv
    <3> QED
      BY <3>1, BackTypesNow, EmptySeq, LenProperties
  <2>3. <<one>> \in Seq({one, two}) /\ <<two>> \in Seq({one, two}) /\ <<>> \in Seq({one, two})
    OBVIOUS
  <2>4. r \in Seq({one, two})
    <3>1. \A q, t \in Seq({one, two}) : q \o t \in Seq({one, two})
      BY ConcatProperties
    <3> QED
      BY <2>3, <3>1
  <2> HIDE DEF r
  <2>5. toFrontend' = r
    BY <2>1, <2>2, <2>4, ConcatEmptySeq
  <2> QED
    BY <2>4, <2>5, LenProperties
<1>15. Confirmed(applied', toFrontend', docActor')
  BY <1>13, <1>14 DEF Confirmed
<1> QED
  BY <1>1, <1>5, <1>6, <1>7, <1>8, <1>9, <1>15 DEF OrderInv, SeqInv

LEMMA RemoteChangeOrder ==
  ASSUME TypeInv, OrderInv, RemoteChange
  PROVE  OrderInv'
<1> DEFINE late == Arriving(applied, 1)
<1>1. /\ docState = "ready" /\ Latest(applied, Remote) < MaxRemote /\ applied' = applied \cup late
      /\ UNCHANGED <<frontVars, toBackend, stored, docState, docActor, held, feed, spares, upsets>>
  BY DEF RemoteChange
<1>2. \E good \in BOOLEAN :
        toFrontend' = toFrontend \o <<PatchMsg(good, PatchOf(late, NoChange, applied', docActor))>>
  BY BackTypesNow DEF RemoteChange, Notify, Good
<1>3. /\ applied \in SUBSET Change /\ Latest(applied, Remote) + 1 <= MaxRemote
      /\ Closed(applied) /\ stored \subseteq applied /\ docActor \in Locals
  <2>1. Latest(applied, Remote) + 1 <= MaxRemote
    BY <1>1, BackTypesNow, LatestLemma, NumbersLemma
  <2> QED
    BY <1>1, <2>1, BackTypesNow DEF OrderInv, GapInv
<1>4. late \in SUBSET Change /\ (\A c \in late : c.actor = Remote) /\ Closed(applied \cup late)
  <2>1. 1 \in 0..1
    OBVIOUS
  <2> QED
    BY <1>3, <2>1, ArrivingLemma
<1> HIDE DEF late
<1>5. GapInv'
  BY <1>1, <1>3, <1>4 DEF OrderInv, GapInv, Creating, frontVars
<1>6. applied \subseteq applied' /\ applied' \in SUBSET Change /\ UNCHANGED front
  BY <1>1, <1>3, <1>4 DEF frontVars
<1>7. SeqInv'
  <2> SUFFICES ASSUME "nested" \notin upsets
               PROVE  /\ held' = {}
                      /\ Ordered(applied', toBackend', Author', front'.seq)
                      /\ Confirmed(applied', toFrontend', docActor')
                      /\ Latest(applied', docActor') = Latest(stored', docActor') + Len(feed')
                      /\ FeedInOrder'
    BY <1>1 DEF SeqInv
  <2>1. Author' = Author
    BY <1>1 DEF Author
  <2>2. held' = {} /\ FeedInOrder'
    BY <1>1, OrderNow DEF FeedInOrder
  <2>3. Ordered(applied', toBackend', Author', front'.seq)
    BY <1>1, <1>6, <2>1, OrderNow, OrderedMore
  <2>4. Latest(applied', docActor') = Latest(stored', docActor') + Len(feed')
    <3>1. \A c \in late : c.actor # docActor
      BY <1>3, <1>4, NumbersLemma
    <3>2. Latest(applied \cup late, docActor) = Latest(applied, docActor)
      BY <1>3, <1>4, <3>1, LatestSame
    <3> QED
      BY <1>1, <3>2, OrderNow
  <2>5. Confirmed(applied', toFrontend', docActor')
    <3>1. PICK good \in BOOLEAN :
            toFrontend' = toFrontend \o <<PatchMsg(good, PatchOf(late, NoChange, applied', docActor))>>
      BY <1>2
    <3> DEFINE p == PatchOf(late, NoChange, applied', docActor)
               msg == PatchMsg(good, p)
               r == <<msg>>
    <3>2. p \in Patches /\ p.seq = Latest(applied', docActor)
      BY <1>4, <1>6, PatchType
    <3>3. toFrontend' = toFrontend \o r
      BY <3>1
    <3> HIDE DEF p
    <3>4. msg \in FrontMsgs /\ msg.patch = p
      BY <3>2, PatchMsgType
    <3> HIDE DEF msg
    <3>5. r \in Seq(FrontMsgs) /\ DOMAIN r = {1} /\ r[1] = msg
      BY <3>4
    <3> HIDE DEF r
    <3>6. Confirms(applied', docActor, msg)
      BY <1>6, <3>2, <3>4, LatestConfirmed
    <3>7. Confirmed(applied', r, docActor)
      BY <3>5, <3>6 DEF Confirmed
    <3>8. toFrontend \in Seq(FrontMsgs) /\ Confirmed(applied, toFrontend, docActor)
      BY OrderNow, BackTypesNow
    <3> QED
      BY <1>1, <1>6, <3>3, <3>5, <3>7, <3>8, ConfirmedConcat
  <2> QED
    BY <2>2, <2>3, <2>4, <2>5
<1> QED
  BY <1>5, <1>7 DEF OrderInv

LEMMA InitOrder ==
  ASSUME Init
  PROVE  OrderInv
<1>1. /\ front = NewFrontend("none", NoActor) /\ toBackend = <<>> /\ toFrontend = <<>>
      /\ docState = "none" /\ applied = {} /\ held = {} /\ feed = <<>> /\ upsets = {}
  BY DEF Init
<1>2. front.seq = 0
  BY <1>1 DEF NewFrontend
<1>3. DOMAIN toBackend = {} /\ DOMAIN toFrontend = {} /\ DOMAIN feed = {}
  BY <1>1, EmptySeq
<1> QED
  BY <1>1, <1>2, <1>3
  DEF OrderInv, GapInv, SeqInv, Closed, Creating, Ordered, Follows, Confirmed, FeedInOrder

LEMMA StepOrder ==
  ASSUME TypeInv, OrderInv, [Next]_vars
  PROVE  OrderInv'
<1>1. CASE Create
  BY <1>1, CreateOrder
<1>2. CASE Open
  BY <1>2, OpenOrder
<1>3. CASE Watch
  BY <1>3, WatchOrder
<1>4. CASE QueueChange
  BY <1>4, QueueChangeOrder
<1>5. CASE Destroy
  BY <1>5, DestroyOrder
<1>6. CASE \E n \in 1..2 : WriteChange(n)
  BY <1>6, WriteChangeOrder
<1>7. CASE \E n \in 0..1 : Load(n)
  BY <1>7, LoadOrder
<1>8. CASE RemoteChange
  BY <1>8, RemoteChangeOrder
<1>9. CASE ReceiveCreate
  BY <1>9, ReceiveCreateOrder
<1>10. CASE ReceiveOpen
  BY <1>10, ReceiveOpenOrder
<1>11. CASE ReceiveNeedsActorId
  BY <1>11, ReceiveNeedsActorIdOrder
<1>12. CASE ReceiveRequest
  BY <1>12, AnsweredLemma, ReceiveRequestOrder
<1>13. CASE ReceiveReady \/ ReceivePatch \/ ReceiveActorId
  BY <1>13, ReceivedLemma, ReceivedOrder
<1>14. CASE UNCHANGED vars
  <2>1. /\ UNCHANGED <<front, toBackend, toFrontend, upsets>>
        /\ UNCHANGED <<stored, docState, docActor, applied, held, feed>>
    BY <1>14 DEF vars, frontVars, backendVars
  <2> QED
    BY <2>1 DEF OrderInv, GapInv, SeqInv, Creating, Author, FeedInOrder
<1> QED
  BY <1>1, <1>2, <1>3, <1>4, <1>5, <1>6, <1>7, <1>8, <1>9, <1>10, <1>11, <1>12, <1>13, <1>14
  DEF Next, Deliver

LEMMA OrderHolds == Spec => []OrderInv
<1>1. Init => OrderInv
  BY InitOrder
<1>2. TypeInv /\ OrderInv /\ [Next]_vars => OrderInv'
  BY StepOrder
<1> QED
  BY <1>1, <1>2, TypesHold, PTL DEF Spec

\* The n-th block of the feed is the user's n-th change after those of earlier
\* sessions, however often the document is destroyed and opened again while
\* its requests and patches are on their way, and whatever the other authors
\* write: the number a new frontend takes from a patch is never behind what it
\* has sent, or the backend knows the change and does not write it.  A change
\* in the callback of another is the only way out.  (applyPatch, enableWrites,
\* applyLocalChange, Actor.writeChange)
THEOREM FeedInOrderHolds == Spec => []FeedInOrder
<1>1. OrderInv => FeedInOrder
  BY DEF OrderInv, SeqInv, FeedInOrder
<1> QED
  BY <1>1, OrderHolds, PTL

-----------------------------------------------------------------------------
(* No change is lost or made twice *)

Sent(q) == {q[i].change : i \in Places(q, "RequestMsg")}
Distinct(q) == \A i, j \in Places(q, "RequestMsg") : q[i].change = q[j].change => i = j

Calm == destroys = 0 /\ "early" \notin upsets

\* Before the document has content to show, the user's changes wait in
\* changeQ, and what the backend tells her is the number she starts from.  The
\* first message that reaches her names the actor.
PendingInv ==
  /\ ~Creating /\ Sent(toBackend) = {} /\ feed = <<>> /\ held = {}
  /\ docState = "ready" => Latest(applied, docActor) = Latest(stored, docActor)
  /\ \A i \in DOMAIN toFrontend :
       toFrontend[i].patch.seq =
         IF toFrontend[i].type = "ActorIdMsg" THEN 0 ELSE Latest(stored, docActor)
  /\ docState = "ready" /\ front.actor = NoActor =>
       toFrontend # <<>> /\ Head(toFrontend).type = "ReadyMsg"

\* From then on she is ahead of everything that is sent or applied.
WriteInv ==
  /\ \A c \in applied \cup held \cup Sent(toBackend) : c.actor = Author => c.seq <= front.seq
  /\ \A i \in DOMAIN toFrontend : toFrontend[i].patch.seq <= front.seq

ConservedInv ==
  Calm =>
    /\ asked = front.changeQ + Count(toBackend, "RequestMsg") + Len(feed)
    /\ front.mode # "read"
    /\ front.mode = "pending" => PendingInv
    /\ front.mode = "write" => WriteInv
    /\ Sent(toBackend) \cap (applied \cup held) = {}
    /\ Distinct(toBackend)

LEMMA SentAppend ==
  ASSUME NEW q \in Seq(BackMsgs), NEW r \in Seq(BackMsgs), \A j \in DOMAIN r : r[j].type # "RequestMsg"
  PROVE  /\ Sent(q \o r) = Sent(q)
         /\ Distinct(q) => Distinct(q \o r)
         /\ Count(q \o r, "RequestMsg") = Count(q, "RequestMsg")
<1> DEFINE p == q \o r
<1>1. /\ \A i \in DOMAIN q : i \in DOMAIN p /\ p[i] = q[i]
      /\ \A i \in DOMAIN p : p[i].type = "RequestMsg" => i \in DOMAIN q
  <2>1. \A i \in DOMAIN p : i = Len(q) + (i - Len(q))
    BY ConcatOf
  <2> QED
    BY <2>1, ConcatOf
<1>2. Count(p, "RequestMsg") = Count(q, "RequestMsg")
  BY CountConcat
<1> HIDE DEF p
<1>3. Places(p, "RequestMsg") = Places(q, "RequestMsg")
  BY <1>1 DEF Places
<1>4. \A i \in Places(q, "RequestMsg") : p[i] = q[i]
  BY <1>1 DEF Places
<1> QED
  BY <1>2, <1>3, <1>4 DEF Sent, Distinct, p

LEMMA SentRequests ==
  ASSUME NEW q \in Seq(BackMsgs), NEW cs \in Seq(Change), NEW had,
         Distinct(q), Sent(q) \cap had = {},
         \A i, j \in DOMAIN cs : cs[i] = cs[j] => i = j,
         \A i \in DOMAIN cs : cs[i] \notin Sent(q) \cup had
  PROVE  LET p == q \o Requests(cs)
         IN /\ Distinct(p) /\ Sent(p) \cap had = {}
            /\ \A c \in Sent(p) : c \in Sent(q) \/ \E i \in DOMAIN cs : c = cs[i]
            /\ Count(p, "RequestMsg") = Count(q, "RequestMsg") + Len(cs)
<1> DEFINE r == Requests(cs)
           p == q \o r
<1>1. /\ r \in Seq(BackMsgs) /\ Len(r) = Len(cs) /\ DOMAIN r = DOMAIN cs
      /\ \A i \in DOMAIN cs : r[i].type = "RequestMsg" /\ r[i].change = cs[i]
  BY RequestsLemma
<1> HIDE DEF r
<1>2. /\ Len(q) \in Nat /\ DOMAIN q = 1..Len(q)
      /\ \A i \in DOMAIN q : i \in DOMAIN p /\ p[i] = q[i]
      /\ \A j \in DOMAIN r : Len(q) + j \in DOMAIN p /\ p[Len(q) + j] = r[j]
      /\ \A i \in DOMAIN p : i \in DOMAIN q \/ i - Len(q) \in DOMAIN r
  BY <1>1, ConcatOf
<1>3. DOMAIN p \subseteq Nat /\ DOMAIN r \subseteq Nat
  <2>1. p \in Seq(BackMsgs)
    BY <1>1, ConcatOf
  <2> QED
    BY <1>1, <2>1, LenProperties
<1>4. Count(p, "RequestMsg") = Count(q, "RequestMsg") + Len(cs)
  BY <1>1, CountConcat
<1> HIDE DEF p
<1>5. ASSUME NEW i \in Places(p, "RequestMsg")
      PROVE  \/ i \in Places(q, "RequestMsg") /\ p[i].change = q[i].change /\ p[i].change \in Sent(q)
             \/ i - Len(q) \in DOMAIN cs /\ p[i].change = cs[i - Len(q)] /\ i \in Nat
  <2>1. CASE i \in DOMAIN q
    BY <1>2, <1>5, <2>1 DEF Places, Sent
  <2>2. CASE i - Len(q) \in DOMAIN r
    <3>1. i \in Nat /\ i = Len(q) + (i - Len(q))
      BY <1>2, <1>3, <1>5 DEF Places
    <3>2. p[i] = r[i - Len(q)]
      BY <1>2, <2>2, <3>1
    <3> QED
      BY <1>1, <2>2, <3>1, <3>2
  <2> QED
    BY <1>2, <1>5, <2>1, <2>2 DEF Places
<1>6. Distinct(p)
  <2> SUFFICES ASSUME NEW i \in Places(p, "RequestMsg"), NEW j \in Places(p, "RequestMsg"),
                      p[i].change = p[j].change
               PROVE  i = j
    BY DEF Distinct
  <2>1. CASE i \in Places(q, "RequestMsg") /\ j \in Places(q, "RequestMsg")
    BY <1>2, <2>1 DEF Distinct, Places
  <2>2. CASE i - Len(q) \in DOMAIN cs /\ j - Len(q) \in DOMAIN cs /\ i \in Nat /\ j \in Nat
             /\ p[i].change = cs[i - Len(q)] /\ p[j].change = cs[j - Len(q)]
    <3>1. i - Len(q) = j - Len(q)
      BY <2>2
    <3> QED
      BY <1>2, <2>2, <3>1
  <2> QED
    BY <1>5, <2>1, <2>2
<1>7. \A c \in Sent(p) : c \in Sent(q) \/ \E i \in DOMAIN cs : c = cs[i]
  BY <1>5 DEF Sent
<1>8. Sent(p) \cap had = {}
  BY <1>7
<1> QED
  BY <1>4, <1>6, <1>7, <1>8 DEF p, r

LEMMA SentTail ==
  ASSUME NEW q \in Seq(BackMsgs), q # <<>>
  PROVE  /\ Sent(Tail(q)) \subseteq Sent(q)
         /\ Distinct(q) => Distinct(Tail(q))
         /\ Count(Tail(q), "RequestMsg") =
              Count(q, "RequestMsg") - (IF Head(q).type = "RequestMsg" THEN 1 ELSE 0)
         /\ Head(q).type = "RequestMsg" =>
              Head(q).change \in Sent(q) /\ (Distinct(q) => Head(q).change \notin Sent(Tail(q)))
<1> DEFINE t == Tail(q)
<1>1. /\ Head(q) = q[1] /\ 1 \in DOMAIN q
      /\ \A i \in DOMAIN t : i \in Nat /\ i + 1 \in DOMAIN q /\ t[i] = q[i + 1]
      /\ \A i \in DOMAIN t : i # 0
  <2>1. \A i \in DOMAIN t : i \in 1..Len(t) /\ Len(t) \in Nat
    BY TailOf, LenProperties
  <2> QED
    BY <2>1, TailOf
<1>2. Count(t, "RequestMsg") = Count(q, "RequestMsg") - (IF Head(q).type = "RequestMsg" THEN 1 ELSE 0)
  BY CountTail
<1> HIDE DEF t
<1>3. \A i \in Places(t, "RequestMsg") : i \in Nat /\ i # 0 /\ i + 1 \in Places(q, "RequestMsg") /\ t[i] = q[i + 1]
  BY <1>1 DEF Places
<1>4. Sent(t) \subseteq Sent(q)
  BY <1>3 DEF Sent
<1>5. Distinct(q) => Distinct(t)
  <2> SUFFICES ASSUME Distinct(q), NEW i \in Places(t, "RequestMsg"), NEW j \in Places(t, "RequestMsg"),
                      t[i].change = t[j].change
               PROVE  i = j
    BY DEF Distinct
  <2>1. i + 1 = j + 1
    BY <1>3 DEF Distinct
  <2> QED
    BY <1>3, <2>1
<1>6. ASSUME Head(q).type = "RequestMsg", Distinct(q), Head(q).change \in Sent(t)
      PROVE  FALSE
  <2>1. PICK i \in Places(t, "RequestMsg") : t[i].change = Head(q).change
    BY <1>6 DEF Sent
  <2>2. i + 1 \in Places(q, "RequestMsg") /\ 1 \in Places(q, "RequestMsg")
        /\ q[i + 1].change = q[1].change
    BY <1>1, <1>3, <1>6, <2>1 DEF Places
  <2>3. i + 1 = 1
    BY <1>6, <2>2 DEF Distinct
  <2> QED
    BY <1>3, <2>3
<1>7. Head(q).type = "RequestMsg" => Head(q).change \in Sent(q)
  BY <1>1 DEF Sent, Places
<1> QED
  BY <1>2, <1>4, <1>5, <1>6, <1>7 DEF t

\* What the three invariants say of a calm session.
LEMMA CalmNow ==
  ASSUME TypeInv, OrderInv, ConservedInv, Calm
  PROVE  /\ toBackend \in Seq(BackMsgs) /\ toFrontend \in Seq(FrontMsgs) /\ front \in Fronts
         /\ asked \in Nat /\ front.changeQ \in Nat /\ front.seq \in Nat /\ Len(feed) \in Nat
         /\ Count(toBackend, "RequestMsg") \in Nat
         /\ asked = front.changeQ + Count(toBackend, "RequestMsg") + Len(feed)
         /\ front.mode \in {"none", "pending", "write"}
         /\ front.mode = "none" => /\ toBackend = <<>> /\ docState = "none" /\ asked = 0
                                   /\ front.changeQ = 0
         /\ front.mode = "pending" => PendingInv
         /\ front.mode = "write" => WriteInv /\ front.actor = Author /\ front.actor \in Locals
         /\ Sent(toBackend) \cap (applied \cup held) = {} /\ Distinct(toBackend)
         /\ docState # "ready" => applied = {} /\ held = {} /\ feed = <<>> /\ DOMAIN toFrontend = {}
<1>1. toBackend \in Seq(BackMsgs) /\ toFrontend \in Seq(FrontMsgs) /\ front \in Fronts /\ feed \in Seq(Change)
  BY DEF TypeInv, TypeOK
<1>2. asked \in Nat /\ front.changeQ \in Nat /\ front.seq \in Nat
  BY UptoType, NumbersLemma
<1>3. Len(feed) \in Nat /\ Count(toBackend, "RequestMsg") \in Nat
  BY <1>1, CountType, LenProperties
<1>4. front.mode \in {"none", "pending", "write"}
  BY <1>1 DEF ConservedInv, Fronts
<1>5. front.mode = "none" => /\ toBackend = <<>> /\ docState = "none" /\ asked = 0
                             /\ front.changeQ = 0
  BY DEF Calm, TypeInv, FrontInv, NewFrontend
<1>6. front.mode = "write" => front.actor = Author /\ front.actor \in Locals
  BY <1>1 DEF TypeInv, FrontInv, Fronts
<1>7. docState # "ready" => applied = {} /\ held = {} /\ feed = <<>> /\ DOMAIN toFrontend = {}
  BY DEF OrderInv, GapInv, TypeInv, MsgInv
<1> QED
  BY <1>1, <1>2, <1>3, <1>4, <1>5, <1>6, <1>7 DEF ConservedInv

LEMMA NoRequests ==
  ASSUME NEW q \in Seq(BackMsgs), \A i \in DOMAIN q : q[i].type # "RequestMsg"
  PROVE  Sent(q) = {} /\ Distinct(q) /\ Count(q, "RequestMsg") = 0
<1>1. Places(q, "RequestMsg") = {}
  BY DEF Places
<1> QED
  BY <1>1, FS_EmptySet DEF Sent, Distinct, Count

LEMMA CreateConserved ==
  ASSUME TypeInv, OrderInv, ConservedInv, Create
  PROVE  ConservedInv'
<1> SUFFICES ASSUME Calm
             PROVE  ConservedInv'
  BY DEF Create, Calm, ConservedInv
<1> DEFINE r == <<BackMsg("CreateMsg", NoChange)>>
<1>1. /\ front.mode = "none" /\ front' = NewFrontend("write", Root) /\ toBackend' = toBackend \o r
      /\ UNCHANGED <<asked, destroys, toFrontend, backendVars, upsets>>
  BY DEF Create, Send
<1>2. /\ r \in Seq(BackMsgs) /\ \A j \in DOMAIN r : r[j].type = "CreateMsg"
  BY BackMsgType
<1> HIDE DEF r
<1>3. toBackend' = r
  BY <1>1, <1>2, CalmNow, ConcatEmptySeq
<1>4. \A i \in DOMAIN r : r[i].type # "RequestMsg"
  BY <1>2
<1>5. Sent(toBackend') = {} /\ Distinct(toBackend') /\ Count(toBackend', "RequestMsg") = 0
  BY <1>2, <1>3, <1>4, NoRequests
<1>6. /\ applied' = {} /\ held' = {} /\ DOMAIN toFrontend' = {} /\ asked' = 0 /\ Len(feed') = 0
  BY <1>1, CalmNow, EmptySeq DEF backendVars
<1>7. front'.mode = "write" /\ front'.changeQ = 0
  BY <1>1 DEF NewFrontend
<1>8. WriteInv'
  BY <1>5, <1>6 DEF WriteInv
<1>9. asked' = front'.changeQ + Count(toBackend', "RequestMsg") + Len(feed')
  BY <1>5, <1>6, <1>7
<1> QED
  BY <1>5, <1>6, <1>7, <1>8, <1>9 DEF ConservedInv

LEMMA OpenConserved ==
  ASSUME TypeInv, OrderInv, ConservedInv, Open
  PROVE  ConservedInv'
<1> SUFFICES ASSUME Calm
             PROVE  ConservedInv'
  BY DEF Open, Calm, ConservedInv
<1> DEFINE r == <<BackMsg("OpenMsg", NoChange)>>
<1>1. /\ front.mode = "none" /\ front' = NewFrontend("pending", NoActor) /\ toBackend' = toBackend \o r
      /\ UNCHANGED <<asked, destroys, toFrontend, backendVars>>
  BY DEF Open, Send
<1>2. /\ r \in Seq(BackMsgs) /\ \A j \in DOMAIN r : r[j].type = "OpenMsg"
  BY BackMsgType
<1> HIDE DEF r
<1>3. toBackend' = r
  BY <1>1, <1>2, CalmNow, ConcatEmptySeq
<1>4. \A i \in DOMAIN r : r[i].type \notin {"CreateMsg", "RequestMsg"}
  BY <1>2
<1>5. Sent(toBackend') = {} /\ Distinct(toBackend') /\ Count(toBackend', "RequestMsg") = 0
  BY <1>2, <1>3, <1>4, NoRequests
<1>6. /\ applied' = {} /\ held' = {} /\ DOMAIN toFrontend' = {} /\ asked' = 0
      /\ feed' = <<>> /\ Len(feed') = 0 /\ docState' # "ready"
  BY <1>1, CalmNow, EmptySeq DEF backendVars
<1>7. front'.mode = "pending" /\ front'.changeQ = 0
  BY <1>1 DEF NewFrontend
<1>8. PendingInv'
  BY <1>3, <1>4, <1>5, <1>6 DEF PendingInv, Creating
<1>9. asked' = front'.changeQ + Count(toBackend', "RequestMsg") + Len(feed')
  BY <1>5, <1>6, <1>7
<1> QED
  BY <1>5, <1>6, <1>7, <1>8, <1>9 DEF ConservedInv

LEMMA WatchConserved ==
  ASSUME TypeInv, OrderInv, ConservedInv, Watch
  PROVE  ConservedInv'
<1>1. /\ Author' = Author /\ front'.mode = front.mode /\ front'.actor = front.actor
      /\ front'.changeQ = front.changeQ /\ front'.seq = front.seq
      /\ UNCHANGED <<asked, destroys, toBackend, toFrontend, upsets>>
      /\ UNCHANGED <<stored, docState, docActor, applied, held, feed>>
  BY WatchType DEF backendVars
<1>2. PendingInv => PendingInv'
  BY <1>1 DEF PendingInv, Creating
<1>3. WriteInv => WriteInv'
  BY <1>1 DEF WriteInv
<1> QED
  BY <1>1, <1>2, <1>3 DEF ConservedInv, Calm

LEMMA QueueChangeConserved ==
  ASSUME TypeInv, OrderInv, ConservedInv, QueueChange
  PROVE  ConservedInv'
<1> SUFFICES ASSUME Calm
             PROVE  ConservedInv'
  BY DEF QueueChange, Calm, ConservedInv
<1>1. /\ asked' = asked + 1 /\ front'.mode = front.mode /\ front'.actor = front.actor
      /\ front'.changeQ = front.changeQ + 1 /\ front.mode \in {"pending", "read"}
  BY QueueChangeType
<1>2. UNCHANGED <<toFrontend, stored, docState, docActor, applied, held, feed>>
  BY DEF QueueChange, backendVars
<1>3. PICK r \in Seq(BackMsgs) : /\ toBackend' = toBackend \o r
                                 /\ \A j \in DOMAIN r : r[j].type = "NeedsActorIdMsg"
  BY QueueChangeType
<1>4. \A j \in DOMAIN r : r[j].type \notin {"CreateMsg", "RequestMsg"}
  BY <1>3
<1>5. front.mode = "pending" /\ PendingInv
  BY <1>1, CalmNow
<1>6. /\ Sent(toBackend') = Sent(toBackend) /\ Distinct(toBackend')
      /\ Count(toBackend', "RequestMsg") = Count(toBackend, "RequestMsg")
  BY <1>3, <1>4, CalmNow, SentAppend
<1>7. ~Creating'
  <2>1. \A i \in DOMAIN (toBackend \o r) : i = Len(toBackend) + (i - Len(toBackend))
    BY <1>3, CalmNow, ConcatOf
  <2> QED
    BY SMTT(30), <1>3, <1>4, <1>5, <2>1, CalmNow, ConcatOf DEF PendingInv, Creating
<1>8. PendingInv'
  BY <1>1, <1>2, <1>5, <1>6, <1>7 DEF PendingInv
<1>9. asked' = front'.changeQ + Count(toBackend', "RequestMsg") + Len(feed')
  BY <1>1, <1>2, <1>6, CalmNow
<1>10. Sent(toBackend') \cap (applied' \cup held') = {}
  BY <1>2, <1>6, CalmNow
<1> QED
  BY <1>1, <1>5, <1>6, <1>8, <1>9, <1>10 DEF ConservedInv

LEMMA WriteChangeConserved ==
  ASSUME TypeInv, OrderInv, ConservedInv, NEW n \in 1..2, WriteChange(n)
  PROVE  ConservedInv'
<1> SUFFICES ASSUME Calm
             PROVE  ConservedInv'
  BY DEF WriteChange, Calm, ConservedInv
<1> DEFINE cs == Reverse(ChangesOf(front.actor, front.seq, front.seq + n))
           had == applied \cup held
<1>1. /\ front.mode = "write" /\ front.actor = Author /\ asked' = asked + n
      /\ front'.mode = "write" /\ front'.changeQ = front.changeQ /\ front'.seq = front.seq + n
      /\ UNCHANGED <<toFrontend, stored, docState, docActor, applied, held, feed>>
      /\ toBackend' = toBackend \o Requests(cs)
      /\ cs \in Seq(Change) /\ Len(cs) = n /\ DOMAIN cs = 1..n
      /\ \A i \in 1..n : cs[i] = [actor |-> front.actor, seq |-> front.seq + n + 1 - i]
  BY WritesLemma DEF Writes, backendVars
<1>2. Author' = Author
  BY WriteChangeType
<1>3. WriteInv /\ front.seq \in Nat /\ n \in Nat
  BY <1>1, CalmNow
<1> HIDE DEF cs
<1>4. \A i \in 1..n : cs[i].actor = Author /\ cs[i].seq = front.seq + n + 1 - i
  BY <1>1
<1>5. \A i \in 1..n : cs[i].seq > front.seq /\ cs[i].seq <= front.seq + n
  BY <1>3, <1>4
<1>6. \A i, j \in DOMAIN cs : cs[i] = cs[j] => i = j
  <2> TAKE i, j \in DOMAIN cs
  <2>1. cs[i] = cs[j] => front.seq + n + 1 - i = front.seq + n + 1 - j
    BY <1>1, <1>4
  <2> QED
    BY <1>1, <1>3, <2>1
<1>7. \A i \in DOMAIN cs : cs[i] \notin Sent(toBackend) \cup had
  <2> TAKE i \in DOMAIN cs
  <2>1. cs[i].actor = Author /\ ~(cs[i].seq <= front.seq)
    BY <1>1, <1>3, <1>4, <1>5
  <2> QED
    BY <1>3, <2>1 DEF WriteInv
<1>8. /\ Distinct(toBackend') /\ Sent(toBackend') \cap had = {}
      /\ \A c \in Sent(toBackend') : c \in Sent(toBackend) \/ \E i \in DOMAIN cs : c = cs[i]
      /\ Count(toBackend', "RequestMsg") = Count(toBackend, "RequestMsg") + n
  <2>1. toBackend \in Seq(BackMsgs) /\ Distinct(toBackend) /\ Sent(toBackend) \cap had = {}
    BY CalmNow
  <2> HIDE DEF had
  <2> QED
    BY <1>1, <1>6, <1>7, <2>1, SentRequests
<1>9. WriteInv'
  <2>1. ASSUME NEW c \in applied \cup held \cup Sent(toBackend), c.actor = Author
        PROVE  c.seq <= front.seq + n
    <3>1. c.seq <= front.seq
      BY <1>3, <2>1 DEF WriteInv
    <3>2. c \in Change
      <4>1. Sent(toBackend) \subseteq Change
        BY InFlightPlaces DEF Sent, TypeInv, QueueInv
      <4> QED
        BY <4>1, BackTypesNow
    <3>3. c.seq \in Nat
      BY <3>2, ChangeType, NumbersLemma
    <3> QED
      BY <1>3, <3>1, <3>3
  <2>2. ASSUME NEW i \in DOMAIN toFrontend
        PROVE  toFrontend[i].patch.seq <= front.seq + n
    <3>1. toFrontend[i].patch.seq <= front.seq
      BY <1>3 DEF WriteInv
    <3>2. toFrontend[i].patch.seq \in Nat
      <4>1. toFrontend[i] \in FrontMsgs
        BY CalmNow, LenProperties
      <4> QED
        BY <4>1, NumbersLemma DEF FrontMsgs, Patches
    <3> QED
      BY <1>3, <3>1, <3>2
  <2> QED
    BY <1>1, <1>2, <1>5, <1>8, <2>1, <2>2 DEF WriteInv
<1>10. asked' = front'.changeQ + Count(toBackend', "RequestMsg") + Len(feed')
  BY <1>1, <1>3, <1>8, CalmNow
<1> QED
  BY <1>1, <1>8, <1>9, <1>10 DEF ConservedInv

LEMMA DestroyConserved ==
  ASSUME TypeInv, Destroy
  PROVE  ConservedInv'
<1>1. destroys' # 0
  BY DEF Destroy, TypeInv, TypeOK
<1> QED
  BY <1>1 DEF ConservedInv, Calm

LEMMA ReceivedConserved ==
  ASSUME TypeInv, OrderInv, ConservedInv, Received
  PROVE  ConservedInv'
<1> SUFFICES ASSUME Calm
             PROVE  ConservedInv'
  BY DEF Received, Calm, ConservedInv
<1> DEFINE m == Head(toFrontend)
           L == Latest(stored, docActor)
           had == applied \cup held
<1>1. /\ toFrontend # <<>> /\ toFrontend' = Tail(toFrontend)
      /\ UNCHANGED <<asked, stored, docState, docActor, applied, held, feed>>
  BY DEF Received, backendVars
<1>2. m \in FrontMsgs /\ m = toFrontend[1] /\ 1 \in DOMAIN toFrontend
  BY <1>1, CalmNow, TailOf
<1>3. docState = "ready" /\ Author = docActor /\ docActor \in Locals /\ docActor # NoActor
  <2>1. docState = "ready"
    BY <1>2, CalmNow
  <2> QED
    BY <2>1, BackTypesNow DEF Author
<1>4. front.mode # "none"
  BY <1>3, CalmNow
<1>5. PICK a \in {front.actor, docActor}, s \in {front.seq, m.patch.seq} :
        /\ s >= front.seq
        /\ s # front.seq => a # NoActor
        /\ m.type = "ReadyMsg" /\ front.mode = "pending" => a = docActor
        /\ \/ Kept(front, front', a, s) /\ UNCHANGED toBackend
           \/ /\ Enabled(front, front', a, s)
              /\ front.mode = "pending" => m.type # "ActorIdMsg" /\ s >= m.patch.seq
              /\ toBackend' = toBackend \o Requests(ChangesOf(a, s, s + front.changeQ))
  BY <1>4 DEF Received
<1>6. Author' = Author
  BY ReceivedType
<1>7. /\ \A i \in DOMAIN toFrontend' : \E j \in DOMAIN toFrontend : toFrontend'[i] = toFrontend[j]
      /\ \A j \in DOMAIN toFrontend : toFrontend[j].patch.seq \in Nat
  <2>1. \A j \in DOMAIN toFrontend : toFrontend[j] \in FrontMsgs
    BY CalmNow, LenProperties
  <2> QED
    BY <1>1, <2>1, SameMessages, NumbersLemma DEF FrontMsgs, Patches
<1>8. m.patch.seq \in Nat /\ s \in Nat
  BY <1>2, <1>7, CalmNow
<1>9. front.mode = "pending" => a # NoActor
  <2> SUFFICES ASSUME front.mode = "pending"
               PROVE  a # NoActor
    OBVIOUS
  <2>1. CASE front.actor = NoActor
    <3>1. m.type = "ReadyMsg"
      BY <1>3, <2>1, CalmNow DEF PendingInv
    <3> QED
      BY <1>3, <1>5, <3>1
  <2>2. CASE front.actor # NoActor
    BY <1>3, <1>5, <2>2
  <2> QED
    BY <2>1, <2>2
<1> HIDE DEF m
<1>10. CASE Kept(front, front', a, s) /\ UNCHANGED toBackend
  <2>1. /\ front'.changeQ = front.changeQ /\ front'.seq = s /\ front'.actor = a
        /\ front'.mode = front.mode
    BY <1>9, <1>10 DEF Kept
  <2>2. front'.mode = "pending" => PendingInv'
    <3> SUFFICES ASSUME front.mode = "pending"
                 PROVE  PendingInv'
      BY <2>1
    <3>1. PendingInv
      BY CalmNow
    <3>2. \A i \in DOMAIN toFrontend' :
            toFrontend'[i].patch.seq =
              IF toFrontend'[i].type = "ActorIdMsg" THEN 0 ELSE Latest(stored, docActor)
      BY <1>7, <3>1 DEF PendingInv
    <3> QED
      BY <1>1, <1>9, <1>10, <2>1, <3>1, <3>2 DEF PendingInv, Creating
  <2>3. front'.mode = "write" => WriteInv'
    <3> SUFFICES ASSUME front.mode = "write"
                 PROVE  WriteInv'
      BY <2>1
    <3>1. WriteInv /\ front.seq \in Nat
      BY CalmNow
    <3>2. \A c \in applied \cup held \cup Sent(toBackend) : c.actor = Author => c.seq <= s
      <4> SUFFICES ASSUME NEW c \in applied \cup held \cup Sent(toBackend), c.actor = Author
                   PROVE  c.seq <= s
        OBVIOUS
      <4>1. Sent(toBackend) \subseteq Change
        BY InFlightPlaces DEF Sent, TypeInv, QueueInv
      <4>2. c.seq \in Nat /\ c.seq <= front.seq
        BY <3>1, <4>1, BackTypesNow, ChangeType, NumbersLemma DEF WriteInv
      <4> QED
        BY <1>5, <1>8, <3>1, <4>2
    <3>3. \A i \in DOMAIN toFrontend' : toFrontend'[i].patch.seq <= s
      <4> TAKE i \in DOMAIN toFrontend'
      <4>1. PICK j \in DOMAIN toFrontend : toFrontend'[i] = toFrontend[j]
        BY <1>7
      <4>2. toFrontend[j].patch.seq <= front.seq /\ toFrontend[j].patch.seq \in Nat
        BY <1>7, <3>1 DEF WriteInv
      <4> QED
        BY <1>5, <1>8, <3>1, <4>1, <4>2
    <3> QED
      BY <1>1, <1>6, <1>10, <2>1, <3>2, <3>3 DEF WriteInv
  <2>4. /\ Sent(toBackend') \cap (applied' \cup held') = {} /\ Distinct(toBackend')
        /\ asked' = front'.changeQ + Count(toBackend', "RequestMsg") + Len(feed')
    BY <1>1, <1>10, <2>1, CalmNow
  <2>5. front'.mode # "read"
    BY <2>1, CalmNow
  <2> QED
    BY <2>2, <2>3, <2>4, <2>5 DEF ConservedInv
<1>11. CASE /\ Enabled(front, front', a, s)
            /\ front.mode = "pending" => m.type # "ActorIdMsg" /\ s >= m.patch.seq
            /\ toBackend' = toBackend \o Requests(ChangesOf(a, s, s + front.changeQ))
  <2> DEFINE n == front.changeQ
             cs == ChangesOf(a, s, s + n)
  <2>1. /\ front'.actor = a /\ front'.seq = s + n /\ front'.changeQ = 0 /\ front'.mode = "write"
        /\ front.mode = "pending" /\ a = Author /\ toBackend' = toBackend \o Requests(cs)
    <3>1. /\ front'.actor = a /\ front'.seq = s + n /\ front'.changeQ = 0 /\ front'.mode = "write"
          /\ front.mode \in {"pending", "read"} /\ a # NoActor
      BY <1>11 DEF Enabled
    <3>2. front.mode = "pending"
      BY <3>1, CalmNow
    <3>3. a = Author
      BY <1>3, <1>5, <3>1, BackTypesNow
    <3> QED
      BY <1>11, <3>1, <3>2, <3>3
  <2>2. PendingInv /\ n \in Nat
    BY <2>1, CalmNow
  <2>3. s >= L /\ L \in Nat
    <3>1. m.patch.seq = L
      BY <1>2, <1>11, <2>1, <2>2 DEF PendingInv
    <3> QED
      BY <1>8, <1>11, <2>1, <3>1
  <2>4. IsRun(cs, a, s, n)
    <3>1. s + n <= MaxSeq
      <4>1. front' \in Fronts
        BY ReceivedType DEF TypeInv, TypeOK
      <4> QED
        BY <1>8, <2>1, <2>2, <4>1, NumbersLemma DEF Fronts, MaxSeq
    <3>2. a \in Locals \cup {Remote} /\ s + n \in s..MaxSeq /\ (s + n) - s = n
      BY <1>3, <1>8, <2>1, <2>2, <3>1, NumbersLemma
    <3> HIDE DEF n
    <3> QED
      BY <1>8, <2>2, <3>2, ChangesOfIs
  <2> HIDE DEF cs, L
  <2>5. /\ cs \in Seq(Change) /\ Len(cs) = n /\ DOMAIN cs = 1..n
        /\ \A i \in 1..n : cs[i].actor = Author /\ cs[i].seq = s + i
    BY <2>1, <2>4 DEF IsRun
  <2>6. \A i \in 1..n : cs[i].seq > s /\ cs[i].seq <= s + n
    BY <1>8, <2>2, <2>5
  <2>7. \A i, j \in DOMAIN cs : cs[i] = cs[j] => i = j
    <3> TAKE i, j \in DOMAIN cs
    <3>1. cs[i] = cs[j] => s + i = s + j
      BY <2>5
    <3> QED
      BY <1>8, <2>5, <3>1
  \* What is applied is of an earlier session, or another author's.
  <2>8. \A c \in had : c.actor = Author => c.seq <= s /\ c.seq \in Nat
    <3> SUFFICES ASSUME NEW c \in had, c.actor = Author
                 PROVE  c.seq <= s /\ c.seq \in Nat
      OBVIOUS
    <3>1. c \in applied /\ applied \in SUBSET Change
      BY <2>2, BackTypesNow DEF PendingInv
    <3>2. Latest(applied, docActor) = L
      BY <1>3, <2>2 DEF PendingInv, L
    <3>3. c.seq <= L /\ c.seq \in Nat
      <4>1. IsLatest(applied, docActor, Latest(applied, docActor))
        BY <3>1, LatestLemma
      <4> QED
        BY <1>3, <3>1, <3>2, <4>1, ChangeType, NumbersLemma DEF IsLatest
    <3> QED
      BY <1>8, <2>3, <3>3
  <2>9. \A i \in DOMAIN cs : cs[i] \notin Sent(toBackend) \cup had
    <3> TAKE i \in DOMAIN cs
    <3>1. cs[i].actor = Author /\ cs[i].seq > s
      BY <2>5, <2>6
    <3>2. ~(cs[i].seq <= s /\ cs[i].seq \in Nat)
      BY <1>8, <3>1
    <3>3. cs[i] \notin had
      BY <2>8, <3>1, <3>2
    <3> QED
      BY <2>2, <3>3 DEF PendingInv
  <2>10. /\ Distinct(toBackend') /\ Sent(toBackend') \cap had = {}
         /\ \A c \in Sent(toBackend') : c \in Sent(toBackend) \/ \E i \in DOMAIN cs : c = cs[i]
         /\ Count(toBackend', "RequestMsg") = Count(toBackend, "RequestMsg") + n
    <3>1. toBackend \in Seq(BackMsgs) /\ Distinct(toBackend) /\ Sent(toBackend) \cap had = {}
      BY CalmNow
    <3> HIDE DEF had
    <3> QED
      BY <2>1, <2>5, <2>7, <2>9, <3>1, SentRequests
  <2>11. WriteInv'
    <3>1. \A c \in had \cup Sent(toBackend') : c.actor = Author => c.seq <= s + n
      <4>1. \A c \in had : c.actor = Author => c.seq <= s + n
        BY <1>8, <2>2, <2>8
      <4>2. \A c \in Sent(toBackend') : c.seq <= s + n
        BY <2>2, <2>5, <2>6, <2>10 DEF PendingInv
      <4> QED
        BY <4>1, <4>2
    <3>2. \A i \in DOMAIN toFrontend' : toFrontend'[i].patch.seq <= s + n
      <4> TAKE i \in DOMAIN toFrontend'
      <4>1. PICK j \in DOMAIN toFrontend : toFrontend'[i] = toFrontend[j]
        BY <1>7
      <4>2. toFrontend[j].patch.seq \in {0, L}
        BY <2>2 DEF PendingInv, L
      <4> QED
        BY <1>8, <2>2, <2>3, <4>1, <4>2
    <3> QED
      BY <1>1, <1>6, <2>1, <3>1, <3>2 DEF WriteInv
  <2>12. asked' = front'.changeQ + Count(toBackend', "RequestMsg") + Len(feed')
    <3>1. asked = n + Count(toBackend, "RequestMsg") + Len(feed) /\ Len(feed) = 0
          /\ Count(toBackend, "RequestMsg") \in Nat
      BY <2>2, CalmNow, EmptySeq DEF PendingInv
    <3> HIDE DEF n
    <3> QED
      BY <1>1, <2>1, <2>2, <2>10, <3>1
  <2> QED
    BY <1>1, <2>1, <2>10, <2>11, <2>12 DEF ConservedInv
<1> QED
  BY <1>5, <1>10, <1>11

\* A step of the backend that sends r.
LEMMA BackConserved ==
  ASSUME TypeInv, OrderInv, ConservedInv, Calm, UNCHANGED <<frontVars, stored>>,
         NEW r \in Seq(FrontMsgs), toFrontend' = toFrontend \o r,
         docState = "ready" => docActor' = docActor,
         Sent(toBackend') \subseteq Sent(toBackend), Distinct(toBackend'),
         Sent(toBackend') \cap (applied' \cup held') = {},
         asked = front.changeQ + Count(toBackend', "RequestMsg") + Len(feed'), front.mode # "none",
         front.mode = "pending" =>
           /\ ~Creating' /\ feed' = <<>> /\ held' = {}
           /\ docState' = "ready" => Latest(applied', docActor') = Latest(stored, docActor')
           /\ \A i \in DOMAIN r :
                r[i].patch.seq = IF r[i].type = "ActorIdMsg" THEN 0 ELSE Latest(stored, docActor')
           /\ docState' = "ready" => docState = "ready" \/ (r # <<>> /\ Head(r).type = "ReadyMsg"),
         front.mode = "write" =>
           /\ Author' = Author
           /\ \A c \in applied' \cup held' : c.actor = Author => c \in applied \cup held \cup Sent(toBackend)
           /\ \A i \in DOMAIN r : r[i].patch.seq <= front.seq
  PROVE  ConservedInv'
<1>1. UNCHANGED <<front, asked>> /\ toFrontend \in Seq(FrontMsgs)
  BY CalmNow DEF frontVars
<1>2. \A i \in DOMAIN toFrontend' :
        \/ i \in DOMAIN toFrontend /\ toFrontend'[i] = toFrontend[i]
        \/ i - Len(toFrontend) \in DOMAIN r /\ toFrontend'[i] = r[i - Len(toFrontend)]
  <2>1. \A i \in DOMAIN (toFrontend \o r) : i = Len(toFrontend) + (i - Len(toFrontend))
    BY <1>1, ConcatOf
  <2> QED
    BY <1>1, <2>1, ConcatOf
<1>3. docState # "ready" => toFrontend' = r /\ DOMAIN toFrontend = {}
  <2> SUFFICES ASSUME docState # "ready"
               PROVE  toFrontend' = r /\ DOMAIN toFrontend = {}
    OBVIOUS
  <2>1. DOMAIN toFrontend = {}
    BY CalmNow
  <2>2. toFrontend = <<>>
    BY <1>1, <2>1, EmptySeq, LenProperties
  <2> QED
    BY <2>1, <2>2, ConcatEmptySeq
<1>4. front.mode = "pending" => PendingInv'
  <2> SUFFICES ASSUME front.mode = "pending"
               PROVE  PendingInv'
    OBVIOUS
  <2>1. PendingInv
    BY CalmNow
  <2>2. Sent(toBackend') = {}
    BY <2>1 DEF PendingInv
  <2>3. ASSUME NEW i \in DOMAIN toFrontend'
        PROVE  toFrontend'[i].patch.seq =
                 IF toFrontend'[i].type = "ActorIdMsg" THEN 0 ELSE Latest(stored, docActor')
    <3>1. CASE i \in DOMAIN toFrontend /\ toFrontend'[i] = toFrontend[i]
      BY <1>3, <2>1, <3>1 DEF PendingInv
    <3>2. CASE i - Len(toFrontend) \in DOMAIN r /\ toFrontend'[i] = r[i - Len(toFrontend)]
      BY <3>2
    <3> QED
      BY <1>2, <2>3, <3>1, <3>2
  <2>4. docState' = "ready" /\ front.actor = NoActor =>
          toFrontend' # <<>> /\ Head(toFrontend').type = "ReadyMsg"
    <3> SUFFICES ASSUME docState' = "ready", front.actor = NoActor
                 PROVE  toFrontend' # <<>> /\ Head(toFrontend').type = "ReadyMsg"
      OBVIOUS
    <3>1. CASE docState = "ready"
      <4>1. toFrontend # <<>> /\ Head(toFrontend).type = "ReadyMsg"
        BY <2>1, <3>1 DEF PendingInv
      <4>2. 1 \in DOMAIN toFrontend /\ Head(toFrontend) = toFrontend[1]
        BY <1>1, <4>1, TailOf
      <4>3. 1 \in DOMAIN toFrontend' /\ toFrontend'[1] = toFrontend[1] /\ toFrontend' \in Seq(FrontMsgs)
        BY <1>1, <4>2, ConcatOf
      <4>4. toFrontend' # <<>>
        BY <4>3, EmptySeq
      <4>5. Head(toFrontend') = toFrontend'[1]
        <5> DEFINE q == toFrontend'
        <5>1. q \in Seq(FrontMsgs) /\ q # <<>>
          BY <4>3, <4>4
        <5> HIDE DEF q
        <5>2. Head(q) = q[1]
          BY <5>1, TailOf
        <5> QED
          BY <5>2 DEF q
      <4> QED
        BY <4>1, <4>2, <4>3, <4>4, <4>5
    <3>2. CASE docState # "ready"
      BY <1>3, <3>2
    <3> QED
      BY <3>1, <3>2
  <2> QED
    BY <1>1, <2>2, <2>3, <2>4 DEF PendingInv
<1>5. front.mode = "write" => WriteInv'
  <2> SUFFICES ASSUME front.mode = "write"
               PROVE  WriteInv'
    OBVIOUS
  <2>1. WriteInv
    BY CalmNow
  <2>2. \A i \in DOMAIN toFrontend' : toFrontend'[i].patch.seq <= front.seq
    BY <1>2, <2>1 DEF WriteInv
  <2>3. \A c \in applied' \cup held' \cup Sent(toBackend') : c.actor = Author => c.seq <= front.seq
    BY <2>1 DEF WriteInv
  <2> QED
    BY <1>1, <2>2, <2>3 DEF WriteInv
<1>6. asked' = front'.changeQ + Count(toBackend', "RequestMsg") + Len(feed')
  BY <1>1
<1>7. front'.mode # "read"
  BY <1>1, CalmNow
<1> QED
  BY <1>1, <1>4, <1>5, <1>6, <1>7 DEF ConservedInv

\* A message that the backend takes and that is no request.
LEMMA TakenConserved ==
  ASSUME TypeInv, toBackend # <<>>, toBackend' = Tail(toBackend), Head(toBackend).type # "RequestMsg"
  PROVE  /\ Sent(toBackend') \subseteq Sent(toBackend)
         /\ Distinct(toBackend) => Distinct(toBackend')
         /\ Count(toBackend', "RequestMsg") = Count(toBackend, "RequestMsg")
         /\ Count(toBackend, "RequestMsg") \in Nat
<1> DEFINE t == Tail(toBackend)
<1>1. toBackend \in Seq(BackMsgs) /\ Count(toBackend, "RequestMsg") \in Nat
  BY CountType DEF TypeInv, TypeOK
<1>2. /\ Sent(t) \subseteq Sent(toBackend)
      /\ Distinct(toBackend) => Distinct(t)
      /\ Count(t, "RequestMsg") = Count(toBackend, "RequestMsg") - 0
  BY <1>1, SentTail
<1>3. Count(t, "RequestMsg") = Count(toBackend, "RequestMsg")
  BY <1>1, <1>2
<1>4. toBackend' = t
  OBVIOUS
<1> QED
  BY <1>1, <1>2, <1>3, <1>4, Zenon

LEMMA ReceiveCreateConserved ==
  ASSUME TypeInv, OrderInv, ConservedInv, ReceiveCreate
  PROVE  ConservedInv'
<1> SUFFICES ASSUME Calm
             PROVE  ConservedInv'
  BY DEF ReceiveCreate, frontVars, Calm, ConservedInv
<1> DEFINE msg == ReadyMsg(FALSE, Root, FALSE, NoPatch)
           r == <<msg>>
<1>1. /\ toBackend # <<>> /\ Head(toBackend).type = "CreateMsg" /\ toBackend' = Tail(toBackend)
      /\ toFrontend' = toFrontend \o r
      /\ UNCHANGED <<frontVars, stored, applied, held, feed, spares, upsets>>
  BY DEF ReceiveCreate, Heading, Notify
<1>2. Creating /\ docState = "none" /\ Author' = Author
  BY <1>1, HeadOfQueue, ReceiveCreateType
<1>3. msg \in FrontMsgs /\ msg.patch.seq = 0
  <2>1. Root \in Locals
    BY DEF Locals
  <2> QED
    BY <2>1, SmallMessageTypes
<1> HIDE DEF msg
<1>4. r \in Seq(FrontMsgs) /\ DOMAIN r = {1} /\ r[1].patch.seq = 0
  BY <1>3
<1> HIDE DEF r
<1>5. front.mode = "write"
  BY <1>1, <1>2, CalmNow DEF PendingInv
<1>6. \A i \in DOMAIN r : r[i].patch.seq <= front.seq
  BY <1>4, CalmNow
<1>7. /\ Sent(toBackend') \subseteq Sent(toBackend) /\ Distinct(toBackend')
      /\ Count(toBackend', "RequestMsg") = Count(toBackend, "RequestMsg")
  BY <1>1, TakenConserved, CalmNow
<1>8. /\ Sent(toBackend') \cap (applied' \cup held') = {}
      /\ asked = front.changeQ + Count(toBackend', "RequestMsg") + Len(feed')
  BY <1>1, <1>7, CalmNow
<1> QED
  BY <1>1, <1>2, <1>4, <1>5, <1>6, <1>7, <1>8, BackConserved

LEMMA ReceiveOpenConserved ==
  ASSUME TypeInv, OrderInv, ConservedInv, ReceiveOpen
  PROVE  ConservedInv'
<1> SUFFICES ASSUME Calm
             PROVE  ConservedInv'
  BY DEF ReceiveOpen, frontVars, Calm, ConservedInv
<1>1. /\ toBackend # <<>> /\ Head(toBackend).type = "OpenMsg" /\ toBackend' = Tail(toBackend)
      /\ docState' = IF docState = "none" THEN "loading" ELSE docState
      /\ UNCHANGED <<frontVars, toFrontend, stored, docActor, applied, held, feed, hasClock, spares, upsets>>
  BY DEF ReceiveOpen, Heading
<1>2. Author' = Author /\ ~Creating'
  BY <1>1, ReceiveOpenType, QueueTail
<1>3. /\ toFrontend' = toFrontend \o <<>>
      /\ docState' = "ready" => docState = "ready"
  BY <1>1, BackTypesNow
<1>4. /\ Sent(toBackend') \subseteq Sent(toBackend) /\ Distinct(toBackend')
      /\ Count(toBackend', "RequestMsg") = Count(toBackend, "RequestMsg")
  BY <1>1, TakenConserved, CalmNow
<1>5. /\ Sent(toBackend') \cap (applied' \cup held') = {}
      /\ asked = front.changeQ + Count(toBackend', "RequestMsg") + Len(feed') /\ front.mode # "none"
  BY <1>1, <1>4, CalmNow
<1>6. front.mode = "pending" =>
        /\ feed' = <<>> /\ held' = {}
        /\ docState' = "ready" => Latest(applied', docActor') = Latest(stored, docActor')
  BY <1>1, <1>3, CalmNow DEF PendingInv
<1> QED
  BY <1>1, <1>2, <1>3, <1>4, <1>5, <1>6, NoMessages, BackConserved

LEMMA ReceiveNeedsActorIdConserved ==
  ASSUME TypeInv, OrderInv, ConservedInv, ReceiveNeedsActorId
  PROVE  ConservedInv'
<1> SUFFICES ASSUME Calm
             PROVE  ConservedInv'
  BY DEF ReceiveNeedsActorId, frontVars, Calm, ConservedInv
<1>1. /\ toBackend # <<>> /\ Head(toBackend).type = "NeedsActorIdMsg" /\ toBackend' = Tail(toBackend)
      /\ spares' = spares + 1
      /\ \/ docState = "ready" /\ toFrontend' = toFrontend \o <<ActorIdMsg(docActor')>>
         \/ toFrontend' = toFrontend
      /\ UNCHANGED <<frontVars, stored, docState, applied, held, feed, upsets>>
  BY DEF ReceiveNeedsActorId, Heading, Notify
<1>2. Author' = Author /\ docActor' = docActor /\ ~Creating'
  BY <1>1, ReceiveNeedsActorIdType, QueueTail
<1>3. /\ Sent(toBackend') \subseteq Sent(toBackend) /\ Distinct(toBackend')
      /\ Count(toBackend', "RequestMsg") = Count(toBackend, "RequestMsg")
  BY <1>1, TakenConserved, CalmNow
<1>4. /\ Sent(toBackend') \cap (applied' \cup held') = {}
      /\ asked = front.changeQ + Count(toBackend', "RequestMsg") + Len(feed') /\ front.mode # "none"
  BY <1>1, <1>3, CalmNow
<1>5. front.mode = "pending" =>
        /\ feed' = <<>> /\ held' = {}
        /\ docState' = "ready" => Latest(applied', docActor') = Latest(stored, docActor')
  BY <1>1, <1>2, CalmNow DEF PendingInv
<1>6. PICK r \in Seq(FrontMsgs) :
        /\ toFrontend' = toFrontend \o r
        /\ \A i \in DOMAIN r : r[i].type = "ActorIdMsg" /\ r[i].patch.seq = 0
  <2>1. CASE docState = "ready" /\ toFrontend' = toFrontend \o <<ActorIdMsg(docActor')>>
    <3> DEFINE msg == ActorIdMsg(docActor')
               r == <<msg>>
    <3>1. docActor' \in Locals
      BY <1>2, <2>1, BackTypesNow
    <3>2. msg \in FrontMsgs /\ msg.patch.seq = 0 /\ msg.type = "ActorIdMsg"
      BY <3>1, SmallMessageTypes
    <3>3. toFrontend' = toFrontend \o r
      BY <2>1
    <3> HIDE DEF msg
    <3>4. r \in Seq(FrontMsgs) /\ DOMAIN r = {1} /\ r[1] = msg
      BY <3>2
    <3> HIDE DEF r
    <3> QED
      BY <3>2, <3>3, <3>4
  <2>2. CASE toFrontend' = toFrontend
    BY <2>2, NoMessages, BackTypesNow
  <2> QED
    BY <1>1, <2>1, <2>2
<1>7. \A i \in DOMAIN r : r[i].patch.seq <= front.seq
  BY <1>6, CalmNow
<1> QED
  BY <1>1, <1>2, <1>3, <1>4, <1>5, <1>6, <1>7, BackConserved

LEMMA OneMoved ==
  ASSUME NEW a, NEW f \in Nat, NEW o \in Nat, NEW w \in Nat, a = f + o + w
  PROVE  a = f + (o - 1) + (w + 1)
OBVIOUS

\* A request that the backend takes is a new change.
LEMMA RequestWrites ==
  ASSUME TypeInv, OrderInv, ConservedInv, Calm, NEW c, NEW ripe, Answered(c, ripe)
  PROVE  /\ front.mode = "write" /\ WriteInv /\ c \in Sent(toBackend) /\ c \notin applied \cup held
         /\ IsFeedable(c)
         /\ Sent(toBackend') \subseteq Sent(toBackend) /\ c \notin Sent(toBackend') /\ Distinct(toBackend')
         /\ Count(toBackend', "RequestMsg") = Count(toBackend, "RequestMsg") - 1
<1>1. /\ toBackend # <<>> /\ Head(toBackend).type = "RequestMsg" /\ toBackend' = Tail(toBackend)
      /\ c = Head(toBackend).change /\ c \in Change
  BY DEF Answered
<1>2. toBackend \in Seq(BackMsgs) /\ Distinct(toBackend)
  BY CalmNow
<1> DEFINE t == Tail(toBackend)
<1>3. /\ Sent(t) \subseteq Sent(toBackend) /\ Distinct(t)
      /\ Count(t, "RequestMsg") = Count(toBackend, "RequestMsg") - 1
      /\ c \in Sent(toBackend) /\ c \notin Sent(t)
  BY <1>1, <1>2, SentTail
<1>4. front.mode = "write" /\ WriteInv
  BY <1>1, <1>3, CalmNow DEF PendingInv
<1>5. c \notin applied \cup held
  BY <1>3, CalmNow
<1>6. IsFeedable(c)
  <2>1. applied \in SUBSET Change /\ Closed(applied)
    BY BackTypesNow DEF OrderInv, GapInv
  <2>2. Latest(applied, c.actor) \in 0..MaxSeq /\ c.seq \in 1..MaxSeq
    BY <1>1, <2>1, LatestLemma, ChangeType
  <2>3. ~(c.seq <= Latest(applied, c.actor))
    BY <1>1, <1>5, <2>1, ClosedLemma
  <2> QED
    BY <2>2, <2>3, NumbersLemma DEF IsFeedable
<1>7. toBackend' = t
  BY <1>1
<1> HIDE DEF t
<1> QED
  BY <1>3, <1>4, <1>5, <1>6, <1>7, Zenon

LEMMA ReceiveRequestConserved ==
  ASSUME TypeInv, OrderInv, ConservedInv, NEW c, NEW ripe, Answered(c, ripe)
  PROVE  ConservedInv'
<1> SUFFICES ASSUME Calm
             PROVE  ConservedInv'
  BY DEF Answered, frontVars, Calm, ConservedInv
<1>1. /\ docState = "ready" /\ docActor \in Locals /\ Author = docActor
      /\ c \in Change /\ ripe = Ripe(held \cup {c}, applied) /\ ripe \in SUBSET Change
      /\ applied' \in SUBSET Change
      /\ UNCHANGED <<frontVars, stored, docState, docActor, spares, upsets>>
  BY DEF Answered
<1>2. /\ front.mode = "write" /\ WriteInv /\ c \in Sent(toBackend) /\ c \notin applied \cup held
      /\ IsFeedable(c)
      /\ Sent(toBackend') \subseteq Sent(toBackend) /\ c \notin Sent(toBackend') /\ Distinct(toBackend')
      /\ Count(toBackend', "RequestMsg") = Count(toBackend, "RequestMsg") - 1
  BY RequestWrites
<1>3. PICK good \in BOOLEAN :
        /\ applied' = applied \cup ripe /\ held' = (held \cup {c}) \ ripe /\ feed' = Append(feed, c)
        /\ toFrontend' = toFrontend \o <<PatchMsg(good, PatchOf(ripe, c, applied', docActor))>>
  BY <1>2 DEF Answered
<1>4. Author' = Author
  BY ReceiveRequestType
<1>5. applied' \cup held' = applied \cup held \cup {c}
  <2>1. ripe \subseteq held \cup {c}
    BY <1>1 DEF Ripe
  <2> QED
    BY <1>3, <2>1
<1>6. Sent(toBackend') \cap (applied' \cup held') = {}
  BY <1>2, <1>5, CalmNow
<1>7. asked = front.changeQ + Count(toBackend', "RequestMsg") + Len(feed')
  <2>1. Len(feed') = Len(feed) + 1
    BY <1>1, <1>3, BackTypesNow, AppendProperties
  <2>2. /\ asked = front.changeQ + Count(toBackend, "RequestMsg") + Len(feed)
        /\ Count(toBackend, "RequestMsg") \in Nat /\ Len(feed) \in Nat /\ front.changeQ \in Nat
    BY CalmNow
  <2> QED
    BY <1>2, <2>1, <2>2, OneMoved
<1> DEFINE msg == PatchMsg(good, PatchOf(ripe, c, applied', docActor))
           r == <<msg>>
<1>8. msg \in FrontMsgs /\ msg.patch.seq = Latest(applied', docActor)
  <2> DEFINE p == PatchOf(ripe, c, applied', docActor)
  <2>1. ripe \in SUBSET Change /\ c \in Change \cup {NoChange} /\ applied' \in SUBSET Change
    BY <1>1
  <2>2. p \in Patches /\ p.seq = Latest(applied', docActor)
    BY <2>1, PatchType
  <2> HIDE DEF p
  <2>3. PatchMsg(good, p) \in FrontMsgs /\ PatchMsg(good, p).patch = p
    BY <2>2, PatchMsgType
  <2> QED
    BY <2>2, <2>3 DEF p
<1>9. toFrontend' = toFrontend \o r
  BY <1>3
<1> HIDE DEF msg
<1>10. r \in Seq(FrontMsgs) /\ DOMAIN r = {1} /\ r[1] = msg
  BY <1>8
<1> HIDE DEF r
<1>11. Latest(applied', docActor) <= front.seq
  <2> DEFINE n == Latest(applied', docActor)
             d == [actor |-> docActor, seq |-> n]
  <2>1. \A S \in SUBSET Change : Latest(S, docActor) = 0 \/ [actor |-> docActor, seq |-> Latest(S, docActor)] \in S
    BY LatestLemma DEF IsLatest
  <2>2. n = 0 \/ d \in applied'
    BY <1>1, <2>1
  <2>3. CASE n = 0
    BY <2>3, CalmNow
  <2>4. CASE d \in applied'
    <3>1. d \in applied \cup held \cup Sent(toBackend) /\ d.actor = docActor /\ d.seq = n
      BY <1>2, <1>5, <2>4
    <3> HIDE DEF n, d
    <3>2. n <= front.seq
      BY <1>1, <1>2, <3>1 DEF WriteInv
    <3> QED
      BY <3>2 DEF n
  <2> QED
    BY <2>2, <2>3, <2>4
<1>12. \A i \in DOMAIN r : r[i].patch.seq <= front.seq
  BY <1>8, <1>10, <1>11
<1>13. \A d \in applied' \cup held' : d \in applied \cup held \cup Sent(toBackend)
  BY <1>2, <1>5
<1> QED
  BY <1>1, <1>2, <1>4, <1>6, <1>7, <1>9, <1>10, <1>12, <1>13, BackConserved

\* loadDocument at its end, when nothing came too late for the slices.
LEMMA LoadConserved ==
  ASSUME TypeInv, OrderInv, ConservedInv, NEW n \in 0..1, Load(n)
  PROVE  ConservedInv'
<1> SUFFICES ASSUME Calm, n = 0
             PROVE  ConservedInv'
  <2>1. Calm' => Calm /\ n = 0
    BY DEF Load, frontVars, Calm
  <2> QED
    BY <2>1 DEF ConservedInv
<1>1. /\ docState' = "ready" /\ applied' = stored \cup Arriving(stored, n)
      /\ Latest(stored, Remote) + n <= MaxRemote
      /\ UNCHANGED <<frontVars, toBackend, stored, held, feed, spares>>
  BY DEF Load
<1>2. /\ docState = "loading" /\ Author = NoActor /\ ~Creating /\ docActor' \in Locals
  BY LoadType
<1>3. front.mode = "pending" /\ PendingInv
  <2>1. front.actor = NoActor
    BY <1>2, BackTypesNow
  <2> QED
    BY <1>2, <2>1, CalmNow, NumbersLemma
<1>4. applied' = stored
  <2>1. stored \in SUBSET Change
    BY BackTypesNow, StoresLemma
  <2>2. Arriving(stored, 0) = {}
    <3> DEFINE k == Latest(stored, Remote)
    <3>1. k \in 0..MaxSeq
      BY <2>1, LatestLemma
    <3>2. Arriving(stored, 0) = ToSet(ChangesOf(Remote, k, k + 0))
      BY DEF Arriving
    <3> HIDE DEF k
    <3>3. k \in Nat /\ k + 0 = k /\ k \in k..MaxSeq /\ Remote \in Locals \cup {Remote}
      BY <3>1, NumbersLemma
    <3>4. \A c : c \in ToSet(ChangesOf(Remote, k, k)) <=>
                 c \in Change /\ c.actor = Remote /\ c.seq \in (k + 1)..k
      BY <3>3, ChangesOfSet
    <3>5. (k + 1)..k = {}
      BY <3>3
    <3> QED
      BY <3>2, <3>3, <3>4, <3>5
  <2> QED
    BY <1>1, <2>2
<1>5. PICK good \in BOOLEAN :
        toFrontend' = toFrontend \o
          <<ReadyMsg(good, docActor', TRUE, PatchOf(stored, NoChange, stored, docActor'))>>
  <2> DEFINE late == Arriving(stored, n)
  <2>1. \E first \in BOOLEAN, good \in BOOLEAN :
          toFrontend' = toFrontend \o
            ((IF n > 0 THEN <<PatchMsg(first, PatchOf(late, NoChange, applied', docActor'))>> ELSE <<>>)
             \o <<ReadyMsg(good, docActor', TRUE, PatchOf(stored, NoChange, stored, docActor'))>>)
    BY BackTypesNow DEF Load, Notify, Good
  <2>2. \A m : <<>> \o <<m>> = <<m>>
    OBVIOUS
  <2>3. \A m : (IF n > 0 THEN <<m>> ELSE <<>>) = <<>>
    OBVIOUS
  <2> HIDE DEF late
  <2> QED
    BY <2>1, <2>2, <2>3
<1> DEFINE p == PatchOf(stored, NoChange, stored, docActor')
           msg == ReadyMsg(good, docActor', TRUE, p)
           r == <<msg>>
<1>6. p \in Patches /\ p.seq = Latest(stored, docActor')
  <2>1. stored \in SUBSET Change
    BY BackTypesNow, StoresLemma
  <2> QED
    BY <2>1, PatchType
<1>7. toFrontend' = toFrontend \o r
  BY <1>5
<1> HIDE DEF p
<1>8. msg \in FrontMsgs /\ msg.type = "ReadyMsg" /\ msg.patch = p
  <2> DEFINE a == docActor'
  <2>1. a \in Locals /\ good \in BOOLEAN /\ p \in Patches
    BY <1>2, <1>6
  <2>2. msg = ReadyMsg(good, a, TRUE, p)
    OBVIOUS
  <2> HIDE DEF a, msg
  <2> QED
    BY <2>1, <2>2 DEF ReadyMsg, FrontMsgs
<1> HIDE DEF msg
<1>9. r \in Seq(FrontMsgs) /\ DOMAIN r = {1} /\ r[1] = msg /\ r # <<>> /\ Head(r) = msg
  BY <1>8
<1> HIDE DEF r
<1>10. /\ ~Creating' /\ feed' = <<>> /\ held' = {}
       /\ Latest(applied', docActor') = Latest(stored, docActor')
  BY <1>1, <1>2, <1>3, <1>4 DEF Creating, PendingInv
<1>11. \A i \in DOMAIN r :
         r[i].patch.seq = IF r[i].type = "ActorIdMsg" THEN 0 ELSE Latest(stored, docActor')
  BY <1>6, <1>8, <1>9
<1>12. /\ Sent(toBackend') \subseteq Sent(toBackend) /\ Distinct(toBackend')
       /\ Sent(toBackend') \cap (applied' \cup held') = {}
       /\ asked = front.changeQ + Count(toBackend', "RequestMsg") + Len(feed')
  BY <1>1, <1>3, CalmNow DEF PendingInv
<1> QED
  BY <1>1, <1>2, <1>3, <1>7, <1>8, <1>9, <1>10, <1>11, <1>12, BackConserved

LEMMA RemoteChangeConserved ==
  ASSUME TypeInv, OrderInv, ConservedInv, RemoteChange
  PROVE  ConservedInv'
<1> SUFFICES ASSUME Calm
             PROVE  ConservedInv'
  BY DEF RemoteChange, frontVars, Calm, ConservedInv
<1> DEFINE late == Arriving(applied, 1)
<1>1. /\ docState = "ready" /\ Latest(applied, Remote) < MaxRemote /\ applied' = applied \cup late
      /\ UNCHANGED <<frontVars, toBackend, stored, docState, docActor, held, feed, spares, upsets>>
  BY DEF RemoteChange
<1>2. PICK good \in BOOLEAN :
        toFrontend' = toFrontend \o <<PatchMsg(good, PatchOf(late, NoChange, applied', docActor))>>
  BY BackTypesNow DEF RemoteChange, Notify, Good
<1>3. /\ applied \in SUBSET Change /\ Latest(applied, Remote) + 1 <= MaxRemote
      /\ docActor \in Locals /\ Author = docActor
  <2>1. Latest(applied, Remote) + 1 <= MaxRemote
    BY <1>1, BackTypesNow, LatestLemma, NumbersLemma
  <2> QED
    BY <1>1, <2>1, BackTypesNow DEF Author
<1>4. late \in SUBSET Change /\ (\A c \in late : c.actor = Remote)
  <2>1. 1 \in 0..1
    OBVIOUS
  <2> QED
    BY <1>3, <2>1, ArrivingLemma
<1> HIDE DEF late
<1>5. Author' = Author
  BY RemoteChangeType
<1>6. applied' \in SUBSET Change /\ Latest(applied', docActor) = Latest(applied, docActor)
  <2>1. \A c \in late : c.actor # docActor
    BY <1>3, <1>4, NumbersLemma
  <2>2. Latest(applied \cup late, docActor) = Latest(applied, docActor)
    BY <1>3, <1>4, <2>1, LatestSame
  <2> QED
    BY <1>1, <1>3, <1>4, <2>2
<1>7. Sent(toBackend') \cap (applied' \cup held') = {}
  <2>1. \A c \in Sent(toBackend) : c.actor = Author
    BY InFlightPlaces DEF Sent, TypeInv, QueueInv
  <2>2. Sent(toBackend) \cap late = {}
    BY <1>3, <1>4, <2>1, NumbersLemma
  <2> QED
    BY <1>1, <2>2, CalmNow
<1> DEFINE p == PatchOf(late, NoChange, applied', docActor)
           msg == PatchMsg(good, p)
           r == <<msg>>
<1>8. p \in Patches /\ p.seq = Latest(applied, docActor)
  BY <1>4, <1>6, PatchType
<1>9. toFrontend' = toFrontend \o r
  BY <1>2
<1> HIDE DEF p
<1>10. msg \in FrontMsgs /\ msg.patch = p /\ msg.type = "PatchMsg"
  BY <1>2, <1>8, PatchMsgType
<1> HIDE DEF msg
<1>11. r \in Seq(FrontMsgs) /\ DOMAIN r = {1} /\ r[1] = msg
  BY <1>10
<1> HIDE DEF r
<1>12. front.mode = "pending" =>
         /\ ~Creating' /\ feed' = <<>> /\ held' = {}
         /\ Latest(applied', docActor') = Latest(stored, docActor')
         /\ \A i \in DOMAIN r :
              r[i].patch.seq = IF r[i].type = "ActorIdMsg" THEN 0 ELSE Latest(stored, docActor')
  BY <1>1, <1>6, <1>8, <1>10, <1>11, CalmNow DEF PendingInv, Creating
<1>13. front.mode = "write" =>
         /\ \A c \in applied' \cup held' : c.actor = Author => c \in applied \cup held \cup Sent(toBackend)
         /\ \A i \in DOMAIN r : r[i].patch.seq <= front.seq
  <2> SUFFICES ASSUME front.mode = "write"
               PROVE  /\ \A c \in applied' \cup held' :
                           c.actor = Author => c \in applied \cup held \cup Sent(toBackend)
                      /\ \A i \in DOMAIN r : r[i].patch.seq <= front.seq
    OBVIOUS
  <2>1. \A c \in late : c.actor # Author
    BY <1>3, <1>4, NumbersLemma
  <2>2. Latest(applied, docActor) <= front.seq
    <3> DEFINE n == Latest(applied, docActor)
               d == [actor |-> docActor, seq |-> n]
    <3>1. n = 0 \/ d \in applied
      BY <1>3, LatestLemma DEF IsLatest
    <3>2. d.actor = docActor /\ d.seq = n
      OBVIOUS
    <3> HIDE DEF n, d
    <3>3. WriteInv /\ front.seq \in Nat
      BY CalmNow
    <3>4. n <= front.seq
      BY <1>3, <3>1, <3>2, <3>3 DEF WriteInv
    <3> QED
      BY <3>4 DEF n
  <2> QED
    BY <1>1, <1>8, <1>10, <1>11, <2>1, <2>2
<1>14. /\ Sent(toBackend') \subseteq Sent(toBackend) /\ Distinct(toBackend') /\ front.mode # "none"
       /\ asked = front.changeQ + Count(toBackend', "RequestMsg") + Len(feed')
  BY <1>1, CalmNow
<1> QED
  BY <1>1, <1>5, <1>7, <1>9, <1>11, <1>12, <1>13, <1>14, BackConserved

LEMMA InitConserved ==
  ASSUME Init
  PROVE  ConservedInv
<1>1. /\ front = NewFrontend("none", NoActor) /\ asked = 0 /\ toBackend = <<>> /\ feed = <<>>
      /\ applied = {} /\ held = {}
  BY DEF Init
<1>2. front.mode = "none" /\ front.changeQ = 0
  BY <1>1 DEF NewFrontend
<1>3. DOMAIN toBackend = {} /\ toBackend \in Seq(BackMsgs) /\ Len(feed) = 0
  BY <1>1, EmptySeq
<1>4. Sent(toBackend) = {} /\ Distinct(toBackend) /\ Count(toBackend, "RequestMsg") = 0
  BY <1>3, NoRequests
<1> QED
  BY <1>1, <1>2, <1>3, <1>4 DEF ConservedInv

LEMMA StepConserved ==
  ASSUME TypeInv, OrderInv, ConservedInv, [Next]_vars
  PROVE  ConservedInv'
<1>1. CASE Create
  BY <1>1, CreateConserved
<1>2. CASE Open
  BY <1>2, OpenConserved
<1>3. CASE Watch
  BY <1>3, WatchConserved
<1>4. CASE QueueChange
  BY <1>4, QueueChangeConserved
<1>5. CASE Destroy
  BY <1>5, DestroyConserved
<1>6. CASE \E n \in 1..2 : WriteChange(n)
  BY <1>6, WriteChangeConserved
<1>7. CASE \E n \in 0..1 : Load(n)
  BY <1>7, LoadConserved
<1>8. CASE RemoteChange
  BY <1>8, RemoteChangeConserved
<1>9. CASE ReceiveCreate
  BY <1>9, ReceiveCreateConserved
<1>10. CASE ReceiveOpen
  BY <1>10, ReceiveOpenConserved
<1>11. CASE ReceiveNeedsActorId
  BY <1>11, ReceiveNeedsActorIdConserved
<1>12. CASE ReceiveRequest
  BY <1>12, AnsweredLemma, ReceiveRequestConserved
<1>13. CASE ReceiveReady \/ ReceivePatch \/ ReceiveActorId
  BY <1>13, ReceivedLemma, ReceivedConserved
<1>14. CASE UNCHANGED vars
  <2>1. /\ UNCHANGED <<front, asked, destroys, toBackend, toFrontend, upsets>>
        /\ UNCHANGED <<stored, docState, docActor, applied, held, feed>>
    BY <1>14 DEF vars, frontVars, backendVars
  <2>2. Author' = Author /\ Creating' = Creating
    BY <2>1 DEF Author, Creating
  <2>3. (PendingInv => PendingInv') /\ (WriteInv => WriteInv')
    BY <2>1, <2>2 DEF PendingInv, WriteInv
  <2> QED
    BY <2>1, <2>3 DEF ConservedInv, Calm
<1> QED
  BY <1>1, <1>2, <1>3, <1>4, <1>5, <1>6, <1>7, <1>8, <1>9, <1>10, <1>11, <1>12, <1>13, <1>14
  DEF Next, Deliver

LEMMA ConservedInvHolds == Spec => []ConservedInv
<1>1. Init => ConservedInv
  BY InitConserved
<1>2. TypeInv /\ OrderInv /\ ConservedInv /\ [Next]_vars => ConservedInv'
  BY StepConserved
<1> QED
  BY <1>1, <1>2, TypesHold, OrderHolds, PTL DEF Spec

\* Every change the user asked for waits, is on its way, or is in the feed,
\* once: the functions that waited in changeQ become requests when the
\* document may be written, each request has a number that nothing else has,
\* so that the backend knows none of them and writes them all.  It is so while
\* the document is not destroyed and no patch overtakes its ReadyMsg.
\* (changeQ, enableWrites, applyLocalChange)
THEOREM ConservedHolds == Spec => []ChangesConserved
<1>1. ConservedInv => ChangesConserved
  BY InFlightPlaces DEF ConservedInv, Calm, Count, ChangesConserved
<1> QED
  BY <1>1, ConservedInvHolds, PTL

-----------------------------------------------------------------------------
(* What a document that nothing disturbs shows *)

\* What the messages in p add to the content.
Adds(p) == UNION {p[i].patch.add : i \in DOMAIN p}

\* A message after which the callback of a watched document is called.
Fine(m) == m.good /\ m.patch.add # {}

\* A watched document has told what it shows.
Told(f) == f.ready /\ f.watched => f.told = [seen |-> TRUE, state |-> View(f)]

\* What is applied is shown or on its way.  The ReadyMsg comes before all
\* else, and only a document that can be written has answers coming.
Shows(f, p, had, armed) ==
  /\ had = f.shown \cup Adds(p)
  /\ \A i \in DOMAIN p :
       /\ \/ p[i].type = "ActorIdMsg"
          \/ p[i].type = "ReadyMsg" /\ (f.mode = "write" \/ ~p[i].some)
          => p[i].patch.add = {}
       /\ p[i].type = "ReadyMsg" /\ f.mode = "pending" => i = 1
       /\ p[i].patch.ack # NoChange =>
            p[i].type = "PatchMsg" /\ p[i].patch.ack \in p[i].patch.add /\ f.mode = "write"
       /\ armed /\ p[i].patch.add # {} /\ ~p[i].good => \E j \in DOMAIN p : i < j /\ Fine(p[j])
  /\ armed => Told(f) \/ \E i \in DOMAIN p : Fine(p[i])

\* The last of the actor's numbers that was answered.
LastAnswer(f) == f.seq - Len(f.requests)

\* The requests are the numbers after it, each of which is on its way or
\* answered, and the answers come in their order.
Answers(f, q, p) ==
  /\ LastAnswer(f) \in Nat
  /\ \A i \in DOMAIN f.requests : f.requests[i] = [actor |-> f.actor, seq |-> LastAnswer(f) + i]
  /\ \A c \in Sent(q) : c.seq > LastAnswer(f)
  /\ \A i \in DOMAIN p : p[i].patch.ack # NoChange =>
       p[i].patch.ack.actor = f.actor /\ p[i].patch.ack.seq > LastAnswer(f)
  /\ \A i, j \in DOMAIN p : i < j /\ p[i].patch.ack # NoChange /\ p[j].patch.ack # NoChange =>
       p[i].patch.ack.seq < p[j].patch.ack.seq
  /\ \A n \in Nat : n > LastAnswer(f) /\ n <= f.seq =>
       LET c == [actor |-> f.actor, seq |-> n]
       IN c \in Sent(q) \/ \E i \in DOMAIN p : p[i].patch.ack = c

Armed == hasClock \/ docState # "ready"

ShowInv ==
  upsets = {} /\ front.mode # "none" =>
    /\ destroys = 0
    /\ Shows(front, toFrontend, applied, Armed)
    /\ front.mode = "write" => Answers(front, toBackend, toFrontend)

LEMMA ViewLemma ==
  ASSUME NEW f, NEW g, g.shown = f.shown, g.requests = f.requests
  PROVE  View(g) = View(f)
BY DEF View

LEMMA ToldLemma ==
  ASSUME NEW f \in Fronts
  PROVE  /\ Told(NewState(f)) /\ NewState(f).shown = f.shown
         /\ NewState(f).ready = f.ready /\ NewState(f).watched = f.watched
<1> DEFINE g == [f EXCEPT !.told = [seen |-> TRUE, state |-> View(f)]]
<1>1. CASE f.ready /\ f.watched
  <2>1. NewState(f) = g
    BY <1>1 DEF NewState
  <2>2. /\ g.shown = f.shown /\ g.requests = f.requests /\ g.ready = f.ready /\ g.watched = f.watched
        /\ g.told = [seen |-> TRUE, state |-> View(f)]
    BY DEF Fronts
  <2> HIDE DEF g
  <2>3. View(g) = View(f)
    BY <2>2, ViewLemma
  <2> QED
    BY <2>1, <2>2, <2>3 DEF Told
<1>2. CASE ~(f.ready /\ f.watched)
  <2>1. NewState(f) = f
    BY <1>2 DEF NewState
  <2> QED
    BY <1>2, <2>1 DEF Told
<1> QED
  BY <1>1, <1>2

LEMMA WrittenTold ==
  ASSUME NEW f \in Fronts, NEW n \in Nat, f.seq + n <= MaxSeq, f.actor \in Locals
  PROVE  /\ Told(Written(f, n)) /\ Written(f, n).shown = f.shown
         /\ Written(f, n).ready = f.ready /\ Written(f, n).watched = f.watched
<1> DEFINE cs == ChangesOf(f.actor, f.seq, f.seq + n)
           g == [f EXCEPT !.seq = @ + n, !.requests = @ \o cs]
<1>1. f.seq \in Nat /\ f.requests \in Seq(Change) /\ f.seq + n \in 0..MaxSeq
  BY NumbersLemma DEF Fronts, MaxSeq
<1>2. cs \in Seq(Change)
  <2>1. f.seq + n \in f.seq..MaxSeq /\ (f.seq + n) - f.seq = n
    BY <1>1, NumbersLemma
  <2> QED
    BY <1>1, <2>1, ChangesOfIs DEF IsRun
<1>3. f.requests \o cs \in Seq(Change)
  BY <1>1, <1>2, ConcatProperties
<1> HIDE DEF cs
<1>4. g \in Fronts /\ g.shown = f.shown /\ g.ready = f.ready /\ g.watched = f.watched
  BY <1>1, <1>3 DEF Fronts, MaxSeq
<1>5. Written(f, n) = NewState(g)
  BY DEF Written, cs
<1> HIDE DEF g
<1> QED
  BY <1>4, <1>5, ToldLemma

LEMMA EnabledTold ==
  ASSUME NEW f \in Fronts, f.seq + f.changeQ <= MaxSeq, f.actor # NoActor
  PROVE  /\ EnableWrites(f).shown = f.shown
         /\ EnableWrites(f).ready = f.ready /\ EnableWrites(f).watched = f.watched
<1> DEFINE g == [f EXCEPT !.mode = "write", !.changeQ = 0]
<1>1. /\ g \in Fronts /\ g.actor = f.actor /\ g.seq = f.seq
      /\ g.shown = f.shown /\ g.ready = f.ready /\ g.watched = f.watched
  <2>1. 0 \in 0..MaxChanges
    BY NumbersLemma
  <2> QED
    BY <2>1 DEF Fronts
<1>2. f.changeQ \in Nat /\ f.actor \in Locals /\ f.seq \in Nat
  BY NumbersLemma DEF Fronts
<1>3. EnableWrites(f) = Written(g, f.changeQ)
  BY DEF EnableWrites
<1> HIDE DEF g
<1> QED
  BY <1>1, <1>2, <1>3, WrittenTold

\* What a patch leaves of the requests.
LeftOf(f, p) == IF f.requests # <<>> /\ Head(f.requests) = p.ack THEN Tail(f.requests) ELSE f.requests

LEMMA AppliedTold ==
  ASSUME NEW f \in Fronts, NEW p \in Patches
  PROVE  LET g == AppliedPatch(f, p)
         IN /\ g.shown = f.shown \cup p.add /\ g.requests = LeftOf(f, p)
            /\ g.ready = f.ready /\ g.watched = f.watched /\ g.told = f.told
            /\ p.add = {} /\ p.ack = NoChange /\ Told(f) => Told(g)
<1> DEFINE g == AppliedPatch(f, p)
<1>1. /\ g.shown = f.shown \cup p.add /\ g.requests = LeftOf(f, p)
      /\ g.ready = f.ready /\ g.watched = f.watched /\ g.told = f.told
  BY DEF AppliedPatch, Fronts, LeftOf
<1>2. ASSUME p.add = {}, p.ack = NoChange, Told(f)
      PROVE  Told(g)
  <2>1. f.requests # <<>> => Head(f.requests) # NoChange
    <3>1. f.requests \in Seq(Change)
      BY DEF Fronts
    <3> QED
      BY <3>1, HeadTailProperties, ChangeType
  <2>2. g.shown = f.shown /\ g.requests = f.requests
    BY <1>1, <1>2, <2>1 DEF LeftOf
  <2> HIDE DEF g
  <2>3. View(g) = View(f)
    BY <2>2, ViewLemma
  <2> QED
    BY <1>1, <1>2, <2>3 DEF Told
<1> QED
  BY <1>1, <1>2

LEMMA PatchedTold ==
  ASSUME NEW f \in Fronts, NEW p \in Patches, NEW good \in BOOLEAN,
         f.mode # "write" => f.requests = <<>>,
         f.seq + f.changeQ <= MaxSeq, p.seq + f.changeQ <= MaxSeq
  PROVE  LET g == Patched(f, p, good)
         IN /\ g.shown = f.shown \cup p.add
            /\ f.mode = "write" => g.requests = LeftOf(f, p)
            /\ good /\ p.add # {} => Told(g)
            /\ p.add = {} /\ p.ack = NoChange /\ Told(f) => Told(g)
<1> DEFINE g == AppliedPatch(f, p)
           h == CASE g.mode # "pending" -> g
                  [] g.mode = "pending" /\ g.actor # NoActor -> [EnableWrites(g) EXCEPT !.ready = TRUE]
                  [] OTHER -> [g EXCEPT !.mode = "read", !.ready = TRUE]
           s == IF f.actor # NoActor /\ p.seq > f.seq THEN p.seq ELSE f.seq
<1>1. g \in Fronts /\ Kept(f, g, f.actor, s) /\ g.mode = f.mode
  BY AppliedPatchLemma
<1>2. /\ g.shown = f.shown \cup p.add /\ g.requests = LeftOf(f, p)
      /\ p.add = {} /\ p.ack = NoChange /\ Told(f) => Told(g)
  BY AppliedTold
<1>3. f.requests \in Seq(Change) /\ s \in Nat /\ s + f.changeQ <= MaxSeq
  BY DEF Fronts, Patches
<1>4. Patched(f, p, good) = IF p.add # {} /\ good THEN NewState(h) ELSE g
  BY DEF Patched
<1> HIDE DEF s, g
<1>5. h \in Fronts /\ h.shown = g.shown /\ (f.mode = "write" => h = g)
  <2>1. CASE g.mode # "pending"
    BY <1>1, <2>1
  <2>2. CASE g.mode = "pending" /\ g.actor # NoActor
    <3> DEFINE k == EnableWrites(g)
               e == [k EXCEPT !.ready = TRUE]
    <3>1. h = e
      BY <2>2
    <3>2. g.requests = <<>> /\ g.seq + g.changeQ <= MaxSeq
      BY <1>1, <1>3, <2>2 DEF Kept
    <3>3. k \in Fronts
      BY <1>1, <2>2, <3>2, EnableWritesLemma
    <3>4. k.shown = g.shown
      BY <1>1, <2>2, <3>2, EnabledTold
    <3> HIDE DEF k
    <3>5. e \in Fronts /\ e.shown = g.shown
      BY <3>3, <3>4 DEF Fronts
    <3> QED
      BY <1>1, <2>2, <3>1, <3>5
  <2>3. CASE g.mode = "pending" /\ g.actor = NoActor
    <3> DEFINE r == [g EXCEPT !.mode = "read", !.ready = TRUE]
    <3>1. h = r
      BY <2>3
    <3>2. r \in Fronts /\ r.shown = g.shown
      BY <1>1 DEF Fronts
    <3> QED
      BY <1>1, <2>3, <3>1, <3>2
  <2> QED
    BY <2>1, <2>2, <2>3
<1> HIDE DEF h
<1>6. /\ Told(NewState(h)) /\ NewState(h).shown = h.shown /\ NewState(h).requests = h.requests
  BY <1>5, ToldLemma, NewStateLemma
<1> QED
  BY <1>2, <1>4, <1>5, <1>6

LEMMA MessagesOf ==
  ASSUME NEW p \in Seq(FrontMsgs)
  PROVE  \A i \in DOMAIN p :
           /\ p[i] \in FrontMsgs /\ i \in 1..Len(p)
           /\ p[i].patch \in Patches /\ p[i].patch.add \in SUBSET Change
           /\ p[i].patch.ack \in Change \cup {NoChange} /\ p[i].patch.ack.seq \in Nat
           /\ p[i].patch.seq \in 0..MaxSeq
<1> TAKE i \in DOMAIN p
<1>1. p[i] \in FrontMsgs /\ i \in 1..Len(p)
  BY LenProperties
<1>2. p[i].patch \in Patches
  BY <1>1 DEF FrontMsgs
<1>3. p[i].patch.ack \in Change \cup {NoChange}
  BY <1>2 DEF Patches
<1>4. p[i].patch.ack.seq \in Nat
  BY <1>3, ChangeType, NumbersLemma DEF NoChange
<1> QED
  BY <1>1, <1>2, <1>3, <1>4 DEF Patches, MaxSeq

\* What the messages add, when one is taken, and when one is sent.
LEMMA AddsTail ==
  ASSUME NEW p \in Seq(FrontMsgs), p # <<>>
  PROVE  Adds(p) = Head(p).patch.add \cup Adds(Tail(p))
<1>1. /\ Head(p) = p[1] /\ 1 \in DOMAIN p
      /\ \A i \in DOMAIN Tail(p) : i + 1 \in DOMAIN p /\ Tail(p)[i] = p[i + 1]
      /\ \A i \in DOMAIN p : i # 1 => i - 1 \in DOMAIN Tail(p) /\ Tail(p)[i - 1] = p[i]
  BY TailOf
<1>2. \A c : c \in Adds(p) <=> \E i \in DOMAIN p : c \in p[i].patch.add
  BY DEF Adds
<1>3. \A c : c \in Adds(Tail(p)) <=> \E i \in DOMAIN Tail(p) : c \in Tail(p)[i].patch.add
  BY DEF Adds
<1>4. ASSUME NEW c, c \in Adds(p)
      PROVE  c \in Head(p).patch.add \cup Adds(Tail(p))
  BY <1>1, <1>2, <1>3, <1>4
<1>5. ASSUME NEW c, c \in Head(p).patch.add \cup Adds(Tail(p))
      PROVE  c \in Adds(p)
  BY <1>1, <1>2, <1>3, <1>5
<1> QED
  BY <1>4, <1>5

LEMMA AddsOne ==
  ASSUME NEW p \in Seq(FrontMsgs), NEW r \in Seq(FrontMsgs), NEW m, DOMAIN r = {1}, r[1] = m
  PROVE  Adds(p \o r) = Adds(p) \cup m.patch.add
<1> DEFINE q == p \o r
<1>1. /\ \A i \in DOMAIN p : i \in DOMAIN q /\ q[i] = p[i]
      /\ \A j \in DOMAIN r : Len(p) + j \in DOMAIN q /\ q[Len(p) + j] = r[j]
      /\ \A i \in DOMAIN q : i \in DOMAIN p \/ i - Len(p) \in DOMAIN r
      /\ Len(p) \in Nat /\ DOMAIN q = 1..(Len(p) + Len(r)) /\ Len(r) \in Nat
  BY ConcatOf
<1> HIDE DEF q
<1>2. /\ \A i \in DOMAIN p : i \in DOMAIN q /\ q[i] = p[i]
      /\ Len(p) + 1 \in DOMAIN q /\ q[Len(p) + 1] = m
      /\ \A i \in DOMAIN q : i \in DOMAIN p \/ i = Len(p) + 1
  BY <1>1
<1>3. \A c : c \in Adds(p) <=> \E i \in DOMAIN p : c \in p[i].patch.add
  BY DEF Adds
<1>4. \A c : c \in Adds(q) <=> \E i \in DOMAIN q : c \in q[i].patch.add
  BY DEF Adds
<1>5. ASSUME NEW c, c \in Adds(q)
      PROVE  c \in Adds(p) \cup m.patch.add
  BY <1>2, <1>3, <1>4, <1>5
<1>6. ASSUME NEW c, c \in Adds(p) \cup m.patch.add
      PROVE  c \in Adds(q)
  BY <1>2, <1>3, <1>4, <1>6
<1> QED
  BY <1>5, <1>6 DEF q

\* A step of the user that changes what she sees as little as a request does.
LEMMA ShowsSame ==
  ASSUME NEW f, NEW g, NEW p, NEW had, NEW armed, Shows(f, p, had, armed),
         g.shown = f.shown, g.mode = f.mode, Told(f) => Told(g)
  PROVE  Shows(g, p, had, armed)
BY DEF Shows

\* A message is sent.
LEMMA ShowsSent ==
  ASSUME NEW f, NEW p \in Seq(FrontMsgs), NEW had, NEW armed, Shows(f, p, had, armed),
         NEW r \in Seq(FrontMsgs), NEW m \in FrontMsgs, DOMAIN r = {1}, r[1] = m,
         NEW had2, had2 = had \cup m.patch.add, NEW armed2,
         armed2 => Fine(m) \/ (armed /\ m.patch.add = {}),
         m.type = "ActorIdMsg" \/ (m.type = "ReadyMsg" /\ (f.mode = "write" \/ ~m.some))
           => m.patch.add = {},
         m.type = "ReadyMsg" /\ f.mode = "pending" => p = <<>>,
         m.patch.ack # NoChange =>
           m.type = "PatchMsg" /\ m.patch.ack \in m.patch.add /\ f.mode = "write"
  PROVE  Shows(f, p \o r, had2, armed2)
<1> DEFINE q == p \o r
           l == Len(p) + 1
<1>1. /\ \A i \in DOMAIN p : i \in DOMAIN q /\ q[i] = p[i] /\ i < l
      /\ l \in DOMAIN q /\ q[l] = m
      /\ \A i \in DOMAIN q : i \in DOMAIN p \/ i = l
      /\ p = <<>> => l = 1
  <2>1. /\ \A i \in DOMAIN p : i \in DOMAIN q /\ q[i] = p[i]
        /\ \A j \in DOMAIN r : Len(p) + j \in DOMAIN q /\ q[Len(p) + j] = r[j]
        /\ Len(p) \in Nat /\ DOMAIN q = 1..(Len(p) + Len(r)) /\ Len(r) \in Nat
        /\ DOMAIN p = 1..Len(p) /\ DOMAIN r = 1..Len(r)
    BY ConcatOf
  <2>2. p = <<>> => Len(p) = 0
    BY EmptySeq
  <2>3. Len(r) = 1
    BY <2>1
  <2> HIDE DEF q
  <2> QED
    BY <2>1, <2>2, <2>3
<1>2. Adds(q) = Adds(p) \cup m.patch.add
  BY AddsOne
<1> HIDE DEF q, l
<1>3. had2 = f.shown \cup Adds(q)
  BY <1>2 DEF Shows
<1>4. armed2 => Fine(m) \/ (armed /\ m.patch.add = {})
  OBVIOUS
<1>5. ASSUME NEW i \in DOMAIN q
      PROVE  /\ \/ q[i].type = "ActorIdMsg"
                \/ q[i].type = "ReadyMsg" /\ (f.mode = "write" \/ ~q[i].some)
                => q[i].patch.add = {}
             /\ q[i].type = "ReadyMsg" /\ f.mode = "pending" => i = 1
             /\ q[i].patch.ack # NoChange =>
                  q[i].type = "PatchMsg" /\ q[i].patch.ack \in q[i].patch.add /\ f.mode = "write"
             /\ armed2 /\ q[i].patch.add # {} /\ ~q[i].good => \E j \in DOMAIN q : i < j /\ Fine(q[j])
  <2>1. CASE i \in DOMAIN p
    <3>1. q[i] = p[i] /\ i < l
      BY <1>1, <2>1
    <3>2. armed2 /\ q[i].patch.add # {} /\ ~q[i].good => \E j \in DOMAIN q : i < j /\ Fine(q[j])
      <4> SUFFICES ASSUME armed2, q[i].patch.add # {}, ~q[i].good
                   PROVE  \E j \in DOMAIN q : i < j /\ Fine(q[j])
        OBVIOUS
      <4>1. CASE Fine(m)
        BY <1>1, <3>1, <4>1
      <4>2. CASE armed
        <5>1. PICK j \in DOMAIN p : i < j /\ Fine(p[j])
          BY <2>1, <3>1, <4>2 DEF Shows
        <5> QED
          BY <1>1, <5>1
      <4> QED
        BY <1>4, <4>1, <4>2
    <3> QED
      BY <2>1, <3>1, <3>2 DEF Shows
  <2>2. CASE i = l
    <3>1. q[i] = m
      BY <1>1, <2>2
    <3> QED
      BY <1>1, <1>4, <2>2, <3>1 DEF Fine
  <2> QED
    BY <1>1, <2>1, <2>2
<1>6. armed2 => Told(f) \/ \E i \in DOMAIN q : Fine(q[i])
  <2> SUFFICES ASSUME armed2, ~Told(f)
               PROVE  \E i \in DOMAIN q : Fine(q[i])
    OBVIOUS
  <2>1. CASE Fine(m)
    BY <1>1, <2>1
  <2>2. CASE armed
    <3>1. PICK i \in DOMAIN p : Fine(p[i])
      BY <2>2 DEF Shows
    <3> QED
      BY <1>1, <3>1
  <2> QED
    BY <1>4, <2>1, <2>2
<1> QED
  BY <1>3, <1>5, <1>6 DEF Shows, q

\* A message is taken, and makes g of the frontend.
Seen(f, g, m) ==
  /\ g.shown = f.shown \cup m.patch.add
  /\ Fine(m) => Told(g)
  /\ m.patch.add = {} /\ m.patch.ack = NoChange /\ Told(f) => Told(g)

LEMMA ShowsTaken ==
  ASSUME NEW f, NEW g, NEW p \in Seq(FrontMsgs), p # <<>>, NEW had, NEW armed,
         Shows(f, p, had, armed), Seen(f, g, Head(p)), f.mode \in {"pending", "write"},
         g.mode = f.mode \/ (f.mode = "pending" /\ g.mode = "write")
  PROVE  Shows(g, Tail(p), had, armed)
<1> DEFINE m == Head(p)
           q == Tail(p)
<1>1. /\ m = p[1] /\ 1 \in DOMAIN p /\ m \in FrontMsgs
      /\ \A i \in DOMAIN q : i \in Nat /\ i + 1 \in DOMAIN p /\ q[i] = p[i + 1]
      /\ \A i \in DOMAIN p : i # 1 => i - 1 \in DOMAIN q /\ q[i - 1] = p[i]
      /\ DOMAIN p = 1..Len(p) /\ Len(p) \in Nat
  BY TailOf
<1>2. Adds(p) = m.patch.add \cup Adds(q)
  BY AddsTail
<1>3. Seen(f, g, m)
  OBVIOUS
<1> HIDE DEF m, q
<1>4. had = g.shown \cup Adds(q)
  BY <1>2, <1>3 DEF Shows, Seen
<1>5. ASSUME NEW i \in DOMAIN q
      PROVE  i + 1 \in DOMAIN p /\ q[i] = p[i + 1] /\ i + 1 # 1
  <2>1. i \in Nat /\ i \in DOMAIN q
    BY <1>1
  <2>2. i # 0
    <3>1. DOMAIN q = 1..Len(q)
      BY LenProperties, HeadTailProperties DEF q
    <3> QED
      BY <2>1, <3>1
  <2> QED
    BY <1>1, <2>1, <2>2
<1>6. ASSUME NEW i \in DOMAIN q
      PROVE  /\ \/ q[i].type = "ActorIdMsg"
                \/ q[i].type = "ReadyMsg" /\ (g.mode = "write" \/ ~q[i].some)
                => q[i].patch.add = {}
             /\ q[i].type = "ReadyMsg" /\ g.mode = "pending" => i = 1
             /\ q[i].patch.ack # NoChange =>
                  q[i].type = "PatchMsg" /\ q[i].patch.ack \in q[i].patch.add /\ g.mode = "write"
             /\ armed /\ q[i].patch.add # {} /\ ~q[i].good => \E j \in DOMAIN q : i < j /\ Fine(q[j])
  <2> DEFINE k == i + 1
  <2>1. k \in DOMAIN p /\ q[i] = p[k] /\ k # 1
    BY <1>5
  <2>2. f.mode = "pending" => q[i].type # "ReadyMsg" /\ q[i].patch.ack = NoChange
    BY <2>1 DEF Shows
  <2>3. armed /\ q[i].patch.add # {} /\ ~q[i].good => \E j \in DOMAIN q : i < j /\ Fine(q[j])
    <3> SUFFICES ASSUME armed, q[i].patch.add # {}, ~q[i].good
                 PROVE  \E j \in DOMAIN q : i < j /\ Fine(q[j])
      OBVIOUS
    <3>1. PICK j \in DOMAIN p : k < j /\ Fine(p[j])
      BY <2>1 DEF Shows
    <3>2. j - 1 \in DOMAIN q /\ q[j - 1] = p[j] /\ i < j - 1
      BY <1>1, <2>1, <3>1
    <3> QED
      BY <3>1, <3>2
  <2> HIDE DEF k
  <2>4. g.mode = f.mode \/ (f.mode = "pending" /\ g.mode = "write")
    OBVIOUS
  <2>5. f.mode = "write" => g.mode = "write"
    BY <2>4
  <2>6. CASE f.mode = "pending"
    BY <2>1, <2>2, <2>3, <2>4, <2>6 DEF Shows
  <2>7. CASE f.mode = "write"
    BY <2>1, <2>3, <2>5, <2>7 DEF Shows
  <2> QED
    BY <2>6, <2>7
<1>7. armed => Told(g) \/ \E i \in DOMAIN q : Fine(q[i])
  <2> SUFFICES ASSUME armed, ~Told(g)
               PROVE  \E i \in DOMAIN q : Fine(q[i])
    OBVIOUS
  <2>1. ~Fine(m)
    BY <1>3 DEF Seen
  <2>2. \E i \in DOMAIN p : i # 1 /\ Fine(p[i])
    <3>1. CASE \E i \in DOMAIN p : Fine(p[i])
      BY <1>1, <2>1, <3>1
    <3>2. CASE Told(f)
      <4>1. m.patch.ack # NoChange => m.patch.ack \in m.patch.add
        BY <1>1 DEF Shows
      <4>2. m.patch.add # {}
        BY <1>3, <3>2, <4>1 DEF Seen
      <4>3. ~m.good
        BY <2>1, <4>2 DEF Fine
      <4>4. \E j \in DOMAIN p : 1 < j /\ Fine(p[j])
        BY <1>1, <4>2, <4>3 DEF Shows
      <4> QED
        BY <4>4
    <3> QED
      BY <3>1, <3>2 DEF Shows
  <2>3. PICK i \in DOMAIN p : i # 1 /\ Fine(p[i])
    BY <2>2
  <2> QED
    BY <1>1, <2>3
<1> QED
  BY <1>4, <1>6, <1>7 DEF Shows, q

LEMMA SentConcat ==
  ASSUME NEW q \in Seq(BackMsgs), NEW cs \in Seq(Change)
  PROVE  \A c : c \in Sent(q \o Requests(cs)) <=> c \in Sent(q) \/ \E i \in DOMAIN cs : c = cs[i]
<1> DEFINE r == Requests(cs)
           p == q \o r
<1>1. /\ r \in Seq(BackMsgs) /\ DOMAIN r = DOMAIN cs
      /\ \A i \in DOMAIN cs : r[i].type = "RequestMsg" /\ r[i].change = cs[i]
  BY RequestsLemma
<1> HIDE DEF r
<1>2. /\ \A i \in DOMAIN q : i \in DOMAIN p /\ p[i] = q[i]
      /\ \A j \in DOMAIN r : Len(q) + j \in DOMAIN p /\ p[Len(q) + j] = r[j]
      /\ \A i \in DOMAIN p : i \in DOMAIN q \/ i - Len(q) \in DOMAIN r
      /\ Len(q) \in Nat /\ DOMAIN p = 1..(Len(q) + Len(r)) /\ Len(r) \in Nat
  BY <1>1, ConcatOf
<1> HIDE DEF p
<1>3. \A i \in DOMAIN p : i \in DOMAIN q \/ \E j \in DOMAIN r : p[i] = r[j]
  <2> TAKE i \in DOMAIN p
  <2>1. i \in DOMAIN q \/ (i - Len(q) \in DOMAIN r /\ Len(q) + (i - Len(q)) = i)
    BY <1>2
  <2> QED
    BY <1>2, <2>1
<1>4. \A c : c \in Sent(q) <=> \E i \in DOMAIN q : q[i].type = "RequestMsg" /\ q[i].change = c
  BY DEF Sent, Places
<1>5. \A c : c \in Sent(p) <=> \E i \in DOMAIN p : p[i].type = "RequestMsg" /\ p[i].change = c
  BY DEF Sent, Places
<1>6. ASSUME NEW c, c \in Sent(p)
      PROVE  c \in Sent(q) \/ \E i \in DOMAIN cs : c = cs[i]
  <2>1. PICK i \in DOMAIN p : p[i].type = "RequestMsg" /\ p[i].change = c
    BY <1>5, <1>6
  <2> QED
    BY <1>1, <1>2, <1>3, <1>4, <2>1
<1>7. ASSUME NEW c, c \in Sent(q)
      PROVE  c \in Sent(p)
  BY <1>2, <1>4, <1>5, <1>7
<1>8. ASSUME NEW i \in DOMAIN cs
      PROVE  cs[i] \in Sent(p)
  <2>1. i \in DOMAIN r /\ r[i].type = "RequestMsg" /\ r[i].change = cs[i]
    BY <1>1
  <2> QED
    BY <1>2, <1>5, <2>1
<1> QED
  BY <1>6, <1>7, <1>8 DEF p, r

\* A request that the backend takes is the only one that is no longer sent.
LEMMA SentHead ==
  ASSUME NEW q \in Seq(BackMsgs), q # <<>>, NEW c \in Sent(q)
  PROVE  c \in Sent(Tail(q)) \/ (Head(q).type = "RequestMsg" /\ c = Head(q).change)
<1>1. /\ Head(q) = q[1]
      /\ \A i \in DOMAIN q : i # 1 => i - 1 \in DOMAIN Tail(q) /\ Tail(q)[i - 1] = q[i]
  BY TailOf
<1>2. PICK i \in DOMAIN q : q[i].type = "RequestMsg" /\ q[i].change = c
  BY DEF Sent, Places
<1> QED
  BY <1>1, <1>2 DEF Sent, Places

LEMMA AnswerNumbers ==
  ASSUME NEW f \in Fronts
  PROVE  f.seq \in Nat /\ f.requests \in Seq(Change) /\ Len(f.requests) \in Nat
         /\ DOMAIN f.requests = 1..Len(f.requests) /\ f.seq = LastAnswer(f) + Len(f.requests)
<1>1. f.seq \in Nat /\ f.requests \in Seq(Change)
  BY NumbersLemma DEF Fronts
<1>2. Len(f.requests) \in Nat /\ DOMAIN f.requests = 1..Len(f.requests)
  BY <1>1, LenProperties
<1> QED
  BY <1>1, <1>2 DEF LastAnswer

LEMMA AnswersSame ==
  ASSUME NEW f, NEW g, NEW q, NEW p, Answers(f, q, p),
         g.actor = f.actor, g.seq = f.seq, g.requests = f.requests
  PROVE  Answers(g, q, p)
<1>1. LastAnswer(g) = LastAnswer(f)
  BY DEF LastAnswer
<1> QED
  BY <1>1 DEF Answers

\* The functions that waited in changeQ have run.
LEMMA AnswersStart ==
  ASSUME NEW g \in Fronts, NEW q \in Seq(BackMsgs), NEW p, NEW a \in Locals, NEW s \in Nat, NEW n \in Nat,
         Sent(q) = {}, \A i \in DOMAIN p : p[i].patch.ack = NoChange,
         s + n <= MaxSeq, g.actor = a, g.seq = s + n, g.requests = ChangesOf(a, s, s + n)
  PROVE  Answers(g, q \o Requests(g.requests), p)
<1> DEFINE cs == g.requests
<1>1. IsRun(cs, a, s, n)
  <2>1. s + n \in s..MaxSeq /\ (s + n) - s = n
    BY NumbersLemma
  <2> QED
    BY <2>1, ChangesOfIs
<1>2. \A c : c \in Sent(q \o Requests(cs)) <=> \E i \in DOMAIN cs : c = cs[i]
  BY <1>1, SentConcat DEF IsRun
<1>3. /\ Len(cs) = n /\ DOMAIN cs = 1..n
      /\ \A i \in 1..n : cs[i] = [actor |-> a, seq |-> s + i] /\ cs[i].seq = s + i
  BY <1>1 DEF IsRun
<1> HIDE DEF cs
<1>4. LastAnswer(g) = s
  BY <1>3 DEF LastAnswer, cs
<1>5. \A c \in Sent(q \o Requests(cs)) : c.seq > s
  BY <1>2, <1>3
<1>6. ASSUME NEW k \in Nat, k > s, k <= g.seq
      PROVE  [actor |-> g.actor, seq |-> k] \in Sent(q \o Requests(cs))
  <2>1. k - s \in 1..n /\ s + (k - s) = k
    BY <1>6
  <2> QED
    BY <1>2, <1>3, <2>1
<1>7. \A i \in DOMAIN g.requests : g.requests[i] = [actor |-> g.actor, seq |-> s + i]
  BY <1>3 DEF cs
<1> QED
  BY <1>4, <1>5, <1>6, <1>7 DEF Answers, cs

LEMMA OneMore ==
  ASSUME NEW u \in Seq(Change), NEW r \in Seq(Change), DOMAIN r = 1..1
  PROVE  LET v == u \o r
         IN /\ Len(v) = Len(u) + 1 /\ DOMAIN v = 1..(Len(u) + 1)
            /\ \A i \in DOMAIN u : v[i] = u[i]
            /\ v[Len(u) + 1] = r[1]
<1> DEFINE v == u \o r
<1>1. /\ Len(v) = Len(u) + Len(r) /\ DOMAIN v = 1..(Len(u) + Len(r))
      /\ DOMAIN r = 1..Len(r) /\ Len(r) \in Nat
      /\ \A i \in DOMAIN u : v[i] = u[i]
      /\ \A j \in DOMAIN r : v[Len(u) + j] = r[j]
  BY ConcatOf
<1> HIDE DEF v
<1>2. Len(r) = 1 /\ 1 \in DOMAIN r
  BY <1>1
<1> QED
  BY <1>1, <1>2 DEF v

\* One more change is written.
LEMMA AnswersWrite ==
  ASSUME NEW f \in Fronts, NEW g \in Fronts, NEW q \in Seq(BackMsgs), NEW p, Answers(f, q, p),
         NEW cs \in Seq(Change), DOMAIN cs = 1..1, NEW c, c = [actor |-> f.actor, seq |-> f.seq + 1],
         cs[1] = c, g.actor = f.actor, g.seq = f.seq + 1,
         NEW r \in Seq(Change), DOMAIN r = 1..1, r[1] = c, g.requests = f.requests \o r
  PROVE  Answers(g, q \o Requests(cs), p)
<1>1. /\ f.seq \in Nat /\ Len(f.requests) \in Nat /\ DOMAIN f.requests = 1..Len(f.requests)
      /\ f.seq = LastAnswer(f) + Len(f.requests) /\ f.requests \in Seq(Change)
  BY AnswerNumbers
<1>2. /\ Len(g.requests) = Len(f.requests) + 1
      /\ \A i \in DOMAIN f.requests : g.requests[i] = f.requests[i]
      /\ g.requests[Len(f.requests) + 1] = c
      /\ DOMAIN g.requests = 1..(Len(f.requests) + 1)
  <2> DEFINE u == f.requests
             v == g.requests
  <2>1. u \in Seq(Change) /\ v = u \o r
    BY <1>1
  <2> HIDE DEF u
  <2>2. /\ Len(u \o r) = Len(u) + 1 /\ DOMAIN (u \o r) = 1..(Len(u) + 1)
        /\ \A i \in DOMAIN u : (u \o r)[i] = u[i]
        /\ (u \o r)[Len(u) + 1] = r[1]
    BY <2>1, OneMore
  <2> HIDE DEF v
  <2>3. /\ Len(v) = Len(u) + 1 /\ DOMAIN v = 1..(Len(u) + 1)
        /\ \A i \in DOMAIN u : v[i] = u[i]
        /\ v[Len(u) + 1] = c
    BY <2>1, <2>2
  <2> QED
    BY <2>3 DEF u, v
<1>3. LastAnswer(f) \in Nat /\ LastAnswer(g) = LastAnswer(f)
  <2>1. LastAnswer(f) \in Nat
    BY DEF Answers
  <2>2. LastAnswer(g) = (f.seq + 1) - (Len(f.requests) + 1)
    BY <1>2 DEF LastAnswer
  <2> QED
    BY <1>1, <2>1, <2>2
<1>4. \A d : d \in Sent(q \o Requests(cs)) <=> d \in Sent(q) \/ d = c
  <2>1. \A d : d \in Sent(q \o Requests(cs)) <=> d \in Sent(q) \/ \E i \in DOMAIN cs : d = cs[i]
    BY SentConcat
  <2>2. \A d : (\E i \in DOMAIN cs : d = cs[i]) <=> d = c
    OBVIOUS
  <2> QED
    BY <2>1, <2>2
<1>5. c.seq = f.seq + 1
  OBVIOUS
<1>6. \A i \in DOMAIN g.requests : g.requests[i] = [actor |-> g.actor, seq |-> LastAnswer(f) + i]
  <2> TAKE i \in DOMAIN g.requests
  <2>1. CASE i \in DOMAIN f.requests
    BY <1>2, <2>1 DEF Answers
  <2>2. CASE i = Len(f.requests) + 1
    <3>1. LastAnswer(f) + i = f.seq + 1
      BY <1>1, <1>3, <2>2
    <3> QED
      BY <1>2, <2>2, <3>1
  <2> QED
    BY <1>1, <1>2, <2>1, <2>2
<1>7. \A d \in Sent(q \o Requests(cs)) : d.seq > LastAnswer(f)
  BY <1>1, <1>3, <1>4, <1>5 DEF Answers
<1>8. ASSUME NEW n \in Nat, n > LastAnswer(f), n <= g.seq
      PROVE  LET d == [actor |-> g.actor, seq |-> n]
             IN d \in Sent(q \o Requests(cs)) \/ \E i \in DOMAIN p : p[i].patch.ack = d
  <2>1. CASE n = f.seq + 1
    BY <1>4, <2>1
  <2>2. CASE n <= f.seq
    BY <1>4, <1>8, <2>2 DEF Answers
  <2> QED
    BY <1>1, <1>8, <2>1, <2>2
<1>9. \A i \in DOMAIN p : p[i].patch.ack # NoChange =>
        p[i].patch.ack.actor = g.actor /\ p[i].patch.ack.seq > LastAnswer(f)
  BY DEF Answers
<1>10. \A i, j \in DOMAIN p : i < j /\ p[i].patch.ack # NoChange /\ p[j].patch.ack # NoChange =>
         p[i].patch.ack.seq < p[j].patch.ack.seq
  BY DEF Answers
<1> QED
  BY <1>3, <1>6, <1>7, <1>8, <1>9, <1>10 DEF Answers

\* The backend takes a message, and sends one.
LEMMA AnswersSent ==
  ASSUME NEW f \in Fronts, NEW q, NEW p \in Seq(FrontMsgs), Answers(f, q, p),
         NEW q2, Sent(q2) \subseteq Sent(q),
         NEW r \in Seq(FrontMsgs), NEW m \in FrontMsgs, DOMAIN r = {1}, r[1] = m,
         NEW c, c = m.patch.ack, \A d \in Sent(q) : d \in Sent(q2) \/ d = c,
         c # NoChange => c \in Sent(q) /\ c.actor = f.actor
                         /\ \A i \in DOMAIN p : p[i].patch.ack # NoChange => p[i].patch.ack.seq < c.seq
  PROVE  Answers(f, q2, p \o r)
<1> DEFINE s == p \o r
           l == Len(p) + 1
           had == LastAnswer(f)
<1>1. /\ \A i \in DOMAIN p : i \in DOMAIN s /\ s[i] = p[i] /\ i < l
      /\ l \in DOMAIN s /\ s[l] = m /\ l \in Nat
      /\ \A i \in DOMAIN s : i \in DOMAIN p \/ i = l
  <2>1. /\ \A i \in DOMAIN p : i \in DOMAIN s /\ s[i] = p[i]
        /\ \A j \in DOMAIN r : Len(p) + j \in DOMAIN s /\ s[Len(p) + j] = r[j]
        /\ Len(p) \in Nat /\ DOMAIN s = 1..(Len(p) + Len(r)) /\ Len(r) \in Nat
        /\ DOMAIN p = 1..Len(p) /\ DOMAIN r = 1..Len(r)
    BY ConcatOf
  <2>2. Len(r) = 1
    BY <2>1
  <2> HIDE DEF s
  <2> QED
    BY <2>1, <2>2
<1>2. \A i \in DOMAIN p : i \in Nat /\ p[i].patch.ack.seq \in Nat
  BY MessagesOf
<1> HIDE DEF s, l
<1>3. /\ had \in Nat
      /\ \A i \in DOMAIN f.requests : f.requests[i] = [actor |-> f.actor, seq |-> had + i]
      /\ \A d \in Sent(q) : d.seq > had
      /\ \A i \in DOMAIN p : p[i].patch.ack # NoChange =>
           p[i].patch.ack.actor = f.actor /\ p[i].patch.ack.seq > had
      /\ \A i, j \in DOMAIN p : i < j /\ p[i].patch.ack # NoChange /\ p[j].patch.ack # NoChange =>
           p[i].patch.ack.seq < p[j].patch.ack.seq
      /\ \A n \in Nat : n > had /\ n <= f.seq =>
           LET d == [actor |-> f.actor, seq |-> n]
           IN d \in Sent(q) \/ \E i \in DOMAIN p : p[i].patch.ack = d
  BY DEF Answers
<1>4. \A i \in DOMAIN s : s[i].patch.ack # NoChange =>
        s[i].patch.ack.actor = f.actor /\ s[i].patch.ack.seq > had
  <2> TAKE i \in DOMAIN s
  <2>1. CASE i \in DOMAIN p
    BY <1>1, <1>3, <2>1
  <2>2. CASE i = l
    BY <1>1, <1>3, <2>2
  <2> QED
    BY <1>1, <2>1, <2>2
<1>5. \A i, j \in DOMAIN s : i < j /\ s[i].patch.ack # NoChange /\ s[j].patch.ack # NoChange =>
        s[i].patch.ack.seq < s[j].patch.ack.seq
  <2> SUFFICES ASSUME NEW i \in DOMAIN s, NEW j \in DOMAIN s, i < j,
                      s[i].patch.ack # NoChange, s[j].patch.ack # NoChange
               PROVE  s[i].patch.ack.seq < s[j].patch.ack.seq
    OBVIOUS
  <2>1. CASE j \in DOMAIN p
    <3>1. i \in DOMAIN p
      <4>1. i # l
        BY <1>1, <1>2, <2>1
      <4> QED
        BY <1>1, <4>1
    <3> QED
      BY <1>1, <1>3, <2>1, <3>1
  <2>2. CASE j = l
    <3>1. i \in DOMAIN p
      BY <1>1, <2>2
    <3> QED
      BY <1>1, <2>2, <3>1
  <2> QED
    BY <1>1, <2>1, <2>2
<1>6. \A n \in Nat : n > had /\ n <= f.seq =>
        LET d == [actor |-> f.actor, seq |-> n]
        IN d \in Sent(q2) \/ \E i \in DOMAIN s : s[i].patch.ack = d
  <2> SUFFICES ASSUME NEW n \in Nat, n > had, n <= f.seq,
                      NEW d, d = [actor |-> f.actor, seq |-> n], d \notin Sent(q2)
               PROVE  \E i \in DOMAIN s : s[i].patch.ack = d
    OBVIOUS
  <2>1. d \in Sent(q) \/ \E i \in DOMAIN p : p[i].patch.ack = d
    BY <1>3
  <2> QED
    BY <1>1, <2>1
<1>7. \A d \in Sent(q2) : d.seq > had
  BY <1>3
<1> HIDE DEF had
<1> QED
  BY <1>3, <1>4, <1>5, <1>6, <1>7 DEF Answers, had, s

\* The frontend takes a message: an answer is to the first request.
LEMMA FirstAnswer ==
  ASSUME NEW f \in Fronts, NEW q, NEW p \in Seq(FrontMsgs), Answers(f, q, p), p # <<>>,
         NEW c, c = Head(p).patch.ack, c # NoChange,
         NEW had \in SUBSET Change, Closed(had), c \in had, Sent(q) \cap had = {}, c.seq <= f.seq
  PROVE  /\ f.requests # <<>> /\ Head(f.requests) = c /\ c.seq = LastAnswer(f) + 1
         /\ c.actor = f.actor /\ c \notin Sent(q)
<1> DEFINE n == LastAnswer(f) + 1
           d == [actor |-> f.actor, seq |-> n]
<1>1. /\ f.seq \in Nat /\ Len(f.requests) \in Nat /\ DOMAIN f.requests = 1..Len(f.requests)
      /\ f.seq = LastAnswer(f) + Len(f.requests) /\ f.requests \in Seq(Change)
  BY AnswerNumbers
<1>2. /\ Head(p) = p[1] /\ 1 \in DOMAIN p /\ \A i \in DOMAIN p : i \in Nat /\ i >= 1
  <2>1. Head(p) = p[1] /\ 1 \in DOMAIN p
    BY TailOf
  <2> QED
    BY <2>1, MessagesOf
<1>3. LastAnswer(f) \in Nat /\ c.actor = f.actor /\ c.seq > LastAnswer(f)
  BY <1>2 DEF Answers
<1>4. c \in Change /\ c.seq \in Nat /\ c = [actor |-> c.actor, seq |-> c.seq]
  BY ChangeType, NumbersLemma
\* If it were a later number, the one before it would be applied as well, so
\* that its answer is no longer to come.
<1>5. c.seq = n
  <2> SUFFICES ASSUME c.seq # n
               PROVE  FALSE
    OBVIOUS
  <2>1. n \in 1..c.seq /\ n < c.seq /\ n \in Nat /\ n <= f.seq /\ n > LastAnswer(f)
    BY <1>1, <1>3, <1>4
  <2>2. d \in had
    BY <1>3, <2>1 DEF Closed
  <2>3. d \notin Sent(q)
    BY <2>2
  <2>4. PICK i \in DOMAIN p : p[i].patch.ack = d
    BY <2>1, <2>3 DEF Answers
  <2>5. d \in Change /\ d # NoChange /\ d.seq = n
    BY <2>2, ChangeType
  <2>6. i # 1
    BY <1>2, <2>1, <2>4, <2>5
  <2>7. 1 < i
    BY <1>2, <2>6
  <2>8. p[1].patch.ack.seq < p[i].patch.ack.seq
    BY <1>2, <2>4, <2>5, <2>7 DEF Answers
  <2> QED
    BY <1>2, <1>4, <2>1, <2>4, <2>5, <2>8
<1>6. Len(f.requests) >= 1
  BY <1>1, <1>3, <1>5
<1>7. f.requests # <<>> /\ Head(f.requests) = f.requests[1] /\ 1 \in DOMAIN f.requests
  BY <1>1, <1>6, HeadTailProperties, EmptySeq
<1>8. f.requests[1] = d
  BY <1>7 DEF Answers
<1> QED
  BY <1>3, <1>4, <1>5, <1>7, <1>8

LEMMA AnswersTaken ==
  ASSUME NEW f \in Fronts, NEW g \in Fronts, NEW q, NEW p \in Seq(FrontMsgs), Answers(f, q, p), p # <<>>,
         NEW had \in SUBSET Change, Closed(had), Sent(q) \cap had = {},
         \A d \in Sent(q) : d \in Change /\ d.actor = f.actor,
         Head(p).patch.ack # NoChange => Head(p).patch.ack \in had /\ Head(p).patch.ack.seq <= f.seq,
         g.actor = f.actor, g.seq = f.seq, g.requests = LeftOf(f, Head(p).patch)
  PROVE  Answers(g, q, Tail(p))
<1> DEFINE c == Head(p).patch.ack
           t == Tail(p)
           k == LastAnswer(f)
<1>1. /\ f.seq \in Nat /\ Len(f.requests) \in Nat /\ DOMAIN f.requests = 1..Len(f.requests)
      /\ f.seq = LastAnswer(f) + Len(f.requests) /\ f.requests \in Seq(Change)
  BY AnswerNumbers
<1>2. /\ Head(p) = p[1] /\ 1 \in DOMAIN p
      /\ \A i \in DOMAIN t : i \in Nat /\ i + 1 \in DOMAIN p /\ t[i] = p[i + 1]
      /\ \A i \in DOMAIN p : i # 1 => i - 1 \in DOMAIN t /\ t[i - 1] = p[i]
  BY TailOf
<1>3. \A i \in DOMAIN t : 1 < i + 1
  <2>1. t \in Seq(FrontMsgs)
    BY TailOf
  <2> HIDE DEF t
  <2>2. \A i \in DOMAIN t : i \in 1..Len(t)
    BY <2>1, MessagesOf
  <2> QED
    BY <2>2
<1>4. /\ k \in Nat
      /\ \A i \in DOMAIN f.requests : f.requests[i] = [actor |-> f.actor, seq |-> k + i]
      /\ \A d \in Sent(q) : d.seq > k
      /\ \A i \in DOMAIN p : p[i].patch.ack # NoChange =>
           p[i].patch.ack.actor = f.actor /\ p[i].patch.ack.seq > k
      /\ \A i, j \in DOMAIN p : i < j /\ p[i].patch.ack # NoChange /\ p[j].patch.ack # NoChange =>
           p[i].patch.ack.seq < p[j].patch.ack.seq
      /\ \A n \in Nat : n > k /\ n <= f.seq =>
           LET d == [actor |-> f.actor, seq |-> n]
           IN d \in Sent(q) \/ \E i \in DOMAIN p : p[i].patch.ack = d
  BY DEF Answers
<1>5. \A i \in DOMAIN p : p[i].patch.ack.seq \in Nat
  BY MessagesOf
<1>6. g.requests = IF f.requests # <<>> /\ Head(f.requests) = c THEN Tail(f.requests) ELSE f.requests
  BY DEF LeftOf
<1> HIDE DEF t, k
<1>7. \A i, j \in DOMAIN t : i < j /\ t[i].patch.ack # NoChange /\ t[j].patch.ack # NoChange =>
        t[i].patch.ack.seq < t[j].patch.ack.seq
  <2> TAKE i, j \in DOMAIN t
  <2>1. i < j => i + 1 < j + 1
    BY <1>2
  <2> QED
    BY <1>2, <1>4, <2>1
<1>8. c = p[1].patch.ack
  BY <1>2
<1>9. CASE c = NoChange
  <2>1. f.requests # <<>> => Head(f.requests) # NoChange
    BY <1>1, HeadTailProperties, ChangeType
  <2>2. g.requests = f.requests
    BY <1>6, <1>9, <2>1
  <2>3. LastAnswer(g) = k
    BY <2>2 DEF LastAnswer, k
  <2>4. \A n \in Nat : n > k /\ n <= f.seq =>
          LET d == [actor |-> f.actor, seq |-> n]
          IN d \in Sent(q) \/ \E i \in DOMAIN t : t[i].patch.ack = d
    <3> SUFFICES ASSUME NEW n \in Nat, n > k, n <= f.seq,
                        NEW d, d = [actor |-> f.actor, seq |-> n], d \notin Sent(q)
                 PROVE  \E i \in DOMAIN t : t[i].patch.ack = d
      OBVIOUS
    <3>1. PICK i \in DOMAIN p : p[i].patch.ack = d
      BY <1>4
    <3>2. d # NoChange
      <4>1. d.seq = n /\ n # 0
        BY <1>4
      <4> QED
        BY <4>1 DEF NoChange
    <3>3. i # 1
      BY <1>8, <1>9, <3>1, <3>2
    <3> QED
      BY <1>2, <3>1, <3>3
  <2>5. \A i \in DOMAIN t : t[i].patch.ack # NoChange =>
          t[i].patch.ack.actor = f.actor /\ t[i].patch.ack.seq > k
    BY <1>2, <1>4
  <2> QED
    BY <1>4, <1>7, <2>2, <2>3, <2>4, <2>5 DEF Answers, t
<1>10. CASE c # NoChange
  <2>1. /\ f.requests # <<>> /\ Head(f.requests) = c /\ c.seq = k + 1
        /\ c.actor = f.actor /\ c \notin Sent(q)
    BY <1>10, FirstAnswer DEF k
  <2> DEFINE rest == Tail(f.requests)
  <2>2. g.requests = rest
    BY <1>6, <2>1
  <2>3. /\ Len(rest) = Len(f.requests) - 1
        /\ \A i \in DOMAIN rest : i \in Nat /\ i + 1 \in DOMAIN f.requests /\ rest[i] = f.requests[i + 1]
    BY <1>1, <2>1, TailOf
  <2> HIDE DEF rest
  <2>4. LastAnswer(g) = k + 1
    <3>1. LastAnswer(f) = k
      BY DEF k
    <3> QED
      BY <1>1, <1>4, <2>2, <2>3, <3>1 DEF LastAnswer
  <2>5. \A i \in DOMAIN rest : rest[i] = [actor |-> f.actor, seq |-> (k + 1) + i]
    <3> TAKE i \in DOMAIN rest
    <3>1. k + (i + 1) = (k + 1) + i
      BY <1>4, <2>3
    <3> QED
      BY <1>4, <2>3, <3>1
  <2>6. \A d \in Sent(q) : d.seq > k + 1
    <3> TAKE d \in Sent(q)
    <3>1. /\ d \in Change /\ d.actor = f.actor /\ d.seq > k /\ d # c
          /\ d.seq \in Nat /\ d = [actor |-> d.actor, seq |-> d.seq]
      BY <1>4, <2>1, ChangeType, NumbersLemma
    <3>2. c = [actor |-> c.actor, seq |-> c.seq]
      BY <1>10, ChangeType
    <3>3. d.seq # k + 1
      BY <2>1, <3>1, <3>2
    <3> QED
      BY <1>4, <3>1, <3>3
  <2>7. \A i \in DOMAIN t : t[i].patch.ack # NoChange =>
          t[i].patch.ack.actor = f.actor /\ t[i].patch.ack.seq > k + 1
    <3> SUFFICES ASSUME NEW i \in DOMAIN t, t[i].patch.ack # NoChange
                 PROVE  t[i].patch.ack.actor = f.actor /\ t[i].patch.ack.seq > k + 1
      OBVIOUS
    <3>1. i + 1 \in DOMAIN p /\ t[i] = p[i + 1] /\ 1 < i + 1
      BY <1>2, <1>3
    <3>2. p[1].patch.ack.seq < p[i + 1].patch.ack.seq
      BY <1>2, <1>4, <1>8, <1>10, <3>1
    <3> QED
      BY <1>4, <1>8, <2>1, <3>1, <3>2
  <2>8. \A n \in Nat : n > k + 1 /\ n <= f.seq =>
          LET d == [actor |-> f.actor, seq |-> n]
          IN d \in Sent(q) \/ \E i \in DOMAIN t : t[i].patch.ack = d
    <3> SUFFICES ASSUME NEW n \in Nat, n > k + 1, n <= f.seq,
                        NEW d, d = [actor |-> f.actor, seq |-> n], d \notin Sent(q)
                 PROVE  \E i \in DOMAIN t : t[i].patch.ack = d
      OBVIOUS
    <3>1. n > k /\ n # k + 1
      BY <1>4
    <3>2. PICK i \in DOMAIN p : p[i].patch.ack = d
      BY <1>4, <3>1
    <3>3. d.seq = n
      OBVIOUS
    <3>4. i # 1
      BY <1>8, <2>1, <3>1, <3>2, <3>3
    <3> QED
      BY <1>2, <3>2, <3>4
  <2>9. k + 1 \in Nat
    BY <1>4
  <2> QED
    BY <1>7, <2>2, <2>4, <2>5, <2>6, <2>7, <2>8, <2>9 DEF Answers, t
<1> QED
  BY <1>9, <1>10

LEMMA ShownNow ==
  ASSUME TypeInv, OrderInv, ConservedInv, ShowInv, upsets = {}, front.mode # "none"
  PROVE  /\ destroys = 0 /\ Calm /\ front.mode \in {"pending", "write"} /\ front \in Fronts
         /\ toFrontend \in Seq(FrontMsgs) /\ toBackend \in Seq(BackMsgs)
         /\ Shows(front, toFrontend, applied, Armed)
         /\ front.mode = "write" => /\ Answers(front, toBackend, toFrontend)
                                    /\ front.actor \in Locals /\ front.actor = Author /\ WriteInv
         /\ front.mode = "pending" => PendingInv /\ front.requests = <<>>
         /\ applied \in SUBSET Change /\ Closed(applied) /\ held = {}
         /\ Sent(toBackend) \cap applied = {}
         /\ \A d \in Sent(toBackend) : d \in Change /\ d.actor = Author
         /\ docState # "ready" => applied = {} /\ DOMAIN toFrontend = {}
<1>1. destroys = 0 /\ Calm
  BY DEF ShowInv, Calm
<1>2. \A d \in Sent(toBackend) : d \in Change /\ d.actor = Author
  BY InFlightPlaces DEF Sent, TypeInv, QueueInv
<1>3. held = {}
  BY OrderNow
<1> QED
  BY <1>1, <1>2, <1>3, CalmNow, BackTypesNow
  DEF ShowInv, OrderInv, GapInv, TypeInv, TypeOK, FrontInv

\* A step of the user.
LEMMA UserShown ==
  ASSUME TypeInv, OrderInv, ConservedInv, ShowInv, upsets = {}, front.mode # "none",
         UNCHANGED <<destroys, toFrontend, backendVars>>,
         front'.shown = front.shown, front'.mode = front.mode, Told(front) => Told(front'),
         front.mode = "write" => Answers(front', toBackend', toFrontend)
  PROVE  ShowInv'
<1>1. UNCHANGED <<destroys, toFrontend, applied, hasClock, docState>>
  BY DEF backendVars
<1>2. Armed' = Armed
  BY <1>1 DEF Armed
<1>3. Shows(front', toFrontend, applied, Armed)
  BY ShownNow, ShowsSame
<1> QED
  BY <1>1, <1>2, <1>3, ShownNow DEF ShowInv

LEMMA WatchShown ==
  ASSUME TypeInv, OrderInv, ConservedInv, ShowInv, Watch
  PROVE  ShowInv'
<1>1. /\ front.mode # "none" /\ front' = NewState([front EXCEPT !.watched = TRUE])
      /\ UNCHANGED <<destroys, toBackend, toFrontend, backendVars, upsets>>
  BY DEF Watch
<1> SUFFICES ASSUME upsets = {}
             PROVE  ShowInv'
  BY <1>1 DEF ShowInv
<1> DEFINE g == [front EXCEPT !.watched = TRUE]
<1>2. /\ g \in Fronts /\ g.shown = front.shown /\ g.mode = front.mode
      /\ g.actor = front.actor /\ g.seq = front.seq /\ g.requests = front.requests
  BY DEF TypeInv, TypeOK, Fronts
<1>3. front' = NewState(g)
  BY <1>1
<1> HIDE DEF g
<1>4. /\ Told(front') /\ front'.shown = front.shown /\ front'.mode = front.mode
      /\ front'.actor = front.actor /\ front'.seq = front.seq /\ front'.requests = front.requests
  BY <1>2, <1>3, ToldLemma, NewStateLemma
<1>5. front.mode = "write" => Answers(front', toBackend, toFrontend)
  BY <1>1, <1>4, ShownNow, AnswersSame
<1> QED
  BY <1>1, <1>4, <1>5, UserShown

LEMMA QueueChangeShown ==
  ASSUME TypeInv, OrderInv, ConservedInv, ShowInv, QueueChange
  PROVE  ShowInv'
<1>1. /\ front.mode \in {"pending", "read"} /\ front' = [front EXCEPT !.changeQ = front.changeQ + 1]
      /\ UNCHANGED <<destroys, toFrontend, backendVars, upsets>>
  BY DEF QueueChange
<1> SUFFICES ASSUME upsets = {}
             PROVE  ShowInv'
  BY <1>1 DEF ShowInv
<1>2. /\ front'.shown = front.shown /\ front'.mode = front.mode /\ front'.requests = front.requests
      /\ front'.ready = front.ready /\ front'.watched = front.watched /\ front'.told = front.told
  BY <1>1 DEF TypeInv, TypeOK, Fronts
<1>3. Told(front) => Told(front')
  <2>1. View(front') = View(front)
    BY <1>2, ViewLemma
  <2> QED
    BY <1>2, <2>1 DEF Told
<1> QED
  BY <1>1, <1>2, <1>3, UserShown

LEMMA WriteChangeShown ==
  ASSUME TypeInv, OrderInv, ConservedInv, ShowInv, NEW n \in 1..2, WriteChange(n)
  PROVE  ShowInv'
<1> SUFFICES ASSUME upsets = {}, n = 1
             PROVE  ShowInv'
  <2>1. upsets' = {} => upsets = {} /\ n = 1
    BY DEF WriteChange
  <2> QED
    BY <2>1 DEF ShowInv
<1>1. Writes(1) /\ front.mode = "write" /\ front' = Written(front, 1)
  BY WritesLemma DEF WriteChange
<1>2. /\ front \in Fronts /\ front' \in Fronts /\ front.actor \in Locals
      /\ front'.actor = front.actor /\ front'.seq = front.seq + 1 /\ front'.mode = front.mode
      /\ UNCHANGED <<destroys, toFrontend, backendVars>>
  BY <1>1 DEF Writes, TypeInv, TypeOK
<1>3. front.seq \in Nat /\ front.seq + 1 <= MaxSeq
  BY <1>2, NumbersLemma DEF Fronts, MaxSeq
<1>4. /\ Told(front') /\ front'.shown = front.shown
      /\ front'.requests = front.requests \o ChangesOf(front.actor, front.seq, front.seq + 1)
  <2>1. 1 \in Nat
    OBVIOUS
  <2> QED
    BY <1>1, <1>2, <1>3, <2>1, WrittenTold, WrittenLemma
<1> DEFINE c == [actor |-> front.actor, seq |-> front.seq + 1]
           cs == Reverse(ChangesOf(front.actor, front.seq, front.seq + 1))
           r == ChangesOf(front.actor, front.seq, front.seq + 1)
<1>5. r \in Seq(Change) /\ DOMAIN r = 1..1 /\ r[1] = c
  <2>1. front.seq + 1 \in front.seq..MaxSeq /\ (front.seq + 1) - front.seq = 1 /\ 1 \in Nat
    BY <1>3, NumbersLemma
  <2>2. IsRun(r, front.actor, front.seq, 1)
    BY <1>2, <1>3, <2>1, ChangesOfIs
  <2> HIDE DEF r
  <2> QED
    BY <2>2 DEF IsRun
<1>6. /\ toBackend' = toBackend \o Requests(cs) /\ cs \in Seq(Change) /\ DOMAIN cs = 1..1
      /\ cs[1] = c
  <2>1. /\ toBackend' = toBackend \o Requests(cs) /\ cs \in Seq(Change) /\ DOMAIN cs = 1..1
        /\ \A i \in 1..1 : cs[i] = [actor |-> front.actor, seq |-> front.seq + 1 + 1 - i]
    BY <1>1 DEF Writes
  <2>2. front.seq + 1 + 1 - 1 = front.seq + 1
    BY <1>3
  <2> HIDE DEF cs
  <2> QED
    BY <2>1, <2>2
<1>7. front'.requests = front.requests \o r
  BY <1>4
<1>8. Answers(front, toBackend, toFrontend) /\ toBackend \in Seq(BackMsgs)
  BY <1>1, ShownNow
<1> HIDE DEF r, cs
<1>9. Answers(front', toBackend', toFrontend)
  <2> DEFINE g == front'
  <2>1. /\ g \in Fronts /\ g.actor = front.actor /\ g.seq = front.seq + 1
        /\ g.requests = front.requests \o r
    BY <1>2, <1>7
  <2> HIDE DEF g
  <2>2. Answers(g, toBackend \o Requests(cs), toFrontend)
    BY <1>2, <1>5, <1>6, <1>8, <2>1, AnswersWrite
  <2> QED
    BY <1>6, <2>2 DEF g
<1> QED
  BY <1>1, <1>2, <1>4, <1>9, UserShown

LEMMA NewlyShown ==
  ASSUME TypeInv, OrderInv, ConservedInv, upsets = {}, destroys = 0, front.mode = "none",
         NEW mode \in {"pending", "write"}, NEW a \in Locals \cup {NoActor},
         front' = NewFrontend(mode, a), UNCHANGED <<destroys, toFrontend, backendVars>>,
         Sent(toBackend') = {}
  PROVE  ShowInv'
<1> DEFINE f == NewFrontend(mode, a)
<1>1. applied = {} /\ DOMAIN toFrontend = {} /\ UNCHANGED <<toFrontend, applied, destroys>>
  BY CalmNow DEF Calm, backendVars
<1>2. f.mode = mode /\ f.shown = {} /\ f.watched = FALSE /\ f.seq = 0 /\ f.requests = <<>>
  BY DEF NewFrontend
<1>3. front' = f
  OBVIOUS
<1> HIDE DEF f
<1>4. Adds(toFrontend) = {}
  BY <1>1 DEF Adds
<1>5. \A armed : Shows(f, toFrontend, applied, armed)
  BY <1>1, <1>2, <1>4 DEF Shows, Told
<1>6. LastAnswer(f) = 0 /\ DOMAIN f.requests = {}
  <2>1. Len(f.requests) = 0 /\ DOMAIN f.requests = {}
    BY <1>2
  <2>2. LastAnswer(f) = 0 - 0
    BY <1>2, <2>1 DEF LastAnswer
  <2> QED
    BY <2>1, <2>2
<1>7. Answers(f, toBackend', toFrontend)
  BY <1>1, <1>2, <1>6 DEF Answers
<1> QED
  BY <1>1, <1>3, <1>5, <1>7 DEF ShowInv

LEMMA CreateShown ==
  ASSUME TypeInv, OrderInv, ConservedInv, Create
  PROVE  ShowInv'
<1> SUFFICES ASSUME upsets = {}
             PROVE  ShowInv'
  BY DEF Create, ShowInv
<1>1. /\ front.mode = "none" /\ destroys = 0 /\ front' = NewFrontend("write", Root)
      /\ UNCHANGED <<destroys, toFrontend, backendVars>>
      /\ toBackend' = toBackend \o <<BackMsg("CreateMsg", NoChange)>>
  BY DEF Create, Send
<1>2. toBackend = <<>>
  BY <1>1, CalmNow DEF Calm
<1> DEFINE r == <<BackMsg("CreateMsg", NoChange)>>
<1>3. r \in Seq(BackMsgs) /\ \A j \in DOMAIN r : r[j].type = "CreateMsg"
  BY BackMsgType
<1>4. toBackend' = toBackend \o r
  BY <1>1
<1> HIDE DEF r
<1>5. toBackend' = r
  BY <1>2, <1>3, <1>4
<1>6. Sent(toBackend') = {}
  BY <1>3, <1>5, NoRequests
<1>7. Root \in Locals \cup {NoActor} /\ "write" \in {"pending", "write"}
  BY DEF Locals
<1> QED
  BY <1>1, <1>6, <1>7, NewlyShown

LEMMA OpenShown ==
  ASSUME TypeInv, OrderInv, ConservedInv, Open
  PROVE  ShowInv'
<1> SUFFICES ASSUME upsets = {}, destroys = 0
             PROVE  ShowInv'
  <2>1. destroys \in Nat
    BY NumbersLemma DEF TypeInv, TypeOK
  <2>2. upsets' = {} => upsets = {} /\ destroys = 0
    BY <2>1 DEF Open
  <2> QED
    BY <2>2 DEF ShowInv
<1>1. /\ front.mode = "none" /\ front' = NewFrontend("pending", NoActor)
      /\ UNCHANGED <<destroys, toFrontend, backendVars>>
      /\ toBackend' = toBackend \o <<BackMsg("OpenMsg", NoChange)>>
  BY DEF Open, Send
<1>2. toBackend = <<>>
  BY <1>1, CalmNow DEF Calm
<1> DEFINE r == <<BackMsg("OpenMsg", NoChange)>>
<1>3. r \in Seq(BackMsgs) /\ \A j \in DOMAIN r : r[j].type = "OpenMsg"
  BY BackMsgType
<1>4. toBackend' = toBackend \o r
  BY <1>1
<1> HIDE DEF r
<1>5. toBackend' = r
  BY <1>2, <1>3, <1>4
<1>6. Sent(toBackend') = {}
  BY <1>3, <1>5, NoRequests
<1>7. "pending" \in {"pending", "write"} /\ NoActor \in Locals \cup {NoActor}
  OBVIOUS
<1> QED
  BY <1>1, <1>6, <1>7, NewlyShown

\* A message reaches the frontend.
LEMMA ReceivedShown ==
  ASSUME TypeInv, OrderInv, ConservedInv, ShowInv, ConservedInv', Received,
         upsets = {}, front.mode # "none", Seen(front, front', Head(toFrontend)),
         front.mode = "write" => front'.requests = LeftOf(front, Head(toFrontend).patch)
  PROVE  ShowInv'
<1> DEFINE m == Head(toFrontend)
<1>1. /\ toFrontend # <<>> /\ toFrontend' = Tail(toFrontend) /\ front' \in Fronts
      /\ UNCHANGED <<destroys, upsets, stored, docState, docActor, applied, held, feed, hasClock>>
  BY DEF Received, backendVars
<1>2. m \in FrontMsgs /\ m = toFrontend[1] /\ 1 \in DOMAIN toFrontend
  BY <1>1, ShownNow, TailOf
<1>3. docState = "ready" /\ Author = docActor /\ docActor \in Locals /\ docActor # NoActor
  <2>1. docState = "ready"
    BY <1>2, ShownNow
  <2> QED
    BY <2>1, BackTypesNow DEF Author
<1>4. PICK a \in {front.actor, docActor}, s \in {front.seq, m.patch.seq} :
        /\ s >= front.seq
        /\ \/ Kept(front, front', a, s) /\ UNCHANGED toBackend
           \/ /\ Enabled(front, front', a, s)
              /\ toBackend' = toBackend \o Requests(ChangesOf(a, s, s + front.changeQ))
  BY DEF Received
<1>5. Armed' = Armed /\ destroys' = 0
  BY <1>1, ShownNow DEF Armed
<1>6. front'.mode \in {"pending", "write"} /\ (front'.mode = front.mode \/ front.mode = "pending")
  <2>1. Calm' => front'.mode # "read"
    BY DEF ConservedInv
  <2>2. Calm'
    BY <1>1, ShownNow DEF Calm
  <2>3. front'.mode = front.mode \/ front'.mode = "read" \/ (front'.mode = "write" /\ front.mode = "pending")
    <3>1. front.mode # "read"
      BY ShownNow
    <3> QED
      BY <1>4, <3>1 DEF Kept, Enabled
  <2> QED
    BY <2>1, <2>2, <2>3, ShownNow
<1> DEFINE f == front
           g == front'
           q == toBackend
           p == toFrontend
           had == applied
<1>7. /\ f \in Fronts /\ g \in Fronts /\ q \in Seq(BackMsgs) /\ p \in Seq(FrontMsgs) /\ p # <<>>
      /\ Shows(f, p, had, Armed) /\ Seen(f, g, Head(p)) /\ f.mode \in {"pending", "write"}
      /\ g.mode = f.mode \/ (f.mode = "pending" /\ g.mode = "write")
      /\ f.seq \in Nat /\ f.changeQ \in Nat
  BY <1>1, <1>6, ShownNow, NumbersLemma DEF Fronts
<1>8. Shows(g, Tail(p), had, Armed)
  <2> DEFINE armed == Armed
  <2>1. Shows(f, p, had, armed)
    BY <1>7
  <2> HIDE DEF f, g, p, had, armed
  <2>2. Shows(g, Tail(p), had, armed)
    BY <1>7, <2>1, ShowsTaken
  <2> QED
    BY <2>2 DEF armed
<1>9. m.patch.seq \in Nat /\ m.patch.ack \in Change \cup {NoChange}
  BY <1>2, ShownNow, MessagesOf, NumbersLemma
<1>10. s \in Nat
  BY <1>4, <1>7, <1>9
<1>11. front'.mode = "write" => Answers(front', toBackend', toFrontend')
  <2>1. CASE front.mode = "write" /\ front'.mode = "write"
    <3>1. /\ Answers(f, q, p) /\ f.actor \in Locals /\ f.actor = Author /\ WriteInv
          /\ applied \in SUBSET Change /\ Closed(applied) /\ Sent(q) \cap applied = {}
          /\ \A d \in Sent(q) : d \in Change /\ d.actor = Author
      BY <2>1, ShownNow
    <3>2. Kept(front, front', a, s) /\ UNCHANGED toBackend
      BY <1>4, <2>1 DEF Enabled
    <3>3. a = f.actor
      BY <1>3, <1>4, <3>1
    <3>4. s = f.seq
      <4>1. m.patch.seq <= f.seq
        BY <1>2, <3>1 DEF WriteInv
      <4> QED
        BY <1>4, <1>7, <1>9, <4>1
    <3>5. g.actor = f.actor /\ g.seq = f.seq /\ g.requests = LeftOf(f, Head(p).patch)
      BY <2>1, <3>2, <3>3, <3>4 DEF Kept
    <3>6. \A d \in Sent(q) : d \in Change /\ d.actor = f.actor
      BY <3>1
    <3>7. Head(p).patch.ack # NoChange => Head(p).patch.ack \in had /\ Head(p).patch.ack.seq <= f.seq
      <4> SUFFICES ASSUME m.patch.ack # NoChange
                   PROVE  m.patch.ack \in applied /\ m.patch.ack.seq <= f.seq
        OBVIOUS
      <4>1. m.patch.ack \in m.patch.add
        BY <1>2, <1>7 DEF Shows
      <4>2. m.patch.add \subseteq applied
        BY <1>2, <1>7 DEF Shows, Adds
      <4>3. m.patch.ack.actor = f.actor
        BY <1>2, <3>1 DEF Answers
      <4> QED
        BY <3>1, <4>1, <4>2, <4>3 DEF WriteInv
    <3>8. had \in SUBSET Change /\ Closed(had) /\ Sent(q) \cap had = {} /\ Answers(f, q, p)
      BY <3>1
    <3> HIDE DEF f, g, q, p, had
    <3>9. Answers(g, q, Tail(p))
      BY <1>7, <3>5, <3>6, <3>7, <3>8, AnswersTaken
    <3> QED
      BY <1>1, <3>2, <3>9 DEF g, q, p
  <2>2. CASE front.mode = "pending" /\ front'.mode = "write"
    <3> DEFINE n == front.changeQ
    <3>1. PendingInv
      BY <2>2, ShownNow
    <3>2. /\ Enabled(front, front', a, s)
          /\ toBackend' = toBackend \o Requests(ChangesOf(a, s, s + n))
      <4>1. ~Kept(front, front', a, s)
        BY <2>2 DEF Kept
      <4> QED
        BY <1>4, <4>1
    <3>3. /\ g.actor = a /\ g.seq = s + n /\ g.requests = ChangesOf(a, s, s + n) /\ a \in Locals
      <4>1. a # NoActor
        BY <3>2 DEF Enabled
      <4>2. a \in Locals
        BY <1>3, <1>4, <4>1, BackTypesNow
      <4> QED
        BY <3>2, <4>2 DEF Enabled
    <3>4. n \in Nat /\ s + n <= MaxSeq
      <4>1. g.seq \in 0..MaxSeq
        BY <1>7 DEF Fronts, MaxSeq
      <4> QED
        BY <1>7, <3>3, <4>1, NumbersLemma
    <3>5. Sent(q) = {}
      BY <3>1 DEF PendingInv
    <3>6. \A i \in DOMAIN Tail(p) : Tail(p)[i].patch.ack = NoChange
      <4>1. \A i \in DOMAIN p : p[i].patch.ack = NoChange
        BY <1>7, <2>2 DEF Shows
      <4>2. \A i \in DOMAIN Tail(p) : i + 1 \in DOMAIN p /\ Tail(p)[i] = p[i + 1]
        BY <1>7, TailOf
      <4> QED
        BY <4>1, <4>2
    <3>7. toBackend' = q \o Requests(g.requests) /\ toFrontend' = Tail(p)
      BY <1>1, <3>2, <3>3
    <3> HIDE DEF g, q, p, n
    <3>8. Answers(g, q \o Requests(g.requests), Tail(p))
      BY <1>7, <1>10, <3>3, <3>4, <3>5, <3>6, AnswersStart
    <3> QED
      BY <3>7, <3>8 DEF g
  <2> QED
    BY <1>6, <2>1, <2>2, ShownNow
<1> QED
  BY <1>1, <1>5, <1>8, <1>11 DEF ShowInv

\* What is at the head of the frontend's queue.
LEMMA HeadShown ==
  ASSUME TypeInv, OrderInv, ConservedInv, ShowInv, upsets = {}, front.mode # "none", toFrontend # <<>>
  PROVE  LET m == Head(toFrontend)
         IN /\ m \in FrontMsgs /\ m.patch \in Patches /\ m.good \in BOOLEAN
            /\ front.seq + front.changeQ <= MaxSeq /\ m.patch.seq + front.changeQ <= MaxSeq
            /\ m.type \in {"ReadyMsg", "ActorIdMsg"} => m.actor = docActor
            /\ docState = "ready" /\ docActor \in Locals /\ docActor # NoActor /\ Author = docActor
            /\ \/ m.type = "ActorIdMsg"
               \/ m.type = "ReadyMsg" /\ (front.mode = "write" \/ ~m.some)
               => m.patch.add = {}
            /\ m.patch.ack # NoChange =>
                 m.type = "PatchMsg" /\ m.patch.ack \in applied /\ front.mode = "write"
<1> DEFINE m == Head(toFrontend)
<1>1. m = toFrontend[1] /\ 1 \in DOMAIN toFrontend /\ m \in FrontMsgs
  BY ShownNow, TailOf
<1>2. m.patch \in Patches /\ m.good \in BOOLEAN /\ m.patch.seq \in 0..MaxSeq
  BY <1>1 DEF FrontMsgs, Patches, MaxSeq
<1>3. docState = "ready" /\ docActor \in Locals /\ docActor # NoActor /\ Author = docActor
  <2>1. docState = "ready"
    BY <1>1, ShownNow
  <2> QED
    BY <2>1, BackTypesNow DEF Author
<1>4. /\ m.type \in {"ReadyMsg", "ActorIdMsg"} => m.actor = docActor
      /\ m.patch.seq <= Upto
  BY <1>1 DEF TypeInv, MsgInv
<1>5. front.seq + front.changeQ <= MaxSeq /\ m.patch.seq + front.changeQ <= MaxSeq
  <2>1. /\ Upto = 1 + asked - front.changeQ /\ asked \in 0..MaxChanges /\ front.changeQ \in 0..MaxChanges
        /\ front.seq + front.changeQ <= MaxSeq
    BY UptoType DEF Upto
  <2>2. 1 + asked <= MaxSeq
    BY <2>1, NumbersLemma
  <2> HIDE DEF m
  <2> QED
    BY <1>2, <1>4, <2>1, <2>2, NumbersLemma
<1>6. Shows(front, toFrontend, applied, Armed)
  BY ShownNow
<1>7. m.patch.ack # NoChange =>
        m.type = "PatchMsg" /\ m.patch.ack \in applied /\ front.mode = "write"
  <2>1. m.patch.add \subseteq applied
    BY <1>1, <1>6 DEF Shows, Adds
  <2> QED
    BY <1>1, <1>6, <2>1 DEF Shows
<1>8. \/ m.type = "ActorIdMsg"
      \/ m.type = "ReadyMsg" /\ (front.mode = "write" \/ ~m.some)
      => m.patch.add = {}
  BY <1>1, <1>6 DEF Shows
<1> HIDE DEF m
<1> QED
  BY <1>1, <1>2, <1>3, <1>4, <1>5, <1>7, <1>8 DEF m

LEMMA NothingLeft ==
  ASSUME NEW f \in Fronts, NEW p, p.ack = NoChange
  PROVE  LeftOf(f, p) = f.requests
<1>1. f.requests # <<>> => Head(f.requests) # NoChange
  <2>1. f.requests \in Seq(Change)
    BY DEF Fronts
  <2> QED
    BY <2>1, HeadTailProperties, ChangeType
<1> QED
  BY <1>1 DEF LeftOf

\* A new actor id changes nothing that is shown.
LEMMA ActorSeen ==
  ASSUME NEW f \in Fronts, NEW a
  PROVE  LET g == [f EXCEPT !.actor = a]
         IN /\ g.shown = f.shown /\ g.requests = f.requests /\ g.mode = f.mode
            /\ g.seq = f.seq /\ g.changeQ = f.changeQ
            /\ Told(f) => Told(g)
<1> DEFINE g == [f EXCEPT !.actor = a]
<1>1. /\ g.shown = f.shown /\ g.requests = f.requests /\ g.mode = f.mode
      /\ g.seq = f.seq /\ g.changeQ = f.changeQ
      /\ g.ready = f.ready /\ g.watched = f.watched /\ g.told = f.told
  BY DEF Fronts
<1> HIDE DEF g
<1>2. View(g) = View(f)
  BY <1>1, ViewLemma
<1> QED
  BY <1>1, <1>2 DEF Told, g

LEMMA ReceiveReadyShown ==
  ASSUME TypeInv, OrderInv, ConservedInv, ShowInv, ConservedInv', ReceiveReady
  PROVE  ShowInv'
<1> DEFINE m == Head(toFrontend)
<1>1. Received /\ upsets' = upsets /\ m.type = "ReadyMsg" /\ toFrontend # <<>>
      /\ front' = IF front.mode = "none" THEN front ELSE Initialized(front, m)
  BY ReceivedLemma DEF ReceiveReady, Receive, Heading
<1> SUFFICES ASSUME upsets = {}, front.mode # "none"
             PROVE  ShowInv'
  BY <1>1 DEF ShowInv
<1>2. /\ front.mode \in {"pending", "write"} /\ front \in Fronts
      /\ front.mode = "pending" => front.requests = <<>>
  BY ShownNow
<1>3. /\ m \in FrontMsgs /\ m.patch \in Patches /\ m.good \in BOOLEAN
      /\ front.seq + front.changeQ <= MaxSeq /\ m.patch.seq + front.changeQ <= MaxSeq
      /\ m.actor = docActor /\ docActor \in Locals /\ docActor # NoActor
      /\ front.mode = "write" \/ ~m.some => m.patch.add = {}
      /\ m.patch.ack = NoChange
  BY <1>1, HeadShown
<1> HIDE DEF m
<1>4. CASE front.mode = "write"
  <2>1. front' = front
    BY <1>1, <1>4 DEF Initialized
  <2>2. Seen(front, front, m) /\ front.requests = LeftOf(front, m.patch)
    BY <1>2, <1>3, <1>4, NothingLeft DEF Seen, Fine
  <2> QED
    BY <1>1, <1>4, <2>1, <2>2, ReceivedShown DEF m
<1>5. CASE front.mode = "pending"
  <2> DEFINE g == [front EXCEPT !.actor = docActor]
  <2>1. g = SetActorId(front, m.actor) /\ g \in Fronts
    <3>1. front.mode # "write" => front.requests = <<>>
      BY <1>2, <1>5
    <3> QED
      BY <1>2, <1>3, <1>5, <3>1, SetActorIdLemma
  <2>2. front' = IF m.some THEN Patched(g, m.patch, m.good) ELSE g
    BY <1>1, <1>3, <1>5, <2>1 DEF Initialized
  <2>3. /\ g.shown = front.shown /\ g.requests = front.requests /\ g.mode = front.mode
        /\ g.seq = front.seq /\ g.changeQ = front.changeQ
        /\ Told(front) => Told(g)
    BY <1>2, ActorSeen
  <2> HIDE DEF g
  <2>4. g.mode # "write" => g.requests = <<>>
    BY <1>2, <1>5, <2>3
  <2>5. g.seq + g.changeQ <= MaxSeq /\ m.patch.seq + g.changeQ <= MaxSeq
    BY <1>3, <2>3
  <2>6. CASE m.some
    <3> DEFINE h == Patched(g, m.patch, m.good)
    <3>1. /\ h.shown = g.shown \cup m.patch.add
          /\ m.good /\ m.patch.add # {} => Told(h)
          /\ m.patch.add = {} /\ m.patch.ack = NoChange /\ Told(g) => Told(h)
      BY <1>3, <2>1, <2>4, <2>5, PatchedTold
    <3> HIDE DEF h
    <3>2. front' = h
      BY <2>2, <2>6 DEF h
    <3>3. Seen(front, h, m)
      BY <2>3, <3>1 DEF Seen, Fine
    <3> QED
      BY <1>1, <1>5, <3>2, <3>3, ReceivedShown DEF m
  <2>7. CASE ~m.some
    <3>1. front' = g /\ m.patch.add = {}
      BY <1>3, <2>2, <2>7
    <3>2. Seen(front, g, m)
      BY <2>3, <3>1 DEF Seen, Fine
    <3> QED
      BY <1>1, <1>5, <3>1, <3>2, ReceivedShown DEF m
  <2> QED
    BY <2>6, <2>7
<1> QED
  BY <1>2, <1>4, <1>5

LEMMA ReceiveActorIdShown ==
  ASSUME TypeInv, OrderInv, ConservedInv, ShowInv, ConservedInv', ReceiveActorId
  PROVE  ShowInv'
<1> DEFINE m == Head(toFrontend)
<1>1. Received /\ upsets' = upsets /\ m.type = "ActorIdMsg" /\ toFrontend # <<>>
      /\ front' = IF front.mode = "none" THEN front ELSE SetActorId(front, m.actor)
  BY ReceivedLemma DEF ReceiveActorId, Receive, Heading
<1> SUFFICES ASSUME upsets = {}, front.mode # "none"
             PROVE  ShowInv'
  BY <1>1 DEF ShowInv
<1>2. front.mode \in {"pending", "write"} /\ front \in Fronts
  BY ShownNow
<1>3. m.patch.add = {} /\ m.patch.ack = NoChange
  BY <1>1, HeadShown
<1> HIDE DEF m
<1> DEFINE g == [front EXCEPT !.actor = m.actor]
<1>4. front' = g
  BY <1>1, <1>2 DEF SetActorId
<1>5. /\ g.shown = front.shown /\ g.requests = front.requests
      /\ Told(front) => Told(g)
  BY <1>2, ActorSeen
<1> HIDE DEF g
<1>6. Seen(front, g, m) /\ g.requests = LeftOf(front, m.patch)
  BY <1>2, <1>3, <1>5, NothingLeft DEF Seen, Fine
<1> QED
  BY <1>1, <1>4, <1>6, ReceivedShown DEF m

LEMMA ReceivePatchShown ==
  ASSUME TypeInv, OrderInv, ConservedInv, ShowInv, ConservedInv', ReceivePatch
  PROVE  ShowInv'
<1> DEFINE m == Head(toFrontend)
<1>1. Received /\ upsets' = upsets /\ m.type = "PatchMsg" /\ toFrontend # <<>>
      /\ front' = IF front.mode = "none" THEN front
                  ELSE IF Mismatch(front, m.patch) THEN front ELSE Patched(front, m.patch, m.good)
  BY ReceivedLemma DEF ReceivePatch, Receive, Heading
<1> SUFFICES ASSUME upsets = {}, front.mode # "none"
             PROVE  ShowInv'
  BY <1>1 DEF ShowInv
<1>2. /\ front.mode \in {"pending", "write"} /\ front \in Fronts
      /\ front.mode = "pending" => front.requests = <<>>
      /\ applied \in SUBSET Change /\ Closed(applied) /\ Sent(toBackend) \cap applied = {}
      /\ toFrontend \in Seq(FrontMsgs)
      /\ front.mode = "write" => Answers(front, toBackend, toFrontend) /\ front.actor = Author /\ WriteInv
  BY ShownNow
<1>3. /\ m \in FrontMsgs /\ m.patch \in Patches /\ m.good \in BOOLEAN
      /\ front.seq + front.changeQ <= MaxSeq /\ m.patch.seq + front.changeQ <= MaxSeq
      /\ m.patch.ack # NoChange => m.patch.ack \in applied /\ front.mode = "write"
  BY <1>1, HeadShown
<1>4. ~Mismatch(front, m.patch)
  <2>1. CASE m.patch.ack = NoChange
    BY <2>1 DEF Mismatch
  <2>2. CASE m.patch.ack # NoChange
    <3> DEFINE f == front
               q == toBackend
               p == toFrontend
               c == m.patch.ack
               had == applied
    <3>1. Answers(f, q, p) /\ c \in had /\ f.actor = Author /\ WriteInv
      BY <1>2, <1>3, <2>2
    <3>2. c.actor = f.actor
      <4>1. m = p[1] /\ 1 \in DOMAIN p
        BY <1>1, <1>2, TailOf
      <4> QED
        BY <2>2, <3>1, <4>1 DEF Answers
    <3>3. c.seq <= f.seq
      BY <3>1, <3>2 DEF WriteInv
    <3>4. f \in Fronts /\ p \in Seq(FrontMsgs) /\ p # <<>> /\ c = Head(p).patch.ack /\ c # NoChange
          /\ had \in SUBSET Change /\ Closed(had) /\ Sent(q) \cap had = {}
      BY <1>1, <1>2, <2>2
    <3> HIDE DEF f, q, p, c, had
    <3>5. f.requests # <<>> /\ Head(f.requests) = c
      BY <3>1, <3>3, <3>4, FirstAnswer
    <3> QED
      BY <3>5 DEF Mismatch, f, c
  <2> QED
    BY <2>1, <2>2
<1> HIDE DEF m
<1> DEFINE h == Patched(front, m.patch, m.good)
<1>5. front' = h
  BY <1>1, <1>4
<1>6. /\ h.shown = front.shown \cup m.patch.add
      /\ front.mode = "write" => h.requests = LeftOf(front, m.patch)
      /\ m.good /\ m.patch.add # {} => Told(h)
      /\ m.patch.add = {} /\ m.patch.ack = NoChange /\ Told(front) => Told(h)
  BY <1>2, <1>3, PatchedTold
<1> HIDE DEF h
<1>7. Seen(front, h, m)
  BY <1>6 DEF Seen, Fine
<1> QED
  BY <1>1, <1>5, <1>6, <1>7, ReceivedShown DEF m

\* A step of the backend that says nothing.
LEMMA SilentShown ==
  ASSUME TypeInv, OrderInv, ConservedInv, ShowInv, upsets = {}, front.mode # "none",
         UNCHANGED <<frontVars, toFrontend, applied>>, Armed' => Armed, Sent(toBackend') = Sent(toBackend)
  PROVE  ShowInv'
<1>1. UNCHANGED <<front, destroys, toFrontend, applied>>
  BY DEF frontVars
<1>2. Shows(front, toFrontend, applied, Armed')
  <2>1. Shows(front, toFrontend, applied, Armed)
    BY ShownNow
  <2> QED
    BY <2>1 DEF Shows
<1>3. front.mode = "write" => Answers(front, toBackend', toFrontend)
  <2>1. front.mode = "write" => Answers(front, toBackend, toFrontend)
    BY ShownNow
  <2> QED
    BY <2>1 DEF Answers
<1> QED
  BY <1>1, <1>2, <1>3, ShownNow DEF ShowInv

\* A step of the backend that sends m.
LEMMA BackShown ==
  ASSUME TypeInv, OrderInv, ConservedInv, ShowInv, upsets = {}, front.mode # "none", UNCHANGED frontVars,
         NEW m \in FrontMsgs, toFrontend' = toFrontend \o <<m>>, applied' = applied \cup m.patch.add,
         Armed' => Fine(m) \/ (Armed /\ m.patch.add = {}),
         m.type = "ActorIdMsg" \/ (m.type = "ReadyMsg" /\ (front.mode = "write" \/ ~m.some))
           => m.patch.add = {},
         m.type = "ReadyMsg" => docState # "ready",
         Sent(toBackend') \subseteq Sent(toBackend),
         NEW c, c = m.patch.ack, \A d \in Sent(toBackend) : d \in Sent(toBackend') \/ d = c,
         c # NoChange => /\ c \in Sent(toBackend) /\ c.seq > Latest(applied, c.actor)
                         /\ m.type = "PatchMsg" /\ c \in m.patch.add /\ front.mode = "write"
  PROVE  ShowInv'
<1> DEFINE f == front
           p == toFrontend
           r == <<m>>
           q == toBackend
           q2 == toBackend'
           armed == Armed
           armed2 == Armed'
           had == applied
           had2 == applied'
<1>1. UNCHANGED <<front, destroys>>
  BY DEF frontVars
<1>2. /\ f \in Fronts /\ p \in Seq(FrontMsgs) /\ Shows(f, p, had, armed)
      /\ f.mode = "write" => Answers(f, q, p) /\ f.actor = Author
      /\ had \in SUBSET Change
      /\ \A d \in Sent(q) : d \in Change /\ d.actor = Author
      /\ docState # "ready" => DOMAIN p = {}
  BY ShownNow
<1>3. r \in Seq(FrontMsgs) /\ DOMAIN r = {1} /\ r[1] = m
  OBVIOUS
<1>4. toFrontend' = p \o r /\ had2 = had \cup m.patch.add
      /\ (armed2 => Fine(m) \/ (armed /\ m.patch.add = {}))
  OBVIOUS
<1>5. m.type = "ReadyMsg" /\ f.mode = "pending" => p = <<>>
  <2>1. DOMAIN p = {} => p = <<>>
    <3>1. p \in Seq(FrontMsgs) /\ DOMAIN p = 1..Len(p) /\ Len(p) \in Nat
      BY <1>2, LenProperties
    <3> HIDE DEF p
    <3>2. DOMAIN p = {} => Len(p) = 0
      BY <3>1
    <3> QED
      BY <3>1, <3>2, EmptySeq
  <2> QED
    BY <1>2, <2>1
<1>6. m.patch.ack # NoChange =>
        m.type = "PatchMsg" /\ m.patch.ack \in m.patch.add /\ f.mode = "write"
  OBVIOUS
<1>7. m.type = "ActorIdMsg" \/ (m.type = "ReadyMsg" /\ (f.mode = "write" \/ ~m.some))
        => m.patch.add = {}
  OBVIOUS
\* What was answered before is applied, and c is not.
<1>8. f.mode = "write" /\ c # NoChange =>
        /\ c \in Sent(q) /\ c.actor = f.actor
        /\ \A i \in DOMAIN p : p[i].patch.ack # NoChange => p[i].patch.ack.seq < c.seq
  <2> SUFFICES ASSUME f.mode = "write", c # NoChange
               PROVE  /\ c \in Sent(q) /\ c.actor = f.actor
                      /\ \A i \in DOMAIN p : p[i].patch.ack # NoChange => p[i].patch.ack.seq < c.seq
    OBVIOUS
  <2>1. c \in Sent(q) /\ c.seq > Latest(had, c.actor)
    OBVIOUS
  <2>2. c.actor = f.actor /\ c.seq \in Nat
    BY <1>2, <2>1, ChangeType, NumbersLemma
  <2>3. IsLatest(had, c.actor, Latest(had, c.actor)) /\ Latest(had, c.actor) \in Nat
    BY <1>2, LatestLemma, NumbersLemma
  <2>4. ASSUME NEW i \in DOMAIN p, p[i].patch.ack # NoChange
        PROVE  p[i].patch.ack.seq < c.seq
    <3> DEFINE d == p[i].patch.ack
    <3>1. d \in p[i].patch.add /\ p[i].patch.add \subseteq had
      BY <1>2, <2>4 DEF Shows, Adds
    <3>2. d.actor = c.actor /\ d.seq \in Nat
      BY <1>2, <2>2, <2>4, MessagesOf DEF Answers
    <3>3. d.seq <= Latest(had, c.actor)
      BY <2>3, <3>1, <3>2 DEF IsLatest
    <3> QED
      BY <2>1, <2>2, <2>3, <3>2, <3>3
  <2> QED
    BY <2>1, <2>2, <2>4
<1>9. Sent(q2) \subseteq Sent(q) /\ \A d \in Sent(q) : d \in Sent(q2) \/ d = c
  OBVIOUS
<1> HIDE DEF f, p, r, q, q2, armed, armed2, had, had2
<1>10. Shows(f, p \o r, had2, armed2)
  <2>1. Shows(f, p, had, armed) /\ p \in Seq(FrontMsgs)
    BY <1>2
  <2>2. had2 = had \cup m.patch.add
    BY <1>4
  <2>3. armed2 => Fine(m) \/ (armed /\ m.patch.add = {})
    BY <1>4
  <2> QED
    BY <1>3, <1>5, <1>6, <1>7, <2>1, <2>2, <2>3, ShowsSent, ZenonT(60)
<1>11. f.mode = "write" => Answers(f, q2, p \o r)
  <2> SUFFICES ASSUME f.mode = "write"
               PROVE  Answers(f, q2, p \o r)
    OBVIOUS
  <2>1. Answers(f, q, p)
    BY <1>2
  <2>2. c # NoChange => c \in Sent(q) /\ c.actor = f.actor
                        /\ \A i \in DOMAIN p : p[i].patch.ack # NoChange => p[i].patch.ack.seq < c.seq
    BY <1>8
  <2> QED
    BY <1>2, <1>3, <1>9, <2>1, <2>2, AnswersSent
<1> QED
  BY <1>1, <1>4, <1>10, <1>11, ShownNow DEF ShowInv, f, q2, armed2, had2

\* Nothing but the request at the head of the queue leaves what is sent.
LEMMA TakenSent ==
  ASSUME TypeInv, toBackend # <<>>, toBackend' = Tail(toBackend)
  PROVE  /\ Head(toBackend).type # "RequestMsg" => Sent(toBackend') = Sent(toBackend)
         /\ \A d \in Sent(toBackend) : d \in Sent(toBackend') \/ d = Head(toBackend).change
         /\ Sent(toBackend') \subseteq Sent(toBackend)
<1>1. toBackend \in Seq(BackMsgs)
  BY DEF TypeInv, TypeOK
<1>2. Sent(toBackend') \subseteq Sent(toBackend)
  BY <1>1, SentTail
<1>3. \A d \in Sent(toBackend) :
        d \in Sent(toBackend') \/ (Head(toBackend).type = "RequestMsg" /\ d = Head(toBackend).change)
  BY <1>1, SentHead
<1> QED
  BY <1>2, <1>3

LEMMA ReceiveCreateShown ==
  ASSUME TypeInv, OrderInv, ConservedInv, ShowInv, ReceiveCreate
  PROVE  ShowInv'
<1>1. /\ toBackend # <<>> /\ Head(toBackend).type = "CreateMsg" /\ toBackend' = Tail(toBackend)
      /\ docState' = "ready" /\ hasClock' = TRUE
      /\ toFrontend' = toFrontend \o <<ReadyMsg(FALSE, Root, FALSE, NoPatch)>>
      /\ UNCHANGED <<frontVars, applied, upsets>>
  BY DEF ReceiveCreate, Heading, Notify
<1> SUFFICES ASSUME upsets = {}, front.mode # "none"
             PROVE  ShowInv'
  BY <1>1 DEF ShowInv, frontVars
<1>2. docState = "none"
  BY <1>1, HeadOfQueue
<1> DEFINE m == ReadyMsg(FALSE, Root, FALSE, NoPatch)
<1>3. m \in FrontMsgs
  BY SmallMessageTypes DEF Locals
<1>4. m.patch.add = {} /\ m.patch.ack = NoChange /\ m.type = "ReadyMsg"
  BY DEF ReadyMsg, NoPatch
<1>5. toFrontend' = toFrontend \o <<m>>
  BY <1>1
<1> HIDE DEF m
<1>6. applied' = applied \cup m.patch.add /\ Armed
  BY <1>1, <1>2, <1>4 DEF Armed
<1>7. Sent(toBackend') = Sent(toBackend)
  BY <1>1, TakenSent
<1> QED
  BY <1>1, <1>2, <1>3, <1>4, <1>5, <1>6, <1>7, BackShown

LEMMA ReceiveOpenShown ==
  ASSUME TypeInv, OrderInv, ConservedInv, ShowInv, ReceiveOpen
  PROVE  ShowInv'
<1>1. /\ toBackend # <<>> /\ Head(toBackend).type = "OpenMsg" /\ toBackend' = Tail(toBackend)
      /\ docState' = IF docState = "none" THEN "loading" ELSE docState
      /\ UNCHANGED <<frontVars, toFrontend, applied, hasClock, upsets>>
  BY DEF ReceiveOpen, Heading
<1> SUFFICES ASSUME upsets = {}, front.mode # "none"
             PROVE  ShowInv'
  BY <1>1 DEF ShowInv, frontVars
<1>2. Armed' => Armed
  BY <1>1 DEF Armed
<1>3. Sent(toBackend') = Sent(toBackend)
  BY <1>1, TakenSent
<1> QED
  BY <1>1, <1>2, <1>3, SilentShown

LEMMA ReceiveNeedsActorIdShown ==
  ASSUME TypeInv, OrderInv, ConservedInv, ShowInv, ReceiveNeedsActorId
  PROVE  ShowInv'
<1>1. /\ toBackend # <<>> /\ Head(toBackend).type = "NeedsActorIdMsg" /\ toBackend' = Tail(toBackend)
      /\ UNCHANGED <<frontVars, docState, applied, hasClock, upsets>>
      /\ \/ docState = "ready" /\ toFrontend' = toFrontend \o <<ActorIdMsg(docActor')>>
         \/ docState # "ready" /\ UNCHANGED toFrontend
  BY DEF ReceiveNeedsActorId, Heading, Notify
<1> SUFFICES ASSUME upsets = {}, front.mode # "none"
             PROVE  ShowInv'
  BY <1>1 DEF ShowInv, frontVars
<1>2. Armed' = Armed
  BY <1>1 DEF Armed
<1>3. Sent(toBackend') = Sent(toBackend)
  BY <1>1, TakenSent
<1>4. CASE docState = "ready"
  <2> DEFINE m == ActorIdMsg(docActor)
  <2>1. docActor' = docActor /\ docActor \in Locals
    BY <1>4, ReceiveNeedsActorIdType, BackTypesNow
  <2>2. m \in FrontMsgs /\ toFrontend' = toFrontend \o <<m>>
    BY <1>1, <1>4, <2>1, SmallMessageTypes
  <2>3. m.patch.add = {} /\ m.patch.ack = NoChange /\ m.type = "ActorIdMsg"
    BY DEF ActorIdMsg, NoPatch
  <2> HIDE DEF m
  <2>4. applied' = applied \cup m.patch.add
    BY <1>1, <2>3
  <2> QED
    BY <1>1, <1>2, <1>3, <2>2, <2>3, <2>4, BackShown
<1>5. CASE docState # "ready"
  BY <1>1, <1>2, <1>3, <1>5, SilentShown
<1> QED
  BY <1>4, <1>5

\* A patch message as it is sent.
LEMMA PatchSent ==
  ASSUME NEW good \in BOOLEAN, NEW add \in SUBSET Change, NEW ack \in Change \cup {NoChange},
         NEW now \in SUBSET Change, NEW a
  PROVE  LET m == PatchMsg(good, PatchOf(add, ack, now, a))
         IN /\ m \in FrontMsgs /\ m.type = "PatchMsg" /\ m.good = good
            /\ m.patch.add = add /\ m.patch.ack = ack
<1> DEFINE p == PatchOf(add, ack, now, a)
<1>1. p \in Patches /\ p.add = add /\ p.ack = ack
  BY PatchType
<1> HIDE DEF p
<1>2. /\ PatchMsg(good, p) \in FrontMsgs /\ PatchMsg(good, p).type = "PatchMsg"
      /\ PatchMsg(good, p).patch = p
  BY <1>1, PatchMsgType
<1>3. PatchMsg(good, p).good = good
  BY DEF PatchMsg
<1> QED
  BY <1>1, <1>2, <1>3 DEF p

LEMMA ReceiveRequestShown ==
  ASSUME TypeInv, OrderInv, ConservedInv, ShowInv, NEW c, NEW ripe, Answered(c, ripe)
  PROVE  ShowInv'
<1>1. /\ toBackend # <<>> /\ Head(toBackend).type = "RequestMsg" /\ toBackend' = Tail(toBackend)
      /\ docState = "ready" /\ docActor \in Locals /\ Author = docActor
      /\ c = Head(toBackend).change /\ c \in Change /\ c.actor = docActor
      /\ ripe = Ripe(held \cup {c}, applied) /\ ripe \in SUBSET Change /\ applied' \in SUBSET Change
      /\ UNCHANGED <<frontVars, stored, docState, docActor, spares, upsets>>
  BY DEF Answered
<1> SUFFICES ASSUME upsets = {}, front.mode # "none"
             PROVE  ShowInv'
  BY <1>1 DEF ShowInv, frontVars
<1>2. /\ Calm /\ held = {} /\ applied \in SUBSET Change /\ Closed(applied)
      /\ toBackend \in Seq(BackMsgs)
  BY ShownNow
<1>3. front.mode = "write" /\ c \in Sent(toBackend) /\ c \notin applied /\ IsFeedable(c)
  BY <1>2, RequestWrites
<1>4. PICK good \in BOOLEAN :
        /\ applied' = applied \cup ripe /\ hasClock' = good
        /\ toFrontend' = toFrontend \o <<PatchMsg(good, PatchOf(ripe, c, applied', docActor))>>
  BY <1>3 DEF Answered
<1>5. c.seq - 1 = 0 \/ [actor |-> c.actor, seq |-> c.seq - 1] \in applied
  <2>1. Follows(applied, toBackend, docActor, toBackend[1].change.seq - 1, 1)
    BY <1>1, HeadOfQueue, OrderNow DEF Ordered
  <2>2. \A j \in DOMAIN toBackend : ~(j < 1)
    BY <1>2, LenProperties
  <2> QED
    BY <1>1, <2>1, <2>2, HeadOfQueue DEF Follows, Before
<1>6. ripe = {c} /\ c.seq > Latest(applied, c.actor)
  <2>1. c.seq > Latest(applied, c.actor)
    BY <1>3 DEF IsFeedable
  <2>2. Ripe({c}, applied) = {c}
    BY <1>1, <1>2, <1>5, <2>1, NextNumber
  <2>3. held \cup {c} = {c}
    BY <1>2
  <2> QED
    BY <1>1, <2>1, <2>2, <2>3
<1> DEFINE now == applied'
           m == PatchMsg(good, PatchOf(ripe, c, now, docActor))
<1>7. m \in FrontMsgs /\ m.type = "PatchMsg" /\ m.good = good /\ m.patch.add = ripe /\ m.patch.ack = c
  <2>1. c \in Change \cup {NoChange} /\ now \in SUBSET Change /\ ripe \in SUBSET Change
        /\ good \in BOOLEAN
    BY <1>1, <1>4
  <2> HIDE DEF now
  <2> QED
    BY <2>1, PatchSent
<1>8. toFrontend' = toFrontend \o <<m>>
  BY <1>4
<1> HIDE DEF m
<1>9. applied' = applied \cup m.patch.add /\ (Armed' => Fine(m))
  BY <1>1, <1>4, <1>6, <1>7 DEF Armed, Fine
<1>10. /\ Sent(toBackend') \subseteq Sent(toBackend)
       /\ \A d \in Sent(toBackend) : d \in Sent(toBackend') \/ d = c
  BY <1>1, TakenSent
<1>11. UNCHANGED frontVars /\ c \in m.patch.add
  BY <1>1, <1>6, <1>7
<1> QED
  BY <1>3, <1>6, <1>7, <1>8, <1>9, <1>10, <1>11, BackShown

LEMMA RemoteChangeShown ==
  ASSUME TypeInv, OrderInv, ConservedInv, ShowInv, RemoteChange
  PROVE  ShowInv'
<1> DEFINE late == Arriving(applied, 1)
           now == applied'
<1>1. /\ docState = "ready" /\ Latest(applied, Remote) < MaxRemote /\ now = applied \cup late
      /\ UNCHANGED <<frontVars, toBackend, stored, docState, docActor, held, feed, spares, upsets>>
  BY DEF RemoteChange
<1>2. PICK good \in BOOLEAN :
        /\ hasClock' = good
        /\ toFrontend' = toFrontend \o <<PatchMsg(good, PatchOf(late, NoChange, now, docActor))>>
  BY BackTypesNow DEF RemoteChange, Notify, Good
<1> SUFFICES ASSUME upsets = {}, front.mode # "none"
             PROVE  ShowInv'
  BY <1>1 DEF ShowInv, frontVars
<1>3. applied \in SUBSET Change
  BY BackTypesNow
<1>4. late \in SUBSET Change /\ late # {}
  <2> DEFINE k == Latest(applied, Remote)
             d == [actor |-> Remote, seq |-> k + 1]
  <2>1. k \in Nat /\ k + 1 \in k..MaxSeq /\ k + 1 \in 1..MaxSeq /\ k + 1 <= MaxRemote
    BY <1>1, <1>3, LatestLemma, NumbersLemma
  <2>2. late = ToSet(ChangesOf(Remote, k, k + 1))
    BY DEF Arriving
  <2> HIDE DEF k
  <2>3. \A c : c \in ToSet(ChangesOf(Remote, k, k + 1)) <=>
               c \in Change /\ c.actor = Remote /\ c.seq \in (k + 1)..(k + 1)
    BY <2>1, ChangesOfSet
  <2>4. d \in Change /\ d.actor = Remote /\ d.seq \in (k + 1)..(k + 1)
    BY <2>1, ChangeType
  <2> QED
    BY <2>2, <2>3, <2>4
<1> DEFINE m == PatchMsg(good, PatchOf(late, NoChange, now, docActor))
<1>5. /\ m \in FrontMsgs /\ m.type = "PatchMsg" /\ m.good = good
      /\ m.patch.add = late /\ m.patch.ack = NoChange
  <2>1. NoChange \in Change \cup {NoChange} /\ now \in SUBSET Change
    BY <1>1, <1>3, <1>4
  <2> HIDE DEF now, late
  <2> QED
    BY <1>4, <2>1, PatchSent
<1>6. toFrontend' = toFrontend \o <<m>>
  BY <1>2
<1> HIDE DEF m, late
<1>7. applied' = applied \cup m.patch.add
  BY <1>1, <1>5
<1>8. Armed' => Fine(m)
  BY <1>1, <1>2, <1>4, <1>5 DEF Armed, Fine
<1>9. Sent(toBackend') = Sent(toBackend) /\ UNCHANGED frontVars
  BY <1>1
<1> QED
  BY <1>5, <1>6, <1>7, <1>8, <1>9, BackShown

LEMMA LoadShown ==
  ASSUME TypeInv, OrderInv, ConservedInv, ShowInv, NEW n \in 0..1, Load(n)
  PROVE  ShowInv'
<1> SUFFICES ASSUME upsets = {}, front.mode # "none", n = 0
             PROVE  ShowInv'
  <2>1. upsets' = {} => upsets = {} /\ n = 0
    BY DEF Load
  <2>2. UNCHANGED front
    BY DEF Load, frontVars
  <2> QED
    BY <2>1, <2>2 DEF ShowInv
<1>1. /\ docState' = "ready" /\ applied' = stored \cup Arriving(stored, 0)
      /\ UNCHANGED <<frontVars, toBackend>>
  BY DEF Load
<1>2. docState = "loading" /\ Author = NoActor /\ docActor' \in Locals
  BY LoadType
<1>3. front.mode = "pending" /\ applied = {} /\ stored \in SUBSET Change
  <2>1. front.actor = NoActor
    BY <1>2, BackTypesNow
  <2> QED
    BY <1>2, <2>1, ShownNow, NumbersLemma, BackTypesNow, StoresLemma
<1>4. Arriving(stored, 0) = {}
  <2> DEFINE k == Latest(stored, Remote)
  <2>1. k \in 0..MaxSeq
    BY <1>3, LatestLemma
  <2>2. Arriving(stored, 0) = ToSet(ChangesOf(Remote, k, k + 0))
    BY DEF Arriving
  <2> HIDE DEF k
  <2>3. k \in Nat /\ k + 0 = k /\ k \in k..MaxSeq /\ Remote \in Locals \cup {Remote}
    BY <2>1, NumbersLemma
  <2>4. \A c : c \in ToSet(ChangesOf(Remote, k, k)) <=>
               c \in Change /\ c.actor = Remote /\ c.seq \in (k + 1)..k
    BY <2>3, ChangesOfSet
  <2>5. (k + 1)..k = {}
    BY <2>3
  <2> QED
    BY <2>2, <2>3, <2>4, <2>5
<1>5. PICK good \in BOOLEAN :
        /\ hasClock => good
        /\ hasClock' = hasClock
        /\ toFrontend' = toFrontend \o
             <<ReadyMsg(good, docActor', TRUE, PatchOf(stored, NoChange, stored, docActor'))>>
  <2> DEFINE late == Arriving(stored, n)
  <2>1. \E first \in BOOLEAN : \E good \in Good(hasClock \/ (n > 0 /\ first)) :
          /\ hasClock' = (hasClock \/ (n > 0 /\ first))
          /\ toFrontend' = toFrontend \o
               ((IF n > 0 THEN <<PatchMsg(first, PatchOf(late, NoChange, applied', docActor'))>> ELSE <<>>)
                \o <<ReadyMsg(good, docActor', TRUE, PatchOf(stored, NoChange, stored, docActor'))>>)
    <3>1. Good(hasClock) \subseteq BOOLEAN
      BY DEF Good
    <3> QED
      BY <3>1 DEF Load, Notify
  <2>2. \A first \in BOOLEAN : (hasClock \/ (n > 0 /\ first)) = hasClock
    BY BackTypesNow
  <2>3. \A good \in Good(hasClock) : good \in BOOLEAN /\ (hasClock => good)
    BY BackTypesNow DEF Good
  <2>4. \A m : <<>> \o <<m>> = <<m>>
    OBVIOUS
  <2>5. \A m : (IF n > 0 THEN <<m>> ELSE <<>>) = <<>>
    OBVIOUS
  <2> HIDE DEF late
  <2> QED
    BY <2>1, <2>2, <2>3, <2>4, <2>5
<1> DEFINE a == docActor'
           p == PatchOf(stored, NoChange, stored, a)
           m == ReadyMsg(good, a, TRUE, p)
<1>6. p \in Patches /\ p.add = stored /\ p.ack = NoChange
  BY <1>3, PatchType
<1>7. toFrontend' = toFrontend \o <<m>> /\ a \in Locals
  BY <1>2, <1>5
<1> HIDE DEF p, a
<1>8. /\ m \in FrontMsgs /\ m.type = "ReadyMsg" /\ m.good = good /\ m.some
      /\ m.patch.add = stored /\ m.patch.ack = NoChange
  BY <1>6, <1>7, ReadyMsgType DEF ReadyMsg
<1> HIDE DEF m
<1>9. applied' = applied \cup m.patch.add
  BY <1>1, <1>3, <1>4, <1>8
<1>10. Armed /\ (Armed' => hasClock)
  BY <1>1, <1>2, <1>5 DEF Armed
<1>11. Armed' => Fine(m) \/ (Armed /\ m.patch.add = {})
  BY <1>5, <1>8, <1>10 DEF Fine
<1>12. Sent(toBackend') = Sent(toBackend) /\ UNCHANGED frontVars
  BY <1>1
<1> QED
  BY <1>2, <1>3, <1>7, <1>8, <1>9, <1>11, <1>12, BackShown

LEMMA StepShown ==
  ASSUME TypeInv, OrderInv, ConservedInv, ShowInv, ConservedInv', [Next]_vars
  PROVE  ShowInv'
<1>1. CASE Create
  BY <1>1, CreateShown
<1>2. CASE Open
  BY <1>2, OpenShown
<1>3. CASE Watch
  BY <1>3, WatchShown
<1>4. CASE QueueChange
  BY <1>4, QueueChangeShown
<1>5. CASE Destroy
  BY <1>5 DEF Destroy, NewFrontend, ShowInv
<1>6. CASE \E n \in 1..2 : WriteChange(n)
  BY <1>6, WriteChangeShown
<1>7. CASE \E n \in 0..1 : Load(n)
  BY <1>7, LoadShown
<1>8. CASE RemoteChange
  BY <1>8, RemoteChangeShown
<1>9. CASE ReceiveCreate
  BY <1>9, ReceiveCreateShown
<1>10. CASE ReceiveOpen
  BY <1>10, ReceiveOpenShown
<1>11. CASE ReceiveNeedsActorId
  BY <1>11, ReceiveNeedsActorIdShown
<1>12. CASE ReceiveRequest
  BY <1>12, AnsweredLemma, ReceiveRequestShown
<1>13. CASE ReceiveReady
  BY <1>13, ReceiveReadyShown
<1>14. CASE ReceivePatch
  BY <1>14, ReceivePatchShown
<1>15. CASE ReceiveActorId
  BY <1>15, ReceiveActorIdShown
<1>16. CASE UNCHANGED vars
  <2>1. UNCHANGED <<front, destroys, toBackend, toFrontend, applied, hasClock, docState, upsets>>
    BY <1>16 DEF vars, frontVars, backendVars
  <2> QED
    BY <2>1 DEF ShowInv, Armed
<1> QED
  BY <1>1, <1>2, <1>3, <1>4, <1>5, <1>6, <1>7, <1>8, <1>9, <1>10, <1>11, <1>12, <1>13, <1>14, <1>15, <1>16
  DEF Next, Deliver

LEMMA ShowHolds == Spec => []ShowInv
<1>1. Init => ShowInv
  BY DEF Init, NewFrontend, ShowInv
<1>2. TypeInv /\ OrderInv /\ ConservedInv /\ ConservedInv' /\ ShowInv /\ [Next]_vars => ShowInv'
  BY StepShown
<1> QED
  BY <1>1, <1>2, TypesHold, OrderHolds, ConservedInvHolds, PTL DEF Spec

\* Nothing is on its way: what is applied is shown, every request was answered,
\* and a watched document has told it.
LEMMA QuietShown ==
  ASSUME TypeInv, OrderInv, ConservedInv, ShowInv, upsets = {}, front.mode # "none", Quiet
  PROVE  /\ front.shown = applied /\ front.requests = <<>>
         /\ hasClock => Told(front)
<1>1. /\ front \in Fronts /\ front.mode \in {"pending", "write"}
      /\ front.mode = "pending" => front.requests = <<>>
      /\ Shows(front, toFrontend, applied, Armed)
      /\ front.mode = "write" => Answers(front, toBackend, toFrontend)
  BY ShownNow
<1>2. toBackend = <<>> /\ DOMAIN toFrontend = {} /\ Adds(toFrontend) = {}
  BY EmptySeq DEF Quiet, Adds
<1>3. Sent(toBackend) = {}
  BY <1>2, EmptySeq DEF Sent, Places
<1>4. front.requests = <<>>
  <2> SUFFICES ASSUME front.mode = "write"
               PROVE  front.requests = <<>>
    BY <1>1
  <2>1. /\ front.seq \in Nat /\ Len(front.requests) \in Nat
        /\ front.seq = LastAnswer(front) + Len(front.requests) /\ front.requests \in Seq(Change)
    BY <1>1, AnswerNumbers
  <2>2. LastAnswer(front) \in Nat /\ ~(front.seq > LastAnswer(front))
    <3>1. Answers(front, toBackend, toFrontend)
      BY <1>1
    <3>2. front.seq > LastAnswer(front) =>
            LET c == [actor |-> front.actor, seq |-> front.seq]
            IN c \in Sent(toBackend) \/ \E i \in DOMAIN toFrontend : toFrontend[i].patch.ack = c
      <4>1. front.seq <= front.seq
        BY <2>1
      <4> QED
        BY <2>1, <3>1, <4>1 DEF Answers
    <3> QED
      BY <1>2, <1>3, <3>1, <3>2 DEF Answers
  <2>3. Len(front.requests) = 0
    BY <2>1, <2>2
  <2> QED
    BY <2>1, <2>3, EmptySeq
<1>5. front.shown = applied /\ (hasClock => Told(front))
  BY <1>1, <1>2 DEF Shows, Armed
<1> QED
  BY <1>4, <1>5

\* When nothing is on its way, a document that may be read shows what the
\* backend has, and every request of its user was answered: patches and the
\* answers to requests come in one queue, each patch answers the first request
\* that is still waiting, and the ReadyMsg brings what was there before.  It is
\* so unless a patch overtakes the ReadyMsg, a change is made in the callback
\* of another, or the document is opened a second time.  (Frontend.applyPatch,
\* DocFrontend.patch, DocBackend.updateQ)
THEOREM UndisturbedHolds == Spec => []UndisturbedShowsDocument
<1>1. TypeInv /\ OrderInv /\ ConservedInv /\ ShowInv => UndisturbedShowsDocument
  BY QuietShown DEF UndisturbedShowsDocument, ShowsDocument
<1> QED
  BY <1>1, TypesHold, OrderHolds, ConservedInvHolds, ShowHolds, PTL

\* The callback of a watched document was last given what the document shows:
\* a patch that is held back because the minimum clock was not satisfied yet is
\* followed by one that is not, and a change of the user tells her at once.
\* (newState, handle, documentNotify)
THEOREM WatcherHolds == Spec => []WatcherUpToDate
<1>1. TypeInv /\ OrderInv /\ ConservedInv /\ ShowInv => WatcherUpToDate
  <2> SUFFICES ASSUME TypeInv, OrderInv, ConservedInv, ShowInv,
                      Quiet, upsets = {}, hasClock, front.watched, front.ready
               PROVE  front.told = [seen |-> TRUE, state |-> applied]
    BY DEF WatcherUpToDate
  <2>1. front.mode # "none"
    BY DEF TypeInv, FrontInv, NewFrontend
  <2>2. front.shown = applied /\ front.requests = <<>> /\ Told(front)
    BY <2>1, QuietShown
  <2>3. View(front) = applied
    <3>1. ToSet(<<>>) = {}
      BY EmptySeq DEF ToSet
    <3> QED
      BY <2>2, <3>1 DEF View
  <2> QED
    BY <2>2, <2>3 DEF Told
<1> QED
  BY <1>1, TypesHold, OrderHolds, ConservedInvHolds, ShowHolds, PTL

=============================================================================
