------------------------- MODULE NetworkPeerProofs -------------------------
(***************************************************************************)
(* Theorems about NetworkPeer, for any number of connections: what two     *)
(* peers do about them is a PeerLink, a peer that closes lets go of them,  *)
(* and one that may be used is always found.                               *)
(***************************************************************************)
EXTENDS NetworkPeer, Integers, SequenceTheorems, WellFoundedInduction, TLAPS

\* The two sides.
LEMMA SidesLemma ==
  /\ Authority \in Sides /\ Other \in Sides /\ Authority # Other
  /\ Peer(Authority) = Other /\ Peer(Other) = Authority
  /\ \A s \in Sides : s = Authority \/ s = Other
  BY DEF Sides, Authority, Other, Peer

LEMMA PeerLemma ==
  ASSUME NEW s \in Sides
  PROVE  Peer(s) \in Sides /\ Peer(s) # s /\ Peer(Peer(s)) = s
  BY DEF Sides, Authority, Other, Peer

-----------------------------------------------------------------------------
(* Sets that keep the order in which their elements were added *)

LEMMA LeastNat ==
  ASSUME NEW T \in SUBSET Nat, T # {}
  PROVE  \E n \in T : \A m \in T : n <= m
<1>1. PICK n \in T : \A m \in T : ~(<<m, n>> \in OpToRel(<, Nat))
  BY NatLessThanWellFounded, WFMin
<1>2. \A m \in T : ~(m < n)
  BY <1>1 DEF OpToRel
<1> QED
  BY <1>2

Distinct(conns) == \A i, j \in 1..Len(conns) : conns[i] = conns[j] => i = j

LEMMA AddedLemma ==
  ASSUME NEW conns \in Seq(Conns), NEW c \in Conns
  PROVE  /\ Added(conns, c) \in Seq(Conns)
         /\ \A x : Contains(Added(conns, c), x) <=> Contains(conns, x) \/ x = c
         /\ Distinct(conns) => Distinct(Added(conns, c))
<1>1. CASE Contains(conns, c)
  BY <1>1 DEF Added
<1>2. CASE ~Contains(conns, c)
  <2>1. /\ Append(conns, c) \in Seq(Conns)
        /\ Len(Append(conns, c)) = Len(conns) + 1 /\ Len(conns) \in Nat
        /\ \A i \in 1..Len(conns) : Append(conns, c)[i] = conns[i]
        /\ Append(conns, c)[Len(conns) + 1] = c
    BY AppendProperties, LenProperties
  <2> QED
    BY <1>2, <2>1 DEF Added, Contains, Distinct
<1> QED
  BY <1>1, <1>2

LEMMA RemoveLemma ==
  ASSUME NEW conns \in Seq(Conns), NEW c
  PROVE  /\ RemoveFirst(conns, c) \in Seq(Conns)
         /\ \A x : Contains(RemoveFirst(conns, c), x) => Contains(conns, x)
         /\ \A x : Contains(conns, x) /\ x # c => Contains(RemoveFirst(conns, c), x)
         /\ Distinct(conns) =>
              Distinct(RemoveFirst(conns, c)) /\ ~Contains(RemoveFirst(conns, c), c)
<1> DEFINE n == Len(conns)
           I == {i \in 1..n : conns[i] = c}
<1>0. n \in Nat /\ (\A i \in 1..n : conns[i] \in Conns) /\ I \in SUBSET Nat
  BY LenProperties
<1>1. CASE I = {}
  <2>1. ~Contains(conns, c)
    BY <1>1 DEF Contains
  <2> QED
    BY <2>1 DEF RemoveFirst, Contains
<1>2. CASE I # {}
  <2> DEFINE k == Min(I)
             r == RemoveAt(conns, k)
  <2>1. k \in I
    <3>1. \E i \in I : \A j \in I : i <= j
      BY <1>0, <1>2, LeastNat
    <3> QED
      BY <3>1 DEF Min
  <2> HIDE DEF k
  <2>2. RemoveFirst(conns, c) = r
    BY <1>2 DEF RemoveFirst, SelectInSeq, k
  <2> DEFINE a == SubSeq(conns, 1, k - 1)
             b == SubSeq(conns, k + 1, n)
  <2>3. /\ a \in Seq(Conns) /\ Len(a) = k - 1
        /\ \A i \in 1..(k - 1) : a[i] = conns[i]
    BY <1>0, <2>1, SubSeqProperties
  <2>4. /\ b \in Seq(Conns) /\ Len(b) = n - k
        /\ \A i \in 1..(n - k) : b[i] = conns[k + i]
    BY <1>0, <2>1, SubSeqProperties
  <2> HIDE DEF a, b
  <2>5. /\ r \in Seq(Conns) /\ Len(r) = n - 1
        /\ \A i \in 1..(n - 1) : r[i] = IF i < k THEN conns[i] ELSE conns[i + 1]
    <3>1. r = a \o b
      BY DEF RemoveAt, a, b
    <3> HIDE DEF r
    <3>2. /\ r \in Seq(Conns) /\ Len(r) = Len(a) + Len(b)
          /\ \A i \in 1..(Len(a) + Len(b)) : r[i] = IF i <= Len(a) THEN a[i] ELSE b[i - Len(a)]
      BY <2>3, <2>4, <3>1, ConcatProperties
    <3>3. Len(a) + Len(b) = n - 1 /\ k \in 1..n
      BY <1>0, <2>1, <2>3, <2>4
    <3>4. ASSUME NEW i \in 1..(n - 1)
          PROVE  r[i] = IF i < k THEN conns[i] ELSE conns[i + 1]
      <4>1. CASE i < k
        <5>1. i \in 1..(k - 1) /\ i <= Len(a)
          BY <1>0, <2>3, <3>3, <4>1
        <5> QED
          BY <2>3, <3>2, <3>3, <4>1, <5>1
      <4>2. CASE ~(i < k)
        <5>1. i - (k - 1) \in 1..(n - k) /\ ~(i <= Len(a)) /\ k + (i - (k - 1)) = i + 1
          BY <1>0, <2>3, <3>3, <4>2
        <5>2. r[i] = b[i - (k - 1)]
          BY <2>3, <3>2, <3>3, <5>1
        <5>3. r[i] = conns[k + (i - (k - 1))]
          BY <2>4, <5>1, <5>2
        <5> QED
          BY <4>2, <5>1, <5>3
      <4> QED
        BY <4>1, <4>2
    <3> QED
      BY <3>2, <3>3, <3>4
  <2> HIDE DEF r
  <2>6. \A x : Contains(r, x) => Contains(conns, x)
    BY <1>0, <2>1, <2>5 DEF Contains
  <2>7. ASSUME NEW x, Contains(conns, x), x # c
        PROVE  Contains(r, x)
    <3>1. PICK i \in 1..n : conns[i] = x
      BY <2>7 DEF Contains
    <3>2. i # k
      BY <2>1, <2>7, <3>1
    <3>3. CASE i < k
      <4>1. i \in 1..(n - 1) /\ r[i] = x
        BY <1>0, <2>1, <2>5, <3>1, <3>3
      <4> QED
        BY <2>5, <4>1 DEF Contains
    <3>4. CASE i > k
      <4>1. i - 1 \in 1..(n - 1) /\ r[i - 1] = conns[i]
        BY <1>0, <2>1, <2>5, <3>1, <3>4
      <4> QED
        BY <2>5, <3>1, <4>1 DEF Contains
    <3> QED
      BY <1>0, <2>1, <3>2, <3>3, <3>4
  <2>8. ASSUME Distinct(conns)
        PROVE  Distinct(r) /\ ~Contains(r, c)
    <3>1. n \in Nat /\ k \in 1..n /\ conns[k] = c
      BY <1>0, <2>1
    <3> HIDE DEF n
    <3>2. \A i, j \in 1..n : conns[i] = conns[j] => i = j
      BY <2>8 DEF Distinct, n
    <3> DEFINE f(i) == IF i < k THEN i ELSE i + 1
    <3>3. \A i \in 1..(n - 1) : f(i) \in 1..n /\ f(i) # k /\ r[i] = conns[f(i)]
      BY <2>5, <3>1
    <3>4. \A i, j \in 1..(n - 1) : f(i) = f(j) => i = j
      BY <3>1
    <3> HIDE DEF f
    <3>5. \A i, j \in 1..(n - 1) : r[i] = r[j] => i = j
      BY <3>2, <3>3, <3>4
    <3>6. \A i \in 1..(n - 1) : r[i] # c
      BY <3>1, <3>2, <3>3
    <3> QED
      BY <2>5, <3>5, <3>6 DEF Distinct, Contains
  <2> QED
    BY <2>2, <2>5, <2>6, <2>7, <2>8
<1> QED
  BY <1>1, <1>2

\* The first pending connection that is open.
LEMMA FirstLemma ==
  ASSUME NEW conns \in Seq(Conns), NEW s \in Sides
  PROVE  LET first == FirstOpen(s, conns)
         IN \/ first = 0 /\ \A c : Contains(conns, c) => ~IsOpen(s, c)
            \/ /\ first # 0
               /\ conns[first] \in Conns /\ Contains(conns, conns[first])
               /\ IsOpen(s, conns[first])
<1> DEFINE I == {i \in 1..Len(conns) : IsOpen(s, conns[i])}
           first == FirstOpen(s, conns)
<1>0. (\A i \in 1..Len(conns) : conns[i] \in Conns) /\ I \in SUBSET Nat
  BY LenProperties
<1>1. first = IF I # {} THEN Min(I) ELSE 0
  BY DEF FirstOpen, SelectInSeq
<1> HIDE DEF first
<1>2. CASE I = {}
  BY <1>1, <1>2 DEF Contains, first
<1>3. CASE I # {}
  <2>1. \E i \in I : \A j \in I : i <= j
    BY <1>0, <1>3, LeastNat
  <2>2. first \in I
    BY <1>1, <1>3, <2>1 DEF Min
  <2>3. first # 0 /\ conns[first] \in Conns /\ IsOpen(s, conns[first]) /\ first \in 1..Len(conns)
    BY <1>0, <2>2, LenProperties
  <2>4. Contains(conns, conns[first])
    BY <2>3 DEF Contains
  <2> QED
    BY <2>3, <2>4 DEF first
<1> QED
  BY <1>2, <1>3

-----------------------------------------------------------------------------
(* The invariant *)

\* What may be on its way to an end: the Info of the other end, and after it
\* the confirmation.
Queues == {<<>>, <<"Info">>, <<"ConfirmConnection">>, <<"Info", "ConfirmConnection">>}

HasInfo(s, c)    == Contains(wire[s][c], "Info")
HasConfirm(s, c) == Contains(wire[s][c], "ConfirmConnection")

Types ==
  /\ socket \in [Sides -> [Conns -> {"none", "open", "ended", "closed"}]]
  /\ wire \in [Sides -> [Conns -> Queues]]
  /\ pending \in [Sides -> Seq(Conns)]
  /\ connection \in [Sides -> Conns \cup {None}]
  /\ isClosing \in [Sides -> BOOLEAN]
  /\ known \subseteq Sides /\ left \subseteq Sides
  /\ late \in LateDelivery

\* Messages are on the way only from an end that was open to one that may
\* still read them, and Info is there until it is read.
WireInv(s, c) ==
  /\ HasInfo(s, c) \/ HasConfirm(s, c) =>
       socket[Peer(s)][c] # "none" /\ socket[s][c] \in {"none", "open"}
  /\ socket[s][c] = "none" /\ socket[Peer(s)][c] = "open" => HasInfo(s, c)
  /\ socket[s][c] = "ended" => socket[Peer(s)][c] \in {"ended", "closed"}

\* What a side holds was introduced and not closed, and is either in use or
\* pending.
HeldInv(s, c) ==
  /\ IsHeld(s, c) =>
       /\ socket[s][c] \in {"open", "ended"} /\ socket[Peer(s)][c] # "none"
       /\ ~HasInfo(s, c) /\ s \in known
  /\ ~(connection[s] = c /\ Contains(pending[s], c))

\* A confirmation on its way is of the connection that the authority uses, or
\* has closed since if it is late; and the other side has yet to take it.
ConfirmInv(c) ==
  /\ ~HasConfirm(Authority, c)
  /\ HasConfirm(Other, c) =>
       /\ connection[Authority] = c \/ (late /\ socket[Authority][c] = "closed")
       /\ HasInfo(Other, c) \/ Contains(pending[Other], c)

\* The other side uses what the authority uses, or what is dead there.
FollowInv(c) ==
  connection[Other] = c =>
    connection[Authority] = c \/ socket[Authority][c] \in {"ended", "closed"}

\* What the authority may still take, the other side has not taken.
UntakenInv(c) ==
  (/\ HasInfo(Authority, c) \/ Contains(pending[Authority], c)
   /\ socket[Authority][c] # "none" /\ socket[Other][c] = "open")
  => HasInfo(Other, c) \/ Contains(pending[Other], c)

LinkInv ==
  /\ Types
  /\ \A s \in Sides : Distinct(pending[s])
  /\ \A s \in Sides, c \in Conns : WireInv(s, c) /\ HeldInv(s, c)
  /\ \A c \in Conns : ConfirmInv(c) /\ FollowInv(c) /\ UntakenInv(c)
  /\ ClosingHoldsNothing

LEMMA QueueLemma ==
  /\ <<>> \in Queues /\ \A x : ~Contains(<<>>, x)
  /\ \A q \in Queues :
       /\ q # <<>> /\ Head(q) = "Info" =>
            /\ Tail(q) \in Queues /\ Contains(q, "Info") /\ ~Contains(Tail(q), "Info")
            /\ Contains(Tail(q), "ConfirmConnection") <=> Contains(q, "ConfirmConnection")
       /\ q # <<>> /\ Head(q) = "ConfirmConnection" =>
            Tail(q) = <<>> /\ ~Contains(q, "Info") /\ Contains(q, "ConfirmConnection")
       /\ q # <<>> => Contains(q, "Info") \/ Contains(q, "ConfirmConnection")
       /\ ~Contains(q, "ConfirmConnection") =>
            LET r == Append(q, "ConfirmConnection")
            IN r \in Queues /\ Contains(r, "ConfirmConnection") /\ (Contains(r, "Info") <=> Contains(q, "Info"))
  /\ LET r == Append(<<>>, "Info")
     IN r \in Queues /\ Contains(r, "Info") /\ ~Contains(r, "ConfirmConnection")
<1> DEFINE I == <<"Info">>
           C == <<"ConfirmConnection">>
           IC == <<"Info", "ConfirmConnection">>
<1>1. /\ \A x : ~Contains(<<>>, x)
      /\ Contains(I, "Info") /\ ~Contains(I, "ConfirmConnection")
      /\ Contains(C, "ConfirmConnection") /\ ~Contains(C, "Info")
      /\ Contains(IC, "Info") /\ Contains(IC, "ConfirmConnection")
  BY DEF Contains
<1>2. /\ I # <<>> /\ C # <<>> /\ IC # <<>>
      /\ Head(I) = "Info" /\ Head(C) = "ConfirmConnection" /\ Head(IC) = "Info"
      /\ Tail(I) = <<>> /\ Tail(C) = <<>> /\ Tail(IC) = C
  OBVIOUS
<1>3. /\ Append(<<>>, "Info") = I /\ Append(<<>>, "ConfirmConnection") = C
      /\ Append(I, "ConfirmConnection") = IC
  <2>1. Append(<<>>, "Info") = I
    OBVIOUS
  <2>2. Append(<<>>, "ConfirmConnection") = C
    OBVIOUS
  <2>3. Append(I, "ConfirmConnection") = IC
    <3> DEFINE S == {"Info", "ConfirmConnection"}
               r == Append(I, "ConfirmConnection")
    <3>1. I \in Seq(S) /\ Len(I) = 1 /\ I[1] = "Info"
      OBVIOUS
    <3>2. IC \in Seq(S) /\ Len(IC) = 2 /\ IC[1] = "Info" /\ IC[2] = "ConfirmConnection"
      OBVIOUS
    <3>3. /\ r \in Seq(S) /\ Len(r) = Len(I) + 1
          /\ (\A i \in 1..Len(I) : r[i] = I[i]) /\ r[Len(I) + 1] = "ConfirmConnection"
      <4>1. "ConfirmConnection" \in S
        OBVIOUS
      <4>2. ASSUME NEW T, NEW q \in Seq(T), NEW e \in T
            PROVE  /\ Append(q, e) \in Seq(T) /\ Len(Append(q, e)) = Len(q) + 1
                   /\ (\A i \in 1..Len(q) : Append(q, e)[i] = q[i])
                   /\ Append(q, e)[Len(q) + 1] = e
        BY AppendProperties
      <4> HIDE DEF I, S
      <4> QED
        BY <3>1, <4>1, <4>2, Zenon
    <3> HIDE DEF I, IC, r, S
    <3>4. \A i \in 1..Len(r) : r[i] = IC[i]
      BY <3>1, <3>2, <3>3
    <3>5. r = IC
      BY <3>1, <3>2, <3>3, <3>4, SeqEqual
    <3> QED
      BY <3>5 DEF r
  <2> QED
    BY <2>1, <2>2, <2>3
<1> HIDE DEF I, C, IC
<1>4. Queues = {<<>>, I, C, IC}
  BY DEF Queues, I, C, IC
<1>5. "Info" # "ConfirmConnection"
  OBVIOUS
<1> QED
  BY <1>1, <1>2, <1>3, <1>4, <1>5, Zenon

LEMMA TypesLemma == Types => TypeOK
<1>1. Queues \subseteq Seq({"Info", "ConfirmConnection"})
  BY DEF Queues
<1> QED
  BY <1>1 DEF Types, TypeOK

-----------------------------------------------------------------------------
(* What the operators do to each end *)

LEMMA ClosedLemma ==
  ASSUME Types, NEW s \in Sides, NEW C
  PROVE  /\ Closed(s, C) \in [Sides -> [Conns -> {"none", "open", "ended", "closed"}]]
         /\ \A t \in Sides, d \in Conns :
              Closed(s, C)[t][d] = IF t = s /\ d \in C THEN "closed" ELSE socket[t][d]
  BY DEF Closed, Types

LEMMA DrainedLemma ==
  ASSUME NEW w \in [Sides -> [Conns -> Queues]], NEW s \in Sides, NEW C
  PROVE  /\ Drained(w, s, C) \in [Sides -> [Conns -> Queues]]
         /\ \A t \in Sides, d \in Conns :
              Drained(w, s, C)[t][d] = IF d \in C /\ (t = s \/ ~late) THEN <<>> ELSE w[t][d]
<1>1. <<>> \in Queues
  BY QueueLemma
<1> QED
  BY <1>1 DEF Drained

\* A message that is read, and the queue after it.
LEMMA ReadLemma ==
  ASSUME Types, NEW s \in Sides, NEW c \in Conns, wire[s][c] # <<>>,
         Head(wire[s][c]) \in {"Info", "ConfirmConnection"}
  PROVE  LET w == [wire EXCEPT ![s][c] = Tail(@)]
         IN /\ w \in [Sides -> [Conns -> Queues]]
            /\ \A t \in Sides, d \in Conns :
                 w[t][d] = IF t = s /\ d = c THEN Tail(wire[s][c]) ELSE wire[t][d]
<1>1. wire[s][c] \in Queues
  BY DEF Types
<1>2. Tail(wire[s][c]) \in Queues
  BY <1>1, QueueLemma
<1> QED
  BY <1>2 DEF Types

LEMMA ConfirmLemma ==
  ASSUME Types, NEW s \in Sides, NEW c \in Conns, NEW conns \in Seq(Conns), Distinct(conns),
         NEW w \in [Sides -> [Conns -> Queues]], ~Contains(w[Other][c], "ConfirmConnection"),
         Confirm(s, c, conns, w)
  PROVE  /\ wire' \in [Sides -> [Conns -> Queues]]
         /\ \A t \in Sides, d \in Conns :
              wire'[t][d] = IF /\ s = Authority /\ t = Other /\ d = c
                               /\ socket[Other][c] \in {"none", "open"}
                            THEN Append(w[t][d], "ConfirmConnection") ELSE w[t][d]
         /\ connection' \in [Sides -> Conns \cup {None}]
         /\ \A t \in Sides : connection'[t] = IF t = s THEN c ELSE connection[t]
         /\ pending' \in [Sides -> Seq(Conns)]
         /\ \A t \in Sides : t # s => pending'[t] = pending[t]
         /\ Distinct(pending'[s])
         /\ \A d \in Conns : Contains(pending'[s], d) <=> Contains(conns, d) /\ d # c
<1>1. /\ connection' \in [Sides -> Conns \cup {None}]
      /\ \A t \in Sides : connection'[t] = IF t = s THEN c ELSE connection[t]
  BY DEF Confirm, Types
<1>2. /\ pending' \in [Sides -> Seq(Conns)]
      /\ \A t \in Sides : pending'[t] = IF t = s THEN RemoveFirst(conns, c) ELSE pending[t]
  BY RemoveLemma DEF Confirm, Types
<1>3. /\ Distinct(pending'[s])
      /\ \A d \in Conns : Contains(pending'[s], d) <=> Contains(conns, d) /\ d # c
  BY <1>2, RemoveLemma
<1>4. Append(w[Other][c], "ConfirmConnection") \in Queues
  BY QueueLemma, SidesLemma
<1>5. socket[Other][c] \in {"none", "open"} <=> ~(socket[Other][c] \in {"ended", "closed"})
  BY SidesLemma DEF Types
<1>6. /\ wire' \in [Sides -> [Conns -> Queues]]
      /\ \A t \in Sides, d \in Conns :
           wire'[t][d] = IF /\ s = Authority /\ t = Other /\ d = c
                            /\ socket[Other][c] \in {"none", "open"}
                         THEN Append(w[t][d], "ConfirmConnection") ELSE w[t][d]
  <2>1. CASE s = Authority /\ socket[Other][c] \in {"none", "open"}
    <3>1. wire' = [w EXCEPT ![Other] = [w[Other] EXCEPT ![c] = Append(w[Other][c], "ConfirmConnection")]]
      BY <1>5, <2>1, SidesLemma DEF Confirm, Sent
    <3> QED
      BY <1>4, <2>1, <3>1, SidesLemma
  <2>2. CASE ~(s = Authority /\ socket[Other][c] \in {"none", "open"})
    <3>1. wire' = w
      BY <1>5, <2>2, SidesLemma DEF Confirm, Sent
    <3> QED
      BY <2>2, <3>1
  <2> QED
    BY <2>1, <2>2
<1> QED
  BY <1>1, <1>2, <1>3, <1>6

-----------------------------------------------------------------------------
(* What the steps do to what the properties tell apart *)

\* The end of c at s opens, and tells the other end unless that is gone.
Opens(s, c) ==
  /\ socket[s][c] = "none"
  /\ \A t \in Sides, d \in Conns :
       /\ socket'[t][d] = IF t = s /\ d = c THEN "open" ELSE socket[t][d]
       /\ HasInfo(t, d)' <=>
            \/ HasInfo(t, d)
            \/ t = Peer(s) /\ d = c /\ socket[t][d] \in {"none", "open"}
  /\ UNCHANGED <<pending, connection>>

\* The Info of c is read at s.
Reads(s, c) ==
  /\ socket[s][c] = "open" /\ socket[Peer(s)][c] # "none"
  /\ UNCHANGED socket
  /\ \A t \in Sides, d \in Conns :
       HasInfo(t, d)' <=> HasInfo(t, d) /\ ~(t = s /\ d = c)

\* ... and c is kept pending.
Keeps(s, c) ==
  /\ Reads(s, c)
  /\ HasInfo(s, c) /\ ~MayConfirm(s)
  /\ \A t \in Sides, d \in Conns :
       Contains(pending'[t], d) <=> Contains(pending[t], d) \/ (t = s /\ d = c)
  /\ UNCHANGED connection

\* ... or is not there any more, and c is taken into use.
Takes(s, c) ==
  /\ Reads(s, c)
  /\ \/ s = Authority /\ ~IsConnected(s) /\ HasInfo(s, c)
     \/ /\ s = Other /\ Contains(pending[s], c)
        /\ connection[Authority] = c \/ (late /\ socket[Authority][c] = "closed")
  /\ \A t \in Sides, d \in Conns :
       Contains(pending'[t], d) <=> Contains(pending[t], d) /\ ~(t = s /\ d = c)
  /\ \A t \in Sides : connection'[t] = IF t = s THEN c ELSE connection[t]

\* The socket of c ends at s.
Fails(s, c) ==
  /\ socket[s][c] = "open" /\ socket[Peer(s)][c] \in {"ended", "closed"}
  /\ \A t \in Sides, d \in Conns :
       /\ socket'[t][d] = IF t = s /\ d = c THEN "ended" ELSE socket[t][d]
       /\ HasInfo(t, d)' <=> HasInfo(t, d) /\ ~(t = s /\ d = c)
  /\ UNCHANGED <<pending, connection>>

\* The ends that s has of the connections in C are closed.
Shuts(s, C) ==
  /\ \A d \in C : socket[s][d] # "none"
  /\ \A t \in Sides, d \in Conns :
       /\ socket'[t][d] = IF t = s /\ d \in C THEN "closed" ELSE socket[t][d]
       /\ HasInfo(t, d)' <=> HasInfo(t, d) /\ ~(d \in C /\ (t = s \/ ~late))

\* ... and forgotten, and there is none to take instead.
Drops(s, C) ==
  /\ Shuts(s, C)
  /\ \A t \in Sides, d \in Conns :
       Contains(pending'[t], d) <=> Contains(pending[t], d) /\ ~(t = s /\ d \in C)
  /\ \A t \in Sides :
       connection'[t] = IF t = s /\ connection[s] \in C THEN None ELSE connection[t]
  /\ s = Authority /\ connection[s] \in C =>
       \A d \in Conns \ C : Contains(pending[s], d) => ~IsOpen(s, d)

\* ... or the authority closes c and takes d instead.
Swaps(c, d) ==
  /\ Shuts(Authority, {c})
  /\ connection[Authority] = c /\ d # c
  /\ Contains(pending[Authority], d) /\ IsOpen(Authority, d)
  /\ \A t \in Sides, x \in Conns :
       Contains(pending'[t], x) <=> Contains(pending[t], x) /\ ~(t = Authority /\ x \in {c, d})
  /\ \A t \in Sides : connection'[t] = IF t = Authority THEN d ELSE connection[t]

Effect ==
  \/ \E s \in Sides, c \in Conns :
       Opens(s, c) \/ Keeps(s, c) \/ Takes(s, c) \/ Fails(s, c)
  \/ \E s \in Sides, C \in SUBSET Conns : Drops(s, C)
  \/ \E c, d \in Conns : Swaps(c, d)

-----------------------------------------------------------------------------
(* The invariant is inductive *)

LEMMA LinkInvInit == Init => LinkInv
<1> SUFFICES ASSUME Init PROVE LinkInv
  OBVIOUS
<1>1. /\ <<>> \in Seq(Conns) /\ Len(<<>>) = 0
      /\ <<>> \in Queues /\ \A x : ~Contains(<<>>, x)
  BY QueueLemma, EmptySeq
<1>2. Types
  BY <1>1 DEF Init, Types
<1>3. ASSUME NEW s \in Sides
      PROVE  pending[s] = <<>> /\ connection[s] = None /\ ~isClosing[s]
  BY DEF Init
<1>4. ASSUME NEW s \in Sides, NEW c \in Conns
      PROVE  socket[s][c] = "none" /\ wire[s][c] = <<>> /\ connection[s] # c
  BY <1>3, ConstantsAssumption DEF Init
<1>5. \A s \in Sides : Distinct(pending[s])
  BY <1>1, <1>3 DEF Distinct
<1>6. \A s \in Sides, c \in Conns : WireInv(s, c) /\ HeldInv(s, c)
  BY <1>1, <1>3, <1>4, PeerLemma DEF WireInv, HeldInv, HasInfo, HasConfirm, IsHeld
<1>7. \A c \in Conns : ConfirmInv(c) /\ FollowInv(c) /\ UntakenInv(c)
  BY <1>1, <1>4, SidesLemma DEF ConfirmInv, FollowInv, UntakenInv, HasConfirm
<1> QED
  BY <1>2, <1>3, <1>5, <1>6, <1>7 DEF LinkInv, ClosingHoldsNothing

LEMMA OnConnectionInv ==
  ASSUME LinkInv, NEW s \in Sides, NEW c \in Conns, OnConnection(s, c)
  PROVE  LinkInv' /\ Opens(s, c)
<1> DEFINE p == Peer(s)
           told == socket[p][c] \in {"none", "open"}
<1>0. p \in Sides /\ p # s /\ Peer(p) = s /\ Types /\ WireInv(p, c)
  BY PeerLemma DEF LinkInv
<1>1. wire[p][c] = <<>>
  <2>1. wire[p][c] \in Queues
    BY <1>0 DEF Types
  <2>2. ~HasInfo(p, c) /\ ~HasConfirm(p, c)
    BY <1>0 DEF OnConnection, WireInv
  <2> QED
    BY <2>1, <2>2, QueueLemma DEF HasInfo, HasConfirm
<1>2. /\ socket' \in [Sides -> [Conns -> {"none", "open", "ended", "closed"}]]
      /\ \A t \in Sides, d \in Conns :
           socket'[t][d] = IF t = s /\ d = c THEN "open" ELSE socket[t][d]
      /\ socket[s][c] = "none"
  BY <1>0 DEF OnConnection, Types
<1>3. wire' = IF told THEN [wire EXCEPT ![p] = [wire[p] EXCEPT ![c] = Append(<<>>, "Info")]] ELSE wire
  BY <1>0, <1>1 DEF OnConnection, Sent, Types
<1>4. /\ wire' \in [Sides -> [Conns -> Queues]]
      /\ \A t \in Sides, d \in Conns :
           wire'[t][d] = IF t = p /\ d = c /\ told THEN Append(<<>>, "Info") ELSE wire[t][d]
  <2>1. Append(<<>>, "Info") \in Queues
    BY QueueLemma
  <2> HIDE DEF told, p
  <2> QED
    BY <1>0, <1>3, <2>1 DEF Types
<1>5. \A t \in Sides, d \in Conns :
        /\ HasInfo(t, d)' <=> HasInfo(t, d) \/ (t = p /\ d = c /\ told)
        /\ HasConfirm(t, d)' <=> HasConfirm(t, d)
  BY <1>1, <1>4, QueueLemma DEF HasInfo, HasConfirm
<1>6. UNCHANGED <<pending, connection, isClosing, known, left, late>>
  BY DEF OnConnection
<1>7. Types'
  BY <1>0, <1>2, <1>4, <1>6 DEF Types
<1>8. \A t \in Sides, d \in Conns : WireInv(t, d)'
  <2>1. \A t \in Sides, d \in Conns : WireInv(t, d) /\ socket[t][d] \in {"none", "open", "ended", "closed"}
    BY <1>0 DEF LinkInv, Types
  <2> QED
    BY <1>0, <1>2, <1>5, <2>1, SidesLemma DEF WireInv
<1>9. \A t \in Sides, d \in Conns : HeldInv(t, d)'
  <2>1. \A t \in Sides, d \in Conns : HeldInv(t, d)
    BY DEF LinkInv
  <2>2. \A t \in Sides, d \in Conns : IsHeld(t, d)' <=> IsHeld(t, d)
    BY <1>6 DEF IsHeld
  <2> QED
    BY <1>0, <1>2, <1>5, <1>6, <2>1, <2>2, SidesLemma DEF HeldInv
<1>10. \A d \in Conns : ConfirmInv(d)' /\ FollowInv(d)' /\ UntakenInv(d)'
  <2>1. \A d \in Conns : ConfirmInv(d) /\ FollowInv(d) /\ UntakenInv(d)
    BY DEF LinkInv
  <2>2. \A d \in Conns : ConfirmInv(d)' /\ FollowInv(d)'
    BY <1>2, <1>5, <1>6, <2>1, SidesLemma DEF ConfirmInv, FollowInv
  <2>3. \A d \in Conns : d # c => UntakenInv(d)'
    BY <1>2, <1>5, <1>6, <2>1, SidesLemma DEF UntakenInv
  <2>4. CASE s = Authority
    BY <1>0, <1>2, <1>5, <1>6, <2>2, <2>3, <2>4, SidesLemma DEF UntakenInv
  <2>5. CASE s = Other
    <3>1. socket[Authority][c] = "none" \/ HasInfo(Other, c) \/ ~(socket[Authority][c] = "open")
      BY <1>2, <2>5, SidesLemma DEF LinkInv, WireInv
    <3>2. Contains(pending[Authority], c) => FALSE
      BY <1>2, <2>5, SidesLemma DEF LinkInv, HeldInv, IsHeld
    <3>3. HasInfo(Authority, c) => FALSE
      BY <1>2, <2>5, SidesLemma DEF LinkInv, WireInv
    <3>4. HasInfo(Authority, c)' => socket[Authority][c] \in {"none", "open"}
      BY <1>5, <2>5, <3>3, SidesLemma
    <3>5. UntakenInv(c)'
      BY <1>2, <1>5, <1>6, <2>5, <3>1, <3>2, <3>4, SidesLemma DEF UntakenInv
    <3> QED
      BY <2>2, <2>3, <3>5
  <2> QED
    BY <2>4, <2>5, SidesLemma
<1>11. (\A t \in Sides : Distinct(pending[t]))' /\ ClosingHoldsNothing'
  BY <1>6 DEF LinkInv, ClosingHoldsNothing
<1>12. Opens(s, c)
  BY <1>2, <1>5, <1>6 DEF Opens
<1> QED
  BY <1>7, <1>8, <1>9, <1>10, <1>11, <1>12 DEF LinkInv

\* What is on the way when the Info of c is read at s.
LEMMA InfoReadLemma ==
  ASSUME LinkInv, NEW s \in Sides, NEW c \in Conns, IsOpen(s, c),
         wire[s][c] # <<>>, Head(wire[s][c]) = "Info"
  PROVE  LET w == [wire EXCEPT ![s][c] = Tail(@)]
         IN /\ w \in [Sides -> [Conns -> Queues]]
            /\ \A t \in Sides, d \in Conns :
                 /\ Contains(w[t][d], "Info") <=> HasInfo(t, d) /\ ~(t = s /\ d = c)
                 /\ Contains(w[t][d], "ConfirmConnection") <=> HasConfirm(t, d)
            /\ HasInfo(s, c) /\ ~IsHeld(s, c)
            /\ socket[s][c] = "open" /\ socket[Peer(s)][c] # "none"
            /\ ~HasConfirm(Other, c) \/ s = Other
<1> DEFINE w == [wire EXCEPT ![s][c] = Tail(@)]
<1>1. wire[s][c] \in Queues /\ Types
  BY DEF LinkInv, Types
<1>2. /\ w \in [Sides -> [Conns -> Queues]]
      /\ \A t \in Sides, d \in Conns :
           w[t][d] = IF t = s /\ d = c THEN Tail(wire[s][c]) ELSE wire[t][d]
  BY <1>1, ReadLemma
<1>3. /\ HasInfo(s, c) /\ ~Contains(w[s][c], "Info")
      /\ Contains(w[s][c], "ConfirmConnection") <=> HasConfirm(s, c)
  BY <1>1, <1>2, QueueLemma DEF HasInfo, HasConfirm
<1>4. ~IsHeld(s, c) /\ socket[s][c] = "open" /\ socket[Peer(s)][c] # "none"
  BY <1>3 DEF LinkInv, WireInv, HeldInv, IsOpen
<1>5. ASSUME s = Authority
      PROVE  ~HasConfirm(Other, c)
  <2>1. connection[Authority] # c /\ socket[Authority][c] # "closed"
    BY <1>4, <1>5 DEF IsHeld
  <2> QED
    BY <2>1 DEF LinkInv, ConfirmInv
<1> HIDE DEF w
<1>6. \A t \in Sides, d \in Conns :
        /\ Contains(w[t][d], "Info") <=> HasInfo(t, d) /\ ~(t = s /\ d = c)
        /\ Contains(w[t][d], "ConfirmConnection") <=> HasConfirm(t, d)
  BY <1>2, <1>3 DEF HasInfo, HasConfirm
<1> QED
  BY <1>2, <1>3, <1>4, <1>5, <1>6, SidesLemma DEF w

\* addConnection of a peer that is closing.
LEMMA AddClosingInv ==
  ASSUME LinkInv, NEW s \in Sides, NEW c \in Conns, AddConnection(s, c), isClosing[s]
  PROVE  LinkInv' /\ Drops(s, {c})
<1> DEFINE w == [wire EXCEPT ![s][c] = Tail(@)]
<1>0. /\ w \in [Sides -> [Conns -> Queues]]
      /\ \A t \in Sides, d \in Conns :
           /\ Contains(w[t][d], "Info") <=> HasInfo(t, d) /\ ~(t = s /\ d = c)
           /\ Contains(w[t][d], "ConfirmConnection") <=> HasConfirm(t, d)
      /\ HasInfo(s, c) /\ ~IsHeld(s, c)
      /\ socket[s][c] = "open" /\ socket[Peer(s)][c] # "none"
      /\ ~HasConfirm(Other, c) \/ s = Other
  BY InfoReadLemma DEF AddConnection
<1> HIDE DEF w
<1>1. /\ socket' = Closed(s, {c}) /\ wire' = Drained(w, s, {c}) /\ known' = known \cup {s}
      /\ UNCHANGED <<pending, connection, isClosing, left, late>>
  BY DEF AddConnection, w
<1>2. /\ socket' \in [Sides -> [Conns -> {"none", "open", "ended", "closed"}]]
      /\ \A t \in Sides, d \in Conns :
           socket'[t][d] = IF t = s /\ d = c THEN "closed" ELSE socket[t][d]
  BY <1>1, ClosedLemma DEF LinkInv
<1>3. /\ wire' \in [Sides -> [Conns -> Queues]]
      /\ \A t \in Sides, d \in Conns :
           wire'[t][d] = IF d = c /\ (t = s \/ ~late) THEN <<>> ELSE w[t][d]
  BY <1>0, <1>1, DrainedLemma
<1>4. \A t \in Sides, d \in Conns :
        /\ HasInfo(t, d)' <=> HasInfo(t, d) /\ ~(d = c /\ (t = s \/ ~late))
        /\ HasConfirm(t, d)' <=> HasConfirm(t, d) /\ ~(d = c /\ (t = s \/ ~late))
  BY <1>0, <1>3, QueueLemma DEF HasInfo, HasConfirm
<1>5. Types'
  BY <1>1, <1>2, <1>3 DEF LinkInv, Types
<1>6. \A t \in Sides, d \in Conns : WireInv(t, d)'
  <2> SUFFICES ASSUME NEW t \in Sides, NEW d \in Conns PROVE WireInv(t, d)'
    OBVIOUS
  <2>1. WireInv(t, d) /\ Peer(t) \in Sides /\ Peer(t) # t
    BY PeerLemma DEF LinkInv
  <2>2. CASE d = c
    BY <1>0, <1>2, <1>4, <2>1, <2>2, SidesLemma DEF WireInv
  <2>3. CASE d # c
    BY <1>2, <1>4, <2>1, <2>3 DEF WireInv
  <2> QED
    BY <2>2, <2>3
<1>7. \A t \in Sides, d \in Conns : HeldInv(t, d)'
  <2> SUFFICES ASSUME NEW t \in Sides, NEW d \in Conns PROVE HeldInv(t, d)'
    OBVIOUS
  <2>1. HeldInv(t, d) /\ Peer(t) \in Sides /\ (t = s => Peer(t) = Peer(s))
    BY PeerLemma DEF LinkInv
  <2>2. IsHeld(t, d)' <=> IsHeld(t, d)
    BY <1>1 DEF IsHeld
  <2>3. CASE t = s /\ d = c
    BY <1>0, <1>1, <2>1, <2>2, <2>3 DEF HeldInv
  <2>4. CASE ~(t = s /\ d = c)
    BY <1>1, <1>2, <1>4, <2>1, <2>2, <2>4 DEF HeldInv
  <2> QED
    BY <2>3, <2>4
<1>8. \A d \in Conns : ConfirmInv(d)' /\ FollowInv(d)' /\ UntakenInv(d)'
  <2> SUFFICES ASSUME NEW d \in Conns PROVE ConfirmInv(d)' /\ FollowInv(d)' /\ UntakenInv(d)'
    OBVIOUS
  <2>1. ConfirmInv(d) /\ FollowInv(d) /\ UntakenInv(d)
    BY DEF LinkInv
  <2>2. CASE d = c
    BY <1>0, <1>1, <1>2, <1>4, <2>1, <2>2, SidesLemma DEF ConfirmInv, FollowInv, UntakenInv, IsHeld
  <2>3. CASE d # c
    BY <1>1, <1>2, <1>4, <2>1, <2>3, SidesLemma DEF ConfirmInv, FollowInv, UntakenInv
  <2> QED
    BY <2>2, <2>3
<1>9. (\A t \in Sides : Distinct(pending[t]))' /\ ClosingHoldsNothing'
  BY <1>1 DEF LinkInv, ClosingHoldsNothing
<1>10. Drops(s, {c})
  <2>1. connection[s] # c /\ ~Contains(pending[s], c) /\ connection[s] = None
    BY <1>0 DEF IsHeld, LinkInv, ClosingHoldsNothing
  <2> DEFINE C == {c}
  <2>2. \A x : x \in C <=> x = c
    OBVIOUS
  <2> HIDE DEF C
  <2>3. Shuts(s, C)
    BY <1>0, <1>2, <1>4, <2>2 DEF Shuts
  <2>4. connection[s] \notin C
    BY <2>1, <2>2
  <2>5. Drops(s, C)
    BY <1>1, <2>1, <2>2, <2>3, <2>4 DEF Drops
  <2> QED
    BY <2>5 DEF C
<1> QED
  BY <1>5, <1>6, <1>7, <1>8, <1>9, <1>10 DEF LinkInv

\* addConnection of a peer that keeps the connection pending.
LEMMA AddPendingInv ==
  ASSUME LinkInv, NEW s \in Sides, NEW c \in Conns, AddConnection(s, c),
         ~isClosing[s], ~MayConfirm(s)
  PROVE  LinkInv' /\ Keeps(s, c)
<1>0. LET w == [wire EXCEPT ![s][c] = Tail(@)]
      IN /\ wire' = w /\ w \in [Sides -> [Conns -> Queues]]
         /\ \A t \in Sides, d \in Conns :
              /\ Contains(w[t][d], "Info") <=> HasInfo(t, d) /\ ~(t = s /\ d = c)
              /\ Contains(w[t][d], "ConfirmConnection") <=> HasConfirm(t, d)
         /\ HasInfo(s, c) /\ ~IsHeld(s, c)
         /\ socket[s][c] = "open" /\ socket[Peer(s)][c] # "none"
         /\ ~HasConfirm(Other, c) \/ s = Other
  BY InfoReadLemma DEF AddConnection
<1>1. /\ wire' \in [Sides -> [Conns -> Queues]]
      /\ \A t \in Sides, d \in Conns :
           /\ HasInfo(t, d)' <=> HasInfo(t, d) /\ ~(t = s /\ d = c)
           /\ HasConfirm(t, d)' <=> HasConfirm(t, d)
      /\ HasInfo(s, c) /\ ~IsHeld(s, c)
      /\ socket[s][c] = "open" /\ socket[Peer(s)][c] # "none"
  BY <1>0 DEF HasInfo, HasConfirm
<1>2. /\ pending' = [pending EXCEPT ![s] = Added(pending[s], c)] /\ known' = known \cup {s}
      /\ UNCHANGED <<socket, connection, isClosing, left, late>>
  BY DEF AddConnection
<1>3. pending \in [Sides -> Seq(Conns)] /\ pending[s] \in Seq(Conns) /\ Distinct(pending[s])
  BY DEF LinkInv, Types
<1>4. /\ pending' \in [Sides -> Seq(Conns)]
      /\ \A t \in Sides : t # s => pending'[t] = pending[t]
      /\ Distinct(pending'[s])
      /\ \A d : Contains(pending'[s], d) <=> Contains(pending[s], d) \/ d = c
  BY <1>2, <1>3, AddedLemma
<1>5. Types'
  BY <1>1, <1>2, <1>4 DEF LinkInv, Types
<1>6. \A t \in Sides, d \in Conns : WireInv(t, d)'
  <2>1. \A t \in Sides, d \in Conns : WireInv(t, d)
    BY DEF LinkInv
  <2> QED
    BY <1>1, <1>2, <2>1, PeerLemma DEF WireInv
<1>7. \A t \in Sides, d \in Conns : HeldInv(t, d)'
  <2>1. \A t \in Sides, d \in Conns : HeldInv(t, d)
    BY DEF LinkInv
  <2> QED
    BY <1>1, <1>2, <1>4, <2>1 DEF HeldInv, IsHeld
<1>8. \A d \in Conns : ConfirmInv(d)' /\ FollowInv(d)' /\ UntakenInv(d)'
  <2>1. \A d \in Conns : ConfirmInv(d) /\ FollowInv(d) /\ UntakenInv(d)
    BY DEF LinkInv
  <2>2. \A d \in Conns : Contains(pending[Other], d) => Contains(pending'[Other], d)
    BY <1>4, SidesLemma
  <2>3. \A d \in Conns : ConfirmInv(d)' /\ FollowInv(d)'
    BY <1>1, <1>2, <1>4, <2>1, <2>2, SidesLemma DEF ConfirmInv, FollowInv
  <2>4. \A d \in Conns : UntakenInv(d)'
    BY <1>1, <1>2, <1>4, <2>1, <2>2, SidesLemma DEF UntakenInv
  <2> QED
    BY <2>3, <2>4
<1>9. (\A t \in Sides : Distinct(pending[t]))'
  BY <1>4 DEF LinkInv
<1>10. ClosingHoldsNothing'
  BY <1>2, <1>4 DEF LinkInv, ClosingHoldsNothing
<1>11. Keeps(s, c)
  BY <1>1, <1>2, <1>4 DEF Keeps, Reads
<1> QED
  BY <1>5, <1>6, <1>7, <1>8, <1>9, <1>10, <1>11 DEF LinkInv

\* addConnection of an authority that takes the connection into use.
LEMMA AddConfirmInv ==
  ASSUME LinkInv, NEW s \in Sides, NEW c \in Conns, AddConnection(s, c),
         ~isClosing[s], MayConfirm(s)
  PROVE  LinkInv' /\ Takes(s, c)
<1> DEFINE w == [wire EXCEPT ![s][c] = Tail(@)]
<1>0. /\ w \in [Sides -> [Conns -> Queues]]
      /\ \A t \in Sides, d \in Conns :
           /\ Contains(w[t][d], "Info") <=> HasInfo(t, d) /\ ~(t = s /\ d = c)
           /\ Contains(w[t][d], "ConfirmConnection") <=> HasConfirm(t, d)
      /\ HasInfo(s, c) /\ ~IsHeld(s, c)
      /\ socket[s][c] = "open" /\ socket[Peer(s)][c] # "none"
      /\ ~HasConfirm(Other, c) \/ s = Other
  BY InfoReadLemma DEF AddConnection
<1> HIDE DEF w
<1>1. /\ Confirm(s, c, pending[s], w) /\ known' = known \cup {s}
      /\ UNCHANGED <<socket, isClosing, left, late>>
  BY DEF AddConnection, w
<1>2. s = Authority /\ ~IsConnected(Authority)
  BY DEF MayConfirm
<1>3. pending[s] \in Seq(Conns) /\ Distinct(pending[s]) /\ Types
  BY DEF LinkInv, Types
<1>4. ~Contains(w[Other][c], "ConfirmConnection")
  BY <1>0, <1>2, SidesLemma
<1>5. /\ wire' \in [Sides -> [Conns -> Queues]]
      /\ \A t \in Sides, d \in Conns :
           wire'[t][d] = IF s = Authority /\ t = Other /\ d = c /\ socket[Other][c] \in {"none", "open"}
                         THEN Append(w[t][d], "ConfirmConnection") ELSE w[t][d]
      /\ connection' \in [Sides -> Conns \cup {None}]
      /\ \A t \in Sides : connection'[t] = IF t = s THEN c ELSE connection[t]
      /\ pending' \in [Sides -> Seq(Conns)]
      /\ \A t \in Sides : t # s => pending'[t] = pending[t]
      /\ Distinct(pending'[s])
      /\ \A d \in Conns : Contains(pending'[s], d) <=> Contains(pending[s], d) /\ d # c
  BY SMTT(30), <1>0, <1>1, <1>3, <1>4, ConfirmLemma
<1>6. \A t \in Sides, d \in Conns :
        /\ HasInfo(t, d)' <=> HasInfo(t, d) /\ ~(t = s /\ d = c)
        /\ HasConfirm(t, d)' <=>
             (HasConfirm(t, d) \/ (t = Other /\ d = c /\ socket[Other][c] \in {"none", "open"}))
  <2>1. w[Other][c] \in Queues
    BY <1>0, SidesLemma
  <2> QED
    BY <1>0, <1>2, <1>4, <1>5, <2>1, QueueLemma DEF HasInfo, HasConfirm
<1>7. Types'
  BY <1>1, <1>5 DEF LinkInv, Types
<1>8. \A t \in Sides, d \in Conns : WireInv(t, d)'
  <2>1. \A t \in Sides, d \in Conns : WireInv(t, d)
    BY DEF LinkInv
  <2> QED
    BY <1>0, <1>1, <1>2, <1>6, <2>1, SidesLemma DEF WireInv
<1>9. \A t \in Sides, d \in Conns : HeldInv(t, d)'
  <2> SUFFICES ASSUME NEW t \in Sides, NEW d \in Conns PROVE HeldInv(t, d)'
    OBVIOUS
  <2>1. HeldInv(t, d)
    BY DEF LinkInv
  <2>2. CASE t = s /\ d = c
    BY <1>0, <1>1, <1>5, <1>6, <2>2 DEF HeldInv
  <2>3. CASE t = s /\ d # c
    <3>1. IsHeld(t, d)' => Contains(pending[t], d)
      BY <1>5, <2>3 DEF IsHeld
    <3>2. connection'[t] # d
      BY <1>5, <2>3
    <3> QED
      BY <1>1, <1>6, <2>1, <2>3, <3>1, <3>2 DEF HeldInv, IsHeld
  <2>4. CASE t # s
    <3>1. connection'[t] = connection[t] /\ pending'[t] = pending[t]
      BY <1>5, <2>4
    <3>2. IsHeld(t, d)' <=> IsHeld(t, d)
      BY <3>1 DEF IsHeld
    <3> QED
      BY <1>1, <1>6, <2>1, <2>4, <3>1, <3>2 DEF HeldInv
  <2> QED
    BY <2>2, <2>3, <2>4
<1>10. \A d \in Conns : ConfirmInv(d)' /\ FollowInv(d)' /\ UntakenInv(d)'
  <2>1. \A d \in Conns : ConfirmInv(d) /\ FollowInv(d) /\ UntakenInv(d) /\ WireInv(Other, d) /\ HeldInv(Authority, d)
    BY SidesLemma DEF LinkInv
  <2>2. ASSUME NEW d \in Conns, connection[Authority] = d
        PROVE  socket[Authority][d] \in {"ended", "closed"} /\ ~HasConfirm(Other, d)
    <3>1. socket[Authority][d] # "open"
      BY <1>2, <2>2, ConstantsAssumption DEF IsConnected, IsOpen
    <3>2. socket[Authority][d] = "ended"
      BY <2>1, <2>2, <3>1 DEF HeldInv, IsHeld
    <3>3. socket[Other][d] \in {"ended", "closed"}
      BY <3>2, SidesLemma DEF LinkInv, WireInv
    <3> QED
      BY <2>1, <3>2, <3>3 DEF WireInv
  <2>3. socket[Other][c] = "none" => HasInfo(Other, c)
    BY <1>0, <1>2, SidesLemma DEF LinkInv, WireInv
  <2>4. socket[Other][c] \in {"none", "open"} => HasInfo(Other, c) \/ Contains(pending[Other], c)
    <3>1. HasInfo(Authority, c) /\ socket[Authority][c] = "open"
      BY <1>0, <1>2
    <3> QED
      BY <2>1, <2>3, <3>1 DEF UntakenInv
  <2>5. /\ connection'[Authority] = c /\ connection'[Other] = connection[Other]
        /\ pending'[Other] = pending[Other] /\ UNCHANGED <<socket, late>>
        /\ \A d \in Conns : Contains(pending'[Authority], d) <=> Contains(pending[Authority], d) /\ d # c
    BY <1>1, <1>2, <1>5, SidesLemma
  <2>6. \A d \in Conns : ConfirmInv(d)'
    BY <1>2, <1>6, <2>1, <2>2, <2>4, <2>5, SidesLemma DEF ConfirmInv
  <2>7. \A d \in Conns : FollowInv(d)' /\ UntakenInv(d)'
    BY <1>2, <1>6, <2>1, <2>2, <2>5, SidesLemma DEF FollowInv, UntakenInv
  <2> QED
    BY <2>6, <2>7
<1>11. (\A t \in Sides : Distinct(pending[t]))'
  BY <1>5 DEF LinkInv
<1>12. ClosingHoldsNothing'
  <2>1. \A t \in Sides : t = s => ~isClosing[t]
    OBVIOUS
  <2> QED
    BY <1>1, <1>5, <2>1 DEF LinkInv, ClosingHoldsNothing
<1>13. Takes(s, c)
  BY <1>0, <1>1, <1>2, <1>5, <1>6 DEF Takes, Reads
<1> QED
  BY <1>7, <1>8, <1>9, <1>10, <1>11, <1>12, <1>13 DEF LinkInv

\* What is known when a confirmation is read: only the other side gets one,
\* and it has the connection pending.
LEMMA ConfirmReadLemma ==
  ASSUME LinkInv, NEW s \in Sides, NEW c \in Conns, OnConfirmConnection(s, c)
  PROVE  LET w == [wire EXCEPT ![s][c] = Tail(@)]
         IN /\ s = Other
            /\ w \in [Sides -> [Conns -> Queues]] /\ w[Other][c] = <<>>
            /\ \A t \in Sides, d \in Conns : ~(t = s /\ d = c) => w[t][d] = wire[t][d]
            /\ HasConfirm(Other, c) /\ ~HasInfo(Other, c) /\ Contains(pending[Other], c)
            /\ socket[Other][c] = "open"
            /\ connection[Authority] = c \/ (late /\ socket[Authority][c] = "closed")
            /\ ~HasInfo(Authority, c) /\ ~Contains(pending[Authority], c)
<1> DEFINE w == [wire EXCEPT ![s][c] = Tail(@)]
<1>1. wire[s][c] \in Queues /\ Types /\ socket[s][c] = "open"
  BY DEF LinkInv, Types, OnConfirmConnection, IsOpen
<1>2. Tail(wire[s][c]) = <<>> /\ ~HasInfo(s, c) /\ HasConfirm(s, c)
  BY <1>1, QueueLemma DEF OnConfirmConnection, HasInfo, HasConfirm
<1>3. /\ w \in [Sides -> [Conns -> Queues]]
      /\ \A t \in Sides, d \in Conns :
           w[t][d] = IF t = s /\ d = c THEN Tail(wire[s][c]) ELSE wire[t][d]
  BY <1>1, ReadLemma DEF OnConfirmConnection
<1>4. s = Other
  BY <1>2, SidesLemma DEF LinkInv, ConfirmInv
<1>5. /\ Contains(pending[Other], c)
      /\ connection[Authority] = c \/ (late /\ socket[Authority][c] = "closed")
  BY <1>2, <1>4 DEF LinkInv, ConfirmInv
<1>6. ~HasInfo(Authority, c) /\ ~Contains(pending[Authority], c)
  <2>1. WireInv(Authority, c) /\ HeldInv(Authority, c)
    BY SidesLemma DEF LinkInv
  <2> QED
    BY <1>5, <2>1 DEF WireInv, HeldInv, IsHeld
<1> HIDE DEF w
<1>7. w[Other][c] = <<>> /\ \A t \in Sides, d \in Conns : ~(t = s /\ d = c) => w[t][d] = wire[t][d]
  BY <1>2, <1>3, <1>4, SidesLemma
<1> QED
  BY <1>1, <1>2, <1>3, <1>4, <1>5, <1>6, <1>7 DEF w

LEMMA OnConfirmConnectionInv ==
  ASSUME LinkInv, NEW s \in Sides, NEW c \in Conns, OnConfirmConnection(s, c)
  PROVE  LinkInv' /\ Takes(s, c)
<1> DEFINE w == [wire EXCEPT ![s][c] = Tail(@)]
<1>0. /\ s = Other
      /\ w \in [Sides -> [Conns -> Queues]] /\ w[Other][c] = <<>>
      /\ \A t \in Sides, d \in Conns : ~(t = s /\ d = c) => w[t][d] = wire[t][d]
      /\ HasConfirm(Other, c) /\ ~HasInfo(Other, c) /\ Contains(pending[Other], c)
      /\ socket[Other][c] = "open"
      /\ connection[Authority] = c \/ (late /\ socket[Authority][c] = "closed")
      /\ ~HasInfo(Authority, c) /\ ~Contains(pending[Authority], c)
  BY ConfirmReadLemma
<1> HIDE DEF w
<1>1. /\ Confirm(s, c, pending[s], w)
      /\ UNCHANGED <<socket, isClosing, known, left, late>>
  BY DEF OnConfirmConnection, w
<1>2. pending[s] \in Seq(Conns) /\ Distinct(pending[s]) /\ Types
  BY DEF LinkInv, Types
<1>3. ~Contains(w[Other][c], "ConfirmConnection")
  BY <1>0, QueueLemma
<1>4. /\ wire' \in [Sides -> [Conns -> Queues]]
      /\ \A t \in Sides, d \in Conns : wire'[t][d] = w[t][d]
      /\ connection' \in [Sides -> Conns \cup {None}]
      /\ \A t \in Sides : connection'[t] = IF t = s THEN c ELSE connection[t]
      /\ pending' \in [Sides -> Seq(Conns)]
      /\ \A t \in Sides : t # s => pending'[t] = pending[t]
      /\ Distinct(pending'[s])
      /\ \A d \in Conns : Contains(pending'[s], d) <=> Contains(pending[s], d) /\ d # c
  BY <1>0, <1>1, <1>2, <1>3, ConfirmLemma, SidesLemma
<1>5. \A t \in Sides, d \in Conns :
        /\ HasInfo(t, d)' <=> HasInfo(t, d)
        /\ HasConfirm(t, d)' <=> HasConfirm(t, d) /\ ~(t = s /\ d = c)
  BY <1>0, <1>4, QueueLemma DEF HasInfo, HasConfirm
<1>6. Types'
  BY <1>1, <1>4 DEF LinkInv, Types
<1>7. \A t \in Sides, d \in Conns : WireInv(t, d)'
  <2>1. \A t \in Sides, d \in Conns : WireInv(t, d)
    BY DEF LinkInv
  <2> QED
    BY <1>1, <1>5, <2>1 DEF WireInv
<1>8. \A t \in Sides, d \in Conns : HeldInv(t, d)'
  <2> SUFFICES ASSUME NEW t \in Sides, NEW d \in Conns PROVE HeldInv(t, d)'
    OBVIOUS
  <2>1. HeldInv(t, d)
    BY DEF LinkInv
  <2>2. IsHeld(t, d)' => IsHeld(t, d)
    BY <1>0, <1>4 DEF IsHeld
  <2>3. ~(connection'[t] = d /\ Contains(pending'[t], d))
    BY <1>4, <2>1 DEF HeldInv
  <2> QED
    BY <1>1, <1>5, <2>1, <2>2, <2>3 DEF HeldInv
<1>9. \A d \in Conns : ConfirmInv(d)' /\ FollowInv(d)' /\ UntakenInv(d)'
  <2>1. \A d \in Conns : ConfirmInv(d) /\ FollowInv(d) /\ UntakenInv(d)
    BY DEF LinkInv
  <2>2. /\ connection'[Authority] = connection[Authority] /\ connection'[Other] = c
        /\ pending'[Authority] = pending[Authority] /\ UNCHANGED <<socket, late>>
        /\ \A d \in Conns : Contains(pending'[Other], d) <=> Contains(pending[Other], d) /\ d # c
    BY <1>0, <1>1, <1>4, SidesLemma
  <2>3. \A d \in Conns : ConfirmInv(d)' /\ FollowInv(d)'
    BY <1>0, <1>5, <2>1, <2>2, SidesLemma DEF ConfirmInv, FollowInv
  <2>4. \A d \in Conns : UntakenInv(d)'
    BY <1>0, <1>5, <2>1, <2>2, SidesLemma DEF UntakenInv
  <2> QED
    BY <2>3, <2>4
<1>10. (\A t \in Sides : Distinct(pending[t]))'
  BY <1>4 DEF LinkInv
<1>11. ClosingHoldsNothing'
  <2>1. ~isClosing[s]
    BY <1>0, QueueLemma DEF LinkInv, ClosingHoldsNothing
  <2> QED
    BY <1>1, <1>4, <2>1 DEF LinkInv, ClosingHoldsNothing
<1>12. Takes(s, c)
  <2>1. socket[Peer(s)][c] # "none"
    BY <1>0 DEF LinkInv, HeldInv, IsHeld
  <2> QED
    BY <1>0, <1>1, <1>4, <1>5, <2>1 DEF Takes, Reads
<1> QED
  BY <1>6, <1>7, <1>8, <1>9, <1>10, <1>11, <1>12 DEF LinkInv

LEMMA SocketEndInv ==
  ASSUME LinkInv, NEW s \in Sides, NEW c \in Conns, SocketEnd(s, c)
  PROVE  LinkInv' /\ Fails(s, c)
<1>0. socket[s][c] = "open" /\ socket[Peer(s)][c] \in {"ended", "closed"} /\ Types
  BY DEF SocketEnd, IsOpen, LinkInv
<1>1. /\ socket' \in [Sides -> [Conns -> {"none", "open", "ended", "closed"}]]
      /\ \A t \in Sides, d \in Conns :
           socket'[t][d] = IF t = s /\ d = c THEN "ended" ELSE socket[t][d]
  BY <1>0 DEF SocketEnd, Types
<1>2. /\ wire' \in [Sides -> [Conns -> Queues]]
      /\ \A t \in Sides, d \in Conns :
           wire'[t][d] = IF t = s /\ d = c THEN <<>> ELSE wire[t][d]
  BY <1>0, QueueLemma DEF SocketEnd, Types
<1>3. UNCHANGED <<pending, connection, isClosing, known, left, late>>
  BY DEF SocketEnd
<1>4. \A t \in Sides, d \in Conns :
        /\ HasInfo(t, d)' <=> HasInfo(t, d) /\ ~(t = s /\ d = c)
        /\ HasConfirm(t, d)' <=> HasConfirm(t, d) /\ ~(t = s /\ d = c)
  BY <1>2, QueueLemma DEF HasInfo, HasConfirm
<1>5. Types'
  BY <1>0, <1>1, <1>2, <1>3 DEF Types
<1>6. \A t \in Sides, d \in Conns : WireInv(t, d)'
  <2> SUFFICES ASSUME NEW t \in Sides, NEW d \in Conns PROVE WireInv(t, d)'
    OBVIOUS
  <2>1. WireInv(t, d) /\ Peer(t) \in Sides /\ Peer(t) # t /\ Peer(Peer(t)) = t
    BY PeerLemma DEF LinkInv
  <2>2. CASE t = s /\ d = c
    BY <1>0, <1>1, <1>4, <2>1, <2>2 DEF WireInv
  <2>3. CASE Peer(t) = s /\ d = c
    BY <1>0, <1>1, <1>4, <2>1, <2>3 DEF WireInv
  <2>4. CASE d # c
    BY <1>1, <1>4, <2>1, <2>4 DEF WireInv
  <2> QED
    BY <2>2, <2>3, <2>4, SidesLemma
<1>7. \A t \in Sides, d \in Conns : HeldInv(t, d)'
  <2> SUFFICES ASSUME NEW t \in Sides, NEW d \in Conns PROVE HeldInv(t, d)'
    OBVIOUS
  <2>1. HeldInv(t, d) /\ Peer(t) \in Sides
    BY PeerLemma DEF LinkInv
  <2>2. IsHeld(t, d)' <=> IsHeld(t, d)
    BY <1>3 DEF IsHeld
  <2> QED
    BY <1>1, <1>3, <1>4, <2>1, <2>2 DEF HeldInv
<1>8. \A d \in Conns : ConfirmInv(d)' /\ FollowInv(d)' /\ UntakenInv(d)'
  <2> SUFFICES ASSUME NEW d \in Conns PROVE ConfirmInv(d)' /\ FollowInv(d)' /\ UntakenInv(d)'
    OBVIOUS
  <2>1. ConfirmInv(d) /\ FollowInv(d) /\ UntakenInv(d)
    BY DEF LinkInv
  <2>2. CASE d # c
    BY <1>1, <1>3, <1>4, <2>1, <2>2, SidesLemma DEF ConfirmInv, FollowInv, UntakenInv
  <2>3. CASE d = c
    <3>1. WireInv(Other, c) /\ WireInv(Authority, c)
      BY SidesLemma DEF LinkInv
    <3>2. CASE s = Authority
      <4>1. socket[Other][c] \in {"ended", "closed"} /\ ~HasConfirm(Other, c)
        BY <1>0, <3>1, <3>2, SidesLemma DEF WireInv
      <4> QED
        BY <1>1, <1>3, <1>4, <2>1, <2>3, <3>2, <4>1, SidesLemma DEF ConfirmInv, FollowInv, UntakenInv
    <3>3. CASE s = Other
      BY <1>1, <1>3, <1>4, <2>1, <2>3, <3>3, SidesLemma DEF ConfirmInv, FollowInv, UntakenInv
    <3> QED
      BY <3>2, <3>3, SidesLemma
  <2> QED
    BY <2>2, <2>3
<1>9. (\A t \in Sides : Distinct(pending[t]))' /\ ClosingHoldsNothing'
  BY <1>3 DEF LinkInv, ClosingHoldsNothing
<1>10. Fails(s, c)
  BY <1>0, <1>1, <1>3, <1>4 DEF Fails
<1> QED
  BY <1>5, <1>6, <1>7, <1>8, <1>9, <1>10 DEF LinkInv

\* The ends of the connections in C are closed and forgotten.
LEMMA CloseEndsInv ==
  ASSUME LinkInv, NEW s \in Sides, NEW C \in SUBSET Conns, \A d \in C : socket[s][d] # "none",
         socket' = Closed(s, C), wire' = Drained(wire, s, C),
         connection' \in [Sides -> Conns \cup {None}], pending' \in [Sides -> Seq(Conns)],
         \A t \in Sides : t # s => connection'[t] = connection[t] /\ pending'[t] = pending[t],
         connection'[s] = IF connection[s] \in C THEN None ELSE connection[s],
         Distinct(pending'[s]),
         \A d \in Conns : Contains(pending'[s], d) <=> Contains(pending[s], d) /\ d \notin C,
         s = Authority /\ connection[s] \in C =>
           \A d \in Conns \ C : Contains(pending[s], d) => ~IsOpen(s, d),
         UNCHANGED <<known, late>>, ClosingHoldsNothing',
         left' \subseteq Sides, isClosing' \in [Sides -> BOOLEAN]
  PROVE  LinkInv' /\ Drops(s, C)
<1>0. Types
  BY DEF LinkInv
<1>1. /\ socket' \in [Sides -> [Conns -> {"none", "open", "ended", "closed"}]]
      /\ \A t \in Sides, d \in Conns :
           socket'[t][d] = IF t = s /\ d \in C THEN "closed" ELSE socket[t][d]
  BY <1>0, ClosedLemma
<1>2. /\ wire' \in [Sides -> [Conns -> Queues]]
      /\ \A t \in Sides, d \in Conns :
           wire'[t][d] = IF d \in C /\ (t = s \/ ~late) THEN <<>> ELSE wire[t][d]
  <2>1. wire \in [Sides -> [Conns -> Queues]]
    BY <1>0 DEF Types
  <2>2. <<>> \in Queues
    BY QueueLemma
  <2>3. wire' = [t \in Sides |-> [d \in Conns |->
                  IF d \in C /\ (t = s \/ ~late) THEN <<>> ELSE wire[t][d]]]
    BY DEF Drained
  <2> QED
    BY <2>1, <2>2, <2>3
<1>3. \A t \in Sides, d \in Conns :
        /\ HasInfo(t, d)' <=> HasInfo(t, d) /\ ~(d \in C /\ (t = s \/ ~late))
        /\ HasConfirm(t, d)' <=> HasConfirm(t, d) /\ ~(d \in C /\ (t = s \/ ~late))
  BY <1>2, QueueLemma DEF HasInfo, HasConfirm
<1>4. Types'
  BY <1>0, <1>1, <1>2 DEF Types
<1>5. \A t \in Sides, d \in Conns : WireInv(t, d)'
  <2> SUFFICES ASSUME NEW t \in Sides, NEW d \in Conns PROVE WireInv(t, d)'
    OBVIOUS
  <2>1. WireInv(t, d) /\ Peer(t) \in Sides /\ Peer(t) # t /\ Peer(Peer(t)) = t
    BY PeerLemma DEF LinkInv
  <2>2. CASE t = s /\ d \in C
    BY <1>1, <1>3, <2>1, <2>2 DEF WireInv
  <2>3. CASE Peer(t) = s /\ d \in C
    BY <1>1, <1>3, <2>1, <2>3 DEF WireInv
  <2>4. CASE d \notin C
    BY <1>1, <1>3, <2>1, <2>4 DEF WireInv
  <2> QED
    BY <2>2, <2>3, <2>4, SidesLemma
<1>6. \A t \in Sides, d \in Conns : HeldInv(t, d)'
  <2> SUFFICES ASSUME NEW t \in Sides, NEW d \in Conns PROVE HeldInv(t, d)'
    OBVIOUS
  <2>1. HeldInv(t, d) /\ Peer(t) \in Sides
    BY PeerLemma DEF LinkInv
  <2>2. IsHeld(t, d)' => IsHeld(t, d) /\ ~(t = s /\ d \in C)
    BY ConstantsAssumption DEF IsHeld
  <2>3. ~(connection'[t] = d /\ Contains(pending'[t], d))
    BY <2>1, ConstantsAssumption DEF HeldInv
  <2> QED
    BY <1>1, <1>3, <2>1, <2>2, <2>3 DEF HeldInv
<1>7. \A d \in Conns : ConfirmInv(d)' /\ FollowInv(d)' /\ UntakenInv(d)'
  <2> SUFFICES ASSUME NEW d \in Conns PROVE ConfirmInv(d)' /\ FollowInv(d)' /\ UntakenInv(d)'
    OBVIOUS
  <2>1. ConfirmInv(d) /\ FollowInv(d) /\ UntakenInv(d)
    BY DEF LinkInv
  <2>2. CASE s = Authority
    <3>1. connection'[Other] = connection[Other] /\ pending'[Other] = pending[Other]
      BY <2>2, SidesLemma
    <3>2. connection[Authority] = d => connection'[Authority] = d \/ d \in C
      BY <2>2
    <3> QED
      BY <1>1, <1>3, <2>1, <2>2, <3>1, <3>2, SidesLemma DEF ConfirmInv, FollowInv, UntakenInv
  <2>3. CASE s = Other
    <3>1. connection'[Authority] = connection[Authority] /\ pending'[Authority] = pending[Authority]
      BY <2>3, SidesLemma
    <3>2. connection'[Other] = d => connection[Other] = d
      BY <2>3, ConstantsAssumption
    <3> QED
      BY <1>1, <1>3, <2>1, <2>3, <3>1, <3>2, SidesLemma DEF ConfirmInv, FollowInv, UntakenInv
  <2> QED
    BY <2>2, <2>3, SidesLemma
<1>8. (\A t \in Sides : Distinct(pending[t]))'
  BY DEF LinkInv
<1>9. Drops(s, C)
  BY <1>1, <1>3 DEF Drops, Shuts
<1> QED
  BY <1>4, <1>5, <1>6, <1>7, <1>8, <1>9 DEF LinkInv

LEMMA CloseInv ==
  ASSUME LinkInv, NEW s \in Sides, Close(s)
  PROVE  LinkInv' /\ \E C \in SUBSET Conns : Drops(s, C)
<1> DEFINE C == IF s \in known THEN {c \in Conns : IsHeld(s, c)} ELSE {}
<1>0. Types
  BY DEF LinkInv
<1>1. /\ socket' = Closed(s, C) /\ wire' = Drained(wire, s, C)
      /\ connection' = [connection EXCEPT ![s] = None]
      /\ pending' = [pending EXCEPT ![s] = <<>>]
      /\ left' = left \cup {s} /\ isClosing' = [isClosing EXCEPT ![s] = s \in known]
      /\ UNCHANGED <<known, late>>
  BY DEF Close
<1>2. \A d \in Conns : d \in C <=> IsHeld(s, d)
  BY DEF LinkInv, HeldInv
<1>3. C \in SUBSET Conns /\ \A d \in C : socket[s][d] # "none"
  BY <1>2 DEF LinkInv, HeldInv
<1> HIDE DEF C
<1>4. /\ connection' \in [Sides -> Conns \cup {None}] /\ connection'[s] = None
      /\ pending' \in [Sides -> Seq(Conns)] /\ pending'[s] = <<>>
      /\ \A t \in Sides : t # s => connection'[t] = connection[t] /\ pending'[t] = pending[t]
      /\ left' \subseteq Sides /\ isClosing' \in [Sides -> BOOLEAN]
      /\ \A t \in Sides : t # s => isClosing'[t] = isClosing[t]
  BY <1>0, <1>1 DEF Types
<1>5. connection'[s] = IF connection[s] \in C THEN None ELSE connection[s]
  <2>1. connection[s] \in Conns \cup {None}
    BY <1>0 DEF Types
  <2>2. connection[s] \in Conns => connection[s] \in C
    BY <1>2 DEF IsHeld
  <2> QED
    BY <1>4, <2>1, <2>2
<1>6. Distinct(pending'[s])
  BY <1>4 DEF Distinct
<1>7. \A d \in Conns : Contains(pending'[s], d) <=> Contains(pending[s], d) /\ d \notin C
  BY <1>2, <1>4, QueueLemma DEF IsHeld
<1>8. ClosingHoldsNothing'
  BY <1>4 DEF LinkInv, ClosingHoldsNothing
<1>9. \A d \in Conns \ C : ~Contains(pending[s], d)
  BY <1>2 DEF IsHeld
<1> QED
  BY <1>1, <1>3, <1>4, <1>5, <1>6, <1>7, <1>8, <1>9, CloseEndsInv

\* What the authority takes when it picks another connection: one that is
\* open, that is not confirmed yet and that the other side has not taken.
LEMMA PickLemma ==
  ASSUME LinkInv, NEW c \in Conns, NEW d \in Conns, connection[Authority] = c,
         Contains(RemoveFirst(pending[Authority], c), d), IsOpen(Authority, d)
  PROVE  /\ d # c /\ Contains(pending[Authority], d) /\ ~HasInfo(Authority, d)
         /\ ~HasConfirm(Other, d) /\ socket[Other][d] # "none" /\ Authority \in known
         /\ connection[Other] # d
         /\ socket[Other][d] = "open" => HasInfo(Other, d) \/ Contains(pending[Other], d)
<1>1. pending[Authority] \in Seq(Conns) /\ Distinct(pending[Authority])
  BY SidesLemma DEF LinkInv, Types
<1>2. Contains(pending[Authority], d) /\ d # c
  BY <1>1, RemoveLemma
<1>3. HeldInv(Authority, d) /\ ConfirmInv(d) /\ FollowInv(d) /\ UntakenInv(d)
  BY SidesLemma DEF LinkInv
<1> QED
  BY <1>2, <1>3, SidesLemma DEF HeldInv, IsHeld, ConfirmInv, FollowInv, UntakenInv, IsOpen

LEMMA PickInv ==
  ASSUME LinkInv, NEW c \in Conns, NEW d \in Conns, connection[Authority] = c,
         socket[Authority][c] # "none", ~isClosing[Authority],
         Contains(RemoveFirst(pending[Authority], c), d), IsOpen(Authority, d),
         socket' = Closed(Authority, {c}),
         Confirm(Authority, d, RemoveFirst(pending[Authority], c), Drained(wire, Authority, {c})),
         UNCHANGED <<isClosing, known, left, late>>
  PROVE  LinkInv' /\ Swaps(c, d)
<1> DEFINE w == Drained(wire, Authority, {c})
           conns == RemoveFirst(pending[Authority], c)
<1>0. Types /\ Authority \in Sides /\ Other \in Sides /\ Authority # Other
  BY SidesLemma DEF LinkInv
<1>1. /\ d # c /\ Contains(pending[Authority], d) /\ ~HasInfo(Authority, d)
      /\ ~HasConfirm(Other, d) /\ socket[Other][d] # "none" /\ Authority \in known
      /\ connection[Other] # d /\ socket[Authority][d] = "open"
      /\ socket[Other][d] = "open" => HasInfo(Other, d) \/ Contains(pending[Other], d)
  BY PickLemma DEF IsOpen
<1>2. /\ socket' \in [Sides -> [Conns -> {"none", "open", "ended", "closed"}]]
      /\ \A t \in Sides, x \in Conns :
           socket'[t][x] = IF t = Authority /\ x = c THEN "closed" ELSE socket[t][x]
  <2>1. \A x : x \in {c} <=> x = c
    OBVIOUS
  <2> QED
    BY <1>0, <2>1, ClosedLemma
<1>3. /\ w \in [Sides -> [Conns -> Queues]]
      /\ \A t \in Sides, x \in Conns :
           w[t][x] = IF x = c /\ (t = Authority \/ ~late) THEN <<>> ELSE wire[t][x]
  <2>1. wire \in [Sides -> [Conns -> Queues]]
    BY <1>0 DEF Types
  <2>2. \A x : x \in {c} <=> x = c
    OBVIOUS
  <2> QED
    BY <1>0, <2>1, <2>2, DrainedLemma
<1>4. /\ conns \in Seq(Conns) /\ Distinct(conns)
      /\ \A x : Contains(conns, x) <=> Contains(pending[Authority], x) /\ x # c
  <2>1. pending[Authority] \in Seq(Conns) /\ Distinct(pending[Authority])
    BY <1>0 DEF LinkInv, Types
  <2> QED
    BY <2>1, RemoveLemma
<1>5. Confirm(Authority, d, conns, w)
  OBVIOUS
<1> HIDE DEF w, conns
<1>6. ~Contains(w[Other][d], "ConfirmConnection")
  BY <1>0, <1>1, <1>3 DEF HasConfirm
<1>7. /\ wire' \in [Sides -> [Conns -> Queues]]
      /\ \A t \in Sides, x \in Conns :
           wire'[t][x] = IF t = Other /\ x = d /\ socket[Other][d] \in {"none", "open"}
                         THEN Append(w[t][x], "ConfirmConnection") ELSE w[t][x]
      /\ connection' \in [Sides -> Conns \cup {None}]
      /\ connection'[Authority] = d /\ connection'[Other] = connection[Other]
      /\ pending' \in [Sides -> Seq(Conns)] /\ pending'[Other] = pending[Other]
      /\ Distinct(pending'[Authority])
      /\ \A x \in Conns : Contains(pending'[Authority], x) <=>
                            Contains(pending[Authority], x) /\ x # c /\ x # d
  BY <1>0, <1>3, <1>4, <1>5, <1>6, ConfirmLemma
<1>8. \A t \in Sides, x \in Conns :
        /\ HasInfo(t, x)' <=> HasInfo(t, x) /\ ~(x = c /\ (t = Authority \/ ~late))
        /\ HasConfirm(t, x)' <=>
             \/ HasConfirm(t, x) /\ ~(x = c /\ (t = Authority \/ ~late))
             \/ t = Other /\ x = d /\ socket[Other][d] \in {"none", "open"}
  <2> SUFFICES ASSUME NEW t \in Sides, NEW x \in Conns
               PROVE  /\ HasInfo(t, x)' <=> HasInfo(t, x) /\ ~(x = c /\ (t = Authority \/ ~late))
                      /\ HasConfirm(t, x)' <=>
                           \/ HasConfirm(t, x) /\ ~(x = c /\ (t = Authority \/ ~late))
                           \/ t = Other /\ x = d /\ socket[Other][d] \in {"none", "open"}
    OBVIOUS
  <2>1. CASE t = Other /\ x = d /\ socket[Other][d] \in {"none", "open"}
    <3>1. wire'[t][x] = Append(w[t][x], "ConfirmConnection")
      BY <1>7, <2>1
    <3>2. w[t][x] = wire[t][x]
      BY <1>1, <1>3, <2>1
    <3>3. wire[t][x] \in Queues
      BY <1>0 DEF Types
    <3>4. ~Contains(wire[t][x], "ConfirmConnection")
      BY <1>1, <2>1 DEF HasConfirm
    <3>5. wire'[t][x] = Append(wire[t][x], "ConfirmConnection")
      BY <3>1, <3>2
    <3> QED
      BY <1>1, <2>1, <3>3, <3>4, <3>5, QueueLemma DEF HasInfo, HasConfirm
  <2>2. CASE ~(t = Other /\ x = d /\ socket[Other][d] \in {"none", "open"})
    <3>1. wire'[t][x] = IF x = c /\ (t = Authority \/ ~late) THEN <<>> ELSE wire[t][x]
      BY <1>3, <1>7, <2>2
    <3> QED
      BY <2>2, <3>1, QueueLemma DEF HasInfo, HasConfirm
  <2> QED
    BY <2>1, <2>2
<1>9. Types'
  BY <1>0, <1>2, <1>7 DEF Types
<1>10. \A t \in Sides, x \in Conns : WireInv(t, x)'
  <2> SUFFICES ASSUME NEW t \in Sides, NEW x \in Conns PROVE WireInv(t, x)'
    OBVIOUS
  <2>1. WireInv(t, x)
    BY DEF LinkInv
  <2>2. CASE x # c /\ x # d
    BY ZenonT(40), <1>2, <1>8, <2>1, <2>2, PeerLemma DEF WireInv
  <2>3. CASE x = d
    <3>1. CASE t = Authority
      BY <1>0, <1>1, <1>2, <1>8, <2>1, <2>3, <3>1, SidesLemma DEF WireInv
    <3>2. CASE t = Other
      <4>1. /\ UNCHANGED <<socket[Other][d], socket[Authority][d]>>
            /\ HasInfo(Other, d)' <=> HasInfo(Other, d)
            /\ HasConfirm(Other, d)' => socket[Other][d] \in {"none", "open"}
        BY <1>0, <1>1, <1>2, <1>8
      <4>2. socket[Authority][d] = "open" /\ WireInv(Other, d)
        BY <1>1, <2>1, <2>3, <3>2
      <4> QED
        BY <2>3, <3>2, <4>1, <4>2, SidesLemma DEF WireInv
    <3> QED
      BY <3>1, <3>2, SidesLemma
  <2>4. CASE x = c
    <3>1. CASE t = Authority
      BY <1>0, <1>1, <1>2, <1>8, <2>1, <2>4, <3>1, SidesLemma DEF WireInv
    <3>2. CASE t = Other
      BY ZenonT(40), <1>0, <1>1, <1>2, <1>8, <2>1, <2>4, <3>2, SidesLemma DEF WireInv
    <3> QED
      BY <3>1, <3>2, SidesLemma
  <2> QED
    BY <2>2, <2>3, <2>4
<1>11. \A t \in Sides, x \in Conns : HeldInv(t, x)'
  <2> SUFFICES ASSUME NEW t \in Sides, NEW x \in Conns PROVE HeldInv(t, x)'
    OBVIOUS
  <2>1. HeldInv(t, x) /\ UNCHANGED known
    BY DEF LinkInv
  <2>2. CASE t = Authority
    <3>1. IsHeld(t, x)' => IsHeld(t, x) /\ x # c
      BY <1>1, <1>7, <2>2 DEF IsHeld
    <3>2. ~(connection'[t] = x /\ Contains(pending'[t], x))
      BY <1>7, <2>2
    <3> QED
      BY <1>0, <1>2, <1>8, <2>1, <2>2, <3>1, <3>2, SidesLemma DEF HeldInv
  <2>3. CASE t = Other
    <3>1. IsHeld(t, x)' <=> IsHeld(t, x)
      BY <1>7, <2>3 DEF IsHeld
    <3>2. /\ socket'[Other][x] = socket[Other][x]
          /\ socket[Authority][x] # "none" => socket'[Authority][x] # "none"
          /\ HasInfo(Other, x)' => HasInfo(Other, x)
          /\ pending'[Other] = pending[Other] /\ connection'[Other] = connection[Other]
      BY ZenonT(40), <1>0, <1>2, <1>7, <1>8
    <3> QED
      BY <2>1, <2>3, <3>1, <3>2, SidesLemma DEF HeldInv
  <2> QED
    BY <2>2, <2>3, SidesLemma
<1>12. \A x \in Conns : ConfirmInv(x)' /\ FollowInv(x)' /\ UntakenInv(x)'
  <2> SUFFICES ASSUME NEW x \in Conns PROVE ConfirmInv(x)' /\ FollowInv(x)' /\ UntakenInv(x)'
    OBVIOUS
  <2>1. ConfirmInv(x) /\ FollowInv(x) /\ UntakenInv(x) /\ WireInv(Other, x)
    BY <1>0 DEF LinkInv
  <2>2. CASE x = d
    BY <1>0, <1>1, <1>2, <1>7, <1>8, <2>1, <2>2, SidesLemma DEF ConfirmInv, FollowInv, UntakenInv
  <2>3. CASE x = c
    BY <1>0, <1>1, <1>2, <1>7, <1>8, <2>1, <2>3, SidesLemma DEF ConfirmInv, FollowInv, UntakenInv
  <2>4. CASE x # c /\ x # d
    BY ZenonT(40), <1>0, <1>1, <1>2, <1>7, <1>8, <2>1, <2>4, SidesLemma DEF ConfirmInv, FollowInv, UntakenInv
  <2> QED
    BY <2>2, <2>3, <2>4
<1>13. (\A t \in Sides : Distinct(pending[t]))'
  BY <1>7, SidesLemma DEF LinkInv
<1>14. ClosingHoldsNothing'
  BY <1>0, <1>7, SidesLemma DEF LinkInv, ClosingHoldsNothing
<1>15. Swaps(c, d)
  <2>1. Shuts(Authority, {c})
    BY <1>2, <1>8 DEF Shuts
  <2> QED
    BY <1>1, <1>7, <2>1, SidesLemma DEF Swaps
<1> QED
  BY <1>9, <1>10, <1>11, <1>12, <1>13, <1>14, <1>15 DEF LinkInv

\* The authority closes c and has no other connection to pick.
NonePicked(c) ==
  \A d \in Conns \ {c} : Contains(pending[Authority], d) => ~IsOpen(Authority, d)

\* The three ways in which a connection is closed.
LEMMA CloseConnectionCases ==
  ASSUME LinkInv, NEW s \in Sides, NEW c \in Conns, CloseConnection(s, c)
  PROVE  /\ socket[s][c] \in {"open", "ended"} /\ socket' = Closed(s, {c})
         /\ UNCHANGED <<isClosing, known, left, late>>
         /\ \/ /\ wire' = Drained(wire, s, {c})
               /\ pending' = [pending EXCEPT ![s] = RemoveFirst(pending[s], c)]
               /\ \/ connection[s] # c /\ UNCHANGED connection
                  \/ /\ connection[s] = c /\ connection' = [connection EXCEPT ![s] = None]
                     /\ s # Authority \/ NonePicked(c)
            \/ /\ s = Authority /\ connection[s] = c /\ ~isClosing[s]
               /\ \E d \in Conns :
                    /\ Contains(RemoveFirst(pending[s], c), d) /\ IsOpen(s, d)
                    /\ Confirm(s, d, RemoveFirst(pending[s], c), Drained(wire, s, {c}))
<1> DEFINE conns == RemoveFirst(pending[s], c)
           w == Drained(wire, s, {c})
           first == FirstOpen(s, conns)
<1>1. /\ socket[s][c] \in {"open", "ended"} /\ socket' = Closed(s, {c})
      /\ UNCHANGED <<isClosing, known, left, late>>
      /\ IF connection[s] = c
         THEN PickNewConnection(s, conns, w)
         ELSE /\ pending' = [pending EXCEPT ![s] = conns]
              /\ wire' = w
              /\ UNCHANGED connection
  BY DEF CloseConnection
<1>2. conns \in Seq(Conns)
  BY RemoveLemma DEF LinkInv, Types
<1>3. PickNewConnection(s, conns, w) <=>
        IF s = Authority /\ ~isClosing[s] /\ first # 0
        THEN Confirm(s, conns[first], conns, w)
        ELSE /\ connection' = [connection EXCEPT ![s] = None]
             /\ pending' = [pending EXCEPT ![s] = conns]
             /\ wire' = w
  BY DEF PickNewConnection
<1>4. first # 0 => /\ conns[first] \in Conns /\ Contains(conns, conns[first])
                   /\ IsOpen(s, conns[first])
  BY <1>2, FirstLemma
<1>6. s = Authority /\ connection[s] = c /\ (isClosing[s] \/ first = 0) => NonePicked(c)
  <2>1. isClosing[s] => connection[s] # c
    BY ConstantsAssumption DEF LinkInv, ClosingHoldsNothing
  <2>2. first = 0 => \A d \in Conns : Contains(conns, d) => ~IsOpen(s, d)
    BY <1>2, FirstLemma
  <2>3. \A d \in Conns \ {c} : Contains(pending[s], d) => Contains(conns, d)
    BY RemoveLemma DEF LinkInv, Types
  <2> QED
    BY <2>1, <2>2, <2>3 DEF NonePicked
<1> HIDE DEF conns, w, first
<1>5. \/ /\ wire' = w
         /\ pending' = [pending EXCEPT ![s] = conns]
         /\ \/ connection[s] # c /\ UNCHANGED connection
            \/ /\ connection[s] = c /\ connection' = [connection EXCEPT ![s] = None]
               /\ s # Authority \/ NonePicked(c)
      \/ /\ s = Authority /\ connection[s] = c /\ ~isClosing[s]
         /\ \E d \in Conns :
              /\ Contains(conns, d) /\ IsOpen(s, d)
              /\ Confirm(s, d, conns, w)
  BY <1>1, <1>3, <1>4, <1>6
<1> QED
  BY <1>1, <1>5 DEF conns, w

LEMMA CloseConnectionInv ==
  ASSUME LinkInv, NEW s \in Sides, NEW c \in Conns, CloseConnection(s, c)
  PROVE  LinkInv' /\ Effect
<1>0. Types
  BY DEF LinkInv
<1>1. /\ socket[s][c] \in {"open", "ended"} /\ socket' = Closed(s, {c})
      /\ UNCHANGED <<isClosing, known, left, late>>
  BY CloseConnectionCases
<1>2. CASE /\ wire' = Drained(wire, s, {c})
           /\ pending' = [pending EXCEPT ![s] = RemoveFirst(pending[s], c)]
           /\ \/ connection[s] # c /\ UNCHANGED connection
              \/ /\ connection[s] = c /\ connection' = [connection EXCEPT ![s] = None]
                 /\ s # Authority \/ NonePicked(c)
  <2>1. pending[s] \in Seq(Conns) /\ Distinct(pending[s])
    BY <1>0 DEF LinkInv, Types
  <2>2. /\ pending' \in [Sides -> Seq(Conns)] /\ Distinct(pending'[s])
        /\ \A d \in Conns : Contains(pending'[s], d) <=> Contains(pending[s], d) /\ d # c
        /\ \A t \in Sides : t # s => pending'[t] = pending[t]
    BY <1>0, <1>2, <2>1, RemoveLemma DEF Types
  <2>3. /\ connection' \in [Sides -> Conns \cup {None}]
        /\ connection'[s] = IF connection[s] = c THEN None ELSE connection[s]
        /\ \A t \in Sides : t # s => connection'[t] = connection[t]
    BY <1>0, <1>2 DEF Types
  <2>4. ClosingHoldsNothing'
    <3>1. \A x : ~Contains(<<>>, x)
      BY QueueLemma
    <3>2. isClosing[s] => connection[s] = None /\ pending[s] = <<>>
      BY DEF LinkInv, ClosingHoldsNothing
    <3>3. isClosing[s] => pending'[s] = <<>>
      <4>1. ASSUME isClosing[s] PROVE RemoveFirst(pending[s], c) = <<>>
        <5>1. pending[s] = <<>>
          BY <3>2, <4>1
        <5> QED
          BY <5>1 DEF RemoveFirst, SelectInSeq
      <4> QED
        BY <1>0, <1>2, <4>1 DEF Types
    <3> QED
      BY <1>1, <2>2, <2>3, <3>2, <3>3 DEF LinkInv, ClosingHoldsNothing
  <2>5. left' \subseteq Sides /\ isClosing' \in [Sides -> BOOLEAN] /\ UNCHANGED <<known, late>>
    BY <1>0, <1>1 DEF Types
  <2> DEFINE C == {c}
  <2>6. C \in SUBSET Conns /\ \A x : x \in C <=> x = c
    OBVIOUS
  <2>7. socket' = Closed(s, C) /\ wire' = Drained(wire, s, C)
    BY <1>1, <1>2
  <2> HIDE DEF C
  <2>8. /\ \A d \in C : socket[s][d] # "none"
        /\ connection'[s] = IF connection[s] \in C THEN None ELSE connection[s]
        /\ \A d \in Conns : Contains(pending'[s], d) <=> Contains(pending[s], d) /\ d \notin C
    BY <1>1, <2>2, <2>3, <2>6
  <2>9. s = Authority /\ connection[s] \in C =>
          \A d \in Conns \ C : Contains(pending[s], d) => ~IsOpen(s, d)
    BY <1>2, <2>6 DEF NonePicked
  <2> QED
    BY <2>2, <2>3, <2>4, <2>5, <2>6, <2>7, <2>8, <2>9, CloseEndsInv DEF Effect
<1>3. CASE /\ s = Authority /\ connection[s] = c /\ ~isClosing[s]
           /\ \E d \in Conns :
                /\ Contains(RemoveFirst(pending[s], c), d) /\ IsOpen(s, d)
                /\ Confirm(s, d, RemoveFirst(pending[s], c), Drained(wire, s, {c}))
  <2>1. PICK d \in Conns : /\ Contains(RemoveFirst(pending[s], c), d) /\ IsOpen(s, d)
                           /\ Confirm(s, d, RemoveFirst(pending[s], c), Drained(wire, s, {c}))
    BY <1>3
  <2> QED
    BY <1>1, <1>3, <2>1, PickInv DEF Effect
<1> QED
  BY <1>2, <1>3, CloseConnectionCases

LEMMA LinkInvNext ==
  ASSUME LinkInv, [Next]_vars
  PROVE  LinkInv' /\ UNCHANGED late /\ (Effect \/ UNCHANGED vars)
<1>1. ASSUME NEW s \in Sides, NEW c \in Conns, OnConnection(s, c)
      PROVE  LinkInv' /\ Effect /\ UNCHANGED late
  BY <1>1, OnConnectionInv DEF Effect, OnConnection
<1>2. ASSUME NEW s \in Sides, NEW c \in Conns, AddConnection(s, c)
      PROVE  LinkInv' /\ Effect /\ UNCHANGED late
  <2>1. CASE isClosing[s]
    <3>1. {c} \in SUBSET Conns
      OBVIOUS
    <3> QED
      BY <1>2, <2>1, <3>1, AddClosingInv DEF Effect, AddConnection
  <2>2. CASE ~isClosing[s] /\ ~MayConfirm(s)
    BY <1>2, <2>2, AddPendingInv DEF Effect, AddConnection
  <2>3. CASE ~isClosing[s] /\ MayConfirm(s)
    BY <1>2, <2>3, AddConfirmInv DEF Effect, AddConnection
  <2> QED
    BY <2>1, <2>2, <2>3
<1>3. ASSUME NEW s \in Sides, NEW c \in Conns, OnConfirmConnection(s, c)
      PROVE  LinkInv' /\ Effect /\ UNCHANGED late
  BY <1>3, OnConfirmConnectionInv DEF Effect, OnConfirmConnection
<1>4. ASSUME NEW s \in Sides, NEW c \in Conns, SocketEnd(s, c)
      PROVE  LinkInv' /\ Effect /\ UNCHANGED late
  BY <1>4, SocketEndInv DEF Effect, SocketEnd
<1>5. ASSUME NEW s \in Sides, NEW c \in Conns, CloseConnection(s, c)
      PROVE  LinkInv' /\ Effect /\ UNCHANGED late
  BY <1>5, CloseConnectionInv DEF CloseConnection
<1>6. ASSUME NEW s \in Sides, Close(s)
      PROVE  LinkInv' /\ Effect /\ UNCHANGED late
  BY <1>6, CloseInv DEF Effect, Close
<1>7. CASE UNCHANGED vars
  BY <1>7 DEF vars, LinkInv, Types, WireInv, HeldInv, ConfirmInv, FollowInv, UntakenInv,
              ClosingHoldsNothing, HasInfo, HasConfirm, IsHeld
<1> QED
  BY <1>1, <1>2, <1>3, <1>4, <1>5, <1>6, <1>7 DEF Next

\* The type invariant holds of every number of connections.
\* (NetworkPeer.ts: the members of the class and what onMsg receives)
THEOREM TypeCorrect == Spec => []TypeOK
<1>1. Init => LinkInv
  BY LinkInvInit
<1>2. LinkInv /\ [Next]_vars => LinkInv'
  BY LinkInvNext
<1>3. LinkInv => TypeOK
  BY TypesLemma DEF LinkInv
<1> QED
  BY <1>1, <1>2, <1>3, PTL DEF Spec

\* A peer that is closing holds no connection and takes none, whatever was on
\* its way.  (NetworkPeer.close, addConnection, onConnectionClosed)
THEOREM ClosingHolds == Spec => []ClosingHoldsNothing
<1>1. Init => LinkInv
  BY LinkInvInit
<1>2. LinkInv /\ [Next]_vars => LinkInv'
  BY LinkInvNext
<1>3. LinkInv => ClosingHoldsNothing
  BY DEF LinkInv
<1> QED
  BY <1>1, <1>2, <1>3, PTL DEF Spec

-----------------------------------------------------------------------------
(* A connection that may be used is found when one is needed *)

\* AuthorityNeverIdles, without the places of the pending connections.
NeverIdles ==
  connection[Authority] = None =>
    \A d \in Conns : Contains(pending[Authority], d) => ~IsOpen(Authority, d)

LEMMA NeverIdlesLemma == Types => (NeverIdles <=> AuthorityNeverIdles)
<1> SUFFICES ASSUME Types PROVE NeverIdles <=> AuthorityNeverIdles
  OBVIOUS
<1>1. pending[Authority] \in Seq(Conns)
  BY SidesLemma DEF Types
<1>2. /\ DOMAIN pending[Authority] = 1..Len(pending[Authority])
      /\ \A i \in 1..Len(pending[Authority]) : pending[Authority][i] \in Conns
  BY <1>1, LenProperties
<1> QED
  BY <1>2 DEF NeverIdles, AuthorityNeverIdles, Contains

\* HeldOnTime of one connection.
Findable(s, c) ==
  ~late /\ IsOpen(s, c) /\ IsOpen(Peer(s), c) /\ ~HasInfo(s, c) => IsHeld(s, c)

LEMMA FindableLemma == HeldOnTime <=> \A s \in Sides, c \in Conns : Findable(s, c)
<1>1. \A s \in Sides, c \in Conns :
        (\A t \in Sides : IsOpen(t, c)) <=> IsOpen(s, c) /\ IsOpen(Peer(s), c)
  BY SidesLemma
<1> QED
  BY <1>1 DEF HeldOnTime, Findable, HasInfo

LEMMA NeverIdlesNext ==
  ASSUME LinkInv, NeverIdles, Effect
  PROVE  NeverIdles'
<1>0. /\ Authority \in Sides /\ Other \in Sides /\ Authority # Other
      /\ \A d \in Conns : HeldInv(Authority, d)
  BY SidesLemma DEF LinkInv
<1> USE DEF IsOpen
<1>1. ASSUME NEW s \in Sides, NEW c \in Conns, Opens(s, c)
      PROVE  NeverIdles'
  <2>1. ~(s = Authority /\ Contains(pending[Authority], c))
    BY <1>0, <1>1 DEF Opens, HeldInv, IsHeld
  <2> QED
    BY <1>0, <1>1, <2>1 DEF Opens, NeverIdles
<1>2. ASSUME NEW s \in Sides, NEW c \in Conns, Keeps(s, c)
      PROVE  NeverIdles'
  <2>1. s = Authority => connection[s] # None
    BY <1>2 DEF Keeps, MayConfirm, IsConnected
  <2> QED
    BY <1>0, <1>2, <2>1 DEF Keeps, Reads, NeverIdles
<1>3. ASSUME NEW s \in Sides, NEW c \in Conns, Takes(s, c)
      PROVE  NeverIdles'
  BY <1>0, <1>3, ConstantsAssumption DEF Takes, Reads, NeverIdles
<1>4. ASSUME NEW s \in Sides, NEW c \in Conns, Fails(s, c)
      PROVE  NeverIdles'
  BY <1>0, <1>4 DEF Fails, NeverIdles
<1>5. ASSUME NEW s \in Sides, NEW C \in SUBSET Conns, Drops(s, C)
      PROVE  NeverIdles'
  BY <1>0, <1>5 DEF Drops, Shuts, NeverIdles
<1>6. ASSUME NEW c \in Conns, NEW d \in Conns, Swaps(c, d)
      PROVE  NeverIdles'
  BY <1>0, <1>6, ConstantsAssumption DEF Swaps, NeverIdles
<1> QED
  BY <1>1, <1>2, <1>3, <1>4, <1>5, <1>6 DEF Effect

LEMMA FindableNext ==
  ASSUME LinkInv, \A s \in Sides, c \in Conns : Findable(s, c), Effect, UNCHANGED late,
         NEW t \in Sides, NEW d \in Conns
  PROVE  Findable(t, d)'
<1>0. Findable(t, d) /\ WireInv(t, d) /\ Peer(t) \in Sides /\ Peer(t) # t
  BY PeerLemma DEF LinkInv
<1> USE DEF IsOpen
<1>1. ASSUME NEW s \in Sides, NEW c \in Conns, Opens(s, c)
      PROVE  Findable(t, d)'
  <2>1. CASE d # c
    BY <1>0, <1>1, <2>1 DEF Opens, Findable, IsHeld
  <2>2. CASE d = c /\ t = s
    BY <1>0, <1>1, <2>2 DEF Opens, Findable, WireInv
  <2>3. CASE d = c /\ t # s
    <3>1. t = Peer(s)
      BY <2>3, SidesLemma
    <3>2. socket'[t][d] = "open" => HasInfo(t, d)'
      BY <1>1, <2>3, <3>1 DEF Opens
    <3> QED
      BY <3>2 DEF Findable
  <2> QED
    BY <2>1, <2>2, <2>3
<1>2. ASSUME NEW s \in Sides, NEW c \in Conns, Keeps(s, c)
      PROVE  Findable(t, d)'
  BY <1>0, <1>2 DEF Keeps, Reads, Findable, IsHeld
<1>3. ASSUME NEW s \in Sides, NEW c \in Conns, Takes(s, c)
      PROVE  Findable(t, d)'
  <2>1. CASE t # s \/ d = c
    BY <1>0, <1>3, <2>1 DEF Takes, Reads, Findable, IsHeld
  <2>2. CASE t = s /\ d # c
    <3>1. IsHeld(t, d)' <=> Contains(pending[t], d)
      BY <1>3, <2>2 DEF Takes, IsHeld
    <3>2. /\ HasInfo(t, d)' <=> HasInfo(t, d)
          /\ UNCHANGED <<socket, late>>
      BY <1>3, <2>2 DEF Takes, Reads
    <3>3. ~late /\ connection[t] = d => ~IsOpen(t, d) \/ ~IsOpen(Peer(t), d)
      <4>1. CASE s = Authority
        BY <1>3, <2>2, <4>1, SidesLemma, ConstantsAssumption DEF Takes, IsConnected
      <4>2. CASE s = Other
        <5>1. ~late => connection[Authority] = c
          BY <1>3, <4>2, SidesLemma DEF Takes
        <5>2. FollowInv(d)
          BY DEF LinkInv
        <5> QED
          BY <2>2, <4>2, <5>1, <5>2, SidesLemma DEF FollowInv
      <4> QED
        BY <4>1, <4>2, SidesLemma
    <3> QED
      BY <1>0, <3>1, <3>2, <3>3 DEF Findable, IsHeld
  <2> QED
    BY <2>1, <2>2
<1>4. ASSUME NEW s \in Sides, NEW c \in Conns, Fails(s, c)
      PROVE  Findable(t, d)'
  <2>1. CASE d # c
    BY <1>0, <1>4, <2>1 DEF Fails, Findable, IsHeld
  <2>2. CASE d = c
    <3>1. socket'[t][d] # "open" \/ socket'[Peer(t)][d] # "open"
      BY <1>0, <1>4, <2>2, SidesLemma DEF Fails
    <3> QED
      BY <3>1 DEF Findable
  <2> QED
    BY <2>1, <2>2
<1>5. ASSUME NEW s \in Sides, NEW C \in SUBSET Conns, Drops(s, C)
      PROVE  Findable(t, d)'
  <2>1. CASE d \in C
    <3>1. socket'[t][d] # "open" \/ socket'[Peer(t)][d] # "open"
      BY <1>0, <1>5, <2>1, SidesLemma DEF Drops, Shuts
    <3> QED
      BY <3>1 DEF Findable
  <2>2. CASE d \notin C
    <3>1. IsHeld(t, d) => IsHeld(t, d)'
      BY <1>5, <2>2 DEF Drops, IsHeld
    <3>2. /\ HasInfo(t, d)' <=> HasInfo(t, d)
          /\ socket'[t][d] = socket[t][d] /\ socket'[Peer(t)][d] = socket[Peer(t)][d]
      BY <1>0, <1>5, <2>2 DEF Drops, Shuts
    <3> QED
      BY <1>0, <3>1, <3>2 DEF Findable
  <2> QED
    BY <2>1, <2>2
<1>6. ASSUME NEW c \in Conns, NEW x \in Conns, Swaps(c, x)
      PROVE  Findable(t, d)'
  <2>0. Shuts(Authority, {c}) /\ Authority \in Sides
    BY <1>6, SidesLemma DEF Swaps
  <2>1. CASE d = c
    <3>1. socket'[t][d] # "open" \/ socket'[Peer(t)][d] # "open"
      BY <1>0, <2>0, <2>1, SidesLemma DEF Shuts
    <3> QED
      BY <3>1 DEF Findable
  <2>2. CASE d # c
    <3>1. IsHeld(t, d) => IsHeld(t, d)'
      BY <1>6, <2>2 DEF Swaps, IsHeld
    <3>2. /\ HasInfo(t, d)' <=> HasInfo(t, d)
          /\ socket'[t][d] = socket[t][d] /\ socket'[Peer(t)][d] = socket[Peer(t)][d]
      BY <1>0, <2>0, <2>2 DEF Shuts
    <3> QED
      BY <1>0, <3>1, <3>2 DEF Findable
  <2> QED
    BY <2>1, <2>2
<1> QED
  BY <1>1, <1>2, <1>3, <1>4, <1>5, <1>6 DEF Effect

\* An authority without a connection has no open one pending; and where
\* nothing outlives close(), a connection that works at both ends and was
\* introduced is in use or pending at each.
\* (addConnection, confirmConnection, pickNewConnection)
THEOREM Orphans == Spec => []NothingOrphaned
<1> DEFINE Inv == /\ LinkInv
                  /\ NeverIdles
                  /\ \A s \in Sides, c \in Conns : Findable(s, c)
<1>1. Init => Inv
  <2> SUFFICES ASSUME Init PROVE Inv
    OBVIOUS
  <2>1. NeverIdles
    BY QueueLemma, SidesLemma DEF Init, NeverIdles
  <2>2. \A s \in Sides, c \in Conns : Findable(s, c)
    BY DEF Init, Findable, IsOpen
  <2> QED
    BY <2>1, <2>2, LinkInvInit
<1>2. Inv /\ [Next]_vars => Inv'
  <2> SUFFICES ASSUME Inv, [Next]_vars PROVE Inv'
    OBVIOUS
  <2>1. LinkInv' /\ UNCHANGED late /\ (Effect \/ UNCHANGED vars)
    BY LinkInvNext
  <2>2. CASE Effect
    BY <2>1, <2>2, NeverIdlesNext, FindableNext
  <2>3. CASE UNCHANGED vars
    BY <2>1, <2>3 DEF vars, NeverIdles, Findable, IsOpen, IsHeld, HasInfo
  <2> QED
    BY <2>1, <2>2, <2>3
<1>3. Inv => NothingOrphaned
  BY NeverIdlesLemma, FindableLemma DEF LinkInv, NothingOrphaned
<1> QED
  BY <1>1, <1>2, <1>3, PTL DEF Spec

-----------------------------------------------------------------------------
(* Two NetworkPeers keep the promise of PeerLink *)

Taken(s, c) ==
  /\ socket[Peer(s)][c] # "none"
  /\ ~HasInfo(s, c) /\ ~Contains(pending[s], c)

\* What End says of an end, before and after a step.
EndIs(s, c) ==
  /\ Ends[s][c] = End(s, c)
  /\ socket[s][c] = "none" => End(s, c) = "none"
  /\ socket[s][c] \in {"ended", "closed"} => End(s, c) = "gone"
  /\ socket[s][c] = "open" /\ Taken(s, c) => End(s, c) = "used"
  /\ socket[s][c] = "open" /\ ~Taken(s, c) => End(s, c) = "idle"

LEMMA EndLemma ==
  ASSUME NEW s \in Sides, NEW c \in Conns
  PROVE  EndIs(s, c) /\ EndIs(s, c)'
BY DEF EndIs, Ends, End, Taken, MayBeTaken, HasInfo, IsOpen

\* An end is as before if what is known about it is.
LEMMA SameEnd ==
  ASSUME NEW s \in Sides, NEW c \in Conns,
         socket'[s][c] = socket[s][c],
         socket[s][c] = "open" => (Taken(s, c)' <=> Taken(s, c)),
         socket[s][c] \in {"none", "open", "ended", "closed"}
  PROVE  End(s, c)' = End(s, c)
BY EndLemma DEF EndIs

LEMMA SetEnd ==
  ASSUME NEW s \in Sides, NEW c \in Conns, NEW v,
         \A t \in Sides, d \in Conns :
           End(t, d)' = IF t = s /\ d = c THEN v ELSE End(t, d)
  PROVE  Ends' = [Ends EXCEPT ![s][c] = v]
  BY DEF Ends

LEMMA SetEndOf ==
  ASSUME NEW e, e = [t \in Sides |-> [d \in Conns |-> e[t][d]]],
         NEW s \in Sides, NEW c \in Conns, NEW v,
         \A t \in Sides, d \in Conns :
           End(t, d)' = IF t = s /\ d = c THEN v ELSE e[t][d]
  PROVE  Ends' = [e EXCEPT ![s][c] = v]
<1>1. Ends' = [t \in Sides |-> [d \in Conns |->
                 IF t = s /\ d = c THEN v ELSE e[t][d]]]
  BY DEF Ends
<1>2. [e EXCEPT ![s][c] = v] = [t \in Sides |-> [d \in Conns |->
                                  IF t = s /\ d = c THEN v ELSE e[t][d]]]
  OBVIOUS
<1> QED
  BY <1>1, <1>2

LEMMA SetDead ==
  ASSUME NEW s \in Sides, NEW D, NEW lost,
         \A t \in Sides, d \in Conns :
           End(t, d)' = IF t = s THEN IF d \in D THEN "gone" ELSE End(t, d)
                        ELSE IF d \in lost THEN "used" ELSE End(t, d)
  PROVE  Ends' = Link!Dead(s, D, lost)
<1>1. Peer(s) \in Sides /\ Peer(s) # s /\ \A t \in Sides : t = s \/ t = Peer(s)
  BY SidesLemma
<1>2. Link!Peer(s) = Peer(s)
  BY DEF Link!Peer, Peer, Link!Authority, Link!Other, Authority, Other
<1> QED
  BY <1>1, <1>2 DEF Ends, Link!Dead

LEMMA LinkSides ==
  /\ Link!Authority = Authority /\ Link!Other = Other /\ Link!Sides = Sides
  /\ \A s : Link!Peer(s) = Peer(s)
BY DEF Link!Authority, Link!Other, Link!Sides, Link!Peer, Authority, Other, Sides, Peer

LEMMA OpensLink ==
  ASSUME LinkInv, NEW s \in Sides, NEW c \in Conns, Opens(s, c)
  PROVE  Link!Open(s, c)
<1>0. /\ Peer(s) \in Sides /\ Peer(s) # s /\ Peer(Peer(s)) = s
      /\ \A t \in Sides : t = s \/ t = Peer(s)
      /\ \A t \in Sides, d \in Conns : socket[t][d] \in {"none", "open", "ended", "closed"}
      /\ \A t \in Sides, d \in Conns : EndIs(t, d) /\ EndIs(t, d)'
  BY PeerLemma, SidesLemma, EndLemma DEF LinkInv, Types
<1>1. \A t \in Sides, d \in Conns : d # c => End(t, d)' = End(t, d)
  <2> SUFFICES ASSUME NEW t \in Sides, NEW d \in Conns, d # c PROVE End(t, d)' = End(t, d)
    OBVIOUS
  <2>1. Peer(t) \in Sides
    BY PeerLemma
  <2>2. socket'[t][d] = socket[t][d] /\ (Taken(t, d)' <=> Taken(t, d))
    BY <2>1 DEF Opens, Taken
  <2> QED
    BY <1>0, <2>2, SameEnd
<1>2. End(Peer(s), c)' = End(Peer(s), c)
  <2>1. socket'[Peer(s)][c] = socket[Peer(s)][c]
    BY <1>0 DEF Opens
  <2>2. socket[Peer(s)][c] = "open" => HasInfo(Peer(s), c)' /\ ~Taken(Peer(s), c)'
    BY <1>0 DEF Opens, Taken
  <2>3. ~Taken(Peer(s), c)
    BY <1>0 DEF Opens, Taken
  <2> QED
    BY <1>0, <2>1, <2>2, <2>3, SameEnd
<1>3. socket[s][c] = "none" /\ socket'[s][c] = "open" /\ Ends[s][c] = "none"
  BY <1>0 DEF Opens, EndIs
<1>4. CASE Taken(s, c)'
  <2>1. socket[Peer(s)][c] \in {"ended", "closed"}
    <3>1. socket[Peer(s)][c] # "open"
      <4>1. socket[Peer(s)][c] = "open" => HasInfo(s, c)
        BY <1>3 DEF LinkInv, WireInv
      <4>2. HasInfo(s, c) => HasInfo(s, c)'
        BY DEF Opens
      <4> QED
        BY <1>4, <4>1, <4>2 DEF Taken
    <3>2. socket[Peer(s)][c] # "none"
      BY <1>0, <1>4 DEF Opens, Taken
    <3> QED
      BY <1>0, <3>1, <3>2
  <2>2. End(s, c)' = "used" /\ Ends[Peer(s)][c] = "gone"
    BY <1>0, <1>3, <1>4, <2>1 DEF EndIs
  <2>3. Ends' = [Ends EXCEPT ![s][c] = "used"]
    <3>1. \A t \in Sides, d \in Conns :
            End(t, d)' = IF t = s /\ d = c THEN "used" ELSE End(t, d)
      BY <1>0, <1>1, <1>2, <2>2
    <3> QED
      BY <3>1, SetEnd
  <2> QED
    BY <1>3, <2>2, <2>3, LinkSides DEF Link!Open, Opens
<1>5. CASE ~Taken(s, c)'
  <2>1. End(s, c)' = "idle"
    BY <1>0, <1>3, <1>5 DEF EndIs
  <2>2. Ends' = [Ends EXCEPT ![s][c] = "idle"]
    <3>1. \A t \in Sides, d \in Conns :
            End(t, d)' = IF t = s /\ d = c THEN "idle" ELSE End(t, d)
      BY <1>0, <1>1, <1>2, <2>1
    <3> QED
      BY <3>1, SetEnd
  <2> QED
    BY <1>3, <2>2, LinkSides DEF Link!Open, Opens
<1> QED
  BY <1>4, <1>5

LEMMA KeepsLink ==
  ASSUME LinkInv, NEW s \in Sides, NEW c \in Conns, Keeps(s, c)
  PROVE  UNCHANGED <<Ends, connection>>
<1>1. \A t \in Sides, d \in Conns : Taken(t, d)' <=> Taken(t, d)
  BY DEF Keeps, Reads, Taken
<1>2. \A t \in Sides, d \in Conns :
        /\ socket'[t][d] = socket[t][d]
        /\ socket[t][d] \in {"none", "open", "ended", "closed"}
  BY DEF Keeps, Reads, LinkInv, Types
<1>3. \A t \in Sides, d \in Conns : End(t, d)' = End(t, d)
  BY <1>1, <1>2, SameEnd
<1> QED
  BY <1>3 DEF Ends, Keeps

LEMMA TakesLink ==
  ASSUME LinkInv, LinkInv', NEW s \in Sides, NEW c \in Conns, Takes(s, c)
  PROVE  Link!Choose(c) \/ Link!Follow(c)
<1>0. /\ Authority \in Sides /\ Other \in Sides /\ Authority # Other
      /\ Peer(Authority) = Other /\ Peer(Other) = Authority
      /\ s = Authority \/ s = Other
      /\ \A t \in Sides, d \in Conns : socket[t][d] \in {"none", "open", "ended", "closed"}
      /\ \A t \in Sides, d \in Conns : EndIs(t, d) /\ EndIs(t, d)'
  BY SidesLemma, EndLemma DEF LinkInv, Types
<1>1. \A t \in Sides, d \in Conns : ~(t = s /\ d = c) => End(t, d)' = End(t, d)
  <2> SUFFICES ASSUME NEW t \in Sides, NEW d \in Conns, ~(t = s /\ d = c)
               PROVE  End(t, d)' = End(t, d)
    OBVIOUS
  <2>1. socket'[t][d] = socket[t][d] /\ (Taken(t, d)' <=> Taken(t, d))
    BY DEF Takes, Reads, Taken
  <2> QED
    BY <1>0, <2>1, SameEnd
<1>2. ~Taken(s, c) /\ Taken(s, c)'
  BY DEF Takes, Reads, Taken
<1>3. End(s, c) = "idle" /\ End(s, c)' = "used" /\ Ends[s][c] = "idle"
  <2>1. socket[s][c] = "open" /\ socket'[s][c] = "open"
    BY DEF Takes, Reads
  <2> QED
    BY <1>0, <1>2, <2>1 DEF EndIs
<1>4. Ends' = [Ends EXCEPT ![s][c] = "used"]
  <2>1. \A t \in Sides, d \in Conns :
          End(t, d)' = IF t = s /\ d = c THEN "used" ELSE End(t, d)
    BY <1>1, <1>3
  <2> QED
    BY <2>1, SetEnd
<1>5. connection' = [connection EXCEPT ![s] = c]
  <2>1. connection \in [Sides -> Conns \cup {None}]
    BY DEF LinkInv, Types
  <2>2. connection' \in [Sides -> Conns \cup {None}]
    BY DEF LinkInv, Types
  <2> QED
    BY <2>1, <2>2 DEF Takes
<1>6. CASE s = Authority
  <2>1. ~IsConnected(Authority)
    BY <1>0, <1>6 DEF Takes
  <2>2. ~Link!IsBusy(Authority)
    <3> SUFFICES ASSUME connection[Authority] # None
                 PROVE  Ends[Authority][connection[Authority]] \notin {"idle", "used"}
      BY DEF Link!IsBusy, Link!IsLive
    <3>1. connection[Authority] \in Conns
      BY <1>0 DEF LinkInv, Types
    <3>2. socket[Authority][connection[Authority]] # "open"
      BY <2>1 DEF IsConnected, IsOpen
    <3> QED
      BY <1>0, <3>1, <3>2 DEF EndIs
  <2>3. Ends[Other][c] # "none"
    <3>1. socket[Other][c] # "none"
      BY <1>0, <1>6 DEF Takes, Reads
    <3> QED
      BY <1>0, <3>1 DEF EndIs
  <2> QED
    BY <1>3, <1>4, <1>5, <1>6, <2>2, <2>3, LinkSides DEF Link!Choose
<1>7. CASE s = Other
  <2>1. c = connection[Authority] \/ (TRUE \in LateDelivery /\ Ends[Authority][c] = "gone")
    <3>1. connection[Authority] = c \/ (late /\ socket[Authority][c] = "closed")
      BY <1>0, <1>7 DEF Takes
    <3>2. late => TRUE \in LateDelivery
      <4>1. late \in LateDelivery /\ late \in BOOLEAN
        BY ConstantsAssumption DEF LinkInv, Types
      <4> QED
        BY <4>1
    <3>3. socket[Authority][c] = "closed" => Ends[Authority][c] = "gone"
      BY <1>0 DEF EndIs
    <3> QED
      BY <3>1, <3>2, <3>3, Zenon
  <2> QED
    BY <1>3, <1>4, <1>5, <1>7, <2>1, LinkSides DEF Link!Follow
<1> QED
  BY <1>0, <1>6, <1>7

LEMMA FailsLink ==
  ASSUME LinkInv, NEW s \in Sides, NEW c \in Conns, Fails(s, c)
  PROVE  Link!Down(s, {c})
<1>0. /\ Peer(s) \in Sides /\ Peer(s) # s /\ Peer(Peer(s)) = s
      /\ \A t \in Sides : t = s \/ t = Peer(s)
      /\ \A t \in Sides, d \in Conns : socket[t][d] \in {"none", "open", "ended", "closed"}
      /\ \A t \in Sides, d \in Conns : EndIs(t, d) /\ EndIs(t, d)'
  BY PeerLemma, SidesLemma, EndLemma DEF LinkInv, Types
<1>1. \A t \in Sides, d \in Conns : ~(t = s /\ d = c) => End(t, d)' = End(t, d)
  <2> SUFFICES ASSUME NEW t \in Sides, NEW d \in Conns, ~(t = s /\ d = c)
               PROVE  End(t, d)' = End(t, d)
    OBVIOUS
  <2>0. Peer(t) \in Sides
    BY PeerLemma
  <2>1. socket'[t][d] = socket[t][d]
    BY DEF Fails
  <2>2. CASE d # c
    <3>1. Taken(t, d)' <=> Taken(t, d)
      BY <2>0, <2>2 DEF Fails, Taken
    <3> QED
      BY <1>0, <2>1, <3>1, SameEnd
  <2>3. CASE d = c
    <3>1. t = Peer(s) /\ socket[t][d] # "open"
      BY <1>0, <2>3 DEF Fails
    <3> QED
      BY <1>0, <2>1, <3>1, SameEnd
  <2> QED
    BY <2>2, <2>3
<1>2. End(s, c)' = "gone" /\ Ends'[s][c] = "gone" /\ Ends[s][c] # "none"
  BY <1>0 DEF Fails, EndIs
<1>3. Ends' = Link!Dead(s, {c}, {})
  <2>1. \A t \in Sides, d \in Conns :
          End(t, d)' = IF t = s THEN IF d \in {c} THEN "gone" ELSE End(t, d)
                       ELSE IF d \in {} THEN "used" ELSE End(t, d)
    BY <1>1, <1>2
  <2> QED
    BY <2>1, SetDead
<1>4. UNCHANGED connection
  BY DEF Fails
<1>5. {} \in SUBSET {d \in {c} : Ends[Link!Peer(s)][d] = "idle"}
  OBVIOUS
<1> QED
  BY <1>2, <1>3, <1>4, <1>5, Zenon DEF Link!Down

\* What becomes of the ends when s closes those of C: the others are as they
\* were, except that the peer may not learn any more that it may use one.
LEMMA ShutsLink ==
  ASSUME LinkInv, NEW s \in Sides, NEW C \in SUBSET Conns, Shuts(s, C),
         pending'[Peer(s)] = pending[Peer(s)] \/
           \A d \in Conns : Contains(pending'[Peer(s)], d) <=> Contains(pending[Peer(s)], d)
  PROVE  LET p == Peer(s)
             lost == {d \in C : Ends[p][d] = "idle" /\ Ends'[p][d] = "used"}
         IN /\ lost \in SUBSET {d \in C : Ends[Link!Peer(s)][d] = "idle"}
            /\ \A d \in C : Ends[s][d] # "none" /\ Ends'[s][d] = "gone"
            /\ \A d \in Conns :
                 /\ d \in C => End(s, d)' = "gone"
                 /\ d \notin C /\ (Contains(pending'[s], d) <=> Contains(pending[s], d)) =>
                      End(s, d)' = End(s, d)
                 /\ End(p, d)' = IF d \in lost THEN "used" ELSE End(p, d)
<1> DEFINE p == Peer(s)
           lost == {d \in C : Ends[p][d] = "idle" /\ Ends'[p][d] = "used"}
<1>0. /\ p \in Sides /\ p # s /\ Peer(p) = s /\ Link!Peer(s) = p
      /\ \A t \in Sides, d \in Conns : socket[t][d] \in {"none", "open", "ended", "closed"}
      /\ \A t \in Sides, d \in Conns : EndIs(t, d) /\ EndIs(t, d)'
      /\ \A d \in Conns : Contains(pending'[p], d) <=> Contains(pending[p], d)
  BY PeerLemma, EndLemma, LinkSides DEF LinkInv, Types
<1>1. lost \in SUBSET {d \in C : Ends[Link!Peer(s)][d] = "idle"}
  BY <1>0
<1>2. \A d \in C : Ends[s][d] # "none" /\ Ends'[s][d] = "gone" /\ End(s, d)' = "gone"
  <2> SUFFICES ASSUME NEW d \in C
               PROVE  Ends[s][d] # "none" /\ Ends'[s][d] = "gone" /\ End(s, d)' = "gone"
    OBVIOUS
  <2>1. d \in Conns /\ socket[s][d] # "none" /\ socket'[s][d] = "closed"
    BY DEF Shuts
  <2> QED
    BY <1>0, <2>1 DEF EndIs
<1>3. ASSUME NEW d \in Conns, d \notin C
      PROVE  /\ (Contains(pending'[s], d) <=> Contains(pending[s], d)) => End(s, d)' = End(s, d)
             /\ End(p, d)' = End(p, d)
  <2>1. /\ socket'[s][d] = socket[s][d] /\ socket'[p][d] = socket[p][d]
        /\ HasInfo(s, d)' <=> HasInfo(s, d)
        /\ HasInfo(p, d)' <=> HasInfo(p, d)
    BY <1>0, <1>3 DEF Shuts
  <2>2. Taken(p, d)' <=> Taken(p, d)
    BY <1>0, <2>1 DEF Taken
  <2>3. (Contains(pending'[s], d) <=> Contains(pending[s], d)) => (Taken(s, d)' <=> Taken(s, d))
    BY <1>0, <2>1 DEF Taken
  <2> QED
    BY <1>0, <2>1, <2>2, <2>3, SameEnd
<1>4. ASSUME NEW d \in C
      PROVE  End(p, d)' = IF d \in lost THEN "used" ELSE End(p, d)
  <2>0. d \in Conns
    OBVIOUS
  <2>1. /\ socket'[p][d] = socket[p][d] /\ socket[s][d] # "none" /\ socket'[s][d] # "none"
        /\ HasInfo(p, d)' => HasInfo(p, d)
    BY <1>0, <2>0 DEF Shuts
  <2>2. Taken(p, d) => Taken(p, d)'
    BY <1>0, <2>0, <2>1 DEF Taken
  <2>3. /\ Ends'[p][d] = End(p, d)' /\ Ends[p][d] = End(p, d)
        /\ End(p, d)' = End(p, d) \/ (End(p, d) = "idle" /\ End(p, d)' = "used")
    <3>1. EndIs(p, d) /\ EndIs(p, d)' /\ socket[p][d] \in {"none", "open", "ended", "closed"}
      BY <1>0, <2>0
    <3> QED
      BY <2>1, <2>2, <3>1 DEF EndIs
  <2>4. d \in lost <=> Ends[p][d] = "idle" /\ Ends'[p][d] = "used"
    OBVIOUS
  <2> HIDE DEF lost, p
  <2> QED
    BY <2>3, <2>4
<1>5. ASSUME NEW d \in Conns
      PROVE  /\ d \in C => End(s, d)' = "gone"
             /\ d \notin C /\ (Contains(pending'[s], d) <=> Contains(pending[s], d)) =>
                  End(s, d)' = End(s, d)
             /\ End(p, d)' = IF d \in lost THEN "used" ELSE End(p, d)
  <2>1. d \in lost => d \in C
    OBVIOUS
  <2> HIDE DEF lost, p
  <2> QED
    BY <1>2, <1>3, <1>4, <2>1
<1> QED
  BY <1>1, <1>2, <1>5

LEMMA DropsLink ==
  ASSUME LinkInv, LinkInv', NEW s \in Sides, NEW C \in SUBSET Conns, Drops(s, C)
  PROVE  Link!Down(s, C)
<1> DEFINE p == Peer(s)
           lost == {d \in C : Ends[p][d] = "idle" /\ Ends'[p][d] = "used"}
<1>0. p \in Sides /\ p # s /\ \A t \in Sides : t = s \/ t = p
  BY PeerLemma, SidesLemma
<1>1. /\ lost \in SUBSET {d \in C : Ends[Link!Peer(s)][d] = "idle"}
      /\ \A d \in C : Ends[s][d] # "none" /\ Ends'[s][d] = "gone"
      /\ \A d \in Conns :
           /\ d \in C => End(s, d)' = "gone"
           /\ d \notin C /\ (Contains(pending'[s], d) <=> Contains(pending[s], d)) =>
                End(s, d)' = End(s, d)
           /\ End(p, d)' = IF d \in lost THEN "used" ELSE End(p, d)
  <2>1. /\ Shuts(s, C)
        /\ \A d \in Conns : Contains(pending'[p], d) <=> Contains(pending[p], d)
    BY <1>0 DEF Drops
  <2> QED
    BY <2>1, ShutsLink
<1>2. \A d \in Conns \ C : Contains(pending'[s], d) <=> Contains(pending[s], d)
  BY DEF Drops
<1> HIDE DEF p, lost
<1>3. Ends' = Link!Dead(s, C, lost)
  <2>1. \A t \in Sides, d \in Conns :
          End(t, d)' = IF t = s THEN IF d \in C THEN "gone" ELSE End(t, d)
                       ELSE IF d \in lost THEN "used" ELSE End(t, d)
    BY <1>0, <1>1, <1>2
  <2> QED
    BY <2>1, SetDead
<1>4. connection \in [Sides -> Conns \cup {None}] /\ connection' \in [Sides -> Conns \cup {None}]
  BY DEF LinkInv, Types
<1>5. CASE connection[s] \in C
  <2>1. connection' = [connection EXCEPT ![s] = None]
    BY <1>4, <1>5 DEF Drops
  <2> QED
    BY <1>1, <1>3, <1>5, <2>1 DEF Link!Down
<1>6. CASE connection[s] \notin C
  <2>1. UNCHANGED connection
    BY <1>4, <1>6 DEF Drops
  <2> QED
    BY <1>1, <1>3, <2>1 DEF Link!Down
<1> QED
  BY <1>5, <1>6

LEMMA SwapsLink ==
  ASSUME LinkInv, LinkInv', NEW c \in Conns, NEW d \in Conns, Swaps(c, d)
  PROVE  Link!Down(Authority, {c})
<1> DEFINE C == {c}
           lost == {x \in C : Ends[Other][x] = "idle" /\ Ends'[Other][x] = "used"}
<1>0. /\ Authority \in Sides /\ Other \in Sides /\ Authority # Other
      /\ Peer(Authority) = Other /\ \A t \in Sides : t = Authority \/ t = Other
      /\ C \in SUBSET Conns /\ \A x : x \in C <=> x = c
  BY SidesLemma
<1>1. /\ lost \in SUBSET {x \in C : Ends[Link!Peer(Authority)][x] = "idle"}
      /\ \A x \in C : Ends[Authority][x] # "none" /\ Ends'[Authority][x] = "gone"
      /\ \A x \in Conns :
           /\ x \in C => End(Authority, x)' = "gone"
           /\ x \notin C /\ (Contains(pending'[Authority], x) <=> Contains(pending[Authority], x)) =>
                End(Authority, x)' = End(Authority, x)
           /\ End(Other, x)' = IF x \in lost THEN "used" ELSE End(Other, x)
  <2>1. Shuts(Authority, C)
    BY DEF Swaps
  <2>2. \A x \in Conns : Contains(pending'[Other], x) <=> Contains(pending[Other], x)
    BY <1>0 DEF Swaps
  <2> HIDE DEF C
  <2> QED
    BY <1>0, <2>1, <2>2, ShutsLink
<1>2. /\ socket[Authority][d] = "open" /\ socket'[Authority][d] = "open"
      /\ socket[Other][d] # "none" /\ socket'[Other][d] # "none"
      /\ ~HasInfo(Authority, d) /\ Contains(pending[Authority], d)
      /\ ~HasInfo(Authority, d)' /\ ~Contains(pending'[Authority], d)
      /\ d \notin C
  <2>1. HeldInv(Authority, d)
    BY <1>0 DEF LinkInv
  <2> QED
    BY <1>0, <2>1 DEF Swaps, Shuts, HeldInv, IsHeld, IsOpen
<1>3. /\ Ends[Authority][d] = "idle" /\ End(Authority, d)' = "used"
      /\ Ends[Other][d] # "none"
  <2>1. /\ EndIs(Authority, d) /\ EndIs(Authority, d)' /\ EndIs(Other, d)
        /\ socket[Other][d] \in {"none", "open", "ended", "closed"}
    BY <1>0, EndLemma DEF LinkInv, Types
  <2>2. ~Taken(Authority, d) /\ Taken(Authority, d)'
    BY <1>0, <1>2 DEF Taken
  <2> QED
    BY <1>2, <2>1, <2>2 DEF EndIs
<1>4. \A x \in Conns : x # c /\ x # d =>
        (Contains(pending'[Authority], x) <=> Contains(pending[Authority], x))
  BY <1>0 DEF Swaps
<1> HIDE DEF C, lost
<1>5. Ends' = [Link!Dead(Authority, C, lost) EXCEPT ![Authority][d] = "used"]
  <2> DEFINE E == [t \in Sides |-> [x \in Conns |->
                     IF t = Authority THEN IF x \in C THEN "gone" ELSE End(t, x)
                     ELSE IF x \in lost THEN "used" ELSE End(t, x)]]
  <2>1. Link!Dead(Authority, C, lost) = E
    BY <1>0, LinkSides DEF Link!Dead, Ends
  <2>2. \A t \in Sides, x \in Conns :
          End(t, x)' = IF t = Authority /\ x = d THEN "used" ELSE E[t][x]
    BY <1>0, <1>1, <1>2, <1>3, <1>4
  <2>3. E = [t \in Sides |-> [x \in Conns |-> E[t][x]]]
    OBVIOUS
  <2>4. Ends' = [E EXCEPT ![Authority][d] = "used"]
    <3> HIDE DEF E
    <3> QED
      BY <1>0, <2>2, <2>3, SetEndOf
  <2> QED
    BY <2>1, <2>4
<1>6. connection' = [connection EXCEPT ![Authority] = d]
  <2>1. connection \in [Sides -> Conns \cup {None}] /\ connection' \in [Sides -> Conns \cup {None}]
    BY DEF LinkInv, Types
  <2> QED
    BY <2>1 DEF Swaps
<1>7. connection[Authority] \in C /\ d \in Conns \ C
  BY <1>0, <1>2 DEF Swaps
<1>8. Link!Down(Authority, C)
  BY <1>1, <1>3, <1>5, <1>6, <1>7, LinkSides DEF Link!Down
<1> QED
  BY <1>8 DEF C

\* Two NetworkPeers with any number of connections, which open, deliver, fail
\* and close in any order, take connections into use only as PeerLink allows:
\* the authority one at a time, and its peer the one the authority uses.
\* (addConnection, confirmConnection, pickNewConnection, close)
THEOREM ImplementsLink == Spec => LinkSpec
<1>1. Init => Link!Init
  <2> SUFFICES ASSUME Init PROVE Link!Init
    OBVIOUS
  <2>1. \A s \in Sides, c \in Conns : End(s, c) = "none"
    BY EndLemma DEF Init, EndIs
  <2>2. Ends = [s \in Sides |-> [c \in Conns |-> "none"]]
    BY <2>1 DEF Ends
  <2> QED
    BY <2>2, LinkSides DEF Init, Link!Init
<1>2. LinkInv /\ [Next]_vars => [Link!Next]_(Link!vars)
  <2> SUFFICES ASSUME LinkInv, [Next]_vars PROVE [Link!Next]_(Link!vars)
    OBVIOUS
  <2>0. LinkInv' /\ (Effect \/ UNCHANGED vars)
    BY LinkInvNext
  <2>1. ASSUME NEW s \in Sides, NEW c \in Conns, Opens(s, c)
        PROVE  Link!Next
    BY <2>1, OpensLink, LinkSides DEF Link!Next
  <2>2. ASSUME NEW s \in Sides, NEW c \in Conns, Keeps(s, c)
        PROVE  UNCHANGED Link!vars
    BY <2>2, KeepsLink DEF Link!vars
  <2>3. ASSUME NEW s \in Sides, NEW c \in Conns, Takes(s, c)
        PROVE  Link!Next
    BY <2>0, <2>3, TakesLink DEF Link!Next
  <2>4. ASSUME NEW s \in Sides, NEW c \in Conns, Fails(s, c)
        PROVE  Link!Next
    <3>1. {c} \in SUBSET Conns
      OBVIOUS
    <3> QED
      BY <2>4, <3>1, FailsLink, LinkSides DEF Link!Next
  <2>5. ASSUME NEW s \in Sides, NEW C \in SUBSET Conns, Drops(s, C)
        PROVE  Link!Next
    BY <2>0, <2>5, DropsLink, LinkSides DEF Link!Next
  <2>6. ASSUME NEW c \in Conns, NEW d \in Conns, Swaps(c, d)
        PROVE  Link!Next
    <3>1. {c} \in SUBSET Conns /\ Authority \in Link!Sides
      BY SidesLemma, LinkSides
    <3> QED
      BY <2>0, <2>6, <3>1, SwapsLink DEF Link!Next
  <2>7. CASE UNCHANGED vars
    BY <2>7 DEF vars, Link!vars, Ends, End, MayBeTaken, IsOpen
  <2> QED
    BY <2>0, <2>1, <2>2, <2>3, <2>4, <2>5, <2>6, <2>7 DEF Effect
<1>3. Init => LinkInv
  BY LinkInvInit
<1>4. LinkInv /\ [Next]_vars => LinkInv'
  BY LinkInvNext
<1> QED
  BY <1>1, <1>2, <1>3, <1>4, PTL DEF Spec, LinkSpec, Link!Spec
=============================================================================
