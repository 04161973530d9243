--------------------------- MODULE MultiplexProofs ---------------------------
(***************************************************************************)
(* Theorems about Multiplex, for any names, numbers of channels, of calls  *)
(* of openChannel and of chunks: the tables of both ends agree, and what a *)
(* channel reads is what one channel of the other end has written.         *)
(***************************************************************************)
EXTENDS Multiplex, Integers, FiniteSetTheorems, SequenceTheorems, TLAPS

-----------------------------------------------------------------------------
(* The invariant *)

\* What one direction of the connection keeps true, where q holds the frames
\* on their way to an end, r is what the sender's numbers stand for there, h
\* are the channels of that end and t those of the sender.
Is(q, k, type, j) == q[k].type = type /\ q[k].id = j
Has(q, type, j) == \E k \in DOMAIN q : Is(q, k, type, j)
HasBefore(q, p, type, j) == \E k \in DOMAIN q : k < p /\ Is(q, k, type, j)
Seen(q, r, j) == r[j] # None \/ Has(q, "Start", j)

\* Of each number Start comes first and Destroy last, and a frame other than
\* Start comes when the number is known.
Framed(q, r) ==
  /\ \A k, l \in DOMAIN q : k < l /\ q[k].id = q[l].id =>
       q[l].type # "Start" /\ q[k].type # "Destroy"
  /\ \A k \in DOMAIN q :
       IF q[k].type = "Start" THEN r[q[k].id] = None
       ELSE r[q[k].id] # None \/ HasBefore(q, k, "Start", q[k].id)

\* The number of a channel that its end still has is known, or will be.
Announced(q, r, t) ==
  \A j \in Ids : t[j].state # "none" => Seen(q, r, j) /\ ~Has(q, "Destroy", j)

\* The number of a channel that its end has no more will be forgotten.
Forgotten(q, r, t) ==
  \A j \in Ids : t[j].state = "none" /\ Seen(q, r, j) => Has(q, "Destroy", j)

\* All that is left of a number has one name.
Named(q, r, h, t) ==
  \A j \in Ids : \E n \in Names :
    /\ t[j].state # "none" => t[j].name = n
    /\ \A k \in DOMAIN q : q[k].id = j => q[k].name = n
    /\ r[j] # None /\ h[r[j]].state # "none" => h[r[j]].name = n

\* A name is announced again when its last number is about to be forgotten ...
Replaced(q, r, h) ==
  \A p \in DOMAIN q, j \in Ids :
    /\ q[p].type = "Start" /\ q[p].id # j
    /\ \/ r[j] # None /\ h[r[j]].state = "open" /\ h[r[j]].name = q[p].name
       \/ \E k \in DOMAIN q : k < p /\ Is(q, k, "Start", j) /\ q[k].name = q[p].name
    => HasBefore(q, p, "Destroy", j)

\* ... so that one number stands for an open channel, and what it reads comes
\* from there.
OneSource(r, h) ==
  /\ \A j, l \in Ids : r[j] # None /\ r[j] = r[l] /\ h[r[j]].state = "open" => j = l
  /\ \A i \in Ids : h[i].state = "open" =>
       /\ h[i].got = 0 <=> h[i].from = None
       /\ h[i].from # None => r[h[i].from] = i

\* k chunks of number j were read, or the number is not known yet.
Held(r, h, j, k) ==
  IF r[j] = None THEN k = 0 ELSE h[r[j]].state = "open" => k = h[r[j]].got

\* k chunks of number j come before place p.
Reached(q, r, h, j, p, k) ==
  IF HasBefore(q, p, "Data", j)
  THEN /\ \E l \in DOMAIN q : l < p /\ Is(q, l, "Data", j) /\ q[l].k = k
       /\ \A l \in DOMAIN q : l < p /\ Is(q, l, "Data", j) => q[l].k <= k
  ELSE Held(r, h, j, k)

Counted(q, r, h, t) ==
  /\ \A p \in DOMAIN q :
       /\ q[p].type = "Data" => q[p].k # 0 /\ Reached(q, r, h, q[p].id, p, q[p].k - 1)
       /\ q[p].type = "End" => Reached(q, r, h, q[p].id, p, q[p].k)
  /\ \A j \in Ids : t[j].state # "none" => Reached(q, r, h, j, Len(q) + 1, t[j].wrote)

Link(q, r, h, t) ==
  /\ Framed(q, r) /\ Announced(q, r, t) /\ Named(q, r, h, t)
  /\ Replaced(q, r, h) /\ OneSource(r, h) /\ Counted(q, r, h, t)

\* Names and channels of an end.
Table(c, o, h) ==
  /\ \A i \in Ids : h[i].state # "none" =>
       c[h[i].name] = i /\ (h[i].mine <=> h[i].name \in o)
  /\ \A n \in Names : c[n] # None => h[c[n]].state # "none" /\ h[c[n]].name = n
  /\ \A n \in o : c[n] # None

LinkInv == \A e \in Ends \ down : Link(wire[e], remote[e], chan[e], chan[Other(e)])
ForgetInv == \A e \in Ends : down = {} => Forgotten(wire[e], remote[e], chan[Other(e)])
TableInv == \A e \in Ends : Table(channels[e], opened[e], chan[e])

MuxInv == Typed /\ LinkInv /\ ForgetInv /\ TableInv

Maps == [Ids -> Ids \cup {None}]
Chans == [Ids -> Channel]

-----------------------------------------------------------------------------
(* Frames in a queue                                                       *)

LEMMA Places ==
  ASSUME NEW q \in Seq(Frames)
  PROVE  /\ Len(q) \in Nat /\ DOMAIN q = 1..Len(q)
         /\ \A p \in DOMAIN q : /\ q[p] \in Frames /\ q[p].id \in Ids /\ q[p].name \in Names
                              /\ q[p].k \in Nat /\ q[p].k <= MaxWrites
<1>1. Len(q) \in Nat /\ DOMAIN q = 1..Len(q) /\ \A p \in DOMAIN q : q[p] \in Frames
  OBVIOUS
<1>2. \A f \in Frames : f.id \in Ids /\ f.name \in Names /\ f.k \in Nat /\ f.k <= MaxWrites
  BY MultiplexConstants DEF Frames
<1> QED
  BY <1>1, <1>2

\* A queue grows at its end.
Grows(q, s) ==
  /\ s \in Seq(Frames)
  /\ \A k \in DOMAIN q : k \in DOMAIN s /\ s[k] = q[k]
  /\ \A k \in DOMAIN s : k \notin DOMAIN q => \A l \in DOMAIN q : l < k

LEMMA JoinedGrows ==
  ASSUME NEW q \in Seq(Frames), NEW f \in Seq(Frames)
  PROVE  /\ Grows(q, q \o f)
         /\ Len(q \o f) = Len(q) + Len(f)
         /\ \A k \in DOMAIN (q \o f) : k \notin DOMAIN q =>
              \E l \in DOMAIN f : k = Len(q) + l /\ (q \o f)[k] = f[l]
<1> DEFINE s == q \o f
<1>1. s \in Seq(Frames) /\ Len(s) = Len(q) + Len(f) /\ DOMAIN s = 1..(Len(q) + Len(f))
  OBVIOUS
<1>2. Len(q) \in Nat /\ Len(f) \in Nat /\ DOMAIN q = 1..Len(q) /\ DOMAIN f = 1..Len(f)
  OBVIOUS
<1>3. \A k \in 1..Len(q) : s[k] = q[k]
  BY <1>2
<1>4. \A k \in DOMAIN s : k \notin DOMAIN q => k - Len(q) \in DOMAIN f /\ s[k] = f[k - Len(q)]
  BY <1>1, <1>2
<1>5. \A k \in DOMAIN s : k \notin DOMAIN q =>
         \E l \in DOMAIN f : k = Len(q) + l /\ s[k] = f[l]
  <2> TAKE k \in DOMAIN s
  <2> HAVE k \notin DOMAIN q
  <2>1. k - Len(q) \in DOMAIN f /\ s[k] = f[k - Len(q)]
    BY <1>4
  <2> WITNESS k - Len(q) \in DOMAIN f
  <2> QED
    BY <1>1, <1>2, <2>1
<1>6. Grows(q, s)
  BY <1>1, <1>2, <1>3 DEF Grows
<1> QED
  BY <1>1, <1>5, <1>6

\* A single frame takes the place after the last.
Adds(q, s, f) ==
  /\ Grows(q, s) /\ Len(s) = Len(q) + 1
  /\ Len(s) \in DOMAIN s /\ Len(s) \notin DOMAIN q /\ s[Len(s)] = f
  /\ \A k \in DOMAIN s : k \notin DOMAIN q => k = Len(s)

LEMMA Added ==
  ASSUME NEW q \in Seq(Frames), NEW f \in Frames
  PROVE  Adds(q, q \o <<f>>, f)
<1> DEFINE w == <<f>>
<1>1. w \in Seq(Frames) /\ Len(w) = 1 /\ DOMAIN w = {1} /\ w[1] = f
  OBVIOUS
<1> HIDE DEF w
<1>2. Len(q) \in Nat /\ DOMAIN q = 1..Len(q)
  OBVIOUS
<1>a. /\ Grows(q, q \o w) /\ Len(q \o w) = Len(q) + Len(w)
      /\ \A k \in DOMAIN (q \o w) : k \notin DOMAIN q =>
           \E l \in DOMAIN w : k = Len(q) + l /\ (q \o w)[k] = w[l]
  BY <1>1, JoinedGrows, Zenon
<1>3. /\ Grows(q, q \o w) /\ Len(q \o w) = Len(q) + 1
      /\ \A k \in DOMAIN (q \o w) : k \notin DOMAIN q => k = Len(q) + 1 /\ (q \o w)[k] = f
  BY <1>a, <1>1, Zenon
<1>4. q \o w \in Seq(Frames)
  BY <1>1
<1>5. DOMAIN (q \o w) = 1..(Len(q) + 1)
  BY <1>3, <1>4
<1>6. Len(q) + 1 \in DOMAIN (q \o w) /\ Len(q) + 1 \notin DOMAIN q
  BY <1>2, <1>5
<1> QED
  BY <1>3, <1>6 DEF w, Adds

\* What a queue holds, and what it holds before one of its places, as it grows.
LEMMA GrownHas ==
  ASSUME NEW q \in Seq(Frames), NEW s, Grows(q, s), NEW type, NEW j
  PROVE  /\ Has(q, type, j) => Has(s, type, j)
         /\ Has(s, type, j) => Has(q, type, j) \/ \E k \in DOMAIN s : k \notin DOMAIN q /\ Is(s, k, type, j)
BY DEF Grows, Has, Is

LEMMA GrownHasBefore ==
  ASSUME NEW q \in Seq(Frames), NEW s, Grows(q, s), NEW type, NEW j, NEW p \in DOMAIN q
  PROVE  HasBefore(s, p, type, j) <=> HasBefore(q, p, type, j)
<1>1. DOMAIN q \subseteq Int /\ DOMAIN s \subseteq Int
  BY DEF Grows
<1>2. \A k \in DOMAIN s : k < p => k \in DOMAIN q
  <2> TAKE k \in DOMAIN s
  <2> HAVE k < p
  <2>1. k \notin DOMAIN q => p < k
    BY DEF Grows
  <2> QED
    BY <1>1, <2>1
<1> QED
  BY <1>2 DEF Grows, HasBefore, Is

\* What comes before a new place was in the queue, or is new.
LEMMA GrownHasBeforeNew ==
  ASSUME NEW q \in Seq(Frames), NEW s, Grows(q, s), NEW type, NEW j,
         NEW p, \A k \in DOMAIN q : k < p
  PROVE  /\ Has(q, type, j) => HasBefore(s, p, type, j)
         /\ HasBefore(s, p, type, j) =>
              Has(q, type, j) \/ \E k \in DOMAIN s : k \notin DOMAIN q /\ Is(s, k, type, j)
BY DEF Grows, Has, HasBefore, Is

-----------------------------------------------------------------------------
(* The channels of the receiving end change                                *)

\* What is there keeps its name, and what is open keeps what it has read; or
\* it is new, and no number stands for it.
Fresh(r, i) == \A j \in Ids : r[j] # i
Harmless(r, h, g) ==
  \A i \in Ids :
    /\ g[i].state # "none" => Fresh(r, i) \/ (h[i].state # "none" /\ g[i].name = h[i].name)
    /\ g[i].state = "open" =>
         \/ Fresh(r, i) /\ g[i].got = 0 /\ g[i].from = None
         \/ h[i].state = "open" /\ g[i].got = h[i].got /\ g[i].from = h[i].from

\* The link does not notice such a change.
LEMMA LinkHere ==
  ASSUME NEW q \in Seq(Frames), NEW r \in Maps, NEW h \in Chans, NEW t \in Chans,
         NEW g \in Chans, Harmless(r, h, g), Link(q, r, h, t)
  PROVE  Link(q, r, g, t)
<1> USE DEF Maps, Chans
<1>1. \A j \in Ids : r[j] # None =>
        /\ g[r[j]].state # "none" => h[r[j]].state # "none" /\ g[r[j]].name = h[r[j]].name
        /\ g[r[j]].state = "open" =>
             h[r[j]].state = "open" /\ g[r[j]].got = h[r[j]].got /\ g[r[j]].from = h[r[j]].from
  BY DEF Harmless, Fresh
<1>2. Named(q, r, g, t)
  BY <1>1, Zenon DEF Link, Named
<1>3. Replaced(q, r, g)
  <2>1. \A j \in Ids : r[j] # None /\ g[r[j]].state = "open" =>
          h[r[j]].state = "open" /\ g[r[j]].name = h[r[j]].name
    BY <1>1
  <2> QED
    BY <2>1, Zenon DEF Link, Replaced
<1>4. OneSource(r, g)
  <2>1. OneSource(r, h)
    BY DEF Link
  <2>2. \A j, l \in Ids : r[j] # None /\ r[j] = r[l] /\ g[r[j]].state = "open" => j = l
    BY <1>1, <2>1 DEF OneSource
  <2>3. ASSUME NEW i \in Ids, g[i].state = "open"
        PROVE  /\ g[i].got = 0 <=> g[i].from = None
               /\ g[i].from # None => r[g[i].from] = i
    BY <2>1, <2>3 DEF OneSource, Harmless
  <2> QED
    BY <2>2, <2>3 DEF OneSource
<1>5. Counted(q, r, g, t)
  <2>1. ASSUME NEW j \in Ids, NEW p, NEW k, Reached(q, r, h, j, p, k)
        PROVE  Reached(q, r, g, j, p, k)
    BY <1>1, <2>1 DEF Reached, Held
  <2>2. \A p \in DOMAIN q : q[p].id \in Ids
    BY Places
  <2> QED
    BY <2>1, <2>2 DEF Link, Counted
<1> QED
  BY <1>2, <1>3, <1>4, <1>5 DEF Link

-----------------------------------------------------------------------------
(* The other end sends                                                     *)

LEMMA GrownReachedOld ==
  ASSUME NEW q \in Seq(Frames), NEW s, Grows(q, s), NEW r, NEW h, NEW j, NEW k,
         NEW p \in DOMAIN q, Reached(q, r, h, j, p, k)
  PROVE  Reached(s, r, h, j, p, k)
<1>1. HasBefore(s, p, "Data", j) <=> HasBefore(q, p, "Data", j)
  BY GrownHasBefore
<1>2. \A l \in DOMAIN s : l < p => l \in DOMAIN q
  <2>1. \A l \in DOMAIN s : l \notin DOMAIN q => p < l
    BY DEF Grows
  <2>2. DOMAIN s \subseteq Int /\ p \in Int
    BY DEF Grows
  <2> QED
    BY <2>1, <2>2
<1>3. \A l \in DOMAIN q : l \in DOMAIN s /\ s[l] = q[l]
  BY DEF Grows
<1> QED
  BY <1>1, <1>2, <1>3, Zenon DEF Reached, Is

\* Of a number of which no data is new.
LEMMA GrownReachedNew ==
  ASSUME NEW q \in Seq(Frames), NEW s, Grows(q, s), NEW r, NEW h, NEW j, NEW k,
         NEW p, \A l \in DOMAIN q : l < p,
         \A l \in DOMAIN s : l \notin DOMAIN q /\ l < p => ~Is(s, l, "Data", j),
         Reached(q, r, h, j, Len(q) + 1, k)
  PROVE  Reached(s, r, h, j, p, k)
<1>1. \A l \in DOMAIN q : l < Len(q) + 1
  OBVIOUS
<1>2. HasBefore(s, p, "Data", j) <=> HasBefore(q, Len(q) + 1, "Data", j)
  BY <1>1 DEF Grows, HasBefore, Is
<1>3. \A l \in DOMAIN q : l \in DOMAIN s /\ s[l] = q[l]
  BY DEF Grows
<1>4. CASE HasBefore(q, Len(q) + 1, "Data", j)
  <2>1. /\ \E l \in DOMAIN q : l < Len(q) + 1 /\ Is(q, l, "Data", j) /\ q[l].k = k
        /\ \A l \in DOMAIN q : l < Len(q) + 1 /\ Is(q, l, "Data", j) => q[l].k <= k
    BY <1>4, Zenon DEF Reached
  <2>2. /\ \E l \in DOMAIN q : Is(q, l, "Data", j) /\ q[l].k = k
        /\ \A l \in DOMAIN q : Is(q, l, "Data", j) => q[l].k <= k
    BY <2>1, <1>1, Zenon
  <2>3. \E l \in DOMAIN s : l < p /\ Is(s, l, "Data", j) /\ s[l].k = k
    BY <2>2, <1>3, Zenon DEF Is
  <2>4. \A l \in DOMAIN s : l < p /\ Is(s, l, "Data", j) => s[l].k <= k
    BY <2>2, <1>3, Zenon DEF Is
  <2> QED
    BY <2>3, <2>4, <1>2, <1>4, Zenon DEF Reached
<1>5. CASE ~HasBefore(q, Len(q) + 1, "Data", j)
  BY <1>2, <1>5, Zenon DEF Reached
<1> QED
  BY <1>4, <1>5

\* The sender changes or forgets channels, but for what it has written.
Keeps(t, u) == \A j \in Ids : u[j].state # "none" => t[j].state # "none" /\ u[j].name = t[j].name
\* A frame about a channel the sender has.
About(t, f) == f.type # "Start" /\ t[f.id].state # "none" /\ f.name = t[f.id].name

LEMMA PushAbout ==
  ASSUME NEW q \in Seq(Frames), NEW r \in Maps, NEW h \in Chans, NEW t \in Chans,
         NEW u \in Chans, Keeps(t, u), Link(q, r, h, t),
         NEW s, Grows(q, s),
         \A k \in DOMAIN s : k \notin DOMAIN q => About(t, s[k]),
         \A k, l \in DOMAIN s : k \notin DOMAIN q /\ k < l => s[k].type # "Destroy"
  PROVE  /\ Framed(s, r) /\ Named(s, r, h, u) /\ Replaced(s, r, h)
         /\ \A j \in Ids : t[j].state # "none" => Seen(s, r, j)
<1>1. /\ s \in Seq(Frames)
      /\ \A k \in DOMAIN q : k \in DOMAIN s /\ s[k] = q[k] /\ q[k].id \in Ids
      /\ \A k \in DOMAIN s : s[k].id \in Ids /\ s[k].name \in Names
      /\ \A k \in DOMAIN s : k \notin DOMAIN q => \A l \in DOMAIN q : l < k
  BY Places DEF Grows
<1>2. \A j \in Ids : t[j].state # "none" => Seen(q, r, j) /\ ~Has(q, "Destroy", j)
  BY DEF Link, Announced
<1>3. \A k \in DOMAIN s : k \notin DOMAIN q =>
        s[k].type # "Start" /\ t[s[k].id].state # "none" /\ s[k].name = t[s[k].id].name
  BY Zenon DEF About
<1>4. \A j \in Ids :
        /\ Has(s, "Start", j) <=> Has(q, "Start", j)
        /\ \A p \in DOMAIN q, type \in {"Start", "Destroy"} :
             HasBefore(s, p, type, j) <=> HasBefore(q, p, type, j)
        /\ \A p \in DOMAIN s : p \notin DOMAIN q => (HasBefore(s, p, "Start", j) <=> Has(q, "Start", j))
  <2> TAKE j \in Ids
  <2>1. \A k \in DOMAIN s : k \notin DOMAIN q => ~Is(s, k, "Start", j)
    BY <1>3 DEF Is
  <2>2. Has(s, "Start", j) <=> Has(q, "Start", j)
    BY <2>1, GrownHas
  <2>3. \A p \in DOMAIN q, type \in {"Start", "Destroy"} :
          HasBefore(s, p, type, j) <=> HasBefore(q, p, type, j)
    BY GrownHasBefore
  <2>4. \A p \in DOMAIN s : p \notin DOMAIN q => (HasBefore(s, p, "Start", j) <=> Has(q, "Start", j))
    BY <1>1, <2>1, GrownHasBeforeNew
  <2> QED
    BY <2>2, <2>3, <2>4
<1>5. Framed(s, r)
  <2>1. ASSUME NEW k \in DOMAIN s, NEW l \in DOMAIN s, k < l, s[k].id = s[l].id
        PROVE  s[l].type # "Start" /\ s[k].type # "Destroy"
    <3>1. CASE l \in DOMAIN q
      <4>1. k \in DOMAIN q
        <5>1. k \notin DOMAIN q => l < k
          BY <3>1, <1>1
        <5>2. k \in Int /\ l \in Int
          BY <1>1
        <5> QED
          BY <5>1, <5>2, <2>1
      <4> QED
        BY <4>1, <3>1, <1>1, <2>1 DEF Link, Framed
    <3>2. CASE l \notin DOMAIN q
      <4>1. s[l].type # "Start" /\ t[s[l].id].state # "none"
        BY <3>2, <1>3
      <4>2. CASE k \notin DOMAIN q
        BY <4>1, <4>2, <2>1
      <4>3. CASE k \in DOMAIN q
        <5>1. ~Has(q, "Destroy", s[l].id)
          BY <4>1, <1>1, <1>2
        <5> QED
          BY <5>1, <4>1, <4>3, <1>1, <2>1 DEF Has, Is
      <4> QED
        BY <4>2, <4>3
    <3> QED
      BY <3>1, <3>2
  <2>2. ASSUME NEW k \in DOMAIN s
        PROVE  IF s[k].type = "Start" THEN r[s[k].id] = None
               ELSE r[s[k].id] # None \/ HasBefore(s, k, "Start", s[k].id)
    <3>1. CASE k \in DOMAIN q
      <4>1. IF q[k].type = "Start" THEN r[q[k].id] = None
            ELSE r[q[k].id] # None \/ HasBefore(q, k, "Start", q[k].id)
        BY <3>1 DEF Link, Framed
      <4> QED
        BY <4>1, <3>1, <1>1, <1>4
    <3>2. CASE k \notin DOMAIN q
      <4>1. s[k].type # "Start" /\ Seen(q, r, s[k].id)
        BY <3>2, <1>1, <1>2, <1>3
      <4> QED
        BY <4>1, <3>2, <1>1, <1>4 DEF Seen
    <3> QED
      BY <3>1, <3>2
  <2> QED
    BY <2>1, <2>2 DEF Framed
<1>6. Named(s, r, h, u)
  <2> SUFFICES ASSUME NEW j \in Ids
               PROVE  \E n \in Names :
                        /\ u[j].state # "none" => u[j].name = n
                        /\ \A k \in DOMAIN s : s[k].id = j => s[k].name = n
                        /\ r[j] # None /\ h[r[j]].state # "none" => h[r[j]].name = n
    BY DEF Named
  <2>1. PICK n \in Names :
          /\ t[j].state # "none" => t[j].name = n
          /\ \A k \in DOMAIN q : q[k].id = j => q[k].name = n
          /\ r[j] # None /\ h[r[j]].state # "none" => h[r[j]].name = n
    BY DEF Link, Named
  <2> WITNESS n \in Names
  <2> QED
    BY <2>1, <1>1, <1>3 DEF Keeps
<1>7. Replaced(s, r, h)
  <2>1. \A p \in DOMAIN s : s[p].type = "Start" => p \in DOMAIN q
    BY <1>3
  <2>2. \A p \in DOMAIN q, k \in DOMAIN s : k < p => k \in DOMAIN q
    <3>1. \A p \in DOMAIN q, k \in DOMAIN s : k \notin DOMAIN q => p < k
      BY <1>1
    <3>2. DOMAIN q \subseteq Int /\ DOMAIN s \subseteq Int
      BY <1>1
    <3> QED
      BY <3>1, <3>2
  <2>3. \A p \in DOMAIN q, j \in Ids : HasBefore(q, p, "Destroy", j) => HasBefore(s, p, "Destroy", j)
    BY <1>4
  <2>4. Replaced(q, r, h)
    BY DEF Link
  <2> QED
    BY <2>1, <2>2, <2>3, <2>4, <1>1, Zenon DEF Replaced, Is
<1>8. \A j \in Ids : t[j].state # "none" => Seen(s, r, j)
  BY <1>2, <1>4 DEF Seen
<1> QED
  BY <1>5, <1>6, <1>7, <1>8

\* Frames that end channels the sender has.  With no frame, the sender only
\* changes or forgets channels.
Speaks(t, u) ==
  \A j \in Ids : u[j].state # "none" =>
    t[j].state # "none" /\ u[j].name = t[j].name /\ u[j].wrote = t[j].wrote
EndOf(t, f) ==
  /\ f.type = "End" /\ t[f.id].state # "none"
  /\ f.name = t[f.id].name /\ f.k = t[f.id].wrote

LEMMA PushEnds ==
  ASSUME NEW q \in Seq(Frames), NEW r \in Maps, NEW h \in Chans, NEW t \in Chans,
         NEW u \in Chans, Speaks(t, u), Link(q, r, h, t),
         NEW s, Grows(q, s),
         \A k \in DOMAIN s : k \notin DOMAIN q => EndOf(t, s[k])
  PROVE  Link(s, r, h, u)
<1>1. /\ s \in Seq(Frames)
      /\ \A k \in DOMAIN q : k \in DOMAIN s /\ s[k] = q[k] /\ q[k].id \in Ids
      /\ \A k \in DOMAIN s : s[k].id \in Ids /\ s[k].name \in Names
      /\ \A k \in DOMAIN s : k \notin DOMAIN q => \A l \in DOMAIN q : l < k
  BY Places DEF Grows
<1>2. \A k \in DOMAIN s : k \notin DOMAIN q =>
        /\ s[k].type = "End" /\ t[s[k].id].state # "none"
        /\ s[k].name = t[s[k].id].name /\ s[k].k = t[s[k].id].wrote
  BY Zenon DEF EndOf
<1>3. /\ Framed(s, r) /\ Named(s, r, h, u) /\ Replaced(s, r, h)
      /\ \A j \in Ids : t[j].state # "none" => Seen(s, r, j)
  <2>1. Keeps(t, u)
    BY Zenon DEF Speaks, Keeps
  <2>2. \A k \in DOMAIN s : k \notin DOMAIN q => About(t, s[k])
    BY <1>2 DEF About
  <2>3. \A k, l \in DOMAIN s : k \notin DOMAIN q /\ k < l => s[k].type # "Destroy"
    BY <1>2
  <2> QED
    BY <2>1, <2>2, <2>3, PushAbout
<1>4. Announced(s, r, u)
  <2>1. \A j \in Ids, k \in DOMAIN s : k \notin DOMAIN q => ~Is(s, k, "Destroy", j)
    BY <1>2 DEF Is
  <2>2. \A j \in Ids : Has(s, "Destroy", j) => Has(q, "Destroy", j)
    BY <2>1, GrownHas
  <2> QED
    BY <2>2, <1>3 DEF Link, Announced, Speaks
<1>5. Counted(s, r, h, u)
  <2>0. Counted(q, r, h, t)
    BY DEF Link
  <2>1. \A p \in DOMAIN q : q[p].type = "Data" => q[p].k # 0 /\ Reached(s, r, h, q[p].id, p, q[p].k - 1)
    BY <2>0, GrownReachedOld, Zenon DEF Counted
  <2>2. \A p \in DOMAIN q : q[p].type = "End" => Reached(s, r, h, q[p].id, p, q[p].k)
    BY <2>0, GrownReachedOld, Zenon DEF Counted
  <2>3. ASSUME NEW j \in Ids, t[j].state # "none", NEW p, \A l \in DOMAIN q : l < p
        PROVE  Reached(s, r, h, j, p, t[j].wrote)
    <3>1. Reached(q, r, h, j, Len(q) + 1, t[j].wrote)
      BY <2>0, <2>3 DEF Counted
    <3>2. \A l \in DOMAIN s : l \notin DOMAIN q => ~Is(s, l, "Data", j)
      BY <1>2 DEF Is
    <3> QED
      BY <3>1, <3>2, <2>3, GrownReachedNew
  <2>4. \A p \in DOMAIN s : p \notin DOMAIN q => Reached(s, r, h, s[p].id, p, s[p].k)
    BY <2>3, <1>1, <1>2
  <2>5. \A l \in DOMAIN q : l < Len(s) + 1
    BY <1>1
  <2>6. \A j \in Ids : u[j].state # "none" => Reached(s, r, h, j, Len(s) + 1, u[j].wrote)
    BY <2>3, <2>5 DEF Speaks
  <2>7. \A p \in DOMAIN s : s[p].type = "Data" => s[p].k # 0 /\ Reached(s, r, h, s[p].id, p, s[p].k - 1)
    BY <2>1, <1>1, <1>2, Zenon
  <2>8. \A p \in DOMAIN s : s[p].type = "End" => Reached(s, r, h, s[p].id, p, s[p].k)
    BY <2>2, <2>4, <1>1, Zenon
  <2> QED
    BY <2>6, <2>7, <2>8 DEF Counted
<1> QED
  BY <1>3, <1>4, <1>5 DEF Link

\* A chunk, which the sender counts.
LEMMA PushData ==
  ASSUME NEW q \in Seq(Frames), NEW r \in Maps, NEW h \in Chans, NEW t \in Chans,
         NEW u \in Chans, Keeps(t, u), Link(q, r, h, t),
         NEW f \in Frames, NEW s, Adds(q, s, f), About(t, f),
         f.type = "Data", f.k = t[f.id].wrote + 1,
         \A j \in Ids : u[j].state # "none" =>
           u[j].wrote = IF j = f.id THEN f.k ELSE t[j].wrote
  PROVE  Link(s, r, h, u)
<1> DEFINE m == Len(s)
<1>1. /\ Grows(q, s) /\ m \in DOMAIN s /\ m \notin DOMAIN q /\ s[m] = f
      /\ \A k \in DOMAIN s : k \notin DOMAIN q => k = m
  BY DEF Adds
<1>2. /\ s \in Seq(Frames)
      /\ \A k \in DOMAIN q : k \in DOMAIN s /\ s[k] = q[k] /\ q[k].id \in Ids /\ k < m
  BY <1>1, Places DEF Grows
<1>3. /\ Framed(s, r) /\ Named(s, r, h, u) /\ Replaced(s, r, h)
      /\ \A j \in Ids : t[j].state # "none" => Seen(s, r, j)
  <2>1. \A k \in DOMAIN s : k \notin DOMAIN q => About(t, s[k])
    BY <1>1
  <2>2. \A k, l \in DOMAIN s : k \notin DOMAIN q /\ k < l => s[k].type # "Destroy"
    BY <1>1
  <2> QED
    BY <2>1, <2>2, <1>1, PushAbout
<1>4. Announced(s, r, u)
  <2>1. \A j \in Ids, k \in DOMAIN s : k \notin DOMAIN q => ~Is(s, k, "Destroy", j)
    BY <1>1 DEF Is
  <2>2. \A j \in Ids : Has(s, "Destroy", j) => Has(q, "Destroy", j)
    BY <2>1, <1>1, GrownHas
  <2> QED
    BY <2>2, <1>3 DEF Link, Announced, Keeps
<1>5. Counted(s, r, h, u)
  <2>0. Counted(q, r, h, t)
    BY DEF Link
  <2>1. \A p \in DOMAIN q : q[p].type = "Data" => q[p].k # 0 /\ Reached(s, r, h, q[p].id, p, q[p].k - 1)
    BY <2>0, <1>1, GrownReachedOld, Zenon DEF Counted
  <2>2. \A p \in DOMAIN q : q[p].type = "End" => Reached(s, r, h, q[p].id, p, q[p].k)
    BY <2>0, <1>1, GrownReachedOld, Zenon DEF Counted
  <2>3. f.id \in Ids /\ t[f.id].state # "none" /\ t[f.id].wrote \in Nat
    BY MultiplexConstants DEF About, Frames, Chans, Channel
  <2>4. Reached(s, r, h, f.id, m, t[f.id].wrote)
    <3>1. Reached(q, r, h, f.id, Len(q) + 1, t[f.id].wrote)
      BY <2>0, <2>3 DEF Counted
    <3>2. \A l \in DOMAIN s : l \notin DOMAIN q /\ l < m => ~Is(s, l, "Data", f.id)
      BY <1>1, <1>2
    <3>3. \A l \in DOMAIN q : l < m
      BY <1>2
    <3> QED
      BY <1>1, <3>1, <3>2, <3>3, GrownReachedNew
  <2>5. Reached(s, r, h, f.id, m + 1, f.k)
    <3>1. m < m + 1 /\ Is(s, m, "Data", f.id) /\ s[m].k = f.k
      BY <1>1, <1>2 DEF Is
    <3>2. HasBefore(s, m + 1, "Data", f.id)
      BY <3>1, <1>1 DEF HasBefore
    <3>3. ASSUME NEW l \in DOMAIN s, Is(s, l, "Data", f.id)
          PROVE  s[l].k <= f.k
      <4>1. CASE l = m
        BY <4>1, <3>1, <2>3
      <4>2. CASE l \in DOMAIN q
        <5>1. HasBefore(s, m, "Data", f.id)
          BY <3>3, <4>2, <1>2 DEF HasBefore
        <5>2. s[l].k <= t[f.id].wrote
          BY <5>1, <2>4, <3>3, <4>2, <1>2 DEF Reached
        <5>3. s[l].k \in Nat
          BY <1>2, Places
        <5> QED
          BY <5>2, <5>3, <2>3
      <4> QED
        BY <4>1, <4>2, <1>1
    <3> QED
      BY <3>1, <3>2, <3>3, <1>1 DEF Reached
  <2>6. ASSUME NEW j \in Ids, u[j].state # "none", j # f.id
        PROVE  Reached(s, r, h, j, m + 1, u[j].wrote)
    <3>1. t[j].state # "none" /\ u[j].wrote = t[j].wrote
      BY <2>6 DEF Keeps
    <3>2. Reached(q, r, h, j, Len(q) + 1, t[j].wrote)
      BY <2>0, <3>1 DEF Counted
    <3>3. \A l \in DOMAIN s : l \notin DOMAIN q /\ l < m + 1 => ~Is(s, l, "Data", j)
      BY <1>1, <2>6 DEF Is
    <3>4. \A l \in DOMAIN q : l < m + 1
      BY <1>2
    <3> QED
      BY <1>1, <3>1, <3>2, <3>3, <3>4, GrownReachedNew
  <2>7. \A j \in Ids : u[j].state # "none" => Reached(s, r, h, j, Len(s) + 1, u[j].wrote)
    BY <2>5, <2>6
  <2>8. f.k # 0 /\ f.k - 1 = t[f.id].wrote
    BY <2>3
  <2>9. \A p \in DOMAIN s : s[p].type = "Data" => s[p].k # 0 /\ Reached(s, r, h, s[p].id, p, s[p].k - 1)
    BY <2>1, <2>4, <2>8, <1>1, <1>2
  <2>10. \A p \in DOMAIN s : s[p].type = "End" => Reached(s, r, h, s[p].id, p, s[p].k)
    BY <2>2, <1>1, <1>2
  <2> QED
    BY <2>7, <2>9, <2>10 DEF Counted
<1> QED
  BY <1>3, <1>4, <1>5 DEF Link

\* The end of a channel.
LEMMA PushDestroy ==
  ASSUME NEW q \in Seq(Frames), NEW r \in Maps, NEW h \in Chans, NEW t \in Chans,
         NEW u \in Chans, Speaks(t, u), Link(q, r, h, t),
         NEW f \in Frames, NEW s, Adds(q, s, f), About(t, f),
         f.type = "Destroy", u[f.id].state = "none"
  PROVE  Link(s, r, h, u)
<1> DEFINE m == Len(s)
<1>1. /\ Grows(q, s) /\ m \in DOMAIN s /\ m \notin DOMAIN q /\ s[m] = f
      /\ \A k \in DOMAIN s : k \notin DOMAIN q => k = m
  BY DEF Adds
<1>2. /\ s \in Seq(Frames)
      /\ \A k \in DOMAIN q : k \in DOMAIN s /\ s[k] = q[k] /\ q[k].id \in Ids /\ k < m
      /\ m \in Nat /\ \A k \in DOMAIN s : k <= m
  BY <1>1, Places DEF Grows
<1>3. /\ Framed(s, r) /\ Named(s, r, h, u) /\ Replaced(s, r, h)
      /\ \A j \in Ids : t[j].state # "none" => Seen(s, r, j)
  <2>1. \A k \in DOMAIN s : k \notin DOMAIN q => About(t, s[k])
    BY <1>1
  <2>2. \A k, l \in DOMAIN s : k \notin DOMAIN q /\ k < l => s[k].type # "Destroy"
    BY <1>1, <1>2
  <2>3. Keeps(t, u)
    BY Zenon DEF Speaks, Keeps
  <2> QED
    BY <2>1, <2>2, <2>3, <1>1, PushAbout
<1>4. Announced(s, r, u)
  <2>1. ASSUME NEW j \in Ids, u[j].state # "none"
        PROVE  Seen(s, r, j) /\ ~Has(s, "Destroy", j)
    <3>1. t[j].state # "none" /\ j # f.id
      BY <2>1 DEF Speaks
    <3>2. \A k \in DOMAIN s : k \notin DOMAIN q => ~Is(s, k, "Destroy", j)
      BY <1>1, <3>1 DEF Is
    <3>3. ~Has(q, "Destroy", j)
      BY <3>1 DEF Link, Announced
    <3> QED
      BY <1>1, <1>3, <3>1, <3>2, <3>3, GrownHas
  <2> QED
    BY <2>1 DEF Announced
<1>5. Counted(s, r, h, u)
  <2>0. Counted(q, r, h, t)
    BY DEF Link
  <2>1. \A p \in DOMAIN q : q[p].type = "Data" => q[p].k # 0 /\ Reached(s, r, h, q[p].id, p, q[p].k - 1)
    BY <2>0, <1>1, GrownReachedOld, Zenon DEF Counted
  <2>2. \A p \in DOMAIN q : q[p].type = "End" => Reached(s, r, h, q[p].id, p, q[p].k)
    BY <2>0, <1>1, GrownReachedOld, Zenon DEF Counted
  <2>3. ASSUME NEW j \in Ids, u[j].state # "none"
        PROVE  Reached(s, r, h, j, m + 1, u[j].wrote)
    <3>1. t[j].state # "none" /\ u[j].wrote = t[j].wrote
      BY <2>3 DEF Speaks
    <3>2. Reached(q, r, h, j, Len(q) + 1, t[j].wrote)
      BY <2>0, <3>1 DEF Counted
    <3>3. \A l \in DOMAIN s : l \notin DOMAIN q /\ l < m + 1 => ~Is(s, l, "Data", j)
      BY <1>1 DEF Is
    <3>4. \A l \in DOMAIN q : l < m + 1
      BY <1>2
    <3> QED
      BY <1>1, <3>1, <3>2, <3>3, <3>4, GrownReachedNew
  <2>4. \A p \in DOMAIN s : s[p].type = "Data" => s[p].k # 0 /\ Reached(s, r, h, s[p].id, p, s[p].k - 1)
    BY <2>1, <1>1, <1>2
  <2>5. \A p \in DOMAIN s : s[p].type = "End" => Reached(s, r, h, s[p].id, p, s[p].k)
    BY <2>2, <1>1, <1>2
  <2> QED
    BY <2>3, <2>4, <2>5 DEF Counted
<1> QED
  BY <1>3, <1>4, <1>5 DEF Link

\* A new channel, of a name and with a number of which the sender has none.
LEMMA PushStart ==
  ASSUME NEW q \in Seq(Frames), NEW r \in Maps, NEW h \in Chans, NEW t \in Chans,
         NEW u \in Chans, Link(q, r, h, t), Forgotten(q, r, t),
         NEW f \in Frames, NEW s, Adds(q, s, f), f.type = "Start",
         t[f.id].state = "none", r[f.id] = None, \A k \in DOMAIN q : q[k].id # f.id,
         \A j \in Ids : t[j].state # "none" => t[j].name # f.name,
         u[f.id].name = f.name /\ u[f.id].wrote = 0,
         \A j \in Ids : j # f.id /\ u[j].state # "none" =>
           t[j].state # "none" /\ u[j].name = t[j].name /\ u[j].wrote = t[j].wrote
  PROVE  Link(s, r, h, u)
<1> DEFINE m == Len(s)
<1>1. /\ Grows(q, s) /\ m \in DOMAIN s /\ m \notin DOMAIN q /\ s[m] = f
      /\ \A k \in DOMAIN s : k \notin DOMAIN q => k = m
  BY DEF Adds
<1>2. /\ s \in Seq(Frames)
      /\ \A k \in DOMAIN q : k \in DOMAIN s /\ s[k] = q[k] /\ q[k].id \in Ids /\ k < m
      /\ m \in Nat /\ \A k \in DOMAIN s : k <= m
  BY <1>1, Places DEF Grows
<1>3. f.id \in Ids /\ f.name \in Names /\ \A k \in DOMAIN q : q[k].id # f.id
  BY DEF Frames
<1>4. \A p \in DOMAIN q, type \in {"Start", "Destroy"}, j \in Ids :
        HasBefore(s, p, type, j) <=> HasBefore(q, p, type, j)
  BY <1>1, GrownHasBefore
<1>5. Framed(s, r)
  <2>1. ASSUME NEW k \in DOMAIN s, NEW l \in DOMAIN s, k < l, s[k].id = s[l].id
        PROVE  s[l].type # "Start" /\ s[k].type # "Destroy"
    <3>1. k \in DOMAIN q /\ l \in DOMAIN q
      <4>1. k # m
        BY <2>1, <1>2
      <4>2. k \in DOMAIN q
        BY <4>1, <1>1
      <4>3. l # m
        BY <4>2, <2>1, <1>1, <1>2
      <4> QED
        BY <4>2, <4>3, <1>1
    <3> QED
      BY <3>1, <2>1, <1>2 DEF Link, Framed
  <2>2. ASSUME NEW k \in DOMAIN s
        PROVE  IF s[k].type = "Start" THEN r[s[k].id] = None
               ELSE r[s[k].id] # None \/ HasBefore(s, k, "Start", s[k].id)
    <3>1. CASE k \in DOMAIN q
      <4>1. IF q[k].type = "Start" THEN r[q[k].id] = None
            ELSE r[q[k].id] # None \/ HasBefore(q, k, "Start", q[k].id)
        BY <3>1 DEF Link, Framed
      <4> QED
        BY <4>1, <3>1, <1>2, <1>4
    <3>2. CASE k \notin DOMAIN q
      BY <3>2, <1>1
    <3> QED
      BY <3>1, <3>2
  <2> QED
    BY <2>1, <2>2 DEF Framed
<1>6. Announced(s, r, u)
  <2>1. ASSUME NEW j \in Ids, u[j].state # "none"
        PROVE  Seen(s, r, j) /\ ~Has(s, "Destroy", j)
    <3>0. \A k \in DOMAIN s : k \notin DOMAIN q => ~Is(s, k, "Destroy", j)
      BY <1>1 DEF Is
    <3>1. CASE j = f.id
      <4>1. Has(s, "Start", j)
        BY <3>1, <1>1 DEF Has, Is
      <4>2. ~Has(q, "Destroy", j)
        BY <3>1, <1>3 DEF Has, Is
      <4> QED
        BY <4>1, <4>2, <3>0, <1>1, GrownHas DEF Seen
    <3>2. CASE j # f.id
      <4>1. Seen(q, r, j) /\ ~Has(q, "Destroy", j)
        BY <2>1, <3>2 DEF Link, Announced
      <4> QED
        BY <4>1, <3>0, <1>1, GrownHas DEF Seen
    <3> QED
      BY <3>1, <3>2
  <2> QED
    BY <2>1 DEF Announced
<1>7. Named(s, r, h, u)
  <2> SUFFICES ASSUME NEW j \in Ids
               PROVE  \E n \in Names :
                        /\ u[j].state # "none" => u[j].name = n
                        /\ \A k \in DOMAIN s : s[k].id = j => s[k].name = n
                        /\ r[j] # None /\ h[r[j]].state # "none" => h[r[j]].name = n
    BY DEF Named
  <2>1. CASE j = f.id
    BY <2>1, <1>1, <1>2, <1>3
  <2>2. CASE j # f.id
    <3>1. PICK n \in Names :
            /\ t[j].state # "none" => t[j].name = n
            /\ \A k \in DOMAIN q : q[k].id = j => q[k].name = n
            /\ r[j] # None /\ h[r[j]].state # "none" => h[r[j]].name = n
      BY DEF Link, Named
    <3> WITNESS n \in Names
    <3> QED
      BY <2>2, <3>1, <1>1, <1>2
  <2> QED
    BY <2>1, <2>2
<1>8. Replaced(s, r, h)
  <2>0. Replaced(q, r, h)
    BY DEF Link
  <2> SUFFICES ASSUME NEW p \in DOMAIN s, NEW j \in Ids,
                      s[p].type = "Start", s[p].id # j,
                      \/ r[j] # None /\ h[r[j]].state = "open" /\ h[r[j]].name = s[p].name
                      \/ \E k \in DOMAIN s : k < p /\ Is(s, k, "Start", j) /\ s[k].name = s[p].name
               PROVE  HasBefore(s, p, "Destroy", j)
    BY Zenon DEF Replaced
  <2>1. CASE p \in DOMAIN q
    <3>1. \A k \in DOMAIN s : k < p => k \in DOMAIN q
      BY <2>1, <1>1, <1>2
    <3>2. \/ r[j] # None /\ h[r[j]].state = "open" /\ h[r[j]].name = q[p].name
          \/ \E k \in DOMAIN q : k < p /\ Is(q, k, "Start", j) /\ q[k].name = q[p].name
      BY <3>1, <2>1, <1>2, Zenon DEF Is
    <3>3. HasBefore(q, p, "Destroy", j)
      BY <3>2, <2>0, <2>1, <1>2, Zenon DEF Replaced
    <3> QED
      BY <3>3, <2>1, <1>4
  <2>2. CASE p \notin DOMAIN q
    <3>1. p = m /\ s[p] = f /\ j # f.id
      BY <2>2, <1>1
    <3>2. \/ r[j] # None /\ h[r[j]].state = "open" /\ h[r[j]].name = f.name
          \/ \E k \in DOMAIN q : Is(q, k, "Start", j) /\ q[k].name = f.name
      <4>1. \A k \in DOMAIN s : k < m => k \in DOMAIN q
        BY <1>1, <1>2
      <4> QED
        BY <4>1, <3>1, <1>2 DEF Is
    <3>3. Seen(q, r, j)
      BY <3>2 DEF Seen, Has
    <3>4. t[j].state = "none"
      <4>1. PICK n \in Names :
              /\ t[j].state # "none" => t[j].name = n
              /\ \A k \in DOMAIN q : q[k].id = j => q[k].name = n
              /\ r[j] # None /\ h[r[j]].state # "none" => h[r[j]].name = n
        BY DEF Link, Named
      <4>2. n = f.name
        BY <4>1, <3>2 DEF Is
      <4> QED
        BY <4>1, <4>2
    <3>5. Has(q, "Destroy", j)
      BY <3>3, <3>4 DEF Forgotten
    <3> QED
      BY <3>1, <3>5, <1>1, <1>2, GrownHasBeforeNew
  <2> QED
    BY <2>1, <2>2
<1>9. Counted(s, r, h, u)
  <2>0. Counted(q, r, h, t)
    BY DEF Link
  <2>1. \A p \in DOMAIN q : q[p].type = "Data" => q[p].k # 0 /\ Reached(s, r, h, q[p].id, p, q[p].k - 1)
    BY <2>0, <1>1, GrownReachedOld, Zenon DEF Counted
  <2>2. \A p \in DOMAIN q : q[p].type = "End" => Reached(s, r, h, q[p].id, p, q[p].k)
    BY <2>0, <1>1, GrownReachedOld, Zenon DEF Counted
  <2>3. ASSUME NEW j \in Ids, u[j].state # "none"
        PROVE  Reached(s, r, h, j, m + 1, u[j].wrote)
    <3>1. CASE j = f.id
      <4>1. \A k \in DOMAIN s : ~Is(s, k, "Data", j)
        BY <3>1, <1>1, <1>2, <1>3 DEF Is
      <4> QED
        BY <4>1, <3>1 DEF Reached, Held, HasBefore
    <3>2. CASE j # f.id
      <4>1. t[j].state # "none" /\ u[j].wrote = t[j].wrote
        BY <2>3, <3>2
      <4>2. Reached(q, r, h, j, Len(q) + 1, t[j].wrote)
        BY <2>0, <4>1 DEF Counted
      <4>3. \A l \in DOMAIN s : l \notin DOMAIN q /\ l < m + 1 => ~Is(s, l, "Data", j)
        BY <1>1 DEF Is
      <4>4. \A l \in DOMAIN q : l < m + 1
        BY <1>2
      <4> QED
        BY <1>1, <4>1, <4>2, <4>3, <4>4, GrownReachedNew
    <3> QED
      BY <3>1, <3>2
  <2>4. \A p \in DOMAIN s : s[p].type = "Data" => s[p].k # 0 /\ Reached(s, r, h, s[p].id, p, s[p].k - 1)
    BY <2>1, <1>1, <1>2
  <2>5. \A p \in DOMAIN s : s[p].type = "End" => Reached(s, r, h, s[p].id, p, s[p].k)
    BY <2>2, <1>1, <1>2
  <2> QED
    BY <2>3, <2>4, <2>5 DEF Counted
<1>10. OneSource(r, h)
  BY DEF Link
<1> QED
  BY <1>5, <1>6, <1>7, <1>8, <1>9, <1>10 DEF Link

\* The numbers that are to be forgotten.
LEMMA PushForgotten ==
  ASSUME NEW q \in Seq(Frames), NEW r \in Maps, NEW t \in Chans, NEW u \in Chans,
         Forgotten(q, r, t), NEW s, Grows(q, s),
         \A k \in DOMAIN s : k \notin DOMAIN q /\ s[k].type = "Start" => u[s[k].id].state # "none",
         \A j \in Ids : u[j].state = "none" => t[j].state = "none" \/ Has(s, "Destroy", j)
  PROVE  Forgotten(s, r, u)
<1> SUFFICES ASSUME NEW j \in Ids, u[j].state = "none", Seen(s, r, j)
             PROVE  Has(s, "Destroy", j)
  BY Zenon DEF Forgotten
<1>1. CASE t[j].state = "none"
  <2>1. \A k \in DOMAIN s : k \notin DOMAIN q => ~Is(s, k, "Start", j)
    BY DEF Is
  <2>2. Seen(q, r, j)
    BY <2>1, GrownHas DEF Seen
  <2>3. Has(q, "Destroy", j)
    BY <2>2, <1>1, Zenon DEF Forgotten
  <2> QED
    BY <2>3, GrownHas
<1>2. CASE t[j].state # "none"
  BY <1>2
<1> QED
  BY <1>1, <1>2

-----------------------------------------------------------------------------
(* The first frame is received                                             *)

Pops(q, s) ==
  /\ s \in Seq(Frames) /\ 1 \in DOMAIN q /\ Len(q) = Len(s) + 1
  /\ \A k \in DOMAIN s : k + 1 \in DOMAIN q /\ s[k] = q[k + 1]
  /\ \A k \in DOMAIN q : k = 1 \/ \E l \in DOMAIN s : k = l + 1

LEMMA Popped ==
  ASSUME NEW q \in Seq(Frames), q # <<>>
  PROVE  Pops(q, Tail(q)) /\ Head(q) = q[1]
<1>1. Len(q) \in Nat /\ Len(q) # 0 /\ DOMAIN q = 1..Len(q)
  OBVIOUS
<1>2. /\ Tail(q) \in Seq(Frames) /\ Len(Tail(q)) = Len(q) - 1
      /\ DOMAIN Tail(q) = 1..(Len(q) - 1)
      /\ \A k \in 1..(Len(q) - 1) : Tail(q)[k] = q[k + 1]
  BY <1>1
<1>3. \A k \in DOMAIN q : k = 1 \/ \E l \in DOMAIN Tail(q) : k = l + 1
  <2> SUFFICES ASSUME NEW k \in DOMAIN q, k # 1
               PROVE  \E l \in DOMAIN Tail(q) : k = l + 1
    OBVIOUS
  <2>1. k - 1 \in DOMAIN Tail(q) /\ k = (k - 1) + 1
    BY <1>1, <1>2
  <2> QED
    BY <2>1
<1>4. Head(q) = q[1]
  OBVIOUS
<1> QED
  BY <1>1, <1>2, <1>3, <1>4 DEF Pops

LEMMA PoppedHas ==
  ASSUME NEW q \in Seq(Frames), NEW s, Pops(q, s), NEW type, NEW j
  PROVE  /\ Has(s, type, j) => Has(q, type, j)
         /\ Has(q, type, j) => Has(s, type, j) \/ Is(q, 1, type, j)
BY DEF Pops, Has, Is

LEMMA PoppedHasBefore ==
  ASSUME NEW q \in Seq(Frames), NEW s, Pops(q, s), NEW type, NEW j, NEW p \in Nat
  PROVE  /\ HasBefore(s, p, type, j) => HasBefore(q, p + 1, type, j)
         /\ HasBefore(q, p + 1, type, j) => HasBefore(s, p, type, j) \/ Is(q, 1, type, j)
<1>1. DOMAIN s \subseteq Nat /\ DOMAIN q \subseteq Nat
  BY DEF Pops
<1>2. ASSUME HasBefore(s, p, type, j)
      PROVE  HasBefore(q, p + 1, type, j)
  <2>1. PICK k \in DOMAIN s : k < p /\ Is(s, k, type, j)
    BY <1>2 DEF HasBefore
  <2>2. k + 1 \in DOMAIN q /\ k + 1 < p + 1 /\ Is(q, k + 1, type, j)
    BY <1>1, <2>1 DEF Pops, Is
  <2> QED
    BY <2>2 DEF HasBefore
<1>3. ASSUME HasBefore(q, p + 1, type, j), ~Is(q, 1, type, j)
      PROVE  HasBefore(s, p, type, j)
  <2>1. PICK k \in DOMAIN q : k < p + 1 /\ Is(q, k, type, j)
    BY <1>3 DEF HasBefore
  <2>2. PICK l \in DOMAIN s : k = l + 1
    BY <1>3, <2>1 DEF Pops
  <2>3. l < p /\ Is(s, l, type, j)
    BY <1>1, <2>1, <2>2 DEF Pops, Is
  <2> QED
    BY <2>3 DEF HasBefore
<1> QED
  BY <1>2, <1>3

\* The count of a number whose data is not what comes first.
LEMMA PoppedReached ==
  ASSUME NEW q \in Seq(Frames), NEW s, Pops(q, s), NEW r, NEW h, NEW v, NEW g,
         NEW j, NEW k, NEW p \in Nat,
         ~Is(q, 1, "Data", j), Held(r, h, j, k) => Held(v, g, j, k),
         Reached(q, r, h, j, p + 1, k)
  PROVE  Reached(s, v, g, j, p, k)
<1>1. HasBefore(s, p, "Data", j) <=> HasBefore(q, p + 1, "Data", j)
  BY PoppedHasBefore
<1>2. CASE ~HasBefore(s, p, "Data", j)
  BY <1>1, <1>2, Zenon DEF Reached
<1>3. CASE HasBefore(s, p, "Data", j)
  <2>0. DOMAIN s \subseteq Nat /\ DOMAIN q \subseteq Nat
    BY DEF Pops
  <2>1. /\ \E l \in DOMAIN q : l < p + 1 /\ Is(q, l, "Data", j) /\ q[l].k = k
        /\ \A l \in DOMAIN q : l < p + 1 /\ Is(q, l, "Data", j) => q[l].k <= k
    BY <1>1, <1>3, Zenon DEF Reached
  <2>2. \E l \in DOMAIN s : l < p /\ Is(s, l, "Data", j) /\ s[l].k = k
    <3>1. PICK l \in DOMAIN q : l < p + 1 /\ Is(q, l, "Data", j) /\ q[l].k = k
      BY <2>1
    <3>2. PICK i \in DOMAIN s : l = i + 1
      BY <3>1 DEF Pops
    <3>3. i < p /\ Is(s, i, "Data", j) /\ s[i].k = k
      BY <2>0, <3>1, <3>2 DEF Pops, Is
    <3> QED
      BY <3>3
  <2>3. ASSUME NEW l \in DOMAIN s, l < p, Is(s, l, "Data", j)
        PROVE  s[l].k <= k
    <3>1. l + 1 \in DOMAIN q /\ l + 1 < p + 1 /\ Is(q, l + 1, "Data", j) /\ s[l] = q[l + 1]
      BY <2>0, <2>3 DEF Pops, Is
    <3>2. q[l + 1].k <= k
      BY <2>1, <3>1
    <3> QED
      BY <3>1, <3>2
  <2> QED
    BY <1>3, <2>2, <2>3, Zenon DEF Reached
<1> QED
  BY <1>2, <1>3

\* What receiving the first frame does to the map, and may do to the channels.
Taken(f, r, v, h, g) ==
  /\ \A j \in Ids : j # f.id => v[j] = r[j]
  /\ f.type = "Start" => /\ v[f.id] # None /\ g[v[f.id]].state # "none"
                         /\ g[v[f.id]].name = f.name
  /\ f.type = "Destroy" => v[f.id] = None
  /\ f.type \in {"Data", "End"} => v[f.id] = r[f.id]
  /\ \A i \in Ids : g[i].name = h[i].name /\ g[i].state = h[i].state

LEMMA PopTables ==
  ASSUME NEW q \in Seq(Frames), NEW r \in Maps, NEW h \in Chans, NEW t \in Chans,
         NEW v \in Maps, NEW g \in Chans, NEW s, Pops(q, s), Taken(q[1], r, v, h, g),
         Link(q, r, h, t)
  PROVE  Framed(s, v) /\ Announced(s, v, t) /\ Named(s, v, g, t) /\ Replaced(s, v, g)
<1> DEFINE f == q[1]
<1>1. /\ s \in Seq(Frames) /\ 1 \in DOMAIN q
      /\ \A k \in DOMAIN s : k + 1 \in DOMAIN q /\ s[k] = q[k + 1]
      /\ \A k \in DOMAIN q : k = 1 \/ \E l \in DOMAIN s : k = l + 1
  BY DEF Pops
<1>2. /\ DOMAIN s \subseteq Nat /\ DOMAIN q \subseteq Nat
      /\ \A k \in DOMAIN s : 1 < k + 1
      /\ \A k \in DOMAIN s : s[k].id \in Ids
      /\ f.id \in Ids
      /\ f.type \in {"Start", "Data", "End", "Destroy"}
  <2>1. \A k \in DOMAIN s : k \in Nat /\ 1 < k + 1 /\ s[k].id \in Ids
    BY <1>1, Places
  <2>2. f.id \in Ids /\ f \in Frames
    BY <1>1, Places
  <2>3. f.type \in {"Start", "Data", "End", "Destroy"}
    BY <2>2 DEF Frames
  <2>4. DOMAIN q \subseteq Nat
    BY Places
  <2> QED
    BY <2>1, <2>2, <2>3, <2>4
<1>3. /\ \A j \in Ids : j # f.id => v[j] = r[j]
      /\ f.type = "Start" => v[f.id] # None /\ g[v[f.id]].state # "none" /\ g[v[f.id]].name = f.name
      /\ f.type = "Destroy" => v[f.id] = None
      /\ f.type \in {"Data", "End"} => v[f.id] = r[f.id]
      /\ \A i \in Ids : g[i].name = h[i].name /\ g[i].state = h[i].state
  BY DEF Taken
<1>4. /\ \A k, l \in DOMAIN q : k < l /\ q[k].id = q[l].id =>
           q[l].type # "Start" /\ q[k].type # "Destroy"
      /\ \A k \in DOMAIN q :
           IF q[k].type = "Start" THEN r[q[k].id] = None
           ELSE r[q[k].id] # None \/ HasBefore(q, k, "Start", q[k].id)
  BY DEF Link, Framed
<1>5. \A k \in DOMAIN s : s[k].id = f.id => s[k].type # "Start" /\ f.type # "Destroy"
  BY <1>1, <1>2, <1>4
<1>6. \A type \in {"Start", "Destroy"}, j \in Ids, p \in DOMAIN s :
        HasBefore(q, p + 1, type, j) => HasBefore(s, p, type, j) \/ (f.type = type /\ f.id = j)
  BY <1>2, PoppedHasBefore DEF Is
<1>7. Framed(s, v)
  <2>1. ASSUME NEW k \in DOMAIN s, NEW l \in DOMAIN s, k < l, s[k].id = s[l].id
        PROVE  s[l].type # "Start" /\ s[k].type # "Destroy"
    <3>1. k + 1 \in DOMAIN q /\ l + 1 \in DOMAIN q /\ k + 1 < l + 1
      BY <1>1, <1>2, <2>1
    <3> QED
      BY <3>1, <2>1, <1>1, <1>4
  <2>2. ASSUME NEW k \in DOMAIN s
        PROVE  IF s[k].type = "Start" THEN v[s[k].id] = None
               ELSE v[s[k].id] # None \/ HasBefore(s, k, "Start", s[k].id)
    <3>1. IF s[k].type = "Start" THEN r[s[k].id] = None
          ELSE r[s[k].id] # None \/ HasBefore(q, k + 1, "Start", s[k].id)
      BY <1>1, <1>4
    <3>2. CASE s[k].id = f.id
      BY <3>1, <3>2, <1>2, <1>3, <1>5, <1>6
    <3>3. CASE s[k].id # f.id
      BY <3>1, <3>3, <1>2, <1>3, <1>6
    <3> QED
      BY <3>2, <3>3
  <2> QED
    BY <2>1, <2>2 DEF Framed
<1>8. Announced(s, v, t)
  <2>1. ASSUME NEW j \in Ids, t[j].state # "none"
        PROVE  Seen(s, v, j) /\ ~Has(s, "Destroy", j)
    <3>1. Seen(q, r, j) /\ ~Has(q, "Destroy", j)
      BY <2>1 DEF Link, Announced
    <3>2. ~(f.type = "Destroy" /\ f.id = j)
      BY <3>1, <1>1 DEF Has, Is
    <3>3. /\ Has(s, "Destroy", j) => Has(q, "Destroy", j)
          /\ Has(q, "Start", j) => Has(s, "Start", j) \/ Is(q, 1, "Start", j)
      BY PoppedHas
    <3>4. r[j] # None => v[j] # None
      BY <3>2, <1>2, <1>3
    <3>5. Is(q, 1, "Start", j) => v[j] # None
      BY <1>3 DEF Is
    <3> QED
      BY <3>1, <3>3, <3>4, <3>5 DEF Seen
  <2> QED
    BY <2>1 DEF Announced
<1>9. Named(s, v, g, t)
  <2> SUFFICES ASSUME NEW j \in Ids
               PROVE  \E n \in Names :
                        /\ t[j].state # "none" => t[j].name = n
                        /\ \A k \in DOMAIN s : s[k].id = j => s[k].name = n
                        /\ v[j] # None /\ g[v[j]].state # "none" => g[v[j]].name = n
    BY DEF Named
  <2>1. PICK n \in Names :
          /\ t[j].state # "none" => t[j].name = n
          /\ \A k \in DOMAIN q : q[k].id = j => q[k].name = n
          /\ r[j] # None /\ h[r[j]].state # "none" => h[r[j]].name = n
    BY DEF Link, Named
  <2> WITNESS n \in Names
  <2>2. \A k \in DOMAIN s : s[k].id = j => s[k].name = n
    BY <2>1, <1>1
  <2>3. ASSUME v[j] # None, g[v[j]].state # "none"
        PROVE  g[v[j]].name = n
    <3>1. CASE j = f.id /\ f.type = "Start"
      BY <3>1, <2>1, <1>1, <1>3
    <3>2. CASE ~(j = f.id /\ f.type = "Start")
      <4>1. v[j] = r[j] /\ r[j] \in Ids
        BY <3>2, <2>3, <1>2, <1>3 DEF Maps
      <4> QED
        BY <4>1, <2>1, <2>3, <1>3
    <3> QED
      BY <3>1, <3>2
  <2> QED
    BY <2>1, <2>2, <2>3
<1>10. Replaced(s, v, g)
  <2>0. Replaced(q, r, h)
    BY DEF Link
  <2> SUFFICES ASSUME NEW p \in DOMAIN s, NEW j \in Ids,
                      s[p].type = "Start", s[p].id # j,
                      \/ v[j] # None /\ g[v[j]].state = "open" /\ g[v[j]].name = s[p].name
                      \/ \E k \in DOMAIN s : k < p /\ Is(s, k, "Start", j) /\ s[k].name = s[p].name
               PROVE  HasBefore(s, p, "Destroy", j)
    BY Zenon DEF Replaced
  <2>1. p + 1 \in DOMAIN q /\ q[p + 1].type = "Start" /\ q[p + 1].id # j /\ q[p + 1] = s[p]
    BY <1>1
  <2>2. ~(f.type = "Destroy" /\ f.id = j)
    BY <1>3, <1>5 DEF Is
  <2>3. \/ r[j] # None /\ h[r[j]].state = "open" /\ h[r[j]].name = q[p + 1].name
        \/ \E k \in DOMAIN q : k < p + 1 /\ Is(q, k, "Start", j) /\ q[k].name = q[p + 1].name
    <3>1. CASE v[j] # None /\ g[v[j]].state = "open" /\ g[v[j]].name = s[p].name
      <4>1. CASE j = f.id /\ f.type = "Start"
        <5>1. Is(q, 1, "Start", j) /\ q[1].name = q[p + 1].name
          BY <4>1, <3>1, <2>1, <1>3 DEF Is
        <5> QED
          BY <5>1, <1>1, <1>2
      <4>2. CASE ~(j = f.id /\ f.type = "Start")
        <5>1. v[j] = r[j] /\ r[j] \in Ids
          BY <4>2, <3>1, <1>2, <1>3 DEF Maps
        <5> QED
          BY <5>1, <3>1, <2>1, <1>3
      <4> QED
        BY <4>1, <4>2
    <3>2. CASE \E k \in DOMAIN s : k < p /\ Is(s, k, "Start", j) /\ s[k].name = s[p].name
      <4>1. PICK k \in DOMAIN s : k < p /\ Is(s, k, "Start", j) /\ s[k].name = s[p].name
        BY <3>2
      <4>2. k + 1 \in DOMAIN q /\ k + 1 < p + 1 /\ Is(q, k + 1, "Start", j) /\ q[k + 1].name = q[p + 1].name
        BY SMTT(30), <4>1, <2>1, <1>1, <1>2 DEF Is
      <4> QED
        BY <4>2
    <3> QED
      BY <3>1, <3>2
  <2>4. HasBefore(q, p + 1, "Destroy", j)
    BY <2>0, <2>1, <2>3, Zenon DEF Replaced
  <2> QED
    BY <2>2, <2>4, <1>6
<1> QED
  BY <1>7, <1>8, <1>9, <1>10

\* The count of the number whose data comes first.
LEMMA PoppedReachedData ==
  ASSUME NEW q \in Seq(Frames), NEW s, Pops(q, s), NEW r, NEW h, NEW t, NEW v, NEW g,
         NEW j, NEW k, NEW p \in Nat,
         Is(q, 1, "Data", j), Held(v, g, j, q[1].k), Counted(q, r, h, t),
         Reached(q, r, h, j, p + 1, k), p # 0
  PROVE  Reached(s, v, g, j, p, k)
<1>1. /\ 1 \in DOMAIN q /\ DOMAIN s \subseteq Nat /\ DOMAIN q \subseteq Nat
      /\ \A l \in DOMAIN s : l + 1 \in DOMAIN q /\ s[l] = q[l + 1] /\ 1 < l + 1
      /\ \A l \in DOMAIN q : l = 1 \/ \E i \in DOMAIN s : l = i + 1
      /\ \A l \in DOMAIN q : q[l].k \in Nat
  <2>1. \A l \in DOMAIN q : q[l].k \in Nat
    BY Places
  <2>2. \A l \in DOMAIN s : l \in Nat /\ 1 < l + 1
    BY DEF Pops
  <2> QED
    BY <2>1, <2>2 DEF Pops
<1>2. HasBefore(q, p + 1, "Data", j)
  BY <1>1 DEF HasBefore
<1>3. /\ \E l \in DOMAIN q : l < p + 1 /\ Is(q, l, "Data", j) /\ q[l].k = k
      /\ \A l \in DOMAIN q : l < p + 1 /\ Is(q, l, "Data", j) => q[l].k <= k
  BY <1>2, Zenon DEF Reached
<1>4. CASE ~HasBefore(s, p, "Data", j)
  <2>1. PICK l \in DOMAIN q : l < p + 1 /\ Is(q, l, "Data", j) /\ q[l].k = k
    BY <1>3
  <2>2. l = 1
    <3> SUFFICES ASSUME NEW i \in DOMAIN s, l = i + 1
                 PROVE  FALSE
      BY <1>1
    <3>1. i < p /\ Is(s, i, "Data", j)
      BY <1>1, <2>1 DEF Is
    <3> QED
      BY <3>1, <1>4 DEF HasBefore
  <2> QED
    BY <1>4, <2>1, <2>2 DEF Reached
<1>5. CASE HasBefore(s, p, "Data", j)
  <2>1. PICK i \in DOMAIN s : i < p /\ Is(s, i, "Data", j)
    BY <1>5 DEF HasBefore
  <2>2. i + 1 \in DOMAIN q /\ i + 1 < p + 1 /\ Is(q, i + 1, "Data", j)
    BY <1>1, <2>1 DEF Is
  <2>3. q[1].k < q[i + 1].k
    <3>1. q[i + 1].k # 0 /\ Reached(q, r, h, j, i + 1, q[i + 1].k - 1)
      BY <2>2 DEF Counted, Is
    <3>2. HasBefore(q, i + 1, "Data", j)
      BY <1>1 DEF HasBefore
    <3>3. q[1].k <= q[i + 1].k - 1
      BY <3>1, <3>2, <1>1 DEF Reached
    <3> QED
      BY <3>1, <3>3, <2>2, <1>1
  <2>4. q[i + 1].k <= k
    BY <2>2, <1>3
  <2>5. \E l \in DOMAIN s : l < p /\ Is(s, l, "Data", j) /\ s[l].k = k
    <3>1. PICK l \in DOMAIN q : l < p + 1 /\ Is(q, l, "Data", j) /\ q[l].k = k
      BY <1>3
    <3>2. l # 1
      BY <3>1, <2>3, <2>4, <2>2, <1>1
    <3>3. PICK m \in DOMAIN s : l = m + 1
      BY <3>1, <3>2, <1>1
    <3>4. m < p /\ Is(s, m, "Data", j) /\ s[m].k = k
      BY <3>1, <3>3, <1>1 DEF Is
    <3> QED
      BY <3>4
  <2>6. ASSUME NEW l \in DOMAIN s, l < p, Is(s, l, "Data", j)
        PROVE  s[l].k <= k
    <3>1. l + 1 \in DOMAIN q /\ l + 1 < p + 1 /\ Is(q, l + 1, "Data", j) /\ s[l] = q[l + 1]
      BY <1>1, <2>6 DEF Is
    <3>2. q[l + 1].k <= k
      BY <1>3, <3>1
    <3> QED
      BY <3>1, <3>2
  <2> QED
    BY <1>5, <2>5, <2>6, Zenon DEF Reached
<1> QED
  BY <1>4, <1>5

LEMMA PopCounted ==
  ASSUME NEW q \in Seq(Frames), NEW r \in Maps, NEW h \in Chans, NEW t \in Chans,
         NEW v \in Maps, NEW g \in Chans, NEW s, Pops(q, s), Link(q, r, h, t),
         \A j \in Ids : j # q[1].id => v[j] = r[j],
         \A j \in Ids : \A k :
           Held(r, h, j, k) /\ ~Is(q, 1, "Data", j) /\ ~Is(q, 1, "Destroy", j) => Held(v, g, j, k),
         q[1].type = "Data" => Held(v, g, q[1].id, q[1].k)
  PROVE  Counted(s, v, g, t)
<1> DEFINE f == q[1]
<1>0. Counted(q, r, h, t) /\ Framed(q, r) /\ Announced(q, r, t)
  BY DEF Link
<1>1. /\ s \in Seq(Frames) /\ 1 \in DOMAIN q /\ Len(q) = Len(s) + 1
      /\ \A k \in DOMAIN s : k + 1 \in DOMAIN q /\ s[k] = q[k + 1]
  BY DEF Pops
<1>2. /\ Len(s) \in Nat /\ Len(s) + 1 # 0 /\ f.id \in Ids
      /\ \A k \in DOMAIN s : k \in Nat /\ k # 0 /\ 1 < k + 1 /\ s[k].id \in Ids
  BY <1>1, Places
<1>3. ASSUME NEW j \in Ids, NEW p \in Nat, p # 0, NEW k, ~Is(q, 1, "Destroy", j),
             Reached(q, r, h, j, p + 1, k)
      PROVE  Reached(s, v, g, j, p, k)
  <2>1. CASE Is(q, 1, "Data", j)
    <3>1. Held(v, g, j, q[1].k)
      BY <2>1 DEF Is
    <3> QED
      BY <1>0, <1>3, <2>1, <3>1, PoppedReachedData
  <2>2. CASE ~Is(q, 1, "Data", j)
    <3>1. Held(r, h, j, k) => Held(v, g, j, k)
      BY <1>3, <2>2
    <3> QED
      BY <1>3, <2>2, <3>1, PoppedReached
  <2> QED
    BY <2>1, <2>2
<1>4. \A k \in DOMAIN s : ~Is(q, 1, "Destroy", s[k].id)
  BY <1>0, <1>1, <1>2 DEF Framed, Is
<1>5. \A j \in Ids : t[j].state # "none" => ~Is(q, 1, "Destroy", j)
  BY <1>0, <1>1 DEF Announced, Has
<1>6. ASSUME NEW p \in DOMAIN s, s[p].type = "Data"
      PROVE  s[p].k # 0 /\ Reached(s, v, g, s[p].id, p, s[p].k - 1)
  <2>1. s[p].k # 0 /\ Reached(q, r, h, s[p].id, p + 1, s[p].k - 1)
    <3>1. p + 1 \in DOMAIN q /\ q[p + 1] = s[p]
      BY <1>1
    <3>2. q[p + 1].k # 0 /\ Reached(q, r, h, q[p + 1].id, p + 1, q[p + 1].k - 1)
      BY <3>1, <1>0, <1>6, Zenon DEF Counted
    <3> QED
      BY <3>1, <3>2
  <2> QED
    BY <2>1, <1>2, <1>3, <1>4
<1>7. ASSUME NEW p \in DOMAIN s, s[p].type = "End"
      PROVE  Reached(s, v, g, s[p].id, p, s[p].k)
  <2>1. Reached(q, r, h, s[p].id, p + 1, s[p].k)
    <3>1. p + 1 \in DOMAIN q /\ q[p + 1] = s[p]
      BY <1>1
    <3>2. Reached(q, r, h, q[p + 1].id, p + 1, q[p + 1].k)
      BY <3>1, <1>0, <1>7, Zenon DEF Counted
    <3> QED
      BY <3>1, <3>2
  <2> QED
    BY <2>1, <1>2, <1>3, <1>4
<1>8. ASSUME NEW j \in Ids, t[j].state # "none"
      PROVE  Reached(s, v, g, j, Len(s) + 1, t[j].wrote)
  <2>1. Reached(q, r, h, j, (Len(s) + 1) + 1, t[j].wrote)
    BY <1>0, <1>1, <1>8 DEF Counted
  <2>2. Len(s) + 1 \in Nat
    BY <1>2
  <2> QED
    BY <2>1, <2>2, <1>2, <1>3, <1>5, <1>8
<1> QED
  BY <1>6, <1>7, <1>8 DEF Counted

\* A name is announced, and the number stands for the channel of that name.
LEMMA PopStart ==
  ASSUME NEW q \in Seq(Frames), NEW r \in Maps, NEW h \in Chans, NEW t \in Chans,
         NEW s, Pops(q, s), Link(q, r, h, t), q[1].type = "Start",
         NEW i \in Ids, h[i].state # "none", h[i].name = q[1].name
  PROVE  Link(s, [r EXCEPT ![q[1].id] = i], h, t)
<1> DEFINE f == q[1]
           v == [r EXCEPT ![f.id] = i]
<1>1. 1 \in DOMAIN q /\ f.id \in Ids
  BY Places DEF Pops
<1>2. /\ v \in Maps /\ v[f.id] = i /\ i # None
      /\ \A j \in Ids : j # f.id => v[j] = r[j]
  BY <1>1 DEF Maps, Ids, None
<1>3. r[f.id] = None
  BY <1>1 DEF Link, Framed
<1>4. Taken(f, r, v, h, h)
  BY <1>2 DEF Taken
<1> HIDE DEF v
<1>5. Framed(s, v) /\ Announced(s, v, t) /\ Named(s, v, h, t) /\ Replaced(s, v, h)
  BY <1>2, <1>4, PopTables
<1>6. ASSUME NEW j \in Ids, r[j] = i, h[i].state = "open"
      PROVE  FALSE
  <2>1. j # f.id /\ i # None
    BY <1>2, <1>3, <1>6
  <2>2. HasBefore(q, 1, "Destroy", j)
    BY <1>1, <1>6, <2>1, Zenon DEF Link, Replaced
  <2>3. \A k \in DOMAIN q : ~(k < 1)
    BY Places
  <2> QED
    BY <2>2, <2>3 DEF HasBefore
<1>7. h[i].state = "open" => h[i].got = 0 /\ h[i].from = None
  <2> SUFFICES ASSUME h[i].state = "open"
               PROVE  h[i].got = 0 /\ h[i].from = None
    OBVIOUS
  <2>1. /\ h[i].got = 0 <=> h[i].from = None
        /\ h[i].from # None => r[h[i].from] = i
    BY DEF Link, OneSource
  <2>2. h[i].from \in Ids \cup {None}
    BY DEF Chans, Channel
  <2> QED
    BY <2>1, <2>2, <1>6
<1>8. OneSource(v, h)
  <2>0. OneSource(r, h)
    BY DEF Link
  <2>1. ASSUME NEW j \in Ids, NEW l \in Ids, v[j] # None, v[j] = v[l], h[v[j]].state = "open"
        PROVE  j = l
    <3>1. CASE j # f.id /\ l # f.id
      BY <3>1, <2>0, <2>1, <1>2 DEF OneSource
    <3>2. CASE j = f.id /\ l # f.id
      BY <3>2, <2>1, <1>2, <1>6
    <3>3. CASE j # f.id /\ l = f.id
      BY <3>3, <2>1, <1>2, <1>6
    <3> QED
      BY <3>1, <3>2, <3>3
  <2>2. ASSUME NEW c \in Ids, h[c].state = "open"
        PROVE  /\ h[c].got = 0 <=> h[c].from = None
               /\ h[c].from # None => v[h[c].from] = c
    <3>1. /\ h[c].got = 0 <=> h[c].from = None
          /\ h[c].from # None => r[h[c].from] = c
      BY <2>0, <2>2 DEF OneSource
    <3>2. h[c].from \in Ids \cup {None} /\ c # None
      BY DEF Chans, Channel, Ids, None
    <3> QED
      BY <3>1, <3>2, <1>2, <1>3
  <2> QED
    BY <2>1, <2>2 DEF OneSource
<1>9. Counted(s, v, h, t)
  <2>1. ASSUME NEW j \in Ids, NEW k, Held(r, h, j, k)
        PROVE  Held(v, h, j, k)
    <3>1. CASE j = f.id
      BY <3>1, <2>1, <1>2, <1>3, <1>7 DEF Held
    <3>2. CASE j # f.id
      BY <3>2, <2>1, <1>2 DEF Held
    <3> QED
      BY <3>1, <3>2
  <2> QED
    BY <1>2, <2>1, PopCounted
<1> QED
  BY <1>5, <1>8, <1>9 DEF Link, v

\* A chunk is read, or dropped by a channel that is not open.
LEMMA PopData ==
  ASSUME NEW q \in Seq(Frames), NEW r \in Maps, NEW h \in Chans, NEW t \in Chans,
         NEW s, Pops(q, s), Link(q, r, h, t), q[1].type = "Data",
         r[q[1].id] # None, NEW g \in Chans,
         \A c \in Ids :
           /\ g[c].name = h[c].name /\ g[c].state = h[c].state
           /\ c # r[q[1].id] => g[c].got = h[c].got /\ g[c].from = h[c].from
           /\ c = r[q[1].id] /\ h[c].state = "open" => g[c].got = h[c].got + 1 /\ g[c].from = q[1].id
  PROVE  Link(s, r, g, t)
<1> DEFINE f == q[1]
           i == r[f.id]
<1>1. 1 \in DOMAIN q /\ f.id \in Ids /\ i \in Ids /\ f.k \in Nat
  BY Places DEF Pops, Maps
<1>2. Taken(f, r, r, h, g)
  BY DEF Taken
<1>3. Framed(s, r) /\ Announced(s, r, t) /\ Named(s, r, g, t) /\ Replaced(s, r, g)
  BY <1>2, PopTables
<1>4. OneSource(r, h) /\ Counted(q, r, h, t)
  BY DEF Link
<1>5. OneSource(r, g)
  <2>1. ASSUME NEW j \in Ids, NEW l \in Ids, r[j] # None, r[j] = r[l], g[r[j]].state = "open"
        PROVE  j = l
    <3>1. r[j] \in Ids
      BY <2>1 DEF Maps
    <3> QED
      BY <3>1, <2>1, <1>4 DEF OneSource
  <2>2. ASSUME NEW c \in Ids, g[c].state = "open"
        PROVE  /\ g[c].got = 0 <=> g[c].from = None
               /\ g[c].from # None => r[g[c].from] = c
    <3>1. CASE c = i
      <4>1. g[c].got = h[c].got + 1 /\ g[c].from = f.id
        BY <3>1, <2>2
      <4>2. h[c].got \in Nat
        BY MultiplexConstants DEF Chans, Channel
      <4>3. f.id # None
        BY <1>1 DEF Ids, None
      <4> QED
        BY <3>1, <4>1, <4>2, <4>3
    <3>2. CASE c # i
      BY <3>2, <2>2, <1>4 DEF OneSource
    <3> QED
      BY <3>1, <3>2
  <2> QED
    BY <2>1, <2>2 DEF OneSource
<1>6. Held(r, g, f.id, f.k)
  <2>1. Reached(q, r, h, f.id, 1, f.k - 1) /\ f.k # 0
    BY <1>1, <1>4 DEF Counted
  <2>2. ~HasBefore(q, 1, "Data", f.id)
    BY Places DEF HasBefore
  <2>3. h[i].state = "open" => f.k - 1 = h[i].got
    BY <2>1, <2>2 DEF Reached, Held
  <2> QED
    BY <2>1, <2>3, <1>1 DEF Held
<1>7. Counted(s, r, g, t)
  <2>1. ASSUME NEW j \in Ids, NEW k, Held(r, h, j, k), j # f.id
        PROVE  Held(r, g, j, k)
    <3>1. CASE r[j] = None
      BY <3>1, <2>1 DEF Held
    <3>2. CASE r[j] # None
      <4>1. r[j] \in Ids
        BY <3>2 DEF Maps
      <4>2. g[r[j]].state = "open" => r[j] # i
        BY <3>2, <4>1, <2>1, <1>1, <1>4 DEF OneSource
      <4> QED
        BY <3>2, <4>1, <4>2, <2>1 DEF Held
    <3> QED
      BY <3>1, <3>2
  <2>2. \A j \in Ids : \A k :
          Held(r, h, j, k) /\ ~Is(q, 1, "Data", j) /\ ~Is(q, 1, "Destroy", j) => Held(r, g, j, k)
    BY <2>1 DEF Is
  <2> QED
    BY <1>6, <2>2, PopCounted
<1> QED
  BY <1>3, <1>5, <1>7 DEF Link

\* The sender has ended; the frame says how many chunks there were.
LEMMA PopEnd ==
  ASSUME NEW q \in Seq(Frames), NEW r \in Maps, NEW h \in Chans, NEW t \in Chans,
         NEW s, Pops(q, s), Link(q, r, h, t), q[1].type = "End"
  PROVE  Link(s, r, h, t)
<1>1. Taken(q[1], r, r, h, h)
  BY DEF Taken
<1>2. Framed(s, r) /\ Announced(s, r, t) /\ Named(s, r, h, t) /\ Replaced(s, r, h)
  BY <1>1, PopTables
<1>3. Counted(s, r, h, t)
  BY PopCounted
<1> QED
  BY <1>2, <1>3 DEF Link

\* The number is forgotten; the channel is not open any more.
LEMMA PopDestroy ==
  ASSUME NEW q \in Seq(Frames), NEW r \in Maps, NEW h \in Chans, NEW t \in Chans,
         NEW s, Pops(q, s), Link(q, r, h, t), q[1].type = "Destroy",
         r[q[1].id] # None, h[r[q[1].id]].state # "open"
  PROVE  Link(s, [r EXCEPT ![q[1].id] = None], h, t)
<1> DEFINE f == q[1]
           v == [r EXCEPT ![f.id] = None]
<1>1. 1 \in DOMAIN q /\ f.id \in Ids
  BY Places DEF Pops
<1>2. /\ v \in Maps /\ v[f.id] = None
      /\ \A j \in Ids : j # f.id => v[j] = r[j]
  BY <1>1 DEF Maps, Ids, None
<1>3. Taken(f, r, v, h, h)
  BY <1>2 DEF Taken
<1> HIDE DEF v
<1>4. Framed(s, v) /\ Announced(s, v, t) /\ Named(s, v, h, t) /\ Replaced(s, v, h)
  BY <1>2, <1>3, PopTables
<1>5. OneSource(v, h)
  <2>0. OneSource(r, h)
    BY DEF Link
  <2>1. ASSUME NEW j \in Ids, NEW l \in Ids, v[j] # None, v[j] = v[l], h[v[j]].state = "open"
        PROVE  j = l
    BY <2>0, <2>1, <1>2 DEF OneSource
  <2>2. ASSUME NEW c \in Ids, h[c].state = "open"
        PROVE  /\ h[c].got = 0 <=> h[c].from = None
               /\ h[c].from # None => v[h[c].from] = c
    <3>1. /\ h[c].got = 0 <=> h[c].from = None
          /\ h[c].from # None => r[h[c].from] = c
      BY <2>0, <2>2 DEF OneSource
    <3>2. h[c].from \in Ids \cup {None}
      BY DEF Chans, Channel
    <3> QED
      BY <3>1, <3>2, <2>2, <1>2
  <2> QED
    BY <2>1, <2>2 DEF OneSource
<1>6. Counted(s, v, h, t)
  <2>1. ASSUME NEW j \in Ids, NEW k, Held(r, h, j, k), ~Is(q, 1, "Destroy", j)
        PROVE  Held(v, h, j, k)
    BY <2>1, <1>2 DEF Held, Is
  <2> QED
    BY <1>2, <2>1, PopCounted
<1> QED
  BY <1>4, <1>5, <1>6 DEF Link, v

\* The numbers that are to be forgotten.
LEMMA PopForgotten ==
  ASSUME NEW q \in Seq(Frames), NEW r \in Maps, NEW h \in Chans, NEW t \in Chans,
         NEW v \in Maps, NEW g \in Chans, NEW s, Pops(q, s), Taken(q[1], r, v, h, g),
         Link(q, r, h, t), Forgotten(q, r, t)
  PROVE  Forgotten(s, v, t)
<1> DEFINE f == q[1]
<1> SUFFICES ASSUME NEW j \in Ids, t[j].state = "none", Seen(s, v, j)
             PROVE  Has(s, "Destroy", j)
  BY Zenon DEF Forgotten
<1>1. 1 \in DOMAIN q /\ f.id \in Ids /\ f.type \in {"Start", "Data", "End", "Destroy"}
  <2>1. 1 \in DOMAIN q
    BY DEF Pops
  <2>2. f \in Frames
    BY <2>1, Places
  <2> QED
    BY <2>1, <2>2 DEF Frames
<1>2. ~Is(q, 1, "Destroy", j)
  <2> SUFFICES ASSUME Is(q, 1, "Destroy", j)
               PROVE  FALSE
    OBVIOUS
  <2>1. v[j] = None
    BY DEF Taken, Is
  <2>2. PICK k \in DOMAIN s : Is(s, k, "Start", j)
    BY <2>1 DEF Seen, Has
  <2>3. k + 1 \in DOMAIN q /\ 1 < k + 1 /\ q[k + 1].id = f.id
    BY <2>2 DEF Pops, Is
  <2>4. f.type # "Destroy"
    BY <2>3, <1>1 DEF Link, Framed
  <2> QED
    BY <2>4 DEF Is
<1>3. Seen(q, r, j)
  <2>1. Has(s, "Start", j) => Has(q, "Start", j)
    BY PoppedHas
  <2>2. v[j] # None => r[j] # None \/ Has(q, "Start", j)
    <3>1. CASE f.type = "Start" /\ f.id = j
      BY <3>1, <1>1 DEF Has, Is
    <3>2. CASE ~(f.type = "Start" /\ f.id = j)
      BY <3>2, <1>1, <1>2 DEF Taken, Is
    <3> QED
      BY <3>1, <3>2
  <2> QED
    BY <2>1, <2>2 DEF Seen
<1>4. Has(q, "Destroy", j)
  BY <1>3, Zenon DEF Forgotten
<1> QED
  BY <1>2, <1>4, PoppedHas

-----------------------------------------------------------------------------
(* The tables of an end                                                    *)

\* Channels change, but not which of them there are.
SameChannels(h, g) ==
  \A i \in Ids : /\ g[i].state = "none" <=> h[i].state = "none"
                 /\ g[i].name = h[i].name /\ g[i].mine = h[i].mine

LEMMA TableKept ==
  ASSUME NEW c \in [Names -> Ids \cup {None}], NEW o, NEW h \in Chans, NEW g \in Chans,
         Table(c, o, h), SameChannels(h, g)
  PROVE  Table(c, o, g)
BY DEF Table, SameChannels, Chans, Channel

\* The new channel of a name that leads nowhere.
LEMMA TableNew ==
  ASSUME NEW c \in [Names -> Ids \cup {None}], NEW o, NEW h \in Chans, Table(c, o, h),
         NEW n \in Names, c[n] = None, NEW i \in Ids, h[i].state = "none",
         NEW x \in Channel, x.state = "open", x.name = n
  PROVE  Table([c EXCEPT ![n] = i], IF x.mine THEN o \cup {n} ELSE o, [h EXCEPT ![i] = x])
<1> DEFINE d == [c EXCEPT ![n] = i]
           p == IF x.mine THEN o \cup {n} ELSE o
           g == [h EXCEPT ![i] = x]
<1>1. /\ \A j \in Ids : h[j].state # "none" =>
           c[h[j].name] = j /\ (h[j].mine <=> h[j].name \in o)
      /\ \A m \in Names : c[m] # None => h[c[m]].state # "none" /\ h[c[m]].name = m
      /\ \A m \in o : c[m] # None
  BY DEF Table
<1>2. /\ d[n] = i /\ \A m \in Names : m # n => d[m] = c[m]
      /\ g[i] = x /\ \A j \in Ids : j # i => g[j] = h[j]
      /\ i # None /\ \A j \in Ids : j # None
      /\ \A j \in Ids : h[j].name \in Names
  BY DEF Chans, Channel, Ids, None
<1>3. n \notin o
  BY <1>1
<1>4. p = o \/ p = o \cup {n}
  OBVIOUS
<1>5. x.mine <=> n \in p
  BY <1>3 DEF Channel
<1>6. \A m : m # n => (m \in p <=> m \in o)
  BY <1>4
<1>7. \A m \in p : m \in o \/ m = n
  BY <1>4
<1> HIDE DEF d, p, g
<1>8. ASSUME NEW j \in Ids, g[j].state # "none"
      PROVE  d[g[j].name] = j /\ (g[j].mine <=> g[j].name \in p)
  <2>1. CASE j = i
    BY <2>1, <1>2, <1>5
  <2>2. CASE j # i
    <3>1. g[j] = h[j] /\ c[h[j].name] = j /\ (h[j].mine <=> h[j].name \in o) /\ h[j].name \in Names
      BY <2>2, <1>1, <1>2, <1>8
    <3>2. h[j].name # n
      BY <3>1, <1>2
    <3> QED
      BY <3>1, <3>2, <1>2, <1>6
  <2> QED
    BY <2>1, <2>2
<1>9. ASSUME NEW m \in Names, d[m] # None
      PROVE  g[d[m]].state # "none" /\ g[d[m]].name = m
  <2>1. CASE m = n
    BY <2>1, <1>2
  <2>2. CASE m # n
    <3>1. d[m] = c[m] /\ c[m] # None /\ c[m] \in Ids
      BY <2>2, <1>2, <1>9
    <3>2. h[c[m]].state # "none" /\ h[c[m]].name = m
      BY <3>1, <1>1
    <3> QED
      BY <3>1, <3>2, <1>2
  <2> QED
    BY <2>1, <2>2
<1>10. \A m \in p : d[m] # None
  <2>1. DOMAIN c = Names
    OBVIOUS
  <2>2. \A m : m # n => d[m] = c[m]
    BY DEF d
  <2> QED
    BY <2>2, <1>1, <1>2, <1>7
<1> QED
  BY <1>8, <1>9, <1>10 DEF Table, d, p, g

\* A channel that is there is opened, or was.
LEMMA TableFound ==
  ASSUME NEW c \in [Names -> Ids \cup {None}], NEW o, NEW h \in Chans, Table(c, o, h),
         NEW n \in Names, NEW i \in Ids, c[n] = i, NEW g \in Chans,
         g = [h EXCEPT ![i].mine = TRUE]
  PROVE  Table(c, o \cup {n}, g)
<1>1. /\ \A j \in Ids : h[j].state # "none" =>
           c[h[j].name] = j /\ (h[j].mine <=> h[j].name \in o)
      /\ \A m \in Names : c[m] # None => h[c[m]].state # "none" /\ h[c[m]].name = m
      /\ \A m \in o : c[m] # None
  BY DEF Table
<1>2. /\ \A j \in Ids : g[j].state = h[j].state /\ g[j].name = h[j].name
      /\ g[i].mine /\ \A j \in Ids : j # i => g[j].mine = h[j].mine
      /\ \A j \in Ids : j # None
  BY DEF Chans, Channel, Ids, None
<1>3. h[i].name = n
  BY <1>1, <1>2
<1>4. ASSUME NEW j \in Ids, g[j].state # "none"
      PROVE  c[g[j].name] = j /\ (g[j].mine <=> g[j].name \in o \cup {n})
  <2>1. CASE j = i
    BY <2>1, <1>2, <1>3
  <2>2. CASE j # i
    <3>1. c[h[j].name] = j /\ (h[j].mine <=> h[j].name \in o)
      BY <1>1, <1>2, <1>4
    <3>2. h[j].name # n
      BY <3>1, <2>2
    <3> QED
      BY <3>1, <3>2, <2>2, <1>2
  <2> QED
    BY <2>1, <2>2
<1>5. \A m \in Names : c[m] # None => g[c[m]].state # "none" /\ g[c[m]].name = m
  BY <1>1, <1>2
<1>6. \A m \in o \cup {n} : c[m] # None
  BY <1>1, <1>2
<1> QED
  BY <1>4, <1>5, <1>6 DEF Table

\* A channel and its name are forgotten together.
LEMMA TableRemoved ==
  ASSUME NEW c \in [Names -> Ids \cup {None}], NEW o, NEW h \in Chans, Table(c, o, h),
         NEW i \in Ids, h[i].state # "none"
  PROVE  Table([c EXCEPT ![h[i].name] = None], o \ {h[i].name}, [h EXCEPT ![i] = Unused])
<1> DEFINE n == h[i].name
           d == [c EXCEPT ![n] = None]
           g == [h EXCEPT ![i] = Unused]
<1>1. /\ \A j \in Ids : h[j].state # "none" =>
           c[h[j].name] = j /\ (h[j].mine <=> h[j].name \in o)
      /\ \A m \in Names : c[m] # None => h[c[m]].state # "none" /\ h[c[m]].name = m
      /\ \A m \in o : c[m] # None
  BY DEF Table
<1>2. /\ n \in Names /\ d[n] = None /\ \A m : m # n => d[m] = c[m]
      /\ g[i].state = "none" /\ \A j \in Ids : j # i => g[j] = h[j]
      /\ \A j \in Ids : h[j].name \in Names
  BY DEF Chans, Channel, Unused
<1> HIDE DEF d, g
<1>3. ASSUME NEW j \in Ids, g[j].state # "none"
      PROVE  d[g[j].name] = j /\ (g[j].mine <=> g[j].name \in o \ {n})
  <2>1. j # i /\ g[j] = h[j]
    BY <1>2, <1>3
  <2>2. c[h[j].name] = j /\ (h[j].mine <=> h[j].name \in o)
    BY <2>1, <1>1, <1>3
  <2>3. h[j].name # n
    BY <2>1, <2>2, <1>1
  <2> QED
    BY <2>1, <2>2, <2>3, <1>2
<1>4. ASSUME NEW m \in Names, d[m] # None
      PROVE  g[d[m]].state # "none" /\ g[d[m]].name = m
  <2>1. m # n /\ d[m] = c[m]
    BY <1>2, <1>4
  <2>2. h[c[m]].state # "none" /\ h[c[m]].name = m /\ c[m] \in Ids
    BY <2>1, <1>1, <1>4
  <2> QED
    BY <2>1, <2>2, <1>2
<1>5. \A m \in o \ {n} : d[m] # None
  BY <1>1, <1>2
<1> QED
  BY <1>3, <1>4, <1>5 DEF Table, d, g

-----------------------------------------------------------------------------
(* The two ends                                                            *)

LEMMA TwoEnds ==
  ASSUME NEW e \in Ends
  PROVE  /\ Other(e) \in Ends /\ Other(e) # e /\ Other(Other(e)) = e
         /\ \A f \in Ends : f = e \/ f = Other(e)
BY DEF Ends, Other

\* The parts of the state, one end at a time.
LEMMA Views ==
  ASSUME Typed, NEW e \in Ends
  PROVE  /\ channels[e] \in [Names -> Ids \cup {None}] /\ opened[e] \subseteq Names
         /\ remote[e] \in Maps /\ chan[e] \in Chans /\ wire[e] \in Seq(Frames)
BY DEF Typed, Maps, Chans

LEMMA UnusedTyped == Unused \in Channel
<1>1. (CHOOSE n \in Names : TRUE) \in Names
  BY MultiplexConstants
<1> QED
  BY <1>1, MultiplexConstants DEF Unused, Channel

LEMMA FrameTyped ==
  ASSUME NEW type \in {"Start", "Data", "End", "Destroy"}, NEW i \in Ids, NEW n \in Names,
         NEW k \in 0..MaxWrites
  PROVE  /\ Frame(type, i, n, k) \in Frames
         /\ Frame(type, i, n, k).type = type /\ Frame(type, i, n, k).id = i
         /\ Frame(type, i, n, k).name = n /\ Frame(type, i, n, k).k = k
BY DEF Frame, Frames

LEMMA Sending ==
  ASSUME NEW w \in [Ends -> Seq(Frames)], NEW e \in Ends, NEW f \in Seq(Frames)
  PROVE  /\ Sent(w, e, f) \in [Ends -> Seq(Frames)]
         /\ e \notin down => Sent(w, e, f)[e] = w[e] \o f
         /\ \A x \in Ends : x # e => Sent(w, e, f)[x] = w[x]
<1>1. w[e] \o f \in Seq(Frames)
  OBVIOUS
<1> QED
  BY <1>1 DEF Sent

LEMMA SendingOne ==
  ASSUME NEW w \in [Ends -> Seq(Frames)], NEW e \in Ends, NEW f \in Frames
  PROVE  /\ Sent(w, e, <<f>>) \in [Ends -> Seq(Frames)]
         /\ e \notin down => Adds(w[e], Sent(w, e, <<f>>)[e], f)
         /\ \A x \in Ends : x # e => Sent(w, e, <<f>>)[x] = w[x]
<1>1. <<f>> \in Seq(Frames)
  OBVIOUS
<1>2. w[e] \in Seq(Frames)
  OBVIOUS
<1>3. Adds(w[e], w[e] \o <<f>>, f)
  BY <1>2, Added
<1> DEFINE z == <<f>>
<1> HIDE DEF z
<1>4. /\ Sent(w, e, z) \in [Ends -> Seq(Frames)]
      /\ e \notin down => Sent(w, e, z)[e] = w[e] \o z
      /\ \A x \in Ends : x # e => Sent(w, e, z)[x] = w[x]
  <2>1. z \in Seq(Frames)
    BY <1>1 DEF z
  <2> QED
    BY <2>1, Sending
<1>5. e \notin down => Adds(w[e], Sent(w, e, z)[e], f)
  <2>1. Adds(w[e], w[e] \o z, f)
    BY <1>3 DEF z
  <2> QED
    BY <2>1, <1>4
<1>6. /\ Sent(w, e, z) \in [Ends -> Seq(Frames)]
      /\ e \notin down => Adds(w[e], Sent(w, e, z)[e], f)
      /\ \A x \in Ends : x # e => Sent(w, e, z)[x] = w[x]
  BY <1>4, <1>5
<1> QED
  BY <1>6 DEF z

\* What an end does that leaves the frames on their way to it alone.
LEMMA LocalStep ==
  ASSUME MuxInv, NEW e \in Ends, e \notin down, Typed', down' = down, remote' = remote,
         chan'[Other(e)] = chan[Other(e)], channels'[Other(e)] = channels[Other(e)],
         opened'[Other(e)] = opened[Other(e)], wire'[e] = wire[e],
         Harmless(remote[e], chan[e], chan'[e]),
         Other(e) \notin down =>
           /\ Link(wire'[Other(e)], remote[Other(e)], chan[Other(e)], chan'[e])
           /\ Forgotten(wire'[Other(e)], remote[Other(e)], chan'[e]),
         Table(channels'[e], opened'[e], chan'[e])
  PROVE  MuxInv'
<1>1. /\ Other(e) \in Ends /\ Other(e) # e /\ Other(Other(e)) = e
      /\ \A f \in Ends : f = e \/ f = Other(e)
  BY TwoEnds
<1>2. Link(wire[e], remote[e], chan'[e], chan[Other(e)])
  <2>1. Link(wire[e], remote[e], chan[e], chan[Other(e)])
    BY DEF MuxInv, LinkInv
  <2>2. wire[e] \in Seq(Frames) /\ remote[e] \in Maps /\ chan[e] \in Chans /\ chan[Other(e)] \in Chans
    BY <1>1, Views DEF MuxInv
  <2>3. chan'[e] \in Chans
    BY DEF Typed, Chans
  <2> QED
    BY <2>1, <2>2, <2>3, LinkHere
<1>3. LinkInv'
  BY <1>1, <1>2, Zenon DEF LinkInv
<1>4. ForgetInv'
  <2>1. down = {} => Forgotten(wire[e], remote[e], chan[Other(e)])
    BY DEF MuxInv, ForgetInv
  <2> QED
    BY <2>1, <1>1 DEF ForgetInv
<1>5. TableInv'
  <2>1. Table(channels[Other(e)], opened[Other(e)], chan[Other(e)])
    BY <1>1 DEF MuxInv, TableInv
  <2> QED
    BY <2>1, <1>1, Zenon DEF TableInv
<1> QED
  BY <1>3, <1>4, <1>5 DEF MuxInv

\* What an end does when it receives the first frame.
LEMMA ReceiveStep ==
  ASSUME MuxInv, NEW e \in Ends, e \notin down, Typed', down' = down,
         chan'[Other(e)] = chan[Other(e)], channels'[Other(e)] = channels[Other(e)],
         opened'[Other(e)] = opened[Other(e)], remote'[Other(e)] = remote[Other(e)],
         Link(wire'[e], remote'[e], chan'[e], chan[Other(e)]),
         down = {} => Forgotten(wire'[e], remote'[e], chan[Other(e)]),
         Other(e) \notin down =>
           /\ Link(wire'[Other(e)], remote[Other(e)], chan[Other(e)], chan'[e])
           /\ Forgotten(wire'[Other(e)], remote[Other(e)], chan'[e]),
         Table(channels'[e], opened'[e], chan'[e])
  PROVE  MuxInv'
<1>1. /\ Other(e) \in Ends /\ Other(e) # e /\ Other(Other(e)) = e
      /\ \A f \in Ends : f = e \/ f = Other(e)
  BY TwoEnds
<1>2. LinkInv'
  BY <1>1, Zenon DEF LinkInv
<1>3. ForgetInv'
  BY <1>1 DEF ForgetInv
<1>4. TableInv'
  <2>1. Table(channels[Other(e)], opened[Other(e)], chan[Other(e)])
    BY <1>1 DEF MuxInv, TableInv
  <2> QED
    BY <2>1, <1>1, Zenon DEF TableInv
<1> QED
  BY <1>2, <1>3, <1>4 DEF MuxInv

\* The link towards the other end, as it is and as the frames of this end make it.
LEMMA OtherSide ==
  ASSUME MuxInv, NEW e \in Ends, e \notin down, Other(e) \notin down
  PROVE  /\ Link(wire[Other(e)], remote[Other(e)], chan[Other(e)], chan[e])
         /\ Forgotten(wire[Other(e)], remote[Other(e)], chan[e])
<1>1. /\ Other(e) \in Ends /\ Other(Other(e)) = e
      /\ \A f \in Ends : f = e \/ f = Other(e)
  BY TwoEnds
<1>2. down = {}
  BY <1>1 DEF MuxInv, Typed
<1> QED
  BY <1>1, <1>2 DEF MuxInv, LinkInv, ForgetInv

\* It does not notice that channels are ended or begin to die.
LEMMA OtherSideKept ==
  ASSUME MuxInv, NEW e \in Ends, e \notin down, Other(e) \notin down, NEW g \in Chans,
         NEW s, Grows(wire[Other(e)], s),
         \A i \in Ids : /\ g[i].state = "none" <=> chan[e][i].state = "none"
                        /\ g[i].name = chan[e][i].name /\ g[i].wrote = chan[e][i].wrote,
         \A k \in DOMAIN s : k \notin DOMAIN wire[Other(e)] => EndOf(chan[e], s[k])
  PROVE  /\ Link(s, remote[Other(e)], chan[Other(e)], g)
         /\ Forgotten(s, remote[Other(e)], g)
<1>1. /\ wire[Other(e)] \in Seq(Frames) /\ remote[Other(e)] \in Maps
      /\ chan[Other(e)] \in Chans /\ chan[e] \in Chans
  BY TwoEnds, Views DEF MuxInv
<1>2. Speaks(chan[e], g)
  BY DEF Speaks
<1>3. Link(s, remote[Other(e)], chan[Other(e)], g)
  BY <1>1, <1>2, OtherSide, PushEnds
<1>4. \A k \in DOMAIN s : k \notin DOMAIN wire[Other(e)] /\ s[k].type = "Start" => g[s[k].id].state # "none"
  BY DEF EndOf
<1>5. \A i \in Ids : g[i].state = "none" => chan[e][i].state = "none" \/ Has(s, "Destroy", i)
  OBVIOUS
<1>6. Forgotten(s, remote[Other(e)], g)
  BY <1>1, <1>4, <1>5, OtherSide, PushForgotten
<1> QED
  BY <1>3, <1>6

LEMMA SameGrows ==
  ASSUME NEW q \in Seq(Frames)
  PROVE  Grows(q, q) /\ q \o <<>> = q
BY DEF Grows

-----------------------------------------------------------------------------
(* The steps of a user                                                     *)

LEMMA WriteKeeps ==
  ASSUME MuxInv, NEW e \in Ends, NEW i \in Ids, Write(e, i)
  PROVE  MuxInv'
<1> DEFINE o == Other(e)
           c == chan[e][i]
           f == Frame("Data", i, c.name, c.wrote + 1)
           g == chan'[e]
<1>0. Typed /\ e \notin down /\ c.state = "open" /\ ~c.ended /\ c.wrote < MaxWrites
      /\ chan' = [chan EXCEPT ![e][i].wrote = @ + 1]
      /\ wire' = Sent(wire, o, <<f>>)
      /\ UNCHANGED <<channels, opened, remote, opens, down, upsets>>
  BY DEF MuxInv, Write, Usable
<1>1. o \in Ends /\ o # e
  BY TwoEnds
<1>2. /\ wire \in [Ends -> Seq(Frames)] /\ wire[o] \in Seq(Frames) /\ remote[o] \in Maps
      /\ remote[e] \in Maps /\ chan[e] \in Chans /\ chan[o] \in Chans
      /\ channels[e] \in [Names -> Ids \cup {None}]
  BY <1>0, <1>1, Views DEF Typed
<1>3. c \in Channel /\ c.name \in Names /\ c.wrote \in Nat /\ c.wrote + 1 \in 0..MaxWrites
  BY <1>0, <1>2, MultiplexConstants DEF Chans, Channel
<1>4. f \in Frames /\ f.type = "Data" /\ f.id = i /\ f.name = c.name /\ f.k = c.wrote + 1
  BY <1>3, FrameTyped
<1> HIDE DEF f
<1>6. /\ wire' \in [Ends -> Seq(Frames)] /\ wire'[e] = wire[e]
      /\ o \notin down => Adds(wire[o], wire'[o], f)
  <2>1. /\ Sent(wire, o, <<f>>) \in [Ends -> Seq(Frames)]
        /\ o \notin down => Adds(wire[o], Sent(wire, o, <<f>>)[o], f)
        /\ \A x \in Ends : x # o => Sent(wire, o, <<f>>)[x] = wire[x]
    BY <1>1, <1>2, <1>4, SendingOne, Zenon
  <2> QED
    BY <2>1, <1>0, <1>1, Zenon
<1>7. /\ g = [chan[e] EXCEPT ![i].wrote = @ + 1] /\ chan'[o] = chan[o]
  BY <1>0, <1>1 DEF Typed
<1>8. g[i] = [c EXCEPT !.wrote = @ + 1] /\ \A j \in Ids : j # i => g[j] = chan[e][j]
  BY <1>2, <1>7 DEF Chans
<1>9. g[i] \in Channel /\ g[i].wrote = c.wrote + 1 /\ g[i].state = c.state /\ g[i].name = c.name
      /\ g[i].mine = c.mine /\ g[i].got = c.got /\ g[i].from = c.from
  BY <1>3, <1>8 DEF Channel
<1>10. g \in Chans
  BY <1>2, <1>7, <1>8, <1>9 DEF Chans
<1>11. Typed'
  <2>1. chan' \in [Ends -> [Ids -> Channel]]
    BY <1>0, <1>1, <1>7, <1>10, TwoEnds DEF Typed, Chans
  <2> QED
    BY <2>1, <1>0, <1>6 DEF Typed
<1>12. \A j \in Ids : /\ g[j].state = chan[e][j].state /\ g[j].name = chan[e][j].name
                      /\ g[j].mine = chan[e][j].mine /\ g[j].got = chan[e][j].got
                      /\ g[j].from = chan[e][j].from
  BY <1>8, <1>9
<1> HIDE DEF g, c
<1>13. Harmless(remote[e], chan[e], g)
  BY <1>12 DEF Harmless
<1>14. Table(channels'[e], opened'[e], g)
  <2>1. SameChannels(chan[e], g)
    BY <1>12 DEF SameChannels
  <2>2. Table(channels[e], opened[e], chan[e])
    BY DEF MuxInv, TableInv
  <2> QED
    BY <2>1, <2>2, <1>0, <1>2, <1>10, TableKept
<1>15. ASSUME o \notin down
       PROVE  Link(wire'[o], remote[o], chan[o], g) /\ Forgotten(wire'[o], remote[o], g)
  <2>1. Link(wire[o], remote[o], chan[o], chan[e]) /\ Forgotten(wire[o], remote[o], chan[e])
    BY <1>0, <1>15, OtherSide
  <2>2. Adds(wire[o], wire'[o], f) /\ Grows(wire[o], wire'[o])
    BY <1>6, <1>15, Zenon DEF Adds
  <2>3. About(chan[e], f)
    BY <1>0, <1>4 DEF About, c
  <2>4. Keeps(chan[e], g)
    BY <1>12 DEF Keeps
  <2>5. \A j \in Ids : g[j].state # "none" => g[j].wrote = IF j = f.id THEN f.k ELSE chan[e][j].wrote
    BY <1>4, <1>8, <1>9
  <2>6. f.k = chan[e][f.id].wrote + 1
    BY <1>4 DEF c
  <2> DEFINE q == wire[o]
             s == wire'[o]
             t == chan[e]
  <2>7. /\ q \in Seq(Frames) /\ t \in Chans
        /\ Link(q, remote[o], chan[o], t) /\ Forgotten(q, remote[o], t)
        /\ Adds(q, s, f) /\ Grows(q, s) /\ About(t, f) /\ Keeps(t, g)
        /\ f.k = t[f.id].wrote + 1
        /\ \A j \in Ids : g[j].state # "none" => g[j].wrote = IF j = f.id THEN f.k ELSE t[j].wrote
        /\ \A j \in Ids : g[j].state = "none" => t[j].state = "none"
        /\ \A k \in DOMAIN s : k \notin DOMAIN q => s[k] = f
    BY <2>1, <2>2, <2>3, <2>4, <2>5, <2>6, <1>2, <1>12 DEF Adds
  <2> HIDE DEF q, s, t
  <2>8. Link(s, remote[o], chan[o], g)
    BY ZenonT(40), <2>7, <1>2, <1>4, <1>10, PushData
  <2>9. Forgotten(s, remote[o], g)
    BY <2>7, <1>2, <1>4, <1>10, PushForgotten
  <2> QED
    BY <2>8, <2>9 DEF s
<1> QED
  BY <1>0, <1>1, <1>6, <1>7, <1>11, <1>13, <1>14, <1>15, LocalStep DEF g

\* One channel of an end changes.
LEMMA OneChannel ==
  ASSUME Typed, NEW e \in Ends, NEW i \in Ids, NEW x \in Channel,
         chan' = [chan EXCEPT ![e] = [chan[e] EXCEPT ![i] = x]]
  PROVE  /\ chan' \in [Ends -> [Ids -> Channel]] /\ chan'[e] \in Chans
         /\ chan'[e] = [chan[e] EXCEPT ![i] = x] /\ chan'[e][i] = x
         /\ \A j \in Ids : j # i => chan'[e][j] = chan[e][j]
         /\ chan'[Other(e)] = chan[Other(e)]
<1>1. chan \in [Ends -> [Ids -> Channel]] /\ Other(e) \in Ends /\ Other(e) # e
  BY TwoEnds DEF Typed
<1>2. [chan[e] EXCEPT ![i] = x] \in [Ids -> Channel]
  BY <1>1
<1> QED
  BY <1>1, <1>2 DEF Chans

LEMMA EndKeeps ==
  ASSUME MuxInv, NEW e \in Ends, NEW i \in Ids, End(e, i)
  PROVE  MuxInv'
<1> DEFINE o == Other(e)
           c == chan[e][i]
           f == Frame("End", i, c.name, c.wrote)
           x == [c EXCEPT !.ended = TRUE]
           g == chan'[e]
<1>0. Typed /\ e \notin down /\ c.state = "open" /\ ~c.ended
      /\ chan' = [chan EXCEPT ![e][i].ended = TRUE]
      /\ wire' = Sent(wire, o, <<f>>)
      /\ UNCHANGED <<channels, opened, remote, opens, down, upsets>>
  BY DEF MuxInv, End, Usable
<1>1. o \in Ends /\ o # e
  BY TwoEnds
<1>2. /\ wire \in [Ends -> Seq(Frames)] /\ wire[o] \in Seq(Frames)
      /\ chan[e] \in Chans /\ channels[e] \in [Names -> Ids \cup {None}]
  BY <1>0, <1>1, Views DEF Typed
<1>3. c \in Channel /\ c.name \in Names /\ c.wrote \in 0..MaxWrites
  BY <1>2 DEF Chans, Channel
<1>4. f \in Frames /\ f.type = "End" /\ f.id = i /\ f.name = c.name /\ f.k = c.wrote
  BY <1>3, FrameTyped
<1>5. /\ x \in Channel /\ x.wrote = c.wrote /\ x.state = c.state /\ x.name = c.name
      /\ x.mine = c.mine /\ x.got = c.got /\ x.from = c.from
  BY <1>3 DEF Channel
<1>6. chan' = [chan EXCEPT ![e] = [chan[e] EXCEPT ![i] = x]]
  BY <1>0, <1>2 DEF Typed
<1> HIDE DEF f, x
<1>7. /\ chan' \in [Ends -> [Ids -> Channel]] /\ g \in Chans
      /\ g[i] = x /\ \A j \in Ids : j # i => g[j] = chan[e][j]
      /\ chan'[o] = chan[o]
  <2>1. Typed /\ x \in Channel
    BY <1>0, <1>5
  <2> QED
    BY <2>1, <1>6, OneChannel, ZenonT(40)
<1>8. /\ wire' \in [Ends -> Seq(Frames)] /\ wire'[e] = wire[e]
      /\ o \notin down => Adds(wire[o], wire'[o], f)
  <2>1. /\ Sent(wire, o, <<f>>) \in [Ends -> Seq(Frames)]
        /\ o \notin down => Adds(wire[o], Sent(wire, o, <<f>>)[o], f)
        /\ \A y \in Ends : y # o => Sent(wire, o, <<f>>)[y] = wire[y]
    BY <1>1, <1>2, <1>4, SendingOne, Zenon
  <2> QED
    BY <2>1, <1>0, <1>1, Zenon
<1>9. Typed'
  BY <1>0, <1>7, <1>8 DEF Typed
<1>10. \A j \in Ids : /\ g[j].state = chan[e][j].state /\ g[j].name = chan[e][j].name
                      /\ g[j].mine = chan[e][j].mine /\ g[j].got = chan[e][j].got
                      /\ g[j].from = chan[e][j].from /\ g[j].wrote = chan[e][j].wrote
  BY <1>5, <1>7
<1>11. EndOf(chan[e], f)
  BY <1>0, <1>4 DEF EndOf
<1> HIDE DEF g, c
<1>12. Harmless(remote[e], chan[e], g)
  BY <1>10 DEF Harmless
<1>13. Table(channels'[e], opened'[e], g)
  <2>1. SameChannels(chan[e], g)
    BY <1>10 DEF SameChannels
  <2>2. Table(channels[e], opened[e], chan[e])
    BY DEF MuxInv, TableInv
  <2> QED
    BY <2>1, <2>2, <1>0, <1>2, <1>7, TableKept
<1>14. ASSUME o \notin down
       PROVE  Link(wire'[o], remote[o], chan[o], g) /\ Forgotten(wire'[o], remote[o], g)
  <2> DEFINE s == wire'[o]
  <2>1. Grows(wire[o], s) /\ \A k \in DOMAIN s : k \notin DOMAIN wire[o] => EndOf(chan[e], s[k])
    BY <1>8, <1>11, <1>14 DEF Adds
  <2> HIDE DEF s
  <2>2. Link(s, remote[o], chan[o], g) /\ Forgotten(s, remote[o], g)
    BY <2>1, <1>0, <1>7, <1>10, <1>14, OtherSideKept
  <2> QED
    BY <2>2 DEF s
<1> QED
  BY <1>0, <1>1, <1>7, <1>8, <1>9, <1>12, <1>13, <1>14, LocalStep DEF g

\* Channels of an end begin to die, or are ended.
Fades(h, g) ==
  \A i \in Ids :
    /\ g[i].state = h[i].state \/ (h[i].state = "open" /\ g[i].state = "dying")
    /\ g[i].name = h[i].name /\ g[i].mine = h[i].mine /\ g[i].wrote = h[i].wrote
    /\ g[i].got = h[i].got /\ g[i].from = h[i].from

LEMMA FadesFacts ==
  ASSUME NEW r \in Maps, NEW h \in Chans, NEW g \in Chans, Fades(h, g)
  PROVE  /\ Harmless(r, h, g) /\ SameChannels(h, g)
         /\ \A i \in Ids : /\ g[i].state = "none" <=> h[i].state = "none"
                           /\ g[i].name = h[i].name /\ g[i].wrote = h[i].wrote
<1>1. \A i \in Ids : g[i].state = "none" <=> h[i].state = "none"
  BY DEF Fades
<1>2. \A i \in Ids : g[i].state = "open" => h[i].state = "open"
  BY DEF Fades
<1>3. Harmless(r, h, g)
  BY <1>1, <1>2 DEF Harmless, Fades
<1>4. SameChannels(h, g)
  BY <1>1 DEF SameChannels, Fades
<1> QED
  BY <1>1, <1>3, <1>4 DEF Fades

LEMMA DestroyKeeps ==
  ASSUME MuxInv, NEW e \in Ends, NEW i \in Ids, Destroy(e, i)
  PROVE  MuxInv'
<1> DEFINE o == Other(e)
           c == chan[e][i]
           x == [c EXCEPT !.state = "dying"]
           g == chan'[e]
<1>0. Typed /\ e \notin down /\ c.state = "open"
      /\ chan' = [chan EXCEPT ![e][i].state = "dying"]
      /\ UNCHANGED <<channels, opened, remote, opens, wire, down>>
      /\ upsets' \subseteq upsets \cup {"early"}
  BY DEF MuxInv, Destroy, Usable
<1>1. o \in Ends /\ o # e
  BY TwoEnds
<1>2. /\ wire[o] \in Seq(Frames) /\ remote[e] \in Maps
      /\ chan[e] \in Chans /\ channels[e] \in [Names -> Ids \cup {None}]
  BY <1>0, <1>1, Views DEF Typed
<1>3. c \in Channel
  BY <1>2 DEF Chans
<1>4. /\ x \in Channel /\ x.wrote = c.wrote /\ x.state = "dying" /\ x.name = c.name
      /\ x.mine = c.mine /\ x.got = c.got /\ x.from = c.from
  BY <1>3 DEF Channel
<1>5. chan' = [chan EXCEPT ![e] = [chan[e] EXCEPT ![i] = x]]
  BY <1>0, <1>2 DEF Typed
<1> HIDE DEF x
<1>6. /\ chan' \in [Ends -> [Ids -> Channel]] /\ g \in Chans
      /\ g[i] = x /\ \A j \in Ids : j # i => g[j] = chan[e][j]
      /\ chan'[o] = chan[o]
  <2>1. Typed /\ x \in Channel
    BY <1>0, <1>4
  <2> QED
    BY <2>1, <1>5, OneChannel, ZenonT(40)
<1>7. Typed'
  <2>1. upsets' \subseteq Upsets
    BY <1>0 DEF Typed, Upsets
  <2> QED
    BY <2>1, <1>0, <1>6 DEF Typed
<1>8. Fades(chan[e], g)
  BY <1>0, <1>4, <1>6 DEF Fades
<1> HIDE DEF g, c
<1>9. /\ Harmless(remote[e], chan[e], g) /\ SameChannels(chan[e], g)
      /\ \A j \in Ids : /\ g[j].state = "none" <=> chan[e][j].state = "none"
                        /\ g[j].name = chan[e][j].name /\ g[j].wrote = chan[e][j].wrote
  BY <1>2, <1>6, <1>8, FadesFacts
<1>10. Table(channels'[e], opened'[e], g)
  <2>1. Table(channels[e], opened[e], chan[e])
    BY DEF MuxInv, TableInv
  <2> QED
    BY <2>1, <1>0, <1>2, <1>6, <1>9, TableKept
<1>11. ASSUME o \notin down
       PROVE  Link(wire'[o], remote[o], chan[o], g) /\ Forgotten(wire'[o], remote[o], g)
  <2>1. Grows(wire[o], wire[o])
    BY <1>2, SameGrows
  <2>2. Link(wire[o], remote[o], chan[o], g) /\ Forgotten(wire[o], remote[o], g)
    BY <2>1, <1>0, <1>6, <1>9, <1>11, OtherSideKept
  <2> QED
    BY <2>2, <1>0
<1> QED
  BY <1>0, <1>1, <1>6, <1>7, <1>9, <1>10, <1>11, LocalStep DEF g

LEMMA Sequenced ==
  ASSUME NEW S, IsFiniteSet(S)
  PROVE  Cardinality(S) \in Nat /\ SetToSeq(S) \in [1..Cardinality(S) -> S]
<1>1. Cardinality(S) \in Nat /\ ExistsBijection(1..Cardinality(S), S)
  BY FS_CardinalityType
<1>2. \E f \in [1..Cardinality(S) -> S] : IsInjective(f)
  BY <1>1 DEF ExistsBijection, Bijection, Injection
<1>3. (CHOOSE f \in [1..Cardinality(S) -> S] : IsInjective(f)) \in [1..Cardinality(S) -> S]
  BY <1>2, Zenon
<1> QED
  BY <1>1, <1>3 DEF SetToSeq

\* The frames that close() sends.
LEMMA Closing ==
  ASSUME Typed, NEW e \in Ends,
         NEW f, f = [j \in DOMAIN SetToSeq(Endable(e)) |->
           Frame("End", SetToSeq(Endable(e))[j], chan[e][SetToSeq(Endable(e))[j]].name,
                 chan[e][SetToSeq(Endable(e))[j]].wrote)]
  PROVE  f \in Seq(Frames) /\ \A j \in DOMAIN f : EndOf(chan[e], f[j])
<1> DEFINE ids == SetToSeq(Endable(e))
           n == Cardinality(Endable(e))
<1>1. IsFiniteSet(Endable(e)) /\ Endable(e) \subseteq Ids
  <2>1. IsFiniteSet(Ids)
    BY MultiplexConstants, FS_Interval DEF Ids
  <2> QED
    BY <2>1, FS_Subset DEF Endable
<1>2. n \in Nat /\ ids \in [1..n -> Endable(e)]
  BY <1>1, Sequenced
<1>3. \A i \in Endable(e) :
        /\ i \in Ids /\ chan[e][i].state # "none"
        /\ chan[e][i].name \in Names /\ chan[e][i].wrote \in 0..MaxWrites
  BY DEF Endable, Typed, Channel
<1> HIDE DEF ids, n
<1>4. f = [j \in 1..n |-> Frame("End", ids[j], chan[e][ids[j]].name, chan[e][ids[j]].wrote)]
  BY <1>2 DEF ids
<1>5. \A j \in 1..n : f[j] \in Frames /\ EndOf(chan[e], f[j])
  <2> TAKE j \in 1..n
  <2>1. ids[j] \in Endable(e)
    BY <1>2
  <2>2. f[j] = Frame("End", ids[j], chan[e][ids[j]].name, chan[e][ids[j]].wrote)
    BY <1>4
  <2>3. /\ f[j] \in Frames /\ f[j].type = "End" /\ f[j].id = ids[j]
        /\ f[j].name = chan[e][ids[j]].name /\ f[j].k = chan[e][ids[j]].wrote
    <3>1. /\ ids[j] \in Ids /\ chan[e][ids[j]].name \in Names
          /\ chan[e][ids[j]].wrote \in 0..MaxWrites
      BY <2>1, <1>3
    <3> DEFINE F == Frame("End", ids[j], chan[e][ids[j]].name, chan[e][ids[j]].wrote)
    <3>2. /\ F \in Frames /\ F.type = "End" /\ F.id = ids[j]
          /\ F.name = chan[e][ids[j]].name /\ F.k = chan[e][ids[j]].wrote
      BY <3>1, FrameTyped
    <3> HIDE DEF F
    <3>3. f[j] = F
      BY <2>2 DEF F
    <3> QED
      BY <3>2, <3>3
  <2> QED
    BY <2>1, <2>3, <1>3 DEF EndOf
<1>6. DOMAIN f = 1..n /\ f \in [1..n -> Frames]
  BY <1>4, <1>5
<1>7. f \in Seq(Frames)
  BY <1>2, <1>6
<1> QED
  BY <1>5, <1>6, <1>7

LEMMA CloseKeeps ==
  ASSUME MuxInv, NEW e \in Ends, Close(e)
  PROVE  MuxInv'
<1> DEFINE o == Other(e)
           f == [j \in DOMAIN SetToSeq(Endable(e)) |->
                   Frame("End", SetToSeq(Endable(e))[j], chan[e][SetToSeq(Endable(e))[j]].name,
                         chan[e][SetToSeq(Endable(e))[j]].wrote)]
           g == [i \in Ids |-> IF i \in Endable(e) THEN [chan[e][i] EXCEPT !.ended = TRUE]
                               ELSE chan[e][i]]
<1>0. Typed /\ e \notin down
      /\ chan' = [chan EXCEPT ![e] = g]
      /\ wire' = Sent(wire, o, f)
      /\ UNCHANGED <<channels, opened, remote, opens, down, upsets>>
  BY DEF MuxInv, Close
<1>1. o \in Ends /\ o # e
  BY TwoEnds
<1>2. /\ wire \in [Ends -> Seq(Frames)] /\ wire[o] \in Seq(Frames) /\ remote[e] \in Maps
      /\ chan[e] \in Chans /\ channels[e] \in [Names -> Ids \cup {None}]
  BY <1>0, <1>1, Views DEF Typed
<1>3. f \in Seq(Frames) /\ \A j \in DOMAIN f : EndOf(chan[e], f[j])
  BY <1>0, Closing
<1>4. g \in Chans /\ Fades(chan[e], g)
  <2>1. \A i \in Ids : chan[e][i] \in Channel
    BY <1>2 DEF Chans
  <2>2. \A x \in Channel :
          LET y == [x EXCEPT !.ended = TRUE]
          IN y \in Channel /\ y.state = x.state /\ y.name = x.name /\ y.mine = x.mine
             /\ y.wrote = x.wrote /\ y.got = x.got /\ y.from = x.from
    BY DEF Channel
  <2>3. \A i \in Ids :
          /\ g[i] \in Channel /\ g[i].state = chan[e][i].state /\ g[i].name = chan[e][i].name
          /\ g[i].mine = chan[e][i].mine /\ g[i].wrote = chan[e][i].wrote
          /\ g[i].got = chan[e][i].got /\ g[i].from = chan[e][i].from
    BY <2>1, <2>2
  <2>4. g \in Chans
    BY <2>3 DEF Chans
  <2> HIDE DEF g
  <2> QED
    BY <2>3, <2>4 DEF Fades
<1> HIDE DEF f, g
<1>5. chan' \in [Ends -> [Ids -> Channel]] /\ chan'[e] = g /\ chan'[o] = chan[o]
  BY <1>0, <1>1, <1>4 DEF Typed, Chans
<1>6. /\ wire' \in [Ends -> Seq(Frames)] /\ wire'[e] = wire[e]
      /\ o \notin down => wire'[o] = wire[o] \o f
  <2>1. /\ Sent(wire, o, f) \in [Ends -> Seq(Frames)]
        /\ o \notin down => Sent(wire, o, f)[o] = wire[o] \o f
        /\ \A y \in Ends : y # o => Sent(wire, o, f)[y] = wire[y]
    BY <1>1, <1>2, <1>3, Sending, Zenon
  <2> QED
    BY <2>1, <1>0, <1>1, Zenon
<1>7. Typed'
  BY <1>0, <1>5, <1>6 DEF Typed
<1>8. /\ Harmless(remote[e], chan[e], g) /\ SameChannels(chan[e], g)
      /\ \A j \in Ids : /\ g[j].state = "none" <=> chan[e][j].state = "none"
                        /\ g[j].name = chan[e][j].name /\ g[j].wrote = chan[e][j].wrote
  BY <1>2, <1>4, FadesFacts
<1>9. Table(channels'[e], opened'[e], g)
  <2>1. Table(channels[e], opened[e], chan[e])
    BY DEF MuxInv, TableInv
  <2> QED
    BY <2>1, <1>0, <1>2, <1>4, <1>8, TableKept
<1>10. ASSUME o \notin down
       PROVE  Link(wire'[o], remote[o], chan[o], g) /\ Forgotten(wire'[o], remote[o], g)
  <2> DEFINE s == wire[o] \o f
  <2>1. Grows(wire[o], s) /\ \A k \in DOMAIN s : k \notin DOMAIN wire[o] => EndOf(chan[e], s[k])
    <3>1. /\ Grows(wire[o], s)
          /\ \A k \in DOMAIN s : k \notin DOMAIN wire[o] =>
               \E l \in DOMAIN f : k = Len(wire[o]) + l /\ s[k] = f[l]
      BY <1>2, <1>3, JoinedGrows, Zenon
    <3> QED
      BY <3>1, <1>3, Zenon
  <2> HIDE DEF s
  <2>2. Link(s, remote[o], chan[o], g) /\ Forgotten(s, remote[o], g)
    BY <2>1, <1>0, <1>4, <1>8, <1>10, OtherSideKept
  <2> QED
    BY <2>2, <1>6, <1>10 DEF s
<1> QED
  BY <1>0, <1>1, <1>5, <1>6, <1>7, <1>8, <1>9, <1>10, LocalStep

LEMMA TeardownKeeps ==
  ASSUME MuxInv, NEW e \in Ends, NEW i \in Ids, Teardown(e, i)
  PROVE  MuxInv'
<1> DEFINE o == Other(e)
           n == chan[e][i].name
           f == Frame("Destroy", i, n, 0)
           g == chan'[e]
<1>0. Typed /\ e \notin down /\ chan[e][i].state # "none"
      /\ chan' = [chan EXCEPT ![e][i] = Unused]
      /\ channels' = [channels EXCEPT ![e][n] = None]
      /\ opened' = [opened EXCEPT ![e] = @ \ {n}]
      /\ wire' = Sent(wire, o, <<f>>)
      /\ UNCHANGED <<remote, opens, down, upsets>>
  BY DEF MuxInv, Teardown, IsDue
<1>1. o \in Ends /\ o # e
  BY TwoEnds
<1>2. /\ wire \in [Ends -> Seq(Frames)] /\ wire[o] \in Seq(Frames) /\ remote[e] \in Maps
      /\ remote[o] \in Maps /\ chan[o] \in Chans
      /\ chan[e] \in Chans /\ channels[e] \in [Names -> Ids \cup {None}]
  BY <1>0, <1>1, Views DEF Typed
<1>3. n \in Names /\ 0 \in 0..MaxWrites
  BY <1>2, MultiplexConstants DEF Chans, Channel
<1>4. f \in Frames /\ f.type = "Destroy" /\ f.id = i /\ f.name = n
  BY <1>3, FrameTyped
<1> HIDE DEF f
<1>5. chan' = [chan EXCEPT ![e] = [chan[e] EXCEPT ![i] = Unused]]
  BY <1>0, <1>2 DEF Typed
<1>6. /\ chan' \in [Ends -> [Ids -> Channel]] /\ g \in Chans
      /\ g = [chan[e] EXCEPT ![i] = Unused]
      /\ g[i] = Unused /\ \A j \in Ids : j # i => g[j] = chan[e][j]
      /\ chan'[o] = chan[o]
  <2>1. Typed
    BY <1>0
  <2> QED
    BY <2>1, <1>5, UnusedTyped, OneChannel, Zenon
<1>7. /\ wire' \in [Ends -> Seq(Frames)] /\ wire'[e] = wire[e]
      /\ o \notin down => Adds(wire[o], wire'[o], f)
  <2>1. /\ Sent(wire, o, <<f>>) \in [Ends -> Seq(Frames)]
        /\ o \notin down => Adds(wire[o], Sent(wire, o, <<f>>)[o], f)
        /\ \A y \in Ends : y # o => Sent(wire, o, <<f>>)[y] = wire[y]
    BY <1>1, <1>2, <1>4, SendingOne, Zenon
  <2> QED
    BY <2>1, <1>0, <1>1, Zenon
<1>8. /\ channels' \in [Ends -> [Names -> Ids \cup {None}]]
      /\ channels'[e] = [channels[e] EXCEPT ![n] = None] /\ channels'[o] = channels[o]
      /\ opened' \in [Ends -> SUBSET Names]
      /\ opened'[e] = opened[e] \ {n} /\ opened'[o] = opened[o]
  BY <1>0, <1>1, <1>3 DEF Typed
<1>9. Typed'
  BY <1>0, <1>6, <1>7, <1>8 DEF Typed
<1>10. Unused.state = "none"
  BY DEF Unused
<1>11. Table(channels'[e], opened'[e], g)
  <2>1. Table(channels[e], opened[e], chan[e])
    BY DEF MuxInv, TableInv
  <2>2. Table([channels[e] EXCEPT ![n] = None], opened[e] \ {n}, [chan[e] EXCEPT ![i] = Unused])
    BY <2>1, <1>0, <1>2, TableRemoved
  <2> QED
    BY <2>2, <1>6, <1>8
<1>12. f.name = chan[e][f.id].name
  BY <1>4
<1> HIDE DEF g, n
<1>13. Harmless(remote[e], chan[e], g)
  BY <1>6, <1>10 DEF Harmless
<1>14. ASSUME o \notin down
       PROVE  Link(wire'[o], remote[o], chan[o], g) /\ Forgotten(wire'[o], remote[o], g)
  <2> DEFINE q == wire[o]
             s == wire'[o]
             t == chan[e]
  <2>1. q \in Seq(Frames) /\ t \in Chans /\ Adds(q, s, f) /\ Grows(q, s)
    BY <1>2, <1>7, <1>14, Zenon DEF Adds
  <2>2. Link(q, remote[o], chan[o], t) /\ Forgotten(q, remote[o], t)
    BY <1>0, <1>14, OtherSide
  <2>3. About(t, f)
    BY <1>0, <1>4, <1>12 DEF About
  <2>4. g[f.id].state = "none" /\ \A j \in Ids : j # f.id => g[j] = t[j]
    BY <1>4, <1>6, <1>10
  <2> HIDE DEF q, s, t
  <2>5. Speaks(t, g)
    BY <2>4 DEF Speaks
  <2>6. Link(s, remote[o], chan[o], g)
    BY <2>1, <2>2, <2>3, <2>4, <2>5, <1>2, <1>4, <1>6, PushDestroy
  <2>7. /\ \A k \in DOMAIN s : k \notin DOMAIN q /\ s[k].type = "Start" => g[s[k].id].state # "none"
        /\ \A j \in Ids : g[j].state = "none" => t[j].state = "none" \/ Has(s, "Destroy", j)
    <3>1. Has(s, "Destroy", f.id) /\ \A k \in DOMAIN s : k \notin DOMAIN q => s[k].type # "Start"
      BY <2>1, <1>4 DEF Adds, Has, Is
    <3> QED
      BY <3>1, <2>4
  <2>8. Forgotten(s, remote[o], g)
    BY <2>1, <2>2, <2>7, <1>2, <1>6, PushForgotten
  <2> QED
    BY <2>6, <2>8 DEF s
<1> QED
  BY <1>0, <1>1, <1>6, <1>7, <1>8, <1>9, <1>11, <1>13, <1>14, LocalStep DEF g

LEMMA ShutdownKeeps ==
  ASSUME MuxInv, NEW e \in Ends, Shutdown(e)
  PROVE  MuxInv'
<1> DEFINE o == Other(e)
           g == [i \in Ids |-> Unused]
<1>0. /\ Typed /\ e \notin down /\ down' = down \cup {e}
      /\ chan' = [chan EXCEPT ![e] = g]
      /\ channels' = [channels EXCEPT ![e] = [n \in Names |-> None]]
      /\ remote' = [remote EXCEPT ![e] = [i \in Ids |-> None]]
      /\ opened' = [opened EXCEPT ![e] = {}]
      /\ wire' = [wire EXCEPT ![e] = <<>>]
      /\ UNCHANGED <<opens, upsets>>
  BY DEF MuxInv, Shutdown
<1>1. o \in Ends /\ o # e /\ Other(o) = e /\ \A f \in Ends : f = e \/ f = o
  BY TwoEnds
<1>2. /\ wire[o] \in Seq(Frames) /\ remote[o] \in Maps /\ chan[o] \in Chans /\ chan[e] \in Chans
  BY <1>0, <1>1, Views
<1>3. g \in Chans /\ \A i \in Ids : g[i].state = "none"
  <2>1. Unused.state = "none"
    BY DEF Unused
  <2> QED
    BY <2>1, UnusedTyped DEF Chans
<1> HIDE DEF g
<1>4. chan' \in [Ends -> [Ids -> Channel]] /\ chan'[e] = g /\ chan'[o] = chan[o]
  BY <1>0, <1>1, <1>3 DEF Typed, Chans
<1>5. /\ channels' \in [Ends -> [Names -> Ids \cup {None}]]
      /\ channels'[e] = [n \in Names |-> None] /\ channels'[o] = channels[o]
  <2>1. [n \in Names |-> None] \in [Names -> Ids \cup {None}]
    OBVIOUS
  <2> QED
    BY <2>1, <1>0, <1>1 DEF Typed
<1>6. remote' \in [Ends -> [Ids -> Ids \cup {None}]] /\ remote'[o] = remote[o]
  <2>1. [i \in Ids |-> None] \in [Ids -> Ids \cup {None}]
    OBVIOUS
  <2> QED
    BY <2>1, <1>0, <1>1 DEF Typed
<1>7. opened' \in [Ends -> SUBSET Names] /\ opened'[e] = {} /\ opened'[o] = opened[o]
  BY <1>0, <1>1 DEF Typed
<1>8. wire' \in [Ends -> Seq(Frames)] /\ wire'[o] = wire[o]
  <2>1. <<>> \in Seq(Frames)
    OBVIOUS
  <2> QED
    BY <2>1, <1>0, <1>1 DEF Typed
<1>9. Typed'
  BY <1>0, <1>4, <1>5, <1>6, <1>7, <1>8 DEF Typed
<1>10. LinkInv'
  <2> SUFFICES ASSUME o \notin down
               PROVE  Link(wire'[o], remote'[o], chan'[o], chan'[e])
    BY <1>0, <1>1 DEF LinkInv
  <2>1. Link(wire[o], remote[o], chan[o], chan[e])
    BY <1>0, OtherSide
  <2>2. Speaks(chan[e], g)
    BY <1>3 DEF Speaks
  <2>3. Grows(wire[o], wire[o])
    BY <1>2, SameGrows
  <2>4. Link(wire[o], remote[o], chan[o], g)
    BY <2>1, <2>2, <2>3, <1>2, <1>3, PushEnds
  <2> QED
    BY <2>4, <1>4, <1>6, <1>8
<1>11. ForgetInv'
  BY <1>0 DEF ForgetInv
<1>12. TableInv'
  <2>1. Table(channels[o], opened[o], chan[o])
    BY <1>1 DEF MuxInv, TableInv
  <2>2. Table(channels'[e], opened'[e], g)
    BY <1>3, <1>5, <1>7 DEF Table
  <2> QED
    BY <2>1, <2>2, <1>1, <1>4, <1>5, <1>7 DEF TableInv
<1> QED
  BY <1>9, <1>10, <1>11, <1>12 DEF MuxInv

\* What getOrCreateChannel does, and what its Start does to the link towards
\* the other end.
Created(e, n, i, mine) ==
  /\ chan' \in [Ends -> [Ids -> Channel]] /\ chan'[Other(e)] = chan[Other(e)]
  /\ channels' \in [Ends -> [Names -> Ids \cup {None}]]
  /\ channels'[Other(e)] = channels[Other(e)]
  /\ chan'[e][i].state # "none" /\ chan'[e][i].name = n
  /\ Harmless(remote[e], chan[e], chan'[e])
  /\ Table(channels'[e], IF mine THEN opened[e] \cup {n} ELSE opened[e], chan'[e])
  /\ Started(e, n, i) \in Seq(Frames)
  /\ Other(e) \notin down =>
       /\ Link(wire[Other(e)] \o Started(e, n, i), remote[Other(e)], chan[Other(e)], chan'[e])
       /\ Forgotten(wire[Other(e)] \o Started(e, n, i), remote[Other(e)], chan'[e])

LEMMA ChannelFound ==
  ASSUME MuxInv, NEW e \in Ends, NEW n \in Names, NEW i \in Ids, NEW mine \in BOOLEAN,
         e \notin down, GetOrCreate(e, n, i, mine), channels[e][n] = i
  PROVE  Created(e, n, i, mine)
<1> DEFINE o == Other(e)
           c == chan[e][i]
           x == [c EXCEPT !.mine = @ \/ mine]
           g == chan'[e]
<1>0. Typed /\ channels' = [channels EXCEPT ![e][n] = i]
      /\ chan' = [chan EXCEPT ![e][i] = x]
  BY DEF MuxInv, GetOrCreate
<1>1. o \in Ends /\ o # e
  BY TwoEnds
<1>2. /\ wire[o] \in Seq(Frames) /\ remote[e] \in Maps
      /\ chan[e] \in Chans /\ channels[e] \in [Names -> Ids \cup {None}]
  BY <1>0, <1>1, Views
<1>3. c \in Channel /\ i # None
  <2>1. c \in Channel
    BY <1>2 DEF Chans
  <2>2. i # None
    BY DEF Ids, None
  <2> QED
    BY <2>1, <2>2
<1>4. /\ x \in Channel /\ x.wrote = c.wrote /\ x.state = c.state /\ x.name = c.name
      /\ x.got = c.got /\ x.from = c.from
      /\ mine => x = [c EXCEPT !.mine = TRUE]
      /\ ~mine => x = c
  BY <1>3 DEF Channel
<1>5. chan' = [chan EXCEPT ![e] = [chan[e] EXCEPT ![i] = x]]
  BY <1>0, <1>2 DEF Typed
<1> HIDE DEF x
<1>6. /\ chan' \in [Ends -> [Ids -> Channel]] /\ g \in Chans
      /\ g = [chan[e] EXCEPT ![i] = x]
      /\ g[i] = x /\ \A j \in Ids : j # i => g[j] = chan[e][j]
      /\ chan'[o] = chan[o]
  <2>1. Typed /\ x \in Channel
    BY <1>0, <1>4
  <2> QED
    BY <2>1, <1>5, OneChannel, ZenonT(40)
<1>7. channels' = channels
  <2>1. [channels[e] EXCEPT ![n] = i] = channels[e]
    BY <1>2
  <2> QED
    BY <2>1, <1>0 DEF Typed
<1>8. Table(channels[e], opened[e], chan[e])
  BY DEF MuxInv, TableInv
<1>9. c.state # "none" /\ c.name = n
  BY <1>3, <1>8 DEF Table
<1>10. Table(channels'[e], IF mine THEN opened[e] \cup {n} ELSE opened[e], g)
  <2>1. CASE mine
    <3>1. g = [chan[e] EXCEPT ![i].mine = TRUE]
      BY <2>1, <1>2, <1>4, <1>6 DEF Chans
    <3>2. /\ channels[e] \in [Names -> Ids \cup {None}] /\ chan[e] \in Chans /\ g \in Chans
          /\ channels[e][n] = i
      BY <1>2, <1>6
    <3> HIDE DEF g
    <3>3. Table(channels[e], opened[e] \cup {n}, g)
      BY <3>1, <3>2, <1>8, TableFound
    <3> QED
      BY <3>3, <2>1, <1>7 DEF g
  <2>2. CASE ~mine
    <3>1. g = chan[e]
      BY <2>2, <1>2, <1>4, <1>6 DEF Chans
    <3> QED
      BY <3>1, <2>2, <1>7, <1>8
  <2> QED
    BY <2>1, <2>2
<1>11. \A j \in Ids : /\ g[j].state = chan[e][j].state /\ g[j].name = chan[e][j].name
                      /\ g[j].got = chan[e][j].got /\ g[j].from = chan[e][j].from
                      /\ g[j].wrote = chan[e][j].wrote
  BY <1>4, <1>6
<1>12. g[i].state # "none" /\ g[i].name = n
  BY <1>4, <1>6, <1>9
<1>13. Started(e, n, i) = <<>> /\ <<>> \in Seq(Frames)
  BY DEF Started
<1> HIDE DEF g, c
<1>14. Harmless(remote[e], chan[e], g)
  BY <1>11 DEF Harmless
<1>15. ASSUME o \notin down
       PROVE  Link(wire[o], remote[o], chan[o], g) /\ Forgotten(wire[o], remote[o], g)
  <2>1. Grows(wire[o], wire[o])
    BY <1>2, SameGrows
  <2> QED
    BY <2>1, <1>6, <1>11, <1>15, OtherSideKept
<1>16. wire[o] \o <<>> = wire[o]
  BY <1>2, SameGrows
<1> QED
  BY <1>1, <1>6, <1>7, <1>10, <1>12, <1>13, <1>14, <1>15, <1>16, <1>0 DEF Created, Typed, g

LEMMA ChannelMade ==
  ASSUME MuxInv, NEW e \in Ends, NEW n \in Names, NEW i \in Ids, NEW mine \in BOOLEAN,
         e \notin down, GetOrCreate(e, n, i, mine), channels[e][n] # i
  PROVE  Created(e, n, i, mine)
<1> DEFINE o == Other(e)
           x == [Unused EXCEPT !.state = "open", !.name = n, !.mine = mine]
           f == Frame("Start", i, n, 0)
           g == chan'[e]
<1>0. /\ Typed /\ channels' = [channels EXCEPT ![e][n] = i]
      /\ chan' = [chan EXCEPT ![e][i] = x]
      /\ channels[e][n] = None /\ IsTraceless(e, i)
  BY DEF MuxInv, GetOrCreate, ChannelFor, IsNextId
<1>1. o \in Ends /\ o # e
  BY TwoEnds
<1>2. /\ wire[o] \in Seq(Frames) /\ remote[e] \in Maps /\ remote[o] \in Maps
      /\ chan[e] \in Chans /\ chan[o] \in Chans /\ channels[e] \in [Names -> Ids \cup {None}]
  BY <1>0, <1>1, Views
<1>3. /\ x \in Channel /\ x.state = "open" /\ x.name = n /\ x.mine = mine
      /\ x.wrote = 0 /\ x.got = 0 /\ x.from = None
  BY UnusedTyped DEF Unused, Channel
<1>4. chan' = [chan EXCEPT ![e] = [chan[e] EXCEPT ![i] = x]]
  BY <1>0, <1>2 DEF Typed
<1> HIDE DEF x
<1>5. /\ chan' \in [Ends -> [Ids -> Channel]] /\ g \in Chans
      /\ g = [chan[e] EXCEPT ![i] = x]
      /\ g[i] = x /\ \A j \in Ids : j # i => g[j] = chan[e][j]
      /\ chan'[o] = chan[o]
  <2>1. Typed /\ x \in Channel
    BY <1>0, <1>3
  <2> QED
    BY <2>1, <1>4, OneChannel, Zenon
<1>6. /\ channels' \in [Ends -> [Names -> Ids \cup {None}]]
      /\ channels'[e] = [channels[e] EXCEPT ![n] = i] /\ channels'[o] = channels[o]
  BY <1>0, <1>1 DEF Typed
<1>7. f \in Frames /\ f.type = "Start" /\ f.id = i /\ f.name = n /\ Started(e, n, i) = <<f>>
  <2>1. 0 \in 0..MaxWrites
    BY MultiplexConstants
  <2> QED
    BY <2>1, FrameTyped DEF Started
<1>8. Table(channels[e], opened[e], chan[e])
  BY DEF MuxInv, TableInv
<1>9. /\ chan[e][i].state = "none" /\ Fresh(remote[e], i) /\ remote[o][i] = None
      /\ \A k \in DOMAIN wire[o] : wire[o][k].id # i
  <2>1. \A k \in DOMAIN wire[o] : wire[o][k] \in ToSet(wire[o])
    BY DEF ToSet
  <2> QED
    BY <2>1, <1>0 DEF IsTraceless, Fresh
<1>10. Table(channels'[e], IF mine THEN opened[e] \cup {n} ELSE opened[e], g)
  BY <1>0, <1>2, <1>3, <1>5, <1>6, <1>8, <1>9, TableNew
<1>11. \A j \in Ids : chan[e][j].state # "none" => chan[e][j].name # n
  BY <1>0, <1>8 DEF Table, Ids, None
<1>12. Harmless(remote[e], chan[e], g)
  BY <1>3, <1>5, <1>9 DEF Harmless
<1> HIDE DEF f
<1>13. <<f>> \in Seq(Frames)
  BY <1>7
<1>14. ASSUME o \notin down
       PROVE  /\ Link(wire[o] \o Started(e, n, i), remote[o], chan[o], g)
              /\ Forgotten(wire[o] \o Started(e, n, i), remote[o], g)
  <2> DEFINE q == wire[o]
             s == wire[o] \o <<f>>
             t == chan[e]
             r == remote[o]
  <2>1. q \in Seq(Frames) /\ t \in Chans /\ Adds(q, s, f) /\ Grows(q, s)
    <3>1. Adds(q, s, f)
      BY <1>2, <1>7, Added, Zenon
    <3> QED
      BY <3>1, <1>2 DEF Adds
  <2>2. Link(q, r, chan[o], t) /\ Forgotten(q, r, t)
    BY <1>14, OtherSide
  <2>3. /\ t[f.id].state = "none" /\ r[f.id] = None /\ \A k \in DOMAIN q : q[k].id # f.id
        /\ \A j \in Ids : t[j].state # "none" => t[j].name # f.name
        /\ g[f.id].name = f.name /\ g[f.id].wrote = 0 /\ g[f.id].state # "none"
        /\ \A j \in Ids : j # f.id => g[j] = t[j]
    BY <1>3, <1>5, <1>7, <1>9, <1>11
  <2>4. r \in Maps /\ chan[o] \in Chans /\ f \in Frames /\ f.type = "Start" /\ g \in Chans
    BY <1>2, <1>5, <1>7
  <2>5. s = wire[o] \o Started(e, n, i)
    BY <1>7
  <2> HIDE DEF q, s, t, r, g
  <2>6. \A j \in Ids : j # f.id /\ g[j].state # "none" =>
          t[j].state # "none" /\ g[j].name = t[j].name /\ g[j].wrote = t[j].wrote
    BY <2>3
  <2>7. Link(s, r, chan[o], g)
    BY <2>1, <2>2, <2>3, <2>4, <2>6, PushStart
  <2>8. /\ \A k \in DOMAIN s : k \notin DOMAIN q /\ s[k].type = "Start" => g[s[k].id].state # "none"
        /\ \A j \in Ids : g[j].state = "none" => t[j].state = "none" \/ Has(s, "Destroy", j)
    <3>1. \A k \in DOMAIN s : k \notin DOMAIN q => s[k] = f
      BY <2>1 DEF Adds
    <3> QED
      BY <3>1, <2>3
  <2>9. Forgotten(s, r, g)
    BY <2>1, <2>2, <2>4, <2>8, <1>5, PushForgotten
  <2> QED
    BY <2>5, <2>7, <2>9 DEF r
<1> QED
  BY <1>1, <1>3, <1>5, <1>6, <1>7, <1>10, <1>12, <1>13, <1>14 DEF Created, g

LEMMA OpenKeeps ==
  ASSUME MuxInv, NEW e \in Ends, NEW n \in Names, NEW i \in Ids, Open(e, n, i)
  PROVE  MuxInv'
<1> DEFINE o == Other(e)
           f == Started(e, n, i)
<1>0. /\ Typed /\ e \notin down /\ opens < MaxOpens /\ opens' = opens + 1
      /\ opened' = [opened EXCEPT ![e] = @ \cup {n}]
      /\ GetOrCreate(e, n, i, TRUE)
      /\ wire' = Sent(wire, o, f)
      /\ UNCHANGED <<remote, down, upsets>>
  BY DEF MuxInv, Open
<1>1. o \in Ends /\ o # e
  BY TwoEnds
<1>2. Created(e, n, i, TRUE)
  BY <1>0, ChannelFound, ChannelMade
<1> HIDE DEF f
<1>3. /\ wire' \in [Ends -> Seq(Frames)] /\ wire'[e] = wire[e]
      /\ o \notin down => wire'[o] = wire[o] \o f
  <2>0. f \in Seq(Frames) /\ wire \in [Ends -> Seq(Frames)]
    BY <1>0, <1>2 DEF Created, f, Typed
  <2>1. /\ Sent(wire, o, f) \in [Ends -> Seq(Frames)]
        /\ o \notin down => Sent(wire, o, f)[o] = wire[o] \o f
        /\ \A y \in Ends : y # o => Sent(wire, o, f)[y] = wire[y]
    BY <2>0, <1>1, Sending, Zenon
  <2> QED
    BY <2>1, <1>0, <1>1, Zenon
<1>4. /\ opened' \in [Ends -> SUBSET Names]
      /\ opened'[e] = opened[e] \cup {n} /\ opened'[o] = opened[o]
  BY <1>0, <1>1 DEF Typed
<1>5. opens' \in 0..MaxOpens
  BY <1>0, MultiplexConstants DEF Typed
<1>6. Typed'
  BY <1>0, <1>2, <1>3, <1>4, <1>5 DEF Typed, Created
<1>7. Table(channels'[e], opened'[e], chan'[e])
  BY <1>2, <1>4 DEF Created
<1>8. o \notin down =>
        /\ Link(wire'[o], remote[o], chan[o], chan'[e])
        /\ Forgotten(wire'[o], remote[o], chan'[e])
  BY <1>2, <1>3 DEF Created, f
<1> QED
  BY <1>0, <1>1, <1>2, <1>3, <1>4, <1>6, <1>7, <1>8, LocalStep DEF Created

-----------------------------------------------------------------------------
(* The steps of a receiver                                                 *)

\* What the first frame says of the channel its number stands for.
LEMMA FirstFrame ==
  ASSUME NEW q \in Seq(Frames), NEW r \in Maps, NEW h \in Chans, NEW t \in Chans,
         Link(q, r, h, t), 1 \in DOMAIN q
  PROVE  /\ q[1].type # "Start" => r[q[1].id] # None
         /\ q[1].type \in {"Data", "End"} /\ h[r[q[1].id]].state = "open" =>
              /\ q[1].name = h[r[q[1].id]].name
              /\ h[r[q[1].id]].from \in {None, q[1].id}
              /\ q[1].k = IF q[1].type = "Data" THEN h[r[q[1].id]].got + 1 ELSE h[r[q[1].id]].got
<1> DEFINE f == q[1]
           i == r[f.id]
<1>1. f.id \in Ids /\ f.k \in Nat /\ \A type : ~HasBefore(q, 1, type, f.id)
  BY Places DEF HasBefore
<1>2. f.type # "Start" => i # None
  BY <1>1 DEF Link, Framed
<1>3. ASSUME f.type \in {"Data", "End"}, h[i].state = "open"
      PROVE  /\ f.name = h[i].name /\ h[i].from \in {None, f.id}
             /\ f.k = IF f.type = "Data" THEN h[i].got + 1 ELSE h[i].got
  <2>1. i # None /\ i \in Ids
    BY <1>1, <1>2, <1>3 DEF Maps
  <2>2. f.name = h[i].name
    BY <1>1, <1>3, <2>1 DEF Link, Named
  <2>3. h[i].from \in {None, f.id}
    <3>1. h[i].from \in Ids \cup {None}
      BY <2>1 DEF Chans, Channel
    <3>2. h[i].from # None => r[h[i].from] = i
      BY <1>3, <2>1 DEF Link, OneSource
    <3> QED
      BY <1>1, <1>3, <2>1, <3>1, <3>2 DEF Link, OneSource
  <2>4. CASE f.type = "Data"
    <3>1. Reached(q, r, h, f.id, 1, f.k - 1) /\ f.k # 0
      BY <2>4 DEF Link, Counted
    <3>2. f.k - 1 = h[i].got
      BY <3>1, <1>1, <1>3, <2>1 DEF Reached, Held
    <3> QED
      BY <2>2, <2>3, <2>4, <3>2, <1>1
  <2>5. CASE f.type = "End"
    <3>1. Reached(q, r, h, f.id, 1, f.k)
      BY <2>5 DEF Link, Counted
    <3>2. f.k = h[i].got
      BY <3>1, <1>1, <1>3, <2>1 DEF Reached, Held
    <3> QED
      BY <2>2, <2>3, <2>5, <3>2
  <2> QED
    BY <1>3, <2>4, <2>5
<1> QED
  BY <1>2, <1>3

\* A frame has come, and is taken from the connection.
LEMMA Arrival ==
  ASSUME MuxInv, NEW e \in Ends, e \notin down, wire[e] # <<>>
  PROVE  /\ Link(wire[e], remote[e], chan[e], chan[Other(e)])
         /\ down = {} => Forgotten(wire[e], remote[e], chan[Other(e)])
         /\ Pops(wire[e], Tail(wire[e])) /\ Head(wire[e]) = wire[e][1] /\ 1 \in DOMAIN wire[e]
         /\ Head(wire[e]) \in Frames
         /\ Consumed(e) \in [Ends -> Seq(Frames)] /\ Consumed(e)[e] = Tail(wire[e])
         /\ Consumed(e)[Other(e)] = wire[Other(e)]
<1>1. Other(e) \in Ends /\ Other(e) # e
  BY TwoEnds
<1>2. wire \in [Ends -> Seq(Frames)] /\ wire[e] \in Seq(Frames)
  BY DEF MuxInv, Typed
<1>3. Pops(wire[e], Tail(wire[e])) /\ Head(wire[e]) = wire[e][1]
  BY <1>2, Popped
<1>4. Tail(wire[e]) \in Seq(Frames) /\ 1 \in DOMAIN wire[e]
  BY <1>3 DEF Pops
<1>5. Head(wire[e]) \in Frames
  BY <1>2, <1>3, <1>4, Places
<1>6. /\ Consumed(e) \in [Ends -> Seq(Frames)] /\ Consumed(e)[e] = Tail(wire[e])
      /\ Consumed(e)[Other(e)] = wire[Other(e)]
  BY <1>1, <1>2, <1>4 DEF Consumed
<1>7. Link(wire[e], remote[e], chan[e], chan[Other(e)])
  BY DEF MuxInv, LinkInv
<1>8. down = {} => Forgotten(wire[e], remote[e], chan[Other(e)])
  BY DEF MuxInv, ForgetInv
<1> QED
  BY <1>3, <1>4, <1>5, <1>6, <1>7, <1>8

\* The link towards the other end while this end only receives.
LEMMA OtherSideQuiet ==
  ASSUME MuxInv, NEW e \in Ends, e \notin down, Other(e) \notin down, NEW g \in Chans,
         \A i \in Ids : /\ g[i].state = "none" <=> chan[e][i].state = "none"
                        /\ g[i].name = chan[e][i].name /\ g[i].wrote = chan[e][i].wrote
  PROVE  /\ Link(wire[Other(e)], remote[Other(e)], chan[Other(e)], g)
         /\ Forgotten(wire[Other(e)], remote[Other(e)], g)
<1>1. Grows(wire[Other(e)], wire[Other(e)])
  BY TwoEnds, Views, SameGrows DEF MuxInv
<1> QED
  BY <1>1, OtherSideKept

\* A channel reads a chunk.
LEMMA ChunkRead ==
  ASSUME NEW c \in Channel, NEW j \in Ids, NEW k, k <= MaxWrites, k = c.got + 1
  PROVE  LET x == [c EXCEPT !.got = @ + 1, !.from = j]
         IN /\ x \in Channel /\ x.wrote = c.wrote /\ x.state = c.state /\ x.name = c.name
            /\ x.mine = c.mine /\ x.got = c.got + 1 /\ x.from = j
<1>1. c.got \in Nat /\ c.got + 1 \in 0..MaxWrites
  BY MultiplexConstants DEF Channel
<1> QED
  BY <1>1 DEF Channel

LEMMA ReceiveDataKeeps ==
  ASSUME MuxInv, NEW e \in Ends, ReceiveData(e)
  PROVE  MuxInv'
<1> DEFINE o == Other(e)
           q == wire[e]
           f == Head(q)
           i == remote[e][f.id]
           c == chan[e][i]
           x == [c EXCEPT !.got = @ + 1, !.from = f.id]
           g == chan'[e]
<1>0. /\ Typed /\ e \notin down /\ q # <<>> /\ f.type = "Data" /\ i # None
      /\ chan' = IF c.state = "open"
                 THEN [chan EXCEPT ![e][i].got = @ + 1, ![e][i].from = f.id]
                 ELSE chan
      /\ wire' = Consumed(e)
      /\ UNCHANGED <<channels, opened, remote, opens, down, upsets>>
  BY DEF MuxInv, ReceiveData, Incoming, Target
<1>1. o \in Ends /\ o # e
  BY TwoEnds
<1>2. /\ q \in Seq(Frames) /\ remote[e] \in Maps
      /\ chan[e] \in Chans /\ chan[o] \in Chans /\ channels[e] \in [Names -> Ids \cup {None}]
  BY <1>0, <1>1, Views
<1>3. /\ Link(q, remote[e], chan[e], chan[o])
      /\ down = {} => Forgotten(q, remote[e], chan[o])
      /\ Pops(q, Tail(q)) /\ f = q[1] /\ 1 \in DOMAIN q /\ f \in Frames
      /\ wire' \in [Ends -> Seq(Frames)] /\ wire'[e] = Tail(q) /\ wire'[o] = wire[o]
  BY <1>0, Arrival, Zenon
<1>4. f.id \in Ids /\ i \in Ids /\ f.k <= MaxWrites
  <2>1. f.id \in Ids /\ f.k <= MaxWrites
    BY <1>3, MultiplexConstants DEF Frames
  <2> QED
    BY <2>1, <1>0, <1>2 DEF Maps
<1>5. c \in Channel
  BY <1>2, <1>4 DEF Chans
<1>6. /\ g \in Chans /\ chan' \in [Ends -> [Ids -> Channel]] /\ chan'[o] = chan[o]
      /\ \A j \in Ids :
           /\ g[j].name = chan[e][j].name /\ g[j].state = chan[e][j].state
           /\ g[j].mine = chan[e][j].mine /\ g[j].wrote = chan[e][j].wrote
           /\ j # i => g[j].got = chan[e][j].got /\ g[j].from = chan[e][j].from
           /\ j = i /\ chan[e][j].state = "open" =>
                g[j].got = chan[e][j].got + 1 /\ g[j].from = f.id
  <2>1. CASE c.state = "open"
    <3>1. f.k = c.got + 1
      <4> DEFINE h == chan[e]
                 r == remote[e]
      <4>1. /\ q \in Seq(Frames) /\ r \in Maps /\ h \in Chans /\ chan[o] \in Chans
            /\ Link(q, r, h, chan[o]) /\ 1 \in DOMAIN q /\ f = q[1]
            /\ q[1].type = "Data" /\ h[r[q[1].id]].state = "open"
        BY <1>0, <1>2, <1>3, <2>1
      <4>2. c = h[r[q[1].id]]
        BY <4>1
      <4> HIDE DEF q, f, r, h, c
      <4>3. q[1].k = h[r[q[1].id]].got + 1
        BY <4>1, FirstFrame
      <4> QED
        BY <4>1, <4>2, <4>3
    <3>3. /\ x \in Channel /\ x.wrote = c.wrote /\ x.state = c.state /\ x.name = c.name
          /\ x.mine = c.mine /\ x.got = c.got + 1 /\ x.from = f.id
      BY <3>1, <1>4, <1>5, ChunkRead, Zenon
    <3>4. chan' = [chan EXCEPT ![e] = [chan[e] EXCEPT ![i] = x]]
      <4>1. chan \in [Ends -> [Ids -> Channel]]
        BY <1>0 DEF Typed
      <4>2. chan' = [chan EXCEPT ![e][i].got = @ + 1, ![e][i].from = f.id]
        BY <1>0, <2>1
      <4>3. e \in Ends /\ i \in Ids
        BY <1>4
      <4> HIDE DEF i
      <4>4. \A j : [chan EXCEPT ![e][i].got = @ + 1, ![e][i].from = j]
                     = [chan EXCEPT ![e] = [chan[e] EXCEPT ![i] =
                         [chan[e][i] EXCEPT !.got = @ + 1, !.from = j]]]
        <5>1. chan[e][i] \in Channel
          BY <4>1, <4>3
        <5> QED
          BY <5>1, <4>1, <4>3
      <4> QED
        BY <4>2, <4>4
    <3> HIDE DEF x
    <3>5. /\ chan' \in [Ends -> [Ids -> Channel]] /\ g \in Chans
          /\ g[i] = x /\ \A j \in Ids : j # i => g[j] = chan[e][j]
          /\ chan'[o] = chan[o]
      <4>1. Typed /\ x \in Channel /\ i \in Ids
        BY <1>0, <1>4, <3>3
      <4> QED
        BY <4>1, <3>4, OneChannel, ZenonT(40)
    <3> QED
      BY <3>3, <3>5
  <2>2. CASE c.state # "open"
    BY <2>2, <1>0, <1>2 DEF Typed
  <2> QED
    BY <2>1, <2>2
<1>7. Typed'
  BY <1>0, <1>3, <1>6 DEF Typed
<1> HIDE DEF g, c, x
<1>8. Link(wire'[e], remote'[e], g, chan[o]) /\ (down = {} => Forgotten(wire'[e], remote'[e], chan[o]))
  <2> DEFINE s == Tail(q)
             r == remote[e]
             h == chan[e]
             t == chan[o]
  <2>1. /\ r \in Maps /\ h \in Chans /\ t \in Chans /\ g \in Chans /\ q \in Seq(Frames)
        /\ Pops(q, s) /\ Link(q, r, h, t) /\ q[1].type = "Data" /\ r[q[1].id] # None
        /\ \A j \in Ids :
             /\ g[j].name = h[j].name /\ g[j].state = h[j].state
             /\ j # r[q[1].id] => g[j].got = h[j].got /\ g[j].from = h[j].from
             /\ j = r[q[1].id] /\ h[j].state = "open" =>
                  g[j].got = h[j].got + 1 /\ g[j].from = q[1].id
    BY ZenonT(40), <1>0, <1>2, <1>3, <1>6
  <2>2. wire'[e] = s /\ remote'[e] = r /\ (down = {} => Forgotten(q, r, t))
    BY <1>0, <1>3
  <2> HIDE DEF q, s, r, h, t
  <2>3. Link(s, r, g, t)
    BY <2>1, PopData
  <2>4. Taken(q[1], r, r, h, g)
    BY <2>1 DEF Taken
  <2>5. down = {} => Forgotten(s, r, t)
    BY <2>1, <2>2, <2>4, PopForgotten
  <2> QED
    BY <2>2, <2>3, <2>5 DEF t
<1>9. Table(channels'[e], opened'[e], g)
  <2>1. SameChannels(chan[e], g)
    BY <1>6 DEF SameChannels
  <2>2. Table(channels[e], opened[e], chan[e])
    BY DEF MuxInv, TableInv
  <2> QED
    BY <2>1, <2>2, <1>0, <1>2, <1>6, TableKept
<1>10. o \notin down =>
         Link(wire'[o], remote[o], chan[o], g) /\ Forgotten(wire'[o], remote[o], g)
  <2>1. \A j \in Ids : /\ g[j].state = "none" <=> chan[e][j].state = "none"
                       /\ g[j].name = chan[e][j].name /\ g[j].wrote = chan[e][j].wrote
    BY <1>6
  <2>2. o \notin down =>
         Link(wire[o], remote[o], chan[o], g) /\ Forgotten(wire[o], remote[o], g)
    BY <2>1, <1>0, <1>6, OtherSideQuiet
  <2> QED
    BY <2>2, <1>3
<1> QED
  BY <1>0, <1>1, <1>6, <1>7, <1>8, <1>9, <1>10, ReceiveStep DEF g

LEMMA ReceiveEndKeeps ==
  ASSUME MuxInv, NEW e \in Ends, ReceiveEnd(e)
  PROVE  MuxInv'
<1> DEFINE o == Other(e)
           q == wire[e]
           f == Head(q)
           i == remote[e][f.id]
           c == chan[e][i]
           x == Ended(e, i)
           g == chan'[e]
<1>0. /\ Typed /\ e \notin down /\ q # <<>> /\ f.type = "End" /\ i # None
      /\ chan' = [chan EXCEPT ![e][i] = x]
      /\ wire' = Consumed(e)
      /\ UNCHANGED <<channels, opened, remote, opens, down, upsets>>
  BY DEF MuxInv, ReceiveEnd, Incoming, Target
<1>1. o \in Ends /\ o # e
  BY TwoEnds
<1>2. /\ q \in Seq(Frames) /\ remote[e] \in Maps
      /\ chan[e] \in Chans /\ chan[o] \in Chans /\ channels[e] \in [Names -> Ids \cup {None}]
  BY <1>0, <1>1, Views
<1>3. /\ Link(q, remote[e], chan[e], chan[o])
      /\ down = {} => Forgotten(q, remote[e], chan[o])
      /\ Pops(q, Tail(q)) /\ f = q[1] /\ 1 \in DOMAIN q /\ f \in Frames
      /\ wire' \in [Ends -> Seq(Frames)] /\ wire'[e] = Tail(q) /\ wire'[o] = wire[o]
  BY <1>0, Arrival, Zenon
<1>4. i \in Ids
  <2>1. f.id \in Ids
    BY <1>3 DEF Frames
  <2> QED
    BY <2>1, <1>0, <1>2 DEF Maps
<1>5. c \in Channel
  BY <1>2, <1>4 DEF Chans
<1>6. /\ x \in Channel /\ x.wrote = c.wrote /\ x.name = c.name
      /\ x.mine = c.mine /\ x.got = c.got /\ x.from = c.from
      /\ x.state = c.state \/ (c.state = "open" /\ x.state = "dying")
  <2> HIDE DEF c
  <2>1. CASE x = c
    BY <2>1, <1>5
  <2>2. CASE x = [c EXCEPT !.finished = TRUE]
    BY <2>2, <1>5 DEF Channel
  <2>3. CASE x = [c EXCEPT !.finished = TRUE, !.state = "dying"] /\ c.state = "open"
    BY <2>3, <1>5 DEF Channel
  <2>4. \/ x = c \/ x = [c EXCEPT !.finished = TRUE]
        \/ x = [c EXCEPT !.finished = TRUE, !.state = "dying"] /\ c.state = "open"
    BY DEF Ended, c
  <2> QED
    BY <2>1, <2>2, <2>3, <2>4
<1> HIDE DEF x
<1>7. chan' = [chan EXCEPT ![e] = [chan[e] EXCEPT ![i] = x]]
  BY <1>0, <1>2 DEF Typed
<1>8. /\ chan' \in [Ends -> [Ids -> Channel]] /\ g \in Chans
      /\ g[i] = x /\ \A j \in Ids : j # i => g[j] = chan[e][j]
      /\ chan'[o] = chan[o]
  <2>1. Typed /\ x \in Channel /\ i \in Ids
    BY <1>0, <1>4, <1>6
  <2> QED
    BY <2>1, <1>7, OneChannel, ZenonT(40)
<1>9. Typed'
  BY <1>0, <1>3, <1>8 DEF Typed
<1>10. Fades(chan[e], g)
  BY <1>6, <1>8 DEF Fades
<1> HIDE DEF g, c
<1>11. /\ Harmless(remote[e], chan[e], g) /\ SameChannels(chan[e], g)
       /\ \A j \in Ids : /\ g[j].state = "none" <=> chan[e][j].state = "none"
                         /\ g[j].name = chan[e][j].name /\ g[j].wrote = chan[e][j].wrote
  BY <1>2, <1>8, <1>10, FadesFacts
<1>12. Link(wire'[e], remote'[e], g, chan[o]) /\ (down = {} => Forgotten(wire'[e], remote'[e], chan[o]))
  <2> DEFINE s == Tail(q)
             r == remote[e]
             h == chan[e]
             t == chan[o]
  <2>1. /\ r \in Maps /\ h \in Chans /\ t \in Chans /\ g \in Chans /\ q \in Seq(Frames)
        /\ Pops(q, s) /\ Link(q, r, h, t) /\ q[1].type = "End" /\ Harmless(r, h, g)
    BY <1>0, <1>2, <1>3, <1>8, <1>11
  <2>2. wire'[e] = s /\ remote'[e] = r /\ (down = {} => Forgotten(q, r, t))
    BY <1>0, <1>3
  <2> HIDE DEF q, s, r, h, t
  <2>3. Link(s, r, h, t)
    BY <2>1, PopEnd
  <2>4. s \in Seq(Frames)
    BY <2>1 DEF Pops
  <2>5. Link(s, r, g, t)
    BY <2>1, <2>3, <2>4, LinkHere
  <2>6. Taken(q[1], r, r, h, h)
    BY <2>1 DEF Taken
  <2>7. down = {} => Forgotten(s, r, t)
    BY <2>1, <2>2, <2>6, PopForgotten
  <2> QED
    BY <2>2, <2>5, <2>7 DEF t
<1>13. Table(channels'[e], opened'[e], g)
  <2>1. Table(channels[e], opened[e], chan[e])
    BY DEF MuxInv, TableInv
  <2> QED
    BY <2>1, <1>0, <1>2, <1>8, <1>11, TableKept
<1>14. o \notin down =>
         Link(wire'[o], remote[o], chan[o], g) /\ Forgotten(wire'[o], remote[o], g)
  <2>1. o \notin down =>
         Link(wire[o], remote[o], chan[o], g) /\ Forgotten(wire[o], remote[o], g)
    BY <1>0, <1>8, <1>11, OtherSideQuiet
  <2> QED
    BY <2>1, <1>3
<1> QED
  BY <1>0, <1>1, <1>8, <1>9, <1>12, <1>13, <1>14, ReceiveStep DEF g

LEMMA ReceiveDestroyKeeps ==
  ASSUME MuxInv, NEW e \in Ends, ReceiveDestroy(e)
  PROVE  MuxInv'
<1> DEFINE o == Other(e)
           q == wire[e]
           f == Head(q)
           i == remote[e][f.id]
           c == chan[e][i]
           x == Destroyed(e, i)
           g == chan'[e]
<1>0. /\ Typed /\ e \notin down /\ q # <<>> /\ f.type = "Destroy" /\ i # None
      /\ remote' = [remote EXCEPT ![e][f.id] = None]
      /\ chan' = [chan EXCEPT ![e][i] = x]
      /\ wire' = Consumed(e)
      /\ UNCHANGED <<channels, opened, opens, down, upsets>>
  BY DEF MuxInv, ReceiveDestroy, Incoming, Target
<1>1. o \in Ends /\ o # e
  BY TwoEnds
<1>2. /\ q \in Seq(Frames) /\ remote[e] \in Maps
      /\ chan[e] \in Chans /\ chan[o] \in Chans /\ channels[e] \in [Names -> Ids \cup {None}]
  BY <1>0, <1>1, Views
<1>3. /\ Link(q, remote[e], chan[e], chan[o])
      /\ down = {} => Forgotten(q, remote[e], chan[o])
      /\ Pops(q, Tail(q)) /\ f = q[1] /\ 1 \in DOMAIN q /\ f \in Frames
      /\ wire' \in [Ends -> Seq(Frames)] /\ wire'[e] = Tail(q) /\ wire'[o] = wire[o]
  BY <1>0, Arrival, Zenon
<1>4. f.id \in Ids /\ i \in Ids
  <2>1. f.id \in Ids
    BY <1>3 DEF Frames
  <2> QED
    BY <2>1, <1>0, <1>2 DEF Maps
<1>5. c \in Channel
  BY <1>2, <1>4 DEF Chans
<1>6. /\ x \in Channel /\ x.wrote = c.wrote /\ x.name = c.name
      /\ x.mine = c.mine /\ x.got = c.got /\ x.from = c.from
      /\ x.state = c.state \/ (c.state = "open" /\ x.state = "dying")
      /\ x.state # "open"
  <2> HIDE DEF c
  <2>1. CASE x = c /\ c.state # "open"
    BY <2>1, <1>5
  <2>2. CASE x = [c EXCEPT !.state = "dying"] /\ c.state = "open"
    BY <2>2, <1>5 DEF Channel
  <2> QED
    BY <2>1, <2>2 DEF Destroyed, c
<1> HIDE DEF x
<1>7. chan' = [chan EXCEPT ![e] = [chan[e] EXCEPT ![i] = x]]
  BY <1>0, <1>2 DEF Typed
<1>8. /\ chan' \in [Ends -> [Ids -> Channel]] /\ g \in Chans
      /\ g[i] = x /\ \A j \in Ids : j # i => g[j] = chan[e][j]
      /\ chan'[o] = chan[o]
  <2>1. Typed /\ x \in Channel /\ i \in Ids
    BY <1>0, <1>4, <1>6
  <2> QED
    BY <2>1, <1>7, OneChannel, ZenonT(40)
<1>9. /\ remote' \in [Ends -> [Ids -> Ids \cup {None}]]
      /\ remote'[e] = [remote[e] EXCEPT ![f.id] = None] /\ remote'[o] = remote[o]
  BY <1>0, <1>1, <1>4 DEF Typed
<1>10. Typed'
  BY <1>0, <1>3, <1>8, <1>9 DEF Typed
<1>11. Fades(chan[e], g) /\ g[i].state # "open"
  BY <1>6, <1>8 DEF Fades
<1> HIDE DEF g, c
<1>12. /\ Harmless(remote[e], chan[e], g) /\ SameChannels(chan[e], g)
       /\ \A j \in Ids : /\ g[j].state = "none" <=> chan[e][j].state = "none"
                         /\ g[j].name = chan[e][j].name /\ g[j].wrote = chan[e][j].wrote
  BY <1>2, <1>8, <1>11, FadesFacts
<1>13. Link(wire'[e], remote'[e], g, chan[o]) /\ (down = {} => Forgotten(wire'[e], remote'[e], chan[o]))
  <2> DEFINE s == Tail(q)
             r == remote[e]
             v == [r EXCEPT ![q[1].id] = None]
             h == chan[e]
             t == chan[o]
  <2>1. /\ r \in Maps /\ h \in Chans /\ t \in Chans /\ g \in Chans /\ q \in Seq(Frames)
        /\ Pops(q, s) /\ Link(q, r, h, t) /\ q[1].type = "Destroy" /\ Harmless(r, h, g)
        /\ r[q[1].id] # None /\ g[r[q[1].id]].state # "open" /\ q[1].id \in Ids
    BY <1>0, <1>2, <1>3, <1>4, <1>8, <1>11, <1>12
  <2>2. wire'[e] = s /\ remote'[e] = v /\ (down = {} => Forgotten(q, r, t))
    BY <1>0, <1>3, <1>9
  <2> HIDE DEF q, s, r, h, t
  <2>3. Link(q, r, g, t)
    BY <2>1, LinkHere
  <2>4. Link(s, v, g, t)
    BY <2>1, <2>3, PopDestroy
  <2>5. v \in Maps /\ v[q[1].id] = None /\ \A j \in Ids : j # q[1].id => v[j] = r[j]
    BY <2>1 DEF Maps, Ids, None
  <2> HIDE DEF v
  <2>6. Taken(q[1], r, v, g, g)
    BY <2>1, <2>5 DEF Taken
  <2>7. down = {} => Forgotten(s, v, t)
    BY <2>1, <2>2, <2>3, <2>5, <2>6, PopForgotten
  <2> QED
    BY <2>2, <2>4, <2>7 DEF t
<1>14. Table(channels'[e], opened'[e], g)
  <2>1. Table(channels[e], opened[e], chan[e])
    BY DEF MuxInv, TableInv
  <2> QED
    BY <2>1, <1>0, <1>2, <1>8, <1>12, TableKept
<1>15. o \notin down =>
         Link(wire'[o], remote[o], chan[o], g) /\ Forgotten(wire'[o], remote[o], g)
  <2>1. o \notin down =>
         Link(wire[o], remote[o], chan[o], g) /\ Forgotten(wire[o], remote[o], g)
    BY <1>0, <1>8, <1>12, OtherSideQuiet
  <2> QED
    BY <2>1, <1>3
<1> QED
  BY <1>0, <1>1, <1>8, <1>9, <1>10, <1>13, <1>14, <1>15, ReceiveStep DEF g

LEMMA ReceiveStartKeeps ==
  ASSUME MuxInv, NEW e \in Ends, NEW i \in Ids, ReceiveStart(e, i)
  PROVE  MuxInv'
<1> DEFINE o == Other(e)
           q == wire[e]
           f == Head(q)
           n == f.name
           m == Started(e, n, i)
           g == chan'[e]
<1>0. /\ Typed /\ e \notin down /\ q # <<>> /\ f.type = "Start"
      /\ GetOrCreate(e, n, i, FALSE)
      /\ remote' = [remote EXCEPT ![e][f.id] = i]
      /\ wire' = Sent(Consumed(e), o, m)
      /\ upsets' \subseteq upsets \cup {"crossed"}
      /\ UNCHANGED <<opened, opens, down>>
  BY DEF MuxInv, ReceiveStart, Incoming
<1>1. o \in Ends /\ o # e
  BY TwoEnds
<1>2. /\ q \in Seq(Frames) /\ remote[e] \in Maps
      /\ chan[e] \in Chans /\ chan[o] \in Chans /\ channels[e] \in [Names -> Ids \cup {None}]
  BY <1>0, <1>1, Views
<1>3. /\ Link(q, remote[e], chan[e], chan[o])
      /\ down = {} => Forgotten(q, remote[e], chan[o])
      /\ Pops(q, Tail(q)) /\ f = q[1] /\ 1 \in DOMAIN q /\ f \in Frames
      /\ Consumed(e) \in [Ends -> Seq(Frames)] /\ Consumed(e)[e] = Tail(q)
      /\ Consumed(e)[o] = wire[o]
  BY <1>0, Arrival, Zenon
<1>4. f.id \in Ids /\ n \in Names
  BY <1>3 DEF Frames
<1>5. Created(e, n, i, FALSE)
  <2> HIDE DEF n
  <2> QED
    BY <1>0, <1>4, ChannelFound, ChannelMade
<1>6. /\ chan' \in [Ends -> [Ids -> Channel]] /\ chan'[o] = chan[o]
      /\ channels' \in [Ends -> [Names -> Ids \cup {None}]] /\ channels'[o] = channels[o]
      /\ g[i].state # "none" /\ g[i].name = n /\ Harmless(remote[e], chan[e], g)
      /\ Table(channels'[e], opened[e], g)
      /\ m \in Seq(Frames)
      /\ o \notin down =>
           Link(wire[o] \o m, remote[o], chan[o], g) /\ Forgotten(wire[o] \o m, remote[o], g)
  BY <1>5, Zenon DEF Created
<1> HIDE DEF m
<1>7. /\ wire' \in [Ends -> Seq(Frames)] /\ wire'[e] = Tail(q)
      /\ o \notin down => wire'[o] = wire[o] \o m
  <2>1. /\ Sent(Consumed(e), o, m) \in [Ends -> Seq(Frames)]
        /\ o \notin down => Sent(Consumed(e), o, m)[o] = Consumed(e)[o] \o m
        /\ \A y \in Ends : y # o => Sent(Consumed(e), o, m)[y] = Consumed(e)[y]
    BY <1>1, <1>3, <1>6, Sending, Zenon
  <2> QED
    BY <2>1, <1>0, <1>1, <1>3, Zenon
<1>8. /\ remote' \in [Ends -> [Ids -> Ids \cup {None}]]
      /\ remote'[e] = [remote[e] EXCEPT ![f.id] = i] /\ remote'[o] = remote[o]
  BY <1>0, <1>1, <1>4 DEF Typed
<1>9. Typed'
  <2>1. upsets' \subseteq Upsets
    BY <1>0 DEF Typed, Upsets
  <2> QED
    BY <2>1, <1>0, <1>6, <1>7, <1>8 DEF Typed
<1>10. g \in Chans
  BY <1>6 DEF Chans
<1> HIDE DEF g
<1>11. Link(wire'[e], remote'[e], g, chan[o]) /\ (down = {} => Forgotten(wire'[e], remote'[e], chan[o]))
  <2> DEFINE s == Tail(q)
             r == remote[e]
             v == [r EXCEPT ![q[1].id] = i]
             h == chan[e]
             t == chan[o]
  <2>1. /\ r \in Maps /\ h \in Chans /\ t \in Chans /\ g \in Chans /\ q \in Seq(Frames)
        /\ Pops(q, s) /\ Link(q, r, h, t) /\ q[1].type = "Start" /\ Harmless(r, h, g)
        /\ g[i].state # "none" /\ g[i].name = q[1].name /\ q[1].id \in Ids
    BY <1>0, <1>2, <1>3, <1>4, <1>6, <1>10
  <2>2. wire'[e] = s /\ remote'[e] = v /\ (down = {} => Forgotten(q, r, t))
    BY <1>3, <1>7, <1>8
  <2> HIDE DEF q, s, r, h, t
  <2>3. Link(q, r, g, t)
    BY <2>1, LinkHere
  <2>4. Link(s, v, g, t)
    BY <2>1, <2>3, PopStart
  <2>5. v \in Maps /\ v[q[1].id] = i /\ i # None /\ \A j \in Ids : j # q[1].id => v[j] = r[j]
    BY <2>1 DEF Maps, Ids, None
  <2> HIDE DEF v
  <2>6. Taken(q[1], r, v, g, g)
    BY <2>1, <2>5 DEF Taken
  <2>7. down = {} => Forgotten(s, v, t)
    BY <2>1, <2>2, <2>3, <2>5, <2>6, PopForgotten
  <2> QED
    BY <2>2, <2>4, <2>7 DEF t
<1> QED
  BY <1>0, <1>1, <1>6, <1>7, <1>8, <1>9, <1>11, ReceiveStep DEF g

-----------------------------------------------------------------------------
(* The theorems                                                            *)

LEMMA InitHolds ==
  ASSUME Init
  PROVE  MuxInv
<1>1. Unused \in Channel /\ Unused.state = "none"
  BY UnusedTyped DEF Unused
<1>2. None \in Ids \cup {None} /\ <<>> \in Seq(Frames) /\ 0 \in 0..MaxOpens
  BY MultiplexConstants
<1>3. Typed
  BY <1>1, <1>2 DEF Init, Typed, Upsets
<1>4. ASSUME NEW e \in Ends, NEW x \in Ends
      PROVE  /\ Link(wire[e], remote[e], chan[e], chan[x])
             /\ Forgotten(wire[e], remote[e], chan[x])
             /\ Table(channels[e], opened[e], chan[e])
  <2>1. /\ wire[e] = <<>> /\ opened[e] = {}
        /\ \A i \in Ids : remote[e][i] = None /\ chan[e][i] = Unused /\ chan[x][i] = Unused
        /\ \A n \in Names : channels[e][n] = None
    BY DEF Init
  <2>2. DOMAIN wire[e] = {}
    BY <2>1
  <2>3. Framed(wire[e], remote[e]) /\ Announced(wire[e], remote[e], chan[x])
        /\ Replaced(wire[e], remote[e], chan[e])
    BY <2>1, <2>2, <1>1 DEF Framed, Announced, Replaced
  <2>4. Named(wire[e], remote[e], chan[e], chan[x])
    <3>1. PICK n : n \in Names
      BY MultiplexConstants
    <3> QED
      BY <3>1, <2>1, <2>2, <1>1 DEF Named
  <2>5. OneSource(remote[e], chan[e])
    BY <2>1, <1>1 DEF OneSource
  <2>6. Counted(wire[e], remote[e], chan[e], chan[x])
    BY <2>1, <2>2, <1>1 DEF Counted
  <2>7. Forgotten(wire[e], remote[e], chan[x])
    BY <2>1, <2>2 DEF Forgotten, Seen, Has
  <2>8. Table(channels[e], opened[e], chan[e])
    BY <2>1, <1>1 DEF Table
  <2> QED
    BY <2>3, <2>4, <2>5, <2>6, <2>7, <2>8 DEF Link
<1>5. \A e \in Ends : Other(e) \in Ends
  BY TwoEnds
<1> QED
  BY <1>3, <1>4, <1>5 DEF MuxInv, LinkInv, ForgetInv, TableInv

LEMMA StepHolds ==
  ASSUME MuxInv, [Next]_vars
  PROVE  MuxInv'
<1>1. CASE UNCHANGED vars
  BY <1>1 DEF vars, MuxInv, Typed, LinkInv, ForgetInv, TableInv
<1>2. CASE Next
  <2>1. PICK e \in Ends :
          \/ Close(e) \/ Shutdown(e) \/ Receive(e)
          \/ \E i \in Ids : Write(e, i) \/ End(e, i) \/ Destroy(e, i) \/ Teardown(e, i)
          \/ \E n \in Names, i \in Ids : Open(e, n, i)
    BY <1>2 DEF Next
  <2>2. CASE Receive(e)
    BY <2>2, ReceiveStartKeeps, ReceiveDataKeeps, ReceiveEndKeeps, ReceiveDestroyKeeps DEF Receive
  <2>3. CASE \E i \in Ids : Write(e, i) \/ End(e, i) \/ Destroy(e, i) \/ Teardown(e, i)
    BY <2>3, WriteKeeps, EndKeeps, DestroyKeeps, TeardownKeeps
  <2>4. CASE \E n \in Names, i \in Ids : Open(e, n, i)
    BY <2>4, OpenKeeps
  <2> QED
    BY <2>1, <2>2, <2>3, <2>4, CloseKeeps, ShutdownKeeps
<1> QED
  BY <1>1, <1>2

\* The invariant holds.
THEOREM InvariantHolds == Spec => []MuxInv
BY InitHolds, StepHolds, PTL DEF Spec

\* No frame comes for a number that stands for nothing (getChannelByRemoteId
\* never throws), and a channel in use is the one its name leads to, whatever
\* the two ends open, write, end, close and destroy, and in whatever order.
THEOREM TablesHold == Spec => []TablesAgree
<1>1. MuxInv => TablesAgree
  <2> SUFFICES ASSUME MuxInv
               PROVE  Typed /\ NumbersAreKnown /\ NamesLeadToChannels
    BY DEF TablesAgree
  <2>1. NumbersAreKnown
    <3> SUFFICES ASSUME NEW e \in Ends, NEW type \in {"Data", "End", "Destroy"}, Incoming(e, type)
                 PROVE  Target(e) # None
      BY DEF NumbersAreKnown
    <3>1. e \notin down /\ wire[e] # <<>> /\ Head(wire[e]).type # "Start"
      BY DEF Incoming
    <3>2. /\ Link(wire[e], remote[e], chan[e], chan[Other(e)])
          /\ Head(wire[e]) = wire[e][1] /\ 1 \in DOMAIN wire[e]
      BY <3>1, Arrival, Zenon
    <3>3. /\ wire[e] \in Seq(Frames) /\ remote[e] \in Maps
          /\ chan[e] \in Chans /\ chan[Other(e)] \in Chans
      BY TwoEnds, Views DEF MuxInv
    <3>4. wire[e][1].type # "Start" => remote[e][wire[e][1].id] # None
      BY <3>2, <3>3, FirstFrame
    <3> QED
      BY <3>1, <3>2, <3>4 DEF Target
  <2>2. NamesLeadToChannels
    BY DEF MuxInv, TableInv, Table, NamesLeadToChannels
  <2> QED
    BY <2>1, <2>2 DEF MuxInv
<1> QED
  BY <1>1, InvariantHolds, PTL

\* What an open channel reads is what one channel of the same name at the other
\* end has written, from its first chunk and in order, and all of it when its
\* End is read (the pushes and the end of onReceivedMsg).
THEOREM ReadsHold == Spec => []ReadsOneChannel
<1>1. MuxInv => ReadsOneChannel
  <2> SUFFICES ASSUME MuxInv, NEW e \in Ends, NEW type \in {"Data", "End"},
                      Incoming(e, type), Target(e) # None, chan[e][Target(e)].state = "open"
               PROVE  LET f == Head(wire[e])
                          c == chan[e][Target(e)]
                      IN /\ f.name = c.name /\ c.from \in {None, f.id}
                         /\ f.k = IF type = "Data" THEN c.got + 1 ELSE c.got
    BY DEF ReadsOneChannel
  <2>1. e \notin down /\ wire[e] # <<>> /\ Head(wire[e]).type = type
    BY DEF Incoming
  <2>2. /\ Link(wire[e], remote[e], chan[e], chan[Other(e)])
        /\ Head(wire[e]) = wire[e][1] /\ 1 \in DOMAIN wire[e]
    BY <2>1, Arrival, Zenon
  <2>3. /\ wire[e] \in Seq(Frames) /\ remote[e] \in Maps
        /\ chan[e] \in Chans /\ chan[Other(e)] \in Chans
    BY TwoEnds, Views DEF MuxInv
  <2> DEFINE q == wire[e]
             r == remote[e]
             h == chan[e]
             t == chan[Other(e)]
  <2>4. /\ q \in Seq(Frames) /\ r \in Maps /\ h \in Chans /\ t \in Chans
        /\ Link(q, r, h, t) /\ 1 \in DOMAIN q
        /\ q[1].type = type /\ h[r[q[1].id]].state = "open"
        /\ Head(wire[e]) = q[1] /\ chan[e][Target(e)] = h[r[q[1].id]]
    BY <2>1, <2>2, <2>3 DEF Target
  <2> HIDE DEF q, r, h, t
  <2>5. /\ q[1].name = h[r[q[1].id]].name
        /\ h[r[q[1].id]].from \in {None, q[1].id}
        /\ q[1].k = IF q[1].type = "Data" THEN h[r[q[1].id]].got + 1 ELSE h[r[q[1].id]].got
    BY <2>4, FirstFrame
  <2> QED
    BY <2>4, <2>5
<1> QED
  BY <1>1, InvariantHolds, PTL
=============================================================================
