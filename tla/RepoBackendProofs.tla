------------------------- MODULE RepoBackendProofs -------------------------
(***************************************************************************)
(* Theorems about RepoBackend, for every value of its constants: its type  *)
(* invariant, what it keeps on disk, and what its documents have applied.  *)
(* The last two rest on one inductive invariant, IInv.                     *)
(***************************************************************************)
EXTENDS RepoBackend, ClockProofs, WellFoundedInduction

-----------------------------------------------------------------------------
(* The operators the module is built from *)

LEMMA LeastNat ==
  ASSUME NEW T \in SUBSET Nat, T # {}
  PROVE  \E n \in T : \A m \in T : n <= m
<1>1. PICK n \in T : \A m \in T : ~(<<m, n>> \in OpToRel(<, Nat))
  BY NatLessThanWellFounded, WFMin
<1>2. \A m \in T : ~(m < n)
  BY <1>1 DEF OpToRel
<1> QED
  BY <1>2

LEMMA LargestNat ==
  ASSUME NEW n \in Nat, NEW T \in SUBSET (0..n), T # {}
  PROVE  \E k \in T : \A m \in T : m <= k
<1> DEFINE R == {n - m : m \in T}
<1>1. R \in SUBSET Nat /\ R # {}
  <2>1. ASSUME NEW m \in T
        PROVE  n - m \in Nat
    <3>1. m \in 0..n
      OBVIOUS
    <3> QED
      BY <3>1
  <2>2. PICK m \in T : TRUE
    OBVIOUS
  <2> QED
    BY <2>1, <2>2
<1>2. PICK r \in R : \A m \in R : r <= m
  BY <1>1, LeastNat
<1>3. PICK k \in T : r = n - k
  BY <1>2
<1>4. ASSUME NEW m \in T
      PROVE  m <= k
  <2>1. n - k <= n - m
    BY <1>2, <1>3
  <2> QED
    BY <2>1
<1> QED
  BY <1>4

LEMMA LargestLemma ==
  ASSUME NEW n \in Nat, NEW T \in SUBSET (0..n), T # {}
  PROVE  Largest(T) \in T /\ \A m \in T : m <= Largest(T)
BY LargestNat DEF Largest

LEMMA LogsLemma ==
  ASSUME NEW log \in Logs
  PROVE  /\ DOMAIN log \subseteq 1..MaxSeq
         /\ \A i \in DOMAIN log : log[i] \in Change
         /\ log = [i \in DOMAIN log |-> log[i]]
BY DEF Logs

LEMMA EmptyLogInLogs == EmptyLog \in Logs
<1>1. EmptyLog \in [{} -> Change]
  BY DEF EmptyLog
<1>2. {} \in SUBSET (1..MaxSeq)
  OBVIOUS
<1> QED
  BY <1>1, <1>2 DEF Logs

\* Put adds one entry and keeps the others.
LEMMA PutLemma ==
  ASSUME NEW log \in Logs, NEW i \in 1..MaxSeq, NEW c \in Change
  PROVE  /\ Put(log, i, c) \in Logs
         /\ DOMAIN Put(log, i, c) = DOMAIN log \cup {i}
         /\ Put(log, i, c)[i] = c
         /\ \A j \in DOMAIN log : j # i => Put(log, i, c)[j] = log[j]
<1>1. DOMAIN log \cup {i} \in SUBSET (1..MaxSeq)
  BY LogsLemma
<1>2. Put(log, i, c) \in [DOMAIN log \cup {i} -> Change]
  BY LogsLemma DEF Put
<1> QED
  BY <1>1, <1>2 DEF Put, Logs

\* The length of a sparse array bounds its indexes.
LEMMA LengthLemma ==
  ASSUME NEW log \in Logs
  PROVE  /\ Length(log) \in 0..MaxSeq
         /\ DOMAIN log \subseteq 1..Length(log)
         /\ Length(log) = 0 \/ Length(log) \in DOMAIN log
<1> DEFINE Ok(n) == DOMAIN log \subseteq 1..n /\ (n = 0 \/ n \in DOMAIN log)
<1>1. \E n \in 0..MaxSeq : Ok(n)
  <2>1. CASE DOMAIN log = {}
    BY <2>1, ConstantsAssumption DEF ConstantsAssumption
  <2>2. CASE DOMAIN log # {}
    <3>2. DOMAIN log \subseteq 1..MaxSeq
      BY LogsLemma
    <3>4. MaxSeq \in Nat /\ DOMAIN log \in SUBSET (0..MaxSeq)
      BY <3>2, ConstantsAssumption DEF ConstantsAssumption
    <3>1. PICK n \in DOMAIN log : \A m \in DOMAIN log : m <= n
      BY <2>2, <3>4, LargestNat
    <3>3. n \in 0..MaxSeq /\ DOMAIN log \subseteq 1..n
      BY <3>1, <3>2, ConstantsAssumption DEF ConstantsAssumption
    <3> QED
      BY <3>1, <3>3
  <2> QED
    BY <2>1, <2>2
<1>2. Length(log) \in 0..MaxSeq /\ Ok(Length(log))
  BY <1>1 DEF Length
<1> QED
  BY <1>2

\* syncChanges takes a run of consecutive blocks, within the cursor's bound.
LEMMA ReachLemma ==
  ASSUME NEW log \in Logs, NEW from \in 0..MaxSeq, NEW max \in Nat
  PROVE  /\ Reach(log, from, max) \in from..MaxSeq
         /\ \A j \in (from + 1)..Reach(log, from, max) : j <= max /\ j \in DOMAIN log
         /\ ~(Reach(log, from, max) + 1 <= max /\ Reach(log, from, max) + 1 \in DOMAIN log)
<1> USE ConstantsAssumption DEF ConstantsAssumption
<1> DEFINE Stop == {i \in Nat : i >= from /\ ~(i + 1 <= max /\ i + 1 \in DOMAIN log)}
           Ok(i) == /\ \A j \in (from + 1)..i : j <= max /\ j \in DOMAIN log
                    /\ ~(i + 1 <= max /\ i + 1 \in DOMAIN log)
<1>1. MaxSeq \in Stop
  BY LogsLemma
<1>2. PICK i \in Stop : \A k \in Stop : i <= k
  BY <1>1, LeastNat
<1>3. i \in from..(MaxSeq + from)
  BY <1>1, <1>2
<1>4. ASSUME NEW j \in (from + 1)..i
      PROVE  j <= max /\ j \in DOMAIN log
  <2>1. j - 1 \in Nat /\ j - 1 >= from /\ j - 1 < i /\ (j - 1) + 1 = j
    BY <1>3
  <2>2. ASSUME j - 1 \in Stop
        PROVE  FALSE
    <3>1. i <= j - 1
      BY <1>2, <2>2
    <3> QED
      BY <1>3, <2>1, <3>1
  <2> QED
    BY <2>1, <2>2
<1>5. \E k \in from..(MaxSeq + from) : Ok(k)
  BY <1>2, <1>3, <1>4
<1>6. Reach(log, from, max) \in from..(MaxSeq + from) /\ Ok(Reach(log, from, max))
  BY <1>5 DEF Reach
<1>7. Reach(log, from, max) <= MaxSeq
  <2>1. CASE Reach(log, from, max) = from
    BY <2>1
  <2>2. CASE Reach(log, from, max) # from
    <3>1. Reach(log, from, max) \in (from + 1)..Reach(log, from, max)
      BY <1>6, <2>2
    <3> QED
      BY <1>6, <3>1, LogsLemma
  <2> QED
    BY <2>1, <2>2
<1> QED
  BY <1>6, <1>7

\* Frontend.change numbers a request with a positive number.
LEMMA NextSeqLemma ==
  ASSUME NEW d \in Docs, back[d] \subseteq Change
  PROVE  /\ NextSeq(d) \in 1..(MaxSeq + 1)
         /\ \A c \in back[d] : c.actor = docActor[d] => c.seq < NextSeq(d)
<1> USE ConstantsAssumption DEF ConstantsAssumption
<1> DEFINE Above == {n \in Nat : n >= 1 /\ \A c \in back[d] : c.actor = docActor[d] => c.seq < n}
           Ok(n) == /\ \A c \in back[d] : c.actor = docActor[d] => c.seq < n
                    /\ n = 1 \/ \E c \in back[d] : c.actor = docActor[d] /\ c.seq = n - 1
<1>1. \A c \in back[d] : c.seq \in 1..MaxSeq
  BY DEF Change
<1>2. MaxSeq + 1 \in Above
  BY <1>1
<1>3. PICK n \in Above : \A m \in Above : n <= m
  BY ZenonT(40), <1>2, LeastNat
<1>4. n \in 1..(MaxSeq + 1)
  BY <1>2, <1>3
<1>5. ASSUME n # 1
      PROVE  \E c \in back[d] : c.actor = docActor[d] /\ c.seq = n - 1
  <2>1. n - 1 \in Nat /\ n - 1 >= 1 /\ ~(n <= n - 1)
    BY <1>4, <1>5
  <2>2. n - 1 \notin Above
    BY <1>3, <2>1
  <2>3. PICK c \in back[d] : c.actor = docActor[d] /\ ~(c.seq < n - 1)
    BY <2>1, <2>2
  <2>4. c.seq < n
    BY <1>3, <2>3
  <2>5. c.seq = n - 1
    BY <1>1, <1>4, <2>3, <2>4
  <2> QED
    BY <2>3, <2>5
<1>6. \E m \in 1..(MaxSeq + 1) : Ok(m)
  BY <1>3, <1>4, <1>5
<1>7. NextSeq(d) \in 1..(MaxSeq + 1) /\ Ok(NextSeq(d))
  BY <1>6 DEF NextSeq
<1> QED
  BY <1>7

\* The clock of a set of changes is a clock over their actors.
LEMMA ClockOfLemma ==
  ASSUME NEW S \in SUBSET Change
  PROVE  ClockOf(S) \in ClocksOver(Actors, 0..MaxSeq)
<1> USE ConstantsAssumption DEF ConstantsAssumption
<1> DEFINE D       == {c.actor : c \in S}
           Seqs(a) == {c.seq : c \in {x \in S : x.actor = a}}
<1>1. D \in SUBSET Actors
  BY DEF Change
<1>2. ClockOf(S) = [a \in D |-> Largest(Seqs(a))]
  BY DEF ClockOf
<1>3. \A a \in D : Seqs(a) \in SUBSET (0..MaxSeq) /\ Seqs(a) # {}
  <2>1. \A c \in S : c.seq \in 0..MaxSeq
    BY DEF Change
  <2> QED
    BY <2>1
<1> HIDE DEF D, Seqs
<1>4. \A a \in D : Largest(Seqs(a)) \in 0..MaxSeq
  BY <1>3, LargestLemma
<1>5. ClockOf(S) \in [D -> 0..MaxSeq]
  BY <1>2, <1>4
<1> QED
  BY <1>1, <1>5 DEF ClocksOver

\* What syncChanges counts for one document.
LEMMA PulledLemma ==
  ASSUME NEW A \in SUBSET Actors, NEW had \in [Actors -> 0..MaxSeq],
         NEW log \in [Actors -> Logs], NEW cursor \in ClocksOver(Actors, 0..Infinity)
  PROVE  /\ Pulled(A, had, log, cursor) \in [Actors -> 0..MaxSeq]
         /\ \A a \in Actors :
              /\ Pulled(A, had, log, cursor)[a] >= had[a]
              /\ \A i \in (had[a] + 1)..Pulled(A, had, log, cursor)[a] :
                   i <= At(cursor, a) /\ i \in DOMAIN log[a]
         /\ \A a \in Actors \ A : Pulled(A, had, log, cursor)[a] = had[a]
<1> USE ConstantsAssumption DEF ConstantsAssumption
<1>1. \A a \in Actors : At(cursor, a) \in Nat
  <2>1. \A a \in DOMAIN cursor : cursor[a] \in 0..Infinity
    BY ClocksOverAreClocks
  <2> QED
    BY <2>1 DEF At
<1>2. ASSUME NEW a \in Actors
      PROVE  /\ Reach(log[a], had[a], At(cursor, a)) \in had[a]..MaxSeq
             /\ \A j \in (had[a] + 1)..Reach(log[a], had[a], At(cursor, a)) :
                  j <= At(cursor, a) /\ j \in DOMAIN log[a]
  BY <1>1, ReachLemma
<1>3. \A a \in Actors : had[a] \in 0..MaxSeq
  OBVIOUS
<1>4. ASSUME NEW a \in Actors
      PROVE  /\ Pulled(A, had, log, cursor)[a] \in 0..MaxSeq
             /\ Pulled(A, had, log, cursor)[a] >= had[a]
             /\ \A i \in (had[a] + 1)..Pulled(A, had, log, cursor)[a] :
                  i <= At(cursor, a) /\ i \in DOMAIN log[a]
  <2>1. CASE a \in A
    BY <1>2, <1>3, <2>1 DEF Pulled
  <2>2. CASE a \notin A
    <3>1. Pulled(A, had, log, cursor)[a] = had[a]
      BY <2>2 DEF Pulled
    <3> QED
      BY <1>3, <3>1
  <2> QED
    BY <2>1, <2>2
<1> QED
  BY <1>4 DEF Pulled

\* The changes of indexes that are in the logs are changes.
LEMMA CollectedLemma ==
  ASSUME NEW had \in [Actors -> 0..MaxSeq], NEW has \in [Actors -> 0..MaxSeq],
         NEW log \in [Actors -> Logs],
         \A a \in Actors : \A i \in (had[a] + 1)..has[a] : i \in DOMAIN log[a]
  PROVE  Collected(had, has, log) \subseteq Change
<1>1. \A a \in Actors : \A i \in DOMAIN log[a] : log[a][i] \in Change
  BY LogsLemma
<1> QED
  BY <1>1 DEF Collected

-----------------------------------------------------------------------------
(* The shared parts of the actions *)

LEMMA NotifyLemma ==
  ASSUME TypeOK, NEW patched \in SUBSET Docs, NEW readied, NEW given, NEW clocks,
         Notify(patched, readied, given, clocks)
  PROVE  hasClock' \subseteq Docs /\ rendered' \in [Docs -> BOOLEAN]
BY DEF Notify, TypeOK

\* The changes that syncChanges counts, it hands to Automerge.
LEMMA SyncChangesLemma ==
  ASSUME TypeOK,
         NEW A \in SUBSET Actors, NEW written \in SUBSET Docs,
         NEW given \in [Docs -> SUBSET Change], NEW log \in [Actors -> Logs],
         NEW cursor \in [Docs -> ClocksOver(Actors, 0..Infinity)], NEW clocks,
         SyncChanges(A, written, given, log, cursor, clocks)
  PROVE  /\ readyQ' \in [Docs -> SUBSET Actors]
         /\ docChanges' \in [Docs -> [Actors -> 0..MaxSeq]]
         /\ back' \in [Docs -> SUBSET Change]
         /\ hasClock' \subseteq Docs
         /\ rendered' \in [Docs -> BOOLEAN]
         /\ \A d \in Docs : given[d] \subseteq back'[d]
         /\ \A d \in Docs, a \in Actors :
              /\ docChanges'[d][a] >= docChanges[d][a]
              /\ \A i \in (docChanges[d][a] + 1)..docChanges'[d][a] :
                   i \in DOMAIN log[a] /\ log[a][i] \in back'[d]
<1> DEFINE due == [d \in Docs |-> A \cap DOMAIN cursor[d]]
<1>1. due \in [Docs -> SUBSET Actors]
  OBVIOUS
<1>2. /\ readyQ' = [d \in Docs |-> IF IsLoading(d) THEN readyQ[d] \cup due[d] ELSE readyQ[d]]
      /\ docChanges' = [d \in Docs |->
           IF docState[d] = "ready"
           THEN Pulled(due[d], docChanges[d], log, cursor[d])
           ELSE docChanges[d]]
      /\ back' = [d \in Docs |-> given[d] \cup Collected(docChanges[d], docChanges'[d], log)]
      /\ Notify(written \cup {d \in Docs : docChanges'[d] # docChanges[d]}, {}, back', clocks)
  BY DEF SyncChanges
<1> HIDE DEF due
<1>3. docChanges \in [Docs -> [Actors -> 0..MaxSeq]] /\ readyQ \in [Docs -> SUBSET Actors]
  BY DEF TypeOK
<1>4. ASSUME NEW d \in Docs
      PROVE  /\ docChanges'[d] \in [Actors -> 0..MaxSeq]
             /\ \A a \in Actors :
                  /\ docChanges'[d][a] >= docChanges[d][a]
                  /\ \A i \in (docChanges[d][a] + 1)..docChanges'[d][a] : i \in DOMAIN log[a]
  <2>1. CASE docState[d] = "ready"
    <3>1. docChanges'[d] = Pulled(due[d], docChanges[d], log, cursor[d])
      BY <1>2, <2>1
    <3>2. due[d] \in SUBSET Actors /\ docChanges[d] \in [Actors -> 0..MaxSeq]
      BY <1>1, <1>3
    <3>3. cursor[d] \in ClocksOver(Actors, 0..Infinity)
      OBVIOUS
    <3> DEFINE has == Pulled(due[d], docChanges[d], log, cursor[d])
    <3>4. /\ has \in [Actors -> 0..MaxSeq]
          /\ \A a \in Actors :
               /\ has[a] >= docChanges[d][a]
               /\ \A i \in (docChanges[d][a] + 1)..has[a] : i \in DOMAIN log[a]
      BY <3>2, <3>3, PulledLemma
    <3>5. docChanges'[d] = has
      BY <3>1
    <3> HIDE DEF has
    <3> QED
      BY <3>4, <3>5
  <2>2. CASE docState[d] # "ready"
    <3>1. docChanges'[d] = docChanges[d]
      BY <1>2, <2>2
    <3> QED
      BY <1>3, <3>1
  <2> QED
    BY <2>1, <2>2
<1>5. readyQ' \in [Docs -> SUBSET Actors]
  BY <1>1, <1>2, <1>3
<1>6. docChanges' \in [Docs -> [Actors -> 0..MaxSeq]]
  <2>1. docChanges' = [d \in Docs |-> docChanges'[d]]
    BY <1>2
  <2> QED
    BY <1>4, <2>1
<1>7. ASSUME NEW d \in Docs
      PROVE  Collected(docChanges[d], docChanges'[d], log) \subseteq Change
  BY <1>3, <1>4, CollectedLemma
<1>8. back' \in [Docs -> SUBSET Change]
  BY <1>2, <1>7
<1>9. \A d \in Docs, a \in Actors : \A i \in (docChanges[d][a] + 1)..docChanges'[d][a] :
        log[a][i] \in Collected(docChanges[d], docChanges'[d], log)
  BY DEF Collected
<1>10. \A d \in Docs : /\ given[d] \subseteq back'[d]
                       /\ Collected(docChanges[d], docChanges'[d], log) \subseteq back'[d]
  BY <1>2
<1>11. hasClock' \subseteq Docs /\ rendered' \in [Docs -> BOOLEAN]
  BY <1>2, NotifyLemma
<1> QED
  BY <1>4, <1>5, <1>6, <1>8, <1>9, <1>10, <1>11

\* The same for a document that is initialised and drains doc.ready.
LEMMA DocInitLemma ==
  ASSUME TypeOK, NEW d \in Docs, NEW holed \in BOOLEAN,
         NEW slices \in SUBSET Change, NEW sliced \in [Actors -> 0..MaxSeq],
         NEW cursor \in ClocksOver(Actors, 0..Infinity),
         DocInit(d, holed, slices, sliced, cursor)
  PROVE  /\ docState' = [docState EXCEPT ![d] = IF holed THEN "failed" ELSE "ready"]
         /\ readyQ' \in [Docs -> SUBSET Actors]
         /\ docChanges' \in [Docs -> [Actors -> 0..MaxSeq]]
         /\ back' \in [Docs -> SUBSET Change]
         /\ hasClock' \subseteq Docs
         /\ rendered' \in [Docs -> BOOLEAN]
         /\ \A e \in Docs \ {d} : docChanges'[e] = docChanges[e] /\ back'[e] = back[e]
         /\ ~holed => /\ slices \subseteq back'[d]
                      /\ \A a \in Actors :
                           /\ docChanges'[d][a] >= sliced[a]
                           /\ \A i \in (sliced[a] + 1)..docChanges'[d][a] :
                                i \in DOMAIN changes[a] /\ changes[a][i] \in back'[d]
<1>1. CASE holed
  <2>1. /\ docState' = [docState EXCEPT ![d] = "failed"]
        /\ docChanges' = [docChanges EXCEPT ![d] = sliced]
        /\ back' = back
        /\ UNCHANGED <<readyQ, hasClock, rendered>>
    BY <1>1 DEF DocInit
  <2>2. docChanges' \in [Docs -> [Actors -> 0..MaxSeq]]
    BY <2>1 DEF TypeOK
  <2>3. \A e \in Docs \ {d} : docChanges'[e] = docChanges[e] /\ back'[e] = back[e]
    BY <2>1 DEF TypeOK
  <2>4. /\ readyQ' \in [Docs -> SUBSET Actors]
        /\ back' \in [Docs -> SUBSET Change]
        /\ hasClock' \subseteq Docs
        /\ rendered' \in [Docs -> BOOLEAN]
    BY <2>1 DEF TypeOK
  <2> QED
    BY <1>1, <2>1, <2>2, <2>3, <2>4
<1>2. CASE ~holed
  <2> DEFINE has == Pulled(readyQ[d], sliced, changes, cursor)
             got == Collected(sliced, docChanges'[d], changes)
  <2>1. /\ docState' = [docState EXCEPT ![d] = "ready"]
        /\ docChanges' = [docChanges EXCEPT ![d] = has]
        /\ back' = [back EXCEPT ![d] = slices \cup got]
        /\ readyQ' = [readyQ EXCEPT ![d] = {}]
        /\ Notify(IF docChanges'[d] # sliced THEN {d} ELSE {}, {d}, back', peerClocks)
    BY <1>2 DEF DocInit
  <2>2. readyQ[d] \in SUBSET Actors /\ changes \in [Actors -> Logs]
    BY DEF TypeOK
  <2>3. /\ has \in [Actors -> 0..MaxSeq]
        /\ \A a \in Actors :
             /\ has[a] >= sliced[a]
             /\ \A i \in (sliced[a] + 1)..has[a] : i \in DOMAIN changes[a]
    BY <2>2, PulledLemma
  <2> HIDE DEF has
  <2>4. docChanges'[d] = has
    BY <2>1 DEF TypeOK
  <2>5. got \subseteq Change
    BY <2>2, <2>3, <2>4, CollectedLemma
  <2>6. \A a \in Actors : \A i \in (sliced[a] + 1)..docChanges'[d][a] : changes[a][i] \in got
    BY DEF Collected
  <2> HIDE DEF got
  <2>7. back'[d] = slices \cup got
    BY <2>1 DEF TypeOK
  <2>8. hasClock' \subseteq Docs /\ rendered' \in [Docs -> BOOLEAN]
    BY <2>1, NotifyLemma
  <2>9. /\ readyQ' \in [Docs -> SUBSET Actors]
        /\ docChanges' \in [Docs -> [Actors -> 0..MaxSeq]]
        /\ back' \in [Docs -> SUBSET Change]
    BY <2>1, <2>3, <2>5 DEF TypeOK
  <2>10. \A e \in Docs \ {d} : docChanges'[e] = docChanges[e] /\ back'[e] = back[e]
    BY <2>1 DEF TypeOK
  <2> QED
    BY <1>2, <2>1, <2>3, <2>4, <2>6, <2>7, <2>8, <2>9, <2>10
<1> QED
  BY <1>1, <1>2

LEMMA EntryInClocksOver ==
  ASSUME NEW a \in Actors
  PROVE  Entry(a, Infinity) \in ClocksOver(Actors, 0..Infinity)
<1>1. Infinity \in 0..Infinity
  BY ConstantsAssumption DEF ConstantsAssumption
<1>2. Entry(a, Infinity) \in [{a} -> 0..Infinity]
  BY <1>1 DEF Entry
<1> QED
  BY <1>2 DEF ClocksOver

LEMMA BoundedIsInClocksOver ==
  ASSUME NEW c \in ClocksOver(Actors, 0..MaxSeq)
  PROVE  c \in ClocksOver(Actors, 0..Infinity)
<1>1. 0..MaxSeq \subseteq 0..Infinity
  BY ConstantsAssumption DEF ConstantsAssumption
<1>2. PICK D \in SUBSET Actors : c \in [D -> 0..MaxSeq]
  BY DEF ClocksOver
<1>3. c \in [D -> 0..Infinity]
  BY <1>1, <1>2
<1> QED
  BY <1>3 DEF ClocksOver

\* Widening one cursor.
LEMMA WidenLemma ==
  ASSUME TypeOK, NEW d \in Docs, NEW c \in ClocksOver(Actors, 0..Infinity)
  PROVE  [cursors EXCEPT ![d] = Union(@, c)] \in [Docs -> ClocksOver(Actors, 0..Infinity)]
<1>1. cursors[d] \in ClocksOver(Actors, 0..Infinity)
  BY DEF TypeOK
<1>2. 0..Infinity \in SUBSET Nat
  BY ConstantsAssumption DEF ConstantsAssumption
<1>3. Union(cursors[d], c) \in ClocksOver(Actors, 0..Infinity)
  BY <1>1, <1>2, UnionInClocksOver
<1> QED
  BY <1>3 DEF TypeOK

LEMMA AddActorLemma ==
  ASSUME TypeOK, NEW d \in Docs, NEW a \in Actors
  PROVE  /\ AddActor(d, a) \in [Docs -> ClocksOver(Actors, 0..Infinity)]
         /\ DOMAIN AddActor(d, a)[d] \subseteq Actors
<1>1. AddActor(d, a) \in [Docs -> ClocksOver(Actors, 0..Infinity)]
  BY EntryInClocksOver, WidenLemma DEF AddActor
<1>2. 0..Infinity \in SUBSET Nat
  BY ConstantsAssumption DEF ConstantsAssumption
<1> QED
  BY <1>1, <1>2, ClocksOverAreClocks

\* The slices loadDocument takes.
LEMMA SliceLemma ==
  ASSUME TypeOK, NEW d \in Docs
  PROVE  /\ \A a \in Actors : SliceLength(d, a) \in 0..MaxSeq
         /\ Slices(d) \subseteq Change
         /\ \A a \in Actors : \A i \in (1..SliceLength(d, a)) \cap DOMAIN changes[a] :
              changes[a][i] \in Slices(d)
<1>1. \A a \in Actors : changes[a] \in Logs
  BY DEF TypeOK
<1>2. \A a \in Actors : Length(changes[a]) \in 0..MaxSeq
  BY <1>1, LengthLemma
<1>3. \A a \in Actors : At(cursors[d], a) \in Nat
  <2>1. 0..Infinity \in SUBSET Nat /\ cursors[d] \in ClocksOver(Actors, 0..Infinity)
    BY ConstantsAssumption DEF ConstantsAssumption, TypeOK
  <2>2. \A a \in DOMAIN cursors[d] : cursors[d][a] \in 0..Infinity
    BY <2>1, ClocksOverAreClocks
  <2> QED
    BY <2>1, <2>2 DEF At
<1>4. \A a \in Actors : SliceLength(d, a) \in 0..MaxSeq
  BY <1>2, <1>3, ConstantsAssumption DEF ConstantsAssumption, SliceLength
<1>5. \A a \in Actors : \A i \in DOMAIN changes[a] : changes[a][i] \in Change
  BY <1>1, LogsLemma
<1> QED
  BY <1>4, <1>5 DEF Slices

-----------------------------------------------------------------------------
(* Type correctness *)

\* The part of the type invariant that is needed to prove it: a document that
\* is past localActorId has an actor, and only our own feeds are created.
ActorsKnown ==
  /\ \A d \in Docs : docState[d] \in {"sliced", "holed", "ready"} => docActor[d] \in LocalActors
  /\ \A a \in Actors : actorState[a] = "creating" => a \in LocalActors

TypeInv == TypeOK /\ ActorsKnown

LEMMA TypeInvInit == Init => TypeInv
<1> SUFFICES ASSUME Init
             PROVE  TypeInv
  OBVIOUS
<1> USE ConstantsAssumption DEF ConstantsAssumption
<1>1. EmptyLog \in Logs
  BY EmptyLogInLogs
<1>2. \A S : EmptyClock \in ClocksOver(Actors, S)
  <2>1. \A S : EmptyClock \in [{} -> S]
    BY DEF EmptyClock
  <2>2. \A S : [{} -> S] \in {[D -> S] : D \in SUBSET Actors}
    OBVIOUS
  <2> QED
    BY <2>1, <2>2 DEF ClocksOver
<1>3. 0 \in 0..MaxSeq /\ 0 \in 0..MaxRestarts
  OBVIOUS
<1>4. NoChanges \in [Actors -> 0..MaxSeq]
  BY <1>3 DEF NoChanges
<1>5. TypeOK
  BY <1>1, <1>2, <1>3, <1>4 DEF Init, TypeOK
<1>6. ActorsKnown
  BY DEF Init, ActorsKnown
<1> QED
  BY <1>5, <1>6 DEF TypeInv

LEMMA TypeInvCreate ==
  ASSUME TypeInv, NEW d \in Docs, Create(d)
  PROVE  TypeInv'
<1>1. d \in Actors
  BY ConstantsAssumption DEF ConstantsAssumption
<1>2. cursors' \in [Docs -> ClocksOver(Actors, 0..Infinity)]
  BY <1>1, AddActorLemma DEF Create, TypeInv
<1>3. TypeOK'
  BY <1>2 DEF Create, TypeInv, TypeOK, histVars
<1>4. ActorsKnown'
  BY DEF Create, TypeInv, ActorsKnown, TypeOK
<1> QED
  BY <1>3, <1>4 DEF TypeInv

LEMMA TypeInvOpen ==
  ASSUME TypeInv, NEW d \in Docs, Open(d)
  PROVE  TypeInv'
<1>1. d \in Actors
  BY ConstantsAssumption DEF ConstantsAssumption
<1>2. /\ cursors' \in [Docs -> ClocksOver(Actors, 0..Infinity)]
      /\ DOMAIN cursors'[d] \subseteq Actors
  BY <1>1, AddActorLemma DEF Open, TypeInv
<1>3. TypeOK'
  BY <1>2 DEF Open, TypeInv, TypeOK, histVars
<1>4. ActorsKnown'
  BY DEF Open, TypeInv, ActorsKnown, TypeOK
<1> QED
  BY <1>3, <1>4 DEF TypeInv

LEMMA TypeInvNeedsActorId ==
  ASSUME TypeInv, NEW d \in Docs, NEW fresh \in LocalActors, NeedsActorId(d, fresh)
  PROVE  TypeInv'
<1>1. fresh \in Actors
  BY DEF Actors
<1>2. cursors' \in [Docs -> ClocksOver(Actors, 0..Infinity)]
  BY <1>1, AddActorLemma DEF NeedsActorId, TypeInv
<1>3. TypeOK'
  BY <1>2 DEF NeedsActorId, TypeInv, TypeOK, docVars, histVars
<1>4. ActorsKnown'
  BY DEF NeedsActorId, TypeInv, ActorsKnown, TypeOK, docVars
<1> QED
  BY <1>3, <1>4 DEF TypeInv

LEMMA TypeInvRequest ==
  ASSUME TypeInv, NEW d \in Docs, Request(d)
  PROVE  TypeInv'
<1> DEFINE a   == docActor[d]
           c   == [actor |-> a, seq |-> NextSeq(d), doc |-> d]
           log == [changes EXCEPT ![a] = Put(@, NextIndex(a), c)]
           given == [back EXCEPT ![d] = @ \cup {c}]
<1>1. a \in LocalActors /\ a \in Actors
  BY DEF Request, TypeInv, ActorsKnown, Actors
<1>2. back[d] \subseteq Change /\ changes[a] \in Logs
  BY <1>1 DEF TypeInv, TypeOK
<1>3. c \in Change
  <2>1. NextSeq(d) \in 1..(MaxSeq + 1) /\ NextSeq(d) <= MaxSeq
    BY <1>2, NextSeqLemma DEF Request
  <2>2. NextSeq(d) \in 1..MaxSeq
    BY <2>1, ConstantsAssumption DEF ConstantsAssumption
  <2> QED
    BY <1>1, <2>2 DEF Change
<1>4. NextIndex(a) \in 1..MaxSeq
  <2>1. Length(changes[a]) \in 0..MaxSeq /\ NextIndex(a) <= MaxSeq
    BY <1>2, LengthLemma DEF Request
  <2> QED
    BY <2>1, ConstantsAssumption DEF ConstantsAssumption, NextIndex
<1>5. Put(changes[a], NextIndex(a), c) \in Logs
  BY <1>2, <1>3, <1>4, PutLemma
<1>6. log \in [Actors -> Logs] /\ given \in [Docs -> SUBSET Change]
  BY <1>3, <1>5 DEF TypeInv, TypeOK
<1>7. changes' = log /\ SyncChanges({a}, {d}, given, log, cursors, peerClocks)
  BY DEF Request
<1> HIDE DEF c, log, given
<1>8. /\ readyQ' \in [Docs -> SUBSET Actors]
      /\ docChanges' \in [Docs -> [Actors -> 0..MaxSeq]]
      /\ back' \in [Docs -> SUBSET Change]
      /\ hasClock' \subseteq Docs
      /\ rendered' \in [Docs -> BOOLEAN]
  <2>1. cursors \in [Docs -> ClocksOver(Actors, 0..Infinity)] /\ {a} \in SUBSET Actors /\ {d} \in SUBSET Docs
    BY <1>1 DEF TypeInv, TypeOK
  <2> QED
    BY <1>6, <1>7, <2>1, SyncChangesLemma DEF TypeInv
<1>9. UNCHANGED <<cursors, peerClocks, feedInfo, owned, blocks, feedLength, restarts,
                  published, histVars, actorState, streamEnd, syncWait, unsynced,
                  docState, docActor, loadIds>>
  BY DEF Request
<1>10. TypeOK'
  BY <1>6, <1>7, <1>8, <1>9 DEF TypeInv, TypeOK, histVars
<1>11. ActorsKnown'
  BY <1>9 DEF TypeInv, ActorsKnown
<1> QED
  BY <1>10, <1>11 DEF TypeInv

LEMMA SyncReadyActorsLemma ==
  ASSUME TypeInv, NEW ids \in SUBSET Actors,
         NEW cursor \in [Docs -> ClocksOver(Actors, 0..Infinity)], NEW clocks,
         SyncReadyActors(ids, cursor, clocks),
         UNCHANGED <<docState, docActor>>
  PROVE  /\ actorState' \in [Actors -> {"none", "creating", "opening", "streaming", "ready"}]
         /\ syncWait' \subseteq Actors
         /\ readyQ' \in [Docs -> SUBSET Actors]
         /\ docChanges' \in [Docs -> [Actors -> 0..MaxSeq]]
         /\ back' \in [Docs -> SUBSET Change]
         /\ hasClock' \subseteq Docs
         /\ rendered' \in [Docs -> BOOLEAN]
         /\ ActorsKnown'
<1> DEFINE ready == {a \in ids : actorState[a] = "ready"}
<1>1. /\ actorState' = [a \in Actors |->
           IF a \in ids /\ actorState[a] = "none" THEN "opening" ELSE actorState[a]]
      /\ syncWait' = syncWait \cup (ids \ ready)
      /\ SyncChanges(ready, {}, back, changes, cursor, clocks)
  BY DEF SyncReadyActors
<1>2. /\ ready \in SUBSET Actors /\ {} \in SUBSET Docs
      /\ back \in [Docs -> SUBSET Change] /\ changes \in [Actors -> Logs]
  BY DEF TypeInv, TypeOK
<1>3. /\ readyQ' \in [Docs -> SUBSET Actors]
      /\ docChanges' \in [Docs -> [Actors -> 0..MaxSeq]]
      /\ back' \in [Docs -> SUBSET Change]
      /\ hasClock' \subseteq Docs
      /\ rendered' \in [Docs -> BOOLEAN]
  BY <1>1, <1>2, SyncChangesLemma DEF TypeInv
<1>4. /\ actorState' \in [Actors -> {"none", "creating", "opening", "streaming", "ready"}]
      /\ syncWait' \subseteq Actors
  BY <1>1 DEF TypeInv, TypeOK
<1>5. ActorsKnown'
  BY <1>1 DEF TypeInv, TypeOK, ActorsKnown
<1> QED
  BY <1>3, <1>4, <1>5

LEMMA TypeInvMerge ==
  ASSUME TypeInv, NEW d \in Docs, NEW src \in Docs, Merge(d, src)
  PROVE  TypeInv'
<1> DEFINE clock == ClockOf(back[src])
<1>1. back[src] \in SUBSET Change
  BY DEF TypeInv, TypeOK
<1>2. clock \in ClocksOver(Actors, 0..MaxSeq)
  BY <1>1, ClockOfLemma
<1>3. 0..MaxSeq \in SUBSET Nat
  BY ConstantsAssumption DEF ConstantsAssumption
<1> HIDE DEF clock
<1>4. clock \in ClocksOver(Actors, 0..Infinity) /\ DOMAIN clock \in SUBSET Actors
  BY <1>2, <1>3, BoundedIsInClocksOver, ClocksOverAreClocks
<1>5. /\ cursors' = [cursors EXCEPT ![d] = Union(@, clock)]
      /\ SyncReadyActors(DOMAIN clock, cursors', peerClocks)
      /\ UNCHANGED <<peerClocks, feedInfo, owned, blocks, feedLength, restarts, published, borrowed,
                     changes, streamEnd, unsynced, docState, docActor, loadIds>>
      /\ brought' = [brought EXCEPT ![d] = @ \cup (DOMAIN clock \ DOMAIN cursors[d])]
  BY DEF Merge, Brought, clock
<1>6. cursors' \in [Docs -> ClocksOver(Actors, 0..Infinity)]
  BY <1>4, <1>5, WidenLemma DEF TypeInv
<1>7. /\ actorState' \in [Actors -> {"none", "creating", "opening", "streaming", "ready"}]
      /\ syncWait' \subseteq Actors
      /\ readyQ' \in [Docs -> SUBSET Actors]
      /\ docChanges' \in [Docs -> [Actors -> 0..MaxSeq]]
      /\ back' \in [Docs -> SUBSET Change]
      /\ hasClock' \subseteq Docs
      /\ rendered' \in [Docs -> BOOLEAN]
      /\ ActorsKnown'
  BY <1>4, <1>5, <1>6, SyncReadyActorsLemma
<1>8. brought' \in [Docs -> SUBSET Actors]
  BY <1>4, <1>5 DEF TypeInv, TypeOK
<1>9. TypeOK'
  BY <1>5, <1>6, <1>7, <1>8 DEF TypeInv, TypeOK
<1> QED
  BY <1>7, <1>9 DEF TypeInv

LEMMA TypeInvLoadReuse ==
  ASSUME TypeInv, NEW d \in Docs, NEW a \in LocalActors, LoadReuse(d, a)
  PROVE  TypeInv'
<1> DEFINE sliced == [x \in Actors |-> SliceLength(d, x)]
<1>1. sliced \in [Actors -> 0..MaxSeq] /\ Slices(d) \subseteq Change
  BY SliceLemma DEF TypeInv
<1>2. /\ docState' = [docState EXCEPT ![d] = IF HasHole(d) THEN "holed" ELSE "sliced"]
      /\ docActor' = [docActor EXCEPT ![d] = a]
      /\ docChanges' = [docChanges EXCEPT ![d] = sliced]
      /\ back' = [back EXCEPT ![d] = Slices(d)]
      /\ UNCHANGED <<storeVars, published, brought, actorVars, readyQ, loadIds, rendered>>
      /\ borrowed' = IF a \in brought[d] THEN borrowed \cup {d} ELSE borrowed
  BY DEF LoadReuse
<1> HIDE DEF sliced
<1>3. TypeOK'
  BY <1>1, <1>2 DEF TypeInv, TypeOK, storeVars, actorVars, histVars
<1>4. ActorsKnown'
  BY <1>2 DEF TypeInv, TypeOK, ActorsKnown, actorVars
<1> QED
  BY <1>3, <1>4 DEF TypeInv

LEMMA TypeInvLoadInit ==
  ASSUME TypeInv, NEW d \in Docs, LoadInit(d)
  PROVE  TypeInv'
<1> DEFINE holed == docState[d] = "holed"
<1>1. /\ DocInit(d, holed, back[d], docChanges[d], cursors[d])
      /\ docState[d] \in {"sliced", "holed"}
      /\ UNCHANGED <<cursors, peerClocks, feedInfo, owned, blocks, feedLength, restarts,
                     published, histVars, actorVars, docActor, loadIds>>
  BY DEF LoadInit, CanInit
<1>2. /\ holed \in BOOLEAN
      /\ back[d] \in SUBSET Change /\ docChanges[d] \in [Actors -> 0..MaxSeq]
      /\ cursors[d] \in ClocksOver(Actors, 0..Infinity)
  BY DEF TypeInv, TypeOK
<1> HIDE DEF holed
<1>3. /\ docState' = [docState EXCEPT ![d] = IF holed THEN "failed" ELSE "ready"]
      /\ readyQ' \in [Docs -> SUBSET Actors]
      /\ docChanges' \in [Docs -> [Actors -> 0..MaxSeq]]
      /\ back' \in [Docs -> SUBSET Change]
      /\ hasClock' \subseteq Docs
      /\ rendered' \in [Docs -> BOOLEAN]
  BY <1>1, <1>2, DocInitLemma DEF TypeInv
<1>4. TypeOK'
  BY <1>1, <1>3 DEF TypeInv, TypeOK, actorVars, histVars
<1>5. ActorsKnown'
  BY <1>1, <1>3 DEF TypeInv, TypeOK, ActorsKnown, actorVars
<1> QED
  BY <1>4, <1>5 DEF TypeInv

LEMMA TypeInvLoadFresh ==
  ASSUME TypeInv, NEW d \in Docs, NEW fresh \in LocalActors, LoadFresh(d, fresh)
  PROVE  TypeInv'
<1> DEFINE holed  == HasHole(d)
           sliced == [x \in Actors |-> SliceLength(d, x)]
<1>1. sliced \in [Actors -> 0..MaxSeq] /\ Slices(d) \in SUBSET Change
  BY SliceLemma DEF TypeInv
<1>2. holed \in BOOLEAN
  BY DEF HasHole
<1>3. /\ cursors' = AddActor(d, fresh)
      /\ actorState' = [actorState EXCEPT ![fresh] = "creating"]
      /\ docActor' = [docActor EXCEPT ![d] = fresh]
      /\ DocInit(d, holed, Slices(d), sliced, cursors'[d])
      /\ UNCHANGED <<peerClocks, feedInfo, owned, blocks, feedLength, restarts, published, histVars,
                     changes, streamEnd, syncWait, unsynced, loadIds>>
  BY DEF LoadFresh
<1> HIDE DEF holed, sliced
<1>4. fresh \in Actors
  BY DEF Actors
<1>5. cursors' \in [Docs -> ClocksOver(Actors, 0..Infinity)]
  BY <1>3, <1>4, AddActorLemma DEF TypeInv
<1>6. /\ docState' = [docState EXCEPT ![d] = IF holed THEN "failed" ELSE "ready"]
      /\ readyQ' \in [Docs -> SUBSET Actors]
      /\ docChanges' \in [Docs -> [Actors -> 0..MaxSeq]]
      /\ back' \in [Docs -> SUBSET Change]
      /\ hasClock' \subseteq Docs
      /\ rendered' \in [Docs -> BOOLEAN]
  <2>1. cursors'[d] \in ClocksOver(Actors, 0..Infinity)
    BY <1>5
  <2> QED
    BY <1>1, <1>2, <1>3, <2>1, DocInitLemma DEF TypeInv
<1>7. TypeOK'
  BY <1>3, <1>5, <1>6 DEF TypeInv, TypeOK, histVars
<1>8. ActorsKnown'
  BY <1>3, <1>6 DEF TypeInv, TypeOK, ActorsKnown
<1> QED
  BY <1>7, <1>8 DEF TypeInv

LEMMA TypeInvFeedReady ==
  ASSUME TypeInv, NEW a \in Actors, FeedReady(a)
  PROVE  TypeInv'
<1>1. TypeOK'
  BY DEF FeedReady, StreamLength, TypeInv, TypeOK, ActorsKnown, docVars, histVars
<1>2. ActorsKnown'
  BY DEF FeedReady, TypeInv, TypeOK, ActorsKnown, docVars
<1> QED
  BY <1>1, <1>2 DEF TypeInv

LEMMA TypeInvStreamEnd ==
  ASSUME TypeInv, NEW a \in Actors, StreamEnd(a)
  PROVE  TypeInv'
<1> DEFINE from == [i \in 1..streamEnd[a] |-> blocks[a][i]]
           read == [i \in DOMAIN changes[a] \cup DOMAIN from |->
                      IF i \in DOMAIN from THEN from[i] ELSE changes[a][i]]
           log  == [changes EXCEPT ![a] = read]
           due  == IF streamEnd[a] > 0 \/ a \in syncWait THEN {a} ELSE {}
<1>1. /\ 1..streamEnd[a] \subseteq DOMAIN blocks[a]
      /\ actorState' = [actorState EXCEPT ![a] = "ready"]
      /\ changes' = log
      /\ syncWait' = syncWait \ {a}
      /\ SyncChanges(due, {}, back, log, cursors, peerClocks)
      /\ UNCHANGED <<cursors, peerClocks, feedInfo, owned, blocks, feedLength, restarts,
                     published, histVars, streamEnd, unsynced, docState, docActor, loadIds>>
  BY DEF StreamEnd
<1>2. read \in Logs
  <2>1. changes[a] \in Logs /\ blocks[a] \in Logs
    BY DEF TypeInv, TypeOK
  <2>2. DOMAIN read \in SUBSET (1..MaxSeq)
    BY <1>1, <2>1, LogsLemma
  <2>3. \A i \in DOMAIN read : read[i] \in Change
    BY <1>1, <2>1, LogsLemma
  <2>4. read \in [DOMAIN read -> Change]
    BY <2>3
  <2> HIDE DEF read
  <2> QED
    BY <2>2, <2>4 DEF Logs
<1> HIDE DEF read
<1>3. log \in [Actors -> Logs]
  BY <1>2 DEF TypeInv, TypeOK
<1> HIDE DEF log
<1>4. /\ due \in SUBSET Actors /\ {} \in SUBSET Docs /\ back \in [Docs -> SUBSET Change]
      /\ cursors \in [Docs -> ClocksOver(Actors, 0..Infinity)]
  BY DEF TypeInv, TypeOK
<1> HIDE DEF due
<1>5. /\ readyQ' \in [Docs -> SUBSET Actors]
      /\ docChanges' \in [Docs -> [Actors -> 0..MaxSeq]]
      /\ back' \in [Docs -> SUBSET Change]
      /\ hasClock' \subseteq Docs
      /\ rendered' \in [Docs -> BOOLEAN]
  BY <1>1, <1>3, <1>4, SyncChangesLemma DEF TypeInv
<1>6. TypeOK'
  BY <1>1, <1>3, <1>5 DEF TypeInv, TypeOK, histVars
<1>7. ActorsKnown'
  BY <1>1 DEF TypeInv, TypeOK, ActorsKnown
<1> QED
  BY <1>6, <1>7 DEF TypeInv

LEMMA RemoteChangeInChange ==
  ASSUME NEW a \in RemoteActors, NEW i \in 1..MaxSeq
  PROVE  RemoteChange(a, i) \in Change
<1>1. RemoteDoc[a] \in Docs
  BY ConstantsAssumption DEF ConstantsAssumption
<1> QED
  BY <1>1 DEF RemoteChange, Change, Actors

LEMMA TypeInvDownload ==
  ASSUME TypeInv, NEW a \in RemoteActors, NEW i \in 1..MaxSeq, Download(a, i)
  PROVE  TypeInv'
<1> DEFINE c == RemoteChange(a, i)
<1>1. a \in Actors /\ c \in Change
  BY RemoteChangeInChange DEF Actors
<1>2. blocks[a] \in Logs /\ changes[a] \in Logs
  BY <1>1 DEF TypeInv, TypeOK
<1>3. Put(blocks[a], i, c) \in Logs /\ Put(changes[a], i, c) \in Logs
  BY <1>1, <1>2, PutLemma
<1>4. /\ blocks' = [blocks EXCEPT ![a] = Put(@, i, c)]
      /\ feedLength' = [feedLength EXCEPT ![a] = published[a]]
      /\ unsynced' = unsynced \cup {a}
      /\ changes' = IF actorState[a] \in {"streaming", "ready"}
                    THEN [changes EXCEPT ![a] = Put(@, i, c)]
                    ELSE changes
      /\ UNCHANGED <<cursors, hasClock, peerClocks, feedInfo, owned, restarts, published, histVars,
                     actorState, streamEnd, syncWait, docVars>>
  BY DEF Download
<1> HIDE DEF c
<1>5. blocks' \in [Actors -> Logs] /\ changes' \in [Actors -> Logs]
  BY <1>3, <1>4 DEF TypeInv, TypeOK
<1>6. TypeOK'
  BY <1>4, <1>5 DEF TypeInv, TypeOK, docVars, histVars
<1>7. ActorsKnown'
  BY <1>4 DEF TypeInv, ActorsKnown, docVars
<1> QED
  BY <1>6, <1>7 DEF TypeInv

LEMMA TypeInvSyncEvent ==
  ASSUME TypeInv, NEW a \in RemoteActors, SyncEvent(a)
  PROVE  TypeInv'
<1> DEFINE due == IF actorState[a] \in {"streaming", "ready"} THEN {a} ELSE {}
<1>1. /\ unsynced' = unsynced \ {a}
      /\ SyncChanges(due, {}, back, changes, cursors, peerClocks)
      /\ UNCHANGED <<cursors, peerClocks, feedInfo, owned, blocks, feedLength, restarts, published, histVars,
                     actorState, changes, streamEnd, syncWait, docState, docActor, loadIds>>
  BY DEF SyncEvent
<1>2. /\ due \in SUBSET Actors /\ {} \in SUBSET Docs /\ back \in [Docs -> SUBSET Change]
      /\ cursors \in [Docs -> ClocksOver(Actors, 0..Infinity)] /\ changes \in [Actors -> Logs]
  BY DEF TypeInv, TypeOK, Actors
<1> HIDE DEF due
<1>3. /\ readyQ' \in [Docs -> SUBSET Actors]
      /\ docChanges' \in [Docs -> [Actors -> 0..MaxSeq]]
      /\ back' \in [Docs -> SUBSET Change]
      /\ hasClock' \subseteq Docs
      /\ rendered' \in [Docs -> BOOLEAN]
  BY <1>1, <1>2, SyncChangesLemma DEF TypeInv
<1>4. TypeOK'
  BY <1>1, <1>3 DEF TypeInv, TypeOK, histVars
<1>5. ActorsKnown'
  BY <1>1 DEF TypeInv, ActorsKnown
<1> QED
  BY <1>4, <1>5 DEF TypeInv

LEMMA TypeInvFlush ==
  ASSUME TypeInv, NEW a \in LocalActors, Flush(a)
  PROVE  TypeInv'
<1> DEFINE i == feedLength[a] + 1
<1>1. a \in Actors /\ blocks[a] \in Logs /\ changes[a] \in Logs
  BY DEF TypeInv, TypeOK, Actors
<1>2. i \in 1..MaxSeq /\ changes[a][i] \in Change
  BY <1>1, LogsLemma DEF Flush
<1>3. Put(blocks[a], i, changes[a][i]) \in Logs
  BY <1>1, <1>2, PutLemma
<1>4. /\ blocks' = [blocks EXCEPT ![a] = Put(@, i, changes[a][i])]
      /\ feedLength' = [feedLength EXCEPT ![a] = i]
      /\ UNCHANGED <<cursors, hasClock, peerClocks, feedInfo, owned, restarts, published, histVars,
                     actorVars, docVars>>
  BY DEF Flush
<1> HIDE DEF i
<1>5. i \in 0..MaxSeq
  BY <1>2, ConstantsAssumption DEF ConstantsAssumption
<1>6. TypeOK'
  BY <1>3, <1>4, <1>5 DEF TypeInv, TypeOK, docVars, actorVars, histVars
<1>7. ActorsKnown'
  BY <1>4 DEF TypeInv, ActorsKnown, docVars, actorVars
<1> QED
  BY <1>6, <1>7 DEF TypeInv

LEMMA TypeInvRemoteAppend ==
  ASSUME TypeInv, NEW a \in RemoteActors, RemoteAppend(a)
  PROVE  TypeInv'
<1>1. published[a] + 1 \in 0..MaxSeq
  <2>1. RemoteLength[a] \in 0..MaxSeq /\ published[a] \in 0..MaxSeq /\ MaxSeq \in Nat
    BY ConstantsAssumption DEF ConstantsAssumption, TypeInv, TypeOK
  <2> QED
    BY <2>1 DEF RemoteAppend
<1>2. TypeOK'
  BY <1>1 DEF RemoteAppend, TypeInv, TypeOK, storeVars, actorVars, docVars, histVars
<1>3. ActorsKnown'
  BY DEF RemoteAppend, TypeInv, ActorsKnown, actorVars, docVars
<1> QED
  BY <1>2, <1>3 DEF TypeInv

LEMMA PeerClockLemma ==
  ASSUME NEW clock \in PeerClocks
  PROVE  clock \in ClocksOver(Actors, 0..MaxSeq)
<1>1. PICK D \in SUBSET Actors : clock \in [D -> 1..MaxSeq]
  BY DEF PeerClocks, ClocksOver
<1>2. clock \in [D -> 0..MaxSeq]
  BY <1>1, ConstantsAssumption DEF ConstantsAssumption
<1> QED
  BY <1>2 DEF ClocksOver

LEMMA TypeInvCursorMessage ==
  ASSUME TypeInv, NEW d \in Docs, NEW clock \in PeerClocks,
         CursorMessage(d, clock)
  PROVE  TypeInv'
<1> DEFINE ids == DOMAIN PeerCursor[d]
<1>1. PeerCursor[d] \in ClocksOver(Actors, 0..Infinity)
  BY ConstantsAssumption DEF ConstantsAssumption
<1>2. 0..Infinity \in SUBSET Nat /\ 0..MaxSeq \in SUBSET Nat
  BY ConstantsAssumption DEF ConstantsAssumption
<1>3. ids \in SUBSET Actors
  <2>1. PICK D \in SUBSET Actors : PeerCursor[d] \in [D -> 0..Infinity]
    BY <1>1 DEF ClocksOver
  <2> QED
    BY <2>1
<1> HIDE DEF ids
<1>4. /\ peerClocks' = [peerClocks EXCEPT ![d] = Union(@, clock)]
      /\ cursors' = [cursors EXCEPT ![d] = Union(@, PeerCursor[d])]
      /\ SyncReadyActors(ids, cursors', peerClocks')
      /\ UNCHANGED <<feedInfo, owned, blocks, feedLength, restarts, published, borrowed,
                     changes, streamEnd, unsynced, docState, docActor, loadIds>>
      /\ brought' = [brought EXCEPT ![d] = @ \cup (ids \ DOMAIN cursors[d])]
  BY DEF CursorMessage, Brought, ids
<1>5. cursors' \in [Docs -> ClocksOver(Actors, 0..Infinity)]
  BY <1>1, <1>4, WidenLemma DEF TypeInv
<1>6. peerClocks' \in [Docs -> ClocksOver(Actors, 0..MaxSeq)]
  <2>1. peerClocks[d] \in ClocksOver(Actors, 0..MaxSeq)
    BY DEF TypeInv, TypeOK
  <2>2. Union(peerClocks[d], clock) \in ClocksOver(Actors, 0..MaxSeq)
    BY <1>2, <2>1, PeerClockLemma, UnionInClocksOver
  <2> QED
    BY <1>4, <2>2 DEF TypeInv, TypeOK
<1>7. /\ actorState' \in [Actors -> {"none", "creating", "opening", "streaming", "ready"}]
      /\ syncWait' \subseteq Actors
      /\ readyQ' \in [Docs -> SUBSET Actors]
      /\ docChanges' \in [Docs -> [Actors -> 0..MaxSeq]]
      /\ back' \in [Docs -> SUBSET Change]
      /\ hasClock' \subseteq Docs
      /\ rendered' \in [Docs -> BOOLEAN]
      /\ ActorsKnown'
  BY <1>3, <1>4, <1>5, SyncReadyActorsLemma
<1>8. brought' \in [Docs -> SUBSET Actors]
  BY <1>3, <1>4 DEF TypeInv, TypeOK
<1>9. TypeOK'
  BY <1>4, <1>5, <1>6, <1>7, <1>8 DEF TypeInv, TypeOK
<1> QED
  BY <1>7, <1>9 DEF TypeInv

LEMMA TypeInvRestart ==
  ASSUME TypeInv, Restart
  PROVE  TypeInv'
<1> USE ConstantsAssumption DEF ConstantsAssumption
<1>1. EmptyLog \in Logs
  BY EmptyLogInLogs
<1>2. 0 \in 0..MaxSeq /\ restarts' \in 0..MaxRestarts
  BY DEF Restart, TypeInv, TypeOK
<1>3. NoChanges \in [Actors -> 0..MaxSeq]
  BY <1>2 DEF NoChanges
<1>4. TypeOK'
  BY <1>1, <1>2, <1>3 DEF Restart, TypeInv, TypeOK, histVars
<1>5. ActorsKnown'
  BY DEF Restart, ActorsKnown
<1> QED
  BY <1>4, <1>5 DEF TypeInv

LEMMA TypeInvNext ==
  ASSUME TypeInv, [Next]_vars
  PROVE  TypeInv'
<1>1. ASSUME NEW d \in Docs, Create(d) \/ Open(d) \/ Request(d) \/ LoadInit(d)
      PROVE  TypeInv'
  BY <1>1, TypeInvCreate, TypeInvOpen, TypeInvRequest, TypeInvLoadInit
<1>2. ASSUME NEW d \in Docs, NEW a \in LocalActors,
             NeedsActorId(d, a) \/ LoadReuse(d, a) \/ LoadFresh(d, a)
      PROVE  TypeInv'
  BY <1>2, TypeInvNeedsActorId, TypeInvLoadReuse, TypeInvLoadFresh
<1>3. ASSUME NEW d \in Docs, NEW src \in Docs, Merge(d, src)
      PROVE  TypeInv'
  BY <1>3, TypeInvMerge
<1>4. ASSUME NEW a \in Actors, FeedReady(a) \/ StreamEnd(a)
      PROVE  TypeInv'
  BY <1>4, TypeInvFeedReady, TypeInvStreamEnd
<1>5. ASSUME NEW a \in RemoteActors, RemoteAppend(a) \/ SyncEvent(a)
      PROVE  TypeInv'
  BY <1>5, TypeInvRemoteAppend, TypeInvSyncEvent
<1>6. ASSUME NEW a \in RemoteActors, NEW i \in 1..MaxSeq, Download(a, i)
      PROVE  TypeInv'
  BY <1>6, TypeInvDownload
<1>7. ASSUME NEW a \in LocalActors, Flush(a)
      PROVE  TypeInv'
  BY <1>7, TypeInvFlush
<1>8. ASSUME NEW d \in Docs, NEW clock \in PeerClocks, CursorMessage(d, clock)
      PROVE  TypeInv'
  BY <1>8, TypeInvCursorMessage
<1>9. CASE Restart
  BY <1>9, TypeInvRestart
<1>10. CASE UNCHANGED vars
  BY <1>10 DEF vars, storeVars, histVars, actorVars, docVars, TypeInv, TypeOK, ActorsKnown
<1> QED
  BY <1>1, <1>2, <1>3, <1>4, <1>5, <1>6, <1>7, <1>8, <1>9, <1>10 DEF Next

\* Type correctness (the variables of RepoBackend, Actor and DocBackend).
THEOREM TypeCorrect == Spec => []TypeOK
<1>1. Spec => []TypeInv
  BY TypeInvInit, TypeInvNext, PTL DEF Spec
<1> QED
  BY <1>1, PTL DEF TypeInv

-----------------------------------------------------------------------------
(* What is in memory and on disk *)

\* Blocks lie within the feed, and a peer's feed is as long as it published.
BlocksInFeed ==
  /\ \A a \in Actors : DOMAIN blocks[a] \subseteq 1..feedLength[a]
  /\ \A a \in RemoteActors : feedLength[a] <= published[a]

\* A feed of ours with blocks has its key on disk, and its document a cursor.
OwnedIsKnown ==
  /\ owned \subseteq feedInfo
  /\ \A a \in LocalActors : DOMAIN blocks[a] # {} => a \in owned
  /\ \A d \in Docs : d \in owned \/ actorState[d] = "creating" => DOMAIN cursors[d] # {}

\* An actor that is not open holds nothing; one whose feed is being read holds
\* every block that the read stream does not cover; one that is ready holds
\* them all.
OpenHoldsBlocks ==
  \A a \in Actors :
    /\ actorState[a] \in {"none", "opening"} => DOMAIN changes[a] = {}
    /\ actorState[a] = "creating" => DOMAIN blocks[a] = {}
    /\ actorState[a] = "streaming" => DOMAIN blocks[a] \subseteq 1..streamEnd[a] \cup DOMAIN changes[a]
    /\ actorState[a] = "ready" => DOMAIN blocks[a] \subseteq DOMAIN changes[a]

\* A ready document writes to an actor that holds all blocks of its feed.
WriterHoldsBlocks ==
  \A d \in Docs : docState[d] = "ready" =>
    /\ actorState[docActor[d]] \in {"creating", "streaming", "ready"}
    /\ DOMAIN blocks[docActor[d]] \subseteq DOMAIN changes[docActor[d]]

\* Memory and disk agree; of a peer's feed there is nothing but what is on disk.
MemoryIsDisk ==
  /\ \A a \in Actors : \A i \in DOMAIN changes[a] \cap DOMAIN blocks[a] :
       changes[a][i] = blocks[a][i]
  /\ \A a \in RemoteActors : DOMAIN changes[a] \subseteq DOMAIN blocks[a]

StoreInv == BlocksInFeed /\ OwnedIsKnown /\ OpenHoldsBlocks /\ WriterHoldsBlocks /\ MemoryIsDisk

\* A document that has not been sliced counts nothing, and what a sliced or
\* ready one counts it has.
Counted ==
  /\ \A d \in Docs : docState[d] \in {"none", "loading"} => docChanges[d] = NoChanges
  /\ \A d \in Docs, a \in Actors : docState[d] \in {"sliced", "ready"} =>
       \A i \in 1..docChanges[d][a] : i \in DOMAIN changes[a] /\ changes[a][i] \in back[d]

IInv == TypeInv /\ StoreInv /\ Counted

-----------------------------------------------------------------------------
(* Cursors and peers' clocks *)

LEMMA StoredAreClocks ==
  ASSUME TypeOK, NEW d \in Docs
  PROVE  IsClock(cursors[d]) /\ IsClock(peerClocks[d])
<1>1. 0..Infinity \in SUBSET Nat /\ 0..MaxSeq \in SUBSET Nat
  BY ConstantsAssumption DEF ConstantsAssumption
<1>2. cursors[d] \in ClocksOver(Actors, 0..Infinity) /\ peerClocks[d] \in ClocksOver(Actors, 0..MaxSeq)
  BY DEF TypeOK
<1> QED
  BY <1>1, <1>2, ClocksOverAreClocks

LEMMA WidenGrows ==
  ASSUME TypeOK, NEW d \in Docs, NEW c \in ClocksOver(Actors, 0..Infinity),
         cursors' = [cursors EXCEPT ![d] = Union(@, c)]
  PROVE  \A e \in Docs : Gte(cursors'[e], cursors[e]) /\ DOMAIN cursors[e] \subseteq DOMAIN cursors'[e]
<1>1. 0..Infinity \in SUBSET Nat
  BY ConstantsAssumption DEF ConstantsAssumption
<1>2. \A e \in Docs : IsClock(cursors[e])
  BY StoredAreClocks
<1>3. IsClock(c)
  BY <1>1, ClocksOverAreClocks
<1>4. ASSUME NEW e \in Docs
      PROVE  Gte(cursors'[e], cursors[e]) /\ DOMAIN cursors[e] \subseteq DOMAIN cursors'[e]
  <2>1. CASE e = d
    <3>1. cursors'[e] = Union(cursors[e], c)
      BY <2>1 DEF TypeOK
    <3>2. Gte(Union(cursors[e], c), cursors[e])
      BY <1>2, <1>3, UnionIsUpperBound
    <3>3. DOMAIN Union(cursors[e], c) = DOMAIN cursors[e] \cup DOMAIN c
      BY <1>2, <1>3, UnionIsClock
    <3> QED
      BY <3>1, <3>2, <3>3
  <2>2. CASE e # d
    <3>1. cursors'[e] = cursors[e]
      BY <2>2 DEF TypeOK
    <3> QED
      BY <1>2, <3>1, GteReflexive
  <2> QED
    BY <2>1, <2>2
<1> QED
  BY <1>4

LEMMA SameCursorsGrow ==
  ASSUME TypeOK, UNCHANGED cursors
  PROVE  \A e \in Docs : Gte(cursors'[e], cursors[e]) /\ DOMAIN cursors[e] \subseteq DOMAIN cursors'[e]
<1>1. \A e \in Docs : IsClock(cursors[e])
  BY StoredAreClocks
<1> QED
  BY <1>1, GteReflexive

LEMMA CursorsGrow ==
  ASSUME TypeInv, [Next]_vars
  PROVE  \A e \in Docs : Gte(cursors'[e], cursors[e]) /\ DOMAIN cursors[e] \subseteq DOMAIN cursors'[e]
<1> DEFINE Grow == \A e \in Docs : Gte(cursors'[e], cursors[e]) /\ DOMAIN cursors[e] \subseteq DOMAIN cursors'[e]
<1>1. ASSUME NEW d \in Docs, NEW a \in Actors, cursors' = AddActor(d, a)
      PROVE  Grow
  <2>1. cursors' = [cursors EXCEPT ![d] = Union(@, Entry(a, Infinity))]
    BY <1>1 DEF AddActor
  <2> QED
    BY <2>1, EntryInClocksOver, WidenGrows DEF TypeInv
<1>2. CASE UNCHANGED cursors
  BY <1>2, SameCursorsGrow DEF TypeInv
<1>3. ASSUME NEW d \in Docs, Create(d) \/ Open(d)
      PROVE  Grow
  <2>1. d \in Actors /\ cursors' = AddActor(d, d)
    BY <1>3, ConstantsAssumption DEF ConstantsAssumption, Create, Open
  <2> QED
    BY <1>1, <2>1
<1>4. ASSUME NEW d \in Docs, NEW a \in LocalActors, NeedsActorId(d, a) \/ LoadFresh(d, a)
      PROVE  Grow
  <2>1. a \in Actors /\ cursors' = AddActor(d, a)
    BY <1>4 DEF NeedsActorId, LoadFresh, Actors
  <2> QED
    BY <1>1, <2>1
<1>5. ASSUME NEW d \in Docs, NEW src \in Docs, Merge(d, src)
      PROVE  Grow
  <2>1. back[src] \in SUBSET Change
    BY DEF TypeInv, TypeOK
  <2>2. ClockOf(back[src]) \in ClocksOver(Actors, 0..Infinity)
    BY <2>1, ClockOfLemma, BoundedIsInClocksOver
  <2>3. cursors' = [cursors EXCEPT ![d] = Union(@, ClockOf(back[src]))]
    BY <1>5 DEF Merge
  <2> QED
    BY <2>2, <2>3, WidenGrows DEF TypeInv
<1>6. ASSUME NEW d \in Docs, NEW clock \in PeerClocks, CursorMessage(d, clock)
      PROVE  Grow
  <2>1. PeerCursor[d] \in ClocksOver(Actors, 0..Infinity)
    BY ConstantsAssumption DEF ConstantsAssumption
  <2>2. cursors' = [cursors EXCEPT ![d] = Union(@, PeerCursor[d])]
    BY <1>6 DEF CursorMessage
  <2> QED
    BY <2>1, <2>2, WidenGrows DEF TypeInv
<1>7. \/ UNCHANGED cursors
      \/ \E d \in Docs : Create(d) \/ Open(d)
      \/ \E d \in Docs, a \in LocalActors : NeedsActorId(d, a) \/ LoadFresh(d, a)
      \/ \E d, src \in Docs : Merge(d, src)
      \/ \E d \in Docs, clock \in PeerClocks : CursorMessage(d, clock)
  BY DEF Next, vars, storeVars, Request, LoadInit, LoadReuse, FeedReady, StreamEnd,
         RemoteAppend, SyncEvent, Download, Flush, Restart
<1> QED
  BY <1>2, <1>3, <1>4, <1>5, <1>6, <1>7

LEMMA PeerClocksGrow ==
  ASSUME TypeInv, [Next]_vars
  PROVE  \A e \in Docs : Gte(peerClocks'[e], peerClocks[e])
<1>1. 0..MaxSeq \in SUBSET Nat
  BY ConstantsAssumption DEF ConstantsAssumption
<1>2. \A e \in Docs : IsClock(peerClocks[e])
  BY StoredAreClocks DEF TypeInv
<1>3. CASE UNCHANGED peerClocks
  BY <1>2, <1>3, GteReflexive
<1>4. ASSUME NEW d \in Docs, NEW clock \in PeerClocks, CursorMessage(d, clock)
      PROVE  \A e \in Docs : Gte(peerClocks'[e], peerClocks[e])
  <2>1. IsClock(clock)
    BY <1>1, PeerClockLemma, ClocksOverAreClocks
  <2>2. peerClocks' = [peerClocks EXCEPT ![d] = Union(@, clock)]
    BY <1>4 DEF CursorMessage
  <2>3. ASSUME NEW e \in Docs
        PROVE  Gte(peerClocks'[e], peerClocks[e])
    <3>1. CASE e = d
      <4>1. peerClocks'[e] = Union(peerClocks[e], clock)
        BY <2>2, <3>1 DEF TypeInv, TypeOK
      <4> QED
        BY <1>2, <2>1, <4>1, UnionIsUpperBound
    <3>2. CASE e # d
      <4>1. peerClocks'[e] = peerClocks[e]
        BY <2>2, <3>2 DEF TypeInv, TypeOK
      <4> QED
        BY <1>2, <4>1, GteReflexive
    <3> QED
      BY <3>1, <3>2
  <2> QED
    BY <2>3
<1>5. \/ UNCHANGED peerClocks
      \/ \E d \in Docs, clock \in PeerClocks : CursorMessage(d, clock)
  BY DEF Next, vars, storeVars, Create, Open, Request, LoadInit, NeedsActorId, LoadReuse,
         LoadFresh, Merge, FeedReady, StreamEnd, RemoteAppend, SyncEvent, Download, Flush, Restart
<1> QED
  BY <1>3, <1>4, <1>5

-----------------------------------------------------------------------------
(* StoreInv is inductive *)

LEMMA StoreInvInit == Init => StoreInv
<1> SUFFICES ASSUME Init
             PROVE  StoreInv
  OBVIOUS
<1>1. \A a \in Actors : DOMAIN blocks[a] = {} /\ DOMAIN changes[a] = {}
  BY DEF Init, EmptyLog
<1>2. /\ \A a \in RemoteActors : feedLength[a] = 0 /\ published[a] = 0
      /\ \A a \in Actors : actorState[a] = "none"
      /\ \A d \in Docs : docState[d] = "none" /\ d \in Actors
      /\ owned = {} /\ RemoteActors \subseteq Actors /\ LocalActors \subseteq Actors
  BY ConstantsAssumption DEF ConstantsAssumption, Init, Actors
<1> QED
  BY <1>1, <1>2 DEF StoreInv, BlocksInFeed, OwnedIsKnown, OpenHoldsBlocks, WriterHoldsBlocks, MemoryIsDisk

\* A key pair that was never used, and a root actor whose document was never
\* created, have no blocks.
LEMMA NewFeedIsEmpty ==
  ASSUME StoreInv, NEW a \in LocalActors,
         IsFresh(a) \/ (a \in Docs /\ DOMAIN cursors[a] = {})
  PROVE  DOMAIN blocks[a] = {}
BY DEF StoreInv, OwnedIsKnown, IsFresh

\* Steps that open and create actors and load documents, and leave the logs.
LEMMA StoreInvOpening ==
  ASSUME TypeInv, TypeInv', StoreInv,
         UNCHANGED <<feedInfo, owned, blocks, feedLength, published, changes, streamEnd>>,
         \A d \in Docs : DOMAIN cursors[d] \subseteq DOMAIN cursors'[d],
         \A a \in Actors :
           \/ actorState'[a] = actorState[a]
           \/ actorState[a] = "none" /\ actorState'[a] = "opening"
           \/ /\ actorState'[a] = "creating" /\ DOMAIN blocks[a] = {}
              /\ a \in Docs => DOMAIN cursors'[a] # {},
         \A d \in Docs : docState'[d] = "ready" =>
           \/ docState[d] = "ready" /\ docActor'[d] = docActor[d]
           \/ /\ actorState'[docActor'[d]] \in {"creating", "streaming", "ready"}
              /\ DOMAIN blocks[docActor'[d]] \subseteq DOMAIN changes[docActor'[d]]
  PROVE  StoreInv'
<1>1. BlocksInFeed' /\ MemoryIsDisk'
  BY DEF StoreInv, BlocksInFeed, MemoryIsDisk
<1>2. OwnedIsKnown'
  <2>1. Docs \subseteq Actors
    BY ConstantsAssumption DEF ConstantsAssumption
  <2>2. ASSUME NEW d \in Docs, d \in owned \/ actorState'[d] = "creating"
        PROVE  DOMAIN cursors'[d] # {}
    BY <2>1, <2>2 DEF StoreInv, OwnedIsKnown
  <2> QED
    BY <2>2 DEF StoreInv, OwnedIsKnown
<1>3. OpenHoldsBlocks'
  BY DEF StoreInv, OpenHoldsBlocks
<1>4. WriterHoldsBlocks'
  <2>1. ASSUME NEW d \in Docs, docState[d] = "ready", docActor'[d] = docActor[d]
        PROVE  /\ actorState'[docActor'[d]] \in {"creating", "streaming", "ready"}
               /\ DOMAIN blocks[docActor'[d]] \subseteq DOMAIN changes[docActor'[d]]
    <3>1. docActor[d] \in Actors
      BY <2>1 DEF TypeInv, ActorsKnown, Actors
    <3> QED
      BY <2>1, <3>1 DEF StoreInv, WriterHoldsBlocks
  <2> QED
    BY <2>1 DEF WriterHoldsBlocks
<1> QED
  BY <1>1, <1>2, <1>3, <1>4 DEF StoreInv

LEMMA StoreInvLoading ==
  ASSUME TypeInv, TypeInv', StoreInv, NEW d \in Docs,
         \A e \in Docs : DOMAIN cursors[e] \subseteq DOMAIN cursors'[e],
         \/ Create(d) \/ Open(d) \/ LoadInit(d)
         \/ \E a \in LocalActors : NeedsActorId(d, a) \/ LoadReuse(d, a) \/ LoadFresh(d, a)
  PROVE  StoreInv'
<1>1. CASE Create(d)
  <2>1. d \in Actors /\ DOMAIN blocks[d] = {} /\ DOMAIN cursors'[d] # {}
    <3>1. d \in Actors /\ DOMAIN blocks[d] = {}
      BY <1>1, NewFeedIsEmpty DEF Create, Actors
    <3>2. cursors'[d] = Union(cursors[d], Entry(d, Infinity))
      BY <1>1 DEF Create, AddActor, TypeInv, TypeOK
    <3>3. DOMAIN cursors'[d] # {}
      BY <3>2 DEF Union, Entry
    <3> QED
      BY <3>1, <3>3
  <2>2. /\ actorState' = [actorState EXCEPT ![d] = "creating"]
        /\ docState' = [docState EXCEPT ![d] = "ready"]
        /\ docActor' = [docActor EXCEPT ![d] = d]
        /\ UNCHANGED <<feedInfo, owned, blocks, feedLength, published, changes, streamEnd>>
    BY <1>1 DEF Create
  <2>3. \A a \in Actors : \/ actorState'[a] = actorState[a]
                          \/ a = d /\ actorState'[a] = "creating"
    BY <2>2 DEF TypeInv, TypeOK
  <2>4. /\ docActor'[d] = d /\ actorState'[d] = "creating"
        /\ \A e \in Docs \ {d} : docState'[e] = docState[e] /\ docActor'[e] = docActor[e]
    BY <2>1, <2>2 DEF TypeInv, TypeOK
  <2> QED
    BY <2>1, <2>2, <2>3, <2>4, StoreInvOpening
<1>2. CASE Open(d)
  <2>1. /\ UNCHANGED <<feedInfo, owned, blocks, feedLength, published, changes, streamEnd>>
        /\ \A e \in Docs : docState'[e] = "ready" => docState[e] = "ready" /\ docActor'[e] = docActor[e]
        /\ \A a \in Actors : \/ actorState'[a] = actorState[a]
                             \/ actorState[a] = "none" /\ actorState'[a] = "opening"
    BY <1>2 DEF Open, TypeInv, TypeOK
  <2> QED
    BY <2>1, StoreInvOpening
<1>3. CASE LoadInit(d)
  <2>1. /\ DocInit(d, docState[d] = "holed", back[d], docChanges[d], cursors[d])
        /\ actorState[docActor[d]] = "ready" /\ docState[d] \in {"sliced", "holed"}
        /\ UNCHANGED <<feedInfo, owned, blocks, feedLength, published, changes, streamEnd,
                       actorState, docActor>>
    BY <1>3 DEF LoadInit, CanInit, actorVars
  <2>2. \A e \in Docs \ {d} : docState'[e] = docState[e]
    BY <2>1 DEF DocInit, TypeInv, TypeOK
  <2>3. docActor[d] \in Actors
    BY <2>1 DEF TypeInv, ActorsKnown, Actors
  <2>4. DOMAIN blocks[docActor[d]] \subseteq DOMAIN changes[docActor[d]]
    BY <2>1, <2>3 DEF StoreInv, OpenHoldsBlocks
  <2> QED
    BY <2>1, <2>2, <2>4, StoreInvOpening
<1>4. ASSUME NEW a \in LocalActors, NeedsActorId(d, a)
      PROVE  StoreInv'
  <2>1. a \notin Docs /\ DOMAIN blocks[a] = {}
    BY <1>4, NewFeedIsEmpty DEF NeedsActorId, IsFresh
  <2>2. /\ UNCHANGED <<feedInfo, owned, blocks, feedLength, published, changes, streamEnd,
                       docState, docActor>>
        /\ \A x \in Actors : \/ actorState'[x] = actorState[x]
                             \/ x = a /\ actorState'[x] = "creating"
    BY <1>4 DEF NeedsActorId, docVars, TypeInv, TypeOK
  <2> QED
    BY <2>1, <2>2, StoreInvOpening
<1>5. ASSUME NEW a \in LocalActors, LoadReuse(d, a)
      PROVE  StoreInv'
  <2>1. /\ UNCHANGED <<feedInfo, owned, blocks, feedLength, published, changes, streamEnd,
                       actorState>>
        /\ docState' = [docState EXCEPT ![d] = IF HasHole(d) THEN "holed" ELSE "sliced"]
        /\ docActor' = [docActor EXCEPT ![d] = a]
    BY <1>5 DEF LoadReuse, storeVars, actorVars
  <2>2. \A e \in Docs : docState'[e] = "ready" => docState[e] = "ready" /\ docActor'[e] = docActor[e]
    BY <2>1 DEF TypeInv, TypeOK
  <2> QED
    BY <2>1, <2>2, StoreInvOpening
<1>6. ASSUME NEW a \in LocalActors, LoadFresh(d, a)
      PROVE  StoreInv'
  <2>1. a \notin Docs /\ a \in Actors /\ DOMAIN blocks[a] = {}
    BY <1>6, NewFeedIsEmpty DEF LoadFresh, IsFresh, Actors
  <2>2. /\ DocInit(d, HasHole(d), Slices(d), [x \in Actors |-> SliceLength(d, x)], cursors'[d])
        /\ UNCHANGED <<feedInfo, owned, blocks, feedLength, published, changes, streamEnd>>
        /\ actorState' = [actorState EXCEPT ![a] = "creating"]
        /\ docActor' = [docActor EXCEPT ![d] = a]
    BY <1>6 DEF LoadFresh
  <2>3. \A x \in Actors : \/ actorState'[x] = actorState[x]
                          \/ x = a /\ actorState'[x] = "creating"
    BY <2>2 DEF TypeInv, TypeOK
  <2>4. /\ docActor'[d] = a /\ actorState'[a] = "creating"
        /\ \A e \in Docs \ {d} : docActor'[e] = docActor[e]
    BY <2>1, <2>2 DEF TypeInv, TypeOK
  <2>5. \A e \in Docs \ {d} : docState'[e] = docState[e]
    BY <2>2 DEF DocInit, TypeInv, TypeOK
  <2> QED
    BY <2>1, <2>2, <2>3, <2>4, <2>5, StoreInvOpening
<1> QED
  BY <1>1, <1>2, <1>3, <1>4, <1>5, <1>6

LEMMA StoreInvSyncing ==
  ASSUME TypeInv, TypeInv', StoreInv,
         \A e \in Docs : DOMAIN cursors[e] \subseteq DOMAIN cursors'[e],
         \/ \E d, src \in Docs : Merge(d, src)
         \/ \E d \in Docs, clock \in PeerClocks : CursorMessage(d, clock)
         \/ \E a \in RemoteActors : SyncEvent(a)
  PROVE  StoreInv'
<1>1. /\ UNCHANGED <<feedInfo, owned, blocks, feedLength, published, changes, streamEnd,
                     docState, docActor>>
      /\ \A a \in Actors : \/ actorState'[a] = actorState[a]
                           \/ actorState[a] = "none" /\ actorState'[a] = "opening"
  BY DEF Merge, CursorMessage, SyncEvent, SyncReadyActors
<1> QED
  BY <1>1, StoreInvOpening

\* What Request does to the logs: one entry more, at an index that neither
\* memory nor the feed has.
LEMMA RequestLog ==
  ASSUME TypeInv, StoreInv, NEW d \in Docs, Request(d)
  PROVE  LET a == docActor[d]
             i == NextIndex(a)
         IN /\ a \in LocalActors /\ i \in 1..MaxSeq
            /\ i \notin DOMAIN changes[a] /\ i \notin DOMAIN blocks[a]
            /\ DOMAIN changes'[a] = DOMAIN changes[a] \cup {i}
            /\ \A j \in DOMAIN changes[a] : changes'[a][j] = changes[a][j]
            /\ \A x \in Actors \ {a} : changes'[x] = changes[x]
<1> DEFINE a == docActor[d]
           i == NextIndex(a)
           c == [actor |-> a, seq |-> NextSeq(d), doc |-> d]
<1>1. a \in LocalActors /\ a \in Actors
  BY DEF Request, TypeInv, ActorsKnown, Actors
<1>2. changes[a] \in Logs /\ back[d] \subseteq Change
  BY <1>1 DEF TypeInv, TypeOK
<1>3. Length(changes[a]) \in 0..MaxSeq /\ DOMAIN changes[a] \subseteq 1..Length(changes[a])
  BY <1>2, LengthLemma
<1>4. i \in 1..MaxSeq /\ i \notin DOMAIN changes[a]
  BY <1>3, ConstantsAssumption DEF ConstantsAssumption, NextIndex, Request
<1>5. DOMAIN blocks[a] \subseteq DOMAIN changes[a]
  BY DEF StoreInv, WriterHoldsBlocks, Request
<1>6. changes' = [changes EXCEPT ![a] = Put(@, i, c)]
  BY DEF Request
<1>7. changes'[a] = Put(changes[a], i, c) /\ \A x \in Actors \ {a} : changes'[x] = changes[x]
  BY <1>1, <1>6 DEF TypeInv, TypeOK
<1> HIDE DEF c, i, a
<1>8. /\ DOMAIN Put(changes[a], i, c) = DOMAIN changes[a] \cup {i}
      /\ \A j \in DOMAIN changes[a] : j # i => Put(changes[a], i, c)[j] = changes[a][j]
  BY DEF Put
<1>9. /\ a \in LocalActors /\ i \in 1..MaxSeq
      /\ i \notin DOMAIN changes[a] /\ i \notin DOMAIN blocks[a]
      /\ DOMAIN changes'[a] = DOMAIN changes[a] \cup {i}
      /\ \A j \in DOMAIN changes[a] : changes'[a][j] = changes[a][j]
      /\ \A x \in Actors \ {a} : changes'[x] = changes[x]
  BY <1>1, <1>4, <1>5, <1>7, <1>8
<1> QED
  BY <1>9 DEF a, i

LEMMA StoreInvRequest ==
  ASSUME TypeInv, StoreInv, NEW d \in Docs, Request(d)
  PROVE  StoreInv'
<1> DEFINE a == docActor[d]
           i == NextIndex(a)
<1>1. /\ a \in LocalActors /\ i \in 1..MaxSeq
      /\ i \notin DOMAIN changes[a] /\ i \notin DOMAIN blocks[a]
      /\ DOMAIN changes'[a] = DOMAIN changes[a] \cup {i}
      /\ \A j \in DOMAIN changes[a] : changes'[a][j] = changes[a][j]
      /\ \A x \in Actors \ {a} : changes'[x] = changes[x]
  BY RequestLog
<1>2. /\ UNCHANGED <<cursors, feedInfo, owned, blocks, feedLength, published,
                     actorState, streamEnd, docState, docActor>>
      /\ actorState[a] \in {"creating", "streaming", "ready"}
  BY DEF Request, StoreInv, WriterHoldsBlocks
<1> HIDE DEF a, i
<1>3. BlocksInFeed' /\ OwnedIsKnown'
  BY <1>2 DEF StoreInv, BlocksInFeed, OwnedIsKnown
<1>4. \A x \in Actors : DOMAIN changes[x] \subseteq DOMAIN changes'[x]
  BY <1>1
<1>5. OpenHoldsBlocks'
  BY <1>1, <1>2, <1>4 DEF StoreInv, OpenHoldsBlocks
<1>6. WriterHoldsBlocks'
  <2>1. \A e \in Docs : docState[e] = "ready" => docActor[e] \in Actors
    BY DEF TypeInv, ActorsKnown, Actors
  <2> QED
    BY <1>2, <1>4, <2>1 DEF StoreInv, WriterHoldsBlocks
<1>7. MemoryIsDisk'
  <2>1. a \notin RemoteActors
    BY <1>1, ConstantsAssumption DEF ConstantsAssumption
  <2>2. \A x \in Actors : \A k \in DOMAIN changes'[x] \cap DOMAIN blocks[x] :
          changes'[x][k] = blocks[x][k]
    BY <1>1 DEF StoreInv, MemoryIsDisk
  <2>3. \A x \in RemoteActors : DOMAIN changes'[x] \subseteq DOMAIN blocks[x]
    BY <1>1, <2>1 DEF StoreInv, MemoryIsDisk, Actors
  <2> QED
    BY <1>2, <2>2, <2>3 DEF MemoryIsDisk
<1> QED
  BY <1>3, <1>5, <1>6, <1>7 DEF StoreInv

LEMMA StoreInvFeedReady ==
  ASSUME TypeInv, StoreInv, NEW a \in Actors, FeedReady(a)
  PROVE  StoreInv'
<1>1. /\ actorState[a] \in {"creating", "opening"}
      /\ actorState' = [actorState EXCEPT ![a] = "streaming"]
      /\ owned' = IF actorState[a] = "creating" THEN owned \cup {a} ELSE owned
      /\ feedInfo' = feedInfo \cup {a}
      /\ streamEnd' = [streamEnd EXCEPT ![a] = feedLength[a]]
      /\ UNCHANGED <<cursors, blocks, feedLength, published, changes, docState, docActor>>
  BY DEF FeedReady, StreamLength, docVars
<1>2. /\ actorState'[a] = "streaming" /\ streamEnd'[a] = feedLength[a]
      /\ \A x \in Actors \ {a} : actorState'[x] = actorState[x] /\ streamEnd'[x] = streamEnd[x]
  BY <1>1 DEF TypeInv, TypeOK
<1>3. BlocksInFeed' /\ MemoryIsDisk'
  BY <1>1 DEF StoreInv, BlocksInFeed, MemoryIsDisk
<1>4. OwnedIsKnown'
  <2>1. owned' \subseteq feedInfo' /\ owned \subseteq owned'
    BY <1>1 DEF StoreInv, OwnedIsKnown
  <2>2. Docs \subseteq Actors
    BY ConstantsAssumption DEF ConstantsAssumption
  <2>3. \A d \in Docs : d \in owned' \/ actorState'[d] = "creating" => DOMAIN cursors'[d] # {}
    BY <1>1, <1>2, <2>2 DEF StoreInv, OwnedIsKnown
  <2> QED
    BY <1>1, <2>1, <2>3 DEF StoreInv, OwnedIsKnown
<1>5. OpenHoldsBlocks'
  BY <1>1, <1>2 DEF StoreInv, OpenHoldsBlocks, BlocksInFeed
<1>6. WriterHoldsBlocks'
  <2>1. \A e \in Docs : docState[e] = "ready" => docActor[e] \in Actors
    BY DEF TypeInv, ActorsKnown, Actors
  <2> QED
    BY <1>1, <1>2, <2>1 DEF StoreInv, WriterHoldsBlocks
<1> QED
  BY <1>3, <1>4, <1>5, <1>6 DEF StoreInv

\* What StreamEnd does to the log of its actor: it adds the blocks the stream
\* covers, and changes no entry.
LEMMA StreamEndLog ==
  ASSUME TypeInv, StoreInv, NEW a \in Actors, StreamEnd(a)
  PROVE  /\ 1..streamEnd[a] \subseteq DOMAIN blocks[a]
         /\ DOMAIN changes'[a] = DOMAIN changes[a] \cup 1..streamEnd[a]
         /\ \A j \in DOMAIN changes[a] : changes'[a][j] = changes[a][j]
         /\ \A j \in 1..streamEnd[a] : changes'[a][j] = blocks[a][j]
         /\ \A x \in Actors \ {a} : changes'[x] = changes[x]
<1> DEFINE from == [i \in 1..streamEnd[a] |-> blocks[a][i]]
           read == [i \in DOMAIN changes[a] \cup DOMAIN from |->
                      IF i \in DOMAIN from THEN from[i] ELSE changes[a][i]]
<1>1. /\ 1..streamEnd[a] \subseteq DOMAIN blocks[a]
      /\ changes' = [changes EXCEPT ![a] = read]
  BY DEF StreamEnd
<1>2. changes'[a] = read /\ \A x \in Actors \ {a} : changes'[x] = changes[x]
  BY <1>1 DEF TypeInv, TypeOK
<1>3. \A j \in DOMAIN changes[a] \cap DOMAIN blocks[a] : changes[a][j] = blocks[a][j]
  BY DEF StoreInv, MemoryIsDisk
<1> QED
  BY <1>1, <1>2, <1>3

LEMMA StoreInvStreamEnd ==
  ASSUME TypeInv, StoreInv, NEW a \in Actors, StreamEnd(a)
  PROVE  StoreInv'
<1>1. /\ 1..streamEnd[a] \subseteq DOMAIN blocks[a]
      /\ DOMAIN changes'[a] = DOMAIN changes[a] \cup 1..streamEnd[a]
      /\ \A j \in DOMAIN changes[a] : changes'[a][j] = changes[a][j]
      /\ \A j \in 1..streamEnd[a] : changes'[a][j] = blocks[a][j]
      /\ \A x \in Actors \ {a} : changes'[x] = changes[x]
  BY StreamEndLog
<1>2. /\ actorState[a] = "streaming"
      /\ actorState' = [actorState EXCEPT ![a] = "ready"]
      /\ UNCHANGED <<cursors, feedInfo, owned, blocks, feedLength, published, streamEnd,
                     docState, docActor>>
  BY DEF StreamEnd
<1>3. actorState'[a] = "ready" /\ \A x \in Actors \ {a} : actorState'[x] = actorState[x]
  BY <1>2 DEF TypeInv, TypeOK
<1>4. BlocksInFeed'
  BY <1>2 DEF StoreInv, BlocksInFeed
<1>5. OwnedIsKnown'
  <2>1. Docs \subseteq Actors
    BY ConstantsAssumption DEF ConstantsAssumption
  <2> QED
    BY <1>2, <1>3, <2>1 DEF StoreInv, OwnedIsKnown
<1>6. OpenHoldsBlocks'
  BY <1>1, <1>2, <1>3 DEF StoreInv, OpenHoldsBlocks
<1>7. WriterHoldsBlocks'
  <2>1. \A e \in Docs : docState[e] = "ready" => docActor[e] \in Actors
    BY DEF TypeInv, ActorsKnown, Actors
  <2>2. \A x \in Actors : DOMAIN changes[x] \subseteq DOMAIN changes'[x]
    BY <1>1
  <2> QED
    BY <1>2, <1>3, <2>1, <2>2 DEF StoreInv, WriterHoldsBlocks
<1>8. MemoryIsDisk'
  <2>1. \A x \in Actors : \A k \in DOMAIN changes'[x] \cap DOMAIN blocks[x] :
          changes'[x][k] = blocks[x][k]
    BY <1>1 DEF StoreInv, MemoryIsDisk
  <2>2. \A x \in RemoteActors : DOMAIN changes'[x] \subseteq DOMAIN blocks[x]
    BY <1>1 DEF StoreInv, MemoryIsDisk, Actors
  <2> QED
    BY <1>2, <2>1, <2>2 DEF MemoryIsDisk
<1> QED
  BY <1>4, <1>5, <1>6, <1>7, <1>8 DEF StoreInv

\* What Download does: one block more, and the same entry in the log of an
\* actor that is open.
LEMMA DownloadLog ==
  ASSUME TypeInv, StoreInv, NEW a \in RemoteActors, NEW i \in 1..MaxSeq, Download(a, i)
  PROVE  /\ i \notin DOMAIN blocks[a] /\ i \notin DOMAIN changes[a] /\ i \in 1..published[a]
         /\ DOMAIN blocks'[a] = DOMAIN blocks[a] \cup {i}
         /\ \A j \in DOMAIN blocks[a] : blocks'[a][j] = blocks[a][j]
         /\ \A x \in Actors \ {a} : blocks'[x] = blocks[x] /\ changes'[x] = changes[x]
         /\ \A j \in DOMAIN changes[a] : changes'[a][j] = changes[a][j]
         /\ \/ /\ actorState[a] \in {"streaming", "ready"}
               /\ DOMAIN changes'[a] = DOMAIN changes[a] \cup {i}
               /\ changes'[a][i] = blocks'[a][i]
            \/ /\ actorState[a] \in {"none", "opening"}
               /\ changes'[a] = changes[a]
<1> DEFINE c == RemoteChange(a, i)
<1>1. a \in Actors /\ a \notin LocalActors
  BY ConstantsAssumption DEF ConstantsAssumption, Actors
<1>2. i \notin DOMAIN blocks[a] /\ i \notin DOMAIN changes[a] /\ i \in 1..published[a]
  BY DEF Download, StoreInv, MemoryIsDisk
<1>3. /\ blocks' = [blocks EXCEPT ![a] = Put(@, i, c)]
      /\ changes' = IF actorState[a] \in {"streaming", "ready"}
                    THEN [changes EXCEPT ![a] = Put(@, i, c)]
                    ELSE changes
  BY DEF Download
<1> HIDE DEF c
<1>4. blocks'[a] = Put(blocks[a], i, c) /\ \A x \in Actors \ {a} : blocks'[x] = blocks[x]
  BY <1>1, <1>3 DEF TypeInv, TypeOK
<1>5. /\ DOMAIN blocks'[a] = DOMAIN blocks[a] \cup {i} /\ blocks'[a][i] = c
      /\ \A j \in DOMAIN blocks[a] : blocks'[a][j] = blocks[a][j]
  BY <1>2, <1>4 DEF Put
<1>6. CASE actorState[a] \in {"streaming", "ready"}
  <2>1. changes'[a] = Put(changes[a], i, c) /\ \A x \in Actors \ {a} : changes'[x] = changes[x]
    BY <1>1, <1>3, <1>6 DEF TypeInv, TypeOK
  <2>2. /\ DOMAIN changes'[a] = DOMAIN changes[a] \cup {i} /\ changes'[a][i] = c
        /\ \A j \in DOMAIN changes[a] : changes'[a][j] = changes[a][j]
    BY <1>2, <2>1 DEF Put
  <2> QED
    BY <1>2, <1>4, <1>5, <1>6, <2>1, <2>2
<1>7. CASE actorState[a] \notin {"streaming", "ready"}
  <2>1. changes' = changes
    BY <1>3, <1>7
  <2>2. actorState[a] \in {"none", "opening"}
    BY <1>1, <1>7 DEF TypeInv, TypeOK, ActorsKnown
  <2> QED
    BY <1>2, <1>4, <1>5, <2>1, <2>2
<1> QED
  BY <1>6, <1>7

LEMMA StoreInvDownload ==
  ASSUME TypeInv, StoreInv, NEW a \in RemoteActors, NEW i \in 1..MaxSeq, Download(a, i)
  PROVE  StoreInv'
<1>1. /\ i \notin DOMAIN blocks[a] /\ i \notin DOMAIN changes[a] /\ i \in 1..published[a]
      /\ DOMAIN blocks'[a] = DOMAIN blocks[a] \cup {i}
      /\ \A j \in DOMAIN blocks[a] : blocks'[a][j] = blocks[a][j]
      /\ \A x \in Actors \ {a} : blocks'[x] = blocks[x] /\ changes'[x] = changes[x]
      /\ \A j \in DOMAIN changes[a] : changes'[a][j] = changes[a][j]
      /\ \/ /\ actorState[a] \in {"streaming", "ready"}
            /\ DOMAIN changes'[a] = DOMAIN changes[a] \cup {i}
            /\ changes'[a][i] = blocks'[a][i]
         \/ /\ actorState[a] \in {"none", "opening"}
            /\ changes'[a] = changes[a]
  BY DownloadLog
<1>2. /\ a \in feedInfo
      /\ feedLength' = [feedLength EXCEPT ![a] = published[a]]
      /\ UNCHANGED <<cursors, feedInfo, owned, published, actorState, streamEnd, docState, docActor>>
  BY DEF Download, docVars
<1>3. a \in Actors /\ a \notin LocalActors /\ published[a] \in Nat /\ feedLength[a] \in Nat
  BY ConstantsAssumption DEF ConstantsAssumption, Actors, TypeInv, TypeOK
<1>4. feedLength'[a] = published[a] /\ \A x \in Actors \ {a} : feedLength'[x] = feedLength[x]
  BY <1>2, <1>3 DEF TypeInv, TypeOK
<1>5. BlocksInFeed'
  <2>1. \A x \in RemoteActors : feedLength'[x] <= published'[x]
    BY <1>2, <1>3, <1>4 DEF StoreInv, BlocksInFeed, Actors
  <2>2. DOMAIN blocks[a] \subseteq 1..published[a]
    BY <1>3 DEF StoreInv, BlocksInFeed
  <2>3. \A x \in Actors : DOMAIN blocks'[x] \subseteq 1..feedLength'[x]
    BY <1>1, <1>4, <2>2 DEF StoreInv, BlocksInFeed
  <2> QED
    BY <2>1, <2>3 DEF BlocksInFeed
<1>6. OwnedIsKnown'
  <2>1. \A x \in LocalActors : blocks'[x] = blocks[x]
    BY <1>1, <1>3 DEF Actors
  <2> QED
    BY <1>2, <2>1 DEF StoreInv, OwnedIsKnown
<1>7. OpenHoldsBlocks'
  BY <1>1, <1>2 DEF StoreInv, OpenHoldsBlocks
<1>8. WriterHoldsBlocks'
  <2>1. \A e \in Docs : docState[e] = "ready" => docActor[e] \in Actors /\ docActor[e] # a
    BY <1>3 DEF TypeInv, ActorsKnown, Actors
  <2> QED
    BY <1>1, <1>2, <2>1 DEF StoreInv, WriterHoldsBlocks
<1>9. MemoryIsDisk'
  <2>1. \A x \in Actors : \A k \in DOMAIN changes'[x] \cap DOMAIN blocks'[x] :
          changes'[x][k] = blocks'[x][k]
    BY <1>1 DEF StoreInv, MemoryIsDisk
  <2>2. \A x \in RemoteActors : DOMAIN changes'[x] \subseteq DOMAIN blocks'[x]
    BY <1>1 DEF StoreInv, MemoryIsDisk, Actors
  <2> QED
    BY <2>1, <2>2 DEF MemoryIsDisk
<1> QED
  BY <1>5, <1>6, <1>7, <1>8, <1>9 DEF StoreInv

\* What Flush does: it appends the next entry of the log to the feed.
LEMMA FlushLog ==
  ASSUME TypeInv, StoreInv, NEW a \in LocalActors, Flush(a)
  PROVE  LET i == feedLength[a] + 1
         IN /\ i \in DOMAIN changes[a] /\ i \notin DOMAIN blocks[a]
            /\ DOMAIN blocks'[a] = DOMAIN blocks[a] \cup {i}
            /\ blocks'[a][i] = changes[a][i]
            /\ \A j \in DOMAIN blocks[a] : blocks'[a][j] = blocks[a][j]
            /\ feedLength'[a] = i
            /\ \A x \in Actors \ {a} : blocks'[x] = blocks[x] /\ feedLength'[x] = feedLength[x]
<1> DEFINE i == feedLength[a] + 1
<1>1. a \in Actors /\ feedLength[a] \in Nat
  BY ConstantsAssumption DEF ConstantsAssumption, Actors, TypeInv, TypeOK
<1>2. i \in DOMAIN changes[a] /\ i \notin DOMAIN blocks[a]
  <2>1. i \notin 1..feedLength[a]
    BY <1>1
  <2> QED
    BY <1>1, <2>1 DEF Flush, StoreInv, BlocksInFeed
<1>3. /\ blocks' = [blocks EXCEPT ![a] = Put(@, i, changes[a][i])]
      /\ feedLength' = [feedLength EXCEPT ![a] = i]
  BY DEF Flush
<1>4. /\ blocks'[a] = Put(blocks[a], i, changes[a][i]) /\ feedLength'[a] = i
      /\ \A x \in Actors \ {a} : blocks'[x] = blocks[x] /\ feedLength'[x] = feedLength[x]
  BY <1>1, <1>3 DEF TypeInv, TypeOK
<1> QED
  BY <1>2, <1>4 DEF Put

LEMMA StoreInvFlush ==
  ASSUME TypeInv, StoreInv, NEW a \in LocalActors, Flush(a)
  PROVE  StoreInv'
<1> DEFINE i == feedLength[a] + 1
<1>1. /\ i \in DOMAIN changes[a] /\ i \notin DOMAIN blocks[a]
      /\ DOMAIN blocks'[a] = DOMAIN blocks[a] \cup {i}
      /\ blocks'[a][i] = changes[a][i]
      /\ \A j \in DOMAIN blocks[a] : blocks'[a][j] = blocks[a][j]
      /\ feedLength'[a] = i
      /\ \A x \in Actors \ {a} : blocks'[x] = blocks[x] /\ feedLength'[x] = feedLength[x]
  BY FlushLog
<1>2. /\ a \in owned /\ actorState[a] \in {"streaming", "ready"}
      /\ UNCHANGED <<cursors, feedInfo, owned, published, actorState, changes, streamEnd,
                     docState, docActor>>
  BY DEF Flush, IsWritable, actorVars, docVars
<1>3. a \in Actors /\ a \notin RemoteActors /\ feedLength[a] \in Nat
  BY ConstantsAssumption DEF ConstantsAssumption, Actors, TypeInv, TypeOK
<1>4. BlocksInFeed'
  <2>1. DOMAIN blocks[a] \subseteq 1..feedLength[a]
    BY <1>3 DEF StoreInv, BlocksInFeed
  <2>2. 1..feedLength[a] \subseteq 1..i /\ i \in 1..i
    BY <1>3
  <2>3. DOMAIN blocks'[a] \subseteq 1..feedLength'[a]
    BY <1>1, <2>1, <2>2
  <2>4. \A x \in RemoteActors : x \in Actors \ {a}
    BY <1>3 DEF Actors
  <2> HIDE DEF i
  <2> QED
    BY <1>1, <1>2, <2>3, <2>4 DEF StoreInv, BlocksInFeed
<1> HIDE DEF i
<1>5. OwnedIsKnown'
  <2>1. \A x \in LocalActors \ {a} : blocks'[x] = blocks[x]
    BY <1>1 DEF Actors
  <2> QED
    BY <1>2, <2>1 DEF StoreInv, OwnedIsKnown
<1>6. OpenHoldsBlocks'
  BY <1>1, <1>2 DEF StoreInv, OpenHoldsBlocks
<1>7. WriterHoldsBlocks'
  <2>1. \A e \in Docs : docState[e] = "ready" => docActor[e] \in Actors
    BY DEF TypeInv, ActorsKnown, Actors
  <2> QED
    BY <1>1, <1>2, <2>1 DEF StoreInv, WriterHoldsBlocks
<1>8. MemoryIsDisk'
  <2>1. \A x \in Actors : \A k \in DOMAIN changes[x] \cap DOMAIN blocks'[x] :
          changes[x][k] = blocks'[x][k]
    BY <1>1 DEF StoreInv, MemoryIsDisk
  <2>2. \A x \in RemoteActors : blocks'[x] = blocks[x]
    BY <1>1, <1>3 DEF Actors
  <2> QED
    BY <1>2, <2>1, <2>2 DEF StoreInv, MemoryIsDisk
<1> QED
  BY <1>4, <1>5, <1>6, <1>7, <1>8 DEF StoreInv

LEMMA StoreInvRemoteAppend ==
  ASSUME TypeInv, StoreInv, NEW a \in RemoteActors, RemoteAppend(a)
  PROVE  StoreInv'
<1>1. UNCHANGED <<cursors, feedInfo, owned, blocks, feedLength, actorState, changes, streamEnd,
                  docState, docActor>>
  BY DEF RemoteAppend, storeVars, actorVars, docVars
<1>2. BlocksInFeed'
  <2>1. published' = [published EXCEPT ![a] = @ + 1]
    BY DEF RemoteAppend
  <2>2. \A x \in RemoteActors : /\ feedLength[x] \in Nat /\ published[x] \in Nat
                                /\ feedLength[x] <= published[x]
    BY DEF TypeInv, TypeOK, StoreInv, BlocksInFeed, Actors
  <2>3. \A x \in RemoteActors : published'[x] >= published[x] /\ published'[x] \in Nat
    BY <2>1, <2>2 DEF TypeInv, TypeOK
  <2>4. \A x \in RemoteActors : feedLength[x] <= published'[x]
    BY <2>2, <2>3
  <2> QED
    BY <1>1, <2>4 DEF StoreInv, BlocksInFeed
<1> QED
  BY <1>1, <1>2 DEF StoreInv, OwnedIsKnown, OpenHoldsBlocks, WriterHoldsBlocks, MemoryIsDisk

LEMMA StoreInvRestart ==
  ASSUME TypeInv, StoreInv, Restart
  PROVE  StoreInv'
<1>1. /\ UNCHANGED <<cursors, feedInfo, owned, blocks, feedLength, published>>
      /\ actorState' = [a \in Actors |-> "none"]
      /\ changes' = [a \in Actors |-> EmptyLog]
      /\ docState' = [d \in Docs |-> "none"]
  BY DEF Restart
<1>2. \A a \in Actors : actorState'[a] = "none" /\ DOMAIN changes'[a] = {}
  BY <1>1 DEF EmptyLog
<1>3. \A d \in Docs : docState'[d] = "none" /\ d \in Actors
  BY <1>1, ConstantsAssumption DEF ConstantsAssumption
<1>4. BlocksInFeed'
  BY <1>1 DEF StoreInv, BlocksInFeed
<1>5. OwnedIsKnown'
  BY <1>1, <1>2, <1>3 DEF StoreInv, OwnedIsKnown
<1>6. OpenHoldsBlocks' /\ WriterHoldsBlocks' /\ MemoryIsDisk'
  BY <1>2, <1>3 DEF OpenHoldsBlocks, WriterHoldsBlocks, MemoryIsDisk, Actors
<1> QED
  BY <1>4, <1>5, <1>6 DEF StoreInv

LEMMA StoreInvNext ==
  ASSUME TypeInv, StoreInv, [Next]_vars
  PROVE  StoreInv'
<1>1. TypeInv'
  BY TypeInvNext
<1>2. \A e \in Docs : DOMAIN cursors[e] \subseteq DOMAIN cursors'[e]
  BY CursorsGrow
<1>3. ASSUME NEW d \in Docs, Create(d) \/ Open(d) \/ LoadInit(d)
      PROVE  StoreInv'
  BY <1>1, <1>2, <1>3, StoreInvLoading
<1>4. ASSUME NEW d \in Docs, Request(d)
      PROVE  StoreInv'
  BY <1>4, StoreInvRequest
<1>5. ASSUME NEW d \in Docs, NEW a \in LocalActors,
             NeedsActorId(d, a) \/ LoadReuse(d, a) \/ LoadFresh(d, a)
      PROVE  StoreInv'
  BY <1>1, <1>2, <1>5, StoreInvLoading
<1>6. ASSUME NEW d \in Docs, NEW src \in Docs, Merge(d, src)
      PROVE  StoreInv'
  BY <1>1, <1>2, <1>6, StoreInvSyncing
<1>7. ASSUME NEW a \in Actors, FeedReady(a) \/ StreamEnd(a)
      PROVE  StoreInv'
  BY <1>7, StoreInvFeedReady, StoreInvStreamEnd
<1>8. ASSUME NEW a \in RemoteActors, RemoteAppend(a) \/ SyncEvent(a)
      PROVE  StoreInv'
  BY <1>1, <1>2, <1>8, StoreInvRemoteAppend, StoreInvSyncing
<1>9. ASSUME NEW a \in RemoteActors, NEW i \in 1..MaxSeq, Download(a, i)
      PROVE  StoreInv'
  BY <1>9, StoreInvDownload
<1>10. ASSUME NEW a \in LocalActors, Flush(a)
       PROVE  StoreInv'
  BY <1>10, StoreInvFlush
<1>11. ASSUME NEW d \in Docs, NEW clock \in PeerClocks, CursorMessage(d, clock)
       PROVE  StoreInv'
  BY <1>1, <1>2, <1>11, StoreInvSyncing
<1>12. CASE Restart
  BY <1>12, StoreInvRestart
<1>13. CASE UNCHANGED vars
  BY <1>13 DEF vars, storeVars, actorVars, docVars, StoreInv,
               BlocksInFeed, OwnedIsKnown, OpenHoldsBlocks, WriterHoldsBlocks, MemoryIsDisk
<1> QED
  BY <1>3, <1>4, <1>5, <1>6, <1>7, <1>8, <1>9, <1>10, <1>11, <1>12, <1>13 DEF Next

-----------------------------------------------------------------------------
(* The logs only grow *)

\* A step that is not a restart keeps every entry of every log in memory.
LEMMA ChangesKept ==
  ASSUME TypeInv, StoreInv, [Next]_vars, ~Restart
  PROVE  \A a \in Actors : \A i \in DOMAIN changes[a] :
           i \in DOMAIN changes'[a] /\ changes'[a][i] = changes[a][i]
<1> DEFINE Kept == \A a \in Actors : \A i \in DOMAIN changes[a] :
                     i \in DOMAIN changes'[a] /\ changes'[a][i] = changes[a][i]
<1>1. CASE UNCHANGED changes
  BY <1>1
<1>2. ASSUME NEW d \in Docs, Request(d)
      PROVE  Kept
  BY <1>2, RequestLog
<1>3. ASSUME NEW a \in Actors, StreamEnd(a)
      PROVE  Kept
  BY <1>3, StreamEndLog
<1>4. ASSUME NEW a \in RemoteActors, NEW i \in 1..MaxSeq, Download(a, i)
      PROVE  Kept
  <2>1. \A x \in Actors \ {a} : changes'[x] = changes[x]
    BY <1>4, DownloadLog
  <2>2. DOMAIN changes[a] \subseteq DOMAIN changes'[a]
    BY <1>4, DownloadLog
  <2>3. \A j \in DOMAIN changes[a] : changes'[a][j] = changes[a][j]
    BY <1>4, DownloadLog
  <2> QED
    BY <2>1, <2>2, <2>3
<1>5. \/ UNCHANGED changes
      \/ \E d \in Docs : Request(d)
      \/ \E a \in Actors : StreamEnd(a)
      \/ \E a \in RemoteActors, i \in 1..MaxSeq : Download(a, i)
  BY DEF Next, vars, actorVars, Create, Open, LoadInit, NeedsActorId, LoadReuse, LoadFresh,
         Merge, FeedReady, RemoteAppend, SyncEvent, Flush, CursorMessage
<1> QED
  BY <1>1, <1>2, <1>3, <1>4, <1>5

\* No step touches a block that is on disk.
LEMMA BlocksKept ==
  ASSUME TypeInv, StoreInv, [Next]_vars
  PROVE  \A a \in Actors : \A i \in DOMAIN blocks[a] :
           i \in DOMAIN blocks'[a] /\ blocks'[a][i] = blocks[a][i]
<1> DEFINE Kept == \A a \in Actors : \A i \in DOMAIN blocks[a] :
                     i \in DOMAIN blocks'[a] /\ blocks'[a][i] = blocks[a][i]
<1>1. CASE UNCHANGED blocks
  BY <1>1
<1>2. ASSUME NEW a \in LocalActors, Flush(a)
      PROVE  Kept
  BY <1>2, FlushLog
<1>3. ASSUME NEW a \in RemoteActors, NEW i \in 1..MaxSeq, Download(a, i)
      PROVE  Kept
  BY <1>3, DownloadLog
<1>4. \/ UNCHANGED blocks
      \/ \E a \in LocalActors : Flush(a)
      \/ \E a \in RemoteActors, i \in 1..MaxSeq : Download(a, i)
  BY DEF Next, vars, storeVars, Create, Open, Request, LoadInit, NeedsActorId, LoadReuse,
         LoadFresh, Merge, FeedReady, StreamEnd, RemoteAppend, SyncEvent, CursorMessage, Restart
<1> QED
  BY <1>1, <1>2, <1>3, <1>4

THEOREM StoreInvariant == Spec => [](TypeInv /\ StoreInv)
<1>1. Init => TypeInv /\ StoreInv
  BY TypeInvInit, StoreInvInit
<1>2. TypeInv /\ StoreInv /\ [Next]_vars => (TypeInv /\ StoreInv)'
  BY TypeInvNext, StoreInvNext
<1> QED
  BY <1>1, <1>2, PTL DEF Spec

\* Neither a cursor nor a peer's clock ever shrinks, and no block on disk is
\* overwritten, across restarts too (CursorStore.update, ClockStore.update,
\* FeedStore.append).
THEOREM StoresOnlyGrow == Spec => StoresGrow
<1>1. TypeInv /\ StoreInv /\ [Next]_vars =>
        [/\ \A d \in Docs : /\ Gte(cursors'[d], cursors[d])
                            /\ Gte(peerClocks'[d], peerClocks[d])
         /\ \A a \in Actors : \A i \in DOMAIN blocks[a] :
              i \in DOMAIN blocks'[a] /\ blocks'[a][i] = blocks[a][i]]_vars
  BY CursorsGrow, PeerClocksGrow, BlocksKept
<1> QED
  BY <1>1, StoreInvariant, PTL DEF Spec, StoresGrow

-----------------------------------------------------------------------------
(* Counted is inductive *)

LEMMA CountedInit == Init => Counted
<1>1. Init => \A d \in Docs : docState[d] = "none" /\ docChanges[d] = NoChanges
  BY DEF Init
<1> QED
  BY <1>1 DEF Counted

\* The counters of a step that changes neither the documents nor their counters.
LEMMA CountedSame ==
  ASSUME Counted, UNCHANGED <<docState, docChanges, back>>,
         \A a \in Actors : \A i \in DOMAIN changes[a] :
           i \in DOMAIN changes'[a] /\ changes'[a][i] = changes[a][i]
  PROVE  Counted'
BY DEF Counted

\* syncChanges counts what it hands to Automerge, whatever runs it.
LEMMA CountedSync ==
  ASSUME TypeInv, Counted,
         NEW A \in SUBSET Actors, NEW written \in SUBSET Docs,
         NEW given \in [Docs -> SUBSET Change],
         NEW cursor \in [Docs -> ClocksOver(Actors, 0..Infinity)], NEW clocks,
         changes' \in [Actors -> Logs],
         SyncChanges(A, written, given, changes', cursor, clocks),
         \A d \in Docs : back[d] \subseteq given[d],
         docState' = docState,
         \A a \in Actors : \A i \in DOMAIN changes[a] :
           i \in DOMAIN changes'[a] /\ changes'[a][i] = changes[a][i]
  PROVE  Counted'
<1>1. /\ \A d \in Docs : given[d] \subseteq back'[d]
      /\ \A d \in Docs, a \in Actors :
           \A i \in (docChanges[d][a] + 1)..docChanges'[d][a] :
             i \in DOMAIN changes'[a] /\ changes'[a][i] \in back'[d]
  BY SyncChangesLemma DEF TypeInv
<1>2. \A d \in Docs : docState[d] # "ready" => docChanges'[d] = docChanges[d]
  BY DEF SyncChanges
<1>3. \A d \in Docs, a \in Actors : docChanges[d][a] \in Nat /\ docChanges'[d][a] \in Int
  <2>1. docChanges' \in [Docs -> [Actors -> 0..MaxSeq]]
    BY SyncChangesLemma DEF TypeInv
  <2> QED
    BY <2>1, ConstantsAssumption DEF ConstantsAssumption, TypeInv, TypeOK
<1>4. ASSUME NEW d \in Docs, NEW a \in Actors, docState[d] \in {"sliced", "ready"},
             NEW i \in 1..docChanges'[d][a]
      PROVE  i \in DOMAIN changes'[a] /\ changes'[a][i] \in back'[d]
  <2>1. CASE i \in 1..docChanges[d][a]
    <3>1. i \in DOMAIN changes[a] /\ changes[a][i] \in back[d]
      BY <1>4, <2>1 DEF Counted
    <3> QED
      BY <1>1, <3>1
  <2>2. CASE i \in (docChanges[d][a] + 1)..docChanges'[d][a]
    BY <1>1, <2>2
  <2> QED
    BY <1>3, <2>1, <2>2
<1> QED
  BY <1>2, <1>4 DEF Counted

\* DocBackend.init counts what it hands to Automerge, if the slices have no hole.
LEMMA CountedDocInit ==
  ASSUME TypeInv, Counted, NEW d \in Docs, NEW holed \in BOOLEAN,
         NEW slices \in SUBSET Change, NEW sliced \in [Actors -> 0..MaxSeq],
         NEW cursor \in ClocksOver(Actors, 0..Infinity),
         DocInit(d, holed, slices, sliced, cursor),
         UNCHANGED changes,
         ~holed => \A a \in Actors : \A i \in 1..sliced[a] :
           i \in DOMAIN changes[a] /\ changes[a][i] \in slices
  PROVE  Counted'
<1>1. /\ docState' = [docState EXCEPT ![d] = IF holed THEN "failed" ELSE "ready"]
      /\ docChanges' \in [Docs -> [Actors -> 0..MaxSeq]]
      /\ \A e \in Docs \ {d} : docChanges'[e] = docChanges[e] /\ back'[e] = back[e]
      /\ ~holed => /\ slices \subseteq back'[d]
                   /\ \A a \in Actors : \A i \in (sliced[a] + 1)..docChanges'[d][a] :
                        i \in DOMAIN changes[a] /\ changes[a][i] \in back'[d]
  <2>1. /\ docState' = [docState EXCEPT ![d] = IF holed THEN "failed" ELSE "ready"]
        /\ docChanges' \in [Docs -> [Actors -> 0..MaxSeq]]
        /\ \A e \in Docs \ {d} : docChanges'[e] = docChanges[e] /\ back'[e] = back[e]
    BY DocInitLemma DEF TypeInv
  <2>2. ASSUME ~holed
        PROVE  slices \subseteq back'[d]
    BY ZenonT(40), <2>2, DocInitLemma DEF TypeInv
  <2>3. ASSUME ~holed
        PROVE  \A a \in Actors :
                 /\ docChanges'[d][a] >= sliced[a]
                 /\ \A i \in (sliced[a] + 1)..docChanges'[d][a] :
                      i \in DOMAIN changes[a] /\ changes[a][i] \in back'[d]
    <3>1. TypeOK
      BY DEF TypeInv
    <3> QED
      BY <2>3, <3>1, DocInitLemma, Zenon
  <2> QED
    BY <2>1, <2>2, <2>3
<1>2. /\ docState'[d] \in {"failed", "ready"}
      /\ docState'[d] = "ready" => ~holed
      /\ \A e \in Docs \ {d} : docState'[e] = docState[e]
  BY <1>1 DEF TypeInv, TypeOK
<1>3. ASSUME NEW a \in Actors, ~holed, NEW i \in 1..docChanges'[d][a]
      PROVE  i \in DOMAIN changes[a] /\ changes[a][i] \in back'[d]
  <2>1. sliced[a] \in Nat /\ docChanges'[d][a] \in Int
    BY <1>1, ConstantsAssumption DEF ConstantsAssumption
  <2>2. i \in 1..sliced[a] \/ i \in (sliced[a] + 1)..docChanges'[d][a]
    BY <2>1
  <2> QED
    BY <1>1, <1>3, <2>2
<1>4. \A e \in Docs : docState'[e] \in {"none", "loading"} => docChanges'[e] = NoChanges
  BY <1>1, <1>2 DEF Counted
<1>5. ASSUME NEW e \in Docs, NEW a \in Actors, docState'[e] \in {"sliced", "ready"},
             NEW i \in 1..docChanges'[e][a]
      PROVE  i \in DOMAIN changes[a] /\ changes[a][i] \in back'[e]
  <2>1. CASE e = d
    BY <1>2, <1>3, <1>5, <2>1
  <2>2. CASE e # d
    BY <1>1, <1>2, <1>5, <2>2 DEF Counted
  <2> QED
    BY <2>1, <2>2
<1> QED
  BY <1>4, <1>5 DEF Counted

\* Slices without a hole hold every change the document will count.
LEMMA SlicesCover ==
  ASSUME TypeInv, NEW d \in Docs, ~HasHole(d)
  PROVE  \A a \in Actors : \A i \in 1..SliceLength(d, a) :
           i \in DOMAIN changes[a] /\ changes[a][i] \in Slices(d)
BY SliceLemma DEF HasHole, TypeInv

LEMMA CountedLoading ==
  ASSUME TypeInv, TypeInv', Counted, NEW d \in Docs,
         \/ Create(d) \/ Open(d) \/ LoadInit(d)
         \/ \E a \in LocalActors : LoadReuse(d, a) \/ LoadFresh(d, a)
  PROVE  Counted'
<1>1. CASE Create(d)
  <2>1. /\ docState[d] = "none" /\ docState' = [docState EXCEPT ![d] = "ready"]
        /\ UNCHANGED <<changes, docChanges, back>>
    BY <1>1 DEF Create
  <2>2. docChanges[d] = NoChanges
    BY <2>1 DEF Counted
  <2>3. \A a \in Actors : 1..docChanges[d][a] = {}
    BY <2>2 DEF NoChanges
  <2>4. \A e \in Docs \ {d} : docState'[e] = docState[e]
    BY <2>1 DEF TypeInv, TypeOK
  <2>5. docState'[d] = "ready"
    BY <2>1 DEF TypeInv, TypeOK
  <2> QED
    BY <2>1, <2>3, <2>4, <2>5 DEF Counted
<1>2. CASE Open(d)
  <2>1. /\ docState[d] = "none" /\ docState' = [docState EXCEPT ![d] = "loading"]
        /\ UNCHANGED <<changes, docChanges, back>>
    BY <1>2 DEF Open
  <2>2. docState'[d] = "loading" /\ \A e \in Docs \ {d} : docState'[e] = docState[e]
    BY <2>1 DEF TypeInv, TypeOK
  <2> QED
    BY <2>1, <2>2 DEF Counted
<1>3. CASE LoadInit(d)
  <2> DEFINE holed == docState[d] = "holed"
  <2>1. /\ docState[d] \in {"sliced", "holed"}
        /\ DocInit(d, holed, back[d], docChanges[d], cursors[d])
        /\ UNCHANGED changes
    BY <1>3 DEF LoadInit, CanInit, actorVars
  <2>2. /\ back[d] \in SUBSET Change /\ docChanges[d] \in [Actors -> 0..MaxSeq]
        /\ cursors[d] \in ClocksOver(Actors, 0..Infinity) /\ holed \in BOOLEAN
    BY DEF TypeInv, TypeOK
  <2>3. ~holed => \A a \in Actors : \A i \in 1..docChanges[d][a] :
          i \in DOMAIN changes[a] /\ changes[a][i] \in back[d]
    BY <2>1 DEF Counted
  <2> HIDE DEF holed
  <2> QED
    BY <2>1, <2>2, <2>3, CountedDocInit
<1>4. ASSUME NEW a \in LocalActors, LoadReuse(d, a)
      PROVE  Counted'
  <2> DEFINE sliced == [x \in Actors |-> SliceLength(d, x)]
  <2>1. /\ docState' = [docState EXCEPT ![d] = IF HasHole(d) THEN "holed" ELSE "sliced"]
        /\ docChanges' = [docChanges EXCEPT ![d] = sliced]
        /\ back' = [back EXCEPT ![d] = Slices(d)]
        /\ UNCHANGED changes
    BY <1>4 DEF LoadReuse, actorVars
  <2>2. docChanges'[d] = sliced /\ back'[d] = Slices(d)
    BY <2>1 DEF TypeInv, TypeOK
  <2>3. docState'[d] = IF HasHole(d) THEN "holed" ELSE "sliced"
    BY <2>1 DEF TypeInv, TypeOK
  <2>4. \A e \in Docs \ {d} : /\ docState'[e] = docState[e]
                              /\ docChanges'[e] = docChanges[e] /\ back'[e] = back[e]
    BY <2>1 DEF TypeInv, TypeOK
  <2>5. docState'[d] \in {"sliced", "ready"} => \A x \in Actors : \A i \in 1..docChanges'[d][x] :
          i \in DOMAIN changes[x] /\ changes[x][i] \in back'[d]
    <3>1. docState'[d] \in {"sliced", "ready"} => ~HasHole(d)
      BY <2>3
    <3>2. \A x \in Actors : docChanges'[d][x] = SliceLength(d, x)
      BY <2>2
    <3> QED
      BY <2>2, <3>1, <3>2, SlicesCover
  <2>6. docState'[d] \notin {"none", "loading"}
    BY <2>3
  <2> QED
    BY <2>1, <2>4, <2>5, <2>6 DEF Counted
<1>5. ASSUME NEW a \in LocalActors, LoadFresh(d, a)
      PROVE  Counted'
  <2> DEFINE sliced == [x \in Actors |-> SliceLength(d, x)]
  <2>1. DocInit(d, HasHole(d), Slices(d), sliced, cursors'[d]) /\ UNCHANGED changes
    BY <1>5 DEF LoadFresh
  <2>2. /\ Slices(d) \in SUBSET Change /\ sliced \in [Actors -> 0..MaxSeq]
        /\ cursors'[d] \in ClocksOver(Actors, 0..Infinity) /\ HasHole(d) \in BOOLEAN
    BY SliceLemma DEF TypeInv, TypeOK, HasHole
  <2>3. ~HasHole(d) => \A x \in Actors : \A i \in 1..sliced[x] :
          i \in DOMAIN changes[x] /\ changes[x][i] \in Slices(d)
    BY SlicesCover
  <2> HIDE DEF sliced
  <2> QED
    BY <2>1, <2>2, <2>3, CountedDocInit
<1> QED
  BY <1>1, <1>2, <1>3, <1>4, <1>5

LEMMA CountedSyncReady ==
  ASSUME TypeInv, TypeInv', Counted, NEW ids \in SUBSET Actors, NEW clocks,
         SyncReadyActors(ids, cursors', clocks), UNCHANGED <<changes, docState>>
  PROVE  Counted'
<1> DEFINE ready == {a \in ids : actorState[a] = "ready"}
<1>1. SyncChanges(ready, {}, back, changes', cursors', clocks)
  BY DEF SyncReadyActors
<1>2. /\ ready \in SUBSET Actors /\ back \in [Docs -> SUBSET Change]
      /\ changes' \in [Actors -> Logs] /\ cursors' \in [Docs -> ClocksOver(Actors, 0..Infinity)]
  BY DEF TypeInv, TypeOK
<1> HIDE DEF ready
<1> QED
  BY <1>1, <1>2, CountedSync

LEMMA CountedSyncing ==
  ASSUME TypeInv, TypeInv', Counted,
         \A a \in Actors : \A i \in DOMAIN changes[a] :
           i \in DOMAIN changes'[a] /\ changes'[a][i] = changes[a][i],
         \/ \E d \in Docs : Request(d)
         \/ \E d, src \in Docs : Merge(d, src)
         \/ \E a \in Actors : StreamEnd(a)
         \/ \E a \in RemoteActors : SyncEvent(a)
         \/ \E d \in Docs, clock \in PeerClocks : CursorMessage(d, clock)
  PROVE  Counted'
<1>1. /\ back \in [Docs -> SUBSET Change] /\ changes' \in [Actors -> Logs]
      /\ cursors \in [Docs -> ClocksOver(Actors, 0..Infinity)]
      /\ RemoteActors \subseteq Actors
  BY DEF TypeInv, TypeOK, Actors
<1>2. ASSUME NEW d \in Docs, Request(d)
      PROVE  Counted'
  <2> DEFINE a == docActor[d]
             c == [actor |-> a, seq |-> NextSeq(d), doc |-> d]
             given == [back EXCEPT ![d] = @ \cup {c}]
  <2>1. /\ SyncChanges({a}, {d}, given, changes', cursors, peerClocks)
        /\ docState' = docState
        /\ docState[d] = "ready" /\ NextSeq(d) <= MaxSeq
    BY <1>2 DEF Request
  <2>2. a \in Actors /\ c \in Change
    <3>1. a \in LocalActors
      BY <2>1 DEF TypeInv, ActorsKnown
    <3>2. NextSeq(d) \in 1..(MaxSeq + 1)
      BY <1>1, NextSeqLemma
    <3>3. NextSeq(d) \in 1..MaxSeq
      BY <2>1, <3>2, ConstantsAssumption DEF ConstantsAssumption
    <3> QED
      BY <3>1, <3>3 DEF Change, Actors
  <2>3. given \in [Docs -> SUBSET Change] /\ \A e \in Docs : back[e] \subseteq given[e]
    BY <1>1, <2>2
  <2> HIDE DEF a, given
  <2> QED
    BY <1>1, <2>1, <2>2, <2>3, CountedSync
<1>3. ASSUME NEW d \in Docs, NEW src \in Docs, Merge(d, src)
      PROVE  Counted'
  <2>1. DOMAIN ClockOf(back[src]) \in SUBSET Actors
    <3>1. back[src] \in SUBSET Change
      BY <1>1
    <3> QED
      BY <3>1 DEF ClockOf, Change
  <2>2. SyncReadyActors(DOMAIN ClockOf(back[src]), cursors', peerClocks)
        /\ UNCHANGED <<changes, docState>>
    BY <1>3 DEF Merge
  <2> QED
    BY <2>1, <2>2, CountedSyncReady
<1>4. ASSUME NEW a \in Actors, StreamEnd(a)
      PROVE  Counted'
  <2> DEFINE A == IF streamEnd[a] > 0 \/ a \in syncWait THEN {a} ELSE {}
  <2>1. A \in SUBSET Actors
    OBVIOUS
  <2>2. SyncChanges(A, {}, back, changes', cursors, peerClocks) /\ docState' = docState
    BY <1>4 DEF StreamEnd
  <2> HIDE DEF A
  <2> QED
    BY <1>1, <2>1, <2>2, CountedSync
<1>5. ASSUME NEW a \in RemoteActors, SyncEvent(a)
      PROVE  Counted'
  <2> DEFINE A == IF actorState[a] \in {"streaming", "ready"} THEN {a} ELSE {}
  <2>1. A \in SUBSET Actors
    BY <1>1
  <2>2. /\ SyncChanges(A, {}, back, changes', cursors, peerClocks)
        /\ docState' = docState
    BY <1>5 DEF SyncEvent
  <2> HIDE DEF A
  <2> QED
    BY <1>1, <2>1, <2>2, CountedSync
<1>6. ASSUME NEW d \in Docs, NEW clock \in PeerClocks, CursorMessage(d, clock)
      PROVE  Counted'
  <2>1. DOMAIN PeerCursor[d] \in SUBSET Actors
    BY ConstantsAssumption DEF ConstantsAssumption, ClocksOver
  <2>2. SyncReadyActors(DOMAIN PeerCursor[d], cursors', peerClocks')
        /\ UNCHANGED <<changes, docState>>
    BY <1>6 DEF CursorMessage
  <2> QED
    BY <2>1, <2>2, CountedSyncReady
<1> QED
  BY <1>2, <1>3, <1>4, <1>5, <1>6

LEMMA CountedNext ==
  ASSUME TypeInv, StoreInv, Counted, [Next]_vars
  PROVE  Counted'
<1>1. TypeInv'
  BY TypeInvNext
<1>2. CASE Restart
  <2>1. \A d \in Docs : docState'[d] = "none" /\ docChanges'[d] = NoChanges
    BY <1>2 DEF Restart
  <2> QED
    BY <2>1 DEF Counted
<1>3. CASE ~Restart
  <2>1. \A a \in Actors : \A i \in DOMAIN changes[a] :
          i \in DOMAIN changes'[a] /\ changes'[a][i] = changes[a][i]
    BY <1>3, ChangesKept
  <2>2. ASSUME NEW d \in Docs, Create(d) \/ Open(d) \/ LoadInit(d)
        PROVE  Counted'
    BY <1>1, <2>2, CountedLoading
  <2>3. ASSUME NEW d \in Docs, NEW a \in LocalActors, LoadReuse(d, a) \/ LoadFresh(d, a)
        PROVE  Counted'
    BY <1>1, <2>3, CountedLoading
  <2>4. ASSUME NEW d \in Docs, NEW a \in LocalActors, NeedsActorId(d, a)
        PROVE  Counted'
    BY <2>1, <2>4, CountedSame DEF NeedsActorId, docVars
  <2>5. ASSUME NEW d \in Docs, Request(d)
        PROVE  Counted'
    BY <1>1, <2>1, <2>5, CountedSyncing
  <2>6. ASSUME NEW d \in Docs, NEW src \in Docs, Merge(d, src)
        PROVE  Counted'
    BY <1>1, <2>1, <2>6, CountedSyncing
  <2>7. ASSUME NEW a \in Actors, StreamEnd(a)
        PROVE  Counted'
    BY <1>1, <2>1, <2>7, CountedSyncing
  <2>8. ASSUME NEW a \in RemoteActors, SyncEvent(a)
        PROVE  Counted'
    BY <1>1, <2>1, <2>8, CountedSyncing
  <2>9. ASSUME NEW d \in Docs, NEW clock \in PeerClocks, CursorMessage(d, clock)
        PROVE  Counted'
    BY <1>1, <2>1, <2>9, CountedSyncing
  <2>10. ASSUME UNCHANGED <<docState, docChanges, back>>
         PROVE  Counted'
    BY <2>1, <2>10, CountedSame
  <2>11. \/ \E d \in Docs : Create(d) \/ Open(d) \/ Request(d) \/ LoadInit(d)
         \/ \E d \in Docs, a \in LocalActors :
              NeedsActorId(d, a) \/ LoadReuse(d, a) \/ LoadFresh(d, a)
         \/ \E d, src \in Docs : Merge(d, src)
         \/ \E a \in Actors : StreamEnd(a)
         \/ \E a \in RemoteActors : SyncEvent(a)
         \/ \E d \in Docs, clock \in PeerClocks : CursorMessage(d, clock)
         \/ UNCHANGED <<docState, docChanges, back>>
    BY <1>3 DEF Next, vars, docVars, FeedReady, RemoteAppend, Download, Flush
  <2> QED
    BY <2>2, <2>3, <2>4, <2>5, <2>6, <2>7, <2>8, <2>9, <2>10, <2>11
<1> QED
  BY <1>2, <1>3

THEOREM Invariant == Spec => []IInv
<1>1. Init => IInv
  BY TypeInvInit, StoreInvInit, CountedInit DEF IInv
<1>2. IInv /\ [Next]_vars => IInv'
  BY TypeInvNext, StoreInvNext, CountedNext DEF IInv
<1> QED
  BY <1>1, <1>2, PTL DEF Spec

\* What a ready document counts in doc.changes it has given to Automerge: no
\* block is skipped, whatever order blocks, cursors and callbacks come in
\* (DocBackend.init, RepoBackend.syncChanges).
THEOREM NothingSkipped == Spec => []CountedIsApplied
<1>1. IInv => CountedIsApplied
  BY DEF IInv, Counted, CountedIsApplied
<1> QED
  BY <1>1, Invariant, PTL
=============================================================================
