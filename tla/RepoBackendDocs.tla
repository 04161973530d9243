--------------------------- MODULE RepoBackendDocs ---------------------------
(***************************************************************************)
(* Theorems about what the documents of RepoBackend show, for every value  *)
(* of the constants: a document never misses the wake-up for a block that  *)
(* is in memory; two documents write to one feed of ours only where a      *)
(* merge brought one the actor of the other; and as long as none was given *)
(* such an actor, a feed holds the changes of its author in order, a       *)
(* document shows what its cursor selects, and a local change that reached *)
(* the disk is shown.                                                      *)
(***************************************************************************)
EXTENDS RepoBackendProofs

-----------------------------------------------------------------------------
(* No wake-up is lost *)

\* The next block that the cursor of document d selects is in memory.
Lags(d, a) == docChanges[d][a] < At(cursors[d], a) /\ docChanges[d][a] + 1 \in DOMAIN changes[a]

\* A callback that will sync actor a is due: its feed's "sync" event, the
\* callback of a syncReadyActors, or the end of its read stream.
Coming(a) ==
  \/ a \in unsynced
  \/ a \in syncWait
  \/ actorState[a] = "streaming" /\ streamEnd[a] > 0

\* ... or a closure of syncChanges waits on doc.ready.
Due(d, a) == Coming(a) \/ (docState[d] \in {"loading", "sliced"} /\ a \in readyQ[d])

\* The actors that a loading document awaits are sliced, not synced.
Wakes(d, a) ==
  /\ docState[d] \in {"loading", "sliced", "ready"}
  /\ docState[d] = "loading" => a \notin loadIds[d]
  /\ Lags(d, a)
  => Due(d, a)

\* A syncReadyActors callback waits for an actor that is being opened.
WaitsForOpening == \A a \in syncWait : actorState[a] \notin {"none", "ready"}

\* A root actor of ours that was written to, or that a document writes to, is
\* the root of a document with a cursor.
RootsKnown ==
  \A a \in LocalActors \cap Docs :
    DOMAIN changes[a] # {} \/ (\E d \in Docs : docActor[d] = a) => DOMAIN cursors[a] # {}

WakeInv ==
  /\ WaitsForOpening
  /\ RootsKnown
  /\ \A d \in Docs, a \in Actors : Wakes(d, a)

-----------------------------------------------------------------------------
(* The parts of the argument *)

LEMMA EntriesAreNumbers ==
  ASSUME TypeOK, NEW d \in Docs, NEW a \in Actors
  PROVE  At(cursors[d], a) \in 0..Infinity /\ docChanges[d][a] \in 0..MaxSeq
<1> USE ConstantsAssumption DEF ConstantsAssumption
<1>1. 0..Infinity \in SUBSET Nat /\ cursors[d] \in ClocksOver(Actors, 0..Infinity)
  BY DEF TypeOK
<1>2. \A x \in DOMAIN cursors[d] : cursors[d][x] \in 0..Infinity
  BY <1>1, ClocksOverAreClocks
<1>3. At(cursors[d], a) \in 0..Infinity
  BY <1>2 DEF At
<1> QED
  BY <1>3 DEF TypeOK

\* Where a closure of syncChanges ran, the document has what it can have.
LEMMA PulledStops ==
  ASSUME NEW A \in SUBSET Actors, NEW had \in [Actors -> 0..MaxSeq],
         NEW log \in [Actors -> Logs], NEW cursor \in ClocksOver(Actors, 0..Infinity),
         NEW a \in A
  PROVE  ~(/\ Pulled(A, had, log, cursor)[a] < At(cursor, a)
           /\ Pulled(A, had, log, cursor)[a] + 1 \in DOMAIN log[a])
<1> USE ConstantsAssumption DEF ConstantsAssumption
<1>1. At(cursor, a) \in Nat
  <2>1. \A x \in DOMAIN cursor : cursor[x] \in 0..Infinity
    BY ClocksOverAreClocks
  <2> QED
    BY <2>1 DEF At
<1> DEFINE i == Reach(log[a], had[a], At(cursor, a))
<1>2. i \in had[a]..MaxSeq /\ ~(i + 1 <= At(cursor, a) /\ i + 1 \in DOMAIN log[a])
  BY <1>1, ReachLemma
<1>3. had[a] \in 0..MaxSeq
  OBVIOUS
<1>4. Pulled(A, had, log, cursor)[a] = i
  BY DEF Pulled
<1> HIDE DEF i
<1> QED
  BY <1>1, <1>2, <1>3, <1>4

\* A step that leaves document d and actor a as they were, or that makes a
\* callback due.
LEMMA WakesKept ==
  ASSUME NEW d \in Docs, NEW a \in Actors, Wakes(d, a),
         docState'[d] \in {"loading", "sliced", "ready"} =>
           \/ Coming(a)'
           \/ DOMAIN changes'[a] = {}
           \/ /\ docState'[d] = docState[d] /\ docChanges'[d][a] = docChanges[d][a]
              /\ loadIds'[d] = loadIds[d] /\ readyQ[d] \subseteq readyQ'[d]
              /\ At(cursors'[d], a) = At(cursors[d], a)
              /\ DOMAIN changes'[a] = DOMAIN changes[a]
              /\ Coming(a) => Coming(a)'
  PROVE  Wakes(d, a)'
BY DEF Wakes, Lags, Due

\* syncChanges: an actor that is not synced must be as it was, or be due.
LEMMA WakesSync ==
  ASSUME TypeInv, TypeInv', NEW A \in SUBSET Actors, NEW written, NEW given, NEW clocks,
         SyncChanges(A, written, given, changes', cursors', clocks),
         UNCHANGED <<docState, loadIds>>,
         NEW d \in Docs, NEW a \in Actors, Wakes(d, a),
         a \notin A =>
           \/ Coming(a)'
           \/ DOMAIN changes'[a] = {}
           \/ /\ At(cursors'[d], a) = At(cursors[d], a)
              /\ DOMAIN changes'[a] = DOMAIN changes[a]
              /\ Coming(a) => Coming(a)'
  PROVE  Wakes(d, a)'
<1> USE ConstantsAssumption DEF ConstantsAssumption
<1> DEFINE due == A \cap DOMAIN cursors'[d]
<1>1. /\ readyQ'[d] = IF IsLoading(d) THEN readyQ[d] \cup due ELSE readyQ[d]
      /\ docChanges'[d] = IF docState[d] = "ready"
                          THEN Pulled(due, docChanges[d], changes', cursors'[d])
                          ELSE docChanges[d]
  BY DEF SyncChanges
<1>2. /\ due \in SUBSET Actors /\ docChanges[d] \in [Actors -> 0..MaxSeq]
      /\ changes' \in [Actors -> Logs] /\ cursors'[d] \in ClocksOver(Actors, 0..Infinity)
  BY DEF TypeInv, TypeOK
<1>3. CASE a \in due
  <2>1. CASE docState[d] = "ready"
    <3>1. docChanges'[d] = Pulled(due, docChanges[d], changes', cursors'[d])
      BY <1>1, <2>1
    <3>2. ~Lags(d, a)'
      <4> HIDE DEF due
      <4> QED
        BY <1>2, <1>3, <3>1, PulledStops DEF Lags
    <3> QED
      BY <3>2 DEF Wakes
  <2>2. CASE docState[d] \in {"loading", "sliced"}
    <3>1. a \in readyQ'[d] /\ docState'[d] = docState[d]
      BY <1>1, <1>3, <2>2 DEF IsLoading
    <3> QED
      BY <2>2, <3>1 DEF Wakes, Due
  <2>3. CASE docState[d] \notin {"loading", "sliced", "ready"}
    <3>1. docState'[d] = docState[d]
      OBVIOUS
    <3> QED
      BY <2>3, <3>1 DEF Wakes
  <2> QED
    BY <2>1, <2>2, <2>3
<1>4. CASE a \in A /\ a \notin due
  <2>1. At(cursors'[d], a) = 0
    BY <1>4 DEF At
  <2>2. docChanges'[d][a] \in 0..MaxSeq
    BY DEF TypeInv, TypeOK
  <2>3. ~(docChanges'[d][a] < 0)
    BY <2>2
  <2> QED
    BY <2>1, <2>3 DEF Wakes, Lags
<1>5. CASE a \notin A
  <2>1. a \in Actors \ due
    BY <1>5
  <2> HIDE DEF due
  <2>2. docChanges'[d][a] = docChanges[d][a]
    BY <1>1, <2>1 DEF Pulled
  <2>3. readyQ[d] \subseteq readyQ'[d] /\ docState'[d] = docState[d] /\ loadIds'[d] = loadIds[d]
    BY <1>1
  <2>4. \/ Coming(a)'
        \/ DOMAIN changes'[a] = {}
        \/ /\ At(cursors'[d], a) = At(cursors[d], a)
           /\ DOMAIN changes'[a] = DOMAIN changes[a]
           /\ Coming(a) => Coming(a)'
    BY <1>5
  <2>5. \/ Coming(a)'
        \/ DOMAIN changes'[a] = {}
        \/ /\ docState'[d] = docState[d] /\ docChanges'[d][a] = docChanges[d][a]
           /\ loadIds'[d] = loadIds[d] /\ readyQ[d] \subseteq readyQ'[d]
           /\ At(cursors'[d], a) = At(cursors[d], a)
           /\ DOMAIN changes'[a] = DOMAIN changes[a]
           /\ Coming(a) => Coming(a)'
    BY <2>2, <2>3, <2>4, Zenon
  <2> QED
    BY <2>5, WakesKept, Zenon
<1> QED
  BY <1>3, <1>4, <1>5

\* An actor that a cursor does not gain keeps its entry.
LEMMA AtWidened ==
  ASSUME TypeOK, NEW d \in Docs, NEW c \in ClocksOver(Actors, 0..Infinity),
         cursors' = [cursors EXCEPT ![d] = Union(@, c)]
  PROVE  \A e \in Docs, a \in Actors :
           /\ a \notin DOMAIN c => At(cursors'[e], a) = At(cursors[e], a)
           /\ e # d => cursors'[e] = cursors[e]
<1> SUFFICES ASSUME NEW e \in Docs, NEW a \in Actors
             PROVE  /\ a \notin DOMAIN c => At(cursors'[e], a) = At(cursors[e], a)
                    /\ e # d => cursors'[e] = cursors[e]
  OBVIOUS
<1>1. IsClock(cursors[d])
  BY StoredAreClocks
<1>2. IsClock(c)
  <2>1. 0..Infinity \in SUBSET Nat
    BY ConstantsAssumption DEF ConstantsAssumption
  <2> QED
    BY <2>1, ClocksOverAreClocks
<1>3. CASE e # d
  BY <1>3 DEF TypeOK
<1>4. CASE e = d
  <2>1. cursors'[e] = Union(cursors[d], c)
    BY <1>4 DEF TypeOK
  <2>2. a \notin DOMAIN c => At(c, a) = 0 /\ At(cursors[d], a) \in Nat
    BY <1>1 DEF At, IsClock
  <2> QED
    BY <1>1, <1>2, <1>4, <2>1, <2>2, AtUnion
<1> QED
  BY <1>3, <1>4

\* syncReadyActors: an actor it is not given is left alone, and one that is
\* not ready gets a callback.
LEMMA WakesSyncReady ==
  ASSUME TypeInv, TypeInv', WakeInv, NEW d \in Docs,
         NEW c \in ClocksOver(Actors, 0..Infinity), NEW clocks,
         cursors' = [cursors EXCEPT ![d] = Union(@, c)],
         SyncReadyActors(DOMAIN c, cursors', clocks),
         UNCHANGED <<changes, streamEnd, unsynced, docState, loadIds>>
  PROVE  WaitsForOpening' /\ \A e \in Docs, a \in Actors : Wakes(e, a)'
<1> DEFINE ids == DOMAIN c
           ready == {a \in ids : actorState[a] = "ready"}
<1>1. /\ actorState' = [a \in Actors |->
           IF a \in ids /\ actorState[a] = "none" THEN "opening" ELSE actorState[a]]
      /\ syncWait' = syncWait \cup (ids \ ready)
      /\ SyncChanges(ready, {}, back, changes', cursors', clocks)
  BY DEF SyncReadyActors
<1>2. ids \in SUBSET Actors /\ ready \in SUBSET Actors
  BY DEF ClocksOver
<1>3. WaitsForOpening'
  BY <1>1, <1>2 DEF WakeInv, WaitsForOpening, TypeInv, TypeOK
<1>4. ASSUME NEW e \in Docs, NEW a \in Actors
      PROVE  Wakes(e, a)'
  <2>1. a \in ids /\ a \notin ready => Coming(a)'
    BY <1>1 DEF Coming
  <2>2. a \notin ids => /\ At(cursors'[e], a) = At(cursors[e], a)
                        /\ Coming(a) => Coming(a)'
    <3>1. a \notin DOMAIN c => At(cursors'[e], a) = At(cursors[e], a)
      <4>1. TypeOK
        BY DEF TypeInv
      <4> HIDE DEF ids, ready
      <4> QED
        BY <4>1, AtWidened
    <3> QED
      BY <1>1, <3>1 DEF Coming
  <2>3. a \notin ready =>
          \/ Coming(a)'
          \/ DOMAIN changes'[a] = {}
          \/ /\ At(cursors'[e], a) = At(cursors[e], a)
             /\ DOMAIN changes'[a] = DOMAIN changes[a]
             /\ Coming(a) => Coming(a)'
    BY <2>1, <2>2
  <2>4. Wakes(e, a) /\ UNCHANGED <<docState, loadIds>>
    BY DEF WakeInv
  <2>5. SyncChanges(ready, {}, back, changes', cursors', clocks)
    BY <1>1
  <2> HIDE DEF ids, ready
  <2> QED
    BY <1>2, <2>3, <2>4, <2>5, WakesSync, Zenon
<1> QED
  BY <1>3, <1>4

-----------------------------------------------------------------------------
(* WakeInv is inductive *)

LEMMA RootsKnownNext ==
  ASSUME IInv, RootsKnown, [Next]_vars
  PROVE  RootsKnown'
<1> SUFFICES ASSUME NEW a \in LocalActors \cap Docs,
                    DOMAIN changes'[a] # {} \/ \E d \in Docs : docActor'[d] = a
             PROVE  DOMAIN cursors'[a] # {}
  BY DEF RootsKnown
<1> USE DEF IInv
<1>1. DOMAIN cursors[a] \subseteq DOMAIN cursors'[a]
  BY CursorsGrow
<1>2. a \in Actors /\ a \notin RemoteActors
  BY ConstantsAssumption DEF ConstantsAssumption
<1>3. a \in owned => DOMAIN cursors[a] # {}
  BY DEF StoreInv, OwnedIsKnown
<1>4. CASE DOMAIN changes'[a] # {} /\ DOMAIN changes[a] = {}
  <2>1. CASE Restart
    BY <1>2, <1>4, <2>1 DEF Restart, EmptyLog
  <2>2. ASSUME NEW d \in Docs, Request(d)
        PROVE  DOMAIN cursors[a] # {}
    <3>1. \A x \in Actors \ {docActor[d]} : changes'[x] = changes[x]
      BY <2>2, RequestLog
    <3>2. docActor[d] = a
      BY <1>2, <1>4, <3>1
    <3> QED
      BY <3>2 DEF RootsKnown
  <2>3. ASSUME NEW x \in Actors, StreamEnd(x)
        PROVE  DOMAIN cursors[a] # {}
    <3>1. \A y \in Actors \ {x} : changes'[y] = changes[y]
      BY <2>3, StreamEndLog
    <3>2. x = a
      BY <1>2, <1>4, <3>1
    <3>3. /\ 1..streamEnd[a] \subseteq DOMAIN blocks[a]
          /\ DOMAIN changes'[a] = DOMAIN changes[a] \cup 1..streamEnd[a]
      BY <2>3, <3>2, StreamEndLog
    <3>4. DOMAIN blocks[a] # {}
      BY <1>4, <3>3
    <3> QED
      BY <1>3, <3>4 DEF StoreInv, OwnedIsKnown
  <2>4. ASSUME NEW x \in RemoteActors, NEW i \in 1..MaxSeq, Download(x, i)
        PROVE  FALSE
    <3>1. \A y \in Actors \ {x} : changes'[y] = changes[y]
      BY <2>4, DownloadLog
    <3> QED
      BY <1>2, <1>4, <3>1
  <2>5. \/ UNCHANGED changes \/ Restart
        \/ \E d \in Docs : Request(d)
        \/ \E x \in Actors : StreamEnd(x)
        \/ \E x \in RemoteActors, i \in 1..MaxSeq : Download(x, i)
    BY DEF Next, vars, actorVars, Create, Open, LoadInit, NeedsActorId, LoadReuse, LoadFresh,
           Merge, FeedReady, RemoteAppend, SyncEvent, Flush, CursorMessage
  <2> QED
    BY <1>1, <1>4, <2>1, <2>2, <2>3, <2>4, <2>5
<1>5. ASSUME NEW d \in Docs, docActor'[d] = a, docActor[d] # a
      PROVE  DOMAIN cursors'[a] # {}
  <2>1. CASE Restart
    BY <1>2, <1>5, <2>1, ConstantsAssumption DEF ConstantsAssumption, Restart
  <2>2. ASSUME NEW e \in Docs, Create(e)
        PROVE  DOMAIN cursors'[a] # {}
    <3>1. e = a
      BY <1>5, <2>2 DEF Create, TypeInv, TypeOK
    <3>2. cursors'[a] = Union(cursors[a], Entry(a, Infinity))
      BY <2>2, <3>1 DEF Create, AddActor, TypeInv, TypeOK
    <3> QED
      BY <3>2 DEF Union, Entry
  <2>3. ASSUME NEW e \in Docs, NEW x \in LocalActors, LoadReuse(e, x)
        PROVE  DOMAIN cursors'[a] # {}
    <3>1. x = a
      BY <1>5, <2>3 DEF LoadReuse, TypeInv, TypeOK
    <3> QED
      BY <1>1, <1>3, <2>3, <3>1 DEF LoadReuse, WritableIn, IsWritable
  <2>4. ASSUME NEW e \in Docs, NEW x \in LocalActors, LoadFresh(e, x)
        PROVE  FALSE
    <3>1. x = a
      BY <1>5, <2>4 DEF LoadFresh, TypeInv, TypeOK
    <3> QED
      BY <2>4, <3>1 DEF LoadFresh, IsFresh
  <2>5. \/ UNCHANGED docActor \/ Restart
        \/ \E e \in Docs : Create(e)
        \/ \E e \in Docs, x \in LocalActors : LoadReuse(e, x) \/ LoadFresh(e, x)
    BY DEF Next, vars, docVars, Open, Request, LoadInit, NeedsActorId, Merge, FeedReady,
           StreamEnd, RemoteAppend, SyncEvent, Download, Flush, CursorMessage
  <2> QED
    BY <1>5, <2>1, <2>2, <2>3, <2>4, <2>5
<1>6. CASE DOMAIN changes[a] # {} \/ \E d \in Docs : docActor[d] = a
  BY <1>1, <1>6 DEF RootsKnown
<1> QED
  BY <1>4, <1>5, <1>6

\* A document without a cursor has a root actor that nobody wrote to.
LEMMA NewRootIsEmpty ==
  ASSUME RootsKnown, NEW d \in Docs, Create(d)
  PROVE  DOMAIN changes[d] = {}
BY DEF RootsKnown, Create

LEMMA WakesCreate ==
  ASSUME IInv, WakeInv, NEW d \in Docs, Create(d)
  PROVE  WaitsForOpening' /\ \A e \in Docs, a \in Actors : Wakes(e, a)'
<1> USE DEF IInv
<1>1. /\ actorState' = [actorState EXCEPT ![d] = "creating"]
      /\ docState' = [docState EXCEPT ![d] = "ready"]
      /\ docState[d] = "none" /\ DOMAIN cursors[d] = {}
      /\ cursors' = [cursors EXCEPT ![d] = Union(@, Entry(d, Infinity))]
      /\ UNCHANGED <<changes, streamEnd, syncWait, unsynced, docChanges, readyQ, loadIds>>
  BY DEF Create, AddActor
<1>2. d \in Actors /\ DOMAIN changes[d] = {}
  BY NewRootIsEmpty, ConstantsAssumption DEF ConstantsAssumption, WakeInv
<1>3. WaitsForOpening'
  BY <1>1 DEF WakeInv, WaitsForOpening, TypeInv, TypeOK
<1>4. ASSUME NEW e \in Docs, NEW a \in Actors, e # d
      PROVE  Wakes(e, a)'
  <2>1. cursors'[e] = cursors[e] /\ docState'[e] = docState[e]
    BY <1>1, <1>4 DEF TypeInv, TypeOK
  <2>2. CASE a = d
    BY <1>1, <1>2, <2>2 DEF Wakes, Lags
  <2>3. CASE a # d
    <3>1. Coming(a) => Coming(a)'
      BY <1>1, <2>3 DEF Coming, TypeInv, TypeOK
    <3>2. Wakes(e, a)
      BY DEF WakeInv
    <3> QED
      BY <1>1, <2>1, <3>1, <3>2, WakesKept
  <2> QED
    BY <2>2, <2>3
<1>5. ASSUME NEW a \in Actors
      PROVE  Wakes(d, a)'
  <2>1. CASE a = d
    BY <1>1, <1>2, <2>1 DEF Wakes, Lags
  <2>2. CASE a # d
    <3>1. DOMAIN cursors'[d] = {d}
      BY <1>1 DEF TypeInv, TypeOK, Union, Entry
    <3>2. At(cursors'[d], a) = 0
      BY <2>2, <3>1 DEF At
    <3>3. ~(docChanges[d][a] < 0)
      <4>1. docChanges[d][a] \in 0..MaxSeq
        BY EntriesAreNumbers DEF TypeInv
      <4> QED
        BY <4>1
    <3> QED
      BY <1>1, <3>2, <3>3 DEF Wakes, Lags
  <2> QED
    BY <2>1, <2>2
<1> QED
  BY <1>3, <1>4, <1>5

LEMMA WakesOpen ==
  ASSUME IInv, WakeInv, NEW d \in Docs, Open(d)
  PROVE  WaitsForOpening' /\ \A e \in Docs, a \in Actors : Wakes(e, a)'
<1> USE DEF IInv
<1>1. /\ actorState' = [a \in Actors |->
           IF a \in DOMAIN cursors'[d] /\ actorState[a] = "none" THEN "opening" ELSE actorState[a]]
      /\ docState' = [docState EXCEPT ![d] = "loading"]
      /\ loadIds' = [loadIds EXCEPT ![d] = DOMAIN cursors'[d]]
      /\ cursors' = [cursors EXCEPT ![d] = Union(@, Entry(d, Infinity))]
      /\ UNCHANGED <<changes, streamEnd, syncWait, unsynced, docChanges, readyQ>>
  BY DEF Open, AddActor
<1>2. WaitsForOpening'
  BY <1>1 DEF WakeInv, WaitsForOpening, TypeInv, TypeOK
<1>3. ASSUME NEW e \in Docs, NEW a \in Actors, e # d
      PROVE  Wakes(e, a)'
  <2>1. /\ cursors'[e] = cursors[e] /\ docState'[e] = docState[e]
        /\ loadIds'[e] = loadIds[e]
    BY <1>1, <1>3 DEF TypeInv, TypeOK
  <2>2. Coming(a) => Coming(a)'
    BY <1>1 DEF Coming, TypeInv, TypeOK
  <2>3. Wakes(e, a)
    BY DEF WakeInv
  <2> QED
    BY <1>1, <2>1, <2>2, <2>3, WakesKept
<1>4. ASSUME NEW a \in Actors
      PROVE  Wakes(d, a)'
  <2>1. docState'[d] = "loading" /\ loadIds'[d] = DOMAIN cursors'[d]
    BY <1>1 DEF TypeInv, TypeOK
  <2>2. CASE a \in DOMAIN cursors'[d]
    BY <2>1, <2>2 DEF Wakes
  <2>3. CASE a \notin DOMAIN cursors'[d]
    <3>1. At(cursors'[d], a) = 0 /\ docChanges'[d][a] = docChanges[d][a]
      BY <1>1, <2>3 DEF At
    <3>2. ~(docChanges[d][a] < 0)
      <4>1. docChanges[d][a] \in 0..MaxSeq
        BY EntriesAreNumbers DEF TypeInv
      <4> QED
        BY <4>1
    <3> QED
      BY <3>1, <3>2 DEF Wakes, Lags
  <2> QED
    BY <2>2, <2>3
<1> QED
  BY <1>2, <1>3, <1>4

LEMMA WakesNeedsActorId ==
  ASSUME IInv, WakeInv, NEW d \in Docs, NEW f \in LocalActors, NeedsActorId(d, f)
  PROVE  WaitsForOpening' /\ \A e \in Docs, a \in Actors : Wakes(e, a)'
<1> USE DEF IInv
<1>1. /\ actorState[f] = "none" /\ f \in Actors
      /\ actorState' = [actorState EXCEPT ![f] = "creating"]
      /\ cursors' = [cursors EXCEPT ![d] = Union(@, Entry(f, Infinity))]
      /\ UNCHANGED <<changes, streamEnd, syncWait, unsynced, docState, docChanges, readyQ, loadIds>>
  BY DEF NeedsActorId, IsFresh, AddActor, docVars, Actors
<1>2. WaitsForOpening'
  BY <1>1 DEF WakeInv, WaitsForOpening, TypeInv, TypeOK
<1>3. DOMAIN changes[f] = {}
  BY <1>1 DEF StoreInv, OpenHoldsBlocks
<1>4. ASSUME NEW e \in Docs, NEW a \in Actors
      PROVE  Wakes(e, a)'
  <2>1. CASE a = f
    BY <1>1, <1>3, <2>1 DEF Wakes, Lags
  <2>2. CASE a # f
    <3>1. At(cursors'[e], a) = At(cursors[e], a)
      <4>1. Entry(f, Infinity) \in ClocksOver(Actors, 0..Infinity)
        BY <1>1, EntryInClocksOver
      <4>2. a \notin DOMAIN Entry(f, Infinity)
        BY <2>2 DEF Entry
      <4>3. TypeOK
        BY DEF TypeInv
      <4> QED
        BY ZenonT(40), <1>1, <4>1, <4>2, <4>3, AtWidened
    <3>2. Coming(a) => Coming(a)'
      BY <1>1 DEF Coming, TypeInv, TypeOK
    <3>3. Wakes(e, a)
      BY DEF WakeInv
    <3> QED
      BY <1>1, <3>1, <3>2, <3>3, WakesKept
  <2> QED
    BY <2>1, <2>2
<1> QED
  BY <1>2, <1>4

\* Of an actor that loadDocument awaited, the slice is all the cursor selects.
LEMMA SlicedStops ==
  ASSUME TypeOK, NEW d \in Docs, NEW a \in loadIds[d], a \in Actors
  PROVE  ~(SliceLength(d, a) < At(cursors[d], a) /\ SliceLength(d, a) + 1 \in DOMAIN changes[a])
<1>1. Length(changes[a]) \in 0..MaxSeq /\ DOMAIN changes[a] \subseteq 1..Length(changes[a])
  BY LengthLemma DEF TypeOK
<1>2. At(cursors[d], a) \in 0..Infinity
  BY EntriesAreNumbers
<1>3. SliceLength(d, a) = IF Length(changes[a]) <= At(cursors[d], a)
                          THEN Length(changes[a]) ELSE At(cursors[d], a)
  BY DEF SliceLength
<1>4. Length(changes[a]) + 1 \notin DOMAIN changes[a]
  BY <1>1, ConstantsAssumption DEF ConstantsAssumption
<1> QED
  BY <1>1, <1>2, <1>3, <1>4, ConstantsAssumption DEF ConstantsAssumption

\* An actor that a loading document did not await wakes it as before.
LEMMA NotAwaited ==
  ASSUME Counted, NEW d \in Docs, NEW a \in Actors, docState[d] = "loading",
         a \notin loadIds[d], Wakes(d, a),
         0 < At(cursors[d], a), 1 \in DOMAIN changes[a]
  PROVE  Due(d, a) /\ SliceLength(d, a) = 0
<1>1. docChanges[d] = NoChanges
  BY DEF Counted
<1>2. docChanges[d][a] = 0
  BY <1>1 DEF NoChanges
<1>3. 0 + 1 = 1
  OBVIOUS
<1> QED
  BY <1>2, <1>3 DEF Wakes, Lags, SliceLength

LEMMA WakesLoadReuse ==
  ASSUME IInv, WakeInv, NEW d \in Docs, NEW f \in LocalActors, LoadReuse(d, f)
  PROVE  WaitsForOpening' /\ \A e \in Docs, a \in Actors : Wakes(e, a)'
<1> USE DEF IInv
<1> DEFINE sliced == [x \in Actors |-> SliceLength(d, x)]
<1>1. /\ docState' = [docState EXCEPT ![d] = IF HasHole(d) THEN "holed" ELSE "sliced"]
      /\ docChanges' = [docChanges EXCEPT ![d] = sliced]
      /\ docState[d] = "loading"
      /\ UNCHANGED <<cursors, actorState, changes, streamEnd, syncWait, unsynced, readyQ, loadIds>>
  BY DEF LoadReuse, CanSlice, storeVars, actorVars
<1>2. WaitsForOpening'
  BY <1>1 DEF WakeInv, WaitsForOpening
<1>3. \A a \in Actors : Coming(a) => Coming(a)'
  BY <1>1 DEF Coming
<1>4. ASSUME NEW e \in Docs, NEW a \in Actors, e # d
      PROVE  Wakes(e, a)'
  <2>1. docState'[e] = docState[e] /\ docChanges'[e] = docChanges[e]
    BY <1>1, <1>4 DEF TypeInv, TypeOK
  <2>2. Wakes(e, a)
    BY DEF WakeInv
  <2> HIDE DEF sliced
  <2> QED
    BY <1>1, <1>3, <2>1, <2>2, WakesKept
<1>5. ASSUME NEW a \in Actors, docState'[d] = "sliced", Lags(d, a)'
      PROVE  Due(d, a)'
  <2>1. docChanges'[d][a] = SliceLength(d, a)
    BY <1>1 DEF TypeInv, TypeOK
  <2> HIDE DEF sliced
  <2>2. SliceLength(d, a) < At(cursors[d], a) /\ SliceLength(d, a) + 1 \in DOMAIN changes[a]
    BY <1>1, <1>5, <2>1 DEF Lags
  <2>3. a \notin loadIds[d]
    BY <2>2, SlicedStops DEF TypeInv
  <2>4. SliceLength(d, a) = 0
    BY <2>3 DEF SliceLength
  <2>5. 0 < At(cursors[d], a) /\ 1 \in DOMAIN changes[a]
    BY <2>2, <2>4
  <2>6. Wakes(d, a)
    BY DEF WakeInv
  <2>7. Due(d, a)
    BY <1>1, <2>3, <2>5, <2>6, NotAwaited
  <2> QED
    BY <1>1, <1>3, <1>5, <2>7 DEF Due
<1>6. docState'[d] \in {"holed", "sliced"}
  BY <1>1 DEF TypeInv, TypeOK
<1> QED
  BY <1>2, <1>4, <1>5, <1>6 DEF Wakes

LEMMA WakesLoadInit ==
  ASSUME IInv, WakeInv, NEW d \in Docs, LoadInit(d)
  PROVE  WaitsForOpening' /\ \A e \in Docs, a \in Actors : Wakes(e, a)'
<1> USE DEF IInv
<1>1. /\ docState[d] \in {"sliced", "holed"}
      /\ DocInit(d, docState[d] = "holed", back[d], docChanges[d], cursors[d])
      /\ UNCHANGED <<cursors, actorState, changes, streamEnd, syncWait, unsynced, loadIds>>
  BY DEF LoadInit, CanInit, actorVars
<1>2. WaitsForOpening'
  BY <1>1 DEF WakeInv, WaitsForOpening
<1>3. \A a \in Actors : Coming(a) => Coming(a)'
  BY <1>1 DEF Coming
<1>4. ASSUME NEW e \in Docs, NEW a \in Actors, e # d
      PROVE  Wakes(e, a)'
  <2>1. docState'[e] = docState[e] /\ docChanges'[e] = docChanges[e] /\ readyQ'[e] = readyQ[e]
    BY <1>1, <1>4 DEF DocInit, TypeInv, TypeOK
  <2>2. Wakes(e, a)
    BY DEF WakeInv
  <2> QED
    BY <1>1, <1>3, <2>1, <2>2, WakesKept
<1>5. ASSUME NEW a \in Actors, docState[d] = "sliced"
      PROVE  Wakes(d, a)'
  <2>1. /\ docState'[d] = "ready"
        /\ docChanges'[d] = Pulled(readyQ[d], docChanges[d], changes, cursors[d])
    BY <1>1, <1>5 DEF DocInit, TypeInv, TypeOK
  <2>2. /\ readyQ[d] \in SUBSET Actors /\ docChanges[d] \in [Actors -> 0..MaxSeq]
        /\ changes \in [Actors -> Logs] /\ cursors[d] \in ClocksOver(Actors, 0..Infinity)
    BY DEF TypeInv, TypeOK
  <2>3. CASE a \in readyQ[d]
    <3>1. ~Lags(d, a)'
      BY <1>1, <2>1, <2>2, <2>3, PulledStops DEF Lags
    <3> QED
      BY <3>1 DEF Wakes
  <2>4. CASE a \notin readyQ[d]
    <3>1. docChanges'[d][a] = docChanges[d][a]
      BY <2>1, <2>4 DEF Pulled
    <3>2. Wakes(d, a)
      BY DEF WakeInv
    <3> QED
      BY <1>1, <1>3, <1>5, <2>4, <3>1, <3>2 DEF Wakes, Lags, Due
  <2> QED
    BY <2>3, <2>4
<1>6. docState[d] = "holed" => docState'[d] = "failed"
  BY <1>1 DEF DocInit, TypeInv, TypeOK
<1> QED
  BY <1>1, <1>2, <1>4, <1>5, <1>6 DEF Wakes

LEMMA WakesLoadFresh ==
  ASSUME IInv, IInv', WakeInv, NEW d \in Docs, NEW f \in LocalActors, LoadFresh(d, f)
  PROVE  WaitsForOpening' /\ \A e \in Docs, a \in Actors : Wakes(e, a)'
<1> USE DEF IInv
<1> DEFINE sliced == [x \in Actors |-> SliceLength(d, x)]
<1>1. /\ docState[d] = "loading" /\ actorState[f] = "none" /\ f \in Actors
      /\ actorState' = [actorState EXCEPT ![f] = "creating"]
      /\ cursors' = [cursors EXCEPT ![d] = Union(@, Entry(f, Infinity))]
      /\ DocInit(d, HasHole(d), Slices(d), sliced, cursors'[d])
      /\ UNCHANGED <<changes, streamEnd, syncWait, unsynced, loadIds>>
  BY DEF LoadFresh, CanSlice, IsFresh, AddActor, Actors
<1>2. WaitsForOpening'
  BY <1>1 DEF WakeInv, WaitsForOpening, TypeInv, TypeOK
<1>3. \A a \in Actors : Coming(a) => Coming(a)'
  BY <1>1 DEF Coming, TypeInv, TypeOK
<1>4. DOMAIN changes[f] = {}
  BY <1>1 DEF StoreInv, OpenHoldsBlocks
<1>5. ASSUME NEW e \in Docs, NEW a \in Actors, e # d
      PROVE  Wakes(e, a)'
  <2>1. /\ docState'[e] = docState[e] /\ docChanges'[e] = docChanges[e]
        /\ readyQ'[e] = readyQ[e] /\ cursors'[e] = cursors[e]
    BY <1>1, <1>5 DEF DocInit, TypeInv, TypeOK
  <2>2. Wakes(e, a)
    BY DEF WakeInv
  <2> HIDE DEF sliced
  <2> QED
    BY <1>1, <1>3, <2>1, <2>2, WakesKept
<1>6. ASSUME NEW a \in Actors, docState'[d] = "ready", Lags(d, a)'
      PROVE  Due(d, a)'
  <2>1. docChanges'[d] = Pulled(readyQ[d], sliced, changes, cursors'[d])
    BY <1>1, <1>6 DEF DocInit, TypeInv, TypeOK
  <2>2. sliced \in [Actors -> 0..MaxSeq]
    BY SliceLemma DEF TypeInv
  <2>3. /\ readyQ[d] \in SUBSET Actors
        /\ changes \in [Actors -> Logs] /\ cursors'[d] \in ClocksOver(Actors, 0..Infinity)
    BY DEF TypeInv, TypeOK
  <2>4. a \notin readyQ[d]
    <3> SUFFICES ASSUME a \in readyQ[d]
                 PROVE  FALSE
      OBVIOUS
    <3> HIDE DEF sliced
    <3>1. ~(/\ Pulled(readyQ[d], sliced, changes, cursors'[d])[a] < At(cursors'[d], a)
            /\ Pulled(readyQ[d], sliced, changes, cursors'[d])[a] + 1 \in DOMAIN changes[a])
      BY <2>2, <2>3, PulledStops
    <3> QED
      BY <1>1, <1>6, <2>1, <3>1 DEF Lags
  <2>5. docChanges'[d][a] = SliceLength(d, a)
    BY <2>1, <2>4 DEF Pulled
  <2> HIDE DEF sliced
  <2>6. a # f
    BY <1>1, <1>4, <1>6 DEF Lags
  <2>7. At(cursors'[d], a) = At(cursors[d], a)
    <3>1. Entry(f, Infinity) \in ClocksOver(Actors, 0..Infinity)
      BY <1>1, EntryInClocksOver
    <3>2. a \notin DOMAIN Entry(f, Infinity)
      BY <2>6 DEF Entry
    <3>3. TypeOK /\ cursors' = [cursors EXCEPT ![d] = Union(@, Entry(f, Infinity))]
      BY <1>1 DEF TypeInv
    <3>4. \A e \in Docs, x \in Actors : x \notin DOMAIN Entry(f, Infinity) =>
            At(cursors'[e], x) = At(cursors[e], x)
      BY ZenonT(40), <3>1, <3>3, AtWidened
    <3> QED
      BY <3>2, <3>4
  <2>8. SliceLength(d, a) < At(cursors[d], a) /\ SliceLength(d, a) + 1 \in DOMAIN changes[a]
    BY <1>1, <1>6, <2>5, <2>7 DEF Lags
  <2>9. a \notin loadIds[d]
    BY <2>8, SlicedStops DEF TypeInv
  <2>10. SliceLength(d, a) = 0
    BY <2>9 DEF SliceLength
  <2>11. 0 < At(cursors[d], a) /\ 1 \in DOMAIN changes[a]
    BY <2>8, <2>10
  <2>12. Wakes(d, a)
    BY DEF WakeInv
  <2>13. Due(d, a)
    BY <1>1, <2>9, <2>11, <2>12, NotAwaited
  <2> QED
    BY <1>3, <2>4, <2>13 DEF Due
<1>7. docState'[d] \in {"failed", "ready"}
  BY <1>1 DEF DocInit, TypeInv, TypeOK
<1> QED
  BY <1>2, <1>5, <1>6, <1>7 DEF Wakes

LEMMA WakesFeedReady ==
  ASSUME IInv, WakeInv, NEW f \in Actors, FeedReady(f)
  PROVE  WaitsForOpening' /\ \A e \in Docs, a \in Actors : Wakes(e, a)'
<1> USE DEF IInv
<1>1. /\ actorState[f] \in {"creating", "opening"}
      /\ actorState' = [actorState EXCEPT ![f] = "streaming"]
      /\ streamEnd' = [streamEnd EXCEPT ![f] = feedLength[f]]
      /\ UNCHANGED <<cursors, changes, syncWait, unsynced, docState, docChanges, readyQ, loadIds>>
  BY DEF FeedReady, docVars, StreamLength
<1>2. WaitsForOpening'
  BY <1>1 DEF WakeInv, WaitsForOpening, TypeInv, TypeOK
<1>3. \A a \in Actors : Coming(a) => Coming(a)'
  BY <1>1 DEF Coming, TypeInv, TypeOK
<1>4. ASSUME NEW e \in Docs, NEW a \in Actors
      PROVE  Wakes(e, a)'
  BY <1>1, <1>3, WakesKept DEF WakeInv
<1> QED
  BY <1>2, <1>4

LEMMA WakesStreamEnd ==
  ASSUME IInv, IInv', WakeInv, NEW f \in Actors, StreamEnd(f)
  PROVE  WaitsForOpening' /\ \A e \in Docs, a \in Actors : Wakes(e, a)'
<1> USE DEF IInv
<1> DEFINE A == IF streamEnd[f] > 0 \/ f \in syncWait THEN {f} ELSE {}
<1>1. /\ actorState' = [actorState EXCEPT ![f] = "ready"]
      /\ syncWait' = syncWait \ {f}
      /\ SyncChanges(A, {}, back, changes', cursors', peerClocks)
      /\ UNCHANGED <<cursors, streamEnd, unsynced, docState, loadIds>>
  BY DEF StreamEnd
<1>2. WaitsForOpening'
  BY <1>1 DEF WakeInv, WaitsForOpening, TypeInv, TypeOK
<1>3. ASSUME NEW a \in Actors, a \notin A
      PROVE  DOMAIN changes'[a] = DOMAIN changes[a] /\ (Coming(a) => Coming(a)')
  <2>1. CASE a # f
    <3>1. changes'[a] = changes[a]
      BY <2>1, StreamEndLog
    <3> QED
      BY <1>1, <2>1, <3>1 DEF Coming, TypeInv, TypeOK
  <2>2. CASE a = f
    <3>1. ~(streamEnd[f] > 0) /\ f \notin syncWait
      BY <1>3, <2>2
    <3>2. streamEnd[f] \in 0..MaxSeq
      BY DEF TypeInv, TypeOK
    <3>3. 1..streamEnd[f] = {}
      BY <3>1, <3>2
    <3>4. DOMAIN changes'[f] = DOMAIN changes[f]
      BY <3>3, StreamEndLog
    <3> QED
      BY <1>1, <2>2, <3>1, <3>4 DEF Coming
  <2> QED
    BY <2>1, <2>2
<1>4. ASSUME NEW e \in Docs, NEW a \in Actors
      PROVE  Wakes(e, a)'
  <2>1. A \in SUBSET Actors
    OBVIOUS
  <2> HIDE DEF A
  <2>2. Wakes(e, a) /\ UNCHANGED <<docState, loadIds>>
    BY <1>1 DEF WakeInv
  <2>3. a \notin A => /\ At(cursors'[e], a) = At(cursors[e], a)
                      /\ DOMAIN changes'[a] = DOMAIN changes[a]
                      /\ Coming(a) => Coming(a)'
    BY <1>1, <1>3
  <2>4. SyncChanges(A, {}, back, changes', cursors', peerClocks)
    BY <1>1
  <2> QED
    BY <2>1, <2>2, <2>3, <2>4, WakesSync, Zenon
<1> QED
  BY <1>2, <1>4

LEMMA WakesSyncEvent ==
  ASSUME IInv, IInv', WakeInv, NEW f \in RemoteActors, SyncEvent(f)
  PROVE  WaitsForOpening' /\ \A e \in Docs, a \in Actors : Wakes(e, a)'
<1> USE DEF IInv
<1> DEFINE A == IF actorState[f] \in {"streaming", "ready"} THEN {f} ELSE {}
<1>1. /\ unsynced' = unsynced \ {f}
      /\ SyncChanges(A, {}, back, changes', cursors', peerClocks)
      /\ UNCHANGED <<cursors, actorState, changes, streamEnd, syncWait, docState, loadIds>>
  BY DEF SyncEvent
<1>2. WaitsForOpening'
  BY <1>1 DEF WakeInv, WaitsForOpening
<1>3. f \in Actors /\ f \notin LocalActors
  BY ConstantsAssumption DEF ConstantsAssumption, Actors
<1>4. ASSUME NEW a \in Actors, a \notin A
      PROVE  DOMAIN changes'[a] = {} \/ (Coming(a) => Coming(a)')
  <2>1. CASE a # f
    BY <1>1, <2>1 DEF Coming
  <2>2. CASE a = f
    <3>1. actorState[f] \notin {"streaming", "ready"}
      BY <1>4, <2>2
    <3>2. actorState[f] \in {"none", "opening"}
      BY <1>3, <3>1 DEF TypeInv, TypeOK, ActorsKnown
    <3>3. DOMAIN changes[f] = {}
      BY <1>3, <3>2 DEF StoreInv, OpenHoldsBlocks
    <3> QED
      BY <1>1, <2>2, <3>3
  <2> QED
    BY <2>1, <2>2
<1>5. ASSUME NEW e \in Docs, NEW a \in Actors
      PROVE  Wakes(e, a)'
  <2>1. A \in SUBSET Actors
    BY <1>3
  <2> HIDE DEF A
  <2>2. Wakes(e, a) /\ UNCHANGED <<docState, loadIds>>
    BY <1>1 DEF WakeInv
  <2>3. a \notin A => \/ DOMAIN changes'[a] = {}
                      \/ /\ At(cursors'[e], a) = At(cursors[e], a)
                         /\ DOMAIN changes'[a] = DOMAIN changes[a]
                         /\ Coming(a) => Coming(a)'
    BY <1>1, <1>4
  <2>4. SyncChanges(A, {}, back, changes', cursors', peerClocks)
    BY <1>1
  <2> QED
    BY <2>1, <2>2, <2>3, <2>4, WakesSync, Zenon
<1> QED
  BY <1>2, <1>5

LEMMA WakesDownload ==
  ASSUME IInv, WakeInv, NEW f \in RemoteActors, NEW i \in 1..MaxSeq, Download(f, i)
  PROVE  WaitsForOpening' /\ \A e \in Docs, a \in Actors : Wakes(e, a)'
<1> USE DEF IInv
<1>1. /\ unsynced' = unsynced \cup {f}
      /\ UNCHANGED <<cursors, actorState, streamEnd, syncWait, docState, docChanges, readyQ, loadIds>>
  BY DEF Download, docVars
<1>2. WaitsForOpening'
  BY <1>1 DEF WakeInv, WaitsForOpening
<1>3. ASSUME NEW e \in Docs, NEW a \in Actors
      PROVE  Wakes(e, a)'
  <2>1. CASE a = f
    <3>1. Coming(a)'
      BY <1>1, <2>1 DEF Coming
    <3> QED
      BY <3>1 DEF Wakes, Due
  <2>2. CASE a # f
    <3>1. changes'[a] = changes[a]
      BY <2>2, DownloadLog
    <3>2. Coming(a) => Coming(a)'
      BY <1>1, <2>2 DEF Coming
    <3>3. Wakes(e, a)
      BY DEF WakeInv
    <3> QED
      BY <1>1, <3>1, <3>2, <3>3, WakesKept
  <2> QED
    BY <2>1, <2>2
<1> QED
  BY <1>2, <1>3

LEMMA WakesRequest ==
  ASSUME IInv, IInv', WakeInv, NEW d \in Docs, Request(d)
  PROVE  WaitsForOpening' /\ \A e \in Docs, a \in Actors : Wakes(e, a)'
<1> USE DEF IInv
<1> DEFINE A == {docActor[d]}
           given == [back EXCEPT ![d] = @ \cup {[actor |-> docActor[d], seq |-> NextSeq(d), doc |-> d]}]
<1>1. /\ docState[d] = "ready"
      /\ SyncChanges(A, {d}, given, changes', cursors', peerClocks)
      /\ UNCHANGED <<cursors, actorState, streamEnd, syncWait, unsynced, docState, loadIds>>
  BY DEF Request
<1>2. WaitsForOpening'
  BY <1>1 DEF WakeInv, WaitsForOpening
<1>3. A \in SUBSET Actors
  BY <1>1 DEF TypeInv, ActorsKnown, Actors
<1>4. \A a \in Actors : a \notin A => changes'[a] = changes[a]
  BY RequestLog
<1>5. \A a \in Actors : Coming(a) => Coming(a)'
  BY <1>1 DEF Coming
<1> HIDE DEF A, given
<1>6. ASSUME NEW e \in Docs, NEW a \in Actors
      PROVE  Wakes(e, a)'
  <2>1. Wakes(e, a) /\ UNCHANGED <<docState, loadIds>>
    BY <1>1 DEF WakeInv
  <2>2. a \notin A => /\ At(cursors'[e], a) = At(cursors[e], a)
                      /\ DOMAIN changes'[a] = DOMAIN changes[a]
                      /\ Coming(a) => Coming(a)'
    BY <1>1, <1>4, <1>5
  <2>3. SyncChanges(A, {d}, given, changes', cursors', peerClocks)
    BY <1>1
  <2> QED
    BY <1>3, <2>1, <2>2, <2>3, WakesSync, Zenon
<1> QED
  BY <1>2, <1>6

LEMMA WakeInvInit == Init => WakeInv
<1> SUFFICES ASSUME Init
             PROVE  WakeInv
  OBVIOUS
<1>1. WaitsForOpening
  BY DEF Init, WaitsForOpening
<1>2. RootsKnown
  <2>1. \A a \in LocalActors \cap Docs : DOMAIN changes[a] = {}
    BY ConstantsAssumption DEF ConstantsAssumption, Init, EmptyLog
  <2>2. \A d \in Docs : docActor[d] \notin Actors
    BY ConstantsAssumption DEF ConstantsAssumption, Init
  <2> QED
    BY <2>1, <2>2 DEF RootsKnown, Actors
<1>3. \A d \in Docs, a \in Actors : Wakes(d, a)
  BY DEF Init, Wakes
<1> QED
  BY <1>1, <1>2, <1>3 DEF WakeInv

LEMMA WakeInvNext ==
  ASSUME IInv, IInv', WakeInv, [Next]_vars
  PROVE  WakeInv'
<1> DEFINE Kept == WaitsForOpening' /\ \A e \in Docs, a \in Actors : Wakes(e, a)'
<1>1. RootsKnown'
  BY RootsKnownNext DEF WakeInv
<1>2. ASSUME NEW d \in Docs, Create(d) \/ Open(d) \/ Request(d) \/ LoadInit(d)
      PROVE  Kept
  BY <1>2, WakesCreate, WakesOpen, WakesRequest, WakesLoadInit
<1>3. ASSUME NEW d \in Docs, NEW a \in LocalActors,
             NeedsActorId(d, a) \/ LoadReuse(d, a) \/ LoadFresh(d, a)
      PROVE  Kept
  BY <1>3, WakesNeedsActorId, WakesLoadReuse, WakesLoadFresh
<1>4. ASSUME NEW d \in Docs, NEW src \in Docs, Merge(d, src)
      PROVE  Kept
  <2>1. back[src] \in SUBSET Change
    BY DEF IInv, TypeInv, TypeOK
  <2>2. ClockOf(back[src]) \in ClocksOver(Actors, 0..Infinity)
    BY <2>1, ClockOfLemma, BoundedIsInClocksOver
  <2>3. /\ cursors' = [cursors EXCEPT ![d] = Union(@, ClockOf(back[src]))]
        /\ SyncReadyActors(DOMAIN ClockOf(back[src]), cursors', peerClocks)
        /\ UNCHANGED <<changes, streamEnd, unsynced, docState, loadIds>>
    BY <1>4 DEF Merge
  <2> QED
    BY <2>2, <2>3, WakesSyncReady DEF IInv
<1>5. ASSUME NEW a \in Actors, FeedReady(a) \/ StreamEnd(a)
      PROVE  Kept
  BY <1>5, WakesFeedReady, WakesStreamEnd
<1>6. ASSUME NEW a \in RemoteActors, SyncEvent(a)
      PROVE  Kept
  BY <1>6, WakesSyncEvent
<1>7. ASSUME NEW a \in RemoteActors, NEW i \in 1..MaxSeq, Download(a, i)
      PROVE  Kept
  BY <1>7, WakesDownload
<1>8. ASSUME NEW d \in Docs, NEW clock \in PeerClocks, CursorMessage(d, clock)
      PROVE  Kept
  <2>1. PeerCursor[d] \in ClocksOver(Actors, 0..Infinity)
    BY ConstantsAssumption DEF ConstantsAssumption
  <2>2. /\ cursors' = [cursors EXCEPT ![d] = Union(@, PeerCursor[d])]
        /\ SyncReadyActors(DOMAIN PeerCursor[d], cursors', peerClocks')
        /\ UNCHANGED <<changes, streamEnd, unsynced, docState, loadIds>>
    BY <1>8 DEF CursorMessage
  <2> QED
    BY <2>1, <2>2, WakesSyncReady DEF IInv
<1>9. ASSUME Restart
      PROVE  Kept
  <2>1. syncWait' = {} /\ \A d \in Docs : docState'[d] = "none"
    BY <1>9 DEF Restart
  <2> QED
    BY <2>1 DEF WaitsForOpening, Wakes
<1>10. ASSUME UNCHANGED <<cursors, actorState, changes, streamEnd, syncWait, unsynced, docVars>>
       PROVE  Kept
  BY <1>10 DEF WakeInv, WaitsForOpening, Wakes, Lags, Due, Coming, docVars
<1>11. \/ \E a \in RemoteActors : RemoteAppend(a)
       \/ \E a \in LocalActors : Flush(a)
       \/ UNCHANGED vars
       => UNCHANGED <<cursors, actorState, changes, streamEnd, syncWait, unsynced, docVars>>
  BY DEF RemoteAppend, Flush, vars, storeVars, actorVars, docVars
<1>12. Kept
  <2> HIDE DEF Kept
  <2> QED
    BY <1>2, <1>3, <1>4, <1>5, <1>6, <1>7, <1>8, <1>9, <1>10, <1>11 DEF Next
<1> QED
  BY <1>1, <1>12 DEF WakeInv

THEOREM WakeInvariant == Spec => [](IInv /\ WakeInv)
<1>1. Init => WakeInv
  BY WakeInvInit
<1>2. IInv /\ IInv' /\ WakeInv /\ [Next]_vars => WakeInv'
  BY WakeInvNext
<1> QED
  BY <1>1, <1>2, Invariant, PTL DEF Spec

\* A ready document never lags behind blocks that are in memory and that its
\* cursor selects, unless a callback that will sync that actor is due: no
\* wake-up is lost between downloads, cursor messages, merges and loading
\* (RepoBackend.syncReadyActors, syncChanges, Actor.onDownload, onSync).
THEOREM NoWakeupIsLost == Spec => []NoLostWakeup
<1>1. IInv /\ WakeInv => NoLostWakeup
  <2> SUFFICES ASSUME IInv, WakeInv, NEW d \in Docs, NEW a \in Actors,
                      docState[d] = "ready", actorState[a] = "ready", a \notin unsynced,
                      docChanges[d][a] < At(cursors[d], a),
                      docChanges[d][a] + 1 \in DOMAIN changes[a]
               PROVE  FALSE
    BY DEF NoLostWakeup
  <2>1. Due(d, a)
    BY DEF WakeInv, Wakes, Lags
  <2>2. a \in syncWait
    BY <2>1 DEF Due, Coming
  <2> QED
    BY <2>2 DEF WakeInv, WaitsForOpening
<1> QED
  BY <1>1, WakeInvariant, PTL

-----------------------------------------------------------------------------
(* Whose changes a feed of ours holds *)

\* An actor of ours belongs to the document in whose cursor this repository
\* put it: as the root, for the user to write with, or when the document was
\* loaded.  One that a merge or a peer's cursor brought is another document's.
Belongs(a, d) == a \in DOMAIN cursors[d] \ brought[d]

\* The changes of an actor, in memory and on disk.
Held(a) == {changes[a][i] : i \in DOMAIN changes[a]} \cup {blocks[a][i] : i \in DOMAIN blocks[a]}

\* An actor of ours belongs to one document, whose cursor has all of it; a
\* root actor belongs to its own.
OneOwner ==
  \A a \in LocalActors, d \in Docs : Belongs(a, d) =>
    /\ cursors[d][a] = Infinity
    /\ a \in Docs => a = d
    /\ \A e \in Docs : Belongs(a, e) => e = d

\* The root of a document that is open, or that is ours, is in its cursor.
RootsInCursor ==
  /\ \A d \in Docs : docState[d] # "none" => d \in DOMAIN cursors[d]
  /\ \A d \in Docs \cap LocalActors : DOMAIN cursors[d] # {} => d \in DOMAIN cursors[d]

\* What was brought is in the cursor.
BroughtInCursor == \A d \in Docs : brought[d] \subseteq DOMAIN cursors[d]

\* The writer of a document is in its cursor, and belongs to it unless the
\* document borrowed it.
WritersKnown == \A d \in Docs : docActor[d] # NoActor => docActor[d] \in DOMAIN cursors[d]
WritersOwn   == \A d \in Docs \ borrowed : docActor[d] # NoActor => Belongs(docActor[d], d)

\* A change is in a feed that the cursor of its document names.
HeldKnown == \A a \in LocalActors : \A c \in Held(a) : c.doc \in Docs /\ a \in DOMAIN cursors[c.doc]

\* A document that is not loaded shows nothing and has no writer.
NotLoaded ==
  \A d \in Docs :
    /\ docState[d] = "none" => back[d] = {}
    /\ docState[d] \in {"none", "loading"} => docActor[d] = NoActor

\* A log of ours has no holes.
Contiguous == \A a \in LocalActors : \A i \in DOMAIN changes[a] : 1..i \subseteq DOMAIN changes[a]

\* What holds whatever is merged.
OwnerInv ==
  /\ OneOwner
  /\ RootsInCursor
  /\ BroughtInCursor
  /\ WritersKnown
  /\ WritersOwn
  /\ HeldKnown
  /\ NotLoaded
  /\ Contiguous

\* What an actor of ours holds is of one document, the one it belongs to.
OneDocument ==
  \A a \in LocalActors : \A c \in Held(a) :
    /\ \A d \in Docs : Belongs(a, d) => c.doc = d
    /\ \A x \in Held(a) : x.doc = c.doc

\* What was written was written to an actor that belongs to a document.
HasOwner == \A a \in LocalActors : Held(a) # {} => \E d \in Docs : Belongs(a, d)

\* Document d has all of the actor a that belongs to it, or will take it when
\* doc.ready is drained; of an actor it did not await there is nothing.
HasAll(a, d) ==
  /\ docState[d] = "loading" /\ a \notin loadIds[d] => Held(a) = {}
  /\ docState[d] \in {"sliced", "ready"} => DOMAIN blocks[a] \subseteq DOMAIN changes[a]
  /\ docState[d] = "sliced" => docChanges[d][a] = Length(changes[a]) \/ a \in readyQ[d]
  /\ docState[d] = "ready"  => docChanges[d][a] = Length(changes[a])

Complete == \A a \in LocalActors, d \in Docs : Belongs(a, d) => HasAll(a, d)

\* What a document shows is the part of the logs that its cursor selects and
\* it counts.
ShownAs(counted, shown, cursor, logs) ==
  /\ \A a \in Actors : counted[a] <= At(cursor, a)
  /\ shown = Collected(NoChanges, counted, logs)

Shown ==
  \A d \in Docs : docState[d] \in {"sliced", "ready"} =>
    ShownAs(docChanges[d], back[d], cursors[d], changes)

\* What holds as long as no document writes with an actor of another one.
DocInv ==
  /\ OneDocument
  /\ HasOwner
  /\ Complete
  /\ Shown
  /\ FeedOrder

-----------------------------------------------------------------------------
(* Who writes to a feed of ours, and what a step adds to it *)

\* What a merge or a peer brings is added to the cursor in the same step, and
\* was not there before.
LEMMA BroughtStep ==
  ASSUME TypeInv, TypeInv', [Next]_vars, NEW d \in Docs
  PROVE  /\ brought[d] \subseteq brought'[d]
         /\ brought'[d] \subseteq brought[d] \cup (DOMAIN cursors'[d] \ DOMAIN cursors[d])
<1> DEFINE Kept == /\ brought[d] \subseteq brought'[d]
                   /\ brought'[d] \subseteq brought[d] \cup (DOMAIN cursors'[d] \ DOMAIN cursors[d])
<1>1. ASSUME UNCHANGED brought
      PROVE  Kept
  BY <1>1
<1>2. ASSUME NEW e \in Docs, NEW clock, brought' = Brought(e, clock),
             cursors' = [cursors EXCEPT ![e] = Union(@, clock)]
      PROVE  Kept
  <2>1. CASE e # d
    <3>1. brought'[d] = brought[d]
      BY <1>2, <2>1 DEF Brought, TypeInv, TypeOK
    <3> QED
      BY <3>1
  <2>2. CASE e = d
    <3>1. /\ brought'[d] = brought[d] \cup (DOMAIN clock \ DOMAIN cursors[d])
          /\ cursors'[d] = Union(cursors[d], clock)
      BY <1>2, <2>2 DEF Brought, TypeInv, TypeOK
    <3>2. DOMAIN cursors'[d] = DOMAIN cursors[d] \cup DOMAIN clock
      BY <3>1 DEF Union
    <3> QED
      BY <3>1, <3>2
  <2> QED
    BY <2>1, <2>2
<1>3. \/ UNCHANGED brought
      \/ \E e \in Docs, src \in Docs : Merge(e, src)
      \/ \E e \in Docs, clock \in PeerClocks : CursorMessage(e, clock)
  BY DEF Next, vars, histVars, Create, Open, Request, LoadInit, NeedsActorId, LoadReuse, LoadFresh,
         FeedReady, StreamEnd, RemoteAppend, SyncEvent, Download, Flush, Restart
<1> HIDE DEF Kept
<1>4. Kept
  <2>1. ASSUME NEW e \in Docs, NEW src \in Docs, Merge(e, src)
        PROVE  Kept
    BY <1>2, <2>1 DEF Merge
  <2>2. ASSUME NEW e \in Docs, NEW clock \in PeerClocks, CursorMessage(e, clock)
        PROVE  Kept
    BY <1>2, <2>2 DEF CursorMessage
  <2> QED
    BY <1>1, <1>3, <2>1, <2>2
<1> QED
  BY <1>4 DEF Kept

LEMMA BroughtInCursorNext ==
  ASSUME TypeInv, TypeInv', BroughtInCursor, [Next]_vars
  PROVE  BroughtInCursor'
BY BroughtStep, CursorsGrow DEF BroughtInCursor

\* An actor stays with its document.
LEMMA BelongsKept ==
  ASSUME TypeInv, TypeInv', [Next]_vars, NEW a, NEW d \in Docs, Belongs(a, d)
  PROVE  Belongs(a, d)'
BY BroughtStep, CursorsGrow DEF Belongs

\* The actor has changed hands in this step: a key pair that was never used
\* went to document d.
IsNew(a, d) ==
  /\ Held(a) = {}
  /\ cursors'[d][a] = Infinity
  /\ a \in Docs => a = d
  /\ \A e \in Docs : ~Belongs(a, e) /\ (Belongs(a, e)' => e = d)

OwnersKept ==
  \A a \in LocalActors, d \in Docs : Belongs(a, d)' => Belongs(a, d) \/ IsNew(a, d)

\* What was in the cursor belonged to the document before, if it does now.
LEMMA OnlyNewOwners ==
  ASSUME TypeInv, TypeInv', [Next]_vars, NEW a, NEW d \in Docs, Belongs(a, d)'
  PROVE  Belongs(a, d) \/ a \notin DOMAIN cursors[d]
BY BroughtStep DEF Belongs

\* A step that gives the unused actor f to document d.
LEMMA OwnersGiven ==
  ASSUME TypeInv, TypeInv', [Next]_vars, NEW d \in Docs, NEW f \in LocalActors,
         cursors' = AddActor(d, f), Held(f) = {}, f \in Docs => f = d,
         \A e \in Docs : ~Belongs(f, e)
  PROVE  OwnersKept
<1>1. f \in Actors
  BY DEF Actors
<1>2. /\ cursors'[d] = Union(cursors[d], Entry(f, Infinity))
      /\ \A e \in Docs \ {d} : cursors'[e] = cursors[e]
  BY DEF AddActor, TypeInv, TypeOK
<1>3. DOMAIN cursors'[d] = DOMAIN cursors[d] \cup {f}
  BY <1>2 DEF Union, Entry
<1>4. cursors'[d][f] = Infinity
  <2>1. At(cursors[d], f) \in 0..Infinity
    BY <1>1, EntriesAreNumbers DEF TypeInv
  <2>2. cursors'[d][f] = Larger(At(cursors[d], f), Infinity)
    BY <1>2 DEF Union, Entry, At
  <2> QED
    BY <2>1, <2>2, ConstantsAssumption DEF ConstantsAssumption, Larger
<1>5. ASSUME NEW a \in LocalActors, NEW e \in Docs, Belongs(a, e)'
      PROVE  Belongs(a, e) \/ (a = f /\ e = d)
  <2>1. Belongs(a, e) \/ a \notin DOMAIN cursors[e]
    BY <1>5, OnlyNewOwners
  <2>2. a \in DOMAIN cursors'[e]
    BY <1>5 DEF Belongs
  <2> QED
    BY <1>2, <1>3, <2>1, <2>2
<1>6. Belongs(f, d)' => IsNew(f, d)
  BY <1>4, <1>5 DEF IsNew
<1> QED
  BY <1>5, <1>6 DEF OwnersKept

\* A key pair that was never used holds nothing and belongs to nobody.
LEMMA FreshIsUnowned ==
  ASSUME TypeInv, StoreInv, NEW f \in LocalActors, IsFresh(f)
  PROVE  Held(f) = {} /\ f \notin Docs /\ \A e \in Docs : ~Belongs(f, e)
<1>1. f \in Actors
  BY DEF Actors
<1>2. DOMAIN blocks[f] = {}
  BY NewFeedIsEmpty
<1>3. DOMAIN changes[f] = {}
  BY <1>1 DEF IsFresh, StoreInv, OpenHoldsBlocks
<1>4. \A e \in Docs : f \notin DOMAIN cursors[e]
  BY DEF IsFresh
<1> QED
  BY <1>2, <1>3, <1>4 DEF IsFresh, Held, Belongs

LEMMA OwnersNext ==
  ASSUME IInv, IInv', RootsKnown, OneOwner, RootsInCursor, [Next]_vars
  PROVE  OwnersKept
<1> USE DEF IInv
<1>1. ASSUME \A e \in Docs, a \in LocalActors :
               a \in DOMAIN cursors'[e] => a \in DOMAIN cursors[e] \/ a \in brought'[e]
      PROVE  OwnersKept
  <2>1. \A a \in LocalActors, e \in Docs : Belongs(a, e)' => Belongs(a, e) \/ a \notin DOMAIN cursors[e]
    BY OnlyNewOwners
  <2> QED
    BY <1>1, <2>1 DEF OwnersKept, Belongs
<1>2. ASSUME NEW d \in Docs, Create(d)
      PROVE  OwnersKept
  <2>1. cursors' = AddActor(d, d) /\ d \in LocalActors /\ DOMAIN cursors[d] = {}
    BY <1>2 DEF Create
  <2>2. \A e \in Docs : ~Belongs(d, e)
    BY <2>1 DEF OneOwner, Belongs
  <2>3. Held(d) = {}
    <3>1. DOMAIN changes[d] = {} /\ DOMAIN blocks[d] = {}
      BY <1>2, <2>1, NewRootIsEmpty, NewFeedIsEmpty
    <3> QED
      BY <3>1 DEF Held
  <2> QED
    BY <2>1, <2>2, <2>3, OwnersGiven
<1>3. ASSUME NEW d \in Docs, NEW f \in LocalActors, NeedsActorId(d, f) \/ LoadFresh(d, f)
      PROVE  OwnersKept
  <2>1. cursors' = AddActor(d, f) /\ IsFresh(f)
    BY <1>3 DEF NeedsActorId, LoadFresh
  <2> QED
    BY <2>1, FreshIsUnowned, OwnersGiven
<1>4. ASSUME NEW d \in Docs, Open(d)
      PROVE  OwnersKept
  <2>1. cursors' = AddActor(d, d) /\ IsKnown(d)
    BY <1>4 DEF Open
  <2>2. /\ cursors'[d] = Union(cursors[d], Entry(d, Infinity))
        /\ \A e \in Docs \ {d} : cursors'[e] = cursors[e]
    BY <2>1 DEF AddActor, TypeInv, TypeOK
  <2>3. DOMAIN cursors'[d] = DOMAIN cursors[d] \cup {d}
    BY <2>2 DEF Union, Entry
  <2>4. d \in LocalActors => d \in DOMAIN cursors[d]
    BY <2>1, ConstantsAssumption DEF ConstantsAssumption, IsKnown, RootsInCursor
  <2> QED
    BY <1>1, <2>2, <2>3, <2>4
<1>5. ASSUME NEW d \in Docs, NEW clock, brought' = Brought(d, clock),
             cursors' = [cursors EXCEPT ![d] = Union(@, clock)]
      PROVE  OwnersKept
  <2>1. /\ cursors'[d] = Union(cursors[d], clock)
        /\ brought'[d] = brought[d] \cup (DOMAIN clock \ DOMAIN cursors[d])
        /\ \A e \in Docs \ {d} : cursors'[e] = cursors[e]
    BY <1>5 DEF Brought, TypeInv, TypeOK
  <2>2. DOMAIN cursors'[d] = DOMAIN cursors[d] \cup DOMAIN clock
    BY <2>1 DEF Union
  <2> QED
    BY <1>1, <2>1, <2>2
<1>6. \/ UNCHANGED cursors
      \/ \E d \in Docs : Create(d) \/ Open(d)
      \/ \E d \in Docs, a \in LocalActors : NeedsActorId(d, a) \/ LoadFresh(d, a)
      \/ \E d \in Docs, src \in Docs : Merge(d, src)
      \/ \E d \in Docs, clock \in PeerClocks : CursorMessage(d, clock)
  BY DEF Next, vars, storeVars, Request, LoadInit, LoadReuse, FeedReady, StreamEnd, RemoteAppend,
         SyncEvent, Download, Flush, Restart
<1> QED
  BY <1>1, <1>2, <1>3, <1>4, <1>5, <1>6 DEF Merge, CursorMessage

\* A writer is chosen from the cursor, and is borrowed if it was brought.
LEMMA WritersNext ==
  ASSUME IInv, IInv', BroughtInCursor, WritersKnown, WritersOwn, [Next]_vars
  PROVE  WritersKnown' /\ WritersOwn'
<1> USE DEF IInv
<1> SUFFICES ASSUME NEW d \in Docs, docActor'[d] # NoActor
             PROVE  /\ docActor'[d] \in DOMAIN cursors'[d]
                    /\ d \notin borrowed' => Belongs(docActor[d], d)'
  BY DEF WritersKnown, WritersOwn, Belongs
<1> DEFINE Fine == /\ docActor'[d] \in DOMAIN cursors'[d]
                   /\ d \notin borrowed' => Belongs(docActor[d], d)'
<1>1. DOMAIN cursors[d] \subseteq DOMAIN cursors'[d]
  BY CursorsGrow
<1>3. ASSUME NEW f \in LocalActors \cup {d}, cursors' = AddActor(d, f), f \notin DOMAIN cursors[d],
             docActor'[d] = f, brought' = brought
      PROVE  Fine
  <2>1. cursors'[d] = Union(cursors[d], Entry(f, Infinity))
    BY <1>3 DEF AddActor, TypeInv, TypeOK
  <2>2. f \in DOMAIN cursors'[d] \ brought'[d]
    BY <1>3, <2>1 DEF Union, Entry, BroughtInCursor
  <2> QED
    BY <1>3, <2>2 DEF Belongs
<1>4. borrowed \subseteq borrowed'
  BY DEF Next, vars, histVars, Create, Open, Request, LoadInit, NeedsActorId, LoadReuse, LoadFresh,
         Merge, CursorMessage, FeedReady, StreamEnd, RemoteAppend, SyncEvent, Download, Flush, Restart
<1>5. CASE docActor'[d] = docActor[d]
  <2>1. docActor'[d] \in DOMAIN cursors'[d]
    BY <1>1, <1>5 DEF WritersKnown
  <2>2. d \notin borrowed' => Belongs(docActor[d], d)
    BY <1>4, <1>5 DEF WritersOwn
  <2>3. d \notin borrowed' => Belongs(docActor[d], d)'
    BY <1>5, <2>2, BelongsKept DEF Belongs
  <2> QED
    BY <2>1, <2>3
<1>6. ASSUME NEW e \in Docs, Create(e), docActor'[d] # docActor[d]
      PROVE  Fine
  <2>1. d = e
    BY <1>6 DEF Create, TypeInv, TypeOK
  <2>2. cursors' = AddActor(d, d) /\ docActor'[d] = d /\ d \notin DOMAIN cursors[d] /\ brought' = brought
    BY <1>6, <2>1 DEF Create, histVars, TypeInv, TypeOK
  <2> HIDE DEF Fine
  <2> QED
    BY <1>3, <2>2
<1>7. ASSUME NEW e \in Docs, NEW f \in LocalActors, LoadFresh(e, f), docActor'[d] # docActor[d]
      PROVE  Fine
  <2>1. d = e
    BY <1>7 DEF LoadFresh, TypeInv, TypeOK
  <2>2. cursors' = AddActor(d, f) /\ docActor'[d] = f /\ f \notin DOMAIN cursors[d] /\ brought' = brought
    BY <1>7, <2>1 DEF LoadFresh, IsFresh, histVars, TypeInv, TypeOK
  <2> HIDE DEF Fine
  <2> QED
    BY <1>3, <2>2
<1>8. ASSUME NEW e \in Docs, NEW f \in LocalActors, LoadReuse(e, f), docActor'[d] # docActor[d]
      PROVE  Fine
  <2>1. d = e
    BY <1>8 DEF LoadReuse, TypeInv, TypeOK
  <2>2. /\ docActor'[d] = f /\ f \in DOMAIN cursors[d] /\ cursors' = cursors /\ brought' = brought
        /\ borrowed' = IF f \in brought[d] THEN borrowed \cup {d} ELSE borrowed
    BY <1>8, <2>1 DEF LoadReuse, WritableIn, storeVars, TypeInv, TypeOK
  <2> QED
    BY <2>2 DEF Belongs
<1>9. ~Restart
  BY DEF Restart
<1>10. \/ UNCHANGED docActor
       \/ \E e \in Docs : Create(e)
       \/ \E e \in Docs, f \in LocalActors : LoadReuse(e, f) \/ LoadFresh(e, f)
  BY <1>9 DEF Next, vars, docVars, Open, Request, LoadInit, NeedsActorId, Merge, FeedReady,
         StreamEnd, RemoteAppend, SyncEvent, Download, Flush, CursorMessage
<1> HIDE DEF Fine
<1>11. Fine
  BY <1>5, <1>6, <1>7, <1>8, <1>10 DEF Fine
<1> QED
  BY <1>11 DEF Fine

\* No document writes with an actor of another one.
OwnOnly == WritersOwn /\ borrowed = {}

LEMMA WriterBelongs ==
  ASSUME OwnOnly, NEW a \in LocalActors, NEW d \in Docs, docActor[d] = a
  PROVE  Belongs(a, d)
<1>1. a # NoActor
  BY ConstantsAssumption DEF ConstantsAssumption, Actors
<1> QED
  BY <1>1 DEF OwnOnly, WritersOwn

\* The change that a request of document d makes.
Written(d) == [actor |-> docActor[d], seq |-> NextSeq(d), doc |-> d]

LEMMA RequestEntry ==
  ASSUME TypeInv, StoreInv, NEW d \in Docs, Request(d)
  PROVE  LET a == docActor[d]
             i == NextIndex(a)
         IN /\ a \in LocalActors /\ i \in 1..MaxSeq
            /\ DOMAIN changes'[a] = DOMAIN changes[a] \cup {i}
            /\ changes'[a][i] = Written(d)
            /\ \A j \in DOMAIN changes[a] : changes'[a][j] = changes[a][j]
            /\ \A x \in Actors \ {a} : changes'[x] = changes[x]
<1> DEFINE a == docActor[d]
           i == NextIndex(a)
<1>1. /\ a \in LocalActors /\ i \in 1..MaxSeq
      /\ DOMAIN changes'[a] = DOMAIN changes[a] \cup {i}
      /\ \A j \in DOMAIN changes[a] : changes'[a][j] = changes[a][j]
      /\ \A x \in Actors \ {a} : changes'[x] = changes[x]
  BY RequestLog
<1>2. changes' = [changes EXCEPT ![a] = Put(@, i, Written(d))]
  BY DEF Request, Written
<1> HIDE DEF i, a
<1>3. a \in Actors
  BY <1>1 DEF Actors
<1>4. changes'[a] = Put(changes[a], i, Written(d))
  BY <1>2, <1>3 DEF TypeInv, TypeOK
<1>5. changes'[a][i] = Written(d)
  BY <1>4 DEF Put
<1> QED
  BY <1>1, <1>5 DEF a, i

\* Nothing but a request of its writer adds a change to an actor of ours.
LEMMA HeldStep ==
  ASSUME TypeInv, StoreInv, [Next]_vars, NEW a \in LocalActors
  PROVE  \/ Held(a)' \subseteq Held(a)
         \/ \E d \in Docs : Request(d) /\ docActor[d] = a /\ Held(a)' \subseteq Held(a) \cup {Written(d)}
<1>1. a \in Actors /\ a \notin RemoteActors
  BY ConstantsAssumption DEF ConstantsAssumption, Actors
<1>2. CASE UNCHANGED <<changes, blocks>>
  BY <1>2 DEF Held
<1>3. ASSUME NEW d \in Docs, Request(d)
      PROVE  \/ Held(a)' \subseteq Held(a)
             \/ docActor[d] = a /\ Held(a)' \subseteq Held(a) \cup {Written(d)}
  <2>1. blocks' = blocks
    BY <1>3 DEF Request
  <2>2. CASE docActor[d] = a
    <3> DEFINE i == NextIndex(a)
    <3>1. /\ DOMAIN changes'[a] = DOMAIN changes[a] \cup {i}
          /\ changes'[a][i] = Written(d)
          /\ \A j \in DOMAIN changes[a] : changes'[a][j] = changes[a][j]
      BY <1>3, <2>2, RequestEntry
    <3> HIDE DEF i
    <3> QED
      BY <2>1, <2>2, <3>1 DEF Held
  <2>3. CASE docActor[d] # a
    <3>1. changes'[a] = changes[a]
      BY <1>1, <1>3, <2>3, RequestEntry
    <3> QED
      BY <2>1, <3>1 DEF Held
  <2> QED
    BY <2>2, <2>3
<1>4. ASSUME NEW x \in Actors, StreamEnd(x)
      PROVE  Held(a)' \subseteq Held(a)
  <2>1. blocks' = blocks
    BY <1>4 DEF StreamEnd
  <2>2. CASE x = a
    <3>1. /\ 1..streamEnd[a] \subseteq DOMAIN blocks[a]
          /\ DOMAIN changes'[a] = DOMAIN changes[a] \cup 1..streamEnd[a]
          /\ \A j \in DOMAIN changes[a] : changes'[a][j] = changes[a][j]
          /\ \A j \in 1..streamEnd[a] : changes'[a][j] = blocks[a][j]
      BY <1>4, <2>2, StreamEndLog
    <3> QED
      BY <2>1, <3>1 DEF Held
  <2>3. CASE x # a
    <3>1. changes'[a] = changes[a]
      BY <1>1, <1>4, <2>3, StreamEndLog
    <3> QED
      BY <2>1, <3>1 DEF Held
  <2> QED
    BY <2>2, <2>3
<1>5. ASSUME NEW x \in RemoteActors, NEW i \in 1..MaxSeq, Download(x, i)
      PROVE  Held(a)' \subseteq Held(a)
  <2>1. blocks'[a] = blocks[a] /\ changes'[a] = changes[a]
    BY <1>1, <1>5, DownloadLog
  <2> QED
    BY <2>1 DEF Held
<1>6. ASSUME NEW x \in LocalActors, Flush(x)
      PROVE  Held(a)' \subseteq Held(a)
  <2>1. changes' = changes
    BY <1>6 DEF Flush, actorVars
  <2>2. CASE x = a
    <3> DEFINE i == feedLength[a] + 1
    <3>1. /\ i \in DOMAIN changes[a]
          /\ DOMAIN blocks'[a] = DOMAIN blocks[a] \cup {i}
          /\ blocks'[a][i] = changes[a][i]
          /\ \A j \in DOMAIN blocks[a] : blocks'[a][j] = blocks[a][j]
      BY <1>6, <2>2, FlushLog
    <3> HIDE DEF i
    <3> QED
      BY <2>1, <3>1 DEF Held
  <2>3. CASE x # a
    <3>1. blocks'[a] = blocks[a]
      BY <1>1, <1>6, <2>3, FlushLog
    <3> QED
      BY <2>1, <3>1 DEF Held
  <2> QED
    BY <2>2, <2>3
<1>7. CASE Restart
  <2>1. blocks' = blocks /\ DOMAIN changes'[a] = {}
    BY <1>1, <1>7 DEF Restart, EmptyLog
  <2> QED
    BY <2>1 DEF Held
<1>8. \/ UNCHANGED <<changes, blocks>>
      \/ \E d \in Docs : Request(d)
      \/ \E x \in Actors : StreamEnd(x)
      \/ \E x \in RemoteActors, i \in 1..MaxSeq : Download(x, i)
      \/ \E x \in LocalActors : Flush(x)
      \/ Restart
  BY DEF Next, vars, storeVars, actorVars, Create, Open, LoadInit, NeedsActorId, LoadReuse,
         LoadFresh, Merge, FeedReady, RemoteAppend, SyncEvent, CursorMessage
<1> QED
  BY <1>2, <1>3, <1>4, <1>5, <1>6, <1>7, <1>8

-----------------------------------------------------------------------------
(* The parts of DocInv that do not depend on what documents count *)

LEMMA OneOwnerNext ==
  ASSUME TypeInv, TypeInv', OneOwner, OwnersKept, [Next]_vars
  PROVE  OneOwner'
<1> SUFFICES ASSUME NEW a \in LocalActors, NEW d \in Docs, Belongs(a, d)'
             PROVE  /\ cursors'[d][a] = Infinity
                    /\ a \in Docs => a = d
                    /\ \A e \in Docs : Belongs(a, e)' => e = d
  BY DEF OneOwner
<1>1. CASE IsNew(a, d)
  BY <1>1 DEF IsNew
<1>2. CASE Belongs(a, d)
  <2>1. /\ a \in DOMAIN cursors[d] /\ cursors[d][a] = Infinity
        /\ a \in Docs => a = d
        /\ \A e \in Docs : Belongs(a, e) => e = d
    BY <1>2 DEF OneOwner, Belongs
  <2>2. Gte(cursors'[d], cursors[d]) /\ a \in DOMAIN cursors'[d]
    BY <2>1, CursorsGrow
  <2>3. cursors'[d][a] >= Infinity
    BY <2>1, <2>2 DEF Gte, At
  <2>4. cursors'[d][a] \in 0..Infinity
    <3>1. 0..Infinity \in SUBSET Nat /\ cursors'[d] \in ClocksOver(Actors, 0..Infinity)
      BY ConstantsAssumption DEF ConstantsAssumption, TypeInv, TypeOK
    <3> QED
      BY <2>2, <3>1, ClocksOverAreClocks
  <2>5. cursors'[d][a] = Infinity
    BY <2>3, <2>4, ConstantsAssumption DEF ConstantsAssumption
  <2>6. ASSUME NEW e \in Docs, Belongs(a, e)'
        PROVE  e = d
    <3>1. ~IsNew(a, e)
      BY <1>2 DEF IsNew
    <3>2. Belongs(a, e)
      BY <2>6, <3>1 DEF OwnersKept
    <3> QED
      BY <2>1, <3>2
  <2> QED
    BY <2>1, <2>2, <2>5, <2>6
<1> QED
  BY <1>1, <1>2 DEF OwnersKept

LEMMA RootsInCursorNext ==
  ASSUME TypeInv, RootsInCursor, [Next]_vars
  PROVE  RootsInCursor'
<1>1. \A d \in Docs : DOMAIN cursors[d] \subseteq DOMAIN cursors'[d]
  BY CursorsGrow
<1> SUFFICES ASSUME NEW d \in Docs, d \notin DOMAIN cursors'[d],
                    docState'[d] # "none" \/ (d \in LocalActors /\ DOMAIN cursors'[d] # {})
             PROVE  FALSE
  BY DEF RootsInCursor
<1>2. /\ docState[d] = "none" /\ d \notin DOMAIN cursors[d]
      /\ d \in LocalActors => DOMAIN cursors[d] = {} /\ ~IsKnown(d)
  BY <1>1, ConstantsAssumption DEF ConstantsAssumption, RootsInCursor, IsKnown
<1>3. cursors' # [cursors EXCEPT ![d] = Union(@, Entry(d, Infinity))]
  <2>1. [cursors EXCEPT ![d] = Union(@, Entry(d, Infinity))][d] = Union(cursors[d], Entry(d, Infinity))
    BY DEF TypeInv, TypeOK
  <2>2. d \in DOMAIN Union(cursors[d], Entry(d, Infinity))
    BY DEF Union, Entry
  <2> QED
    BY <2>1, <2>2
<1>4. CASE docState'[d] # "none"
  <2>1. ASSUME NEW e \in Docs, Create(e) \/ Open(e)
        PROVE  e = d
    BY <1>2, <1>4, <2>1 DEF Create, Open, TypeInv, TypeOK
  <2>2. ~Create(d) /\ ~Open(d)
    BY <1>3 DEF Create, Open, AddActor
  <2>3. ASSUME NEW e \in Docs, NEW a \in LocalActors, LoadReuse(e, a) \/ LoadFresh(e, a)
        PROVE  FALSE
    <3>1. docState[e] # "none"
      BY <2>3 DEF LoadReuse, LoadFresh, CanSlice
    <3>2. docState'[d] = docState[d]
      BY <1>2, <2>3, <3>1 DEF LoadReuse, LoadFresh, DocInit, TypeInv, TypeOK
    <3> QED
      BY <1>2, <1>4, <3>2
  <2>4. ASSUME NEW e \in Docs, LoadInit(e)
        PROVE  FALSE
    <3>1. docState[e] # "none"
      BY <2>4 DEF LoadInit, CanInit
    <3>2. docState'[d] = docState[d]
      BY <1>2, <2>4, <3>1 DEF LoadInit, DocInit, TypeInv, TypeOK
    <3> QED
      BY <1>2, <1>4, <3>2
  <2>5. ~Restart
    BY <1>4 DEF Restart
  <2>6. docState' = docState
    BY <2>1, <2>2, <2>3, <2>4, <2>5
       DEF Next, vars, docVars, NeedsActorId, Merge, CursorMessage,
           Request, FeedReady, StreamEnd, RemoteAppend, SyncEvent, Download, Flush
  <2> QED
    BY <1>2, <1>4, <2>6
<1>5. CASE d \in LocalActors /\ DOMAIN cursors'[d] # {}
  <2>1. cursors'[d] # cursors[d]
    BY <1>2, <1>5
  <2>2. ASSUME NEW e \in Docs, NEW c, cursors' = [cursors EXCEPT ![e] = Union(@, c)]
        PROVE  e = d
    BY <2>1, <2>2 DEF TypeInv, TypeOK
  <2>3. ASSUME NEW e \in Docs, Create(e) \/ Open(e)
        PROVE  FALSE
    <3>1. e = d
      BY <2>2, <2>3 DEF Create, Open, AddActor
    <3> QED
      BY <1>3, <2>3, <3>1 DEF Create, Open, AddActor
  <2>4. ASSUME NEW e \in Docs, NEW a \in LocalActors, NeedsActorId(e, a) \/ LoadFresh(e, a)
        PROVE  FALSE
    <3>1. e = d
      BY <2>2, <2>4 DEF NeedsActorId, LoadFresh, AddActor
    <3> QED
      BY <1>2, <2>4, <3>1 DEF NeedsActorId, LoadFresh, CanSlice
  <2>5. ASSUME NEW e \in Docs, NEW src \in Docs, Merge(e, src)
        PROVE  FALSE
    <3>1. e = d /\ IsKnown(e)
      BY <2>2, <2>5 DEF Merge
    <3> QED
      BY <1>2, <1>5, <3>1
  <2>6. ASSUME NEW e \in Docs, NEW clock \in PeerClocks, CursorMessage(e, clock)
        PROVE  FALSE
    <3>1. e = d /\ IsKnown(e)
      BY <2>2, <2>6 DEF CursorMessage
    <3> QED
      BY <1>2, <1>5, <3>1
  <2>7. cursors' = cursors
    BY <2>3, <2>4, <2>5, <2>6
       DEF Next, vars, storeVars, Request, LoadInit, LoadReuse, FeedReady, StreamEnd,
           RemoteAppend, SyncEvent, Download, Flush, Restart
  <2> QED
    BY <2>1, <2>7
<1> QED
  BY <1>4, <1>5

\* syncChanges gives nothing to a document that is not ready.
LEMMA UnreadyBack ==
  ASSUME TypeInv, NEW A, NEW written, NEW given, NEW log, NEW cursor, NEW clocks,
         SyncChanges(A, written, given, log, cursor, clocks),
         NEW d \in Docs, docState[d] # "ready"
  PROVE  docChanges'[d] = docChanges[d] /\ back'[d] = given[d]
<1>1. /\ docChanges'[d] = docChanges[d]
      /\ back'[d] = given[d] \cup Collected(docChanges[d], docChanges'[d], log)
  BY DEF SyncChanges
<1>2. \A a \in Actors : docChanges[d][a] \in Nat
  BY ConstantsAssumption DEF ConstantsAssumption, TypeInv, TypeOK
<1>3. \A a \in Actors : (docChanges[d][a] + 1)..docChanges[d][a] = {}
  BY <1>2
<1>4. Collected(docChanges[d], docChanges[d], log) = {}
  BY <1>3 DEF Collected
<1> QED
  BY <1>1, <1>4

LEMMA NotLoadedNext ==
  ASSUME TypeInv, NotLoaded, [Next]_vars
  PROVE  NotLoaded'
<1> DEFINE Kept(d) == /\ docState'[d] = "none" => back'[d] = {}
                      /\ docState'[d] \in {"none", "loading"} => docActor'[d] = NoActor
<1> SUFFICES ASSUME NEW d \in Docs
             PROVE  Kept(d)
  BY DEF NotLoaded
<1>1. CASE UNCHANGED <<docState, docActor, back>>
  BY <1>1 DEF NotLoaded
<1>2. ASSUME NEW A, NEW written, NEW given, NEW log, NEW cursor, NEW clocks,
             SyncChanges(A, written, given, log, cursor, clocks),
             docState[d] # "ready" => given[d] = back[d],
             UNCHANGED <<docState, docActor>>
      PROVE  Kept(d)
  <2>1. docState[d] # "ready" => back'[d] = back[d]
    BY <1>2, UnreadyBack
  <2> QED
    BY <1>2, <2>1 DEF NotLoaded
<1>3. ASSUME NEW e \in Docs, Create(e) \/ Open(e)
      PROVE  Kept(d)
  <2>1. /\ docState[e] = "none" /\ back' = back
        /\ docState'[e] # "none"
        /\ docState'[e] = "loading" => docActor' = docActor
        /\ d # e => docState'[d] = docState[d] /\ docActor'[d] = docActor[d]
    BY <1>3 DEF Create, Open, TypeInv, TypeOK
  <2> QED
    BY <2>1 DEF NotLoaded
<1>4. ASSUME NEW e \in Docs, LoadInit(e)
      PROVE  Kept(d)
  <2>1. /\ docState'[e] \in {"ready", "failed"} /\ docActor' = docActor
        /\ d # e => docState'[d] = docState[d] /\ back'[d] = back[d]
    BY <1>4 DEF LoadInit, DocInit, TypeInv, TypeOK
  <2> QED
    BY <2>1 DEF NotLoaded
<1>5. ASSUME NEW e \in Docs, NEW a \in LocalActors, LoadReuse(e, a) \/ LoadFresh(e, a)
      PROVE  Kept(d)
  <2>1. /\ docState'[e] \in {"ready", "failed", "holed", "sliced"}
        /\ d # e => docState'[d] = docState[d] /\ docActor'[d] = docActor[d] /\ back'[d] = back[d]
    BY <1>5 DEF LoadReuse, LoadFresh, DocInit, TypeInv, TypeOK
  <2> QED
    BY <2>1 DEF NotLoaded
<1>6. ASSUME NEW e \in Docs, Request(e)
      PROVE  Kept(d)
  <2> DEFINE given == [back EXCEPT ![e] = @ \cup {Written(e)}]
             log   == [changes EXCEPT ![docActor[e]] = Put(@, NextIndex(docActor[e]), Written(e))]
  <2>1. /\ SyncChanges({docActor[e]}, {e}, given, log, cursors, peerClocks)
        /\ docState[e] = "ready" /\ UNCHANGED <<docState, docActor>>
    BY <1>6 DEF Request, Written
  <2>2. docState[d] # "ready" => given[d] = back[d]
    BY <2>1 DEF TypeInv, TypeOK
  <2> HIDE DEF given, log, Kept
  <2> QED
    BY <1>2, <2>1, <2>2
<1>7. ASSUME NEW ids, NEW cursor, NEW clocks,
             SyncReadyActors(ids, cursor, clocks), UNCHANGED <<docState, docActor>>
      PROVE  Kept(d)
  <2>1. SyncChanges({a \in ids : actorState[a] = "ready"}, {}, back, changes, cursor, clocks)
    BY <1>7 DEF SyncReadyActors
  <2> HIDE DEF Kept
  <2> QED
    BY <1>2, <1>7, <2>1
<1>8. ASSUME NEW e \in Docs, NEW src \in Docs, Merge(e, src)
      PROVE  Kept(d)
  BY <1>7, <1>8 DEF Merge
<1>9. ASSUME NEW e \in Docs, NEW clock \in PeerClocks, CursorMessage(e, clock)
      PROVE  Kept(d)
  BY <1>7, <1>9 DEF CursorMessage
<1>10. ASSUME NEW a \in Actors, StreamEnd(a)
       PROVE  Kept(d)
  <2>1. PICK A, log : /\ SyncChanges(A, {}, back, log, cursors, peerClocks)
                      /\ UNCHANGED <<docState, docActor>>
    BY <1>10 DEF StreamEnd
  <2> HIDE DEF Kept
  <2> QED
    BY <1>2, <2>1
<1>11. ASSUME NEW a \in RemoteActors, SyncEvent(a)
       PROVE  Kept(d)
  <2>1. PICK A : /\ SyncChanges(A, {}, back, changes, cursors, peerClocks)
                 /\ UNCHANGED <<docState, docActor>>
    BY <1>11 DEF SyncEvent
  <2> HIDE DEF Kept
  <2> QED
    BY <1>2, <2>1
<1>12. CASE Restart
  BY <1>12 DEF Restart
<1>13. \/ UNCHANGED <<docState, docActor, back>>
       \/ \E e \in Docs : Create(e) \/ Open(e) \/ LoadInit(e) \/ Request(e)
       \/ \E e \in Docs, a \in LocalActors : LoadReuse(e, a) \/ LoadFresh(e, a)
       \/ \E e, src \in Docs : Merge(e, src)
       \/ \E e \in Docs, clock \in PeerClocks : CursorMessage(e, clock)
       \/ \E a \in Actors : StreamEnd(a)
       \/ \E a \in RemoteActors : SyncEvent(a)
       \/ Restart
  BY DEF Next, vars, docVars, NeedsActorId, FeedReady, RemoteAppend, Download, Flush
<1> HIDE DEF Kept
<1> QED
  BY <1>1, <1>3, <1>4, <1>5, <1>6, <1>8, <1>9, <1>10, <1>11, <1>12, <1>13

\* A log without holes is as long as it has entries.
LEMMA ContiguousLength ==
  ASSUME NEW log \in Logs, \A i \in DOMAIN log : 1..i \subseteq DOMAIN log
  PROVE  DOMAIN log = 1..Length(log) /\ Length(log) \in 0..MaxSeq
<1>1. /\ Length(log) \in 0..MaxSeq /\ DOMAIN log \subseteq 1..Length(log)
      /\ Length(log) = 0 \/ Length(log) \in DOMAIN log
  BY LengthLemma
<1>2. 1..Length(log) \subseteq DOMAIN log
  <2>1. CASE Length(log) = 0
    BY <2>1
  <2>2. CASE Length(log) \in DOMAIN log
    BY <2>2
  <2> QED
    BY <1>1, <2>1, <2>2
<1> QED
  BY <1>1, <1>2

\* What changes an actor of ours in memory ...
LEMMA LogStep ==
  ASSUME TypeInv, StoreInv, [Next]_vars, NEW a \in LocalActors
  PROVE  \/ changes'[a] = changes[a]
         \/ \E d \in Docs : Request(d) /\ docActor[d] = a
         \/ StreamEnd(a)
         \/ Restart
<1>1. a \in Actors /\ a \notin RemoteActors
  BY ConstantsAssumption DEF ConstantsAssumption, Actors
<1>2. ASSUME NEW d \in Docs, Request(d), docActor[d] # a
      PROVE  changes'[a] = changes[a]
  BY <1>1, <1>2, RequestEntry
<1>3. ASSUME NEW x \in Actors, StreamEnd(x), x # a
      PROVE  changes'[a] = changes[a]
  BY <1>1, <1>3, StreamEndLog
<1>4. ASSUME NEW x \in RemoteActors, NEW j \in 1..MaxSeq, Download(x, j)
      PROVE  changes'[a] = changes[a]
  BY <1>1, <1>4, DownloadLog
<1>5. \/ UNCHANGED changes
      \/ \E d \in Docs : Request(d)
      \/ \E x \in Actors : StreamEnd(x)
      \/ \E x \in RemoteActors, j \in 1..MaxSeq : Download(x, j)
      \/ Restart
  BY DEF Next, vars, actorVars, Create, Open, LoadInit, NeedsActorId, LoadReuse,
         LoadFresh, Merge, FeedReady, RemoteAppend, SyncEvent, Flush, CursorMessage
<1> QED
  BY <1>2, <1>3, <1>4, <1>5

\* ... and on disk.
LEMMA BlocksStep ==
  ASSUME TypeInv, StoreInv, [Next]_vars, NEW a \in LocalActors
  PROVE  \/ blocks'[a] = blocks[a]
         \/ /\ Flush(a) /\ changes' = changes /\ feedLength[a] + 1 \in DOMAIN changes[a]
            /\ DOMAIN blocks'[a] = DOMAIN blocks[a] \cup {feedLength[a] + 1}
<1>1. a \in Actors /\ a \notin RemoteActors
  BY ConstantsAssumption DEF ConstantsAssumption, Actors
<1>2. ASSUME NEW x \in LocalActors, Flush(x), x # a
      PROVE  blocks'[a] = blocks[a]
  BY <1>1, <1>2, FlushLog
<1>3. ASSUME Flush(a)
      PROVE  /\ changes' = changes /\ feedLength[a] + 1 \in DOMAIN changes[a]
             /\ DOMAIN blocks'[a] = DOMAIN blocks[a] \cup {feedLength[a] + 1}
  <2>1. changes' = changes
    BY <1>3 DEF Flush, actorVars
  <2> QED
    BY <1>3, <2>1, FlushLog
<1>4. ASSUME NEW x \in RemoteActors, NEW j \in 1..MaxSeq, Download(x, j)
      PROVE  blocks'[a] = blocks[a]
  BY <1>1, <1>4, DownloadLog
<1>5. \/ UNCHANGED blocks
      \/ \E x \in LocalActors : Flush(x)
      \/ \E x \in RemoteActors, j \in 1..MaxSeq : Download(x, j)
  BY DEF Next, vars, storeVars, Create, Open, Request, LoadInit, NeedsActorId, LoadReuse,
         LoadFresh, Merge, FeedReady, StreamEnd, RemoteAppend, SyncEvent, CursorMessage, Restart
<1> QED
  BY <1>2, <1>3, <1>4, <1>5

LEMMA ContiguousNext ==
  ASSUME TypeInv, StoreInv, Contiguous, [Next]_vars
  PROVE  Contiguous'
<1> SUFFICES ASSUME NEW a \in LocalActors, NEW i \in DOMAIN changes'[a]
             PROVE  1..i \subseteq DOMAIN changes'[a]
  BY DEF Contiguous
<1>1. a \in Actors /\ a \notin RemoteActors /\ changes[a] \in Logs
  BY ConstantsAssumption DEF ConstantsAssumption, Actors, TypeInv, TypeOK
<1>2. CASE changes'[a] = changes[a]
  BY <1>2 DEF Contiguous
<1>3. ASSUME NEW d \in Docs, Request(d), docActor[d] = a
      PROVE  1..i \subseteq DOMAIN changes'[a]
  <2> DEFINE n == Length(changes[a])
  <2>1. DOMAIN changes[a] = 1..n /\ n \in 0..MaxSeq
    BY <1>1, ContiguousLength DEF Contiguous
  <2>2. DOMAIN changes'[a] = DOMAIN changes[a] \cup {n + 1}
    BY <1>3, RequestEntry DEF NextIndex
  <2> HIDE DEF n
  <2>3. DOMAIN changes'[a] = 1..(n + 1)
    BY <2>1, <2>2, ConstantsAssumption DEF ConstantsAssumption
  <2> QED
    BY <2>1, <2>3
<1>4. ASSUME StreamEnd(a)
      PROVE  1..i \subseteq DOMAIN changes'[a]
  <2>1. DOMAIN changes'[a] = DOMAIN changes[a] \cup 1..streamEnd[a]
    BY <1>1, <1>4, StreamEndLog
  <2>2. streamEnd[a] \in 0..MaxSeq
    BY <1>1 DEF TypeInv, TypeOK
  <2>3. CASE i \in DOMAIN changes[a]
    BY <2>1, <2>3 DEF Contiguous
  <2>4. CASE i \in 1..streamEnd[a]
    BY <2>1, <2>2, <2>4
  <2> QED
    BY <2>1, <2>3, <2>4
<1>5. CASE Restart
  BY <1>1, <1>5 DEF Restart, EmptyLog
<1>6. \/ changes'[a] = changes[a]
      \/ \E d \in Docs : Request(d) /\ docActor[d] = a
      \/ StreamEnd(a)
      \/ Restart
  BY LogStep
<1> QED
  BY <1>2, <1>3, <1>4, <1>5, <1>6

LEMMA HeldKnownNext ==
  ASSUME TypeInv, TypeInv', StoreInv, WritersKnown, HeldKnown, [Next]_vars
  PROVE  HeldKnown'
<1> SUFFICES ASSUME NEW a \in LocalActors, NEW c \in Held(a)'
             PROVE  c.doc \in Docs /\ a \in DOMAIN cursors'[c.doc]
  BY DEF HeldKnown
<1>1. c.doc \in Docs /\ a \in DOMAIN cursors[c.doc]
  <2>1. CASE c \in Held(a)
    BY <2>1 DEF HeldKnown
  <2>2. ASSUME NEW d \in Docs, docActor[d] = a, c = Written(d)
        PROVE  c.doc \in Docs /\ a \in DOMAIN cursors[c.doc]
    <3>1. a # NoActor /\ c.doc = d
      BY <2>2, ConstantsAssumption DEF ConstantsAssumption, Actors, Written
    <3> QED
      BY <2>2, <3>1 DEF WritersKnown
  <2> QED
    BY <2>1, <2>2, HeldStep
<1> QED
  BY <1>1, CursorsGrow

LEMMA OneDocumentNext ==
  ASSUME TypeInv, StoreInv, OneOwner, OwnOnly, OneDocument, OwnersKept, [Next]_vars
  PROVE  OneDocument'
<1> SUFFICES ASSUME NEW a \in LocalActors, NEW c \in Held(a)'
             PROVE  /\ \A d \in Docs : Belongs(a, d)' => c.doc = d
                    /\ \A x \in Held(a)' : x.doc = c.doc
  BY DEF OneDocument
<1>1. CASE Held(a)' \subseteq Held(a)
  <2>1. c \in Held(a)
    BY <1>1
  <2>2. \A d \in Docs : ~IsNew(a, d)
    BY <2>1 DEF IsNew
  <2>3. \A d \in Docs : Belongs(a, d)' => Belongs(a, d)
    BY <2>2 DEF OwnersKept
  <2> QED
    BY <1>1, <2>1, <2>3 DEF OneDocument
<1>2. ASSUME NEW e \in Docs, Request(e), docActor[e] = a, Held(a)' \subseteq Held(a) \cup {Written(e)}
      PROVE  /\ \A d \in Docs : Belongs(a, d)' => c.doc = d
             /\ \A x \in Held(a)' : x.doc = c.doc
  <2>1. UNCHANGED <<cursors, brought>>
    BY <1>2 DEF Request, histVars
  <2>2. \A d \in Docs : Belongs(a, d)' => Belongs(a, d)
    BY <2>1 DEF Belongs
  <2>3. Belongs(a, e)
    BY <1>2, WriterBelongs
  <2>4. Written(e).doc = e
    BY DEF Written
  <2>5. \A x \in Held(a)' : x.doc = e
    BY <1>2, <2>3, <2>4 DEF OneDocument
  <2>6. \A d \in Docs : Belongs(a, d) => d = e
    BY <2>3 DEF OneOwner
  <2> QED
    BY <2>2, <2>5, <2>6
<1> QED
  BY <1>1, <1>2, HeldStep

LEMMA HasOwnerNext ==
  ASSUME TypeInv, TypeInv', StoreInv, OwnOnly, HasOwner, [Next]_vars
  PROVE  HasOwner'
<1> SUFFICES ASSUME NEW a \in LocalActors, Held(a)' # {}
             PROVE  \E d \in Docs : Belongs(a, d)'
  BY DEF HasOwner
<1>1. \E d \in Docs : Belongs(a, d)
  <2>1. CASE Held(a)' \subseteq Held(a)
    BY <2>1 DEF HasOwner
  <2>2. CASE \E d \in Docs : docActor[d] = a
    BY <2>2, WriterBelongs
  <2> QED
    BY <2>1, <2>2, HeldStep
<1> QED
  BY <1>1, BelongsKept

-----------------------------------------------------------------------------
(* A document has all that its own actors wrote *)

LEMMA SameLength ==
  ASSUME NEW log \in Logs, NEW other \in Logs, DOMAIN other = DOMAIN log
  PROVE  Length(other) = Length(log)
<1>1. /\ Length(log) \in 0..MaxSeq /\ DOMAIN log \subseteq 1..Length(log)
      /\ Length(log) = 0 \/ Length(log) \in DOMAIN log
  BY LengthLemma
<1>2. /\ Length(other) \in 0..MaxSeq /\ DOMAIN other \subseteq 1..Length(other)
      /\ Length(other) = 0 \/ Length(other) \in DOMAIN other
  BY LengthLemma
<1> QED
  BY <1>1, <1>2, ConstantsAssumption DEF ConstantsAssumption

\* What a document counts after a step is in the log.
LEMMA CountedIsHeld ==
  ASSUME TypeInv', Counted', NEW d \in Docs, docState'[d] \in {"sliced", "ready"}, NEW a \in Actors
  PROVE  docChanges'[d][a] \in 0..Length(changes'[a])
<1>1. docChanges'[d][a] \in 0..MaxSeq /\ changes'[a] \in Logs
  BY DEF TypeInv, TypeOK
<1>2. DOMAIN changes'[a] \subseteq 1..Length(changes'[a]) /\ Length(changes'[a]) \in 0..MaxSeq
  BY <1>1, LengthLemma
<1>3. CASE docChanges'[d][a] = 0
  BY <1>2, <1>3
<1>4. CASE docChanges'[d][a] # 0
  <2>1. docChanges'[d][a] \in 1..docChanges'[d][a]
    BY <1>1, <1>4
  <2>2. docChanges'[d][a] \in DOMAIN changes'[a]
    BY <2>1 DEF Counted
  <2> QED
    BY <1>1, <1>2, <2>2
<1> QED
  BY <1>3, <1>4

\* An actor that holds nothing after a step is complete in every document.
LEMMA NothingToHave ==
  ASSUME TypeInv', Counted', NEW a \in LocalActors, Held(a)' = {}
  PROVE  \A d \in Docs : HasAll(a, d)'
<1>1. a \in Actors /\ changes'[a] \in Logs
  BY DEF Actors, TypeInv, TypeOK
<1>2. DOMAIN changes'[a] = {} /\ DOMAIN blocks'[a] = {}
  BY DEF Held
<1>3. Length(changes'[a]) = 0
  BY <1>1, <1>2, LengthLemma
<1>4. ASSUME NEW d \in Docs, docState'[d] \in {"sliced", "ready"}
      PROVE  docChanges'[d][a] = 0
  BY <1>1, <1>3, <1>4, CountedIsHeld
<1> QED
  BY <1>2, <1>3, <1>4 DEF HasAll

\* A step that does not load document d, and gives actor a of ours nothing.
LEMMA HasAllKept ==
  ASSUME TypeInv, TypeInv', StoreInv, Counted', [Next]_vars, ~Restart,
         NEW a \in LocalActors, NEW d \in Docs, HasAll(a, d),
         docState'[d] = docState[d], loadIds'[d] = loadIds[d],
         docState[d] = "sliced" => readyQ[d] \subseteq readyQ'[d],
         docChanges'[d][a] >= docChanges[d][a],
         Held(a)' \subseteq Held(a),
         docState[d] \in {"sliced", "ready"} =>
           DOMAIN changes'[a] = DOMAIN changes[a] /\ DOMAIN blocks'[a] \subseteq DOMAIN changes'[a]
  PROVE  HasAll(a, d)'
<1>1. a \in Actors /\ changes[a] \in Logs /\ changes'[a] \in Logs /\ Length(changes[a]) \in 0..MaxSeq
  BY LengthLemma DEF Actors, TypeInv, TypeOK
<1>2. docChanges[d][a] \in 0..MaxSeq /\ docChanges'[d][a] \in 0..MaxSeq
  BY <1>1 DEF TypeInv, TypeOK
<1>3. ASSUME docState[d] \in {"sliced", "ready"}, docChanges[d][a] = Length(changes[a])
      PROVE  docChanges'[d][a] = Length(changes'[a])
  <2>1. Length(changes'[a]) = Length(changes[a])
    BY <1>1, <1>3, SameLength
  <2>2. docChanges'[d][a] \in 0..Length(changes'[a])
    BY <1>1, <1>3, CountedIsHeld
  <2> QED
    BY <1>1, <1>2, <1>3, <2>1, <2>2
<1>4. docState[d] = "loading" /\ a \notin loadIds[d] => Held(a)' = {}
  BY DEF HasAll
<1> QED
  BY <1>3, <1>4 DEF HasAll

\* Only a request of document d gives something to an actor that belongs to it.
LEMMA NothingGiven ==
  ASSUME TypeInv, StoreInv, OneOwner, OwnOnly, [Next]_vars, ~Restart,
         NEW a \in LocalActors, NEW d \in Docs, Belongs(a, d), HasAll(a, d),
         ~(Request(d) /\ docActor[d] = a)
  PROVE  /\ Held(a)' \subseteq Held(a)
         /\ docState[d] \in {"sliced", "ready"} =>
              DOMAIN changes'[a] = DOMAIN changes[a] /\ DOMAIN blocks'[a] \subseteq DOMAIN changes'[a]
<1>1. a \in Actors
  BY DEF Actors
<1>2. \A e \in Docs : ~(Request(e) /\ docActor[e] = a)
  <2>1. \A e \in Docs : docActor[e] = a => e = d
    BY WriterBelongs DEF OneOwner
  <2> QED
    BY <2>1
<1>3. Held(a)' \subseteq Held(a)
  BY <1>2, HeldStep
<1>4. ASSUME docState[d] \in {"sliced", "ready"}
      PROVE  DOMAIN changes'[a] = DOMAIN changes[a]
  <2>1. DOMAIN blocks[a] \subseteq DOMAIN changes[a]
    BY <1>4 DEF HasAll
  <2>2. CASE StreamEnd(a)
    BY <1>1, <2>1, <2>2, StreamEndLog
  <2> QED
    BY <1>2, <2>2, LogStep
<1>5. ASSUME docState[d] \in {"sliced", "ready"}
      PROVE  DOMAIN blocks'[a] \subseteq DOMAIN changes'[a]
  <2>1. DOMAIN blocks[a] \subseteq DOMAIN changes[a]
    BY <1>5 DEF HasAll
  <2> QED
    BY <1>4, <1>5, <2>1, BlocksStep
<1> QED
  BY <1>3, <1>4, <1>5

\* syncChanges of the feeds that are known after the step.
LEMMA HasAllSynced ==
  ASSUME TypeInv, TypeInv', StoreInv, Counted', OneOwner, OwnOnly, [Next]_vars, ~Restart,
         UNCHANGED <<docState, loadIds>>,
         NEW A \in SUBSET Actors, NEW written \in SUBSET Docs,
         NEW cursor \in [Docs -> ClocksOver(Actors, 0..Infinity)], NEW clocks,
         SyncChanges(A, written, back, changes', cursor, clocks),
         NEW a \in LocalActors, NEW d \in Docs, Belongs(a, d), HasAll(a, d),
         ~(Request(d) /\ docActor[d] = a)
  PROVE  HasAll(a, d)'
<1>1. a \in Actors /\ TypeOK /\ back \in [Docs -> SUBSET Change] /\ changes' \in [Actors -> Logs]
  BY DEF Actors, TypeInv, TypeOK
<1>2. docChanges'[d][a] >= docChanges[d][a]
  BY <1>1, SyncChangesLemma
<1>3. docState[d] = "sliced" => readyQ[d] \subseteq readyQ'[d]
  BY DEF SyncChanges, IsLoading
<1> QED
  BY <1>2, <1>3, NothingGiven, HasAllKept

\* The document of a request counts the change that its writer made.
LEMMA HasAllRequest ==
  ASSUME TypeInv, TypeInv', StoreInv, Counted', OneOwner, OwnOnly, Complete, NEW d \in Docs, Request(d),
         NEW a \in LocalActors, docActor[d] = a
  PROVE  HasAll(a, d)'
<1> DEFINE n == Length(changes[a])
           m == docChanges'[d][a]
           given == [back EXCEPT ![d] = @ \cup {Written(d)}]
           log == [changes EXCEPT ![a] = Put(@, NextIndex(a), Written(d))]
<1>1. a \in LocalActors /\ a \in Actors /\ Belongs(a, d)
  BY RequestEntry, WriterBelongs DEF Actors
<1>2. /\ docState[d] = "ready" /\ docState'[d] = "ready" /\ blocks' = blocks /\ changes' = log
      /\ SyncChanges({a}, {d}, given, log, cursors, peerClocks)
  BY DEF Request, Written
<1>3. /\ changes[a] \in Logs /\ changes'[a] \in Logs
      /\ n \in 0..MaxSeq /\ DOMAIN changes[a] \subseteq 1..n
      /\ docChanges[d][a] = n /\ DOMAIN blocks[a] \subseteq DOMAIN changes[a]
  <2>1. changes[a] \in Logs /\ changes'[a] \in Logs
    BY <1>1 DEF TypeInv, TypeOK
  <2>2. HasAll(a, d)
    BY <1>1 DEF Complete
  <2> QED
    BY <1>2, <2>1, <2>2, LengthLemma DEF HasAll
<1>4. DOMAIN changes'[a] = DOMAIN changes[a] \cup {n + 1} /\ n + 1 \in 1..MaxSeq
  BY RequestEntry DEF NextIndex
<1>5. a \in DOMAIN cursors[d] /\ At(cursors[d], a) = Infinity
  BY <1>1 DEF OneOwner, At, Belongs
<1>6. m = Reach(changes'[a], n, Infinity)
  <2>1. m = Pulled({a} \cap DOMAIN cursors[d], docChanges[d], log, cursors[d])[a]
    BY <1>2 DEF SyncChanges
  <2>2. m = Reach(log[a], docChanges[d][a], At(cursors[d], a))
    BY <1>1, <1>5, <2>1 DEF Pulled
  <2> QED
    BY <1>2, <1>3, <1>5, <2>2
<1> HIDE DEF n, m, given, log
<1>7. /\ m \in n..MaxSeq
      /\ ~(m + 1 <= Infinity /\ m + 1 \in DOMAIN changes'[a])
  BY <1>3, <1>6, ReachLemma, ConstantsAssumption DEF ConstantsAssumption
<1>8. m # n
  BY <1>4, <1>7, ConstantsAssumption DEF ConstantsAssumption
<1>9. /\ Length(changes'[a]) \in 0..MaxSeq
      /\ DOMAIN changes'[a] \subseteq 1..Length(changes'[a])
      /\ Length(changes'[a]) = 0 \/ Length(changes'[a]) \in DOMAIN changes'[a]
  BY <1>3, LengthLemma
<1>10. Length(changes'[a]) = n + 1
  BY <1>3, <1>4, <1>9
<1>11. m \in 0..Length(changes'[a])
  BY <1>1, <1>2, CountedIsHeld DEF m
<1>12. m = Length(changes'[a])
  BY <1>3, <1>7, <1>8, <1>10, <1>11
<1>13. docChanges'[d][a] = Length(changes'[a])
  BY <1>12 DEF m
<1>14. DOMAIN blocks'[a] \subseteq DOMAIN changes'[a]
  BY <1>2, <1>3, <1>4
<1> QED
  BY <1>2, <1>13, <1>14 DEF HasAll

\* loadDocument takes the whole of an actor of ours that it awaited.
LEMMA AwaitedIsSliced ==
  ASSUME TypeInv, StoreInv, OneOwner, NEW a \in LocalActors, NEW d \in Docs,
         Belongs(a, d), CanSlice(d), a \in loadIds[d]
  PROVE  SliceLength(d, a) = Length(changes[a]) /\ DOMAIN blocks[a] \subseteq DOMAIN changes[a]
<1>1. a \in Actors /\ changes[a] \in Logs /\ Length(changes[a]) \in 0..MaxSeq
  BY LengthLemma DEF Actors, TypeInv, TypeOK
<1>2. actorState[a] = "ready"
  BY DEF CanSlice
<1>3. At(cursors[d], a) = Infinity
  BY DEF OneOwner, At, Belongs
<1>4. SliceLength(d, a) = Length(changes[a])
  BY <1>1, <1>3, ConstantsAssumption DEF ConstantsAssumption, SliceLength
<1> QED
  BY <1>1, <1>2, <1>4 DEF StoreInv, OpenHoldsBlocks

LEMMA HasAllReuse ==
  ASSUME TypeInv, TypeInv', StoreInv, Counted', OneOwner, Complete,
         NEW d \in Docs, NEW f \in LocalActors, LoadReuse(d, f),
         NEW a \in LocalActors, Belongs(a, d)
  PROVE  HasAll(a, d)'
<1>1. a \in Actors
  BY DEF Actors
<1>2. /\ CanSlice(d) /\ UNCHANGED <<changes, blocks, loadIds>>
      /\ docState'[d] \in {"holed", "sliced"} /\ docChanges'[d][a] = SliceLength(d, a)
  BY <1>1 DEF LoadReuse, storeVars, actorVars, TypeInv, TypeOK
<1>3. CASE a \in loadIds[d]
  BY <1>2, <1>3, AwaitedIsSliced DEF HasAll
<1>4. CASE a \notin loadIds[d]
  <2>1. Held(a) = {}
    BY <1>2, <1>4 DEF Complete, HasAll, CanSlice
  <2>2. Held(a)' = {}
    BY <1>2, <2>1 DEF Held
  <2> QED
    BY <2>2, NothingToHave
<1> QED
  BY <1>3, <1>4

LEMMA HasAllFresh ==
  ASSUME TypeInv, TypeInv', StoreInv, Counted', OneOwner, Complete,
         NEW d \in Docs, NEW f \in LocalActors, LoadFresh(d, f),
         NEW a \in LocalActors, Belongs(a, d)
  PROVE  HasAll(a, d)'
<1>1. a \in Actors
  BY DEF Actors
<1>2. /\ CanSlice(d) /\ UNCHANGED <<changes, blocks, loadIds>>
      /\ docState'[d] \in {"failed", "ready"}
  BY DEF LoadFresh, DocInit, storeVars, actorVars, TypeInv, TypeOK
<1>3. CASE docState'[d] = "failed"
  BY <1>3 DEF HasAll
<1>4. CASE a \in loadIds[d] /\ docState'[d] = "ready"
  <2> DEFINE sliced == [x \in Actors |-> SliceLength(d, x)]
  <2>1. DocInit(d, HasHole(d), Slices(d), sliced, cursors'[d]) /\ HasHole(d) \in BOOLEAN
    BY DEF LoadFresh, HasHole
  <2>2. ~HasHole(d)
    BY <1>4, <2>1 DEF DocInit, TypeInv, TypeOK
  <2>3. TypeOK /\ cursors'[d] \in ClocksOver(Actors, 0..Infinity)
    BY DEF TypeInv, TypeOK
  <2>4. Slices(d) \in SUBSET Change /\ sliced \in [Actors -> 0..MaxSeq]
    BY <2>3, SliceLemma
  <2>5. docChanges'[d][a] >= sliced[a]
    <3> HIDE DEF sliced
    <3> QED
      BY <1>1, <2>1, <2>2, <2>3, <2>4, DocInitLemma
  <2>6. sliced[a] = Length(changes[a]) /\ DOMAIN blocks[a] \subseteq DOMAIN changes[a]
    BY <1>1, <1>2, <1>4, AwaitedIsSliced
  <2>7. docChanges'[d][a] \in 0..Length(changes'[a])
    BY <1>1, <1>4, CountedIsHeld
  <2>8. Length(changes[a]) \in 0..MaxSeq
    BY <1>1, LengthLemma DEF TypeInv, TypeOK
  <2>9. docChanges'[d][a] = Length(changes'[a])
    BY <1>2, <2>5, <2>6, <2>7, <2>8
  <2> QED
    BY <1>2, <1>4, <2>6, <2>9 DEF HasAll
<1>5. CASE a \notin loadIds[d]
  <2>1. Held(a) = {}
    BY <1>2, <1>5 DEF Complete, HasAll, CanSlice
  <2>2. Held(a)' = {}
    BY <1>2, <2>1 DEF Held
  <2> QED
    BY <2>2, NothingToHave
<1> QED
  BY <1>2, <1>3, <1>4, <1>5

LEMMA HasAllInit ==
  ASSUME TypeInv, TypeInv', StoreInv, Counted', OneOwner, Contiguous, Complete,
         NEW d \in Docs, LoadInit(d), NEW a \in LocalActors, Belongs(a, d)
  PROVE  HasAll(a, d)'
<1>1. a \in Actors /\ changes[a] \in Logs /\ docChanges[d] \in [Actors -> 0..MaxSeq]
  BY DEF Actors, TypeInv, TypeOK
<1>2. /\ UNCHANGED <<changes, blocks, loadIds>>
      /\ docState[d] \in {"sliced", "holed"}
      /\ docState'[d] = IF docState[d] = "holed" THEN "failed" ELSE "ready"
  BY DEF LoadInit, CanInit, DocInit, storeVars, actorVars, TypeInv, TypeOK
<1>3. CASE docState[d] = "holed"
  BY <1>2, <1>3 DEF HasAll
<1>4. CASE docState[d] = "sliced"
  <2> DEFINE n == docChanges[d][a]
             m == docChanges'[d][a]
  <2>1. HasAll(a, d) /\ docState'[d] = "ready"
    BY <1>2, <1>4 DEF Complete
  <2>2. m = IF a \in readyQ[d] THEN Reach(changes[a], n, At(cursors[d], a)) ELSE n
    <3>1. docChanges' = [docChanges EXCEPT ![d] = Pulled(readyQ[d], docChanges[d], changes, cursors[d])]
      BY <1>4 DEF LoadInit, DocInit
    <3>2. docChanges'[d] = Pulled(readyQ[d], docChanges[d], changes, cursors[d])
      BY <3>1 DEF TypeInv, TypeOK
    <3> QED
      BY <1>1, <3>2 DEF Pulled
  <2>3. m \in 0..Length(changes[a])
    BY <1>1, <1>2, <2>1, CountedIsHeld
  <2>4. /\ Length(changes[a]) \in 0..MaxSeq
        /\ Length(changes[a]) = 0 \/ Length(changes[a]) \in DOMAIN changes[a]
        /\ DOMAIN changes[a] \subseteq 1..Length(changes[a])
    BY <1>1, LengthLemma
  <2>5. ASSUME a \in readyQ[d]
        PROVE  m = Length(changes[a])
    <3>1. At(cursors[d], a) = Infinity
      BY DEF OneOwner, At, Belongs
    <3>2. m = Reach(changes[a], n, Infinity) /\ n \in 0..MaxSeq
      BY <1>1, <2>2, <2>5, <3>1
    <3> HIDE DEF m, n
    <3>3. m \in n..MaxSeq /\ ~(m + 1 <= Infinity /\ m + 1 \in DOMAIN changes[a])
      BY <1>1, <3>2, ReachLemma, ConstantsAssumption DEF ConstantsAssumption
    <3>4. m + 1 \notin DOMAIN changes[a]
      BY <3>2, <3>3, ConstantsAssumption DEF ConstantsAssumption
    <3>5. 1..Length(changes[a]) \subseteq DOMAIN changes[a]
      BY ContiguousLength, <1>1 DEF Contiguous
    <3> QED
      BY <2>3, <2>4, <3>4, <3>5
  <2>6. docChanges'[d][a] = Length(changes'[a])
    BY <1>2, <1>4, <2>1, <2>2, <2>5 DEF HasAll
  <2>7. DOMAIN blocks'[a] \subseteq DOMAIN changes'[a]
    BY <1>2, <1>4, <2>1 DEF HasAll
  <2> QED
    BY <2>1, <2>6, <2>7 DEF HasAll
<1> QED
  BY <1>2, <1>3, <1>4

LEMMA CompleteNext ==
  ASSUME IInv, IInv', OneOwner, OneOwner', OwnOnly, Contiguous, OwnersKept, Complete, [Next]_vars
  PROVE  Complete'
<1> USE DEF IInv
<1> SUFFICES ASSUME NEW a \in LocalActors, NEW d \in Docs, Belongs(a, d)'
             PROVE  HasAll(a, d)'
  BY DEF Complete
<1>0. TypeOK /\ a \in Actors /\ docChanges[d][a] \in 0..MaxSeq
      /\ back \in [Docs -> SUBSET Change] /\ changes' \in [Actors -> Logs]
      /\ cursors \in [Docs -> ClocksOver(Actors, 0..Infinity)]
      /\ cursors' \in [Docs -> ClocksOver(Actors, 0..Infinity)]
  BY DEF Actors, TypeInv, TypeOK
<1>1. CASE IsNew(a, d)
  <2>1. Held(a) = {} /\ \A e \in Docs : docActor[e] # a
    BY <1>1, WriterBelongs DEF IsNew
  <2>2. Held(a)' = {}
    BY <2>1, HeldStep
  <2> QED
    BY <2>2, NothingToHave
<1>2. CASE Restart
  BY <1>2 DEF Restart, HasAll
<1>3. ASSUME Belongs(a, d), ~Restart
      PROVE  HasAll(a, d)'
  <2>1. HasAll(a, d)
    BY <1>3 DEF Complete
  <2>2. ASSUME docState'[d] = docState[d], loadIds'[d] = loadIds[d],
               docState[d] = "sliced" => readyQ[d] \subseteq readyQ'[d],
               docChanges'[d][a] >= docChanges[d][a],
               ~(Request(d) /\ docActor[d] = a)
        PROVE  HasAll(a, d)'
    BY <1>3, <2>1, <2>2, NothingGiven, HasAllKept
  <2>3. ASSUME UNCHANGED <<docState, loadIds, readyQ, docChanges>>
        PROVE  HasAll(a, d)'
    <3>1. ~(Request(d) /\ docActor[d] = a) \/ HasAll(a, d)'
      BY HasAllRequest
    <3>2. docChanges'[d][a] >= docChanges[d][a]
      BY <1>0, <2>3
    <3> QED
      BY <2>2, <2>3, <3>1, <3>2
  <2>4. ASSUME NEW A \in SUBSET Actors, NEW cursor \in [Docs -> ClocksOver(Actors, 0..Infinity)],
               NEW clocks, SyncChanges(A, {}, back, changes', cursor, clocks),
               UNCHANGED <<docState, loadIds>>
        PROVE  HasAll(a, d)'
    <3>1. ~(Request(d) /\ docActor[d] = a) \/ HasAll(a, d)'
      BY HasAllRequest
    <3> QED
      BY <1>3, <2>1, <2>4, <3>1, HasAllSynced
  <2>5. ASSUME NEW e \in Docs, Create(e)
        PROVE  HasAll(a, d)'
    <3>1. e # d
      BY <1>3, <2>5 DEF Create, Belongs
    <3>2. docState'[d] = docState[d] /\ UNCHANGED <<loadIds, readyQ, docChanges>>
      BY <2>5, <3>1 DEF Create, TypeInv, TypeOK
    <3>3. docChanges'[d][a] >= docChanges[d][a]
      BY <1>0, <3>2
    <3>4. ~Request(d) \/ e = d \/ docActor[d] # a \/ HasAll(a, d)'
      BY HasAllRequest
    <3> QED
      BY <2>2, <3>1, <3>2, <3>3, <3>4
  <2>6. ASSUME NEW e \in Docs, Open(e)
        PROVE  HasAll(a, d)'
    <3>1. CASE e = d
      <4>1. docState'[d] = "loading" /\ loadIds'[d] = DOMAIN cursors'[d]
        BY <2>6, <3>1 DEF Open, TypeInv, TypeOK
      <4>2. a \in DOMAIN cursors'[d]
        BY DEF Belongs
      <4> QED
        BY <4>1, <4>2 DEF HasAll
    <3>2. CASE e # d
      <4>1. docState'[d] = docState[d] /\ loadIds'[d] = loadIds[d] /\ UNCHANGED <<readyQ, docChanges>>
        BY <2>6, <3>2 DEF Open, TypeInv, TypeOK
      <4>2. docChanges'[d][a] >= docChanges[d][a]
        BY <1>0, <4>1
      <4>3. ~(Request(d) /\ docActor[d] = a) \/ HasAll(a, d)'
        BY HasAllRequest
      <4> QED
        BY <2>2, <4>1, <4>2, <4>3
    <3> QED
      BY <3>1, <3>2
  <2>7. ASSUME NEW e \in Docs, \/ LoadInit(e)
                               \/ \E f \in LocalActors : LoadReuse(e, f) \/ LoadFresh(e, f)
        PROVE  HasAll(a, d)'
    <3>1. CASE e = d
      BY <1>3, <2>7, <3>1, HasAllReuse, HasAllFresh, HasAllInit
    <3>2. CASE e # d
      <4>1. docState'[d] = docState[d] /\ loadIds'[d] = loadIds[d] /\ readyQ'[d] = readyQ[d]
            /\ docChanges'[d] = docChanges[d]
        <5>1. loadIds' = loadIds
          BY <2>7 DEF LoadReuse, LoadFresh, LoadInit
        <5>2. CASE LoadInit(e)
          BY <3>2, <5>1, <5>2 DEF LoadInit, DocInit, TypeInv, TypeOK
        <5>3. ASSUME NEW f \in LocalActors, LoadReuse(e, f)
              PROVE  docState'[d] = docState[d] /\ readyQ'[d] = readyQ[d] /\ docChanges'[d] = docChanges[d]
          BY <3>2, <5>3 DEF LoadReuse, TypeInv, TypeOK
        <5>4. ASSUME NEW f \in LocalActors, LoadFresh(e, f)
              PROVE  docState'[d] = docState[d] /\ readyQ'[d] = readyQ[d] /\ docChanges'[d] = docChanges[d]
          BY <3>2, <5>4 DEF LoadFresh, DocInit, TypeInv, TypeOK
        <5> QED
          BY <2>7, <5>1, <5>2, <5>3, <5>4
      <4>2. docChanges'[d][a] >= docChanges[d][a]
        BY <1>0, <4>1
      <4>3. ~(Request(d) /\ docActor[d] = a) \/ HasAll(a, d)'
        BY HasAllRequest
      <4> QED
        BY <2>2, <4>1, <4>2, <4>3
    <3> QED
      BY <3>1, <3>2
  <2>8. ASSUME NEW e \in Docs, Request(e)
        PROVE  HasAll(a, d)'
    <3>1. CASE e = d /\ docActor[d] = a
      BY <2>8, <3>1, HasAllRequest
    <3>2. CASE ~(e = d /\ docActor[d] = a)
      <4> DEFINE given == [back EXCEPT ![e] = @ \cup {Written(e)}]
      <4>1. /\ SyncChanges({docActor[e]}, {e}, given, changes', cursors, peerClocks)
            /\ UNCHANGED <<docState, loadIds>>
        BY <2>8 DEF Request, Written
      <4>2. given \in [Docs -> SUBSET Change]
        <5>1. Written(e) \in Change
          <6>1. docActor[e] \in Actors
            BY <2>8, RequestEntry DEF Actors
          <6>2. NextSeq(e) \in 1..MaxSeq
            <7>1. NextSeq(e) <= MaxSeq /\ back[e] \subseteq Change
              BY <2>8 DEF Request, TypeInv, TypeOK
            <7> QED
              BY <7>1, NextSeqLemma, ConstantsAssumption DEF ConstantsAssumption
          <6> QED
            BY <6>1, <6>2 DEF Written, Change
        <5> QED
          BY <1>0, <5>1
      <4> HIDE DEF given
      <4>3. {docActor[e]} \in SUBSET Actors /\ {e} \in SUBSET Docs
        BY <2>8, RequestEntry DEF Actors
      <4>4. docChanges'[d][a] >= docChanges[d][a]
        BY <1>0, <4>1, <4>2, <4>3, SyncChangesLemma
      <4>5. docState[d] = "sliced" => readyQ[d] \subseteq readyQ'[d]
        BY <4>1 DEF SyncChanges, IsLoading
      <4>6. ~(Request(d) /\ docActor[d] = a) \/ HasAll(a, d)'
        BY HasAllRequest
      <4> QED
        BY <2>2, <4>1, <4>4, <4>5, <4>6
    <3> QED
      BY <3>1, <3>2
  <2>9. ASSUME NEW ids \in SUBSET Actors, NEW clocks,
               SyncReadyActors(ids, cursors', clocks), UNCHANGED <<docState, loadIds, changes>>
        PROVE  HasAll(a, d)'
    <3>1. /\ SyncChanges({x \in ids : actorState[x] = "ready"}, {}, back, changes', cursors', clocks)
          /\ {x \in ids : actorState[x] = "ready"} \in SUBSET Actors
      BY <2>9 DEF SyncReadyActors
    <3> QED
      BY <1>0, <2>4, <2>9, <3>1
  <2>10. ASSUME NEW e \in Docs, NEW src \in Docs, Merge(e, src)
         PROVE  HasAll(a, d)'
    <3>1. DOMAIN ClockOf(back[src]) \in SUBSET Actors
      <4>1. back[src] \in SUBSET Change
        BY <1>0
      <4> QED
        BY <4>1 DEF ClockOf, Change
    <3> QED
      BY <2>9, <2>10, <3>1 DEF Merge
  <2>11. ASSUME NEW e \in Docs, NEW clock \in PeerClocks, CursorMessage(e, clock)
         PROVE  HasAll(a, d)'
    <3>1. DOMAIN PeerCursor[e] \in SUBSET Actors
      BY ConstantsAssumption DEF ConstantsAssumption, ClocksOver
    <3> QED
      BY <2>9, <2>11, <3>1 DEF CursorMessage
  <2>12. ASSUME NEW x \in Actors, StreamEnd(x)
         PROVE  HasAll(a, d)'
    <3>1. PICK A \in SUBSET Actors : SyncChanges(A, {}, back, changes', cursors, peerClocks)
      <4>1. SyncChanges(IF streamEnd[x] > 0 \/ x \in syncWait THEN {x} ELSE {}, {},
                        back, changes', cursors, peerClocks)
        BY <2>12 DEF StreamEnd
      <4> QED
        BY <4>1
    <3> QED
      BY <1>0, <2>4, <2>12, <3>1 DEF StreamEnd
  <2>13. ASSUME NEW x \in RemoteActors, SyncEvent(x)
         PROVE  HasAll(a, d)'
    <3>1. PICK A \in SUBSET Actors : SyncChanges(A, {}, back, changes', cursors, peerClocks)
      <4>1. /\ SyncChanges(IF actorState[x] \in {"streaming", "ready"} THEN {x} ELSE {}, {},
                           back, changes, cursors, peerClocks)
            /\ changes' = changes
        BY <2>13 DEF SyncEvent
      <4> QED
        BY <4>1 DEF Actors
    <3> QED
      BY <1>0, <2>4, <2>13, <3>1 DEF SyncEvent
  <2>14. \/ UNCHANGED <<docState, loadIds, readyQ, docChanges>>
         \/ \E e \in Docs : Create(e) \/ Open(e) \/ LoadInit(e) \/ Request(e)
         \/ \E e \in Docs, f \in LocalActors : LoadReuse(e, f) \/ LoadFresh(e, f)
         \/ \E e, src \in Docs : Merge(e, src)
         \/ \E e \in Docs, clock \in PeerClocks : CursorMessage(e, clock)
         \/ \E x \in Actors : StreamEnd(x)
         \/ \E x \in RemoteActors : SyncEvent(x)
    BY <1>3 DEF Next, vars, docVars, NeedsActorId, FeedReady, RemoteAppend, Download, Flush
  <2> QED
    BY <2>3, <2>5, <2>6, <2>7, <2>8, <2>10, <2>11, <2>12, <2>13, <2>14
<1> QED
  BY <1>1, <1>2, <1>3 DEF OwnersKept

-----------------------------------------------------------------------------
(* A document shows what it counts *)

LEMMA CollectedInTwo ==
  ASSUME NEW had \in [Actors -> 0..MaxSeq], NEW has \in [Actors -> 0..MaxSeq],
         NEW logs, \A a \in Actors : has[a] >= had[a]
  PROVE  Collected(NoChanges, has, logs) = Collected(NoChanges, had, logs) \cup Collected(had, has, logs)
<1>1. \A a \in Actors : had[a] \in Nat /\ has[a] \in Nat /\ NoChanges[a] + 1 = 1
  BY ConstantsAssumption DEF ConstantsAssumption, NoChanges
<1>2. \A a \in Actors : (NoChanges[a] + 1)..has[a] = ((NoChanges[a] + 1)..had[a]) \cup ((had[a] + 1)..has[a])
  BY <1>1
<1>3. \A c : c \in Collected(NoChanges, has, logs) <=>
              \E a \in Actors : \E i \in (NoChanges[a] + 1)..has[a] : c = logs[a][i]
  BY DEF Collected
<1>4. \A c : c \in Collected(NoChanges, had, logs) <=>
              \E a \in Actors : \E i \in (NoChanges[a] + 1)..had[a] : c = logs[a][i]
  BY DEF Collected
<1>5. \A c : c \in Collected(had, has, logs) <=>
              \E a \in Actors : \E i \in (had[a] + 1)..has[a] : c = logs[a][i]
  BY DEF Collected
<1> HIDE DEF NoChanges
<1>6. ASSUME NEW c
      PROVE  c \in Collected(NoChanges, has, logs) <=>
               c \in Collected(NoChanges, had, logs) \cup Collected(had, has, logs)
  <2>1. ASSUME NEW a \in Actors, NEW i
        PROVE  i \in (NoChanges[a] + 1)..has[a] <=>
                 i \in (NoChanges[a] + 1)..had[a] \/ i \in (had[a] + 1)..has[a]
    BY <1>2
  <2>2. ASSUME c \in Collected(NoChanges, has, logs)
        PROVE  c \in Collected(NoChanges, had, logs) \/ c \in Collected(had, has, logs)
    <3>1. PICK a \in Actors : \E i \in (NoChanges[a] + 1)..has[a] : c = logs[a][i]
      BY <1>3, <2>2
    <3>2. PICK i \in (NoChanges[a] + 1)..has[a] : c = logs[a][i]
      BY <3>1
    <3>3. CASE i \in (NoChanges[a] + 1)..had[a]
      BY <1>4, <3>2, <3>3
    <3>4. CASE i \in (had[a] + 1)..has[a]
      BY <1>5, <3>2, <3>4
    <3> QED
      BY <2>1, <3>2, <3>3, <3>4
  <2>3. ASSUME c \in Collected(NoChanges, had, logs)
        PROVE  c \in Collected(NoChanges, has, logs)
    <3>1. PICK a \in Actors : \E i \in (NoChanges[a] + 1)..had[a] : c = logs[a][i]
      BY <1>4, <2>3
    <3> QED
      BY <1>3, <2>1, <3>1
  <2>4. ASSUME c \in Collected(had, has, logs)
        PROVE  c \in Collected(NoChanges, has, logs)
    <3>1. PICK a \in Actors : \E i \in (had[a] + 1)..has[a] : c = logs[a][i]
      BY <1>5, <2>4
    <3> QED
      BY <1>3, <2>1, <3>1
  <2> QED
    BY <2>2, <2>3, <2>4
<1> QED
  BY <1>6

\* A closure of syncChanges keeps it so ...
LEMMA ShownPulled ==
  ASSUME NEW A \in SUBSET Actors, NEW had \in [Actors -> 0..MaxSeq], NEW given,
         NEW logs \in [Actors -> Logs], NEW cursor \in ClocksOver(Actors, 0..Infinity),
         ShownAs(had, given, cursor, logs)
  PROVE  LET has == Pulled(A, had, logs, cursor)
         IN ShownAs(has, given \cup Collected(had, has, logs), cursor, logs)
<1> DEFINE has == Pulled(A, had, logs, cursor)
<1>1. /\ has \in [Actors -> 0..MaxSeq]
      /\ \A a \in Actors : has[a] >= had[a]
      /\ \A a \in Actors : \A i \in (had[a] + 1)..has[a] : i <= At(cursor, a)
  BY PulledLemma
<1> HIDE DEF has
<1>2. Collected(NoChanges, has, logs) = given \cup Collected(had, has, logs)
  BY <1>1, CollectedInTwo DEF ShownAs
<1>3. ASSUME NEW a \in Actors
      PROVE  has[a] <= At(cursor, a)
  <2>1. had[a] \in Nat /\ has[a] \in Nat /\ had[a] <= At(cursor, a) /\ has[a] >= had[a]
    BY <1>1, ConstantsAssumption DEF ConstantsAssumption, ShownAs
  <2>2. CASE has[a] = had[a]
    BY <2>1, <2>2
  <2>3. CASE has[a] # had[a]
    <3>1. has[a] \in (had[a] + 1)..has[a]
      BY <2>1, <2>3
    <3> QED
      BY <1>1, <3>1
  <2> QED
    BY <2>2, <2>3
<1>4. ShownAs(has, given \cup Collected(had, has, logs), cursor, logs)
  BY <1>2, <1>3 DEF ShownAs
<1> QED
  BY <1>4 DEF has

\* ... and so do a wider cursor and longer logs.
LEMMA ShownWider ==
  ASSUME NEW had \in [Actors -> 0..MaxSeq], NEW given, NEW logs, NEW longer,
         NEW cursor, NEW wider, IsClock(cursor), IsClock(wider), Gte(wider, cursor),
         \A a \in Actors : \A i \in 1..had[a] : longer[a][i] = logs[a][i],
         ShownAs(had, given, cursor, logs)
  PROVE  ShownAs(had, given, wider, longer)
<1>1. ASSUME NEW a \in Actors
      PROVE  had[a] <= At(wider, a)
  <2>1. had[a] \in Nat /\ had[a] <= At(cursor, a)
    BY ConstantsAssumption DEF ConstantsAssumption, ShownAs
  <2>2. At(wider, a) \in Nat /\ At(cursor, a) \in Nat
    BY DEF IsClock, At
  <2>3. At(wider, a) >= At(cursor, a)
    BY <2>2 DEF Gte, At
  <2> QED
    BY <2>1, <2>2, <2>3
<1>2. \A a \in Actors : NoChanges[a] + 1 = 1
  BY DEF NoChanges
<1>3. \A c : c \in Collected(NoChanges, had, logs) <=>
              \E a \in Actors : \E i \in 1..had[a] : c = logs[a][i]
  BY <1>2 DEF Collected
<1>4. \A c : c \in Collected(NoChanges, had, longer) <=>
              \E a \in Actors : \E i \in 1..had[a] : c = longer[a][i]
  BY <1>2 DEF Collected
<1>5. Collected(NoChanges, had, longer) = Collected(NoChanges, had, logs)
  BY SMTT(30), <1>3, <1>4
<1> QED
  BY <1>1, <1>5 DEF ShownAs

\* What loadDocument slices, when there is no hole.
LEMMA ShownSliced ==
  ASSUME TypeInv, NEW d \in Docs, ~HasHole(d)
  PROVE  ShownAs([x \in Actors |-> SliceLength(d, x)], Slices(d), cursors[d], changes)
<1> DEFINE sliced == [x \in Actors |-> SliceLength(d, x)]
<1>1. ASSUME NEW a \in Actors
      PROVE  sliced[a] <= At(cursors[d], a)
  <2>1. At(cursors[d], a) \in Nat /\ Length(changes[a]) \in Nat
    <3>1. changes[a] \in Logs
      BY DEF TypeInv, TypeOK
    <3>2. At(cursors[d], a) \in 0..Infinity
      BY EntriesAreNumbers DEF TypeInv
    <3> QED
      BY <3>1, <3>2, LengthLemma, ConstantsAssumption DEF ConstantsAssumption
  <2> QED
    BY <2>1 DEF SliceLength
<1>2. \A a \in Actors : NoChanges[a] + 1 = 1 /\ sliced[a] = SliceLength(d, a)
  BY DEF NoChanges
<1>3. \A a \in Actors : (1..SliceLength(d, a)) \cap DOMAIN changes[a] = 1..SliceLength(d, a)
  BY DEF HasHole
<1>4. \A c : c \in Slices(d) <=> \E a \in Actors : \E i \in 1..SliceLength(d, a) : c = changes[a][i]
  BY <1>3 DEF Slices
<1>5. \A c : c \in Collected(NoChanges, sliced, changes) <=>
              \E a \in Actors : \E i \in 1..SliceLength(d, a) : c = changes[a][i]
  BY <1>2 DEF Collected
<1>6. Slices(d) = Collected(NoChanges, sliced, changes)
  BY <1>4, <1>5
<1> QED
  BY <1>1, <1>6 DEF ShownAs

\* A step leaves what a document counted where it was.
LEMMA ShownKept ==
  ASSUME IInv, TypeInv', Shown, [Next]_vars, ~Restart,
         NEW d \in Docs, docState[d] \in {"sliced", "ready"}
  PROVE  ShownAs(docChanges[d], back[d], cursors'[d], changes')
<1> USE DEF IInv
<1>1. docChanges[d] \in [Actors -> 0..MaxSeq]
  BY DEF TypeInv, TypeOK
<1>2. IsClock(cursors[d]) /\ IsClock(cursors'[d]) /\ Gte(cursors'[d], cursors[d])
  <2>1. 0..Infinity \in SUBSET Nat
    BY ConstantsAssumption DEF ConstantsAssumption
  <2>2. cursors[d] \in ClocksOver(Actors, 0..Infinity) /\ cursors'[d] \in ClocksOver(Actors, 0..Infinity)
    BY DEF TypeInv, TypeOK
  <2> QED
    BY <2>1, <2>2, ClocksOverAreClocks, CursorsGrow
<1>3. \A a \in Actors : \A i \in 1..docChanges[d][a] : changes'[a][i] = changes[a][i]
  BY ChangesKept DEF Counted
<1>4. ShownAs(docChanges[d], back[d], cursors[d], changes)
  BY DEF Shown
<1> QED
  BY <1>1, <1>2, <1>3, <1>4, ShownWider

\* syncChanges, when nothing else is given to document d.
LEMMA ShownSynced ==
  ASSUME IInv, TypeInv', Shown, [Next]_vars, ~Restart, docState' = docState,
         NEW A \in SUBSET Actors, NEW written, NEW given, NEW clocks,
         SyncChanges(A, written, given, changes', cursors', clocks),
         NEW d \in Docs, docState'[d] \in {"sliced", "ready"}, given[d] = back[d]
  PROVE  ShownAs(docChanges'[d], back'[d], cursors'[d], changes')
<1> DEFINE B == A \cap DOMAIN cursors'[d]
<1>1. ShownAs(docChanges[d], back[d], cursors'[d], changes')
  BY ShownKept
<1>2. CASE docState[d] # "ready"
  <2>1. TypeInv
    BY DEF IInv
  <2>2. docChanges'[d] = docChanges[d] /\ back'[d] = given[d]
    BY <1>2, <2>1, UnreadyBack
  <2> QED
    BY <1>1, <2>2
<1>3. CASE docState[d] = "ready"
  <2>1. /\ docChanges'[d] = Pulled(B, docChanges[d], changes', cursors'[d])
        /\ back'[d] = back[d] \cup Collected(docChanges[d], docChanges'[d], changes')
    BY <1>3 DEF SyncChanges
  <2>2. /\ B \in SUBSET Actors /\ docChanges[d] \in [Actors -> 0..MaxSeq]
        /\ changes' \in [Actors -> Logs] /\ cursors'[d] \in ClocksOver(Actors, 0..Infinity)
    BY DEF IInv, TypeInv, TypeOK
  <2> HIDE DEF B
  <2> QED
    BY <1>1, <2>1, <2>2, ShownPulled
<1> QED
  BY <1>2, <1>3

\* The change of a request is the next one in the log of its writer.
LEMMA ShownRequest ==
  ASSUME IInv, IInv', OneOwner, OwnOnly, Complete, Shown, [Next]_vars, NEW d \in Docs, Request(d),
         NEW a \in LocalActors, docActor[d] = a
  PROVE  ShownAs(docChanges'[d], back'[d], cursors'[d], changes')
<1> USE DEF IInv
<1> DEFINE i == NextIndex(a)
           given == [back EXCEPT ![d] = @ \cup {Written(d)}]
           pulled == Pulled({a} \cap DOMAIN cursors'[d], docChanges[d], changes', cursors'[d])
           got == Collected(docChanges[d], docChanges'[d], changes')
<1>1. /\ docState[d] = "ready" /\ docState' = docState /\ docActor' = docActor /\ cursors' = cursors
      /\ SyncChanges({a}, {d}, given, changes', cursors', peerClocks)
      /\ ~Restart
  <2>1. docState[d] = "ready" /\ docState' = docState
    BY DEF Request
  <2>2. ~Restart
    BY <2>1 DEF Restart
  <2> QED
    BY <2>1, <2>2 DEF Request, Written
<1>2. /\ a \in LocalActors /\ a \in Actors /\ Belongs(a, d) /\ i \in 1..MaxSeq
      /\ DOMAIN changes'[a] = DOMAIN changes[a] \cup {i} /\ changes'[a][i] = Written(d)
  BY RequestEntry, WriterBelongs DEF Actors
<1>3. docChanges'[d] = pulled /\ back'[d] = back[d] \cup {Written(d)} \cup got
  <2>1. given[d] = back[d] \cup {Written(d)}
    BY DEF TypeInv, TypeOK
  <2> HIDE DEF given
  <2> QED
    BY <1>1, <2>1 DEF SyncChanges
<1>4. Written(d) \in got
  <2>1. docChanges[d][a] + 1 = i
    <3>1. HasAll(a, d)
      BY <1>2 DEF Complete
    <3> QED
      BY <1>1, <3>1 DEF HasAll, NextIndex
  <2>2. docChanges'[d][a] = Length(changes'[a])
    <3>1. HasAll(a, d)'
      BY <1>2, HasAllRequest
    <3> QED
      BY <1>1, <3>1 DEF HasAll
  <2>3. Length(changes'[a]) >= i
    <3>1. changes'[a] \in Logs
      BY <1>2 DEF TypeInv, TypeOK
    <3>2. DOMAIN changes'[a] \subseteq 1..Length(changes'[a]) /\ Length(changes'[a]) \in 0..MaxSeq
      BY <3>1, LengthLemma
    <3>3. i \in 1..Length(changes'[a])
      BY <1>2, <3>2
    <3> HIDE DEF i
    <3> QED
      BY <3>2, <3>3
  <2>4. docChanges[d][a] \in 0..MaxSeq /\ docChanges'[d][a] \in 0..MaxSeq
    BY <1>2 DEF TypeInv, TypeOK
  <2> HIDE DEF i
  <2>5. i \in (docChanges[d][a] + 1)..docChanges'[d][a]
    BY <1>2, <2>1, <2>2, <2>3, <2>4
  <2> QED
    BY <1>2, <2>5 DEF Collected
<1>5. back'[d] = back[d] \cup got
  BY <1>3, <1>4
<1>6. ShownAs(docChanges[d], back[d], cursors'[d], changes')
  BY <1>1, ShownKept
<1>7. /\ {a} \cap DOMAIN cursors'[d] \in SUBSET Actors /\ docChanges[d] \in [Actors -> 0..MaxSeq]
      /\ changes' \in [Actors -> Logs] /\ cursors'[d] \in ClocksOver(Actors, 0..Infinity)
  BY <1>2 DEF TypeInv, TypeOK
<1> HIDE DEF given, i
<1>8. ShownAs(pulled, back[d] \cup Collected(docChanges[d], pulled, changes'), cursors'[d], changes')
  BY <1>6, <1>7, ShownPulled
<1> QED
  BY <1>3, <1>5, <1>8

\* A document that becomes ready, or is sliced.
LEMMA ShownLoaded ==
  ASSUME IInv, IInv', NotLoaded, Shown, [Next]_vars, NEW d \in Docs,
         \/ Create(d) \/ LoadInit(d) \/ \E f \in LocalActors : LoadReuse(d, f) \/ LoadFresh(d, f),
         docState'[d] \in {"sliced", "ready"}
  PROVE  ShownAs(docChanges'[d], back'[d], cursors'[d], changes')
<1> USE DEF IInv
<1>1. ~Restart
  BY DEF Restart
<1>2. /\ changes \in [Actors -> Logs] /\ docChanges[d] \in [Actors -> 0..MaxSeq]
      /\ cursors[d] \in ClocksOver(Actors, 0..Infinity) /\ cursors'[d] \in ClocksOver(Actors, 0..Infinity)
      /\ IsClock(cursors[d]) /\ IsClock(cursors'[d]) /\ Gte(cursors'[d], cursors[d])
  <2>1. 0..Infinity \in SUBSET Nat
    BY ConstantsAssumption DEF ConstantsAssumption
  <2>2. /\ cursors[d] \in ClocksOver(Actors, 0..Infinity)
        /\ cursors'[d] \in ClocksOver(Actors, 0..Infinity)
    BY DEF TypeInv, TypeOK
  <2>3. Gte(cursors'[d], cursors[d])
    BY CursorsGrow
  <2>4. IsClock(cursors[d]) /\ IsClock(cursors'[d])
    BY <2>1, <2>2, ClocksOverAreClocks
  <2> QED
    BY <2>2, <2>3, <2>4 DEF TypeInv, TypeOK
<1>3. CASE Create(d)
  <2>1. docChanges'[d] = NoChanges /\ back'[d] = {}
    BY <1>3 DEF Create, Counted, NotLoaded
  <2>2. \A a \in Actors : NoChanges[a] = 0
    BY DEF NoChanges
  <2>3. Collected(NoChanges, NoChanges, changes') = {}
    <3>1. \A a \in Actors : (NoChanges[a] + 1)..NoChanges[a] = {}
      BY <2>2
    <3> QED
      BY <3>1 DEF Collected
  <2>4. \A a \in Actors : NoChanges[a] <= At(cursors'[d], a)
    <3>1. \A a \in Actors : At(cursors'[d], a) \in Nat
      BY <1>2 DEF IsClock, At
    <3> QED
      BY <2>2, <3>1
  <2> QED
    BY <2>1, <2>3, <2>4 DEF ShownAs
<1>4. CASE LoadInit(d)
  <2>1. docState[d] # "holed"
    BY <1>4 DEF LoadInit, DocInit, TypeInv, TypeOK
  <2>2. /\ docState[d] = "sliced" /\ changes' = changes /\ cursors' = cursors
        /\ docChanges' = [docChanges EXCEPT ![d] = Pulled(readyQ[d], docChanges[d], changes, cursors[d])]
        /\ back' = [back EXCEPT ![d] = back[d] \cup Collected(docChanges[d], docChanges'[d], changes)]
    BY <1>4, <2>1 DEF LoadInit, CanInit, DocInit, actorVars
  <2>3. /\ docChanges'[d] = Pulled(readyQ[d], docChanges[d], changes, cursors[d])
        /\ back'[d] = back[d] \cup Collected(docChanges[d], docChanges'[d], changes)
    BY <2>2 DEF TypeInv, TypeOK
  <2>4. ShownAs(docChanges[d], back[d], cursors[d], changes) /\ readyQ[d] \in SUBSET Actors
    BY <2>2 DEF Shown, TypeInv, TypeOK
  <2> QED
    BY <1>2, <2>2, <2>3, <2>4, ShownPulled
<1>5. ASSUME NEW f \in LocalActors, LoadReuse(d, f)
      PROVE  ShownAs(docChanges'[d], back'[d], cursors'[d], changes')
  <2>1. /\ ~HasHole(d) /\ changes' = changes /\ cursors' = cursors
        /\ docChanges'[d] = [x \in Actors |-> SliceLength(d, x)] /\ back'[d] = Slices(d)
    BY <1>5 DEF LoadReuse, actorVars, storeVars, TypeInv, TypeOK
  <2> QED
    BY <2>1, ShownSliced
<1>6. ASSUME NEW f \in LocalActors, LoadFresh(d, f)
      PROVE  ShownAs(docChanges'[d], back'[d], cursors'[d], changes')
  <2> DEFINE sliced == [x \in Actors |-> SliceLength(d, x)]
  <2>1. changes' = changes /\ DocInit(d, HasHole(d), Slices(d), sliced, cursors'[d])
    BY <1>6 DEF LoadFresh
  <2>2. sliced \in [Actors -> 0..MaxSeq]
    <3>1. TypeOK
      BY DEF TypeInv
    <3> QED
      BY <3>1, SliceLemma
  <2>3. ~HasHole(d)
    BY <2>1 DEF DocInit, TypeInv, TypeOK
  <2> HIDE DEF sliced
  <2>4. /\ docChanges' = [docChanges EXCEPT ![d] = Pulled(readyQ[d], sliced, changes, cursors'[d])]
        /\ back' = [back EXCEPT ![d] = Slices(d) \cup Collected(sliced, docChanges'[d], changes)]
    BY <2>1, <2>3 DEF DocInit
  <2>5. /\ docChanges'[d] = Pulled(readyQ[d], sliced, changes, cursors'[d])
        /\ back'[d] = Slices(d) \cup Collected(sliced, docChanges'[d], changes)
    BY <2>4 DEF TypeInv, TypeOK
  <2>6. ShownAs(sliced, Slices(d), cursors[d], changes)
    BY <2>3, ShownSliced DEF sliced
  <2>7. ShownAs(sliced, Slices(d), cursors'[d], changes)
    BY <1>2, <2>2, <2>6, ShownWider
  <2>8. readyQ[d] \in SUBSET Actors
    BY DEF TypeInv, TypeOK
  <2> QED
    BY <1>2, <2>1, <2>2, <2>5, <2>7, <2>8, ShownPulled
<1> QED
  BY <1>3, <1>4, <1>5, <1>6

LEMMA ShownNext ==
  ASSUME IInv, IInv', OneOwner, OwnOnly, NotLoaded, Complete, Shown, [Next]_vars
  PROVE  Shown'
<1> SUFFICES ASSUME NEW d \in Docs, docState'[d] \in {"sliced", "ready"}
             PROVE  ShownAs(docChanges'[d], back'[d], cursors'[d], changes')
  BY DEF Shown
<1> DEFINE Kept == ShownAs(docChanges'[d], back'[d], cursors'[d], changes')
<1>1. TypeOK /\ TypeInv /\ TypeInv'
  BY DEF IInv, TypeInv
<1>2. ~Restart
  BY DEF Restart
<1>3. ASSUME docState'[d] = docState[d], docChanges'[d] = docChanges[d], back'[d] = back[d]
      PROVE  Kept
  BY <1>1, <1>2, <1>3, ShownKept
<1>4. ASSUME NEW e \in Docs,
             \/ Create(e) \/ LoadInit(e) \/ \E f \in LocalActors : LoadReuse(e, f) \/ LoadFresh(e, f)
      PROVE  Kept
  <2>1. CASE e = d
    BY <1>4, <2>1, ShownLoaded
  <2>2. CASE e # d
    <3>1. CASE Create(e)
      <4>1. docState'[d] = docState[d] /\ docChanges' = docChanges /\ back' = back
        BY <1>1, <2>2, <3>1 DEF Create, TypeOK
      <4> QED
        BY <1>3, <4>1
    <3>2. CASE LoadInit(e)
      <4>1. docState'[d] = docState[d] /\ docChanges'[d] = docChanges[d] /\ back'[d] = back[d]
        BY <1>1, <2>2, <3>2 DEF LoadInit, DocInit, TypeOK
      <4> QED
        BY <1>3, <4>1
    <3>3. ASSUME NEW f \in LocalActors, LoadReuse(e, f)
          PROVE  Kept
      <4>1. docState'[d] = docState[d] /\ docChanges'[d] = docChanges[d] /\ back'[d] = back[d]
        BY <1>1, <2>2, <3>3 DEF LoadReuse, TypeOK
      <4> QED
        BY <1>3, <4>1
    <3>4. ASSUME NEW f \in LocalActors, LoadFresh(e, f)
          PROVE  Kept
      <4>1. docState'[d] = docState[d] /\ docChanges'[d] = docChanges[d] /\ back'[d] = back[d]
        BY <1>1, <2>2, <3>4 DEF LoadFresh, DocInit, TypeOK
      <4> QED
        BY <1>3, <4>1
    <3> HIDE DEF Kept
    <3> QED
      BY <1>4, <3>1, <3>2, <3>3, <3>4
  <2> QED
    BY <2>1, <2>2
<1>5. ASSUME NEW e \in Docs, Open(e)
      PROVE  Kept
  <2>1. docState' = [docState EXCEPT ![e] = "loading"] /\ UNCHANGED <<docChanges, back>>
    BY <1>5 DEF Open
  <2>2. docState'[d] = docState[d]
    BY <1>1, <2>1 DEF TypeOK
  <2> QED
    BY <1>3, <2>1, <2>2
<1>6. ASSUME NEW e \in Docs, Request(e)
      PROVE  Kept
  <2>1. docActor[e] \in LocalActors
    BY <1>6, RequestEntry DEF IInv
  <2>2. CASE e = d
    BY <1>6, <2>1, <2>2, ShownRequest
  <2>3. CASE e # d
    <3> DEFINE given == [back EXCEPT ![e] = @ \cup {Written(e)}]
    <3>1. /\ SyncChanges({docActor[e]}, {e}, given, changes', cursors', peerClocks)
          /\ docState' = docState
      BY <1>6 DEF Request, Written
    <3>2. given[d] = back[d] /\ {docActor[e]} \in SUBSET Actors
      BY <1>1, <2>1, <2>3 DEF TypeOK, Actors
    <3> HIDE DEF given
    <3> QED
      BY <1>1, <1>2, <3>1, <3>2, ShownSynced
  <2> QED
    BY <2>2, <2>3
<1>7. ASSUME NEW A \in SUBSET Actors, NEW clocks, docState' = docState,
             SyncChanges(A, {}, back, changes', cursors', clocks)
      PROVE  Kept
  BY <1>1, <1>2, <1>7, ShownSynced
<1>8. ASSUME NEW ids \in SUBSET Actors, NEW clocks,
             SyncReadyActors(ids, cursors', clocks), UNCHANGED <<docState, changes>>
      PROVE  Kept
  <2>1. /\ SyncChanges({x \in ids : actorState[x] = "ready"}, {}, back, changes', cursors', clocks)
        /\ {x \in ids : actorState[x] = "ready"} \in SUBSET Actors
    BY <1>8 DEF SyncReadyActors
  <2> HIDE DEF Kept
  <2> QED
    BY <1>7, <1>8, <2>1
<1>9. ASSUME NEW e \in Docs, NEW src \in Docs, Merge(e, src)
      PROVE  Kept
  <2>1. DOMAIN ClockOf(back[src]) \in SUBSET Actors
    <3>1. back[src] \in SUBSET Change
      BY <1>1 DEF TypeOK
    <3> QED
      BY <3>1 DEF ClockOf, Change
  <2> QED
    BY <1>8, <1>9, <2>1 DEF Merge
<1>10. ASSUME NEW e \in Docs, NEW clock \in PeerClocks, CursorMessage(e, clock)
       PROVE  Kept
  <2>1. DOMAIN PeerCursor[e] \in SUBSET Actors
    BY ConstantsAssumption DEF ConstantsAssumption, ClocksOver
  <2> QED
    BY <1>8, <1>10, <2>1 DEF CursorMessage
<1>11. ASSUME NEW x \in Actors, StreamEnd(x)
       PROVE  Kept
  <2>1. PICK A \in SUBSET Actors : SyncChanges(A, {}, back, changes', cursors', peerClocks)
    <3>1. SyncChanges(IF streamEnd[x] > 0 \/ x \in syncWait THEN {x} ELSE {}, {},
                      back, changes', cursors', peerClocks)
      BY <1>11 DEF StreamEnd
    <3> QED
      BY <3>1
  <2> QED
    BY <1>7, <1>11, <2>1 DEF StreamEnd
<1>12. ASSUME NEW x \in RemoteActors, SyncEvent(x)
       PROVE  Kept
  <2>1. PICK A \in SUBSET Actors : SyncChanges(A, {}, back, changes', cursors', peerClocks)
    <3>1. SyncChanges(IF actorState[x] \in {"streaming", "ready"} THEN {x} ELSE {}, {},
                      back, changes', cursors', peerClocks)
      BY <1>12 DEF SyncEvent
    <3> QED
      BY <3>1 DEF Actors
  <2> QED
    BY <1>7, <1>12, <2>1 DEF SyncEvent
<1>13. ASSUME UNCHANGED <<docState, docChanges, back>>
       PROVE  Kept
  BY <1>3, <1>13
<1>14. \/ UNCHANGED <<docState, docChanges, back>>
       \/ \E e \in Docs : Create(e) \/ Open(e) \/ LoadInit(e) \/ Request(e)
       \/ \E e \in Docs, f \in LocalActors : LoadReuse(e, f) \/ LoadFresh(e, f)
       \/ \E e, src \in Docs : Merge(e, src)
       \/ \E e \in Docs, clock \in PeerClocks : CursorMessage(e, clock)
       \/ \E x \in Actors : StreamEnd(x)
       \/ \E x \in RemoteActors : SyncEvent(x)
  BY <1>2 DEF Next, vars, docVars, NeedsActorId, FeedReady, RemoteAppend, Download, Flush
<1> HIDE DEF Kept
<1>15. Kept
  BY <1>4, <1>5, <1>6, <1>9, <1>10, <1>11, <1>12, <1>13, <1>14
<1> QED
  BY <1>15 DEF Kept

-----------------------------------------------------------------------------
(* The n-th change of a feed is the n-th change of its author *)

\* Automerge gives a request the number that its change has in the log.
LEMMA NumberedAsLogged ==
  ASSUME IInv, OneOwner, OwnOnly, Contiguous, Complete, Shown, FeedOrder,
         NEW d \in Docs, docState[d] = "ready", NEW a \in LocalActors, docActor[d] = a
  PROVE  NextSeq(d) = NextIndex(a)
<1> DEFINE n == Length(changes[a])
           Free(k) == /\ \A c \in back[d] : c.actor = docActor[d] => c.seq < k
                      /\ k = 1 \/ \E c \in back[d] : c.actor = docActor[d] /\ c.seq = k - 1
<1>1. a \in Actors /\ changes[a] \in Logs
  BY DEF Actors, IInv, TypeInv, TypeOK
<1>2. DOMAIN changes[a] = 1..n /\ n \in 0..MaxSeq
  BY <1>1, ContiguousLength DEF Contiguous
<1>3. docChanges[d][a] = n
  BY WriterBelongs DEF Complete, HasAll
<1>4. back[d] = Collected(NoChanges, docChanges[d], changes)
  BY DEF Shown, ShownAs
<1>5. \A x \in Actors : \A i \in 1..docChanges[d][x] :
        i \in DOMAIN changes[x] /\ changes[x][i] \in back[d]
        /\ changes[x][i].actor = x /\ changes[x][i].seq = i
  BY DEF IInv, Counted, FeedOrder
<1>6. \A x \in Actors : NoChanges[x] + 1 = 1
  BY DEF NoChanges
<1> HIDE DEF n
<1>7. ASSUME NEW c \in back[d], c.actor = a
      PROVE  c.seq \in 1..n
  <2>1. PICK x \in Actors : \E i \in (NoChanges[x] + 1)..docChanges[d][x] : c = changes[x][i]
    BY <1>4 DEF Collected
  <2>2. PICK i \in 1..docChanges[d][x] : c = changes[x][i]
    BY <1>6, <2>1
  <2>3. x = a /\ c.seq = i
    BY <1>5, <1>7, <2>2
  <2> QED
    BY <1>3, <2>2, <2>3
<1>8. \A i \in 1..n : \E c \in back[d] : c.actor = a /\ c.seq = i
  BY <1>1, <1>3, <1>5
<1>9. n + 1 \in 1..(MaxSeq + 1) /\ Free(n + 1)
  <2>1. n \in Nat /\ MaxSeq \in Nat /\ n <= MaxSeq
    BY <1>2, ConstantsAssumption DEF ConstantsAssumption
  <2>2. \A c \in back[d] : c.actor = docActor[d] => c.seq < n + 1
    BY <1>7, <2>1
  <2>3. n + 1 = 1 \/ \E c \in back[d] : c.actor = docActor[d] /\ c.seq = n
    <3>1. n = 0 \/ n \in 1..n
      BY <2>1
    <3> QED
      BY <1>8, <3>1
  <2> QED
    BY <2>1, <2>2, <2>3
<1>10. NextSeq(d) = CHOOSE k \in 1..(MaxSeq + 1) : Free(k)
  BY DEF NextSeq
<1> DEFINE s == CHOOSE k \in 1..(MaxSeq + 1) : Free(k)
<1>11. s \in 1..(MaxSeq + 1) /\ Free(s)
  <2> HIDE DEF Free
  <2> QED
    BY <1>9
<1> HIDE DEF s
<1>12. s = n + 1
  <2>1. n \in Nat /\ MaxSeq \in Nat /\ s \in Nat /\ s >= 1
    BY <1>2, <1>11, ConstantsAssumption DEF ConstantsAssumption
  <2>2. s = 1 \/ s - 1 \in 1..n
    BY <1>7, <1>11
  <2>3. n = 0 \/ n < s
    <3>1. n = 0 \/ n \in 1..n
      BY <2>1
    <3> QED
      BY <1>8, <1>11, <3>1
  <2> QED
    BY <2>1, <2>2, <2>3
<1> QED
  BY <1>10, <1>12 DEF NextIndex, n, s

LEMMA FeedOrderNext ==
  ASSUME IInv, OneOwner, OwnOnly, Contiguous, Complete, Shown, FeedOrder, [Next]_vars
  PROVE  FeedOrder'
<1> USE DEF IInv
<1> DEFINE InOrder(log, a) == \A i \in DOMAIN log : log[i].actor = a /\ log[i].seq = i
<1> SUFFICES ASSUME NEW a \in Actors
             PROVE  InOrder(changes'[a], a) /\ InOrder(blocks'[a], a)
  BY DEF FeedOrder
<1>1. InOrder(changes[a], a) /\ InOrder(blocks[a], a)
  BY DEF FeedOrder
<1>2. CASE UNCHANGED <<changes, blocks>>
  BY <1>1, <1>2
<1>3. ASSUME NEW d \in Docs, Request(d)
      PROVE  InOrder(changes'[a], a) /\ InOrder(blocks'[a], a)
  <2>1. blocks' = blocks /\ docState[d] = "ready"
    BY <1>3 DEF Request
  <2>2. CASE docActor[d] = a
    <3> DEFINE i == NextIndex(a)
    <3>1. /\ a \in LocalActors
          /\ DOMAIN changes'[a] = DOMAIN changes[a] \cup {i}
          /\ changes'[a][i] = Written(d)
          /\ \A j \in DOMAIN changes[a] : changes'[a][j] = changes[a][j]
      BY <1>3, <2>2, RequestEntry
    <3>2. Written(d).actor = a /\ Written(d).seq = i
      BY <2>1, <2>2, <3>1, NumberedAsLogged DEF Written
    <3> HIDE DEF i
    <3> QED
      BY <1>1, <2>1, <3>1, <3>2
  <2>3. CASE docActor[d] # a
    <3>1. changes'[a] = changes[a]
      BY <1>3, <2>3, RequestEntry
    <3> QED
      BY <1>1, <2>1, <3>1
  <2> QED
    BY <2>2, <2>3
<1>4. ASSUME NEW x \in Actors, StreamEnd(x)
      PROVE  InOrder(changes'[a], a) /\ InOrder(blocks'[a], a)
  <2>1. blocks' = blocks
    BY <1>4 DEF StreamEnd
  <2>2. CASE x = a
    <3>1. /\ 1..streamEnd[a] \subseteq DOMAIN blocks[a]
          /\ DOMAIN changes'[a] = DOMAIN changes[a] \cup 1..streamEnd[a]
          /\ \A j \in DOMAIN changes[a] : changes'[a][j] = changes[a][j]
          /\ \A j \in 1..streamEnd[a] : changes'[a][j] = blocks[a][j]
      BY <1>4, <2>2, StreamEndLog
    <3> QED
      BY <1>1, <2>1, <3>1
  <2>3. CASE x # a
    <3>1. changes'[a] = changes[a]
      BY <1>4, <2>3, StreamEndLog
    <3> QED
      BY <1>1, <2>1, <3>1
  <2> QED
    BY <2>2, <2>3
<1>5. ASSUME NEW x \in RemoteActors, NEW i \in 1..MaxSeq, Download(x, i)
      PROVE  InOrder(changes'[a], a) /\ InOrder(blocks'[a], a)
  <2>1. CASE x = a
    <3>1. /\ DOMAIN blocks'[a] = DOMAIN blocks[a] \cup {i}
          /\ \A j \in DOMAIN blocks[a] : blocks'[a][j] = blocks[a][j]
          /\ \A j \in DOMAIN changes[a] : changes'[a][j] = changes[a][j]
          /\ \/ DOMAIN changes'[a] = DOMAIN changes[a] \cup {i} /\ changes'[a][i] = blocks'[a][i]
             \/ changes'[a] = changes[a]
      BY <1>5, <2>1, DownloadLog
    <3>2. blocks'[a][i] = RemoteChange(a, i)
      <4>1. blocks' = [blocks EXCEPT ![a] = Put(@, i, RemoteChange(a, i))]
        BY <1>5, <2>1 DEF Download
      <4>2. blocks'[a] = Put(blocks[a], i, RemoteChange(a, i))
        BY <4>1 DEF TypeInv, TypeOK
      <4> QED
        BY <4>2 DEF Put
    <3>3. RemoteChange(a, i).actor = a /\ RemoteChange(a, i).seq = i
      BY DEF RemoteChange
    <3> QED
      BY <1>1, <3>1, <3>2, <3>3
  <2>2. CASE x # a
    <3>1. blocks'[a] = blocks[a] /\ changes'[a] = changes[a]
      BY <1>5, <2>2, DownloadLog
    <3> QED
      BY <1>1, <3>1
  <2> QED
    BY <2>1, <2>2
<1>6. ASSUME NEW x \in LocalActors, Flush(x)
      PROVE  InOrder(changes'[a], a) /\ InOrder(blocks'[a], a)
  <2>1. changes' = changes
    BY <1>6 DEF Flush, actorVars
  <2>2. CASE x = a
    <3> DEFINE i == feedLength[a] + 1
    <3>1. /\ i \in DOMAIN changes[a]
          /\ DOMAIN blocks'[a] = DOMAIN blocks[a] \cup {i}
          /\ blocks'[a][i] = changes[a][i]
          /\ \A j \in DOMAIN blocks[a] : blocks'[a][j] = blocks[a][j]
      BY <1>6, <2>2, FlushLog
    <3> HIDE DEF i
    <3> QED
      BY <1>1, <2>1, <3>1
  <2>3. CASE x # a
    <3>1. blocks'[a] = blocks[a]
      BY <1>6, <2>3, FlushLog
    <3> QED
      BY <1>1, <2>1, <3>1
  <2> QED
    BY <2>2, <2>3
<1>7. CASE Restart
  <2>1. blocks' = blocks /\ DOMAIN changes'[a] = {}
    BY <1>7 DEF Restart, EmptyLog
  <2> QED
    BY <1>1, <2>1
<1>8. \/ UNCHANGED <<changes, blocks>>
      \/ \E d \in Docs : Request(d)
      \/ \E x \in Actors : StreamEnd(x)
      \/ \E x \in RemoteActors, i \in 1..MaxSeq : Download(x, i)
      \/ \E x \in LocalActors : Flush(x)
      \/ Restart
  BY DEF Next, vars, storeVars, actorVars, Create, Open, LoadInit, NeedsActorId, LoadReuse,
         LoadFresh, Merge, FeedReady, RemoteAppend, SyncEvent, CursorMessage
<1> QED
  BY <1>2, <1>3, <1>4, <1>5, <1>6, <1>7, <1>8

-----------------------------------------------------------------------------
(* The invariants *)

LEMMA DocInvInit == Init => OwnerInv /\ DocInv
<1> SUFFICES ASSUME Init
             PROVE  OwnerInv /\ DocInv
  OBVIOUS
<1>1. LocalActors \subseteq Actors
  BY DEF Actors
<1>2. \A d \in Docs : /\ docState[d] = "none" /\ docActor[d] = NoActor /\ back[d] = {}
                      /\ DOMAIN cursors[d] = {} /\ brought[d] = {}
  BY DEF Init, EmptyClock
<1>3. \A a \in Actors : DOMAIN changes[a] = {} /\ DOMAIN blocks[a] = {}
  BY DEF Init, EmptyLog
<1>4. \A a \in LocalActors : Held(a) = {} /\ \A d \in Docs : ~Belongs(a, d)
  BY <1>1, <1>2, <1>3 DEF Held, Belongs
<1>5. OwnerInv
  BY <1>1, <1>2, <1>3, <1>4
     DEF OwnerInv, OneOwner, RootsInCursor, BroughtInCursor, WritersKnown, WritersOwn, HeldKnown,
         NotLoaded, Contiguous
<1>6. DocInv
  BY <1>2, <1>3, <1>4 DEF DocInv, OneDocument, HasOwner, Complete, Shown, FeedOrder
<1> QED
  BY <1>5, <1>6

LEMMA OwnerInvNext ==
  ASSUME IInv, IInv', WakeInv, OwnerInv, [Next]_vars
  PROVE  OwnerInv'
<1>1. /\ OneOwner /\ RootsInCursor /\ BroughtInCursor /\ WritersKnown /\ WritersOwn /\ HeldKnown
      /\ NotLoaded /\ Contiguous /\ RootsKnown /\ TypeInv /\ TypeInv' /\ StoreInv
  BY DEF OwnerInv, WakeInv, IInv
<1>2. OneOwner'
  BY <1>1, OwnersNext, OneOwnerNext
<1>3. RootsInCursor' /\ BroughtInCursor' /\ NotLoaded' /\ Contiguous'
  BY <1>1, RootsInCursorNext, BroughtInCursorNext, NotLoadedNext, ContiguousNext
<1>4. WritersKnown' /\ WritersOwn' /\ HeldKnown'
  BY <1>1, WritersNext, HeldKnownNext
<1> QED
  BY <1>2, <1>3, <1>4 DEF OwnerInv

LEMMA DocInvNext ==
  ASSUME IInv, IInv', WakeInv, OwnerInv, OwnerInv', borrowed = {}, DocInv, [Next]_vars
  PROVE  DocInv'
<1>1. /\ OneOwner /\ OneOwner' /\ OwnOnly /\ NotLoaded /\ Contiguous
      /\ OneDocument /\ HasOwner /\ Complete /\ Shown /\ FeedOrder
      /\ RootsInCursor /\ RootsKnown /\ TypeInv /\ TypeInv' /\ StoreInv
  BY DEF DocInv, OwnerInv, OwnOnly, WakeInv, IInv
<1>2. OwnersKept
  BY <1>1, OwnersNext
<1>3. OneDocument' /\ HasOwner'
  BY <1>1, <1>2, OneDocumentNext, HasOwnerNext
<1>4. Complete'
  BY <1>1, <1>2, CompleteNext
<1>5. Shown' /\ FeedOrder'
  BY <1>1, ShownNext, FeedOrderNext
<1> QED
  BY <1>3, <1>4, <1>5 DEF DocInv

\* A document that has borrowed an actor counts as one for good.
LEMMA BorrowedGrows ==
  ASSUME [Next]_vars
  PROVE  borrowed \subseteq borrowed'
BY DEF Next, vars, histVars, Create, Open, Request, LoadInit, NeedsActorId, LoadReuse, LoadFresh,
       Merge, CursorMessage, FeedReady, StreamEnd, RemoteAppend, SyncEvent, Download, Flush, Restart

\* The inductive invariant: what holds whatever is merged, and what holds as
\* long as no document was given an actor of another one to write with.
THEOREM DocInvariant == Spec => [](IInv /\ WakeInv /\ OwnerInv /\ (borrowed = {} => DocInv))
<1>1. Init => OwnerInv /\ (borrowed = {} => DocInv)
  BY DocInvInit
<1>2. IInv /\ IInv' /\ WakeInv /\ OwnerInv /\ (borrowed = {} => DocInv) /\ [Next]_vars
      => OwnerInv' /\ (borrowed = {} => DocInv)'
  <2> SUFFICES ASSUME IInv, IInv', WakeInv, OwnerInv, borrowed = {} => DocInv, [Next]_vars
               PROVE  OwnerInv' /\ (borrowed' = {} => DocInv')
    OBVIOUS
  <2>1. OwnerInv'
    BY OwnerInvNext
  <2>2. borrowed' = {} => borrowed = {}
    BY BorrowedGrows
  <2> QED
    BY <2>1, <2>2, DocInvNext
<1> QED
  BY <1>1, <1>2, WakeInvariant, PTL DEF Spec

\* A feed of ours holds changes of two documents only if a merge, here or at
\* a peer, put its actor into the cursor of one of them (localActorId,
\* initActorFeed, RepoBackend.merge): whatever is merged, and when.
THEOREM ForksComeFromMerges == Spec => []ForksAreMerged
<1>1. ASSUME OwnerInv
      PROVE  ForksAreMerged
  <2> SUFFICES ASSUME NEW a \in LocalActors, NEW i \in DOMAIN blocks[a], NEW j \in DOMAIN blocks[a],
                      blocks[a][i].doc # blocks[a][j].doc
               PROVE  a \in brought[blocks[a][i].doc] \cup brought[blocks[a][j].doc]
    BY DEF ForksAreMerged
  <2>1. blocks[a][i] \in Held(a) /\ blocks[a][j] \in Held(a)
    BY DEF Held
  <2>2. /\ blocks[a][i].doc \in Docs /\ a \in DOMAIN cursors[blocks[a][i].doc]
        /\ blocks[a][j].doc \in Docs /\ a \in DOMAIN cursors[blocks[a][j].doc]
    BY <1>1, <2>1 DEF OwnerInv, HeldKnown
  <2> QED
    BY <1>1, <2>2 DEF OwnerInv, OneOwner, Belongs
<1> QED
  BY <1>1, DocInvariant, PTL

\* The n-th block of a feed is the n-th change of its author, in memory and
\* on disk (Actor.writeChange), until a document is given an actor of another
\* one to write with.
THEOREM FeedsInOrder == Spec => [](borrowed = {} => FeedOrder)
<1>1. (borrowed = {} => DocInv) => (borrowed = {} => FeedOrder)
  BY DEF DocInv
<1> QED
  BY <1>1, DocInvariant, PTL

\* Until then a feed of ours holds changes of one document.
THEOREM FeedsHoldOneDoc == Spec => [](borrowed = {} => OneDocPerFeed)
<1>1. ASSUME DocInv
      PROVE  OneDocPerFeed
  <2> SUFFICES ASSUME NEW a \in LocalActors, NEW i \in DOMAIN blocks[a], NEW j \in DOMAIN blocks[a]
               PROVE  blocks[a][i].doc = blocks[a][j].doc
    BY DEF OneDocPerFeed
  <2>1. blocks[a][i] \in Held(a) /\ blocks[a][j] \in Held(a)
    BY DEF Held
  <2> QED
    BY <1>1, <2>1 DEF DocInv, OneDocument
<1> QED
  BY <1>1, DocInvariant, PTL

\* Until then a ready document shows the part of the feeds that its cursor
\* selects and that it counts, and nothing else (DocBackend.init, syncChanges).
THEOREM DocsShowTheirFeeds == Spec => [](borrowed = {} => BackIsCursorOfLogs)
<1>1. ASSUME DocInv
      PROVE  BackIsCursorOfLogs
  BY <1>1 DEF DocInv, Shown, ShownAs, BackIsCursorOfLogs
<1> QED
  BY <1>1, DocInvariant, PTL

\* Until then a local change that reached the disk is shown whenever its
\* document is ready, in this session or a later one (loadDocument, syncChanges).
THEOREM DurableIsShown == Spec => [](borrowed = {} => DurableChangesShown)
<1>1. ASSUME IInv, OwnerInv, DocInv
      PROVE  DurableChangesShown
  <2> USE <1>1 DEF IInv
  <2> SUFFICES ASSUME NEW d \in Docs, NEW a \in LocalActors, docState[d] = "ready",
                      NEW i \in DOMAIN blocks[a], blocks[a][i].doc = d
               PROVE  blocks[a][i] \in back[d]
    BY DEF DurableChangesShown
  <2>1. a \in Actors /\ changes[a] \in Logs /\ blocks[a][i] \in Held(a)
    BY DEF Actors, TypeInv, TypeOK, Held
  <2>2. PICK e \in Docs : Belongs(a, e)
    BY <2>1 DEF DocInv, HasOwner
  <2>3. Belongs(a, d)
    <3>1. e = d
      BY <2>1, <2>2 DEF DocInv, OneDocument
    <3> QED
      BY <2>2, <3>1
  <2>4. i \in DOMAIN changes[a] /\ docChanges[d][a] = Length(changes[a])
    BY <2>3 DEF DocInv, Complete, HasAll
  <2>5. i \in 1..docChanges[d][a]
    BY <2>1, <2>4, LengthLemma
  <2>6. changes[a][i] \in back[d]
    BY <2>1, <2>5 DEF Counted
  <2>7. changes[a][i] = blocks[a][i]
    BY <2>1, <2>4 DEF StoreInv, MemoryIsDisk
  <2> QED
    BY <2>6, <2>7
<1> QED
  BY <1>1, DocInvariant, PTL

=============================================================================
