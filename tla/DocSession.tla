----------------------------- MODULE DocSession -----------------------------
(***************************************************************************)
(* One document seen from both ends: its DocFrontend in a RepoFrontend, its*)
(* DocBackend in a RepoBackend, and the two queues of messages between     *)
(* them, which README.md suggests to put between two threads.              *)
(*                                                                         *)
(* A frontend is "pending" until it has content to show, then it may be    *)
(* read, and written once it knows the actor id of this repository.  What  *)
(* the user changes before that waits in changeQ.  The functions she       *)
(* passes are opaque, so changeQ is the number of them.                    *)
(*                                                                         *)
(* A handler runs to its end in one step.  What the user does in the       *)
(* callback of a watched document is part of the step that calls it.       *)
(***************************************************************************)
EXTENDS Naturals, SequencesExt

CONSTANTS
  Root,        \* the actor of a document that is created
  Old,         \* the actor an earlier session wrote the document with
  Fresh,       \* the actor loadDocument makes when there is none
  Spare,       \* the actors NeedsActorIdMsg makes
  Remote,      \* the other authors of the document
  NoActor,     \* actorId undefined
  MaxChanges,  \* bound: changes the user makes
  MaxRemote,   \* bound: changes of the other authors, with those in Stores
  MaxDestroys  \* bound: calls of destroy

Locals == {Root, Old, Fresh, Spare}

ASSUME SessionConstants ==
  /\ NoActor \notin Locals /\ Remote \notin Locals \cup {NoActor}
  /\ MaxChanges \in Nat /\ MaxRemote \in Nat \ {0} /\ MaxDestroys \in Nat

VARIABLES
  (* The frontend *)
  front,       \* the DocFrontend of the document
  asked,       \* how many changes the user has asked for
  destroys,    \* how often she destroyed the document
  (* The queues *)
  toBackend,
  toFrontend,
  (* The backend *)
  stored,      \* the changes loadDocument finds
  docState,    \* how far the DocBackend is loaded
  docActor,    \* DocBackend.actorId
  applied,     \* the changes Automerge has applied
  held,        \* the changes Automerge holds until their predecessors come
  feed,        \* what Actor.writeChange has written in this session
  hasClock,    \* whether ClockStore has a row for the document
  spares,      \* how many feeds NeedsActorIdMsg has made
  (* History *)
  upsets       \* which of the orders that disturb a session have happened

frontVars   == <<front, asked, destroys>>
backendVars == <<stored, docState, docActor, applied, held, feed, hasClock, spares>>
vars        == <<frontVars, toBackend, toFrontend, backendVars, upsets>>

-----------------------------------------------------------------------------
(* Values *)

Change == [actor : Locals \cup {Remote}, seq : 1..(MaxChanges + MaxRemote)]
NoChange == [actor |-> NoActor, seq |-> 0]

\* Changes from+1 to "to" of actor a.  Mutant: numbers count from zero.
BugChangesOf(a, from, to) == [i \in 1..(to - from) |-> [actor |-> a, seq |-> from + i - 1]]

ChangesOf(a, from, to) == [i \in 1..(to - from) |-> [actor |-> a, seq |-> from + i]]

\* The entry of actor a in the clock of a set of changes.
Latest(S, a) ==
  CHOOSE n \in 0..(MaxChanges + MaxRemote) :
    /\ \A c \in S : c.actor = a => c.seq <= n
    /\ n = 0 \/ [actor |-> a, seq |-> n] \in S

\* A patch: what it adds, the local request it answers, and the clock entry
\* of the document's own actor.
PatchOf(add, ack, now, a) == [add |-> add, ack |-> ack, seq |-> Latest(now, a)]
NoPatch == [add |-> {}, ack |-> NoChange, seq |-> 0]
Patches == [add : SUBSET Change, ack : Change \cup {NoChange}, seq : 0..(MaxChanges + MaxRemote)]

ReadyMsg(good, a, some, p) ==
  [type |-> "ReadyMsg", good |-> good, actor |-> a, some |-> some, patch |-> p]
PatchMsg(good, p) ==
  [type |-> "PatchMsg", good |-> good, actor |-> NoActor, some |-> TRUE, patch |-> p]
ActorIdMsg(a) ==
  [type |-> "ActorIdMsg", good |-> FALSE, actor |-> a, some |-> FALSE, patch |-> NoPatch]
FrontMsgs ==
  [type : {"ReadyMsg", "PatchMsg", "ActorIdMsg"}, good : BOOLEAN,
   actor : Locals \cup {NoActor}, some : BOOLEAN, patch : Patches]

BackMsg(type, c) == [type |-> type, change |-> c]
BackMsgs ==
  [type : {"CreateMsg", "OpenMsg", "NeedsActorIdMsg", "RequestMsg"}, change : Change \cup {NoChange}]

-----------------------------------------------------------------------------
(* DocFrontend *)

Nothing == [seen |-> FALSE, state |-> {}]

Fronts ==
  [mode : {"none", "pending", "read", "write"}, ready : BOOLEAN, actor : Locals \cup {NoActor},
   changeQ : 0..MaxChanges, seq : 0..(MaxChanges + MaxRemote), requests : Seq(Change),
   shown : SUBSET Change, watched : BOOLEAN, told : [seen : BOOLEAN, state : SUBSET Change]]

NewFrontend(mode, a) ==
  [mode |-> mode, ready |-> mode = "write", actor |-> a, changeQ |-> 0, seq |-> 0,
   requests |-> <<>>, shown |-> {}, watched |-> FALSE, told |-> Nothing]

\* The content of the document: what the backend confirmed, and on top of it
\* the requests that it has not answered.
View(f) == f.shown \cup ToSet(f.requests)

\* newState.  Mutant: a handle is given only the first state.
BugNewState(f) ==
  IF f.ready /\ f.watched /\ ~f.told.seen
  THEN [f EXCEPT !.told = [seen |-> TRUE, state |-> View(f)]] ELSE f

NewState(f) ==
  IF f.ready /\ f.watched THEN [f EXCEPT !.told = [seen |-> TRUE, state |-> View(f)]] ELSE f

\* The subscriber of changeQ runs n functions: Frontend.change numbers them.
Written(f, n) ==
  NewState([f EXCEPT !.seq = @ + n, !.requests = @ \o ChangesOf(f.actor, f.seq, f.seq + n)])

\* enableWrites.  Mutant: the functions that wait are forgotten.
BugEnableWrites(f) == [f EXCEPT !.mode = "write", !.changeQ = 0]

EnableWrites(f) == Written([f EXCEPT !.mode = "write", !.changeQ = 0], f.changeQ)

\* The requests that a handler made when it turned f into g, in order: what
\* waited in changeQ, if the document could not be written before.
Pushed(f, g) == IF f.mode = "write" THEN <<>> ELSE g.requests

\* setActorId
SetActorId(f, a) ==
  LET g == [f EXCEPT !.actor = a] IN IF f.mode = "read" THEN EnableWrites(g) ELSE g

\* Automerge's applyPatch throws if a patch answers another request than the
\* first one.
Mismatch(f, p) ==
  p.ack # NoChange /\ p.ack.actor = f.actor /\ f.requests # <<>> /\ Head(f.requests) # p.ack

\* Frontend.applyPatch: content, the request answered, and the next number,
\* which is taken from the patch's clock if the actor is known by then.
AppliedPatch(f, p) ==
  [f EXCEPT !.shown = @ \cup p.add,
            !.requests = IF f.requests # <<>> /\ Head(f.requests) = p.ack THEN Tail(@) ELSE @,
            !.seq = IF f.actor # NoActor /\ p.seq > @ THEN p.seq ELSE @]

\* patch: the first content that satisfies the minimum clock ends "pending".
\* Mutant: it only ever becomes readable.
BugPatched(f, p, good) ==
  LET g == AppliedPatch(f, p)
      h == IF g.mode # "pending" THEN g ELSE [g EXCEPT !.mode = "read", !.ready = TRUE]
  IN IF p.add # {} /\ good THEN NewState(h) ELSE g

Patched(f, p, good) ==
  LET g == AppliedPatch(f, p)
      h == CASE g.mode # "pending" -> g
             [] g.mode = "pending" /\ g.actor # NoActor -> [EnableWrites(g) EXCEPT !.ready = TRUE]
             [] OTHER -> [g EXCEPT !.mode = "read", !.ready = TRUE]
  IN IF p.add # {} /\ good THEN NewState(h) ELSE g

\* init.  Mutant: the patch before the actor id.
BugInitialized(f, msg) ==
  IF f.mode # "pending" THEN f
  ELSE LET g == IF msg.some THEN Patched(f, msg.patch, msg.good) ELSE f
       IN IF msg.actor # NoActor THEN SetActorId(g, msg.actor) ELSE g

Initialized(f, msg) ==
  IF f.mode # "pending" THEN f
  ELSE LET g == IF msg.actor # NoActor THEN SetActorId(f, msg.actor) ELSE f
       IN IF msg.some THEN Patched(g, msg.patch, msg.good) ELSE g

-----------------------------------------------------------------------------
\* What the disk may hold of the document: changes of an earlier session of
\* this repository and of other authors.
Stores == {ToSet(ChangesOf(Old, 0, n)) \cup ToSet(ChangesOf(Remote, 0, m)) : n, m \in {0, 1}}

Init ==
  /\ front = NewFrontend("none", NoActor)
  /\ asked = 0
  /\ destroys = 0
  /\ toBackend = <<>>
  /\ toFrontend = <<>>
  /\ stored \in Stores
  /\ docState = "none"
  /\ docActor = NoActor
  /\ applied = {}
  /\ held = {}
  /\ feed = <<>>
  /\ hasClock \in BOOLEAN
  /\ spares = 0
  /\ upsets = {}

-----------------------------------------------------------------------------
(* The user: RepoFrontend and Handle *)

Send(msgs) == toBackend' = toBackend \o msgs
Request(c) == BackMsg("RequestMsg", c)
Requests(cs) == [i \in DOMAIN cs |-> Request(cs[i])]

\* create: a document with a new key pair, which may be written at once.
Create ==
  /\ front.mode = "none" /\ destroys = 0
  /\ stored = {} /\ ~hasClock
  /\ front' = NewFrontend("write", Root)
  /\ Send(<<BackMsg("CreateMsg", NoChange)>>)
  /\ UNCHANGED <<asked, destroys, toFrontend, backendVars, upsets>>

\* open
Open ==
  /\ front.mode = "none"
  /\ front' = NewFrontend("pending", NoActor)
  /\ Send(<<BackMsg("OpenMsg", NoChange)>>)
  /\ upsets' = IF destroys > 0 THEN upsets \cup {"reopened"} ELSE upsets
  /\ UNCHANGED <<asked, destroys, toFrontend, backendVars>>

\* watch, doc: a handle is pushed the state there is.
Watch ==
  /\ front.mode # "none" /\ ~front.watched
  /\ front' = NewState([front EXCEPT !.watched = TRUE])
  /\ UNCHANGED <<asked, destroys, toBackend, toFrontend, backendVars, upsets>>

\* change, while the document may not be written.
QueueChange ==
  /\ front.mode \in {"pending", "read"}
  /\ asked < MaxChanges
  /\ asked' = asked + 1
  /\ front' = [front EXCEPT !.changeQ = @ + 1]
  /\ Send(IF front.actor = NoActor THEN <<BackMsg("NeedsActorIdMsg", NoChange)>> ELSE <<>>)
  /\ UNCHANGED <<destroys, toFrontend, backendVars, upsets>>

\* change, when it may: changeQ calls its subscriber.  newState comes before
\* the push of the request, so that a change made in the callback of a
\* watched document is sent first.
WriteChange(n) ==
  /\ front.mode = "write"
  /\ asked + n <= MaxChanges
  /\ n = 1 \/ front.watched
  /\ asked' = asked + n
  /\ front' = Written(front, n)
  /\ Send(Requests(Reverse(ChangesOf(front.actor, front.seq, front.seq + n))))
  /\ upsets' = IF n > 1 THEN upsets \cup {"nested"} ELSE upsets
  /\ UNCHANGED <<destroys, toFrontend, backendVars>>

\* destroy forgets the DocFrontend.  For the backend it is a no-op.
Destroy ==
  /\ front.mode # "none" /\ destroys < MaxDestroys
  /\ destroys' = destroys + 1
  /\ front' = NewFrontend("none", NoActor)
  /\ UNCHANGED <<asked, toBackend, toFrontend, backendVars, upsets>>

-----------------------------------------------------------------------------
(* RepoBackend.receive *)

Heading(q, type) == q # <<>> /\ Head(q).type = type
Notify(msgs) == toFrontend' = toFrontend \o msgs

\* getGoodClock: a document with a clock row is good; another one is good if
\* it satisfies the clock of a peer.
Good(has) == IF has THEN {TRUE} ELSE BOOLEAN

\* CreateMsg.  The ReadyMsg has no patch, and is announced before the clock
\* row is written.
ReceiveCreate ==
  /\ Heading(toBackend, "CreateMsg")
  /\ toBackend' = Tail(toBackend)
  /\ docState' = "ready"
  /\ docActor' = Root
  /\ hasClock' = TRUE
  /\ Notify(<<ReadyMsg(FALSE, Root, FALSE, NoPatch)>>)
  /\ UNCHANGED <<frontVars, stored, applied, held, feed, spares, upsets>>

\* OpenMsg.  A document that is there already announces nothing.
ReceiveOpen ==
  /\ Heading(toBackend, "OpenMsg")
  /\ toBackend' = Tail(toBackend)
  /\ docState' = IF docState = "none" THEN "loading" ELSE docState
  /\ UNCHANGED <<frontVars, toFrontend, stored, docActor, applied, held, feed, hasClock,
                 spares, upsets>>

\* NeedsActorIdMsg: a new feed each time.  initActor keeps the id there is
\* and answers only when the document is loaded.
\* Mutant: the new id wins.
BugKeptActor(a) == a

KeptActor(a) == IF docActor # NoActor THEN docActor ELSE a

ReceiveNeedsActorId ==
  /\ Heading(toBackend, "NeedsActorIdMsg")
  /\ toBackend' = Tail(toBackend)
  /\ spares' = spares + 1
  /\ IF docState = "ready"
     THEN docActor' = KeptActor(Spare) /\ Notify(<<ActorIdMsg(docActor')>>)
     ELSE UNCHANGED <<docActor, toFrontend>>
  /\ UNCHANGED <<frontVars, stored, docState, applied, held, feed, hasClock, upsets>>

\* Automerge applies what has all its predecessors.
Ripe(S, had) == {c \in S : \A k \in 1..c.seq : [actor |-> c.actor, seq |-> k] \in had \cup S}

\* RequestMsg.  Automerge throws on a change it knows; any other is written
\* to the feed, whether or not it can be applied yet.  The patch that
\* syncChanges makes of the same change adds nothing and is left out.
\* Mutant: a change that is known is written again.
BugIsFeedable(c) == TRUE

IsFeedable(c) == c.seq > Latest(applied, c.actor)

ReceiveRequest ==
  LET c    == Head(toBackend).change
      ripe == Ripe(held \cup {c}, applied)
  IN /\ Heading(toBackend, "RequestMsg")
     /\ docState = "ready"
     /\ toBackend' = Tail(toBackend)
     /\ IF IsFeedable(c)
        THEN /\ applied' = applied \cup ripe
             /\ held' = (held \cup {c}) \ ripe
             /\ feed' = Append(feed, c)
             /\ \E good \in Good(hasClock) :
                  /\ hasClock' = good
                  /\ Notify(<<PatchMsg(good, PatchOf(ripe, c, applied', docActor))>>)
        ELSE UNCHANGED <<applied, held, feed, hasClock, toFrontend>>
     /\ UNCHANGED <<frontVars, stored, docState, docActor, spares, upsets>>

\* The next n changes of the other authors.
Arriving(S, n) == LET k == Latest(S, Remote) IN ToSet(ChangesOf(Remote, k, k + n))

\* localActorId: an actor of the cursor that may be written, in the order of the
\* rows, or a new one.  The cursor also has the feeds that NeedsActorIdMsg made
\* meanwhile, which may be written once they are open.
LocalActorIds ==
  {IF Latest(stored, Old) > 0 THEN Old ELSE Fresh} \cup (IF spares > 0 THEN {Spare} ELSE {})

\* loadDocument and DocBackend.init.  "n" changes came while it awaited its
\* actors, too late for the slices: their closures run first, and their patch
\* goes out before the ReadyMsg, whose patch does not contain them.
Load(n) ==
  LET late == Arriving(stored, n)
  IN /\ docState = "loading"
     /\ Latest(stored, Remote) + n <= MaxRemote
     /\ docState' = "ready"
     /\ docActor' \in LocalActorIds
     /\ applied' = stored \cup late
     /\ \E first \in Good(hasClock) : \E good \in Good(hasClock \/ (n > 0 /\ first)) :
          /\ hasClock' = (hasClock \/ (n > 0 /\ first))
          /\ Notify((IF n > 0 THEN <<PatchMsg(first, PatchOf(late, NoChange, applied', docActor'))>> ELSE <<>>)
                    \o <<ReadyMsg(good, docActor', TRUE, PatchOf(stored, NoChange, stored, docActor'))>>)
     /\ upsets' = IF n > 0 THEN upsets \cup {"early"} ELSE upsets
     /\ UNCHANGED <<frontVars, toBackend, stored, held, feed, spares>>

\* syncChanges on a document that is ready.
RemoteChange ==
  LET late == Arriving(applied, 1)
  IN /\ docState = "ready"
     /\ Latest(applied, Remote) < MaxRemote
     /\ applied' = applied \cup late
     /\ \E good \in Good(hasClock) :
          /\ hasClock' = good
          /\ Notify(<<PatchMsg(good, PatchOf(late, NoChange, applied', docActor))>>)
     /\ UNCHANGED <<frontVars, toBackend, stored, docState, docActor, held, feed, spares, upsets>>

-----------------------------------------------------------------------------
(* RepoFrontend.receive.  A message for a document that is not open is     *)
(* dropped, and so is a patch on which Automerge throws.                   *)

Receive(type, f) ==
  /\ Heading(toFrontend, type)
  /\ toFrontend' = Tail(toFrontend)
  /\ front' = IF front.mode = "none" THEN front ELSE f
  /\ Send(Requests(Pushed(front, front')))
  /\ UNCHANGED <<asked, destroys, backendVars, upsets>>

ReceiveReady == Receive("ReadyMsg", Initialized(front, Head(toFrontend)))

ReceivePatch ==
  LET msg == Head(toFrontend)
  IN Receive("PatchMsg", IF Mismatch(front, msg.patch) THEN front
                         ELSE Patched(front, msg.patch, msg.good))

ReceiveActorId == Receive("ActorIdMsg", SetActorId(front, Head(toFrontend).actor))

-----------------------------------------------------------------------------
Deliver ==
  \/ ReceiveCreate \/ ReceiveOpen \/ ReceiveNeedsActorId \/ ReceiveRequest
  \/ ReceiveReady \/ ReceivePatch \/ ReceiveActorId

Next ==
  \/ Create \/ Open \/ Watch \/ QueueChange \/ Destroy
  \/ \E n \in 1..2 : WriteChange(n)
  \/ \E n \in 0..1 : Load(n)
  \/ RemoteChange
  \/ Deliver

Spec == Init /\ [][Next]_vars

\* Messages are delivered and loadDocument comes to its end.
FairSpec == Spec /\ WF_vars(Deliver) /\ WF_vars(\E n \in 0..1 : Load(n))

-----------------------------------------------------------------------------
(* Properties *)

\* The type invariant.
TypeOK ==
  /\ front \in Fronts
  /\ asked \in 0..MaxChanges
  /\ destroys \in 0..MaxDestroys
  /\ toBackend \in Seq(BackMsgs)
  /\ toFrontend \in Seq(FrontMsgs)
  /\ stored \in Stores
  /\ docState \in {"none", "loading", "ready"}
  /\ docActor \in Locals \cup {NoActor}
  /\ applied \in SUBSET Change
  /\ held \in SUBSET Change
  /\ feed \in Seq(Change)
  /\ hasClock \in BOOLEAN
  /\ spares \in 0..MaxChanges
  /\ upsets \subseteq {"early", "nested", "reopened"}

\* Nothing is on its way.
Quiet == docState = "ready" /\ toBackend = <<>> /\ toFrontend = <<>>

\* Where the requests in toBackend are.
InFlight == {i \in DOMAIN toBackend : toBackend[i].type = "RequestMsg"}

\* Every change the user made waits in changeQ, is on its way, or is in the
\* feed, exactly once, whatever mode the document was in when she made it.
\* (changeQ, enableWrites, localChangeQ)
ChangesConserved ==
  (destroys = 0 /\ "early" \notin upsets) =>
    asked = front.changeQ + Cardinality(InFlight) + Len(feed)

\* The feed holds the user's changes in the order of their numbers and
\* without a gap, after those of earlier sessions, unless she made a change
\* in the callback of another.  (writeChange takes the n-th block for the
\* n-th change)
FeedInOrder ==
  "nested" \notin upsets =>
    \A i \in DOMAIN feed : feed[i] = [actor |-> docActor, seq |-> Latest(stored, docActor) + i]

\* The backend writes a request to the feed of its own actor, whoever
\* numbered it: the two ends must agree on the actor, and a request must
\* find its document loaded.  (documentNotify, LocalPatchMsg)
RequestsAreTheActors ==
  docState = "ready" => \A i \in InFlight : toBackend[i].change.actor = docActor

\* When nothing is on its way, a document that may be read shows what the
\* backend has.
ShowsDocument ==
  (Quiet /\ front.mode \in {"read", "write"}) => front.shown = applied /\ front.requests = <<>>

\* ... which holds while no patch overtakes the ReadyMsg, no change is made
\* in a callback, and no document is opened a second time.
UndisturbedShowsDocument == upsets = {} => ShowsDocument

\* What the callback of a watched document was given last is what the
\* document shows, once its minimum clock is satisfied.  (newState, handle)
WatcherUpToDate ==
  (Quiet /\ upsets = {} /\ hasClock /\ front.watched /\ front.ready) =>
    front.told = [seen |-> TRUE, state |-> applied]

\* A change that waits is made once the document has content that may be
\* shown.  (NeedsActorIdMsg, ReadyMsg, setActorId)
Waiting == front.changeQ > 0 /\ docState = "ready" /\ applied # {} /\ hasClock /\ upsets = {}
QueuedChangesRun == Waiting ~> ~Waiting

\* The comments of init ask that the actor id be set before a patch is
\* applied, and call the patch of the ReadyMsg the first one.  Then a
\* document that was opened once and written in order shows what the backend
\* has.
FirstPatchIsReady == upsets \subseteq {"early"} => ShowsDocument

=============================================================================
