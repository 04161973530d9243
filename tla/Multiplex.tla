------------------------------ MODULE Multiplex ------------------------------
(***************************************************************************)
(* Multiplex.ts: many named channels over one connection, at both ends.    *)
(*                                                                         *)
(* A channel exists at an end once either side has opened its name.  An    *)
(* end numbers its channels and tells the other which name a number stands *)
(* for; every later frame carries the number.  The connection keeps the    *)
(* order of the frames.                                                    *)
(*                                                                         *)
(* destroy() only marks a stream: streamx calls _destroy in a later tick,  *)
(* when all the frames that came in one piece have been handled.  So it is *)
(* a step of its own here (Teardown).  Data that was written but not yet   *)
(* sent when a stream is destroyed is never sent; Write stands for data    *)
(* that is sent.                                                           *)
(***************************************************************************)
EXTENDS Naturals, SequencesExt

CONSTANTS
  Names,        \* the names of channels
  MaxChannels,  \* bound: channels of one end that leave a trace
  MaxOpens,     \* bound: calls of openChannel
  MaxWrites     \* bound: chunks written to one channel

ASSUME MultiplexConstants ==
  Names # {} /\ MaxChannels \in Nat /\ MaxOpens \in Nat /\ MaxWrites \in Nat

Ends == {"A", "B"}
Other(e) == CHOOSE f \in Ends : f # e
Ids == 1..MaxChannels
None == 0

VARIABLES
  channels,  \* the channel an end has under a name, or None
  opened,    \* the names that were opened at an end
  remote,    \* remoteChannels: the channel a number of the other end stands for
  chan,      \* the channels of an end, by their own number
  opens,     \* how often openChannel was called
  wire,      \* the frames on their way to an end
  down,      \* the ends whose connection is gone
  upsets     \* history: which of Upsets have happened

vars == <<channels, opened, remote, chan, opens, wire, down, upsets>>

-----------------------------------------------------------------------------
\* state: none, open, or dying (destroyed, and _destroy is due)
\* mine: returned by openChannel;  ended: End was sent;  finished: End came
\* wrote, got: how many chunks were written and read;  from: whose they are
Channel == [state : {"none", "open", "dying"}, name : Names, mine : BOOLEAN,
            ended : BOOLEAN, finished : BOOLEAN,
            wrote : 0..MaxWrites, got : 0..MaxWrites, from : Ids \cup {None}]

\* "k" is the place of a chunk, and for End the number of chunks before it.
Frame(type, id, name, k) == [type |-> type, id |-> id, name |-> name, k |-> k]
Frames == [type : {"Start", "Data", "End", "Destroy"}, id : Ids, name : Names, k : 0..MaxWrites]

\* crossed: a name was announced while its old channel was dying
\* early: a channel was destroyed before the other end had announced its own
Upsets == {"crossed", "early"}

Unused == [state |-> "none", name |-> CHOOSE n \in Names : TRUE, mine |-> FALSE,
           ended |-> FALSE, finished |-> FALSE, wrote |-> 0, got |-> 0, from |-> None]

Init ==
  /\ channels = [e \in Ends |-> [n \in Names |-> None]]
  /\ opened = [e \in Ends |-> {}]
  /\ remote = [e \in Ends |-> [i \in Ids |-> None]]
  /\ chan = [e \in Ends |-> [i \in Ids |-> Unused]]
  /\ opens = 0
  /\ wire = [e \in Ends |-> <<>>]
  /\ down = {}
  /\ upsets = {}

\* What is written towards an end that is gone is lost.
Sent(w, e, frames) == IF e \in down THEN w ELSE [w EXCEPT ![e] = @ \o frames]

-----------------------------------------------------------------------------
\* getNextId: a number that was never used.  So that the numbers stay few,
\* it may be one of which no trace is left.
IsTraceless(e, i) ==
  /\ chan[e][i].state = "none"
  /\ \A j \in Ids : remote[e][j] # i
  /\ remote[Other(e)][i] = None
  /\ \A f \in ToSet(wire[Other(e)]) : f.id # i

IsNextId(e, i) == IsTraceless(e, i) /\ \A j \in 1..(i - 1) : ~IsTraceless(e, j)

\* The channel getOrCreateChannel returns: the one there is, or a new one.
\* Mutant: only a channel that was opened here is found.
BugChannelFor(e, n, i) ==
  IF n \in opened[e] /\ channels[e][n] # None THEN i = channels[e][n] ELSE IsNextId(e, i)

ChannelFor(e, n, i) ==
  IF channels[e][n] # None THEN i = channels[e][n] ELSE IsNextId(e, i)

\* getOrCreateChannel, and the constructor of Channel, which sends Start.
\* "mine" says whether openChannel asked.
GetOrCreate(e, n, i, mine) ==
  LET old == chan[e][i]
  IN /\ ChannelFor(e, n, i)
     /\ channels' = [channels EXCEPT ![e][n] = i]
     /\ chan' = [chan EXCEPT ![e][i] =
          IF channels[e][n] = i THEN [old EXCEPT !.mine = @ \/ mine]
          ELSE [Unused EXCEPT !.state = "open", !.name = n, !.mine = mine]]

\* Mutant: the number of the channel before.
BugStarted(e, n, i) == IF channels[e][n] = i THEN <<>> ELSE <<Frame("Start", i - 1, n, 0)>>

Started(e, n, i) == IF channels[e][n] = i THEN <<>> ELSE <<Frame("Start", i, n, 0)>>

-----------------------------------------------------------------------------
(* The user of an end *)

\* openChannel
Open(e, n, i) ==
  /\ e \notin down
  /\ n \notin opened[e]
  /\ opens < MaxOpens
  /\ opens' = opens + 1
  /\ opened' = [opened EXCEPT ![e] = @ \cup {n}]
  /\ GetOrCreate(e, n, i, TRUE)
  /\ wire' = Sent(wire, Other(e), Started(e, n, i))
  /\ UNCHANGED <<remote, down, upsets>>

Usable(e, i) == e \notin down /\ chan[e][i].state = "open" /\ chan[e][i].mine

\* Channel._write
Write(e, i) ==
  LET c == chan[e][i]
  IN /\ Usable(e, i)
     /\ ~c.ended /\ c.wrote < MaxWrites
     /\ chan' = [chan EXCEPT ![e][i].wrote = @ + 1]
     /\ wire' = Sent(wire, Other(e), <<Frame("Data", i, c.name, c.wrote + 1)>>)
     /\ UNCHANGED <<channels, opened, remote, opens, down, upsets>>

\* Channel._final, after end() of a channel or close() of a message bus.
End(e, i) ==
  /\ Usable(e, i)
  /\ ~chan[e][i].ended
  /\ chan' = [chan EXCEPT ![e][i].ended = TRUE]
  /\ wire' = Sent(wire, Other(e), <<Frame("End", i, chan[e][i].name, chan[e][i].wrote)>>)
  /\ UNCHANGED <<channels, opened, remote, opens, down, upsets>>

\* destroy() of a channel.  Mutant: it forgets the name at once.
BugDestroy(e, i) ==
  /\ Usable(e, i)
  /\ chan' = [chan EXCEPT ![e][i].state = "dying"]
  /\ channels' = [channels EXCEPT ![e][chan[e][i].name] = None]
  /\ opened' = [opened EXCEPT ![e] = @ \ {chan[e][i].name}]
  /\ UNCHANGED <<remote, opens, wire, down, upsets>>

Destroy(e, i) ==
  /\ Usable(e, i)
  /\ chan' = [chan EXCEPT ![e][i].state = "dying"]
  /\ UNCHANGED <<channels, opened, remote, opens, wire, down>>
  /\ upsets' = upsets \cup (IF \A j \in Ids : remote[e][j] # i THEN {"early"} ELSE {})

\* close() ends every channel there is, opened here or not.  When all are
\* closed it ends the stream of incoming frames: what comes later is not read,
\* which is how frames look that come too late for Shutdown.
Endable(e) == {i \in Ids : chan[e][i].state = "open" /\ ~chan[e][i].ended}

Close(e) ==
  /\ e \notin down
  /\ Endable(e) # {}
  /\ chan' = [chan EXCEPT ![e] =
       [i \in Ids |-> IF i \in Endable(e) THEN [@[i] EXCEPT !.ended = TRUE] ELSE @[i]]]
  /\ LET ids == SetToSeq(Endable(e))
     IN wire' = Sent(wire, Other(e), [j \in DOMAIN ids |->
          LET c == chan[e][ids[j]] IN Frame("End", ids[j], c.name, c.wrote)])
  /\ UNCHANGED <<channels, opened, remote, opens, down, upsets>>

\* _destroy of the multiplex: its own doing, or the connection is gone.
Shutdown(e) ==
  /\ e \notin down
  /\ down' = down \cup {e}
  /\ chan' = [chan EXCEPT ![e] = [i \in Ids |-> Unused]]
  /\ channels' = [channels EXCEPT ![e] = [n \in Names |-> None]]
  /\ remote' = [remote EXCEPT ![e] = [i \in Ids |-> None]]
  /\ opened' = [opened EXCEPT ![e] = {}]
  /\ wire' = [wire EXCEPT ![e] = <<>>]
  /\ UNCHANGED <<opens, upsets>>

-----------------------------------------------------------------------------
\* Channel._destroy: after destroy(), or when both sides have ended and the
\* data was read.  sendMsg forgets the channel by its name.
IsDue(e, i) ==
  LET c == chan[e][i]
  IN c.state = "dying" \/ (c.state = "open" /\ c.mine /\ c.ended /\ c.finished)

Teardown(e, i) ==
  LET n == chan[e][i].name
  IN /\ e \notin down
     /\ IsDue(e, i)
     /\ chan' = [chan EXCEPT ![e][i] = Unused]
     /\ channels' = [channels EXCEPT ![e][n] = None]
     /\ opened' = [opened EXCEPT ![e] = @ \ {n}]
     /\ wire' = Sent(wire, Other(e), <<Frame("Destroy", i, n, 0)>>)
     /\ UNCHANGED <<remote, opens, down, upsets>>

-----------------------------------------------------------------------------
(* onReceivedMsg                                                           *)

\* A frame other than Start is for the channel its number stands for;
\* getChannelByRemoteId throws if there is none.
Incoming(e, type) == e \notin down /\ wire[e] # <<>> /\ Head(wire[e]).type = type
Target(e) == remote[e][Head(wire[e]).id]
Consumed(e) == [wire EXCEPT ![e] = Tail(@)]

\* Mutant: every Start is answered with a Start.
BugReceiveStart(e, i) ==
  LET f == Head(wire[e])
  IN /\ Incoming(e, "Start")
     /\ GetOrCreate(e, f.name, i, FALSE)
     /\ remote' = [remote EXCEPT ![e][f.id] = i]
     /\ wire' = Sent(Consumed(e), Other(e), <<Frame("Start", i, f.name, 0)>>)
     /\ UNCHANGED <<opened, opens, down, upsets>>

ReceiveStart(e, i) ==
  LET f == Head(wire[e])
  IN /\ Incoming(e, "Start")
     /\ GetOrCreate(e, f.name, i, FALSE)
     /\ remote' = [remote EXCEPT ![e][f.id] = i]
     /\ wire' = Sent(Consumed(e), Other(e), Started(e, f.name, i))
     /\ upsets' = upsets \cup (IF chan[e][i].state = "dying" THEN {"crossed"} ELSE {})
     /\ UNCHANGED <<opened, opens, down>>

\* A stream that was destroyed drops what is pushed.
ReceiveData(e) ==
  LET f == Head(wire[e])
      i == Target(e)
  IN /\ Incoming(e, "Data") /\ i # None
     /\ chan' = IF chan[e][i].state = "open"
                THEN [chan EXCEPT ![e][i].got = @ + 1, ![e][i].from = f.id]
                ELSE chan
     /\ wire' = Consumed(e)
     /\ UNCHANGED <<channels, opened, remote, opens, down, upsets>>

\* A channel that nobody opened here has no reader, so it is destroyed.
\* Mutant: it is left alone.
BugEnded(e, i) == [chan[e][i] EXCEPT !.finished = TRUE]

Ended(e, i) ==
  LET c == chan[e][i]
  IN CASE c.state # "open" -> c
       [] c.state = "open" /\ c.name \in opened[e] -> [c EXCEPT !.finished = TRUE]
       [] OTHER -> [c EXCEPT !.finished = TRUE, !.state = "dying"]

\* Mutant: the number is forgotten as well.
BugReceiveEnd(e) ==
  LET i == Target(e)
  IN /\ Incoming(e, "End") /\ i # None
     /\ chan' = [chan EXCEPT ![e][i] = Ended(e, i)]
     /\ remote' = [remote EXCEPT ![e][Head(wire[e]).id] = None]
     /\ wire' = Consumed(e)
     /\ UNCHANGED <<channels, opened, opens, down, upsets>>

ReceiveEnd(e) ==
  LET i == Target(e)
  IN /\ Incoming(e, "End") /\ i # None
     /\ chan' = [chan EXCEPT ![e][i] = Ended(e, i)]
     /\ wire' = Consumed(e)
     /\ UNCHANGED <<channels, opened, remote, opens, down, upsets>>

\* Mutant: the channel is left open.
BugDestroyed(e, i) == chan[e][i]

Destroyed(e, i) ==
  IF chan[e][i].state = "open" THEN [chan[e][i] EXCEPT !.state = "dying"] ELSE chan[e][i]

ReceiveDestroy(e) ==
  LET f == Head(wire[e])
      i == Target(e)
  IN /\ Incoming(e, "Destroy") /\ i # None
     /\ remote' = [remote EXCEPT ![e][f.id] = None]
     /\ chan' = [chan EXCEPT ![e][i] = Destroyed(e, i)]
     /\ wire' = Consumed(e)
     /\ UNCHANGED <<channels, opened, opens, down, upsets>>

-----------------------------------------------------------------------------
Receive(e) ==
  \/ \E i \in Ids : ReceiveStart(e, i)
  \/ ReceiveData(e) \/ ReceiveEnd(e) \/ ReceiveDestroy(e)

Next ==
  \E e \in Ends :
    \/ Close(e) \/ Shutdown(e) \/ Receive(e)
    \/ \E i \in Ids : Write(e, i) \/ End(e, i) \/ Destroy(e, i) \/ Teardown(e, i)
    \/ \E n \in Names, i \in Ids : Open(e, n, i)

Spec == Init /\ [][Next]_vars

\* Frames are delivered, streams that are due are destroyed, and an end
\* whose other end has gone loses its connection.
Fairness ==
  \A e \in Ends :
    /\ WF_vars(Receive(e))
    /\ WF_vars(\E i \in Ids : Teardown(e, i))
    /\ WF_vars(Other(e) \in down /\ Shutdown(e))

FairSpec == Spec /\ Fairness

-----------------------------------------------------------------------------
(* Properties *)

\* The types of the variables.
Typed ==
  /\ channels \in [Ends -> [Names -> Ids \cup {None}]]
  /\ opened \in [Ends -> SUBSET Names]
  /\ remote \in [Ends -> [Ids -> Ids \cup {None}]]
  /\ chan \in [Ends -> [Ids -> Channel]]
  /\ opens \in 0..MaxOpens
  /\ wire \in [Ends -> Seq(Frames)]
  /\ down \subseteq Ends
  /\ upsets \subseteq Upsets

\* No frame comes for a number that stands for nothing: getChannelByRemoteId
\* never throws, in whatever order the two ends open, end and destroy.
NumbersAreKnown ==
  \A e \in Ends :
    \A type \in {"Data", "End", "Destroy"} : Incoming(e, type) => Target(e) # None

\* A channel that is in use is the one its name leads to and is known as
\* opened: the _destroy of an earlier channel, which forgets by name, never
\* removes it, and no name is opened twice.
NamesLeadToChannels ==
  \A e \in Ends, i \in Ids :
    chan[e][i].state \in {"open", "dying"} =>
      /\ channels[e][chan[e][i].name] = i
      /\ chan[e][i].mine <=> chan[e][i].name \in opened[e]

\* What a channel reads is what one channel of the same name at the other
\* end has written, from the beginning and in order, and all of it when the
\* end is read.
ReadsOneChannel ==
  \A e \in Ends :
    LET f == Head(wire[e])
        c == chan[e][Target(e)]
    IN /\ (Incoming(e, "Data") /\ Target(e) # None /\ c.state = "open") =>
            f.name = c.name /\ f.k = c.got + 1 /\ c.from \in {None, f.id}
       /\ (Incoming(e, "End") /\ Target(e) # None /\ c.state = "open") =>
            f.k = c.got /\ c.from \in {None, f.id}

\* The tables of both ends are well formed: numbers and names lead to the
\* channels they stand for, in whatever order the ends open, end and destroy.
TablesAgree == Typed /\ NumbersAreKnown /\ NamesLeadToChannels

KeptOpen(e, n) == \E i \in Ids : Usable(e, i) /\ chan[e][i].name = n /\ ~chan[e][i].ended
Hanging(e, i) ==
  /\ chan[e][i].state = "open"
  /\ chan[e][i].mine
  /\ chan[e][i].ended
  /\ ~KeptOpen(Other(e), chan[e][i].name)
Hangs(e, n) == \E i \in Ids : chan[e][i].name = n /\ Hanging(e, i)

\* close() of a channel comes to an end, unless the other side has opened its
\* channel of that name and keeps it open, or a name was announced while its
\* old channel was dying.
CloseResolvesUncrossed ==
  \A e \in Ends, n \in Names :
    (Hangs(e, n) /\ "crossed" \notin upsets) ~> (~Hangs(e, n) \/ "crossed" \in upsets)

\* The two ends fall silent, unless a channel was destroyed before the other
\* end's Start came: that Start makes a new channel, whose Start may find its
\* own channel destroyed, and so on for ever.
SettlesUnlessEarly == <>("early" \in upsets) \/ <>[](\A e \in Ends : wire[e] = <<>>)

=============================================================================
