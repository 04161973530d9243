----------------------------- MODULE HyperFiles -----------------------------
(***************************************************************************)
(* FileStore.ts with StreamLogic.ts, behind FileServer.ts and              *)
(* FileServerClient.ts, together with the ledger and the queries.          *)
(*                                                                         *)
(* A file is a feed of its own: its bytes, cut into blocks, and then one   *)
(* block with its header.  A reader takes the last block it knows of for   *)
(* the header, and the blocks before it for the file.  Readers are at a    *)
(* peer, whose copy of the feed grows as it is replicated; a reader at the *)
(* writer is one whose copy is always up to date.                          *)
(***************************************************************************)
EXTENDS Ledger

CONSTANTS
  Recorded,    \* the files that are in the ledger to begin with
  BlockSize,   \* BLOCK_SIZE, in bytes
  MaxPiece,    \* bound: the bytes that come in one piece
  Readers,     \* the requests for a file
  MaxRestarts  \* bound: how often the process dies

ASSUME FileConstants ==
  /\ Recorded \subseteq Files /\ IsFiniteSet(Recorded)
  /\ Recorded # {} => MaxSize >= 1
  /\ BlockSize \in Nat \ {0}
  /\ MaxPiece \in Nat
  /\ MaxRestarts \in Nat

VARIABLES
  size,      \* the size of each file that was ever sent here
  upload,    \* the write of each file
  feed,      \* the blocks of each file's feed, which survive a crash
  seen,      \* how many of them the readers' copy has
  reader,    \* the requests for a file
  listening, \* whether the file server listens, and its client knows where
  restarts   \* how often the process has died

fileVars == <<size, upload, feed, seen, reader, listening, restarts>>
vars == <<ledgerVars, queryVars, fileVars>>

-----------------------------------------------------------------------------
\* A block of bytes, or the header.
Data(first, last) == [type |-> "data", bytes |-> [i \in 1..(last + 1 - first) |-> first + i - 1],
                      size |-> 0, blocks |-> 0]
HeaderBlock(bytes, blocks) == [type |-> "header", bytes |-> <<>>, size |-> bytes, blocks |-> blocks]

\* phase: none, piping, flushed (the source has ended), finished (the header
\* is being appended), written (it was), done (the client has its answer),
\* or aborted (the source has failed)
\* given: the bytes that were read;  pending: those kept by the transform
\* processed, count: processedBytes and chunkCount
\* queue: the chunks on their way to the feed
NoUpload == [phase |-> "none", given |-> 0, pending |-> 0,
             processed |-> 0, count |-> 0, queue |-> <<>>]

\* phase: none, header (asked for), stream (the header was sent), done, failed
NoRequest == [phase |-> "none", file |-> CHOOSE f \in Files : TRUE,
              size |-> 0, blocks |-> 0, body |-> <<>>]

\* A recorded file has one byte, which is counted as two blocks if it fills one.
Whole == <<Data(1, 1), HeaderBlock(1, IF BlockSize = 1 THEN 2 ELSE 1)>>

Init ==
  /\ InitLedger([i \in 1..Cardinality(Recorded) |-> [id |-> SetToSeq(Recorded)[i], bytes |-> 1]])
  /\ InitQueries
  /\ size = [f \in Files |-> IF f \in Recorded THEN 1 ELSE NoFile]
  /\ upload = [f \in Files |-> NoUpload]
  /\ feed = [f \in Files |-> IF f \in Recorded THEN Whole ELSE <<>>]
  /\ seen = [f \in Files |-> Len(feed[f])]
  /\ reader = [r \in Readers |-> NoRequest]
  /\ listening = FALSE
  /\ restarts = 0

-----------------------------------------------------------------------------
(* FileServer, and how its client finds it *)

\* listen, and FileServerReadyMsg, for which the client's requests wait.
StartFileServer ==
  /\ ~listening
  /\ listening' = TRUE
  /\ UNCHANGED <<ledgerVars, queryVars, size, upload, feed, seen, reader, restarts>>

-----------------------------------------------------------------------------
(* FileStore.write *)

\* POST: a feed is created, and the request is piped to it.
Post(f, n) ==
  /\ listening
  /\ size[f] = NoFile
  /\ size' = [size EXCEPT ![f] = n]
  /\ upload' = [upload EXCEPT ![f].phase = "piping"]
  /\ UNCHANGED <<ledgerVars, queryVars, feed, seen, reader, listening, restarts>>

\* n pending bytes, from "first" on, as chunks of BlockSize and a rest.
Chunks(first, n) ==
  [i \in 1..((n + BlockSize - 1) \div BlockSize) |->
     Data(first + (i - 1) * BlockSize, first - 1 + Min({n, i * BlockSize}))]

\* pushChunks.  Readable.push passes nothing on for an empty chunk, which counts.
Pushed(u, first, n) ==
  [u EXCEPT !.processed = @ + n,
            !.count = @ + (IF n = 0 THEN 1 ELSE Len(Chunks(first, n))),
            !.queue = @ \o Chunks(first, n)]

\* What readPendingChunks keeps of n pending bytes.
\* Mutant: a rest is kept only if there was no full chunk.
BugRest(n) == IF n < BlockSize THEN n ELSE 0

Rest(n) == IF n < BlockSize THEN n ELSE n % BlockSize

\* _transform
Transform(f, k) ==
  LET u == upload[f]
      n == u.pending + k
      kept == [u EXCEPT !.given = @ + k, !.pending = Rest(n)]
      first == kept.given - n + 1
  IN /\ u.phase = "piping"
     /\ u.given + k <= size[f]
     /\ upload' = [upload EXCEPT ![f] = IF n < BlockSize THEN kept ELSE Pushed(kept, first, n - (n % BlockSize))]
     /\ UNCHANGED <<ledgerVars, queryVars, size, feed, seen, reader, listening, restarts>>

\* _flush, when the source has ended.
Flush(f) ==
  LET u == upload[f]
  IN /\ u.phase = "piping" /\ u.given = size[f]
     /\ upload' = [upload EXCEPT ![f] = [Pushed(u, u.given - u.pending + 1, u.pending)
                                           EXCEPT !.pending = 0, !.phase = "flushed"]]
     /\ UNCHANGED <<ledgerVars, queryVars, size, feed, seen, reader, listening, restarts>>

\* The source fails: nothing is told to the streams after it.
Abort(f) ==
  /\ upload[f].phase = "piping"
  /\ upload' = [upload EXCEPT ![f].phase = "aborted"]
  /\ UNCHANGED <<ledgerVars, queryVars, size, feed, seen, reader, listening, restarts>>

\* The append stream takes a chunk.
AppendChunk(f) ==
  /\ upload[f].queue # <<>>
  /\ feed' = [feed EXCEPT ![f] = Append(@, Head(upload[f].queue))]
  /\ upload' = [upload EXCEPT ![f].queue = Tail(@)]
  /\ UNCHANGED <<ledgerVars, queryVars, size, seen, reader, listening, restarts>>

\* The append stream has finished: the header is appended.
HasFinished(u) == u.phase = "flushed" /\ u.queue = <<>>

AppendHeader(f) ==
  LET u == upload[f]
  IN /\ HasFinished(u)
     /\ feed' = [feed EXCEPT ![f] = Append(@, HeaderBlock(u.processed, u.count))]
     /\ upload' = [upload EXCEPT ![f].phase = "written"]
     /\ UNCHANGED <<ledgerVars, queryVars, size, seen, reader, listening, restarts>>

\* The append has returned: writeLog adds the file to the ledger, and the
\* client gets its answer.
\* Mutant: when the source has ended.
BugIsWritten(u) == u.phase \in {"flushed", "written"}

IsWritten(u) == u.phase = "written"

Written(f) ==
  LET u == upload[f]
  IN /\ IsWritten(u)
     /\ WriteThrough([id |-> f, bytes |-> u.processed])
     /\ upload' = [upload EXCEPT ![f].phase = "done"]
     /\ UNCHANGED <<queryVars, size, feed, seen, reader, listening, restarts>>

-----------------------------------------------------------------------------
(* Reading at a peer *)

Replicate(f) ==
  /\ seen[f] < Len(feed[f])
  /\ seen' = [seen EXCEPT ![f] = @ + 1]
  /\ UNCHANGED <<ledgerVars, queryVars, size, upload, feed, reader, listening, restarts>>

\* GET
Get(r, f) ==
  /\ reader[r].phase = "none"
  /\ reader' = [reader EXCEPT ![r].phase = "header", ![r].file = f]
  /\ UNCHANGED <<ledgerVars, queryVars, size, upload, feed, seen, listening, restarts>>

\* sendHeaders: the head of the feed is parsed, which fails for data.
SendHeaders(r) ==
  LET f == reader[r].file
      head == feed[f][seen[f]]
  IN /\ reader[r].phase = "header"
     /\ seen[f] > 0
     /\ reader' = IF head.type = "header"
          THEN [reader EXCEPT ![r].phase = "stream", ![r].size = head.size, ![r].blocks = head.blocks]
          ELSE [reader EXCEPT ![r].phase = "failed"]
     /\ UNCHANGED <<ledgerVars, queryVars, size, upload, feed, seen, listening, restarts>>

\* FileStore.read: the blocks that are streamed.
Body(f) == SubSeq(feed[f], 1, seen[f] - 1)

Stream(r) ==
  /\ reader[r].phase = "stream"
  /\ reader' = [reader EXCEPT ![r].phase = "done", ![r].body = Body(reader[r].file)]
  /\ UNCHANGED <<ledgerVars, queryVars, size, upload, feed, seen, listening, restarts>>

-----------------------------------------------------------------------------
\* The writer's process dies and starts again.
Restart ==
  /\ restarts < MaxRestarts
  /\ restarts' = restarts + 1
  /\ RestartLedger
  /\ toBackend' = <<>> /\ cb' = <<>> /\ nextId' = 1 /\ signing' = {} /\ readyQ' = <<>>
  /\ toFrontend' = <<>> /\ thrown' = {}
  /\ upload' = [f \in Files |-> NoUpload]
  /\ listening' = FALSE
  /\ UNCHANGED <<size, feed, seen, reader>>

LedgerStep ==
  \/ LoadLedger /\ ServeReadyQ /\ UNCHANGED fileVars
  \/ Appended /\ UNCHANGED <<queryVars, fileVars>>

QueryStep ==
  /\ \/ HandleQuery
     \/ Signed
     \/ ReceiveReply
  /\ UNCHANGED <<ledgerVars, fileVars>>

Ask ==
  /\ \/ \E f \in Files : Meta(f)
     \/ LET f == CHOOSE f \in Files : TRUE
        IN Materialize(f) \/ Sign(f) \/ CryptoRequest(f)
  /\ UNCHANGED <<ledgerVars, fileVars>>

WriteStep ==
  \E f \in Files :
    \/ \E n \in 0..MaxSize : Post(f, n)
    \/ \E k \in 1..MaxPiece : Transform(f, k)
    \/ Flush(f) \/ Abort(f) \/ AppendChunk(f) \/ AppendHeader(f) \/ Written(f)

ReadStep ==
  \/ \E f \in Files : Replicate(f)
  \/ \E r \in Readers : SendHeaders(r) \/ Stream(r) \/ \E f \in Files : Get(r, f)

Next ==
  \/ StartFileServer
  \/ LedgerStep \/ QueryStep \/ Ask
  \/ WriteStep \/ ReadStep
  \/ Restart

Spec == Init /\ [][Next]_vars

\* Feeds open and are read, and what has arrived is handled.
Fairness ==
  /\ WF_vars(LoadLedger /\ ServeReadyQ /\ UNCHANGED fileVars)
  /\ WF_vars(HandleQuery /\ UNCHANGED <<ledgerVars, fileVars>>)
  /\ WF_vars(Signed /\ UNCHANGED <<ledgerVars, fileVars>>)
  /\ WF_vars(ReceiveReply /\ UNCHANGED <<ledgerVars, fileVars>>)

FairSpec == Spec /\ Fairness

-----------------------------------------------------------------------------
(* Properties *)

\* What a reader gets is the file: all its bytes in order, with the size that
\* was sent before them, in as many blocks as were announced.  The last is
\* not so for a file whose size is a multiple of the block size, for which
\* one block too many is announced.  (write, header, read, ChunkSizeTransform)
GetsTheFile ==
  \A r \in Readers : reader[r].phase = "done" =>
    LET got == reader[r]
        bytes == FlattenSeq([i \in DOMAIN got.body |-> got.body[i].bytes])
    IN /\ got.size = size[got.file]
       /\ bytes = [i \in 1..got.size |-> i]
       /\ got.blocks = Len(got.body) + (IF got.size % BlockSize = 0 THEN 1 ELSE 0)

\* A file that the ledger lists, or that will be added to it, was written
\* completely: its header is the last block of its feed.
ListedIsWhole ==
  \A b \in ToSet(disk) \cup ToSet(appending) \cup ToSet(replay) :
    LET blocks == feed[b.id]
    IN /\ blocks # <<>>
       /\ blocks[Len(blocks)].type = "header"
       /\ b.bytes = size[b.id]

\* Once the ledger is read, the files known are those on its disk and those
\* being appended, each of them once: nothing that was added early is lost or
\* listed twice (the comment above Metadata.ready).
KnownIsListed ==
  ready =>
    LET listed == disk \o appending
    IN /\ \A f \in Files, n \in 0..MaxSize :
            files[f] = n <=> \E i \in DOMAIN listed : listed[i] = [id |-> f, bytes |-> n]
       /\ \A i, j \in DOMAIN listed : listed[i].id = listed[j].id => i = j

\* The ledger is true: it lists what is known, and nothing that is not whole.
LedgerIsTrue == ListedIsWhole /\ KnownIsListed

\* Whoever asks about a file that is in the ledger is told so, however early
\* the question comes ("Responses to file metadata won't reply until the
\* ledger is fully loaded").
ToldOfFiles ==
  \A i \in DOMAIN toFrontend :
    LET msg == toFrontend[i]
    IN cb[msg.id].type = "Metadata" /\ cb[msg.id].known => msg.payload.type = "File"

\* Every query is answered once its turn comes, unless its handler has thrown
\* because the document has no backend yet.
QueriesAnswered ==
  \A i \in Ids :
    (i \in DOMAIN cb) ~> (i \notin DOMAIN cb \/ i \in thrown)
=============================================================================
