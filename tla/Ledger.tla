------------------------------- MODULE Ledger -------------------------------
(***************************************************************************)
(* Metadata.ts, and the queries of RepoFrontend.ts and CryptoClient.ts     *)
(* that RepoBackend.handleQuery answers.                                   *)
(*                                                                         *)
(* The ledger is a feed that lists the files written here.  It is read     *)
(* once, some time after the start; until then the files that are added    *)
(* are kept aside, to be added again after it.  A block that is appended   *)
(* reaches the disk later, and is lost if the process dies before.         *)
(*                                                                         *)
(* Every query has a number, under which the frontend keeps its callback.  *)
(* Answers may come out of order: a signature waits for a feed to open, a  *)
(* question about metadata for the ledger.                                 *)
(***************************************************************************)
EXTENDS Naturals, FiniteSets, SequencesExt

CONSTANTS
  Files,       \* the files, by the id of their feed
  MaxSize,     \* bound: the size of a file
  MaxQueries   \* bound: the queries of one life of the process

ASSUME LedgerConstants == MaxSize \in Nat /\ MaxQueries \in Nat

VARIABLES
  disk,        \* the blocks of the ledger, in order
  appending,   \* the blocks that are being appended to it
  ready,       \* ready: the ledger was read
  files,       \* files: the size of each file that is known
  replay,      \* replay: the blocks that were added before that
  toBackend,   \* the queries on their way
  cb,          \* cb: the query of each number whose callback is kept
  nextId,      \* msgid
  signing,     \* the queries that wait for a feed
  readyQ,      \* readyQ: the queries that wait for the ledger
  toFrontend,  \* the answers on their way
  thrown       \* history: the queries whose handler has thrown

ledgerVars == <<disk, appending, ready, files, replay>>
queryVars == <<toBackend, cb, nextId, signing, readyQ, toFrontend, thrown>>

-----------------------------------------------------------------------------
NoFile == MaxSize + 1
Ids == 1..MaxQueries

Block == [id : Files, bytes : 0..MaxSize]

\* "known" (history): the file was on the disk when the question was asked.
Query == [type : {"Crypto", "Sign", "Metadata", "Materialize"}, id : Files, known : BOOLEAN]
Answer == [type : {"Crypto", "Document", "File", "Patch"}, bytes : 0..NoFile]

InitLedger(blocks) ==
  /\ disk = blocks
  /\ appending = <<>>
  /\ ready = FALSE
  /\ files = [f \in Files |-> NoFile]
  /\ replay = <<>>

InitQueries ==
  /\ toBackend = <<>>
  /\ cb = <<>>
  /\ nextId = 1
  /\ signing = {}
  /\ readyQ = <<>>
  /\ toFrontend = <<>>
  /\ thrown = {}

-----------------------------------------------------------------------------
(* Metadata                                                                *)

\* addBlock: a block that changes the map is dirty.
AddBlock(acc, b) ==
  IF acc.map[b.id] = b.bytes THEN acc
  ELSE [map |-> [acc.map EXCEPT ![b.id] = b.bytes], dirty |-> Append(acc.dirty, b)]

\* addBlock, for blocks in a row: the map afterwards, and the dirty blocks.
AddBlocks(map, blocks) ==
  LET added[i \in 0..Len(blocks)] ==
        IF i = 0 THEN [map |-> map, dirty |-> <<>>] ELSE AddBlock(added[i - 1], blocks[i])
  IN added[Len(blocks)]

\* writeThrough
WriteThrough(b) ==
  LET added == AddBlocks(files, <<b>>)
  IN /\ files' = added.map
     /\ replay' = IF ready THEN replay ELSE Append(replay, b)
     /\ appending' = IF ready THEN appending \o added.dirty ELSE appending
     /\ UNCHANGED <<disk, ready>>

\* What the map holds before the ledger is read into it.
\* Mutant: what was added early stays in the map.
BugEmptied == files

Emptied == [f \in Files |-> NoFile]

\* loadLedger, when the feed is ready and read.  What was added early is
\* added again, and now appended if it is new.  Then readyQ is served.
LoadLedger ==
  LET loaded == AddBlocks(Emptied, disk).map
      added == AddBlocks(loaded, replay)
  IN /\ ~ready
     /\ ready' = TRUE
     /\ files' = added.map
     /\ appending' = appending \o added.dirty
     /\ replay' = <<>>
     /\ UNCHANGED disk

\* The append of a block is done.
Appended ==
  /\ appending # <<>>
  /\ disk' = Append(disk, Head(appending))
  /\ appending' = Tail(appending)
  /\ UNCHANGED <<ready, files, replay>>

\* The process dies, and starts again.
RestartLedger ==
  /\ appending' = <<>>
  /\ ready' = FALSE
  /\ files' = [f \in Files |-> NoFile]
  /\ replay' = <<>>
  /\ UNCHANGED disk

-----------------------------------------------------------------------------
(* Queries *)

OnDisk(f) == \E b \in ToSet(disk) : b.id = f

\* queryBackend
QueryBackend(type, f) ==
  /\ nextId \in Ids
  /\ LET query == [type |-> type, id |-> f, known |-> OnDisk(f)]
     IN /\ cb' = [i \in DOMAIN cb \cup {nextId} |-> IF i = nextId THEN query ELSE cb[i]]
        /\ toBackend' = Append(toBackend, [id |-> nextId, query |-> query])
  /\ nextId' = nextId + 1
  /\ UNCHANGED <<signing, readyQ, toFrontend, thrown>>

\* meta, materialize, and the requests of CryptoClient: sign, and verify, box,
\* openBox, sealedBox, openSealedBox and encryptionKeyPair, which are answered
\* at once.
Meta(f) == QueryBackend("Metadata", f)
Materialize(f) == QueryBackend("Materialize", f)
Sign(f) == QueryBackend("Sign", f)
CryptoRequest(f) == QueryBackend("Crypto", f)

Reply(id, type, bytes) == [id |-> id, payload |-> [type |-> type, bytes |-> bytes]]

\* The answer to a question about metadata: what is not a file is taken for a
\* document.
MetadataReply(q, map) ==
  IF map[q.query.id] = NoFile THEN Reply(q.id, "Document", NoFile)
  ELSE Reply(q.id, "File", map[q.query.id])

\* Mutant: the question does not wait for the ledger.
BugMustWait == FALSE

MustWait == ~ready

\* handleQuery, up to its first await.
Handled(type) ==
  /\ toBackend # <<>>
  /\ Head(toBackend).query.type = type
  /\ toBackend' = Tail(toBackend)
  /\ UNCHANGED <<cb, nextId>>

\* Box, OpenBox, SealedBox, OpenSealedBox, EncryptionKeyPair and Verify: what
\* the cryptography throws is an answer too.
HandleCrypto ==
  /\ Handled("Crypto")
  /\ toFrontend' = Append(toFrontend, Reply(Head(toBackend).id, "Crypto", NoFile))
  /\ UNCHANGED <<signing, readyQ, thrown>>

HandleSign ==
  /\ Handled("Sign")
  /\ signing' = signing \cup {Head(toBackend)}
  /\ UNCHANGED <<readyQ, toFrontend, thrown>>

HandleMetadata ==
  /\ Handled("Metadata")
  /\ \/ /\ MustWait
        /\ readyQ' = Append(readyQ, Head(toBackend))
        /\ UNCHANGED toFrontend
     \/ /\ ~MustWait
        /\ toFrontend' = Append(toFrontend, MetadataReply(Head(toBackend), files))
        /\ UNCHANGED readyQ
  /\ UNCHANGED <<signing, thrown>>

\* A document that was opened may have no backend yet, and nobody catches that.
HandleMaterialize ==
  /\ Handled("Materialize")
  /\ \/ /\ toFrontend' = Append(toFrontend, Reply(Head(toBackend).id, "Patch", NoFile))
        /\ UNCHANGED thrown
     \/ /\ thrown' = thrown \cup {Head(toBackend).id}
        /\ UNCHANGED toFrontend
  /\ UNCHANGED <<signing, readyQ>>

HandleQuery == HandleCrypto \/ HandleSign \/ HandleMetadata \/ HandleMaterialize

\* The feed is open, and signs or throws, which is an answer too.
Signed ==
  /\ \E q \in signing :
       /\ signing' = signing \ {q}
       /\ toFrontend' = Append(toFrontend, Reply(q.id, "Crypto", NoFile))
  /\ UNCHANGED <<toBackend, cb, nextId, readyQ, thrown>>

\* readyQ.subscribe, at the end of loadLedger.
\* Mutant: the queue is emptied, and nobody answered.
BugServed(map) == <<>>

Served(map) == [i \in DOMAIN readyQ |-> MetadataReply(readyQ[i], map)]

ServeReadyQ ==
  /\ readyQ' = <<>>
  /\ toFrontend' = toFrontend \o Served(files')
  /\ UNCHANGED <<toBackend, cb, nextId, signing, thrown>>

\* RepoFrontend.receive, for a Reply.  A number without a callback throws.
ReceiveReply ==
  LET msg == Head(toFrontend)
  IN /\ toFrontend # <<>>
     /\ msg.id \in DOMAIN cb
     /\ cb' = [i \in DOMAIN cb \ {msg.id} |-> cb[i]]
     /\ toFrontend' = Tail(toFrontend)
     /\ UNCHANGED <<toBackend, nextId, signing, readyQ, thrown>>
=============================================================================
