------------------------------ MODULE FileStore ------------------------------
(***************************************************************************)
(* The contents of one peer's files (file-store.ts): an append-only core   *)
(* of blocks, written by whatever uploads are under way, read back by the  *)
(* peer itself (readFile) and, block by block as they replicate, by the    *)
(* others (fetchRemoteFile of sync-engine.ts).                             *)
(* The core (Hypercore, external) appends the blocks of one call together, *)
(* one call after another, and returns the length after the call.          *)
(***************************************************************************)
EXTENDS Integers, Sequences, FiniteSets

CONSTANTS
    Byte,           \* what a file is made of
    Content,        \* the contents that are written
    BlockSize,      \* bytes in a block
    Writer,         \* calls of writeFile
    Reader,         \* calls of readFile and fetchRemoteFile
    MaxBlocks       \* bound: blocks in the core

ASSUME StoreAssumption ==
    /\ Content \subseteq Seq(Byte)
    /\ BlockSize \in Nat \ {0} /\ MaxBlocks \in Nat

VARIABLES
    core,           \* the blocks
    have,           \* the indices that have replicated
    writing,        \* the call of each writer
    files,          \* what the calls of writeFile have returned
    reading         \* the call of each reader

vars == <<core, have, writing, files, reading>>

AtMost(m, n) == IF m < n THEN m ELSE n

\* Mutant of ChunkCount: a last block that is not full is not counted.
ChunkCountDown(data) == Len(data) \div BlockSize

\* The number of blocks of a content.
ChunkCount(data) == (Len(data) + BlockSize - 1) \div BlockSize

\* The loop over i += blockSize; subarray stops at the end of the data.
Chunks(data) ==
    [i \in 1 .. ChunkCount(data) |->
        SubSeq(data, (i - 1) * BlockSize + 1, AtMost(i * BlockSize, Len(data)))]

\* A StoredFile; its hash stands for the content.
Stored(offset, length, data) ==
    [offset |-> offset, length |-> length, size |-> Len(data), hash |-> data]

NoWrite == [pc |-> "idle", data |-> <<>>, offset |-> 0]
NoRead == [pc |-> "idle", own |-> FALSE, file |-> Stored(0, 0, <<>>), next |-> 0, got |-> <<>>]

Init ==
    /\ core = <<>> /\ have = {} /\ files = {}
    /\ writing = [w \in Writer |-> NoWrite]
    /\ reading = [r \in Reader |-> NoRead]

-----------------------------------------------------------------------------
\* writeFile: an empty content needs no block.
BeginWrite(w, data) ==
    /\ writing[w].pc = "idle"
    /\ writing' = [writing EXCEPT ![w] =
            IF data = <<>> THEN [pc |-> "stored", data |-> data, offset |-> Len(core)]
            ELSE [pc |-> "append", data |-> data, offset |-> 0]]
    /\ UNCHANGED <<core, have, files, reading>>

\* Mutant of AppendChunks: the chunks are taken off the length before the call.
AppendChunksEarly(w) ==
    /\ writing[w].pc = "append"
    /\ Len(core) + ChunkCount(writing[w].data) <= MaxBlocks
    /\ core' = core \o Chunks(writing[w].data)
    /\ writing' = [writing EXCEPT ![w].pc = "stored",
                                  ![w].offset = Len(core) - ChunkCount(writing[w].data)]
    /\ UNCHANGED <<have, files, reading>>

\* The core appends the chunks, and the caller takes them off its length.
AppendChunks(w) ==
    /\ writing[w].pc = "append"
    /\ Len(core) + ChunkCount(writing[w].data) <= MaxBlocks
    /\ core' = core \o Chunks(writing[w].data)
    /\ writing' = [writing EXCEPT ![w].pc = "stored",
                                  ![w].offset = Len(core') - ChunkCount(writing[w].data)]
    /\ UNCHANGED <<have, files, reading>>

\* Mutant of ReturnWrite: the offset is taken off the length the core has by now.
ReturnWriteLate(w) ==
    /\ writing[w].pc = "stored"
    /\ LET data == writing[w].data IN
        files' = files \cup {Stored(Len(core) - ChunkCount(data), ChunkCount(data), data)}
    /\ writing' = [writing EXCEPT ![w] = NoWrite]
    /\ UNCHANGED <<core, have, reading>>

\* The caller has the StoredFile, for an entry of the manifest.
ReturnWrite(w) ==
    /\ writing[w].pc = "stored"
    /\ LET data == writing[w].data IN
        files' = files \cup {Stored(writing[w].offset, ChunkCount(data), data)}
    /\ writing' = [writing EXCEPT ![w] = NoWrite]
    /\ UNCHANGED <<core, have, reading>>

\* The process ends: what was appended stays, what was not returned is lost.
Crash ==
    /\ writing' = [w \in Writer |-> NoWrite]
    /\ reading' = [r \in Reader |-> IF reading[r].own THEN NoRead ELSE reading[r]]
    /\ UNCHANGED <<core, have, files>>

-----------------------------------------------------------------------------
\* readFile on the own core, or fetchRemoteFile on another peer's copy.
BeginRead(r, own, file) ==
    /\ reading[r].pc = "idle" /\ file \in files
    /\ reading' = [reading EXCEPT ![r] =
            [pc |-> "get", own |-> own, file |-> file, next |-> 0, got |-> <<>>]]
    /\ UNCHANGED <<core, have, writing, files>>

\* Blocks come over one by one, those asked for before others.
Replicate(i) ==
    /\ i \in 1 .. Len(core) /\ i \notin have
    /\ have' = have \cup {i}
    /\ UNCHANGED <<core, writing, files, reading>>

\* One block after another; get waits for a block that is not there yet.
GetBlock(r) ==
    LET index == reading[r].file.offset + reading[r].next + 1 IN
    /\ reading[r].pc = "get" /\ reading[r].next < reading[r].file.length
    /\ index \in 1 .. Len(core) /\ (reading[r].own \/ index \in have)
    /\ reading' = [reading EXCEPT ![r].next = @ + 1, ![r].got = @ \o core[index]]
    /\ UNCHANGED <<core, have, writing, files>>

\* All blocks are there: Buffer.concat.
FinishRead(r) ==
    /\ reading[r].pc = "get" /\ reading[r].next = reading[r].file.length
    /\ reading' = [reading EXCEPT ![r].pc = "read"]
    /\ UNCHANGED <<core, have, writing, files>>

\* The caller takes the content; or a get rejects or answers null before.
EndRead(r) ==
    /\ reading[r].pc # "idle"
    /\ reading' = [reading EXCEPT ![r] = NoRead]
    /\ UNCHANGED <<core, have, writing, files>>

Next ==
    \/ \E w \in Writer :
        \/ \E data \in Content : BeginWrite(w, data)
        \/ AppendChunks(w) \/ ReturnWrite(w)
    \/ \E r \in Reader :
        \/ \E own \in BOOLEAN, file \in files : BeginRead(r, own, file)
        \/ GetBlock(r) \/ FinishRead(r) \/ EndRead(r)
    \/ \E i \in 1 .. MaxBlocks : Replicate(i)
    \/ Crash

Spec == Init /\ [][Next]_vars

-----------------------------------------------------------------------------
(***************************************************************************)
(* The variables have their types.                                         *)
(***************************************************************************)
File == [offset : 0 .. MaxBlocks, length : 0 .. MaxBlocks, size : Nat, hash : Seq(Byte)]

FileStoreTypeOK ==
    /\ core \in Seq(Seq(Byte)) /\ Len(core) <= MaxBlocks
    /\ have \subseteq 1 .. Len(core)
    /\ writing \in [Writer ->
            [pc : {"idle", "append", "stored"}, data : Seq(Byte), offset : 0 .. MaxBlocks]]
    /\ files \subseteq File
    /\ reading \in [Reader ->
            [pc : {"idle", "get", "read"}, own : BOOLEAN, file : File, next : 0 .. MaxBlocks, got : Seq(Byte)]]

(***************************************************************************)
(* What is read is what was written, byte for byte and of its size, from   *)
(* the own core or a remote one, while other files are appended and their  *)
(* blocks arrive in any order.                                             *)
(***************************************************************************)
ReadBack ==
    \A r \in Reader : reading[r].pc = "read" =>
        /\ reading[r].got = reading[r].file.hash
        /\ Len(reading[r].got) = reading[r].file.size

(***************************************************************************)
(* No block belongs to two files: writes that are under way together do    *)
(* not mix their blocks, and a crash between append and return leaves only *)
(* blocks that are nobody's.                                               *)
(***************************************************************************)
Blocks(file) == file.offset + 1 .. file.offset + file.length

RangesApart ==
    \A f, g \in files : f # g => Blocks(f) \cap Blocks(g) = {}

(***************************************************************************)
(* The core keeps every file it was given: read through the offset and     *)
(* the length in the manifest, the files are a write-once store.           *)
(***************************************************************************)
Entries ==
    {[name |-> f.offset + 1, data |-> f.hash,
      kept |-> SubSeq(core, f.offset + 1, f.offset + f.length)] :
        f \in {g \in files : g.length > 0}}

Keeping == INSTANCE WriteOnce WITH stored <- Entries, Encode <- Chunks

FilesKept == Keeping!Spec
=============================================================================
