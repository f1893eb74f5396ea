--------------------------- MODULE FileStoreProofs ---------------------------
(***************************************************************************)
(* Proofs about the store of file contents, for every size of a block, all *)
(* contents, any number of writers and readers and any length of the core. *)
(***************************************************************************)
EXTENDS FileStore, SequenceTheorems, TLAPS

(***************************************************************************)
(* The arithmetic of the blocks of a content of n bytes.                   *)
(***************************************************************************)
BlocksOf(n) == (n + BlockSize - 1) \div BlockSize

LEMMA DivisionBounds ==
    ASSUME NEW n \in Nat
    PROVE  /\ BlocksOf(n) \in Nat
           /\ n <= BlocksOf(n) * BlockSize
           /\ BlocksOf(n) * BlockSize < n + BlockSize
  <1>1. /\ BlocksOf(n) \in Int
        /\ BlockSize * BlocksOf(n) <= n + BlockSize - 1
        /\ n + BlockSize - 1 < BlockSize * BlocksOf(n) + BlockSize
    BY StoreAssumption, SMT DEF BlocksOf
  <1>2. BlocksOf(n) >= 0
    BY StoreAssumption, SMT DEF BlocksOf
  <1>3. QED
    BY <1>1, <1>2, StoreAssumption, SMT

\* A block that counts begins inside the content.
LEMMA BlockBegins ==
    ASSUME NEW n \in Nat, NEW k \in Nat, k < BlocksOf(n)
    PROVE  k * BlockSize < n
  <1>1. k + 1 <= BlocksOf(n) /\ BlocksOf(n) \in Nat
    BY DivisionBounds
  <1>2. (k + 1) * BlockSize <= BlocksOf(n) * BlockSize
    BY <1>1, StoreAssumption, SMT
  <1>3. (k + 1) * BlockSize = k * BlockSize + BlockSize
    BY StoreAssumption, SMT
  <1>4. /\ BlocksOf(n) * BlockSize < n + BlockSize
        /\ k * BlockSize \in Int /\ BlocksOf(n) * BlockSize \in Int
    BY <1>1, DivisionBounds, StoreAssumption, SMT
  <1>5. QED
    BY <1>2, <1>3, <1>4, StoreAssumption, SMT

LEMMA NoBytesNoBlocks == BlocksOf(0) = 0
  <1>1. BlocksOf(0) \in Nat /\ BlocksOf(0) * BlockSize < BlockSize
    BY DivisionBounds, StoreAssumption, SMT
  <1>2. BlocksOf(0) >= 1 => BlocksOf(0) * BlockSize >= BlockSize
    BY <1>1, StoreAssumption, SMT
  <1>3. QED
    BY <1>1, <1>2, StoreAssumption, SMT

\* The bytes before block k + 1 and those up to its end.
LEMMA BlockEnds ==
    ASSUME NEW n \in Nat, NEW k \in Nat, k < BlocksOf(n)
    PROVE  /\ k * BlockSize \in 0 .. n
           /\ AtMost(k * BlockSize, n) = k * BlockSize
           /\ AtMost((k + 1) * BlockSize, n) \in k * BlockSize .. n
  <1>1. k * BlockSize < n /\ k * BlockSize \in Nat
    BY BlockBegins, StoreAssumption, SMT
  <1>2. (k + 1) * BlockSize \in Nat /\ (k + 1) * BlockSize >= k * BlockSize
    BY StoreAssumption, SMT
  <1>3. QED
    BY <1>1, <1>2 DEF AtMost

-----------------------------------------------------------------------------
(***************************************************************************)
(* The blocks of a content are sequences of bytes, and the blocks read one *)
(* after another are the content read so far.                              *)
(***************************************************************************)
LEMMA ChunksType ==
    ASSUME NEW data \in Seq(Byte)
    PROVE  /\ ChunkCount(data) \in Nat
           /\ Chunks(data) \in Seq(Seq(Byte))
           /\ Len(Chunks(data)) = ChunkCount(data)
  <1>1. Len(data) \in Nat /\ ChunkCount(data) = BlocksOf(Len(data))
    BY DEF ChunkCount, BlocksOf
  <1>2. ChunkCount(data) \in Nat
    BY <1>1, DivisionBounds
  <1>3. ASSUME NEW i \in 1 .. ChunkCount(data)
        PROVE  SubSeq(data, (i - 1) * BlockSize + 1, AtMost(i * BlockSize, Len(data))) \in Seq(Byte)
    <2>1. i - 1 \in Nat /\ i - 1 < BlocksOf(Len(data)) /\ (i - 1) + 1 = i
      BY <1>1, <1>2
    <2>2. /\ (i - 1) * BlockSize \in 0 .. Len(data)
          /\ AtMost(i * BlockSize, Len(data)) \in (i - 1) * BlockSize .. Len(data)
      BY <2>1, <1>1, BlockEnds
    <2> DEFINE low == (i - 1) * BlockSize
               high == AtMost(i * BlockSize, Len(data))
    <2>3. low \in 0 .. Len(data) /\ high \in low .. Len(data)
      BY <2>2
    <2> HIDE DEF low, high
    <2>4. SubSeq(data, low + 1, high) \in Seq(Byte)
      BY <2>3, <1>1, SMT
    <2>5. QED
      BY <2>4 DEF low, high
  <1> DEFINE block(i) == SubSeq(data, (i - 1) * BlockSize + 1, AtMost(i * BlockSize, Len(data)))
             n == ChunkCount(data)
  <1>4. Chunks(data) = [i \in 1 .. n |-> block(i)]
    BY DEF Chunks
  <1>5. n \in Nat /\ \A i \in 1 .. n : block(i) \in Seq(Byte)
    BY <1>2, <1>3
  <1> HIDE DEF block, n
  <1>6. [i \in 1 .. n |-> block(i)] \in [1 .. n -> Seq(Byte)]
    BY <1>5
  <1>7. Chunks(data) \in Seq(Seq(Byte)) /\ Len(Chunks(data)) = n
    BY <1>4, <1>5, <1>6, SMT
  <1>8. QED
    BY <1>2, <1>7 DEF n

\* The content up to its k-th block.
UpTo(data, k) == SubSeq(data, 1, AtMost(k * BlockSize, Len(data)))

LEMMA NextBlock ==
    ASSUME NEW data \in Seq(Byte), NEW k \in Nat, k < ChunkCount(data)
    PROVE  UpTo(data, k) \o Chunks(data)[k + 1] = UpTo(data, k + 1)
  <1> DEFINE low == k * BlockSize
             high == AtMost((k + 1) * BlockSize, Len(data))
  <1>1. Len(data) \in Nat /\ k < BlocksOf(Len(data))
    BY DEF ChunkCount, BlocksOf
  <1>2. /\ low \in 0 .. Len(data) /\ AtMost(low, Len(data)) = low
        /\ high \in low .. Len(data)
    BY <1>1, BlockEnds
  <1>3. ChunkCount(data) \in Nat /\ k + 1 \in 1 .. ChunkCount(data) /\ (k + 1) - 1 = k
    BY ChunksType
  <1>4. Chunks(data)[k + 1] = SubSeq(data, low + 1, high)
    BY <1>3 DEF Chunks
  <1> HIDE DEF low, high
  <1>5. 1 \in 1 .. Len(data) + 1 /\ low \in 1 - 1 .. Len(data)
    BY <1>1, <1>2
  <1>6. SubSeq(data, 1, low) \o SubSeq(data, low + 1, high) = SubSeq(data, 1, high)
    BY <1>2, <1>5, ConcatAdjacentSubSeq
  <1>7. UpTo(data, k) = SubSeq(data, 1, low) /\ UpTo(data, k + 1) = SubSeq(data, 1, high)
    BY <1>2 DEF UpTo, low, high
  <1>8. QED
    BY <1>4, <1>6, <1>7

LEMMA FirstAndLast ==
    ASSUME NEW data \in Seq(Byte)
    PROVE  UpTo(data, 0) = <<>> /\ UpTo(data, ChunkCount(data)) = data
  <1>1. Len(data) \in Nat /\ ChunkCount(data) = BlocksOf(Len(data))
    BY DEF ChunkCount, BlocksOf
  <1>2. 0 * BlockSize = 0 /\ AtMost(0, Len(data)) = 0
    BY <1>1, StoreAssumption, SMT DEF AtMost
  <1>3. UpTo(data, 0) = <<>>
    BY <1>1, <1>2, SubSeqEmpty DEF UpTo
  <1>4. ChunkCount(data) * BlockSize \in Nat /\ Len(data) <= ChunkCount(data) * BlockSize
    <2>1. BlocksOf(Len(data)) \in Nat /\ Len(data) <= BlocksOf(Len(data)) * BlockSize
      BY <1>1, DivisionBounds
    <2>2. BlocksOf(Len(data)) * BlockSize \in Nat
      BY <2>1, StoreAssumption, SMT
    <2>3. QED
      BY <1>1, <2>1, <2>2
  <1>5. AtMost(ChunkCount(data) * BlockSize, Len(data)) = Len(data)
    BY <1>1, <1>4 DEF AtMost
  <1>6. QED
    BY <1>3, <1>5, SubSeqFull DEF UpTo

-----------------------------------------------------------------------------
(***************************************************************************)
(* The inductive invariant.  A file is in the core as it was written, and  *)
(* so is what a call has appended and not returned; no two of these share  *)
(* a block; and a reader has read the content as far as it has come.       *)
(***************************************************************************)
Call == [pc : {"idle", "append", "stored"}, data : Seq(Byte), offset : 0 .. MaxBlocks]
Read == [pc : {"idle", "get", "read"}, own : BOOLEAN, file : File,
         next : 0 .. MaxBlocks, got : Seq(Byte)]

InCore(blocks, f) ==
    /\ f.length = ChunkCount(f.hash) /\ f.size = Len(f.hash)
    /\ f.offset + f.length <= Len(blocks)
    /\ \A k \in 1 .. f.length : blocks[f.offset + k] = Chunks(f.hash)[k]

\* What a call of writeFile will return.
StoredOf(call) == Stored(call.offset, ChunkCount(call.data), call.data)

AppendedBy(calls) == {w \in Writer : calls[w].pc = "stored"}

FilesInCore == \A f \in files : InCore(core, f)

WritesInCore == \A w \in AppendedBy(writing) : InCore(core, StoredOf(writing[w]))

Disjoint(f, g) == Blocks(f) \cap Blocks(g) = {}

WritesApart ==
    \A w \in AppendedBy(writing) :
        /\ \A f \in files : Disjoint(f, StoredOf(writing[w]))
        /\ \A v \in AppendedBy(writing) : v # w => Disjoint(StoredOf(writing[v]), StoredOf(writing[w]))

ReadSoFar(call) ==
    call.pc # "idle" =>
        /\ call.file \in files /\ call.next <= call.file.length
        /\ call.got = UpTo(call.file.hash, call.next)
        /\ call.pc = "read" => call.next = call.file.length

ReadsSoFar == \A r \in Reader : ReadSoFar(reading[r])

StoreInv ==
    /\ FileStoreTypeOK
    /\ FilesInCore /\ WritesInCore
    /\ RangesApart /\ WritesApart
    /\ ReadsSoFar

LEMMA Types ==
    ASSUME FileStoreTypeOK
    PROVE  /\ core \in Seq(Seq(Byte)) /\ Len(core) \in 0 .. MaxBlocks /\ MaxBlocks \in Nat
           /\ have \subseteq 1 .. Len(core)
           /\ writing \in [Writer -> Call] /\ files \subseteq File
           /\ reading \in [Reader -> Read]
  BY StoreAssumption DEF FileStoreTypeOK, Call, Read

LEMMA TypesHold ==
    ASSUME core \in Seq(Seq(Byte)), Len(core) <= MaxBlocks, have \subseteq 1 .. Len(core),
           writing \in [Writer -> Call], files \subseteq File, reading \in [Reader -> Read]
    PROVE  FileStoreTypeOK
  BY DEF FileStoreTypeOK, Call, Read

LEMMA TypesStay ==
    ASSUME core' \in Seq(Seq(Byte)), Len(core') <= MaxBlocks, have' \subseteq 1 .. Len(core'),
           writing' \in [Writer -> Call], files' \subseteq File, reading' \in [Reader -> Read]
    PROVE  FileStoreTypeOK'
  BY DEF FileStoreTypeOK, Call, Read

LEMMA IdleTypes == NoWrite \in Call /\ NoRead \in Read
  BY StoreAssumption DEF NoWrite, NoRead, Call, Read, File, Stored

LEMMA Within ==
    ASSUME NEW a \in Nat, NEW b \in Nat, NEW n \in Nat, a + b <= n, NEW k \in 1 .. b
    PROVE  a + k \in 1 .. n
  OBVIOUS

\* Appending to the core leaves what is in it.
LEMMA StaysInCore ==
    ASSUME NEW blocks \in Seq(Seq(Byte)), NEW more \in Seq(Seq(Byte)),
           NEW f, f.offset \in Nat, f.length \in Nat, InCore(blocks, f)
    PROVE  InCore(blocks \o more, f)
  <1>1. /\ Len(blocks \o more) = Len(blocks) + Len(more)
        /\ Len(blocks) \in Nat /\ Len(more) \in Nat
        /\ \A i \in 1 .. Len(blocks) : (blocks \o more)[i] = blocks[i]
    BY ConcatProperties
  <1>2. f.offset + f.length <= Len(blocks \o more)
    BY <1>1 DEF InCore
  <1>3. ASSUME NEW k \in 1 .. f.length
        PROVE  (blocks \o more)[f.offset + k] = Chunks(f.hash)[k]
    <2>1. f.offset + f.length <= Len(blocks) /\ blocks[f.offset + k] = Chunks(f.hash)[k]
      BY Zenon DEF InCore
    <2>2. f.offset + k \in 1 .. Len(blocks)
      BY <1>1, <2>1, Within, Zenon
    <2>3. (blocks \o more)[f.offset + k] = blocks[f.offset + k]
      BY <1>1, <2>2, Zenon
    <2>4. QED
      BY <2>1, <2>3, Zenon
  <1>4. QED
    BY <1>2, <1>3 DEF InCore

\* What is appended is in the core, after everything that was there.
LEMMA AppendedInCore ==
    ASSUME NEW blocks \in Seq(Seq(Byte)), NEW data \in Seq(Byte)
    PROVE  InCore(blocks \o Chunks(data), Stored(Len(blocks), ChunkCount(data), data))
  <1>1. /\ ChunkCount(data) \in Nat /\ Chunks(data) \in Seq(Seq(Byte))
        /\ Len(Chunks(data)) = ChunkCount(data)
    BY ChunksType
  <1>2. /\ Len(blocks \o Chunks(data)) = Len(blocks) + ChunkCount(data)
        /\ \A k \in 1 .. ChunkCount(data) :
                (blocks \o Chunks(data))[Len(blocks) + k] = Chunks(data)[k]
    <2> DEFINE more == Chunks(data)
    <2>1. more \in Seq(Seq(Byte)) /\ Len(more) = ChunkCount(data) /\ Len(blocks) \in Nat
      BY <1>1
    <2> HIDE DEF more
    <2>2. /\ Len(blocks \o more) = Len(blocks) + Len(more)
          /\ \A i \in 1 .. Len(blocks) + Len(more) :
                (blocks \o more)[i] = IF i <= Len(blocks) THEN blocks[i] ELSE more[i - Len(blocks)]
      BY <2>1, ConcatProperties
    <2>3. ASSUME NEW k \in 1 .. ChunkCount(data)
          PROVE  (blocks \o more)[Len(blocks) + k] = more[k]
      <3>1. /\ Len(blocks) + k \in 1 .. Len(blocks) + Len(more)
            /\ ~(Len(blocks) + k <= Len(blocks)) /\ (Len(blocks) + k) - Len(blocks) = k
        BY <1>1, <2>1
      <3>2. QED
        BY <2>2, <3>1
    <2>4. QED
      BY <2>1, <2>2, <2>3 DEF more
  <1>3. QED
    BY <1>1, <1>2 DEF InCore, Stored

LEMMA StoredFields ==
    ASSUME NEW call
    PROVE  /\ StoredOf(call).offset = call.offset
           /\ StoredOf(call).length = ChunkCount(call.data)
           /\ StoredOf(call).size = Len(call.data)
           /\ StoredOf(call).hash = call.data
  BY DEF StoredOf, Stored

LEMMA StoreInitially == Init => StoreInv
  <1> SUFFICES ASSUME Init PROVE StoreInv
    OBVIOUS
  <1>1. FileStoreTypeOK
    BY TypesHold, IdleTypes, StoreAssumption DEF Init
  <1>2. AppendedBy(writing) = {} /\ files = {}
    BY DEF Init, AppendedBy, NoWrite
  <1>3. ReadsSoFar
    BY DEF Init, ReadsSoFar, ReadSoFar, NoRead
  <1>4. QED
    BY <1>1, <1>2, <1>3 DEF StoreInv, FilesInCore, WritesInCore, RangesApart, WritesApart

\* A call that does not end with an append leaves the core's users as they are.
LEMMA BeginWriteStep ==
    ASSUME StoreInv, NEW w \in Writer, NEW data \in Content, BeginWrite(w, data)
    PROVE  StoreInv'
  <1> DEFINE call == IF data = <<>> THEN [pc |-> "stored", data |-> data, offset |-> Len(core)]
                     ELSE [pc |-> "append", data |-> data, offset |-> 0]
  <1>1. /\ core \in Seq(Seq(Byte)) /\ Len(core) \in 0 .. MaxBlocks /\ have \subseteq 1 .. Len(core)
        /\ MaxBlocks \in Nat
        /\ writing \in [Writer -> Call] /\ files \subseteq File /\ reading \in [Reader -> Read]
    BY Types DEF StoreInv
  <1>2. data \in Seq(Byte) /\ call \in Call
    BY <1>1, StoreAssumption DEF Call
  <1>3. /\ writing' = [writing EXCEPT ![w] = call]
        /\ UNCHANGED <<core, have, files, reading>>
    BY DEF BeginWrite
  <1> HIDE DEF call
  <1>4. FileStoreTypeOK'
    BY <1>1, <1>2, <1>3, TypesStay
  <1>5. ASSUME NEW v \in AppendedBy(writing')
        PROVE  IF v = w THEN data = <<>> /\ writing'[v] = call /\ call.data = data /\ call.offset = Len(core)
               ELSE v \in AppendedBy(writing) /\ writing'[v] = writing[v]
    BY <1>1, <1>3 DEF AppendedBy, call
  <1>6. ASSUME data = <<>>, call.data = data, call.offset = Len(core)
        PROVE  InCore(core, StoredOf(call)) /\ Blocks(StoredOf(call)) = {}
    <2>1. ChunkCount(data) = 0 /\ Len(data) = 0
      BY <1>6, NoBytesNoBlocks DEF ChunkCount, BlocksOf
    <2>2. StoredOf(call).offset = Len(core) /\ StoredOf(call).length = 0
      BY <1>6, <2>1, StoredFields
    <2>3. Blocks(StoredOf(call)) = {}
      BY <2>2, <1>1 DEF Blocks
    <2>4. QED
      BY <1>1, <1>6, <2>1, <2>2, <2>3, StoredFields DEF InCore
  <1>7. WritesInCore'
    BY <1>3, <1>5, <1>6 DEF WritesInCore, StoreInv
  <1>8. WritesApart'
    <2> SUFFICES ASSUME NEW v \in AppendedBy(writing')
                 PROVE  /\ \A f \in files : Disjoint(f, StoredOf(writing'[v]))
                        /\ \A u \in AppendedBy(writing') :
                            u # v => Disjoint(StoredOf(writing'[u]), StoredOf(writing'[v]))
      BY <1>3 DEF WritesApart
    <2>1. CASE v = w
      BY <2>1, <1>5, <1>6 DEF Disjoint
    <2>2. CASE v # w
      BY <2>2, <1>5, <1>6 DEF Disjoint, WritesApart, StoreInv
    <2>3. QED
      BY <2>1, <2>2
  <1>9. QED
    BY <1>3, <1>4, <1>7, <1>8 DEF StoreInv, FilesInCore, RangesApart, Blocks, ReadsSoFar, ReadSoFar

\* The append puts the new blocks after those of every file and every call.
LEMMA AppendStep ==
    ASSUME StoreInv, NEW w \in Writer, AppendChunks(w)
    PROVE  StoreInv'
  <1> DEFINE data == writing[w].data
             call == [writing[w] EXCEPT !.pc = "stored",
                                        !.offset = Len(core') - ChunkCount(data)]
  <1>1. /\ core \in Seq(Seq(Byte)) /\ Len(core) \in 0 .. MaxBlocks /\ have \subseteq 1 .. Len(core)
        /\ MaxBlocks \in Nat
        /\ writing \in [Writer -> Call] /\ files \subseteq File /\ reading \in [Reader -> Read]
    BY Types DEF StoreInv
  <1>2. /\ writing[w].pc = "append" /\ core' = core \o Chunks(data)
        /\ Len(core) + ChunkCount(data) <= MaxBlocks
        /\ writing' = [writing EXCEPT ![w] = call]
        /\ UNCHANGED <<have, files, reading>>
    BY <1>1 DEF AppendChunks, Call
  <1>3. data \in Seq(Byte) /\ writing[w] \in Call
    BY <1>1 DEF Call
  <1>4. /\ ChunkCount(data) \in Nat /\ Chunks(data) \in Seq(Seq(Byte))
        /\ Len(Chunks(data)) = ChunkCount(data)
    BY <1>3, ChunksType
  <1>5. /\ core' \in Seq(Seq(Byte)) /\ Len(core') = Len(core) + ChunkCount(data)
    BY <1>1, <1>2, <1>4, ConcatProperties
  <1>6. call.pc = "stored" /\ call.data = data /\ call.offset = Len(core) /\ call \in Call
    <2>1. Len(core') - ChunkCount(data) = Len(core)
      BY <1>1, <1>4, <1>5
    <2>2. call = [writing[w] EXCEPT !.pc = "stored", !.offset = Len(core)]
      BY <2>1
    <2>3. QED
      BY <2>2, <1>1, <1>3 DEF Call
  <1> HIDE DEF data, call
  <1>7. FileStoreTypeOK'
    <2>1. writing' \in [Writer -> Call] /\ have' \subseteq 1 .. Len(core')
      BY <1>1, <1>2, <1>4, <1>5, <1>6
    <2>2. QED
      BY <1>1, <1>2, <1>5, <2>1, TypesStay
  <1>8. ASSUME NEW v \in AppendedBy(writing'), v # w
        PROVE  v \in AppendedBy(writing) /\ writing'[v] = writing[v]
    BY <1>1, <1>2, <1>8 DEF AppendedBy
  <1>9. writing'[w] = call
    BY <1>1, <1>2
  <1>10. ASSUME NEW f \in files
         PROVE  InCore(core', f) /\ f.offset + f.length <= Len(core)
    <2>1. InCore(core, f) /\ f.offset \in Nat /\ f.length \in Nat
      BY <1>1 DEF StoreInv, FilesInCore, File
    <2>2. QED
      BY <1>1, <1>2, <1>4, <2>1, StaysInCore DEF InCore
  <1>11. ASSUME NEW v \in AppendedBy(writing)
         PROVE  /\ InCore(core', StoredOf(writing[v]))
                /\ StoredOf(writing[v]).offset \in Nat /\ StoredOf(writing[v]).length \in Nat
                /\ StoredOf(writing[v]).offset + StoredOf(writing[v]).length <= Len(core)
    <2>1. InCore(core, StoredOf(writing[v]))
      BY DEF StoreInv, WritesInCore
    <2>2. writing[v].data \in Seq(Byte) /\ writing[v].offset \in Nat
      BY <1>1 DEF AppendedBy, Call
    <2>3. StoredOf(writing[v]).offset \in Nat /\ StoredOf(writing[v]).length \in Nat
      BY <2>2, ChunksType, StoredFields
    <2>4. QED
      BY <1>1, <1>2, <1>4, <2>1, <2>3, StaysInCore DEF InCore
  <1>12. FilesInCore'
    BY <1>2, <1>10 DEF FilesInCore
  <1>13. WritesInCore'
    <2> SUFFICES ASSUME NEW v \in AppendedBy(writing')
                 PROVE  InCore(core', StoredOf(writing'[v]))
      BY DEF WritesInCore
    <2>1. CASE v = w
      <3>1. StoredOf(writing'[v]) = Stored(Len(core), ChunkCount(data), data)
        BY <2>1, <1>6, <1>9 DEF StoredOf
      <3>2. QED
        BY <3>1, <1>1, <1>2, <1>3, AppendedInCore DEF data
    <2>2. CASE v # w
      BY <2>2, <1>8, <1>11
    <2>3. QED
      BY <2>1, <2>2
  <1>14. Blocks(StoredOf(call)) = Len(core) + 1 .. Len(core) + ChunkCount(data)
    BY <1>6, StoredFields DEF Blocks
  <1>15. ASSUME NEW f, f.offset \in Nat, f.length \in Nat, f.offset + f.length <= Len(core)
         PROVE  Disjoint(f, StoredOf(call)) /\ Disjoint(StoredOf(call), f)
    <2>1. ASSUME NEW n \in f.offset + 1 .. f.offset + f.length
          PROVE  n \notin Len(core) + 1 .. Len(core) + ChunkCount(data)
      BY <1>1, <1>4, <1>15
    <2>2. QED
      BY <2>1, <1>14 DEF Disjoint, Blocks
  <1>16. WritesApart'
    <2> SUFFICES ASSUME NEW v \in AppendedBy(writing')
                 PROVE  /\ \A f \in files : Disjoint(f, StoredOf(writing'[v]))
                        /\ \A u \in AppendedBy(writing') :
                            u # v => Disjoint(StoredOf(writing'[u]), StoredOf(writing'[v]))
      BY <1>2 DEF WritesApart
    <2>1. CASE v = w
      <3>1. ASSUME NEW f \in files
            PROVE  Disjoint(f, StoredOf(call))
        BY <1>1, <1>10, <1>15 DEF File
      <3>2. ASSUME NEW u \in AppendedBy(writing'), u # v
            PROVE  Disjoint(StoredOf(writing'[u]), StoredOf(call))
        BY <2>1, <3>2, <1>8, <1>11, <1>15
      <3>3. QED
        BY <2>1, <3>1, <3>2, <1>9
    <2>2. CASE v # w
      <3>1. v \in AppendedBy(writing) /\ writing'[v] = writing[v]
        BY <2>2, <1>8
      <3>2. ASSUME NEW u \in AppendedBy(writing'), u # v
            PROVE  Disjoint(StoredOf(writing'[u]), StoredOf(writing'[v]))
        <4>1. CASE u = w
          BY <4>1, <3>1, <1>9, <1>11, <1>15
        <4>2. CASE u # w
          BY <4>2, <3>1, <3>2, <1>8 DEF WritesApart, StoreInv
        <4>3. QED
          BY <4>1, <4>2
      <3>3. QED
        BY <3>1, <3>2 DEF WritesApart, StoreInv
    <2>3. QED
      BY <2>1, <2>2
  <1>17. RangesApart' /\ ReadsSoFar'
    BY <1>2 DEF StoreInv, RangesApart, Blocks, ReadsSoFar, ReadSoFar
  <1>18. QED
    BY <1>7, <1>12, <1>13, <1>16, <1>17 DEF StoreInv

\* What a call returns is what it has appended, whoever appended since.
LEMMA ReturnStep ==
    ASSUME StoreInv, NEW w \in Writer, ReturnWrite(w)
    PROVE  /\ StoreInv'
           /\ files' = files \cup {StoredOf(writing[w])}
           /\ InCore(core, StoredOf(writing[w]))
           /\ \A f \in files : Disjoint(f, StoredOf(writing[w]))
  <1> DEFINE new == StoredOf(writing[w])
  <1>1. /\ core \in Seq(Seq(Byte)) /\ Len(core) \in 0 .. MaxBlocks /\ have \subseteq 1 .. Len(core)
        /\ MaxBlocks \in Nat
        /\ writing \in [Writer -> Call] /\ files \subseteq File /\ reading \in [Reader -> Read]
    BY Types DEF StoreInv
  <1>2. /\ w \in AppendedBy(writing) /\ files' = files \cup {new}
        /\ writing' = [writing EXCEPT ![w] = NoWrite]
        /\ UNCHANGED <<core, have, reading>>
    BY DEF ReturnWrite, AppendedBy, StoredOf
  <1>3. InCore(core, new) /\ \A f \in files : Disjoint(f, new)
    BY <1>2 DEF StoreInv, WritesInCore, WritesApart
  <1>4. new \in File
    <2>1. writing[w].data \in Seq(Byte) /\ writing[w].offset \in 0 .. MaxBlocks
      BY <1>1 DEF Call
    <2>2. ChunkCount(writing[w].data) \in Nat /\ Len(writing[w].data) \in Nat
      BY <2>1, ChunksType
    <2>3. ChunkCount(writing[w].data) \in 0 .. MaxBlocks
      BY <1>1, <1>3, <2>1, <2>2, StoredFields DEF InCore
    <2>4. QED
      BY <2>1, <2>2, <2>3 DEF StoredOf, Stored, File
  <1>5. ASSUME NEW v \in AppendedBy(writing')
        PROVE  v # w /\ v \in AppendedBy(writing) /\ writing'[v] = writing[v]
    BY <1>1, <1>2 DEF AppendedBy, NoWrite
  <1> HIDE DEF new
  <1>6. FileStoreTypeOK'
    <2>1. writing' \in [Writer -> Call]
      BY <1>1, <1>2, IdleTypes
    <2>2. QED
      BY <1>1, <1>2, <1>4, <2>1, TypesStay
  <1>7. FilesInCore' /\ WritesInCore'
    BY <1>2, <1>3, <1>5 DEF StoreInv, FilesInCore, WritesInCore
  <1>8. RangesApart'
    BY <1>2, <1>3 DEF StoreInv, RangesApart, Disjoint, Blocks
  <1>9. WritesApart'
    <2> SUFFICES ASSUME NEW v \in AppendedBy(writing')
                 PROVE  /\ \A f \in files' : Disjoint(f, StoredOf(writing'[v]))
                        /\ \A u \in AppendedBy(writing') :
                            u # v => Disjoint(StoredOf(writing'[u]), StoredOf(writing'[v]))
      BY DEF WritesApart
    <2>1. Disjoint(new, StoredOf(writing[v])) /\ writing'[v] = writing[v]
      BY <1>2, <1>5 DEF StoreInv, WritesApart, new
    <2>2. QED
      BY <1>2, <1>5, <2>1 DEF StoreInv, WritesApart
  <1>10. ReadsSoFar'
    BY <1>2 DEF StoreInv, ReadsSoFar, ReadSoFar
  <1>11. QED
    BY <1>2, <1>3, <1>6, <1>7, <1>8, <1>9, <1>10 DEF StoreInv, new

LEMMA CrashStep ==
    ASSUME StoreInv, Crash
    PROVE  StoreInv'
  <1>1. /\ core \in Seq(Seq(Byte)) /\ Len(core) \in 0 .. MaxBlocks /\ have \subseteq 1 .. Len(core)
        /\ writing \in [Writer -> Call] /\ files \subseteq File /\ reading \in [Reader -> Read]
    BY Types DEF StoreInv
  <1>2. FileStoreTypeOK'
    BY <1>1, IdleTypes, TypesStay DEF Crash
  <1>3. AppendedBy(writing') = {}
    BY DEF Crash, AppendedBy, NoWrite
  <1>4. ReadsSoFar'
    BY DEF Crash, StoreInv, ReadsSoFar, ReadSoFar, NoRead
  <1>5. QED
    BY <1>2, <1>3, <1>4 DEF Crash, StoreInv, FilesInCore, WritesInCore, RangesApart, Blocks, WritesApart

LEMMA ReplicateStep ==
    ASSUME StoreInv, NEW i, Replicate(i)
    PROVE  StoreInv'
  <1>1. /\ core \in Seq(Seq(Byte)) /\ Len(core) \in 0 .. MaxBlocks /\ have \subseteq 1 .. Len(core)
        /\ writing \in [Writer -> Call] /\ files \subseteq File /\ reading \in [Reader -> Read]
    BY Types DEF StoreInv
  <1>2. FileStoreTypeOK'
    BY <1>1, TypesStay DEF Replicate
  <1>3. QED
    BY <1>2 DEF Replicate, StoreInv, FilesInCore, WritesInCore, RangesApart, Blocks, WritesApart,
                ReadsSoFar, ReadSoFar

\* A block that is got continues the content; the other steps of a reader
\* begin and end.
ReadStep(r) ==
    \/ \E own \in BOOLEAN, file \in files : BeginRead(r, own, file)
    \/ GetBlock(r) \/ FinishRead(r) \/ EndRead(r)

LEMMA BytesJoin ==
    ASSUME NEW s \in Seq(Byte), NEW t \in Seq(Byte)
    PROVE  s \o t \in Seq(Byte)
  BY ConcatProperties

LEMMA GotBlockType ==
    ASSUME NEW read \in Read, NEW n \in 0 .. MaxBlocks, NEW block, read.got \o block \in Seq(Byte)
    PROVE  [read EXCEPT !.next = n, !.got = read.got \o block] \in Read
  <1> DEFINE joined == read.got \o block
  <1>1. joined \in Seq(Byte)
    OBVIOUS
  <1> HIDE DEF joined
  <1>2. [read EXCEPT !.next = n, !.got = joined] \in Read
    BY <1>1 DEF Read
  <1>3. QED
    BY <1>2 DEF joined

LEMMA ReadStepOK ==
    ASSUME StoreInv, NEW r \in Reader, ReadStep(r)
    PROVE  StoreInv'
  <1> DEFINE read == reading[r]
  <1>1. /\ core \in Seq(Seq(Byte)) /\ Len(core) \in 0 .. MaxBlocks /\ have \subseteq 1 .. Len(core)
        /\ MaxBlocks \in Nat
        /\ writing \in [Writer -> Call] /\ files \subseteq File /\ reading \in [Reader -> Read]
    BY Types DEF StoreInv
  <1>2. /\ UNCHANGED <<core, have, writing, files>>
    BY DEF ReadStep, BeginRead, GetBlock, FinishRead, EndRead
  <1>3. read \in Read /\ ReadSoFar(read)
    BY <1>1 DEF StoreInv, ReadsSoFar
  <1>4. \E new \in Read : ReadSoFar(new) /\ reading' = [reading EXCEPT ![r] = new]
    <2>1. ASSUME NEW own \in BOOLEAN, NEW file \in files, BeginRead(r, own, file)
          PROVE  \E new \in Read : ReadSoFar(new) /\ reading' = [reading EXCEPT ![r] = new]
      <3> DEFINE new == [pc |-> "get", own |-> own, file |-> file, next |-> 0, got |-> <<>>]
      <3>1. file \in File /\ file.length \in Nat /\ file.hash \in Seq(Byte)
        BY <1>1 DEF File
      <3>2. new \in Read
        BY <3>1, <1>1 DEF Read
      <3>3. ReadSoFar(new)
        BY <3>1, FirstAndLast DEF ReadSoFar
      <3>4. QED
        BY <2>1, <3>2, <3>3 DEF BeginRead
    <2>2. CASE GetBlock(r)
      <3> DEFINE index == read.file.offset + read.next + 1
                 hash == read.file.hash
                 new == [read EXCEPT !.next = @ + 1, !.got = @ \o core[index]]
      <3>1. /\ read.pc = "get" /\ read.next < read.file.length
            /\ reading' = [reading EXCEPT ![r] = new]
        BY <2>2, <1>1 DEF GetBlock, Read
      <3>2. /\ read.file \in files /\ read.got = UpTo(hash, read.next)
            /\ InCore(core, read.file) /\ read.file \in File
        BY <3>1, <1>1, <1>3 DEF ReadSoFar, StoreInv, FilesInCore
      <3>3. /\ read.next \in Nat /\ read.file.length \in 0 .. MaxBlocks /\ read.file.offset \in Nat
            /\ hash \in Seq(Byte) /\ read.file.length = ChunkCount(hash)
        BY <3>2, <1>3 DEF Read, File, InCore
      <3>4. core[index] = Chunks(hash)[read.next + 1]
        <4>1. read.next + 1 \in 1 .. read.file.length
          BY <3>1, <3>3
        <4>2. read.file.offset + (read.next + 1) = index
          BY <3>3
        <4>3. QED
          BY <4>1, <4>2, <3>2 DEF InCore
      <3>5. read.got \o core[index] = UpTo(hash, read.next + 1)
        BY <3>1, <3>2, <3>3, <3>4, NextBlock
      <3>6. UpTo(hash, read.next + 1) \in Seq(Byte)
        <4>1. read.got \in Seq(Byte)
          BY <1>3 DEF Read
        <4>2. Chunks(hash)[read.next + 1] \in Seq(Byte)
          BY <3>1, <3>3, ChunksType, ElementOfSeq
        <4>3. QED
          BY <4>1, <4>2, <3>4, <3>5, BytesJoin, Zenon
      <3>7. new \in Read
        <4>1. read.got \o core[index] \in Seq(Byte)
          BY <3>5, <3>6
        <4>2. read.next + 1 \in 0 .. MaxBlocks
          BY <1>1, <3>1, <3>3
        <4>3. QED
          BY <1>3, <4>1, <4>2, GotBlockType, Zenon
      <3>8. ReadSoFar(new)
        <4>1. /\ new.pc = read.pc /\ new.file = read.file /\ new.next = read.next + 1
              /\ new.got = read.got \o core[index]
          BY <1>3 DEF Read
        <4>2. read.file \in files /\ read.pc = "get" /\ read.next + 1 <= read.file.length
          BY <1>3, <3>1, <3>2, <3>3 DEF ReadSoFar
        <4> HIDE DEF new
        <4>3. QED
          BY <3>5, <4>1, <4>2 DEF ReadSoFar
      <3>9. QED
        BY <3>1, <3>7, <3>8
    <2>3. CASE FinishRead(r)
      <3> DEFINE new == [read EXCEPT !.pc = "read"]
      <3>1. new \in Read /\ ReadSoFar(new)
        BY <2>3, <1>3 DEF FinishRead, Read, ReadSoFar
      <3>2. QED
        BY <2>3, <3>1 DEF FinishRead
    <2>4. CASE EndRead(r)
      BY <2>4, IdleTypes DEF EndRead, ReadSoFar, NoRead
    <2>5. QED
      BY <2>1, <2>2, <2>3, <2>4 DEF ReadStep
  <1>5. PICK new \in Read : ReadSoFar(new) /\ reading' = [reading EXCEPT ![r] = new]
    BY <1>4
  <1>6. FileStoreTypeOK'
    BY <1>1, <1>2, <1>5, TypesStay
  <1>7. ReadsSoFar'
    BY <1>1, <1>2, <1>5 DEF StoreInv, ReadsSoFar, ReadSoFar
  <1>8. QED
    BY <1>2, <1>6, <1>7 DEF StoreInv, FilesInCore, WritesInCore, RangesApart, Blocks, WritesApart

LEMMA StoreNext == StoreInv /\ [Next]_vars => StoreInv'
  <1> SUFFICES ASSUME StoreInv, [Next]_vars
               PROVE  StoreInv'
    OBVIOUS
  <1>1. CASE UNCHANGED vars
    BY <1>1 DEF vars, StoreInv, FileStoreTypeOK, FilesInCore, WritesInCore, RangesApart, Blocks,
                WritesApart, ReadsSoFar, ReadSoFar
  <1>2. ASSUME NEW w \in Writer, NEW data \in Content, BeginWrite(w, data)
        PROVE  StoreInv'
    BY <1>2, BeginWriteStep
  <1>3. ASSUME NEW w \in Writer, AppendChunks(w)
        PROVE  StoreInv'
    BY <1>3, AppendStep
  <1>4. ASSUME NEW w \in Writer, ReturnWrite(w)
        PROVE  StoreInv'
    BY <1>4, ReturnStep
  <1>5. ASSUME NEW r \in Reader, ReadStep(r)
        PROVE  StoreInv'
    BY <1>5, ReadStepOK
  <1>6. ASSUME NEW i \in 1 .. MaxBlocks, Replicate(i)
        PROVE  StoreInv'
    BY <1>6, ReplicateStep
  <1>7. CASE Crash
    BY <1>7, CrashStep
  <1>8. QED
    BY <1>1, <1>2, <1>3, <1>4, <1>5, <1>6, <1>7 DEF Next, ReadStep

LEMMA StoreInvHolds == Spec => []StoreInv
  BY StoreInitially, StoreNext, PTL DEF Spec

(***************************************************************************)
(* Offsets, lengths and what is read have their types (file-store.ts), for *)
(* any length of the core.                                                 *)
(***************************************************************************)
THEOREM FileStoreTypes == Spec => []FileStoreTypeOK
  <1>1. StoreInv => FileStoreTypeOK
    BY DEF StoreInv
  <1>2. QED
    BY <1>1, StoreInvHolds, PTL

(***************************************************************************)
(* However many uploads and reads overlap, whatever the size of a block    *)
(* and in whatever order the blocks arrive, what is read is the content    *)
(* that was written.                                                       *)
(***************************************************************************)
THEOREM ReadsAreWhole == Spec => []ReadBack
  <1>1. StoreInv => ReadBack
    <2> SUFFICES ASSUME StoreInv, NEW r \in Reader, reading[r].pc = "read"
                 PROVE  /\ reading[r].got = reading[r].file.hash
                        /\ Len(reading[r].got) = reading[r].file.size
      BY DEF ReadBack
    <2> DEFINE file == reading[r].file
    <2>1. /\ file \in files
          /\ reading[r].got = UpTo(file.hash, file.length)
      BY DEF StoreInv, ReadsSoFar, ReadSoFar
    <2>2. /\ file.hash \in Seq(Byte) /\ file.length = ChunkCount(file.hash)
          /\ file.size = Len(file.hash)
      BY <2>1, Types DEF StoreInv, FilesInCore, InCore, File
    <2>3. UpTo(file.hash, ChunkCount(file.hash)) = file.hash
      BY <2>2, FirstAndLast
    <2>4. QED
      BY <2>1, <2>2, <2>3
  <1>2. QED
    BY <1>1, StoreInvHolds, PTL

(***************************************************************************)
(* No block belongs to two files, however writes overlap and wherever the  *)
(* process ends.                                                           *)
(***************************************************************************)
THEOREM NoBlockShared == Spec => []RangesApart
  <1>1. StoreInv => RangesApart
    BY DEF StoreInv
  <1>2. QED
    BY <1>1, StoreInvHolds, PTL

(***************************************************************************)
(* The core, read through the offsets and lengths that were returned, is a *)
(* write-once store of contents: no later write, read or crash changes     *)
(* what is kept under a name.                                              *)
(***************************************************************************)
Entry(f) == [name |-> f.offset + 1, data |-> f.hash, kept |-> Chunks(f.hash)]

KeptEntries == {Entry(f) : f \in {g \in files : g.length > 0}}

\* What is kept of a file are its blocks.
LEMMA EntriesAre == StoreInv => Entries = KeptEntries
  <1> SUFFICES ASSUME StoreInv
               PROVE  Entries = KeptEntries
    OBVIOUS
  <1>1. ASSUME NEW f \in files, f.length > 0
        PROVE  SubSeq(core, f.offset + 1, f.offset + f.length) = Chunks(f.hash)
    <2>1. /\ core \in Seq(Seq(Byte)) /\ f.offset \in Nat /\ f.length \in Nat /\ f.hash \in Seq(Byte)
          /\ InCore(core, f)
      BY Types DEF StoreInv, FilesInCore, File
    <2>2. /\ Chunks(f.hash) \in Seq(Seq(Byte)) /\ Len(Chunks(f.hash)) = f.length
      BY <2>1, ChunksType DEF InCore
    <2> DEFINE chunks == Chunks(f.hash)
               part == SubSeq(core, f.offset + 1, f.offset + f.length)
    <2>3. f.offset + f.length <= Len(core) /\ \A k \in 1 .. f.length : core[f.offset + k] = chunks[k]
      BY <2>1 DEF InCore
    <2>4. chunks \in Seq(Seq(Byte)) /\ Len(chunks) = f.length
      BY <2>2
    <2> HIDE DEF chunks
    <2>5. /\ part \in Seq(Seq(Byte)) /\ Len(part) = f.length
          /\ \A k \in 1 .. f.length : part[k] = core[f.offset + k]
      <3> DEFINE m == f.offset + 1
                 n == f.offset + f.length
      <3>1. m \in Int /\ n \in Int /\ m <= n /\ n - m + 1 = f.length
        BY <1>1, <2>1
      <3>2. \A i \in m .. n : core[i] \in Seq(Byte)
        BY <2>1, <2>3, ElementOfSeq
      <3>3. part = SubSeq(core, m, n) /\ \A k \in 1 .. f.length : m + k - 1 = f.offset + k
        BY <2>1
      <3> HIDE DEF m, n, part
      <3>4. /\ SubSeq(core, m, n) \in Seq(Seq(Byte)) /\ Len(SubSeq(core, m, n)) = n - m + 1
            /\ \A i \in 1 .. n - m + 1 : SubSeq(core, m, n)[i] = core[m + i - 1]
        BY <3>1, <3>2, SubSeqProperties
      <3>5. QED
        BY <3>1, <3>3, <3>4
    <2> HIDE DEF part
    <2>6. part = chunks
      BY <2>3, <2>4, <2>5, SeqEqual
    <2>7. QED
      BY <2>6 DEF part, chunks
  <1>2. QED
    BY <1>1 DEF Entries, KeptEntries, Entry

(***************************************************************************)
(* The core with its blocks, its writers and its readers is a store whose  *)
(* contents, once written, stay as they are (WriteOnce).                   *)
(***************************************************************************)
THEOREM FilesAreKept == Spec => FilesKept
  <1>1. Init => Keeping!Init
    BY DEF Init, Keeping!Init, Entries
  <1>2. (StoreInv => Entries = KeptEntries)'
    BY EntriesAre, PTL
  <1>3. StoreInv /\ StoreInv' /\ [Next]_vars => [Keeping!Next]_Entries
    <2> SUFFICES ASSUME StoreInv, StoreInv', [Next]_vars
                 PROVE  [Keeping!Next]_Entries
      OBVIOUS
    <2>1. Entries = KeptEntries /\ Entries' = KeptEntries'
      BY <1>2, EntriesAre
    <2>2. CASE UNCHANGED files
      BY <2>1, <2>2 DEF KeptEntries
    <2>3. ASSUME NEW w \in Writer, ReturnWrite(w)
          PROVE  [Keeping!Next]_Entries
      <3> DEFINE new == StoredOf(writing[w])
      <3>1. /\ files' = files \cup {new}
            /\ \A f \in files : Disjoint(f, new)
        BY <2>3, ReturnStep
      <3>2. new \in File /\ files \subseteq File
        BY <3>1, Types DEF StoreInv, FileStoreTypeOK
      <3> HIDE DEF new
      <3>3. CASE new.length = 0
        BY <2>1, <3>1, <3>3 DEF KeptEntries
      <3>4. CASE new.length > 0
        <4>1. Entries' = Entries \cup {Entry(new)}
          BY <2>1, <3>1, <3>4 DEF KeptEntries
        <4>2. ASSUME NEW old \in Entries
              PROVE  old.name # Entry(new).name
          <5>1. PICK f \in files : f.length > 0 /\ old = Entry(f)
            BY <2>1 DEF KeptEntries
          <5>2. f.offset + 1 \in Blocks(f) /\ new.offset + 1 \in Blocks(new)
            BY <3>2, <3>4, <5>1 DEF Blocks, File
          <5>3. f.offset + 1 # new.offset + 1
            BY <3>1, <5>2 DEF Disjoint
          <5>4. QED
            BY <5>1, <5>3 DEF Entry
        <4>3. Keeping!Put(Entry(new))
          BY <4>1, <4>2 DEF Keeping!Put, Entry
        <4>4. QED
          BY <4>1, <4>3 DEF Keeping!Next
      <3>5. QED
        BY <3>2, <3>3, <3>4 DEF File
    <2>4. CASE \E w \in Writer : ReturnWrite(w)
      BY <2>3, <2>4
    <2>5. QED
      BY <2>2, <2>4 DEF Next, vars, BeginWrite, AppendChunks, BeginRead, GetBlock, FinishRead,
                        EndRead, Replicate, Crash
  <1>4. QED
    BY <1>1, <1>3, StoreInvHolds, PTL DEF Spec, FilesKept, Keeping!Spec
=============================================================================
