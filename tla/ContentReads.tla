----------------------------- MODULE ContentReads -----------------------------
(***************************************************************************)
(* Random access to the content of a title: the reads of an NCA FS section *)
(* (nca.c), the bucket tree storages stacked on it (bktr.c) and the        *)
(* storage context that stacks them (nca_storage.c), as the RomFS reader   *)
(* and the menu of nxdt_rw_poc.c use them.                                 *)
(*                                                                         *)
(* A section is a row of cells.  A stored cell carries its plaintext and   *)
(* the counter (or sector) it was encrypted with: deciphering it with any  *)
(* other one gives Noise.  Block stands for AES_BLOCK_SIZE and for the XTS *)
(* sector, Buffer for NCA_CRYPTO_BUFFER_SIZE.                              *)
(*                                                                         *)
(* Two pieces of state survive a call: the generation left in the partial  *)
(* counter of a patch section (NcaFsSectionContext.ctr) and the virtual    *)
(* offset left in a sparse one (cur_sparse_virtual_offset).                *)
(***************************************************************************)
EXTENDS Integers, Sequences, FiniteSetsExt

CONSTANTS
    Sections,   \* [name -> section], as read from the NCA FS headers
    Titles,     \* the base and patch sections a user may open together
    Block,      \* cells per cipher block
    Buffer,     \* cells in g_ncaCryptoBuffer
    None        \* no section, no layer

VARIABLES
    title,      \* the sections of this session and the one selected
    storage,    \* the open default storage context, or None
    tables,     \* the tables still to read before it is open
    cipher,     \* what the section contexts remember between two calls
    answer      \* the last call and what it returned

vars == <<title, storage, tables, cipher, answer>>

HeaderGeneration == 0       \* NcaFsHeader.aes_ctr_upper_iv.generation
Plain == <<"plain">>
Noise == <<"noise">>
Zero  == <<"zero">>
Absent == <<"absent">>

\* The places of a tree's entries, in their order, and the entry at one of them.
Places(tree) ==
    UNION {{[set |-> i, entry |-> j] : j \in DOMAIN tree.sets[i]} : i \in DOMAIN tree.sets}

Before(p, q) == p.set < q.set \/ (p.set = q.set /\ p.entry < q.entry)

Visited(tree, visitor) == tree.sets[visitor.set][visitor.entry]

\* The entry of a tree that covers an offset, by its definition: the last one that starts no later.
PlaceAt(tree, v) ==
    CHOOSE p \in Places(tree) :
        /\ Visited(tree, p).virtual <= v
        /\ \A q \in Places(tree) : Visited(tree, q).virtual <= v => ~Before(p, q)

EntryAt(tree, v) == Visited(tree, PlaceAt(tree, v))

\* The entries of a sparse or indirect table, of one with generations, and of a compressed one
Moves == [virtual : Nat, physical : Nat, index : {0, 1}]
Keys  == [virtual : Nat, generation : Nat, encrypted : BOOLEAN]
Packs == [virtual : Nat, physical : Nat, size : Nat, kind : {"none", "zero", "lz4"}]

\* Tables the program accepts: the checks of bktrValidateTableOffsetNode and of
\* the entry sets.  A table with an L2 node never passes them.
WellFormed(tree, entries) ==
    /\ tree.sets \in Seq(Seq(entries)) /\ tree.end \in Nat /\ tree.table \in Nat
    /\ tree.sets # <<>> /\ \A i \in DOMAIN tree.sets : tree.sets[i] # <<>>
    /\ tree.sets[1][1].virtual = 0
    /\ \A p, q \in Places(tree) : Before(p, q) => Visited(tree, p).virtual < Visited(tree, q).virtual
    /\ \A p \in Places(tree) : Visited(tree, p).virtual < tree.end

\* What is known of a section from its header.  Only a patch has an indirect layer: it has
\* generations with it, and no sparse layer.  (A patch with a plain hash layer is left out.)
ASSUME SectionsAssumption ==
    /\ None \notin DOMAIN Sections
    /\ \A s \in DOMAIN Sections :
         LET sec == Sections[s] IN
         /\ sec.start \in Nat /\ sec.size \in Nat /\ sec.hash \in Nat
         /\ sec.start % Block = 0
         /\ sec.crypto \in {"none", "xts", "ctr", "skip"}
         /\ sec.sparse # None => WellFormed(sec.sparse, Moves)
         /\ sec.indirect # None => WellFormed(sec.indirect, Moves) /\ sec.ctrEx # None /\ sec.sparse = None
         /\ sec.ctrEx # None => WellFormed(sec.ctrEx, Keys) /\ sec.indirect # None /\ sec.crypto = "ctr"
         /\ sec.compressed # None => WellFormed(sec.compressed, Packs)

\* A patch is opened over a base, or either of them alone.
ASSUME TitlesAssumption ==
    \A t \in Titles :
        /\ t.base # None => t.base \in DOMAIN Sections /\ Sections[t.base].indirect = None
        /\ t.patch # None => t.patch \in DOMAIN Sections /\ Sections[t.patch].indirect # None
        /\ t.base # None \/ t.patch # None

ASSUME BufferHoldsBlocks == Block \in Nat \ {0} /\ Buffer \in Nat \ {0} /\ Buffer % Block = 0

-----------------------------------------------------------------------------
(* The content file: what is stored at a section-relative offset.           *)

Ctr(generation, at) == <<"ctr", generation, at \div Block>>
Sector(at) == <<"xts", at \div Block>>

\* Where a sparse layer stores a virtual offset.
Stored(tree, v) == EntryAt(tree, v).index = 0
StoredAt(tree, v) == v - EntryAt(tree, v).virtual + EntryAt(tree, v).physical

\* The offset whose counter a cell was encrypted with: the virtual one of a cell stored by a
\* sparse layer, its own for the layer's table and in all other sections.
EncryptedAt(s, p) ==
    LET tree == Sections[s].sparse
        held == {v \in 0..(tree.end - 1) : Stored(tree, v) /\ StoredAt(tree, v) = p}
    IN IF tree = None \/ held = {} THEN p ELSE Min(held)

\* A sparse layer stores each virtual offset in a cell of its own, at the same place of a
\* block, and offset 0 first.
ASSUME SparseAssumption ==
    \A s \in DOMAIN Sections :
        LET tree == Sections[s].sparse IN
        tree # None =>
            /\ \A u, v \in 0..(tree.end - 1) :
                  Stored(tree, u) /\ Stored(tree, v) /\ StoredAt(tree, u) = StoredAt(tree, v) => u = v
            /\ \A v \in 0..(tree.end - 1) : Stored(tree, v) => StoredAt(tree, v) % Block = v % Block
            /\ Stored(tree, 0) => StoredAt(tree, 0) = 0

StoredWith(s, p) ==
    LET sec == Sections[s] IN
    IF sec.crypto = "none" \/ (sec.crypto = "skip" /\ p < sec.hash) THEN Plain
    ELSE IF sec.crypto = "xts" THEN Sector(p)
    ELSE IF sec.ctrEx # None /\ p < sec.ctrEx.end
    THEN IF EntryAt(sec.ctrEx, p).encrypted
         THEN Ctr(EntryAt(sec.ctrEx, p).generation, sec.start + p) ELSE Plain
    ELSE Ctr(HeaderGeneration, sec.start + EncryptedAt(s, p))

\* ncaReadContentFile, deciphered cell by cell with the counters of iv.
Decipher(s, at, iv) ==
    [j \in DOMAIN iv |-> IF StoredWith(s, at + j - 1) = iv[j] THEN <<s, at + j - 1>> ELSE Noise]

Ciphers == [generation : Nat, virtual : Nat, unreadable : SUBSET DOMAIN Sections]

Done(data, c) == [ok |-> TRUE, data |-> data, cipher |-> c]
Failed(c) == [ok |-> FALSE, data |-> <<>>, cipher |-> c]

AlignDown(n) == Block * (n \div Block)
AlignUp(n) == AlignDown(n + Block - 1)

-----------------------------------------------------------------------------
(* _ncaReadFsSection and _ncaReadAesCtrExStorage.                           *)

\* ncaFsSectionCheckPlaintextHashRegionAccess: the region always starts at 0.
PlaintextSize(s, size, offset) ==
    IF Sections[s].crypto = "skip" /\ offset < Sections[s].hash
    THEN Min({Sections[s].hash - offset, size}) ELSE 0

\* What one pass of the two readers takes from the content file: how many cells
\* it reads from the start of a block, and which of them the caller gets.
Whole(size) == [skip |-> 0, size |-> size, out |-> size]

ThroughBuffer(size, content) ==
    LET skip  == content - AlignDown(content)
        block == AlignUp(content + size) - AlignDown(content)
    IN [skip |-> skip, size |-> Min({block, Buffer}),
        out  |-> IF block > Buffer THEN Buffer - skip ELSE size]

Aligned(size, content) == content % Block = 0 /\ size % Block = 0

Given(s, offset, pass, iv) ==
    SubSeq(Decipher(s, offset - pass.skip, iv), pass.skip + 1, pass.skip + pass.out)

Pass(s, size, offset) ==
    LET sec   == Sections[s]
        plain == PlaintextSize(s, size, offset)
    IN IF plain > 0 THEN Whole(plain)
       ELSE IF sec.crypto = "none" \/ Aligned(size, sec.start + offset) THEN Whole(size)
       ELSE ThroughBuffer(size, sec.start + offset)

\* The sector or the counters of a pass, from the offset the counter is derived from.
PassIv(s, size, offset, ivOffset, c) ==
    [j \in 1..Pass(s, size, offset).size |->
        CASE Sections[s].crypto = "none" \/ PlaintextSize(s, size, offset) > 0 -> Plain
          [] Sections[s].crypto = "xts" /\ PlaintextSize(s, size, offset) = 0 ->
                Sector(AlignDown(offset) + j - 1)
          [] OTHER -> Ctr(c.generation, AlignDown(ivOffset) + j - 1)]

\* The passes of _ncaReadFsSection, which calls itself for what is left.
ReadPasses(s, size, offset, c) ==
    LET shifted == Sections[s].sparse # None /\ c.virtual # 0
        read[left \in 1..size] ==
            LET at    == offset + size - left
                ivAt  == Sections[s].start + IF shifted THEN c.virtual + size - left ELSE at
                pass  == Pass(s, left, at)
                rest  == IF pass.out = left THEN <<>> ELSE read[left - pass.out]
            IN Given(s, at, pass, PassIv(s, left, at, ivAt, c)) \o rest
    IN read[size]

\* The offset is left as it was handed down, for the next read to use.
RememberVirtual(s, c) == c

\* The end label of _ncaReadFsSection.
ForgetVirtual(s, c) == IF Sections[s].sparse # None THEN [c EXCEPT !.virtual = 0] ELSE c

\* Only a patch section ever changes the generation it started with.
ReadSection(s, size, offset, c) ==
    LET keyed == IF Sections[s].ctrEx # None THEN c ELSE [c EXCEPT !.generation = HeaderGeneration]
    IN IF offset + size > Sections[s].size THEN Failed(c)
       ELSE IF s \in c.unreadable THEN Failed(ForgetVirtual(s, c))
       ELSE Done(ReadPasses(s, size, offset, keyed), ForgetVirtual(s, c))

KeyedPass(s, size, offset, e) ==
    IF ~e.encrypted \/ Aligned(size, Sections[s].start + offset) THEN Whole(size)
    ELSE ThroughBuffer(size, Sections[s].start + offset)

KeyedIv(s, size, offset, e) ==
    [j \in 1..KeyedPass(s, size, offset, e).size |->
        IF e.encrypted THEN Ctr(e.generation, AlignDown(Sections[s].start + offset) + j - 1) ELSE Plain]

\* The passes of _ncaReadAesCtrExStorage
ReadKeyedPasses(s, size, offset, e) ==
    LET read[left \in 1..size] ==
            LET at    == offset + size - left
                pass  == KeyedPass(s, left, at, e)
                rest  == IF pass.out = left THEN <<>> ELSE read[left - pass.out]
            IN Given(s, at, pass, KeyedIv(s, left, at, e)) \o rest
    IN read[size]

\* aes128CtrUpdatePartialCtrEx leaves the generation of the entry in the counter.
Keep(c, e) == IF e.encrypted THEN [c EXCEPT !.generation = e.generation] ELSE c

ReadAesCtrEx(s, size, offset, e, c) ==
    IF offset + size > Sections[s].size \/ s \in c.unreadable THEN Failed(c)
    ELSE Done(ReadKeyedPasses(s, size, offset, e), Keep(c, e))

-----------------------------------------------------------------------------
(* Storages: how ncaStorageInitializeContext stacks the layers.             *)

Missing == [type |-> "Missing"]
Regular(s) == [type |-> "Regular", section |-> s]
Storage(type, s, tree, subs) == [type |-> type, section |-> s, tree |-> tree, subs |-> subs]

SparseOf(s)  == Storage("Sparse", s, Sections[s].sparse, <<Regular(s)>>)
CtrExOf(s)   == Storage("AesCtrEx", s, Sections[s].ctrEx, <<Regular(s)>>)

\* ncaStorageSetPatchOriginalSubStorage: a compressed base is read as it is stored.
OriginalOf(base) ==
    IF base = None THEN Missing
    ELSE IF Sections[base].sparse # None THEN SparseOf(base) ELSE Regular(base)

IndirectOf(patch, base) ==
    Storage("Indirect", patch, Sections[patch].indirect, <<OriginalOf(base), CtrExOf(patch)>>)

UncompressedOf(s, base) ==
    IF Sections[s].indirect # None THEN IndirectOf(s, base)
    ELSE IF Sections[s].sparse # None THEN SparseOf(s) ELSE Regular(s)

StorageOf(s, base) ==
    IF Sections[s].compressed # None /\ Sections[s].sparse = None
    THEN Storage("Compressed", s, Sections[s].compressed, <<UncompressedOf(s, base)>>)
    ELSE UncompressedOf(s, base)

\* Every storage a section is read through, alone or over a base.
Storages ==
    {Missing} \cup
    UNION {{Regular(s), SparseOf(s), CtrExOf(s), UncompressedOf(s, base), StorageOf(s, base)} :
              s \in DOMAIN Sections, base \in DOMAIN Sections \cup {None}}

EndOf(g) == IF g.type = "Regular" THEN Sections[g.section].size ELSE g.tree.end

-----------------------------------------------------------------------------
(* What a storage holds at an offset, from the meaning of its layers alone. *)

PackedCells(g, e) ==
    LET first == Sections[g.section].hash + e.physical IN first..(first + e.size - 1)

\* The storage an entry points into and the cells of it that an offset needs.
Held(g, e, v) ==
    LET cell == Sections[g.section].hash * (IF g.type = "Compressed" THEN 1 ELSE 0)
                + v - e.virtual + e.physical
    IN CASE g.type = "Indirect" -> [in |-> g.subs[e.index + 1], cells |-> {cell}]
         [] g.type = "Sparse" -> [in |-> g.subs[1], cells |-> IF e.index = 0 THEN {cell} ELSE {}]
         [] g.type = "Compressed" ->
               [in |-> g.subs[1],
                cells |-> CASE e.kind = "none" -> {cell}
                            [] e.kind = "zero" -> {}
                            [] e.kind = "lz4"  -> PackedCells(g, e)]

\* Every cell an entry needs lies in the storage below.
PointsInside(g) ==
    \A v \in 0..(g.tree.end - 1) :
        LET held == Held(g, EntryAt(g.tree, v), v) IN
        held.in.type = "Missing" \/ held.cells \subseteq 0..(EndOf(held.in) - 1)

\* So it is with the tables of every title that is opened.
ASSUME TablesPointInside ==
    \A t \in Titles :
        /\ t.base # None =>
              /\ Sections[t.base].sparse # None => PointsInside(SparseOf(t.base))
              /\ StorageOf(t.base, None).type = "Compressed" => PointsInside(StorageOf(t.base, None))
        /\ t.patch # None =>
              /\ Sections[t.patch].ctrEx.end <= Sections[t.patch].size
              /\ PointsInside(IndirectOf(t.patch, t.base))
              /\ PointsInside(StorageOf(t.patch, t.base))

\* What a bare section holds, or the storage that is missing where there is no base
Bare == [cell \in Storages \X Nat |->
            IF cell[1].type = "Missing" THEN Absent ELSE <<cell[1].section, cell[2]>>]

\* What an entry makes of what is below it.
MadeOf(below, g, e, v) ==
    IF Absent \in below THEN Absent
    ELSE IF below = {} THEN Zero
    ELSE IF g.type = "Compressed" /\ e.kind = "lz4"
    THEN <<"lz4", g.section, e.physical, v - e.virtual>>
    ELSE CHOOSE x \in below : TRUE

\* What a storage holds, Below being what the one below it holds.
HeldBy(Below, g, e, v) ==
    MadeOf({Below[<<Held(g, e, v).in, p>>] : p \in Held(g, e, v).cells}, g, e, v)

Layered(Below, g, v) ==
    IF g.type \in {"Missing", "Regular", "AesCtrEx"} THEN Bare[<<g, v>>]
    ELSE HeldBy(Below, g, EntryAt(g.tree, v), v)

\* There are at most three layers: a sparse one, an indirect one over it, a compressed one over that.
SparseContent == [cell \in Storages \X Nat |-> Layered(Bare, cell[1], cell[2])]
IndirectContent == [cell \in Storages \X Nat |-> Layered(SparseContent, cell[1], cell[2])]
Content(g, v) == Layered(IndirectContent, g, v)

Contents(g, v, size) == [j \in 1..size |-> Content(g, v + j - 1)]

\* The compressed form of an LZ4 entry, and the cells it expands to.
Packed(g, e) == Contents(g.subs[1], Sections[g.section].hash + e.physical, e.size)
Unpacked(g, e, size) == [j \in 1..size |-> <<"lz4", g.section, e.physical, j - 1>>]

-----------------------------------------------------------------------------
(* Bucket trees: the search for an entry and the visitor (bktr.c).          *)

\* The binary search of bktrGetTreeNodeEntryIndex and of bktrStorageNodeFind.
SearchIndex(offsets, v) ==
    LET find[range \in (1..Len(offsets)) \X (0..Len(offsets))] ==
            LET low  == range[1]
                high == range[2]
                half == (low + high) \div 2
            IN IF low > high THEN 0
               ELSE IF offsets[half] > v THEN find[<<low, half - 1>>]
               ELSE IF half = Len(offsets) \/ offsets[half + 1] > v THEN half
               ELSE find[<<half + 1, high>>]
    IN find[<<1, Len(offsets)>>]

Virtuals(entries) == [i \in DOMAIN entries |-> entries[i].virtual]

\* bktrFindStorageEntry: the entry set from the offset node, then the entry.
FindEntry(tree, v) ==
    LET set == SearchIndex([i \in DOMAIN tree.sets |-> tree.sets[i][1].virtual], v)
    IN [set |-> set, entry |-> SearchIndex(Virtuals(tree.sets[set]), v)]

\* The visitor stops at the end of the entry set.
CanMoveInSet(tree, visitor) == visitor.entry < Len(tree.sets[visitor.set])

CanMoveNext(tree, visitor) ==
    visitor.entry < Len(tree.sets[visitor.set]) \/ visitor.set < Len(tree.sets)

MoveNext(tree, visitor) ==
    IF visitor.entry = Len(tree.sets[visitor.set])
    THEN [set |-> visitor.set + 1, entry |-> 1]
    ELSE [visitor EXCEPT !.entry = @ + 1]

\* bktrGet*StorageEntryExtents: the current entry, and where the next one starts.  Offsets are counted in
\* cells, of which an AES block is one: that a table's entries are aligned to it, which only a malformed
\* table's are not, is checked by the code and not here.
Extents(tree, visitor) ==
    [entry |-> Visited(tree, visitor),
     next  |-> IF CanMoveNext(tree, visitor) THEN Visited(tree, MoveNext(tree, visitor)).virtual
               ELSE tree.end]

BlockSize(extents, offset, accum) ==
    IF accum = 0 THEN extents.next - offset ELSE extents.next - extents.entry.virtual

\* The virtual offset handed down with a sparse read; 0 sets nothing.
WithVirtual(g, at, c) ==
    IF g.type = "Sparse" /\ at # 0 THEN [c EXCEPT !.virtual = at] ELSE c

\* Where an iteration of bktrRead{Indirect,Compressed}Storage reads from.
Source(g, e, n, at) ==
    LET held == at - e.virtual + e.physical
        base == Sections[g.section].hash
        from(sub, offset, size) == [sub |-> sub, offset |-> offset, size |-> size]
    IN CASE g.type = "Indirect"   -> from(g.subs[e.index + 1], held, n)
         [] g.type = "Sparse"     -> from(g.subs[1], held, IF e.index = 0 THEN n ELSE 0)
         [] g.type = "Compressed" ->
               from(g.subs[1], base + IF e.kind = "none" THEN held ELSE e.physical,
                    CASE e.kind = "none" -> n [] e.kind = "zero" -> 0 [] e.kind = "lz4" -> e.size)

\* The LZ4 block of an entry is read and expanded whole, then cut.
Cut(g, extents, n, at, packed) ==
    LET e == extents.entry IN
    IF packed = Packed(g, e)
    THEN SubSeq(Unpacked(g, e, extents.next - e.virtual),
                at - e.virtual + 1, at - e.virtual + n)
    ELSE <<>>

\* What a storage is asked for, and how its read goes on with the cipher contexts
Requests == [storage : Storages, size : Nat, offset : Nat, cipher : Ciphers]

Request(g, size, offset, c) == [storage |-> g, size |-> size, offset |-> offset, cipher |-> c]

\* One iteration of bktrRead{Indirect,AesCtrEx,Compressed}Storage, Below being the read of a
\* substorage.
ReadPiece(Below, g, extents, n, at, c) ==
    LET e == extents.entry
        source == Source(g, e, n, at)
        packed == g.type = "Compressed" /\ e.kind = "lz4"
    IN IF g.type = "AesCtrEx" THEN ReadAesCtrEx(g.section, n, at, e, c)
       ELSE IF source.size = 0 THEN Done([j \in 1..n |-> Zero], c)
       ELSE [Below[Request(source.sub, source.size, source.offset, WithVirtual(g, at, c))] EXCEPT
                !.data = IF packed THEN Cut(g, extents, n, at, @) ELSE @]

Appended(data, rest) == IF rest.ok THEN Done(data \o rest.data, rest.cipher) ELSE rest

\* The loop of bktrRead*Storage, from an entry on, when accum cells are read.  An entry that does not
\* reach the offset is a failure, and so is a piece that comes short.
ReadPieces(Below, g, size, offset, c) ==
    LET read[state \in Places(g.tree) \X (0..size) \X Ciphers] ==
            LET x     == Extents(g.tree, state[1])
                accum == state[2]
                n     == Min({size - accum, BlockSize(x, offset, accum)})
                GoOn(piece) ==
                    IF ~piece.ok \/ Len(piece.data) # n THEN Failed(piece.cipher)
                    ELSE IF accum + n = size THEN piece
                    ELSE Appended(piece.data,
                                  read[<<MoveNext(g.tree, state[1]), accum + n, piece.cipher>>])
            IN IF offset + accum \in x.entry.virtual..(x.next - 1)
               THEN GoOn(ReadPiece(Below, g, x, n, offset + accum, state[3]))
               ELSE Failed(state[3])
    IN read[<<FindEntry(g.tree, offset), 0, c>>]

ReadStorage(Below, g, size, offset, c) ==
    IF size = 0 \/ size > g.tree.end - offset THEN Failed(c)
    ELSE ReadPieces(Below, g, size, offset, c)

ReadBare ==
    [r \in Requests |->
        IF r.storage.type = "Missing" THEN Failed(r.cipher)
        ELSE ReadSection(r.storage.section, r.size, r.offset, r.cipher)]

\* bktrReadSubStorage, and ncaStorageRead for the outermost storage.
ReadLayered(Below, r) ==
    IF r.storage.type \in {"Missing", "Regular"} THEN ReadBare[r]
    ELSE ReadStorage(Below, r.storage, r.size, r.offset, r.cipher)

ReadSparse == [r \in Requests |-> ReadLayered(ReadBare, r)]
ReadIndirect == [r \in Requests |-> ReadLayered(ReadSparse, r)]
ReadSub(g, size, offset, c) == ReadLayered(ReadIndirect, Request(g, size, offset, c))

-----------------------------------------------------------------------------
(* bktrIsBlockWithinIndirectStorageRange: has the patch replaced a block?   *)

\* The loop over the entries that start inside the block.
MeetsPatchEntry(tree, visitor, end) ==
    LET meets[at \in Places(tree)] ==
            \/ Visited(tree, at).index = 1
            \/ /\ CanMoveNext(tree, at)
               /\ Visited(tree, MoveNext(tree, at)).virtual < end
               /\ meets[MoveNext(tree, at)]
    IN meets[visitor]

Told(updated) == [ok |-> TRUE, updated |-> updated]
Untold == [ok |-> FALSE, updated |-> FALSE]

IndirectRange(g, offset, size) ==
    IF size <= 0 \/ size > g.tree.end - offset THEN Untold
    ELSE Told(MeetsPatchEntry(g.tree, FindEntry(g.tree, offset), offset + size))

\* The part of a compressed entry the block covers, looked up in the indirect
\* storage at the distance it has in the virtual one.
EntryUpdated(g, x, offset, end) ==
    LET from == Max({offset, x.entry.virtual})
    IN IndirectRange(g.subs[1], Sections[g.section].hash + x.entry.physical + from - x.entry.virtual,
                     Min({end, x.next}) - from)

\* The loop over the entries of the block, until one is updated or fails.
MeetsPatchedData(g, visitor, offset, end) ==
    LET told[at \in Places(g.tree)] ==
            LET x       == Extents(g.tree, at)
                updated == EntryUpdated(g, x, offset, end)
            IN IF ~updated.ok \/ updated.updated \/ x.next >= end THEN updated
               ELSE told[MoveNext(g.tree, at)]
    IN told[visitor]

WithinPatch(g, offset, size) ==
    IF g.type = "Indirect" THEN IndirectRange(g, offset, size)
    ELSE IF size > g.tree.end - offset THEN Untold
    ELSE MeetsPatchedData(g, FindEntry(g.tree, offset), offset, offset + size)

\* The same question, from the cells the block is made of.
PatchedAt(g, v) ==
    IF g.type = "Indirect" THEN EntryAt(g.tree, v).index = 1
    ELSE LET e == EntryAt(g.tree, v)
             at(p) == EntryAt(g.subs[1].tree, Sections[g.section].hash + p).index = 1
         IN CASE e.kind = "none" -> at(v - e.virtual + e.physical)
              [] e.kind = "zero" -> FALSE
              [] e.kind = "lz4"  -> \E k \in 0..(e.size - 1) : at(e.physical + k)

-----------------------------------------------------------------------------
(* Opening and closing a storage context.                                   *)

\* The tables ncaStorageInitializeContext reads, in their order.  The one of a
\* sparse layer is not among them: it has a counter of its own.
Tables(s, base) ==
    LET sec == Sections[s]
    IN IF s = None THEN <<>> ELSE
       (IF sec.indirect = None THEN <<>>
        ELSE <<<<Regular(s), sec.ctrEx.table>>, <<Regular(s), sec.indirect.table>>>>)
       \o (IF sec.compressed = None \/ sec.sparse # None THEN <<>>
           ELSE <<<<UncompressedOf(s, base), sec.hash + sec.compressed.table>>>>)

\* The section the user selected keeps its context; the other one is a new one.
CipherWhenOpened ==
    [cipher EXCEPT !.generation = IF title.selected = "patch" THEN @ ELSE HeaderGeneration,
                   !.virtual    = IF title.selected = "base" THEN @ ELSE 0]

Unreadable == {{}} \cup {{s} : s \in {title.base, title.patch} \ {None}}

Answered(call, offset, size, bad, ok, data) ==
    answer' = [call |-> call, offset |-> offset, size |-> size, unreadable |-> bad,
               ok |-> ok, data |-> data]

NoAnswer == [call |-> "none", offset |-> 0, size |-> 0, unreadable |-> {},
             ok |-> TRUE, data |-> <<>>]

Init ==
    /\ title \in Titles
    /\ storage = None
    /\ tables = <<>>
    /\ cipher = [generation |-> HeaderGeneration, virtual |-> 0, unreadable |-> {}]
    /\ answer = NoAnswer

Default == StorageOf(IF title.patch # None THEN title.patch ELSE title.base, title.base)

\* ncaStorageInitializeContext, for the base and then for the patch.  The sparse
\* table comes first: without it no other one is read.
Open(bad) ==
    LET todo == Tables(title.base, None) \o Tables(title.patch, title.base)
        unread == title.base \in bad /\ Sections[title.base].sparse # None
    IN /\ storage = None
       /\ tables' = IF unread THEN <<>> ELSE todo
       /\ cipher' = [CipherWhenOpened EXCEPT !.unreadable = IF tables' = <<>> THEN {} ELSE bad]
       /\ storage' = IF todo = <<>> /\ ~unread THEN Default ELSE None
       /\ IF tables' = <<>> THEN Answered("open", 0, 0, bad, ~unread, <<>>) ELSE UNCHANGED answer
       /\ UNCHANGED title

\* A table that does not decipher is refused, and the context freed.
ReadTable ==
    LET g  == Head(tables)[1]
        at == Head(tables)[2]
    IN /\ tables # <<>>
       /\ \E r \in {ReadSub(g, Block, at, cipher)} :
          \E read \in {r.ok /\ r.data = Contents(g, at, Block)} :
             LET last == ~read \/ Tail(tables) = <<>>
             IN /\ tables' = IF last THEN <<>> ELSE Tail(tables)
                /\ storage' = IF read /\ last THEN Default ELSE None
                /\ cipher' = IF last THEN [r.cipher EXCEPT !.unreadable = {}] ELSE r.cipher
                /\ IF last THEN Answered("open", 0, 0, cipher.unreadable, read, <<>>)
                   ELSE UNCHANGED answer
       /\ UNCHANGED title

Read(offset, size, bad) ==
    \E r \in {ReadSub(storage, size, offset, [cipher EXCEPT !.unreadable = bad])} :
       /\ cipher' = [r.cipher EXCEPT !.unreadable = {}]
       /\ Answered("read", offset, size, bad, r.ok, r.data)
       /\ UNCHANGED <<title, storage, tables>>

\* romfsIsFileEntryUpdated, of a file of the RomFS of a patch: without a base
\* everything counts as updated.
Ask(offset, size) ==
    LET told == IF title.base = None THEN Told(TRUE) ELSE WithinPatch(storage, offset, size)
    IN /\ title.patch # None
       /\ Answered("ask", offset, size, {}, told.ok, told.updated)
       /\ UNCHANGED <<title, storage, tables, cipher>>

\* romfsFreeContext: the section contexts are kept
Close ==
    /\ storage # None
    /\ storage' = None
    /\ Answered("close", 0, 0, {}, TRUE, <<>>)
    /\ UNCHANGED <<title, tables, cipher>>

Use ==
    /\ storage # None
    /\ \E offset \in 0..(EndOf(storage) - 1) : \E size \in 1..(EndOf(storage) - offset) :
          (\E bad \in Unreadable : Read(offset, size, bad)) \/ Ask(offset, size)

\* The caller takes what the call returned.
Take ==
    /\ answer # NoAnswer
    /\ answer' = NoAnswer
    /\ UNCHANGED <<title, storage, tables, cipher>>

Call ==
    /\ answer = NoAnswer /\ tables = <<>>
    /\ (\E bad \in Unreadable : Open(bad)) \/ Use \/ Close

Next == Call \/ ReadTable \/ Take

Spec == Init /\ [][Next]_vars

-----------------------------------------------------------------------------

\* A read returns the cells the layers define at its offset and no others,
\* whatever was read, failed, opened or closed before it, and it only fails when
\* the title has nothing there or the content file could not be read (nca.c
\* 1138-1300 and 1334-1409, bktr.c 310-349 and 677-1205).
ReadIsTheContent ==
    answer.call = "read" =>
        \A held \in {Contents(storage, answer.offset, answer.size)} :
            /\ answer.ok => answer.data = held
            /\ answer.unreadable = {} => (answer.ok <=> \A j \in DOMAIN held : held[j] # Absent)

\* Wherever no LZ4 or zero entry is met, a block is reported as updated exactly
\* when the patch holds one of its cells (bktr.c 351-502): an extraction of the
\* updated files alone takes these and leaves the others.
PatchedIsTold ==
    answer.call = "ask" /\ title.base # None =>
        LET block == answer.offset..(answer.offset + answer.size - 1) IN
        (storage.type = "Compressed" => \A v \in block : EntryAt(storage.tree, v).kind = "none")
            => answer.ok /\ (answer.data <=> \E v \in block : PatchedAt(storage, v))

\* Opening a title succeeds whenever its content can be read (nca.h:514: "Reads
\* decrypted data from a NCA FS section using an input context").  It fails for a
\* patch opened twice: the first reads leave the generation of their last entry
\* in the counter the tables are deciphered with.
OpeningSucceeds ==
    answer.call = "open" /\ answer.unreadable = {} => answer.ok

\* The blocks of an LZ4 entry are reported like any other ones.  They are looked
\* up where their cells would be if the entry were not compressed.
PackedPatchIsTold ==
    answer.call = "ask" /\ title.base # None =>
        /\ answer.ok
        /\ answer.data <=> \E v \in answer.offset..(answer.offset + answer.size - 1) :
                              PatchedAt(storage, v)

=============================================================================
