----------------------------- MODULE NspDumpProofs -----------------------------
(***************************************************************************)
(* Proofs about NspDump, for every title, every choice of options and every *)
(* set of faults: type correctness; that no piece of a patch is left out;   *)
(* that a package reported as done agrees with itself; and that a dump that *)
(* fails or is cancelled leaves no package open.                            *)
(*                                                                          *)
(* The first sections derive what the recursive functions BlocksUpTo and    *)
(* CtxEntriesUpTo are, and from the latter where each entry of the package  *)
(* is.  The invariant then follows the dump: NCAs not begun, the one being  *)
(* sent block by block, those finished, and the entries after them, which   *)
(* are sent in the order of the layout.                                     *)
(***************************************************************************)
EXTENDS NspDump, TLAPS, WellFoundedInduction, FiniteSetTheorems

-----------------------------------------------------------------------------
\* The inductive invariant

Starting == tpc \in {"start", "context", "announce"}
InBlocks == tpc \in {"nextBlock", "block", "finishNca"}
InNcas == tpc = "startNca" \/ InBlocks
InEntries == tpc \in {"cnmtXml", "ctxData", "ticket", "cert", "header"}

\* Whether an NCA has a context patch: that of the meta NCA is generated from the records.
Patched(i) == IF i = Meta THEN metaRecords # <<>>
              ELSE i \in ctx /\ Type[i] = "control" /\ opts.patchNacp

\* All blocks of a piece are before block k.
Before(pieces, k) == \A p \in pieces : p < k

\* An NCA as it has to be sent, and its first n blocks
Block(i, k) ==
  [nca |-> i, at |-> k, header |-> i \in dirty /\ k \in HeaderBlocks[i],
   patch |-> k \in PatchBlocks[i] /\ Patched(i),
   records |-> IF i = Meta /\ k \in PatchBlocks[i] /\ Patched(i) THEN metaRecords ELSE <<>>]
Sending(i, n) == [k \in 1..n |-> Block(i, k)]

\* Nothing was sent of an NCA: its ID and its record are those of what it held.
Fresh(i) == /\ sent[i] = <<>> /\ contentId[i] = Clean(i)
            /\ i \in Contents => records[i] = Clean(i) /\ (i \in patch <=> Patched(i))
            /\ i = Meta => i \notin patch /\ i \notin dirty /\ metaRecords = <<>>

\* An NCA was sent whole, and its ID and record are those of what was sent.
Finished(i) == /\ sent[i] = Sending(i, Blocks[i]) /\ contentId[i] = sent[i]
               /\ i \in Contents => records[i] = sent[i]

\* The flags of the NCA being sent say which pieces are still to come.
FlagsOK(i) ==
  /\ headerWritten <=> i \in dirty /\ Before(HeaderBlocks[i], block)
  /\ i \in patch <=> Patched(i) /\ ~Before(PatchBlocks[i], block)
  /\ dirtyHeader <=> /\ i \in dirty
                     /\ \/ ~Before(HeaderBlocks[i], block)
                        \/ Patched(i) /\ ~Before(PatchBlocks[i], block)

\* The first blocks of an NCA were sent.
Underway(i) == /\ sent[i] = Sending(i, block - 1) /\ contentId[i] = Clean(i) /\ FlagsOK(i)
               /\ i \in Contents => records[i] = Clean(i)
               /\ tpc = "block" => block <= Blocks[i]
               /\ tpc = "finishNca" => block = Blocks[i] + 1

\* The meta NCA is patched with the records of what was sent, or nothing has changed.
MetaOK == IF metaRecords = <<>> THEN \A i \in Contents : sent[i] = Clean(i)
          ELSE \A i \in Contents : metaRecords[i] = sent[i]

\* The NCAs, while they are sent one after the other
NcasOK ==
  /\ Patched(Meta) => Meta \in dirty
  /\ \A i \in Contents : Patched(i) => i \in dirty
  /\ DOMAIN sent = Ncas /\ DOMAIN contentId = Ncas /\ DOMAIN records = Contents
  /\ Starting => \A i \in Ncas : Fresh(i)
  /\ InNcas => /\ \A i \in 1..(nca - 1) : Finished(i)
               /\ \A i \in (nca + 1)..N : Fresh(i)
  /\ tpc = "startNca" => Fresh(nca)
  /\ InBlocks => Underway(nca)
  /\ InEntries \/ success => \A i \in Ncas : Finished(i)
  /\ (InBlocks /\ nca = Meta) \/ InEntries \/ success => MetaOK

\* The number of entries of the contexts of the first i NCAs
CtxCount(i) == Len(CtxEntriesUpTo(ctx)[i])

\* The entry that is sent next
TicketAt == N + 1 + (IF opts.authoring THEN 1 + CtxCount(N - 1) ELSE 0)
Position == CASE tpc = "cnmtXml" -> N + 1
              [] tpc = "ctxData" -> N + 2 + CtxCount(nca - 1) + icon
              [] tpc = "ticket" -> TicketAt
              [] tpc = "cert" -> TicketAt + 1
              [] OTHER -> Len(Layout) + 1

\* Every entry has a name, and an NCA that of its content ID.
NamesOK == DOMAIN names = DOMAIN Layout /\ \A i \in Ncas : names[i] = contentId[i]

\* An entry was sent, and has the name of its NCA.
EntryOK(k) ==
  /\ k \in DOMAIN stored
  /\ Layout[k].nca # 0 => names[k] = sent[Layout[k].nca]
  /\ Layout[k].kind # "cnmt" => stored[k] = Layout[k]
  /\ Layout[k].kind = "cnmt" => \A i \in Ncas : stored[k][i][1] = sent[i]

\* The entries, which are sent in the order of the layout
EntriesOK ==
  /\ tpc = "announce" \/ InNcas \/ InEntries \/ success => NamesOK
  /\ tpc \in {"cnmtXml", "ctxData"} => opts.authoring
  /\ tpc \in {"announce", "cnmtXml"} => nca = 1
  /\ tpc = "cert" => TicketKept
  /\ Starting \/ InNcas \/ tpc = "cnmtXml" => icon = 0
  /\ tpc = "ctxData" => icon <= (IF nca \in ctx THEN Len(IconEntries(nca)) ELSE 0)
  /\ InEntries \/ success => \A k \in (N + 1)..(Position - 1) : EntryOK(k)
  /\ success => header = names

\* What is counted is what was sent.
CountOK ==
  /\ Starting => written = 0 /\ total = 0
  /\ total # 0 => total = NspSize
  /\ InNcas \/ InEntries \/ success => total = NspSize
  /\ tpc = "startNca" => written = BlocksUpTo[nca - 1]
  /\ InBlocks => written = BlocksUpTo[nca - 1] + block - 1
  /\ InEntries => written = BlocksUpTo[N] + Position - N - 1
  /\ success => written = total

\* The package is open as long as it is written, and closed only by a success; who sees the end of the
\* thread sees a verdict.
PackageOK ==
  /\ Starting => package = "none"
  /\ InNcas \/ InEntries => package = "open"
  /\ package = "closed" <=> success
  /\ success => tpc \in {"end", "clean", "none"}
  /\ tpc = "none" => package # "open"
  /\ tpc = "clean" => success \/ error \/ cancelled
  /\ tpc = "none" => success \/ error \/ cancelled \/ (mpc = "wait" /\ total = 0)
  /\ mpc = "done" <=> result # "running"
  /\ mpc = "done" => tpc = "none"
  /\ result = "success" => success

IInv == TypeOK /\ NcasOK /\ EntriesOK /\ CountOK /\ PackageOK

-----------------------------------------------------------------------------
\* What BlocksUpTo and CtxEntriesUpTo are

\* Every non-empty set of natural numbers has a least element: 0..m is a minimal element of the
\* intervals 0..n.
LEMMA LeastElement ==
  ASSUME NEW T, T \subseteq Nat, T # {}
  PROVE  \E m \in T : \A k \in T : m <= k
<1> DEFINE Below(n) == 0..n
           R == StrictSubsetOrdering(Nat)
           B == {Below(n) : n \in T}
<1>1. IsWellFoundedOn(R, FiniteSubsetsOf(Nat))
  BY FS_StrictSubsetOrderingWellFounded
<1>2. \A n \in T : IsFiniteSet(Below(n)) /\ Below(n) \in SUBSET Nat
  BY FS_Interval
<1>3. B \subseteq FiniteSubsetsOf(Nat) /\ B # {}
  BY <1>2 DEF FiniteSubsetsOf
<1>4. PICK x \in B : \A y \in B : ~ (<<y, x>> \in R)
  <2> HIDE DEF R, B
  <2> QED BY <1>1, <1>3, WFMin
<1>5. PICK m \in T : x = Below(m)
  OBVIOUS
<1>6. ASSUME NEW k \in T, k < m
      PROVE  FALSE
  <2>1. Below(k) \subseteq Below(m) /\ Below(k) \in SUBSET Nat /\ Below(m) \in SUBSET Nat
    BY <1>6
  <2>2. m \in Below(m) /\ m \notin Below(k)
    BY <1>6
  <2>3. <<Below(k), Below(m)>> \in R
    <3> HIDE DEF Below
    <3> QED BY <2>1, <2>2 DEF StrictSubsetOrdering
  <2> QED BY <2>3, <1>4, <1>5
<1> QED BY <1>6

\* The title: at least the meta NCA, and blocks to each NCA.
LEMMA LengthIsPositive == N \in Nat /\ N > 0
<1>1. /\ N > 0 /\ Type \in Seq(Generating \cup {"data", "meta"})
  BY NspAssumption
<1> DEFINE S == Generating \cup {"data", "meta"}
<1> HIDE DEF S
<1> QED BY <1>1 DEF N, S

LEMMA TitleFacts == /\ N \in Nat \ {0} /\ Meta = N /\ Ncas = 1..N /\ Contents = 1..(N - 1)
                    /\ \A i \in Ncas : Blocks[i] \in Nat \ {0} /\ Icons[i] \in Nat
<1>1. Meta = N /\ Ncas = 1..N /\ Contents = 1..(N - 1)
  BY DEF Meta, Ncas, Contents
<1>2. \A i \in Ncas : Blocks[i] \in Nat \ {0} /\ Icons[i] \in Nat
  BY NspAssumption
<1> QED BY <1>1, <1>2, LengthIsPositive

\* The partial sums of the blocks of the first n NCAs
SumsTo(n, sum) == /\ sum \in [0..n -> Nat]
                  /\ \A i \in 0..n : sum[i] = IF i = 0 THEN 0 ELSE sum[i - 1] + Blocks[i]

\* The partial sums exist, up to any NCA: those of one NCA less can be extended.
LEMMA SumsExist == \A n \in 0..N : \E sum : SumsTo(n, sum)
<1> DEFINE Bad == {n \in Nat : n <= N /\ ~ \E sum : SumsTo(n, sum)}
<1> SUFFICES ASSUME Bad # {} PROVE FALSE
  BY LengthIsPositive
<1>1. PICK n \in Bad : \A k \in Bad : n <= k
  <2>1. Bad \subseteq Nat
    OBVIOUS
  <2> HIDE DEF Bad
  <2> QED BY <2>1, LeastElement
<1>2. n # 0
  <2>1. SumsTo(0, [i \in {0} |-> 0])
    BY DEF SumsTo
  <2> QED BY <2>1
<1>3. PICK sum : SumsTo(n - 1, sum)
  BY <1>1, <1>2, TitleFacts
<1> DEFINE longer == [i \in 0..n |-> IF i = n THEN sum[n - 1] + Blocks[n] ELSE sum[i]]
<1>4. SumsTo(n, longer)
  <2>1. n \in Nat \ {0} /\ n - 1 \in Nat /\ Blocks[n] \in Nat
    BY <1>1, <1>2, TitleFacts
  <2>2. longer \in [0..n -> Nat]
    BY <1>3, <2>1 DEF SumsTo
  <2>3. ASSUME NEW i \in 0..n
        PROVE  longer[i] = IF i = 0 THEN 0 ELSE longer[i - 1] + Blocks[i]
    <3>1. CASE i = n
      BY <2>1, <3>1
    <3>2. CASE i # n
      <4>1. i \in 0..(n - 1) /\ (i # 0 => i - 1 \in 0..(n - 1))
        BY <2>1, <3>2
      <4>2. sum[i] = IF i = 0 THEN 0 ELSE sum[i - 1] + Blocks[i]
        BY <1>3, <4>1 DEF SumsTo
      <4>3. longer[i] = sum[i] /\ (i # 0 => longer[i - 1] = sum[i - 1])
        BY <2>1, <4>1
      <4> QED BY <4>2, <4>3
    <3> QED BY <3>1, <3>2
  <2> QED BY <2>2, <2>3 DEF SumsTo
<1> QED BY <1>1, <1>4

\* BlocksUpTo satisfies its own definition, and its values are natural numbers.
LEMMA BlocksUpToDef ==
  \A i \in 0..N : /\ BlocksUpTo[i] = IF i = 0 THEN 0 ELSE BlocksUpTo[i - 1] + Blocks[i]
                  /\ BlocksUpTo[i] \in Nat
<1>1. PICK sum : SumsTo(N, sum)
  BY TitleFacts, SumsExist
<1>2. sum = [i \in 0..N |-> IF i = 0 THEN 0 ELSE sum[i - 1] + Blocks[i]]
  BY <1>1 DEF SumsTo
<1>3. BlocksUpTo = [i \in 0..N |-> IF i = 0 THEN 0 ELSE BlocksUpTo[i - 1] + Blocks[i]]
  BY <1>2 DEF BlocksUpTo
<1>4. \A i \in 0..N : BlocksUpTo[i] = IF i = 0 THEN 0 ELSE BlocksUpTo[i - 1] + Blocks[i]
  <2> HIDE DEF BlocksUpTo
  <2> QED BY ONLY <1>3
<1>5. \A i \in 0..N : BlocksUpTo[i] \in Nat
  <2> DEFINE Bad == {n \in Nat : n <= N /\ BlocksUpTo[n] \notin Nat}
  <2> SUFFICES ASSUME Bad # {} PROVE FALSE
    BY LengthIsPositive
  <2>1. Bad \subseteq Nat
    OBVIOUS
  <2>2. PICK n \in Bad : \A k \in Bad : n <= k
    <3> HIDE DEF Bad
    <3> QED BY <2>1, LeastElement
  <2>3. CASE n = 0
    BY TitleFacts, <1>4, <2>2, <2>3
  <2>4. CASE n # 0
    <3>1. BlocksUpTo[n - 1] \in Nat
      BY TitleFacts, <2>2, <2>4
    <3>2. n \in 0..N /\ Blocks[n] \in Nat
      BY TitleFacts, <2>2, <2>4
    <3>3. BlocksUpTo[n] = BlocksUpTo[n - 1] + Blocks[n]
      BY <1>4, <2>4, <3>2
    <3> QED BY <2>2, <3>1, <3>2, <3>3
  <2> QED BY <2>3, <2>4
<1> QED BY <1>4, <1>5

\* The entries of one context: icons, then the XML, all of one NCA
EntriesOf(i) == [kind : {"icon", "xml"}, nca : {i}]
LEMMA CtxEntriesFacts ==
  ASSUME NEW c, NEW i \in Contents
  PROVE  /\ IconEntries(i) \in Seq(EntriesOf(i)) /\ CtxEntries(i, c) \in Seq(EntriesOf(i))
         /\ Len(CtxEntries(i, c)) = IF i \in c THEN Len(IconEntries(i)) + 1 ELSE 0
         /\ Len(IconEntries(i)) \in Nat
         /\ i \in c => /\ \A j \in 1..Len(IconEntries(i)) : CtxEntries(i, c)[j] = Entry("icon", i)
                       /\ CtxEntries(i, c)[Len(IconEntries(i)) + 1] = Entry("xml", i)
<1>1. Icons[i] \in Nat
  BY TitleFacts
<1>2. /\ IconEntries(i) \in Seq(EntriesOf(i)) /\ Len(IconEntries(i)) \in Nat
      /\ \A j \in 1..Len(IconEntries(i)) : IconEntries(i)[j] = Entry("icon", i)
  <2>1. CASE Type[i] = "control"
    <3>1. IconEntries(i) = [j \in 1..Icons[i] |-> Entry("icon", i)]
      BY <2>1 DEF IconEntries
    <3>2. Entry("icon", i) \in EntriesOf(i)
      BY DEF Entry, EntriesOf
    <3> QED BY <1>1, <3>1, <3>2
  <2>2. CASE Type[i] # "control"
    BY <2>2 DEF IconEntries
  <2> QED BY <2>1, <2>2
<1>3. Entry("xml", i) \in EntriesOf(i)
  BY DEF Entry, EntriesOf
<1> DEFINE icons == IconEntries(i)
           xml == Entry("xml", i)
<1>4. CASE i \in c
  <2>1. CtxEntries(i, c) = Append(icons, xml)
    BY <1>4 DEF CtxEntries
  <2> HIDE DEF icons, xml
  <2> QED BY <1>2, <1>3, <1>4, <2>1 DEF icons, xml
<1>5. CASE i \notin c
  BY <1>2, <1>5 DEF CtxEntries
<1> QED BY <1>4, <1>5

\* The context entries of the first NCAs, up to the n-th: all are of those NCAs.
EntriesOfFirst(n) == [kind : {"icon", "xml"}, nca : 1..n]
EntriesTo(c, n, es) == /\ DOMAIN es = 0..n
                       /\ \A i \in 0..n : es[i] = IF i = 0 THEN <<>> ELSE es[i - 1] \o CtxEntries(i, c)

\* They exist, as the sums do.
LEMMA EntriesExist == ASSUME NEW c PROVE \A n \in 0..(N - 1) : \E es : EntriesTo(c, n, es)
<1> DEFINE Bad == {n \in Nat : n <= N - 1 /\ ~ \E es : EntriesTo(c, n, es)}
<1> SUFFICES ASSUME Bad # {} PROVE FALSE
  BY LengthIsPositive
<1>1. PICK n \in Bad : \A k \in Bad : n <= k
  <2>1. Bad \subseteq Nat
    OBVIOUS
  <2> HIDE DEF Bad
  <2> QED BY <2>1, LeastElement
<1>2. n # 0
  <2>1. EntriesTo(c, 0, [i \in {0} |-> <<>>])
    BY DEF EntriesTo
  <2> QED BY <2>1
<1>3. PICK es : EntriesTo(c, n - 1, es)
  BY <1>1, <1>2, LengthIsPositive
<1> DEFINE longer == [i \in 0..n |-> IF i = n THEN es[n - 1] \o CtxEntries(n, c) ELSE es[i]]
<1>4. EntriesTo(c, n, longer)
  <2>1. n \in Nat \ {0} /\ n - 1 \in Nat
    BY <1>1, <1>2, LengthIsPositive
  <2>2. DOMAIN longer = 0..n
    OBVIOUS
  <2>3. ASSUME NEW i \in 0..n
        PROVE  longer[i] = IF i = 0 THEN <<>> ELSE longer[i - 1] \o CtxEntries(i, c)
    <3>1. CASE i = n
      BY <2>1, <3>1
    <3>2. CASE i # n
      <4>1. i \in 0..(n - 1) /\ (i # 0 => i - 1 \in 0..(n - 1))
        BY <2>1, <3>2
      <4>2. es[i] = IF i = 0 THEN <<>> ELSE es[i - 1] \o CtxEntries(i, c)
        BY <1>3, <4>1 DEF EntriesTo
      <4>3. longer[i] = es[i] /\ (i # 0 => longer[i - 1] = es[i - 1])
        BY <2>1, <4>1
      <4> QED BY <4>2, <4>3
    <3> QED BY <3>1, <3>2
  <2> QED BY <2>2, <2>3 DEF EntriesTo
<1> QED BY <1>1, <1>4

\* CtxEntriesUpTo satisfies its own definition.
LEMMA CtxEntriesUpToDef ==
  ASSUME NEW c
  PROVE  \A i \in 0..(N - 1) :
           CtxEntriesUpTo(c)[i] = IF i = 0 THEN <<>> ELSE CtxEntriesUpTo(c)[i - 1] \o CtxEntries(i, c)
<1>1. PICK es : EntriesTo(c, N - 1, es)
  BY LengthIsPositive, EntriesExist
<1> DEFINE all == [i \in 0..(N - 1) |-> es[i]]
<1>2. all = [i \in 0..(N - 1) |-> IF i = 0 THEN <<>> ELSE all[i - 1] \o CtxEntries(i, c)]
  <2>1. \A i \in 0..(N - 1) : all[i] = IF i = 0 THEN <<>> ELSE all[i - 1] \o CtxEntries(i, c)
    <3> SUFFICES ASSUME NEW i \in 0..(N - 1)
                 PROVE  all[i] = IF i = 0 THEN <<>> ELSE all[i - 1] \o CtxEntries(i, c)
      OBVIOUS
    <3>1. all[i] = es[i] /\ (i # 0 => all[i - 1] = es[i - 1])
      BY LengthIsPositive
    <3> QED BY <1>1, <3>1 DEF EntriesTo
  <2> HIDE DEF all
  <2>2. DOMAIN all = 0..(N - 1)
    BY DEF all
  <2>3. all = [i \in 0..(N - 1) |-> all[i]]
    BY DEF all
  <2> QED BY <2>1, <2>2, <2>3
<1> DEFINE up == CtxEntriesUpTo(c)
<1>3. up = [i \in 0..(N - 1) |-> IF i = 0 THEN <<>> ELSE up[i - 1] \o CtxEntries(i, c)]
  <2> HIDE DEF all
  <2> QED BY <1>2 DEF CtxEntriesUpTo
<1> HIDE DEF up
<1>4. \A i \in 0..(N - 1) : up[i] = IF i = 0 THEN <<>> ELSE up[i - 1] \o CtxEntries(i, c)
  BY ONLY <1>3
<1> QED BY <1>4 DEF up

LEMMA CtxEntriesUpToStep ==
  ASSUME NEW c
  PROVE  /\ CtxEntriesUpTo(c)[0] = <<>>
         /\ \A i \in 1..(N - 1) : CtxEntriesUpTo(c)[i] = CtxEntriesUpTo(c)[i - 1] \o CtxEntries(i, c)
<1>1. 0 \in 0..(N - 1) /\ \A i \in 1..(N - 1) : i \in 0..(N - 1) /\ i # 0
  BY LengthIsPositive
<1> DEFINE up == CtxEntriesUpTo(c)
<1>2. \A i \in 0..(N - 1) : up[i] = IF i = 0 THEN <<>> ELSE up[i - 1] \o CtxEntries(i, c)
  BY CtxEntriesUpToDef
<1> HIDE DEF up
<1>3. up[0] = <<>>
  BY <1>1, <1>2
<1>4. ASSUME NEW i \in 1..(N - 1) PROVE up[i] = up[i - 1] \o CtxEntries(i, c)
  <2>1. i \in 0..(N - 1) /\ i # 0
    BY <1>1
  <2> QED BY <1>2, <2>1, ZenonT(30)
<1> QED BY <1>3, <1>4 DEF up

\* They are sequences of entries of the contexts of contents.
LEMMA CtxEntriesType ==
  ASSUME NEW c
  PROVE  \A i \in 0..(N - 1) : CtxEntriesUpTo(c)[i] \in Seq(EntriesOfFirst(i))
<1> DEFINE up == CtxEntriesUpTo(c)
           Bad == {n \in Nat : n <= N - 1 /\ up[n] \notin Seq(EntriesOfFirst(n))}
<1> HIDE DEF up
<1> SUFFICES ASSUME Bad # {} PROVE FALSE
  BY LengthIsPositive DEF up
<1>1. Bad \subseteq Nat
  OBVIOUS
<1>2. PICK n \in Bad : \A k \in Bad : n <= k
  <2> HIDE DEF Bad
  <2> QED BY <1>1, LeastElement
<1>3. up[0] = <<>> /\ \A i \in 1..(N - 1) : up[i] = up[i - 1] \o CtxEntries(i, c)
  BY CtxEntriesUpToStep DEF up
<1>4. CASE n = 0
  <2> DEFINE S == EntriesOfFirst(n)
  <2> HIDE DEF S
  <2>1. up[n] = <<>>
    BY <1>3, <1>4
  <2>2. up[n] \in Seq(S)
    BY <2>1
  <2> QED BY <1>2, <2>2 DEF S
<1>5. CASE n # 0
  <2>1. n \in 1..(N - 1) /\ n - 1 \in Nat /\ n \in Contents
    BY <1>2, <1>5, TitleFacts
  <2>2. up[n - 1] \in Seq(EntriesOfFirst(n - 1))
    <3>1. n - 1 \notin Bad
      <4> HIDE DEF Bad
      <4> QED BY <1>2, <2>1
    <3> QED BY <2>1, <3>1, LengthIsPositive
  <2>3. EntriesOfFirst(n - 1) \subseteq EntriesOfFirst(n) /\ EntriesOf(n) \subseteq EntriesOfFirst(n)
    BY <2>1 DEF EntriesOf, EntriesOfFirst
  <2>4. CtxEntries(n, c) \in Seq(EntriesOf(n))
    BY <2>1, CtxEntriesFacts
  <2> DEFINE S == EntriesOfFirst(n)
             S1 == EntriesOfFirst(n - 1)
             S2 == EntriesOf(n)
             e == CtxEntries(n, c)
  <2>5. up[n] = up[n - 1] \o e
    BY <1>3, <2>1, Zenon
  <2> HIDE DEF S, S1, S2, e
  <2>6. up[n - 1] \in Seq(S) /\ e \in Seq(S)
    BY <2>2, <2>3, <2>4 DEF S, S1, S2, e
  <2>7. up[n] \in Seq(S)
    BY <2>5, <2>6
  <2> QED BY <1>2, <2>7 DEF S
<1> QED BY <1>4, <1>5

\* The entries of the first NCAs begin those of more NCAs.
LEMMA CtxEntriesPrefix ==
  ASSUME NEW c, NEW m \in 0..(N - 1)
  PROVE  \A i \in 0..m : /\ Len(CtxEntriesUpTo(c)[i]) <= Len(CtxEntriesUpTo(c)[m])
                         /\ \A k \in 1..Len(CtxEntriesUpTo(c)[i]) :
                              CtxEntriesUpTo(c)[m][k] = CtxEntriesUpTo(c)[i][k]
<1> DEFINE up == CtxEntriesUpTo(c)
           Begins(i) == /\ Len(up[i]) <= Len(up[m])
                        /\ \A k \in 1..Len(up[i]) : up[m][k] = up[i][k]
           Bad == {n \in Nat : n <= m /\ ~Begins(m - n)}
<1> HIDE DEF up
<1> SUFFICES ASSUME Bad # {} PROVE FALSE
  <2> SUFFICES ASSUME NEW i \in 0..m PROVE Begins(i)
    BY DEF up
  <2>1. m - i \in Nat /\ m - i <= m /\ m - (m - i) = i
    BY LengthIsPositive
  <2> HIDE DEF Begins
  <2> QED BY <2>1
<1>1. Bad \subseteq Nat
  OBVIOUS
<1>2. PICK n \in Bad : \A k \in Bad : n <= k
  <2> HIDE DEF Bad
  <2> QED BY <1>1, LeastElement
<1>3. n \in 0..m /\ ~Begins(m - n) /\ m \in Nat
  BY <1>2, LengthIsPositive
<1>4. \A i \in 1..(N - 1) : up[i] = up[i - 1] \o CtxEntries(i, c)
  BY CtxEntriesUpToStep DEF up
<1>5. \A i \in 0..(N - 1) : Len(up[i]) \in Nat
  BY CtxEntriesType DEF up
<1>6. n # 0
  BY <1>3, <1>5, LengthIsPositive
<1> DEFINE j == m - n + 1
<1>7. Begins(j)
  <2>1. n - 1 \in Nat /\ n - 1 <= m /\ m - (n - 1) = j /\ ~(n <= n - 1)
    BY <1>3, <1>6
  <2>2. n - 1 \notin Bad
    <3> HIDE DEF Bad
    <3> QED BY <1>2, <2>1
  <2> HIDE DEF Begins, j
  <2> QED BY <2>1, <2>2
<1>8. j \in 1..(N - 1) /\ j \in Contents /\ j - 1 = m - n
  BY <1>3, <1>6, TitleFacts
<1> HIDE DEF j
<1> DEFINE e == CtxEntries(j, c)
           s == up[j - 1]
<1>9. up[j] = s \o e
  BY <1>4, <1>8, Zenon
<1>10. s \in Seq(EntriesOfFirst(j - 1)) /\ e \in Seq(EntriesOf(j))
  BY <1>8, CtxEntriesType, CtxEntriesFacts, LengthIsPositive DEF up
<1> DEFINE S == EntriesOfFirst(j - 1) \cup EntriesOf(j)
<1>11. s \in Seq(S) /\ e \in Seq(S)
  <2> HIDE DEF s, e
  <2> QED BY <1>10
<1> HIDE DEF s, e, S
<1>12. Len(s) <= Len(up[j]) /\ \A k \in 1..Len(s) : up[j][k] = s[k]
  BY <1>9, <1>11
<1>13. Len(s) \in Nat /\ Len(up[j]) \in Nat /\ Len(up[m]) \in Nat
  BY <1>5, <1>8, <1>11, LengthIsPositive
<1> QED BY <1>3, <1>7, <1>8, <1>12, <1>13 DEF s

-----------------------------------------------------------------------------
\* Where each entry of the package is

LEMMA ConcatFacts ==
  ASSUME NEW S, NEW a \in Seq(S), NEW b \in Seq(S)
  PROVE  /\ a \o b \in Seq(S) /\ Len(a \o b) = Len(a) + Len(b)
         /\ Len(a) \in Nat /\ Len(b) \in Nat
         /\ \A k \in 1..Len(a) : (a \o b)[k] = a[k]
         /\ \A k \in 1..Len(b) : (a \o b)[Len(a) + k] = b[k]
OBVIOUS

\* The parts of the layout: NCAs, the CNMT XML and the contexts' entries, ticket and certificates
NcaPart == [i \in Ncas |-> Entry("nca", i)]
XmlPart == IF opts.authoring THEN <<Entry("cnmt", Meta)>> \o CtxEntriesUpTo(ctx)[N - 1] ELSE <<>>
TicketPart == IF TicketKept THEN <<Entry("tik", 0), Entry("cert", 0)>> ELSE <<>>
AnyEntry == [kind : {"nca", "cnmt", "icon", "xml", "tik", "cert"}, nca : 0..N]

LEMMA NcaPartFacts == NcaPart \in Seq(AnyEntry) /\ Len(NcaPart) = N
<1>1. \A i \in 1..N : Entry("nca", i) \in AnyEntry
  BY LengthIsPositive DEF Entry, AnyEntry
<1>2. NcaPart = [i \in 1..N |-> Entry("nca", i)]
  BY TitleFacts DEF NcaPart
<1> QED BY <1>1, <1>2, LengthIsPositive

LEMMA XmlPartFacts ==
  /\ XmlPart \in Seq(AnyEntry) /\ CtxCount(N - 1) \in Nat
  /\ Len(XmlPart) = IF opts.authoring THEN 1 + CtxCount(N - 1) ELSE 0
  /\ opts.authoring => /\ XmlPart[1] = Entry("cnmt", Meta)
                       /\ \A k \in 1..CtxCount(N - 1) : XmlPart[1 + k] = CtxEntriesUpTo(ctx)[N - 1][k]
<1> DEFINE e == CtxEntriesUpTo(ctx)[N - 1]
           first == Entry("cnmt", Meta)
<1>1. N - 1 \in 0..(N - 1)
  BY LengthIsPositive
<1>2. e \in Seq(AnyEntry)
  <2>1. EntriesOfFirst(N - 1) \subseteq AnyEntry
    BY LengthIsPositive DEF EntriesOfFirst, AnyEntry
  <2>2. e \in Seq(EntriesOfFirst(N - 1))
    BY <1>1, CtxEntriesType
  <2> HIDE DEF e
  <2> QED BY <2>1, <2>2
<1>3. first \in AnyEntry
  BY TitleFacts DEF Entry, AnyEntry
<1>4. CtxCount(N - 1) = Len(e)
  BY DEF CtxCount
<1>5. XmlPart = IF opts.authoring THEN <<first>> \o e ELSE <<>>
  BY DEF XmlPart
<1> HIDE DEF e, first
<1>6. Len(e) \in Nat
  BY <1>2
<1>7. CASE opts.authoring
  <2>1. XmlPart = <<first>> \o e
    BY <1>5, <1>7
  <2>2. XmlPart \in Seq(AnyEntry) /\ Len(XmlPart) = 1 + Len(e) /\ XmlPart[1] = first
    BY <1>2, <1>3, <2>1
  <2>3. \A k \in 1..Len(e) : XmlPart[1 + k] = e[k]
    BY <1>2, <1>3, <2>1
  <2> QED BY <1>4, <1>6, <1>7, <2>2, <2>3 DEF e, first
<1>8. CASE ~opts.authoring
  <2>1. XmlPart = <<>>
    BY <1>5, <1>8
  <2> QED BY <1>4, <1>6, <1>8, <2>1
<1> QED BY <1>7, <1>8

LEMMA TicketPartFacts ==
  /\ TicketPart \in Seq(AnyEntry) /\ Len(TicketPart) = IF TicketKept THEN 2 ELSE 0
  /\ TicketKept => TicketPart[1] = Entry("tik", 0) /\ TicketPart[2] = Entry("cert", 0)
<1>1. Entry("tik", 0) \in AnyEntry /\ Entry("cert", 0) \in AnyEntry
  BY LengthIsPositive DEF Entry, AnyEntry
<1>2. CASE TicketKept
  BY <1>1, <1>2 DEF TicketPart
<1>3. CASE ~TicketKept
  BY <1>3 DEF TicketPart
<1> QED BY <1>2, <1>3

\* The layout, entry by entry
LEMMA LayoutFacts ==
  /\ TicketAt \in Nat /\ N < TicketAt /\ Len(Layout) \in Nat /\ DOMAIN Layout = 1..Len(Layout)
  /\ Len(Layout) = TicketAt - 1 + (IF TicketKept THEN 2 ELSE 0)
  /\ \A i \in Ncas : Layout[i] = Entry("nca", i)
  /\ opts.authoring => /\ Layout[N + 1] = Entry("cnmt", Meta)
                       /\ \A k \in 1..CtxCount(N - 1) :
                            Layout[N + 1 + k] = CtxEntriesUpTo(ctx)[N - 1][k]
  /\ TicketKept => Layout[TicketAt] = Entry("tik", 0) /\ Layout[TicketAt + 1] = Entry("cert", 0)
<1> DEFINE two == NcaPart \o XmlPart
<1>1. Layout = two \o TicketPart
  BY DEF Layout, NcaPart, XmlPart, TicketPart
<1>2. /\ two \in Seq(AnyEntry) /\ Len(two) = Len(NcaPart) + Len(XmlPart)
      /\ \A k \in 1..Len(NcaPart) : two[k] = NcaPart[k]
      /\ \A k \in 1..Len(XmlPart) : two[Len(NcaPart) + k] = XmlPart[k]
      /\ Len(NcaPart) \in Nat /\ Len(XmlPart) \in Nat
  <2>1. NcaPart \in Seq(AnyEntry) /\ XmlPart \in Seq(AnyEntry)
    BY NcaPartFacts, XmlPartFacts
  <2> QED BY ONLY <2>1, ConcatFacts
<1> HIDE DEF two
<1>3. /\ Layout \in Seq(AnyEntry) /\ Len(Layout) = Len(two) + Len(TicketPart)
      /\ \A k \in 1..Len(two) : Layout[k] = two[k]
      /\ \A k \in 1..Len(TicketPart) : Layout[Len(two) + k] = TicketPart[k]
  <2>1. two \in Seq(AnyEntry) /\ TicketPart \in Seq(AnyEntry)
    BY <1>2, TicketPartFacts
  <2>2. /\ two \o TicketPart \in Seq(AnyEntry)
        /\ Len(two \o TicketPart) = Len(two) + Len(TicketPart)
        /\ \A k \in 1..Len(two) : (two \o TicketPart)[k] = two[k]
        /\ \A k \in 1..Len(TicketPart) : (two \o TicketPart)[Len(two) + k] = TicketPart[k]
    BY ONLY <2>1, ConcatFacts
  <2> QED BY <1>1, <2>2
<1>4. /\ Layout \in Seq(AnyEntry) /\ Len(Layout) = Len(NcaPart) + Len(XmlPart) + Len(TicketPart)
      /\ \A k \in 1..Len(NcaPart) : Layout[k] = NcaPart[k]
      /\ \A k \in 1..Len(XmlPart) : Layout[Len(NcaPart) + k] = XmlPart[k]
      /\ \A k \in 1..Len(TicketPart) : Layout[Len(NcaPart) + Len(XmlPart) + k] = TicketPart[k]
  <2>1. \A k \in 1..Len(NcaPart) : k \in 1..Len(two)
    BY <1>2
  <2>2. \A k \in 1..Len(XmlPart) : Len(NcaPart) + k \in 1..Len(two)
    BY <1>2
  <2>3. \A k \in 1..Len(NcaPart) : Layout[k] = NcaPart[k]
    BY <1>2, <1>3, <2>1
  <2>4. \A k \in 1..Len(XmlPart) : Layout[Len(NcaPart) + k] = XmlPart[k]
    BY <1>2, <1>3, <2>2
  <2> QED BY <1>2, <1>3, <2>3, <2>4
<1>5. TicketAt = Len(NcaPart) + Len(XmlPart) + 1
  <2>1. CASE opts.authoring
    BY <2>1, NcaPartFacts, XmlPartFacts, LengthIsPositive DEF TicketAt
  <2>2. CASE ~opts.authoring
    BY <2>2, NcaPartFacts, XmlPartFacts, LengthIsPositive DEF TicketAt
  <2> QED BY <2>1, <2>2
<1>6. /\ Len(NcaPart) = N /\ Len(XmlPart) \in Nat /\ Len(TicketPart) = IF TicketKept THEN 2 ELSE 0
      /\ Len(XmlPart) = IF opts.authoring THEN 1 + CtxCount(N - 1) ELSE 0
  BY NcaPartFacts, XmlPartFacts, TicketPartFacts
<1>7. Len(Layout) \in Nat /\ DOMAIN Layout = 1..Len(Layout)
  BY <1>4
<1>8. TicketAt \in Nat /\ N < TicketAt
  BY <1>5, <1>6, LengthIsPositive
<1>9. Len(Layout) = TicketAt - 1 + (IF TicketKept THEN 2 ELSE 0)
  BY <1>4, <1>5, <1>6, LengthIsPositive
<1>10. \A i \in Ncas : Layout[i] = Entry("nca", i)
  BY <1>4, <1>6, TitleFacts DEF NcaPart
<1>11. ASSUME opts.authoring
      PROVE  /\ Layout[N + 1] = Entry("cnmt", Meta)
             /\ \A k \in 1..CtxCount(N - 1) : Layout[N + 1 + k] = CtxEntriesUpTo(ctx)[N - 1][k]
  <2>1. /\ Len(XmlPart) = 1 + CtxCount(N - 1) /\ CtxCount(N - 1) \in Nat
        /\ XmlPart[1] = Entry("cnmt", Meta)
        /\ \A k \in 1..CtxCount(N - 1) : XmlPart[1 + k] = CtxEntriesUpTo(ctx)[N - 1][k]
    BY <1>11, XmlPartFacts
  <2>2. Layout[N + 1] = XmlPart[1]
    BY <1>4, <1>6, <2>1, LengthIsPositive
  <2>3. ASSUME NEW k \in 1..CtxCount(N - 1) PROVE Layout[N + 1 + k] = XmlPart[1 + k]
    <3>1. 1 + k \in 1..Len(XmlPart) /\ N + (1 + k) = N + 1 + k
      BY <2>1, LengthIsPositive
    <3>2. Layout[N + (1 + k)] = XmlPart[1 + k]
      BY <1>4, <1>6, <3>1
    <3> QED BY <3>1, <3>2
  <2> QED BY <2>1, <2>2, <2>3
<1>12. ASSUME TicketKept
       PROVE  Layout[TicketAt] = Entry("tik", 0) /\ Layout[TicketAt + 1] = Entry("cert", 0)
  <2>1. Len(TicketPart) = 2 /\ TicketPart[1] = Entry("tik", 0) /\ TicketPart[2] = Entry("cert", 0)
    BY <1>12, TicketPartFacts
  <2>2. /\ TicketAt = Len(NcaPart) + Len(XmlPart) + 1
        /\ TicketAt + 1 = Len(NcaPart) + Len(XmlPart) + 2
    BY <1>5, <1>6, LengthIsPositive
  <2> QED BY <1>4, <2>1, <2>2
<1> QED BY <1>7, <1>8, <1>9, <1>10, <1>11, <1>12

LEMMA EntryFields == \A kind, i : Entry(kind, i).kind = kind /\ Entry(kind, i).nca = i
BY DEF Entry

\* Where the entries of one context are
LEMMA ContextAt ==
  ASSUME opts.authoring, NEW i \in Contents
  PROVE  /\ CtxCount(i - 1) \in Nat /\ CtxCount(i) \in Nat /\ CtxCount(i) <= CtxCount(N - 1)
         /\ CtxCount(i) = CtxCount(i - 1) + Len(CtxEntries(i, ctx))
         /\ \A k \in 1..CtxCount(i - 1) : Layout[N + 1 + k] \in EntriesOfFirst(i - 1)
         /\ \A k \in 1..Len(CtxEntries(i, ctx)) :
              Layout[N + 1 + CtxCount(i - 1) + k] = CtxEntries(i, ctx)[k]
<1> DEFINE up == CtxEntriesUpTo(ctx)
           s == up[i - 1]
           e == CtxEntries(i, ctx)
<1>1. /\ i \in 1..(N - 1) /\ i \in 0..(N - 1) /\ i - 1 \in 0..(N - 1) /\ N - 1 \in 0..(N - 1)
      /\ i - 1 \in 0..i /\ N \in Nat
  BY TitleFacts
<1>2. up[i] = s \o e
  BY <1>1, CtxEntriesUpToStep, Zenon
<1>3. s \in Seq(EntriesOfFirst(i - 1)) /\ e \in Seq(EntriesOf(i))
  BY <1>1, CtxEntriesType, CtxEntriesFacts
<1> DEFINE S == EntriesOfFirst(i - 1) \cup EntriesOf(i)
<1>4. s \in Seq(S) /\ e \in Seq(S)
  <2> HIDE DEF s, e
  <2> QED BY <1>3
<1>5. Len(s) = CtxCount(i - 1) /\ Len(up[i]) = CtxCount(i) /\ Len(up[N - 1]) = CtxCount(N - 1)
  BY DEF CtxCount
<1>6. /\ Len(up[i]) <= Len(up[N - 1])
      /\ \A k \in 1..Len(up[i]) : up[N - 1][k] = up[i][k]
  BY <1>1, CtxEntriesPrefix
<1> HIDE DEF up, s, e, S
<1>7. /\ Len(s) \in Nat /\ Len(e) \in Nat /\ Len(up[i]) = Len(s) + Len(e)
      /\ \A k \in 1..Len(s) : up[i][k] = s[k]
      /\ \A k \in 1..Len(e) : up[i][Len(s) + k] = e[k]
  <2>1. /\ Len(s \o e) = Len(s) + Len(e) /\ Len(s) \in Nat /\ Len(e) \in Nat
        /\ \A k \in 1..Len(s) : (s \o e)[k] = s[k]
        /\ \A k \in 1..Len(e) : (s \o e)[Len(s) + k] = e[k]
    BY ONLY <1>4, ConcatFacts
  <2> QED BY <1>2, <2>1
<1>8. /\ CtxCount(i - 1) \in Nat /\ CtxCount(i) \in Nat /\ CtxCount(N - 1) \in Nat
      /\ CtxCount(i) <= CtxCount(N - 1)
      /\ CtxCount(i) = CtxCount(i - 1) + Len(e)
  BY <1>5, <1>6, <1>7, XmlPartFacts
<1>9. \A k \in 1..CtxCount(N - 1) : Layout[N + 1 + k] = up[N - 1][k]
  BY LayoutFacts DEF up
<1>10. ASSUME NEW k \in 1..CtxCount(i - 1) PROVE Layout[N + 1 + k] \in EntriesOfFirst(i - 1)
  <2>1. k \in 1..CtxCount(N - 1) /\ k \in 1..Len(up[i]) /\ k \in 1..Len(s)
    BY <1>5, <1>7, <1>8
  <2>2. Layout[N + 1 + k] = s[k]
    BY <1>6, <1>7, <1>9, <2>1
  <2>3. s[k] \in EntriesOfFirst(i - 1)
    BY <1>3, <2>1
  <2> QED BY <2>2, <2>3
<1>11. ASSUME NEW k \in 1..Len(e) PROVE Layout[N + 1 + CtxCount(i - 1) + k] = e[k]
  <2>1. CtxCount(i - 1) + k \in 1..CtxCount(N - 1) /\ Len(s) + k \in 1..Len(up[i])
    BY <1>5, <1>7, <1>8
  <2>2. Layout[N + 1 + (CtxCount(i - 1) + k)] = e[k]
    BY <1>5, <1>6, <1>7, <1>9, <2>1
  <2>3. N + 1 + (CtxCount(i - 1) + k) = N + 1 + CtxCount(i - 1) + k
    BY <1>1, <1>8
  <2> QED BY <2>2, <2>3
<1> QED BY <1>8, <1>10, <1>11 DEF e

\* The icons of a context, and the XML after them
LEMMA IconsAndXmlAt ==
  ASSUME opts.authoring, NEW i \in Contents, i \in ctx
  PROVE  /\ CtxCount(i) = CtxCount(i - 1) + Len(IconEntries(i)) + 1
         /\ \A j \in 0..(Len(IconEntries(i)) - 1) :
              Layout[N + 2 + CtxCount(i - 1) + j] = Entry("icon", i)
         /\ Layout[N + 2 + CtxCount(i - 1) + Len(IconEntries(i))] = Entry("xml", i)
<1> DEFINE n == Len(IconEntries(i))
           m == CtxCount(i - 1)
           e == CtxEntries(i, ctx)
<1>1. /\ n \in Nat /\ Len(e) = n + 1
      /\ \A j \in 1..n : e[j] = Entry("icon", i)
      /\ e[n + 1] = Entry("xml", i)
  BY CtxEntriesFacts
<1>2. /\ m \in Nat /\ CtxCount(i) = m + Len(e)
      /\ \A k \in 1..Len(e) : Layout[N + 1 + m + k] = e[k]
  BY ContextAt
<1> HIDE DEF n, m, e
<1>3. CtxCount(i) = m + n + 1
  BY <1>1, <1>2
<1>4. ASSUME NEW j \in 0..(n - 1) PROVE Layout[N + 2 + m + j] = Entry("icon", i)
  <2>1. j + 1 \in 1..n /\ j + 1 \in 1..Len(e) /\ N + 1 + m + (j + 1) = N + 2 + m + j
    BY <1>1, <1>2, LengthIsPositive
  <2>2. Layout[N + 1 + m + (j + 1)] = e[j + 1] /\ e[j + 1] = Entry("icon", i)
    BY <1>1, <1>2, <2>1
  <2> QED BY <2>1, <2>2
<1>5. Layout[N + 2 + m + n] = Entry("xml", i)
  <2>1. n + 1 \in 1..Len(e) /\ N + 1 + m + (n + 1) = N + 2 + m + n
    BY <1>1, <1>2, LengthIsPositive
  <2>2. Layout[N + 1 + m + (n + 1)] = e[n + 1]
    BY <1>2, <2>1
  <2> QED BY <1>1, <2>1, <2>2
<1> QED BY <1>3, <1>4, <1>5 DEF n, m, e

\* An NCA without a context has no entries.
LEMMA NoContextAt ==
  ASSUME opts.authoring, NEW i \in Contents, i \notin ctx
  PROVE  CtxCount(i) = CtxCount(i - 1)
BY ContextAt, CtxEntriesFacts

\* Before the first context
LEMMA NoCtxBefore == CtxCount(0) = 0
BY CtxEntriesUpToStep DEF CtxCount

\* data_idx is where the entries of an NCA begin.
LEMMA DataIdxOfMeta == opts.authoring => DataIdx(Meta) = N + 1
<1> SUFFICES ASSUME opts.authoring PROVE DataIdx(Meta) = N + 1
  OBVIOUS
<1>1. /\ N \in Nat /\ N > 0 /\ Meta = N /\ DOMAIN Layout = 1..Len(Layout) /\ Len(Layout) \in Nat
      /\ N + 1 <= Len(Layout)
  <2>1. TicketAt \in Nat /\ N + 1 < TicketAt
    BY XmlPartFacts, LengthIsPositive DEF TicketAt
  <2> QED BY <2>1, LayoutFacts, TitleFacts
<1> DEFINE P(k) == /\ Layout[k].nca = Meta /\ Layout[k].kind # "nca"
                   /\ \A l \in 1..(k - 1) : Layout[l].nca # Meta \/ Layout[l].kind = "nca"
<1>2. \A l \in 1..N : Layout[l].kind = "nca"
  BY LayoutFacts, TitleFacts, EntryFields
<1>3. Layout[N + 1].nca = Meta /\ Layout[N + 1].kind # "nca"
  BY LayoutFacts, EntryFields
<1>4. N + 1 \in DOMAIN Layout /\ P(N + 1)
  BY <1>1, <1>2, <1>3
<1>5. ASSUME NEW k \in DOMAIN Layout, P(k) PROVE k = N + 1
  <2>1. k \in Nat /\ k \notin 1..N
    BY <1>1, <1>2, <1>5
  <2>2. ~(N + 1 \in 1..(k - 1))
    BY <1>3, <1>5
  <2> QED BY <1>1, <2>1, <2>2, <1>5
<1>6. DataIdx(Meta) = CHOOSE k \in DOMAIN Layout : P(k)
  BY DEF DataIdx
<1> HIDE DEF P
<1> QED BY <1>4, <1>5, <1>6

LEMMA DataIdxOfContent ==
  ASSUME opts.authoring, NEW i \in Contents, i \in ctx
  PROVE  DataIdx(i) = N + 2 + CtxCount(i - 1)
<1> DEFINE at == N + 2 + CtxCount(i - 1)
           P(k) == /\ Layout[k].nca = i /\ Layout[k].kind # "nca"
                   /\ \A l \in 1..(k - 1) : Layout[l].nca # i \/ Layout[l].kind = "nca"
<1>1. /\ N \in Nat /\ Meta = N /\ i \in 1..(N - 1) /\ CtxCount(i - 1) \in Nat
      /\ CtxCount(i - 1) + 1 <= CtxCount(i) /\ CtxCount(i) <= CtxCount(N - 1) /\ CtxCount(N - 1) \in Nat
      /\ CtxCount(i) \in Nat
  BY TitleFacts, ContextAt, IconsAndXmlAt, CtxEntriesFacts, XmlPartFacts
<1>2. DOMAIN Layout = 1..Len(Layout) /\ Len(Layout) \in Nat /\ at \in 1..Len(Layout)
  <2>1. TicketAt = N + 2 + CtxCount(N - 1)
    BY <1>1 DEF TicketAt
  <2>2. DOMAIN Layout = 1..Len(Layout) /\ Len(Layout) \in Nat
    BY LayoutFacts
  <2>3. Len(Layout) >= TicketAt - 1
    BY LayoutFacts
  <2> QED BY <1>1, <2>1, <2>2, <2>3
<1>3. Layout[at].nca = i /\ Layout[at].kind # "nca"
  <2>1. Len(IconEntries(i)) \in Nat
    BY CtxEntriesFacts
  <2>2. CASE Len(IconEntries(i)) = 0
    <3>1. N + 2 + CtxCount(i - 1) + Len(IconEntries(i)) = at
      BY <1>1, <2>2
    <3>2. Layout[at] = Entry("xml", i)
      BY <3>1, IconsAndXmlAt
    <3> QED BY <3>2, EntryFields
  <2>3. CASE Len(IconEntries(i)) # 0
    <3>1. 0 \in 0..(Len(IconEntries(i)) - 1) /\ N + 2 + CtxCount(i - 1) + 0 = at
      BY <1>1, <2>1, <2>3
    <3>2. Layout[N + 2 + CtxCount(i - 1) + 0] = Entry("icon", i)
      BY <3>1, IconsAndXmlAt
    <3> QED BY <3>1, <3>2, EntryFields
  <2> QED BY <2>2, <2>3
<1>4. ASSUME NEW l \in 1..(at - 1) PROVE Layout[l].nca # i \/ Layout[l].kind = "nca"
  <2>1. CASE l <= N
    <3>1. l \in Ncas
      BY <1>1, <2>1, TitleFacts
    <3>2. Layout[l] = Entry("nca", l)
      BY <3>1, LayoutFacts
    <3> QED BY <3>2, EntryFields
  <2>2. CASE l = N + 1
    <3>1. Layout[l] = Entry("cnmt", Meta)
      BY <2>2, LayoutFacts
    <3> QED BY <1>1, <3>1, EntryFields
  <2>3. CASE l > N + 1
    <3>1. l - N - 1 \in 1..CtxCount(i - 1) /\ N + 1 + (l - N - 1) = l
      BY <1>1, <2>3
    <3>2. Layout[l] \in EntriesOfFirst(i - 1)
      BY <3>1, ContextAt
    <3> QED BY <1>1, <3>2 DEF EntriesOfFirst
  <2> QED BY <1>1, <2>1, <2>2, <2>3
<1>5. at \in DOMAIN Layout /\ P(at)
  BY <1>2, <1>3, <1>4
<1>6. ASSUME NEW k \in DOMAIN Layout, P(k) PROVE k = at
  <2>1. k \notin 1..(at - 1)
    BY <1>4, <1>6
  <2>2. at \notin 1..(k - 1)
    BY <1>3, <1>6
  <2>3. k \in Nat /\ k > 0 /\ at \in Nat /\ at > 0
    BY <1>1, <1>2
  <2> HIDE DEF at
  <2> QED BY <2>1, <2>2, <2>3
<1>7. DataIdx(i) = CHOOSE k \in DOMAIN Layout : P(k)
  BY DEF DataIdx
<1> HIDE DEF P, at
<1> QED BY <1>5, <1>6, <1>7 DEF at

LEMMA NspSizeIsNat == NspSize \in Nat /\ NspSize = 1 + BlocksUpTo[N] + (Len(Layout) - N)
<1>1. BlocksUpTo[N] \in Nat
  BY BlocksUpToDef, LengthIsPositive
<1>2. Len(Layout) \in Nat /\ N <= Len(Layout)
  <2>1. Len(Layout) >= TicketAt - 1 /\ TicketAt \in Nat /\ N < TicketAt /\ Len(Layout) \in Nat
    BY LayoutFacts
  <2> QED BY <2>1, LengthIsPositive
<1> QED BY <1>1, <1>2, LengthIsPositive DEF NspSize

-----------------------------------------------------------------------------
\* What a step leaves as it is

LEMMA LayoutKept ==
  ASSUME UNCHANGED <<opts, ctx>>
  PROVE  /\ Layout' = Layout /\ TicketKept' = TicketKept /\ NspSize' = NspSize
         /\ \A i : CtxCount(i)' = CtxCount(i)
         /\ TicketAt' = TicketAt
<1>1. TicketKept' = TicketKept
  BY DEF TicketKept
<1>2. Layout' = Layout
  BY <1>1 DEF Layout, TicketKept
<1>3. NspSize' = NspSize
  BY <1>2 DEF NspSize
<1>4. \A i : CtxCount(i)' = CtxCount(i)
  BY DEF CtxCount
<1>5. TicketAt' = TicketAt
  BY <1>4 DEF TicketAt
<1> QED BY <1>1, <1>2, <1>3, <1>4, <1>5

\* The variables that say what was and what has to be sent of the NCAs
ncaVars == <<opts, ctx, dirty, patch, contentId, records, metaRecords, sent>>

LEMMA NcasKept ==
  ASSUME UNCHANGED ncaVars
  PROVE  /\ MetaOK' <=> MetaOK
         /\ \A i : /\ Patched(i)' <=> Patched(i)
                   /\ Fresh(i)' <=> Fresh(i)
                   /\ Finished(i)' <=> Finished(i)
<1>1. \A i : Patched(i)' <=> Patched(i)
  BY DEF ncaVars, Patched
<1>2. \A i : Fresh(i)' <=> Fresh(i)
  BY <1>1 DEF ncaVars, Fresh
<1>3. \A i : \A k : Block(i, k)' = Block(i, k)
  BY DEF ncaVars, Block, Patched
<1>4. \A i : \A n : Sending(i, n)' = Sending(i, n)
  BY <1>3 DEF Sending
<1>5. \A i : Finished(i)' <=> Finished(i)
  BY <1>4 DEF ncaVars, Finished
<1>6. MetaOK' <=> MetaOK
  BY DEF ncaVars, MetaOK
<1> QED BY <1>1, <1>2, <1>5, <1>6

\* Thread steps after the dump, and steps of the main thread, leave what was sent as it is.
Over == {"end", "clean", "none"}

LEMMA DumpKept ==
  ASSUME NcasOK, EntriesOK, CountOK, tpc' = tpc \/ (tpc \in Over /\ tpc' \in Over),
         UNCHANGED <<ncaVars, loopVars, headerWritten, dirtyHeader, names, stored, header, total,
                     written, success>>
  PROVE  NcasOK' /\ EntriesOK' /\ CountOK'
<1>1. UNCHANGED ncaVars /\ UNCHANGED <<opts, ctx, sent>>
  BY DEF ncaVars
<1>2. /\ Starting' <=> Starting
      /\ InBlocks' <=> InBlocks
      /\ InNcas' <=> InNcas
      /\ InEntries' <=> InEntries
      /\ \A pc \in {"startNca", "announce", "block", "finishNca", "cnmtXml", "ctxData", "ticket", "cert"} :
           tpc' = pc <=> tpc = pc
  BY DEF Over, Starting, InBlocks, InNcas, InEntries
<1>3. /\ MetaOK' <=> MetaOK
      /\ \A i : /\ Patched(i)' <=> Patched(i)
                /\ Fresh(i)' <=> Fresh(i)
                /\ Finished(i)' <=> Finished(i)
  BY <1>1, NcasKept
<1>4. \A i : Underway(i)' <=> Underway(i)
  <2>1. \A i : \A k : Block(i, k)' = Block(i, k)
    BY <1>1 DEF ncaVars, Block, Patched
  <2>2. \A i : \A n : Sending(i, n)' = Sending(i, n)
    BY <2>1 DEF Sending
  <2>3. \A i : FlagsOK(i)' <=> FlagsOK(i)
    BY <1>1, <1>3 DEF ncaVars, loopVars, FlagsOK
  <2> QED BY <1>1, <1>2, <2>2, <2>3 DEF ncaVars, loopVars, Underway
<1>5. NcasOK'
  BY <1>1, <1>2, <1>3, <1>4 DEF NcasOK, ncaVars, loopVars
<1>6. /\ Layout' = Layout /\ TicketKept' = TicketKept /\ NspSize' = NspSize
      /\ \A i : CtxCount(i)' = CtxCount(i)
      /\ TicketAt' = TicketAt
  BY <1>1, LayoutKept
<1>7. Position' = Position
  BY <1>2, <1>6 DEF Position, loopVars
<1>8. \A k : EntryOK(k)' <=> EntryOK(k)
  BY <1>1, <1>6 DEF EntryOK
<1>9. NamesOK' <=> NamesOK
  BY <1>1, <1>6 DEF NamesOK, ncaVars
<1>10. EntriesOK'
  BY <1>1, <1>2, <1>6, <1>7, <1>8, <1>9 DEF EntriesOK, loopVars
<1>11. CountOK'
  BY <1>1, <1>2, <1>6, <1>7 DEF CountOK, loopVars
<1> QED BY <1>5, <1>10, <1>11

\* Where the thread is
LEMMA NotOver ==
  ASSUME IInv, tpc \notin Over
  PROVE  ~success /\ package # "closed"
BY DEF IInv, PackageOK, Over

\* A failure leaves for the end label: only what every state promises is left to show.
LEMMA FailureKeeps ==
  ASSUME IInv, tpc \notin Over, tpc' = "end",
         UNCHANGED <<ncaVars, mpc, loopVars, headerWritten, dirtyHeader, hash, names, stored, header,
                     lost, sharedVars, success, result>>,
         package' = package \/ package' \in {"none", "empty", "abandoned"}
  PROVE  IInv'
<1>1. ~success /\ package # "closed"
  BY NotOver
<1>2. ThreadTypes'
  BY DEF IInv, TypeOK, ThreadTypes, ThreadPcs
<1>3. CounterTypes'
  BY DEF IInv, TypeOK, CounterTypes, ncaVars, loopVars, sharedVars
<1>4. FlagTypes'
  BY DEF IInv, TypeOK, FlagTypes, ncaVars, loopVars, sharedVars
<1>5. UNCHANGED <<opts, ctx, dirty, metaRecords>> /\ UNCHANGED <<sent, contentId, records>>
  BY DEF ncaVars
<1>6. NcasOK'
  <2>1. \A i : Patched(i)' <=> Patched(i)
    BY <1>5 DEF Patched
  <2> QED BY <1>1, <1>5, <2>1 DEF IInv, NcasOK, Starting, InBlocks, InNcas, InEntries
<1>7. EntriesOK'
  BY <1>1 DEF EntriesOK, Starting, InBlocks, InNcas, InEntries
<1>8. CountOK'
  <2>1. NspSize' = NspSize
    BY <1>5, LayoutKept
  <2> QED
    BY <1>1, <2>1 DEF IInv, CountOK, Starting, InBlocks, InNcas, InEntries, sharedVars
<1>9. PackageOK'
  BY <1>1 DEF IInv, PackageOK, Over, Starting, InBlocks, InNcas, InEntries, sharedVars
<1> QED BY <1>2, <1>3, <1>4, <1>6, <1>7, <1>8, <1>9 DEF IInv, TypeOK

-----------------------------------------------------------------------------
\* The invariant holds at first, and in every step of the threads

LEMMA InitInv == Init => IInv
<1> SUFFICES ASSUME Init PROVE IInv
  OBVIOUS
<1>1. tpc \in {"start", "none"} /\ mpc = "wait" /\ package = "none" /\ result = "running"
  BY DEF Init
<1>2. ThreadTypes
  BY <1>1 DEF ThreadTypes, ThreadPcs
<1>3. CounterTypes
  BY <1>1, TitleFacts DEF Init, CounterTypes
<1>4. FlagTypes
  BY DEF Init, FlagTypes
<1>5. NcasOK
  <2>1. \A i \in Ncas : Fresh(i) /\ ~Patched(i)
    BY TitleFacts DEF Init, Fresh, Patched
  <2>2. Meta \in Ncas /\ Contents \subseteq Ncas
    BY TitleFacts
  <2>3. DOMAIN sent = Ncas /\ DOMAIN contentId = Ncas /\ DOMAIN records = Contents /\ ~success
    BY DEF Init
  <2> QED BY <1>1, <2>1, <2>2, <2>3 DEF NcasOK, Starting, InBlocks, InNcas, InEntries
<1>6. EntriesOK
  BY <1>1 DEF Init, EntriesOK, Starting, InBlocks, InNcas, InEntries
<1>7. CountOK
  BY <1>1 DEF Init, CountOK, Starting, InBlocks, InNcas, InEntries
<1>8. PackageOK
  BY <1>1 DEF Init, PackageOK, Starting, InBlocks, InNcas, InEntries
<1> QED BY <1>2, <1>3, <1>4, <1>5, <1>6, <1>7, <1>8 DEF IInv, TypeOK

\* The end of the thread, and the main thread
LEMMA ThreadTellsKeeps == IInv /\ ThreadTells => IInv'
<1> SUFFICES ASSUME IInv, ThreadTells PROVE IInv'
  OBVIOUS
<1>1. /\ tpc = "end" /\ tpc' = "clean" /\ error' = (error \/ FailureTold)
      /\ UNCHANGED <<ncaVars, loopVars, headerWritten, dirtyHeader, names, stored, header, total,
                     written, success, cancelled, package, mpc, result, lost>>
  BY DEF ThreadTells, GoTo, ncaVars, contentVars, cnmtVars, outputVars
<1>2. NcasOK' /\ EntriesOK' /\ CountOK'
  BY <1>1, DumpKept DEF IInv, Over
<1>3. ThreadTypes'
  BY <1>1 DEF IInv, TypeOK, ThreadTypes, ThreadPcs
<1>4. CounterTypes'
  BY <1>1 DEF IInv, TypeOK, CounterTypes, ncaVars, loopVars
<1>5. FlagTypes'
  BY <1>1 DEF IInv, TypeOK, FlagTypes, ncaVars, loopVars, FailureTold
<1>6. PackageOK'
  BY <1>1 DEF IInv, PackageOK, FailureTold, Starting, InBlocks, InNcas, InEntries
<1> QED BY <1>2, <1>3, <1>4, <1>5, <1>6 DEF IInv, TypeOK

LEMMA ThreadCleansKeeps == IInv /\ ThreadCleans => IInv'
<1> SUFFICES ASSUME IInv, ThreadCleans PROVE IInv'
  OBVIOUS
<1>1. /\ tpc = "clean" /\ tpc' = "none" /\ package' = (IF success THEN package ELSE Discard)
      /\ UNCHANGED <<ncaVars, loopVars, headerWritten, dirtyHeader, names, stored, header, total,
                     written, success, cancelled, error, mpc, result, lost>>
  BY DEF ThreadCleans, GoTo, ncaVars, contentVars, cnmtVars, sharedVars
<1>2. NcasOK' /\ EntriesOK' /\ CountOK'
  BY <1>1, DumpKept DEF IInv, Over
<1>3. ThreadTypes'
  BY <1>1 DEF IInv, TypeOK, ThreadTypes, ThreadPcs, Discard
<1>4. CounterTypes'
  BY <1>1 DEF IInv, TypeOK, CounterTypes, ncaVars, loopVars
<1>5. FlagTypes'
  BY <1>1 DEF IInv, TypeOK, FlagTypes, ncaVars, loopVars
<1>6. PackageOK'
  BY <1>1 DEF IInv, PackageOK, Discard, Starting, InBlocks, InNcas, InEntries
<1> QED BY <1>2, <1>3, <1>4, <1>5, <1>6 DEF IInv, TypeOK

LEMMA MainKeeps == IInv /\ Main => IInv'
<1> SUFFICES ASSUME IInv, Main PROVE IInv'
  OBVIOUS
<1>1. UNCHANGED <<tpc, ncaVars, loopVars, headerWritten, dirtyHeader, names, stored, header, total,
                  written, success, error, package, lost>>
  BY DEF Main, MainSeesSize, MainDecidesToCancel, MainCancels, MainLeaves, MainJoins, ncaVars,
         contentVars, cnmtVars, outputVars, sharedVars
<1>2. NcasOK' /\ EntriesOK' /\ CountOK'
  BY <1>1, DumpKept DEF IInv
<1>3. ThreadTypes'
  BY <1>1 DEF IInv, TypeOK, ThreadTypes, Main, MainSeesSize, MainDecidesToCancel, MainCancels,
              MainLeaves, MainJoins, MainGoes
<1>4. CounterTypes'
  BY <1>1 DEF IInv, TypeOK, CounterTypes, ncaVars, loopVars
<1>5. FlagTypes'
  BY <1>1 DEF IInv, TypeOK, FlagTypes, ncaVars, loopVars, Main, MainSeesSize, MainDecidesToCancel,
              MainCancels, MainLeaves, MainJoins, sharedVars
<1>6. PackageOK'
  <2>1. /\ Starting' <=> Starting
        /\ InNcas' <=> InNcas
        /\ InEntries' <=> InEntries
    BY <1>1 DEF Starting, InBlocks, InNcas, InEntries
  <2>2. CASE MainSeesSize \/ MainDecidesToCancel \/ MainLeaves
    BY <1>1, <2>1, <2>2 DEF IInv, PackageOK, MainSeesSize, MainDecidesToCancel, MainLeaves, MainGoes,
                            sharedVars
  <2>3. CASE MainCancels
    BY <1>1, <2>1, <2>3 DEF IInv, PackageOK, MainCancels, MainGoes
  <2>4. CASE MainJoins
    BY <1>1, <2>1, <2>4 DEF IInv, PackageOK, MainJoins, MainGoes, sharedVars
  <2> QED BY <2>2, <2>3, <2>4 DEF Main
<1> QED BY <1>2, <1>3, <1>4, <1>5, <1>6 DEF IInv, TypeOK

\* The two ways in which a step fails
LEMMA AbandonKeeps == IInv /\ tpc \notin Over /\ Abandon => IInv'
<1> SUFFICES ASSUME IInv, tpc \notin Over, Abandon PROVE IInv'
  OBVIOUS
<1>1. /\ tpc' = "end" /\ package' = package
      /\ UNCHANGED <<ncaVars, mpc, loopVars, headerWritten, dirtyHeader, hash, names, stored, header,
                     lost, sharedVars, success, result>>
  BY DEF Abandon, GoTo, ncaVars, contentVars, cnmtVars, outputVars
<1> QED BY <1>1, FailureKeeps

LEMMA UsbFailsKeeps == IInv /\ tpc \notin Over /\ UsbFails => IInv'
<1> SUFFICES ASSUME IInv, tpc \notin Over, UsbFails PROVE IInv'
  OBVIOUS
<1>1. /\ tpc' = "end" /\ package' = "abandoned"
      /\ UNCHANGED <<ncaVars, mpc, loopVars, headerWritten, dirtyHeader, hash, names, stored, header,
                     lost, sharedVars, success, result>>
  BY DEF UsbFails, GoTo, ncaVars, contentVars, cnmtVars
<1> QED BY <1>1, FailureKeeps

\* While the thread prepares the dump nothing is counted, and there is no package.
LEMMA PackageUntouched ==
  ASSUME IInv, tpc \notin Over, tpc' \notin Over, UNCHANGED <<mpc, error, cancelled, success, result>>,
         Starting' => package' = "none", InNcas' \/ InEntries' => package' = "open",
         package' # "closed"
  PROVE  PackageOK'
<1>1. ~success
  BY NotOver
<1> QED BY <1>1 DEF IInv, PackageOK, Over

LEMMA PreparesKeep == IInv /\ Prepares => IInv'
<1> SUFFICES ASSUME IInv, Prepares PROVE IInv'
  OBVIOUS
<1>1. tpc \in {"start", "context", "announce"} /\ Starting /\ tpc \notin Over
  BY DEF Prepares, ThreadStarts, AskTitlekey, InitContext, BuildLayout, Announce, Starting, Over
<1>2. /\ ~success /\ package = "none" /\ written = 0 /\ total = 0 /\ icon = 0
      /\ \A i \in Ncas : Fresh(i)
  BY <1>1, NotOver DEF IInv, PackageOK, CountOK, EntriesOK, NcasOK
<1>3. CASE Abandon
  BY <1>1, <1>3, AbandonKeeps
<1>4. CASE ThreadStarts /\ ~Abandon
  <2>1. /\ tpc = "start" /\ tpc' = "context"
        /\ UNCHANGED <<ncaVars, mpc, loopVars, headerWritten, dirtyHeader, hash, names, stored, header,
                       lost, sharedVars, success, result, package>>
    BY <1>4 DEF ThreadStarts, GoTo, ncaVars, contentVars, cnmtVars, outputVars
  <2>2. ThreadTypes'
    BY <2>1 DEF IInv, TypeOK, ThreadTypes, ThreadPcs
  <2>3. CounterTypes'
    BY <2>1 DEF IInv, TypeOK, CounterTypes, ncaVars, loopVars, sharedVars
  <2>4. FlagTypes'
    BY <2>1 DEF IInv, TypeOK, FlagTypes, ncaVars, loopVars, sharedVars
  <2>5. NcasOK'
    <3>1. \A i : (Patched(i)' <=> Patched(i)) /\ (Fresh(i)' <=> Fresh(i))
      BY <2>1, NcasKept
    <3> QED BY <1>2, <2>1, <3>1 DEF IInv, NcasOK, Starting, InBlocks, InNcas, InEntries, ncaVars
  <2>6. EntriesOK'
    BY <1>2, <2>1 DEF EntriesOK, Starting, InBlocks, InNcas, InEntries, loopVars
  <2>7. CountOK'
    BY <1>2, <2>1 DEF CountOK, Starting, InBlocks, InNcas, InEntries, sharedVars
  <2>8. PackageOK'
    BY <1>1, <1>2, <2>1, PackageUntouched
       DEF Over, Starting, InBlocks, InNcas, InEntries, sharedVars
  <2> QED BY <2>2, <2>3, <2>4, <2>5, <2>6, <2>7, <2>8 DEF IInv, TypeOK
<1>5. CASE AskTitlekey /\ ~Abandon
  <2>1. /\ tpc = "context" /\ tpc' = "context" /\ nca \in Contents /\ nca' = nca + 1 /\ confirmed' = TRUE
        /\ UNCHANGED <<ncaVars, mpc, block, icon, headerWritten, dirtyHeader, hash, names, stored,
                       header, lost, sharedVars, success, result, package>>
    BY <1>5 DEF AskTitlekey, ncaVars, contentVars, cnmtVars, outputVars
  <2>2. ThreadTypes'
    BY <2>1 DEF IInv, TypeOK, ThreadTypes, ThreadPcs
  <2>3. CounterTypes'
    <3>1. nca + 1 \in Ncas
      BY <2>1, TitleFacts
    <3> QED BY <2>1, <3>1 DEF IInv, TypeOK, CounterTypes, ncaVars, sharedVars
  <2>4. FlagTypes'
    BY <2>1 DEF IInv, TypeOK, FlagTypes, ncaVars, sharedVars
  <2>5. NcasOK'
    <3>1. \A i : (Patched(i)' <=> Patched(i)) /\ (Fresh(i)' <=> Fresh(i))
      BY <2>1, NcasKept
    <3> QED BY <1>2, <2>1, <3>1 DEF IInv, NcasOK, Starting, InBlocks, InNcas, InEntries, ncaVars
  <2>6. EntriesOK'
    BY <1>2, <2>1 DEF EntriesOK, Starting, InBlocks, InNcas, InEntries
  <2>7. CountOK'
    BY <1>2, <2>1 DEF CountOK, Starting, InBlocks, InNcas, InEntries, sharedVars
  <2>8. PackageOK'
    BY <1>1, <1>2, <2>1, PackageUntouched
       DEF Over, Starting, InBlocks, InNcas, InEntries, sharedVars
  <2> QED BY <2>2, <2>3, <2>4, <2>5, <2>6, <2>7, <2>8 DEF IInv, TypeOK
<1>6. CASE InitContext /\ ~Abandon
  <2>1. /\ tpc = "context" /\ tpc' = "context" /\ nca \in Contents /\ nca' = nca + 1
        /\ ctx' = (IF CtxWanted(nca) THEN ctx \cup {nca} ELSE ctx)
        /\ dirty' = (IF HeaderChanges(nca) THEN dirty \cup {nca} ELSE dirty)
        /\ patch' = (IF Type[nca] = "control" /\ opts.patchNacp THEN patch \cup {nca} ELSE patch)
        /\ UNCHANGED <<opts, contentId, records, metaRecords, sent, mpc, block, icon, confirmed,
                       headerWritten, dirtyHeader, hash, names, stored, header, lost, sharedVars,
                       success, result, package>>
    BY <1>6 DEF InitContext, cnmtVars, outputVars
  <2>2. ThreadTypes'
    BY <2>1 DEF IInv, TypeOK, ThreadTypes, ThreadPcs
  <2>3. CounterTypes'
    <3>1. nca + 1 \in Ncas /\ nca \in Ncas
      BY <2>1, TitleFacts
    <3>2. ctx' \subseteq Contents /\ dirty' \subseteq Ncas /\ patch' \subseteq Ncas
      BY <2>1, <3>1 DEF IInv, TypeOK, CounterTypes
    <3> QED BY <2>1, <3>1, <3>2 DEF IInv, TypeOK, CounterTypes, sharedVars
  <2>4. FlagTypes'
    BY <2>1 DEF IInv, TypeOK, FlagTypes, sharedVars
  <2>5. NcasOK'
    <3>1. \A i \in Contents : Patched(i)' => i \in dirty'
      <4> SUFFICES ASSUME NEW i \in Contents, Patched(i)' PROVE i \in dirty'
        OBVIOUS
      <4>1. i # Meta
        BY TitleFacts
      <4>2. i \in ctx' /\ Type[i] = "control" /\ opts.patchNacp
        BY <2>1, <4>1 DEF Patched
      <4>3. CASE i = nca
        BY <2>1, <4>2, <4>3 DEF HeaderChanges
      <4>4. CASE i # nca
        BY <2>1, <4>1, <4>2, <4>4 DEF Patched, IInv, NcasOK
      <4> QED BY <4>3, <4>4
    <3>2. Patched(Meta)' => Meta \in dirty'
      BY <2>1 DEF Patched, IInv, NcasOK
    <3>3. ASSUME NEW i \in Ncas PROVE Fresh(i)'
      <4>1. Fresh(i)
        BY <1>2
      <4>2. i = Meta => i \notin Contents
        BY TitleFacts
      <4>3. i = Meta => i \notin patch' /\ i \notin dirty'
        BY <2>1, <4>1, <4>2 DEF Fresh
      <4>4. i \in Contents => (i \in patch' <=> Patched(i)')
        <5> SUFFICES ASSUME i \in Contents PROVE i \in patch' <=> Patched(i)'
          OBVIOUS
        <5>1. (i \in patch <=> Patched(i)) /\ i # Meta
          BY <4>1, <4>2 DEF Fresh
        <5>2. Patched(i)' <=> i \in ctx' /\ Type[i] = "control" /\ opts.patchNacp
          BY <2>1, <5>1 DEF Patched
        <5>3. Patched(i) <=> i \in ctx /\ Type[i] = "control" /\ opts.patchNacp
          BY <5>1 DEF Patched
        <5>4. CASE i = nca
          BY <2>1, <5>1, <5>2, <5>3, <5>4 DEF CtxWanted
        <5>5. CASE i # nca
          BY <2>1, <5>1, <5>2, <5>3, <5>5
        <5> QED BY <5>4, <5>5
      <4> QED BY <2>1, <4>1, <4>3, <4>4 DEF Fresh
    <3>4. Starting' /\ ~InNcas' /\ ~InBlocks' /\ ~InEntries' /\ ~success' /\ tpc' # "startNca"
      BY <1>2, <2>1 DEF Starting, InBlocks, InNcas, InEntries
    <3> QED BY <2>1, <3>1, <3>2, <3>3, <3>4 DEF IInv, NcasOK
  <2>6. EntriesOK'
    BY <1>2, <2>1 DEF EntriesOK, Starting, InBlocks, InNcas, InEntries
  <2>7. CountOK'
    BY <1>2, <2>1 DEF CountOK, Starting, InBlocks, InNcas, InEntries, sharedVars
  <2>8. PackageOK'
    BY <1>1, <1>2, <2>1, PackageUntouched
       DEF Over, Starting, InBlocks, InNcas, InEntries, sharedVars
  <2> QED BY <2>2, <2>3, <2>4, <2>5, <2>6, <2>7, <2>8 DEF IInv, TypeOK
<1>7. CASE BuildLayout /\ ~Abandon
  <2>1. /\ tpc = "context" /\ tpc' = "announce" /\ nca' = 1
        /\ names' = [k \in DOMAIN Layout |-> IF Layout[k].nca = 0 THEN Zeros
                                             ELSE contentId[Layout[k].nca]]
        /\ UNCHANGED <<ncaVars, mpc, block, icon, confirmed, headerWritten, dirtyHeader, hash, stored,
                       header, lost, sharedVars, success, result, package>>
    BY <1>7 DEF BuildLayout, GoTo, ncaVars, contentVars, cnmtVars, outputVars
  <2>2. ThreadTypes'
    BY <2>1 DEF IInv, TypeOK, ThreadTypes, ThreadPcs
  <2>3. CounterTypes'
    BY <2>1, TitleFacts DEF IInv, TypeOK, CounterTypes, ncaVars, sharedVars
  <2>4. FlagTypes'
    BY <2>1 DEF IInv, TypeOK, FlagTypes, ncaVars, sharedVars
  <2>5. NcasOK'
    <3>1. \A i : (Patched(i)' <=> Patched(i)) /\ (Fresh(i)' <=> Fresh(i))
      BY <2>1, NcasKept
    <3> QED BY <1>2, <2>1, <3>1 DEF IInv, NcasOK, Starting, InBlocks, InNcas, InEntries, ncaVars
  <2>6. NamesOK'
    <3>1. Layout' = Layout /\ contentId' = contentId
      BY <2>1, LayoutKept DEF ncaVars
    <3>2. DOMAIN names' = DOMAIN Layout
      BY <2>1
    <3>3. ASSUME NEW i \in Ncas PROVE names'[i] = contentId[i]
      <4>1. i \in DOMAIN Layout /\ i # 0
        BY LayoutFacts, TitleFacts
      <4>2. Layout[i].nca = i
        BY LayoutFacts, EntryFields
      <4> QED BY <2>1, <4>1, <4>2
    <3> QED BY <3>1, <3>2, <3>3 DEF NamesOK
  <2>7. EntriesOK'
    BY <1>2, <2>1, <2>6 DEF EntriesOK, Starting, InBlocks, InNcas, InEntries
  <2>8. CountOK'
    BY <1>2, <2>1 DEF CountOK, Starting, InBlocks, InNcas, InEntries, sharedVars
  <2>9. PackageOK'
    BY <1>1, <1>2, <2>1, PackageUntouched
       DEF Over, Starting, InBlocks, InNcas, InEntries, sharedVars
  <2> QED BY <2>2, <2>3, <2>4, <2>5, <2>7, <2>8, <2>9 DEF IInv, TypeOK
<1>8. CASE Announce /\ tpc' = "end"
  <2>1. /\ package' \in {"none", "empty"}
        /\ UNCHANGED <<ncaVars, mpc, loopVars, headerWritten, dirtyHeader, hash, names, stored, header,
                       lost, sharedVars, success, result>>
    BY <1>8 DEF Announce, GoTo, ncaVars, contentVars, cnmtVars, sharedVars
  <2> QED BY <1>1, <1>8, <2>1, FailureKeeps
<1>9. CASE Announce /\ tpc' # "end"
  <2>1. /\ tpc = "announce" /\ tpc' = "startNca" /\ package' = "open" /\ total' = NspSize
        /\ UNCHANGED <<ncaVars, mpc, loopVars, headerWritten, dirtyHeader, hash, names, stored, header,
                       lost, written, error, cancelled, success, result>>
    BY <1>9 DEF Announce, GoTo, ncaVars, contentVars, cnmtVars
  <2>2. ThreadTypes'
    BY <2>1 DEF IInv, TypeOK, ThreadTypes, ThreadPcs
  <2>3. CounterTypes'
    BY <2>1, NspSizeIsNat DEF IInv, TypeOK, CounterTypes, ncaVars, loopVars
  <2>4. FlagTypes'
    BY <2>1 DEF IInv, TypeOK, FlagTypes, ncaVars, loopVars
  <2>5. nca = 1 /\ nca' = 1 /\ NamesOK
    BY <2>1 DEF IInv, EntriesOK, loopVars
  <2>6. ~Starting' /\ InNcas' /\ ~InBlocks' /\ ~InEntries' /\ ~success'
    BY <1>2, <2>1 DEF Starting, InBlocks, InNcas, InEntries
  <2>7. NcasOK'
    <3>1. \A i : (Patched(i)' <=> Patched(i)) /\ (Fresh(i)' <=> Fresh(i))
      BY <2>1, NcasKept
    <3>2. /\ 1 \in Ncas /\ \A i \in (1 + 1)..N : i \in Ncas
          /\ 1..(1 - 1) = {}
      BY TitleFacts
    <3>3. (\A i \in 1..(nca' - 1) : Finished(i)') /\ (\A i \in (nca' + 1)..N : Fresh(i)')
      BY <1>2, <2>5, <3>1, <3>2
    <3>4. Fresh(nca)'
      BY <1>2, <2>5, <3>1, <3>2 DEF Fresh
    <3> QED BY <2>1, <2>6, <3>1, <3>3, <3>4 DEF IInv, NcasOK, ncaVars
  <2>8. Layout' = Layout /\ NspSize' = NspSize
    BY <2>1, LayoutKept DEF ncaVars
  <2>9. EntriesOK'
    <3>1. NamesOK'
      BY <2>1, <2>5, <2>8 DEF NamesOK, ncaVars
    <3> QED BY <1>2, <2>1, <2>6, <3>1 DEF EntriesOK, loopVars
  <2>10. CountOK'
    <3>1. BlocksUpTo[1 - 1] = 0
      BY BlocksUpToDef, LengthIsPositive
    <3> QED BY <1>2, <2>1, <2>5, <2>6, <2>8, <3>1 DEF CountOK, loopVars
  <2>11. PackageOK'
    BY <1>1, <1>2, <2>1, <2>6, PackageUntouched DEF Over
  <2> QED BY <2>2, <2>3, <2>4, <2>7, <2>9, <2>10, <2>11 DEF IInv, TypeOK
<1> QED BY <1>3, <1>4, <1>5, <1>6, <1>7, <1>8, <1>9 DEF Prepares

\* Blocks of an NCA, one after the other
LEMMA SendingAppend ==
  ASSUME NEW i, NEW n \in Nat
  PROVE  Append(Sending(i, n), Block(i, n + 1)) = Sending(i, n + 1)
<1> DEFINE F(k) == Block(i, k)
<1> HIDE DEF F
<1>1. Append([k \in 1..n |-> F(k)], F(n + 1)) = [k \in 1..(n + 1) |-> F(k)]
  OBVIOUS
<1> QED BY <1>1 DEF F, Sending

LEMMA SendingNothing == ASSUME NEW i PROVE Sending(i, 0) = <<>>
BY DEF Sending

LEMMA SendingKept ==
  ASSUME NEW i, opts' = opts, ctx' = ctx, i \in dirty' <=> i \in dirty,
         i = Meta => metaRecords' = metaRecords
  PROVE  /\ Patched(i)' <=> Patched(i)
         /\ \A n : Sending(i, n)' = Sending(i, n)
<1>1. Patched(i)' <=> Patched(i)
  BY DEF Patched
<1>2. \A k : Block(i, k)' = Block(i, k)
  BY <1>1 DEF Block
<1> QED BY <1>1, <1>2 DEF Sending

\* The pieces of an NCA
LEMMA PieceFacts ==
  ASSUME NEW i \in Ncas
  PROVE  /\ HeaderBlocks[i] \subseteq Nat \ {0} /\ HeaderBlocks[i] # {}
         /\ PatchBlocks[i] \subseteq Nat \ {0} /\ PatchBlocks[i] # {}
         /\ \A p \in HeaderBlocks[i] \cup PatchBlocks[i] : p <= Blocks[i]
<1>1. HeaderBlocks[i] \cup PatchBlocks[i] \subseteq 1..Blocks[i] /\ Blocks[i] \in Nat
  BY NspAssumption, TitleFacts
<1>2. HeaderBlocks[i] # {} /\ PatchBlocks[i] # {}
  BY NspAssumption
<1> QED BY <1>1, <1>2

LEMMA NoneBefore ==
  ASSUME NEW i \in Ncas
  PROVE  ~Before(HeaderBlocks[i], 1) /\ ~Before(PatchBlocks[i], 1)
BY PieceFacts DEF Before

\* What holds while NCAs are sent, and does while they go on being sent
LEMMA InNcasFacts ==
  ASSUME IInv, InNcas
  PROVE  /\ tpc \notin Over /\ ~success /\ package = "open" /\ total = NspSize /\ icon = 0 /\ NamesOK
         /\ nca \in Ncas /\ ~Starting /\ ~InEntries
         /\ \A i \in 1..(nca - 1) : Finished(i)
         /\ \A i \in (nca + 1)..N : Fresh(i)
<1>1. tpc \notin Over /\ ~Starting /\ ~InEntries
  BY DEF InNcas, InBlocks, InEntries, Starting, Over
<1> QED BY <1>1, NotOver DEF IInv, TypeOK, CounterTypes, NcasOK, EntriesOK, CountOK, PackageOK

LEMMA NamesKept == NamesOK /\ UNCHANGED <<opts, ctx, names, contentId>> => NamesOK'
BY LayoutKept DEF NamesOK

\* A step from one NCA state to the next leaves these to be shown.
LEMMA InNcasKeeps ==
  ASSUME IInv, InNcas, InNcas', ThreadTypes', CounterTypes', FlagTypes', NcasOK',
         UNCHANGED <<opts, ctx, mpc, icon, total, error, cancelled, success, result, package>>,
         NamesOK',
         tpc' = "startNca" => written' = BlocksUpTo[nca' - 1],
         InBlocks' => written' = BlocksUpTo[nca' - 1] + block' - 1
  PROVE  IInv'
<1>1. ~Starting' /\ ~InEntries' /\ tpc' \notin Over /\ tpc' # "announce"
  BY DEF InNcas, InBlocks, InEntries, Starting, Over
<1>2. Layout' = Layout /\ NspSize' = NspSize
  BY LayoutKept
<1>3. EntriesOK'
  BY <1>1, InNcasFacts DEF EntriesOK, InEntries
<1>4. CountOK'
  BY <1>1, <1>2, InNcasFacts DEF CountOK
<1>5. PackageOK'
  BY <1>1, InNcasFacts, PackageUntouched
<1> QED BY <1>3, <1>4, <1>5 DEF IInv, TypeOK

LEMMA StartNcaKeeps == IInv /\ StartNca => IInv'
<1> SUFFICES ASSUME IInv, StartNca PROVE IInv'
  OBVIOUS
<1>1. tpc = "startNca" /\ InNcas /\ tpc \notin Over
  BY DEF StartNca, InNcas, Over
<1>2. CASE Abandon
  BY <1>1, <1>2, AbandonKeeps
<1>3. CASE UsbFails
  BY <1>1, <1>3, UsbFailsKeeps
<1>4. CASE ~Abandon /\ ~UsbFails
  <2>1. /\ tpc' = "nextBlock" /\ block' = 1 /\ headerWritten' = FALSE
        /\ dirtyHeader' = (nca \in dirty')
        /\ patch' = (IF MetaPatched THEN patch \cup {Meta} ELSE patch)
        /\ dirty' = (IF MetaPatched THEN dirty \cup {Meta} ELSE dirty)
        /\ metaRecords' = (IF MetaPatched THEN records ELSE metaRecords)
        /\ UNCHANGED <<opts, mpc, nca, icon, confirmed, ctx, contentId, hash, records, names, sent,
                       stored, header, lost, package, total, written, error, cancelled, success,
                       result>>
    BY <1>4 DEF StartNca, GoTo, outputVars, sharedVars
  <2>2. /\ nca \in Ncas /\ Fresh(nca) /\ (\A i \in 1..(nca - 1) : Finished(i))
        /\ \A i \in (nca + 1)..N : Fresh(i)
        /\ DOMAIN sent = Ncas /\ DOMAIN contentId = Ncas /\ DOMAIN records = Contents
        /\ N \in Nat /\ N > 0 /\ Meta = N /\ Ncas = 1..N /\ Contents = 1..(N - 1)
        /\ written = BlocksUpTo[nca - 1]
    BY <1>1, InNcasFacts, TitleFacts DEF IInv, NcasOK, CountOK
  <2>3. ThreadTypes'
    BY <2>1 DEF IInv, TypeOK, ThreadTypes, ThreadPcs
  <2>4. CounterTypes'
    <3>1. 1 <= Blocks[nca] + 1
      BY <2>2, TitleFacts
    <3>2. dirty' \subseteq Ncas /\ patch' \subseteq Ncas
      BY <2>1, <2>2 DEF IInv, TypeOK, CounterTypes
    <3> QED BY <2>1, <3>1, <3>2 DEF IInv, TypeOK, CounterTypes
  <2>5. FlagTypes'
    <3>1. (nca \in dirty') \in BOOLEAN
      OBVIOUS
    <3> QED BY <2>1, <3>1 DEF IInv, TypeOK, FlagTypes
  <2>6. InBlocks' /\ InNcas' /\ ~Starting' /\ ~InEntries' /\ ~success'
    BY <1>1, <2>1, InNcasFacts DEF InBlocks, InNcas, Starting, InEntries
  <2>7. ASSUME NEW i \in Contents
        PROVE  /\ i # Meta /\ (i \in dirty' <=> i \in dirty) /\ (i \in patch' <=> i \in patch)
               /\ Patched(i)' <=> Patched(i)
               /\ \A n : Sending(i, n)' = Sending(i, n)
    <3>1. i # Meta /\ (i \in dirty' <=> i \in dirty) /\ (i \in patch' <=> i \in patch)
      BY <2>1, <2>2
    <3> QED BY <2>1, <3>1, SendingKept
  <2>8. MetaPatched => records # <<>>
    <3>1. SUFFICES ASSUME records = <<>>, MetaPatched PROVE FALSE
      OBVIOUS
    <3>2. Contents = {}
      BY <2>2, <3>1
    <3> QED BY <3>1, <3>2 DEF MetaPatched, RecordsChanged
  <2>9. Patched(Meta)' => Meta \in dirty'
    BY <2>1 DEF Patched, IInv, NcasOK
  <2>10. \A i \in Contents : Patched(i)' => i \in dirty'
    BY <2>7 DEF IInv, NcasOK
  <2>11. ASSUME NEW i \in 1..(nca - 1) PROVE Finished(i)'
    <3>1. i \in Contents
      BY <2>2
    <3> QED BY <2>1, <2>2, <2>7, <3>1 DEF Finished
  <2>12. ASSUME NEW i \in (nca + 1)..N PROVE Fresh(i)'
    <3>1. ~MetaPatched
      BY <2>2 DEF MetaPatched
    <3>2. UNCHANGED ncaVars
      BY <2>1, <3>1 DEF ncaVars
    <3> QED BY <2>2, <3>2, NcasKept
  <2>13. Underway(nca)'
    <3>1. sent'[nca] = Sending(nca, 1 - 1)'
      BY <2>1, <2>2, SendingNothing DEF Fresh, Sending
    <3>2. contentId'[nca] = Clean(nca) /\ (nca \in Contents => records'[nca] = Clean(nca))
      BY <2>1, <2>2 DEF Fresh
    <3>3. nca \in patch' <=> Patched(nca)'
      <4>1. CASE nca \in Contents
        <5>1. (nca \in patch' <=> nca \in patch) /\ (Patched(nca)' <=> Patched(nca))
          <6>1. nca' = nca
            BY <2>1
          <6> QED BY <2>7, <4>1, <6>1
        <5>2. nca \in patch <=> Patched(nca)
          BY <2>2, <4>1 DEF Fresh
        <5> QED BY <5>1, <5>2
      <4>2. CASE nca = Meta
        <5>1. Patched(nca)' <=> metaRecords' # <<>>
          BY <2>1, <4>2 DEF Patched
        <5>2. nca \notin patch /\ metaRecords = <<>>
          BY <2>2, <4>2 DEF Fresh
        <5>3. CASE MetaPatched
          BY <2>1, <2>8, <4>2, <5>1, <5>3
        <5>4. CASE ~MetaPatched
          BY <2>1, <5>1, <5>2, <5>4
        <5> QED BY <5>3, <5>4
      <4> QED BY <2>2, <4>1, <4>2
    <3>4. ~Before(HeaderBlocks[nca], 1) /\ ~Before(PatchBlocks[nca], 1)
      BY <2>2, NoneBefore
    <3>5. FlagsOK(nca)'
      <4>1. headerWritten' <=> nca \in dirty' /\ Before(HeaderBlocks[nca], 1)
        BY <2>1, <3>4
      <4>2. dirtyHeader' <=> nca \in dirty'
        BY <2>1
      <4>3. Before(HeaderBlocks[nca], 1)' = Before(HeaderBlocks[nca], 1)
            /\ Before(PatchBlocks[nca], 1)' = Before(PatchBlocks[nca], 1)
        BY <2>1 DEF Before
      <4> QED BY <2>1, <3>3, <3>4, <4>1, <4>2, <4>3 DEF FlagsOK
    <3> QED BY <2>1, <3>1, <3>2, <3>5 DEF Underway
  <2>14. nca = Meta => MetaOK'
    <3> SUFFICES ASSUME nca = Meta PROVE MetaOK'
      OBVIOUS
    <3>1. \A i \in Contents : records[i] = sent[i]
      BY <2>2 DEF Finished
    <3>2. metaRecords = <<>>
      BY <2>2 DEF Fresh
    <3>3. CASE MetaPatched
      <4>1. metaRecords' = records /\ metaRecords' # <<>> /\ sent' = sent
        BY <2>1, <2>8, <3>3
      <4> QED BY <3>1, <4>1 DEF MetaOK
    <3>4. CASE ~MetaPatched
      <4>1. metaRecords' = <<>> /\ sent' = sent
        BY <2>1, <3>2, <3>4
      <4>2. \A i \in Contents : records[i] = Clean(i)
        BY <3>4 DEF MetaPatched, RecordsChanged
      <4> QED BY <3>1, <4>1, <4>2 DEF MetaOK
    <3> QED BY <3>3, <3>4
  <2>15. NcasOK'
    BY <2>1, <2>2, <2>6, <2>9, <2>10, <2>11, <2>12, <2>13, <2>14 DEF NcasOK
  <2>16. written' = BlocksUpTo[nca' - 1] + block' - 1
    <3>1. nca - 1 \in 0..N
      BY <2>2
    <3> QED BY <2>1, <2>2, <3>1, BlocksUpToDef
  <2>17. NamesOK'
    BY <1>1, <2>1, InNcasFacts, NamesKept
  <2> QED
    BY <1>1, <2>1, <2>3, <2>4, <2>5, <2>6, <2>15, <2>16, <2>17, InNcasKeeps
<1> QED BY <1>2, <1>3, <1>4

LEMMA NextBlockKeeps == IInv /\ NextBlock => IInv'
<1> SUFFICES ASSUME IInv, NextBlock PROVE IInv'
  OBVIOUS
<1>1. /\ tpc = "nextBlock" /\ InBlocks /\ InNcas /\ tpc \notin Over
      /\ UNCHANGED <<ncaVars, mpc, loopVars, headerWritten, dirtyHeader, hash, names, stored, header,
                     lost, sharedVars, success, result, package>>
  BY DEF NextBlock, InBlocks, InNcas, Over, ncaVars, contentVars, cnmtVars, outputVars
<1>2. \/ tpc' = "end"
      \/ tpc' = "finishNca" /\ block > Blocks[nca]
      \/ tpc' = "block" /\ ~(block > Blocks[nca])
  BY DEF NextBlock, GoTo, NoBlockLeft
<1>3. CASE tpc' = "end"
  BY <1>1, <1>3, FailureKeeps
<1>4. CASE tpc' # "end"
  <2>1. nca \in Ncas /\ Blocks[nca] \in Nat /\ block \in Nat /\ block <= Blocks[nca] + 1
    BY <1>1, TitleFacts DEF IInv, TypeOK, CounterTypes
  <2>2. \/ tpc' = "finishNca" /\ block = Blocks[nca] + 1
        \/ tpc' = "block" /\ block <= Blocks[nca]
    BY <1>2, <1>4, <2>1
  <2>3. ThreadTypes'
    BY <1>1, <2>2 DEF IInv, TypeOK, ThreadTypes, ThreadPcs
  <2>4. CounterTypes'
    BY <1>1, <2>1 DEF IInv, TypeOK, CounterTypes, ncaVars, loopVars, sharedVars
  <2>5. FlagTypes'
    BY <1>1 DEF IInv, TypeOK, FlagTypes, ncaVars, loopVars, sharedVars
  <2>6. InBlocks' /\ InNcas' /\ ~Starting' /\ ~InEntries' /\ ~success' /\ tpc' # "startNca"
    BY <1>1, <2>2, InNcasFacts DEF InBlocks, InNcas, Starting, InEntries
  <2>7. NcasOK'
    <3>1. /\ MetaOK' <=> MetaOK
          /\ \A i : /\ Patched(i)' <=> Patched(i)
                    /\ Fresh(i)' <=> Fresh(i)
                    /\ Finished(i)' <=> Finished(i)
      BY <1>1, NcasKept
    <3>2. UNCHANGED <<nca, block, headerWritten, dirtyHeader, patch, dirty, sent, contentId, records,
                      opts, ctx, metaRecords>>
      BY <1>1 DEF loopVars, ncaVars
    <3>3. Underway(nca)
      BY <1>1 DEF IInv, NcasOK
    <3>4. FlagsOK(nca)'
      <4>1. Patched(nca)' <=> Patched(nca)
        BY <3>1, <3>2
      <4> QED BY <3>2, <3>3, <4>1 DEF Underway, FlagsOK, Before
    <3>5. Sending(nca, block - 1)' = Sending(nca, block - 1)
      BY <3>2 DEF Sending, Block, Patched
    <3>6. Underway(nca)'
      BY <2>2, <3>2, <3>3, <3>4, <3>5 DEF Underway
    <3>7. (\A i \in 1..(nca' - 1) : Finished(i)') /\ (\A i \in (nca' + 1)..N : Fresh(i)')
      BY <1>1, <3>1, <3>2, InNcasFacts
    <3>8. /\ DOMAIN sent' = Ncas /\ DOMAIN contentId' = Ncas /\ DOMAIN records' = Contents
          /\ Patched(Meta)' => Meta \in dirty'
          /\ \A i \in Contents : Patched(i)' => i \in dirty'
          /\ nca' = Meta => MetaOK'
      BY <1>1, <3>1, <3>2 DEF IInv, NcasOK
    <3> QED BY <2>6, <3>6, <3>7, <3>8 DEF NcasOK
  <2>8. written' = BlocksUpTo[nca' - 1] + block' - 1
    BY <1>1 DEF IInv, CountOK, loopVars, sharedVars
  <2>9. UNCHANGED <<opts, ctx, mpc, icon, total, error, cancelled, success, result, package, names,
                    contentId>>
    BY <1>1 DEF loopVars, sharedVars, ncaVars
  <2>10. NamesOK'
    BY <1>1, <2>9, InNcasFacts, NamesKept
  <2> QED
    BY <1>1, <2>3, <2>4, <2>5, <2>6, <2>7, <2>8, <2>9, <2>10, InNcasKeeps
<1> QED BY <1>3, <1>4

\* A block is sent with the pieces that belong into it.
LEMMA BlockIsSent ==
  ASSUME nca \in Ncas, FlagsOK(nca), block \in Nat, Patched(nca) => nca \in dirty
  PROVE  SentBlock = Block(nca, block)
<1>1. HeaderApplied <=> nca \in dirty /\ block \in HeaderBlocks[nca]
  BY DEF HeaderApplied, FlagsOK, Before
<1>2. PatchApplied <=> block \in PatchBlocks[nca] /\ Patched(nca)
  BY DEF PatchApplied, FlagsOK, Before
<1> QED BY <1>1, <1>2 DEF SentBlock, Block

\* And the flags go on saying what is still to come.
LEMMA FlagsGoOn ==
  ASSUME nca \in Ncas, FlagsOK(nca), block \in Nat, Patched(nca) => nca \in dirty,
         headerWritten' <=> headerWritten \/ (dirtyHeader /\ IsLastOf(block, HeaderBlocks[nca])),
         patch' = (IF dirtyHeader /\ IsLastOf(block, PatchBlocks[nca]) THEN patch \ {nca} ELSE patch),
         dirtyHeader' <=> dirtyHeader /\ StillDirty(headerWritten', nca \in patch'),
         block' = block + 1, UNCHANGED <<nca, dirty, opts, ctx, metaRecords>>
  PROVE  FlagsOK(nca)'
<1>1. HeaderBlocks[nca] \subseteq Nat /\ PatchBlocks[nca] \subseteq Nat
  BY PieceFacts
<1>2. ASSUME NEW pieces, pieces \subseteq Nat
      PROVE  /\ Before(pieces, block + 1) <=> IsLastOf(block, pieces)
             /\ Before(pieces, block) => Before(pieces, block + 1)
  BY <1>2 DEF Before, IsLastOf
<1> DEFINE H0 == Before(HeaderBlocks[nca], block)
           H1 == Before(HeaderBlocks[nca], block + 1)
           P0 == Before(PatchBlocks[nca], block)
           P1 == Before(PatchBlocks[nca], block + 1)
<1>3. (H1 <=> IsLastOf(block, HeaderBlocks[nca])) /\ (H0 => H1)
  BY <1>1, <1>2
<1>4. (P1 <=> IsLastOf(block, PatchBlocks[nca])) /\ (P0 => P1)
  BY <1>1, <1>2
<1>5. /\ headerWritten <=> nca \in dirty /\ H0
      /\ nca \in patch <=> Patched(nca) /\ ~P0
      /\ dirtyHeader <=> nca \in dirty /\ (~H0 \/ (Patched(nca) /\ ~P0))
  BY DEF FlagsOK
<1> HIDE DEF H0, H1, P0, P1
<1>6. headerWritten' <=> nca \in dirty /\ H1
  BY <1>3, <1>5
<1>7. nca \in patch' <=> Patched(nca) /\ ~P1
  BY <1>4, <1>5
<1>8. dirtyHeader' <=> nca \in dirty /\ (~H1 \/ (Patched(nca) /\ ~P1))
  <2>1. dirtyHeader' <=> dirtyHeader /\ (~headerWritten' \/ nca \in patch')
    BY DEF StillDirty
  <2> QED BY <1>3, <1>4, <1>5, <1>6, <1>7, <2>1
<1>9. Patched(nca)' <=> Patched(nca)
  BY DEF Patched
<1> QED BY <1>6, <1>7, <1>8, <1>9 DEF FlagsOK, H1, P1, Before

LEMMA SendBlockKeeps == IInv /\ SendBlock => IInv'
<1> SUFFICES ASSUME IInv, SendBlock PROVE IInv'
  OBVIOUS
<1>1. tpc = "block" /\ InBlocks /\ InNcas /\ tpc \notin Over
  BY DEF SendBlock, InBlocks, InNcas, Over
<1>2. CASE Abandon
  BY <1>1, <1>2, AbandonKeeps
<1>3. CASE UsbFails
  BY <1>1, <1>3, UsbFailsKeeps
<1>4. CASE ~Abandon /\ ~UsbFails
  <2>1. /\ sent' = [sent EXCEPT ![nca] = Append(@, SentBlock)]
        /\ headerWritten' = (headerWritten \/ (dirtyHeader /\ IsLastOf(block, HeaderBlocks[nca])))
        /\ patch' = (IF dirtyHeader /\ IsLastOf(block, PatchBlocks[nca]) THEN patch \ {nca} ELSE patch)
        /\ dirtyHeader' = (dirtyHeader /\ StillDirty(headerWritten', nca \in patch'))
        /\ lost' \in (IF ~opts.usb /\ "write" \in Faults THEN {lost, TRUE} ELSE {lost})
        /\ block' = block + 1 /\ written' = written + 1 /\ tpc' = "nextBlock"
        /\ UNCHANGED <<opts, mpc, nca, icon, confirmed, ctx, dirty, contentId, hash, records,
                       metaRecords, names, stored, header, package, total, error, cancelled, success,
                       result>>
    BY <1>4 DEF SendBlock, GoTo, cnmtVars
  <2>2. /\ nca \in Ncas /\ (\A i \in 1..(nca - 1) : Finished(i))
        /\ \A i \in (nca + 1)..N : Fresh(i)
        /\ Underway(nca) /\ FlagsOK(nca) /\ sent[nca] = Sending(nca, block - 1)
        /\ block \in Nat \ {0} /\ block <= Blocks[nca]
        /\ DOMAIN sent = Ncas /\ DOMAIN contentId = Ncas /\ DOMAIN records = Contents
        /\ written = BlocksUpTo[nca - 1] + block - 1 /\ written \in Nat
    BY <1>1, InNcasFacts DEF IInv, NcasOK, CountOK, Underway, TypeOK, CounterTypes
  <2>3. /\ N \in Nat /\ N > 0 /\ Meta = N /\ Ncas = 1..N /\ Contents = 1..(N - 1)
        /\ Blocks[nca] \in Nat
    BY <2>2, TitleFacts
  <2>4. Patched(nca) => nca \in dirty
    <3>1. nca \in Contents \/ nca = Meta
      BY <2>2, <2>3
    <3> QED BY <3>1 DEF IInv, NcasOK
  <2>5. ThreadTypes'
    BY <2>1 DEF IInv, TypeOK, ThreadTypes, ThreadPcs
  <2>6. CounterTypes'
    BY <2>1, <2>2, <2>3 DEF IInv, TypeOK, CounterTypes
  <2>7. FlagTypes'
    BY <2>1 DEF IInv, TypeOK, FlagTypes
  <2>8. InBlocks' /\ InNcas' /\ ~Starting' /\ ~InEntries' /\ ~success'
    BY <1>1, <2>1, InNcasFacts DEF InBlocks, InNcas, Starting, InEntries
  <2>9. \A i : /\ Patched(i)' <=> Patched(i)
               /\ \A n : Sending(i, n)' = Sending(i, n)
    BY <2>1, SendingKept
  <2>10. \A i \in Ncas : i # nca => sent'[i] = sent[i] /\ (i \in patch' <=> i \in patch)
    BY <2>1, <2>2
  <2>11. ASSUME NEW i \in 1..(nca - 1) PROVE Finished(i)'
    <3>1. i \in Ncas /\ i # nca
      BY <2>2, <2>3
    <3>2. sent'[i] = sent[i] /\ Finished(i)
      BY <2>2, <2>10, <3>1
    <3> QED BY <2>1, <2>9, <3>2 DEF Finished
  <2>12. ASSUME NEW i \in (nca + 1)..N PROVE Fresh(i)'
    <3>1. i \in Ncas /\ i # nca
      BY <2>2, <2>3
    <3>2. sent'[i] = sent[i] /\ (i \in patch' <=> i \in patch) /\ Fresh(i)
      BY <2>2, <2>10, <3>1
    <3> QED BY <2>1, <2>9, <3>2 DEF Fresh
  <2>13. Underway(nca)'
    <3>1. sent'[nca] = Sending(nca, block)
      <4>1. SentBlock = Block(nca, block)
        BY <2>2, <2>4, BlockIsSent
      <4>2. sent'[nca] = Append(sent[nca], SentBlock)
        BY <2>1, <2>2
      <4>3. block - 1 \in Nat /\ (block - 1) + 1 = block
        BY <2>2
      <4>4. Append(Sending(nca, block - 1), Block(nca, block)) = Sending(nca, block)
        BY <4>3, SendingAppend
      <4> QED BY <2>2, <4>1, <4>2, <4>4
    <3>2. FlagsOK(nca)'
      BY <2>1, <2>2, <2>4, FlagsGoOn
    <3>3. (block - 1)' = block
      BY <2>1, <2>2
    <3>4. sent'[nca] = Sending(nca, block - 1)'
      BY <2>1, <2>9, <3>1, <3>3
    <3> QED BY <2>1, <2>2, <3>2, <3>4 DEF Underway
  <2>14. nca = Meta => MetaOK'
    <3> SUFFICES ASSUME nca = Meta PROVE MetaOK'
      OBVIOUS
    <3>1. MetaOK
      BY <1>1 DEF IInv, NcasOK
    <3>2. \A i \in Contents : sent'[i] = sent[i]
      BY <2>3, <2>10
    <3> QED BY <2>1, <3>1, <3>2 DEF MetaOK
  <2>15. NcasOK'
    <3>1. /\ Patched(Meta)' => Meta \in dirty'
          /\ \A i \in Contents : Patched(i)' => i \in dirty'
      BY <2>1, <2>9 DEF IInv, NcasOK
    <3>2. DOMAIN sent' = Ncas
      BY <2>1, <2>2
    <3> QED BY <2>1, <2>2, <2>8, <2>11, <2>12, <2>13, <2>14, <3>1, <3>2 DEF NcasOK
  <2>16. written' = BlocksUpTo[nca' - 1] + block' - 1
    <3>1. nca - 1 \in 0..N
      BY <2>2, <2>3
    <3>2. BlocksUpTo[nca - 1] \in Nat
      BY <3>1, BlocksUpToDef
    <3> QED BY <2>1, <2>2, <3>2
  <2>17. NamesOK'
    BY <1>1, <2>1, InNcasFacts, NamesKept
  <2> QED
    BY <1>1, <2>1, <2>5, <2>6, <2>7, <2>8, <2>15, <2>16, <2>17, InNcasKeeps
<1> QED BY <1>2, <1>3, <1>4

\* What holds while entries are sent
LEMMA InEntriesFacts ==
  ASSUME IInv, InEntries
  PROVE  /\ tpc \notin Over /\ ~success /\ package = "open" /\ total = NspSize /\ NamesOK /\ MetaOK
         /\ nca \in Ncas /\ ~Starting /\ ~InNcas /\ ~InBlocks
         /\ \A i \in Ncas : Finished(i)
         /\ \A k \in (N + 1)..(Position - 1) : EntryOK(k)
         /\ written = BlocksUpTo[N] + Position - N - 1
<1>1. tpc \notin Over /\ ~Starting /\ ~InNcas /\ ~InBlocks
  BY DEF InNcas, InBlocks, InEntries, Starting, Over
<1> QED BY <1>1, NotOver DEF IInv, TypeOK, CounterTypes, NcasOK, EntriesOK, CountOK, PackageOK

\* Once all NCAs are sent as they have to be, these are left to be shown.
LEMMA InEntriesKeeps ==
  ASSUME IInv, tpc \notin Over, InEntries', ThreadTypes', CounterTypes', FlagTypes',
         UNCHANGED <<opts, ctx, dirty, metaRecords, sent, mpc, total, error, cancelled, success,
                     result, package>>,
         package = "open", total = NspSize,
         DOMAIN contentId' = Ncas, DOMAIN records' = Contents, \A i \in Ncas : Finished(i)', MetaOK',
         NamesOK', \A k \in (N + 1)..(Position' - 1) : EntryOK(k)',
         tpc' \in {"cnmtXml", "ctxData"} => opts.authoring,
         tpc' = "cnmtXml" => nca' = 1 /\ icon' = 0,
         tpc' = "cert" => TicketKept,
         tpc' = "ctxData" => icon' <= (IF nca' \in ctx THEN Len(IconEntries(nca')) ELSE 0),
         written' = BlocksUpTo[N] + Position' - N - 1
  PROVE  IInv'
<1>1. ~Starting' /\ ~InNcas' /\ ~InBlocks' /\ tpc' \notin Over /\ ~success'
  BY NotOver DEF InNcas, InBlocks, InEntries, Starting, Over
<1>2. Layout' = Layout /\ NspSize' = NspSize /\ TicketKept' = TicketKept
  BY LayoutKept
<1>3. NcasOK'
  <2>1. \A i : Patched(i)' <=> Patched(i)
    BY DEF Patched
  <2>2. /\ Patched(Meta)' => Meta \in dirty'
        /\ \A i \in Contents : Patched(i)' => i \in dirty'
        /\ DOMAIN sent' = Ncas
    BY <2>1 DEF IInv, NcasOK
  <2>3. tpc' # "startNca"
    BY <1>1 DEF InNcas
  <2> QED BY <1>1, <2>2, <2>3 DEF NcasOK
<1>4. EntriesOK'
  BY <1>1, <1>2 DEF EntriesOK, Starting, IconEntries
<1>5. CountOK'
  BY <1>1, <1>2 DEF CountOK, InNcas
<1>6. PackageOK'
  BY <1>1, PackageUntouched
<1> QED BY <1>3, <1>4, <1>5, <1>6 DEF IInv, TypeOK

LEMMA NcaFinishedKeeps == IInv /\ NcaFinished => IInv'
<1> SUFFICES ASSUME IInv, NcaFinished PROVE IInv'
  OBVIOUS
<1>1. tpc = "finishNca" /\ InBlocks /\ InNcas /\ tpc \notin Over
  BY DEF NcaFinished, InBlocks, InNcas, Over
<1>2. /\ tpc' = AfterNca /\ nca' = (IF nca < Meta THEN nca + 1 ELSE 1)
      /\ UNCHANGED <<opts, mpc, block, icon, confirmed, ctx, dirty, patch, headerWritten, dirtyHeader,
                     metaRecords, sent, stored, header, lost, package, total, written, error,
                     cancelled, success, result>>
  BY DEF NcaFinished, GoTo, outputVars, sharedVars
<1>3. \/ /\ sent[nca] # Clean(nca)
         /\ contentId' = [contentId EXCEPT ![nca] = sent[nca]]
         /\ records' = IF nca = Meta THEN records ELSE [records EXCEPT ![nca] = sent[nca]]
         /\ names' = [names EXCEPT ![nca] = sent[nca]]
      \/ /\ sent[nca] = Clean(nca)
         /\ UNCHANGED <<contentId, records, names>>
  BY DEF NcaFinished, UpdateRecord
<1>4. /\ N \in Nat /\ N > 0 /\ Meta = N /\ Ncas = 1..N /\ Contents = 1..(N - 1)
      /\ nca \in Ncas /\ nca \in Nat /\ Blocks[nca] \in Nat
      /\ (\A i \in 1..(nca - 1) : Finished(i)) /\ (\A i \in (nca + 1)..N : Fresh(i))
      /\ DOMAIN sent = Ncas /\ DOMAIN contentId = Ncas /\ DOMAIN records = Contents
      /\ total = NspSize /\ icon = 0 /\ ~success /\ package = "open"
  BY <1>1, InNcasFacts, TitleFacts DEF IInv, NcasOK
<1>5. /\ block = Blocks[nca] + 1 /\ sent[nca] = Sending(nca, block - 1) /\ contentId[nca] = Clean(nca)
      /\ nca \in Contents => records[nca] = Clean(nca)
      /\ written = BlocksUpTo[nca - 1] + block - 1
  BY <1>1 DEF IInv, NcasOK, Underway, CountOK
<1>6. sent[nca] = Sending(nca, Blocks[nca])
  <2>1. block - 1 = Blocks[nca]
    BY <1>4, <1>5
  <2> QED BY <1>5, <2>1
<1>7. /\ DOMAIN contentId' = Ncas /\ DOMAIN records' = Contents /\ contentId'[nca] = sent[nca]
      /\ nca \in Contents => records'[nca] = sent[nca]
      /\ \A i \in Ncas : i # nca => /\ contentId'[i] = contentId[i]
                                    /\ i \in Contents => records'[i] = records[i]
  <2>1. CASE sent[nca] = Clean(nca)
    BY <1>3, <1>4, <1>5, <2>1
  <2>2. CASE sent[nca] # Clean(nca)
    <3>1. /\ contentId' = [contentId EXCEPT ![nca] = sent[nca]]
          /\ records' = IF nca = Meta THEN records ELSE [records EXCEPT ![nca] = sent[nca]]
      BY <1>3, <2>2
    <3>2. DOMAIN contentId' = Ncas /\ contentId'[nca] = sent[nca]
          /\ \A i \in Ncas : i # nca => contentId'[i] = contentId[i]
      BY <1>4, <3>1
    <3>3. CASE nca = Meta
      <4>1. nca \notin Contents /\ records' = records
        BY <1>4, <3>1, <3>3
      <4> QED BY <1>4, <3>2, <4>1
    <3>4. CASE nca # Meta
      <4>1. nca \in Contents /\ records' = [records EXCEPT ![nca] = sent[nca]]
        BY <1>4, <3>1, <3>4
      <4>2. DOMAIN records' = Contents /\ records'[nca] = sent[nca]
            /\ \A i \in Contents : i # nca => records'[i] = records[i]
        BY <1>4, <4>1
      <4> QED BY <3>2, <4>2
    <3> QED BY <3>3, <3>4
  <2> QED BY <2>1, <2>2
<1>8. \A i : /\ Patched(i)' <=> Patched(i)
             /\ \A n : Sending(i, n)' = Sending(i, n)
  BY <1>2, SendingKept
<1>9. ASSUME NEW i \in 1..nca PROVE Finished(i)'
  <2>1. CASE i = nca
    BY <1>2, <1>6, <1>7, <1>8, <2>1 DEF Finished
  <2>2. CASE i # nca
    <3>1. i \in 1..(nca - 1) /\ i \in Ncas
      BY <1>4, <2>2
    <3>2. Finished(i)
      BY <1>4, <3>1
    <3> QED BY <1>2, <1>7, <1>8, <2>2, <3>1, <3>2 DEF Finished
  <2> QED BY <2>1, <2>2
<1>10. ASSUME NEW i \in (nca + 1)..N PROVE Fresh(i)'
  <2>1. i \in Ncas /\ i # nca
    BY <1>4
  <2>2. Fresh(i)
    BY <1>4
  <2> QED BY <1>2, <1>7, <1>8, <2>1, <2>2 DEF Fresh
<1>11. NamesOK'
  <2>1. Layout' = Layout /\ NamesOK
    BY <1>1, <1>2, LayoutKept, InNcasFacts
  <2>2. \A i \in Ncas : i \in DOMAIN names
    BY <1>4, <2>1, LayoutFacts DEF NamesOK
  <2>3. DOMAIN names' = DOMAIN names
    BY <1>3
  <2>4. names'[nca] = sent[nca]
    BY <1>3, <1>4, <1>5, <2>1, <2>2 DEF NamesOK
  <2>5. \A i \in Ncas : i # nca => names'[i] = names[i]
    BY <1>3, <2>2
  <2> QED BY <1>7, <2>1, <2>3, <2>4, <2>5 DEF NamesOK
<1>12. FlagTypes'
  BY <1>2 DEF IInv, TypeOK, FlagTypes
<1>13. CASE nca < Meta
  <2>1. tpc' = "startNca" /\ nca' = nca + 1 /\ nca + 1 \in Ncas
    BY <1>2, <1>4, <1>13 DEF AfterNca
  <2>2. ThreadTypes'
    BY <1>2, <2>1 DEF IInv, TypeOK, ThreadTypes, ThreadPcs
  <2>3. CounterTypes'
    BY <1>2, <2>1 DEF IInv, TypeOK, CounterTypes
  <2>4. InNcas' /\ ~InBlocks' /\ ~Starting' /\ ~InEntries' /\ ~success'
    BY <1>2, <1>4, <2>1 DEF InBlocks, InNcas, Starting, InEntries
  <2>5. NcasOK'
    <3>1. /\ Patched(Meta)' => Meta \in dirty'
          /\ \A i \in Contents : Patched(i)' => i \in dirty'
      BY <1>2, <1>8 DEF IInv, NcasOK
    <3>2. \A i \in 1..(nca' - 1) : Finished(i)'
      BY <1>4, <1>9, <2>1
    <3>3. \A i \in (nca' + 1)..N : Fresh(i)'
      BY <1>4, <1>10, <2>1
    <3>4. Fresh(nca)'
      BY <1>4, <1>10, <2>1
    <3> QED BY <1>2, <1>4, <1>7, <2>4, <3>1, <3>2, <3>3, <3>4 DEF NcasOK
  <2>6. written' = BlocksUpTo[nca' - 1]
    <3>1. nca \in 0..N /\ nca - 1 \in 0..N /\ nca # 0 /\ (nca + 1) - 1 = nca
      BY <1>4
    <3>2. BlocksUpTo[nca] = BlocksUpTo[nca - 1] + Blocks[nca] /\ BlocksUpTo[nca - 1] \in Nat
      BY <3>1, BlocksUpToDef
    <3> QED BY <1>2, <1>4, <1>5, <2>1, <3>1, <3>2
  <2> QED
    BY <1>1, <1>2, <1>11, <1>12, <2>1, <2>2, <2>3, <2>4, <2>5, <2>6, InNcasKeeps
<1>14. CASE ~(nca < Meta)
  <2>1. nca = N /\ nca' = 1
    BY <1>2, <1>4, <1>14
  <2>2. tpc' = IF opts.authoring THEN "cnmtXml" ELSE "ticket"
    BY <1>2, <1>4, <2>1 DEF AfterNca
  <2>3. ThreadTypes'
    BY <1>2, <2>2 DEF IInv, TypeOK, ThreadTypes, ThreadPcs
  <2>4. CounterTypes'
    BY <1>2, <1>4, <2>1, <2>2 DEF IInv, TypeOK, CounterTypes
  <2>5. InEntries'
    BY <2>2 DEF InEntries
  <2>6. MetaOK'
    BY <1>1, <1>2, <1>4, <2>1 DEF IInv, NcasOK, MetaOK
  <2>7. \A i \in Ncas : Finished(i)'
    BY <1>4, <1>9, <2>1
  <2>8. Position' = N + 1
    <3>1. CASE opts.authoring
      BY <2>2, <3>1 DEF Position
    <3>2. CASE ~opts.authoring
      BY <1>2, <1>4, <2>2, <3>2 DEF Position, TicketAt
    <3> QED BY <3>1, <3>2
  <2>9. \A k \in (N + 1)..(Position' - 1) : EntryOK(k)'
    BY <1>4, <2>8
  <2>10. written' = BlocksUpTo[N] + Position' - N - 1
    <3>1. N \in 0..N /\ N - 1 \in 0..N /\ N # 0
      BY <1>4
    <3>2. BlocksUpTo[N] = BlocksUpTo[N - 1] + Blocks[N] /\ BlocksUpTo[N - 1] \in Nat
      BY <3>1, BlocksUpToDef
    <3>3. written' = BlocksUpTo[N - 1] + block - 1 /\ block = Blocks[N] + 1 /\ Blocks[N] \in Nat
      BY <1>2, <1>4, <1>5, <2>1
    <3>4. written' = BlocksUpTo[N]
      BY <3>2, <3>3
    <3>5. BlocksUpTo[N] + Position' - N - 1 = BlocksUpTo[N]
      BY <1>4, <2>8, <3>2, <3>3
    <3> QED BY <3>4, <3>5
  <2> QED
    BY <1>1, <1>2, <1>4, <1>7, <1>11, <1>12, <2>1, <2>2, <2>3, <2>4, <2>5, <2>6, <2>7, <2>9, <2>10,
       InEntriesKeeps
<1> QED BY <1>13, <1>14

\* A failed update is the end of the dump, like any other failure.
LEMMA FinishNcaKeeps == IInv /\ FinishNca => IInv'
<1> SUFFICES ASSUME IInv, FinishNca PROVE IInv'
  OBVIOUS
<1>1. CASE NcaFinished
  BY <1>1, NcaFinishedKeeps
<1>2. CASE tpc = "finishNca" /\ Abandon
  <2>1. tpc \notin Over
    BY <1>2 DEF Over
  <2> QED
    BY <1>2, <2>1, AbandonKeeps
<1> QED
  BY <1>1, <1>2 DEF FinishNca


\* Sending the next entry, under the name of its NCA
LEMMA SendFacts ==
  ASSUME IInv, InEntries, NEW k, NEW value, k = Position, Send(k, value),
         k \in (N + 1)..Len(Layout), DOMAIN names' = DOMAIN names,
         Layout[k].nca # 0 => Layout[k].nca \in Ncas /\ names'[k] = contentId[Layout[k].nca],
         \A j \in DOMAIN names : j # k => names'[j] = names[j],
         Layout[k].kind # "cnmt" => value = Layout[k],
         Layout[k].kind = "cnmt" => \A i \in Ncas : value[i][1] = contentId[i]
  PROVE  /\ UNCHANGED <<ncaVars, dirty, mpc, total, error, cancelled, success, result, package>>
         /\ \A i \in Ncas : Finished(i)'
         /\ MetaOK' /\ NamesOK' /\ FlagTypes'
         /\ \A j \in (N + 1)..k : EntryOK(j)'
         /\ written' = BlocksUpTo[N] + (k + 1) - N - 1 /\ written' \in Nat
<1>1. /\ stored' = [j \in DOMAIN stored \cup {k} |-> IF j = k THEN value ELSE stored[j]]
      /\ written' = written + 1
      /\ lost' \in (IF ~opts.usb /\ "write" \in Faults THEN {lost, TRUE} ELSE {lost})
      /\ UNCHANGED <<ncaVars, dirty, mpc, confirmed, headerWritten, dirtyHeader, total, error,
                     cancelled, success, result, package>>
  BY DEF Send, ncaVars, contentVars, cnmtVars
<1>2. /\ \A i \in Ncas : Finished(i)'
      /\ MetaOK'
  BY <1>1, NcasKept, InEntriesFacts
<1>3. UNCHANGED <<opts, ctx, sent, contentId>>
  BY <1>1 DEF ncaVars
<1>4. Layout' = Layout
  BY <1>3, LayoutKept
<1>5. /\ N \in Nat /\ Ncas = 1..N /\ Len(Layout) \in Nat /\ k \in Nat
      /\ NamesOK /\ written = BlocksUpTo[N] + k - N - 1 /\ BlocksUpTo[N] \in Nat
      /\ written \in Nat
  <2>1. N \in Nat /\ Ncas = 1..N /\ BlocksUpTo[N] \in Nat
    BY TitleFacts, BlocksUpToDef
  <2>2. Len(Layout) \in Nat
    BY LayoutFacts
  <2>3. NamesOK /\ written = BlocksUpTo[N] + k - N - 1
    BY InEntriesFacts
  <2>4. written \in Nat
    BY DEF IInv, TypeOK, CounterTypes
  <2> QED BY <2>1, <2>2, <2>3, <2>4
<1>6. NamesOK'
  <2>1. \A i \in Ncas : i # k /\ i \in DOMAIN names
    BY <1>5, LayoutFacts DEF NamesOK
  <2> QED BY <1>3, <1>4, <1>5, <2>1 DEF NamesOK
<1>7. FlagTypes'
  <2>1. opts' = opts
    BY <1>3
  <2>2. lost' \in BOOLEAN
    BY <1>1 DEF IInv, TypeOK, FlagTypes
  <2> QED BY <1>1, <2>1, <2>2 DEF IInv, TypeOK, FlagTypes
<1>8. ASSUME NEW j \in (N + 1)..k PROVE EntryOK(j)'
  <2>1. CASE j = k
    <3>1. k \in DOMAIN stored' /\ stored'[k] = value
      BY <1>1
    <3>2. Layout[k].nca # 0 => contentId[Layout[k].nca] = sent[Layout[k].nca]
      BY InEntriesFacts DEF Finished
    <3>3. \A i \in Ncas : contentId[i] = sent[i]
      BY InEntriesFacts DEF Finished
    <3> QED BY <1>3, <1>4, <2>1, <3>1, <3>2, <3>3 DEF EntryOK
  <2>2. CASE j # k
    <3>1. j \in (N + 1)..(Position - 1)
      BY <1>5, <2>2
    <3>2. EntryOK(j)
      BY <3>1, InEntriesFacts
    <3>3. j \in DOMAIN stored /\ j \in DOMAIN stored' /\ stored'[j] = stored[j]
      BY <1>1, <2>2, <3>2 DEF EntryOK
    <3>4. names'[j] = names[j]
      <4>1. j \in DOMAIN names
        BY <1>5, LayoutFacts DEF NamesOK
      <4> QED BY <2>2, <4>1
    <3> QED BY <1>3, <1>4, <3>2, <3>3, <3>4 DEF EntryOK
  <2> QED BY <2>1, <2>2
<1>9. written' = BlocksUpTo[N] + (k + 1) - N - 1 /\ written' \in Nat
  BY <1>1, <1>5
<1> QED BY <1>1, <1>2, <1>6, <1>7, <1>8, <1>9

\* What the sending of one entry does, and what it leads to
LEMMA SendKeeps ==
  ASSUME IInv, InEntries, NEW k, NEW value, k = Position, Send(k, value),
         k \in (N + 1)..Len(Layout), DOMAIN names' = DOMAIN names,
         Layout[k].nca # 0 => Layout[k].nca \in Ncas /\ names'[k] = contentId[Layout[k].nca],
         \A j \in DOMAIN names : j # k => names'[j] = names[j],
         Layout[k].kind # "cnmt" => value = Layout[k],
         Layout[k].kind = "cnmt" => \A i \in Ncas : value[i][1] = contentId[i],
         tpc' \in {"ctxData", "cert", "header"}, nca' \in Ncas, icon' \in Nat, Position' = k + 1,
         tpc' = "ctxData" => opts.authoring,
         tpc' = "cert" => TicketKept,
         tpc' = "ctxData" => icon' <= (IF nca' \in ctx THEN Len(IconEntries(nca')) ELSE 0)
  PROVE  IInv'
<1>1. /\ UNCHANGED <<ncaVars, dirty, mpc, total, error, cancelled, success, result, package>>
      /\ \A i \in Ncas : Finished(i)'
      /\ MetaOK' /\ NamesOK' /\ FlagTypes'
      /\ \A j \in (N + 1)..k : EntryOK(j)'
      /\ written' = BlocksUpTo[N] + (k + 1) - N - 1 /\ written' \in Nat
  BY SendFacts
<1>2. UNCHANGED <<opts, ctx, dirty, patch, metaRecords, sent, contentId, records>>
  BY <1>1 DEF ncaVars
<1>3. tpc \notin Over /\ InEntries' /\ package = "open" /\ total = NspSize
  BY InEntriesFacts DEF InEntries
<1>4. ThreadTypes'
  BY <1>1 DEF IInv, TypeOK, ThreadTypes, ThreadPcs
<1>5. CounterTypes'
  <2>1. block' = block
    BY DEF Send
  <2>2. tpc' \notin {"nextBlock", "block", "finishNca"}
    OBVIOUS
  <2> QED BY <1>1, <1>2, <2>1, <2>2 DEF IInv, TypeOK, CounterTypes
<1>6. \A j \in (N + 1)..(Position' - 1) : EntryOK(j)'
  BY <1>1, LayoutFacts, LengthIsPositive
<1>7. DOMAIN contentId' = Ncas /\ DOMAIN records' = Contents
  BY <1>2 DEF IInv, NcasOK
<1> QED
  BY <1>1, <1>2, <1>3, <1>4, <1>5, <1>6, <1>7, InEntriesKeeps

LEMMA SendCnmtXmlKeeps == IInv /\ SendCnmtXml => IInv'
<1> SUFFICES ASSUME IInv, SendCnmtXml PROVE IInv'
  OBVIOUS
<1>1. tpc = "cnmtXml" /\ InEntries /\ tpc \notin Over
  BY DEF SendCnmtXml, InEntries, Over
<1>2. CASE Abandon
  BY <1>1, <1>2, AbandonKeeps
<1>3. CASE UsbFails
  BY <1>1, <1>3, UsbFailsKeeps
<1>4. CASE ~Abandon /\ ~UsbFails
  <2>1. /\ Send(DataIdx(Meta), CnmtXml) /\ Rename(DataIdx(Meta), Meta)
        /\ tpc' = "ctxData" /\ nca' = nca /\ icon' = icon
    BY <1>4 DEF SendCnmtXml, GoTo
  <2>2. opts.authoring /\ nca = 1 /\ icon = 0 /\ NamesOK
    BY <1>1, InEntriesFacts DEF IInv, EntriesOK
  <2>3. DataIdx(Meta) = N + 1 /\ Position = N + 1
    BY <1>1, <2>2, DataIdxOfMeta DEF Position
  <2>4. /\ N \in Nat /\ Meta \in Ncas /\ 1 \in Ncas /\ Len(Layout) \in Nat
        /\ N + 1 \in (N + 1)..Len(Layout) /\ DOMAIN Layout = 1..Len(Layout)
    <3>1. TicketAt = N + 2 + CtxCount(N - 1) /\ CtxCount(N - 1) \in Nat
      BY <2>2, XmlPartFacts, LengthIsPositive DEF TicketAt
    <3> QED BY <3>1, LayoutFacts, TitleFacts
  <2>5. Layout[N + 1] = Entry("cnmt", Meta)
    BY <2>2, LayoutFacts
  <2>6. Layout[N + 1].kind = "cnmt" /\ Layout[N + 1].nca = Meta
    BY <2>5, EntryFields
  <2>7. names' = [names EXCEPT ![N + 1] = contentId[Meta]]
    BY <2>1, <2>3 DEF Rename
  <2>8. names'[N + 1] = contentId[Meta]
    BY <2>2, <2>4, <2>7 DEF NamesOK
  <2>9. \A i \in Ncas : CnmtXml[i][1] = contentId[i]
    BY DEF CnmtXml
  <2>10. Position' = (N + 1) + 1
    <3>1. opts' = opts /\ ctx' = ctx
      BY <2>1 DEF Send, contentVars
    <3>2. CtxCount(0)' = 0
      BY <3>1, LayoutKept, NoCtxBefore
    <3>3. tpc' = "ctxData" /\ nca' = 1 /\ icon' = 0 /\ nca' - 1 = 0
      BY <2>1, <2>2
    <3>4. CtxCount(nca - 1)' = 0
      BY <3>2, <3>3
    <3> QED BY <2>4, <3>3, <3>4 DEF Position
  <2>11. IF 1 \in ctx THEN 0 <= Len(IconEntries(1)) ELSE 0 <= 0
    <3>1. 1 \in ctx => 1 \in Contents
      BY DEF IInv, TypeOK, CounterTypes
    <3> QED BY <3>1, CtxEntriesFacts
  <2>12. Send(N + 1, CnmtXml)
    BY <2>1, <2>3
  <2> QED
    BY <1>1, <2>1, <2>2, <2>3, <2>4, <2>6, <2>7, <2>8, <2>9, <2>10, <2>11, <2>12, SendKeeps
<1> QED BY <1>2, <1>3, <1>4

\* Where the thread is among the contexts
LEMMA CtxDataFacts ==
  ASSUME IInv, tpc = "ctxData"
  PROVE  /\ InEntries /\ tpc \notin Over /\ opts.authoring /\ NamesOK /\ icon \in Nat /\ nca \in Ncas
         /\ icon <= (IF nca \in ctx THEN Len(IconEntries(nca)) ELSE 0)
         /\ Position = N + 2 + CtxCount(nca - 1) + icon
         /\ nca \in ctx => nca \in Contents /\ nca \in 1..(N - 1)
         /\ N \in Nat /\ N > 0 /\ Ncas = 1..N /\ Len(Layout) \in Nat /\ DOMAIN Layout = 1..Len(Layout)
         /\ CtxCount(nca - 1) \in Nat /\ CtxCount(N - 1) \in Nat
         /\ N + 1 + CtxCount(N - 1) <= Len(Layout) /\ TicketAt = N + 2 + CtxCount(N - 1)
<1>1. InEntries /\ tpc \notin Over
  BY DEF InEntries, Over
<1>2. opts.authoring /\ icon <= (IF nca \in ctx THEN Len(IconEntries(nca)) ELSE 0)
  BY DEF IInv, EntriesOK
<1>3. icon \in Nat /\ nca \in Ncas /\ (nca \in ctx => nca \in Contents)
  BY DEF IInv, TypeOK, CounterTypes
<1>4. Position = N + 2 + CtxCount(nca - 1) + icon
  BY DEF Position
<1>5. /\ N \in Nat /\ N > 0 /\ Ncas = 1..N /\ Contents = 1..(N - 1)
      /\ Len(Layout) \in Nat /\ DOMAIN Layout = 1..Len(Layout) /\ CtxCount(N - 1) \in Nat
  BY TitleFacts, LayoutFacts, XmlPartFacts
<1>6. CtxCount(nca - 1) \in Nat
  <2>1. nca - 1 \in 0..(N - 1)
    BY <1>3, <1>5
  <2>2. CtxEntriesUpTo(ctx)[nca - 1] \in Seq(EntriesOfFirst(nca - 1))
    BY <2>1, CtxEntriesType
  <2> QED BY <2>2 DEF CtxCount
<1>7. TicketAt = N + 2 + CtxCount(N - 1)
  BY <1>2, <1>5 DEF TicketAt
<1>8. N + 1 + CtxCount(N - 1) <= Len(Layout)
  BY <1>5, <1>7, LayoutFacts
<1> QED BY <1>1, <1>2, <1>3, <1>4, <1>5, <1>6, <1>7, <1>8, InEntriesFacts

LEMMA SkipCtxDataKeeps == IInv /\ SkipCtxData => IInv'
<1> SUFFICES ASSUME IInv, SkipCtxData PROVE IInv'
  OBVIOUS
<1>1. /\ tpc = "ctxData" /\ nca \notin ctx
      /\ tpc' = (IF nca < Meta THEN "ctxData" ELSE "ticket")
      /\ nca' = (IF nca < Meta THEN nca + 1 ELSE nca)
      /\ UNCHANGED <<ncaVars, mpc, block, icon, confirmed, headerWritten, dirtyHeader, hash, names,
                     stored, header, lost, sharedVars, success, result, package>>
  BY DEF SkipCtxData, GoTo, ncaVars, contentVars, cnmtVars, outputVars
<1>2. UNCHANGED <<opts, ctx, dirty, metaRecords, sent, contentId, records, patch>>
      /\ UNCHANGED <<total, written, error, cancelled>>
  BY <1>1 DEF ncaVars, sharedVars
<1>3. icon = 0 /\ nca \in 1..N /\ N \in Nat /\ Meta = N
  BY <1>1, CtxDataFacts, TitleFacts
<1>4. ThreadTypes'
  BY <1>1 DEF IInv, TypeOK, ThreadTypes, ThreadPcs
<1>5. nca' \in Ncas
  BY <1>1, <1>3, CtxDataFacts
<1>6. CounterTypes'
  <2>1. tpc' \notin {"nextBlock", "block", "finishNca"}
    BY <1>1
  <2> QED BY <1>1, <1>2, <1>5, <2>1 DEF IInv, TypeOK, CounterTypes
<1>7. FlagTypes'
  BY <1>1, <1>2 DEF IInv, TypeOK, FlagTypes
<1>8. /\ MetaOK' /\ NamesOK'
      /\ \A i \in Ncas : Finished(i)'
      /\ DOMAIN contentId' = Ncas /\ DOMAIN records' = Contents
  BY <1>1, <1>2, NcasKept, NamesKept, InEntriesFacts, CtxDataFacts DEF IInv, NcasOK
<1>9. Position' = Position
  <2>1. (\A i : CtxCount(i)' = CtxCount(i)) /\ TicketAt' = TicketAt
    BY <1>2, LayoutKept
  <2>2. CASE nca < Meta
    <3>1. tpc' = "ctxData" /\ nca' = nca + 1 /\ icon' = icon /\ nca \in Contents /\ nca' - 1 = nca
      BY <1>1, <1>3, <2>2, TitleFacts
    <3>2. CtxCount(nca) = CtxCount(nca - 1)
      BY <1>1, <3>1, NoContextAt, CtxDataFacts
    <3>3. CtxCount(nca - 1)' = CtxCount(nca)
      BY <2>1, <3>1
    <3>4. Position' = N + 2 + CtxCount(nca - 1)' + icon'
      BY <3>1 DEF Position
    <3> QED BY <1>1, <3>1, <3>2, <3>3, <3>4, CtxDataFacts
  <2>3. CASE ~(nca < Meta)
    <3>1. nca = N /\ tpc' = "ticket"
      BY <1>1, <1>3, <2>3
    <3>2. Position' = TicketAt
      BY <2>1, <3>1 DEF Position
    <3> QED BY <1>1, <1>3, <3>1, <3>2, CtxDataFacts
  <2> QED BY <2>2, <2>3
<1>10. /\ \A k \in (N + 1)..(Position' - 1) : EntryOK(k)'
       /\ written' = BlocksUpTo[N] + Position' - N - 1
  <2>1. Layout' = Layout
    BY <1>2, LayoutKept
  <2>2. \A k : EntryOK(k)' <=> EntryOK(k)
    BY <1>1, <1>2, <2>1 DEF EntryOK
  <2> QED BY <1>1, <1>2, <1>9, <2>2, InEntriesFacts, CtxDataFacts
<1>11. /\ tpc \notin Over /\ InEntries' /\ package = "open" /\ total = NspSize
       /\ tpc' \in {"ctxData", "ticket"} /\ opts.authoring
  BY <1>1, InEntriesFacts, CtxDataFacts DEF InEntries
<1>12. icon' <= (IF nca' \in ctx THEN Len(IconEntries(nca')) ELSE 0)
  <2>1. nca' \in ctx => nca' \in Contents
    BY DEF IInv, TypeOK, CounterTypes
  <2>2. nca' \in ctx => Len(IconEntries(nca')) \in Nat
    BY <2>1, CtxEntriesFacts
  <2> QED BY <1>1, <1>3, <2>2
<1> QED
  BY <1>1, <1>2, <1>4, <1>6, <1>7, <1>8, <1>10, <1>11, <1>12, InEntriesKeeps

LEMMA SendIconKeeps == IInv /\ SendIcon => IInv'
<1> SUFFICES ASSUME IInv, SendIcon PROVE IInv'
  OBVIOUS
<1>1. tpc = "ctxData" /\ nca \in ctx /\ icon < Len(IconEntries(nca))
  BY DEF SendIcon
<1>2. CASE UsbFails
  BY <1>1, <1>2, UsbFailsKeeps, CtxDataFacts
<1>3. CASE ~UsbFails
  <2> DEFINE k == DataIdx(nca) + icon
  <2>1. /\ Send(k, Entry("icon", nca)) /\ Rename(k, nca)
        /\ tpc' = tpc /\ nca' = nca /\ icon' = icon + 1
    BY <1>3 DEF SendIcon
  <2>2. /\ k = Position /\ k = N + 2 + CtxCount(nca - 1) + icon
        /\ nca \in Contents /\ nca \in Ncas /\ nca \in 1..(N - 1) /\ icon \in Nat /\ N \in Nat
        /\ CtxCount(nca - 1) \in Nat /\ InEntries /\ opts.authoring /\ NamesOK
        /\ Len(Layout) \in Nat /\ DOMAIN Layout = 1..Len(Layout)
        /\ N + 1 + CtxCount(N - 1) <= Len(Layout) /\ CtxCount(N - 1) \in Nat
    BY <1>1, CtxDataFacts, DataIdxOfContent
  <2>3. /\ Len(IconEntries(nca)) \in Nat /\ CtxCount(nca) = CtxCount(nca - 1) + Len(IconEntries(nca)) + 1
        /\ CtxCount(nca) <= CtxCount(N - 1) /\ CtxCount(nca) \in Nat
        /\ \A j \in 0..(Len(IconEntries(nca)) - 1) :
             Layout[N + 2 + CtxCount(nca - 1) + j] = Entry("icon", nca)
    BY <1>1, <2>2, IconsAndXmlAt, ContextAt, CtxEntriesFacts
  <2> HIDE DEF k
  <2>4. k \in (N + 1)..Len(Layout) /\ k \in DOMAIN Layout /\ k \notin 1..N
    BY <1>1, <2>2, <2>3
  <2>5. Layout[k] = Entry("icon", nca)
    <3>1. icon \in 0..(Len(IconEntries(nca)) - 1)
      BY <1>1, <2>2, <2>3
    <3> QED BY <2>2, <2>3, <3>1
  <2>6. Layout[k].kind = "icon" /\ Layout[k].nca = nca
    BY <2>5, EntryFields
  <2>7. names' = [names EXCEPT ![k] = contentId[nca]]
    BY <2>1 DEF Rename
  <2>8. /\ DOMAIN names' = DOMAIN names /\ names'[k] = contentId[nca]
        /\ \A j \in DOMAIN names : j # k => names'[j] = names[j]
    BY <2>2, <2>4, <2>7 DEF NamesOK
  <2>9. opts' = opts /\ ctx' = ctx
    BY <2>1 DEF Send, contentVars
  <2>10. Position' = k + 1
    <3>1. tpc' = "ctxData" /\ nca' - 1 = nca - 1
      BY <1>1, <2>1
    <3>2. CtxCount(nca - 1)' = CtxCount(nca - 1)
      BY <2>1, <2>9, LayoutKept
    <3>3. Position' = N + 2 + CtxCount(nca - 1)' + icon'
      BY <3>1 DEF Position
    <3> QED BY <2>1, <2>2, <3>2, <3>3
  <2>11. icon' <= (IF nca' \in ctx THEN Len(IconEntries(nca')) ELSE 0) /\ icon' \in Nat
    BY <1>1, <2>1, <2>2, <2>3
  <2>12. tpc' = "ctxData" /\ nca' \in Ncas
    BY <1>1, <2>1, <2>2
  <2>13. /\ Layout[k].nca # 0 => Layout[k].nca \in Ncas /\ names'[k] = contentId[Layout[k].nca]
         /\ Layout[k].kind # "cnmt" => Entry("icon", nca) = Layout[k]
         /\ Layout[k].kind # "cnmt"
    BY <2>2, <2>5, <2>6, <2>8
  <2>14. IInv /\ InEntries /\ k = Position /\ Send(k, Entry("icon", nca)) /\ tpc' # "cert"
    BY <2>1, <2>2, <2>12
  <2> QED
    BY <2>2, <2>4, <2>8, <2>10, <2>11, <2>12, <2>13, <2>14, SendKeeps
<1> QED BY <1>2, <1>3

LEMMA SendXmlKeeps == IInv /\ SendXml => IInv'
<1> SUFFICES ASSUME IInv, SendXml PROVE IInv'
  OBVIOUS
<1>1. tpc = "ctxData" /\ nca \in ctx /\ icon = Len(IconEntries(nca))
  BY DEF SendXml
<1>2. CASE UsbFails
  BY <1>1, <1>2, UsbFailsKeeps, CtxDataFacts
<1>3. CASE ~UsbFails
  <2> DEFINE k == XmlIdx(nca)
  <2>1. /\ Send(k, Entry("xml", nca)) /\ Rename(k, nca)
        /\ tpc' = tpc /\ nca' = nca + 1 /\ icon' = 0
    BY <1>3 DEF SendXml
  <2>2. /\ k = Position /\ k = N + 2 + CtxCount(nca - 1) + icon
        /\ nca \in Contents /\ nca \in Ncas /\ nca \in 1..(N - 1) /\ icon \in Nat /\ N \in Nat
        /\ CtxCount(nca - 1) \in Nat /\ InEntries /\ opts.authoring /\ NamesOK
        /\ Len(Layout) \in Nat /\ DOMAIN Layout = 1..Len(Layout)
        /\ N + 1 + CtxCount(N - 1) <= Len(Layout) /\ CtxCount(N - 1) \in Nat
    BY <1>1, CtxDataFacts, DataIdxOfContent DEF XmlIdx
  <2>3. /\ CtxCount(nca) = CtxCount(nca - 1) + icon + 1
        /\ CtxCount(nca) <= CtxCount(N - 1) /\ CtxCount(nca) \in Nat
        /\ Layout[N + 2 + CtxCount(nca - 1) + icon] = Entry("xml", nca)
    BY <1>1, <2>2, IconsAndXmlAt, ContextAt
  <2> HIDE DEF k
  <2>4. k \in (N + 1)..Len(Layout) /\ k \in DOMAIN Layout /\ k \notin 1..N
    BY <2>2, <2>3
  <2>5. Layout[k] = Entry("xml", nca)
    BY <2>2, <2>3
  <2>6. Layout[k].kind = "xml" /\ Layout[k].nca = nca
    BY <2>5, EntryFields
  <2>7. names' = [names EXCEPT ![k] = contentId[nca]]
    BY <2>1 DEF Rename
  <2>8. /\ DOMAIN names' = DOMAIN names /\ names'[k] = contentId[nca]
        /\ \A j \in DOMAIN names : j # k => names'[j] = names[j]
    BY <2>2, <2>4, <2>7 DEF NamesOK
  <2>9. opts' = opts /\ ctx' = ctx
    BY <2>1 DEF Send, contentVars
  <2>10. Position' = k + 1
    <3>1. tpc' = "ctxData" /\ nca' - 1 = nca
      BY <1>1, <2>1, <2>2
    <3>2. CtxCount(nca - 1)' = CtxCount(nca)
      BY <3>1, <2>9, LayoutKept
    <3>3. Position' = N + 2 + CtxCount(nca - 1)' + icon'
      BY <3>1 DEF Position
    <3>4. Position' = N + 2 + CtxCount(nca) + 0
      BY <2>1, <3>2, <3>3
    <3>5. /\ N \in Nat /\ CtxCount(nca - 1) \in Nat /\ icon \in Nat
          /\ k = N + 2 + CtxCount(nca - 1) + icon
          /\ CtxCount(nca) = CtxCount(nca - 1) + icon + 1
      BY <2>2, <2>3
    <3> QED BY ONLY <3>4, <3>5
  <2>11. icon' <= (IF nca' \in ctx THEN Len(IconEntries(nca')) ELSE 0) /\ icon' \in Nat
    <3>1. nca' \in ctx => nca' \in Contents
      BY DEF IInv, TypeOK, CounterTypes
    <3>2. nca' \in ctx => Len(IconEntries(nca')) \in Nat
      BY <3>1, CtxEntriesFacts
    <3> QED BY <2>1, <3>2
  <2>12. tpc' = "ctxData" /\ nca' \in Ncas
    BY <1>1, <2>1, <2>2, TitleFacts
  <2>13. /\ Layout[k].nca # 0 => Layout[k].nca \in Ncas /\ names'[k] = contentId[Layout[k].nca]
         /\ Layout[k].kind # "cnmt" => Entry("xml", nca) = Layout[k]
         /\ Layout[k].kind # "cnmt"
    BY <2>2, <2>5, <2>6, <2>8
  <2>14. IInv /\ InEntries /\ k = Position /\ Send(k, Entry("xml", nca)) /\ tpc' # "cert"
    BY <2>1, <2>2, <2>12
  <2> QED
    BY <2>2, <2>4, <2>8, <2>10, <2>11, <2>12, <2>13, <2>14, SendKeeps
<1> QED BY <1>2, <1>3

\* Ticket and certificates belong to no NCA and keep their names.
LEMMA TicketFacts ==
  ASSUME IInv, InEntries, TicketKept
  PROVE  /\ N \in Nat /\ TicketAt \in Nat /\ N < TicketAt /\ Len(Layout) = TicketAt + 1
         /\ Layout[TicketAt] = Entry("tik", 0) /\ Layout[TicketAt + 1] = Entry("cert", 0)
         /\ nca \in Ncas /\ icon \in Nat
BY LayoutFacts, LengthIsPositive, InEntriesFacts DEF IInv, TypeOK, CounterTypes

LEMMA SendTicketKeeps == IInv /\ SendTicket => IInv'
<1> SUFFICES ASSUME IInv, SendTicket PROVE IInv'
  OBVIOUS
<1>1. tpc = "ticket" /\ TicketKept /\ InEntries /\ tpc \notin Over
  BY DEF SendTicket, InEntries, Over
<1>2. CASE UsbFails
  BY <1>1, <1>2, UsbFailsKeeps
<1>3. CASE ~UsbFails
  <2>1. /\ Send(Len(Layout) - 1, Entry("tik", 0)) /\ tpc' = "cert"
        /\ names' = names /\ nca' = nca /\ icon' = icon
    BY <1>3 DEF SendTicket, GoTo
  <2>2. Len(Layout) - 1 = TicketAt /\ TicketAt \in (N + 1)..Len(Layout)
    BY <1>1, TicketFacts
  <2>3. Position = TicketAt
    BY <1>1 DEF Position
  <2>4. Layout[TicketAt].kind = "tik" /\ Layout[TicketAt].nca = 0
    BY <1>1, TicketFacts, EntryFields
  <2>5. Position' = TicketAt + 1
    <3>1. opts' = opts /\ ctx' = ctx
      BY <2>1 DEF Send, contentVars
    <3>2. TicketAt' = TicketAt
      BY <3>1, LayoutKept
    <3> QED BY <2>1, <3>2 DEF Position
  <2>6. Send(TicketAt, Entry("tik", 0))
    BY <2>1, <2>2
  <2> QED
    BY <1>1, <2>1, <2>2, <2>3, <2>4, <2>5, <2>6, TicketFacts, SendKeeps
<1> QED BY <1>2, <1>3

LEMMA SendCertKeeps == IInv /\ SendCert => IInv'
<1> SUFFICES ASSUME IInv, SendCert PROVE IInv'
  OBVIOUS
<1>1. tpc = "cert" /\ TicketKept /\ InEntries /\ tpc \notin Over
  BY DEF SendCert, InEntries, Over, IInv, EntriesOK
<1>2. CASE UsbFails
  BY <1>1, <1>2, UsbFailsKeeps
<1>3. CASE ~UsbFails
  <2>1. /\ Send(Len(Layout), Entry("cert", 0)) /\ tpc' = "header"
        /\ names' = names /\ nca' = nca /\ icon' = icon
    BY <1>3 DEF SendCert, GoTo
  <2>2. Len(Layout) = TicketAt + 1 /\ TicketAt + 1 \in (N + 1)..Len(Layout)
    BY <1>1, TicketFacts
  <2>3. Position = TicketAt + 1
    BY <1>1 DEF Position
  <2>4. Layout[TicketAt + 1].kind = "cert" /\ Layout[TicketAt + 1].nca = 0
    BY <1>1, TicketFacts, EntryFields
  <2>5. Position' = (TicketAt + 1) + 1
    <3>1. opts' = opts /\ ctx' = ctx
      BY <2>1 DEF Send, contentVars
    <3>2. Layout' = Layout
      BY <3>1, LayoutKept
    <3> QED BY <2>1, <2>2, <3>2 DEF Position
  <2>6. Send(TicketAt + 1, Entry("cert", 0))
    BY <2>1, <2>2
  <2> QED
    BY <1>1, <2>1, <2>2, <2>3, <2>4, <2>5, <2>6, TicketFacts, SendKeeps
<1> QED BY <1>2, <1>3

LEMMA NoTicketKeeps == IInv /\ NoTicket => IInv'
<1> SUFFICES ASSUME IInv, NoTicket PROVE IInv'
  OBVIOUS
<1>1. /\ tpc = "ticket" /\ ~TicketKept /\ tpc' = "header" /\ InEntries /\ tpc \notin Over
      /\ UNCHANGED <<ncaVars, mpc, loopVars, headerWritten, dirtyHeader, hash, names, stored, header,
                     lost, sharedVars, success, result, package>>
  BY DEF NoTicket, GoTo, InEntries, Over, ncaVars, contentVars, cnmtVars, outputVars
<1>2. UNCHANGED <<opts, ctx, dirty, metaRecords, sent, contentId, records, patch>>
      /\ UNCHANGED <<total, written, error, cancelled>> /\ UNCHANGED <<nca, block, icon, confirmed>>
  BY <1>1 DEF ncaVars, sharedVars, loopVars
<1>3. ThreadTypes'
  BY <1>1 DEF IInv, TypeOK, ThreadTypes, ThreadPcs
<1>4. CounterTypes'
  BY <1>1, <1>2 DEF IInv, TypeOK, CounterTypes
<1>5. FlagTypes'
  BY <1>1, <1>2 DEF IInv, TypeOK, FlagTypes
<1>6. /\ MetaOK' /\ NamesOK'
      /\ \A i \in Ncas : Finished(i)'
      /\ DOMAIN contentId' = Ncas /\ DOMAIN records' = Contents
  BY <1>1, <1>2, NcasKept, NamesKept, InEntriesFacts DEF IInv, NcasOK
<1>7. Layout' = Layout
  BY <1>2, LayoutKept
<1>8. Position' = Position
  <2>1. Position = TicketAt
    BY <1>1 DEF Position
  <2>2. Position' = Len(Layout) + 1
    BY <1>1, <1>7 DEF Position
  <2>3. Len(Layout) = TicketAt - 1 /\ TicketAt \in Nat
    BY <1>1, LayoutFacts
  <2> QED BY <2>1, <2>2, <2>3
<1>9. \A k \in (N + 1)..(Position' - 1) : EntryOK(k)'
  <2>1. \A k : EntryOK(k)' <=> EntryOK(k)
    BY <1>1, <1>2, <1>7 DEF EntryOK
  <2> QED BY <1>1, <1>8, <2>1, InEntriesFacts
<1>10. written' = BlocksUpTo[N] + Position' - N - 1
  BY <1>1, <1>2, <1>8, InEntriesFacts
<1>11. package = "open" /\ total = NspSize /\ InEntries'
  BY <1>1, InEntriesFacts DEF InEntries
<1> QED
  BY <1>1, <1>2, <1>3, <1>4, <1>5, <1>6, <1>9, <1>10, <1>11, InEntriesKeeps

LEMMA SendHeaderKeeps == IInv /\ SendHeader => IInv'
<1> SUFFICES ASSUME IInv, SendHeader PROVE IInv'
  OBVIOUS
<1>1. tpc = "header" /\ InEntries /\ tpc \notin Over
  BY DEF SendHeader, InEntries, Over
<1>2. CASE Abandon
  BY <1>1, <1>2, AbandonKeeps
<1>3. CASE UsbFails
  BY <1>1, <1>3, UsbFailsKeeps
<1>4. CASE ~Abandon /\ ~UsbFails
  <2>1. /\ header' = names /\ package' = "closed" /\ written' = written + 1 /\ tpc' = "end"
        /\ lost' \in (IF ~opts.usb /\ "write" \in Faults THEN {lost, TRUE} ELSE {lost})
        /\ UNCHANGED <<ncaVars, mpc, loopVars, headerWritten, dirtyHeader, hash, names, stored, total,
                       error, cancelled, result>>
    BY <1>4 DEF SendHeader, GoTo, ncaVars, contentVars, cnmtVars
  <2>2. success' = TRUE
    BY <1>4 DEF SendHeader
  <2>3. UNCHANGED <<opts, ctx, dirty, metaRecords, sent, contentId, records, patch>>
        /\ UNCHANGED <<nca, block, icon, confirmed>>
    BY <2>1 DEF ncaVars, loopVars
  <2>4. ThreadTypes'
    BY <2>1 DEF IInv, TypeOK, ThreadTypes, ThreadPcs
  <2>5. CounterTypes'
    BY <2>1, <2>3 DEF IInv, TypeOK, CounterTypes
  <2>6. FlagTypes'
    <3>1. lost' \in BOOLEAN
      BY <2>1 DEF IInv, TypeOK, FlagTypes
    <3> QED BY <2>1, <2>2, <2>3, <3>1 DEF IInv, TypeOK, FlagTypes
  <2>7. ~Starting' /\ ~InNcas' /\ ~InBlocks' /\ ~InEntries' /\ tpc' = "end"
    BY <2>1 DEF Starting, InNcas, InBlocks, InEntries
  <2>8. Layout' = Layout /\ NspSize' = NspSize
    BY <2>3, LayoutKept
  <2>9. NcasOK'
    <3>1. MetaOK' /\ (\A i \in Ncas : Finished(i)') /\ \A i : Patched(i)' <=> Patched(i)
      BY <1>1, <2>1, NcasKept, InEntriesFacts
    <3> QED BY <2>3, <2>7, <3>1 DEF IInv, NcasOK
  <2>10. Position = Len(Layout) + 1 /\ Position' = Len(Layout) + 1
    <3>1. Position = Len(Layout) + 1
      BY <1>1 DEF Position
    <3>2. Position' = Len(Layout) + 1
      BY <2>7, <2>8 DEF Position
    <3> QED BY <3>1, <3>2
  <2>11. EntriesOK'
    <3>1. \A k : EntryOK(k)' <=> EntryOK(k)
      BY <2>1, <2>3, <2>8 DEF EntryOK
    <3>2. \A k \in (N + 1)..(Position' - 1) : EntryOK(k)'
      BY <1>1, <2>10, <3>1, InEntriesFacts
    <3>3. NamesOK'
      BY <1>1, <2>1, <2>3, NamesKept, InEntriesFacts
    <3>4. header' = names'
      BY <2>1
    <3> QED BY <2>7, <3>2, <3>3, <3>4 DEF EntriesOK
  <2>12. written' = NspSize /\ total' = NspSize
    <3>1. written = BlocksUpTo[N] + (Len(Layout) + 1) - N - 1 /\ total = NspSize
      BY <1>1, <2>10, InEntriesFacts
    <3>2. BlocksUpTo[N] \in Nat /\ Len(Layout) \in Nat /\ N \in Nat
      BY BlocksUpToDef, LayoutFacts, LengthIsPositive
    <3>3. NspSize = 1 + BlocksUpTo[N] + (Len(Layout) - N)
      BY NspSizeIsNat
    <3> QED BY <2>1, <3>1, <3>2, <3>3
  <2>13. CountOK'
    BY <2>7, <2>8, <2>12 DEF CountOK
  <2>14. PackageOK'
    <3>1. mpc # "done" /\ result = "running" /\ mpc' = mpc /\ result' = result
      BY <1>1, <2>1 DEF IInv, PackageOK, Over, TypeOK, ThreadTypes
    <3> QED BY <2>1, <2>2, <2>7, <3>1 DEF PackageOK
  <2> QED BY <2>4, <2>5, <2>6, <2>9, <2>11, <2>13, <2>14 DEF IInv, TypeOK
<1> QED BY <1>2, <1>3, <1>4

\* A step that changes nothing
LEMMA StutteringKeeps == IInv /\ UNCHANGED vars => IInv'
<1> SUFFICES ASSUME IInv, UNCHANGED vars PROVE IInv'
  OBVIOUS
<1>1. /\ tpc' = tpc
      /\ UNCHANGED <<ncaVars, loopVars, headerWritten, dirtyHeader, names, stored, header, total,
                     written, success, mpc, package, result, error, cancelled, lost>>
  BY DEF vars, ncaVars, contentVars, cnmtVars, outputVars, sharedVars
<1>2. NcasOK' /\ EntriesOK' /\ CountOK'
  BY <1>1, DumpKept DEF IInv
<1>3. TypeOK'
  <2>1. ThreadTypes'
    BY <1>1 DEF IInv, TypeOK, ThreadTypes
  <2>2. CounterTypes'
    BY <1>1 DEF IInv, TypeOK, CounterTypes, ncaVars, loopVars
  <2>3. FlagTypes'
    BY <1>1 DEF IInv, TypeOK, FlagTypes, ncaVars, loopVars
  <2> QED BY <2>1, <2>2, <2>3 DEF TypeOK
<1>4. PackageOK'
  BY <1>1 DEF IInv, PackageOK, Starting, InBlocks, InNcas, InEntries
<1> QED BY <1>2, <1>3, <1>4 DEF IInv

-----------------------------------------------------------------------------
\* The theorems

\* The invariant holds in every state of every dump.
THEOREM InvariantHolds == Spec => []IInv
<1>1. IInv /\ [Next]_vars => IInv'
  BY PreparesKeep, StartNcaKeeps, NextBlockKeeps, SendBlockKeeps, FinishNcaKeeps, SendCnmtXmlKeeps,
     SkipCtxDataKeeps, SendIconKeeps, SendXmlKeeps, SendTicketKeeps, SendCertKeeps, NoTicketKeeps,
     SendHeaderKeeps, ThreadTellsKeeps, ThreadCleansKeeps, MainKeeps, StutteringKeeps
  DEF Next, nspThreadFunc, SendsNcas, SendsEntries
<1> QED BY InitInv, <1>1, PTL DEF Spec

\* The variables keep to their types: nspThreadFunc's loop counters stay within the title's NCAs and
\* their blocks, and its context and patch flags belong to NCAs that can have them.
THEOREM TypeCorrect == Spec => []TypeOK
<1>1. IInv => TypeOK
  BY DEF IInv
<1> QED BY <1>1, InvariantHolds, PTL

\* Whatever fails and whenever the user cancels, nspThreadFunc never ends with a package that looks
\* like one being written, and a package is completed only by a thread that has sent all of it.
THEOREM FailureLeavesNothingOpen == Spec => []FailureSettled
<1>1. IInv => FailureSettled
  BY DEF IInv, PackageOK, FailureSettled
<1> QED BY <1>1, InvariantHolds, PTL

\* For every NCA, wherever its headers and patches lie: dirty_header and header_written never end the
\* patching too early, and no block is patched that should not be.
THEOREM PatchesAreComplete == Spec => []PatchesComplete
<1>1. ASSUME IInv, success, NEW i \in Ncas, NEW k \in 1..Blocks[i]
      PROVE  /\ sent[i][k].header = (i \in dirty /\ k \in HeaderBlocks[i])
             /\ sent[i][k].patch = (/\ k \in PatchBlocks[i]
                                    /\ \/ i = Meta /\ metaRecords # <<>>
                                       \/ i \in ctx /\ Type[i] = "control" /\ opts.patchNacp)
  <2>1. sent[i] = Sending(i, Blocks[i])
    BY <1>1 DEF IInv, NcasOK, Finished
  <2>2. sent[i][k] = Block(i, k)
    BY <2>1 DEF Sending
  <2>3. Block(i, k).header = (i \in dirty /\ k \in HeaderBlocks[i])
    BY DEF Block
  <2>4. Block(i, k).patch = (k \in PatchBlocks[i] /\ Patched(i))
    BY DEF Block
  <2>5. Patched(i) <=> \/ i = Meta /\ metaRecords # <<>>
                       \/ i \in ctx /\ Type[i] = "control" /\ opts.patchNacp
    <3>1. i = Meta => i \notin ctx
      BY <1>1, TitleFacts DEF IInv, TypeOK, CounterTypes
    <3> QED BY <3>1 DEF Patched
  <2> QED BY <2>2, <2>3, <2>4, <2>5
<1>2. IInv => PatchesComplete
  BY <1>1 DEF PatchesComplete
<1> QED BY <1>2, InvariantHolds, PTL

\* For every title and every choice of options: a dump that saveNintendoSubmissionPackage reports as
\* successful is a package whose names, records, XMLs and sizes agree with the NCAs as they were sent.
THEOREM PackagesAreConsistent == Spec => []PackageConsistent
<1>1. ASSUME IInv, result = "success" PROVE PackageConsistent
  <2>1. success /\ package = "closed"
    BY <1>1 DEF IInv, PackageOK
  <2>2. written = total /\ total = NspSize
    BY <1>1, <2>1 DEF IInv, CountOK
  <2>3. /\ \A i \in Ncas : Finished(i)
        /\ MetaOK /\ NamesOK /\ header = names
    BY <1>1, <2>1 DEF IInv, NcasOK, EntriesOK
  <2>4. \A i \in Ncas : names[i] = sent[i] /\ contentId[i] = sent[i]
    BY <2>3 DEF NamesOK, Finished
  <2>5. ASSUME NEW i \in Contents PROVE SentRecords[i] = sent[i]
    <3>1. sent[Meta] = Sending(Meta, Blocks[Meta]) /\ Meta \in Ncas
      BY <2>3, TitleFacts DEF Finished
    <3>2. /\ DOMAIN sent[Meta] = 1..Blocks[Meta]
          /\ \A k \in 1..Blocks[Meta] :
               sent[Meta][k].patch <=> k \in PatchBlocks[Meta] /\ metaRecords # <<>>
      <4>1. /\ DOMAIN sent[Meta] = 1..Blocks[Meta]
            /\ \A k \in 1..Blocks[Meta] : sent[Meta][k] = Block(Meta, k)
        BY <3>1 DEF Sending
      <4>2. \A k : Block(Meta, k).patch = (k \in PatchBlocks[Meta] /\ Patched(Meta))
        BY DEF Block
      <4>3. Patched(Meta) <=> metaRecords # <<>>
        BY DEF Patched
      <4> QED BY <4>1, <4>2, <4>3
    <3>3. CASE metaRecords = <<>>
      <4>1. SentRecords[i] = Clean(i)
        BY <3>2, <3>3 DEF SentRecords
      <4> QED BY <2>3, <3>3, <4>1 DEF MetaOK
    <3>4. CASE metaRecords # <<>>
      <4>1. PICK k \in PatchBlocks[Meta] : TRUE
        BY <3>1, PieceFacts
      <4>2. k \in 1..Blocks[Meta]
        BY <3>1, <4>1, PieceFacts, TitleFacts
      <4>3. SentRecords = metaRecords
        BY <3>2, <3>4, <4>1, <4>2 DEF SentRecords
      <4> QED BY <2>3, <3>4, <4>3 DEF MetaOK
    <3> QED BY <3>3, <3>4
  <2>6. \A k \in (N + 1)..Len(Layout) : EntryOK(k)
    <3>1. Position = Len(Layout) + 1
      BY <1>1, <2>1 DEF IInv, PackageOK, Position
    <3>2. \A k \in (N + 1)..(Position - 1) : EntryOK(k)
      BY <1>1, <2>1 DEF IInv, EntriesOK
    <3> QED BY <3>1, <3>2, LayoutFacts, LengthIsPositive
  <2> QED
    BY <2>1, <2>2, <2>3, <2>4, <2>5, <2>6 DEF PackageConsistent, EntryOK
<1>2. IInv => PackageConsistent
  BY <1>1 DEF PackageConsistent
<1> QED BY <1>2, InvariantHolds, PTL
=============================================================================
