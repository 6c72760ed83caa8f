-------------------------- MODULE ContentReadsProofs --------------------------
(***************************************************************************)
(* Proofs about ContentReads, for any sections, titles and tables it        *)
(* accepts, and any sizes of cipher blocks and of the buffer: the block of  *)
(* a patched title is reported as updated exactly when the patch holds one  *)
(* of its cells (PatchIsTold), and a read returns what the layers of the    *)
(* title hold (ReadReturnsTheContent).                                      *)
(*                                                                          *)
(* The functions of the model that loop are not proved by induction but by  *)
(* their least counterexample: a set of numbers, or of places of a tree,    *)
(* has a first element (LeastElement, FirstPlace, LastPlace), and a loop    *)
(* cannot be wrong at it.  The first argument goes up the tree storages:    *)
(*   SearchFinds         the binary search finds the last offset up to v;   *)
(*   FindCovers          with it, bktrFindStorageEntry finds the entry that *)
(*                       covers v, whichever entry set it is in;            *)
(*   MoveIsNext          a visitor visits the entries in their order, from  *)
(*   ExtentsAreCovered   set to set, and each covers what its extents say;  *)
(*   RangeIsTold         the loop over an indirect table finds a patched    *)
(*                       entry exactly when one covers a cell of the range; *)
(*   PackedBlockIsTold   the loop over a compressed table asks that for     *)
(*                       each of its entries, up to the first that answers. *)
(* The second one goes up the layers, from the content file to the title:   *)
(*   ReadPassesIs        the passes of the two readers of a section add up  *)
(*   ReadKeyedPassesIs   to its plaintext, if the counters are the ones it  *)
(*                       was encrypted with;                                *)
(*   PiecesAddUp         the loop over the entries of a table ends, and     *)
(*   TreeIsRight         returns what the storage holds, if each iteration  *)
(*                       does so for its entry;                             *)
(*   SparseIsRight       so it does in each kind of layer, over a layer     *)
(*   CtrExIsRight        below that is read right: the virtual offset and   *)
(*   IndirectIsRight     the generation handed down are the ones the cells  *)
(*   CompressedIsRight   were encrypted with;                               *)
(*   TitleIsReadable     so it does in the layers a title is opened with.   *)
(***************************************************************************)
EXTENDS ContentReads, FiniteSets, TLAPS, WellFoundedInduction, FiniteSetTheorems,
        SequenceTheorems

-----------------------------------------------------------------------------
\* Numbers, and the binary search

\* Lemma: a set of numbers that is not empty has a least one.
LEMMA LeastElement ==
  ASSUME NEW T, T \subseteq Nat, T # {}
  PROVE  \E m \in T : \A k \in T : m <= k
  <1> DEFINE Under(n) == 0..n
             R == StrictSubsetOrdering(Nat)
             B == {Under(n) : n \in T}
  <1>1. IsWellFoundedOn(R, FiniteSubsetsOf(Nat))
    BY FS_StrictSubsetOrderingWellFounded
  <1>2. \A n \in T : IsFiniteSet(Under(n)) /\ Under(n) \in SUBSET Nat
    BY FS_Interval
  <1>3. B \subseteq FiniteSubsetsOf(Nat) /\ B # {}
    BY <1>2 DEF FiniteSubsetsOf
  <1>4. PICK x \in B : \A y \in B : ~ (<<y, x>> \in R)
    <2> HIDE DEF R, B
    <2> QED BY <1>1, <1>3, WFMin
  <1>5. PICK m \in T : x = Under(m)
    OBVIOUS
  <1>6. ASSUME NEW k \in T, k < m
        PROVE  FALSE
    <2>1. Under(k) \subseteq Under(m) /\ Under(k) \in SUBSET Nat /\ Under(m) \in SUBSET Nat
      BY <1>6
    <2>2. m \in Under(m) /\ m \notin Under(k)
      BY <1>6
    <2>3. <<Under(k), Under(m)>> \in R
      <3> HIDE DEF Under
      <3> QED BY <2>1, <2>2 DEF StrictSubsetOrdering
    <2> QED BY <2>3, <1>4, <1>5
  <1> QED BY <1>6

\* Lemma: the middle of a range lies in it.
LEMMA HalfIsBetween ==
  ASSUME NEW low \in Nat, NEW high \in Nat, low <= high
  PROVE  (low + high) \div 2 \in Nat /\ low <= (low + high) \div 2 /\ (low + high) \div 2 <= high
  OBVIOUS

\* Offsets in strictly ascending order, as in every table that is accepted.
Rising(offsets) == \A i, j \in DOMAIN offsets : i < j => offsets[i] < offsets[j]

\* The last of the offsets that is no greater than v is the i-th.
LastUpTo(offsets, v, i) ==
  i \in DOMAIN offsets /\ offsets[i] <= v /\ \A j \in DOMAIN offsets : i < j => offsets[j] > v

\* Lemma: a rising row of offsets has a last one up to v, if its first one is.
LEMMA LastExists ==
  ASSUME NEW n \in Nat \ {0}, NEW offsets \in [1..n -> Nat], NEW v \in Nat, offsets[1] <= v
  PROVE  \E t \in 1..n : LastUpTo(offsets, v, t)
  <1> DEFINE Left == {d \in Nat : \E i \in 1..n : d = n - i /\ offsets[i] <= v}
  <1>1. Left \subseteq Nat /\ n - 1 \in Left
    OBVIOUS
  <1>2. PICK d \in Left : \A k \in Left : d <= k
    <2> HIDE DEF Left
    <2> QED BY <1>1, LeastElement
  <1>3. PICK i \in 1..n : d = n - i /\ offsets[i] <= v
    BY <1>2
  <1>4. ASSUME NEW j \in 1..n, i < j PROVE offsets[j] > v
    <2> SUFFICES ASSUME offsets[j] <= v PROVE FALSE
      OBVIOUS
    <2>1. n - j \in Nat /\ n - j < d
      BY <1>3, <1>4
    <2>2. n - j \in Left
      BY <2>1
    <2> QED BY <2>1, <2>2, <1>2, <1>3, SMTT(30)
  <1> QED BY <1>3, <1>4 DEF LastUpTo

\* One step of a search that halves its range and aims at t.
Narrows(find, n, t) ==
  \A low, high \in 1..n : low <= high =>
      \E half \in low..high :
          /\ t < half => find[<<low, high>>] = find[<<low, half - 1>>]
          /\ t = half => find[<<low, high>>] = half
          /\ half < t => find[<<low, high>>] = find[<<half + 1, high>>]

\* Lemma: a search that halves its range ends where the answer is.
LEMMA Narrowing ==
  ASSUME NEW n \in Nat \ {0}, NEW t \in 1..n, NEW find, Narrows(find, n, t)
  PROVE  find[<<1, n>>] = t
  <1> DEFINE Bad == {d \in Nat : \E low, high \in 1..n : /\ low <= t /\ t <= high /\ d = high - low
                                                       /\ find[<<low, high>>] # t}
  <1>1. Bad = {}
    <2> SUFFICES ASSUME Bad # {} PROVE FALSE
      OBVIOUS
    <2>1. PICK d \in Bad : \A k \in Bad : d <= k
      <3>1. Bad \subseteq Nat
        OBVIOUS
      <3> HIDE DEF Bad
      <3> QED BY <3>1, LeastElement
    <2>2. PICK low \in 1..n, high \in 1..n :
              low <= t /\ t <= high /\ d = high - low /\ find[<<low, high>>] # t
      BY <2>1
    <2>3. \A i, j \in 1..n : i <= t /\ t <= j /\ find[<<i, j>>] # t => d <= j - i
      <3> SUFFICES ASSUME NEW i \in 1..n, NEW j \in 1..n, i <= t, t <= j, find[<<i, j>>] # t
                   PROVE  d <= j - i
        OBVIOUS
      <3>1. j - i \in Nat
        OBVIOUS
      <3>2. j - i \in Bad
        BY <3>1
      <3> HIDE DEF Bad
      <3> QED BY <3>2, <2>1
    <2> HIDE DEF Bad
    <2>4. PICK half \in low..high :
              /\ t < half => find[<<low, high>>] = find[<<low, half - 1>>]
              /\ t = half => find[<<low, high>>] = half
              /\ half < t => find[<<low, high>>] = find[<<half + 1, high>>]
      <3>1. low <= high
        BY <2>2
      <3> QED BY <3>1, Zenon DEF Narrows
    <2>5. CASE t < half
      <3>1. half - 1 \in 1..n /\ t <= half - 1 /\ ~ (d <= half - 1 - low)
        BY <2>2, <2>5
      <3> QED BY <2>2, <2>3, <2>4, <2>5, <3>1
    <2>6. CASE half < t
      <3>1. half + 1 \in 1..n /\ half + 1 <= t /\ ~ (d <= high - (half + 1))
        BY <2>2, <2>6
      <3> QED BY <2>2, <2>3, <2>4, <2>6, <3>1
    <2> QED BY <2>2, <2>4, <2>5, <2>6
  <1>2. n - 1 \in Nat /\ 1 \in 1..n /\ n \in 1..n /\ 1 <= t /\ t <= n
    OBVIOUS
  <1>3. find[<<1, n>>] # t => n - 1 \in Bad
    BY <1>2
  <1> QED BY <1>1, <1>3

\* Lemma: the binary search of bktr.c finds the last of a rising row of offsets up to v.
LEMMA SearchFinds ==
  ASSUME NEW offsets, NEW n \in Nat \ {0}, offsets \in [1..n -> Nat], Len(offsets) = n,
         Rising(offsets), NEW v \in Nat, offsets[1] <= v
  PROVE  LastUpTo(offsets, v, SearchIndex(offsets, v))
  <1>1. PICK t \in 1..n : LastUpTo(offsets, v, t)
    BY LastExists
  <1>2. \A j \in 1..n : (offsets[j] > v) <=> t < j
    <2> TAKE j \in 1..n
    <2>1. j < t => offsets[j] < offsets[t]
      BY DEF Rising
    <2> QED BY <2>1, <1>1 DEF LastUpTo
  <1> DEFINE Half(low, high) == (low + high) \div 2
             Ranges == (1..n) \X (0..n)
             Body(f, range) ==
               IF range[1] > range[2] THEN 0
               ELSE IF offsets[Half(range[1], range[2])] > v
               THEN f[<<range[1], Half(range[1], range[2]) - 1>>]
               ELSE IF Half(range[1], range[2]) = n \/ offsets[Half(range[1], range[2]) + 1] > v
               THEN Half(range[1], range[2])
               ELSE f[<<Half(range[1], range[2]) + 1, range[2]>>]
             Satisfies(f) == \A low \in 1..n, high \in 0..n : f[<<low, high>>] = Body(f, <<low, high>>)
  <1> DEFINE known == [range \in Ranges |-> IF range[1] <= t /\ t <= range[2] THEN t ELSE 0]
  <1>4. \A low \in 1..n, high \in 0..n :
            known[<<low, high>>] = IF low <= t /\ t <= high THEN t ELSE 0
    OBVIOUS
  <1>5. Satisfies(known)
    <2> HIDE DEF known
    <2> SUFFICES ASSUME NEW low \in 1..n, NEW high \in 0..n
                 PROVE  known[<<low, high>>] = Body(known, <<low, high>>)
      OBVIOUS
    <2>1. CASE low > high
      BY <1>4, <2>1
    <2>2. CASE low <= high
      <3>1. PICK half : half = Half(low, high)
        OBVIOUS
      <3>2. half \in low..high
        <4>1. low \in Nat /\ high \in Nat
          OBVIOUS
        <4> QED BY <3>1, <4>1, <2>2, HalfIsBetween
      <3> HIDE DEF Half
      <3>3. half \in 1..n
        BY <3>2
      <3>4. (offsets[half] > v) <=> t < half
        BY <1>2, <3>3
      <3>5. half < n => ((offsets[half + 1] > v) <=> t < half + 1)
        BY <1>2, <3>3
      <3>6. t < half => half - 1 \in 0..n /\ known[<<low, half - 1>>] = known[<<low, high>>]
        BY <1>4, <3>2, <3>3
      <3>7. half < t => half + 1 \in 1..n /\ known[<<half + 1, high>>] = known[<<low, high>>]
        BY <1>4, <3>2, <3>3
      <3>8. t = half => known[<<low, high>>] = half
        BY <1>4, <3>2, <3>3
      <3>9. Body(known, <<low, high>>) = IF offsets[half] > v THEN known[<<low, half - 1>>]
                             ELSE IF half = n \/ offsets[half + 1] > v THEN half
                             ELSE known[<<half + 1, high>>]
        BY <2>2, <3>1
      <3> QED BY <3>3, <3>4, <3>5, <3>6, <3>7, <3>8, <3>9
    <2> QED BY <2>1, <2>2
  <1> DEFINE find == CHOOSE f : f = [range \in Ranges |-> Body(f, range)]
  <1>6. find = [range \in Ranges |-> Body(find, range)]
    <2>1. known = [range \in Ranges |-> Body(known, range)]
      <3>1. \A range \in Ranges : known[range] = Body(known, range)
        <4> HIDE DEF known, Body
        <4> QED BY <1>5
      <3> HIDE DEF Body
      <3> QED BY <3>1
    <2> HIDE DEF Body, known
    <2> QED BY <2>1
  <1>7. Satisfies(find)
    <2> HIDE DEF find, Body
    <2> QED BY <1>6
  <1>8. SearchIndex(offsets, v) = find[<<1, n>>]
    BY DEF SearchIndex
  <1> HIDE DEF find, known
  <1>9. ASSUME NEW low \in 1..n, NEW high \in 1..n, low <= high
        PROVE  \E half \in low..high :
                  /\ t < half => find[<<low, high>>] = find[<<low, half - 1>>]
                  /\ t = half => find[<<low, high>>] = half
                  /\ half < t => find[<<low, high>>] = find[<<half + 1, high>>]
    <2>1. low \in Nat /\ high \in Nat /\ high \in 0..n
      OBVIOUS
    <2>2. PICK half \in low..high : half = Half(low, high)
      BY <1>9, <2>1, HalfIsBetween
    <2>3. find[<<low, high>>] = Body(find, <<low, high>>)
      BY <1>7, <2>1
    <2>4. Body(find, <<low, high>>) = IF offsets[half] > v THEN find[<<low, half - 1>>]
                                      ELSE IF half = n \/ offsets[half + 1] > v THEN half
                                      ELSE find[<<half + 1, high>>]
      <3> HIDE DEF Half
      <3> QED BY <1>9, <2>1, <2>2
    <2>5. half \in 1..n
      BY <2>1, <2>2
    <2> HIDE DEF Body, Half
    <2>6. (offsets[half] > v) <=> t < half
      BY <1>2, <2>5
    <2>7. half < n => ((offsets[half + 1] > v) <=> t < half + 1)
      BY <1>2, <2>5
    <2>8. /\ t < half => find[<<low, high>>] = find[<<low, half - 1>>]
          /\ t = half => find[<<low, high>>] = half
          /\ half < t => find[<<low, high>>] = find[<<half + 1, high>>]
      BY <2>3, <2>4, <2>5, <2>6, <2>7, SMTT(30)
    <2> QED BY <2>8
  <1>10. find[<<1, n>>] = t
    <2>1. Narrows(find, n, t)
      BY <1>9, Zenon DEF Narrows
    <2> QED BY <2>1, Narrowing
  <1> QED BY <1>1, <1>8, <1>10
-----------------------------------------------------------------------------
\* Trees: the search, and the moves of a visitor

\* What these proofs need of a tree: see WellFormedIsTree.
IsTree(tree) ==
  /\ Len(tree.sets) \in Nat \ {0} /\ DOMAIN tree.sets = 1..Len(tree.sets)
  /\ \A i \in 1..Len(tree.sets) :
        Len(tree.sets[i]) \in Nat \ {0} /\ DOMAIN tree.sets[i] = 1..Len(tree.sets[i])
  /\ tree.end \in Nat
  /\ \A p \in Places(tree) :
        Visited(tree, p).virtual \in Nat /\ Visited(tree, p).virtual < tree.end
  /\ \A p, q \in Places(tree) : Before(p, q) => Visited(tree, p).virtual < Visited(tree, q).virtual
  /\ tree.sets[1][1].virtual = 0

\* The place of the j-th entry of the i-th set.
PlaceOf(i, j) == [set |-> i, entry |-> j]

\* A place covers an offset when it is the last one that starts no later.
Covers(tree, p, v) ==
  /\ p \in Places(tree)
  /\ Visited(tree, p).virtual <= v
  /\ \A q \in Places(tree) : Visited(tree, q).virtual <= v => ~ Before(p, q)

\* Lemma: the places of a tree are those of its entries in its sets.
LEMMA PlacesAre ==
  ASSUME NEW tree, IsTree(tree)
  PROVE  /\ \A i \in 1..Len(tree.sets) : \A j \in 1..Len(tree.sets[i]) :
               PlaceOf(i, j) \in Places(tree) /\ Visited(tree, PlaceOf(i, j)) = tree.sets[i][j]
         /\ \A p \in Places(tree) :
               p.set \in 1..Len(tree.sets) /\ p.entry \in 1..Len(tree.sets[p.set])
               /\ p = PlaceOf(p.set, p.entry)
  BY DEF Places, IsTree, PlaceOf, Visited

\* Lemma: places are totally ordered, and entries start in the order of their places.
LEMMA PlacesAreOrdered ==
  ASSUME NEW tree, IsTree(tree), NEW p \in Places(tree), NEW q \in Places(tree)
  PROVE  /\ p = q \/ Before(p, q) \/ Before(q, p)
         /\ ~ (Before(p, q) /\ Before(q, p))
         /\ ~ Before(p, p)
  <1>1. /\ p.set \in Nat /\ p.entry \in Nat /\ p = PlaceOf(p.set, p.entry)
        /\ q.set \in Nat /\ q.entry \in Nat /\ q = PlaceOf(q.set, q.entry)
    <2>1. /\ p.set \in 1..Len(tree.sets) /\ p.entry \in 1..Len(tree.sets[p.set])
          /\ q.set \in 1..Len(tree.sets) /\ q.entry \in 1..Len(tree.sets[q.set])
          /\ p = PlaceOf(p.set, p.entry) /\ q = PlaceOf(q.set, q.entry)
      BY PlacesAre
    <2> QED BY <2>1 DEF IsTree
  <1>2. p.set = q.set /\ p.entry = q.entry => p = q
    BY <1>1
  <1> QED BY <1>1, <1>2 DEF Before

\* Lemma: an offset is covered at one place at most.
LEMMA OneCovers ==
  ASSUME NEW tree, IsTree(tree), NEW v, NEW p, NEW q, Covers(tree, p, v), Covers(tree, q, v)
  PROVE  p = q
  BY PlacesAreOrdered DEF Covers

\* Theorem: bktrFindStorageEntry finds the place that covers an offset.
THEOREM FindCovers ==
  ASSUME NEW tree, IsTree(tree), NEW v \in Nat
  PROVE  Covers(tree, FindEntry(tree, v), v)
  <1> DEFINE m == Len(tree.sets)
             firsts == [i \in DOMAIN tree.sets |-> tree.sets[i][1].virtual]
             set == SearchIndex(firsts, v)
             starts == Virtuals(tree.sets[set])
             entry == SearchIndex(starts, v)
  <1>1. m \in Nat \ {0} /\ DOMAIN tree.sets = 1..m
    BY DEF IsTree
  <1>2. \A i \in 1..m : /\ Len(tree.sets[i]) \in Nat \ {0}
                        /\ DOMAIN tree.sets[i] = 1..Len(tree.sets[i])
    BY DEF IsTree
  <1>3. \A i \in 1..m : \A j \in 1..Len(tree.sets[i]) : tree.sets[i][j].virtual \in Nat
    <2> TAKE i \in 1..m
    <2> TAKE j \in 1..Len(tree.sets[i])
    <2>1. PlaceOf(i, j) \in Places(tree) /\ Visited(tree, PlaceOf(i, j)) = tree.sets[i][j]
      BY PlacesAre
    <2> QED BY <2>1 DEF IsTree
  <1>4. \A i, k \in 1..m : \A j \in 1..Len(tree.sets[i]) : \A l \in 1..Len(tree.sets[k]) :
            i < k \/ (i = k /\ j < l) => tree.sets[i][j].virtual < tree.sets[k][l].virtual
    <2> TAKE i, k \in 1..m
    <2> TAKE j \in 1..Len(tree.sets[i])
    <2> TAKE l \in 1..Len(tree.sets[k])
    <2>1. /\ PlaceOf(i, j) \in Places(tree) /\ Visited(tree, PlaceOf(i, j)) = tree.sets[i][j]
          /\ PlaceOf(k, l) \in Places(tree) /\ Visited(tree, PlaceOf(k, l)) = tree.sets[k][l]
      BY PlacesAre
    <2>2. i < k \/ (i = k /\ j < l) => Before(PlaceOf(i, j), PlaceOf(k, l))
      BY DEF Before, PlaceOf
    <2> QED BY <2>1, <2>2 DEF IsTree
  <1>5. LastUpTo(firsts, v, set)
    <2>1. \A i \in 1..m : 1 \in 1..Len(tree.sets[i])
      BY <1>2
    <2>2. firsts \in [1..m -> Nat] /\ \A i \in 1..m : firsts[i] = tree.sets[i][1].virtual
      BY <1>1, <1>3, <2>1
    <2>3. Len(firsts) = m /\ DOMAIN firsts = 1..m
      BY <1>1, <2>2
    <2>4. Rising(firsts)
      <3> HIDE DEF firsts
      <3> QED BY <1>4, <2>1, <2>2, <2>3 DEF Rising
    <2>5. firsts[1] <= v
      BY <1>1, <2>2 DEF IsTree
    <2> HIDE DEF firsts
    <2> QED BY <1>1, <2>2, <2>3, <2>4, <2>5, SearchFinds
  <1>6. set \in 1..m /\ tree.sets[set][1].virtual <= v
    BY <1>1, <1>5 DEF LastUpTo
  <1>7. \A k \in 1..m : set < k => tree.sets[k][1].virtual > v
    BY <1>1, <1>5 DEF LastUpTo
  <1> HIDE DEF set
  <1> DEFINE n == Len(tree.sets[set])
  <1>8. LastUpTo(starts, v, entry)
    <2>1. n \in Nat \ {0} /\ DOMAIN tree.sets[set] = 1..n
      BY <1>2, <1>6
    <2>2. starts \in [1..n -> Nat] /\ \A j \in 1..n : starts[j] = tree.sets[set][j].virtual
      BY <1>3, <1>6, <2>1 DEF Virtuals
    <2>3. Len(starts) = n /\ DOMAIN starts = 1..n
      BY <2>1, <2>2
    <2>4. Rising(starts)
      <3> HIDE DEF starts
      <3> QED BY <1>4, <1>6, <2>2, <2>3 DEF Rising
    <2>5. starts[1] <= v
      BY <1>6, <2>1, <2>2
    <2> HIDE DEF starts
    <2> QED BY <2>1, <2>2, <2>3, <2>4, <2>5, SearchFinds
  <1>9. /\ entry \in 1..n /\ tree.sets[set][entry].virtual <= v
        /\ \A l \in 1..n : entry < l => tree.sets[set][l].virtual > v
    BY <1>2, <1>6, <1>8 DEF LastUpTo, Virtuals
  <1> HIDE DEF entry
  <1>10. FindEntry(tree, v) = PlaceOf(set, entry)
    BY DEF FindEntry, PlaceOf, set, entry
  <1>11. /\ PlaceOf(set, entry) \in Places(tree)
         /\ Visited(tree, PlaceOf(set, entry)) = tree.sets[set][entry]
    BY <1>6, <1>9, PlacesAre
  <1>12. ASSUME NEW q \in Places(tree), Before(PlaceOf(set, entry), q)
         PROVE  Visited(tree, q).virtual > v
    <2>1. /\ q.set \in 1..m /\ q.entry \in 1..Len(tree.sets[q.set])
          /\ Visited(tree, q) = tree.sets[q.set][q.entry]
      BY PlacesAre DEF Visited
    <2>2. set < q.set \/ (q.set = set /\ entry < q.entry)
      BY <1>12 DEF Before, PlaceOf
    <2>3. CASE q.set = set /\ entry < q.entry
      BY <1>9, <2>1, <2>3
    <2>4. CASE set < q.set
      <3>1. tree.sets[q.set][1].virtual > v /\ tree.sets[q.set][1].virtual \in Nat
            /\ 1 \in 1..Len(tree.sets[q.set]) /\ Len(tree.sets[q.set]) \in Nat
        BY <1>2, <1>3, <1>7, <2>1, <2>4
      <3>2. tree.sets[q.set][q.entry].virtual \in Nat
        BY <1>3, <2>1
      <3>3. 1 < q.entry => tree.sets[q.set][1].virtual < tree.sets[q.set][q.entry].virtual
        BY <1>4, <2>1, <3>1
      <3> QED BY <2>1, <3>1, <3>2, <3>3
    <2> QED BY <2>2, <2>3, <2>4
  <1>13. \A q \in Places(tree) : Visited(tree, q).virtual \in Nat
    BY DEF IsTree
  <1> QED BY <1>9, <1>10, <1>11, <1>12, <1>13 DEF Covers

\* Lemma: so its search and the definition of what a tree holds agree.
LEMMA PlaceAtIs ==
  ASSUME NEW tree, IsTree(tree), NEW v \in Nat
  PROVE  /\ PlaceAt(tree, v) = FindEntry(tree, v)
         /\ Covers(tree, PlaceAt(tree, v), v)
  <1>1. Covers(tree, PlaceAt(tree, v), v)
    BY FindCovers DEF Covers, PlaceAt
  <1> QED BY <1>1, FindCovers, OneCovers

\* Lemma: a visitor moves to the place that follows its own, and stops at the last one.
LEMMA MoveIsNext ==
  ASSUME NEW tree, IsTree(tree), NEW p \in Places(tree)
  PROVE  /\ CanMoveNext(tree, p) => /\ MoveNext(tree, p) \in Places(tree)
                                    /\ Before(p, MoveNext(tree, p))
                                    /\ \A q \in Places(tree) : Before(p, q) =>
                                                                ~ Before(q, MoveNext(tree, p))
         /\ ~ CanMoveNext(tree, p) => \A q \in Places(tree) : ~ Before(p, q)
  <1>1. /\ p.set \in 1..Len(tree.sets) /\ p.entry \in 1..Len(tree.sets[p.set])
        /\ p = PlaceOf(p.set, p.entry)
    BY PlacesAre
  <1>2. \A q \in Places(tree) : /\ q.set \in 1..Len(tree.sets) /\ q.entry \in 1..Len(tree.sets[q.set])
                                /\ Len(tree.sets[q.set]) \in Nat \ {0}
    BY PlacesAre DEF IsTree
  <1>3. Len(tree.sets) \in Nat \ {0} /\ Len(tree.sets[p.set]) \in Nat \ {0}
    BY <1>1 DEF IsTree
  <1>4. CASE p.entry < Len(tree.sets[p.set])
    <2>1. MoveNext(tree, p) = PlaceOf(p.set, p.entry + 1) /\ CanMoveNext(tree, p)
      BY <1>1, <1>3, <1>4 DEF MoveNext, CanMoveNext, PlaceOf
    <2>2. PlaceOf(p.set, p.entry + 1) \in Places(tree)
      <3>1. p.entry + 1 \in 1..Len(tree.sets[p.set])
        BY <1>1, <1>3, <1>4
      <3> QED BY <1>1, <3>1, PlacesAre
    <2>3. Before(p, PlaceOf(p.set, p.entry + 1))
      BY <1>1, <1>3 DEF Before, PlaceOf
    <2>4. ASSUME NEW q \in Places(tree), Before(p, q) PROVE ~ Before(q, PlaceOf(p.set, p.entry + 1))
      BY <1>1, <1>2, <1>3, <2>4 DEF Before, PlaceOf
    <2> QED BY <2>1, <2>2, <2>3, <2>4
  <1>5. CASE p.entry = Len(tree.sets[p.set]) /\ p.set < Len(tree.sets)
    <2>1. MoveNext(tree, p) = PlaceOf(p.set + 1, 1) /\ CanMoveNext(tree, p)
      BY <1>1, <1>3, <1>5 DEF MoveNext, CanMoveNext, PlaceOf
    <2>2. PlaceOf(p.set + 1, 1) \in Places(tree)
      <3>1. p.set + 1 \in 1..Len(tree.sets)
        BY <1>1, <1>3, <1>5
      <3>2. 1 \in 1..Len(tree.sets[p.set + 1])
        BY <3>1 DEF IsTree
      <3> QED BY <3>1, <3>2, PlacesAre
    <2>3. Before(p, PlaceOf(p.set + 1, 1))
      BY <1>1, <1>3 DEF Before, PlaceOf
    <2>4. ASSUME NEW q \in Places(tree), Before(p, q) PROVE ~ Before(q, PlaceOf(p.set + 1, 1))
      <3>1. p.set < q.set
        <4>1. q.set = p.set => q.entry \in 1..Len(tree.sets[p.set])
          BY <1>2
        <4> QED BY <1>1, <1>2, <1>3, <1>5, <2>4, <4>1 DEF Before
      <3>2. q.set \in Nat /\ p.set \in Nat /\ q.entry \in Nat /\ 1 <= q.entry
        BY <1>1, <1>2, <1>3
      <3> QED BY <3>1, <3>2 DEF Before, PlaceOf
    <2> QED BY <2>1, <2>2, <2>3, <2>4
  <1>6. CASE p.entry = Len(tree.sets[p.set]) /\ p.set = Len(tree.sets)
    <2>1. ~ CanMoveNext(tree, p)
      BY <1>1, <1>3, <1>6 DEF CanMoveNext
    <2>2. ASSUME NEW q \in Places(tree), Before(p, q) PROVE FALSE
      <3>1. q.set = p.set => q.entry \in 1..Len(tree.sets[p.set])
        BY <1>2
      <3> QED BY <1>1, <1>2, <1>3, <1>6, <2>2, <3>1 DEF Before
    <2> QED BY <2>1, <2>2
  <1> QED BY <1>1, <1>3, <1>4, <1>5, <1>6

\* Lemma: the extents of an entry are the offsets it covers.
LEMMA ExtentsAreCovered ==
  ASSUME NEW tree, IsTree(tree), NEW p \in Places(tree), NEW x, x = Extents(tree, p)
  PROVE  /\ x.entry = Visited(tree, p) /\ x.entry.virtual \in Nat /\ x.next \in Nat
         /\ x.entry.virtual < x.next /\ x.next <= tree.end
         /\ x.next # tree.end => CanMoveNext(tree, p)
         /\ CanMoveNext(tree, p) => x.next = Visited(tree, MoveNext(tree, p)).virtual
         /\ \A v \in Nat : v < tree.end =>
               (Covers(tree, p, v) <=> x.entry.virtual <= v /\ v < x.next)
  <1>1. /\ x.entry = Visited(tree, p)
        /\ CanMoveNext(tree, p) => x.next = Visited(tree, MoveNext(tree, p)).virtual
        /\ ~ CanMoveNext(tree, p) => x.next = tree.end
    BY DEF Extents
  <1>2. \A q \in Places(tree) : Visited(tree, q).virtual \in Nat /\ Visited(tree, q).virtual < tree.end
    BY DEF IsTree
  <1>3. tree.end \in Nat
    BY DEF IsTree
  <1>4. CASE CanMoveNext(tree, p)
    <2> DEFINE next == MoveNext(tree, p)
    <2>1. /\ next \in Places(tree) /\ Before(p, next)
          /\ \A q \in Places(tree) : Before(p, q) => ~ Before(q, next)
      BY <1>4, MoveIsNext
    <2> HIDE DEF next
    <2>2. Visited(tree, p).virtual < Visited(tree, next).virtual
      BY <2>1 DEF IsTree
    <2>3. x.next = Visited(tree, next).virtual
      BY <1>1, <1>4 DEF next
    <2>4. ASSUME NEW v \in Nat PROVE Covers(tree, p, v) <=> x.entry.virtual <= v /\ v < x.next
      <3>1. ASSUME Covers(tree, p, v) PROVE x.entry.virtual <= v /\ v < x.next
        BY <1>1, <1>2, <2>1, <2>3, <3>1 DEF Covers
      <3>2. ASSUME x.entry.virtual <= v, v < x.next, NEW q \in Places(tree),
                   Visited(tree, q).virtual <= v, Before(p, q)
            PROVE  FALSE
        <4>1. q = next \/ Before(next, q)
          BY <2>1, <3>2, PlacesAreOrdered
        <4>2. Visited(tree, next).virtual <= Visited(tree, q).virtual
          BY <1>2, <2>1, <4>1 DEF IsTree
        <4> QED BY <1>2, <2>1, <2>3, <3>2, <4>2
      <3> QED BY <1>1, <3>1, <3>2 DEF Covers
    <2> QED BY <1>1, <1>2, <1>3, <1>4, <2>1, <2>2, <2>3, <2>4
  <1>5. CASE ~ CanMoveNext(tree, p)
    <2>1. \A q \in Places(tree) : ~ Before(p, q)
      BY <1>5, MoveIsNext
    <2>2. ASSUME NEW v \in Nat, v < tree.end
          PROVE  Covers(tree, p, v) <=> x.entry.virtual <= v /\ v < x.next
      BY <1>1, <1>2, <1>3, <1>5, <2>1, <2>2 DEF Covers
    <2> QED BY <1>1, <1>2, <1>3, <1>5, <2>2
  <1> QED BY <1>4, <1>5

\* Lemma: a set of places that is not empty has a first one.
LEMMA FirstPlace ==
  ASSUME NEW tree, IsTree(tree), NEW S, S \subseteq Places(tree), S # {}
  PROVE  \E p \in S : \A q \in S : ~ Before(q, p)
  <1> DEFINE V == {Visited(tree, p).virtual : p \in S}
  <1>1. \A p \in Places(tree) : Visited(tree, p).virtual \in Nat
    BY DEF IsTree
  <1>2. V \subseteq Nat /\ V # {}
    BY <1>1
  <1>3. PICK v \in V : \A k \in V : v <= k
    <2> HIDE DEF V
    <2> QED BY <1>2, LeastElement
  <1>4. PICK p \in S : v = Visited(tree, p).virtual
    OBVIOUS
  <1>5. ASSUME NEW q \in S, Before(q, p) PROVE FALSE
    <2>1. Visited(tree, q).virtual < Visited(tree, p).virtual
      BY <1>5 DEF IsTree
    <2>2. v <= Visited(tree, q).virtual
      BY <1>3
    <2> QED BY <1>1, <1>4, <2>1, <2>2
  <1> QED BY <1>5

\* Lemma: what holds of a place once it holds of all that follow it holds of every place.
LEMMA LastPlace ==
  ASSUME NEW tree, IsTree(tree), NEW S, S \subseteq Places(tree), S # {}
  PROVE  \E p \in S : \A q \in S : ~ Before(p, q)
  <1> DEFINE V == {tree.end - Visited(tree, p).virtual : p \in S}
  <1>1. /\ tree.end \in Nat
        /\ \A p \in Places(tree) :
              Visited(tree, p).virtual \in Nat /\ Visited(tree, p).virtual < tree.end
    BY DEF IsTree
  <1>2. V \subseteq Nat /\ V # {}
    <2>1. \A p \in S : tree.end - Visited(tree, p).virtual \in Nat
      BY <1>1
    <2> QED BY <2>1
  <1>3. PICK v \in V : \A k \in V : v <= k
    <2> HIDE DEF V
    <2> QED BY <1>2, LeastElement
  <1>4. PICK p \in S : v = tree.end - Visited(tree, p).virtual
    OBVIOUS
  <1>5. ASSUME NEW q \in S, Before(p, q) PROVE FALSE
    <2>1. Visited(tree, p).virtual < Visited(tree, q).virtual
      BY <1>5 DEF IsTree
    <2>2. v <= tree.end - Visited(tree, q).virtual
      BY <1>3
    <2> QED BY <1>1, <1>4, <2>1, <2>2
  <1> QED BY <1>5

\* Lemma: the order of places is transitive.
LEMMA BeforeIsTransitive ==
  ASSUME NEW tree, IsTree(tree), NEW p \in Places(tree), NEW q \in Places(tree),
         NEW r \in Places(tree), Before(p, q), Before(q, r)
  PROVE  Before(p, r)
  <1>1. /\ p.set \in Nat /\ p.entry \in Nat /\ q.set \in Nat /\ q.entry \in Nat
        /\ r.set \in Nat /\ r.entry \in Nat
    <2>1. \A x \in Places(tree) : x.set \in 1..Len(tree.sets) /\ x.entry \in 1..Len(tree.sets[x.set])
                                  /\ Len(tree.sets[x.set]) \in Nat /\ Len(tree.sets) \in Nat
      BY PlacesAre DEF IsTree
    <2>2. \A x \in Places(tree) : x.set \in Nat /\ x.entry \in Nat
      BY <2>1
    <2> QED BY <2>2
  <1> QED BY <1>1 DEF Before

-----------------------------------------------------------------------------
\* Blocks within the patch

\* What the loop over the entries of a block looks for
Meets(tree, p, end) ==
  \E q \in Places(tree) : /\ ~ Before(q, p) /\ Visited(tree, q).index = 1
                          /\ q = p \/ Visited(tree, q).virtual < end

\* Lemma: what the loop looks for from a place on is there, or further on and still in the block.
LEMMA MeetsStep ==
  ASSUME NEW tree, IsTree(tree), NEW p \in Places(tree), NEW end \in Nat
  PROVE  Meets(tree, p, end) <=>
            \/ Visited(tree, p).index = 1
            \/ /\ CanMoveNext(tree, p)
               /\ Visited(tree, MoveNext(tree, p)).virtual < end
               /\ Meets(tree, MoveNext(tree, p), end)
  <1> DEFINE next == MoveNext(tree, p)
  <1>1. CanMoveNext(tree, p) => /\ next \in Places(tree) /\ Before(p, next)
                                /\ \A q \in Places(tree) : Before(p, q) => ~ Before(q, next)
    BY MoveIsNext
  <1>2. ~ CanMoveNext(tree, p) => \A q \in Places(tree) : ~ Before(p, q)
    BY MoveIsNext
  <1> HIDE DEF next
  <1>3. \A q \in Places(tree) : Visited(tree, q).virtual \in Nat
    BY DEF IsTree
  <1>4. ASSUME NEW q \in Places(tree), ~ Before(q, p), Visited(tree, q).index = 1,
               q # p, Visited(tree, q).virtual < end
        PROVE  CanMoveNext(tree, p) /\ Visited(tree, next).virtual < end /\ Meets(tree, next, end)
    <2>1. Before(p, q)
      BY <1>4, PlacesAreOrdered
    <2>2. CanMoveNext(tree, p) /\ next \in Places(tree) /\ ~ Before(q, next)
      BY <1>1, <1>2, <2>1
    <2>3. q = next \/ Before(next, q)
      BY <2>2, PlacesAreOrdered
    <2>4. Visited(tree, next).virtual <= Visited(tree, q).virtual
      BY <1>3, <2>2, <2>3 DEF IsTree
    <2>5. Visited(tree, next).virtual < end
      BY <1>3, <1>4, <2>2, <2>4
    <2> QED BY <1>4, <2>2, <2>5 DEF Meets
  <1>5. ASSUME CanMoveNext(tree, p), Visited(tree, next).virtual < end, Meets(tree, next, end)
        PROVE  Meets(tree, p, end)
    <2>1. PICK q \in Places(tree) : /\ ~ Before(q, next) /\ Visited(tree, q).index = 1
                                    /\ q = next \/ Visited(tree, q).virtual < end
      BY <1>5 DEF Meets
    <2>2. next \in Places(tree) /\ Before(p, next)
      BY <1>1, <1>5
    <2>3. q = next \/ Before(next, q)
      BY <2>1, <2>2, PlacesAreOrdered
    <2>4. Before(p, q)
      BY <2>2, <2>3, BeforeIsTransitive
    <2>5. ~ Before(q, p) /\ Visited(tree, q).virtual < end
      BY <1>5, <2>1, <2>4, PlacesAreOrdered
    <2> QED BY <2>1, <2>5 DEF Meets
  <1>6. Visited(tree, p).index = 1 => Meets(tree, p, end)
    BY PlacesAreOrdered DEF Meets
  <1>7. Meets(tree, p, end) => \/ Visited(tree, p).index = 1
                               \/ /\ CanMoveNext(tree, p) /\ Visited(tree, next).virtual < end
                                  /\ Meets(tree, next, end)
    BY <1>4 DEF Meets
  <1> QED BY <1>5, <1>6, <1>7 DEF next

\* Lemma: the loop of bktrIsBlockWithinIndirectStorageRange finds what it looks for.
LEMMA MeetsPatchEntryIs ==
  ASSUME NEW tree, IsTree(tree), NEW p \in Places(tree), NEW end \in Nat
  PROVE  MeetsPatchEntry(tree, p, end) <=> Meets(tree, p, end)
  <1> DEFINE Body(f, at) ==
               \/ Visited(tree, at).index = 1
               \/ /\ CanMoveNext(tree, at)
                  /\ Visited(tree, MoveNext(tree, at)).virtual < end
                  /\ f[MoveNext(tree, at)]
             known == [at \in Places(tree) |-> Meets(tree, at, end)]
             meets == CHOOSE f : f = [at \in Places(tree) |-> Body(f, at)]
  <1>1. \A at \in Places(tree) : CanMoveNext(tree, at) => MoveNext(tree, at) \in Places(tree)
    BY MoveIsNext
  <1>2. \A at \in Places(tree) : known[at] = Body(known, at)
    <2> TAKE at \in Places(tree)
    <2>1. CanMoveNext(tree, at) =>
              known[MoveNext(tree, at)] = Meets(tree, MoveNext(tree, at), end)
      BY <1>1
    <2>2. known[at] = Meets(tree, at, end)
      OBVIOUS
    <2>3. Meets(tree, at, end) \in BOOLEAN /\ Body(known, at) \in BOOLEAN
      BY Zenon DEF Meets
    <2> HIDE DEF known
    <2>4. Body(known, at) <=> Meets(tree, at, end)
      BY <2>1, MeetsStep
    <2> HIDE DEF Body
    <2> QED BY <2>2, <2>3, <2>4
  <1>3. known = [at \in Places(tree) |-> Body(known, at)]
    <2> HIDE DEF Body
    <2> QED BY <1>2
  <1>4. meets = [at \in Places(tree) |-> Body(meets, at)]
    <2> HIDE DEF Body, known
    <2> QED BY <1>3
  <1>5. \A at \in Places(tree) : meets[at] = Body(meets, at)
    <2> HIDE DEF Body, meets
    <2> QED BY <1>4
  <1>6. MeetsPatchEntry(tree, p, end) = meets[p]
    BY DEF MeetsPatchEntry
  <1> HIDE DEF known, meets
  <1> DEFINE Bad == {at \in Places(tree) : ~ (meets[at] <=> Meets(tree, at, end))}
  <1>7. Bad = {}
    <2> SUFFICES ASSUME Bad # {} PROVE FALSE
      OBVIOUS
    <2>1. PICK at \in Bad : \A q \in Bad : ~ Before(at, q)
      <3>1. Bad \subseteq Places(tree)
        OBVIOUS
      <3> HIDE DEF Bad
      <3> QED BY <3>1, LastPlace
    <2>2. at \in Places(tree) /\ meets[at] = Body(meets, at)
      BY <1>5
    <2>3. CanMoveNext(tree, at) => (meets[MoveNext(tree, at)] <=> Meets(tree, MoveNext(tree, at), end))
      <3>1. CanMoveNext(tree, at) => /\ MoveNext(tree, at) \in Places(tree)
                                     /\ Before(at, MoveNext(tree, at))
        BY <2>2, MoveIsNext
      <3> QED BY <2>1, <3>1
    <2>4. meets[at] <=> Meets(tree, at, end)
      BY <2>2, <2>3, MeetsStep
    <2> QED BY <2>4
  <1> QED BY <1>6, <1>7

\* Lemma: a range of an indirect storage is told to be updated exactly when a patched entry covers
\* a cell of it.
LEMMA RangeIsTold ==
  ASSUME NEW g, IsTree(g.tree), NEW offset \in Nat, NEW size \in Nat, size > 0,
         offset + size <= g.tree.end
  PROVE  /\ IndirectRange(g, offset, size).ok = TRUE
         /\ IndirectRange(g, offset, size).updated <=>
               \E v \in offset..(offset + size - 1) : EntryAt(g.tree, v).index = 1
  <1> DEFINE tree == g.tree
             p == FindEntry(tree, offset)
             end == offset + size
  <1>1. /\ tree.end \in Nat /\ end \in Nat
        /\ \A q \in Places(tree) : Visited(tree, q).virtual \in Nat
    BY DEF IsTree
  <1>2. IndirectRange(g, offset, size) = Told(MeetsPatchEntry(tree, p, end))
    BY <1>1 DEF IndirectRange
  <1>3. Covers(tree, p, offset)
    BY FindCovers
  <1> HIDE DEF p
  <1>4. MeetsPatchEntry(tree, p, end) <=> Meets(tree, p, end)
    BY <1>1, <1>3, MeetsPatchEntryIs DEF Covers
  <1>5. ASSUME NEW q \in Places(tree), ~ Before(q, p), Visited(tree, q).index = 1,
               q = p \/ Visited(tree, q).virtual < end
        PROVE  \E v \in offset..(end - 1) : EntryAt(tree, v).index = 1
    <2>1. CASE q = p
      <3>1. PlaceAt(tree, offset) = p
        BY <1>3, OneCovers, PlaceAtIs
      <3>2. offset \in offset..(end - 1)
        BY <1>1
      <3> QED BY <1>5, <2>1, <3>1, <3>2 DEF EntryAt
    <2>2. CASE q # p
      <3> DEFINE v == Visited(tree, q).virtual
      <3>1. Before(p, q)
        BY <1>3, <1>5, <2>2, PlacesAreOrdered DEF Covers
      <3>2. v \in offset..(end - 1)
        BY <1>1, <1>3, <1>5, <2>2, <3>1 DEF Covers
      <3>3. Covers(tree, q, v)
        <4>1. \A r \in Places(tree) : Before(q, r) => v < Visited(tree, r).virtual
          BY DEF IsTree
        <4> QED BY <1>1, <4>1 DEF Covers
      <3>4. PlaceAt(tree, v) = q
        BY <1>1, <3>3, OneCovers, PlaceAtIs
      <3> QED BY <1>5, <3>2, <3>4 DEF EntryAt
    <2> QED BY <2>1, <2>2
  <1>6. ASSUME NEW v \in offset..(end - 1), EntryAt(tree, v).index = 1
        PROVE  Meets(tree, p, end)
    <2> DEFINE q == PlaceAt(tree, v)
    <2>1. v \in Nat /\ offset <= v /\ v < end
      BY <1>1
    <2>2. Covers(tree, q, v)
      BY <2>1, PlaceAtIs
    <2>3. q \in Places(tree) /\ Visited(tree, q).index = 1 /\ Visited(tree, q).virtual < end
      BY <1>1, <1>6, <2>1, <2>2 DEF Covers, EntryAt
    <2>4. ~ Before(q, p)
      BY <1>1, <1>3, <2>1, <2>2 DEF Covers
    <2> HIDE DEF q
    <2> QED BY <2>3, <2>4 DEF Meets
  <1>7. Meets(tree, p, end) <=> \E v \in offset..(end - 1) : EntryAt(tree, v).index = 1
    BY <1>5, <1>6 DEF Meets
  <1>8. IndirectRange(g, offset, size).ok = TRUE
        /\ IndirectRange(g, offset, size).updated = MeetsPatchEntry(tree, p, end)
    BY <1>2 DEF Told
  <1> QED BY <1>4, <1>7, <1>8

\* Lemma: the smaller and the greater of two numbers.
LEMMA TwoExtremes ==
  ASSUME NEW a \in Int, NEW b \in Int
  PROVE  /\ Max({a, b}) = IF a >= b THEN a ELSE b
         /\ Min({a, b}) = IF a <= b THEN a ELSE b
  <1>1. \E x \in {a, b} : \A y \in {a, b} : x >= y
    BY DEF Max
  <1>2. \E x \in {a, b} : \A y \in {a, b} : x <= y
    OBVIOUS
  <1>3. Max({a, b}) \in {a, b} /\ \A y \in {a, b} : Max({a, b}) >= y
    BY <1>1 DEF Max
  <1>4. Min({a, b}) \in {a, b} /\ \A y \in {a, b} : Min({a, b}) <= y
    BY <1>2 DEF Min
  <1> QED BY <1>3, <1>4

-----------------------------------------------------------------------------
\* Blocks of a compressed storage

\* What the loop over the compressed entries of a block is told of one of them.
Updated(g, p, offset, end) == EntryUpdated(g, Extents(g.tree, p), offset, end)

\* An entry stops that loop when it fails, is updated or is the last of the block.
Stops(g, p, offset, end) ==
  \/ ~ Updated(g, p, offset, end).ok
  \/ Updated(g, p, offset, end).updated
  \/ Extents(g.tree, p).next >= end

\* The first entry from p on that stops it is at q.
FirstStop(g, p, offset, end, q) ==
  /\ q \in Places(g.tree) /\ ~ Before(q, p) /\ Stops(g, q, offset, end)
  /\ \A r \in Places(g.tree) : ~ Before(r, p) /\ Before(r, q) => ~ Stops(g, r, offset, end)

\* Lemma: some entry of a block stops the loop over the compressed entries, and one is the first.
LEMMA FirstStopExists ==
  ASSUME NEW g, IsTree(g.tree), NEW p \in Places(g.tree), NEW offset \in Nat, NEW end \in Nat,
         end <= g.tree.end
  PROVE  \E q : FirstStop(g, p, offset, end, q)
  <1> DEFINE S == {q \in Places(g.tree) : ~ Before(q, p) /\ Stops(g, q, offset, end)}
  <1>1. S # {}
    <2>1. PICK q \in Places(g.tree) : \A r \in Places(g.tree) : ~ Before(q, r)
      BY LastPlace
    <2>2. ~ CanMoveNext(g.tree, q)
      BY <2>1, MoveIsNext
    <2>3. Extents(g.tree, q).next >= end
      BY <2>2 DEF Extents, IsTree
    <2> QED BY <2>1, <2>3 DEF Stops
  <1>2. PICK q \in S : \A r \in S : ~ Before(r, q)
    <2>1. S \subseteq Places(g.tree)
      OBVIOUS
    <2> HIDE DEF S
    <2> QED BY <1>1, <2>1, FirstPlace
  <1> QED BY <1>2 DEF FirstStop

\* Lemma: only one is.
LEMMA OneFirstStop ==
  ASSUME NEW g, IsTree(g.tree), NEW p, NEW offset, NEW end, NEW q, NEW r,
         FirstStop(g, p, offset, end, q), FirstStop(g, p, offset, end, r)
  PROVE  q = r
  BY PlacesAreOrdered DEF FirstStop

\* Lemma: an entry that does not stop the loop leaves the first that does where it is.
LEMMA FirstStopStep ==
  ASSUME NEW g, IsTree(g.tree), NEW p \in Places(g.tree), NEW offset \in Nat, NEW end \in Nat,
         end <= g.tree.end
  PROVE  /\ Stops(g, p, offset, end) => FirstStop(g, p, offset, end, p)
         /\ ~ Stops(g, p, offset, end) =>
               /\ MoveNext(g.tree, p) \in Places(g.tree) /\ Before(p, MoveNext(g.tree, p))
               /\ \A q : FirstStop(g, MoveNext(g.tree, p), offset, end, q) =>
                            FirstStop(g, p, offset, end, q)
  <1>1. CASE Stops(g, p, offset, end)
    BY <1>1, PlacesAreOrdered DEF FirstStop
  <1>2. CASE ~ Stops(g, p, offset, end)
    <2> DEFINE next == MoveNext(g.tree, p)
    <2>1. CanMoveNext(g.tree, p)
      BY <1>2 DEF Stops, Extents, IsTree
    <2>2. /\ next \in Places(g.tree) /\ Before(p, next)
          /\ \A r \in Places(g.tree) : Before(p, r) => ~ Before(r, next)
      BY <2>1, MoveIsNext
    <2> HIDE DEF next
    <2>3. ASSUME NEW q, FirstStop(g, next, offset, end, q)
          PROVE  FirstStop(g, p, offset, end, q)
      <3>1. q \in Places(g.tree) /\ ~ Before(q, next) /\ Stops(g, q, offset, end)
        BY <2>3 DEF FirstStop
      <3>2. q = next \/ Before(next, q)
        BY <2>2, <3>1, PlacesAreOrdered
      <3>3. ~ Before(q, p)
        BY <2>2, <3>1, <3>2, BeforeIsTransitive, PlacesAreOrdered
      <3>4. ASSUME NEW r \in Places(g.tree), ~ Before(r, p), Before(r, q)
            PROVE  ~ Stops(g, r, offset, end)
        <4>1. CASE r = p
          BY <1>2, <4>1
        <4>2. CASE r # p
          <5>1. ~ Before(r, next)
            BY <2>2, <3>4, <4>2, PlacesAreOrdered
          <5> QED BY <2>3, <3>4, <5>1 DEF FirstStop
        <4> QED BY <4>1, <4>2
      <3> QED BY <3>1, <3>3, <3>4 DEF FirstStop
    <2> QED BY <1>2, <2>2, <2>3 DEF next
  <1> QED BY <1>1, <1>2

\* Lemma: the loop answers what the first entry that stops it says.
LEMMA MeetsPatchedDataIs ==
  ASSUME NEW g, IsTree(g.tree), NEW p \in Places(g.tree), NEW offset \in Nat, NEW end \in Nat,
         end <= g.tree.end
  PROVE  \E q : /\ FirstStop(g, p, offset, end, q)
                /\ MeetsPatchedData(g, p, offset, end) = Updated(g, q, offset, end)
  <1> DEFINE P == Places(g.tree)
             First(at) == CHOOSE q : FirstStop(g, at, offset, end, q)
             Body(f, at) ==
               LET x       == Extents(g.tree, at)
                   updated == EntryUpdated(g, x, offset, end)
               IN IF ~updated.ok \/ updated.updated \/ x.next >= end THEN updated
                  ELSE f[MoveNext(g.tree, at)]
             known == [at \in P |-> Updated(g, First(at), offset, end)]
             told == CHOOSE f : f = [at \in P |-> Body(f, at)]
  <1>1. \A at \in P : FirstStop(g, at, offset, end, First(at))
    BY FirstStopExists
  <1>2. \A f : \A at \in P : Body(f, at) = IF Stops(g, at, offset, end) THEN Updated(g, at, offset, end)
                                           ELSE f[MoveNext(g.tree, at)]
    BY Zenon DEF Stops, Updated
  <1>3. \A at \in P : IF Stops(g, at, offset, end) THEN First(at) = at
                      ELSE /\ MoveNext(g.tree, at) \in P /\ Before(at, MoveNext(g.tree, at))
                           /\ First(at) = First(MoveNext(g.tree, at))
    <2> TAKE at \in P
    <2> HIDE DEF First
    <2>1. CASE Stops(g, at, offset, end)
      BY <1>1, <2>1, FirstStopStep, OneFirstStop
    <2>2. CASE ~ Stops(g, at, offset, end)
      <3>1. /\ MoveNext(g.tree, at) \in P /\ Before(at, MoveNext(g.tree, at))
            /\ \A q : FirstStop(g, MoveNext(g.tree, at), offset, end, q) =>
                          FirstStop(g, at, offset, end, q)
        BY <2>2, FirstStopStep
      <3> QED BY <1>1, <2>2, <3>1, OneFirstStop
    <2> QED BY <2>1, <2>2
  <1> HIDE DEF First
  <1>4. \A at \in P : known[at] = Body(known, at)
    <2> TAKE at \in P
    <2>1. CASE Stops(g, at, offset, end)
      BY <1>2, <1>3, <2>1
    <2>2. CASE ~ Stops(g, at, offset, end)
      <3>1. Body(known, at) = known[MoveNext(g.tree, at)] /\ MoveNext(g.tree, at) \in P
            /\ First(at) = First(MoveNext(g.tree, at))
        <4> HIDE DEF Body, known
        <4> QED BY <1>2, <1>3, <2>2
      <3> HIDE DEF Body
      <3> QED BY <3>1
    <2> QED BY <2>1, <2>2
  <1>5. known = [at \in P |-> Body(known, at)]
    <2> HIDE DEF Body
    <2> QED BY <1>4
  <1>6. told = [at \in P |-> Body(told, at)]
    <2> HIDE DEF Body, known
    <2> QED BY <1>5
  <1>7. \A at \in P : told[at] = Body(told, at)
    <2> HIDE DEF Body, told
    <2> QED BY <1>6
  <1>8. MeetsPatchedData(g, p, offset, end) = told[p]
    BY DEF MeetsPatchedData
  <1> HIDE DEF known, told, Body
  <1> DEFINE Bad == {at \in P : told[at] # Updated(g, First(at), offset, end)}
  <1>9. Bad = {}
    <2> SUFFICES ASSUME Bad # {} PROVE FALSE
      OBVIOUS
    <2>1. PICK at \in Bad : \A q \in Bad : ~ Before(at, q)
      <3>1. Bad \subseteq P
        OBVIOUS
      <3> HIDE DEF Bad
      <3> QED BY <3>1, LastPlace
    <2>2. at \in P /\ told[at] = Body(told, at) /\ told[at] # Updated(g, First(at), offset, end)
      BY <1>7
    <2>3. CASE Stops(g, at, offset, end)
      BY <1>2, <1>3, <2>2, <2>3
    <2>4. CASE ~ Stops(g, at, offset, end)
      <3>1. /\ MoveNext(g.tree, at) \in P /\ Before(at, MoveNext(g.tree, at))
            /\ First(at) = First(MoveNext(g.tree, at))
            /\ told[at] = told[MoveNext(g.tree, at)]
        BY <1>2, <1>3, <2>2, <2>4
      <3>2. told[MoveNext(g.tree, at)] = Updated(g, First(MoveNext(g.tree, at)), offset, end)
        BY <2>1, <3>1
      <3> QED BY <2>2, <3>1, <3>2
    <2> QED BY <2>3, <2>4
  <1> QED BY <1>1, <1>8, <1>9

\* Lemma: a table the program accepts is a tree in the sense of these proofs.
LEMMA WellFormedIsTree ==
  ASSUME NEW tree, NEW entries, WellFormed(tree, entries), \A e \in entries : e.virtual \in Nat
  PROVE  /\ IsTree(tree)
         /\ \A p \in Places(tree) : Visited(tree, p) \in entries
  <1> DEFINE m == Len(tree.sets)
  <1>1. /\ m \in Nat \ {0} /\ DOMAIN tree.sets = 1..m
        /\ \A i \in 1..m : tree.sets[i] \in Seq(entries) /\ tree.sets[i] # <<>>
    BY DEF WellFormed
  <1>2. \A i \in 1..m : /\ Len(tree.sets[i]) \in Nat \ {0}
                        /\ DOMAIN tree.sets[i] = 1..Len(tree.sets[i])
                        /\ \A j \in 1..Len(tree.sets[i]) : tree.sets[i][j] \in entries
    BY <1>1
  <1> HIDE DEF m
  <1>3. \A p \in Places(tree) : Visited(tree, p) \in entries
    <2> TAKE p \in Places(tree)
    <2>1. PICK i \in 1..m : \E j \in DOMAIN tree.sets[i] : p = [set |-> i, entry |-> j]
      BY <1>1 DEF Places
    <2>2. PICK j \in DOMAIN tree.sets[i] : p = [set |-> i, entry |-> j]
      BY <2>1
    <2> QED BY <1>2, <2>2 DEF Visited
  <1> QED BY <1>1, <1>2, <1>3 DEF IsTree, WellFormed, m

\* Lemma: so are the tables of every section.
LEMMA TablesAreTrees ==
  /\ \A tree : WellFormed(tree, Moves) =>
       IsTree(tree) /\ \A p \in Places(tree) : Visited(tree, p) \in Moves
  /\ \A tree : WellFormed(tree, Keys) =>
       IsTree(tree) /\ \A p \in Places(tree) : Visited(tree, p) \in Keys
  /\ \A tree : WellFormed(tree, Packs) =>
       IsTree(tree) /\ \A p \in Places(tree) : Visited(tree, p) \in Packs
  <1>1. \A e \in Moves : e.virtual \in Nat
    BY DEF Moves
  <1>2. \A e \in Keys : e.virtual \in Nat
    BY DEF Keys
  <1>3. \A e \in Packs : e.virtual \in Nat
    BY DEF Packs
  <1> QED BY <1>1, <1>2, <1>3, WellFormedIsTree

\* Lemma: what a patch opened over a base stands on: an indirect storage, or a compressed one over it
\* whose entries point into it.
LEMMA PatchStorage ==
  ASSUME NEW t \in Titles, t.base # None, t.patch # None
  PROVE  LET s == t.patch
             i == IndirectOf(s, t.base)
             g == StorageOf(s, t.base)
         IN /\ s \in DOMAIN Sections /\ Sections[s].hash \in Nat
            /\ i.type = "Indirect" /\ i.section = s /\ i.tree = Sections[s].indirect
            /\ IsTree(i.tree)
            /\ \/ g = i
               \/ /\ g = Storage("Compressed", s, Sections[s].compressed, <<i>>)
                  /\ WellFormed(Sections[s].compressed, Packs)
                  /\ PointsInside(g)
  <1> DEFINE s == t.patch
             i == IndirectOf(s, t.base)
             g == StorageOf(s, t.base)
  <1>1. s \in DOMAIN Sections /\ Sections[s].indirect # None /\ None \notin DOMAIN Sections
    BY TitlesAssumption, SectionsAssumption
  <1>2. /\ Sections[s].hash \in Nat /\ Sections[s].sparse = None
        /\ WellFormed(Sections[s].indirect, Moves)
        /\ Sections[s].compressed # None => WellFormed(Sections[s].compressed, Packs)
    BY <1>1, SectionsAssumption
  <1>3. i.type = "Indirect" /\ i.section = s /\ i.tree = Sections[s].indirect
    BY DEF IndirectOf, Storage
  <1>4. IsTree(Sections[s].indirect)
    BY <1>2, TablesAreTrees
  <1>5. PointsInside(g)
    BY TablesPointInside
  <1>6. UncompressedOf(s, t.base) = i
    BY <1>1 DEF UncompressedOf
  <1>7. g = IF Sections[s].compressed # None
            THEN Storage("Compressed", s, Sections[s].compressed, <<i>>) ELSE i
    BY <1>2, <1>6 DEF StorageOf
  <1> HIDE DEF i, g
  <1>8. \/ g = i
        \/ /\ g = Storage("Compressed", s, Sections[s].compressed, <<i>>)
           /\ WellFormed(Sections[s].compressed, Packs)
           /\ PointsInside(g)
    BY <1>2, <1>5, <1>7
  <1> QED BY <1>1, <1>2, <1>3, <1>4, <1>8 DEF i, g

\* Lemma: the part of a block an entry covers that is stored as it is, is looked up where it is stored.
LEMMA UpdatedIsTold ==
  ASSUME NEW s \in DOMAIN Sections, NEW i, NEW tree, NEW g,
         g = Storage("Compressed", s, tree, <<i>>), Sections[s].hash \in Nat,
         i.type = "Indirect", IsTree(i.tree), WellFormed(tree, Packs), PointsInside(g),
         NEW offset \in Nat, NEW end \in Nat, end <= tree.end, offset < end,
         NEW p \in Places(tree), Visited(tree, p).kind = "none",
         Visited(tree, p).virtual < end, offset < Extents(tree, p).next
  PROVE  /\ Updated(g, p, offset, end).ok = TRUE
         /\ Updated(g, p, offset, end).updated <=>
               \E v \in offset..(end - 1) : Covers(tree, p, v) /\ PatchedAt(g, v)
  <1> DEFINE x == Extents(tree, p)
             e == x.entry
             hash == Sections[s].hash
             from == Max({offset, e.virtual})
             to == Min({end, x.next})
  <1>1. IsTree(tree) /\ Visited(tree, p) \in Packs
    BY TablesAreTrees
  <1>2. /\ e = Visited(tree, p) /\ e.virtual \in Nat /\ x.next \in Nat /\ x.next <= tree.end
        /\ e.virtual < x.next
        /\ \A v \in Nat : v < tree.end => (Covers(tree, p, v) <=> e.virtual <= v /\ v < x.next)
    BY <1>1, ExtentsAreCovered
  <1>3. e.physical \in Nat /\ e.kind = "none" /\ tree.end \in Nat
    BY <1>1, <1>2 DEF Packs, IsTree
  <1>4. /\ from = IF offset >= e.virtual THEN offset ELSE e.virtual
        /\ to = IF end <= x.next THEN end ELSE x.next
    <2>1. \A a, b \in Nat : /\ Max({a, b}) = IF a >= b THEN a ELSE b
                            /\ Min({a, b}) = IF a <= b THEN a ELSE b
      BY TwoExtremes
    <2> HIDE DEF x
    <2> QED BY <1>2, <2>1, ZenonT(60)
  <1>5. g.type = "Compressed" /\ g.section = s /\ g.tree = tree /\ g.subs[1] = i
    BY DEF Storage
  <1>6. hash + e.physical + (x.next - e.virtual) <= i.tree.end
    <2> DEFINE v == x.next - 1
               held == Held(g, EntryAt(tree, v), v)
               cell == hash * 1 + v - e.virtual + e.physical
    <2>1. v \in 0..(tree.end - 1) /\ Covers(tree, p, v)
      BY <1>2, <1>3
    <2>2. EntryAt(tree, v) = e
      BY <1>1, <1>2, <2>1, OneCovers, PlaceAtIs DEF EntryAt
    <2>3. held = [in |-> i, cells |-> {cell}]
      BY <1>3, <1>5, <2>2 DEF Held
    <2>4. held.in.type = "Missing" \/ held.cells \subseteq 0..(EndOf(held.in) - 1)
      BY <1>5, <2>1 DEF PointsInside
    <2> HIDE DEF held
    <2>5. cell \in 0..(EndOf(i) - 1)
      BY <2>3, <2>4
    <2>6. EndOf(i) = i.tree.end /\ i.tree.end \in Nat
      BY DEF EndOf, IsTree
    <2> HIDE DEF hash
    <2>7. hash \in Nat
      BY DEF hash
    <2> QED BY <1>2, <1>3, <2>5, <2>6, <2>7
  <1> DEFINE at == hash + e.physical + from - e.virtual
             n == to - from
  <1>7. /\ at \in Nat /\ n \in Nat /\ n > 0 /\ i.tree.end \in Nat /\ at + n <= i.tree.end
        /\ at + n - 1 = hash + e.physical + (to - 1) - e.virtual
    <2>1. i.tree.end \in Nat
      BY DEF IsTree
    <2>2. e.virtual < end /\ offset < x.next
      BY <1>2
    <2> HIDE DEF x, from, to, hash
    <2>3. from \in Nat /\ to \in Nat /\ from < to /\ e.virtual <= from /\ to <= x.next
      BY <1>2, <1>4, <2>2
    <2>4. hash \in Nat
      BY DEF hash
    <2> QED BY <1>2, <1>3, <1>6, <2>1, <2>3, <2>4
  <1>8. Updated(g, p, offset, end) = IndirectRange(i, at, n)
    BY <1>5 DEF Updated, EntryUpdated
  <1>9. /\ IndirectRange(i, at, n).ok = TRUE
        /\ IndirectRange(i, at, n).updated <=> \E w \in at..(at + n - 1) : EntryAt(i.tree, w).index = 1
    <2>1. PICK a : a = at
      OBVIOUS
    <2>2. PICK k : k = n
      OBVIOUS
    <2> HIDE DEF at, n
    <2>3. a \in Nat /\ k \in Nat /\ k > 0 /\ a + k <= i.tree.end
      BY <1>7, <2>1, <2>2
    <2>4. /\ IndirectRange(i, a, k).ok = TRUE
          /\ IndirectRange(i, a, k).updated <=> \E w \in a..(a + k - 1) : EntryAt(i.tree, w).index = 1
      BY <2>3, RangeIsTold, ZenonT(60)
    <2> QED BY <2>1, <2>2, <2>4
  <1>10. ASSUME NEW v \in from..(to - 1)
         PROVE  /\ v \in offset..(end - 1) /\ Covers(tree, p, v)
                /\ PatchedAt(g, v) <=> EntryAt(i.tree, hash + (v - e.virtual + e.physical)).index = 1
    <2>1. v \in Nat /\ v < tree.end /\ e.virtual <= v /\ v < x.next /\ v \in offset..(end - 1)
      BY <1>2, <1>3, <1>4
    <2>2. Covers(tree, p, v)
      BY <1>2, <2>1
    <2>3. EntryAt(tree, v) = e
      BY <1>1, <1>2, <2>1, <2>2, OneCovers, PlaceAtIs DEF EntryAt
    <2> QED BY <1>3, <1>5, <2>1, <2>2, <2>3 DEF PatchedAt
  <1>11. ASSUME NEW w \in at..(at + n - 1), EntryAt(i.tree, w).index = 1
         PROVE  \E v \in offset..(end - 1) : Covers(tree, p, v) /\ PatchedAt(g, v)
    <2> DEFINE v == w - hash - e.physical + e.virtual
    <2>1. v \in from..(to - 1) /\ w = hash + (v - e.virtual + e.physical)
      BY <1>2, <1>3, <1>4, <1>7
    <2> HIDE DEF v, from, to
    <2> QED BY <1>10, <1>11, <2>1
  <1>12. ASSUME NEW v \in offset..(end - 1), Covers(tree, p, v), PatchedAt(g, v)
         PROVE  \E w \in at..(at + n - 1) : EntryAt(i.tree, w).index = 1
    <2>1. v \in Nat /\ v < tree.end
      BY <1>3
    <2>2. e.virtual <= v /\ v < x.next
      BY <1>2, <1>12, <2>1
    <2>3. v \in from..(to - 1)
      BY <1>2, <1>4, <2>1, <2>2
    <2>4. hash + (v - e.virtual + e.physical) \in at..(at + n - 1)
      BY <1>2, <1>3, <1>4, <1>7, <2>1, <2>3
    <2> HIDE DEF at, n, from, to
    <2> QED BY <1>10, <1>12, <2>3, <2>4
  <1> HIDE DEF at, n
  <1> QED BY <1>8, <1>9, <1>11, <1>12

\* Lemma: a block of a compressed storage all of whose entries are stored as they are is told to be
\* updated exactly when the patch holds a cell of it.
LEMMA PackedBlockIsTold ==
  ASSUME NEW s \in DOMAIN Sections, NEW i, NEW tree, NEW g,
         g = Storage("Compressed", s, tree, <<i>>), Sections[s].hash \in Nat,
         i.type = "Indirect", IsTree(i.tree), WellFormed(tree, Packs), PointsInside(g),
         NEW offset \in Nat, NEW size \in Nat, size > 0, offset + size <= tree.end,
         \A v \in offset..(offset + size - 1) : EntryAt(tree, v).kind = "none"
  PROVE  /\ WithinPatch(g, offset, size).ok = TRUE
         /\ WithinPatch(g, offset, size).updated <=>
               \E v \in offset..(offset + size - 1) : PatchedAt(g, v)
  <1> DEFINE end == offset + size
             p == FindEntry(tree, offset)
             told == MeetsPatchedData(g, p, offset, end)
  <1>1. IsTree(tree)
    BY TablesAreTrees
  <1>2. /\ tree.end \in Nat /\ end \in Nat /\ end <= tree.end /\ offset < end
        /\ \A q \in Places(tree) : Visited(tree, q).virtual \in Nat
    BY <1>1 DEF IsTree
  <1>3. g.type = "Compressed" /\ g.section = s /\ g.tree = tree
    BY DEF Storage
  <1>4. WithinPatch(g, offset, size) = told
    BY <1>2, <1>3 DEF WithinPatch
  <1>5. Covers(tree, p, offset)
    BY <1>1, FindCovers
  <1> HIDE DEF p
  <1>6. PICK q : FirstStop(g, p, offset, end, q) /\ told = Updated(g, q, offset, end)
    <2> HIDE DEF told, end
    <2>1. p \in Places(g.tree)
      BY <1>3, <1>5 DEF Covers
    <2>2. IsTree(g.tree) /\ end \in Nat /\ end <= g.tree.end
      BY <1>1, <1>2, <1>3
    <2> QED BY <2>1, <2>2, MeetsPatchedDataIs DEF told
  <1> HIDE DEF told, end
\* The places of the block, from the first on
  <1>7. ASSUME NEW r \in Places(tree), ~ Before(r, p), Visited(tree, r).virtual < end
        PROVE  /\ Visited(tree, r).kind = "none" /\ offset < Extents(tree, r).next
               /\ Updated(g, r, offset, end).ok = TRUE
               /\ Updated(g, r, offset, end).updated <=>
                     \E v \in offset..(end - 1) : Covers(tree, r, v) /\ PatchedAt(g, v)
    <2> DEFINE x == Extents(tree, r)
    <2>1. /\ x.entry = Visited(tree, r) /\ x.next \in Nat /\ x.entry.virtual < x.next
          /\ \A v \in Nat : v < tree.end =>
                (Covers(tree, r, v) <=> x.entry.virtual <= v /\ v < x.next)
      BY <1>1, ExtentsAreCovered
    <2>2. offset < x.next
      <3>1. CASE r = p
        BY <1>2, <1>5, <2>1, <3>1
      <3>2. CASE r # p
        <4>1. Before(p, r)
          BY <1>1, <1>5, <1>7, <3>2, PlacesAreOrdered DEF Covers
        <4>2. offset < Visited(tree, r).virtual
          BY <1>2, <1>5, <4>1 DEF Covers
        <4> QED BY <1>2, <2>1, <4>2
      <3> QED BY <3>1, <3>2
    <2> DEFINE v == IF offset >= x.entry.virtual THEN offset ELSE x.entry.virtual
    <2>3. v \in Nat /\ v \in offset..(end - 1) /\ v < tree.end /\ x.entry.virtual <= v /\ v < x.next
      BY <1>2, <1>7, <2>1, <2>2
    <2> HIDE DEF v, x
    <2>4. Covers(tree, r, v)
      BY <2>1, <2>3
    <2>5. EntryAt(tree, v) = Visited(tree, r)
      BY <1>1, <2>3, <2>4, OneCovers, PlaceAtIs DEF EntryAt
    <2>6. Visited(tree, r).kind = "none"
      BY <2>3, <2>5 DEF end
    <2> QED BY <1>2, <1>7, <2>2, <2>6, UpdatedIsTold DEF x
  <1>8. /\ q \in Places(tree) /\ ~ Before(q, p) /\ Stops(g, q, offset, end)
        /\ \A r \in Places(tree) : ~ Before(r, p) /\ Before(r, q) => ~ Stops(g, r, offset, end)
    BY <1>3, <1>6 DEF FirstStop
  <1>9. Visited(tree, q).virtual < end
    <2> SUFFICES ASSUME ~ (Visited(tree, q).virtual < end) PROVE FALSE
      OBVIOUS
    <2> DEFINE r == PlaceAt(tree, end - 1)
    <2>1. end - 1 \in Nat /\ end - 1 < tree.end /\ offset <= end - 1
      BY <1>2
    <2>2. Covers(tree, r, end - 1)
      BY <1>1, <2>1, PlaceAtIs
    <2> HIDE DEF r
    <2>3. r \in Places(tree) /\ Visited(tree, r).virtual <= end - 1
      BY <2>2 DEF Covers
    <2>4. ~ Before(r, p)
      BY <1>2, <1>5, <2>1, <2>2 DEF Covers
    <2>5. Extents(tree, r).next > end - 1 /\ Extents(tree, r).next \in Nat
      BY <1>1, <2>1, <2>2, <2>3, ExtentsAreCovered
    <2>6. Stops(g, r, offset, end)
      BY <1>2, <1>3, <2>5 DEF Stops
    <2>7. ~ Before(q, r)
      BY <1>1, <1>2, <1>8, <2>3 DEF IsTree
    <2>8. q # r
      BY <1>2, <2>3
    <2> QED BY <1>1, <1>8, <2>3, <2>4, <2>6, <2>7, <2>8, PlacesAreOrdered
  <1>10. /\ told.ok = TRUE
         /\ told.updated <=> \E v \in offset..(end - 1) : Covers(tree, q, v) /\ PatchedAt(g, v)
    BY <1>6, <1>7, <1>8, <1>9
  <1>11. ASSUME ~ told.updated, NEW v \in offset..(end - 1) PROVE ~ PatchedAt(g, v)
    <2> DEFINE r == PlaceAt(tree, v)
    <2>1. v \in Nat /\ offset <= v /\ v < end /\ v < tree.end
      BY <1>2
    <2>2. Covers(tree, r, v)
      BY <1>1, <2>1, PlaceAtIs
    <2> HIDE DEF r
    <2>3. r \in Places(tree) /\ Visited(tree, r).virtual < end
      BY <1>2, <2>1, <2>2 DEF Covers
    <2>4. ~ Before(r, p)
      BY <1>2, <1>5, <2>1, <2>2 DEF Covers
    <2>5. Extents(tree, q).next >= end /\ Extents(tree, q).next \in Nat
      <3>1. Extents(tree, q).next >= end
        BY <1>3, <1>6, <1>8, <1>10, <1>11 DEF Stops
      <3> QED BY <1>1, <1>8, <3>1, ExtentsAreCovered
    <2>6. CASE r = q
      BY <1>10, <1>11, <2>2, <2>6
    <2>7. CASE Before(r, q)
      <3>1. ~ Updated(g, r, offset, end).updated
        BY <1>8, <2>3, <2>4, <2>7 DEF Stops
      <3> QED BY <1>7, <2>2, <2>3, <2>4, <3>1
    <2>8. CASE Before(q, r)
      <3>1. CanMoveNext(tree, q)
        BY <1>1, <1>8, <2>3, <2>8, MoveIsNext
      <3>2. /\ MoveNext(tree, q) \in Places(tree) /\ ~ Before(r, MoveNext(tree, q))
            /\ Extents(tree, q).next = Visited(tree, MoveNext(tree, q)).virtual
        BY <1>1, <1>8, <2>3, <2>8, <3>1, MoveIsNext, ExtentsAreCovered
      <3>3. Visited(tree, MoveNext(tree, q)).virtual <= Visited(tree, r).virtual
        <4>1. MoveNext(tree, q) = r \/ Before(MoveNext(tree, q), r)
          BY <1>1, <2>3, <3>2, PlacesAreOrdered
        <4> QED BY <1>1, <1>2, <2>3, <3>2, <4>1 DEF IsTree
      <3> QED BY <1>2, <2>3, <2>5, <3>2, <3>3
    <2> QED BY <1>1, <1>8, <2>3, <2>6, <2>7, <2>8, PlacesAreOrdered
  <1>12. told.updated <=> \E v \in offset..(end - 1) : PatchedAt(g, v)
    BY <1>10, <1>11
  <1> QED BY <1>4, <1>10, <1>12 DEF end

-----------------------------------------------------------------------------
\* What a question is answered

\* What BlockIsTold says of a block.
Patched(g, offset, size) ==
  LET block == offset..(offset + size - 1) IN
  (g.type = "Compressed" => \A v \in block : EntryAt(g.tree, v).kind = "none")
      => /\ WithinPatch(g, offset, size).ok = TRUE
         /\ WithinPatch(g, offset, size).updated <=> \E v \in block : PatchedAt(g, v)

\* Lemma: so is a block of either storage a patch has.
LEMMA BlockIsTold ==
  ASSUME NEW t \in Titles, t.base # None, t.patch # None, NEW g, g = StorageOf(t.patch, t.base),
         NEW offset \in Nat, NEW size \in Nat, size > 0, offset + size <= EndOf(g)
  PROVE  Patched(g, offset, size)
  <1> DEFINE s == t.patch
             i == IndirectOf(s, t.base)
  <1>1. /\ s \in DOMAIN Sections /\ Sections[s].hash \in Nat
        /\ i.type = "Indirect" /\ i.section = s /\ i.tree = Sections[s].indirect
        /\ IsTree(i.tree)
        /\ \/ g = i
           \/ /\ g = Storage("Compressed", s, Sections[s].compressed, <<i>>)
              /\ WellFormed(Sections[s].compressed, Packs)
              /\ PointsInside(g)
    BY PatchStorage
  <1> HIDE DEF i
  <1>2. CASE g = i
    <2>1. offset + size <= g.tree.end
      BY <1>1, <1>2 DEF EndOf
    <2>2. /\ IndirectRange(g, offset, size).ok = TRUE
          /\ IndirectRange(g, offset, size).updated <=>
                 \E v \in offset..(offset + size - 1) : EntryAt(g.tree, v).index = 1
      BY <1>1, <1>2, <2>1, RangeIsTold, ZenonT(60)
    <2>3. WithinPatch(g, offset, size) = IndirectRange(g, offset, size)
      BY <1>1, <1>2 DEF WithinPatch
    <2>4. \A v : PatchedAt(g, v) <=> EntryAt(g.tree, v).index = 1
      BY <1>1, <1>2 DEF PatchedAt
    <2> QED BY <2>2, <2>3, <2>4 DEF Patched
  <1>3. CASE g # i
    <2> DEFINE tree == Sections[s].compressed
    <2>1. /\ g = Storage("Compressed", s, tree, <<i>>) /\ WellFormed(tree, Packs)
          /\ PointsInside(g)
      BY <1>1, <1>3
    <2>2. g.type = "Compressed" /\ g.tree = tree
      BY <2>1 DEF Storage
    <2>3. offset + size <= tree.end
      BY <2>2 DEF EndOf
    <2> HIDE DEF tree, s
    <2> SUFFICES ASSUME \A v \in offset..(offset + size - 1) : EntryAt(tree, v).kind = "none"
                 PROVE  /\ WithinPatch(g, offset, size).ok = TRUE
                        /\ WithinPatch(g, offset, size).updated <=>
                              \E v \in offset..(offset + size - 1) : PatchedAt(g, v)
      BY <2>2 DEF Patched
    <2> QED BY <1>1, <2>1, <2>3, PackedBlockIsTold
  <1> QED BY <1>2, <1>3

\* The open storage belongs to the title; an answer is taken before anything else is asked.
StorageInv ==
  /\ title \in Titles
  /\ storage \in {None, Default}
  /\ tables # <<>> => answer = NoAnswer

\* Lemma: a storage that is open is the one of its title, and no answer is pending while tables are read.
LEMMA StorageInvHolds == Spec => []StorageInv
  <1>1. Init => StorageInv
    BY DEF Init, StorageInv
  <1>2. StorageInv /\ [Next]_vars => StorageInv'
    <2> SUFFICES ASSUME StorageInv, [Next]_vars PROVE StorageInv'
      OBVIOUS
    <2> USE DEF StorageInv
    <2>1. title' = title => Default' = Default
      BY DEF Default
    <2>2. ASSUME NEW bad \in Unreadable, answer = NoAnswer, Open(bad) PROVE StorageInv'
      BY <2>1, <2>2 DEF Open
    <2>3. CASE answer = NoAnswer /\ tables = <<>> /\ Use
      BY <2>1, <2>3 DEF Use, Read, Ask
    <2>4. CASE answer = NoAnswer /\ tables = <<>> /\ Close
      BY <2>1, <2>4 DEF Close
    <2>5. CASE ReadTable
      BY <2>1, <2>5 DEF ReadTable
    <2>6. CASE Take
      BY <2>1, <2>6 DEF Take
    <2>7. CASE UNCHANGED vars
      BY <2>1, <2>7 DEF vars
    <2> QED BY <2>2, <2>3, <2>4, <2>5, <2>6, <2>7 DEF Next, Call
  <1> QED BY <1>1, <1>2, PTL DEF Spec

\* Theorem: an extraction of the updated files asks of blocks whether the patch holds part of them; the
\* answer is right wherever no LZ4 or zero entry is met (ncaStorageIsBlockWithinPatchStorageRange).
THEOREM PatchIsTold == Spec => []PatchedIsTold
  <1>1. Init => PatchedIsTold
    BY DEF Init, NoAnswer, PatchedIsTold
  <1>2. StorageInv /\ PatchedIsTold /\ [Next]_vars => PatchedIsTold'
    <2> SUFFICES ASSUME StorageInv, PatchedIsTold, [Next]_vars PROVE PatchedIsTold'
      OBVIOUS
    <2>1. ASSUME answer'.call # "ask" PROVE PatchedIsTold'
      BY <2>1 DEF PatchedIsTold
    <2>2. NoAnswer.call # "ask"
      BY DEF NoAnswer
    <2>3. ASSUME NEW bad \in Unreadable, answer = NoAnswer, Open(bad) PROVE PatchedIsTold'
      BY <2>1, <2>2, <2>3 DEF Open, Answered
    <2>4. ASSUME NEW offset, NEW size, NEW bad, Read(offset, size, bad) PROVE PatchedIsTold'
      BY <2>1, <2>4 DEF Read, Answered
    <2>5. ASSUME storage # None, NEW offset \in 0..(EndOf(storage) - 1),
                 NEW size \in 1..(EndOf(storage) - offset), Ask(offset, size)
          PROVE  PatchedIsTold'
      <3>1. title.patch # None /\ title' = title /\ storage' = storage
        BY <2>5 DEF Ask
      <3>2. /\ answer'.offset = offset /\ answer'.size = size
            /\ title.base # None => /\ answer'.ok = WithinPatch(storage, offset, size).ok
                                    /\ answer'.data = WithinPatch(storage, offset, size).updated
        BY <2>5 DEF Ask, Answered
      <3>3. title.base # None => Patched(storage, offset, size)
        <4> SUFFICES ASSUME title.base # None PROVE Patched(storage, offset, size)
          OBVIOUS
        <4>1. title \in Titles /\ storage = StorageOf(title.patch, title.base)
          BY <2>5, <3>1 DEF StorageInv, Default
        <4>2. EndOf(storage) \in Nat
          <5> DEFINE i == IndirectOf(title.patch, title.base)
                     packs == Sections[title.patch].compressed
          <5>1. /\ i.type = "Indirect" /\ IsTree(i.tree)
                /\ \/ storage = i
                   \/ /\ storage = Storage("Compressed", title.patch, packs, <<i>>)
                      /\ WellFormed(packs, Packs)
            BY <3>1, <4>1, PatchStorage
          <5>2. i.tree.end \in Nat
            BY <5>1 DEF IsTree
          <5>3. WellFormed(packs, Packs) => packs.end \in Nat
            BY DEF WellFormed
          <5> HIDE DEF i, packs
          <5>4. CASE storage = i
            BY <5>1, <5>2, <5>4 DEF EndOf
          <5>5. CASE storage = Storage("Compressed", title.patch, packs, <<i>>) /\ WellFormed(packs, Packs)
            BY <5>3, <5>5 DEF EndOf, Storage
          <5> QED BY <5>1, <5>4, <5>5
        <4>3. offset \in Nat /\ size \in Nat /\ size > 0 /\ offset + size <= EndOf(storage)
          BY <4>2
        <4> QED BY <3>1, <4>1, <4>3, BlockIsTold
      <3> QED BY <3>1, <3>2, <3>3 DEF PatchedIsTold, Patched
    <2>6. CASE Close
      BY <2>1, <2>6 DEF Close, Answered
    <2>7. CASE ReadTable
      BY <2>1, <2>2, <2>7 DEF ReadTable, Answered, StorageInv
    <2>8. CASE Take
      BY <2>1, <2>2, <2>8 DEF Take
    <2>9. CASE UNCHANGED vars
      BY <2>9 DEF vars, PatchedIsTold
    <2> QED BY <2>3, <2>4, <2>5, <2>6, <2>7, <2>8, <2>9 DEF Next, Call, Use
  <1> QED BY <1>1, <1>2, StorageInvHolds, PTL DEF Spec

-----------------------------------------------------------------------------
\* Cipher blocks, and what a pass takes

\* Lemma: what is left of a number in its block.
LEMMA Alignment ==
  ASSUME NEW n \in Nat
  PROVE  /\ AlignDown(n) \in Nat /\ n = AlignDown(n) + (n % Block)
         /\ n % Block \in Nat /\ n % Block < Block
  <1>1. Block \in Nat /\ Block > 0
    BY BufferHoldsBlocks
  <1>2. n = Block * (n \div Block) + (n % Block)
    BY <1>1
  <1>3. n \div Block \in Nat /\ n % Block \in 0..(Block - 1)
    BY <1>1
  <1>4. Block * (n \div Block) \in Nat
    BY <1>1, <1>3
  <1> QED BY <1>1, <1>2, <1>3, <1>4 DEF AlignDown

\* Lemma: two multiples of a block differ by a block.
LEMMA BlocksApart ==
  ASSUME NEW m \in Int, NEW n \in Int, Block * m < Block * n
  PROVE  Block * m + Block <= Block * n
  <1>1. Block \in Nat /\ Block > 0
    BY BufferHoldsBlocks
  <1>2. m < n
    <2> SUFFICES ASSUME n <= m PROVE FALSE
      OBVIOUS
    <2>1. PICK k \in Nat : m = n + k
      <3>1. m - n \in Nat
        OBVIOUS
      <3> QED BY <3>1
    <2>2. Block * m = Block * n + Block * k /\ Block * k >= 0
      BY <1>1, <2>1
    <2> QED BY <1>1, <2>2
  <1>3. PICK k \in Nat : n = m + 1 + k
    <2>1. n - m - 1 \in Nat
      BY <1>2
    <2> QED BY <2>1
  <1>4. Block * n = Block * m + Block + Block * k /\ Block * k >= 0
    BY <1>1, <1>3
  <1> QED BY <1>1, <1>4

\* Lemma: a pass through the buffer gives at least one cell and no more than are left, and reads all
\* that it gives.
LEMMA ThroughBufferIs ==
  ASSUME NEW size \in Nat \ {0}, NEW content \in Nat
  PROVE  LET pass == ThroughBuffer(size, content)
         IN /\ pass.skip = content % Block /\ pass.out \in 1..size /\ pass.size \in Nat
            /\ pass.skip + pass.out <= pass.size
  <1> DEFINE skip == content - AlignDown(content)
             up == AlignUp(content + size)
             block == up - AlignDown(content)
  <1>1. /\ AlignDown(content) \in Nat /\ skip = content % Block /\ skip \in Nat /\ skip < Block
        /\ Block \in Nat /\ Buffer \in Nat /\ Block > 0
    BY Alignment, BufferHoldsBlocks
  <1>2. up \in Nat /\ content + size <= up /\ up < content + size + Block
    <2> DEFINE n == content + size + Block - 1
    <2>1. n \in Nat
      BY <1>1
    <2>2. up = AlignDown(n)
      BY DEF AlignUp
    <2> HIDE DEF n
    <2>3. /\ AlignDown(n) \in Nat /\ n = AlignDown(n) + (n % Block)
          /\ n % Block \in Nat /\ n % Block < Block
      BY <2>1, Alignment
    <2>4. up \in Nat /\ up <= n /\ n < up + Block
      BY <1>1, <2>1, <2>2, <2>3
    <2> QED BY <1>1, <2>4 DEF n
  <1>3. PICK b \in Nat : Buffer = Block * b
    <2>1. Buffer = Block * (Buffer \div Block) + (Buffer % Block) /\ Buffer \div Block \in Nat
      BY <1>1
    <2> QED BY <2>1, BufferHoldsBlocks
  <1>4. PICK m \in Int : block = Block * m
    <2>1. PICK k \in Int : up = Block * k
      <3>1. content + size + Block - 1 \in Nat
        BY <1>1
      <3>2. (content + size + Block - 1) \div Block \in Int
        BY <1>1, <3>1
      <3> QED BY <3>2 DEF AlignUp, AlignDown
    <2>2. PICK l \in Int : AlignDown(content) = Block * l
      BY <1>1 DEF AlignDown
    <2>3. Block * k - Block * l = Block * (k - l) /\ k - l \in Int
      BY <1>1
    <2> QED BY <2>1, <2>2, <2>3
  <1>5. Buffer >= Block
    <2>1. Block * 0 < Block * b
      BY <1>1, <1>3, BufferHoldsBlocks
    <2> QED BY <1>1, <1>3, <2>1, BlocksApart
  <1>6. block \in Nat /\ skip + size <= block
    BY <1>1, <1>2
  <1> HIDE DEF block
  <1>7. Min({block, Buffer}) = IF block <= Buffer THEN block ELSE Buffer
    <2>1. block \in Int /\ Buffer \in Int
      BY <1>1, <1>6
    <2> QED BY <2>1, TwoExtremes, Zenon
  <1> HIDE DEF up, skip
  <1>8. /\ ThroughBuffer(size, content).skip = skip
        /\ ThroughBuffer(size, content).size = IF block <= Buffer THEN block ELSE Buffer
        /\ ThroughBuffer(size, content).out = IF block > Buffer THEN Buffer - skip ELSE size
    BY <1>7 DEF ThroughBuffer, block, skip, up
  <1>9. CASE block <= Buffer
    BY <1>1, <1>6, <1>8, <1>9
  <1>10. CASE block > Buffer
    <2>1. Buffer + Block <= block
      BY <1>3, <1>4, <1>10, BlocksApart
    <2>2. block < skip + size + Block
      BY <1>1, <1>2 DEF block, skip
    <2>3. Buffer - skip \in 1..size
      BY <1>1, <1>5, <1>6, <2>1, <2>2
    <2> QED BY <1>1, <1>6, <1>8, <1>10, <2>3
  <1> QED BY <1>1, <1>6, <1>9, <1>10

\* Lemma: the block a number lies in, and its place there, from any way to write it.
LEMMA AlignedIs ==
  ASSUME NEW n \in Nat, NEW q \in Int, NEW r \in Nat, r < Block, n = Block * q + r
  PROVE  AlignDown(n) = Block * q /\ n % Block = r
  <1>1. Block \in Nat /\ Block > 0
    BY BufferHoldsBlocks
  <1>2. PICK d \in Int : AlignDown(n) = Block * d
    BY <1>1 DEF AlignDown
  <1>3. /\ Block * d \in Nat /\ n = Block * d + (n % Block)
        /\ n % Block \in Nat /\ n % Block < Block
    BY <1>2, Alignment
  <1>4. Block * q \in Int
    BY <1>1
  <1>5. ~ (Block * q < Block * d) /\ ~ (Block * d < Block * q)
    <2>1. Block * q < Block * d => Block * q + Block <= Block * d
      BY BlocksApart
    <2>2. Block * d < Block * q => Block * d + Block <= Block * q
      BY BlocksApart
    <2> DEFINE x == Block * q
               y == Block * d
               m == n % Block
    <2>3. x \in Int /\ y \in Int /\ m \in Nat /\ m < Block /\ n = y + m /\ n = x + r
      BY <1>3, <1>4
    <2>4. (x < y => x + Block <= y) /\ (y < x => y + Block <= x)
      BY <2>1, <2>2
    <2> HIDE DEF x, y, m
    <2>5. ~ (x < y) /\ ~ (y < x)
      BY <1>1, <2>3, <2>4
    <2> QED BY <2>5 DEF x, y
  <1>6. Block * q = Block * d
    BY <1>3, <1>4, <1>5
  <1> QED BY <1>2, <1>3, <1>4, <1>6

\* Lemma: a whole number of blocks leaves the place in a block as it is.
LEMMA Shifted ==
  ASSUME NEW a \in Nat, NEW x \in Nat, a % Block = 0
  PROVE  (a + x) % Block = x % Block /\ AlignDown(a + x) = a + AlignDown(x)
  <1>1. Block \in Nat /\ Block > 0
    BY BufferHoldsBlocks
  <1>2. PICK p \in Int : a = Block * p
    <2>1. a \div Block \in Int /\ a = AlignDown(a)
      BY <1>1, Alignment
    <2> QED BY <2>1 DEF AlignDown
  <1>3. PICK q \in Int : AlignDown(x) = Block * q
    BY <1>1 DEF AlignDown
  <1>4. /\ Block * q \in Nat /\ x = Block * q + (x % Block)
        /\ x % Block \in Nat /\ x % Block < Block
    BY <1>3, Alignment
  <1>5. Block * (p + q) = Block * p + Block * q /\ p + q \in Int
    BY <1>1
  <1>6. a + x \in Nat /\ a + x = Block * (p + q) + (x % Block)
    BY <1>2, <1>4, <1>5
  <1>7. AlignDown(a + x) = Block * (p + q) /\ (a + x) % Block = x % Block
    BY <1>4, <1>5, <1>6, AlignedIs
  <1> QED BY <1>2, <1>3, <1>5, <1>7

-----------------------------------------------------------------------------
\* Rows of cells

\* The values of a function from a number on, up to another one.
Row(F, from, to) == [j \in 1..(to - from) |-> F[from + j - 1]]

\* The values that F has
Values(F) == {F[p] : p \in Nat}

\* One sequence after another
Join(s, t) == s \o t

\* The plaintext of a section, as a read returns it.
PlainOf(s) == [p \in Nat |-> <<s, p>>]

\* Lemma: a row is a sequence.
LEMMA RowIsSeq ==
  ASSUME NEW F, NEW a \in Nat, NEW b \in Nat, a <= b
  PROVE  /\ Row(F, a, b) \in Seq(Values(F)) /\ Len(Row(F, a, b)) = b - a
         /\ DOMAIN Row(F, a, b) = 1..(b - a)
         /\ \A j \in 1..(b - a) : Row(F, a, b)[j] = F[a + j - 1]
  <1>1. \A j \in 1..(b - a) : F[a + j - 1] \in Values(F)
    <2> TAKE j \in 1..(b - a)
    <2>1. a + j - 1 \in Nat
      OBVIOUS
    <2> QED BY <2>1 DEF Values
  <1>2. Row(F, a, b) \in [1..(b - a) -> Values(F)]
    BY <1>1 DEF Row
  <1>3. Row(F, a, b) \in Seq(Values(F)) /\ Len(Row(F, a, b)) = b - a
    <2>1. b - a \in Nat
      OBVIOUS
    <2> QED BY <1>2, <2>1
  <1> QED BY <1>3 DEF Row

\* Lemma: a row and the one that follows it are one row.
LEMMA RowJoins ==
  ASSUME NEW F, NEW a \in Nat, NEW b \in Nat, NEW c \in Nat, a <= b, b <= c
  PROVE  Join(Row(F, a, b), Row(F, b, c)) = Row(F, a, c)
  <1> DEFINE s == Row(F, a, b)
             t == Row(F, b, c)
             r == Row(F, a, c)
  <1>1. /\ s \in Seq(Values(F)) /\ Len(s) = b - a /\ \A j \in 1..(b - a) : s[j] = F[a + j - 1]
    BY RowIsSeq
  <1>2. /\ t \in Seq(Values(F)) /\ Len(t) = c - b /\ \A j \in 1..(c - b) : t[j] = F[b + j - 1]
    BY RowIsSeq
  <1>3. /\ r \in Seq(Values(F)) /\ Len(r) = c - a /\ \A j \in 1..(c - a) : r[j] = F[a + j - 1]
    <2>1. a <= c
      OBVIOUS
    <2> QED BY <2>1, RowIsSeq
  <1> HIDE DEF s, t, r
  <1>4. s \o t \in Seq(Values(F)) /\ Len(s \o t) = c - a
    <2>1. s \o t \in Seq(Values(F)) /\ Len(s \o t) = Len(s) + Len(t)
      BY <1>1, <1>2, ConcatProperties
    <2>2. (b - a) + (c - b) = c - a
      OBVIOUS
    <2> QED BY <1>1, <1>2, <2>1, <2>2, Zenon
  <1>5. ASSUME NEW i \in 1..(c - a) PROVE (s \o t)[i] = r[i]
    <2>1. CASE i <= b - a
      <3>1. (s \o t)[i] = s[i]
        BY <1>1, <1>2, <2>1, ConcatProperties
      <3> QED BY <1>1, <1>3, <2>1, <3>1
    <2>2. CASE i > b - a
      <3>1. (s \o t)[i] = t[i - (b - a)]
        <4>1. i \in 1..(Len(s) + Len(t)) /\ ~ (i <= Len(s))
          BY <1>1, <1>2, <2>2
        <4>2. (s \o t)[i] = IF i <= Len(s) THEN s[i] ELSE t[i - Len(s)]
          BY <1>1, <1>2, <4>1, ConcatProperties
        <4> QED BY <1>1, <4>1, <4>2
      <3>2. i - (b - a) \in 1..(c - b) /\ b + (i - (b - a)) - 1 = a + i - 1
        BY <2>2
      <3> QED BY <1>2, <1>3, <3>1, <3>2
    <2>3. i <= b - a \/ i > b - a
      OBVIOUS
    <2> QED BY <2>1, <2>2, <2>3
  <1>6. s \o t = r
    BY <1>3, <1>4, <1>5, SeqEqual
  <1> QED BY <1>6, Zenon DEF s, t, r, Join

\* A part of a sequence, by its offsets.
Part(s, from, to) == SubSeq(s, from + 1, to)

\* Lemma: a part of a row.
LEMMA RowPart ==
  ASSUME NEW F, NEW b \in Nat, NEW c \in Nat, NEW d \in Nat, b <= c, c <= d
  PROVE  Part(Row(F, 0, d), b, c) = Row(F, b, c)
  <1> DEFINE first == b + 1
             s == Row(F, 0, d)
             t == Row(F, b, c)
             u == SubSeq(s, first, c)
  <1>1. /\ s \in Seq(Values(F)) /\ Len(s) = d /\ \A j \in 1..d : s[j] = F[j - 1]
    <2> DEFINE zero == 0
    <2>1. zero \in Nat /\ d - zero = d /\ zero <= d
      OBVIOUS
    <2>4. \A j \in 1..d : zero + j - 1 = j - 1
      OBVIOUS
    <2> HIDE DEF zero
    <2>2. /\ Row(F, zero, d) \in Seq(Values(F)) /\ Len(Row(F, zero, d)) = d - zero
          /\ \A j \in 1..(d - zero) : Row(F, zero, d)[j] = F[zero + j - 1]
      BY <2>1, RowIsSeq, ZenonT(60)
    <2>3. s = Row(F, zero, d)
      BY DEF zero
    <2> HIDE DEF s
    <2> QED BY <2>1, <2>2, <2>3, <2>4
  <1>2. /\ t \in Seq(Values(F)) /\ Len(t) = c - b /\ \A j \in 1..(c - b) : t[j] = F[b + j - 1]
    BY RowIsSeq
  <1> HIDE DEF s, t
  <1>3. /\ u \in Seq(Values(F)) /\ Len(u) = c - b /\ \A i \in 1..(c - b) : u[i] = s[b + i]
    <2>1. first \in Int /\ c \in Int /\ first \in 1..(c + 1) /\ c \in 0..Len(s)
      BY <1>1
    <2>2. \A j \in first..c : s[j] \in Values(F)
      BY <1>1, <2>1, ElementOfSeq
    <2> HIDE DEF first, u
    <2>3. u = SubSeq(s, first, c)
      BY Zenon DEF u
    <2>4. /\ u \in Seq(Values(F)) /\ Len(u) = IF first <= c THEN c - first + 1 ELSE 0
          /\ \A i \in 1..(c - first + 1) : u[i] = s[first + i - 1]
      BY <2>1, <2>2, <2>3, SubSeqProperties
    <2>5. Len(u) = c - b
      BY <2>4 DEF first
    <2>6. ASSUME NEW i \in 1..(c - b) PROVE u[i] = s[b + i]
      <3>1. i \in 1..(c - first + 1) /\ first + i - 1 = b + i
        BY DEF first
      <3> QED BY <2>4, <3>1
    <2> QED BY <2>4, <2>5, <2>6
  <1> HIDE DEF u
  <1>4. ASSUME NEW i \in 1..(c - b) PROVE u[i] = t[i]
    <2>1. b + i \in 1..d /\ (b + i) - 1 = b + i - 1
      OBVIOUS
    <2> QED BY <1>1, <1>2, <1>3, <2>1
  <1>5. u = t
    BY <1>2, <1>3, <1>4, SeqEqual
  <1> QED BY <1>5, Zenon DEF u, s, t, first, Part

-----------------------------------------------------------------------------
\* The passes of a read through the cipher

\* What a loop over passes makes of its results: what each pass gives, and what the loop gives for
\* what is then left.
Summed(G, O, f, left) == G[left] \o (IF O[left] = left THEN <<>> ELSE f[left - O[left]])

\* The loop of both readers, from what a pass gives and how many cells that is
Looped(size, G, O, f) == [left \in 1..size |-> Summed(G, O, f, left)]

\* Every pass gives some of the cells that are left, in their order.
PassesGive(size, end, F, G, O) ==
  \A left \in 1..size : O[left] \in 1..left
                        /\ G[left] = Row(F, end - left, end - left + O[left])

\* Lemma: a loop whose every pass returns some of the cells that are left, in their order, returns
\* them all.
LEMMA PassesAddUp ==
  ASSUME NEW size \in Nat \ {0}, NEW end \in Nat, size <= end, NEW F, NEW G, NEW O,
         PassesGive(size, end, F, G, O)
  PROVE  /\ \E f : f = Looped(size, G, O, f)
         /\ \A f : f = Looped(size, G, O, f) => f[size] = Row(F, end - size, end)
  <1> USE DEF PassesGive
  <1> DEFINE Body(f, left) == Summed(G, O, f, left)
             Right(left) == Row(F, end - left, end)
             known == [left \in 1..size |-> Right(left)]
  <1>1. ASSUME NEW left \in 1..size, NEW f, O[left] # left => f[left - O[left]] = Right(left - O[left])
        PROVE  Body(f, left) = Right(left)
    <2> DEFINE from == end - left
               next == end - (left - O[left])
    <2>1. /\ O[left] \in 1..left /\ G[left] = Row(F, from, from + O[left])
          /\ from \in Nat /\ next \in Nat /\ from <= next /\ next <= end /\ next = from + O[left]
          /\ O[left] = left => next = end
      OBVIOUS
    <2>2. G[left] = Row(F, from, next)
      BY <2>1
    <2>3. CASE O[left] = left
      <3>1. Body(f, left) = Row(F, from, end) \o <<>>
        BY <2>1, <2>2, <2>3 DEF Summed
      <3>2. Row(F, from, end) \in Seq(Values(F))
        BY <2>1, RowIsSeq
      <3> QED BY <3>1, <3>2, ConcatEmptySeq
    <2>4. CASE O[left] # left
      <3>1. Body(f, left) = Join(Row(F, from, next), Row(F, next, end))
        BY <1>1, <2>2, <2>4, Zenon DEF Join, Summed
      <3> HIDE DEF from, next, Body
      <3>2. Join(Row(F, from, next), Row(F, next, end)) = Row(F, from, end)
        BY <2>1, RowJoins
      <3> QED BY <3>1, <3>2 DEF from
    <2> QED BY <2>3, <2>4
  <1>2. \A left \in 1..size : O[left] # left => left - O[left] \in 1..size /\ left - O[left] < left
    <2> TAKE left \in 1..size
    <2>1. O[left] \in 1..left
      OBVIOUS
    <2> QED BY <2>1
  <1> HIDE DEF Body, Right
  <1>3. \A left \in 1..size : Body(known, left) = Right(left)
    BY <1>1, <1>2
  <1>4. known = [left \in 1..size |-> Body(known, left)]
    BY <1>3
  <1>5. ASSUME NEW f, f = [left \in 1..size |-> Body(f, left)] PROVE f[size] = Right(size)
    <2> DEFINE Bad == {left \in 1..size : f[left] # Right(left)}
    <2>1. Bad = {}
      <3> SUFFICES ASSUME Bad # {} PROVE FALSE
        OBVIOUS
      <3>1. Bad \subseteq Nat
        OBVIOUS
      <3>2. PICK left \in Bad : \A k \in Bad : left <= k
        <4> HIDE DEF Bad
        <4> QED BY <3>1, LeastElement
      <3>3. left \in 1..size /\ f[left] = Body(f, left)
        BY <1>5
      <3>4. O[left] # left => f[left - O[left]] = Right(left - O[left])
        BY <1>2, <3>2, <3>3
      <3>5. f[left] = Right(left)
        BY <1>1, <3>3, <3>4
      <3> QED BY <3>5
    <2> QED BY <2>1
  <1> HIDE DEF known
  <1>6. \E f : f = [left \in 1..size |-> Body(f, left)]
    BY <1>4
  <1> QED BY <1>5, <1>6 DEF Body, Right, Looped

\* A pass, from its parts
PassOf(skip, size, out) == [skip |-> skip, size |-> size, out |-> out]

\* The counters of a pass are those the cells it gives were encrypted with.
GivenPass(s, at, skip, size, out, iv) ==
  /\ at \in Nat /\ skip \in Nat /\ size \in Nat /\ out \in Nat
  /\ skip + out <= size /\ skip <= at /\ DOMAIN iv = 1..size
  /\ \A k \in Nat : k < out => StoredWith(s, at + k) = iv[skip + k + 1]

\* Lemma: a pass gives the plaintext of the cells that were encrypted with the counters it uses.
LEMMA GivenIs ==
 ASSUME NEW s, NEW at, NEW skip, NEW size, NEW out, NEW iv, GivenPass(s, at, skip, size, out, iv)
  PROVE  Given(s, at, PassOf(skip, size, out), iv) = Row(PlainOf(s), at, at + out)
  <1> USE DEF GivenPass
  <1> DEFINE from == at - skip
             to == at + out
             pass == PassOf(skip, size, out)
             cells == Decipher(s, from, iv)
             row == Row(PlainOf(s), at, to)
             part == SubSeq(cells, skip + 1, skip + out)
  <1>0. Given(s, at, pass, iv) = part
    BY DEF Given, PassOf
  <1> HIDE DEF pass
  <1>1. from \in Nat /\ to \in Nat /\ at <= to
    OBVIOUS
  <1>2. \A j \in 1..size :
           cells[j] = IF StoredWith(s, from + j - 1) = iv[j] THEN <<s, from + j - 1>> ELSE Noise
    BY DEF Decipher
  <1>3. \A i \in 1..out : cells[skip + i] = PlainOf(s)[at + i - 1]
    <2> TAKE i \in 1..out
    <2> DEFINE k == i - 1
    <2>1. k \in Nat /\ k < out /\ skip + i \in 1..size /\ from + (skip + i) - 1 = at + k
          /\ skip + i = skip + k + 1 /\ at + i - 1 = at + k /\ at + k \in Nat
      OBVIOUS
    <2>2. StoredWith(s, at + k) = iv[skip + k + 1]
      BY <2>1
    <2> HIDE DEF cells, k, from
    <2>3. cells[skip + i] = <<s, at + k>>
      BY <1>2, <2>1, <2>2
    <2> QED BY <2>1, <2>3 DEF PlainOf
  <1>4. /\ row \in Seq(Values(PlainOf(s))) /\ Len(row) = out
        /\ \A i \in 1..out : row[i] = PlainOf(s)[at + i - 1]
    <2>1. to - at = out
      OBVIOUS
    <2> HIDE DEF to
    <2>2. /\ row \in Seq(Values(PlainOf(s))) /\ Len(row) = to - at
          /\ \A i \in 1..(to - at) : row[i] = PlainOf(s)[at + i - 1]
      BY <1>1, RowIsSeq
    <2> HIDE DEF row
    <2> QED BY <2>1, <2>2
  <1> HIDE DEF from, to, cells, row
  <1>5. /\ part \in Seq(Values(PlainOf(s))) /\ Len(part) = out
        /\ \A i \in 1..out : part[i] = cells[skip + i]
    <2>1. \A j \in (skip + 1)..(skip + out) : cells[j] \in Values(PlainOf(s))
      <3> TAKE j \in (skip + 1)..(skip + out)
      <3> DEFINE i == j - skip
      <3>1. i \in 1..out /\ skip + i = j /\ at + i - 1 \in Nat
        BY <1>1
      <3> HIDE DEF i
      <3> QED BY <1>3, <3>1 DEF Values
    <2>2. /\ part \in Seq(Values(PlainOf(s))) /\ Len(part) = out
          /\ \A i \in 1..out : part[i] = cells[skip + i]
      <3> DEFINE a == skip + 1
                 b == skip + out
      <3>1. a \in Int /\ b \in Int
        BY <1>1
      <3>2. \A j \in a..b : cells[j] \in Values(PlainOf(s))
        BY <2>1
      <3>3. part = SubSeq(cells, a, b)
        OBVIOUS
      <3> HIDE DEF a, b, part
      <3>4. /\ part \in Seq(Values(PlainOf(s)))
            /\ Len(part) = IF a <= b THEN b - a + 1 ELSE 0
            /\ \A i \in 1..(b - a + 1) : part[i] = cells[a + i - 1]
        BY <3>1, <3>2, <3>3, SubSeqProperties
      <3>5. Len(part) = out
        BY <1>1, <3>4 DEF a, b
      <3>6. \A i \in 1..out : part[i] = cells[skip + i]
        <4> TAKE i \in 1..out
        <4>1. i \in 1..(b - a + 1) /\ a + i - 1 = skip + i
          BY <1>1 DEF a, b
        <4> QED BY <3>4, <4>1
      <3> QED BY <3>4, <3>5, <3>6
    <2> QED BY <2>2
  <1> HIDE DEF part
  <1>6. part = row
    BY <1>3, <1>4, <1>5, SeqEqual
  <1> QED BY <1>0, <1>6 DEF row, to, pass

\* Lemma: what is known of every section.
LEMMA SectionFacts ==
  ASSUME NEW s \in DOMAIN Sections
  PROVE  /\ Sections[s].start \in Nat /\ Sections[s].size \in Nat /\ Sections[s].hash \in Nat
         /\ Sections[s].start % Block = 0
         /\ Sections[s].crypto \in {"none", "xts", "ctr", "skip"}
  BY SectionsAssumption

\* A pass over whole blocks of which the caller gets some cells.
BlocksPass(pass, skip, size) ==
  \E n, out \in Nat : pass = PassOf(skip, n, out) /\ out \in 1..size /\ skip + out <= n

\* Lemma: a pass that deciphers reads whole blocks.
LEMMA CipherPass ==
  ASSUME NEW start \in Nat, start % Block = 0, NEW size \in Nat \ {0}, NEW at \in Nat, NEW pass,
         \/ Aligned(size, start + at) /\ pass = Whole(size)
         \/ pass = ThroughBuffer(size, start + at)
  PROVE  BlocksPass(pass, at % Block, size)
  <1>1. start + at \in Nat /\ (start + at) % Block = at % Block /\ at % Block \in Nat
    <2>1. (start + at) % Block = at % Block
      BY Shifted
    <2>2. at % Block \in Nat
      BY Alignment
    <2> QED BY <2>1, <2>2
  <1>2. CASE Aligned(size, start + at) /\ pass = Whole(size)
    BY <1>1, <1>2 DEF Aligned, Whole, PassOf, BlocksPass
  <1>3. CASE pass = ThroughBuffer(size, start + at)
    <2>1. /\ pass.skip = at % Block /\ pass.out \in 1..size /\ pass.size \in Nat
          /\ pass.skip + pass.out <= pass.size
      BY <1>1, <1>3, ThroughBufferIs
    <2>2. pass = PassOf(pass.skip, pass.size, pass.out)
      BY <1>3 DEF ThroughBuffer, PassOf
    <2>3. pass.out \in Nat
      BY <2>1
    <2> QED BY <2>1, <2>2, <2>3 DEF BlocksPass
  <1> QED BY <1>2, <1>3

\* The cells of a section from an offset on were encrypted with the counters from another one on.
EncryptedFrom(s, at, size, key) ==
  /\ key \in Nat /\ key % Block = at % Block
  /\ \A k \in Nat : k < size => EncryptedAt(s, at + k) = key + k

\* What a pass at an offset takes from the section is the plaintext there.
PassGives(s, size, at, ivAt, c) ==
  /\ Pass(s, size, at).out \in 1..size
  /\ Given(s, at, Pass(s, size, at), PassIv(s, size, at, ivAt, c))
        = Row(PlainOf(s), at, at + Pass(s, size, at).out)

\* Lemma: a pass of _ncaReadFsSection gives the plaintext of the cells it is for.
LEMMA SectionPass ==
  ASSUME NEW s \in DOMAIN Sections, Sections[s].ctrEx = None,
         NEW size \in Nat \ {0}, NEW at \in Nat, NEW key, EncryptedFrom(s, at, size, key),
         NEW c, c.generation = HeaderGeneration
  PROVE  PassGives(s, size, at, Sections[s].start + key, c)
  <1> DEFINE pass == Pass(s, size, at)
             start == Sections[s].start
             hash == Sections[s].hash
             crypto == Sections[s].crypto
             plain == PlaintextSize(s, size, at)
             iv == PassIv(s, size, at, start + key, c)
             Goal == /\ pass.out \in 1..size
                     /\ Given(s, at, pass, iv) = Row(PlainOf(s), at, at + pass.out)
  <1>1. /\ start \in Nat /\ hash \in Nat /\ start % Block = 0
        /\ crypto \in {"none", "xts", "ctr", "skip"}
    BY SectionFacts
  <1>0. /\ key \in Nat /\ key % Block = at % Block
        /\ \A k \in Nat : k < size => EncryptedAt(s, at + k) = key + k
    BY DEF EncryptedFrom
  <1>2. pass = IF plain > 0 THEN Whole(plain)
               ELSE IF crypto = "none" \/ Aligned(size, start + at) THEN Whole(size)
               ELSE ThroughBuffer(size, start + at)
    BY DEF Pass
  <1>3. iv = [j \in 1..pass.size |->
                CASE crypto = "none" \/ plain > 0 -> Plain
                  [] crypto = "xts" /\ plain = 0 -> Sector(AlignDown(at) + j - 1)
                  [] OTHER -> Ctr(HeaderGeneration, AlignDown(start + key) + j - 1)]
    BY DEF PassIv
  <1>4. \A p : StoredWith(s, p) = IF crypto = "none" \/ (crypto = "skip" /\ p < hash) THEN Plain
                                  ELSE IF crypto = "xts" THEN Sector(p)
                                  ELSE Ctr(HeaderGeneration, start + EncryptedAt(s, p))
    BY DEF StoredWith
  <1>5. plain = IF crypto = "skip" /\ at < hash THEN Min({hash - at, size}) ELSE 0
    BY DEF PlaintextSize
  <1> HIDE DEF pass, iv, plain, start, hash, crypto
  <1>6. \/ plain \in 1..size /\ crypto = "skip" /\ at + plain <= hash
        \/ plain = 0 /\ ~ (crypto = "skip" /\ at < hash)
    <2>1. CASE crypto = "skip" /\ at < hash
      <3> DEFINE a == hash - at
      <3>1. a \in Int /\ size \in Int /\ a > 0
        BY <1>1, <2>1
      <3> HIDE DEF a
      <3>2. Min({a, size}) = IF a <= size THEN a ELSE size
        BY <3>1, TwoExtremes
      <3>3. plain = IF a <= size THEN a ELSE size
        BY <1>5, <2>1, <3>2 DEF a
      <3> QED BY <1>1, <2>1, <3>1, <3>3 DEF a
    <2> QED BY <1>5, <2>1
  <1>7. ASSUME NEW skip \in Nat, NEW n \in Nat, NEW out \in Nat, skip <= at,
               pass = PassOf(skip, n, out), out \in 1..size, skip + out <= n,
               \A k \in Nat : k < out => StoredWith(s, at + k) = iv[skip + k + 1]
        PROVE  Goal
    <2>1. DOMAIN iv = 1..n
      BY <1>3, <1>7 DEF PassOf
    <2>2. Given(s, at, pass, iv) = Row(PlainOf(s), at, at + out)
      <3>1. GivenPass(s, at, skip, n, out, iv)
        BY <1>7, <2>1 DEF GivenPass
      <3> QED BY <1>7, <3>1, GivenIs
    <2>3. pass.out = out
      BY <1>7 DEF PassOf
    <2> QED BY <1>7, <2>2, <2>3
  <1> HIDE DEF Goal
  <1>8. ASSUME plain \in 1..size /\ crypto = "skip" /\ at + plain <= hash PROVE Goal
    <2>1. plain \in Nat /\ plain > 0 /\ pass = PassOf(0, plain, plain)
      BY <1>2, <1>8 DEF Whole, PassOf
    <2>2. ASSUME NEW k \in Nat, k < plain PROVE StoredWith(s, at + k) = iv[0 + k + 1]
      <3>1. at + k < hash /\ k + 1 \in 1..pass.size
        BY <1>1, <1>8, <2>1, <2>2 DEF PassOf
      <3>2. StoredWith(s, at + k) = Plain
        BY <1>4, <1>8, <3>1
      <3>3. iv[k + 1] = Plain
        BY <1>3, <2>1, <3>1
      <3> QED BY <3>2, <3>3
    <2> QED BY <1>7, <1>8, <2>1, <2>2
  <1>9. ASSUME plain = 0 /\ crypto = "none" PROVE Goal
    <2>1. pass = PassOf(0, size, size)
      BY <1>2, <1>9 DEF Whole, PassOf
    <2>2. ASSUME NEW k \in Nat, k < size PROVE StoredWith(s, at + k) = iv[0 + k + 1]
      <3>1. k + 1 \in 1..pass.size
        BY <2>1, <2>2 DEF PassOf
      <3>2. StoredWith(s, at + k) = Plain
        BY <1>4, <1>9
      <3>3. iv[k + 1] = Plain
        BY <1>3, <1>9, <3>1
      <3> QED BY <3>2, <3>3
    <2> QED BY <1>7, <2>1, <2>2
  <1>10. ASSUME plain = 0 /\ crypto # "none" /\ ~ (crypto = "skip" /\ at < hash) PROVE Goal
    <2> DEFINE skip == at % Block
    <2>1. /\ skip \in Nat /\ skip <= at /\ AlignDown(at) + skip = at /\ AlignDown(at) \in Nat
      BY Alignment
    <2>2. /\ AlignDown(start + key) \in Nat /\ AlignDown(start + key) + skip = start + key
      <3>1. start + key \in Nat /\ (start + key) % Block = skip
        BY <1>0, <1>1, Shifted
      <3> HIDE DEF skip
      <3> DEFINE x == start + key
      <3>2. x \in Nat /\ x % Block = skip
        BY <3>1
      <3> HIDE DEF x
      <3>3. AlignDown(x) \in Nat /\ AlignDown(x) + skip = x
        <4>1. AlignDown(x) \in Nat /\ x = AlignDown(x) + (x % Block)
          BY <3>2, Alignment
        <4> QED BY <2>1, <3>2, <4>1
      <3> QED BY <3>3 DEF x
    <2>3. PICK n, out \in Nat : /\ pass = PassOf(skip, n, out)
                                /\ out \in 1..size /\ skip + out <= n
      <3>1. \/ Aligned(size, start + at) /\ pass = Whole(size)
            \/ pass = ThroughBuffer(size, start + at)
        BY <1>2, <1>10
      <3>2. start \in Nat /\ start % Block = 0
        BY <1>1
      <3>3. BlocksPass(pass, skip, size)
        BY <3>1, <3>2, CipherPass
      <3> QED BY <3>3 DEF BlocksPass
    <2> HIDE DEF skip
    <2>4. ASSUME NEW k \in Nat, k < out PROVE StoredWith(s, at + k) = iv[skip + k + 1]
      <3> DEFINE j == skip + k + 1
      <3>1. /\ j \in 1..pass.size /\ k < size /\ AlignDown(at) + j - 1 = at + k
            /\ AlignDown(start + key) + j - 1 = start + (key + k)
        BY <1>0, <1>1, <2>1, <2>2, <2>3, <2>4 DEF PassOf
      <3>2. EncryptedAt(s, at + k) = key + k
        BY <1>0, <3>1
      <3>3. StoredWith(s, at + k) = IF crypto = "xts" THEN Sector(at + k)
                                    ELSE Ctr(HeaderGeneration, start + (key + k))
        BY <1>1, <1>4, <1>10, <3>2
      <3> HIDE DEF j
      <3>4. iv[j] = IF crypto = "xts" THEN Sector(at + k)
                    ELSE Ctr(HeaderGeneration, start + (key + k))
        BY <1>3, <1>10, <3>1
      <3> QED BY <3>3, <3>4 DEF j
    <2> QED BY <1>7, <2>1, <2>3, <2>4
  <1> QED BY <1>6, <1>8, <1>9, <1>10 DEF Goal, pass, iv, start, PassGives

\* Lemma: two numbers at the same place of their blocks stay so when the same is added to them.
LEMMA SamePlace ==
  ASSUME NEW a \in Nat, NEW b \in Nat, NEW d \in Nat, a % Block = b % Block
  PROVE  (a + d) % Block = (b + d) % Block
  <1>1. ASSUME NEW x \in Nat
        PROVE  \E q \in Nat : q % Block = 0 /\ x = q + (x % Block) /\ x % Block \in Nat
    <2>1. Block \in Nat /\ Block > 0
      BY BufferHoldsBlocks
    <2>2. /\ AlignDown(x) \in Nat /\ x = AlignDown(x) + (x % Block)
          /\ x % Block \in Nat /\ x % Block < Block
      BY Alignment
    <2>3. AlignDown(x) % Block = 0
      <3>1. AlignDown(x) = Block * (x \div Block) + 0 /\ x \div Block \in Int
        BY <2>1, <2>2 DEF AlignDown
      <3> QED BY <2>1, <2>2, <3>1, AlignedIs
    <2> QED BY <2>2, <2>3
  <1> DEFINE r == a % Block
  <1>2. PICK p \in Nat : p % Block = 0 /\ a = p + r /\ r \in Nat
    BY <1>1
  <1>3. PICK q \in Nat : q % Block = 0 /\ b = q + r
    BY <1>1
  <1> HIDE DEF r
  <1>4. r + d \in Nat /\ a + d = p + (r + d) /\ b + d = q + (r + d)
    BY <1>2, <1>3
  <1>5. (p + (r + d)) % Block = (r + d) % Block /\ (q + (r + d)) % Block = (r + d) % Block
    BY <1>2, <1>3, <1>4, Shifted
  <1> QED BY <1>4, <1>5

\* The offset a read of a section derives its counters from.
CounterFrom(s, offset, c) ==
  IF Sections[s].sparse # None /\ c.virtual # 0 THEN c.virtual ELSE offset

\* Theorem: _ncaReadFsSection gives the plaintext of all it is asked for, however many passes it takes,
\* when the offset it derives the counters from is the one the cells were encrypted with.
THEOREM ReadPassesIs ==
  ASSUME NEW s \in DOMAIN Sections, Sections[s].ctrEx = None,
         NEW size \in Nat \ {0}, NEW offset \in Nat, NEW c, c.generation = HeaderGeneration,
         EncryptedFrom(s, offset, size, CounterFrom(s, offset, c))
  PROVE  ReadPasses(s, size, offset, c) = Row(PlainOf(s), offset, offset + size)
  <1> DEFINE key == CounterFrom(s, offset, c)
             start == Sections[s].start
             shifted == Sections[s].sparse # None /\ c.virtual # 0
             end == offset + size
             At(left) == offset + size - left
             IvAt(left) == start + IF shifted THEN c.virtual + size - left ELSE At(left)
             Gives(left) == Given(s, At(left), Pass(s, left, At(left)),
                                  PassIv(s, left, At(left), IvAt(left), c))
             G == [left \in 1..size |-> Gives(left)]
             O == [left \in 1..size |-> Pass(s, left, At(left)).out]
             Body(f, left) == Gives(left) \o (IF Pass(s, left, At(left)).out = left THEN <<>>
                                              ELSE f[left - Pass(s, left, At(left)).out])
             Fix(f) == [left \in 1..size |-> Body(f, left)]
             read == CHOOSE f : f = Fix(f)
  <1>0. /\ key \in Nat /\ key % Block = offset % Block
        /\ \A k \in Nat : k < size => EncryptedAt(s, offset + k) = key + k
    BY DEF EncryptedFrom
  <1>1. ReadPasses(s, size, offset, c) = read[size]
    BY DEF ReadPasses
  <1>2. ASSUME NEW left \in 1..size
        PROVE  O[left] \in 1..left /\ G[left] = Row(PlainOf(s), end - left, end - left + O[left])
    <2> DEFINE d == size - left
               at == offset + d
               from == key + d
    <2>1. d \in Nat /\ left \in Nat \ {0} /\ at \in Nat /\ At(left) = at /\ end - left = at
      OBVIOUS
    <2>2. from \in Nat /\ from % Block = at % Block
      <3>1. key \in Nat /\ offset \in Nat /\ d \in Nat /\ key % Block = offset % Block
        BY <1>0, <2>1
      <3> HIDE DEF key, d
      <3> QED BY <3>1, SamePlace
    <2>3. IvAt(left) = start + from
      <3>1. CASE shifted
        <4>1. key = c.virtual
          BY <3>1 DEF CounterFrom
        <4>2. c.virtual \in Nat /\ c.virtual + size - left = from
          BY <1>0, <4>1
        <4> QED BY <3>1, <4>2
      <3>2. CASE ~ shifted
        <4>1. key = offset
          BY <3>2 DEF CounterFrom
        <4> QED BY <2>1, <3>2, <4>1
      <3> QED BY <3>1, <3>2
    <2>4. EncryptedFrom(s, at, left, from)
      <3>1. ASSUME NEW k \in Nat, k < left PROVE EncryptedAt(s, at + k) = from + k
        <4> DEFINE i == d + k
        <4>1. i \in Nat /\ i < size /\ at + k = offset + i /\ from + k = key + i
          BY <1>0, <2>1, <2>2, <3>1
        <4> HIDE DEF i, at, from, key
        <4> QED BY <1>0, <4>1
      <3> HIDE DEF at, from
      <3> QED BY <2>2, <3>1 DEF EncryptedFrom
    <2> DEFINE pass == Pass(s, left, at)
    <2>5. PassGives(s, left, at, start + from, c)
      <3> HIDE DEF at, from
      <3> QED BY <2>1, <2>4, SectionPass
    <2>6. O[left] = pass.out /\ G[left] = Given(s, at, pass, PassIv(s, left, at, start + from, c))
      <3> HIDE DEF at, from, IvAt, At
      <3> QED BY <2>1, <2>3
    <2> HIDE DEF G, O, at, pass, from, end
    <2> QED BY <2>1, <2>5, <2>6 DEF PassGives, pass
  <1>3. \A f : Fix(f) = Looped(size, G, O, f)
    <2> HIDE DEF At, Gives
    <2> QED BY DEF Looped, Summed
  <1>4. end \in Nat /\ size <= end /\ end - size = offset
    OBVIOUS
  <1> HIDE DEF G, O, Fix, end
  <1>5. /\ \E f : f = Looped(size, G, O, f)
        /\ \A f : f = Looped(size, G, O, f) => f[size] = Row(PlainOf(s), end - size, end)
    <2>1. PassesGive(size, end, PlainOf(s), G, O)
      BY <1>2 DEF PassesGive
    <2> QED BY <1>4, <2>1, PassesAddUp
  <1>6. read = Fix(read)
    BY <1>3, <1>5
  <1> HIDE DEF read
  <1>7. read[size] = Row(PlainOf(s), offset, end)
    BY <1>3, <1>4, <1>5, <1>6
  <1> QED BY <1>1, <1>7 DEF end

\* The cells of a patch section from an offset on were encrypted as one entry of its table says.
KeyedBy(s, at, size, e) ==
  \A k \in Nat : k < size =>
     StoredWith(s, at + k) = IF e.encrypted THEN Ctr(e.generation, Sections[s].start + (at + k))
                             ELSE Plain

\* What a keyed pass at an offset takes from the section is the plaintext there.
KeyedPassGives(s, size, at, e) ==
  /\ KeyedPass(s, size, at, e).out \in 1..size
  /\ Given(s, at, KeyedPass(s, size, at, e), KeyedIv(s, size, at, e))
        = Row(PlainOf(s), at, at + KeyedPass(s, size, at, e).out)

\* Lemma: a pass of _ncaReadAesCtrExStorage gives the plaintext of the cells it is for.
LEMMA KeyedSectionPass ==
  ASSUME NEW s \in DOMAIN Sections, NEW size \in Nat \ {0}, NEW at \in Nat, NEW e,
         e.encrypted \in BOOLEAN, KeyedBy(s, at, size, e)
  PROVE  KeyedPassGives(s, size, at, e)
  <1> DEFINE pass == KeyedPass(s, size, at, e)
             start == Sections[s].start
             iv == KeyedIv(s, size, at, e)
             Goal == KeyedPassGives(s, size, at, e)
  <1>1. start \in Nat /\ start % Block = 0
    BY SectionFacts
  <1>2. pass = IF ~ e.encrypted \/ Aligned(size, start + at) THEN Whole(size)
               ELSE ThroughBuffer(size, start + at)
    BY DEF KeyedPass
  <1>3. iv = [j \in 1..pass.size |->
                IF e.encrypted THEN Ctr(e.generation, AlignDown(start + at) + j - 1) ELSE Plain]
    BY DEF KeyedIv
  <1>4. \A k \in Nat : k < size =>
          StoredWith(s, at + k) = IF e.encrypted THEN Ctr(e.generation, start + (at + k)) ELSE Plain
    BY DEF KeyedBy
  <1>5. Goal <=> /\ pass.out \in 1..size
                 /\ Given(s, at, pass, iv) = Row(PlainOf(s), at, at + pass.out)
    BY DEF KeyedPassGives
  <1> HIDE DEF pass, iv, start, Goal
  <1>7. ASSUME NEW skip \in Nat, NEW n \in Nat, NEW out \in Nat, skip <= at,
               pass = PassOf(skip, n, out), out \in 1..size, skip + out <= n,
               \A k \in Nat : k < out => StoredWith(s, at + k) = iv[skip + k + 1]
        PROVE  Goal
    <2>1. DOMAIN iv = 1..n
      BY <1>3, <1>7 DEF PassOf
    <2>2. Given(s, at, pass, iv) = Row(PlainOf(s), at, at + out)
      <3>1. GivenPass(s, at, skip, n, out, iv)
        BY <1>7, <2>1 DEF GivenPass
      <3> QED BY <1>7, <3>1, GivenIs
    <2>3. pass.out = out
      BY <1>7 DEF PassOf
    <2> QED BY <1>5, <1>7, <2>2, <2>3
  <1>8. ASSUME ~ e.encrypted PROVE Goal
    <2>1. pass = PassOf(0, size, size)
      BY <1>2, <1>8 DEF Whole, PassOf
    <2>2. ASSUME NEW k \in Nat, k < size PROVE StoredWith(s, at + k) = iv[0 + k + 1]
      <3>1. k + 1 \in 1..pass.size
        BY <2>1, <2>2 DEF PassOf
      <3>2. StoredWith(s, at + k) = Plain
        BY <1>4, <1>8, <2>2
      <3>3. iv[k + 1] = Plain
        BY <1>3, <1>8, <3>1
      <3> QED BY <3>2, <3>3
    <2> QED BY <1>7, <2>1, <2>2
  <1>9. ASSUME e.encrypted PROVE Goal
    <2> DEFINE skip == at % Block
    <2>1. /\ skip \in Nat /\ skip <= at /\ AlignDown(at) + skip = at /\ AlignDown(at) \in Nat
      BY Alignment
    <2>2. AlignDown(start + at) = start + AlignDown(at)
      BY <1>1, Shifted
    <2>3. PICK n, out \in Nat : /\ pass = PassOf(skip, n, out)
                                /\ out \in 1..size /\ skip + out <= n
      <3>1. \/ Aligned(size, start + at) /\ pass = Whole(size)
            \/ pass = ThroughBuffer(size, start + at)
        BY <1>2, <1>9
      <3>2. start \in Nat /\ start % Block = 0
        BY <1>1
      <3>3. BlocksPass(pass, skip, size)
        BY <3>1, <3>2, CipherPass
      <3> QED BY <3>3 DEF BlocksPass
    <2> HIDE DEF skip
    <2>4. ASSUME NEW k \in Nat, k < out PROVE StoredWith(s, at + k) = iv[skip + k + 1]
      <3> DEFINE j == skip + k + 1
      <3>1. j \in 1..pass.size /\ k < size /\ AlignDown(start + at) + j - 1 = start + (at + k)
        BY <1>1, <2>1, <2>2, <2>3, <2>4 DEF PassOf
      <3>3. StoredWith(s, at + k) = Ctr(e.generation, start + (at + k))
        BY <1>4, <1>9, <3>1
      <3> HIDE DEF j
      <3>4. iv[j] = Ctr(e.generation, start + (at + k))
        BY <1>3, <1>9, <3>1
      <3> QED BY <3>3, <3>4 DEF j
    <2> QED BY <1>7, <2>1, <2>3, <2>4
  <1> QED BY <1>8, <1>9 DEF Goal

\* Theorem: _ncaReadAesCtrExStorage gives the plaintext of all it is asked for, however many passes it
\* takes, when the entry it was handed is the one of all these cells.
THEOREM ReadKeyedPassesIs ==
  ASSUME NEW s \in DOMAIN Sections, NEW size \in Nat \ {0}, NEW offset \in Nat, NEW e,
         e.encrypted \in BOOLEAN, KeyedBy(s, offset, size, e)
  PROVE  ReadKeyedPasses(s, size, offset, e) = Row(PlainOf(s), offset, offset + size)
  <1> DEFINE end == offset + size
             At(left) == offset + size - left
             Gives(left) == Given(s, At(left), KeyedPass(s, left, At(left), e),
                                  KeyedIv(s, left, At(left), e))
             G == [left \in 1..size |-> Gives(left)]
             O == [left \in 1..size |-> KeyedPass(s, left, At(left), e).out]
             Body(f, left) == Gives(left) \o (IF KeyedPass(s, left, At(left), e).out = left THEN <<>>
                                              ELSE f[left - KeyedPass(s, left, At(left), e).out])
             Fix(f) == [left \in 1..size |-> Body(f, left)]
             read == CHOOSE f : f = Fix(f)
  <1>1. ReadKeyedPasses(s, size, offset, e) = read[size]
    BY DEF ReadKeyedPasses
  <1>2. ASSUME NEW left \in 1..size
        PROVE  O[left] \in 1..left /\ G[left] = Row(PlainOf(s), end - left, end - left + O[left])
    <2> DEFINE d == size - left
               at == offset + d
               pass == KeyedPass(s, left, at, e)
    <2>1. d \in Nat /\ left \in Nat \ {0} /\ at \in Nat /\ At(left) = at /\ end - left = at
      OBVIOUS
    <2>2. KeyedBy(s, at, left, e)
      <3>1. ASSUME NEW k \in Nat, k < left
            PROVE  StoredWith(s, at + k) = IF e.encrypted
                                           THEN Ctr(e.generation, Sections[s].start + (at + k))
                                           ELSE Plain
        <4> DEFINE i == d + k
        <4>1. i \in Nat /\ i < size /\ at + k = offset + i
          BY <2>1, <3>1
        <4> HIDE DEF i, at
        <4> QED BY <4>1 DEF KeyedBy
      <3> HIDE DEF at
      <3> QED BY <3>1 DEF KeyedBy
    <2>5. KeyedPassGives(s, left, at, e)
      <3> HIDE DEF at
      <3> QED BY <2>1, <2>2, KeyedSectionPass
    <2>6. O[left] = pass.out /\ G[left] = Given(s, at, pass, KeyedIv(s, left, at, e))
      <3> HIDE DEF at, At
      <3> QED BY <2>1
    <2> HIDE DEF G, O, at, pass, end
    <2> QED BY <2>1, <2>5, <2>6 DEF KeyedPassGives, pass
  <1>3. \A f : Fix(f) = Looped(size, G, O, f)
    <2> HIDE DEF At, Gives
    <2> QED BY DEF Looped, Summed
  <1>4. end \in Nat /\ size <= end /\ end - size = offset
    OBVIOUS
  <1> HIDE DEF G, O, Fix, end
  <1>5. /\ \E f : f = Looped(size, G, O, f)
        /\ \A f : f = Looped(size, G, O, f) => f[size] = Row(PlainOf(s), end - size, end)
    <2>1. PassesGive(size, end, PlainOf(s), G, O)
      BY <1>2 DEF PassesGive
    <2> QED BY <1>4, <2>1, PassesAddUp
  <1>6. read = Fix(read)
    BY <1>3, <1>5
  <1> HIDE DEF read
  <1>7. read[size] = Row(PlainOf(s), offset, end)
    BY <1>3, <1>4, <1>5, <1>6
  <1> QED BY <1>1, <1>7 DEF end

-----------------------------------------------------------------------------
\* What a read of a storage returns

\* What a read returns, from its parts
Result(ok, data, c) == [ok |-> ok, data |-> data, cipher |-> c]

\* The result of a read, whatever it read.
IsResult(r) == \E ok \in BOOLEAN : \E data : \E c \in Ciphers : r = Result(ok, data, c)

\* The storage has a cell at each offset from one up to another.
AllThere(F, from, to) == \A v \in Nat : from <= v /\ v < to => F[v] # Absent

\* The result of a read of the cells of F, from an offset up to another, that was handed c: these
\* cells, or a failure; and a failure only where one is missing or the content file does not read.
Returns(r, F, from, to, c) ==
  /\ IsResult(r) /\ r.cipher.virtual = 0 /\ r.cipher.unreadable = c.unreadable
  /\ r.ok => r.data = Row(F, from, to) /\ AllThere(F, from, to)
  /\ c.unreadable = {} /\ AllThere(F, from, to) => r.ok

\* Lemma: a result and its parts.
LEMMA ResultIs ==
  ASSUME NEW ok \in BOOLEAN, NEW data, NEW c \in Ciphers
  PROVE  /\ IsResult(Result(ok, data, c)) /\ Result(ok, data, c).ok = ok
         /\ Result(ok, data, c).data = data /\ Result(ok, data, c).cipher = c
  <1>1. Result(ok, data, c).ok = ok /\ Result(ok, data, c).data = data /\ Result(ok, data, c).cipher = c
    BY DEF Result
  <1>2. IsResult(Result(ok, data, c))
    BY Zenon DEF IsResult
  <1> QED BY <1>1, <1>2

\* Lemma: what a read that succeeds returns.
LEMMA DoneIs ==
  ASSUME NEW data, NEW c \in Ciphers
  PROVE  /\ IsResult(Done(data, c)) /\ Done(data, c).ok = TRUE
         /\ Done(data, c).data = data /\ Done(data, c).cipher = c
  <1>1. Done(data, c) = Result(TRUE, data, c)
    BY Zenon DEF Result, Done
  <1> DEFINE yes == TRUE
  <1>2. yes \in BOOLEAN /\ yes = TRUE
    OBVIOUS
  <1> HIDE DEF yes
  <1>3. /\ IsResult(Result(yes, data, c)) /\ Result(yes, data, c).ok = yes
        /\ Result(yes, data, c).data = data /\ Result(yes, data, c).cipher = c
    BY <1>2, ResultIs, ZenonT(60)
  <1> QED BY <1>1, <1>2, <1>3, Zenon

\* Lemma: what a read that fails returns.
LEMMA FailedIs ==
  ASSUME NEW c \in Ciphers
  PROVE  IsResult(Failed(c)) /\ Failed(c).ok = FALSE /\ Failed(c).cipher = c
  <1>1. Failed(c) = Result(FALSE, <<>>, c)
    BY Zenon DEF Result, Failed
  <1> DEFINE no == FALSE
             data == <<>>
  <1>2. no \in BOOLEAN /\ no = FALSE
    OBVIOUS
  <1> HIDE DEF no, data
  <1>3. /\ IsResult(Result(no, data, c)) /\ Result(no, data, c).ok = no
        /\ Result(no, data, c).cipher = c
    BY <1>2, ResultIs
  <1> QED BY <1>1, <1>2, <1>3 DEF data

\* Lemma: the parts of a result.
LEMMA ResultHas ==
  ASSUME NEW r, IsResult(r)
  PROVE  r.ok \in BOOLEAN /\ r.cipher \in Ciphers /\ r = Result(r.ok, r.data, r.cipher)
  BY DEF IsResult, Result

\* Lemma: a failure is all that may be returned of cells of which some are missing, or when the
\* content file does not read.
LEMMA FailureReturns ==
  ASSUME NEW c \in Ciphers, NEW d \in Ciphers, d.virtual = 0, d.unreadable = c.unreadable,
         NEW F, NEW from, NEW to, ~ (c.unreadable = {} /\ AllThere(F, from, to))
  PROVE  Returns(Failed(d), F, from, to, c)
  <1>1. /\ IsResult(Failed(d)) /\ Failed(d).ok = FALSE /\ Failed(d).cipher = d
    BY FailedIs
  <1> QED BY <1>1 DEF Returns

\* Lemma: what two reads return, the second from where the first ends.
LEMMA ReturnsJoin ==
  ASSUME NEW F, NEW a \in Nat, NEW b \in Nat, NEW d \in Nat, a <= b, b <= d, NEW c,
         NEW piece, Returns(piece, F, a, b, c), piece.ok,
         NEW rest, Returns(rest, F, b, d, piece.cipher)
  PROVE  Returns(Appended(piece.data, rest), F, a, d, c)
  <1>1. /\ IsResult(rest) /\ rest.cipher.virtual = 0
        /\ rest.cipher.unreadable = piece.cipher.unreadable
        /\ piece.cipher.unreadable = c.unreadable
        /\ rest.ok => rest.data = Row(F, b, d) /\ AllThere(F, b, d)
        /\ piece.cipher.unreadable = {} /\ AllThere(F, b, d) => rest.ok
        /\ piece.data = Row(F, a, b) /\ AllThere(F, a, b)
    BY Zenon DEF Returns
  <1>2. AllThere(F, a, d) <=> AllThere(F, b, d)
    <2>1. AllThere(F, a, d) => AllThere(F, b, d)
      BY DEF AllThere
    <2>2. AllThere(F, b, d) => AllThere(F, a, d)
      <3> SUFFICES ASSUME AllThere(F, b, d), NEW v \in Nat, a <= v, v < d PROVE F[v] # Absent
        BY DEF AllThere
      <3>1. CASE v < b
        BY <1>1, <3>1 DEF AllThere
      <3>2. CASE b <= v
        BY <3>2 DEF AllThere
      <3> QED BY <3>1, <3>2
    <2> QED BY <2>1, <2>2
  <1>3. CASE rest.ok
    <2> DEFINE data == Join(piece.data, rest.data)
               left == rest.cipher
    <2>1. Appended(piece.data, rest) = Done(data, left) /\ data = Row(F, a, d)
      <3>1. Appended(piece.data, rest) = Done(piece.data \o rest.data, rest.cipher)
        BY <1>3, Zenon DEF Appended
      <3>2. Join(Row(F, a, b), Row(F, b, d)) = Row(F, a, d)
        BY RowJoins
      <3> QED BY <1>1, <1>3, <3>1, <3>2, Zenon DEF Join
    <2>2. left \in Ciphers
      BY <1>1, ResultHas
    <2> HIDE DEF data, left
    <2>3. /\ IsResult(Done(data, left)) /\ Done(data, left).ok = TRUE
          /\ Done(data, left).data = data /\ Done(data, left).cipher = left
      BY <2>2, DoneIs
    <2> QED BY <1>1, <1>2, <1>3, <2>1, <2>3, Zenon DEF Returns, left
  <1>4. CASE ~ rest.ok
    <2>1. Appended(piece.data, rest) = rest
      BY <1>4, Zenon DEF Appended
    <2> QED BY <1>1, <1>2, <1>4, <2>1, Zenon DEF Returns
  <1> QED BY <1>3, <1>4

-----------------------------------------------------------------------------
\* The loop over the entries of a table

\* A loop over the states of D that ends in those of T, with what B says, and else appends what it
\* does in the next state, as N says, to what A says.
Unwound(D, T, A, B, N, f) ==
  [x \in D |-> IF x \in T THEN B[x] ELSE Appended(A[x], f[N[x]])]

\* Every state the loop goes on from has a next one, and less is then left, as m says.
Descends(D, T, N, m, bound) ==
  /\ \A x \in D : m[x] \in Nat /\ m[x] <= bound
  /\ \A x \in D \ T : N[x] \in D /\ m[N[x]] < m[x]

\* Lemma: such a loop comes to an end.
LEMMA LoopEnds ==
  ASSUME NEW D, NEW T, NEW A, NEW B, NEW N, NEW m, NEW bound \in Nat, Descends(D, T, N, m, bound)
  PROVE  \E f : f = Unwound(D, T, A, B, N, f)
  <1> DEFINE Upto(k) == {x \in D : m[x] < k}
             Known(k) == \E f : f = Unwound(Upto(k), T, A, B, N, f)
             Bad == {k \in Nat : ~ Known(k)}
  <1>1. ASSUME NEW k \in Nat, Known(k) PROVE Known(k + 1)
    <2> DEFINE S == Upto(k)
               U == Upto(k + 1)
    <2>1. PICK g : g = Unwound(S, T, A, B, N, g)
      BY <1>1
    <2> DEFINE f == Unwound(U, T, A, B, N, g)
    <2>2. \A x \in S : x \in U
      <3>1. \A x \in D : m[x] \in Nat
        BY DEF Descends
      <3> QED BY <3>1
    <2>3. \A x \in U \ T : N[x] \in S
      BY DEF Descends
    <2> HIDE DEF S, U
    <2>4. \A x \in S : g[x] = IF x \in T THEN B[x] ELSE Appended(A[x], g[N[x]])
      <3> DEFINE h == g
      <3>1. g = [x \in S |-> IF x \in T THEN B[x] ELSE Appended(A[x], h[N[x]])]
        BY <2>1 DEF Unwound
      <3> HIDE DEF h
      <3>2. \A x \in S : g[x] = IF x \in T THEN B[x] ELSE Appended(A[x], h[N[x]])
        BY <3>1
      <3> QED BY <3>2 DEF h
    <2>5. \A x \in U : f[x] = IF x \in T THEN B[x] ELSE Appended(A[x], g[N[x]])
      BY DEF Unwound
    <2> HIDE DEF f
    <2>6. ASSUME NEW x \in U, x \notin T PROVE g[N[x]] = f[N[x]]
      <3>0. PICK y : y = N[x]
        OBVIOUS
      <3>1. y \in S /\ y \in U
        BY <2>2, <2>3, <2>6, <3>0
      <3>2. /\ g[y] = IF y \in T THEN B[y] ELSE Appended(A[y], g[N[y]])
            /\ f[y] = IF y \in T THEN B[y] ELSE Appended(A[y], g[N[y]])
        BY <2>4, <2>5, <3>1, Zenon
      <3>3. g[y] = f[y]
        <4>1. CASE y \in T
          BY <3>2, <4>1
        <4>2. CASE y \notin T
          BY <3>2, <4>2
        <4> QED BY <4>1, <4>2
      <3> QED BY <3>0, <3>3, Zenon
    <2> USE DEF f
    <2>7. \A x \in U : (IF x \in T THEN B[x] ELSE Appended(A[x], g[N[x]]))
                         = (IF x \in T THEN B[x] ELSE Appended(A[x], f[N[x]]))
      <3> HIDE DEF f
      <3> QED BY <2>6
    <2>8. f = Unwound(U, T, A, B, N, f)
      <3> DEFINE h == f
      <3>1. \A x \in U : (IF x \in T THEN B[x] ELSE Appended(A[x], g[N[x]]))
                         = (IF x \in T THEN B[x] ELSE Appended(A[x], h[N[x]]))
        BY <2>7
      <3> HIDE DEF h
      <3>2. f = Unwound(U, T, A, B, N, h)
        BY <3>1 DEF Unwound
      <3> QED BY <3>2 DEF h
    <2> QED BY <2>8, Zenon DEF U
  <1>2. Known(0)
    <2>1. Upto(0) = {}
      BY DEF Descends
    <2> DEFINE f == Unwound(Upto(0), T, A, B, N, <<>>)
    <2>2. f = Unwound(Upto(0), T, A, B, N, f)
      <3> DEFINE h == f
      <3> HIDE DEF h
      <3>1. f = Unwound(Upto(0), T, A, B, N, h)
        BY <2>1 DEF Unwound
      <3> QED BY <3>1 DEF h
    <2> QED BY <2>2, Zenon
  <1> HIDE DEF Known
  <1>3. Bad = {}
    <2> SUFFICES ASSUME Bad # {} PROVE FALSE
      OBVIOUS
    <2>1. PICK k \in Bad : \A l \in Bad : k <= l
      <3>1. Bad \subseteq Nat
        OBVIOUS
      <3> HIDE DEF Bad
      <3> QED BY <3>1, LeastElement
    <2>2. k # 0
      BY <1>2
    <2>3. k - 1 \in Nat /\ Known(k - 1)
      BY <2>1, <2>2
    <2>4. Known((k - 1) + 1)
      BY <1>1, <2>3
    <2> QED BY <2>4
  <1>4. Known(bound + 1)
    BY <1>3
  <1>5. Upto(bound + 1) = D
    BY DEF Descends
  <1> HIDE DEF Upto
  <1> QED BY <1>4, <1>5 DEF Known

\* What an iteration reads of an entry is a result, whatever it is asked for.
PiecesAreResults(Below, g) ==
  \A p \in Places(g.tree), n \in Nat, at \in Nat, c \in Ciphers :
     Visited(g.tree, p).virtual <= at
        => IsResult(ReadPiece(Below, g, Extents(g.tree, p), n, at, c))

\* What an iteration reads of an entry is what the storage holds there, of the cells the entry covers.
PiecesReturn(Below, g, F) ==
  \A p \in Places(g.tree), from \in Nat, to \in Nat, c \in Ciphers :
     /\ Visited(g.tree, p).virtual <= from /\ from < to /\ to <= Extents(g.tree, p).next
     /\ c.virtual = 0
     => Returns(ReadPiece(Below, g, Extents(g.tree, p), to - from, from, c), F, from, to, c)

\* Lemma: the loop of bktrRead*Storage returns what the storage holds, when each of its iterations
\* returns what it holds of one entry.
LEMMA PiecesAddUp ==
  ASSUME NEW Below, NEW g, IsTree(g.tree), PiecesAreResults(Below, g),
         NEW size \in Nat \ {0}, NEW offset \in Nat, offset + size <= g.tree.end, NEW c \in Ciphers
  PROVE  /\ IsResult(ReadPieces(Below, g, size, offset, c))
         /\ \A F : PiecesReturn(Below, g, F) /\ c.virtual = 0
               => Returns(ReadPieces(Below, g, size, offset, c), F, offset, offset + size, c)
  <1> DEFINE D == Places(g.tree) \X (0..size) \X Ciphers
             X(st) == Extents(g.tree, st[1])
             In(st) == offset + st[2] \in X(st).entry.virtual..(X(st).next - 1)
             n(st) == Min({size - st[2], BlockSize(X(st), offset, st[2])})
             Piece(st) == ReadPiece(Below, g, X(st), n(st), offset + st[2], st[3])
             Short(st) == ~ Piece(st).ok \/ Len(Piece(st).data) # n(st)
             Following(st) == <<MoveNext(g.tree, st[1]), st[2] + n(st), Piece(st).cipher>>
             Body(f, st) == IF In(st)
                            THEN IF Short(st) THEN Failed(Piece(st).cipher)
                                 ELSE IF st[2] + n(st) = size THEN Piece(st)
                                 ELSE Appended(Piece(st).data, f[Following(st)])
                            ELSE Failed(st[3])
             Fix(f) == [st \in D |-> Body(f, st)]
             read == CHOOSE f : f = Fix(f)
             Last(st) == ~ In(st) \/ Short(st) \/ st[2] + n(st) = size
             T == {st \in D : Last(st)}
             A == [st \in D |-> Piece(st).data]
             B == [st \in D |-> IF ~ In(st) THEN Failed(st[3])
                                ELSE IF Short(st) THEN Failed(Piece(st).cipher) ELSE Piece(st)]
             N == [st \in D |-> Following(st)]
             m == [st \in D |-> size - st[2]]
             first == <<FindEntry(g.tree, offset), 0, c>>
  <1>1. ReadPieces(Below, g, size, offset, c) = read[first]
    BY DEF ReadPieces
  <1>2. ASSUME NEW st \in D
        PROVE  st[1] \in Places(g.tree) /\ st[2] \in 0..size /\ st[3] \in Ciphers
    OBVIOUS
  <1>3. ASSUME NEW p, NEW k, NEW d, p \in Places(g.tree), k \in 0..size, d \in Ciphers
        PROVE  /\ <<p, k, d>> \in D /\ <<p, k, d>>[1] = p /\ <<p, k, d>>[2] = k
               /\ <<p, k, d>>[3] = d
    BY <1>3
  <1> HIDE DEF D
  \* The cells an iteration reads
  <1>4. ASSUME NEW st \in D, In(st)
        PROVE  /\ n(st) \in Nat /\ n(st) <= size - st[2]
               /\ IsResult(Piece(st))
               /\ n(st) # size - st[2] => /\ n(st) > 0
                                          /\ MoveNext(g.tree, st[1]) \in Places(g.tree)
               /\ (st[2] = 0 \/ offset + st[2] = X(st).entry.virtual) =>
                      /\ offset + st[2] + n(st) <= X(st).next
                      /\ st[2] # size => n(st) > 0
                      /\ n(st) # size - st[2] =>
                            /\ offset + st[2] + n(st) = X(st).next
                            /\ X(Following(st)).entry.virtual = offset + st[2] + n(st)
    <2> DEFINE x == X(st)
               p == st[1]
               k == st[2]
               block == BlockSize(x, offset, k)
    <2>1. p \in Places(g.tree) /\ k \in 0..size /\ st[3] \in Ciphers
      BY <1>2
    <2>2. /\ x.entry = Visited(g.tree, p) /\ x.entry.virtual \in Nat /\ x.next \in Nat
          /\ x.entry.virtual < x.next /\ x.next <= g.tree.end
          /\ x.next # g.tree.end => CanMoveNext(g.tree, p)
          /\ CanMoveNext(g.tree, p) => x.next = Visited(g.tree, MoveNext(g.tree, p)).virtual
      BY <2>1, ExtentsAreCovered
    <2>3. CanMoveNext(g.tree, p) => MoveNext(g.tree, p) \in Places(g.tree)
      BY <2>1, MoveIsNext
    <2>4. offset + k \in Nat /\ x.entry.virtual <= offset + k /\ offset + k < x.next
      BY <1>4, <2>1, <2>2
    <2>5. block = IF k = 0 THEN x.next - offset ELSE x.next - x.entry.virtual
      BY DEF BlockSize
    <2> HIDE DEF x, k, p, block
    <2>6. block \in Nat /\ block > 0 /\ offset + k + block >= x.next
          /\ (k = 0 \/ offset + k = x.entry.virtual => offset + k + block = x.next)
      BY <2>1, <2>2, <2>4, <2>5
    <2>7. n(st) = IF size - k <= block THEN size - k ELSE block
      <3> DEFINE left == size - k
      <3>1. left \in Int /\ block \in Int
        BY <2>1, <2>6
      <3> HIDE DEF left
      <3>2. Min({left, block}) = IF left <= block THEN left ELSE block
        BY <3>1, TwoExtremes
      <3> QED BY <3>2 DEF left, k, x, block
    <2> DEFINE q == n(st)
    <2>8. q = IF size - k <= block THEN size - k ELSE block
      BY <2>7
    <2> HIDE DEF q
    <2>9. q \in Nat /\ q <= size - k /\ (k # size => q > 0)
      BY <2>1, <2>6, <2>8
    <2>10. q # size - k => /\ q = block /\ offset + k + q < g.tree.end
                           /\ q > 0 /\ x.next < g.tree.end
      BY <2>1, <2>2, <2>6, <2>8, g.tree.end \in Nat DEF IsTree
    <2>11. q # size - k => /\ MoveNext(g.tree, p) \in Places(g.tree)
                           /\ x.next = Visited(g.tree, MoveNext(g.tree, p)).virtual
      BY <2>2, <2>3, <2>10
    <2>12. IsResult(Piece(st))
      <3>1. Piece(st) = ReadPiece(Below, g, Extents(g.tree, p), q, offset + k, st[3])
        BY DEF q, p, k
      <3> QED BY <2>1, <2>2, <2>4, <2>9, <3>1 DEF PiecesAreResults
    <2>13. (k = 0 \/ offset + k = x.entry.virtual) =>
              /\ offset + k + q <= x.next
              /\ q # size - k => offset + k + q = x.next
      BY <2>1, <2>2, <2>6, <2>8
    <2>14. q # size - k => X(Following(st)).entry.virtual = x.next
      <3> SUFFICES ASSUME q # size - k PROVE X(Following(st)).entry.virtual = x.next
        OBVIOUS
      <3>1. X(Following(st)) = Extents(g.tree, MoveNext(g.tree, p))
        BY DEF p
      <3>2. Extents(g.tree, MoveNext(g.tree, p)).entry = Visited(g.tree, MoveNext(g.tree, p))
        BY <2>11, ExtentsAreCovered
      <3> QED BY <2>11, <3>1, <3>2
    <2> HIDE DEF X, Piece, Following, n, In
    <2>15. q \in Nat /\ q <= size - k /\ IsResult(Piece(st))
      BY <2>9, <2>12
    <2>16. q # size - k => q > 0 /\ MoveNext(g.tree, p) \in Places(g.tree)
      BY <2>10, <2>11
    <2>17. (k = 0 \/ offset + k = x.entry.virtual) =>
              /\ offset + k + q <= x.next
              /\ k # size => q > 0
              /\ q # size - k => /\ offset + k + q = x.next
                                /\ X(Following(st)).entry.virtual = offset + k + q
      <3> DEFINE y == X(Following(st)).entry.virtual
      <3> HIDE DEF y
      <3>1. q # size - k => y = x.next
        BY <2>14 DEF y
      <3> QED BY <2>9, <2>13, <3>1 DEF y
    <2> QED BY <2>15, <2>16, <2>17 DEF x, k, p, q
  <1> HIDE DEF X, In, n, Piece
  <1>5. Descends(D, T, N, m, size)
    <2>1. ASSUME NEW st \in D PROVE m[st] \in Nat /\ m[st] <= size
      <3>1. st[2] \in 0..size
        BY <1>2
      <3> QED BY <3>1
    <2>2. ASSUME NEW st \in D \ T PROVE N[st] \in D /\ m[N[st]] < m[st]
      <3>1. st \in D /\ In(st) /\ ~ Short(st) /\ st[2] + n(st) # size
        OBVIOUS
      <3> HIDE DEF Short
      <3>2. st[2] \in 0..size /\ st[3] \in Ciphers
        BY <1>2, <3>1
      <3>3. /\ n(st) \in Nat /\ n(st) > 0 /\ st[2] + n(st) \in 0..size /\ IsResult(Piece(st))
            /\ MoveNext(g.tree, st[1]) \in Places(g.tree)
        <4> DEFINE q == n(st)
                   k == st[2]
        <4>1. /\ q \in Nat /\ q <= size - k /\ IsResult(Piece(st))
              /\ q # size - k => q > 0 /\ MoveNext(g.tree, st[1]) \in Places(g.tree)
          BY <1>4, <3>1
        <4>2. k \in 0..size /\ k + q # size
          BY <3>1, <3>2
        <4> HIDE DEF q, k
        <4>3. q > 0 /\ k + q \in 0..size /\ q # size - k
          BY <4>1, <4>2
        <4> QED BY <4>1, <4>3 DEF q, k
      <3>4. Piece(st).cipher \in Ciphers
        BY <3>3, ResultHas
      <3>5. Following(st) \in D /\ Following(st)[2] = st[2] + n(st)
        <4> DEFINE p == MoveNext(g.tree, st[1])
                   k == st[2] + n(st)
                   d == Piece(st).cipher
        <4>1. p \in Places(g.tree) /\ k \in 0..size /\ d \in Ciphers
          BY <3>3, <3>4
        <4>2. Following(st) = <<p, k, d>>
          OBVIOUS
        <4> HIDE DEF p, k, d, Following
        <4>3. <<p, k, d>> \in D /\ <<p, k, d>>[2] = k
          BY <1>3, <4>1
        <4> QED BY <4>2, <4>3 DEF k
      <3> HIDE DEF Following, T
      <3>6. N[st] = Following(st)
        BY <3>1
      <3> HIDE DEF N
      <3> QED BY <3>1, <3>2, <3>3, <3>5, <3>6
    <2> HIDE DEF m, N, T
    <2> QED BY <2>1, <2>2 DEF Descends
  <1>6. ASSUME NEW f PROVE Fix(f) = Unwound(D, T, A, B, N, f)
    <2> SUFFICES ASSUME NEW st \in D
                 PROVE  Body(f, st) = IF st \in T THEN B[st] ELSE Appended(A[st], f[N[st]])
      <3> HIDE DEF Body, A, B, T, N
      <3> QED BY DEF Unwound
    <2>1. (st \in T <=> Last(st)) /\ A[st] = Piece(st).data /\ N[st] = Following(st)
          /\ B[st] = IF ~ In(st) THEN Failed(st[3])
                     ELSE IF Short(st) THEN Failed(Piece(st).cipher) ELSE Piece(st)
      <3> HIDE DEF Short, Following
      <3> QED OBVIOUS
    <2> HIDE DEF Short, Following, T, A, B, N
    <2>2. CASE ~ In(st)
      BY <2>1, <2>2
    <2>3. CASE In(st) /\ Short(st)
      BY <2>1, <2>3
    <2>4. CASE In(st) /\ ~ Short(st) /\ st[2] + n(st) = size
      BY <2>1, <2>4
    <2>5. CASE In(st) /\ ~ Short(st) /\ st[2] + n(st) # size
      BY <2>1, <2>5
    <2> QED BY <2>2, <2>3, <2>4, <2>5
  <1>7. read = Fix(read)
    <2> HIDE DEF T, A, B, N, m, Fix
    <2>1. \E f : f = Unwound(D, T, A, B, N, f)
      BY <1>5, LoopEnds
    <2>2. \E f : f = Fix(f)
      BY <1>6, <2>1
    <2> QED BY <2>2
  <1>8. \A st \in D : read[st] = Body(read, st)
    <2> DEFINE h == read
    <2>1. read = Fix(h)
      BY <1>7
    <2> HIDE DEF h, Body, read
    <2>2. \A st \in D : read[st] = Body(h, st)
      BY <2>1
    <2> QED BY <2>2 DEF h
  <1> HIDE DEF read, T, A, B, N, m, Fix, Body
  <1> DEFINE Goes(st) == In(st) /\ ~ Short(st) /\ st[2] + n(st) # size
  <1>9. ASSUME NEW st \in D
        PROVE  /\ ~ In(st) => read[st] = Failed(st[3])
               /\ In(st) /\ Short(st) => read[st] = Failed(Piece(st).cipher)
               /\ In(st) /\ ~ Short(st) /\ st[2] + n(st) = size => read[st] = Piece(st)
               /\ Goes(st) => /\ read[st] = Appended(Piece(st).data, read[Following(st)])
                              /\ Following(st) \in D /\ size - Following(st)[2] < size - st[2]
    <2> HIDE DEF Short, Following
    <2>1. /\ ~ In(st) => read[st] = Failed(st[3])
          /\ In(st) /\ Short(st) => read[st] = Failed(Piece(st).cipher)
          /\ In(st) /\ ~ Short(st) /\ st[2] + n(st) = size => read[st] = Piece(st)
          /\ Goes(st) => read[st] = Appended(Piece(st).data, read[Following(st)])
      BY <1>8 DEF Body
    <2>2. Goes(st) => N[st] = Following(st) /\ st \in D \ T /\ Following(st) \in D
      <3>1. Goes(st) => st \in D \ T
        BY DEF T
      <3>2. N[st] = Following(st)
        BY DEF N
      <3> HIDE DEF Goes
      <3> QED BY <1>5, <3>1, <3>2 DEF Descends
    <2>3. Goes(st) => m[Following(st)] < m[st]
      <3> HIDE DEF Goes
      <3> QED BY <1>5, <2>2 DEF Descends
    <2>4. \A s \in D : m[s] = size - s[2]
      BY DEF m
    <2> HIDE DEF Goes
    <2>5. Goes(st) => size - Following(st)[2] < size - st[2]
      BY <2>2, <2>3, <2>4
    <2> QED BY <2>1, <2>2, <2>5
  <1>10. ASSUME NEW Bad, Bad \subseteq D, Bad # {}
         PROVE  \E st \in Bad : Goes(st) => Following(st) \notin Bad
    <2> DEFINE Left == {size - st[2] : st \in Bad}
    <2>1. Left \subseteq Nat /\ Left # {}
      BY <1>2, <1>10
    <2>2. PICK l \in Left : \A k \in Left : l <= k
      <3> HIDE DEF Left
      <3> QED BY <2>1, LeastElement
    <2>3. PICK st \in Bad : l = size - st[2]
      OBVIOUS
    <2>4. st \in D
      BY <1>10
    <2> HIDE DEF Goes, Following
    <2>5. ASSUME Goes(st), Following(st) \in Bad PROVE FALSE
      <3>1. size - Following(st)[2] < size - st[2]
        BY <1>9, <2>4, <2>5
      <3>2. size - Following(st)[2] \in Left
        BY <2>5
      <3>3. l <= size - Following(st)[2] /\ size - Following(st)[2] \in Int /\ l \in Int
        BY <2>1, <2>2, <3>2
      <3> HIDE DEF Left
      <3> QED BY <2>3, <3>1, <3>3
    <2> QED BY <2>5
  <1>11. ASSUME NEW st \in D PROVE IsResult(read[st])
    <2> DEFINE Bad == {s \in D : ~ IsResult(read[s])}
    <2>1. Bad = {}
      <3> SUFFICES ASSUME Bad # {} PROVE FALSE
        OBVIOUS
      <3>1. PICK s \in Bad : Goes(s) => Following(s) \notin Bad
        <4>1. Bad \subseteq D
          OBVIOUS
        <4> HIDE DEF Bad, Goes, Following
        <4> QED BY <1>10, <4>1
      <3>2. s \in D /\ ~ IsResult(read[s]) /\ s[3] \in Ciphers
        BY <1>2
      <3>3. In(s) => IsResult(Piece(s)) /\ Piece(s).cipher \in Ciphers
        BY <1>4, <3>2, ResultHas
      <3> HIDE DEF Short, Following
      <3>4. CASE ~ In(s)
        BY <1>9, <3>2, <3>4, FailedIs
      <3>5. CASE In(s) /\ Short(s)
        BY <1>9, <3>2, <3>3, <3>5, FailedIs
      <3>6. CASE In(s) /\ ~ Short(s) /\ s[2] + n(s) = size
        BY <1>9, <3>2, <3>3, <3>6
      <3>7. CASE Goes(s)
        <4>1. Following(s) \in D /\ read[s] = Appended(Piece(s).data, read[Following(s)])
          BY <1>9, <3>2, <3>7
        <4>2. IsResult(read[Following(s)])
          BY <3>1, <3>7, <4>1
        <4> DEFINE rest == read[Following(s)]
                   data == Piece(s).data
        <4>3. IsResult(rest) /\ rest.cipher \in Ciphers
          BY <4>2, ResultHas
        <4>4. read[s] = Appended(data, rest)
          BY <4>1
        <4> HIDE DEF rest, data
        <4>5. IsResult(Appended(data, rest))
          <5>1. CASE rest.ok
            <6>1. Appended(data, rest) = Done(data \o rest.data, rest.cipher)
              BY <5>1, Zenon DEF Appended
            <6>2. IsResult(Done(data \o rest.data, rest.cipher))
              BY <4>3, DoneIs, Zenon
            <6> QED BY <6>1, <6>2
          <5>2. CASE ~ rest.ok
            BY <4>3, <5>2, Zenon DEF Appended
          <5> QED BY <5>1, <5>2
        <4> QED BY <3>2, <4>4, <4>5
      <3> QED BY <3>4, <3>5, <3>6, <3>7
    <2> QED BY <2>1
  <1>12. first \in D /\ first[1] = FindEntry(g.tree, offset) /\ first[2] = 0 /\ first[3] = c
         /\ In(first)
    <2> DEFINE p == FindEntry(g.tree, offset)
    <2>1. Covers(g.tree, p, offset) /\ p \in Places(g.tree)
      BY FindCovers DEF Covers
    <2> HIDE DEF p
    <2>2. first = <<p, 0, c>> /\ 0 \in 0..size
      BY DEF p
    <2> HIDE DEF first
    <2>3. first \in D /\ first[1] = p /\ first[2] = 0 /\ first[3] = c
      BY <1>3, <2>1, <2>2
    <2> DEFINE x == Extents(g.tree, p)
    <2>4. /\ x.entry.virtual \in Nat /\ x.next \in Nat
          /\ Covers(g.tree, p, offset) <=> x.entry.virtual <= offset /\ offset < x.next
      <3>1. offset < g.tree.end
        BY DEF IsTree
      <3> QED BY <2>1, <3>1, ExtentsAreCovered
    <2> HIDE DEF x
    <2>5. X(first) = x
      BY <2>3 DEF X, x
    <2>6. In(first)
      BY <2>1, <2>3, <2>4, <2>5 DEF In
    <2> QED BY <2>3, <2>6 DEF p
  <1> DEFINE Good(st) == /\ In(st) /\ st[2] # size /\ st[3].virtual = 0
                         /\ st[2] = 0 \/ offset + st[2] = X(st).entry.virtual
  <1>13. ASSUME NEW F, PiecesReturn(Below, g, F), NEW s \in D, Good(s)
         PROVE  LET a == offset + s[2]
                    b == offset + s[2] + n(s)
                IN /\ a \in Nat /\ b \in Nat /\ a < b /\ b <= offset + size /\ s[3] \in Ciphers
                   /\ Returns(Piece(s), F, a, b, s[3])
                   /\ Short(s) <=> ~ Piece(s).ok
                   /\ s[2] + n(s) = size <=> b = offset + size
    <2> DEFINE p == s[1]
               k == s[2]
               q == n(s)
               d == s[3]
               a == offset + k
               b == offset + k + q
               x == X(s)
               piece == Piece(s)
    <2>1. p \in Places(g.tree) /\ k \in 0..size /\ d \in Ciphers /\ d.virtual = 0 /\ k # size
      BY <1>2, <1>13
    <2>2. x.entry = Visited(g.tree, p) /\ x.entry.virtual \in Nat /\ x.next \in Nat
      BY <2>1, ExtentsAreCovered DEF X
    <2>3. q \in Nat /\ q <= size - k
      BY <1>4, <1>13
    <2>4. offset + k + q <= x.next /\ q > 0
      BY <1>4, <1>13
    <2>5. x.entry.virtual <= offset + k
      <3>1. offset + k \in x.entry.virtual..(x.next - 1)
        BY <1>13 DEF In
      <3> QED BY <2>2, <3>1
    <2>6. piece = ReadPiece(Below, g, Extents(g.tree, p), q, offset + k, d)
      BY DEF Piece, X
    <2>7. x = Extents(g.tree, p)
      BY DEF X
    <2> HIDE DEF x, p, k, q, d, piece
    <2>8. a \in Nat /\ b \in Nat /\ a < b /\ b <= offset + size /\ b - a = q /\ b <= x.next
      BY <2>1, <2>3, <2>4
    <2> HIDE DEF b
    <2>9. Returns(piece, F, a, b, d)
      <3>1. Visited(g.tree, p).virtual <= a
        BY <2>2, <2>5
      <3> HIDE DEF a
      <3>2. Returns(ReadPiece(Below, g, Extents(g.tree, p), b - a, a, d), F, a, b, d)
        BY <1>13, <2>1, <2>7, <2>8, <3>1 DEF PiecesReturn
      <3>3. ReadPiece(Below, g, Extents(g.tree, p), b - a, a, d) = piece
        BY <2>6, <2>8 DEF a
      <3> QED BY <3>2, <3>3
    <2>10. piece.ok => Len(piece.data) = q
      <3> HIDE DEF a
      <3>1. piece.ok => piece.data = Row(F, a, b)
        BY <2>9, Zenon DEF Returns
      <3>2. Len(Row(F, a, b)) = b - a
        <4>1. a \in Nat /\ b \in Nat /\ a <= b
          BY <2>8
        <4> QED BY ONLY <4>1, RowIsSeq
      <3> QED BY <2>8, <3>1, <3>2
    <2>11. Short(s) <=> ~ piece.ok
      BY <2>10 DEF piece, q
    <2>12. k + q = size <=> b = offset + size
      BY <2>1, <2>3 DEF b
    <2> HIDE DEF Short
    <2> QED BY <2>1, <2>8, <2>9, <2>11, <2>12 DEF k, q, d, b, piece
  <1>14. ASSUME NEW F, PiecesReturn(Below, g, F), NEW s \in D, Good(s), Goes(s)
         PROVE  /\ Following(s) \in D /\ Following(s)[2] = s[2] + n(s)
                /\ Following(s)[3] = Piece(s).cipher /\ Good(Following(s))
    <2> DEFINE p == Following(s)[1]
               x == X(Following(s))
    <2>1. Following(s) \in D
      BY <1>9, <1>14
    <2>2. /\ p \in Places(g.tree) /\ Following(s)[2] = s[2] + n(s)
          /\ Following(s)[3] = Piece(s).cipher
      BY <1>2, <2>1
    <2>3. /\ x.entry.virtual \in Nat /\ x.next \in Nat /\ x.entry.virtual < x.next
      BY <2>2, ExtentsAreCovered DEF X
    <2> HIDE DEF p, x, Following, Short
    <2>4. n(s) # size - s[2]
      <3>1. s[2] + n(s) # size /\ s[2] \in 0..size /\ n(s) \in Nat
        BY <1>2, <1>4, <1>14
      <3> QED BY <3>1
    <2>5. X(Following(s)).entry.virtual = offset + s[2] + n(s)
      BY <1>4, <1>14, <2>4
    <2>6. offset + Following(s)[2] = x.entry.virtual
      <3>1. s[2] \in 0..size /\ n(s) \in Nat
        BY <1>2, <1>4, <1>14
      <3> QED BY <2>2, <2>5, <3>1 DEF x
    <2>7. In(Following(s))
      BY <2>3, <2>6 DEF In, x
    <2>8. Following(s)[2] # size
      BY <1>14, <2>2
    <2>9. Following(s)[3].virtual = 0
      BY <1>13, <1>14, <2>2 DEF Returns
    <2> QED BY <2>1, <2>2, <2>6, <2>7, <2>8, <2>9 DEF x
  <1> HIDE DEF Short, Following, Good, Goes
  <1>15. ASSUME NEW F, PiecesReturn(Below, g, F), NEW st \in D, Good(st)
         PROVE  Returns(read[st], F, offset + st[2], offset + size, st[3])
    <2> DEFINE Bad == {s \in D : Good(s) /\ ~ Returns(read[s], F, offset + s[2], offset + size, s[3])}
    <2>1. Bad = {}
      <3> SUFFICES ASSUME Bad # {} PROVE FALSE
        OBVIOUS
      <3>1. PICK s \in Bad : Goes(s) => Following(s) \notin Bad
        <4>1. Bad \subseteq D
          OBVIOUS
        <4> HIDE DEF Bad
        <4> QED BY <1>10, <4>1
      <3> DEFINE a == offset + s[2]
                 b == offset + s[2] + n(s)
                 d == offset + size
                 c0 == s[3]
                 piece == Piece(s)
                 Fails == ~ Returns(read[s], F, a, d, c0)
      <3>2. s \in D /\ Good(s) /\ Fails
        OBVIOUS
      <3> HIDE DEF Fails
      <3>3. In(s)
        BY <3>2 DEF Good
      <3>4. /\ a \in Nat /\ b \in Nat /\ a < b /\ b <= d /\ c0 \in Ciphers
            /\ Returns(piece, F, a, b, c0)
            /\ Short(s) <=> ~ piece.ok
            /\ s[2] + n(s) = size <=> b = d
        BY <1>13, <1>15, <3>2
      <3>5. d \in Nat
        OBVIOUS
      <3>6. CASE Short(s)
        <4>1. read[s] = Failed(piece.cipher)
          BY <1>9, <3>2, <3>3, <3>6
        <4> HIDE DEF a, b, d, c0, piece
        <4>2. /\ piece.cipher \in Ciphers /\ piece.cipher.virtual = 0
              /\ piece.cipher.unreadable = c0.unreadable
              /\ ~ (c0.unreadable = {} /\ AllThere(F, a, b))
          BY <3>4, <3>6, ResultHas DEF Returns
        <4>3. AllThere(F, a, d) => AllThere(F, a, b)
          BY <3>4, <3>5 DEF AllThere
        <4>4. Returns(Failed(piece.cipher), F, a, d, c0)
          BY <3>4, <4>2, <4>3, FailureReturns
        <4> QED BY <3>2, <4>1, <4>4 DEF Fails
      <3>7. CASE ~ Short(s) /\ b = d
        <4>1. read[s] = piece
          BY <1>9, <3>2, <3>3, <3>4, <3>7
        <4> HIDE DEF a, b, d, c0, piece
        <4> QED BY <3>2, <3>4, <3>7, <4>1 DEF Fails
      <3>8. CASE ~ Short(s) /\ b # d
        <4>1. Goes(s)
          BY <3>3, <3>4, <3>8 DEF Goes
        <4> DEFINE rest == read[Following(s)]
        <4>2. read[s] = Appended(piece.data, rest)
          BY <1>9, <3>2, <4>1
        <4>3. /\ Following(s) \in D /\ Following(s)[2] = s[2] + n(s)
              /\ Following(s)[3] = piece.cipher /\ Good(Following(s))
          BY <1>14, <1>15, <3>2, <4>1
        <4>4. Returns(rest, F, b, d, piece.cipher)
          <5>1. Returns(rest, F, offset + Following(s)[2], offset + size, Following(s)[3])
            BY <3>1, <4>1, <4>3
          <5>2. offset + Following(s)[2] = b
            <6>1. s[2] \in 0..size /\ n(s) \in Nat
              BY <1>2, <1>4, <3>2, <3>3
            <6> QED BY <4>3, <6>1
          <5> HIDE DEF rest, b, piece
          <5> QED BY <4>3, <5>1, <5>2
        <4> HIDE DEF a, b, d, c0, piece, rest
        <4>5. piece.ok
          BY <3>4, <3>8
        <4>6. Returns(Appended(piece.data, rest), F, a, d, c0)
          <5>1. a \in Nat /\ b \in Nat /\ d \in Nat /\ a <= b /\ b <= d
            BY <3>4, <3>5
          <5> QED BY ONLY <3>4, <5>1, <4>4, <4>5, ReturnsJoin
        <4> QED BY <3>2, <4>2, <4>6 DEF Fails
      <3> QED BY <3>6, <3>7, <3>8
    <2> QED BY <1>15, <2>1
  <1>16. first[3].virtual = 0 => Good(first)
    BY <1>12 DEF Good
  <1> DEFINE r == ReadPieces(Below, g, size, offset, c)
  <1>17. IsResult(r)
    BY <1>1, <1>11, <1>12
  <1>18. ASSUME NEW F, PiecesReturn(Below, g, F), c.virtual = 0
         PROVE  Returns(r, F, offset, offset + size, c)
    <2>1. Returns(read[first], F, offset + first[2], offset + size, first[3])
      <3> HIDE DEF first
      <3> QED BY <1>12, <1>15, <1>16, <1>18
    <2>2. offset + first[2] = offset
      OBVIOUS
    <2> HIDE DEF first
    <2> QED BY <1>1, <1>12, <2>1, <2>2
  <1> QED BY <1>17, <1>18

-----------------------------------------------------------------------------
\* What a layer makes of what is below it

\* What a layer holds of one storage
CellsOf(Cont, g) == [v \in Nat |-> Cont[<<g, v>>]]

\* Any request to a storage is answered, and leaves no virtual offset behind that it was not handed.
Answers(Below, g) ==
  \A size \in Nat, offset \in Nat, c \in Ciphers :
     /\ IsResult(Below[Request(g, size, offset, c)])
     /\ c.virtual = 0 => Below[Request(g, size, offset, c)].cipher.virtual = 0

\* Any request within a storage returns what it holds.
ReturnsWithin(Below, Cont, g) ==
  \A from \in Nat, to \in Nat, c \in Ciphers :
     from < to /\ (g.type = "Missing" \/ to <= EndOf(g)) /\ c.virtual = 0
        => Returns(Below[Request(g, to - from, from, c)], CellsOf(Cont, g), from, to, c)

\* Below reads of a storage what Cont says it holds.
IsRight(Below, Cont, g) == Answers(Below, g) /\ ReturnsWithin(Below, Cont, g)

\* Reads and content of a layer, from those of the layer below.
Over(Below, Cont, Reads, Conts) ==
  /\ Reads = [r \in Requests |-> ReadLayered(Below, r)]
  /\ Conts = [cell \in Storages \X Nat |-> Layered(Cont, cell[1], cell[2])]

\* The requests a layer may pass on to a section reach it as they are.
SeesSections(Below, Cont) ==
  /\ \A r \in Requests : r.storage.type \in {"Missing", "Regular"} => Below[r] = ReadBare[r]
  /\ \A g \in Storages, v \in Nat : g.type \in {"Missing", "Regular"} => Cont[<<g, v>>] = Bare[<<g, v>>]

\* The outermost layer
TopReads == [r \in Requests |-> ReadLayered(ReadIndirect, r)]

\* What it holds, as Content says for one cell
TopContent == [cell \in Storages \X Nat |-> Layered(IndirectContent, cell[1], cell[2])]

\* Lemma: the four layers, each over the one below.
LEMMA Layers ==
  /\ Over(ReadBare, Bare, ReadSparse, SparseContent)
  /\ Over(ReadSparse, SparseContent, ReadIndirect, IndirectContent)
  /\ Over(ReadIndirect, IndirectContent, TopReads, TopContent)
  <1>1. Over(ReadBare, Bare, ReadSparse, SparseContent)
    BY Zenon DEF Over, ReadSparse, SparseContent
  <1>2. Over(ReadSparse, SparseContent, ReadIndirect, IndirectContent)
    BY Zenon DEF Over, ReadIndirect, IndirectContent
  <1>3. Over(ReadIndirect, IndirectContent, TopReads, TopContent)
    BY Zenon DEF Over, TopReads, TopContent
  <1> QED BY <1>1, <1>2, <1>3

\* Lemma: the parts of a request.
LEMMA RequestIs ==
  ASSUME NEW g \in Storages, NEW size \in Nat, NEW offset \in Nat, NEW c \in Ciphers
  PROVE  LET r == Request(g, size, offset, c)
         IN /\ r \in Requests /\ r.storage = g /\ r.size = size /\ r.offset = offset
            /\ r.cipher = c
  BY DEF Request, Requests

\* Lemma: the layers, request by request.
LEMMA OverIs ==
  ASSUME NEW Below, NEW Cont, NEW Reads, NEW Conts, Over(Below, Cont, Reads, Conts)
  PROVE  /\ \A g \in Storages, size \in Nat, offset \in Nat, c \in Ciphers :
              Reads[Request(g, size, offset, c)] =
                 IF g.type \in {"Missing", "Regular"} THEN ReadBare[Request(g, size, offset, c)]
                 ELSE ReadStorage(Below, g, size, offset, c)
         /\ \A g \in Storages, v \in Nat : Conts[<<g, v>>] = Layered(Cont, g, v)
         /\ SeesSections(Reads, Conts)
  <1>1. \A r \in Requests : Reads[r] = ReadLayered(Below, r)
    BY DEF Over
  <1>2. ASSUME NEW g \in Storages, NEW v \in Nat PROVE Conts[<<g, v>>] = Layered(Cont, g, v)
    BY DEF Over
  <1>3. ASSUME NEW g \in Storages, NEW size \in Nat, NEW offset \in Nat, NEW c \in Ciphers
        PROVE  Reads[Request(g, size, offset, c)] =
                 IF g.type \in {"Missing", "Regular"} THEN ReadBare[Request(g, size, offset, c)]
                 ELSE ReadStorage(Below, g, size, offset, c)
    <2> DEFINE r == Request(g, size, offset, c)
    <2>1. r \in Requests /\ r.storage = g /\ r.size = size /\ r.offset = offset /\ r.cipher = c
      BY RequestIs
    <2> HIDE DEF r
    <2>2. Reads[r] = IF r.storage.type \in {"Missing", "Regular"} THEN ReadBare[r]
                     ELSE ReadStorage(Below, r.storage, r.size, r.offset, r.cipher)
      BY <1>1, <2>1 DEF ReadLayered
    <2>3. Reads[r] = IF g.type \in {"Missing", "Regular"} THEN ReadBare[r]
                     ELSE ReadStorage(Below, g, size, offset, c)
      BY <2>1, <2>2, Zenon
    <2> QED BY <2>3 DEF r
  <1>4. SeesSections(Reads, Conts)
    <2>1. ASSUME NEW r \in Requests, r.storage.type \in {"Missing", "Regular"}
          PROVE  Reads[r] = ReadBare[r]
      BY <1>1, <2>1 DEF ReadLayered
    <2>2. ASSUME NEW g \in Storages, NEW v \in Nat, g.type \in {"Missing", "Regular"}
          PROVE  Conts[<<g, v>>] = Bare[<<g, v>>]
      BY <1>2, <2>2 DEF Layered
    <2> QED BY <2>1, <2>2 DEF SeesSections
  <1> QED BY <1>2, <1>3, <1>4

\* Lemma: the sections and the layers over one are storages.
LEMMA StoragesAre ==
  ASSUME NEW s \in DOMAIN Sections, NEW base \in DOMAIN Sections \cup {None}
  PROVE  /\ Missing \in Storages /\ Regular(s) \in Storages /\ SparseOf(s) \in Storages
         /\ CtrExOf(s) \in Storages /\ UncompressedOf(s, base) \in Storages
         /\ StorageOf(s, base) \in Storages /\ OriginalOf(base) \in Storages
  <1>1. Missing \in Storages
    BY DEF Storages
  <1>2. ASSUME NEW u \in DOMAIN Sections, NEW b \in DOMAIN Sections \cup {None}
        PROVE  {Regular(u), SparseOf(u), CtrExOf(u), UncompressedOf(u, b), StorageOf(u, b)}
                  \subseteq Storages
    <2> DEFINE Through(x, y) == {Regular(x), SparseOf(x), CtrExOf(x), UncompressedOf(x, y), StorageOf(x, y)}
               All == {Through(x, y) : x \in DOMAIN Sections, y \in DOMAIN Sections \cup {None}}
    <2>1. Storages = {Missing} \cup UNION All
      BY DEF Storages
    <2> HIDE DEF Through
    <2>2. Through(u, b) \in All
      OBVIOUS
    <2>3. Through(u, b) \subseteq UNION All
      BY <2>2
    <2> HIDE DEF All
    <2> QED BY <2>1, <2>3 DEF Through
  <1>3. /\ Regular(s) \in Storages /\ SparseOf(s) \in Storages /\ CtrExOf(s) \in Storages
        /\ UncompressedOf(s, base) \in Storages /\ StorageOf(s, base) \in Storages
    BY <1>2, Zenon
  <1>4. OriginalOf(base) \in Storages
    <2>1. CASE base = None
      BY <1>1, <2>1 DEF OriginalOf
    <2>2. CASE base # None
      <3>1. base \in DOMAIN Sections
        BY <2>2
      <3>2. Regular(base) \in Storages /\ SparseOf(base) \in Storages
        BY <1>2, <3>1, Zenon
      <3> QED BY <2>2, <3>2 DEF OriginalOf
    <2> QED BY <2>1, <2>2
  <1> QED BY <1>1, <1>3, <1>4

\* As many cells of two functions are the same, from one number on in each.
SameCells(F, a, b, G, d, e) ==
  /\ a \in Nat /\ b \in Nat /\ d \in Nat /\ e \in Nat /\ a <= b /\ b - a = e - d
  /\ \A k \in Nat : k < b - a => F[a + k] = G[d + k]

\* Lemma: two rows of as many cells, one after the other the same.
LEMMA RowsEqual ==
  ASSUME NEW F, NEW G, NEW a, NEW b, NEW d, NEW e, SameCells(F, a, b, G, d, e)
  PROVE  Row(F, a, b) = Row(G, d, e)
  <1> USE DEF SameCells
  <1>1. \A j \in 1..(b - a) : F[a + j - 1] = G[d + j - 1]
    <2> TAKE j \in 1..(b - a)
    <2> DEFINE k == j - 1
    <2>1. k \in Nat /\ k < b - a /\ a + j - 1 = a + k /\ d + j - 1 = d + k
      OBVIOUS
    <2> HIDE DEF k
    <2> QED BY <2>1
  <1>2. Row(F, a, b) = [j \in 1..(b - a) |-> F[a + j - 1]]
    BY DEF Row
  <1>3. Row(G, d, e) = [j \in 1..(b - a) |-> G[d + j - 1]]
    BY DEF Row
  <1> QED BY <1>1, <1>2, <1>3

-----------------------------------------------------------------------------
\* What is read of a section alone

\* Lemma: a cell of a section is not an absent one.
LEMMA PlainIsThere ==
  ASSUME NEW s, NEW from \in Nat, NEW to \in Nat
  PROVE  AllThere(PlainOf(s), from, to)
  <1>1. ASSUME NEW v \in Nat PROVE PlainOf(s)[v] # Absent
    <2>1. PlainOf(s)[v] = <<s, v>>
      BY DEF PlainOf
    <2>2. <<s, v>> # <<"absent">>
      <3>1. Len(<<s, v>>) = 2 /\ Len(<<"absent">>) = 1
        OBVIOUS
      <3> QED BY <3>1
    <2> QED BY <2>1, <2>2 DEF Absent
  <1> QED BY <1>1 DEF AllThere

\* Lemma: the contexts a read hands down and leaves are contexts.
LEMMA CiphersAre ==
  ASSUME NEW s, NEW c \in Ciphers, NEW g, NEW at \in Nat
  PROVE  /\ ForgetVirtual(s, c) \in Ciphers /\ ForgetVirtual(s, c).unreadable = c.unreadable
         /\ ForgetVirtual(s, c).virtual = IF Sections[s].sparse # None THEN 0 ELSE c.virtual
         /\ WithVirtual(g, at, c) \in Ciphers /\ WithVirtual(g, at, c).unreadable = c.unreadable
         /\ WithVirtual(g, at, c).virtual = IF g.type = "Sparse" /\ at # 0 THEN at ELSE c.virtual
         /\ g.type # "Sparse" => WithVirtual(g, at, c) = c
  BY DEF ForgetVirtual, WithVirtual, Ciphers

\* Lemma: what a read of a section that succeeds returns is its plaintext.
LEMMA SectionReturns ==
  ASSUME NEW s \in DOMAIN Sections, Sections[s].ctrEx = None,
         NEW from \in Nat, NEW to \in Nat, from < to, to <= Sections[s].size,
         NEW c \in Ciphers, Sections[s].sparse # None \/ c.virtual = 0,
         EncryptedFrom(s, from, to - from, CounterFrom(s, from, c))
  PROVE  Returns(ReadSection(s, to - from, from, c), PlainOf(s), from, to, c)
  <1> DEFINE keyed == [c EXCEPT !.generation = HeaderGeneration]
             size == to - from
             left == ForgetVirtual(s, c)
  <1>1. size \in Nat \ {0} /\ from + size = to
    OBVIOUS
  <1>8. ~ (from + size > Sections[s].size)
    <2>1. Sections[s].size \in Nat
      BY SectionFacts
    <2> HIDE DEF size
    <2> QED BY <1>1, <2>1
  <1>2. keyed.generation = HeaderGeneration /\ keyed.virtual = c.virtual
    BY DEF Ciphers
  <1>3. CounterFrom(s, from, keyed) = CounterFrom(s, from, c)
    <2> HIDE DEF keyed
    <2> QED BY <1>2 DEF CounterFrom
  <1>4. ReadSection(s, size, from, c) = IF from + size > Sections[s].size THEN Failed(c)
                                        ELSE IF s \in c.unreadable THEN Failed(left)
                                        ELSE Done(ReadPasses(s, size, from, keyed), left)
    BY DEF ReadSection
  <1>5. left \in Ciphers /\ left.unreadable = c.unreadable /\ left.virtual = 0
    BY CiphersAre
  <1> HIDE DEF keyed, size, left
  <1>6. CASE s \in c.unreadable
    <2>1. ReadSection(s, size, from, c) = Failed(left)
      BY <1>4, <1>6, <1>8, Zenon
    <2>2. c.unreadable # {}
      BY <1>6
    <2>3. Returns(Failed(left), PlainOf(s), from, to, c)
      BY <1>5, <2>2, FailureReturns
    <2> QED BY <2>1, <2>3 DEF size
  <1>7. CASE s \notin c.unreadable
    <2>1. ReadSection(s, size, from, c) = Done(ReadPasses(s, size, from, keyed), left)
      BY <1>4, <1>7, <1>8, Zenon
    <2>2. ReadPasses(s, size, from, keyed) = Row(PlainOf(s), from, to)
      <3>1. EncryptedFrom(s, from, size, CounterFrom(s, from, keyed))
        BY <1>3 DEF size
      <3>2. ReadPasses(s, size, from, keyed) = Row(PlainOf(s), from, from + size)
        BY <1>1, <1>2, <3>1, ReadPassesIs
      <3> QED BY <1>1, <3>2
    <2> DEFINE data == ReadPasses(s, size, from, keyed)
    <2>3. /\ IsResult(Done(data, left)) /\ Done(data, left).ok = TRUE
          /\ Done(data, left).data = data /\ Done(data, left).cipher = left
      BY <1>5, DoneIs
    <2>4. AllThere(PlainOf(s), from, to)
      BY PlainIsThere
    <2> HIDE DEF data
    <2>5. Returns(Done(data, left), PlainOf(s), from, to, c)
      BY <1>5, <2>2, <2>3, <2>4 DEF Returns, data
    <2> QED BY <2>1, <2>5 DEF data, size
  <1> QED BY <1>6, <1>7

\* Lemma: any request to a section, or to the one that is missing, is answered.
LEMMA BareAnswers ==
  ASSUME NEW s \in DOMAIN Sections
  PROVE  Answers(ReadBare, Regular(s))
  <1>0. Regular(s) \in Storages
    <2>1. None \in DOMAIN Sections \cup {None}
      OBVIOUS
    <2> QED BY <2>1, StoragesAre
  <1>1. ASSUME NEW size \in Nat, NEW offset \in Nat, NEW c \in Ciphers
        PROVE  /\ IsResult(ReadBare[Request(Regular(s), size, offset, c)])
               /\ c.virtual = 0 =>
                     ReadBare[Request(Regular(s), size, offset, c)].cipher.virtual = 0
    <2> DEFINE r == Request(Regular(s), size, offset, c)
               left == ForgetVirtual(s, c)
    <2>1. ReadBare[r] = ReadSection(s, size, offset, c)
      <3>1. /\ r \in Requests /\ r.storage = Regular(s) /\ r.size = size /\ r.offset = offset
            /\ r.cipher = c
        BY <1>0, RequestIs
      <3>2. Regular(s).type = "Regular" /\ Regular(s).section = s
        BY DEF Regular
      <3> HIDE DEF r
      <3> QED BY <3>1, <3>2 DEF ReadBare
    <2>3. left \in Ciphers /\ (c.virtual = 0 => left.virtual = 0)
      BY CiphersAre
    <2> HIDE DEF r, left
    <2>4. /\ IsResult(Failed(c)) /\ IsResult(Failed(left))
          /\ Failed(c).cipher = c /\ Failed(left).cipher = left
          /\ \A data : IsResult(Done(data, left)) /\ Done(data, left).cipher = left
      <3>1. left \in Ciphers
        BY <2>3
      <3>2. /\ IsResult(Failed(c)) /\ IsResult(Failed(left))
            /\ Failed(c).cipher = c /\ Failed(left).cipher = left
        BY <3>1, FailedIs, Zenon
      <3>3. \A data : IsResult(Done(data, left)) /\ Done(data, left).cipher = left
        BY <3>1, DoneIs, Zenon
      <3> QED BY <3>2, <3>3, Zenon
    <2>5. \/ ReadBare[r] = Failed(c) \/ ReadBare[r] = Failed(left)
          \/ \E data : ReadBare[r] = Done(data, left)
      BY <2>1 DEF ReadSection, left
    <2>6. IsResult(ReadBare[r])
      BY <2>4, <2>5
    <2>7. c.virtual = 0 => ReadBare[r].cipher.virtual = 0
      BY <2>3, <2>4, <2>5
    <2> QED BY <2>6, <2>7 DEF r
  <1> QED BY <1>1 DEF Answers

\* Lemma: the storage that is missing has nothing to read.
LEMMA MissingIsRight == IsRight(ReadBare, Bare, Missing)
  <1>0. Missing \in Storages
    BY DEF Storages
  <1>1. ASSUME NEW size \in Nat, NEW offset \in Nat, NEW c \in Ciphers
        PROVE  ReadBare[Request(Missing, size, offset, c)] = Failed(c)
    <2> DEFINE m == Request(Missing, size, offset, c)
    <2>1. m \in Requests /\ m.storage = Missing /\ m.cipher = c
      BY <1>0, RequestIs
    <2>2. Missing.type = "Missing"
      BY DEF Missing
    <2> HIDE DEF m
    <2>3. ReadBare[m] = Failed(c)
      BY <2>1, <2>2 DEF ReadBare
    <2> QED BY <2>3 DEF m
  <1>2. Answers(ReadBare, Missing)
    BY <1>1, FailedIs DEF Answers
  <1>3. ASSUME NEW from \in Nat, NEW to \in Nat, NEW c \in Ciphers, from < to, c.virtual = 0
        PROVE  Returns(ReadBare[Request(Missing, to - from, from, c)], CellsOf(Bare, Missing), from, to, c)
    <2>1. ~ AllThere(CellsOf(Bare, Missing), from, to)
      <3>1. Bare[<<Missing, from>>] = Absent
        <4>1. <<Missing, from>> \in Storages \X Nat
          BY <1>0
        <4>2. Missing.type = "Missing"
          BY DEF Missing
        <4> QED BY <4>1, <4>2 DEF Bare
      <3>2. CellsOf(Bare, Missing)[from] = Absent
        BY <3>1 DEF CellsOf
      <3> QED BY <1>3, <3>2 DEF AllThere
    <2>2. Returns(Failed(c), CellsOf(Bare, Missing), from, to, c)
      BY <1>3, <2>1, FailureReturns
    <2>3. to - from \in Nat
      BY <1>3
    <2> QED BY <1>1, <2>2, <2>3
  <1>4. ReturnsWithin(ReadBare, Bare, Missing)
    BY <1>3 DEF ReturnsWithin
  <1> QED BY <1>2, <1>4 DEF IsRight

\* Lemma: a section without layers of its own is read as it is.
LEMMA RegularIsRight ==
  ASSUME NEW s \in DOMAIN Sections, Sections[s].ctrEx = None, Sections[s].sparse = None
  PROVE  IsRight(ReadBare, Bare, Regular(s))
  <1>0. Regular(s) \in Storages /\ Regular(s).type = "Regular" /\ Regular(s).section = s
    <2>1. None \in DOMAIN Sections \cup {None}
      OBVIOUS
    <2>2. Regular(s) \in Storages
      BY <2>1, StoragesAre
    <2> QED BY <2>2 DEF Regular
  <1>1. ASSUME NEW from \in Nat, NEW to \in Nat, NEW c \in Ciphers, from < to,
               to <= Sections[s].size, c.virtual = 0
        PROVE  Returns(ReadBare[Request(Regular(s), to - from, from, c)], CellsOf(Bare, Regular(s)),
                       from, to, c)
    <2> DEFINE size == to - from
               r == Request(Regular(s), size, from, c)
    <2>1. size \in Nat
      BY <1>1
    <2> HIDE DEF size
    <2>2. ReadBare[r] = ReadSection(s, size, from, c)
      <3>1. /\ r \in Requests /\ r.storage = Regular(s) /\ r.size = size /\ r.offset = from
            /\ r.cipher = c
        BY <1>0, <2>1, RequestIs
      <3> HIDE DEF r
      <3> QED BY <1>0, <3>1 DEF ReadBare
    <2>3. CellsOf(Bare, Regular(s)) = PlainOf(s)
      <3>1. \A v \in Nat : Bare[<<Regular(s), v>>] = <<s, v>>
        BY <1>0 DEF Bare
      <3> QED BY <3>1 DEF CellsOf, PlainOf
    <2>4. EncryptedFrom(s, from, size, CounterFrom(s, from, c))
      <3>1. CounterFrom(s, from, c) = from
        BY DEF CounterFrom
      <3>2. \A k \in Nat : EncryptedAt(s, from + k) = from + k
        BY DEF EncryptedAt
      <3> QED BY <3>1, <3>2 DEF EncryptedFrom
    <2>5. Returns(ReadSection(s, size, from, c), PlainOf(s), from, to, c)
      BY <1>1, <2>4, SectionReturns DEF size
    <2> QED BY <2>2, <2>3, <2>5 DEF size
  <1>2. ReturnsWithin(ReadBare, Bare, Regular(s))
    BY <1>0, <1>1 DEF ReturnsWithin, EndOf
  <1> QED BY <1>2, BareAnswers DEF IsRight

\* Lemma: a storage with a table is read right, when each iteration reads its entry right.
LEMMA TreeIsRight ==
  ASSUME NEW Below, NEW Cont, NEW Reads, NEW Conts, Over(Below, Cont, Reads, Conts),
         NEW g \in Storages, g.type \notin {"Missing", "Regular"}, EndOf(g) = g.tree.end,
         IsTree(g.tree), PiecesAreResults(Below, g), PiecesReturn(Below, g, CellsOf(Conts, g))
  PROVE  IsRight(Reads, Conts, g)
  <1>1. g.tree.end \in Nat
    BY DEF IsTree
  <1>2. ASSUME NEW size \in Nat, NEW offset \in Nat, NEW c \in Ciphers
        PROVE  /\ offset + size <= g.tree.end /\ size # 0 =>
                     Reads[Request(g, size, offset, c)] = ReadPieces(Below, g, size, offset, c)
               /\ ~ (offset + size <= g.tree.end /\ size # 0) =>
                     Reads[Request(g, size, offset, c)] = Failed(c)
    <2>1. Reads[Request(g, size, offset, c)] = ReadStorage(Below, g, size, offset, c)
      BY OverIs
    <2>2. size > g.tree.end - offset <=> ~ (offset + size <= g.tree.end)
      BY <1>1
    <2> QED BY <2>1, <2>2, Zenon DEF ReadStorage
  <1>3. ASSUME NEW size \in Nat, NEW offset \in Nat, NEW c \in Ciphers,
               offset + size <= g.tree.end, size # 0
        PROVE  /\ IsResult(Reads[Request(g, size, offset, c)])
               /\ c.virtual = 0 => Returns(Reads[Request(g, size, offset, c)], CellsOf(Conts, g),
                                           offset, offset + size, c)
    BY <1>2, <1>3, PiecesAddUp
  <1>4. Answers(Reads, g)
    <2>1. ASSUME NEW size \in Nat, NEW offset \in Nat, NEW c \in Ciphers
          PROVE  /\ IsResult(Reads[Request(g, size, offset, c)])
                 /\ c.virtual = 0 => Reads[Request(g, size, offset, c)].cipher.virtual = 0
      <3>1. CASE offset + size <= g.tree.end /\ size # 0
        BY <1>3, <3>1 DEF Returns
      <3>2. CASE ~ (offset + size <= g.tree.end /\ size # 0)
        <4>1. Reads[Request(g, size, offset, c)] = Failed(c)
          BY <1>2, <3>2
        <4> QED BY <4>1, FailedIs
      <3> QED BY <3>1, <3>2
    <2> QED BY <2>1 DEF Answers
  <1>5. ReturnsWithin(Reads, Conts, g)
    <2>1. ASSUME NEW from \in Nat, NEW to \in Nat, NEW c \in Ciphers, from < to, to <= g.tree.end,
                 c.virtual = 0
          PROVE  Returns(Reads[Request(g, to - from, from, c)], CellsOf(Conts, g), from, to, c)
      <3> DEFINE size == to - from
      <3>1. size \in Nat /\ size # 0 /\ from + size = to
        BY <2>1
      <3> HIDE DEF size
      <3>2. Returns(Reads[Request(g, size, from, c)], CellsOf(Conts, g), from, from + size, c)
        BY <1>3, <2>1, <3>1
      <3> QED BY <3>1, <3>2 DEF size
    <2> QED BY <2>1 DEF ReturnsWithin
  <1> QED BY <1>4, <1>5 DEF IsRight

\* Lemma: a section, or the one that is missing, is read by every layer as it is.
LEMMA BareStaysRight ==
  ASSUME NEW Reads, NEW Conts, SeesSections(Reads, Conts),
         NEW g \in Storages, g.type \in {"Missing", "Regular"}
  PROVE  /\ Answers(ReadBare, g) => Answers(Reads, g)
         /\ IsRight(ReadBare, Bare, g) => IsRight(Reads, Conts, g)
         /\ CellsOf(Conts, g) = CellsOf(Bare, g)
  <1>1. ASSUME NEW size \in Nat, NEW offset \in Nat, NEW c \in Ciphers
        PROVE  Reads[Request(g, size, offset, c)] = ReadBare[Request(g, size, offset, c)]
    <2> DEFINE r == Request(g, size, offset, c)
    <2>1. r \in Requests /\ r.storage = g
      BY RequestIs
    <2> HIDE DEF r
    <2>2. Reads[r] = ReadBare[r]
      BY <2>1 DEF SeesSections
    <2> QED BY <2>2 DEF r
  <1>2. \A v \in Nat : Conts[<<g, v>>] = Bare[<<g, v>>]
    BY DEF SeesSections
  <1>3. CellsOf(Conts, g) = CellsOf(Bare, g)
    BY <1>2 DEF CellsOf
  <1>4. Answers(ReadBare, g) => Answers(Reads, g)
    BY <1>1 DEF Answers
  <1>5. ReturnsWithin(ReadBare, Bare, g) => ReturnsWithin(Reads, Conts, g)
    <2> SUFFICES ASSUME ReturnsWithin(ReadBare, Bare, g), NEW from \in Nat, NEW to \in Nat,
                        NEW c \in Ciphers, from < to, g.type = "Missing" \/ to <= EndOf(g),
                        c.virtual = 0
                 PROVE  Returns(Reads[Request(g, to - from, from, c)], CellsOf(Conts, g), from, to, c)
      BY DEF ReturnsWithin
    <2>1. to - from \in Nat
      OBVIOUS
    <2>2. Reads[Request(g, to - from, from, c)] = ReadBare[Request(g, to - from, from, c)]
      BY <1>1, <2>1
    <2>3. Returns(ReadBare[Request(g, to - from, from, c)], CellsOf(Bare, g), from, to, c)
      BY DEF ReturnsWithin
    <2> QED BY <1>3, <2>2, <2>3
  <1> QED BY <1>3, <1>4, <1>5 DEF IsRight

\* What is known of the entry at a place and of the cells it covers
\* Lemma: the entry that covers a cell of an entry's extents is that entry.
LEMMA EntryOfExtents ==
  ASSUME NEW tree, IsTree(tree), NEW p \in Places(tree), NEW v \in Nat,
         Visited(tree, p).virtual <= v, v < Extents(tree, p).next
  PROVE  v < tree.end /\ EntryAt(tree, v) = Visited(tree, p)
  <1> DEFINE x == Extents(tree, p)
  <1>1. /\ x.entry = Visited(tree, p) /\ x.next \in Nat /\ x.next <= tree.end
        /\ \A u \in Nat : u < tree.end =>
              (Covers(tree, p, u) <=> x.entry.virtual <= u /\ u < x.next)
    BY ExtentsAreCovered
  <1>2. v < tree.end
    <2>1. tree.end \in Nat
      BY DEF IsTree
    <2> HIDE DEF x
    <2>2. v < x.next
      BY DEF x
    <2> QED BY <1>1, <2>1, <2>2
  <1> HIDE DEF x
  <1>3. Covers(tree, p, v)
    BY <1>1, <1>2 DEF x
  <1>4. Covers(tree, PlaceAt(tree, v), v)
    BY PlaceAtIs
  <1>5. PlaceAt(tree, v) = p
    BY <1>3, <1>4, OneCovers
  <1> QED BY <1>2, <1>5 DEF EntryAt

-----------------------------------------------------------------------------
\* What an iteration makes of the read below it

\* Lemma: the parts of a storage with a table.
LEMMA StorageIs ==
  ASSUME NEW type, NEW s, NEW tree, NEW sub, NEW g, g = Storage(type, s, tree, <<sub>>)
  PROVE  /\ g.type = type /\ g.section = s /\ g.tree = tree /\ g.subs[1] = sub
  BY DEF Storage

\* Lemma: what a layer makes of no cell.
LEMMA MadeOfNone ==
  ASSUME NEW g, NEW e, NEW v
  PROVE  MadeOf({}, g, e, v) = Zero
  BY DEF MadeOf

\* One cell, and no other
Only(S, x) == S = {x}

\* Lemma: what a layer makes of one cell.
LEMMA MadeOfOne ==
  ASSUME NEW g, NEW e, NEW v, NEW S, NEW x, Only(S, x), ~ (g.type = "Compressed" /\ e.kind = "lz4")
  PROVE  MadeOf(S, g, e, v) = x
  <1>1. S = {x}
    BY DEF Only
  <1>2. CASE x = Absent
    BY <1>1, <1>2 DEF MadeOf
  <1>3. CASE x # Absent
    <2>1. Absent \notin S /\ S # {}
      BY <1>1, <1>3
    <2>2. MadeOf(S, g, e, v) = CHOOSE y \in S : TRUE
      BY <2>1, Zenon DEF MadeOf
    <2>3. (CHOOSE y \in S : TRUE) \in S
      BY <2>1
    <2> QED BY <1>1, <2>2, <2>3
  <1> QED BY <1>2, <1>3

\* Lemma: a result with other data.
LEMMA DataReplaced ==
  ASSUME NEW r, IsResult(r), NEW data
  PROVE  [r EXCEPT !.data = data] = Result(r.ok, data, r.cipher)
  <1>1. PICK ok \in BOOLEAN : \E d : \E c \in Ciphers : r = Result(ok, d, c)
    BY Zenon DEF IsResult
  <1>2. PICK d, c : c \in Ciphers /\ r = Result(ok, d, c)
    BY <1>1
  <1> QED BY <1>2 DEF Result

\* Lemma: what a read returns of cells that are the same in another place.
LEMMA ReturnsMoved ==
  ASSUME NEW F, NEW G, NEW a, NEW b, NEW d, NEW e, SameCells(F, a, b, G, d, e),
         NEW r, NEW c, NEW c2, Returns(r, G, d, e, c2), c2.unreadable = c.unreadable
  PROVE  Returns(r, F, a, b, c)
  <1>1. Row(F, a, b) = Row(G, d, e)
    BY RowsEqual
  <1>2. AllThere(F, a, b) <=> AllThere(G, d, e)
    <2> USE DEF SameCells
    <2>1. ASSUME AllThere(F, a, b), NEW v \in Nat, d <= v, v < e PROVE G[v] # Absent
      <3> DEFINE k == v - d
      <3>1. k \in Nat /\ k < b - a /\ d + k = v /\ a + k \in Nat /\ a <= a + k /\ a + k < b
        BY <2>1
      <3> HIDE DEF k
      <3> QED BY <2>1, <3>1 DEF AllThere
    <2>2. ASSUME AllThere(G, d, e), NEW v \in Nat, a <= v, v < b PROVE F[v] # Absent
      <3> DEFINE k == v - a
      <3>1. k \in Nat /\ k < b - a /\ a + k = v /\ d + k \in Nat /\ d <= d + k /\ d + k < e
        BY <2>2
      <3> HIDE DEF k
      <3> QED BY <2>2, <3>1 DEF AllThere
    <2> QED BY <2>1, <2>2 DEF AllThere
  <1> QED BY <1>1, <1>2 DEF Returns

\* Lemma: a read of cells nothing is stored of.
LEMMA ZerosReturn ==
  ASSUME NEW F, NEW a \in Nat, NEW b \in Nat, a < b, \A v \in Nat : a <= v /\ v < b => F[v] = Zero,
         NEW c \in Ciphers, c.virtual = 0
  PROVE  Returns(Done([j \in 1..(b - a) |-> Zero], c), F, a, b, c)
  <1> DEFINE zeros == [j \in 1..(b - a) |-> Zero]
  <1>1. zeros = Row(F, a, b)
    <2>1. \A j \in 1..(b - a) : F[a + j - 1] = Zero
      <3> TAKE j \in 1..(b - a)
      <3> DEFINE v == a + j - 1
      <3>1. v \in Nat /\ a <= v /\ v < b
        OBVIOUS
      <3> HIDE DEF v
      <3>2. F[v] = Zero
        BY <3>1
      <3> QED BY <3>2 DEF v
    <2> QED BY <2>1 DEF Row
  <1>2. AllThere(F, a, b)
    <2>1. Zero # Absent
      BY DEF Zero, Absent
    <2> QED BY <2>1 DEF AllThere
  <1> HIDE DEF zeros
  <1>3. IsResult(Done(zeros, c)) /\ Done(zeros, c).ok = TRUE /\ Done(zeros, c).data = zeros
        /\ Done(zeros, c).cipher = c
    BY DoneIs
  <1>4. Returns(Done(zeros, c), F, a, b, c)
    BY <1>1, <1>2, <1>3 DEF Returns
  <1> QED BY <1>4 DEF zeros

\* So many cells of zeros
Zeros(n) == [j \in 1..n |-> Zero]

\* An iteration asks the storage below for as many cells, and r is what it is told.
Replied(Below, g, e, n, at, c, size, r) ==
  \E sub, offset :
     /\ Source(g, e, n, at) = [sub |-> sub, offset |-> offset, size |-> size]
     /\ r = Below[Request(sub, size, offset, WithVirtual(g, at, c))]

\* Lemma: an iteration that reads nothing below, one that returns what it reads, and one that cuts
\* what it returns out of it.
LEMMA PiecesAre ==
  ASSUME NEW Below, NEW g, g.type # "AesCtrEx", NEW x, NEW n, NEW at, NEW c, NEW size, NEW r,
         Replied(Below, g, x.entry, n, at, c, size, r)
  PROVE  /\ size = 0 => ReadPiece(Below, g, x, n, at, c) = Done(Zeros(n), c)
         /\ size # 0 /\ IsResult(r) /\ ~ (g.type = "Compressed" /\ x.entry.kind = "lz4")
               => ReadPiece(Below, g, x, n, at, c) = r
         /\ size # 0 /\ IsResult(r) /\ g.type = "Compressed" /\ x.entry.kind = "lz4"
               => ReadPiece(Below, g, x, n, at, c) = Result(r.ok, Cut(g, x, n, at, r.data), r.cipher)
  <1> DEFINE packed == g.type = "Compressed" /\ x.entry.kind = "lz4"
             cut == Cut(g, x, n, at, r.data)
             piece == ReadPiece(Below, g, x, n, at, c)
             source == Source(g, x.entry, n, at)
             zeros == Done(Zeros(n), c)
  <1>1. /\ source.size = size
        /\ Below[Request(source.sub, source.size, source.offset, WithVirtual(g, at, c))] = r
    <2>1. PICK sub, offset :
                /\ source = [sub |-> sub, offset |-> offset, size |-> size]
                /\ r = Below[Request(sub, size, offset, WithVirtual(g, at, c))]
      BY Zenon DEF Replied
    <2> HIDE DEF source
    <2>2. source.size = size /\ source.sub = sub /\ source.offset = offset
      BY <2>1
    <2> QED BY <2>1, <2>2, Zenon
  <1> HIDE DEF source
  <1>2. piece = IF source.size = 0 THEN zeros
                ELSE [Below[Request(source.sub, source.size, source.offset, WithVirtual(g, at, c))]
                         EXCEPT !.data = IF packed THEN Cut(g, x, n, at, @) ELSE @]
    BY DEF ReadPiece, source, Zeros
  <1>3. size = 0 => piece = zeros
    BY <1>1, <1>2
  <1>4. size # 0 => piece = [r EXCEPT !.data = IF packed THEN cut ELSE r.data]
    BY <1>1, <1>2
  <1> HIDE DEF piece, cut, packed, zeros
  <1>5. ASSUME size # 0, IsResult(r)
        PROVE  (~ packed => piece = r) /\ (packed => piece = Result(r.ok, cut, r.cipher))
    <2>1. piece = Result(r.ok, IF packed THEN cut ELSE r.data, r.cipher)
      BY <1>4, <1>5, DataReplaced
    <2>2. r = Result(r.ok, r.data, r.cipher)
      BY <1>5, ResultHas
    <2>3. CASE packed
      BY <2>1, <2>3
    <2>4. CASE ~ packed
      BY <2>1, <2>2, <2>4
    <2> QED BY <2>3, <2>4
  <1> QED BY <1>3, <1>5, Zenon DEF piece, cut, packed, zeros

-----------------------------------------------------------------------------
\* The sparse layer

\* Where an entry of a table has an offset.
PlaceIn(e, v) == v - e.virtual + e.physical

\* An entry of a table covers the offsets from one up to another.
CoversPart(tree, p, from, to) ==
  /\ p \in Places(tree) /\ from \in Nat /\ to \in Nat /\ from < to
  /\ Visited(tree, p).virtual <= from /\ to <= Extents(tree, p).next

\* Lemma: a sparse layer stores the offsets of an entry with the counters of these offsets.
LEMMA StoredFrom ==
  ASSUME NEW s \in DOMAIN Sections, Sections[s].sparse # None, PointsInside(SparseOf(s)),
         NEW p, NEW from, NEW to, CoversPart(Sections[s].sparse, p, from, to),
         Visited(Sections[s].sparse, p).index = 0
  PROVE  LET held == PlaceIn(Visited(Sections[s].sparse, p), from)
         IN /\ held \in Nat /\ held + (to - from) <= Sections[s].size
            /\ EncryptedFrom(s, held, to - from, from)
            /\ from = 0 => held = 0
  <1> DEFINE tree == Sections[s].sparse
             e == Visited(tree, p)
             g == SparseOf(s)
             size == Sections[s].size
             hash == Sections[s].hash
             held == from - e.virtual + e.physical
  <1>0. /\ p \in Places(tree) /\ from \in Nat /\ to \in Nat /\ from < to
        /\ e.virtual <= from /\ to <= Extents(tree, p).next /\ e.index = 0
    BY DEF CoversPart
  <1>1. WellFormed(tree, Moves)
    BY SectionsAssumption
  <1>2. IsTree(tree) /\ e \in Moves
    BY <1>0, <1>1, TablesAreTrees
  <1>3. /\ e.virtual \in Nat /\ e.physical \in Nat /\ held \in Nat /\ tree.end \in Nat
        /\ size \in Nat /\ hash \in Nat
    BY <1>0, <1>2, SectionFacts DEF Moves, IsTree
  <1>4. /\ g.type = "Sparse" /\ g.section = s /\ g.tree = tree /\ g.subs[1] = Regular(s)
    BY DEF SparseOf, StorageIs, Storage
  <1>5. EndOf(Regular(s)) = size /\ Regular(s).type = "Regular"
    BY DEF EndOf, Regular
  <1> HIDE DEF g, size, hash
  <1>6. ASSUME NEW v \in Nat, from <= v, v < to
        PROVE  /\ v < tree.end /\ Stored(tree, v) /\ StoredAt(tree, v) = v - e.virtual + e.physical
               /\ v - e.virtual + e.physical < size
    <2>1. v < tree.end /\ EntryAt(tree, v) = e
      <3>1. e.virtual <= v /\ v < Extents(tree, p).next
        <4>1. Extents(tree, p).next \in Nat
          BY <1>0, <1>2, ExtentsAreCovered
        <4> QED BY <1>0, <1>3, <1>6, <4>1
      <3> QED BY <1>0, <1>2, <3>1, EntryOfExtents
    <2> DEFINE cell == v - e.virtual + e.physical
    <2>2. Held(g, e, v).in = Regular(s) /\ Held(g, e, v).cells = {cell}
      <3> DEFINE at == hash * (IF g.type = "Compressed" THEN 1 ELSE 0) + v - e.virtual + e.physical
      <3>1. at = cell
        BY <1>3, <1>4
      <3> HIDE DEF cell
      <3>2. Held(g, e, v) = [in |-> g.subs[1], cells |-> {at}]
        BY <1>0, <1>4 DEF Held, hash
      <3> QED BY <1>4, <3>1, <3>2
    <2>3. Held(g, EntryAt(tree, v), v).cells \subseteq 0..(size - 1)
      <3>1. v \in 0..(tree.end - 1)
        BY <1>3, <2>1
      <3>2. Held(g, EntryAt(g.tree, v), v).in.type = "Missing"
            \/ Held(g, EntryAt(g.tree, v), v).cells
                  \subseteq 0..(EndOf(Held(g, EntryAt(g.tree, v), v).in) - 1)
        BY <1>4, <3>1 DEF PointsInside, g
      <3> QED BY <1>4, <1>5, <2>1, <2>2, <3>2
    <2>4. cell < size
      <3> HIDE DEF cell
      <3>1. {cell} \subseteq 0..(size - 1)
        BY <2>1, <2>2, <2>3
      <3> QED BY <1>3, <3>1
    <2> QED BY <1>0, <2>1, <2>4 DEF Stored, StoredAt
  <1>7. held + (to - from) <= size
    <2> DEFINE v == to - 1
    <2>1. v \in Nat /\ from <= v /\ v < to
      BY <1>0
    <2>2. v - e.virtual + e.physical < size
      BY <1>6, <2>1
    <2> QED BY <1>0, <1>3, <2>2
  <1>8. \A u \in Nat, v \in Nat : u < tree.end /\ v < tree.end /\ Stored(tree, u) /\ Stored(tree, v)
                         /\ StoredAt(tree, u) = StoredAt(tree, v) => u = v
    <2>1. \A u, v \in 0..(tree.end - 1) :
             Stored(tree, u) /\ Stored(tree, v) /\ StoredAt(tree, u) = StoredAt(tree, v) => u = v
      BY SparseAssumption
    <2>2. \A v \in Nat : v < tree.end => v \in 0..(tree.end - 1)
      BY <1>3
    <2> QED BY <2>1, <2>2
  <1>9. \A v \in Nat : v < tree.end /\ Stored(tree, v) => StoredAt(tree, v) % Block = v % Block
    <2>1. \A v \in 0..(tree.end - 1) : Stored(tree, v) => StoredAt(tree, v) % Block = v % Block
      BY SparseAssumption
    <2>2. \A v \in Nat : v < tree.end => v \in 0..(tree.end - 1)
      BY <1>3
    <2> QED BY <2>1, <2>2
  <1>10. Stored(tree, 0) => StoredAt(tree, 0) = 0
    BY SparseAssumption
  <1>11. ASSUME NEW k \in Nat, k < to - from PROVE EncryptedAt(s, held + k) = from + k
    <2> DEFINE v == from + k
               cells == {u \in 0..(tree.end - 1) : Stored(tree, u) /\ StoredAt(tree, u) = held + k}
    <2>1. v \in Nat /\ from <= v /\ v < to /\ v - e.virtual + e.physical = held + k
      BY <1>0, <1>3, <1>11
    <2>2. v < tree.end /\ Stored(tree, v) /\ StoredAt(tree, v) = held + k
      BY <1>6, <2>1
    <2> HIDE DEF v
    <2>3. cells = {v}
      <3>1. v \in 0..(tree.end - 1)
        BY <1>3, <2>1, <2>2
      <3>2. \A u \in cells : u = v
        <4> TAKE u \in cells
        <4>1. u \in 0..(tree.end - 1) /\ Stored(tree, u) /\ StoredAt(tree, u) = held + k
          OBVIOUS
        <4>2. u \in Nat /\ u < tree.end
          BY <1>3, <4>1
        <4> QED BY <1>8, <2>1, <2>2, <4>1, <4>2
      <3>3. v \in cells
        BY <2>2, <3>1
      <3> HIDE DEF cells
      <3> QED BY <3>2, <3>3
    <2>4. EncryptedAt(s, held + k) = Min(cells)
      <3>1. EncryptedAt(s, held + k) = IF tree = None \/ cells = {} THEN held + k ELSE Min(cells)
        BY DEF EncryptedAt
      <3> HIDE DEF cells
      <3>2. cells # {}
        BY <2>3
      <3> QED BY <3>1, <3>2
    <2> HIDE DEF cells
    <2>5. Min({v}) = v
      <3>1. v \in Int /\ {v, v} = {v}
        BY <2>1
      <3>2. Min({v, v}) = v
        BY <3>1, TwoExtremes
      <3> QED BY <3>1, <3>2
    <2> QED BY <2>3, <2>4, <2>5 DEF v
  <1>12. from < tree.end /\ Stored(tree, from) /\ StoredAt(tree, from) = held
    <2>1. from \in Nat /\ from <= from /\ from < to
      BY <1>0
    <2> QED BY <1>6, <2>1
  <1> HIDE DEF held, e, tree
  <1>13. from % Block = held % Block
    BY <1>0, <1>9, <1>12
  <1>14. from = 0 => held = 0
    BY <1>10, <1>12
  <1>15. EncryptedFrom(s, held, to - from, from)
    BY <1>0, <1>11, <1>13 DEF EncryptedFrom
  <1> QED BY <1>3, <1>7, <1>14, <1>15 DEF size, PlaceIn, held, e, tree

\* Lemma: what bktrReadSparseStorage reads of an entry.
LEMMA SparsePiece ==
  ASSUME NEW s \in DOMAIN Sections, NEW Below, NEW Cont, SeesSections(Below, Cont),
         NEW x, NEW n \in Nat, NEW at \in Nat, NEW c \in Ciphers,
         x.entry \in Moves, x.entry.virtual <= at
  PROVE  /\ PlaceIn(x.entry, at) \in Nat /\ IsResult(ReadPiece(Below, SparseOf(s), x, n, at, c))
         /\ x.entry.index # 0 => ReadPiece(Below, SparseOf(s), x, n, at, c) = Done(Zeros(n), c)
         /\ x.entry.index = 0 /\ n # 0 =>
               ReadPiece(Below, SparseOf(s), x, n, at, c)
                  = ReadSection(s, n, PlaceIn(x.entry, at), WithVirtual(SparseOf(s), at, c))
  <1> DEFINE g == SparseOf(s)
             e == x.entry
             held == at - e.virtual + e.physical
             size == IF e.index = 0 THEN n ELSE 0
             handed == WithVirtual(g, at, c)
             piece == ReadPiece(Below, g, x, n, at, c)
             r == Below[Request(Regular(s), size, held, handed)]
  <1>1. /\ g.type = "Sparse" /\ g.section = s /\ g.subs[1] = Regular(s)
    BY DEF SparseOf, Storage
  <1>2. held \in Nat /\ size \in Nat
    BY DEF Moves
  <1>3. handed \in Ciphers
    BY CiphersAre
  <1>4. Regular(s) \in Storages /\ Regular(s).type = "Regular" /\ Regular(s).section = s
    <2>1. None \in DOMAIN Sections \cup {None}
      OBVIOUS
    <2>2. Regular(s) \in Storages
      BY <2>1, StoragesAre
    <2> QED BY <2>2 DEF Regular
  <1> HIDE DEF g, handed
  <1>5. Source(g, e, n, at) = [sub |-> Regular(s), offset |-> held, size |-> size]
    BY <1>1 DEF Source
  <1> HIDE DEF held, size, piece, r, e
  <1>6. r = ReadSection(s, size, held, handed) /\ IsResult(r)
    <2> DEFINE q == Request(Regular(s), size, held, handed)
    <2>1. /\ q \in Requests /\ q.storage = Regular(s) /\ q.size = size /\ q.offset = held
          /\ q.cipher = handed
      BY <1>2, <1>3, <1>4, RequestIs
    <2>2. IsResult(ReadBare[q])
      BY <1>2, <1>3, BareAnswers DEF Answers
    <2> HIDE DEF q
    <2>3. Below[q] = ReadBare[q]
      BY <1>4, <2>1 DEF SeesSections
    <2>4. ReadBare[q] = ReadSection(s, size, held, handed)
      BY <1>4, <2>1 DEF ReadBare
    <2> QED BY <2>2, <2>3, <2>4 DEF r, q
  <1>7. /\ size = 0 => piece = Done(Zeros(n), c)
        /\ size # 0 => piece = r
    <2>1. g.type # "AesCtrEx" /\ g.type # "Compressed"
      BY <1>1
    <2>2. Replied(Below, g, x.entry, n, at, c, size, r)
      BY <1>5, Zenon DEF e, r, handed, Replied
    <2>3. ~ (g.type = "Compressed" /\ x.entry.kind = "lz4")
      BY <2>1
    <2> QED BY <1>6, <2>1, <2>2, <2>3, PiecesAre DEF piece
  <1>8. IsResult(piece)
    BY <1>6, <1>7, DoneIs
  <1>9. (e.index # 0 => size = 0) /\ (e.index = 0 => size = n)
    BY DEF size
  <1> QED BY <1>2, <1>6, <1>7, <1>8, <1>9 DEF held, piece, r, g, e, handed, PlaceIn

\* Lemma: a sparse layer is read right.
LEMMA SparseIsRight ==
  ASSUME NEW s \in DOMAIN Sections, Sections[s].sparse # None, Sections[s].ctrEx = None,
         PointsInside(SparseOf(s)),
         NEW Below, NEW Cont, SeesSections(Below, Cont), NEW Reads, NEW Conts,
         Over(Below, Cont, Reads, Conts)
  PROVE  IsRight(Reads, Conts, SparseOf(s))
  <1> DEFINE g == SparseOf(s)
             tree == Sections[s].sparse
             F == CellsOf(Conts, g)
  <1>1. /\ g.type = "Sparse" /\ g.section = s /\ g.tree = tree /\ g.subs[1] = Regular(s)
        /\ EndOf(g) = tree.end
    BY DEF SparseOf, Storage, EndOf
  <1>2. g \in Storages /\ Regular(s) \in Storages
    <2>1. None \in DOMAIN Sections \cup {None}
      OBVIOUS
    <2> QED BY <2>1, StoragesAre
  <1>3. IsTree(tree) /\ \A p \in Places(tree) : Visited(tree, p) \in Moves
    <2>1. WellFormed(tree, Moves)
      BY SectionsAssumption
    <2> QED BY <2>1, TablesAreTrees
  <1> HIDE DEF g, tree, F
  <1>4. ASSUME NEW p \in Places(tree)
        PROVE  /\ Extents(tree, p).entry = Visited(tree, p) /\ Extents(tree, p).entry \in Moves
               /\ Extents(tree, p).next \in Nat /\ Visited(tree, p).virtual \in Nat
               /\ Visited(tree, p).physical \in Nat
    <2>1. /\ Extents(tree, p).entry = Visited(tree, p) /\ Extents(tree, p).next \in Nat
      BY <1>3, ExtentsAreCovered
    <2>2. Visited(tree, p) \in Moves
      BY <1>3
    <2> QED BY <2>1, <2>2 DEF Moves
  <1>5. PiecesAreResults(Below, g)
    <2>1. ASSUME NEW p \in Places(tree), NEW n \in Nat, NEW at \in Nat, NEW c \in Ciphers,
                 Visited(tree, p).virtual <= at
          PROVE  IsResult(ReadPiece(Below, g, Extents(tree, p), n, at, c))
      <3> DEFINE x == Extents(tree, p)
      <3>1. x.entry \in Moves /\ x.entry.virtual <= at
        BY <1>4, <2>1
      <3> HIDE DEF x
      <3>2. IsResult(ReadPiece(Below, SparseOf(s), x, n, at, c))
        BY <3>1, SparsePiece
      <3> QED BY <3>2 DEF g, x
    <2> QED BY <1>1, <2>1 DEF PiecesAreResults
  <1>6. ASSUME NEW p \in Places(tree), NEW from \in Nat, NEW to \in Nat, NEW c \in Ciphers,
               Visited(tree, p).virtual <= from, from < to, to <= Extents(tree, p).next,
               c.virtual = 0
        PROVE  Returns(ReadPiece(Below, g, Extents(tree, p), to - from, from, c), F, from, to, c)
    <2> DEFINE x == Extents(tree, p)
               e == Visited(tree, p)
               n == to - from
               held == from - e.virtual + e.physical
               piece == ReadPiece(Below, g, x, n, from, c)
               handed == WithVirtual(g, from, c)
    <2>1. x.entry = e /\ x.entry \in Moves /\ x.next \in Nat /\ e.virtual \in Nat /\ e.physical \in Nat
      BY <1>4
    <2>2. n \in Nat /\ n # 0 /\ e.virtual <= from /\ held \in Nat
      BY <1>6, <2>1
    <2>3. /\ e.index # 0 => piece = Done(Zeros(n), c)
          /\ e.index = 0 => piece = ReadSection(s, n, held, handed)
      <3> HIDE DEF x, e, n
      <3>1. /\ x.entry.index # 0 => ReadPiece(Below, SparseOf(s), x, n, from, c) = Done(Zeros(n), c)
            /\ x.entry.index = 0 /\ n # 0 =>
                  ReadPiece(Below, SparseOf(s), x, n, from, c)
                     = ReadSection(s, n, PlaceIn(x.entry, from), WithVirtual(SparseOf(s), from, c))
        <4>1. x.entry \in Moves /\ x.entry.virtual <= from /\ n \in Nat
          BY <2>1, <2>2
        <4> HIDE DEF held, piece, handed
        <4> QED BY <4>1, SparsePiece
      <3>2. PlaceIn(x.entry, from) = held
        BY <2>1 DEF PlaceIn
      <3> HIDE DEF held
      <3> QED BY <2>1, <2>2, <3>1, <3>2 DEF g
    <2>4. ASSUME NEW v \in Nat, from <= v, v < to
          PROVE  F[v] = IF e.index = 0 THEN <<s, v - e.virtual + e.physical>> ELSE Zero
      <3> DEFINE cell == v - e.virtual + e.physical
      <3>1. EntryAt(tree, v) = e
        <4>1. e.virtual <= v /\ v < x.next
          BY <1>6, <2>1, <2>4
        <4> QED BY <1>3, <4>1, EntryOfExtents
      <3>2. F[v] = HeldBy(Cont, g, e, v)
        <4>1. Conts[<<g, v>>] = Layered(Cont, g, v)
          BY <1>2, OverIs
        <4>2. Layered(Cont, g, v) = HeldBy(Cont, g, EntryAt(tree, v), v)
          BY <1>1 DEF Layered
        <4> QED BY <3>1, <4>1, <4>2 DEF F, CellsOf
      <3>3. cell \in Nat
        BY <2>1, <2>2, <2>4
      <3>4. Held(g, e, v).in = Regular(s) /\ Held(g, e, v).cells = IF e.index = 0 THEN {cell} ELSE {}
        <4> DEFINE hash == Sections[s].hash
                   at == hash * (IF g.type = "Compressed" THEN 1 ELSE 0) + v - e.virtual + e.physical
        <4>0. hash \in Nat
          BY SectionFacts
        <4>1. at = cell
          <5> HIDE DEF hash
          <5> QED BY <1>1, <2>1, <4>0
        <4> HIDE DEF cell
        <4>2. Held(g, e, v) = [in |-> g.subs[1], cells |-> IF e.index = 0 THEN {at} ELSE {}]
          BY <1>1 DEF Held
        <4> HIDE DEF at
        <4>3. Held(g, e, v).in = g.subs[1] /\ Held(g, e, v).cells = IF e.index = 0 THEN {at} ELSE {}
          BY <4>2
        <4> QED BY <1>1, <4>1, <4>3
      <3>5. \A q \in Nat : Cont[<<Regular(s), q>>] = <<s, q>>
        <4>1. Regular(s).type = "Regular" /\ Regular(s).section = s
          BY DEF Regular
        <4>2. \A q \in Nat : Cont[<<Regular(s), q>>] = Bare[<<Regular(s), q>>]
          BY <1>2, <4>1 DEF SeesSections
        <4>3. \A q \in Nat : Bare[<<Regular(s), q>>] = <<s, q>>
          BY <1>2, <4>1 DEF Bare
        <4> QED BY <4>2, <4>3
      <3> DEFINE below == {Cont[<<Held(g, e, v).in, q>>] : q \in Held(g, e, v).cells}
      <3>6. F[v] = MadeOf(below, g, e, v)
        BY <3>2 DEF HeldBy
      <3>7. CASE e.index = 0
        <4>1. below = {Cont[<<Regular(s), cell>>]}
          <5> HIDE DEF cell
          <5> QED BY <3>4, <3>7
        <4>2. below = {<<s, cell>>}
          BY <3>3, <3>5, <4>1
        <4> HIDE DEF below, cell
        <4>3. Only(below, <<s, cell>>)
          BY <4>2 DEF Only
        <4>4. ~ (g.type = "Compressed" /\ e.kind = "lz4")
          BY <1>1
        <4> HIDE DEF e
        <4>5. MadeOf(below, g, e, v) = <<s, cell>>
          BY <4>3, <4>4, MadeOfOne
        <4> QED BY <3>6, <3>7, <4>5 DEF cell, e
      <3>8. CASE e.index # 0
        <4>1. below = {}
          <5> HIDE DEF cell
          <5> QED BY <3>4, <3>8
        <4> HIDE DEF below
        <4>2. MadeOf({}, g, e, v) = Zero
          BY MadeOfNone
        <4> QED BY <3>6, <3>8, <4>1, <4>2
      <3> QED BY <3>7, <3>8
    <2>5. CASE e.index # 0
      <3>1. \A v \in Nat : from <= v /\ v < to => F[v] = Zero
        BY <2>4, <2>5
      <3>2. Returns(Done([j \in 1..(to - from) |-> Zero], c), F, from, to, c)
        BY <1>6, <3>1, ZerosReturn
      <3> QED BY <2>3, <2>5, <3>2 DEF Zeros
    <2>6. CASE e.index = 0
      <3>1. /\ held + n <= Sections[s].size /\ EncryptedFrom(s, held, n, from)
            /\ from = 0 => held = 0
        <4>1. CoversPart(Sections[s].sparse, p, from, to)
          BY <1>6 DEF CoversPart, tree
        <4>2. Visited(Sections[s].sparse, p).index = 0
          BY <2>6 DEF tree
        <4> DEFINE h == PlaceIn(Visited(Sections[s].sparse, p), from)
        <4>3. /\ h + (to - from) <= Sections[s].size
              /\ EncryptedFrom(s, h, to - from, from) /\ (from = 0 => h = 0)
          BY <4>1, <4>2, StoredFrom
        <4>4. h = held
          BY DEF PlaceIn, tree
        <4> HIDE DEF h, held
        <4> QED BY <4>3, <4>4
      <3>2. /\ handed \in Ciphers /\ handed.unreadable = c.unreadable
            /\ handed.virtual = IF from # 0 THEN from ELSE 0
        <4>1. /\ WithVirtual(g, from, c) \in Ciphers /\ WithVirtual(g, from, c).unreadable = c.unreadable
              /\ WithVirtual(g, from, c).virtual =
                    IF g.type = "Sparse" /\ from # 0 THEN from ELSE c.virtual
          BY CiphersAre
        <4> QED BY <1>1, <1>6, <4>1
      <3> HIDE DEF held, handed, n
      <3>3. CounterFrom(s, held, handed) = from
        <4>1. CounterFrom(s, held, handed) = IF handed.virtual # 0 THEN handed.virtual ELSE held
          BY DEF CounterFrom
        <4> QED BY <3>1, <3>2, <4>1
      <3> DEFINE end == held + n
      <3>4. end \in Nat /\ held < end /\ end <= Sections[s].size /\ end - held = n
        BY <2>2, <3>1
      <3> HIDE DEF end
      <3>5. Returns(ReadSection(s, end - held, held, handed), PlainOf(s), held, end, handed)
        <4>1. EncryptedFrom(s, held, end - held, CounterFrom(s, held, handed))
          BY <3>1, <3>3, <3>4
        <4> QED BY <2>2, <3>2, <3>4, <4>1, SectionReturns
      <3>6. SameCells(F, from, to, PlainOf(s), held, end)
        <4>1. ASSUME NEW k \in Nat, k < to - from PROVE F[from + k] = PlainOf(s)[held + k]
          <5> DEFINE v == from + k
          <5>1. v \in Nat /\ from <= v /\ v < to /\ v - e.virtual + e.physical = held + k
                /\ held + k \in Nat
            BY <2>1, <2>2, <4>1 DEF held
          <5> HIDE DEF v
          <5>2. F[v] = <<s, held + k>>
            BY <2>4, <2>6, <5>1
          <5> QED BY <5>1, <5>2 DEF v, PlainOf
        <4>2. to - from = end - held
          BY <3>4 DEF n
        <4> QED BY <1>6, <2>2, <3>4, <4>1, <4>2 DEF SameCells
      <3>7. Returns(ReadSection(s, end - held, held, handed), F, from, to, c)
        BY <3>2, <3>5, <3>6, ReturnsMoved
      <3> HIDE DEF piece
      <3>8. piece = ReadSection(s, end - held, held, handed)
        BY <2>3, <2>6, <3>4
      <3> QED BY <3>7, <3>8 DEF piece, n
    <2> QED BY <2>5, <2>6
  <1>7. PiecesReturn(Below, g, F)
    BY <1>1, <1>6 DEF PiecesReturn
  <1>8. IsRight(Reads, Conts, g)
    <2>1. g.type \notin {"Missing", "Regular"} /\ IsTree(g.tree) /\ EndOf(g) = g.tree.end
      BY <1>1, <1>3
    <2> QED BY <1>2, <1>5, <1>7, <2>1, TreeIsRight DEF F
  <1> QED BY <1>8 DEF g

-----------------------------------------------------------------------------
\* The layer of a patch with generations

\* Lemma: the cells of an entry of a table with generations were encrypted as the entry says.
LEMMA EntryIsKey ==
  ASSUME NEW s \in DOMAIN Sections, Sections[s].ctrEx # None,
         NEW p, NEW from, NEW to, CoversPart(Sections[s].ctrEx, p, from, to)
  PROVE  KeyedBy(s, from, to - from, Visited(Sections[s].ctrEx, p))
  <1> DEFINE tree == Sections[s].ctrEx
             e == Visited(tree, p)
             start == Sections[s].start
  <1>0. /\ p \in Places(tree) /\ from \in Nat /\ to \in Nat /\ from < to
        /\ e.virtual <= from /\ to <= Extents(tree, p).next
    BY DEF CoversPart
  <1>1. WellFormed(tree, Keys) /\ Sections[s].crypto = "ctr"
    BY SectionsAssumption
  <1>2. IsTree(tree) /\ e \in Keys
    BY <1>0, <1>1, TablesAreTrees
  <1>3. e.virtual \in Nat /\ tree.end \in Nat /\ Extents(tree, p).next \in Nat
    BY <1>0, <1>2, ExtentsAreCovered DEF Keys, IsTree
  <1>4. ASSUME NEW k \in Nat, k < to - from
        PROVE  StoredWith(s, from + k) = IF e.encrypted THEN Ctr(e.generation, start + (from + k))
                                         ELSE Plain
    <2> DEFINE v == from + k
    <2>1. v \in Nat /\ e.virtual <= v /\ v < Extents(tree, p).next
      BY <1>0, <1>3, <1>4
    <2>2. v < tree.end /\ EntryAt(tree, v) = e
      BY <1>0, <1>2, <2>1, EntryOfExtents
    <2>3. Sections[s].crypto # "none" /\ Sections[s].crypto # "skip" /\ Sections[s].crypto # "xts"
      BY <1>1
    <2> HIDE DEF v, e, tree, start
    <2>4. StoredWith(s, v) = IF EntryAt(Sections[s].ctrEx, v).encrypted
                             THEN Ctr(EntryAt(Sections[s].ctrEx, v).generation, Sections[s].start + v)
                             ELSE Plain
      BY <2>2, <2>3, Zenon DEF StoredWith, tree
    <2> QED BY <2>2, <2>4, Zenon DEF v, tree, start
  <1> QED BY <1>4 DEF KeyedBy

\* Lemma: the generation left behind is no virtual offset.
LEMMA KeepIs ==
  ASSUME NEW c \in Ciphers, NEW e \in Keys
  PROVE  Keep(c, e) \in Ciphers /\ Keep(c, e).unreadable = c.unreadable /\ Keep(c, e).virtual = c.virtual
  BY DEF Keep, Ciphers, Keys

\* Lemma: what a read with the generation of an entry that succeeds returns is the plaintext.
LEMMA KeyedReturns ==
  ASSUME NEW s \in DOMAIN Sections,
         NEW from \in Nat, NEW to \in Nat, from < to, to <= Sections[s].size,
         NEW c \in Ciphers, c.virtual = 0, NEW e \in Keys, KeyedBy(s, from, to - from, e)
  PROVE  Returns(ReadAesCtrEx(s, to - from, from, e, c), PlainOf(s), from, to, c)
  <1> DEFINE size == to - from
             left == Keep(c, e)
             data == ReadKeyedPasses(s, size, from, e)
  <1>1. size \in Nat \ {0} /\ from + size = to
    OBVIOUS
  <1>2. ~ (from + size > Sections[s].size)
    <2>1. Sections[s].size \in Nat
      BY SectionFacts
    <2> HIDE DEF size
    <2> QED BY <1>1, <2>1
  <1>3. left \in Ciphers /\ left.unreadable = c.unreadable /\ left.virtual = 0
    BY KeepIs
  <1>4. KeyedBy(s, from, size, e) /\ e.encrypted \in BOOLEAN
    BY DEF Keys
  <1> HIDE DEF size, left
  <1>5. ReadAesCtrEx(s, size, from, e, c) = IF from + size > Sections[s].size \/ s \in c.unreadable
                                            THEN Failed(c) ELSE Done(data, left)
    BY DEF ReadAesCtrEx, left
  <1>6. CASE s \in c.unreadable
    <2>1. ReadAesCtrEx(s, size, from, e, c) = Failed(c)
      BY <1>5, <1>6, Zenon
    <2>2. c.unreadable # {}
      BY <1>6
    <2>3. Returns(Failed(c), PlainOf(s), from, to, c)
      BY <2>2, FailureReturns
    <2> QED BY <2>1, <2>3 DEF size
  <1>7. CASE s \notin c.unreadable
    <2>1. ReadAesCtrEx(s, size, from, e, c) = Done(data, left)
      BY <1>2, <1>5, <1>7, Zenon
    <2>2. data = Row(PlainOf(s), from, to)
      <3>1. data = Row(PlainOf(s), from, from + size)
        BY <1>1, <1>4, ReadKeyedPassesIs
      <3> QED BY <1>1, <3>1
    <2>3. AllThere(PlainOf(s), from, to)
      BY PlainIsThere
    <2> HIDE DEF data
    <2>4. /\ IsResult(Done(data, left)) /\ Done(data, left).ok = TRUE
          /\ Done(data, left).data = data /\ Done(data, left).cipher = left
      BY <1>3, DoneIs
    <2>5. Returns(Done(data, left), PlainOf(s), from, to, c)
      BY <1>3, <2>2, <2>3, <2>4 DEF Returns
    <2> QED BY <2>1, <2>5 DEF size
  <1> QED BY <1>6, <1>7

\* Lemma: the layer of a patch with generations is read right.
LEMMA CtrExIsRight ==
  ASSUME NEW s \in DOMAIN Sections, Sections[s].ctrEx # None,
         Sections[s].ctrEx.end <= Sections[s].size,
         NEW Below, NEW Cont, NEW Reads, NEW Conts, Over(Below, Cont, Reads, Conts)
  PROVE  IsRight(Reads, Conts, CtrExOf(s))
  <1> DEFINE g == CtrExOf(s)
             tree == Sections[s].ctrEx
             F == CellsOf(Conts, g)
  <1>1. /\ g.type = "AesCtrEx" /\ g.section = s /\ g.tree = tree /\ EndOf(g) = tree.end
    BY DEF CtrExOf, Storage, EndOf
  <1>2. g \in Storages
    <2>1. None \in DOMAIN Sections \cup {None}
      OBVIOUS
    <2> QED BY <2>1, StoragesAre
  <1>3. IsTree(tree) /\ \A p \in Places(tree) : Visited(tree, p) \in Keys
    <2>1. WellFormed(tree, Keys)
      BY SectionsAssumption
    <2> QED BY <2>1, TablesAreTrees
  <1>4. ASSUME NEW p \in Places(tree)
        PROVE  /\ Extents(tree, p).entry = Visited(tree, p) /\ Visited(tree, p) \in Keys
               /\ Extents(tree, p).next \in Nat /\ Extents(tree, p).next <= tree.end
    <2>1. /\ Extents(tree, p).entry = Visited(tree, p) /\ Extents(tree, p).next \in Nat
          /\ Extents(tree, p).next <= tree.end
      BY <1>3, ExtentsAreCovered
    <2> QED BY <1>3, <2>1
  <1> HIDE DEF g, tree, F
  <1>5. ASSUME NEW p \in Places(tree), NEW n, NEW at, NEW c
        PROVE  ReadPiece(Below, g, Extents(tree, p), n, at, c) = ReadAesCtrEx(s, n, at, Visited(tree, p), c)
    <2> DEFINE x == Extents(tree, p)
    <2>1. x.entry = Visited(tree, p)
      BY <1>4, <1>5
    <2> HIDE DEF x
    <2>2. ReadPiece(Below, g, x, n, at, c) = ReadAesCtrEx(g.section, n, at, x.entry, c)
      BY <1>1, Zenon DEF ReadPiece
    <2> QED BY <1>1, <2>1, <2>2 DEF x
  <1>6. PiecesAreResults(Below, g)
    <2>1. ASSUME NEW p \in Places(tree), NEW n \in Nat, NEW at \in Nat, NEW c \in Ciphers
          PROVE  IsResult(ReadPiece(Below, g, Extents(tree, p), n, at, c))
      <3> DEFINE e == Visited(tree, p)
                 data == ReadKeyedPasses(s, n, at, e)
      <3>1. e \in Keys
        BY <1>4
      <3> HIDE DEF e
      <3>2. Keep(c, e) \in Ciphers
        BY <3>1, KeepIs
      <3>3. \/ ReadAesCtrEx(s, n, at, e, c) = Failed(c)
            \/ ReadAesCtrEx(s, n, at, e, c) = Done(data, Keep(c, e))
        BY Zenon DEF ReadAesCtrEx
      <3> HIDE DEF data
      <3>4. IsResult(Failed(c)) /\ IsResult(Done(data, Keep(c, e)))
        BY <3>2, FailedIs, DoneIs
      <3>5. IsResult(ReadAesCtrEx(s, n, at, e, c))
        BY <3>3, <3>4, Zenon
      <3> QED BY <1>5, <3>5 DEF e
    <2> QED BY <1>1, <2>1 DEF PiecesAreResults
  <1>7. ASSUME NEW p \in Places(tree), NEW from \in Nat, NEW to \in Nat, NEW c \in Ciphers,
               Visited(tree, p).virtual <= from, from < to, to <= Extents(tree, p).next,
               c.virtual = 0
        PROVE  Returns(ReadPiece(Below, g, Extents(tree, p), to - from, from, c), F, from, to, c)
    <2> DEFINE e == Visited(tree, p)
               n == to - from
    <2>1. e \in Keys /\ to <= Sections[s].size
      <3>1. tree.end \in Nat /\ Sections[s].size \in Nat /\ tree.end <= Sections[s].size
        BY <1>3, SectionFacts DEF IsTree, tree
      <3> QED BY <1>4, <1>7, <3>1
    <2>2. KeyedBy(s, from, n, e)
      <3>1. CoversPart(Sections[s].ctrEx, p, from, to)
        BY <1>7 DEF CoversPart, tree
      <3> QED BY <3>1, EntryIsKey DEF tree
    <2> HIDE DEF e
    <2>3. Returns(ReadAesCtrEx(s, n, from, e, c), PlainOf(s), from, to, c)
      BY <1>7, <2>1, <2>2, KeyedReturns
    <2>4. SameCells(F, from, to, PlainOf(s), from, to)
      <3>1. ASSUME NEW k \in Nat, k < to - from PROVE F[from + k] = PlainOf(s)[from + k]
        <4> DEFINE v == from + k
        <4>1. v \in Nat
          OBVIOUS
        <4> HIDE DEF v
        <4>2. Conts[<<g, v>>] = Layered(Cont, g, v)
          BY <1>2, <4>1, OverIs
        <4>3. Layered(Cont, g, v) = Bare[<<g, v>>]
          BY <1>1 DEF Layered
        <4>4. Bare[<<g, v>>] = <<s, v>>
          BY <1>1, <1>2, <4>1 DEF Bare
        <4>5. F[v] = Conts[<<g, v>>]
          BY <4>1 DEF F, CellsOf
        <4>6. PlainOf(s)[v] = <<s, v>>
          BY <4>1 DEF PlainOf
        <4>7. F[v] = PlainOf(s)[v]
          BY <4>2, <4>3, <4>4, <4>5, <4>6, Zenon
        <4> QED BY <4>7 DEF v
      <3>2. from <= to
        BY <1>7
      <3> QED BY <3>1, <3>2, Zenon DEF SameCells
    <2>5. Returns(ReadAesCtrEx(s, n, from, e, c), F, from, to, c)
      <3> HIDE DEF n
      <3>1. c.unreadable = c.unreadable
        OBVIOUS
      <3> QED BY <2>3, <2>4, <3>1, ReturnsMoved
    <2>6. ReadPiece(Below, g, Extents(tree, p), n, from, c) = ReadAesCtrEx(s, n, from, e, c)
      BY <1>5 DEF e
    <2> QED BY <2>5, <2>6
  <1>8. PiecesReturn(Below, g, F)
    BY <1>1, <1>7 DEF PiecesReturn
  <1>9. IsRight(Reads, Conts, g)
    <2>1. g.type \notin {"Missing", "Regular"} /\ IsTree(g.tree) /\ EndOf(g) = g.tree.end
      BY <1>1, <1>3
    <2> QED BY <1>2, <1>6, <1>8, <2>1, TreeIsRight DEF F
  <1> QED BY <1>9 DEF g

-----------------------------------------------------------------------------
\* The indirect layer

\* What an entry needs of the storage below.
CellsBelow(Cont, held) == {Cont[<<held.in, q>>] : q \in held.cells}

\* What an entry needs lies in the storage below, if there is one.
IsInside(held) == held.in.type = "Missing" \/ held.cells \subseteq 0..(EndOf(held.in) - 1)

\* Lemma: what a layer holds at an offset an entry of its table covers.
LEMMA LayerIs ==
  ASSUME NEW Below, NEW Cont, NEW Reads, NEW Conts, Over(Below, Cont, Reads, Conts),
         NEW g \in Storages, g.type \notin {"Missing", "Regular", "AesCtrEx"}, IsTree(g.tree),
         NEW p \in Places(g.tree), NEW v \in Nat,
         Visited(g.tree, p).virtual <= v, v < Extents(g.tree, p).next
  PROVE  /\ CellsOf(Conts, g)[v] = MadeOf(CellsBelow(Cont, Held(g, Visited(g.tree, p), v)),
                                        g, Visited(g.tree, p), v)
         /\ PointsInside(g) => IsInside(Held(g, Visited(g.tree, p), v))
  <1> DEFINE e == Visited(g.tree, p)
             held == Held(g, e, v)
             tree == g.tree
  <1>1. v < tree.end /\ EntryAt(tree, v) = e
    BY EntryOfExtents
  <1>2. tree.end \in Nat
    BY DEF IsTree
  <1> HIDE DEF e, tree
  <1>3. CellsOf(Conts, g)[v] = Conts[<<g, v>>]
    BY DEF CellsOf
  <1>4. Conts[<<g, v>>] = Layered(Cont, g, v)
    BY OverIs
  <1>5. Layered(Cont, g, v) = HeldBy(Cont, g, e, v)
    BY <1>1 DEF Layered, tree
  <1>6. HeldBy(Cont, g, e, v) = MadeOf(CellsBelow(Cont, held), g, e, v)
    BY Zenon DEF HeldBy, CellsBelow
  <1>7. ASSUME PointsInside(g)
        PROVE  IsInside(held)
    <2>1. v \in 0..(tree.end - 1)
      BY <1>1, <1>2
    <2>2. \A u \in 0..(tree.end - 1) :
             Held(g, EntryAt(tree, u), u).in.type = "Missing"
             \/ Held(g, EntryAt(tree, u), u).cells \subseteq 0..(EndOf(Held(g, EntryAt(tree, u), u).in) - 1)
      BY <1>7, Zenon DEF PointsInside, tree
    <2>3. Held(g, EntryAt(tree, v), v).in.type = "Missing"
          \/ Held(g, EntryAt(tree, v), v).cells \subseteq 0..(EndOf(Held(g, EntryAt(tree, v), v).in) - 1)
      BY <2>1, <2>2, Zenon
    <2> QED BY <1>1, <2>3, Zenon DEF IsInside
  <1>8. CellsOf(Conts, g)[v] = MadeOf(CellsBelow(Cont, held), g, e, v)
    <2> HIDE DEF held
    <2> QED BY <1>3, <1>4, <1>5, <1>6, Zenon
  <1> QED BY <1>7, <1>8, Zenon DEF e

\* Each offset of an entry, from one up to another, is one cell below, in their order.
PointsOn(g, e, from, to, sub, at) ==
  /\ at \in Nat
  /\ \A k \in Nat : k < to - from => Held(g, e, from + k).in = sub /\ Held(g, e, from + k).cells = {at + k}

\* Lemma: what is read of the storage below is what the layer holds there.
LEMMA OneBelow ==
  ASSUME NEW Below, NEW Cont, NEW Reads, NEW Conts, Over(Below, Cont, Reads, Conts),
         NEW g \in Storages, g.type \in {"Indirect", "Compressed"}, IsTree(g.tree), PointsInside(g),
         NEW p, NEW from, NEW to, CoversPart(g.tree, p, from, to),
         NEW sub \in Storages, sub.type = "Missing" \/ EndOf(sub) \in Nat, IsRight(Below, Cont, sub),
         NEW at, PointsOn(g, Visited(g.tree, p), from, to, sub, at),
         ~ (g.type = "Compressed" /\ Visited(g.tree, p).kind = "lz4"),
         NEW c \in Ciphers, c.virtual = 0
  PROVE  Returns(Below[Request(sub, to - from, at, c)], CellsOf(Conts, g), from, to, c)
  <1> DEFINE e == Visited(g.tree, p)
             F == CellsOf(Conts, g)
             G == CellsOf(Cont, sub)
             end == at + (to - from)
  <1>1. /\ p \in Places(g.tree) /\ from \in Nat /\ to \in Nat /\ from < to
        /\ e.virtual <= from /\ to <= Extents(g.tree, p).next /\ at \in Nat
    BY DEF CoversPart, PointsOn
  <1>2. e.virtual \in Nat /\ Extents(g.tree, p).next \in Nat
    BY <1>1, ExtentsAreCovered
  <1>3. ASSUME NEW k \in Nat, k < to - from
        PROVE  /\ F[from + k] = G[at + k]
               /\ sub.type = "Missing" \/ at + k \in 0..(EndOf(sub) - 1)
    <2> DEFINE v == from + k
               cell == at + k
               held == Held(g, e, v)
               below == CellsBelow(Cont, held)
    <2>1. v \in Nat /\ e.virtual <= v /\ v < Extents(g.tree, p).next /\ cell \in Nat
      BY <1>1, <1>2, <1>3
    <2>2. held.in = sub /\ held.cells = {cell}
      BY <1>3, Zenon DEF PointsOn
    <2> HIDE DEF v, e, F, G, cell
    <2>3. F[v] = MadeOf(below, g, e, v) /\ IsInside(held)
      <3>1. g.type \notin {"Missing", "Regular", "AesCtrEx"}
        OBVIOUS
      <3> QED BY <1>1, <2>1, <3>1, LayerIs DEF e, F
    <2>4. Only(below, Cont[<<sub, cell>>])
      BY <2>2 DEF Only, CellsBelow
    <2> HIDE DEF held, below
    <2>5. MadeOf(below, g, e, v) = Cont[<<sub, cell>>]
      <3>1. ~ (g.type = "Compressed" /\ e.kind = "lz4")
        BY DEF e
      <3> QED BY <2>4, <3>1, MadeOfOne
    <2>6. G[cell] = Cont[<<sub, cell>>]
      <3>1. cell \in Nat
        BY <2>1
      <3>2. \A q \in Nat : G[q] = Cont[<<sub, q>>]
        BY DEF G, CellsOf
      <3> QED BY ONLY <3>1, <3>2, Zenon
    <2>7. sub.type = "Missing" \/ cell \in 0..(EndOf(sub) - 1)
      BY <2>2, <2>3 DEF IsInside
    <2>8. F[v] = G[cell]
      BY <2>3, <2>5, <2>6, Zenon
    <2> QED BY <2>7, <2>8 DEF v, cell
  <1> HIDE DEF e, F, G
  <1>4. end \in Nat /\ at < end /\ end - at = to - from /\ from <= to
    BY <1>1
  <1>5. sub.type = "Missing" \/ end <= EndOf(sub)
    <2> DEFINE k == to - from - 1
    <2>1. k \in Nat /\ k < to - from /\ end = at + k + 1
      BY <1>1
    <2> HIDE DEF k, end
    <2>2. sub.type = "Missing" \/ at + k \in 0..(EndOf(sub) - 1)
      BY <1>3, <2>1
    <2> QED BY <1>1, <2>1, <2>2
  <1> HIDE DEF end
  <1>6. SameCells(F, from, to, G, at, end)
    <2>1. \A k \in Nat : k < to - from => F[from + k] = G[at + k]
      BY <1>3
    <2>2. to - from = end - at
      BY <1>4
    <2> QED BY <1>1, <1>4, <2>1, <2>2, Zenon DEF SameCells
  <1>7. Returns(Below[Request(sub, end - at, at, c)], G, at, end, c)
    <2>1. ReturnsWithin(Below, Cont, sub)
      BY DEF IsRight
    <2> QED BY <1>1, <1>4, <1>5, <2>1 DEF ReturnsWithin, G
  <1>8. Returns(Below[Request(sub, end - at, at, c)], F, from, to, c)
    <2>1. c.unreadable = c.unreadable
      OBVIOUS
    <2> QED BY <1>6, <1>7, <2>1, ReturnsMoved
  <1> QED BY <1>4, <1>8 DEF F

\* Lemma: what bktrReadIndirectStorage reads of an entry.
LEMMA IndirectPiece ==
  ASSUME NEW g, g.type = "Indirect", NEW Below, Answers(Below, g.subs[1]), Answers(Below, g.subs[2]),
         NEW x, NEW n \in Nat, NEW at \in Nat, NEW c \in Ciphers,
         x.entry \in Moves, x.entry.virtual <= at
  PROVE  /\ IsResult(ReadPiece(Below, g, x, n, at, c))
         /\ n # 0 => ReadPiece(Below, g, x, n, at, c)
                        = Below[Request(g.subs[x.entry.index + 1], n, PlaceIn(x.entry, at), c)]
  <1> DEFINE e == x.entry
             held == PlaceIn(e, at)
             handed == WithVirtual(g, at, c)
             sub == g.subs[e.index + 1]
             piece == ReadPiece(Below, g, x, n, at, c)
             r == Below[Request(sub, n, held, handed)]
  <1>1. held \in Nat /\ e.index \in {0, 1}
    BY DEF Moves, PlaceIn
  <1>2. handed = c
    <2>1. g.type # "Sparse"
      OBVIOUS
    <2> QED BY <2>1, CiphersAre
  <1>3. Answers(Below, sub)
    <2> HIDE DEF e
    <2>1. CASE e.index = 0
      <3>1. sub = g.subs[1]
        BY <2>1
      <3> QED BY <3>1
    <2>2. CASE e.index = 1
      <3>1. sub = g.subs[2]
        BY <2>2
      <3> QED BY <3>1
    <2> QED BY <1>1, <2>1, <2>2
  <1>4. Source(g, e, n, at) = [sub |-> sub, offset |-> held, size |-> n]
    BY DEF Source, PlaceIn
  <1> HIDE DEF held, sub, handed, e
  <1>5. IsResult(r)
    BY <1>1, <1>2, <1>3 DEF Answers
  <1> HIDE DEF piece, r
  <1>6. /\ n = 0 => piece = Done(Zeros(n), c)
        /\ n # 0 => piece = r
    <2>1. g.type # "AesCtrEx" /\ g.type # "Compressed"
      OBVIOUS
    <2>2. Replied(Below, g, x.entry, n, at, c, n, r)
      BY <1>4, Zenon DEF e, r, handed, Replied
    <2>3. ~ (g.type = "Compressed" /\ x.entry.kind = "lz4")
      BY <2>1
    <2> QED BY <1>5, <2>1, <2>2, <2>3, PiecesAre DEF piece
  <1>7. IsResult(piece)
    BY <1>5, <1>6, DoneIs
  <1>8. n # 0 => piece = Below[Request(sub, n, held, c)]
    BY <1>2, <1>6 DEF r
  <1> QED BY <1>7, <1>8 DEF piece, sub, held, e

\* Lemma: an indirect layer is read right, when what its entries point to is.
LEMMA IndirectIsRight ==
  ASSUME NEW Below, NEW Cont, NEW Reads, NEW Conts, Over(Below, Cont, Reads, Conts),
         NEW g \in Storages, g.type = "Indirect", g.section \in DOMAIN Sections,
         WellFormed(g.tree, Moves), PointsInside(g),
         g.subs[1] \in Storages, g.subs[1].type = "Missing" \/ EndOf(g.subs[1]) \in Nat,
         g.subs[2] \in Storages, g.subs[2].type = "Missing" \/ EndOf(g.subs[2]) \in Nat,
         IsRight(Below, Cont, g.subs[1]), IsRight(Below, Cont, g.subs[2])
  PROVE  IsRight(Reads, Conts, g)
  <1> DEFINE tree == g.tree
             F == CellsOf(Conts, g)
  <1>1. EndOf(g) = tree.end /\ g.type \notin {"Missing", "Regular"}
    BY DEF EndOf
  <1>2. IsTree(tree) /\ \A p \in Places(tree) : Visited(tree, p) \in Moves
    BY TablesAreTrees
  <1>3. Answers(Below, g.subs[1]) /\ Answers(Below, g.subs[2])
    BY DEF IsRight
  <1> HIDE DEF tree, F
  <1>4. ASSUME NEW p \in Places(tree), NEW n \in Nat, NEW at \in Nat, NEW c \in Ciphers,
               Visited(tree, p).virtual <= at
        PROVE  LET e == Visited(tree, p)
                   piece == ReadPiece(Below, g, Extents(tree, p), n, at, c)
               IN /\ IsResult(piece)
                  /\ n # 0 => piece = Below[Request(g.subs[e.index + 1], n, PlaceIn(e, at), c)]
    <2> DEFINE x == Extents(tree, p)
    <2>1. x.entry = Visited(tree, p) /\ x.entry \in Moves /\ x.entry.virtual <= at
      <3>1. x.entry = Visited(tree, p)
        BY <1>2, <1>4, ExtentsAreCovered
      <3> QED BY <1>2, <1>4, <3>1
    <2> HIDE DEF x
    <2>2. /\ IsResult(ReadPiece(Below, g, x, n, at, c))
          /\ n # 0 => ReadPiece(Below, g, x, n, at, c)
                         = Below[Request(g.subs[x.entry.index + 1], n, PlaceIn(x.entry, at), c)]
      BY <1>3, <2>1, IndirectPiece
    <2> QED BY <2>1, <2>2, Zenon DEF x
  <1>5. PiecesAreResults(Below, g)
    BY <1>4 DEF PiecesAreResults, tree
  <1>6. ASSUME NEW p \in Places(tree), NEW from \in Nat, NEW to \in Nat, NEW c \in Ciphers,
               Visited(tree, p).virtual <= from, from < to, to <= Extents(tree, p).next,
               c.virtual = 0
        PROVE  Returns(ReadPiece(Below, g, Extents(tree, p), to - from, from, c), F, from, to, c)
    <2> DEFINE e == Visited(tree, p)
               n == to - from
               sub == g.subs[e.index + 1]
               at == PlaceIn(e, from)
    <2>1. e \in Moves /\ CoversPart(tree, p, from, to)
      BY <1>2, <1>6 DEF CoversPart
    <2>2. /\ e.virtual \in Nat /\ e.physical \in Nat /\ e.index \in {0, 1} /\ at \in Nat
          /\ e.virtual <= from /\ n \in Nat /\ n # 0
      BY <1>6, <2>1 DEF Moves, PlaceIn
    <2>3. /\ sub \in Storages /\ IsRight(Below, Cont, sub)
          /\ sub.type = "Missing" \/ EndOf(sub) \in Nat
      <3> HIDE DEF e
      <3>1. CASE e.index = 0
        <4>1. sub = g.subs[1]
          BY <3>1
        <4> QED BY <4>1
      <3>2. CASE e.index = 1
        <4>1. sub = g.subs[2]
          BY <3>2
        <4> QED BY <4>1
      <3> QED BY <2>2, <3>1, <3>2
    <2>4. PointsOn(g, e, from, to, sub, at)
      <3>1. ASSUME NEW k \in Nat, k < to - from
            PROVE  Held(g, e, from + k).in = sub /\ Held(g, e, from + k).cells = {at + k}
        <4> DEFINE v == from + k
                   hash == Sections[g.section].hash
                   cell == hash * (IF g.type = "Compressed" THEN 1 ELSE 0) + v - e.virtual + e.physical
        <4>1. hash \in Nat
          BY SectionFacts
        <4> HIDE DEF hash
        <4>2. cell = at + k
          BY <2>2, <4>1 DEF PlaceIn
        <4>3. Held(g, e, v) = [in |-> sub, cells |-> {cell}]
          BY DEF Held, hash
        <4> HIDE DEF cell, at, sub
        <4> QED BY <4>2, <4>3
      <3> QED BY <2>2, <3>1 DEF PointsOn
    <2> HIDE DEF e, sub, at, n
    <2>5. Returns(Below[Request(sub, to - from, at, c)], F, from, to, c)
      BY <1>2, <1>6, <2>1, <2>3, <2>4, OneBelow DEF F, tree, e
    <2>6. ReadPiece(Below, g, Extents(tree, p), n, from, c) = Below[Request(sub, n, at, c)]
      BY <1>4, <1>6, <2>2 DEF e, sub, at
    <2> QED BY <2>5, <2>6 DEF n
  <1>7. PiecesReturn(Below, g, F)
    BY <1>6 DEF PiecesReturn, tree
  <1> QED BY <1>1, <1>2, <1>5, <1>7, TreeIsRight DEF F, tree

-----------------------------------------------------------------------------
\* Layer over layer, up to a patch over its base

\* A layer over one that sees the sections
Above(Below, Cont, Reads, Conts) == Over(Below, Cont, Reads, Conts) /\ SeesSections(Below, Cont)

\* Lemma: each of the four layers is such a layer over the one below.
LEMMA LayersAbove ==
  /\ Above(ReadBare, Bare, ReadSparse, SparseContent)
  /\ Above(ReadSparse, SparseContent, ReadIndirect, IndirectContent)
  /\ Above(ReadIndirect, IndirectContent, TopReads, TopContent)
  <1>1. SeesSections(ReadBare, Bare)
    BY DEF SeesSections
  <1>2. Over(ReadBare, Bare, ReadSparse, SparseContent)
    BY Layers
  <1>3. Over(ReadSparse, SparseContent, ReadIndirect, IndirectContent)
    BY Layers
  <1>4. Over(ReadIndirect, IndirectContent, TopReads, TopContent)
    BY Layers
  <1>5. SeesSections(ReadSparse, SparseContent)
    BY <1>2, OverIs
  <1>6. SeesSections(ReadIndirect, IndirectContent)
    BY <1>3, OverIs
  <1> QED BY <1>1, <1>2, <1>3, <1>4, <1>5, <1>6 DEF Above

\* A title and its storages may be opened.
IsBase(base) ==
  base # None =>
     /\ base \in DOMAIN Sections /\ Sections[base].indirect = None
     /\ Sections[base].sparse # None => PointsInside(SparseOf(base))

\* Lemma: a section without a sparse layer is read right by each layer.
LEMMA SectionIsRight ==
  ASSUME NEW Below, NEW Cont, NEW Reads, NEW Conts, Above(Below, Cont, Reads, Conts),
         NEW s \in DOMAIN Sections, Sections[s].indirect = None, Sections[s].sparse = None
  PROVE  /\ IsRight(Reads, Conts, Regular(s)) /\ Regular(s) \in Storages
         /\ EndOf(Regular(s)) \in Nat
  <1>1. Regular(s) \in Storages /\ Regular(s).type = "Regular"
    <2>1. None \in DOMAIN Sections \cup {None}
      OBVIOUS
    <2>2. Regular(s) \in Storages
      BY <2>1, StoragesAre
    <2> QED BY <2>2 DEF Regular
  <1>2. Sections[s].ctrEx = None
    BY SectionsAssumption
  <1>3. IsRight(ReadBare, Bare, Regular(s))
    BY <1>2, RegularIsRight
  <1>4. SeesSections(Reads, Conts)
    BY OverIs DEF Above
  <1>5. EndOf(Regular(s)) \in Nat
    BY SectionFacts DEF EndOf, Regular
  <1> QED BY <1>1, <1>3, <1>4, <1>5, BareStaysRight

\* Lemma: what an indirect layer takes of the base is read right, and so is a base without a
\* compressed layer.
LEMMA OriginalIsRight ==
  ASSUME NEW Below, NEW Cont, NEW Reads, NEW Conts, Above(Below, Cont, Reads, Conts),
         NEW base, IsBase(base)
  PROVE  /\ OriginalOf(base) \in Storages /\ IsRight(Reads, Conts, OriginalOf(base))
         /\ OriginalOf(base).type = "Missing" \/ EndOf(OriginalOf(base)) \in Nat
  <1>1. Over(Below, Cont, Reads, Conts) /\ SeesSections(Below, Cont) /\ SeesSections(Reads, Conts)
    BY OverIs DEF Above
  <1>2. CASE base = None
    <2>1. OriginalOf(base) = Missing /\ Missing.type = "Missing" /\ Missing \in Storages
      BY <1>2 DEF OriginalOf, Missing, Storages
    <2> DEFINE g == Missing
    <2>2. g \in Storages /\ g.type \in {"Missing", "Regular"} /\ IsRight(ReadBare, Bare, g)
      BY <2>1, MissingIsRight
    <2> HIDE DEF g
    <2>3. IsRight(Reads, Conts, g)
      BY <1>1, <2>2, BareStaysRight
    <2> QED BY <2>1, <2>3 DEF g
  <1>3. CASE base # None
    <2>1. /\ base \in DOMAIN Sections /\ Sections[base].indirect = None
          /\ Sections[base].sparse # None => PointsInside(SparseOf(base))
      BY <1>3 DEF IsBase
    <2>2. Sections[base].ctrEx = None
      BY <2>1, SectionsAssumption
    <2>3. CASE Sections[base].sparse # None
      <3>1. OriginalOf(base) = SparseOf(base)
        BY <1>3, <2>3 DEF OriginalOf
      <3>2. IsRight(Reads, Conts, SparseOf(base))
        BY <1>1, <2>1, <2>2, <2>3, SparseIsRight
      <3>3. SparseOf(base) \in Storages
        <4>1. None \in DOMAIN Sections \cup {None}
          OBVIOUS
        <4> QED BY <2>1, <4>1, StoragesAre
      <3>4. EndOf(SparseOf(base)) \in Nat
        <4>1. EndOf(SparseOf(base)) = Sections[base].sparse.end
          BY DEF SparseOf, Storage, EndOf
        <4>2. WellFormed(Sections[base].sparse, Moves)
          BY <2>1, <2>3, SectionsAssumption
        <4> QED BY <4>1, <4>2 DEF WellFormed
      <3> QED BY <3>1, <3>2, <3>3, <3>4
    <2>4. CASE Sections[base].sparse = None
      <3>1. OriginalOf(base) = Regular(base)
        BY <1>3, <2>4 DEF OriginalOf
      <3>2. /\ IsRight(Reads, Conts, Regular(base)) /\ Regular(base) \in Storages
            /\ EndOf(Regular(base)) \in Nat
        BY <2>1, <2>4, SectionIsRight
      <3> QED BY <3>1, <3>2
    <2> QED BY <2>3, <2>4
  <1> QED BY <1>2, <1>3

\* A patch and the base it may be opened over
IsPatch(s, base) ==
  /\ IsBase(base) /\ s \in DOMAIN Sections /\ Sections[s].indirect # None
  /\ Sections[s].ctrEx.end <= Sections[s].size /\ PointsInside(IndirectOf(s, base))

\* Lemma: a patch over its base is read right, two layers above the sections.
LEMMA PatchIsRight ==
  ASSUME NEW B0, NEW C0, NEW Below, NEW Cont, Above(B0, C0, Below, Cont),
         NEW Reads, NEW Conts, Above(Below, Cont, Reads, Conts),
         NEW s, NEW base, IsPatch(s, base)
  PROVE  /\ IndirectOf(s, base) \in Storages /\ IsRight(Reads, Conts, IndirectOf(s, base))
         /\ EndOf(IndirectOf(s, base)) \in Nat
  <1> DEFINE g == IndirectOf(s, base)
             sub == OriginalOf(base)
  <1>1. /\ IsBase(base) /\ s \in DOMAIN Sections /\ Sections[s].indirect # None
        /\ Sections[s].ctrEx.end <= Sections[s].size /\ PointsInside(g)
    BY DEF IsPatch
  <1>2. /\ WellFormed(Sections[s].indirect, Moves) /\ Sections[s].ctrEx # None
        /\ WellFormed(Sections[s].ctrEx, Keys)
    BY <1>1, SectionsAssumption
  <1>3. /\ g.type = "Indirect" /\ g.section = s /\ g.tree = Sections[s].indirect
        /\ g.subs[1] = sub /\ g.subs[2] = CtrExOf(s)
    BY DEF IndirectOf, Storage
  <1>4. base \in DOMAIN Sections \cup {None}
    BY <1>1 DEF IsBase
  <1>5. g \in Storages /\ CtrExOf(s) \in Storages
    <2>1. UncompressedOf(s, base) \in Storages /\ CtrExOf(s) \in Storages
      BY <1>1, <1>4, StoragesAre
    <2>2. UncompressedOf(s, base) = g
      BY <1>1 DEF UncompressedOf
    <2> QED BY <2>1, <2>2
  <1>6. EndOf(g) \in Nat /\ EndOf(CtrExOf(s)) \in Nat
    <2>1. EndOf(g) = Sections[s].indirect.end
      BY <1>3 DEF EndOf
    <2>2. EndOf(CtrExOf(s)) = Sections[s].ctrEx.end
      BY DEF CtrExOf, Storage, EndOf
    <2> QED BY <1>2, <2>1, <2>2 DEF WellFormed
  <1>7. /\ sub \in Storages /\ IsRight(Below, Cont, sub)
        /\ sub.type = "Missing" \/ EndOf(sub) \in Nat
    BY <1>1, OriginalIsRight
  <1>8. IsRight(Below, Cont, CtrExOf(s))
    BY <1>1, <1>2, CtrExIsRight DEF Above
  <1> HIDE DEF g, sub
  <1>9. IsRight(Reads, Conts, g)
    <2>1. Over(Below, Cont, Reads, Conts)
      BY DEF Above
    <2>2. /\ g.subs[1] \in Storages /\ IsRight(Below, Cont, g.subs[1])
          /\ g.subs[1].type = "Missing" \/ EndOf(g.subs[1]) \in Nat
      BY <1>3, <1>7
    <2>3. /\ g.subs[2] \in Storages /\ IsRight(Below, Cont, g.subs[2])
          /\ g.subs[2].type = "Missing" \/ EndOf(g.subs[2]) \in Nat
      BY <1>3, <1>5, <1>6, <1>8
    <2>4. WellFormed(g.tree, Moves) /\ g.section \in DOMAIN Sections
      BY <1>1, <1>2, <1>3
    <2> QED BY <1>1, <1>3, <1>5, <2>1, <2>2, <2>3, <2>4, IndirectIsRight
  <1> QED BY <1>5, <1>6, <1>9 DEF g

\* The storages whose entries move what is below them
IsMoving(g) ==
  /\ g \in Storages /\ g.type \in {"Sparse", "Indirect"} /\ g.section \in DOMAIN Sections
  /\ WellFormed(g.tree, Moves)

\* Two contents below a storage agree on what its entries point to.
SameBelow(Cont, Cont2, g) ==
  /\ CellsOf(Cont, g.subs[1]) = CellsOf(Cont2, g.subs[1])
  /\ g.type = "Indirect" => CellsOf(Cont, g.subs[2]) = CellsOf(Cont2, g.subs[2])

\* Lemma: a storage holds the same over contents that agree.
LEMMA LayerStays ==
  ASSUME NEW B, NEW Cont, NEW R, NEW Conts, Over(B, Cont, R, Conts),
         NEW B2, NEW Cont2, NEW R2, NEW Conts2, Over(B2, Cont2, R2, Conts2),
         NEW g, IsMoving(g), SameBelow(Cont, Cont2, g)
  PROVE  CellsOf(Conts, g) = CellsOf(Conts2, g)
  <1>1. /\ g \in Storages /\ g.type \in {"Sparse", "Indirect"} /\ g.section \in DOMAIN Sections
        /\ WellFormed(g.tree, Moves)
    BY DEF IsMoving
  <1>2. IsTree(g.tree) /\ \A p \in Places(g.tree) : Visited(g.tree, p) \in Moves
    BY <1>1, TablesAreTrees
  <1>3. ASSUME NEW v \in Nat PROVE Conts[<<g, v>>] = Conts2[<<g, v>>]
    <2> DEFINE e == EntryAt(g.tree, v)
               hash == Sections[g.section].hash
               cell == hash * (IF g.type = "Compressed" THEN 1 ELSE 0) + v - e.virtual + e.physical
               sub == IF g.type = "Indirect" THEN g.subs[e.index + 1] ELSE g.subs[1]
               held == Held(g, e, v)
    <2>1. e \in Moves /\ e.virtual <= v
      <3>1. Covers(g.tree, PlaceAt(g.tree, v), v)
        BY <1>2, PlaceAtIs
      <3> QED BY <1>2, <3>1 DEF Covers, EntryAt
    <2>2. hash \in Nat
      BY <1>1, SectionFacts
    <2> HIDE DEF hash, e
    <2>3. cell \in Nat /\ e.index \in {0, 1}
      BY <1>1, <2>1, <2>2 DEF Moves
    <2> HIDE DEF cell
    <2>4. held.in = sub /\ held.cells \subseteq {cell}
      <3>1. CASE g.type = "Indirect"
        <4>1. held = [in |-> sub, cells |-> {cell}]
          BY <3>1 DEF Held, cell, hash
        <4> HIDE DEF held, sub
        <4> QED BY <4>1
      <3>2. CASE g.type = "Sparse"
        <4>1. held = [in |-> sub, cells |-> IF e.index = 0 THEN {cell} ELSE {}]
          BY <3>2 DEF Held, cell, hash
        <4> HIDE DEF held, sub
        <4> QED BY <4>1
      <3> QED BY <1>1, <3>1, <3>2
    <2>5. CellsOf(Cont, sub) = CellsOf(Cont2, sub)
      <3>1. CASE g.type = "Sparse"
        <4>1. sub = g.subs[1]
          BY <3>1
        <4> QED BY <4>1 DEF SameBelow
      <3>2. CASE g.type = "Indirect" /\ e.index = 0
        <4>1. sub = g.subs[1]
          BY <3>2
        <4> QED BY <4>1 DEF SameBelow
      <3>3. CASE g.type = "Indirect" /\ e.index = 1
        <4>1. sub = g.subs[2]
          BY <3>3
        <4> QED BY <3>3, <4>1 DEF SameBelow
      <3> QED BY <1>1, <2>3, <3>1, <3>2, <3>3
    <2> HIDE DEF sub
    <2>6. Cont[<<sub, cell>>] = Cont2[<<sub, cell>>]
      <3>1. /\ CellsOf(Cont, sub)[cell] = Cont[<<sub, cell>>]
            /\ CellsOf(Cont2, sub)[cell] = Cont2[<<sub, cell>>]
        BY <2>3 DEF CellsOf
      <3> QED BY <2>5, <3>1, Zenon
    <2> HIDE DEF held
    <2>7. CellsBelow(Cont, held) = CellsBelow(Cont2, held)
      BY <2>4, <2>6 DEF CellsBelow
    <2>8. HeldBy(Cont, g, e, v) = HeldBy(Cont2, g, e, v)
      <3>1. /\ HeldBy(Cont, g, e, v) = MadeOf(CellsBelow(Cont, held), g, e, v)
            /\ HeldBy(Cont2, g, e, v) = MadeOf(CellsBelow(Cont2, held), g, e, v)
        BY Zenon DEF HeldBy, CellsBelow, held
      <3> QED BY <2>7, <3>1, Zenon
    <2>9. /\ Layered(Cont, g, v) = HeldBy(Cont, g, e, v)
          /\ Layered(Cont2, g, v) = HeldBy(Cont2, g, e, v)
      <3>1. g.type \notin {"Missing", "Regular", "AesCtrEx"}
        BY <1>1
      <3> QED BY <3>1, Zenon DEF Layered, e
    <2>10. Conts[<<g, v>>] = Layered(Cont, g, v) /\ Conts2[<<g, v>>] = Layered(Cont2, g, v)
      BY <1>1, OverIs
    <2> QED BY <2>8, <2>9, <2>10, Zenon
  <1> QED BY <1>3 DEF CellsOf

\* Lemma: so does a base, or none, from the first layer up.
LEMMA OriginalStays ==
  ASSUME NEW base, IsBase(base)
  PROVE  CellsOf(SparseContent, OriginalOf(base)) = CellsOf(IndirectContent, OriginalOf(base))
  <1>1. /\ Over(ReadBare, Bare, ReadSparse, SparseContent)
        /\ Over(ReadSparse, SparseContent, ReadIndirect, IndirectContent)
    BY Layers
  <1>2. SeesSections(ReadSparse, SparseContent) /\ SeesSections(ReadIndirect, IndirectContent)
    BY <1>1, OverIs
  <1>3. ASSUME NEW g \in Storages, g.type \in {"Missing", "Regular"}
        PROVE  /\ CellsOf(SparseContent, g) = CellsOf(Bare, g)
               /\ CellsOf(IndirectContent, g) = CellsOf(Bare, g)
    BY <1>2, <1>3, BareStaysRight
  <1>4. CASE base = None
    <2>1. Missing \in Storages /\ Missing.type = "Missing" /\ OriginalOf(base) = Missing
      BY <1>4 DEF Missing, Storages, OriginalOf
    <2> DEFINE g == Missing
    <2>2. g \in Storages /\ g.type \in {"Missing", "Regular"}
      BY <2>1
    <2> HIDE DEF g
    <2>3. CellsOf(SparseContent, g) = CellsOf(IndirectContent, g)
      BY <1>3, <2>2
    <2> QED BY <2>1, <2>3 DEF g
  <1>5. CASE base # None
    <2>1. base \in DOMAIN Sections
      BY <1>5 DEF IsBase
    <2>2. Regular(base) \in Storages /\ SparseOf(base) \in Storages /\ Regular(base).type = "Regular"
      <3>1. None \in DOMAIN Sections \cup {None}
        OBVIOUS
      <3>2. Regular(base) \in Storages /\ SparseOf(base) \in Storages
        BY <2>1, <3>1, StoragesAre
      <3> QED BY <3>2 DEF Regular
    <2>3. /\ CellsOf(SparseContent, Regular(base)) = CellsOf(Bare, Regular(base))
          /\ CellsOf(IndirectContent, Regular(base)) = CellsOf(Bare, Regular(base))
      BY <1>3, <2>2
    <2>4. CASE Sections[base].sparse = None
      BY <1>5, <2>3, <2>4 DEF OriginalOf
    <2>5. CASE Sections[base].sparse # None
      <3> DEFINE g == SparseOf(base)
      <3>1. g.type = "Sparse" /\ g.section = base /\ g.tree = Sections[base].sparse
            /\ g.subs[1] = Regular(base)
        BY DEF SparseOf, Storage
      <3>2. WellFormed(Sections[base].sparse, Moves)
        BY <2>1, <2>5, SectionsAssumption
      <3>3. OriginalOf(base) = g
        BY <1>5, <2>5 DEF OriginalOf
      <3>4. g \in Storages
        BY <2>2
      <3> HIDE DEF g
      <3>5. IsMoving(g)
        BY <2>1, <3>1, <3>2, <3>4 DEF IsMoving
      <3>6. SameBelow(Bare, SparseContent, g)
        BY <2>3, <3>1 DEF SameBelow
      <3>7. CellsOf(SparseContent, g) = CellsOf(IndirectContent, g)
        BY <1>1, <3>5, <3>6, LayerStays
      <3> QED BY <3>3, <3>7
    <2> QED BY <2>4, <2>5
  <1> QED BY <1>4, <1>5

\* Lemma: and a patch over it, from the second layer up.
LEMMA PatchStays ==
  ASSUME NEW s, NEW base, IsPatch(s, base)
  PROVE  CellsOf(IndirectContent, IndirectOf(s, base)) = CellsOf(TopContent, IndirectOf(s, base))
  <1> DEFINE g == IndirectOf(s, base)
             sub == CtrExOf(s)
  <1>1. /\ Over(ReadBare, Bare, ReadSparse, SparseContent)
        /\ Over(ReadSparse, SparseContent, ReadIndirect, IndirectContent)
        /\ Over(ReadIndirect, IndirectContent, TopReads, TopContent)
    BY Layers
  <1>2. /\ IsBase(base) /\ s \in DOMAIN Sections /\ Sections[s].indirect # None
    BY DEF IsPatch
  <1>3. WellFormed(Sections[s].indirect, Moves)
    BY <1>2, SectionsAssumption
  <1>4. /\ g.type = "Indirect" /\ g.section = s /\ g.tree = Sections[s].indirect
        /\ g.subs[1] = OriginalOf(base) /\ g.subs[2] = sub
    BY DEF IndirectOf, Storage
  <1>5. g \in Storages /\ sub \in Storages
    <2>1. base \in DOMAIN Sections \cup {None}
      BY <1>2 DEF IsBase
    <2>2. UncompressedOf(s, base) \in Storages /\ CtrExOf(s) \in Storages
      BY <1>2, <2>1, StoragesAre
    <2>3. UncompressedOf(s, base) = g
      BY <1>2 DEF UncompressedOf
    <2> QED BY <2>2, <2>3
  <1>6. sub.type = "AesCtrEx"
    BY DEF CtrExOf, Storage
  <1> HIDE DEF g, sub
  <1>7. CellsOf(SparseContent, sub) = CellsOf(IndirectContent, sub)
    <2>1. ASSUME NEW v \in Nat PROVE SparseContent[<<sub, v>>] = IndirectContent[<<sub, v>>]
      <3>1. /\ SparseContent[<<sub, v>>] = Layered(Bare, sub, v)
            /\ IndirectContent[<<sub, v>>] = Layered(SparseContent, sub, v)
        BY <1>1, <1>5, OverIs
      <3>2. /\ Layered(Bare, sub, v) = Bare[<<sub, v>>]
            /\ Layered(SparseContent, sub, v) = Bare[<<sub, v>>]
        BY <1>6 DEF Layered
      <3> QED BY <3>1, <3>2
    <2> QED BY <2>1 DEF CellsOf
  <1>8. IsMoving(g)
    BY <1>2, <1>3, <1>4, <1>5 DEF IsMoving
  <1>9. SameBelow(SparseContent, IndirectContent, g)
    BY <1>2, <1>4, <1>7, OriginalStays DEF SameBelow
  <1>10. CellsOf(IndirectContent, g) = CellsOf(TopContent, g)
    BY <1>1, <1>8, <1>9, LayerStays
  <1> QED BY <1>10 DEF g

-----------------------------------------------------------------------------
\* The compressed layer

\* A compressed layer over a storage that is read right
IsPacking(g) ==
  /\ g \in Storages /\ g.type = "Compressed" /\ g.section \in DOMAIN Sections
  /\ WellFormed(g.tree, Packs) /\ PointsInside(g)
  /\ g.subs[1] \in Storages /\ g.subs[1].type # "Missing" /\ EndOf(g.subs[1]) \in Nat
  /\ IsRight(ReadIndirect, IndirectContent, g.subs[1])
  /\ CellsOf(IndirectContent, g.subs[1]) = CellsOf(TopContent, g.subs[1])

\* Where the entries of a compressed layer are counted from
HashOf(g) == Sections[g.section].hash

\* What is read for an LZ4 entry
PackedRead(g, e, c) == ReadIndirect[Request(g.subs[1], e.size, HashOf(g) + e.physical, c)]

\* Lemma: what bktrReadCompressedStorage reads of an entry.
LEMMA CompressedPiece ==
  ASSUME NEW g, IsPacking(g), NEW x, NEW n \in Nat, NEW at \in Nat, NEW c \in Ciphers,
         x.entry \in Packs, x.entry.virtual <= at
  PROVE  /\ IsResult(ReadPiece(ReadIndirect, g, x, n, at, c))
         /\ x.entry.kind = "none" /\ n # 0 =>
               ReadPiece(ReadIndirect, g, x, n, at, c)
                  = ReadIndirect[Request(g.subs[1], n, HashOf(g) + PlaceIn(x.entry, at), c)]
         /\ x.entry.kind = "zero" \/ (x.entry.kind = "lz4" /\ x.entry.size = 0) =>
               ReadPiece(ReadIndirect, g, x, n, at, c) = Done(Zeros(n), c)
         /\ x.entry.kind = "lz4" /\ x.entry.size # 0 =>
               /\ IsResult(PackedRead(g, x.entry, c))
               /\ ReadPiece(ReadIndirect, g, x, n, at, c)
                     = Result(PackedRead(g, x.entry, c).ok,
                              Cut(g, x, n, at, PackedRead(g, x.entry, c).data),
                              PackedRead(g, x.entry, c).cipher)
  <1> DEFINE e == x.entry
             sub == g.subs[1]
             held == PlaceIn(e, at)
             offset == HashOf(g) + IF e.kind = "none" THEN held ELSE e.physical
             size == IF e.kind = "none" THEN n ELSE IF e.kind = "zero" THEN 0 ELSE e.size
             handed == WithVirtual(g, at, c)
             piece == ReadPiece(ReadIndirect, g, x, n, at, c)
             r == ReadIndirect[Request(sub, size, offset, handed)]
  <1>1. /\ g.type = "Compressed" /\ g.section \in DOMAIN Sections
        /\ Answers(ReadIndirect, sub)
    BY DEF IsPacking, IsRight
  <1>2. HashOf(g) \in Nat
    BY <1>1, SectionFacts DEF HashOf
  <1>3. /\ held \in Nat /\ e.physical \in Nat /\ e.size \in Nat /\ e.kind \in {"none", "zero", "lz4"}
    BY DEF Packs, PlaceIn
  <1> HIDE DEF held, e
  <1>4. offset \in Nat /\ size \in Nat
    BY <1>2, <1>3
  <1>5. handed = c
    <2>1. g.type # "Sparse"
      BY <1>1
    <2> QED BY <2>1, CiphersAre
  <1>6. Source(g, e, n, at) = [sub |-> sub, offset |-> offset, size |-> size]
    <2> DEFINE d == at - e.virtual + e.physical
    <2>1. d = held
      BY DEF held, PlaceIn
    <2>2. offset = Sections[g.section].hash + IF e.kind = "none" THEN d ELSE e.physical
      BY <2>1 DEF HashOf
    <2> DEFINE long == CASE e.kind = "none" -> n [] e.kind = "zero" -> 0 [] e.kind = "lz4" -> e.size
    <2>3. size = long
      BY <1>3
    <2> HIDE DEF size, offset, long, sub
    <2>4. Source(g, e, n, at) = [sub |-> g.subs[1],
                                 offset |-> Sections[g.section].hash + IF e.kind = "none" THEN d ELSE e.physical,
                                 size |-> long]
      BY <1>1 DEF Source, long
    <2> QED BY <2>2, <2>3, <2>4 DEF sub
  <1> HIDE DEF offset, size, sub
  <1>7. IsResult(r)
    BY <1>1, <1>4, <1>5 DEF Answers
  <1> HIDE DEF handed, r
  <1>8. Replied(ReadIndirect, g, x.entry, n, at, c, size, r)
    BY <1>6, Zenon DEF e, r, handed, Replied
  <1>9. g.type # "AesCtrEx"
    BY <1>1
  <1>10. /\ size = 0 => piece = Done(Zeros(n), c)
         /\ size # 0 /\ x.entry.kind # "lz4" => piece = r
         /\ size # 0 /\ x.entry.kind = "lz4" => piece = Result(r.ok, Cut(g, x, n, at, r.data), r.cipher)
    <2> HIDE DEF piece
    <2>1. /\ size = 0 => ReadPiece(ReadIndirect, g, x, n, at, c) = Done(Zeros(n), c)
          /\ size # 0 /\ IsResult(r) /\ ~ (g.type = "Compressed" /\ x.entry.kind = "lz4")
                => ReadPiece(ReadIndirect, g, x, n, at, c) = r
          /\ size # 0 /\ IsResult(r) /\ g.type = "Compressed" /\ x.entry.kind = "lz4"
                => ReadPiece(ReadIndirect, g, x, n, at, c) = Result(r.ok, Cut(g, x, n, at, r.data), r.cipher)
      <3> HIDE DEF e
      <3> QED BY ONLY <1>8, <1>9, PiecesAre
    <2> QED BY <1>1, <1>7, <2>1, Zenon DEF piece
  <1> HIDE DEF piece
  <1>11. IsResult(piece)
    <2> DEFINE cut == Cut(g, x, n, at, r.data)
    <2>1. r.ok \in BOOLEAN /\ r.cipher \in Ciphers
      BY <1>7, ResultHas
    <2> HIDE DEF cut
    <2>2. IsResult(Result(r.ok, cut, r.cipher))
      BY <2>1, ResultIs
    <2>3. IsResult(Done(Zeros(n), c))
      BY DoneIs
    <2> QED BY <1>7, <1>10, <2>2, <2>3, Zenon DEF cut
  <1>12. ASSUME e.kind = "none", n # 0
         PROVE  piece = ReadIndirect[Request(sub, n, HashOf(g) + held, c)]
    <2>1. size = n /\ offset = HashOf(g) + held /\ n # 0 /\ x.entry.kind # "lz4"
      BY <1>12 DEF size, offset, e
    <2> QED BY <1>5, <1>10, <2>1 DEF r
  <1>13. ASSUME e.kind = "zero" \/ (e.kind = "lz4" /\ e.size = 0)
         PROVE  piece = Done(Zeros(n), c)
    <2>1. size = 0
      BY <1>13 DEF size
    <2> QED BY <1>10, <2>1
  <1>14. ASSUME e.kind = "lz4", e.size # 0
         PROVE  IsResult(PackedRead(g, e, c))
                /\ piece = Result(PackedRead(g, e, c).ok, Cut(g, x, n, at, PackedRead(g, e, c).data),
                                  PackedRead(g, e, c).cipher)
    <2>1. size = e.size /\ offset = HashOf(g) + e.physical /\ x.entry.kind = "lz4"
      BY <1>14 DEF size, offset, e
    <2>2. r = PackedRead(g, e, c)
      BY <1>5, <2>1 DEF r, PackedRead, sub
    <2>3. piece = Result(r.ok, Cut(g, x, n, at, r.data), r.cipher)
      BY <1>10, <1>14, <2>1, Zenon
    <2> QED BY <1>7, <2>2, <2>3, Zenon
  <1> QED BY <1>11, <1>12, <1>13, <1>14 DEF piece, e, held, sub

\* The cells an LZ4 entry expands to
Expanded(g, e) == [q \in Nat |-> <<"lz4", g.section, e.physical, q>>]

\* Where the compressed form of an LZ4 entry starts in the storage below.
FirstOf(g, e) == HashOf(g) + e.physical

\* Lemma: a cell that was expanded is not a missing one.
LEMMA ExpandedIsThere ==
  ASSUME NEW a, NEW b, NEW q
  PROVE  <<"lz4", a, b, q>> # Absent
  <1>1. <<"lz4", a, b, q>>[1] = "lz4" /\ Absent[1] = "absent"
    BY DEF Absent
  <1> QED BY <1>1

\* Lemma: what a compressed layer holds of an LZ4 entry.
LEMMA PackedHolds ==
  ASSUME NEW g, IsPacking(g), NEW p, NEW from, NEW to, CoversPart(g.tree, p, from, to),
         NEW e, e = Visited(g.tree, p), e.kind = "lz4", e.size # 0,
         NEW v \in Nat, from <= v, v < to
  PROVE  LET first == FirstOf(g, e)
             G == CellsOf(IndirectContent, g.subs[1])
             there == AllThere(G, first, first + e.size)
         IN /\ first \in Nat /\ e.size \in Nat /\ first + e.size <= EndOf(g.subs[1])
            /\ there => CellsOf(TopContent, g)[v] = Expanded(g, e)[v - e.virtual]
            /\ ~ there => CellsOf(TopContent, g)[v] = Absent
  <1> DEFINE sub == g.subs[1]
             first == FirstOf(g, e)
             last == first + e.size
             G == CellsOf(IndirectContent, sub)
             F == CellsOf(TopContent, g)
             held == Held(g, e, v)
             below == CellsBelow(IndirectContent, held)
             there == AllThere(G, first, last)
  <1>1. /\ p \in Places(g.tree) /\ from \in Nat /\ to \in Nat /\ from < to
        /\ e.virtual <= from /\ to <= Extents(g.tree, p).next
    BY DEF CoversPart
  <1>2. /\ g \in Storages /\ g.type = "Compressed" /\ g.section \in DOMAIN Sections
        /\ WellFormed(g.tree, Packs) /\ PointsInside(g)
        /\ sub.type # "Missing" /\ EndOf(sub) \in Nat
    BY DEF IsPacking
  <1>3. IsTree(g.tree) /\ e \in Packs
    BY <1>1, <1>2, TablesAreTrees
  <1>4. /\ e.virtual \in Nat /\ e.physical \in Nat /\ e.size \in Nat
        /\ HashOf(g) \in Nat /\ Extents(g.tree, p).next \in Nat
    BY <1>1, <1>2, <1>3, SectionFacts, ExtentsAreCovered DEF Packs, HashOf
  <1>5. first \in Nat /\ last \in Nat /\ first < last
    BY <1>4 DEF FirstOf
  <1>6. F[v] = MadeOf(below, g, e, v) /\ IsInside(held)
    <2>1. /\ Visited(g.tree, p).virtual <= v /\ v < Extents(g.tree, p).next
          /\ g.type \notin {"Missing", "Regular", "AesCtrEx"}
      BY <1>1, <1>2, <1>4
    <2>2. Over(ReadIndirect, IndirectContent, TopReads, TopContent)
      BY Layers
    <2> HIDE DEF held, below, F
    <2>3. /\ CellsOf(TopContent, g)[v]
                = MadeOf(CellsBelow(IndirectContent, Held(g, Visited(g.tree, p), v)), g, Visited(g.tree, p), v)
          /\ PointsInside(g) => IsInside(Held(g, Visited(g.tree, p), v))
      BY <1>1, <1>2, <1>3, <2>1, <2>2, LayerIs
    <2> QED BY <1>2, <2>3 DEF held, below, F
  <1>7. held.in = sub /\ held.cells = first..(last - 1)
    <2>1. PackedCells(g, e) = first..(last - 1)
      <3> DEFINE a == HashOf(g) + e.physical
                 b == a + e.size - 1
      <3>1. PackedCells(g, e) = a..b
        BY Zenon DEF PackedCells, HashOf
      <3>2. first = a /\ last - 1 = b
        BY <1>4 DEF FirstOf
      <3> HIDE DEF a, b, first, last
      <3> QED BY <3>1, <3>2
    <2> DEFINE packed == PackedCells(g, e)
    <2> HIDE DEF packed
    <2> DEFINE cell == HashOf(g) * (IF g.type = "Compressed" THEN 1 ELSE 0) + v - e.virtual + e.physical
    <2> HIDE DEF cell
    <2>3. held = CASE g.type = "Indirect" -> [in |-> g.subs[e.index + 1], cells |-> {cell}]
                   [] g.type = "Sparse" -> [in |-> sub, cells |-> IF e.index = 0 THEN {cell} ELSE {}]
                   [] g.type = "Compressed" ->
                         [in |-> sub, cells |-> CASE e.kind = "none" -> {cell}
                                                  [] e.kind = "zero" -> {}
                                                  [] e.kind = "lz4"  -> packed]
      BY Zenon DEF Held, packed, cell, HashOf
    <2> HIDE DEF held, sub
    <2>2. held = [in |-> sub, cells |-> packed]
      BY <1>2, <2>3
    <2> HIDE DEF held, sub, first, last
    <2> QED BY <2>1, <2>2 DEF packed
  <1> HIDE DEF held, sub
  <1>8. last <= EndOf(sub)
    <2> HIDE DEF first, last
    <2>1. first..(last - 1) \subseteq 0..(EndOf(sub) - 1)
      BY <1>2, <1>6, <1>7 DEF IsInside
    <2>2. last - 1 \in first..(last - 1)
      BY <1>5
    <2>3. last - 1 \in 0..(EndOf(sub) - 1)
      BY <2>1, <2>2
    <2> QED BY <1>2, <1>5, <2>3
  <1> HIDE DEF first, last, F, G
  <1>9. \A x : x \in below <=> \E q \in Nat : first <= q /\ q < last /\ x = G[q]
    <2>1. \A q \in Nat : G[q] = IndirectContent[<<sub, q>>]
      BY DEF G, CellsOf
    <2>2. below = {IndirectContent[<<sub, q>>] : q \in first..(last - 1)}
      BY <1>7, Zenon DEF CellsBelow
    <2>3. \A q : q \in first..(last - 1) <=> q \in Nat /\ first <= q /\ q < last
      BY <1>5
    <2> HIDE DEF below
    <2> QED BY <2>1, <2>2, <2>3
  <1> HIDE DEF below
  <1>10. there <=> Absent \notin below
    BY <1>9 DEF AllThere
  <1>11. below # {}
    BY <1>5, <1>9
  <1>12. Expanded(g, e)[v - e.virtual] = <<"lz4", g.section, e.physical, v - e.virtual>>
    <2>1. v - e.virtual \in Nat
      BY <1>1, <1>4
    <2> QED BY <2>1 DEF Expanded
  <1> HIDE DEF there
  <1>13. ASSUME there PROVE F[v] = Expanded(g, e)[v - e.virtual]
    <2>1. MadeOf(below, g, e, v) = <<"lz4", g.section, e.physical, v - e.virtual>>
      BY <1>2, <1>10, <1>11, <1>13, Zenon DEF MadeOf
    <2> QED BY <1>6, <1>12, <2>1, Zenon
  <1>14. ASSUME ~ there PROVE F[v] = Absent
    <2>1. MadeOf(below, g, e, v) = Absent
      BY <1>10, <1>14, Zenon DEF MadeOf
    <2> QED BY <1>6, <2>1, Zenon
  <1> QED BY <1>4, <1>5, <1>8, <1>13, <1>14, Zenon DEF sub, first, last, G, F, there

\* Lemma: what is read for an LZ4 entry is its compressed form, when it is what the storage holds.
LEMMA PackedIs ==
  ASSUME NEW g, IsPacking(g), NEW e \in Packs
  PROVE  Packed(g, e) = Row(CellsOf(IndirectContent, g.subs[1]), FirstOf(g, e), FirstOf(g, e) + e.size)
  <1> DEFINE sub == g.subs[1]
             first == FirstOf(g, e)
             size == e.size
             G == CellsOf(IndirectContent, sub)
  <1>1. /\ g.section \in DOMAIN Sections /\ sub \in Storages
        /\ CellsOf(IndirectContent, sub) = CellsOf(TopContent, sub)
    BY DEF IsPacking
  <1>2. first \in Nat /\ size \in Nat
    BY <1>1, SectionFacts DEF FirstOf, HashOf, Packs
  <1>3. Packed(g, e) = [j \in 1..size |-> Content(sub, first + j - 1)]
    BY Zenon DEF Packed, Contents, FirstOf, HashOf
  <1> HIDE DEF sub, first, size
  <1>4. ASSUME NEW j \in 1..size PROVE Content(sub, first + j - 1) = G[first + j - 1]
    <2> DEFINE v == first + j - 1
    <2>1. v \in Nat
      BY <1>2
    <2> HIDE DEF v, G
    <2>2. TopContent[<<sub, v>>] = Layered(IndirectContent, sub, v)
      <3>1. Over(ReadIndirect, IndirectContent, TopReads, TopContent)
        BY Layers
      <3> QED BY <1>1, <2>1, <3>1, OverIs
    <2>3. G[v] = TopContent[<<sub, v>>]
      <3>1. G = CellsOf(TopContent, sub)
        BY <1>1 DEF G
      <3>2. CellsOf(TopContent, sub)[v] = TopContent[<<sub, v>>]
        BY <2>1 DEF CellsOf
      <3> QED BY <3>1, <3>2
    <2>4. Content(sub, v) = G[v]
      BY <2>2, <2>3, Zenon DEF Content
    <2> QED BY <2>4 DEF v
  <1>5. Row(G, first, first + size) = [j \in 1..size |-> G[first + j - 1]]
    <2>1. (first + size) - first = size
      BY <1>2
    <2> HIDE DEF G
    <2> QED BY <2>1 DEF Row
  <1> HIDE DEF G
  <1>6. Packed(g, e) = Row(G, first, first + size)
    BY <1>3, <1>4, <1>5
  <1> QED BY <1>6 DEF sub, first, size, G

\* What is cut out of the compressed form of an LZ4 entry, between two offsets
CutOut(g, x, from, to, packed) == Cut(g, x, to - from, from, packed)

\* What the entry expands to between the two offsets
ExpandedPart(g, e, from, to) == Row(Expanded(g, e), from - e.virtual, to - e.virtual)

\* Lemma: what is cut out is that part of what the entry expands to.
LEMMA CutIs ==
  ASSUME NEW g, NEW x, NEW from \in Nat, NEW to \in Nat, from < to,
         x.entry \in Packs, x.entry.virtual <= from, x.next \in Nat, to <= x.next
  PROVE  CutOut(g, x, from, to, Packed(g, x.entry)) = ExpandedPart(g, x.entry, from, to)
  <1> DEFINE e == x.entry
             U == Expanded(g, e)
             size == x.next - e.virtual
             a == from - e.virtual
             b == to - e.virtual
  <1>1. e.virtual \in Nat
    BY DEF Packs
  <1>2. /\ size \in Nat /\ a \in Nat /\ b \in Nat /\ a <= b /\ b <= size /\ 0 <= a
        /\ a + (to - from) = b
    BY <1>1
  <1>3. Unpacked(g, e, size) = Row(U, 0, size)
    <2> HIDE DEF size, e
    <2>1. Row(U, 0, size) = [j \in 1..(size - 0) |-> U[0 + j - 1]]
      BY DEF Row
    <2>2. size - 0 = size
      BY <1>2
    <2>3. ASSUME NEW j \in 1..size PROVE U[0 + j - 1] = <<"lz4", g.section, e.physical, j - 1>>
      <3>1. 0 + j - 1 = j - 1 /\ j - 1 \in Nat
        BY <1>2
      <3> QED BY <3>1 DEF Expanded
    <2> HIDE DEF U
    <2>4. Unpacked(g, e, size) = [j \in 1..size |-> <<"lz4", g.section, e.physical, j - 1>>]
      BY DEF Unpacked
    <2> QED BY <2>1, <2>2, <2>3, <2>4
  <1>4. CutOut(g, x, from, to, Packed(g, e)) = SubSeq(Unpacked(g, e, size), a + 1, a + (to - from))
    BY Zenon DEF Cut, CutOut
  <1> HIDE DEF U, size, a, b, e
  <1>5. Part(Row(U, 0, size), a, b) = Row(U, a, b)
    BY <1>2, RowPart
  <1>6. CutOut(g, x, from, to, Packed(g, e)) = Part(Row(U, 0, size), a, b)
    BY <1>2, <1>3, <1>4, Zenon DEF Part
  <1> QED BY <1>5, <1>6, Zenon DEF U, a, b, e, ExpandedPart

\* Lemma: what a read of an LZ4 entry returns is what the layer holds.
LEMMA PackedReturns ==
  ASSUME NEW g, IsPacking(g), NEW p, NEW from, NEW to, CoversPart(g.tree, p, from, to),
         Visited(g.tree, p).kind = "lz4", Visited(g.tree, p).size # 0,
         NEW c \in Ciphers, c.virtual = 0
  PROVE  LET r == PackedRead(g, Visited(g.tree, p), c)
         IN Returns(Result(r.ok, Cut(g, Extents(g.tree, p), to - from, from, r.data), r.cipher),
                    CellsOf(TopContent, g), from, to, c)
  <1> DEFINE e == Visited(g.tree, p)
             x == Extents(g.tree, p)
             sub == g.subs[1]
             first == FirstOf(g, e)
             last == first + e.size
             G == CellsOf(IndirectContent, sub)
             F == CellsOf(TopContent, g)
             r == PackedRead(g, e, c)
             cut == Cut(g, x, to - from, from, r.data)
             piece == Result(r.ok, cut, r.cipher)
  <1>1. /\ p \in Places(g.tree) /\ from \in Nat /\ to \in Nat /\ from < to
        /\ e.virtual <= from /\ to <= x.next
    BY DEF CoversPart
  <1>2. /\ WellFormed(g.tree, Packs) /\ sub.type # "Missing" /\ EndOf(sub) \in Nat
        /\ IsRight(ReadIndirect, IndirectContent, sub)
    BY DEF IsPacking
  <1>3. IsTree(g.tree) /\ e \in Packs
    BY <1>1, <1>2, TablesAreTrees
  <1>4. x.entry = e /\ x.next \in Nat /\ e.virtual \in Nat
    BY <1>1, <1>3, ExtentsAreCovered DEF Packs
  <1>5. ASSUME NEW v \in Nat, from <= v, v < to
        PROVE  /\ first \in Nat /\ e.size \in Nat /\ last <= EndOf(sub)
               /\ AllThere(G, first, last) => F[v] = Expanded(g, e)[v - e.virtual]
               /\ ~ AllThere(G, first, last) => F[v] = Absent
    BY <1>5, PackedHolds
  <1>6. first \in Nat /\ e.size \in Nat /\ last <= EndOf(sub) /\ last \in Nat /\ first < last
        /\ last - first = e.size
    <2>1. from <= from
      BY <1>1
    <2>2. first \in Nat /\ e.size \in Nat /\ last <= EndOf(sub)
      BY <1>1, <1>5, <2>1
    <2> HIDE DEF first, e
    <2> QED BY <2>2 DEF e
  <1>7. Returns(r, G, first, last, c)
    <2>1. ReturnsWithin(ReadIndirect, IndirectContent, sub)
      BY <1>2 DEF IsRight
    <2>2. r = ReadIndirect[Request(sub, last - first, first, c)]
      BY <1>6, Zenon DEF PackedRead, FirstOf
    <2> HIDE DEF first, last, r, sub
    <2> QED BY <1>2, <1>6, <2>1, <2>2 DEF ReturnsWithin, G
  <1> HIDE DEF first, last, r, sub, G, F
  <1>8. AllThere(F, from, to) <=> AllThere(G, first, last)
    <2>1. CASE AllThere(G, first, last)
      <3>1. ASSUME NEW v \in Nat, from <= v, v < to PROVE F[v] # Absent
        <4>1. v - e.virtual \in Nat
          BY <1>1, <1>4, <3>1
        <4>2. Expanded(g, e)[v - e.virtual] = <<"lz4", g.section, e.physical, v - e.virtual>>
          BY <4>1 DEF Expanded
        <4>3. F[v] = Expanded(g, e)[v - e.virtual]
          BY <1>5, <2>1, <3>1
        <4> QED BY <4>2, <4>3, ExpandedIsThere
      <3> QED BY <2>1, <3>1 DEF AllThere
    <2>2. CASE ~ AllThere(G, first, last)
      <3>1. F[from] = Absent
        BY <1>1, <1>5, <2>2
      <3> QED BY <1>1, <2>2, <3>1 DEF AllThere
    <2> QED BY <2>1, <2>2
  <1>9. /\ IsResult(r) /\ r.cipher.virtual = 0 /\ r.cipher.unreadable = c.unreadable
        /\ r.ok => r.data = Row(G, first, last) /\ AllThere(G, first, last)
        /\ c.unreadable = {} /\ AllThere(G, first, last) => r.ok
    BY <1>7, Zenon DEF Returns
  <1>10. r.ok => cut = Row(F, from, to)
    <2>1. SUFFICES ASSUME r.ok PROVE cut = Row(F, from, to)
      OBVIOUS
    <2>2. r.data = Packed(g, x.entry)
      <3>1. Packed(g, e) = Row(G, first, last)
        BY <1>3, PackedIs DEF sub, G, first, last
      <3> QED BY <1>4, <1>9, <2>1, <3>1
    <2>3. cut = ExpandedPart(g, e, from, to)
      <3>1. cut = CutOut(g, x, from, to, Packed(g, x.entry))
        BY <2>2, Zenon DEF CutOut
      <3> HIDE DEF cut, x, e
      <3>2. x.entry \in Packs /\ x.entry.virtual <= from
        BY <1>1, <1>3, <1>4
      <3>3. CutOut(g, x, from, to, Packed(g, x.entry)) = ExpandedPart(g, x.entry, from, to)
        BY <1>1, <1>4, <3>2, CutIs
      <3> QED BY <1>4, <3>1, <3>3
    <2> DEFINE U == Expanded(g, e)
               a == from - e.virtual
               b == to - e.virtual
    <2>4. a \in Nat /\ b \in Nat /\ to - from = b - a /\ from <= to
      BY <1>1, <1>4
    <2>5. ASSUME NEW k \in Nat, k < to - from PROVE F[from + k] = U[a + k]
      <3> DEFINE v == from + k
      <3>1. v \in Nat /\ from <= v /\ v < to /\ v - e.virtual = a + k
        BY <1>1, <1>4, <2>5
      <3> HIDE DEF v, a
      <3>2. F[v] = U[v - e.virtual]
        BY <1>5, <1>9, <2>1, <3>1
      <3> QED BY <3>1, <3>2 DEF v
    <2> HIDE DEF U, a, b
    <2>6. SameCells(F, from, to, U, a, b)
      BY <1>1, <2>4, <2>5, Zenon DEF SameCells
    <2>7. Row(F, from, to) = Row(U, a, b)
      BY <2>6, RowsEqual
    <2> QED BY <2>3, <2>7, Zenon DEF U, a, b, ExpandedPart
  <1> HIDE DEF cut
  <1>11. r.ok \in BOOLEAN /\ r.cipher \in Ciphers
    BY <1>9, ResultHas
  <1>12. /\ IsResult(piece) /\ piece.ok = r.ok /\ piece.data = cut /\ piece.cipher = r.cipher
    BY <1>11, ResultIs
  <1> HIDE DEF piece
  <1>13. Returns(piece, F, from, to, c)
    BY <1>8, <1>9, <1>10, <1>12 DEF Returns
  <1> QED BY <1>13 DEF piece, r, cut, F

\* Lemma: an entry of a compressed layer that is not packed, or holds nothing, reads what it holds.
LEMMA UnpackedReturns ==
  ASSUME NEW g, IsPacking(g), NEW p, NEW from, NEW to, CoversPart(g.tree, p, from, to),
         NEW c \in Ciphers, c.virtual = 0
  PROVE  /\ Visited(g.tree, p).kind = "none" =>
               Returns(ReadIndirect[Request(g.subs[1], to - from,
                                            HashOf(g) + PlaceIn(Visited(g.tree, p), from), c)],
                       CellsOf(TopContent, g), from, to, c)
         /\ \/ Visited(g.tree, p).kind = "zero"
            \/ Visited(g.tree, p).kind = "lz4" /\ Visited(g.tree, p).size = 0
            => Returns(Done(Zeros(to - from), c), CellsOf(TopContent, g), from, to, c)
  <1> DEFINE e == Visited(g.tree, p)
             sub == g.subs[1]
             F == CellsOf(TopContent, g)
             hash == HashOf(g)
             at == hash + PlaceIn(e, from)
  <1>1. /\ p \in Places(g.tree) /\ from \in Nat /\ to \in Nat /\ from < to
        /\ e.virtual <= from /\ to <= Extents(g.tree, p).next
    BY DEF CoversPart
  <1>2. /\ g \in Storages /\ g.type = "Compressed" /\ g.section \in DOMAIN Sections
        /\ WellFormed(g.tree, Packs) /\ PointsInside(g)
        /\ sub \in Storages /\ EndOf(sub) \in Nat /\ IsRight(ReadIndirect, IndirectContent, sub)
    BY DEF IsPacking
  <1>3. IsTree(g.tree) /\ e \in Packs
    BY <1>1, <1>2, TablesAreTrees
  <1>4. /\ e.virtual \in Nat /\ e.physical \in Nat /\ e.size \in Nat /\ hash \in Nat
        /\ Extents(g.tree, p).next \in Nat /\ at \in Nat
    BY <1>1, <1>2, <1>3, SectionFacts, ExtentsAreCovered DEF Packs, HashOf, PlaceIn
  <1>5. Over(ReadIndirect, IndirectContent, TopReads, TopContent)
    BY Layers
  <1>6. ASSUME NEW v \in Nat
        PROVE  LET cell == hash + v - e.virtual + e.physical
               IN /\ Held(g, e, v).in = sub
                  /\ e.kind = "none" => Held(g, e, v).cells = {cell}
                  /\ e.kind = "zero" \/ (e.kind = "lz4" /\ e.size = 0) => Held(g, e, v).cells = {}
    <2> DEFINE held == Held(g, e, v)
               cell == hash + v - e.virtual + e.physical
               place == hash * (IF g.type = "Compressed" THEN 1 ELSE 0) + v - e.virtual + e.physical
               packed == PackedCells(g, e)
    <2>1. place = cell
      BY <1>2, <1>4
    <2>2. e.size = 0 => packed = {}
      <3> DEFINE first == hash + e.physical
      <3>1. packed = first..(first + e.size - 1)
        BY Zenon DEF PackedCells, HashOf
      <3>2. first \in Nat
        BY <1>4
      <3> HIDE DEF first, packed
      <3> QED BY <3>1, <3>2
    <2> HIDE DEF place, packed, cell
    <2>3. held = CASE g.type = "Indirect" -> [in |-> g.subs[e.index + 1], cells |-> {place}]
                   [] g.type = "Sparse" -> [in |-> sub, cells |-> IF e.index = 0 THEN {place} ELSE {}]
                   [] g.type = "Compressed" ->
                         [in |-> sub, cells |-> CASE e.kind = "none" -> {place}
                                                  [] e.kind = "zero" -> {}
                                                  [] e.kind = "lz4"  -> packed]
      BY Zenon DEF Held, packed, place, HashOf
    <2> HIDE DEF held, sub
    <2> DEFINE cells == CASE e.kind = "none" -> {place} [] e.kind = "zero" -> {} [] e.kind = "lz4"  -> packed
    <2>4. held = [in |-> sub, cells |-> cells]
      BY <1>2, <2>3
    <2>5. /\ e.kind = "none" => cells = {place}
          /\ e.kind = "zero" \/ (e.kind = "lz4" /\ e.size = 0) => cells = {}
      BY <2>2
    <2> HIDE DEF cells
    <2>6. held.in = sub /\ held.cells = cells
      BY <2>4
    <2> QED BY <2>1, <2>5, <2>6 DEF held, cell
  <1>7. ASSUME e.kind = "none"
        PROVE  Returns(ReadIndirect[Request(sub, to - from, at, c)], F, from, to, c)
    <2>1. PointsOn(g, e, from, to, sub, at)
      <3>1. ASSUME NEW k \in Nat, k < to - from
            PROVE  Held(g, e, from + k).in = sub /\ Held(g, e, from + k).cells = {at + k}
        <4> DEFINE v == from + k
                   cell == hash + v - e.virtual + e.physical
        <4>1. v \in Nat
          BY <1>1
        <4>2. cell = at + k
          BY <1>1, <1>4 DEF PlaceIn
        <4> HIDE DEF cell, at, hash
        <4>3. Held(g, e, v).in = sub /\ Held(g, e, v).cells = {cell}
          <5> HIDE DEF v
          <5> QED BY <1>6, <1>7, <4>1 DEF cell
        <4> QED BY <4>2, <4>3
      <3> QED BY <1>4, <3>1 DEF PointsOn
    <2> HIDE DEF sub, at
    <2>2. ~ (g.type = "Compressed" /\ Visited(g.tree, p).kind = "lz4")
      BY <1>7
    <2>3. /\ g.type \in {"Indirect", "Compressed"}
          /\ sub.type = "Missing" \/ EndOf(sub) \in Nat
      BY <1>2
    <2>4. PointsOn(g, Visited(g.tree, p), from, to, sub, at)
      BY <2>1
    <2> QED BY <1>2, <1>3, <1>5, <2>2, <2>3, <2>4, OneBelow
  <1>8. ASSUME e.kind = "zero" \/ (e.kind = "lz4" /\ e.size = 0)
        PROVE  Returns(Done(Zeros(to - from), c), F, from, to, c)
    <2>1. ASSUME NEW v \in Nat, from <= v, v < to PROVE F[v] = Zero
      <3>1. /\ Visited(g.tree, p).virtual <= v /\ v < Extents(g.tree, p).next
            /\ g.type \notin {"Missing", "Regular", "AesCtrEx"}
        BY <1>1, <1>2, <1>4, <2>1
      <3> DEFINE held == Held(g, e, v)
      <3>2. held.cells = {}
        BY <1>6, <1>8
      <3> HIDE DEF held, F
      <3>3. CellsOf(TopContent, g)[v]
               = MadeOf(CellsBelow(IndirectContent, Held(g, Visited(g.tree, p), v)), g, Visited(g.tree, p), v)
        BY <1>1, <1>2, <1>3, <1>5, <3>1, LayerIs
      <3>4. CellsBelow(IndirectContent, held) = {}
        BY <3>2 DEF CellsBelow
      <3>5. MadeOf({}, g, e, v) = Zero
        BY MadeOfNone
      <3> QED BY <3>3, <3>4, <3>5, Zenon DEF held, F
    <2>2. Returns(Done([j \in 1..(to - from) |-> Zero], c), F, from, to, c)
      <3> HIDE DEF F
      <3>1. \A v \in Nat : from <= v /\ v < to => F[v] = Zero
        BY <2>1
      <3> QED BY <1>1, <3>1, ZerosReturn
    <2> QED BY <2>2 DEF Zeros
  <1> QED BY <1>7, <1>8

\* Lemma: a compressed layer is read right.
LEMMA CompressedIsRight ==
  ASSUME NEW g, IsPacking(g)
  PROVE  IsRight(TopReads, TopContent, g)
  <1> DEFINE tree == g.tree
             F == CellsOf(TopContent, g)
  <1>1. /\ g \in Storages /\ g.type = "Compressed" /\ g.section \in DOMAIN Sections
        /\ WellFormed(tree, Packs)
    BY DEF IsPacking
  <1>2. IsTree(tree) /\ \A p \in Places(tree) : Visited(tree, p) \in Packs
    BY <1>1, TablesAreTrees
  <1> HIDE DEF tree, F
  <1>3. ASSUME NEW p \in Places(tree)
        PROVE  Extents(tree, p).entry = Visited(tree, p) /\ Extents(tree, p).entry \in Packs
    <2>1. Extents(tree, p).entry = Visited(tree, p)
      BY <1>2, ExtentsAreCovered
    <2> QED BY <1>2, <2>1
  <1>4. PiecesAreResults(ReadIndirect, g)
    <2>1. ASSUME NEW p \in Places(tree), NEW n \in Nat, NEW at \in Nat, NEW c \in Ciphers,
                 Visited(tree, p).virtual <= at
          PROVE  IsResult(ReadPiece(ReadIndirect, g, Extents(tree, p), n, at, c))
      <3> DEFINE x == Extents(tree, p)
      <3>1. x.entry \in Packs /\ x.entry.virtual <= at
        BY <1>3, <2>1
      <3> HIDE DEF x
      <3>2. IsResult(ReadPiece(ReadIndirect, g, x, n, at, c))
        BY <3>1, CompressedPiece
      <3> QED BY <3>2 DEF x
    <2> QED BY <2>1 DEF PiecesAreResults, tree
  <1>5. ASSUME NEW p \in Places(tree), NEW from \in Nat, NEW to \in Nat, NEW c \in Ciphers,
               Visited(tree, p).virtual <= from, from < to, to <= Extents(tree, p).next,
               c.virtual = 0
        PROVE  Returns(ReadPiece(ReadIndirect, g, Extents(tree, p), to - from, from, c), F, from, to, c)
    <2> DEFINE x == Extents(tree, p)
               e == Visited(tree, p)
               n == to - from
               piece == ReadPiece(ReadIndirect, g, x, n, from, c)
               r == PackedRead(g, e, c)
    <2>1. x.entry = e /\ x.entry \in Packs /\ x.entry.virtual <= from
      BY <1>3, <1>5
    <2>2. n \in Nat /\ n # 0
      BY <1>5
    <2>3. CoversPart(g.tree, p, from, to)
      BY <1>5 DEF CoversPart, tree
    <2> HIDE DEF x, n
    <2>4. /\ x.entry.kind = "none" /\ n # 0 =>
                ReadPiece(ReadIndirect, g, x, n, from, c)
                   = ReadIndirect[Request(g.subs[1], n, HashOf(g) + PlaceIn(x.entry, from), c)]
          /\ x.entry.kind = "zero" \/ (x.entry.kind = "lz4" /\ x.entry.size = 0) =>
                ReadPiece(ReadIndirect, g, x, n, from, c) = Done(Zeros(n), c)
          /\ x.entry.kind = "lz4" /\ x.entry.size # 0 =>
                ReadPiece(ReadIndirect, g, x, n, from, c)
                   = Result(PackedRead(g, x.entry, c).ok,
                            Cut(g, x, n, from, PackedRead(g, x.entry, c).data),
                            PackedRead(g, x.entry, c).cipher)
      <3> HIDE DEF e
      <3> QED BY <2>1, <2>2, CompressedPiece
    <2>5. e.kind \in {"none", "zero", "lz4"}
      BY <2>1 DEF Packs
    <2>6. CASE e.kind = "none"
      <3>1. Returns(ReadIndirect[Request(g.subs[1], to - from, HashOf(g) + PlaceIn(Visited(g.tree, p), from), c)],
                    CellsOf(TopContent, g), from, to, c)
        <4>1. Visited(g.tree, p).kind = "none"
          BY <2>6 DEF tree
        <4> QED BY <1>5, <2>3, <4>1, UnpackedReturns
      <3>2. piece = ReadIndirect[Request(g.subs[1], n, HashOf(g) + PlaceIn(e, from), c)]
        <4> HIDE DEF e
        <4> QED BY <2>1, <2>2, <2>4, <2>6, Zenon
      <3> QED BY <3>1, <3>2, Zenon DEF n, tree, F, x
    <2>7. CASE e.kind = "zero" \/ (e.kind = "lz4" /\ e.size = 0)
      <3>1. Returns(Done(Zeros(to - from), c), CellsOf(TopContent, g), from, to, c)
        <4>1. \/ Visited(g.tree, p).kind = "zero"
              \/ Visited(g.tree, p).kind = "lz4" /\ Visited(g.tree, p).size = 0
          BY <2>7 DEF tree
        <4> QED BY <1>5, <2>3, <4>1, UnpackedReturns
      <3>2. piece = Done(Zeros(n), c)
        <4> HIDE DEF e
        <4> QED BY <2>1, <2>4, <2>7, Zenon
      <3> QED BY <3>1, <3>2, Zenon DEF n, F, x
    <2>8. CASE e.kind = "lz4" /\ e.size # 0
      <3>1. LET q == PackedRead(g, Visited(g.tree, p), c)
            IN Returns(Result(q.ok, Cut(g, Extents(g.tree, p), to - from, from, q.data), q.cipher),
                       CellsOf(TopContent, g), from, to, c)
        <4>1. Visited(g.tree, p).kind = "lz4" /\ Visited(g.tree, p).size # 0
          BY <2>8 DEF tree
        <4> QED BY <1>5, <2>3, <4>1, PackedReturns
      <3>2. piece = Result(r.ok, Cut(g, x, n, from, r.data), r.cipher)
        <4> HIDE DEF e
        <4> QED BY <2>1, <2>4, <2>8, Zenon
      <3> QED BY <3>1, <3>2, Zenon DEF n, tree, F, x
    <2> QED BY <2>5, <2>6, <2>7, <2>8 DEF x, n
  <1>6. PiecesReturn(ReadIndirect, g, F)
    BY <1>5 DEF PiecesReturn, tree
  <1>7. EndOf(g) = g.tree.end /\ g.type \notin {"Missing", "Regular"}
    BY <1>1 DEF EndOf
  <1>8. Over(ReadIndirect, IndirectContent, TopReads, TopContent)
    BY Layers
  <1> QED BY <1>1, <1>2, <1>4, <1>6, <1>7, <1>8, TreeIsRight DEF F, tree

-----------------------------------------------------------------------------
\* The storage a title is opened with

\* Lemma: the sections of a title are a base, a patch, or a patch over a base.
LEMMA TitleIs ==
  ASSUME NEW t \in Titles
  PROVE  /\ IsBase(t.base) /\ (t.patch # None => IsPatch(t.patch, t.base))
         /\ t.base # None => t.base \in DOMAIN Sections
         /\ t.patch = None => t.base # None
  <1>1. /\ t.base # None => t.base \in DOMAIN Sections /\ Sections[t.base].indirect = None
        /\ t.patch # None => t.patch \in DOMAIN Sections /\ Sections[t.patch].indirect # None
        /\ t.base # None \/ t.patch # None
    BY TitlesAssumption
  <1>2. t.base # None => (Sections[t.base].sparse # None => PointsInside(SparseOf(t.base)))
    BY TablesPointInside
  <1>3. t.patch # None => /\ Sections[t.patch].ctrEx.end <= Sections[t.patch].size
                          /\ PointsInside(IndirectOf(t.patch, t.base))
    BY TablesPointInside
  <1>4. IsBase(t.base)
    BY <1>1, <1>2 DEF IsBase
  <1> QED BY <1>1, <1>3, <1>4 DEF IsPatch

\* A storage whose reads return what it holds
Readable(g) ==
  /\ g \in Storages /\ g.type # "Missing" /\ EndOf(g) \in Nat
  /\ IsRight(TopReads, TopContent, g)

\* Lemma: a patch over its base is readable, and what a compressed layer over it needs.
LEMMA PatchIsReadable ==
  ASSUME NEW s, NEW base, IsPatch(s, base)
  PROVE  LET i == IndirectOf(s, base)
         IN /\ Readable(i) /\ IsRight(ReadIndirect, IndirectContent, i)
            /\ CellsOf(IndirectContent, i) = CellsOf(TopContent, i)
  <1> DEFINE i == IndirectOf(s, base)
  <1>1. /\ Above(ReadBare, Bare, ReadSparse, SparseContent)
        /\ Above(ReadSparse, SparseContent, ReadIndirect, IndirectContent)
        /\ Above(ReadIndirect, IndirectContent, TopReads, TopContent)
    BY LayersAbove
  <1>2. i.type # "Missing"
    BY DEF IndirectOf, Storage
  <1>3. i \in Storages /\ EndOf(i) \in Nat /\ IsRight(ReadIndirect, IndirectContent, i)
    BY <1>1, PatchIsRight
  <1>4. IsRight(TopReads, TopContent, i)
    BY <1>1, PatchIsRight
  <1>5. CellsOf(IndirectContent, i) = CellsOf(TopContent, i)
    BY PatchStays
  <1> QED BY <1>2, <1>3, <1>4, <1>5 DEF Readable

\* Lemma: so is a section alone that no layer moves.
LEMMA SectionIsReadable ==
  ASSUME NEW s \in DOMAIN Sections, Sections[s].indirect = None, Sections[s].sparse = None
  PROVE  LET i == Regular(s)
         IN /\ Readable(i) /\ IsRight(ReadIndirect, IndirectContent, i)
            /\ CellsOf(IndirectContent, i) = CellsOf(TopContent, i)
  <1> DEFINE i == Regular(s)
  <1>1. /\ Above(ReadSparse, SparseContent, ReadIndirect, IndirectContent)
        /\ Above(ReadIndirect, IndirectContent, TopReads, TopContent)
    BY LayersAbove
  <1>2. i.type = "Regular"
    BY DEF Regular
  <1>3. i \in Storages /\ EndOf(i) \in Nat /\ IsRight(ReadIndirect, IndirectContent, i)
    BY <1>1, SectionIsRight
  <1>4. IsRight(TopReads, TopContent, i)
    BY <1>1, SectionIsRight
  <1>5. SeesSections(ReadIndirect, IndirectContent) /\ SeesSections(TopReads, TopContent)
    BY <1>1, OverIs DEF Above
  <1> HIDE DEF i
  <1>6. CellsOf(IndirectContent, i) = CellsOf(Bare, i) /\ CellsOf(TopContent, i) = CellsOf(Bare, i)
    BY <1>2, <1>3, <1>5, BareStaysRight
  <1>7. /\ Readable(i) /\ IsRight(ReadIndirect, IndirectContent, i)
        /\ CellsOf(IndirectContent, i) = CellsOf(TopContent, i)
    BY <1>2, <1>3, <1>4, <1>6 DEF Readable
  <1> QED BY <1>7 DEF i

\* Lemma: a compressed layer over either of them is readable.
LEMMA PackingIsReadable ==
  ASSUME NEW s \in DOMAIN Sections, Sections[s].compressed # None, NEW sub, Readable(sub),
         IsRight(ReadIndirect, IndirectContent, sub),
         CellsOf(IndirectContent, sub) = CellsOf(TopContent, sub),
         NEW g \in Storages, g = Storage("Compressed", s, Sections[s].compressed, <<sub>>),
         PointsInside(g)
  PROVE  Readable(g)
  <1>1. WellFormed(Sections[s].compressed, Packs)
    BY SectionsAssumption
  <1>2. /\ g.type = "Compressed" /\ g.section = s /\ g.tree = Sections[s].compressed
        /\ g.subs[1] = sub
    BY StorageIs
  <1>3. IsPacking(g)
    BY <1>1, <1>2 DEF IsPacking, Readable
  <1>4. EndOf(g) = g.tree.end /\ g.type # "Missing"
    BY <1>2 DEF EndOf
  <1>5. g.tree.end \in Nat
    BY <1>1, <1>2 DEF WellFormed
  <1> QED BY <1>3, <1>4, <1>5, CompressedIsRight DEF Readable

\* Theorem: any read within the storage a title is opened with returns what the storage holds.
THEOREM TitleIsReadable ==
  ASSUME NEW t \in Titles
  PROVE  Readable(StorageOf(IF t.patch # None THEN t.patch ELSE t.base, t.base))
  <1>1. /\ IsBase(t.base) /\ (t.patch # None => IsPatch(t.patch, t.base))
        /\ t.base # None => t.base \in DOMAIN Sections
        /\ t.patch = None => t.base # None
    BY TitleIs
  <1>2. CASE t.patch # None
    <2> DEFINE s == t.patch
               i == IndirectOf(s, t.base)
               g == StorageOf(s, t.base)
    <2>1. IsPatch(s, t.base) /\ s \in DOMAIN Sections /\ Sections[s].indirect # None
      BY <1>1, <1>2 DEF IsPatch
    <2>2. Sections[s].sparse = None
      BY <2>1, SectionsAssumption
    <2>3. UncompressedOf(s, t.base) = i
      BY <2>1 DEF UncompressedOf
    <2>4. /\ Readable(i) /\ IsRight(ReadIndirect, IndirectContent, i)
          /\ CellsOf(IndirectContent, i) = CellsOf(TopContent, i)
      BY <2>1, PatchIsReadable
    <2>5. g = IF Sections[s].compressed # None
              THEN Storage("Compressed", s, Sections[s].compressed, <<i>>) ELSE i
      BY <2>2, <2>3 DEF StorageOf
    <2>6. g \in Storages
      <3>1. t.base \in DOMAIN Sections \cup {None}
        BY <1>1
      <3> QED BY <2>1, <3>1, StoragesAre
    <2>7. PointsInside(g)
      BY <1>2, TablesPointInside
    <2>8. Readable(g)
      <3> HIDE DEF i, g
      <3>1. CASE Sections[s].compressed = None
        BY <2>4, <2>5, <3>1
      <3>2. CASE Sections[s].compressed # None
        <4>1. g = Storage("Compressed", s, Sections[s].compressed, <<i>>)
          BY <2>5, <3>2
        <4> HIDE DEF s
        <4> QED BY <2>1, <2>4, <2>6, <2>7, <3>2, <4>1, PackingIsReadable
      <3> QED BY <3>1, <3>2
    <2> QED BY <1>2, <2>8
  <1>3. CASE t.patch = None
    <2> DEFINE s == t.base
               g == StorageOf(s, s)
    <2>1. s # None /\ s \in DOMAIN Sections /\ Sections[s].indirect = None /\ IsBase(s)
      BY <1>1, <1>3 DEF IsBase
    <2>2. g \in Storages
      <3>1. s \in DOMAIN Sections \cup {None}
        BY <2>1
      <3> QED BY <2>1, <3>1, StoragesAre
    <2>3. CASE Sections[s].sparse # None
      <3>1. g = SparseOf(s) /\ OriginalOf(s) = SparseOf(s)
        BY <2>1, <2>3 DEF StorageOf, UncompressedOf, OriginalOf
      <3>2. Above(ReadIndirect, IndirectContent, TopReads, TopContent)
        BY LayersAbove
      <3>3. SparseOf(s).type = "Sparse"
        BY DEF SparseOf, Storage
      <3>4. /\ OriginalOf(s) \in Storages /\ IsRight(TopReads, TopContent, OriginalOf(s))
            /\ OriginalOf(s).type = "Missing" \/ EndOf(OriginalOf(s)) \in Nat
        BY <2>1, <3>2, OriginalIsRight
      <3>5. Readable(SparseOf(s))
        BY <3>1, <3>3, <3>4 DEF Readable
      <3> QED BY <1>3, <3>1, <3>5
    <2>4. CASE Sections[s].sparse = None
      <3> DEFINE i == Regular(s)
      <3>1. UncompressedOf(s, s) = i /\ UncompressedOf(s, None) = i
        BY <2>1, <2>4 DEF UncompressedOf
      <3>2. /\ Readable(i) /\ IsRight(ReadIndirect, IndirectContent, i)
            /\ CellsOf(IndirectContent, i) = CellsOf(TopContent, i)
        BY <2>1, <2>4, SectionIsReadable
      <3>3. g = IF Sections[s].compressed # None
                THEN Storage("Compressed", s, Sections[s].compressed, <<i>>) ELSE i
        BY <2>4, <3>1 DEF StorageOf
      <3>4. Sections[s].compressed # None => PointsInside(g)
        <4> SUFFICES ASSUME Sections[s].compressed # None PROVE PointsInside(g)
          OBVIOUS
        <4>1. g = StorageOf(s, None)
          BY <2>4, <3>1 DEF StorageOf
        <4>2. g.type = "Compressed"
          BY <3>3 DEF Storage
        <4> HIDE DEF g
        <4> QED BY <2>1, <4>1, <4>2, TablesPointInside
      <3>5. Readable(g)
        <4> HIDE DEF i, g
        <4>1. CASE Sections[s].compressed = None
          BY <3>2, <3>3, <4>1
        <4>2. CASE Sections[s].compressed # None
          <5>1. g = Storage("Compressed", s, Sections[s].compressed, <<i>>) /\ PointsInside(g)
            BY <3>3, <3>4, <4>2
          <5> HIDE DEF s
          <5> QED BY <2>1, <2>2, <3>2, <4>2, <5>1, PackingIsReadable
        <4> QED BY <4>1, <4>2
      <3> QED BY <1>3, <3>5
    <2> QED BY <2>3, <2>4
  <1> QED BY <1>2, <1>3

\* Lemma: a read of the outermost storage is one of the top layer.
LEMMA ReadSubIs ==
  ASSUME NEW g \in Storages, NEW size \in Nat, NEW offset \in Nat, NEW c \in Ciphers
  PROVE  ReadSub(g, size, offset, c) = TopReads[Request(g, size, offset, c)]
  <1> DEFINE r == Request(g, size, offset, c)
  <1>1. r \in Requests
    BY RequestIs
  <1> HIDE DEF r
  <1>2. TopReads[r] = ReadLayered(ReadIndirect, r)
    BY <1>1 DEF TopReads
  <1> QED BY <1>2, Zenon DEF ReadSub, r

\* Lemma: what a storage holds is a row of the top content.
LEMMA ContentsAre ==
  ASSUME NEW g \in Storages, NEW offset \in Nat, NEW size \in Nat
  PROVE  LET F == CellsOf(TopContent, g)
             held == Contents(g, offset, size)
         IN /\ held = Row(F, offset, offset + size)
            /\ AllThere(F, offset, offset + size) <=> \A j \in DOMAIN held : held[j] # Absent
  <1> DEFINE F == CellsOf(TopContent, g)
             held == Contents(g, offset, size)
             end == offset + size
  <1>1. ASSUME NEW v \in Nat PROVE Content(g, v) = F[v]
    <2>1. Over(ReadIndirect, IndirectContent, TopReads, TopContent)
      BY Layers
    <2>2. TopContent[<<g, v>>] = Layered(IndirectContent, g, v)
      BY <2>1, OverIs
    <2>3. F[v] = TopContent[<<g, v>>]
      BY DEF CellsOf
    <2> HIDE DEF F
    <2> QED BY <2>2, <2>3, Zenon DEF Content
  <1> HIDE DEF F
  <1>2. held = [j \in 1..size |-> F[offset + j - 1]]
    <2>1. \A j \in 1..size : offset + j - 1 \in Nat
      OBVIOUS
    <2>2. held = [j \in 1..size |-> Content(g, offset + j - 1)]
      BY DEF Contents
    <2> HIDE DEF held
    <2> QED BY <1>1, <2>1, <2>2
  <1> HIDE DEF held
  <1>3. held = Row(F, offset, end)
    <2>1. end - offset = size
      OBVIOUS
    <2> HIDE DEF end
    <2> QED BY <1>2, <2>1 DEF Row
  <1>4. DOMAIN held = 1..size /\ \A j \in 1..size : held[j] = F[offset + j - 1]
    BY <1>2
  <1>5. AllThere(F, offset, end) <=> \A j \in DOMAIN held : held[j] # Absent
    <2>1. ASSUME AllThere(F, offset, end), NEW j \in 1..size PROVE held[j] # Absent
      <3>1. offset + j - 1 \in Nat /\ offset <= offset + j - 1 /\ offset + j - 1 < end
        OBVIOUS
      <3> QED BY <1>4, <2>1, <3>1 DEF AllThere
    <2>2. ASSUME \A j \in 1..size : held[j] # Absent, NEW v \in Nat, offset <= v, v < end
          PROVE  F[v] # Absent
      <3> DEFINE j == v - offset + 1
      <3>1. j \in 1..size /\ offset + j - 1 = v
        BY <2>2
      <3> HIDE DEF j
      <3> QED BY <1>4, <2>2, <3>1
    <2> QED BY <1>4, <2>1, <2>2 DEF AllThere
  <1> QED BY <1>3, <1>5 DEF F, held, end

\* The tables that may be read while a title is opened: of storages that answer
Asked == {table \in Storages \X Nat : Answers(TopReads, table[1])}

\* Lemma: a storage that is readable answers, and so does every section.
LEMMA TheseAnswer ==
  /\ \A g, at : Readable(g) /\ at \in Nat => <<g, at>> \in Asked
  /\ \A s \in DOMAIN Sections, at \in Nat : <<Regular(s), at>> \in Asked
  <1>1. ASSUME NEW g, NEW at \in Nat, Readable(g) PROVE <<g, at>> \in Asked
    <2>1. g \in Storages /\ Answers(TopReads, g)
      BY <1>1 DEF Readable, IsRight
    <2> QED BY <2>1 DEF Asked
  <1>2. ASSUME NEW s \in DOMAIN Sections, NEW at \in Nat PROVE <<Regular(s), at>> \in Asked
    <2> DEFINE g == Regular(s)
    <2>1. Above(ReadIndirect, IndirectContent, TopReads, TopContent)
      BY LayersAbove
    <2>2. SeesSections(TopReads, TopContent)
      BY <2>1, OverIs DEF Above
    <2>3. g \in Storages
      <3>1. None \in DOMAIN Sections \cup {None}
        OBVIOUS
      <3> QED BY <3>1, StoragesAre
    <2>4. Answers(ReadBare, g) /\ g.type = "Regular"
      BY BareAnswers DEF Regular
    <2> HIDE DEF g
    <2>5. Answers(TopReads, g)
      BY <2>2, <2>3, <2>4, BareStaysRight
    <2>6. <<g, at>> \in Asked
      BY <2>3, <2>5 DEF Asked
    <2> QED BY <2>6 DEF g
  <1> QED BY <1>1, <1>2

\* Lemma: the tables of a title are such tables.
LEMMA TablesAreAsked ==
  ASSUME NEW t \in Titles
  PROVE  Tables(t.base, None) \o Tables(t.patch, t.base) \in Seq(Asked)
  <1>1. /\ IsBase(t.base) /\ (t.patch # None => IsPatch(t.patch, t.base))
        /\ t.base # None => t.base \in DOMAIN Sections
    BY TitleIs
  <1>2. Tables(t.base, None) \in Seq(Asked)
    <2> DEFINE s == t.base
               sec == Sections[s]
    <2>1. CASE s = None
      BY <2>1 DEF Tables
    <2>2. CASE s # None
      <3>1. s \in DOMAIN Sections /\ sec.indirect = None /\ sec.hash \in Nat
        BY <1>1, <2>2, SectionFacts DEF IsBase
      <3>2. CASE sec.compressed = None \/ sec.sparse # None
        <4>1. Tables(s, None) = <<>> \o <<>>
          BY <2>2, <3>1, <3>2 DEF Tables
        <4> QED BY <4>1
      <3>3. CASE ~ (sec.compressed = None \/ sec.sparse # None)
        <4> DEFINE at == sec.hash + sec.compressed.table
        <4>1. WellFormed(sec.compressed, Packs)
          BY <3>1, <3>3, SectionsAssumption
        <4>2. at \in Nat
          BY <3>1, <4>1 DEF WellFormed
        <4>3. UncompressedOf(s, None) = Regular(s)
          BY <3>1, <3>3 DEF UncompressedOf
        <4> DEFINE table == <<Regular(s), at>>
        <4>4. Tables(s, None) = <<>> \o <<table>>
          BY <2>2, <3>1, <3>3, <4>3 DEF Tables
        <4>5. table \in Asked
          BY <3>1, <4>2, TheseAnswer
        <4> HIDE DEF table
        <4> QED BY <4>4, <4>5
      <3> QED BY <3>2, <3>3
    <2> QED BY <2>1, <2>2
  <1>3. Tables(t.patch, t.base) \in Seq(Asked)
    <2> DEFINE s == t.patch
               sec == Sections[s]
    <2>1. CASE s = None
      BY <2>1 DEF Tables
    <2>2. CASE s # None
      <3>1. s \in DOMAIN Sections /\ sec.indirect # None /\ sec.hash \in Nat /\ IsPatch(s, t.base)
        BY <1>1, <2>2, SectionFacts DEF IsPatch
      <3>2. WellFormed(sec.indirect, Moves) /\ WellFormed(sec.ctrEx, Keys) /\ sec.sparse = None
        BY <3>1, SectionsAssumption
      <3> DEFINE first == <<Regular(s), sec.ctrEx.table>>
                 second == <<Regular(s), sec.indirect.table>>
                 third == <<UncompressedOf(s, t.base), sec.hash + sec.compressed.table>>
      <3>3. first \in Asked /\ second \in Asked
        <4>1. sec.ctrEx.table \in Nat /\ sec.indirect.table \in Nat
          BY <3>2 DEF WellFormed
        <4> QED BY <3>1, <4>1, TheseAnswer
      <3>4. sec.compressed # None => third \in Asked
        <4> SUFFICES ASSUME sec.compressed # None PROVE third \in Asked
          OBVIOUS
        <4> DEFINE at == sec.hash + sec.compressed.table
        <4>1. WellFormed(sec.compressed, Packs)
          BY <3>1, SectionsAssumption
        <4>2. at \in Nat
          BY <3>1, <4>1 DEF WellFormed
        <4>3. UncompressedOf(s, t.base) = IndirectOf(s, t.base)
          BY <3>1 DEF UncompressedOf
        <4>4. Readable(IndirectOf(s, t.base))
          BY <3>1, PatchIsReadable
        <4> QED BY <4>2, <4>3, <4>4, TheseAnswer
      <3>5. Tables(s, t.base) = <<first, second>> \o (IF sec.compressed = None THEN <<>> ELSE <<third>>)
        BY <2>2, <3>1, <3>2 DEF Tables
      <3> HIDE DEF first, second, third
      <3>6. CASE sec.compressed = None
        BY <3>3, <3>5, <3>6
      <3>7. CASE sec.compressed # None
        BY <3>3, <3>4, <3>5, <3>7
      <3> QED BY <3>6, <3>7
    <2> QED BY <2>1, <2>2
  <1> QED BY <1>2, <1>3

-----------------------------------------------------------------------------
\* The calls

\* Between two calls no virtual offset is left behind, and every table still to read is one that answers.
ReadsInv ==
  /\ StorageInv
  /\ cipher \in Ciphers /\ cipher.virtual = 0
  /\ tables \in Seq(Asked)

\* Lemma: the sections whose content file may fail to read are sections.
LEMMA UnreadableAre ==
  ASSUME title \in Titles
  PROVE  Unreadable \subseteq SUBSET DOMAIN Sections
  <1>1. /\ title.base # None => title.base \in DOMAIN Sections
        /\ title.patch # None => title.patch \in DOMAIN Sections
    BY TitlesAssumption
  <1> QED BY <1>1 DEF Unreadable

\* Lemma: the fields of the cipher context, and the context with one of them replaced.
LEMMA CipherIs ==
  ASSUME NEW c \in Ciphers
  PROVE  /\ \A bad \in SUBSET DOMAIN Sections :
              /\ [c EXCEPT !.unreadable = bad] \in Ciphers
              /\ [c EXCEPT !.unreadable = bad].virtual = c.virtual
              /\ [c EXCEPT !.unreadable = bad].unreadable = bad
         /\ \A n \in Nat, v \in Nat :
              /\ [c EXCEPT !.generation = n, !.virtual = v] \in Ciphers
              /\ [c EXCEPT !.generation = n, !.virtual = v].virtual = v
         /\ c.generation \in Nat
  BY DEF Ciphers

\* Lemma: opening a title, before a table is read.
LEMMA OpenKeeps ==
  ASSUME ReadsInv, NEW bad \in Unreadable, Open(bad)
  PROVE  cipher' \in Ciphers /\ cipher'.virtual = 0 /\ tables' \in Seq(Asked)
  <1>1. title \in Titles /\ cipher \in Ciphers /\ cipher.virtual = 0
    BY DEF ReadsInv, StorageInv
  <1>2. bad \in SUBSET DOMAIN Sections
    BY <1>1, UnreadableAre
  <1> DEFINE todo == Tables(title.base, None) \o Tables(title.patch, title.base)
  <1>3. todo \in Seq(Asked)
    BY <1>1, TablesAreAsked
  <1>4. tables' = <<>> \/ tables' = todo
    BY DEF Open
  <1> HIDE DEF todo
  <1>5. tables' \in Seq(Asked)
    <2>1. <<>> \in Seq(Asked)
      OBVIOUS
    <2> QED BY <1>3, <1>4, <2>1, Zenon
  <1>6. CipherWhenOpened \in Ciphers /\ CipherWhenOpened.virtual = 0
    <2> DEFINE n == IF title.selected = "patch" THEN cipher.generation ELSE HeaderGeneration
               v == IF title.selected = "base" THEN cipher.virtual ELSE 0
    <2>1. n \in Nat /\ v = 0 /\ v \in Nat
      <3>1. cipher.generation \in Nat
        BY <1>1, CipherIs
      <3>2. v = 0
        BY <1>1
      <3>3. n \in Nat
        BY <3>1 DEF HeaderGeneration
      <3> QED BY <3>2, <3>3
    <2>2. CipherWhenOpened = [cipher EXCEPT !.generation = n, !.virtual = v]
      BY DEF CipherWhenOpened
    <2> HIDE DEF n, v
    <2>3. /\ [cipher EXCEPT !.generation = n, !.virtual = v] \in Ciphers
          /\ [cipher EXCEPT !.generation = n, !.virtual = v].virtual = v
      BY <1>1, <2>1, CipherIs DEF Ciphers
    <2> QED BY <2>1, <2>2, <2>3, Zenon
  <1>7. cipher' = [CipherWhenOpened EXCEPT !.unreadable = IF tables' = <<>> THEN {} ELSE bad]
    BY DEF Open
  <1>8. (IF tables' = <<>> THEN {} ELSE bad) \in SUBSET DOMAIN Sections
    BY <1>2
  <1> QED BY <1>5, <1>6, <1>7, <1>8, CipherIs

\* Lemma: reading a table.
LEMMA ReadTableKeeps ==
  ASSUME ReadsInv, ReadTable
  PROVE  cipher' \in Ciphers /\ cipher'.virtual = 0 /\ tables' \in Seq(Asked)
  <1>1. cipher \in Ciphers /\ cipher.virtual = 0 /\ tables \in Seq(Asked) /\ tables # <<>>
    BY DEF ReadsInv, ReadTable
  <1> DEFINE g  == Head(tables)[1]
             at == Head(tables)[2]
  <1>2. Head(tables) \in Asked /\ Tail(tables) \in Seq(Asked)
    <2>1. ASSUME NEW S, NEW t \in Seq(S), t # <<>> PROVE Head(t) \in S /\ Tail(t) \in Seq(S)
      BY <2>1, HeadTailProperties
    <2> QED BY <1>1, <2>1
  <1>3. g \in Storages /\ at \in Nat /\ Answers(TopReads, g)
    BY <1>2 DEF Asked
  <1>4. Block \in Nat
    BY BufferHoldsBlocks
  <1> HIDE DEF g, at
  <1>5. ReadSub(g, Block, at, cipher) = TopReads[Request(g, Block, at, cipher)]
    BY <1>1, <1>3, <1>4, ReadSubIs
  <1>6. /\ IsResult(TopReads[Request(g, Block, at, cipher)])
        /\ TopReads[Request(g, Block, at, cipher)].cipher.virtual = 0
    BY <1>1, <1>3, <1>4 DEF Answers
  <1> DEFINE r == ReadSub(g, Block, at, cipher)
  <1>7. r.cipher \in Ciphers /\ r.cipher.virtual = 0
    <2> HIDE DEF r
    <2>1. IsResult(r) /\ r.cipher.virtual = 0
      BY <1>5, <1>6 DEF r
    <2> QED BY <2>1, ResultIs DEF IsResult
  <1>8. /\ cipher' = [r.cipher EXCEPT !.unreadable = {}] \/ cipher' = r.cipher
        /\ tables' = <<>> \/ tables' = Tail(tables)
    BY DEF ReadTable, g, at
  <1> HIDE DEF r
  <1>9. cipher' \in Ciphers /\ cipher'.virtual = 0
    <2>1. {} \in SUBSET DOMAIN Sections
      OBVIOUS
    <2>2. /\ [r.cipher EXCEPT !.unreadable = {}] \in Ciphers
          /\ [r.cipher EXCEPT !.unreadable = {}].virtual = r.cipher.virtual
      BY <1>7, <2>1, CipherIs
    <2> QED BY <1>7, <1>8, <2>2, Zenon
  <1>10. tables' \in Seq(Asked)
    <2>1. <<>> \in Seq(Asked)
      OBVIOUS
    <2> QED BY <1>2, <1>8, <2>1, Zenon
  <1> QED BY <1>9, <1>10

\* Lemma: a read from the open storage, and what it returns.
LEMMA ReadKeeps ==
  ASSUME ReadsInv, storage # None, NEW offset \in 0..(EndOf(storage) - 1),
         NEW size \in 1..(EndOf(storage) - offset), NEW bad \in Unreadable, Read(offset, size, bad)
  PROVE  /\ cipher' \in Ciphers /\ cipher'.virtual = 0
         /\ ReadIsTheContent'
  <1>1. title \in Titles /\ cipher \in Ciphers /\ cipher.virtual = 0 /\ storage = Default
    BY DEF ReadsInv, StorageInv
  <1>2. bad \in SUBSET DOMAIN Sections
    BY <1>1, UnreadableAre
  <1>3. Readable(storage)
    BY <1>1, TitleIsReadable DEF Default
  <1>4. storage \in Storages /\ EndOf(storage) \in Nat /\ ReturnsWithin(TopReads, TopContent, storage)
    BY <1>3 DEF Readable, IsRight
  <1> DEFINE c == [cipher EXCEPT !.unreadable = bad]
             end == offset + size
             F == CellsOf(TopContent, storage)
             r == ReadSub(storage, size, offset, c)
  <1>5. offset \in Nat /\ size \in Nat /\ end \in Nat /\ offset < end /\ end <= EndOf(storage)
        /\ end - offset = size
    BY <1>4
  <1>6. c \in Ciphers /\ c.virtual = 0 /\ c.unreadable = bad
    BY <1>1, <1>2, CipherIs
  <1>7. /\ cipher' = [r.cipher EXCEPT !.unreadable = {}]
        /\ answer' = [call |-> "read", offset |-> offset, size |-> size, unreadable |-> bad,
                      ok |-> r.ok, data |-> r.data]
        /\ storage' = storage
    BY DEF Read, Answered
  <1> HIDE DEF c, end, F
  <1>8. r = TopReads[Request(storage, size, offset, c)]
    BY <1>4, <1>5, <1>6, ReadSubIs
  <1> HIDE DEF r
  <1>9. Returns(TopReads[Request(storage, end - offset, offset, c)], F, offset, end, c)
    BY <1>4, <1>5, <1>6 DEF ReturnsWithin, F
  <1>10. Returns(r, F, offset, end, c)
    BY <1>5, <1>8, <1>9, Zenon
  <1>11. IsResult(r) /\ r.cipher.virtual = 0
    BY <1>10 DEF Returns
  <1>12. r.cipher \in Ciphers
    BY <1>11, ResultIs DEF IsResult
  <1>13. cipher' \in Ciphers /\ cipher'.virtual = 0
    <2>1. {} \in SUBSET DOMAIN Sections
      OBVIOUS
    <2> QED BY <1>7, <1>11, <1>12, <2>1, CipherIs
  <1> DEFINE held == Contents(storage, offset, size)
  <1>14. /\ held = Row(F, offset, end)
         /\ AllThere(F, offset, end) <=> \A j \in DOMAIN held : held[j] # Absent
    BY <1>4, <1>5, ContentsAre DEF F, end
  <1>15. /\ answer'.call = "read" /\ answer'.offset = offset /\ answer'.size = size
         /\ answer'.unreadable = bad /\ answer'.ok = r.ok /\ answer'.data = r.data
    BY <1>7
  <1>16. /\ r.ok => r.data = held /\ AllThere(F, offset, end)
         /\ bad = {} /\ AllThere(F, offset, end) => r.ok
    BY <1>6, <1>10, <1>14 DEF Returns
  <1>17. r.ok \in BOOLEAN
    BY <1>11, ResultIs DEF IsResult
  <1>18. Contents(storage, offset, size)' = held
    BY <1>7 DEF Contents, Content
  <1>19. ReadIsTheContent'
    <2> DEFINE told == Contents(storage', answer'.offset, answer'.size)
    <2>1. told = held
      BY <1>7, <1>15, Zenon
    <2>2. (answer'.ok => answer'.data = told)
          /\ (answer'.unreadable = {} => (answer'.ok <=> \A j \in DOMAIN told : told[j] # Absent))
      <3> HIDE DEF told, held
      <3>1. (r.ok => r.data = held)
            /\ (bad = {} => (r.ok <=> \A j \in DOMAIN held : held[j] # Absent))
        BY <1>14, <1>16, <1>17, Zenon
      <3> QED BY <1>15, <2>1, <3>1, Zenon
    <2> HIDE DEF held
    <2> QED BY <2>2 DEF ReadIsTheContent
  <1> QED BY <1>13, <1>19

\* Theorem: a read returns the cells the layers of the title define at its offset and no others, whatever
\* was read, failed, opened or closed before it, and fails only where the title has nothing or the content
\* file could not be read (_ncaReadFsSection, bktrRead*Storage, ncaStorageRead).
THEOREM ReadReturnsTheContent == Spec => []ReadIsTheContent
  <1> DEFINE Inv == ReadsInv /\ ReadIsTheContent
  <1>1. Init => Inv
    <2> SUFFICES ASSUME Init PROVE Inv
      OBVIOUS
    <2>1. StorageInv /\ ReadIsTheContent
      BY DEF Init, StorageInv, NoAnswer, ReadIsTheContent
    <2>2. cipher \in Ciphers /\ cipher.virtual = 0
      BY DEF Init, Ciphers, HeaderGeneration
    <2>3. tables \in Seq(Asked)
      BY DEF Init
    <2> QED BY <2>1, <2>2, <2>3 DEF ReadsInv
  <1>2. Inv /\ StorageInv' /\ [Next]_vars => Inv'
    <2> SUFFICES ASSUME ReadsInv, ReadIsTheContent, StorageInv', [Next]_vars
                 PROVE  /\ cipher' \in Ciphers /\ cipher'.virtual = 0 /\ tables' \in Seq(Asked)
                        /\ ReadIsTheContent'
      BY DEF ReadsInv
    <2>1. ASSUME answer'.call # "read" PROVE ReadIsTheContent'
      BY <2>1 DEF ReadIsTheContent
    <2>2. NoAnswer.call # "read"
      BY DEF NoAnswer
    <2>3. cipher \in Ciphers /\ cipher.virtual = 0 /\ tables \in Seq(Asked)
          /\ (tables # <<>> => answer = NoAnswer)
      BY DEF ReadsInv, StorageInv
    <2>4. ASSUME NEW bad \in Unreadable, answer = NoAnswer, Open(bad)
          PROVE  cipher' \in Ciphers /\ cipher'.virtual = 0 /\ tables' \in Seq(Asked) /\ ReadIsTheContent'
      <3>1. answer'.call # "read"
        BY <2>2, <2>4 DEF Open, Answered
      <3> QED BY <2>1, <2>4, <3>1, OpenKeeps
    <2>5. ASSUME storage # None, NEW offset \in 0..(EndOf(storage) - 1),
                 NEW size \in 1..(EndOf(storage) - offset), NEW bad \in Unreadable, Read(offset, size, bad)
          PROVE  cipher' \in Ciphers /\ cipher'.virtual = 0 /\ tables' \in Seq(Asked) /\ ReadIsTheContent'
      <3>1. tables' = tables
        BY <2>5 DEF Read
      <3> QED BY <2>3, <2>5, <3>1, ReadKeeps
    <2>6. ASSUME NEW offset, NEW size, Ask(offset, size)
          PROVE  cipher' \in Ciphers /\ cipher'.virtual = 0 /\ tables' \in Seq(Asked) /\ ReadIsTheContent'
      <3>1. answer'.call # "read" /\ cipher' = cipher /\ tables' = tables
        BY <2>6 DEF Ask, Answered
      <3> QED BY <2>1, <2>3, <3>1
    <2>7. CASE Close
      <3>1. answer'.call # "read" /\ cipher' = cipher /\ tables' = tables
        BY <2>7 DEF Close, Answered
      <3> QED BY <2>1, <2>3, <3>1
    <2>8. CASE ReadTable
      <3>1. answer'.call # "read"
        BY <2>2, <2>3, <2>8 DEF ReadTable, Answered
      <3> QED BY <2>1, <2>8, <3>1, ReadTableKeeps
    <2>9. CASE Take
      <3>1. answer'.call # "read" /\ cipher' = cipher /\ tables' = tables
        BY <2>2, <2>9 DEF Take
      <3> QED BY <2>1, <2>3, <3>1
    <2>10. CASE UNCHANGED vars
      <3>1. cipher' = cipher /\ tables' = tables /\ answer' = answer /\ storage' = storage
        BY <2>10 DEF vars
      <3>2. ReadIsTheContent'
        BY <3>1 DEF ReadIsTheContent
      <3> QED BY <2>3, <3>1, <3>2
    <2>11. ASSUME answer = NoAnswer, Use
           PROVE  cipher' \in Ciphers /\ cipher'.virtual = 0 /\ tables' \in Seq(Asked) /\ ReadIsTheContent'
      BY <2>5, <2>6, <2>11 DEF Use
    <2> QED BY <2>4, <2>7, <2>8, <2>9, <2>10, <2>11 DEF Next, Call
  <1>3. Inv => ReadIsTheContent
    OBVIOUS
  <1> QED BY <1>1, <1>2, <1>3, StorageInvHolds, PTL DEF Spec
=============================================================================
