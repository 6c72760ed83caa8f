---------------------------- MODULE MCContentReads ----------------------------
EXTENDS ContentReads

Moved(v, p, i) == [virtual |-> v, physical |-> p, index |-> i]
Keyed(v, g, x) == [virtual |-> v, generation |-> g, encrypted |-> x]
Packing(v, p, n, k) == [virtual |-> v, physical |-> p, size |-> n, kind |-> k]
Tree(sets, end, table) == [sets |-> sets, end |-> end, table |-> table]

Section == [start |-> 4, size |-> 10, hash |-> 2, crypto |-> "ctr",
            sparse |-> None, indirect |-> None, ctrEx |-> None, compressed |-> None]

\* Three entry sets of at most two entries, with moves that are not block-aligned
\* where the program allows them.
Indirection == Tree(<<<<Moved(0, 0, 0), Moved(3, 0, 1)>>, <<Moved(5, 6, 0)>>,
                      <<Moved(7, 2, 1), Moved(10, 8, 0)>>>>, 12, 10)
Generations == Tree(<<<<Keyed(0, 1, TRUE), Keyed(2, 2, TRUE)>>, <<Keyed(6, 0, FALSE)>>>>, 8, 8)
Sparseness  == Tree(<<<<Moved(0, 0, 0), Moved(2, 0, 1)>>, <<Moved(4, 2, 0)>>>>, 10, 8)
Packings    == Tree(<<<<Packing(0, 0, 0, "none"), Packing(2, 2, 2, "lz4")>>,
                      <<Packing(6, 0, 0, "zero"), Packing(7, 5, 0, "none")>>>>, 8, 6)
PatchPackings == Tree(<<<<Packing(0, 0, 0, "none"), Packing(3, 4, 2, "lz4")>>,
                        <<Packing(8, 5, 0, "none")>>>>, 10, 8)

MCSections ==
    [base    |-> Section,
     sealed  |-> [Section EXCEPT !.crypto = "xts"],
     hashed  |-> [Section EXCEPT !.crypto = "skip", !.hash = 3],
     open    |-> [Section EXCEPT !.crypto = "none"],
     thin    |-> [Section EXCEPT !.sparse = Sparseness],
     packed  |-> [Section EXCEPT !.compressed = Packings],
     patch   |-> [Section EXCEPT !.size = 12, !.indirect = Indirection, !.ctrEx = Generations],
     repack  |-> [Section EXCEPT !.size = 12, !.indirect = Indirection, !.ctrEx = Generations,
                                 !.compressed = PatchPackings]]

Opened(base, patch, selected) == [base |-> base, patch |-> patch, selected |-> selected]

MCTitles ==
    {Opened(s, None, "base") : s \in {"base", "sealed", "hashed", "open", "packed"}}
    \cup {Opened("base", "patch", s) : s \in {"base", "patch"}}
    \cup {Opened("thin", "patch", s) : s \in {"base", "patch"}}
    \cup {Opened("thin", "repack", "base"), Opened("packed", "repack", "patch"),
          Opened(None, "patch", "patch")}

===============================================================================
