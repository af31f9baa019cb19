----------------------------- MODULE Lab6Records -----------------------------
(***************************************************************************)
(* lab6/src/sort_index.c: what qsort() and merge_blocks() make of the      *)
(* records of a mapped file.  A record is its time_mark, the only field    *)
(* cmp_index() looks at.                                                   *)
(***************************************************************************)
EXTENDS Integers, FiniteSets

\* The n records from `from' on, replaced by the array a.
Replace(f, from, n, a) ==
  [i \in DOMAIN f |-> IF i \in from .. from + n - 1 THEN a[i - from] ELSE f[i]]

\* qsort() of n records: at place k the mark with at most k smaller ones and more
\* than k not larger.
QSorted(f, from, n) ==
  LET records == from .. from + n - 1
      smaller(m) == Cardinality({i \in records : f[i] < m})
      notLarger(m) == Cardinality({i \in records : f[i] <= m})
  IN [k \in 0 .. n - 1 |->
        CHOOSE m \in {f[i] : i \in records} : smaller(m) <= k /\ k < notLarger(m)]

\* The largest of a[0] .. a[k].
Latest(a, k) == CHOOSE m \in {a[h] : h \in 0 .. k} : \A h \in 0 .. k : a[h] <= m

\* Seeded fault: the comparison the wrong way round.
FaultLeftFirst(l, r, i, j) == Latest(r, j) <= Latest(l, i)

\* Does merge_blocks() take left[i] before right[j]?  Its loop compares the heads of
\* the two blocks, and a record waits for all that come before it in its own block;
\* so what counts, in order or not, is the largest record met so far.
LeftFirst(l, r, i, j) == Latest(l, i) <= Latest(r, j)

\* merge_blocks(): what tmp[] holds after the three loops.
MergedBlocks(l, r, nleft, nright) ==
  LET left == 0 .. nleft - 1
      right == 0 .. nright - 1
      placeLeft(i) == i + Cardinality({j \in right : ~LeftFirst(l, r, i, j)})
      placeRight(j) == j + Cardinality({i \in left : LeftFirst(l, r, i, j)})
  IN [k \in 0 .. nleft + nright - 1 |->
        IF \E i \in left : placeLeft(i) = k
          THEN l[CHOOSE i \in left : placeLeft(i) = k]
          ELSE r[CHOOSE j \in right : placeRight(j) = k]]

\* Two runs that lie side by side, merged.
Merged(f, from, nleft, nright) ==
  MergedBlocks([k \in 0 .. nleft - 1 |-> f[from + k]],
               [k \in 0 .. nright - 1 |-> f[from + nleft + k]], nleft, nright)
=============================================================================
