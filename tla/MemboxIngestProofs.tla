------------------------- MODULE MemboxIngestProofs -------------------------
(***************************************************************************)
(* Theorems about MemboxIngest: what TLC finds on its few conversations is *)
(* true of every conversation with session numbers of at most two digits,  *)
(* however many turns it has, of every split, extraction and answer, and   *)
(* of any number of builds.                                                *)
(*                                                                         *)
(* The first half is about lists. FlattenSeq is recursive, so that what it *)
(* returns is found by a least counterexample: its rows are laid end to    *)
(* end (FlattenLays). From this follow what a selection keeps              *)
(* (SelectedPicks), that every turn is read once (FlattenedLists), and     *)
(* what the messages of a conversation are (MessagesReach).                *)
(*                                                                         *)
(* The invariant IInv adds to the properties what a step needs of the      *)
(* state: that the buffer has the latest messages read, which stretch of   *)
(* the messages each box covers, that the boxes of the build end the file  *)
(* once they are written, and that no trace goes beyond the boxes still to *)
(* be linked.                                                              *)
(***************************************************************************)
EXTENDS MemboxIngest, FiniteSetTheorems, SequenceTheorems, WellFoundedInduction, TLAPS

(* ---------------------- Rows laid end to end --------------------------- *)

\* A set of numbers that is not empty has a least one.
LEMMA LeastNumber ==
    ASSUME NEW T \in SUBSET Nat, T # {}
    PROVE  \E x \in T : \A y \in T : x <= y
<1>1. IsWellFoundedOn({ss \in Nat \X Nat : ss[1] < ss[2]}, Nat)
  BY NatLessThanWellFounded DEF OpToRel
<1>2. PICK x \in T : \A y \in T : ~(<<y, x>> \in {ss \in Nat \X Nat : ss[1] < ss[2]})
  BY <1>1, WFMin
<1>3. ASSUME NEW y \in T PROVE x <= y
  <2>1. <<y, x>> \in Nat \X Nat /\ <<y, x>>[1] = y /\ <<y, x>>[2] = x
    OBVIOUS
  <2>2. ~(y < x)
    BY <1>2, <2>1
  <2> QED
    BY <2>2
<1> QED
  BY <1>3

\* What FlattenSeq computes row by row.
Rows(seqs, n) == CHOOSE f : f = [i \in 1..n |-> IF i = 1 THEN seqs[i] ELSE f[i-1] \o seqs[i]]

LEMMA FlattenIs == ASSUME NEW seqs, Len(seqs) # 0
                   PROVE  FlattenSeq(seqs) = Rows(seqs, Len(seqs))[Len(seqs)]
  BY DEF FlattenSeq, Rows

LEMMA RowsExist ==
    ASSUME NEW seqs, NEW n \in Nat \ {0}
    PROVE  Rows(seqs, n) = [i \in 1..n |-> IF i = 1 THEN seqs[i] ELSE Rows(seqs, n)[i-1] \o seqs[i]]
<1> DEFINE Is(m) == \E f : f = [i \in 1..m |-> IF i = 1 THEN seqs[i] ELSE f[i-1] \o seqs[i]]
           Bad == {m \in Nat \ {0} : ~Is(m)}
<1>1. ASSUME Bad # {} PROVE FALSE
  <2>1. PICK m \in Bad : \A k \in Bad : m <= k
    BY <1>1, LeastNumber
  <2>2. CASE m = 1
    <3> DEFINE f == [i \in 1..1 |-> seqs[i]]
    <3>1. f = [i \in 1..1 |-> IF i = 1 THEN seqs[i] ELSE f[i-1] \o seqs[i]]
      OBVIOUS
    <3> QED
      BY <2>2, <3>1
  <2>3. CASE m # 1
    <3>0. m \in Nat \ {0} /\ m - 1 \in Nat \ {0} /\ ~(m <= m - 1)
      BY <2>1, <2>3
    <3>1. Is(m - 1)
      BY <2>1, <3>0
    <3>2. PICK f : f = [i \in 1..m-1 |-> IF i = 1 THEN seqs[i] ELSE f[i-1] \o seqs[i]]
      BY <3>1
    <3> DEFINE g == [i \in 1..m |-> IF i = m THEN f[m-1] \o seqs[m] ELSE f[i]]
    <3>3. \A i \in 1..m : g[i] = IF i = 1 THEN seqs[i] ELSE g[i-1] \o seqs[i]
      <4> TAKE i \in 1..m
      <4>1. CASE i = m
        <5>1. m \in 1..m /\ m - 1 \in 1..m /\ m - 1 # m
          BY <3>0
        <5>2. g[m] = f[m-1] \o seqs[m] /\ g[m-1] = f[m-1]
          BY <5>1
        <5> QED
          BY <4>1, <2>3, <5>2
      <4>2. CASE i # m
        <5>1. i \in 1..m-1 /\ g[i] = f[i] /\ (i # 1 => i - 1 \in 1..m-1 /\ g[i-1] = f[i-1])
          BY <4>2, <3>0
        <5>2. f[i] = IF i = 1 THEN seqs[i] ELSE f[i-1] \o seqs[i]
          BY <3>2, <5>1
        <5> QED
          BY <5>1, <5>2
      <4> QED
        BY <4>1, <4>2
    <3>4. g = [i \in 1..m |-> IF i = 1 THEN seqs[i] ELSE g[i-1] \o seqs[i]]
      BY <3>3
    <3>5. Is(m)
      BY <3>4
    <3> QED
      BY <3>5
  <2> QED
    BY <2>2, <2>3
<1>2. Is(n)
  BY <1>1
<1> QED
  BY <1>2 DEF Rows

\* The first n rows are laid end to end in flat, whose element at i is the one at
\* place col[i] of row row[i].
LaysOn(places, flat, seqs, n, row, col) ==
    /\ row \in [places -> 1..n]
    /\ col \in [places -> Nat \ {0}]
    /\ \A i \in places : col[i] \in DOMAIN seqs[row[i]] /\ flat[i] = seqs[row[i]][col[i]]
    /\ \A k \in 1..n : \A p \in DOMAIN seqs[k] : \E i \in places : row[i] = k /\ col[i] = p
    /\ \A i, j \in places :
          i < j => row[i] < row[j] \/ (row[i] = row[j] /\ col[i] < col[j])

Lays(flat, seqs, n, row, col) == LaysOn(DOMAIN flat, flat, seqs, n, row, col)

LEMMA LaysFirst ==
    ASSUME NEW T, NEW seqs, seqs[1] \in Seq(T)
    PROVE  \E row, col : Lays(seqs[1], seqs, 1, row, col)
<1> DEFINE row == [i \in DOMAIN seqs[1] |-> 1]
           col == [i \in DOMAIN seqs[1] |-> i]
<1>1. DOMAIN seqs[1] = 1..Len(seqs[1]) /\ Len(seqs[1]) \in Nat
  OBVIOUS
<1>2. /\ row \in [DOMAIN seqs[1] -> 1..1] /\ col \in [DOMAIN seqs[1] -> Nat \ {0}]
      /\ \A i \in DOMAIN seqs[1] : row[i] = 1 /\ col[i] = i
      /\ \A k \in 1..1 : k = 1
  BY <1>1
<1>3. \A i, j \in DOMAIN seqs[1] : i < j => col[i] < col[j]
  BY <1>2
<1> HIDE DEF row, col
<1>4. Lays(seqs[1], seqs, 1, row, col)
  BY <1>2, <1>3, Zenon DEF Lays, LaysOn
<1> QED
  BY <1>4

LEMMA LaysNext ==
    ASSUME NEW T, NEW seqs, NEW n \in Nat, NEW flat \in Seq(T), seqs[n+1] \in Seq(T),
           NEW row, NEW col, Lays(flat, seqs, n, row, col)
    PROVE  \E r, c : Lays(flat \o seqs[n+1], seqs, n + 1, r, c)
<1> DEFINE more == seqs[n+1]
           all == flat \o more
           L == Len(flat)
           r == [i \in DOMAIN all |-> IF i <= L THEN row[i] ELSE n + 1]
           c == [i \in DOMAIN all |-> IF i <= L THEN col[i] ELSE i - L]
<1>1. /\ DOMAIN flat = 1..L /\ L \in Nat
      /\ DOMAIN more = 1..Len(more) /\ Len(more) \in Nat
      /\ DOMAIN all = 1..L+Len(more)
      /\ \A i \in 1..L : i \in DOMAIN all /\ all[i] = flat[i]
      /\ \A i \in 1..Len(more) : L + i \in DOMAIN all /\ all[L+i] = more[i]
  OBVIOUS
<1> HIDE DEF more, all, L, r, c
<1>2. /\ row \in [1..L -> 1..n] /\ col \in [1..L -> Nat \ {0}]
      /\ \A i \in 1..L : col[i] \in DOMAIN seqs[row[i]] /\ flat[i] = seqs[row[i]][col[i]]
      /\ \A k \in 1..n : \A p \in DOMAIN seqs[k] : \E i \in 1..L : row[i] = k /\ col[i] = p
      /\ \A i, j \in 1..L : i < j => row[i] < row[j] \/ (row[i] = row[j] /\ col[i] < col[j])
  <2>1. LaysOn(1..L, flat, seqs, n, row, col)
    BY <1>1 DEF Lays
  <2> QED
    BY <2>1 DEF LaysOn
<1> USE DEF r, c
<1>3. \A i \in DOMAIN all : \/ i \in 1..L /\ r[i] = row[i] /\ c[i] = col[i] /\ all[i] = flat[i]
                            \/ /\ ~(i <= L) /\ r[i] = n + 1 /\ c[i] = i - L
                               /\ i - L \in 1..Len(more) /\ all[i] = more[i-L]
  <2> TAKE i \in DOMAIN all
  <2>1. CASE i <= L
    BY <2>1, <1>1
  <2>2. CASE ~(i <= L)
    <3>1. i - L \in 1..Len(more) /\ L + (i - L) = i
      BY <2>2, <1>1
    <3>2. all[L + (i - L)] = more[i-L]
      BY <3>1, <1>1
    <3> QED
      BY <2>2, <3>1, <3>2
  <2> QED
    BY <2>1, <2>2
<1>4. r \in [DOMAIN all -> 1..n+1] /\ c \in [DOMAIN all -> Nat \ {0}]
  BY <1>1, <1>2
<1>5. \A i \in DOMAIN all : c[i] \in DOMAIN seqs[r[i]] /\ all[i] = seqs[r[i]][c[i]]
  <2> TAKE i \in DOMAIN all
  <2>1. CASE i \in 1..L /\ r[i] = row[i] /\ c[i] = col[i] /\ all[i] = flat[i]
    BY <2>1, <1>2
  <2>2. CASE /\ ~(i <= L) /\ r[i] = n + 1 /\ c[i] = i - L
             /\ i - L \in 1..Len(more) /\ all[i] = more[i-L]
    BY <2>2, <1>1 DEF more
  <2> QED
    BY <1>3, <2>1, <2>2
<1>6. \A k \in 1..n+1 : \A p \in DOMAIN seqs[k] : \E i \in DOMAIN all : r[i] = k /\ c[i] = p
  <2> TAKE k \in 1..n+1
  <2> TAKE p \in DOMAIN seqs[k]
  <2>1. CASE k = n + 1
    <3>1. p \in 1..Len(more)
      BY <2>1, <1>1 DEF more
    <3>2. L + p \in DOMAIN all /\ ~(L + p <= L) /\ L + p - L = p
      BY <3>1, <1>1
    <3>3. r[L+p] = n + 1 /\ c[L+p] = p
      BY <1>3, <1>1, <3>1, <3>2
    <3> QED
      BY <2>1, <3>2, <3>3
  <2>2. CASE k # n + 1
    <3>1. k \in 1..n
      BY <2>2
    <3>2. PICK i \in 1..L : row[i] = k /\ col[i] = p
      BY <3>1, <1>2
    <3>3. i \in DOMAIN all /\ i <= L
      BY <1>1
    <3> QED
      BY <3>2, <3>3
  <2> QED
    BY <2>1, <2>2
<1>7. ASSUME NEW i \in DOMAIN all, NEW j \in DOMAIN all, i < j
      PROVE  r[i] < r[j] \/ (r[i] = r[j] /\ c[i] < c[j])
  <2>1. i \in Nat /\ j \in Nat /\ L \in Nat
    BY <1>1
  <2>2. CASE j <= L
    <3>1. i \in 1..L /\ j \in 1..L
      BY <2>1, <2>2, <1>7, <1>1
    <3> QED
      BY <3>1, <1>2, <1>7
  <2>3. CASE ~(j <= L)
    <3>1. CASE i <= L
      <4>1. row[i] \in 1..n
        BY <3>1, <1>2, <1>1
      <4> QED
        BY <2>3, <3>1, <4>1
    <3>2. CASE ~(i <= L)
      BY <2>1, <2>3, <3>2, <1>7
    <3> QED
      BY <3>1, <3>2
  <2> QED
    BY <2>2, <2>3
<1>8. Lays(all, seqs, n + 1, r, c)
  BY <1>4, <1>5, <1>6, <1>7 DEF Lays, LaysOn
<1> QED
  BY <1>8 DEF all, more

\* FlattenSeq lays all rows end to end.
LEMMA FlattenLays ==
    ASSUME NEW T, NEW seqs \in Seq(Seq(T))
    PROVE  /\ FlattenSeq(seqs) \in Seq(T)
           /\ \E row, col : Lays(FlattenSeq(seqs), seqs, Len(seqs), row, col)
<1> DEFINE n == Len(seqs)
<1>1. n \in Nat /\ DOMAIN seqs = 1..n /\ \A k \in 1..n : seqs[k] \in Seq(T)
  OBVIOUS
<1>2. CASE n = 0
  <2>1. FlattenSeq(seqs) = seqs /\ seqs \in Seq(T) /\ DOMAIN seqs = {}
    BY <1>2 DEF FlattenSeq
  <2>2. Lays(seqs, seqs, n, [i \in DOMAIN seqs |-> 1], [i \in DOMAIN seqs |-> 1])
    BY <1>2, <2>1 DEF Lays, LaysOn
  <2> QED
    BY <2>1, <2>2
<1>3. CASE n # 0
  <2> DEFINE f == Rows(seqs, n)
             Good(m) == f[m] \in Seq(T) /\ \E row, col : Lays(f[m], seqs, m, row, col)
             Bad == {m \in 1..n : ~Good(m)}
  <2>1. f = [i \in 1..n |-> IF i = 1 THEN seqs[i] ELSE f[i-1] \o seqs[i]]
    BY <1>1, <1>3, RowsExist
  <2> HIDE DEF f
  <2>2. /\ f[1] = seqs[1]
        /\ \A m \in 2..n : f[m] = f[m-1] \o seqs[m]
    <3>1. 1 \in 1..n /\ \A m \in 2..n : m \in 1..n /\ m # 1
      BY <1>1, <1>3
    <3> QED
      BY <2>1, <3>1
  <2>3. ASSUME Bad # {} PROVE FALSE
    <3>1. Bad \in SUBSET Nat
      BY <1>1
    <3>2. PICK m \in Bad : \A k \in Bad : m <= k
      BY <2>3, <3>1, LeastNumber
    <3>3. CASE m = 1
      <4>1. Good(1)
        BY <1>1, <1>3, <2>2, LaysFirst
      <4> QED
        BY <3>2, <3>3, <4>1
    <3>4. CASE m # 1
      <4>1. m \in 2..n /\ m - 1 \in 1..n /\ ~(m <= m - 1) /\ m - 1 + 1 = m /\ m - 1 \in Nat
        BY <3>2, <3>4, <1>1
      <4>2. Good(m - 1)
        BY <3>2, <4>1
      <4>3. f[m] = f[m-1] \o seqs[m] /\ seqs[m] \in Seq(T)
        BY <2>2, <4>1, <1>1
      <4>4. f[m] \in Seq(T)
        BY <4>2, <4>3
      <4>5. PICK row, col : Lays(f[m-1], seqs, m - 1, row, col)
        BY <4>2
      <4>6. \E r, c : Lays(f[m-1] \o seqs[m], seqs, m, r, c)
        BY <4>1, <4>2, <4>3, <4>5, LaysNext
      <4>7. Good(m)
        BY <4>3, <4>4, <4>6
      <4> QED
        BY <3>2, <4>7
    <3> QED
      BY <3>3, <3>4
  <2>4. Good(n)
    BY <2>3, <1>1, <1>3
  <2>5. FlattenSeq(seqs) = f[n]
    BY <1>3, FlattenIs DEF f
  <2> QED
    BY <2>4, <2>5
<1> QED
  BY <1>2, <1>3

LEMMA FlattenEmpty == FlattenSeq(<<>>) = <<>>
  BY DEF FlattenSeq

\* A further row is laid at the end.
LEMMA FlattenAppend ==
    ASSUME NEW T, NEW seqs \in Seq(Seq(T)), NEW more \in Seq(T)
    PROVE  FlattenSeq(Append(seqs, more)) = FlattenSeq(seqs) \o more
<1> DEFINE n == Len(seqs)
           all == Append(seqs, more)
           f == Rows(seqs, n)
           g == Rows(all, n + 1)
<1>1. /\ n \in Nat /\ DOMAIN seqs = 1..n
      /\ Len(all) = n + 1 /\ all[n+1] = more
      /\ \A k \in 1..n : all[k] = seqs[k] /\ seqs[k] \in Seq(T)
  OBVIOUS
<1> HIDE DEF n, all
<1>2. g = [i \in 1..n+1 |-> IF i = 1 THEN all[i] ELSE g[i-1] \o all[i]]
  <2>1. n + 1 \in Nat \ {0}
    BY <1>1
  <2> QED
    BY <2>1, RowsExist
<1>3. FlattenSeq(all) = g[n+1]
  BY <1>1, FlattenIs
<1>4. CASE n = 0
  <2>1. FlattenSeq(seqs) = <<>>
    BY <1>4, <1>1 DEF FlattenSeq, n
  <2>2. g[1] = more
    BY <1>1, <1>2, <1>4
  <2> QED
    BY <1>3, <1>4, <2>1, <2>2 DEF all
<1>5. CASE n # 0
  <2>1. f = [i \in 1..n |-> IF i = 1 THEN seqs[i] ELSE f[i-1] \o seqs[i]]
    BY <1>1, <1>5, RowsExist
  <2>2. FlattenSeq(seqs) = f[n]
    BY <1>5, FlattenIs DEF n
  <2> DEFINE Bad == {m \in 1..n : f[m] # g[m]}
  <2> HIDE DEF f, g
  <2>3. ASSUME Bad # {} PROVE FALSE
    <3>1. Bad \in SUBSET Nat
      BY <1>1
    <3>2. PICK m \in Bad : \A k \in Bad : m <= k
      BY <2>3, <3>1, LeastNumber
    <3>3. m \in 1..n /\ m \in 1..n+1 /\ all[m] = seqs[m]
      BY <3>2, <1>1
    <3>4. CASE m = 1
      <4>1. f[m] = seqs[m] /\ g[m] = all[m]
        BY <3>3, <3>4, <2>1, <1>2
      <4> QED
        BY <3>2, <3>3, <4>1
    <3>5. CASE m # 1
      <4>1. m - 1 \in 1..n /\ ~(m <= m - 1)
        BY <3>3, <3>5, <1>1
      <4>2. f[m-1] = g[m-1]
        BY <3>2, <4>1
      <4>3. f[m] = f[m-1] \o seqs[m] /\ g[m] = g[m-1] \o all[m]
        BY <3>3, <3>5, <2>1, <1>2
      <4> QED
        BY <3>2, <3>3, <4>2, <4>3
    <3> QED
      BY <3>4, <3>5
  <2>4. f[n] = g[n]
    BY <2>3, <1>1, <1>5
  <2>5. g[n+1] = g[n] \o more
    <3>1. PICK m \in Nat : m = n + 1
      BY <1>1
    <3>2. m \in 1..n+1 /\ m # 1 /\ m - 1 = n
      BY <3>1, <1>1, <1>5
    <3>3. g[m] = g[m-1] \o all[m]
      BY <3>2, <1>2
    <3> QED
      BY <3>1, <3>2, <3>3, <1>1
  <2> QED
    BY <2>2, <2>4, <2>5, <1>3 DEF all
<1> QED
  BY <1>4, <1>5

(* ------------------------ Some places of a list ------------------------- *)

\* The elements of sel are those of s at some of its places, in order: the one at
\* i was at at[i].
Picks(sel, s, places, at) ==
    /\ at \in [DOMAIN sel -> DOMAIN s \cap places]
    /\ \A i \in DOMAIN sel : sel[i] = s[at[i]]
    /\ \A k \in DOMAIN s \cap places : \E i \in DOMAIN sel : at[i] = k
    /\ \A i, j \in DOMAIN sel : i < j => at[i] < at[j]

LEMMA SelectedPicks ==
    ASSUME NEW T, NEW s \in Seq(T), NEW places
    PROVE  /\ Selected(s, places) \in Seq(T)
           /\ \E at : Picks(Selected(s, places), s, places, at)
<1> DEFINE seqs == [k \in DOMAIN s |-> IF k \in places THEN <<s[k]>> ELSE <<>>]
           sel == FlattenSeq(seqs)
           n == Len(s)
<1>1. n \in Nat /\ DOMAIN s = 1..n /\ \A k \in 1..n : s[k] \in T
  OBVIOUS
<1>2. seqs \in Seq(Seq(T)) /\ Len(seqs) = n
  <2>1. \A k \in 1..n : seqs[k] \in Seq(T)
    BY <1>1
  <2>2. seqs = [k \in 1..n |-> seqs[k]]
    BY <1>1
  <2> HIDE DEF seqs
  <2> QED
    BY <1>1, <2>1, <2>2
<1>3. sel \in Seq(T) /\ \E row, col : Lays(sel, seqs, n, row, col)
  BY <1>2, FlattenLays
<1>4. PICK row, col : Lays(sel, seqs, n, row, col)
  BY <1>3
<1>5. \A k \in DOMAIN s : /\ k \in places => DOMAIN seqs[k] = {1} /\ seqs[k][1] = s[k]
                          /\ k \notin places => DOMAIN seqs[k] = {}
  OBVIOUS
<1> HIDE DEF seqs, sel, n
<1>6. LaysOn(DOMAIN sel, sel, seqs, n, row, col)
  BY <1>4 DEF Lays
<1>7. \A i \in DOMAIN sel : /\ row[i] \in DOMAIN s \cap places /\ col[i] = 1
                            /\ sel[i] = s[row[i]]
  <2> TAKE i \in DOMAIN sel
  <2>1. row[i] \in DOMAIN s /\ col[i] \in DOMAIN seqs[row[i]] /\ sel[i] = seqs[row[i]][col[i]]
    BY <1>1, <1>6 DEF LaysOn
  <2>2. row[i] \in places
    BY <1>5, <2>1
  <2> QED
    BY <1>5, <2>1, <2>2
<1>8. row \in [DOMAIN sel -> DOMAIN s \cap places]
  BY <1>6, <1>7 DEF LaysOn
<1>9. \A k \in DOMAIN s \cap places : \E i \in DOMAIN sel : row[i] = k
  <2> TAKE k \in DOMAIN s \cap places
  <2>1. k \in 1..n /\ 1 \in DOMAIN seqs[k]
    BY <1>1, <1>5
  <2> QED
    BY <2>1, <1>6 DEF LaysOn
<1>10. \A i, j \in DOMAIN sel : i < j => row[i] < row[j]
  <2> TAKE i, j \in DOMAIN sel
  <2>1. col[i] = 1 /\ col[j] = 1
    BY <1>7
  <2> QED
    BY <2>1, <1>6 DEF LaysOn
<1>11. Picks(sel, s, places, row)
  BY <1>7, <1>8, <1>9, <1>10 DEF Picks
<1>12. Selected(s, places) = sel
  BY DEF Selected, sel, seqs
<1> QED
  BY <1>3, <1>11, <1>12

(* ------------------- From the sessions to the messages ------------------ *)

Turn == [session : 1..MaxSession, place : Nat]

Message == [turn : Turn, session : Nat \ {0}, place : Nat \ {0}]

\* The text order of the session keys has each of them once.
LEMMA TextOrder ==
    /\ InTextOrder \in [1..99 -> 1..99]
    /\ \A k, m \in 1..99 : InTextOrder[k] = InTextOrder[m] => k = m
    /\ \A s \in 1..99 : \E k \in 1..99 : InTextOrder[k] = s
<1>1. \A k \in 1..99 : \E lead \in 1..9, at \in 0..10 :
         /\ k = 11 * (lead - 1) + at + 1
         /\ InTextOrder[k] = IF at = 0 THEN lead ELSE 10 * lead + at - 1
  BY DEF InTextOrder, MaxSession
<1>2. InTextOrder \in [1..99 -> 1..99]
  <2>1. \A k \in 1..99 : InTextOrder[k] \in 1..99
    BY <1>1
  <2> QED
    BY <2>1 DEF InTextOrder, MaxSession
<1>3. ASSUME NEW k \in 1..99, NEW m \in 1..99, InTextOrder[k] = InTextOrder[m]
      PROVE  k = m
  <2>1. PICK lead \in 1..9, at \in 0..10 :
           /\ k = 11 * (lead - 1) + at + 1
           /\ InTextOrder[k] = IF at = 0 THEN lead ELSE 10 * lead + at - 1
    BY <1>1
  <2>2. PICK l \in 1..9, a \in 0..10 :
           /\ m = 11 * (l - 1) + a + 1
           /\ InTextOrder[m] = IF a = 0 THEN l ELSE 10 * l + a - 1
    BY <1>1
  <2>3. lead = l /\ at = a
    BY <1>3, <2>1, <2>2
  <2> QED
    BY <2>1, <2>2, <2>3
<1>4. ASSUME NEW s \in 1..99
      PROVE  \E k \in 1..99 : InTextOrder[k] = s
  <2>1. CASE s < 10
    <3>1. 11 * (s - 1) + 1 \in 1..99 /\ InTextOrder[11 * (s - 1) + 1] = s
      BY <2>1 DEF InTextOrder, MaxSession
    <3> QED
      BY <3>1
  <2>2. CASE s >= 10
    <3>1. PICK lead \in 1..9, at \in 0..9 : s = 10 * lead + at
      BY <2>2
    <3>2. 11 * (lead - 1) + at + 2 \in 1..99 /\ InTextOrder[11 * (lead - 1) + at + 2] = s
      BY <3>1 DEF InTextOrder, MaxSession
    <3> QED
      BY <3>2
  <2> QED
    BY <2>1, <2>2
<1> QED
  BY <1>2, <1>3, <1>4

\* The turns of a session with a text stay in order.
LEMMA SpokenInOrder ==
    ASSUME NEW c \in Conversations, NEW s \in 1..99
    PROVE  /\ Spoken(c, s) \in Seq(Turn)
           /\ \A i \in DOMAIN Spoken(c, s) : Spoken(c, s)[i].session = s
           /\ DOMAIN Spoken(c, s) # {} => s \in DOMAIN c.texts
           /\ \A i, j \in DOMAIN Spoken(c, s) :
                 i < j => Spoken(c, s)[i].place < Spoken(c, s)[j].place
<1>1. CASE s \notin DOMAIN c.texts
  <2>1. Spoken(c, s) = <<>>
    BY <1>1 DEF Spoken
  <2> QED
    BY <2>1
<1>2. CASE s \in DOMAIN c.texts
  <2> DEFINE all == [p \in DOMAIN c.texts[s] |-> [session |-> s, place |-> p]]
             said == {p \in DOMAIN c.texts[s] : c.texts[s][p]}
             n == Len(c.texts[s])
  <2>1. c.texts[s] \in Seq(BOOLEAN) /\ n \in Nat /\ DOMAIN c.texts[s] = 1..n
    BY <1>2, IngestAssumption
  <2>2. all \in Seq(Turn) /\ DOMAIN all = 1..n
    BY <2>1 DEF Turn, MaxSession
  <2>3. \A k \in 1..n : all[k].session = s /\ all[k].place = k
    BY <2>1
  <2> HIDE DEF all, said, n
  <2>4. Spoken(c, s) = Selected(all, said)
    BY <1>2 DEF Spoken, all, said
  <2>5. PICK at : Picks(Selected(all, said), all, said, at)
    BY <2>2, SelectedPicks
  <2>6. Selected(all, said) \in Seq(Turn)
    BY <2>2, SelectedPicks
  <2>7. \A i \in DOMAIN Spoken(c, s) : /\ at[i] \in 1..n
                                       /\ Spoken(c, s)[i].session = s
                                       /\ Spoken(c, s)[i].place = at[i]
    BY <2>2, <2>3, <2>4, <2>5 DEF Picks
  <2>8. \A i, j \in DOMAIN Spoken(c, s) :
           i < j => Spoken(c, s)[i].place < Spoken(c, s)[j].place
    BY <2>4, <2>5, <2>7 DEF Picks
  <2> QED
    BY <1>2, <2>4, <2>6, <2>7, <2>8
<1> QED
  BY <1>1, <1>2

\* A list of the spoken turns of a conversation, in which those of a session
\* come in order.
Lists(turns, c) ==
    /\ turns \in Seq(Turn)
    /\ \A i \in DOMAIN turns : turns[i].session \in DOMAIN c.texts
    /\ {turns[i] : i \in DOMAIN turns} = SpokenTurns(c)
    /\ \A i, j \in DOMAIN turns :
          i < j /\ turns[i].session = turns[j].session => turns[i].place < turns[j].place

LEMMA FlattenedLists ==
    ASSUME NEW c \in Conversations
    PROVE  Lists(Flattened(c), c)
<1> DEFINE seqs == [k \in 1..99 |-> Spoken(c, InTextOrder[k])]
           turns == FlattenSeq(seqs)
<1>1. seqs \in Seq(Seq(Turn)) /\ Len(seqs) = 99
  <2>1. \A k \in 1..99 : seqs[k] \in Seq(Turn)
    BY TextOrder, SpokenInOrder
  <2> QED
    BY <2>1
<1>4. \A k \in 1..99 : seqs[k] = Spoken(c, InTextOrder[k]) /\ InTextOrder[k] \in 1..99
  BY TextOrder
<1> HIDE DEF seqs
<1>2. turns \in Seq(Turn) /\ \E row, col : Lays(turns, seqs, 99, row, col)
  BY <1>1, FlattenLays
<1> HIDE DEF turns
<1>3. PICK row, col : Lays(turns, seqs, 99, row, col)
  BY <1>2
<1>5. LaysOn(DOMAIN turns, turns, seqs, 99, row, col)
  BY <1>3 DEF Lays
<1>6. \A i \in DOMAIN turns :
         /\ row[i] \in 1..99 /\ InTextOrder[row[i]] \in 1..99
         /\ col[i] \in DOMAIN Spoken(c, InTextOrder[row[i]])
         /\ turns[i] = Spoken(c, InTextOrder[row[i]])[col[i]]
  <2>1. \A i \in DOMAIN turns : row[i] \in 1..99
    BY <1>5 DEF LaysOn
  <2>2. \A i \in DOMAIN turns : col[i] \in DOMAIN seqs[row[i]] /\ turns[i] = seqs[row[i]][col[i]]
    BY <1>5, Zenon DEF LaysOn
  <2> QED
    BY <1>4, <2>1, <2>2
<1>7. \A i \in DOMAIN turns : /\ turns[i].session = InTextOrder[row[i]]
                              /\ InTextOrder[row[i]] \in DOMAIN c.texts
  <2> TAKE i \in DOMAIN turns
  <2>1. PICK s \in 1..99 : s = InTextOrder[row[i]]
    BY <1>6
  <2>2. col[i] \in DOMAIN Spoken(c, s) /\ turns[i] = Spoken(c, s)[col[i]]
    BY <1>6, <2>1
  <2>3. Spoken(c, s)[col[i]].session = s /\ s \in DOMAIN c.texts
    BY <2>2, SpokenInOrder
  <2> QED
    BY <2>1, <2>2, <2>3
<1>8. \A i, j \in DOMAIN turns :
         i < j /\ turns[i].session = turns[j].session => turns[i].place < turns[j].place
  <2> SUFFICES ASSUME NEW i \in DOMAIN turns, NEW j \in DOMAIN turns,
                      i < j, turns[i].session = turns[j].session
               PROVE  turns[i].place < turns[j].place
    OBVIOUS
  <2>0. InTextOrder[row[i]] = InTextOrder[row[j]]
    BY <1>7
  <2>1. row[i] = row[j]
    BY <1>6, <2>0, TextOrder
  <2>2. col[i] < col[j]
    BY <1>5, <1>6, <2>1 DEF LaysOn
  <2>3. PICK s \in 1..99 : s = InTextOrder[row[i]]
    BY <1>6
  <2>4. /\ col[i] \in DOMAIN Spoken(c, s) /\ turns[i] = Spoken(c, s)[col[i]]
        /\ col[j] \in DOMAIN Spoken(c, s) /\ turns[j] = Spoken(c, s)[col[j]]
    BY <1>6, <2>1, <2>3
  <2> QED
    BY <2>2, <2>4, SpokenInOrder
<1>9. {turns[i] : i \in DOMAIN turns} = SpokenTurns(c)
  <2>1. ASSUME NEW i \in DOMAIN turns PROVE turns[i] \in SpokenTurns(c)
    BY <1>6, <1>7 DEF SpokenTurns, ToSet
  <2>2. ASSUME NEW t \in SpokenTurns(c) PROVE \E i \in DOMAIN turns : turns[i] = t
    <3>1. PICK s \in DOMAIN c.texts : \E p \in DOMAIN Spoken(c, s) : t = Spoken(c, s)[p]
      BY DEF SpokenTurns, ToSet
    <3>2. PICK p \in DOMAIN Spoken(c, s) : t = Spoken(c, s)[p]
      BY <3>1
    <3>3. PICK k \in 1..99 : InTextOrder[k] = s
      BY TextOrder, IngestAssumption DEF MaxSession
    <3>4. PICK i \in DOMAIN turns : row[i] = k /\ col[i] = p
      BY <1>4, <1>5, <3>2, <3>3 DEF LaysOn
    <3> QED
      BY <1>6, <3>2, <3>3, <3>4
  <2> QED
    BY <2>1, <2>2
<1>10. Flattened(c) = turns
  BY DEF Flattened, turns, seqs, MaxSession
<1> QED
  BY <1>2, <1>7, <1>8, <1>9, <1>10 DEF Lists

\* The groups come in the order of their numbers.
LEMMA GroupsInOrder ==
    ASSUME NEW c \in Conversations, NEW turns, Lists(turns, c)
    PROVE  /\ Groups(c, turns) \in Seq(1..100)
           /\ \A i \in DOMAIN turns : Group(c, turns[i].session) \in 1..100
           /\ \A i \in DOMAIN turns :
                 \E k \in DOMAIN Groups(c, turns) : Groups(c, turns)[k] = Group(c, turns[i].session)
           /\ \A k, m \in DOMAIN Groups(c, turns) :
                 k < m => Groups(c, turns)[k] < Groups(c, turns)[m]
<1> DEFINE all == [g \in 1..100 |-> g]
           used == {Group(c, turns[i].session) : i \in DOMAIN turns}
           gs == Selected(all, used)
<1>1. \A i \in DOMAIN turns : Group(c, turns[i].session) \in 1..100
  <2> TAKE i \in DOMAIN turns
  <2>1. c.stamp[turns[i].session] \in 0..99
    BY IngestAssumption DEF Lists, MaxSession
  <2> QED
    BY <2>1 DEF Group, MaxSession
<1>2. all \in Seq(1..100) /\ DOMAIN all = 1..100 /\ \A g \in 1..100 : all[g] = g
  <2>1. \A g \in 1..100 : all[g] \in 1..100
    OBVIOUS
  <2> QED
    BY <2>1
<1> HIDE DEF all
<1>3. gs \in Seq(1..100) /\ \E at : Picks(gs, all, used, at)
  BY <1>2, SelectedPicks
<1>4. PICK at : Picks(gs, all, used, at)
  BY <1>3
<1>5. \A i \in DOMAIN turns : \E k \in DOMAIN gs : gs[k] = Group(c, turns[i].session)
  <2> TAKE i \in DOMAIN turns
  <2>1. Group(c, turns[i].session) \in DOMAIN all \cap used
    BY <1>1, <1>2
  <2> HIDE DEF used, gs
  <2>2. PICK k \in DOMAIN gs : at[k] = Group(c, turns[i].session)
    BY <2>1, <1>4 DEF Picks
  <2>3. gs[k] = all[at[k]]
    BY <1>4 DEF Picks
  <2> QED
    BY <1>1, <1>2, <2>2, <2>3
<1>6. \A k, m \in DOMAIN gs : k < m => gs[k] < gs[m]
  <2> HIDE DEF used, gs
  <2>1. \A k \in DOMAIN gs : gs[k] = at[k]
    BY <1>2, <1>4 DEF Picks
  <2> QED
    BY <1>4, <2>1 DEF Picks
<1>7. Groups(c, turns) = gs
  BY DEF Groups, gs, used, all, MaxSession
<1> QED
  BY <1>1, <1>3, <1>5, <1>6, <1>7

\* Messages come session by session, those of a session in their places.
InOrder(list) == \A i, j \in DOMAIN list :
    i < j => \/ list[i].session < list[j].session
             \/ list[i].session = list[j].session /\ list[i].place < list[j].place

\* A list of the turns of a conversation, session by session of the turns of a
\* group, with the place at which each turn was in another list.
Stems(list, turns, c, from) ==
    /\ list \in Seq(Message)
    /\ InOrder(list)
    /\ from \in [DOMAIN list -> DOMAIN turns]
    /\ \A i \in DOMAIN list : list[i].turn = turns[from[i]]
    /\ \A t \in DOMAIN turns : \E i \in DOMAIN list : from[i] = t
    /\ \A i, j \in DOMAIN list : list[i].session = list[j].session /\ i < j => from[i] < from[j]
    /\ \A i, j \in DOMAIN list :
          list[i].session < list[j].session
          => Group(c, list[i].turn.session) < Group(c, list[j].turn.session)
    /\ \A i, j \in DOMAIN list :
          list[i].session = list[j].session
          => Group(c, list[i].turn.session) = Group(c, list[j].turn.session)

LEMMA MessagesStem ==
    ASSUME NEW c \in Conversations
    PROVE  \E from : Stems(Messages(c), Flattened(c), c, from)
<1> DEFINE turns == Flattened(c)
           gs == Groups(c, turns)
           n == Len(gs)
           of(k) == {i \in DOMAIN turns : Group(c, turns[i].session) = gs[k]}
           sessions == MemboxSessions(c)
           at == [k \in 1..n |-> CHOOSE a : Picks(sessions[k], turns, of(k), a)]
           rows == [k \in DOMAIN sessions |->
                       [p \in DOMAIN sessions[k] |->
                           [turn |-> sessions[k][p], session |-> k, place |-> p]]]
           list == FlattenSeq(rows)
<1>1. Lists(turns, c)
  BY FlattenedLists
<1>2. turns \in Seq(Turn)
  BY <1>1 DEF Lists
<1> HIDE DEF turns
<1>3. /\ gs \in Seq(1..100)
      /\ \A i \in DOMAIN turns : Group(c, turns[i].session) \in 1..100
      /\ \A i \in DOMAIN turns : \E k \in DOMAIN gs : gs[k] = Group(c, turns[i].session)
      /\ \A k, m \in DOMAIN gs : k < m => gs[k] < gs[m]
  BY <1>1, GroupsInOrder
<1> HIDE DEF gs
<1>4. n \in Nat /\ DOMAIN gs = 1..n /\ \A k \in 1..n : gs[k] \in 1..100
  <2>1. gs \in Seq(1..100)
    BY <1>3
  <2>2. Len(gs) \in Nat /\ DOMAIN gs = 1..Len(gs) /\ \A k \in 1..Len(gs) : gs[k] \in 1..100
    BY <2>1, LenProperties, ElementOfSeq
  <2> QED
    BY <2>2
<1>5. sessions = [k \in 1..n |-> Selected(turns, of(k))]
  BY <1>4 DEF MemboxSessions, turns, gs
<1> HIDE DEF of, sessions
<1>6. \A k \in 1..n : sessions[k] \in Seq(Turn) /\ Picks(sessions[k], turns, of(k), at[k])
  <2> TAKE k \in 1..n
  <2>1. sessions[k] = Selected(turns, of(k))
    BY <1>5
  <2>2. sessions[k] \in Seq(Turn) /\ \E a : Picks(sessions[k], turns, of(k), a)
    BY <1>2, <2>1, SelectedPicks
  <2> QED
    BY <2>2
<1> HIDE DEF at
<1>7. /\ DOMAIN rows = 1..n
      /\ \A k \in 1..n : DOMAIN rows[k] = DOMAIN sessions[k]
      /\ \A k \in 1..n : \A p \in DOMAIN sessions[k] :
            rows[k][p] = [turn |-> sessions[k][p], session |-> k, place |-> p]
  BY <1>5
<1>8. \A k \in 1..n : rows[k] \in Seq(Message)
  <2> TAKE k \in 1..n
  <2>1. sessions[k] \in Seq(Turn)
    BY <1>6
  <2>2. /\ DOMAIN sessions[k] = 1..Len(sessions[k]) /\ Len(sessions[k]) \in Nat
        /\ \A p \in 1..Len(sessions[k]) : sessions[k][p] \in Turn
    BY <2>1
  <2>3. \A p \in 1..Len(sessions[k]) : rows[k][p] \in Message
    BY <2>2, <1>7 DEF Message
  <2> DEFINE r == rows[k]
             L == Len(sessions[k])
  <2>4. r = [p \in 1..L |-> r[p]]
    BY <2>2, <1>5
  <2>5. L \in Nat /\ \A p \in 1..L : r[p] \in Message
    BY <2>2, <2>3
  <2> HIDE DEF rows, r, L
  <2>6. r \in Seq(Message)
    BY <2>4, <2>5
  <2> QED
    BY <2>6 DEF r
<1>9. rows \in Seq(Seq(Message)) /\ Len(rows) = n
  <2>1. rows = [k \in 1..n |-> rows[k]]
    BY <1>5
  <2> HIDE DEF rows
  <2> QED
    BY <1>4, <1>8, <2>1
<1> HIDE DEF rows
<1>10. list \in Seq(Message) /\ \E row, col : Lays(list, rows, n, row, col)
  BY <1>9, FlattenLays
<1> HIDE DEF list
<1>11. PICK row, col : Lays(list, rows, n, row, col)
  BY <1>10
<1>12. LaysOn(DOMAIN list, list, rows, n, row, col)
  BY <1>11 DEF Lays
<1> DEFINE from == [i \in DOMAIN list |-> at[row[i]][col[i]]]
<1>13. \A i \in DOMAIN list :
          /\ row[i] \in 1..n /\ col[i] \in DOMAIN sessions[row[i]]
          /\ list[i].turn = sessions[row[i]][col[i]]
          /\ list[i].session = row[i] /\ list[i].place = col[i]
  <2> TAKE i \in DOMAIN list
  <2>1. /\ row[i] \in 1..n /\ col[i] \in DOMAIN rows[row[i]]
        /\ list[i] = rows[row[i]][col[i]]
    BY <1>12 DEF LaysOn
  <2>2. /\ col[i] \in DOMAIN sessions[row[i]]
        /\ list[i] = [turn |-> sessions[row[i]][col[i]], session |-> row[i], place |-> col[i]]
    BY <1>7, <2>1
  <2> QED
    BY <2>1, <2>2
<1>14. \A i \in DOMAIN list :
          /\ from[i] = at[row[i]][col[i]] /\ from[i] \in DOMAIN turns
          /\ list[i].turn = turns[from[i]]
          /\ Group(c, list[i].turn.session) = gs[row[i]]
  <2> TAKE i \in DOMAIN list
  <2>1. row[i] \in 1..n /\ col[i] \in DOMAIN sessions[row[i]]
        /\ Picks(sessions[row[i]], turns, of(row[i]), at[row[i]])
    BY <1>6, <1>13
  <2>2. /\ at[row[i]][col[i]] \in DOMAIN turns \cap of(row[i])
        /\ sessions[row[i]][col[i]] = turns[at[row[i]][col[i]]]
    BY <2>1 DEF Picks
  <2> QED
    BY <2>2, <1>13 DEF of
<1>15. \A t \in DOMAIN turns : \E i \in DOMAIN list : from[i] = t
  <2> TAKE t \in DOMAIN turns
  <2>1. PICK k \in 1..n : gs[k] = Group(c, turns[t].session)
    BY <1>3, <1>4
  <2>2. t \in DOMAIN turns \cap of(k)
    BY <2>1 DEF of
  <2>3. PICK p \in DOMAIN sessions[k] : at[k][p] = t
    BY <1>6, <2>2 DEF Picks
  <2>4. PICK i \in DOMAIN list : row[i] = k /\ col[i] = p
    BY <1>7, <1>12 DEF LaysOn
  <2> QED
    BY <1>14, <2>3, <2>4
<1>16. \A i, j \in DOMAIN list : list[i].session = list[j].session /\ i < j => from[i] < from[j]
  <2> SUFFICES ASSUME NEW i \in DOMAIN list, NEW j \in DOMAIN list,
                      list[i].session = list[j].session, i < j
               PROVE  from[i] < from[j]
    OBVIOUS
  <2>1. PICK k \in 1..n : row[i] = k /\ row[j] = k
    BY <1>13
  <2>2. col[i] < col[j]
    BY <1>12, <1>13, <2>1 DEF LaysOn
  <2>3. col[i] \in DOMAIN sessions[k] /\ col[j] \in DOMAIN sessions[k]
    BY <1>13, <2>1
  <2>4. at[k][col[i]] < at[k][col[j]]
    BY <1>6, <2>2, <2>3 DEF Picks
  <2> QED
    BY <1>14, <2>1, <2>4
<1>17. InOrder(list)
  BY <1>12, <1>13 DEF InOrder, LaysOn
<1>18. \A i, j \in DOMAIN list :
          /\ list[i].session < list[j].session
             => Group(c, list[i].turn.session) < Group(c, list[j].turn.session)
          /\ list[i].session = list[j].session
             => Group(c, list[i].turn.session) = Group(c, list[j].turn.session)
  BY <1>3, <1>4, <1>13, <1>14
<1>19. from \in [DOMAIN list -> DOMAIN turns]
  BY <1>14
<1> HIDE DEF from
<1>20. Stems(list, turns, c, from)
  BY <1>10, <1>14, <1>15, <1>16, <1>17, <1>18, <1>19 DEF Stems
<1>21. Messages(c) = list
  BY DEF Messages, list, rows, sessions
<1> QED
  BY <1>20, <1>21 DEF turns

\* What TurnsReachMembox says of the messages of a conversation.
Reaches(list, c) ==
    /\ Len(list) = Cardinality(SpokenTurns(c))
    /\ {list[i].turn : i \in DOMAIN list} = SpokenTurns(c)
    /\ \A i, j \in DOMAIN list :
          /\ list[i].session = list[j].session
             <=> Group(c, list[i].turn.session) = Group(c, list[j].turn.session)
          /\ i < j /\ list[i].turn.session = list[j].turn.session
             => list[i].turn.place < list[j].turn.place
    /\ (\A i, j \in DOMAIN list :
           list[i].turn.session < list[j].turn.session
           => Group(c, list[i].turn.session) < Group(c, list[j].turn.session))
       => \A i, j \in DOMAIN list : i < j => list[i].turn.session <= list[j].turn.session

LEMMA MessagesReach ==
    ASSUME NEW c \in Conversations
    PROVE  Messages(c) \in Seq(Message) /\ InOrder(Messages(c)) /\ Reaches(Messages(c), c)
<1> DEFINE list == Messages(c)
           turns == Flattened(c)
           group(i) == Group(c, list[i].turn.session)
<1>1. Lists(turns, c)
  BY FlattenedLists
<1>2. PICK from : Stems(list, turns, c, from)
  BY MessagesStem
<1> HIDE DEF list, turns
<1>3. /\ DOMAIN list = 1..Len(list) /\ Len(list) \in Nat
      /\ \A i \in DOMAIN list : /\ list[i].session \in Nat /\ list[i].turn \in Turn
                                /\ list[i].turn.session \in Nat /\ list[i].turn.place \in Nat
  <2>1. list \in Seq(Message)
    BY <1>2 DEF Stems
  <2>2. DOMAIN list = 1..Len(list) /\ Len(list) \in Nat /\ \A i \in DOMAIN list : list[i] \in Message
    BY <2>1
  <2>3. ASSUME NEW x \in Message
        PROVE  /\ x.session \in Nat /\ x.turn \in Turn
               /\ x.turn.session \in Nat /\ x.turn.place \in Nat
    BY DEF Message, Turn, MaxSession
  <2> QED
    BY <2>2, <2>3
<1>4. /\ DOMAIN turns \subseteq Nat
      /\ \A i \in DOMAIN list : from[i] \in DOMAIN turns /\ list[i].turn = turns[from[i]]
  <2>1. turns \in Seq(Turn)
    BY <1>1 DEF Lists
  <2>2. DOMAIN turns \subseteq Nat
    BY <2>1
  <2> QED
    BY <2>2, <1>2 DEF Stems
<1>5. \A i \in DOMAIN list : group(i) \in Nat
  <2> TAKE i \in DOMAIN list
  <2>1. list[i].turn.session \in DOMAIN c.texts
    BY <1>1, <1>4 DEF Lists
  <2>2. c.stamp[list[i].turn.session] \in 0..99
    BY <2>1, IngestAssumption DEF MaxSession
  <2> QED
    BY <2>2 DEF Group, MaxSession
<1>6. {list[i].turn : i \in DOMAIN list} = SpokenTurns(c)
  <2>1. \A i \in DOMAIN list : list[i].turn \in SpokenTurns(c)
    BY <1>1, <1>4 DEF Lists
  <2>2. ASSUME NEW t \in SpokenTurns(c) PROVE \E i \in DOMAIN list : list[i].turn = t
    <3>1. PICK k \in DOMAIN turns : turns[k] = t
      BY <1>1 DEF Lists
    <3>2. PICK i \in DOMAIN list : from[i] = k
      BY <1>2 DEF Stems
    <3> QED
      BY <1>4, <3>1, <3>2
  <2> QED
    BY <2>1, <2>2
<1>7. \A i, j \in DOMAIN list : list[i].session = list[j].session <=> group(i) = group(j)
  <2> SUFFICES ASSUME NEW i \in DOMAIN list, NEW j \in DOMAIN list
               PROVE  list[i].session = list[j].session <=> group(i) = group(j)
    OBVIOUS
  <2>1. list[i].session = list[j].session => group(i) = group(j)
    BY <1>2 DEF Stems
  <2>2. list[i].session < list[j].session => group(i) < group(j)
    BY <1>2 DEF Stems
  <2>3. list[j].session < list[i].session => group(j) < group(i)
    BY <1>2 DEF Stems
  <2>4. /\ list[i].session \in Nat /\ list[j].session \in Nat
        /\ group(i) \in Nat /\ group(j) \in Nat
    BY <1>3, <1>5
  <2> HIDE DEF group
  <2> QED
    BY <2>1, <2>2, <2>3, <2>4
<1>8. ASSUME NEW i \in DOMAIN list, NEW j \in DOMAIN list, i < j,
             list[i].turn.session = list[j].turn.session
      PROVE  list[i].turn.place < list[j].turn.place
  <2>1. list[i].session = list[j].session
    BY <1>7, <1>8
  <2>2. from[i] < from[j]
    BY <1>2, <1>8, <2>1 DEF Stems
  <2> QED
    BY <1>1, <1>4, <1>8, <2>2 DEF Lists
<1>9. Len(list) = Cardinality(SpokenTurns(c))
  <2> DEFINE f == [i \in 1..Len(list) |-> list[i].turn]
  <2>1. \A i, j \in 1..Len(list) : f[i] = f[j] => i = j
    <3> SUFFICES ASSUME NEW i \in 1..Len(list), NEW j \in 1..Len(list), i < j,
                        list[i].turn = list[j].turn
                 PROVE  FALSE
      BY <1>3
    <3> QED
      BY <1>3, <1>8
  <2>2. f \in [1..Len(list) -> SpokenTurns(c)]
    BY <1>3, <1>6
  <2>3. \A t \in SpokenTurns(c) : \E i \in 1..Len(list) : f[i] = t
    BY <1>3, <1>6
  <2>4. f \in Bijection(1..Len(list), SpokenTurns(c))
    <3> HIDE DEF f
    <3> QED
      BY <2>1, <2>2, <2>3 DEF Bijection, Injection, Surjection, IsInjective
  <2>5. ExistsBijection(1..Len(list), SpokenTurns(c))
    BY <2>4 DEF ExistsBijection
  <2> QED
    BY <1>3, <2>5, FS_CountingElements
<1>10. ASSUME \A i, j \in DOMAIN list :
                 list[i].turn.session < list[j].turn.session => group(i) < group(j),
              NEW i \in DOMAIN list, NEW j \in DOMAIN list, i < j
       PROVE  list[i].turn.session <= list[j].turn.session
  <2> SUFFICES ASSUME list[j].turn.session < list[i].turn.session
               PROVE  FALSE
    BY <1>3
  <2>1. group(j) < group(i)
    BY <1>10
  <2>2. list[i].session <= list[j].session
    BY <1>2, <1>3, <1>10 DEF Stems, InOrder
  <2>3. list[i].session = list[j].session => group(i) = group(j)
    BY <1>7
  <2>4. list[i].session < list[j].session => group(i) < group(j)
    BY <1>2 DEF Stems
  <2>5. /\ list[i].session \in Nat /\ list[j].session \in Nat
        /\ group(i) \in Nat /\ group(j) \in Nat
    BY <1>3, <1>5
  <2> HIDE DEF group
  <2> QED
    BY <2>1, <2>2, <2>3, <2>4, <2>5
<1>11. Reaches(list, c)
  BY <1>6, <1>7, <1>8, <1>9, <1>10 DEF Reaches
<1> QED
  BY <1>2, <1>11 DEF list, Stems

(* ----------------------- The inductive invariant ------------------------ *)

BoxShape == [id : Nat, holds : Seq(Turn), session : Nat, first : Nat, last : Nat,
             events : Extractions]

\* The events that an entry may list.
EventSets == (UNION {SUBSET ToSet(events) : events \in Extractions})
             \cup (UNION {ToSet(answer.chains) \cup {ToSet(answer.isolated)}
                          \cup {{e} : e \in ToSet(answer.isolated)} : answer \in Chainings})

TraceShape == [boxes : Seq(Nat), entries : Seq([box : Nat, events : EventSets])]

Shape == /\ messages \in Seq(Message)
         /\ buffer \in Seq(Nat)
         /\ boxes \in Seq(BoxShape)
         /\ boxFile \in Seq(BoxShape)
         /\ queue \in Seq(BoxShape)
         /\ traces \in Seq(TraceShape)
         /\ pc \in {"idle", "build", "read", "link", "done", "aborted"}
         /\ build \in 0..MaxBuilds
         /\ file \in [{"boxes", "traces"} -> {"none", "whole", "torn"}]

\* The messages are those of the sample's conversation.
Given == /\ conversation \in Conversations
         /\ InOrder(messages)
         /\ build > 0 => messages = Messages(conversation)
         /\ build = 0 => pc = "idle" /\ boxes = <<>>

\* The buffer has the latest messages that were read, all of one session.
Buffered ==
    /\ next \in 1..Len(messages)+1
    /\ Len(buffer) <= next - 1
    /\ \A k \in DOMAIN buffer : buffer[k] = next - Len(buffer) - 1 + k
    /\ \A i, j \in next-Len(buffer)..next-1 : messages[i].session = messages[j].session

\* A box is of the messages of a list from a to b, all of one session, and if it has one
\* only, no message of this session follows.
Covers(list, box, a, b) ==
    /\ a <= b
    /\ box.holds = [j \in 1..b-a+1 |-> list[a+j-1].turn]
    /\ \A i \in a..b : list[i].session = box.session
    /\ box.first = list[a].place /\ box.last = list[b].place
    /\ a = b /\ b < Len(list) => list[b+1].session # box.session

Held == [k \in DOMAIN boxes |-> boxes[k].holds]

\* The messages before the buffer are in the boxes, in order.
Sealing ==
    /\ \A k \in DOMAIN boxes : /\ boxes[k].id = k - 1
                               /\ \E a, b \in 1..next-1 : Covers(messages, boxes[k], a, b)
    /\ FlattenSeq(Held) = [i \in 1..next-1-Len(buffer) |-> messages[i].turn]

\* What a box of the file may be, and where the boxes of this build are in it once
\* they have all been written.
Filed ==
    /\ \A k \in DOMAIN boxFile : /\ boxFile[k].id \in 0..k-1
                                 /\ ToSet(boxFile[k].holds) \subseteq SpokenTurns(conversation)
    /\ pc \in {"read", "link", "done"} =>
          /\ Sealed
          /\ Len(boxes) <= Len(boxFile)
          /\ \A k \in DOMAIN boxes : boxFile[Len(boxFile) - Len(boxes) + k] = boxes[k]

\* A trace lists each box that it has entries of once, in order, and ends before
\* the boxes that are still to be linked.
Accounted(trace, rest) ==
    /\ ToSet(trace.boxes) = IdsOf(trace)
    /\ \A i, j \in DOMAIN trace.boxes : i < j => trace.boxes[i] < trace.boxes[j]
    /\ \A i \in DOMAIN trace.boxes, j \in DOMAIN rest : trace.boxes[i] <= rest[j].id

\* Boxes of the file, by number.
ByNumber(list) == \A i, j \in DOMAIN list : i < j => list[i].id <= list[j].id

Linking ==
    /\ ToSet(queue) \subseteq ToSet(boxFile)
    /\ ByNumber(queue)
    /\ \A t \in DOMAIN traces : Accounted(traces[t], queue)

\* Where an event of a linked box is that has no other.
SinglesLinked ==
    pc = "link" =>
       \A box \in ToSet(boxFile) \ ToSet(queue) :
          Len(box.events) = 1 =>
             \E t \in DOMAIN traces : \E k \in DOMAIN traces[t].entries :
                /\ traces[t].entries[k].box = box.id
                /\ box.events[1] \in traces[t].entries[k].events

IInv == Shape /\ Given /\ Buffered /\ Sealing /\ Filed /\ Linking /\ SinglesLinked

LEMMA InitOK == Init => IInv
<1> SUFFICES ASSUME Init PROVE IInv
  OBVIOUS
<1>1. /\ messages = <<>> /\ next = 1 /\ buffer = <<>> /\ boxes = <<>> /\ queue = <<>>
      /\ traces = <<>> /\ boxFile = <<>> /\ pc = "idle" /\ build = 0
      /\ conversation \in Conversations
      /\ file \in [{"boxes", "traces"} -> {"none", "whole", "torn"}]
  BY DEF Init
<1>2. Shape
  BY <1>1, IngestAssumption DEF Shape
<1>3. Given /\ Buffered
  BY <1>1 DEF Given, InOrder, Buffered
<1>4. Sealing
  <2>1. Held = <<>>
    BY <1>1 DEF Held
  <2>2. FlattenSeq(Held) = <<>>
    BY <2>1, FlattenEmpty
  <2> QED
    BY <1>1, <2>2 DEF Sealing
<1>5. Filed /\ Linking /\ SinglesLinked
  BY <1>1 DEF Filed, Linking, SinglesLinked, ByNumber, ToSet
<1> QED
  BY <1>2, <1>3, <1>4, <1>5 DEF IInv

LEMMA StartIngestOK == ASSUME IInv, StartIngest PROVE IInv'
<1>0. Shape /\ Given /\ Filed
  BY DEF IInv
<1>1. /\ build < MaxBuilds /\ build' = build + 1 /\ pc' = "build"
      /\ messages' = Messages(conversation) /\ next' = 1 /\ buffer' = <<>> /\ boxes' = <<>>
      /\ queue' = <<>> /\ traces' = <<>>
      /\ UNCHANGED <<conversation, boxFile, file>>
  BY DEF StartIngest, Prepare
<1>2. Messages(conversation) \in Seq(Message) /\ InOrder(Messages(conversation))
  BY <1>0, MessagesReach DEF Given
<1>3. Shape'
  BY <1>0, <1>1, <1>2, IngestAssumption DEF Shape
<1>4. Given'
  <2>1. InOrder(messages)'
    BY <1>1, <1>2 DEF InOrder
  <2>2. build' > 0
    BY <1>0, <1>1, IngestAssumption DEF Shape
  <2> QED
    BY <1>0, <1>1, <2>1, <2>2 DEF Given
<1>5. Buffered'
  BY <1>1, <1>2 DEF Buffered
<1>6. Sealing'
  <2>1. Held' = <<>>
    BY <1>1 DEF Held
  <2>2. FlattenSeq(Held') = <<>>
    BY <2>1, FlattenEmpty
  <2> QED
    BY <1>1, <2>2 DEF Sealing
<1>7. Filed' /\ Linking' /\ SinglesLinked'
  BY <1>0, <1>1 DEF Filed, Linking, SinglesLinked, ByNumber, ToSet
<1> QED
  BY <1>3, <1>4, <1>5, <1>6, <1>7 DEF IInv

(* ------------------------------- Building ------------------------------- *)

LEMMA LastInBuffer ==
    ASSUME Shape, Buffered, buffer # <<>>
    PROVE  /\ Len(buffer) \in Nat \ {0} /\ DOMAIN buffer = 1..Len(buffer)
           /\ Last(buffer) = next - 1 /\ Head(buffer) = next - Len(buffer)
           /\ next \in Nat /\ Len(messages) \in Nat /\ DOMAIN messages = 1..Len(messages)
           /\ next - Len(buffer) \in 1..next-1 /\ next - 1 \in 1..next-1
           /\ next - 1 \in 1..Len(messages)
<1>1. buffer \in Seq(Nat) /\ messages \in Seq(Message)
  BY DEF Shape
<1>2. /\ Len(buffer) \in Nat \ {0} /\ DOMAIN buffer = 1..Len(buffer)
      /\ Last(buffer) = buffer[Len(buffer)] /\ Head(buffer) = buffer[1]
      /\ Len(messages) \in Nat /\ DOMAIN messages = 1..Len(messages)
  BY <1>1 DEF Last
<1>3. next \in 1..Len(messages)+1 /\ Len(buffer) <= next - 1
  BY DEF Buffered
<1>4. /\ buffer[Len(buffer)] = next - Len(buffer) - 1 + Len(buffer)
      /\ buffer[1] = next - Len(buffer) - 1 + 1
  BY <1>2 DEF Buffered
<1> QED
  BY <1>2, <1>3, <1>4

\* A message that goes on with the box.
LEMMA JoinOK ==
    ASSUME IInv, Join, UNCHANGED <<linkerVars, conversation, pc, build, boxFile, file>>
    PROVE  IInv'
<1>0. Shape /\ Given /\ Buffered /\ Sealing /\ Filed /\ Linking /\ SinglesLinked
  BY DEF IInv
<1>1. /\ next <= Len(messages)
      /\ buffer # <<>> => SameSession
      /\ buffer' = Append(buffer, next) /\ next' = next + 1
      /\ UNCHANGED <<messages, boxes, queue, traces, conversation, pc, build, boxFile, file>>
  BY DEF Join, linkerVars
<1>2. /\ messages \in Seq(Message) /\ Len(messages) \in Nat /\ DOMAIN messages = 1..Len(messages)
      /\ buffer \in Seq(Nat) /\ Len(buffer) \in Nat /\ DOMAIN buffer = 1..Len(buffer)
      /\ next \in 1..Len(messages)+1 /\ Len(buffer) <= next - 1
  BY <1>0 DEF Shape, Buffered
<1>3. /\ buffer' \in Seq(Nat) /\ Len(buffer') = Len(buffer) + 1
      /\ DOMAIN buffer' = 1..Len(buffer)+1
      /\ \A k \in 1..Len(buffer) : buffer'[k] = buffer[k]
      /\ buffer'[Len(buffer)+1] = next
  BY <1>1, <1>2
<1>4. Shape'
  BY <1>0, <1>1, <1>3 DEF Shape
<1>5. Given'
  BY <1>0, <1>1 DEF Given, InOrder
<1>6. Buffered'
  <2>1. next' \in 1..Len(messages')+1 /\ Len(buffer') <= next' - 1
    BY <1>1, <1>2, <1>3
  <2>2. \A k \in DOMAIN buffer' : buffer'[k] = next' - Len(buffer') - 1 + k
    <3> TAKE k \in DOMAIN buffer'
    <3>1. CASE k \in 1..Len(buffer)
      BY <3>1, <1>0, <1>1, <1>2, <1>3 DEF Buffered
    <3>2. CASE k = Len(buffer) + 1
      BY <3>2, <1>1, <1>2, <1>3
    <3> QED
      BY <3>1, <3>2, <1>2, <1>3
  <2>3. \A i \in next-Len(buffer)..next : messages[i].session = messages[next].session
    <3> TAKE i \in next-Len(buffer)..next
    <3>1. CASE i = next
      BY <3>1
    <3>2. CASE i # next
      <4>1. Len(buffer) # 0 /\ i \in next-Len(buffer)..next-1
        BY <3>2, <1>2
      <4>2. buffer # <<>>
        BY <4>1
      <4>3. Last(buffer) = next - 1 /\ next - 1 \in next-Len(buffer)..next-1
        BY <1>0, <4>2, LastInBuffer
      <4>4. messages[i].session = messages[next-1].session
        BY <1>0, <4>1, <4>3 DEF Buffered
      <4> QED
        BY <1>1, <4>2, <4>3, <4>4 DEF SameSession
    <3> QED
      BY <3>1, <3>2
  <2>4. next' - Len(buffer') = next - Len(buffer) /\ next' - 1 = next
    BY <1>1, <1>2, <1>3
  <2>5. \A i, j \in next'-Len(buffer')..next'-1 : messages'[i].session = messages'[j].session
    BY <1>1, <2>3, <2>4
  <2> QED
    BY <2>1, <2>2, <2>5 DEF Buffered
<1>7. Sealing'
  <2>1. next' - 1 - Len(buffer') = next - 1 - Len(buffer) /\ 1..next-1 \subseteq 1..next'-1
    BY <1>1, <1>2, <1>3
  <2>2. Held' = Held
    BY <1>1 DEF Held
  <2>3. \A k \in DOMAIN boxes' : /\ boxes'[k].id = k - 1
                                 /\ \E a, b \in 1..next'-1 : Covers(messages', boxes[k], a, b)
    <3> TAKE k \in DOMAIN boxes'
    <3>1. PICK a, b \in 1..next-1 : Covers(messages, boxes[k], a, b)
      BY <1>0, <1>1 DEF Sealing
    <3>2. Covers(messages', boxes[k], a, b)
      BY <3>1, <1>1
    <3> QED
      BY <3>2, <1>0, <1>1, <2>1 DEF Sealing
  <2> QED
    BY <1>0, <1>1, <2>1, <2>2, <2>3 DEF Sealing
<1>8. Filed'
  <2>1. ~Sealed
    BY <1>1, <1>2 DEF Sealed
  <2>2. pc' \notin {"read", "link", "done"}
    BY <1>0, <1>1, <2>1 DEF Filed
  <2> QED
    BY <1>0, <1>1, <2>2 DEF Filed
<1>9. Linking' /\ SinglesLinked'
  BY <1>0, <1>1 DEF Linking, SinglesLinked, ByNumber
<1> QED
  BY <1>4, <1>5, <1>6, <1>7, <1>8, <1>9 DEF IInv

\* The first messages, as turns.
Prefix(n) == [i \in 1..n |-> messages[i].turn]

LEMMA PrefixGrows ==
    ASSUME NEW n \in Nat, NEW l \in Nat
    PROVE  Prefix(n) \o [j \in 1..l |-> messages[n+j].turn] = Prefix(n + l)
<1> DEFINE more == [j \in 1..l |-> messages[n+j].turn]
<1> DEFINE S == {messages[i].turn : i \in 1..n+l}
<1>1. Prefix(n) \in Seq(S) /\ Len(Prefix(n)) = n
  <2>1. \A i \in 1..n : messages[i].turn \in S
    OBVIOUS
  <2> HIDE DEF S
  <2> QED
    BY <2>1 DEF Prefix
<1>m. more \in Seq(S) /\ Len(more) = l
  <2>1. \A j \in 1..l : messages[n+j].turn \in S
    OBVIOUS
  <2> HIDE DEF S
  <2> QED
    BY <2>1
<1>2. Prefix(n) \o more = [i \in 1..n+l |-> IF i <= n THEN Prefix(n)[i] ELSE more[i-n]]
  <2> DEFINE all == Prefix(n) \o more
  <2> HIDE DEF more, S
  <2>1. /\ all \in Seq(S) /\ Len(all) = n + l
        /\ \A i \in 1..n+l : all[i] = IF i <= n THEN Prefix(n)[i] ELSE more[i-n]
    <3>1. /\ all \in Seq(S) /\ Len(all) = Len(Prefix(n)) + Len(more)
          /\ \A i \in 1..Len(Prefix(n))+Len(more) :
                all[i] = IF i <= Len(Prefix(n)) THEN Prefix(n)[i] ELSE more[i - Len(Prefix(n))]
      BY <1>1, <1>m, ConcatProperties, Zenon
    <3> HIDE DEF all
    <3> QED
      BY <1>1, <1>m, <3>1
  <2> HIDE DEF all
  <2>2. all = [i \in 1..n+l |-> all[i]]
    BY <2>1
  <2>3. all = [i \in 1..n+l |-> IF i <= n THEN Prefix(n)[i] ELSE more[i-n]]
    BY <2>1, <2>2
  <2> QED
    BY <2>3 DEF all
<1>3. \A i \in 1..n+l : (IF i <= n THEN Prefix(n)[i] ELSE more[i-n]) = messages[i].turn
  <2> TAKE i \in 1..n+l
  <2>1. CASE i <= n
    <3>1. i \in 1..n
      BY <2>1
    <3> QED
      BY <2>1, <3>1 DEF Prefix
  <2>2. CASE ~(i <= n)
    <3>1. i - n \in 1..l /\ n + (i - n) = i
      BY <2>2
    <3> QED
      BY <2>2, <3>1
  <2> QED
    BY <2>1, <2>2
<1> HIDE DEF more
<1>4. [i \in 1..n+l |-> IF i <= n THEN Prefix(n)[i] ELSE more[i-n]] = Prefix(n + l)
  BY <1>3 DEF Prefix
<1> QED
  BY <1>2, <1>4 DEF more

\* The box that is sealed takes all that was read.
LEMMA BoxOfBuffer ==
    ASSUME Shape, Buffered, Sealing, buffer # <<>>, NEW events \in Extractions,
           next <= Len(messages) => (SameSession => Len(buffer) > 1)
    PROVE  /\ Box(events) \in BoxShape
           /\ Box(events).id = Len(boxes)
           /\ Covers(messages, Box(events), next - Len(buffer), next - 1)
           /\ FlattenSeq(Append(Held, Box(events).holds)) = Prefix(next - 1)
<1> DEFINE L == Len(buffer)
           a == next - L
           b == next - 1
           box == Box(events)
<1>1. /\ L \in Nat \ {0} /\ DOMAIN buffer = 1..L
      /\ Last(buffer) = b /\ Head(buffer) = a
      /\ next \in Nat /\ Len(messages) \in Nat /\ DOMAIN messages = 1..Len(messages)
      /\ a \in 1..b /\ b \in 1..b /\ b \in 1..Len(messages)
  BY LastInBuffer
<1>2. a <= b /\ b - a + 1 = L /\ a - 1 \in Nat /\ a - 1 + L = b
  BY <1>1
<1>3. /\ boxes \in Seq(BoxShape) /\ messages \in Seq(Message)
      /\ \A i \in 1..Len(messages) : /\ messages[i].turn \in Turn
                                     /\ messages[i].session \in Nat /\ messages[i].place \in Nat
  <2>1. boxes \in Seq(BoxShape) /\ messages \in Seq(Message)
    BY DEF Shape
  <2>2. \A i \in 1..Len(messages) : messages[i] \in Message
    BY <2>1
  <2> QED
    BY <2>1, <2>2 DEF Message
<1>4. /\ box.id = Len(boxes) /\ box.session = messages[b].session
      /\ box.first = messages[a].place /\ box.last = messages[b].place /\ box.events = events
      /\ box.holds = [k \in DOMAIN buffer |-> messages[buffer[k]].turn]
  BY <1>1 DEF Box
<1>5. \A k \in 1..L : buffer[k] = a - 1 + k /\ a - 1 + k = a + k - 1 /\ a + k - 1 \in 1..Len(messages)
  <2> TAKE k \in 1..L
  <2>1. buffer[k] = next - L - 1 + k
    BY <1>1 DEF Buffered
  <2>2. L \in Nat /\ next \in Nat /\ k \in Nat /\ a = next - L
    BY <1>1
  <2>3. k <= L /\ k >= 1 /\ a >= 1 /\ next - 1 <= Len(messages) /\ Len(messages) \in Nat
    BY <1>1
  <2> HIDE DEF L, a
  <2> QED
    BY <2>1, <2>2, <2>3
<1>6. box.holds = [j \in 1..L |-> messages[a-1+j].turn]
  BY <1>1, <1>4, <1>5
<1>7. box.holds = [j \in 1..b-a+1 |-> messages[a+j-1].turn]
  <2>0. \A k \in 1..L : messages[buffer[k]].turn = messages[a+k-1].turn
    BY <1>5
  <2>1. box.holds = [j \in 1..L |-> messages[a+j-1].turn]
    BY <1>1, <1>4, <2>0
  <2> QED
    BY <2>1, <1>2
<1>8. box.holds \in Seq(Turn)
  <2>1. \A j \in 1..L : messages[a+j-1].turn \in Turn
    BY <1>3, <1>5
  <2>2. box.holds = [j \in 1..L |-> messages[a+j-1].turn]
    BY <1>2, <1>7
  <2> HIDE DEF L, a, b, box
  <2> QED
    BY <2>1, <2>2, <1>1
<1>9. box \in BoxShape
  <2>1. /\ box.id \in Nat /\ box.session \in Nat /\ box.first \in Nat /\ box.last \in Nat
        /\ box.events \in Extractions
    BY <1>1, <1>3, <1>4
  <2>2. box = [id |-> box.id, holds |-> box.holds, session |-> box.session,
               first |-> box.first, last |-> box.last, events |-> box.events]
    BY DEF Box
  <2> HIDE DEF box
  <2> QED
    BY <2>1, <2>2, <1>8 DEF BoxShape
<1>10. Covers(messages, box, a, b)
  <2>1. \A i \in a..b : messages[i].session = messages[b].session
    BY <1>1 DEF Buffered
  <2>2. ASSUME a = b, b < Len(messages)
        PROVE  messages[b+1].session # box.session
    <3>1. L = 1 /\ next <= Len(messages) /\ b + 1 = next
      BY <2>2, <1>1
    <3>2. ~SameSession
      BY <3>1
    <3> QED
      BY <3>1, <3>2, <1>1, <1>4 DEF SameSession
  <2> HIDE DEF a, b, box
  <2> QED
    BY <1>2, <1>4, <1>7, <2>1, <2>2 DEF Covers
<1>11. FlattenSeq(Append(Held, box.holds)) = Prefix(b)
  <2>1. Held \in Seq(Seq(Turn))
    <3>0. \A k \in DOMAIN boxes : boxes[k] \in BoxShape
      BY <1>3
    <3>1. \A k \in DOMAIN boxes : boxes[k].holds \in Seq(Turn)
      BY <3>0 DEF BoxShape
    <3>2. DOMAIN boxes = 1..Len(boxes) /\ Len(boxes) \in Nat
      BY <1>3
    <3>3. Held = [k \in 1..Len(boxes) |-> Held[k]] /\ \A k \in 1..Len(boxes) : Held[k] \in Seq(Turn)
      BY <3>1, <3>2 DEF Held
    <3> QED
      BY <3>2, <3>3
  <2>2. FlattenSeq(Append(Held, box.holds)) = FlattenSeq(Held) \o box.holds
    BY <1>8, <2>1, FlattenAppend
  <2>3. FlattenSeq(Held) = Prefix(a - 1)
    <3>1. next - 1 - L = a - 1
      BY <1>1
    <3> QED
      BY <3>1 DEF Sealing, Prefix
  <2>4. Prefix(a - 1) \o box.holds = Prefix(a - 1 + L)
    <3>1. a - 1 \in Nat /\ L \in Nat
      BY <1>1, <1>2
    <3> HIDE DEF a, b, L, box
    <3>2. \A n \in Nat : Prefix(n) \o [j \in 1..L |-> messages[n+j].turn] = Prefix(n + L)
      BY <3>1, PrefixGrows
    <3>3. Prefix(a - 1) \o [j \in 1..L |-> messages[a-1+j].turn] = Prefix(a - 1 + L)
      BY <3>1, <3>2
    <3> QED
      BY <1>6, <3>3
  <2> QED
    BY <1>2, <2>2, <2>3, <2>4
<1> QED
  BY <1>4, <1>9, <1>10, <1>11

LEMMA BoxAdded ==
    ASSUME IInv, buffer # <<>>, NEW events \in Extractions,
           next <= Len(messages) => (SameSession => Len(buffer) > 1),
           boxes' = Append(boxes, Box(events)), UNCHANGED messages
    PROVE  /\ boxes' \in Seq(BoxShape)
           /\ \A k \in DOMAIN boxes' : /\ boxes'[k].id = k - 1
                                       /\ \E a, b \in 1..next-1 : Covers(messages, boxes'[k], a, b)
           /\ FlattenSeq(Held') = [i \in 1..next-1 |-> messages'[i].turn]
<1> DEFINE box == Box(events)
           n == Len(boxes)
<1>1. Shape /\ Buffered /\ Sealing
  BY DEF IInv
<1>2. /\ box \in BoxShape /\ box.id = n
      /\ Covers(messages, box, next - Len(buffer), next - 1)
      /\ FlattenSeq(Append(Held, box.holds)) = Prefix(next - 1)
  BY <1>1, BoxOfBuffer
<1>3. next - Len(buffer) \in 1..next-1 /\ next - 1 \in 1..next-1
  BY <1>1, LastInBuffer
<1> HIDE DEF box
<1>4. boxes \in Seq(BoxShape) /\ n \in Nat /\ DOMAIN boxes = 1..n
  BY <1>1 DEF Shape
<1>5. /\ boxes' \in Seq(BoxShape) /\ Len(boxes') = n + 1 /\ DOMAIN boxes' = 1..n+1
      /\ boxes'[n+1] = box /\ \A k \in 1..n : boxes'[k] = boxes[k]
  <2>1. boxes' = Append(boxes, box)
    BY DEF box
  <2> QED
    BY <1>2, <1>4, <2>1
<1>7. ASSUME NEW k \in DOMAIN boxes'
      PROVE  /\ boxes'[k].id = k - 1
             /\ \E a, b \in 1..next-1 : Covers(messages, boxes'[k], a, b)
  <2>1. CASE k \in 1..n
    <3>1. PICK a, b \in 1..next-1 : Covers(messages, boxes[k], a, b)
      BY <1>1, <1>4, <2>1 DEF Sealing
    <3>2. Covers(messages, boxes'[k], a, b)
      BY <1>5, <2>1, <3>1
    <3>3. boxes'[k].id = k - 1
      BY <1>1, <1>4, <1>5, <2>1 DEF Sealing
    <3> QED
      BY <3>2, <3>3
  <2>2. CASE k = n + 1
    <3>1. Covers(messages, boxes'[k], next - Len(buffer), next - 1)
      BY <1>2, <1>5, <2>2
    <3> QED
      BY <1>2, <1>3, <1>4, <1>5, <2>2, <3>1
  <2> QED
    BY <1>4, <1>5, <2>1, <2>2
<1>8. Held' = Append(Held, box.holds)
  <2>1. DOMAIN Held = 1..n /\ Held = [k \in 1..n |-> boxes[k].holds]
    BY <1>4 DEF Held
  <2>2. Held' = [k \in 1..n+1 |-> boxes'[k].holds]
    BY <1>5 DEF Held
  <2>3. \A k \in 1..n+1 : boxes'[k].holds = IF k = n + 1 THEN box.holds ELSE Held[k]
    BY <1>4, <1>5, <2>1
  <2>4. Held' = [k \in 1..n+1 |-> IF k = n + 1 THEN box.holds ELSE Held[k]]
    BY <2>2, <2>3
  <2>5. Len(Held) = n
    BY <1>4, <2>1
  <2> HIDE DEF n
  <2> QED
    BY <1>4, <2>1, <2>4, <2>5
<1>9. FlattenSeq(Held') = [i \in 1..next-1 |-> messages'[i].turn]
  BY <1>2, <1>8 DEF Prefix
<1> QED
  BY <1>5, <1>7, <1>9

\* A message that starts another box.
LEMMA SplitOK ==
    ASSUME IInv, NEW events \in Extractions, Split(events),
           pc = "build",
           UNCHANGED <<linkerVars, conversation, pc, build, boxFile, file>>
    PROVE  IInv'
<1>0. Shape /\ Given /\ Buffered /\ Sealing /\ Filed /\ Linking /\ SinglesLinked
  BY DEF IInv
<1>1. /\ next <= Len(messages)
      /\ buffer # <<>>
      /\ SameSession => Len(buffer) > 1
      /\ boxes' = Append(boxes, Box(events))
      /\ buffer' = <<next>> /\ next' = next + 1
      /\ UNCHANGED <<messages, queue, traces, conversation, pc, build, boxFile, file>>
  BY DEF Split, linkerVars
<1>2. /\ boxes' \in Seq(BoxShape)
      /\ \A k \in DOMAIN boxes' : /\ boxes'[k].id = k - 1
                                  /\ \E a, b \in 1..next-1 : Covers(messages, boxes'[k], a, b)
      /\ FlattenSeq(Held') = [i \in 1..next-1 |-> messages'[i].turn]
  BY <1>1, BoxAdded
<1>3. /\ next \in Nat \ {0} /\ next <= Len(messages) /\ Len(messages) \in Nat
      /\ Len(messages') = Len(messages)
  BY <1>0, <1>1 DEF Shape, Buffered
<1>4. buffer' \in Seq(Nat) /\ Len(buffer') = 1 /\ DOMAIN buffer' = {1} /\ buffer'[1] = next
  BY <1>1, <1>3
<1>5. Shape'
  BY <1>0, <1>1, <1>2, <1>4 DEF Shape
<1>6. Given'
  BY <1>0, <1>1 DEF Given, InOrder
<1>7. Buffered'
  <2>1. next' - Len(buffer') = next /\ next' - 1 = next
    BY <1>1, <1>3, <1>4
  <2>2. \A i, j \in next'-Len(buffer')..next'-1 : i = j
    BY <2>1, <1>3
  <2>3. \A i, j \in next'-Len(buffer')..next'-1 : messages'[i].session = messages'[j].session
    BY <2>2, Zenon
  <2> QED
    BY <1>1, <1>3, <1>4, <2>3 DEF Buffered
<1>8. Sealing'
  <2>1. next' - 1 - Len(buffer') = next - 1 /\ 1..next-1 \subseteq 1..next'-1
    BY <1>1, <1>3, <1>4
  <2>2. ASSUME NEW k \in DOMAIN boxes'
        PROVE  \E a, b \in 1..next'-1 : Covers(messages', boxes'[k], a, b)
    <3>1. PICK a, b \in 1..next-1 : Covers(messages, boxes'[k], a, b)
      BY <1>2
    <3>2. a \in 1..next'-1 /\ b \in 1..next'-1
      BY <2>1
    <3> QED
      BY <1>1, <3>1, <3>2
  <2> QED
    BY <1>2, <2>1, <2>2 DEF Sealing
<1>9. Filed'
  BY <1>0, <1>1 DEF Filed
<1>10. Linking' /\ SinglesLinked'
  BY <1>0, <1>1 DEF Linking, SinglesLinked, ByNumber
<1> QED
  BY <1>5, <1>6, <1>7, <1>8, <1>9, <1>10 DEF IInv

\* The box that is open at the end.
LEMMA SealLastOK ==
    ASSUME IInv, NEW events \in Extractions, SealLast(events),
           pc = "build",
           UNCHANGED <<linkerVars, conversation, pc, build, boxFile, file>>
    PROVE  IInv'
<1>0. Shape /\ Given /\ Buffered /\ Sealing /\ Filed /\ Linking /\ SinglesLinked
  BY DEF IInv
<1>1. /\ next > Len(messages)
      /\ buffer # <<>>
      /\ boxes' = Append(boxes, Box(events))
      /\ buffer' = <<>>
      /\ UNCHANGED <<messages, next, queue, traces, conversation, pc, build, boxFile, file>>
  BY DEF SealLast, linkerVars
<1>3. /\ next \in Nat \ {0} /\ ~(next <= Len(messages)) /\ Len(messages) \in Nat
  BY <1>0, <1>1 DEF Shape, Buffered
<1>2. /\ boxes' \in Seq(BoxShape)
      /\ \A k \in DOMAIN boxes' : /\ boxes'[k].id = k - 1
                                  /\ \E a, b \in 1..next-1 : Covers(messages, boxes'[k], a, b)
      /\ FlattenSeq(Held') = [i \in 1..next-1 |-> messages'[i].turn]
  BY <1>1, <1>3, BoxAdded
<1>4. buffer' \in Seq(Nat) /\ Len(buffer') = 0 /\ DOMAIN buffer' = {}
  BY <1>1
<1>5. Shape'
  BY <1>0, <1>1, <1>2, <1>4 DEF Shape
<1>6. Given'
  BY <1>0, <1>1 DEF Given, InOrder
<1>7. Buffered'
  <2>1. next' - Len(buffer') = next /\ next - 1 < next /\ Len(buffer') <= next' - 1
    BY <1>1, <1>3, <1>4
  <2>2. \A i \in next'-Len(buffer')..next'-1 : FALSE
    BY <2>1, <1>1, <1>3
  <2>3. next' \in 1..Len(messages')+1
    BY <1>0, <1>1 DEF Buffered
  <2> QED
    BY <1>4, <2>1, <2>2, <2>3 DEF Buffered
<1>8. Sealing'
  <2>1. next' - 1 - Len(buffer') = next - 1
    BY <1>1, <1>3, <1>4
  <2> QED
    BY <1>1, <1>2, <2>1 DEF Sealing
<1>9. Filed'
  BY <1>0, <1>1 DEF Filed
<1>10. Linking' /\ SinglesLinked'
  BY <1>0, <1>1 DEF Linking, SinglesLinked, ByNumber
<1> QED
  BY <1>5, <1>6, <1>7, <1>8, <1>9, <1>10 DEF IInv

(* --------------------------- Saving the boxes --------------------------- *)

\* The turns in a box of this build were spoken.
LEMMA HeldWereSpoken ==
    ASSUME Shape, Given, Buffered, Sealing, build > 0
    PROVE  \A k \in DOMAIN boxes : ToSet(boxes[k].holds) \subseteq SpokenTurns(conversation)
<1>1. \A i \in DOMAIN messages : messages[i].turn \in SpokenTurns(conversation)
  BY MessagesReach DEF Given, Reaches
<1>2. /\ next \in Nat /\ next - 1 <= Len(messages) /\ Len(messages) \in Nat
      /\ DOMAIN messages = 1..Len(messages)
  BY DEF Shape, Buffered
<1>3. ASSUME NEW k \in DOMAIN boxes, NEW p \in DOMAIN boxes[k].holds
      PROVE  boxes[k].holds[p] \in SpokenTurns(conversation)
  <2>1. PICK a, b \in 1..next-1 : Covers(messages, boxes[k], a, b)
    BY DEF Sealing
  <2>2. boxes[k].holds = [j \in 1..b-a+1 |-> messages[a+j-1].turn]
    BY <2>1 DEF Covers
  <2>3. p \in 1..b-a+1 /\ boxes[k].holds[p] = messages[a+p-1].turn
    BY <1>3, <2>2
  <2>4. a + p - 1 \in DOMAIN messages
    BY <1>2, <2>3
  <2> QED
    BY <1>1, <2>3, <2>4
<1> QED
  BY <1>3 DEF ToSet

LEMMA SaveBoxesOK == ASSUME IInv, SaveBoxes PROVE IInv'
<1>0. Shape /\ Given /\ Buffered /\ Sealing /\ Filed /\ Linking /\ SinglesLinked
  BY DEF IInv
<1>1. /\ pc = "build" /\ Sealed /\ pc' \in {"read", "aborted"}
      /\ \E n \in 0..Len(boxes) : /\ boxFile' = boxFile \o SubSeq(boxes, 1, n)
                                  /\ pc' = "read" => n = Len(boxes)
      /\ file' \in [{"boxes", "traces"} -> {"none", "whole", "torn"}]
      /\ UNCHANGED <<messages, next, buffer, boxes, queue, traces, conversation, build>>
  <2>1. boxes \in Seq(BoxShape) /\ Len(boxes) \in 0..Len(boxes) /\ SubSeq(boxes, 1, Len(boxes)) = boxes
    BY <1>0, SubSeqFull DEF Shape
  <2>2. /\ pc = "build" /\ Sealed
        /\ UNCHANGED <<messages, next, buffer, boxes, queue, traces, conversation, build>>
    BY DEF SaveBoxes, SaveBoxesWhen, builderVars, linkerVars
  <2>3. CASE /\ pc' = "read"
             /\ boxFile' = boxFile \o boxes
             /\ file' = IF boxes # <<>> /\ file["boxes"] = "none"
                        THEN [file EXCEPT !["boxes"] = "whole"] ELSE file
    <3>1. file' \in [{"boxes", "traces"} -> {"none", "whole", "torn"}]
      BY <1>0, <2>3 DEF Shape
    <3> QED
      BY <2>1, <2>2, <2>3, <3>1
  <2>4. CASE /\ pc' = "aborted"
             /\ \E lines \in AppendedLines(boxes) : boxFile' = boxFile \o lines
             /\ \E state \in StateAfterAppend("boxes") : file' = [file EXCEPT !["boxes"] = state]
    <3>1. file' \in [{"boxes", "traces"} -> {"none", "whole", "torn"}]
      BY <1>0, <2>4 DEF Shape, StateAfterAppend
    <3>2. PICK n \in 0..Len(boxes) : boxFile' = boxFile \o SubSeq(boxes, 1, n)
      BY <2>4 DEF AppendedLines
    <3> QED
      BY <2>2, <2>4, <3>1, <3>2
  <2> QED
    BY <2>3, <2>4 DEF SaveBoxes, SaveBoxesWhen
<1>2. PICK n \in 0..Len(boxes) : /\ boxFile' = boxFile \o SubSeq(boxes, 1, n)
                                 /\ pc' = "read" => n = Len(boxes)
  BY <1>1
<1>3. build > 0
  BY <1>0, <1>1 DEF Given, Shape
<1>4. /\ boxes \in Seq(BoxShape) /\ boxFile \in Seq(BoxShape)
      /\ Len(boxes) \in Nat /\ DOMAIN boxes = 1..Len(boxes)
      /\ Len(boxFile) \in Nat /\ DOMAIN boxFile = 1..Len(boxFile)
  BY <1>0 DEF Shape
<1>5. /\ boxFile' \in Seq(BoxShape) /\ Len(boxFile') = Len(boxFile) + n
      /\ DOMAIN boxFile' = 1..Len(boxFile)+n
      /\ \A k \in 1..Len(boxFile) : boxFile'[k] = boxFile[k]
      /\ \A k \in 1..n : boxFile'[Len(boxFile)+k] = boxes[k]
  <2> DEFINE lines == SubSeq(boxes, 1, n)
  <2>1. /\ lines \in Seq(BoxShape) /\ Len(lines) = n /\ \A k \in 1..n : lines[k] = boxes[k]
    <3>1. 1 \in 1..Len(boxes)+1 /\ n \in 1-1..Len(boxes) /\ n \in Nat
      BY <1>4
    <3>2. /\ lines \in Seq(BoxShape)
          /\ Len(lines) = IF 1 <= n THEN n - 1 + 1 ELSE 0
          /\ \A k \in 1..n-1+1 : lines[k] = boxes[1+k-1]
      BY <1>4, <3>1, SubSeqProperties
    <3> HIDE DEF lines
    <3>3. Len(lines) = n
      BY <3>1, <3>2
    <3>4. \A k \in 1..n : k \in 1..n-1+1 /\ 1 + k - 1 = k
      BY <3>1
    <3> QED
      BY <3>2, <3>3, <3>4
  <2>2. boxFile' = boxFile \o lines
    BY <1>2
  <2> HIDE DEF lines
  <2>3. /\ boxFile \o lines \in Seq(BoxShape)
        /\ Len(boxFile \o lines) = Len(boxFile) + Len(lines)
        /\ \A k \in 1..Len(boxFile)+Len(lines) : (boxFile \o lines)[k] =
                  IF k <= Len(boxFile) THEN boxFile[k] ELSE lines[k - Len(boxFile)]
    BY <1>4, <2>1, ConcatProperties
  <2>4. n \in Nat /\ \A k \in 1..n : /\ Len(boxFile) + k \in 1..Len(boxFile)+n
                                      /\ ~(Len(boxFile) + k <= Len(boxFile))
                                      /\ Len(boxFile) + k - Len(boxFile) = k
    BY <1>4
  <2>5. \A k \in 1..n : boxFile'[Len(boxFile)+k] = boxes[k]
    BY <2>1, <2>2, <2>3, <2>4
  <2>6. \A k \in 1..Len(boxFile) : k <= Len(boxFile) /\ k \in 1..Len(boxFile)+n
    BY <1>4, <2>4
  <2>7. \A k \in 1..Len(boxFile) : boxFile'[k] = boxFile[k]
    BY <2>1, <2>2, <2>3, <2>6
  <2> QED
    BY <2>1, <2>2, <2>3, <2>5, <2>7
<1>6. Shape'
  BY <1>0, <1>1, <1>5 DEF Shape
<1>7. Given'
  BY <1>0, <1>1, <1>3 DEF Given, InOrder
<1>8. Buffered' /\ Sealing'
  BY <1>0, <1>1 DEF Buffered, Sealing, Held
<1>9. Filed'
  <2>1. ASSUME NEW k \in DOMAIN boxFile'
        PROVE  /\ boxFile'[k].id \in 0..k-1
               /\ ToSet(boxFile'[k].holds) \subseteq SpokenTurns(conversation)
    <3>1. CASE k \in 1..Len(boxFile)
      BY <1>0, <1>4, <1>5, <3>1 DEF Filed
    <3>2. CASE k \notin 1..Len(boxFile)
      <4>1. /\ k - Len(boxFile) \in 1..n /\ Len(boxFile) + (k - Len(boxFile)) = k
            /\ k - Len(boxFile) \in DOMAIN boxes
        <5>1. k \in 1..Len(boxFile)+n /\ n \in Nat /\ n <= Len(boxes)
          BY <1>4, <1>5
        <5>2. k \in Nat /\ ~(k <= Len(boxFile)) /\ k <= Len(boxFile) + n
          BY <1>4, <3>2, <5>1
        <5> QED
          BY <1>4, <5>1, <5>2
      <4>2. boxFile'[k] = boxes[k - Len(boxFile)]
        BY <1>5, <4>1
      <4>3. boxes[k - Len(boxFile)].id = k - Len(boxFile) - 1
        BY <1>0, <4>1 DEF Sealing
      <4>4. ToSet(boxes[k - Len(boxFile)].holds) \subseteq SpokenTurns(conversation)
        BY <1>0, <1>3, <4>1, HeldWereSpoken
      <4> QED
        <5>1. k - Len(boxFile) - 1 \in 0..k-1
          BY <1>4, <4>1
        <5> QED
          BY <4>2, <4>3, <4>4, <5>1
    <3> QED
      BY <3>1, <3>2
  <2>2. ASSUME pc' = "read"
        PROVE  /\ Sealed' /\ Len(boxes') <= Len(boxFile')
               /\ \A k \in DOMAIN boxes' : boxFile'[Len(boxFile') - Len(boxes') + k] = boxes'[k]
    <3>1. n = Len(boxes) /\ boxes' = boxes /\ Len(boxes') = n /\ n \in Nat
      BY <1>1, <1>2, <1>4, <2>2
    <3>2. Len(boxFile') - Len(boxes') = Len(boxFile) /\ Len(boxes') <= Len(boxFile')
      BY <1>4, <1>5, <3>1
    <3>3. \A k \in DOMAIN boxes' : boxFile'[Len(boxFile) + k] = boxes'[k]
      BY <1>4, <1>5, <3>1
    <3>4. Sealed'
      BY <1>1 DEF Sealed
    <3> QED
      BY <3>2, <3>3, <3>4
  <2>3. pc' \in {"read", "link", "done"} => pc' = "read"
    BY <1>1
  <2>4. conversation' = conversation
    BY <1>1
  <2> QED
    BY <2>1, <2>2, <2>3, <2>4 DEF Filed
<1>10. Linking' /\ SinglesLinked'
  <2>1. ToSet(boxFile) \subseteq ToSet(boxFile')
    BY <1>4, <1>5 DEF ToSet
  <2> QED
    BY <1>0, <1>1, <2>1 DEF Linking, SinglesLinked, ByNumber
<1> QED
  BY <1>6, <1>7, <1>8, <1>9, <1>10 DEF IInv

LEMMA MovesOK ==
    ASSUME IInv, SaveTraces \/ Abort
    PROVE  IInv'
<1>0. Shape /\ Given /\ Buffered /\ Sealing /\ Filed /\ Linking /\ SinglesLinked
  BY DEF IInv
<1>1. /\ pc \in {"build", "read", "link"}
      /\ pc' = "aborted" \/ (pc' = "done" /\ pc = "link")
      /\ file' \in [{"boxes", "traces"} -> {"none", "whole", "torn"}]
      /\ UNCHANGED <<messages, next, buffer, boxes, queue, traces, conversation, build, boxFile>>
  <2>1. CASE Abort
    BY <1>0, <2>1 DEF Abort, Over, Shape, builderVars, linkerVars
  <2>2. CASE SaveTraces
    <3>1. /\ pc = "link"
          /\ UNCHANGED <<messages, next, buffer, boxes, queue, traces, conversation, build, boxFile>>
      BY <2>2 DEF SaveTraces, builderVars, linkerVars
    <3>2. CASE /\ pc' = "done"
               /\ file' = IF traces # <<>> /\ file["traces"] = "none"
                          THEN [file EXCEPT !["traces"] = "whole"] ELSE file
      <4>1. file' \in [{"boxes", "traces"} -> {"none", "whole", "torn"}]
        BY <1>0, <3>2 DEF Shape
      <4> QED
        BY <3>1, <3>2, <4>1
    <3>3. CASE /\ pc' = "aborted"
               /\ \E state \in StateAfterAppend("traces") :
                     file' = [file EXCEPT !["traces"] = state]
      <4>1. file' \in [{"boxes", "traces"} -> {"none", "whole", "torn"}]
        BY <1>0, <3>3 DEF Shape, StateAfterAppend
      <4> QED
        BY <3>1, <3>3, <4>1
    <3> QED
      BY <2>2, <3>2, <3>3 DEF SaveTraces
  <2> QED
    BY <2>1, <2>2
<1>2. Shape'
  BY <1>0, <1>1 DEF Shape
<1>3. Given'
  <2>1. build # 0
    BY <1>0, <1>1 DEF Given
  <2> QED
    BY <1>0, <1>1, <2>1 DEF Given, InOrder
<1>4. Buffered' /\ Sealing'
  BY <1>0, <1>1 DEF Buffered, Sealing, Held
<1>5. Filed'
  BY <1>0, <1>1 DEF Filed, Sealed
<1>6. Linking' /\ SinglesLinked'
  BY <1>0, <1>1 DEF Linking, SinglesLinked, ByNumber
<1> QED
  BY <1>2, <1>3, <1>4, <1>5, <1>6 DEF IInv

(* ------------------------------- Linking -------------------------------- *)

\* Sorting the boxes of the file by number loses none.
LEMMA QueueByNumber ==
    ASSUME NEW f \in Seq(BoxShape), \A k \in DOMAIN f : f[k].id \in 0..k-1,
           NEW q, q = FlattenSeq([n \in 1..Len(f) |->
                                    Selected(f, {k \in DOMAIN f : f[k].id = n - 1})])
    PROVE  q \in Seq(BoxShape) /\ ByNumber(q) /\ ToSet(q) = ToSet(f)
<1> DEFINE L == Len(f)
           with(n) == {k \in DOMAIN f : f[k].id = n - 1}
           rows == [n \in 1..L |-> Selected(f, with(n))]
<1>1. L \in Nat /\ DOMAIN f = 1..L
  OBVIOUS
<1> HIDE DEF L
<1>2. \A n \in 1..L : rows[n] \in Seq(BoxShape) /\ \E at : Picks(rows[n], f, with(n), at)
  <2> TAKE n \in 1..L
  <2>1. rows[n] = Selected(f, with(n))
    OBVIOUS
  <2> HIDE DEF with, rows
  <2> QED
    BY <2>1, SelectedPicks
<1>3. rows \in Seq(Seq(BoxShape)) /\ Len(rows) = L
  <2>1. rows = [n \in 1..L |-> rows[n]]
    OBVIOUS
  <2> HIDE DEF rows
  <2> QED
    BY <1>1, <1>2, <2>1
<1>4. q = FlattenSeq(rows)
  BY DEF L
<1> HIDE DEF rows, with
<1>5. q \in Seq(BoxShape) /\ \E row, col : Lays(q, rows, L, row, col)
  BY <1>3, <1>4, FlattenLays
<1>6. PICK row, col : Lays(q, rows, L, row, col)
  BY <1>5
<1>7. LaysOn(DOMAIN q, q, rows, L, row, col)
  BY <1>6 DEF Lays
<1>8. \A i \in DOMAIN q : q[i].id = row[i] - 1 /\ row[i] \in 1..L /\ \E k \in DOMAIN f : q[i] = f[k]
  <2> TAKE i \in DOMAIN q
  <2>1. row[i] \in 1..L /\ col[i] \in DOMAIN rows[row[i]] /\ q[i] = rows[row[i]][col[i]]
    BY <1>7 DEF LaysOn
  <2>2. PICK at : Picks(rows[row[i]], f, with(row[i]), at)
    BY <1>2, <2>1
  <2>3. at[col[i]] \in DOMAIN f \cap with(row[i]) /\ q[i] = f[at[col[i]]]
    BY <2>1, <2>2 DEF Picks
  <2> QED
    BY <2>1, <2>3 DEF with
<1>9. ByNumber(q)
  <2> SUFFICES ASSUME NEW i \in DOMAIN q, NEW j \in DOMAIN q, i < j
               PROVE  q[i].id <= q[j].id
    BY DEF ByNumber
  <2>1. row[i] < row[j] \/ row[i] = row[j]
    BY <1>7 DEF LaysOn
  <2>2. /\ row[i] \in Nat /\ row[j] \in Nat
        /\ q[i].id = row[i] - 1 /\ q[j].id = row[j] - 1
    BY <1>1, <1>8
  <2> QED
    BY <2>1, <2>2
<1>10. ASSUME NEW k \in DOMAIN f PROVE \E i \in DOMAIN q : q[i] = f[k]
  <2>1. PICK n \in 1..L : f[k].id = n - 1
    <3>1. f[k].id \in 0..k-1 /\ f[k].id + 1 \in 1..L /\ f[k].id = f[k].id + 1 - 1
      BY <1>1
    <3> QED
      BY <3>1
  <2>2. PICK at : Picks(rows[n], f, with(n), at)
    BY <1>2
  <2>3. k \in DOMAIN f \cap with(n)
    BY <2>1 DEF with
  <2>4. PICK p \in DOMAIN rows[n] : at[p] = k
    BY <2>2, <2>3 DEF Picks
  <2>5. rows[n][p] = f[k]
    BY <2>2, <2>4 DEF Picks
  <2>6. /\ \A m \in 1..L : \A o \in DOMAIN rows[m] : \E i \in DOMAIN q : row[i] = m /\ col[i] = o
        /\ \A i \in DOMAIN q : q[i] = rows[row[i]][col[i]]
    BY <1>7, Zenon DEF LaysOn
  <2>7. PICK i \in DOMAIN q : row[i] = n /\ col[i] = p
    BY <2>1, <2>4, <2>6
  <2>8. q[i] = rows[n][p]
    BY <2>6, <2>7
  <2> QED
    BY <2>5, <2>8
<1>11. ToSet(q) = ToSet(f)
  <2>1. \A x \in ToSet(q) : x \in ToSet(f)
    <3> TAKE x \in ToSet(q)
    <3>1. PICK i \in DOMAIN q : x = q[i]
      BY DEF ToSet
    <3>2. PICK k \in DOMAIN f : q[i] = f[k]
      BY <1>8
    <3> QED
      BY <3>1, <3>2 DEF ToSet
  <2>2. \A x \in ToSet(f) : x \in ToSet(q)
    BY <1>10 DEF ToSet
  <2> QED
    BY <2>1, <2>2
<1> QED
  BY <1>5, <1>9, <1>11

LEMMA ReadBoxesOK == ASSUME IInv, ReadBoxes PROVE IInv'
<1>0. Shape /\ Given /\ Buffered /\ Sealing /\ Filed /\ Linking /\ SinglesLinked
  BY DEF IInv
<1>1. /\ pc = "read"
      /\ UNCHANGED <<messages, next, buffer, boxes, conversation, build, boxFile, file>>
      /\ \/ pc' = "link" /\ StartLinking(boxFile)
         \/ pc' = "aborted" /\ UNCHANGED <<queue, traces>>
  BY DEF ReadBoxes, builderVars, linkerVars
<1>2. pc' = "link" => /\ queue' \in Seq(BoxShape) /\ ByNumber(queue')
                      /\ ToSet(queue') = ToSet(boxFile) /\ traces' = <<>>
  <2> SUFFICES ASSUME pc' = "link"
               PROVE  /\ queue' \in Seq(BoxShape) /\ ByNumber(queue')
                      /\ ToSet(queue') = ToSet(boxFile) /\ traces' = <<>>
    OBVIOUS
  <2>1. StartLinking(boxFile)
    BY <1>1
  <2>2. /\ boxFile \in Seq(BoxShape)
        /\ \A k \in DOMAIN boxFile : boxFile[k].id \in 0..k-1
    BY <1>0 DEF Shape, Filed
  <2> QED
    BY <2>1, <2>2, QueueByNumber DEF StartLinking
<1>3. Shape'
  <2>1. queue' \in Seq(BoxShape) /\ traces' \in Seq(TraceShape)
    <3>1. CASE pc' = "link"
      BY <1>2, <3>1
    <3>2. CASE UNCHANGED <<queue, traces>>
      BY <1>0, <3>2 DEF Shape
    <3> QED
      BY <1>1, <3>1, <3>2
  <2>2. pc' \in {"idle", "build", "read", "link", "done", "aborted"}
    BY <1>1
  <2> QED
    BY <1>0, <1>1, <2>1, <2>2 DEF Shape
<1>4. Given'
  BY <1>0, <1>1 DEF Given, InOrder
<1>5. Buffered' /\ Sealing'
  BY <1>0, <1>1 DEF Buffered, Sealing, Held
<1>6. Filed'
  BY <1>0, <1>1 DEF Filed, Sealed
<1>7. Linking' /\ SinglesLinked'
  <2>1. CASE pc' = "link"
    BY <1>1, <1>2, <2>1 DEF Linking, SinglesLinked
  <2>2. CASE pc' = "aborted" /\ UNCHANGED <<queue, traces>>
    BY <1>0, <1>1, <2>2 DEF Linking, SinglesLinked
  <2> QED
    BY <1>1, <2>1, <2>2
<1> QED
  BY <1>3, <1>4, <1>5, <1>6, <1>7 DEF IInv

\* What the model's answers put into traces.
LEMMA ChainsShape ==
    ASSUME NEW answer \in Chainings
    PROVE  Chains(answer) \in Seq(EventSets)
<1> DEFINE chained == UNION ToSet(answer.chains)
           apart == Selected(answer.isolated,
                             {k \in DOMAIN answer.isolated : answer.isolated[k] \notin chained})
           singles == [k \in DOMAIN apart |-> {apart[k]}]
<1>1. /\ answer.chains \in Seq(ToSet(answer.chains))
      /\ answer.isolated \in Seq(ToSet(answer.isolated))
  BY LinkerAssumption
<1>2. /\ ToSet(answer.chains) \subseteq EventSets
      /\ ToSet(answer.isolated) \in EventSets
      /\ \A e \in ToSet(answer.isolated) : {e} \in EventSets
  BY DEF EventSets
<1>3. apart \in Seq(ToSet(answer.isolated))
  BY <1>1, SelectedPicks
<1>4. singles \in Seq(EventSets)
  <2> HIDE DEF apart
  <2>1. DOMAIN apart = 1..Len(apart) /\ Len(apart) \in Nat /\ \A k \in DOMAIN apart : {apart[k]} \in EventSets
    BY <1>2, <1>3
  <2>2. singles = [k \in 1..Len(apart) |-> {apart[k]}]
    BY <2>1
  <2> HIDE DEF singles
  <2> QED
    BY <2>1, <2>2
<1>5. answer.chains \in Seq(EventSets)
  BY <1>1, <1>2, SeqMonotonic
<1>6. answer.chains \o singles \in Seq(EventSets)
  <2> HIDE DEF singles
  <2> QED
    BY <1>4, <1>5, ConcatProperties
<1>7. <<>> \in Seq(EventSets) /\ <<ToSet(answer.isolated)>> \in Seq(EventSets)
  BY <1>2
<1>8. Chains(answer) \in {<<>>, <<ToSet(answer.isolated)>>, answer.chains \o singles}
  BY DEF Chains
<1> QED
  BY <1>6, <1>7, <1>8

LEMMA NewChainsShape ==
    ASSUME NEW events \in Extractions, NEW unmatched \in Seq(ToSet(events)), NEW answer \in Chainings
    PROVE  NewChains(unmatched, answer) \in Seq(EventSets)
<1>1. CASE Len(unmatched) = 0
  BY <1>1 DEF NewChains
<1>2. CASE Len(unmatched) = 1
  <2>1. unmatched[1] \in ToSet(events)
    BY <1>2
  <2>2. {unmatched[1]} \in SUBSET ToSet(events)
    BY <2>1
  <2>3. {unmatched[1]} \in EventSets
    BY <2>2 DEF EventSets
  <2> QED
    BY <1>2, <2>3 DEF NewChains
<1>3. CASE Len(unmatched) > 1
  BY <1>3, ChainsShape DEF NewChains
<1>4. Len(unmatched) = 0 \/ Len(unmatched) = 1 \/ Len(unmatched) > 1
  <2>1. \A n \in Nat : n = 0 \/ n = 1 \/ n > 1
    OBVIOUS
  <2>2. Len(unmatched) \in Nat
    OBVIOUS
  <2> QED
    BY <2>1, <2>2, Zenon
<1> QED
  BY <1>1, <1>2, <1>3, <1>4

\* A box that comes later is added at the end of a trace, if it is not the last already.
LEMMA JoinedAccounted ==
    ASSUME NEW trace \in TraceShape, NEW rest \in Seq(BoxShape), rest # <<>>, ByNumber(rest),
           Accounted(trace, rest), NEW events \in EventSets
    PROVE  /\ Joined(trace, Head(rest), events) \in TraceShape
           /\ Accounted(Joined(trace, Head(rest), events), Tail(rest))
           /\ \E k \in DOMAIN Joined(trace, Head(rest), events).entries :
                 Joined(trace, Head(rest), events).entries[k] = [box |-> Head(rest).id, events |-> events]
<1> DEFINE box == Head(rest)
           b == box.id
           new == Joined(trace, box, events)
           entry == [box |-> b, events |-> events]
           n == Len(trace.entries)
           m == Len(trace.boxes)
<1>1. /\ b \in Nat /\ box = rest[1] /\ 1 \in DOMAIN rest
      /\ \A j \in DOMAIN Tail(rest) : j + 1 \in DOMAIN rest /\ Tail(rest)[j] = rest[j+1]
      /\ \A j \in DOMAIN rest : rest[j].id \in Nat /\ j \in Nat
      /\ \A j \in DOMAIN Tail(rest) : j \in Nat /\ 1 < j + 1
  <2>1. /\ Len(rest) \in Nat \ {0} /\ DOMAIN rest = 1..Len(rest) /\ box = rest[1]
        /\ DOMAIN Tail(rest) = 1..Len(rest)-1
        /\ \A j \in 1..Len(rest)-1 : Tail(rest)[j] = rest[j+1]
    BY HeadTailProperties
  <2>2. \A j \in DOMAIN rest : rest[j] \in BoxShape
    OBVIOUS
  <2>3. \A x \in BoxShape : x.id \in Nat
    BY DEF BoxShape
  <2> HIDE DEF box
  <2> QED
    BY <2>1, <2>2, <2>3
<1>2. /\ trace.boxes \in Seq(Nat) /\ trace.entries \in Seq([box : Nat, events : EventSets])
      /\ m \in Nat /\ DOMAIN trace.boxes = 1..m
      /\ n \in Nat /\ DOMAIN trace.entries = 1..n
  BY DEF TraceShape
<1>3. /\ new.entries = Append(trace.entries, entry)
      /\ new.boxes = IF Contains(trace.boxes, b) THEN trace.boxes ELSE Append(trace.boxes, b)
      /\ new = [boxes |-> new.boxes, entries |-> new.entries]
  BY DEF Joined, Entry
<1> HIDE DEF box, b, new, n, m
<1>4. entry \in [box : Nat, events : EventSets] /\ entry.box = b
  BY <1>1
<1> HIDE DEF entry
<1>5. /\ new.entries \in Seq([box : Nat, events : EventSets])
      /\ DOMAIN new.entries = 1..n+1 /\ new.entries[n+1] = entry
      /\ \A k \in 1..n : new.entries[k] = trace.entries[k]
  BY <1>2, <1>3, <1>4 DEF n
<1>6. IdsOf(new) = IdsOf(trace) \cup {b}
  <2>1. \A x \in IdsOf(new) : x \in IdsOf(trace) \cup {b}
    <3> TAKE x \in IdsOf(new)
    <3>1. PICK k \in 1..n+1 : x = new.entries[k].box
      BY <1>5 DEF IdsOf
    <3>2. CASE k \in 1..n
      BY <1>2, <1>5, <3>1, <3>2 DEF IdsOf
    <3>3. CASE k = n + 1
      BY <1>4, <1>5, <3>1, <3>3
    <3> QED
      BY <1>2, <3>2, <3>3
  <2>2. \A x \in IdsOf(trace) : x \in IdsOf(new)
    <3> TAKE x \in IdsOf(trace)
    <3>1. PICK k \in 1..n : x = trace.entries[k].box
      BY <1>2 DEF IdsOf
    <3>2. k \in 1..n+1 /\ new.entries[k].box = x
      <4>1. new.entries[k] = trace.entries[k]
        BY <1>5
      <4>2. k \in 1..n+1
        BY <1>2
      <4> QED
        BY <3>1, <4>1, <4>2
    <3> QED
      BY <1>5, <3>2 DEF IdsOf
  <2>3. b \in IdsOf(new)
    <3>1. n + 1 \in 1..n+1
      BY <1>2
    <3> QED
      BY <1>4, <1>5, <3>1 DEF IdsOf
  <2> QED
    BY <2>1, <2>2, <2>3
<1>7. /\ ToSet(trace.boxes) = IdsOf(trace)
      /\ \A i, j \in 1..m : i < j => trace.boxes[i] < trace.boxes[j]
      /\ \A i \in 1..m : trace.boxes[i] \in Nat /\ trace.boxes[i] <= b
  <2>1. rest[1].id = b
    BY <1>1 DEF b
  <2>2. \A i \in 1..m : trace.boxes[i] \in Nat
    BY <1>2, ElementOfSeq DEF m
  <2>3. /\ ToSet(trace.boxes) = IdsOf(trace)
        /\ \A i, j \in 1..m : i < j => trace.boxes[i] < trace.boxes[j]
        /\ \A i \in 1..m : trace.boxes[i] <= rest[1].id
    BY <1>1, <1>2 DEF Accounted
  <2> QED
    BY <2>1, <2>2, <2>3
<1>8. \A j \in DOMAIN Tail(rest) : b <= Tail(rest)[j].id /\ Tail(rest)[j].id \in Nat
  BY <1>1 DEF ByNumber, b
<1>9. /\ new.boxes \in Seq(Nat)
      /\ ToSet(new.boxes) = ToSet(trace.boxes) \cup {b}
      /\ \A i, j \in DOMAIN new.boxes : i < j => new.boxes[i] < new.boxes[j]
      /\ \A i \in DOMAIN new.boxes : new.boxes[i] \in Nat /\ new.boxes[i] <= b
  <2>1. CASE Contains(trace.boxes, b)
    <3>1. b \in ToSet(trace.boxes)
      BY <1>2, <2>1 DEF Contains, ToSet, m
    <3>2. new.boxes = trace.boxes
      BY <1>3, <2>1
    <3> QED
      BY <1>2, <1>7, <3>1, <3>2
  <2>2. CASE ~Contains(trace.boxes, b)
    <3>1. \A i \in 1..m : trace.boxes[i] # b
      BY <2>2 DEF Contains, m
    <3>2. new.boxes = Append(trace.boxes, b)
      BY <1>3, <2>2
    <3>3. /\ new.boxes \in Seq(Nat) /\ DOMAIN new.boxes = 1..m+1 /\ new.boxes[m+1] = b
          /\ \A i \in 1..m : new.boxes[i] = trace.boxes[i]
      BY <1>1, <1>2, <3>2 DEF m
    <3>4. \A i \in 1..m+1 : i \in 1..m \/ i = m + 1
      BY <1>2
    <3>5. \A i \in 1..m : trace.boxes[i] < b
      BY <1>1, <1>7, <3>1
    <3>6. \A i \in DOMAIN new.boxes : new.boxes[i] \in Nat /\ new.boxes[i] <= b
      BY <1>1, <1>7, <3>3, <3>4
    <3>7. ASSUME NEW i \in 1..m+1, NEW j \in 1..m+1, i < j
          PROVE  new.boxes[i] < new.boxes[j]
      <4>1. i \in 1..m
        BY <1>2, <3>7
      <4>2. CASE j \in 1..m
        BY <1>7, <3>3, <3>7, <4>1, <4>2
      <4>3. CASE j = m + 1
        BY <3>3, <3>5, <4>1, <4>3
      <4> QED
        BY <3>4, <4>2, <4>3
    <3>8. ToSet(new.boxes) = ToSet(trace.boxes) \cup {b}
      <4>1. \A x \in ToSet(new.boxes) : x \in ToSet(trace.boxes) \cup {b}
        BY <1>2, <3>3, <3>4 DEF ToSet
      <4>2. \A x \in ToSet(trace.boxes) : x \in ToSet(new.boxes)
        <5> TAKE x \in ToSet(trace.boxes)
        <5>1. PICK i \in 1..m : x = trace.boxes[i]
          BY <1>2 DEF ToSet
        <5>2. i \in 1..m+1 /\ new.boxes[i] = x
          BY <1>2, <3>3, <5>1
        <5> QED
          BY <3>3, <5>2 DEF ToSet
      <4>3. b \in ToSet(new.boxes)
        <5>1. m + 1 \in 1..m+1
          BY <1>2
        <5> QED
          BY <3>3, <5>1 DEF ToSet
      <4> QED
        BY <4>1, <4>2, <4>3
    <3> QED
      BY <3>3, <3>6, <3>7, <3>8
  <2> QED
    BY <2>1, <2>2
<1>10. new \in TraceShape
  BY <1>3, <1>5, <1>9 DEF TraceShape
<1>11. Accounted(new, Tail(rest))
  <2>1. \A i \in DOMAIN new.boxes, j \in DOMAIN Tail(rest) : new.boxes[i] <= Tail(rest)[j].id
    BY <1>1, <1>8, <1>9
  <2> QED
    BY <1>6, <1>7, <1>9, <2>1 DEF Accounted
<1>12. \E k \in DOMAIN new.entries : new.entries[k] = entry
  <2>1. n + 1 \in 1..n+1
    BY <1>2
  <2> QED
    BY <1>5, <2>1
<1> QED
  BY <1>10, <1>11, <1>12 DEF new, box, entry, b

\* A trace of the box only.
LEMMA NewTraceAccounted ==
    ASSUME NEW rest \in Seq(BoxShape), rest # <<>>, ByNumber(rest), NEW events \in EventSets
    PROVE  /\ NewTrace(Head(rest), events) \in TraceShape
           /\ Accounted(NewTrace(Head(rest), events), Tail(rest))
           /\ NewTrace(Head(rest), events).entries = <<[box |-> Head(rest).id, events |-> events]>>
<1> DEFINE b == Head(rest).id
           new == NewTrace(Head(rest), events)
<1>1. /\ Len(rest) \in Nat \ {0} /\ DOMAIN rest = 1..Len(rest) /\ Head(rest) = rest[1]
      /\ DOMAIN Tail(rest) = 1..Len(rest)-1
      /\ \A j \in 1..Len(rest)-1 : Tail(rest)[j] = rest[j+1]
  BY HeadTailProperties
<1>2. \A x \in BoxShape : x.id \in Nat
  BY DEF BoxShape
<1>3. b \in Nat
  BY <1>1, <1>2
<1>4. new = [boxes |-> <<b>>, entries |-> <<[box |-> b, events |-> events]>>]
  BY DEF NewTrace, Entry
<1> HIDE DEF b, new
<1>5. /\ new.boxes = <<b>> /\ new.entries = <<[box |-> b, events |-> events]>>
      /\ DOMAIN new.boxes = {1} /\ DOMAIN new.entries = {1} /\ new.boxes[1] = b
      /\ new.entries[1] = [box |-> b, events |-> events]
  BY <1>4
<1>6. new \in TraceShape
  <2>1. <<b>> \in Seq(Nat) /\ <<[box |-> b, events |-> events]>> \in Seq([box : Nat, events : EventSets])
    BY <1>3
  <2> QED
    BY <1>4, <2>1 DEF TraceShape
<1>7. ToSet(new.boxes) = IdsOf(new)
  BY <1>5 DEF ToSet, IdsOf
<1>8. \A j \in DOMAIN Tail(rest) : b <= Tail(rest)[j].id
  <2> TAKE j \in DOMAIN Tail(rest)
  <2>1. 1 \in DOMAIN rest /\ j + 1 \in DOMAIN rest /\ 1 < j + 1 /\ Tail(rest)[j] = rest[j+1]
    BY <1>1
  <2> QED
    BY <1>1, <2>1 DEF ByNumber, b
<1>9. Accounted(new, Tail(rest))
  BY <1>5, <1>7, <1>8 DEF Accounted
<1> QED
  BY <1>5, <1>6, <1>9 DEF new, b

\* The only element stays if its place is selected.
LEMMA SelectOnly ==
    ASSUME NEW T, NEW s \in Seq(T), Len(s) = 1, NEW places, 1 \in places
    PROVE  Len(Selected(s, places)) = 1 /\ Selected(s, places)[1] = s[1]
<1> DEFINE sel == Selected(s, places)
<1>1. sel \in Seq(T) /\ DOMAIN s = {1}
  BY SelectedPicks
<1>2. PICK at : Picks(sel, s, places, at)
  BY SelectedPicks
<1> HIDE DEF sel
<1>3. DOMAIN sel = 1..Len(sel) /\ Len(sel) \in Nat
  BY <1>1
<1>4. \A i \in DOMAIN sel : at[i] = 1 /\ sel[i] = s[1]
  BY <1>1, <1>2 DEF Picks
<1>5. PICK i \in DOMAIN sel : at[i] = 1
  BY <1>1, <1>2 DEF Picks
<1>6. Len(sel) = 1
  <2>1. 1 \in DOMAIN sel
    BY <1>3, <1>5
  <2>2. 2 \notin DOMAIN sel
    BY <1>2, <1>4, <2>1 DEF Picks
  <2> QED
    BY <1>3, <2>1, <2>2
<1> QED
  BY <1>3, <1>4, <1>6 DEF sel

\* One box: related events join traces, the others start some.
LEMMA LinkOK == ASSUME IInv, Link PROVE IInv'
<1>0. Shape /\ Given /\ Buffered /\ Sealing /\ Filed /\ Linking /\ SinglesLinked
  BY DEF IInv
<1> DEFINE box == Head(queue)
           rest == Tail(queue)
           events == ToSet(box.events)
           n == Len(traces)
<1>1. /\ pc = "link" /\ queue # <<>> /\ queue' = rest
      /\ UNCHANGED <<messages, next, buffer, boxes, conversation, pc, build, boxFile, file>>
  BY DEF Link, LinkBox, builderVars
<1>2. /\ queue \in Seq(BoxShape) /\ traces \in Seq(TraceShape) /\ ByNumber(queue)
      /\ n \in Nat /\ DOMAIN traces = 1..n
      /\ \A k \in 1..n : traces[k] \in TraceShape /\ Accounted(traces[k], queue)
  BY <1>0 DEF Shape, Linking
<1>3. /\ Len(queue) \in Nat \ {0} /\ DOMAIN queue = 1..Len(queue) /\ box = queue[1]
      /\ rest \in Seq(BoxShape) /\ DOMAIN rest = 1..Len(queue)-1
      /\ \A j \in 1..Len(queue)-1 : rest[j] = queue[j+1]
  BY <1>1, <1>2, HeadTailProperties
<1>4. box \in BoxShape /\ box.events \in Extractions /\ box.events \in Seq(events)
  <2>1. box \in BoxShape
    BY <1>2, <1>3
  <2>2. box.events \in Extractions
    BY <2>1 DEF BoxShape
  <2> QED
    BY <2>1, <2>2, BuilderAssumption
<1>5. PICK similar \in SUBSET DOMAIN traces :
         \E related \in [similar -> SUBSET events], answer \in Chainings :
            LET hit == {k \in similar : related[k] # {}}
                matched == UNION {related[k] : k \in similar}
                unmatched == Selected(box.events,
                                      {k \in DOMAIN box.events : box.events[k] \notin matched})
                new == NewChains(unmatched, answer)
            IN  traces' = [k \in DOMAIN traces |->
                              IF k \in hit THEN Joined(traces[k], box, related[k])
                                           ELSE traces[k]]
                          \o [k \in DOMAIN new |-> NewTrace(box, new[k])]
  BY DEF Link, LinkBox
<1>6. PICK related \in [similar -> SUBSET events], answer \in Chainings :
            LET hit == {k \in similar : related[k] # {}}
                matched == UNION {related[k] : k \in similar}
                unmatched == Selected(box.events,
                                      {k \in DOMAIN box.events : box.events[k] \notin matched})
                new == NewChains(unmatched, answer)
            IN  traces' = [k \in DOMAIN traces |->
                              IF k \in hit THEN Joined(traces[k], box, related[k])
                                           ELSE traces[k]]
                          \o [k \in DOMAIN new |-> NewTrace(box, new[k])]
  BY <1>5
<1> DEFINE matched == UNION {related[k] : k \in similar}
           open == {k \in DOMAIN box.events : box.events[k] \notin matched}
           unmatched == Selected(box.events, open)
           new == NewChains(unmatched, answer)
           T == [k \in 1..n |-> IF k \in similar /\ related[k] # {}
                                THEN Joined(traces[k], box, related[k]) ELSE traces[k]]
           M == [k \in DOMAIN new |-> NewTrace(box, new[k])]
<1>7. traces' = T \o M
  <2>1. \A k : k \in {j \in similar : related[j] # {}} <=> k \in similar /\ related[k] # {}
    OBVIOUS
  <2> QED
    BY <1>2, <1>6, <2>1
<1>8. unmatched \in Seq(events)
  BY <1>4, SelectedPicks
<1>9. new \in Seq(EventSets)
  <2> HIDE DEF unmatched
  <2> QED
    BY <1>4, <1>8, NewChainsShape
<1>10. /\ Len(new) \in Nat /\ DOMAIN new = 1..Len(new) /\ DOMAIN M = 1..Len(new)
       /\ \A k \in 1..Len(new) : new[k] \in EventSets /\ M[k] = NewTrace(box, new[k])
  <2> HIDE DEF new
  <2> QED
    BY <1>9
<1>11. \A k \in similar : related[k] \in EventSets
  <2> TAKE k \in similar
  <2>1. related[k] \in SUBSET ToSet(box.events)
    BY <1>6
  <2> QED
    BY <1>4, <2>1 DEF EventSets
<1> HIDE DEF new, M, unmatched, open, matched
<1>12. \A k \in 1..n : /\ k \in similar /\ related[k] # {} => T[k] = Joined(traces[k], box, related[k])
                       /\ ~(k \in similar /\ related[k] # {}) => T[k] = traces[k]
  OBVIOUS
<1>13. DOMAIN T = 1..n
  OBVIOUS
<1> HIDE DEF T
<1>14. \A k \in 1..n : T[k] \in TraceShape /\ Accounted(T[k], rest)
  <2> TAKE k \in 1..n
  <2>1. CASE k \in similar /\ related[k] # {}
    <3>1. related[k] \in EventSets /\ traces[k] \in TraceShape /\ Accounted(traces[k], queue)
      BY <1>2, <1>11, <2>1
    <3>2. /\ Joined(traces[k], box, related[k]) \in TraceShape
          /\ Accounted(Joined(traces[k], box, related[k]), rest)
      BY <1>1, <1>2, <3>1, JoinedAccounted
    <3> QED
      BY <1>12, <2>1, <3>2
  <2>2. CASE ~(k \in similar /\ related[k] # {})
    <3>1. T[k] = traces[k] /\ Accounted(traces[k], queue)
      BY <1>2, <1>12, <2>2
    <3>2. \A j \in DOMAIN rest : j + 1 \in DOMAIN queue /\ rest[j] = queue[j+1]
      BY <1>3
    <3>3. Accounted(traces[k], rest)
      BY <3>1, <3>2 DEF Accounted
    <3> QED
      BY <1>2, <3>1, <3>3
  <2> QED
    BY <2>1, <2>2
<1>15. \A k \in 1..Len(new) : /\ M[k] \in TraceShape /\ Accounted(M[k], rest)
                              /\ M[k].entries = <<[box |-> box.id, events |-> new[k]]>>
  BY <1>1, <1>2, <1>10, NewTraceAccounted
<1>16. T \in Seq(TraceShape) /\ M \in Seq(TraceShape) /\ Len(T) = n /\ Len(M) = Len(new)
  <2>1. T = [k \in 1..n |-> T[k]] /\ M = [k \in 1..Len(new) |-> M[k]]
    BY <1>10 DEF T, M
  <2>2. \A k \in 1..n : T[k] \in TraceShape
    BY <1>14
  <2>3. \A k \in 1..Len(new) : M[k] \in TraceShape
    BY <1>15
  <2> QED
    BY <1>2, <1>10, <2>1, <2>2, <2>3
<1>17. /\ traces' \in Seq(TraceShape) /\ DOMAIN traces' = 1..n+Len(new)
       /\ \A k \in 1..n : traces'[k] = T[k]
       /\ \A k \in 1..Len(new) : traces'[n+k] = M[k]
       /\ \A k \in 1..n+Len(new) : k \in 1..n \/ (k - n \in 1..Len(new) /\ n + (k - n) = k)
  <2>1. /\ T \o M \in Seq(TraceShape) /\ Len(T \o M) = n + Len(new)
        /\ \A k \in 1..n+Len(new) : (T \o M)[k] = IF k <= n THEN T[k] ELSE M[k-n]
    <3> HIDE DEF n
    <3>1. /\ T \o M \in Seq(TraceShape) /\ Len(T \o M) = Len(T) + Len(M)
          /\ \A k \in 1..Len(T)+Len(M) : (T \o M)[k] = IF k <= Len(T) THEN T[k] ELSE M[k-Len(T)]
      BY <1>16, ConcatProperties
    <3> QED
      BY <1>16, <3>1
  <2>2. /\ traces' \in Seq(TraceShape) /\ Len(traces') = n + Len(new)
        /\ \A k \in 1..n+Len(new) : traces'[k] = IF k <= n THEN T[k] ELSE M[k-n]
    BY <1>7, <2>1
  <2>3. DOMAIN traces' = 1..n+Len(new)
    BY <2>2
  <2>4. \A k \in 1..n : k \in 1..n+Len(new) /\ k <= n
    BY <1>2, <1>10
  <2>5. \A k \in 1..Len(new) : n + k \in 1..n+Len(new) /\ ~(n + k <= n) /\ n + k - n = k
    BY <1>2, <1>10
  <2>6. \A k \in 1..n+Len(new) : k \in 1..n \/ (k - n \in 1..Len(new) /\ n + (k - n) = k)
    BY <1>2, <1>10
  <2>7. \A k \in 1..n : traces'[k] = T[k]
    BY <2>2, <2>4
  <2>8. \A k \in 1..Len(new) : traces'[n+k] = M[k]
    BY <2>2, <2>5
  <2> QED
    BY <2>2, <2>3, <2>6, <2>7, <2>8
<1>18. Shape'
  BY <1>0, <1>1, <1>3, <1>17 DEF Shape
<1>19. Given' /\ Buffered' /\ Sealing' /\ Filed'
  BY <1>0, <1>1 DEF Given, InOrder, Buffered, Sealing, Held, Filed, Sealed
<1>20. Linking'
  <2>1. ToSet(queue') \subseteq ToSet(boxFile')
    <3>1. \A j \in DOMAIN rest : j + 1 \in DOMAIN queue /\ rest[j] = queue[j+1]
      BY <1>3
    <3>2. ToSet(rest) \subseteq ToSet(queue)
      BY <3>1 DEF ToSet
    <3> QED
      BY <1>0, <1>1, <3>2 DEF Linking
  <2>2. ByNumber(queue')
    <3>1. \A i, j \in DOMAIN rest : i < j => /\ i + 1 \in DOMAIN queue /\ j + 1 \in DOMAIN queue
                                             /\ i + 1 < j + 1
                                             /\ rest[i] = queue[i+1] /\ rest[j] = queue[j+1]
      BY <1>3
    <3>2. ByNumber(rest)
      BY <1>2, <3>1 DEF ByNumber
    <3> QED
      BY <1>1, <3>2
  <2>3. \A t \in DOMAIN traces' : Accounted(traces'[t], rest)
    <3> TAKE t \in DOMAIN traces'
    <3>1. CASE t \in 1..n
      BY <1>14, <1>17, <3>1
    <3>2. CASE t - n \in 1..Len(new) /\ n + (t - n) = t
      BY <1>15, <1>17, <3>2
    <3> QED
      BY <1>17, <3>1, <3>2
  <2> QED
    BY <1>1, <2>1, <2>2, <2>3 DEF Linking
<1>21. SinglesLinked'
  <2> DEFINE At(b, e) == \E t \in DOMAIN traces' : \E k \in DOMAIN traces'[t].entries :
                            /\ traces'[t].entries[k].box = b.id
                            /\ e \in traces'[t].entries[k].events
  <2> SUFFICES ASSUME NEW b \in ToSet(boxFile) \ ToSet(rest), Len(b.events) = 1
               PROVE  At(b, b.events[1])
    BY <1>1 DEF SinglesLinked
  <2> DEFINE e == b.events[1]
  <2>1. CASE b \notin ToSet(queue)
    <3>1. PICK t \in 1..n : \E k \in DOMAIN traces[t].entries :
                               /\ traces[t].entries[k].box = b.id
                               /\ e \in traces[t].entries[k].events
      BY <1>0, <1>1, <1>2, <2>1 DEF SinglesLinked
    <3>2. PICK k \in DOMAIN traces[t].entries : /\ traces[t].entries[k].box = b.id
                                                /\ e \in traces[t].entries[k].events
      BY <3>1
    <3>3. k \in DOMAIN T[t].entries /\ T[t].entries[k] = traces[t].entries[k]
      <4>1. CASE k \in DOMAIN traces[t].entries /\ T[t] = Joined(traces[t], box, related[t])
        <5>1. traces[t].entries \in Seq([box : Nat, events : EventSets])
          BY <1>2 DEF TraceShape
        <5>2. T[t].entries = Append(traces[t].entries, Entry(box, related[t]))
          BY <4>1 DEF Joined
        <5> QED
          BY <3>2, <5>1, <5>2
      <4>2. CASE T[t] = traces[t]
        BY <4>2
      <4> QED
        BY <1>12, <4>1, <4>2
    <3>4. t \in DOMAIN traces' /\ traces'[t] = T[t]
      BY <1>2, <1>10, <1>17
    <3> QED
      BY <3>2, <3>3, <3>4
  <2>2. CASE b \in ToSet(queue)
    <3>1. b = box
      <4>1. PICK j \in 1..Len(queue) : b = queue[j]
        BY <1>3, <2>2 DEF ToSet
      <4>2. ASSUME j # 1 PROVE FALSE
        <5>1. j - 1 \in 1..Len(queue)-1 /\ j - 1 + 1 = j
          BY <1>3, <4>2
        <5>2. rest[j-1] = b
          BY <1>3, <4>1, <5>1
        <5> QED
          BY <1>3, <5>1, <5>2 DEF ToSet
      <4> QED
        BY <1>3, <4>1, <4>2
    <3>2. DOMAIN box.events = {1} /\ e \in events
      BY <1>4, <3>1
    <3>3. CASE e \in matched
      <4>1. PICK t \in similar : e \in related[t]
        BY <3>3 DEF matched
      <4>2. t \in 1..n /\ T[t] = Joined(traces[t], box, related[t])
        BY <1>2, <1>12, <4>1
      <4>3. PICK k \in DOMAIN T[t].entries : T[t].entries[k] = [box |-> box.id, events |-> related[t]]
        BY <1>1, <1>2, <1>11, <4>1, <4>2, JoinedAccounted
      <4>4. t \in DOMAIN traces' /\ traces'[t] = T[t]
        BY <1>2, <1>10, <1>17, <4>2
      <4> QED
        BY <3>1, <4>1, <4>3, <4>4
    <3>4. CASE e \notin matched
      <4>1. 1 \in open
        BY <3>1, <3>2, <3>4 DEF open
      <4>2. Len(unmatched) = 1 /\ unmatched[1] = e
        BY <1>4, <2>2, <3>1, <4>1, SelectOnly DEF unmatched
      <4>3. new = <<{e}>>
        BY <4>2 DEF new, NewChains
      <4>4. 1 \in 1..Len(new) /\ new[1] = {e}
        BY <4>3
      <4>5. n + 1 \in DOMAIN traces' /\ traces'[n+1].entries = <<[box |-> box.id, events |-> {e}]>>
        <5> HIDE DEF n
        <5>1. n + 1 \in 1..n+Len(new)
          BY <1>2, <1>10, <4>4
        <5>2. traces'[n+1] = M[1]
          BY <1>17, <4>4
        <5>3. M[1].entries = <<[box |-> box.id, events |-> new[1]]>>
          BY <1>15, <4>4
        <5> QED
          BY <1>17, <4>4, <5>1, <5>2, <5>3
      <4>6. /\ 1 \in DOMAIN traces'[n+1].entries
            /\ traces'[n+1].entries[1] = [box |-> box.id, events |-> {e}]
        BY <4>5
      <4> QED
        BY <3>1, <4>5, <4>6
    <3> QED
      BY <3>3, <3>4
  <2> QED
    BY <2>1, <2>2
<1> QED
  BY <1>18, <1>19, <1>20, <1>21 DEF IInv

(* ------------------------------- Theorems ------------------------------- *)

LEMMA BuildOK == ASSUME IInv, Build PROVE IInv'
<1>1. /\ pc = "build" /\ BuildStep
      /\ UNCHANGED <<linkerVars, conversation, pc, build, boxFile, file>>
  BY DEF Build
<1>2. CASE Join
  BY <1>1, <1>2, JoinOK
<1>3. CASE \E events \in Extractions : Split(events) \/ SealLast(events)
  BY <1>1, <1>3, SplitOK, SealLastOK
<1> QED
  BY <1>1, <1>2, <1>3 DEF BuildStep

LEMMA StutterOK == ASSUME IInv, UNCHANGED vars PROVE IInv'
<1>0. Shape /\ Given /\ Buffered /\ Sealing /\ Filed /\ Linking /\ SinglesLinked
  BY DEF IInv
<1>1. UNCHANGED <<messages, next, buffer, boxes, queue, traces, conversation, pc, build,
                  boxFile, file>>
  BY DEF vars, builderVars, linkerVars
<1>2. Shape' /\ Given'
  BY <1>0, <1>1 DEF Shape, Given, InOrder
<1>3. Buffered' /\ Sealing'
  BY <1>0, <1>1 DEF Buffered, Sealing, Held
<1>4. Filed' /\ Linking' /\ SinglesLinked'
  BY <1>0, <1>1 DEF Filed, Sealed, Linking, SinglesLinked, ByNumber
<1> QED
  BY <1>2, <1>3, <1>4 DEF IInv

\* The invariant is inductive: every step of an ingestion, also a failing one and one
\* of a later build, keeps it.
THEOREM IngestInvariance == Spec => []IInv
<1>1. IInv /\ [Next]_vars => IInv'
  <2> SUFFICES ASSUME IInv, [Next]_vars PROVE IInv'
    OBVIOUS
  <2>1. CASE StartIngest
    BY <2>1, StartIngestOK
  <2>2. CASE Build
    BY <2>2, BuildOK
  <2>3. CASE SaveBoxes
    BY <2>3, SaveBoxesOK
  <2>4. CASE ReadBoxes
    BY <2>4, ReadBoxesOK
  <2>5. CASE Link
    BY <2>5, LinkOK
  <2>6. CASE SaveTraces \/ Abort
    BY <2>6, MovesOK
  <2>7. CASE UNCHANGED vars
    BY <2>7, StutterOK
  <2> QED
    BY <2>1, <2>2, <2>3, <2>4, <2>5, <2>6, <2>7 DEF Next, IngestStep
<1> QED
  BY InitOK, <1>1, PTL DEF Spec

\* Every variable keeps its type, the buffer is the latest messages read, the boxes of
\* a builder are numbered as they were sealed, and no box of the file has a number as
\* large as its place in it (MemoryBuilder.box_id starts from 0 in every build).
THEOREM IngestTypeCorrect == Spec => []TypeOK
<1>1. IInv => TypeOK
  <2> SUFFICES ASSUME IInv PROVE TypeOK
    OBVIOUS
  <2>1. Shape /\ Given /\ Buffered /\ Sealing /\ Filed /\ Linking
    BY DEF IInv
  <2>2. \A k \in DOMAIN boxes : boxes[k].id = k - 1 /\ boxes[k].events \in Extractions
    <3>1. \A k \in DOMAIN boxes : boxes[k] \in BoxShape
      BY <2>1 DEF Shape
    <3>2. \A x \in BoxShape : x.events \in Extractions
      BY DEF BoxShape
    <3> QED
      BY <2>1, <3>1, <3>2 DEF Sealing
  <2>3. \A k \in DOMAIN boxFile : \E j \in 0..k-1 : boxFile[k].id = j
    BY <2>1 DEF Filed
  <2> QED
    BY <2>1, <2>2, <2>3 DEF TypeOK, Shape, Given, Buffered, Linking
<1> QED
  BY IngestInvariance, <1>1, PTL

\* Whatever the text orders of session keys (_conversation_to_turns) and of timestamps
\* (_to_membox_conversation) do to a conversation, every turn with a text is one
\* message, with the turns of its own timestamp, after the earlier turns of its session.
THEOREM TurnsReachMemboxHolds == Spec => []TurnsReachMembox
<1>1. IInv => TurnsReachMembox
  <2> SUFFICES ASSUME IInv, build > 0 PROVE TurnsReachMembox
    BY DEF TurnsReachMembox
  <2>1. conversation \in Conversations /\ messages = Messages(conversation)
    BY DEF IInv, Given
  <2>2. Reaches(messages, conversation)
    BY <2>1, MessagesReach
  <2> QED
    BY <2>2 DEF Reaches, TurnsReachMembox
<1> QED
  BY IngestInvariance, <1>1, PTL

\* The messages of a box are those that its session and its places tell.
LEMMA StretchOfBox ==
    ASSUME Shape, InOrder(messages), NEW box, NEW a \in DOMAIN messages, NEW b \in DOMAIN messages,
           Covers(messages, box, a, b)
    PROVE  LET stretch == {i \in DOMAIN messages :
                             /\ messages[i].session = box.session
                             /\ messages[i].place \in box.first .. box.last}
           IN  /\ stretch = a..b
               /\ box.first = box.last => a = b
<1>1. /\ messages \in Seq(Message) /\ Len(messages) \in Nat /\ DOMAIN messages = 1..Len(messages)
  BY DEF Shape
<1>2. \A i \in DOMAIN messages : messages[i].place \in Nat /\ messages[i].session \in Nat /\ i \in Nat
  <2>1. \A x \in Message : x.place \in Nat /\ x.session \in Nat
    BY DEF Message
  <2>2. \A i \in DOMAIN messages : messages[i] \in Message /\ i \in Nat
    BY <1>1
  <2> QED
    BY <2>1, <2>2
<1>3. /\ a <= b /\ box.first = messages[a].place /\ box.last = messages[b].place
      /\ \A i \in a..b : i \in DOMAIN messages /\ messages[i].session = box.session
      /\ a \in a..b /\ b \in a..b
  BY <1>1 DEF Covers
<1>4. \A i, j \in DOMAIN messages :
         messages[i].session = messages[j].session /\ i < j => messages[i].place < messages[j].place
  BY <1>2 DEF InOrder
<1>5. ASSUME NEW i \in a..b
      PROVE  messages[i].place \in box.first .. box.last
  <2>1. messages[a].place <= messages[i].place
    BY <1>2, <1>3, <1>4
  <2>2. messages[i].place <= messages[b].place
    BY <1>2, <1>3, <1>4
  <2> QED
    BY <1>2, <1>3, <2>1, <2>2
<1>6. ASSUME NEW i \in DOMAIN messages, messages[i].session = box.session,
             messages[i].place \in box.first .. box.last
      PROVE  i \in a..b
  <2>1. messages[a].place <= messages[i].place /\ messages[i].place <= messages[b].place
    BY <1>2, <1>3, <1>6
  <2>2. ~(i < a) /\ ~(b < i)
    BY <1>2, <1>3, <1>4, <1>6, <2>1
  <2> QED
    BY <1>1, <1>2, <2>2
<1>7. box.first = box.last => a = b
  <2> SUFFICES ASSUME a # b, box.first = box.last PROVE FALSE
    OBVIOUS
  <2>1. a < b
    BY <1>2, <1>3
  <2>2. messages[a].session = messages[b].session
    BY <1>3
  <2>3. messages[a].place < messages[b].place
    BY <1>4, <2>1, <2>2
  <2>4. messages[a].place = messages[b].place
    BY <1>3
  <2> QED
    BY <1>2, <2>3, <2>4
<1> QED
  BY <1>3, <1>5, <1>6, <1>7

\* However the model splits the conversation (MemoryBuilder.build_all), each message
\* read is in one box or in the buffer, in order; a box is a whole stretch of one
\* session; and a box of a single message is the last of its session.
THEOREM MessagesBoxedHolds == Spec => []MessagesBoxed
<1>1. IInv => MessagesBoxed
  <2> SUFFICES ASSUME IInv PROVE MessagesBoxed
    OBVIOUS
  <2>1. Shape /\ InOrder(messages) /\ Buffered /\ Sealing
    BY DEF IInv, Given
  <2>2. BoxedTurns = [i \in 1..next-1 |-> messages[i].turn]
    <3> DEFINE n == next - 1 - Len(buffer)
               l == Len(buffer)
    <3>1. /\ next \in Nat /\ l \in Nat /\ n \in Nat /\ n + l = next - 1
          /\ DOMAIN buffer = 1..l /\ \A k \in 1..l : buffer[k] = n + k
      <4>1. buffer \in Seq(Nat) /\ messages \in Seq(Message)
        BY <2>1 DEF Shape
      <4>2. l \in Nat /\ DOMAIN buffer = 1..l /\ Len(messages) \in Nat
        BY <4>1
      <4>3. /\ next \in 1..Len(messages)+1 /\ l <= next - 1
            /\ \A k \in 1..l : buffer[k] = next - l - 1 + k
        BY <2>1, <4>2 DEF Buffered
      <4> HIDE DEF l
      <4>4. \A k \in 1..l : next - l - 1 + k = next - 1 - l + k
        BY <4>2, <4>3
      <4> QED
        BY <4>2, <4>3, <4>4 DEF l
    <3>2. [k \in DOMAIN buffer |-> messages[buffer[k]].turn] = [k \in 1..l |-> messages[n+k].turn]
      BY <3>1
    <3>3. FlattenSeq([k \in DOMAIN boxes |-> boxes[k].holds]) = Prefix(n)
      BY <2>1 DEF Sealing, Held, Prefix
    <3> HIDE DEF n, l
    <3>4. Prefix(n) \o [k \in 1..l |-> messages[n+k].turn] = Prefix(next - 1)
      BY <3>1, PrefixGrows
    <3> QED
      BY <3>2, <3>3, <3>4 DEF BoxedTurns, Prefix
  <2>3. ASSUME NEW k \in DOMAIN boxes
        PROVE  LET stretch == {i \in DOMAIN messages :
                            /\ messages[i].session = boxes[k].session
                            /\ messages[i].place \in boxes[k].first .. boxes[k].last}
               IN  /\ {messages[i].turn : i \in stretch} = ToSet(boxes[k].holds)
                   /\ boxes[k].first = boxes[k].last =>
                         \A i \in DOMAIN messages :
                            messages[i].session = boxes[k].session
                            => messages[i].place <= boxes[k].last
    <3> DEFINE box == boxes[k]
               stretch == {i \in DOMAIN messages :
                             /\ messages[i].session = box.session
                             /\ messages[i].place \in box.first .. box.last}
    <3>1. PICK a, b \in 1..next-1 : Covers(messages, box, a, b)
      BY <2>1 DEF Sealing
    <3> HIDE DEF box
    <3>2. /\ DOMAIN messages = 1..Len(messages) /\ Len(messages) \in Nat
          /\ \A i \in DOMAIN messages : /\ messages[i].place \in Nat /\ messages[i].session \in Nat
                                        /\ i \in Nat
      <4>1. messages \in Seq(Message)
        BY <2>1 DEF Shape
      <4>2. \A x \in Message : x.place \in Nat /\ x.session \in Nat
        BY DEF Message
      <4> QED
        BY <4>1, <4>2
    <3>3. a \in DOMAIN messages /\ b \in DOMAIN messages
      BY <2>1, <3>2 DEF Buffered
    <3>4. stretch = a..b /\ (box.first = box.last => a = b)
      BY <2>1, <3>1, <3>3, StretchOfBox
    <3> HIDE DEF stretch
    <3>5. {messages[i].turn : i \in stretch} = ToSet(box.holds)
      <4>1. box.holds = [j \in 1..b-a+1 |-> messages[a+j-1].turn] /\ a <= b
        BY <3>1 DEF Covers
      <4>2. /\ DOMAIN box.holds = 1..b-a+1
            /\ \A j \in 1..b-a+1 : box.holds[j] = messages[a+j-1].turn
        BY <4>1
      <4>3. \A j \in 1..b-a+1 : a + j - 1 \in a..b
        BY <3>2, <3>3
      <4>4. \A i \in a..b : i - a + 1 \in 1..b-a+1 /\ a + (i - a + 1) - 1 = i
        BY <3>2, <3>3
      <4>5. ASSUME NEW i \in a..b PROVE messages[i].turn \in ToSet(box.holds)
        <5>1. i - a + 1 \in DOMAIN box.holds /\ box.holds[i-a+1] = messages[i].turn
          BY <4>2, <4>4
        <5> QED
          BY <5>1 DEF ToSet
      <4>6. ASSUME NEW x \in ToSet(box.holds) PROVE x \in {messages[i].turn : i \in a..b}
        <5>1. PICK j \in 1..b-a+1 : x = box.holds[j]
          BY <4>2 DEF ToSet
        <5> QED
          BY <4>2, <4>3, <5>1
      <4> QED
        BY <3>4, <4>5, <4>6
    <3>6. ASSUME box.first = box.last, NEW i \in DOMAIN messages, messages[i].session = box.session
          PROVE  messages[i].place <= box.last
      <4>1. /\ a = b /\ box.last = messages[a].place /\ messages[a].session = box.session
            /\ a < Len(messages) => messages[a+1].session # box.session
        BY <3>1, <3>2, <3>3, <3>4, <3>6 DEF Covers
      <4>2. CASE i <= a
        BY <2>1, <3>2, <3>3, <3>6, <4>1, <4>2 DEF InOrder
      <4>3. CASE a < i
        <5>1. a + 1 \in DOMAIN messages /\ a < a + 1 /\ (a + 1 = i \/ a + 1 < i)
          BY <3>2, <3>3, <4>3
        <5>2. messages[a].session < messages[a+1].session
          BY <2>1, <3>2, <3>3, <4>1, <5>1 DEF InOrder
        <5>3. messages[a+1].session <= messages[i].session
          BY <2>1, <3>2, <5>1 DEF InOrder
        <5> QED
          BY <3>2, <3>3, <3>6, <4>1, <5>1, <5>2, <5>3
      <4> QED
        BY <3>2, <3>3, <4>2, <4>3
    <3> QED
      BY <3>5, <3>6 DEF box, stretch
  <2> QED
    BY <2>2, <2>3 DEF MessagesBoxed
<1> QED
  BY IngestInvariance, <1>1, PTL

\* A trace lists each box of which it has an entry once, in the order of their numbers
\* (TraceLinker.run, where a box may join a trace twice, also as a box of the same
\* number of another build); and the only event of a linked box is in some trace.
THEOREM TracesAccountHolds == Spec => []TracesAccount
<1>1. IInv => TracesAccount
  BY DEF IInv, Linking, Accounted, SinglesLinked, TracesAccount
<1> QED
  BY IngestInvariance, <1>1, PTL

\* Once all of a build's boxes are written, each of them is the last of its number.
LEMMA LatestShown ==
    ASSUME IInv, pc = "done", NEW k \in DOMAIN boxes
    PROVE  boxes[k] \in Shown(boxFile)
<1> DEFINE n == Len(boxes)
           m == Len(boxFile)
<1>1. /\ n \in Nat /\ DOMAIN boxes = 1..n
      /\ m \in Nat /\ DOMAIN boxFile = 1..m
  BY DEF IInv, Shape
<1>2. /\ n <= m
      /\ \A j \in 1..n : boxFile[m - n + j] = boxes[j] /\ boxes[j].id = j - 1
  BY <1>1 DEF IInv, Filed, Sealing
<1> DEFINE at == m - n + k
<1>3. at \in 1..m /\ boxFile[at] = boxes[k] /\ k \in 1..n
  BY <1>1, <1>2
<1>4. ASSUME NEW j \in at+1..m PROVE boxFile[j].id # boxFile[at].id
  <2>1. /\ j - (m - n) \in 1..n /\ m - n + (j - (m - n)) = j
        /\ j - (m - n) - 1 # k - 1
    BY <1>1, <1>2, <1>3
  <2>2. boxFile[j].id = j - (m - n) - 1
    BY <1>2, <2>1
  <2>3. boxFile[at].id = k - 1
    BY <1>2, <1>3
  <2> QED
    BY <2>1, <2>2, <2>3
<1> HIDE DEF n, at
<1>5. boxFile[at] \in Shown(boxFile)
  BY <1>1, <1>3, <1>4 DEF Shown
<1> QED
  BY <1>3, <1>5

\* When an ingestion succeeds (MemboxAdapter.ingest_conversation returns), the boxes that
\* retrieval can return hold all turns of the conversation and no other, whatever the
\* earlier builds have left in the file.
THEOREM EveryMessageShownHolds == Spec => []EveryMessageShown
<1>1. IInv => EveryMessageShown
  <2> SUFFICES ASSUME IInv, pc = "done"
               PROVE  SpokenTurns(conversation) = UNION {ToSet(b.holds) : b \in Shown(boxFile)}
    BY DEF EveryMessageShown
  <2>1. Shape /\ Given /\ Buffered /\ Sealing /\ Filed
    BY DEF IInv
  <2>2. ASSUME NEW b \in Shown(boxFile) PROVE ToSet(b.holds) \subseteq SpokenTurns(conversation)
    BY <2>1 DEF Shown, Filed
  <2>3. ASSUME NEW t \in SpokenTurns(conversation)
        PROVE  \E b \in Shown(boxFile) : t \in ToSet(b.holds)
    <3>1. messages = Messages(conversation) /\ conversation \in Conversations
      <4>1. build \in 0..MaxBuilds /\ build # 0
        BY <2>1 DEF Shape, Given
      <4>2. build > 0
        BY <4>1, IngestAssumption
      <4> QED
        BY <2>1, <4>2 DEF Given
    <3>2. PICK i \in DOMAIN messages : messages[i].turn = t
      <4>1. {messages[j].turn : j \in DOMAIN messages} = SpokenTurns(conversation)
        BY <3>1, MessagesReach DEF Reaches
      <4> QED
        BY <4>1
    <3>3. /\ boxes \in Seq(BoxShape) /\ messages \in Seq(Message)
          /\ next \in 1..Len(messages)+1 /\ next > Len(messages) /\ buffer = <<>>
      BY <2>1 DEF Shape, Buffered, Filed, Sealed
    <3>4. Held \in Seq(Seq(Turn)) /\ DOMAIN Held = DOMAIN boxes
      <4>1. \A x \in BoxShape : x.holds \in Seq(Turn)
        BY DEF BoxShape
      <4>2. \A k \in DOMAIN boxes : boxes[k].holds \in Seq(Turn)
        BY <3>3, <4>1
      <4> QED
        BY <3>3, <4>2 DEF Held
    <3>5. /\ DOMAIN FlattenSeq(Held) = DOMAIN messages
          /\ FlattenSeq(Held)[i] = t
      <4>1. next - 1 - Len(buffer) = Len(messages) /\ DOMAIN messages = 1..Len(messages)
        BY <3>3
      <4>2. FlattenSeq(Held) = [j \in DOMAIN messages |-> messages[j].turn]
        BY <2>1, <4>1 DEF Sealing
      <4> QED
        BY <3>2, <4>2
    <3>6. PICK row, col : Lays(FlattenSeq(Held), Held, Len(Held), row, col)
      BY <3>4, FlattenLays
    <3>7. /\ row[i] \in DOMAIN Held
          /\ col[i] \in DOMAIN Held[row[i]] /\ t = Held[row[i]][col[i]]
      <4>1. DOMAIN Held = 1..Len(Held)
        BY <3>4
      <4> QED
        BY <3>2, <3>5, <3>6, <4>1 DEF Lays, LaysOn
    <3>8. t \in ToSet(boxes[row[i]].holds)
      BY <3>4, <3>7 DEF Held, ToSet
    <3> QED
      BY <3>4, <3>7, <3>8, LatestShown
  <2> QED
    BY <2>2, <2>3
<1> QED
  BY IngestInvariance, <1>1, PTL
=============================================================================
