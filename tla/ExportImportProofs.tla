------------------------- MODULE ExportImportProofs -------------------------
(***************************************************************************)
(* Proofs about ExportImport, for every archive format, digest and naming, *)
(* every store, every bundle from elsewhere and every size of the buffers. *)
(* The exporter needs no more than the assumptions of that module.  What   *)
(* is said of the importer holds as long as CodecsKeepPromises does: it is *)
(* the temporal hypothesis of those theorems and an invariant of the run   *)
(* that gives the parameters the real codecs.                              *)
(***************************************************************************)
EXTENDS ExportImport, SequenceTheorems, WellFoundedInduction, TLAPS

(* Sequences of cells: prefixes, and what is joined of two.                *)
Cells == Seq(Cell)

\* Prefixes, cell by cell.
LEMMA PrefixAt ==
  ASSUME NEW S, NEW s \in Seq(S), NEW t \in Seq(S)
  PROVE  IsPrefix(s, t) <=> Len(s) <= Len(t) /\ \A i \in 1 .. Len(s) : s[i] = t[i]
<1>1. Len(s) \in Nat /\ Len(t) \in Nat
  BY LenProperties
<1>2. CASE Len(s) <= Len(t)
  <2>1. \A i \in 1 .. Len(s) : s[i] \in S /\ t[i] \in S
    BY <1>1, <1>2, ElementOfSeq
  <2>2. /\ SubSeq(s, 1, Len(s)) \in Seq(S) /\ Len(SubSeq(s, 1, Len(s))) = Len(s)
        /\ \A i \in 1 .. Len(s) : SubSeq(s, 1, Len(s))[i] = s[i]
    <3>1. SubSeq(s, 1, Len(s)) = s BY SubSeqFull
    <3> QED BY <3>1
  <2>3. /\ SubSeq(t, 1, Len(s)) \in Seq(S) /\ Len(SubSeq(t, 1, Len(s))) = Len(s)
        /\ \A i \in 1 .. Len(s) : SubSeq(t, 1, Len(s))[i] = t[i]
    <3> DEFINE n == Len(s)
    <3>1. /\ SubSeq(t, 1, n) \in Seq(S) /\ Len(SubSeq(t, 1, n)) = IF 1 <= n THEN n - 1 + 1 ELSE 0
          /\ \A i \in 1 .. n - 1 + 1 : SubSeq(t, 1, n)[i] = t[1 + i - 1]
      <4>1. n \in Int /\ 1 \in Int BY <1>1
      <4>2. \A i \in 1 .. n : t[i] \in S BY <2>1
      <4> HIDE DEF n
      <4> QED BY <4>1, <4>2, SubSeqProperties
    <3>2. n \in Nat BY <1>1
    <3> HIDE DEF n
    <3>3. n - 1 + 1 = n /\ \A i \in 1 .. n : 1 + i - 1 = i BY <3>2
    <3>4. Len(SubSeq(t, 1, n)) = n BY <3>1, <3>2
    <3>5. \A i \in 1 .. n : SubSeq(t, 1, n)[i] = t[i] BY <3>1, <3>3
    <3> QED BY <3>1, <3>4, <3>5 DEF n
  <2> DEFINE u == SubSeq(s, 1, Len(s))
             v == SubSeq(t, 1, Len(s))
  <2>4. IsPrefix(s, t) <=> u = v
    BY <1>2 DEF IsPrefix
  <2>5. u \in Seq(S) /\ v \in Seq(S) /\ Len(u) = Len(v) /\ Len(u) = Len(s)
    BY <2>2, <2>3
  <2>6. \A i \in 1 .. Len(s) : u[i] = s[i] /\ v[i] = t[i]
    BY <2>2, <2>3
  <2> HIDE DEF u, v
  <2>7. (\A i \in 1 .. Len(u) : u[i] = v[i]) => u = v
    BY <2>5, SeqEqual
  <2> QED BY <1>2, <2>4, <2>5, <2>6, <2>7
<1> QED BY <1>2 DEF IsPrefix

LEMMA PrefixSelf ==
  ASSUME NEW S, NEW s \in Seq(S)
  PROVE  IsPrefix(s, s) /\ IsPrefix(<<>>, s)
<1>1. Len(s) \in Nat
  BY LenProperties
<1> DEFINE e == <<>>
<1>2. e \in Seq(S) /\ Len(e) = 0
  BY EmptySeq
<1>3. IsPrefix(s, s)
  BY <1>1, PrefixAt
<1> HIDE DEF e
<1>4. IsPrefix(e, s)
  <2>1. Len(e) <= Len(s) /\ \A i \in 1 .. Len(e) : e[i] = s[i]
    BY <1>1, <1>2
  <2> QED BY <1>2, <2>1, PrefixAt
<1> QED BY <1>3, <1>4 DEF e

LEMMA PrefixTrans ==
  ASSUME NEW S, NEW s \in Seq(S), NEW t \in Seq(S), NEW u \in Seq(S), IsPrefix(s, t), IsPrefix(t, u)
  PROVE  IsPrefix(s, u)
<1>1. Len(s) \in Nat /\ Len(t) \in Nat /\ Len(u) \in Nat
  BY LenProperties
<1>2. Len(s) <= Len(t) /\ \A i \in 1 .. Len(s) : s[i] = t[i]
  BY PrefixAt
<1>3. Len(t) <= Len(u) /\ \A i \in 1 .. Len(t) : t[i] = u[i]
  BY PrefixAt
<1>4. Len(s) <= Len(u) /\ \A i \in 1 .. Len(s) : s[i] = u[i]
  BY <1>1, <1>2, <1>3
<1> QED BY <1>4, PrefixAt

\* u followed by q is p.
Joins(u, q, p) == u \o q = p

LEMMA JoinAt ==
  ASSUME NEW S, NEW s \in Seq(S), NEW t \in Seq(S), NEW u, Joins(s, t, u)
  PROVE  /\ u \in Seq(S) /\ Len(u) = Len(s) + Len(t)
         /\ \A i \in 1 .. Len(s) : u[i] = s[i]
         /\ \A i \in 1 .. Len(t) : u[Len(s) + i] = t[i]
<1> DEFINE m == Len(s)
           n == Len(t)
<1>1. m \in Nat /\ n \in Nat
  BY LenProperties
<1>2. u \in Seq(S) /\ Len(u) = m + n /\ \A i \in 1 .. m + n : u[i] = IF i <= m THEN s[i] ELSE t[i - m]
  BY ConcatProperties DEF Joins
<1> HIDE DEF m, n
<1>3. \A i \in 1 .. m : u[i] = s[i]
  BY <1>1, <1>2
<1>4. ASSUME NEW i \in 1 .. n PROVE u[m + i] = t[i]
  <2> DEFINE j == m + i
  <2>1. j \in 1 .. m + n /\ ~(j <= m) /\ j - m = i BY <1>1
  <2> HIDE DEF j
  <2>2. u[j] = t[j - m] BY <1>2, <2>1
  <2> QED BY <2>1, <2>2 DEF j
<1>5. u \in Seq(S) /\ Len(u) = m + n
  BY <1>2
<1> QED BY <1>3, <1>4, <1>5 DEF m, n

LEMMA JoinPrefix ==
  ASSUME NEW S, NEW s \in Seq(S), NEW t \in Seq(S), NEW u, Joins(s, t, u)
  PROVE  IsPrefix(s, u)
<1>1. Len(s) \in Nat /\ Len(t) \in Nat
  BY LenProperties
<1>2. u \in Seq(S) /\ Len(u) = Len(s) + Len(t) /\ \A i \in 1 .. Len(s) : u[i] = s[i]
  BY JoinAt
<1> QED BY <1>1, <1>2, PrefixAt

LEMMA JoinGrows ==
  ASSUME NEW S, NEW s \in Seq(S), NEW t \in Seq(S), NEW v \in Seq(S), IsPrefix(t, v)
  PROVE  IsPrefix(s \o t, s \o v)
<1> DEFINE u == s \o t
           w == s \o v
           m == Len(s)
           n == Len(t)
           k == Len(v)
<1>1. Joins(s, t, u) /\ Joins(s, v, w)
  BY DEF Joins
<1>2. m \in Nat /\ n \in Nat /\ k \in Nat
  BY LenProperties
<1> HIDE DEF u, w
<1>3. u \in Seq(S) /\ Len(u) = m + n /\ (\A i \in 1 .. m : u[i] = s[i]) /\ \A i \in 1 .. n : u[m + i] = t[i]
  BY <1>1, JoinAt
<1>4. w \in Seq(S) /\ Len(w) = m + k /\ (\A i \in 1 .. m : w[i] = s[i]) /\ \A i \in 1 .. k : w[m + i] = v[i]
  BY <1>1, JoinAt
<1>5. n <= k /\ \A i \in 1 .. n : t[i] = v[i]
  BY PrefixAt
<1> HIDE DEF m, n, k
<1>6. Len(u) <= Len(w)
  BY <1>2, <1>3, <1>4, <1>5
<1>7. ASSUME NEW i \in 1 .. Len(u) PROVE u[i] = w[i]
  <2>1. CASE i <= m
    <3>1. i \in 1 .. m BY <1>2, <1>3, <2>1
    <3> QED BY <1>3, <1>4, <3>1
  <2>2. CASE m < i
    <3>1. i - m \in 1 .. n /\ i - m \in 1 .. k /\ m + (i - m) = i BY <1>2, <1>3, <1>5, <2>2
    <3> DEFINE j == i - m
    <3>2. j \in 1 .. n /\ j \in 1 .. k /\ m + j = i BY <3>1
    <3> HIDE DEF j
    <3>3. u[m + j] = t[j] /\ w[m + j] = v[j] BY <1>3, <1>4, <3>2
    <3> QED BY <1>5, <3>2, <3>3
  <2> QED BY <1>2, <1>3, <2>1, <2>2
<1>8. IsPrefix(u, w)
  BY <1>3, <1>4, <1>6, <1>7, PrefixAt
<1> QED BY <1>8 DEF u, w

\* Joining is associative.
LEMMA JoinLeft ==
  ASSUME NEW S, NEW s \in Seq(S), NEW t \in Seq(S), NEW w \in Seq(S),
         NEW u, Joins(s, t, u), NEW v, Joins(t, w, v), NEW x, Joins(s, v, x)
  PROVE  Joins(u, w, x)
<1>1. (s \o t) \o w = s \o (t \o w)
  BY ConcatAssociative
<1> QED BY <1>1 DEF Joins

LEMMA JoinRight ==
  ASSUME NEW S, NEW s \in Seq(S), NEW t \in Seq(S), NEW w \in Seq(S),
         NEW u, Joins(s, t, u), NEW v, Joins(t, w, v), NEW x, Joins(u, w, x)
  PROVE  Joins(s, v, x)
<1>1. (s \o t) \o w = s \o (t \o w)
  BY ConcatAssociative
<1> QED BY <1>1 DEF Joins

\* The first of the cells behind s moves to its end.
LEMMA JoinHead ==
  ASSUME NEW S, NEW s \in Seq(S), NEW t \in Seq(S), t # <<>>, NEW u, Joins(s, t, u)
  PROVE  /\ Head(t) \in S /\ Tail(t) \in Seq(S) /\ Len(Tail(t)) = Len(t) - 1
         /\ Joins(s \o <<Head(t)>>, Tail(t), u)
         /\ s \o <<Head(t)>> \in Seq(S)
<1> DEFINE h == <<Head(t)>>
           r == Tail(t)
           v == s \o h
<1>1. Head(t) \in S /\ Tail(t) \in Seq(S) /\ Len(Tail(t)) = Len(t) - 1
      /\ \A i \in 1 .. Len(Tail(t)) : Tail(t)[i] = t[i + 1]
  BY HeadTailProperties
<1>2. h \in Seq(S)
  BY <1>1
<1>3. v \in Seq(S) /\ Joins(s, h, v)
  BY <1>2, ConcatProperties DEF Joins
<1>4. Joins(h, r, t)
  BY <1>1 DEF Joins
<1> HIDE DEF h, r, v
<1>5. r \in Seq(S) BY <1>1 DEF r
<1>6. Joins(v, r, u)
  BY <1>2, <1>3, <1>4, <1>5, JoinLeft
<1> QED BY <1>1, <1>3, <1>6 DEF h, r, v

--------------------------------------------------------------------------------
(* Recursive functions over 0 .. n, and what the exporter sends.           *)

LEMMA Least ==
  ASSUME NEW S \in SUBSET Nat, S # {}
  PROVE  \E m \in S : \A n \in S : m <= n
<1> DEFINE R == OpToRel(<, Nat)
<1>1. IsWellFoundedOn(R, Nat)
  BY NatLessThanWellFounded
<1>2. \A x, y \in Nat : x < y => <<x, y>> \in R
  BY DEF OpToRel
<1> HIDE DEF R
<1>3. PICK m \in S : \A y \in S : ~(<<y, m>> \in R)
  BY <1>1, WFMin
<1>4. ASSUME NEW n \in S PROVE m <= n
  <2>1. m \in Nat /\ n \in Nat OBVIOUS
  <2>2. ~(n < m) BY <1>2, <1>3, <2>1
  <2> QED BY <2>1, <2>2
<1> QED BY <1>4

\* What holds of 0 and of the next number holds up to n.
LEMMA Induction ==
  ASSUME NEW n \in Nat, NEW S, 0 \in S, \A k \in 0 .. n - 1 : k \in S => k + 1 \in S
  PROVE  0 .. n \subseteq S
<1> SUFFICES ASSUME (0 .. n) \ S # {} PROVE FALSE
  OBVIOUS
<1>1. PICK m \in (0 .. n) \ S : \A k \in (0 .. n) \ S : m <= k
  <2>1. (0 .. n) \ S \in SUBSET Nat OBVIOUS
  <2> QED BY <2>1, Least
<1>2. m # 0 /\ m - 1 \in 0 .. n - 1 /\ m - 1 \in S
  BY <1>1
<1> QED BY <1>1, <1>2

\* The function f with values in R is defined by recursion over 0 .. n.
Steps(n, R) == [0 .. n -> [R -> R]]

Computes(f, n, R, base, step) ==
  /\ f \in [0 .. n -> R]
  /\ \A k \in 0 .. n : f[k] = IF k = 0 THEN base ELSE step[k][f[k - 1]]

\* There is one.
LEMMA Recursion ==
  ASSUME NEW n \in Nat, NEW R, NEW base \in R, NEW step \in Steps(n, R)
  PROVE  \E f : Computes(f, n, R, base, step)
<1> USE DEF Steps
<1> DEFINE Def(m, f) == \A k \in 0 .. m : f[k] = IF k = 0 THEN base ELSE step[k][f[k - 1]]
           S == {m \in 0 .. n : \E f \in [0 .. m -> R] : Def(m, f)}
<1>1. 0 \in S
  <2> DEFINE f == [k \in 0 .. 0 |-> base]
  <2>1. f \in [0 .. 0 -> R] /\ Def(0, f)
    OBVIOUS
  <2> HIDE DEF Def, f
  <2> QED BY <2>1
<1>2. ASSUME NEW m \in 0 .. n - 1, m \in S PROVE m + 1 \in S
  <2>1. PICK f \in [0 .. m -> R] : Def(m, f)
    BY <1>2
  <2> DEFINE g == [k \in 0 .. m + 1 |-> IF k = m + 1 THEN step[m + 1][f[m]] ELSE f[k]]
  <2>2. g \in [0 .. m + 1 -> R]
    OBVIOUS
  <2>3. ASSUME NEW k \in 0 .. m + 1 PROVE g[k] = IF k = 0 THEN base ELSE step[k][g[k - 1]]
    <3>1. m \in Nat OBVIOUS
    <3>2. CASE k = m + 1
      <4>1. k - 1 = m /\ k # 0 /\ m \in 0 .. m + 1 /\ m # m + 1
        BY <3>1, <3>2
      <4> QED BY <3>2, <4>1
    <3>3. CASE k \in 0 .. m /\ k # 0
      <4>1. k - 1 \in 0 .. m + 1 /\ k - 1 # m + 1 /\ k # m + 1
        BY <3>1, <3>3
      <4>2. g[k] = f[k] /\ g[k - 1] = f[k - 1]
        BY <4>1
      <4>3. f[k] = step[k][f[k - 1]]
        BY <2>1, <3>3
      <4> QED BY <3>3, <4>2, <4>3
    <3>4. CASE k = 0
      <4>1. 0 # m + 1 /\ 0 \in 0 .. m /\ 0 \in 0 .. m + 1
        BY <3>1
      <4> QED BY <2>1, <3>4, <4>1
    <3> QED BY <3>1, <3>2, <3>3, <3>4
  <2>4. Def(m + 1, g)
    BY <2>3
  <2> HIDE DEF Def, g
  <2> QED BY <2>2, <2>4
<1>3. n \in S
  <2> HIDE DEF S
  <2>1. 0 .. n \subseteq S
    BY <1>1, <1>2, Induction
  <2> QED BY <2>1
<1>4. \E f \in [0 .. n -> R] : Def(n, f)
  <2> HIDE DEF Def
  <2> QED BY <1>3
<1> QED BY <1>4 DEF Computes

\* Cells that a stream is made of.
Dump(t) == Archive(t).cells

Marked(n) == Sent[n - 1] \o <<Num(1)>>

LEMMA Constants ==
  /\ BufSize \in Nat
  /\ Rows \in Seq(Exported) /\ Len(Rows) \in Nat
  /\ Num(0) \in Cell /\ Num(1) \in Cell /\ ExportMagic \in Cell
  /\ DamagedCells \subseteq Cell /\ ForeignBundles \subseteq Cells
<1>1. Len(Rows) \in Nat
  BY RowsAssumption, LenProperties
<1> QED BY <1>1, BoundsAssumption, CellsAssumption, RowsAssumption DEF Cells

LEMMA RowIs ==
  ASSUME NEW n \in 1 .. Len(Rows)
  PROVE  /\ Rows[n] \in Exported /\ Rows[n].base \in Bases
         /\ Dump(Rows[n].tree) \in Cells /\ Dump(Rotten(Rows[n].tree)) \in Cells
         /\ ShowPath(Rows[n].base) \in Cell /\ ShowPath(Rows[n].base) # Bad
         /\ ReadPath(ShowPath(Rows[n].base)) = {Rows[n].base}
<1> DEFINE e == Rows[n]
<1>1. e \in Exported
  BY RowsAssumption, ElementOfSeq
<1> HIDE DEF e
<1>2. e.base \in Bases /\ e.tree \in Dumped /\ Rotten(e.tree) \in Dumped
  BY <1>1 DEF Bases, Dumped
<1>3. Dump(e.tree) \in Cells /\ Dump(Rotten(e.tree)) \in Cells
  BY <1>2, CellsAssumption DEF Dump, Cells
<1>4. ShowPath(e.base) \in Cell /\ ShowPath(e.base) # Bad /\ ReadPath(ShowPath(e.base)) = {e.base}
  BY <1>2, CellsAssumption
<1> QED BY <1>1, <1>2, <1>3, <1>4 DEF e

LEMMA TrailerIs ==
  ASSUME NEW n \in 1 .. Len(Rows)
  PROVE  /\ Trailer(Rows[n].base) \in Cells /\ Len(Trailer(Rows[n].base)) = 3
         /\ Trailer(Rows[n].base)[1] = ExportMagic
         /\ Trailer(Rows[n].base)[2] = ShowPath(Rows[n].base)
         /\ Trailer(Rows[n].base)[3] = Num(0)
<1> DEFINE c == ShowPath(Rows[n].base)
<1>1. c \in Cell /\ Num(0) \in Cell /\ ExportMagic \in Cell
  BY RowIs, Constants
<1> HIDE DEF c
<1>2. <<ExportMagic, c, Num(0)>> \in Cells
  BY <1>1 DEF Cells
<1> QED BY <1>2 DEF Trailer, c

\* What Sent[n] is made of.
LEMMA SentIs ==
  /\ Sent \in [0 .. Len(Rows) -> Cells] /\ Sent[0] = <<>>
  /\ \A n \in 1 .. Len(Rows) :
       Sent[n] = (Marked(n) \o Dump(Rows[n].tree)) \o Trailer(Rows[n].base)
<1> DEFINE N == Len(Rows)
           Then(k, v) == ((v \o <<Num(1)>>) \o Dump(Rows[k].tree)) \o Trailer(Rows[k].base)
           base == <<>>
           step == [k \in 0 .. N |-> [v \in Cells |-> IF k = 0 THEN base ELSE Then(k, v)]]
           Def(f) == f = [k \in 0 .. N |-> IF k = 0 THEN base ELSE Then(k, f[k - 1])]
<1>1. N \in Nat /\ base \in Cells
  BY Constants, EmptySeq DEF Cells
<1>2. ASSUME NEW k \in 1 .. N, NEW v \in Cells PROVE Then(k, v) \in Cells
  <2> DEFINE a == <<Num(1)>>
             d == Dump(Rows[k].tree)
             t == Trailer(Rows[k].base)
  <2>1. a \in Cells /\ d \in Cells /\ t \in Cells
    BY Constants, RowIs, TrailerIs DEF Cells
  <2> HIDE DEF a, d, t
  <2>2. v \o a \in Cells BY <2>1, ConcatProperties DEF Cells
  <2>3. (v \o a) \o d \in Cells BY <2>1, <2>2, ConcatProperties DEF Cells
  <2>4. ((v \o a) \o d) \o t \in Cells BY <2>1, <2>3, ConcatProperties DEF Cells
  <2> QED BY <2>4 DEF a, d, t
<1> HIDE DEF Then
<1>3. step \in Steps(N, Cells)
  <2>1. ASSUME NEW k \in 0 .. N PROVE [v \in Cells |-> IF k = 0 THEN base ELSE Then(k, v)] \in [Cells -> Cells]
    <3>1. k # 0 => k \in 1 .. N BY <1>1
    <3> HIDE DEF base, N
    <3> QED BY <1>1, <1>2, <3>1
  <2> HIDE DEF N, base
  <2> QED BY <2>1 DEF Steps
<1>4. PICK f : Computes(f, N, Cells, base, step)
  <2> HIDE DEF N, base, step
  <2> QED BY <1>1, <1>3, Recursion
<1>5. Def(f)
  <2> HIDE DEF N
  <2>1. f \in [0 .. N -> Cells] /\ \A k \in 0 .. N : f[k] = IF k = 0 THEN base ELSE step[k][f[k - 1]]
    BY <1>4 DEF Computes
  <2>2. ASSUME NEW k \in 0 .. N, k # 0 PROVE step[k][f[k - 1]] = Then(k, f[k - 1])
    <3>1. k - 1 \in 0 .. N
      BY <1>1, <2>2
    <3>2. f[k - 1] \in Cells
      BY <2>1, <3>1
    <3> QED BY <2>2, <3>2
  <2>3. f = [k \in 0 .. N |-> f[k]]
    BY <2>1
  <2> HIDE DEF step, base
  <2> QED BY <2>1, <2>2, <2>3
<1> DEFINE sent == CHOOSE g : Def(g)
<1>6. Def(sent)
  BY <1>5
<1>7. Sent = sent
  BY DEF Sent, Then, Dump
<1>8. \A k \in 0 .. N : sent[k] = IF k = 0 THEN base ELSE Then(k, sent[k - 1])
  BY <1>6
<1>9. sent = [k \in 0 .. N |-> sent[k]]
  BY <1>6
<1> HIDE DEF sent, base
<1> DEFINE S == {k \in 0 .. N : sent[k] \in Cells}
<1> HIDE DEF N
<1>10. 0 \in S
  BY <1>1, <1>8
<1>11. ASSUME NEW k \in 0 .. N - 1, k \in S PROVE k + 1 \in S
  <2>1. k + 1 \in 0 .. N /\ k + 1 \in 1 .. N /\ k + 1 # 0 /\ k + 1 - 1 = k BY <1>1
  <2>2. sent[k + 1] = Then(k + 1, sent[k]) BY <1>8, <2>1
  <2> QED BY <1>2, <1>11, <2>1, <2>2
<1>12. 0 .. N \subseteq S
  <2> HIDE DEF S
  <2> QED BY <1>1, <1>10, <1>11, Induction
<1>13. sent \in [0 .. N -> Cells]
  BY <1>9, <1>12
<1>14. \A k \in 1 .. N : sent[k] = Then(k, sent[k - 1])
  BY <1>1, <1>8
<1>15. sent[0] = <<>>
  BY <1>1, <1>8 DEF base
<1> QED BY <1>7, <1>13, <1>14, <1>15 DEF Then, Marked, N

--------------------------------------------------------------------------------
(* The stream of a store some of whose paths have rotted: it is what was   *)
(* sent of the intact paths in front of the first rotten one, and its      *)
(* archive.                                                                *)

\* What the n-th path looks like, and what the exporter has sent of it when it compares hashes.
Tree(rot, n) == IF Rows[n].base \in rot THEN Rotten(Rows[n].tree) ELSE Rows[n].tree

Packed(rot, n) == Marked(n) \o Dump(Tree(rot, n))

Intact(rot, n) == \A k \in 1 .. n : Rows[k].base \notin rot

LEMMA SentOf ==
  ASSUME NEW n \in 0 .. Len(Rows)
  PROVE  Sent[n] \in Cells /\ Len(Sent[n]) \in Nat /\ (n = 0 => Sent[n] = <<>>)
<1>1. Sent[n] \in Cells /\ (n = 0 => Sent[n] = <<>>)
  BY SentIs
<1> QED BY <1>1, LenProperties DEF Cells

LEMMA MarkedIs ==
  ASSUME NEW n \in 1 .. Len(Rows)
  PROVE  /\ Sent[n - 1] \in Cells /\ <<Num(1)>> \in Cells /\ Marked(n) \in Cells
         /\ Joins(Sent[n - 1], <<Num(1)>>, Marked(n))
<1>1. n - 1 \in 0 .. Len(Rows)
  BY Constants
<1>2. Sent[n - 1] \in Cells
  BY <1>1, SentOf
<1> DEFINE a == <<Num(1)>>
<1>3. a \in Cells
  BY Constants DEF Cells
<1> HIDE DEF a
<1>4. Sent[n - 1] \o a \in Cells
  BY <1>2, <1>3, ConcatProperties DEF Cells
<1> QED BY <1>2, <1>3, <1>4 DEF Marked, Joins, a

LEMMA PackedIs ==
  ASSUME NEW rot, NEW n \in 1 .. Len(Rows)
  PROVE  /\ Dump(Tree(rot, n)) \in Cells /\ Packed(rot, n) \in Cells
         /\ Joins(Marked(n), Dump(Tree(rot, n)), Packed(rot, n))
<1> DEFINE d == Dump(Tree(rot, n))
<1>1. d \in Cells
  BY RowIs DEF Tree
<1>2. Marked(n) \in Cells
  BY MarkedIs
<1> HIDE DEF d
<1>3. Marked(n) \o d \in Cells
  BY <1>1, <1>2, ConcatProperties DEF Cells
<1> QED BY <1>1, <1>3 DEF Packed, Joins, d

LEMMA PackedIsSent ==
  ASSUME NEW rot, NEW n \in 1 .. Len(Rows), Rows[n].base \notin rot
  PROVE  /\ Joins(Packed(rot, n), Trailer(Rows[n].base), Sent[n])
         /\ IsPrefix(Packed(rot, n), Sent[n])
         /\ Tree(rot, n) = Rows[n].tree
<1>1. Joins(Packed(rot, n), Trailer(Rows[n].base), Sent[n]) /\ Tree(rot, n) = Rows[n].tree
  BY SentIs DEF Packed, Joins, Tree
<1>2. Packed(rot, n) \in Cells /\ Trailer(Rows[n].base) \in Cells
  BY PackedIs, TrailerIs
<1>3. IsPrefix(Packed(rot, n), Sent[n])
  BY <1>1, <1>2, JoinPrefix DEF Cells
<1> QED BY <1>1, <1>3

LEMMA SentStep ==
  ASSUME NEW n \in 1 .. Len(Rows)
  PROVE  IsPrefix(Sent[n - 1], Sent[n])
<1> DEFINE p == Packed({}, n)
<1>1. Sent[n - 1] \in Cells /\ Marked(n) \in Cells /\ IsPrefix(Sent[n - 1], Marked(n))
  BY MarkedIs, JoinPrefix DEF Cells
<1>2. p \in Cells /\ IsPrefix(Marked(n), p)
  BY <1>1, PackedIs, JoinPrefix DEF Cells
<1>3. IsPrefix(p, Sent[n]) /\ Sent[n] \in Cells
  BY PackedIsSent, SentOf
<1> HIDE DEF p
<1>4. IsPrefix(Sent[n - 1], p)
  BY <1>1, <1>2, PrefixTrans DEF Cells
<1> QED BY <1>1, <1>2, <1>3, <1>4, PrefixTrans DEF Cells

LEMMA SentGrows ==
  ASSUME NEW n \in 0 .. Len(Rows), NEW m \in 0 .. n
  PROVE  IsPrefix(Sent[m], Sent[n])
<1> DEFINE N == Len(Rows)
           S == {k \in 0 .. N : m <= k => IsPrefix(Sent[m], Sent[k])}
<1>1. N \in Nat /\ m \in 0 .. N /\ n \in 0 .. N
  BY Constants
<1>2. Sent[m] \in Cells
  BY <1>1, SentOf
<1>3. IsPrefix(Sent[m], Sent[m])
  BY <1>2, PrefixSelf DEF Cells
<1>4. 0 \in S
  BY <1>1, <1>3
<1>5. ASSUME NEW k \in 0 .. N - 1, k \in S PROVE k + 1 \in S
  <2>1. k + 1 \in 1 .. N /\ k + 1 \in 0 .. N /\ k \in 0 .. N /\ k + 1 - 1 = k /\ k \in Nat
    BY <1>1
  <2>2. IsPrefix(Sent[k], Sent[k + 1])
    BY <2>1, SentStep
  <2>3. Sent[k] \in Cells /\ Sent[k + 1] \in Cells
    BY <2>1, SentOf
  <2>4. CASE m = k + 1
    BY <1>3, <2>1, <2>4
  <2>5. CASE m <= k
    <3>1. IsPrefix(Sent[m], Sent[k])
      BY <1>5, <2>5
    <3> DEFINE b == Sent[m]
               c == Sent[k]
               d == Sent[k + 1]
    <3>2. b \in Cells /\ c \in Cells /\ d \in Cells /\ IsPrefix(b, c) /\ IsPrefix(c, d)
      BY <1>2, <2>2, <2>3, <3>1
    <3> HIDE DEF b, c, d
    <3>3. IsPrefix(b, d)
      BY <3>2, PrefixTrans DEF Cells
    <3> QED BY <2>1, <3>3 DEF b, d
  <2>6. CASE k + 1 < m
    BY <2>1, <2>6
  <2> QED BY <1>1, <2>1, <2>4, <2>5, <2>6
<1>6. 0 .. N \subseteq S
  <2> HIDE DEF S, N
  <2> QED BY <1>1, <1>4, <1>5, Induction
<1> QED BY <1>1, <1>6

LEMMA WholeIs ==
  /\ WholeBundle \in Cells /\ <<Num(0)>> \in Cells /\ Sent[Len(Rows)] \in Cells
  /\ Joins(Sent[Len(Rows)], <<Num(0)>>, WholeBundle)
<1> DEFINE a == <<Num(0)>>
           s == Sent[Len(Rows)]
<1>1. a \in Cells
  BY Constants DEF Cells
<1>2. s \in Cells
  <2>1. Len(Rows) \in 0 .. Len(Rows) BY Constants
  <2> QED BY <2>1, SentOf
<1>3. Joins(s, a, WholeBundle)
  BY DEF Joins, WholeBundle
<1> HIDE DEF a, s
<1>4. WholeBundle \in Cells
  BY <1>1, <1>2, <1>3, JoinAt DEF Cells
<1> QED BY <1>1, <1>2, <1>3, <1>4 DEF a, s

LEMMA FirstRottenIs ==
  ASSUME NEW rot \in SUBSET Bases, rot # {}
  PROVE  /\ FirstRotten(rot) \in 1 .. Len(Rows)
         /\ Rows[FirstRotten(rot)].base \in rot
         /\ \A k \in 1 .. FirstRotten(rot) - 1 : Rows[k].base \notin rot
<1> DEFINE R == {i \in 1 .. Len(Rows) : Rows[i].base \in rot}
<1>1. R \in SUBSET Nat
  BY Constants
<1>2. PICK b \in rot : TRUE
  OBVIOUS
<1>3. PICK e \in Exported : b = e.base
  BY <1>2 DEF Bases
<1>4. DOMAIN Rows = 1 .. Len(Rows)
  BY RowsAssumption, LenProperties
<1>5. PICK i \in 1 .. Len(Rows) : e = Rows[i]
  BY <1>3, <1>4 DEF Exported, ToSet
<1>6. i \in R
  BY <1>2, <1>3, <1>5
<1>7. R # {}
  BY <1>6
<1>8. PICK m \in R : \A n \in R : m <= n
  <2> HIDE DEF R
  <2> QED BY <1>1, <1>7, Least
<1>9. m \in 1 .. Len(Rows) /\ Rows[m].base \in rot
  BY <1>8
<1>10. \A k \in 1 .. m - 1 : Rows[k].base \notin rot
  <2> SUFFICES ASSUME NEW k \in 1 .. m - 1, Rows[k].base \in rot PROVE FALSE
    OBVIOUS
  <2>1. k \in R /\ k < m
    BY <1>9, Constants
  <2> QED BY <1>8, <1>9, <2>1, Constants
<1> QED BY <1>9, <1>10 DEF FirstRotten

LEMMA FirstRottenOnly ==
  ASSUME NEW rot \in SUBSET Bases, NEW n \in 1 .. Len(Rows), Intact(rot, n - 1), Rows[n].base \in rot
  PROVE  FirstRotten(rot) = n
<1> DEFINE f == FirstRotten(rot)
<1>1. f \in 1 .. Len(Rows) /\ Rows[f].base \in rot /\ \A k \in 1 .. f - 1 : Rows[k].base \notin rot
  BY FirstRottenIs
<1> HIDE DEF f
<1>2. \A k \in 1 .. n - 1 : Rows[k].base \notin rot
  BY DEF Intact
<1>3. ~(f < n)
  <2>1. f < n => f \in 1 .. n - 1 BY <1>1, Constants
  <2> QED BY <1>1, <1>2, <2>1
<1>4. ~(n < f)
  <2>1. n < f => n \in 1 .. f - 1 BY <1>1, Constants
  <2> QED BY <1>1, <2>1
<1>5. f \in Nat /\ n \in Nat BY <1>1, Constants
<1>6. f = n BY <1>3, <1>4, <1>5
<1> QED BY <1>6 DEF f

LEMMA StreamRotten ==
  ASSUME NEW rot \in SUBSET Bases, NEW n \in 1 .. Len(Rows), Intact(rot, n - 1), Rows[n].base \in rot
  PROVE  Stream(rot) = Packed(rot, n)
<1>1. FirstRotten(rot) = n
  BY FirstRottenOnly
<1>2. rot # {}
  OBVIOUS
<1> QED BY <1>1, <1>2 DEF Stream, Packed, Marked, Tree, Dump

LEMMA StreamIntact ==
  ASSUME NEW rot \in SUBSET Bases, Intact(rot, Len(Rows))
  PROVE  rot = {} /\ Stream(rot) = WholeBundle
<1>1. rot = {}
  <2> SUFFICES ASSUME rot # {} PROVE FALSE
    OBVIOUS
  <2> QED BY FirstRottenIs DEF Intact
<1> QED BY <1>1 DEF Stream

LEMMA StreamIs ==
  ASSUME NEW rot \in SUBSET Bases
  PROVE  Stream(rot) \in Cells
<1>1. CASE rot = {}
  BY <1>1, WholeIs DEF Stream
<1>2. CASE rot # {}
  <2> DEFINE f == FirstRotten(rot)
  <2>1. f \in 1 .. Len(Rows) /\ Rows[f].base \in rot /\ \A k \in 1 .. f - 1 : Rows[k].base \notin rot
    BY <1>2, FirstRottenIs
  <2> HIDE DEF f
  <2>2. Intact(rot, f - 1)
    BY <2>1 DEF Intact
  <2> QED BY <2>1, <2>2, StreamRotten, PackedIs
<1> QED BY <1>1, <1>2

\* While no path has rotted the stream goes on.
LEMMA StreamAfter ==
  ASSUME NEW rot \in SUBSET Bases, NEW n \in 0 .. Len(Rows), Intact(rot, n)
  PROVE  IsPrefix(Sent[n], Stream(rot))
<1>1. Sent[n] \in Cells /\ Stream(rot) \in Cells
  BY SentOf, StreamIs
<1>2. CASE rot = {}
  <2> DEFINE s == Sent[Len(Rows)]
  <2>1. IsPrefix(Sent[n], s)
    <3>1. Len(Rows) \in 0 .. Len(Rows) /\ n \in 0 .. Len(Rows) BY Constants
    <3> QED BY <3>1, SentGrows
  <2>2. s \in Cells /\ WholeBundle \in Cells /\ IsPrefix(s, WholeBundle)
    BY WholeIs, JoinPrefix DEF Cells
  <2>3. Stream(rot) = WholeBundle
    BY <1>2 DEF Stream
  <2> HIDE DEF s
  <2> QED BY <1>1, <2>1, <2>2, <2>3, PrefixTrans DEF Cells
<1>3. CASE rot # {}
  <2> DEFINE f == FirstRotten(rot)
             s == Sent[f - 1]
             p == Packed(rot, f)
  <2>1. f \in 1 .. Len(Rows) /\ Rows[f].base \in rot /\ \A k \in 1 .. f - 1 : Rows[k].base \notin rot
    BY <1>3, FirstRottenIs
  <2> HIDE DEF f
  <2>2. Intact(rot, f - 1)
    BY <2>1 DEF Intact
  <2>3. Stream(rot) = p
    BY <2>1, <2>2, StreamRotten
  <2>4. n < f
    <3>1. ~(f \in 1 .. n)
      BY <2>1 DEF Intact
    <3> QED BY <2>1, <3>1, Constants
  <2>5. IsPrefix(Sent[n], s)
    <3>1. f - 1 \in 0 .. Len(Rows) /\ n \in 0 .. f - 1 BY <2>1, <2>4, Constants
    <3> QED BY <3>1, SentGrows
  <2>6. s \in Cells /\ Marked(f) \in Cells /\ IsPrefix(s, Marked(f))
    BY <2>1, MarkedIs, JoinPrefix DEF Cells
  <2>7. p \in Cells /\ IsPrefix(Marked(f), p)
    BY <2>1, <2>6, PackedIs, JoinPrefix DEF Cells
  <2> HIDE DEF s, p
  <2>8. IsPrefix(s, p)
    BY <2>6, <2>7, PrefixTrans DEF Cells
  <2> QED BY <1>1, <2>3, <2>5, <2>6, <2>7, <2>8, PrefixTrans DEF Cells
<1> QED BY <1>2, <1>3

LEMMA StreamRow ==
  ASSUME NEW rot \in SUBSET Bases, NEW n \in 1 .. Len(Rows), Intact(rot, n - 1)
  PROVE  IsPrefix(Packed(rot, n), Stream(rot))
<1> DEFINE p == Packed(rot, n)
<1>1. p \in Cells /\ Stream(rot) \in Cells
  BY PackedIs, StreamIs
<1>2. CASE Rows[n].base \in rot
  <2>1. Stream(rot) = p
    BY <1>2, StreamRotten
  <2> QED BY <1>1, <2>1, PrefixSelf DEF Cells
<1>3. CASE Rows[n].base \notin rot
  <2>1. IsPrefix(p, Sent[n])
    BY <1>3, PackedIsSent
  <2>2. n \in 0 .. Len(Rows) /\ Intact(rot, n)
    <3>1. n \in 0 .. Len(Rows) BY Constants
    <3>2. ASSUME NEW k \in 1 .. n PROVE Rows[k].base \notin rot
      <4>1. k = n \/ k \in 1 .. n - 1 BY Constants
      <4> QED BY <1>3, <4>1 DEF Intact
    <3> QED BY <3>1, <3>2 DEF Intact
  <2>3. IsPrefix(Sent[n], Stream(rot)) /\ Sent[n] \in Cells
    BY <2>2, StreamAfter, SentOf
  <2> HIDE DEF p
  <2>4. IsPrefix(p, Stream(rot))
    BY <1>1, <2>1, <2>3, PrefixTrans DEF Cells
  <2> QED BY <2>4 DEF p
<1> QED BY <1>2, <1>3

--------------------------------------------------------------------------------
(* The buffered sink: what it was given and did not yet write is in its    *)
(* buffer, and it writes in order.                                         *)

Sinks == [buf : Cells, written : Nat]

\* The beginning of a sequence of cells.
LEMMA UptoIs ==
  ASSUME NEW s \in Cells, NEW n \in Int
  PROVE  /\ Upto(s, n) \in Cells /\ IsPrefix(Upto(s, n), s)
         /\ Len(s) <= n => Upto(s, n) = s
<1> DEFINE m == IF n < Len(s) THEN n ELSE Len(s)
           u == SubSeq(s, 1, m)
<1>1. Len(s) \in Nat
  BY LenProperties DEF Cells
<1>2. m \in Int /\ m <= Len(s) /\ (Len(s) <= n => m = Len(s))
  BY <1>1
<1> HIDE DEF m
<1>3. ASSUME NEW i \in 1 .. m PROVE s[i] \in Cell
  <2>1. i \in 1 .. Len(s) BY <1>1, <1>2
  <2> QED BY <2>1, ElementOfSeq DEF Cells
<1>4. /\ u \in Cells /\ Len(u) = IF 1 <= m THEN m - 1 + 1 ELSE 0
      /\ \A i \in 1 .. m - 1 + 1 : u[i] = s[1 + i - 1]
  <2>1. 1 \in Int OBVIOUS
  <2> QED BY <1>2, <1>3, <2>1, SubSeqProperties DEF Cells
<1>5. m - 1 + 1 = m /\ \A i \in 1 .. m : 1 + i - 1 = i
  BY <1>2
<1>6. Len(u) <= Len(s) /\ Len(u) = IF 1 <= m THEN m ELSE 0
  BY <1>1, <1>2, <1>4
<1>7. \A i \in 1 .. m : u[i] = s[i]
  BY <1>4, <1>5
<1>8. \A i \in 1 .. Len(u) : i \in 1 .. m
  BY <1>2, <1>6
<1>9. Upto(s, n) = u
  BY DEF Upto, m
<1>10. Len(s) <= n => u = s
  BY <1>2, SubSeqFull DEF Cells
<1> HIDE DEF u
<1>11. IsPrefix(u, s)
  BY <1>4, <1>6, <1>7, <1>8, PrefixAt DEF Cells
<1> QED BY <1>4, <1>9, <1>10, <1>11

LEMMA FlushIs ==
  ASSUME NEW sink \in Sinks, NEW room \in Int
  PROVE  /\ Flush(sink, room).sink \in Sinks /\ Flush(sink, room).sink.buf = <<>>
         /\ Flush(sink, room).out \in Cells
         /\ IsPrefix(Flush(sink, room).out, sink.buf)
         /\ Flush(sink, room).ok => Flush(sink, room).out = sink.buf
<1>1. sink.buf \in Cells /\ sink.written \in Nat /\ <<>> \in Cells
  BY EmptySeq DEF Sinks, Cells
<1>2. Len(sink.buf) \in Nat
  BY <1>1, LenProperties DEF Cells
<1>3. CASE sink.buf = <<>>
  <2>1. Flush(sink, room).sink = sink /\ Flush(sink, room).out = <<>>
    BY <1>3 DEF Flush
  <2>2. IsPrefix(sink.buf, sink.buf)
    BY <1>1, PrefixSelf DEF Cells
  <2> QED BY <1>1, <1>3, <2>1, <2>2
<1>4. CASE sink.buf # <<>>
  <2> DEFINE e == [sink EXCEPT !.buf = <<>>]
             s == [e EXCEPT !.written = @ + Len(sink.buf)]
  <2>1. e \in Sinks /\ e.buf = <<>> /\ e.written = sink.written
    BY <1>1 DEF Sinks
  <2> HIDE DEF e
  <2>2. s \in Sinks /\ s.buf = <<>>
    BY <1>1, <1>2, <2>1 DEF Sinks
  <2>3. /\ Flush(sink, room).sink = s /\ Flush(sink, room).out = Upto(sink.buf, room)
        /\ Flush(sink, room).ok = (Len(sink.buf) <= room)
    BY <1>4 DEF Flush, WriteUnbuffered, WriteFull, e
  <2> HIDE DEF s
  <2> QED BY <1>1, <2>2, <2>3, UptoIs
<1> QED BY <1>3, <1>4

LEMMA WriteIs ==
  ASSUME NEW sink \in Sinks, NEW data \in Cells, NEW room \in Int
  PROVE  /\ WriteUnbuffered(sink, data, room).sink \in Sinks
         /\ WriteUnbuffered(sink, data, room).sink.buf = sink.buf
         /\ WriteUnbuffered(sink, data, room).out \in Cells
         /\ IsPrefix(WriteUnbuffered(sink, data, room).out, data)
         /\ WriteUnbuffered(sink, data, room).ok => WriteUnbuffered(sink, data, room).out = data
<1> DEFINE s == [sink EXCEPT !.written = @ + Len(data)]
<1>1. Len(data) \in Nat
  BY LenProperties DEF Cells
<1>2. s \in Sinks /\ s.buf = sink.buf
  BY <1>1 DEF Sinks
<1>3. /\ WriteUnbuffered(sink, data, room).sink = s
      /\ WriteUnbuffered(sink, data, room).out = Upto(data, room)
      /\ WriteUnbuffered(sink, data, room).ok = (Len(data) <= room)
  BY DEF WriteUnbuffered, WriteFull
<1> HIDE DEF s
<1> QED BY <1>2, <1>3, UptoIs

LEMMA PutIs ==
  ASSUME NEW sink \in Sinks, NEW data \in Cells, NEW room \in Int,
         NEW x, Joins(sink.buf, data, x)
  PROVE  /\ Put(sink, data, room).sink \in Sinks /\ Put(sink, data, room).out \in Cells
         /\ Put(sink, data, room).ok => Joins(Put(sink, data, room).out, Put(sink, data, room).sink.buf, x)
         /\ ~Put(sink, data, room).ok => /\ Put(sink, data, room).sink.buf = <<>>
                                         /\ IsPrefix(Put(sink, data, room).out, x)
<1> DEFINE w == Put(sink, data, room)
           f == Flush(sink, room)
           r == WriteUnbuffered(f.sink, data, room - Len(f.out))
           fits == Len(data) < BufSize - Len(sink.buf)
<1>1. sink.buf \in Cells /\ sink.written \in Nat /\ <<>> \in Cells
  BY EmptySeq DEF Sinks, Cells
<1>2. x \in Cells
  BY <1>1, JoinAt DEF Cells
<1>3. CASE fits
  <2> DEFINE s == [sink EXCEPT !.buf = @ \o data]
  <2>1. w.sink = s /\ w.out = <<>> /\ w.ok
    BY <1>3 DEF Put
  <2>2. s \in Sinks /\ s.buf = x
    BY <1>1, <1>2 DEF Sinks, Joins
  <2>3. Joins(<<>>, x, x)
    BY <1>2, ConcatEmptySeq DEF Joins, Cells
  <2> HIDE DEF w, s
  <2>4. w.sink \in Sinks /\ w.out \in Cells /\ w.ok /\ Joins(w.out, w.sink.buf, x)
    BY <1>1, <2>1, <2>2, <2>3
  <2> QED BY <2>4 DEF w
<1>4. /\ f.sink \in Sinks /\ f.sink.buf = <<>> /\ f.out \in Cells /\ IsPrefix(f.out, sink.buf)
      /\ f.ok => f.out = sink.buf
  BY FlushIs
<1>5. CASE ~fits /\ ~f.ok
  <2>1. w = f
    BY <1>5 DEF Put
  <2>2. IsPrefix(sink.buf, x)
    BY <1>1, JoinPrefix DEF Cells
  <2> HIDE DEF w, f
  <2>3. IsPrefix(f.out, x)
    BY <1>1, <1>2, <1>4, <2>2, PrefixTrans DEF Cells
  <2>4. w.sink \in Sinks /\ w.out \in Cells /\ ~w.ok /\ w.sink.buf = <<>> /\ IsPrefix(w.out, x)
    BY <1>4, <1>5, <2>1, <2>3
  <2> QED BY <2>4 DEF w
<1>6. CASE ~fits /\ f.ok
  <2>1. w.sink = r.sink /\ w.out = f.out \o r.out /\ w.ok = r.ok
    BY <1>6 DEF Put, WriteUnbuffered
  <2>2. room - Len(f.out) \in Int
    <3>1. Len(f.out) \in Nat
      <4> HIDE DEF f
      <4> QED BY <1>4, LenProperties DEF Cells
    <3> HIDE DEF f
    <3> QED BY <3>1
  <2>3. /\ r.sink \in Sinks /\ r.sink.buf = f.sink.buf /\ r.out \in Cells /\ IsPrefix(r.out, data)
        /\ r.ok => r.out = data
    <3> HIDE DEF f
    <3> QED BY <1>4, <2>2, WriteIs
  <2> HIDE DEF w, f, r
  <2>4. f.out = sink.buf
    BY <1>4, <1>6
  <2>5. w.out \in Cells
    BY <1>4, <2>1, <2>3, ConcatProperties DEF Cells
  <2>6. ASSUME r.ok PROVE Joins(w.out, w.sink.buf, x)
    <3>1. w.out = x /\ w.sink.buf = <<>>
      BY <1>4, <2>1, <2>3, <2>4, <2>6 DEF Joins
    <3>2. Joins(x, <<>>, x)
      BY <1>2, ConcatEmptySeq DEF Joins, Cells
    <3> QED BY <3>1, <3>2
  <2>7. IsPrefix(w.out, x)
    <3>1. IsPrefix(sink.buf \o r.out, sink.buf \o data)
      BY <1>1, <2>3, JoinGrows DEF Cells
    <3> QED BY <2>1, <2>4, <3>1 DEF Joins
  <2>8. w.sink \in Sinks /\ w.sink.buf = <<>>
    BY <1>4, <2>1, <2>3
  <2> QED BY <2>1, <2>5, <2>6, <2>7, <2>8 DEF w
<1> QED BY <1>3, <1>5, <1>6

--------------------------------------------------------------------------------
(* The exporter.  Emit adds a cell to what was written and what is still   *)
(* in the buffer; when it stops, what is in the file is a prefix of that.  *)

\* Nothing is left to flush behind an empty buffer.
LEMMA FlushNothing ==
  ASSUME NEW sink, sink.buf = <<>>, NEW room
  PROVE  Flush(sink, room).out = <<>>
BY DEF Flush

\* What one write does to the file b, when x has been written so far.
LEMMA PutWrites ==
  ASSUME NEW b \in Cells, NEW sink \in Sinks, NEW data \in Cells, NEW room \in Int, NEW left,
         NEW x, Joins(b, sink.buf, x), NEW y, Joins(x, data, y)
  PROVE  /\ b \o Put(sink, data, room).out \in Cells
         /\ Put(sink, data, room).ok => Joins(b \o Put(sink, data, room).out, Put(sink, data, room).sink.buf, y)
         /\ ~Put(sink, data, room).ok => Flush(Put(sink, data, room).sink, left).out = <<>>
         /\ ~Put(sink, data, room).ok => IsPrefix(b \o Put(sink, data, room).out, y)
<1> DEFINE w == Put(sink, data, room)
           z == sink.buf \o data
           c == b \o w.out
<1>1. sink.buf \in Cells
  BY DEF Sinks
<1>2. Joins(sink.buf, data, z)
  BY DEF Joins
<1>3. z \in Cells
  BY <1>1, <1>2, JoinAt DEF Cells
<1> HIDE DEF z
<1>4. Joins(b, z, y)
  BY <1>1, <1>2, JoinRight DEF Cells
<1>5. /\ w.sink \in Sinks /\ w.out \in Cells
      /\ w.ok => Joins(w.out, w.sink.buf, z)
      /\ ~w.ok => w.sink.buf = <<>> /\ IsPrefix(w.out, z)
  BY <1>2, PutIs
<1> HIDE DEF w
<1>6. c \in Cells /\ Joins(b, w.out, c)
  BY <1>5, ConcatProperties DEF Cells, Joins
<1> HIDE DEF c
<1>7. ASSUME w.ok PROVE Joins(c, w.sink.buf, y)
  <2>1. w.sink.buf \in Cells /\ Joins(w.out, w.sink.buf, z)
    BY <1>5, <1>7 DEF Sinks
  <2> DEFINE u == w.sink.buf
             o == w.out
  <2>2. u \in Cells /\ o \in Cells /\ Joins(o, u, z) /\ Joins(b, o, c)
    BY <1>5, <1>6, <2>1
  <2> HIDE DEF u, o
  <2>3. Joins(c, u, y)
    BY <1>4, <2>2, JoinLeft DEF Cells
  <2> QED BY <2>3 DEF u
<1>8. ASSUME ~w.ok PROVE Flush(w.sink, left).out = <<>> /\ IsPrefix(c, y)
  <2>1. w.sink.buf = <<>> /\ IsPrefix(w.out, z)
    BY <1>5, <1>8
  <2>2. IsPrefix(b \o w.out, b \o z)
    BY <1>3, <1>5, <2>1, JoinGrows DEF Cells
  <2>3. b \o w.out = c /\ b \o z = y
    BY <1>4, <1>6 DEF Joins
  <2> QED BY <2>1, <2>2, <2>3, FlushNothing
<1> QED BY <1>6, <1>7, <1>8 DEF w, c

Exporters ==
  [pc : {"next", "nar", "trailer", "done"}, row : Nat, cells : Cells, hashed : Cells, sink : Sinks,
   exit : {"none", "ok", "failed", "killed"}]

LEMMA ExitedIs ==
  ASSUME NEW exit \in {"none", "ok", "failed", "killed"}
  PROVE  /\ Exited(exit) \in Exporters /\ Exited(exit).pc = "done" /\ Exited(exit).exit = exit
         /\ NewExport \in Exporters /\ NewExport.pc = "next" /\ NewExport.exit = "none"
         /\ NewExport.row = 1 /\ NewExport.sink.buf = <<>>
<1>1. <<>> \in Cells
  BY EmptySeq DEF Cells
<1>2. NewFdSink \in Sinks /\ NewFdSink.buf = <<>>
  BY <1>1 DEF NewFdSink, Sinks
<1> QED BY <1>1, <1>2 DEF Exited, NewExport, Exporter, Exporters

\* One write of the exporter, when x has been written so far and y is what the stream goes on to.
LEMMA EmitIs ==
  ASSUME NEW e \in Exporters, e.sink = exp.sink, exp \in Exporters, bundle \in Cells, setup.space \in Int,
         NEW cell \in Cell, Emit(e, cell),
         NEW x, Joins(bundle, exp.sink.buf, x), NEW y, Joins(x, <<cell>>, y)
  PROVE  /\ bundle' \in Cells
         /\ \/ /\ exp' \in Exporters /\ exp' = [e EXCEPT !.sink = exp'.sink]
               /\ Joins(bundle', exp'.sink.buf, y)
            \/ exp' = Exited("failed") /\ IsPrefix(bundle', y)
<1> DEFINE data == <<cell>>
           w == Put(exp.sink, data, Room)
           left == Room - Len(w.out)
           c == bundle \o w.out
           z == exp.sink.buf \o data
<1>1. exp.sink \in Sinks /\ data \in Cells /\ exp.sink.buf \in Cells
  BY DEF Exporters, Cells, Sinks
<1>2. Room \in Int
  <2>1. Len(bundle) \in Nat BY LenProperties DEF Cells
  <2> QED BY <2>1 DEF Room
<1>3. w.sink \in Sinks
  <2>1. Joins(exp.sink.buf, data, z) BY DEF Joins
  <2> HIDE DEF data, z
  <2> QED BY <1>1, <1>2, <2>1, PutIs
<1>4. /\ c \in Cells
      /\ w.ok => Joins(c, w.sink.buf, y)
      /\ ~w.ok => Flush(w.sink, left).out = <<>> /\ IsPrefix(c, y)
  <2> DEFINE b == bundle
             sink == exp.sink
             room == Room
             p == Put(sink, data, room)
             out == p.out
             o == b \o out
             ok == p.ok
  <2>1. Joins(x, data, y) /\ Joins(b, sink.buf, x) /\ sink \in Sinks /\ data \in Cells /\ room \in Int /\ b \in Cells
    BY <1>1, <1>2
  <2> HIDE DEF data, left, b, sink, room
  <2>2. o \in Cells
    BY <2>1, PutWrites
  <2>3. ok => Joins(o, p.sink.buf, y)
    BY <2>1, PutWrites
  <2>4. ~ok => Flush(p.sink, left).out = <<>>
    BY <2>1, PutWrites
  <2>5. ~ok => IsPrefix(o, y)
    BY <2>1, PutWrites
  <2> QED BY <2>2, <2>3, <2>4, <2>5 DEF b, sink, room
<1> DEFINE e2 == [e EXCEPT !.sink = w.sink]
<1>5. e2 \in Exporters /\ e2.sink = w.sink
  BY <1>3 DEF Exporters
<1>6. IF w.ok THEN exp' = e2 /\ bundle' = c ELSE EndExport(e2, "failed", w.out)
  BY DEF Emit
<1>7. CASE w.ok
  <2>1. exp' = e2 /\ bundle' = c
    BY <1>6, <1>7
  <2>2. exp'.sink = w.sink
    BY <1>5, <2>1
  <2>3. exp' = [e EXCEPT !.sink = exp'.sink]
    <3> HIDE DEF w
    <3> QED BY <2>1, <2>2
  <2>4. Joins(bundle', exp'.sink.buf, y)
    <3>1. Joins(c, w.sink.buf, y) BY <1>4, <1>7
    <3> HIDE DEF w, c, e2
    <3> QED BY <2>1, <2>2, <3>1
  <2> HIDE DEF w, c, e2
  <2> QED BY <1>4, <1>5, <2>1, <2>3, <2>4
<1>8. CASE ~w.ok
  <2>1. exp' = Exited("failed") /\ bundle' = c \o Flush(w.sink, left).out
    BY <1>5, <1>6, <1>8 DEF EndExport
  <2> HIDE DEF w, c, left
  <2>2. bundle' = c
    BY <1>4, <1>8, <2>1, ConcatEmptySeq DEF Cells
  <2> QED BY <1>4, <1>8, <2>1, <2>2
<1> QED BY <1>7, <1>8

Setups ==
  [rot : SUBSET Bases, space : Nat, pipe : BOOLEAN, digest : Samples \cup {CHOOSE d \in Samples : TRUE}]

\* Where the exporter e is when it has written x.
AtMark(rot, e, x) ==
  e.row \in 1 .. Len(Rows) + 1 /\ Intact(rot, e.row - 1) /\ x = Sent[e.row - 1]

InNar(rot, e, x) ==
  /\ e.row \in 1 .. Len(Rows) /\ Intact(rot, e.row - 1)
  /\ Joins(Marked(e.row), e.hashed, x) /\ Joins(e.hashed, e.cells, Dump(Tree(rot, e.row)))

InTrailer(rot, e, x) ==
  e.row \in 1 .. Len(Rows) /\ Intact(rot, e.row) /\ e.cells # <<>> /\ Joins(x, e.cells, Sent[e.row])

Where(rot, e, x) ==
  /\ e.pc = "next" => AtMark(rot, e, x)
  /\ e.pc = "nar" => InNar(rot, e, x)
  /\ e.pc = "trailer" => InTrailer(rot, e, x)

(* While the exporter runs, what is in the file and in its buffer is what  *)
(* it should have written by now; when it has ended, the file is the       *)
(* beginning of the stream, and all of it when it reported success.        *)
ExportInv ==
  /\ setup \in Setups /\ exp \in Exporters /\ bundle \in Cells
  /\ exp.pc # "done" => /\ fault = "none" /\ imp.pc = "idle" /\ exp.exit = "none"
                        /\ Where(setup.rot, exp, bundle \o exp.sink.buf)
  /\ exp.pc = "done" /\ fault \in {"none", "cut"} => IsPrefix(bundle, Stream(setup.rot))
  /\ exp.pc = "done" /\ fault = "none" /\ exp.exit = "ok" => bundle = WholeBundle

\* It has written the beginning of the stream.
LEMMA MarkIsPrefix ==
  ASSUME NEW rot \in SUBSET Bases, NEW e \in Exporters, NEW x, AtMark(rot, e, x)
  PROVE  x \in Cells /\ IsPrefix(x, Stream(rot))
<1>1. e.row - 1 \in 0 .. Len(Rows)
  BY Constants DEF AtMark
<1>2. Intact(rot, e.row - 1) /\ x = Sent[e.row - 1]
  BY DEF AtMark
<1> QED BY <1>1, <1>2, SentOf, StreamAfter

LEMMA NarIsPrefix ==
  ASSUME NEW rot \in SUBSET Bases, NEW e \in Exporters, NEW x, InNar(rot, e, x)
  PROVE  x \in Cells /\ IsPrefix(x, Stream(rot)) /\ Joins(x, e.cells, Packed(rot, e.row))
<1> DEFINE n == e.row
           m == Marked(n)
           h == e.hashed
           c == e.cells
           d == Dump(Tree(rot, n))
           p == Packed(rot, n)
<1>1. n \in 1 .. Len(Rows) /\ Intact(rot, n - 1) /\ Joins(m, h, x) /\ Joins(h, c, d)
  BY DEF InNar
<1>2. h \in Cells /\ c \in Cells
  BY DEF Exporters
<1> HIDE DEF n
<1>3. m \in Cells /\ Joins(m, d, p) /\ p \in Cells
  BY <1>1, MarkedIs, PackedIs
<1>4. IsPrefix(p, Stream(rot)) /\ Stream(rot) \in Cells
  BY <1>1, StreamRow, StreamIs
<1> HIDE DEF m, h, c, d, p
<1>5. x \in Cells
  BY <1>1, <1>2, <1>3, JoinAt DEF Cells
<1>6. Joins(x, c, p)
  BY <1>1, <1>2, <1>3, JoinLeft DEF Cells
<1>7. IsPrefix(x, p)
  BY <1>2, <1>5, <1>6, JoinPrefix DEF Cells
<1>8. IsPrefix(x, Stream(rot))
  BY <1>3, <1>4, <1>5, <1>7, PrefixTrans DEF Cells
<1> QED BY <1>5, <1>6, <1>8 DEF c, p, n

LEMMA TrailerIsPrefix ==
  ASSUME NEW rot \in SUBSET Bases, NEW e \in Exporters, NEW x \in Cells, InTrailer(rot, e, x)
  PROVE  IsPrefix(x, Stream(rot))
<1> DEFINE n == e.row
           c == e.cells
           s == Sent[n]
<1>1. n \in 1 .. Len(Rows) /\ Intact(rot, n) /\ Joins(x, c, s)
  BY DEF InTrailer
<1>2. c \in Cells
  BY DEF Exporters
<1> HIDE DEF n
<1>3. n \in 0 .. Len(Rows)
  BY <1>1, Constants
<1>4. s \in Cells /\ IsPrefix(s, Stream(rot)) /\ Stream(rot) \in Cells
  BY <1>1, <1>3, SentOf, StreamAfter, StreamIs
<1> HIDE DEF c, s
<1>5. IsPrefix(x, s)
  BY <1>1, <1>2, JoinPrefix DEF Cells
<1> QED BY <1>4, <1>5, PrefixTrans DEF Cells

LEMMA WhereIsPrefix ==
  ASSUME NEW rot \in SUBSET Bases, NEW e \in Exporters, e.pc # "done", NEW x \in Cells, Where(rot, e, x)
  PROVE  IsPrefix(x, Stream(rot))
<1>1. CASE e.pc = "next"
  BY <1>1, MarkIsPrefix DEF Where
<1>2. CASE e.pc = "nar"
  BY <1>2, NarIsPrefix DEF Where
<1>3. CASE e.pc = "trailer"
  BY <1>3, TrailerIsPrefix DEF Where
<1> QED BY <1>1, <1>2, <1>3 DEF Exporters

\* The exporter goes on, or it stops.
LEMMA ExportGoesOn ==
  ASSUME ExportInv, exp.pc # "done", UNCHANGED ImportSide, bundle' \in Cells,
         exp' \in Exporters, exp'.pc # "done", exp'.exit = "none",
         NEW y, Joins(bundle', exp'.sink.buf, y), Where(setup.rot, exp', y)
  PROVE  ExportInv'
<1>1. setup' = setup /\ fault' = fault /\ imp' = imp
  BY DEF ImportSide
<1>2. Where(setup.rot, exp', bundle' \o exp'.sink.buf)
  BY DEF Joins
<1> QED BY <1>1, <1>2 DEF ExportInv

LEMMA ExportStops ==
  ASSUME ExportInv, UNCHANGED ImportSide, bundle' \in Cells, exp' \in Exporters, exp'.pc = "done",
         IsPrefix(bundle', Stream(setup.rot)), exp'.exit = "ok" => bundle' = WholeBundle
  PROVE  ExportInv'
<1>1. setup' = setup /\ fault' = fault /\ imp' = imp
  BY DEF ImportSide
<1> QED BY <1>1 DEF ExportInv

\* What the exporter knows while it runs.
LEMMA Exporting ==
  ASSUME ExportInv, exp.pc # "done"
  PROVE  /\ setup \in Setups /\ setup.rot \in SUBSET Bases /\ setup.space \in Int
         /\ exp \in Exporters /\ exp.sink \in Sinks /\ exp.sink.buf \in Cells /\ bundle \in Cells
         /\ bundle \o exp.sink.buf \in Cells /\ Joins(bundle, exp.sink.buf, bundle \o exp.sink.buf)
         /\ Where(setup.rot, exp, bundle \o exp.sink.buf)
         /\ IsPrefix(bundle \o exp.sink.buf, Stream(setup.rot))
         /\ IsPrefix(bundle, bundle \o exp.sink.buf) /\ exp.exit = "none"
<1>1. /\ setup \in Setups /\ exp \in Exporters /\ bundle \in Cells
      /\ Where(setup.rot, exp, bundle \o exp.sink.buf) /\ exp.exit = "none"
  BY DEF ExportInv
<1>2. setup.rot \in SUBSET Bases /\ setup.space \in Int /\ exp.sink \in Sinks /\ exp.sink.buf \in Cells
  BY <1>1 DEF Setups, Exporters, Sinks
<1> DEFINE b == exp.sink.buf
           x == bundle \o b
<1>3. Joins(bundle, b, x)
  BY DEF Joins
<1>4. b \in Cells /\ Where(setup.rot, exp, x)
  BY <1>1, <1>2
<1> HIDE DEF b, x
<1>5. x \in Cells /\ IsPrefix(bundle, x)
  BY <1>1, <1>3, <1>4, JoinAt, JoinPrefix DEF Cells
<1>6. IsPrefix(x, Stream(setup.rot))
  BY <1>1, <1>2, <1>4, <1>5, WhereIsPrefix
<1> QED BY <1>1, <1>2, <1>3, <1>5, <1>6 DEF b, x

\* A write that takes the exporter from x to y, which is in the stream, keeps the invariant.
LEMMA EmitKeeps ==
  ASSUME ExportInv, exp.pc # "done", UNCHANGED ImportSide,
         NEW e \in Exporters, e.sink = exp.sink, e.pc # "done", e.exit = "none",
         NEW cell \in Cell, Emit(e, cell),
         NEW y \in Cells, Joins(bundle \o exp.sink.buf, <<cell>>, y), IsPrefix(y, Stream(setup.rot)),
         \A s \in Sinks : Where(setup.rot, [e EXCEPT !.sink = s], y)
  PROVE  ExportInv'
<1> DEFINE x == bundle \o exp.sink.buf
           rot == setup.rot
<1>1. /\ exp \in Exporters /\ bundle \in Cells /\ setup.space \in Int /\ rot \in SUBSET Bases
      /\ Joins(bundle, exp.sink.buf, x) /\ Joins(x, <<cell>>, y)
  BY Exporting
<1> HIDE DEF x
<1>2. /\ bundle' \in Cells
      /\ \/ /\ exp' \in Exporters /\ exp' = [e EXCEPT !.sink = exp'.sink]
            /\ Joins(bundle', exp'.sink.buf, y)
         \/ exp' = Exited("failed") /\ IsPrefix(bundle', y)
  BY <1>1, EmitIs
<1>3. CASE exp' \in Exporters /\ exp' = [e EXCEPT !.sink = exp'.sink] /\ Joins(bundle', exp'.sink.buf, y)
  <2>1. exp'.pc = e.pc /\ exp'.exit = e.exit
    BY <1>3 DEF Exporters
  <2>2. Where(rot, exp', y)
    <3>1. exp'.sink \in Sinks BY <1>3 DEF Exporters
    <3> QED BY <1>3, <3>1
  <2> QED BY <1>2, <1>3, <2>1, <2>2, ExportGoesOn
<1>4. CASE exp' = Exited("failed") /\ IsPrefix(bundle', y)
  <2>1. exp' \in Exporters /\ exp'.pc = "done" /\ exp'.exit = "failed"
    BY <1>4, ExitedIs
  <2>2. IsPrefix(bundle', Stream(rot))
    <3>1. Stream(rot) \in Cells BY <1>1, StreamIs
    <3> HIDE DEF rot
    <3> QED BY <1>2, <1>4, <3>1, PrefixTrans DEF Cells, rot
  <2> QED BY <1>2, <2>1, <2>2, ExportStops
<1> QED BY <1>2, <1>3, <1>4

LEMMA ExportNextKeeps ==
  ASSUME ExportInv, ExportNext
  PROVE  ExportInv'
<1> DEFINE n == exp.row
           rot == setup.rot
           x == bundle \o exp.sink.buf
           y == Marked(n)
           cell == Num(1)
           d == Dump(Tree(rot, n))
           e == [exp EXCEPT !.pc = "nar", !.cells = d, !.hashed = <<>>]
<1>1. exp.pc = "next" /\ n <= Len(Rows) /\ Emit(e, cell) /\ UNCHANGED ImportSide
  BY DEF ExportNext, MoreRows, Dump, Tree
<1>2. exp \in Exporters /\ rot \in SUBSET Bases /\ Where(rot, exp, x)
  BY <1>1, Exporting
<1> HIDE DEF x
<1>3. n \in 1 .. Len(Rows) /\ Intact(rot, n - 1) /\ x = Sent[n - 1]
  BY <1>1, <1>2, Constants DEF Where, AtMark
<1> HIDE DEF n
<1>4. d \in Cells /\ <<>> \in Cells /\ cell \in Cell
  BY <1>3, PackedIs, Constants, EmptySeq DEF Cells
<1>5. y \in Cells /\ Joins(x, <<cell>>, y)
  BY <1>3, MarkedIs
<1>6. IsPrefix(y, Stream(rot))
  <2> DEFINE p == Packed(rot, n)
  <2>1. p \in Cells /\ Joins(y, d, p)
    BY <1>3, PackedIs
  <2>2. IsPrefix(p, Stream(rot)) /\ Stream(rot) \in Cells
    BY <1>2, <1>3, StreamRow, StreamIs
  <2> HIDE DEF p, y, d
  <2>3. IsPrefix(y, p)
    BY <1>4, <1>5, <2>1, JoinPrefix DEF Cells
  <2> HIDE DEF rot
  <2> QED BY <1>5, <2>1, <2>2, <2>3, PrefixTrans DEF Cells
<1>7. e \in Exporters /\ e.sink = exp.sink /\ e.pc = "nar" /\ e.exit = "none"
  <2> HIDE DEF d
  <2>1. exp.exit = "none" BY <1>1, Exporting
  <2> QED BY <1>2, <1>4, <2>1 DEF Exporters
<1>8. ASSUME NEW s \in Sinks PROVE Where(rot, [e EXCEPT !.sink = s], y)
  <2> DEFINE q == [e EXCEPT !.sink = s]
  <2>1. q.pc = "nar" /\ q.row = n /\ q.hashed = <<>> /\ q.cells = d
    <3> HIDE DEF d
    <3> QED BY <1>2 DEF Exporters, n
  <2>2. Joins(y, <<>>, y) /\ Joins(<<>>, d, d)
    <3> HIDE DEF d, y
    <3> QED BY <1>4, <1>5, ConcatEmptySeq DEF Joins, Cells
  <2> HIDE DEF q
  <2>3. InNar(rot, q, y)
    BY <1>3, <2>1, <2>2 DEF InNar
  <2> QED BY <2>1, <2>3 DEF Where, q
<1> HIDE DEF e, y, cell
<1> QED BY <1>1, <1>4, <1>5, <1>6, <1>7, <1>8, EmitKeeps DEF x

LEMMA ExportNarKeeps ==
  ASSUME ExportInv, ExportNar
  PROVE  ExportInv'
<1> DEFINE n == exp.row
           rot == setup.rot
           x == bundle \o exp.sink.buf
           h == exp.hashed
           c == exp.cells
           cell == Head(c)
           h2 == Append(h, cell)
           c2 == Tail(c)
           y == x \o <<cell>>
           m == Marked(n)
           d == Dump(Tree(rot, n))
           e == [exp EXCEPT !.cells = c2, !.hashed = h2]
<1>1. exp.pc = "nar" /\ c # <<>> /\ UNCHANGED ImportSide
  BY DEF ExportNar
<1>2. exp \in Exporters /\ rot \in SUBSET Bases /\ Where(rot, exp, x) /\ x \in Cells
  BY <1>1, Exporting
<1>3. Emit(e, cell)
  <2>1. [exp EXCEPT !.cells = Tail(@), !.hashed = Append(@, Head(exp.cells))] = e
    BY <1>2 DEF Exporters
  <2> QED BY <2>1 DEF ExportNar
<1>4. h \in Cells /\ c \in Cells
  BY <1>2 DEF Exporters
<1> HIDE DEF x
<1>5. n \in 1 .. Len(Rows) /\ Intact(rot, n - 1) /\ Joins(m, h, x) /\ Joins(h, c, d)
  BY <1>1, <1>2 DEF Where, InNar
<1> HIDE DEF n
<1>6. m \in Cells
  BY <1>5, MarkedIs
<1> HIDE DEF m, d, h, c
<1>7. cell \in Cell /\ c2 \in Cells
  BY <1>1, <1>4, HeadTailProperties DEF Cells
<1>8. h2 = h \o <<cell>> /\ h2 \in Cells
  BY <1>4, <1>7, AppendIsConcat, AppendProperties DEF Cells
<1>9. Joins(h2, c2, d)
  <2>1. Joins(h \o <<Head(c)>>, Tail(c), d)
    BY <1>1, <1>4, <1>5, JoinHead DEF Cells
  <2> QED BY <1>8, <2>1
<1>10. <<cell>> \in Cells /\ Joins(x, <<cell>>, y) /\ Joins(h, <<cell>>, h2)
  <2> HIDE DEF cell, h2
  <2> QED BY <1>7, <1>8 DEF Cells, Joins
<1> DEFINE w == <<cell>>
<1> HIDE DEF cell, h2, c2
<1>11. y \in Cells
  <2>1. w \in Cells /\ Joins(x, w, y) BY <1>10
  <2> HIDE DEF w, y
  <2> QED BY <1>2, <2>1, JoinAt DEF Cells
<1>12. Joins(m, h2, y)
  <2>1. w \in Cells /\ Joins(x, w, y) /\ Joins(h, w, h2) BY <1>10
  <2> HIDE DEF w, y
  <2> QED BY <1>4, <1>5, <1>6, <2>1, JoinRight DEF Cells
<1> HIDE DEF y
<1>13. e \in Exporters /\ e.sink = exp.sink /\ e.pc = "nar" /\ e.exit = "none" /\ e.hashed = h2 /\ e.cells = c2 /\ e.row = n
  <2>1. exp.exit = "none" BY <1>1, Exporting
  <2> QED BY <1>1, <1>2, <1>7, <1>8, <2>1 DEF Exporters, n
<1>14. InNar(rot, e, y)
  <2> HIDE DEF e
  <2> QED BY <1>5, <1>9, <1>12, <1>13 DEF InNar, m, d
<1>15. IsPrefix(y, Stream(rot))
  <2> HIDE DEF e
  <2> QED BY <1>2, <1>13, <1>14, NarIsPrefix
<1>16. ASSUME NEW s \in Sinks PROVE Where(rot, [e EXCEPT !.sink = s], y)
  <2> DEFINE q == [e EXCEPT !.sink = s]
  <2>1. q.pc = "nar" /\ q.row = e.row /\ q.hashed = e.hashed /\ q.cells = e.cells
    <3> HIDE DEF e
    <3> QED BY <1>13 DEF Exporters
  <2> HIDE DEF q, e
  <2>2. InNar(rot, q, y)
    BY <1>14, <2>1 DEF InNar
  <2> QED BY <2>1, <2>2 DEF Where, q
<1> HIDE DEF e
<1> QED BY <1>1, <1>3, <1>7, <1>10, <1>11, <1>13, <1>15, <1>16, EmitKeeps DEF x

\* The process ends and writes at most what its buffer held.
LEMMA EndKeeps ==
  ASSUME ExportInv, exp.pc # "done", UNCHANGED ImportSide, EndExport(exp, "failed", <<>>)
  PROVE  ExportInv'
<1> DEFINE b == exp.sink.buf
           x == bundle \o b
           room == Room - Len(<<>>)
           f == Flush(exp.sink, room).out
           rot == setup.rot
<1>1. /\ exp.sink \in Sinks /\ b \in Cells /\ bundle \in Cells /\ x \in Cells /\ IsPrefix(x, Stream(rot))
      /\ setup.space \in Int /\ rot \in SUBSET Bases
  BY Exporting
<1>2. room \in Int
  <2>1. Len(bundle) \in Nat BY <1>1, LenProperties DEF Cells
  <2>2. Len(<<>>) \in Nat OBVIOUS
  <2> QED BY <1>1, <2>1, <2>2 DEF Room
<1>3. exp' = Exited("failed") /\ bundle' = (bundle \o <<>>) \o f
  BY DEF EndExport
<1>4. bundle \o <<>> = bundle
  BY <1>1, ConcatEmptySeq DEF Cells
<1> HIDE DEF room
<1>5. f \in Cells /\ IsPrefix(f, b)
  BY <1>1, <1>2, FlushIs
<1> HIDE DEF f, b
<1>6. bundle' = bundle \o f
  BY <1>3, <1>4
<1>7. bundle' \in Cells
  BY <1>1, <1>5, <1>6, ConcatProperties DEF Cells
<1>8. IsPrefix(bundle', x)
  BY <1>1, <1>5, <1>6, JoinGrows DEF Cells
<1>9. Stream(rot) \in Cells
  BY <1>1, StreamIs
<1> HIDE DEF x
<1>10. IsPrefix(bundle', Stream(rot))
  BY <1>1, <1>7, <1>8, <1>9, PrefixTrans DEF Cells
<1>11. exp' \in Exporters /\ exp'.pc = "done" /\ exp'.exit = "failed"
  BY <1>3, ExitedIs
<1> QED BY <1>7, <1>10, <1>11, ExportStops

LEMMA KillExportKeeps ==
  ASSUME ExportInv, KillExport
  PROVE  ExportInv'
<1> DEFINE x == bundle \o exp.sink.buf
           rot == setup.rot
<1>1. exp.pc # "done" /\ exp' = Exited("killed") /\ bundle' = bundle /\ UNCHANGED ImportSide
  BY DEF KillExport, ImportSide
<1>2. bundle \in Cells /\ x \in Cells /\ IsPrefix(x, Stream(rot)) /\ IsPrefix(bundle, x) /\ rot \in SUBSET Bases
  BY <1>1, Exporting
<1> HIDE DEF x
<1>3. IsPrefix(bundle', Stream(rot))
  BY <1>1, <1>2, StreamIs, PrefixTrans DEF Cells
<1>4. exp' \in Exporters /\ exp'.pc = "done" /\ exp'.exit = "killed"
  BY <1>1, ExitedIs
<1> QED BY <1>1, <1>2, <1>3, <1>4, ExportStops

\* The comparison with the row lets no rotten path through.
LEMMA ExportCheckKeeps ==
  ASSUME ExportInv, ExportCheck
  PROVE  ExportInv'
<1> DEFINE n == exp.row
           rot == setup.rot
           x == bundle \o exp.sink.buf
           d == Dump(Tree(rot, n))
           t == Trailer(Rows[n].base)
           e == [exp EXCEPT !.pc = "trailer", !.cells = t]
<1>1. exp.pc = "nar" /\ exp.cells = <<>> /\ UNCHANGED ImportSide
  BY DEF ExportCheck
<1>2. /\ exp \in Exporters /\ rot \in SUBSET Bases /\ Where(rot, exp, x) /\ x \in Cells /\ exp.exit = "none"
      /\ Joins(bundle, exp.sink.buf, x) /\ bundle \in Cells
  BY <1>1, Exporting
<1>3. CASE NarHash(exp.hashed) # Rows[n].hash
  <2>1. EndExport(exp, "failed", <<>>)
    BY <1>3 DEF ExportCheck
  <2> QED BY <1>1, <2>1, EndKeeps
<1>4. CASE NarHash(exp.hashed) = Rows[n].hash
  <2>1. exp' = e /\ bundle' = bundle
    BY <1>4 DEF ExportCheck
  <2> HIDE DEF x
  <2>2. n \in 1 .. Len(Rows) /\ Intact(rot, n - 1) /\ Joins(exp.hashed, exp.cells, d) /\ InNar(rot, exp, x)
    BY <1>1, <1>2 DEF Where, InNar
  <2>3. exp.hashed = d
    <3>1. exp.hashed \in Cells BY <1>2 DEF Exporters
    <3>2. exp.hashed \o <<>> = exp.hashed BY <3>1, ConcatEmptySeq DEF Cells
    <3> HIDE DEF d
    <3> QED BY <1>1, <2>2, <3>2 DEF Joins
  <2>4. Rows[n].base \notin rot
    <3> SUFFICES ASSUME Rows[n].base \in rot PROVE FALSE
      OBVIOUS
    <3>1. d = Archive(Rotten(Rows[n].tree)).cells
      BY DEF Tree, Dump
    <3>2. Rows[n] \in Exported
      BY <2>2, RowIs
    <3>3. Rows[n].hash # NarHash(Archive(Rotten(Rows[n].tree)).cells)
      BY <3>2, RowsAssumption
    <3> QED BY <1>4, <2>3, <3>1, <3>3
  <2>5. Intact(rot, n)
    <3>1. ASSUME NEW k \in 1 .. n PROVE Rows[k].base \notin rot
      <4>1. k = n \/ k \in 1 .. n - 1 BY <2>2, Constants
      <4> QED BY <2>2, <2>4, <4>1 DEF Intact
    <3> QED BY <3>1 DEF Intact
  <2>6. x = Packed(rot, n)
    <3>1. Joins(x, exp.cells, Packed(rot, n)) BY <1>2, <2>2, NarIsPrefix
    <3>2. x \o <<>> = x BY <1>2, ConcatEmptySeq DEF Cells
    <3> QED BY <1>1, <3>1, <3>2 DEF Joins
  <2>7. Joins(x, t, Sent[n]) /\ t \in Cells /\ t # <<>>
    <3>1. t \in Cells /\ Len(t) = 3 BY <2>2, TrailerIs
    <3>2. t # <<>> BY <3>1
    <3> QED BY <2>2, <2>4, <2>6, <3>1, <3>2, PackedIsSent
  <2> HIDE DEF t
  <2>8. /\ e \in Exporters /\ e.pc = "trailer" /\ e.cells = t /\ e.row = n /\ e.exit = "none"
        /\ e.sink = exp.sink
    BY <1>2, <2>7 DEF Exporters
  <2> HIDE DEF e
  <2>9. InTrailer(rot, e, x)
    <3> HIDE DEF n
    <3> QED BY <2>2, <2>5, <2>7, <2>8 DEF InTrailer
  <2>10. Where(rot, e, x)
    BY <2>8, <2>9 DEF Where
  <2> QED BY <1>1, <1>2, <2>1, <2>8, <2>10, ExportGoesOn
<1> QED BY <1>3, <1>4

LEMMA ExportTrailerKeeps ==
  ASSUME ExportInv, ExportTrailer
  PROVE  ExportInv'
<1> DEFINE n == exp.row
           rot == setup.rot
           x == bundle \o exp.sink.buf
           c == exp.cells
           cell == Head(c)
           c2 == Tail(c)
           y == x \o <<cell>>
           s == Sent[n]
           last == Len(c) = 1
           pc2 == IF last THEN "next" ELSE "trailer"
           n2 == IF last THEN n + 1 ELSE n
           e == [exp EXCEPT !.cells = c2, !.pc = pc2, !.row = n2]
<1>1. exp.pc = "trailer" /\ UNCHANGED ImportSide
  BY DEF ExportTrailer
<1>2. exp \in Exporters /\ rot \in SUBSET Bases /\ Where(rot, exp, x) /\ x \in Cells /\ exp.exit = "none"
  BY <1>1, Exporting
<1>3. Emit(e, cell)
  <2>1. [exp EXCEPT !.cells = Tail(@), !.pc = IF Len(exp.cells) = 1 THEN "next" ELSE @,
                    !.row = IF Len(exp.cells) = 1 THEN @ + 1 ELSE @] = e
    BY <1>1, <1>2 DEF Exporters
  <2> QED BY <2>1 DEF ExportTrailer
<1>4. c \in Cells
  BY <1>2 DEF Exporters
<1> HIDE DEF x
<1>5. n \in 1 .. Len(Rows) /\ Intact(rot, n) /\ c # <<>> /\ Joins(x, c, s)
  BY <1>1, <1>2 DEF Where, InTrailer
<1>6. cell \in Cell /\ c2 \in Cells /\ Len(c2) = Len(c) - 1 /\ Joins(y, c2, s) /\ y \in Cells
  <2> HIDE DEF s, n
  <2>1. /\ Head(c) \in Cell /\ Tail(c) \in Seq(Cell) /\ Len(Tail(c)) = Len(c) - 1
        /\ Joins(x \o <<Head(c)>>, Tail(c), s) /\ x \o <<Head(c)>> \in Seq(Cell)
    <3> HIDE DEF c
    <3> QED BY <1>2, <1>4, <1>5, JoinHead DEF Cells
  <2> QED BY <2>1 DEF Cells
<1>7. Joins(x, <<cell>>, y)
  BY DEF Joins
<1> HIDE DEF cell, c2, y
<1>8. /\ e \in Exporters /\ e.sink = exp.sink /\ e.exit = "none" /\ e.cells = c2 /\ e.hashed = exp.hashed
      /\ e.pc = pc2 /\ e.row = n2
  <2>1. n \in Nat /\ n + 1 \in Nat BY <1>5, Constants
  <2>2. n2 \in Nat BY <2>1
  <2>3. pc2 \in {"next", "trailer"} OBVIOUS
  <2> HIDE DEF n2, pc2
  <2> QED BY <1>1, <1>2, <1>6, <2>2, <2>3 DEF Exporters
<1>9. Len(c) \in Nat /\ Len(c2) \in Nat
  BY <1>4, <1>6, LenProperties DEF Cells
<1>10. last => AtMark(rot, e, y)
  <2> SUFFICES ASSUME last PROVE AtMark(rot, e, y)
    OBVIOUS
  <2>1. c2 = <<>>
    BY <1>6, <1>9, EmptySeq DEF Cells
  <2>2. y = s
    <3>1. y \o <<>> = y BY <1>6, ConcatEmptySeq DEF Cells
    <3> QED BY <1>6, <2>1, <3>1 DEF Joins
  <2>3. e.row = n + 1
    BY <1>8
  <2> HIDE DEF e
  <2>4. e.row \in 1 .. Len(Rows) + 1 /\ e.row - 1 = n
    <3> HIDE DEF n
    <3> QED BY <1>5, <2>3, Constants
  <2> QED BY <1>5, <2>2, <2>4 DEF AtMark
<1>11. ~last => InTrailer(rot, e, y)
  <2> SUFFICES ASSUME ~last PROVE InTrailer(rot, e, y)
    OBVIOUS
  <2>1. c2 # <<>>
    <3>1. Len(c) # 0 BY <1>4, <1>5, EmptySeq DEF Cells
    <3>2. Len(c2) # 0 BY <1>6, <1>9, <3>1
    <3> QED BY <3>2
  <2>2. e.row = n /\ e.cells = c2
    BY <1>8
  <2> HIDE DEF e, s
  <2>3. e.row \in 1 .. Len(Rows) /\ Intact(rot, e.row) /\ e.cells # <<>> /\ Joins(y, e.cells, s)
    BY <1>5, <1>6, <2>1, <2>2
  <2> QED BY <2>2, <2>3 DEF InTrailer, s
<1>12. Where(rot, e, y) /\ e.pc # "done"
  <2>1. e.pc = (IF last THEN "next" ELSE "trailer")
    BY <1>8
  <2> HIDE DEF e, last
  <2> QED BY <1>10, <1>11, <2>1 DEF Where
<1>13. IsPrefix(y, Stream(rot))
  <2> HIDE DEF e, rot
  <2> QED BY <1>2, <1>6, <1>8, <1>12, WhereIsPrefix DEF rot
<1>14. ASSUME NEW k \in Sinks PROVE Where(rot, [e EXCEPT !.sink = k], y)
  <2> DEFINE q == [e EXCEPT !.sink = k]
  <2>1. q.pc = e.pc /\ q.row = e.row /\ q.hashed = e.hashed /\ q.cells = e.cells
    <3> HIDE DEF e
    <3> QED BY <1>8 DEF Exporters
  <2> HIDE DEF q, e
  <2> QED BY <1>12, <2>1 DEF Where, AtMark, InNar, InTrailer, q
<1> HIDE DEF e
<1> QED BY <1>1, <1>3, <1>6, <1>7, <1>8, <1>12, <1>13, <1>14, EmitKeeps DEF x

LEMMA ExportEndKeeps ==
  ASSUME ExportInv, ExportEnd
  PROVE  ExportInv'
<1> DEFINE n == exp.row
           rot == setup.rot
           x == bundle \o exp.sink.buf
           data == <<Num(0)>>
           y == WholeBundle
           sink == exp.sink
           w == Put(sink, data, Room)
           left == Room - Len(w.out)
           f == Flush(w.sink, left)
           ok == w.ok /\ f.ok
           out == IF w.ok THEN w.out \o f.out ELSE w.out
           last == IF w.ok THEN f.sink ELSE w.sink
           e == [exp EXCEPT !.sink = last]
           exit == IF ok THEN "ok" ELSE "failed"
           b == bundle
           c == b \o w.out
<1>2. exp.pc = "next" /\ ~(n <= Len(Rows)) /\ UNCHANGED ImportSide /\ EndExport(e, exit, out)
  BY DEF ExportEnd, MoreRows
<1>3. /\ exp \in Exporters /\ rot \in SUBSET Bases /\ Where(rot, exp, x) /\ x \in Cells
      /\ sink \in Sinks /\ Joins(b, sink.buf, x) /\ b \in Cells /\ setup.space \in Int
  BY <1>2, Exporting
<1> HIDE DEF x
<1>4. n - 1 = Len(Rows) /\ Intact(rot, n - 1) /\ x = Sent[n - 1]
  BY <1>2, <1>3, Constants DEF Where, AtMark
<1>5. Joins(x, data, y) /\ data \in Cells /\ y \in Cells
  BY <1>4, WholeIs
<1>6. Stream(rot) = y
  BY <1>3, <1>4, StreamIntact
<1>7. Room \in Int
  <2>1. Len(bundle) \in Nat BY <1>3, LenProperties DEF Cells
  <2> QED BY <1>3, <2>1 DEF Room
<1> DEFINE room == Room
<1>8. w.sink \in Sinks /\ w.out \in Cells
  <2> DEFINE z == sink.buf \o data
  <2>1. Joins(sink.buf, data, z) BY DEF Joins
  <2> HIDE DEF data, z
  <2> QED BY <1>3, <1>5, <1>7, <2>1, PutIs
<1>9. /\ c \in Cells
      /\ w.ok => Joins(c, w.sink.buf, y)
      /\ ~w.ok => Flush(w.sink, left).out = <<>>
      /\ ~w.ok => IsPrefix(c, y)
  <2> DEFINE p == Put(sink, data, room)
             o == b \o p.out
             k == p.ok
  <2>1. room \in Int BY <1>7
  <2> HIDE DEF data, left, sink, room, b
  <2>2. o \in Cells
    BY <1>3, <1>5, <2>1, PutWrites
  <2>3. k => Joins(o, p.sink.buf, y)
    BY <1>3, <1>5, <2>1, PutWrites
  <2>4. ~k => Flush(p.sink, left).out = <<>>
    BY <1>3, <1>5, <2>1, PutWrites
  <2>5. ~k => IsPrefix(o, y)
    BY <1>3, <1>5, <2>1, PutWrites
  <2> QED BY <2>2, <2>3, <2>4, <2>5 DEF room
<1>10. left \in Int
  <2> HIDE DEF w
  <2>1. Len(w.out) \in Nat BY <1>8, LenProperties DEF Cells
  <2> QED BY <1>7, <2>1
<1>11. e.sink = last
  BY <1>3 DEF Exporters
<1>12. exp' = Exited(exit) /\ bundle' = (b \o out) \o Flush(last, Room - Len(out)).out
  <2> HIDE DEF last, exit, out
  <2> QED BY <1>2, <1>11 DEF EndExport
<1>13. exit \in {"none", "ok", "failed", "killed"} /\ (exit = "ok" <=> ok)
  OBVIOUS
<1> DEFINE rest == Flush(last, Room - Len(out)).out
<1>14. CASE w.ok
  <2>1. /\ f.sink.buf = <<>> /\ f.out \in Cells /\ IsPrefix(f.out, w.sink.buf)
        /\ f.ok => f.out = w.sink.buf
    <3> HIDE DEF w, left
    <3> QED BY <1>8, <1>10, FlushIs
  <2>2. out = w.out \o f.out /\ last = f.sink
    BY <1>14
  <2>3. rest = <<>>
    <3>1. last.buf = <<>> BY <2>1, <2>2
    <3> HIDE DEF last, out
    <3> QED BY <3>1, FlushNothing
  <2>4. w.sink.buf \in Cells
    BY <1>8 DEF Sinks
  <2> DEFINE u == w.out
             v == f.out
             g == c \o v
             uv == u \o v
  <2>5. u \in Cells /\ v \in Cells /\ Joins(b, u, c) /\ Joins(c, v, g) /\ Joins(u, v, uv)
    BY <1>8, <2>1 DEF Joins
  <2>6. g \in Cells
    <3> HIDE DEF u, v, g, c
    <3> QED BY <1>9, <2>5, JoinAt DEF Cells
  <2>7. Joins(b, uv, g)
    <3> HIDE DEF u, v, g, c, uv, b
    <3> QED BY <1>3, <2>5, JoinRight DEF Cells
  <2>8. bundle' = (b \o uv) \o <<>>
    <3> HIDE DEF b, last
    <3> QED BY <1>12, <2>2, <2>3
  <2>9. bundle' = g
    <3> HIDE DEF g, uv, b
    <3>1. g \o <<>> = g BY <2>6, ConcatEmptySeq DEF Cells
    <3> QED BY <2>7, <2>8, <3>1 DEF Joins
  <2>10. IsPrefix(g, y) /\ (f.ok => g = y)
    <3>1. c \o w.sink.buf = y BY <1>9, <1>14 DEF Joins
    <3>2. f.ok => g = y BY <2>1, <3>1
    <3> HIDE DEF c, w, f
    <3>3. IsPrefix(c \o v, c \o w.sink.buf) BY <1>9, <2>1, <2>4, JoinGrows DEF Cells
    <3> QED BY <3>1, <3>2, <3>3
  <2>11. exp' \in Exporters /\ exp'.pc = "done" /\ exp'.exit = exit
    <3> HIDE DEF exit
    <3> QED BY <1>12, <1>13, ExitedIs
  <2> HIDE DEF g, y, w, f, exit
  <2>12. bundle' \in Cells /\ IsPrefix(bundle', Stream(rot)) /\ (exp'.exit = "ok" => bundle' = y)
    BY <1>6, <1>13, <2>6, <2>9, <2>10, <2>11
  <2> QED BY <1>2, <2>11, <2>12, ExportStops DEF y
<1>15. CASE ~w.ok
  <2>1. out = w.out /\ last = w.sink /\ exit = "failed"
    BY <1>15
  <2>2. rest = <<>>
    <3>1. rest = Flush(w.sink, left).out BY <2>1
    <3> QED BY <1>9, <1>15, <3>1
  <2>3. bundle' = c \o <<>>
    <3> HIDE DEF last, w
    <3> QED BY <1>12, <2>1, <2>2
  <2> HIDE DEF c, w, y, exit
  <2>4. bundle' = c
    BY <1>9, <2>3, ConcatEmptySeq DEF Cells
  <2>5. exp' \in Exporters /\ exp'.pc = "done" /\ exp'.exit = "failed"
    BY <1>12, <1>13, <2>1, ExitedIs
  <2>6. bundle' \in Cells /\ IsPrefix(bundle', Stream(rot))
    BY <1>6, <1>9, <1>15, <2>4
  <2> QED BY <1>2, <2>5, <2>6, ExportStops
<1> QED BY <1>14, <1>15

LEMMA ExportInvStarts ==
  ASSUME Init
  PROVE  ExportInv
<1>1. <<>> \in Cells /\ <<>> \o <<>> = <<>>
  BY EmptySeq, ConcatEmptySeq DEF Cells
<1>2. imp.pc = "idle"
  BY DEF Init, Idle, NewImport
<1>3. CASE /\ setup \in [rot : SUBSET {e.base : e \in Exported}, space : Space, pipe : BOOLEAN,
                         digest : {CHOOSE d \in Samples : TRUE}]
           /\ exp = NewExport /\ bundle = <<>> /\ fault = "none"
  <2>1. setup \in Setups
    BY <1>3, BoundsAssumption DEF Setups, Bases
  <2>2. exp \in Exporters /\ exp.pc = "next" /\ exp.exit = "none" /\ exp.row = 1 /\ exp.sink.buf = <<>>
    BY <1>3, ExitedIs
  <2>3. AtMark(setup.rot, exp, <<>>)
    <3>1. Sent[0] = <<>> BY SentIs
    <3>2. Len(Rows) \in Nat BY Constants
    <3> QED BY <2>2, <3>1, <3>2 DEF AtMark, Intact
  <2>4. Where(setup.rot, exp, bundle \o exp.sink.buf)
    BY <1>1, <1>3, <2>2, <2>3 DEF Where
  <2> QED BY <1>1, <1>2, <1>3, <2>1, <2>2, <2>4 DEF ExportInv
<1>4. CASE /\ bundle \in ForeignBundles \cup {<<>>} /\ fault = "foreign"
           /\ setup \in [rot : {{}}, space : {0}, pipe : {FALSE},
                         digest : IF bundle = <<>> THEN Samples ELSE {CHOOSE d \in Samples : TRUE}]
           /\ exp = Exited("none")
  <2> DEFINE D == IF bundle = <<>> THEN Samples ELSE {CHOOSE d \in Samples : TRUE}
             E == Samples \cup {CHOOSE d \in Samples : TRUE}
  <2>1. D \subseteq E /\ Setups = [rot : SUBSET Bases, space : Nat, pipe : BOOLEAN, digest : E]
    BY DEF Setups
  <2>2. setup \in [rot : {{}}, space : {0}, pipe : {FALSE}, digest : D]
    BY <1>4
  <2>3. setup \in Setups
    <3> DEFINE A == {{}}
               B == {0}
               C == {FALSE}
               F == BOOLEAN
    <3>1. A \subseteq SUBSET Bases /\ B \subseteq Nat /\ C \subseteq F
      OBVIOUS
    <3>2. setup \in [rot : A, space : B, pipe : C, digest : D]
      BY <2>2
    <3>3. Setups = [rot : SUBSET Bases, space : Nat, pipe : F, digest : E]
      BY <2>1
    <3> HIDE DEF A, B, C, D, E, F
    <3> QED BY <2>1, <3>1, <3>2, <3>3
  <2>4. bundle \in Cells
    BY <1>1, <1>4, Constants
  <2>5. exp \in Exporters /\ exp.pc = "done"
    BY <1>4, ExitedIs
  <2> QED BY <1>4, <2>3, <2>4, <2>5 DEF ExportInv
<1> QED BY <1>3, <1>4 DEF Init

\* The bundle on its way.
LEMMA DamageKeeps ==
  ASSUME ExportInv, Damage
  PROVE  ExportInv'
<1>1. PICK i \in 1 .. Len(bundle) :
        \/ bundle' = SubSeq(bundle, 1, i - 1) /\ fault' = "cut"
        \/ \E c \in DamagedCells \ {bundle[i]} : bundle' = [bundle EXCEPT ![i] = c] /\ fault' = "damaged"
  BY DEF Damage
<1>2. exp.exit = "ok" /\ fault = "none" /\ imp.pc = "idle" /\ setup' = setup /\ exp' = exp /\ imp' = imp
  BY DEF Damage
<1>3. exp.pc = "done" /\ setup \in Setups /\ exp \in Exporters /\ bundle \in Cells /\ IsPrefix(bundle, Stream(setup.rot))
  BY <1>2 DEF ExportInv
<1>4. CASE bundle' = SubSeq(bundle, 1, i - 1) /\ fault' = "cut"
  <2>1. Len(bundle) \in Nat
    BY <1>3, LenProperties DEF Cells
  <2>2. i - 1 \in Int /\ i - 1 < Len(bundle)
    BY <1>1, <2>1
  <2> DEFINE k == i - 1
  <2>3. bundle' = Upto(bundle, k)
    <3> HIDE DEF k
    <3> QED BY <1>4, <2>2 DEF Upto, k
  <2> HIDE DEF k
  <2>4. k \in Int
    BY <2>2 DEF k
  <2>5. bundle' \in Cells /\ IsPrefix(bundle', bundle)
    BY <1>3, <2>3, <2>4, UptoIs
  <2> DEFINE rot == setup.rot
  <2>6. rot \in SUBSET Bases
    BY <1>3 DEF Setups
  <2>7. Stream(rot) \in Cells
    BY <2>6, StreamIs
  <2> HIDE DEF rot
  <2>8. IsPrefix(bundle', Stream(rot))
    BY <1>3, <2>5, <2>7, PrefixTrans DEF Cells, rot
  <2> QED BY <1>2, <1>3, <1>4, <2>5, <2>8 DEF ExportInv, rot
<1>5. CASE \E c \in DamagedCells \ {bundle[i]} : bundle' = [bundle EXCEPT ![i] = c] /\ fault' = "damaged"
  <2>1. PICK c \in DamagedCells : bundle' = [bundle EXCEPT ![i] = c]
    BY <1>5
  <2>2. c \in Cell
    BY Constants
  <2>3. bundle' \in Cells
    BY <1>3, <2>1, <2>2, ExceptSeq DEF Cells
  <2> QED BY <1>2, <1>3, <1>5, <2>3 DEF ExportInv
<1> QED BY <1>1, <1>4, <1>5

LEMMA RetryKeeps ==
  ASSUME ExportInv, Retry
  PROVE  ExportInv'
<1>1. imp.pc = "done" /\ bundle' = WholeBundle /\ fault' = "none" /\ exp' = Exited("ok")
      /\ setup' = [setup EXCEPT !.rot = {}, !.pipe = FALSE, !.space = Len(WholeBundle)]
  BY DEF Retry
<1>2. WholeBundle \in Cells /\ Len(WholeBundle) \in Nat
  BY WholeIs, LenProperties DEF Cells
<1>3. setup' \in Setups /\ setup'.rot = {}
  BY <1>1, <1>2 DEF ExportInv, Setups
<1>4. Stream({}) = WholeBundle
  BY DEF Stream
<1>5. IsPrefix(WholeBundle, WholeBundle)
  BY <1>2, PrefixSelf DEF Cells
<1>6. exp' \in Exporters /\ exp'.pc = "done"
  BY <1>1, ExitedIs
<1> QED BY <1>1, <1>2, <1>3, <1>4, <1>5, <1>6 DEF ExportInv

LEMMA ImportKeeps ==
  ASSUME ExportInv, UNCHANGED ExportSide, imp.pc = "idle" => exp.pc = "done"
  PROVE  ExportInv'
<1>1. setup' = setup /\ exp' = exp /\ bundle' = bundle /\ fault' = fault
  BY DEF ExportSide
<1>2. exp.pc = "done"
  BY DEF ExportInv
<1> QED BY <1>1, <1>2 DEF ExportInv

LEMMA ExportInvStep ==
  ASSUME ExportInv, [Next]_vars
  PROVE  ExportInv'
<1>1. CASE ExportNext BY <1>1, ExportNextKeeps
<1>2. CASE ExportNar BY <1>2, ExportNarKeeps
<1>3. CASE ExportCheck BY <1>3, ExportCheckKeeps
<1>4. CASE ExportTrailer BY <1>4, ExportTrailerKeeps
<1>5. CASE ExportEnd BY <1>5, ExportEndKeeps
<1>6. CASE KillExport BY <1>6, KillExportKeeps
<1>7. CASE Damage BY <1>7, DamageKeeps
<1>8. CASE StartImport
  <2>1. UNCHANGED ExportSide /\ exp.pc = "done"
    BY <1>8 DEF StartImport, ExportSide
  <2> QED BY <2>1, ImportKeeps
<1>9. CASE ReadBundle
  <2>1. UNCHANGED ExportSide /\ imp.pc # "idle"
    BY <1>9 DEF ReadBundle
  <2> QED BY <2>1, ImportKeeps
<1>10. CASE Verify
  <2>1. UNCHANGED ExportSide /\ imp.pc # "idle"
    BY <1>10 DEF Verify
  <2> QED BY <2>1, ImportKeeps
<1>11. CASE AddToStore
  <2>1. UNCHANGED ExportSide /\ imp.pc # "idle"
    BY <1>11 DEF AddToStore
  <2> QED BY <2>1, ImportKeeps
<1>12. CASE Register
  <2>1. UNCHANGED ExportSide /\ imp.pc # "idle"
    BY <1>12 DEF Register
  <2> QED BY <2>1, ImportKeeps
<1>13. CASE RootPaths
  <2>1. UNCHANGED ExportSide /\ imp.pc # "idle"
    BY <1>13 DEF RootPaths
  <2> QED BY <2>1, ImportKeeps
<1>14. CASE KillImport
  <2>1. UNCHANGED ExportSide /\ imp.pc # "idle"
    BY <1>14 DEF KillImport
  <2> QED BY <2>1, ImportKeeps
<1>15. CASE Retry BY <1>15, RetryKeeps
<1>16. CASE UNCHANGED vars
  BY <1>16 DEF vars, ExportInv
<1>17. Done => UNCHANGED vars
  BY DEF Done
<1> QED BY <1>1, <1>2, <1>3, <1>4, <1>5, <1>6, <1>7, <1>8, <1>9, <1>10, <1>11, <1>12, <1>13, <1>14, <1>15, <1>16, <1>17
        DEF Next

LEMMA ExportInvImplies ==
  ASSUME ExportInv
  PROVE  OutputIsAPrefix
<1> DEFINE rot == setup.rot
<1>1. CASE exp.pc # "done"
  <2> DEFINE x == bundle \o exp.sink.buf
  <2>1. /\ bundle \in Cells /\ x \in Cells /\ IsPrefix(x, Stream(rot)) /\ IsPrefix(bundle, x) /\ exp.exit = "none"
        /\ rot \in SUBSET Bases
    BY <1>1, Exporting
  <2> HIDE DEF x
  <2>2. IsPrefix(bundle, Stream(rot))
    BY <2>1, StreamIs, PrefixTrans DEF Cells
  <2> QED BY <2>1, <2>2 DEF OutputIsAPrefix, x
<1>2. CASE exp.pc = "done"
  BY <1>2 DEF ExportInv, OutputIsAPrefix
<1> QED BY <1>1, <1>2

(* Export: wherever the disk failed, the exporter was killed or a path had *)
(* rotted, what is in the file is the beginning of the stream it set out   *)
(* to write (OutputIsAPrefix; exportPaths, BufferedSink, FdSink).          *)
THEOREM ExportIsAPrefix == Spec => []OutputIsAPrefix
<1>1. Init => ExportInv
  BY ExportInvStarts
<1>2. ExportInv /\ [Next]_vars => ExportInv'
  BY ExportInvStep
<1>3. ExportInv => OutputIsAPrefix
  BY ExportInvImplies
<1> QED BY <1>1, <1>2, <1>3, PTL DEF Spec

--------------------------------------------------------------------------------
(* The importer reads: numbers, cells, strings, sets of paths.             *)

\* Numbers are read back, and Bad is none.
LEMMA NumIs ==
  ASSUME NEW n \in Nat
  PROVE  Len(Num(n)) = n + 1 /\ Num(n) # Bad
<1> DEFINE S == {"#", "I"}
           h == <<"#">>
           t == [i \in 1 .. n |-> "I"]
<1>1. h \in Seq(S) /\ Len(h) = 1 /\ h[1] = "#"
  OBVIOUS
<1>2. t \in Seq(S) /\ Len(t) = n
  OBVIOUS
<1> DEFINE u == Num(n)
<1>3. Joins(h, t, u)
  BY DEF Joins, Num
<1> HIDE DEF S, h, t, u
<1>4. Len(u) = Len(h) + Len(t) /\ \A i \in 1 .. Len(h) : u[i] = h[i]
  <2>1. h \in Seq(S) /\ t \in Seq(S) /\ Joins(h, t, u)
    BY <1>1, <1>2, <1>3
  <2>2. Len(u) = Len(h) + Len(t)
    BY <2>1, JoinAt
  <2>3. \A i \in 1 .. Len(h) : u[i] = h[i]
    BY <2>1, JoinAt
  <2> QED BY <2>2, <2>3
<1>5. u[1] = "#"
  BY <1>1, <1>4
<1>6. Bad[1] = "bad"
  BY DEF Bad
<1> QED BY <1>1, <1>2, <1>4, <1>5, <1>6 DEF u

LEMMA NumValues ==
  /\ NumValue(Bad) = {}
  /\ NumValue(Num(0)) = {0} /\ NumValue(Num(1)) = {1}
<1>1. NumValue(Bad) = {}
  <2>1. \A n \in 0 .. MaxNum : n \in Nat BY DEF MaxNum
  <2> QED BY <2>1, NumIs DEF NumValue
<1>2. ASSUME NEW k \in {0, 1} PROVE NumValue(Num(k)) = {k}
  <2>1. k \in 0 .. MaxNum /\ k \in Nat BY DEF MaxNum
  <2>2. ASSUME NEW n \in 0 .. MaxNum, Num(n) = Num(k) PROVE n = k
    <3>1. n \in Nat BY DEF MaxNum
    <3>2. Len(Num(n)) = n + 1 /\ Len(Num(k)) = k + 1 BY <2>1, <3>1, NumIs
    <3>3. n + 1 = k + 1 BY <2>2, <3>2
    <3> QED BY <2>1, <3>1, <3>3
  <2> QED BY <2>1, <2>2 DEF NumValue
<1> QED BY <1>1, <1>2

\* A parse of the input in into the sink k.
Res == {"ok", "eof", "error"}

Parses(in, k) == [in : {in}, pos : 0 .. Len(in), sink : {k}, res : Res]

LEMMA NewParseIs ==
  ASSUME NEW in \in Cells, NEW pos \in 0 .. Len(in), NEW k
  PROVE  /\ NewParse(in, pos, k) \in Parses(in, k) /\ NewParse(in, pos, k).res = "ok"
         /\ NewParse(in, pos, k).pos = pos
BY DEF NewParse, Parses, Res

LEMMA ErrorIs ==
  ASSUME NEW in \in Cells, NEW k, NEW st \in Parses(in, k)
  PROVE  /\ Error(st) \in Parses(in, k) /\ Error(st).res # "ok"
         /\ st.res # "ok" => Error(st) = st
BY DEF Error, Parses, Res

LEMMA GetIs ==
  ASSUME NEW in \in Cells, NEW k, NEW st \in Parses(in, k)
  PROVE  /\ Get(st) \in Parses(in, k)
         /\ st.res # "ok" => Get(st) = st
         /\ st.res = "ok" /\ st.pos = Len(in) => Get(st).res = "eof" /\ Get(st).pos = st.pos
         /\ st.res = "ok" /\ st.pos # Len(in) => Get(st).res = "ok" /\ Get(st).pos = st.pos + 1
<1>1. Len(in) \in Nat
  BY LenProperties DEF Cells
<1>2. st.in = in /\ st.pos \in 0 .. Len(in) /\ st.res \in Res
  BY DEF Parses
<1>3. CASE st.res # "ok"
  BY <1>3 DEF Get
<1>4. CASE st.res = "ok" /\ st.pos = Len(in)
  <2>1. Get(st) = [st EXCEPT !.res = "eof"]
    BY <1>2, <1>4 DEF Get
  <2> QED BY <1>4, <2>1 DEF Parses, Res
<1>5. CASE st.res = "ok" /\ st.pos # Len(in)
  <2>1. Get(st) = [st EXCEPT !.pos = st.pos + 1]
    BY <1>2, <1>5 DEF Get
  <2>2. st.pos + 1 \in 0 .. Len(in)
    BY <1>1, <1>2, <1>5
  <2> QED BY <1>5, <2>1, <2>2 DEF Parses, Res
<1> QED BY <1>3, <1>4, <1>5

LEMMA GotIs ==
  ASSUME NEW in \in Cells, NEW k, NEW st \in Parses(in, k)
  PROVE  Got(st) = IF st.res = "ok" THEN in[st.pos] ELSE Bad
BY DEF Got, Parses

LEMMA GetStringIs ==
  ASSUME NEW in \in Cells, NEW k, NEW st \in Parses(in, k)
  PROVE  /\ GetString(st) \in Parses(in, k)
         /\ st.res # "ok" => GetString(st) = st
         /\ st.res = "ok" /\ st.pos = Len(in) => GetString(st).res = "eof"
         /\ st.res = "ok" /\ st.pos # Len(in) /\ in[st.pos + 1] # Bad => GetString(st) = Get(st)
<1> DEFINE g == Get(st)
<1>1. /\ g \in Parses(in, k)
      /\ st.res # "ok" => g = st
      /\ st.res = "ok" /\ st.pos = Len(in) => g.res = "eof" /\ g.pos = st.pos
      /\ st.res = "ok" /\ st.pos # Len(in) => g.res = "ok" /\ g.pos = st.pos + 1
  BY GetIs
<1>2. GetString(st) = IF Got(g) = Bad THEN Error(g) ELSE g
  BY DEF GetString, NotBad
<1> HIDE DEF g
<1>3. Got(g) = IF g.res = "ok" THEN in[g.pos] ELSE Bad
  BY <1>1, GotIs
<1>4. /\ Error(g) \in Parses(in, k) /\ Error(g).res # "ok"
      /\ g.res # "ok" => Error(g) = g
  BY <1>1, ErrorIs
<1>5. GetString(st) \in Parses(in, k)
  BY <1>1, <1>2, <1>4
<1>6. st.res # "ok" => GetString(st) = st
  BY <1>1, <1>2, <1>4
<1>7. st.res = "ok" /\ st.pos = Len(in) => GetString(st).res = "eof"
  BY <1>1, <1>2, <1>3, <1>4
<1>8. st.res = "ok" /\ st.pos # Len(in) /\ in[st.pos + 1] # Bad => GetString(st) = g
  BY <1>1, <1>2, <1>3
<1> QED BY <1>5, <1>6, <1>7, <1>8 DEF g

LEMMA ReadStorePathSetIs ==
  ASSUME NEW in \in Cells, NEW k, NEW st \in Parses(in, k), NEW n \in Nat
  PROVE  /\ ReadStorePathSet(st, n).st \in Parses(in, k)
         /\ n = 0 => ReadStorePathSet(st, n) = [st |-> st, refs |-> {}]
<1> DEFINE P == Parses(in, k)
           Spoken == UNION {ReadPath(Got(GetString(s))) : s \in P}
           R == [st : P, refs : SUBSET Spoken]
           base == [st |-> st, refs |-> {}]
           More(r) == LET s == GetString(r.st)
                          path == ReadPath(Got(s))
                      IN  IF path = {} THEN [r EXCEPT !.st = Error(s)]
                          ELSE [st |-> s, refs |-> r.refs \cup path]
           step == [i \in 0 .. n |-> [r \in R |-> More(r)]]
           Def(f) == f = [i \in 0 .. n |-> IF i = 0 THEN base ELSE More(f[i - 1])]
<1>1. base \in R
  OBVIOUS
<1>2. ASSUME NEW r \in R PROVE More(r) \in R
  <2> DEFINE s == GetString(r.st)
             path == ReadPath(Got(s))
  <2>1. s \in P
    BY GetStringIs
  <2>2. Error(s) \in P
    <3> HIDE DEF s
    <3> QED BY <2>1, ErrorIs
  <2>3. path \subseteq Spoken
    OBVIOUS
  <2>4. More(r) = IF path = {} THEN [r EXCEPT !.st = Error(s)] ELSE [st |-> s, refs |-> r.refs \cup path]
    OBVIOUS
  <2> HIDE DEF s, path, Spoken, More, P
  <2>5. [r EXCEPT !.st = Error(s)] \in R
    BY <2>2
  <2>6. [st |-> s, refs |-> r.refs \cup path] \in R
    BY <2>1, <2>3
  <2> QED BY <2>4, <2>5, <2>6
<1> HIDE DEF R, More, base
<1>3. step \in Steps(n, R)
  BY <1>2 DEF Steps
<1>4. PICK f : Computes(f, n, R, base, step)
  <2> HIDE DEF step
  <2> QED BY <1>1, <1>3, Recursion
<1>5. Def(f)
  <2>1. f \in [0 .. n -> R] /\ \A i \in 0 .. n : f[i] = IF i = 0 THEN base ELSE step[i][f[i - 1]]
    BY <1>4 DEF Computes
  <2>2. ASSUME NEW i \in 0 .. n, i # 0 PROVE step[i][f[i - 1]] = More(f[i - 1])
    <3>1. i - 1 \in 0 .. n
      BY <2>2
    <3>2. f[i - 1] \in R
      BY <2>1, <3>1
    <3> QED BY <3>2
  <2>3. f = [i \in 0 .. n |-> f[i]]
    BY <2>1
  <2> HIDE DEF step
  <2> QED BY <2>1, <2>2, <2>3
<1> DEFINE read == CHOOSE g : Def(g)
<1>6. Def(read)
  BY <1>5
<1>7. ReadStorePathSet(st, n) = read[n]
  BY DEF ReadStorePathSet, More, base
<1>8. \A i \in 0 .. n : read[i] = IF i = 0 THEN base ELSE More(read[i - 1])
  BY <1>6
<1> HIDE DEF read
<1> DEFINE S == {i \in 0 .. n : read[i] \in R}
<1>9. 0 \in S
  BY <1>1, <1>8
<1>10. ASSUME NEW i \in 0 .. n - 1, i \in S PROVE i + 1 \in S
  <2>1. i + 1 \in 0 .. n /\ i + 1 # 0 /\ i + 1 - 1 = i OBVIOUS
  <2>2. read[i + 1] = More(read[i]) BY <1>8, <2>1
  <2> QED BY <1>2, <1>10, <2>1, <2>2
<1>11. 0 .. n \subseteq S
  <2> HIDE DEF S
  <2> QED BY <1>9, <1>10, Induction
<1>12. read[n] \in R
  BY <1>11
<1>13. n = 0 => read[n] = base
  BY <1>8
<1> QED BY <1>7, <1>12, <1>13 DEF R, base

--------------------------------------------------------------------------------
(* One turn of importVerified's loop, part by part.                        *)

\* The parts of Frame(in, pos).
Null == NewSink("null", FALSE, TRUE)

MarkOf(in, pos) == Get(NewParse(in, pos, Null))

MoreOf(in, pos) == NumValue(Got(MarkOf(in, pos)))

ArchiveOf(in, pos) == ParseArchive(in, MarkOf(in, pos).pos, MarkOf(in, pos).sink)

SavedOf(in, pos) == SubSeq(in, MarkOf(in, pos).pos + 1, ArchiveOf(in, pos).pos)

MagicOf(in, pos) == Get(ArchiveOf(in, pos))

ClaimOf(in, pos) ==
  GetString(IF Got(MagicOf(in, pos)) = ExportMagic THEN MagicOf(in, pos) ELSE Error(MagicOf(in, pos)))

PathOf(in, pos) == ReadPath(Got(ClaimOf(in, pos)))

CountOf(in, pos) == Get(ClaimOf(in, pos))

NumberOf(in, pos) == NumValue(Got(CountOf(in, pos)))

SetOf(in, pos) == ReadStorePathSet(CountOf(in, pos), CHOOSE n \in NumberOf(in, pos) : TRUE)

Refused(in, pos) ==
  \/ SetOf(in, pos).st.res # "ok"
  \/ \E p \in PathOf(in, pos) : ~Acceptable(p, SavedOf(in, pos), SetOf(in, pos).refs)

Stopped(res) == IF res = "ok" THEN "error" ELSE res

LEMMA FrameIs ==
  ASSUME NEW in, NEW pos
  PROVE  /\ MoreOf(in, pos) = {0} => Frame(in, pos).res = "end" /\ Frame(in, pos).pos = MarkOf(in, pos).pos
         /\ MoreOf(in, pos) # {0} /\ MoreOf(in, pos) # {1} => Frame(in, pos).res = Stopped(MarkOf(in, pos).res)
         /\ MoreOf(in, pos) = {1} /\ PathOf(in, pos) = {} => Frame(in, pos).res = Stopped(ClaimOf(in, pos).res)
         /\ MoreOf(in, pos) = {1} /\ PathOf(in, pos) # {} /\ NumberOf(in, pos) = {} =>
              Frame(in, pos).res = Stopped(CountOf(in, pos).res)
         /\ MoreOf(in, pos) = {1} /\ PathOf(in, pos) # {} /\ NumberOf(in, pos) # {} /\ Refused(in, pos) =>
              Frame(in, pos).res = Stopped(SetOf(in, pos).st.res)
         /\ MoreOf(in, pos) = {1} /\ PathOf(in, pos) # {} /\ NumberOf(in, pos) # {} /\ ~Refused(in, pos) =>
              Frame(in, pos) = [res |-> "frame", pos |-> SetOf(in, pos).st.pos, nar |-> SavedOf(in, pos),
                                path |-> PathOf(in, pos)]
<1> DEFINE Stops(s) == [res |-> IF s.res = "ok" THEN "error" ELSE s.res, pos |-> s.pos, nar |-> <<>>, path |-> {}]
           f == Frame(in, pos)
           mark == MarkOf(in, pos)
           more == MoreOf(in, pos)
           claim == ClaimOf(in, pos)
           path == PathOf(in, pos)
           count == CountOf(in, pos)
           number == NumberOf(in, pos)
           set == SetOf(in, pos)
           saved == SavedOf(in, pos)
           refused == Refused(in, pos)
<1>1. f = IF more = {0} THEN [res |-> "end", pos |-> mark.pos, nar |-> <<>>, path |-> {}]
          ELSE IF more # {1} THEN Stops(mark)
          ELSE IF path = {} THEN Stops(claim)
          ELSE IF number = {} THEN Stops(count)
          ELSE IF refused THEN Stops(set.st)
          ELSE [res |-> "frame", pos |-> set.st.pos, nar |-> saved, path |-> path]
  BY DEF Frame, MoreOf, MarkOf, Null, ArchiveOf, SavedOf, MagicOf, ClaimOf, PathOf, CountOf, NumberOf, SetOf, Refused
<1>2. \A s : Stops(s).res = Stopped(s.res)
  BY DEF Stopped
<1> HIDE DEF Stops, f, mark, more, claim, path, count, number, set, saved, refused
<1>3. more = {0} => f.res = "end" /\ f.pos = mark.pos
  BY <1>1
<1>4. {0} # {1}
  <2>1. 0 \in {0} /\ 0 \notin {1} OBVIOUS
  <2> QED BY <2>1
<1>5. more # {0} /\ more # {1} => f.res = Stopped(mark.res)
  BY <1>1, <1>2
<1>6. more = {1} /\ path = {} => f.res = Stopped(claim.res)
  BY <1>1, <1>2, <1>4
<1>7. more = {1} /\ path # {} /\ number = {} => f.res = Stopped(count.res)
  BY <1>1, <1>2, <1>4
<1>8. more = {1} /\ path # {} /\ number # {} /\ refused => f.res = Stopped(set.st.res)
  BY <1>1, <1>2, <1>4
<1>9. more = {1} /\ path # {} /\ number # {} /\ ~refused =>
        f = [res |-> "frame", pos |-> set.st.pos, nar |-> saved, path |-> path]
  BY <1>1, <1>4
<1> QED BY <1>3, <1>5, <1>6, <1>7, <1>8, <1>9 DEF f, mark, more, claim, path, count, number, set, saved, refused

\* What ArchivesAreRead says of the input in, read up to pos.
Reads(in, pos) ==
  LET at == pos + 1
      r == ParseArchive(in, at, Null)
      rest == SubSeq(in, at + 1, Len(in))
  IN  /\ r = [NewParse(in, r.pos, r.sink) EXCEPT !.res = r.res]
      /\ r.res \in Res /\ r.pos \in at .. Len(in)
      /\ \A t \in Dumped :
           /\ IsPrefix(Archive(t).cells, rest) => r.res = "ok" /\ r.pos = at + Len(Archive(t).cells)
           /\ IsStrictPrefix(rest, Archive(t).cells) => r.res = "eof"

LEMMA ReadsHere ==
  ASSUME ArchivesAreRead, imp.pc = "frame", imp.pos < Len(imp.got)
  PROVE  Reads(imp.got, imp.pos)
BY DEF ArchivesAreRead, Reads, Res, Null

LEMMA MarkIs ==
  ASSUME NEW in \in Cells, NEW pos \in 0 .. Len(in)
  PROVE  /\ MarkOf(in, pos) \in Parses(in, Null)
         /\ pos = Len(in) => MarkOf(in, pos).res = "eof" /\ MoreOf(in, pos) = {}
         /\ pos # Len(in) => /\ MarkOf(in, pos).res = "ok" /\ MarkOf(in, pos).pos = pos + 1
                             /\ MoreOf(in, pos) = NumValue(in[pos + 1])
<1> DEFINE st == NewParse(in, pos, Null)
           g == Get(st)
<1>1. st \in Parses(in, Null) /\ st.res = "ok" /\ st.pos = pos
  BY NewParseIs
<1>2. MarkOf(in, pos) = g
  BY DEF MarkOf
<1> HIDE DEF st
<1>3. /\ g \in Parses(in, Null)
      /\ st.res = "ok" /\ st.pos = Len(in) => g.res = "eof" /\ g.pos = st.pos
      /\ st.res = "ok" /\ st.pos # Len(in) => g.res = "ok" /\ g.pos = st.pos + 1
  BY <1>1, GetIs
<1> HIDE DEF g
<1>4. Got(g) = IF g.res = "ok" THEN in[g.pos] ELSE Bad
  BY <1>3, GotIs
<1>5. pos = Len(in) => g.res = "eof" /\ Got(g) = Bad
  BY <1>1, <1>3, <1>4
<1>6. pos # Len(in) => g.res = "ok" /\ g.pos = pos + 1 /\ Got(g) = in[pos + 1]
  BY <1>1, <1>3, <1>4
<1>7. MoreOf(in, pos) = NumValue(Got(g))
  BY <1>2 DEF MoreOf
<1> QED BY <1>2, <1>3, <1>5, <1>6, <1>7, NumValues

LEMMA ArchiveIs ==
  ASSUME NEW in \in Cells, NEW pos \in 0 .. Len(in), pos # Len(in), Reads(in, pos)
  PROVE  /\ ArchiveOf(in, pos) = ParseArchive(in, pos + 1, Null)
         /\ ArchiveOf(in, pos) \in Parses(in, ArchiveOf(in, pos).sink)
         /\ ArchiveOf(in, pos).pos \in pos + 1 .. Len(in)
<1> DEFINE at == pos + 1
           r == ParseArchive(in, at, Null)
           n == NewParse(in, r.pos, r.sink)
<1>1. MarkOf(in, pos).pos = at /\ MarkOf(in, pos).sink = Null
  BY MarkIs DEF Parses
<1>2. ArchiveOf(in, pos) = r
  BY <1>1 DEF ArchiveOf
<1>3. r = [n EXCEPT !.res = r.res] /\ r.res \in Res /\ r.pos \in at .. Len(in)
  BY DEF Reads
<1>4. r.pos \in 0 .. Len(in)
  <2>1. Len(in) \in Nat /\ pos \in Nat BY LenProperties DEF Cells
  <2> HIDE DEF r
  <2> QED BY <1>3, <2>1
<1>5. n \in Parses(in, r.sink)
  <2> HIDE DEF r
  <2> QED BY <1>4, NewParseIs
<1>6. r \in Parses(in, r.sink)
  <2> HIDE DEF r, n
  <2>1. [n EXCEPT !.res = r.res] \in Parses(in, r.sink)
    BY <1>3, <1>5 DEF Parses
  <2> QED BY <1>3, <2>1
<1> HIDE DEF r
<1> QED BY <1>2, <1>3, <1>6 DEF r

\* What is read behind the archive goes on in the same input.
LEMMA ChainIs ==
  ASSUME NEW in \in Cells, NEW pos, NEW k, ArchiveOf(in, pos) \in Parses(in, k)
  PROVE  /\ MagicOf(in, pos) \in Parses(in, k) /\ ClaimOf(in, pos) \in Parses(in, k)
         /\ CountOf(in, pos) \in Parses(in, k)
         /\ NumberOf(in, pos) # {} => SetOf(in, pos).st \in Parses(in, k)
<1> DEFINE m == MagicOf(in, pos)
           e == IF Got(m) = ExportMagic THEN m ELSE Error(m)
           c == ClaimOf(in, pos)
           n == CountOf(in, pos)
           i == CHOOSE i \in NumberOf(in, pos) : TRUE
<1>1. m \in Parses(in, k)
  BY GetIs DEF MagicOf
<1>2. c = GetString(e) /\ n = Get(c)
  BY DEF ClaimOf, CountOf
<1> HIDE DEF m, c, n
<1>3. e \in Parses(in, k)
  BY <1>1, ErrorIs
<1> HIDE DEF e
<1>4. c \in Parses(in, k)
  BY <1>2, <1>3, GetStringIs
<1>5. n \in Parses(in, k)
  BY <1>2, <1>4, GetIs
<1>6. ASSUME NumberOf(in, pos) # {} PROVE SetOf(in, pos).st \in Parses(in, k)
  <2>1. i \in NumberOf(in, pos)
    BY <1>6
  <2>2. i \in Nat
    <3> HIDE DEF i
    <3> QED BY <2>1 DEF NumberOf, NumValue, MaxNum
  <2>3. SetOf(in, pos) = ReadStorePathSet(n, i)
    BY DEF SetOf, n
  <2> HIDE DEF i
  <2> QED BY <1>5, <2>2, <2>3, ReadStorePathSetIs
<1> QED BY <1>1, <1>4, <1>5, <1>6 DEF m, c, n

LEMMA StoppedIs ==
  ASSUME NEW in, NEW k, NEW st \in Parses(in, k)
  PROVE  Stopped(st.res) \in {"eof", "error"}
BY DEF Parses, Res, Stopped

\* A frame that is accepted was read within the input and has the name that its archive gives it.
LEMMA FrameAccepts ==
  ASSUME NEW in \in Cells, NEW pos \in 0 .. Len(in), pos # Len(in) => Reads(in, pos)
  PROVE  /\ Frame(in, pos).res \in {"end", "frame", "eof", "error"}
         /\ Frame(in, pos).res = "end" => Frame(in, pos).pos \in 0 .. Len(in)
         /\ Frame(in, pos).res = "frame" =>
              /\ Frame(in, pos).pos \in 0 .. Len(in) /\ Frame(in, pos).nar \in Cells
              /\ Frame(in, pos).path # {}
              /\ \A p \in Frame(in, pos).path : p \in PathFor(NamePart(p), NarHash(Frame(in, pos).nar))
<1> DEFINE f == Frame(in, pos)
<1>1. Len(in) \in Nat
  BY LenProperties DEF Cells
<1>2. MarkOf(in, pos) \in Parses(in, Null)
  BY MarkIs
<1>3. CASE MoreOf(in, pos) = {0}
  <2>1. f.res = "end" /\ f.pos = MarkOf(in, pos).pos
    BY <1>3, FrameIs
  <2>2. f.pos \in 0 .. Len(in)
    BY <1>2, <2>1 DEF Parses
  <2> QED BY <2>1, <2>2
<1>4. CASE MoreOf(in, pos) # {0} /\ MoreOf(in, pos) # {1}
  <2>1. f.res = Stopped(MarkOf(in, pos).res)
    BY <1>4, FrameIs
  <2>2. f.res \in {"eof", "error"}
    BY <1>2, <2>1, StoppedIs
  <2> QED BY <2>2
<1>5. CASE MoreOf(in, pos) = {1}
  <2>1. pos # Len(in)
    <3>1. {1} # {} OBVIOUS
    <3> QED BY <1>5, <3>1, MarkIs
  <2> DEFINE a == ArchiveOf(in, pos)
             k == a.sink
  <2>2. a \in Parses(in, k) /\ a.pos \in pos + 1 .. Len(in)
    BY <2>1, ArchiveIs
  <2> HIDE DEF k
  <2>3. ClaimOf(in, pos) \in Parses(in, k) /\ CountOf(in, pos) \in Parses(in, k)
    BY <2>2, ChainIs
  <2>4. NumberOf(in, pos) # {} => SetOf(in, pos).st \in Parses(in, k)
    BY <2>2, ChainIs
  <2>5. CASE PathOf(in, pos) = {}
    <3>1. f.res = Stopped(ClaimOf(in, pos).res)
      BY <1>5, <2>5, FrameIs
    <3>2. f.res \in {"eof", "error"}
      BY <2>3, <3>1, StoppedIs
    <3> QED BY <3>2
  <2>6. CASE PathOf(in, pos) # {} /\ NumberOf(in, pos) = {}
    <3>1. f.res = Stopped(CountOf(in, pos).res)
      BY <1>5, <2>6, FrameIs
    <3>2. f.res \in {"eof", "error"}
      BY <2>3, <3>1, StoppedIs
    <3> QED BY <3>2
  <2>7. CASE PathOf(in, pos) # {} /\ NumberOf(in, pos) # {} /\ Refused(in, pos)
    <3>1. f.res = Stopped(SetOf(in, pos).st.res)
      BY <1>5, <2>7, FrameIs
    <3>2. f.res \in {"eof", "error"}
      BY <2>4, <2>7, <3>1, StoppedIs
    <3> QED BY <3>2
  <2>8. CASE PathOf(in, pos) # {} /\ NumberOf(in, pos) # {} /\ ~Refused(in, pos)
    <3> DEFINE saved == SavedOf(in, pos)
               path == PathOf(in, pos)
               set == SetOf(in, pos)
    <3>1. f = [res |-> "frame", pos |-> set.st.pos, nar |-> saved, path |-> path]
      BY <1>5, <2>8, FrameIs
    <3>2. set.st.pos \in 0 .. Len(in)
      BY <2>4, <2>8 DEF Parses
    <3>3. saved \in Cells
      <4> DEFINE from == pos + 2
                 to == a.pos
      <4>1. MarkOf(in, pos).pos = pos + 1
        BY <2>1, MarkIs
      <4>2. saved = SubSeq(in, from, to)
        <5>1. pos + 1 + 1 = from BY <1>1
        <5> HIDE DEF from
        <5> QED BY <4>1, <5>1 DEF SavedOf
      <4>3. from \in Int /\ to \in Int /\ \A i \in from .. to : i \in 1 .. Len(in)
        <5> HIDE DEF a
        <5> QED BY <1>1, <2>2
      <4>4. \A i \in from .. to : in[i] \in Cell
        BY <4>3, ElementOfSeq DEF Cells
      <4> HIDE DEF from, to, saved
      <4> QED BY <4>2, <4>3, <4>4, SubSeqProperties DEF Cells
    <3>4. \A p \in path : p \in PathFor(NamePart(p), NarHash(saved))
      BY <2>8 DEF Refused, Acceptable
    <3> HIDE DEF saved, path, set, f
    <3>5. f.res = "frame" /\ f.pos = set.st.pos /\ f.nar = saved /\ f.path = path
      BY <3>1
    <3>6. path # {}
      BY <2>8 DEF path
    <3>7. f.res = "frame" /\ f.pos \in 0 .. Len(in) /\ f.nar \in Cells /\ f.path # {}
      BY <3>2, <3>3, <3>5, <3>6
    <3>8. \A p \in f.path : p \in PathFor(NamePart(p), NarHash(f.nar))
      BY <3>4, <3>5
    <3> QED BY <3>7, <3>8 DEF f
  <2> QED BY <2>5, <2>6, <2>7, <2>8
<1> QED BY <1>3, <1>4, <1>5

\* What follows the archive, as far as there is input.
LEMMA BehindArchive ==
  ASSUME NEW in \in Cells, NEW pos, NEW k, NEW a, a = ArchiveOf(in, pos), a \in Parses(in, k)
  PROVE  /\ a.res = "eof" \/ (a.res = "ok" /\ a.pos = Len(in)) =>
              ClaimOf(in, pos).res = "eof" /\ CountOf(in, pos).res = "eof" /\ NumberOf(in, pos) = {}
         /\ a.res = "ok" /\ a.pos + 1 = Len(in) /\ in[a.pos + 1] = ExportMagic =>
              ClaimOf(in, pos).res = "eof" /\ CountOf(in, pos).res = "eof" /\ NumberOf(in, pos) = {}
         /\ a.res = "ok" /\ a.pos + 2 = Len(in) /\ in[a.pos + 1] = ExportMagic /\ in[a.pos + 2] # Bad =>
              Got(ClaimOf(in, pos)) = in[a.pos + 2] /\ CountOf(in, pos).res = "eof" /\ NumberOf(in, pos) = {}
         /\ a.res = "ok" /\ a.pos + 3 <= Len(in) /\ in[a.pos + 1] = ExportMagic /\ in[a.pos + 2] # Bad =>
              /\ Got(ClaimOf(in, pos)) = in[a.pos + 2] /\ Got(CountOf(in, pos)) = in[a.pos + 3]
              /\ CountOf(in, pos).res = "ok" /\ CountOf(in, pos).pos = a.pos + 3
              /\ CountOf(in, pos) \in Parses(in, k)
<1> DEFINE m == MagicOf(in, pos)
           e == IF Got(m) = ExportMagic THEN m ELSE Error(m)
           c == ClaimOf(in, pos)
           n == CountOf(in, pos)
           p == a.pos
           l == Len(in)
           M == ExportMagic
<1>1. l \in Nat /\ p \in 0 .. l
  BY LenProperties DEF Cells, Parses
<1>2. m = Get(a) /\ c = GetString(e) /\ n = Get(c) /\ NumberOf(in, pos) = NumValue(Got(n))
  BY DEF MagicOf, ClaimOf, CountOf, NumberOf
<1> HIDE DEF m, c, n
<1>3. /\ m \in Parses(in, k)
      /\ a.res # "ok" => m = a
      /\ a.res = "ok" /\ p = l => m.res = "eof" /\ m.pos = p
      /\ a.res = "ok" /\ p # l => m.res = "ok" /\ m.pos = p + 1
  BY <1>2, GetIs
<1>4. /\ Got(m) = IF m.res = "ok" THEN in[m.pos] ELSE Bad
      /\ Error(m) \in Parses(in, k) /\ (m.res # "ok" => Error(m) = m)
  BY <1>3, GotIs, ErrorIs
<1>5. /\ e \in Parses(in, k) /\ (m.res # "ok" => e = m)
      /\ Got(m) = M => e = m
  BY <1>3, <1>4
<1> HIDE DEF e
<1>6. /\ c \in Parses(in, k)
      /\ e.res # "ok" => c = e
      /\ e.res = "ok" /\ e.pos = l => c.res = "eof"
      /\ e.res = "ok" /\ e.pos # l /\ in[e.pos + 1] # Bad => c = Get(e)
  BY <1>2, <1>5, GetStringIs
<1>7. e.res = "ok" /\ e.pos # l => Get(e).res = "ok" /\ Get(e).pos = e.pos + 1
  BY <1>5, GetIs
<1>8. /\ n \in Parses(in, k)
      /\ c.res # "ok" => n = c
      /\ c.res = "ok" /\ c.pos = l => n.res = "eof"
      /\ c.res = "ok" /\ c.pos # l => n.res = "ok" /\ n.pos = c.pos + 1
  BY <1>2, <1>6, GetIs
<1>9. /\ Got(c) = IF c.res = "ok" THEN in[c.pos] ELSE Bad
      /\ Got(n) = IF n.res = "ok" THEN in[n.pos] ELSE Bad
  BY <1>6, <1>8, GotIs
<1>10. n.res = "eof" => NumberOf(in, pos) = {}
  BY <1>2, <1>9, NumValues
<1>11. a.res = "eof" \/ (a.res = "ok" /\ p = l) => c.res = "eof" /\ n.res = "eof"
  BY <1>3, <1>5, <1>6, <1>8
<1>12. a.res = "ok" /\ p # l /\ in[p + 1] = M => e.res = "ok" /\ e.pos = p + 1
  BY <1>3, <1>4, <1>5
<1>13. a.res = "ok" /\ p + 1 = l /\ in[p + 1] = M => c.res = "eof" /\ n.res = "eof"
  <2>1. p + 1 = l => p # l BY <1>1
  <2> QED BY <1>6, <1>8, <1>12, <2>1
<1>14. a.res = "ok" /\ p + 2 <= l /\ in[p + 1] = M /\ in[p + 2] # Bad =>
         c.res = "ok" /\ c.pos = p + 2 /\ Got(c) = in[p + 2]
  <2>1. p + 2 <= l => p # l /\ p + 1 # l BY <1>1
  <2>2. p + 1 + 1 = p + 2 BY <1>1
  <2> QED BY <1>6, <1>7, <1>9, <1>12, <2>1, <2>2
<1>15. a.res = "ok" /\ p + 2 = l /\ in[p + 1] = M /\ in[p + 2] # Bad => Got(c) = in[p + 2] /\ n.res = "eof"
  <2>1. p + 2 = l => p + 2 <= l BY <1>1
  <2> QED BY <1>8, <1>14, <2>1
<1>16. a.res = "ok" /\ p + 3 <= l /\ in[p + 1] = M /\ in[p + 2] # Bad =>
         Got(c) = in[p + 2] /\ n.res = "ok" /\ n.pos = p + 3 /\ Got(n) = in[p + 3]
  <2>1. p + 3 <= l => p + 2 <= l /\ p + 2 # l BY <1>1
  <2>2. p + 2 + 1 = p + 3 BY <1>1
  <2> QED BY <1>8, <1>9, <1>14, <2>1, <2>2
<1> QED BY <1>8, <1>10, <1>11, <1>13, <1>15, <1>16 DEF m, c, n

--------------------------------------------------------------------------------
(* The beginning of an exported stream: each turn of the loop finds the    *)
(* next row, or the end of what was read, and never an error.              *)

\* A piece of the input.
Slice(in, a, b) == SubSeq(in, a, b)

LEMMA SliceIs ==
  ASSUME NEW in \in Cells, NEW a \in Nat, NEW b \in Nat, a >= 1, b <= Len(in)
  PROVE  /\ Slice(in, a, b) \in Cells
         /\ Len(Slice(in, a, b)) = IF a <= b THEN b - a + 1 ELSE 0
         /\ \A i \in 1 .. b - a + 1 : Slice(in, a, b)[i] = in[a + i - 1]
<1>1. Len(in) \in Nat
  BY LenProperties DEF Cells
<1>2. \A i \in a .. b : i \in 1 .. Len(in)
  BY <1>1
<1>3. \A i \in a .. b : in[i] \in Cell
  BY <1>2, ElementOfSeq DEF Cells
<1>4. a \in Int /\ b \in Int
  OBVIOUS
<1> QED BY <1>3, <1>4, SubSeqProperties DEF Cells, Slice

\* A slice behind the cell at.
LEMMA SliceBehind ==
  ASSUME NEW in \in Cells, NEW at \in Nat, NEW b \in Nat, at <= b, b <= Len(in)
  PROVE  /\ Slice(in, at + 1, b) \in Cells
         /\ Len(Slice(in, at + 1, b)) = b - at
         /\ \A i \in 1 .. b - at : Slice(in, at + 1, b)[i] = in[at + i]
<1> DEFINE a == at + 1
           s == Slice(in, a, b)
<1>1. a \in Nat /\ a >= 1
  OBVIOUS
<1>2. b - a + 1 = b - at /\ (IF a <= b THEN b - a + 1 ELSE 0) = b - at
  OBVIOUS
<1>3. \A i \in 1 .. b - at : a + i - 1 = at + i
  OBVIOUS
<1> HIDE DEF a
<1>4. /\ s \in Cells
      /\ Len(s) = IF a <= b THEN b - a + 1 ELSE 0
      /\ \A i \in 1 .. b - a + 1 : s[i] = in[a + i - 1]
  BY <1>1, SliceIs
<1> HIDE DEF s
<1>5. s \in Cells /\ Len(s) = b - at
  BY <1>2, <1>4
<1>6. \A i \in 1 .. b - at : s[i] = in[at + i]
  BY <1>2, <1>3, <1>4
<1> QED BY <1>5, <1>6 DEF s, a

\* The archive in the input, when it begins with what Packed has up to at.
LEMMA SliceOfArchive ==
  ASSUME NEW in \in Cells, NEW d \in Cells, NEW at \in Nat, at <= Len(in),
         \A i \in 1 .. Len(d) : at + i <= Len(in) => in[at + i] = d[i]
  PROVE  /\ at + Len(d) <= Len(in) =>
              IsPrefix(d, Slice(in, at + 1, Len(in))) /\ Slice(in, at + 1, at + Len(d)) = d
         /\ ~(at + Len(d) <= Len(in)) => IsStrictPrefix(Slice(in, at + 1, Len(in)), d)
<1> DEFINE n == Len(in)
           l == Len(d)
           r == Slice(in, at + 1, n)
           e == at + l
           c == Slice(in, at + 1, e)
<1>1. n \in Nat /\ l \in Nat /\ at <= n /\ at \in Nat
  BY LenProperties DEF Cells
<1>2. r \in Cells /\ Len(r) = n - at /\ \A i \in 1 .. n - at : r[i] = in[at + i]
  BY <1>1, SliceBehind
<1>3. \A i \in 1 .. l : at + i <= n => in[at + i] = d[i]
  OBVIOUS
<1>4. e \in Nat /\ e = at + l
  BY <1>1
<1> HIDE DEF n, l, r, e
<1>5. CASE e <= n
  <2>1. c \in Cells /\ Len(c) = e - at /\ \A i \in 1 .. e - at : c[i] = in[at + i]
    BY <1>1, <1>4, <1>5, SliceBehind DEF n
  <2>2. e - at = l
    BY <1>1, <1>4
  <2>3. \A i \in 1 .. l : at + i <= n /\ i \in 1 .. n - at
    BY <1>1, <1>4, <1>5
  <2> HIDE DEF c
  <2>4. \A i \in 1 .. l : c[i] = d[i] /\ r[i] = d[i]
    BY <1>2, <1>3, <2>1, <2>2, <2>3
  <2>5. c = d
    <3>1. Len(c) = Len(d) /\ \A i \in 1 .. Len(c) : c[i] = d[i] BY <2>1, <2>2, <2>4 DEF l
    <3> QED BY <2>1, <3>1, SeqEqual DEF Cells
  <2>6. Len(d) <= Len(r)
    BY <1>1, <1>2, <1>4, <1>5 DEF l
  <2>7. IsPrefix(d, r)
    <3>1. \A i \in 1 .. Len(d) : d[i] = r[i] BY <2>4 DEF l
    <3> QED BY <1>2, <2>6, <3>1, PrefixAt DEF Cells
  <2> QED BY <1>4, <1>5, <2>5, <2>7 DEF n, l, r, c, e
<1>6. CASE ~(e <= n)
  <2>1. n - at < l /\ \A i \in 1 .. n - at : i \in 1 .. l /\ at + i <= n
    BY <1>1, <1>4, <1>6
  <2>2. \A i \in 1 .. n - at : r[i] = d[i]
    BY <1>2, <1>3, <2>1
  <2>3. IsPrefix(r, d)
    <3>1. Len(r) <= Len(d) BY <1>1, <1>2, <2>1 DEF l
    <3>2. \A i \in 1 .. Len(r) : r[i] = d[i] BY <1>2, <2>2
    <3> QED BY <1>2, <3>1, <3>2, PrefixAt DEF Cells
  <2>4. r # d
    <3>1. Len(r) # l BY <1>1, <1>2, <2>1
    <3> QED BY <3>1 DEF l
  <2> QED BY <1>4, <1>6, <2>3, <2>4 DEF n, l, r, e, IsStrictPrefix
<1> QED BY <1>5, <1>6

LEMMA FrameEof ==
  ASSUME NEW in, NEW pos, MoreOf(in, pos) = {1}, CountOf(in, pos).res = "eof", NumberOf(in, pos) = {},
         ClaimOf(in, pos).res = "eof" \/ PathOf(in, pos) # {}
  PROVE  Frame(in, pos).res = "eof"
<1>1. CASE PathOf(in, pos) = {}
  <2>1. Frame(in, pos).res = Stopped(ClaimOf(in, pos).res)
    BY <1>1, FrameIs
  <2> QED BY <1>1, <2>1 DEF Stopped
<1>2. CASE PathOf(in, pos) # {}
  <2>1. Frame(in, pos).res = Stopped(CountOf(in, pos).res)
    BY <1>2, FrameIs
  <2> QED BY <2>1 DEF Stopped
<1> QED BY <1>1, <1>2

\* The beginning of the stream, cell by cell.
LEMMA StreamAt ==
  ASSUME NEW in \in Cells, NEW s \in Cells, IsPrefix(in, s), NEW t \in Cells, IsPrefix(t, s)
  PROVE  /\ Len(in) \in Nat /\ Len(s) \in Nat /\ Len(t) \in Nat /\ Len(in) <= Len(s) /\ Len(t) <= Len(s)
         /\ \A i \in 1 .. Len(t) : i <= Len(in) => in[i] = t[i]
<1>1. Len(in) \in Nat /\ Len(s) \in Nat /\ Len(t) \in Nat
  BY LenProperties DEF Cells
<1>2. Len(in) <= Len(s) /\ \A i \in 1 .. Len(in) : in[i] = s[i]
  BY PrefixAt DEF Cells
<1>3. Len(t) <= Len(s) /\ \A i \in 1 .. Len(t) : t[i] = s[i]
  BY PrefixAt DEF Cells
<1>4. \A i \in 1 .. Len(t) : i <= Len(in) => i \in 1 .. Len(in)
  BY <1>1
<1> QED BY <1>1, <1>2, <1>3, <1>4

\* Behind the last path.
LEMMA FrameAtEnd ==
  ASSUME NEW rot \in SUBSET Bases, NEW in \in Cells, IsPrefix(in, Stream(rot)), Intact(rot, Len(Rows)),
         NEW pos, pos = Len(Sent[Len(Rows)]), pos <= Len(in)
  PROVE  /\ pos \in 0 .. Len(in)
         /\ pos = Len(in) => Frame(in, pos).res = "eof" /\ in # Stream(rot)
         /\ pos # Len(in) => Frame(in, pos).res = "end"
<1> DEFINE t == Sent[Len(Rows)]
           z == <<Num(0)>>
           s == WholeBundle
<1>1. s \in Cells /\ t \in Cells /\ z \in Cells /\ Joins(t, z, s) /\ Stream(rot) = s
  BY WholeIs, StreamIntact
<1>2. Len(z) = 1 /\ z[1] = Num(0)
  OBVIOUS
<1>3. pos = Len(t)
  OBVIOUS
<1> HIDE DEF t, z, s
<1>4. Len(s) = Len(t) + Len(z) /\ \A i \in 1 .. Len(z) : s[Len(t) + i] = z[i]
  BY <1>1, JoinAt DEF Cells
<1>5. Len(t) \in Nat /\ Len(in) \in Nat
  BY <1>1, LenProperties DEF Cells
<1>6. pos \in Nat /\ Len(s) = pos + 1 /\ s[pos + 1] = Num(0)
  BY <1>2, <1>3, <1>4, <1>5
<1>7. IsPrefix(in, s) /\ IsPrefix(s, s)
  BY <1>1, PrefixSelf DEF Cells
<1>8. Len(in) <= Len(s) /\ \A i \in 1 .. Len(s) : i <= Len(in) => in[i] = s[i]
  BY <1>1, <1>7, StreamAt
<1>9. pos \in 0 .. Len(in)
  BY <1>5, <1>6
<1>10. CASE pos = Len(in)
  <2>1. in # s
    BY <1>6, <1>10
  <2>2. MarkOf(in, pos).res = "eof" /\ MoreOf(in, pos) = {}
    BY <1>9, <1>10, MarkIs
  <2>3. MoreOf(in, pos) # {0} /\ MoreOf(in, pos) # {1}
    <3>1. {0} # {} /\ {1} # {} OBVIOUS
    <3> QED BY <2>2, <3>1
  <2>4. Frame(in, pos).res = Stopped(MarkOf(in, pos).res)
    BY <2>3, FrameIs
  <2> QED BY <1>1, <1>9, <1>10, <2>1, <2>2, <2>4 DEF Stopped
<1>11. CASE pos # Len(in)
  <2>1. in[pos + 1] = Num(0)
    <3>1. pos + 1 \in 1 .. Len(s) /\ pos + 1 <= Len(in) BY <1>5, <1>6, <1>9, <1>11
    <3> QED BY <1>6, <1>8, <3>1
  <2>2. MoreOf(in, pos) = NumValue(in[pos + 1])
    BY <1>9, <1>11, MarkIs
  <2>3. MoreOf(in, pos) = {0}
    BY <2>1, <2>2, NumValues
  <2>4. Frame(in, pos).res = "end"
    BY <2>3, FrameIs
  <2> QED BY <1>9, <1>11, <2>4
<1> QED BY <1>10, <1>11

\* The archive of the next path: read, or not yet there.
NextArchiveIs(rot, in, n, pos, d) ==
  /\ MoreOf(in, pos) = {1} /\ pos \in 0 .. Len(in) /\ d \in Cells
  /\ Len(Packed(rot, n)) = pos + 1 + Len(d)
  /\ pos + 1 + Len(d) <= Len(in) =>
       /\ ArchiveOf(in, pos).res = "ok" /\ ArchiveOf(in, pos).pos = pos + 1 + Len(d)
       /\ SavedOf(in, pos) = d
  /\ ~(pos + 1 + Len(d) <= Len(in)) => ArchiveOf(in, pos).res = "eof" /\ in # Stream(rot)

LEMMA NextArchive ==
  ASSUME NEW rot \in SUBSET Bases, NEW in \in Cells, IsPrefix(in, Stream(rot)),
         NEW n \in 1 .. Len(Rows), Intact(rot, n - 1), NEW pos, pos = Len(Sent[n - 1]), pos < Len(in),
         Reads(in, pos), NEW d, d = Dump(Tree(rot, n))
  PROVE  NextArchiveIs(rot, in, n, pos, d)
<1> DEFINE t == Sent[n - 1]
           h == <<Num(1)>>
           m == Marked(n)
           p == Packed(rot, n)
           s == Stream(rot)
           at == pos + 1
           rest == Slice(in, at + 1, Len(in))
           l == Len(d)
<1>1. t \in Cells /\ h \in Cells /\ m \in Cells /\ Joins(t, h, m)
  BY MarkedIs
<1>2. p \in Cells /\ d \in Cells /\ Joins(m, d, p)
  BY PackedIs
<1>3. s \in Cells /\ IsPrefix(p, s) /\ IsPrefix(in, s)
  BY StreamIs, StreamRow
<1>4. Len(h) = 1 /\ h[1] = Num(1) /\ pos = Len(t)
  OBVIOUS
<1> HIDE DEF t, h, m, p, s
<1>5. Len(m) = Len(t) + Len(h) /\ \A i \in 1 .. Len(h) : m[Len(t) + i] = h[i]
  BY <1>1, JoinAt DEF Cells
<1>6. Len(p) = Len(m) + l /\ (\A i \in 1 .. Len(m) : p[i] = m[i]) /\ \A i \in 1 .. l : p[Len(m) + i] = d[i]
  BY <1>1, <1>2, JoinAt DEF Cells
<1>7. Len(t) \in Nat /\ l \in Nat /\ Len(in) \in Nat
  BY <1>1, <1>2, LenProperties DEF Cells
<1> HIDE DEF l
<1>8. pos \in Nat /\ at \in Nat /\ Len(m) = at /\ Len(p) = at + l
  BY <1>4, <1>5, <1>6, <1>7
<1>9. p[at] = Num(1)
  <2>1. 1 \in 1 .. Len(h) /\ at \in 1 .. Len(m) BY <1>4, <1>8
  <2>2. m[Len(t) + 1] = Num(1) BY <1>4, <1>5, <2>1
  <2>3. p[at] = m[at] BY <1>6, <2>1
  <2> QED BY <1>4, <2>2, <2>3
<1>10. /\ Len(in) <= Len(s) /\ Len(p) <= Len(s)
       /\ \A i \in 1 .. Len(p) : i <= Len(in) => in[i] = p[i]
  BY <1>2, <1>3, StreamAt
<1>11. MoreOf(in, pos) = {1}
  <2>1. at \in 1 .. Len(p) /\ at <= Len(in) /\ pos \in 0 .. Len(in) /\ pos # Len(in) BY <1>7, <1>8
  <2>2. in[at] = Num(1) BY <1>9, <1>10, <2>1
  <2>3. MoreOf(in, pos) = NumValue(in[pos + 1]) BY <2>1, MarkIs
  <2> QED BY <2>2, <2>3, NumValues
<1>12. pos \in 0 .. Len(in) /\ pos # Len(in)
  BY <1>7, <1>8
<1>13. ArchiveOf(in, pos) = ParseArchive(in, at, Null) /\ MarkOf(in, pos).pos = at
  BY <1>12, ArchiveIs, MarkIs
<1>14. /\ IsPrefix(d, rest) => ArchiveOf(in, pos).res = "ok" /\ ArchiveOf(in, pos).pos = at + l
       /\ IsStrictPrefix(rest, d) => ArchiveOf(in, pos).res = "eof"
  <2> DEFINE tree == Tree(rot, n)
  <2>1. tree \in Dumped
    <3>1. Rows[n] \in Exported BY RowIs
    <3> QED BY <3>1 DEF Tree, Dumped
  <2>2. d = Archive(tree).cells BY DEF Dump
  <2> HIDE DEF tree
  <2> QED BY <1>13, <2>1, <2>2 DEF Reads, l, Slice
<1>15. \A i \in 1 .. l : at + i \in 1 .. Len(p) /\ Len(m) + i = at + i
  BY <1>7, <1>8
<1>16. \A i \in 1 .. l : at + i <= Len(in) => in[at + i] = d[i]
  BY <1>6, <1>10, <1>15
<1>17. at <= Len(in)
  BY <1>7, <1>8
<1> DEFINE e == at + l
<1>18. /\ e <= Len(in) => IsPrefix(d, rest) /\ Slice(in, at + 1, e) = d
       /\ ~(e <= Len(in)) => IsStrictPrefix(rest, d)
  <2> HIDE DEF at, rest, e
  <2>1. /\ at + Len(d) <= Len(in) => IsPrefix(d, Slice(in, at + 1, Len(in))) /\ Slice(in, at + 1, at + Len(d)) = d
        /\ ~(at + Len(d) <= Len(in)) => IsStrictPrefix(Slice(in, at + 1, Len(in)), d)
    BY <1>2, <1>8, <1>16, <1>17, SliceOfArchive DEF l
  <2> QED BY <2>1 DEF rest, e, l
<1>19. e = at + l /\ e \in Nat
  BY <1>7, <1>8
<1>20. at = pos + 1
  OBVIOUS
<1> HIDE DEF at, rest, e
<1>21. CASE e <= Len(in)
  <2>1. ArchiveOf(in, pos).res = "ok" /\ ArchiveOf(in, pos).pos = e
    BY <1>14, <1>18, <1>19, <1>21
  <2>2. SavedOf(in, pos) = Slice(in, at + 1, e)
    BY <1>13, <2>1 DEF SavedOf, Slice
  <2> QED BY <1>2, <1>8, <1>11, <1>12, <1>18, <1>19, <1>20, <1>21, <2>1, <2>2 DEF l, p, NextArchiveIs
<1>22. CASE ~(e <= Len(in))
  <2>1. ArchiveOf(in, pos).res = "eof"
    BY <1>14, <1>18, <1>22
  <2>2. Len(in) # Len(s)
    <3>1. Len(s) \in Nat BY <1>3, LenProperties DEF Cells
    <3> QED BY <1>7, <1>8, <1>10, <1>19, <1>22, <3>1
  <2> QED BY <1>2, <1>8, <1>11, <1>12, <1>19, <1>20, <1>22, <2>1, <2>2 DEF l, p, s, NextArchiveIs
<1> QED BY <1>21, <1>22

\* Behind the archive of a path that is intact.
LEMMA IntactRow ==
  ASSUME NEW rot \in SUBSET Bases, NEW in \in Cells, IsPrefix(in, Stream(rot)),
         NEW n \in 1 .. Len(Rows), Intact(rot, n), NEW pos, NEW k, NEW a, a = ArchiveOf(in, pos),
         a \in Parses(in, k), a.res = "ok", a.pos = Len(Packed(rot, n)), MoreOf(in, pos) = {1},
         SavedOf(in, pos) = Dump(Rows[n].tree)
  PROVE  \/ Frame(in, pos).res = "eof" /\ in # Stream(rot)
         \/ /\ Frame(in, pos).res = "frame" /\ Frame(in, pos).pos = Len(Sent[n]) /\ Len(Sent[n]) <= Len(in)
            /\ Frame(in, pos).nar = Dump(Rows[n].tree) /\ Frame(in, pos).path = {Rows[n].base}
<1> DEFINE b == Rows[n].base
           t == Trailer(b)
           p == Packed(rot, n)
           u == Sent[n]
           s == Stream(rot)
           e == Len(p)
           c == ClaimOf(in, pos)
           z == CountOf(in, pos)
           M == ExportMagic
           w == ShowPath(b)
<1>1. b \notin rot /\ Intact(rot, n - 1) /\ n \in 0 .. Len(Rows)
  BY Constants DEF Intact
<1>2. p \in Cells /\ t \in Cells /\ u \in Cells /\ Joins(p, t, u)
  BY <1>1, PackedIs, PackedIsSent, TrailerIs, SentOf
<1>3. Len(t) = 3 /\ t[1] = M /\ t[2] = w /\ t[3] = Num(0)
  BY TrailerIs
<1>4. s \in Cells /\ IsPrefix(u, s) /\ IsPrefix(in, s)
  BY <1>1, StreamIs, StreamAfter
<1>5. w # Bad /\ ReadPath(w) = {b}
  BY RowIs
<1> HIDE DEF t, p, u, s, M, w
<1>6. Len(u) = Len(p) + Len(t) /\ \A i \in 1 .. Len(t) : u[Len(p) + i] = t[i]
  BY <1>2, JoinAt DEF Cells
<1>7. /\ Len(in) \in Nat /\ Len(s) \in Nat /\ Len(u) \in Nat /\ Len(in) <= Len(s) /\ Len(u) <= Len(s)
      /\ \A i \in 1 .. Len(u) : i <= Len(in) => in[i] = u[i]
  BY <1>2, <1>4, StreamAt
<1>8. e \in Nat /\ a.pos = e /\ e <= Len(in)
  <2>1. e \in Nat BY <1>2, LenProperties DEF Cells
  <2>2. a.pos = e BY DEF p
  <2> QED BY <1>7, <2>1, <2>2 DEF Parses
<1>9. Len(u) = e + 3 /\ u[e + 1] = M /\ u[e + 2] = w /\ u[e + 3] = Num(0)
  BY <1>3, <1>6
<1> HIDE DEF e
<1>10. e + 1 \in 1 .. Len(u) /\ e + 2 \in 1 .. Len(u) /\ e + 3 \in 1 .. Len(u)
  BY <1>8, <1>9
<1>11. /\ e + 1 <= Len(in) => in[e + 1] = M
       /\ e + 2 <= Len(in) => in[e + 2] = w
       /\ e + 3 <= Len(in) => in[e + 3] = Num(0)
  BY <1>7, <1>9, <1>10
<1>12. /\ a.res = "ok" /\ a.pos = Len(in) => c.res = "eof" /\ z.res = "eof" /\ NumberOf(in, pos) = {}
       /\ a.res = "ok" /\ a.pos + 1 = Len(in) /\ in[a.pos + 1] = M =>
            c.res = "eof" /\ z.res = "eof" /\ NumberOf(in, pos) = {}
       /\ a.res = "ok" /\ a.pos + 2 = Len(in) /\ in[a.pos + 1] = M /\ in[a.pos + 2] # Bad =>
            Got(c) = in[a.pos + 2] /\ z.res = "eof" /\ NumberOf(in, pos) = {}
       /\ a.res = "ok" /\ a.pos + 3 <= Len(in) /\ in[a.pos + 1] = M /\ in[a.pos + 2] # Bad =>
            /\ Got(c) = in[a.pos + 2] /\ Got(z) = in[a.pos + 3]
            /\ z.res = "ok" /\ z.pos = a.pos + 3
            /\ z \in Parses(in, k)
  BY BehindArchive DEF M
<1>13. PathOf(in, pos) = ReadPath(Got(c)) /\ NumberOf(in, pos) = NumValue(Got(z))
  BY DEF PathOf, NumberOf
<1> HIDE DEF c, z, b
<1>14. {b} # {}
  OBVIOUS
<1>15. CASE Len(in) < e + 3
  <2>1. Len(in) = e \/ Len(in) = e + 1 \/ Len(in) = e + 2
    BY <1>7, <1>8, <1>15
  <2>2. in # s
    <3>1. Len(in) # Len(s) BY <1>7, <1>8, <1>9, <1>15
    <3> QED BY <3>1
  <2>3. Len(in) = e + 2 => Got(c) = w /\ z.res = "eof" /\ NumberOf(in, pos) = {}
    <3>1. Len(in) = e + 2 => e + 1 <= Len(in) /\ e + 2 <= Len(in) BY <1>8
    <3> QED BY <1>5, <1>8, <1>11, <1>12, <3>1
  <2>4. Len(in) = e + 1 => c.res = "eof" /\ z.res = "eof" /\ NumberOf(in, pos) = {}
    <3>1. Len(in) = e + 1 => e + 1 <= Len(in) BY <1>8
    <3> QED BY <1>8, <1>11, <1>12, <3>1
  <2>5. Len(in) = e => c.res = "eof" /\ z.res = "eof" /\ NumberOf(in, pos) = {}
    BY <1>8, <1>12
  <2>6. z.res = "eof" /\ NumberOf(in, pos) = {} /\ (c.res = "eof" \/ PathOf(in, pos) # {})
    BY <1>5, <1>13, <1>14, <2>1, <2>3, <2>4, <2>5
  <2>7. Frame(in, pos).res = "eof"
    BY <2>6, FrameEof DEF c, z
  <2> QED BY <2>2, <2>7 DEF s
<1>16. CASE ~(Len(in) < e + 3)
  <2>1. e + 1 <= Len(in) /\ e + 2 <= Len(in) /\ e + 3 <= Len(in)
    BY <1>7, <1>8, <1>16
  <2>2. Got(c) = w /\ Got(z) = Num(0) /\ z.res = "ok" /\ z.pos = e + 3 /\ z \in Parses(in, k)
    BY <1>5, <1>8, <1>11, <1>12, <2>1
  <2>3. PathOf(in, pos) = {b} /\ NumberOf(in, pos) = {0}
    BY <1>5, <1>13, <2>2, NumValues
  <2>4. {0} # {} /\ (CHOOSE i \in {0} : TRUE) = 0
    OBVIOUS
  <2>5. SetOf(in, pos) = [st |-> z, refs |-> {}]
    <3>1. SetOf(in, pos) = ReadStorePathSet(z, 0) BY <2>3, <2>4 DEF SetOf, z
    <3>2. 0 \in Nat OBVIOUS
    <3> QED BY <2>2, <3>1, <3>2, ReadStorePathSetIs
  <2>6. Acceptable(b, SavedOf(in, pos), {})
    <3>1. Rows[n] \in Exported BY RowIs
    <3>2. b \in PathFor(NamePart(b), NarHash(Dump(Rows[n].tree)))
      BY <3>1, RowsAssumption DEF Dump, b
    <3> QED BY <3>2 DEF Acceptable
  <2>7. ~Refused(in, pos)
    <3>1. SetOf(in, pos).st = z /\ SetOf(in, pos).refs = {} BY <2>5
    <3>2. \A q \in PathOf(in, pos) : q = b BY <2>3
    <3> QED BY <2>2, <2>6, <3>1, <3>2 DEF Refused
  <2>8. Frame(in, pos) = [res |-> "frame", pos |-> SetOf(in, pos).st.pos, nar |-> SavedOf(in, pos),
                          path |-> PathOf(in, pos)]
    BY <1>14, <2>3, <2>4, <2>7, FrameIs
  <2>9. SetOf(in, pos).st.pos = e + 3
    BY <2>2, <2>5
  <2> DEFINE f == Frame(in, pos)
             y == SetOf(in, pos).st.pos
             v == SavedOf(in, pos)
             q == PathOf(in, pos)
  <2> HIDE DEF f, y, v, q
  <2>10. f.res = "frame" /\ f.pos = y /\ f.nar = v /\ f.path = q
    BY <2>8 DEF f, y, v, q
  <2>11. y = Len(u) /\ Len(u) <= Len(in) /\ q = {b} /\ v = Dump(Rows[n].tree)
    BY <1>9, <2>1, <2>3, <2>9 DEF y, v, q
  <2> QED BY <2>10, <2>11 DEF f, b, u
<1> QED BY <1>15, <1>16

\* What import-path makes of the beginning of an exported stream, behind the first k paths.
LEMMA FrameOfStream ==
  ASSUME NEW rot \in SUBSET Bases, NEW in \in Cells, IsPrefix(in, Stream(rot)),
         NEW k \in 0 .. Len(Rows), Intact(rot, k), NEW pos, pos = Len(Sent[k]), pos <= Len(in),
         pos # Len(in) => Reads(in, pos)
  PROVE  \/ Frame(in, pos).res = "eof" /\ (rot = {} => in # Stream(rot))
         \/ Frame(in, pos).res = "end" /\ k = Len(Rows)
         \/ /\ Frame(in, pos).res = "frame" /\ k < Len(Rows) /\ Rows[k + 1].base \notin rot
            /\ Frame(in, pos).pos = Len(Sent[k + 1]) /\ Len(Sent[k + 1]) <= Len(in)
            /\ Frame(in, pos).nar = Dump(Rows[k + 1].tree) /\ Frame(in, pos).path = {Rows[k + 1].base}
<1> DEFINE f == Frame(in, pos)
           s == Stream(rot)
<1>1. Len(Rows) \in Nat /\ k \in Nat /\ pos \in Nat /\ Len(in) \in Nat
  BY Constants, SentOf, LenProperties DEF Cells
<1>2. CASE k = Len(Rows)
  BY <1>2, FrameAtEnd
<1>3. CASE k # Len(Rows) /\ pos = Len(in)
  <2>1. pos \in 0 .. Len(in) BY <1>1, <1>3
  <2>2. MarkOf(in, pos).res = "eof" /\ MoreOf(in, pos) = {}
    BY <1>3, <2>1, MarkIs
  <2>3. MoreOf(in, pos) # {0} /\ MoreOf(in, pos) # {1}
    <3>1. {0} # {} /\ {1} # {} OBVIOUS
    <3> QED BY <2>2, <3>1
  <2>4. f.res = "eof"
    BY <2>2, <2>3, FrameIs DEF Stopped
  <2>5. k + 1 \in 1 .. Len(Rows) /\ k + 1 - 1 = k
    BY <1>1, <1>3
  <2>6. in # s
    <3> DEFINE n == k + 1
               p == Packed(rot, n)
               m == Marked(n)
               u == Sent[k]
               h == <<Num(1)>>
               d == Dump(Tree(rot, n))
    <3>1. n \in 1 .. Len(Rows) /\ n - 1 = k BY <2>5
    <3> HIDE DEF n
    <3>2. u \in Cells /\ h \in Cells /\ m \in Cells /\ Joins(u, h, m) BY <3>1, MarkedIs
    <3>3. d \in Cells /\ p \in Cells /\ Joins(m, d, p) BY <3>1, PackedIs
    <3>4. s \in Cells /\ IsPrefix(p, s) BY <3>1, StreamIs, StreamRow
    <3>5. Len(h) = 1 /\ Len(u) = pos OBVIOUS
    <3> HIDE DEF p, m, u, h, d, s
    <3>6. Len(m) = Len(u) + Len(h) /\ Len(p) = Len(m) + Len(d)
      BY <3>2, <3>3, JoinAt DEF Cells
    <3>7. Len(p) <= Len(s)
      BY <3>3, <3>4, PrefixAt DEF Cells
    <3>8. Len(d) \in Nat /\ Len(s) \in Nat
      BY <3>3, <3>4, LenProperties DEF Cells
    <3>9. Len(in) # Len(s)
      BY <1>1, <1>3, <3>5, <3>6, <3>7, <3>8
    <3> QED BY <3>9
  <2> QED BY <2>4, <2>6
<1>4. CASE k # Len(Rows) /\ pos # Len(in)
  <2> DEFINE n == k + 1
             d == Dump(Tree(rot, n))
             a == ArchiveOf(in, pos)
             j == a.sink
             e == Len(Packed(rot, n))
  <2>1. n \in 1 .. Len(Rows) /\ n - 1 = k /\ pos < Len(in) /\ pos \in 0 .. Len(in)
    BY <1>1, <1>4
  <2>2. n = k + 1
    OBVIOUS
  <2> HIDE DEF n
  <2>3. Intact(rot, n - 1) /\ pos = Len(Sent[n - 1]) /\ Reads(in, pos)
    BY <1>4, <2>1
  <2>4. /\ MoreOf(in, pos) = {1} /\ d \in Cells
        /\ Len(Packed(rot, n)) = pos + 1 + Len(d)
        /\ pos + 1 + Len(d) <= Len(in) =>
             /\ ArchiveOf(in, pos).res = "ok" /\ ArchiveOf(in, pos).pos = pos + 1 + Len(d)
             /\ SavedOf(in, pos) = d
        /\ ~(pos + 1 + Len(d) <= Len(in)) => ArchiveOf(in, pos).res = "eof" /\ in # Stream(rot)
    <3>1. d = Dump(Tree(rot, n)) OBVIOUS
    <3> HIDE DEF d
    <3>2. NextArchiveIs(rot, in, n, pos, d)
      BY <2>1, <2>3, <3>1, NextArchive
    <3> QED BY <3>2 DEF NextArchiveIs
  <2>5. a \in Parses(in, j)
    BY <1>4, <2>1, <2>3, ArchiveIs
  <2> HIDE DEF j
  <2>6. /\ a.res = "eof" \/ (a.res = "ok" /\ a.pos = Len(in)) =>
             ClaimOf(in, pos).res = "eof" /\ CountOf(in, pos).res = "eof" /\ NumberOf(in, pos) = {}
    BY <2>5, BehindArchive
  <2>7. a.res = "eof" \/ (a.res = "ok" /\ a.pos = Len(in)) => f.res = "eof"
    BY <2>4, <2>6, FrameEof
  <2>8. CASE ~(e <= Len(in))
    <3>1. a.res = "eof" /\ in # s BY <2>4, <2>8
    <3> QED BY <2>7, <3>1
  <2>9. CASE e <= Len(in) /\ Rows[n].base \in rot
    <3>1. a.res = "ok" /\ a.pos = e BY <2>4, <2>9
    <3>2. s = Packed(rot, n) BY <2>1, <2>3, <2>9, StreamRotten
    <3>3. s \in Cells /\ Len(s) \in Nat BY StreamIs, LenProperties DEF Cells
    <3>4. Len(in) <= Len(s)
      <4> HIDE DEF s
      <4>1. IsPrefix(in, s) BY DEF s
      <4> QED BY <3>3, <4>1, PrefixAt DEF Cells
    <3>5. e = Len(in) BY <1>1, <2>9, <3>2, <3>3, <3>4
    <3> QED BY <2>7, <2>9, <3>1, <3>5
  <2>10. CASE e <= Len(in) /\ Rows[n].base \notin rot
    <3>1. a.res = "ok" /\ a.pos = e /\ SavedOf(in, pos) = d BY <2>4, <2>10
    <3>2. d = Dump(Rows[n].tree) BY <2>10 DEF Tree
    <3>3. Intact(rot, n)
      <4>1. \A i \in 1 .. n : i \in 1 .. n - 1 \/ i = n BY <2>1
      <4> QED BY <2>3, <2>10, <4>1 DEF Intact
    <3>4. \/ f.res = "eof" /\ in # Stream(rot)
          \/ /\ f.res = "frame" /\ f.pos = Len(Sent[n]) /\ Len(Sent[n]) <= Len(in)
             /\ f.nar = Dump(Rows[n].tree) /\ f.path = {Rows[n].base}
      <4>1. a = ArchiveOf(in, pos) /\ f = Frame(in, pos) OBVIOUS
      <4>2. a.pos = Len(Packed(rot, n)) /\ SavedOf(in, pos) = Dump(Rows[n].tree) /\ MoreOf(in, pos) = {1}
        BY <2>4, <3>1, <3>2
      <4> HIDE DEF a, d, e, f
      <4> QED BY <2>1, <2>5, <3>1, <3>3, <4>1, <4>2, IntactRow
    <3>5. k < Len(Rows) BY <1>1, <1>4
    <3> QED BY <2>2, <2>10, <3>4, <3>5
  <2> QED BY <2>8, <2>9, <2>10
<1> QED BY <1>2, <1>3, <1>4

--------------------------------------------------------------------------------
(* FdSource hands on the file in order.                                    *)

\* FdSource over the file, of which in was read.
At(in) == [read |-> Len(in), buf |-> <<>>]

LEMMA ReadIs ==
  ASSUME NEW file \in Cells, NEW in \in Cells, IsPrefix(in, file), NEW pipe,
         NEW n \in ReadSizes(At(in), file, pipe),
         NEW r, r = Read(ReadUnbuffered(At(in), file, n), BufSize)
  PROVE  /\ in \o r.data \in Cells /\ IsPrefix(in \o r.data, file) /\ r.source = At(in \o r.data)
         /\ Len(in) <= Len(in \o r.data)
<1> DEFINE l == Len(in)
           m == Len(file)
           rest == Slice(file, l + 1, m)
           most == Len(Upto(rest, BufSize))
           d == Slice(file, l + 1, l + n)
<1>1. l \in Nat /\ m \in Nat /\ BufSize \in Nat
  BY LenProperties, Constants DEF Cells
<1>2. l <= m /\ \A i \in 1 .. l : in[i] = file[i]
  BY PrefixAt DEF Cells
<1>3. n \in 1 .. most
  <2>1. most = Len(Upto(SubSeq(file, At(in).read + 1, Len(file)), BufSize))
    BY DEF Slice, At
  <2> HIDE DEF most
  <2>2. n \in (IF pipe THEN 1 .. most ELSE {most} \ {0})
    BY <2>1 DEF ReadSizes
  <2>3. most \in Nat
    <3>1. rest \in Cells
      <4> HIDE DEF l, m
      <4> QED BY <1>1, <1>2, SliceBehind DEF m
    <3>2. BufSize \in Int BY <1>1
    <3>3. Upto(rest, BufSize) \in Cells
      <4> HIDE DEF rest
      <4> QED BY <3>1, <3>2, UptoIs
    <3> QED BY <3>3, LenProperties DEF Cells, most
  <2> QED BY <2>2, <2>3
<1> HIDE DEF l, m
<1>4. rest \in Cells /\ Len(rest) = m - l
  BY <1>1, <1>2, SliceBehind DEF m
<1>5. most <= m - l /\ most <= BufSize /\ most \in Nat
  <2> HIDE DEF rest
  <2>1. Upto(rest, BufSize) \in Cells /\ IsPrefix(Upto(rest, BufSize), rest)
    BY <1>1, <1>4, UptoIs
  <2>2. most <= Len(rest)
    BY <1>4, <2>1, PrefixAt DEF Cells
  <2> DEFINE k == IF BufSize < Len(rest) THEN BufSize ELSE Len(rest)
  <2>3. k \in Nat /\ k <= BufSize /\ k <= Len(rest)
    BY <1>1, <1>2, <1>4
  <2>4. Upto(rest, BufSize) = Slice(rest, 1, k)
    BY DEF Upto, Slice
  <2> HIDE DEF k
  <2>5. Len(Slice(rest, 1, k)) = IF 1 <= k THEN k - 1 + 1 ELSE 0
    <3>1. 1 \in Nat /\ 1 >= 1 OBVIOUS
    <3> QED BY <1>4, <2>3, <3>1, SliceIs
  <2> QED BY <1>4, <2>2, <2>3, <2>4, <2>5
<1> HIDE DEF most, rest
<1>6. n \in Nat /\ n >= 1 /\ n <= m - l /\ n <= BufSize
  BY <1>1, <1>2, <1>3, <1>5
<1>7. d \in Cells /\ Len(d) = n /\ \A i \in 1 .. n : d[i] = file[l + i]
  <2> DEFINE e == l + n
  <2>1. e \in Nat /\ l <= e /\ e <= m /\ e - l = n BY <1>1, <1>2, <1>6
  <2> HIDE DEF e
  <2>2. /\ Slice(file, l + 1, e) \in Cells /\ Len(Slice(file, l + 1, e)) = e - l
        /\ \A i \in 1 .. e - l : Slice(file, l + 1, e)[i] = file[l + i]
    BY <1>1, <2>1, SliceBehind DEF m
  <2> QED BY <2>1, <2>2 DEF e
<1>8. ReadUnbuffered(At(in), file, n) = [read |-> l + n, buf |-> d]
  BY DEF ReadUnbuffered, At, Slice, l
<1> HIDE DEF d
<1>9. Upto(d, BufSize) = d
  BY <1>1, <1>6, <1>7, UptoIs
<1>10. Slice(d, n + 1, n) = <<>>
  <2>1. n + 1 \in Nat /\ n + 1 >= 1 /\ ~(n + 1 <= n) BY <1>6
  <2>2. Slice(d, n + 1, n) \in Cells /\ Len(Slice(d, n + 1, n)) = 0
    <3> DEFINE a == n + 1
    <3>1. a \in Nat /\ a >= 1 /\ ~(a <= n) /\ n <= Len(d) BY <1>6, <1>7, <2>1
    <3> HIDE DEF a
    <3>2. Slice(d, a, n) \in Cells /\ Len(Slice(d, a, n)) = IF a <= n THEN n - a + 1 ELSE 0
      BY <1>6, <1>7, <3>1, SliceIs
    <3> QED BY <3>1, <3>2 DEF a
  <2> QED BY <2>2, EmptySeq DEF Cells
<1>11. r.data = d /\ r.source = [read |-> l + n, buf |-> <<>>]
  <2> DEFINE u == [read |-> l + n, buf |-> d]
  <2>1. r = [data |-> Upto(u.buf, BufSize),
             source |-> [u EXCEPT !.buf = SubSeq(@, Len(Upto(@, BufSize)) + 1, Len(@))]]
    BY <1>8 DEF Read
  <2> DEFINE v == SubSeq(d, n + 1, n)
  <2>2. r = [data |-> d, source |-> [read |-> l + n, buf |-> v]]
    BY <1>7, <1>9, <2>1
  <2>3. v = <<>>
    BY <1>10 DEF Slice
  <2> HIDE DEF v
  <2> QED BY <2>2, <2>3
<1> DEFINE u == in \o d
<1>12. Joins(in, d, u)
  BY DEF Joins
<1> HIDE DEF u
<1>13. /\ u \in Cells /\ Len(u) = l + n
       /\ \A i \in 1 .. l : u[i] = in[i]
       /\ \A i \in 1 .. n : u[l + i] = d[i]
  BY <1>7, <1>12, JoinAt DEF Cells, l
<1>14. \A i \in 1 .. l + n : u[i] = file[i]
  <2> TAKE i \in 1 .. l + n
  <2>1. CASE i <= l
    <3>1. i \in 1 .. l BY <1>1, <1>6, <2>1
    <3> QED BY <1>2, <1>13, <3>1 DEF l
  <2>2. CASE ~(i <= l)
    <3> DEFINE j == i - l
    <3>1. j \in 1 .. n /\ l + j = i BY <1>1, <1>6, <2>2
    <3> HIDE DEF j
    <3>2. u[l + j] = d[j] /\ d[j] = file[l + j] BY <1>7, <1>13, <3>1
    <3> QED BY <3>1, <3>2
  <2> QED BY <2>1, <2>2
<1>15. IsPrefix(u, file)
  <2>1. Len(u) <= Len(file) BY <1>1, <1>6, <1>13 DEF m
  <2> QED BY <1>13, <1>14, <2>1, PrefixAt DEF Cells
<1>16. l <= Len(u)
  BY <1>1, <1>6, <1>13
<1> QED BY <1>11, <1>13, <1>15, <1>16 DEF At, u, l

Shape(i) ==
  i = [umask |-> i.umask, acl |-> i.acl, pc |-> i.pc, source |-> i.source, got |-> i.got, pos |-> i.pos,
       nar |-> i.nar, path |-> i.path, done |-> i.done, exit |-> i.exit, try |-> i.try]

Active == {"frame", "add", "register", "root"}

\* How far the importer i has read the file.
Has(i, file) ==
  /\ Shape(i) /\ i.pc \in {"idle", "done"} \cup Active
  /\ i.got \in Cells /\ IsPrefix(i.got, file) /\ i.source = At(i.got)
  /\ i.pos \in 0 .. Len(i.got) /\ i.nar \in Cells
  /\ i.pc \in {"idle", "done"} => i.got = <<>>

ReadInv == Has(imp, bundle)

\* An importer that has not begun.
Fresh(i, pc, exit) ==
  /\ Shape(i) /\ i.pc = pc /\ i.source = At(<<>>) /\ i.got = <<>> /\ i.pos = 0 /\ i.nar = <<>>
  /\ i.done = <<>> /\ i.exit = exit

LEMMA NewImportIs ==
  ASSUME NEW try, NEW umask, NEW acl
  PROVE  Fresh(NewImport(try, umask, acl), "frame", "none") /\ NewImport(try, umask, acl).try = try
<1>1. Len(<<>>) = 0
  OBVIOUS
<1> DEFINE i == NewImport(try, umask, acl)
<1>2. i = [umask |-> umask, acl |-> acl, pc |-> "frame", source |-> NewFdSource, got |-> <<>>, pos |-> 0,
           nar |-> <<>>, path |-> <<>>, done |-> <<>>, exit |-> "none", try |-> try]
  BY DEF NewImport
<1> HIDE DEF i
<1>3. Shape(i)
  BY <1>2 DEF Shape
<1>4. i.source = At(<<>>)
  BY <1>1, <1>2 DEF NewFdSource, At
<1> QED BY <1>2, <1>3, <1>4 DEF Fresh, i

LEMMA EndedIs ==
  ASSUME NEW exit
  PROVE  Fresh(Ended(exit), "done", exit) /\ Ended(exit).try = imp.try
<1> DEFINE i == NewImport(imp.try, imp.umask, imp.acl)
           e == [i EXCEPT !.pc = "done", !.exit = exit]
<1>1. Fresh(i, "frame", "none") /\ i.try = imp.try
  BY NewImportIs
<1>2. Ended(exit) = e
  BY DEF Ended
<1>3. e = [i EXCEPT !.pc = "done", !.exit = exit]
  OBVIOUS
<1> HIDE DEF i, e
<1>4. Shape(e) /\ e.pc = "done" /\ e.exit = exit /\ e.source = i.source /\ e.got = i.got /\ e.pos = i.pos
      /\ e.nar = i.nar /\ e.done = i.done /\ e.try = i.try
  BY <1>1, <1>3 DEF Fresh, Shape
<1> QED BY <1>1, <1>2, <1>4 DEF Fresh

LEMMA IdleIs == Fresh(Idle, "idle", "none") /\ Idle.try = 1
<1> DEFINE i == NewImport(1, TRUE, FALSE)
           e == [i EXCEPT !.pc = "idle"]
<1>1. Fresh(i, "frame", "none") /\ i.try = 1
  BY NewImportIs
<1>2. Idle = e
  BY DEF Idle
<1> HIDE DEF i
<1>3. e = [umask |-> i.umask, acl |-> i.acl, pc |-> "idle", source |-> i.source, got |-> i.got, pos |-> i.pos,
           nar |-> i.nar, path |-> i.path, done |-> i.done, exit |-> i.exit, try |-> i.try]
  BY <1>1 DEF Fresh, Shape
<1> HIDE DEF e
<1>4. Shape(e)
  BY <1>3 DEF Shape
<1> QED BY <1>1, <1>2, <1>3, <1>4 DEF Fresh

LEMMA FreshHas ==
  ASSUME NEW file \in Cells, NEW i, NEW pc \in {"idle", "done", "frame"}, NEW exit, Fresh(i, pc, exit)
  PROVE  Has(i, file)
<1>1. <<>> \in Cells /\ IsPrefix(<<>>, file) /\ Len(<<>>) = 0
  BY EmptySeq, PrefixSelf DEF Cells
<1> QED BY <1>1 DEF Fresh, Has, Active

LEMMA OutsideHas ==
  ASSUME ReadInv, imp.pc \in {"idle", "done"}, NEW file \in Cells
  PROVE  Has(imp, file)
<1>1. <<>> \in Cells /\ IsPrefix(<<>>, file)
  BY EmptySeq, PrefixSelf DEF Cells
<1> QED BY <1>1 DEF ReadInv, Has

\* What the parser makes of what was read.
LEMMA FrameHere ==
  ASSUME ReadInv, ArchivesAreRead, imp.pc = "frame"
  PROVE  /\ imp.got \in Cells /\ imp.pos \in 0 .. Len(imp.got)
         /\ imp.pos # Len(imp.got) => Reads(imp.got, imp.pos)
<1>1. imp.got \in Cells /\ imp.pos \in 0 .. Len(imp.got)
  BY DEF ReadInv, Has
<1>2. Len(imp.got) \in Nat
  BY <1>1, LenProperties DEF Cells
<1>3. imp.pos # Len(imp.got) => imp.pos < Len(imp.got)
  BY <1>1, <1>2
<1> QED BY <1>1, <1>3, ReadsHere

\* What Verify makes of it.
LEMMA VerifyIs ==
  ASSUME ReadInv, ArchivesAreRead, Verify, NEW f, f = Frame(imp.got, imp.pos)
  PROVE  /\ imp.pc = "frame" /\ UNCHANGED <<disk, valid, rooted, setup, exp, bundle, fault>>
         /\ \/ f.res = "error" /\ imp' = Ended("failed")
            \/ /\ f.res = "end" /\ f.pos \in 0 .. Len(imp.got)
               /\ imp' = [imp EXCEPT !.pc = "root", !.pos = f.pos]
            \/ /\ f.res = "frame" /\ f.pos \in 0 .. Len(imp.got) /\ f.nar \in Cells
               /\ \E p \in f.path :
                    /\ p \in PathFor(NamePart(p), NarHash(f.nar))
                    /\ imp' = [imp EXCEPT !.pc = "add", !.pos = f.pos, !.nar = f.nar, !.path = p]
<1>1. imp.pc = "frame" /\ UNCHANGED <<disk, valid, rooted, setup, exp, bundle, fault>>
  BY DEF Verify, ExportSide
<1>2. imp.got \in Cells /\ imp.pos \in 0 .. Len(imp.got) /\ (imp.pos # Len(imp.got) => Reads(imp.got, imp.pos))
  BY <1>1, FrameHere
<1> DEFINE in == imp.got
           pos == imp.pos
<1>3. f = Frame(in, pos)
  OBVIOUS
<1> HIDE DEF in, pos
<1>4. /\ f.res = "end" => f.pos \in 0 .. Len(in)
      /\ f.res = "frame" =>
           /\ f.pos \in 0 .. Len(in) /\ f.nar \in Cells /\ f.path # {}
           /\ \A p \in f.path : p \in PathFor(NamePart(p), NarHash(f.nar))
  BY <1>2, <1>3, FrameAccepts DEF in, pos
<1>5. \/ f.res = "error" /\ imp' = Ended("failed")
      \/ f.res = "end" /\ imp' = [imp EXCEPT !.pc = "root", !.pos = f.pos]
      \/ /\ f.res = "frame"
         /\ imp' = [imp EXCEPT !.pc = "add", !.pos = f.pos, !.nar = f.nar, !.path = CHOOSE p \in f.path : TRUE]
  BY <1>3 DEF Verify, ImportFails, in, pos
<1>6. CASE /\ f.res = "frame"
           /\ imp' = [imp EXCEPT !.pc = "add", !.pos = f.pos, !.nar = f.nar, !.path = CHOOSE p \in f.path : TRUE]
  <2> DEFINE p == CHOOSE p \in f.path : TRUE
  <2>1. p \in f.path
    BY <1>4, <1>6
  <2>2. imp' = [imp EXCEPT !.pc = "add", !.pos = f.pos, !.nar = f.nar, !.path = p]
    BY <1>6
  <2> HIDE DEF p
  <2> QED BY <1>1, <1>4, <1>6, <2>1, <2>2 DEF in
<1> QED BY <1>1, <1>4, <1>5, <1>6 DEF in

\* Steps of the importer that leave what it has read alone.
LEMMA NextPathIs ==
  ASSUME ReadInv, NEW e, e = NextPath
  PROVE  /\ Has(e, bundle) /\ e.pc = "frame" /\ e.pos = imp.pos /\ e.got = imp.got /\ e.exit = imp.exit
         /\ e.try = imp.try /\ e.done = Append(imp.done, imp.path)
<1>1. Has(imp, bundle) /\ <<>> \in Cells
  BY EmptySeq DEF ReadInv, Cells
<1> DEFINE d == Append(imp.done, imp.path)
<1>2. e = [imp EXCEPT !.pc = "frame", !.done = d, !.nar = <<>>, !.path = <<>>]
  BY DEF NextPath
<1> HIDE DEF d
<1>3. Shape(e) /\ e.pc = "frame" /\ e.source = imp.source /\ e.got = imp.got /\ e.pos = imp.pos /\ e.nar = <<>>
      /\ e.done = d /\ e.exit = imp.exit /\ e.try = imp.try
  BY <1>1, <1>2 DEF Has, Shape
<1> QED BY <1>1, <1>3 DEF Has, Active, d

LEMMA MoveIs ==
  ASSUME ReadInv, NEW pc \in Active, NEW e, e = [imp EXCEPT !.pc = pc]
  PROVE  /\ Has(e, bundle) /\ e.pc = pc /\ e.pos = imp.pos /\ e.got = imp.got /\ e.nar = imp.nar
         /\ e.path = imp.path /\ e.done = imp.done /\ e.exit = imp.exit /\ e.try = imp.try
         /\ e.acl = imp.acl /\ e.umask = imp.umask
<1>1. Has(imp, bundle)
  BY DEF ReadInv
<1>2. /\ Shape(e) /\ e.pc = pc /\ e.source = imp.source /\ e.got = imp.got /\ e.pos = imp.pos /\ e.nar = imp.nar
      /\ e.path = imp.path /\ e.done = imp.done /\ e.exit = imp.exit /\ e.try = imp.try
      /\ e.acl = imp.acl /\ e.umask = imp.umask
  BY <1>1 DEF Has, Shape
<1> QED BY <1>1, <1>2 DEF Has, Active

LEMMA EndIs ==
  ASSUME ReadInv, NEW pos \in 0 .. Len(imp.got), NEW e, e = [imp EXCEPT !.pc = "root", !.pos = pos]
  PROVE  /\ Has(e, bundle) /\ e.pc = "root" /\ e.got = imp.got
         /\ e.done = imp.done /\ e.exit = imp.exit /\ e.try = imp.try
<1>1. Has(imp, bundle)
  BY DEF ReadInv
<1>2. /\ Shape(e) /\ e.pc = "root" /\ e.source = imp.source /\ e.got = imp.got /\ e.pos = pos /\ e.nar = imp.nar
      /\ e.done = imp.done /\ e.exit = imp.exit /\ e.try = imp.try
  BY <1>1 DEF Has, Shape
<1> QED BY <1>1, <1>2 DEF Has, Active

Added(e, pos, nar, p) ==
  /\ Has(e, bundle) /\ e.pc = "add" /\ e.got = imp.got /\ e.pos = pos /\ e.nar = nar /\ e.path = p
  /\ e.done = imp.done /\ e.exit = imp.exit /\ e.try = imp.try

LEMMA AddIs ==
  ASSUME ReadInv, NEW pos \in 0 .. Len(imp.got), NEW nar \in Cells, NEW p,
         NEW e, e = [imp EXCEPT !.pc = "add", !.pos = pos, !.nar = nar, !.path = p]
  PROVE  Added(e, pos, nar, p)
<1>1. Has(imp, bundle)
  BY DEF ReadInv
<1>2. /\ Shape(e) /\ e.pc = "add" /\ e.source = imp.source /\ e.got = imp.got /\ e.pos = pos /\ e.nar = nar
      /\ e.path = p /\ e.done = imp.done /\ e.exit = imp.exit /\ e.try = imp.try
  BY <1>1 DEF Has, Shape
<1> QED BY <1>1, <1>2 DEF Has, Active, Added

LEMMA MoreIs ==
  ASSUME ReadInv, bundle \in Cells, NEW pipe, NEW n \in ReadSizes(imp.source, bundle, pipe), imp.pc = "frame",
         NEW r, r = Read(ReadUnbuffered(imp.source, bundle, n), BufSize),
         NEW e, e = [imp EXCEPT !.source = r.source, !.got = imp.got \o r.data]
  PROVE  /\ Has(e, bundle) /\ e.pc = "frame" /\ e.pos = imp.pos
         /\ e.done = imp.done /\ e.exit = imp.exit /\ e.try = imp.try
<1>1. Has(imp, bundle)
  BY DEF ReadInv
<1> DEFINE in == imp.got
           u == in \o r.data
           s == r.source
<1>2. in \in Cells /\ IsPrefix(in, bundle) /\ imp.source = At(in) /\ imp.pos \in 0 .. Len(in)
  BY <1>1 DEF Has
<1> HIDE DEF in
<1>3. in \o r.data \in Cells /\ IsPrefix(in \o r.data, bundle) /\ r.source = At(in \o r.data)
      /\ Len(in) <= Len(in \o r.data)
  BY <1>2, ReadIs
<1>4. e = [imp EXCEPT !.source = s, !.got = u]
  BY DEF in
<1>6. u \in Cells /\ IsPrefix(u, bundle) /\ s = At(u) /\ Len(in) <= Len(u)
  BY <1>3
<1> HIDE DEF u, s
<1>7. Shape(e) /\ e.pc = "frame" /\ e.source = s /\ e.got = u /\ e.pos = imp.pos /\ e.nar = imp.nar
      /\ e.done = imp.done /\ e.exit = imp.exit /\ e.try = imp.try
  BY <1>1, <1>4 DEF Has, Shape
<1>9. e.pos \in 0 .. Len(u)
  <2>1. Len(in) \in Nat /\ Len(u) \in Nat BY <1>2, <1>6, LenProperties DEF Cells
  <2> QED BY <1>2, <1>6, <1>7, <2>1
<1> QED BY <1>1, <1>6, <1>7, <1>9 DEF Has, Active

Still == UNCHANGED <<setup, exp, bundle, fault>>

\* The importer stays where it is in the bundle.
Stays == imp'.pos = imp.pos /\ imp'.done = imp.done /\ imp'.exit = imp.exit /\ imp'.try = imp.try

LEMMA ReadBundleIs ==
  ASSUME ReadInv, bundle \in Cells, ReadBundle
  PROVE  /\ imp.pc = "frame" /\ Frame(imp.got, imp.pos).res = "eof" /\ UNCHANGED <<disk, valid, rooted>> /\ Still
         /\ \/ imp.got = bundle /\ imp' = Ended("failed")
            \/ Has(imp', bundle) /\ imp'.pc = "frame" /\ Stays
<1>1. imp.pc = "frame" /\ Frame(imp.got, imp.pos).res = "eof" /\ UNCHANGED <<disk, valid, rooted>> /\ Still
  BY DEF ReadBundle, ExportSide, Still
<1>2. Has(imp, bundle)
  BY DEF ReadInv
<1>3. CASE AtEof(imp.source, bundle) /\ ImportFails
  <2>1. imp.source = At(imp.got) /\ imp.got \in Cells /\ IsPrefix(imp.got, bundle)
    BY <1>2 DEF Has
  <2> DEFINE in == imp.got
  <2>2. Len(in) = Len(bundle)
    BY <1>3, <2>1 DEF AtEof, At
  <2> HIDE DEF in
  <2>3. in \in Cells /\ IsPrefix(in, bundle)
    BY <2>1 DEF in
  <2>4. \A i \in 1 .. Len(in) : in[i] = bundle[i]
    BY <2>3, PrefixAt DEF Cells
  <2>5. in = bundle
    BY <2>2, <2>3, <2>4, SeqEqual DEF Cells
  <2> QED BY <1>1, <1>3, <2>5 DEF ImportFails, in
<1>4. ASSUME NEW n \in ReadSizes(imp.source, bundle, setup.pipe), NEW r,
             r = Read(ReadUnbuffered(imp.source, bundle, n), BufSize),
             imp' = [imp EXCEPT !.source = r.source, !.got = imp.got \o r.data]
      PROVE  Has(imp', bundle) /\ imp'.pc = "frame" /\ Stays
  <2> DEFINE e == imp'
  <2>1. e = [imp EXCEPT !.source = r.source, !.got = imp.got \o r.data]
    BY <1>4
  <2> HIDE DEF e
  <2>2. Has(e, bundle) /\ e.pc = "frame" /\ e.pos = imp.pos /\ e.done = imp.done /\ e.exit = imp.exit /\ e.try = imp.try
    BY <1>1, <1>4, <2>1, MoreIs
  <2> QED BY <2>2 DEF e, Stays
<1>5. CASE \E n \in ReadSizes(imp.source, bundle, setup.pipe) :
             LET r == Read(ReadUnbuffered(imp.source, bundle, n), BufSize)
             IN  imp' = [imp EXCEPT !.source = r.source, !.got = @ \o r.data]
  <2>1. PICK n \in ReadSizes(imp.source, bundle, setup.pipe) :
          LET r == Read(ReadUnbuffered(imp.source, bundle, n), BufSize)
          IN  imp' = [imp EXCEPT !.source = r.source, !.got = @ \o r.data]
    BY <1>5
  <2> DEFINE r == Read(ReadUnbuffered(imp.source, bundle, n), BufSize)
  <2>2. r = Read(ReadUnbuffered(imp.source, bundle, n), BufSize)
    OBVIOUS
  <2>3. imp' = [imp EXCEPT !.source = r.source, !.got = imp.got \o r.data]
    BY <2>1
  <2> HIDE DEF r
  <2> QED BY <1>1, <1>4, <2>2, <2>3
<1> QED BY <1>1, <1>3, <1>5 DEF ReadBundle

LEMMA ReadInvStarts ==
  ASSUME Init, bundle \in Cells
  PROVE  ReadInv
<1>1. imp = Idle
  BY DEF Init
<1> QED BY <1>1, IdleIs, FreshHas DEF ReadInv

LEMMA ReadInvStep ==
  ASSUME ReadInv, ExportInv, ExportInv', ArchivesAreRead, [Next]_vars
  PROVE  ReadInv'
<1>1. bundle \in Cells /\ bundle' \in Cells
  BY DEF ExportInv
<1> DEFINE file == bundle'
           e == imp'
<1>2. file \in Cells
  BY <1>1
<1>3. Has(e, file) => ReadInv'
  BY DEF ReadInv
<1> HIDE DEF file, e
<1>4. CASE exp.pc # "done" /\ UNCHANGED ImportSide
  <2>1. imp.pc = "idle" BY <1>4 DEF ExportInv
  <2>2. e = imp BY <1>4 DEF ImportSide, e
  <2> QED BY <1>2, <1>3, <2>1, <2>2, OutsideHas
<1>5. CASE ExportNext BY <1>4, <1>5 DEF ExportNext
<1>6. CASE ExportNar BY <1>4, <1>6 DEF ExportNar
<1>7. CASE ExportCheck BY <1>4, <1>7 DEF ExportCheck
<1>8. CASE ExportTrailer BY <1>4, <1>8 DEF ExportTrailer
<1>9. CASE ExportEnd BY <1>4, <1>9 DEF ExportEnd
<1>10. CASE KillExport BY <1>4, <1>10 DEF KillExport, ImportSide
<1>11. CASE Damage
  <2>1. imp.pc = "idle" /\ e = imp BY <1>11 DEF Damage, e
  <2> QED BY <1>2, <1>3, <2>1, OutsideHas
<1>12. CASE StartImport
  <2>1. PICK umask, acl : e = NewImport(1, umask, acl) BY <1>12 DEF StartImport, e
  <2>2. Fresh(e, "frame", "none") BY <2>1, NewImportIs
  <2> QED BY <1>2, <1>3, <2>2, FreshHas
<1>13. CASE Retry
  <2>1. e = NewImport(2, imp.umask, imp.acl) BY <1>13 DEF Retry, e
  <2>2. Fresh(e, "frame", "none") BY <2>1, NewImportIs
  <2> QED BY <1>2, <1>3, <2>2, FreshHas
<1>14. ASSUME NEW x, e = Ended(x) PROVE ReadInv'
  <2>1. Fresh(e, "done", x) BY <1>14, EndedIs
  <2> QED BY <1>2, <1>3, <2>1, FreshHas
<1>15. ASSUME bundle' = bundle, Has(e, bundle) PROVE ReadInv'
  BY <1>3, <1>15 DEF file
<1>16. CASE ReadBundle
  <2>1. bundle' = bundle BY <1>16, <1>1, ReadBundleIs DEF Still
  <2>2. e = Ended("failed") \/ Has(e, bundle) BY <1>16, <1>1, ReadBundleIs DEF e
  <2> QED BY <1>14, <1>15, <2>1, <2>2
<1>17. CASE Verify
  <2> DEFINE f == Frame(imp.got, imp.pos)
  <2>1. f = Frame(imp.got, imp.pos) OBVIOUS
  <2> HIDE DEF f
  <2>2. /\ bundle' = bundle
        /\ \/ f.res = "error" /\ e = Ended("failed")
           \/ /\ f.res = "end" /\ f.pos \in 0 .. Len(imp.got)
              /\ e = [imp EXCEPT !.pc = "root", !.pos = f.pos]
           \/ /\ f.res = "frame" /\ f.pos \in 0 .. Len(imp.got) /\ f.nar \in Cells
              /\ \E p \in f.path :
                   /\ p \in PathFor(NamePart(p), NarHash(f.nar))
                   /\ e = [imp EXCEPT !.pc = "add", !.pos = f.pos, !.nar = f.nar, !.path = p]
    BY <1>17, <2>1, VerifyIs DEF e
  <2> DEFINE q == f.pos
             c == f.nar
  <2>3. CASE q \in 0 .. Len(imp.got) /\ e = [imp EXCEPT !.pc = "root", !.pos = q]
    <3> HIDE DEF q
    <3>1. Has(e, bundle) BY <2>3, EndIs
    <3> QED BY <1>15, <2>2, <3>1
  <2>4. CASE /\ q \in 0 .. Len(imp.got) /\ c \in Cells
             /\ \E p \in f.path : e = [imp EXCEPT !.pc = "add", !.pos = q, !.nar = c, !.path = p]
    <3>1. PICK p \in f.path : e = [imp EXCEPT !.pc = "add", !.pos = q, !.nar = c, !.path = p] BY <2>4
    <3>2. q \in 0 .. Len(imp.got) /\ c \in Cells BY <2>4
    <3> HIDE DEF q, c
    <3>3. Added(e, q, c, p) BY <3>1, <3>2, AddIs
    <3> QED BY <1>15, <2>2, <3>3 DEF Added
  <2> QED BY <1>14, <2>2, <2>3, <2>4
<1>18. CASE AddToStore
  <2>1. bundle' = bundle BY <1>18 DEF AddToStore, ExportSide
  <2>2. e = NextPath \/ e = [imp EXCEPT !.pc = "register"] \/ e = Ended("failed")
    BY <1>18 DEF AddToStore, ImportFails, e
  <2>3. "register" \in Active BY DEF Active
  <2>4. e = Ended("failed") \/ Has(e, bundle) BY <2>2, <2>3, NextPathIs, MoveIs
  <2> QED BY <1>14, <1>15, <2>1, <2>4
<1>19. CASE Register
  <2>1. bundle' = bundle BY <1>19 DEF Register, ExportSide
  <2>2. e = NextPath \/ e = Ended("failed")
    BY <1>19 DEF Register, ImportFails, e
  <2>3. e = Ended("failed") \/ Has(e, bundle) BY <2>2, NextPathIs
  <2> QED BY <1>14, <1>15, <2>1, <2>3
<1>20. CASE RootPaths
  <2>1. bundle' = bundle BY <1>20 DEF RootPaths, ExportSide
  <2>2. e = imp \/ e = Ended("ok") BY <1>20 DEF RootPaths, e
  <2>3. Has(imp, bundle) BY DEF ReadInv
  <2> QED BY <1>14, <1>15, <2>1, <2>2, <2>3
<1>21. CASE KillImport
  <2>1. e = Ended("killed") BY <1>21 DEF KillImport, e
  <2> QED BY <1>14, <2>1
<1>22. CASE Done \/ UNCHANGED vars
  <2>1. bundle' = bundle /\ e = imp BY <1>22 DEF Done, vars, e
  <2>2. Has(imp, bundle) BY DEF ReadInv
  <2> QED BY <1>15, <2>1, <2>2
<1> QED BY <1>5, <1>6, <1>7, <1>8, <1>9, <1>10, <1>11, <1>12, <1>13, <1>16, <1>17, <1>18, <1>19, <1>20, <1>21, <1>22
        DEF Next

--------------------------------------------------------------------------------
(* What is registered is what its row says.                                *)

\* A function that is given a value.
LEMMA ExceptIs ==
  ASSUME NEW f, NEW p \in DOMAIN f, NEW x, NEW g, g = [f EXCEPT ![p] = x]
  PROVE  /\ DOMAIN g = DOMAIN f /\ g[p] = x
         /\ \A b \in DOMAIN f : b # p => g[b] = f[b]
OBVIOUS

\* The row of the base name b says what the tree is.
Honest(row, tree, b) ==
  LET dump == Archive(tree.nodes)
  IN  /\ dump.ok
      /\ b \in PathFor(NamePart(b), NarHash(dump.cells))
      /\ RowInfo(row, b) = {PathInfo(b, dump.cells)}
      /\ IsCanonicalTree(tree)

AllHonest(v, d) == \A b \in DOMAIN v : Honest(v[b], d[b], b)

LEMMA HonestIs == RegisteredIsWhatItSays <=> AllHonest(valid, disk)
BY DEF RegisteredIsWhatItSays, AllHonest, Honest

\* The path in hand has the name that its archive gives it.
Named(i) == i.path \in PathFor(NamePart(i.path), NarHash(i.nar))

\* It is unpacked.
Unpacked ==
  /\ imp.path \notin DOMAIN valid /\ imp.path \in DOMAIN disk
  /\ disk[imp.path] = Unpack(imp.nar).sink /\ Unpack(imp.nar).res = "ok"

(* What is registered is honest; the path in hand passed the integrity     *)
(* check, and before it is registered it is unpacked from the archive that *)
(* passed.                                                                 *)
RegInv ==
  /\ DOMAIN valid \subseteq DOMAIN disk /\ AllHonest(valid, disk)
  /\ imp.pc \in {"add", "register"} => Named(imp)
  /\ imp.pc = "register" => Unpacked

\* What Register makes of an archive that was unpacked.
LEMMA RegisterIs ==
  ASSUME ReadInv, ArchivesUnpack, imp.pc = "register", imp.path \in DOMAIN disk, 
         disk[imp.path] = Unpack(imp.nar).sink, Unpack(imp.nar).res = "ok", Register
  PROVE  /\ Unpack(imp.nar).pos = Len(imp.nar) =>
              /\ imp' = NextPath
              /\ disk' = [disk EXCEPT ![imp.path] = Finished(Unpack(imp.nar).sink)]
              /\ \E row \in MakeRow(PathInfo(imp.path, imp.nar)) : valid' = With(valid, imp.path, row)
         /\ \/ imp' = Ended("failed") /\ UNCHANGED <<disk, valid>>
            \/ /\ Unpack(imp.nar).pos = Len(imp.nar)
               /\ SubSeq(imp.nar, 1, Unpack(imp.nar).pos) = imp.nar
<1> DEFINE n == imp.nar
           k == Unpack(n).pos
           r == Slice(n, 1, k)
           info == PathInfo(imp.path, n)
<1>1. n \in Cells /\ Len(n) \in Nat
  BY LenProperties DEF ReadInv, Has, Cells
<1>2. k \in 0 .. Len(n)
  BY DEF ArchivesUnpack
<1>3. IF NarHash(r) # info.narHash \/ Len(r) # info.narSize
      THEN imp' = Ended("failed") /\ UNCHANGED <<disk, valid>>
      ELSE /\ disk' = [disk EXCEPT ![imp.path] = Finished(disk[imp.path])]
           /\ \E row \in MakeRow(info) : valid' = With(valid, imp.path, row)
           /\ imp' = NextPath
  BY DEF Register, Slice, ImportFails
<1>4. info.narHash = NarHash(n) /\ info.narSize = Len(n)
  BY DEF PathInfo
<1>5. disk[imp.path] = Unpack(n).sink
  OBVIOUS
<1> HIDE DEF n, k, info
<1>6. Len(r) = IF 1 <= k THEN k - 1 + 1 ELSE 0
  <2>1. 1 \in Nat /\ 1 >= 1 /\ k \in Nat /\ k <= Len(n) BY <1>1, <1>2
  <2> QED BY <1>1, <2>1, SliceIs
<1>7. Len(r) = Len(n) => k = Len(n)
  BY <1>1, <1>2, <1>6
<1>8. k = Len(n) => r = n
  BY <1>1, SubSeqFull DEF Cells, Slice
<1> HIDE DEF r
<1>9. k = Len(n) => NarHash(r) = info.narHash /\ Len(r) = info.narSize
  BY <1>4, <1>8
<1>10. k = Len(n) =>
         /\ disk' = [disk EXCEPT ![imp.path] = Finished(Unpack(n).sink)]
         /\ \E row \in MakeRow(info) : valid' = With(valid, imp.path, row)
         /\ imp' = NextPath
  BY <1>3, <1>5, <1>9
<1>11. \/ imp' = Ended("failed") /\ UNCHANGED <<disk, valid>>
       \/ k = Len(n) /\ r = n
  BY <1>3, <1>4, <1>7, <1>8
<1> QED BY <1>10, <1>11 DEF n, k, info, r, Slice

\* A path that is unpacked, finished and registered.
LEMMA RegisteredHonest ==
  ASSUME ArchivesUnpack, imp.pc = "register", Named(imp), Unpack(imp.nar).res = "ok",
         SubSeq(imp.nar, 1, Unpack(imp.nar).pos) = imp.nar,
         NEW row \in MakeRow(PathInfo(imp.path, imp.nar))
  PROVE  Honest(row, Finished(Unpack(imp.nar).sink), imp.path)
<1> DEFINE n == imp.nar
           b == imp.path
           t == Finished(Unpack(n).sink)
<1>1. Archive(t.nodes) = [ok |-> TRUE, cells |-> n] /\ IsCanonicalTree(t)
  BY DEF ArchivesUnpack
<1>2. RowInfo(row, b) = {PathInfo(b, n)}
  BY DEF ArchivesUnpack
<1>3. b \in PathFor(NamePart(b), NarHash(n))
  BY DEF Named
<1> HIDE DEF n, b, t
<1>4. Archive(t.nodes).ok /\ Archive(t.nodes).cells = n
  BY <1>1
<1> QED BY <1>1, <1>2, <1>3, <1>4 DEF Honest, t, n, b

LEMMA RegInvStarts ==
  ASSUME Init
  PROVE  RegInv
<1>1. valid = << >> /\ disk = << >> /\ imp = Idle
  BY DEF Init, EmptyTree
<1>2. imp.pc = "idle"
  BY <1>1, IdleIs DEF Fresh
<1> QED BY <1>1, <1>2 DEF RegInv, AllHonest

\* Steps that register nothing.
LEMMA RegStays ==
  ASSUME RegInv, UNCHANGED <<disk, valid>>, imp'.pc = "add" => Named(imp'), imp'.pc # "register"
  PROVE  RegInv'
BY DEF RegInv

\* Something is unpacked at a path that is not valid.
LEMMA OtherHonest ==
  ASSUME NEW v, NEW d, DOMAIN v \subseteq DOMAIN d, AllHonest(v, d), NEW p, p \notin DOMAIN v, NEW g,
         DOMAIN d \subseteq DOMAIN g, \A b \in DOMAIN d : b # p => g[b] = d[b]
  PROVE  DOMAIN v \subseteq DOMAIN g /\ AllHonest(v, g)
<1>1. DOMAIN v \subseteq DOMAIN g
  OBVIOUS
<1>2. ASSUME NEW b \in DOMAIN v PROVE Honest(v[b], g[b], b)
  <2>1. g[b] = d[b] /\ Honest(v[b], d[b], b) BY DEF AllHonest
  <2> QED BY <2>1
<1> QED BY <1>1, <1>2 DEF AllHonest

LEMMA AddToStoreIs ==
  ASSUME ReadInv, AddToStore
  PROVE  /\ imp.pc = "add" /\ UNCHANGED <<valid, rooted>> /\ Still
         /\ \/ imp.path \in DOMAIN valid /\ imp' = NextPath /\ UNCHANGED disk
            \/ /\ imp.path \notin DOMAIN valid /\ disk' = With(disk, imp.path, Unpack(imp.nar).sink)
               /\ \/ Unpack(imp.nar).res = "ok" /\ imp' = [imp EXCEPT !.pc = "register"]
                  \/ Unpack(imp.nar).res # "ok" /\ imp' = Ended("failed")
BY DEF AddToStore, ExportSide, Still, ImportFails

LEMMA AddToStoreKeeps ==
  ASSUME ReadInv, RegInv, AddToStore
  PROVE  RegInv'
<1>1. imp.pc = "add" /\ valid' = valid
  BY AddToStoreIs
<1> DEFINE p == imp.path
           u == Unpack(imp.nar)
           e == imp'
           g == disk'
<1>2. DOMAIN valid \subseteq DOMAIN disk /\ AllHonest(valid, disk) /\ Named(imp)
  BY <1>1 DEF RegInv
<1>3. CASE p \in DOMAIN valid /\ imp' = NextPath /\ UNCHANGED disk
  <2>1. e = NextPath BY <1>3
  <2> HIDE DEF e
  <2>2. e.pc = "frame" BY <2>1, NextPathIs
  <2> QED BY <1>1, <1>3, <2>2, RegStays DEF e
<1>4. ASSUME p \notin DOMAIN valid, disk' = With(disk, p, u.sink)
      PROVE  /\ DOMAIN valid' \subseteq DOMAIN disk' /\ AllHonest(valid', disk')
             /\ p \notin DOMAIN valid' /\ p \in DOMAIN disk' /\ disk'[p] = u.sink
  <2> DEFINE s == u.sink
  <2>1. g = With(disk, p, s) BY <1>4
  <2> HIDE DEF p, s, g
  <2>2. DOMAIN g = DOMAIN disk \cup {p} /\ g[p] = s /\ \A b \in DOMAIN disk : b # p => g[b] = disk[b]
    BY <2>1 DEF With
  <2>3. DOMAIN valid \subseteq DOMAIN g /\ AllHonest(valid, g)
    BY <1>2, <1>4, <2>2, OtherHonest
  <2> QED BY <1>1, <1>4, <2>2, <2>3 DEF g, s
<1>5. CASE p \notin DOMAIN valid /\ disk' = With(disk, p, u.sink) /\ u.res = "ok" /\ imp' = [imp EXCEPT !.pc = "register"]
  <2>1. e = [imp EXCEPT !.pc = "register"] BY <1>5
  <2>2. "register" \in Active BY DEF Active
  <2> HIDE DEF e
  <2>3. /\ e.pc = "register" /\ e.path = imp.path /\ e.nar = imp.nar /\ e.acl = imp.acl /\ e.umask = imp.umask
    BY <2>1, <2>2, MoveIs
  <2>4. Named(e) BY <1>2, <2>3 DEF Named
  <2>5. Unpack(imp.nar)' = Unpack(imp.nar)
    BY <2>3 DEF Unpack, e
  <2>6. Unpacked'
    BY <1>4, <1>5, <2>3, <2>5 DEF Unpacked, e
  <2> QED BY <1>4, <1>5, <2>3, <2>4, <2>6 DEF RegInv, Named, e
<1>6. CASE p \notin DOMAIN valid /\ disk' = With(disk, p, u.sink) /\ imp' = Ended("failed")
  <2>1. e = Ended("failed") BY <1>6
  <2> HIDE DEF e
  <2>2. e.pc = "done" BY <2>1, EndedIs DEF Fresh
  <2> QED BY <1>4, <1>6, <2>2 DEF RegInv, e
<1> QED BY <1>3, <1>5, <1>6, AddToStoreIs

LEMMA RegisterKeeps ==
  ASSUME ReadInv, RegInv, ArchivesUnpack, Register
  PROVE  RegInv'
<1> DEFINE p == imp.path
           u == Unpack(imp.nar)
           e == imp'
           g == disk'
           v == valid'
           t == Finished(u.sink)
           info == PathInfo(imp.path, imp.nar)
<1>1. imp.pc = "register"
  BY DEF Register
<1>2. DOMAIN valid \subseteq DOMAIN disk /\ AllHonest(valid, disk) /\ Named(imp)
      /\ p \notin DOMAIN valid /\ p \in DOMAIN disk /\ disk[p] = u.sink /\ u.res = "ok"
  BY <1>1 DEF RegInv, Unpacked
<1>3. CASE e = Ended("failed") /\ UNCHANGED <<disk, valid>>
  <2>1. e = Ended("failed") BY <1>3
  <2> HIDE DEF e
  <2>2. e.pc = "done" BY <2>1, EndedIs DEF Fresh
  <2> QED BY <1>3, <2>2, RegStays DEF e
<1>4. CASE u.pos = Len(imp.nar) /\ SubSeq(imp.nar, 1, u.pos) = imp.nar
  <2>1. e = NextPath /\ g = [disk EXCEPT ![p] = t] /\ \E row \in MakeRow(info) : v = With(valid, p, row)
    BY <1>1, <1>2, <1>4, RegisterIs
  <2>2. PICK row \in MakeRow(info) : v = With(valid, p, row)
    BY <2>1
  <2>3. Honest(row, t, p)
    BY <1>1, <1>2, <1>4, RegisteredHonest
  <2>4. e.pc = "frame"
    <3> HIDE DEF e
    <3> QED BY <2>1, NextPathIs
  <2> HIDE DEF p, u, g, v, t, info, e
  <2>5. DOMAIN g = DOMAIN disk /\ g[p] = t /\ \A b \in DOMAIN disk : b # p => g[b] = disk[b]
    BY <1>2, <2>1, ExceptIs
  <2>6. DOMAIN v = DOMAIN valid \cup {p} /\ v[p] = row /\ \A b \in DOMAIN valid : b # p => v[b] = valid[b]
    BY <2>2 DEF With
  <2>7. DOMAIN v \subseteq DOMAIN g
    BY <1>2, <2>5, <2>6
  <2>8. ASSUME NEW b \in DOMAIN v PROVE Honest(v[b], g[b], b)
    <3>1. CASE b = p BY <2>3, <2>5, <2>6, <3>1
    <3>2. CASE b # p
      <4>1. b \in DOMAIN valid /\ b \in DOMAIN disk BY <1>2, <2>6, <2>8, <3>2
      <4>2. v[b] = valid[b] /\ g[b] = disk[b] BY <2>5, <2>6, <3>2, <4>1
      <4>3. Honest(valid[b], disk[b], b) BY <1>2, <4>1 DEF AllHonest
      <4> QED BY <4>2, <4>3
    <3> QED BY <3>1, <3>2
  <2>9. AllHonest(v, g)
    BY <2>8 DEF AllHonest
  <2> QED BY <2>4, <2>7, <2>9 DEF RegInv, e, g, v
<1> QED BY <1>1, <1>2, <1>3, <1>4, RegisterIs

LEMMA KillImportKeeps ==
  ASSUME RegInv, KillImport
  PROVE  RegInv'
<1> DEFINE e == imp'
           g == disk'
<1>1. e = Ended("killed") /\ valid' = valid
  BY DEF KillImport
<1>2. DOMAIN valid \subseteq DOMAIN disk /\ AllHonest(valid, disk)
  BY DEF RegInv
<1>3. e.pc = "done"
  <2> HIDE DEF e
  <2> QED BY <1>1, EndedIs DEF Fresh
<1>4. CASE UNCHANGED disk
  BY <1>1, <1>3, <1>4, RegStays
<1>5. CASE /\ imp.path \notin DOMAIN valid
           /\ \E k \in 0 .. Len(imp.nar) : disk' = With(disk, imp.path, Unpack(SubSeq(imp.nar, 1, k)).sink)
  <2>1. PICK k \in 0 .. Len(imp.nar) : disk' = With(disk, imp.path, Unpack(SubSeq(imp.nar, 1, k)).sink)
    BY <1>5
  <2> DEFINE p == imp.path
             s == Unpack(SubSeq(imp.nar, 1, k)).sink
  <2>2. g = With(disk, p, s) /\ p \notin DOMAIN valid
    BY <1>5, <2>1
  <2> HIDE DEF p, s, g
  <2>3. DOMAIN g = DOMAIN disk \cup {p} /\ \A b \in DOMAIN disk : b # p => g[b] = disk[b]
    BY <2>2 DEF With
  <2>4. DOMAIN valid \subseteq DOMAIN g /\ AllHonest(valid, g)
    BY <1>2, <2>2, <2>3, OtherHonest
  <2> QED BY <1>1, <1>3, <2>4 DEF RegInv, g
<1> QED BY <1>4, <1>5 DEF KillImport

LEMMA RegInvStep ==
  ASSUME RegInv, ReadInv, bundle \in Cells, CodecsKeepPromises, [Next]_vars
  PROVE  RegInv'
<1> DEFINE e == imp'
<1>1. ArchivesAreRead /\ ArchivesUnpack
  BY DEF CodecsKeepPromises
<1>2. ASSUME e.pc \notin {"add", "register"}, UNCHANGED <<disk, valid>> PROVE RegInv'
  BY <1>2, RegStays
<1>3. ASSUME UNCHANGED <<imp, disk, valid>> PROVE RegInv'
  <2>1. Unpacked => Unpacked' BY <1>3 DEF Unpacked, Unpack
  <2> QED BY <1>3, <2>1 DEF RegInv, Named
<1>4. CASE UNCHANGED ImportSide BY <1>3, <1>4 DEF ImportSide
<1>5. CASE ExportNext BY <1>4, <1>5 DEF ExportNext
<1>6. CASE ExportNar BY <1>4, <1>6 DEF ExportNar
<1>7. CASE ExportCheck BY <1>4, <1>7 DEF ExportCheck
<1>8. CASE ExportTrailer BY <1>4, <1>8 DEF ExportTrailer
<1>9. CASE ExportEnd BY <1>4, <1>9 DEF ExportEnd
<1>10. CASE KillExport BY <1>3, <1>10 DEF KillExport
<1>11. CASE Damage BY <1>3, <1>11 DEF Damage
<1>12. CASE StartImport
  <2>1. PICK umask, acl : e = NewImport(1, umask, acl) BY <1>12 DEF StartImport
  <2> HIDE DEF e
  <2>2. e.pc = "frame" BY <2>1, NewImportIs DEF Fresh
  <2> QED BY <1>2, <1>12, <2>2 DEF StartImport
<1>13. CASE Retry
  <2>1. e = NewImport(2, imp.umask, imp.acl) BY <1>13 DEF Retry
  <2> HIDE DEF e
  <2>2. e.pc = "frame" BY <2>1, NewImportIs DEF Fresh
  <2> QED BY <1>2, <1>13, <2>2 DEF Retry
<1>14. ASSUME NEW x, e = Ended(x), UNCHANGED <<disk, valid>> PROVE RegInv'
  <2> HIDE DEF e
  <2>1. e.pc = "done" BY <1>14, EndedIs DEF Fresh
  <2> QED BY <1>2, <1>14, <2>1
<1>15. CASE ReadBundle
  <2>1. UNCHANGED <<disk, valid>> BY <1>15, ReadBundleIs
  <2>2. e = Ended("failed") \/ e.pc = "frame" BY <1>15, ReadBundleIs
  <2> HIDE DEF e
  <2> QED BY <1>2, <1>14, <2>1, <2>2
<1>16. CASE Verify
  <2> DEFINE f == Frame(imp.got, imp.pos)
             q == f.pos
             c == f.nar
  <2>1. f = Frame(imp.got, imp.pos) OBVIOUS
  <2> HIDE DEF f
  <2>2. /\ UNCHANGED <<disk, valid>>
        /\ \/ e = Ended("failed")
           \/ q \in 0 .. Len(imp.got) /\ e = [imp EXCEPT !.pc = "root", !.pos = q]
           \/ /\ q \in 0 .. Len(imp.got) /\ c \in Cells
              /\ \E p \in f.path :
                   /\ p \in PathFor(NamePart(p), NarHash(c))
                   /\ e = [imp EXCEPT !.pc = "add", !.pos = q, !.nar = c, !.path = p]
    BY <1>1, <1>16, <2>1, VerifyIs
  <2> HIDE DEF q, c, e
  <2>3. CASE q \in 0 .. Len(imp.got) /\ e = [imp EXCEPT !.pc = "root", !.pos = q]
    <3>1. e.pc = "root" BY <2>3, EndIs
    <3> QED BY <1>2, <2>2, <3>1
  <2>4. CASE /\ q \in 0 .. Len(imp.got) /\ c \in Cells
             /\ \E p \in f.path : /\ p \in PathFor(NamePart(p), NarHash(c))
                                  /\ e = [imp EXCEPT !.pc = "add", !.pos = q, !.nar = c, !.path = p]
    <3>1. PICK p \in f.path : /\ p \in PathFor(NamePart(p), NarHash(c))
                              /\ e = [imp EXCEPT !.pc = "add", !.pos = q, !.nar = c, !.path = p]
      BY <2>4
    <3>2. e.pc = "add" /\ e.nar = c /\ e.path = p
      <4>1. q \in 0 .. Len(imp.got) /\ c \in Cells /\ e = [imp EXCEPT !.pc = "add", !.pos = q, !.nar = c, !.path = p]
        BY <2>4, <3>1
      <4>2. Added(e, q, c, p) BY <4>1, AddIs
      <4> QED BY <4>2 DEF Added
    <3>3. Named(e) BY <3>1, <3>2 DEF Named
    <3> QED BY <2>2, <3>2, <3>3, RegStays DEF e
  <2> QED BY <1>14, <2>2, <2>3, <2>4
<1>17. CASE AddToStore BY <1>17, AddToStoreKeeps
<1>18. CASE Register BY <1>1, <1>18, RegisterKeeps
<1>19. CASE RootPaths
  <2>1. UNCHANGED <<disk, valid>> /\ (imp' = imp \/ e = Ended("ok")) BY <1>19 DEF RootPaths
  <2> HIDE DEF e
  <2> QED BY <1>3, <1>14, <2>1
<1>20. CASE KillImport BY <1>20, KillImportKeeps
<1>21. CASE Done \/ UNCHANGED vars BY <1>3, <1>21 DEF Done, vars
<1> QED BY <1>5, <1>6, <1>7, <1>8, <1>9, <1>10, <1>11, <1>12, <1>13, <1>15, <1>16, <1>17, <1>18, <1>19, <1>20, <1>21
        DEF Next

--------------------------------------------------------------------------------
(* The importer follows the exporter, row by row.                          *)

\* The importer i follows the rows of a store in which the paths of rot have rotted.
InHand(i, rot, n) ==
  /\ n \in 1 .. Len(Rows) /\ Rows[n].base \notin rot /\ i.path = Rows[n].base
  /\ i.nar = Dump(Rows[n].tree) /\ i.pos = Len(Sent[n])

Follows(i, rot) ==
  /\ Len(i.done) \in 0 .. Len(Rows) /\ Intact(rot, Len(i.done))
  /\ \A k \in 1 .. Len(i.done) : i.done[k] = Rows[k].base
  /\ i.pc = "frame" => i.pos = Len(Sent[Len(i.done)])
  /\ i.pc \in {"add", "register"} => InHand(i, rot, Len(i.done) + 1)
  /\ i.pc = "root" => Len(i.done) = Len(Rows)

\* What is registered under a name of the exporting store is what it has there.
Right(v, d) == \A e \in Exported : e.base \in DOMAIN v => d[e.base].nodes = e.tree

Everything(v, r) == \A e \in Exported : e.base \in DOMAIN v \cap r

Again == fault = "none" /\ setup.rot = {} /\ bundle = WholeBundle

(* With the beginning of an exported bundle the importer follows the rows  *)
(* of the exporting store; what it is done with is valid; what is valid    *)
(* under a name of that store is what it has there; success means that     *)
(* everything is registered and rooted; and the second time the bundle is  *)
(* intact and the import does not fail.                                    *)
WholeInv ==
  /\ fault \in {"none", "cut"} => Follows(imp, setup.rot)
  /\ imp.done \in Seq(DOMAIN valid) /\ Right(valid, disk)
  /\ imp.exit = "ok" => imp.pc = "done"
  /\ imp.exit = "ok" /\ fault \in {"none", "cut"} => Everything(valid, rooted)
  /\ imp.pc = "idle" => imp.try = 1
  /\ imp.try = 2 => Again /\ (imp.pc = "done" => imp.exit = "ok")

LEMMA FreshFollows ==
  ASSUME NEW i, NEW pc \in {"idle", "done", "frame"}, NEW exit, Fresh(i, pc, exit), NEW rot
  PROVE  Follows(i, rot) /\ i.pc = pc /\ i.exit = exit /\ \A S : i.done \in Seq(S)
<1>1. i.pc = pc /\ i.exit = exit /\ i.done = <<>> /\ i.pos = 0 /\ Len(<<>>) = 0
  BY DEF Fresh
<1>2. Sent[0] = <<>> /\ Len(Rows) \in Nat
  BY SentIs, Constants
<1>3. Intact(rot, 0)
  BY DEF Intact
<1>4. 0 \in 0 .. Len(Rows)
  BY <1>2
<1>5. Follows(i, rot)
  BY <1>1, <1>2, <1>3, <1>4 DEF Follows
<1>6. \A S : i.done \in Seq(S)
  BY <1>1, EmptySeq
<1> QED BY <1>1, <1>5, <1>6

LEMMA WholeInvStarts ==
  ASSUME Init
  PROVE  WholeInv
<1>1. imp = Idle /\ valid = << >>
  BY DEF Init, EmptyTree
<1>2. Fresh(imp, "idle", "none") /\ imp.try = 1
  BY <1>1, IdleIs
<1>3. Follows(imp, setup.rot) /\ imp.pc = "idle" /\ imp.exit = "none" /\ \A S : imp.done \in Seq(S)
  BY <1>2, FreshFollows
<1>4. Right(valid, disk)
  BY <1>1 DEF Right
<1> QED BY <1>2, <1>3, <1>4 DEF WholeInv

\* The importer goes on, or it stops.
LEMMA ImportGoesOn ==
  ASSUME WholeInv, Still, imp.pc \in Active, imp'.pc \in Active, imp'.exit = imp.exit, imp'.try = imp.try,
         fault \in {"none", "cut"} => Follows(imp', setup.rot),
         imp'.done \in Seq(DOMAIN valid'), Right(valid', disk')
  PROVE  WholeInv'
<1>1. setup' = setup /\ fault' = fault /\ bundle' = bundle
  BY DEF Still
<1>2. imp.exit # "ok" /\ imp'.pc # "done" /\ imp'.pc # "idle"
  BY DEF WholeInv, Active
<1>3. imp.try = 2 => Again
  BY DEF WholeInv
<1>4. Again => Again'
  BY <1>1 DEF Again
<1> QED BY <1>1, <1>2, <1>3, <1>4 DEF WholeInv

LEMMA ImportFailed ==
  ASSUME WholeInv, Still, NEW x, x # "ok", imp' = Ended(x), imp.try # 2, Right(valid', disk')
  PROVE  WholeInv'
<1> DEFINE e == imp'
<1>1. setup' = setup /\ fault' = fault /\ bundle' = bundle
  BY DEF Still
<1>2. e = Ended(x)
  OBVIOUS
<1> HIDE DEF e
<1>3. Fresh(e, "done", x) /\ e.try = imp.try
  BY <1>2, EndedIs
<1>4. Follows(e, setup.rot) /\ e.pc = "done" /\ e.exit = x /\ \A S : e.done \in Seq(S)
  BY <1>3, FreshFollows
<1> QED BY <1>1, <1>3, <1>4 DEF WholeInv, e

\* A path is done.
LEMMA NextFollows ==
  ASSUME NEW rot, NEW i, Follows(i, rot), i.pc \in {"add", "register"}, NEW S, i.done \in Seq(S), i.path \in S,
         NEW e, e.done = Append(i.done, i.path), e.pc = "frame", e.pos = i.pos
  PROVE  Follows(e, rot) /\ e.done \in Seq(S)
<1> DEFINE d == i.done
           k == Len(d)
           n == k + 1
           p == i.path
           a == Append(d, p)
<1>1. k \in Nat /\ Len(Rows) \in Nat
  BY LenProperties, Constants
<1>2. n \in 1 .. Len(Rows) /\ Rows[n].base \notin rot /\ p = Rows[n].base /\ i.pos = Len(Sent[n])
  BY DEF Follows, InHand
<1>3. Intact(rot, k) /\ \A j \in 1 .. k : d[j] = Rows[j].base
  BY DEF Follows
<1>4. a \in Seq(S) /\ Len(a) = k + 1 /\ a[k + 1] = p /\ \A j \in 1 .. k : a[j] = d[j]
  BY AppendProperties
<1>5. n = k + 1 /\ p \in S
  OBVIOUS
<1>6. e.done = a /\ e.pos = Len(Sent[n])
  BY <1>2
<1> HIDE DEF d, k, n, p, a
<1>7. \A j \in 1 .. n : j \in 1 .. k \/ j = n
  BY <1>1, <1>5
<1>8. Intact(rot, n)
  BY <1>2, <1>3, <1>7 DEF Intact
<1>9. \A j \in 1 .. n : a[j] = Rows[j].base
  BY <1>2, <1>3, <1>4, <1>5, <1>7
<1>10. Len(a) = n /\ n \in 0 .. Len(Rows)
  BY <1>1, <1>2, <1>4, <1>5
<1> QED BY <1>4, <1>6, <1>8, <1>9, <1>10 DEF Follows

\* While the bundle is the beginning of what was exported.
Shipped == fault \in {"none", "cut"}

LEMMA BundleIs ==
  ASSUME ExportInv, ReadInv, imp.pc = "frame", Shipped
  PROVE  /\ setup.rot \in SUBSET Bases /\ imp.got \in Cells /\ IsPrefix(imp.got, Stream(setup.rot))
         /\ Len(imp.got) \in Nat
<1> DEFINE s == Stream(setup.rot)
           in == imp.got
<1>1. exp.pc = "done"
  BY DEF ExportInv
<1>2. setup.rot \in SUBSET Bases /\ bundle \in Cells /\ IsPrefix(bundle, s)
  BY <1>1 DEF ExportInv, Setups, Shipped
<1>3. in \in Cells /\ IsPrefix(in, bundle)
  BY DEF ReadInv, Has
<1>4. s \in Cells
  BY <1>2, StreamIs
<1> HIDE DEF s, in
<1>5. IsPrefix(in, s)
  BY <1>2, <1>3, <1>4, PrefixTrans DEF Cells
<1> QED BY <1>2, <1>3, <1>5, LenProperties DEF Cells, s, in

\* What the frame at hand can be.
LEMMA NextFrame ==
  ASSUME ExportInv, ReadInv, ArchivesAreRead, imp.pc = "frame", Shipped, Follows(imp, setup.rot),
         NEW k, k = Len(imp.done), NEW f, f = Frame(imp.got, imp.pos)
  PROVE  \/ f.res = "eof" /\ (setup.rot = {} => imp.got # WholeBundle)
         \/ f.res = "end" /\ k = Len(Rows)
         \/ /\ f.res = "frame" /\ k + 1 \in 1 .. Len(Rows) /\ Rows[k + 1].base \notin setup.rot
            /\ f.pos = Len(Sent[k + 1]) /\ f.nar = Dump(Rows[k + 1].tree) /\ f.path = {Rows[k + 1].base}
<1> DEFINE in == imp.got
           pos == imp.pos
           rot == setup.rot
<1>1. rot \in SUBSET Bases /\ in \in Cells /\ IsPrefix(in, Stream(rot)) /\ Len(in) \in Nat
  BY BundleIs
<1>2. pos \in 0 .. Len(in) /\ (pos # Len(in) => Reads(in, pos))
  BY FrameHere
<1>3. k \in 0 .. Len(Rows) /\ Intact(rot, k) /\ pos = Len(Sent[k])
  BY DEF Follows
<1>4. f = Frame(in, pos) /\ Len(Rows) \in Nat
  BY Constants
<1> HIDE DEF in, pos, rot
<1>5. pos <= Len(in)
  BY <1>1, <1>2
<1>6. \/ f.res = "eof" /\ (rot = {} => in # Stream(rot))
      \/ f.res = "end" /\ k = Len(Rows)
      \/ /\ f.res = "frame" /\ k < Len(Rows) /\ Rows[k + 1].base \notin rot
         /\ f.pos = Len(Sent[k + 1]) /\ Len(Sent[k + 1]) <= Len(in)
         /\ f.nar = Dump(Rows[k + 1].tree) /\ f.path = {Rows[k + 1].base}
  BY <1>1, <1>2, <1>3, <1>4, <1>5, FrameOfStream
<1>7. rot = {} => Stream(rot) = WholeBundle
  BY DEF Stream
<1>8. k < Len(Rows) => k + 1 \in 1 .. Len(Rows)
  BY <1>3, <1>4
<1> QED BY <1>6, <1>7, <1>8 DEF in, rot

LEMMA ReadBundleGoesOn ==
  ASSUME ExportInv, ReadInv, ArchivesAreRead, WholeInv, ReadBundle
  PROVE  WholeInv'
<1> DEFINE e == imp'
<1>1. /\ imp.pc = "frame" /\ Frame(imp.got, imp.pos).res = "eof" /\ UNCHANGED <<disk, valid, rooted>> /\ Still
      /\ \/ imp.got = bundle /\ e = Ended("failed")
         \/ e.pc = "frame" /\ Stays
  BY ReadBundleIs DEF ExportInv
<1>2. imp.pc \in Active
  BY <1>1 DEF Active
<1>3. imp.done \in Seq(DOMAIN valid) /\ Right(valid, disk) /\ (Shipped => Follows(imp, setup.rot))
  BY DEF WholeInv, Shipped
<1>4. CASE imp.got = bundle /\ e = Ended("failed")
  <2>1. imp.try # 2
    <3> SUFFICES ASSUME imp.try = 2 PROVE FALSE
      OBVIOUS
    <3>1. fault = "none" /\ setup.rot = {} /\ bundle = WholeBundle BY DEF WholeInv, Again
    <3>2. Shipped /\ Follows(imp, setup.rot) BY <1>3, <3>1 DEF Shipped
    <3> DEFINE f == Frame(imp.got, imp.pos)
               k == Len(imp.done)
    <3>3. f = Frame(imp.got, imp.pos) /\ k = Len(imp.done) /\ f.res = "eof" BY <1>1
    <3> HIDE DEF f, k
    <3>4. imp.got # WholeBundle BY <1>1, <3>1, <3>2, <3>3, NextFrame
    <3> QED BY <1>4, <3>1, <3>4
  <2> QED BY <1>1, <1>3, <1>4, <2>1, ImportFailed
<1>5. CASE e.pc = "frame" /\ Stays
  <2>1. Shipped => Follows(e, setup.rot)
    BY <1>1, <1>3, <1>5 DEF Follows, Stays
  <2>2. e.pc \in Active
    BY <1>5 DEF Active
  <2> QED BY <1>1, <1>2, <1>3, <1>5, <2>1, <2>2, ImportGoesOn DEF Stays, Shipped
<1> QED BY <1>1, <1>4, <1>5

LEMMA VerifyGoesOn ==
  ASSUME ExportInv, ReadInv, ArchivesAreRead, WholeInv, Verify
  PROVE  WholeInv'
<1> DEFINE e == imp'
           f == Frame(imp.got, imp.pos)
           k == Len(imp.done)
           q == f.pos
           c == f.nar
<1>1. f = Frame(imp.got, imp.pos) /\ k = Len(imp.done)
  OBVIOUS
<1> HIDE DEF f, k
<1>2. /\ imp.pc = "frame" /\ UNCHANGED <<disk, valid, rooted, setup, exp, bundle, fault>>
      /\ \/ f.res = "error" /\ e = Ended("failed")
         \/ /\ f.res = "end" /\ q \in 0 .. Len(imp.got)
            /\ e = [imp EXCEPT !.pc = "root", !.pos = q]
         \/ /\ f.res = "frame" /\ q \in 0 .. Len(imp.got) /\ c \in Cells
            /\ \E p \in f.path :
                 /\ p \in PathFor(NamePart(p), NarHash(c))
                 /\ e = [imp EXCEPT !.pc = "add", !.pos = q, !.nar = c, !.path = p]
  BY <1>1, VerifyIs
<1>3. Still /\ imp.pc \in Active
  BY <1>2 DEF Still, Active
<1>4. imp.done \in Seq(DOMAIN valid) /\ Right(valid, disk) /\ (Shipped => Follows(imp, setup.rot))
  BY DEF WholeInv, Shipped
<1>5. Shipped =>
        \/ f.res = "eof" /\ (setup.rot = {} => imp.got # WholeBundle)
        \/ f.res = "end" /\ k = Len(Rows)
        \/ /\ f.res = "frame" /\ k + 1 \in 1 .. Len(Rows) /\ Rows[k + 1].base \notin setup.rot
           /\ q = Len(Sent[k + 1]) /\ c = Dump(Rows[k + 1].tree) /\ f.path = {Rows[k + 1].base}
  BY <1>1, <1>2, <1>4, NextFrame
<1> HIDE DEF e, q, c
<1>6. CASE f.res = "error" /\ e = Ended("failed")
  <2>1. ~Shipped
    BY <1>5, <1>6
  <2>2. imp.try # 2
    BY <2>1 DEF WholeInv, Again, Shipped
  <2> QED BY <1>2, <1>3, <1>4, <1>6, <2>2, ImportFailed DEF e
<1>7. CASE f.res = "end" /\ q \in 0 .. Len(imp.got) /\ e = [imp EXCEPT !.pc = "root", !.pos = q]
  <2>1. e.pc = "root" /\ e.done = imp.done /\ e.exit = imp.exit /\ e.try = imp.try
    BY <1>7, EndIs
  <2>2. Shipped => Follows(e, setup.rot)
    <3>1. Shipped => k = Len(Rows) BY <1>5, <1>7
    <3> QED BY <1>1, <1>4, <2>1, <3>1 DEF Follows
  <2>3. e.pc \in Active
    BY <2>1 DEF Active
  <2> QED BY <1>2, <1>3, <1>4, <2>1, <2>2, <2>3, ImportGoesOn DEF e, Shipped
<1>8. CASE /\ f.res = "frame" /\ q \in 0 .. Len(imp.got) /\ c \in Cells
           /\ \E p \in f.path : e = [imp EXCEPT !.pc = "add", !.pos = q, !.nar = c, !.path = p]
  <2>1. PICK p \in f.path : e = [imp EXCEPT !.pc = "add", !.pos = q, !.nar = c, !.path = p]
    BY <1>8
  <2>2. Added(e, q, c, p)
    BY <1>8, <2>1, AddIs
  <2>3. e.pc = "add" /\ e.done = imp.done /\ e.exit = imp.exit /\ e.try = imp.try /\ e.pos = q /\ e.nar = c
        /\ e.path = p
    BY <2>2 DEF Added
  <2>4. Shipped => Follows(e, setup.rot)
    <3> SUFFICES ASSUME Shipped PROVE Follows(e, setup.rot)
      OBVIOUS
    <3>1. /\ k + 1 \in 1 .. Len(Rows) /\ Rows[k + 1].base \notin setup.rot
          /\ q = Len(Sent[k + 1]) /\ c = Dump(Rows[k + 1].tree) /\ f.path = {Rows[k + 1].base}
      BY <1>5, <1>8
    <3>2. p = Rows[k + 1].base
      BY <2>1, <3>1
    <3>3. InHand(e, setup.rot, k + 1)
      BY <2>3, <3>1, <3>2 DEF InHand
    <3>4. Follows(imp, setup.rot)
      BY <1>4
    <3> QED BY <1>1, <2>3, <3>3, <3>4 DEF Follows
  <2>5. e.pc \in Active
    BY <2>3 DEF Active
  <2> QED BY <1>2, <1>3, <1>4, <2>3, <2>4, <2>5, ImportGoesOn DEF e, Shipped
<1> QED BY <1>2, <1>6, <1>7, <1>8

LEMMA SeqGrows ==
  ASSUME NEW S, NEW T, S \subseteq T, NEW s \in Seq(S)
  PROVE  s \in Seq(T)
OBVIOUS

\* The second time the path in hand is one that was exported.
LEMMA InHandAgain ==
  ASSUME WholeInv, imp.try = 2, imp.pc \in {"add", "register"}, ArchivesUnpack
  PROVE  Unpack(imp.nar).res = "ok" /\ Unpack(imp.nar).pos = Len(imp.nar)
<1> DEFINE n == Len(imp.done) + 1
<1>1. Shipped /\ Follows(imp, setup.rot)
  BY DEF WholeInv, Again, Shipped
<1>2. InHand(imp, setup.rot, n)
  BY <1>1 DEF Follows
<1> HIDE DEF n
<1>3. n \in 1 .. Len(Rows) /\ imp.nar = Archive(Rows[n].tree).cells
  BY <1>2 DEF InHand, Dump
<1>4. Rows[n] \in Exported
  BY <1>3, RowIs
<1> QED BY <1>3, <1>4 DEF ArchivesUnpack

\* Something is unpacked at a path that is not valid.
LEMMA OtherRight ==
  ASSUME RegInv, Right(valid, disk), NEW p, p \notin DOMAIN valid, NEW g, NEW x, g = With(disk, p, x)
  PROVE  Right(valid, g)
<1>1. DOMAIN valid \subseteq DOMAIN disk
  BY DEF RegInv
<1>2. \A b \in DOMAIN disk : b # p => g[b] = disk[b]
  BY DEF With
<1>3. ASSUME NEW e \in Exported, e.base \in DOMAIN valid PROVE g[e.base].nodes = e.tree
  <2> DEFINE b == e.base
  <2>1. b \in DOMAIN disk /\ b # p BY <1>1, <1>3
  <2>2. g[b] = disk[b] BY <1>2, <2>1
  <2>3. disk[b].nodes = e.tree BY <1>3 DEF Right
  <2> QED BY <2>2, <2>3
<1> QED BY <1>3 DEF Right

LEMMA AddToStoreGoesOn ==
  ASSUME ReadInv, RegInv, ArchivesUnpack, WholeInv, AddToStore
  PROVE  WholeInv'
<1> DEFINE e == imp'
           p == imp.path
           s == Unpack(imp.nar).sink
           g == disk'
<1>1. /\ imp.pc = "add" /\ UNCHANGED <<valid, rooted>> /\ Still
      /\ \/ p \in DOMAIN valid /\ e = NextPath /\ UNCHANGED disk
         \/ /\ p \notin DOMAIN valid /\ g = With(disk, p, s)
            /\ \/ e = [imp EXCEPT !.pc = "register"]
               \/ Unpack(imp.nar).res # "ok" /\ e = Ended("failed")
  BY AddToStoreIs
<1>2. imp.done \in Seq(DOMAIN valid) /\ Right(valid, disk) /\ (Shipped => Follows(imp, setup.rot)) /\ imp.pc \in Active
  BY <1>1 DEF WholeInv, Shipped, Active
<1> HIDE DEF e, s, g
<1>3. CASE p \in DOMAIN valid /\ e = NextPath /\ UNCHANGED disk
  <2>1. /\ e.pc = "frame" /\ e.pos = imp.pos /\ e.exit = imp.exit /\ e.try = imp.try
        /\ e.done = Append(imp.done, imp.path)
    BY <1>3, NextPathIs
  <2>2. e.pc \in Active
    BY <2>1 DEF Active
  <2>3. Shipped => Follows(e, setup.rot)
    BY <1>1, <1>2, <1>3, <2>1, NextFollows
  <2>4. e.done \in Seq(DOMAIN valid)
    BY <1>2, <1>3, <2>1, AppendProperties
  <2> QED BY <1>1, <1>2, <1>3, <2>1, <2>2, <2>3, <2>4, ImportGoesOn DEF e, Shipped
<1>4. CASE p \notin DOMAIN valid /\ g = With(disk, p, s)
  <2>1. Right(valid, g)
    <3> HIDE DEF p
    <3> QED BY <1>2, <1>4, OtherRight
  <2>2. Right(valid', disk')
    BY <1>1, <2>1 DEF g
  <2>3. CASE e = [imp EXCEPT !.pc = "register"]
    <3>1. "register" \in Active BY DEF Active
    <3>2. /\ e.pc = "register" /\ e.pos = imp.pos /\ e.nar = imp.nar /\ e.path = imp.path /\ e.done = imp.done
          /\ e.exit = imp.exit /\ e.try = imp.try
      BY <2>3, <3>1, MoveIs
    <3>3. Shipped => Follows(e, setup.rot)
      BY <1>1, <1>2, <3>2 DEF Follows, InHand
    <3>4. e.pc \in Active /\ e.done \in Seq(DOMAIN valid')
      BY <1>1, <1>2, <3>1, <3>2
    <3> QED BY <1>1, <1>2, <2>2, <3>2, <3>3, <3>4, ImportGoesOn DEF e, Shipped
  <2>4. CASE Unpack(imp.nar).res # "ok" /\ e = Ended("failed")
    <3>1. imp.try # 2
      BY <1>1, <2>4, InHandAgain
    <3> QED BY <1>1, <2>2, <2>4, <3>1, ImportFailed DEF e
  <2> QED BY <1>1, <1>4, <2>3, <2>4
<1> QED BY <1>1, <1>3, <1>4

LEMMA RegisterGoesOn ==
  ASSUME ReadInv, RegInv, ArchivesUnpack, WholeInv, Register
  PROVE  WholeInv'
<1> DEFINE e == imp'
           p == imp.path
           u == Unpack(imp.nar)
           t == Finished(u.sink)
           info == PathInfo(imp.path, imp.nar)
           g == disk'
           v == valid'
<1>1. imp.pc = "register" /\ Still /\ UNCHANGED rooted
  BY DEF Register, Still, ExportSide
<1>2. p \notin DOMAIN valid /\ p \in DOMAIN disk /\ disk[p] = u.sink /\ u.res = "ok" /\ DOMAIN valid \subseteq DOMAIN disk
  BY <1>1 DEF RegInv, Unpacked
<1>3. /\ u.pos = Len(imp.nar) =>
           /\ e = NextPath /\ g = [disk EXCEPT ![p] = t]
           /\ \E row \in MakeRow(info) : v = With(valid, p, row)
      /\ \/ e = Ended("failed") /\ UNCHANGED <<disk, valid>>
         \/ u.pos = Len(imp.nar) /\ SubSeq(imp.nar, 1, u.pos) = imp.nar
  BY <1>1, <1>2, RegisterIs
<1>4. imp.done \in Seq(DOMAIN valid) /\ Right(valid, disk) /\ (Shipped => Follows(imp, setup.rot)) /\ imp.pc \in Active
  BY <1>1 DEF WholeInv, Shipped, Active
<1>5. imp.try = 2 => u.pos = Len(imp.nar)
  BY <1>1, InHandAgain
<1>6. ASSUME NEW a \in Exported, a.base = p, u.pos = Len(imp.nar) PROVE t.nodes = a.tree
  <2>1. imp.nar = Archive(a.tree).cells BY <1>1, <1>6 DEF ArchivesUnpack
  <2> QED BY <1>1, <1>6, <2>1 DEF ArchivesUnpack
<1> HIDE DEF e, p, u, t, info, g, v
<1>7. CASE u.pos = Len(imp.nar)
  <2>1. e = NextPath /\ g = [disk EXCEPT ![p] = t]
    BY <1>3, <1>7
  <2>2. PICK row \in MakeRow(info) : v = With(valid, p, row)
    BY <1>3, <1>7
  <2>3. /\ e.pc = "frame" /\ e.pos = imp.pos /\ e.exit = imp.exit /\ e.try = imp.try
        /\ e.done = Append(imp.done, imp.path)
    BY <2>1, NextPathIs
  <2>4. g[p] = t /\ \A b \in DOMAIN disk : b # p => g[b] = disk[b]
    BY <1>2, <2>1, ExceptIs
  <2>5. DOMAIN v = DOMAIN valid \cup {p}
    BY <2>2 DEF With
  <2>6. ASSUME NEW a \in Exported, a.base \in DOMAIN v PROVE g[a.base].nodes = a.tree
    <3>1. CASE a.base = p BY <1>6, <1>7, <2>4, <3>1
    <3>2. CASE a.base # p
      <4>1. a.base \in DOMAIN valid /\ a.base \in DOMAIN disk BY <1>2, <2>5, <2>6, <3>2
      <4>2. g[a.base] = disk[a.base] BY <2>4, <3>2, <4>1
      <4>3. disk[a.base].nodes = a.tree BY <1>4, <4>1 DEF Right
      <4> QED BY <4>2, <4>3
    <3> QED BY <3>1, <3>2
  <2>7. Right(v, g)
    BY <2>6 DEF Right
  <2>8. imp.done \in Seq(DOMAIN v) /\ imp.path \in DOMAIN v
    <3>1. DOMAIN valid \subseteq DOMAIN v BY <2>5
    <3>2. imp.done \in Seq(DOMAIN v) BY <1>4, <3>1, SeqGrows
    <3> QED BY <2>5, <3>2 DEF p
  <2>9. e.done \in Seq(DOMAIN v)
    BY <2>3, <2>8, AppendProperties
  <2>10. Shipped => Follows(e, setup.rot)
    BY <1>1, <1>4, <2>3, <2>8, NextFollows
  <2>11. e.pc \in Active
    BY <2>3 DEF Active
  <2> QED BY <1>1, <1>4, <2>3, <2>7, <2>9, <2>10, <2>11, ImportGoesOn DEF e, v, g, Shipped
<1>8. CASE u.pos # Len(imp.nar)
  <2>1. e = Ended("failed") /\ UNCHANGED <<disk, valid>> /\ imp.try # 2
    BY <1>3, <1>5, <1>8
  <2> QED BY <1>1, <1>4, <2>1, ImportFailed DEF e
<1> QED BY <1>7, <1>8

LEMMA RootPathsGoesOn ==
  ASSUME ReadInv, WholeInv, RootPaths
  PROVE  WholeInv'
<1> DEFINE e == imp'
<1>1. imp.pc = "root" /\ UNCHANGED <<disk, valid>> /\ Still
  BY DEF RootPaths, Still, ExportSide
<1>2. imp.done \in Seq(DOMAIN valid) /\ Right(valid, disk) /\ (Shipped => Follows(imp, setup.rot)) /\ imp.pc \in Active
  BY <1>1 DEF WholeInv, Shipped, Active
<1>3. CASE ToSet(imp.done) \subseteq rooted /\ e = Ended("ok") /\ UNCHANGED rooted
  <2>1. setup' = setup /\ fault' = fault /\ bundle' = bundle
    BY <1>1 DEF Still
  <2>2. e = Ended("ok") BY <1>3
  <2> HIDE DEF e
  <2>3. Fresh(e, "done", "ok") /\ e.try = imp.try
    BY <2>2, EndedIs
  <2>4. Follows(e, setup.rot) /\ e.pc = "done" /\ e.exit = "ok" /\ \A S : e.done \in Seq(S)
    BY <2>3, FreshFollows
  <2>5. ASSUME Shipped PROVE Everything(valid, rooted)
    <3> DEFINE d == imp.done
    <3>1. Len(d) = Len(Rows) /\ \A k \in 1 .. Len(d) : d[k] = Rows[k].base
      BY <1>1, <1>2, <2>5 DEF Follows
    <3>2. d \in Seq(DOMAIN valid) /\ ToSet(d) \subseteq rooted
      BY <1>2, <1>3
    <3> HIDE DEF d
    <3>3. ASSUME NEW a \in Exported PROVE a.base \in DOMAIN valid \cap rooted
      <4>1. PICK k \in 1 .. Len(Rows) : Rows[k] = a
        <5>1. DOMAIN Rows = 1 .. Len(Rows) BY Constants, LenProperties
        <5> QED BY <5>1 DEF Exported, ToSet
      <4>2. k \in 1 .. Len(d) /\ d[k] = a.base BY <3>1, <4>1
      <4>3. d[k] \in DOMAIN valid BY <3>2, <4>2, ElementOfSeq
      <4>4. d[k] \in ToSet(d)
        <5>1. DOMAIN d = 1 .. Len(d) BY <3>2, LenProperties
        <5> QED BY <4>2, <5>1 DEF ToSet
      <4> QED BY <3>2, <4>2, <4>3, <4>4
    <3> QED BY <3>3 DEF Everything
  <2>6. imp.try = 2 => Again
    BY DEF WholeInv
  <2>7. Again => Again'
    BY <2>1 DEF Again
  <2> QED BY <1>1, <1>2, <1>3, <2>1, <2>3, <2>4, <2>5, <2>6, <2>7 DEF WholeInv, e, Shipped
<1>4. CASE UNCHANGED imp
  BY <1>1, <1>2, <1>4, ImportGoesOn DEF Shipped
<1> QED BY <1>3, <1>4 DEF RootPaths

LEMMA KillImportGoesOn ==
  ASSUME RegInv, WholeInv, KillImport
  PROVE  WholeInv'
<1>1. imp' = Ended("killed") /\ imp.try # 2 /\ valid' = valid /\ Still
  BY DEF KillImport, Still, ExportSide
<1>2. Right(valid, disk)
  BY DEF WholeInv
<1> DEFINE g == disk'
<1>3. CASE UNCHANGED disk
  BY <1>1, <1>2, <1>3, ImportFailed
<1>4. CASE /\ imp.path \notin DOMAIN valid
           /\ \E k \in 0 .. Len(imp.nar) : disk' = With(disk, imp.path, Unpack(SubSeq(imp.nar, 1, k)).sink)
  <2>1. PICK k \in 0 .. Len(imp.nar) : disk' = With(disk, imp.path, Unpack(SubSeq(imp.nar, 1, k)).sink)
    BY <1>4
  <2> DEFINE p == imp.path
             s == Unpack(SubSeq(imp.nar, 1, k)).sink
  <2>2. g = With(disk, p, s) /\ p \notin DOMAIN valid
    BY <1>4, <2>1
  <2> HIDE DEF p, s, g
  <2>3. Right(valid, g)
    BY <1>2, <2>2, OtherRight
  <2> QED BY <1>1, <2>3, ImportFailed DEF g
<1> QED BY <1>3, <1>4 DEF KillImport

LEMMA WholeStays ==
  ASSUME WholeInv, imp.pc = "idle" \/ UNCHANGED <<fault, setup, bundle>>, UNCHANGED <<setup, imp, disk, valid, rooted>>,
         Shipped' => Shipped
  PROVE  WholeInv'
<1>1. setup' = setup /\ imp' = imp /\ disk' = disk /\ valid' = valid /\ rooted' = rooted
  OBVIOUS
<1>2. imp.try = 2 => Again'
  BY <1>1 DEF WholeInv, Again
<1> QED BY <1>1, <1>2 DEF WholeInv, Shipped

LEMMA StartGoesOn ==
  ASSUME WholeInv, StartImport
  PROVE  WholeInv'
<1> DEFINE e == imp'
<1>1. PICK umask, acl : e = NewImport(1, umask, acl)
  BY DEF StartImport
<1> HIDE DEF e
<1>2. Fresh(e, "frame", "none") /\ e.try = 1
  BY <1>1, NewImportIs
<1>3. Follows(e, setup.rot) /\ e.pc = "frame" /\ e.exit = "none" /\ \A S : e.done \in Seq(S)
  BY <1>2, FreshFollows
<1>4. UNCHANGED <<setup, fault, disk, valid>>
  BY DEF StartImport
<1> QED BY <1>2, <1>3, <1>4 DEF WholeInv, e

LEMMA RetryGoesOn ==
  ASSUME ExportInv, WholeInv, Retry
  PROVE  WholeInv'
<1> DEFINE e == imp'
<1>1. e = NewImport(2, imp.umask, imp.acl) /\ bundle' = WholeBundle /\ fault' = "none" /\ UNCHANGED <<disk, valid>>
  BY DEF Retry
<1>2. setup'.rot = {}
  BY DEF Retry, ExportInv, Setups
<1> HIDE DEF e
<1>3. Fresh(e, "frame", "none") /\ e.try = 2
  BY <1>1, NewImportIs
<1>4. Follows(e, setup'.rot) /\ e.pc = "frame" /\ e.exit = "none" /\ \A S : e.done \in Seq(S)
  BY <1>3, FreshFollows
<1>5. Again'
  BY <1>1, <1>2 DEF Again
<1> QED BY <1>1, <1>3, <1>4, <1>5 DEF WholeInv, e

LEMMA WholeInvStep ==
  ASSUME ExportInv, ReadInv, RegInv, WholeInv, CodecsKeepPromises, [Next]_vars
  PROVE  WholeInv'
<1>1. ArchivesAreRead /\ ArchivesUnpack
  BY DEF CodecsKeepPromises
<1>2. CASE exp.pc # "done" /\ UNCHANGED ImportSide
  <2>1. imp.pc = "idle" BY <1>2 DEF ExportInv
  <2> QED BY <1>2, <2>1, WholeStays DEF ImportSide, Shipped
<1>3. CASE ExportNext BY <1>2, <1>3 DEF ExportNext
<1>4. CASE ExportNar BY <1>2, <1>4 DEF ExportNar
<1>5. CASE ExportCheck BY <1>2, <1>5 DEF ExportCheck
<1>6. CASE ExportTrailer BY <1>2, <1>6 DEF ExportTrailer
<1>7. CASE ExportEnd BY <1>2, <1>7 DEF ExportEnd
<1>8. CASE KillExport BY <1>2, <1>8 DEF KillExport, ImportSide
<1>9. CASE Damage BY <1>9, WholeStays DEF Damage, Shipped
<1>10. CASE StartImport BY <1>10, StartGoesOn
<1>11. CASE ReadBundle BY <1>1, <1>11, ReadBundleGoesOn
<1>12. CASE Verify BY <1>1, <1>12, VerifyGoesOn
<1>13. CASE AddToStore BY <1>1, <1>13, AddToStoreGoesOn
<1>14. CASE Register BY <1>1, <1>14, RegisterGoesOn
<1>15. CASE RootPaths BY <1>15, RootPathsGoesOn
<1>16. CASE KillImport BY <1>16, KillImportGoesOn
<1>17. CASE Retry BY <1>17, RetryGoesOn
<1>18. CASE Done \/ UNCHANGED vars
  BY <1>18, WholeStays DEF Done, vars, Shipped
<1> QED BY <1>3, <1>4, <1>5, <1>6, <1>7, <1>8, <1>9, <1>10, <1>11, <1>12, <1>13, <1>14, <1>15, <1>16, <1>17, <1>18
        DEF Next

BundleInv == ExportInv /\ ReadInv /\ RegInv /\ WholeInv

LEMMA BundleInvStarts ==
  ASSUME Init
  PROVE  BundleInv
BY ExportInvStarts, ReadInvStarts, RegInvStarts, WholeInvStarts DEF ExportInv, BundleInv

LEMMA BundleInvStep ==
  ASSUME BundleInv, CodecsKeepPromises, [Next]_vars
  PROVE  BundleInv'
<1>1. ExportInv /\ ReadInv /\ RegInv /\ WholeInv /\ bundle \in Cells
  BY DEF BundleInv, ExportInv
<1>2. ExportInv'
  BY <1>1, ExportInvStep
<1>3. ReadInv'
  BY <1>1, <1>2, ReadInvStep DEF CodecsKeepPromises
<1>4. RegInv'
  BY <1>1, RegInvStep
<1>5. WholeInv'
  BY <1>1, WholeInvStep
<1> QED BY <1>2, <1>3, <1>4, <1>5 DEF BundleInv

LEMMA BundleInvImplies ==
  ASSUME BundleInv
  PROVE  RegisteredIsWhatItSays /\ SuccessMeansWholeBundle /\ SecondTrySucceeds
<1>1. RegisteredIsWhatItSays
  BY HonestIs DEF BundleInv, RegInv
<1>2. SuccessMeansWholeBundle
  <2> SUFFICES ASSUME imp.exit = "ok", fault \in {"none", "cut"}, NEW e \in Exported
               PROVE  e.base \in DOMAIN valid \cap rooted /\ disk[e.base].nodes = e.tree
    BY DEF SuccessMeansWholeBundle
  <2>1. e.base \in DOMAIN valid \cap rooted
    BY DEF BundleInv, WholeInv, Everything
  <2>2. disk[e.base].nodes = e.tree
    BY <2>1 DEF BundleInv, WholeInv, Right
  <2> QED BY <2>1, <2>2
<1>3. SecondTrySucceeds
  BY DEF SecondTrySucceeds, BundleInv, WholeInv, Again, Everything
<1> QED BY <1>1, <1>2, <1>3

LEMMA BundleInvHolds == Spec /\ []CodecsKeepPromises => []BundleInv
<1>1. Init => BundleInv
  BY BundleInvStarts
<1>2. CodecsKeepPromises /\ BundleInv /\ [Next]_vars => BundleInv'
  BY BundleInvStep
<1> QED BY <1>1, <1>2, PTL DEF Spec

(* Import: as long as the codecs keep their promises, a registered path    *)
(* is on disk, has the store's metadata and is what its name and its row   *)
(* say, whatever became of the bundle and wherever an import was killed    *)
(* (RegisteredIsWhatItSays; importVerified, LocalStore::addToStore).       *)
THEOREM RowsNeverLie == Spec /\ []CodecsKeepPromises => []RegisteredIsWhatItSays
<1>1. BundleInv => RegisteredIsWhatItSays
  BY BundleInvImplies
<1> QED BY <1>1, BundleInvHolds, PTL

(* Import: it reports success of an exported bundle, or of the beginning   *)
(* of one, only when every path is registered, rooted and has the tree it  *)
(* has in the exporting store (SuccessMeansWholeBundle; importPaths).      *)
THEOREM SuccessIsWhole == Spec /\ []CodecsKeepPromises => []SuccessMeansWholeBundle
<1>1. BundleInv => SuccessMeansWholeBundle
  BY BundleInvImplies
<1> QED BY <1>1, BundleInvHolds, PTL

(* Retry: what an import that failed or was killed left behind, wherever   *)
(* it stopped, never makes the next import of an intact bundle fail        *)
(* (SecondTrySucceeds; importPaths, LocalStore::addToStore).               *)
THEOREM NextImportSucceeds == Spec /\ []CodecsKeepPromises => []SecondTrySucceeds
<1>1. BundleInv => SecondTrySucceeds
  BY BundleInvImplies
<1> QED BY <1>1, BundleInvHolds, PTL

================================================================================
