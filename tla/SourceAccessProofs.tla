------------------------- MODULE SourceAccessProofs -------------------------
(***************************************************************************)
(* The accessors keep count of their descriptors, stay beneath their roots *)
(* and deliver what they announce, for any threads, trees, requests and    *)
(* sizes of the caches, whatever is changed while they resolve; and as     *)
(* long as nothing is changed, they answer what a fresh resolution would.  *)
(***************************************************************************)
EXTENDS SourceAccess, FiniteSetTheorems, SequenceTheorems, WellFoundedInduction, TLAPS

--------------------------------------------------------------------------------
(* Induction *)

\* A set of numbers has a least one.
LEMMA Least ==
  ASSUME NEW S \in SUBSET Nat, S # {}
  PROVE  \E m \in S : \A n \in S : m <= n
<1> DEFINE R == OpToRel(<, Nat)
<1>1. IsWellFoundedOn(R, Nat)
  BY NatLessThanWellFounded
<1>2. \A x, y \in Nat : x < y => <<x, y>> \in R
  BY DEF OpToRel
<1> HIDE DEF R
<1>3. PICK m \in S : \A y \in S : ~(<<y, m>> \in R)
  BY <1>1, WFMin
<1>4. ASSUME NEW n \in S PROVE m <= n
  <2>1. m \in Nat /\ n \in Nat OBVIOUS
  <2>2. ~(n < m) BY <1>2, <1>3, <2>1
  <2> QED BY <2>1, <2>2
<1> QED BY <1>4

\* What holds of 0 and of the next number holds up to n.
LEMMA Induction ==
  ASSUME NEW n \in Nat, NEW S, 0 \in S, \A k \in 0 .. n - 1 : k \in S => k + 1 \in S
  PROVE  0 .. n \subseteq S
<1> SUFFICES ASSUME (0 .. n) \ S # {} PROVE FALSE
  OBVIOUS
<1>1. PICK m \in (0 .. n) \ S : \A k \in (0 .. n) \ S : m <= k
  <2>1. (0 .. n) \ S \in SUBSET Nat OBVIOUS
  <2> QED BY <2>1, Least
<1>2. m # 0 /\ m - 1 \in 0 .. n - 1 /\ m - 1 \in S
  BY <1>1
<1> QED BY <1>1, <1>2

\* The function f with values in R is defined by recursion over 0 .. n.
Steps(n, R) == [0 .. n -> [R -> R]]

Computes(f, n, R, base, step) ==
  /\ f \in [0 .. n -> R]
  /\ \A k \in 0 .. n : f[k] = IF k = 0 THEN base ELSE step[k][f[k - 1]]

\* There is one.
LEMMA Recursion ==
  ASSUME NEW n \in Nat, NEW R, NEW base \in R, NEW step \in Steps(n, R)
  PROVE  \E f : Computes(f, n, R, base, step)
<1> USE DEF Steps
<1> DEFINE Def(m, f) == \A k \in 0 .. m : f[k] = IF k = 0 THEN base ELSE step[k][f[k - 1]]
           S == {m \in 0 .. n : \E f \in [0 .. m -> R] : Def(m, f)}
<1>1. 0 \in S
  <2> DEFINE f == [k \in 0 .. 0 |-> base]
  <2>1. f \in [0 .. 0 -> R] /\ Def(0, f)
    OBVIOUS
  <2> HIDE DEF Def, f
  <2> QED BY <2>1
<1>2. ASSUME NEW m \in 0 .. n - 1, m \in S PROVE m + 1 \in S
  <2>1. PICK f \in [0 .. m -> R] : Def(m, f)
    BY <1>2
  <2> DEFINE g == [k \in 0 .. m + 1 |-> IF k = m + 1 THEN step[m + 1][f[m]] ELSE f[k]]
  <2>2. g \in [0 .. m + 1 -> R]
    OBVIOUS
  <2>3. ASSUME NEW k \in 0 .. m + 1 PROVE g[k] = IF k = 0 THEN base ELSE step[k][g[k - 1]]
    <3>1. m \in Nat OBVIOUS
    <3>2. CASE k = m + 1
      <4>1. k - 1 = m /\ k # 0 /\ m \in 0 .. m + 1 /\ m # m + 1
        BY <3>1, <3>2
      <4> QED BY <3>2, <4>1
    <3>3. CASE k \in 0 .. m /\ k # 0
      <4>1. k - 1 \in 0 .. m + 1 /\ k - 1 # m + 1 /\ k # m + 1
        BY <3>1, <3>3
      <4>2. g[k] = f[k] /\ g[k - 1] = f[k - 1]
        BY <4>1
      <4>3. f[k] = step[k][f[k - 1]]
        BY <2>1, <3>3
      <4> QED BY <3>3, <4>2, <4>3
    <3>4. CASE k = 0
      <4>1. 0 # m + 1 /\ 0 \in 0 .. m /\ 0 \in 0 .. m + 1
        BY <3>1
      <4> QED BY <2>1, <3>4, <4>1
    <3> QED BY <3>1, <3>2, <3>3, <3>4
  <2>4. Def(m + 1, g)
    BY <2>3
  <2> HIDE DEF Def, g
  <2> QED BY <2>2, <2>4
<1>3. n \in S
  <2> HIDE DEF S
  <2>1. 0 .. n \subseteq S
    BY <1>1, <1>2, Induction
  <2> QED BY <2>1
<1>4. \E f \in [0 .. n -> R] : Def(n, f)
  <2> HIDE DEF Def
  <2> QED BY <1>3
<1> QED BY <1>4 DEF Computes

--------------------------------------------------------------------------------
(* The kernel *)

Inside == Inodes \ Outside

\* A lookup in a directory that is inside stays inside.
LEMMA LookupStays ==
  ASSUME NEW tree \in Trees, NEW dir \in Inside \cup {None}, NEW name
  PROVE  Lookup(tree, dir, name) \in Inside \cup {None}
  BY TreesAssumption DEF Lookup, Inside

Errnos == {"none", "EBADF", "ENOENT", "ENOTDIR", "ELOOP"}

Results == [err : Errnos, node : Inside \cup {None}]

\* An open ends with an error, or with a descriptor for something inside.
LEMMA OpenStays ==
  ASSUME NEW tree \in Trees, NEW dir \in Inside \cup {None}, NEW name, NEW directory \in BOOLEAN,
         NEW r, r = OpenAt(tree, dir, name, directory)
  PROVE  r \in Results /\ (r.err = "none" => r.node \in Inside)
<1> DEFINE i == Lookup(tree, dir, name)
<1>1. i \in Inside \cup {None}
  BY LookupStays
<1>2. None \notin Inside
  BY TreesAssumption DEF Inside
<1>3. dir = None => i = None
  BY DEF Lookup
<1>4. \/ \E e \in {"EBADF", "ENOENT", "ENOTDIR", "ELOOP"} : r = [err |-> e, node |-> None]
      \/ i # None /\ r = [err |-> "none", node |-> i]
  BY <1>3 DEF OpenAt
<1> HIDE DEF i
<1> QED BY <1>1, <1>2, <1>4 DEF Results, Errnos

LEMMA BeneathStays ==
  ASSUME NEW tree \in Trees, NEW r \in Results, NEW name, NEW directory \in BOOLEAN,
         NEW q, q = Beneath(tree, r, name, directory), r.err = "none" => r.node \in Inside
  PROVE  q \in Results /\ (q.err = "none" => q.node \in Inside)
<1>1. CASE q = OpenAt(tree, r.node, name, directory)
  <2>1. r.node \in Inside \cup {None}
    BY DEF Results
  <2> QED BY <1>1, <2>1, OpenStays
<1>2. CASE q # OpenAt(tree, r.node, name, directory)
  BY <1>2 DEF Beneath, Results, Errnos, None
<1> QED BY <1>1, <1>2

\* What a resolution gives: something inside, or an error and nothing
Resolved ==
  {q \in Results : /\ q.err # "EBADF"
                   /\ q.err = "none" => q.node \in Inside
                   /\ q.err # "none" => q.node = None}

Start(dir) == [err |-> "none", node |-> dir]

LEMMA BeneathResolves ==
  ASSUME NEW tree \in Trees, NEW r \in Resolved, NEW name, NEW directory \in BOOLEAN
  PROVE  Beneath(tree, r, name, directory) \in Resolved
<1> DEFINE i == Lookup(tree, r.node, name)
           o == OpenAt(tree, r.node, name, directory)
           q == Beneath(tree, r, name, directory)
<1>1. r \in Results /\ (r.err = "none" => r.node \in Inside /\ r.node # None)
  BY TreesAssumption DEF Resolved, Inside
<1>2. r.err = "none" => i \in Inside \cup {None}
  BY <1>1, LookupStays
<1>3. CASE q = r
  BY <1>3
<1>4. CASE q = [err |-> "ELOOP", node |-> None]
  BY <1>4 DEF Resolved, Results, Errnos
<1>5. CASE r.err = "none" /\ q = o
  <2>1. \/ \E e \in {"ENOENT", "ENOTDIR", "ELOOP"} : o = [err |-> e, node |-> None]
        \/ i # None /\ o = [err |-> "none", node |-> i]
    <3> HIDE DEF i
    <3> QED BY <1>1, <1>2, <1>5 DEF OpenAt, i
  <2> HIDE DEF i, o
  <2> QED BY <1>2, <1>5, <2>1 DEF Resolved, Results, Errnos
<1>6. q = r \/ q = [err |-> "ELOOP", node |-> None] \/ (r.err = "none" /\ q = o)
  BY DEF Beneath
<1> QED BY <1>3, <1>4, <1>5, <1>6

\* What a resolution computes: a result for every part of the path
Resolves(f, tree, dir, path, directory) ==
  /\ f \in [0 .. Len(path) -> Resolved] /\ f[0] = Start(dir)
  /\ \A k \in 1 .. Len(path) : f[k] = Beneath(tree, f[k - 1], path[k], directory \/ k < Len(path))

LEMMA OpenAt2Computes ==
  ASSUME NEW tree \in Trees, NEW dir \in Inside, NEW path \in Paths, NEW directory \in BOOLEAN
  PROVE  \E f : /\ Resolves(f, tree, dir, path, directory)
                /\ OpenAt2(tree, dir, path, directory) = f[Len(path)]
<1> DEFINE n == Len(path)
           base == [err |-> "none", node |-> dir]
           Down(k, q) == Beneath(tree, q, path[k], directory \/ k < n)
           Def(f) == f = [k \in 0 .. n |-> IF k = 0 THEN base ELSE Down(k, f[k - 1])]
           step == [k \in 0 .. n |-> [q \in Resolved |-> Down(k, q)]]
<1>1. n \in Nat /\ base \in Resolved /\ base = Start(dir)
  BY DEF Paths, Results, Errnos, Resolved, Start
<1>2. ASSUME NEW k \in 0 .. n, NEW q \in Resolved PROVE Down(k, q) \in Resolved
  BY BeneathResolves
<1>3. step \in Steps(n, Resolved)
  BY <1>2 DEF Steps
<1>4. PICK f : Computes(f, n, Resolved, base, step)
  <2> HIDE DEF n, base, step
  <2> QED BY <1>1, <1>3, Recursion
<1>5. Def(f)
  <2>1. f \in [0 .. n -> Resolved] /\ \A k \in 0 .. n : f[k] = IF k = 0 THEN base ELSE step[k][f[k - 1]]
    BY <1>4 DEF Computes
  <2>2. ASSUME NEW k \in 0 .. n, k # 0 PROVE step[k][f[k - 1]] = Down(k, f[k - 1])
    <3>1. k - 1 \in 0 .. n
      BY <1>1, <2>2
    <3>2. f[k - 1] \in Resolved
      BY <2>1, <3>1
    <3> QED BY <3>2
  <2>3. f = [k \in 0 .. n |-> f[k]]
    BY <2>1
  <2> HIDE DEF step, base, Down
  <2> QED BY <2>1, <2>2, <2>3
<1> DEFINE at == CHOOSE g : Def(g)
<1>6. Def(at)
  BY <1>5
<1>7. OpenAt2(tree, dir, path, directory) = at[n]
  BY DEF OpenAt2
<1>8. \A k \in 0 .. n : at[k] = IF k = 0 THEN base ELSE Down(k, at[k - 1])
  BY <1>6
<1>14. at = [k \in 0 .. n |-> at[k]]
  BY <1>6
<1> HIDE DEF at, base, Down
<1> DEFINE S == {k \in 0 .. n : at[k] \in Resolved}
<1>9. 0 \in S
  BY <1>1, <1>8
<1>10. ASSUME NEW k \in 0 .. n - 1, k \in S PROVE k + 1 \in S
  BY <1>1, <1>2, <1>8, <1>10
<1>11. 0 .. n \subseteq S
  <2> HIDE DEF S, n
  <2> QED BY <1>1, <1>9, <1>10, Induction
<1>12. at \in [0 .. n -> Resolved]
  BY <1>11, <1>14
<1>13. Resolves(at, tree, dir, path, directory)
  <2>1. at[0] = Start(dir)
    BY <1>1, <1>8
  <2>2. ASSUME NEW k \in 1 .. n PROVE at[k] = Beneath(tree, at[k - 1], path[k], directory \/ k < n)
    BY <1>1, <1>8 DEF Down
  <2> QED BY <1>12, <2>1, <2>2 DEF Resolves
<1> QED BY <1>7, <1>13

\* However many components are resolved at once.
LEMMA OpenAt2Stays ==
  ASSUME NEW tree \in Trees, NEW dir \in Inside, NEW path \in Paths, NEW directory \in BOOLEAN,
         NEW r, r = OpenAt2(tree, dir, path, directory)
  PROVE  r \in Results /\ (r.err = "none" => r.node \in Inside)
<1>1. PICK f : Resolves(f, tree, dir, path, directory) /\ r = f[Len(path)]
  BY OpenAt2Computes
<1>2. r \in Resolved
  BY <1>1 DEF Resolves, Paths
<1> QED BY <1>2 DEF Resolved

\* The descriptors: finitely many numbers, each for something inside.
TableOK(tab) ==
  /\ IsFiniteSet(DOMAIN tab) /\ DOMAIN tab \subseteq Nat \ {0}
  /\ \A fd \in DOMAIN tab : tab[fd] \in Inside

\* There is always a number free.
LEMMA NewFdIsFree ==
  ASSUME NEW tab, TableOK(tab)
  PROVE  NewFd(tab) \in Nat \ {0} /\ NewFd(tab) \notin DOMAIN tab
<1> DEFINE D == DOMAIN tab
           n == Cardinality(D)
           S == (1 .. n + 1) \ D
<1>1. IsFiniteSet(D) /\ n \in Nat
  BY FS_CardinalityType DEF TableOK
<1>2. S # {}
  <2> SUFFICES ASSUME 1 .. n + 1 \in SUBSET D PROVE FALSE
    OBVIOUS
  <2>1. Cardinality(1 .. n + 1) <= n
    BY <1>1, FS_Subset
  <2> HIDE DEF n
  <2> DEFINE b == n + 1
  <2>2. b \in Nat /\ b > n
    BY <1>1
  <2>3. 1 .. b = 1 .. n + 1
    OBVIOUS
  <2> HIDE DEF b
  <2>4. Cardinality(1 .. b) = IF 1 > b THEN 0 ELSE b - 1 + 1
    BY <2>2, FS_Interval
  <2> QED BY <1>1, <2>1, <2>2, <2>3, <2>4
<1>3. S \in SUBSET Nat
  OBVIOUS
<1>4. PICK m \in S : \A k \in S : m <= k
  BY <1>2, <1>3, Least
<1>5. NewFd(tab) \in S
  BY <1>4 DEF NewFd, Min
<1> QED BY <1>5

\* An open adds one.
LEMMA OpenAdds ==
  ASSUME NEW tab, TableOK(tab), NEW inode \in Inside
  PROVE  /\ TableOK(Open(tab, inode))
         /\ DOMAIN Open(tab, inode) = DOMAIN tab \cup {NewFd(tab)}
         /\ \A fd \in DOMAIN tab : Open(tab, inode)[fd] = tab[fd]
         /\ Open(tab, inode)[NewFd(tab)] = inode
<1>1. /\ DOMAIN Open(tab, inode) = DOMAIN tab \cup {NewFd(tab)}
      /\ \A fd \in DOMAIN tab : Open(tab, inode)[fd] = tab[fd]
      /\ Open(tab, inode)[NewFd(tab)] = inode
  BY NewFdIsFree DEF Open
<1>2. IsFiniteSet(DOMAIN tab \cup {NewFd(tab)})
  BY FS_AddElement DEF TableOK
<1> QED BY <1>1, <1>2, NewFdIsFree DEF TableOK

--------------------------------------------------------------------------------
(* The caches *)

LEMMA RemoveAtEffect ==
  ASSUME NEW S, NEW s \in Seq(S), NEW i \in 1 .. Len(s)
  PROVE  /\ RemoveAt(s, i) \in Seq(S) /\ Len(RemoveAt(s, i)) = Len(s) - 1
         /\ \A j \in 1 .. Len(s) - 1 : \E l \in 1 .. Len(s) : RemoveAt(s, i)[j] = s[l]
<1> DEFINE a == SubSeq(s, 1, i - 1)
           b == SubSeq(s, i + 1, Len(s))
           n == Len(s)
<1>1. n \in Nat /\ \A j \in 1 .. n : s[j] \in S
  OBVIOUS
<1>2. a \in Seq(S) /\ Len(a) = i - 1 /\ \A j \in 1 .. i - 1 : a[j] = s[j]
  <2>1. 1 \in Int /\ i - 1 \in Int /\ \A j \in 1 .. i - 1 : s[j] \in S
    BY <1>1
  <2>2. /\ a \in Seq(S) /\ Len(a) = IF 1 <= i - 1 THEN i - 1 - 1 + 1 ELSE 0
        /\ \A j \in 1 .. i - 1 - 1 + 1 : a[j] = s[1 + j - 1]
    BY <2>1, SubSeqProperties
  <2>3. i \in Int /\ i >= 1
    OBVIOUS
  <2>4. i - 1 - 1 + 1 = i - 1 /\ (IF 1 <= i - 1 THEN i - 1 - 1 + 1 ELSE 0) = i - 1
    BY ONLY <2>3
  <2>5. ASSUME NEW j \in 1 .. i - 1 PROVE a[j] = s[j]
    <3>1. 1 + j - 1 = j
      BY <2>3
    <3> HIDE DEF a
    <3> QED BY <2>2, <2>4, <3>1
  <2> HIDE DEF a
  <2> QED BY <2>2, <2>4, <2>5
<1>3. b \in Seq(S) /\ Len(b) = n - i /\ \A j \in 1 .. n - i : b[j] = s[i + j]
  <2>1. i + 1 \in Int /\ n \in Int /\ \A j \in i + 1 .. n : s[j] \in S
    BY <1>1
  <2>2. /\ b \in Seq(S) /\ Len(b) = IF i + 1 <= n THEN n - (i + 1) + 1 ELSE 0
        /\ \A j \in 1 .. n - (i + 1) + 1 : b[j] = s[(i + 1) + j - 1]
    BY <2>1, SubSeqProperties
  <2>3. i \in Int /\ i <= n
    OBVIOUS
  <2> HIDE DEF n
  <2>4. n - (i + 1) + 1 = n - i /\ (IF i + 1 <= n THEN n - (i + 1) + 1 ELSE 0) = n - i
    BY ONLY <1>1, <2>3
  <2>5. ASSUME NEW j \in 1 .. n - i PROVE b[j] = s[i + j]
    <3>1. (i + 1) + j - 1 = i + j
      BY <1>1, <2>3
    <3> HIDE DEF b
    <3> QED BY <2>2, <2>4, <3>1
  <2> HIDE DEF b
  <2> QED BY <2>2, <2>4, <2>5
<1> HIDE DEF a, b
<1>4. /\ a \o b \in Seq(S) /\ Len(a \o b) = Len(a) + Len(b)
      /\ \A j \in 1 .. Len(a) + Len(b) : (a \o b)[j] = IF j <= Len(a) THEN a[j] ELSE b[j - Len(a)]
  BY <1>2, <1>3, ConcatProperties
<1>5. Len(a) + Len(b) = n - 1
  BY <1>1, <1>2, <1>3
<1>6. ASSUME NEW j \in 1 .. n - 1 PROVE \E l \in 1 .. n : (a \o b)[j] = s[l]
  <2> HIDE DEF n
  <2>1. CASE j <= i - 1
    <3>1. (a \o b)[j] = s[j]
      BY <1>1, <1>2, <1>4, <1>5, <2>1
    <3> QED BY <1>1, <3>1
  <2>2. CASE j > i - 1
    <3>1. j - (i - 1) \in 1 .. n - i /\ i + (j - (i - 1)) = j + 1
      BY <1>1, <2>2
    <3>2. (a \o b)[j] = b[j - (i - 1)]
      BY <1>1, <1>2, <1>4, <1>5, <2>2
    <3>3. b[j - (i - 1)] = s[j + 1]
      BY <1>3, <3>1
    <3> QED BY <1>1, <3>2, <3>3
  <2>3. j <= i - 1 \/ j > i - 1
    OBVIOUS
  <2> QED BY <2>1, <2>2, <2>3
<1>7. RemoveAt(s, i) = a \o b
  BY DEF RemoveAt, a, b
<1> QED BY <1>4, <1>5, <1>6, <1>7

\* An erased entry is gone, and a present one makes room.
LEMMA EraseEffect ==
  ASSUME NEW cache \in Seq(CacheEntries), NEW key
  PROVE  /\ Erase(cache, key) \in Seq(CacheEntries) /\ Fds(Erase(cache, key)) \subseteq Fds(cache)
         /\ Len(Erase(cache, key)) = IF HasKey(cache, key) THEN Len(cache) - 1 ELSE Len(cache)
<1>1. CASE ~HasKey(cache, key)
  BY <1>1 DEF Erase
<1>2. CASE HasKey(cache, key)
  <2> DEFINE i == Find(cache, key)
             rest == Erase(cache, key)
  <2>1. i \in 1 .. Len(cache)
    BY <1>2 DEF HasKey, Find
  <2>2. rest = RemoveAt(cache, i)
    BY <1>2 DEF Erase
  <2> HIDE DEF i, rest
  <2>3. /\ rest \in Seq(CacheEntries) /\ Len(rest) = Len(cache) - 1
        /\ \A j \in 1 .. Len(cache) - 1 : \E l \in 1 .. Len(cache) : rest[j] = cache[l]
    BY <2>1, <2>2, RemoveAtEffect
  <2>4. Fds(rest) \subseteq Fds(cache)
    BY <2>3 DEF Fds
  <2> QED BY <1>2, <2>3, <2>4 DEF rest
<1> QED BY <1>1, <1>2

LEMMA AppendEffect ==
  ASSUME NEW cache \in Seq(CacheEntries), NEW e \in CacheEntries
  PROVE  /\ Append(cache, e) \in Seq(CacheEntries) /\ Len(Append(cache, e)) = Len(cache) + 1
         /\ Fds(Append(cache, e)) \subseteq Fds(cache) \cup {e.fd}
<1> DEFINE q == Append(cache, e)
<1>1. /\ q \in Seq(CacheEntries) /\ Len(q) = Len(cache) + 1
      /\ \A i \in 1 .. Len(cache) : q[i] = cache[i]
      /\ q[Len(cache) + 1] = e
  OBVIOUS
<1> HIDE DEF q
<1>2. Len(cache) \in Nat
  OBVIOUS
<1>3. ASSUME NEW i \in 1 .. Len(q) PROVE i \in 1 .. Len(cache) \/ i = Len(cache) + 1
  BY <1>1, <1>2
<1>4. Fds(q) \subseteq Fds(cache) \cup {e.fd}
  BY <1>1, <1>3 DEF Fds
<1> QED BY <1>1, <1>4 DEF q

\* An insertion keeps within the capacity; the only descriptor it adds is the new one.
LEMMA UpsertEffect ==
  ASSUME NEW cache \in Seq(CacheEntries), NEW key \in Paths, NEW fd \in Nat \ {0},
         Len(cache) <= CacheSize, CacheSize > 0
  PROVE  /\ Upsert(cache, key, fd) \in Seq(CacheEntries) /\ Len(Upsert(cache, key, fd)) <= CacheSize
         /\ Fds(Upsert(cache, key, fd)) \subseteq Fds(cache) \cup {fd}
<1> DEFINE rest == Erase(cache, key)
           room == IF Len(rest) >= CacheSize THEN Tail(rest) ELSE rest
           e == [key |-> key, fd |-> fd]
<1>2. CacheSize \in Nat /\ Len(cache) \in Nat
  BY SizesAssumption
<1>1. /\ rest \in Seq(CacheEntries) /\ Len(rest) <= CacheSize
      /\ Fds(rest) \subseteq Fds(cache)
  <2>1. /\ rest \in Seq(CacheEntries) /\ Fds(rest) \subseteq Fds(cache)
        /\ Len(rest) = IF HasKey(cache, key) THEN Len(cache) - 1 ELSE Len(cache)
    BY EraseEffect
  <2> HIDE DEF rest
  <2> QED BY <1>2, <2>1
<1>3. Upsert(cache, key, fd) = Append(room, e)
  BY DEF Upsert
<1>4. e \in CacheEntries /\ e.fd = fd
  BY DEF CacheEntries
<1> HIDE DEF rest, e
<1>5. room \in Seq(CacheEntries) /\ Len(room) <= CacheSize - 1 /\ Fds(room) \subseteq Fds(cache)
  <2>1. CASE Len(rest) >= CacheSize
    <3> DEFINE tail == Tail(rest)
    <3>1. rest # <<>>
      BY <1>1, <1>2, <2>1
    <3>2. tail \in Seq(CacheEntries) /\ Len(tail) = Len(rest) - 1 /\ \A i \in 1 .. Len(tail) : tail[i] = rest[i + 1]
      BY <1>1, <3>1
    <3> HIDE DEF tail
    <3>3. Len(rest) \in Nat
      BY <1>1
    <3>4. ASSUME NEW i \in 1 .. Len(tail) PROVE i + 1 \in 1 .. Len(rest)
      BY <3>2, <3>3
    <3>5. Fds(tail) \subseteq Fds(rest)
      BY <3>2, <3>4 DEF Fds
    <3>6. room = tail
      BY <2>1 DEF tail
    <3>7. Len(tail) <= CacheSize - 1
      BY ONLY <1>1, <1>2, <3>2, <3>3
    <3> HIDE DEF room
    <3> QED BY <1>1, <3>2, <3>5, <3>6, <3>7
  <2>2. CASE ~(Len(rest) >= CacheSize)
    <3>1. room = rest
      BY <2>2
    <3> QED BY <1>1, <1>2, <2>2, <3>1
  <2> QED BY <2>1, <2>2
<1> HIDE DEF room
<1> QED BY <1>2, <1>3, <1>4, <1>5, AppendEffect

\* A hit moves to the end.
LEMMA PromoteEffect ==
  ASSUME NEW cache \in Seq(CacheEntries), NEW key \in Paths, HasKey(cache, key)
  PROVE  /\ Promote(cache, key) \in Seq(CacheEntries) /\ Len(Promote(cache, key)) = Len(cache)
         /\ Fds(Promote(cache, key)) \subseteq Fds(cache)
         /\ Get(cache, key) \in Fds(cache) /\ Get(cache, key) \in Nat \ {0}
<1> DEFINE rest == Erase(cache, key)
           fd == Get(cache, key)
           e == [key |-> key, fd |-> fd]
<1>1. /\ rest \in Seq(CacheEntries) /\ Len(rest) = Len(cache) - 1
      /\ Fds(rest) \subseteq Fds(cache)
  BY EraseEffect
<1>2. Find(cache, key) \in 1 .. Len(cache)
  BY DEF HasKey, Find
<1>3. fd \in Fds(cache) /\ fd \in Nat \ {0}
  <2> DEFINE i == Find(cache, key)
  <2>1. cache[i] \in CacheEntries /\ fd = cache[i].fd
    BY <1>2 DEF Get
  <2> HIDE DEF i, fd
  <2>2. cache[i].fd \in Fds(cache)
    BY <1>2 DEF Fds, i
  <2> QED BY <2>1, <2>2 DEF CacheEntries
<1>4. Promote(cache, key) = Append(rest, e)
  BY DEF Promote
<1>5. e \in CacheEntries /\ e.fd = fd
  BY <1>3 DEF CacheEntries
<1> HIDE DEF rest, e, fd
<1> QED BY <1>1, <1>3, <1>4, <1>5, AppendEffect DEF fd

--------------------------------------------------------------------------------
(* Counting *)

\* No cache outgrows its capacity.
Bounded(accs) ==
  \A a \in Accessors : accs[a].cache \in Seq(CacheEntries) /\ Len(accs[a].cache) <= CacheSize

LEMMA EntriesAreFinite ==
  ASSUME NEW accs, Bounded(accs), NEW S \in SUBSET Accessors
  PROVE  IsFiniteSet(Entries(accs, S)) /\ Cached(accs, S) \in Nat
<1> DEFINE all == Accessors \X (1 .. CacheSize)
<1>1. IsFiniteSet(Accessors)
  <2>1. IsFiniteSet(1 .. MaxMade)
    BY SizesAssumption, FS_Interval
  <2> QED BY <2>1, ThreadsAssumption, FS_Product DEF Accessors
<1>2. IsFiniteSet(all)
  <2>1. IsFiniteSet(1 .. CacheSize)
    BY SizesAssumption, FS_Interval
  <2> QED BY <1>1, <2>1, FS_Product
<1>3. ASSUME NEW a \in S, NEW i \in 1 .. Len(accs[a].cache) PROVE <<a, i>> \in all
  <2>1. a \in Accessors /\ Len(accs[a].cache) \in Nat /\ Len(accs[a].cache) <= CacheSize
    BY DEF Bounded
  <2>2. i \in 1 .. CacheSize
    BY <2>1, SizesAssumption
  <2> QED BY <2>1, <2>2
<1>4. Entries(accs, S) \in SUBSET all
  BY <1>3 DEF Entries
<1> HIDE DEF all
<1> QED BY <1>2, <1>4, FS_Subset, FS_CardinalityType DEF Cached

LEMMA OneCache ==
  ASSUME NEW accs, NEW a, NEW n \in Nat, Len(accs[a].cache) = n
  PROVE  Cached(accs, {a}) = n
<1> DEFINE E == {<<a, i>> : i \in 1 .. n}
           f == [i \in 1 .. n |-> <<a, i>>]
<1>1. Entries(accs, {a}) = E
  BY DEF Entries
<1>2. f \in Bijection(1 .. n, E)
  BY DEF Bijection, Injection, Surjection, IsInjective
<1>3. ExistsBijection(1 .. n, E)
  BY <1>2 DEF ExistsBijection
<1>4. IsFiniteSet(1 .. n) /\ Cardinality(1 .. n) = n
  BY FS_Interval
<1> HIDE DEF E
<1> QED BY <1>1, <1>3, <1>4, FS_Bijection DEF Cached

LEMMA CachedIsAdditive ==
  ASSUME NEW accs, Bounded(accs), NEW S \in SUBSET Accessors, NEW T \in SUBSET Accessors, S \cap T = {}
  PROVE  Cached(accs, S \cup T) = Cached(accs, S) + Cached(accs, T)
<1> DEFINE X == Entries(accs, S)
           Y == Entries(accs, T)
<1>1. IsFiniteSet(X) /\ IsFiniteSet(Y) /\ Cardinality(X) \in Nat /\ Cardinality(Y) \in Nat
  BY EntriesAreFinite DEF Cached
<1>2. X \cap Y = {}
  BY DEF Entries
<1>3. Entries(accs, S \cup T) = X \cup Y
  BY DEF Entries
<1> HIDE DEF X, Y
<1>4. Cardinality(X \cup Y) = Cardinality(X) + Cardinality(Y) - Cardinality(X \cap Y)
  BY <1>1, FS_Union
<1>5. Cardinality(X \cap Y) = 0
  BY <1>2, FS_EmptySet
<1>6. Cardinality(X \cup Y) = Cardinality(X) + Cardinality(Y)
  BY ONLY <1>1, <1>4, <1>5
<1> QED BY <1>3, <1>6 DEF Cached, X, Y

\* The number depends on the lengths alone.
LEMMA SameLengths ==
  ASSUME NEW accs, NEW others, NEW S, \A a \in S : Len(accs[a].cache) = Len(others[a].cache)
  PROVE  Cached(accs, S) = Cached(others, S)
  BY DEF Cached, Entries

\* A change to one cache changes the number by the difference.
LEMMA OneCacheChanges ==
  ASSUME NEW accs, Bounded(accs), NEW others, Bounded(others), NEW a \in Accessors,
         \A b \in Accessors \ {a} : Len(accs[b].cache) = Len(others[b].cache)
  PROVE  Cached(others, Accessors)
           = Cached(accs, Accessors) + (Len(others[a].cache) - Len(accs[a].cache))
<1> DEFINE S == Accessors \ {a}
           m == Len(accs[a].cache)
           n == Len(others[a].cache)
<1>1. S \in SUBSET Accessors /\ {a} \in SUBSET Accessors /\ S \cap {a} = {} /\ S \cup {a} = Accessors
  OBVIOUS
<1>2. m \in Nat /\ n \in Nat
  BY DEF Bounded
<1>3. Cached(accs, {a}) = m /\ Cached(others, {a}) = n
  BY <1>2, OneCache
<1>4. Cached(accs, S) = Cached(others, S)
  BY SameLengths
<1> HIDE DEF S, m, n
<1>5. Cached(accs, Accessors) = Cached(accs, S) + m
  BY <1>1, <1>3, CachedIsAdditive
<1>6. Cached(others, Accessors) = Cached(others, S) + n
  BY <1>1, <1>3, CachedIsAdditive
<1>7. Cached(accs, S) \in Nat
  BY <1>1, EntriesAreFinite
<1>8. Cached(others, Accessors) = Cached(accs, Accessors) + (n - m)
  BY ONLY <1>2, <1>4, <1>5, <1>6, <1>7
<1> QED BY <1>8 DEF m, n

\* Without the dead, the number is lower by theirs.
LEMMA DeadCachesGo ==
  ASSUME NEW accs, Bounded(accs), NEW left, Bounded(left), NEW dead \in SUBSET Accessors,
         \A a \in dead : Len(left[a].cache) = 0,
         \A a \in Accessors \ dead : Len(left[a].cache) = Len(accs[a].cache)
  PROVE  Cached(left, Accessors) = Cached(accs, Accessors) - Cached(accs, dead)
<1> DEFINE S == Accessors \ dead
<1>1. S \in SUBSET Accessors /\ S \cap dead = {} /\ S \cup dead = Accessors
  OBVIOUS
<1>2. Cached(left, S) = Cached(accs, S)
  BY SameLengths
<1>3. Cached(left, dead) = 0
  <2>1. Entries(left, dead) = {}
    BY DEF Entries
  <2> QED BY <2>1, FS_EmptySet DEF Cached
<1> HIDE DEF S
<1>4. Cached(accs, Accessors) = Cached(accs, S) + Cached(accs, dead)
  BY <1>1, CachedIsAdditive
<1>5. Cached(left, Accessors) = Cached(left, S) + Cached(left, dead)
  BY <1>1, CachedIsAdditive
<1>6. Cached(accs, S) \in Nat /\ Cached(accs, dead) \in Nat
  BY <1>1, EntriesAreFinite
<1> QED BY <1>2, <1>3, <1>4, <1>5, <1>6

--------------------------------------------------------------------------------
(* What holds between two steps, of the threads, accessors, descriptors and the counter *)

ThreadOK(t, s, accs) ==
  StackOK(t, s, accs) /\ UseOK(s, accs[Last(s.stack)]) /\ ReadOK(s)

Good(threads, accs, tab, n) ==
  /\ threads \in [Threads -> ThreadStates] /\ accs \in [Accessors -> AccessorStates] /\ TableOK(tab)
  /\ Owned(threads, accs) \subseteq DOMAIN tab \cup {0}
  /\ \A a \in Accessors : AccessorOK(accs[a], tab)
  /\ \A t \in Threads : ThreadOK(t, threads[t], accs)
  /\ n = Cached(accs, Accessors)

\* The parts of the state that no accessor depends on
World == /\ node \in Trees /\ edits \in Nat /\ openat2 \in BOOLEAN /\ unsupported \in BOOLEAN
         /\ holder \in Threads \cup {None}

LEMMA GoodIsAccessInv == AccessInv <=> World /\ Good(th, acc, table, count)
<1>1. ASSUME World, Good(th, acc, table, count) PROVE AccessInv
  <2>1. TypeOK
    <3>1. count \in Int
      <4>1. Bounded(acc)
        BY <1>1 DEF Good, Bounded, AccessorStates, AccessorOK
      <4>2. Accessors \in SUBSET Accessors
        OBVIOUS
      <4> QED BY <1>1, <4>1, <4>2, EntriesAreFinite DEF Good
    <3> QED BY <1>1, <3>1 DEF World, Good, TypeOK, TableOK, Inside
  <2>2. OwnersInv
    BY <1>1 DEF Good, OwnersInv, ThreadOK, TableOK, Inside, Mine
  <2> QED BY <2>1, <2>2 DEF AccessInv
<1>2. ASSUME AccessInv PROVE World /\ Good(th, acc, table, count)
  BY <1>2 DEF AccessInv, TypeOK, OwnersInv, World, Good, TableOK, Inside, ThreadOK, Mine
<1> QED BY <1>1, <1>2

\* What a thread has on its stack is alive.
LEMMA StackIsAlive ==
  ASSUME NEW threads, NEW t \in Threads, threads[t].stack \in Seq(Accessors),
         NEW i \in 1 .. Len(threads[t].stack)
  PROVE  threads[t].stack[i] \in Accessors /\ Alive(threads, threads[t].stack[i])
<1> DEFINE a == threads[t].stack[i]
<1>1. a \in Accessors /\ a \in ToSet(threads[t].stack)
  BY DEF ToSet
<1>2. a # <<>>
  <2>1. PICK u \in Threads, k \in 1 .. MaxMade : a = <<u, k>>
    BY <1>1 DEF Accessors
  <2>2. Len(<<u, k>>) = 2 /\ Len(<<>>) = 0
    OBVIOUS
  <2> HIDE DEF a
  <2> QED BY <2>1, <2>2
<1> QED BY <1>1, <1>2 DEF Alive

\* What matters of an accessor that a thread does not make itself
Alike(x, y) == x.kind = y.kind /\ x.fd = y.fd /\ x.cached = y.cached

\* A thread is as well off when the accessors it may look at are alike.
LEMMA ThreadStays ==
  ASSUME NEW t \in Threads, NEW s \in ThreadStates, NEW accs, NEW others, ThreadOK(t, s, accs),
         \A i \in 1 .. Len(s.stack) : Alike(others[s.stack[i]], accs[s.stack[i]]),
         \A i \in 1 .. MaxMade : others[<<t, i>>].kind # None => accs[<<t, i>>].kind # None
  PROVE  ThreadOK(t, s, others)
<1>1. StackOK(t, s, others)
  BY DEF ThreadOK, StackOK, Alike
<1>2. UseOK(s, others[Last(s.stack)])
  <2>1. CASE s.stack = <<>>
    <3>1. s.pc \in {"idle", "readlink"}
      BY <2>1 DEF ThreadOK, StackOK
    <3> QED BY <3>1 DEF ThreadOK, UseOK, Resolving, Opening, ToParent
  <2>2. CASE s.stack # <<>>
    <3>1. s.stack \in Seq(Accessors)
      BY DEF ThreadStates
    <3> DEFINE n == Len(s.stack)
    <3>2. n \in 1 .. n
      BY <2>2, <3>1
    <3>3. Alike(others[Last(s.stack)], accs[Last(s.stack)])
      BY <3>2 DEF Last
    <3> QED BY <3>3 DEF ThreadOK, UseOK, Alike
  <2> QED BY <2>1, <2>2
<1> QED BY <1>1, <1>2 DEF ThreadOK

\* Whose descriptors there are, seen from each owner
LEMMA OwnedParts ==
  ASSUME NEW threads, NEW accs \in [Accessors -> AccessorStates], NEW D
  PROVE  Owned(threads, accs) \subseteq D
           <=> /\ \A t \in Threads : threads[t].own \subseteq D
               /\ \A a \in Accessors : accs[a].fd \in D /\ Fds(accs[a].cache) \subseteq D
<1> DEFINE A == UNION {threads[t].own : t \in Threads}
           B == {accs[a].fd : a \in Accessors}
           C == UNION {Fds(accs[a].cache) : a \in Accessors}
<1>2. Owned(threads, accs) = A \cup B \cup C
  BY DEF Owned
<1>3. A \subseteq D <=> \A t \in Threads : threads[t].own \subseteq D
  OBVIOUS
<1>4. B \subseteq D <=> \A a \in Accessors : accs[a].fd \in D
  OBVIOUS
<1>5. C \subseteq D <=> \A a \in Accessors : Fds(accs[a].cache) \subseteq D
  <2>1. ASSUME C \subseteq D, NEW a \in Accessors PROVE Fds(accs[a].cache) \subseteq D
    <3>1. Fds(accs[a].cache) \in {Fds(accs[b].cache) : b \in Accessors}
      OBVIOUS
    <3> QED BY <2>1, <3>1
  <2>2. ASSUME \A a \in Accessors : Fds(accs[a].cache) \subseteq D PROVE C \subseteq D
    BY <2>2
  <2> QED BY <2>1, <2>2
<1> HIDE DEF A, B, C
<1>7. Owned(threads, accs) \subseteq D <=> A \subseteq D /\ B \subseteq D /\ C \subseteq D
  BY <1>2
<1> QED BY <1>3, <1>4, <1>5, <1>7

LEMMA NoAccessorOK ==
  NoAccessor \in AccessorStates /\ \A tab : AccessorOK(NoAccessor, tab)
<1>1. <<>> \in Seq(CacheEntries) /\ Len(<<>>) = 0
  OBVIOUS
<1> QED BY <1>1, SizesAssumption DEF NoAccessor, AccessorStates, AccessorOK, None

\* An accessor for a directory, with a cache or without
LEMMA DirAccessorOK ==
  ASSUME NEW fd \in Nat \ {0}, NEW cached \in BOOLEAN, cached => CacheSize > 0,
         NEW listed \in Inodes \cup {None}, edits \in Nat, NEW tab,
         listed # None => fd \in DOMAIN tab /\ tab[fd] = listed,
         NEW x, x = DirAccessor(fd, cached, listed)
  PROVE  x \in AccessorStates /\ x.kind # None /\ x.cache = <<>> /\ AccessorOK(x, tab) /\ x.fd = fd
<1>1. /\ NoAccessor \in AccessorStates /\ NoAccessor.cache = <<>> /\ Len(<<>>) = 0
  BY NoAccessorOK DEF NoAccessor
<1>2. x = [NoAccessor EXCEPT !.kind = "dir", !.fd = fd, !.cached = cached, !.listed = listed,
                             !.since = edits]
  BY DEF DirAccessor
<1>3. x \in AccessorStates
  BY <1>1, <1>2 DEF AccessorStates
<1>4. x.kind = "dir" /\ x.fd = fd /\ (x.cached => cached) /\ x.listed = listed /\ x.cache = <<>>
  BY <1>1, <1>2 DEF AccessorStates
<1> QED BY <1>1, <1>3, <1>4, SizesAssumption DEF AccessorOK, None

\* The accessors nobody holds are destroyed, the descriptors nobody owns are closed, and all is
\* well again.
LEMMA Destroyed ==
  ASSUME NEW threads, NEW accs, NEW tab, NEW n, Good(threads, accs, tab, n),
         NEW dead, dead = {a \in Accessors : accs[a].kind # None /\ ~Alive(threads, a)},
         NEW left, left = [a \in Accessors |-> IF a \in dead THEN NoAccessor ELSE accs[a]],
         NEW open, open = Restrict(tab, DOMAIN tab \cap Owned(threads, left))
  PROVE  Good(threads, left, open, n - Cached(accs, dead))
<1>1. /\ threads \in [Threads -> ThreadStates] /\ accs \in [Accessors -> AccessorStates] /\ TableOK(tab)
      /\ Owned(threads, accs) \subseteq DOMAIN tab \cup {0}
      /\ \A a \in Accessors : AccessorOK(accs[a], tab)
      /\ \A t \in Threads : ThreadOK(t, threads[t], accs)
      /\ n = Cached(accs, Accessors)
  BY DEF Good
<1>2. left \in [Accessors -> AccessorStates]
  BY <1>1, NoAccessorOK
<1>3. Owned(threads, left) \subseteq DOMAIN tab \cup {0}
  <2> DEFINE D == DOMAIN tab \cup {0}
  <2>1. NoAccessor.fd = 0 /\ Fds(NoAccessor.cache) = {}
    BY DEF NoAccessor, Fds
  <2>2. 0 \in D
    OBVIOUS
  <2>3. Owned(threads, accs) \subseteq D
    BY <1>1
  <2> HIDE DEF D
  <2>4. /\ \A t \in Threads : threads[t].own \subseteq D
        /\ \A a \in Accessors : accs[a].fd \in D /\ Fds(accs[a].cache) \subseteq D
    BY <1>1, <2>3, OwnedParts
  <2>5. \A a \in Accessors : left[a].fd \in D /\ Fds(left[a].cache) \subseteq D
    BY <2>1, <2>2, <2>4
  <2>6. Owned(threads, left) \subseteq D
    BY <1>2, <2>4, <2>5, OwnedParts
  <2> QED BY <2>6 DEF D
<1>4. DOMAIN open = DOMAIN tab \cap Owned(threads, left) /\ \A fd \in DOMAIN open : open[fd] = tab[fd]
  BY DEF Restrict
<1>5. TableOK(open)
  <2>1. IsFiniteSet(DOMAIN open)
    <3>1. DOMAIN open \in SUBSET DOMAIN tab
      BY <1>4
    <3> QED BY <1>1, <3>1, FS_Subset DEF TableOK
  <2> QED BY <1>1, <1>4, <2>1 DEF TableOK
<1>6. Owned(threads, left) \subseteq DOMAIN open \cup {0}
  BY <1>3, <1>4
<1>7. ASSUME NEW a \in Accessors PROVE AccessorOK(left[a], open)
  <2>1. CASE left[a] = NoAccessor
    BY <2>1, NoAccessorOK
  <2>2. CASE left[a] = accs[a]
    <3>1. AccessorOK(accs[a], tab)
      BY <1>1
    <3>2. left[a].fd \in Owned(threads, left)
      <4> DEFINE D == Owned(threads, left)
      <4>1. Owned(threads, left) \subseteq D
        OBVIOUS
      <4> HIDE DEF D
      <4>2. left[a].fd \in D
        BY <1>2, <4>1, OwnedParts
      <4> QED BY <4>2 DEF D
    <3> QED BY <1>4, <2>2, <3>1, <3>2 DEF AccessorOK
  <2> QED BY <2>1, <2>2
<1>8. ASSUME NEW t \in Threads PROVE ThreadOK(t, threads[t], left)
  <2> DEFINE s == threads[t]
  <2>1. s \in ThreadStates /\ ThreadOK(t, s, accs) /\ s.stack \in Seq(Accessors)
    BY <1>1 DEF ThreadStates
  <2>2. ASSUME NEW i \in 1 .. Len(s.stack) PROVE Alike(left[s.stack[i]], accs[s.stack[i]])
    BY <2>1, <2>2, StackIsAlive DEF Alike
  <2>3. ASSUME NEW i \in 1 .. MaxMade, left[<<t, i>>].kind # None PROVE accs[<<t, i>>].kind # None
    <3>1. <<t, i>> \in Accessors /\ NoAccessor.kind = None
      BY DEF Accessors, NoAccessor
    <3> QED BY <2>3, <3>1
  <2> HIDE DEF s
  <2>4. ThreadOK(t, s, left)
    BY <2>1, <2>2, <2>3, ThreadStays
  <2> QED BY <2>4 DEF s
<1>9. n - Cached(accs, dead) = Cached(left, Accessors)
  <2>1. Bounded(accs) /\ Bounded(left)
    BY <1>1, <1>2, <1>7 DEF Bounded, AccessorOK, AccessorStates
  <2>2. NoAccessor.cache = <<>> /\ Len(<<>>) = 0
    BY DEF NoAccessor
  <2>3. \A a \in dead : Len(left[a].cache) = 0
    BY <2>2
  <2>4. \A a \in Accessors \ dead : Len(left[a].cache) = Len(accs[a].cache)
    OBVIOUS
  <2>5. dead \in SUBSET Accessors
    OBVIOUS
  <2> QED BY <1>1, <2>1, <2>3, <2>4, <2>5, DeadCachesGo
<1> QED BY <1>1, <1>2, <1>5, <1>6, <1>7, <1>8, <1>9 DEF Good

\* What a step may do to the accessors: other threads' stay alike
Touched(t, accs, tab) ==
  /\ accs \in [Accessors -> AccessorStates]
  /\ \A a \in Accessors : /\ AccessorOK(accs[a], tab)
                          /\ accs[a].fd \in DOMAIN tab \cup {0}
                          /\ Fds(accs[a].cache) \subseteq DOMAIN tab \cup {0}
                          /\ a[1] # t => Alike(accs[a], acc[a])

\* and to the descriptors: it opens some
Extends(tab) ==
  TableOK(tab) /\ DOMAIN table \subseteq DOMAIN tab /\ \A fd \in DOMAIN table : tab[fd] = table[fd]

\* The step of a thread
LEMMA GoKeeps ==
  ASSUME AccessInv, NEW t \in Threads, NEW s \in ThreadStates, NEW accs, NEW tab, NEW n,
         Extends(tab), Touched(t, accs, tab), s.own \subseteq DOMAIN tab \cup {0},
         ThreadOK(t, s, accs), n = Cached(accs, Accessors), Go(t, s, accs, tab, n), World'
  PROVE  AccessInv'
<1> DEFINE threads == [th EXCEPT ![t] = s]
           dead == {a \in Accessors : accs[a].kind # None /\ ~Alive(threads, a)}
           left == [a \in Accessors |-> IF a \in dead THEN NoAccessor ELSE accs[a]]
           open == Restrict(tab, DOMAIN tab \cap Owned(threads, left))
<1>1. Good(th, acc, table, count)
  BY GoodIsAccessInv
<1>2. /\ th \in [Threads -> ThreadStates] /\ acc \in [Accessors -> AccessorStates]
      /\ Owned(th, acc) \subseteq DOMAIN table \cup {0}
      /\ \A u \in Threads : ThreadOK(u, th[u], acc)
  BY <1>1 DEF Good
<1>3. threads \in [Threads -> ThreadStates] /\ threads[t] = s /\ \A u \in Threads \ {t} : threads[u] = th[u]
  BY <1>2
<1>4. accs \in [Accessors -> AccessorStates]
  BY DEF Touched
<1>5. Owned(threads, accs) \subseteq DOMAIN tab \cup {0}
  <2> DEFINE D == DOMAIN tab \cup {0}
  <2>1. Owned(th, acc) \subseteq D
    BY <1>2 DEF Extends
  <2>2. \A a \in Accessors : accs[a].fd \in D /\ Fds(accs[a].cache) \subseteq D
    BY DEF Touched
  <2>3. s.own \subseteq D
    OBVIOUS
  <2> HIDE DEF D
  <2>4. \A u \in Threads : th[u].own \subseteq D
    BY <1>2, <2>1, OwnedParts
  <2>5. \A u \in Threads : threads[u].own \subseteq D
    BY <1>3, <2>3, <2>4
  <2> HIDE DEF threads
  <2>6. Owned(threads, accs) \subseteq D
    BY <1>4, <2>2, <2>5, OwnedParts
  <2> QED BY <2>6 DEF D
<1>6. ASSUME NEW u \in Threads PROVE ThreadOK(u, threads[u], accs)
  <2>1. CASE u = t
    BY <1>3, <2>1
  <2>2. CASE u # t
    <3> DEFINE q == th[u]
    <3>1. q \in ThreadStates /\ ThreadOK(u, q, acc) /\ q.stack \in Seq(Accessors)
      BY <1>2 DEF ThreadStates
    <3>2. ASSUME NEW i \in 1 .. Len(q.stack) PROVE Alike(accs[q.stack[i]], acc[q.stack[i]])
      <4>1. q.stack[i] \in Accessors /\ q.stack[i][1] = u
        BY <3>1 DEF ThreadOK, StackOK
      <4> QED BY <2>2, <4>1 DEF Touched
    <3>3. ASSUME NEW i \in 1 .. MaxMade PROVE accs[<<u, i>>].kind = acc[<<u, i>>].kind
      <4>1. <<u, i>> \in Accessors /\ <<u, i>>[1] = u
        BY DEF Accessors
      <4> QED BY <2>2, <4>1 DEF Touched, Alike
    <3> HIDE DEF q
    <3>4. ThreadOK(u, q, accs)
      BY <3>1, <3>2, <3>3, ThreadStays
    <3> QED BY <1>3, <2>2, <3>4 DEF q
  <2> QED BY <2>1, <2>2
<1>7. Good(threads, accs, tab, n)
  BY <1>3, <1>4, <1>5, <1>6 DEF Good, Extends, Touched
<1>8. Good(threads, left, open, n - Cached(accs, dead))
  <2> HIDE DEF threads
  <2> QED BY <1>7, Destroyed
<1>9. th' = threads /\ acc' = left /\ count' = n - Cached(accs, dead) /\ table' = open
  BY DEF Go
<1> HIDE DEF threads, dead, left, open
<1>10. Good(th, acc, table, count)'
  BY <1>8, <1>9
<1> QED BY <1>10, GoodIsAccessInv, PTL

LEMMA Facts ==
  ASSUME AccessInv, NEW t \in Threads
  PROVE  /\ th[t] \in ThreadStates /\ th[t].own \subseteq DOMAIN table \cup {0}
         /\ StackOK(t, th[t], acc) /\ UseOK(th[t], acc[Mine(t)]) /\ ReadOK(th[t])
  BY OwnedParts DEF AccessInv, TypeOK, OwnersInv

LEMMA AccessorFacts ==
  ASSUME AccessInv
  PROVE  /\ World /\ TableOK(table) /\ Extends(table)
         /\ acc \in [Accessors -> AccessorStates]
         /\ \A a \in Accessors : /\ acc[a] \in AccessorStates /\ AccessorOK(acc[a], table)
                                 /\ acc[a].fd \in DOMAIN table \cup {0}
                                 /\ Fds(acc[a].cache) \subseteq DOMAIN table \cup {0}
         /\ count = Cached(acc, Accessors) /\ count \in Int
<1>1. World /\ Good(th, acc, table, count) /\ TypeOK
  BY GoodIsAccessInv DEF AccessInv
<1>2. acc \in [Accessors -> AccessorStates] /\ Owned(th, acc) \subseteq DOMAIN table \cup {0}
  BY <1>1 DEF Good
<1>3. \A a \in Accessors : acc[a].fd \in DOMAIN table \cup {0} /\ Fds(acc[a].cache) \subseteq DOMAIN table \cup {0}
  BY <1>2, OwnedParts
<1> QED BY <1>1, <1>3 DEF Good, Extends, TypeOK

\* A thread that has an accessor works with the innermost.
LEMMA MineIsMine ==
  ASSUME AccessInv, NEW t \in Threads, th[t].stack # <<>>
  PROVE  Mine(t) \in Accessors /\ Mine(t)[1] = t /\ acc[Mine(t)].kind # None
<1> DEFINE stack == th[t].stack
           n == Len(stack)
<1>1. stack \in Seq(Accessors) /\ StackOK(t, th[t], acc)
  BY Facts DEF ThreadStates
<1>2. n \in 1 .. n
  BY <1>1
<1>3. Mine(t) = stack[n]
  BY DEF Mine, Last
<1>4. stack[n] \in Accessors
  BY <1>1, <1>2
<1> QED BY <1>1, <1>2, <1>3, <1>4 DEF StackOK

\* A descriptor in the table is for something inside.
LEMMA AtStays ==
  ASSUME AccessInv, NEW fd \in DOMAIN table \cup {0}
  PROVE  At(fd) \in Inside \cup {None} /\ (fd # 0 => At(fd) \in Inside)
  BY AccessorFacts DEF At, TableOK

\* With more descriptors an accessor is none the worse.
LEMMA AccessorStays ==
  ASSUME NEW x, NEW tab, Extends(tab), AccessorOK(x, table)
  PROVE  AccessorOK(x, tab)
  BY DEF AccessorOK, Extends

\* A step that leaves the accessors alone
LEMMA GoesKeeps ==
  ASSUME AccessInv, NEW t \in Threads, NEW s \in ThreadStates, NEW tab, Extends(tab),
         s.own \subseteq DOMAIN tab \cup {0}, ThreadOK(t, s, acc), Go(t, s, acc, tab, count), World'
  PROVE  AccessInv'
<1>1. DOMAIN table \subseteq DOMAIN tab
  BY DEF Extends
<1>2. Touched(t, acc, tab)
  BY <1>1, AccessorFacts, AccessorStays DEF Touched, Alike
<1>3. count = Cached(acc, Accessors)
  BY AccessorFacts
<1> QED BY <1>2, <1>3, GoKeeps

\* A step that changes one accessor: the thread's own, or the cache of another
LEMMA ChangeKeeps ==
  ASSUME AccessInv, NEW t \in Threads, NEW s \in ThreadStates, NEW tab, Extends(tab),
         s.own \subseteq DOMAIN tab \cup {0}, NEW a \in Accessors, NEW x \in AccessorStates,
         AccessorOK(x, tab), x.fd \in DOMAIN tab \cup {0}, Fds(x.cache) \subseteq DOMAIN tab \cup {0},
         a[1] = t \/ Alike(x, acc[a]),
         NEW accs, accs = [acc EXCEPT ![a] = x], ThreadOK(t, s, accs),
         NEW n, n = count + (Len(x.cache) - Len(acc[a].cache)), Go(t, s, accs, tab, n), World'
  PROVE  AccessInv'
<1>1. DOMAIN table \subseteq DOMAIN tab
  BY DEF Extends
<1>2. acc \in [Accessors -> AccessorStates]
  BY AccessorFacts
<1>3. /\ accs \in [Accessors -> AccessorStates] /\ accs[a] = x
      /\ \A b \in Accessors \ {a} : accs[b] = acc[b]
  BY <1>2
<1>4. Touched(t, accs, tab)
  <2> SUFFICES ASSUME NEW b \in Accessors
               PROVE  /\ AccessorOK(accs[b], tab)
                      /\ accs[b].fd \in DOMAIN tab \cup {0}
                      /\ Fds(accs[b].cache) \subseteq DOMAIN tab \cup {0}
                      /\ b[1] # t => Alike(accs[b], acc[b])
    BY <1>3 DEF Touched
  <2>1. CASE b = a
    BY <1>3, <2>1
  <2>2. CASE b # a
    <3>1. accs[b] = acc[b]
      BY <1>3, <2>2
    <3> QED BY <1>1, <3>1, AccessorFacts, AccessorStays DEF Alike
  <2> QED BY <2>1, <2>2
<1>5. Bounded(acc) /\ Bounded(accs)
  BY <1>2, <1>3, <1>4, AccessorFacts DEF Bounded, AccessorOK, AccessorStates, Touched
<1>6. n = Cached(accs, Accessors)
  <2>1. \A b \in Accessors \ {a} : Len(acc[b].cache) = Len(accs[b].cache)
    BY <1>3
  <2>2. Cached(accs, Accessors) = Cached(acc, Accessors) + (Len(accs[a].cache) - Len(acc[a].cache))
    BY <1>5, <2>1, OneCacheChanges
  <2> QED BY <1>3, <2>2, AccessorFacts
<1> QED BY <1>4, <1>6, GoKeeps

--------------------------------------------------------------------------------
(* The ways a call goes on *)

Calling == PCs \ {"idle", "readlink", "register"}

\* The same call a step later
Within(s, q) ==
  /\ s \in ThreadStates /\ s.pc \in Calling
  /\ s.stack = q.stack /\ s.made = q.made /\ s.todo = q.todo /\ s.op = q.op /\ s.ans = q.ans
  /\ s.got <= s.size /\ (s.pc # "read" => s.got = 0)
  /\ s.pc \in {"leaf", "list"} => s.op # "readFile"

LEMMA CallHasAccessor ==
  ASSUME AccessInv, NEW t \in Threads, th[t].pc \in Calling
  PROVE  /\ th[t].stack # <<>> /\ Mine(t) \in Accessors /\ Mine(t)[1] = t
         /\ acc[Mine(t)].kind # None /\ acc[Mine(t)] \in AccessorStates
         /\ AccessorOK(acc[Mine(t)], table) /\ acc[Mine(t)].fd \in DOMAIN table \cup {0}
<1>1. th[t].stack # <<>>
  BY Facts DEF StackOK, Calling
<1> QED BY <1>1, MineIsMine, AccessorFacts

LEMMA WithinIsOK ==
  ASSUME AccessInv, NEW t \in Threads, th[t].pc \in Calling, NEW s, Within(s, th[t]),
         NEW accs \in [Accessors -> AccessorStates],
         \A a \in Accessors : accs[a].kind = acc[a].kind,
         UseOK(s, accs[Mine(t)])
  PROVE  ThreadOK(t, s, accs)
<1>1. StackOK(t, th[t], acc) /\ ReadOK(th[t]) /\ th[t] \in ThreadStates
  BY Facts
<1>2. ASSUME NEW i \in 1 .. Len(s.stack) PROVE s.stack[i] \in Accessors
  BY DEF Within, ThreadStates
<1>3. ASSUME NEW i \in 1 .. MaxMade PROVE <<t, i>> \in Accessors
  BY DEF Accessors
<1>4. StackOK(t, s, accs)
  <2>1. s.stack # <<>>
    BY CallHasAccessor DEF Within
  <2> QED BY <1>1, <1>2, <1>3, <2>1 DEF StackOK, Within, Calling
<1>5. ReadOK(s)
  BY <1>1 DEF ReadOK, Within
<1>6. Last(s.stack) = Mine(t)
  BY DEF Within, Mine
<1> QED BY <1>4, <1>5, <1>6 DEF ThreadOK

\* It may have opened descriptors.
LEMMA StepKeeps ==
  ASSUME AccessInv, NEW t \in Threads, th[t].pc \in Calling, NEW s, Within(s, th[t]),
         UseOK(s, acc[Mine(t)]), NEW tab, Extends(tab), s.own \subseteq DOMAIN tab \cup {0},
         Go(t, s, acc, tab, count), World'
  PROVE  AccessInv'
<1>1. ThreadOK(t, s, acc) /\ s \in ThreadStates
  BY WithinIsOK, AccessorFacts DEF Within
<1> QED BY <1>1, GoesKeeps

\* It may have changed a cache.
LEMMA CacheKeeps ==
  ASSUME AccessInv, NEW t \in Threads, th[t].pc \in Calling, NEW s, Within(s, th[t]),
         UseOK(s, acc[Mine(t)]), s.own \subseteq DOMAIN table \cup {0},
         NEW a \in Accessors, NEW c \in Seq(CacheEntries), Len(c) <= CacheSize,
         Fds(c) \subseteq DOMAIN table \cup {0}, acc[a].kind # None \/ c = <<>>,
         NEW accs, accs = [acc EXCEPT ![a].cache = c],
         NEW n, n = count + (Len(c) - Len(acc[a].cache)), Go(t, s, accs, table, n), World'
  PROVE  AccessInv'
<1> DEFINE x == [acc[a] EXCEPT !.cache = c]
<1>1. /\ acc \in [Accessors -> AccessorStates] /\ acc[a] \in AccessorStates
      /\ AccessorOK(acc[a], table) /\ acc[a].fd \in DOMAIN table \cup {0} /\ Extends(table)
  BY AccessorFacts
<1>2. x \in AccessorStates /\ Alike(x, acc[a]) /\ x.listed = acc[a].listed /\ x.cache = c
  BY <1>1 DEF AccessorStates, Alike
<1>3. accs = [acc EXCEPT ![a] = x] /\ accs \in [Accessors -> AccessorStates]
  BY <1>1, <1>2
<1>4. \A b \in Accessors : Alike(accs[b], acc[b])
  BY <1>1, <1>2, <1>3 DEF Alike
<1> HIDE DEF x
<1>5. AccessorOK(x, table) /\ x.fd \in DOMAIN table \cup {0}
  BY <1>1, <1>2 DEF AccessorOK, Alike
<1>6. UseOK(s, accs[Mine(t)])
  BY <1>4, CallHasAccessor DEF UseOK, Alike
<1>7. ThreadOK(t, s, accs) /\ s \in ThreadStates
  BY <1>3, <1>4, <1>6, WithinIsOK DEF Within, Alike
<1> QED BY <1>1, <1>2, <1>3, <1>5, <1>7, ChangeKeeps

\* A thread between calls uses no descriptor.
LEMMA RestIsOK ==
  ASSUME NEW s, s.pc \in {"idle", "readlink", "register"}, s.cur = 0, s.k = 0, NEW x
  PROVE  UseOK(s, x)
  BY DEF UseOK, Resolving, Opening, ToParent

LEMMA NoAnswerOK == NoAnswer \in Answers
<1>1. <<>> \in Paths
  BY DEF Paths
<1> QED BY <1>1 DEF NoAnswer, Answers, Outcomes

LEMMA NewThreadOK ==
  ASSUME NEW todo \in Seq(Requests)
  PROVE  NewThread(todo) \in ThreadStates
<1>1. <<>> \in Paths /\ <<>> \in Seq(Accessors)
  BY DEF Paths
<1> QED BY <1>1, NoAnswerOK DEF NewThread, ThreadStates, PCs

LEMMA AnswerIsThread ==
  ASSUME NEW s \in ThreadStates, NEW err \in Outcomes, NEW inode \in Inside \cup {None}
  PROVE  Answer(s, err, inode) \in ThreadStates
<1> DEFINE ans == [op |-> s.op, path |-> s.path, err |-> err, node |-> inode,
                   size |-> s.size, got |-> s.got]
           q == Answer(s, err, inode)
           new == NewThread(s.todo)
<1>1. /\ s.todo \in Seq(Requests) /\ s.made \in Nat /\ s.stack \in Seq(Accessors)
      /\ s.op \in Ops \cup {None} /\ s.path \in Paths /\ s.size \in Nat /\ s.got \in Nat
  BY DEF ThreadStates
<1>2. ans \in Answers
  BY <1>1 DEF Answers, Inside
<1>3. new \in ThreadStates
  BY <1>1, NewThreadOK
<1>4. q = [new EXCEPT !.made = s.made, !.stack = s.stack, !.ans = ans]
  BY DEF Answer
<1> HIDE DEF ans, q, new
<1>5. q \in ThreadStates
  BY <1>1, <1>2, <1>3, <1>4 DEF ThreadStates
<1> QED BY <1>5 DEF q

\* It returns or throws.
LEMMA AnswerKeeps ==
  ASSUME AccessInv, NEW t \in Threads, th[t].pc # "readlink", th[t].stack # <<>>,
         NEW s \in ThreadStates, s.stack = th[t].stack, s.made = th[t].made,
         s.made + Len(s.todo) <= MaxMade,
         NEW err \in Outcomes, NEW inode \in Inside \cup {None},
         s.op = "readFile" => (err = "ok" <=> inode # None /\ s.got = s.size),
         Goes(t, Answer(s, err, inode)), World'
  PROVE  AccessInv'
<1> DEFINE ans == [op |-> s.op, path |-> s.path, err |-> err, node |-> inode,
                   size |-> s.size, got |-> s.got]
           q == Answer(s, err, inode)
<1>1. /\ s.todo \in Seq(Requests) /\ s.made \in Nat /\ s.stack \in Seq(Accessors)
      /\ s.op \in Ops \cup {None} /\ s.path \in Paths /\ s.size \in Nat /\ s.got \in Nat
  BY DEF ThreadStates
<1>3. /\ q.todo = s.todo /\ q.made = s.made /\ q.stack = s.stack /\ q.ans = ans /\ q.pc = "idle"
      /\ q.op = None /\ q.k = 0 /\ q.cur = 0 /\ q.own = {} /\ q.size = 0 /\ q.got = 0
  BY DEF Answer, NewThread
<1>4. q \in ThreadStates
  BY AnswerIsThread
<1>5. StackOK(t, q, acc)
  <2>1. StackOK(t, th[t], acc)
    BY Facts
  <2> HIDE DEF ans, q
  <2>2. Len(s.todo) \in Nat
    BY <1>1
  <2> QED BY <1>1, <1>3, <2>1, <2>2 DEF StackOK
<1>6. UseOK(q, acc[Last(q.stack)])
  <2> HIDE DEF q
  <2> QED BY <1>3, RestIsOK
<1>7. ReadOK(q)
  <2>1. /\ ans.op = s.op /\ ans.err = err /\ ans.node = inode /\ ans.size = s.size /\ ans.got = s.got
    OBVIOUS
  <2> HIDE DEF ans, q
  <2>2. inode \notin Outside
    BY TreesAssumption DEF Inside
  <2> QED BY <1>3, <2>1, <2>2 DEF ReadOK
<1>8. Extends(table)
  BY AccessorFacts
<1>9. q.own = {} /\ Go(t, q, acc, table, count)
  <2>1. Go(t, q, acc, table, count)
    BY DEF Goes
  <2> HIDE DEF q, ans
  <2> QED BY <1>3, <2>1
<1> HIDE DEF q
<1> QED BY <1>4, <1>5, <1>6, <1>7, <1>8, <1>9, GoesKeeps DEF ThreadOK

--------------------------------------------------------------------------------
(* One step of a call at a time *)

LEMMA EvictKeeps ==
  ASSUME AccessInv, NEW t \in Threads, Evict(t)
  PROVE  AccessInv'
<1> DEFINE s == [th[t] EXCEPT !.pc = IF count < Limit THEN "lookup" ELSE "wait"]
<1>1. /\ th[t] \in ThreadStates /\ UseOK(th[t], acc[Mine(t)]) /\ ReadOK(th[t])
      /\ th[t].own \subseteq DOMAIN table \cup {0} /\ th[t].pc = "evict"
  BY Facts DEF Evict
<1>2. Within(s, th[t]) /\ s.own = th[t].own
  BY <1>1 DEF ThreadStates, Within, Calling, PCs, ReadOK
<1>3. UseOK(s, acc[Mine(t)])
  BY <1>1 DEF ThreadStates, UseOK, Resolving, Opening, ToParent
<1>4. World'
  BY AccessorFacts DEF Evict, Same, World
<1>5. Go(t, s, acc, table, count) /\ th[t].pc \in Calling /\ Extends(table)
  BY <1>1, AccessorFacts DEF Evict, Goes, Calling, PCs
<1> HIDE DEF s
<1> QED BY <1>1, <1>2, <1>3, <1>4, <1>5, StepKeeps

LEMMA LockRegistryKeeps ==
  ASSUME AccessInv, NEW t \in Threads, LockRegistry(t)
  PROVE  AccessInv'
<1> DEFINE s == [th[t] EXCEPT !.pc = "sweep", !.it = 1]
<1>1. /\ th[t] \in ThreadStates /\ UseOK(th[t], acc[Mine(t)]) /\ ReadOK(th[t])
      /\ th[t].own \subseteq DOMAIN table \cup {0} /\ th[t].pc = "wait"
  BY Facts DEF LockRegistry
<1>2. Within(s, th[t]) /\ s.own = th[t].own
  BY <1>1 DEF ThreadStates, Within, Calling, PCs, ReadOK
<1>3. UseOK(s, acc[Mine(t)])
  BY <1>1 DEF ThreadStates, UseOK, Resolving, Opening, ToParent
<1>4. World'
  BY AccessorFacts DEF LockRegistry, World
<1>5. Go(t, s, acc, table, count) /\ th[t].pc \in Calling /\ Extends(table)
  BY <1>1, AccessorFacts DEF LockRegistry, Goes, Calling, PCs
<1> HIDE DEF s
<1> QED BY <1>1, <1>2, <1>3, <1>4, <1>5, StepKeeps

\* A living accessor is one of the accessors.
LEMMA AliveIsAccessor ==
  ASSUME AccessInv, NEW a, Alive(th, a)
  PROVE  a \in Accessors /\ a # <<>>
<1>1. PICK u \in Threads : a \in ToSet(th[u].stack) \/ th[u].pin = a
  BY DEF Alive
<1>2. th[u].stack \in Seq(Accessors) /\ th[u].pin \in Accessors \cup {<<>>} /\ a # <<>>
  BY Facts DEF ThreadStates, Alive
<1>3. ToSet(th[u].stack) \subseteq Accessors
  BY <1>2 DEF ToSet
<1> QED BY <1>1, <1>2, <1>3

LEMMA SweepKeeps ==
  ASSUME AccessInv, NEW t \in Threads, Sweep(t)
  PROVE  AccessInv'
<1>1. /\ th[t] \in ThreadStates /\ UseOK(th[t], acc[Mine(t)]) /\ ReadOK(th[t])
      /\ th[t].own \subseteq DOMAIN table \cup {0} /\ th[t].pc = "sweep" /\ th[t].pc \in Calling
  BY Facts DEF Sweep, Calling, PCs
<1>2. World'
  BY AccessorFacts DEF Sweep, World
<1>3. ASSUME NEW s, s \in {th[t], [th[t] EXCEPT !.pc = "lookup"]} 
      PROVE  Within(s, th[t]) /\ UseOK(s, acc[Mine(t)]) /\ s.own = th[t].own
  <2>1. Within(s, th[t]) /\ s.own = th[t].own
    BY <1>1, <1>3 DEF ThreadStates, Within, Calling, PCs, ReadOK
  <2>2. UseOK(s, acc[Mine(t)])
    BY <1>1, <1>3 DEF ThreadStates, UseOK, Resolving, Opening, ToParent
  <2> QED BY <2>1, <2>2
<1>4. ASSUME NEW a \in Accessors, a # <<>>, NEW s, s = [th[t] EXCEPT !.pc = "clear", !.pin = a]
      PROVE  Within(s, th[t]) /\ UseOK(s, acc[Mine(t)]) /\ s.own = th[t].own
  <2>1. Within(s, th[t]) /\ s.own = th[t].own
    BY <1>1, <1>4 DEF ThreadStates, Within, Calling, PCs, ReadOK
  <2>2. s.pin # <<>>
    BY <1>1, <1>4 DEF ThreadStates
  <2>3. UseOK(s, acc[Mine(t)])
    BY <1>1, <1>4, <2>2 DEF ThreadStates, UseOK, Resolving, Opening, ToParent
  <2> QED BY <2>1, <2>3
<1>5. \E s : Within(s, th[t]) /\ UseOK(s, acc[Mine(t)]) /\ s.own = th[t].own /\ Go(t, s, acc, table, count)
  <2>1. CASE Goes(t, [th[t] EXCEPT !.pc = "lookup"])
    BY <1>3, <2>1 DEF Goes
  <2>2. CASE Goes(t, th[t])
    BY <1>3, <2>2 DEF Goes
  <2>3. CASE /\ Alive(th, registry[th[t].it])
             /\ Goes(t, [th[t] EXCEPT !.pc = "clear", !.pin = registry[th[t].it]])
    BY <1>4, <2>3, AliveIsAccessor DEF Goes
  <2> QED BY <2>1, <2>2, <2>3 DEF Sweep
<1> QED BY <1>1, <1>2, <1>5, StepKeeps, AccessorFacts

LEMMA ClearKeeps ==
  ASSUME AccessInv, NEW t \in Threads, Clear(t)
  PROVE  AccessInv'
<1> DEFINE a == th[t].pin
           s == [th[t] EXCEPT !.pc = "sweep", !.it = @ + 1, !.pin = <<>>]
           accs == [acc EXCEPT ![a].cache = <<>>]
<1>1. /\ th[t] \in ThreadStates /\ UseOK(th[t], acc[Mine(t)]) /\ ReadOK(th[t])
      /\ th[t].own \subseteq DOMAIN table \cup {0} /\ th[t].pc = "clear" /\ th[t].pc \in Calling
  BY Facts DEF Clear, Calling, PCs
<1>2. a \in Accessors
  BY <1>1 DEF ThreadStates, UseOK
<1>3. ASSUME NEW i \in Nat, NEW e \in Accessors \cup {<<>>},
             NEW q, q = [th[t] EXCEPT !.pc = "sweep", !.it = i, !.pin = e]
      PROVE  Within(q, th[t]) /\ q.own = th[t].own /\ UseOK(q, acc[Mine(t)])
  <2>1. Within(q, th[t]) /\ q.own = th[t].own
    BY <1>1, <1>3 DEF ThreadStates, Within, Calling, PCs, ReadOK
  <2>2. UseOK(q, acc[Mine(t)])
    BY <1>1, <1>3 DEF ThreadStates, UseOK, Resolving, Opening, ToParent
  <2> QED BY <2>1, <2>2
<1>4. Within(s, th[t]) /\ s.own = th[t].own /\ UseOK(s, acc[Mine(t)])
  <2>1. th[t].it + 1 \in Nat /\ <<>> \in Accessors \cup {<<>>}
    BY <1>1 DEF ThreadStates
  <2> QED BY <1>3, <2>1
<1>5. World'
  BY AccessorFacts DEF Clear, Same, World
<1>6. /\ <<>> \in Seq(CacheEntries) /\ Len(<<>>) <= CacheSize
      /\ Fds(<<>>) \subseteq DOMAIN table \cup {0}
  <2>1. <<>> \in Seq(CacheEntries) /\ Len(<<>>) = 0
    OBVIOUS
  <2>2. Fds(<<>>) = {}
    BY DEF Fds
  <2> QED BY <2>1, <2>2, SizesAssumption
<1>7. Go(t, s, accs, table, count + (Len(<<>>) - Len(acc[a].cache)))
  <2>1. Len(acc[a].cache) \in Nat /\ count \in Int
    BY <1>2, AccessorFacts DEF AccessorStates
  <2>2. Len(<<>>) = 0
    OBVIOUS
  <2>3. count - Len(acc[a].cache) = count + (Len(<<>>) - Len(acc[a].cache))
    <3> DEFINE n == Len(acc[a].cache)
    <3> HIDE DEF n
    <3>1. n \in Nat
      BY <2>1 DEF n
    <3>2. count - n = count + (0 - n)
      BY ONLY <2>1, <3>1
    <3> QED BY <2>2, <3>2 DEF n
  <2>4. Go(t, s, accs, table, count - Len(acc[a].cache))
    BY DEF Clear
  <2> QED BY <2>3, <2>4
<1> HIDE DEF s, accs, a
<1> QED BY <1>1, <1>2, <1>4, <1>5, <1>6, <1>7, CacheKeeps DEF accs

\* A bounded set of numbers has a greatest one.
LEMMA Greatest ==
  ASSUME NEW n \in Nat, NEW S \in SUBSET (0 .. n), S # {}
  PROVE  Max(S) \in S
<1> DEFINE T == {n - x : x \in S}
<1>1. T \in SUBSET Nat /\ T # {}
  <2>1. \A x \in S : n - x \in Nat
    OBVIOUS
  <2>2. PICK x \in S : TRUE
    OBVIOUS
  <2>3. n - x \in T
    OBVIOUS
  <2> QED BY <2>1, <2>3
<1> HIDE DEF T
<1>2. PICK m \in T : \A k \in T : m <= k
  BY <1>1, Least
<1>3. PICK x \in S : m = n - x
  BY <1>2 DEF T
<1>4. ASSUME NEW y \in S PROVE x >= y
  <2>1. n - y \in T
    BY DEF T
  <2>2. n - x <= n - y
    BY <1>2, <1>3, <2>1
  <2>3. x \in Int /\ y \in Int
    OBVIOUS
  <2> QED BY <2>2, <2>3
<1> QED BY <1>4 DEF Max

\* A part of a path is a path.
LEMMA SubPath ==
  ASSUME NEW path \in Paths, NEW m \in Nat, NEW n \in Int, m >= 1, n <= Len(path)
  PROVE  /\ SubSeq(path, m, n) \in Paths
         /\ Len(SubSeq(path, m, n)) = IF m <= n THEN n - m + 1 ELSE 0
<1>1. m \in Int /\ n \in Int /\ \A i \in m .. n : path[i] \in STRING
  BY DEF Paths
<1>2. /\ SubSeq(path, m, n) \in Seq(STRING)
      /\ Len(SubSeq(path, m, n)) = IF m <= n THEN n - m + 1 ELSE 0
  BY <1>1, SubSeqProperties
<1> QED BY <1>2 DEF Paths

LEMMA ParentIsPath ==
  ASSUME NEW path \in Paths, Len(path) > 1
  PROVE  Parent(path) \in Paths /\ Len(Parent(path)) = Len(path) - 1
<1> DEFINE n == Len(path) - 1
<1>1. n \in Nat /\ n >= 1 /\ n <= Len(path)
  BY DEF Paths
<1>2. 1 \in Nat /\ 1 >= 1
  OBVIOUS
<1>3. Parent(path) = SubSeq(path, 1, n)
  BY DEF Parent
<1> HIDE DEF n
<1>4. SubSeq(path, 1, n) \in Paths /\ Len(SubSeq(path, 1, n)) = IF 1 <= n THEN n - 1 + 1 ELSE 0
  BY <1>1, <1>2, SubPath
<1> QED BY <1>1, <1>3, <1>4 DEF n

LEMMA FindAncestorKeeps ==
  ASSUME AccessInv, NEW t \in Threads, FindAncestor(t)
  PROVE  AccessInv'
<1> DEFINE s == th[t]
           a == acc[Mine(t)]
           parent == Parent(s.path)
           hits == {j \in 1 .. Len(parent) : a.cached /\ HasKey(a.cache, SubSeq(parent, 1, j))}
           best == Max(hits)
           key == SubSeq(parent, 1, best)
           fd == Get(a.cache, key)
           rest == SubSeq(parent, best + 1, Len(parent))
           hit == [s EXCEPT !.dir = fd, !.own = {fd}, !.rel = rest, !.k = 0, !.cur = 0, !.it = 0,
                            !.pc = IF rest = <<>> THEN "upsert" ELSE "open"]
           miss == [s EXCEPT !.dir = a.fd, !.rel = parent, !.pc = "open", !.it = 0]
<1>1. /\ s \in ThreadStates /\ UseOK(s, a) /\ ReadOK(s) /\ s.pc = "lookup" /\ s.pc \in Calling
      /\ s.own \subseteq DOMAIN table \cup {0}
  BY Facts DEF FindAncestor, Calling, PCs
<1>2. /\ Mine(t) \in Accessors /\ a \in AccessorStates /\ a.kind # None
      /\ AccessorOK(a, table) /\ a.fd \in DOMAIN table \cup {0} /\ Fds(a.cache) \subseteq DOMAIN table \cup {0}
  BY <1>1, CallHasAccessor, AccessorFacts
<1>3. World'
  BY AccessorFacts DEF FindAncestor, Same, World
<1>4. s.path \in Paths /\ Len(s.path) > 1 /\ a.fd # 0 /\ a.fd \in Nat /\ s.cur = 0 /\ s.k = 0
  BY <1>1, <1>2 DEF ThreadStates, AccessorStates, UseOK, ToParent, Resolving, Opening
<1>5. parent \in Paths /\ Len(parent) \in Nat /\ Len(parent) >= 1
  <2>1. parent \in Paths /\ Len(parent) = Len(s.path) - 1
    BY <1>4, ParentIsPath
  <2> HIDE DEF parent
  <2>2. Len(s.path) \in Nat
    BY <1>4 DEF Paths
  <2> QED BY <1>4, <2>1, <2>2
<1>6. CASE hits = {}
  <2>1. Go(t, miss, acc, table, count)
    BY <1>6 DEF FindAncestor, Goes
  <2> HIDE DEF hits, parent, a
  <2>2. Within(miss, s)
    BY <1>1, <1>4, <1>5 DEF ThreadStates, Within, Calling, PCs, ReadOK
  <2>3. UseOK(miss, a) /\ miss.own = s.own
    BY <1>1, <1>4, <1>5 DEF ThreadStates, UseOK, Resolving, Opening, ToParent
  <2> HIDE DEF miss
  <2> QED BY <1>1, <1>3, <2>1, <2>2, <2>3, StepKeeps, AccessorFacts DEF a
<1>7. CASE hits # {}
  <2> DEFINE c == Promote(a.cache, key)
  <2>1. Go(t, hit, [acc EXCEPT ![Mine(t)].cache = c], table, count)
    BY <1>7 DEF FindAncestor
  <2>2. best \in 1 .. Len(parent) /\ HasKey(a.cache, key)
    <3> DEFINE n == Len(parent)
    <3>1. hits \in SUBSET (0 .. n) /\ n \in Nat
      BY <1>5
    <3>2. Max(hits) \in hits
      <4> HIDE DEF hits, n
      <4> QED BY <1>7, <3>1, Greatest
    <3> QED BY <3>2
  <2> HIDE DEF hits, best, parent
  <2>3. key \in Paths
    <3>1. best \in Nat /\ best <= Len(parent) /\ 1 \in Nat /\ 1 >= 1
      BY <1>5, <2>2
    <3> QED BY <1>5, <3>1, SubPath
  <2>4. rest \in Paths
    <3> DEFINE m == best + 1
               n == Len(parent)
    <3>1. m \in Nat /\ m >= 1 /\ n \in Int /\ n <= n
      BY <1>5, <2>2
    <3>2. rest = SubSeq(parent, m, n)
      OBVIOUS
    <3> HIDE DEF m
    <3> QED BY <1>5, <3>1, <3>2, SubPath
  <2>5. a.cache \in Seq(CacheEntries)
    BY <1>2 DEF AccessorStates
  <2> HIDE DEF key, rest, a
  <2>6. /\ c \in Seq(CacheEntries) /\ Len(c) = Len(a.cache) /\ Fds(c) \subseteq Fds(a.cache)
        /\ fd \in Fds(a.cache) /\ fd \in Nat \ {0}
    BY <2>2, <2>3, <2>5, PromoteEffect
  <2> HIDE DEF c, fd
  <2>7. rest # <<>> => 0 < Len(rest)
    BY <2>4 DEF Paths
  <2>8. Within(hit, s) /\ hit.own = {fd}
    BY <1>1, <2>4, <2>6 DEF ThreadStates, Within, Calling, PCs, ReadOK
  <2>9. UseOK(hit, a)
    BY <1>1, <1>4, <2>4, <2>6, <2>7 DEF ThreadStates, UseOK, Resolving, Opening, ToParent
  <2> HIDE DEF hit
  <2>10. Len(c) <= CacheSize /\ Fds(c) \subseteq DOMAIN table \cup {0} /\ hit.own \subseteq DOMAIN table \cup {0}
    BY <1>2, <2>6, <2>8 DEF AccessorOK
  <2>11. count = count + (Len(c) - Len(acc[Mine(t)].cache))
    <3>1. Len(a.cache) \in Nat /\ count \in Int
      BY <2>5, AccessorFacts
    <3> QED BY <2>6, <3>1 DEF a
  <2> QED BY <1>1, <1>2, <1>3, <2>1, <2>6, <2>8, <2>9, <2>10, <2>11, CacheKeeps DEF a
<1> QED BY <1>6, <1>7

\* The descriptor a call resolves from
LEMMA DirStays ==
  ASSUME AccessInv, NEW t \in Threads, th[t].pc \in Resolving, th[t].cur = 0
  PROVE  th[t].dir # 0 /\ th[t].dir \in DOMAIN table \cup {0} /\ At(th[t].dir) \in Inside
<1>1. th[t].pc \in Calling
  BY DEF Resolving, Opening, Calling, PCs
<1>2. th[t].dir # 0 /\ th[t].dir \in th[t].own \cup {acc[Mine(t)].fd}
  BY Facts DEF UseOK
<1>3. th[t].dir \in DOMAIN table \cup {0}
  BY <1>1, <1>2, Facts, CallHasAccessor
<1> QED BY <1>2, <1>3, AtStays

\* An opened descriptor joins the others.
LEMMA OpenExtends ==
  ASSUME AccessInv, NEW inode \in Inside
  PROVE  /\ Extends(Open(table, inode)) /\ NewFd(table) \in Nat \ {0} /\ NewFd(table) \notin DOMAIN table
         /\ DOMAIN Open(table, inode) = DOMAIN table \cup {NewFd(table)}
         /\ Open(table, inode)[NewFd(table)] = inode
  BY AccessorFacts, OpenAdds, NewFdIsFree DEF Extends

\* What a call that resolves may give as its answer: an error
LEMMA FailKeeps ==
  ASSUME AccessInv, NEW t \in Threads, th[t].pc \in Calling, NEW err \in Outcomes \ {"ok"},
         Goes(t, Answer(th[t], err, None)), World'
  PROVE  AccessInv'
<1>1. /\ th[t] \in ThreadStates /\ th[t].stack # <<>> /\ th[t].pc # "readlink"
      /\ th[t].op # None /\ th[t].made + Len(th[t].todo) + 1 <= MaxMade
  BY Facts, CallHasAccessor DEF StackOK, Calling
<1>2. th[t].made + Len(th[t].todo) <= MaxMade
  <2>1. th[t].made \in Nat /\ Len(th[t].todo) \in Nat
    BY <1>1 DEF ThreadStates
  <2> QED BY <1>1, <2>1, SizesAssumption
<1> QED BY <1>1, <1>2, AnswerKeeps

LEMMA OpenedKeeps ==
  ASSUME AccessInv, NEW t \in Threads, th[t].pc \in {"open", "walk", "why"},
         NEW r \in Results, r.err = "none" => r.node \in Inside, Opened(t, r), World'
  PROVE  AccessInv'
<1> DEFINE s == th[t]
           fd == NewFd(table)
           on == [s EXCEPT !.dir = fd, !.own = @ \cup {fd}, !.cur = 0]
           tab == Open(table, r.node)
           x == acc[Mine(t)]
<1>1. /\ s \in ThreadStates /\ UseOK(s, x) /\ ReadOK(s) /\ s.pc \in Calling
      /\ s.own \subseteq DOMAIN table \cup {0}
  BY Facts DEF Calling, PCs
<1>2. \/ \E err \in Outcomes \ {"ok"} : Goes(t, Answer(s, err, None))
      \/ r.err = "none" /\ ~s.leaf /\ Go(t, [on EXCEPT !.pc = "upsert"], acc, tab, count)
      \/ /\ r.err = "none" /\ s.op = "readFile"
         /\ Go(t, [on EXCEPT !.pc = "read", !.size = node[r.node].size], acc, tab, count)
      \/ r.err = "none" /\ s.op # "readFile" /\ Go(t, [on EXCEPT !.pc = "list"], acc, tab, count)
  BY DEF Opened, Outcomes
<1>3. ASSUME r.err = "none", NEW q, Within(q, s), UseOK(q, x), q.own = s.own \cup {fd}, Go(t, q, acc, tab, count)
      PROVE  AccessInv'
  <2>1. Extends(tab) /\ DOMAIN tab = DOMAIN table \cup {fd}
    BY <1>3, OpenExtends
  <2> HIDE DEF tab, fd
  <2>2. q.own \subseteq DOMAIN tab \cup {0}
    BY <1>1, <1>3, <2>1
  <2> QED BY <1>1, <1>3, <2>1, <2>2, StepKeeps
<1>4. r.err = "none" => fd \in Nat \ {0} /\ node[r.node].size \in Nat
  BY OpenExtends, AccessorFacts, TreesAssumption DEF World, Inside
<1>5. s.got = 0 /\ s.size \in Nat /\ (~s.leaf => Len(s.path) > 1)
  BY <1>1 DEF ThreadStates, ReadOK, UseOK, Opening
<1>10. r.err = "none" => on \in ThreadStates
  <2>1. r.err = "none" => s.own \cup {fd} \in SUBSET Nat /\ fd \in Nat
    BY <1>1, <1>4 DEF ThreadStates
  <2> HIDE DEF fd
  <2> QED BY <1>1, <2>1 DEF ThreadStates
<1> HIDE DEF fd, tab, x
<1>11. /\ on.stack = s.stack /\ on.made = s.made /\ on.todo = s.todo /\ on.op = s.op /\ on.ans = s.ans
       /\ on.own = s.own \cup {fd} /\ on.got = s.got /\ on.size = s.size /\ on.dir = fd /\ on.cur = 0
       /\ on.k = s.k /\ on.path = s.path /\ on.leaf = s.leaf
  BY <1>1 DEF ThreadStates
<1> HIDE DEF on
<1>6. CASE \E err \in Outcomes \ {"ok"} : Goes(t, Answer(s, err, None))
  BY <1>1, <1>6, FailKeeps
<1>7. CASE r.err = "none" /\ ~s.leaf /\ Go(t, [on EXCEPT !.pc = "upsert"], acc, tab, count)
  <2> DEFINE q == [on EXCEPT !.pc = "upsert"]
  <2>3. on \in ThreadStates
    BY <1>4, <1>7, <1>10
  <2>4. q \in ThreadStates /\ q.pc = "upsert" /\ q.got = on.got /\ q.size = on.size
    BY ONLY <2>3 DEF ThreadStates, PCs
  <2>5. /\ q.stack = on.stack /\ q.made = on.made /\ q.todo = on.todo /\ q.op = on.op
        /\ q.ans = on.ans /\ q.own = on.own
    BY ONLY <2>3 DEF ThreadStates
  <2>1. Within(q, s) /\ q.own = s.own \cup {fd}
    <3> HIDE DEF q
    <3> QED BY <1>5, <1>7, <1>11, <2>4, <2>5 DEF Within, Calling, PCs
  <2>2. UseOK(q, x)
    BY <1>1, <1>4, <1>5, <1>7, <1>10, <1>11 DEF ThreadStates, UseOK, Resolving, Opening, ToParent
  <2> HIDE DEF q
  <2> QED BY <1>3, <1>7, <2>1, <2>2 DEF q
<1>8. CASE /\ r.err = "none" /\ s.op = "readFile"
           /\ Go(t, [on EXCEPT !.pc = "read", !.size = node[r.node].size], acc, tab, count)
  <2> DEFINE q == [on EXCEPT !.pc = "read", !.size = node[r.node].size]
  <2>3. on \in ThreadStates /\ node[r.node].size \in Nat
    BY <1>4, <1>8, <1>10
  <2>4. q \in ThreadStates /\ q.pc = "read" /\ q.got = on.got /\ q.size = node[r.node].size
    BY ONLY <2>3 DEF ThreadStates, PCs
  <2>5. /\ q.stack = on.stack /\ q.made = on.made /\ q.todo = on.todo /\ q.op = on.op
        /\ q.ans = on.ans /\ q.own = on.own
    BY ONLY <2>3 DEF ThreadStates
  <2>1. Within(q, s) /\ q.own = s.own \cup {fd}
    <3> HIDE DEF q
    <3> QED BY <1>4, <1>5, <1>8, <1>11, <2>4, <2>5 DEF Within, Calling, PCs
  <2>2. UseOK(q, x)
    BY <1>1, <1>4, <1>5, <1>8, <1>10, <1>11 DEF ThreadStates, UseOK, Resolving, Opening, ToParent
  <2> HIDE DEF q
  <2> QED BY <1>3, <1>8, <2>1, <2>2 DEF q
<1>9. CASE r.err = "none" /\ s.op # "readFile" /\ Go(t, [on EXCEPT !.pc = "list"], acc, tab, count)
  <2> DEFINE q == [on EXCEPT !.pc = "list"]
  <2>3. on \in ThreadStates
    BY <1>4, <1>9, <1>10
  <2>4. q \in ThreadStates /\ q.pc = "list" /\ q.got = on.got /\ q.size = on.size
    BY ONLY <2>3 DEF ThreadStates, PCs
  <2>5. /\ q.stack = on.stack /\ q.made = on.made /\ q.todo = on.todo /\ q.op = on.op
        /\ q.ans = on.ans /\ q.own = on.own
    BY ONLY <2>3 DEF ThreadStates
  <2>1. Within(q, s) /\ q.own = s.own \cup {fd}
    <3> HIDE DEF q
    <3> QED BY <1>5, <1>9, <1>11, <2>4, <2>5 DEF Within, Calling, PCs
  <2>2. UseOK(q, x)
    BY <1>1, <1>4, <1>5, <1>9, <1>10, <1>11 DEF ThreadStates, UseOK, Resolving, Opening, ToParent
  <2> HIDE DEF q
  <2> QED BY <1>3, <1>9, <2>1, <2>2 DEF q
<1> QED BY <1>2, <1>6, <1>7, <1>8, <1>9

LEMMA TryOpenAt2Keeps ==
  ASSUME AccessInv, NEW t \in Threads, TryOpenAt2(t)
  PROVE  AccessInv'
<1> DEFINE s == th[t]
           r == OpenAt2(node, At(s.dir), s.rel, WantsDirectory(s))
           q == [s EXCEPT !.pc = "walk"]
<1>1. /\ s \in ThreadStates /\ UseOK(s, acc[Mine(t)]) /\ ReadOK(s) /\ s.pc = "open"
      /\ s.own \subseteq DOMAIN table \cup {0} /\ s.pc \in Calling
  BY Facts DEF TryOpenAt2, Calling, PCs
<1>2. World'
  BY AccessorFacts DEF TryOpenAt2, World
<1>3. CASE openat2
  <2>1. At(s.dir) \in Inside
    BY <1>1, DirStays DEF UseOK, Resolving, Opening
  <2>2. s.rel \in Paths /\ WantsDirectory(s) \in BOOLEAN /\ node \in Trees
    BY <1>1, AccessorFacts DEF ThreadStates, WantsDirectory, World
  <2>3. r \in Results /\ (r.err = "none" => r.node \in Inside)
    BY <2>1, <2>2, OpenAt2Stays
  <2>4. Opened(t, r)
    BY <1>3 DEF TryOpenAt2
  <2> HIDE DEF r
  <2> QED BY <1>1, <1>2, <2>3, <2>4, OpenedKeeps
<1>4. CASE ~openat2
  <2>1. Go(t, q, acc, table, count)
    BY <1>4 DEF TryOpenAt2, Goes
  <2>2. Within(q, s) /\ q.own = s.own
    BY <1>1 DEF ThreadStates, Within, Calling, PCs, ReadOK
  <2>3. UseOK(q, acc[Mine(t)])
    BY <1>1 DEF ThreadStates, UseOK, Resolving, Opening, ToParent
  <2> HIDE DEF q
  <2> QED BY <1>1, <1>2, <2>1, <2>2, <2>3, StepKeeps, AccessorFacts
<1> QED BY <1>3, <1>4

LEMMA WhyKeeps ==
  ASSUME AccessInv, NEW t \in Threads, Why(t)
  PROVE  AccessInv'
<1>1. PICK err \in {"ELOOP", "ENOTDIR"} : Opened(t, [err |-> err, node |-> None])
  BY DEF Why
<1>2. [err |-> err, node |-> None] \in Results /\ [err |-> err, node |-> None].err # "none"
  BY DEF Results, Errnos
<1>3. World' /\ th[t].pc = "why"
  BY AccessorFacts DEF Why, Same, World
<1> QED BY <1>1, <1>2, <1>3, OpenedKeeps

LEMMA WalkKeeps ==
  ASSUME AccessInv, NEW t \in Threads, Walk(t)
  PROVE  AccessInv'
<1> DEFINE s == th[t]
           x == acc[Mine(t)]
           from == IF s.cur = 0 THEN s.dir ELSE s.cur
           inner == s.k + 1 < Len(s.rel)
           r == OpenAt(node, At(from), s.rel[s.k + 1], inner \/ WantsDirectory(s))
           fd == NewFd(table)
           caches == x.cached /\ s.cur # 0
           on == [s EXCEPT !.k = @ + 1, !.cur = fd, !.prev = IF caches THEN s.cur ELSE 0,
                           !.pc = IF caches THEN "callback" ELSE "walk",
                           !.own = (@ \cup {fd}) \ (IF caches THEN {} ELSE {s.cur})]
           why == [s EXCEPT !.pc = "why"]
<1>1. /\ s \in ThreadStates /\ UseOK(s, x) /\ ReadOK(s) /\ s.pc \in {"open", "walk"}
      /\ s.own \subseteq DOMAIN table \cup {0} /\ s.pc \in Calling
  BY Facts DEF Walk, Calling, PCs
<1>2. World'
  BY AccessorFacts DEF Walk, Same, World
<1>3. from \in DOMAIN table \cup {0}
  <2>1. CASE s.cur = 0
    BY <1>1, <2>1, DirStays DEF Resolving, Opening
  <2>2. CASE s.cur # 0
    BY <1>1, <2>2 DEF UseOK
  <2> QED BY <2>1, <2>2
<1>4. r \in Results /\ (r.err = "none" => r.node \in Inside)
  <2>1. At(from) \in Inside \cup {None} /\ node \in Trees
    BY <1>3, AtStays, AccessorFacts DEF World
  <2>2. (inner \/ WantsDirectory(s)) \in BOOLEAN
    BY <1>1 DEF ThreadStates, WantsDirectory
  <2> HIDE DEF from, inner
  <2> QED BY <2>1, <2>2, OpenStays
<1>5. \/ Go(t, why, acc, table, count)
      \/ r.err = "none" /\ inner /\ Go(t, on, acc, Open(table, r.node), count)
      \/ Opened(t, r)
  BY DEF Walk, Goes
<1> HIDE DEF from, r
<1>6. CASE Go(t, why, acc, table, count)
  <2>1. Within(why, s) /\ why.own = s.own
    BY <1>1 DEF ThreadStates, Within, Calling, PCs, ReadOK
  <2>2. UseOK(why, x)
    BY <1>1 DEF ThreadStates, UseOK, Resolving, Opening, ToParent
  <2> HIDE DEF why
  <2> QED BY <1>1, <1>2, <1>6, <2>1, <2>2, StepKeeps, AccessorFacts
<1>7. CASE r.err = "none" /\ inner /\ Go(t, on, acc, Open(table, r.node), count)
  <2> DEFINE tab == Open(table, r.node)
  <2>1. Extends(tab) /\ DOMAIN tab = DOMAIN table \cup {fd} /\ fd \in Nat \ {0} /\ fd \notin DOMAIN table
    BY <1>4, <1>7, OpenExtends
  <2>2. s.cur \in Nat /\ s.cur # fd /\ s.own \subseteq Nat /\ s.k \in Nat /\ (s.cur # 0 => s.cur \in s.own)
    <3>1. s.cur # 0 => s.cur \in DOMAIN table
      BY <1>1 DEF UseOK
    <3> QED BY <1>1, <2>1, <3>1 DEF ThreadStates, UseOK
  <2> HIDE DEF tab, fd, x
  <2>3. /\ on.own = (s.own \cup {fd}) \ (IF caches THEN {} ELSE {s.cur})
        /\ on.cur = fd /\ on.prev = (IF caches THEN s.cur ELSE 0) /\ on.k = s.k + 1
        /\ on.pc = (IF caches THEN "callback" ELSE "walk")
        /\ on.rel = s.rel /\ on.path = s.path /\ on.leaf = s.leaf
    BY <1>1 DEF ThreadStates
  <2>4. Within(on, s)
    <3> DEFINE own == (s.own \cup {fd}) \ (IF caches THEN {} ELSE {s.cur})
               prev == IF caches THEN s.cur ELSE 0
               pc == IF caches THEN "callback" ELSE "walk"
               k == s.k + 1
    <3>1. own \in SUBSET Nat /\ prev \in Nat /\ pc \in PCs /\ k \in Nat
      BY <2>1, <2>2 DEF PCs
    <3>2. on = [s EXCEPT !.k = k, !.cur = fd, !.prev = prev, !.pc = pc, !.own = own]
      OBVIOUS
    <3> HIDE DEF own, prev, pc, k, on
    <3>3. on \in ThreadStates
      BY <1>1, <2>1, <3>1, <3>2 DEF ThreadStates
    <3>4. /\ on.stack = s.stack /\ on.made = s.made /\ on.todo = s.todo /\ on.op = s.op
          /\ on.ans = s.ans /\ on.size = s.size /\ on.got = s.got
      BY <1>1, <3>2 DEF ThreadStates
    <3>5. s.got = 0 /\ s.size \in Nat
      BY <1>1 DEF ReadOK, ThreadStates
    <3> QED BY <2>3, <3>3, <3>4, <3>5 DEF Within, Calling, PCs
  <2> HIDE DEF on
  <2>5. UseOK(on, x)
    BY <1>1, <1>7, <2>1, <2>2, <2>3 DEF UseOK, Resolving, Opening, ToParent
  <2>6. on.own \subseteq DOMAIN tab \cup {0}
    BY <1>1, <2>1, <2>3
  <2>7. Go(t, on, acc, tab, count)
    BY <1>7 DEF tab
  <2> QED BY <1>1, <1>2, <2>1, <2>4, <2>5, <2>6, <2>7, StepKeeps DEF x
<1>8. CASE Opened(t, r)
  BY <1>1, <1>2, <1>4, <1>8, OpenedKeeps
<1> QED BY <1>5, <1>6, <1>7, <1>8

LEMMA InsertKeeps ==
  ASSUME AccessInv, NEW t \in Threads, th[t].pc \in Calling, NEW s, Within(s, th[t]),
         UseOK(s, acc[Mine(t)]), s.own \subseteq DOMAIN table \cup {0}, acc[Mine(t)].cached,
         NEW key \in Paths, NEW fd \in DOMAIN table, Insert(t, s, key, fd), World'
  PROVE  AccessInv'
<1> DEFINE a == Mine(t)
           old == acc[a].cache
           c == Upsert(old, key, fd)
<1>1. /\ a \in Accessors /\ acc[a].kind # None /\ old \in Seq(CacheEntries) /\ Len(old) <= CacheSize
      /\ CacheSize > 0
  BY CallHasAccessor DEF AccessorStates, AccessorOK
<1>2. fd \in Nat \ {0} /\ Fds(old) \subseteq DOMAIN table \cup {0}
  BY <1>1, AccessorFacts DEF TableOK
<1>3. Go(t, s, [acc EXCEPT ![a].cache = c], table, count + (Len(c) - Len(acc[a].cache)))
  BY DEF Insert
<1> HIDE DEF old
<1>4. c \in Seq(CacheEntries) /\ Len(c) <= CacheSize /\ Fds(c) \subseteq Fds(old) \cup {fd}
  BY <1>1, <1>2, UpsertEffect
<1>5. Fds(c) \subseteq DOMAIN table \cup {0}
  BY <1>2, <1>4
<1> HIDE DEF a, c
<1> QED BY <1>1, <1>3, <1>4, <1>5, CacheKeeps

LEMMA KeyIsPath ==
  ASSUME NEW s \in ThreadStates, s.k < Len(s.rel)
  PROVE  KeyOf(s, s.k - 1) \in Paths
<1> DEFINE up == Parent(s.path)
           m == Len(s.path)
           l == Len(s.rel)
           u == SubSeq(up, 1, m - 1 - l)
           v == SubSeq(s.rel, 1, s.k - 1)
<1>1. s.path \in Paths /\ s.rel \in Paths /\ m \in Nat /\ l \in Nat /\ s.k \in Nat
  BY DEF ThreadStates, Paths
<1>2. up \in Paths /\ Len(up) = IF 1 <= m - 1 THEN m - 1 - 1 + 1 ELSE 0
  <2> DEFINE n == m - 1
  <2>1. n \in Int /\ n <= m /\ 1 \in Nat /\ 1 >= 1
    BY <1>1
  <2>2. up = SubSeq(s.path, 1, n)
    BY DEF Parent
  <2> HIDE DEF n
  <2>3. up \in Paths /\ Len(up) = IF 1 <= n THEN n - 1 + 1 ELSE 0
    BY <1>1, <2>1, <2>2, SubPath
  <2> QED BY <2>3 DEF n
<1> HIDE DEF up, m, l
<1>3. m - 1 - l \in Int /\ m - 1 - l <= Len(up)
  BY <1>1, <1>2
<1>4. u \in Paths
  <2> DEFINE n == m - 1 - l
  <2>1. n \in Int /\ n <= Len(up) /\ 1 \in Nat /\ 1 >= 1
    BY <1>3
  <2> HIDE DEF n
  <2>2. SubSeq(up, 1, n) \in Paths
    BY <1>2, <2>1, SubPath
  <2> QED BY <2>2 DEF n
<1>5. v \in Paths
  <2> DEFINE n == s.k - 1
  <2>1. n \in Int /\ n <= Len(s.rel) /\ 1 \in Nat /\ 1 >= 1
    BY <1>1 DEF l
  <2> HIDE DEF n
  <2>2. SubSeq(s.rel, 1, n) \in Paths
    BY <1>1, <2>1, SubPath
  <2> QED BY <2>2 DEF n
<1>6. KeyOf(s, s.k - 1) = u \o v
  BY DEF KeyOf, up, m, l
<1> HIDE DEF u, v
<1>7. u \in Seq(STRING) /\ v \in Seq(STRING)
  BY <1>4, <1>5 DEF Paths
<1>8. u \o v \in Seq(STRING)
  BY <1>7, ConcatProperties
<1> QED BY <1>6, <1>8 DEF Paths

LEMMA CallbackKeeps ==
  ASSUME AccessInv, NEW t \in Threads, Callback(t)
  PROVE  AccessInv'
<1> DEFINE s == th[t]
           x == acc[Mine(t)]
           own == s.own \ {s.prev}
           q == [s EXCEPT !.pc = "walk", !.prev = 0, !.own = own]
<1>1. /\ s \in ThreadStates /\ UseOK(s, x) /\ ReadOK(s) /\ s.pc = "callback" /\ s.pc \in Calling
      /\ s.own \subseteq DOMAIN table \cup {0}
  BY Facts DEF Callback, Calling, PCs
<1>2. World'
  BY AccessorFacts DEF Callback, Same, World
<1>3. /\ s.cur # 0 /\ s.cur \in own /\ s.prev \in DOMAIN table /\ x.cached /\ s.k < Len(s.rel)
      /\ own \in SUBSET Nat
  BY <1>1 DEF UseOK, Opening, ThreadStates
<1>4. Insert(t, q, KeyOf(s, s.k - 1), s.prev)
  BY DEF Callback
<1> HIDE DEF own, x
<1>5. q \in ThreadStates
  BY <1>1, <1>3 DEF ThreadStates, PCs
<1>6. /\ q.stack = s.stack /\ q.made = s.made /\ q.todo = s.todo /\ q.op = s.op /\ q.ans = s.ans
      /\ q.size = s.size /\ q.got = s.got /\ q.pc = "walk" /\ q.own = own /\ q.cur = s.cur /\ q.k = s.k
      /\ q.rel = s.rel /\ q.leaf = s.leaf /\ q.path = s.path
  BY <1>1 DEF ThreadStates
<1> HIDE DEF q
<1>7. Within(q, s)
  <2>1. s.got = 0 /\ s.size \in Nat
    BY <1>1 DEF ReadOK, ThreadStates
  <2> QED BY <1>5, <1>6, <2>1 DEF Within, Calling, PCs
<1>8. UseOK(q, x)
  BY <1>1, <1>3, <1>6 DEF UseOK, Resolving, Opening, ToParent
<1>9. q.own \subseteq DOMAIN table \cup {0}
  BY <1>1, <1>6 DEF own
<1> QED BY <1>1, <1>2, <1>3, <1>4, <1>7, <1>8, <1>9, KeyIsPath, InsertKeeps DEF x

\* The last name: looked at, or opened
LEMMA AtLeafOK ==
  ASSUME NEW s \in ThreadStates, s.path # <<>>, NEW q, q = AtLeaf(s)
  PROVE  /\ q \in ThreadStates /\ q.stack = s.stack /\ q.made = s.made /\ q.todo = s.todo /\ q.op = s.op
         /\ q.ans = s.ans /\ q.size = s.size /\ q.got = s.got /\ q.path = s.path /\ q.dir = s.dir
         /\ q.own = s.own
         /\ \/ q.pc = "leaf" /\ q.op # "readFile" /\ q.cur = s.cur
            \/ q.pc = "open" /\ q.leaf /\ Len(q.rel) = 1 /\ q.k = 0 /\ q.cur = 0
<1>1. CASE s.op \in {"lstat", "readLink"}
  BY <1>1 DEF AtLeaf, ThreadStates, PCs
<1>2. CASE s.op \notin {"lstat", "readLink"}
  <2> DEFINE rel == <<Last(s.path)>>
  <2>1. rel \in Paths /\ Len(rel) = 1
    <3>1. s.path \in Seq(STRING) /\ Len(s.path) \in 1 .. Len(s.path)
      BY DEF ThreadStates, Paths
    <3>2. Last(s.path) \in STRING
      BY <3>1 DEF Last
    <3> QED BY <3>2 DEF Paths
  <2>2. q = [s EXCEPT !.pc = "open", !.leaf = TRUE, !.rel = rel, !.k = 0, !.cur = 0]
    BY <1>2 DEF AtLeaf
  <2> HIDE DEF rel
  <2>3. q \in ThreadStates
    <3>1. ASSUME NEW b \in BOOLEAN, NEW e \in Paths,
                 NEW p, p = [s EXCEPT !.pc = "open", !.leaf = b, !.rel = e, !.k = 0, !.cur = 0]
          PROVE  p \in ThreadStates
      BY <3>1 DEF ThreadStates, PCs
    <3> QED BY <2>1, <2>2, <3>1
  <2>4. /\ q.stack = s.stack /\ q.made = s.made /\ q.todo = s.todo /\ q.op = s.op
        /\ q.ans = s.ans /\ q.size = s.size /\ q.got = s.got /\ q.path = s.path /\ q.dir = s.dir
        /\ q.own = s.own
    BY <2>2 DEF ThreadStates
  <2>5. q.pc = "open" /\ q.leaf /\ q.rel = rel /\ q.k = 0 /\ q.cur = 0
    BY <2>2 DEF ThreadStates
  <2> QED BY <2>1, <2>3, <2>4, <2>5
<1> QED BY <1>1, <1>2

LEMMA UpsertParentKeeps ==
  ASSUME AccessInv, NEW t \in Threads, UpsertParent(t)
  PROVE  AccessInv'
<1> DEFINE x == acc[Mine(t)]
           p == AtLeaf(th[t])
           s == [p EXCEPT !.own = {th[t].dir}]
<1>1. /\ th[t] \in ThreadStates /\ UseOK(th[t], x) /\ ReadOK(th[t]) /\ th[t].pc = "upsert"
      /\ th[t].pc \in Calling
  BY Facts DEF UpsertParent, Calling, PCs
<1>2. World'
  BY AccessorFacts DEF UpsertParent, Same, World
<1>3. th[t].cur = 0 /\ Len(th[t].path) > 1 /\ th[t].path \in Paths
  BY <1>1 DEF UseOK, ToParent, ThreadStates
<1>4. th[t].dir # 0 /\ th[t].dir \in DOMAIN table /\ th[t].dir \in Nat
  BY <1>1, <1>3, DirStays DEF Resolving, ThreadStates
<1>5. th[t].path # <<>>
  BY <1>3
<1>6. IF x.cached THEN Insert(t, s, Parent(s.path), s.dir) ELSE Go(t, s, acc, table, count)
  BY DEF UpsertParent, Goes
<1>7. /\ p \in ThreadStates /\ p.stack = th[t].stack /\ p.made = th[t].made /\ p.todo = th[t].todo
      /\ p.op = th[t].op /\ p.ans = th[t].ans /\ p.size = th[t].size /\ p.got = th[t].got
      /\ p.path = th[t].path /\ p.dir = th[t].dir
      /\ \/ p.pc = "leaf" /\ p.op # "readFile" /\ p.cur = 0
         \/ p.pc = "open" /\ p.leaf /\ Len(p.rel) = 1 /\ p.k = 0 /\ p.cur = 0
  BY <1>1, <1>3, <1>5, AtLeafOK
<1> HIDE DEF p, x
<1>8. /\ s \in ThreadStates /\ s.own = {th[t].dir} /\ s.stack = p.stack /\ s.made = p.made
      /\ s.todo = p.todo /\ s.op = p.op /\ s.ans = p.ans /\ s.size = p.size /\ s.got = p.got
      /\ s.path = p.path /\ s.dir = p.dir /\ s.pc = p.pc /\ s.cur = p.cur /\ (p.leaf => s.leaf)
      /\ s.rel = p.rel /\ s.k = p.k
  BY <1>4, <1>7 DEF ThreadStates
<1> HIDE DEF s
<1>9. Within(s, th[t])
  <2>1. th[t].got = 0 /\ th[t].size \in Nat
    BY <1>1 DEF ReadOK, ThreadStates
  <2> QED BY <1>7, <1>8, <2>1 DEF Within, Calling, PCs
<1>10. UseOK(s, x)
  <2>1. s.dir # 0 /\ s.dir \in s.own \cup {x.fd} /\ s.cur = 0
    BY <1>4, <1>7, <1>8
  <2>2. CASE s.pc = "leaf"
    BY <2>1, <2>2 DEF UseOK, Resolving, Opening, ToParent
  <2>3. CASE s.pc = "open" /\ s.leaf /\ s.k < Len(s.rel) /\ s.k = 0
    BY <2>1, <2>3 DEF UseOK, Resolving, Opening, ToParent
  <2>4. CASE p.pc = "open" /\ p.leaf /\ Len(p.rel) = 1 /\ p.k = 0
    <3>1. s.pc = "open" /\ s.leaf
      BY <1>8, <2>4
    <3>2. s.k < Len(s.rel) /\ s.k = 0
      BY <1>8, <2>4
    <3> QED BY <2>3, <3>1, <3>2
  <2>5. p.pc = "leaf" \/ (p.pc = "open" /\ p.leaf /\ Len(p.rel) = 1 /\ p.k = 0)
    BY <1>7
  <2> QED BY <1>8, <2>2, <2>4, <2>5
<1>11. s.own \subseteq DOMAIN table \cup {0}
  BY <1>4, <1>8
<1>12. CASE x.cached
  <2>1. Parent(s.path) \in Paths
    BY <1>3, <1>7, <1>8, ParentIsPath
  <2> QED BY <1>1, <1>2, <1>4, <1>6, <1>7, <1>8, <1>9, <1>10, <1>11, <1>12, <2>1, InsertKeeps DEF x
<1>13. CASE ~x.cached
  BY <1>1, <1>2, <1>6, <1>9, <1>10, <1>11, <1>13, StepKeeps, AccessorFacts DEF x
<1> QED BY <1>12, <1>13

LEMMA LeafKeeps ==
  ASSUME AccessInv, NEW t \in Threads, Leaf(t)
  PROVE  AccessInv'
<1> DEFINE s == th[t]
           i == Lookup(node, At(s.dir), Last(s.path))
<1>1. /\ s \in ThreadStates /\ UseOK(s, acc[Mine(t)]) /\ ReadOK(s) /\ StackOK(t, s, acc)
      /\ s.pc = "leaf" /\ s.pc \in Calling
  BY Facts DEF Leaf, Calling, PCs
<1>2. World' /\ node \in Trees
  BY AccessorFacts DEF Leaf, Same, World
<1>3. i \in Inside \cup {None}
  <2>1. At(s.dir) \in Inside \cup {None}
    BY <1>1, DirStays DEF UseOK, Resolving
  <2> QED BY <1>2, <2>1, LookupStays
<1>4. PICK err \in Outcomes, inode \in {i, None} : Goes(t, Answer(s, err, inode))
  BY DEF Leaf, Outcomes
<1> HIDE DEF i
<1>5. s.op # "readFile" /\ s.stack # <<>> /\ s.pc # "readlink" /\ inode \in Inside \cup {None}
  BY <1>1, <1>3, CallHasAccessor DEF ReadOK
<1>6. s.made + Len(s.todo) <= MaxMade
  <2>1. s.made \in Nat /\ Len(s.todo) \in Nat
    BY <1>1 DEF ThreadStates
  <2>2. s.made + Len(s.todo) + 1 <= MaxMade
    BY <1>1 DEF StackOK
  <2> QED BY <2>1, <2>2, SizesAssumption
<1> QED BY <1>1, <1>2, <1>4, <1>5, <1>6, AnswerKeeps

\* The smallest of three
LEMMA MinOfThree ==
  ASSUME NEW a \in Int, NEW b \in Int, NEW c \in Int
  PROVE  Min({a, b, c}) \in Int /\ Min({a, b, c}) <= a
<1>1. \E m \in {a, b, c} : \A k \in {a, b, c} : m <= k
  OBVIOUS
<1> QED BY <1>1 DEF Min

LEMMA ReadKeeps ==
  ASSUME AccessInv, NEW t \in Threads, Read(t)
  PROVE  AccessInv'
<1> DEFINE s == th[t]
           n == Min({s.size - s.got, Chunk, node[At(s.dir)].size - s.got})
           q == [s EXCEPT !.got = @ + n]
<1>1. /\ s \in ThreadStates /\ UseOK(s, acc[Mine(t)]) /\ ReadOK(s) /\ StackOK(t, s, acc)
      /\ s.pc = "read" /\ s.pc \in Calling /\ s.own \subseteq DOMAIN table \cup {0}
  BY Facts DEF Read, Calling, PCs
<1>2. World' /\ node \in Trees
  BY AccessorFacts DEF Read, Same, World
<1>3. At(s.dir) \in Inside
  BY <1>1, DirStays DEF UseOK, Resolving
<1>4. s.got \in Nat /\ s.size \in Nat /\ s.got <= s.size /\ s.stack # <<>> /\ s.pc # "readlink"
  BY <1>1, CallHasAccessor DEF ThreadStates, ReadOK
<1>5. n \in Int /\ n <= s.size - s.got
  <2> DEFINE b == node[At(s.dir)].size - s.got
             a == s.size - s.got
  <2>1. a \in Int /\ b \in Int /\ Chunk \in Int
    BY <1>2, <1>3, <1>4, SizesAssumption, TreesAssumption DEF Inside
  <2> HIDE DEF a, b
  <2>2. Min({a, Chunk, b}) \in Int /\ Min({a, Chunk, b}) <= a
    BY <2>1, MinOfThree
  <2> QED BY <2>2 DEF a, b
<1>6. \/ s.got = s.size /\ Goes(t, Answer(s, "ok", At(s.dir)))
      \/ n > 0 /\ Go(t, q, acc, table, count)
      \/ Goes(t, Answer(s, "EndOfFile", None))
  <2>1. (s.got = s.size \/ s.got < s.size) /\ (n > 0 \/ n <= 0)
    BY <1>4, <1>5
  <2> QED BY <2>1 DEF Read, Goes
<1> HIDE DEF n
<1>7. CASE s.got = s.size /\ Goes(t, Answer(s, "ok", At(s.dir)))
  <2>1. s.made + Len(s.todo) <= MaxMade
    <3>1. s.made \in Nat /\ Len(s.todo) \in Nat
      BY <1>1 DEF ThreadStates
    <3>2. s.made + Len(s.todo) + 1 <= MaxMade
      BY <1>1 DEF StackOK
    <3> QED BY <3>1, <3>2, SizesAssumption
  <2>2. At(s.dir) # None /\ At(s.dir) \in Inside \cup {None} /\ "ok" \in Outcomes
    BY <1>3, TreesAssumption DEF Inside, Outcomes
  <2> QED BY <1>1, <1>2, <1>4, <1>7, <2>1, <2>2, AnswerKeeps
<1>8. CASE n > 0 /\ Go(t, q, acc, table, count)
  <2>1. s.got + n \in Nat /\ s.got + n <= s.size
    BY <1>4, <1>5, <1>8
  <2>2. q \in ThreadStates /\ q.own = s.own
    BY <1>1, <2>1 DEF ThreadStates
  <2>3. Within(q, s)
    BY <1>1, <2>1, <2>2 DEF ThreadStates, Within, Calling, PCs
  <2>4. UseOK(q, acc[Mine(t)])
    BY <1>1 DEF ThreadStates, UseOK, Resolving, Opening, ToParent
  <2> HIDE DEF q
  <2> QED BY <1>1, <1>2, <1>8, <2>2, <2>3, <2>4, StepKeeps, AccessorFacts
<1>9. CASE Goes(t, Answer(s, "EndOfFile", None))
  BY <1>1, <1>2, <1>9, FailKeeps DEF Outcomes
<1> QED BY <1>6, <1>7, <1>8, <1>9

\* A thread goes on without a call.
LEMMA RestKeeps ==
  ASSUME AccessInv, NEW t \in Threads, NEW q \in ThreadStates, StackOK(t, q, acc),
         q.pc \in {"idle", "readlink", "register"}, q.cur = 0, q.k = 0, ReadOK(q),
         q.own \subseteq DOMAIN table \cup {0}, Goes(t, q), World'
  PROVE  AccessInv'
<1>1. Go(t, q, acc, table, count) /\ Extends(table)
  BY AccessorFacts DEF Goes
<1>2. ThreadOK(t, q, acc)
  BY RestIsOK DEF ThreadOK
<1> QED BY <1>1, <1>2, GoesKeeps

\* A thread that is not in a call
LEMMA RestFacts ==
  ASSUME AccessInv, NEW t \in Threads, th[t].pc \in {"idle", "readlink", "register"}
  PROVE  /\ th[t] \in ThreadStates /\ th[t].own \subseteq DOMAIN table \cup {0}
         /\ StackOK(t, th[t], acc) /\ ReadOK(th[t])
         /\ th[t].cur = 0 /\ th[t].k = 0 /\ th[t].got = 0 /\ th[t].op = None
         /\ th[t].made \in Nat /\ th[t].todo \in Seq(Requests) /\ Len(th[t].todo) \in Nat
         /\ th[t].made + Len(th[t].todo) <= MaxMade /\ th[t].size \in Nat
         /\ th[t].stack \in Seq(Accessors)
<1>1. /\ th[t] \in ThreadStates /\ th[t].own \subseteq DOMAIN table \cup {0}
      /\ StackOK(t, th[t], acc) /\ UseOK(th[t], acc[Mine(t)]) /\ ReadOK(th[t])
  BY Facts
<1>2. th[t].cur = 0 /\ th[t].k = 0
  BY <1>1 DEF UseOK, Resolving, Opening
<1>3. th[t].got = 0
  BY <1>1 DEF ReadOK
<1>4. /\ th[t].made \in Nat /\ th[t].todo \in Seq(Requests) /\ th[t].size \in Nat
      /\ th[t].stack \in Seq(Accessors)
  BY <1>1 DEF ThreadStates
<1>5. th[t].op = None /\ th[t].made + Len(th[t].todo) + 0 <= MaxMade
  BY <1>1 DEF StackOK
<1> QED BY <1>1, <1>2, <1>3, <1>4, <1>5

\* What a thread says when it has an accessor more: nothing yet.
LEMMA Silent ==
  ASSUME NEW q, q.ans = NoAnswer, q.got = 0, q.size \in Nat, q.pc \in {"idle", "readlink", "register"}
  PROVE  ReadOK(q)
<1>1. NoAnswer.op = None /\ NoAnswer.node = None /\ None \notin Outside /\ None # "readFile"
  BY TreesAssumption DEF NoAnswer, None
<1> QED BY <1>1 DEF ReadOK

\* A thread makes an accessor.
LEMMA PushKeeps ==
  ASSUME AccessInv, NEW t \in Threads, NEW m \in Nat, m >= 1,
         \/ th[t].pc = "readlink" /\ m = th[t].made
         \/ th[t].pc # "readlink" /\ m = th[t].made + 1,
         NEW a, a = <<t, m>>, NEW q \in ThreadStates, q.made = m, q.stack = Append(th[t].stack, a),
         m + Len(q.todo) <= MaxMade, q.pc \in {"idle", "register"}, q.op = None, q.cur = 0, q.k = 0,
         ReadOK(q),
         NEW tab, Extends(tab), q.own \subseteq DOMAIN tab \cup {0},
         NEW x \in AccessorStates, x.kind # None, x.cache = <<>>, AccessorOK(x, tab),
         x.fd \in DOMAIN tab \cup {0},
         Go(t, q, [acc EXCEPT ![a] = x], tab, count), World'
  PROVE  AccessInv'
<1> DEFINE accs == [acc EXCEPT ![a] = x]
           old == th[t].stack
<1>1. StackOK(t, th[t], acc) /\ th[t] \in ThreadStates /\ old \in Seq(Accessors) /\ th[t].made \in Nat
  BY Facts DEF ThreadStates
<1>2. q.todo \in Seq(Requests) /\ Len(q.todo) \in Nat /\ q.size \in Nat
  BY DEF ThreadStates
<1>3. m \in 1 .. MaxMade /\ a \in Accessors /\ a[1] = t
  BY <1>2, SizesAssumption DEF Accessors
<1>4. acc \in [Accessors -> AccessorStates] /\ count \in Int
  BY AccessorFacts
<1>5. acc[a].kind = None
  <2>1. acc[<<t, m>>].kind # None => m <= IF th[t].pc = "readlink" THEN th[t].made - 1 ELSE th[t].made
    BY <1>1, <1>3 DEF StackOK
  <2> QED BY <1>1, <2>1
<1>6. Len(acc[a].cache) = 0 /\ Len(x.cache) = 0 /\ Fds(x.cache) = {}
  <2>1. acc[a].cache = <<>>
    BY <1>3, <1>5, AccessorFacts DEF AccessorOK
  <2>2. Len(<<>>) = 0 /\ Fds(<<>>) = {}
    BY DEF Fds
  <2> QED BY <2>1, <2>2
<1>7. count = count + (Len(x.cache) - Len(acc[a].cache))
  BY <1>4, <1>6
<1>8. accs[a] = x /\ \A b \in Accessors \ {a} : accs[b] = acc[b]
  BY <1>3, <1>4
<1> HIDE DEF accs
<1>9. StackOK(t, q, accs)
  <2> DEFINE n == Len(old)
  <2>1. /\ n \in Nat /\ Len(q.stack) = n + 1 /\ q.stack[n + 1] = a
        /\ \A i \in 1 .. n : q.stack[i] = old[i] /\ old[i] \in Accessors
    BY <1>1
  <2>2. ASSUME NEW i \in 1 .. Len(q.stack) PROVE q.stack[i][1] = t /\ accs[q.stack[i]].kind # None
    <3>1. CASE i = n + 1
      BY <1>3, <1>8, <2>1, <3>1
    <3>2. CASE i \in 1 .. n
      <4>1. old[i][1] = t /\ acc[old[i]].kind # None /\ old[i] \in Accessors
        BY <1>1, <2>1, <3>2 DEF StackOK
      <4>2. accs[old[i]] = acc[old[i]]
        BY <1>5, <1>8, <4>1
      <4> QED BY <2>1, <3>2, <4>1, <4>2
    <3>3. i = n + 1 \/ i \in 1 .. n
      BY <2>1
    <3> QED BY <3>1, <3>2, <3>3
  <2>3. ASSUME NEW i \in 1 .. MaxMade, accs[<<t, i>>].kind # None PROVE i <= m
    <3>1. CASE i = m
      BY <3>1
    <3>2. CASE i # m
      <4>1. <<t, i>> \in Accessors /\ <<t, i>> # a
        BY <3>2 DEF Accessors
      <4>2. acc[<<t, i>>].kind # None
        BY <1>8, <2>3, <4>1
      <4>3. i <= IF th[t].pc = "readlink" THEN th[t].made - 1 ELSE th[t].made
        BY <1>1, <4>2 DEF StackOK
      <4> QED BY <1>1, <4>3
    <3> QED BY <3>1, <3>2
  <2>4. q.stack # <<>>
    <3>1. Len(q.stack) # 0 /\ Len(<<>>) = 0
      BY <2>1
    <3> QED BY <3>1
  <2>5. m + Len(q.todo) + 0 <= MaxMade
    BY <1>2
  <2> HIDE DEF n
  <2> QED BY <2>2, <2>3, <2>4, <2>5 DEF StackOK
<1>10. ThreadOK(t, q, accs)
  BY <1>9, RestIsOK DEF ThreadOK
<1>11. Fds(x.cache) \subseteq DOMAIN tab \cup {0}
  BY <1>6
<1> QED BY <1>3, <1>7, <1>10, <1>11, ChangeKeeps DEF accs

LEMMA ListKeeps ==
  ASSUME AccessInv, NEW t \in Threads, List(t)
  PROVE  AccessInv'
<1> DEFINE s == th[t]
           a == <<t, s.made + 1>>
           done == Answer(s, "ok", At(s.dir))
           q == [done EXCEPT !.made = @ + 1, !.stack = Append(@, a), !.ans = NoAnswer]
           x == DirAccessor(s.dir, FALSE, At(s.dir))
<1>1. /\ s \in ThreadStates /\ UseOK(s, acc[Mine(t)]) /\ ReadOK(s) /\ StackOK(t, s, acc)
      /\ s.pc = "list" /\ s.pc \in Calling /\ s.stack # <<>> /\ s.pc # "readlink"
  BY Facts, CallHasAccessor DEF List, Calling, PCs
<1>2. World' /\ edits \in Nat
  BY AccessorFacts DEF List, Same, World
<1>3. s.dir # 0 /\ s.dir \in DOMAIN table /\ At(s.dir) \in Inside /\ s.dir \in Nat
  BY <1>1, DirStays DEF UseOK, Resolving, ThreadStates
<1>4. /\ s.made \in Nat /\ s.todo \in Seq(Requests) /\ Len(s.todo) \in Nat /\ s.stack \in Seq(Accessors)
      /\ s.made + Len(s.todo) + 1 <= MaxMade /\ s.op # "readFile"
  BY <1>1 DEF StackOK, ThreadStates, ReadOK
<1>5. CASE Goes(t, done)
  <2>1. s.made + Len(s.todo) <= MaxMade
    BY <1>4, SizesAssumption
  <2> QED BY <1>1, <1>2, <1>3, <1>4, <1>5, <2>1, AnswerKeeps DEF Outcomes
<1>6. CASE Go(t, q, [acc EXCEPT ![a] = x], table, count)
  <2> DEFINE m == s.made + 1
  <2>1. m \in Nat /\ m >= 1 /\ m + Len(s.todo) <= MaxMade /\ m \in 1 .. MaxMade
    BY <1>4, SizesAssumption
  <2>2. a \in Accessors
    BY <2>1 DEF Accessors
  <2> DEFINE new == NewThread(s.todo)
             stack == Append(s.stack, a)
  <2>3. stack \in Seq(Accessors)
    BY <1>4, <2>2
  <2>4. /\ done.size = 0 /\ done.made = s.made /\ done.stack = s.stack /\ done.todo = s.todo /\ done.pc = "idle"
        /\ done.op = None /\ done.cur = 0 /\ done.k = 0 /\ done.got = 0 /\ done.own = {}
    BY DEF Answer, NewThread
  <2>5. done \in ThreadStates
    BY <1>1, <1>3, AnswerIsThread DEF Outcomes
  <2>6. NoAnswer \in Answers
    BY NoAnswerOK
  <2> HIDE DEF done, new
  <2>7. q = [done EXCEPT !.made = m, !.stack = stack, !.ans = NoAnswer]
    BY <2>4
  <2> HIDE DEF q, m, stack
  <2>8. q \in ThreadStates
    BY <2>1, <2>3, <2>5, <2>6, <2>7 DEF ThreadStates
  <2>9. /\ q.size = 0 /\ q.made = m /\ q.stack = stack /\ q.ans = NoAnswer /\ q.todo = s.todo /\ q.pc = "idle"
        /\ q.op = None /\ q.cur = 0 /\ q.k = 0 /\ q.got = 0 /\ q.own = {}
    BY <2>4, <2>5, <2>7 DEF ThreadStates
  <2>10. x \in AccessorStates /\ x.kind # None /\ x.cache = <<>> /\ AccessorOK(x, table) /\ x.fd = s.dir
    <3>1. At(s.dir) \in Inodes \cup {None} /\ s.dir \in Nat \ {0} /\ table[s.dir] = At(s.dir)
      BY <1>3 DEF At, Inside
    <3> QED BY <1>2, <1>3, <3>1, DirAccessorOK
  <2> HIDE DEF x
  <2>11. ReadOK(q)
    BY <2>9, Silent
  <2>12. Extends(table) /\ x.fd \in DOMAIN table \cup {0} /\ q.own \subseteq DOMAIN table \cup {0}
    BY <1>3, <2>9, <2>10, AccessorFacts
  <2> QED BY <1>1, <1>2, <1>6, <2>1, <2>8, <2>9, <2>10, <2>11, <2>12, PushKeeps DEF m, stack
<1> QED BY <1>5, <1>6 DEF List

LEMMA MakeKeeps ==
  ASSUME AccessInv, NEW t \in Threads, Make(t)
  PROVE  AccessInv'
<1> DEFINE s == th[t]
           r == Head(s.todo).name
           m == s.made + 1
           a == <<t, m>>
           o == OpenAt(node, Top, r, FALSE)
           tail == Tail(s.todo)
           made == [s EXCEPT !.made = m, !.todo = tail, !.ans = NoAnswer]
           fd == NewFd(table)
           tab == Open(table, o.node)
           dir == DirAccessor(fd, CacheSize > 0, None)
           file == [NoAccessor EXCEPT !.kind = "file", !.fd = fd, !.size = node[o.node].size, !.since = edits]
           stack == Append(s.stack, a)
           link == [made EXCEPT !.pc = "readlink", !.path = <<r>>]
           throw == [made EXCEPT !.todo = <<>>]
           reg == [made EXCEPT !.pc = "register", !.stack = stack]
           plain == [made EXCEPT !.stack = stack]
<1>1. s.pc = "idle" /\ s.todo # <<>>
  BY DEF Make
<1>2. /\ s \in ThreadStates /\ s.own \subseteq DOMAIN table \cup {0} /\ StackOK(t, s, acc)
      /\ s.cur = 0 /\ s.k = 0 /\ s.got = 0 /\ s.op = None /\ s.size \in Nat
      /\ s.made \in Nat /\ s.todo \in Seq(Requests) /\ s.made + Len(s.todo) <= MaxMade
      /\ s.stack \in Seq(Accessors) /\ Len(s.todo) \in Nat
  BY <1>1, RestFacts
<1>3. World' /\ node \in Trees /\ edits \in Nat
  BY AccessorFacts DEF Make, Same, World
<1>4. tail \in Seq(Requests) /\ Len(tail) = Len(s.todo) - 1 /\ Len(s.todo) > 0 /\ r \in STRING
  <2>1. Head(s.todo) \in Requests
    BY <1>1, <1>2
  <2> QED BY <1>1, <1>2, <2>1 DEF Requests
<1>5. m \in Nat /\ m >= 1 /\ m + Len(tail) <= MaxMade /\ m \in 1 .. MaxMade
  BY <1>2, <1>4, SizesAssumption
<1>6. a \in Accessors
  BY <1>5 DEF Accessors
<1>7. stack \in Seq(Accessors) /\ NoAnswer \in Answers
  BY <1>2, <1>6, NoAnswerOK
<1>8. o \in Results /\ (o.err = "none" => o.node \in Inside)
  <2>1. Top \in Inside \cup {None}
    BY TreesAssumption DEF Inside
  <2> QED BY <1>3, <2>1, OpenStays
<1>9. \/ Goes(t, link)
      \/ o.err = "none" /\ Go(t, reg, [acc EXCEPT ![a] = dir], tab, count)
      \/ o.err = "none" /\ Go(t, plain, [acc EXCEPT ![a] = file], tab, count)
      \/ Goes(t, throw)
  BY DEF Make
<1> HIDE DEF m, tail, stack, o, fd, tab, dir, file, r
<1>10. made \in ThreadStates
  BY <1>2, <1>4, <1>5, <1>7 DEF ThreadStates
<1>11. /\ made.made = m /\ made.todo = tail /\ made.ans = NoAnswer /\ made.pc = "idle" /\ made.op = None
       /\ made.cur = 0 /\ made.k = 0 /\ made.got = 0 /\ made.size \in Nat /\ made.own = s.own
       /\ made.stack = s.stack
  BY <1>1, <1>2 DEF ThreadStates
<1> HIDE DEF made
<1>12. CASE Goes(t, link)
  <2>1. <<r>> \in Paths
    BY <1>4 DEF Paths
  <2>2. link \in ThreadStates
    <3> DEFINE path == <<r>>
    <3> HIDE DEF path
    <3>1. [made EXCEPT !.pc = "readlink", !.path = path] \in ThreadStates
      BY <1>10, <2>1 DEF ThreadStates, PCs, path
    <3> QED BY <3>1 DEF path
  <2>3. /\ link.made = m /\ link.todo = tail /\ link.ans = NoAnswer /\ link.pc = "readlink"
        /\ link.op = None /\ link.cur = 0 /\ link.k = 0 /\ link.got = 0 /\ link.size \in Nat
        /\ link.own = s.own /\ link.stack = s.stack
    BY <1>10, <1>11 DEF ThreadStates
  <2> HIDE DEF link
  <2>4. StackOK(t, link, acc)
    <3>1. ASSUME NEW i \in 1 .. MaxMade, acc[<<t, i>>].kind # None PROVE i <= m - 1
      <4>1. i <= s.made
        BY <1>1, <1>2, <3>1 DEF StackOK
      <4> QED BY <1>2, <4>1 DEF m
    <3>2. m + Len(tail) + 0 <= MaxMade /\ m > 0
      BY <1>2, <1>4, <1>5
    <3> QED BY <1>2, <2>3, <3>1, <3>2 DEF StackOK
  <2> QED BY <1>2, <1>3, <1>12, <2>2, <2>3, <2>4, RestKeeps, Silent
<1>13. CASE Goes(t, throw)
  <2>1. <<>> \in Seq(Requests) /\ Len(<<>>) = 0
    OBVIOUS
  <2>2. ASSUME NEW e \in Seq(Requests), Len(e) = 0, e = <<>>, NEW q, q = [made EXCEPT !.todo = e]
        PROVE  /\ q \in ThreadStates /\ q.own = s.own /\ StackOK(t, q, acc)
               /\ q.pc = "idle" /\ q.cur = 0 /\ q.k = 0 /\ q.got = 0 /\ q.size \in Nat /\ q.ans = NoAnswer
    <3>1. q \in ThreadStates
      BY <1>10, <2>2 DEF ThreadStates
    <3>2. /\ q.made = m /\ q.todo = e /\ q.pc = "idle" /\ q.op = None /\ q.stack = s.stack
          /\ q.own = s.own /\ q.cur = 0 /\ q.k = 0 /\ q.got = 0 /\ q.size \in Nat /\ q.ans = NoAnswer
      BY <1>10, <1>11, <2>2 DEF ThreadStates
    <3>3. ASSUME NEW i \in 1 .. MaxMade, acc[<<t, i>>].kind # None PROVE i <= m
      <4>1. i <= s.made
        BY <1>1, <1>2, <3>3 DEF StackOK
      <4> QED BY <1>2, <4>1 DEF m
    <3>4. m + Len(e) + 0 <= MaxMade
      BY <1>5, <2>2
    <3>5. StackOK(t, q, acc)
      BY <1>2, <2>2, <3>2, <3>3, <3>4 DEF StackOK
    <3> QED BY <3>1, <3>2, <3>5
  <2>3. /\ throw \in ThreadStates /\ throw.own = s.own /\ StackOK(t, throw, acc)
        /\ throw.pc = "idle" /\ throw.cur = 0 /\ throw.k = 0 /\ throw.got = 0 /\ throw.size \in Nat
        /\ throw.ans = NoAnswer
    BY <2>1, <2>2
  <2> HIDE DEF throw
  <2> QED BY <1>2, <1>3, <1>13, <2>3, RestKeeps, Silent
<1>14. ASSUME o.err = "none" PROVE /\ Extends(tab) /\ fd \in Nat \ {0} /\ DOMAIN tab = DOMAIN table \cup {fd}
                                   /\ node[o.node].size \in Nat
  BY <1>3, <1>8, <1>14, OpenExtends, TreesAssumption DEF tab, fd, Inside
<1>15. CASE o.err = "none" /\ Go(t, reg, [acc EXCEPT ![a] = dir], tab, count)
  <2>1. reg \in ThreadStates
    BY <1>7, <1>10 DEF ThreadStates, PCs
  <2>2. /\ reg.made = m /\ reg.todo = tail /\ reg.ans = NoAnswer /\ reg.pc = "register"
        /\ reg.op = None /\ reg.cur = 0 /\ reg.k = 0 /\ reg.got = 0 /\ reg.size \in Nat /\ reg.own = s.own /\ reg.stack = stack
    BY <1>10, <1>11 DEF ThreadStates
  <2> HIDE DEF reg
  <2>3. dir \in AccessorStates /\ dir.kind # None /\ dir.cache = <<>> /\ AccessorOK(dir, tab) /\ dir.fd = fd
    <3> DEFINE c == CacheSize > 0
    <3>1. c \in BOOLEAN /\ (c => CacheSize > 0) /\ None \in Inodes \cup {None}
      OBVIOUS
    <3>2. dir = DirAccessor(fd, c, None)
      BY DEF dir
    <3> HIDE DEF c
    <3> QED BY <1>3, <1>14, <1>15, <3>1, <3>2, DirAccessorOK
  <2>4. fd \in DOMAIN tab \cup {0} /\ s.own \subseteq DOMAIN tab \cup {0}
    BY <1>2, <1>14, <1>15
  <2> QED BY <1>1, <1>3, <1>5, <1>14, <1>15, <2>1, <2>2, <2>3, <2>4, PushKeeps, Silent DEF m, stack
<1>16. CASE o.err = "none" /\ Go(t, plain, [acc EXCEPT ![a] = file], tab, count)
  <2>1. plain \in ThreadStates
    BY <1>7, <1>10 DEF ThreadStates
  <2>2. /\ plain.made = m /\ plain.todo = tail /\ plain.ans = NoAnswer /\ plain.pc = "idle"
        /\ plain.op = None /\ plain.cur = 0 /\ plain.k = 0 /\ plain.got = 0 /\ plain.size \in Nat /\ plain.own = s.own
        /\ plain.stack = stack
    BY <1>10, <1>11 DEF ThreadStates
  <2> HIDE DEF plain
  <2>3. file \in AccessorStates /\ file.kind # None /\ file.cache = <<>> /\ AccessorOK(file, tab) /\ file.fd = fd
    <3>1. /\ NoAccessor \in AccessorStates /\ NoAccessor.cache = <<>> /\ Len(<<>>) = 0
          /\ NoAccessor.listed = None /\ ~NoAccessor.cached
      BY NoAccessorOK DEF NoAccessor
    <3>2. file \in AccessorStates
      BY <1>3, <1>14, <1>16, <3>1 DEF AccessorStates, file
    <3>3. file.kind = "file" /\ file.fd = fd /\ ~file.cached /\ file.listed = None /\ file.cache = <<>>
      BY <3>1 DEF AccessorStates, file
    <3> QED BY <1>14, <1>16, <3>1, <3>2, <3>3, SizesAssumption DEF AccessorOK, None
  <2>4. fd \in DOMAIN tab \cup {0} /\ s.own \subseteq DOMAIN tab \cup {0}
    BY <1>2, <1>14, <1>16
  <2> QED BY <1>1, <1>3, <1>5, <1>14, <1>16, <2>1, <2>2, <2>3, <2>4, PushKeeps, Silent DEF m, stack
<1> QED BY <1>9, <1>12, <1>13, <1>15, <1>16

LEMMA MakeLinkKeeps ==
  ASSUME AccessInv, NEW t \in Threads, MakeLink(t)
  PROVE  AccessInv'
<1> DEFINE s == th[t]
           m == s.made
           a == <<t, m>>
           back == [s EXCEPT !.pc = "idle", !.path = <<>>]
           stack == Append(s.stack, a)
           x == [NoAccessor EXCEPT !.kind = "link", !.since = edits]
<1>1. s.pc = "readlink"
  BY DEF MakeLink
<1>2. /\ s \in ThreadStates /\ s.own \subseteq DOMAIN table \cup {0} /\ StackOK(t, s, acc) /\ ReadOK(s)
      /\ s.cur = 0 /\ s.k = 0 /\ s.got = 0 /\ s.op = None /\ s.size \in Nat
      /\ s.made \in Nat /\ s.todo \in Seq(Requests) /\ s.made + Len(s.todo) <= MaxMade
      /\ s.stack \in Seq(Accessors) /\ Len(s.todo) \in Nat
  BY <1>1, RestFacts
<1>3. World' /\ edits \in Nat
  BY AccessorFacts DEF MakeLink, Same, World
<1>4. m >= 1 /\ m \in 1 .. MaxMade
  BY <1>1, <1>2, SizesAssumption DEF StackOK
<1>5. stack \in Seq(Accessors)
  <2>1. a \in Accessors
    BY <1>4 DEF Accessors
  <2> QED BY <1>2, <2>1
<1>6. \/ Go(t, [back EXCEPT !.stack = stack], [acc EXCEPT ![a] = x], table, count)
      \/ Goes(t, [back EXCEPT !.todo = <<>>])
  BY <1>2 DEF MakeLink, ThreadStates
<1>7. back \in ThreadStates
  <2>1. <<>> \in Paths
    BY DEF Paths
  <2>2. ASSUME NEW e \in Paths PROVE [s EXCEPT !.pc = "idle", !.path = e] \in ThreadStates
    BY <1>2 DEF ThreadStates, PCs
  <2> QED BY <2>1, <2>2
<1>8. /\ back.pc = "idle" /\ back.made = m /\ back.stack = s.stack /\ back.todo = s.todo
      /\ back.op = None /\ back.cur = 0 /\ back.k = 0 /\ back.got = 0 /\ back.size = s.size
      /\ back.own = s.own /\ back.ans = s.ans
  BY <1>2 DEF ThreadStates
<1> HIDE DEF back, stack
<1>9. CASE Go(t, [back EXCEPT !.stack = stack], [acc EXCEPT ![a] = x], table, count)
  <2> DEFINE q == [back EXCEPT !.stack = stack]
  <2>1. q \in ThreadStates
    BY <1>5, <1>7 DEF ThreadStates
  <2>2. /\ q.pc = "idle" /\ q.made = m /\ q.stack = stack /\ q.todo = s.todo
        /\ q.op = None /\ q.cur = 0 /\ q.k = 0 /\ q.got = 0 /\ q.own = s.own /\ q.ans = s.ans
    BY <1>7, <1>8 DEF ThreadStates
  <2>3. x \in AccessorStates /\ x.kind # None /\ x.cache = <<>> /\ AccessorOK(x, table) /\ x.fd = 0
    <3>1. /\ NoAccessor \in AccessorStates /\ NoAccessor.cache = <<>> /\ Len(<<>>) = 0
          /\ NoAccessor.listed = None /\ ~NoAccessor.cached /\ NoAccessor.fd = 0
      BY NoAccessorOK DEF NoAccessor
    <3>2. x \in AccessorStates
      BY <1>3, <3>1 DEF AccessorStates
    <3>3. x.kind = "link" /\ x.fd = 0 /\ ~x.cached /\ x.listed = None /\ x.cache = <<>>
      BY <3>1 DEF AccessorStates
    <3> QED BY <3>1, <3>2, <3>3, SizesAssumption DEF AccessorOK, None
  <2>4. ReadOK(q)
    <3> HIDE DEF q
    <3>1. q.size = s.size
      BY <1>7, <1>8 DEF ThreadStates, q
    <3> QED BY <1>2, <2>2, <3>1 DEF ReadOK
  <2> HIDE DEF q, x
  <2> QED BY <1>1, <1>2, <1>3, <1>4, <1>9, <2>1, <2>2, <2>3, <2>4, PushKeeps, AccessorFacts DEF stack, q
<1>10. CASE Goes(t, [back EXCEPT !.todo = <<>>])
  <2>1. <<>> \in Seq(Requests) /\ Len(<<>>) = 0
    OBVIOUS
  <2>2. ASSUME NEW e \in Seq(Requests), Len(e) = 0, e = <<>>, NEW q, q = [back EXCEPT !.todo = e]
        PROVE  /\ q \in ThreadStates /\ q.own = s.own /\ StackOK(t, q, acc) /\ ReadOK(q)
               /\ q.pc = "idle" /\ q.cur = 0 /\ q.k = 0
    <3>1. q \in ThreadStates
      BY <1>7, <2>2 DEF ThreadStates
    <3>2. /\ q.made = m /\ q.todo = e /\ q.pc = "idle" /\ q.op = None /\ q.stack = s.stack
          /\ q.own = s.own /\ q.cur = 0 /\ q.k = 0 /\ q.got = 0 /\ q.size = s.size /\ q.ans = s.ans
      BY <1>7, <1>8, <2>2 DEF ThreadStates
    <3>3. ASSUME NEW i \in 1 .. MaxMade, acc[<<t, i>>].kind # None PROVE i <= m
      <4>1. i <= s.made - 1
        BY <1>1, <1>2, <3>3 DEF StackOK
      <4> QED BY <1>2, <4>1
    <3>4. m + Len(e) + 0 <= MaxMade
      BY <1>4, <2>2, SizesAssumption
    <3>5. StackOK(t, q, acc)
      BY <1>2, <2>2, <3>2, <3>3, <3>4 DEF StackOK
    <3>6. ReadOK(q)
      BY <1>2, <3>2 DEF ReadOK
    <3> QED BY <3>1, <3>2, <3>5, <3>6
  <2> DEFINE q == [back EXCEPT !.todo = <<>>]
  <2>3. /\ q \in ThreadStates /\ q.own = s.own /\ StackOK(t, q, acc) /\ ReadOK(q)
        /\ q.pc = "idle" /\ q.cur = 0 /\ q.k = 0
    BY <2>1, <2>2
  <2> HIDE DEF q
  <2> QED BY <1>2, <1>3, <1>10, <2>3, RestKeeps DEF q
<1> QED BY <1>6, <1>9, <1>10

LEMMA RegisterKeeps ==
  ASSUME AccessInv, NEW t \in Threads, Register(t)
  PROVE  AccessInv'
<1> DEFINE s == th[t]
           q == [s EXCEPT !.pc = "idle"]
<1>1. s.pc = "register" /\ Goes(t, q)
  BY DEF Register
<1>2. /\ s \in ThreadStates /\ s.own \subseteq DOMAIN table \cup {0} /\ StackOK(t, s, acc) /\ ReadOK(s)
      /\ s.cur = 0 /\ s.k = 0 /\ s.got = 0
  BY <1>1, RestFacts
<1>3. World'
  BY AccessorFacts DEF Register, World
<1>4. q \in ThreadStates
  BY <1>2 DEF ThreadStates, PCs
<1>5. /\ q.pc = "idle" /\ q.made = s.made /\ q.stack = s.stack /\ q.todo = s.todo /\ q.op = s.op
      /\ q.cur = 0 /\ q.k = 0 /\ q.got = 0 /\ q.size = s.size /\ q.own = s.own /\ q.ans = s.ans
  BY <1>2 DEF ThreadStates
<1> HIDE DEF q
<1>6. StackOK(t, q, acc)
  BY <1>1, <1>2, <1>5 DEF StackOK
<1>7. ReadOK(q)
  BY <1>1, <1>2, <1>5 DEF ReadOK
<1> QED BY <1>1, <1>2, <1>3, <1>4, <1>5, <1>6, <1>7, RestKeeps

LEMMA DropKeeps ==
  ASSUME AccessInv, NEW t \in Threads, Drop(t)
  PROVE  AccessInv'
<1> DEFINE s == th[t]
           front == Front(s.stack)
           n == Len(s.stack)
           q == [s EXCEPT !.stack = front, !.ans = NoAnswer]
<1>1. s.pc = "idle" /\ s.todo = <<>> /\ s.stack # <<>>
  BY DEF Drop
<1>2. /\ s \in ThreadStates /\ s.own \subseteq DOMAIN table \cup {0} /\ StackOK(t, s, acc) /\ ReadOK(s)
      /\ s.cur = 0 /\ s.k = 0 /\ s.got = 0 /\ s.stack \in Seq(Accessors) /\ s.size \in Nat
  BY <1>1, RestFacts
<1>3. World'
  BY AccessorFacts DEF Drop, Same, World
<1>4. Goes(t, q)
  BY DEF Drop
<1>5. /\ front \in Seq(Accessors)
      /\ \A i \in 1 .. Len(front) : i \in 1 .. n /\ front[i] = s.stack[i]
  <2>1. n \in Nat /\ n >= 1
    BY <1>1, <1>2
  <2> DEFINE k == n - 1
  <2>2. 1 \in Int /\ k \in Int /\ \A i \in 1 .. k : s.stack[i] \in Accessors
    BY <1>2, <2>1
  <2>3. front = SubSeq(s.stack, 1, k)
    BY DEF Front
  <2> HIDE DEF front, k
  <2>4. /\ front \in Seq(Accessors) /\ Len(front) = IF 1 <= k THEN k - 1 + 1 ELSE 0
        /\ \A i \in 1 .. k - 1 + 1 : front[i] = s.stack[1 + i - 1]
    BY <2>2, <2>3, SubSeqProperties
  <2> HIDE DEF n
  <2>5. ASSUME NEW i \in 1 .. Len(front) PROVE i \in 1 .. n /\ front[i] = s.stack[i]
    <3>1. k = n - 1
      BY DEF k
    <3>2. i \in 1 .. k - 1 + 1 /\ 1 + i - 1 = i /\ i \in 1 .. n
      BY <2>1, <2>4, <3>1
    <3> QED BY <2>4, <3>2
  <2> QED BY <2>4, <2>5
<1> HIDE DEF front
<1>6. q \in ThreadStates
  BY <1>2, <1>5, NoAnswerOK DEF ThreadStates
<1>7. /\ q.pc = "idle" /\ q.made = s.made /\ q.stack = front /\ q.todo = s.todo /\ q.op = s.op
      /\ q.cur = 0 /\ q.k = 0 /\ q.got = 0 /\ q.size = s.size /\ q.own = s.own /\ q.ans = NoAnswer
  BY <1>1, <1>2 DEF ThreadStates
<1> HIDE DEF q
<1>8. StackOK(t, q, acc)
  BY <1>1, <1>2, <1>5, <1>7 DEF StackOK
<1> QED BY <1>1, <1>2, <1>3, <1>4, <1>6, <1>7, <1>8, RestKeeps, Silent

\* A call begins.
LEMMA BeginKeeps ==
  ASSUME AccessInv, NEW t \in Threads, th[t].pc = "idle", th[t].stack # <<>>,
         NEW q \in ThreadStates, q.stack = th[t].stack, q.made = th[t].made,
         q.made + Len(q.todo) + 1 <= MaxMade, q.op \in Ops, q.pc \in Calling,
         UseOK(q, acc[Mine(t)]), ReadOK(q),
         NEW tab, Extends(tab), q.own \subseteq DOMAIN tab \cup {0}, Go(t, q, acc, tab, count), World'
  PROVE  AccessInv'
<1>1. StackOK(t, q, acc)
  <2>1. StackOK(t, th[t], acc)
    BY Facts
  <2>2. q.op # None
    BY DEF Ops, None
  <2> QED BY <2>1, <2>2 DEF StackOK, Calling, PCs
<1>2. ThreadOK(t, q, acc)
  BY <1>1 DEF ThreadOK, Mine
<1> QED BY <1>2, GoesKeeps

LEMMA AtOnceOK ==
  ASSUME NEW kind \in {"dir", "file", "link"}, NEW op \in Ops, NEW path,
         NEW now, now = AtOnce(kind, op, path)
  PROVE  /\ now \in Outcomes \cup {"go"} /\ (op = "readFile" => now # "ok")
         /\ now = "go" => kind = "dir" \/ (kind = "file" /\ path = <<>>)
<1>1. CASE path # <<>>
  BY <1>1 DEF AtOnce, Ops, Outcomes
<1>2. CASE path = <<>> /\ op = "lstat"
  BY <1>2 DEF AtOnce, Ops, Outcomes
<1>3. CASE path = <<>> /\ op = "readFile"
  BY <1>3 DEF AtOnce, Ops, Outcomes
<1>4. CASE path = <<>> /\ op = "readLink"
  BY <1>4 DEF AtOnce, Ops, Outcomes
<1>5. CASE path = <<>> /\ op \in {"readDirectory", "descend"}
  BY <1>5 DEF AtOnce, Ops, Outcomes
<1> QED BY <1>1, <1>2, <1>3, <1>4, <1>5 DEF Ops

LEMMA CallKeeps ==
  ASSUME AccessInv, NEW t \in Threads, Call(t)
  PROVE  AccessInv'
<1> DEFINE a == acc[Mine(t)]
           op == Head(th[t].todo).op
           path == Head(th[t].todo).path
           tail == Tail(th[t].todo)
           s == [th[t] EXCEPT !.todo = tail, !.op = op, !.path = path, !.ans = NoAnswer]
           now == AtOnce(a.kind, op, path)
           fd == NewFd(table)
           tab == Open(table, At(a.fd))
           file == [s EXCEPT !.pc = "read", !.dir = a.fd, !.size = a.size]
           list == [s EXCEPT !.pc = "list", !.dir = fd, !.own = {fd}]
           leaf == AtLeaf([s EXCEPT !.dir = a.fd])
           evict == [s EXCEPT !.pc = "evict"]
<1>1. th[t].pc = "idle" /\ th[t].todo # <<>> /\ op # "make"
  BY DEF Call
<1>2. /\ th[t] \in ThreadStates /\ th[t].own \subseteq DOMAIN table \cup {0} /\ StackOK(t, th[t], acc)
      /\ th[t].cur = 0 /\ th[t].k = 0 /\ th[t].got = 0 /\ th[t].size \in Nat
      /\ th[t].made \in Nat /\ th[t].todo \in Seq(Requests) /\ Len(th[t].todo) \in Nat
      /\ th[t].made + Len(th[t].todo) <= MaxMade
  BY <1>1, RestFacts
<1>3. World'
  BY AccessorFacts DEF Call, Same, World
<1>4. op \in Ops /\ path \in Paths /\ tail \in Seq(Requests) /\ Len(tail) = Len(th[t].todo) - 1
  <2>1. Head(th[t].todo) \in Requests
    BY <1>1, <1>2
  <2> QED BY <1>1, <1>2, <2>1 DEF Requests
<1>5. th[t].stack # <<>>
  <2>1. th[t].todo[1].op # "make"
    BY <1>1, <1>2
  <2> QED BY <1>1, <1>2, <2>1 DEF StackOK
<1>6. /\ a \in AccessorStates /\ a.kind \in {"dir", "file", "link"} /\ AccessorOK(a, table)
      /\ a.fd \in DOMAIN table \cup {0} /\ a.fd \in Nat /\ a.size \in Nat
  <2>1. Mine(t) \in Accessors /\ a.kind # None
    BY <1>5, MineIsMine
  <2> QED BY <2>1, AccessorFacts DEF AccessorStates
<1>7. /\ now \in Outcomes \cup {"go"} /\ (op = "readFile" => now # "ok")
      /\ now = "go" => a.kind = "dir" \/ (a.kind = "file" /\ path = <<>>)
  BY <1>4, <1>6, AtOnceOK
<1>8. \/ now # "go" /\ Goes(t, Answer(s, now, IF now = "ok" THEN At(a.fd) ELSE None))
      \/ a.kind = "file" /\ Go(t, file, acc, table, count)
      \/ a.kind = "dir" /\ op # "readFile" /\ Go(t, list, acc, tab, count)
      \/ a.kind = "dir" /\ Len(path) = 1 /\ Go(t, leaf, acc, table, count)
      \/ a.kind = "dir" /\ Len(path) > 1 /\ Go(t, evict, acc, table, count)
  <2> DEFINE G1 == Goes(t, Answer(s, now, IF now = "ok" THEN At(a.fd) ELSE None))
             G2 == Go(t, file, acc, table, count)
             G3 == Go(t, list, acc, tab, count)
             G4 == Go(t, leaf, acc, table, count)
             G5 == Go(t, evict, acc, table, count)
  <2>1. (CASE now # "go" -> G1
           [] now = "go" /\ a.kind = "file" -> G2
           [] now = "go" /\ a.kind = "dir" /\ path = <<>> -> G3
           [] now = "go" /\ Len(path) = 1 -> G4
           [] now = "go" /\ Len(path) > 1 -> G5)
    BY DEF Call, Goes
  <2>2. now = "go" /\ a.kind = "dir" /\ path = <<>> => op # "readFile"
    BY DEF AtOnce
  <2>3. G1 \in BOOLEAN /\ G2 \in BOOLEAN /\ G3 \in BOOLEAN /\ G4 \in BOOLEAN /\ G5 \in BOOLEAN
    BY DEF Go, Goes
  <2> HIDE DEF G1, G2, G3, G4, G5, now, path, op, a
  <2>4. path = <<>> => Len(path) = 0
    OBVIOUS
  <2>5. path = <<>> \/ Len(path) = 1 \/ Len(path) > 1
    <3>1. path \in Seq(STRING)
      BY <1>4 DEF Paths
    <3>2. Len(path) \in Nat /\ (Len(path) = 0 => path = <<>>)
      BY ONLY <3>1, EmptySeq
    <3> DEFINE n == Len(path)
    <3> HIDE DEF n
    <3>3. n \in Nat => n = 0 \/ n = 1 \/ n > 1
      OBVIOUS
    <3> QED BY <3>2, <3>3 DEF n
  <2>6. CASE now # "go"
    BY <2>1, <2>6 DEF G1
  <2>7. CASE now = "go" /\ a.kind = "file" /\ path = <<>>
    BY <2>1, <2>4, <2>7 DEF G2
  <2>8. CASE now = "go" /\ a.kind = "dir" /\ path = <<>>
    BY <2>1, <2>2, <2>4, <2>8 DEF G3
  <2>9. CASE now = "go" /\ a.kind = "dir" /\ Len(path) = 1
    BY <2>1, <2>4, <2>9 DEF G4
  <2>10. CASE now = "go" /\ a.kind = "dir" /\ Len(path) > 1
    BY <2>1, <2>4, <2>10 DEF G5
  <2> QED BY <1>7, <2>5, <2>6, <2>7, <2>8, <2>9, <2>10
<1>9. a.kind \in {"dir", "file"} => a.fd # 0 /\ At(a.fd) \in Inside
  BY <1>6, AtStays DEF AccessorOK
<1>10. At(a.fd) \in Inside \cup {None}
  BY <1>6, AtStays
<1>11. th[t].made + Len(tail) + 1 <= MaxMade /\ th[t].made + Len(tail) <= MaxMade
  BY <1>2, <1>4, SizesAssumption
<1> HIDE DEF op, path, tail, now, a
<1>12. s \in ThreadStates
  BY <1>2, <1>4, NoAnswerOK DEF ThreadStates
<1>13. /\ s.stack = th[t].stack /\ s.made = th[t].made /\ s.todo = tail /\ s.op = op /\ s.path = path
       /\ s.ans = NoAnswer /\ s.pc = "idle" /\ s.cur = 0 /\ s.k = 0 /\ s.got = 0 /\ s.size \in Nat
       /\ s.own = th[t].own
  BY <1>1, <1>2 DEF ThreadStates
<1> HIDE DEF s, fd, tab
<1>14. NoAnswer.op # "readFile" /\ NoAnswer.node \notin Outside
  BY TreesAssumption DEF NoAnswer, None
<1>15. CASE now # "go" /\ Goes(t, Answer(s, now, IF now = "ok" THEN At(a.fd) ELSE None))
  <2> DEFINE inode == IF now = "ok" THEN At(a.fd) ELSE None
  <2>1. inode \in Inside \cup {None} /\ now \in Outcomes
    BY <1>7, <1>10, <1>15
  <2>2. s.op = "readFile" => (now = "ok" <=> inode # None /\ s.got = s.size)
    BY <1>7, <1>13
  <2>3. Goes(t, Answer(s, now, inode))
    BY <1>15
  <2> HIDE DEF inode
  <2> QED BY <1>1, <1>3, <1>5, <1>11, <1>12, <1>13, <2>1, <2>2, <2>3, AnswerKeeps
<1>16. CASE a.kind = "file" /\ Go(t, file, acc, table, count)
  <2>1. file \in ThreadStates
    BY <1>6, <1>12 DEF ThreadStates, PCs
  <2>2. /\ file.stack = s.stack /\ file.made = s.made /\ file.todo = tail /\ file.op = op
        /\ file.ans = NoAnswer /\ file.pc = "read" /\ file.cur = 0 /\ file.got = 0 /\ file.dir = a.fd
        /\ file.size = a.size /\ file.own = s.own
    BY <1>12, <1>13 DEF ThreadStates
  <2> HIDE DEF file
  <2>3. UseOK(file, a)
    BY <1>9, <1>16, <2>2 DEF UseOK, Resolving, Opening, ToParent
  <2>4. ReadOK(file)
    BY <1>6, <1>14, <2>2 DEF ReadOK
  <2>5. file.pc \in Calling /\ Extends(table)
    BY <2>2, AccessorFacts DEF Calling, PCs
  <2> QED BY <1>1, <1>2, <1>3, <1>4, <1>5, <1>11, <1>13, <1>16, <2>1, <2>2, <2>3, <2>4, <2>5, BeginKeeps DEF a
<1>17. CASE a.kind = "dir" /\ op # "readFile" /\ Go(t, list, acc, tab, count)
  <2>1. Extends(tab) /\ fd \in Nat \ {0} /\ DOMAIN tab = DOMAIN table \cup {fd}
    BY <1>9, <1>17, OpenExtends DEF tab, fd
  <2>2. list \in ThreadStates
    <3>1. {fd} \in SUBSET Nat
      BY <2>1
    <3> QED BY <1>12, <2>1, <3>1 DEF ThreadStates, PCs
  <2>3. /\ list.stack = s.stack /\ list.made = s.made /\ list.todo = tail /\ list.op = op
        /\ list.ans = NoAnswer /\ list.pc = "list" /\ list.cur = 0 /\ list.got = 0 /\ list.dir = fd
        /\ list.size \in Nat /\ list.own = {fd}
    BY <1>12, <1>13 DEF ThreadStates
  <2> HIDE DEF list
  <2>4. UseOK(list, a)
    BY <2>1, <2>3 DEF UseOK, Resolving, Opening, ToParent
  <2>5. ReadOK(list)
    BY <1>14, <1>17, <2>3 DEF ReadOK
  <2>6. list.pc \in Calling /\ list.own \subseteq DOMAIN tab \cup {0}
    BY <2>1, <2>3 DEF Calling, PCs
  <2> QED BY <1>1, <1>3, <1>4, <1>5, <1>11, <1>13, <1>17, <2>1, <2>2, <2>3, <2>4, <2>5, <2>6, BeginKeeps DEF a
<1>18. CASE a.kind = "dir" /\ Len(path) = 1 /\ Go(t, leaf, acc, table, count)
  <2> DEFINE p == [s EXCEPT !.dir = a.fd]
  <2>1. p \in ThreadStates
    BY <1>6, <1>12 DEF ThreadStates
  <2>2. /\ p.stack = s.stack /\ p.made = s.made /\ p.todo = tail /\ p.op = op /\ p.path = path
        /\ p.ans = NoAnswer /\ p.cur = 0 /\ p.got = 0 /\ p.dir = a.fd /\ p.size \in Nat /\ p.own = s.own
    BY <1>12, <1>13 DEF ThreadStates
  <2>3. p.path # <<>>
    <3>1. Len(<<>>) = 0 /\ Len(p.path) = 1
      BY <1>18, <2>2
    <3> QED BY <3>1
  <2> HIDE DEF p
  <2>4. /\ leaf \in ThreadStates /\ leaf.stack = p.stack /\ leaf.made = p.made /\ leaf.todo = p.todo
        /\ leaf.op = p.op /\ leaf.ans = p.ans /\ leaf.size = p.size /\ leaf.got = p.got
        /\ leaf.dir = p.dir /\ leaf.own = p.own
        /\ \/ leaf.pc = "leaf" /\ leaf.op # "readFile" /\ leaf.cur = p.cur
           \/ leaf.pc = "open" /\ leaf.leaf /\ Len(leaf.rel) = 1 /\ leaf.k = 0 /\ leaf.cur = 0
    BY <2>1, <2>3, AtLeafOK DEF p
  <2> HIDE DEF leaf
  <2>5. leaf.dir # 0 /\ leaf.dir \in leaf.own \cup {a.fd} /\ leaf.cur = 0
    BY <1>9, <1>18, <2>2, <2>4
  <2>6. UseOK(leaf, a)
    <3>1. CASE leaf.pc = "leaf"
      BY <2>5, <3>1 DEF UseOK, Resolving, Opening, ToParent
    <3>2. CASE leaf.pc = "open" /\ leaf.leaf /\ Len(leaf.rel) = 1 /\ leaf.k = 0
      BY <2>5, <3>2 DEF UseOK, Resolving, Opening, ToParent
    <3> QED BY <2>4, <3>1, <3>2
  <2>7. ReadOK(leaf)
    BY <1>14, <2>2, <2>4 DEF ReadOK
  <2>8. leaf.pc \in Calling /\ Extends(table)
    BY <2>4, AccessorFacts DEF Calling, PCs
  <2> QED BY <1>1, <1>2, <1>3, <1>4, <1>5, <1>11, <1>13, <1>18, <2>2, <2>4, <2>6, <2>7, <2>8, BeginKeeps DEF a
<1>19. CASE a.kind = "dir" /\ Len(path) > 1 /\ Go(t, evict, acc, table, count)
  <2>1. evict \in ThreadStates
    BY <1>12 DEF ThreadStates, PCs
  <2>2. /\ evict.stack = s.stack /\ evict.made = s.made /\ evict.todo = tail /\ evict.op = op
        /\ evict.ans = NoAnswer /\ evict.pc = "evict" /\ evict.cur = 0 /\ evict.got = 0 /\ evict.k = 0
        /\ evict.size \in Nat /\ evict.own = s.own /\ evict.path = path
    BY <1>12, <1>13 DEF ThreadStates
  <2> HIDE DEF evict
  <2>3. UseOK(evict, a)
    BY <1>9, <1>19, <2>2 DEF UseOK, Resolving, Opening, ToParent
  <2>4. ReadOK(evict)
    BY <1>14, <2>2 DEF ReadOK
  <2>5. evict.pc \in Calling /\ Extends(table)
    BY <2>2, AccessorFacts DEF Calling, PCs
  <2> QED BY <1>1, <1>2, <1>3, <1>4, <1>5, <1>11, <1>13, <1>19, <2>1, <2>2, <2>3, <2>4, <2>5, BeginKeeps DEF a
<1> QED BY <1>8, <1>15, <1>16, <1>17, <1>18, <1>19

--------------------------------------------------------------------------------
(* The other process, and the start *)

LEMMA EditKeeps ==
  ASSUME AccessInv, Edit
  PROVE  AccessInv'
<1>1. /\ table' = table /\ openat2' = openat2 /\ unsupported' = unsupported /\ acc' = acc
      /\ holder' = holder /\ count' = count /\ th' = th /\ node' \in Trees /\ edits' = edits - 1
      /\ edits > 0
  BY DEF Edit
<1>2. TypeOK'
  BY <1>1 DEF AccessInv, TypeOK
<1>3. OwnersInv'
  BY <1>1 DEF AccessInv, OwnersInv, Mine
<1> QED BY <1>2, <1>3 DEF AccessInv

LEMMA StutterKeeps ==
  ASSUME AccessInv, UNCHANGED vars
  PROVE  AccessInv'
<1>1. TypeOK'
  BY DEF AccessInv, TypeOK, vars
<1>2. OwnersInv'
  BY DEF AccessInv, OwnersInv, Mine, vars
<1> QED BY <1>1, <1>2 DEF AccessInv

\* A thread that has not begun
LEMMA FreshThreadOK ==
  ASSUME NEW todo \in Seq(Requests), Len(todo) <= MaxMade, todo # <<>> => todo[1].op = "make",
         NEW accs, \A a \in Accessors : accs[a].kind = None, NEW t \in Threads
  PROVE  ThreadOK(t, NewThread(todo), accs) /\ NewThread(todo).own = {}
<1> DEFINE s == NewThread(todo)
<1>1. /\ s.todo = todo /\ s.made = 0 /\ s.stack = <<>> /\ s.ans = NoAnswer /\ s.pc = "idle"
      /\ s.op = None /\ s.k = 0 /\ s.cur = 0 /\ s.own = {} /\ s.size = 0 /\ s.got = 0
  BY DEF NewThread
<1>2. NoAnswer.op = None /\ NoAnswer.node = None
  BY DEF NoAnswer
<1> HIDE DEF s
<1>3. Len(<<>>) = 0 /\ Len(todo) \in Nat
  OBVIOUS
<1>4. StackOK(t, s, accs)
  <2>1. \A i \in 1 .. MaxMade : <<t, i>> \in Accessors
    BY DEF Accessors
  <2>2. \A i \in 1 .. MaxMade : accs[<<t, i>>].kind = None
    BY <2>1
  <2>3. \A i \in 1 .. Len(s.stack) : s.stack[i][1] = t /\ accs[s.stack[i]].kind # None
    BY <1>1, <1>3
  <2>4. s.made + Len(s.todo) + (IF s.op = None THEN 0 ELSE 1) <= MaxMade
    BY <1>1, <1>3, SizesAssumption
  <2> QED BY <1>1, <2>2, <2>3, <2>4 DEF StackOK
<1>5. UseOK(s, accs[Last(s.stack)])
  BY <1>1, RestIsOK
<1>6. ReadOK(s)
  BY <1>1, <1>2, TreesAssumption DEF ReadOK, None
<1> QED BY <1>1, <1>4, <1>5, <1>6 DEF ThreadOK, s

LEMMA InitHolds ==
  ASSUME Init
  PROVE  AccessInv
<1>1. PICK s \in Scenarios : edits = s.edits /\ th = [t \in Threads |-> NewThread(s.todo[t])]
  BY DEF Init
<1>2. /\ edits \in Nat
      /\ \A t \in Threads : /\ s.todo[t] \in Seq(Requests) /\ Len(s.todo[t]) <= MaxMade
                            /\ s.todo[t] # <<>> => s.todo[t][1].op = "make"
  BY <1>1, ScenariosAssumption
<1>3. acc = [a \in Accessors |-> NoAccessor] /\ table = [i \in {} |-> None] /\ count = 0
  BY DEF Init
<1>4. World
  BY <1>2, TreesAssumption DEF Init, World
<1>5. th \in [Threads -> ThreadStates]
  BY <1>1, <1>2, NewThreadOK
<1>6. acc \in [Accessors -> AccessorStates] /\ \A a \in Accessors : acc[a] = NoAccessor
  BY <1>3, NoAccessorOK
<1>7. TableOK(table)
  <2>1. DOMAIN table = {}
    BY <1>3
  <2> QED BY <2>1, FS_EmptySet DEF TableOK
<1>8. NoAccessor.kind = None /\ NoAccessor.fd = 0 /\ NoAccessor.cache = <<>>
  BY DEF NoAccessor
<1>9. \A t \in Threads : ThreadOK(t, th[t], acc) /\ th[t].own = {}
  <2>1. \A a \in Accessors : acc[a].kind = None
    BY <1>6, <1>8
  <2> TAKE t \in Threads
  <2>2. th[t] = NewThread(s.todo[t])
    BY <1>1
  <2> DEFINE todo == s.todo[t]
  <2>3. todo \in Seq(Requests) /\ Len(todo) <= MaxMade /\ (todo # <<>> => todo[1].op = "make")
    BY <1>2
  <2> HIDE DEF todo
  <2>4. ThreadOK(t, NewThread(todo), acc) /\ NewThread(todo).own = {}
    BY <2>1, <2>3, FreshThreadOK
  <2> QED BY <2>2, <2>4 DEF todo
<1>10. Owned(th, acc) \subseteq DOMAIN table \cup {0}
  <2> DEFINE D == DOMAIN table \cup {0}
  <2>1. \A a \in Accessors : acc[a].fd \in D /\ Fds(acc[a].cache) \subseteq D
    BY <1>6, <1>8 DEF Fds
  <2>2. \A t \in Threads : th[t].own \subseteq D
    BY <1>9
  <2> HIDE DEF D
  <2>3. Owned(th, acc) \subseteq D
    BY <1>6, <2>1, <2>2, OwnedParts
  <2> QED BY <2>3 DEF D
<1>11. count = Cached(acc, Accessors)
  <2>1. Entries(acc, Accessors) = {}
    BY <1>6, <1>8 DEF Entries
  <2> QED BY <1>3, <2>1, FS_EmptySet DEF Cached
<1>12. \A a \in Accessors : AccessorOK(acc[a], table)
  BY <1>6, NoAccessorOK
<1>13. Good(th, acc, table, count)
  BY <1>5, <1>6, <1>7, <1>9, <1>10, <1>11, <1>12 DEF Good
<1> QED BY <1>4, <1>13, GoodIsAccessInv

--------------------------------------------------------------------------------
(* How a path resolves: to the same end in one step or in several, from    *)
(* the root or from any directory on the way.                              *)

\* The directory at the end of a path
Directory(tree, dir, path) == OpenAt2(tree, dir, path, TRUE)

\* The directory of that name
Under(tree, r, name) == Beneath(tree, r, name, TRUE)

\* What a resolution of directories computes on the way, for every part of the path
Traces(f, tree, dir, path) ==
  /\ f \in [0 .. Len(path) -> Resolved] /\ f[0] = Start(dir)
  /\ \A k \in 1 .. Len(path) : f[k] = Under(tree, f[k - 1], path[k])

\* On the way to the end of a path, every part of it is resolved.
LEMMA PrefixesResolve ==
  ASSUME NEW tree \in Trees, NEW dir \in Inside, NEW path \in Paths
  PROVE  \E f : /\ Traces(f, tree, dir, path)
                /\ \A j \in 0 .. Len(path) : Directory(tree, dir, SubSeq(path, 1, j)) = f[j]
<1> DEFINE n == Len(path)
<1>1. ASSUME NEW r, NEW name, NEW b \in BOOLEAN
      PROVE  Beneath(tree, r, name, TRUE \/ b) = Under(tree, r, name)
  BY DEF Under
<1>2. PICK f : Resolves(f, tree, dir, path, TRUE)
  BY OpenAt2Computes
<1>3. /\ n \in Nat /\ f \in [0 .. n -> Resolved] /\ f[0] = Start(dir)
      /\ \A k \in 1 .. n : f[k] = Under(tree, f[k - 1], path[k])
  BY <1>1, <1>2 DEF Resolves, Paths
<1>4. ASSUME NEW j \in 0 .. n PROVE Directory(tree, dir, SubSeq(path, 1, j)) = f[j]
  <2> DEFINE part == SubSeq(path, 1, j)
  <2>1. j \in Nat /\ j <= Len(path) /\ \A k \in 1 .. j : path[k] \in STRING
    BY <1>3 DEF Paths
  <2>2. part \in Seq(STRING) /\ Len(part) = j /\ \A k \in 1 .. j : part[k] = path[k]
    <3>1. /\ part \in Seq(STRING) /\ Len(part) = IF 1 <= j THEN j - 1 + 1 ELSE 0
          /\ \A k \in 1 .. j - 1 + 1 : part[k] = path[1 + k - 1]
      <4>1. 1 \in Int /\ j \in Int /\ \A k \in 1 .. j : path[k] \in STRING
        BY <2>1
      <4> QED BY <4>1, SubSeqProperties
    <3> HIDE DEF part
    <3> QED BY <2>1, <3>1
  <2> HIDE DEF part
  <2>3. part \in Paths
    BY <2>2 DEF Paths
  <2>4. PICK g : Resolves(g, tree, dir, part, TRUE) /\ Directory(tree, dir, part) = g[Len(part)]
    BY <2>3, OpenAt2Computes DEF Directory
  <2>5. /\ g[0] = Start(dir)
        /\ \A k \in 1 .. j : g[k] = Under(tree, g[k - 1], path[k])
    <3>1. g[0] = Start(dir) /\ \A k \in 1 .. Len(part) : g[k] = Beneath(tree, g[k - 1], part[k], TRUE \/ k < Len(part))
      BY <2>4 DEF Resolves
    <3>2. ASSUME NEW k \in 1 .. j PROVE g[k] = Under(tree, g[k - 1], path[k])
      <4>1. g[k] = Beneath(tree, g[k - 1], part[k], TRUE \/ k < j) /\ part[k] = path[k] /\ (k < j) \in BOOLEAN
        BY <2>2, <3>1
      <4> QED BY <1>1, <4>1
    <3> QED BY <3>1, <3>2
  <2> DEFINE S == {k \in 0 .. j : g[k] = f[k]}
  <2>6. 0 \in S
    BY <1>3, <2>1, <2>5
  <2>7. ASSUME NEW k \in 0 .. j - 1, k \in S PROVE k + 1 \in S
    <3>1. k + 1 \in 1 .. j /\ k + 1 \in 1 .. n /\ k + 1 - 1 = k /\ g[k] = f[k]
      BY <1>3, <2>1, <2>7
    <3>2. g[k + 1] = f[k + 1]
      BY <1>3, <2>5, <3>1
    <3> QED BY <3>1, <3>2
  <2>8. 0 .. j \subseteq S
    <3> HIDE DEF S
    <3> QED BY <2>1, <2>6, <2>7, Induction
  <2>9. j \in S
    BY <2>1, <2>8
  <2> QED BY <2>2, <2>4, <2>9 DEF part
<1> QED BY <1>3, <1>4 DEF Traces

\* The whole path is the last of its parts.
LEMMA WholeResolves ==
  ASSUME NEW tree \in Trees, NEW dir \in Inside, NEW path \in Paths
  PROVE  \E f : /\ Traces(f, tree, dir, path) /\ Directory(tree, dir, path) = f[Len(path)]
                /\ \A j \in 0 .. Len(path) : Directory(tree, dir, SubSeq(path, 1, j)) = f[j]
<1>1. PICK f : /\ Traces(f, tree, dir, path)
               /\ \A j \in 0 .. Len(path) : Directory(tree, dir, SubSeq(path, 1, j)) = f[j]
  BY PrefixesResolve
<1>2. Len(path) \in 0 .. Len(path) /\ SubSeq(path, 1, Len(path)) = path
  BY SubSeqFull DEF Paths
<1> QED BY <1>1, <1>2

\* An error ends a resolution.
LEMMA ErrorsStick ==
  ASSUME NEW f, NEW tree, NEW dir, NEW path \in Paths, Traces(f, tree, dir, path),
         NEW i \in 0 .. Len(path), f[i].err # "none"
  PROVE  f[Len(path)] = f[i]
<1> DEFINE n == Len(path) - i
           S == {k \in 0 .. n : f[i + k] = f[i]}
<1>1. n \in Nat /\ i \in Nat /\ i + n = Len(path) /\ Len(path) \in Nat
  BY DEF Paths
<1>2. \A k \in 1 .. Len(path) : f[k] = Under(tree, f[k - 1], path[k])
  BY DEF Traces
<1> HIDE DEF n
<1>3. 0 \in S
  BY <1>1
<1>4. ASSUME NEW k \in 0 .. n - 1, k \in S PROVE k + 1 \in S
  <2> DEFINE m == i + k + 1
  <2>1. m \in 1 .. Len(path) /\ m - 1 = i + k /\ f[i + k] = f[i]
    BY <1>1, <1>4
  <2> HIDE DEF m
  <2>2. f[m] = f[m - 1]
    BY <1>2, <2>1 DEF Under, Beneath
  <2>3. i + (k + 1) = m /\ k + 1 \in 0 .. n
    BY <1>1 DEF m
  <2> QED BY <2>1, <2>2, <2>3
<1>5. 0 .. n \subseteq S
  <2> HIDE DEF S
  <2> QED BY <1>1, <1>3, <1>4, Induction
<1>6. n \in S
  BY <1>1, <1>5
<1> QED BY <1>1, <1>6

\* The path q is what is left of path p after m names.
Continues(p, m, q) ==
  /\ m \in Nat /\ q \in Paths /\ m + Len(q) = Len(p)
  /\ \A k \in 1 .. Len(q) : q[k] = p[m + k]

\* From a directory on the way, the rest of the path leads to the same end.
LEMMA RestResolves ==
  ASSUME NEW tree \in Trees, NEW dir \in Inside, NEW path \in Paths, NEW f, Traces(f, tree, dir, path),
         NEW m, NEW rest, Continues(path, m, rest), NEW at \in Inside, f[m] = Start(at)
  PROVE  Directory(tree, at, rest) = f[Len(path)]
<1> DEFINE n == Len(rest)
<1>8. /\ f[m] = Start(at) /\ m \in Nat /\ rest \in Paths /\ m + Len(rest) = Len(path)
      /\ \A k \in 1 .. Len(rest) : rest[k] = path[m + k]
  BY DEF Continues
<1>1. PICK g : Traces(g, tree, at, rest) /\ Directory(tree, at, rest) = g[n]
  BY <1>8, WholeResolves
<1>2. /\ g[0] = Start(at) /\ \A k \in 1 .. n : g[k] = Under(tree, g[k - 1], rest[k])
      /\ \A k \in 1 .. Len(path) : f[k] = Under(tree, f[k - 1], path[k])
  BY <1>1 DEF Traces
<1>3. n \in Nat /\ Len(path) \in Nat
  BY <1>8 DEF Paths
<1> DEFINE S == {k \in 0 .. n : g[k] = f[m + k]}
<1> HIDE DEF n
<1>4. 0 \in S
  BY <1>2, <1>3, <1>8
<1>5. ASSUME NEW k \in 0 .. n - 1, k \in S PROVE k + 1 \in S
  <2> DEFINE i == m + k + 1
             l == k + 1
  <2>1. i \in 1 .. Len(path) /\ i - 1 = m + k /\ l \in 1 .. n /\ l - 1 = k /\ m + l = i /\ g[k] = f[m + k]
    BY <1>3, <1>5, <1>8 DEF n
  <2> HIDE DEF i, l
  <2>2. rest[l] = path[i]
    BY <1>8, <2>1 DEF n
  <2>3. g[l] = f[i]
    BY <1>2, <2>1, <2>2
  <2>4. l \in S
    BY <2>1, <2>3
  <2> QED BY <2>4 DEF l
<1>6. 0 .. n \subseteq S
  <2> HIDE DEF S
  <2> QED BY <1>3, <1>4, <1>5, Induction
<1>7. n \in S
  BY <1>3, <1>6
<1> QED BY <1>1, <1>7, <1>8 DEF n

\* A path in two parts, the second a path q of which one sees a part
LEMMA PartsOfPath ==
  ASSUME NEW p \in Paths, NEW q \in Paths, NEW m \in Nat, m + Len(q) = Len(p),
         SubSeq(p, 1, m) \o SubSeq(q, 1, Len(q)) = p
  PROVE  /\ \A j \in 1 .. Len(q) : q[j] = p[m + j]
         /\ \A j \in 0 .. Len(q) : SubSeq(p, 1, m) \o SubSeq(q, 1, j) = SubSeq(p, 1, m + j)
<1> DEFINE l == Len(q)
           u == SubSeq(p, 1, m)
<1>1. p \in Seq(STRING) /\ q \in Seq(STRING) /\ l \in Nat /\ m + l = Len(p) /\ m <= Len(p)
  BY DEF Paths
<1>2. u \in Seq(STRING) /\ Len(u) = m /\ \A i \in 1 .. m : u[i] = p[i]
  <2>1. m \in Int /\ 1 \in Int /\ \A i \in 1 .. m : p[i] \in STRING
    BY <1>1
  <2>2. /\ u \in Seq(STRING) /\ Len(u) = IF 1 <= m THEN m - 1 + 1 ELSE 0
        /\ \A i \in 1 .. m - 1 + 1 : u[i] = p[1 + i - 1]
    BY <2>1, SubSeqProperties
  <2> HIDE DEF u
  <2> QED BY <2>2
<1> HIDE DEF u
<1>3. SubSeq(q, 1, l) = q
  BY <1>1, SubSeqFull
<1>4. u \o q = p
  BY <1>3 DEF u
<1>5. \A i \in 1 .. m + l : p[i] = IF i <= m THEN u[i] ELSE q[i - m]
  <2>1. \A i \in 1 .. Len(u) + Len(q) : (u \o q)[i] = IF i <= Len(u) THEN u[i] ELSE q[i - Len(u)]
    BY <1>1, <1>2, ConcatProperties
  <2> QED BY <1>2, <1>4, <2>1
<1> HIDE DEF l
<1>6. ASSUME NEW j \in 1 .. l PROVE q[j] = p[m + j]
  <2>1. m + j \in 1 .. m + l /\ ~(m + j <= m) /\ m + j - m = j
    BY <1>1
  <2> QED BY <1>5, <2>1
<1>7. ASSUME NEW j \in 0 .. l PROVE u \o SubSeq(q, 1, j) = SubSeq(p, 1, m + j)
  <2> DEFINE v == SubSeq(q, 1, j)
             w == SubSeq(p, 1, m + j)
  <2>1. v \in Seq(STRING) /\ Len(v) = j /\ \A i \in 1 .. j : v[i] = q[i]
    <3>1. j \in Int /\ 1 \in Int /\ \A i \in 1 .. j : q[i] \in STRING
      BY <1>1 DEF l
    <3>2. /\ v \in Seq(STRING) /\ Len(v) = IF 1 <= j THEN j - 1 + 1 ELSE 0
          /\ \A i \in 1 .. j - 1 + 1 : v[i] = q[1 + i - 1]
      BY <3>1, SubSeqProperties
    <3> HIDE DEF v
    <3> QED BY <3>1, <3>2
  <2>2. w \in Seq(STRING) /\ Len(w) = m + j /\ \A i \in 1 .. m + j : w[i] = p[i]
    <3> DEFINE b == m + j
    <3>1. b \in Int /\ b >= 0 /\ 1 \in Int /\ \A i \in 1 .. b : p[i] \in STRING
      BY <1>1
    <3> HIDE DEF b
    <3>2. /\ SubSeq(p, 1, b) \in Seq(STRING) /\ Len(SubSeq(p, 1, b)) = IF 1 <= b THEN b - 1 + 1 ELSE 0
          /\ \A i \in 1 .. b - 1 + 1 : SubSeq(p, 1, b)[i] = p[1 + i - 1]
      BY <3>1, SubSeqProperties
    <3>3. w = SubSeq(p, 1, b)
      BY DEF b
    <3> HIDE DEF w
    <3> QED BY <3>1, <3>2, <3>3 DEF b
  <2> HIDE DEF v, w
  <2>3. /\ u \o v \in Seq(STRING) /\ Len(u \o v) = m + j
        /\ \A i \in 1 .. m + j : (u \o v)[i] = IF i <= m THEN u[i] ELSE v[i - m]
    <3>1. /\ u \o v \in Seq(STRING) /\ Len(u \o v) = Len(u) + Len(v)
          /\ \A i \in 1 .. Len(u) + Len(v) : (u \o v)[i] = IF i <= Len(u) THEN u[i] ELSE v[i - Len(u)]
      <4>1. u \in Seq(STRING) /\ v \in Seq(STRING)
        BY <1>2, <2>1
      <4> QED BY ONLY <4>1, ConcatProperties
    <3> QED BY <1>2, <2>1, <3>1
  <2>4. ASSUME NEW i \in 1 .. m + j PROVE (u \o v)[i] = w[i]
    <3>1. i \in 1 .. m + l /\ w[i] = p[i]
      BY <1>1, <2>2
    <3>2. ~(i <= m) => i - m \in 1 .. j /\ v[i - m] = q[i - m]
      BY <1>1, <2>1
    <3> QED BY <1>5, <2>3, <3>1, <3>2
  <2>5. u \o v = w
    BY <2>2, <2>3, <2>4, SeqEqual
  <2> QED BY <2>5 DEF v, w
<1> QED BY <1>6, <1>7 DEF l, u

\* The parent has a name less.
LEMMA ParentLength ==
  ASSUME NEW path \in Paths, path # <<>>
  PROVE  Parent(path) \in Paths /\ Len(Parent(path)) = Len(path) - 1 /\ Len(path) \in Nat /\ Len(path) >= 1
<1> DEFINE n == Len(path) - 1
<1>1. Len(path) \in Nat /\ Len(path) >= 1
  BY DEF Paths
<1>2. n \in Nat /\ n <= Len(path) /\ 1 \in Nat /\ 1 >= 1
  BY <1>1
<1>3. Parent(path) = SubSeq(path, 1, n)
  BY DEF Parent
<1> HIDE DEF n
<1>4. SubSeq(path, 1, n) \in Paths /\ Len(SubSeq(path, 1, n)) = IF 1 <= n THEN n - 1 + 1 ELSE 0
  BY <1>2, SubPath
<1>5. Len(SubSeq(path, 1, n)) = n
  BY <1>2, <1>4
<1> QED BY <1>1, <1>3, <1>4, <1>5 DEF n

\* Where a call on the way to the parent is: m names are before its anchor, and
\* the rest is what it still has to open.
OnTheWayAt(s, m, parent) ==
  /\ parent \in Paths /\ m \in Nat /\ m + Len(s.rel) = Len(parent)
  /\ \A j \in 1 .. Len(s.rel) : s.rel[j] = parent[m + j]
  /\ \A j \in 0 .. Len(s.rel) : KeyOf(s, j) = SubSeq(parent, 1, m + j)

LEMMA OnTheWay ==
  ASSUME NEW s \in ThreadStates, Len(s.rel) < Len(s.path), KeyOf(s, Len(s.rel)) = Parent(s.path),
         NEW m, m = Len(s.path) - 1 - Len(s.rel), NEW parent, parent = Parent(s.path)
  PROVE  OnTheWayAt(s, m, parent)
<1> DEFINE rel == s.rel
           l == Len(rel)
           n == Len(s.path)
<1>1. s.path \in Paths /\ rel \in Paths /\ l \in Nat /\ n \in Nat /\ s.path # <<>>
  BY DEF ThreadStates, Paths
<1>2. parent \in Paths /\ Len(parent) = n - 1
  BY <1>1, ParentLength
<1>3. m \in Nat /\ m + l = Len(parent)
  BY <1>1, <1>2
<1>4. \A j : KeyOf(s, j) = SubSeq(parent, 1, m) \o SubSeq(rel, 1, j)
  BY DEF KeyOf
<1>5. SubSeq(parent, 1, m) \o SubSeq(rel, 1, l) = parent
  BY <1>4
<1> HIDE DEF rel, n
<1>6. /\ \A j \in 1 .. l : rel[j] = parent[m + j]
      /\ \A j \in 0 .. l : SubSeq(parent, 1, m) \o SubSeq(rel, 1, j) = SubSeq(parent, 1, m + j)
  BY <1>1, <1>2, <1>3, <1>5, PartsOfPath
<1> QED BY <1>2, <1>3, <1>4, <1>6 DEF rel, OnTheWayAt

\* The next name on the way
LEMMA NextName ==
  ASSUME NEW tree \in Trees, NEW root \in Inside, NEW at \in Inside, NEW before, NEW s \in ThreadStates,
         ParentOK(tree, s, root, at, before), s.k < Len(s.rel),
         NEW r, r = Under(tree, Start(at), s.rel[s.k + 1]),
         NEW up, up = Directory(tree, root, Parent(s.path))
  PROVE  /\ r \in Resolved /\ Directory(tree, root, KeyOf(s, s.k + 1)) = r
         /\ r.err # "none" \/ s.k + 1 = Len(s.rel) => up = r
         /\ s.k = 0 => up = Directory(tree, at, s.rel)
<1> DEFINE m == Len(s.path) - 1 - Len(s.rel)
           parent == Parent(s.path)
           rel == s.rel
           l == Len(rel)
           k == s.k
<1>1. /\ parent \in Paths /\ m \in Nat /\ m + l = Len(parent)
      /\ \A j \in 1 .. l : rel[j] = parent[m + j]
      /\ \A j \in 0 .. l : KeyOf(s, j) = SubSeq(parent, 1, m + j)
  <2>1. Len(s.rel) < Len(s.path) /\ KeyOf(s, Len(s.rel)) = Parent(s.path)
    BY DEF ParentOK
  <2>2. m = Len(s.path) - 1 - Len(s.rel) /\ parent = Parent(s.path)
    OBVIOUS
  <2> HIDE DEF m, parent
  <2>3. OnTheWayAt(s, m, parent)
    BY <2>1, <2>2, OnTheWay
  <2> QED BY <2>3 DEF OnTheWayAt
<1>2. rel \in Paths /\ l \in Nat /\ k \in Nat /\ k < l
  BY DEF ThreadStates, Paths
<1> HIDE DEF m, parent, k, l
<1>3. PICK f : /\ Traces(f, tree, root, parent) /\ Directory(tree, root, parent) = f[Len(parent)]
               /\ \A j \in 0 .. Len(parent) : Directory(tree, root, SubSeq(parent, 1, j)) = f[j]
  BY <1>1, WholeResolves
<1>4. f[m + k] = Start(at)
  <2>1. m + k \in 0 .. Len(parent) /\ k \in 0 .. l
    BY <1>1, <1>2
  <2>3. KeyOf(s, k) = SubSeq(parent, 1, m + k)
    BY <1>1, <2>1
  <2>2. Directory(tree, root, KeyOf(s, k)) = Start(at)
    BY DEF ParentOK, Leads, Start, Directory, k
  <2> QED BY <1>3, <2>1, <2>2, <2>3
<1> DEFINE i == m + k + 1
<1>5. /\ i \in 1 .. Len(parent) /\ i \in 0 .. Len(parent) /\ i - 1 = m + k /\ m + (k + 1) = i
      /\ k + 1 \in 1 .. l /\ k + 1 \in 0 .. l
  <2>1. m \in Nat /\ m + l = Len(parent) /\ k \in Nat /\ k < l /\ l \in Nat
    BY <1>1, <1>2
  <2> QED BY ONLY <2>1 DEF i
<1> HIDE DEF i
<1>6. f[i] = r
  <2>2. r = Under(tree, Start(at), rel[k + 1])
    BY DEF k
  <2>1. f[i] = Under(tree, f[i - 1], parent[i]) /\ parent[i] = rel[k + 1]
    BY <1>1, <1>3, <1>5 DEF Traces
  <2> QED BY <1>4, <1>5, <2>1, <2>2
<1>7. r \in Resolved
  BY <1>3, <1>5, <1>6 DEF Traces
<1>8. Directory(tree, root, KeyOf(s, k + 1)) = r
  BY <1>1, <1>3, <1>5, <1>6
<1>9. up = f[Len(parent)]
  BY <1>3 DEF parent
<1>10. r.err # "none" => up = r
  BY <1>1, <1>3, <1>5, <1>6, <1>9, ErrorsStick
<1>11. k + 1 = l => up = r
  BY <1>1, <1>5, <1>6, <1>9
<1>12. ASSUME k = 0 PROVE up = Directory(tree, at, rel)
  <2>1. f[m] = Start(at)
    BY <1>1, <1>4, <1>12
  <2> HIDE DEF rel
  <2>2. Directory(tree, at, rel) = f[Len(parent)]
    <3>1. parent \in Paths /\ Traces(f, tree, root, parent) /\ Continues(parent, m, rel)
      BY <1>1, <1>2, <1>3 DEF l, Continues
    <3> QED BY <2>1, <3>1, RestResolves
  <2> QED BY <1>9, <2>2
<1> QED BY <1>7, <1>8, <1>10, <1>11, <1>12 DEF k, l

\* An open of one name against a resolution that may pass no symlink
LEMMA OneName ==
  ASSUME NEW tree \in Trees, NEW at \in Inside, NEW name, NEW directory \in BOOLEAN,
         NEW o, o = OpenAt(tree, at, name, directory),
         NEW q, q = Beneath(tree, Start(at), name, directory),
         NEW i, i = Lookup(tree, at, name)
  PROVE  /\ o.err # "ENOTDIR" => q = o
         /\ o.err = "ENOTDIR" =>
              /\ directory /\ i # None
              /\ q = [err |-> IF i # None /\ tree[i].type = "link" THEN "ELOOP" ELSE "ENOTDIR", node |-> None]
<1>1. Start(at).err = "none" /\ Start(at).node = at /\ at # None
  BY TreesAssumption DEF Start, Inside
<1>2. q = IF i # None /\ tree[i].type = "link" THEN [err |-> "ELOOP", node |-> None] ELSE o
  BY <1>1 DEF Beneath
<1>3. \/ i = None /\ o = [err |-> "ENOENT", node |-> None]
      \/ i # None /\ directory /\ tree[i].type # "dir" /\ o = [err |-> "ENOTDIR", node |-> None]
      \/ i # None /\ ~directory /\ tree[i].type = "link" /\ o = [err |-> "ELOOP", node |-> None]
      \/ /\ i # None /\ (~directory \/ tree[i].type = "dir") /\ (directory \/ tree[i].type # "link")
         /\ o = [err |-> "none", node |-> i]
  BY <1>1 DEF OpenAt
<1> QED BY <1>2, <1>3

\* A last name that is to be a directory
LEMMA UnderIsBeneath ==
  ASSUME NEW tree, NEW r, NEW name, NEW directory \in BOOLEAN, directory
  PROVE  Beneath(tree, r, name, directory) = Under(tree, r, name)
  BY DEF Under

\* The directory at the end of a path is inside, or an error says why there is none.
LEMMA DirectoryResolves ==
  ASSUME NEW tree \in Trees, NEW dir \in Inside, NEW path \in Paths
  PROVE  Directory(tree, dir, path) \in Resolved
<1>1. PICK f : Traces(f, tree, dir, path) /\ Directory(tree, dir, path) = f[Len(path)]
  BY WholeResolves
<1>2. Len(path) \in 0 .. Len(path)
  BY DEF Paths
<1> QED BY <1>1, <1>2 DEF Traces

\* An open of the last name in a directory
LEMMA LastName ==
  ASSUME NEW tree \in Trees, NEW up \in Resolved, up.err = "none", NEW name, NEW directory \in BOOLEAN,
         NEW r, r = Beneath(tree, up, name, directory),
         NEW i, i = Lookup(tree, up.node, name)
  PROVE  /\ i \in Inside \cup {None} /\ (i # None => tree[i].type # None)
         /\ \/ i # None /\ tree[i].type = "link" /\ r = [err |-> "ELOOP", node |-> None]
            \/ i = None /\ r = [err |-> "ENOENT", node |-> None]
            \/ /\ i # None /\ tree[i].type \notin {"link", "dir"} /\ directory
               /\ r = [err |-> "ENOTDIR", node |-> None]
            \/ /\ i # None /\ tree[i].type # "link" /\ (directory => tree[i].type = "dir")
               /\ r = [err |-> "none", node |-> i]
<1>1. up.node \in Inside /\ up.node # None
  BY TreesAssumption DEF Resolved, Inside
<1>2. i \in Inside \cup {None}
  BY <1>1, LookupStays
<1>3. i # None => tree[i].type # None
  BY <1>2, TreesAssumption DEF Inside
<1>4. r = IF i # None /\ tree[i].type = "link" THEN [err |-> "ELOOP", node |-> None]
          ELSE OpenAt(tree, up.node, name, directory)
  BY DEF Beneath
<1>5. \/ i = None /\ r = [err |-> "ENOENT", node |-> None]
      \/ i # None /\ tree[i].type = "link" /\ r = [err |-> "ELOOP", node |-> None]
      \/ /\ i # None /\ tree[i].type # "link" /\ directory /\ tree[i].type # "dir"
         /\ r = [err |-> "ENOTDIR", node |-> None]
      \/ /\ i # None /\ tree[i].type # "link" /\ (~directory \/ tree[i].type = "dir")
         /\ r = [err |-> "none", node |-> i]
  BY <1>1, <1>4 DEF OpenAt
<1> QED BY <1>2, <1>3, <1>5

TypeOf(tree, i) == IF i = None THEN None ELSE tree[i].type

\* What the reference says of the last name of a path whose parent is there
LEMMA ReferenceOfLast ==
  ASSUME NEW tree, NEW root, NEW op, NEW path,
         NEW up, up = Directory(tree, root, Parent(path)), up.err = "none",
         NEW i, i = Lookup(tree, up.node, Last(path)),
         NEW type, type = TypeOf(tree, i),
         NEW e, e = Reference(tree, root, op, path)
  PROVE  /\ op = "lstat" => e = IF i = None THEN "missing" ELSE "ok"
         /\ op = "readFile" => /\ type = None => e = "FileNotFound"
                               /\ type = "file" => e = "ok"
                               /\ type = "link" => e = "SymlinkNotAllowed"
                               /\ type \notin {None, "file", "link"} => e = "NotARegularFile"
         /\ op = "readLink" => /\ type = None => e = "SysError"
                               /\ type = "link" => e = "ok"
                               /\ type \notin {None, "link"} => e = "NotASymlink"
         /\ op \notin {"lstat", "readFile", "readLink"} =>
              /\ type = None => e = "SysError"
              /\ type = "dir" => e = "ok"
              /\ type = "link" => e = "SymlinkNotAllowed"
              /\ type \notin {None, "dir", "link"} => e = "NotADirectory"
<1>1. op = "lstat" => e = IF i = None THEN "missing" ELSE "ok"
  BY DEF Reference, Directory
<1>2. op = "readFile" => /\ type = None => e = "FileNotFound"
                         /\ type = "file" => e = "ok"
                         /\ type = "link" => e = "SymlinkNotAllowed"
                         /\ type \notin {None, "file", "link"} => e = "NotARegularFile"
  BY DEF Reference, Directory, None, TypeOf
<1>3. op = "readLink" => /\ type = None => e = "SysError"
                         /\ type = "link" => e = "ok"
                         /\ type \notin {None, "link"} => e = "NotASymlink"
  BY DEF Reference, Directory, None, TypeOf
<1>4. op \notin {"lstat", "readFile", "readLink"} =>
        /\ type = None => e = "SysError"
        /\ type = "dir" => e = "ok"
        /\ type = "link" => e = "SymlinkNotAllowed"
        /\ type \notin {None, "dir", "link"} => e = "NotADirectory"
  BY DEF Reference, Directory, None, TypeOf
<1> QED BY <1>1, <1>2, <1>3, <1>4

\* A resolution that ended with r: of the parent, or of the last name in it
Ended(tree, s, root, r) ==
  /\ ~s.leaf => r = Directory(tree, root, Parent(s.path))
  /\ s.leaf => /\ Directory(tree, root, Parent(s.path)).err = "none"
               /\ r = Beneath(tree, Directory(tree, root, Parent(s.path)), Last(s.path), WantsDirectory(s))

\* What the callers make of an error
Reports(tree, s, r, err) ==
  \/ r.err = "ELOOP" /\ err = "SymlinkNotAllowed"
  \/ ~s.leaf /\ r.err \in {"ENOENT", "ENOTDIR"} /\ err = IF s.op = "lstat" THEN "missing" ELSE "FileNotFound"
  \/ s.leaf /\ s.op = "readFile" /\ r.err = "ENOENT" /\ err = "FileNotFound"
  \/ s.leaf /\ s.op = "readFile" /\ r.err = "none" /\ tree[r.node].type # "file" /\ err = "NotARegularFile"
  \/ s.leaf /\ s.op # "readFile" /\ r.err = "ENOTDIR" /\ err = "NotADirectory"
  \/ /\ r.err \notin {"ELOOP", "none"} /\ err = "SysError"
     /\ ~s.leaf => r.err \notin {"ENOENT", "ENOTDIR"}
     /\ s.leaf /\ s.op = "readFile" => r.err # "ENOENT"
     /\ s.leaf /\ s.op # "readFile" => r.err # "ENOTDIR"

\* It is the answer of the reference.
LEMMA ReportIsReference ==
  ASSUME NEW tree \in Trees, NEW root \in Inside, NEW s \in ThreadStates, s.path # <<>>,
         s.leaf => s.op \notin {"lstat", "readLink"},
         NEW r \in Resolved, Ended(tree, s, root, r), NEW err, Reports(tree, s, r, err)
  PROVE  err # "ok" /\ err = Reference(tree, root, s.op, s.path)
<1> DEFINE up == Directory(tree, root, Parent(s.path))
           i == Lookup(tree, up.node, Last(s.path))
           type == IF i = None THEN None ELSE tree[i].type
<1>1. up \in Resolved
  BY ParentLength, DirectoryResolves DEF ThreadStates
<1>2. up = OpenAt2(tree, root, Parent(s.path), TRUE)
  BY DEF Directory
<1>3. err # "ok"
  BY DEF Reports
<1>4. r.err \in {"none", "ENOENT", "ENOTDIR", "ELOOP"}
  BY DEF Resolved, Results, Errnos
<1>5. CASE ~s.leaf
  <2>1. r = up
    BY <1>5 DEF Ended
  <2> HIDE DEF up
  <2>2. \/ up.err = "ELOOP" /\ err = "SymlinkNotAllowed"
        \/ up.err \in {"ENOENT", "ENOTDIR"} /\ err = IF s.op = "lstat" THEN "missing" ELSE "FileNotFound"
    BY <1>4, <1>5, <2>1 DEF Reports
  <2> QED BY <1>2, <1>3, <2>2 DEF Reference
<1>6. CASE s.leaf
  <2>1. up.err = "none" /\ r = Beneath(tree, up, Last(s.path), WantsDirectory(s))
    BY <1>6 DEF Ended
  <2>2. WantsDirectory(s) \in BOOLEAN /\ (WantsDirectory(s) <=> s.op # "readFile")
    BY <1>6 DEF WantsDirectory
  <2> HIDE DEF up
  <2>3. /\ i \in Inside \cup {None} /\ (i # None => tree[i].type # None)
        /\ \/ i # None /\ tree[i].type = "link" /\ r = [err |-> "ELOOP", node |-> None]
           \/ i = None /\ r = [err |-> "ENOENT", node |-> None]
           \/ /\ i # None /\ tree[i].type \notin {"link", "dir"} /\ s.op # "readFile"
              /\ r = [err |-> "ENOTDIR", node |-> None]
           \/ /\ i # None /\ tree[i].type # "link" /\ (s.op # "readFile" => tree[i].type = "dir")
              /\ r = [err |-> "none", node |-> i]
    BY <1>1, <2>1, <2>2, LastName
  <2> HIDE DEF i
  <2> DEFINE e == Reference(tree, root, s.op, s.path)
  <2>4. /\ s.op = "readFile" => /\ type = None => e = "FileNotFound"
                                /\ type = "link" => e = "SymlinkNotAllowed"
                                /\ type \notin {None, "file", "link"} => e = "NotARegularFile"
        /\ s.op # "readFile" => /\ type = None => e = "SysError"
                                /\ type = "link" => e = "SymlinkNotAllowed"
                                /\ type \notin {None, "dir", "link"} => e = "NotADirectory"
    <3>1. /\ up = Directory(tree, root, Parent(s.path)) /\ up.err = "none"
          /\ i = Lookup(tree, up.node, Last(s.path))
          /\ type = TypeOf(tree, i)
          /\ e = Reference(tree, root, s.op, s.path)
      BY <2>1 DEF i, up, TypeOf
    <3>2. s.op \notin {"lstat", "readLink"}
      BY <1>6
    <3> HIDE DEF i, type, e
    <3>3. /\ s.op = "readFile" => /\ type = None => e = "FileNotFound"
                                  /\ type = "link" => e = "SymlinkNotAllowed"
                                  /\ type \notin {None, "file", "link"} => e = "NotARegularFile"
          /\ s.op \notin {"lstat", "readFile", "readLink"} =>
                /\ type = None => e = "SysError"
                /\ type = "link" => e = "SymlinkNotAllowed"
                /\ type \notin {None, "dir", "link"} => e = "NotADirectory"
      BY <3>1, ReferenceOfLast
    <3> QED BY <3>2, <3>3
  <2> HIDE DEF e
  <2>5. CASE r.err = "ELOOP"
    <3>1. type = "link" /\ err = "SymlinkNotAllowed"
      BY <1>6, <2>3, <2>5 DEF Reports
    <3> HIDE DEF type
    <3>2. err = e
      BY <2>4, <3>1 DEF None
    <3> QED BY <1>3, <3>2 DEF e
  <2>6. CASE r.err = "ENOENT"
    <3>1. type = None /\ err = IF s.op = "readFile" THEN "FileNotFound" ELSE "SysError"
      BY <1>6, <2>3, <2>6 DEF Reports
    <3> HIDE DEF type
    <3>2. err = e
      BY <2>4, <3>1 DEF None
    <3> QED BY <1>3, <3>2 DEF e
  <2>7. CASE r.err = "ENOTDIR"
    <3>1. type \notin {"link", "dir", None} /\ s.op # "readFile" /\ err = "NotADirectory"
      BY <1>6, <2>3, <2>7 DEF Reports
    <3> HIDE DEF type
    <3>2. err = e
      BY <2>4, <3>1 DEF None
    <3> QED BY <1>3, <3>2 DEF e
  <2>8. CASE r.err = "none"
    <3>1. type \notin {"link", "file", None} /\ s.op = "readFile" /\ err = "NotARegularFile"
      BY <1>6, <2>3, <2>8 DEF Reports
    <3> HIDE DEF type
    <3>2. err = e
      BY <2>4, <3>1 DEF None
    <3> QED BY <1>3, <3>2 DEF e
  <2> QED BY <1>4, <2>5, <2>6, <2>7, <2>8
<1> QED BY <1>5, <1>6

\* The last name is open as what the call wants.
LEMMA EndIsFound ==
  ASSUME NEW tree \in Trees, NEW root \in Inside, NEW s \in ThreadStates, s.path # <<>>, s.leaf,
         NEW r \in Resolved, r.err = "none", Ended(tree, s, root, r),
         s.op = "readFile" => tree[r.node].type = "file",
         NEW q, q.path = s.path, q.op = s.op, s.op = "readFile" => q.size = tree[r.node].size
  PROVE  FoundOK(tree, q, root, r.node)
<1> DEFINE up == Directory(tree, root, Parent(s.path))
           i == Lookup(tree, up.node, Last(s.path))
<1>1. up \in Resolved
  BY ParentLength, DirectoryResolves DEF ThreadStates
<1>2. up = OpenAt2(tree, root, Parent(s.path), TRUE)
  BY DEF Directory
<1>3. up.err = "none" /\ r = Beneath(tree, up, Last(s.path), WantsDirectory(s))
  BY DEF Ended
<1>4. WantsDirectory(s) \in BOOLEAN /\ (WantsDirectory(s) <=> s.op # "readFile")
  BY DEF WantsDirectory
<1> HIDE DEF up
<1>5. r.node = i /\ (s.op # "readFile" => tree[i].type = "dir")
  BY <1>1, <1>3, <1>4, LastName
<1> QED BY <1>2, <1>3, <1>5 DEF FoundOK

--------------------------------------------------------------------------------
(* What calls and caches know of the tree survives the steps of others,    *)
(* which close descriptors and empty caches.                               *)

\* What a call knows of its place depends on the descriptors it uses only.
LEMMA PlaceStays ==
  ASSUME NEW tree, NEW s, NEW root, NEW at, NEW before, CallOK(tree, s, root, at, before),
         NEW here, s.pc \in Resolving => here = at, NEW last, s.pc = "callback" => last = before
  PROVE  CallOK(tree, s, root, here, last)
<1>1. CASE s.pc \notin Resolving
  BY <1>1 DEF CallOK, Resolving, Opening
<1>2. CASE s.pc = "callback"
  <2>1. here = at /\ last = before
    BY <1>2 DEF Resolving, Opening
  <2> QED BY <2>1
<1>3. CASE s.pc \in Resolving /\ s.pc # "callback"
  <2>1. here = at
    BY <1>3
  <2> QED BY <1>3, <2>1 DEF CallOK, ParentOK
<1> QED BY <1>1, <1>2, <1>3

SameRole(y, x) == y.kind = x.kind /\ y.since = x.since /\ y.fd = x.fd

\* With other descriptors and another cache a call knows the same.
LEMMA CallStays ==
  ASSUME NEW tree, NEW now, NEW s, NEW x, NEW y, SameRole(y, x), NEW old, NEW new,
         UseOK(s, y), y.kind = "dir" => new[y.fd] = old[y.fd],
         \A fd \in s.own \ {0} : new[fd] = old[fd],
         ThreadExact(tree, now, s, x, old)
  PROVE  ThreadExact(tree, now, s, y, new)
<1> SUFFICES ASSUME s.stack # <<>>, Untouched(y, now)
    PROVE  /\ CallOK(tree, s, new[y.fd], new[Here(s)], new[s.prev])
           /\ AnswerOK(tree, s.ans, new[y.fd])
  BY DEF ThreadExact
<1>1. /\ CallOK(tree, s, old[x.fd], old[Here(s)], old[s.prev])
      /\ AnswerOK(tree, s.ans, old[x.fd])
  BY DEF ThreadExact, Untouched, SameRole
<1>2. y.fd = x.fd /\ new[y.fd] = old[x.fd]
  BY DEF Untouched, SameRole
<1>3. s.pc \in Resolving => new[Here(s)] = old[Here(s)]
  BY <1>2 DEF UseOK, Here
<1>4. s.pc = "callback" => new[s.prev] = old[s.prev]
  BY DEF UseOK
<1> DEFINE at == old[Here(s)]
           here == new[Here(s)]
           before == old[s.prev]
           last == new[s.prev]
           root == old[x.fd]
<1>5. CallOK(tree, s, root, here, last)
  <2> HIDE DEF at, here, before, last, root
  <2>1. CallOK(tree, s, root, at, before)
    BY <1>1 DEF at, before, root
  <2>2. s.pc \in Resolving => here = at
    BY <1>3 DEF here, at
  <2>3. s.pc = "callback" => last = before
    BY <1>4 DEF last, before
  <2> QED BY <2>1, <2>2, <2>3, PlaceStays
<1> QED BY <1>1, <1>2, <1>5

\* What a step may do to accessors: other threads' keep their role
RolesStay(t, accs) == \A a \in Accessors : a[1] # t => SameRole(accs[a], acc[a])

\* The step of a thread
LEMMA GoIsExact ==
  ASSUME AccessInv, AccessInv', ExactInv, NEW t \in Threads, NEW s, NEW accs, NEW tab, NEW n,
         Extends(tab), Go(t, s, accs, tab, n), node' = node, edits' = edits,
         RolesStay(t, accs), \A a \in Accessors : AccessorExact(node, edits, accs[a], tab),
         ThreadExact(node, edits, s, accs[Last(s.stack)], tab)
  PROVE  ExactInv'
<1> DEFINE threads == [th EXCEPT ![t] = s]
           dead == {a \in Accessors : accs[a].kind # None /\ ~Alive(threads, a)}
           left == [a \in Accessors |-> IF a \in dead THEN NoAccessor ELSE accs[a]]
<1>1. Good(th', acc', table', count')
  <2>1. Good(th, acc, table, count)'
    BY GoodIsAccessInv, PTL
  <2> QED BY <2>1
<1>2. /\ th' \in [Threads -> ThreadStates] /\ acc' \in [Accessors -> AccessorStates]
      /\ Owned(th', acc') \subseteq DOMAIN table' \cup {0}
      /\ \A a \in Accessors : AccessorOK(acc'[a], table')
      /\ \A u \in Threads : ThreadOK(u, th'[u], acc')
  BY <1>1 DEF Good
<1>3. /\ \A u \in Threads : th'[u].own \subseteq DOMAIN table' \cup {0}
      /\ \A a \in Accessors : /\ acc'[a].fd \in DOMAIN table' \cup {0}
                              /\ Fds(acc'[a].cache) \subseteq DOMAIN table' \cup {0}
  BY <1>2, OwnedParts
<1>4. th' = threads /\ acc' = left /\ table' = Restrict(tab, DOMAIN tab \cap Owned(threads, left))
  BY DEF Go
<1>5. \A fd \in DOMAIN table' : fd \in DOMAIN tab /\ table'[fd] = tab[fd]
  BY <1>4 DEF Restrict
<1>6. /\ th[t] \in ThreadStates /\ th'[t] = s /\ \A u \in Threads \ {t} : th'[u] = th[u]
  BY <1>4, Facts DEF AccessInv, TypeOK
<1> HIDE DEF dead
<1>7. \A a \in Accessors : acc'[a] = NoAccessor \/ acc'[a] = accs[a]
  BY <1>4
<1>8. ASSUME NEW a \in Accessors PROVE AccessorExact(node, edits, acc'[a], table')
  <2>1. CASE acc'[a] = NoAccessor
    BY <2>1 DEF AccessorExact, Untouched, NoAccessor, None
  <2>2. CASE acc'[a] = accs[a]
    <3> DEFINE x == acc'[a]
    <3>1. AccessorExact(node, edits, x, tab)
      BY <2>2
    <3>2. /\ x \in AccessorStates /\ AccessorOK(x, table') /\ x.fd \in DOMAIN table' \cup {0}
          /\ Fds(x.cache) \subseteq DOMAIN table' \cup {0}
      BY <1>2, <1>3
    <3> HIDE DEF x
    <3>3. ASSUME x.kind = "dir" PROVE table'[x.fd] = tab[x.fd]
      BY <1>5, <3>2, <3>3 DEF AccessorOK
    <3>4. ASSUME NEW i \in 1 .. Len(x.cache) PROVE table'[x.cache[i].fd] = tab[x.cache[i].fd]
      <4>1. x.cache[i] \in CacheEntries
        BY <3>2, <3>4 DEF AccessorStates
      <4>2. x.cache[i].fd # 0 /\ x.cache[i].fd \in Fds(x.cache)
        BY <4>1 DEF CacheEntries, Fds
      <4> QED BY <1>5, <3>2, <4>2
    <3>5. AccessorExact(node, edits, x, table')
      BY <3>1, <3>3, <3>4 DEF AccessorExact, Untouched
    <3> QED BY <3>5 DEF x
  <2> QED BY <1>7, <2>1, <2>2
<1>9. ASSUME NEW u \in Threads PROVE ThreadExact(node, edits, th'[u], acc'[Last(th'[u].stack)], table')
  <2> DEFINE q == th'[u]
             a == Last(q.stack)
             y == acc'[a]
  <2>1. q \in ThreadStates /\ ThreadOK(u, q, acc') /\ q.own \subseteq DOMAIN table' \cup {0}
    BY <1>2, <1>3
  <2>2. UseOK(q, y) /\ StackOK(u, q, acc')
    BY <2>1 DEF ThreadOK
  <2>3. PICK x, old : /\ ThreadExact(node, edits, q, x, old)
                      /\ IF u = t THEN x = accs[a] /\ old = tab ELSE x = acc[a] /\ old = table
    <3>1. CASE u = t
      BY <1>6, <3>1
    <3>2. CASE u # t
      BY <1>6, <3>2 DEF ExactInv, Mine
    <3> QED BY <3>1, <3>2
  <2>4. CASE q.stack = <<>>
    <3> HIDE DEF q, y
    <3>1. ThreadExact(node, edits, q, y, table')
      BY <2>3, <2>4 DEF ThreadExact
    <3> QED BY <3>1 DEF q, y
  <2>5. CASE q.stack # <<>>
    <3>1. a \in Accessors /\ a[1] = u /\ Alive(threads, a)
      <4> DEFINE stack == q.stack
                 k == Len(stack)
      <4>1. stack \in Seq(Accessors)
        BY <2>1 DEF ThreadStates
      <4>2. k \in 1 .. k /\ a = stack[k]
        BY <2>5, <4>1 DEF Last
      <4>3. stack[k][1] = u
        BY <2>2, <4>2 DEF StackOK
      <4>4. threads[u].stack = stack
        BY <1>4
      <4> HIDE DEF threads, stack, q, a
      <4>5. stack[k] \in Accessors /\ Alive(threads, stack[k])
        BY <4>1, <4>2, <4>4, StackIsAlive
      <4> QED BY <4>2, <4>3, <4>5
    <3>2. y = accs[a]
      BY <1>4, <3>1 DEF dead
    <3>3. SameRole(y, x)
      BY <2>3, <3>1, <3>2 DEF SameRole, RolesStay
    <3>4. AccessorOK(y, table') /\ y.fd \in DOMAIN table' \cup {0}
      BY <1>2, <1>3, <3>1
    <3>5. y.kind = "dir" => table'[y.fd] = old[y.fd]
      <4> SUFFICES ASSUME y.kind = "dir" PROVE table'[y.fd] = old[y.fd]
        OBVIOUS
      <4> HIDE DEF y
      <4>1. y.fd # 0 /\ table'[y.fd] = tab[y.fd]
        BY <1>5, <3>4 DEF AccessorOK
      <4>2. CASE u = t
        BY <2>3, <4>1, <4>2
      <4>3. CASE u # t
        <5>1. y.fd \in DOMAIN table
          BY <2>3, <3>1, <3>3, <4>1, <4>3, AccessorFacts DEF SameRole
        <5> QED BY <2>3, <4>1, <4>3, <5>1 DEF Extends
      <4> QED BY <4>2, <4>3
    <3>6. ASSUME NEW fd \in q.own \ {0} PROVE table'[fd] = old[fd]
      <4>1. table'[fd] = tab[fd]
        BY <1>5, <2>1
      <4>2. CASE u = t
        BY <2>3, <4>1, <4>2
      <4>3. CASE u # t
        <5>1. fd \in DOMAIN table
          BY <1>6, <4>3, Facts
        <5> QED BY <2>3, <4>1, <4>3, <5>1 DEF Extends
      <4> QED BY <4>2, <4>3
    <3> HIDE DEF q, y
    <3>7. ThreadExact(node, edits, q, y, table')
      BY <2>2, <2>3, <3>3, <3>5, <3>6, CallStays
    <3> QED BY <3>7 DEF q, y
  <2> QED BY <2>4, <2>5
<1> QED BY <1>8, <1>9 DEF ExactInv, Mine

\* With more descriptors the accessors are none the worse.
LEMMA AccessorsStayExact ==
  ASSUME AccessInv, ExactInv, NEW tab, Extends(tab), NEW a \in Accessors
  PROVE  AccessorExact(node, edits, acc[a], tab)
<1> DEFINE x == acc[a]
<1>1. AccessorExact(node, edits, x, table)
  BY DEF ExactInv
<1>2. /\ x \in AccessorStates /\ AccessorOK(x, table) /\ x.fd \in DOMAIN table \cup {0}
      /\ Fds(x.cache) \subseteq DOMAIN table \cup {0}
  BY AccessorFacts
<1> HIDE DEF x
<1>3. ASSUME x.kind = "dir" PROVE tab[x.fd] = table[x.fd]
  BY <1>2, <1>3 DEF AccessorOK, Extends
<1>4. ASSUME NEW i \in 1 .. Len(x.cache) PROVE tab[x.cache[i].fd] = table[x.cache[i].fd]
  <2>1. x.cache[i] \in CacheEntries
    BY <1>2 DEF AccessorStates
  <2>2. x.cache[i].fd # 0 /\ x.cache[i].fd \in Fds(x.cache)
    BY <2>1 DEF CacheEntries, Fds
  <2> QED BY <1>2, <2>2 DEF Extends
<1>5. AccessorExact(node, edits, x, tab)
  BY <1>1, <1>3, <1>4 DEF AccessorExact, Untouched
<1> QED BY <1>5 DEF x

\* A step that leaves the accessors alone
LEMMA StepIsExact ==
  ASSUME AccessInv, AccessInv', ExactInv, NEW t \in Threads, NEW s, NEW tab, Extends(tab),
         Go(t, s, acc, tab, count), node' = node, edits' = edits,
         ThreadExact(node, edits, s, acc[Last(s.stack)], tab)
  PROVE  ExactInv'
<1>1. RolesStay(t, acc)
  BY DEF RolesStay, SameRole
<1> QED BY <1>1, AccessorsStayExact, GoIsExact

\* A step that changes one accessor: one that the thread makes, or a cache
LEMMA ChangeIsExact ==
  ASSUME AccessInv, AccessInv', ExactInv, NEW t \in Threads, NEW s, NEW tab, Extends(tab),
         NEW a \in Accessors, NEW x, a[1] = t \/ SameRole(x, acc[a]), AccessorExact(node, edits, x, tab),
         NEW accs, accs = [acc EXCEPT ![a] = x], NEW n, Go(t, s, accs, tab, n),
         node' = node, edits' = edits,
         ThreadExact(node, edits, s, accs[Last(s.stack)], tab)
  PROVE  ExactInv'
<1>1. accs[a] = x /\ \A b \in Accessors \ {a} : accs[b] = acc[b]
  BY AccessorFacts
<1>2. RolesStay(t, accs)
  BY <1>1 DEF RolesStay, SameRole
<1>3. \A b \in Accessors : AccessorExact(node, edits, accs[b], tab)
  BY <1>1, AccessorsStayExact
<1> QED BY <1>2, <1>3, GoIsExact

\* What is in a cache led to where it leads.
EntriesLead(x, c) ==
  Untouched(x, edits) => \A i \in 1 .. Len(c) : Leads(node, table[x.fd], c[i].key, table[c[i].fd])

\* The step of a thread that changes one cache
LEMMA CacheIsExact ==
  ASSUME AccessInv, AccessInv', ExactInv, NEW t \in Threads, NEW s, Last(s.stack) \in Accessors,
         NEW a \in Accessors, NEW c, EntriesLead(acc[a], c),
         NEW accs, accs = [acc EXCEPT ![a].cache = c], NEW n, Go(t, s, accs, table, n),
         node' = node, edits' = edits,
         ThreadExact(node, edits, s, acc[Last(s.stack)], table)
  PROVE  ExactInv'
<1> DEFINE x == [acc[a] EXCEPT !.cache = c]
           y == acc[a]
<1>1. acc \in [Accessors -> AccessorStates] /\ y \in AccessorStates /\ Extends(table)
  BY AccessorFacts
<1>2. accs = [acc EXCEPT ![a] = x]
  BY <1>1
<1>3. SameRole(x, y) /\ x.cache = c
  BY <1>1 DEF AccessorStates, SameRole
<1>4. AccessorExact(node, edits, y, table)
  BY AccessorsStayExact, <1>1
<1>5. AccessorExact(node, edits, x, table)
  <2>1. EntriesLead(y, c)
    OBVIOUS
  <2> HIDE DEF x, y
  <2> QED BY <1>3, <1>4, <2>1 DEF AccessorExact, Untouched, SameRole, EntriesLead
<1>6. SameRole(accs[Last(s.stack)], acc[Last(s.stack)])
  BY <1>1, <1>2, <1>3 DEF SameRole
<1>7. ThreadExact(node, edits, s, accs[Last(s.stack)], table)
  <2> DEFINE z == accs[Last(s.stack)]
             w == acc[Last(s.stack)]
  <2>1. SameRole(z, w) /\ ThreadExact(node, edits, s, w, table)
    BY <1>6
  <2> HIDE DEF z, w
  <2>2. ThreadExact(node, edits, s, z, table)
    BY <2>1 DEF ThreadExact, Untouched, SameRole
  <2> QED BY <2>2 DEF z
<1> HIDE DEF x
<1> QED BY <1>1, <1>2, <1>3, <1>5, <1>7, ChangeIsExact DEF y

\* A thread that resolves nothing knows its last answer only.
LEMMA RestIsExact ==
  ASSUME NEW s, NEW x, NEW tab, s.pc \notin Resolving, ~s.leaf,
         \/ s.ans.op = None
         \/ s.stack # <<>> /\ (Untouched(x, edits) => AnswerOK(node, s.ans, tab[x.fd]))
  PROVE  ThreadExact(node, edits, s, x, tab)
<1>1. CallOK(node, s, tab[x.fd], tab[Here(s)], tab[s.prev])
  BY DEF CallOK, Resolving, Opening
<1>2. s.ans.op = None => AnswerOK(node, s.ans, tab[x.fd])
  BY DEF AnswerOK
<1> QED BY <1>1, <1>2 DEF ThreadExact, Resolving, Opening

\* It returns or throws.
LEMMA AnswerIsExact ==
  ASSUME AccessInv, AccessInv', ExactInv, NEW t \in Threads, th[t].stack # <<>>,
         NEW s, s.stack = th[t].stack, NEW err, NEW inode, Goes(t, Answer(s, err, inode)),
         node' = node, edits' = edits, NEW root, root = table[acc[Mine(t)].fd],
         Untouched(acc[Mine(t)], edits) /\ s.path # <<>> =>
           /\ err = Reference(node, root, s.op, s.path)
           /\ err = "ok" =>
                inode = Lookup(node, OpenAt2(node, root, Parent(s.path), TRUE).node, Last(s.path))
  PROVE  ExactInv'
<1> DEFINE q == Answer(s, err, inode)
           ans == [op |-> s.op, path |-> s.path, err |-> err, node |-> inode,
                   size |-> s.size, got |-> s.got]
<1>1. q.stack = s.stack /\ q.ans = ans /\ q.pc = "idle" /\ ~q.leaf
  BY DEF Answer, NewThread
<1>2. ans.op = s.op /\ ans.path = s.path /\ ans.err = err /\ ans.node = inode
  OBVIOUS
<1>3. Go(t, q, acc, table, count) /\ Extends(table)
  BY AccessorFacts DEF Goes
<1> HIDE DEF q, ans
<1>4. Untouched(acc[Mine(t)], edits) => AnswerOK(node, ans, root)
  BY <1>2 DEF AnswerOK
<1>5. ThreadExact(node, edits, q, acc[Last(q.stack)], table)
  BY <1>1, <1>4, RestIsExact DEF Mine, Resolving, Opening
<1> QED BY <1>3, <1>5, StepIsExact

\* A call knows where it is.
LEMMA CallFacts ==
  ASSUME AccessInv, ExactInv, NEW t \in Threads, th[t].pc \in Calling
  PROVE  /\ ThreadExact(node, edits, th[t], acc[Mine(t)], table)
         /\ th[t].stack # <<>> /\ Mine(t) = Last(th[t].stack) /\ Mine(t) \in Accessors
         /\ Untouched(acc[Mine(t)], edits) =>
              /\ table[acc[Mine(t)].fd] \in Inside
              /\ CallOK(node, th[t], table[acc[Mine(t)].fd], table[Here(th[t])], table[th[t].prev])
<1>1. ThreadExact(node, edits, th[t], acc[Mine(t)], table)
  BY DEF ExactInv
<1>2. th[t].stack # <<>> /\ Mine(t) = Last(th[t].stack) /\ Mine(t) \in Accessors
  BY CallHasAccessor DEF Mine
<1>3. acc[Mine(t)].kind = "dir" => acc[Mine(t)].fd \in DOMAIN table
  BY CallHasAccessor DEF AccessorOK
<1>4. acc[Mine(t)].kind = "dir" => table[acc[Mine(t)].fd] \in Inside
  BY <1>3, AccessorFacts DEF TableOK
<1> QED BY <1>1, <1>2, <1>4 DEF ThreadExact, Untouched

--------------------------------------------------------------------------------
(* Each step keeps it.                                                     *)

\* A thread that resolves nothing, before and after
LEMMA OnwardIsExact ==
  ASSUME AccessInv, ExactInv, NEW t \in Threads,
         th[t].pc \notin Resolving, NEW s, s.pc \notin Resolving,
         s.stack = th[t].stack, s.ans = th[t].ans, s.leaf = th[t].leaf
  PROVE  ThreadExact(node, edits, s, acc[Last(s.stack)], table)
<1> DEFINE q == th[t]
           x == acc[Last(s.stack)]
<1>1. ThreadExact(node, edits, q, x, table)
  BY DEF ExactInv, Mine
<1>2. q \in ThreadStates
  BY Facts
<1>3. s.pc \notin Resolving /\ s.ans = q.ans /\ s.stack = q.stack /\ q.pc \notin Resolving /\ s.leaf = q.leaf
  OBVIOUS
<1> HIDE DEF q, x
<1>4. ~s.leaf
  BY <1>1, <1>3 DEF ThreadExact, Resolving, Opening
<1>5. \/ s.ans.op = None
      \/ s.stack # <<>> /\ (Untouched(x, edits) => AnswerOK(node, s.ans, table[x.fd]))
  BY <1>1, <1>3 DEF ThreadExact
<1>6. ThreadExact(node, edits, s, x, table)
  BY <1>3, <1>4, <1>5, RestIsExact
<1> QED BY <1>6 DEF x

\* What the steps towards the lookup are to the accessors
LEMMA TowardsIsExact ==
  ASSUME AccessInv, AccessInv', ExactInv, NEW t \in Threads, th[t].pc \notin Resolving,
         NEW s, s.pc \notin Resolving, s.stack = th[t].stack, s.ans = th[t].ans, s.leaf = th[t].leaf,
         Goes(t, s), node' = node, edits' = edits
  PROVE  ExactInv'
<1>1. Extends(table) /\ Go(t, s, acc, table, count)
  BY AccessorFacts DEF Goes
<1>2. ThreadExact(node, edits, s, acc[Last(s.stack)], table)
  BY OnwardIsExact
<1> QED BY <1>1, <1>2, StepIsExact

LEMMA EvictIsExact ==
  ASSUME AccessInv, ExactInv, NEW t \in Threads, Evict(t)
  PROVE  ExactInv'
<1> DEFINE s == [th[t] EXCEPT !.pc = IF count < Limit THEN "lookup" ELSE "wait"]
<1>1. th[t] \in ThreadStates /\ th[t].pc = "evict" /\ Goes(t, s) /\ node' = node /\ edits' = edits
  BY Facts DEF Evict, Same
<1>2. s.pc \in {"lookup", "wait"} /\ s.stack = th[t].stack /\ s.ans = th[t].ans /\ s.leaf = th[t].leaf
  BY <1>1 DEF ThreadStates
<1>3. s.pc \notin Resolving /\ th[t].pc \notin Resolving
  BY <1>1, <1>2 DEF Resolving, Opening
<1> HIDE DEF s
<1> QED BY <1>1, <1>2, <1>3, EvictKeeps, TowardsIsExact

LEMMA LockRegistryIsExact ==
  ASSUME AccessInv, ExactInv, NEW t \in Threads, LockRegistry(t)
  PROVE  ExactInv'
<1> DEFINE s == [th[t] EXCEPT !.pc = "sweep", !.it = 1]
<1>1. th[t] \in ThreadStates /\ th[t].pc = "wait" /\ Goes(t, s) /\ node' = node /\ edits' = edits
  BY Facts DEF LockRegistry
<1>2. s.pc = "sweep" /\ s.stack = th[t].stack /\ s.ans = th[t].ans /\ s.leaf = th[t].leaf
  BY <1>1 DEF ThreadStates
<1>3. s.pc \notin Resolving /\ th[t].pc \notin Resolving
  BY <1>1, <1>2 DEF Resolving, Opening
<1> HIDE DEF s
<1> QED BY <1>1, <1>2, <1>3, LockRegistryKeeps, TowardsIsExact

LEMMA SweepIsExact ==
  ASSUME AccessInv, ExactInv, NEW t \in Threads, Sweep(t)
  PROVE  ExactInv'
<1>1. th[t] \in ThreadStates /\ th[t].pc = "sweep" /\ node' = node /\ edits' = edits
  BY Facts DEF Sweep
<1>2. PICK s : Goes(t, s) /\ s \in {[th[t] EXCEPT !.pc = "lookup"], th[t],
                                    [th[t] EXCEPT !.pc = "clear", !.pin = registry[th[t].it]]}
  BY DEF Sweep
<1>3. s.pc \in {"lookup", "clear", "sweep"} /\ s.stack = th[t].stack /\ s.ans = th[t].ans /\ s.leaf = th[t].leaf
  BY <1>1, <1>2 DEF ThreadStates
<1>4. s.pc \notin Resolving /\ th[t].pc \notin Resolving
  BY <1>1, <1>3 DEF Resolving, Opening
<1> QED BY <1>1, <1>2, <1>3, <1>4, SweepKeeps, TowardsIsExact

LEMMA RegisterIsExact ==
  ASSUME AccessInv, ExactInv, NEW t \in Threads, Register(t)
  PROVE  ExactInv'
<1> DEFINE s == [th[t] EXCEPT !.pc = "idle"]
<1>1. th[t] \in ThreadStates /\ th[t].pc = "register" /\ Goes(t, s) /\ node' = node /\ edits' = edits
  BY Facts DEF Register
<1>2. s.pc = "idle" /\ s.stack = th[t].stack /\ s.ans = th[t].ans /\ s.leaf = th[t].leaf
  BY <1>1 DEF ThreadStates
<1>3. s.pc \notin Resolving /\ th[t].pc \notin Resolving
  BY <1>1, <1>2 DEF Resolving, Opening
<1> HIDE DEF s
<1> QED BY <1>1, <1>2, <1>3, RegisterKeeps, TowardsIsExact

\* Another thread's cache is emptied in the middle of its call.
LEMMA ClearIsExact ==
  ASSUME AccessInv, ExactInv, NEW t \in Threads, Clear(t)
  PROVE  ExactInv'
<1> DEFINE s == [th[t] EXCEPT !.pc = "sweep", !.it = @ + 1, !.pin = <<>>]
           a == th[t].pin
           accs == [acc EXCEPT ![a].cache = <<>>]
           n == count - Len(acc[a].cache)
<1>1. th[t] \in ThreadStates /\ th[t].pc = "clear" /\ Go(t, s, accs, table, n) /\ node' = node /\ edits' = edits
  BY Facts DEF Clear, Same
<1>2. s.pc = "sweep" /\ s.stack = th[t].stack /\ s.ans = th[t].ans /\ s.leaf = th[t].leaf
  BY <1>1 DEF ThreadStates
<1>3. s.pc \notin Resolving /\ th[t].pc \notin Resolving /\ th[t].pc \in Calling
  BY <1>1, <1>2 DEF Resolving, Opening, Calling, PCs
<1>4. a \in Accessors
  BY <1>1, Facts DEF ThreadStates, UseOK
<1>5. EntriesLead(acc[a], <<>>)
  BY DEF EntriesLead
<1> HIDE DEF s, a
<1>6. ThreadExact(node, edits, s, acc[Last(s.stack)], table)
  BY <1>2, <1>3, OnwardIsExact
<1>7. Last(s.stack) \in Accessors
  BY <1>2, <1>3, CallHasAccessor DEF Mine
<1> DEFINE c == <<>>
<1> HIDE DEF accs, n, c
<1>8. accs = [acc EXCEPT ![a].cache = c] /\ EntriesLead(acc[a], c)
  BY <1>5 DEF accs, c
<1>9. AccessInv'
  BY ClearKeeps
<1> QED BY <1>1, <1>4, <1>6, <1>7, <1>8, <1>9, CacheIsExact

\* A thread has nothing to say.
LEMMA SilentIsExact ==
  ASSUME AccessInv, AccessInv', ExactInv, NEW t \in Threads,
         NEW q, q.pc \notin Resolving, ~q.leaf, q.ans.op = None,
         Goes(t, q), node' = node, edits' = edits
  PROVE  ExactInv'
<1>1. Extends(table) /\ Go(t, q, acc, table, count)
  BY AccessorFacts DEF Goes
<1>2. ThreadExact(node, edits, q, acc[Last(q.stack)], table)
  BY RestIsExact
<1> QED BY <1>1, <1>2, StepIsExact

\* A thread has an accessor more, made of the tree as it is.
LEMMA PushIsExact ==
  ASSUME AccessInv, AccessInv', ExactInv, NEW t \in Threads,
         NEW a \in Accessors, a[1] = t, NEW stack \in Seq(Accessors),
         NEW x, x.cache = <<>>, x.kind = "dir" => x.since = edits,
         NEW q, q.stack = Append(stack, a), q.pc \notin Resolving, ~q.leaf,
         q.ans.op = None \/ x.kind # "dir",
         NEW tab, Extends(tab), NEW accs, accs = [acc EXCEPT ![a] = x],
         Go(t, q, accs, tab, count), node' = node, edits' = edits
  PROVE  ExactInv'
<1>1. acc \in [Accessors -> AccessorStates] /\ edits \in Nat
  BY AccessorFacts DEF World
<1>2. Last(q.stack) = a /\ q.stack # <<>>
  <2>1. Append(stack, a) # <<>> /\ Append(stack, a)[Len(Append(stack, a))] = a
    OBVIOUS
  <2> QED BY <2>1 DEF Last
<1>3. accs[Last(q.stack)] = x
  BY <1>1, <1>2
<1>4. AccessorExact(node, edits, x, tab)
  BY <1>1 DEF AccessorExact
<1>5. ThreadExact(node, edits, q, x, tab)
  BY <1>2, RestIsExact DEF Untouched
<1>6. ThreadExact(node, edits, q, accs[Last(q.stack)], tab)
  BY <1>3, <1>5
<1> QED BY <1>4, <1>6, ChangeIsExact

\* A thread between two calls
LEMMA RestIsLeafless ==
  ASSUME AccessInv, ExactInv, NEW t \in Threads, th[t].pc \in {"idle", "readlink", "register"}
  PROVE  ~th[t].leaf
BY DEF ExactInv, ThreadExact, Opening

\* The innermost accessor is gone, and the last answer with it.
LEMMA DropIsExact ==
  ASSUME AccessInv, ExactInv, NEW t \in Threads, Drop(t)
  PROVE  ExactInv'
<1> DEFINE s == th[t]
           q == [s EXCEPT !.stack = Front(@), !.ans = NoAnswer]
<1>1. s.pc = "idle" /\ s \in ThreadStates /\ Goes(t, q) /\ node' = node /\ edits' = edits
  BY Facts DEF Drop, Same
<1>2. ~s.leaf
  BY <1>1, RestIsLeafless
<1>3. q.pc = "idle" /\ q.leaf = s.leaf /\ q.ans = NoAnswer
  BY <1>1 DEF ThreadStates
<1>4. q.pc \notin Resolving /\ q.ans.op = None
  BY <1>3 DEF Resolving, Opening, NoAnswer
<1> HIDE DEF q
<1> QED BY <1>1, <1>2, <1>3, <1>4, DropKeeps, SilentIsExact

\* A new accessor has an empty cache.
LEMMA MakeIsExact ==
  ASSUME AccessInv, ExactInv, NEW t \in Threads, Make(t)
  PROVE  ExactInv'
<1> DEFINE s == th[t]
           r == Head(s.todo).name
           m == s.made + 1
           a == <<t, m>>
           o == OpenAt(node, Top, r, FALSE)
           tail == Tail(s.todo)
           made == [s EXCEPT !.made = m, !.todo = tail, !.ans = NoAnswer]
           fd == NewFd(table)
           tab == Open(table, o.node)
           dir == DirAccessor(fd, CacheSize > 0, None)
           file == [NoAccessor EXCEPT !.kind = "file", !.fd = fd, !.size = node[o.node].size, !.since = edits]
           stack == Append(s.stack, a)
           link == [made EXCEPT !.pc = "readlink", !.path = <<r>>]
           throw == [made EXCEPT !.todo = <<>>]
           reg == [made EXCEPT !.pc = "register", !.stack = stack]
           plain == [made EXCEPT !.stack = stack]
<1>1. s.pc = "idle" /\ s.todo # <<>> /\ node' = node /\ edits' = edits
  BY DEF Make, Same
<1>2. /\ s \in ThreadStates /\ s.made \in Nat /\ s.todo \in Seq(Requests)
      /\ s.made + Len(s.todo) <= MaxMade /\ s.stack \in Seq(Accessors) /\ Len(s.todo) \in Nat
  BY <1>1, RestFacts
<1>3. ~s.leaf
  BY <1>1, RestIsLeafless
<1>4. a \in Accessors /\ a[1] = t
  <2>1. Len(s.todo) > 0
    BY <1>1, <1>2
  <2>2. m \in 1 .. MaxMade
    BY <1>2, <2>1, SizesAssumption
  <2> QED BY <2>2 DEF Accessors
<1>5. o.err = "none" => o.node \in Inside
  <2>1. Top \in Inside \cup {None} /\ node \in Trees
    BY TreesAssumption, AccessorFacts DEF Inside, World
  <2> QED BY <2>1, OpenStays
<1>6. \/ Goes(t, link)
      \/ o.err = "none" /\ Go(t, reg, [acc EXCEPT ![a] = dir], tab, count)
      \/ o.err = "none" /\ Go(t, plain, [acc EXCEPT ![a] = file], tab, count)
      \/ Goes(t, throw)
  BY DEF Make
<1>7. AccessInv'
  BY MakeKeeps
<1>8. o.err = "none" => Extends(tab)
  BY <1>5, OpenExtends
<1>9. /\ dir.cache = <<>> /\ dir.kind = "dir" /\ dir.since = edits
      /\ file.cache = <<>> /\ file.kind = "file"
  BY DEF DirAccessor, NoAccessor
<1> HIDE DEF m, tail, o, fd, tab, dir, file, r, a
<1>10. made.pc = "idle" /\ ~made.leaf /\ made.ans = NoAnswer
  BY <1>1, <1>2, <1>3 DEF ThreadStates
<1>11. \A k : k = "idle" \/ k = "readlink" \/ k = "register" => k \notin Resolving
  BY DEF Resolving, Opening
<1>12. NoAnswer.op = None
  BY DEF NoAnswer
<1>13. DOMAIN made = DOMAIN s /\ {"pc", "path", "leaf", "ans", "stack", "todo"} \subseteq DOMAIN made
  BY <1>2 DEF ThreadStates
<1> HIDE DEF made, stack
<1>14. CASE Goes(t, link)
  <2>1. link.pc = "readlink" /\ link.leaf = made.leaf /\ link.ans = made.ans
    BY <1>13
  <2> HIDE DEF link
  <2> QED BY <1>1, <1>7, <1>10, <1>11, <1>12, <1>14, <2>1, SilentIsExact
<1>15. CASE Goes(t, throw)
  <2>1. throw.pc = made.pc /\ throw.leaf = made.leaf /\ throw.ans = made.ans
    BY <1>13
  <2> HIDE DEF throw
  <2> QED BY <1>1, <1>7, <1>10, <1>11, <1>12, <1>15, <2>1, SilentIsExact
<1>16. CASE o.err = "none" /\ Go(t, reg, [acc EXCEPT ![a] = dir], tab, count)
  <2>1. reg.pc = "register" /\ reg.leaf = made.leaf /\ reg.ans = made.ans /\ reg.stack = stack
    BY <1>13
  <2> DEFINE accs == [acc EXCEPT ![a] = dir]
  <2>2. Go(t, reg, accs, tab, count) /\ accs = [acc EXCEPT ![a] = dir] /\ reg.stack = Append(s.stack, a)
    BY <1>16, <2>1 DEF stack
  <2> HIDE DEF reg, accs, s
  <2> QED BY <1>1, <1>2, <1>4, <1>7, <1>8, <1>9, <1>10, <1>11, <1>12, <1>16, <2>1, <2>2, PushIsExact
<1>17. CASE o.err = "none" /\ Go(t, plain, [acc EXCEPT ![a] = file], tab, count)
  <2>1. plain.pc = made.pc /\ plain.leaf = made.leaf /\ plain.ans = made.ans /\ plain.stack = stack
    BY <1>13
  <2> DEFINE accs == [acc EXCEPT ![a] = file]
  <2>2. Go(t, plain, accs, tab, count) /\ accs = [acc EXCEPT ![a] = file] /\ plain.stack = Append(s.stack, a)
    BY <1>17, <2>1 DEF stack
  <2>3. file.kind # "dir"
    BY <1>9
  <2> HIDE DEF plain, accs, s
  <2> QED BY <1>1, <1>2, <1>4, <1>7, <1>8, <1>9, <1>10, <1>11, <1>12, <1>17, <2>1, <2>2, <2>3, PushIsExact
<1> QED BY <1>6, <1>14, <1>15, <1>16, <1>17

\* An accessor for a symlink resolves nothing.
LEMMA MakeLinkIsExact ==
  ASSUME AccessInv, ExactInv, NEW t \in Threads, MakeLink(t)
  PROVE  ExactInv'
<1> DEFINE s == th[t]
           a == <<t, s.made>>
           back == [s EXCEPT !.pc = "idle", !.path = <<>>]
           stack == Append(s.stack, a)
           x == [NoAccessor EXCEPT !.kind = "link", !.since = edits]
           throw == [back EXCEPT !.todo = <<>>]
           q == [back EXCEPT !.stack = stack]
           accs == [acc EXCEPT ![a] = x]
<1>1. s.pc = "readlink" /\ node' = node /\ edits' = edits
  BY DEF MakeLink, Same
<1>2. /\ s \in ThreadStates /\ s.made \in Nat /\ s.stack \in Seq(Accessors) /\ StackOK(t, s, acc)
      /\ s.todo \in Seq(Requests) /\ Len(s.todo) \in Nat /\ s.made + Len(s.todo) <= MaxMade
  BY <1>1, RestFacts
<1>3. ~s.leaf
  BY <1>1, RestIsLeafless
<1>4. a \in Accessors /\ a[1] = t
  <2>1. s.made \in 1 .. MaxMade
    BY <1>1, <1>2, SizesAssumption DEF StackOK
  <2> QED BY <2>1 DEF Accessors
<1>5. Go(t, q, accs, table, count) \/ Goes(t, throw)
  BY <1>2 DEF MakeLink, ThreadStates
<1>6. x.kind # "dir" /\ x.cache = <<>>
  BY DEF NoAccessor
<1>7. back.pc = "idle" /\ back.leaf = s.leaf /\ back.ans = s.ans /\ back.stack = s.stack
  BY <1>2 DEF ThreadStates
<1>8. {"stack", "todo", "leaf", "ans", "pc"} \subseteq DOMAIN back
  BY <1>2 DEF ThreadStates
<1>9. AccessInv' /\ Extends(table)
  BY MakeLinkKeeps, AccessorFacts
<1>10. "idle" \notin Resolving /\ "readlink" \notin Resolving
  BY DEF Resolving, Opening
<1> HIDE DEF back, x
<1>11. CASE Go(t, q, accs, table, count)
  <2>1. q.pc = "idle" /\ ~q.leaf /\ q.stack = Append(s.stack, a) /\ accs = [acc EXCEPT ![a] = x]
    BY <1>3, <1>7, <1>8
  <2> HIDE DEF q, accs, s, a
  <2> QED BY <1>1, <1>2, <1>4, <1>6, <1>9, <1>10, <1>11, <2>1, PushIsExact
<1>12. CASE Goes(t, throw)
  <2>1. throw.pc = "idle" /\ throw.leaf = s.leaf /\ throw.ans = s.ans /\ throw.stack = s.stack
    BY <1>7, <1>8
  <2> HIDE DEF throw
  <2> QED BY <1>1, <1>9, <1>10, <1>12, <2>1, TowardsIsExact
<1> QED BY <1>5, <1>11, <1>12

\* A call that uses one descriptor
LEMMA HereIsDir ==
  ASSUME AccessInv, NEW t \in Threads, th[t].pc \in {"upsert", "leaf", "read", "list"}
  PROVE  /\ th[t].cur = 0 /\ Here(th[t]) = th[t].dir /\ At(th[t].dir) = table[Here(th[t])]
         /\ At(th[t].dir) \in Inside /\ th[t].pc \in Calling /\ th[t].dir \in DOMAIN table
<1>1. UseOK(th[t], acc[Mine(t)])
  BY Facts
<1>2. th[t].cur = 0 /\ th[t].pc \in Resolving /\ th[t].pc \in Calling
  BY <1>1 DEF UseOK, Resolving, Calling, PCs
<1>3. th[t].dir # 0 /\ th[t].dir \in DOMAIN table \cup {0} /\ At(th[t].dir) \in Inside
  BY <1>2, DirStays
<1> QED BY <1>2, <1>3 DEF Here, At

\* The last name is looked at in its parent.
LEMMA LeafIsExact ==
  ASSUME AccessInv, ExactInv, NEW t \in Threads, Leaf(t)
  PROVE  ExactInv'
<1> DEFINE s == th[t]
           x == acc[Mine(t)]
           root == table[x.fd]
           at == At(s.dir)
           i == Lookup(node, at, Last(s.path))
           err == CASE i = None -> IF s.op = "lstat" THEN "missing" ELSE "SysError"
                    [] i # None /\ s.op = "readLink" /\ node[i].type # "link" -> "NotASymlink"
                    [] OTHER -> "ok"
           inode == IF err = "ok" THEN i ELSE None
           up == Directory(node, root, Parent(s.path))
           type == TypeOf(node, i)
           e == Reference(node, root, s.op, s.path)
<1>1. s.pc = "leaf" /\ Goes(t, Answer(s, err, inode)) /\ node' = node /\ edits' = edits
  BY DEF Leaf, Same
<1>2. at = table[Here(s)] /\ at \in Inside /\ s.pc \in Calling
  BY <1>1, HereIsDir
<1>3. /\ ThreadExact(node, edits, s, x, table) /\ s.stack # <<>>
      /\ Untouched(x, edits) => CallOK(node, s, root, at, table[s.prev])
  BY <1>2, CallFacts
<1>4. s.op \in {"lstat", "readLink"}
  BY <1>1, <1>3 DEF ThreadExact
<1>5. node \in Trees
  BY AccessorFacts DEF World
<1>6. i \in Inside \cup {None} /\ (i # None => node[i].type # None)
  <2>1. i \in Inside \cup {None}
    BY <1>2, <1>5, LookupStays
  <2> QED BY <1>5, <2>1, TreesAssumption DEF Inside
<1>7. ASSUME Untouched(x, edits)
      PROVE  /\ err = e
             /\ err = "ok" => inode = Lookup(node, OpenAt2(node, root, Parent(s.path), TRUE).node, Last(s.path))
  <2>1. NameOK(node, s, root, at)
    BY <1>1, <1>3, <1>7 DEF CallOK
  <2>2. up = [err |-> "none", node |-> at]
    BY <2>1 DEF NameOK, Leads, Directory
  <2>3. up.err = "none" /\ up.node = at /\ i = Lookup(node, up.node, Last(s.path))
    BY <2>2
  <2>4. /\ s.op = "lstat" => e = IF i = None THEN "missing" ELSE "ok"
        /\ s.op = "readLink" => /\ type = None => e = "SysError"
                                /\ type = "link" => e = "ok"
                                /\ type \notin {None, "link"} => e = "NotASymlink"
    <3> HIDE DEF up, i, type, e
    <3>1. up = Directory(node, root, Parent(s.path)) /\ type = TypeOf(node, i) /\ e = Reference(node, root, s.op, s.path)
      BY DEF up, type, e
    <3> HIDE DEF s, root
    <3> QED BY <2>3, <3>1, ReferenceOfLast
  <2>5. OpenAt2(node, root, Parent(s.path), TRUE).node = up.node
    BY DEF Directory
  <2>6. type = IF i = None THEN None ELSE node[i].type
    BY DEF TypeOf
  <2> HIDE DEF up, e, i, type, s, at, root
  <2>7. err = e
    <3>1. CASE i = None
      BY <1>4, <2>4, <2>6, <3>1
    <3>2. CASE i # None
      <4>1. type = node[i].type /\ type # None
        BY <1>6, <2>6, <3>2
      <4>2. CASE s.op = "lstat"
        BY <2>4, <3>2, <4>2
      <4>3. CASE s.op = "readLink"
        <5>1. type = "link" => err = "ok"
          BY <3>2, <4>1, <4>3
        <5>2. type # "link" => err = "NotASymlink"
          BY <3>2, <4>1, <4>3
        <5> QED BY <2>4, <4>1, <4>3, <5>1, <5>2
      <4> QED BY <1>4, <4>2, <4>3
    <3> QED BY <3>1, <3>2
  <2>8. err = "ok" => inode = Lookup(node, up.node, Last(s.path))
    BY <2>3
  <2> QED BY <2>5, <2>7, <2>8
<1>8. AccessInv'
  BY LeafKeeps
<1> DEFINE q == s
<1>9. q.stack = th[t].stack /\ Goes(t, Answer(q, err, inode))
  BY <1>1
<1>10. root = table[acc[Mine(t)].fd] /\ q = s
  OBVIOUS
<1> HIDE DEF err, inode, e, root, x, q
<1>11. Untouched(acc[Mine(t)], edits) /\ q.path # <<>> =>
        /\ err = Reference(node, root, q.op, q.path)
        /\ err = "ok" => inode = Lookup(node, OpenAt2(node, root, Parent(q.path), TRUE).node, Last(q.path))
  BY <1>7, <1>10 DEF x, e
<1> QED BY <1>1, <1>3, <1>8, <1>9, <1>10, <1>11, AnswerIsExact

\* What is found is what the reference answers with.
LEMMA FoundIsReference ==
  ASSUME NEW tree, NEW s, NEW root, NEW at \in Inside, FoundOK(tree, s, root, at),
         s.op \notin {"lstat", "readLink"}
  PROVE  /\ "ok" = Reference(tree, root, s.op, s.path)
         /\ at = Lookup(tree, OpenAt2(tree, root, Parent(s.path), TRUE).node, Last(s.path))
<1> DEFINE up == Directory(tree, root, Parent(s.path))
           i == Lookup(tree, up.node, Last(s.path))
           type == TypeOf(tree, i)
           e == Reference(tree, root, s.op, s.path)
<1>1. up.err = "none" /\ i = at /\ tree[at].type = IF s.op = "readFile" THEN "file" ELSE "dir"
  BY DEF FoundOK, Directory
<1>2. at # None
  BY TreesAssumption DEF Inside
<1>3. type = tree[at].type
  BY <1>1, <1>2 DEF TypeOf
<1>4. /\ s.op = "readFile" => (type = "file" => e = "ok")
      /\ s.op \notin {"lstat", "readFile", "readLink"} => (type = "dir" => e = "ok")
  <2> DEFINE op == s.op
             path == s.path
  <2>1. up = Directory(tree, root, Parent(path)) /\ type = TypeOf(tree, i) /\ e = Reference(tree, root, op, path)
        /\ i = Lookup(tree, up.node, Last(path)) /\ up.err = "none"
    BY <1>1
  <2> HIDE DEF up, i, type, e, op, path
  <2>2. /\ op = "readFile" => (type = "file" => e = "ok")
        /\ op \notin {"lstat", "readFile", "readLink"} => (type = "dir" => e = "ok")
    BY <2>1, ReferenceOfLast
  <2> QED BY <2>2 DEF op
<1> HIDE DEF type
<1>5. e = "ok"
  BY <1>1, <1>3, <1>4
<1> QED BY <1>1, <1>5 DEF Directory

\* The end of a call that has found what it wanted
LEMMA DoneIsExact ==
  ASSUME AccessInv, AccessInv', ExactInv, NEW t \in Threads, th[t].pc \in {"read", "list"},
         Goes(t, Answer(th[t], "ok", At(th[t].dir))), node' = node, edits' = edits
  PROVE  ExactInv'
<1> DEFINE s == th[t]
           x == acc[Mine(t)]
           root == table[x.fd]
           at == At(s.dir)
<1>1. at = table[Here(s)] /\ at \in Inside /\ s.pc \in Calling
  BY HereIsDir
<1>2. /\ ThreadExact(node, edits, s, x, table) /\ s.stack # <<>>
      /\ Untouched(x, edits) => CallOK(node, s, root, at, table[s.prev])
  BY <1>1, CallFacts
<1>3. s.op \notin {"lstat", "readLink"}
  BY <1>2 DEF ThreadExact
<1> DEFINE e == "ok"
<1>4. root = table[acc[Mine(t)].fd] /\ s.stack = th[t].stack /\ Goes(t, Answer(s, e, at)) /\ e = "ok"
  OBVIOUS
<1>5. ASSUME Untouched(x, edits), s.path # <<>>
      PROVE  /\ e = Reference(node, root, s.op, s.path)
             /\ at = Lookup(node, OpenAt2(node, root, Parent(s.path), TRUE).node, Last(s.path))
  <2>1. FoundOK(node, s, root, at)
    BY <1>2, <1>5 DEF CallOK
  <2> HIDE DEF s, root, at
  <2> QED BY <1>1, <1>3, <2>1, FoundIsReference
<1> HIDE DEF e, root, at
<1>6. Untouched(acc[Mine(t)], edits) /\ s.path # <<>> =>
        /\ e = Reference(node, root, s.op, s.path)
        /\ e = "ok" => at = Lookup(node, OpenAt2(node, root, Parent(s.path), TRUE).node, Last(s.path))
  BY <1>5
<1> HIDE DEF x, s
<1> QED BY <1>2, <1>4, <1>6, AnswerIsExact

\* A file that is as it was gives all its bytes.
LEMMA ReadIsExact ==
  ASSUME AccessInv, ExactInv, NEW t \in Threads, Read(t)
  PROVE  ExactInv'
<1> DEFINE s == th[t]
           x == acc[Mine(t)]
           root == table[x.fd]
           at == At(s.dir)
           n == Min({s.size - s.got, Chunk, node[at].size - s.got})
           q == [s EXCEPT !.got = @ + n]
<1>1. s.pc = "read" /\ node' = node /\ edits' = edits
  BY DEF Read, Same
<1>2. at = table[Here(s)] /\ at \in Inside /\ s.pc \in Calling
  BY <1>1, HereIsDir
<1>3. /\ ThreadExact(node, edits, s, x, table) /\ s.stack # <<>>
      /\ Untouched(x, edits) => CallOK(node, s, root, at, table[s.prev])
  BY <1>2, CallFacts
<1>4. s \in ThreadStates /\ AccessInv'
  BY Facts, ReadKeeps
<1>5. \/ Goes(t, Answer(s, "ok", at))
      \/ Goes(t, q)
      \/ s.got < s.size /\ n <= 0 /\ Goes(t, Answer(s, "EndOfFile", None))
  <2>1. /\ s.got \in Nat /\ s.size \in Nat /\ s.got <= s.size /\ node[at].size \in Nat
        /\ Chunk \in Nat
    BY <1>2, <1>4, Facts, AccessorFacts, TreesAssumption, SizesAssumption
    DEF ThreadStates, ReadOK, World, Inside
  <2> DEFINE b == s.size - s.got
             c == node[at].size - s.got
  <2>2. b \in Int /\ c \in Int
    BY <2>1
  <2>3. n \in Int
    <3>1. Chunk \in Int
      BY <2>1
    <3> HIDE DEF b, c
    <3>2. Min({b, Chunk, c}) \in Int /\ Min({b, Chunk, c}) <= b
      BY <2>2, <3>1, MinOfThree
    <3> QED BY <3>2 DEF b, c
  <2>4. (s.got = s.size \/ s.got < s.size) /\ (n > 0 \/ n <= 0)
    <3> HIDE DEF n
    <3> QED BY <2>1, <2>3
  <2> QED BY <2>4 DEF Read
<1>6. CASE Goes(t, Answer(s, "ok", at))
  BY <1>1, <1>4, <1>6, DoneIsExact
<1>7. CASE Goes(t, q)
  <2>1. /\ q.pc = s.pc /\ q.stack = s.stack /\ q.ans = s.ans /\ q.leaf = s.leaf /\ q.op = s.op /\ q.path = s.path
        /\ q.cur = s.cur /\ q.dir = s.dir /\ q.prev = s.prev /\ q.size = s.size
    BY <1>4 DEF ThreadStates
  <2>2. Here(q) = Here(s)
    BY <2>1 DEF Here
  <2>3. Go(t, q, acc, table, count) /\ Extends(table)
    BY <1>7, AccessorFacts DEF Goes
  <2> HIDE DEF q, x
  <2>4. ThreadExact(node, edits, q, x, table)
    <3>1. CallOK(node, s, table[x.fd], table[Here(s)], table[s.prev])
            => CallOK(node, q, table[x.fd], table[Here(q)], table[q.prev])
      <4> HIDE DEF s
      <4> QED BY <1>1, <2>1, <2>2 DEF CallOK, FoundOK, Opening
    <3> HIDE DEF s
    <3> QED BY <1>3, <2>1, <3>1 DEF ThreadExact
  <2>5. ThreadExact(node, edits, q, acc[Last(q.stack)], table)
    BY <2>1, <2>4 DEF x, Mine
  <2> QED BY <1>1, <1>4, <2>3, <2>5, StepIsExact
<1>8. CASE s.got < s.size /\ n <= 0 /\ Goes(t, Answer(s, "EndOfFile", None))
  <2>1. ~(Untouched(x, edits) /\ s.path # <<>>)
    <3> SUFFICES ASSUME Untouched(x, edits), s.path # <<>> PROVE FALSE
      OBVIOUS
    <3>1. FoundOK(node, s, root, at) /\ s.op = "readFile"
      BY <1>1, <1>3 DEF CallOK, ThreadExact
    <3>2. node[at].size = s.size
      BY <3>1 DEF FoundOK
    <3>3. s.size \in Nat /\ s.got \in Nat /\ Chunk \in Nat \ {0}
      BY <1>4, SizesAssumption DEF ThreadStates
    <3> DEFINE d == s.size - s.got
    <3>4. d \in Int /\ d > 0 /\ n = Min({d, Chunk, d})
      BY <1>8, <3>2, <3>3
    <3>5. Min({d, Chunk, d}) \in {d, Chunk}
      <4> DEFINE S == {d, Chunk, d}
      <4>1. \E m \in S : \A k \in S : m <= k
        BY <3>3, <3>4
      <4>2. Min(S) \in S
        BY <4>1 DEF Min
      <4> QED BY <4>2
    <3> HIDE DEF d
    <3> QED BY <1>8, <3>3, <3>4, <3>5
  <2> DEFINE e == "EndOfFile"
             inode == None
  <2>2. root = table[acc[Mine(t)].fd] /\ s.stack = th[t].stack /\ Goes(t, Answer(s, e, inode))
    BY <1>8
  <2> HIDE DEF e, inode, root
  <2>3. Untouched(acc[Mine(t)], edits) /\ s.path # <<>> =>
          /\ e = Reference(node, root, s.op, s.path)
          /\ e = "ok" => inode = Lookup(node, OpenAt2(node, root, Parent(s.path), TRUE).node, Last(s.path))
    BY <2>1
  <2> HIDE DEF x, s, n, q, at
  <2> QED BY <1>1, <1>3, <1>4, <2>2, <2>3, AnswerIsExact
<1> QED BY <1>5, <1>6, <1>7, <1>8

\* A listing, or an accessor for the directory
LEMMA ListIsExact ==
  ASSUME AccessInv, ExactInv, NEW t \in Threads, List(t)
  PROVE  ExactInv'
<1> DEFINE s == th[t]
           m == s.made + 1
           a == <<t, m>>
           done == Answer(s, "ok", At(s.dir))
           stack == Append(s.stack, a)
           q == [done EXCEPT !.made = m, !.stack = stack, !.ans = NoAnswer]
           x == DirAccessor(s.dir, FALSE, At(s.dir))
           accs == [acc EXCEPT ![a] = x]
<1>1. s.pc = "list" /\ node' = node /\ edits' = edits
  BY DEF List, Same
<1>2. AccessInv' /\ Extends(table)
  BY ListKeeps, AccessorFacts
<1>3. done.made = s.made /\ done.stack = s.stack /\ done.pc = "idle" /\ ~done.leaf
  BY DEF Answer, NewThread
<1>4. Goes(t, done) \/ Go(t, q, accs, table, count)
  BY <1>3 DEF List
<1>5. CASE Goes(t, done)
  BY <1>1, <1>2, <1>5, DoneIsExact
<1>6. CASE Go(t, q, accs, table, count)
  <2>1. s \in ThreadStates /\ StackOK(t, s, acc) /\ s.pc \in Calling
    BY <1>1, Facts DEF Calling, PCs
  <2>2. /\ s.made \in Nat /\ Len(s.todo) \in Nat /\ s.stack \in Seq(Accessors)
        /\ s.made + Len(s.todo) + 1 <= MaxMade
    BY <1>1, <2>1 DEF StackOK, ThreadStates
  <2>3. a \in Accessors /\ a[1] = t
    <3>1. m \in 1 .. MaxMade
      BY <2>2, SizesAssumption
    <3> QED BY <3>1 DEF Accessors
  <2>4. x.cache = <<>> /\ x.since = edits
    BY DEF DirAccessor, NoAccessor
  <2>5. q.pc = "idle" /\ ~q.leaf /\ q.ans = NoAnswer /\ q.stack = stack
    BY DEF Answer, NewThread
  <2>6. q.pc \notin Resolving /\ q.ans.op = None
    BY <2>5 DEF Resolving, Opening, NoAnswer
  <2>7. accs = [acc EXCEPT ![a] = x] /\ q.stack = Append(s.stack, a)
    BY <2>5
  <2> HIDE DEF q, x, accs, s, a
  <2> QED BY <1>1, <1>2, <1>6, <2>2, <2>3, <2>4, <2>5, <2>6, <2>7, PushIsExact
<1> QED BY <1>4, <1>5, <1>6

\* A call that works on the last name wants to read or to list it.
Apt(s) ==
  /\ s.leaf => s.pc \in Opening \cup {"read", "list"}
  /\ s.pc \in {"read", "list"} => (s.op = "readFile" <=> s.pc = "read")
  /\ s.leaf \/ s.pc \in {"read", "list"} => s.op \notin {"lstat", "readLink"}
  /\ s.pc = "leaf" => s.op \in {"lstat", "readLink"}

\* A call goes on, perhaps with a descriptor more.
LEMMA CallThread ==
  ASSUME AccessInv, ExactInv, NEW t \in Threads, th[t].pc \in Calling,
         NEW q, q.stack = th[t].stack, q.ans = th[t].ans, Apt(q), NEW tab, Extends(tab),
         NEW root, root = table[acc[Mine(t)].fd],
         NEW at, at = tab[Here(q)], NEW before, before = tab[q.prev],
         Untouched(acc[Mine(t)], edits) => CallOK(node, q, root, at, before)
  PROVE  ThreadExact(node, edits, q, acc[Last(q.stack)], tab)
<1> DEFINE x == acc[Mine(t)]
           s == th[t]
<1>1. ThreadExact(node, edits, s, x, table) /\ s.stack # <<>> /\ Mine(t) = Last(s.stack)
  BY CallFacts
<1>2. AccessorOK(x, table) /\ x.fd \in DOMAIN table \cup {0}
  BY CallHasAccessor
<1>3. q.stack = s.stack /\ q.ans = s.ans /\ (Untouched(x, edits) => CallOK(node, q, root, at, before))
      /\ root = table[x.fd] /\ x = acc[Last(q.stack)]
  BY <1>1
<1> HIDE DEF x, s
<1>4. x.kind = "dir" => tab[x.fd] = root
  BY <1>2, <1>3 DEF AccessorOK, Extends
<1>5. ThreadExact(node, edits, q, x, tab)
  BY <1>1, <1>3, <1>4 DEF ThreadExact, Apt, Untouched
<1> QED BY <1>3, <1>5

\* The step of a call that leaves the accessors alone
LEMMA InCallIsExact ==
  ASSUME AccessInv, AccessInv', ExactInv, NEW t \in Threads, th[t].pc \in Calling,
         NEW q, q.stack = th[t].stack, q.ans = th[t].ans, Apt(q), NEW tab, Extends(tab),
         NEW root, root = table[acc[Mine(t)].fd],
         NEW at, at = tab[Here(q)], NEW before, before = tab[q.prev],
         Untouched(acc[Mine(t)], edits) => CallOK(node, q, root, at, before),
         Go(t, q, acc, tab, count), node' = node, edits' = edits
  PROVE  ExactInv'
<1>1. ThreadExact(node, edits, q, acc[Last(q.stack)], tab)
  BY CallThread
<1> QED BY <1>1, StepIsExact

\* What is known of a thread in a call
LEMMA CallIsApt ==
  ASSUME AccessInv, ExactInv, NEW t \in Threads
  PROVE  Apt(th[t])
BY DEF ExactInv, ThreadExact, Apt

\* A resolution has ended with r.
LEMMA OpenedIsExact ==
  ASSUME AccessInv, AccessInv', ExactInv, NEW t \in Threads, th[t].pc \in {"open", "walk", "why"},
         NEW r, r.err = "none" => r.node \in Inside, Opened(t, r), node' = node, edits' = edits,
         NEW root, root = table[acc[Mine(t)].fd],
         Untouched(acc[Mine(t)], edits) =>
           r \in Resolved /\ root \in Inside /\ th[t].path # <<>> /\ Ended(node, th[t], root, r)
  PROVE  ExactInv'
<1> DEFINE s == th[t]
           x == acc[Mine(t)]
           fd == NewFd(table)
           on == [s EXCEPT !.dir = fd, !.own = @ \cup {fd}, !.cur = 0]
           tab == Open(table, r.node)
           old == Untouched(x, edits)
           up == [on EXCEPT !.pc = "upsert"]
           read == [on EXCEPT !.pc = "read", !.size = node[r.node].size]
           list == [on EXCEPT !.pc = "list"]
<1>1. /\ s \in ThreadStates /\ s.pc \in Calling /\ s.stack # <<>> /\ Apt(s) /\ node \in Trees
      /\ s.leaf \in BOOLEAN
  BY Facts, CallIsApt, CallHasAccessor, AccessorFacts DEF Calling, PCs, World, ThreadStates
<1>2. \/ \E err : Reports(node, s, r, err) /\ Goes(t, Answer(s, err, None))
      \/ r.err = "none" /\ ~s.leaf /\ Go(t, up, acc, tab, count)
      \/ /\ r.err = "none" /\ s.leaf /\ s.op = "readFile" /\ node[r.node].type = "file"
         /\ Go(t, read, acc, tab, count)
      \/ r.err = "none" /\ s.leaf /\ s.op # "readFile" /\ Go(t, list, acc, tab, count)
  BY <1>1 DEF Opened, Reports
<1>3. r.err = "none" => Extends(tab) /\ fd \in Nat \ {0} /\ tab[fd] = r.node
  BY OpenExtends
<1>4. s.leaf => s.op \notin {"lstat", "readLink"}
  BY <1>1 DEF Apt
<1>5. old => r \in Resolved /\ root \in Inside /\ s.path # <<>> /\ Ended(node, s, root, r)
  OBVIOUS
<1>6. \A p : p \in {"open", "walk", "why", "callback"} <=> p \in Opening
  BY DEF Opening
<1>7. /\ on.stack = s.stack /\ on.ans = s.ans /\ on.leaf = s.leaf /\ on.op = s.op /\ on.path = s.path
      /\ on.dir = fd /\ on.cur = 0 /\ on.prev = s.prev
      /\ DOMAIN on = DOMAIN s /\ {"pc", "size"} \subseteq DOMAIN on
  BY <1>1 DEF ThreadStates
<1> HIDE DEF on, tab, fd
<1>8. CASE \E err : Reports(node, s, r, err) /\ Goes(t, Answer(s, err, None))
  <2>1. PICK err : Reports(node, s, r, err) /\ Goes(t, Answer(s, err, None))
    BY <1>8
  <2> DEFINE inode == None
  <2>2. old => err # "ok" /\ err = Reference(node, root, s.op, s.path)
    <3> SUFFICES ASSUME old PROVE err # "ok" /\ err = Reference(node, root, s.op, s.path)
      OBVIOUS
    <3>1. r \in Resolved /\ root \in Inside /\ s.path # <<>> /\ Ended(node, s, root, r)
      BY <1>5
    <3> HIDE DEF s, old
    <3> QED BY <1>1, <1>4, <2>1, <3>1, ReportIsReference
  <2>3. Goes(t, Answer(s, err, inode)) /\ s.stack = th[t].stack /\ th[t].stack # <<>>
    BY <1>1, <2>1
  <2> HIDE DEF inode
  <2>4. Untouched(acc[Mine(t)], edits) /\ s.path # <<>> =>
          /\ err = Reference(node, root, s.op, s.path)
          /\ err = "ok" => inode = Lookup(node, OpenAt2(node, root, Parent(s.path), TRUE).node, Last(s.path))
    BY <2>2
  <2> HIDE DEF s, old, x
  <2> QED BY <2>3, <2>4, AnswerIsExact
<1>9. ASSUME r.err = "none", NEW q, q.stack = s.stack, q.ans = s.ans, q.dir = fd, q.cur = 0, Apt(q),
             \A before : old => CallOK(node, q, root, r.node, before),
             Go(t, q, acc, tab, count)
      PROVE  ExactInv'
  <2> DEFINE at == tab[Here(q)]
             before == tab[q.prev]
  <2>1. at = r.node
    BY <1>3, <1>9 DEF Here
  <2>2. old => CallOK(node, q, root, at, before)
    BY <1>9, <2>1
  <2>3. at = tab[Here(q)] /\ before = tab[q.prev]
    OBVIOUS
  <2> HIDE DEF at, before
  <2> QED BY <1>1, <1>3, <1>9, <2>2, <2>3, InCallIsExact
<1>10. CASE r.err = "none" /\ ~s.leaf /\ Go(t, up, acc, tab, count)
  <2>1. up.pc = "upsert" /\ up.stack = on.stack /\ up.ans = on.ans /\ up.leaf = on.leaf /\ up.op = on.op
        /\ up.path = on.path /\ up.dir = on.dir /\ up.cur = on.cur /\ Go(t, up, acc, tab, count)
    BY <1>7, <1>10
  <2> HIDE DEF up
  <2>2. Apt(up)
    BY <1>7, <1>10, <2>1 DEF Apt
  <2>3. ASSUME NEW before, old PROVE CallOK(node, up, root, r.node, before)
    <3>1. r = Directory(node, root, Parent(s.path)) /\ r = [err |-> "none", node |-> r.node]
      BY <1>5, <1>10, <2>3 DEF Ended, Resolved, Results
    <3>2. up.path # <<>> /\ Leads(node, root, Parent(up.path), r.node)
      BY <1>5, <1>7, <2>1, <2>3, <3>1 DEF Leads, Directory
    <3>3. NameOK(node, up, root, r.node)
      BY <1>6, <2>1, <3>2 DEF NameOK
    <3> QED BY <1>6, <2>1, <3>3 DEF CallOK
  <2> HIDE DEF s, old
  <2> QED BY <1>7, <1>9, <1>10, <2>1, <2>2, <2>3
<1>11. ASSUME r.err = "none", s.leaf, old, NEW q, q.path = s.path, q.op = s.op, q.pc \in {"read", "list"},
              s.op = "readFile" => node[r.node].type = "file" /\ q.size = node[r.node].size, NEW before
       PROVE  CallOK(node, q, root, r.node, before)
  <2>1. r \in Resolved /\ root \in Inside /\ s.path # <<>> /\ Ended(node, s, root, r)
    BY <1>5, <1>11
  <2> HIDE DEF s, old
  <2>2. FoundOK(node, q, root, r.node)
    BY <1>1, <1>11, <2>1, EndIsFound
  <2> QED BY <1>11, <2>2 DEF CallOK, Opening
<1>12. CASE /\ r.err = "none" /\ s.leaf /\ s.op = "readFile" /\ node[r.node].type = "file"
            /\ Go(t, read, acc, tab, count)
  <2>1. read.pc = "read" /\ read.stack = on.stack /\ read.ans = on.ans /\ read.leaf = on.leaf /\ read.op = on.op
        /\ read.path = on.path /\ read.dir = on.dir /\ read.cur = on.cur /\ read.size = node[r.node].size
    BY <1>7
  <2>4. Go(t, read, acc, tab, count)
    BY <1>12
  <2> HIDE DEF read
  <2>2. Apt(read)
    BY <1>7, <1>12, <2>1 DEF Apt
  <2>3. ASSUME NEW before, old PROVE CallOK(node, read, root, r.node, before)
    BY <1>7, <1>11, <1>12, <2>1, <2>3
  <2> HIDE DEF s, old
  <2> QED BY <1>7, <1>9, <1>12, <2>1, <2>2, <2>3, <2>4
<1>13. CASE r.err = "none" /\ s.leaf /\ s.op # "readFile" /\ Go(t, list, acc, tab, count)
  <2>1. list.pc = "list" /\ list.stack = on.stack /\ list.ans = on.ans /\ list.leaf = on.leaf /\ list.op = on.op
        /\ list.path = on.path /\ list.dir = on.dir /\ list.cur = on.cur
    BY <1>7
  <2>4. Go(t, list, acc, tab, count)
    BY <1>13
  <2> HIDE DEF list
  <2>2. Apt(list)
    BY <1>4, <1>7, <1>13, <2>1 DEF Apt
  <2>3. ASSUME NEW before, old PROVE CallOK(node, list, root, r.node, before)
    BY <1>7, <1>11, <1>13, <2>1, <2>3
  <2> HIDE DEF s, old
  <2> QED BY <1>7, <1>9, <1>13, <2>1, <2>2, <2>3, <2>4
<1> QED BY <1>2, <1>8, <1>10, <1>12, <1>13

\* Another name is to follow.
Inner(s) == s.k + 1 < Len(s.rel)

\* The next name is resolved in a directory that the call holds open.
LEMMA Footing ==
  ASSUME AccessInv, ExactInv, NEW t \in Threads, th[t].pc \in {"open", "walk", "why"},
         NEW s, s = th[t], NEW x, x = acc[Mine(t)], NEW root, root = table[x.fd],
         NEW at, at = At(Here(s))
  PROVE  /\ s \in ThreadStates /\ s.pc \in Calling /\ s.pc \in Opening /\ at \in Inside
         /\ at = table[Here(s)] /\ Here(s) \in DOMAIN table
         /\ s.k \in Nat /\ s.k < Len(s.rel) /\ s.rel \in Paths /\ Len(s.rel) \in Nat /\ Apt(s)
         /\ WantsDirectory(s) \in BOOLEAN /\ s.leaf \in BOOLEAN
         /\ s.pc = "open" => s.k = 0 /\ s.cur = 0
         /\ s.cur # 0 => s.pc # "open"
         /\ Untouched(x, edits) =>
              /\ root \in Inside /\ s.path # <<>> /\ CallOK(node, s, root, at, table[s.prev])
              /\ ~s.leaf => ParentOK(node, s, root, at, table[s.prev])
              /\ s.leaf => NameOK(node, s, root, at)
<1>1. /\ s \in ThreadStates /\ UseOK(s, x) /\ s.own \subseteq DOMAIN table \cup {0}
      /\ s.pc \in Calling /\ s.pc \in Opening /\ s.pc \in Resolving
  BY Facts DEF Calling, PCs, Opening, Resolving
<1>2. s.k < Len(s.rel) /\ (s.pc = "open" => s.k = 0 /\ s.cur = 0)
  BY <1>1 DEF UseOK, Resolving, Opening
<1>3. Here(s) \in DOMAIN table /\ at \in Inside
  <2>1. CASE s.cur = 0
    BY <1>1, <2>1, DirStays DEF Here
  <2>2. CASE s.cur # 0
    <3>1. s.cur \in DOMAIN table
      BY <1>1, <2>2 DEF UseOK
    <3>2. At(s.cur) \in Inside
      BY <2>2, <3>1, AtStays
    <3> QED BY <2>2, <3>1, <3>2 DEF Here
  <2> QED BY <2>1, <2>2
<1>4. at = table[Here(s)]
  BY <1>3 DEF At
<1>5. s.k \in Nat /\ s.rel \in Paths /\ Len(s.rel) \in Nat /\ s.path \in Paths /\ Len(s.path) \in Nat
      /\ WantsDirectory(s) \in BOOLEAN /\ s.leaf \in BOOLEAN
  <2>1. s.k \in Nat /\ s.rel \in Paths /\ s.path \in Paths /\ s.leaf \in BOOLEAN
    BY <1>1 DEF ThreadStates
  <2>2. Len(s.rel) \in Nat /\ Len(s.path) \in Nat
    BY <2>1 DEF Paths
  <2>3. WantsDirectory(s) \in BOOLEAN
    BY DEF WantsDirectory
  <2> QED BY <2>1, <2>2, <2>3
<1>6. Untouched(x, edits) => root \in Inside /\ CallOK(node, s, root, at, table[s.prev])
  BY <1>1, <1>4, CallFacts
<1>7. Untouched(x, edits) => /\ ~s.leaf => ParentOK(node, s, root, at, table[s.prev])
                             /\ s.leaf => NameOK(node, s, root, at)
  BY <1>1, <1>6 DEF CallOK
<1>8. Untouched(x, edits) => s.path # <<>>
  <2>1. s.path = <<>> => Len(s.path) = 0
    OBVIOUS
  <2> QED BY <1>5, <1>7, <2>1 DEF ParentOK, NameOK
<1> QED BY <1>1, <1>2, <1>3, <1>4, <1>5, <1>6, <1>7, <1>8, CallIsApt

\* The last name of a path is the only one resolved in its parent.
LEMMA LeafIsLast ==
  ASSUME NEW tree, NEW s, NEW root, NEW at, s.pc \in Opening, NameOK(tree, s, root, at)
  PROVE  /\ s.rel = <<Last(s.path)>> /\ s.k = 0 /\ s.rel[s.k + 1] = Last(s.path) /\ ~Inner(s)
         /\ Directory(tree, root, Parent(s.path)) = Start(at)
         /\ Directory(tree, root, Parent(s.path)).err = "none"
<1>1. s.rel = <<Last(s.path)>> /\ s.k = 0 /\ Leads(tree, root, Parent(s.path), at)
  BY DEF NameOK
<1>2. Len(<<Last(s.path)>>) = 1
  OBVIOUS
<1>3. ~Inner(s)
  BY <1>1, <1>2 DEF Inner
<1>4. Directory(tree, root, Parent(s.path)) = Start(at) /\ Start(at).err = "none"
  BY <1>1 DEF Leads, Directory, Start
<1> QED BY <1>1, <1>3, <1>4

\* An error, or the last of the names, ends the resolution.
LEMMA WalkEnds ==
  ASSUME NEW tree \in Trees, NEW root \in Inside, NEW at \in Inside, NEW before, NEW s \in ThreadStates,
         s.pc \in Opening, s.k < Len(s.rel), s.path # <<>>,
         ~s.leaf => ParentOK(tree, s, root, at, before), s.leaf => NameOK(tree, s, root, at),
         NEW d \in BOOLEAN, d <=> Inner(s) \/ WantsDirectory(s),
         NEW q, q = Beneath(tree, Start(at), s.rel[s.k + 1], d), q.err # "none" \/ ~Inner(s)
  PROVE  q \in Resolved /\ Ended(tree, s, root, q)
<1>1. q \in Resolved
  <2>1. Start(at) \in Resolved
    BY DEF Start, Resolved, Results, Errnos
  <2> QED BY <2>1, BeneathResolves
<1>2. CASE ~s.leaf
  <2>1. d
    BY <1>2 DEF WantsDirectory
  <2>2. q = Under(tree, Start(at), s.rel[s.k + 1])
    BY <2>1, UnderIsBeneath
  <2>3. q.err # "none" \/ s.k + 1 = Len(s.rel)
    <3>1. s.k \in Nat /\ Len(s.rel) \in Nat
      BY DEF ThreadStates, Paths
    <3> QED BY <3>1 DEF Inner
  <2> DEFINE up == Directory(tree, root, Parent(s.path))
  <2>4. up = Directory(tree, root, Parent(s.path)) /\ ParentOK(tree, s, root, at, before)
    BY <1>2
  <2> HIDE DEF up
  <2>5. up = q
    BY <2>2, <2>3, <2>4, NextName
  <2> QED BY <1>1, <1>2, <2>4, <2>5 DEF Ended
<1>3. CASE s.leaf
  <2>1. NameOK(tree, s, root, at)
    BY <1>3
  <2>2. /\ s.rel[s.k + 1] = Last(s.path) /\ ~Inner(s)
        /\ Directory(tree, root, Parent(s.path)) = Start(at)
        /\ Directory(tree, root, Parent(s.path)).err = "none"
    BY <2>1, LeafIsLast
  <2>3. d = WantsDirectory(s)
    <3>1. WantsDirectory(s) \in BOOLEAN
      BY DEF WantsDirectory, ThreadStates
    <3> QED BY <2>2, <3>1
  <2> QED BY <1>1, <1>3, <2>2, <2>3 DEF Ended
<1> QED BY <1>2, <1>3 DEF ThreadStates

\* A path of one name is that name.
LEMMA OneNameResolves ==
  ASSUME NEW tree \in Trees, NEW at \in Inside, NEW name, NEW path \in Paths, path = <<name>>,
         NEW directory \in BOOLEAN
  PROVE  OpenAt2(tree, at, path, directory) = Beneath(tree, Start(at), name, directory)
<1>1. PICK f : /\ Resolves(f, tree, at, path, directory)
               /\ OpenAt2(tree, at, path, directory) = f[Len(path)]
  BY OpenAt2Computes
<1>2. Len(path) = 1 /\ path[1] = name
  OBVIOUS
<1>3. f[1] = Beneath(tree, f[1 - 1], path[1], directory \/ 1 < Len(path)) /\ f[0] = Start(at)
  BY <1>1, <1>2 DEF Resolves
<1>4. (directory \/ 1 < Len(path)) = directory
  BY <1>2
<1>5. 1 - 1 = 0
  OBVIOUS
<1> QED BY <1>1, <1>2, <1>3, <1>4, <1>5

\* openat2 resolves all at once.
LEMMA AtOnceEnds ==
  ASSUME NEW tree \in Trees, NEW root \in Inside, NEW at \in Inside, NEW before, NEW s \in ThreadStates,
         s.pc \in Opening, s.k = 0, s.k < Len(s.rel), s.path # <<>>,
         ~s.leaf => ParentOK(tree, s, root, at, before), s.leaf => NameOK(tree, s, root, at),
         NEW q, q = OpenAt2(tree, at, s.rel, WantsDirectory(s))
  PROVE  q \in Resolved /\ Ended(tree, s, root, q)
<1>1. WantsDirectory(s) \in BOOLEAN /\ s.rel \in Paths /\ s.leaf \in BOOLEAN
  BY DEF WantsDirectory, ThreadStates
<1>2. CASE ~s.leaf
  <2>1. WantsDirectory(s) = TRUE
    BY <1>1, <1>2 DEF WantsDirectory
  <2>2. q = Directory(tree, at, s.rel)
    BY <2>1 DEF Directory
  <2> DEFINE up == Directory(tree, root, Parent(s.path))
             r == Under(tree, Start(at), s.rel[s.k + 1])
  <2>3. /\ up = Directory(tree, root, Parent(s.path)) /\ ParentOK(tree, s, root, at, before)
        /\ r = Under(tree, Start(at), s.rel[s.k + 1])
    BY <1>2
  <2> HIDE DEF up, r
  <2>4. up = q
    BY <2>2, <2>3, NextName
  <2>5. q \in Resolved
    BY <1>1, <2>2, DirectoryResolves
  <2> QED BY <1>2, <2>3, <2>4, <2>5 DEF Ended
<1>3. CASE s.leaf
  <2>1. NameOK(tree, s, root, at)
    BY <1>3
  <2>2. /\ s.rel = <<Last(s.path)>> /\ Directory(tree, root, Parent(s.path)) = Start(at)
        /\ Directory(tree, root, Parent(s.path)).err = "none"
    BY <2>1, LeafIsLast
  <2> DEFINE d == WantsDirectory(s)
             rel == s.rel
             name == Last(s.path)
  <2>3. d \in BOOLEAN /\ rel \in Paths /\ rel = <<name>> /\ q = OpenAt2(tree, at, rel, d)
    BY <1>1, <2>2
  <2> HIDE DEF d, rel, name
  <2>4. q = Beneath(tree, Start(at), name, d)
    BY <2>3, OneNameResolves
  <2>5. q \in Resolved
    <3>1. Start(at) \in Resolved
      BY DEF Start, Resolved, Results, Errnos
    <3> QED BY <2>3, <2>4, <3>1, BeneathResolves
  <2> QED BY <1>3, <2>2, <2>4, <2>5 DEF Ended, d, name
<1> QED BY <1>1, <1>2, <1>3

\* The rest of a path at once, or a name at a time
LEMMA TryOpenAt2IsExact ==
  ASSUME AccessInv, ExactInv, NEW t \in Threads, TryOpenAt2(t)
  PROVE  ExactInv'
<1> DEFINE s == th[t]
           x == acc[Mine(t)]
           root == table[x.fd]
           at == At(Here(s))
           r == OpenAt2(node, At(s.dir), s.rel, WantsDirectory(s))
           q == [s EXCEPT !.pc = "walk"]
<1>1. s.pc = "open" /\ node' = node /\ edits' = edits /\ AccessInv' /\ node \in Trees
  BY TryOpenAt2Keeps, AccessorFacts DEF TryOpenAt2, World
<1>2. /\ s \in ThreadStates /\ s.pc \in Calling /\ s.pc \in Opening /\ at \in Inside /\ at = table[Here(s)]
      /\ s.k < Len(s.rel) /\ s.rel \in Paths /\ Apt(s) /\ WantsDirectory(s) \in BOOLEAN /\ s.k = 0 /\ s.cur = 0
      /\ Untouched(x, edits) =>
              /\ root \in Inside /\ s.path # <<>> /\ CallOK(node, s, root, at, table[s.prev])
              /\ ~s.leaf => ParentOK(node, s, root, at, table[s.prev])
              /\ s.leaf => NameOK(node, s, root, at)
  BY <1>1, Footing
<1>3. At(s.dir) = at
  BY <1>2 DEF Here
<1>4. CASE openat2
  <2>1. r \in Results /\ (r.err = "none" => r.node \in Inside)
    BY <1>1, <1>2, <1>3, OpenAt2Stays
  <2>2. Opened(t, r)
    BY <1>4 DEF TryOpenAt2
  <2>3. r = OpenAt2(node, at, s.rel, WantsDirectory(s))
    BY <1>3
  <2> DEFINE before == table[s.prev]
  <2> HIDE DEF r, at, before
  <2>4. Untouched(x, edits) => r \in Resolved /\ root \in Inside /\ s.path # <<>> /\ Ended(node, s, root, r)
    <3> SUFFICES ASSUME Untouched(x, edits)
        PROVE  r \in Resolved /\ root \in Inside /\ s.path # <<>> /\ Ended(node, s, root, r)
      OBVIOUS
    <3>1. /\ root \in Inside /\ s.path # <<>>
          /\ ~s.leaf => ParentOK(node, s, root, at, before)
          /\ s.leaf => NameOK(node, s, root, at)
      BY <1>2 DEF before
    <3> HIDE DEF s, root, x
    <3> QED BY <1>1, <1>2, <2>3, <3>1, AtOnceEnds
  <2>5. root = table[acc[Mine(t)].fd]
    OBVIOUS
  <2> HIDE DEF root
  <2> QED BY <1>1, <2>1, <2>2, <2>4, <2>5, OpenedIsExact
<1>5. CASE ~openat2
  <2>1. Go(t, q, acc, table, count) /\ Extends(table)
    BY <1>5, AccessorFacts DEF TryOpenAt2, Goes
  <2>2. /\ q.pc = "walk" /\ q.stack = s.stack /\ q.ans = s.ans /\ q.leaf = s.leaf /\ q.op = s.op /\ q.path = s.path
        /\ q.cur = s.cur /\ q.dir = s.dir /\ q.prev = s.prev /\ q.rel = s.rel /\ q.k = s.k
    BY <1>2 DEF ThreadStates
  <2>3. Here(q) = Here(s)
    BY <2>2 DEF Here
  <2> HIDE DEF q
  <2>4. Apt(q)
    BY <1>1, <1>2, <2>2 DEF Apt, Opening
  <2> DEFINE before == table[q.prev]
  <2>5. ASSUME Untouched(x, edits) PROVE CallOK(node, q, root, at, before)
    <3>1. CallOK(node, s, root, at, before)
      BY <1>2, <2>2, <2>5
    <3> HIDE DEF root, at, before, s
    <3> QED BY <1>1, <1>2, <2>2, <3>1 DEF CallOK, ParentOK, NameOK, KeyOf, Opening
  <2>6. root = table[acc[Mine(t)].fd] /\ at = table[Here(q)] /\ before = table[q.prev]
    BY <1>2, <2>3
  <2> HIDE DEF root, at, before
  <2> QED BY <1>1, <1>2, <2>1, <2>2, <2>4, <2>5, <2>6, InCallIsExact
<1> QED BY <1>4, <1>5

\* A resolution that ends in one step, knowing why
LEMMA WhyIsExact ==
  ASSUME AccessInv, ExactInv, NEW t \in Threads, Why(t)
  PROVE  ExactInv'
<1> DEFINE s == th[t]
           x == acc[Mine(t)]
           root == table[x.fd]
           at == At(Here(s))
           before == table[s.prev]
           name == s.rel[s.k + 1]
           i == Lookup(node, at, name)
           r == [err |-> IF i # None /\ node[i].type = "link" THEN "ELOOP" ELSE "ENOTDIR", node |-> None]
           d == WantsDirectory(s)
           o == OpenAt(node, at, name, d)
           q == Beneath(node, Start(at), name, d)
<1>1. s.pc = "why" /\ node' = node /\ edits' = edits /\ AccessInv' /\ node \in Trees /\ Opened(t, r)
  BY WhyKeeps, AccessorFacts DEF Why, Same, World, Here
<1>2. /\ s \in ThreadStates /\ s.pc \in Calling /\ s.pc \in Opening /\ at \in Inside
      /\ s.k < Len(s.rel) /\ s.rel \in Paths /\ d \in BOOLEAN
      /\ Untouched(x, edits) =>
              /\ root \in Inside /\ s.path # <<>> /\ CallOK(node, s, root, at, before)
              /\ ~s.leaf => ParentOK(node, s, root, at, before)
              /\ s.leaf => NameOK(node, s, root, at)
  BY <1>1, Footing
<1>3. r.err # "none"
  OBVIOUS
<1>4. ASSUME Untouched(x, edits)
      PROVE  r \in Resolved /\ root \in Inside /\ s.path # <<>> /\ Ended(node, s, root, r)
  <2>1. /\ root \in Inside /\ s.path # <<>> /\ CallOK(node, s, root, at, before)
        /\ ~s.leaf => ParentOK(node, s, root, at, before)
        /\ s.leaf => NameOK(node, s, root, at)
    BY <1>2, <1>4
  <2>2. o.err = "ENOTDIR"
    BY <1>1, <2>1 DEF CallOK
  <2>3. Inner(s) => d
    <3>1. CASE s.leaf
      <4>1. NameOK(node, s, root, at)
        BY <2>1, <3>1
      <4> HIDE DEF s, root, at
      <4> QED BY <1>2, <4>1, LeafIsLast
    <3>2. CASE ~s.leaf
      BY <3>2 DEF WantsDirectory
    <3> QED BY <3>1, <3>2
  <2>4. o = OpenAt(node, at, name, d) /\ q = Beneath(node, Start(at), name, d) /\ i = Lookup(node, at, name)
    OBVIOUS
  <2> HIDE DEF at, name, d, o, q, i
  <2>5. q = [err |-> IF i # None /\ node[i].type = "link" THEN "ELOOP" ELSE "ENOTDIR", node |-> None]
    BY <1>1, <1>2, <2>2, <2>4, OneName
  <2>6. q = r /\ q.err # "none"
    BY <2>5
  <2>7. d <=> Inner(s) \/ WantsDirectory(s)
    BY <1>2, <2>3 DEF d
  <2>8. q = Beneath(node, Start(at), s.rel[s.k + 1], d)
    BY <2>4 DEF name
  <2> HIDE DEF s, root, before, r
  <2>9. q \in Resolved /\ Ended(node, s, root, q)
    BY <1>1, <1>2, <2>1, <2>6, <2>7, <2>8, WalkEnds
  <2> QED BY <2>1, <2>6, <2>9
<1>5. root = table[acc[Mine(t)].fd]
  OBVIOUS
<1> HIDE DEF r, root
<1> QED BY <1>1, <1>3, <1>4, <1>5, OpenedIsExact

\* The next name is open, is in the way, or ends the resolution.
LEMMA WalkIsExact ==
  ASSUME AccessInv, ExactInv, NEW t \in Threads, Walk(t)
  PROVE  ExactInv'
<1> DEFINE s == th[t]
           x == acc[Mine(t)]
           root == table[x.fd]
           at == At(Here(s))
           before == table[s.prev]
           name == s.rel[s.k + 1]
           d == Inner(s) \/ WantsDirectory(s)
           r == OpenAt(node, at, name, d)
           b == Beneath(node, Start(at), name, d)
           i == Lookup(node, at, name)
           fd == NewFd(table)
           caches == x.cached /\ s.cur # 0
           on == [s EXCEPT !.k = @ + 1, !.cur = fd, !.prev = IF caches THEN s.cur ELSE 0,
                           !.pc = IF caches THEN "callback" ELSE "walk",
                           !.own = (@ \cup {fd}) \ (IF caches THEN {} ELSE {s.cur})]
           why == [s EXCEPT !.pc = "why"]
           tab == Open(table, r.node)
<1>1. s.pc \in {"open", "walk"} /\ node' = node /\ edits' = edits /\ AccessInv' /\ node \in Trees
  BY WalkKeeps, AccessorFacts DEF Walk, Same, World
<1>2. /\ s \in ThreadStates /\ s.pc \in Calling /\ s.pc \in Opening /\ at \in Inside /\ at = table[Here(s)]
      /\ Here(s) \in DOMAIN table
      /\ s.k \in Nat /\ s.k < Len(s.rel) /\ s.rel \in Paths /\ Len(s.rel) \in Nat /\ WantsDirectory(s) \in BOOLEAN
      /\ Apt(s)
      /\ Untouched(x, edits) =>
              /\ root \in Inside /\ s.path # <<>> /\ CallOK(node, s, root, at, before)
              /\ ~s.leaf => ParentOK(node, s, root, at, before)
              /\ s.leaf => NameOK(node, s, root, at)
  BY <1>1, Footing
<1>3. \/ r.err = "ENOTDIR" /\ Go(t, why, acc, table, count)
      \/ r.err = "none" /\ Inner(s) /\ Go(t, on, acc, tab, count)
      \/ r.err # "ENOTDIR" /\ (r.err # "none" \/ ~Inner(s)) /\ Opened(t, r)
  BY DEF Walk, Goes, Here, Inner
<1>4. d \in BOOLEAN
  BY <1>2 DEF Inner
<1>5. /\ r = OpenAt(node, at, name, d) /\ b = Beneath(node, Start(at), name, d) /\ i = Lookup(node, at, name)
      /\ b = Beneath(node, Start(at), s.rel[s.k + 1], d) /\ (d <=> Inner(s) \/ WantsDirectory(s))
  OBVIOUS
<1>6. r.err = "none" => r.node \in Inside
  <2>1. at \in Inside \cup {None}
    BY <1>2
  <2> HIDE DEF at, name, d, r
  <2> QED BY <1>1, <1>4, <1>5, <2>1, OpenStays
<1>7. ASSUME Untouched(x, edits)
      PROVE  /\ root \in Inside /\ s.path # <<>> /\ CallOK(node, s, root, at, before)
             /\ ~s.leaf => ParentOK(node, s, root, at, before)
             /\ s.leaf => NameOK(node, s, root, at)
             /\ Inner(s) => ~s.leaf /\ WantsDirectory(s) = TRUE
  <2>1. /\ root \in Inside /\ s.path # <<>> /\ CallOK(node, s, root, at, before)
        /\ ~s.leaf => ParentOK(node, s, root, at, before)
        /\ s.leaf => NameOK(node, s, root, at)
    BY <1>2, <1>7
  <2>2. Inner(s) => ~s.leaf
    <3> HIDE DEF s, root, at, before
    <3> QED BY <1>2, <2>1, LeafIsLast
  <2> QED BY <1>2, <2>1, <2>2 DEF WantsDirectory
<1>8. r.err # "ENOTDIR" => b = r
  <2>1. node \in Trees /\ at \in Inside /\ d \in BOOLEAN
    BY <1>1, <1>2, <1>4
  <2>2. r = OpenAt(node, at, name, d) /\ b = Beneath(node, Start(at), name, d) /\ i = Lookup(node, at, name)
    BY <1>5
  <2> HIDE DEF at, name, d, r, b, i
  <2> QED BY <2>1, <2>2, OneName
<1>9. root = table[acc[Mine(t)].fd] /\ x = acc[Mine(t)]
  OBVIOUS
<1> HIDE DEF d, r, b, i
<1>10. CASE r.err = "ENOTDIR" /\ Go(t, why, acc, table, count)
  <2>1. /\ why.pc = "why" /\ why.stack = s.stack /\ why.ans = s.ans /\ why.leaf = s.leaf /\ why.op = s.op
        /\ why.path = s.path /\ why.cur = s.cur /\ why.dir = s.dir /\ why.prev = s.prev /\ why.rel = s.rel
        /\ why.k = s.k
    BY <1>2 DEF ThreadStates
  <2>2. Here(why) = Here(s) /\ WantsDirectory(why) = WantsDirectory(s)
    BY <2>1 DEF Here, WantsDirectory
  <2>3. Go(t, why, acc, table, count) /\ Extends(table)
    BY <1>10, AccessorFacts
  <2> HIDE DEF why
  <2>4. Apt(why)
    BY <1>1, <1>2, <2>1 DEF Apt, Opening
  <2>5. ASSUME Untouched(x, edits) PROVE CallOK(node, why, root, at, before)
    <3>1. CallOK(node, s, root, at, before)
      BY <1>7, <2>5
    <3>2. OpenAt(node, at, s.rel[s.k + 1], WantsDirectory(s)).err = "ENOTDIR"
      <4>1. d = WantsDirectory(s)
        BY <1>2, <1>4, <1>7, <2>5 DEF d
      <4> QED BY <1>5, <1>10, <4>1
    <3>3. OpenAt(node, at, why.rel[why.k + 1], WantsDirectory(why)).err = "ENOTDIR"
      BY <2>1, <2>2, <3>2
    <3> HIDE DEF s, root, at, before
    <3>4. s.pc \in Opening /\ why.pc \in Opening /\ why.pc \notin {"upsert", "leaf", "read", "list", "callback"}
      BY <1>2, <2>1 DEF Opening
    <3>5. KeyOf(why, Len(why.rel)) = KeyOf(s, Len(s.rel)) /\ KeyOf(why, why.k) = KeyOf(s, s.k)
      BY <2>1 DEF KeyOf
    <3>6. ~s.leaf => ParentOK(node, why, root, at, before)
      BY <2>1, <3>1, <3>4, <3>5 DEF CallOK, ParentOK
    <3>7. s.leaf => NameOK(node, why, root, at)
      BY <2>1, <3>1, <3>4 DEF CallOK, NameOK
    <3> QED BY <2>1, <3>3, <3>4, <3>6, <3>7 DEF CallOK
  <2>6. at = table[Here(why)] /\ before = table[why.prev]
    BY <1>2, <2>1, <2>2
  <2> HIDE DEF root, at, before, x
  <2> QED BY <1>1, <1>2, <1>9, <2>1, <2>3, <2>4, <2>5, <2>6, InCallIsExact
<1>11. CASE r.err # "ENOTDIR" /\ (r.err # "none" \/ ~Inner(s)) /\ Opened(t, r)
  <2>1. ASSUME Untouched(x, edits)
        PROVE  r \in Resolved /\ root \in Inside /\ s.path # <<>> /\ Ended(node, s, root, r)
    <3>1. b = r /\ (b.err # "none" \/ ~Inner(s))
      BY <1>8, <1>11
    <3>2. /\ root \in Inside /\ s.path # <<>>
          /\ ~s.leaf => ParentOK(node, s, root, at, before)
          /\ s.leaf => NameOK(node, s, root, at)
      BY <1>7, <2>1
    <3> HIDE DEF s, root, at, before, name
    <3>3. b \in Resolved /\ Ended(node, s, root, b)
      BY <1>1, <1>2, <1>4, <1>5, <3>1, <3>2, WalkEnds
    <3> QED BY <3>1, <3>2, <3>3
  <2>2. Opened(t, r)
    BY <1>11
  <2> HIDE DEF root
  <2> QED BY <1>1, <1>6, <1>9, <2>1, <2>2, OpenedIsExact
<1>12. CASE r.err = "none" /\ Inner(s) /\ Go(t, on, acc, tab, count)
  <2>1. Extends(tab) /\ fd \in Nat \ {0} /\ tab[fd] = r.node /\ fd \notin DOMAIN table
    BY <1>6, <1>12, OpenExtends
  <2>2. Go(t, on, acc, tab, count)
    BY <1>12
  <2> HIDE DEF tab, fd
  <2>3. /\ on.cur = fd /\ on.prev = (IF caches THEN s.cur ELSE 0) /\ on.k = s.k + 1
        /\ on.pc = (IF caches THEN "callback" ELSE "walk")
        /\ on.rel = s.rel /\ on.path = s.path /\ on.leaf = s.leaf /\ on.stack = s.stack /\ on.ans = s.ans
        /\ on.op = s.op
    BY <1>2 DEF ThreadStates
  <2>4. Here(on) = fd
    BY <2>1, <2>3 DEF Here
  <2>5. on.pc \in Opening /\ on.pc \in {"callback", "walk"}
    BY <2>3 DEF Opening
  <2> HIDE DEF on
  <2>6. Apt(on)
    BY <1>2, <2>3, <2>5 DEF Apt, Opening
  <2> DEFINE there == r.node
             last == tab[on.prev]
  <2>7. ASSUME Untouched(x, edits) PROVE CallOK(node, on, root, there, last)
    <3>1. ~s.leaf /\ ParentOK(node, s, root, at, before) /\ root \in Inside /\ s.path # <<>> /\ d = TRUE
      BY <1>4, <1>7, <1>12, <2>7 DEF d
    <3>2. b = r /\ b = Under(node, Start(at), s.rel[s.k + 1]) /\ b \in Resolved
      <4>1. Start(at) \in Resolved
        BY <1>2 DEF Start, Resolved, Results, Errnos
      <4>2. b \in Resolved
        <5> HIDE DEF at, name
        <5> QED BY <1>1, <1>4, <1>5, <4>1, BeneathResolves
      <4>3. b = Beneath(node, Start(at), s.rel[s.k + 1], TRUE)
        BY <1>5, <3>1
      <4> QED BY <1>8, <1>12, <4>2, <4>3 DEF Under
    <3> DEFINE up == Directory(node, root, Parent(s.path))
    <3>3. Directory(node, root, KeyOf(s, s.k + 1)) = b
      <4>1. up = Directory(node, root, Parent(s.path))
        OBVIOUS
      <4> HIDE DEF up, s, root, at, before
      <4> QED BY <1>1, <1>2, <3>1, <3>2, <4>1, NextName
    <3>4. b = [err |-> "none", node |-> there]
      BY <1>12, <3>2 DEF Resolved, Results
    <3>5. KeyOf(on, Len(on.rel)) = KeyOf(s, Len(s.rel)) /\ KeyOf(on, on.k) = KeyOf(s, s.k + 1)
          /\ KeyOf(on, on.k - 1) = KeyOf(s, s.k)
      <4>1. on.k - 1 = s.k
        BY <1>2, <2>3
      <4> QED BY <2>3, <4>1 DEF KeyOf
    <3>6. Leads(node, root, KeyOf(on, on.k), there)
      BY <3>3, <3>4, <3>5 DEF Leads, Directory
    <3>7. on.pc = "callback" => on.k > 1 /\ Leads(node, root, KeyOf(on, on.k - 1), last)
      <4> SUFFICES ASSUME on.pc = "callback" PROVE on.k > 1 /\ Leads(node, root, KeyOf(on, on.k - 1), last)
        OBVIOUS
      <4>1. caches /\ s.cur # 0 /\ on.prev = s.cur
        BY <2>3
      <4>2. s.k # 0 /\ Leads(node, root, KeyOf(s, s.k), at)
        BY <3>1, <4>1 DEF ParentOK
      <4>3. Here(s) = s.cur
        BY <4>1 DEF Here
      <4>4. last = at
        BY <1>2, <2>1, <4>1, <4>3 DEF Extends
      <4>5. on.k > 1
        BY <1>2, <2>3, <4>2
      <4> QED BY <3>5, <4>2, <4>4, <4>5
    <3>8. Len(on.rel) < Len(on.path) /\ KeyOf(on, Len(on.rel)) = Parent(on.path)
      BY <2>3, <3>1, <3>5 DEF ParentOK
    <3>9. on.cur # 0 /\ on.k # 0
      BY <1>2, <2>1, <2>3
    <3>10. ParentOK(node, on, root, there, last)
      BY <3>6, <3>7, <3>8, <3>9 DEF ParentOK
    <3> HIDE DEF there, last, root, s
    <3> QED BY <2>3, <2>5, <3>1, <3>10 DEF CallOK
  <2>8. there = tab[Here(on)] /\ last = tab[on.prev]
    BY <2>1, <2>4
  <2> HIDE DEF there, last, root, s
  <2>9. on.stack = th[t].stack /\ on.ans = th[t].ans /\ th[t].pc \in Calling
    BY <1>2, <2>3 DEF s
  <2> HIDE DEF x
  <2> QED BY <1>1, <1>9, <2>1, <2>2, <2>6, <2>7, <2>8, <2>9, InCallIsExact
<1> QED BY <1>3, <1>10, <1>11, <1>12

\* The entries of the cache c are among those of another.
Among(c, cache) == \A j \in 1 .. Len(c) : \E l \in 1 .. Len(cache) : c[j] = cache[l]

\* Erasing adds no entry.
LEMMA ErasedAmong ==
  ASSUME NEW cache \in Seq(CacheEntries), NEW key
  PROVE  Among(Erase(cache, key), cache)
<1>1. CASE ~HasKey(cache, key)
  BY <1>1 DEF Erase, Among
<1>2. CASE HasKey(cache, key)
  <2> DEFINE i == Find(cache, key)
             rest == Erase(cache, key)
  <2>1. i \in 1 .. Len(cache)
    BY <1>2 DEF HasKey, Find
  <2>2. rest = RemoveAt(cache, i)
    BY <1>2 DEF Erase
  <2> HIDE DEF i, rest
  <2>3. /\ Len(rest) = Len(cache) - 1
        /\ \A j \in 1 .. Len(cache) - 1 : \E l \in 1 .. Len(cache) : rest[j] = cache[l]
    BY <2>1, <2>2, RemoveAtEffect
  <2> QED BY <2>3 DEF rest, Among
<1> QED BY <1>1, <1>2

\* What an entry of a longer cache leads to
LEMMA AppendedLeads ==
  ASSUME NEW x, NEW cache, EntriesLead(x, cache), NEW c \in Seq(CacheEntries), Among(c, cache),
         NEW key, NEW fd, NEW e \in CacheEntries, e.key = key, e.fd = fd,
         Untouched(x, edits) => Leads(node, table[x.fd], key, table[fd])
  PROVE  EntriesLead(x, Append(c, e))
<1> DEFINE q == Append(c, e)
<1>1. /\ Len(c) \in Nat /\ Len(q) = Len(c) + 1
      /\ \A i \in 1 .. Len(c) : q[i] = c[i]
      /\ q[Len(c) + 1] = e
  OBVIOUS
<1> HIDE DEF q
<1>2. ASSUME Untouched(x, edits), NEW i \in 1 .. Len(q)
      PROVE  Leads(node, table[x.fd], q[i].key, table[q[i].fd])
  <2>1. CASE i \in 1 .. Len(c)
    <3>1. PICK l \in 1 .. Len(cache) : c[i] = cache[l]
      BY <2>1 DEF Among
    <3> QED BY <1>1, <1>2, <2>1, <3>1 DEF EntriesLead
  <2>2. CASE i = Len(c) + 1
    BY <1>1, <1>2, <2>2
  <2> QED BY <1>1, <1>2, <2>1, <2>2
<1> QED BY <1>2 DEF EntriesLead, q

\* The new entry of an insertion is for what it leads to.
LEMMA UpsertLeads ==
  ASSUME NEW x, NEW cache \in Seq(CacheEntries), EntriesLead(x, cache),
         NEW key \in Paths, NEW fd \in Nat \ {0},
         Untouched(x, edits) => Leads(node, table[x.fd], key, table[fd])
  PROVE  EntriesLead(x, Upsert(cache, key, fd))
<1> DEFINE rest == Erase(cache, key)
           tail == Tail(rest)
           room == IF Len(rest) >= CacheSize THEN tail ELSE rest
           e == [key |-> key, fd |-> fd]
<1>1. rest \in Seq(CacheEntries) /\ Among(rest, cache)
  BY EraseEffect, ErasedAmong
<1>2. Upsert(cache, key, fd) = Append(room, e)
  BY DEF Upsert
<1>3. e \in CacheEntries /\ e.key = key /\ e.fd = fd
  BY DEF CacheEntries
<1> HIDE DEF rest, e
<1>4. rest # <<>> => tail \in Seq(CacheEntries) /\ Among(tail, cache)
  <2> SUFFICES ASSUME rest # <<>> PROVE tail \in Seq(CacheEntries) /\ Among(tail, cache)
    OBVIOUS
  <2>1. /\ tail \in Seq(CacheEntries) /\ Len(tail) = Len(rest) - 1 /\ Len(rest) \in Nat
        /\ \A i \in 1 .. Len(tail) : tail[i] = rest[i + 1]
    BY <1>1
  <2> HIDE DEF tail
  <2>2. ASSUME NEW i \in 1 .. Len(tail) PROVE i + 1 \in 1 .. Len(rest)
    BY <2>1
  <2> QED BY <1>1, <2>1, <2>2 DEF Among
<1>5. room \in Seq(CacheEntries) /\ Among(room, cache)
  <2>1. CASE Len(rest) >= CacheSize /\ rest # <<>>
    BY <1>4, <2>1
  <2>2. CASE ~(Len(rest) >= CacheSize)
    BY <1>1, <2>2
  <2>3. CASE Len(rest) >= CacheSize /\ rest = <<>>
    <3>1. tail = <<>> /\ room = tail
      BY <2>3
    <3>2. <<>> \in Seq(CacheEntries) /\ Among(<<>>, cache)
      BY DEF Among
    <3> QED BY <3>1, <3>2
  <2> QED BY <2>1, <2>2, <2>3
<1> HIDE DEF room
<1> QED BY <1>2, <1>3, <1>5, AppendedLeads

\* A hit leads where its key says, and so do the entries when it has moved.
LEMMA PromoteLeads ==
  ASSUME NEW x, NEW cache \in Seq(CacheEntries), EntriesLead(x, cache), NEW key \in Paths, HasKey(cache, key)
  PROVE  /\ EntriesLead(x, Promote(cache, key))
         /\ Untouched(x, edits) => Leads(node, table[x.fd], key, table[Get(cache, key)])
<1> DEFINE rest == Erase(cache, key)
           fd == Get(cache, key)
           i == Find(cache, key)
           e == [key |-> key, fd |-> fd]
<1>1. rest \in Seq(CacheEntries) /\ Among(rest, cache)
  BY EraseEffect, ErasedAmong
<1>2. i \in 1 .. Len(cache) /\ cache[i].key = key
  BY DEF HasKey, Find
<1>3. fd = cache[i].fd
  BY DEF Get
<1>4. fd \in Nat \ {0}
  BY PromoteEffect
<1>5. Promote(cache, key) = Append(rest, e)
  BY DEF Promote
<1>6. e \in CacheEntries /\ e.key = key /\ e.fd = fd
  BY <1>4 DEF CacheEntries
<1> HIDE DEF rest, e, i, fd
<1>7. Untouched(x, edits) => Leads(node, table[x.fd], key, table[fd])
  BY <1>2, <1>3 DEF EntriesLead
<1>8. EntriesLead(x, Append(rest, e))
  BY <1>1, <1>6, <1>7, AppendedLeads
<1> QED BY <1>5, <1>7, <1>8 DEF fd

\* A path in two parts
Joins(u, q, p) == u \o q = p

LEMMA TwoParts ==
  ASSUME NEW p \in Paths, NEW m \in Nat, NEW n, n = Len(p), m <= n,
         NEW q, q = SubSeq(p, m + 1, n)
  PROVE  /\ q \in Paths /\ Len(q) = n - m /\ SubSeq(q, 1, Len(q)) = q
         /\ SubSeq(p, 1, m) \in Paths /\ Joins(SubSeq(p, 1, m), q, p)
<1> DEFINE u == SubSeq(p, 1, m)
           l == m + 1
<1>1. p \in Seq(STRING) /\ n \in Nat /\ m \in Int /\ n \in Int /\ 1 \in Int /\ l \in Int
  BY DEF Paths
<1>2. u \in Seq(STRING) /\ Len(u) = m /\ \A i \in 1 .. m : u[i] = p[i]
  <2>1. \A i \in 1 .. m : p[i] \in STRING
    BY <1>1
  <2>2. /\ u \in Seq(STRING) /\ Len(u) = IF 1 <= m THEN m - 1 + 1 ELSE 0
        /\ \A i \in 1 .. m - 1 + 1 : u[i] = p[1 + i - 1]
    BY <1>1, <2>1, SubSeqProperties
  <2> HIDE DEF u
  <2> QED BY <2>2
<1>3. q \in Seq(STRING) /\ Len(q) = n - m /\ \A i \in 1 .. n - m : q[i] = p[m + i]
  <2>1. q = SubSeq(p, l, n) /\ \A i \in l .. n : p[i] \in STRING
    BY <1>1
  <2>2. l = m + 1
    OBVIOUS
  <2> HIDE DEF l
  <2>3. /\ SubSeq(p, l, n) \in Seq(STRING) /\ Len(SubSeq(p, l, n)) = IF l <= n THEN n - l + 1 ELSE 0
        /\ \A i \in 1 .. n - l + 1 : SubSeq(p, l, n)[i] = p[l + i - 1]
    BY <1>1, <2>1, SubSeqProperties
  <2>4. q \in Seq(STRING) /\ Len(q) = (IF l <= n THEN n - l + 1 ELSE 0)
        /\ \A i \in 1 .. n - l + 1 : q[i] = p[l + i - 1]
    BY <2>1, <2>3
  <2>5. Len(q) = n - m
    BY <1>1, <2>2, <2>4
  <2>6. ASSUME NEW i \in 1 .. n - m PROVE q[i] = p[m + i]
    <3>1. i \in 1 .. n - l + 1 /\ l + i - 1 = m + i
      BY <1>1, <2>2
    <3> QED BY <2>4, <3>1
  <2> QED BY <2>4, <2>5, <2>6
<1> HIDE DEF u
<1>4. /\ u \o q \in Seq(STRING) /\ Len(u \o q) = n
      /\ \A i \in 1 .. n : (u \o q)[i] = IF i <= m THEN u[i] ELSE q[i - m]
  <2>1. /\ u \o q \in Seq(STRING) /\ Len(u \o q) = Len(u) + Len(q)
        /\ \A i \in 1 .. Len(u) + Len(q) : (u \o q)[i] = IF i <= Len(u) THEN u[i] ELSE q[i - Len(u)]
    <3>1. u \in Seq(STRING) /\ q \in Seq(STRING)
      BY <1>2, <1>3
    <3> QED BY ONLY <3>1, ConcatProperties
  <2>2. Len(u) + Len(q) = n
    BY <1>1, <1>2, <1>3
  <2> QED BY <1>2, <2>1, <2>2
<1>5. ASSUME NEW i \in 1 .. n PROVE (u \o q)[i] = p[i]
  <2>1. CASE i <= m
    <3>1. i \in 1 .. m
      BY <2>1
    <3>2. (u \o q)[i] = u[i]
      BY <1>4, <2>1
    <3> QED BY <1>2, <3>1, <3>2
  <2>2. CASE ~(i <= m)
    <3> DEFINE j == i - m
    <3>1. j \in 1 .. n - m /\ m + j = i
      BY <1>1, <2>2
    <3>2. (u \o q)[i] = q[j]
      BY <1>4, <2>2
    <3> HIDE DEF j
    <3>3. q[j] = p[m + j]
      BY <1>3, <3>1
    <3> QED BY <3>1, <3>2, <3>3
  <2> QED BY <2>1, <2>2
<1>6. u \o q = p
  BY <1>1, <1>4, <1>5, SeqEqual
<1>7. SubSeq(q, 1, Len(q)) = q
  BY <1>3, SubSeqFull
<1> QED BY <1>2, <1>3, <1>6, <1>7 DEF u, Paths, Joins

\* The empty path leads nowhere else.
LEMMA RootLeads ==
  ASSUME NEW tree \in Trees, NEW root \in Inside, NEW path \in Paths, Len(path) = 0
  PROVE  Leads(tree, root, path, root)
<1> DEFINE d == TRUE
<1>1. d \in BOOLEAN
  OBVIOUS
<1> HIDE DEF d
<1>2. PICK f : Resolves(f, tree, root, path, d) /\ OpenAt2(tree, root, path, d) = f[Len(path)]
  BY <1>1, OpenAt2Computes
<1>3. OpenAt2(tree, root, path, d) = Start(root)
  BY <1>2 DEF Resolves
<1> QED BY <1>3 DEF Leads, Start, d

\* The call starts to resolve what is left of its parent path after m names.
LEMMA SetsOut ==
  ASSUME NEW tree, NEW q, NEW root, NEW at, NEW before,
         q.path \in Paths, Len(q.path) > 1, NEW parent, parent = Parent(q.path),
         NEW m \in Nat, NEW n, n = Len(parent), m <= n, q.rel = SubSeq(parent, m + 1, n),
         q.k = 0, q.cur = 0, q.pc = "open", ~q.leaf,
         Leads(tree, root, SubSeq(parent, 1, m), at)
  PROVE  CallOK(tree, q, root, at, before)
<1> DEFINE rel == q.rel
<1>1. parent \in Paths /\ n = Len(q.path) - 1 /\ Len(q.path) \in Nat
  <2>1. Parent(q.path) \in Paths /\ Len(Parent(q.path)) = Len(q.path) - 1
    BY ParentIsPath
  <2>2. Len(q.path) \in Nat
    BY DEF Paths
  <2> QED BY <2>1, <2>2
<1>2. rel = SubSeq(parent, m + 1, n) /\ m \in Nat /\ n = Len(parent) /\ m <= n
  OBVIOUS
<1> HIDE DEF rel
<1>3. /\ rel \in Paths /\ Len(rel) = n - m /\ SubSeq(rel, 1, Len(rel)) = rel
      /\ SubSeq(parent, 1, m) \in Paths /\ Joins(SubSeq(parent, 1, m), rel, parent)
  <2>1. rel \in Paths
    BY ONLY <1>1, <1>2, TwoParts
  <2>5. Len(rel) = n - m
    BY ONLY <1>1, <1>2, TwoParts
  <2>2. SubSeq(rel, 1, Len(rel)) = rel
    BY ONLY <1>1, <1>2, TwoParts
  <2>3. SubSeq(parent, 1, m) \in Paths
    BY ONLY <1>1, <1>2, TwoParts
  <2>4. Joins(SubSeq(parent, 1, m), rel, parent)
    BY ONLY <1>1, <1>2, TwoParts
  <2> QED BY <2>1, <2>2, <2>3, <2>4, <2>5
<1>4. Len(rel) < Len(q.path)
  BY <1>1, <1>3
<1>5. Len(q.path) - 1 - Len(rel) = m
  BY <1>1, <1>3
<1>6. KeyOf(q, Len(q.rel)) = parent
  BY <1>3, <1>5 DEF KeyOf, rel, Joins
<1>7. KeyOf(q, q.k) = SubSeq(parent, 1, m)
  <2>1. SubSeq(rel, 1, 0) = <<>>
    BY SubSeqEmpty
  <2> DEFINE u == SubSeq(parent, 1, m)
  <2>2. u \in Seq(STRING)
    BY <1>3 DEF Paths
  <2>3. KeyOf(q, q.k) = u \o SubSeq(rel, 1, 0)
    BY <1>5 DEF KeyOf, rel
  <2> HIDE DEF u
  <2>4. u \o <<>> = u
    BY <2>2, ConcatEmptySeq
  <2> QED BY <2>1, <2>3, <2>4 DEF u
<1>8. ParentOK(tree, q, root, at, before)
  BY <1>4, <1>6, <1>7 DEF ParentOK, rel
<1> QED BY <1>8 DEF CallOK, Opening

\* A call starts at the root or at a cached ancestor.
LEMMA FindAncestorIsExact ==
  ASSUME AccessInv, ExactInv, NEW t \in Threads, FindAncestor(t)
  PROVE  ExactInv'
<1> DEFINE s == th[t]
           x == acc[Mine(t)]
           root == table[x.fd]
           parent == Parent(s.path)
           n == Len(parent)
           hits == {j \in 1 .. n : x.cached /\ HasKey(x.cache, SubSeq(parent, 1, j))}
           best == Max(hits)
           key == SubSeq(parent, 1, best)
           fd == Get(x.cache, key)
           rest == SubSeq(parent, best + 1, n)
           hit == [s EXCEPT !.dir = fd, !.own = {fd}, !.rel = rest, !.k = 0, !.cur = 0, !.it = 0,
                            !.pc = IF rest = <<>> THEN "upsert" ELSE "open"]
           miss == [s EXCEPT !.dir = x.fd, !.rel = parent, !.pc = "open", !.it = 0]
           c == Promote(x.cache, key)
           accs == [acc EXCEPT ![Mine(t)].cache = c]
<1>1. /\ s \in ThreadStates /\ UseOK(s, x) /\ s.pc = "lookup" /\ s.pc \in Calling
      /\ node' = node /\ edits' = edits /\ AccessInv' /\ node \in Trees /\ Apt(s)
  BY Facts, FindAncestorKeeps, AccessorFacts, CallIsApt DEF FindAncestor, Calling, PCs, Same, World
<1>2. Mine(t) \in Accessors /\ x \in AccessorStates /\ Mine(t) = Last(s.stack)
  BY <1>1, CallHasAccessor DEF Mine
<1>3. s.path \in Paths /\ Len(s.path) > 1 /\ s.cur = 0 /\ s.k = 0 /\ ~s.leaf
  BY <1>1 DEF ThreadStates, UseOK, ToParent, Resolving, Opening, Apt
<1>4. parent \in Paths /\ n \in Nat /\ n >= 1
  <2>1. parent \in Paths /\ Len(parent) = Len(s.path) - 1
    BY <1>3, ParentIsPath
  <2> HIDE DEF parent
  <2>2. Len(s.path) \in Nat
    BY <1>3 DEF Paths
  <2> QED BY <1>3, <2>1, <2>2
<1>5. Untouched(x, edits) => root \in Inside
  BY <1>1, CallFacts
<1>6. x = acc[Mine(t)] /\ root = table[x.fd] /\ root = table[acc[Mine(t)].fd]
  OBVIOUS
<1>7. CASE hits = {}
  <2>1. Go(t, miss, acc, table, count) /\ Extends(table)
    BY <1>7, AccessorFacts DEF FindAncestor, Goes
  <2> HIDE DEF hits, parent, x
  <2>2. /\ miss.pc = "open" /\ miss.stack = s.stack /\ miss.ans = s.ans /\ miss.leaf = s.leaf
        /\ miss.path = s.path /\ miss.cur = s.cur /\ miss.dir = x.fd /\ miss.k = s.k /\ miss.op = s.op
    BY <1>1 DEF ThreadStates
  <2>3. miss.rel = parent
    BY <1>1 DEF ThreadStates
  <2> HIDE DEF miss
  <2>4. Apt(miss)
    BY <1>3, <2>2 DEF Apt, Opening
  <2>5. Here(miss) = x.fd
    BY <1>3, <2>2 DEF Here
  <2> DEFINE before == table[miss.prev]
             at == root
             m == 0
  <2>6. ASSUME Untouched(x, edits) PROVE CallOK(node, miss, root, at, before)
    <3>1. m \in Nat /\ m <= n /\ miss.rel = SubSeq(parent, m + 1, n)
      <4>1. SubSeq(parent, 1, n) = parent
        BY <1>4, SubSeqFull DEF Paths
      <4> QED BY <1>4, <2>3, <4>1
    <3>2. SubSeq(parent, 1, m) = <<>> /\ Len(<<>>) = 0 /\ <<>> \in Paths
      BY SubSeqEmpty DEF Paths
    <3> DEFINE path == SubSeq(parent, 1, m)
    <3>3. Leads(node, root, path, at)
      <4>1. path \in Paths /\ Len(path) = 0 /\ root \in Inside
        BY <1>5, <2>6, <3>2
      <4> HIDE DEF path, root
      <4> QED BY <1>1, <4>1, RootLeads
    <3>4. parent = Parent(miss.path) /\ miss.path \in Paths /\ Len(miss.path) > 1 /\ miss.k = 0 /\ miss.cur = 0
          /\ miss.pc = "open" /\ ~miss.leaf
      BY <1>3, <2>2 DEF parent
    <3>5. n = Len(parent)
      OBVIOUS
    <3> HIDE DEF m, root, at, before, n
    <3> QED BY <3>1, <3>3, <3>4, <3>5, SetsOut
  <2>7. root = table[acc[Mine(t)].fd] /\ at = table[Here(miss)] /\ before = table[miss.prev]
    BY <1>6, <2>5
  <2>8. miss.stack = th[t].stack /\ miss.ans = th[t].ans /\ (Untouched(acc[Mine(t)], edits) => Untouched(x, edits))
    BY <1>6, <2>2
  <2> HIDE DEF at, before, root, s
  <2> QED BY <1>1, <2>1, <2>4, <2>6, <2>7, <2>8, InCallIsExact DEF s
<1>8. CASE hits # {}
  <2>1. Go(t, hit, accs, table, count)
    BY <1>8 DEF FindAncestor
  <2>2. best \in 1 .. n /\ HasKey(x.cache, key)
    <3>1. hits \in SUBSET (0 .. n) /\ n \in Nat
      BY <1>4
    <3>2. Max(hits) \in hits
      <4> HIDE DEF hits, n
      <4> QED BY <1>8, <3>1, Greatest
    <3> QED BY <3>2
  <2>3. n = Len(parent) /\ rest = SubSeq(parent, best + 1, n) /\ key = SubSeq(parent, 1, best)
        /\ best \in Nat /\ best <= n
    BY <1>4, <2>2
  <2> HIDE DEF hits, best, parent, n
  <2>4. key \in Paths /\ rest \in Paths /\ Len(rest) = n - best
    <3> HIDE DEF rest
    <3> QED BY <1>4, <2>3, TwoParts
  <2>5. x.cache \in Seq(CacheEntries) /\ EntriesLead(x, x.cache)
    <3>1. AccessorExact(node, edits, x, table)
      BY <1>2 DEF ExactInv
    <3> HIDE DEF x
    <3> QED BY <1>2, <3>1 DEF AccessorStates, AccessorExact, EntriesLead
  <2> HIDE DEF key, rest
  <2>6. EntriesLead(x, c) /\ (Untouched(x, edits) => Leads(node, root, key, table[fd]))
    <3> DEFINE cache == x.cache
    <3>1. cache \in Seq(CacheEntries) /\ EntriesLead(x, cache) /\ HasKey(cache, key) /\ key \in Paths
      BY <2>2, <2>4, <2>5
    <3> HIDE DEF x, cache
    <3>2. /\ EntriesLead(x, Promote(cache, key))
          /\ Untouched(x, edits) => Leads(node, table[x.fd], key, table[Get(cache, key)])
      BY <3>1, PromoteLeads
    <3> QED BY <3>2 DEF cache
  <2>7. fd \in Nat \ {0}
    BY <2>2, <2>4, <2>5, PromoteEffect
  <2> HIDE DEF c, fd
  <2>8. /\ hit.pc = (IF rest = <<>> THEN "upsert" ELSE "open") /\ hit.stack = s.stack /\ hit.ans = s.ans
        /\ hit.leaf = s.leaf /\ hit.path = s.path /\ hit.cur = 0 /\ hit.dir = fd /\ hit.k = 0 /\ hit.op = s.op
        /\ hit.rel = rest
    BY <1>1 DEF ThreadStates
  <2> HIDE DEF hit
  <2>9. Apt(hit)
    BY <1>3, <2>8 DEF Apt, Opening
  <2>10. Here(hit) = fd
    BY <2>8 DEF Here
  <2> DEFINE at == table[fd]
             before == table[hit.prev]
  <2>11. ASSUME Untouched(x, edits) PROVE CallOK(node, hit, root, at, before)
    <3>1. Leads(node, root, key, at)
      BY <2>6, <2>11
    <3>2. CASE rest = <<>>
      <4>1. best = n
        <5>1. Len(rest) = 0
          BY <3>2
        <5> QED BY <1>4, <2>3, <2>4, <5>1
      <4>2. key = parent
        BY <1>4, <2>3, <4>1, SubSeqFull DEF Paths
      <4>3. hit.path # <<>> /\ Parent(hit.path) = parent /\ hit.pc = "upsert"
        BY <1>3, <2>8, <3>2 DEF parent
      <4>4. NameOK(node, hit, root, at)
        BY <3>1, <4>2, <4>3 DEF NameOK, Opening
      <4> HIDE DEF at, before, root
      <4> QED BY <4>3, <4>4 DEF CallOK, Opening
    <3>3. CASE rest # <<>>
      <4>1. parent = Parent(hit.path) /\ hit.path \in Paths /\ Len(hit.path) > 1 /\ hit.k = 0 /\ hit.cur = 0
            /\ hit.pc = "open" /\ ~hit.leaf
        BY <1>3, <2>8, <3>3 DEF parent
      <4>2. hit.rel = SubSeq(parent, best + 1, n) /\ Leads(node, root, SubSeq(parent, 1, best), at)
        BY <2>3, <2>8, <3>1
      <4> HIDE DEF at, before, root
      <4> QED BY <2>3, <4>1, <4>2, SetsOut
    <3> QED BY <3>2, <3>3
  <2>12. at = table[Here(hit)] /\ before = table[hit.prev] /\ hit.stack = th[t].stack /\ hit.ans = th[t].ans
    BY <2>8, <2>10
  <2>13. Extends(table)
    BY AccessorFacts
  <2>14. Last(hit.stack) \in Accessors
    BY <1>2, <2>8
  <2>15. ThreadExact(node, edits, hit, acc[Last(hit.stack)], table)
    <3>1. th[t].pc \in Calling /\ (Untouched(acc[Mine(t)], edits) => CallOK(node, hit, root, at, before))
      BY <1>1, <1>6, <2>11
    <3> HIDE DEF at, before, root, s, x
    <3> QED BY <1>6, <2>9, <2>12, <2>13, <3>1, CallThread
  <2> DEFINE a == Mine(t)
  <2>16. a \in Accessors /\ EntriesLead(acc[a], c) /\ accs = [acc EXCEPT ![a].cache = c]
    BY <1>2, <2>6
  <2> HIDE DEF a, accs
  <2> QED BY <1>1, <2>1, <2>14, <2>15, <2>16, CacheIsExact
<1> QED BY <1>7, <1>8

\* A call goes on with a descriptor in the cache, under the path it leads to.
LEMMA InsertIsExact ==
  ASSUME AccessInv, AccessInv', ExactInv, NEW t \in Threads, th[t].pc \in Calling,
         NEW q, q.stack = th[t].stack, q.ans = th[t].ans, Apt(q),
         NEW root, root = table[acc[Mine(t)].fd],
         NEW at, at = table[Here(q)], NEW before, before = table[q.prev],
         Untouched(acc[Mine(t)], edits) => CallOK(node, q, root, at, before),
         NEW key \in Paths, NEW fd \in Nat \ {0},
         Untouched(acc[Mine(t)], edits) => Leads(node, root, key, table[fd]),
         Insert(t, q, key, fd), node' = node, edits' = edits
  PROVE  ExactInv'
<1> DEFINE a == Mine(t)
           x == acc[a]
           cache == x.cache
           c == Upsert(cache, key, fd)
           accs == [acc EXCEPT ![a].cache = c]
           n == count + (Len(c) - Len(cache))
<1>1. Go(t, q, accs, table, n)
  BY DEF Insert
<1>2. a \in Accessors /\ x \in AccessorStates /\ a = Last(q.stack)
  BY CallHasAccessor DEF Mine
<1>3. cache \in Seq(CacheEntries) /\ EntriesLead(x, cache)
  <2>1. AccessorExact(node, edits, x, table)
    BY <1>2 DEF ExactInv
  <2> HIDE DEF x
  <2> QED BY <1>2, <2>1 DEF AccessorStates, AccessorExact, EntriesLead
<1>4. EntriesLead(x, c)
  <2>1. Untouched(x, edits) => Leads(node, table[x.fd], key, table[fd])
    OBVIOUS
  <2> HIDE DEF x, cache
  <2> QED BY <1>3, <2>1, UpsertLeads
<1>5. ThreadExact(node, edits, q, acc[Last(q.stack)], table)
  BY CallThread, AccessorFacts
<1>6. accs = [acc EXCEPT ![a].cache = c] /\ EntriesLead(acc[a], c) /\ Last(q.stack) \in Accessors
  BY <1>2, <1>4
<1> HIDE DEF a, c, accs, n
<1> QED BY <1>1, <1>2, <1>5, <1>6, CacheIsExact

\* The descriptor before the last goes into the cache, under the path walked so far.
LEMMA CallbackIsExact ==
  ASSUME AccessInv, ExactInv, NEW t \in Threads, Callback(t)
  PROVE  ExactInv'
<1> DEFINE s == th[t]
           x == acc[Mine(t)]
           root == table[x.fd]
           at == table[Here(s)]
           before == table[s.prev]
           own == s.own \ {s.prev}
           q == [s EXCEPT !.pc = "walk", !.prev = 0, !.own = own]
           key == KeyOf(s, s.k - 1)
<1>1. /\ s \in ThreadStates /\ UseOK(s, x) /\ s.pc = "callback" /\ s.pc \in Calling
      /\ node' = node /\ edits' = edits /\ AccessInv' /\ Insert(t, q, key, s.prev) /\ Apt(s)
  BY Facts, CallbackKeeps, CallIsApt DEF Callback, Calling, PCs, Same
<1>2. s.cur # 0 /\ s.k < Len(s.rel) /\ s.prev \in Nat \ {0} /\ s.k \in Nat /\ Len(s.rel) \in Nat
  BY <1>1 DEF UseOK, Opening, ThreadStates, Paths
<1>3. key \in Paths
  BY <1>1, <1>2, KeyIsPath
<1>4. ASSUME Untouched(x, edits)
      PROVE  ~s.leaf /\ ParentOK(node, s, root, at, before) /\ Leads(node, root, key, before)
  <2>1. CallOK(node, s, root, at, before)
    BY <1>1, <1>4, CallFacts
  <2> HIDE DEF root, at, before, s
  <2>2. s.pc \in Opening
    BY <1>1 DEF Opening
  <2>3. ~s.leaf
    BY <1>2, <2>1, <2>2 DEF CallOK, NameOK
  <2>4. ParentOK(node, s, root, at, before)
    BY <2>1, <2>2, <2>3 DEF CallOK
  <2> QED BY <1>1, <2>3, <2>4 DEF ParentOK
<1>5. /\ q.stack = s.stack /\ q.ans = s.ans /\ q.pc = "walk" /\ q.cur = s.cur /\ q.k = s.k /\ q.dir = s.dir
      /\ q.rel = s.rel /\ q.leaf = s.leaf /\ q.path = s.path /\ q.op = s.op
  BY <1>1 DEF ThreadStates
<1> DEFINE last == table[q.prev]
<1> HIDE DEF q
<1>6. Here(q) = Here(s)
  BY <1>5 DEF Here
<1>7. Apt(q)
  BY <1>1, <1>5 DEF Apt, Opening
<1>8. ASSUME Untouched(x, edits) PROVE CallOK(node, q, root, at, last)
  <2>1. ~s.leaf /\ ParentOK(node, s, root, at, before)
    BY <1>4, <1>8
  <2> HIDE DEF root, at, before, last, s
  <2>2. KeyOf(q, Len(q.rel)) = KeyOf(s, Len(s.rel)) /\ KeyOf(q, q.k) = KeyOf(s, s.k)
    BY <1>5 DEF KeyOf
  <2>3. ParentOK(node, q, root, at, last)
    BY <1>5, <2>1, <2>2 DEF ParentOK
  <2> QED BY <1>5, <2>1, <2>3 DEF CallOK
<1>9. root = table[acc[Mine(t)].fd] /\ at = table[Here(q)] /\ last = table[q.prev] /\ q.stack = th[t].stack
      /\ q.ans = th[t].ans
  BY <1>5, <1>6
<1> DEFINE fd == s.prev
<1>10. fd \in Nat \ {0} /\ Insert(t, q, key, fd) /\ (Untouched(x, edits) => Leads(node, root, key, table[fd]))
  BY <1>1, <1>2, <1>4
<1>11. th[t].pc \in Calling /\ x = acc[Mine(t)]
  BY <1>1
<1> HIDE DEF root, at, last, key, fd, s, x
<1> QED BY <1>1, <1>3, <1>7, <1>8, <1>9, <1>10, <1>11, InsertIsExact

\* A call looks at the last name or opens it.
LEMMA AtLeafIsApt ==
  ASSUME NEW s \in ThreadStates, s.path # <<>>, s.cur = 0, ~s.leaf, s.op \in Ops, NEW q, q = AtLeaf(s)
  PROVE  /\ Apt(q) /\ q.cur = 0 /\ q.pc \in {"open", "leaf"}
         /\ q.pc = "open" => q.leaf /\ q.rel = <<Last(q.path)>> /\ q.k = 0
         /\ q.pc = "leaf" => ~q.leaf
<1>1. q.path = s.path /\ q.op = s.op
  BY AtLeafOK
<1>2. CASE s.op \in {"lstat", "readLink"}
  <2>1. q = [s EXCEPT !.pc = "leaf"]
    BY <1>2 DEF AtLeaf
  <2>2. q.pc = "leaf" /\ ~q.leaf /\ q.cur = 0
    BY <2>1 DEF ThreadStates
  <2> QED BY <1>1, <1>2, <2>2 DEF Apt
<1>3. CASE s.op \notin {"lstat", "readLink"}
  <2> DEFINE rel == <<Last(s.path)>>
  <2>1. q = [s EXCEPT !.pc = "open", !.leaf = TRUE, !.rel = rel, !.k = 0, !.cur = 0]
    BY <1>3 DEF AtLeaf
  <2>2. q.pc = "open" /\ q.leaf /\ q.rel = rel /\ q.k = 0 /\ q.cur = 0
    BY <2>1 DEF ThreadStates
  <2> QED BY <1>1, <1>3, <2>2 DEF Apt, Opening
<1> QED BY <1>2, <1>3

\* In the parent
LEMMA AtLeafKnows ==
  ASSUME NEW tree, NEW q, NEW root, NEW at, NEW before, q.cur = 0, q.pc \in {"open", "leaf"},
         q.pc = "open" => q.leaf /\ q.rel = <<Last(q.path)>> /\ q.k = 0,
         q.path # <<>>, Leads(tree, root, Parent(q.path), at)
  PROVE  CallOK(tree, q, root, at, before)
<1>1. NameOK(tree, q, root, at)
  BY DEF NameOK, Opening
<1>2. q.pc \in Opening => q.leaf
  BY DEF Opening
<1> QED BY <1>1, <1>2 DEF CallOK

\* The parent goes into the cache, and the last name is next.
LEMMA UpsertParentIsExact ==
  ASSUME AccessInv, ExactInv, NEW t \in Threads, UpsertParent(t)
  PROVE  ExactInv'
<1> DEFINE s == th[t]
           x == acc[Mine(t)]
           root == table[x.fd]
           at == table[Here(s)]
           before == table[s.prev]
           p == AtLeaf(s)
           own == {s.dir}
           q == [p EXCEPT !.own = own]
           up == Parent(s.path)
           fd == s.dir
<1>1. /\ s \in ThreadStates /\ UseOK(s, x) /\ s.pc = "upsert" /\ s.pc \in Calling
      /\ node' = node /\ edits' = edits /\ AccessInv' /\ Apt(s) /\ StackOK(t, s, acc)
  BY Facts, UpsertParentKeeps, CallIsApt DEF UpsertParent, Calling, PCs, Same
<1>2. s.cur = 0 /\ s.path # <<>> /\ ~s.leaf /\ s.op \in Ops /\ s.dir # 0 /\ s.dir \in Nat /\ Here(s) = s.dir
      /\ s.path \in Paths /\ Len(s.path) > 1
  BY <1>1 DEF UseOK, ToParent, Resolving, ThreadStates, Apt, Opening, StackOK, Here
<1>3. up \in Paths
  BY <1>2, ParentIsPath
<1>4. Untouched(x, edits) => Leads(node, root, up, at)
  <2> SUFFICES ASSUME Untouched(x, edits) PROVE Leads(node, root, up, at)
    OBVIOUS
  <2>1. CallOK(node, s, root, at, before)
    BY <1>1, CallFacts
  <2> HIDE DEF root, at, before, s
  <2>2. NameOK(node, s, root, at)
    BY <1>1, <2>1 DEF CallOK
  <2> QED BY <2>2 DEF NameOK
<1>5. /\ p \in ThreadStates /\ p.stack = s.stack /\ p.ans = s.ans /\ p.path = s.path /\ p.dir = s.dir
      /\ p.op = s.op
  <2> HIDE DEF s
  <2>1. s \in ThreadStates /\ s.path # <<>> /\ p = AtLeaf(s)
    BY <1>1, <1>2
  <2> HIDE DEF p
  <2> QED BY <2>1, AtLeafOK
<1>6. /\ Apt(p) /\ p.cur = 0 /\ p.pc \in {"open", "leaf"}
      /\ p.pc = "open" => p.leaf /\ p.rel = <<Last(p.path)>> /\ p.k = 0
  <2> HIDE DEF s
  <2>1. s \in ThreadStates /\ s.path # <<>> /\ p = AtLeaf(s)
    BY <1>1, <1>2
  <2> HIDE DEF p
  <2> QED BY <1>2, <2>1, AtLeafIsApt
<1>7. IF x.cached THEN Insert(t, q, Parent(q.path), q.dir) ELSE Go(t, q, acc, table, count)
  BY DEF UpsertParent, Goes
<1> HIDE DEF p, own
<1>8. /\ q.stack = p.stack /\ q.ans = p.ans /\ q.path = p.path /\ q.dir = p.dir /\ q.op = p.op /\ q.pc = p.pc
      /\ q.cur = p.cur /\ q.leaf = p.leaf /\ q.rel = p.rel /\ q.k = p.k
  BY <1>5 DEF ThreadStates
<1> HIDE DEF q
<1>9. Apt(q)
  BY <1>6, <1>8 DEF Apt
<1>10. Here(q) = Here(s)
  BY <1>2, <1>5, <1>6, <1>8 DEF Here
<1> DEFINE last == table[q.prev]
<1>11. ASSUME Untouched(x, edits) PROVE CallOK(node, q, root, at, last)
  <2>1. q.path # <<>> /\ Leads(node, root, Parent(q.path), at) /\ q.cur = 0 /\ q.pc \in {"open", "leaf"}
    BY <1>2, <1>4, <1>5, <1>6, <1>8, <1>11
  <2>2. q.pc = "open" => q.leaf /\ q.rel = <<Last(q.path)>> /\ q.k = 0
    BY <1>6, <1>8
  <2> HIDE DEF root, at, last
  <2> QED BY <2>1, <2>2, AtLeafKnows
<1>12. /\ root = table[acc[Mine(t)].fd] /\ at = table[Here(q)] /\ last = table[q.prev] /\ q.stack = th[t].stack
       /\ q.ans = th[t].ans /\ x = acc[Mine(t)] /\ th[t].pc \in Calling
  BY <1>1, <1>5, <1>8, <1>10
<1>13. Untouched(x, edits) => Leads(node, root, up, table[fd])
  BY <1>2, <1>4
<1>14. Parent(q.path) = up /\ q.dir = fd /\ fd \in Nat \ {0}
  BY <1>2, <1>5, <1>8
<1>15. Extends(table)
  BY AccessorFacts
<1> HIDE DEF root, at, last, up, fd, s, x
<1>16. CASE x.cached
  <2>1. Insert(t, q, up, fd)
    BY <1>7, <1>14, <1>16
  <2> QED BY <1>1, <1>3, <1>9, <1>11, <1>12, <1>13, <1>14, <2>1, InsertIsExact
<1>17. CASE ~x.cached
  <2>1. Go(t, q, acc, table, count)
    BY <1>7, <1>17
  <2> QED BY <1>1, <1>9, <1>11, <1>12, <1>15, <2>1, InCallIsExact
<1> QED BY <1>16, <1>17

\* A thread begins a call.
LEMMA BeginIsExact ==
  ASSUME AccessInv, AccessInv', ExactInv, NEW t \in Threads, th[t].stack # <<>>,
         NEW q, q.stack = th[t].stack, q.ans = NoAnswer, Apt(q), NEW tab, Extends(tab),
         NEW root, root = table[acc[Mine(t)].fd],
         NEW at, at = tab[Here(q)], NEW before, before = tab[q.prev],
         Untouched(acc[Mine(t)], edits) => CallOK(node, q, root, at, before),
         Go(t, q, acc, tab, count), node' = node, edits' = edits
  PROVE  ExactInv'
<1> DEFINE x == acc[Mine(t)]
<1>1. Mine(t) \in Accessors /\ x = acc[Last(q.stack)] /\ (Untouched(x, edits) => CallOK(node, q, root, at, before))
      /\ root = table[x.fd]
  BY MineIsMine DEF Mine
<1>2. AccessorOK(x, table) /\ x.fd \in DOMAIN table \cup {0}
  BY <1>1, AccessorFacts
<1>3. q.ans.op = None
  BY DEF NoAnswer
<1> HIDE DEF x
<1>4. x.kind = "dir" => tab[x.fd] = root
  BY <1>1, <1>2 DEF AccessorOK, Extends
<1>5. AnswerOK(node, q.ans, root)
  BY <1>3 DEF AnswerOK
<1>6. ThreadExact(node, edits, q, x, tab)
  BY <1>1, <1>3, <1>4, <1>5 DEF ThreadExact, Apt, Untouched
<1> QED BY <1>1, <1>6, StepIsExact

\* When a call has to look
LEMMA GoMeans ==
  ASSUME NEW kind \in {"dir", "file", "link"}, NEW op \in Ops, NEW path
  PROVE  /\ kind = "dir" /\ path # <<>> => AtOnce(kind, op, path) = "go"
         /\ kind = "file" /\ AtOnce(kind, op, path) = "go" => op = "readFile"
         /\ kind = "dir" /\ path = <<>> /\ AtOnce(kind, op, path) = "go" => op \in {"readDirectory", "descend"}
<1>1. kind = "dir" /\ path # <<>> => AtOnce(kind, op, path) = "go"
  BY DEF AtOnce
<1>2. CASE op = "lstat"
  BY <1>1, <1>2 DEF AtOnce
<1>3. CASE op = "readFile"
  BY <1>1, <1>3 DEF AtOnce
<1>4. CASE op = "readLink"
  BY <1>1, <1>4 DEF AtOnce
<1>5. CASE op \in {"readDirectory", "descend"}
  BY <1>1, <1>5 DEF AtOnce
<1> QED BY <1>1, <1>2, <1>3, <1>4, <1>5 DEF Ops

\* One name is in the root.
LEMMA OneNameIsInRoot ==
  ASSUME NEW tree \in Trees, NEW root \in Inside, NEW path \in Paths, Len(path) = 1
  PROVE  path # <<>> /\ Leads(tree, root, Parent(path), root)
<1> DEFINE n == Len(path) - 1
           up == SubSeq(path, 1, n)
<1>1. n = 0 /\ path # <<>>
  <2>1. Len(<<>>) = 0
    OBVIOUS
  <2> QED BY <2>1
<1>2. up = SubSeq(path, 1, 0)
  BY <1>1
<1>3. up = <<>>
  <2> HIDE DEF up
  <2> QED BY <1>2, SubSeqEmpty
<1>4. up \in Paths /\ Len(up) = 0 /\ Parent(path) = up
  <2> HIDE DEF n
  <2>1. Parent(path) = up
    BY DEF Parent, n
  <2> HIDE DEF up
  <2> QED BY <1>3, <2>1 DEF Paths
<1> HIDE DEF up, n
<1> QED BY <1>1, <1>4, RootLeads

\* An answer at once, or the start of a resolution
LEMMA CallIsExact ==
  ASSUME AccessInv, ExactInv, NEW t \in Threads, Call(t)
  PROVE  ExactInv'
<1> DEFINE a == acc[Mine(t)]
           root == table[a.fd]
           op == Head(th[t].todo).op
           path == Head(th[t].todo).path
           tail == Tail(th[t].todo)
           s == [th[t] EXCEPT !.todo = tail, !.op = op, !.path = path, !.ans = NoAnswer]
           now == AtOnce(a.kind, op, path)
           inode == IF now = "ok" THEN At(a.fd) ELSE None
           fd == NewFd(table)
           tab == Open(table, At(a.fd))
           file == [s EXCEPT !.pc = "read", !.dir = a.fd, !.size = a.size]
           list == [s EXCEPT !.pc = "list", !.dir = fd, !.own = {fd}]
           p == [s EXCEPT !.dir = a.fd]
           leaf == AtLeaf(p)
           evict == [s EXCEPT !.pc = "evict"]
<1>1. /\ th[t].pc = "idle" /\ th[t].todo # <<>> /\ op # "make" /\ node' = node /\ edits' = edits /\ AccessInv'
      /\ node \in Trees
  BY CallKeeps, AccessorFacts DEF Call, Same, World
<1>2. /\ th[t] \in ThreadStates /\ StackOK(t, th[t], acc) /\ th[t].cur = 0 /\ th[t].k = 0
      /\ th[t].todo \in Seq(Requests) /\ ~th[t].leaf
  BY <1>1, RestFacts, RestIsLeafless
<1>3. op \in Ops /\ path \in Paths /\ tail \in Seq(Requests)
  <2>1. Head(th[t].todo) \in Requests
    BY <1>1, <1>2
  <2> QED BY <1>1, <1>2, <2>1 DEF Requests
<1>4. th[t].stack # <<>>
  <2>1. th[t].todo[1].op # "make"
    BY <1>1, <1>2
  <2> QED BY <1>1, <1>2, <2>1 DEF StackOK
<1>5. /\ a \in AccessorStates /\ a.kind \in {"dir", "file", "link"} /\ AccessorOK(a, table)
      /\ a.fd \in DOMAIN table \cup {0} /\ a.fd \in Nat
  <2>1. Mine(t) \in Accessors /\ a.kind # None
    BY <1>4, MineIsMine
  <2> QED BY <2>1, AccessorFacts DEF AccessorStates
<1>6. /\ a.kind = "dir" /\ path # <<>> => now = "go"
      /\ a.kind = "file" /\ now = "go" => op = "readFile"
      /\ a.kind = "dir" /\ path = <<>> /\ now = "go" => op \in {"readDirectory", "descend"}
      /\ now = "go" => a.kind = "dir" \/ (a.kind = "file" /\ path = <<>>)
  BY <1>3, <1>5, GoMeans, AtOnceOK
<1>7. \/ now # "go" /\ Goes(t, Answer(s, now, inode))
      \/ a.kind = "file" /\ op = "readFile" /\ Go(t, file, acc, table, count)
      \/ a.kind = "dir" /\ path = <<>> /\ op \in {"readDirectory", "descend"} /\ Go(t, list, acc, tab, count)
      \/ a.kind = "dir" /\ Len(path) = 1 /\ Go(t, leaf, acc, table, count)
      \/ a.kind = "dir" /\ Len(path) > 1 /\ Go(t, evict, acc, table, count)
  <2> DEFINE G1 == Goes(t, Answer(s, now, inode))
             G2 == Go(t, file, acc, table, count)
             G3 == Go(t, list, acc, tab, count)
             G4 == Go(t, leaf, acc, table, count)
             G5 == Go(t, evict, acc, table, count)
  <2>1. (CASE now # "go" -> G1
           [] now = "go" /\ a.kind = "file" -> G2
           [] now = "go" /\ a.kind = "dir" /\ path = <<>> -> G3
           [] now = "go" /\ Len(path) = 1 -> G4
           [] now = "go" /\ Len(path) > 1 -> G5)
    BY DEF Call, Goes
  <2>2. G1 \in BOOLEAN /\ G2 \in BOOLEAN /\ G3 \in BOOLEAN /\ G4 \in BOOLEAN /\ G5 \in BOOLEAN
    BY DEF Go, Goes
  <2> HIDE DEF G1, G2, G3, G4, G5, now, path, op, a
  <2>4. path = <<>> => Len(path) = 0
    OBVIOUS
  <2>5. path = <<>> \/ Len(path) = 1 \/ Len(path) > 1
    <3>1. path \in Seq(STRING)
      BY <1>3 DEF Paths
    <3>2. Len(path) \in Nat /\ (Len(path) = 0 => path = <<>>)
      BY ONLY <3>1, EmptySeq
    <3> DEFINE n == Len(path)
    <3> HIDE DEF n
    <3>3. n \in Nat => n = 0 \/ n = 1 \/ n > 1
      OBVIOUS
    <3> QED BY <3>2, <3>3 DEF n
  <2>6. CASE now # "go"
    BY <2>1, <2>6 DEF G1
  <2>7. CASE now = "go" /\ a.kind = "file" /\ path = <<>>
    BY <1>6, <2>1, <2>4, <2>7 DEF G2
  <2>8. CASE now = "go" /\ a.kind = "dir" /\ path = <<>>
    BY <1>6, <2>1, <2>4, <2>8 DEF G3
  <2>9. CASE now = "go" /\ a.kind = "dir" /\ Len(path) = 1
    BY <2>1, <2>4, <2>9 DEF G4
  <2>10. CASE now = "go" /\ a.kind = "dir" /\ Len(path) > 1
    BY <2>1, <2>4, <2>10 DEF G5
  <2> QED BY <1>6, <2>5, <2>6, <2>7, <2>8, <2>9, <2>10
<1>8. a.kind = "dir" => a.fd # 0 /\ At(a.fd) \in Inside /\ root \in Inside
  <2> SUFFICES ASSUME a.kind = "dir" PROVE a.fd # 0 /\ At(a.fd) \in Inside /\ root \in Inside
    OBVIOUS
  <2>1. a.fd # 0 /\ a.fd \in DOMAIN table
    BY <1>5 DEF AccessorOK
  <2> QED BY <2>1, AtStays DEF At
<1>9. root = table[acc[Mine(t)].fd] /\ a = acc[Mine(t)] /\ leaf = AtLeaf(p)
  OBVIOUS
<1> HIDE DEF op, path, tail, now, a, inode, root
<1>10. s \in ThreadStates
  BY <1>2, <1>3, NoAnswerOK DEF ThreadStates
<1>11. /\ s.stack = th[t].stack /\ s.op = op /\ s.path = path /\ s.ans = NoAnswer /\ s.cur = 0 /\ s.k = 0 /\ ~s.leaf
       /\ s.pc = "idle"
  BY <1>1, <1>2 DEF ThreadStates
<1> HIDE DEF s, fd, tab, leaf
<1>12. CASE now # "go" /\ Goes(t, Answer(s, now, inode))
  <2>1. ~(Untouched(acc[Mine(t)], edits) /\ s.path # <<>>)
    BY <1>6, <1>9, <1>11, <1>12 DEF Untouched
  <2> QED BY <1>1, <1>4, <1>9, <1>11, <1>12, <2>1, AnswerIsExact
<1>13. CASE a.kind = "file" /\ op = "readFile" /\ Go(t, file, acc, table, count)
  <2>1. /\ file.stack = s.stack /\ file.op = op /\ file.ans = NoAnswer /\ file.pc = "read" /\ ~file.leaf
    BY <1>10, <1>11 DEF ThreadStates
  <2>2. Go(t, file, acc, table, count) /\ Extends(table)
    BY <1>13, AccessorFacts
  <2> DEFINE at == table[Here(file)]
             before == table[file.prev]
  <2>3. at = table[Here(file)] /\ before = table[file.prev]
    OBVIOUS
  <2> HIDE DEF file, at, before
  <2>4. Apt(file)
    BY <1>13, <2>1 DEF Apt
  <2>5. ~Untouched(acc[Mine(t)], edits)
    BY <1>9, <1>13 DEF Untouched
  <2> QED BY <1>1, <1>4, <1>9, <1>11, <2>1, <2>2, <2>3, <2>4, <2>5, BeginIsExact
<1>14. CASE a.kind = "dir" /\ path = <<>> /\ op \in {"readDirectory", "descend"} /\ Go(t, list, acc, tab, count)
  <2>1. Extends(tab)
    BY <1>8, <1>14, OpenExtends DEF tab, fd
  <2>2. /\ list.stack = s.stack /\ list.op = op /\ list.ans = NoAnswer /\ list.pc = "list" /\ ~list.leaf
        /\ list.path = path
    BY <1>10, <1>11 DEF ThreadStates
  <2>3. Go(t, list, acc, tab, count)
    BY <1>14
  <2> DEFINE at == tab[Here(list)]
             before == tab[list.prev]
  <2>4. at = tab[Here(list)] /\ before = tab[list.prev]
    OBVIOUS
  <2> HIDE DEF list, at, before
  <2>5. Apt(list)
    BY <1>14, <2>2 DEF Apt
  <2>6. CallOK(node, list, root, at, before)
    BY <1>14, <2>2 DEF CallOK, Opening
  <2> QED BY <1>1, <1>4, <1>9, <1>11, <2>1, <2>2, <2>3, <2>4, <2>5, <2>6, BeginIsExact
<1>15. CASE a.kind = "dir" /\ Len(path) = 1 /\ Go(t, leaf, acc, table, count)
  <2>1. p \in ThreadStates
    BY <1>5, <1>10 DEF ThreadStates
  <2>2. p.stack = s.stack /\ p.op = op /\ p.path = path /\ p.ans = NoAnswer /\ p.cur = 0 /\ ~p.leaf /\ p.dir = a.fd
    BY <1>10, <1>11 DEF ThreadStates
  <2> HIDE DEF p
  <2>3. path # <<>> /\ Leads(node, root, Parent(path), root)
    BY <1>1, <1>3, <1>8, <1>15, OneNameIsInRoot
  <2>4. leaf.stack = p.stack /\ leaf.op = p.op /\ leaf.ans = p.ans /\ leaf.dir = p.dir /\ leaf.path = p.path
    BY <1>9, <2>1, <2>2, <2>3, AtLeafOK
  <2>5. /\ Apt(leaf) /\ leaf.cur = 0 /\ leaf.pc \in {"open", "leaf"}
        /\ leaf.pc = "open" => leaf.leaf /\ leaf.rel = <<Last(leaf.path)>> /\ leaf.k = 0
    BY <1>3, <1>9, <2>1, <2>2, <2>3, AtLeafIsApt
  <2> DEFINE at == table[Here(leaf)]
             before == table[leaf.prev]
  <2>6. at = root
    BY <1>9, <2>2, <2>4, <2>5 DEF Here
  <2>7. at = table[Here(leaf)] /\ before = table[leaf.prev]
    OBVIOUS
  <2> HIDE DEF at, before
  <2>8. CallOK(node, leaf, root, at, before)
    <3>1. leaf.path # <<>> /\ Leads(node, root, Parent(leaf.path), at)
      BY <2>2, <2>3, <2>4, <2>6
    <3> QED BY <2>5, <3>1, AtLeafKnows
  <2>9. Go(t, leaf, acc, table, count) /\ Extends(table)
    BY <1>15, AccessorFacts
  <2> QED BY <1>1, <1>4, <1>9, <1>11, <2>2, <2>4, <2>5, <2>7, <2>8, <2>9, BeginIsExact
<1>16. CASE a.kind = "dir" /\ Len(path) > 1 /\ Go(t, evict, acc, table, count)
  <2>1. evict.pc = "evict" /\ ~evict.leaf /\ evict.ans = NoAnswer
    BY <1>10, <1>11 DEF ThreadStates
  <2>2. Goes(t, evict)
    BY <1>16 DEF Goes
  <2> HIDE DEF evict
  <2>3. evict.pc \notin Resolving /\ evict.ans.op = None
    BY <2>1 DEF Resolving, Opening, NoAnswer
  <2> QED BY <1>1, <2>1, <2>2, <2>3, SilentIsExact
<1> QED BY <1>7, <1>12, <1>13, <1>14, <1>15, <1>16

\* No accessor is younger than a change that comes after it.
LEMMA EditIsExact ==
  ASSUME AccessInv, ExactInv, Edit
  PROVE  ExactInv'
<1> DEFINE tree == node'
           now == edits'
<1>1. table' = table /\ acc' = acc /\ th' = th /\ now = edits - 1 /\ edits \in Nat /\ acc \in [Accessors -> AccessorStates]
  BY DEF Edit, AccessInv, TypeOK
<1> HIDE DEF tree, now
<1>2. ASSUME NEW x, x.kind = "dir" => x.since \in Nat /\ x.since >= edits PROVE ~Untouched(x, now)
  BY <1>1, <1>2 DEF Untouched
<1>3. ASSUME NEW a \in Accessors PROVE /\ acc[a].kind = "dir" => acc[a].since \in Nat /\ acc[a].since >= edits
  BY <1>1, <1>3 DEF ExactInv, AccessorExact, AccessorStates
<1>4. ASSUME NEW a \in Accessors PROVE AccessorExact(tree, now, acc[a], table)
  <2> DEFINE x == acc[a]
  <2>1. x.kind = "dir" => x.since \in Nat /\ x.since >= edits
    BY <1>3
  <2> HIDE DEF x
  <2>2. AccessorExact(tree, now, x, table)
    BY <1>1, <1>2, <2>1 DEF AccessorExact
  <2> QED BY <2>2 DEF x
<1>5. ASSUME NEW t \in Threads PROVE ThreadExact(tree, now, th[t], acc[Mine(t)], table)
  <2> DEFINE x == acc[Mine(t)]
             s == th[t]
  <2>1. ThreadExact(node, edits, s, x, table)
    BY DEF ExactInv
  <2>2. s.stack # <<>> => Mine(t) \in Accessors
    BY MineIsMine
  <2>3. s.stack # <<>> => (x.kind = "dir" => x.since \in Nat /\ x.since >= edits)
    BY <1>3, <2>2
  <2> HIDE DEF x, s
  <2>4. s.stack # <<>> => ~Untouched(x, now)
    BY <1>2, <2>3
  <2>5. ThreadExact(tree, now, s, x, table)
    BY <2>1, <2>4 DEF ThreadExact
  <2> QED BY <2>5 DEF s, x
<1> QED BY <1>1, <1>4, <1>5 DEF ExactInv, Mine, tree, now

LEMMA StutterIsExact ==
  ASSUME ExactInv, UNCHANGED vars
  PROVE  ExactInv'
BY DEF vars, ExactInv, Mine

\* No accessor, no answer
LEMMA InitIsExact == Init => ExactInv
<1> SUFFICES ASSUME Init PROVE ExactInv
  OBVIOUS
<1>1. acc = [a \in Accessors |-> NoAccessor]
  BY DEF Init
<1>2. PICK todo : th = [t \in Threads |-> NewThread(todo[t])]
  <2>1. PICK s \in Scenarios : th = [t \in Threads |-> NewThread(s.todo[t])]
    BY DEF Init
  <2> QED BY <2>1
<1>3. ASSUME NEW a \in Accessors PROVE AccessorExact(node, edits, acc[a], table)
  <2>1. acc[a].kind # "dir"
    BY <1>1 DEF NoAccessor, None
  <2> QED BY <2>1 DEF AccessorExact, Untouched
<1>4. ASSUME NEW t \in Threads PROVE ThreadExact(node, edits, th[t], acc[Mine(t)], table)
  <2> DEFINE s == th[t]
             x == acc[Mine(t)]
  <2>1. s.pc = "idle" /\ ~s.leaf /\ s.ans.op = None
    BY <1>2 DEF NewThread, NoAnswer
  <2> HIDE DEF s, x
  <2>2. s.pc \notin Resolving
    BY <2>1 DEF Resolving, Opening
  <2>3. ThreadExact(node, edits, s, x, table)
    BY <2>1, <2>2, RestIsExact
  <2> QED BY <2>3 DEF s, x
<1> QED BY <1>3, <1>4 DEF ExactInv

--------------------------------------------------------------------------------
(* The theorems *)

(* Whatever the threads ask, however their steps interleave and whatever   *)
(* another process does to the tree, each descriptor in use is open and    *)
(* has its owner: the one a call works from belongs to the call or to the  *)
(* accessor of that call, also while another thread empties the caches.    *)
THEOREM AccessHolds == Spec => []AccessInv
<1>1. ASSUME AccessInv, [Next]_vars PROVE AccessInv'
  <2>1. CASE Edit
    BY <1>1, <2>1, EditKeeps
  <2>2. CASE UNCHANGED vars
    BY <1>1, <2>2, StutterKeeps
  <2>3. CASE Finished
    BY <1>1, <2>3, StutterKeeps DEF Finished
  <2>4. ASSUME NEW t \in Threads, Make(t) \/ Call(t) \/ Drop(t)
        PROVE  AccessInv'
    BY <1>1, <2>4, MakeKeeps, CallKeeps, DropKeeps
  <2>5. ASSUME NEW t \in Threads, Step(t)
        PROVE  AccessInv'
    <3>1. CASE MakeLink(t) \/ Register(t) \/ Leaf(t) \/ Read(t) \/ List(t)
      BY <1>1, <3>1, MakeLinkKeeps, RegisterKeeps, LeafKeeps, ReadKeeps, ListKeeps
    <3>2. CASE Evict(t) \/ LockRegistry(t) \/ Sweep(t) \/ Clear(t) \/ FindAncestor(t)
      BY <1>1, <3>2, EvictKeeps, LockRegistryKeeps, SweepKeeps, ClearKeeps, FindAncestorKeeps
    <3>3. CASE TryOpenAt2(t) \/ Walk(t) \/ Why(t) \/ Callback(t) \/ UpsertParent(t)
      BY <1>1, <3>3, TryOpenAt2Keeps, WalkKeeps, WhyKeeps, CallbackKeeps, UpsertParentKeeps
    <3> QED BY <2>5, <3>1, <3>2, <3>3 DEF Step
  <2> QED BY <1>1, <2>1, <2>2, <2>3, <2>4, <2>5 DEF Next
<1> QED BY <1>1, InitHolds, PTL DEF Spec

(* The global counter is the number of cached descriptors after every      *)
(* insertion, promotion, eviction (also of another thread's cache, also by *)
(* the eviction that held an accessor last) and destruction, whatever the  *)
(* capacity, and no cache outgrows its capacity.                           *)
THEOREM CounterIsExact == Spec => []CountIsExact
<1>1. AccessInv => CountIsExact
  BY DEF AccessInv, OwnersInv, AccessorOK, CountIsExact
<1> QED BY <1>1, AccessHolds, PTL

(* No descriptor and no answer is for an inode that only a symlink leads   *)
(* to, however the tree is changed between two openat calls of a walk,     *)
(* with openat2 and without, from a cached ancestor or from the root.      *)
THEOREM StaysBeneathRoot == Spec => []NeverLeavesRoot
<1>1. AccessInv => NeverLeavesRoot
  BY DEF AccessInv, OwnersInv, ReadOK, NeverLeavesRoot
<1> QED BY <1>1, AccessHolds, PTL

(* A call to readFile that returns has delivered the bytes it announced,   *)
(* and none has delivered more, whatever becomes of the file meanwhile.    *)
THEOREM DumpsAreFramed == Spec => []DumpIsWellFramed
<1>1. AccessInv => DumpIsWellFramed
  BY DEF AccessInv, OwnersInv, ReadOK, DumpIsWellFramed
<1> QED BY <1>1, AccessHolds, PTL

(* The accessor a traversal is handed works in the directory whose names   *)
(* it was given, as long as that accessor lives: its descriptor stays open *)
(* and its number is not given to something else.                          *)
THEOREM EntersWhatItListed == Spec => []ListedIsEntered
<1>1. AccessInv => ListedIsEntered
  BY DEF AccessInv, OwnersInv, AccessorOK, ListedIsEntered, At
<1> QED BY <1>1, AccessHolds, PTL

(* As long as the tree is as it was when the accessor was made, the        *)
(* descriptor of every call and of every cache entry is the directory that *)
(* its path leads to from the root, and every answer is that of a fresh    *)
(* resolution; a change of the tree ends this for the accessors there are. *)
THEOREM ExactHolds == Spec => []ExactInv
<1>1. ASSUME AccessInv, ExactInv, [Next]_vars PROVE ExactInv'
  <2>1. CASE Edit
    BY <1>1, <2>1, EditIsExact
  <2>2. CASE UNCHANGED vars
    BY <1>1, <2>2, StutterIsExact
  <2>3. CASE Finished
    BY <1>1, <2>3, StutterIsExact DEF Finished
  <2>4. ASSUME NEW t \in Threads, Make(t) \/ Call(t) \/ Drop(t)
        PROVE  ExactInv'
    BY <1>1, <2>4, MakeIsExact, CallIsExact, DropIsExact
  <2>5. ASSUME NEW t \in Threads, Step(t)
        PROVE  ExactInv'
    <3>1. CASE MakeLink(t) \/ Register(t) \/ Leaf(t) \/ Read(t) \/ List(t)
      BY <1>1, <3>1, MakeLinkIsExact, RegisterIsExact, LeafIsExact, ReadIsExact, ListIsExact
    <3>2. CASE Evict(t) \/ LockRegistry(t) \/ Sweep(t) \/ Clear(t) \/ FindAncestor(t)
      BY <1>1, <3>2, EvictIsExact, LockRegistryIsExact, SweepIsExact, ClearIsExact, FindAncestorIsExact
    <3>3. CASE TryOpenAt2(t) \/ Walk(t) \/ Why(t) \/ Callback(t) \/ UpsertParent(t)
      BY <1>1, <3>3, TryOpenAt2IsExact, WalkIsExact, WhyIsExact, CallbackIsExact, UpsertParentIsExact
    <3> QED BY <2>5, <3>1, <3>2, <3>3 DEF Step
  <2> QED BY <1>1, <2>1, <2>2, <2>3, <2>4, <2>5 DEF Next
<1> QED BY <1>1, InitIsExact, AccessHolds, PTL DEF Spec

(* Neither the cache, its keys below a cached ancestor, the way the parent *)
(* was opened, nor an eviction in the middle of the call changes what a    *)
(* call answers, for any tree, any capacity and any limit.                 *)
THEOREM CachesChangeNoAnswer == Spec => []AnswersAreExact
<1>1. ASSUME AccessInv, ExactInv, NEW t \in Threads PROVE
        LET ans == th[t].ans
            a == acc[Mine(t)]
            root == At(a.fd)
        IN  th[t].pc = "idle" /\ ans.op # None /\ ans.path # <<>> /\ a.kind = "dir" /\ a.since = edits
            => /\ ans.err = Reference(node, root, ans.op, ans.path)
               /\ ans.err = "ok" =>
                    ans.node = Lookup(node, OpenAt2(node, root, Parent(ans.path), TRUE).node, Last(ans.path))
  <2> DEFINE ans == th[t].ans
             a == acc[Mine(t)]
             root == At(a.fd)
             at == table[a.fd]
  <2> SUFFICES ASSUME ans.op # None, ans.path # <<>>, a.kind = "dir", a.since = edits
      PROVE  /\ ans.err = Reference(node, root, ans.op, ans.path)
             /\ ans.err = "ok" =>
                  ans.node = Lookup(node, OpenAt2(node, root, Parent(ans.path), TRUE).node, Last(ans.path))
    OBVIOUS
  <2>1. ThreadExact(node, edits, th[t], a, table)
    BY <1>1 DEF ExactInv
  <2>2. th[t].stack # <<>>
    BY <2>1 DEF ThreadExact
  <2>3. Mine(t) \in Accessors
    BY <1>1, <2>2, MineIsMine
  <2>4. a.fd \in DOMAIN table
    BY <1>1, <2>3, AccessorFacts DEF AccessorOK
  <2>5. root = at
    BY <2>4 DEF At
  <2>6. AnswerOK(node, ans, at)
    BY <2>1, <2>2 DEF ThreadExact, Untouched
  <2> HIDE DEF ans, root, at, a
  <2> QED BY <2>5, <2>6 DEF AnswerOK
<1>2. AccessInv /\ ExactInv => AnswersAreExact
  BY <1>1 DEF AnswersAreExact
<1> QED BY <1>2, AccessHolds, ExactHolds, PTL
=============================================================================
