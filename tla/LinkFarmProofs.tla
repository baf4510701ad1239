--------------------------- MODULE LinkFarmProofs ---------------------------
(***************************************************************************)
(* Entries of the farm tell their content, relinking keeps the content of  *)
(* a file, and what was optimised ends up shared; for any processes,       *)
(* nodes, contents and inodes.                                             *)
(***************************************************************************)
EXTENDS LinkFarm, TLAPS

\* The inode of a restored file had no name.
LEMMA RestoreInode ==
  ASSUME NEW p \in Procs, NEW n \in Nodes, Restore(p, n)
  PROVE  \E i \in Inodes :
           /\ \A m \in Nodes : node[m] # i
           /\ \A h \in Hashes : farm[h] # i
           /\ \A q \in Procs : temp[q] # i
           /\ node' = [node EXCEPT ![n] = i]
           /\ data' = [data EXCEPT ![i] = Want[n]]
           /\ meta' = [meta EXCEPT ![i] = "canonical"]
<1>1. PICK i \in Inodes :
        /\ NamesOf(i) = {}
        /\ node' = [node EXCEPT ![n] = i]
        /\ data' = [data EXCEPT ![i] = Want[n]]
        /\ meta' = [meta EXCEPT ![i] = "canonical"]
  BY DEF Restore
<1> QED
  BY <1>1 DEF NamesOf

\* A file that a program writes to shares its inode with no name.
LEMMA TouchedInode ==
  ASSUME TypeOK, NEW n \in Nodes, Touch(n)
  PROVE  /\ node[n] \in Inodes
         /\ \A m \in Nodes : m # n => node[m] # node[n]
         /\ \A h \in Hashes : farm[h] # node[n]
         /\ \A q \in Procs : temp[q] # node[n]
<1>1. /\ node[n] \in Inodes
      /\ NamesOf(node[n]) = {n}
  BY DEF TypeOK, Touch
<1> QED
  BY <1>1, NamesAssumption, EmptyAssumption DEF NamesOf, Hashes

\* A process that is through with its node keeps its types.
LEMMA ThroughTypes ==
  ASSUME TypeOK, NEW p \in Procs, Through(p)
  PROVE  /\ pc' \in [Procs -> PCs]
         /\ job' \in [Procs -> Nodes \cup Hashes \cup {None}]
         /\ st' \in [Procs -> Inodes \cup {None}]
         /\ size' \in [Procs -> Nat]
         /\ key' \in [Procs -> Hashes \cup {None}]
         /\ link' \in [Procs -> Inodes \cup {None}]
         /\ temp' \in [Procs -> Inodes \cup {None}]
  BY DEF TypeOK, Through, Rest, PCs

\* What a node should contain has a hash.
LEMMA WantIsHash == \A n \in Nodes : Want[n] \in Contents /\ Want[n] \in Hashes
BY WantAssumption DEF Hashes

\* Sizes are numbers, and that of a file that is not empty is not 0.
LEMMA SizeIsNat ==
  ASSUME TypeOK, NEW i \in Inodes
  PROVE  SizeOf(data[i]) \in Nat /\ (data[i] # "empty" => SizeOf(data[i]) > 0)
BY SizeAssumption DEF TypeOK, Hashes, SizeOf

\* An entry that tells the truth and has a size other than 0 is intact.
LEMMA FitsIntact ==
  ASSUME EveryKeyTellsContent, NEW h \in Hashes, NEW s \in Nat \ {0}, Fits(farm[h], s)
  PROVE  Intact(h)
BY DEF EveryKeyTellsContent, Fits, Intact, SizeOf

\* A step preserves the type invariant.
LEMMA TypeStep ==
  ASSUME TypeOK, \A p \in Procs : JobInv(p), Next
  PROVE  TypeOK'
<1> USE WantAssumption
      DEF TypeOK, JobInv, Keyed, Hashes, PCs, Metas, ImportPCs, OptimisePCs, Goto, Settle, Rest,
          names, files, locals, history
<1>1. ASSUME NEW p \in Procs, NEW n \in Nodes, Restore(p, n)
      PROVE  TypeOK'
  BY <1>1, RestoreInode DEF Restore
<1>2. ASSUME NEW p \in Procs, Probe(p)
      PROVE  TypeOK'
  <2>1. CASE Through(p)
    BY <1>2, <2>1, ThroughTypes DEF Probe
  <2>2. CASE ~Through(p)
    BY <1>2, <2>2 DEF Probe
  <2> QED
    BY <2>1, <2>2
<1>3. ASSUME NEW p \in Procs, SwapLink(p)
      PROVE  TypeOK'
  <2>1. CASE Through(p)
    BY <1>3, <2>1, ThroughTypes DEF SwapLink
  <2>2. CASE ~Through(p)
    BY <1>3, <2>2 DEF SwapLink
  <2> QED
    BY <2>1, <2>2
<1>4. ASSUME NEW p \in Procs, SwapRename(p)
      PROVE  TypeOK'
  BY <1>4, ThroughTypes DEF SwapRename
<1>5. ASSUME NEW p \in Procs, StartOptimise(p)
      PROVE  TypeOK'
  BY <1>5 DEF StartOptimise
<1>6. ASSUME NEW p \in Procs, NEW n \in Nodes, Skip(p, n)
      PROVE  TypeOK'
  BY <1>6 DEF Skip
<1>7. ASSUME NEW p \in Procs, NEW n \in Nodes, Visit(p, n)
      PROVE  TypeOK'
  BY <1>7 DEF Visit
<1>8. ASSUME NEW p \in Procs, EndOptimise(p)
      PROVE  TypeOK'
  BY <1>8 DEF EndOptimise
<1>9. ASSUME NEW p \in Procs, Stat(p)
      PROVE  TypeOK'
  <2>1. CASE Through(p)
    BY <1>9, <2>1, ThroughTypes DEF Stat
  <2>2. CASE ~Through(p)
    BY <1>9, <2>2, SizeIsNat DEF Stat
  <2> QED
    BY <2>1, <2>2
<1>10. ASSUME NEW p \in Procs, Hash(p)
      PROVE  TypeOK'
  <2>1. CASE Through(p)
    BY <1>10, <2>1, ThroughTypes DEF Hash
  <2>2. CASE ~Through(p)
    BY <1>10, <2>2 DEF Hash
  <2> QED
    BY <2>1, <2>2
<1>11. ASSUME NEW p \in Procs, Look(p)
      PROVE  TypeOK'
  BY <1>11 DEF Look
<1>12. ASSUME NEW p \in Procs, UnlinkBad(p)
      PROVE  TypeOK'
  BY <1>12 DEF UnlinkBad
<1>13. ASSUME NEW p \in Procs, CreateEntry(p)
      PROVE  TypeOK'
  <2>1. /\ farm' \in [Hashes -> Inodes \cup {None}]
        /\ known' \in [Procs -> SUBSET Inodes]
        /\ settled' \in SUBSET Nodes
    <3>1. st[p] \in Inodes \cup {None} /\ node[job[p]] \in Inodes \cup {None}
      BY <1>13 DEF CreateEntry
    <3>2. known[p] \cup {st[p]} \in SUBSET Inodes
      BY <1>13 DEF CreateEntry
    <3> QED
      BY <1>13, <3>1, <3>2 DEF CreateEntry
  <2>2. CASE Through(p)
    BY <1>13, <2>1, <2>2, ThroughTypes DEF CreateEntry
  <2>3. CASE ~Through(p)
    BY <1>13, <2>1, <2>3 DEF CreateEntry
  <2> QED
    BY <2>2, <2>3
<1>14. ASSUME NEW p \in Procs, Relook(p)
      PROVE  TypeOK'
  <2>1. CASE Through(p)
    BY <1>14, <2>1, ThroughTypes DEF Relook
  <2>2. CASE ~Through(p)
    BY <1>14, <2>2 DEF Relook
  <2> QED
    BY <2>1, <2>2
<1>15. ASSUME NEW p \in Procs, Compare(p)
      PROVE  TypeOK'
  <2>1. CASE Through(p)
    BY <1>15, <2>1, ThroughTypes DEF Compare
  <2>2. CASE ~Through(p)
    BY <1>15, <2>2 DEF Compare
  <2> QED
    BY <2>1, <2>2
<1>16. ASSUME NEW p \in Procs, TempLink(p)
      PROVE  TypeOK'
  <2>1. CASE Through(p)
    BY <1>16, <2>1, ThroughTypes DEF TempLink
  <2>2. CASE ~Through(p)
    BY <1>16, <2>2 DEF TempLink
  <2> QED
    BY <2>1, <2>2
<1>17. ASSUME NEW p \in Procs, Rename(p)
      PROVE  TypeOK'
  BY <1>17, ThroughTypes DEF Rename
<1>18. ASSUME NEW p \in Procs, NEW h \in Hashes, PruneStat(p, h)
      PROVE  TypeOK'
  BY <1>18 DEF PruneStat
<1>19. ASSUME NEW p \in Procs, PruneUnlink(p)
      PROVE  TypeOK'
  BY <1>19, ThroughTypes DEF PruneUnlink
<1>20. ASSUME NEW n \in Nodes, Delete(n)
      PROVE  TypeOK'
  BY <1>20 DEF Delete
<1>21. ASSUME NEW n \in Nodes, Touch(n)
      PROVE  TypeOK'
  <2>1. PICK c \in Foreign, m \in {"touched", "writable"} :
          /\ data' = [data EXCEPT ![node[n]] = c]
          /\ meta' = [meta EXCEPT ![node[n]] = m]
    BY <1>21 DEF Touch
  <2>2. node[n] \in Inodes
    BY <1>21 DEF Touch
  <2>3. data' \in [Inodes -> Hashes]
    BY <2>1, <2>2 DEF Foreign
  <2>4. meta' \in [Inodes -> Metas]
    BY <2>1, <2>2
  <2>5. spoils' \in Nat
    BY <1>21 DEF Touch
  <2> QED
    BY <1>21, <2>3, <2>4, <2>5 DEF Touch
<1>22. ASSUME NEW i \in Inodes, Tear(i)
      PROVE  TypeOK'
  <2>1. data' \in [Inodes -> Hashes]
    BY <1>22 DEF Tear
  <2>2. spoils' \in Nat
    BY <1>22 DEF Tear
  <2> QED
    BY <1>22, <2>1, <2>2 DEF Tear
<1> QED
  BY <1>1, <1>2, <1>3, <1>4, <1>5, <1>6, <1>7, <1>8, <1>9, <1>10, <1>11, <1>12, <1>13,
     <1>14, <1>15, <1>16, <1>17, <1>18, <1>19, <1>20, <1>21, <1>22
     DEF Next, Import, Optimise, Collect, Outside

\* A step preserves contents, nodes and farm entries.
LEMMA DiskStep ==
  ASSUME TypeOK, \A p \in Procs : JobInv(p), Sound, Next
  PROVE  (MetaInv /\ NodeInv /\ EveryKeyTellsContent)'
<1> USE NoneAssumption, WantAssumption, EmptyAssumption
      DEF Sound, TypeOK, MetaInv, NodeInv, EveryKeyTellsContent, JobInv, KeyInv, TempInv,
          LookedInv, Keyed, Hashes, ImportInv, Foreign, ImportPCs, OptimisePCs, Goto, Intact, Through,
          names, files, locals, history
<1>1. ASSUME NEW p \in Procs, NEW n \in Nodes, Restore(p, n)
      PROVE  (MetaInv /\ NodeInv /\ EveryKeyTellsContent)'
  <2>1. PICK i \in Inodes :
          /\ \A m \in Nodes : node[m] # i
          /\ \A h \in Hashes : farm[h] # i
          /\ \A q \in Procs : temp[q] # i
          /\ node' = [node EXCEPT ![n] = i]
          /\ data' = [data EXCEPT ![i] = Want[n]]
          /\ meta' = [meta EXCEPT ![i] = "canonical"]
    BY <1>1, RestoreInode
  <2> QED
    BY <1>1, <2>1 DEF Restore
<1>2. ASSUME NEW p \in Procs, Probe(p)
      PROVE  (MetaInv /\ NodeInv /\ EveryKeyTellsContent)'
  BY <1>2 DEF Probe
<1>3. ASSUME NEW p \in Procs, SwapLink(p)
      PROVE  (MetaInv /\ NodeInv /\ EveryKeyTellsContent)'
  BY <1>3 DEF SwapLink
<1>4. ASSUME NEW p \in Procs, SwapRename(p)
      PROVE  (MetaInv /\ NodeInv /\ EveryKeyTellsContent)'
  BY <1>4 DEF SwapRename
<1>5. ASSUME NEW p \in Procs, StartOptimise(p)
      PROVE  (MetaInv /\ NodeInv /\ EveryKeyTellsContent)'
  BY <1>5 DEF StartOptimise
<1>6. ASSUME NEW p \in Procs, NEW n \in Nodes, Skip(p, n)
      PROVE  (MetaInv /\ NodeInv /\ EveryKeyTellsContent)'
  BY <1>6 DEF Skip
<1>7. ASSUME NEW p \in Procs, NEW n \in Nodes, Visit(p, n)
      PROVE  (MetaInv /\ NodeInv /\ EveryKeyTellsContent)'
  BY <1>7 DEF Visit
<1>8. ASSUME NEW p \in Procs, EndOptimise(p)
      PROVE  (MetaInv /\ NodeInv /\ EveryKeyTellsContent)'
  BY <1>8 DEF EndOptimise
<1>9. ASSUME NEW p \in Procs, Stat(p)
      PROVE  (MetaInv /\ NodeInv /\ EveryKeyTellsContent)'
  BY <1>9 DEF Stat
<1>10. ASSUME NEW p \in Procs, Hash(p)
      PROVE  (MetaInv /\ NodeInv /\ EveryKeyTellsContent)'
  BY <1>10 DEF Hash
<1>11. ASSUME NEW p \in Procs, Look(p)
      PROVE  (MetaInv /\ NodeInv /\ EveryKeyTellsContent)'
  BY <1>11 DEF Look
<1>12. ASSUME NEW p \in Procs, UnlinkBad(p)
      PROVE  (MetaInv /\ NodeInv /\ EveryKeyTellsContent)'
  BY <1>12 DEF UnlinkBad
<1>13. ASSUME NEW p \in Procs, CreateEntry(p)
      PROVE  (MetaInv /\ NodeInv /\ EveryKeyTellsContent)'
  BY <1>13 DEF CreateEntry
<1>14. ASSUME NEW p \in Procs, Relook(p)
      PROVE  (MetaInv /\ NodeInv /\ EveryKeyTellsContent)'
  BY <1>14 DEF Relook
<1>15. ASSUME NEW p \in Procs, Compare(p)
      PROVE  (MetaInv /\ NodeInv /\ EveryKeyTellsContent)'
  BY <1>15 DEF Compare
<1>16. ASSUME NEW p \in Procs, TempLink(p)
      PROVE  (MetaInv /\ NodeInv /\ EveryKeyTellsContent)'
  BY <1>16 DEF TempLink
<1>17. ASSUME NEW p \in Procs, Rename(p)
      PROVE  (MetaInv /\ NodeInv /\ EveryKeyTellsContent)'
  BY <1>17 DEF Rename
<1>18. ASSUME NEW p \in Procs, NEW h \in Hashes, PruneStat(p, h)
      PROVE  (MetaInv /\ NodeInv /\ EveryKeyTellsContent)'
  BY <1>18 DEF PruneStat
<1>19. ASSUME NEW p \in Procs, PruneUnlink(p)
      PROVE  (MetaInv /\ NodeInv /\ EveryKeyTellsContent)'
  BY <1>19 DEF PruneUnlink
<1>20. ASSUME NEW n \in Nodes, Delete(n)
      PROVE  (MetaInv /\ NodeInv /\ EveryKeyTellsContent)'
  BY <1>20 DEF Delete
<1>21. ASSUME NEW n \in Nodes, Touch(n)
      PROVE  (MetaInv /\ NodeInv /\ EveryKeyTellsContent)'
  <2>1. PICK c \in Foreign, m \in {"touched", "writable"} :
          /\ data' = [data EXCEPT ![node[n]] = c]
          /\ meta' = [meta EXCEPT ![node[n]] = m]
    BY <1>21 DEF Touch
  <2>2. /\ node[n] \in Inodes
        /\ \A k \in Nodes : k # n => node[k] # node[n]
        /\ \A h \in Hashes : farm[h] # node[n]
        /\ \A q \in Procs : temp[q] # node[n] /\ job[q] # n
    BY <1>21, TouchedInode DEF Touch
  <2> QED
    BY <1>21, <2>1, <2>2 DEF Touch
<1>22. ASSUME NEW i \in Inodes, Tear(i)
      PROVE  (MetaInv /\ NodeInv /\ EveryKeyTellsContent)'
  BY <1>22 DEF Tear
<1> QED
  BY <1>1, <1>2, <1>3, <1>4, <1>5, <1>6, <1>7, <1>8, <1>9, <1>10, <1>11, <1>12, <1>13,
     <1>14, <1>15, <1>16, <1>17, <1>18, <1>19, <1>20, <1>21, <1>22
     DEF Next, Import, Optimise, Collect, Outside

\* A step preserves what each process works on.
LEMMA JobStep ==
  ASSUME TypeOK, \A p \in Procs : JobInv(p), Next
  PROVE  \A q \in Procs : JobInv(q)'
<1> USE NoneAssumption, WantAssumption, EmptyAssumption
      DEF TypeOK, JobInv, Keyed, Hashes, Foreign, ImportPCs, OptimisePCs, Goto, Through,
          Rest, names, files, locals, history
<1>1. ASSUME NEW p \in Procs, NEW n \in Nodes, Restore(p, n)
      PROVE  \A q \in Procs : JobInv(q)'
  BY <1>1, RestoreInode DEF Restore
<1>2. ASSUME NEW p \in Procs, Probe(p)
      PROVE  \A q \in Procs : JobInv(q)'
  BY <1>2 DEF Probe
<1>3. ASSUME NEW p \in Procs, SwapLink(p)
      PROVE  \A q \in Procs : JobInv(q)'
  BY <1>3 DEF SwapLink
<1>4. ASSUME NEW p \in Procs, SwapRename(p)
      PROVE  \A q \in Procs : JobInv(q)'
  BY <1>4 DEF SwapRename
<1>5. ASSUME NEW p \in Procs, StartOptimise(p)
      PROVE  \A q \in Procs : JobInv(q)'
  BY <1>5 DEF StartOptimise
<1>6. ASSUME NEW p \in Procs, NEW n \in Nodes, Skip(p, n)
      PROVE  \A q \in Procs : JobInv(q)'
  BY <1>6 DEF Skip
<1>7. ASSUME NEW p \in Procs, NEW n \in Nodes, Visit(p, n)
      PROVE  \A q \in Procs : JobInv(q)'
  BY <1>7 DEF Visit
<1>8. ASSUME NEW p \in Procs, EndOptimise(p)
      PROVE  \A q \in Procs : JobInv(q)'
  BY <1>8 DEF EndOptimise
<1>9. ASSUME NEW p \in Procs, Stat(p)
      PROVE  \A q \in Procs : JobInv(q)'
  BY <1>9, SizeIsNat DEF Stat, Farmable
<1>10. ASSUME NEW p \in Procs, Hash(p)
      PROVE  \A q \in Procs : JobInv(q)'
  BY <1>10 DEF Hash
<1>11. ASSUME NEW p \in Procs, Look(p)
      PROVE  \A q \in Procs : JobInv(q)'
  BY <1>11 DEF Look
<1>12. ASSUME NEW p \in Procs, UnlinkBad(p)
      PROVE  \A q \in Procs : JobInv(q)'
  BY <1>12 DEF UnlinkBad
<1>13. ASSUME NEW p \in Procs, CreateEntry(p)
      PROVE  \A q \in Procs : JobInv(q)'
  BY <1>13 DEF CreateEntry
<1>14. ASSUME NEW p \in Procs, Relook(p)
      PROVE  \A q \in Procs : JobInv(q)'
  BY <1>14 DEF Relook
<1>15. ASSUME NEW p \in Procs, Compare(p)
      PROVE  \A q \in Procs : JobInv(q)'
  BY <1>15 DEF Compare
<1>16. ASSUME NEW p \in Procs, TempLink(p)
      PROVE  \A q \in Procs : JobInv(q)'
  BY <1>16 DEF TempLink
<1>17. ASSUME NEW p \in Procs, Rename(p)
      PROVE  \A q \in Procs : JobInv(q)'
  BY <1>17 DEF Rename
<1>18. ASSUME NEW p \in Procs, NEW h \in Hashes, PruneStat(p, h)
      PROVE  \A q \in Procs : JobInv(q)'
  BY <1>18 DEF PruneStat
<1>19. ASSUME NEW p \in Procs, PruneUnlink(p)
      PROVE  \A q \in Procs : JobInv(q)'
  BY <1>19 DEF PruneUnlink
<1>20. ASSUME NEW n \in Nodes, Delete(n)
      PROVE  \A q \in Procs : JobInv(q)'
  BY <1>20 DEF Delete
<1>21. ASSUME NEW n \in Nodes, Touch(n)
      PROVE  \A q \in Procs : JobInv(q)'
  BY <1>21, TouchedInode DEF Touch
<1>22. ASSUME NEW i \in Inodes, Tear(i)
      PROVE  \A q \in Procs : JobInv(q)'
  BY <1>22 DEF Tear
<1> QED
  BY <1>1, <1>2, <1>3, <1>4, <1>5, <1>6, <1>7, <1>8, <1>9, <1>10, <1>11, <1>12, <1>13,
     <1>14, <1>15, <1>16, <1>17, <1>18, <1>19, <1>20, <1>21, <1>22
     DEF Next, Import, Optimise, Collect, Outside

\* A step preserves the keys.
LEMMA KeyStep ==
  ASSUME TypeOK, \A p \in Procs : JobInv(p), Sound, Next, ~crossed'
  PROVE  \A q \in Procs : KeyInv(q)'
<1> USE NoneAssumption, WantAssumption, EmptyAssumption
      DEF Sound, TypeOK, MetaInv, NodeInv, JobInv, KeyInv, AgreeInv, TempInv, ImportInv,
          Keyed, Hashes, Foreign,
          ImportPCs, OptimisePCs, Goto, Through, Rest, Farmable, names, files, locals,
          history
<1>1. ASSUME NEW p \in Procs, NEW n \in Nodes, Restore(p, n)
      PROVE  \A q \in Procs : KeyInv(q)'
  <2>1. PICK i \in Inodes :
          /\ \A m \in Nodes : node[m] # i
          /\ \A h \in Hashes : farm[h] # i
          /\ \A q \in Procs : temp[q] # i
          /\ node' = [node EXCEPT ![n] = i]
          /\ data' = [data EXCEPT ![i] = Want[n]]
          /\ meta' = [meta EXCEPT ![i] = "canonical"]
    BY <1>1, RestoreInode
  <2> TAKE q \in Procs
  <2>2. CASE q = p
    BY <1>1, <2>2 DEF Restore
  <2>3. CASE q # p /\ job[q] = n
    <3>1. Keyed(q) => key[q] = Want[n]
      BY <1>1, <2>3 DEF Restore
    <3>2. node'[n] = i /\ data'[i] = Want[n]
      BY <2>1
    <3>3. pc'[q] = pc[q] /\ job'[q] = n /\ key'[q] = key[q]
      BY <1>1, <2>3 DEF Restore
    <3> QED
      BY <3>1, <3>2, <3>3
  <2>4. CASE q # p /\ job[q] # n
    BY <1>1, <2>1, <2>4 DEF Restore
  <2> QED
    BY <2>2, <2>3, <2>4
<1>2. ASSUME NEW p \in Procs, Probe(p)
      PROVE  \A q \in Procs : KeyInv(q)'
  BY <1>2 DEF Probe
<1>3. ASSUME NEW p \in Procs, SwapLink(p)
      PROVE  \A q \in Procs : KeyInv(q)'
  BY <1>3 DEF SwapLink
<1>4. ASSUME NEW p \in Procs, SwapRename(p)
      PROVE  \A q \in Procs : KeyInv(q)'
  BY <1>4 DEF SwapRename
<1>5. ASSUME NEW p \in Procs, StartOptimise(p)
      PROVE  \A q \in Procs : KeyInv(q)'
  BY <1>5 DEF StartOptimise
<1>6. ASSUME NEW p \in Procs, NEW n \in Nodes, Skip(p, n)
      PROVE  \A q \in Procs : KeyInv(q)'
  BY <1>6 DEF Skip
<1>7. ASSUME NEW p \in Procs, NEW n \in Nodes, Visit(p, n)
      PROVE  \A q \in Procs : KeyInv(q)'
  BY <1>7 DEF Visit
<1>8. ASSUME NEW p \in Procs, EndOptimise(p)
      PROVE  \A q \in Procs : KeyInv(q)'
  BY <1>8 DEF EndOptimise
<1>9. ASSUME NEW p \in Procs, Stat(p)
      PROVE  \A q \in Procs : KeyInv(q)'
  BY <1>9 DEF Stat
<1>10. ASSUME NEW p \in Procs, Hash(p)
      PROVE  \A q \in Procs : KeyInv(q)'
  BY <1>10 DEF Hash
<1>11. ASSUME NEW p \in Procs, Look(p)
      PROVE  \A q \in Procs : KeyInv(q)'
  BY <1>11 DEF Look
<1>12. ASSUME NEW p \in Procs, UnlinkBad(p)
      PROVE  \A q \in Procs : KeyInv(q)'
  BY <1>12 DEF UnlinkBad
<1>13. ASSUME NEW p \in Procs, CreateEntry(p)
      PROVE  \A q \in Procs : KeyInv(q)'
  BY <1>13 DEF CreateEntry
<1>14. ASSUME NEW p \in Procs, Relook(p)
      PROVE  \A q \in Procs : KeyInv(q)'
  BY <1>14 DEF Relook
<1>15. ASSUME NEW p \in Procs, Compare(p)
      PROVE  \A q \in Procs : KeyInv(q)'
  BY <1>15 DEF Compare
<1>16. ASSUME NEW p \in Procs, TempLink(p)
      PROVE  \A q \in Procs : KeyInv(q)'
  BY <1>16 DEF TempLink
<1>17. ASSUME NEW p \in Procs, Rename(p)
      PROVE  \A q \in Procs : KeyInv(q)'
  BY <1>17 DEF Rename
<1>18. ASSUME NEW p \in Procs, NEW h \in Hashes, PruneStat(p, h)
      PROVE  \A q \in Procs : KeyInv(q)'
  BY <1>18 DEF PruneStat
<1>19. ASSUME NEW p \in Procs, PruneUnlink(p)
      PROVE  \A q \in Procs : KeyInv(q)'
  BY <1>19 DEF PruneUnlink
<1>20. ASSUME NEW n \in Nodes, Delete(n)
      PROVE  \A q \in Procs : KeyInv(q)'
  BY <1>20 DEF Delete
<1>21. ASSUME NEW n \in Nodes, Touch(n)
      PROVE  \A q \in Procs : KeyInv(q)'
  <2>1. PICK c \in Foreign, m \in {"touched", "writable"} :
          /\ data' = [data EXCEPT ![node[n]] = c]
          /\ meta' = [meta EXCEPT ![node[n]] = m]
    BY <1>21 DEF Touch
  <2>2. /\ node[n] \in Inodes
        /\ \A k \in Nodes : k # n => node[k] # node[n]
        /\ \A h \in Hashes : farm[h] # node[n]
        /\ \A q \in Procs : temp[q] # node[n] /\ job[q] # n
    BY <1>21, TouchedInode DEF Touch
  <2> QED
    BY <1>21, <2>1, <2>2 DEF Touch
<1>22. ASSUME NEW i \in Inodes, Tear(i)
      PROVE  \A q \in Procs : KeyInv(q)'
  BY <1>22 DEF Tear
<1> QED
  BY <1>1, <1>2, <1>3, <1>4, <1>5, <1>6, <1>7, <1>8, <1>9, <1>10, <1>11, <1>12, <1>13,
     <1>14, <1>15, <1>16, <1>17, <1>18, <1>19, <1>20, <1>21, <1>22
     DEF Next, Import, Optimise, Collect, Outside

\* A step preserves the agreement of those who work on one file.
LEMMA AgreeStep ==
  ASSUME TypeOK, \A p \in Procs : JobInv(p), Sound, Next, ~crossed'
  PROVE  AgreeInv'
<1> USE NoneAssumption, WantAssumption, EmptyAssumption
      DEF Sound, TypeOK, MetaInv, NodeInv, JobInv, KeyInv, AgreeInv, TempInv, ImportInv,
          Keyed, Hashes, Foreign,
          ImportPCs, OptimisePCs, Goto, Through, Rest, Farmable, names, files, locals,
          history
<1>1. ASSUME NEW p \in Procs, NEW n \in Nodes, Restore(p, n)
      PROVE  AgreeInv'
  <2> SUFFICES ASSUME NEW q \in Procs, NEW r \in Procs, Keyed(q)', job'[r] = job'[q]
               PROVE  /\ Keyed(r)' => key'[r] = key'[q]
                      /\ pc'[r] \in ImportPCs => key'[q] = Want[job'[q]]
    BY DEF AgreeInv
  <2>1. /\ pc' = [pc EXCEPT ![p] = "probe"] /\ job' = [job EXCEPT ![p] = n] /\ key' = key
        /\ \A t \in Procs : Keyed(t) /\ job[t] = n => key[t] = Want[n]
    BY <1>1 DEF Restore
  <2>2. q # p /\ Keyed(q)
    BY <2>1
  <2>3. CASE r = p
    BY <2>1, <2>2, <2>3
  <2>4. CASE r # p
    BY <2>1, <2>2, <2>4
  <2> QED
    BY <2>3, <2>4
<1>2. ASSUME NEW p \in Procs, Probe(p)
      PROVE  AgreeInv'
  BY <1>2 DEF Probe
<1>3. ASSUME NEW p \in Procs, SwapLink(p)
      PROVE  AgreeInv'
  BY <1>3 DEF SwapLink
<1>4. ASSUME NEW p \in Procs, SwapRename(p)
      PROVE  AgreeInv'
  BY <1>4 DEF SwapRename
<1>5. ASSUME NEW p \in Procs, StartOptimise(p)
      PROVE  AgreeInv'
  BY <1>5 DEF StartOptimise
<1>6. ASSUME NEW p \in Procs, NEW n \in Nodes, Skip(p, n)
      PROVE  AgreeInv'
  BY <1>6 DEF Skip
<1>7. ASSUME NEW p \in Procs, NEW n \in Nodes, Visit(p, n)
      PROVE  AgreeInv'
  BY <1>7 DEF Visit
<1>8. ASSUME NEW p \in Procs, EndOptimise(p)
      PROVE  AgreeInv'
  BY <1>8 DEF EndOptimise
<1>9. ASSUME NEW p \in Procs, Stat(p)
      PROVE  AgreeInv'
  BY <1>9 DEF Stat
<1>10. ASSUME NEW p \in Procs, Hash(p)
      PROVE  AgreeInv'
  BY <1>10 DEF Hash
<1>11. ASSUME NEW p \in Procs, Look(p)
      PROVE  AgreeInv'
  BY <1>11 DEF Look
<1>12. ASSUME NEW p \in Procs, UnlinkBad(p)
      PROVE  AgreeInv'
  BY <1>12 DEF UnlinkBad
<1>13. ASSUME NEW p \in Procs, CreateEntry(p)
      PROVE  AgreeInv'
  BY <1>13 DEF CreateEntry
<1>14. ASSUME NEW p \in Procs, Relook(p)
      PROVE  AgreeInv'
  BY <1>14 DEF Relook
<1>15. ASSUME NEW p \in Procs, Compare(p)
      PROVE  AgreeInv'
  BY <1>15 DEF Compare
<1>16. ASSUME NEW p \in Procs, TempLink(p)
      PROVE  AgreeInv'
  BY <1>16 DEF TempLink
<1>17. ASSUME NEW p \in Procs, Rename(p)
      PROVE  AgreeInv'
  BY <1>17 DEF Rename
<1>18. ASSUME NEW p \in Procs, NEW h \in Hashes, PruneStat(p, h)
      PROVE  AgreeInv'
  BY <1>18 DEF PruneStat
<1>19. ASSUME NEW p \in Procs, PruneUnlink(p)
      PROVE  AgreeInv'
  BY <1>19 DEF PruneUnlink
<1>20. ASSUME NEW n \in Nodes, Delete(n)
      PROVE  AgreeInv'
  BY <1>20 DEF Delete
<1>21. ASSUME NEW n \in Nodes, Touch(n)
      PROVE  AgreeInv'
  <2>1. PICK c \in Foreign, m \in {"touched", "writable"} :
          /\ data' = [data EXCEPT ![node[n]] = c]
          /\ meta' = [meta EXCEPT ![node[n]] = m]
    BY <1>21 DEF Touch
  <2>2. /\ node[n] \in Inodes
        /\ \A k \in Nodes : k # n => node[k] # node[n]
        /\ \A h \in Hashes : farm[h] # node[n]
        /\ \A q \in Procs : temp[q] # node[n] /\ job[q] # n
    BY <1>21, TouchedInode DEF Touch
  <2> QED
    BY <1>21, <2>1, <2>2 DEF Touch
<1>22. ASSUME NEW i \in Inodes, Tear(i)
      PROVE  AgreeInv'
  BY <1>22 DEF Tear
<1> QED
  BY <1>1, <1>2, <1>3, <1>4, <1>5, <1>6, <1>7, <1>8, <1>9, <1>10, <1>11, <1>12, <1>13,
     <1>14, <1>15, <1>16, <1>17, <1>18, <1>19, <1>20, <1>21, <1>22
     DEF Next, Import, Optimise, Collect, Outside

\* A step preserves the links.
LEMMA LinkStep ==
  ASSUME TypeOK, \A p \in Procs : JobInv(p), Sound, Next
  PROVE  \A q \in Procs : LookedInv(q)' /\ TempInv(q)'
<1> USE NoneAssumption, WantAssumption, EmptyAssumption
      DEF Sound, TypeOK, EveryKeyTellsContent, JobInv, KeyInv, LookedInv, TempInv, Intact,
          Keyed, Hashes,
          ImportPCs, OptimisePCs, Goto, Through, Rest, names, files, locals, history
<1>1. ASSUME NEW p \in Procs, NEW n \in Nodes, Restore(p, n)
      PROVE  \A q \in Procs : LookedInv(q)' /\ TempInv(q)'
  <2>1. PICK i \in Inodes :
          /\ \A m \in Nodes : node[m] # i
          /\ \A h \in Hashes : farm[h] # i
          /\ \A q \in Procs : temp[q] # i
          /\ node' = [node EXCEPT ![n] = i]
          /\ data' = [data EXCEPT ![i] = Want[n]]
          /\ meta' = [meta EXCEPT ![i] = "canonical"]
    BY <1>1, RestoreInode
  <2> QED
    BY <1>1, <2>1 DEF Restore
<1>2. ASSUME NEW p \in Procs, Probe(p)
      PROVE  \A q \in Procs : LookedInv(q)' /\ TempInv(q)'
  <2>1. CASE Fits(farm[Want[job[p]]], Size[Want[job[p]]])
    <3>1. Intact(Want[job[p]])
      <4>1. job[p] \in Nodes
        BY <1>2 DEF Probe
      <4> QED
        BY <2>1, <4>1, WantIsHash, SizeAssumption, FitsIntact DEF Sound
    <3> QED
      BY <1>2, <2>1, <3>1 DEF Probe
  <2>2. CASE ~Fits(farm[Want[job[p]]], Size[Want[job[p]]])
    BY <1>2, <2>2 DEF Probe
  <2> QED
    BY <2>1, <2>2
<1>3. ASSUME NEW p \in Procs, SwapLink(p)
      PROVE  \A q \in Procs : LookedInv(q)' /\ TempInv(q)'
  BY <1>3 DEF SwapLink
<1>4. ASSUME NEW p \in Procs, SwapRename(p)
      PROVE  \A q \in Procs : LookedInv(q)' /\ TempInv(q)'
  BY <1>4 DEF SwapRename
<1>5. ASSUME NEW p \in Procs, StartOptimise(p)
      PROVE  \A q \in Procs : LookedInv(q)' /\ TempInv(q)'
  BY <1>5 DEF StartOptimise
<1>6. ASSUME NEW p \in Procs, NEW n \in Nodes, Skip(p, n)
      PROVE  \A q \in Procs : LookedInv(q)' /\ TempInv(q)'
  BY <1>6 DEF Skip
<1>7. ASSUME NEW p \in Procs, NEW n \in Nodes, Visit(p, n)
      PROVE  \A q \in Procs : LookedInv(q)' /\ TempInv(q)'
  BY <1>7 DEF Visit
<1>8. ASSUME NEW p \in Procs, EndOptimise(p)
      PROVE  \A q \in Procs : LookedInv(q)' /\ TempInv(q)'
  BY <1>8 DEF EndOptimise
<1>9. ASSUME NEW p \in Procs, Stat(p)
      PROVE  \A q \in Procs : LookedInv(q)' /\ TempInv(q)'
  BY <1>9 DEF Stat
<1>10. ASSUME NEW p \in Procs, Hash(p)
      PROVE  \A q \in Procs : LookedInv(q)' /\ TempInv(q)'
  BY <1>10 DEF Hash
<1>11. ASSUME NEW p \in Procs, Look(p)
      PROVE  \A q \in Procs : LookedInv(q)' /\ TempInv(q)'
  <2>1. key[p] \in Hashes /\ size[p] \in Nat \ {0}
    BY <1>11 DEF Look
  <2>2. Fits(farm[key[p]], size[p]) => Intact(key[p])
    BY <2>1, FitsIntact DEF Sound
  <2>3. ASSUME pc'[p] \in {"create", "compare"} PROVE farm[key[p]] = None \/ Intact(key[p])
    BY <1>11, <2>2, <2>3 DEF Look
  <2> QED
    BY <1>11, <2>3 DEF Look
<1>12. ASSUME NEW p \in Procs, UnlinkBad(p)
      PROVE  \A q \in Procs : LookedInv(q)' /\ TempInv(q)'
  BY <1>12 DEF UnlinkBad
<1>13. ASSUME NEW p \in Procs, CreateEntry(p)
      PROVE  \A q \in Procs : LookedInv(q)' /\ TempInv(q)'
  <2>1. CASE UNCHANGED farm
    BY <1>13, <2>1 DEF CreateEntry
  <2>2. CASE ~UNCHANGED farm
    <3>1. /\ farm' = [farm EXCEPT ![key[p]] = node[job[p]]]
          /\ node[job[p]] # None /\ data[node[job[p]]] = key[p]
          /\ pc'[p] = "walk" /\ data' = data
          /\ \A q \in Procs \ {p} : /\ pc'[q] = pc[q] /\ job'[q] = job[q] /\ key'[q] = key[q]
                                     /\ temp'[q] = temp[q]
      BY <1>13, <2>2 DEF CreateEntry
    <3>2. farm'[key[p]] = node[job[p]] /\ \A h \in Hashes \ {key[p]} : farm'[h] = farm[h]
      BY <1>13, <3>1 DEF CreateEntry
    <3>3. ASSUME NEW h \in Hashes, farm[h] = None \/ Intact(h)
          PROVE  farm'[h] = None \/ Intact(h)'
      BY <3>1, <3>2, <3>3
    <3>4. \A n \in Nodes : Want[n] \in Hashes
      BY WantIsHash
    <3> QED
      BY <3>1, <3>3, <3>4
  <2> QED
    BY <2>1, <2>2
<1>14. ASSUME NEW p \in Procs, Relook(p)
      PROVE  \A q \in Procs : LookedInv(q)' /\ TempInv(q)'
  BY <1>14 DEF Relook
<1>15. ASSUME NEW p \in Procs, Compare(p)
      PROVE  \A q \in Procs : LookedInv(q)' /\ TempInv(q)'
  BY <1>15 DEF Compare
<1>16. ASSUME NEW p \in Procs, TempLink(p)
      PROVE  \A q \in Procs : LookedInv(q)' /\ TempInv(q)'
  BY <1>16 DEF TempLink
<1>17. ASSUME NEW p \in Procs, Rename(p)
      PROVE  \A q \in Procs : LookedInv(q)' /\ TempInv(q)'
  BY <1>17 DEF Rename
<1>18. ASSUME NEW p \in Procs, NEW h \in Hashes, PruneStat(p, h)
      PROVE  \A q \in Procs : LookedInv(q)' /\ TempInv(q)'
  BY <1>18 DEF PruneStat
<1>19. ASSUME NEW p \in Procs, PruneUnlink(p)
      PROVE  \A q \in Procs : LookedInv(q)' /\ TempInv(q)'
  BY <1>19 DEF PruneUnlink
<1>20. ASSUME NEW n \in Nodes, Delete(n)
      PROVE  \A q \in Procs : LookedInv(q)' /\ TempInv(q)'
  BY <1>20 DEF Delete
<1>21. ASSUME NEW n \in Nodes, Touch(n)
      PROVE  \A q \in Procs : LookedInv(q)' /\ TempInv(q)'
  <2>1. PICK c \in Foreign, m \in {"touched", "writable"} :
          /\ data' = [data EXCEPT ![node[n]] = c]
          /\ meta' = [meta EXCEPT ![node[n]] = m]
    BY <1>21 DEF Touch
  <2>2. /\ node[n] \in Inodes
        /\ \A k \in Nodes : k # n => node[k] # node[n]
        /\ \A h \in Hashes : farm[h] # node[n]
        /\ \A q \in Procs : temp[q] # node[n] /\ job[q] # n
    BY <1>21, TouchedInode DEF Touch
  <2> QED
    BY <1>21, <2>1, <2>2 DEF Touch
<1>22. ASSUME NEW i \in Inodes, Tear(i)
      PROVE  \A q \in Procs : LookedInv(q)' /\ TempInv(q)'
  BY <1>22 DEF Tear
<1> QED
  BY <1>1, <1>2, <1>3, <1>4, <1>5, <1>6, <1>7, <1>8, <1>9, <1>10, <1>11, <1>12, <1>13,
     <1>14, <1>15, <1>16, <1>17, <1>18, <1>19, <1>20, <1>21, <1>22
     DEF Next, Import, Optimise, Collect, Outside

\* A step preserves the importers.
LEMMA ImportStep ==
  ASSUME TypeOK, \A p \in Procs : JobInv(p), Sound, Next, ~crossed'
  PROVE  \A q \in Procs : ImportInv(q)'
<1> USE NoneAssumption, WantAssumption, EmptyAssumption
      DEF Sound, TypeOK, JobInv, KeyInv, AgreeInv, TempInv, ImportInv, Keyed, ImportPCs, OptimisePCs, Goto,
          Through, Rest, names, files, locals, history
<1>1. ASSUME NEW p \in Procs, NEW n \in Nodes, Restore(p, n)
      PROVE  \A q \in Procs : ImportInv(q)'
  <2>1. PICK i \in Inodes :
          /\ \A m \in Nodes : node[m] # i
          /\ \A h \in Hashes : farm[h] # i
          /\ \A q \in Procs : temp[q] # i
          /\ node' = [node EXCEPT ![n] = i]
          /\ data' = [data EXCEPT ![i] = Want[n]]
          /\ meta' = [meta EXCEPT ![i] = "canonical"]
    BY <1>1, RestoreInode
  <2> QED
    BY <1>1, <2>1 DEF Restore
<1>2. ASSUME NEW p \in Procs, Probe(p)
      PROVE  \A q \in Procs : ImportInv(q)'
  BY <1>2 DEF Probe
<1>3. ASSUME NEW p \in Procs, SwapLink(p)
      PROVE  \A q \in Procs : ImportInv(q)'
  BY <1>3 DEF SwapLink
<1>4. ASSUME NEW p \in Procs, SwapRename(p)
      PROVE  \A q \in Procs : ImportInv(q)'
  BY <1>4 DEF SwapRename
<1>5. ASSUME NEW p \in Procs, StartOptimise(p)
      PROVE  \A q \in Procs : ImportInv(q)'
  BY <1>5 DEF StartOptimise
<1>6. ASSUME NEW p \in Procs, NEW n \in Nodes, Skip(p, n)
      PROVE  \A q \in Procs : ImportInv(q)'
  BY <1>6 DEF Skip
<1>7. ASSUME NEW p \in Procs, NEW n \in Nodes, Visit(p, n)
      PROVE  \A q \in Procs : ImportInv(q)'
  BY <1>7 DEF Visit
<1>8. ASSUME NEW p \in Procs, EndOptimise(p)
      PROVE  \A q \in Procs : ImportInv(q)'
  BY <1>8 DEF EndOptimise
<1>9. ASSUME NEW p \in Procs, Stat(p)
      PROVE  \A q \in Procs : ImportInv(q)'
  BY <1>9 DEF Stat
<1>10. ASSUME NEW p \in Procs, Hash(p)
      PROVE  \A q \in Procs : ImportInv(q)'
  BY <1>10 DEF Hash
<1>11. ASSUME NEW p \in Procs, Look(p)
      PROVE  \A q \in Procs : ImportInv(q)'
  BY <1>11 DEF Look
<1>12. ASSUME NEW p \in Procs, UnlinkBad(p)
      PROVE  \A q \in Procs : ImportInv(q)'
  BY <1>12 DEF UnlinkBad
<1>13. ASSUME NEW p \in Procs, CreateEntry(p)
      PROVE  \A q \in Procs : ImportInv(q)'
  BY <1>13 DEF CreateEntry
<1>14. ASSUME NEW p \in Procs, Relook(p)
      PROVE  \A q \in Procs : ImportInv(q)'
  BY <1>14 DEF Relook
<1>15. ASSUME NEW p \in Procs, Compare(p)
      PROVE  \A q \in Procs : ImportInv(q)'
  BY <1>15 DEF Compare
<1>16. ASSUME NEW p \in Procs, TempLink(p)
      PROVE  \A q \in Procs : ImportInv(q)'
  BY <1>16 DEF TempLink
<1>17. ASSUME NEW p \in Procs, Rename(p)
      PROVE  \A q \in Procs : ImportInv(q)'
  BY <1>17 DEF Rename
<1>18. ASSUME NEW p \in Procs, NEW h \in Hashes, PruneStat(p, h)
      PROVE  \A q \in Procs : ImportInv(q)'
  BY <1>18 DEF PruneStat
<1>19. ASSUME NEW p \in Procs, PruneUnlink(p)
      PROVE  \A q \in Procs : ImportInv(q)'
  BY <1>19 DEF PruneUnlink
<1>20. ASSUME NEW n \in Nodes, Delete(n)
      PROVE  \A q \in Procs : ImportInv(q)'
  BY <1>20 DEF Delete
<1>21. ASSUME NEW n \in Nodes, Touch(n)
      PROVE  \A q \in Procs : ImportInv(q)'
  <2>1. PICK c \in Foreign, m \in {"touched", "writable"} :
          /\ data' = [data EXCEPT ![node[n]] = c]
          /\ meta' = [meta EXCEPT ![node[n]] = m]
    BY <1>21 DEF Touch
  <2>2. /\ node[n] \in Inodes
        /\ \A k \in Nodes : k # n => node[k] # node[n]
        /\ \A h \in Hashes : farm[h] # node[n]
        /\ \A q \in Procs : temp[q] # node[n] /\ job[q] # n
    BY <1>21, TouchedInode DEF Touch
  <2> QED
    BY <1>21, <2>1, <2>2 DEF Touch
<1>22. ASSUME NEW i \in Inodes, Tear(i)
      PROVE  \A q \in Procs : ImportInv(q)'
  BY <1>22 DEF Tear
<1> QED
  BY <1>1, <1>2, <1>3, <1>4, <1>5, <1>6, <1>7, <1>8, <1>9, <1>10, <1>11, <1>12, <1>13,
     <1>14, <1>15, <1>16, <1>17, <1>18, <1>19, <1>20, <1>21, <1>22
     DEF Next, Import, Optimise, Collect, Outside

\* A path that came back under an optimiser is not forgotten.
LEMMA CrossedStays ==
  ASSUME TypeOK, Next, crossed
  PROVE  crossed'
BY DEF Next, Import, Optimise, Collect, Outside, Restore, Probe, SwapLink, SwapRename,
       StartOptimise, Skip, Visit, EndOptimise, Stat, Hash, Look, UnlinkBad, CreateEntry,
       Relook, Compare, TempLink, Rename, PruneStat, PruneUnlink, Delete, Touch, Tear, history

\* A stuttering step preserves the invariant.
LEMMA Stutter ==
  ASSUME IInv, UNCHANGED vars
  PROVE  IInv'
<1>1. TypeOK'
  BY DEF IInv, TypeOK, vars, names, files, locals, history
<1>2. \A p \in Procs : JobInv(p)'
  BY DEF IInv, JobInv, Keyed, vars, locals
<1>3. ASSUME Sound PROVE Sound'
  <2>1. (MetaInv /\ NodeInv /\ EveryKeyTellsContent /\ AgreeInv)'
    BY <1>3 DEF Sound, MetaInv, NodeInv, EveryKeyTellsContent, AgreeInv, Keyed, Foreign,
                vars, names, files, locals
  <2>2. \A p \in Procs : KeyInv(p)'
    BY <1>3 DEF Sound, KeyInv, Keyed, Foreign, vars, names, files, locals
  <2>3. \A p \in Procs : LookedInv(p)' /\ TempInv(p)' /\ ImportInv(p)'
    BY <1>3 DEF Sound, LookedInv, TempInv, ImportInv, Intact, vars, names, files, locals
  <2> QED BY <2>1, <2>2, <2>3 DEF Sound
<1> QED
  BY <1>1, <1>2, <1>3 DEF IInv, vars, history

\* The invariant that links contents, nodes, farm entries and the optimisers'
\* stale knowledge of them holds in every behaviour: its types always, the rest
\* until a path comes back under an optimiser that goes by the hash of what it had.
THEOREM InvariantHolds == Spec => []IInv
<1>1. Init => IInv
  <2> SUFFICES ASSUME Init PROVE IInv
    OBVIOUS
  <2>1. TypeOK
    BY DEF Init, TypeOK, PCs, Metas, Hashes
  <2>2. MetaInv /\ NodeInv /\ EveryKeyTellsContent
    BY EmptyAssumption DEF Init, MetaInv, NodeInv, EveryKeyTellsContent, Foreign
  <2>3. AgreeInv /\ \A p \in Procs :
          JobInv(p) /\ KeyInv(p) /\ LookedInv(p) /\ TempInv(p) /\ ImportInv(p)
    BY DEF Init, AgreeInv, JobInv, KeyInv, LookedInv, TempInv, ImportInv, Keyed, ImportPCs,
           OptimisePCs
  <2> QED
    BY <2>1, <2>2, <2>3 DEF IInv, Sound
<1>2. IInv /\ [Next]_vars => IInv'
  <2> SUFFICES ASSUME IInv, [Next]_vars PROVE IInv'
    OBVIOUS
  <2>1. CASE Next
    <3>1. TypeOK' /\ \A p \in Procs : JobInv(p)'
      BY <2>1, TypeStep, JobStep DEF IInv
    <3>2. ASSUME ~crossed' PROVE Sound'
      <4>1. TypeOK /\ (\A p \in Procs : JobInv(p)) /\ Sound
        BY <2>1, <3>2, CrossedStays DEF IInv
      <4> QED
        BY <2>1, <3>2, <4>1, DiskStep, KeyStep, AgreeStep, LinkStep, ImportStep DEF Sound
    <3> QED
      BY <3>1, <3>2 DEF IInv
  <2>2. CASE UNCHANGED vars
    BY <2>2, Stutter
  <2> QED
    BY <2>1, <2>2
<1> QED
  BY <1>1, <1>2, PTL DEF Spec

\* A farm entry has the content its name tells, or none at all, whoever deletes,
\* restores, prunes and optimises at a time: a wrong hash is never published before
\* a path came back under an optimiser that goes by the hash of what it had.
THEOREM FarmIsTrue == Spec => []KeysTellContent
<1>1. IInv => KeysTellContent
  BY DEF IInv, Sound, KeysTellContent
<1> QED
  BY <1>1, InvariantHolds, PTL

\* A name that moves to another inode finds the same content there: neither the
\* optimiser nor the streamed dedup changes a file of a store path, before a path
\* came back under an optimiser that goes by the hash of what it had.
THEOREM DedupIsInvisible == Spec => RelinkKeepsContent
<1>1. ASSUME IInv, Next, ~crossed, NEW n \in Nodes,
             node'[n] # node[n], node[n] # None, node'[n] # None
      PROVE  data[node'[n]] = data[node[n]]
  <2> USE <1>1, NoneAssumption
  <2>1. /\ node \in [Nodes -> Inodes \cup {None}]
        /\ \A p \in Procs : JobInv(p) /\ KeyInv(p) /\ TempInv(p) /\ ImportInv(p)
    BY DEF IInv, Sound, TypeOK
  <2>2. \/ \E p \in Procs : SwapRename(p) \/ Rename(p)
        \/ \E p \in Procs, m \in Nodes : Restore(p, m)
        \/ \E m \in Nodes : Delete(m)
    BY DEF Next, Import, Optimise, Collect, Outside, Probe, SwapLink, StartOptimise,
       EndOptimise,
           Skip, Visit, Stat, Hash, Look, UnlinkBad, CreateEntry, Relook, Compare, TempLink,
           PruneStat, PruneUnlink, Touch, Tear, names
  <2>3. ASSUME NEW p \in Procs, SwapRename(p)
        PROVE  data[node'[n]] = data[node[n]]
    BY <2>1, <2>3 DEF SwapRename, JobInv, TempInv, ImportInv, ImportPCs
  <2>4. ASSUME NEW p \in Procs, Rename(p)
        PROVE  data[node'[n]] = data[node[n]]
    BY <2>1, <2>4 DEF Rename, JobInv, TempInv, KeyInv, Keyed, OptimisePCs
  <2>5. ASSUME NEW p \in Procs, NEW m \in Nodes, Restore(p, m)
        PROVE  FALSE
    BY <2>1, <2>5 DEF Restore
  <2>6. ASSUME NEW m \in Nodes, Delete(m)
        PROVE  FALSE
    BY <2>1, <2>6 DEF Delete
  <2> QED
    BY <2>2, <2>3, <2>4, <2>5, <2>6
<1>2. IInv /\ [Next]_vars =>
        [~crossed =>
           \A n \in Nodes :
             node'[n] # node[n] /\ node[n] # None /\ node'[n] # None =>
               data[node'[n]] = data[node[n]]]_vars
  BY <1>1
<1> QED
  BY <1>2, InvariantHolds, PTL DEF Spec, RelinkKeepsContent

-----------------------------------------------------------------------------
(* Convergence *)

\* In a step that removes and spoils nothing, nothing was before.
LEMMA CalmBefore ==
  ASSUME IInv, SharedInv, Next, Calm'
  PROVE  /\ Calm /\ ~crossed /\ CalmFiles /\ SettledInv /\ \A p \in Procs : CalmProcess(p)
         /\ \/ \E p \in Procs, n \in Nodes : Restore(p, n) \/ Skip(p, n) \/ Visit(p, n)
            \/ \E p \in Procs : \/ Probe(p) \/ SwapLink(p) \/ SwapRename(p) \/ StartOptimise(p)
                                \/ EndOptimise(p) \/ Stat(p) \/ Hash(p) \/ Look(p) \/ CreateEntry(p)
                                \/ Relook(p) \/ Compare(p) \/ TempLink(p) \/ Rename(p)
            \/ \E p \in Procs, h \in Hashes : PruneStat(p, h)
<1>1. ASSUME NEW p \in Procs, UnlinkBad(p) \/ PruneUnlink(p) PROVE FALSE
  BY <1>1 DEF UnlinkBad, PruneUnlink, Calm
<1>2. ASSUME NEW n \in Nodes, Delete(n) \/ Touch(n) PROVE FALSE
  BY <1>2 DEF Delete, Touch, Calm, IInv, TypeOK
<1>3. ASSUME NEW i \in Inodes, Tear(i) PROVE FALSE
  BY <1>3 DEF Tear, Calm, IInv, TypeOK
<1>4. \/ \E p \in Procs, n \in Nodes : Restore(p, n) \/ Skip(p, n) \/ Visit(p, n)
      \/ \E p \in Procs : \/ Probe(p) \/ SwapLink(p) \/ SwapRename(p) \/ StartOptimise(p)
                          \/ EndOptimise(p) \/ Stat(p) \/ Hash(p) \/ Look(p) \/ CreateEntry(p)
                          \/ Relook(p) \/ Compare(p) \/ TempLink(p) \/ Rename(p)
      \/ \E p \in Procs, h \in Hashes : PruneStat(p, h)
  BY <1>1, <1>2, <1>3 DEF Next, Import, Optimise, Collect, Outside
<1>5. removed' = removed /\ spoils' = spoils
  BY <1>4 DEF Restore, Skip, Visit, Probe, SwapLink, SwapRename, StartOptimise, EndOptimise, Stat, Hash, Look,
              CreateEntry, Relook, Compare, TempLink, Rename, PruneStat, history
<1>6. Calm
  BY <1>5 DEF Calm
<1> QED BY <1>4, <1>6 DEF SharedInv, SettledInv

\* Nothing changed from outside: a hash is the one the file should have.
LEMMA CalmKey ==
  ASSUME IInv, ~crossed, CalmFiles, NEW p \in Procs, CalmProcess(p), pc[p] \in OptimisePCs \ {"stat", "hash"}
  PROVE  key[p] = Want[job[p]] /\ key[p] \in Hashes /\ job[p] \in Nodes
BY DEF IInv, Sound, JobInv, KeyInv, Keyed, CalmFiles, CalmProcess

\* Entries stay as they are, and a name moves to its entry if it moves.
Grows ==
  /\ \A h \in Hashes : farm[h] # None => farm'[h] = farm[h]
  /\ \A n \in Nodes : node[n] # None =>
       node'[n] = node[n] \/ (node'[n] # None /\ node'[n] = farm[Want[n]])

\* A process does not notice the others.
LEMMA CalmOther ==
  ASSUME IInv, ~crossed, Grows, NEW q \in Procs, CalmProcess(q), pc'[q] = pc[q],
         job'[q] = job[q], st'[q] = st[q], key'[q] = key[q], link'[q] = link[q], temp'[q] = temp[q]
  PROVE  CalmProcess(q)'
<1>1. JobInv(q) /\ TempInv(q)
  BY DEF IInv, Sound
<1>2. ASSUME pc[q] \in OptimisePCs \cup {"swapRename"}
      PROVE  job[q] \in Nodes /\ Want[job[q]] \in Hashes
  BY <1>1, <1>2, WantIsHash DEF JobInv, ImportPCs
<1>3. pc[q] \in OptimisePCs => node'[job[q]] # None
  BY <1>2 DEF Grows, CalmProcess
<1>4. pc[q] \in OptimisePCs \ {"stat"} => node'[job[q]] \in {st[q], farm'[Want[job[q]]]}
  BY <1>2 DEF Grows, CalmProcess
<1>5. pc[q] \in {"compare", "tempLink"} => link[q] # None /\ link[q] = farm'[key[q]]
  BY <1>1 DEF Grows, CalmProcess, JobInv, Keyed, OptimisePCs
<1>6. pc[q] \in {"rename", "swapRename"} => temp[q] = farm'[Want[job[q]]]
  BY <1>1, <1>2 DEF Grows, CalmProcess, TempInv, OptimisePCs
<1> QED BY <1>3, <1>4, <1>5, <1>6 DEF CalmProcess

\* A step of a process that renames and links nothing.
LEMMA CalmLocal ==
  ASSUME IInv, ~crossed, CalmFiles, SettledInv, NEW p \in Procs, \A q \in Procs : CalmProcess(q),
         UNCHANGED <<node, farm, data, settled>>,
         known' = known \/ known' = [known EXCEPT ![p] = {}],
         \A q \in Procs \ {p} : /\ pc'[q] = pc[q] /\ job'[q] = job[q] /\ st'[q] = st[q] /\ key'[q] = key[q]
                                /\ link'[q] = link[q] /\ temp'[q] = temp[q],
         CalmProcess(p)'
  PROVE  CalmFiles' /\ SettledInv' /\ \A q \in Procs : CalmProcess(q)'
<1>1. Grows
  BY DEF Grows
<1>2. CalmFiles'
  BY DEF CalmFiles, IInv, TypeOK
<1>3. SettledInv'
  BY DEF SettledInv
<1>4. ASSUME NEW q \in Procs PROVE CalmProcess(q)'
  <2>1. CASE q # p
    BY <1>1, <2>1, CalmOther
  <2> QED BY <2>1
<1> QED BY <1>2, <1>3, <1>4

\* A step in which nothing is removed or spoiled.
LEMMA SharedStep ==
  ASSUME IInv, SharedInv, Next, Calm'
  PROVE  CalmFiles' /\ SettledInv' /\ \A q \in Procs : CalmProcess(q)'
<1> DEFINE Goal == CalmFiles' /\ SettledInv' /\ \A q \in Procs : CalmProcess(q)'
<1>0. /\ Calm /\ ~crossed /\ CalmFiles /\ SettledInv /\ \A p \in Procs : CalmProcess(p)
      /\ TypeOK /\ \A p \in Procs : JobInv(p) /\ TempInv(p)
  BY CalmBefore DEF IInv, Sound
<1>1. ASSUME NEW p \in Procs, Through(p) PROVE CalmProcess(p)'
  <2>1. pc'[p] \in {"walk", "idle"}
    BY <1>0, <1>1 DEF Through, Rest, TypeOK
  <2> QED BY <2>1 DEF CalmProcess, OptimisePCs
<1>2. ASSUME NEW p \in Procs, Through(p)
      PROVE  \A q \in Procs \ {p} : /\ pc'[q] = pc[q] /\ job'[q] = job[q] /\ st'[q] = st[q] /\ key'[q] = key[q]
                                    /\ link'[q] = link[q] /\ temp'[q] = temp[q]
  BY <1>0, <1>2 DEF Through, TypeOK
<1>3. ASSUME NEW p \in Procs, NEW n \in Nodes, Restore(p, n) PROVE Goal
  <2>1. PICK i \in Inodes :
          /\ \A m \in Nodes : node[m] # i
          /\ \A h \in Hashes : farm[h] # i
          /\ \A q \in Procs : temp[q] # i
          /\ node' = [node EXCEPT ![n] = i]
          /\ data' = [data EXCEPT ![i] = Want[n]]
          /\ meta' = [meta EXCEPT ![i] = "canonical"]
    BY <1>3, RestoreInode
  <2>2. /\ node[n] = None /\ UNCHANGED <<farm, st, key, link, temp, known>> /\ settled' = settled \ {n}
        /\ pc' = [pc EXCEPT ![p] = "probe"] /\ job' = [job EXCEPT ![p] = n]
    BY <1>3 DEF Restore, Goto
  <2>3. node'[n] = i /\ data'[i] = Want[n] /\ \A m \in Nodes \ {n} : node'[m] = node[m]
    BY <1>0, <2>1 DEF TypeOK
  <2>4. \A j \in Inodes \ {i} : data'[j] = data[j]
    BY <1>0, <2>1 DEF TypeOK
  <2>5. CalmFiles'
    <3>1. \A m \in Nodes : node'[m] # None => data'[node'[m]] = Want[m]
      BY <1>0, <2>1, <2>3, <2>4 DEF TypeOK, CalmFiles
    <3>2. \A h \in Hashes : farm[h] # None => data'[farm[h]] = h
      BY <1>0, <2>1, <2>4 DEF TypeOK, CalmFiles
    <3> QED BY <1>0, <2>2, <3>1, <3>2 DEF CalmFiles
  <2>6. SettledInv'
    BY <1>0, <2>2, <2>3 DEF SettledInv, TypeOK
  <2>7. Grows
    BY <2>2, <2>3 DEF Grows
  <2>8. ASSUME NEW q \in Procs PROVE CalmProcess(q)'
    <3>1. CASE q = p
      BY <1>0, <2>2, <3>1 DEF CalmProcess, OptimisePCs, TypeOK
    <3>2. CASE q # p
      BY <1>0, <2>2, <2>7, <3>2, CalmOther DEF TypeOK
    <3> QED BY <3>1, <3>2
  <2> QED BY <2>5, <2>6, <2>8
<1>4. ASSUME NEW p \in Procs, Probe(p) \/ SwapLink(p) \/ Stat(p) \/ Hash(p) \/ Look(p) \/ Relook(p) \/ TempLink(p)
      PROVE  Goal
  <2>1. UNCHANGED <<node, farm, data, settled, known>>
    BY <1>4 DEF Probe, SwapLink, Stat, Hash, Look, Relook, TempLink, names, files, locals, history
  <2>2. CASE Through(p)
    BY <1>0, <1>1, <1>2, <2>1, <2>2, CalmLocal
  <2>3. CASE ~Through(p)
    <3>1. \A q \in Procs \ {p} : /\ pc'[q] = pc[q] /\ job'[q] = job[q] /\ st'[q] = st[q] /\ key'[q] = key[q]
                                 /\ link'[q] = link[q] /\ temp'[q] = temp[q]
      BY <1>0, <1>4, <2>3 DEF Probe, SwapLink, Stat, Hash, Look, Relook, TempLink, locals, TypeOK
    <3>2. ASSUME Probe(p) PROVE CalmProcess(p)'
      BY <1>0, <2>3, <3>2 DEF Probe, CalmProcess, OptimisePCs, TypeOK
    <3>3. ASSUME SwapLink(p) PROVE CalmProcess(p)'
      BY <1>0, <2>1, <2>3, <3>3 DEF SwapLink, CalmProcess, OptimisePCs, TypeOK
    <3>4. ASSUME Stat(p) PROVE CalmProcess(p)'
      BY <1>0, <2>1, <2>3, <3>4 DEF Stat, CalmProcess, OptimisePCs, TypeOK
    <3>5. ASSUME Hash(p) PROVE CalmProcess(p)'
      BY <1>0, <2>1, <2>3, <3>5 DEF Hash, CalmProcess, OptimisePCs, TypeOK
    <3>6. ASSUME Look(p) PROVE CalmProcess(p)'
      BY <1>0, <2>1, <2>3, <3>6 DEF Look, Fits, CalmProcess, OptimisePCs, TypeOK
    <3>7. ASSUME Relook(p) PROVE CalmProcess(p)'
      BY <1>0, <2>1, <2>3, <3>7 DEF Relook, CalmProcess, OptimisePCs, TypeOK
    <3>8. ASSUME TempLink(p) PROVE CalmProcess(p)'
      <4>1. key[p] = Want[job[p]]
        BY <1>0, <3>8, CalmKey DEF TempLink, OptimisePCs
      <4> QED BY <1>0, <2>1, <2>3, <3>8, <4>1 DEF TempLink, CalmProcess, OptimisePCs, TypeOK
    <3>9. CalmProcess(p)'
      BY <1>4, <3>2, <3>3, <3>4, <3>5, <3>6, <3>7, <3>8
    <3> QED BY <1>0, <2>1, <3>1, <3>9, CalmLocal
  <2> QED BY <2>2, <2>3
<1>5. ASSUME NEW p \in Procs, (\E n \in Nodes : Visit(p, n)) \/ EndOptimise(p) \/ \E h \in Hashes : PruneStat(p, h)
      PROVE  Goal
  <2>1. UNCHANGED <<node, farm, data, settled>> /\ (known' = known \/ known' = [known EXCEPT ![p] = {}])
    BY <1>5 DEF Visit, EndOptimise, PruneStat, names, files, history
  <2>2. \A q \in Procs \ {p} : /\ pc'[q] = pc[q] /\ job'[q] = job[q] /\ st'[q] = st[q] /\ key'[q] = key[q]
                               /\ link'[q] = link[q] /\ temp'[q] = temp[q]
    BY <1>0, <1>5 DEF Visit, EndOptimise, PruneStat, Goto, TypeOK
  <2>3. CalmProcess(p)'
    BY <1>0, <1>5, <2>1 DEF Visit, EndOptimise, PruneStat, Goto, CalmProcess, OptimisePCs, TypeOK
  <2> QED BY <1>0, <2>1, <2>2, <2>3, CalmLocal
<1>6. ASSUME NEW p \in Procs, StartOptimise(p) PROVE Goal
  <2>1. /\ UNCHANGED <<node, farm, data, settled, job, st, key, link, temp>>
        /\ pc' = [pc EXCEPT ![p] = "walk"]
        /\ known' = [known EXCEPT ![p] = {i \in Inodes : \E h \in Hashes : farm[h] = i}]
    BY <1>6 DEF StartOptimise, Goto, names, files, history
  <2>2. CalmFiles'
    BY <1>0, <2>1 DEF CalmFiles, TypeOK
  <2>3. Grows /\ SettledInv'
    BY <1>0, <2>1 DEF Grows, SettledInv
  <2>4. ASSUME NEW q \in Procs PROVE CalmProcess(q)'
    <3>1. CASE q = p
      BY <1>0, <2>1, <3>1 DEF CalmProcess, OptimisePCs, TypeOK
    <3>2. CASE q # p
      BY <1>0, <2>1, <2>3, <3>2, CalmOther DEF TypeOK
    <3> QED BY <3>1, <3>2
  <2> QED BY <2>2, <2>3, <2>4
<1>7. ASSUME NEW p \in Procs, NEW n \in Nodes, Skip(p, n) PROVE Goal
  <2>1. /\ UNCHANGED <<node, farm, data, known, pc, job, st, key, link, temp>>
        /\ settled' = settled \cup {n} /\ node[n] \in known[p]
    BY <1>7 DEF Skip, names, files, locals
  <2>2. PICK h \in Hashes : farm[h] = node[n]
    BY <1>0, <2>1 DEF CalmFiles
  <2>3. node[n] # None /\ h = Want[n]
    BY <1>0, <2>1, <2>2, NoneAssumption DEF CalmFiles, TypeOK
  <2>4. SettledInv'
    BY <1>0, <2>1, <2>2, <2>3 DEF SettledInv
  <2>5. Grows /\ CalmFiles'
    BY <1>0, <2>1 DEF Grows, CalmFiles
  <2> QED BY <1>0, <2>1, <2>4, <2>5, CalmOther
<1>8. ASSUME NEW p \in Procs, SwapRename(p) \/ Rename(p) PROVE Goal
  <2> DEFINE n == job[p]
  <2>1. /\ UNCHANGED <<farm, data, known>> /\ Through(p)
        /\ \/ node' = [node EXCEPT ![n] = temp[p]] /\ settled' \in {settled, settled \cup {n}}
           \/ node' = node /\ settled' = settled
    BY <1>8 DEF SwapRename, Rename, Settle, files, history
  <2>2. n \in Nodes /\ temp[p] # None /\ temp[p] = farm[Want[n]] /\ Want[n] \in Hashes
    BY <1>0, <1>8, WantIsHash DEF SwapRename, Rename, JobInv, TempInv, CalmProcess, ImportPCs, OptimisePCs
  <2>3. Grows
    BY <1>0, <2>1, <2>2 DEF Grows, TypeOK
  <2>4. CalmFiles'
    BY <1>0, <2>1, <2>2 DEF CalmFiles, TypeOK
  <2>5. SettledInv'
    BY <1>0, <2>1, <2>2 DEF SettledInv, TypeOK
  <2>6. ASSUME NEW q \in Procs PROVE CalmProcess(q)'
    <3>1. CASE q # p
      BY <1>0, <1>2, <2>1, <2>3, <3>1, CalmOther
    <3> QED BY <1>1, <2>1, <3>1
  <2> QED BY <2>4, <2>5, <2>6
<1>9. ASSUME NEW p \in Procs, Compare(p) PROVE Goal
  <2> DEFINE n == job[p]
  <2>1. UNCHANGED <<node, farm, data, known>> /\ pc[p] = "compare"
    BY <1>9 DEF Compare, names, files
  <2>2. key[p] = Want[n] /\ node[n] # None /\ node[n] \in {st[p], farm[Want[n]]} /\ link[p] = farm[key[p]]
    BY <1>0, <2>1, CalmKey DEF CalmProcess, OptimisePCs
  <2>3. CASE Through(p)
    <3>1. settled' = settled \/ (settled' = settled \cup {n} /\ st[p] = link[p])
      BY <1>9 DEF Compare, Settle
    <3>2. SettledInv'
      BY <1>0, <2>1, <2>2, <3>1 DEF SettledInv
    <3>3. Grows /\ CalmFiles'
      BY <1>0, <2>1 DEF Grows, CalmFiles
    <3>4. ASSUME NEW q \in Procs PROVE CalmProcess(q)'
      <4>1. CASE q # p
        BY <1>0, <1>2, <2>3, <3>3, <4>1, CalmOther
      <4> QED BY <1>1, <2>3, <4>1
    <3> QED BY <3>2, <3>3, <3>4
  <2>4. CASE ~Through(p)
    <3>1. UNCHANGED <<job, st, key, link, temp, settled>> /\ pc' = [pc EXCEPT ![p] = "tempLink"]
      BY <1>9, <2>4 DEF Compare
    <3>2. CalmProcess(p)'
      BY <1>0, <2>1, <3>1 DEF CalmProcess, OptimisePCs, TypeOK
    <3>3. \A q \in Procs \ {p} : pc'[q] = pc[q]
      BY <1>0, <3>1 DEF TypeOK
    <3> QED BY <1>0, <2>1, <3>1, <3>2, <3>3, CalmLocal
  <2> QED BY <2>3, <2>4
<1>10. ASSUME NEW p \in Procs, CreateEntry(p) PROVE Goal
  <2> DEFINE n == job[p]
  <2>1. UNCHANGED <<node, data>> /\ pc[p] = "create"
    BY <1>10 DEF CreateEntry, files
  <2>2. key[p] = Want[n] /\ key[p] \in Hashes /\ n \in Nodes /\ node[n] # None /\ node[n] \in {st[p], farm[Want[n]]}
    BY <1>0, <2>1, CalmKey DEF CalmProcess, OptimisePCs
  <2>3. CASE UNCHANGED <<farm, known, settled>>
    <3>1. CASE Through(p)
      BY <1>0, <1>1, <1>2, <2>1, <2>3, <3>1, CalmLocal
    <3>2. CASE ~Through(p)
      <4>1. UNCHANGED <<job, st, key, link, temp>> /\ pc' = [pc EXCEPT ![p] = "relook"]
        BY <1>10, <3>2 DEF CreateEntry, locals
      <4>2. CalmProcess(p)'
        BY <1>0, <2>1, <2>3, <4>1 DEF CalmProcess, OptimisePCs, TypeOK
      <4>3. \A q \in Procs \ {p} : pc'[q] = pc[q]
        BY <1>0, <4>1 DEF TypeOK
      <4> QED BY <1>0, <2>1, <2>3, <4>1, <4>2, <4>3, CalmLocal
    <3> QED BY <3>1, <3>2
  <2>4. CASE ~UNCHANGED <<farm, known, settled>>
    <3>1. /\ farm[key[p]] = None /\ farm' = [farm EXCEPT ![key[p]] = node[n]]
          /\ known' = [known EXCEPT ![p] = @ \cup {st[p]}]
          /\ settled' = settled \cup {n} /\ Through(p)
      BY <1>10, <2>4 DEF CreateEntry, Settle, locals
    <3>2. farm'[key[p]] = node[n] /\ st[p] = node[n] /\ \A h \in Hashes \ {key[p]} : farm'[h] = farm[h]
      BY <1>0, <2>2, <3>1 DEF TypeOK
    <3>3. Grows
      BY <2>1, <3>1, <3>2 DEF Grows
    <3>4. CalmFiles'
      <4>1. \A h \in Hashes : farm'[h] # None => data[farm'[h]] = h
        BY <1>0, <2>2, <3>2 DEF CalmFiles
      <4>2. ASSUME NEW q \in Procs, NEW i \in known'[q] PROVE \E h \in Hashes : farm'[h] = i
        <5>1. CASE i = st[p]
          BY <2>2, <3>2, <5>1
        <5>2. CASE i \in known[q]
          <6>1. PICK h \in Hashes : farm[h] = i
            BY <1>0, <5>2 DEF CalmFiles
          <6>2. i # None
            BY <1>0, <5>2, NoneAssumption DEF TypeOK
          <6> QED BY <3>3, <6>1, <6>2 DEF Grows
        <5> QED BY <1>0, <3>1, <5>1, <5>2 DEF TypeOK
      <4> QED BY <1>0, <2>1, <4>1, <4>2 DEF CalmFiles
    <3>5. SettledInv'
      <4>1. \A m \in settled : m \in Nodes /\ Want[m] \in Hashes
        BY <1>0, WantIsHash DEF TypeOK
      <4> QED BY <1>0, <2>1, <2>2, <3>1, <3>2, <4>1 DEF SettledInv
    <3>6. ASSUME NEW q \in Procs PROVE CalmProcess(q)'
      <4>1. CASE q # p
        BY <1>0, <1>2, <3>1, <3>3, <4>1, CalmOther
      <4> QED BY <1>1, <3>1, <4>1
    <3> QED BY <3>4, <3>5, <3>6
  <2> QED BY <2>3, <2>4
<1> QED
  <2> HIDE DEF Goal
  <2>1. Goal
    BY <1>3, <1>4, <1>5, <1>6, <1>7, <1>8, <1>9, <1>10, CalmBefore
  <2> QED BY <2>1 DEF Goal

\* Nothing is deleted, so no path comes back.
LEMMA StaysUncrossed ==
  ASSUME IInv, SharedInv, Next, Calm'
  PROVE  ~crossed'
<1>1. ~crossed /\ \A p \in Procs : CalmProcess(p)
  BY CalmBefore
<1>2. ASSUME NEW p \in Procs, NEW n \in Nodes, Restore(p, n) PROVE ~crossed'
  BY <1>1, <1>2 DEF Restore, CalmProcess, Keyed
<1> QED
  BY <1>1, <1>2, CalmBefore
     DEF Skip, Visit, Probe, SwapLink, SwapRename, StartOptimise, EndOptimise, Stat, Hash, Look,
         CreateEntry, Relook, Compare, TempLink, Rename, PruneStat, history

\* What went through an optimiser stays shared with the farm, as long as
\* nothing is collected, whatever imports and other optimisers do meanwhile.
THEOREM DedupConverges == Spec => []SettledIsShared
<1>1. Init => SharedInv
  BY DEF Init, SharedInv, SettledInv, CalmFiles, CalmProcess, OptimisePCs
<1>2. IInv /\ SharedInv /\ [Next]_vars => SharedInv'
  <2> SUFFICES ASSUME IInv, SharedInv, [Next]_vars PROVE SharedInv'
    OBVIOUS
  <2>1. CASE Next
    <3>1. ASSUME Calm' PROVE ~crossed'
      BY <2>1, <3>1, StaysUncrossed
    <3> QED
      BY <2>1, <3>1, SharedStep DEF SharedInv, SettledInv
  <2>2. CASE UNCHANGED vars
    BY <2>2 DEF SharedInv, SettledInv, Calm, CalmFiles, CalmProcess, vars, names, files, locals, history
  <2> QED BY <2>1, <2>2
<1>3. SharedInv => SettledIsShared
  BY DEF SharedInv, SettledInv, SettledIsShared
<1> QED BY <1>1, <1>2, <1>3, InvariantHolds, PTL DEF Spec
=============================================================================
