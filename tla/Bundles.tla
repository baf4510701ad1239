------------------------------- MODULE Bundles -------------------------------
(***************************************************************************)
(* Bundles of nix archives: ExportImport with the archive format of Nar    *)
(* and the names, digests and rows of Names.  What the codecs promise is   *)
(* stated here.                                                            *)
(***************************************************************************)
EXTENDS ExportImport, Names, Nar

CONSTANTS
    Trees,            \* the generations of the exporting store: name -> tree
    Spellings         \* strings somebody writes where a path belongs

(* The bytes of cells, for SHA-256: a string carries its length. *)
Bytes(cells) == FlattenSeq([i \in 1 .. Len(cells) |-> Append(cells[i], "|")])

Digest(cells) == HashString(Bytes(cells))

(* The exporting store: its rows were written when the trees were whole.   *)
(* exportPaths takes them in the order of a set of store paths.            *)
StoredRows ==
    UNION {{[base |-> b, tree |-> Trees[n], hash |-> Digest(DumpPath(Trees[n]).cells)] :
               b \in MakeContentAddressedPath(n, Digest(DumpPath(Trees[n]).cells))} :
           n \in DOMAIN Trees}

ExportOrder == SetToSortSeq(StoredRows, LAMBDA a, b : ByteLess(a.base, b.base))

--------------------------------------------------------------------------------
(* The codecs and names are checked before an import begins, on what its   *)
(* bundle claims.                                                          *)
BeforeImport == imp.pc = "idle" /\ exp.exit = "none" /\ fault = "foreign"

(* What is written reads back as what it was: the three spellings of a     *)
(* digest, with and without the prefix that names the algorithm (of the    *)
(* strings one character away from its base-32 spelling each is refused or *)
(* is the one spelling of another digest: the carry of the last digit);    *)
(* and the columns of a row, with or without a size and a content address, *)
(* which updatePathInfo changes no more than it is given.                  *)
WrittenReadsBack ==
    BeforeImport =>
     LET d == setup.digest
         other == [d EXCEPT ![1] = 255 - @]
         s == Nix32Encode(d)
     IN /\ Base16Decode(Base16Encode(d)) = {d}
        /\ \A f \in Formats : ParseAnyPrefixed(HashToString(d, f, TRUE)) = {d}
        /\ \A i \in 1 .. Len(s), c \in {"0", "1", "g", "z", "e"} :
             \A h \in ParseAnyPrefixed(<<AlgoName, ":">> \o [s EXCEPT ![i] = c]) :
                 Nix32Encode(h) = [s EXCEPT ![i] = c]
        /\ ParseCA(RenderCA(d)) = {d}
        /\ \A n \in DOMAIN Trees, size \in {0, 5} : \A info \in MakeFromCA(n, d, size) :
             /\ IsContentAddressed(info)
             /\ AddValidPath([info EXCEPT !.ca = {other}]) = {}
             /\ \A i \in {info, [info EXCEPT !.ca = {}]} : \A row \in AddValidPath(i) :
                  /\ QueryPathInfo(row, i.path) = {i}
                  /\ \A j \in MakeFromCA(n, other, 7) :
                       QueryPathInfo(UpdatePathInfo(row, j), i.path) = {[j EXCEPT !.path = i.path]}

Claims == {bundle[i + 1] : i \in {k \in 1 .. Len(bundle) - 1 : bundle[k] = ExportMagic}}

(* However a path is spelled, the canonical path has no empty, "." or ".." *)
(* component, walks to the same place, is left alone by a second pass, and *)
(* relates to the other paths as their components do: containment,         *)
(* prefixes, and the order in which a directory is followed directly by    *)
(* what is below it, as far as ASCII names go (names with other bytes come *)
(* in between, as a signed char sorts them before the slash).  A spelling that is taken for a store path prints and *)
(* reads back as the same one; it is a direct child of the store           *)
(* directory, and never a name the store keeps for itself: the link farm   *)
(* or a staging directory (the alphabet of the hash part has neither "-"   *)
(* nor ".").                                                               *)
PathsAreCanonical ==
    BeforeImport =>
      LET Canonical == UNION {FromRaw(t) : t \in Spellings}
          Related(p, q) ==
              /\ IsWithin(p, q) <=> IsPrefix(Components(q), Components(p))
              /\ IsWithin(p, q) => Join(q, RemovePrefix(p, q)) = p
              /\ p # q => (Less(p, q) <=> ~Less(q, p))
              /\ \A r \in Canonical :
                   IsAscii(r) /\ IsWithin(p, q) /\ Less(q, r) /\ Less(r, p) => IsWithin(r, q)
      IN  \A s \in Claims :
            /\ \A p \in FromRaw(s) :
                 /\ IsCanonical(p)
                 /\ Components(p) = Walk(Spelled(s))
                 /\ FromRaw(p) = {p} /\ FromRawIn(s, Root) = {p}
                 /\ FromElems(Components(p)) = p
                 /\ \A d \in Parent(p), c \in BaseName(p) : Push(d, c) = p /\ FromFilename(c) # {}
                 /\ \A q \in {StoreDir, Root} \cup Canonical : Related(p, q)
            /\ \A b \in ParseStorePath(s) :
                 /\ ParseStorePath(PrintStorePath(b)) = {b}
                 /\ Parent(PrintStorePath(b)) = {StoreDir}
                 /\ ~IsPrefix(<<"t", "m", "p", "-">>, b) /\ ~IsPrefix(<<".", "l", "i", "n", "k", "s">>, b)

(* store-resolve answers with a basename only if the token means exactly   *)
(* that path among the valid ones, and a walk over the sorted rows finds   *)
(* exactly the paths whose hash part begins with the token.                *)
ResolveIsExact ==
    bundle = <<>> /\ BeforeImport =>
      LET Base(d, n) == StorePathOf(CompressHash(d, PathHashSize), n)
          bases == UNION {Base(setup.digest, n) : n \in DOMAIN Trees}
          others == UNION {Base(d, n) : d \in Samples, n \in DOMAIN Trees}
          tokens == DOMAIN Trees
                    \cup UNION {{SubSeq(b, 1, k) : k \in 0 .. Len(b)} : b \in bases}
          Means(S, t) == LET full == {b \in S : b = t}
                             id == {b \in S : Len(t) \in 1 .. HashLen /\ IsPrefix(t, b)}
                             named == {b \in S : NameOf(b) = t}
                         IN  IF full # {} THEN full ELSE IF id # {} THEN id ELSE named
      IN  \A t \in tokens, S \in {bases \cup {o} : o \in others} :
            LET r == Resolve(S, t)
                m == Means(S, t)
            IN  /\ r.exit = 0 <=> t # <<>> /\ Cardinality(m) = 1
                /\ r.exit = 3 <=> t # <<>> /\ Cardinality(m) > 1
                /\ t # <<>> => r.means = m
                /\ ToSet(ListPaths(S)) = S

================================================================================
