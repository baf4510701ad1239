--------------------------- MODULE MCExportImport ---------------------------
(***************************************************************************)
(* Model values for ExportImport: digests of eight bytes (the lengths of   *)
(* the three spellings differ, and 64 bits are as far from a multiple of   *)
(* five and of six as 256 are), hash parts of five (eight digits with no   *)
(* bit to spare, as 160 bits have), a polynomial in place of SHA-256.      *)
(***************************************************************************)
EXTENDS Bundles

MCSymbols == CharOrder \o <<"|", "magic", "I", "(", "type", "regular", "executable",
    "contents", "directory", "entry", "name", "node", "symlink", "target", "pad", "bad",
    "nix-archive-1", "source", "sha256", "X", "Y">>

MCSymbol == [c \in ToSet(MCSymbols) |-> CHOOSE i \in 1 .. Len(MCSymbols) : MCSymbols[i] = c]

RECURSIVE MCPoly(_, _, _, _)
MCPoly(s, i, h, m) ==
    IF i > Len(s) THEN h
    ELSE MCPoly(s, i + 1, (h * 61 + MCSymbol[s[i]]) % m, m)

MCSha256(s) ==
    LET a == MCPoly(s, 1, 7, 16777213)
        b == MCPoly(s, 1, 11, 16777199)
    IN  <<a % 256, (a \div 256) % 256, a \div 65536, b % 256,
          (b \div 256) % 256, b \div 65536, (a + b) % 256, (3 * a + b) % 256>>

MCStoreDir == <<"/", "n", "/", "s">>

NameA == <<"a">>
NameB == <<"b">>
DataX == <<"X">>
DataY == <<"Y">>

MCTrees ==
    (NameA :> (<<>> :> Directory @@ <<NameA>> :> Regular(FALSE, <<DataX>>)
           @@ <<NameB>> :> Directory @@ <<NameB, NameA>> :> Symlink(<<"/", "c">>)))
    @@ (NameB :> (<<>> :> Regular(TRUE, <<DataX, DataY>>)))

MCRotten(tree) ==
    [p \in DOMAIN tree |-> IF tree[p].type = "regular" THEN [tree[p] EXCEPT !.data = <<DataY>>] ELSE tree[p]]

MCDamagedCells == {Bad, Num(0), Num(1), Num(2), Tag(")"), NameA, NameB, <<".", ".">>}

MCSpellings ==
    {MCStoreDir \o s : s \in
        {<<>>, <<"/">>, <<"x">>, <<"/", "a">>, <<"/", "a", "!">>, <<"/", "a", "xC3", "xA9">>,
         <<"/", "a", "/", "b">>,
         <<"/", ".", ".", "/", "s", "/", "/", "a">>, <<"/", ".", "/", ".", ".">>,
         <<"/", ".", ".", "/", ".", ".", "/", ".", ".">>, <<"/", "a", "NUL">>}}
    \cup {MCStoreDir \o <<"/">> \o h \o n :
            h \in {<<"0", "1", "2", "3", "4", "5", "6", "z">>, <<"t", "m", "p", "-", "1", "2", "-", "3">>,
                   <<".", "l", "i", "n", "k", "s", "0", "0">>},
            n \in {<<>>, <<"-">>, <<"-", "a">>, <<"-", ".">>, <<"-", ".", "-">>, <<"-", ".", ".">>,
                   <<"-", ".", ".", "a">>, <<"-", "a", "/">>, <<"-", "!">>, <<"+", "a">>,
                   <<"-", "a", "b", "c", "d", "e">>}}
    \cup {<<"a">>, <<>>}

MCNar == DumpPath(MCTrees[NameB]).cells

(* An archive whose padding is not zero, and one with a file where the     *)
(* entries are out of order: each under the name its bytes hash to.        *)
MCOddNars ==
    LET odd == <<NarMagic, Tag("("), Tag("type"), Tag("regular"), Tag("contents"), Num(1), DataX, Bad, Tag(")")>>
        File == <<Tag("("), Tag("type"), Tag("regular"), Tag("contents"), Num(0), Tag(")")>>
        Entry(n) == <<Tag("entry"), Tag("("), Tag("name"), n, Tag("node")>> \o File \o <<Tag(")")>>
        Dir(m, n) == <<NarMagic, Tag("("), Tag("type"), Tag("directory")>> \o Entry(m) \o Entry(n) \o <<Tag(")")>>
        Below(nar) == <<NarMagic, Tag("("), Tag("type"), Tag("directory"),
                        Tag("entry"), Tag("("), Tag("name"), NameA, Tag("node")>>
                      \o Tail(nar) \o <<Tag(")"), Tag(")")>>
        Slash == <<"a", "/">>
    IN  {odd, Dir(NameB, NameA), Dir(NameA, NameA), Dir(NameA, NameB), Dir(<<".">>, NameA), Dir(NameA, Slash),
         Below(Below(Dir(NameA, NameB)))}

MCForeign(nar, claim, refs) ==
    <<Num(1)>> \o nar \o <<ExportMagic, claim>> \o refs \o <<Num(0)>>

MCForeignBundles ==
    {MCForeign(MCNar, s, <<Num(0)>>) : s \in MCSpellings}
    \cup UNION {UNION {{MCForeign(nar, PrintStorePath(p), refs) :
                           refs \in {<<Num(0)>>, <<Num(1), PrintStorePath(p)>>, <<Num(1), NameA>>, <<Bad>>}} :
                       p \in MakeContentAddressedPath(NameB, Digest(nar))} :
                nar \in MCOddNars}

MCSamples ==
    {[i \in 1 .. 8 |-> IF i = k THEN v ELSE w] : k \in {1, 4, 8}, v \in {0, 1, 128, 255}, w \in {0, 255}}
    \cup {<<1, 2, 3, 5, 8, 13, 21, 34>>}

================================================================================
