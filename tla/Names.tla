-------------------------------- MODULE Names --------------------------------
(***************************************************************************)
(* How the store names what it holds: store paths (libstore/path.cc,       *)
(* store-dir-config.cc), the content address that is a path's name and its *)
(* proof (content-address.cc, path-info.cc), the columns in which the      *)
(* database keeps them (local-store.cc), and the resolution of what a user *)
(* types (arch/store-resolve.cc).  Strings are sequences of one-character  *)
(* strings; what throws returns the empty set.                             *)
(*                                                                         *)
(* PathHashSize is the number of bytes of the hash part (20 in the code),  *)
(* MaxPathLen the longest name, StoreDir the canonical store directory.    *)
(***************************************************************************)
EXTENDS Encodings, CanonPaths

CONSTANTS PathHashSize, MaxPathLen, StoreDir

HashLen == Nix32Length(PathHashSize)

LetterOrDigit ==
    {"0", "1", "2", "3", "4", "5", "6", "7", "8", "9"} \cup
    {"a", "b", "c", "d", "e", "f", "g", "h", "i", "j", "k", "l", "m", "n", "o",
     "p", "q", "r", "s", "t", "u", "v", "w", "x", "y", "z"}

NameChars == LetterOrDigit \cup {"A", "B", "C", "D", "+", "-", ".", "_", "?", "="}

(* checkName: not empty, not too long, the first dash-separated component  *)
(* neither "." nor "..", every character legal.                            *)
CheckName(name) ==
    /\ Len(name) \in 1 .. MaxPathLen
    /\ ~ /\ name[1] = "."
         /\ \/ Len(name) = 1
            \/ name[2] = "-"
            \/ name[2] = "." /\ (Len(name) = 2 \/ name[3] = "-")
    /\ ToSet(name) \subseteq NameChars

HashPart(base) == SubSeq(base, 1, HashLen)

NameOf(base) == SubSeq(base, HashLen + 2, Len(base))

HashPartChars == LetterOrDigit \ {"e", "o", "u", "t"}

(* StorePath(baseName): the character between the hash part and the name   *)
(* is not looked at.                                                       *)
StorePath(base) ==
    IF /\ Len(base) >= HashLen + 1
       /\ ToSet(HashPart(base)) \subseteq HashPartChars
       /\ CheckName(NameOf(base))
    THEN {base} ELSE {}

(* StorePath(hash, name) *)
StorePathOf(hash, name) ==
    IF CheckName(name) THEN {HashToString(hash, "Nix32", FALSE) \o <<"-">> \o name} ELSE {}

(* StoreDirConfig *)
ParseStorePath(s) ==
    UNION {StorePath(b) : b \in UNION {BaseName(p) : p \in {q \in CanonPath(s) :
                                                            StoreDir \in DirOf(q)}}}

PrintStorePath(base) == StoreDir \o <<Sep>> \o base

MakeStorePath(type, hash, name) ==
    LET s == <<type, ":">> \o hash \o <<":">> \o StoreDir \o <<":">> \o name
    IN  StorePathOf(CompressHash(HashString(s), PathHashSize), name)

MakeContentAddressedPath(name, narHash) ==
    MakeStorePath("source", HashToString(narHash, "Base16", TRUE), name)

(* ContentAddress::render and parse; the prefix "fixed:r:" is one symbol. *)
CaPrefix == "fixed:r:"

RenderCA(hash) == <<CaPrefix>> \o HashToString(hash, "Nix32", TRUE)

ParseCA(s) ==
    IF s = <<>> \/ s[1] # CaPrefix THEN {} ELSE ParseAnyPrefixed(Tail(s))

--------------------------------------------------------------------------------
(* A path info: ca and path are what makeFromCA derives from the name and  *)
(* the digest.  ca is a set of at most one digest, narSize 0 when unknown. *)
MakeFromCA(name, narHash, narSize) ==
    {[path |-> p, narHash |-> narHash, narSize |-> narSize, ca |-> {narHash}] :
        p \in MakeContentAddressedPath(name, narHash)}

IsContentAddressed(info) ==
    \E h \in info.ca : info.path \in MakeContentAddressedPath(NameOf(info.path), h)

(* addValidPath and updatePathInfo: the columns of a row.  A NULL column   *)
(* is the empty set.  addValidPath refuses a claim that does not hold.     *)
Columns(info) ==
    [path |-> PrintStorePath(info.path),
     hash |-> HashToString(info.narHash, "Base16", TRUE),
     narSize |-> IF info.narSize = 0 THEN {} ELSE {info.narSize},
     ca |-> {RenderCA(h) : h \in info.ca}]

AddValidPath(info) ==
    IF info.ca # {} /\ ~IsContentAddressed(info) THEN {} ELSE {Columns(info)}

UpdatePathInfo(row, info) == [Columns(info) EXCEPT !.path = row.path]

(* queryPathInfoInternal: the row read back, under the path asked for. *)
QueryPathInfo(row, base) ==
    {[path |-> base, narHash |-> h,
      narSize |-> IF row.narSize = {} THEN 0 ELSE CHOOSE n \in row.narSize : TRUE,
      ca |-> UNION {ParseCA(c) : c \in row.ca}] :
        h \in {g \in ParseAnyPrefixed(row.hash) :
                  row.path = PrintStorePath(base) /\ \A c \in row.ca : ParseCA(c) # {}}}

--------------------------------------------------------------------------------
(* The statement behind queryPathsByHashPrefix walks the rows not below    *)
(* the prefix in the order of their bytes and stops at the first that does *)
(* not begin with it.                                                      *)
ByteLess(s, t) ==
    LET diff == {i \in 1 .. Len(s) : i <= Len(t) /\ s[i] # t[i]}
        at == CHOOSE i \in diff : \A k \in diff : i <= k
    IN  IF diff = {} THEN Len(s) < Len(t) ELSE CharCode[s[at]] < CharCode[t[at]]

(* Mutant: the row that ends the walk is taken too. *)
QueryPathsByHashPrefixOneMore(bases, token) ==
    LET prefix == PrintStorePath(token)
        rows == SetToSortSeq({r \in {PrintStorePath(b) : b \in bases} :
                                  ~ByteLess(r, prefix)}, ByteLess)
        stop == SelectInSeq(rows, LAMBDA r : ~IsPrefix(prefix, r))
    IN  UNION {ParseStorePath(r) : r \in ToSet(IF stop = 0 THEN rows ELSE SubSeq(rows, 1, stop))}

QueryPathsByHashPrefix(bases, token) ==
    LET prefix == PrintStorePath(token)
        rows == SetToSortSeq({r \in {PrintStorePath(b) : b \in bases} :
                                  ~ByteLess(r, prefix)}, ByteLess)
        stop == SelectInSeq(rows, LAMBDA r : ~IsPrefix(prefix, r))
        run == SubSeq(rows, 1, IF stop = 0 THEN Len(rows) ELSE stop - 1)
    IN  UNION {ParseStorePath(r) : r \in ToSet(run)}

(* store-resolve: the exit code and the basenames it can mean.  An empty   *)
(* token is refused by the query for hash prefixes.                        *)
Resolve(bases, token) ==
    LET hits == IF token # <<>> /\ Len(token) <= HashLen
                THEN QueryPathsByHashPrefix(bases, token) ELSE {}
        named == {b \in bases : NameOf(b) = token}
        Answer(S) == IF \E b \in S : S = {b} THEN [exit |-> 0, means |-> S]
                                             ELSE [exit |-> 3, means |-> S]
    IN  CASE StorePath(token) \cap bases # {} -> [exit |-> 0, means |-> {token}]
          [] token = <<>> -> [exit |-> 1, means |-> {}]
          [] hits # {} -> Answer(hits)
          [] named # {} -> Answer(named)
          [] OTHER -> [exit |-> 2, means |-> {}]

(* store-paths lists the rows in the order of their names. *)
ListPaths(bases) == SetToSortSeq(bases, ByteLess)

================================================================================
