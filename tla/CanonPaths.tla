----------------------------- MODULE CanonPaths -----------------------------
(***************************************************************************)
(* Canonical paths: canonPathInner of libutil/file-path-impl.hh and the    *)
(* CanonPath class of libutil/canon-path.cc.  A path is the string the     *)
(* class keeps, a sequence of one-character strings that begins with "/".  *)
(* A constructor that throws returns the empty set; an assertion is a      *)
(* precondition, named by an operator of its own.                          *)
(***************************************************************************)
EXTENDS Integers, Sequences, SequencesExt

Sep == "/"

Root == <<Sep>>

(* The characters in the order of their codes, as bytes.  Those of        *)
(* HighBytes have the top bit set, as the bytes of a UTF-8 name have.      *)
CharOrder == <<"NUL", "LF", "!", "#", ")", "+", "-", ".", "/", "0", "1", "2",
               "3", "4", "5", "6", "7", "8", "9", ":", "=", "?", "A", "B", "C", "D", "_",
               "a", "b", "c", "d", "e", "f", "g", "h", "i", "j", "k", "l", "m",
               "n", "o", "p", "q", "r", "s", "t", "u", "v", "w", "x", "y", "z",
               "xA9", "xC3">>

HighBytes == {"xA9", "xC3"}

CharCode == [c \in ToSet(CharOrder) |-> CHOOSE i \in 1 .. Len(CharOrder) : CharOrder[i] = c]

FindSep(s) == SelectInSeq(s, LAMBDA c : c = Sep)

RFindSep(s) == SelectLastInSeq(s, LAMBDA c : c = Sep)

(* The component at the front of a string, and what follows it. *)
NextComp(s) == IF FindSep(s) = 0 THEN s ELSE SubSeq(s, 1, FindSep(s) - 1)

AfterComp(s) == SubSeq(s, Len(NextComp(s)) + 1, Len(s))

RECURSIVE CanonLoop(_, _)
(* The loop of canonPathInner: skip a slash, ignore ".", let ".." erase    *)
(* the last component of the result, copy any other component behind "/".  *)
CanonLoop(result, remaining) ==
    IF remaining = <<>> THEN result
    ELSE IF Head(remaining) = Sep THEN CanonLoop(result, Tail(remaining))
    ELSE LET comp == NextComp(remaining)
         IN  CanonLoop(CASE comp = <<".">> -> result
                         [] comp = <<".", ".">> ->
                              IF result = <<>> THEN result
                              ELSE SubSeq(result, 1, RFindSep(result) - 1)
                         [] OTHER -> result \o <<Sep>> \o comp,
                       AfterComp(remaining))

CanonPathInner(s) ==
    LET result == CanonLoop(<<>>, s) IN IF result = <<>> THEN Root ELSE result

(* canonPath(path, false): an empty or a relative path throws. *)
CanonPath(s) == IF s = <<>> \/ s[1] # Sep THEN {} ELSE {CanonPathInner(s)}

NoNullBytes(s) == "NUL" \notin ToSet(s)

(* CanonPath(raw) and CanonPath(raw, root) *)
FromRaw(raw) == IF NoNullBytes(raw) THEN {CanonPathInner(<<Sep>> \o raw)} ELSE {}

FromRawIn(raw, root) ==
    IF ~NoNullBytes(raw) THEN {}
    ELSE IF raw # <<>> /\ raw[1] = Sep THEN {CanonPathInner(raw)}
    ELSE {CanonPathInner(root \o <<Sep>> \o raw)}

IsRoot(p) == Len(p) <= 1

Rel(p) == SubSeq(p, 2, Len(p))

RECURSIVE Iterate(_)
(* Iterator from begin() to end() over the part behind the first slash. *)
Iterate(remaining) ==
    IF remaining = <<>> THEN <<>>
    ELSE IF FindSep(remaining) = 0 THEN <<remaining>>
    ELSE <<NextComp(remaining)>> \o Iterate(SubSeq(remaining, FindSep(remaining) + 1,
                                                   Len(remaining)))

Components(p) == Iterate(Rel(p))

(* fromFilename accepts a segment the constructor leaves alone and that is *)
(* one component.                                                          *)
FromFilename(segment) ==
    {p \in FromRaw(segment) : segment = Rel(p) /\ Len(Components(p)) = 1}

(* parent() and pop() *)
Parent(p) ==
    IF IsRoot(p) THEN {}
    ELSE {SubSeq(p, 1, IF RFindSep(p) = 1 THEN 1 ELSE RFindSep(p) - 1)}

DirOf(p) == IF IsRoot(p) THEN {} ELSE {SubSeq(p, 1, RFindSep(p) - 1)}

BaseName(p) == IF IsRoot(p) THEN {} ELSE {SubSeq(p, RFindSep(p) + 1, Len(p))}

(* Mutant: "/ab" is within "/a". *)
IsWithinString(p, parent) == ~(Len(p) < Len(parent) \/ SubSeq(p, 1, Len(parent)) # parent)

IsWithin(p, parent) ==
    ~ \/ Len(p) < Len(parent)
      \/ SubSeq(p, 1, Len(parent)) # parent
      \/ /\ Len(parent) > 1
         /\ Len(p) > Len(parent)
         /\ p[Len(parent) + 1] # Sep

(* removePrefix asserts IsWithin(p, prefix). *)
RemovePrefix(p, prefix) ==
    IF IsRoot(prefix) THEN p
    ELSE IF Len(p) = Len(prefix) THEN Root
    ELSE SubSeq(p, Len(prefix) + 1, Len(p))

(* operator/ on two paths, by extend *)
Join(p, q) ==
    IF IsRoot(q) THEN p ELSE IF IsRoot(p) THEN p \o Rel(q) ELSE p \o q

(* push asserts a component without a slash that is neither "." nor "..". *)
Push(p, c) == (IF IsRoot(p) THEN p ELSE Append(p, Sep)) \o c

FromElems(elems) == FoldLeft(Push, Root, elems)

(* operator<=>: lexicographic, on plain char, which is signed: a slash      *)
(* counts as 0, which is before the ASCII characters only.                 *)
PathCode(c) ==
    IF c = Sep THEN 0
    ELSE IF c \in HighBytes THEN CharCode[c] - Len(CharOrder) - 1
    ELSE CharCode[c]

Less(p, q) ==
    LET diff == {i \in 1 .. Len(p) : i <= Len(q) /\ p[i] # q[i]}
        at == CHOOSE i \in diff : \A k \in diff : i <= k
    IN  IF diff = {} THEN Len(p) < Len(q) ELSE PathCode(p[at]) < PathCode(q[at])

--------------------------------------------------------------------------------
(* What the class promises, in terms of the components of a path. *)

IsCanonical(p) ==
    /\ p[1] = Sep /\ NoNullBytes(p)
    /\ Len(p) > 1 => Last(p) # Sep
    /\ \A c \in ToSet(Components(p)) : c \notin {<<>>, <<".">>, <<".", ".">>}

IsAscii(p) == ToSet(p) \cap HighBytes = {}

(* The components of the spelling, read one by one: what "." and ".." mean *)
(* without reference to the string.                                        *)
RECURSIVE Spelled(_)
Spelled(s) ==
    IF s = <<>> THEN <<>>
    ELSE IF Head(s) = Sep THEN Spelled(Tail(s))
    ELSE <<NextComp(s)>> \o Spelled(AfterComp(s))

Walk(comps) ==
    LET Step(at, c) == CASE c = <<".">> -> at
                         [] c = <<".", ".">> -> IF at = <<>> THEN at ELSE Front(at)
                         [] OTHER -> Append(at, c)
    IN  FoldLeft(Step, <<>>, comps)

================================================================================
