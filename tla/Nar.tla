--------------------------------- MODULE Nar ---------------------------------
(***************************************************************************)
(* The archive format: SourceAccessor::dumpPath and parseDump of           *)
(* libutil/archive.cc.  An archive is a sequence of cells.  Contents are   *)
(* padded to an even number of cells, as the code pads them to a multiple  *)
(* of eight bytes.  NarMaxDepth bounds the nesting (64 in the code).       *)
(***************************************************************************)
EXTENDS NarCells, FileTrees

CONSTANTS NarMaxDepth, NameLess(_, _)

Odd(n) == n % 2 = 1

(* dumpContents: the size announced, the contents, the padding. *)
DumpContents(data) ==
    <<Tag("contents"), Num(Len(data))>> \o data \o IF Odd(Len(data)) THEN <<Pad>> ELSE <<>>

Skipped == {"fifo", "socket"}

(* What has been written, and whether the dump has thrown. *)
Then(a, b) == IF a.ok THEN [ok |-> b.ok, cells |-> a.cells \o b.cells] ELSE a

Write(cells) == [ok |-> TRUE, cells |-> cells]

RECURSIVE Dump(_, _, _)
Dump(tree, path, depth) ==
    LET st == tree[path]
        names == SetToSortSeq({Last(p) : p \in {q \in Children(tree, path) :
                                                   tree[q].type \notin Skipped}}, NameLess)
        Entry(name) ==
            Then(Then(Write(<<Tag("entry"), Tag("("), Tag("name"), name, Tag("node")>>),
                      Dump(tree, Append(path, name), depth + 1)),
                 Write(<<Tag(")")>>))
        Body == CASE st.type = "regular" ->
                      Write(<<Tag("type"), Tag("regular")>>
                            \o (IF st.exec THEN <<Tag("executable"), <<>>>> ELSE <<>>)
                            \o DumpContents(st.data))
                  [] st.type = "directory" ->
                      FoldLeft(LAMBDA a, n : Then(a, Entry(n)),
                               Write(<<Tag("type"), Tag("directory")>>), names)
                  [] st.type = "symlink" ->
                      Write(<<Tag("type"), Tag("symlink"), Tag("target"), st.target>>)
                  [] OTHER -> [ok |-> FALSE, cells |-> <<>>]
    IN  IF depth >= NarMaxDepth THEN [ok |-> FALSE, cells |-> <<>>]
        ELSE Then(Then(Write(<<Tag("(")>>), Body), Write(<<Tag(")")>>))

DumpPath(tree) == Then(Write(<<NarMagic>>), Dump(tree, <<>>, 0))

--------------------------------------------------------------------------------
(* A call of the sink, which may throw. *)
Call(st, Method(_)) ==
    LET Returned(sink) == [st EXCEPT !.sink = sink, !.res = IF sink.ok THEN "ok" ELSE "error"]
    IN  IF st.res # "ok" THEN st ELSE Returned(Method(st.sink))

(* Mutant: the padding is skipped, whatever it is. *)
ReadPaddingUnchecked(st, n) == IF Odd(n) THEN Get(st) ELSE st

(* readPadding: the cell that fills up the contents must be zero. *)
ReadPadding(st, n) ==
    LET Zero(s) == IF s.res = "ok" /\ Got(s) # Pad THEN Error(s) ELSE s
    IN  IF Odd(n) THEN Zero(Get(st)) ELSE st

(* As many of the next n cells as there are, handed to the sink. *)
Copy(st, path, n) ==
    LET Handed(data) ==
          [Call(st, LAMBDA sink : WriteContents(sink, path, data)) EXCEPT
              !.pos = @ + Len(data), !.res = IF Len(data) < n THEN "eof" ELSE @]
    IN  Handed(SubSeq(st.in, st.pos + 1, IF st.pos + n <= Len(st.in) THEN st.pos + n ELSE Len(st.in)))

(* parseContents: a sink that skips the contents skips the padding unread. *)
ParseContents(st, path) ==
    LET Sized(s, size) ==
          IF s.res # "ok" THEN {s}
          ELSE IF size = {} THEN {Error(s)}
          ELSE {IF s.sink.kind = "null" THEN Copy(s, path, n + (n % 2))
                                        ELSE ReadPadding(Copy(s, path, n), n) : n \in size}
    IN  CHOOSE r \in Sized(Get(st), NumValue(Got(Get(st)))) : TRUE

InvalidName(name) ==
    \/ name \in {<<>>, <<".">>, <<".", ".">>}
    \/ "/" \in ToSet(name) \/ "NUL" \in ToSet(name)

(* A regular file: the optional marker, then the contents. *)
ParseRegular(st, path) ==
    LET Empty(s) == IF Got(s) = <<>> THEN s ELSE Error(s)
        Marked(s) ==
          IF Got(s) # Tag("executable") THEN s
          ELSE GetString(Call(Empty(GetString(s)), LAMBDA sink : IsExecutable(sink, path)))
        Opened == GetString(Call(st, LAMBDA sink : CreateRegularFile(sink, path)))
    IN  Call(ExpectTag(ParseContents(IsTag(Marked(Opened), "contents"), path), ")"),
             LAMBDA sink : FinishRegularFile(sink, path))

ParseSymlink(st, path) ==
    LET Target(s) == IF Got(s) = <<>> \/ "NUL" \in ToSet(Got(s)) THEN Error(s) ELSE s
        Make(s) == Call(s, LAMBDA sink : CreateSymlink(sink, path, Got(s)))
    IN  ExpectTag(Make(Target(GetString(ExpectTag(st, "target")))), ")")

RECURSIVE Parse(_, _, _), ParseEntries(_, _, _, _)
Parse(st, path, depth) ==
    LET Typed(t) ==
          CASE Got(t) = Tag("regular") -> ParseRegular(t, path)
            [] Got(t) = Tag("directory") ->
                 Call(ParseEntries(Call(t, LAMBDA sink : CreateDirectory(sink, path)), path, depth, <<>>),
                      LAMBDA sink : FinishDirectory(sink, path))
            [] Got(t) = Tag("symlink") -> ParseSymlink(t, path)
            [] OTHER -> Error(t)
    IN  IF depth >= NarMaxDepth THEN Error(st)
        ELSE Typed(GetString(ExpectTag(ExpectTag(st, "("), "type")))
ParseEntries(st, path, depth, prevName) ==
    LET Valid(n) == ~InvalidName(Got(n)) /\ NameLess(prevName, Got(n))
        Node(n, name) == ExpectTag(Parse(ExpectTag(n, "node"), Append(path, name), depth + 1), ")")
        More(entry, name) ==
          IF entry.res = "ok" THEN ParseEntries(entry, path, depth, name) ELSE entry
        Entry(n) == IF n.res = "ok" /\ Valid(n) THEN More(Node(n, Got(n)), Got(n)) ELSE Error(n)
        Tagged(tag) ==
          IF Got(tag) = Tag(")") THEN tag
          ELSE Entry(GetString(ExpectTag(ExpectTag(IsTag(tag, "entry"), "("), "name")))
    IN  Tagged(GetString(st))

(* parseDump: anything unreadable at the front is not an archive. *)
ParseDump(in, pos, sink) ==
    LET Opened(v) == IF Got(v) = NarMagic THEN Parse(v, <<>>, 0) ELSE Error(v)
    IN  Opened(GetString(NewParse(in, pos, sink)))

================================================================================
