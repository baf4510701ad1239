------------------------------ MODULE NarCells ------------------------------
(***************************************************************************)
(* Cells and how they are read.  A cell is what one `sink <<` writes (a    *)
(* string with its length and padding, or a number) or a unit of a file's  *)
(* contents; it is a sequence of strings.  The cell Bad stands for a       *)
(* string that is too long or badly padded, an integer out of range or     *)
(* padding that is not zero.                                               *)
(***************************************************************************)
EXTENDS Integers, Sequences

Tag(s) == <<s>>

Bad == <<"bad">>

Pad == <<"pad">>

MaxNum == 9

(* A number, in unary. *)
Num(n) == <<"#">> \o [i \in 1 .. n |-> "I"]

NumValue(c) == {n \in 0 .. MaxNum : Num(n) = c}

NarMagic == <<"nix-archive-1">>

--------------------------------------------------------------------------------
(* The state of a parse: the input, how much of it was read, the sink, and *)
(* how it stands: "ok", "eof" when the input ran out, "error".             *)
NewParse(in, pos, sink) == [in |-> in, pos |-> pos, sink |-> sink, res |-> "ok"]

Error(st) == IF st.res = "ok" THEN [st EXCEPT !.res = "error"] ELSE st

(* The next cell of the input: where the parse stands after it, and it. *)
Get(st) ==
    IF st.res # "ok" THEN st
    ELSE IF st.pos = Len(st.in) THEN [st EXCEPT !.res = "eof"]
    ELSE [st EXCEPT !.pos = @ + 1]

Got(st) == IF st.res = "ok" THEN st.in[st.pos] ELSE Bad

(* readString throws on a Bad cell. *)
NotBad(st) == IF Got(st) = Bad THEN Error(st) ELSE st

GetString(st) == NotBad(Get(st))

IsTag(st, tag) == IF Got(st) = Tag(tag) THEN st ELSE Error(st)

ExpectTag(st, tag) == IsTag(GetString(st), tag)

================================================================================
