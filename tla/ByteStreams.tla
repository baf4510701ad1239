----------------------------- MODULE ByteStreams -----------------------------
(***************************************************************************)
(* The buffered streams of libutil/serialise.cc over the descriptors of    *)
(* libutil/file-descriptor.cc, in units of cells.  BufSize is the size of  *)
(* the buffers (32 KiB in the code).  A descriptor takes `room` more cells *)
(* before a write to it fails.                                             *)
(***************************************************************************)
EXTENDS Integers, Sequences

CONSTANT BufSize

Upto(s, n) == SubSeq(s, 1, IF n < Len(s) THEN n ELSE Len(s))

(* writeFull: every write takes what fits; the one that takes nothing      *)
(* throws.                                                                 *)
WriteFull(data, room) == [out |-> Upto(data, room), ok |-> Len(data) <= room]

NewFdSink == [buf |-> <<>>, written |-> 0]

(* FdSink::writeUnbuffered counts before it writes. *)
WriteUnbuffered(sink, data, room) ==
    LET w == WriteFull(data, room)
    IN  [sink |-> [sink EXCEPT !.written = @ + Len(data)], out |-> w.out, ok |-> w.ok]

(* BufferedSink::flush empties the buffer before it writes. *)
Flush(sink, room) ==
    IF sink.buf = <<>> THEN [sink |-> sink, out |-> <<>>, ok |-> TRUE]
    ELSE WriteUnbuffered([sink EXCEPT !.buf = <<>>], sink.buf, room)

(* Mutant: data that does not fit goes past the buffer, ahead of what is   *)
(* in it.                                                                  *)
PutUnflushed(sink, data, room) ==
    IF Len(data) < BufSize - Len(sink.buf)
    THEN [sink |-> [sink EXCEPT !.buf = @ \o data], out |-> <<>>, ok |-> TRUE]
    ELSE WriteUnbuffered(sink, data, room)

(* BufferedSink::operator(): data that does not fit goes past the buffer,  *)
(* once the buffer is flushed.                                             *)
Put(sink, data, room) ==
    LET f == Flush(sink, room)
        w == WriteUnbuffered(f.sink, data, room - Len(f.out))
    IN  IF Len(data) < BufSize - Len(sink.buf)
        THEN [sink |-> [sink EXCEPT !.buf = @ \o data], out |-> <<>>, ok |-> TRUE]
        ELSE IF ~f.ok THEN f
        ELSE [w EXCEPT !.out = f.out \o @]

--------------------------------------------------------------------------------
(* FdSource: what was read of the file, what is left in the buffer. *)
NewFdSource == [read |-> 0, buf |-> <<>>]

AtEof(source, file) == source.read = Len(file)

(* What read(2) may return before the end: a pipe any part of what was     *)
(* asked for, a file all of it that there is.                              *)
ReadSizes(source, file, pipe) ==
    LET most == Len(Upto(SubSeq(file, source.read + 1, Len(file)), BufSize))
    IN  IF pipe THEN 1 .. most ELSE {most} \ {0}

(* FdSource::readUnbuffered when read(2) returns n cells; at the end of    *)
(* the file it throws.                                                     *)
ReadUnbuffered(source, file, n) ==
    [read |-> source.read + n, buf |-> SubSeq(file, source.read + 1, source.read + n)]

(* BufferedSource::read hands out at most what the buffer holds; asked for *)
(* at least that much, it leaves the buffer empty.                         *)
Read(source, len) ==
    [data |-> Upto(source.buf, len),
     source |-> [source EXCEPT !.buf = SubSeq(@, Len(Upto(@, len)) + 1, Len(@))]]

================================================================================
