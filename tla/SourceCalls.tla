---------------------------- MODULE SourceCalls ----------------------------
(***************************************************************************)
(* The calls that the clients of a source of bytes make, and the replies.  *)
(* The byte at offset o is written o, so a reply's data shows which bytes  *)
(* of the source it holds.                                                 *)
(***************************************************************************)
EXTENDS Integers, Sequences

ReadCall(count)       == [op |-> "read", count |-> count]
SeekCall(off, whence) == [op |-> "seek", off |-> off, whence |-> whence]
SizeCall(force)       == [op |-> "size", force |-> force]

\* get_size of a compressed source that nobody has measured.
Unknown == -1

Answer(call, value, data) == [call |-> call, value |-> value, data |-> data]
Failure(call)             == Answer(call, -1, <<>>)
NoReply                   == Answer([op |-> "none"], 0, <<>>)

Lesser(a, b) == IF a < b THEN a ELSE b

(* `count' bytes of the source from offset `from' on. *)
Run(from, count) == [i \in 1..count |-> from + i - 1]

(* Where a seek leads to, from a position in a source of that size. *)
Target(call, pos, length) ==
  CASE call.whence = "set" -> call.off
    [] call.whence = "cur" -> pos + call.off
    [] call.whence = "end" -> length + call.off
=============================================================================
