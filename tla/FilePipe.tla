------------------------------ MODULE FilePipe ------------------------------
(***************************************************************************)
(* What rpm_extractor.c and pdf_extractor.c have in common: the file is    *)
(* copied, as it comes out of the library's window, into a pipe, from which*)
(* a library or another program reads it.  A byte is its place in the file.*)
(***************************************************************************)
EXTENDS Callbacks, Sequences

CONSTANTS FileSize, BufSize, PipeSize,
          MaxItems      \* bound: items reported

ASSUME PipeAssumption ==
  FileSize \in Nat /\ {BufSize, PipeSize, MaxItems} \subseteq Nat \ {0}

VARIABLES
  off,        \* bytes of the file that have been read
  buf,        \* those yet to be written, in the window
  moved,      \* the window has moved since they were read
  pipe,
  readers,    \* who has the pipe's read end open
  writers,    \* and who its write end
  received,   \* what has been read from it
  items       \* how often the method has reported, or read a line

endVars  == <<readers, writers>>
feedVars == <<off, buf, moved, pipe, received>>
pipeVars == <<feedVars, endVars, items>>

PipeInit ==
  /\ off = 0 /\ buf = <<>> /\ moved = FALSE /\ pipe = <<>> /\ received = <<>>
  /\ readers = {} /\ writers = {} /\ items = 0

(* What plugin_env_read returns are bytes of the window, not a copy. *)
GetsBytes ==
  /\ \E n \in 1..BufSize :
       /\ off + n <= FileSize
       /\ buf' = [i \in 1..n |-> off + i] /\ off' = off + n
  /\ moved' = (moved /\ library # "listens")
  /\ UNCHANGED <<pipe, received>>

Bytes(n) == [i \in 1..n |-> IF moved THEN 0 ELSE buf[i]]

(* write(2) blocks until there is room for a byte or nobody reads. *)
PutsBytes ==
  /\ readers # {}
  /\ \E n \in 1..Len(buf) :
       /\ n + Len(pipe) <= PipeSize
       /\ pipe' = pipe \o Bytes(n)
       /\ buf' = SubSeq(buf, n + 1, Len(buf))
  /\ UNCHANGED <<off, moved, received>>

(* At the other end of the pipe. *)
TakesBytes ==
  /\ \E n \in 1..Len(pipe) :
       /\ received' = received \o SubSeq(pipe, 1, n)
       /\ pipe' = SubSeq(pipe, n + 1, Len(pipe))
  /\ UNCHANGED <<off, buf, moved>>

AtEnd == pipe = <<>> /\ writers = {} /\ UNCHANGED feedVars

(* The library moves the window when the plugin asks it for that, or when  *)
(* it does not count on the plugin any more.                               *)
WindowMoves(reading) ==
  /\ (reading /\ asking # {}) \/ library # "listens"
  /\ moved' = TRUE
  /\ UNCHANGED <<off, buf, pipe, received, endVars, items>>
=============================================================================
