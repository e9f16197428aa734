--------------------------- MODULE BufferedSource ---------------------------
(***************************************************************************)
(* The uncompressed data source of extractor_datasource.c, bfds_...: a file*)
(* read through a buffer of at most MaxRead bytes, or memory used directly.*)
(*                                                                         *)
(* The byte at offset o of the file is written o.  `held' is not in the    *)
(* code: it is the offset of the byte that really is first in the buffer,  *)
(* where fpos is the offset the code believes it to have.                  *)
(*                                                                         *)
(* lseek(2) and read(2) may fail at most MaxFaults times.  SeekFaults says *)
(* whether the read(2) that refills the buffer for bfds_seek is one that   *)
(* fails: the code does not recover from that one.                         *)
(***************************************************************************)
EXTENDS SourceCalls

CONSTANTS MaxRead, MaxFaults, SeekFaults, Calls

ASSUME MaxReadAssumption   == MaxRead \in Nat \ {0}
ASSUME MaxFaultsAssumption == MaxFaults \in Nat
ASSUME SeekFaultsAssumption == SeekFaults \in BOOLEAN
ASSUME CallsAssumption ==
  \A call \in Calls :
    \/ /\ call.op = "read" /\ call.count \in Nat
       /\ call = ReadCall(call.count)
    \/ /\ call.op = "seek" /\ call.off \in Int /\ call.whence \in {"set", "cur", "end"}
       /\ call = SeekCall(call.off, call.whence)
    \/ call.op = "size"

VARIABLES
  fsize,        \* size of the file or of the memory
  inMemory,     \* there is no buffer of its own
  fpos,         \* position of the buffer in the file
  bufferPos,    \* position within the buffer
  bufferBytes,  \* number of valid bytes in the buffer
  held,         \* where the bytes in the buffer come from
  faults,       \* system calls that have failed
  want,         \* bfds_read: bytes still to be copied; 0 outside of it
  got,          \* bfds_read: the bytes copied so far
  bcall,        \* the call being served
  breply        \* the last call and its result

file   == <<fsize, inMemory>>
buffer == <<fpos, bufferPos, bufferBytes, held>>
bvars  == <<fsize, inMemory, fpos, bufferPos, bufferBytes, held, faults,
            want, got, bcall, breply>>

(* The position clients know about: that of the last finished call. *)
Committed == fpos + bufferPos - (IF want > 0 THEN Len(got) ELSE 0)

Abstract == INSTANCE ByteSource
  WITH Whole <- TRUE, opened <- TRUE, size <- fsize, position <- Committed,
       trouble <- faults > 0, reply <- breply

Position         == fpos + bufferPos
BufferSize       == IF inMemory THEN fsize ELSE Lesser(MaxRead, fsize)
Returns(call, value, data) == breply' = Answer(call, value, data)
Fails(call)      == breply' = Failure(call)
Fault            == faults < MaxFaults /\ faults' = faults + 1

(* bfds_new: the buffer is filled from the start of the file, and that this*)
(* has failed is not noticed.                                              *)
BInit(sizes) ==
  /\ fsize \in sizes /\ inMemory \in BOOLEAN
  /\ fpos = 0 /\ bufferPos = 0 /\ held = 0
  /\ \/ faults = 0 /\ bufferBytes = BufferSize
     \/ ~inMemory /\ MaxFaults > 0 /\ faults = 1 /\ bufferBytes = 0
  /\ want = 0 /\ got = <<>>
  /\ bcall = NoReply.call /\ breply = NoReply

Serving == want > 0

(* bfds_pick_next_buffer_at, the system calls succeeding; `skip' bytes of  *)
(* the new buffer are consumed at once.                                    *)
PickNextBufferAt(pos, skip) ==
  IF inMemory
  THEN /\ bufferPos' = pos + skip
       /\ UNCHANGED <<fpos, bufferBytes, held>>
  ELSE /\ fpos' = pos /\ held' = pos
       /\ bufferPos' = skip
       /\ bufferBytes' = Lesser(BufferSize, fsize - pos)

-----------------------------------------------------------------------------
(* bfds_read *)

BRead(count) ==
  /\ ~Serving
  /\ bcall' = ReadCall(count)
  /\ IF Position = fsize \/ count = 0
     THEN /\ Returns(bcall', 0, <<>>)
          /\ UNCHANGED <<want, got>>
     ELSE /\ want' = count /\ got' = <<>>
          /\ UNCHANGED breply
  /\ UNCHANGED <<file, buffer, faults>>

(* The loop's body has copied n more bytes; it leaves when none are left   *)
(* to copy.                                                                *)
Copied(n, from) ==
  /\ got' = got \o Run(from, n)
  /\ IF n = want \/ n = 0
     THEN want' = 0 /\ Returns(bcall, Len(got'), got')
     ELSE want' = want - n /\ UNCHANGED breply

CopyBuffered ==
  /\ Serving /\ bufferPos # bufferBytes
  /\ LET n == Lesser(want, bufferBytes - bufferPos)
     IN  /\ Copied(n, held + bufferPos)
         /\ bufferPos' = bufferPos + n
  /\ UNCHANGED <<file, fpos, bufferBytes, held, faults, bcall>>

RefillAndCopy ==
  /\ Serving /\ bufferPos = bufferBytes
  /\ LET next == fpos + bufferBytes
         n    == Lesser(want, Lesser(BufferSize, fsize - next))
     IN  /\ next <= fsize
         /\ PickNextBufferAt(next, n)
         /\ Copied(n, next)
  /\ UNCHANGED <<file, faults, bcall>>

(* mutant: the buffer is not invalidated *)
RefillFailsKeeping ==
  /\ Serving /\ bufferPos = bufferBytes
  /\ \/ ~inMemory /\ Fault
     \/ fpos + bufferBytes > fsize /\ UNCHANGED faults
  /\ fpos' = fpos + bufferPos - Len(got)
  /\ bufferPos' = 0
  /\ want' = 0 /\ Fails(bcall)
  /\ UNCHANGED <<file, bufferBytes, held, got, bcall>>

(* Neither lseek(2) nor read(2) may be trusted: the position is the one    *)
(* before the call again, and the buffer is empty.                         *)
RefillFails ==
  /\ Serving /\ bufferPos = bufferBytes
  /\ \/ ~inMemory /\ Fault
     \/ fpos + bufferBytes > fsize /\ UNCHANGED faults
  /\ fpos' = fpos + bufferPos - Len(got)
  /\ bufferPos' = 0 /\ bufferBytes' = 0
  /\ want' = 0 /\ Fails(bcall)
  /\ UNCHANGED <<file, held, got, bcall>>

-----------------------------------------------------------------------------
(* bfds_seek *)

BSeek(off, whence) ==
  LET call   == SeekCall(off, whence)
      target == Target(call, Position, fsize)
      legal  == target \in 0..fsize
      inside == inMemory \/ target - fpos \in 0..bufferBytes - 1
  IN  /\ ~Serving
      /\ bcall' = call
      /\ \/ /\ ~legal
            /\ Fails(call)
            /\ UNCHANGED <<buffer, faults>>
         \/ /\ legal /\ inside
            /\ bufferPos' = target - fpos
            /\ Returns(call, target, <<>>)
            /\ UNCHANGED <<fpos, bufferBytes, held, faults>>
         \/ /\ legal /\ ~inside
            /\ PickNextBufferAt(target, 0)
            /\ Returns(call, target, <<>>)
            /\ UNCHANGED faults
         \/ /\ legal /\ ~inside
            /\ Fault                        \* lseek(2) fails
            /\ Fails(call)
            /\ UNCHANGED buffer
         \/ /\ legal /\ ~inside
            /\ SeekFaults /\ Fault          \* read(2) fails
            /\ fpos' = target /\ bufferPos' = 0
            /\ Fails(call)
            /\ UNCHANGED <<bufferBytes, held>>
      /\ UNCHANGED <<file, want, got>>

BStep == CopyBuffered \/ RefillAndCopy \/ RefillFails

-----------------------------------------------------------------------------
(* The source on its own, used by a client. *)

CONSTANT Sizes

ASSUME SizesAssumption == Sizes \subseteq Nat \ {0}

BCall(call) == \/ call.op = "read" /\ BRead(call.count)
               \/ call.op = "seek" /\ BSeek(call.off, call.whence)

Init == BInit(Sizes)
Next == \/ \E call \in Calls : BCall(call)
        \/ BStep
Spec == Init /\ [][Next]_bvars

-----------------------------------------------------------------------------
(* The buffer's valid bytes are those at fpos: neither a read that fails   *)
(* half-way nor a seek leaves bytes of another place there for the next    *)
(* read to deliver (bfds_seek, bfds_read, bfds_pick_next_buffer_at).       *)
BufferAtPosition == bufferBytes > 0 => held = fpos

(* However reads and seeks cross the ends of the buffer, a client gets the *)
(* bytes of the file at its position, and a legal call fails only if a     *)
(* system call did.                                                        *)
ImplementsBytes == [][Abstract!Next]_(Abstract!vars)
=============================================================================
