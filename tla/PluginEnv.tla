------------------------------ MODULE PluginEnv ------------------------------
(***************************************************************************)
(* The file as the extract method of a plugin sees it: plugin_env_seek,    *)
(* plugin_env_read and plugin_env_get_size of the plugin process, with the *)
(* part of do_extract that serves them, which moves a window of the file   *)
(* through the shared segment.                                             *)
(*                                                                         *)
(* Offsets and sizes are unsigned integers of a fixed width, as in the     *)
(* code: they wrap around, and the largest stands for an unknown size.     *)
(* A byte of the file is its offset.                                       *)
(***************************************************************************)
EXTENDS SourceCalls

CONSTANTS Half,         \* 2^63, what an int64_t no longer holds
          MapSize,      \* bytes of the shared segment
          Sizes,        \* of the file
          Calls,        \* the calls that the extract method makes
          Blind         \* it seeks to offsets outside of a file of unknown size

ASSUME WidthAssumption ==
  /\ Half \in Nat \ {0} /\ MapSize \in Nat \ {0}
  /\ Sizes \subseteq Nat
  /\ \A size \in Sizes : size + MapSize < Half
  /\ Blind \in BOOLEAN

\* Counts are a size_t, offsets an int64_t, and plugins cannot force the size.
ASSUME CallsAssumption ==
  \A c \in Calls :
    \/ c.op = "read" /\ c.count \in 0..2 * Half - 1
    \/ /\ c.op = "seek" /\ c.off \in -Half..Half - 1
       /\ c.whence \in {"set", "cur", "end"}
    \/ c.op = "size" /\ ~c.force

VARIABLES
  size,           \* of the file
  known,          \* the library knows the size
  window,         \* what the library has put into the segment
  served,         \* the library still answers the requests of this plugin
  trouble,        \* it could not find out the size
  pc,             \* "start", "run", "seek", "answered", "gone"
  file_size,      \* the fields of struct ProcessingContext
  read_position,
  shm_off,
  shm_ready_bytes,
  request,        \* the SEEK that the library has to answer
  npos, wval,     \* what plugin_env_seek has asked for
  count,          \* bytes that plugin_env_read still wants
  call,           \* the call of the extract method
  reply           \* what it has returned

library == <<size, known, window, served, trouble>>
context == <<file_size, read_position, shm_off, shm_ready_bytes>>
locals  == <<npos, wval, count, call>>
vars    == <<library, request, context, locals, pc, reply>>

(* The promise: a file with a position, the plugin's.  It ends when the    *)
(* client aborts: the window may then have moved away under the plugin.    *)
File == INSTANCE ByteSource WITH
  Whole    <- FALSE,
  opened   <- served /\ pc # "gone",
  position <- read_position

Width        == 2 * Half
Max          == Width - 1     \* UINT64_MAX
Wrap(n)      == IF n < 0 THEN n + Width ELSE IF n > Max THEN n - Width ELSE n
Signed(n)    == IF n < Half THEN n ELSE n - Width
Holds(pos)   == shm_off <= pos /\ Wrap(shm_off + shm_ready_bytes) > pos

FileSize(isKnown) == IF isKnown THEN size ELSE Max
WindowAt(off)     == [off |-> off, ready |-> Lesser(MapSize, size - off)]

(* Reading past the end of a compressed file shows its size; reading up to *)
(* the end may.                                                            *)
SizeSeen(off) == IF known \/ off + MapSize > size THEN {TRUE} ELSE BOOLEAN

NoRequest == [off |-> 0, whence |-> 0]

Init ==
  /\ size \in Sizes /\ known = FALSE /\ window = [off |-> 0, ready |-> 0]
  /\ served = FALSE /\ trouble = FALSE
  /\ pc = "start"
  /\ file_size = 0 /\ read_position = 0 /\ shm_off = 0 /\ shm_ready_bytes = 0
  /\ request = NoRequest /\ npos = 0 /\ wval = 0 /\ count = 0
  /\ call = NoReply.call /\ reply = NoReply

-----------------------------------------------------------------------------
(* handle_start_message: the announcement of the file. *)
Start ==
  /\ pc = "start"
  /\ window' = WindowAt(0)
  /\ known' \in SizeSeen(0) /\ served' = TRUE
  /\ pc' = "run"
  /\ shm_ready_bytes' = window'.ready
  /\ file_size' = FileSize(known')
  /\ read_position' = 0 /\ shm_off' = 0
  /\ UNCHANGED <<size, trouble, request, locals, reply>>

Return(value, data) ==
  /\ reply' = Answer(call', value, data)
  /\ pc' = "run"

-----------------------------------------------------------------------------
(* plugin_env_seek *)

Refused(c) ==
  CASE c.whence = "cur" -> \/ c.off < 0 /\ read_position < -c.off
                           \/ c.off > 0 /\ Wrap(read_position + c.off) < read_position
                           \/ c.off > 0 /\ Wrap(read_position + c.off) > file_size
    [] c.whence = "set" -> c.off < 0 \/ file_size < c.off
    [] c.whence = "end" -> \/ c.off > 0
                           \/ /\ file_size # Max
                              /\ \/ Signed(Wrap(file_size + c.off)) < 0
                                 \/ file_size < Signed(Wrap(file_size + c.off))

FromEnd(c) == c.whence = "end" /\ file_size = Max

Wanted(c) == CASE c.whence = "cur" -> Wrap(read_position + c.off)
               [] c.whence = "set" -> c.off
               [] c.whence = "end" -> IF FromEnd(c) THEN -c.off
                                      ELSE Wrap(file_size + c.off)

SeekRefused(c) ==
  /\ pc = "run" /\ c.op = "seek" /\ Refused(c)
  /\ call' = c
  /\ Return(-1, <<>>)
  /\ UNCHANGED <<library, request, context, npos, wval, count>>

SeekWithin(c) ==
  /\ pc = "run" /\ c.op = "seek" /\ ~Refused(c)
  /\ ~FromEnd(c) /\ Holds(Wanted(c))
  /\ call' = c
  /\ read_position' = Wanted(c)
  /\ Return(Signed(Wanted(c)), <<>>)
  /\ UNCHANGED <<library, file_size, shm_off, shm_ready_bytes, request,
                 npos, wval, count>>

Request(off, w) ==
  /\ npos' = off /\ wval' = w
  /\ request' = [off |-> off, whence |-> w]
  /\ pc' = "seek"

SeekOutside(c) ==
  /\ pc = "run" /\ c.op = "seek" /\ ~Refused(c)
  /\ Wanted(c) <= size \/ Blind
  /\ FromEnd(c) \/ ~Holds(Wanted(c))
  /\ call' = c
  /\ Request(Wanted(c), IF FromEnd(c) THEN 2 ELSE 0)
  /\ UNCHANGED <<library, context, count, reply>>

-----------------------------------------------------------------------------
(* plugin_env_read *)

(* The count is first cut off at the end of the file, as far as known. *)
Cut(n) == IF \/ Wrap(n + read_position) > file_size
             \/ Wrap(n + read_position) < read_position
          THEN Wrap(file_size - read_position) ELSE n

MustSeek == \/ /\ read_position >= Wrap(shm_off + shm_ready_bytes)
               /\ read_position < file_size
            \/ read_position < shm_off

(* mutant: up to the end of the segment, not of what is in it *)
AvailableMapped(n) == IF Wrap(read_position + n) > Wrap(shm_off + MapSize)
                      THEN Wrap(shm_off + MapSize - read_position) ELSE n

(* Then at the end of the window, of which the caller is given a part. *)
Available(n) == IF Wrap(read_position + n) > Wrap(shm_off + shm_ready_bytes)
                THEN Wrap(shm_off + shm_ready_bytes - read_position) ELSE n

Bytes(n) == [i \in 1..n |->
               LET index == read_position - shm_off + i - 1
               IN  IF index \in 0..window.ready - 1 THEN window.off + index ELSE -1]

Deliver(n) ==
  /\ read_position' = Wrap(read_position + Available(n))
  /\ Return(Signed(Available(n)), Bytes(Signed(Available(n))))

ReadWithin(c) ==
  /\ pc = "run" /\ c.op = "read" /\ ~MustSeek
  /\ call' = c
  /\ Deliver(Cut(c.count))
  /\ UNCHANGED <<library, file_size, shm_off, shm_ready_bytes, request,
                 npos, wval, count>>

(* The position is known to be inside the file, so plugin_env_seek only    *)
(* asks the library for another window.                                    *)
ReadOutside(c) ==
  /\ pc = "run" /\ c.op = "read" /\ MustSeek
  /\ call' = c /\ count' = Cut(c.count)
  /\ Request(read_position, 0)
  /\ UNCHANGED <<library, context, reply>>

GetSize(c) ==
  /\ pc = "run" /\ c.op = "size"
  /\ call' = c
  /\ Return(Signed(file_size), <<>>)
  /\ UNCHANGED <<library, request, context, npos, wval, count>>

-----------------------------------------------------------------------------
(* do_extract, with the requests of the other plugins *)

Requested == pc = "seek" /\ served

(* A distance from the end becomes an offset, once. *)
Convert ==
  /\ Requested /\ request.whence = 2
  /\ \/ known' = TRUE /\ UNCHANGED trouble
        /\ request' = [off    |-> IF request.off > size THEN 0 ELSE size - request.off,
                   whence |-> 0]
     \/ ~known /\ trouble' = TRUE /\ UNCHANGED known
        /\ request' = [off |-> 0, whence |-> 0]
  /\ UNCHANGED <<size, window, served, context, locals, pc, reply>>

InRange == \/ window'.off + window'.ready > request.off
           \/ known' /\ window'.off = size

Update ==
  /\ pc' = "answered"
  /\ shm_off' = window'.off
  /\ shm_ready_bytes' = window'.ready
  /\ file_size' = FileSize(known')

(* The window moves to the smallest offset that is asked for. *)
MoveWindow(min) ==
  /\ Requested /\ request.whence = 0
  /\ min <= request.off /\ min <= size
  /\ window' = WindowAt(min)
  /\ known' \in SizeSeen(min)
  /\ IF InRange THEN Update ELSE UNCHANGED <<pc, shm_off, shm_ready_bytes, file_size>>
  /\ UNCHANGED <<size, served, trouble, request, read_position, locals, reply>>

(* DISCARD_STATE, after the client has aborted. *)
Discard ==
  /\ Requested
  /\ served' = FALSE
  /\ UNCHANGED call /\ Return(-1, <<>>)
  /\ UNCHANGED <<size, known, window, trouble, request, context, npos, wval, count>>

(* A request that cannot be served (or another plugin's) costs every       *)
(* plugin its process, as do timeouts.                                     *)
FullReset ==
  /\ pc # "gone"
  /\ pc' = "gone"
  /\ UNCHANGED <<library, request, context, locals, reply>>

-----------------------------------------------------------------------------
(* The rest of plugin_env_seek, when UPDATED_SHM has come. *)

Position == IF wval = 2 THEN Wrap(file_size - npos) ELSE npos

(* mutant: the empty window at the end of the file holds no position *)
ReachedInside == shm_off <= Position /\ Wrap(shm_off + shm_ready_bytes) > Position

Reached == /\ shm_off <= Position
           /\ \/ Wrap(shm_off + shm_ready_bytes) > Position
              \/ file_size = shm_off

SeekAnswered ==
  /\ pc = "answered" /\ call.op = "seek" /\ Reached
  /\ read_position' = Position
  /\ UNCHANGED call /\ Return(Signed(Position), <<>>)
  /\ UNCHANGED <<library, request, file_size, shm_off, shm_ready_bytes, npos, wval, count>>

ReadAnswered ==
  /\ pc = "answered" /\ call.op = "read" /\ Reached
  /\ UNCHANGED call /\ Deliver(count)
  /\ UNCHANGED <<library, request, file_size, shm_off, shm_ready_bytes, npos, wval, count>>

Misunderstood ==
  /\ pc = "answered" /\ ~Reached
  /\ UNCHANGED call /\ Return(-1, <<>>)
  /\ UNCHANGED <<library, request, context, npos, wval, count>>

-----------------------------------------------------------------------------
Calling(c) == \/ SeekRefused(c) \/ SeekWithin(c) \/ SeekOutside(c)
              \/ ReadWithin(c) \/ ReadOutside(c)
              \/ GetSize(c)

Serving == \/ Convert
           \/ \E min \in 0..size : MoveWindow(min)
           \/ Discard

Answered == SeekAnswered \/ ReadAnswered \/ Misunderstood

Next == \/ Start
        \/ \E c \in Calls : Calling(c)
        \/ Serving
        \/ Answered
        \/ FullReset

Spec == Init /\ [][Next]_vars

-----------------------------------------------------------------------------
(* The plugin's position never leaves the file (plugin_env_seek: "Will not *)
(* move beyond the end of file").                                          *)
PositionInFile == read_position <= size

(* A plugin that reads and seeks through windows that the library moves,   *)
(* with a size that may become known only on the way, gets from the        *)
(* callbacks just what a file with a position would give: the right bytes, *)
(* at least one until the end, and legal seeks refused only after the call *)
(* as a whole has been given up.                                           *)
ImplementsFile == [][File!Next]_(File!vars)

(* A seek that fails leaves the plugin where it was. *)
FailedSeekStays ==
  [][reply'.call.op = "seek" /\ reply'.value = -1 => read_position' = read_position]_vars
=============================================================================
