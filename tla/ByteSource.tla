----------------------------- MODULE ByteSource -----------------------------
(***************************************************************************)
(* What a data source promises its clients: a sequence of bytes with a     *)
(* position that reading and seeking move.  The byte at offset o is        *)
(* written o, so a reply's data shows which bytes of the source it holds.  *)
(*                                                                         *)
(* trouble says that a system call has failed or that the file is damaged; *)
(* it is the only excuse for a legal operation that fails or falls short.  *)
(* A failed operation may leave the position anywhere in the source, and a *)
(* damaged file may turn out to be shorter than it should be.              *)
(***************************************************************************)
EXTENDS SourceCalls

CONSTANTS Calls,        \* the calls that clients make
          Whole         \* reads are only cut off by the end of the source

VARIABLES opened,       \* the source has been created
          size,         \* the number of bytes there are
          position,     \* offset of the next byte
          trouble,      \* a system call has failed, or the file is damaged
          reply         \* the last call and what it returned

vars == <<opened, size, position, trouble, reply>>

Init == ~opened /\ reply = NoReply

(* Creating the source settles what it holds.  The bytes that were read to *)
(* find out what kind of file it is are not given back.                    *)
Open == /\ ~opened /\ opened'
        /\ position' \in 0..size'
        /\ reply' = NoReply

Close == opened /\ ~opened'

Trouble == trouble' /\ UNCHANGED <<opened, size, position, reply>>

(* A read ends where the source ends, or the caller has to ask again for   *)
(* the rest.                                                               *)
Suffices(got, available) == got = available \/ (~Whole /\ got > 0)

Read(call) ==
  /\ call.op = "read"
  /\ \E got \in 0..Lesser(call.count, size - position) :
       /\ ~Suffices(got, Lesser(call.count, size - position)) => trouble'
       /\ reply' = Answer(call, got, Run(position, got))
       /\ position' = position + got

ReadFails(call) ==
  /\ call.op = "read" /\ trouble'
  /\ reply'.call = call /\ reply'.value < 0 /\ reply'.data = <<>>
  /\ position' \in 0..size

Seek(call) ==
  /\ call.op = "seek"
  /\ position' \in 0..size
  /\ \/ position' = Target(call, position, size)
     \/ call.whence = "end" /\ trouble'
  /\ reply' = Answer(call, position', <<>>)

(* A target outside of the source is refused. *)
SeekFails(call) ==
  /\ call.op = "seek"
  /\ Target(call, position, size) \in 0..size => trouble'
  /\ reply' = Failure(call)
  /\ position' \in 0..size

GetSize(call) ==
  /\ call.op = "size"
  /\ \/ reply' = Answer(call, size, <<>>)
     \/ reply' = Answer(call, Unknown, <<>>) /\ (call.force => trouble')
     \/ \E less \in 0..size : reply' = Answer(call, less, <<>>) /\ trouble'
  /\ position' # position => trouble'
  /\ position' \in 0..size

Next == \/ Open
        \/ Close
        \/ ~opened /\ ~opened'    \* no promise
        \/ Trouble
        \/ /\ opened
           /\ UNCHANGED <<opened, size>>
           /\ trouble => trouble'
           /\ \E call \in Calls :
                \/ Read(call) \/ ReadFails(call)
                \/ Seek(call) \/ SeekFails(call)
                \/ GetSize(call)

Spec == Init /\ [][Next]_vars
=============================================================================
