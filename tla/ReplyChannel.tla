---------------------------- MODULE ReplyChannel ----------------------------
(***************************************************************************)
(* The bytes between a plugin process and the library: how its messages    *)
(* are written to the pipe, read from it in pieces that the pipe cuts      *)
(* anywhere, collected in the buffer of the channel, which grows up to     *)
(* MAX_META_DATA, and taken out of it message by message                   *)
(* (EXTRACTOR_IPC_channel_recv_ and EXTRACTOR_IPC_process_reply_).         *)
(*                                                                         *)
(* A byte is its offset in everything the plugin ever writes.              *)
(***************************************************************************)
EXTENDS Integers, Sequences

CONSTANTS Scripts,      \* what plugins have to say: sequences of messages
          InitialSize,  \* of the buffer
          MaxMetaData,  \* MAX_META_DATA
          MaxMime,      \* UINT16_MAX
          SeekSize,     \* sizeof (struct SeekRequestMessage)
          MetaSize      \* sizeof (struct MetaMessage)

ASSUME SizesAssumption ==
  /\ {InitialSize, MaxMetaData, MaxMime, SeekSize, MetaSize} \subseteq Nat \ {0}
  /\ InitialSize <= MaxMetaData

NoSeek == 0

Lesser(a, b) == IF a < b THEN a ELSE b

VARIABLES
  script,        \* the messages this plugin sends
  waits,         \* each message waits for the answer to the last. When a client
                 \* aborts, a META may get none, and there may be answers to spare
                 \* (DISCARD_STATE), for which the plugin does not have to wait
  process,       \* "runs", "died" by itself or was "killed"
  failed,        \* a system call of the library has failed
  written,       \* bytes it has written
  answered,      \* messages the library has answered
  open,          \* the channel exists
  bytesRead,     \* bytes the library has read from the pipe
  mdata,         \* the valid bytes of the channel's buffer
  mdataSize,     \* the size of the buffer
  pc,            \* "select" or "reply"
  ret,           \* bytes process_reply has dealt with
  seekRequest,   \* the SEEK that waits for an answer
  roundFinished, \* plugin->round_finished
  processed      \* the messages taken out of the buffer

said    == <<script, waits>>
buffer  == <<mdata, mdataSize, bytesRead>>
replies == <<seekRequest, roundFinished, processed>>
vars    == <<said, failed, process, written, answered, open, buffer, pc, ret, replies>>

Done              == [op |-> "done"]
SeekMsg           == [op |-> "seek"]
Meta(mime, value) == [op |-> "meta", mime |-> mime, value |-> value]

(* plugin_env_send_proc skips what is too large and cuts the mime type,    *)
(* with its terminating 0 the last byte.                                   *)
MimeLength(m) == IF m.mime > MaxMime THEN MaxMime ELSE m.mime
Terminated(m) == m.mime <= MaxMime
Sent(m)       == m.op = "meta" => m.value <= MaxMetaData

Size(m) == CASE m.op = "done" -> 1
             [] m.op = "seek" -> SeekSize
             [] m.op = "meta" -> MetaSize + MimeLength(m) + m.value

Message == {Done, SeekMsg} \cup [op : {"meta"}, mime : Nat, value : Nat]

ASSUME ScriptsAssumption == Scripts \subseteq Seq(Message)

(* Where each message starts, and where the last one ends. *)
Start[i \in 1..Len(script) + 1] ==
  IF i = 1 THEN 0 ELSE Start[i - 1] + Size(script[i - 1])
Total == Start[Len(script) + 1]

Init ==
  /\ script \in {messages \in Scripts : \A i \in DOMAIN messages : Sent(messages[i])}
  /\ waits \in BOOLEAN
  /\ process = "runs" /\ failed = FALSE /\ written = 0 /\ answered = 0
  /\ open = TRUE /\ bytesRead = 0 /\ mdata = <<>> /\ mdataSize = InitialSize
  /\ pc = "select" /\ ret = 0
  /\ seekRequest = NoSeek /\ roundFinished = FALSE /\ processed = <<>>

-----------------------------------------------------------------------------
(* The plugin process *)

(* mutant: the plugin does not read the answer to its last message *)
WriteAhead ==
  /\ process = "runs"
  /\ \E n \in written + 1..Total :
       /\ waits => n <= Start[Lesser(answered + 1, Len(script) - 1) + 2]
       /\ written' = n
  /\ UNCHANGED <<said, failed, process, answered, open, buffer, pc, ret, replies>>

(* EXTRACTOR_write_all_: the pipe takes any number of bytes at a time. *)
Write ==
  /\ process = "runs"
  /\ \E n \in written + 1..Total :
       /\ waits => n <= Start[Lesser(answered, Len(script) - 1) + 2]
       /\ written' = n
  /\ UNCHANGED <<said, failed, process, answered, open, buffer, pc, ret, replies>>

Die ==
  /\ process = "runs" /\ process' = "died"
  /\ UNCHANGED <<said, failed, written, answered, open, buffer, pc, ret, replies>>

-----------------------------------------------------------------------------
(* EXTRACTOR_IPC_channel_recv_ *)

ListenedToAlways == open /\ pc = "select"    \* mutant: also while it seeks

(* do_extract does not listen to a plugin that seeks. *)
ListenedTo == open /\ pc = "select" /\ seekRequest = NoSeek

Readable == ListenedTo /\ (written > bytesRead \/ process # "runs")

(* EXTRACTOR_IPC_channel_destroy_ *)
Destroy == /\ open' = FALSE
           /\ process' = IF process = "runs" THEN "killed" ELSE process
           /\ pc' = "select"

(* No channel has anything for 500 ms, a signal interrupts the wait, or it *)
(* fails: all that are listened to are closed, of finished plugins, too.   *)
SelectTimeout ==
  /\ ListenedTo
  /\ \/ ~Readable /\ UNCHANGED failed
     \/ failed' = TRUE
  /\ Destroy
  /\ roundFinished' = TRUE
  /\ UNCHANGED <<said, written, answered, buffer, ret, seekRequest, processed>>

(* The buffer is full, and may not grow. *)
Full == Len(mdata) = mdataSize /\ mdataSize = MaxMetaData

Room == IF Len(mdata) < mdataSize THEN mdataSize ELSE Lesser(2 * mdataSize, MaxMetaData)

ReadPipe ==
  /\ Readable /\ ~Full
  /\ mdataSize' = Room
  /\ \E n \in 1..Lesser(Room - Len(mdata), written - bytesRead) :
       /\ mdata' = mdata \o [i \in 1..n |-> bytesRead + i - 1]
       /\ bytesRead' = bytesRead + n
  /\ pc' = "reply" /\ ret' = 0
  /\ UNCHANGED <<said, failed, process, written, answered, open, replies>>

TooLarge ==
  /\ Readable /\ Full
  /\ Destroy
  /\ UNCHANGED <<said, failed, written, answered, buffer, ret, replies>>

ReadEOF ==
  /\ Readable /\ ~Full /\ written = bytesRead
  /\ mdataSize' = Room
  /\ Destroy
  /\ UNCHANGED <<said, failed, written, answered, bytesRead, mdata, ret, replies>>

(* realloc or read fails. *)
RecvFails ==
  /\ Readable /\ ~Full
  /\ failed' = TRUE
  /\ mdataSize' = Room
  /\ Destroy
  /\ UNCHANGED <<said, written, answered, bytesRead, mdata, ret, replies>>

-----------------------------------------------------------------------------
(* EXTRACTOR_IPC_process_reply_ *)

Parsing == open /\ pc = "reply" /\ ret < Len(mdata)
Left    == Len(mdata) - ret

(* The message that starts with the next byte, if that is how one starts. *)
IsMessage(i) == i \in 1..Len(script) /\ mdata[ret + 1] = Start[i]
Next1        == CHOOSE i \in 1..Len(script) : IsMessage(i)
Msg          == script[Next1]
HeaderSize   == CASE Msg.op = "done" -> 1
                  [] Msg.op = "seek" -> SeekSize
                  [] Msg.op = "meta" -> MetaSize

Recognised == Parsing /\ \E i \in 1..Len(script) : IsMessage(i)

CompleteWithMore == Left > HeaderSize /\ Left > Size(Msg)    \* mutant: off by one

Complete   == Left >= HeaderSize /\ Left >= Size(Msg)

Take == /\ processed' = Append(processed, Next1)
        /\ ret' = ret + Size(Msg)

ReplyDone ==
  /\ Recognised /\ Msg.op = "done"
  /\ Take
  /\ seekRequest' = NoSeek /\ roundFinished' = TRUE
  /\ UNCHANGED <<said, failed, process, written, answered, open, buffer, pc>>

ReplySeek ==
  /\ Recognised /\ Msg.op = "seek" /\ Complete
  /\ Take
  /\ seekRequest' = Next1
  /\ UNCHANGED <<said, failed, process, written, answered, open, buffer, pc, roundFinished>>

(* proc is called, and process_plugin_reply answers. *)
ReplyMeta ==
  /\ Recognised /\ Msg.op = "meta" /\ Complete /\ Terminated(Msg)
  /\ process = "runs"
  /\ Take
  /\ answered' = Next1
  /\ UNCHANGED <<said, failed, process, written, open, buffer, pc, seekRequest, roundFinished>>

(* The client has aborted: there is no answer. *)
ReplyMetaIgnored ==
  /\ ~waits
  /\ Recognised /\ Msg.op = "meta" /\ Complete /\ Terminated(Msg)
  /\ Take
  /\ UNCHANGED <<said, failed, process, written, answered, open, buffer, pc, seekRequest,
                 roundFinished>>

(* The answer cannot be sent: proc destroys the channel, and that is the   *)
(* end of the call here (what the freed buffer may still do is a matter of *)
(* Extract).                                                               *)
ReplyMetaUnanswered ==
  /\ Recognised /\ Msg.op = "meta" /\ Complete /\ Terminated(Msg)
  /\ process # "runs"
  /\ Take
  /\ Destroy
  /\ roundFinished' = TRUE
  /\ UNCHANGED <<said, failed, written, answered, buffer, seekRequest>>

RestAll == mdata    \* mutant: no memmove

Rest == SubSeq(mdata, ret + 1, Len(mdata))

(* The rest of the message has still to come. *)
ReplyPartial ==
  /\ Recognised /\ Msg.op # "done" /\ ~Complete
  /\ seekRequest' = NoSeek
  /\ mdata' = Rest
  /\ pc' = "select"
  /\ UNCHANGED <<said, failed, process, written, answered, open, bytesRead, mdataSize, ret,
                 roundFinished, processed>>

ReplyBad ==
  /\ Parsing
  /\ \/ ~Recognised
     \/ Recognised /\ Msg.op = "meta" /\ Left >= HeaderSize /\ Msg.value > MaxMetaData
     \/ Recognised /\ Msg.op = "meta" /\ Complete /\ ~Terminated(Msg)
  /\ Destroy
  /\ UNCHANGED <<said, failed, written, answered, buffer, ret, replies>>

ReplyAll ==
  /\ open /\ pc = "reply" /\ ret = Len(mdata)
  /\ mdata' = <<>>
  /\ pc' = "select"
  /\ UNCHANGED <<said, failed, process, written, answered, open, bytesRead, mdataSize, ret, replies>>

-----------------------------------------------------------------------------
(* do_extract answers a request, and announces the next file. *)

Seeking == open /\ pc = "select" /\ seekRequest # NoSeek

(* The round of a plugin that is told to discard it is over. *)
Answer ==
  /\ Seeking /\ process = "runs"
  /\ seekRequest' = NoSeek
  /\ answered' = seekRequest
  /\ roundFinished' \in IF waits THEN {roundFinished} ELSE {roundFinished, TRUE}
  /\ UNCHANGED <<said, failed, process, written, open, buffer, pc, ret, processed>>

AnswerFails ==
  /\ Seeking /\ process # "runs"
  /\ Destroy
  /\ seekRequest' = NoSeek /\ roundFinished' = TRUE
  /\ UNCHANGED <<said, failed, written, answered, buffer, ret, processed>>

(* The message taken out last. *)
Latest == processed[Len(processed)]

RoundOver == open /\ pc = "select" /\ roundFinished

NextFile ==
  /\ RoundOver /\ process = "runs"
  /\ roundFinished' = FALSE
  /\ answered' = Latest
  /\ UNCHANGED <<said, failed, process, written, open, buffer, pc, ret, seekRequest, processed>>

NextFileFails ==
  /\ RoundOver /\ process # "runs"
  /\ Destroy
  /\ roundFinished' = FALSE
  /\ UNCHANGED <<said, failed, written, answered, buffer, ret, seekRequest, processed>>

-----------------------------------------------------------------------------
Recv == \/ SelectTimeout \/ ReadPipe \/ TooLarge \/ ReadEOF \/ RecvFails
        \/ ReplyDone \/ ReplySeek \/ ReplyMeta \/ ReplyMetaIgnored \/ ReplyMetaUnanswered
        \/ ReplyPartial \/ ReplyBad \/ ReplyAll

Serve == Answer \/ AnswerFails

Next == Write \/ Die \/ Recv \/ Serve \/ NextFile \/ NextFileFails

(* The thread of the library goes on, and answers every request in the end *)
(* (this is SeekServed of Extract).                                        *)
Spec == Init /\ [][Next]_vars /\ WF_vars(Recv) /\ WF_vars(Serve)

-----------------------------------------------------------------------------
(* Wherever the pipe and the end of the buffer cut the messages, each is   *)
(* taken out once and in order, and what waits in the buffer is exactly    *)
(* the part that follows them (the loop of process_reply, memmove in recv).*)
NothingLost ==
  /\ processed = [i \in 1..Len(processed) |-> i]
  /\ open /\ pc = "select" =>
       mdata = [j \in 1..bytesRead - Start[Len(processed) + 1] |->
                  Start[Len(processed) + 1] + j - 1]

(* A request that has been taken out is not forgotten by the parsing of    *)
(* what follows it (plugin->seek_request is cleared for partial messages   *)
(* and for DONE), as long as the plugin waits for the answer.              *)
RequestKept ==
  open /\ pc = "select" /\ waits /\ processed # <<>> /\ answered < Latest
    => CASE script[Latest].op = "seek" -> seekRequest = Latest
         [] script[Latest].op = "done" -> roundFinished
         [] OTHER -> FALSE

(* It does not fit into the largest buffer, or its mime type is cut off.   *)
Misfit(m) == Size(m) > MaxMetaData \/ (m.op = "meta" /\ ~Terminated(m))

(* recv kills a living plugin only when the message it has come to is a    *)
(* misfit, when a system call fails, or when the plugin has been silent    *)
(* for too long.  Then it has written nothing that has not been read; and  *)
(* one that waits for its answers has got all of them, so that it is its   *)
(* turn to speak, or it has finished and waits for the next file.          *)
KilledForCause ==
  [][process = "runs" /\ process' = "killed" =>
       \/ failed'
       \/ Len(processed) < Len(script) /\ Misfit(script[Len(processed) + 1])
       \/ /\ pc = "select" /\ written = bytesRead
          /\ waits => answered = Len(processed) \/ roundFinished]_vars

(* Every message that has been written is taken out in the end, or its     *)
(* channel has been given up: for a misfit, because a system call failed,  *)
(* or because the plugin has died.  The time-out is no excuse: it strikes  *)
(* only when nothing is left that could be taken out.                      *)
GivenUp ==
  /\ ~open
  /\ \/ failed \/ process = "died"
     \/ Len(processed) < Len(script) /\ Misfit(script[Len(processed) + 1])

EveryMessageTaken ==
  \A i \in 1..3 :
    (i <= Len(script) /\ written >= Start[i + 1]) ~> (Len(processed) >= i \/ GivenUp)
=============================================================================
