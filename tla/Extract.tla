------------------------------ MODULE Extract ------------------------------
(***************************************************************************)
(* The library: EXTRACTOR_extract, do_extract and the message handlers of  *)
(* extractor.c, over the channels of extractor_ipc_gnu.c.  One action is   *)
(* what the application thread does between two points where the plugin    *)
(* processes can make a difference: a select, the read of one channel, the *)
(* handling of one reply, one pass over the plugin list.                   *)
(***************************************************************************)
EXTENDS PluginMain

\* Loops over the plugin list visit it in order.
IsFirst(p, S) == p \in S /\ \A q \in S : p <= q

(* Channels *)

\* EXTRACTOR_IPC_channel_destroy_ on every plugin in S: kill and reap the
\* process, close both pipes.
WithoutKilling(S) ==   \* mutant: the process is left alone
  /\ channel' = [p \in Plugin |-> channel[p] /\ p \notin S]
  /\ outp'    = [p \in Plugin |-> IF p \in S THEN <<>> ELSE outp[p]]
  /\ UNCHANGED child

Without(S) ==
  /\ channel' = [p \in Plugin |-> channel[p] /\ p \notin S]
  /\ child'   = [p \in Plugin |-> IF p \in S THEN "none" ELSE child[p]]
  /\ outp'    = [p \in Plugin |-> IF p \in S THEN <<>> ELSE outp[p]]

Destroy(S) ==
  /\ Without(S)
  /\ inp' = [p \in Plugin |-> IF p \in S THEN <<>> ELSE inp[p]]

\* A write to the pipe of a process that is gone fails with EPIPE.
Broken(S) == {p \in S : ~Alive(p)}

\* EXTRACTOR_IPC_channel_send_ of m to every plugin in S, by a caller that
\* destroys the channels for which it fails.
Send(S, m) ==
  /\ Without(Broken(S))
  /\ inp' = [p \in Plugin |-> IF p \in Broken(S) THEN <<>>
                              ELSE IF p \in S THEN Append(inp[p], m)
                              ELSE inp[p]]

\* round_finished = 1
Finish(S) == roundFinished' = [p \in Plugin |-> roundFinished[p] \/ p \in S]

\* seek_request = -1
ClearAllSeeks(S) == seekRequest' = [p \in Plugin |-> NoSeek]   \* mutant

ClearSeek(S) ==
  seekRequest' = [p \in Plugin |-> IF p \in S THEN NoSeek ELSE seekRequest[p]]

(* The data source *)

\* EXTRACTOR_IPC_shared_memory_set_ at off.  A decompressor finds out the
\* size of the file when it gets to the end, at the latest.
ReadyShm(f, off, known) ==
  /\ off <= FileSize
  /\ shm' = WindowAt(f, off)
  /\ sizeKnown' \in IF known \/ off + ShmSize > FileSize THEN {TRUE} ELSE BOOLEAN

(* EXTRACTOR_extract *)

\* The first loop of EXTRACTOR_extract.
KeepRounds == UNCHANGED roundFinished   \* mutant: the reset forgotten

ResetRounds == roundFinished' = [p \in Plugin |-> FALSE]

\* Open the file, create the missing channels (new; any of them may fail),
\* ready the first window and send EXTRACT_START.
ExtractStart(new) ==
  LET open == {p \in Plugin : channel[p]} IN
  /\ lib = "idle"
  /\ file < MaxFiles
  /\ lib' = "select"
  /\ file' = file + 1
  /\ fileFinished' = FALSE
  /\ ResetRounds
  /\ \E k \in BOOLEAN : ReadyShm(file + 1, 0, k)
  /\ channel' = [p \in Plugin |-> p \in new \/ (channel[p] /\ Alive(p))]
  /\ child' = [p \in Plugin |-> IF p \in new THEN "new"
                                ELSE IF p \in Broken(open) THEN "none"
                                ELSE child[p]]
  /\ inp' = [p \in Plugin |->
               LET start == StartMsg(shm', sizeKnown') IN
               IF p \in new THEN <<InitMsg, start>>
               ELSE IF p \in open \ Broken(open) THEN Append(inp[p], start)
               ELSE <<>>]
  /\ outp' = [p \in Plugin |-> IF p \in new \cup Broken(open) THEN <<>> ELSE outp[p]]
  /\ UNCHANGED <<seekRequest, seekWhence, view, want, budget, fdset, batch,
                 todo, ctxFinished, callback>>

\* The first window cannot be read: the new channels stay, nothing is sent.
ExtractUnreadable(new) ==
  /\ lib = "idle"
  /\ IOErrors
  /\ file < MaxFiles
  /\ file' = file + 1
  /\ ResetRounds
  /\ channel' = [p \in Plugin |-> channel[p] \/ p \in new]
  /\ child' = [p \in Plugin |-> IF p \in new THEN "new" ELSE child[p]]
  /\ inp' = [p \in Plugin |-> IF p \in new THEN <<InitMsg>> ELSE inp[p]]
  /\ shm' = NoWindow
  /\ UNCHANGED <<lib, sizeKnown, fileFinished, fdset, batch, todo, ctxFinished,
                 callback, seekRequest, seekWhence, view, want, budget, outp>>

(* EXTRACTOR_IPC_channel_recv_ *)

\* The channels array do_extract passes: not the plugins that seek.
Listened == {p \in Plugin : channel[p] /\ seekRequest[p] = NoSeek}

\* What select reports: data, or the end of file a dead process leaves.
ReadableData(p) == outp[p] # <<>>   \* mutant: end of file not noticed

Readable(p) == outp[p] # <<>> \/ child[p] = "dead"

\* No channel to listen to: return at once.
NothingToReceive ==
  /\ lib = "select"
  /\ Listened = {}
  /\ lib' = "serve"
  /\ UNCHANGED <<file, sizeKnown, fileFinished, fdset, batch, todo,
                 ctxFinished, callback, listVars, shm, procVars, pipeVars>>

Select ==
  /\ lib = "select"
  /\ fdset' = {p \in Listened : Readable(p)}
  /\ fdset' # {}
  /\ lib' = "read"
  /\ UNCHANGED <<file, sizeKnown, fileFinished, batch, todo, ctxFinished,
                 callback, listVars, shm, procVars, pipeVars>>

\* Nothing for 500 ms, or select interrupted by a signal: every channel
\* listened to is destroyed.
SelectTimeout ==
  /\ lib = "select"
  /\ Listened # {}
  /\ \A p \in Listened : ~Readable(p)
  /\ Destroy(Listened)
  /\ Finish(Listened)
  /\ lib' = "serve"
  /\ UNCHANGED <<file, sizeKnown, fileFinished, fdset, batch, todo, ctxFinished,
                 callback, seekRequest, seekWhence, shm, view, want, budget>>

\* The end of the loop's body for p; the loop itself ends with the set.
NextChannel(p) ==
  /\ fdset' = fdset \ {p}
  /\ lib' = IF fdset = {p} THEN "serve" ELSE "read"

Reading(p) == lib = "read" /\ IsFirst(p, fdset)

\* read: any number of the messages that are there.
ReadReplies(p) ==
  /\ Reading(p)
  /\ batch = 0
  /\ batch' \in 1 .. Len(outp[p])
  /\ UNCHANGED <<lib, file, sizeKnown, fileFinished, fdset, todo, ctxFinished,
                 callback, listVars, shm, procVars, pipeVars>>

\* read returns 0: the channel is destroyed, its round_finished left alone.
ReadEOF(p) ==
  /\ Reading(p)
  /\ batch = 0
  /\ outp[p] = <<>>
  /\ Destroy({p})
  /\ NextChannel(p)
  /\ UNCHANGED <<file, sizeKnown, fileFinished, batch, todo, ctxFinished,
                 callback, seekRequest, seekWhence, roundFinished, shm, view,
                 want, budget>>

(* EXTRACTOR_IPC_process_reply_, one message at a time *)

Reply(p, op) ==
  /\ Reading(p)
  /\ batch > 0
  /\ outp[p] # <<>>
  /\ Head(outp[p]).op = op

NextReply(p) ==
  /\ batch' = batch - 1
  /\ IF batch = 1 THEN NextChannel(p) ELSE UNCHANGED <<fdset, lib>>

Consume(p) == outp' = [outp EXCEPT ![p] = Tail(@)]

ReplyDone(p) ==
  /\ Reply(p, "DONE")
  /\ ClearSeek({p})
  /\ Finish({p})
  /\ Consume(p)
  /\ NextReply(p)
  /\ UNCHANGED <<file, sizeKnown, fileFinished, todo, ctxFinished, callback,
                 channel, seekWhence, shm, procVars, inp>>

ReplySeek(p) ==
  /\ Reply(p, "SEEK")
  /\ seekRequest' = [seekRequest EXCEPT ![p] = Head(outp[p]).off]
  /\ seekWhence' = [seekWhence EXCEPT ![p] = Head(outp[p]).whence]
  /\ Consume(p)
  /\ NextReply(p)
  /\ UNCHANGED <<file, sizeKnown, fileFinished, todo, ctxFinished, callback,
                 channel, roundFinished, shm, procVars, inp>>

(* process_plugin_reply, the handler of a META message *)

\* The client already aborted: the message is dropped.
MetaIgnored(p) ==
  /\ Reply(p, "META")
  /\ fileFinished
  /\ Consume(p)
  /\ NextReply(p)
  /\ UNCHANGED <<file, sizeKnown, fileFinished, todo, ctxFinished, callback,
                 listVars, shm, procVars, inp>>

\* A call of the application's callback, which may return 1 to abort.
CallBack(from, abort) ==
  /\ abort => ClientAborts
  /\ callback' = [from    |-> from,
                  during  |-> file,
                  aborted |-> IF abort THEN file ELSE callback.aborted,
                  late    |-> callback.aborted = file]

ForgetAbort(abort) == UNCHANGED fileFinished   \* mutant

RecordAbort(abort) == fileFinished' = abort

\* The loop over the replies goes on in the buffer that was freed with the
\* channel: it may or may not still find the SEEK or DONE that follow.  (A
\* META would end the application, whose end is not modelled.)
AfterFree(p) ==
  \E i \in 1 .. Len(outp[p]) :
    /\ i <= batch
    /\ seekRequest' = [seekRequest EXCEPT ![p] =
                         CASE outp[p][i].op = "SEEK" -> outp[p][i].off
                           [] outp[p][i].op = "DONE" -> NoSeek
                           [] OTHER                  -> @]
    /\ seekWhence' = [seekWhence EXCEPT ![p] =
                        IF outp[p][i].op = "SEEK" THEN outp[p][i].whence ELSE @]

MetaDelivered(p, abort) ==
  /\ Reply(p, "META")
  /\ ~fileFinished
  /\ CallBack(Head(outp[p]).file, abort)
  /\ RecordAbort(abort)
  /\ IF Alive(p)
     THEN /\ inp' = [inp EXCEPT ![p] =
                       Append(@, IF abort THEN DiscardMsg ELSE ContinueMsg)]
          /\ Consume(p)
          /\ NextReply(p)
          /\ UNCHANGED <<channel, seekRequest, seekWhence, roundFinished, child>>
     ELSE \* the answer cannot be sent
          /\ Destroy({p})
          /\ Finish({p})
          /\ AfterFree(p)
          /\ batch' = 0
          /\ NextChannel(p)
  /\ UNCHANGED <<file, sizeKnown, todo, ctxFinished, shm, view, want, budget>>

(* do_extract, after each recv *)

\* Plugins the loop does not skip, and those among them still extracting.
ActiveSeeking ==   \* mutant: done not reset for a plugin that still extracts
  {p \in Plugin : channel[p] /\ ~roundFinished[p] /\ seekRequest[p] # NoSeek}

Active  == {p \in Plugin : channel[p] /\ ~roundFinished[p]}
RunningFirst ==   \* mutant: only the first plugin is asked
  {p \in Active : seekRequest[p] = NoSeek /\ IsFirst(p, Active)}

Running == {p \in Active : seekRequest[p] = NoSeek}

\* The loop that computes min_seek stops at the first one still extracting.
Visited == {p \in Active : \A q \in Running : p < q}

\* ... and converts SEEK_END requests of those it visits, given the size
\* of the file or -1.
ResolvedUnchecked(p, end) ==   \* mutant: no test against the size
  IF p \in Visited /\ seekWhence[p] = "SEEK_END"
  THEN end - seekRequest[p]
  ELSE seekRequest[p]

Resolved(p, end) ==
  IF p \in Visited /\ seekWhence[p] = "SEEK_END"
  THEN IF seekRequest[p] > end THEN 0 ELSE end - seekRequest[p]
  ELSE seekRequest[p]

\* EXTRACTOR_datasource_get_size_ (ds, 1): decompress to the end if need be.
SizeForced(end) ==
  \/ end = FileSize
  \/ end = -1 /\ IOErrors /\ ~sizeKnown

\* Is the size known once the loop is through?
SizeKnownThen(end) ==
  sizeKnown \/ (end = FileSize /\ \E p \in Visited : seekWhence[p] = "SEEK_END")

KeepWhence == UNCHANGED seekWhence   \* mutant: converted again next time

ConvertWhence ==
  seekWhence' = [p \in Plugin |-> IF p \in Visited THEN "SEEK_SET" ELSE seekWhence[p]]

\* min_seek is the request of plugin m.
IsMinSeek(m, end) ==
  /\ m \in Visited
  /\ \A q \in Visited : Resolved(m, end) <= Resolved(q, end)

\* The end of do_extract's loop: in-process plugins follow, if there are any.
Leave ==
  /\ lib' = IF InProcess = {} THEN "idle" ELSE "inproc"
  /\ todo' = InProcess
  /\ ctxFinished' = FALSE
  /\ budget' = [p \in Plugin |-> IF p \in InProcess THEN MaxRequests ELSE budget[p]]

Stay ==
  /\ lib' = "select"
  /\ UNCHANGED <<todo, ctxFinished, budget>>

\* The channels that get a DISCARD_STATE when the client has aborted.
Discarded == {p \in Plugin : fileFinished /\ channel[p] /\ seekRequest[p] # NoSeek}

\* Some plugin still extracts, or none is active: the window stays.
ServeNone ==
  /\ lib = "serve"
  /\ Running # {} \/ Visited = {}
  /\ \E end \in {-1, FileSize} :
       /\ SizeForced(end)
       /\ sizeKnown' = SizeKnownThen(end)
       /\ seekRequest' = [p \in Plugin |-> IF p \in Discarded THEN NoSeek
                                           ELSE Resolved(p, end)]
  /\ ConvertWhence
  /\ Send(Discarded, DiscardMsg)
  /\ Finish(Discarded)
  /\ IF Active = {} THEN Leave ELSE Stay
  /\ UNCHANGED <<file, fileFinished, fdset, batch, callback, shm, view, want>>

\* Every active plugin seeks: move the window to the smallest offset ...
MoveWindow(m, end) ==
  /\ lib = "serve"
  /\ Running = {}
  /\ IsMinSeek(m, end)
  /\ SizeForced(end)
  /\ ReadyShm(file, Resolved(m, end), SizeKnownThen(end))
  /\ ConvertWhence
  /\ Stay
  /\ UNCHANGED <<file, fileFinished, fdset, batch, callback, view, want>>

\* ... and tell the plugins whose request the window satisfies,
InRangeOrNext(p, end) ==   \* mutant: one too far
  LET req == Resolved(p, end) IN
  /\ req # NoSeek
  /\ shm'.off <= req
  /\ shm'.off + shm'.len >= req

InRangeWithin(p, end) ==   \* mutant: nobody is told about the end of the file
  LET req == Resolved(p, end) IN
  /\ req # NoSeek
  /\ shm'.off <= req
  /\ shm'.off + shm'.len > req

InRange(p, end) ==
  LET req == Resolved(p, end) IN
  /\ req # NoSeek
  /\ shm'.off <= req
  /\ \/ shm'.off + shm'.len > req
     \/ sizeKnown' /\ shm'.off = FileSize

ServeSeekAgain(m, end) ==   \* mutant: the request stays noted
  LET moved == {p \in Plugin : channel[p] /\ InRange(p, end)} IN
  /\ MoveWindow(m, end)
  /\ ~fileFinished
  /\ seekRequest' = [p \in Plugin |-> Resolved(p, end)]
  /\ Send(moved, UpdatedMsg(shm', sizeKnown'))
  /\ Finish(Broken(moved))

ServeSeek(m, end) ==
  LET moved == {p \in Plugin : channel[p] /\ InRange(p, end)} IN
  /\ MoveWindow(m, end)
  /\ ~fileFinished
  /\ seekRequest' = [p \in Plugin |-> IF p \in moved THEN NoSeek ELSE Resolved(p, end)]
  /\ Send(moved, UpdatedMsg(shm', sizeKnown'))
  /\ Finish(Broken(moved))

\* ... or discard them all when the client has aborted.
ServeAbort(m, end) ==
  /\ MoveWindow(m, end)
  /\ fileFinished
  /\ seekRequest' = [p \in Plugin |-> IF p \in Discarded THEN NoSeek
                                      ELSE Resolved(p, end)]
  /\ Send(Discarded, DiscardMsg)
  /\ Finish(Discarded)

\* The window cannot be moved there: abort_all_channels and leave the loop.
FullReset(m, end) ==
  /\ lib = "serve"
  /\ Running = {}
  /\ IsMinSeek(m, end)
  /\ SizeForced(end)
  /\ IOErrors \/ Resolved(m, end) > FileSize
  /\ sizeKnown' \in {SizeKnownThen(end), TRUE}
  /\ seekRequest' = [p \in Plugin |-> Resolved(p, end)]
  /\ ConvertWhence
  /\ Destroy(Plugin)
  /\ Leave
  /\ UNCHANGED <<file, fileFinished, fdset, batch, callback, roundFinished, shm,
                 view, want>>

(* The in-process plugins *)

InProcVars == <<file, sizeKnown, fileFinished, fdset, batch, listVars, shm,
                child, view, want, pipeVars>>

\* in_process_proc: an item reaches the callback unless this loop's abort
\* flag is set.
InProcessMeta(p, abort) ==
  /\ lib = "inproc"
  /\ IsFirst(p, todo)
  /\ budget[p] > 0
  /\ budget' = [budget EXCEPT ![p] = @ - 1]
  /\ IF ctxFinished THEN ~abort /\ UNCHANGED callback
     ELSE CallBack(file, abort)
  /\ ctxFinished' = (ctxFinished \/ abort)
  /\ UNCHANGED <<lib, todo, InProcVars>>

\* The extract method returns, or the plugin cannot be loaded.
InProcessRepeat(p) ==   \* mutant: the list position does not advance
  /\ lib = "inproc"
  /\ IsFirst(p, todo)
  /\ todo' = IF ctxFinished THEN {} ELSE todo
  /\ lib' = IF todo' = {} THEN "idle" ELSE lib
  /\ budget' = [budget EXCEPT ![p] = MaxRequests]
  /\ UNCHANGED <<ctxFinished, callback, InProcVars>>

InProcessReturn(p) ==
  /\ lib = "inproc"
  /\ IsFirst(p, todo)
  /\ todo' = IF ctxFinished THEN {} ELSE todo \ {p}
  /\ lib' = IF todo' = {} THEN "idle" ELSE lib
  /\ UNCHANGED <<ctxFinished, callback, budget, InProcVars>>

\* The data source cannot be rewound for the next plugin.
InProcessUnreadable ==
  /\ lib = "inproc"
  /\ IOErrors
  /\ lib' = "idle"
  /\ todo' = {}
  /\ UNCHANGED <<ctxFinished, callback, budget, InProcVars>>

ExtractCall ==
  \E new \in SUBSET {p \in OutOfProcess : ~channel[p]} :
    ExtractStart(new) \/ ExtractUnreadable(new)

LibraryStep ==
  \/ NothingToReceive
  \/ Select
  \/ SelectTimeout
  \/ \E p \in Plugin :
       \/ ReadReplies(p)
       \/ ReadEOF(p)
       \/ ReplyDone(p)
       \/ ReplySeek(p)
       \/ MetaIgnored(p)
       \/ \E abort \in BOOLEAN : MetaDelivered(p, abort)
       \/ \E abort \in BOOLEAN : InProcessMeta(p, abort)
       \/ InProcessReturn(p)
       \/ \E end \in {-1, FileSize} :
            ServeSeek(p, end) \/ ServeAbort(p, end) \/ FullReset(p, end)
  \/ ServeNone
  \/ InProcessUnreadable

Next == ExtractCall \/ LibraryStep \/ \E p \in Plugin : PluginStep(p)

Spec == Init /\ [][Next]_vars

\* The application's thread keeps running; a plugin may stop at any point.
FairSpec == Spec /\ WF_vars(LibraryStep)
-----------------------------------------------------------------------------
(* What must hold, unless a client aborts, the data source fails or a plugin *)
(* seeks behind the end of a file of unknown size                            *)

Orderly == ~ClientAborts /\ ~IOErrors /\ MaxSeek <= FileSize

\* The opcodes a plugin in a given state waits for.
Understood(p) ==
  CASE child[p] = "new"  -> {"INIT_STATE"}
    [] child[p] = "loop" -> {"EXTRACT_START"}
    [] child[p] = "seek" -> {"UPDATED_SHM"}
    [] child[p] = "meta" -> {"CONTINUE_EXTRACTING"}
    [] OTHER             -> {}

\* No plugin gets a message it is not waiting for: the branches "Illegal
\* message", "Received invalid message" and "Unexpected reply" of
\* extractor_plugin_main.c are dead.
ProtocolFollowed ==
  \A p \in Plugin : inp[p] # <<>> => Head(inp[p]).op \in Understood(p)

\* The position is in the window, or is the end of the file and so is the
\* (then empty) window.
Shows(w, pos) == Holds(w, pos) \/ (pos = FileSize /\ w.off = FileSize)

\* An UPDATED_SHM brings the position its receiver has asked for, also when
\* it asked relative to an end of file it did not know and when the move was
\* made for another plugin: "oops, serious missunderstanding" is dead too.
SeekTargetInRange ==
  \A p \in Plugin : child[p] = "seek" /\ Receives(p, {"UPDATED_SHM"}) =>
    Shows(Head(inp[p]).win, Target(want[p]))

\* The phases of the conversation with plugin p.  In most of them the library
\* listens to the plugin and at most one message is under way.
Quiet(p) == inp[p] = <<>> /\ outp[p] = <<>>
Engaged(p) ==
  channel[p] /\ ~roundFinished[p] /\ lib \in {"select", "read", "serve"}
Listening(p) == Engaged(p) /\ seekRequest[p] = NoSeek
Noted(p) ==   \* as sent, or already converted
  \/ seekRequest[p] = want[p].off /\ seekWhence[p] = want[p].whence
  \/ seekRequest[p] = Target(want[p]) /\ seekWhence[p] = "SEEK_SET"

Absent(p) ==
  child[p] = "none" /\ ~channel[p] /\ Quiet(p) /\ seekRequest[p] = NoSeek

Resting(p) ==
  /\ child[p] = "loop"
  /\ channel[p]
  /\ roundFinished[p] \/ lib = "idle"
  /\ Quiet(p)
  /\ seekRequest[p] = NoSeek

Starting(p) ==
  /\ Listening(p)
  /\ outp[p] = <<>>
  /\ \E k \in BOOLEAN :
       \/ child[p] = "new"  /\ inp[p] = <<InitMsg, StartMsg(shm, k)>>
       \/ child[p] = "loop" /\ inp[p] = <<StartMsg(shm, k)>>

Extracting(p) ==
  child[p] = "run" /\ Listening(p) /\ Quiet(p) /\ view[p].win = shm

Reporting(p) ==
  /\ child[p] = "meta"
  /\ Listening(p)
  /\ view[p].win = shm
  /\ \/ inp[p] = <<>> /\ outp[p] = <<MetaMsg(file)>>
     \/ inp[p] = <<ContinueMsg>> /\ outp[p] = <<>>

Seeking(p) ==
  /\ child[p] = "seek"
  /\ want[p].off <= FileSize
  /\ \/ /\ Listening(p)
        /\ inp[p] = <<>>
        /\ outp[p] = <<SeekMsg(want[p].off, want[p].whence)>>
     \/ Engaged(p) /\ Quiet(p) /\ Noted(p)
     \/ /\ Listening(p)
        /\ outp[p] = <<>>
        /\ Shows(shm, Target(want[p]))
        /\ \E k \in BOOLEAN : inp[p] = <<UpdatedMsg(shm, k)>>

Finishing(p) ==
  /\ child[p] = "loop"
  /\ Listening(p)
  /\ inp[p] = <<>>
  /\ outp[p] = <<DoneMsg>>

Dead(p) ==
  /\ child[p] = "dead"
  /\ channel[p]
  /\ inp[p] = <<>>
  /\ \/ outp[p] = <<>> /\ (Engaged(p) \/ seekRequest[p] = NoSeek)
     \/ /\ Listening(p)
        /\ \/ outp[p] = <<DoneMsg>>
           \/ outp[p] = <<MetaMsg(file)>>
           \/ \E o \in 0 .. FileSize, wh \in Whences : outp[p] = <<SeekMsg(o, wh)>>

Phase(p) ==
  \/ Absent(p)
  \/ Resting(p)
  \/ Starting(p)
  \/ Extracting(p)
  \/ Reporting(p)
  \/ Seeking(p)
  \/ Finishing(p)
  \/ Dead(p)

\* What the library keeps for itself: the window shows the current file, what
\* is left to read is there, and one reply at most is read at a time.
Bookkeeping ==
  /\ ~fileFinished
  /\ shm.file = file
  /\ callback.from = callback.during
  /\ \A p \in Plugin : seekRequest[p] <= FileSize
  /\ fdset # {} => lib = "read"
  /\ \A p \in fdset : channel[p] /\ seekRequest[p] = NoSeek /\ Readable(p)
  /\ batch <= 1

\* Library and plugin agree on the conversation: process, pipes, request and
\* window always form one of its phases, whatever the other plugins do, with
\* crashes, hung plugins, timeouts and "force-kill" at any point.
Handshake == Bookkeeping /\ \A p \in Plugin : Phase(p)

\* The library overwrites the segment only when no plugin can look at it:
\* as long as an extract method runs, the segment holds the part of the file
\* the plugin was last told (no lock protects it).
ShmStable == \A p \in Plugin : child[p] = "run" => view[p].win = shm

\* Meta data reaches the application during the EXTRACTOR_extract call for
\* the file it was extracted from, although the channels outlive the call.
MetaFromCurrentFile == callback.from = callback.during

\* When EXTRACTOR_extract returns, every plugin whose process has survived is
\* back in its main loop with both pipes empty, ready for the next file.
QuiescentAtReturn ==
  lib = "idle" => \A p \in Plugin : Alive(p) =>
    /\ child[p] = "loop"
    /\ inp[p] = <<>>
    /\ outp[p] = <<>>

\* One plugin cannot take another down: the library destroys the channel of
\* a live process only when every plugin it listens to has been silent.
CrashIsolation ==
  [][\A p \in Plugin : channel[p] /\ ~channel'[p] /\ Alive(p) =>
       \A q \in Listened : Alive(q) /\ outp[q] = <<>>]_vars

\* The window never moves in vain: every move answers some pending request.
MovesServe ==
  [][file' = file /\ shm' # shm =>
       \E p \in Plugin : seekRequest[p] # NoSeek /\ seekRequest'[p] = NoSeek]_vars

\* No request is lost: a plugin that waits for an answer has its request
\* still in the pipe, noted as its seek_request, or answered.
NoLostRequest ==
  \A p \in Plugin :
    /\ child[p] = "seek" =>
         outp[p] # <<>> \/ seekRequest[p] # NoSeek \/ inp[p] # <<>>
    /\ child[p] = "meta" => outp[p] # <<>> \/ inp[p] # <<>>

(* What must hold whatever happens *)

\* A process lives exactly as long as the channel through which it can be
\* killed and reaped: neither orphans nor channels without a process.
NoOrphans == \A p \in Plugin : channel[p] <=> child[p] # "none"

\* Once the callback has returned 1 it is not called again for this file,
\* whatever items of other plugins are under way or already read.
NoCallbackAfterAbort == ~callback.late

\* EXTRACTOR_extract returns whatever the plugin processes do: they may hang,
\* crash, or keep each other waiting for the window.
ExtractReturns == lib # "idle" ~> lib = "idle"

\* Every request for another part of the file is answered (or the plugin is
\* given up), however the others seek.
SeekServed ==
  \A p \in Plugin : seekRequest[p] # NoSeek ~> seekRequest[p] = NoSeek

(* What the documentation says and the code does not do *)

\* extractor_plugin_main.c: UPDATED_SHM is "not allowed here, we're not waiting
\* for SHM to move!"; so only a plugin that waits for it is sent one.
OnlySeekersMoved ==
  \A p \in Plugin : child[p] = "loop" => ~Receives(p, {"UPDATED_SHM"})
=============================================================================
