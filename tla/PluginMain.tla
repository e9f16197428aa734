----------------------------- MODULE PluginMain -----------------------------
(***************************************************************************)
(* The out-of-process plugin: process_requests and the callbacks it gives  *)
(* to the plugin's extract method (extractor_plugin_main.c).  The extract  *)
(* method is arbitrary code: it may seek, report meta data, return, hang   *)
(* or die at any point, whatever the callbacks answered.                   *)
(***************************************************************************)
EXTENDS IPC

Receives(p, ops) == inp[p] # <<>> /\ Head(inp[p]).op \in ops

\* What is left in the pipe when one byte, the opcode, has been read.
RestOf(m) == IF m.op \in {"DISCARD_STATE", "CONTINUE_EXTRACTING"}
             THEN <<>> ELSE <<RestMsg>>
OpcodeRead(p) == inp' = [inp EXCEPT ![p] = RestOf(Head(@)) \o Tail(@)]
MessageRead(p) == inp' = [inp EXCEPT ![p] = Tail(@)]

Goes(p, from, to) == child[p] = from /\ child' = [child EXCEPT ![p] = to]

(* process_requests *)

\* MESSAGE_INIT_STATE: map the segment (failing to is an Exit).
HandleInit(p) ==
  /\ Goes(p, "new", "loop")
  /\ Receives(p, {"INIT_STATE"})
  /\ MessageRead(p)
  /\ UNCHANGED <<libVars, listVars, shm, view, want, budget, outp>>

\* MESSAGE_EXTRACT_START: enter the extract method.
HandleStart(p) ==
  /\ Goes(p, "loop", "run")
  /\ Receives(p, {"EXTRACT_START"})
  /\ view' = [view EXCEPT ![p] = [win   |-> Head(inp[p]).win,
                                  known |-> Head(inp[p]).known]]
  /\ budget' = [budget EXCEPT ![p] = MaxRequests]
  /\ MessageRead(p)
  /\ UNCHANGED <<libVars, listVars, shm, want, outp>>

\* MESSAGE_DISCARD_STATE: already in the start state.
HandleDiscard(p) ==
  /\ child[p] = "loop"
  /\ Receives(p, {"DISCARD_STATE"})
  /\ MessageRead(p)
  /\ UNCHANGED <<libVars, listVars, shm, procVars, outp>>

\* Any other opcode ends the loop and with it the process; so does the
\* 'reserved' byte of a torn message, which reads as a second INIT_STATE.
RejectRequest(p) ==
  /\ Goes(p, "loop", "dead")
  /\ Receives(p, {"UPDATED_SHM", "CONTINUE_EXTRACTING", "REST", "INIT_STATE"})
  /\ inp' = [inp EXCEPT ![p] = <<>>]
  /\ UNCHANGED <<libVars, listVars, shm, view, want, budget, outp>>

(* The callbacks of the extract method *)

\* The position plugin_env_seek ends up with once it knows the file size.
Target(w) == IF w.whence = "SEEK_END" THEN FileSize - w.off ELSE w.off

\* The arguments plugin_env_seek does not refuse outright.  Once the size is
\* known all three whence modes become offsets from the start; before that
\* SEEK_END is sent as such, and nothing bounds an offset from the start.
SeekArguments(p) ==
  IF view[p].known THEN [off : 0 .. FileSize, whence : {"SEEK_SET"}]
                   ELSE [off : 0 .. MaxSeek, whence : Whences]

\* plugin_env_seek (also called by plugin_env_read) outside of the window;
\* within it the call only moves read_position.
Seek(p, w) ==
  /\ Goes(p, "run", "seek")
  /\ budget[p] > 0
  /\ ~(w.whence = "SEEK_SET" /\ Holds(view[p].win, w.off))
  /\ budget' = [budget EXCEPT ![p] = @ - 1]
  /\ want' = [want EXCEPT ![p] = w]
  /\ outp' = [outp EXCEPT ![p] = Append(@, SeekMsg(w.off, w.whence))]
  /\ UNCHANGED <<libVars, listVars, shm, view, inp>>

\* ... answered with UPDATED_SHM: adopt the new window.
SeekAnswered(p) ==
  /\ Goes(p, "seek", "run")
  /\ Receives(p, {"UPDATED_SHM"})
  /\ view' = [view EXCEPT ![p] = [win   |-> Head(inp[p]).win,
                                  known |-> Head(inp[p]).known]]
  /\ MessageRead(p)
  /\ UNCHANGED <<libVars, listVars, shm, want, budget, outp>>

\* ... answered with anything else: return -1 to the extract method.
SeekRefused(p) ==
  /\ Goes(p, "seek", "run")
  /\ Receives(p, ToPluginOps \ {"UPDATED_SHM"})
  /\ OpcodeRead(p)
  /\ UNCHANGED <<libVars, listVars, shm, view, want, budget, outp>>

\* plugin_env_send_proc: the item stems from the file the plugin works on.
SendMeta(p) ==
  /\ Goes(p, "run", "meta")
  /\ budget[p] > 0
  /\ budget' = [budget EXCEPT ![p] = @ - 1]
  /\ outp' = [outp EXCEPT ![p] = Append(@, MetaMsg(view[p].win.file))]
  /\ UNCHANGED <<libVars, listVars, shm, view, want, inp>>

\* One byte of answer: CONTINUE, DISCARD or unexpected; the extract method
\* goes on or returns.
MetaAnswered(p) ==
  /\ Goes(p, "meta", "run")
  /\ Receives(p, ToPluginOps)
  /\ OpcodeRead(p)
  /\ UNCHANGED <<libVars, listVars, shm, view, want, budget, outp>>

\* The extract method returns: send DONE, go on or, with the "force-kill"
\* option, exit.
Done(p) ==
  /\ \/ Goes(p, "run", "loop") /\ UNCHANGED inp
     \/ Goes(p, "run", "dead") /\ inp' = [inp EXCEPT ![p] = <<>>]
  /\ outp' = [outp EXCEPT ![p] = Append(@, DoneMsg)]
  /\ UNCHANGED <<libVars, listVars, shm, view, want, budget>>

\* The process ends: a plugin that cannot be loaded or initialised, a crash
\* of the plugin, a signal from outside.
Exit(p) ==
  /\ Alive(p)
  /\ child' = [child EXCEPT ![p] = "dead"]
  /\ inp' = [inp EXCEPT ![p] = <<>>]
  /\ UNCHANGED <<libVars, listVars, shm, view, want, budget, outp>>

PluginStep(p) ==
  \/ HandleInit(p)
  \/ HandleStart(p)
  \/ HandleDiscard(p)
  \/ RejectRequest(p)
  \/ \E w \in SeekArguments(p) : Seek(p, w)
  \/ SeekAnswered(p)
  \/ SeekRefused(p)
  \/ SendMeta(p)
  \/ MetaAnswered(p)
  \/ Done(p)
  \/ Exit(p)
=============================================================================
