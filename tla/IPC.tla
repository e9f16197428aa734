-------------------------------- MODULE IPC --------------------------------
(***************************************************************************)
(* The state shared by libextractor's main library and its out-of-process  *)
(* plugins: the plugin list entries, the two pipes of every channel, the   *)
(* shared memory segment and the messages of extractor_ipc.h.              *)
(* PluginMain adds the steps of the plugin processes, Extract those of the *)
(* library.                                                                *)
(*                                                                         *)
(* Offsets and lengths are counted in units of which ShmSize make up       *)
(* DEFAULT_SHM_SIZE; the data itself is identified by the file and the     *)
(* offset it comes from.                                                   *)
(***************************************************************************)
EXTENDS Integers, Sequences, FiniteSets

CONSTANTS
  NumPlugins,   \* length of the plugin list
  InProcess,    \* list positions whose flags are EXTRACTOR_OPTION_IN_PROCESS
  FileSize,     \* (uncompressed) size of every file
  ShmSize,      \* size of the shared memory segment
  MaxSeek,      \* largest offset a plugin asks for while the size is unknown
  MaxFiles,     \* bound: calls of EXTRACTOR_extract
  MaxRequests,  \* bound: SEEK and META messages of one plugin for one file
  ClientAborts, \* may the application's callback return 1?
  IOErrors      \* may the data source fail?

Plugin == 1 .. NumPlugins
OutOfProcess == Plugin \ InProcess

ASSUME ConstantAssumption ==
  /\ NumPlugins \in Nat
  /\ InProcess \subseteq Plugin
  /\ FileSize \in Nat \ {0}      \* empty files are refused before this point
  /\ ShmSize \in Nat \ {0}
  /\ MaxSeek \in Nat
  /\ MaxFiles \in Nat
  /\ MaxRequests \in Nat
  /\ ClientAborts \in BOOLEAN
  /\ IOErrors \in BOOLEAN

VARIABLES
  \* --- the library ---
  lib,            \* where the application thread is
  file,           \* number of the file being (or last) processed
  sizeKnown,      \* does EXTRACTOR_datasource_get_size_ (ds, 0) know the size?
  channel,        \* pos->channel is not NULL
  seekRequest,    \* pos->seek_request, NoSeek for -1
  seekWhence,     \* pos->seek_whence
  roundFinished,  \* pos->round_finished
  fileFinished,   \* prp.file_finished
  fdset,          \* to_check: readable channels not yet read in this recv
  batch,          \* replies left in what was read from the current channel
  todo,           \* in-process plugins that have yet to run on this file
  ctxFinished,    \* ctx.finished
  callback,       \* history: the last call of the application's callback, and
                  \* the last file for which it returned 1
  \* --- shared memory ---
  shm,            \* what the segment holds
  \* --- the plugin processes ---
  child,          \* where the process of a channel is
  view,           \* its struct ProcessingContext: window and file size
  want,           \* the request plugin_env_seek is waiting to have served
  budget,         \* bound: requests the plugin may still make for this file
  inp,            \* pipe cpipe_in: library to plugin
  outp            \* pipe cpipe_out: plugin to library

libVars  == <<lib, file, sizeKnown, fileFinished, fdset, batch, todo,
              ctxFinished, callback>>
listVars == <<channel, seekRequest, seekWhence, roundFinished>>
procVars == <<child, view, want, budget>>
pipeVars == <<inp, outp>>
vars     == <<libVars, listVars, shm, procVars, pipeVars>>

-----------------------------------------------------------------------------
(* Windows and messages *)

NoSeek == -1

\* A part of a file: len units at offset off.
Windows == [file : Nat, off : Nat, len : Nat]
NoWindow == [file |-> 0, off |-> 0, len |-> 0]

\* The tests of plugin_env_seek on a position and the window it has.
Holds(w, pos) == w.off <= pos /\ pos < w.off + w.len

\* What EXTRACTOR_datasource_read_ delivers for ShmSize units at off.
WindowAt(f, off) ==
  [file |-> f, off |-> off,
   len |-> IF off + ShmSize <= FileSize THEN ShmSize ELSE FileSize - off]

\* Library to plugin.  "REST" is what remains in the pipe of a multi-byte
\* message of which only the opcode was read: its next byte, 'reserved' and
\* zero, is all that is read of it here (a plugin that reads on, through the
\* zero half of shm_ready_bytes, is beyond MaxRequests).
ToPluginOps == {"INIT_STATE", "EXTRACT_START", "UPDATED_SHM", "DISCARD_STATE",
                "CONTINUE_EXTRACTING", "REST"}
ToPlugin == [op : ToPluginOps, win : Windows, known : BOOLEAN]

InitMsg       == [op |-> "INIT_STATE",          win |-> NoWindow, known |-> FALSE]
DiscardMsg    == [op |-> "DISCARD_STATE",       win |-> NoWindow, known |-> FALSE]
ContinueMsg   == [op |-> "CONTINUE_EXTRACTING", win |-> NoWindow, known |-> FALSE]
RestMsg       == [op |-> "REST",                win |-> NoWindow, known |-> FALSE]
StartMsg(w, k)   == [op |-> "EXTRACT_START", win |-> w, known |-> k]
UpdatedMsg(w, k) == [op |-> "UPDATED_SHM",   win |-> w, known |-> k]

\* Plugin to library; file is the file a META was extracted from.
Whences == {"SEEK_SET", "SEEK_END"}
ToLibrary == [op : {"DONE", "SEEK", "META"}, file : Nat, off : Nat,
              whence : Whences]

DoneMsg        == [op |-> "DONE", file |-> 0, off |-> 0, whence |-> "SEEK_SET"]
MetaMsg(f)     == [op |-> "META", file |-> f, off |-> 0, whence |-> "SEEK_SET"]
SeekMsg(o, wh) == [op |-> "SEEK", file |-> 0, off |-> o, whence |-> wh]

\* States of the process behind a channel: no process, not yet initialised,
\* in process_requests, in the extract method, waiting for the answer to a
\* SEEK or to a META, or terminated but not yet reaped.
ChildStates == {"none", "new", "loop", "run", "seek", "meta", "dead"}
Alive(p) == child[p] \in {"new", "loop", "run", "seek", "meta"}

TypeOK ==
  /\ lib \in {"idle", "select", "read", "serve", "inproc"}
  /\ file \in Nat
  /\ sizeKnown \in BOOLEAN
  /\ channel \in [Plugin -> BOOLEAN]
  /\ seekRequest \in [Plugin -> Nat \cup {NoSeek}]
  /\ seekWhence \in [Plugin -> Whences]
  /\ roundFinished \in [Plugin -> BOOLEAN]
  /\ fileFinished \in BOOLEAN
  /\ fdset \in SUBSET Plugin
  /\ batch \in Nat
  /\ todo \in SUBSET InProcess
  /\ ctxFinished \in BOOLEAN
  /\ callback \in [from : Nat, during : Nat, aborted : Nat, late : BOOLEAN]
  /\ shm \in Windows
  /\ child \in [Plugin -> ChildStates]
  /\ view \in [Plugin -> [win : Windows, known : BOOLEAN]]
  /\ want \in [Plugin -> [off : Nat, whence : Whences]]
  /\ budget \in [Plugin -> Nat]
  /\ inp \in [Plugin -> Seq(ToPlugin)]
  /\ outp \in [Plugin -> Seq(ToLibrary)]

Init ==
  /\ lib = "idle"
  /\ file = 0
  /\ sizeKnown = FALSE
  /\ channel = [p \in Plugin |-> FALSE]
  /\ seekRequest = [p \in Plugin |-> NoSeek]
  /\ seekWhence = [p \in Plugin |-> "SEEK_SET"]
  /\ roundFinished = [p \in Plugin |-> FALSE]
  /\ fileFinished = FALSE
  /\ fdset = {}
  /\ batch = 0
  /\ todo = {}
  /\ ctxFinished = FALSE
  /\ callback = [from |-> 0, during |-> 0, aborted |-> 0, late |-> FALSE]
  /\ shm = NoWindow
  /\ child = [p \in Plugin |-> "none"]
  /\ view = [p \in Plugin |-> [win |-> NoWindow, known |-> FALSE]]
  /\ want = [p \in Plugin |-> [off |-> 0, whence |-> "SEEK_SET"]]
  /\ budget = [p \in Plugin |-> 0]
  /\ inp = [p \in Plugin |-> <<>>]
  /\ outp = [p \in Plugin |-> <<>>]
=============================================================================
