# libextractor in TLA+

GNU libextractor runs format plugins over a file and passes the meta data they
find to a callback. Plugins parse untrusted data, so most of them run in
processes of their own, which the library keeps from one file to the next. The
processes see the file through one shared memory segment, a *window* that the
library fills and moves when every plugin that is still at work has asked for
another part of the file; requests, answers and meta data travel over two pipes
per plugin. This directory models that machinery, model-checks it with TLC and
proves the properties that matter most with TLAPS.

Paths below are relative to `src/src/main/` unless they say otherwise.

## 1. Inventory

### Components

| Component | Code | State | Operations |
|---|---|---|---|
| Extraction engine | `extractor.c` | per plugin `seek_request`, `seek_whence`, `round_finished`, `channel`; per call `prp.file_finished`; `ctx.finished` for in-process plugins | `EXTRACTOR_extract`, `do_extract`, the handlers `process_plugin_reply`, `send_update_message`, `send_discard_message`, `abort_all_channels`, `in_process_*` |
| IPC channels (POSIX) | `extractor_ipc_gnu.c` | process id, two pipe ends, receive buffer (`mdata`, `size`) per channel; the segment | `channel_create_`, `_destroy_`, `_send_`, `_recv_`, `shared_memory_create_`, `_set_` |
| Reply parser | `extractor_ipc.c` | none | `EXTRACTOR_IPC_process_reply_` |
| Plugin process | `extractor_plugin_main.c` | `struct ProcessingContext`: mapped window, `shm_off`, `shm_ready_bytes`, `read_position`, `file_size` | `process_requests`, `handle_init_message`, `handle_start_message`, `plugin_env_seek`, `_read`, `_send_proc` |
| Data source, plain | `extractor_datasource.c` (`bfds_*`) | buffer, its place in the file (`fpos`), position in it (`buffer_pos`), valid bytes | new, read, seek, refill |
| Data source, compressed | `extractor_datasource.c` (`cfs_*`, `EXTRACTOR_datasource_*`) | decompressor, chunk of results, stream position, size once known | probe, init, read, seek, reset, deinit, size |
| Plugin list | `extractor_plugins.c`, `extractor_plugins.h` | the linked list; per plugin segment, channel and library; reference count of the segment | add, remove, load, add\_config, add\_defaults, remove\_all |
| Plugin search path | `extractor_plugpath.c` | none | directory lookups |
| ZIP reader | `src/src/common/unzip.c` | current entry and its place in the directory; the open entry: input left, output left, checksum | open, go\_to\_first/next, find, info, comment, open/read/close of an entry, close |
| Tool, tables, printing | `extract.c`, `extractor_metatypes.c`, `extractor_print.c`, `extractor_logging.c` | none that persists | option parsing, output |
| Plugins with a second thread or process | `src/src/plugins/rpm_extractor.c`, `pdf_extractor.c`, `gstreamer_extractor.c` | per call of the extract method: two threads and a mutex around the callbacks, or a child process; pipes to librpm, to and from pdfinfo; a time-out of the main loop | the method, `pipe_feeder`; `process_stdout`; `feed_data`, `seek_data`, the main loop's callbacks |
| Other format plugins | `src/src/plugins/` | local to one call of the extract method | the extract method, with seek, read, get\_size, proc |
| Windows IPC | `extractor_ipc_w32.c` | as the POSIX one, over named pipes | not in the POSIX build |

### How they interact

```
application --EXTRACTOR_extract--> do_extract --------> data source
     ^                              |   ^                  |
     | callback                     |   | recv             | read
     |                       send   v   | (select)         v
 process_plugin_reply <---- pipes of each channel     shared segment
                                    |   ^                  |
                                    v   |                  | mapped read-only
                             plugin process (extract method)
```

One conversation with a plugin about one file is

```
 library                                    plugin
   INIT_STATE (new process only)  ------->  map the segment
   EXTRACT_START(window)          ------->  run the extract method
                                  <-------  META(item)       any number of
   CONTINUE_EXTRACTING / DISCARD  ------->                   these two
                                  <-------  SEEK(pos, whence)
   UPDATED_SHM(window)            ------->
                                  <-------  DONE
```

and the conversations with all plugins interleave freely, except that the
window moves only when all that are not done seek.

### What is hard about it

- **Interleaving**: plugins write to their pipes in any order and while the
  library handles another one; a reply handler may destroy the channel that is
  being read.
- **Shared memory without a lock**: what protects a reader is only the rule
  about when the window moves.
- **Two threads, one conversation**: some extract methods read in one thread and
  report from another, over the same two pipes; what was read stays in the shared
  window only until someone asks for another. One talks to a program of its own.
- **Failure**: a plugin may fail to load, crash, be killed or exit ("force-kill")
  at every point, also with messages of its own still in the pipe.
- **Timeouts**: 500 ms without data kill every channel that is listened to.
- **State that outlives a call**: processes, pipes, `seek_request`.
- **Aborts**: by the client, by a data source that fails, by a plugin that
  seeks where nothing is.
- **Numeric edges**: the end of the file, windows that end at the position asked
  for, `SEEK_END` with a size that is unknown, 64 bit arithmetic that wraps.
- **Streams cut anywhere**: by the pipe, by the end of a buffer, by a chunk of
  decompressed data; what is left over has to be kept, or given back.
- **References**: one segment shared by plugins that come and go, one library by
  plugins of several lists.

`PROJECT.json` lists each of these as a hazard at its line, with the properties
that look at it, or with a note where the code does not master it, or only in part, and
a property cannot hold.

### What makes each component correct

- *Engine and channels*: nobody reads a window that moves, every request is
  answered to the plugin that made it, nothing is left over for the next file,
  every call returns.
- *Reply parser and receive buffer*: every message is taken out exactly once and
  in order, however `read` cuts the stream. A living plugin's channel is given up only
  for a message that does not fit, when a system call fails, or for silence: when
  the plugin has no request open, and nothing to read has come from it for too long.
- *Plugin's seek and read*: position, window and size agree, and what is read
  are the bytes of the file at the position.
- *Plugins with a second thread or process*: one thread at a time uses the callbacks, each
  takes the other down in the end, no byte that is passed on is from a window
  that was moved, and the method returns.
- *Data sources*, and the *ZIP reader* for an entry: read after any sequence of
  calls delivers what a plain sequence of bytes would.
- *ZIP reader*, the directory: it knows which entry it is at, a search tells the
  truth and comes back.
- *Plugin list*: segment, process and library exist exactly while a plugin needs
  them; a configuration string does what its entries say.

## 2. The modules

| Module | Models |
|---|---|
| `IPC` | constants, all state variables of the conversation, messages, windows, `TypeOK`, `Init` |
| `PluginMain` | a plugin process: one action per message it handles and per callback its extract method uses (`extractor_plugin_main.c`) |
| `Extract` | the library (`extractor.c` over `extractor_ipc_gnu.c` and `extractor_ipc.c`), the whole system's `Next`, `Spec` and `FairSpec`, and the properties |
| `ReplyChannel` | one channel byte by byte: the pipe, the receive buffer and its limit, the reply parser |
| `PluginEnv` | the callbacks `seek`, `read` and `get_size` of an extract method, with wrapping integers, over the window that the library moves |
| `Callbacks` | a plugin's callbacks as two threads use them, each call a conversation |
| `FilePipe` | a file on its way from the window through a pipe |
| `RpmPlugin`, `PdfPlugin`, `GstPlugin` | the extract methods for RPM packages, PDF documents and with GStreamer, and the threads and processes that help them |
| `PluginThreads` | the three of them under a library that may stop the plugin; their properties |
| `SourceCalls` | the calls on a source of bytes and their replies |
| `ByteSource` | *abstract*: what a source of bytes promises its clients |
| `BufferedSource` | `bfds_*`: a file or memory behind a buffer |
| `DataSource` | `EXTRACTOR_datasource_*` and `cfs_*`, over `BufferedSource` |
| `PluginList` | lists of plugins between and during calls, and configuration strings |
| `Unzip` | the ZIP reader |
| `MC...` | definitions the configurations use |
| `ExtractProofs`, `ReplyChannelProofs`, `PluginEnvProofs`, `PluginThreadsProofs`, `BufferedSourceProofs`, `DataSourceProofs`, `PluginListProofs`, `UnzipProofs` | the theorems |

`Extract` composes the library with any number of `PluginMain`; it takes messages
whole, and `ReplyChannel` shows that the bytes under them may be cut anywhere.
`PluginMain` lets an extract method seek anywhere; `PluginEnv` shows what it gets to
read by that. `PluginMain` also takes an extract method for one sequential program;
`PluginThreads` shows that the three which are not behave like one.
`DataSource` extends `BufferedSource` and drives it as a client.
`DataSource`, `BufferedSource`, `PluginEnv` and `Unzip` all implement `ByteSource`, each by
an `INSTANCE ... WITH` that names what size and position are there, and what
counts as trouble, the only excuse for a legal call that fails.

### The conversation: IPC, PluginMain, Extract

#### State

`channel`, `seekRequest`, `seekWhence`, `roundFinished` are the fields of
`struct EXTRACTOR_PluginList`, per position in the list; `fileFinished` is
`prp.file_finished`, `ctxFinished` is `ctx.finished`. `lib` says where the
application's thread is: outside of `EXTRACTOR_extract` (`idle`), at the select
of `EXTRACTOR_IPC_channel_recv_`, reading the channels it reported (`read`, with
`fdset` those still to be read and `batch` the replies left of the current
`read`), in the pass over the list that follows (`serve`), or in the loop over
the in-process plugins (`inproc`, `todo`). `shm` is what the segment holds,
`child` where each process is (`dead`: terminated and not yet reaped), `view`
and `want` its idea of the window and the request it waits for, `inp` and
`outp` the pipes. `callback` is a history variable: the file the last item came
from, the call it was delivered in, and the last call that was aborted.

Contents are abstracted to what can be told apart: a window is file, offset and
length, a META carries the file it stems from. `INIT_STATE`, the plugin's name
and options, meta types and formats are immaterial to the conversation.
`read_position` is not state here: a seek within the window is a step of the
plugin nobody else can see.

#### Actions

One action is what a thread does between two points where others can interfere.
`ExtractStart` is `EXTRACTOR_extract` and the beginning of `do_extract` (reset
of the rounds, channels created where they are missing, first window,
EXTRACT_START); `ExtractUnreadable` the same when the first window cannot be
read. `Select`, `SelectTimeout`, `NothingToReceive` are the outcomes of the
select, `ReadReplies` and `ReadEOF` those of `read`, `ReplyDone`, `ReplySeek`,
`MetaIgnored`, `MetaDelivered` the handlers of one reply each. The pass over the
list is one of `ServeNone` (someone still extracts, or all are done), `ServeSeek`
(move the window, tell those it satisfies), `ServeAbort` (move it and discard
everybody) and `FullReset` (it cannot be moved). `InProcessMeta`, `InProcessReturn`,
`InProcessUnreadable` make up the last loop. On the other side `HandleInit`,
`HandleStart`, `HandleDiscard`, `RejectRequest` are `process_requests`; `Seek`,
`SeekAnswered`, `SeekRefused`, `SendMeta`, `MetaAnswered`, `Done` are the
callbacks and the return of the extract method, which is otherwise arbitrary;
`Exit` is a crash, a kill, a plugin that cannot be loaded.

Details that matter and are kept:

- A failed send destroys the channel at once, inside whatever loop is running;
  `AfterFree` lets the rest of a freed receive buffer have any effect on the list
  it could have.
- The loop over the list stops at the first plugin that still extracts, so only
  the requests *before* it are converted from `SEEK_END` (`Visited`, `Resolved`).
- A plugin that expects a one-byte answer and finds a longer message reads its
  first byte only (`RestMsg`).
- A process reads its pipe no more once it is dead, but what it has written can
  still be read.

Assumed about the environment: the application ignores SIGPIPE, so that a failed
write is an error code; in-process plugins terminate; a write to a pipe does not
block (the answers are small and one is under way at a time) and messages are
written whole; the library's `select`, `read` and `realloc` do not fail, nor does a
signal interrupt the select, which would kill like a time-out (`ReplyChannel` lets them
fail). The time-out is possible whenever nothing can be read: how long
500 ms are compared to a plugin's work is not modelled.

### ReplyChannel

A byte is its offset in all that the plugin ever writes, so the model sees lost,
repeated and displaced bytes. `Write` puts any number of them into the pipe,
`ReadPipe` takes any number that fits into `mdata`, whose size grows as in
`EXTRACTOR_IPC_channel_recv_`; `ReplyDone`, `ReplySeek`, `ReplyMeta` are rounds of the loop
of `EXTRACTOR_IPC_process_reply_`, `ReplyPartial` and `ReplyAll` end it, `ReplyBad`,
`TooLarge` and `ReadEOF` give the channel up. A script is what the plugin says about all of its files;
`Start` is where each of its messages begins in the stream, the sum of the sizes of
those before it.

`do_extract` listens to a plugin that does not seek (`ListenedTo`). `SelectTimeout` kills it
when no channel has had anything for 500 ms, which may happen whenever there is
nothing to read from this one, whether the plugin hangs, computes or has finished; or
when the select ends otherwise, by a signal or an error, whatever there is to read then.
`RecvFails` is a `realloc` or `read` that fails; `failed` says that such a call has.
`Answer` and `NextFile` stand for `do_extract`, which answers a request and announces the
next file; `AnswerFails`, `NextFileFails` and `ReplyMetaUnanswered` are the same for a
plugin that has died. `waits` says whether the plugin waits for each answer, as the
protocol wants it. When the client aborts, a META may get no answer (`ReplyMetaIgnored`),
a plugin may find an answer to spare in its pipe and write on, and one that is told to
discard its round counts as finished; all that is in the model with `waits = FALSE`.

### PluginEnv

`Start` hands over the first window, `SeekWithin` and `SeekOutside` are `plugin_env_seek`
with and without a request, `ReadWithin` and `ReadOutside` `plugin_env_read`; `MoveWindow`,
`Discard` and `FullReset` are the library's answers, on behalf of this plugin or
another. Numbers wrap at `2 * Half`, which stands for 2^64. The size is unknown
(the largest number) until the library has seen the end of the stream. `Blind`
allows answering a request behind the end while the size is unknown.

### Callbacks, FilePipe, RpmPlugin, PdfPlugin, GstPlugin, PluginThreads

`method` is where the extract method is, `feeder`, `child` or `streamer` where its
helper is; `holder` has the mutex (`PipeArgs.lock`, `pipe_mutex`), `talking` are the
threads inside a callback and `asking` those of them that wait for the library.
`library` says whether it answers: it `listens`, it has stopped the plugin while one
of them waited (`stops`: `DISCARD_STATE` will be its answer), or that was noticed and
whoever asks now waits for the next file (`gone`).

`FilePipe`: a byte is its place in the file, and `moved` says that the window has moved
under the bytes that are read and not yet written (`buf`), which then are others:
`Bytes` writes 0 for them. `readers` and `writers` are those who have an end of the
pipe open; `write` blocks while it is full and somebody could read, `read` sees the end
when nobody could write.

`RpmPlugin`: `RpmCreate` to `Join` are the parts of `EXTRACTOR_rpm_extract_method`,
`FeederLoops` to `FeederCloses` those of `pipe_feeder`. librpm takes what it likes from
the pipe.

`PdfPlugin`: `PdfProbes` to `PdfReaps` are the parts of `EXTRACTOR_pdf_extract_method`
and of `process_stdout`; `Execs` is what the child does between `fork` and `execvp`.
pdfinfo takes all its input before it prints, or fails (`ChildFails`). `out` counts the
lines in its output, `listeners` and `printers` are those who have an end of that pipe
open (`fgets` sees the end of the output when there are no `printers`), `fsizeKnown` says whether the size that the loop runs up to is
that of the file.

`GstPlugin`: `RunAsync`, `TimeoutFires`, `Discovered` and what follows it up to `Rearm`,
and `Finished` are what the main loop dispatches; `LoopLeft` and `Stop` follow it.
`Signal` is GStreamer calling `feed_data` or `seek_data` in its streaming thread.
Removing the old time-out and setting a new one are two steps (`Disarm`, `Arm`), since
both threads do it without a lock; `sources` are the time-outs the main loop knows,
`timeout_id` the one the plugin remembers. Offsets and what is sent are left
out: nothing here depends on them.

The plugin is taken to ignore SIGPIPE, as the tool does that starts it
(`extract.c:56`): otherwise a feeder that is shut down ends the process.

### BufferedSource and DataSource

One action is one system call or one step between two calls of the layer below.
The byte at offset o is written o, in the file, the buffer and the replies.
`faults` counts failed system calls. `DataSource` has an action for each
part of `cfs_read` (`Fetch`, `Inflate`, `GiveBack`, `CopyResult`), of `cfs_seek` (`Move`, `Skip`,
`Skipped`), of the forced size (`Measure`, `Restore`, `Measured`), of the gzip header
(`HeaderParsed`, `SeekField`, `ReadField`, `ReportField`), and for probing. The libraries
for decompression are external: they expand the first k compressed bytes to
`stream.plain[k]` bytes, may leave input when their output is full, and notice
damage at the byte `bad`. `chunk` is a history variable.

Two places from which the code does not recover are excluded by constants:
`SeekFaults = FALSE` (the `read(2)` that refills the buffer in `bfds_seek` does not
fail) and `RestartFaults = FALSE` (nor a system call while a stream is started
again). With either set, TLC violates `BufferAtPosition` or `ImplementsContent`.

### PluginList

A list is a sequence of records with the name, options, flags and what the
plugin holds: `shm`, `channel`, `opened`. `rc` are the segments with their counters,
`processes` and `handles` what the system holds for them. `Extract` is a call of
`EXTRACTOR_extract` seen from the list: channels are made where they are missing,
some break, in-process plugins are loaded until the client aborts: `ExtractWith` says
what that does with a given segment (`Chosen`) and given processes that start and
break (`Ready`, `After`, `Left`). A
configuration string is a sequence of characters, and `ParseEntry` is a round of
the loop of `EXTRACTOR_plugin_add_config` over it.

### Unzip

An archive says where its records lie and how it is damaged. `Locate` reads one
block of `locate_central_directory`; `Parse` the end record; `GoToFirst`, `GoToNext`,
`Find`/`FindNext`/`FindMatch`/`FindFails` move the handle (`Find` answers at once when
there is no current entry); `OpenCurrent` and `HeaderRead` open an entry, if its header
agrees with the directory (`Coherent`; data behind the end of the file is noticed only
when it is read, by `RefillFails`); `ReadCurrent`, `Refill`, `CopyStored`, `Inflate` and `AllCopied` are the parts of
`EXTRACTOR_common_unzip_read_current_file`. Any callback may fail (`Fault`). `Overrun`
is what becomes of a process whose read callback got a block in pieces:
`ec_read_file_func` asks for the whole block again and writes behind the buffer.

## 3. What is checked

| Run | Instance | Shows |
|---|---|---|
| `Extract_safety` | 2 plugins, file 3, segment 2, 2 files, 2 requests per file, crashes and time-outs at any time | `Handshake`, `ProtocolFollowed`, `SeekTargetInRange`, `ShmStable`, `MetaFromCurrentFile`, `QuiescentAtReturn`, `NoLostRequest`; `CrashIsolation`, `MovesServe` |
| `Extract_live` | 2 plugins, file 2, segment 1, fairness | `SeekServed`: every request is answered or its plugin given up |
| `Extract_adverse` | 2 plugins, file 1, segment 1, client aborts, seeks behind the end | `NoOrphans`, `NoCallbackAfterAbort`, `ExtractReturns` |
| `Extract_mixed` | one plugin in its own process and one in the library's, aborts and I/O errors, seeks far behind the end | `TypeOK`, `ExtractReturns` |
| `ReplyChannel` | every sequence of one or two of eight messages, and of three of the short ones; a buffer that grows from 2 to 6 bytes; crashes, time-outs and failing calls at any time | `NothingLost`, `RequestKept`, `KilledForCause`, `EveryMessageTaken` |
| `PluginEnv` | files of 0, 3 and 5 bytes of known and unknown size, window of 2, 4 bit numbers | `PositionInFile`, `ImplementsFile` |
| `DataSource_refines` | plain, zlib, gzip and bzip2 files, whole, cut off, damaged; output of 2 bytes per chunk, buffer of 3; one failed system call | `ResultAtPosition`, `BufferAtPosition`, `SizeSettled`, `CallsReturn`, `ImplementsContent` |
| `PluginThreads` | RPM and PDF: file of 5, reads of 3, pipe of 2, 2 items or lines, size known or not; GStreamer: 4 signals, 3 items; the library stops the plugin at any time, pdfinfo fails and the time-out fires at any time | `OneAtATime`, `NothingLeft`, `ReceivedInOrder`, `Watched`, `MethodReturns` |
| `PluginList` | 2 lists, 2 segments, 2 installed plugins, one of which can be loaded; every library opened at most twice | `ConfigApplied`, `SegmentsCounted`, `ProcessesOwned`, `LibrariesOpen` |
| `Unzip` | 16 archives of two entries: sound, with an end record in the first, second or third block that is read, cut by the edge of a block, before or after another signature, or out of reach; with a wrong count; with unknown, incoherent, too short, too long or damaged entries, and data behind the end of the file | `CurrentIsAt`, `ImplementsEntry`, `SearchTells`, `LocatesLast`, `AlarmsAreTrue` |

Every property is stated in words above its definition. The runs take between some
seconds and two minutes with two workers.

*Bounds, the conversation.* `MaxFiles` = 2 is what it takes for one file to leave
something to the next; `MaxRequests` = 2 for a plugin to seek again after it was
answered, and to report after it sought; two plugins for every interaction of
one plugin with another (all rules compare a plugin with "the others"). File and
segment sizes make windows overlap, end at the end of the file and be empty.
`MaxSeek` exceeds the file where seeks behind the end are wanted. The plugins
cannot be declared symmetric: the list is visited in order and the order matters
(`Visited`).

*Bounds, the others.*

- `ReplyChannel`: a message may be shorter than, as long as, or longer than the
  buffer at each of its sizes, and two messages are what it takes for the first
  to displace the second. Three short ones fit into one read.
- `PluginEnv`: 4 bits leave room between the largest file and the smallest number
  that a negative offset wraps to, as 64 bits do; window and files make a read or
  a seek end within, at the edge of and behind the window. The proof does not
  depend on the width.
- `DataSource_refines`: chunks of 2 and text of 4 and 5 bytes give a stream whose last
  chunk is full and one whose last chunk is not; a compressed byte that expands
  to 3 leaves a rest in the chunk, and one that expands to 7 (`Plain9`) fills several
  chunks without new input. The buffer (3) is smaller than the file, so
  reads cross its end. One fault at any place is enough: nothing keeps count of
  failures, so a second starts from a state the first may have left.
- `PluginThreads`: the pipe holds less than a read returns, so that the feeder blocks
  in it with a part written; the file takes two reads and a rest. Four signals
  are two of each thread's turns at the time-out, three items one that is refused
  with others before and after.
- `PluginList`: two lists are needed for two holders of a segment, and two segments
  for lists that do not share. Lists and segments are declared symmetric: no
  action and no property orders or names them. Two plugins make every
  configuration that adds, removes or replaces.
- `Unzip`: two entries make a next one and a last one; one stored and one
  compressed, with a buffer (2) smaller than the entry (3 or 4), so that reads
  are cut by buffer, entry and client in turn. `MaxBack` = 7 with blocks of 2 makes
  the search for the end record take several overlapping blocks, and the comments
  behind the record are so long that its signature lies in the first of them, has its
  last byte there and its first in the second, or lies in the third.

*Deadlock* is checked nowhere (`CHECK_DEADLOCK FALSE`) because every instance has
an end of its own: the application stops after `MaxFiles` files (`Extract`), the
plugin has said all of its script (`ReplyChannel`), the plugin has been told to
stop (`PluginEnv`), the extract method has returned (`PluginThreads`), the source could not
be opened or the process has died (`DataSource`, `Unzip`), the two openings of a library are used up (`PluginList`).
That nothing gets stuck before is `ExtractReturns`, `EveryMessageTaken` and
`CallsReturn`.

*Fairness* is weak, and on the steps of one thread each time: `LibraryStep`, the
application's, in `Extract`; `Recv` and `Serve`, the same thread receiving and answering,
in `ReplyChannel` (that it gets round to answering is `SeekServed` of `Extract`);
`Work`, the call in progress, in `DataSource`; each thread or process of the plugin in
`PluginThreads`, as long as the library answers it. They say that the thread is
scheduled. Plugins may stop for ever at any point. `ExtractReturns` and
`SeekServed` hold because of the time-out and because each pass that finds
everybody seeking answers somebody (`MovesServe`). `EveryMessageTaken` does not rest on
the time-out: what was written must be taken out although it strikes. `MethodReturns` ends with the
method's return or with a thread that asks a library which does not answer
any more: that one does hang until the next file. The first two depend on
`MaxRequests`: a plugin that reports meta data for ever keeps the call alive in
the code, too.

*Mutants.* For every property of a passing run `PROJECT.json` names a change of the
model, a bug one could make in that place, that violates it. The mutated
operators stand beside the right ones, marked as mutants.

### Where code and documentation differ

Two have a run that ends in a violation and a shortest counterexample.

| Run | What happens |
|---|---|
| `stale_meta` | After an abort, discarded plugins count as finished at once; what they still say is taken for answers to the next file. Meta data of file 1 is delivered during file 2. |
| `stale_seek` | A full reset leaves `seek_request` set; in the next file the new process is sent an `UPDATED_SHM` it never asked for and exits. |

The models do the following, too, without a run of its own:

*Conversation.*

- A time-out kills plugins that have sent DONE and are idle (`extractor_ipc_gnu.c:504`).
- After an abort a META gets no answer (`extractor.c:166`), although the comment says the
  plugin is told; the plugin hangs until the time-out kills it.
- In-process plugins call the callback again after it returned 1 for another
  plugin (`extractor.c:561`, against `extractor.h:447`).
- A process found dead when a file is announced is not restarted for that file
  (`extractor.c:413`, against `extractor.h:51`).
- A `SEEK_END` by more than the size of the file is clamped to offset 0 by the
  library, while the plugin, which learns the size with the answer, refuses it.
  `SeekTargetInRange` is hence stated for requests within the file.
- META of legal size that does not fit into the receive buffer with its header
  gets the plugin killed (`extractor_ipc_gnu.c:530`); `KilledForCause` counts it among
  the misfits.
- After a discard the plugin's own idea of the window is stale.
- A request behind the end of a compressed file whose size is not known yet is
  answered with the empty window at the end, and leaves `read_position` behind the
  end, although the comment of `plugin_env_seek` says it will not move there
  (`extractor_plugin_main.c:226`). With `Blind = TRUE` in `PluginEnv.cfg`, TLC violates
  `PositionInFile`.

*Plugins with a second thread or process.*

- The PDF plugin writes until it has reached the size that it was told at the start
  (`pdf_extractor.c:204`). If that was unknown, `read` returns 0 bytes with a pointer at
  the end of the file, and the loop goes on until the library's time-out kills the
  process; an in-process plugin never returns. `MethodReturns` leaves the case out:
  without `fsizeKnown` in it TLC shows the loop.
- A time-out that `feed_data` sets after the main loop was left
  (`gstreamer_extractor.c:990`) stays attached and fires during the next file, with
  a pointer to the stack frame of the call before.
- The loop over the values of one tag does not look at `time_to_leave`, so that the
  callback is used again after it returned 1.
- When the library stops the plugin through one thread, the other may ask for a
  window all the same. It is answered with what the library sends next, for the
  next file, and the method waits for it.
- The unknown size is compared to `UINT_MAX` (`gstreamer_extractor.c:2195`), but is
  `UINT64_MAX`.

*Sources.*

- When the `lseek` fails that gives unused input back after a chunk
  (`extractor_datasource.c:846`), the input in between is lost to the decompressor, and a read that
  goes on may meet the end of the file first and take another size for the file's.
  `SizeSettled` is hence stated while no system call has failed.
- A refill that fails in `bfds_seek` (`extractor_datasource.c:238`) or a restart that fails
  in `cfs_seek` (`:1083`) leaves old bytes where new ones are expected: see `SeekFaults`
  and `RestartFaults` in section 2.
- Bytes behind the end of a bzip2 stream are an error, not the end
  (`TrailingBytes` of `MCDataSource`).
- The mask with which a comment in a gzip header is tested also fits other fields
  (`:514`), so that a header with an extra field is skipped too far
  (`ExtraField`).

*Plugin list.*

- An in-process plugin that cannot be loaded is set `DISABLED`, and is from then on
  taken for an out-of-process one that is not.
- A library without the extract symbol is closed (`extractor_plugins.c:186`), but its
  handle is kept and closed again when the plugin is removed (`:374`). One that
  has it is opened by every call and closed once. `LibrariesOpen` is hence
  stated for what a list in use needs.

*ZIP reader.*

- A block that the read callback gets in pieces is read too far
  (`unzip.c:1346`): `Overrun`.
- A search without a current entry returns `END_OF_LIST`, "file is not found"
  (`unzip.c:956`), without having looked (`:976`), also when the entry is there: after an
  operation that has failed, or after a search in an archive whose end record
  counts other entries than can be read. `SearchTells` allows it then, and only then.
- A search that comes back empty restores position and entry but not
  `current_file_ok` (`unzip.c:1007`).
- An end record at offset 0, or farther from the end than 0xffff, is not found.
- What was copied before a read fails is not reported to the caller.

## 4. What is proved

*`ExtractProofs`*, for all values of the constants that satisfy `ConstantAssumption`:

- `TypeCorrect`: `Spec => []TypeOK`, one lemma per group of actions. Its core is
  `ResolvedType`: the conversion of `SEEK_END` yields an offset.
- `NoOrphansEver`: `NoOrphans` is inductive; all ways to destroy a channel reduce to
  `Without` (`ChannelFrame`).
- `MovesAlwaysServe`: an action property. `MoveServes` shows that the window at the
  smallest request contains it, or is the empty one at the end of the file, where
  the size is known.
- `AbortIsFinal`: `InProcess = {} => (Spec => []NoCallbackAfterAbort)`, by the
  invariant `AbortRecorded`. The assumption is needed: in-process plugins are not
  told that another one was stopped.

The rest of *`ExtractProofs`* is under `Orderly` (no client aborts, no I/O errors, no seek
behind the end of a file of unknown size), again for any number of plugins, out of and in
process, that crash, hang and exit whenever they like:

- `HandshakeKept`: `TypeOK /\ Handshake` is inductive. None of the safety properties
  is inductive itself: that the window may move while nobody looks follows from
  *every* plugin being in a phase in which its request, process and pipes agree.
  `Handshake` lists the phases (`Absent`, `Resting`, `Starting`, `Extracting`,
  `Reporting`, `Seeking`, `Finishing`, `Dead`) and a few facts about the library's own
  variables. The proof has a lemma for each phase's frame, one for the step of
  a plugin (`PluginPhase`), and one for each pass of the library; the interesting one
  is `HandshakeServeSeek`.
- Its consequences `ShmAlwaysStable`, `ProtocolAlwaysFollowed`,
  `SeekTargetAlwaysInRange`, `MetaAlwaysFromCurrentFile`, `AlwaysQuiescentAtReturn`,
  `NoRequestEverLost`, `CrashesIsolated`.

`Orderly` cannot be dropped: `stale_meta` and `stale_seek` violate properties of the
conversation without it.

*`ReplyChannelProofs`*, for every script of messages, all sizes of messages and of the
buffer (`SizesAssumption`, `ScriptsAssumption`), and every way in which the pipe and the
end of the buffer cut the stream:

- `NothingEverLost`, `RequestAlwaysKept`, `KilledAlwaysForCause`. The invariant is that the
  buffer holds a stretch of the stream (`Buffered`) that begins at a message
  whenever the library selects, that messages were taken out one by one (`InOrder`), and
  that a plugin that waits is never more than one answer behind (`InTurn`): that
  makes one remembered request enough, and shows that the time-out strikes no plugin that
  still waits for the library (`ItsTurn`): one that is listened to has no request open,
  so it has all its answers or has finished.
- Where a message begins is a sum over all before it, and facts about sums need
  induction. The library's induction rules take an operator, which the provers
  cannot instantiate; `ReachedByCounting` is the same principle for a set of numbers,
  and follows from the pigeonhole principle. `StartFacts` are the facts about
  `Start` that rest on it.

*`PluginEnvProofs`*, for every width of the integers, size of the segment and file of
less than half the range (`WidthAssumption`), for every count and offset these
integers can hold (`CallsAssumption`), and `Blind = FALSE`:

- `PositionAlwaysInFile`; `FailedSeeksStay`, which no run checks (`FailedSeekStays`);
  and `EnvImplementsFile`, the refinement of `ByteSource`. `PositionInFile` is not
  inductive: that it holds after an answer depends on what was asked and on what
  has become known since. The invariant adds that the plugin's idea of the window is
  the window whenever the extract method runs (`Informed`), what the call in progress
  wants (`Asking`), and that the library has not forgotten it (`Understood`). The
  arithmetic that wraps is confined to the lemmas `WantedIs`, `CutIs` and `DeliverIs`, which
  show that what overflows is noticed.

`Blind = FALSE` is needed: a request behind the end of a file of unknown size leaves
the position there (section 3).

*`BufferedSourceProofs`*, for every file, buffer, client and number of failing system
calls, with `SeekFaults = FALSE`:

- `BufferAlwaysAtPosition`, by the invariant that adds what a read in progress has
  copied (`InProgress`). The facts it needs of sequences are `RunIs` and `RunJoined`:
  runs of consecutive bytes, cut and joined, are runs.
- `BufferedImplementsBytes`, the refinement of `ByteSource`: the position its clients
  see moves when a read returns, not while it refills.

*`DataSourceProofs`*, for every plain, gzip, zlib or bzip2 file, whole or not
(`FilesAssumption`: more input never makes less output, and a stream ends with a
trailer that makes none), every client, all sizes of buffer and chunk and any number of
failing system calls, with `SeekFaults = FALSE` and `RestartFaults = FALSE`:

- `ResultAlwaysAtPosition`, by `DsInv`: where the waiting bytes come from at each point of
  a call (`Results`), that no more was made than the input holds (`Decoded`), and that a
  stream that could be started once can be started again (`Headers`, which knows how
  far the gzip header has been read), since `cfs_seek` does not recover otherwise.
- `SizeFoundIsRight`: unless a call has failed or the file is damaged, the size that is
  found is that of the decompressed file. The input that is given back after a chunk
  is what makes it hold: `InOrder`, a part of `Working`, says that the buffered source stands
  where the decompressor has got to.
- `DataSourceImplementsContent`, the refinement of `ByteSource`. A call maps to one step, the
  one with which it returns; `RefInv` carries it there: the call and what it is for
  (`Roles`), that what has been delivered and what is left lead to what was asked for
  (`Aims`), what the buffered source answers to a call that is passed on (`Served`).

- `SizeAlwaysSettled`, on damaged files and with trailing bytes too. Such a file has no length
  the size could be compared with, so the invariant `OnCourse` compares one start of the
  decompressor with the next: without failing calls each goes through the same stages
  (`Course`), whatever calls, skips and restarts cut them into, as a chunk always begins where
  the input of the one before was used up. A size is found at a stage that is never
  left (`Last`), and `OneLast` shows that there is only one: the stages from
  which all paths lead to it hold the first and are closed under steps, so no induction is needed.

`SizeFoundIsRight` and `DataSourceImplementsContent` also assume `NothingTrails`: with bytes
behind a bzip2 stream the code reports an error (section 3). With `SeekFaults` or `RestartFaults` the properties are violated
(section 2).

*`PluginListProofs`*, for any number of lists, plugins and segments, whatever processes do
not start or break, and every configuration that, once written, can be read back
(`ConfigsAssumption`: a name holds no `:` or `(`, that of a plugin to add does not begin with `-`,
options hold no `)`, and nothing holds a NUL):

- `SegmentsAlwaysCounted`, `ProcessesAlwaysOwned`, `LibrariesAlwaysOpen`. They count places in
  lists, and a removal moves every plugin behind it to another place. The
  invariant knows a plugin by its list and name instead, which is a bijection since
  no name is listed twice (`Distinct`); it adds that the plugins of a list with a
  segment all have the same (`OneSegment`), and that a process is started only once there is
  one (`Reached`).
- `ConfigAlwaysApplied`: the loop over the characters does what a fold over the entries does.
  `JoinedIsLaidOut` says where in the string each entry begins, `EntryRead` what
  the loop reads from there, and the invariant `ConfigRead` that it is at the beginning of an
  entry, with the list as the entries before have made it. `FlattenSeq` and `FoldLeft` are
  recursive functions; that there are such functions (`FlattenIsLast`, `FoldIsLastStep`)
  is shown by counting, as in `ReplyChannelProofs`.

*`UnzipProofs`*, for every archive whose directory lies where the end record says
(`ArchivesAssumption`; its entries need not be intact, nor say the truth, `EntriesAssumption`),
every size of buffer, block and reach (`SizesAssumption`), and failures of any callback:

- `LastAlwaysLocated`: the search backwards in overlapping blocks misses no
  signature. The invariant `Scanned` says that none lies in what has been read; the
  overlap is what makes it hold for one cut by the edge of a block.
- `CurrentAlwaysAt`: `AtPlace` says it of the handle and of the copy a search keeps.
  It rests on `RecordsInOrder`: a place in the directory belongs to one entry only.
- `SearchAlwaysTells`: by `Searched`, no entry passed so far has the name; by `Strayed`, a
  handle is without a current entry only after a callback has failed or in an archive
  whose end record counts other entries than can be read.
- `UnzipImplementsEntry`, the refinement of `ByteSource` by the open entry, and
  `AlarmsAlwaysTrue`. The invariant `EntryInv` says what the reader of an open entry has done
  (`Fits`: it has handed out a beginning of the entry, and no more than the input used
  expands to) and what a read that goes on has copied (`Copying`). Every step of a read is
  shown to hand out some bytes and to go on, to end with all there is, or to end with a
  good reason (`ReadSteps`); the invariant and the refinement follow from that alone.

*`PluginThreadsProofs`*, for every size of file, buffer and pipe, any number of items
and signals (`PipeAssumption`), and a library that stops the plugin at any time:

- `AlwaysOneAtATime` and `NothingEverLeft`: `Turns` ties whoever talks to the holder of
  the mutex and the holder to its place in the program; `EndsKept` says which ends of
  the pipes are open and which thread or process is there at each place.
- `AlwaysReceivedInOrder`: what was received, what the pipe holds and what has yet to
  be written follow each other in the file (`InLine`, kept by `TakesInLine`,
  `GetsInLine` and `PutsInLine`), and as long as somebody may go on receiving, nobody can
  have moved the window: only who reads could have asked, and then there is
  nothing left to write (`StillThere`).
- `AlwaysWatched`, with the other parts of the invariant.

*Only model-checked:* liveness (`SeekServed`, `ExtractReturns`, `CallsReturn`,
`EveryMessageTaken`, `MethodReturns`), which is out of the proof system's reach. Every other
property of a passing run is stated by one of the theorems above.

## 5. Not modelled

- *Windows channels* (`extractor_ipc_w32.c`): another build of the same protocol; its
  overlapped I/O is nowhere described but by the system's own documentation.
- *The parsers of the format plugins* (`src/plugins`, and what is kept of older ones
  in `src/plugins/old` and `src/doc`): three quarters of the source. Each is a
  sequential program over the callbacks that `PluginEnv` models, for a format or
  a library of its own; none of them keeps state between two calls. `PluginMain`
  lets them do whatever these callbacks allow. The three that have a thread or process of
  their own are the exception, in `PluginThreads`, without what they parse.
- *The command line tool* (`extract.c`): options and printing around one call.
- *Meta types and printing*: constant tables and output.
- *String conversion* (`convert.c`): one call of iconv on one buffer.
- *The search path* beyond the question whether a plugin is found: look-ups in the
  environment and the file system.
- *`intlemu`*: build glue.
- zlib, libbz2, iconv, dlopen, the kernel's pipes and signals are external; each
  model says what it takes from them.

The models cover most of what the library itself is (`src/main` and the ZIP reader in
`src/common`), and, for the reasons above, a small part of all lines of the source.

What may be added: the composition of `Extract` with `DataSource` below it, so that I/O errors
are those a compressed file can make.
