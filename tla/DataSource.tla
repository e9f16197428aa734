----------------------------- MODULE DataSource -----------------------------
(***************************************************************************)
(* The data source of an extraction, EXTRACTOR_datasource_..., with the    *)
(* decompression (cfs_...) that it puts on top of the buffered source when *)
(* the file is compressed.                                                 *)
(*                                                                         *)
(* Bytes of the plain text are written as their offsets, too.  `chunk' is  *)
(* not in the code: it is the offset of the byte that really is first in   *)
(* the decompression buffer cfs->result.  zlib and libbz2 are external:    *)
(* stream.plain[k] is the number of bytes the first k compressed bytes     *)
(* expand to, and the stream ends when all of them have been consumed.     *)
(***************************************************************************)
EXTENDS BufferedSource, FiniteSets

CONSTANTS Files,        \* the files there are
          Chunk,        \* COM_CHUNK_SIZE
          MagicSize,    \* bytes that show the kind of compression
          HeaderSize,   \* bytes that show the optional parts of a gzip header
          FieldSize,    \* bytes read to find the end of such a part
          RestartFaults \* system calls fail also while a stream is started again

ASSUME StepsAssumption ==
  /\ Chunk \in Nat \ {0} /\ MagicSize \in Nat \ {0}
  /\ HeaderSize \in Nat \ {0} /\ FieldSize \in Nat \ {0}
ASSUME RestartFaultsAssumption == RestartFaults \in BOOLEAN
ASSUME FilesAssumption ==
  \A f \in Files :
    /\ f.size \in Nat \ {0} /\ f.method \in {"none", "zlib", "bz2"}
    /\ f.plain \in Seq(Nat) /\ f.plain # <<>> /\ f.bad \in 0..Len(f.plain) - 1
    \* More input never makes less output.
    /\ \A j \in 1..Len(f.plain) : \A i \in 1..j : f.plain[i] <= f.plain[j]
    \* A compressed stream begins with a magic number and ends with a trailer.
    /\ f.method # "none" =>
         LET last == Len(f.plain)
         IN  last > 1 /\ f.plain[last - 1] = f.plain[last]

VARIABLES
  stream,     \* what the file holds
  kind,       \* "opening", "plain", "compressed" or "closed"
  pc,         \* what is being done
  call,       \* the client's call
  reply,      \* the last call of the client and its result
  from,       \* the position when that call was made
  cpos,       \* cfs->fpos
  resultPos,  \* cfs->result_pos
  known,      \* cfs->uncompressed_size
  chunk,      \* where the bytes in cfs->result come from
  strm,       \* the decompressor
  task,       \* what cfs_read is called for: "read", "skip" or "measure"
  data,       \* cfs_read: the bytes delivered so far
  rest,       \* cfs_read: bytes still to be delivered
  delta,      \* cfs_seek: bytes still to be skipped
  measuring,  \* EXTRACTOR_datasource_get_size_ is being forced
  hlen,       \* gzip_header_length
  fields,     \* parts of the gzip header still to be looked at
  reported    \* parts of the gzip header given to the client as meta data

header  == <<hlen, fields, reported>>
client  == <<call, reply, from>>
reading == <<data, rest, delta>>
vars    == <<bvars, stream, kind, pc, client, cpos, resultPos, known, chunk, strm,
             task, reading, measuring, header>>

Plain(k)  == stream.plain[k + 1]
EndOf     == Len(stream.plain) - 1
PlainSize == Plain(EndOf)
Damaged   == stream.method # "none" /\ (fsize < EndOf \/ stream.bad > 0)
Made      == Chunk - strm.availOut    \* bytes in cfs->result

Content == INSTANCE ByteSource WITH
  Whole    <- TRUE,
  opened   <- kind \in {"plain", "compressed"},
  size     <- IF kind = "plain" THEN fsize ELSE PlainSize,
  position <- IF pc # "idle" \/ kind = "closed" THEN from
              ELSE IF kind = "plain" THEN Position ELSE cpos,
  trouble  <- faults > 0 \/ Damaged

DsInit ==
  /\ stream \in Files
  /\ BInit({stream.size})
  /\ kind = "opening" /\ pc = "probe" /\ task = "read"
  /\ call = NoReply.call /\ reply = NoReply /\ from = 0
  /\ cpos = 0 /\ resultPos = 0 /\ known = -1 /\ chunk = 0
  /\ strm = [live |-> FALSE, fed |-> 0, made |-> 0, ended |-> FALSE, broken |-> FALSE,
             availIn |-> 0, availOut |-> Chunk]
  /\ data = <<>> /\ rest = 0 /\ delta = 0 /\ measuring = FALSE
  /\ hlen = 0 /\ fields = <<>> /\ reported = {}

(* The code does not recover from a system call that fails when a source   *)
(* in use is started again.                                                *)
Tolerated == \/ RestartFaults \/ kind # "compressed" \/ pc \in {"fetched", "back"}
             \/ faults' = faults

(* A step that calls bfds_seek or bfds_read, or waits for it. *)
Calling(from_, to) ==
  /\ pc = from_ /\ pc' = to /\ Tolerated
  /\ UNCHANGED <<stream, kind, client, known, chunk, strm, task, reading, measuring, header>>

-----------------------------------------------------------------------------
(* get_compression_type, as called by EXTRACTOR_datasource_create_... *)

Probe ==
  /\ BSeek(0, "set")
  /\ Calling("probe", "magic")
  /\ UNCHANGED <<cpos, resultPos>>

ProbeRead ==
  /\ breply.value = 0
  /\ BRead(MagicSize)
  /\ Calling("magic", "probed")
  /\ UNCHANGED <<cpos, resultPos>>

Probed ==
  /\ \/ pc = "magic" /\ breply.value # 0
     \/ pc = "probed" /\ ~Serving
  /\ IF pc = "probed" /\ breply.value = MagicSize /\ stream.method # "none"
     THEN pc' = "init" /\ UNCHANGED kind
     ELSE pc' = "idle" /\ kind' = "plain"
  /\ UNCHANGED <<bvars, stream, client, cpos, resultPos, known, chunk, strm, task, reading,
                 measuring, header>>

-----------------------------------------------------------------------------
(* cfs_init_decompressor: of a new source, or to start again for cfs_seek *)

InitDecompressor ==
  /\ cpos' = 0 /\ resultPos' = 0
  /\ BSeek(0, "set")
  /\ Calling("init", IF stream.method = "zlib" THEN "header" ELSE "rewound")

ReadHeader ==
  /\ breply.value = 0
  /\ BRead(HeaderSize)
  /\ Calling("header", "headerRead")
  /\ UNCHANGED <<cpos, resultPos>>

(* FCOMMENT is tested for with a mask that has the bits of FEXTRA and FHCRC*)
(* as well.                                                                *)
Optional(flags) ==
  (IF "FNAME" \in flags THEN <<"name">> ELSE <<>>)
    \o (IF flags \cap {"FCOMMENT", "FEXTRA", "FHCRC"} # {} THEN <<"comment">> ELSE <<>>)

HeaderParsed ==
  /\ pc = "headerRead" /\ ~Serving /\ breply.value = HeaderSize
  /\ hlen' = HeaderSize + (IF "FEXTRA" \in stream.flags THEN 1 ELSE 0)
  /\ fields' = Optional(stream.flags)
  /\ pc' = "field"
  /\ UNCHANGED <<bvars, stream, kind, client, cpos, resultPos, known, chunk, strm, task,
                 reading, measuring, reported>>

SeekField ==
  /\ fields # <<>>
  /\ BSeek(hlen, "set")
  /\ Calling("field", "fieldFound")
  /\ UNCHANGED <<cpos, resultPos>>

ReadField ==
  /\ breply.value = hlen
  /\ BRead(FieldSize)
  /\ Calling("fieldFound", "fieldRead")
  /\ UNCHANGED <<cpos, resultPos>>

FieldComplete == breply.value > 0 /\ Head(fields) \in stream.terminated

(* The client is told only when the source is created, and may abort that. *)
ReportField ==
  /\ pc = "fieldRead" /\ ~Serving /\ FieldComplete
  /\ hlen' = hlen + 1
  /\ fields' = Tail(fields)
  /\ IF kind = "opening"
     THEN /\ reported' = reported \cup {Head(fields)}
          /\ \/ pc' = "field" /\ UNCHANGED kind
             \/ pc' = "idle" /\ kind' = "closed"
     ELSE pc' = "field" /\ UNCHANGED <<reported, kind>>
  /\ UNCHANGED <<bvars, stream, client, cpos, resultPos, known, chunk, strm, task, reading,
                 measuring>>

(* ZLIB_VERNUM is defined: zlib reads the header itself.  cfs->strm is     *)
(* cleared before the file is rewound.                                     *)
Rewind ==
  /\ pc = "field" /\ fields = <<>> /\ Tolerated
  /\ strm' = [strm EXCEPT !.availIn = 0, !.availOut = 0]
  /\ BSeek(0, "set")
  /\ pc' = "rewound"
  /\ UNCHANGED <<stream, kind, client, cpos, resultPos, known, chunk, task, reading, measuring,
                 header>>

DecompressorReady ==
  /\ pc = "rewound" /\ breply.value = 0
  /\ strm' = [live |-> TRUE, fed |-> 0, made |-> 0, ended |-> FALSE, broken |-> FALSE,
              availIn |-> 0, availOut |-> Chunk]
  /\ IF kind = "opening"
     THEN kind' = "compressed" /\ pc' = "idle"
     ELSE pc' = "skip" /\ UNCHANGED kind
  /\ UNCHANGED <<bvars, stream, client, cpos, resultPos, known, chunk, task, reading,
                 measuring, header>>

InitFails ==
  /\ ~Serving
  /\ \/ pc \in {"header", "rewound"} /\ breply.value # 0
     \/ pc = "headerRead" /\ breply.value # HeaderSize
     \/ pc = "fieldFound" /\ breply.value # hlen
     \/ pc = "fieldRead" /\ ~FieldComplete
  /\ IF kind = "opening"
     THEN pc' = "idle" /\ kind' = "closed"
     ELSE pc' = "stuck" /\ UNCHANGED kind
  /\ UNCHANGED <<bvars, stream, client, cpos, resultPos, known, chunk, strm, task, reading,
                 measuring, header>>

-----------------------------------------------------------------------------
(* cfs_read *)

(* What is left over from the last chunk comes first. *)
BeginRead(count) ==
  LET n == IF cpos = known THEN 0 ELSE Lesser(count, Made - resultPos)
  IN  /\ data' = Run(chunk + resultPos, n)
      /\ cpos' = cpos + n
      /\ resultPos' = resultPos + n
      /\ rest' = count - n
      /\ pc' = IF cpos = known \/ n = count THEN "returned" ELSE "fetch"

Fetch ==
  /\ BRead(Chunk)
  /\ Calling("fetch", "fetched")
  /\ UNCHANGED <<cpos, resultPos>>

FetchFails ==
  /\ pc = "fetched" /\ ~Serving /\ breply.value < 0
  /\ pc' = "failed"
  /\ UNCHANGED <<bvars, stream, kind, client, cpos, resultPos, known, chunk, strm, task,
                 reading, measuring, header>>

FetchedNothing ==
  /\ pc = "fetched" /\ ~Serving /\ breply.value = 0
  /\ known' = cpos
  /\ pc' = "returned"
  /\ UNCHANGED <<bvars, stream, kind, client, cpos, resultPos, chunk, strm, task,
                 reading, measuring, header>>

(* inflate and BZ2_bzDecompress with n bytes of input: they make as many   *)
(* bytes as there is room for and consume what they need for that, and the *)
(* trailer if it comes next.                                               *)
Consumed(n) ==
  LET last == Lesser(strm.fed + n, EndOf)
      room == strm.made + Chunk
      first == CHOOSE k \in strm.fed..last :
                 /\ Plain(k) >= room
                 /\ \A j \in strm.fed..k - 1 : Plain(j) < room
  IN  IF Plain(last) <= room THEN last ELSE first

(* libbz2 does not go on after the end of the stream; zlib says again that *)
(* this was it.                                                            *)
Decompress(input) ==
  LET n    == Len(input)
      k    == Consumed(n)
      made == Lesser(strm.made + Chunk, Plain(k))
      hits == strm.fed < stream.bad /\ stream.bad <= k
      good == Lesser(strm.made + Chunk, Plain(stream.bad - 1))
      accepted == /\ strm.live /\ ~strm.broken
                  /\ strm.ended => stream.method = "zlib"
                  /\ strm.ended \/ input = Run(strm.fed, n)
  IN  /\ chunk' = strm.made
      /\ resultPos' = 0
      /\ \/ /\ accepted /\ ~hits
            /\ strm' = [strm EXCEPT !.fed = k, !.made = made,
                          !.ended = k = EndOf /\ made = PlainSize,
                          !.availIn = n - (k - strm.fed),
                          !.availOut = Chunk - (made - strm.made)]
            /\ pc' = "back"
         \/ /\ accepted /\ hits
            /\ strm' = [strm EXCEPT !.broken = TRUE, !.made = good,
                          !.availOut = Chunk - (good - strm.made)]
            /\ pc' = "failed"
         \/ /\ ~accepted
            /\ strm' = [strm EXCEPT !.availOut = Chunk]
            /\ pc' = "failed"

Inflate ==
  /\ pc = "fetched" /\ ~Serving /\ breply.value > 0
  /\ Decompress(breply.data)
  /\ UNCHANGED <<bvars, stream, kind, client, cpos, known, task, reading, measuring, header>>

(* mutant: it is not *)
GiveBackNothing ==
  /\ BSeek(0, "cur")
  /\ Calling("back", "copy")
  /\ UNCHANGED <<cpos, resultPos>>

(* Input that was not consumed is read again the next time. *)
GiveBack ==
  /\ BSeek(-strm.availIn, "cur")
  /\ Calling("back", "copy")
  /\ UNCHANGED <<cpos, resultPos>>

GiveBackFails ==
  /\ pc = "copy" /\ breply.value < 0
  /\ pc' = "failed"
  /\ UNCHANGED <<bvars, stream, kind, client, cpos, resultPos, known, chunk, strm, task,
                 reading, measuring, header>>

(* mutant: the size is what has been delivered *)
CopyResultDelivered ==
  /\ pc = "copy" /\ breply.value >= 0
  /\ LET n == Lesser(Made, rest)
     IN  /\ data' = data \o Run(chunk, n)
         /\ cpos' = cpos + n
         /\ resultPos' = n
         /\ rest' = rest - n
         /\ pc' = IF n = rest \/ strm.ended THEN "returned" ELSE "fetch"
  /\ known' = IF strm.ended THEN cpos' ELSE known
  /\ UNCHANGED <<bvars, stream, kind, client, chunk, strm, task, delta, measuring, header>>

(* At the end of the stream the size is known, also when not all of it has *)
(* been delivered yet.                                                     *)
CopyResult ==
  /\ pc = "copy" /\ breply.value >= 0
  /\ LET n == Lesser(Made, rest)
     IN  /\ data' = data \o Run(chunk, n)
         /\ cpos' = cpos + n
         /\ resultPos' = n
         /\ rest' = rest - n
         /\ pc' = IF n = rest \/ strm.ended THEN "returned" ELSE "fetch"
  /\ known' = IF strm.ended THEN cpos + Made ELSE known
  /\ UNCHANGED <<bvars, stream, kind, client, chunk, strm, task, delta, measuring, header>>

-----------------------------------------------------------------------------
(* cfs_seek *)

MoveWithoutResult(target) ==    \* mutant: only fpos moves
  LET d == target - cpos
  IN  IF d >= 0
      THEN delta' = d /\ pc' = "skip" /\ UNCHANGED <<cpos, resultPos, strm>>
      ELSE IF resultPos >= -d
      THEN /\ cpos' = target
           /\ pc' = "moved" /\ UNCHANGED <<delta, strm, resultPos>>
      ELSE /\ strm' = [strm EXCEPT !.live = FALSE]
           /\ delta' = target
           /\ pc' = "init" /\ UNCHANGED <<cpos, resultPos>>

Move(target) ==
  LET d == target - cpos
  IN  IF d >= 0
      THEN delta' = d /\ pc' = "skip" /\ UNCHANGED <<cpos, resultPos, strm>>
      ELSE IF resultPos >= -d
      THEN /\ cpos' = target /\ resultPos' = resultPos + d
           /\ pc' = "moved" /\ UNCHANGED <<delta, strm>>
      ELSE /\ strm' = [strm EXCEPT !.live = FALSE]      \* cfs_reset_stream
           /\ delta' = target
           /\ pc' = "init" /\ UNCHANGED <<cpos, resultPos>>

MayMoveTo(target) == target >= 0 /\ (known = -1 \/ target <= known)

Skip ==
  /\ pc = "skip"
  /\ IF delta > 0
     THEN BeginRead(Lesser(delta, Chunk)) /\ task' = "skip"
     ELSE pc' = "moved" /\ UNCHANGED <<cpos, resultPos, data, rest, task>>
  /\ UNCHANGED <<bvars, stream, kind, client, known, chunk, strm, delta, measuring, header>>

(* mutant: the end of the stream does not end the loop *)
SkippedForEver ==
  /\ pc \in {"returned", "failed"} /\ task = "skip"
  /\ IF pc = "failed"
     THEN pc' = "stuck" /\ UNCHANGED delta
     ELSE pc' = "skip" /\ delta' = delta - Len(data)
  /\ UNCHANGED <<bvars, stream, kind, client, cpos, resultPos, known, chunk, strm, task,
                 data, rest, measuring, header>>

Skipped ==
  /\ pc \in {"returned", "failed"} /\ task = "skip"
  /\ IF pc = "failed" \/ data = <<>>
     THEN pc' = "stuck" /\ UNCHANGED delta
     ELSE pc' = "skip" /\ delta' = delta - Len(data)
  /\ UNCHANGED <<bvars, stream, kind, client, cpos, resultPos, known, chunk, strm, task,
                 data, rest, measuring, header>>

-----------------------------------------------------------------------------
(* EXTRACTOR_datasource_read_, _seek_ and _get_size_ *)

PlainCall(c) ==
  /\ kind = "plain" /\ pc = "idle" /\ c.op # "size"
  /\ BCall(c)
  /\ pc' = "served" /\ call' = c /\ from' = Position
  /\ UNCHANGED <<stream, kind, reply, cpos, resultPos, known, chunk, strm, task, reading,
                 measuring, header>>

PlainReturn ==
  /\ pc = "served" /\ ~Serving
  /\ reply' = breply
  /\ pc' = "idle"
  /\ UNCHANGED <<bvars, stream, kind, call, from, cpos, resultPos, known, chunk, strm, task,
                 reading, measuring, header>>

Read(c) ==
  /\ kind = "compressed" /\ pc = "idle" /\ c.op = "read"
  /\ call' = c /\ from' = cpos /\ task' = "read"
  /\ BeginRead(c.count)
  /\ UNCHANGED <<bvars, stream, kind, reply, known, chunk, strm, delta, measuring, header>>

ReadReturn ==
  /\ pc \in {"returned", "failed"} /\ task = "read"
  /\ reply' = IF pc = "failed" THEN Failure(call)
                               ELSE Answer(call, Len(data), data)
  /\ pc' = "idle"
  /\ UNCHANGED <<bvars, stream, kind, call, from, cpos, resultPos, known, chunk, strm, task,
                 reading, measuring, header>>

(* The end of an unmeasured source is looked for first. *)
Seek(c) ==
  /\ kind = "compressed" /\ pc = "idle" /\ c.op = "seek"
  /\ call' = c /\ from' = cpos
  /\ LET target == Target(c, cpos, known)
     IN  IF c.whence = "end" /\ known = -1
         THEN measuring' = TRUE /\ pc' = "measure"
              /\ UNCHANGED <<cpos, resultPos, strm, delta, reply>>
         ELSE /\ UNCHANGED measuring
              /\ IF MayMoveTo(target)
                 THEN Move(target) /\ UNCHANGED reply
                 ELSE /\ reply' = Failure(c) /\ pc' = "idle"
                      /\ UNCHANGED <<cpos, resultPos, strm, delta>>
  /\ UNCHANGED <<bvars, stream, kind, known, chunk, task, data, rest, header>>

SeekReturn ==
  /\ pc \in {"moved", "stuck"} /\ ~measuring
  /\ reply' = IF pc = "moved" THEN Answer(call, cpos, <<>>)
                              ELSE Failure(call)
  /\ pc' = "idle"
  /\ UNCHANGED <<bvars, stream, kind, call, from, cpos, resultPos, known, chunk, strm, task,
                 reading, measuring, header>>

GetSize(c) ==
  /\ kind \in {"plain", "compressed"} /\ pc = "idle" /\ c.op = "size"
  /\ call' = c
  /\ from' = IF kind = "compressed" THEN cpos ELSE Position
  /\ IF kind = "compressed" /\ c.force /\ known = -1
     THEN measuring' = TRUE /\ pc' = "measure" /\ UNCHANGED reply
     ELSE /\ reply' = Answer(c, IF kind = "plain" THEN fsize ELSE known, <<>>)
          /\ UNCHANGED <<measuring, pc>>
  /\ UNCHANGED <<bvars, stream, kind, cpos, resultPos, known, chunk, strm, task, reading,
                 header>>

(* Everything is read, in pieces that are larger than a chunk ... *)
Measure ==
  /\ \/ pc = "measure"
     \/ pc = "returned" /\ task = "measure" /\ known = -1
  /\ task' = "measure"
  /\ BeginRead(2 * Chunk)
  /\ UNCHANGED <<bvars, stream, kind, client, known, chunk, strm, delta, measuring, header>>

(* ... and the position is restored. *)
Restore ==
  /\ \/ pc = "failed" /\ task = "measure"
     \/ pc = "returned" /\ task = "measure" /\ known # -1
  /\ IF MayMoveTo(from)
     THEN Move(from)
     ELSE pc' = "stuck" /\ UNCHANGED <<cpos, resultPos, strm, delta>>
  /\ UNCHANGED <<bvars, stream, kind, client, known, chunk, task, data, rest, measuring,
                 header>>

Measured ==
  /\ pc \in {"moved", "stuck"} /\ measuring
  /\ measuring' = FALSE
  /\ LET target == Target(call, cpos, known)
     IN  IF call.op = "seek" /\ known # -1 /\ MayMoveTo(target)
         THEN Move(target) /\ UNCHANGED reply
         ELSE /\ reply' = IF call.op = "size" /\ pc = "moved"
                          THEN Answer(call, known, <<>>)
                          ELSE Failure(call)
              /\ pc' = "idle"
              /\ UNCHANGED <<cpos, resultPos, strm, delta>>
  /\ UNCHANGED <<bvars, stream, kind, call, from, known, chunk, task, data, rest, header>>

Destroy ==
  /\ kind \in {"plain", "compressed"} /\ pc = "idle"
  /\ kind' = "closed"
  /\ UNCHANGED <<bvars, stream, pc, client, cpos, resultPos, known, chunk, strm, task,
                 reading, measuring, header>>

-----------------------------------------------------------------------------
Work ==
  \/ BStep /\ Tolerated /\ UNCHANGED <<stream, kind, pc, client, cpos, resultPos, known, chunk,
                                       strm, task, reading, measuring, header>>
  \/ Probe \/ ProbeRead \/ Probed
  \/ InitDecompressor \/ ReadHeader \/ HeaderParsed \/ SeekField \/ ReadField \/ ReportField
  \/ Rewind \/ DecompressorReady \/ InitFails
  \/ Fetch \/ FetchFails \/ FetchedNothing \/ Inflate \/ GiveBack \/ GiveBackFails \/ CopyResult
  \/ Skip \/ Skipped
  \/ PlainReturn \/ ReadReturn \/ SeekReturn \/ Measure \/ Restore \/ Measured

DsNext ==
  \/ Work
  \/ \E c \in Calls : PlainCall(c) \/ Read(c) \/ Seek(c) \/ GetSize(c)
  \/ Destroy

DsSpec == DsInit /\ [][DsNext]_vars /\ WF_vars(Work)

-----------------------------------------------------------------------------
(* Between calls the bytes that wait in cfs->result are those at cfs->fpos:*)
(* no read, no seek inside of the chunk and no restarted stream leaves     *)
(* bytes of another place there for the next cfs_read to deliver.          *)
ResultAtPosition == pc = "idle" /\ Made > resultPos => chunk + resultPos = cpos

(* A size that has been found out (cfs_read at the end of the stream, also *)
(* with bytes left to deliver) is never found out differently later on,    *)
(* however the stream is restarted and read, as long as no system call     *)
(* fails.  (When the lseek fails that gives input back, the input in       *)
(* between is lost, and a client that reads on may be at the end of the    *)
(* file before it is at the end of the stream.)                            *)
SizeSettled == [][known # -1 /\ faults = 0 => known' = known]_vars

(* Reading, seeking and measuring deliver the bytes of the (decompressed)  *)
(* file at the position asked for, and fail only if a system call did or   *)
(* the file is damaged.                                                    *)
ImplementsContent == Content!Spec

(* Every call returns: no loop of cfs_read, cfs_seek or get_size goes on   *)
(* for ever, also on damaged files.                                        *)
CallsReturn == []<>(pc = "idle")

=============================================================================
