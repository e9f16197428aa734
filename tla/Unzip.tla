-------------------------------- MODULE Unzip --------------------------------
(***************************************************************************)
(* The reader of ZIP archives that plugins share (common/unzip.c): finding *)
(* the central directory from the end of the file, walking over it and     *)
(* searching it, and reading one entry through a buffer, with all of these *)
(* interleaved as the client likes.                                        *)
(*                                                                         *)
(* An archive is where its records lie.  The k-th byte of an entry's data, *)
(* decompressed, is written k.  inflate is external: plain[k] is the number*)
(* of bytes the first k compressed bytes of an entry expand to, and a      *)
(* stream ends when all of them have been consumed.                        *)
(*                                                                         *)
(* The callbacks of the plugin (ec->seek, ec->read) may fail at any time.  *)
(* If they deliver a block in pieces, the reader asks for the whole of it  *)
(* again (ec_read_file_func): it then has read too much, which is an error *)
(* for its callers, and has written behind their buffers.  trouble records *)
(* both, and that the process may die of the latter is the action Overrun. *)
(***************************************************************************)
EXTENDS SourceCalls

CONSTANTS Archives,     \* the archives there are
          Names,        \* names that are searched for
          Calls,        \* the reads of clients
          BufSize,      \* UNZ_BUFSIZE
          Block,        \* BUFREADCOMMENT
          MaxBack,      \* how far the end record is searched for, 0xffff
          SigSize,      \* bytes of a signature, 4
          Item,         \* SIZECENTRALDIRITEM
          Local         \* SIZEZIPLOCALHEADER

ASSUME SizesAssumption ==
  {BufSize, Block, MaxBack, SigSize, Item, Local} \subseteq Nat \ {0} /\ SigSize < MaxBack

(* The directory lies where the end record says, and its records lie one   *)
(* behind the other.  (They need not be intact, nor say the truth.)        *)
InPlace(a) ==
  /\ {a.size, a.before, a.offset, a.directory, a.declared} \subseteq Nat
  /\ a.signatures \subseteq Nat /\ a.size > SigSize
  /\ a.end = a.before + a.offset + a.directory
  /\ DOMAIN a.entries = 1..Len(a.entries)
  /\ \A i \in DOMAIN a.entries :
       /\ {a.entries[i].record, a.entries[i].var} \subseteq Nat
       /\ i = 1 => a.entries[i].record = a.offset
       /\ \A j \in DOMAIN a.entries :
            i < j => LET behind == a.entries[i].record + Item + a.entries[i].var
                     IN  IF j = i + 1 THEN a.entries[j].record = behind
                                      ELSE a.entries[j].record > behind

ASSUME ArchivesAssumption == \A a \in Archives : InPlace(a)

(* Longer input does not expand to less, and a stored entry is its data.   *)
Described(e) ==
  /\ {e.header, e.lvar, e.csize, e.usize, e.bad} \subseteq Nat
  /\ e.plain \in Seq(Nat) \ {<<>>}
  /\ \A j, k \in DOMAIN e.plain : j <= k => e.plain[j] <= e.plain[k]
  /\ e.method = "stored" => \A k \in DOMAIN e.plain : e.plain[k] = k - 1

ASSUME EntriesAssumption ==
  \A a \in Archives : \A i \in DOMAIN a.entries : Described(a.entries[i])

ASSUME CallsAssumption == \A c \in Calls : c.op = "read" /\ c.count \in Nat

NULL == [entry |-> 0]

VARIABLES
  archive,
  pc,         \* "closed", "locate", "parse", "idle", "find", "opening", "read", "dead"
  back,       \* locate_central_directory: uBackRead
  central,    \* and what it has found
  uf,         \* the handle: struct EXTRACTOR_UnzipFile
  saved,      \* go_find_local_file: the state to come back to
  wanted,     \* and the name
  pfile,      \* pfile_in_zip_read, or NULL
  availOut,   \* read_current_file: bytes still to be copied
  out,        \* and those copied so far
  call,       \* and the call
  reply,      \* the last of the reads of the open entry, and its result
  result,     \* the last other operation, and its result
  trouble     \* a callback has failed, or delivered a block in pieces

opening == <<back, central>>
finding == <<saved, wanted>>
reading == <<availOut, out, call>>
vars    == <<archive, pc, opening, uf, finding, pfile, reading, reply, result, trouble>>

Entries  == DOMAIN archive.entries
Entry(i) == archive.entries[i]
DataOf(i)   == archive.before + Entry(i).header + Local + Entry(i).lvar
Plain(i, k) == Entry(i).plain[k + 1]
EndOf(i)    == Len(Entry(i).plain) - 1
PlainSize(i) == Plain(i, EndOf(i))

(* The data of the entry is not what the directory says. *)
Corrupt(i) == \/ Entry(i).usize # PlainSize(i) \/ Entry(i).csize # EndOf(i)
              \/ Entry(i).bad > 0 \/ DataOf(i) + EndOf(i) > archive.size

Served == IF pfile = NULL THEN 0 ELSE Entry(pfile.entry).usize - pfile.restU

Content == INSTANCE ByteSource WITH
  Whole    <- TRUE,
  opened   <- pfile # NULL,
  size     <- IF pfile = NULL THEN 0 ELSE Entry(pfile.entry).usize,
  position <- Served - Len(out),
  trouble  <- trouble \/ (pfile # NULL /\ Corrupt(pfile.entry))

NoHandle == [numFile |-> 0, pos |-> 0, ok |-> FALSE, cur |-> 0, before |-> 0]
Result(op, value) == [op |-> op, value |-> value]

Init ==
  /\ archive \in Archives
  /\ pc = "closed" /\ back = 0 /\ central = 0 /\ uf = NoHandle
  /\ saved = NoHandle /\ wanted = "none"
  /\ pfile = NULL /\ availOut = 0 /\ out = <<>> /\ call = NoReply.call
  /\ reply = NoReply /\ result = Result("none", "ok") /\ trouble = FALSE

(* A callback fails, or has to be called more than once for a block. *)
Fault == trouble' = TRUE

Returns(op, value) == result' = Result(op, value) /\ pc' = "idle"

-----------------------------------------------------------------------------
(* EXTRACTOR_common_unzip_open *)

Open ==
  /\ pc = "closed"
  /\ pc' = "locate" /\ back' = SigSize /\ central' = 0
  /\ UNCHANGED <<archive, uf, finding, pfile, reading, reply, result, trouble>>

OpenFails ==
  /\ pc' = "closed" /\ result' = Result("open", "NULL")
  /\ UNCHANGED <<archive, opening, uf, finding, pfile, reading, reply>>

Limit    == Lesser(MaxBack, archive.size)
NextBack == IF back + Block > Limit THEN Limit ELSE back + Block

(* mutant: the blocks do not overlap *)
SeenApart == LET from == archive.size - NextBack
             IN  {p \in archive.signatures :
                    from <= p /\ p + SigSize <= from + Lesser(Block, archive.size - from)}

(* The signatures within the block that is read next. *)
Seen == LET from == archive.size - NextBack
        IN  {p \in archive.signatures :
               from <= p /\ p + SigSize <= from + Lesser(Block + SigSize, archive.size - from)}

LastOf(positions) == {p \in positions : \A q \in positions : q <= p}

(* locate_central_directory: one block, from its end. *)
Locate ==
  /\ pc = "locate" /\ back < Limit
  /\ back' = NextBack
  /\ IF Seen = {} THEN UNCHANGED <<central, pc>>
                  ELSE central' \in LastOf(Seen) /\ pc' = "parse"
  /\ UNCHANGED <<archive, uf, finding, pfile, reading, reply, result, trouble>>

NotLocated ==
  /\ pc = "locate"
  /\ \/ back >= Limit /\ UNCHANGED trouble
     \/ Fault
  /\ OpenFails

(* The entry whose record in the central directory is at that position. *)
RecordsAt(pos, before) ==
  {i \in Entries : Entry(i).record + archive.before = pos + before /\ Entry(i).known}

(* get_current_file_info, for the handle h *)
Info(h) == RecordsAt(h.pos, h.before)

Arrived(h) == IF Info(h) = {} THEN [h EXCEPT !.ok = FALSE]
              ELSE [h EXCEPT !.ok = TRUE, !.cur = CHOOSE i \in Info(h) : TRUE]

(* Every operation that moves to another entry reads its record. *)
MoveTo(h, op) ==
  \/ /\ uf' = Arrived(h)
     /\ Returns(op, IF uf'.ok THEN "ok" ELSE "error")
     /\ UNCHANGED trouble
  \/ /\ Fault
     /\ uf' = [h EXCEPT !.ok = FALSE]
     /\ Returns(op, "error")

First(h) == [h EXCEPT !.pos = archive.offset, !.numFile = 0]

(* The end record says where the directory is.  Something else with that   *)
(* signature does not, and one at offset 0 is taken for none.              *)
Parse ==
  /\ pc = "parse" /\ central = archive.end /\ central > 0
  /\ central >= archive.offset + archive.directory
  /\ MoveTo(First([NoHandle EXCEPT !.before = central - (archive.offset + archive.directory)]),
            "open")
  /\ UNCHANGED <<archive, opening, finding, pfile, reading, reply>>

NotParsed ==
  /\ pc = "parse"
  /\ \/ /\ \/ central # archive.end \/ central = 0
           \/ central < archive.offset + archive.directory
        /\ UNCHANGED trouble
     \/ Fault
  /\ OpenFails

-----------------------------------------------------------------------------
(* Moving over the directory *)

GoToFirst ==
  /\ pc = "idle"
  /\ MoveTo(First(uf), "first")
  /\ UNCHANGED <<archive, opening, finding, pfile, reading, reply>>

Following(h) == [h EXCEPT !.pos = @ + Item + Entry(h.cur).var, !.numFile = @ + 1]
AtLast   == ~uf.ok \/ uf.numFile + 1 = archive.declared

GoToNext ==
  /\ pc = "idle"
  /\ IF AtLast
     THEN Returns("next", "end") /\ UNCHANGED <<uf, trouble>>
     ELSE MoveTo(Following(uf), "next")
  /\ UNCHANGED <<archive, opening, finding, pfile, reading, reply>>

(* get_current_file_info and get_global_comment for a client. *)
GetInfo ==
  /\ pc = "idle"
  /\ \/ UNCHANGED trouble /\ Returns("info", IF Info(uf) = {} THEN "error" ELSE "ok")
     \/ Fault /\ Returns("info", "error")
  /\ UNCHANGED <<archive, opening, uf, finding, pfile, reading, reply>>

GetComment ==
  /\ pc = "idle"
  /\ \/ UNCHANGED trouble /\ Returns("comment", "ok")
     \/ Fault /\ Returns("comment", "error")
  /\ UNCHANGED <<archive, opening, uf, finding, pfile, reading, reply>>

(* mutant: the search starts at the current entry *)
FindFromHere(name) ==
  /\ pc = "idle"
  /\ wanted' = name
  /\ IF uf.ok
     THEN /\ saved' = uf
          /\ \/ uf' = Arrived(uf) /\ UNCHANGED trouble
             \/ uf' = [uf EXCEPT !.ok = FALSE] /\ Fault
          /\ pc' = "find" /\ UNCHANGED result
     ELSE Returns("find", "end") /\ UNCHANGED <<uf, saved, trouble>>
  /\ UNCHANGED <<archive, opening, pfile, reading, reply>>

(* EXTRACTOR_common_unzip_go_find_local_file *)
Find(name) ==
  /\ pc = "idle"
  /\ wanted' = name
  /\ IF uf.ok
     THEN /\ saved' = uf
          /\ \/ uf' = Arrived(First(uf)) /\ UNCHANGED trouble
             \/ uf' = [First(uf) EXCEPT !.ok = FALSE] /\ Fault
          /\ pc' = "find" /\ UNCHANGED result
     ELSE Returns("find", "end") /\ UNCHANGED <<uf, saved, trouble>>
  /\ UNCHANGED <<archive, opening, pfile, reading, reply>>

Matches == uf.ok /\ Info(uf) # {} /\ \A i \in Info(uf) : Entry(i).name = wanted

FindMatch ==
  /\ pc = "find" /\ Matches
  /\ Returns("find", "ok")
  /\ UNCHANGED <<archive, opening, uf, finding, pfile, reading, reply, trouble>>

FindNext ==
  /\ pc = "find" /\ uf.ok /\ ~Matches /\ ~AtLast
  /\ \/ uf' = Arrived(Following(uf)) /\ UNCHANGED trouble
     \/ uf' = [Following(uf) EXCEPT !.ok = FALSE] /\ Fault
  /\ UNCHANGED <<archive, pc, opening, finding, pfile, reading, reply, result>>

(* mutant: the search gives up the place it came from *)
FindFailsLeaving ==
  /\ pc = "find"
  /\ \/ ~uf.ok /\ Returns("find", "error") /\ UNCHANGED trouble
     \/ uf.ok /\ ~Matches /\ AtLast /\ Returns("find", "end") /\ UNCHANGED trouble
     \/ uf.ok /\ Returns("find", "error") /\ Fault
  /\ uf' = [saved EXCEPT !.ok = uf.ok, !.cur = uf.cur]
  /\ UNCHANGED <<archive, opening, finding, pfile, reading, reply>>

(* All is restored but for current_file_ok. *)
FindFails ==
  /\ pc = "find"
  /\ \/ ~uf.ok /\ Returns("find", "error") /\ UNCHANGED trouble
     \/ uf.ok /\ ~Matches /\ AtLast /\ Returns("find", "end") /\ UNCHANGED trouble
     \/ uf.ok /\ Returns("find", "error") /\ Fault        \* get_current_file_info
  /\ uf' = [saved EXCEPT !.ok = uf.ok]
  /\ UNCHANGED <<archive, opening, finding, pfile, reading, reply>>

-----------------------------------------------------------------------------
(* Reading the current entry *)

(* EXTRACTOR_common_unzip_open_current_file closes the entry that is open, *)
(* unless there is no current one.                                         *)
OpenCurrent ==
  /\ pc = "idle"
  /\ IF uf.ok THEN pfile' = NULL /\ pc' = "opening" /\ UNCHANGED result
              ELSE Returns("open_current", "param") /\ UNCHANGED pfile
  /\ UNCHANGED <<archive, opening, uf, finding, reading, reply, trouble>>

(* parse_current_file_coherency_header finds a header that agrees.  It     *)
(* does not look at what follows it.                                       *)
Coherent(i) == /\ uf.before = archive.before /\ Entry(i).coherent
               /\ archive.before + Entry(i).header + Local <= archive.size

HeaderRead ==
  /\ pc = "opening" /\ Coherent(uf.cur)
  /\ pfile' = [entry |-> uf.cur,
               pos     |-> Entry(uf.cur).header + Local + Entry(uf.cur).lvar,
               before  |-> uf.before,
               restC   |-> Entry(uf.cur).csize, restU |-> Entry(uf.cur).usize,
               availIn |-> 0, summed |-> <<>>]
  /\ reply' = NoReply
  /\ Returns("open_current", "ok")
  /\ UNCHANGED <<archive, opening, uf, finding, reading, trouble>>

(* The header disagrees, cannot be read, or there is no memory. *)
HeaderFails ==
  /\ pc = "opening"
  /\ \/ ~Coherent(uf.cur) /\ UNCHANGED trouble
     \/ Fault
  /\ Returns("open_current", "error")
  /\ UNCHANGED <<archive, opening, uf, finding, pfile, reading, reply>>

(* EXTRACTOR_common_unzip_read_current_file *)
ReadCurrent(c) ==
  /\ pc = "idle"
  /\ IF pfile = NULL \/ c.count = 0
     THEN /\ reply' = Answer(c, IF pfile = NULL THEN -102 ELSE 0, <<>>)
          /\ UNCHANGED <<pc, reading>>
     ELSE /\ pc' = "read" /\ call' = c /\ out' = <<>>
          /\ availOut' = Lesser(c.count, pfile.restU)
          /\ UNCHANGED reply
  /\ UNCHANGED <<archive, opening, uf, finding, pfile, result, trouble>>

ReadReturns(value, data) ==
  /\ reply' = Answer(call, value, data)
  /\ pc' = "idle" /\ availOut' = 0 /\ out' = <<>> /\ call' = NoReply.call

Copies(bytes) ==
  /\ out' = out \o bytes
  /\ availOut' = availOut - Len(bytes)

AllCopied ==
  /\ pc = "read" /\ availOut = 0
  /\ ReadReturns(Len(out), out)
  /\ UNCHANGED <<archive, opening, uf, finding, pfile, result, trouble>>

Hungry  == pc = "read" /\ availOut > 0 /\ pfile.availIn = 0 /\ pfile.restC > 0
Fed     == pc = "read" /\ availOut > 0 /\ ~(pfile.availIn = 0 /\ pfile.restC > 0)
Portion == Lesser(BufSize, pfile.restC)
Reaches == pfile.before + pfile.pos + Portion <= archive.size

Refill ==
  /\ Hungry /\ Reaches
  /\ pfile' = [pfile EXCEPT !.pos = @ + Portion, !.restC = @ - Portion, !.availIn = Portion]
  /\ UNCHANGED <<archive, pc, opening, uf, finding, reading, reply, result, trouble>>

(* mutant: the portion is counted although it has not been read *)
RefillFailsCounting ==
  /\ Hungry
  /\ \/ ~Reaches /\ UNCHANGED trouble
     \/ Fault
  /\ ReadReturns(-1, <<>>)
  /\ pfile' = [pfile EXCEPT !.pos = @ + Portion, !.restC = @ - Portion]
  /\ UNCHANGED <<archive, opening, uf, finding, result>>

(* UNZ_ERRNO: what this read has copied so far is lost to the client. *)
RefillFails ==
  /\ Hungry
  /\ \/ ~Reaches /\ UNCHANGED trouble
     \/ Fault
  /\ ReadReturns(-1, <<>>)
  /\ UNCHANGED <<archive, opening, uf, finding, pfile, result>>

(* The number of the byte of the entry that comes next. *)
InputAt == pfile.before + pfile.pos - pfile.availIn - DataOf(pfile.entry)

(* mutant: the copied bytes do not count *)
CopyStoredUncounted ==
  /\ Fed /\ Entry(pfile.entry).method = "stored"
  /\ IF pfile.availIn = 0
     THEN ReadReturns(Len(out), out) /\ UNCHANGED pfile
     ELSE LET bytes == Run(InputAt, Lesser(availOut, pfile.availIn))
          IN  /\ Copies(bytes)
              /\ pfile' = [pfile EXCEPT !.restU = @ - Len(bytes), !.summed = @ \o bytes]
              /\ UNCHANGED <<pc, call, reply>>
  /\ UNCHANGED <<archive, opening, uf, finding, result, trouble>>

CopyStored ==
  /\ Fed /\ Entry(pfile.entry).method = "stored"
  /\ IF pfile.availIn = 0
     THEN ReadReturns(Len(out), out) /\ UNCHANGED pfile
     ELSE LET bytes == Run(InputAt, Lesser(availOut, pfile.availIn))
          IN  /\ Copies(bytes)
              /\ pfile' = [pfile EXCEPT !.restU = @ - Len(bytes), !.availIn = @ - Len(bytes),
                                        !.summed = @ \o bytes]
              /\ UNCHANGED <<pc, call, reply>>
  /\ UNCHANGED <<archive, opening, uf, finding, result, trouble>>

(* inflate gets as far as the damage, the end of the stream or of its      *)
(* input.  When it has filled its output it may leave input for later.     *)
Usable == LET e == Entry(pfile.entry)
              k == Lesser(InputAt + pfile.availIn, EndOf(pfile.entry))
          IN  IF e.bad = 0 THEN k ELSE Lesser(k, e.bad - 1)

Damaged == Usable + 1 = Entry(pfile.entry).bad /\ InputAt + pfile.availIn > Usable
Ended   == Usable = EndOf(pfile.entry)

Inflate ==
  /\ Fed /\ Entry(pfile.entry).method = "deflated"
  /\ LET made  == Len(pfile.summed)
         bytes == Run(made, Lesser(availOut, Plain(pfile.entry, Usable) - made))
         full  == Len(bytes) = availOut
     IN  \E eaten \in InputAt..Usable :
           /\ Plain(pfile.entry, eaten) >= made + Len(bytes)
           /\ ~full => eaten = Usable
           /\ pfile' = [pfile EXCEPT !.restU = @ - Len(bytes), !.summed = @ \o bytes,
                                     !.availIn = @ - (eaten - InputAt)]
           /\ \/ /\ full \/ (~Damaged /\ ~Ended /\ (bytes # <<>> \/ eaten > InputAt))
                 /\ Copies(bytes) /\ UNCHANGED <<pc, call, reply>>
              \/ /\ ~full /\ Ended               \* Z_STREAM_END
                 /\ ReadReturns(Len(out \o bytes), out \o bytes)
              \/ /\ ~full /\ Damaged             \* Z_DATA_ERROR
                 /\ ReadReturns(-3, <<>>)
              \/ /\ ~full /\ ~Damaged /\ ~Ended /\ bytes = <<>> /\ eaten = InputAt
                 /\ ReadReturns(-5, <<>>)        \* Z_BUF_ERROR
  /\ UNCHANGED <<archive, opening, uf, finding, result, trouble>>

ChecksumFits(i) == pfile.summed = Run(0, PlainSize(i)) /\ Entry(i).crcOk

CloseCurrent ==
  /\ pc = "idle"
  /\ Returns("close_current",
             IF pfile = NULL THEN "param"
             ELSE IF pfile.restU = 0 /\ ~ChecksumFits(pfile.entry) THEN "crc" ELSE "ok")
  /\ pfile' = NULL
  /\ UNCHANGED <<archive, opening, uf, finding, reading, reply, trouble>>

Close ==
  /\ pc = "idle"
  /\ pc' = "closed" /\ uf' = NoHandle /\ pfile' = NULL /\ result' = Result("close", "ok")
  /\ UNCHANGED <<archive, opening, finding, reading, reply, trouble>>

(* What was written behind a buffer ends the process, sooner or later. *)
Overrun ==
  /\ trouble /\ pc \notin {"closed", "dead"}
  /\ pc' = "dead"
  /\ UNCHANGED <<archive, opening, uf, finding, pfile, reading, reply, result, trouble>>

Next ==
  \/ Open \/ Locate \/ NotLocated \/ Parse \/ NotParsed
  \/ GoToFirst \/ GoToNext \/ GetInfo \/ GetComment
  \/ \E name \in Names : Find(name)
  \/ FindMatch \/ FindNext \/ FindFails
  \/ OpenCurrent \/ HeaderRead \/ HeaderFails
  \/ \E c \in Calls : ReadCurrent(c)
  \/ AllCopied \/ Refill \/ RefillFails \/ CopyStored \/ Inflate
  \/ CloseCurrent \/ Close \/ Overrun

Spec == Init /\ [][Next]_vars

-----------------------------------------------------------------------------
(* Reading the open entry, in pieces and with other operations in between, *)
(* yields the bytes of that entry once each and in order, as many as the   *)
(* directory says; only a failing callback or a damaged entry excuses an   *)
(* error or a shorter read (EXTRACTOR_common_unzip_read_current_file).     *)
ImplementsEntry == Content!Spec

(* What the handle knows of the current entry is what the record at its    *)
(* place in the directory says, and the count of entries passed agrees,    *)
(* whatever searches have failed in between: an entry is opened by what is *)
(* remembered (EXTRACTOR_common_unzip_go_find_local_file restores it).     *)
CurrentIsAt ==
  pc = "idle" /\ uf.ok => Info(uf) = {uf.cur} /\ uf.cur = uf.numFile + 1

(* The entries that walking over the directory comes to. *)
Listed == {i \in Entries : /\ \A j \in 1..i : Entry(j).known
                           /\ archive.declared # 0 => i <= archive.declared}

(* A search returns, at once or in the end. *)
SearchEnds == /\ pc' = "idle" /\ result'.op = "find"
              /\ pc = "find" \/ <<result, wanted>>' # <<result, wanted>>

(* A search ends at the first entry of that name, or has looked at all     *)
(* entries and there is none.  It fails, or says that there is none and    *)
(* has not looked (without a current entry, current_file_ok = 0), only if  *)
(* the directory could not be read or was left: a callback has failed, or  *)
(* the end record counts other entries than can be read.  Unless the       *)
(* search is successful, the place it came from is kept.                   *)
SearchTells ==
  [][SearchEnds =>
       CASE result'.value = "ok" ->
              /\ uf'.ok /\ uf'.cur \in Listed
              /\ Entry(uf'.cur).name = wanted
              /\ \A i \in 1..(uf'.cur - 1) : Entry(i).name # wanted
         [] result'.value = "end" /\ uf.ok ->
              /\ uf' = saved
              /\ \A i \in Listed : Entry(i).name # wanted
         [] OTHER ->
              /\ uf' = [(IF pc = "find" THEN saved ELSE uf) EXCEPT !.ok = uf'.ok]
              /\ trouble' \/ archive.declared \notin Listed]_vars

(* The signatures that lie near enough to the end of the file. *)
InReach == {p \in archive.signatures :
              archive.size - Limit <= p /\ p + SigSize <= archive.size}

(* The end record is the last thing with its signature, and it is found    *)
(* wherever the blocks that are read from the end are cut                  *)
(* (locate_central_directory).                                             *)
LocatesLast ==
  [][pc = "locate" /\ pc' # "locate" =>
       IF pc' = "parse" THEN central' \in LastOf(InReach) ELSE trouble' \/ InReach = {}]_vars

(* Closing an entry complains of its checksum only if the archive is       *)
(* damaged, however it was read and whichever reads failed in between      *)
(* (EXTRACTOR_common_unzip_close_current_file).                            *)
AlarmsAreTrue ==
  [][pfile # NULL /\ pfile' = NULL /\ pc' = "idle" /\ result'.value = "crc" =>
       Corrupt(pfile.entry) \/ ~Entry(pfile.entry).crcOk]_vars
=============================================================================
