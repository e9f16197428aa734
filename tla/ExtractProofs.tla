--------------------------- MODULE ExtractProofs ---------------------------
(***************************************************************************)
(* Theorems about Extract, for any number of plugins, sizes and bounds.    *)
(***************************************************************************)
EXTENDS Extract, SequenceTheorems, TLAPS

(* Types of the operators the actions are built from *)

\* Every message constructor yields a message of its pipe.
LEMMA MessageTypes ==
  /\ InitMsg \in ToPlugin
  /\ DiscardMsg \in ToPlugin
  /\ ContinueMsg \in ToPlugin
  /\ RestMsg \in ToPlugin
  /\ DoneMsg \in ToLibrary
  /\ \A w \in Windows, k \in BOOLEAN :
       StartMsg(w, k) \in ToPlugin /\ UpdatedMsg(w, k) \in ToPlugin
  /\ \A f \in Nat : MetaMsg(f) \in ToLibrary
  /\ \A o \in Nat, wh \in Whences : SeekMsg(o, wh) \in ToLibrary
  BY DEF InitMsg, DiscardMsg, ContinueMsg, RestMsg, DoneMsg, StartMsg,
         UpdatedMsg, MetaMsg, SeekMsg, ToPlugin, ToPluginOps, ToLibrary,
         Windows, NoWindow, Whences

\* The element read from a pipe and the rest of the pipe have their types.
LEMMA PipeTypes ==
  ASSUME TypeOK, NEW p \in Plugin
  PROVE  /\ inp[p] \in Seq(ToPlugin)
         /\ outp[p] \in Seq(ToLibrary)
         /\ inp[p] # <<>> => Head(inp[p]) \in ToPlugin /\ Tail(inp[p]) \in Seq(ToPlugin)
         /\ outp[p] # <<>> => Head(outp[p]) \in ToLibrary /\ Tail(outp[p]) \in Seq(ToLibrary)
  BY HeadTailProperties DEF TypeOK

\* Destroying channels keeps the types of what it changes.
LEMMA WithoutType ==
  ASSUME TypeOK, NEW S, Without(S)
  PROVE  /\ channel' \in [Plugin -> BOOLEAN]
         /\ child' \in [Plugin -> ChildStates]
         /\ outp' \in [Plugin -> Seq(ToLibrary)]
  BY EmptySeq DEF TypeOK, Without, ChildStates

LEMMA DestroyType ==
  ASSUME TypeOK, NEW S, Destroy(S)
  PROVE  /\ channel' \in [Plugin -> BOOLEAN]
         /\ child' \in [Plugin -> ChildStates]
         /\ inp' \in [Plugin -> Seq(ToPlugin)]
         /\ outp' \in [Plugin -> Seq(ToLibrary)]
  BY WithoutType, EmptySeq DEF TypeOK, Destroy

\* Sending to a set of plugins does, too.
LEMMA SendType ==
  ASSUME TypeOK, NEW S, NEW m \in ToPlugin, Send(S, m)
  PROVE  /\ channel' \in [Plugin -> BOOLEAN]
         /\ child' \in [Plugin -> ChildStates]
         /\ inp' \in [Plugin -> Seq(ToPlugin)]
         /\ outp' \in [Plugin -> Seq(ToLibrary)]
<1>1. \A p \in Plugin : Append(inp[p], m) \in Seq(ToPlugin)
  BY AppendProperties DEF TypeOK
<1>2. inp' \in [Plugin -> Seq(ToPlugin)]
  BY <1>1, EmptySeq DEF TypeOK, Send
<1> QED BY <1>2, WithoutType DEF Send

\* A new window is a window.
LEMMA ReadyShmType ==
  ASSUME NEW f \in Nat, NEW off \in Nat, NEW known \in BOOLEAN,
         ReadyShm(f, off, known)
  PROVE  shm' \in Windows /\ sizeKnown' \in BOOLEAN
<1>1. shm' \in Windows
  BY ConstantAssumption DEF ReadyShm, WindowAt, Windows
<1> QED BY <1>1 DEF ReadyShm

\* The plugins whose requests are converted have one.
LEMMA VisitedSeek ==
  ASSUME TypeOK, NEW p \in Visited
  PROVE  p \in Plugin /\ channel[p] /\ ~roundFinished[p] /\ seekRequest[p] \in Nat
  BY DEF TypeOK, Visited, Running, Active, NoSeek, Plugin

\* The conversion yields an offset for them, and leaves the others alone.
LEMMA ResolvedType ==
  ASSUME TypeOK, NEW p \in Plugin, NEW end \in {-1, FileSize}
  PROVE  /\ Resolved(p, end) \in Nat \cup {NoSeek}
         /\ p \in Visited => Resolved(p, end) \in Nat
         /\ Resolved(p, end) = NoSeek <=> seekRequest[p] = NoSeek
<1>1. FileSize \in Nat /\ seekRequest[p] \in Nat \cup {NoSeek}
  BY ConstantAssumption DEF TypeOK
<1>2. CASE p \in Visited
  BY <1>1, <1>2, VisitedSeek DEF Resolved, NoSeek
<1>3. CASE p \notin Visited
  BY <1>1, <1>3 DEF Resolved
<1> QED BY <1>2, <1>3

-----------------------------------------------------------------------------
(* Type correctness *)

\* The initial state is well-typed.
LEMMA TypeInit ==
  ASSUME Init
  PROVE  TypeOK
<1>1. <<>> \in Seq(ToPlugin) /\ <<>> \in Seq(ToLibrary)
  BY EmptySeq
<1>2. NoWindow \in Windows
  BY DEF NoWindow, Windows
<1>3. view \in [Plugin -> [win : Windows, known : BOOLEAN]]
  BY <1>2 DEF Init
<1>4. want \in [Plugin -> [off : Nat, whence : Whences]]
  BY DEF Init, Whences
<1>5. callback \in [from : Nat, during : Nat, aborted : Nat, late : BOOLEAN]
  BY DEF Init
<1>6. inp \in [Plugin -> Seq(ToPlugin)] /\ outp \in [Plugin -> Seq(ToLibrary)]
  BY <1>1 DEF Init
<1>7. /\ channel \in [Plugin -> BOOLEAN]
      /\ roundFinished \in [Plugin -> BOOLEAN]
      /\ seekRequest \in [Plugin -> Nat \cup {NoSeek}]
      /\ seekWhence \in [Plugin -> Whences]
      /\ child \in [Plugin -> ChildStates]
      /\ budget \in [Plugin -> Nat]
  BY DEF Init, Whences, ChildStates
<1> QED
  BY <1>2, <1>3, <1>4, <1>5, <1>6, <1>7 DEF Init, TypeOK

\* Every step of a plugin process keeps the types.
LEMMA TypePlugin ==
  ASSUME TypeOK, NEW p \in Plugin, PluginStep(p)
  PROVE  TypeOK'
<1> USE PipeTypes, MessageTypes
<1>1. CASE HandleInit(p)
  BY <1>1 DEF HandleInit, Goes, MessageRead, Receives, TypeOK, ChildStates,
     libVars, listVars
<1>2. CASE HandleStart(p)
  <2>1. inp[p] # <<>> /\ Head(inp[p]) \in ToPlugin
    BY <1>2 DEF HandleStart, Receives
  <2>2. view' \in [Plugin -> [win : Windows, known : BOOLEAN]]
    BY <1>2, <2>1 DEF HandleStart, TypeOK, ToPlugin
  <2> QED
    BY <1>2, <2>1, <2>2, ConstantAssumption
    DEF HandleStart, Goes, MessageRead, TypeOK, ChildStates, libVars, listVars
<1>3. CASE HandleDiscard(p)
  BY <1>3 DEF HandleDiscard, MessageRead, Receives, TypeOK, libVars, listVars,
     procVars
<1>4. CASE RejectRequest(p)
  BY <1>4, EmptySeq DEF RejectRequest, Goes, TypeOK, ChildStates, libVars, listVars
<1>5. CASE \E w \in SeekArguments(p) : Seek(p, w)
  <2>1. PICK w \in SeekArguments(p) : Seek(p, w)
    BY <1>5
  <2>2. w \in [off : Nat, whence : Whences]
    BY ConstantAssumption DEF SeekArguments, Whences
  <2>3. Append(outp[p], SeekMsg(w.off, w.whence)) \in Seq(ToLibrary)
    BY <2>2, AppendProperties
  <2>4. budget[p] - 1 \in Nat
    BY <2>1 DEF Seek, TypeOK
  <2> QED
    BY <2>1, <2>2, <2>3, <2>4 DEF Seek, Goes, TypeOK, ChildStates, libVars, listVars
<1>6. CASE SeekAnswered(p)
  <2>1. inp[p] # <<>> /\ Head(inp[p]) \in ToPlugin
    BY <1>6 DEF SeekAnswered, Receives
  <2>2. view' \in [Plugin -> [win : Windows, known : BOOLEAN]]
    BY <1>6, <2>1 DEF SeekAnswered, TypeOK, ToPlugin
  <2> QED
    BY <1>6, <2>1, <2>2
    DEF SeekAnswered, Goes, MessageRead, TypeOK, ChildStates, libVars, listVars
<1>7. ASSUME OpcodeRead(p), inp[p] # <<>>
      PROVE  inp' \in [Plugin -> Seq(ToPlugin)]
  <2>1. RestOf(Head(inp[p])) \in Seq(ToPlugin)
    BY EmptySeq DEF RestOf
  <2>2. RestOf(Head(inp[p])) \o Tail(inp[p]) \in Seq(ToPlugin)
    BY <1>7, <2>1, ConcatProperties
  <2> QED BY <1>7, <2>2 DEF OpcodeRead, TypeOK
<1>8. CASE SeekRefused(p)
  BY <1>7, <1>8 DEF SeekRefused, Goes, Receives, TypeOK, ChildStates, libVars, listVars
<1>9. CASE SendMeta(p)
  <2>1. view[p].win.file \in Nat
    BY DEF TypeOK, Windows
  <2>2. Append(outp[p], MetaMsg(view[p].win.file)) \in Seq(ToLibrary)
    BY <2>1, AppendProperties
  <2>3. budget[p] - 1 \in Nat
    BY SMTT(30), <1>9 DEF SendMeta, TypeOK
  <2> QED
    BY <1>9, <2>2, <2>3 DEF SendMeta, Goes, TypeOK, ChildStates, libVars, listVars
<1>10. CASE MetaAnswered(p)
  BY <1>7, <1>10 DEF MetaAnswered, Goes, Receives, TypeOK, ChildStates, libVars, listVars
<1>11. CASE Done(p)
  <2>1. Append(outp[p], DoneMsg) \in Seq(ToLibrary)
    BY AppendProperties
  <2>2. inp' \in [Plugin -> Seq(ToPlugin)]
    <3>1. CASE UNCHANGED inp
      BY <3>1 DEF TypeOK
    <3>2. CASE inp' = [inp EXCEPT ![p] = <<>>]
      BY <3>2, EmptySeq DEF TypeOK
    <3> QED BY <1>11, <3>1, <3>2 DEF Done
  <2> QED
    BY <1>11, <2>1, <2>2 DEF Done, Goes, TypeOK, ChildStates, libVars, listVars
<1>12. CASE Exit(p)
  BY <1>12, EmptySeq DEF Exit, TypeOK, ChildStates, libVars, listVars
<1> QED
  BY <1>1, <1>2, <1>3, <1>4, <1>5, <1>6, <1>8, <1>9, <1>10, <1>11, <1>12
  DEF PluginStep

\* Opening the channels and announcing a file keeps the types.
LEMMA TypeStart ==
  ASSUME TypeOK, NEW new \in SUBSET {p \in OutOfProcess : ~channel[p]},
         ExtractStart(new)
  PROVE  TypeOK'
<1>1. shm' \in Windows /\ sizeKnown' \in BOOLEAN
  <2>1. PICK k \in BOOLEAN : ReadyShm(file + 1, 0, k)
    BY DEF ExtractStart
  <2> QED BY <2>1, ReadyShmType DEF TypeOK
<1>2. StartMsg(shm', sizeKnown') \in ToPlugin
  BY <1>1, MessageTypes
<1>3. inp' \in [Plugin -> Seq(ToPlugin)]
  <2>1. <<InitMsg, StartMsg(shm', sizeKnown')>> \in Seq(ToPlugin)
    BY <1>2, MessageTypes
  <2>2. \A p \in Plugin : Append(inp[p], StartMsg(shm', sizeKnown')) \in Seq(ToPlugin)
    BY <1>2, AppendProperties DEF TypeOK
  <2>3. <<>> \in Seq(ToPlugin)
    BY EmptySeq
  <2> QED BY <2>1, <2>2, <2>3 DEF ExtractStart
<1>4. outp' \in [Plugin -> Seq(ToLibrary)]
  BY EmptySeq DEF ExtractStart, TypeOK
<1>5. channel' \in [Plugin -> BOOLEAN] /\ roundFinished' \in [Plugin -> BOOLEAN]
  BY DEF ExtractStart, TypeOK, ResetRounds
<1>6. child' \in [Plugin -> ChildStates]
  BY DEF ExtractStart, TypeOK, ChildStates
<1>7. /\ lib' = "select" /\ file' = file + 1 /\ fileFinished' = FALSE
      /\ UNCHANGED <<seekRequest, seekWhence, view, want, budget, fdset, batch,
                     todo, ctxFinished, callback>>
  BY DEF ExtractStart
<1>8. lib' \in {"idle", "select", "read", "serve", "inproc"} /\ file' \in Nat
  BY <1>7 DEF TypeOK
<1>9. fileFinished' \in BOOLEAN
  BY <1>7
<1> QED
  BY <1>1, <1>3, <1>4, <1>5, <1>6, <1>7, <1>8, <1>9 DEF TypeOK

\* So does failing to read the file.
LEMMA TypeUnreadable ==
  ASSUME TypeOK, NEW new \in SUBSET {p \in OutOfProcess : ~channel[p]},
         ExtractUnreadable(new)
  PROVE  TypeOK'
<1>1. <<InitMsg>> \in Seq(ToPlugin)
  BY MessageTypes
<1>2. inp' \in [Plugin -> Seq(ToPlugin)]
  BY <1>1 DEF ExtractUnreadable, TypeOK
<1>3. channel' \in [Plugin -> BOOLEAN] /\ roundFinished' \in [Plugin -> BOOLEAN]
  BY DEF ExtractUnreadable, TypeOK, ResetRounds
<1>4. child' \in [Plugin -> ChildStates]
  BY DEF ExtractUnreadable, TypeOK, ChildStates
<1>5. shm' \in Windows
  BY DEF ExtractUnreadable, Windows, NoWindow
<1> QED
  BY <1>2, <1>3, <1>4, <1>5 DEF ExtractUnreadable, TypeOK

\* Every step of EXTRACTOR_IPC_channel_recv_ and of the reply handlers does.
LEMMA TypeReceive ==
  ASSUME TypeOK, NEW p \in Plugin,
         \/ ReadReplies(p)
         \/ ReadEOF(p)
         \/ ReplyDone(p)
         \/ ReplySeek(p)
         \/ MetaIgnored(p)
         \/ \E abort \in BOOLEAN : MetaDelivered(p, abort)
  PROVE  TypeOK'
<1>1. CASE ReadReplies(p)
  <2>1. batch' \in Nat
    BY <1>1, LenProperties, PipeTypes DEF ReadReplies
  <2> QED
    BY <1>1, <2>1 DEF ReadReplies, TypeOK, listVars, procVars, pipeVars
<1>2. ASSUME NextChannel(p), lib = "read"
      PROVE  lib' \in {"read", "serve"} /\ fdset' \in SUBSET Plugin
  BY <1>2 DEF NextChannel, TypeOK
<1>3. CASE ReadEOF(p)
  BY <1>2, <1>3, DestroyType DEF ReadEOF, Reading, TypeOK
<1>4. ASSUME Consume(p), outp[p] # <<>>
      PROVE  outp' \in [Plugin -> Seq(ToLibrary)]
  BY <1>4, PipeTypes DEF Consume, TypeOK
<1>5. ASSUME NextReply(p), batch > 0, lib = "read"
      PROVE  /\ lib' \in {"read", "serve"}
             /\ fdset' \in SUBSET Plugin
             /\ batch' \in Nat
  BY <1>2, <1>5 DEF NextReply, TypeOK
<1>6. CASE ReplyDone(p)
  <2>1. roundFinished' \in [Plugin -> BOOLEAN] /\ seekRequest' \in [Plugin -> Nat \cup {NoSeek}]
    BY <1>6 DEF ReplyDone, Finish, ClearSeek, TypeOK
  <2> QED
    BY <1>4, <1>5, <1>6, <2>1 DEF ReplyDone, Reply, Reading, TypeOK, procVars
<1>7. CASE ReplySeek(p)
  <2>1. Head(outp[p]) \in ToLibrary
    BY <1>7, PipeTypes DEF ReplySeek, Reply
  <2>2. /\ seekRequest' \in [Plugin -> Nat \cup {NoSeek}]
        /\ seekWhence' \in [Plugin -> Whences]
    BY <1>7, <2>1 DEF ReplySeek, TypeOK, ToLibrary
  <2> QED
    BY <1>4, <1>5, <1>7, <2>2 DEF ReplySeek, Reply, Reading, TypeOK, procVars
<1>8. CASE MetaIgnored(p)
  BY <1>4, <1>5, <1>8 DEF MetaIgnored, Reply, Reading, TypeOK, listVars, procVars
<1>9. ASSUME NEW abort \in BOOLEAN, MetaDelivered(p, abort)
      PROVE  TypeOK'
  <2>1. Reply(p, "META") /\ lib = "read" /\ outp[p] # <<>> /\ batch > 0
    BY <1>9 DEF MetaDelivered, Reply, Reading
  <2>2. callback' \in [from : Nat, during : Nat, aborted : Nat, late : BOOLEAN]
    <3>1. Head(outp[p]) \in ToLibrary
      BY <2>1, PipeTypes
    <3> QED BY <1>9, <3>1 DEF MetaDelivered, CallBack, TypeOK, ToLibrary
  <2>3. fileFinished' \in BOOLEAN
    BY <1>9 DEF MetaDelivered, RecordAbort
  <2>4. CASE Alive(p)
    <3>1. Append(inp[p], IF abort THEN DiscardMsg ELSE ContinueMsg) \in Seq(ToPlugin)
      BY PipeTypes, MessageTypes, AppendProperties
    <3>2. inp' \in [Plugin -> Seq(ToPlugin)]
      BY <1>9, <2>4, <3>1 DEF MetaDelivered, TypeOK
    <3>3. Consume(p) /\ NextReply(p)
      BY <1>9, <2>4 DEF MetaDelivered
    <3> QED
      BY <1>4, <1>5, <1>9, <2>1, <2>2, <2>3, <2>4, <3>2, <3>3
      DEF MetaDelivered, TypeOK
  <2>5. CASE ~Alive(p)
    <3>1. Destroy({p}) /\ Finish({p}) /\ AfterFree(p) /\ batch' = 0 /\ NextChannel(p)
      BY <1>9, <2>5 DEF MetaDelivered
    <3>2. PICK i \in 1 .. Len(outp[p]) :
            /\ seekRequest' = [seekRequest EXCEPT ![p] =
                                 CASE outp[p][i].op = "SEEK" -> outp[p][i].off
                                   [] outp[p][i].op = "DONE" -> NoSeek
                                   [] OTHER                  -> @]
            /\ seekWhence' = [seekWhence EXCEPT ![p] =
                                IF outp[p][i].op = "SEEK" THEN outp[p][i].whence ELSE @]
      BY <3>1 DEF AfterFree
    <3>3. outp[p][i] \in ToLibrary
      BY PipeTypes, ElementOfSeq
    <3>4. /\ seekRequest' \in [Plugin -> Nat \cup {NoSeek}]
          /\ seekWhence' \in [Plugin -> Whences]
      BY <3>2, <3>3 DEF TypeOK, ToLibrary
    <3>5. roundFinished' \in [Plugin -> BOOLEAN]
      BY <3>1 DEF Finish, TypeOK
    <3> QED
      BY <1>2, <1>9, <2>1, <2>2, <2>3, <3>1, <3>4, <3>5, DestroyType
      DEF MetaDelivered, TypeOK
  <2> QED BY <2>4, <2>5
<1> QED BY <1>1, <1>3, <1>6, <1>7, <1>8, <1>9

\* The passes over the plugin list and the moves of the window do.
LEMMA TypeServe ==
  ASSUME TypeOK,
         \/ ServeNone
         \/ \E m \in Plugin, end \in {-1, FileSize} :
              ServeSeek(m, end) \/ ServeAbort(m, end) \/ FullReset(m, end)
  PROVE  TypeOK'
<1>1. ASSUME ConvertWhence PROVE seekWhence' \in [Plugin -> Whences]
  BY <1>1 DEF ConvertWhence, TypeOK, Whences
<1>2. ASSUME NEW S, Finish(S) PROVE roundFinished' \in [Plugin -> BOOLEAN]
  BY <1>2 DEF Finish, TypeOK
<1>3. ASSUME NEW S, NEW end \in {-1, FileSize},
             seekRequest' = [p \in Plugin |-> IF p \in S THEN NoSeek
                                              ELSE Resolved(p, end)]
      PROVE  seekRequest' \in [Plugin -> Nat \cup {NoSeek}]
  BY <1>3, ResolvedType
<1>4. ASSUME Leave \/ Stay
      PROVE  /\ lib' \in {"idle", "inproc", "select"}
             /\ todo' \in SUBSET InProcess
             /\ ctxFinished' \in BOOLEAN
             /\ budget' \in [Plugin -> Nat]
  <2>1. CASE Leave
    <3>1. budget' \in [Plugin -> Nat]
      BY <2>1, ConstantAssumption DEF Leave, TypeOK
    <3> QED BY <2>1, <3>1 DEF Leave
  <2>2. CASE Stay
    BY <2>2 DEF Stay, TypeOK
  <2> QED BY <1>4, <2>1, <2>2
<1>5. DiscardMsg \in ToPlugin
  BY MessageTypes
<1>6. \A end : SizeKnownThen(end) \in BOOLEAN
  BY DEF SizeKnownThen, TypeOK
<1>7. CASE ServeNone
  <2>1. PICK end \in {-1, FileSize} :
          /\ sizeKnown' = SizeKnownThen(end)
          /\ seekRequest' = [p \in Plugin |-> IF p \in Discarded THEN NoSeek
                                              ELSE Resolved(p, end)]
    BY <1>7 DEF ServeNone
  <2>2. seekRequest' \in [Plugin -> Nat \cup {NoSeek}] /\ sizeKnown' \in BOOLEAN
    BY <1>3, <1>6, <2>1
  <2>3. ConvertWhence /\ Send(Discarded, DiscardMsg) /\ Finish(Discarded) /\ (Leave \/ Stay)
    BY <1>7 DEF ServeNone
  <2> QED
    BY <1>1, <1>2, <1>4, <1>5, <1>7, <2>2, <2>3, SendType DEF ServeNone, TypeOK
<1>8. ASSUME NEW m \in Plugin, NEW end \in {-1, FileSize}, MoveWindow(m, end)
      PROVE  /\ shm' \in Windows
             /\ sizeKnown' \in BOOLEAN
             /\ seekWhence' \in [Plugin -> Whences]
             /\ lib' \in {"idle", "inproc", "select"}
             /\ todo' \in SUBSET InProcess
             /\ ctxFinished' \in BOOLEAN
             /\ budget' \in [Plugin -> Nat]
             /\ UNCHANGED <<file, fileFinished, fdset, batch, callback, view, want>>
  <2>1. Resolved(m, end) \in Nat
    BY <1>8, ResolvedType DEF MoveWindow, IsMinSeek
  <2>2. shm' \in Windows /\ sizeKnown' \in BOOLEAN
    BY <1>6, <1>8, <2>1, ReadyShmType DEF MoveWindow, TypeOK
  <2> QED BY <1>1, <1>4, <1>8, <2>2 DEF MoveWindow
<1>9. ASSUME NEW m \in Plugin, NEW end \in {-1, FileSize}, ServeSeek(m, end)
      PROVE  TypeOK'
  <2> DEFINE moved == {p \in Plugin : channel[p] /\ InRange(p, end)}
  <2>1. /\ MoveWindow(m, end)
        /\ seekRequest' = [p \in Plugin |-> IF p \in moved THEN NoSeek
                                            ELSE Resolved(p, end)]
        /\ Send(moved, UpdatedMsg(shm', sizeKnown'))
        /\ Finish(Broken(moved))
    BY <1>9 DEF ServeSeek
  <2>2. UpdatedMsg(shm', sizeKnown') \in ToPlugin
    BY <1>8, <2>1, MessageTypes
  <2> HIDE DEF moved
  <2>3. seekRequest' \in [Plugin -> Nat \cup {NoSeek}]
    BY <1>3, <2>1
  <2>4. roundFinished' \in [Plugin -> BOOLEAN]
    BY <1>2, <2>1
  <2> QED
    BY <1>8, <2>1, <2>2, <2>3, <2>4, SendType DEF TypeOK
<1>10. ASSUME NEW m \in Plugin, NEW end \in {-1, FileSize}, ServeAbort(m, end)
       PROVE  TypeOK'
  <2>1. /\ MoveWindow(m, end)
        /\ seekRequest' = [p \in Plugin |-> IF p \in Discarded THEN NoSeek
                                            ELSE Resolved(p, end)]
        /\ Send(Discarded, DiscardMsg)
        /\ Finish(Discarded)
    BY <1>10 DEF ServeAbort
  <2>2. /\ seekRequest' \in [Plugin -> Nat \cup {NoSeek}]
        /\ roundFinished' \in [Plugin -> BOOLEAN]
    BY <1>2, <1>3, <2>1
  <2> QED
    BY <1>5, <1>8, <2>1, <2>2, SendType DEF TypeOK
<1>11. ASSUME NEW m \in Plugin, NEW end \in {-1, FileSize}, FullReset(m, end)
       PROVE  TypeOK'
  <2>1. seekRequest' \in [Plugin -> Nat \cup {NoSeek}]
    BY <1>11, ResolvedType DEF FullReset
  <2>2. sizeKnown' \in BOOLEAN
    BY <1>6, <1>11 DEF FullReset
  <2>3. ConvertWhence /\ Destroy(Plugin) /\ Leave
    BY <1>11 DEF FullReset
  <2> QED
    BY <1>1, <1>4, <1>11, <2>1, <2>2, <2>3, DestroyType DEF FullReset, TypeOK
<1> QED BY <1>7, <1>9, <1>10, <1>11

\* The steps of the in-process plugins do.
LEMMA TypeInProcess ==
  ASSUME TypeOK,
         \/ \E p \in Plugin, abort \in BOOLEAN : InProcessMeta(p, abort)
         \/ \E p \in Plugin : InProcessReturn(p)
         \/ InProcessUnreadable
  PROVE  TypeOK'
<1>1. ASSUME NEW p \in Plugin, NEW abort \in BOOLEAN, InProcessMeta(p, abort)
      PROVE  TypeOK'
  <2>1. budget' \in [Plugin -> Nat]
    BY SMTT(30), <1>1 DEF InProcessMeta, TypeOK
  <2>2. callback' \in [from : Nat, during : Nat, aborted : Nat, late : BOOLEAN]
    <3>1. UNCHANGED callback \/ CallBack(file, abort)
      BY <1>1 DEF InProcessMeta
    <3>2. CASE UNCHANGED callback
      BY <3>2 DEF TypeOK
    <3>3. CASE CallBack(file, abort)
      BY <3>3 DEF CallBack, TypeOK
    <3> QED BY <3>1, <3>2, <3>3
  <2> QED
    BY <1>1, <2>1, <2>2 DEF InProcessMeta, InProcVars, TypeOK, listVars, pipeVars
<1>2. ASSUME NEW p \in Plugin, InProcessReturn(p)
      PROVE  TypeOK'
  BY <1>2 DEF InProcessReturn, InProcVars, TypeOK, listVars, pipeVars
<1>3. CASE InProcessUnreadable
  BY <1>3 DEF InProcessUnreadable, InProcVars, TypeOK, listVars, pipeVars
<1> QED BY <1>1, <1>2, <1>3

\* And so does every step of the system.
LEMMA TypeNext ==
  ASSUME TypeOK, [Next]_vars
  PROVE  TypeOK'
<1>1. CASE ExtractCall
  BY <1>1, TypeStart, TypeUnreadable DEF ExtractCall
<1>2. CASE NothingToReceive
  BY <1>2 DEF NothingToReceive, TypeOK, listVars, procVars, pipeVars
<1>3. CASE Select
  BY <1>3 DEF Select, Listened, TypeOK, listVars, procVars, pipeVars
<1>4. CASE SelectTimeout
  <2>1. roundFinished' \in [Plugin -> BOOLEAN]
    BY <1>4 DEF SelectTimeout, Finish, TypeOK
  <2> QED
    BY <1>4, <2>1, DestroyType DEF SelectTimeout, TypeOK
<1>5. CASE LibraryStep
  BY <1>2, <1>3, <1>4, <1>5, TypeReceive, TypeServe, TypeInProcess DEF LibraryStep
<1>6. CASE \E p \in Plugin : PluginStep(p)
  BY <1>6, TypePlugin
<1>7. CASE UNCHANGED vars
  BY <1>7 DEF vars, libVars, listVars, procVars, pipeVars, TypeOK
<1> QED BY <1>1, <1>5, <1>6, <1>7 DEF Next

\* The state of library, plugins and pipes always has its type: in particular
\* no request is negative, whatever sizes and distances the plugins send.
THEOREM TypeCorrect == Spec => []TypeOK
<1>1. Init => TypeOK
  BY TypeInit
<1>2. TypeOK /\ [Next]_vars => TypeOK'
  BY TypeNext
<1> QED BY <1>1, <1>2, PTL DEF Spec

-----------------------------------------------------------------------------
(* What holds whatever clients, plugins and files do *)

\* A step of a plugin keeps its process, if only as one that waits to be
\* reaped, and leaves the library's side alone.
LEMMA PluginFrame ==
  ASSUME TypeOK, NEW p \in Plugin, PluginStep(p)
  PROVE  /\ UNCHANGED <<libVars, listVars, shm>>
         /\ Alive(p)
         /\ child'[p] # "none"
         /\ \A q \in Plugin \ {p} :
              /\ child'[q] = child[q] /\ view'[q] = view[q] /\ want'[q] = want[q]
              /\ inp'[q] = inp[q] /\ outp'[q] = outp[q]
<1> USE DEF Goes, MessageRead, OpcodeRead, Alive, TypeOK, ChildStates
<1>1. CASE HandleInit(p) \/ HandleStart(p) \/ HandleDiscard(p) \/ RejectRequest(p)
  BY <1>1 DEF HandleInit, HandleStart, HandleDiscard, RejectRequest, procVars
<1>2. CASE (\E w \in SeekArguments(p) : Seek(p, w)) \/ SeekAnswered(p) \/ SeekRefused(p)
  BY ZenonT(40), <1>2 DEF Seek, SeekAnswered, SeekRefused
<1>3. CASE SendMeta(p) \/ MetaAnswered(p)
  BY <1>3 DEF SendMeta, MetaAnswered
<1>4. CASE Done(p) \/ Exit(p)
  BY SMTT(30), <1>4 DEF Done, Exit
<1> QED BY <1>1, <1>2, <1>3, <1>4 DEF PluginStep

\* The steps of the library that leave channels and processes alone.
LEMMA ChannelFrame ==
  ASSUME TypeOK, LibraryStep
  PROVE  \/ UNCHANGED <<channel, child>>
         \/ \E S \in SUBSET Plugin : Without(S)
<1>1. \A S \in SUBSET Plugin : \A m : Send(S, m) => \E T \in SUBSET Plugin : Without(T)
  BY DEF Send, Broken
<1>2. \A S \in SUBSET Plugin : Destroy(S) => Without(S)
  BY DEF Destroy
<1>3. CASE SelectTimeout
  BY <1>2, <1>3 DEF SelectTimeout, Listened
<1>4. ASSUME NEW p \in Plugin, ReadEOF(p) \/ \E abort \in BOOLEAN : MetaDelivered(p, abort)
      PROVE  UNCHANGED <<channel, child>> \/ Without({p})
  BY <1>2, <1>4 DEF ReadEOF, MetaDelivered
<1>5. ASSUME NEW m \in Plugin, NEW end \in {-1, FileSize},
             ServeSeek(m, end) \/ ServeAbort(m, end) \/ FullReset(m, end)
      PROVE  \E S \in SUBSET Plugin : Without(S)
  BY <1>1, <1>2, <1>5 DEF ServeSeek, ServeAbort, FullReset, Discarded
<1>6. CASE ServeNone
  BY <1>1, <1>6 DEF ServeNone, Discarded
<1>7. CASE NothingToReceive \/ Select \/ InProcessUnreadable
  BY <1>7 DEF NothingToReceive, Select, InProcessUnreadable, InProcVars,
     listVars, procVars
<1>8. ASSUME NEW p \in Plugin,
             \/ ReadReplies(p) \/ ReplyDone(p) \/ ReplySeek(p) \/ MetaIgnored(p)
             \/ \E abort \in BOOLEAN : InProcessMeta(p, abort)
             \/ InProcessReturn(p)
      PROVE  UNCHANGED <<channel, child>>
  BY <1>8 DEF ReadReplies, ReplyDone, ReplySeek, MetaIgnored, InProcessMeta,
     InProcessReturn, InProcVars, listVars, procVars
<1> QED BY <1>3, <1>4, <1>5, <1>6, <1>7, <1>8 DEF LibraryStep

\* No process outlives its channel (EXTRACTOR_IPC_channel_destroy_ reaps it)
\* and no channel its process, also across failed sends, timeouts, full resets
\* and restarts.
THEOREM NoOrphansEver == Spec => []NoOrphans
<1>1. Init => NoOrphans
  BY DEF Init, NoOrphans
<1>2. ASSUME TypeOK, NoOrphans, [Next]_vars
      PROVE  NoOrphans'
  <2>1. CASE ExtractCall
    <3>1. PICK new \in SUBSET {p \in OutOfProcess : ~channel[p]} :
            ExtractStart(new) \/ ExtractUnreadable(new)
      BY <2>1 DEF ExtractCall
    <3>2. CASE ExtractStart(new)
      <4> SUFFICES ASSUME NEW p \in Plugin
                   PROVE  channel'[p] <=> child'[p] # "none"
        BY DEF NoOrphans
      <4>1. /\ channel'[p] <=> p \in new \/ (channel[p] /\ Alive(p))
            /\ child'[p] = IF p \in new THEN "new"
                           ELSE IF channel[p] /\ ~Alive(p) THEN "none"
                           ELSE child[p]
        BY <3>2 DEF ExtractStart, Broken
      <4> QED BY <1>2, <4>1 DEF NoOrphans
    <3>3. CASE ExtractUnreadable(new)
      BY <1>2, <3>3 DEF ExtractUnreadable, NoOrphans
    <3> QED BY <3>1, <3>2, <3>3
  <2>2. CASE LibraryStep
    <3>1. CASE UNCHANGED <<channel, child>>
      BY <1>2, <3>1 DEF NoOrphans
    <3>2. ASSUME NEW S, Without(S)
          PROVE  NoOrphans'
      BY <1>2, <3>2 DEF Without, NoOrphans
    <3> QED BY <1>2, <2>2, <3>1, <3>2, ChannelFrame
  <2>3. ASSUME NEW p \in Plugin, PluginStep(p)
        PROVE  NoOrphans'
    BY <1>2, <2>3, PluginFrame DEF NoOrphans, Alive, listVars
  <2>4. CASE UNCHANGED vars
    BY <1>2, <2>4 DEF NoOrphans, vars, listVars, procVars
  <2> QED BY <1>2, <2>1, <2>2, <2>3, <2>4 DEF Next
<1> QED BY <1>1, <1>2, TypeCorrect, PTL DEF Spec

\* The library writes the segment only when it readies a file's first window
\* or moves the window for its plugins.
LEMMA ShmFrame ==
  ASSUME TypeOK, [Next]_vars, file' = file
  PROVE  \/ UNCHANGED shm
         \/ \E m \in Plugin, end \in {-1, FileSize} :
              ServeSeek(m, end) \/ ServeAbort(m, end)
<1>1. ~ExtractCall
  BY DEF ExtractCall, ExtractStart, ExtractUnreadable, TypeOK
<1>2. ASSUME NothingToReceive \/ Select \/ SelectTimeout \/ ServeNone \/ InProcessUnreadable
      PROVE  UNCHANGED shm
  BY <1>2 DEF NothingToReceive, Select, SelectTimeout, ServeNone,
     InProcessUnreadable, InProcVars
<1>3. ASSUME NEW p \in Plugin,
             \/ ReadReplies(p) \/ ReadEOF(p) \/ ReplyDone(p) \/ ReplySeek(p)
             \/ MetaIgnored(p) \/ \E abort \in BOOLEAN : MetaDelivered(p, abort)
             \/ \E abort \in BOOLEAN : InProcessMeta(p, abort)
             \/ InProcessReturn(p)
             \/ \E end \in {-1, FileSize} : FullReset(p, end)
      PROVE  UNCHANGED shm
  BY <1>3 DEF ReadReplies, ReadEOF, ReplyDone, ReplySeek, MetaIgnored,
     MetaDelivered, InProcessMeta, InProcessReturn, FullReset, InProcVars
<1>4. ASSUME NEW p \in Plugin, PluginStep(p)
      PROVE  UNCHANGED shm
  BY <1>4, PluginFrame
<1>5. CASE UNCHANGED vars
  BY <1>5 DEF vars
<1> QED BY <1>1, <1>2, <1>3, <1>4, <1>5 DEF Next, LibraryStep

\* The window moved to offset off satisfies the request for off, whose plugin
\* is therefore answered (or, after an abort, discarded).
LEMMA MoveServes ==
  ASSUME TypeOK, NEW m \in Plugin, NEW end \in {-1, FileSize},
         ServeSeek(m, end) \/ ServeAbort(m, end)
  PROVE  seekRequest[m] # NoSeek /\ seekRequest'[m] = NoSeek
<1> DEFINE req == Resolved(m, end)
<1>1. MoveWindow(m, end)
  BY DEF ServeSeek, ServeAbort
<1>2. m \in Visited /\ ReadyShm(file, req, SizeKnownThen(end))
  BY <1>1 DEF MoveWindow, IsMinSeek
<1>3. channel[m] /\ seekRequest[m] # NoSeek /\ req \in Nat
  BY <1>2, VisitedSeek, ResolvedType DEF NoSeek
<1>4. CASE ServeSeek(m, end)
  <2>1. /\ req <= FileSize
        /\ shm'.off = req
        /\ shm'.len = IF req + ShmSize <= FileSize THEN ShmSize ELSE FileSize - req
        /\ req + ShmSize > FileSize => sizeKnown'
    BY <1>2 DEF ReadyShm, WindowAt
  <2>2. req # NoSeek
    BY <1>3 DEF NoSeek
  <2>3. shm'.off + shm'.len > req \/ (sizeKnown' /\ shm'.off = FileSize)
    BY <1>3, <2>1, ConstantAssumption
  <2>4. InRange(m, end)
    BY <1>3, <2>1, <2>2, <2>3 DEF InRange
  <2> QED BY <1>3, <1>4, <2>4 DEF ServeSeek
<1>5. CASE ServeAbort(m, end)
  BY <1>3, <1>5 DEF ServeAbort, Discarded
<1> QED BY <1>4, <1>5

\* The segment is never overwritten in vain, for any size of file and segment
\* and any set of requests: each move answers the request it was made for.
THEOREM MovesAlwaysServe == Spec => MovesServe
<1>1. ASSUME TypeOK, [Next]_vars
      PROVE  file' = file /\ shm' # shm =>
               \E p \in Plugin : seekRequest[p] # NoSeek /\ seekRequest'[p] = NoSeek
  BY <1>1, ShmFrame, MoveServes
<1> QED BY <1>1, TypeCorrect, PTL DEF Spec, MovesServe

-----------------------------------------------------------------------------
(* Aborts *)

\* What makes an abort final: it is recorded until the next file, and while it
\* is, no handler gets to the callback.
AbortRecorded ==
  /\ ~callback.late
  /\ callback.aborted <= file
  /\ lib # "inproc"
  /\ lib # "idle" => file > 0
  /\ file > 0 /\ callback.aborted = file => fileFinished

\* The steps that neither call back nor go on to another file.
LEMMA AbortFrame ==
  ASSUME TypeOK, AbortRecorded, lib' # "inproc", lib' # "idle" => lib # "idle",
         UNCHANGED <<file, fileFinished, callback>>
  PROVE  AbortRecorded'
  BY DEF AbortRecorded

\* Without in-process plugins the callback is never called again for a file for
\* which it has returned 1, however many plugins' items are under way.
THEOREM AbortIsFinal == InProcess = {} => (Spec => []NoCallbackAfterAbort)
<1> SUFFICES ASSUME InProcess = {} PROVE Spec => []NoCallbackAfterAbort
  OBVIOUS
<1>1. Init => AbortRecorded
  BY DEF Init, AbortRecorded
<1>2. ASSUME TypeOK, AbortRecorded, [Next]_vars
      PROVE  AbortRecorded'
  <2> USE <1>2
  <2>1. CASE ExtractCall
    <3>1. PICK new \in SUBSET {p \in OutOfProcess : ~channel[p]} :
            ExtractStart(new) \/ ExtractUnreadable(new)
      BY <2>1 DEF ExtractCall
    <3>2. file' = file + 1 /\ callback' = callback /\ lib' # "inproc"
      BY <3>1 DEF ExtractStart, ExtractUnreadable, AbortRecorded
    <3> QED BY <3>2 DEF AbortRecorded, TypeOK
  <2>2. CASE NothingToReceive \/ Select \/ SelectTimeout
    BY <2>2, AbortFrame DEF NothingToReceive, Select, SelectTimeout
  <2>3. CASE ServeNone
    BY <2>3, AbortFrame DEF ServeNone, Leave, Stay
  <2>4. ASSUME NEW m \in Plugin, NEW end \in {-1, FileSize},
               ServeSeek(m, end) \/ ServeAbort(m, end) \/ FullReset(m, end)
        PROVE  AbortRecorded'
    BY <2>4, AbortFrame
    DEF ServeSeek, ServeAbort, MoveWindow, FullReset, Leave, Stay
  <2>5. ASSUME NEW p \in Plugin,
               \/ ReadReplies(p) \/ ReadEOF(p) \/ ReplyDone(p) \/ ReplySeek(p)
               \/ MetaIgnored(p)
        PROVE  AbortRecorded'
    BY <2>5, AbortFrame
    DEF ReadReplies, ReadEOF, ReplyDone, ReplySeek, MetaIgnored, Reply, Reading,
        NextReply, NextChannel
  <2>6. ASSUME NEW p \in Plugin, NEW abort \in BOOLEAN, MetaDelivered(p, abort)
        PROVE  AbortRecorded'
    <3>1. lib = "read" /\ ~fileFinished /\ file' = file /\ fileFinished' = abort
      BY <2>6 DEF MetaDelivered, Reply, Reading, RecordAbort
    <3>2. file > 0 /\ callback.aborted # file
      BY <3>1 DEF AbortRecorded
    <3>3. lib' \in {"read", "serve"}
      BY <2>6, <3>1 DEF MetaDelivered, NextReply, NextChannel
    <3>4. /\ callback'.aborted = IF abort THEN file ELSE callback.aborted
          /\ callback'.late = FALSE
      BY <2>6, <3>2 DEF MetaDelivered, CallBack
    <3> QED BY <3>1, <3>2, <3>3, <3>4 DEF AbortRecorded, TypeOK
  <2>7. ~InProcessUnreadable /\ \A p \in Plugin :
          ~InProcessReturn(p) /\ \A abort \in BOOLEAN : ~InProcessMeta(p, abort)
    BY DEF InProcessUnreadable, InProcessReturn, InProcessMeta, AbortRecorded
  <2>8. CASE LibraryStep
    BY <2>2, <2>3, <2>4, <2>5, <2>6, <2>7, <2>8 DEF LibraryStep
  <2>9. ASSUME NEW p \in Plugin, PluginStep(p)
        PROVE  AbortRecorded'
    BY <2>9, PluginFrame, AbortFrame DEF libVars, AbortRecorded
  <2>10. CASE UNCHANGED vars
    BY <2>10, AbortFrame DEF vars, libVars, AbortRecorded
  <2> QED BY <2>1, <2>8, <2>9, <2>10 DEF Next
<1>3. AbortRecorded => NoCallbackAfterAbort
  BY DEF AbortRecorded, NoCallbackAfterAbort
<1> QED BY <1>1, <1>2, <1>3, TypeCorrect, PTL DEF Spec

-----------------------------------------------------------------------------
(***************************************************************************)
(* The conversation between the library and its plugins keeps to its       *)
(* phases when no client aborts and the data source does not fail: the     *)
(* inductive invariant Handshake, and what follows from it.                *)
(***************************************************************************)

EngagedIn == {"select", "read", "serve"}

\* All that Phase(p) speaks of except the file, its window and lib.
Same(p) ==
  /\ channel'[p] = channel[p]
  /\ seekRequest'[p] = seekRequest[p]
  /\ seekWhence'[p] = seekWhence[p]
  /\ roundFinished'[p] = roundFinished[p]
  /\ child'[p] = child[p]
  /\ view'[p] = view[p]
  /\ want'[p] = want[p]
  /\ inp'[p] = inp[p]
  /\ outp'[p] = outp[p]

\* A plugin that a step does not touch stays in its phase.
LEMMA PhaseFrame ==
  ASSUME NEW p \in Plugin, Phase(p), Same(p), UNCHANGED <<file, shm>>,
         lib \in EngagedIn => lib' \in EngagedIn,
         lib = "idle" => lib' = "idle"
  PROVE  Phase(p)'
<1> USE DEF Same, EngagedIn, Quiet, Engaged, Listening
<1>1. CASE Absent(p)
  BY <1>1 DEF Absent, Phase
<1>2. CASE Resting(p)
  BY <1>2 DEF Resting, Phase
<1>3. CASE Starting(p)
  BY <1>3 DEF Starting, Phase
<1>4. CASE Extracting(p)
  BY <1>4 DEF Extracting, Phase
<1>5. CASE Reporting(p)
  BY <1>5 DEF Reporting, Phase
<1>6. CASE Seeking(p)
  BY <1>6 DEF Seeking, Phase, Noted
<1>7. CASE Finishing(p)
  BY <1>7 DEF Finishing, Phase
<1>8. CASE Dead(p)
  BY <1>8 DEF Dead, Phase
<1> QED BY <1>1, <1>2, <1>3, <1>4, <1>5, <1>6, <1>7, <1>8 DEF Phase

\* A plugin the library is not engaged with is absent, resting, or dead with
\* nothing left to read.
LEMMA PhaseIdle ==
  ASSUME NEW p \in Plugin, Phase(p), ~Engaged(p)
  PROVE  /\ Quiet(p)
         /\ seekRequest[p] = NoSeek
         /\ Absent(p) \/ Resting(p) \/ (child[p] = "dead" /\ channel[p])
  BY DEF Phase, Absent, Resting, Starting, Extracting, Reporting, Seeking,
     Finishing, Dead, Listening, Quiet

\* Only a plugin that starts or waits for an answer has something to read, and
\* it is what it waits for.
LEMMA PhaseInput ==
  ASSUME NEW p \in Plugin, Phase(p), inp[p] # <<>>
  PROVE  /\ Listening(p)
         /\ outp[p] = <<>>
         /\ \/ Starting(p)
            \/ child[p] = "meta" /\ view[p].win = shm /\ inp[p] = <<ContinueMsg>>
            \/ /\ child[p] = "seek"
               /\ Shows(shm, Target(want[p]))
               /\ \E k \in BOOLEAN : inp[p] = <<UpdatedMsg(shm, k)>>
  BY DEF Phase, Absent, Resting, Starting, Extracting, Reporting, Seeking,
     Finishing, Dead, Quiet

\* A plugin's output is a single message, from one that is listened to.
LEMMA PhaseOutput ==
  ASSUME NEW p \in Plugin, Phase(p), outp[p] # <<>>
  PROVE  /\ Listening(p)
         /\ inp[p] = <<>>
         /\ \/ outp[p] = <<DoneMsg>> /\ child[p] \in {"loop", "dead"}
            \/ outp[p] = <<MetaMsg(file)>> /\ child[p] = "dead"
            \/ /\ outp[p] = <<MetaMsg(file)>>
               /\ child[p] = "meta"
               /\ view[p].win = shm
            \/ /\ child[p] = "dead"
               /\ \E o \in 0 .. FileSize, wh \in Whences : outp[p] = <<SeekMsg(o, wh)>>
            \/ /\ child[p] = "seek"
               /\ want[p].off <= FileSize
               /\ outp[p] = <<SeekMsg(want[p].off, want[p].whence)>>
  BY DEF Phase, Absent, Resting, Starting, Extracting, Reporting, Seeking,
     Finishing, Dead, Quiet

\* The opcodes, and what reading and writing single messages does.
LEMMA Opcodes ==
  /\ InitMsg.op = "INIT_STATE"
  /\ ContinueMsg.op = "CONTINUE_EXTRACTING"
  /\ \A w, k : /\ StartMsg(w, k).op = "EXTRACT_START"
               /\ StartMsg(w, k).win = w
               /\ UpdatedMsg(w, k).op = "UPDATED_SHM"
               /\ UpdatedMsg(w, k).win = w
  /\ DoneMsg.op = "DONE"
  /\ \A f : MetaMsg(f).op = "META" /\ MetaMsg(f).file = f
  /\ \A o, wh : /\ SeekMsg(o, wh).op = "SEEK"
                /\ SeekMsg(o, wh).off = o
                /\ SeekMsg(o, wh).whence = wh
  BY DEF InitMsg, ContinueMsg, StartMsg, UpdatedMsg, DoneMsg, MetaMsg, SeekMsg

LEMMA Singleton ==
  ASSUME NEW S, NEW m \in S
  PROVE  /\ <<m>> # <<>>
         /\ Head(<<m>>) = m
         /\ Tail(<<m>>) = <<>>
         /\ Append(<<>>, m) = <<m>>
         /\ Len(<<m>>) = 1
         /\ <<m>>[1] = m
         /\ \A n \in S : Head(<<m, n>>) = m /\ Tail(<<m, n>>) = <<n>> /\ <<m, n>> # <<>>
  OBVIOUS

-----------------------------------------------------------------------------
(* Steps of the plugin processes *)

\* A plugin that takes a step goes from one phase of its conversation to the
\* next; the branches for unexpected messages are never taken.
LEMMA PluginPhase ==
  ASSUME TypeOK, Orderly, Handshake, NEW p \in Plugin, PluginStep(p)
  PROVE  Phase(p)'
<1> USE DEF Quiet, Engaged, Listening
<1>1. /\ UNCHANGED <<lib, file, shm, channel, seekRequest, seekWhence, roundFinished>>
      /\ Alive(p)
  BY PluginFrame DEF libVars, listVars
<1>2. Phase(p) /\ shm.file = file
  BY DEF Handshake, Bookkeeping
<1>3. inp[p] \in Seq(ToPlugin) /\ outp[p] \in Seq(ToLibrary)
  BY PipeTypes
<1>4. \A m, n \in ToPlugin :
        /\ Head(<<m>>) = m /\ Tail(<<m>>) = <<>>
        /\ Head(<<m, n>>) = m /\ Tail(<<m, n>>) = <<n>>
  <2> TAKE m, n \in ToPlugin
  <2>1. Head(<<m>>) = m /\ Tail(<<m>>) = <<>>
    OBVIOUS
  <2>2. Head(<<m, n>>) = m /\ Tail(<<m, n>>) = <<n>>
    OBVIOUS
  <2> QED BY <2>1, <2>2
<1>5. shm \in Windows
  BY DEF TypeOK
<1>6. \A k \in BOOLEAN : StartMsg(shm, k) \in ToPlugin /\ UpdatedMsg(shm, k) \in ToPlugin
  BY <1>5, MessageTypes
<1>7. InitMsg \in ToPlugin /\ ContinueMsg \in ToPlugin
  BY MessageTypes
\* What the plugin may find in its pipe, by its state.
<1>8. ASSUME inp[p] # <<>>
      PROVE  /\ Listening(p)
             /\ outp[p] = <<>>
             /\ \/ /\ child[p] = "new" 
                   /\ \E k \in BOOLEAN : inp[p] = <<InitMsg, StartMsg(shm, k)>>
                   /\ Head(inp[p]).op = "INIT_STATE"
                \/ /\ child[p] = "loop"
                   /\ \E k \in BOOLEAN : inp[p] = <<StartMsg(shm, k)>>
                   /\ Head(inp[p]).op = "EXTRACT_START"
                \/ /\ child[p] = "meta"
                   /\ view[p].win = shm
                   /\ inp[p] = <<ContinueMsg>>
                   /\ Head(inp[p]).op = "CONTINUE_EXTRACTING"
                \/ /\ child[p] = "seek"
                   /\ \E k \in BOOLEAN : inp[p] = <<UpdatedMsg(shm, k)>>
                   /\ Head(inp[p]).op = "UPDATED_SHM"
  BY <1>2, <1>4, <1>6, <1>7, <1>8, PhaseInput, Opcodes DEF Starting
<1>9. CASE HandleInit(p)
  <2>1. PICK k \in BOOLEAN : inp[p] = <<InitMsg, StartMsg(shm, k)>>
    BY <1>8, <1>9 DEF HandleInit, Receives, Goes
  <2>2. Tail(inp[p]) = <<StartMsg(shm, k)>>
    BY <1>4, <1>6, <1>7, <2>1
  <2>3. child'[p] = "loop" /\ inp'[p] = <<StartMsg(shm, k)>> /\ outp'[p] = <<>>
    BY <1>8, <1>9, <2>2 DEF HandleInit, Receives, Goes, MessageRead, TypeOK
  <2>4. Listening(p)
    BY <1>8, <1>9 DEF HandleInit, Receives
  <2> QED BY <1>1, <2>3, <2>4 DEF Starting, Phase
<1>10. ASSUME HandleStart(p) \/ SeekAnswered(p)
       PROVE  Phase(p)'
  <2>1. inp[p] # <<>> /\ child[p] \in {"loop", "seek"}
    BY <1>10 DEF HandleStart, SeekAnswered, Receives, Goes
  <2>2. PICK m \in ToPlugin : inp[p] = <<m>> /\ m.win = shm
    <3>1. PICK k \in BOOLEAN : inp[p] = <<StartMsg(shm, k)>> \/ inp[p] = <<UpdatedMsg(shm, k)>>
      BY <1>8, <2>1
    <3> QED BY <1>6, <3>1, Opcodes
  <2>3. /\ child'[p] = "run"
        /\ inp'[p] = <<>>
        /\ outp'[p] = <<>>
        /\ view'[p].win = shm
    BY <1>4, <1>8, <1>10, <2>1, <2>2
    DEF HandleStart, SeekAnswered, Receives, Goes, MessageRead, TypeOK
  <2>4. Listening(p)
    BY <1>8, <1>10 DEF HandleStart, SeekAnswered, Receives
  <2> QED BY <1>1, <2>3, <2>4 DEF Extracting, Phase
<1>11. ~HandleDiscard(p) /\ ~RejectRequest(p) /\ ~SeekRefused(p)
  BY <1>8 DEF HandleDiscard, RejectRequest, SeekRefused, Receives, Goes, ToPluginOps
<1>12. ASSUME child[p] = "run" PROVE Extracting(p)
  BY <1>2, <1>12 DEF Phase, Absent, Resting, Starting, Reporting, Seeking,
     Finishing, Dead
<1>13. ASSUME NEW w \in SeekArguments(p), Seek(p, w)
       PROVE  Phase(p)'
  <2>1. w.off \in 0 .. FileSize /\ w.whence \in Whences
    BY ConstantAssumption DEF SeekArguments, Orderly, Whences
  <2>2. SeekMsg(w.off, w.whence) \in ToLibrary
    BY <2>1, MessageTypes
  <2>3. Extracting(p)
    BY <1>12, <1>13 DEF Seek, Goes
  <2>4. Append(outp[p], SeekMsg(w.off, w.whence)) = <<SeekMsg(w.off, w.whence)>>
    BY <2>2, <2>3, Singleton DEF Extracting
  <2>5. /\ child'[p] = "seek"
        /\ want'[p] = w
        /\ inp'[p] = <<>>
        /\ outp'[p] = <<SeekMsg(w.off, w.whence)>>
    BY <1>13, <2>3, <2>4 DEF Seek, Goes, TypeOK, Extracting
  <2> QED BY <1>1, <2>1, <2>3, <2>5 DEF Extracting, Seeking, Phase
<1>14. CASE SendMeta(p)
  <2>1. Extracting(p)
    BY <1>12, <1>14 DEF SendMeta, Goes
  <2>2. MetaMsg(file) \in ToLibrary
    BY MessageTypes DEF TypeOK
  <2>3. Append(outp[p], MetaMsg(view[p].win.file)) = <<MetaMsg(file)>>
    BY <1>2, <2>1, <2>2, Singleton DEF Extracting
  <2>4. /\ child'[p] = "meta"
        /\ view'[p].win = shm
        /\ inp'[p] = <<>>
        /\ outp'[p] = <<MetaMsg(file)>>
    BY <1>14, <2>1, <2>3 DEF SendMeta, Goes, TypeOK, Extracting
  <2> QED BY <1>1, <2>1, <2>4 DEF Extracting, Reporting, Phase
<1>15. CASE MetaAnswered(p)
  <2>1. inp[p] # <<>> /\ child[p] = "meta"
    BY <1>15 DEF MetaAnswered, Receives, Goes
  <2>2. inp[p] = <<ContinueMsg>> /\ outp[p] = <<>> /\ Listening(p) /\ view[p].win = shm
    BY <1>8, <2>1
  <2>3. RestOf(Head(inp[p])) \o Tail(inp[p]) = <<>>
    <3>1. RestOf(Head(inp[p])) = <<>> /\ Tail(inp[p]) = <<>>
      BY <1>4, <1>7, <2>2, Opcodes DEF RestOf
    <3> QED BY <3>1, ConcatEmptySeq, EmptySeq
  <2>4. /\ child'[p] = "run"
        /\ inp'[p] = <<>>
        /\ outp'[p] = <<>>
        /\ view'[p].win = shm
    BY <1>15, <2>2, <2>3 DEF MetaAnswered, Goes, OpcodeRead, TypeOK
  <2> QED BY <1>1, <2>2, <2>4 DEF Extracting, Phase
<1>16. CASE Done(p)
  <2>1. Extracting(p)
    BY <1>12, <1>16 DEF Done, Goes
  <2>2. Append(outp[p], DoneMsg) = <<DoneMsg>>
    BY <2>1, MessageTypes, Singleton DEF Extracting
  <2>3. /\ child'[p] \in {"loop", "dead"}
        /\ inp'[p] = <<>>
        /\ outp'[p] = <<DoneMsg>>
    BY <1>16, <2>1, <2>2 DEF Done, Goes, TypeOK, Extracting
  <2> QED BY <1>1, <2>1, <2>3 DEF Extracting, Finishing, Dead, Phase
<1>17. CASE Exit(p)
  <2>1. child'[p] = "dead" /\ inp'[p] = <<>> /\ outp'[p] = outp[p]
    BY <1>17 DEF Exit, TypeOK
  <2>2. channel[p]
    BY <1>1, <1>2 DEF Alive, Phase, Absent, Resting, Starting, Extracting,
       Reporting, Seeking, Finishing, Dead
  <2>3. CASE outp[p] = <<>>
    <3>1. Engaged(p) \/ seekRequest[p] = NoSeek
      BY <1>2, PhaseIdle
    <3> QED BY <1>1, <2>1, <2>2, <2>3, <3>1 DEF Dead, Phase
  <2>4. CASE outp[p] # <<>>
    <3>1. want[p].off \in Nat /\ want[p].whence \in Whences
      BY DEF TypeOK
    <3>2. /\ Listening(p)
          /\ \/ outp[p] = <<DoneMsg>>
             \/ outp[p] = <<MetaMsg(file)>>
             \/ \E o \in 0 .. FileSize, wh \in Whences : outp[p] = <<SeekMsg(o, wh)>>
      BY <1>2, <2>4, <3>1, PhaseOutput, ConstantAssumption
    <3> QED BY <1>1, <2>1, <2>2, <3>2 DEF Dead, Phase
  <2> QED BY <2>3, <2>4
<1> QED
  BY <1>9, <1>10, <1>11, <1>13, <1>14, <1>15, <1>16, <1>17 DEF PluginStep

\* A plugin's step disturbs neither the others nor what the library has noted.
LEMMA HandshakePlugin ==
  ASSUME TypeOK, Orderly, Handshake, NEW p \in Plugin, PluginStep(p)
  PROVE  Handshake'
<1>1. /\ UNCHANGED <<libVars, listVars, shm>>
      /\ Alive(p)
      /\ \A q \in Plugin \ {p} : Same(q)
  BY PluginFrame DEF Same, listVars
<1>2. \A q \in Plugin \ {p} : Phase(q)'
  BY <1>1, PhaseFrame DEF Handshake, libVars
<1>3. outp[p] # <<>> => outp'[p] # <<>>
  <2>1. \A m \in ToLibrary : Append(outp[p], m) # <<>>
    BY PipeTypes, AppendProperties
  <2>2. /\ DoneMsg \in ToLibrary
        /\ MetaMsg(view[p].win.file) \in ToLibrary
        /\ \A w \in SeekArguments(p) : SeekMsg(w.off, w.whence) \in ToLibrary
    BY SMTT(30), MessageTypes, ConstantAssumption DEF TypeOK, Windows, SeekArguments, Whences
  <2>3. \/ outp' = outp
        \/ \E m \in ToLibrary : outp' = [outp EXCEPT ![p] = Append(@, m)]
    BY <2>2 DEF PluginStep, HandleInit, HandleStart, HandleDiscard,
       RejectRequest, Seek, SeekAnswered, SeekRefused, SendMeta, MetaAnswered,
       Done, Exit
  <2> QED BY <2>1, <2>3 DEF TypeOK
<1>4. \A q \in fdset : Readable(q)'
  BY SMTT(30), <1>1, <1>3 DEF Handshake, Bookkeeping, Readable, Alive, Same, TypeOK
<1>5. Bookkeeping'
  BY <1>1, <1>4 DEF Handshake, Bookkeeping, libVars, listVars
<1> QED BY <1>2, <1>5, PluginPhase DEF Handshake

-----------------------------------------------------------------------------
(* Steps of the library *)

\* EXTRACT_START finds every plugin absent or back in its main loop.
LEMMA HandshakeStart ==
  ASSUME TypeOK, Orderly, Handshake, ExtractCall
  PROVE  Handshake'
<1>1. PICK new \in SUBSET {p \in OutOfProcess : ~channel[p]} : ExtractStart(new)
  BY DEF ExtractCall, ExtractUnreadable, Orderly
<1>2. /\ lib = "idle" /\ lib' = "select" /\ file' = file + 1 /\ fileFinished' = FALSE
      /\ UNCHANGED <<seekRequest, callback, fdset, batch>>
  BY <1>1 DEF ExtractStart
<1>3. shm' \in Windows /\ sizeKnown' \in BOOLEAN /\ shm'.file = file + 1
  <2>1. PICK k \in BOOLEAN : ReadyShm(file + 1, 0, k)
    BY <1>1 DEF ExtractStart
  <2>2. file + 1 \in Nat
    BY DEF TypeOK
  <2>3. shm' \in Windows /\ sizeKnown' \in BOOLEAN
    BY <2>1, <2>2, ReadyShmType
  <2>4. shm'.file = file + 1
    BY <2>1 DEF ReadyShm, WindowAt
  <2> QED BY <2>3, <2>4
<1>4. fdset = {}
  BY <1>2 DEF Handshake, Bookkeeping
<1>5. Bookkeeping'
  BY <1>2, <1>3, <1>4 DEF Handshake, Bookkeeping
<1>6. ASSUME NEW p \in Plugin
      PROVE  Phase(p)'
  <2> DEFINE start == StartMsg(shm', sizeKnown')
  <2>1. /\ inp[p] = <<>> /\ outp[p] = <<>>
        /\ seekRequest[p] = NoSeek
        /\ Absent(p) \/ Resting(p) \/ (child[p] = "dead" /\ channel[p])
    BY <1>2, PhaseIdle DEF Engaged, Handshake, Quiet
  <2>2. /\ channel'[p] <=> p \in new \/ (channel[p] /\ Alive(p))
        /\ child'[p] = IF p \in new THEN "new"
                       ELSE IF channel[p] /\ ~Alive(p) THEN "none"
                       ELSE child[p]
        /\ inp'[p] = IF p \in new THEN <<InitMsg, start>>
                     ELSE IF channel[p] /\ Alive(p) THEN Append(inp[p], start)
                     ELSE <<>>
        /\ outp'[p] = IF p \in new \/ (channel[p] /\ ~Alive(p)) THEN <<>> ELSE outp[p]
        /\ roundFinished'[p] = FALSE
    BY <1>1 DEF ExtractStart, Broken, ResetRounds
  <2>3. Append(inp[p], start) = <<start>>
    BY <1>3, <2>1, MessageTypes, Singleton
  <2>4. CASE p \in new
    BY <1>2, <1>3, <2>1, <2>2, <2>4
    DEF Phase, Starting, Engaged, Listening
  <2>5. CASE p \notin new /\ channel[p] /\ Alive(p)
    <3>1. Resting(p)
      BY <2>1, <2>5 DEF Absent, Alive
    <3> QED
      BY <1>2, <1>3, <2>1, <2>2, <2>3, <2>5, <3>1
      DEF Phase, Starting, Resting, Engaged, Listening
  <2>6. CASE p \notin new /\ ~(channel[p] /\ Alive(p))
    <3>1. child[p] = "none" \/ (child[p] = "dead" /\ channel[p])
      BY <2>1, <2>6 DEF Resting, Absent, Alive
    <3>2. child[p] = "none" => ~channel[p]
      BY <2>1 DEF Resting, Absent
    <3>3. child'[p] = "none" /\ ~channel'[p] /\ inp'[p] = <<>> /\ outp'[p] = <<>>
      BY <2>1, <2>2, <2>6, <3>1, <3>2
    <3> QED BY <1>2, <2>1, <3>3 DEF Phase, Absent, Quiet
  <2> QED BY <2>4, <2>5, <2>6
<1> QED BY <1>5, <1>6 DEF Handshake

\* A plugin whose channel is destroyed is gone, provided it had no request.
LEMMA Gone ==
  ASSUME NEW S, NEW p \in Plugin, p \in S, Destroy(S), seekRequest'[p] = NoSeek
  PROVE  Phase(p)'
  BY DEF Destroy, Without, Phase, Absent, Quiet

\* ... and one whose channel is not is not touched.
LEMMA Spared ==
  ASSUME TypeOK, NEW S, NEW p \in Plugin, p \notin S, Without(S)
  PROVE  /\ channel'[p] = channel[p]
         /\ child'[p] = child[p]
         /\ outp'[p] = outp[p]
  BY DEF Without, TypeOK

\* Selecting, with or without result, ends no conversation but those it kills.
LEMMA HandshakeSelect ==
  ASSUME TypeOK, Orderly, Handshake, NothingToReceive \/ Select \/ SelectTimeout
  PROVE  Handshake'
<1> USE DEF EngagedIn
<1>1. CASE NothingToReceive
  <2>1. /\ lib = "select" /\ lib' = "serve" /\ fdset = {}
        /\ UNCHANGED <<file, shm, fileFinished, callback, seekRequest, fdset, batch>>
        /\ \A p \in Plugin : Same(p)
    BY <1>1 DEF NothingToReceive, listVars, procVars, pipeVars, Same, Handshake,
       Bookkeeping
  <2>2. \A p \in Plugin : Phase(p)'
    BY <2>1, PhaseFrame DEF Handshake
  <2> QED BY <2>1, <2>2 DEF Handshake, Bookkeeping
<1>2. CASE Select
  <2>1. /\ lib = "select" /\ lib' = "read"
        /\ UNCHANGED <<file, shm, fileFinished, callback, seekRequest, channel,
                       child, outp, batch>>
        /\ \A p \in Plugin : Same(p)
    BY <1>2 DEF Select, listVars, procVars, pipeVars, Same
  <2>2. \A p \in Plugin : Phase(p)'
    BY <2>1, PhaseFrame DEF Handshake
  <2>3. \A p \in fdset' : p \in Plugin /\ channel[p] /\ seekRequest[p] = NoSeek /\ Readable(p)
    BY <1>2 DEF Select, Listened
  <2> QED BY <2>1, <2>2, <2>3 DEF Handshake, Bookkeeping, Readable
<1>3. CASE SelectTimeout
  <2>1. /\ lib = "select" /\ lib' = "serve" /\ fdset = {}
        /\ UNCHANGED <<file, shm, fileFinished, callback, seekRequest, seekWhence,
                       view, want, fdset, batch>>
        /\ Destroy(Listened)
        /\ Finish(Listened)
    BY <1>3 DEF SelectTimeout, Handshake, Bookkeeping
  <2>2. ASSUME NEW p \in Plugin
        PROVE  Phase(p)'
    <3>1. CASE p \in Listened
      BY <2>1, <3>1, Gone DEF Listened
    <3>2. CASE p \notin Listened
      <4>1. Same(p)
        BY <2>1, <3>2, Spared DEF Same, Destroy, Finish, TypeOK
      <4> QED BY <2>1, <4>1, PhaseFrame DEF Handshake
    <3> QED BY <3>1, <3>2
  <2> QED BY <2>1, <2>2 DEF Handshake, Bookkeeping
<1> QED BY <1>1, <1>2, <1>3

\* Reading and handling a reply: each is what its sender's phase allows.
LEMMA HandshakeReceive ==
  ASSUME TypeOK, Orderly, Handshake, NEW p \in Plugin,
         \/ ReadReplies(p)
         \/ ReadEOF(p)
         \/ ReplyDone(p)
         \/ ReplySeek(p)
         \/ MetaIgnored(p)
         \/ \E abort \in BOOLEAN : MetaDelivered(p, abort)
  PROVE  Handshake'
<1> USE DEF EngagedIn
<1>1. /\ lib = "read" /\ p \in fdset
      /\ Phase(p) /\ seekRequest[p] = NoSeek /\ Readable(p)
      /\ ~fileFinished
      /\ batch \in {0, 1}
  BY DEF ReadReplies, ReadEOF, ReplyDone, ReplySeek, MetaIgnored, MetaDelivered,
     Reply, Reading, IsFirst, Handshake, Bookkeeping, TypeOK
\* A step that touches only p is fine when it leaves p in some phase ...
<1>2. ASSUME UNCHANGED <<file, shm, fileFinished>>, Phase(p)',
             \A q \in Plugin \ {p} : Same(q),
             lib' \in {"read", "serve"},
             callback'.from = callback'.during,
             seekRequest'[p] <= FileSize,
             NextChannel(p),
             batch' = 0
      PROVE  Handshake'
  <2>1. \A q \in Plugin \ {p} : Phase(q)'
    BY <1>1, <1>2, PhaseFrame DEF Handshake
  <2>2. /\ fdset' # {} => lib' = "read"
        /\ \A q \in fdset' : q \in fdset /\ q # p /\ q \in Plugin
    BY <1>1, <1>2 DEF NextChannel, TypeOK
  <2>3. \A q \in fdset' : channel'[q] /\ seekRequest'[q] = NoSeek /\ Readable(q)'
    BY <1>2, <2>2 DEF Same, Handshake, Bookkeeping, Readable
  <2>4. \A q \in Plugin : seekRequest'[q] <= FileSize
    BY <1>2 DEF Same, Handshake, Bookkeeping
  <2> QED
    BY <1>2, <2>1, <2>2, <2>3, <2>4 DEF Handshake, Bookkeeping
<1>3. ASSUME NextReply(p), batch > 0
      PROVE  batch' = 0 /\ NextChannel(p) /\ lib' \in {"read", "serve"}
  BY <1>1, <1>3 DEF NextReply, NextChannel
<1>4. NoSeek <= FileSize
  BY ConstantAssumption DEF NoSeek
<1>5. CASE ReadReplies(p)
  <2>1. /\ UNCHANGED <<lib, file, shm, fileFinished, fdset, callback, channel,
                       seekRequest, child, outp>>
        /\ \A q \in Plugin : Same(q)
        /\ batch' \in 1 .. Len(outp[p])
    BY <1>5 DEF ReadReplies, listVars, procVars, pipeVars, Same
  <2>2. \A q \in Plugin : Phase(q)'
    BY <2>1, PhaseFrame DEF Handshake
  <2>3. outp[p] # <<>>
    BY <2>1
  <2>4. Len(outp[p]) = 1
    <3>1. PICK m : outp[p] = <<m>>
      BY <1>1, <2>3, PhaseOutput
    <3> QED BY <3>1
  <2> QED BY <2>1, <2>2, <2>4 DEF Handshake, Bookkeeping, Readable
<1>6. CASE ReadEOF(p)
  <2>1. /\ Destroy({p}) /\ NextChannel(p)
        /\ batch' = 0
        /\ UNCHANGED <<file, shm, fileFinished, callback, seekRequest, seekWhence,
                       roundFinished, view, want>>
    BY <1>6 DEF ReadEOF
  <2>2. Phase(p)'
    BY <1>1, <2>1, Gone
  <2>3. \A q \in Plugin \ {p} : Same(q)
    BY <2>1, Spared DEF Same, Destroy
  <2>4. lib' \in {"read", "serve"} /\ callback'.from = callback'.during
    BY <2>1 DEF NextChannel, Handshake, Bookkeeping
  <2> QED BY <1>1, <1>2, <1>4, <2>1, <2>2, <2>3, <2>4
\* ... in particular the handlers of a reply.
<1>7. ASSUME NEW op, Reply(p, op)
      PROVE  /\ outp[p] # <<>> /\ Listening(p) /\ inp[p] = <<>> /\ batch > 0
             /\ Head(outp[p]).op = op
             /\ Tail(outp[p]) = <<>>
             /\ Len(outp[p]) = 1
             /\ outp[p][1] = Head(outp[p])
  <2>1. outp[p] # <<>> /\ batch > 0 /\ Head(outp[p]).op = op
    BY <1>7 DEF Reply
  <2>2. Listening(p) /\ inp[p] = <<>> /\ \E m : outp[p] = <<m>>
    BY <1>1, <2>1, PhaseOutput
  <2> QED BY <2>1, <2>2
<1>8. ASSUME Consume(p), outp[p] # <<>>, Tail(outp[p]) = <<>>
      PROVE  outp'[p] = <<>> /\ \A q \in Plugin \ {p} : outp'[q] = outp[q]
  BY <1>8 DEF Consume, TypeOK
<1>9. CASE ReplyDone(p)
  <2>1. /\ Reply(p, "DONE") /\ ClearSeek({p}) /\ Finish({p}) /\ Consume(p)
        /\ NextReply(p)
        /\ UNCHANGED <<file, shm, fileFinished, callback, channel, seekWhence,
                       procVars, inp>>
    BY <1>9 DEF ReplyDone
  <2>2. outp'[p] = <<>> /\ \A q \in Plugin \ {p} : outp'[q] = outp[q]
    BY <1>7, <1>8, <2>1
  <2>3. child[p] \in {"loop", "dead"}
    BY <1>1, <1>7, <2>1, PhaseOutput, Opcodes
  <2>4. seekRequest'[p] = NoSeek /\ roundFinished'[p]
    BY <2>1 DEF ClearSeek, Finish
  <2>5. channel[p] /\ inp[p] = <<>>
    BY <1>7, <2>1 DEF Listening, Engaged
  <2>6. Phase(p)'
    BY <2>1, <2>2, <2>3, <2>4, <2>5 DEF procVars, Phase, Resting, Dead, Quiet
  <2>7. \A q \in Plugin \ {p} : Same(q)
    BY <2>1, <2>2 DEF Same, ClearSeek, Finish, procVars, TypeOK
  <2> QED
    BY <1>2, <1>3, <1>4, <1>7, <2>1, <2>4, <2>6, <2>7 DEF Handshake, Bookkeeping
<1>10. CASE ReplySeek(p)
  <2>1. /\ Reply(p, "SEEK") /\ Consume(p) /\ NextReply(p)
        /\ seekRequest' = [seekRequest EXCEPT ![p] = Head(outp[p]).off]
        /\ seekWhence' = [seekWhence EXCEPT ![p] = Head(outp[p]).whence]
        /\ UNCHANGED <<file, shm, fileFinished, callback, channel, roundFinished,
                       procVars, inp>>
    BY <1>10 DEF ReplySeek
  <2>2. outp'[p] = <<>> /\ \A q \in Plugin \ {p} : outp'[q] = outp[q]
    BY <1>7, <1>8, <2>1
  <2>3. /\ seekRequest'[p] = Head(outp[p]).off
        /\ seekWhence'[p] = Head(outp[p]).whence
    BY <2>1 DEF TypeOK
  <2>4. want[p].off \in Nat /\ Len(outp[p]) = 1
    BY <1>7, <2>1 DEF TypeOK
  <2>5. \/ child[p] = "dead" /\ Head(outp[p]).off \in 0 .. FileSize
        \/ /\ child[p] = "seek" /\ want[p].off <= FileSize
           /\ Head(outp[p]).off = want[p].off
           /\ Head(outp[p]).whence = want[p].whence
    BY <1>1, <1>7, <2>1, PhaseOutput, Opcodes
  <2>6. seekRequest'[p] <= FileSize
    BY <2>3, <2>5, ConstantAssumption
  <2>7. /\ channel[p] /\ ~roundFinished[p] /\ inp[p] = <<>>
        /\ lib' \in {"read", "serve"}
    BY <1>3, <1>7, <2>1 DEF Listening, Engaged
  <2>8. Phase(p)'
    BY <2>1, <2>2, <2>3, <2>5, <2>7
    DEF procVars, Phase, Seeking, Dead, Quiet, Engaged, Noted
  <2>9. \A q \in Plugin \ {p} : Same(q)
    BY <2>1, <2>2 DEF Same, procVars, TypeOK
  <2> QED
    BY <1>2, <1>3, <1>7, <2>1, <2>6, <2>7, <2>8, <2>9 DEF Handshake, Bookkeeping
<1>11. ~MetaIgnored(p)
  BY <1>1 DEF MetaIgnored
<1>12. ASSUME NEW abort \in BOOLEAN, MetaDelivered(p, abort)
       PROVE  Handshake'
  <2>1. /\ Reply(p, "META") /\ abort = FALSE /\ fileFinished' = FALSE
        /\ callback'.from = Head(outp[p]).file /\ callback'.during = file
        /\ UNCHANGED <<file, shm, view, want>>
    BY <1>12 DEF MetaDelivered, CallBack, RecordAbort, Orderly
  <2>2. Head(outp[p]) = MetaMsg(file) /\ child[p] \in {"dead", "meta"}
    BY <1>1, <1>7, <2>1, PhaseOutput, Opcodes
  <2>3. callback'.from = callback'.during
    BY <2>1, <2>2, Opcodes
  <2>0. UNCHANGED fileFinished
    BY <1>1, <2>1 DEF TypeOK
  <2>4. CASE Alive(p)
    <3>1. /\ inp' = [inp EXCEPT ![p] = Append(@, ContinueMsg)]
          /\ Consume(p) /\ NextReply(p)
          /\ UNCHANGED <<channel, seekRequest, seekWhence, roundFinished, child>>
      BY <1>12, <2>1, <2>4 DEF MetaDelivered
    <3>2. outp'[p] = <<>> /\ \A q \in Plugin \ {p} : outp'[q] = outp[q]
      BY <1>7, <1>8, <2>1, <3>1
    <3>3. Append(inp[p], ContinueMsg) = <<ContinueMsg>>
      BY <1>7, <2>1, MessageTypes, Singleton
    <3>4. inp'[p] = <<ContinueMsg>> /\ \A q \in Plugin \ {p} : inp'[q] = inp[q]
      BY <3>1, <3>3 DEF TypeOK
    <3>5. view[p].win = shm
      BY <1>1, <1>7, <2>1, <2>2, <2>4, PhaseOutput, Opcodes DEF Alive
    <3>6. Phase(p)'
      BY <1>3, <1>7, <2>1, <2>2, <2>4, <3>1, <3>2, <3>4, <3>5
      DEF Phase, Reporting, Listening, Engaged, Alive
    <3>7. \A q \in Plugin \ {p} : Same(q)
      BY <2>1, <3>1, <3>2, <3>4 DEF Same
    <3> QED BY <1>1, <1>2, <1>3, <1>4, <1>7, <2>0, <2>1, <2>3, <3>1, <3>6, <3>7
  <2>5. CASE ~Alive(p)
    <3>1. /\ Destroy({p}) /\ Finish({p}) /\ AfterFree(p) /\ batch' = 0
          /\ NextChannel(p)
      BY <1>12, <2>5 DEF MetaDelivered
    \* The freed buffer held nothing after the item.
    <3>2. UNCHANGED <<seekRequest, seekWhence>>
      <4>1. PICK i \in 1 .. Len(outp[p]) :
              /\ seekRequest' = [seekRequest EXCEPT ![p] =
                                   CASE outp[p][i].op = "SEEK" -> outp[p][i].off
                                     [] outp[p][i].op = "DONE" -> NoSeek
                                     [] OTHER                  -> @]
              /\ seekWhence' = [seekWhence EXCEPT ![p] =
                                  IF outp[p][i].op = "SEEK" THEN outp[p][i].whence ELSE @]
        BY <3>1 DEF AfterFree
      <4>2. Len(outp[p]) = 1 /\ outp[p][1].op = "META"
        BY <1>7, <2>1
      <4>3. i = 1
        BY <4>1, <4>2
      <4> QED BY <4>1, <4>2, <4>3 DEF TypeOK
    <3>3. Phase(p)'
      BY <1>1, <3>1, <3>2, Gone
    <3>4. \A q \in Plugin \ {p} : Same(q)
      BY <2>1, <3>1, <3>2, Spared DEF Same, Destroy, Finish, TypeOK
    <3>5. lib' \in {"read", "serve"}
      BY <3>1 DEF NextChannel
    <3> QED BY <1>1, <1>2, <1>4, <2>0, <2>1, <2>3, <3>1, <3>2, <3>3, <3>4, <3>5
  <2> QED BY <2>4, <2>5
<1> QED BY <1>5, <1>6, <1>9, <1>10, <1>11, <1>12

\* A plugin the library is done with does not depend on window and file.
LEMMA PhaseOver ==
  ASSUME NEW p \in Plugin, Phase(p), ~Engaged(p), Same(p),
         lib = "idle" => lib' = "idle"
  PROVE  Phase(p)'
  BY PhaseIdle
  DEF Same, Phase, Absent, Resting, Dead, Quiet

\* The requests do_extract converts are those of plugins that wait for it (or
\* have died waiting), and the offset is the position the plugin means.
LEMMA Waiting ==
  ASSUME TypeOK, Handshake, lib = "serve", NEW p \in Visited
  PROVE  /\ p \in Plugin /\ channel[p] /\ ~roundFinished[p]
         /\ Quiet(p)
         /\ child[p] \in {"seek", "dead"}
         /\ Resolved(p, FileSize) \in 0 .. FileSize
         /\ child[p] = "seek" =>
              want[p].off <= FileSize /\ Resolved(p, FileSize) = Target(want[p])
<1>1. /\ p \in Plugin /\ channel[p] /\ ~roundFinished[p]
      /\ seekRequest[p] \in 0 .. FileSize
      /\ FileSize \in Nat
      /\ Phase(p)
  BY VisitedSeek, ConstantAssumption DEF Handshake, Bookkeeping
<1>2. \/ child[p] = "dead" /\ Quiet(p)
      \/ child[p] = "seek" /\ Quiet(p) /\ Noted(p) /\ want[p].off <= FileSize
  BY <1>1 DEF NoSeek, Phase, Absent, Resting, Starting, Extracting, Reporting,
     Seeking, Finishing, Dead, Listening, Quiet
<1>3. seekWhence[p] \in Whences /\ want[p].off \in Nat /\ want[p].whence \in Whences
  BY <1>1 DEF TypeOK
<1>4. Resolved(p, FileSize) = IF seekWhence[p] = "SEEK_END" THEN FileSize - seekRequest[p]
                              ELSE seekRequest[p]
  BY <1>1 DEF Resolved
<1>5. CASE child[p] = "seek"
  BY <1>1, <1>2, <1>3, <1>4, <1>5 DEF Noted, Target, Whences
<1> QED BY <1>1, <1>2, <1>4, <1>5

\* A plugin whose request is converted but not answered goes on waiting.
LEMMA PhaseWaiting ==
  ASSUME TypeOK, Handshake, lib = "serve", lib' = "select", NEW p \in Visited,
         seekRequest'[p] = Resolved(p, FileSize), seekWhence'[p] = "SEEK_SET",
         channel'[p], ~roundFinished'[p],
         child'[p] = child[p], view'[p] = view[p], want'[p] = want[p],
         inp'[p] = inp[p], outp'[p] = outp[p]
  PROVE  Phase(p)'
  BY Waiting DEF Phase, Seeking, Dead, Engaged, Quiet, Noted, Target

\* A plugin whose request is not converted keeps it.
LEMMA Unconverted ==
  ASSUME TypeOK, ConvertWhence, NEW p \in Plugin, p \notin Visited
  PROVE  /\ \A end : Resolved(p, end) = seekRequest[p]
         /\ seekWhence'[p] = seekWhence[p]
  BY DEF ConvertWhence, Resolved

\* The pass over the plugin list that leaves the window alone.
LEMMA HandshakeServeNone ==
  ASSUME TypeOK, Orderly, Handshake, ServeNone
  PROVE  Handshake'
<1>1. /\ lib = "serve" /\ ~fileFinished /\ Discarded = {} /\ fdset = {}
  BY DEF ServeNone, Handshake, Bookkeeping, Discarded
<1>2. /\ seekRequest' = [p \in Plugin |-> Resolved(p, FileSize)]
      /\ ConvertWhence
      /\ Send({}, DiscardMsg)
      /\ Finish({})
      /\ (Active = {} /\ lib' \in {"idle", "inproc"}) \/ lib' = "select"
      /\ UNCHANGED <<file, fileFinished, fdset, batch, callback, shm, view, want>>
  BY <1>1 DEF ServeNone, SizeForced, Orderly, Leave, Stay
<1>3. \A p \in Plugin :
        /\ channel'[p] = channel[p] /\ child'[p] = child[p]
        /\ inp'[p] = inp[p] /\ outp'[p] = outp[p]
        /\ roundFinished'[p] = roundFinished[p]
        /\ view'[p] = view[p] /\ want'[p] = want[p]
  BY <1>2 DEF Send, Broken, Without, Finish, TypeOK
<1>4. ASSUME NEW p \in Plugin
      PROVE  Phase(p)' /\ seekRequest'[p] <= FileSize
  <2>1. seekRequest'[p] = Resolved(p, FileSize) /\ Phase(p) /\ seekRequest[p] <= FileSize
    BY <1>2 DEF Handshake, Bookkeeping
  <2>2. CASE p \in Visited
    <3>1. lib' = "select" /\ seekWhence'[p] = "SEEK_SET"
      BY <1>2, <2>2 DEF Visited, ConvertWhence
    <3>2. channel[p] /\ ~roundFinished[p] /\ Resolved(p, FileSize) <= FileSize
      BY <1>1, <2>2, Waiting, ConstantAssumption
    <3> QED BY <1>1, <1>3, <2>1, <2>2, <3>1, <3>2, PhaseWaiting
  <2>3. CASE p \notin Visited
    <3>1. Same(p)
      BY <1>2, <1>3, <2>1, <2>3, Unconverted DEF Same
    <3>2. CASE lib' = "select"
      BY <1>1, <1>2, <2>1, <3>1, <3>2, PhaseFrame DEF EngagedIn, Same
    <3>3. CASE Active = {}
      <4>1. ~Engaged(p)
        BY <3>3 DEF Active, Engaged
      <4> QED BY <1>1, <2>1, <3>1, <4>1, PhaseOver DEF Same
    <3> QED BY <1>2, <3>2, <3>3
  <2> QED BY <2>2, <2>3
<1> QED BY <1>1, <1>2, <1>4 DEF Handshake, Bookkeeping

\* The window moves: the plugins it was moved for get what they asked for, the
\* others keep their requests, and nobody else is looking.
LEMMA HandshakeServeSeek ==
  ASSUME TypeOK, Orderly, Handshake,
         NEW m \in Plugin, NEW end \in {-1, FileSize}, ServeSeek(m, end)
  PROVE  Handshake'
<1> DEFINE moved == {p \in Plugin : channel[p] /\ InRange(p, FileSize)}
           msg == UpdatedMsg(shm', sizeKnown')
<1>1. MoveWindow(m, end) /\ end = FileSize
  BY DEF ServeSeek, MoveWindow, SizeForced, Orderly
<1>2. /\ lib = "serve" /\ lib' = "select" /\ Running = {}
      /\ ReadyShm(file, Resolved(m, FileSize), SizeKnownThen(FileSize))
      /\ m \in Visited
      /\ ConvertWhence
      /\ UNCHANGED <<file, fileFinished, fdset, batch, callback, view, want>>
  BY <1>1 DEF MoveWindow, Stay, IsMinSeek
<1>3. /\ seekRequest' = [p \in Plugin |-> IF p \in moved THEN NoSeek
                                          ELSE Resolved(p, FileSize)]
      /\ Send(moved, msg)
      /\ Finish(Broken(moved))
  BY <1>1 DEF ServeSeek
<1>4. shm' \in Windows /\ sizeKnown' \in BOOLEAN /\ shm'.file = file
  <2>1. file \in Nat /\ Resolved(m, FileSize) \in Nat /\ SizeKnownThen(FileSize) \in BOOLEAN
    BY <1>1, <1>2, ResolvedType DEF TypeOK, SizeKnownThen
  <2>2. shm' \in Windows /\ sizeKnown' \in BOOLEAN
    BY <1>2, <2>1, ReadyShmType
  <2>3. shm'.file = file
    BY <1>2 DEF ReadyShm, WindowAt
  <2> QED BY <2>2, <2>3
<1>5. \A p \in Plugin : p \notin Visited => ~Engaged(p)
  BY <1>2 DEF Engaged, Visited, Active
<1>6. ASSUME NEW p \in moved
      PROVE  p \in Visited /\ Shows(shm', Resolved(p, FileSize))
  <2>1. /\ p \in Plugin /\ Resolved(p, FileSize) # NoSeek
        /\ shm'.off <= Resolved(p, FileSize)
        /\ \/ shm'.off + shm'.len > Resolved(p, FileSize)
           \/ shm'.off = FileSize
    BY <1>6 DEF InRange
  <2>2. p \in Visited
    <3>1. seekRequest[p] # NoSeek
      BY <2>1, ResolvedType
    <3>2. Engaged(p)
      BY <2>1, <3>1, PhaseIdle DEF Handshake
    <3> QED BY <1>5, <2>1, <3>2
  <2>3. Resolved(p, FileSize) \in 0 .. FileSize
    BY <1>2, <2>2, Waiting
  <2>4. shm'.off \in Nat /\ shm'.len \in Nat /\ FileSize \in Nat
    BY <1>4, ConstantAssumption DEF Windows
  <2> QED BY <2>1, <2>2, <2>3, <2>4 DEF Shows, Holds
<1> HIDE DEF moved
<1>7. \A p \in Plugin : p \notin Broken(moved) =>
        /\ channel'[p] = channel[p] /\ child'[p] = child[p] /\ outp'[p] = outp[p]
        /\ roundFinished'[p] = roundFinished[p]
        /\ view'[p] = view[p] /\ want'[p] = want[p]
        /\ inp'[p] = IF p \in moved THEN Append(inp[p], msg) ELSE inp[p]
  BY <1>2, <1>3 DEF Send, Without, Finish, TypeOK
<1>8. ASSUME NEW p \in Plugin, p \in moved
      PROVE  Phase(p)'
  <2>1. /\ p \in Visited /\ Shows(shm', Resolved(p, FileSize))
        /\ seekRequest'[p] = NoSeek
    BY <1>3, <1>6, <1>8
  <2>2. /\ channel[p] /\ ~roundFinished[p] /\ Quiet(p)
        /\ child[p] \in {"seek", "dead"}
        /\ child[p] = "seek" =>
              want[p].off <= FileSize /\ Resolved(p, FileSize) = Target(want[p])
    BY <1>2, <2>1, Waiting
  <2>3. CASE child[p] = "dead"
    <3>1. p \in Broken(moved)
      BY <1>8, <2>3 DEF Broken, Alive
    <3>2. child'[p] = "none" /\ ~channel'[p] /\ inp'[p] = <<>> /\ outp'[p] = <<>>
      BY <1>3, <3>1 DEF Send, Without
    <3> QED BY <2>1, <3>2 DEF Phase, Absent, Quiet
  <2>4. CASE child[p] = "seek"
    <3>1. p \notin Broken(moved)
      BY <2>4 DEF Broken, Alive
    <3>2. Append(inp[p], msg) = <<msg>>
      BY <1>4, <2>2, MessageTypes, Singleton DEF Quiet
    <3>3. /\ channel'[p] /\ ~roundFinished'[p] /\ child'[p] = "seek"
          /\ outp'[p] = <<>> /\ inp'[p] = <<UpdatedMsg(shm', sizeKnown')>>
          /\ want'[p] = want[p]
      BY <1>7, <1>8, <2>2, <2>4, <3>1, <3>2 DEF Quiet
    <3>4. Target(want'[p]) = Target(want[p]) /\ Shows(shm', Target(want[p]))
      BY <2>1, <2>2, <2>4, <3>3
    <3> QED
      BY <1>2, <1>4, <2>1, <2>2, <2>4, <3>3, <3>4
      DEF Phase, Seeking, Listening, Engaged, Shows, Holds, Target
  <2> QED BY <2>2, <2>3, <2>4
<1>9. ASSUME NEW p \in Plugin, p \notin moved
      PROVE  Phase(p)'
  <2>1. p \notin Broken(moved) /\ seekRequest'[p] = Resolved(p, FileSize) /\ Phase(p)
    BY <1>3, <1>9 DEF Broken, Handshake
  <2>2. CASE p \in Visited
    <3>1. seekWhence'[p] = "SEEK_SET"
      BY <1>2, <2>2 DEF ConvertWhence
    <3>2. channel[p] /\ ~roundFinished[p]
      BY <1>2, <2>2, Waiting
    <3> QED BY <1>2, <1>7, <1>9, <2>1, <2>2, <3>1, <3>2, PhaseWaiting
  <2>3. CASE p \notin Visited
    <3>1. Same(p)
      BY <1>2, <1>7, <1>9, <2>1, <2>3, Unconverted DEF Same
    <3> QED BY <1>2, <1>5, <2>1, <2>3, <3>1, PhaseOver
  <2> QED BY <2>2, <2>3
<1>10. ASSUME NEW p \in Plugin
       PROVE  seekRequest'[p] <= FileSize
  <2>1. NoSeek <= FileSize /\ seekRequest[p] <= FileSize
    BY ConstantAssumption DEF NoSeek, Handshake, Bookkeeping
  <2>2. Resolved(p, FileSize) <= FileSize
    BY <1>2, <2>1, Waiting, Unconverted, ConstantAssumption
  <2> QED BY <1>3, <2>1, <2>2
<1> QED
  BY <1>2, <1>4, <1>8, <1>9, <1>10 DEF Handshake, Bookkeeping

\* The in-process plugins run when the conversations are over.
LEMMA HandshakeInProcess ==
  ASSUME TypeOK, Orderly, Handshake,
         \/ \E p \in Plugin, abort \in BOOLEAN : InProcessMeta(p, abort)
         \/ \E p \in Plugin : InProcessReturn(p)
         \/ InProcessUnreadable
  PROVE  Handshake'
<1>1. /\ lib = "inproc"
      /\ UNCHANGED InProcVars
      /\ callback'.from = callback'.during
  BY DEF InProcessMeta, InProcessReturn, InProcessUnreadable, CallBack, Handshake,
     Bookkeeping
<1>2. /\ UNCHANGED <<file, fileFinished, shm, seekRequest, batch, fdset>>
      /\ fdset = {}
      /\ \A p \in Plugin : Same(p)
  BY <1>1 DEF InProcVars, listVars, pipeVars, Same, Handshake, Bookkeeping
<1>3. \A p \in Plugin : Phase(p)'
  BY <1>1, <1>2, PhaseFrame DEF EngagedIn, Handshake
<1> QED BY <1>1, <1>2, <1>3 DEF Handshake, Bookkeeping

\* Without aborts there is nothing to discard, and without failures and offsets
\* behind the end of the file no full reset.
LEMMA OrderlySteps ==
  ASSUME TypeOK, Orderly, Handshake, NEW m \in Plugin, NEW end \in {-1, FileSize}
  PROVE  ~ServeAbort(m, end) /\ ~FullReset(m, end)
<1>1. ~ServeAbort(m, end)
  BY DEF ServeAbort, Handshake, Bookkeeping
<1>2. ASSUME FullReset(m, end) PROVE FALSE
  <2>1. lib = "serve" /\ m \in Visited /\ end = FileSize /\ Resolved(m, end) > FileSize
    BY <1>2 DEF FullReset, SizeForced, Orderly, IsMinSeek
  <2>2. Resolved(m, FileSize) \in 0 .. FileSize
    BY <2>1, Waiting
  <2> QED BY <2>1, <2>2, ConstantAssumption
<1> QED BY <1>1, <1>2

-----------------------------------------------------------------------------
(* The theorems *)

\* The invariant holds initially ...
LEMMA HandshakeInit == Orderly /\ Init => Handshake
  BY ConstantAssumption
  DEF Init, Handshake, Bookkeeping, Phase, Absent, Quiet, NoWindow, NoSeek

\* ... and after every step.
LEMMA HandshakeNext ==
  ASSUME TypeOK, Orderly, Handshake, [Next]_vars
  PROVE  Handshake'
<1>1. CASE LibraryStep
  BY <1>1, HandshakeSelect, HandshakeReceive, HandshakeServeNone,
     HandshakeServeSeek, HandshakeInProcess, OrderlySteps DEF LibraryStep
<1>2. CASE UNCHANGED vars
  <2>1. /\ UNCHANGED <<lib, file, fileFinished, callback, shm, seekRequest, batch,
                       fdset, channel, child, outp>>
        /\ \A p \in Plugin : Same(p)
    BY <1>2 DEF vars, libVars, listVars, procVars, pipeVars, Same
  <2>2. \A p \in Plugin : Phase(p)'
    BY <2>1, PhaseFrame DEF Handshake
  <2> QED BY <2>1, <2>2 DEF Handshake, Bookkeeping, Readable
<1> QED BY <1>1, <1>2, HandshakeStart, HandshakePlugin DEF Next

\* Library and plugins always agree on the state of their conversation: for any
\* number of plugins, of which any may crash, hang or be killed at any time.
THEOREM HandshakeKept == Orderly => (Spec => []Handshake)
<1> SUFFICES ASSUME Orderly PROVE Spec => []Handshake
  OBVIOUS
<1>1. Init => Handshake
  BY HandshakeInit
<1>2. TypeOK /\ Handshake /\ [Next]_vars => Handshake'
  BY HandshakeNext
<1> QED BY <1>1, <1>2, TypeCorrect, PTL DEF Spec

\* No extract method ever runs on a window that has been overwritten.
THEOREM ShmAlwaysStable == Orderly => (Spec => []ShmStable)
<1>1. ASSUME Handshake PROVE ShmStable
  BY <1>1 DEF ShmStable, Handshake, Phase, Absent, Resting, Starting, Extracting,
     Reporting, Seeking, Finishing, Dead
<1> QED BY <1>1, HandshakeKept, PTL

\* The plugins' branches for unexpected messages are dead code.
THEOREM ProtocolAlwaysFollowed == Orderly => (Spec => []ProtocolFollowed)
<1>1. ASSUME TypeOK, Handshake PROVE ProtocolFollowed
  <2> SUFFICES ASSUME NEW p \in Plugin, inp[p] # <<>>
               PROVE  Head(inp[p]).op \in Understood(p)
    BY DEF ProtocolFollowed
  <2>1. \/ Starting(p)
        \/ child[p] = "meta" /\ inp[p] = <<ContinueMsg>>
        \/ child[p] = "seek" /\ \E k \in BOOLEAN : inp[p] = <<UpdatedMsg(shm, k)>>
    BY <1>1, PhaseInput DEF Handshake
  <2>2. InitMsg \in ToPlugin /\ ContinueMsg \in ToPlugin
        /\ \A k \in BOOLEAN : StartMsg(shm, k) \in ToPlugin /\ UpdatedMsg(shm, k) \in ToPlugin
    BY <1>1, MessageTypes DEF TypeOK
  <2> QED
    BY <2>1, <2>2, Singleton, Opcodes DEF Starting, Understood
<1> QED BY <1>1, TypeCorrect, HandshakeKept, PTL

\* Every plugin that is told the window has moved finds its position in it.
THEOREM SeekTargetAlwaysInRange == Orderly => (Spec => []SeekTargetInRange)
<1>1. ASSUME TypeOK, Handshake PROVE SeekTargetInRange
  <2> SUFFICES ASSUME NEW p \in Plugin, child[p] = "seek", inp[p] # <<>>
               PROVE  Shows(Head(inp[p]).win, Target(want[p]))
    BY DEF SeekTargetInRange, Receives
  <2>1. PICK k \in BOOLEAN : inp[p] = <<UpdatedMsg(shm, k)>> /\ Shows(shm, Target(want[p]))
    BY <1>1, PhaseInput DEF Handshake, Starting
  <2>2. UpdatedMsg(shm, k) \in ToPlugin
    BY <1>1, MessageTypes DEF TypeOK
  <2>3. Head(inp[p]).win = shm
    BY <2>1, <2>2, Singleton, Opcodes
  <2> QED BY <2>1, <2>3
<1> QED BY <1>1, TypeCorrect, HandshakeKept, PTL

\* The callback gets meta data during the call for the file it comes from.
THEOREM MetaAlwaysFromCurrentFile == Orderly => (Spec => []MetaFromCurrentFile)
<1>1. Handshake => MetaFromCurrentFile
  BY DEF Handshake, Bookkeeping, MetaFromCurrentFile
<1> QED BY <1>1, HandshakeKept, PTL

\* A file leaves nothing behind in pipes and processes for the next one.
THEOREM AlwaysQuiescentAtReturn == Orderly => (Spec => []QuiescentAtReturn)
<1>1. ASSUME Handshake PROVE QuiescentAtReturn
  <2> SUFFICES ASSUME NEW p \in Plugin, lib = "idle", Alive(p)
               PROVE  child[p] = "loop" /\ inp[p] = <<>> /\ outp[p] = <<>>
    BY DEF QuiescentAtReturn
  <2>1. Quiet(p) /\ (Absent(p) \/ Resting(p))
    BY <1>1, PhaseIdle DEF Handshake, Engaged, Alive
  <2> QED BY <2>1 DEF Absent, Resting, Alive, Quiet
<1> QED BY <1>1, HandshakeKept, PTL

\* No plugin waits for an answer that nobody owes it.
THEOREM NoRequestEverLost == Orderly => (Spec => []NoLostRequest)
<1>1. ASSUME TypeOK, Handshake PROVE NoLostRequest
  <2> SUFFICES ASSUME NEW p \in Plugin, inp[p] = <<>>, outp[p] = <<>>
               PROVE  /\ child[p] = "seek" => seekRequest[p] # NoSeek
                      /\ child[p] # "meta"
    BY DEF NoLostRequest
  <2>1. \A m : <<m>> # <<>>
    OBVIOUS
  <2>2. Phase(p)
    BY <1>1 DEF Handshake
  <2>3. child[p] # "meta"
    BY <2>1, <2>2 DEF Phase, Absent, Resting, Starting, Extracting, Reporting,
       Seeking, Finishing, Dead
  <2>4. child[p] = "seek" => want[p].off <= FileSize /\ Noted(p)
    BY <2>1, <2>2 DEF Phase, Absent, Resting, Starting, Extracting, Reporting,
       Seeking, Finishing, Dead
  <2>5. want[p].off \in Nat /\ FileSize \in Nat
    BY <1>1, ConstantAssumption DEF TypeOK
  <2> QED BY <2>3, <2>4, <2>5 DEF Noted, Target, NoSeek
<1> QED BY <1>1, TypeCorrect, HandshakeKept, PTL

\* The library gives up a live plugin only when all those it listens to are
\* silent: the crash of one, or a failed send, costs no other its channel.
THEOREM CrashesIsolated == Orderly => (Spec => CrashIsolation)
<1> SUFFICES ASSUME Orderly PROVE Spec => CrashIsolation
  OBVIOUS
<1>1. ASSUME TypeOK, NoOrphans, Handshake, [Next]_vars,
             NEW p \in Plugin, channel[p], ~channel'[p], Alive(p),
             NEW q \in Listened
      PROVE  Alive(q) /\ outp[q] = <<>>
  <2> USE <1>1
  <2>1. SelectTimeout
    <3>1. ~UNCHANGED channel
      OBVIOUS
    <3>2. \A S : Without(S) => p \in S
      BY DEF Without
    <3>3. \A S, m : ~Send(S, m)
      BY <3>2 DEF Send, Broken
    <3>4. ~ExtractCall
      BY DEF ExtractCall, ExtractStart, ExtractUnreadable
    <3>5. ASSUME NEW x \in Plugin, ReadEOF(x) PROVE FALSE
      <4>1. x = p /\ x \in fdset /\ outp[x] = <<>>
        BY <3>2, <3>5 DEF ReadEOF, Destroy, Reading, IsFirst
      <4>2. Readable(p)
        BY <4>1 DEF Handshake, Bookkeeping
      <4> QED BY <4>1, <4>2 DEF Readable, Alive
    <3>6. ASSUME NEW x \in Plugin, NEW abort \in BOOLEAN, MetaDelivered(x, abort)
          PROVE  FALSE
      <4>1. ~Alive(x) /\ Destroy({x})
        BY <3>1, <3>6 DEF MetaDelivered
      <4> QED BY <3>2, <4>1 DEF Destroy
    <3>7. ASSUME NEW x \in Plugin,
                 \/ ReadReplies(x) \/ ReplyDone(x) \/ ReplySeek(x) \/ MetaIgnored(x)
                 \/ \E abort \in BOOLEAN : InProcessMeta(x, abort)
                 \/ InProcessReturn(x)
          PROVE  FALSE
      BY <3>1, <3>7 DEF ReadReplies, ReplyDone, ReplySeek, MetaIgnored,
         InProcessMeta, InProcessReturn, InProcVars, listVars
    <3>8. ASSUME NothingToReceive \/ Select \/ InProcessUnreadable PROVE FALSE
      BY <3>1, <3>8 DEF NothingToReceive, Select, InProcessUnreadable, InProcVars,
         listVars
    <3>9. ASSUME \/ ServeNone
                 \/ \E m \in Plugin, end \in {-1, FileSize} : ServeSeek(m, end)
          PROVE  FALSE
      BY <3>3, <3>9 DEF ServeNone, ServeSeek
    <3>10. ASSUME NEW x \in Plugin, PluginStep(x) PROVE FALSE
      BY <3>1, <3>10, PluginFrame DEF listVars
    <3>11. CASE UNCHANGED vars
      BY <3>1, <3>11 DEF vars, listVars
    <3> QED
      BY <3>4, <3>5, <3>6, <3>7, <3>8, <3>9, <3>10, <3>11, OrderlySteps
      DEF Next, LibraryStep
  <2>2. q \in Plugin /\ channel[q] /\ ~Readable(q)
    BY <2>1 DEF SelectTimeout, Listened
  <2>3. child[q] # "none" /\ child[q] \in ChildStates
    BY <2>2 DEF NoOrphans, TypeOK
  <2> QED BY <2>2, <2>3 DEF Readable, Alive, ChildStates
<1>2. ASSUME TypeOK, NoOrphans, Handshake, [Next]_vars
      PROVE  \A p \in Plugin : channel[p] /\ ~channel'[p] /\ Alive(p) =>
               \A q \in Listened : Alive(q) /\ outp[q] = <<>>
  BY <1>1, <1>2
<1> QED BY <1>2, TypeCorrect, NoOrphansEver, HandshakeKept, PTL DEF Spec, CrashIsolation
=============================================================================
