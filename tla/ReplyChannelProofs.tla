------------------------- MODULE ReplyChannelProofs -------------------------
(***************************************************************************)
(* What the library takes out of a plugin's pipe, proved for every script  *)
(* of messages, every size of messages and buffers, and every way in which *)
(* the pipe and the end of the buffer cut the messages.                    *)
(*                                                                         *)
(* Where a message starts is the sum of the sizes of all before it.  Facts *)
(* about such sums need induction; ReachedByCounting is the principle in   *)
(* the form of a fact about sets, which follows from the pigeonhole        *)
(* principle of FiniteSetTheorems.                                         *)
(***************************************************************************)
EXTENDS ReplyChannel, FiniteSetTheorems, FunctionTheorems, SequenceTheorems, TLAPS

(* A set with 0 that has the successor of each of its numbers has every    *)
(* natural number: otherwise k -> k + 1 would map a finite part of it into *)
(* itself, injectively but without reaching 0.                             *)
LEMMA ReachedByCounting ==
  ASSUME NEW S, 0 \in S, \A k \in S : k + 1 \in S, NEW n \in Nat
  PROVE  n \in S
<1> SUFFICES ASSUME n \notin S PROVE FALSE
  OBVIOUS
<1> DEFINE T == S \cap 0..n
           f == [k \in T |-> k + 1]
<1>1. IsFiniteSet(T)
  <2>1. T \in SUBSET (0..n) /\ IsFiniteSet(0..n)
    BY FS_Interval, 0 \in Int, n \in Int
  <2> QED
    BY <2>1, FS_Subset
<1>2. \A k \in T : k + 1 \in T
  BY SMT
<1>3. f \in Injection(T, T)
  BY <1>2 DEF Injection, IsInjective
<1> HIDE DEF f
<1>4. f \in Surjection(T, T)
  BY <1>1, <1>3, FS_Injection
<1>5. \E k \in T : f[k] = 0
  BY <1>4 DEF Surjection
<1>6. \A k \in T : f[k] = k + 1
  BY DEF f
<1> QED
  BY <1>5, <1>6

(* The running sums of n sizes. *)
Sums(n, size) ==
  {f \in [1..n + 1 -> Nat] : f[1] = 0 /\ \A i \in 1..n : f[i + 1] = f[i] + size[i]}

(* Every list of sizes has its running sums. *)
LEMMA SumsExist ==
  ASSUME NEW n \in Nat, NEW size \in [1..n -> Nat]
  PROVE  Sums(n, size) # {}
<1> DEFINE S == {k \in Nat : k <= n => Sums(k, size) # {}}
<1>1. 0 \in S
  <2>1. [i \in 1..1 |-> 0] \in Sums(0, size)
    BY DEF Sums
  <2> QED
    BY <2>1
<1>2. ASSUME NEW k \in S PROVE k + 1 \in S
  <2> SUFFICES ASSUME k + 1 <= n PROVE Sums(k + 1, size) # {}
    OBVIOUS
  <2>1. PICK f \in Sums(k, size) : TRUE
    OBVIOUS
  <2> DEFINE g == [i \in 1..k + 2 |-> IF i = k + 2 THEN f[k + 1] + size[k + 1] ELSE f[i]]
  <2>2. g \in Sums(k + 1, size)
    <3>1. f \in [1..k + 1 -> Nat] /\ f[1] = 0 /\ \A i \in 1..k : f[i + 1] = f[i] + size[i]
      BY DEF Sums
    <3>2. k \in Nat /\ size[k + 1] \in Nat
      OBVIOUS
    <3>3. g \in [1..(k + 1) + 1 -> Nat]
      BY <3>1, <3>2
    <3>4. g[1] = 0
      BY <3>1, <3>2
    <3>5. \A i \in 1..k + 1 : g[i + 1] = g[i] + size[i]
      BY <3>1, <3>2
    <3> QED
      BY <3>3, <3>4, <3>5 DEF Sums
  <2> QED
    BY <2>2
<1>3. n \in S
  <2> HIDE DEF S
  <2> QED
    BY <1>1, <1>2, ReachedByCounting
<1> QED
  BY <1>3

(* Running sums of positive sizes grow. *)
LEMMA SumsGrow ==
  ASSUME NEW n \in Nat, NEW size \in [1..n -> Nat \ {0}], NEW f \in Sums(n, size)
  PROVE  \A i, j \in 1..n + 1 : i < j => f[i] < f[j]
<1> DEFINE S == {k \in Nat : \A i \in 1..n + 1 : i + k + 1 \in 1..n + 1 => f[i] < f[i + k + 1]}
<1>1. f \in [1..n + 1 -> Nat] /\ \A i \in 1..n : f[i] < f[i + 1]
  <2>1. \A i \in 1..n : f[i] \in Nat /\ f[i + 1] = f[i] + size[i] /\ size[i] \in Nat \ {0}
    BY DEF Sums
  <2> QED
    BY SMTT(30), <2>1 DEF Sums
<1>2. 0 \in S
  BY <1>1
<1>3. ASSUME NEW k \in S PROVE k + 1 \in S
  <2> SUFFICES ASSUME NEW i \in 1..n + 1, i + (k + 1) + 1 \in 1..n + 1
               PROVE  f[i] < f[i + (k + 1) + 1]
    OBVIOUS
  <2>1. /\ i \in Nat /\ k \in Nat /\ i + k + 1 \in 1..n
        /\ i + k + 1 \in 1..n + 1 /\ i + k + 1 + 1 \in 1..n + 1
    OBVIOUS
  <2>2. f[i] < f[i + k + 1] /\ f[i + k + 1] < f[(i + k + 1) + 1]
    BY <2>1, <1>1
  <2>3. f[i] \in Nat /\ f[i + k + 1] \in Nat /\ f[i + k + 1 + 1] \in Nat
    BY <2>1, <1>1
  <2>4. i + (k + 1) + 1 = i + k + 1 + 1
    BY <2>1
  <2> QED
    BY SMTT(30), <2>2, <2>3, <2>4
<1>4. \A k \in Nat : k \in S
  <2> HIDE DEF S
  <2> QED
    BY <1>2, <1>3, ReachedByCounting
<1> QED
  <2> TAKE i, j \in 1..n + 1
  <2> HAVE i < j
  <2>1. j - i - 1 \in Nat /\ j = i + (j - i - 1) + 1
    OBVIOUS
  <2> QED
    BY <2>1, <1>4

(* Start is what its recursive definition says. *)
StartFacts ==
  /\ Start \in [1..Len(script) + 1 -> Nat]
  /\ Start[1] = 0
  /\ \A i \in 1..Len(script) : Start[i + 1] = Start[i] + Size(script[i])
  /\ \A i, j \in 1..Len(script) + 1 : i < j => Start[i] < Start[j]

(* Every message has at least one byte. *)
LEMMA SizePositive == \A m \in Message : Size(m) \in Nat \ {0}
<1>1. MaxMime \in Nat /\ SeekSize \in Nat \ {0} /\ MetaSize \in Nat \ {0}
  BY SizesAssumption
<1>2. \A m \in Message : \/ m = [op |-> "done"] \/ m = [op |-> "seek"]
                         \/ m.op = "meta" /\ m.mime \in Nat /\ m.value \in Nat
  BY DEF Message, Done, SeekMsg
<1> QED
  <2> TAKE m \in Message
  <2>1. CASE m.op = "done"
    BY <2>1 DEF Size
  <2>2. CASE m.op = "seek"
    BY <1>1, <2>2 DEF Size
  <2>3. CASE m.op = "meta" /\ m.mime \in Nat /\ m.value \in Nat
    <3>1. MimeLength(m) \in Nat
      BY <1>1, <2>3 DEF MimeLength
    <3> QED
      BY <1>1, <2>3, <3>1 DEF Size
  <2> QED
    BY <1>2, <2>1, <2>2, <2>3

LEMMA Starts == script \in Seq(Message) => StartFacts
<1> SUFFICES ASSUME script \in Seq(Message) PROVE StartFacts
  OBVIOUS
<1> DEFINE n == Len(script)
           size == [i \in 1..n |-> Size(script[i])]
           IsStart(f) == f = [i \in 1..n + 1 |->
                                IF i = 1 THEN 0 ELSE f[i - 1] + Size(script[i - 1])]
<1>1. n \in Nat /\ size \in [1..n -> Nat \ {0}]
  BY SizePositive
<1>2. PICK f \in Sums(n, size) : TRUE
  <2>1. size \in [1..n -> Nat]
    BY <1>1
  <2> HIDE DEF size, n
  <2> QED
    BY <1>1, <2>1, SumsExist
<1>3. IsStart(f)
  <2>1. f \in [1..n + 1 -> Nat] /\ f[1] = 0 /\ \A i \in 1..n : f[i + 1] = f[i] + size[i]
    BY DEF Sums
  <2>2. \A i \in 1..n + 1 : f[i] = IF i = 1 THEN 0 ELSE f[i - 1] + Size(script[i - 1])
    <3> TAKE i \in 1..n + 1
    <3>1. CASE i = 1
      BY <3>1, <2>1
    <3>2. CASE i # 1
      <4>1. i - 1 \in 1..n /\ (i - 1) + 1 = i
        BY <3>2, <1>1
      <4> QED
        BY <4>1, <2>1, <3>2
    <3> QED
      BY <3>1, <3>2
  <2> QED
    BY <2>1, <2>2
<1>4. Start = CHOOSE g : IsStart(g)
  BY DEF Start
<1>5. IsStart(Start)
  <2> HIDE DEF IsStart
  <2> QED
    BY <1>3, <1>4
<1>6. Start[1] = 0 /\ \A i \in 1..n : Start[i + 1] = Start[i] + size[i]
  <2>1. Start[1] = 0
    BY <1>1, <1>5
  <2>2. ASSUME NEW i \in 1..n PROVE Start[i + 1] = Start[i] + size[i]
    <3>1. i + 1 \in 1..n + 1 /\ i + 1 # 1 /\ (i + 1) - 1 = i
      BY <1>1
    <3> QED
      BY <1>5, <3>1
  <2> QED
    BY <2>1, <2>2
<1>7. Start \in [1..n + 1 -> Nat]
  <2> DEFINE S == {k \in Nat : k <= n => Start[k + 1] \in Nat}
  <2>1. 0 \in S
    BY <1>6
  <2>2. ASSUME NEW k \in S PROVE k + 1 \in S
    <3> SUFFICES ASSUME k + 1 <= n PROVE Start[(k + 1) + 1] \in Nat
      OBVIOUS
    <3>1. k + 1 \in 1..n /\ Start[k + 1] \in Nat /\ size[k + 1] \in Nat
      BY <1>1
    <3> QED
      BY <3>1, <1>6
  <2>3. \A k \in Nat : k \in S
    <3> HIDE DEF S
    <3> QED
      BY <2>1, <2>2, ReachedByCounting
  <2>4. ASSUME NEW i \in 1..n + 1 PROVE Start[i] \in Nat
    <3>1. i - 1 \in Nat /\ i - 1 <= n /\ (i - 1) + 1 = i
      BY <1>1
    <3> QED
      BY <3>1, <2>3
  <2> QED
    BY <1>5, <2>4
<1>8. Start \in Sums(n, size)
  BY <1>1, <1>6, <1>7 DEF Sums
<1> QED
  BY <1>1, <1>6, <1>7, <1>8, SumsGrow DEF StartFacts

-----------------------------------------------------------------------------
(* The number of messages taken out of the buffer, and that of all. *)
P == Len(processed)
N == Len(script)

(* The inductive invariant: types and ranges, ... *)
Typed ==
  /\ script \in Seq(Message) /\ \A i \in 1..N : Sent(script[i])
  /\ waits \in BOOLEAN /\ open \in BOOLEAN /\ roundFinished \in BOOLEAN
  /\ process \in {"runs", "died", "killed"} /\ pc \in {"select", "reply"}
  /\ written \in 0..Total /\ bytesRead \in 0..written
  /\ answered \in 0..P /\ seekRequest \in 0..P
  /\ processed \in Seq(Nat) /\ P <= N
  /\ mdata \in Seq(Nat) /\ mdataSize \in InitialSize..MaxMetaData
  /\ ret \in Nat
  /\ open /\ roundFinished => P > 0

(* ... messages are taken out one after the other, ... *)
InOrder == processed = [i \in 1..P |-> i]

(* (the offset of the byte that is first in the buffer) *)
First == bytesRead - Len(mdata)

(* ... what is in the buffer is what was read last, the next message starts*)
(* where the parsing goes on, and is not complete when it is not parsed,   *)
(* ...                                                                     *)
Buffered ==
  open => /\ Len(mdata) <= bytesRead /\ Len(mdata) <= mdataSize
          /\ \A j \in 1..Len(mdata) : mdata[j] = First + j - 1
          /\ pc = "select" => Start[P + 1] = First
          /\ pc = "reply" => ret <= Len(mdata) /\ Start[P + 1] = First + ret
          /\ pc = "select" /\ mdata # <<>> => P < N /\ Len(mdata) < Size(script[P + 1])

(* ... and a plugin that waits for its answers has sent no more than one   *)
(* message that is not answered; its request or the end of its round is    *)
(* remembered.                                                             *)
InTurn ==
  open /\ waits =>
    /\ P <= answered + 1
    /\ written <= Start[Lesser(answered, N - 1) + 2]
    /\ seekRequest # 0 => seekRequest = P /\ answered < P /\ script[P].op = "seek"
    /\ roundFinished => answered < P /\ script[P].op = "done"
    /\ answered < P => \/ script[P].op = "seek" /\ seekRequest = P
                       \/ script[P].op = "done" /\ roundFinished

Inv == Typed /\ InOrder /\ Buffered /\ InTurn

(* The script of a plugin does not change. *)
LEMMA StartsStay ==
  ASSUME UNCHANGED said
  PROVE  Start' = Start /\ Total' = Total /\ N' = N /\ script' = script /\ waits' = waits
  BY DEF Start, Total, N, said

LEMMA SizesAre ==
  /\ InitialSize \in Nat /\ MaxMetaData \in Nat /\ MaxMime \in Nat
  /\ SeekSize \in Nat \ {0} /\ MetaSize \in Nat \ {0}
  /\ InitialSize <= MaxMetaData
  BY SizesAssumption

LEMMA StartsAre == Typed => StartFacts /\ N \in Nat /\ P \in Nat /\ Total = Start[N + 1]
  BY Starts DEF Typed, Total, N, P

LEMMA InitInv == Init => Inv
<1> SUFFICES ASSUME Init PROVE Inv
  OBVIOUS
<1>1. script \in Seq(Message) /\ \A i \in 1..N : Sent(script[i])
  BY ScriptsAssumption DEF Init, N
<1>2. StartFacts /\ N \in Nat
  BY <1>1, Starts DEF N
<1>3. P = 0 /\ Start[P + 1] = 0 /\ Total \in Nat
  BY <1>2 DEF Init, P, N, Total, StartFacts
<1>4. /\ InitialSize \in InitialSize..MaxMetaData
      /\ <<>> \in Seq(Nat) /\ Len(<<>>) = 0 /\ 0 <= InitialSize
  BY SizesAre
<1>5. Typed
  <2>1. processed \in Seq(Nat) /\ mdata \in Seq(Nat) /\ mdataSize \in InitialSize..MaxMetaData
    BY <1>4 DEF Init
  <2>2. /\ waits \in BOOLEAN /\ open \in BOOLEAN /\ roundFinished = FALSE
        /\ process \in {"runs", "died", "killed"} /\ pc \in {"select", "reply"}
    BY DEF Init
  <2>3. written = 0 /\ bytesRead = 0 /\ answered = 0 /\ seekRequest = 0 /\ ret = 0
    BY DEF Init, NoSeek
  <2>4. /\ written \in 0..Total /\ bytesRead \in 0..written
        /\ answered \in 0..P /\ seekRequest \in 0..P /\ P <= N /\ ret \in Nat
    BY <1>2, <1>3, <2>3
  <2> QED
    BY <1>1, <2>1, <2>2, <2>4, Zenon DEF Typed
<1>6. InOrder
  BY <1>3 DEF InOrder, Init
<1>7. Buffered
  <2>1. mdata = <<>> /\ bytesRead = 0 /\ pc = "select" /\ mdataSize = InitialSize
    BY DEF Init
  <2>2. Len(mdata) = 0
    BY <1>4, <2>1
  <2>3. bytesRead = 0
    BY <2>1
  <2>4. First = 0
    BY <2>2, <2>3 DEF First
  <2> QED
    BY <1>3, <1>4, <2>1, <2>2, <2>4 DEF Buffered
<1>8. InTurn
  <2>1. Lesser(0, N - 1) + 2 \in 1..N + 1
    BY <1>2 DEF Lesser
  <2> QED
    BY <1>2, <1>3, <2>1 DEF InTurn, Init, NoSeek, StartFacts, N
<1> QED
  BY <1>5, <1>6, <1>7, <1>8 DEF Inv

LEMMA AnsweredBounds ==
  ASSUME Typed
  PROVE  Lesser(answered, N - 1) + 2 \in 1..N + 1
  BY SMTT(30), StartsAre DEF Typed, Lesser

(* The steps of the plugin, and of EXTRACTOR_IPC_channel_recv_. *)
LEMMA WriteInv == ASSUME Inv, Write PROVE Inv'
<1>1. StartFacts /\ N \in Nat /\ P \in Nat /\ Total = Start[N + 1]
  BY StartsAre DEF Inv
<1>2. UNCHANGED <<said, process, answered, open, buffer, pc, ret, replies>>
  BY DEF Write
<1>3. Start' = Start /\ Total' = Total /\ N' = N /\ P' = P
  BY <1>2, StartsStay DEF P, replies
<1>4. /\ written' \in written + 1..Total
      /\ waits => written' <= Start[Lesser(answered, N - 1) + 2]
  BY DEF Write, N
<1>5. Typed'
  BY <1>1, <1>2, <1>3, <1>4, SMTT(30) DEF Inv, Typed, said, buffer, replies, StartFacts, N
<1>6. InOrder' /\ Buffered'
  BY <1>2, <1>3 DEF Inv, InOrder, Buffered, First, said, buffer, replies
<1>7. InTurn'
  BY <1>2, <1>3, <1>4 DEF Inv, InTurn, said, buffer, replies
<1> QED
  BY <1>5, <1>6, <1>7 DEF Inv

LEMMA DieInv == ASSUME Inv, Die PROVE Inv'
<1>1. UNCHANGED <<said, written, answered, open, buffer, pc, ret, replies>> /\ process' = "died"
  BY DEF Die
<1>2. Start' = Start /\ Total' = Total /\ N' = N /\ P' = P
  BY <1>1, StartsStay DEF P, replies
<1>3. Typed'
  BY <1>1, <1>2 DEF Inv, Typed, said, buffer, replies
<1>4. InOrder' /\ Buffered' /\ InTurn'
  BY <1>1, <1>2 DEF Inv, InOrder, Buffered, First, InTurn, said, buffer, replies
<1> QED
  BY <1>3, <1>4 DEF Inv

LEMMA ReadPipeInv == ASSUME Inv, ReadPipe PROVE Inv'
<1>1. StartFacts /\ N \in Nat /\ P \in Nat /\ Total = Start[N + 1]
  BY StartsAre DEF Inv
<1>2. UNCHANGED <<said, process, written, answered, open, replies>>
  BY DEF ReadPipe
<1>3. Start' = Start /\ Total' = Total /\ N' = N /\ P' = P
  BY <1>2, StartsStay DEF P, replies
<1>4. PICK n \in 1..Lesser(Room - Len(mdata), written - bytesRead) :
        /\ mdata' = mdata \o [i \in 1..n |-> bytesRead + i - 1]
        /\ bytesRead' = bytesRead + n
  BY DEF ReadPipe
<1>5. /\ open /\ pc = "select" /\ pc' = "reply" /\ ret' = 0 /\ mdataSize' = Room
      /\ Len(mdata) <= mdataSize /\ Len(mdata) <= bytesRead
      /\ \A j \in 1..Len(mdata) : mdata[j] = First + j - 1
      /\ Start[P + 1] = First
  BY DEF ReadPipe, Readable, ListenedTo, Inv, Buffered
<1>6. /\ mdata \in Seq(Nat) /\ Len(mdata) \in Nat /\ bytesRead \in Nat /\ written \in Nat
      /\ bytesRead <= written /\ written <= Total
      /\ mdataSize \in InitialSize..MaxMetaData /\ InitialSize \in Nat /\ MaxMetaData \in Nat
      /\ Total \in Nat
  <2>1. N + 1 \in 1..N + 1
    BY <1>1
  <2>2. Total \in Nat
    BY <1>1, <2>1 DEF StartFacts, N
  <2> QED
    BY <2>2, SizesAre DEF Inv, Typed
<1>7. Room \in mdataSize..MaxMetaData
  BY <1>6 DEF Room, Lesser
<1>8. n \in Nat /\ n > 0 /\ Len(mdata) + n <= Room /\ bytesRead + n <= written
  BY <1>4, <1>6, <1>7 DEF Lesser
<1> DEFINE piece == [i \in 1..n |-> bytesRead + i - 1]
<1>9. piece \in Seq(Nat) /\ Len(piece) = n
  BY <1>6, <1>8
<1>10. /\ mdata' \in Seq(Nat) /\ Len(mdata') = Len(mdata) + n
       /\ \A i \in 1..Len(mdata) + n :
            mdata'[i] = IF i <= Len(mdata) THEN mdata[i] ELSE piece[i - Len(mdata)]
  BY <1>4, <1>6, <1>9, ConcatProperties
<1>11. First' = First
  BY <1>4, <1>6, <1>8, <1>10 DEF First
<1>12. \A i \in 1..Len(mdata') : mdata'[i] = First' + i - 1
  <2>1. First = bytesRead - Len(mdata)
    BY DEF First
  <2> SUFFICES ASSUME NEW i \in 1..Len(mdata) + n PROVE mdata'[i] = First + i - 1
    BY <1>10, <1>11
  <2>2. CASE i <= Len(mdata)
    <3>1. i \in 1..Len(mdata)
      BY <2>2, <1>6
    <3>2. mdata[i] = First + i - 1
      BY <3>1, <1>5
    <3> QED
      BY <3>2, <2>2, <1>10
  <2>3. CASE ~(i <= Len(mdata))
    <3>1. i - Len(mdata) \in 1..n
      BY <2>3, <1>6, <1>8
    <3>2. piece[i - Len(mdata)] = bytesRead + (i - Len(mdata)) - 1
      BY <3>1
    <3>3. mdata'[i] = piece[i - Len(mdata)]
      BY <2>3, <1>10
    <3> HIDE DEF piece
    <3> QED
      BY <3>2, <3>3, <2>1, <1>6
  <2> QED
    BY <2>2, <2>3
<1>13. Typed'
  BY <1>2, <1>3, <1>4, <1>5, <1>6, <1>7, <1>8, <1>10 DEF Inv, Typed, said, replies
<1>14. Buffered'
  <2>1. First \in Int /\ First' = First + 0
    BY <1>6, <1>11 DEF First
  <2>2. Len(mdata') <= bytesRead' /\ Len(mdata') <= mdataSize'
    BY <1>4, <1>5, <1>6, <1>7, <1>8, <1>10
  <2>3. (Start[P + 1])' = First' + ret' /\ ret' <= Len(mdata')
    BY <1>3, <1>5, <1>6, <1>8, <1>10, <2>1
  <2> QED
    BY <1>5, <1>12, <2>2, <2>3 DEF Buffered
<1>15. InOrder' /\ InTurn'
  BY <1>2, <1>3 DEF Inv, InOrder, InTurn, said, replies
<1> QED
  BY <1>13, <1>14, <1>15 DEF Inv

LEMMA RoomBounds == ASSUME Inv PROVE Room \in InitialSize..MaxMetaData
  BY SizesAre DEF Inv, Typed, Room, Lesser

(* What all that end the channel have in common. *)
LEMMA DestroyInv ==
  ASSUME Inv, Destroy, UNCHANGED <<said, written, answered, bytesRead, mdata, ret, processed>>,
         mdataSize' \in InitialSize..MaxMetaData, roundFinished' \in BOOLEAN,
         seekRequest' \in {seekRequest, 0}
  PROVE  Inv'
<1>1. open' = FALSE /\ pc' = "select" /\ process' \in {process, "killed"}
  BY DEF Destroy
<1>2. Start' = Start /\ Total' = Total /\ N' = N /\ P' = P
  BY StartsStay DEF P
<1>3. seekRequest' \in 0..P
  BY StartsAre DEF Inv, Typed
<1>4. Typed'
  BY <1>1, <1>2, <1>3 DEF Inv, Typed, said
<1>5. InOrder' /\ Buffered' /\ InTurn'
  BY <1>1, <1>2 DEF Inv, InOrder, Buffered, InTurn
<1> QED
  BY <1>4, <1>5 DEF Inv

LEMMA SelectTimeoutInv == ASSUME Inv, SelectTimeout PROVE Inv'
<1>1. /\ Destroy /\ UNCHANGED <<said, written, answered, bytesRead, mdata, ret, processed>>
      /\ mdataSize' = mdataSize /\ roundFinished' = TRUE /\ seekRequest' = seekRequest
  BY DEF SelectTimeout, buffer
<1> QED
  BY <1>1, DestroyInv DEF Inv, Typed

LEMMA TooLargeInv == ASSUME Inv, TooLarge PROVE Inv'
<1>1. /\ Destroy /\ UNCHANGED <<said, written, answered, bytesRead, mdata, ret, processed>>
      /\ mdataSize' = mdataSize /\ roundFinished' = roundFinished /\ seekRequest' = seekRequest
  BY DEF TooLarge, buffer, replies
<1> QED
  BY <1>1, DestroyInv DEF Inv, Typed

LEMMA ReadEndsInv == ASSUME Inv, ReadEOF \/ RecvFails PROVE Inv'
<1>1. /\ Destroy /\ UNCHANGED <<said, written, answered, bytesRead, mdata, ret, processed>>
      /\ mdataSize' = Room /\ roundFinished' = roundFinished /\ seekRequest' = seekRequest
  BY DEF ReadEOF, RecvFails, replies
<1> QED
  BY <1>1, DestroyInv, RoomBounds DEF Inv, Typed

-----------------------------------------------------------------------------
(* The next byte to be parsed starts the next message, and there is one. *)
LEMMA NextMessage ==
  ASSUME Inv, Parsing
  PROVE  /\ P \in Nat /\ N \in Nat /\ P < N /\ P + 1 \in 1..N
         /\ Recognised /\ Next1 = P + 1 /\ Msg = script[P + 1]
         /\ Msg \in Message /\ Sent(Msg) /\ Size(Msg) \in Nat \ {0}
         /\ Start[P + 2] = Start[P + 1] + Size(Msg)
         /\ Start[P + 1] = First + ret
         /\ waits => answered = P
<1>1. StartFacts /\ N \in Nat /\ P \in Nat /\ Total = Start[N + 1]
  BY StartsAre DEF Inv
<1>2. /\ open /\ pc = "reply" /\ ret \in Nat /\ ret < Len(mdata)
      /\ Len(mdata) \in Nat /\ bytesRead \in Nat /\ written \in Nat
      /\ bytesRead <= written /\ written <= Total /\ P <= N
      /\ Start[P + 1] = First + ret
      /\ \A j \in 1..Len(mdata) : mdata[j] = First + j - 1
  <2>1. N + 1 \in 1..N + 1
    BY <1>1
  <2>2. Total \in Nat
    BY <1>1, <2>1 DEF StartFacts, N
  <2> QED
    BY <2>2 DEF Parsing, Inv, Typed, Buffered
<1>3. First \in Int /\ First + Len(mdata) = bytesRead
  BY <1>2 DEF First
<1>4. Start[P + 1] < bytesRead /\ Start[P + 1] < Total
  <2>1. Total \in Int
    BY <1>1 DEF StartFacts, N
  <2> QED
    BY <1>2, <1>3, <2>1
<1>5. P < N /\ P + 1 \in 1..N
  <2>1. P # N
    BY <1>1, <1>4 DEF StartFacts, N
  <2> QED
    BY <1>1, <1>2, <2>1
<1>6. mdata[ret + 1] = Start[P + 1]
  <2>1. ret + 1 \in 1..Len(mdata)
    BY <1>2
  <2> QED
    BY <1>2, <1>3, <2>1
<1>7. IsMessage(P + 1) /\ \A i : IsMessage(i) => i = P + 1
  <2>1. IsMessage(P + 1)
    BY <1>5, <1>6 DEF IsMessage, N
  <2>2. ASSUME NEW i, IsMessage(i) PROVE i = P + 1
    <3>1. i \in 1..N /\ Start[i] = Start[P + 1]
      BY <1>6, <2>2 DEF IsMessage, N
    <3>2. i \in 1..N + 1 /\ P + 1 \in 1..N + 1
      BY <1>1, <1>5, <3>1
    <3>3. Start[i] \in Nat
      BY <1>1, <3>2 DEF StartFacts, N
    <3>4. ~(i < P + 1) /\ ~(P + 1 < i)
      BY <1>1, <3>1, <3>2, <3>3 DEF StartFacts, N
    <3> QED
      BY <1>1, <3>2, <3>4
  <2> QED
    BY <2>1, <2>2
<1>8. Next1 = P + 1
  BY <1>7 DEF Next1, IsMessage
<1>9. Recognised
  BY <1>7, <1>5 DEF Recognised, N
<1>10. Msg = script[P + 1] /\ Msg \in Message /\ Sent(Msg)
  BY <1>5, <1>8 DEF Msg, Inv, Typed, N
<1>11. Size(Msg) \in Nat \ {0}
  BY <1>10, SizePositive
<1>12. Start[P + 2] = Start[P + 1] + Size(Msg)
  <2>1. Start[(P + 1) + 1] = Start[P + 1] + Size(script[P + 1])
    BY <1>1, <1>5 DEF StartFacts, N
  <2> QED
    BY <2>1, <1>1, <1>10
<1>13. ASSUME waits PROVE answered = P
  <2> DEFINE k == Lesser(answered, N - 1)
  <2>1. k + 2 \in 1..N + 1 /\ written <= Start[k + 2] /\ answered \in 0..P
    BY <1>2, <1>13, AnsweredBounds DEF Inv, InTurn, Typed, Parsing
  <2>2. k <= answered /\ k \in Int
    BY <1>1, <2>1 DEF Lesser
  <2> HIDE DEF k
  <2>3. Start[P + 1] \in Nat /\ Start[k + 2] \in Nat /\ P + 1 \in 1..N + 1
    BY <1>1, <1>5, <2>1 DEF StartFacts, N
  <2>4. Start[P + 1] < Start[k + 2]
    BY <1>2, <1>4, <2>1, <2>3
  <2>5. ~(k + 2 < P + 1) /\ k + 2 # P + 1
    BY <1>1, <2>1, <2>3, <2>4 DEF StartFacts, N
  <2> QED
    BY <1>1, <2>1, <2>2, <2>5
<1> QED
  BY <1>1, <1>2, <1>5, <1>8, <1>9, <1>10, <1>11, <1>12, <1>13

(* A message that is complete is taken out, and the next one is next. *)
LEMMA TakeInOrder ==
  ASSUME Inv, Parsing, Take, Left >= Size(Msg), UNCHANGED <<said, buffer>>
  PROVE  /\ P' = P + 1 /\ P' <= N' /\ N' = N
         /\ processed' \in Seq(Nat) /\ InOrder'
         /\ ret' \in Nat /\ ret' <= Len(mdata) /\ (Start[P + 1])' = First + ret'
         /\ First' = First
<1>1. /\ P \in Nat /\ N \in Nat /\ P < N /\ Next1 = P + 1 /\ Size(Msg) \in Nat \ {0}
      /\ Start[P + 2] = Start[P + 1] + Size(Msg) /\ Start[P + 1] = First + ret
  BY NextMessage
<1>2. /\ ret \in Nat /\ Len(mdata) \in Nat /\ bytesRead \in Nat
      /\ processed \in Seq(Nat)
  BY DEF Inv, Typed
<1>3. processed' = Append(processed, P + 1) /\ ret' = ret + Size(Msg)
  BY <1>1 DEF Take
<1>4. /\ processed' \in Seq(Nat) /\ Len(processed') = P + 1
      /\ \A i \in 1..P : processed'[i] = processed[i]
      /\ processed'[P + 1] = P + 1
  BY <1>1, <1>2, <1>3, AppendProperties DEF P
<1>5. P' = P + 1 /\ N' = N /\ Start' = Start
  BY <1>4, StartsStay DEF P
<1>6. InOrder'
  <2>1. \A i \in 1..P + 1 : processed'[i] = i
    <3>1. \A i \in 1..P : processed[i] = i
      BY <1>1 DEF Inv, InOrder
    <3> QED
      BY <1>1, <1>4, <3>1
  <2>2. processed' \in [1..P + 1 -> Nat]
    BY <1>4, LenProperties
  <2>3. processed' = [i \in 1..P + 1 |-> i]
    BY <2>1, <2>2
  <2> QED
    BY <1>5, <2>3 DEF InOrder
<1>7. First' = First /\ First \in Int
  BY <1>2 DEF First, buffer
<1>8. (Start[P + 1])' = First + ret'
  <2>1. (Start[P + 1])' = Start[P + 2]
    BY <1>1, <1>5
  <2> QED
    BY <1>1, <1>2, <1>3, <1>7, <2>1
<1>9. ret' \in Nat /\ ret' <= Len(mdata)
  BY <1>1, <1>2, <1>3 DEF Left
<1> QED
  BY <1>1, <1>4, <1>5, <1>6, <1>7, <1>8, <1>9

(* What the three messages have in common when they are taken out. *)
LEMMA TakenInv ==
  ASSUME Inv, Parsing, Take, Left >= Size(Msg),
         UNCHANGED <<said, process, written, open, buffer, pc>>,
         answered' \in 0..P', seekRequest' \in 0..P', roundFinished' \in BOOLEAN, InTurn'
  PROVE  Inv'
<1>1. /\ P' = P + 1 /\ P' <= N' /\ N' = N
      /\ processed' \in Seq(Nat) /\ InOrder'
      /\ ret' \in Nat /\ ret' <= Len(mdata) /\ (Start[P + 1])' = First + ret'
      /\ First' = First
  BY TakeInOrder
<1>2. Total' = Total /\ P \in Nat
  BY StartsStay, StartsAre DEF Inv
<1>3. Typed'
  BY <1>1, <1>2 DEF Inv, Typed, said, buffer
<1>4. Buffered'
  <2>1. pc = "reply" /\ open
    BY DEF Parsing
  <2>2. /\ Len(mdata) <= bytesRead /\ Len(mdata) <= mdataSize
        /\ \A j \in 1..Len(mdata) : mdata[j] = First + j - 1
    BY <2>1 DEF Inv, Buffered
  <2> QED
    BY <1>1, <2>1, <2>2 DEF Buffered, buffer
<1> QED
  BY <1>1, <1>3, <1>4 DEF Inv

(* When a message is there, and the plugin waits, nothing is pending. *)
LEMMA NothingPending ==
  ASSUME Inv, Parsing, waits
  PROVE  seekRequest = 0 /\ roundFinished = FALSE
<1>1. answered = P /\ P \in Nat
  BY NextMessage
<1> QED
  BY <1>1 DEF Inv, InTurn, Typed, Parsing

LEMMA ReplyDoneInv == ASSUME Inv, ReplyDone PROVE Inv'
<1>1. /\ Parsing /\ Take /\ Msg.op = "done"
      /\ seekRequest' = 0 /\ roundFinished' = TRUE
      /\ UNCHANGED <<said, process, written, answered, open, buffer, pc>>
  BY DEF ReplyDone, Recognised, NoSeek
<1>2. Left >= Size(Msg)
  BY <1>1 DEF Left, Parsing, Size, Inv, Typed
<1>3. P' = P + 1 /\ N' = N /\ P \in Nat /\ N \in Nat /\ Msg = script[P + 1]
      /\ (waits => answered = P)
  BY <1>1, <1>2, TakeInOrder, NextMessage
<1>4. answered' \in 0..P' /\ seekRequest' \in 0..P'
  BY <1>1, <1>3 DEF Inv, Typed
<1>5. InTurn'
  <2> SUFFICES ASSUME waits PROVE InTurn'
    BY <1>1 DEF InTurn, said
  <2>1. written <= Start[Lesser(answered, N - 1) + 2] /\ Start' = Start
    BY <1>1, StartsStay DEF Inv, InTurn, Parsing
  <2>2. /\ answered' = P /\ script' = script /\ written' = written
        /\ P <= P + 1 /\ P < P + 1
    BY <1>1, <1>3 DEF said
  <2> QED
    BY <1>1, <1>3, <2>1, <2>2 DEF InTurn
<1> QED
  BY <1>1, <1>2, <1>4, <1>5, TakenInv

LEMMA ReplySeekInv == ASSUME Inv, ReplySeek PROVE Inv'
<1>1. /\ Parsing /\ Take /\ Msg.op = "seek" /\ Left >= Size(Msg)
      /\ seekRequest' = Next1
      /\ UNCHANGED <<said, process, written, answered, open, buffer, pc, roundFinished>>
  BY DEF ReplySeek, Recognised, Complete
<1>2. P' = P + 1 /\ N' = N /\ P \in Nat /\ N \in Nat /\ Msg = script[P + 1]
      /\ Next1 = P + 1 /\ (waits => answered = P)
  BY <1>1, TakeInOrder, NextMessage
<1>3. answered' \in 0..P' /\ seekRequest' \in 0..P' /\ roundFinished' \in BOOLEAN
  BY <1>1, <1>2 DEF Inv, Typed
<1>4. InTurn'
  <2> SUFFICES ASSUME waits PROVE InTurn'
    BY <1>1 DEF InTurn, said
  <2>1. written <= Start[Lesser(answered, N - 1) + 2] /\ Start' = Start
    BY <1>1, StartsStay DEF Inv, InTurn, Parsing
  <2>2. /\ answered' = P /\ script' = script /\ written' = written
        /\ P <= P + 1 /\ P < P + 1 /\ roundFinished' = FALSE
    BY <1>1, <1>2, NothingPending DEF said
  <2> QED
    BY <1>1, <1>2, <2>1, <2>2 DEF InTurn
<1> QED
  BY <1>1, <1>3, <1>4, TakenInv

(* An answer lets the plugin write no less than before. *)
LEMMA AnswersLetWrite ==
  ASSUME Typed, NEW a \in 0..N, answered <= a, open, waits, InTurn
  PROVE  written <= Start[Lesser(a, N - 1) + 2]
<1>1. StartFacts /\ N \in Nat /\ answered \in Nat /\ written \in Nat
  BY StartsAre DEF Typed
<1> DEFINE k == Lesser(answered, N - 1)
           l == Lesser(a, N - 1)
<1>2. k <= l /\ k + 2 \in 1..N + 1 /\ l + 2 \in 1..N + 1 /\ k \in Int /\ l \in Int
  BY <1>1, AnsweredBounds DEF Lesser
<1>3. written <= Start[k + 2]
  BY DEF InTurn
<1> HIDE DEF k, l
<1>4. Start[k + 2] \in Nat /\ Start[l + 2] \in Nat /\ Start[k + 2] <= Start[l + 2]
  BY <1>1, <1>2 DEF StartFacts, N
<1> QED
  BY <1>1, <1>3, <1>4 DEF l

LEMMA ReplyMetaInv == ASSUME Inv, ReplyMeta PROVE Inv'
<1>1. /\ Parsing /\ Take /\ Msg.op = "meta" /\ Left >= Size(Msg)
      /\ answered' = Next1
      /\ UNCHANGED <<said, process, written, open, buffer, pc, seekRequest, roundFinished>>
  BY DEF ReplyMeta, Recognised, Complete
<1>2. P' = P + 1 /\ N' = N /\ P \in Nat /\ N \in Nat /\ P < N
      /\ Next1 = P + 1 /\ (waits => answered = P)
  BY <1>1, TakeInOrder, NextMessage
<1>3. answered' \in 0..P' /\ seekRequest' \in 0..P' /\ roundFinished' \in BOOLEAN
  BY <1>1, <1>2 DEF Inv, Typed
<1>4. InTurn'
  <2> SUFFICES ASSUME waits PROVE InTurn'
    BY <1>1 DEF InTurn, said
  <2>1. written <= Start[Lesser(P + 1, N - 1) + 2] /\ Start' = Start
    <3>1. P + 1 \in 0..N /\ answered <= P + 1
      BY <1>2
    <3> QED
      BY <1>1, <3>1, AnswersLetWrite, StartsStay DEF Inv, Parsing
  <2>2. /\ answered' = P + 1 /\ script' = script /\ written' = written
        /\ P + 1 <= P + 1 + 1 /\ ~(P + 1 < P + 1)
        /\ seekRequest' = 0 /\ roundFinished' = FALSE
    BY <1>1, <1>2, NothingPending DEF said
  <2> QED
    BY <1>1, <1>2, <2>1, <2>2 DEF InTurn
<1> QED
  BY <1>1, <1>3, <1>4, TakenInv

LEMMA ReplyMetaIgnoredInv == ASSUME Inv, ReplyMetaIgnored PROVE Inv'
<1>1. /\ ~waits /\ Parsing /\ Take /\ Left >= Size(Msg)
      /\ UNCHANGED <<said, process, written, answered, open, buffer, pc, seekRequest,
                     roundFinished>>
  BY DEF ReplyMetaIgnored, Recognised, Complete
<1>2. P' = P + 1 /\ P \in Nat
  BY <1>1, TakeInOrder, NextMessage
<1>3. answered' \in 0..P' /\ seekRequest' \in 0..P' /\ roundFinished' \in BOOLEAN
  BY <1>1, <1>2 DEF Inv, Typed
<1>4. InTurn'
  BY <1>1 DEF InTurn, said
<1> QED
  BY <1>1, <1>3, <1>4, TakenInv

LEMMA ReplyMetaUnansweredInv == ASSUME Inv, ReplyMetaUnanswered PROVE Inv'
<1>1. /\ Parsing /\ Take /\ Left >= Size(Msg)
      /\ open' = FALSE /\ process' = process /\ pc' = "select" /\ roundFinished' = TRUE
      /\ UNCHANGED <<said, written, answered, buffer, seekRequest>>
  BY DEF ReplyMetaUnanswered, Recognised, Complete, Destroy
<1>2. /\ P' = P + 1 /\ P' <= N' /\ N' = N /\ P \in Nat /\ N \in Nat
      /\ processed' \in Seq(Nat) /\ InOrder' /\ ret' \in Nat
  BY <1>1, TakeInOrder, NextMessage
<1>3. Total' = Total /\ answered' \in 0..P' /\ seekRequest' \in 0..P'
  BY <1>1, <1>2, StartsStay DEF Inv, Typed
<1>4. Typed'
  BY <1>1, <1>2, <1>3 DEF Inv, Typed, said, buffer
<1>5. Buffered' /\ InTurn'
  BY <1>1 DEF Buffered, InTurn
<1> QED
  BY <1>2, <1>4, <1>5 DEF Inv

(* What the other ends of the parsing have in common: the parsed part of   *)
(* the buffer is dropped.                                                  *)
LEMMA ParsedInv ==
  ASSUME Inv, open, pc = "reply", ret <= Len(mdata), pc' = "select",
         UNCHANGED <<said, process, written, answered, open, bytesRead, mdataSize, ret,
                     roundFinished, processed>>,
         mdata' \in Seq(Nat), Len(mdata') = Len(mdata) - ret,
         \A j \in 1..Len(mdata) - ret : mdata'[j] = mdata[ret + j],
         Len(mdata) # ret => P < N /\ Len(mdata) - ret < Size(script[P + 1]),
         seekRequest' = seekRequest \/ (seekRequest' = 0 /\ (waits => answered = P))
  PROVE  Inv'
<1>1. /\ P \in Nat /\ ret \in Nat /\ Len(mdata) \in Nat /\ bytesRead \in Nat
      /\ mdataSize \in Nat /\ Len(mdata) <= bytesRead /\ Len(mdata) <= mdataSize
      /\ \A j \in 1..Len(mdata) : mdata[j] = First + j - 1
      /\ Start[P + 1] = First + ret
  BY SizesAre, StartsAre DEF Inv, Typed, Buffered
<1>2. Start' = Start /\ Total' = Total /\ N' = N /\ P' = P
  BY StartsStay DEF P
<1>3. First' = First + ret /\ First \in Int
  BY <1>1 DEF First
<1>4. \A j \in 1..Len(mdata') : mdata'[j] = First' + j - 1
  <2> TAKE j \in 1..Len(mdata')
  <2>1. j \in 1..Len(mdata) - ret /\ ret + j \in 1..Len(mdata)
    BY <1>1
  <2> QED
    BY <1>1, <1>3, <2>1
<1>5. Typed'
  BY SMTT(30), <1>1, <1>2 DEF Inv, Typed, said
<1>6. Buffered'
  <2>1. Len(mdata') <= bytesRead /\ Len(mdata') <= mdataSize
    BY <1>1
  <2>2. mdata' # <<>> => P < N /\ Len(mdata') < Size(script[P + 1])
    <3>1. mdata' # <<>> => Len(mdata') # 0
      BY EmptySeq
    <3> QED
      BY <1>1, <3>1
  <2> QED
    BY <1>1, <1>2, <1>3, <1>4, <2>1, <2>2 DEF Buffered, said
<1>7. InTurn'
  <2>1. CASE seekRequest' = seekRequest
    BY <1>2, <2>1 DEF Inv, InTurn, said
  <2>2. CASE seekRequest' = 0 /\ (waits => answered = P)
    BY <1>1, <1>2, <2>2 DEF Inv, InTurn, said
  <2> QED
    BY <2>1, <2>2
<1>8. InOrder'
  BY <1>2 DEF Inv, InOrder, said
<1> QED
  BY <1>5, <1>6, <1>7, <1>8 DEF Inv

LEMMA ReplyPartialInv == ASSUME Inv, ReplyPartial PROVE Inv'
<1>1. /\ Parsing /\ Msg.op # "done" /\ ~Complete
      /\ seekRequest' = 0 /\ mdata' = Rest /\ pc' = "select"
      /\ UNCHANGED <<said, process, written, answered, open, bytesRead, mdataSize, ret,
                     roundFinished, processed>>
  BY DEF ReplyPartial, Recognised, NoSeek
<1>2. /\ P < N /\ Msg = script[P + 1] /\ Msg \in Message /\ Size(Msg) \in Nat
      /\ (waits => answered = P)
  BY <1>1, NextMessage
<1>3. /\ open /\ pc = "reply" /\ ret \in Nat /\ ret < Len(mdata) /\ Len(mdata) \in Nat
      /\ mdata \in Seq(Nat)
  BY <1>1 DEF Parsing, Inv, Typed
<1>4. Left < Size(Msg)
  <2>1. Msg.op \in {"seek", "meta"}
    BY <1>1, <1>2 DEF Message, Done, SeekMsg
  <2>2. HeaderSize <= Size(Msg) /\ HeaderSize \in Nat
    <3>1. CASE Msg.op = "seek"
      BY <3>1, SizesAre DEF HeaderSize, Size
    <3>2. CASE Msg.op = "meta"
      <4>1. Msg.mime \in Nat /\ Msg.value \in Nat
        BY <1>2, <3>2 DEF Message, Done, SeekMsg
      <4>2. MimeLength(Msg) \in Nat
        BY <4>1, SizesAre DEF MimeLength
      <4> QED
        BY <3>2, <4>1, <4>2, SizesAre DEF HeaderSize, Size
    <3> QED
      BY <2>1, <3>1, <3>2
  <2>3. Left \in Int
    BY <1>3 DEF Left
  <2> QED
    BY <1>1, <1>2, <2>2, <2>3 DEF Complete
<1>5. /\ mdata' \in Seq(Nat) /\ Len(mdata') = Len(mdata) - ret
      /\ \A j \in 1..Len(mdata) - ret : mdata'[j] = mdata[ret + j]
  <2> DEFINE first == ret + 1
             last == Len(mdata)
  <2>1. first \in Int /\ last \in Int /\ \A i \in first..last : mdata[i] \in Nat
    BY <1>3
  <2>2. mdata' = SubSeq(mdata, first, last)
    BY <1>1 DEF Rest
  <2>3. /\ first <= last /\ last - first + 1 = Len(mdata) - ret
        /\ \A j \in 1..Len(mdata) - ret : first + j - 1 = ret + j
    BY <1>3
  <2> HIDE DEF first, last
  <2>4. /\ mdata' \in Seq(Nat) /\ Len(mdata') = last - first + 1
        /\ \A i \in 1..last - first + 1 : mdata'[i] = mdata[first + i - 1]
    BY <2>1, <2>2, <2>3, SubSeqProperties
  <2> QED
    BY <2>3, <2>4
<1>6. /\ ret <= Len(mdata)
      /\ (Len(mdata) # ret => P < N /\ Len(mdata) - ret < Size(script[P + 1]))
      /\ seekRequest' = seekRequest \/ (seekRequest' = 0 /\ (waits => answered = P))
  BY <1>1, <1>2, <1>3, <1>4 DEF Left
<1> QED
  BY <1>1, <1>3, <1>5, <1>6, ParsedInv

LEMMA ReplyAllInv == ASSUME Inv, ReplyAll PROVE Inv'
<1>1. /\ open /\ pc = "reply" /\ ret = Len(mdata) /\ mdata' = <<>> /\ pc' = "select"
      /\ UNCHANGED <<said, process, written, answered, open, bytesRead, mdataSize, ret,
                     roundFinished, processed>>
      /\ seekRequest' = seekRequest
  BY DEF ReplyAll, replies
<1>2. Len(mdata) \in Nat /\ Len(mdata) - ret = 0 /\ ret <= Len(mdata)
  BY <1>1 DEF Inv, Typed
<1>3. /\ mdata' \in Seq(Nat) /\ Len(mdata') = Len(mdata) - ret /\ ~(Len(mdata) # ret)
      /\ \A j \in 1..Len(mdata) - ret : mdata'[j] = mdata[ret + j]
  <2>1. mdata' \in Seq(Nat) /\ Len(mdata') = Len(mdata) - ret
    BY <1>1, <1>2, EmptySeq
  <2>2. 1..Len(mdata) - ret = {}
    BY <1>2
  <2> QED
    BY <1>1, <2>1, <2>2
<1>4. /\ open /\ pc = "reply" /\ pc' = "select" /\ seekRequest' = seekRequest
      /\ UNCHANGED <<said, process, written, answered, open, bytesRead, mdataSize, ret,
                     roundFinished, processed>>
      /\ (Len(mdata) # ret => P < N /\ Len(mdata) - ret < Size(script[P + 1]))
      /\ (seekRequest' = seekRequest \/ (seekRequest' = 0 /\ (waits => answered = P)))
  BY <1>1
<1> QED
  BY <1>2, <1>3, <1>4, ParsedInv

(* What the parser rejects is a misfit. *)
LEMMA BadIsMisfit == ASSUME Inv, ReplyBad PROVE P < N /\ Misfit(script[P + 1])
<1>1. /\ Recognised /\ Msg = script[P + 1] /\ P < N /\ Sent(Msg) /\ Msg \in Message
  BY NextMessage DEF ReplyBad
<1>2. Msg.op = "meta" => ~(Msg.value > MaxMetaData)
  BY <1>1, SizesAre DEF Sent, Message, Done, SeekMsg
<1>3. Msg.op = "meta" /\ ~Terminated(Msg)
  BY <1>1, <1>2 DEF ReplyBad
<1> QED
  BY <1>1, <1>3 DEF Misfit

LEMMA ReplyBadInv == ASSUME Inv, ReplyBad PROVE Inv'
<1>1. /\ Destroy /\ UNCHANGED <<said, written, answered, bytesRead, mdata, ret, processed>>
      /\ mdataSize' = mdataSize /\ roundFinished' = roundFinished /\ seekRequest' = seekRequest
  BY DEF ReplyBad, buffer, replies
<1> QED
  BY <1>1, DestroyInv DEF Inv, Typed

-----------------------------------------------------------------------------
(* The steps of do_extract, which answers. *)
LEMMA AnswerInv == ASSUME Inv, Answer PROVE Inv'
<1>1. /\ open /\ seekRequest # 0 /\ seekRequest' = 0 /\ answered' = seekRequest
      /\ UNCHANGED <<said, process, written, open, buffer, pc, ret, processed>>
      /\ roundFinished' \in {roundFinished, TRUE} /\ (waits => roundFinished' = roundFinished)
  BY DEF Answer, Seeking, NoSeek
<1>2. Start' = Start /\ Total' = Total /\ N' = N /\ P' = P /\ P \in Nat /\ N \in Nat
  BY <1>1, StartsStay, StartsAre DEF P, Inv
<1>3. seekRequest \in 0..P /\ P <= N /\ answered \in 0..P
  BY DEF Inv, Typed
<1>4. Typed'
  <2>1. P > 0
    BY <1>1, <1>2, <1>3
  <2>2. answered' \in 0..P' /\ seekRequest' \in 0..P'
    BY <1>1, <1>2, <1>3
  <2>3. roundFinished' \in BOOLEAN
    BY <1>1 DEF Inv, Typed
  <2> QED
    BY <1>1, <1>2, <2>1, <2>2, <2>3 DEF Inv, Typed, said, buffer
<1>5. InTurn'
  <2> SUFFICES ASSUME waits PROVE InTurn'
    BY <1>1 DEF InTurn, said
  <2>1. seekRequest = P /\ script[P].op = "seek" /\ answered < P
    BY <1>1 DEF Inv, InTurn
  <2>2. written <= Start[Lesser(P, N - 1) + 2]
    <3>1. P \in 0..N /\ answered <= P
      BY <1>2, <1>3
    <3> QED
      BY <1>1, <3>1, AnswersLetWrite DEF Inv
  <2>3. roundFinished = FALSE
    BY <1>1, <2>1 DEF Inv, InTurn, Typed
  <2>4. P <= P + 1 /\ ~(P < P)
    BY <1>2
  <2> QED
    BY <1>1, <1>2, <2>1, <2>2, <2>3, <2>4 DEF InTurn, said
<1>6. InOrder' /\ Buffered'
  BY <1>1, <1>2 DEF Inv, InOrder, Buffered, First, said, buffer
<1> QED
  BY <1>4, <1>5, <1>6 DEF Inv

(* The message taken out last is the one with the highest number. *)
LEMMA LatestIs == ASSUME Inv, P > 0 PROVE Latest = P /\ processed # <<>>
<1>1. P \in 1..P /\ P \in Nat
  BY StartsAre DEF Inv
<1> QED
  BY <1>1 DEF Inv, InOrder, Latest, P

LEMMA AnswerFailsInv == ASSUME Inv, AnswerFails PROVE Inv'
<1>1. /\ Destroy /\ UNCHANGED <<said, written, answered, bytesRead, mdata, ret, processed>>
      /\ mdataSize' = mdataSize /\ roundFinished' = TRUE /\ seekRequest' = 0
  BY DEF AnswerFails, NoSeek, buffer
<1> QED
  BY <1>1, DestroyInv DEF Inv, Typed

LEMMA NextFileFailsInv == ASSUME Inv, NextFileFails PROVE Inv'
<1>1. /\ Destroy /\ UNCHANGED <<said, written, answered, bytesRead, mdata, ret, processed>>
      /\ mdataSize' = mdataSize /\ roundFinished' = FALSE /\ seekRequest' = seekRequest
  BY DEF NextFileFails, buffer
<1> QED
  BY <1>1, DestroyInv DEF Inv, Typed

LEMMA NextFileInv == ASSUME Inv, NextFile PROVE Inv'
<1>1. /\ open /\ roundFinished /\ roundFinished' = FALSE /\ answered' = Latest
      /\ UNCHANGED <<said, process, written, open, buffer, pc, ret, seekRequest, processed>>
  BY DEF NextFile, RoundOver
<1>2. Start' = Start /\ Total' = Total /\ N' = N /\ P' = P /\ P \in Nat /\ N \in Nat
  BY <1>1, StartsStay, StartsAre DEF P, Inv
<1>3. P > 0 /\ P <= N /\ answered \in 0..P /\ answered' = P /\ answered' \in 0..P
  BY <1>1, <1>2, LatestIs DEF Inv, Typed
<1>4. Typed'
  BY <1>1, <1>2, <1>3 DEF Inv, Typed, said, buffer
<1>5. InTurn'
  <2> SUFFICES ASSUME waits PROVE InTurn'
    BY <1>1 DEF InTurn, said
  <2>1. answered < P /\ script[P].op = "done"
    BY <1>1 DEF Inv, InTurn
  <2>2. written <= Start[Lesser(P, N - 1) + 2]
    <3>1. P \in 0..N /\ answered <= P
      BY <1>2, <1>3
    <3> QED
      BY <1>1, <3>1, AnswersLetWrite DEF Inv
  <2>3. seekRequest = 0
    BY <1>1, <2>1 DEF Inv, InTurn
  <2>4. P <= P + 1 /\ ~(P < P)
    BY <1>2
  <2> QED
    BY <1>1, <1>2, <1>3, <2>1, <2>2, <2>3, <2>4 DEF InTurn, said
<1>6. InOrder' /\ Buffered'
  BY <1>1, <1>2 DEF Inv, InOrder, Buffered, First, said, buffer
<1> QED
  BY <1>4, <1>5, <1>6 DEF Inv

LEMMA StutterInv == ASSUME Inv, UNCHANGED vars PROVE Inv'
<1>1. Start' = Start /\ Total' = Total /\ N' = N /\ P' = P
  BY StartsStay DEF vars, P, replies
<1>2. Typed'
  BY <1>1 DEF Inv, Typed, vars, said, buffer, replies
<1>3. InOrder' /\ Buffered' /\ InTurn'
  BY <1>1 DEF Inv, InOrder, Buffered, First, InTurn, vars, said, buffer, replies
<1> QED
  BY <1>2, <1>3 DEF Inv

LEMMA InvKept == Inv /\ [Next]_vars => Inv'
<1> SUFFICES ASSUME Inv, [Next]_vars PROVE Inv'
  OBVIOUS
<1>1. CASE Write
  BY <1>1, WriteInv
<1>2. CASE Die
  BY <1>2, DieInv
<1>3. CASE Recv
  BY <1>3, SelectTimeoutInv, ReadPipeInv, TooLargeInv, ReadEndsInv, ReplyDoneInv, ReplySeekInv,
     ReplyMetaInv, ReplyMetaIgnoredInv, ReplyMetaUnansweredInv, ReplyPartialInv, ReplyBadInv,
     ReplyAllInv DEF Recv
<1>4. CASE Serve
  BY <1>4, AnswerInv, AnswerFailsInv DEF Serve
<1>5. CASE NextFile \/ NextFileFails
  BY <1>5, NextFileInv, NextFileFailsInv
<1>6. CASE UNCHANGED vars
  BY <1>6, StutterInv
<1> QED
  BY <1>1, <1>2, <1>3, <1>4, <1>5, <1>6 DEF Next

LEMMA InvAlways == Spec => []Inv
  BY InitInv, InvKept, PTL DEF Spec

-----------------------------------------------------------------------------
(* Whatever a plugin says and wherever it is cut, each message is taken out*)
(* of the buffer once and in order, and the buffer holds exactly what      *)
(* follows them (process_reply and the memmove in recv).                   *)
THEOREM NothingEverLost == Spec => []NothingLost
<1>1. Inv => NothingLost
  <2> SUFFICES ASSUME Inv PROVE NothingLost
    OBVIOUS
  <2>1. processed = [i \in 1..Len(processed) |-> i]
    BY DEF Inv, InOrder, P
  <2>2. ASSUME open, pc = "select"
        PROVE  mdata = [j \in 1..bytesRead - Start[Len(processed) + 1] |->
                          Start[Len(processed) + 1] + j - 1]
    <3>1. /\ Len(mdata) \in Nat /\ bytesRead \in Nat /\ mdata \in Seq(Nat)
          /\ \A j \in 1..Len(mdata) : mdata[j] = First + j - 1
          /\ Start[Len(processed) + 1] = First
      BY <2>2 DEF Inv, Typed, Buffered, P
    <3>2. bytesRead - First = Len(mdata)
      BY <3>1 DEF First
    <3>3. mdata \in [1..Len(mdata) -> Nat]
      BY <3>1, LenProperties
    <3> QED
      BY <3>1, <3>2, <3>3
  <2> QED
    BY <2>1, <2>2 DEF NothingLost
<1> QED
  BY <1>1, InvAlways, PTL

(* A request, or the end of a round, that a plugin waits to be answered is *)
(* not forgotten by the parsing of what came with it.                      *)
THEOREM RequestAlwaysKept == Spec => []RequestKept
<1>1. Inv => RequestKept
  <2> SUFFICES ASSUME Inv, open, pc = "select", waits, processed # <<>>, answered < Latest
               PROVE  CASE script[Latest].op = "seek" -> seekRequest = Latest
                        [] script[Latest].op = "done" -> roundFinished
                        [] OTHER -> FALSE
    BY DEF RequestKept
  <2>1. P > 0
    BY EmptySeq DEF Inv, Typed, P
  <2>2. Latest = P
    BY <2>1, LatestIs
  <2>3. \/ script[P].op = "seek" /\ seekRequest = P
        \/ script[P].op = "done" /\ roundFinished
    BY <2>2 DEF Inv, InTurn
  <2> QED
    BY <2>2, <2>3
<1> QED
  BY <1>1, InvAlways, PTL

(* A buffer that is full and may not grow holds a part of a misfit. *)
LEMMA TooLargeIsMisfit == ASSUME Inv, TooLarge PROVE P < N /\ Misfit(script[P + 1])
<1>1. open /\ pc = "select" /\ Len(mdata) = MaxMetaData
  BY DEF TooLarge, Readable, ListenedTo, Full
<1>2. Len(mdata) \in Nat \ {0}
  BY <1>1, SizesAssumption
<1>3. mdata # <<>>
  BY <1>2
<1>4. P < N /\ Len(mdata) < Size(script[P + 1]) /\ P \in Nat /\ N \in Nat
  BY <1>1, <1>3, StartsAre DEF Inv, Buffered
<1>5. P + 1 \in 1..N /\ script[P + 1] \in Message
  BY <1>4 DEF Inv, Typed, N
<1>6. Size(script[P + 1]) > MaxMetaData
  BY <1>1, <1>4, <1>5, SizePositive, SizesAre
<1> QED
  BY <1>4, <1>6 DEF Misfit

(* A plugin that waits and is listened to has got all its answers, unless  *)
(* its round is over.                                                      *)
LEMMA ItsTurn ==
  ASSUME Inv, ListenedTo, waits
  PROVE  answered = P \/ roundFinished
<1>1. open /\ seekRequest = 0 /\ answered \in 0..P /\ P \in Nat
  BY StartsAre DEF ListenedTo, NoSeek, Inv, Typed
<1>2. answered < P => seekRequest = P \/ roundFinished
  BY <1>1 DEF Inv, InTurn
<1> QED
  BY <1>1, <1>2

(* recv kills a living plugin only for the message it has come to, when a  *)
(* system call fails, or for its silence; and then one that waits for its  *)
(* answers has got them all, or has finished (EXTRACTOR_IPC_channel_recv_).*)
THEOREM KilledAlwaysForCause == Spec => KilledForCause
<1> DEFINE Cause == \/ failed'
                    \/ Len(processed) < Len(script) /\ Misfit(script[Len(processed) + 1])
                    \/ /\ pc = "select" /\ written = bytesRead
                       /\ waits => answered = Len(processed) \/ roundFinished
<1>1. Inv /\ [Next]_vars => [process = "runs" /\ process' = "killed" => Cause]_vars
  <2> SUFFICES ASSUME Inv, Next, process = "runs", process' = "killed" PROVE Cause
    OBVIOUS
  <2>1. CASE SelectTimeout
    <3>1. CASE failed'
      BY <3>1
    <3>2. CASE ~Readable
      <4>1. ListenedTo /\ pc = "select" /\ written <= bytesRead
        BY <2>1, <3>2 DEF SelectTimeout, Readable, ListenedTo, Inv, Typed
      <4>2. written = bytesRead
        BY <4>1 DEF Inv, Typed
      <4>3. waits => answered = Len(processed) \/ roundFinished
        BY <4>1, ItsTurn DEF P
      <4> QED
        BY <4>1, <4>2, <4>3
    <3> QED
      BY <2>1, <3>1, <3>2 DEF SelectTimeout
  <2>2. CASE TooLarge
    BY <2>2, TooLargeIsMisfit DEF P, N
  <2>3. CASE ReplyBad
    BY <2>3, BadIsMisfit DEF P, N
  <2>4. CASE RecvFails
    BY <2>4 DEF RecvFails
  <2>5. CASE ReadEOF
    BY <2>5 DEF ReadEOF, Readable, Inv, Typed
  <2>6. CASE ReplyMetaUnanswered \/ AnswerFails \/ NextFileFails
    BY <2>6 DEF ReplyMetaUnanswered, AnswerFails, NextFileFails
  <2>7. CASE \/ Write \/ Die \/ ReadPipe \/ ReplyDone \/ ReplySeek \/ ReplyMeta
             \/ ReplyMetaIgnored \/ ReplyPartial \/ ReplyAll \/ Answer \/ NextFile
    BY <2>7 DEF Write, Die, ReadPipe, ReplyDone, ReplySeek, ReplyMeta, ReplyMetaIgnored,
      ReplyPartial, ReplyAll, Answer, NextFile
  <2> QED
    BY <2>1, <2>2, <2>3, <2>4, <2>5, <2>6, <2>7 DEF Next, Recv, Serve
<1> QED
  BY <1>1, InvAlways, PTL DEF Spec, KilledForCause
=============================================================================
