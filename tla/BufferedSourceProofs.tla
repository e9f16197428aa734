------------------------ MODULE BufferedSourceProofs ------------------------
(***************************************************************************)
(* The buffered source keeps its buffer and implements a plain source of   *)
(* bytes, for every file, buffer size, client and number of failing system *)
(* calls.  The read(2) that refills the buffer for bfds_seek is assumed not*)
(* to fail.                                                                *)
(***************************************************************************)
EXTENDS BufferedSource, SequenceTheorems, TLAPS

(* The buffer lies within the file, and the position within the buffer. *)
Placed ==
  /\ fsize \in Nat \ {0} /\ inMemory \in BOOLEAN
  /\ fpos \in Nat /\ bufferPos \in Nat /\ bufferBytes \in Nat /\ held \in Nat
  /\ faults \in Nat
  /\ fpos + bufferBytes <= fsize
  /\ bufferPos <= bufferBytes
  /\ inMemory => fpos = 0 /\ bufferBytes = fsize

(* A read in progress has copied the bytes in front of the position. *)
InProgress ==
  /\ want \in Nat
  /\ got \in Seq(Int)
  /\ want > 0 =>
       /\ bcall = ReadCall(Len(got) + want)
       /\ Len(got) <= Position
       /\ got = Run(Position - Len(got), Len(got))

(* The source on its own serves its client's calls only. *)
Ordered == want > 0 => bcall \in Calls

Inv == Placed /\ BufferAtPosition /\ InProgress

-----------------------------------------------------------------------------
LEMMA RunIs ==
  ASSUME NEW b \in Int, NEW k \in Nat
  PROVE  /\ Run(b, k) \in Seq(Int) /\ Len(Run(b, k)) = k
         /\ \A i \in 1..k : Run(b, k)[i] = b + i - 1
BY DEF Run

(* Bytes that follow each other are one run of bytes. *)
LEMMA RunJoined ==
  ASSUME NEW a \in Int, NEW m \in Nat, NEW n \in Nat
  PROVE  Run(a, m) \o Run(a + m, n) = Run(a, m + n)
<1> DEFINE s == Run(a, m)  t == Run(a + m, n)  u == Run(a, m + n)
<1>1. s \in Seq(Int) /\ Len(s) = m /\ \A i \in 1..m : s[i] = a + i - 1
  BY RunIs
<1>2. t \in Seq(Int) /\ Len(t) = n /\ \A i \in 1..n : t[i] = (a + m) + i - 1
  <2>1. a + m \in Int
    OBVIOUS
  <2> QED
    BY <2>1, RunIs
<1>3. u \in Seq(Int) /\ Len(u) = m + n /\ \A i \in 1..m + n : u[i] = a + i - 1
  <2>1. m + n \in Nat
    OBVIOUS
  <2> QED
    BY <2>1, RunIs
<1> HIDE DEF s, t, u
<1>4. /\ s \o t \in Seq(Int) /\ Len(s \o t) = m + n
      /\ \A i \in 1..m + n : (s \o t)[i] = IF i <= m THEN s[i] ELSE t[i - m]
  BY SMTT(30), <1>1, <1>2, ConcatProperties
<1>5. ASSUME NEW i \in 1..m + n PROVE (s \o t)[i] = u[i]
  <2>1. CASE i <= m
    BY <2>1, <1>1, <1>3, <1>4
  <2>2. CASE ~(i <= m)
    <3>1. (s \o t)[i] = t[i - m]
      BY <2>2, <1>4
    <3>2. t[i - m] = (a + m) + (i - m) - 1
      <4>1. i - m \in 1..n
        BY <2>2
      <4> QED
        BY <4>1, <1>2
    <3>3. (a + m) + (i - m) - 1 = a + i - 1
      OBVIOUS
    <3>4. u[i] = a + i - 1
      BY <1>3
    <3> QED
      BY <3>1, <3>2, <3>3, <3>4
  <2> QED
    BY <2>1, <2>2
<1>6. s \o t = u
  BY <1>3, <1>4, <1>5, SeqEqual
<1> QED
  BY <1>6 DEF s, t, u

(* The buffer is never empty by itself. *)
LEMMA SomeBuffer ==
  ASSUME Placed PROVE BufferSize \in Nat \ {0}
BY MaxReadAssumption DEF Placed, BufferSize, Lesser

(* What the loop's body copies continues what has been copied. *)
LEMMA CopiedOn ==
  ASSUME Inv, want > 0, NEW n \in Nat, n <= want, Copied(n, Position),
         Position' = Position + n, bcall' = bcall
  PROVE  /\ InProgress'
         /\ got' = Run(Position - Len(got), Len(got) + n)
         /\ Len(got') = Len(got) + n
<1>1. /\ Len(got) \in Nat /\ Position \in Nat /\ Position - Len(got) \in Nat
      /\ want \in Nat
      /\ got = Run(Position - Len(got), Len(got))
  BY DEF Inv, Placed, InProgress, Position
<1>2. got' = Run(Position - Len(got), Len(got)) \o Run(Position, n)
  BY <1>1 DEF Copied
<1>3. Position = (Position - Len(got)) + Len(got)
  BY <1>1
<1>4. got' = Run(Position - Len(got), Len(got) + n)
  <2> DEFINE a == Position - Len(got)  m == Len(got)
  <2>1. a \in Int /\ m \in Nat /\ Position = a + m
    BY <1>1, <1>3
  <2>2. got' = Run(a, m) \o Run(a + m, n)
    BY <1>2, <2>1
  <2> HIDE DEF a, m
  <2>3. got' = Run(a, m + n)
    BY <2>1, <2>2, RunJoined
  <2> QED
    BY <2>3 DEF a, m
<1>5. got' \in Seq(Int) /\ Len(got') = Len(got) + n
  BY <1>1, <1>4, RunIs
<1>6. want' \in Nat /\ (want' > 0 => want' = want - n)
  BY <1>1 DEF Copied
<1>7. Position' - Len(got') = Position - Len(got) /\ Len(got') <= Position'
  BY <1>1, <1>5
<1>8. ASSUME want' > 0
      PROVE  /\ bcall' = ReadCall(Len(got') + want')
             /\ got' = Run(Position' - Len(got'), Len(got'))
  <2>1. bcall = ReadCall(Len(got) + want)
    BY DEF Inv, InProgress
  <2>2. Len(got) + want = Len(got') + want'
    BY <1>1, <1>5, <1>6, <1>8
  <2>3. got' = Run(Position' - Len(got'), Len(got'))
    BY <1>4, <1>5, <1>7
  <2> QED
    BY <2>1, <2>2, <2>3
<1> QED
  BY <1>4, <1>5, <1>6, <1>7, <1>8 DEF InProgress

-----------------------------------------------------------------------------
(* The invariant *)

LEMMA BInitInv ==
  ASSUME NEW sizes, sizes \subseteq Nat \ {0}, BInit(sizes)
  PROVE  Inv
BY MaxReadAssumption
DEF BInit, Inv, Placed, InProgress, BufferAtPosition, BufferSize, Lesser

LEMMA ReadKeeps ==
  ASSUME Inv, NEW count \in Nat, BRead(count)
  PROVE  Inv' /\ (want' > 0 => bcall' = ReadCall(count))
<1>1. Placed' /\ BufferAtPosition' /\ Position' = Position /\ Position \in Nat
  BY DEF Inv, Placed, BufferAtPosition, BRead, file, buffer, Position
<1>2. CASE UNCHANGED <<want, got>> /\ want = 0
  BY <1>1, <1>2 DEF Inv, InProgress
<1>3. CASE want' = count /\ got' = <<>> /\ bcall' = ReadCall(count)
  <2>1. got' \in Seq(Int) /\ Len(got') = 0 /\ want' \in Nat
    BY <1>3
  <2>2. Run(Position' - Len(got'), Len(got')) = <<>>
    BY <1>1, <2>1 DEF Run
  <2>3. Len(got') + want' = count
    BY <1>3, <2>1
  <2> QED
    BY <1>1, <1>3, <2>1, <2>2, <2>3 DEF Inv, InProgress
<1> QED
  BY <1>2, <1>3 DEF BRead, Serving, Inv, InProgress

LEMMA CopyBufferedKeeps ==
  ASSUME Inv, CopyBuffered
  PROVE  Inv'
<1> DEFINE n == Lesser(want, bufferBytes - bufferPos)
<1>1. /\ n \in Nat /\ n <= want /\ n <= bufferBytes - bufferPos /\ want > 0
      /\ held + bufferPos = Position
  BY DEF Inv, Placed, InProgress, BufferAtPosition, CopyBuffered, Serving, Lesser, Position
<1>2. Copied(n, Position) /\ bufferPos' = bufferPos + n
  BY <1>1 DEF CopyBuffered
<1> HIDE DEF n
<1>3. Placed' /\ BufferAtPosition' /\ Position' = Position + n /\ bcall' = bcall
  BY <1>1, <1>2 DEF Inv, Placed, BufferAtPosition, CopyBuffered, file, Position
<1> QED
  BY <1>1, <1>2, <1>3, CopiedOn DEF Inv

LEMMA RefillAndCopyKeeps ==
  ASSUME Inv, RefillAndCopy
  PROVE  Inv'
<1> DEFINE next == fpos + bufferBytes
           n    == Lesser(want, Lesser(BufferSize, fsize - next))
<1>1. BufferSize \in Nat \ {0}
  BY SomeBuffer DEF Inv
<1>2. /\ n \in Nat /\ n <= want /\ n <= BufferSize /\ n <= fsize - next
      /\ want > 0 /\ next = Position /\ next \in Nat /\ next <= fsize
  BY <1>1 DEF Inv, Placed, InProgress, RefillAndCopy, Serving, Lesser, Position
<1>3. Copied(n, Position) /\ PickNextBufferAt(Position, n)
  BY <1>2 DEF RefillAndCopy
<1>4. bcall' = bcall /\ fsize' = fsize /\ inMemory' = inMemory /\ faults' = faults
  BY DEF RefillAndCopy, file
<1>5. Placed' /\ BufferAtPosition' /\ Position' = Position + n
  <2>1. CASE inMemory
    BY <2>1, <1>2, <1>3, <1>4 DEF Inv, Placed, BufferAtPosition, PickNextBufferAt, Position
  <2>2. CASE ~inMemory
    <3>1. /\ fpos' = next /\ held' = next /\ bufferPos' = n
          /\ bufferBytes' = Lesser(BufferSize, fsize - next)
      BY <2>2, <1>2, <1>3 DEF PickNextBufferAt
    <3>2. bufferBytes' \in Nat /\ n <= bufferBytes' /\ bufferBytes' <= fsize - next
      <4>1. \A a, b \in Nat, c \in Nat :
              Lesser(a, b) \in Nat /\ Lesser(a, b) <= b /\ Lesser(c, Lesser(a, b)) <= Lesser(a, b)
        BY DEF Lesser
      <4>2. fsize - next \in Nat /\ want \in Nat
        BY <1>2 DEF Inv, Placed, InProgress
      <4> QED
        BY <3>1, <1>1, <4>1, <4>2
    <3> QED
      BY <3>1, <3>2, <2>2, <1>2, <1>4 DEF Inv, Placed, BufferAtPosition, Position
  <2> QED
    BY <2>1, <2>2
<1> HIDE DEF next, n
<1> QED
  BY <1>2, <1>3, <1>4, <1>5, CopiedOn DEF Inv

LEMMA RefillFailsKeeps ==
  ASSUME Inv, RefillFails
  PROVE  Inv'
<1>1. /\ fpos' = Position - Len(got) /\ Position \in Nat /\ Len(got) \in Nat
      /\ Len(got) <= Position
  BY DEF Inv, Placed, InProgress, RefillFails, Serving, Position
<1>2. Placed' /\ BufferAtPosition'
  BY <1>1, MaxFaultsAssumption
  DEF Inv, Placed, BufferAtPosition, RefillFails, Fault, file, Position
<1>3. InProgress'
  BY DEF Inv, InProgress, RefillFails
<1> QED
  BY <1>2, <1>3 DEF Inv

LEMMA SeekKeeps ==
  ASSUME Inv, SeekFaults = FALSE,
         NEW off \in Int, NEW whence \in {"set", "cur", "end"}, BSeek(off, whence)
  PROVE  Inv'
<1> DEFINE target == Target(SeekCall(off, whence), Position, fsize)
           inside == inMemory \/ target - fpos \in 0..bufferBytes - 1
<1>1. target \in Int /\ BufferSize \in Nat \ {0}
  BY SomeBuffer DEF Target, SeekCall, Position, Inv, Placed
<1>2. InProgress' /\ UNCHANGED file
  BY DEF Inv, InProgress, BSeek, Serving
<1> HIDE DEF target
<1>3. CASE UNCHANGED buffer /\ faults' \in Nat
  BY <1>2, <1>3 DEF Inv, Placed, BufferAtPosition, buffer, file
<1>4. CASE /\ target \in 0..fsize /\ inside
           /\ bufferPos' = target - fpos
           /\ UNCHANGED <<fpos, bufferBytes, held, faults>>
  BY <1>1, <1>2, <1>4 DEF Inv, Placed, BufferAtPosition, file
<1>5. CASE /\ target \in 0..fsize /\ ~inMemory
           /\ PickNextBufferAt(target, 0)
           /\ UNCHANGED faults
  <2>1. /\ fpos' = target /\ held' = target /\ bufferPos' = 0
        /\ bufferBytes' \in Nat /\ bufferBytes' <= fsize - target
    BY <1>1, <1>5 DEF PickNextBufferAt, Lesser, Inv, Placed
  <2>2. fsize' = fsize /\ fsize \in Nat \ {0} /\ faults' \in Nat
    BY <1>2, <1>5 DEF Inv, Placed, file
  <2>3. target \in 0..fsize
    BY <1>5
  <2>4. fpos' \in Nat /\ fpos' + bufferBytes' <= fsize' /\ bufferPos' <= bufferBytes'
    <3>1. \A t, b, f \in Int : t \in 0..f /\ b <= f - t => t \in Nat /\ t + b <= f
      OBVIOUS
    <3>2. fpos' \in 0..fsize' /\ bufferBytes' <= fsize' - fpos'
      BY <2>1, <2>2, <2>3
    <3>3. fpos' \in Int /\ fsize' \in Int /\ bufferBytes' \in Int
      BY <2>1, <2>2, <1>1
    <3>4. fpos' \in Nat /\ fpos' + bufferBytes' <= fsize'
      BY <3>1, <3>2, <3>3
    <3>5. bufferPos' = 0 /\ bufferBytes' \in Nat
      BY <2>1
    <3> QED
      BY <3>4, <3>5
  <2>5. inMemory' \in BOOLEAN /\ ~inMemory'
    BY <1>2, <1>5 DEF Inv, Placed, file
  <2>6. Placed'
    BY <2>1, <2>2, <2>4, <2>5 DEF Placed
  <2>7. BufferAtPosition'
    BY <2>1 DEF BufferAtPosition
  <2> QED
    BY <1>2, <2>6, <2>7 DEF Inv
<1> QED
  BY <1>3, <1>4, <1>5, MaxFaultsAssumption
  DEF BSeek, target, Fault, buffer, Inv, Placed

LEMMA StepKeeps ==
  ASSUME Inv, BStep
  PROVE  Inv'
BY CopyBufferedKeeps, RefillAndCopyKeeps, RefillFailsKeeps DEF BStep

LEMMA StutterKeeps ==
  ASSUME Inv, UNCHANGED bvars
  PROVE  Inv'
BY DEF bvars, Inv, Placed, BufferAtPosition, InProgress, Position

(* Where a seek leads, and that it fails only for want of a legal target or *)
(* with a system call.                                                     *)
LEMMA SeekLeads ==
  ASSUME Inv, SeekFaults = FALSE,
         NEW off \in Int, NEW whence \in {"set", "cur", "end"}, BSeek(off, whence),
         NEW target \in Int, target = Target(SeekCall(off, whence), Position, fsize)
  PROVE  /\ want = 0 /\ want' = 0 /\ fsize' = fsize
         /\ \/ /\ target \in 0..fsize /\ Position' = target /\ faults' = faults
               /\ breply' = Answer(SeekCall(off, whence), target, <<>>)
            \/ /\ breply' = Failure(SeekCall(off, whence))
               /\ (target \notin 0..fsize /\ faults' = faults) \/ faults' = faults + 1
<1>1. want = 0 /\ want' = 0 /\ fsize' = fsize
  BY DEF BSeek, Serving, file, Inv, InProgress
<1>2. fpos \in Int /\ faults \in Nat
  BY DEF Inv, Placed
<1>3. \/ target \notin 0..fsize /\ breply' = Failure(SeekCall(off, whence)) /\ faults' = faults
      \/ /\ target \in 0..fsize
         /\ fpos' = fpos /\ bufferPos' = target - fpos
         /\ breply' = Answer(SeekCall(off, whence), target, <<>>) /\ faults' = faults
      \/ /\ target \in 0..fsize /\ PickNextBufferAt(target, 0)
         /\ ~inMemory
         /\ breply' = Answer(SeekCall(off, whence), target, <<>>) /\ faults' = faults
      \/ faults' = faults + 1 /\ breply' = Failure(SeekCall(off, whence))
  BY DEF BSeek, Returns, Fails, Fault
<1>4. fpos' = fpos /\ bufferPos' = target - fpos => Position' = target
  BY <1>2 DEF Position
<1>5. PickNextBufferAt(target, 0) /\ ~inMemory => Position' = target
  BY DEF PickNextBufferAt, Position
<1> QED
  BY <1>1, <1>3, <1>4, <1>5

(* Every step of a read copies what comes next, or gives up. *)
LEMMA StepCopies ==
  ASSUME Inv, BStep
  PROVE  \/ RefillFails /\ faults' # faults
         \/ \E n \in Nat : /\ n <= want /\ want > 0 /\ Copied(n, Position)
                           /\ Position' = Position + n
                           /\ UNCHANGED <<fsize, faults, bcall>>
                           /\ n = 0 => Position = fsize
<1>1. CASE CopyBuffered
  <2> DEFINE n == Lesser(want, bufferBytes - bufferPos)
  <2>1. /\ n \in Nat /\ n # 0 /\ n <= want /\ want > 0
        /\ held + bufferPos = Position
    BY <1>1
    DEF Inv, Placed, InProgress, BufferAtPosition, CopyBuffered, Serving, Lesser, Position
  <2>2. Copied(n, Position) /\ bufferPos' = bufferPos + n /\ fpos' = fpos
        /\ UNCHANGED <<fsize, faults, bcall>>
    BY <1>1, <2>1 DEF CopyBuffered, file
  <2> HIDE DEF n
  <2>3. Position' = Position + n
    BY <2>1, <2>2 DEF Inv, Placed, Position
  <2> QED
    BY <2>1, <2>2, <2>3
<1>2. CASE RefillAndCopy
  <2> DEFINE next == fpos + bufferBytes
             n    == Lesser(want, Lesser(BufferSize, fsize - next))
  <2>1. BufferSize \in Nat \ {0}
    BY SomeBuffer DEF Inv
  <2>2. /\ n \in Nat /\ n <= want /\ want > 0 /\ next = Position /\ next \in Nat
        /\ n = 0 => Position = fsize
    BY <1>2, <2>1 DEF Inv, Placed, InProgress, RefillAndCopy, Serving, Lesser, Position
  <2>3. Copied(n, Position) /\ PickNextBufferAt(Position, n)
        /\ UNCHANGED <<fsize, faults, bcall>>
    BY <1>2, <2>2 DEF RefillAndCopy, file
  <2> HIDE DEF next, n
  <2>4. Position' = Position + n
    <3>1. CASE inMemory
      BY <3>1, <2>2, <2>3 DEF PickNextBufferAt, Position, Inv, Placed
    <3>2. CASE ~inMemory
      BY <3>2, <2>2, <2>3 DEF PickNextBufferAt, Position, Inv, Placed
    <3> QED
      BY <3>1, <3>2
  <2> QED
    BY <2>2, <2>3, <2>4
<1>3. CASE RefillFails
  <2>1. faults' # faults
    BY <1>3 DEF RefillFails, Fault, Inv, Placed
  <2> QED
    BY <1>3, <2>1
<1> QED
  BY <1>1, <1>2, <1>3 DEF BStep

LEMMA CallKeeps ==
  ASSUME Inv, SeekFaults = FALSE, NEW call \in Calls, BCall(call)
  PROVE  Inv' /\ (want' > 0 => bcall' = call)
<1>1. CASE call.op = "read" /\ BRead(call.count)
  BY <1>1, CallsAssumption, ReadKeeps
<1>2. CASE call.op = "seek" /\ BSeek(call.off, call.whence)
  <2>1. Inv'
    BY <1>2, CallsAssumption, SeekKeeps
  <2>2. want' = want /\ want = 0
    BY <1>2 DEF BSeek, Serving, Inv, InProgress
  <2> QED
    BY <2>1, <2>2
<1> QED
  BY <1>1, <1>2 DEF BCall

LEMMA InvInit == Init => Inv /\ Ordered
<1>1. Init => Inv
  BY SizesAssumption, BInitInv DEF Init
<1> QED
  BY <1>1 DEF Init, BInit, Ordered

LEMMA InvKept ==
  ASSUME Inv, Ordered, SeekFaults = FALSE, [Next]_bvars
  PROVE  Inv' /\ Ordered'
<1>1. CASE UNCHANGED bvars
  BY <1>1, StutterKeeps DEF bvars, Ordered
<1>2. ASSUME NEW call \in Calls, BCall(call) PROVE Inv' /\ Ordered'
  BY <1>2, CallKeeps DEF Ordered
<1>3. CASE BStep
  <2>1. want > 0 /\ bcall' = bcall
    BY <1>3 DEF BStep, CopyBuffered, RefillAndCopy, RefillFails, Serving
  <2> QED
    BY <1>3, <2>1, StepKeeps DEF Ordered
<1> QED
  BY <1>1, <1>2, <1>3 DEF Next

(* Unless a refill for bfds_seek fails, the valid bytes of the buffer are  *)
(* always those at fpos.                                                   *)
THEOREM BufferAlwaysAtPosition ==
  ASSUME SeekFaults = FALSE PROVE Spec => []BufferAtPosition
<1>1. Inv => BufferAtPosition
  BY DEF Inv
<1> QED
  BY <1>1, InvInit, InvKept, PTL DEF Spec

-----------------------------------------------------------------------------
(* The refinement *)

(* Between calls the committed position is the position. *)
Positions ==
  /\ Committed \in 0..fsize /\ Position \in 0..fsize
  /\ want = 0 => Committed = Position
  /\ want > 0 => Committed = Position - Len(got)

LEMMA CommittedIs == Inv => Positions
<1> SUFFICES ASSUME Inv PROVE Positions
  OBVIOUS
<1>1. /\ fpos \in Nat /\ bufferPos \in Nat /\ bufferBytes \in Nat /\ fsize \in Nat
      /\ bufferPos <= bufferBytes /\ fpos + bufferBytes <= fsize
  BY DEF Inv, Placed
<1>2. want \in Nat /\ Len(got) \in Nat /\ (want > 0 => Len(got) <= Position)
  BY DEF Inv, InProgress
<1>3. Position \in 0..fsize
  BY <1>1 DEF Position
<1>4. CASE want > 0
  <2>1. Committed = Position - Len(got)
    BY <1>1, <1>2, <1>4 DEF Committed, Position
  <2>2. Committed \in 0..fsize
    <3>1. \A p, f, l \in Int : p \in 0..f /\ l \in Nat /\ l <= p => p - l \in 0..f
      OBVIOUS
    <3>2. Position \in Int /\ fsize \in Int /\ Len(got) \in Int
      BY <1>1, <1>2, <1>3
    <3>3. Position \in 0..fsize /\ Len(got) \in Nat /\ Len(got) <= Position
      BY <1>2, <1>3, <1>4
    <3> QED
      BY <2>1, <3>1, <3>2, <3>3
  <2> QED
    BY <1>2, <1>3, <1>4, <2>1, <2>2 DEF Positions
<1>5. CASE want = 0
  <2>1. Committed = Position
    BY <1>1, <1>5 DEF Committed, Position
  <2> QED
    BY <1>3, <1>5, <2>1 DEF Positions
<1> QED
  BY <1>2, <1>4, <1>5

(* A finished call that leaves the source where it belongs is one of the   *)
(* abstract source's.                                                      *)
LEMMA AbstractRead ==
  ASSUME NEW call \in Calls, call.op = "read", Inv, Inv', want' = 0,
         UNCHANGED <<fsize, faults>>,
         NEW n \in Nat, n = Lesser(call.count, fsize - Committed),
         Committed' = Committed + n, Committed \in 0..fsize,
         breply' = Answer(call, n, Run(Committed, n))
  PROVE  Abstract!Next
<1>1. call.count \in Nat /\ fsize \in Nat
  BY CallsAssumption DEF Inv, Placed
<1>2. Abstract!Suffices(n, Abstract!Lesser(call.count, fsize - Committed))
  BY DEF Abstract!Suffices, Abstract!Lesser, Lesser
<1>3. n \in 0..Abstract!Lesser(call.count, fsize - Committed)
  BY DEF Abstract!Lesser, Lesser
<1>4. Abstract!Read(call)
  BY <1>2, <1>3 DEF Abstract!Read, Abstract!Answer, Abstract!Run, Answer, Run
<1> QED
  BY <1>4 DEF Abstract!Next

LEMMA CommittedNow ==
  ASSUME Inv, Inv'
  PROVE  Positions /\ Positions'
BY CommittedIs, CommittedIs, PTL

(* Copying goes on, or ends with all that was asked for or there was. *)
LEMMA AbstractCopied ==
  ASSUME Inv, Inv', Ordered, want > 0, NEW n \in Nat, n <= want, Copied(n, Position),
         Position' = Position + n, UNCHANGED <<fsize, faults, bcall>>,
         n = 0 => Position = fsize
  PROVE  [Abstract!Next]_(Abstract!vars)
<1>1. /\ Committed \in 0..fsize /\ Position \in 0..fsize /\ Position' \in 0..fsize
      /\ Committed = Position - Len(got)
      /\ want' = 0 => Committed' = Position'
      /\ want' > 0 => Committed' = Position' - Len(got')
  BY CommittedNow DEF Positions
<1>2. got' = Run(Committed, Len(got')) /\ Len(got') = Len(got) + n
  BY <1>1, CopiedOn
<1>3. /\ Len(got) \in Nat /\ want \in Nat /\ fsize \in Nat
      /\ bcall \in Calls /\ bcall.op = "read" /\ bcall.count = Len(got) + want
  BY DEF Inv, InProgress, Placed, Ordered, ReadCall
<1>4. CASE n = want \/ n = 0
  <2>1. want' = 0 /\ breply' = Answer(bcall, Len(got'), got')
    BY <1>4 DEF Copied, Returns
  <2>2. Committed' = Committed + Len(got') /\ Len(got') \in Nat
    BY <1>1, <1>2, <1>3, <2>1
  <2>3. Len(got') = Lesser(bcall.count, fsize - Committed)
    BY <1>1, <1>2, <1>3, <1>4 DEF Lesser
  <2> QED
    BY <1>1, <1>2, <1>3, <2>1, <2>2, <2>3, AbstractRead
<1>5. CASE ~(n = want \/ n = 0)
  <2>1. want' = want - n /\ breply' = breply
    BY <1>5 DEF Copied
  <2>2. want' > 0
    BY <1>3, <1>5, <2>1
  <2>3. Committed' = Committed
    BY <1>1, <1>2, <1>3, <2>2
  <2> QED
    BY <2>1, <2>3 DEF Abstract!vars
<1> QED
  BY <1>4, <1>5

LEMMA AbstractStep ==
  ASSUME Inv, Inv', Ordered, BStep
  PROVE  [Abstract!Next]_(Abstract!vars)
<1>1. CASE RefillFails
  <2>1. /\ Committed \in 0..fsize /\ Position' \in 0..fsize
        /\ Committed = Position - Len(got) /\ Committed' = Position'
    <3>1. want > 0
      BY <1>1 DEF RefillFails, Serving
    <3>2. want' = 0
      BY <1>1 DEF RefillFails
    <3>3. Positions /\ Positions'
      BY CommittedNow
    <3>4. Committed \in 0..fsize /\ Committed = Position - Len(got)
      BY <3>1, <3>3 DEF Positions
    <3>5. Position' \in 0..fsize' /\ Committed' = Position'
      BY <3>2, <3>3 DEF Positions
    <3>6. fsize' = fsize
      BY <1>1 DEF RefillFails, file
    <3> QED
      BY <3>4, <3>5, <3>6
  <2>2. fpos' = Position - Len(got) /\ bufferPos' = 0
    <3>1. fpos' = fpos + bufferPos - Len(got) /\ bufferPos' = 0
      BY <1>1 DEF RefillFails
    <3>2. Position = fpos + bufferPos /\ fpos \in Nat /\ bufferPos \in Nat /\ Len(got) \in Nat
      BY DEF Position, Inv, Placed, InProgress
    <3> QED
      BY <3>1, <3>2
  <2>3. Committed' = Committed
    BY <2>1, <2>2 DEF Position
  <2>4. faults' > 0 /\ fsize' = fsize
    BY <1>1 DEF RefillFails, Fault, Inv, Placed, file
  <2>5. bcall \in Calls /\ bcall.op = "read" /\ breply' = Failure(bcall)
    BY <1>1 DEF RefillFails, Fails, Serving, Inv, InProgress, Ordered, ReadCall
  <2>6. Abstract!ReadFails(bcall)
    BY <2>1, <2>3, <2>4, <2>5 DEF Abstract!ReadFails, Failure, Answer
  <2> QED
    BY <2>4, <2>5, <2>6 DEF Abstract!Next
<1>2. CASE \E n \in Nat : /\ n <= want /\ want > 0 /\ Copied(n, Position)
                          /\ Position' = Position + n
                          /\ UNCHANGED <<fsize, faults, bcall>>
                          /\ n = 0 => Position = fsize
  <2>1. PICK n \in Nat : /\ n <= want /\ want > 0 /\ Copied(n, Position)
                         /\ Position' = Position + n
                         /\ UNCHANGED <<fsize, faults, bcall>>
                         /\ n = 0 => Position = fsize
    BY <1>2
  <2> QED
    BY <2>1, AbstractCopied
<1> QED
  BY <1>1, <1>2, StepCopies

(* A call that begins, and one that is over at once. *)
LEMMA AbstractBegin ==
  ASSUME Inv, Inv', NEW call \in Calls, call.op = "read", BRead(call.count)
  PROVE  [Abstract!Next]_(Abstract!vars)
<1>1. /\ Committed \in 0..fsize /\ Committed = Position /\ want = 0
      /\ want' = 0 => Committed' = Position'
      /\ want' > 0 => Committed' = Position' - Len(got')
      /\ Position' = Position /\ UNCHANGED <<fsize, faults>>
      /\ Position \in Int
  BY CommittedNow DEF Positions, BRead, Serving, Inv, InProgress, file, buffer, Position
<1>2. call.count \in Nat /\ ReadCall(call.count) = call /\ fsize \in Nat
  BY CallsAssumption DEF Inv, Placed
<1>3. CASE Position = fsize \/ call.count = 0
  <2>1. want' = 0 /\ breply' = Answer(call, 0, <<>>)
    BY <1>1, <1>2, <1>3 DEF BRead, Returns
  <2>2. 0 = Lesser(call.count, fsize - Committed) /\ Run(Committed, 0) = <<>>
    BY <1>1, <1>2, <1>3 DEF Lesser, Run
  <2>3. Committed' = Committed + 0
    BY <1>1, <2>1
  <2> QED
    BY <1>1, <2>1, <2>2, <2>3, AbstractRead
<1>4. CASE ~(Position = fsize \/ call.count = 0)
  <2>1. want' > 0 /\ Len(got') = 0 /\ breply' = breply
    BY <1>2, <1>4 DEF BRead
  <2>2. Committed' = Committed
    BY <1>1, <2>1
  <2> QED
    BY <1>1, <2>1, <2>2 DEF Abstract!vars
<1> QED
  BY <1>3, <1>4

LEMMA AbstractSeek ==
  ASSUME Inv, Inv', SeekFaults = FALSE,
         NEW call \in Calls, call.op = "seek", BSeek(call.off, call.whence)
  PROVE  [Abstract!Next]_(Abstract!vars)
<1> DEFINE target == Target(call, Position, fsize)
<1>1. /\ call \in Calls /\ call = SeekCall(call.off, call.whence)
      /\ call.off \in Int /\ call.whence \in {"set", "cur", "end"}
  BY CallsAssumption
<1>2. target \in Int /\ faults \in Nat
  BY <1>1 DEF Target, Position, Inv, Placed
<1>3. /\ want = 0 /\ want' = 0 /\ fsize' = fsize
      /\ \/ /\ target \in 0..fsize /\ Position' = target /\ faults' = faults
            /\ breply' = Answer(call, target, <<>>)
         \/ /\ breply' = Failure(call)
            /\ (target \notin 0..fsize /\ faults' = faults) \/ faults' = faults + 1
  <2> HIDE DEF target
  <2>1. target = Target(SeekCall(call.off, call.whence), Position, fsize)
    BY <1>1 DEF target
  <2> QED
    BY <1>1, <1>2, <2>1, SeekLeads
<1>4. Committed = Position /\ Committed' = Position' /\ Position' \in 0..fsize
  <2>1. Positions /\ Positions'
    BY CommittedNow
  <2>2. Committed = Position
    BY <1>3, <2>1 DEF Positions
  <2>3. Committed' = Position' /\ Position' \in 0..fsize'
    BY <1>3, <2>1 DEF Positions
  <2> QED
    BY <1>3, <2>2, <2>3
<1>5. target = Abstract!Target(call, Committed, fsize)
  BY <1>4 DEF Abstract!Target, Target
<1>6. faults > 0 => faults' > 0
  BY <1>2, <1>3
<1> HIDE DEF target
<1>7. CASE /\ target \in 0..fsize => faults' > 0
           /\ breply' = Failure(call)
  <2>1. Abstract!SeekFails(call)
    BY <1>4, <1>5, <1>7 DEF Abstract!SeekFails, Abstract!Failure, Abstract!Answer,
                            Failure, Answer
  <2> QED
    BY <1>1, <1>3, <1>6, <2>1 DEF Abstract!Next
<1>8. CASE /\ target \in 0..fsize /\ Position' = target
           /\ breply' = Answer(call, target, <<>>)
  <2>1. Abstract!Seek(call)
    BY <1>4, <1>5, <1>8 DEF Abstract!Seek, Abstract!Answer, Answer
  <2> QED
    BY <1>1, <1>3, <1>6, <2>1 DEF Abstract!Next
<1> QED
  BY <1>2, <1>3, <1>7, <1>8

(* However reads and seeks cross the ends of the buffer, and whichever     *)
(* system calls fail (but for the refill of a seek), every finished call   *)
(* of bfds_read and bfds_seek is one a plain source of bytes allows.       *)
THEOREM BufferedImplementsBytes ==
  ASSUME SeekFaults = FALSE PROVE Spec => ImplementsBytes
<1>1. ASSUME Inv, Inv', Ordered, [Next]_bvars PROVE [Abstract!Next]_(Abstract!vars)
  <2>1. CASE UNCHANGED bvars
    BY <2>1 DEF bvars, Abstract!vars, Committed
  <2>2. ASSUME NEW call \in Calls, BCall(call) PROVE [Abstract!Next]_(Abstract!vars)
    BY <1>1, <2>2, AbstractBegin, AbstractSeek DEF BCall
  <2>3. CASE BStep
    BY <1>1, <2>3, AbstractStep
  <2> QED
    BY <1>1, <2>1, <2>2, <2>3 DEF Next
<1> QED
  BY <1>1, InvInit, InvKept, PTL DEF Spec, ImplementsBytes
=============================================================================
