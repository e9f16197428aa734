--------------------------- MODULE PluginEnvProofs ---------------------------
(***************************************************************************)
(* A plugin that seeks and reads through the window never leaves the file, *)
(* and sees it as a plain source of bytes: for every file that is smaller  *)
(* than half of the address range, every size of the segment, and whatever *)
(* the plugin asks for, however large or negative, and the library finds   *)
(* out about the file's size on the way.  It is assumed not to seek behind *)
(* the end of a file of unknown size.                                      *)
(***************************************************************************)
EXTENDS PluginEnv, TLAPS

End  == shm_off + shm_ready_bytes
Live == {"run", "seek", "answered"}

(* The position a request is really about. *)
Goal == IF wval = 2 THEN size - npos ELSE npos

Typed ==
  /\ size \in Nat /\ size + MapSize < Half
  /\ known \in BOOLEAN /\ served \in BOOLEAN /\ trouble \in BOOLEAN
  /\ pc \in Live \cup {"start", "gone"}
  /\ pc = "start" => reply = NoReply /\ ~served /\ read_position = 0

(* The plugin's idea of the window lies within the file, as the window.    *)
Within ==
  /\ window.off \in Nat /\ window.ready \in Nat /\ window.off + window.ready <= size
  /\ shm_off \in Nat /\ shm_ready_bytes \in Nat /\ End <= size
  /\ read_position \in 0..size
  /\ pc \in Live => file_size \in {size, Max}

(* Between its requests it is right about the window, and is inside of it. *)
Informed ==
  /\ pc \in {"run", "answered"} /\ served =>
       window.off = shm_off /\ window.ready = shm_ready_bytes
  /\ pc = "run" /\ served /\ ~trouble => read_position \in shm_off..End

(* What the call in progress wants. *)
Asking ==
  pc \in {"seek", "answered"} =>
    /\ npos \in 0..size /\ wval \in {0, 2}
    /\ call \in Calls
    /\ \/ call.op = "seek" /\ Goal = Target(call, read_position, size)
       \/ /\ call.op = "read" /\ npos = read_position /\ wval = 0
          /\ count \in Nat /\ count <= call.count /\ count + read_position <= Max
          /\ served /\ ~trouble /\ count = 0 => call.count = 0 \/ read_position = size

(* The library has not forgotten it, and its answer fits. *)
Understood ==
  /\ pc = "seek" =>
       /\ request.off \in 0..size
       /\ \/ request.whence = 2 /\ request.off = npos /\ wval = 2
          \/ /\ request.whence = 0
             /\ ~trouble => request.off = Goal /\ (wval = 2 => known)
  /\ pc = "answered" =>
       /\ served
       /\ ~trouble => /\ shm_off <= Goal
                      /\ End > Goal \/ (shm_off = size /\ file_size = size)
                      /\ wval = 2 => file_size = size

Inv == Typed /\ Within /\ Informed /\ Asking /\ Understood

-----------------------------------------------------------------------------
(* Arithmetic *)

LEMMA Constants ==
  /\ Half \in Nat \ {0} /\ MapSize \in Nat \ {0}
  /\ Width = 2 * Half /\ Max = 2 * Half - 1 /\ Max \in Nat
BY WidthAssumption DEF Width, Max

LEMMA WrapIs ==
  ASSUME NEW n \in Int
  PROVE  /\ n \in 0..Max => Wrap(n) = n
         /\ n < 0 => Wrap(n) = n + Width
         /\ n > Max => Wrap(n) = n - Width
         /\ Wrap(n) \in Int
BY Constants DEF Wrap

LEMMA SignedIs ==
  ASSUME NEW n \in Int
  PROVE  /\ n < Half => Signed(n) = n
         /\ n >= Half => Signed(n) = n - Width
BY Constants DEF Signed

(* What is inside of the file is far from wrapping around. *)
LEMMA Small ==
  ASSUME Inv
  PROVE  /\ size \in Nat /\ size < Half /\ size <= Max
         /\ End \in Nat /\ End <= size /\ Wrap(shm_off + shm_ready_bytes) = End
         /\ shm_off \in Nat /\ shm_off <= End
         /\ read_position \in Nat /\ read_position <= size
<1>1. /\ size \in Nat /\ size < Half /\ size <= Max
      /\ shm_off \in Nat /\ shm_ready_bytes \in Nat
      /\ read_position \in Nat /\ read_position <= size
      /\ shm_off + shm_ready_bytes <= size
  BY Constants DEF Inv, Typed, Within, End
<1>2. shm_off + shm_ready_bytes \in 0..Max
  BY <1>1, Constants
<1>3. Wrap(shm_off + shm_ready_bytes) = shm_off + shm_ready_bytes
  BY <1>2, WrapIs
<1> QED
  BY <1>1, <1>3 DEF End

(* A seek that is not refused wants what it says; in a file of unknown     *)
(* size, a distance from the end.                                          *)
LEMMA WantedIs ==
  ASSUME Inv, pc = "run", NEW c \in Calls, c.op = "seek", ~Refused(c)
  PROVE  /\ Wanted(c) \in Nat
         /\ FromEnd(c) => Wanted(c) = -c.off /\ c.whence = "end"
         /\ ~FromEnd(c) => Wanted(c) = Target(c, read_position, size)
<1>1. c.off \in Int /\ -Half <= c.off /\ c.off < Half /\ c.whence \in {"set", "cur", "end"}
  BY CallsAssumption, Constants
<1>2. file_size = size \/ file_size = Max
  BY DEF Inv, Within, Live
<1>3. CASE c.whence = "set"
  BY <1>1, <1>3 DEF Refused, Wanted, FromEnd, Target
<1>4. CASE c.whence = "cur"
  <2>1. read_position + c.off \in 0..Max
    BY <1>1, <1>4, Small, Constants DEF Refused
  <2>2. Wrap(read_position + c.off) = read_position + c.off
    BY <2>1, WrapIs
  <2> QED
    BY <1>4, <2>1, <2>2, Constants DEF Wanted, FromEnd, Target
<1>5. CASE c.whence = "end"
  <2>1. c.off <= 0
    BY <1>1, <1>5 DEF Refused
  <2>2. CASE file_size = Max
    BY <1>1, <1>5, <2>1, <2>2 DEF Wanted, FromEnd
  <2>3. CASE file_size # Max
    <3>1. file_size = size /\ Wanted(c) = Wrap(size + c.off) /\ ~FromEnd(c)
          /\ ~(Signed(Wrap(size + c.off)) < 0)
      BY <1>2, <1>5, <2>3 DEF Wanted, FromEnd, Refused
    <3>2. size + c.off \in Int /\ size + c.off <= Max
      BY <1>1, <2>1, Small, Constants
    <3>3. CASE size + c.off < 0
      <4>1. Wrap(size + c.off) = size + c.off + Width
        BY <3>2, <3>3, WrapIs
      <4>2. size + c.off + Width >= Half /\ size + c.off + Width \in Int
        BY <1>1, <3>2, Small, Constants
      <4>3. Signed(size + c.off + Width) = size + c.off
        BY <3>2, <4>2, SignedIs, Constants
      <4> QED
        BY <3>1, <3>3, <4>1, <4>3
    <3>4. CASE size + c.off >= 0
      BY <1>5, <3>1, <3>2, <3>4, WrapIs, Constants DEF Target
    <3> QED
      BY <3>2, <3>3, <3>4
  <2> QED
    BY <2>2, <2>3
<1> QED
  BY <1>1, <1>3, <1>4, <1>5

(* A read is cut off so that nothing wraps around. *)
LEMMA CutIs ==
  ASSUME Inv, pc = "run", NEW c \in Calls, c.op = "read"
  PROVE  /\ Cut(c.count) \in Nat /\ Cut(c.count) <= c.count
         /\ Cut(c.count) + read_position <= file_size /\ file_size <= Max
         /\ Cut(c.count) = 0 => c.count = 0 \/ read_position = file_size
<1>1. c.count \in Nat /\ c.count <= Max
  BY CallsAssumption, Constants
<1>2. /\ file_size \in Nat /\ size <= file_size /\ file_size <= Max
  BY Small, Constants DEF Inv, Within, Live
<1>3. file_size - read_position \in 0..Max
  BY <1>2, Small, Constants
<1>4. Wrap(file_size - read_position) = file_size - read_position
  BY <1>3, WrapIs
<1>5. c.count + read_position \in Nat /\ Max \in Int
  BY <1>1, Small, Constants
<1>6. CASE c.count + read_position <= Max
  <2>1. Wrap(c.count + read_position) = c.count + read_position
    BY <1>5, <1>6, WrapIs
  <2>2. Cut(c.count) = IF \/ c.count + read_position > file_size
                          \/ c.count + read_position < read_position
                       THEN file_size - read_position ELSE c.count
    BY <1>4, <2>1 DEF Cut
  <2>3. read_position \in Nat
    BY Small
  <2>4. \A k, p, f \in Nat, m \in Int :
          f - p >= 0 /\ m = (IF k + p > f \/ k + p < p THEN f - p ELSE k)
            => /\ m \in Nat /\ m <= k /\ m + p <= f
               /\ m = 0 => k = 0 \/ p = f
    OBVIOUS
  <2>5. Cut(c.count) \in Int
    BY <1>1, <1>3, <2>2
  <2> QED
    BY <1>1, <1>2, <1>3, <2>2, <2>3, <2>4, <2>5
<1>7. CASE c.count + read_position > Max
  <2>1. Wrap(c.count + read_position) = (c.count + read_position) - Width
    BY <1>1, <1>5, <1>7, WrapIs, Small, Constants
  <2>2. (c.count + read_position) - Width < read_position
    <3>1. c.count < Width /\ Width \in Int /\ read_position \in Int /\ c.count \in Int
      BY <1>1, Small, Constants
    <3> QED
      BY <3>1
  <2>3. Cut(c.count) = file_size - read_position
    <3>1. Wrap(c.count + read_position) < read_position
      BY <2>1, <2>2
    <3> QED
      BY <1>4, <3>1 DEF Cut
  <2>4. \A k, p, f, x \in Nat :
          f - p >= 0 /\ f <= x /\ k + p > x
            => /\ f - p \in Nat /\ f - p <= k /\ (f - p) + p <= f
               /\ f - p = 0 => k = 0 \/ p = f
    OBVIOUS
  <2>5. read_position \in Nat /\ Max \in Nat
    BY Small, Constants
  <2> QED
    BY <1>1, <1>2, <1>3, <1>7, <2>3, <2>4, <2>5
<1> QED
  BY <1>5, <1>6, <1>7

(* What a read from the window delivers; nothing, and a negative count, if *)
(* the position is behind the window.                                      *)
Delivered(n) ==
  \/ /\ read_position <= End
     /\ read_position' = read_position + Lesser(n, End - read_position)
     /\ reply' = Answer(call', Lesser(n, End - read_position),
                        Bytes(Lesser(n, End - read_position)))
  \/ /\ read_position > End
     /\ read_position' = End
     /\ reply' = Answer(call', End - read_position, <<>>)

LEMMA DeliverIs ==
  ASSUME Inv, NEW n \in Nat, n + read_position <= Max, shm_off <= read_position, Deliver(n)
  PROVE  Delivered(n) /\ read_position' \in 0..size /\ pc' = "run"
<1>1. Wrap(read_position + n) = read_position + n
  <2>1. read_position + n \in 0..Max
    BY Small, Constants
  <2> QED
    BY <2>1, WrapIs
<1>2. shm_off + shm_ready_bytes - read_position = End - read_position /\ End \in Nat
      /\ read_position \in Nat
  BY Small DEF Inv, Within, End
<1>3. Available(n) = IF read_position + n > End THEN Wrap(End - read_position) ELSE n
  BY <1>1, <1>2, Small DEF Available
<1>4. CASE read_position <= End
  <2>1. End - read_position \in 0..Max
    BY <1>4, Small, Constants
  <2>2. Wrap(End - read_position) = End - read_position
    BY <2>1, WrapIs
  <2> DEFINE m == Lesser(n, End - read_position)
  <2>3. Available(n) = m
    BY <1>2, <1>3, <2>2 DEF Lesser
  <2>4. m \in Nat /\ read_position + m \in 0..size /\ m < Half /\ read_position + m \in 0..Max
    BY <1>2, <1>4, Small, Constants DEF Lesser
  <2> HIDE DEF m
  <2>5. Wrap(read_position + m) = read_position + m
    BY <2>4, WrapIs
  <2>6. Signed(m) = m
    BY <2>4, SignedIs
  <2>7. /\ read_position' = read_position + m /\ pc' = "run"
        /\ reply' = Answer(call', m, Bytes(m))
    BY <2>3, <2>5, <2>6 DEF Deliver, Return
  <2> QED
    BY <1>4, <2>4, <2>7 DEF Delivered, m
<1>5. CASE read_position > End
  <2>1. Available(n) = (End - read_position) + Width
    <3>1. End - read_position < 0 /\ End - read_position \in Int
      BY <1>2, <1>5
    <3>2. Wrap(End - read_position) = (End - read_position) + Width
      BY <3>1, WrapIs
    <3> QED
      BY <1>2, <1>3, <1>5, <3>2
  <2>2. read_position + ((End - read_position) + Width) = End + Width
    BY <1>2, Constants
  <2>3. Wrap(End + Width) = End
    <3>1. End + Width \in Int /\ End + Width > Max /\ (End + Width) - Width = End
      BY <1>2, Constants
    <3> QED
      BY <3>1, WrapIs
  <2>4. Signed((End - read_position) + Width) = End - read_position
    <3> DEFINE v == (End - read_position) + Width
    <3>1. v \in Int /\ v >= Half /\ v - Width = End - read_position
      BY <1>2, Small, Constants
    <3> HIDE DEF v
    <3>2. Signed(v) = v - Width
      BY <3>1, SignedIs
    <3> QED
      BY <3>1, <3>2 DEF v
  <2>5. Bytes(End - read_position) = <<>>
    <3>1. 1..(End - read_position) = {}
      BY <1>2, <1>5
    <3> QED
      BY <3>1 DEF Bytes
  <2>6. /\ read_position' = End /\ pc' = "run"
        /\ reply' = Answer(call', End - read_position, <<>>)
    BY <2>1, <2>2, <2>3, <2>4, <2>5 DEF Deliver, Return
  <2> QED
    BY <1>5, <2>6, Small DEF Delivered
<1> QED
  BY <1>2, <1>4, <1>5

-----------------------------------------------------------------------------
(* The invariant *)

LEMMA InvInit == Init => Inv
<1> SUFFICES ASSUME Init PROVE Inv
  OBVIOUS
<1>1. Typed
  BY WidthAssumption DEF Init, Typed, Live
<1>2. Within
  BY WidthAssumption DEF Init, Within, Live, End
<1>3. Informed /\ Asking /\ Understood
  BY DEF Init, Informed, Asking, Understood
<1> QED
  BY <1>1, <1>2, <1>3 DEF Inv

(* A window anywhere in the file. *)
LEMMA WindowIs ==
  ASSUME Inv, NEW off \in 0..size
  PROVE  /\ WindowAt(off).off = off /\ WindowAt(off).ready \in Nat
         /\ off + WindowAt(off).ready <= size
         /\ off < size => WindowAt(off).ready > 0
BY Small, Constants DEF WindowAt, Lesser

LEMMA StartKeeps ==
  ASSUME Inv, Start
  PROVE  Inv'
<1>1. /\ window'.off = 0 /\ window'.ready \in Nat /\ window'.ready <= size
      /\ size' = size /\ size \in Nat
  BY WindowIs, Small DEF Start
<1>2. known' \in BOOLEAN
  BY DEF Start, SizeSeen
<1>3. /\ pc' = "run" /\ read_position' = 0 /\ shm_off' = 0 /\ served' = TRUE
      /\ shm_ready_bytes' = window'.ready /\ file_size' = FileSize(known')
      /\ trouble' = trouble
  BY DEF Start
<1>4. Typed'
  BY <1>1, <1>2, <1>3 DEF Inv, Typed, Live
<1>5. Within'
  BY <1>1, <1>3, Constants DEF Within, FileSize, End, Live, Max, Width
<1>6. Informed'
  BY <1>1, <1>3 DEF Informed, End
<1>7. Asking' /\ Understood'
  BY <1>3 DEF Asking, Understood
<1> QED
  BY <1>4, <1>5, <1>6, <1>7 DEF Inv

(* A step back to the extract method that leaves the window alone. *)
LEMMA ReturnKeeps ==
  ASSUME Inv, UNCHANGED <<size, known, trouble, window, file_size, shm_off, shm_ready_bytes>>,
         pc \in Live, pc' = "run", read_position' \in 0..size,
         served' \in BOOLEAN,
         served' => served /\ pc \in {"run", "answered"},
         served' /\ ~trouble => read_position' \in shm_off..End
  PROVE  Inv'
<1>1. Typed' /\ Within'
  BY DEF Inv, Typed, Within, Live, End
<1>2. Informed'
  BY DEF Inv, Informed, End
<1>3. Asking' /\ Understood'
  BY DEF Asking, Understood
<1> QED
  BY <1>1, <1>2, <1>3 DEF Inv

(* What a delivery leaves behind. *)
LEMMA DeliveredInside ==
  ASSUME Inv, NEW n \in Nat, Delivered(n), read_position \in shm_off..End
  PROVE  read_position' \in shm_off..End
<1>1. read_position' = read_position + Lesser(n, End - read_position)
  BY Small DEF Delivered
<1>2. Lesser(n, End - read_position) \in 0..(End - read_position)
  BY Small DEF Lesser
<1> QED
  BY <1>1, <1>2, Small

LEMMA CallingKeeps ==
  ASSUME Inv, Blind = FALSE, NEW c \in Calls, Calling(c)
  PROVE  Inv'
<1>0. pc = "run" /\ UNCHANGED library /\ UNCHANGED <<file_size, shm_off, shm_ready_bytes>>
  BY DEF Calling, SeekRefused, SeekWithin, SeekOutside, ReadWithin, ReadOutside, GetSize, context
<1>1. /\ UNCHANGED <<size, known, trouble, served, window, file_size, shm_off, shm_ready_bytes>>
      /\ served \in BOOLEAN /\ pc \in Live
      /\ served /\ ~trouble => read_position \in shm_off..End
  BY <1>0 DEF library, Inv, Typed, Informed, Live
<1>2. CASE SeekRefused(c) \/ GetSize(c)
  <2>1. pc' = "run" /\ read_position' = read_position
    BY <1>2 DEF SeekRefused, GetSize, Return, context
  <2> QED
    BY <1>0, <1>1, <2>1, ReturnKeeps DEF Inv, Within
<1>3. CASE SeekWithin(c)
  <2>1. pc' = "run" /\ read_position' = Wanted(c) /\ Wanted(c) \in Nat
        /\ shm_off <= Wanted(c) /\ Wanted(c) < End
    BY <1>3, WantedIs, Small DEF SeekWithin, Return, Holds
  <2>2. read_position' \in 0..size /\ read_position' \in shm_off..End
    BY <2>1, Small
  <2> QED
    BY <1>0, <1>1, <2>1, <2>2, ReturnKeeps
<1>4. CASE ReadWithin(c)
  <2>1. c.op = "read" /\ Deliver(Cut(c.count)) /\ ~(read_position < shm_off)
    BY <1>4 DEF ReadWithin, MustSeek
  <2>2. Cut(c.count) \in Nat /\ Cut(c.count) + read_position <= Max
    <3>1. /\ Cut(c.count) \in Nat
          /\ Cut(c.count) + read_position <= file_size /\ file_size <= Max
          /\ file_size \in Nat
      BY <1>0, <2>1, CutIs, Small, Constants DEF Inv, Within, Live
    <3> QED
      BY <3>1, Small, Constants
  <2>3. Delivered(Cut(c.count)) /\ read_position' \in 0..size /\ pc' = "run"
    BY <2>1, <2>2, DeliverIs, Small
  <2>4. served /\ ~trouble => read_position' \in shm_off..End
    BY <1>1, <2>2, <2>3, DeliveredInside
  <2> QED
    BY <1>0, <1>1, <2>3, <2>4, ReturnKeeps
<1>5. CASE SeekOutside(c)
  <2>1. /\ c.op = "seek" /\ ~Refused(c) /\ call' = c /\ pc' = "seek"
        /\ Wanted(c) <= size /\ Wanted(c) \in Nat
        /\ read_position' = read_position
    BY <1>0, <1>5, WantedIs DEF SeekOutside, Request, context
  <2>2. /\ npos' = Wanted(c) /\ wval' = IF FromEnd(c) THEN 2 ELSE 0
        /\ request' = [off |-> npos', whence |-> wval']
    BY <1>5 DEF SeekOutside, Request
  <2>3. Goal' = Target(c, read_position, size)
    <3>1. CASE FromEnd(c)
      <4>1. wval' = 2 /\ npos' = -c.off /\ c.whence = "end" /\ c.off \in Int
        BY <1>0, <2>1, <2>2, <3>1, WantedIs, CallsAssumption
      <4> QED
        BY <1>1, <4>1, Small DEF Goal, Target
    <3>2. CASE ~FromEnd(c)
      BY <1>0, <1>1, <2>1, <2>2, <3>2, WantedIs DEF Goal
    <3> QED
      BY <3>1, <3>2
  <2>4. Typed' /\ Within' /\ Informed'
    BY <1>0, <1>1, <2>1 DEF Inv, Typed, Within, Informed, Live, End
  <2>5. npos' \in 0..size' /\ wval' \in {0, 2}
    BY <1>1, <2>1, <2>2, Small
  <2>6. Asking'
    BY <1>1, <2>1, <2>3, <2>5 DEF Asking
  <2>7. Understood'
    BY <1>1, <2>1, <2>2, <2>5 DEF Understood, Goal
  <2> QED
    BY <2>4, <2>6, <2>7 DEF Inv
<1>6. CASE ReadOutside(c)
  <2>1. /\ c.op = "read" /\ MustSeek /\ call' = c /\ count' = Cut(c.count) /\ pc' = "seek"
        /\ read_position' = read_position /\ npos' = read_position /\ wval' = 0
        /\ request' = [off |-> npos', whence |-> 0]
    BY <1>6 DEF ReadOutside, Request, context
  <2>2. /\ Cut(c.count) \in Nat /\ Cut(c.count) <= c.count
        /\ Cut(c.count) + read_position <= file_size /\ file_size <= Max /\ file_size \in Nat
        /\ Cut(c.count) = 0 => c.count = 0 \/ read_position = file_size
    BY <1>0, <2>1, CutIs, Small, Constants DEF Inv, Within, Live
  <2>3. Cut(c.count) + read_position <= Max
    BY <2>2, Small, Constants
  <2>4. served /\ ~trouble => read_position # file_size
    BY <1>1, <2>1, <2>2, Small DEF MustSeek
  <2>5. Typed' /\ Within' /\ Informed'
    BY <1>0, <1>1, <2>1 DEF Inv, Typed, Within, Informed, Live, End
  <2>6. Asking'
    BY <1>1, <2>1, <2>2, <2>3, <2>4, Small DEF Asking
  <2>7. Understood'
    BY <1>1, <2>1, Small DEF Understood, Goal
  <2> QED
    BY <2>5, <2>6, <2>7 DEF Inv
<1> QED
  BY <1>2, <1>3, <1>4, <1>5, <1>6 DEF Calling

LEMMA ServingKeeps ==
  ASSUME Inv, Serving
  PROVE  Inv'
<1>1. CASE Discard
  <2>1. /\ pc' = "run" /\ served' = FALSE /\ pc = "seek"
        /\ UNCHANGED <<size, known, trouble, window, file_size, shm_off, shm_ready_bytes,
                       read_position>>
    BY <1>1 DEF Discard, Requested, Return, context
  <2> QED
    BY <2>1, ReturnKeeps DEF Inv, Within, Live
<1>2. CASE Convert
  <2>1. /\ pc = "seek" /\ pc' = "seek" /\ served' = served /\ request.whence = 2
        /\ UNCHANGED <<size, window, context, locals>>
    BY <1>2 DEF Convert, Requested
  <2>2. /\ request.off = npos /\ wval = 2 /\ npos \in 0..size
    BY <2>1 DEF Inv, Understood, Asking
  <2>3. /\ known' \in BOOLEAN /\ trouble' \in BOOLEAN
        /\ request'.whence = 0 /\ request'.off \in 0..size
        /\ ~trouble' => ~trouble /\ known' /\ request'.off = size - npos
    <3>1. known \in BOOLEAN /\ trouble \in BOOLEAN
      BY DEF Inv, Typed
    <3>2. ~(npos > size) /\ size - npos \in 0..size
      BY <2>2, Small
    <3>3. CASE known' = TRUE /\ UNCHANGED trouble /\ request' = [off |-> size - npos, whence |-> 0]
      BY <3>1, <3>2, <3>3
    <3>4. CASE trouble' = TRUE /\ UNCHANGED known /\ request' = [off |-> 0, whence |-> 0]
      <4>1. 0 \in 0..size
        BY Small
      <4> QED
        BY <3>1, <3>4, <4>1
    <3> QED
      BY <1>2, <2>2, <3>2, <3>3, <3>4 DEF Convert
  <2>4. Typed' /\ Within' /\ Informed'
    BY <2>1, <2>3 DEF Inv, Typed, Within, Informed, Live, context, End
  <2>5. Asking'
    BY <2>1, <2>3 DEF Inv, Asking, context, locals, Goal
  <2>6. Understood'
    BY <2>1, <2>2, <2>3 DEF Understood, Goal, locals
  <2> QED
    BY <2>4, <2>5, <2>6 DEF Inv
<1>3. ASSUME NEW min \in 0..size, MoveWindow(min) PROVE Inv'
  <2>1. /\ pc = "seek" /\ served /\ request.whence = 0 /\ min <= request.off
        /\ UNCHANGED <<size, served, trouble, request, read_position, locals, reply>>
        /\ request.off \in 0..size
    BY <1>3 DEF MoveWindow, Requested, Inv, Understood
  <2>2. /\ known' \in BOOLEAN
        /\ known => known'
    BY <1>3 DEF MoveWindow, SizeSeen
  <2>3. /\ window'.off = min /\ window'.ready \in Nat /\ min + window'.ready <= size
    BY <1>3, WindowIs DEF MoveWindow
  <2>4. Typed' /\ Asking' /\ window'.off \in Nat /\ window'.off + window'.ready <= size'
    <3>1. pc' \in {"seek", "answered"}
      BY <1>3, <2>1 DEF MoveWindow, Update
    <3>2. size' \in Nat /\ size' + MapSize < Half
      BY <2>1 DEF Inv, Typed
    <3>3. served' \in BOOLEAN /\ trouble' \in BOOLEAN
      BY <2>1 DEF Inv, Typed
    <3>4. Typed'
      BY <2>2, <3>1, <3>2, <3>3 DEF Typed, Live
    <3>5. Asking'
      BY <2>1, <3>1 DEF Inv, Asking, Goal, locals
    <3> QED
      BY <2>1, <2>3, <3>4, <3>5
  <2>5. CASE InRange
    <3>1. /\ pc' = "answered" /\ shm_off' = min /\ shm_ready_bytes' = window'.ready
          /\ file_size' = FileSize(known')
      BY <1>3, <2>3, <2>5 DEF MoveWindow, Update
    <3>2. Within' /\ Informed'
      BY <2>1, <2>3, <2>4, <3>1 DEF Inv, Within, Informed, FileSize, End, Max, Width, Live
    <3>3. ~trouble => request.off = Goal /\ (wval = 2 => known)
      BY <2>1 DEF Inv, Understood
    <3>4. min + window'.ready > request.off \/ (known' /\ min = size)
      BY <2>3, <2>5 DEF InRange
    <3>5. Goal' = Goal /\ End' = min + window'.ready /\ served'
      BY <2>1, <3>1 DEF Goal, End, locals
    <3>6. wval' = wval /\ trouble' = trouble
      BY <2>1 DEF locals
    <3>7. ~trouble /\ wval = 2 => file_size' = size'
      BY <2>1, <2>2, <3>1, <3>3 DEF FileSize
    <3>8. ~trouble => shm_off' <= Goal /\ (End' > Goal \/ (shm_off' = size' /\ file_size' = size'))
      <4>1. CASE min + window'.ready > request.off
        BY <2>1, <3>1, <3>3, <3>5, <4>1
      <4>2. CASE known' /\ min = size
        BY <2>1, <3>1, <3>3, <4>2 DEF FileSize
      <4> QED
        BY <3>4, <4>1, <4>2
    <3>9. Understood'
      BY <3>1, <3>5, <3>6, <3>7, <3>8 DEF Understood
    <3> QED
      BY <2>4, <3>2, <3>9 DEF Inv
  <2>6. CASE ~InRange
    <3>1. UNCHANGED <<pc, shm_off, shm_ready_bytes, file_size>>
      BY <1>3, <2>6 DEF MoveWindow
    <3>2. Within' /\ Informed'
      BY <2>1, <2>3, <2>4, <3>1 DEF Inv, Within, Informed, End, Live, Max, Width
    <3>3. Understood'
      <4>1. ~trouble => request.off = Goal /\ (wval = 2 => known)
        BY <2>1 DEF Inv, Understood
      <4>2. Goal' = Goal /\ wval' = wval /\ trouble' = trouble /\ request' = request
            /\ size' = size /\ pc' = "seek"
        BY <2>1, <3>1 DEF Goal, locals
      <4> QED
        BY <2>1, <2>2, <4>1, <4>2 DEF Understood
    <3> QED
      BY <2>4, <3>2, <3>3 DEF Inv
  <2> QED
    BY <2>5, <2>6
<1> QED
  BY <1>1, <1>2, <1>3 DEF Serving

(* A window that has reached the position asked for holds it, or ends at it. *)
LEMMA ReachedIs ==
  ASSUME Inv, pc = "answered", Reached
  PROVE  Position = Goal /\ Goal \in 0..size /\ Goal \in shm_off..End
<1>1. /\ npos \in 0..size /\ wval \in {0, 2} /\ file_size \in {size, Max}
  BY DEF Inv, Asking, Within, Live
<1>2. shm_off <= Position /\ (End > Position \/ file_size = shm_off)
  BY Small DEF Reached
<1>3. Position = Goal
  <2>1. CASE wval = 0
    BY <2>1 DEF Position, Goal
  <2>2. CASE wval = 2 /\ file_size = size
    <3>1. size - npos \in 0..Max
      BY <1>1, Small, Constants
    <3> QED
      BY <2>2, <3>1, WrapIs DEF Position, Goal
  <2>3. CASE wval = 2 /\ file_size = Max
    <3>1. Max - npos \in 0..Max /\ Max - npos > size
      BY <1>1, Small, Constants
    <3>2. Position = Max - npos
      BY <2>3, <3>1, WrapIs DEF Position
    <3> QED
      BY <1>2, <2>3, <3>1, <3>2, Small, Constants
  <2> QED
    BY <1>1, <2>1, <2>2, <2>3
<1>4. Goal \in 0..size
  BY <1>1, Small DEF Goal
<1>5. file_size = shm_off => shm_off = size
  BY <1>1, Small, Constants
<1> QED
  BY <1>2, <1>3, <1>4, <1>5, Small

(* The library only fails to reach it when it could not find out the size. *)
LEMMA NotReachedIs ==
  ASSUME Inv, pc = "answered", ~Reached
  PROVE  trouble
<1> SUFFICES ASSUME ~trouble PROVE FALSE
  BY DEF Inv, Typed
<1>1. /\ npos \in 0..size /\ wval \in {0, 2}
      /\ shm_off <= Goal /\ (End > Goal \/ (shm_off = size /\ file_size = size))
      /\ wval = 2 => file_size = size
  BY DEF Inv, Asking, Understood
<1>2. Position = Goal
  <2>1. size - npos \in 0..Max
    BY <1>1, Small, Constants
  <2> QED
    BY <1>1, <2>1, WrapIs DEF Position, Goal
<1> QED
  BY <1>1, <1>2, Small DEF Reached

LEMMA AnsweredKeeps ==
  ASSUME Inv, Answered
  PROVE  Inv'
<1>0. /\ pc = "answered" /\ pc' = "run"
      /\ UNCHANGED <<library, file_size, shm_off, shm_ready_bytes>>
  BY DEF Answered, SeekAnswered, ReadAnswered, Misunderstood, Return, Deliver, context
<1>1. /\ UNCHANGED <<size, known, trouble, window, served, file_size, shm_off, shm_ready_bytes>>
      /\ served \in BOOLEAN /\ pc \in Live
  BY <1>0 DEF library, Inv, Typed, Live
<1>2. CASE SeekAnswered
  <2>1. read_position' \in 0..size /\ read_position' \in shm_off..End
    BY <1>2, ReachedIs DEF SeekAnswered
  <2> QED
    BY <1>0, <1>1, <2>1, ReturnKeeps
<1>3. CASE ReadAnswered
  <2>1. /\ call.op = "read" /\ Deliver(count) /\ Reached
        /\ count \in Nat /\ count + read_position <= Max /\ Goal = read_position
    BY <1>0, <1>3 DEF ReadAnswered, Inv, Asking, Goal
  <2>2. read_position \in shm_off..End
    BY <1>0, <2>1, ReachedIs
  <2>3. Delivered(count) /\ read_position' \in 0..size
    BY <2>1, <2>2, DeliverIs, Small
  <2>4. read_position' \in shm_off..End
    BY <2>1, <2>2, <2>3, DeliveredInside
  <2> QED
    BY <1>0, <1>1, <2>3, <2>4, ReturnKeeps
<1>4. CASE Misunderstood
  <2>1. trouble /\ read_position' = read_position
    BY <1>4, NotReachedIs DEF Misunderstood, context
  <2> QED
    BY <1>0, <1>1, <2>1, ReturnKeeps DEF Inv, Within
<1> QED
  BY <1>2, <1>3, <1>4 DEF Answered

LEMMA InvKept ==
  ASSUME Inv, Blind = FALSE, [Next]_vars
  PROVE  Inv'
<1>1. CASE UNCHANGED vars
  BY <1>1 DEF vars, library, context, locals, Inv, Typed, Within, Informed, Asking,
              Understood, Goal, End, Live, Max, Width
<1>2. CASE Start
  BY <1>2, StartKeeps
<1>3. ASSUME NEW c \in Calls, Calling(c) PROVE Inv'
  BY <1>3, CallingKeeps
<1>4. CASE Serving
  BY <1>4, ServingKeeps
<1>5. CASE Answered
  BY <1>5, AnsweredKeeps
<1>6. CASE FullReset
  BY <1>6 DEF FullReset, library, context, locals, Inv, Typed, Within, Informed, Asking,
              Understood, End, Live
<1> QED
  BY <1>1, <1>2, <1>3, <1>4, <1>5, <1>6 DEF Next

(* However the plugin seeks and reads, and whatever the library makes of   *)
(* its requests, the position stays in the file.                           *)
THEOREM PositionAlwaysInFile ==
  ASSUME Blind = FALSE PROVE Spec => []PositionInFile
<1>1. Inv => PositionInFile
  BY DEF Inv, Within, PositionInFile
<1> QED
  BY <1>1, InvInit, InvKept, PTL DEF Spec

-----------------------------------------------------------------------------
(* A seek that fails *)

(* A position in the file is never mistaken for a failure. *)
LEMMA NotFailed ==
  ASSUME Inv, NEW n \in 0..size
  PROVE  Signed(n) = n /\ Signed(n) # -1
<1>1. n \in Int /\ n < Half /\ n # -1
  BY Small, Constants
<1> QED
  BY <1>1, SignedIs

(* A seek that reports a failure has not moved the plugin, whatever else   *)
(* the library and the other plugins have done in the meantime.            *)
THEOREM FailedSeeksStay ==
  ASSUME Blind = FALSE PROVE Spec => FailedSeekStays
<1> DEFINE Stays == reply'.call.op = "seek" /\ reply'.value = -1
                      => read_position' = read_position
<1>1. ASSUME Inv, [Next]_vars PROVE [Stays]_vars
  <2>1. CASE Start
    BY <1>1, <2>1 DEF Start, Inv, Typed
  <2>2. ASSUME NEW c \in Calls, Calling(c) PROVE Stays
    <3>1. CASE SeekWithin(c)
      <4>1. reply' = Answer(c, Signed(Wanted(c)), <<>>)
        BY <3>1 DEF SeekWithin, Return
      <4>2. Wanted(c) \in 0..size
        BY <1>1, <3>1, WantedIs, Small DEF SeekWithin, Holds
      <4> QED
        BY <1>1, <4>1, <4>2, NotFailed DEF Answer
    <3>2. CASE ReadWithin(c)
      BY <3>2 DEF ReadWithin, Deliver, Return, Answer
    <3>3. CASE SeekRefused(c) \/ SeekOutside(c) \/ ReadOutside(c) \/ GetSize(c)
      BY <3>3 DEF SeekRefused, SeekOutside, ReadOutside, GetSize, context
    <3> QED
      BY <2>2, <3>1, <3>2, <3>3 DEF Calling
  <2>3. CASE Serving \/ FullReset
    BY <2>3 DEF Serving, Convert, MoveWindow, Discard, FullReset, context
  <2>4. CASE SeekAnswered
    <3>1. reply' = Answer(call', Signed(Position), <<>>) /\ pc = "answered" /\ Reached
      BY <2>4 DEF SeekAnswered, Return
    <3>2. Position \in 0..size
      BY <1>1, <3>1, ReachedIs
    <3> QED
      BY <1>1, <3>1, <3>2, NotFailed DEF Answer
  <2>5. CASE ReadAnswered
    BY <2>5 DEF ReadAnswered, Deliver, Return, Answer
  <2>6. CASE Misunderstood
    BY <2>6 DEF Misunderstood, context
  <2> QED
    BY <1>1, <2>1, <2>2, <2>3, <2>4, <2>5, <2>6 DEF Next, Answered
<1> QED
  BY <1>1, InvInit, InvKept, PTL DEF Spec, FailedSeekStays

-----------------------------------------------------------------------------
(* The refinement *)

Opened == served /\ pc # "gone"

LEMMA AbstractSeek ==
  ASSUME Inv, Opened, Opened', UNCHANGED <<size, trouble>>,
         NEW c \in Calls, c.op = "seek", Target(c, read_position, size) \in 0..size,
         read_position' = Target(c, read_position, size),
         reply' = Answer(c, read_position', <<>>)
  PROVE  File!Next
<1>1. File!Seek(c)
  BY DEF File!Seek, File!Target, File!Answer, Target, Answer
<1> QED
  BY <1>1 DEF File!Next, Opened

LEMMA AbstractSeekFails ==
  ASSUME Inv, Opened, Opened', UNCHANGED <<size, trouble, read_position>>,
         NEW c \in Calls, c.op = "seek",
         Target(c, read_position, size) \in 0..size => trouble,
         reply' = Answer(c, -1, <<>>)
  PROVE  File!Next
<1>1. read_position' \in 0..size
  BY DEF Inv, Within
<1>2. File!SeekFails(c)
  BY <1>1 DEF File!SeekFails, File!Target, File!Failure, File!Answer, Target, Answer
<1> QED
  BY <1>2 DEF File!Next, Opened

LEMMA AbstractRead ==
  ASSUME Inv, Opened, Opened', UNCHANGED <<size, trouble>>,
         NEW c \in Calls, c.op = "read", call' = c,
         NEW n \in Nat, n <= c.count, Delivered(n), shm_off <= read_position,
         window.off = shm_off, window.ready = shm_ready_bytes,
         ~trouble => /\ read_position <= End
                     /\ End > read_position \/ read_position = size
                     /\ n = 0 => c.count = 0 \/ read_position = size
  PROVE  File!Next
<1>1. c.count \in Nat
  BY CallsAssumption, Constants
<1>2. CASE read_position > End
  <2>1. /\ reply' = Answer(c, End - read_position, <<>>) /\ read_position' = End
        /\ End - read_position < 0 /\ trouble
    BY <1>2, Small DEF Delivered, Inv, Typed
  <2>2. reply'.call = c /\ reply'.value < 0 /\ reply'.data = <<>> /\ read_position' \in 0..size
    BY <2>1, Small DEF Answer
  <2>3. File!ReadFails(c)
    BY <2>1, <2>2 DEF File!ReadFails
  <2> QED
    BY <2>3 DEF File!Next, Opened
<1>3. CASE read_position <= End
  <2> DEFINE m == Lesser(n, End - read_position)
  <2>1. /\ reply' = Answer(c, m, Bytes(m)) /\ read_position' = read_position + m
    BY <1>3, Small DEF Delivered
  <2>2. m \in 0..(End - read_position) /\ m \in 0..File!Lesser(c.count, size - read_position)
    BY <1>1, <1>3, Small DEF Lesser, File!Lesser
  <2>3. ~trouble => m > 0 \/ m = File!Lesser(c.count, size - read_position)
    BY <1>1, <1>3, Small DEF Lesser, File!Lesser
  <2> HIDE DEF m
  <2>4. Bytes(m) = File!Run(read_position, m)
    <3>1. \A i \in 1..m : /\ read_position - shm_off + i - 1 \in 0..window.ready - 1
                          /\ window.off + (read_position - shm_off + i - 1) = read_position + i - 1
      <4>1. /\ shm_off \in Nat /\ shm_ready_bytes \in Nat /\ read_position \in Nat
            /\ m \in Nat /\ read_position + m <= shm_off + shm_ready_bytes
        BY <1>3, <2>2, Small DEF Inv, Within, End
      <4>2. \A o, r, p, k \in Nat : o <= p /\ p + k <= o + r =>
              \A i \in 1..k : p - o + i - 1 \in 0..r - 1 /\ o + (p - o + i - 1) = p + i - 1
        OBVIOUS
      <4> QED
        BY <4>1, <4>2
    <3> QED
      BY <3>1 DEF Bytes, File!Run
  <2>5. File!Read(c)
    BY <2>1, <2>2, <2>3, <2>4 DEF File!Read, File!Suffices, File!Answer, Answer
  <2> QED
    BY <2>5 DEF File!Next, Opened
<1> QED
  BY <1>2, <1>3, Small

(* A seek is refused only if it leads out of the file. *)
LEMMA RefusedIs ==
  ASSUME Inv, pc = "run", NEW c \in Calls, c.op = "seek", Refused(c)
  PROVE  Target(c, read_position, size) \notin 0..size
<1>1. c.off \in Int /\ -Half <= c.off /\ c.off < Half /\ c.whence \in {"set", "cur", "end"}
  BY CallsAssumption, Constants
<1>2. file_size = size \/ file_size = Max
  BY DEF Inv, Within, Live
<1>3. file_size \in Nat /\ size <= file_size /\ size \in Nat /\ read_position \in Nat
      /\ read_position <= size
  BY <1>2, Small, Constants
<1>4. CASE c.whence = "set"
  <2>1. c.off < 0 \/ file_size < c.off
    BY <1>4 DEF Refused
  <2> QED
    BY <1>1, <1>4, <1>3, <2>1 DEF Target
<1>5. CASE c.whence = "cur"
  <2>1. c.off > 0 => Wrap(read_position + c.off) = read_position + c.off
    <3>1. c.off > 0 => read_position + c.off \in 0..Max
      BY <1>1, Small, Constants
    <3> QED
      BY <3>1, WrapIs
  <2>2. \/ c.off < 0 /\ read_position < -c.off
        \/ c.off > 0 /\ read_position + c.off < read_position
        \/ c.off > 0 /\ read_position + c.off > file_size
    BY <1>5, <2>1 DEF Refused
  <2> QED
    BY <1>1, <1>5, <1>3, <2>2 DEF Target
<1>6. CASE c.whence = "end"
  <2>1. CASE c.off > 0
    BY <1>1, <1>6, <2>1, Small DEF Target
  <2>2. CASE ~(c.off > 0)
    <3>1. file_size = size
      BY <1>2, <1>6, <2>2 DEF Refused
    <3>2. Signed(Wrap(size + c.off)) < 0 \/ size < Signed(Wrap(size + c.off))
      BY <1>6, <2>2, <3>1 DEF Refused
    <3>3. size + c.off \in 0..size => Wrap(size + c.off) = size + c.off
      BY Small, WrapIs, Constants
    <3>4. size + c.off \in 0..size => Signed(size + c.off) = size + c.off
      BY NotFailed
    <3> QED
      BY <1>1, <1>6, <3>2, <3>3, <3>4, Small DEF Target
  <2> QED
    BY <2>1, <2>2
<1> QED
  BY <1>1, <1>4, <1>5, <1>6

LEMMA AbstractCalling ==
  ASSUME Inv, Inv', Blind = FALSE, Opened, NEW c \in Calls, Calling(c)
  PROVE  [File!Next]_(File!vars)
<1>0. /\ pc = "run" /\ served /\ Opened'
      /\ UNCHANGED <<size, trouble>>
      /\ window.off = shm_off /\ window.ready = shm_ready_bytes
      /\ ~trouble => read_position \in shm_off..End
  BY DEF Calling, SeekRefused, SeekWithin, SeekOutside, ReadWithin, ReadOutside, GetSize,
         library, Opened, Return, Deliver, Request, Inv, Informed
<1>1. CASE SeekRefused(c)
  <2>1. /\ c.op = "seek" /\ Refused(c) /\ reply' = Answer(c, -1, <<>>)
        /\ read_position' = read_position
    BY <1>1 DEF SeekRefused, Return, context
  <2>2. Target(c, read_position, size) \notin 0..size
    BY <1>0, <2>1, RefusedIs
  <2> QED
    BY <1>0, <2>1, <2>2, AbstractSeekFails
<1>2. CASE SeekWithin(c)
  <2>1. /\ c.op = "seek" /\ Wanted(c) = Target(c, read_position, size)
        /\ Wanted(c) \in 0..size
        /\ read_position' = Wanted(c) /\ reply' = Answer(c, Signed(Wanted(c)), <<>>)
    BY <1>2, WantedIs, Small DEF SeekWithin, Holds, Return
  <2> QED
    BY <1>0, <2>1, NotFailed, AbstractSeek
<1>3. CASE ReadWithin(c)
  <2>1. file_size \in Nat /\ size <= file_size
    BY <1>0, Small, Constants DEF Inv, Within, Live
  <2>2. /\ c.op = "read" /\ call' = c /\ Deliver(Cut(c.count))
        /\ shm_off <= read_position
        /\ End > read_position \/ read_position >= file_size
    <3>1. c.op = "read" /\ call' = c /\ Deliver(Cut(c.count)) /\ ~MustSeek
      BY <1>3 DEF ReadWithin
    <3>2. ~(read_position >= End /\ read_position < file_size) /\ ~(read_position < shm_off)
      BY <3>1, Small DEF MustSeek
    <3>3. read_position \in Nat /\ End \in Nat /\ shm_off \in Nat
      BY Small
    <3> QED
      BY <3>1, <3>2, <3>3, <2>1
  <2>3. /\ Cut(c.count) \in Nat /\ Cut(c.count) <= c.count
        /\ Cut(c.count) + read_position <= Max
        /\ Cut(c.count) = 0 => c.count = 0 \/ read_position = size
    <3>1. /\ Cut(c.count) \in Nat /\ Cut(c.count) <= c.count
          /\ Cut(c.count) + read_position <= file_size /\ file_size <= Max
      BY <1>0, <2>2, CutIs
    <3>2. Cut(c.count) = 0 => c.count = 0 \/ read_position = file_size
      BY <1>0, <2>2, CutIs
    <3>3. read_position = file_size => read_position = size
      BY <2>1, Small
    <3> QED
      BY <2>1, <3>1, <3>2, <3>3, Small, Constants
  <2>4. Delivered(Cut(c.count))
    BY <2>2, <2>3, DeliverIs
  <2>5. End > read_position \/ read_position = size
    BY <2>2, <2>1, Small
  <2>6. ~trouble => read_position <= End
    BY <1>0, Small
  <2> QED
    BY <1>0, <2>2, <2>3, <2>4, <2>5, <2>6, AbstractRead
<1>4. CASE SeekOutside(c) \/ ReadOutside(c)
  BY <1>0, <1>4 DEF SeekOutside, ReadOutside, library, context, File!vars, Opened, Request
<1>5. CASE GetSize(c)
  <2>1. /\ c.op = "size" /\ ~c.force /\ reply' = Answer(c, Signed(file_size), <<>>)
        /\ read_position' = read_position /\ read_position \in 0..size
    BY <1>5, CallsAssumption DEF GetSize, Return, context, Inv, Within
  <2>2. Signed(file_size) \in {size, Unknown}
    <3>1. CASE file_size = size
      BY <3>1, NotFailed, Small
    <3>2. CASE file_size = Max
      <4>1. Max >= Half /\ Max - Width = -1 /\ Max \in Int
        BY Constants
      <4> QED
        BY <3>2, <4>1, SignedIs DEF Unknown
    <3> QED
      BY <1>0, <3>1, <3>2 DEF Inv, Within, Live
  <2>3. File!GetSize(c)
    BY <2>1, <2>2, <1>0 DEF File!GetSize, File!Answer, File!Unknown, Answer, Unknown
  <2> QED
    BY <1>0, <2>3 DEF File!Next, Opened
<1> QED
  BY <1>1, <1>2, <1>3, <1>4, <1>5 DEF Calling

LEMMA AbstractAnswered ==
  ASSUME Inv, Inv', Answered
  PROVE  File!Next
<1>0. /\ pc = "answered" /\ served /\ Opened /\ Opened'
      /\ UNCHANGED <<size, trouble, call>>
      /\ window.off = shm_off /\ window.ready = shm_ready_bytes
      /\ call \in Calls
  BY DEF Answered, SeekAnswered, ReadAnswered, Misunderstood, library, Opened, Return, Deliver,
         Inv, Informed, Understood, Asking
<1>1. CASE SeekAnswered
  <2>1. /\ call.op = "seek" /\ Reached /\ Goal = Target(call, read_position, size)
        /\ read_position' = Position /\ reply' = Answer(call, Signed(Position), <<>>)
    BY <1>0, <1>1 DEF SeekAnswered, Return, Inv, Asking
  <2>2. Position = Goal /\ Goal \in 0..size
    BY <1>0, <2>1, ReachedIs
  <2> QED
    BY <1>0, <2>1, <2>2, NotFailed, AbstractSeek
<1>2. CASE ReadAnswered
  <2>1. /\ call.op = "read" /\ Reached /\ Deliver(count) /\ Goal = read_position
        /\ count \in Nat /\ count <= call.count /\ count + read_position <= Max
        /\ ~trouble /\ count = 0 => call.count = 0 \/ read_position = size
    BY <1>0, <1>2 DEF ReadAnswered, Inv, Asking, Goal
  <2>2. read_position \in shm_off..End
    BY <1>0, <2>1, ReachedIs
  <2>3. Delivered(count)
    BY <2>1, <2>2, DeliverIs, Small
  <2>4. ~trouble => End > read_position \/ read_position = size
    BY <1>0, <2>1, <2>2, Small DEF Inv, Understood
  <2> QED
    BY <1>0, <2>1, <2>2, <2>3, <2>4, AbstractRead, Small
<1>3. CASE Misunderstood
  <2>1. trouble /\ read_position' = read_position
    BY <1>3, NotReachedIs DEF Misunderstood, context
  <2>2. reply' = Answer(call, -1, <<>>)
    BY <1>0, <1>3 DEF Misunderstood, Return
  <2>3. CASE call.op = "seek"
    BY <1>0, <2>1, <2>2, <2>3, AbstractSeekFails
  <2>4. CASE call.op = "read"
    <3>1. reply'.call = call /\ reply'.value < 0 /\ reply'.data = <<>>
          /\ read_position' \in 0..size
      BY <2>1, <2>2 DEF Answer, Inv, Within
    <3>2. File!ReadFails(call)
      BY <1>0, <2>1, <2>4, <3>1 DEF File!ReadFails
    <3> QED
      BY <1>0, <3>2 DEF File!Next, Opened
  <2> QED
    BY <1>0, <2>3, <2>4 DEF Inv, Asking
<1> QED
  BY <1>1, <1>2, <1>3 DEF Answered

(* Without the promise to keep, anything goes. *)
LEMMA NoPromise ==
  ASSUME ~Opened, ~Opened' PROVE File!Next
BY DEF File!Next, Opened

(* Through the window that the library moves, the file looks like a plain  *)
(* source of bytes: every finished call of the plugin is one it allows.    *)
THEOREM EnvImplementsFile ==
  ASSUME Blind = FALSE PROVE Spec => ImplementsFile
<1>1. ASSUME Inv, Inv', [Next]_vars PROVE [File!Next]_(File!vars)
  <2>1. CASE UNCHANGED vars
    BY <2>1 DEF vars, library, context, File!vars
  <2>2. CASE Start
    <3>1. ~Opened /\ Opened' /\ reply' = NoReply /\ read_position' \in 0..size'
      BY <1>1, <2>2 DEF Start, Opened, Inv, Typed, Within
    <3>2. NoReply = File!NoReply
      BY DEF NoReply, Answer, File!NoReply, File!Answer
    <3> QED
      BY <3>1, <3>2 DEF File!Next, File!Open, Opened
  <2>3. ASSUME NEW c \in Calls, Calling(c) PROVE [File!Next]_(File!vars)
    <3>1. CASE Opened
      BY <1>1, <2>3, <3>1, AbstractCalling
    <3>2. CASE ~Opened
      <4>1. pc = "run" /\ UNCHANGED served
        BY <2>3 DEF Calling, SeekRefused, SeekWithin, SeekOutside, ReadWithin, ReadOutside,
                    GetSize, library
      <4> QED
        BY <3>2, <4>1, NoPromise DEF Opened
    <3> QED
      BY <3>1, <3>2
  <2>4. CASE Convert
    <3>1. /\ Opened /\ Opened' /\ UNCHANGED <<size, read_position, reply>>
          /\ trouble' = trouble \/ trouble'
      BY <2>4 DEF Convert, Requested, Opened, context
    <3> QED
      BY <3>1 DEF File!Next, File!Trouble, File!vars, Opened
  <2>5. ASSUME NEW min \in 0..size, MoveWindow(min) PROVE [File!Next]_(File!vars)
    BY <2>5 DEF MoveWindow, Requested, Update, File!vars
  <2>6. CASE Discard \/ FullReset
    <3>1. ~Opened'
      BY <2>6 DEF Discard, FullReset, Opened
    <3> QED
      BY <3>1, NoPromise DEF File!Next, File!Close, Opened
  <2>7. CASE Answered
    BY <1>1, <2>7, AbstractAnswered
  <2> QED
    BY <1>1, <2>1, <2>2, <2>3, <2>4, <2>5, <2>6, <2>7 DEF Next, Serving
<1> QED
  BY <1>1, InvInit, InvKept, PTL DEF Spec, ImplementsFile
=============================================================================
