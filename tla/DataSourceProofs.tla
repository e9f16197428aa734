-------------------------- MODULE DataSourceProofs --------------------------
(***************************************************************************)
(* Theorems about DataSource, for every file, every call and all sizes of  *)
(* the buffers.                                                            *)
(*                                                                         *)
(* The inductive invariant DsInv says of each moment where the bytes in    *)
(* cfs->result come from (Results), that no more was made than the input   *)
(* given so far holds (Decoded), and that a stream that could be started   *)
(* once can be started again (Headers): cfs_seek does not recover when it  *)
(* cannot. OnCourse, in the last part, says how far the decompressor has   *)
(* got, on damaged files too.                                              *)
(***************************************************************************)
EXTENDS DataSource, BufferedSourceProofs, NaturalsInduction, WellFoundedInduction

Decompressor == [live : BOOLEAN, fed : Nat, made : Nat, ended : BOOLEAN, broken : BOOLEAN,
                 availIn : Int, availOut : Int]

FileTyped == stream \in Files /\ fsize = stream.size /\ breply.data \in Seq(Int)

Typed ==
  /\ FileTyped
  /\ cpos \in Nat /\ resultPos \in Nat /\ chunk \in Nat /\ rest \in Nat
  /\ known \in Int /\ delta \in Int /\ from \in Int
  /\ strm \in Decompressor /\ data \in Seq(Int)
  /\ measuring \in BOOLEAN
  /\ kind = "compressed" /\ pc # "idle" => call \in Calls

(* What is being done with a source of each kind. *)
Beginning == {"header", "headerRead", "field", "fieldFound", "fieldRead", "rewound"}
Using     == {"idle", "fetch", "fetched", "back", "copy", "returned", "failed", "skip",
              "moved", "stuck", "measure"}

Phases ==
  \/ kind = "opening" /\ pc \in {"probe", "magic", "probed", "init"} \cup Beginning
  \/ kind = "plain" /\ pc \in {"idle", "served"}
  \/ kind = "compressed" /\ pc \in {"init"} \cup Beginning \cup Using
  \/ kind = "closed" /\ pc = "idle"

(* What can be relied upon after bfds_seek and during bfds_read when no    *)
(* system call fails.                                                      *)
Sought(p) == ~Serving /\ breply.value = p /\ Position = p

ReadFrom(p, count) ==
  IF Serving
  THEN bcall = ReadCall(count) /\ Position - Len(got) = p
  ELSE /\ breply.value = Lesser(count, fsize - p)
       /\ breply.data = Run(p, breply.value) /\ Position = p + breply.value

OpeningFails == kind = "opening" /\ ~Serving /\ breply.value = -1

(* The optional fields of a gzip header. *)
Opt           == Optional(stream.flags)
FirstField    == HeaderSize + (IF "FEXTRA" \in stream.flags THEN 1 ELSE 0)
Remaining(n)  == [i \in 1..Len(Opt) - n |-> Opt[i + n]]
WellFormed(k) == Opt[k] \in stream.terminated /\ FirstField + k - 1 < fsize

(* A stream can be started again if it could be started. *)
Restartable ==
  stream.method = "zlib" => HeaderSize <= fsize /\ \A k \in 1..Len(Opt) : WellFormed(k)

Headers ==
  /\ pc \in Beginning \ {"rewound"} => stream.method = "zlib"
  /\ pc = "header" => Sought(0) \/ OpeningFails
  /\ pc = "headerRead" => ReadFrom(0, HeaderSize) \/ OpeningFails
  /\ pc \in {"field", "fieldFound", "fieldRead"} =>
       /\ HeaderSize <= fsize
       /\ \E n \in 0..Len(Opt) :
            /\ hlen = FirstField + n /\ fields = Remaining(n)
            /\ \A k \in 1..n : WellFormed(k)
  /\ pc \in {"fieldFound", "fieldRead"} => fields # <<>>
  /\ pc = "fieldFound" => Sought(hlen) \/ OpeningFails
  /\ pc = "fieldRead" => ReadFrom(hlen, FieldSize) \/ OpeningFails
  /\ pc = "rewound" => Sought(0) \/ OpeningFails
  /\ pc = "rewound" \/ kind = "compressed" => Restartable
  /\ pc = "init" \/ pc \in Beginning \/ kind = "compressed" => stream.method # "none"

(* The bytes that wait in cfs->result are those in front of the next ones  *)
(* to be decompressed, and the first is at cfs->fpos.                      *)
Waiting ==
  /\ Made \in 0..Chunk /\ resultPos \in 0..Made
  /\ strm.made = cpos + (Made - resultPos)
  /\ Made > 0 => chunk + resultPos = cpos

Results ==
  /\ kind \in {"opening", "plain"} => cpos = 0 /\ resultPos = 0 /\ chunk = 0 /\ known = -1
  /\ pc \in Beginning => cpos = 0 /\ resultPos = 0
  /\ kind = "compressed" /\ pc \in Using => Waiting
  /\ pc \in {"fetch", "fetched"} => resultPos = Made
  /\ pc \in {"back", "copy"} => resultPos = 0 /\ chunk = cpos
  /\ kind = "closed" /\ Made > resultPos => chunk + resultPos = cpos

(* What the decompressor has made is in what it has been given. *)
Decoded ==
  /\ strm.fed \in 0..EndOf /\ strm.made <= PlainSize
  /\ ~strm.broken => strm.made <= Plain(strm.fed)
  /\ known >= -1 /\ known <= PlainSize /\ cpos <= PlainSize

DsInv == Inv /\ Typed /\ Phases /\ Headers /\ Results /\ Decoded

-----------------------------------------------------------------------------
(* Natural numbers, if there are any, have a least one. *)
LEMMA LeastNumber ==
  ASSUME NEW S, S \subseteq Nat, S # {}
  PROVE  \E k \in S : \A j \in S : k <= j
<1> DEFINE Less == {ss \in Nat \X Nat : ss[1] < ss[2]}
<1>1. IsWellFoundedOn(Less, Nat)
  BY NatLessThanWellFounded, Zenon DEF OpToRel
<1>2. \A i, j \in S : <<j, i>> \in Less <=> j < i
  OBVIOUS
<1> HIDE DEF Less
<1>3. \E i \in S : \A j \in S : ~(<<j, i>> \in Less)
  BY <1>1, WFMin
<1>4. \A i, j \in S : ~(j < i) => i <= j
  OBVIOUS
<1> QED
  BY <1>2, <1>3, <1>4

LEMMA FileIs ==
  ASSUME stream \in Files
  PROVE  /\ EndOf \in Nat /\ PlainSize \in Nat
         /\ \A k \in 0..EndOf : Plain(k) \in Nat
         /\ \A j \in 0..EndOf : \A i \in 0..j : Plain(i) <= Plain(j)
         /\ stream.bad \in 0..EndOf
         /\ stream.method # "none" => EndOf > 0 /\ Plain(EndOf - 1) = PlainSize
<1>1. /\ stream.plain \in Seq(Nat) /\ stream.plain # <<>>
      /\ stream.bad \in 0..Len(stream.plain) - 1
      /\ \A j \in 1..Len(stream.plain) : \A i \in 1..j : stream.plain[i] <= stream.plain[j]
      /\ stream.method # "none" => 
           /\ Len(stream.plain) > 1
           /\ stream.plain[Len(stream.plain) - 1] = stream.plain[Len(stream.plain)]
  BY FilesAssumption
<1> DEFINE n == Len(stream.plain)
<1>2. n \in Nat \ {0} /\ \A k \in 1..n : stream.plain[k] \in Nat
  BY <1>1, EmptySeq
<1> HIDE DEF n
<1>3. EndOf = n - 1 /\ EndOf \in Nat
  BY <1>2 DEF EndOf, n
<1>4. \A k \in 0..EndOf : Plain(k) \in Nat
  BY <1>2, <1>3 DEF Plain
<1>5. ASSUME NEW j \in 0..EndOf, NEW i \in 0..j PROVE Plain(i) <= Plain(j)
  <2>1. j + 1 \in 1..n /\ i + 1 \in 1..j + 1
    BY <1>2, <1>3, <1>5
  <2> QED
    BY <1>1, <2>1 DEF Plain, n
<1>6. stream.bad \in 0..EndOf
  BY <1>1, <1>3 DEF n
<1>7. ASSUME stream.method # "none" PROVE EndOf > 0 /\ Plain(EndOf - 1) = PlainSize
  <2>1. n > 1 /\ stream.plain[n - 1] = stream.plain[n]
    BY <1>1, <1>7 DEF n
  <2>2. (EndOf - 1) + 1 = n - 1 /\ EndOf + 1 = n /\ EndOf > 0
    BY <1>2, <1>3, <2>1
  <2>3. Plain(EndOf - 1) = stream.plain[n - 1]
    BY <2>2 DEF Plain
  <2>4. PlainSize = stream.plain[n]
    BY <2>2 DEF Plain, PlainSize
  <2> QED
    BY <2>1, <2>2, <2>3, <2>4
<1>8. PlainSize \in Nat
  BY <1>3, <1>4 DEF PlainSize
<1>9. \A j \in 0..EndOf : \A i \in 0..j : Plain(i) <= Plain(j)
  BY Zenon, <1>5
<1>10. EndOf \in Nat
  BY <1>3
<1> QED
  BY Zenon, <1>4, <1>6, <1>7, <1>8, <1>9, <1>10

LEMMA OptIs ==
  /\ Opt \in Seq({"name", "comment"}) /\ Len(Opt) \in Nat
  /\ Remaining(0) = Opt
  /\ \A n \in 0..Len(Opt) : Remaining(n) \in Seq({"name", "comment"})
  /\ \A n \in 0..Len(Opt) : Remaining(n) = <<>> <=> n = Len(Opt)
  /\ \A n \in 0..Len(Opt) : n < Len(Opt) =>
       Head(Remaining(n)) = Opt[n + 1] /\ Tail(Remaining(n)) = Remaining(n + 1)
<1>1. Opt \in Seq({"name", "comment"})
  <2> DEFINE S == {"name", "comment"}
             s == IF "FNAME" \in stream.flags THEN <<"name">> ELSE <<>>
             t == IF stream.flags \cap {"FCOMMENT", "FEXTRA", "FHCRC"} # {}
                  THEN <<"comment">> ELSE <<>>
  <2>0. <<>> \in Seq(S) /\ <<"name">> \in Seq(S) /\ <<"comment">> \in Seq(S)
    <3>1. "name" \in S /\ "comment" \in S
      OBVIOUS
    <3> HIDE DEF S
    <3> QED
      BY <3>1
  <2>1. s \in Seq(S) /\ t \in Seq(S)
    <3> HIDE DEF S
    <3> QED
      BY <2>0, Zenon
  <2> HIDE DEF S, s, t
  <2>2. s \o t \in Seq(S)
    BY <2>1
  <2> QED
    BY <2>2 DEF S, s, t, Opt, Optional
<1> DEFINE m == Len(Opt)
           S == {"name", "comment"}
<1>2. m \in Nat /\ Opt \in [1..m -> S]
  BY <1>1
<1>3. Opt = [i \in 1..m |-> Opt[i]]
  BY <1>2
<1> HIDE DEF m, S
<1>4. ASSUME NEW n \in 0..m
      PROVE  /\ Remaining(n) \in Seq(S) /\ Len(Remaining(n)) = m - n
             /\ \A i \in 1..m - n : Remaining(n)[i] = Opt[i + n]
  <2>1. m - n \in Nat /\ \A i \in 1..m - n : i + n \in 1..m
    BY <1>2
  <2>2. Remaining(n) \in [1..m - n -> S]
    BY <1>2, <2>1 DEF Remaining, m
  <2>3. \A i \in 1..m - n : Remaining(n)[i] = Opt[i + n]
    BY DEF Remaining, m
  <2> DEFINE l == m - n
             r == Remaining(n)
  <2>4. l \in Nat /\ r \in [1..l -> S]
    BY <2>1, <2>2
  <2> HIDE DEF l, r
  <2>5. r \in Seq(S) /\ Len(r) = l
    BY <2>4
  <2> QED
    BY <2>3, <2>5 DEF l, r
<1>5. Remaining(0) = Opt
  BY <1>2, <1>3 DEF Remaining, m
<1>6. ASSUME NEW n \in 0..m PROVE Remaining(n) = <<>> <=> n = m
  <2>1. Remaining(n) \in Seq(S) /\ Len(Remaining(n)) = m - n
    BY <1>4
  <2>2. Remaining(n) = <<>> <=> Len(Remaining(n)) = 0
    BY <2>1, EmptySeq
  <2> QED
    BY <1>2, <2>1, <2>2
<1>7. ASSUME NEW n \in 0..m, n < m
      PROVE  Head(Remaining(n)) = Opt[n + 1] /\ Tail(Remaining(n)) = Remaining(n + 1)
  <2>1. n + 1 \in 0..m /\ m - n \in Nat \ {0} /\ m - (n + 1) = (m - n) - 1
    BY <1>2, <1>7
  <2>2. Head(Remaining(n)) = Opt[n + 1]
    <3>1. Head(Remaining(n)) = Remaining(n)[1]
      <4>1. Remaining(n) \in Seq(S)
        BY <1>4
      <4> QED
        BY <4>1
    <3>2. 1 \in 1..m - n /\ 1 + n = n + 1
      BY <2>1
    <3> QED
      BY <1>4, <3>1, <3>2
  <2>3. /\ Tail(Remaining(n)) \in Seq(S) /\ Len(Tail(Remaining(n))) = (m - n) - 1
        /\ \A i \in 1..(m - n) - 1 : Tail(Remaining(n))[i] = Remaining(n)[i + 1]
    <3>1. Remaining(n) \in Seq(S) /\ Remaining(n) # <<>> /\ Len(Remaining(n)) = m - n
      BY <1>4, <1>6, <1>7, <2>1
    <3> QED
      BY <3>1, <2>1, HeadTailProperties
  <2>4. ASSUME NEW i \in 1..(m - n) - 1
        PROVE  Tail(Remaining(n))[i] = Remaining(n + 1)[i]
    <3>1. i + 1 \in 1..m - n /\ i \in 1..m - (n + 1) /\ (i + 1) + n = i + (n + 1)
      BY <1>2, <2>1
    <3>2. Remaining(n + 1)[i] = Opt[i + (n + 1)]
      BY <1>4, <2>1, <3>1
    <3>3. Remaining(n)[i + 1] = Opt[(i + 1) + n]
      BY <1>4, <3>1
    <3> QED
      BY <2>3, <3>1, <3>2, <3>3
  <2>5. Remaining(n + 1) \in Seq(S) /\ Len(Remaining(n + 1)) = (m - n) - 1
    BY <1>4, <2>1
  <2> QED
    BY <2>2, <2>3, <2>4, <2>5, SeqEqual
<1> QED
  BY Zenon, <1>1, <1>2, <1>4, <1>5, <1>6, <1>7 DEF m, S

(* A read from the position on. *)
LEMMA ReadBegins ==
  ASSUME Inv, NEW count \in Nat, BRead(count)
  PROVE  ReadFrom(Position, count)'
<1>1. Position' = Position /\ Position \in 0..fsize /\ fsize' = fsize /\ fsize \in Nat
      /\ want = 0
  BY DEF BRead, file, buffer, Position, Inv, Placed, InProgress, Serving
<1>2. CASE Position = fsize \/ count = 0
  <2>1. want' = 0 /\ breply' = Answer(ReadCall(count), 0, <<>>)
    BY <1>1, <1>2 DEF BRead, Returns
  <2>2. 0 = Lesser(count, fsize - Position) /\ Run(Position, 0) = <<>>
    BY <1>1, <1>2 DEF Lesser, Run
  <2> QED
    BY <1>1, <2>1, <2>2 DEF ReadFrom, Serving, Answer
<1>3. CASE ~(Position = fsize \/ count = 0)
  <2>1. want' > 0 /\ got' = <<>> /\ bcall' = ReadCall(count)
    BY <1>3 DEF BRead
  <2> QED
    BY <1>1, <2>1 DEF ReadFrom, Serving
<1> QED
  BY <1>2, <1>3

LEMMA ReadStarts ==
  ASSUME Inv, NEW count \in Nat, BRead(count), NEW p \in Nat, Position = p
  PROVE  ReadFrom(p, count)'
<1>1. Position' = p
  BY DEF BRead, buffer, Position
<1> QED
  BY <1>1, ReadBegins DEF ReadFrom

LEMMA ReadGoesOn ==
  ASSUME Inv, Inv', BStep, NEW p \in Nat, NEW count \in Nat, ReadFrom(p, count)
  PROVE  \/ ReadFrom(p, count)'
         \/ ~Serving' /\ breply' = Failure(bcall) /\ faults' # faults
<1>1. CASE RefillFails /\ faults' # faults
  BY <1>1 DEF RefillFails, Fails, Serving
<1>2. CASE \E n \in Nat : /\ n <= want /\ want > 0 /\ Copied(n, Position)
                          /\ Position' = Position + n
                          /\ UNCHANGED <<fsize, faults, bcall>>
                          /\ n = 0 => Position = fsize
  <2>1. PICK n \in Nat : /\ n <= want /\ want > 0 /\ Copied(n, Position)
                         /\ Position' = Position + n
                         /\ UNCHANGED <<fsize, faults, bcall>>
                         /\ n = 0 => Position = fsize
    BY <1>2
  <2>2. /\ got' = Run(Position - Len(got), Len(got) + n)
        /\ Len(got') = Len(got) + n
    BY <2>1, CopiedOn
  <2>3. /\ Len(got) \in Nat /\ want \in Nat /\ Position \in 0..fsize /\ fsize \in Nat
        /\ Position' \in 0..fsize
    <3>1. fsize' = fsize
      BY <2>1
    <3>2. Position \in 0..fsize /\ Position' \in 0..fsize'
      BY CommittedNow DEF Positions
    <3>3. Len(got) \in Nat /\ want \in Nat /\ fsize \in Nat
      BY DEF Inv, InProgress, Placed
    <3> QED
      BY <3>1, <3>2, <3>3
  <2>4. bcall = ReadCall(count) /\ Position - Len(got) = p /\ Len(got) + want = count
    BY <2>1 DEF ReadFrom, Serving, Inv, InProgress, ReadCall
  <2>5. Position' - Len(got') = p
    BY <2>1, <2>2, <2>3, <2>4
  <2>6. CASE n = want \/ n = 0
    <3>1. want' = 0 /\ breply' = Answer(bcall, Len(got'), got')
      BY <2>6, <2>1 DEF Copied, Returns
    <3>2. Len(got') = Lesser(count, fsize - p)
      BY <2>1, <2>2, <2>3, <2>4, <2>6 DEF Lesser
    <3>3. got' = Run(p, Len(got'))
      BY <2>2, <2>4
    <3>4. Position' = p + Len(got')
      BY <2>2, <2>3, <2>5
    <3> QED
      BY <2>1, <3>1, <3>2, <3>3, <3>4 DEF ReadFrom, Serving, Answer
  <2>7. CASE ~(n = want \/ n = 0)
    <3>1. want' = want - n
      BY <2>1, <2>7 DEF Copied
    <3>2. want' > 0
      BY <2>1, <2>3, <2>7, <3>1
    <3> QED
      BY <2>1, <2>4, <2>5, <3>2 DEF ReadFrom, Serving
  <2> QED
    BY <2>6, <2>7
<1> QED
  BY <1>1, <1>2, StepCopies

LEMMA SeekArrives ==
  ASSUME Inv, SeekFaults = FALSE, NEW off \in Int, BSeek(off, "set")
  PROVE  /\ Inv'
         /\ \/ Sought(off)' /\ off \in 0..fsize /\ faults' = faults
            \/ /\ ~Serving' /\ breply'.value = -1
               /\ off \notin 0..fsize \/ faults' # faults
<1>1. off = Target(SeekCall(off, "set"), Position, fsize)
  BY DEF Target, SeekCall
<1>2. faults \in Nat
  BY DEF Inv, Placed
<1>3. "set" \in {"set", "cur", "end"}
  OBVIOUS
<1>4. Inv'
  BY <1>3, SeekKeeps
<1>5. /\ want' = 0
      /\ \/ /\ off \in 0..fsize /\ Position' = off /\ faults' = faults
            /\ breply' = Answer(SeekCall(off, "set"), off, <<>>)
         \/ /\ breply' = Failure(SeekCall(off, "set"))
            /\ (off \notin 0..fsize /\ faults' = faults) \/ faults' = faults + 1
  BY <1>1, <1>3, SeekLeads
<1>6. ~Serving'
  BY <1>5 DEF Serving
<1> QED
  BY <1>2, <1>4, <1>5, <1>6 DEF Sought, Answer, Failure

(* The steps of the source underneath leave what they return in order. *)
LEMMA DataTyped ==
  ASSUME Inv, Inv', breply.data \in Seq(Int)
  PROVE  /\ \A count \in Nat : BRead(count) => breply'.data \in Seq(Int)
         /\ \A off \in Int, whence \in {"set", "cur", "end"} :
              BSeek(off, whence) => breply'.data \in Seq(Int)
         /\ BStep => breply'.data \in Seq(Int)
<1>1. <<>> \in Seq(Int) /\ got' \in Seq(Int)
  BY DEF Inv, InProgress
<1>2. \A c, value : /\ Answer(c, value, <<>>).data = <<>>
                    /\ Failure(c).data = <<>>
                    /\ Answer(c, value, got').data = got'
  BY DEF Failure, Answer
<1>3. ASSUME NEW count \in Nat, BRead(count) PROVE breply'.data \in Seq(Int)
  BY <1>1, <1>2, <1>3 DEF BRead, Returns
<1>4. ASSUME NEW off \in Int, NEW whence \in {"set", "cur", "end"}, BSeek(off, whence)
      PROVE  breply'.data \in Seq(Int)
  BY <1>1, <1>2, <1>4 DEF BSeek, Returns, Fails
<1>5. ASSUME BStep PROVE breply'.data \in Seq(Int)
  BY <1>1, <1>2, <1>5
  DEF BStep, CopyBuffered, RefillAndCopy, RefillFails, Copied, Returns, Fails
<1> QED
  BY <1>3, <1>4, <1>5

-----------------------------------------------------------------------------
(* What the decompressor does with a chunk of input. *)

LEMMA ConsumedIs ==
  ASSUME DsInv, NEW n \in Nat, ~strm.broken
  PROVE  /\ Consumed(n) \in strm.fed..EndOf
         /\ Consumed(n) <= strm.fed + n
         /\ \/ Plain(Consumed(n)) <= strm.made + Chunk
            \/ \A j \in strm.fed..Consumed(n) - 1 : Plain(j) < strm.made + Chunk
<1> DEFINE last == Lesser(strm.fed + n, EndOf)
           room == strm.made + Chunk
           Enough(k) == Plain(k) >= room /\ \A j \in strm.fed..k - 1 : Plain(j) < room
<1>1. /\ EndOf \in Nat /\ strm.fed \in 0..EndOf /\ room \in Nat
      /\ \A k \in 0..EndOf : Plain(k) \in Nat
  BY SMTT(30), FileIs, StepsAssumption DEF DsInv, Decoded, Typed, FileTyped, Decompressor
<1>2. last \in strm.fed..EndOf /\ last <= strm.fed + n
  BY <1>1 DEF Lesser
<1>3. CASE Plain(last) <= room
  BY <1>2, <1>3 DEF Consumed
<1>4. CASE ~(Plain(last) <= room)
  <2>1. \E k \in strm.fed..last : Enough(k)
    <3> DEFINE S == {k \in strm.fed..last : Plain(k) >= room}
    <3> HIDE DEF last, room
    <3>1. S \subseteq Nat /\ S # {}
      <4>1. last \in S
        BY <1>1, <1>2, <1>4
      <4> QED
        BY <1>1, <1>2, <4>1
    <3>2. PICK k \in S : \A j \in S : k <= j
      <4> HIDE DEF S
      <4> QED
        BY <3>1, LeastNumber
    <3>3. Enough(k)
      <4>1. k \in strm.fed..last /\ Plain(k) >= room
        BY <3>2
      <4>2. ASSUME NEW j \in strm.fed..k - 1 PROVE Plain(j) < room
        <5>1. j \in strm.fed..last /\ j < k /\ j \in 0..EndOf
          BY <1>1, <1>2, <4>1
        <5>2. ~(Plain(j) >= room)
          BY <3>1, <3>2, <5>1
        <5> QED
          BY <1>1, <5>1, <5>2
      <4> QED
        BY <4>1, <4>2
    <3> QED
      BY <3>2, <3>3
  <2>2. Consumed(n) = CHOOSE k \in strm.fed..last : Enough(k)
    BY <1>4 DEF Consumed
  <2>3. Consumed(n) \in strm.fed..last /\ Enough(Consumed(n))
    <3> HIDE DEF Enough, last
    <3> QED
      BY <2>1, <2>2
  <2> QED
    BY <1>1, <1>2, <2>3
<1> QED
  BY <1>3, <1>4

(* What inflate and BZ2_bzDecompress do, whatever their input is worth. *)
Decompressed(input) ==
  /\ chunk' = strm.made /\ resultPos' = 0 /\ pc' \in {"back", "failed"}
  /\ strm' \in Decompressor /\ strm'.live = strm.live
  /\ strm'.fed \in 0..EndOf /\ strm'.made <= PlainSize
  /\ strm.made + Chunk - strm'.availOut = strm'.made
  /\ strm'.availOut \in 0..Chunk
  /\ ~strm'.broken => strm'.made <= Plain(strm'.fed)

LEMMA DecompressIs ==
  ASSUME DsInv, NEW input \in Seq(Int), Decompress(input)
  PROVE  Decompressed(input)
<1> DEFINE n    == Len(input)
           k    == Consumed(n)
           made == Lesser(strm.made + Chunk, Plain(k))
           good == Lesser(strm.made + Chunk, Plain(stream.bad - 1))
<1>1. /\ stream \in Files /\ strm \in Decompressor /\ Chunk \in Nat \ {0} /\ n \in Nat
      /\ strm.fed \in 0..EndOf /\ strm.made <= PlainSize /\ strm.made \in Nat
      /\ ~strm.broken => strm.made <= Plain(strm.fed)
  BY StepsAssumption DEF DsInv, Typed, FileTyped, Decoded, Decompressor
<1>2. /\ EndOf \in Nat /\ PlainSize \in Nat /\ stream.bad \in 0..EndOf
      /\ \A i \in 0..EndOf : Plain(i) \in Nat
      /\ \A j \in 0..EndOf : \A i \in 0..j : Plain(i) <= Plain(j)
      /\ PlainSize = Plain(EndOf)
  BY <1>1, FileIs DEF PlainSize
<1>3. ASSUME NEW m \in 0..EndOf, m >= strm.fed, ~strm.broken,
             NEW out, out = Lesser(strm.made + Chunk, Plain(m))
      PROVE  /\ out \in Nat /\ out <= PlainSize /\ out <= Plain(m)
             /\ strm.made <= out /\ out <= strm.made + Chunk
  <2>1. Plain(m) \in Nat /\ Plain(strm.fed) \in Nat /\ Plain(strm.fed) <= Plain(m)
    BY <1>1, <1>2, <1>3
  <2>2. Plain(m) <= PlainSize
    BY <1>2
  <2>3. strm.made <= Plain(strm.fed)
    BY <1>1, <1>3
  <2> HIDE DEF Plain
  <2>4. /\ strm.made \in Nat /\ Chunk \in Nat /\ PlainSize \in Nat
        /\ strm.made <= Plain(m)
    BY <1>1, <1>2, <2>1, <2>3
  <2>5. out = IF strm.made + Chunk <= Plain(m) THEN strm.made + Chunk ELSE Plain(m)
    BY SMTT(30), <1>3, <2>1, <2>4 DEF Lesser
  <2> QED
    BY <2>1, <2>2, <2>4, <2>5
<1>4. CASE /\ ~strm.broken
           /\ strm' = [strm EXCEPT !.fed = k, !.made = made,
                          !.ended = k = EndOf /\ made = PlainSize,
                          !.availIn = n - (k - strm.fed),
                          !.availOut = Chunk - (made - strm.made)]
           /\ pc' = "back"
  <2>1. k \in 0..EndOf /\ k >= strm.fed
    <3> HIDE DEF n
    <3>1. Consumed(n) \in strm.fed..EndOf
      BY <1>1, <1>4, ConsumedIs
    <3> QED
      BY <1>1, <1>2, <3>1
  <2>2. /\ made \in Nat /\ made <= PlainSize /\ made <= Plain(k)
        /\ strm.made <= made /\ made <= strm.made + Chunk
    BY <1>3, <1>4, <2>1
  <2>3. n - (k - strm.fed) \in Int /\ k \in Nat
    BY <1>1, <1>2, <2>1
  <2>4. Chunk - (made - strm.made) \in 0..Chunk
    BY <1>1, <2>2
  <2> DEFINE e == k = EndOf /\ made = PlainSize
             i == n - (k - strm.fed)
             o == Chunk - (made - strm.made)
  <2> HIDE DEF k, made, n
  <2>5. strm' \in Decompressor /\ strm'.live = strm.live /\ strm'.fed = k /\ strm'.made = made
        /\ strm'.availOut = Chunk - (made - strm.made) /\ strm'.broken = strm.broken
    <3>1. e \in BOOLEAN /\ i \in Int /\ o \in Int
      BY <2>3, <2>4
    <3>2. strm' = [strm EXCEPT !.fed = k, !.made = made, !.ended = e, !.availIn = i,
                               !.availOut = o]
      BY <1>4
    <3> HIDE DEF e, i, o
    <3>3. strm' \in Decompressor /\ strm'.live = strm.live /\ strm'.fed = k /\ strm'.made = made
          /\ strm'.availOut = o /\ strm'.broken = strm.broken
      BY <1>1, <2>2, <2>3, <3>1, <3>2 DEF Decompressor
    <3> QED
      BY <3>3 DEF o
  <2> QED
    BY SMTT(30), <1>1, <1>4, <2>1, <2>2, <2>4, <2>5 DEF Decompressed, Decompress
<1>5. CASE /\ ~strm.broken /\ strm.fed < stream.bad
           /\ strm' = [strm EXCEPT !.broken = TRUE, !.made = good,
                          !.availOut = Chunk - (good - strm.made)]
           /\ pc' = "failed"
  <2>1. stream.bad - 1 \in 0..EndOf /\ stream.bad - 1 >= strm.fed
    BY <1>1, <1>2, <1>5
  <2>2. /\ good \in Nat /\ good <= PlainSize
        /\ strm.made <= good /\ good <= strm.made + Chunk
    BY <1>3, <1>5, <2>1
  <2>3. Chunk - (good - strm.made) \in 0..Chunk
    BY <1>1, <2>2
  <2> DEFINE o == Chunk - (good - strm.made)
  <2> HIDE DEF good
  <2>4. strm' \in Decompressor /\ strm'.live = strm.live /\ strm'.made = good /\ strm'.broken
        /\ strm'.availOut = Chunk - (good - strm.made) /\ strm'.fed = strm.fed
    <3>1. strm' = [strm EXCEPT !.broken = TRUE, !.made = good, !.availOut = o] /\ o \in Int
      BY <1>5, <2>3
    <3> HIDE DEF o
    <3>2. good \in Nat /\ strm \in Decompressor
      BY <1>1, <2>2
    <3>3. strm' \in Decompressor /\ strm'.live = strm.live /\ strm'.made = good /\ strm'.broken
          /\ strm'.availOut = o /\ strm'.fed = strm.fed
      BY <3>1, <3>2 DEF Decompressor
    <3> QED
      BY <3>3 DEF o
  <2> QED
    BY <1>1, <1>5, <2>2, <2>3, <2>4 DEF Decompressed, Decompress
<1>6. CASE /\ strm' = [strm EXCEPT !.availOut = Chunk]
           /\ pc' = "failed"
  <2>1. strm' \in Decompressor /\ strm'.live = strm.live /\ strm'.made = strm.made
        /\ strm'.broken = strm.broken
        /\ strm'.availOut = Chunk /\ strm'.fed = strm.fed
    <3>1. strm \in Decompressor /\ Chunk \in Nat
      BY <1>1
    <3> QED
      BY SMTT(30), <1>6, <3>1 DEF Decompressor
  <2>2. Chunk \in 0..Chunk
    BY <1>1
  <2> QED
    BY <1>1, <1>6, <2>1, <2>2 DEF Decompressed, Decompress
<1> QED
  BY <1>4, <1>5, <1>6 DEF Decompress

-----------------------------------------------------------------------------
(* The steps that delivering and moving consist of. *)

(* cfs_read begins with n bytes that have waited. *)
Begun(n, count) ==
  /\ n \in 0..count /\ n <= Made - resultPos
  /\ data' = Run(chunk + resultPos, n)
  /\ cpos' = cpos + n /\ resultPos' = resultPos + n /\ rest' = count - n
  /\ \/ pc' = "returned" /\ (cpos = known \/ n = count)
     \/ pc' = "fetch" /\ n = Made - resultPos /\ n < count

LEMMA BeginReadIs ==
  ASSUME Waiting, NEW count \in Nat, BeginRead(count)
  PROVE  \E n \in 0..count : Begun(n, count)
<1> DEFINE n == IF cpos = known THEN 0 ELSE Lesser(count, Made - resultPos)
<1>1. n \in 0..count /\ n <= Made - resultPos
      /\ (cpos # known /\ n # count => n = Made - resultPos /\ n < count)
  BY StepsAssumption DEF Waiting, Lesser
<1>2. /\ data' = Run(chunk + resultPos, n)
      /\ cpos' = cpos + n /\ resultPos' = resultPos + n /\ rest' = count - n
      /\ pc' = IF cpos = known \/ n = count THEN "returned" ELSE "fetch"
  BY DEF BeginRead
<1> HIDE DEF n
<1> QED
  BY <1>1, <1>2 DEF Begun

(* ... and goes on with n bytes of the new chunk. *)
Went(n) ==
  /\ n \in 0..rest /\ n <= Made
  /\ data' = data \o Run(chunk, n)
  /\ cpos' = cpos + n /\ resultPos' = n /\ rest' = rest - n
  /\ \/ pc' = "returned" /\ (n = rest \/ strm.ended)
     \/ pc' = "fetch" /\ n = Made /\ n < rest
  /\ n = rest \/ n = Made

LEMMA CopyResultIs ==
  ASSUME Typed, Waiting, CopyResult
  PROVE  \E n \in 0..rest : Went(n)
<1> DEFINE n == Lesser(Made, rest)
<1>1. rest \in Nat /\ Made \in Nat
  BY StepsAssumption DEF Typed, Waiting
<1>2. n \in 0..rest /\ n <= Made /\ (n = rest \/ n = Made) /\ (n # rest => n < rest)
  BY <1>1 DEF Lesser
<1>3. /\ data' = data \o Run(chunk, n)
      /\ cpos' = cpos + n /\ resultPos' = n /\ rest' = rest - n
      /\ pc' = IF n = rest \/ strm.ended THEN "returned" ELSE "fetch"
  BY DEF CopyResult
<1> HIDE DEF n
<1> QED
  BY <1>2, <1>3 DEF Went

(* cfs_seek towards a place. *)
Moved(target) ==
  \/ /\ target >= cpos /\ delta' = target - cpos /\ pc' = "skip"
     /\ UNCHANGED <<cpos, resultPos, strm>>
  \/ /\ target < cpos /\ resultPos >= cpos - target /\ pc' = "moved"
     /\ cpos' = target /\ resultPos' = resultPos - (cpos - target)
     /\ UNCHANGED <<delta, strm>>
  \/ /\ strm' = [strm EXCEPT !.live = FALSE] /\ delta' = target /\ pc' = "init"
     /\ UNCHANGED <<cpos, resultPos>>

LEMMA MoveIs ==
  ASSUME Typed, NEW target \in Int, Move(target)
  PROVE  Moved(target)
<1>1. cpos \in Int /\ resultPos \in Int
  BY DEF Typed
<1> QED
  BY <1>1 DEF Move, Moved

-----------------------------------------------------------------------------
Whences == {"set", "cur", "end"}

LEMMA SourceMoves ==
  ASSUME DsInv, [DsNext]_vars
  PROVE  \/ UNCHANGED bvars \/ BStep
         \/ \E count \in Nat : BRead(count)
         \/ \E off \in Int, whence \in Whences : BSeek(off, whence)
<1>1. 0 \in Int /\ -strm.availIn \in Int /\ "set" \in Whences /\ "cur" \in Whences
  BY DEF DsInv, Typed, FileTyped, Decompressor, Whences
<1>2. pc \in {"field", "fieldFound", "fieldRead"} => hlen \in Int
  BY StepsAssumption, OptIs DEF DsInv, Headers, FirstField
<1>3. MagicSize \in Nat /\ HeaderSize \in Nat /\ FieldSize \in Nat /\ Chunk \in Nat
  BY StepsAssumption
<1>4. CASE Probe \/ InitDecompressor \/ Rewind
  BY <1>1, <1>4 DEF Probe, InitDecompressor, Rewind
<1>5. CASE SeekField
  BY <1>1, <1>2, <1>5 DEF SeekField, Calling
<1>6. CASE GiveBack
  BY <1>1, <1>6 DEF GiveBack
<1>7. CASE ProbeRead \/ ReadHeader \/ ReadField \/ Fetch
  BY <1>3, <1>7 DEF ProbeRead, ReadHeader, ReadField, Fetch
<1>8. ASSUME NEW c \in Calls, PlainCall(c) PROVE
         \/ \E count \in Nat : BRead(count)
         \/ \E off \in Int, whence \in Whences : BSeek(off, whence)
  BY <1>8, CallsAssumption DEF PlainCall, BCall, Whences
<1>9. CASE \/ Probed \/ HeaderParsed \/ ReportField \/ DecompressorReady \/ InitFails
           \/ FetchFails \/ FetchedNothing \/ Inflate \/ GiveBackFails \/ CopyResult
           \/ Skip \/ Skipped
           \/ PlainReturn \/ ReadReturn \/ SeekReturn \/ Measure \/ Restore \/ Measured
           \/ Destroy
  BY <1>9
  DEF Probed, HeaderParsed, ReportField, DecompressorReady, InitFails, FetchFails,
      FetchedNothing, Inflate, GiveBackFails, CopyResult, Skip, Skipped, PlainReturn,
      ReadReturn, SeekReturn, Measure, Restore, Measured, Destroy
<1>10. ASSUME NEW c \in Calls, Read(c) \/ Seek(c) \/ GetSize(c) PROVE UNCHANGED bvars
  BY <1>10 DEF Read, Seek, GetSize
<1>11. CASE UNCHANGED vars
  BY <1>11 DEF vars
<1> QED
  BY <1>4, <1>5, <1>6, <1>7, <1>8, <1>9, <1>10, <1>11 DEF DsNext, Work

LEMMA SourceKeeps ==
  ASSUME DsInv, SeekFaults = FALSE, [DsNext]_vars
  PROVE  Inv' /\ fsize' = fsize /\ breply'.data \in Seq(Int)
<1>1. Inv /\ breply.data \in Seq(Int)
  BY DEF DsInv, Typed, FileTyped
<1>2. CASE UNCHANGED bvars
  BY <1>1, <1>2, StutterKeeps DEF bvars
<1>3. CASE BStep
  BY <1>1, <1>3, StepKeeps, DataTyped
  DEF BStep, CopyBuffered, RefillAndCopy, RefillFails, file
<1>4. ASSUME NEW count \in Nat, BRead(count)
      PROVE  Inv' /\ fsize' = fsize /\ breply'.data \in Seq(Int)
  BY <1>1, <1>4, ReadKeeps, DataTyped DEF BRead, file
<1>5. ASSUME NEW off \in Int, NEW whence \in Whences, BSeek(off, whence)
      PROVE Inv' /\ fsize' = fsize /\ breply'.data \in Seq(Int)
  BY <1>1, <1>5, SeekKeeps, DataTyped DEF BSeek, file, Whences
<1> QED
  BY <1>2, <1>3, <1>4, <1>5, SourceMoves

(* The file does not change. *)
LEMMA StreamKept ==
  ASSUME [DsNext]_vars PROVE stream' = stream
<1>1. CASE Work
  BY <1>1 DEF Work, Probe, ProbeRead, Probed, InitDecompressor, ReadHeader, HeaderParsed,
    SeekField, ReadField, ReportField, Rewind, DecompressorReady, InitFails, Fetch, FetchFails,
    FetchedNothing, Inflate, GiveBack, GiveBackFails, CopyResult, Skip, Skipped, PlainReturn,
    ReadReturn, SeekReturn, Measure, Restore, Measured, Calling
<1>2. ASSUME NEW c \in Calls, PlainCall(c) \/ Read(c) \/ Seek(c) \/ GetSize(c)
      PROVE  stream' = stream
  BY <1>2 DEF PlainCall, Read, Seek, GetSize
<1>3. CASE Destroy \/ UNCHANGED vars
  BY <1>3 DEF Destroy, vars
<1> QED
  BY <1>1, <1>2, <1>3 DEF DsNext

LEMMA Refitted ==
  ASSUME strm \in Decompressor
  PROVE  /\ [strm EXCEPT !.availIn = 0, !.availOut = 0] \in Decompressor
         /\ [strm EXCEPT !.live = FALSE] \in Decompressor
<1> DEFINE a == [strm EXCEPT !.availIn = 0]
           b == [a EXCEPT !.availOut = 0]
<1>1. a \in Decompressor
  BY DEF Decompressor
<1>2. [strm EXCEPT !.availIn = 0, !.availOut = 0] = b
  OBVIOUS
<1> HIDE DEF a
<1>3. b \in Decompressor
  BY <1>1 DEF Decompressor
<1>4. [strm EXCEPT !.live = FALSE] \in Decompressor
  BY DEF Decompressor
<1> QED
  BY <1>2, <1>3, <1>4

LEMMA OpeningTyped ==
  ASSUME Typed, FileTyped',
         \/ Probe \/ ProbeRead \/ Probed \/ InitDecompressor \/ ReadHeader \/ HeaderParsed
         \/ SeekField \/ ReadField \/ ReportField \/ Rewind \/ DecompressorReady \/ InitFails
  PROVE  Typed'
<1> USE DEF Typed
<1>1. CASE Probe \/ ProbeRead \/ Probed \/ ReadHeader \/ HeaderParsed \/ SeekField \/ ReadField
  BY <1>1 DEF Probe, ProbeRead, Probed, ReadHeader, HeaderParsed, SeekField, ReadField, Calling,
              client, reading
<1>2. CASE InitDecompressor
  BY <1>2 DEF InitDecompressor, Calling, client, reading
<1>3. CASE ReportField \/ InitFails
  BY <1>3 DEF ReportField, InitFails, client, reading
<1>4. CASE Rewind
  <2>1. strm' = [strm EXCEPT !.availIn = 0, !.availOut = 0] /\ strm \in Decompressor
    BY <1>4 DEF Rewind
  <2>2. strm' \in Decompressor
    BY <2>1, Refitted
  <2> QED
    BY <1>4, <2>2 DEF Rewind, client, reading
<1>5. CASE DecompressorReady
  BY <1>5, StepsAssumption DEF DecompressorReady, client, reading, Decompressor
<1> QED
  BY <1>1, <1>2, <1>3, <1>4, <1>5

(* Reading and seeking happen between Begin and the return of the call. *)
LEMMA ReadingTyped ==
  ASSUME DsInv, FileTyped',
         \/ Fetch \/ FetchFails \/ FetchedNothing \/ Inflate \/ GiveBack \/ GiveBackFails
         \/ CopyResult \/ Skip \/ Skipped
  PROVE  Typed'
<1> USE DEF Typed
<1>1. Typed /\ DsInv
  BY DEF DsInv
<1>2. CASE Fetch \/ FetchFails \/ FetchedNothing \/ GiveBack \/ GiveBackFails
  <2> HIDE DEF FileTyped
  <2> QED
    BY SMTT(30), <1>1, <1>2
    DEF Fetch, FetchFails, FetchedNothing, GiveBack, GiveBackFails, Calling, client, reading
<1>3. CASE Inflate
  <2>1. breply.data \in Seq(Int) /\ Decompress(breply.data)
    BY <1>1, <1>3 DEF FileTyped, Inflate
  <2>2. Decompressed(breply.data)
    BY <2>1, DecompressIs
  <2> QED
    BY <1>1, <1>3, <2>2 DEF Inflate, Decompressed, client, reading, Decompressor
<1>4. CASE CopyResult
  <2>1. Waiting /\ kind = "compressed"
    BY <1>1, <1>4 DEF DsInv, Results, Phases, CopyResult, Beginning, Using
  <2>2. PICK n \in 0..rest : Went(n)
    BY <1>1, <1>4, <2>1, CopyResultIs
  <2>3. Run(chunk, n) \in Seq(Int) /\ n \in Nat /\ rest - n \in Nat
    BY <1>1, <2>2, RunIs
  <2>4. data' \in Seq(Int)
    BY <1>1, <2>2, <2>3 DEF Went
  <2>5. known' \in Int
    BY <1>1, <1>4, <2>1 DEF CopyResult, Waiting
  <2>6. cpos' \in Nat /\ resultPos' \in Nat /\ rest' \in Nat
    BY <1>1, <2>2, <2>3 DEF Went
  <2> QED
    BY <1>1, <1>4, <2>4, <2>5, <2>6 DEF CopyResult, client
<1>5. CASE Skip
  <2>1. Waiting
    BY <1>1, <1>5 DEF DsInv, Results, Phases, Skip, Beginning, Using
  <2>2. CASE delta > 0
    <3>1. Lesser(delta, Chunk) \in Nat
      BY <1>1, <2>2, StepsAssumption DEF Lesser
    <3>2. BeginRead(Lesser(delta, Chunk))
      BY <1>5, <2>2 DEF Skip
    <3>3. PICK n \in 0..Lesser(delta, Chunk) : Begun(n, Lesser(delta, Chunk))
      BY <2>1, <3>1, <3>2, BeginReadIs
    <3>4. Run(chunk + resultPos, n) \in Seq(Int) /\ n \in Nat
      BY <1>1, <3>1, <3>3, RunIs
    <3>5. cpos' \in Nat /\ resultPos' \in Nat /\ rest' \in Nat /\ data' \in Seq(Int)
      BY <1>1, <3>1, <3>3, <3>4 DEF Begun
    <3> QED
      BY <1>1, <1>5, <3>5 DEF Skip, client
  <2>3. CASE ~(delta > 0)
    BY <1>1, <1>5, <2>3 DEF Skip, client
  <2> QED
    BY <2>2, <2>3
<1>6. CASE Skipped
  BY <1>1, <1>6 DEF Skipped, client
<1> QED
  BY <1>2, <1>3, <1>4, <1>5, <1>6

LEMMA MovedTyped ==
  ASSUME Typed, NEW target \in Nat, Moved(target)
  PROVE  /\ cpos' \in Nat /\ resultPos' \in Nat /\ delta' \in Int /\ strm' \in Decompressor
         /\ pc' \in {"skip", "moved", "init"}
<1>1. /\ cpos \in Nat /\ resultPos \in Nat /\ delta \in Int /\ strm \in Decompressor
      /\ [strm EXCEPT !.live = FALSE] \in Decompressor
  BY Refitted DEF Typed
<1>2. CASE strm' = strm
  BY <1>1, <1>2 DEF Moved
<1>3. CASE strm' = [strm EXCEPT !.live = FALSE] /\ delta' = target /\ pc' = "init"
           /\ UNCHANGED <<cpos, resultPos>>
  BY <1>1, <1>3
<1> QED
  BY <1>2, <1>3 DEF Moved

LEMMA TargetIs ==
  ASSUME Typed, NEW c \in Calls, c.op = "seek"
  PROVE  Target(c, cpos, known) \in Int /\ c.off \in Int /\ c.whence \in Whences
BY CallsAssumption DEF Typed, Target, Whences

LEMMA ClientTyped ==
  ASSUME DsInv, FileTyped',
         \/ \E c \in Calls : PlainCall(c) \/ Read(c) \/ Seek(c) \/ GetSize(c)
         \/ PlainReturn \/ ReadReturn \/ SeekReturn \/ Measure \/ Restore \/ Measured
         \/ Destroy
         \/ BStep /\ UNCHANGED <<stream, kind, pc, client, cpos, resultPos, known, chunk,
                                 strm, task, reading, measuring, header>>
         \/ UNCHANGED vars
  PROVE  Typed'
<1>1. Typed
  BY DEF DsInv
<1>2. /\ cpos \in Nat /\ resultPos \in Nat /\ chunk \in Nat /\ rest \in Nat
      /\ known \in Int /\ delta \in Int /\ from \in Int
      /\ strm \in Decompressor /\ data \in Seq(Int)
      /\ measuring \in BOOLEAN
      /\ kind = "compressed" /\ pc # "idle" => call \in Calls
  BY <1>1 DEF Typed
<1>3. Position \in Int
  BY DEF DsInv, Inv, Placed, Position
<1>4. CASE UNCHANGED <<kind, pc, client, cpos, resultPos, known, chunk, strm, reading, measuring>>
  BY <1>2, <1>4 DEF Typed, client, reading
<1>5. CASE \E c \in Calls : PlainCall(c) \/ GetSize(c)
  <2>1. PICK c \in Calls : PlainCall(c) \/ GetSize(c)
    BY <1>5
  <2>2. UNCHANGED <<cpos, resultPos, known, chunk, strm, data, rest, delta>>
    BY <2>1 DEF PlainCall, GetSize, reading
  <2>3. from' \in Int /\ call' \in Calls
    BY <1>2, <1>3, <2>1 DEF PlainCall, GetSize
  <2>4. measuring' = TRUE \/ measuring' = measuring
    BY <2>1 DEF PlainCall, GetSize
  <2>5. measuring' \in BOOLEAN
    BY <1>2, <2>4
  <2> QED
    BY <1>2, <2>2, <2>3, <2>5 DEF Typed
<1>6. CASE PlainReturn \/ ReadReturn \/ SeekReturn \/ Destroy
  BY <1>2, <1>6 DEF Typed, PlainReturn, ReadReturn, SeekReturn, Destroy, client, reading
<1>7. ASSUME NEW count \in Nat, Waiting, BeginRead(count)
      PROVE  cpos' \in Nat /\ resultPos' \in Nat /\ rest' \in Nat /\ data' \in Seq(Int)
  <2>1. PICK n \in 0..count : Begun(n, count)
    BY <1>7, BeginReadIs
  <2>2. Run(chunk + resultPos, n) \in Seq(Int) /\ n \in Nat
    BY <1>2, <1>7, RunIs
  <2> QED
    BY <1>2, <1>7, <2>1, <2>2 DEF Begun
<1>8. CASE \E c \in Calls : Read(c)
  <2>1. PICK c \in Calls : Read(c)
    BY <1>8
  <2>2. c.count \in Nat
    BY <2>1, CallsAssumption DEF Read
  <2>3. Waiting
    BY <2>1 DEF Read, DsInv, Results, Using
  <2>4. cpos' \in Nat /\ resultPos' \in Nat /\ rest' \in Nat /\ data' \in Seq(Int)
    BY <1>7, <2>1, <2>2, <2>3 DEF Read
  <2> QED
    BY <1>2, <2>1, <2>4 DEF Read, Typed
<1>9. CASE Measure
  <2>1. Waiting /\ 2 * Chunk \in Nat
    BY <1>9, StepsAssumption DEF Measure, DsInv, Results, Phases, Using, Beginning
  <2>2. cpos' \in Nat /\ resultPos' \in Nat /\ rest' \in Nat /\ data' \in Seq(Int)
    BY <1>7, <1>9, <2>1 DEF Measure
  <2> QED
    BY <1>2, <1>9, <2>2 DEF Measure, Typed, client
<1>10. CASE \E c \in Calls : Seek(c)
  <2>1. PICK c \in Calls : Seek(c)
    BY <1>10
  <2> DEFINE target == Target(c, cpos, known)
  <2>2. target \in Int
    BY <1>1, <2>1, TargetIs DEF Seek
  <2>0. measuring' \in BOOLEAN
    <3>1. measuring' = TRUE \/ measuring' = measuring
      BY <2>1 DEF Seek
    <3> QED
      BY <1>2, <3>1
  <2>3. CASE MayMoveTo(target) /\ Move(target)
    <3>1. target \in Nat /\ Moved(target)
      BY <1>1, <2>2, <2>3, MoveIs DEF MayMoveTo
    <3> HIDE DEF target
    <3>2. cpos' \in Nat /\ resultPos' \in Nat /\ delta' \in Int /\ strm' \in Decompressor
      BY <1>1, <3>1, MovedTyped
    <3>3. /\ call' = c /\ from' = cpos
          /\ UNCHANGED <<known, chunk, data, rest>>
      BY <2>1 DEF Seek
    <3> QED
      BY <1>2, <2>0, <3>2, <3>3 DEF Typed
  <2>4. CASE UNCHANGED <<cpos, resultPos, strm, delta>>
    BY <1>2, <2>0, <2>1, <2>4 DEF Seek, Typed
  <2> QED
    BY <2>1, <2>3, <2>4 DEF Seek
<1>11. ASSUME NEW target \in Int, MayMoveTo(target), Move(target),
              UNCHANGED <<kind, from, call, known, chunk, data, rest>>, measuring' \in BOOLEAN,
              pc # "idle"
       PROVE  Typed'
  <2>1. target \in Nat /\ Moved(target)
    BY <1>1, <1>11, MoveIs DEF MayMoveTo
  <2>2. cpos' \in Nat /\ resultPos' \in Nat /\ delta' \in Int /\ strm' \in Decompressor
    BY <1>1, <2>1, MovedTyped
  <2> QED
    BY <1>2, <1>11, <2>2 DEF Typed
<1>12. CASE Restore
  BY <1>2, <1>11, <1>12 DEF Restore, Typed, client
<1>13. CASE Measured
  <2>1. call \in Calls
    BY <1>2, <1>13 DEF Measured, DsInv, Phases, Beginning
  <2>2. call.op = "seek" => Target(call, cpos, known) \in Int
    BY <1>1, <2>1, TargetIs
  <2> QED
    BY <1>2, <1>11, <1>13, <2>2 DEF Measured, Typed
<1> QED
  BY <1>4, <1>5, <1>6, <1>8, <1>9, <1>10, <1>12, <1>13 DEF vars

LEMMA TypedKept ==
  ASSUME DsInv, SeekFaults = FALSE, [DsNext]_vars
  PROVE  Typed'
<1>1. FileTyped'
  BY SourceKeeps, StreamKept DEF DsInv, Typed, FileTyped
<1>2. Typed
  BY DEF DsInv
<1> QED
  BY <1>1, <1>2, OpeningTyped, ReadingTyped, ClientTyped DEF DsNext, Work

LEMMA BeginReadPhase ==
  ASSUME NEW count, BeginRead(count) PROVE pc' \in {"returned", "fetch"}
BY DEF BeginRead

LEMMA MovePhase ==
  ASSUME NEW target, Move(target) PROVE pc' \in {"skip", "moved", "init"}
BY DEF Move

LEMMA PhasesKept ==
  ASSUME DsInv, [DsNext]_vars
  PROVE  Phases'
<1> USE DEF Phases, Beginning, Using
<1>1. Phases
  BY DEF DsInv
<1>2. CASE Probe \/ ProbeRead \/ Probed \/ InitDecompressor \/ ReadHeader \/ HeaderParsed
  BY <1>1, <1>2 DEF Probe, ProbeRead, Probed, InitDecompressor, ReadHeader, HeaderParsed, Calling
<1>3. CASE SeekField \/ ReadField \/ ReportField \/ Rewind \/ DecompressorReady \/ InitFails
  BY <1>1, <1>3 DEF SeekField, ReadField, ReportField, Rewind, DecompressorReady, InitFails, Calling
<1>4. CASE Fetch \/ FetchFails \/ FetchedNothing \/ GiveBack \/ GiveBackFails
  BY <1>1, <1>4 DEF Fetch, FetchFails, FetchedNothing, GiveBack, GiveBackFails, Calling
<1>5. CASE Inflate
  BY <1>1, <1>5 DEF Inflate, Decompress
<1>6. CASE CopyResult \/ Skipped \/ PlainReturn \/ ReadReturn \/ SeekReturn \/ Destroy
  BY <1>1, <1>6 DEF CopyResult, Skipped, PlainReturn, ReadReturn, SeekReturn, Destroy
<1>7. CASE Skip \/ Measure
  BY <1>1, <1>7, BeginReadPhase DEF Skip, Measure
<1>8. CASE Restore \/ Measured
  BY <1>1, <1>8, MovePhase DEF Restore, Measured
<1>9. ASSUME NEW c \in Calls, PlainCall(c) \/ Read(c) \/ Seek(c) \/ GetSize(c)
      PROVE  Phases'
  BY <1>1, <1>9, BeginReadPhase, MovePhase DEF PlainCall, Read, Seek, GetSize
<1>10. CASE UNCHANGED <<kind, pc>>
  BY <1>1, <1>10
<1> QED
  BY <1>2, <1>3, <1>4, <1>5, <1>6, <1>7, <1>8, <1>9, <1>10 DEF DsNext, Work, vars

-----------------------------------------------------------------------------
(* Starting and starting again *)

LEMMA HeadersFrame ==
  ASSUME DsInv, SeekFaults = FALSE, [DsNext]_vars,
         pc' \notin Beginning,
         pc' = "init" => kind = "compressed" \/ stream.method # "none",
         kind' = "compressed" => kind = "compressed" \/ pc = "rewound"
  PROVE  Headers'
<1>1. stream' = stream /\ fsize' = fsize
  BY SourceKeeps, StreamKept
<1>2. Opt' = Opt /\ FirstField' = FirstField
  BY <1>1 DEF Opt, FirstField
<1>3. Restartable' <=> Restartable
  BY <1>1, <1>2 DEF Restartable, WellFormed
<1>4. pc = "rewound" \/ kind = "compressed" => Restartable /\ stream.method # "none"
  BY DEF DsInv, Headers, Beginning
<1>5. kind' = "compressed" \/ pc' = "init" => stream'.method # "none"
  BY <1>1, <1>4
<1>6. kind' = "compressed" => Restartable'
  BY <1>3, <1>4
<1> QED
  BY <1>5, <1>6 DEF Headers, Beginning

(* A seek to the start, or to a place in the file, fails while the source  *)
(* is opened only.                                                         *)
LEMMA SeekStart ==
  ASSUME DsInv, SeekFaults = FALSE, RestartFaults = FALSE,
         pc \in {"init", "field"}, kind' = kind, Tolerated,
         NEW off \in Nat, BSeek(off, "set"),
         kind = "compressed" => off <= fsize
  PROVE  Sought(off)' \/ OpeningFails'
<1>1. fsize \in Nat /\ Inv
  BY DEF DsInv, Inv, Placed
<1>2. \/ Sought(off)'
      \/ /\ ~Serving' /\ breply'.value = -1
         /\ off \notin 0..fsize \/ faults' # faults
  <2>1. off \in Int /\ Inv
    BY <1>1
  <2> QED
    BY <2>1, SeekArrives, Zenon
<1>3. kind \in {"opening", "compressed"}
  BY DEF DsInv, Phases, Beginning, Using
<1>4. kind = "compressed" => faults' = faults /\ off \in 0..fsize
  BY <1>1 DEF Tolerated
<1> QED
  BY <1>2, <1>3, <1>4 DEF OpeningFails

LEMMA InitHeaders ==
  ASSUME DsInv, SeekFaults = FALSE, RestartFaults = FALSE, InitDecompressor
  PROVE  Headers'
<1>1. stream' = stream /\ kind' = kind /\ pc = "init" /\ Tolerated /\ BSeek(0, "set")
      /\ pc' = IF stream.method = "zlib" THEN "header" ELSE "rewound"
  BY DEF InitDecompressor, Calling
<1>2. fsize' = fsize /\ fsize \in Nat
  BY DEF BSeek, InitDecompressor, file, DsInv, Inv, Placed
<1>3. Sought(0)' \/ OpeningFails'
  <2>1. 0 \in Nat /\ (kind = "compressed" => 0 <= fsize) /\ pc \in {"init", "field"}
    BY <1>1, <1>2
  <2> QED
    BY <1>1, <2>1, SeekStart, Zenon
<1>4. stream.method # "none" /\ (kind = "compressed" => Restartable)
  BY <1>1 DEF DsInv, Headers
<1>5. Opt' = Opt /\ FirstField' = FirstField
  BY <1>1 DEF Opt, FirstField
<1>6. Restartable' <=> Restartable
  BY <1>1, <1>2, <1>5 DEF Restartable, WellFormed
<1>7. stream.method # "zlib" => Restartable
  BY DEF Restartable
<1> QED
  BY <1>1, <1>3, <1>4, <1>6, <1>7 DEF Headers, Beginning

LEMMA ReadHeaders ==
  ASSUME DsInv, SeekFaults = FALSE, [DsNext]_vars, ReadHeader
  PROVE  Headers'
<1>1. stream' = stream /\ fsize' = fsize /\ kind' = kind /\ pc = "header" /\ pc' = "headerRead"
      /\ breply.value = 0 /\ BRead(HeaderSize)
  BY SourceKeeps, StreamKept DEF ReadHeader, Calling
<1>2. Sought(0) /\ stream.method = "zlib" /\ (kind = "compressed" => Restartable)
  BY <1>1 DEF DsInv, Headers, Beginning, OpeningFails
<1>3. ReadFrom(0, HeaderSize)'
  BY <1>1, <1>2, ReadStarts, StepsAssumption DEF Sought, DsInv, ReadFrom
<1>4. Opt' = Opt /\ FirstField' = FirstField
  BY <1>1 DEF Opt, FirstField
<1>5. Restartable' <=> Restartable
  BY <1>1, <1>4 DEF Restartable, WellFormed
<1> QED
  BY <1>1, <1>2, <1>3, <1>5 DEF Headers, Beginning

(* What is known of the optional fields that have been passed. *)
FieldsAre ==
  /\ HeaderSize <= fsize
  /\ \E n \in 0..Len(Opt) :
       /\ hlen = FirstField + n /\ fields = Remaining(n)
       /\ \A k \in 1..n : WellFormed(k)

LEMMA HeaderNumbers == FirstField \in Nat \ {0} /\ Len(Opt) \in Nat
BY StepsAssumption, OptIs DEF FirstField

LEMMA ParsedHeaders ==
  ASSUME DsInv, SeekFaults = FALSE, [DsNext]_vars, HeaderParsed
  PROVE  Headers'
<1>1. /\ stream' = stream /\ fsize' = fsize /\ kind' = kind /\ pc = "headerRead" /\ pc' = "field"
      /\ ~Serving /\ breply.value = HeaderSize
      /\ hlen' = FirstField /\ fields' = Opt
  BY SourceKeeps, StreamKept DEF HeaderParsed, FirstField, Opt
<1>2. stream.method = "zlib" /\ (kind = "compressed" => Restartable)
      /\ ReadFrom(0, HeaderSize)
  BY <1>1, StepsAssumption DEF DsInv, Headers, Beginning, OpeningFails
<1>3. HeaderSize <= fsize
  <2>1. HeaderSize = Lesser(HeaderSize, fsize - 0) /\ fsize \in Nat /\ HeaderSize \in Nat
    BY <1>1, <1>2, StepsAssumption DEF ReadFrom, DsInv, Inv, Placed
  <2> QED
    BY <2>1 DEF Lesser
<1>4. Opt' = Opt /\ FirstField' = FirstField
  BY <1>1 DEF Opt, FirstField
<1>5. Restartable' <=> Restartable
  BY <1>1, <1>4 DEF Restartable, WellFormed
<1>6. FieldsAre'
  <2>1. 0 \in 0..Len(Opt) /\ FirstField = FirstField + 0 /\ Opt = Remaining(0)
        /\ \A k \in 1..0 : WellFormed(k)'
    BY HeaderNumbers, OptIs
  <2>2. Remaining(0)' = Remaining(0)
    BY <1>4 DEF Remaining
  <2> QED
    BY <1>1, <1>3, <1>4, <2>1, <2>2 DEF FieldsAre
<1> QED
  BY <1>1, <1>2, <1>5, <1>6 DEF Headers, Beginning, FieldsAre

LEMMA FieldsKept ==
  ASSUME FieldsAre, UNCHANGED <<stream, fsize, hlen, fields>>
  PROVE  FieldsAre'
<1>1. Opt' = Opt /\ FirstField' = FirstField
  BY DEF Opt, FirstField
<1>2. \A n : Remaining(n)' = Remaining(n)
  BY <1>1 DEF Remaining
<1>3. \A k : WellFormed(k)' <=> WellFormed(k)
  BY <1>1 DEF WellFormed
<1> QED
  BY <1>1, <1>2, <1>3 DEF FieldsAre

(* The next field of a source in use is one that was there before. *)
LEMMA NextField ==
  ASSUME DsInv, pc \in {"field", "fieldFound", "fieldRead"}, fields # <<>>,
         kind = "compressed"
  PROVE  hlen < fsize /\ Head(fields) \in stream.terminated /\ hlen \in Nat
<1>1. stream.method = "zlib" /\ Restartable /\ FieldsAre /\ fsize \in Nat
  BY DEF DsInv, Headers, Beginning, FieldsAre, Inv, Placed
<1>2. PICK n \in 0..Len(Opt) : hlen = FirstField + n /\ fields = Remaining(n)
  BY <1>1 DEF FieldsAre
<1>3. n < Len(Opt) /\ Head(fields) = Opt[n + 1]
  <2>1. n # Len(Opt)
    BY <1>2, OptIs
  <2>2. n < Len(Opt)
    BY <2>1, HeaderNumbers
  <2> QED
    BY <1>2, <2>2, OptIs
<1>4. n + 1 \in 1..Len(Opt)
  BY <1>3, HeaderNumbers
<1>5. WellFormed(n + 1)
  BY <1>1, <1>4 DEF Restartable
<1> QED
  BY <1>1, <1>2, <1>3, <1>5, HeaderNumbers DEF WellFormed

LEMMA SeekFieldHeaders ==
  ASSUME DsInv, SeekFaults = FALSE, RestartFaults = FALSE, [DsNext]_vars, SeekField
  PROVE  Headers'
<1>1. /\ stream' = stream /\ fsize' = fsize /\ kind' = kind /\ pc = "field" /\ pc' = "fieldFound"
      /\ UNCHANGED <<hlen, fields>> /\ fields # <<>> /\ BSeek(hlen, "set") /\ Tolerated
  BY SourceKeeps, StreamKept DEF SeekField, Calling, header
<1>2. stream.method = "zlib" /\ (kind = "compressed" => Restartable) /\ FieldsAre
  BY <1>1 DEF DsInv, Headers, Beginning, FieldsAre
<1>3. hlen \in Nat /\ fsize \in Nat
  BY <1>2, HeaderNumbers DEF FieldsAre, DsInv, Inv, Placed
<1>4. kind = "compressed" => hlen <= fsize
  BY <1>1, <1>3, NextField
<1>5. Sought(hlen)' \/ OpeningFails'
  <2> DEFINE off == hlen
  <2>1. off \in Nat /\ BSeek(off, "set") /\ (kind = "compressed" => off <= fsize)
        /\ pc \in {"init", "field"}
    BY <1>1, <1>3, <1>4
  <2>2. PICK o \in Nat : o = off
    BY <2>1
  <2>3. Sought(o)' \/ OpeningFails'
    BY <1>1, <2>1, <2>2, SeekStart, Zenon
  <2>4. hlen' = o
    BY <1>1, <2>2
  <2> QED
    BY <2>3, <2>4 DEF Sought
<1>6. FieldsAre'
  BY <1>1, <1>2, FieldsKept
<1>7. Opt' = Opt /\ FirstField' = FirstField
  BY <1>1 DEF Opt, FirstField
<1>8. Restartable' <=> Restartable
  BY <1>1, <1>7 DEF Restartable, WellFormed
<1> QED
  BY <1>1, <1>2, <1>5, <1>6, <1>8 DEF Headers, Beginning, FieldsAre

LEMMA ReadFieldHeaders ==
  ASSUME DsInv, SeekFaults = FALSE, [DsNext]_vars, ReadField
  PROVE  Headers'
<1>1. /\ stream' = stream /\ fsize' = fsize /\ kind' = kind /\ pc = "fieldFound"
      /\ pc' = "fieldRead"
      /\ UNCHANGED <<hlen, fields>> /\ breply.value = hlen /\ BRead(FieldSize)
  BY SourceKeeps, StreamKept DEF ReadField, Calling, header
<1>2. stream.method = "zlib" /\ (kind = "compressed" => Restartable) /\ FieldsAre
      /\ fields # <<>> /\ (Sought(hlen) \/ OpeningFails)
  BY <1>1 DEF DsInv, Headers, Beginning, FieldsAre
<1>3. hlen \in Nat
  BY <1>2, HeaderNumbers DEF FieldsAre
<1>4. Position = hlen
  BY <1>1, <1>2, <1>3 DEF Sought, OpeningFails
<1>5. ReadFrom(hlen, FieldSize)'
  <2>1. PICK o \in Nat : o = hlen
    BY <1>3
  <2>2. ReadFrom(o, FieldSize)'
    BY <1>1, <1>4, <2>1, ReadStarts, StepsAssumption DEF ReadFrom, DsInv
  <2>3. hlen' = o
    BY <1>1, <2>1
  <2> QED
    BY <2>2, <2>3 DEF ReadFrom
<1>6. FieldsAre'
  BY <1>1, <1>2, FieldsKept
<1>7. Opt' = Opt /\ FirstField' = FirstField
  BY <1>1 DEF Opt, FirstField
<1>8. Restartable' <=> Restartable
  BY <1>1, <1>7 DEF Restartable, WellFormed
<1> QED
  BY <1>1, <1>2, <1>5, <1>6, <1>8 DEF Headers, Beginning, FieldsAre

LEMMA ReportFieldHeaders ==
  ASSUME DsInv, SeekFaults = FALSE, [DsNext]_vars, ReportField
  PROVE  Headers'
<1>1. /\ stream' = stream /\ fsize' = fsize /\ pc = "fieldRead" /\ ~Serving /\ FieldComplete
      /\ hlen' = hlen + 1 /\ fields' = Tail(fields)
      /\ \/ pc' = "field" /\ kind' = kind
         \/ pc' = "idle" /\ kind' = "closed"
  BY SourceKeeps, StreamKept DEF ReportField
<1>2. /\ stream.method = "zlib" /\ (kind = "compressed" => Restartable) /\ FieldsAre
      /\ fields # <<>> /\ (ReadFrom(hlen, FieldSize) \/ OpeningFails)
  BY <1>1 DEF DsInv, Headers, Beginning, FieldsAre
<1>3. PICK n \in 0..Len(Opt) : /\ hlen = FirstField + n /\ fields = Remaining(n)
                               /\ \A k \in 1..n : WellFormed(k)
  BY <1>2 DEF FieldsAre
<1>4. /\ n < Len(Opt) /\ Head(fields) = Opt[n + 1] /\ Tail(fields) = Remaining(n + 1)
      /\ n + 1 \in 0..Len(Opt)
  <2>1. n # Len(Opt)
    BY <1>2, <1>3, OptIs
  <2>2. n < Len(Opt)
    BY <2>1, HeaderNumbers
  <2> QED
    BY <1>3, <2>2, OptIs
<1>5. hlen < fsize
  <2>1. breply.value > 0 /\ hlen \in Nat /\ fsize \in Nat /\ FieldSize \in Nat
    BY <1>1, <1>3, HeaderNumbers, StepsAssumption DEF FieldComplete, DsInv, Inv, Placed
  <2>2. breply.value = Lesser(FieldSize, fsize - hlen)
    BY <1>1, <1>2, <2>1 DEF ReadFrom, OpeningFails
  <2> QED
    BY <2>1, <2>2 DEF Lesser
<1>6. WellFormed(n + 1)
  BY <1>1, <1>3, <1>4, <1>5, HeaderNumbers DEF FieldComplete, WellFormed
<1>7. \A k \in 1..n + 1 : WellFormed(k)
  <2>1. \A k \in 1..n + 1 : k \in 1..n \/ k = n + 1
    OBVIOUS
  <2> QED
    BY <1>3, <1>6, <2>1
<1>8. Opt' = Opt /\ FirstField' = FirstField
  BY <1>1 DEF Opt, FirstField
<1>9. Restartable' <=> Restartable
  BY <1>1, <1>8 DEF Restartable, WellFormed
<1>10. CASE pc' = "field" /\ kind' = kind
  <2>1. FieldsAre'
    <3>1. Remaining(n + 1)' = Remaining(n + 1) /\ \A k : WellFormed(k)' <=> WellFormed(k)
      BY <1>1, <1>8 DEF Remaining, WellFormed
    <3>2. hlen' = FirstField + (n + 1)
      BY <1>1, <1>3, HeaderNumbers
    <3>3. HeaderSize <= fsize'
      BY <1>1, <1>2 DEF FieldsAre
    <3> QED
      BY <1>1, <1>4, <1>7, <1>8, <3>1, <3>2, <3>3 DEF FieldsAre
  <2> QED
    BY <1>1, <1>2, <1>9, <1>10, <2>1 DEF Headers, Beginning, FieldsAre
<1>11. CASE pc' = "idle" /\ kind' = "closed"
  BY <1>11, HeadersFrame DEF Beginning
<1> QED
  BY <1>1, <1>10, <1>11

LEMMA RewindHeaders ==
  ASSUME DsInv, SeekFaults = FALSE, RestartFaults = FALSE, [DsNext]_vars, Rewind
  PROVE  Headers'
<1>1. /\ stream' = stream /\ fsize' = fsize /\ kind' = kind /\ pc = "field" /\ pc' = "rewound"
      /\ fields = <<>> /\ BSeek(0, "set") /\ Tolerated
  BY SourceKeeps, StreamKept DEF Rewind
<1>2. stream.method = "zlib" /\ FieldsAre
  BY <1>1 DEF DsInv, Headers, Beginning, FieldsAre
<1>3. Sought(0)' \/ OpeningFails'
  <2>1. 0 \in Nat /\ (kind = "compressed" => 0 <= fsize) /\ pc \in {"init", "field"}
    BY <1>1 DEF DsInv, Inv, Placed
  <2> QED
    BY <1>1, <2>1, SeekStart, Zenon
<1>4. Restartable
  <2>1. PICK n \in 0..Len(Opt) : fields = Remaining(n) /\ \A k \in 1..n : WellFormed(k)
    BY <1>2 DEF FieldsAre
  <2>2. n = Len(Opt)
    BY <1>1, <2>1, OptIs
  <2> QED
    BY <1>2, <2>1, <2>2 DEF Restartable, FieldsAre
<1>5. Opt' = Opt /\ FirstField' = FirstField
  BY <1>1 DEF Opt, FirstField
<1>6. Restartable'
  BY <1>1, <1>4, <1>5 DEF Restartable, WellFormed
<1> QED
  BY <1>1, <1>2, <1>3, <1>6 DEF Headers, Beginning

Reading == BStep /\ Tolerated /\ UNCHANGED <<stream, kind, pc, client, cpos, resultPos, known,
                                             chunk, strm, task, reading, measuring, header>>

LEMMA ReadingHeaders ==
  ASSUME DsInv, SeekFaults = FALSE, RestartFaults = FALSE, [DsNext]_vars, Reading
  PROVE  Headers'
<1>1. /\ UNCHANGED <<stream, fsize, kind, pc, hlen, fields>> /\ Inv /\ Inv'
      /\ BStep /\ Tolerated
  BY SourceKeeps, StreamKept DEF Reading, header, DsInv
<1>2. Serving
  BY <1>1 DEF BStep, CopyBuffered, RefillAndCopy, RefillFails
<1>3. ~(\E p \in Nat : Sought(p)) /\ ~OpeningFails
  BY <1>2 DEF Sought, OpeningFails
<1>4. pc \notin {"header", "fieldFound", "rewound"}
  <2>1. pc = "fieldFound" => hlen \in Nat
    BY HeaderNumbers DEF DsInv, Headers
  <2> QED
    BY <1>2, <1>3, <2>1 DEF DsInv, Headers
<1>5. ASSUME NEW p \in Nat, NEW count \in Nat, ReadFrom(p, count),
             pc \in {"headerRead", "fieldRead"}
      PROVE  ReadFrom(p, count)' \/ OpeningFails'
  <2>1. \/ ReadFrom(p, count)'
        \/ ~Serving' /\ breply' = Failure(bcall) /\ faults' # faults
    BY <1>1, <1>5, ReadGoesOn
  <2>2. faults' # faults => kind = "opening"
    BY <1>1, <1>5 DEF Tolerated, DsInv, Phases, Using
  <2> QED
    BY <1>1, <2>1, <2>2 DEF OpeningFails, Failure, Answer
<1>6. pc = "headerRead" => ReadFrom(0, HeaderSize)' \/ OpeningFails'
  <2>1. pc = "headerRead" => ReadFrom(0, HeaderSize)
    BY <1>3 DEF DsInv, Headers
  <2> QED
    BY <1>5, <2>1, StepsAssumption
<1>7. pc = "fieldRead" => ReadFrom(hlen, FieldSize)' \/ OpeningFails'
  <2>1. pc = "fieldRead" => ReadFrom(hlen, FieldSize) /\ hlen \in Nat
    BY <1>3, HeaderNumbers DEF DsInv, Headers
  <2>2. ASSUME pc = "fieldRead" PROVE ReadFrom(hlen, FieldSize)' \/ OpeningFails'
    <3>1. PICK o \in Nat : o = hlen
      BY <2>1, <2>2
    <3>2. ReadFrom(o, FieldSize)
      BY <2>1, <2>2, <3>1
    <3>3. ReadFrom(o, FieldSize)' \/ OpeningFails'
      BY <1>5, <2>2, <3>2, StepsAssumption
    <3>4. hlen' = o
      BY <1>1, <3>1
    <3> QED
      BY <3>3, <3>4 DEF ReadFrom
  <2> QED
    BY <2>2
<1>8. FieldsAre => FieldsAre'
  BY <1>1, FieldsKept
<1>9. Opt' = Opt /\ FirstField' = FirstField
  BY <1>1 DEF Opt, FirstField
<1>10. Restartable' <=> Restartable
  BY <1>1, <1>9 DEF Restartable, WellFormed
<1> QED
  BY <1>1, <1>4, <1>6, <1>7, <1>8, <1>10 DEF DsInv, Headers, Beginning, FieldsAre

(* A stream that could be started can be started again. *)
LEMMA NoRestartFails ==
  ASSUME DsInv, InitFails PROVE kind = "opening"
<1> SUFFICES ASSUME kind = "compressed" PROVE FALSE
  BY DEF InitFails, DsInv, Phases, Beginning
<1>1. ~OpeningFails /\ ~Serving /\ fsize \in Nat
  BY DEF OpeningFails, InitFails, DsInv, Inv, Placed
<1>2. CASE pc \in {"header", "rewound"} /\ breply.value # 0
  BY <1>1, <1>2 DEF DsInv, Headers, Sought
<1>3. CASE pc = "headerRead" /\ breply.value # HeaderSize
  <2>1. breply.value = Lesser(HeaderSize, fsize - 0) /\ HeaderSize <= fsize /\ HeaderSize \in Nat
    BY <1>1, <1>3, StepsAssumption DEF DsInv, Headers, Beginning, ReadFrom, Restartable
  <2> QED
    BY <1>1, <1>3, <2>1 DEF Lesser
<1>4. CASE pc = "fieldFound" /\ breply.value # hlen
  BY <1>1, <1>4 DEF DsInv, Headers, Sought
<1>5. CASE pc = "fieldRead" /\ ~FieldComplete
  <2>1. fields # <<>> /\ breply.value = Lesser(FieldSize, fsize - hlen)
    BY <1>1, <1>5 DEF DsInv, Headers, ReadFrom
  <2>2. hlen < fsize /\ Head(fields) \in stream.terminated /\ hlen \in Nat
    BY <1>5, <2>1, NextField
  <2>3. breply.value > 0
    BY <1>1, <2>1, <2>2, StepsAssumption DEF Lesser
  <2> QED
    BY <1>5, <2>2, <2>3 DEF FieldComplete
<1> QED
  BY <1>2, <1>3, <1>4, <1>5 DEF InitFails

LEMMA HeadersKept ==
  ASSUME DsInv, SeekFaults = FALSE, RestartFaults = FALSE, [DsNext]_vars
  PROVE  Headers'
<1>1. CASE Probe \/ ProbeRead
  BY <1>1, HeadersFrame DEF Probe, ProbeRead, Calling, Beginning, DsInv, Phases, Using
<1>2. CASE Probed
  <2>1. kind = "opening" /\ kind' # "compressed"
    BY <1>2 DEF Probed, Beginning, DsInv, Phases, Using
  <2>2. pc' \notin Beginning /\ (pc' = "init" => stream.method # "none")
    BY <1>2 DEF Probed, Beginning
  <2> QED
    BY <2>1, <2>2, HeadersFrame
<1>3. CASE DecompressorReady
  BY <1>3, HeadersFrame DEF DecompressorReady, Beginning
<1>4. CASE InitFails
  <2>1. pc' = "idle" /\ kind' = "closed"
    BY <1>4, NoRestartFails DEF InitFails
  <2> QED
    BY <2>1, HeadersFrame DEF Beginning
<1>5. CASE Fetch \/ FetchFails \/ FetchedNothing \/ GiveBack \/ GiveBackFails
  BY <1>5, HeadersFrame DEF Fetch, FetchFails, FetchedNothing, GiveBack, GiveBackFails, Calling,
                            Beginning
<1>6. CASE Inflate
  BY <1>6, HeadersFrame DEF Inflate, Decompress, Beginning
<1>7. CASE CopyResult \/ Skipped \/ PlainReturn \/ ReadReturn \/ SeekReturn \/ Destroy
  <2>1. pc' \notin Beginning \cup {"init"} /\ (kind' = "compressed" => kind = "compressed")
    BY <1>7 DEF CopyResult, Skipped, PlainReturn, ReadReturn, SeekReturn, Destroy, Beginning
  <2> QED
    BY <2>1, HeadersFrame
<1>8. CASE Skip \/ Measure
  BY <1>8, HeadersFrame, BeginReadPhase DEF Skip, Measure, Beginning
<1>9. CASE Restore \/ Measured
  <2>1. kind = "compressed"
    BY <1>9 DEF Restore, Measured, DsInv, Phases, Beginning
  <2>2. pc' \notin Beginning
    BY <1>9, MovePhase DEF Restore, Measured, Beginning
  <2> QED
    BY <2>1, <2>2, HeadersFrame
<1>10. ASSUME NEW c \in Calls, PlainCall(c) \/ Read(c) \/ Seek(c) \/ GetSize(c)
       PROVE  Headers'
  <2>1. pc' \notin Beginning /\ kind' = kind /\ (pc' = "init" => kind = "compressed")
    BY <1>10, BeginReadPhase, MovePhase DEF PlainCall, Read, Seek, GetSize, Beginning
  <2> QED
    BY <2>1, HeadersFrame
<1>11. CASE UNCHANGED vars
  <2>1. FieldsAre => FieldsAre'
    BY <1>11, FieldsKept DEF vars, bvars, header
  <2>2. UNCHANGED <<pc, kind, stream, fsize, hlen, fields,
                    want, got, bcall, breply, fpos, bufferPos>>
    BY <1>11 DEF vars, bvars, header
  <2>3. Opt' = Opt /\ FirstField' = FirstField
    BY <2>2 DEF Opt, FirstField
  <2>4. Restartable' <=> Restartable
    BY <2>2, <2>3 DEF Restartable, WellFormed
  <2> QED
    BY <2>1, <2>2, <2>4 DEF DsInv, Headers, FieldsAre, Sought, ReadFrom, OpeningFails, Serving,
                            Position
<1> QED
  BY <1>1, <1>2, <1>3, <1>4, <1>5, <1>6, <1>7, <1>8, <1>9, <1>10, <1>11,
     InitHeaders, ReadHeaders, ParsedHeaders, SeekFieldHeaders, ReadFieldHeaders,
     ReportFieldHeaders, RewindHeaders, ReadingHeaders
  DEF DsNext, Work, Reading

-----------------------------------------------------------------------------
(* What waits in cfs->result *)

LEMMA OpeningResults ==
  ASSUME DsInv,
         \/ Probe \/ ProbeRead \/ Probed \/ InitDecompressor \/ ReadHeader \/ HeaderParsed
         \/ SeekField \/ ReadField \/ ReportField \/ Rewind \/ DecompressorReady \/ InitFails
  PROVE  Results'
<1>1. Results /\ Phases
  BY DEF DsInv
<1>2. CASE Probe \/ ProbeRead \/ Probed
  <2>1. /\ kind = "opening" /\ kind' \in {"opening", "plain"}
        /\ pc' \notin Beginning \cup {"fetch", "fetched", "back", "copy"}
        /\ UNCHANGED <<cpos, resultPos, known, chunk>>
    BY <1>1, <1>2 DEF Probe, ProbeRead, Probed, Calling, Phases, Beginning, Using
  <2> QED
    BY <1>1, <2>1 DEF Results
<1>3. CASE InitDecompressor
  <2>1. /\ kind' = kind /\ pc' \in Beginning /\ cpos' = 0 /\ resultPos' = 0
        /\ kind \in {"opening", "compressed"} /\ UNCHANGED <<known, chunk>>
    BY <1>1, <1>3 DEF InitDecompressor, Calling, Phases, Beginning, Using
  <2> QED
    BY <1>1, <2>1 DEF Results, Beginning, Using
<1>4. CASE ReadHeader \/ HeaderParsed \/ SeekField \/ ReadField \/ Rewind
  <2>1. /\ kind' = kind /\ pc \in Beginning /\ pc' \in Beginning
        /\ kind \in {"opening", "compressed"} /\ UNCHANGED <<cpos, resultPos, known, chunk>>
    BY <1>1, <1>4 DEF ReadHeader, HeaderParsed, SeekField, ReadField, Rewind, Calling, Phases,
                      Beginning, Using
  <2> QED
    BY <1>1, <2>1 DEF Results, Beginning, Using
<1>5. CASE ReportField
  <2>1. /\ pc \in Beginning /\ UNCHANGED <<cpos, resultPos, known, chunk>>
        /\ \/ kind' = kind /\ pc' \in Beginning /\ kind \in {"opening", "compressed"}
           \/ kind = "opening" /\ kind' = "closed" /\ pc' = "idle"
    BY <1>1, <1>5 DEF ReportField, Phases, Beginning, Using
  <2> QED
    BY <1>1, <2>1 DEF Results, Beginning, Using
<1>6. CASE DecompressorReady
  <2>1. /\ pc \in Beginning /\ UNCHANGED <<cpos, resultPos, known, chunk>>
        /\ strm'.made = 0 /\ strm'.availOut = Chunk
        /\ kind' = "compressed" /\ pc' \in {"idle", "skip"}
    BY <1>1, <1>6 DEF DecompressorReady, Phases, Beginning, Using
  <2>2. Made' = 0 /\ cpos' = 0 /\ resultPos' = 0
    BY <1>1, <2>1, StepsAssumption DEF Made, Results
  <2>3. Waiting'
    BY <2>1, <2>2, StepsAssumption DEF Waiting
  <2> QED
    BY <2>1, <2>3 DEF Results, Beginning, Using
<1>7. CASE InitFails
  <2>1. /\ kind = "opening" /\ kind' = "closed" /\ pc' = "idle"
        /\ UNCHANGED <<cpos, resultPos, known, chunk>>
    BY <1>7, NoRestartFails DEF InitFails
  <2> QED
    BY <1>1, <2>1 DEF Results, Beginning, Using
<1> QED
  BY <1>2, <1>3, <1>4, <1>5, <1>6, <1>7

(* Steps that leave the results alone. *)
LEMMA ResultsFrame ==
  ASSUME Results, UNCHANGED <<kind, cpos, resultPos, chunk, strm>>,
         kind = "compressed", pc \in Using, pc' \in Using,
         pc' \in {"fetch", "fetched"} => resultPos = Made,
         pc' \in {"back", "copy"} => resultPos = 0 /\ chunk = cpos
  PROVE  Results'
<1>1. Made' = Made /\ Waiting'
  BY DEF Made, Waiting, Results
<1> QED
  BY <1>1 DEF Results, Beginning, Using

(* Steps of cfs_read and cfs_seek that leave them in order. *)
LEMMA ResultsMade ==
  ASSUME kind' = "compressed", pc' \in Using, Waiting',
         pc' \in {"fetch", "fetched"} => resultPos' = Made',
         pc' \in {"back", "copy"} => resultPos' = 0 /\ chunk' = cpos'
  PROVE  Results'
BY DEF Results, Beginning, Using

LEMMA BegunResults ==
  ASSUME DsInv, kind = "compressed", kind' = kind, pc \in Using,
         UNCHANGED <<chunk, strm>>, NEW count \in Nat, BeginRead(count)
  PROVE  Results'
<1>1. Waiting /\ cpos \in Nat /\ chunk \in Nat /\ strm.made \in Int
  BY DEF DsInv, Results, Typed, Decompressor
<1>2. PICK n \in 0..count : Begun(n, count)
  BY <1>1, BeginReadIs
<1>3. Made' = Made /\ strm'.made = strm.made
  BY DEF Made
<1>4. /\ cpos' = cpos + n /\ resultPos' = resultPos + n /\ n <= Made - resultPos
      /\ pc' \in {"returned", "fetch"} /\ (pc' = "fetch" => n = Made - resultPos)
  BY <1>2 DEF Begun
<1>5. Waiting'
  BY <1>1, <1>3, <1>4, StepsAssumption DEF Waiting
<1>6. pc' = "fetch" => resultPos' = Made'
  BY <1>1, <1>3, <1>4 DEF Waiting
<1> QED
  BY <1>4, <1>5, <1>6, ResultsMade DEF Using

LEMMA MovedResults ==
  ASSUME DsInv, kind = "compressed", kind' = kind, pc \in Using,
         UNCHANGED <<known, chunk>>, NEW target \in Nat, Moved(target)
  PROVE  Results'
<1>1. Results /\ Waiting /\ cpos \in Nat /\ chunk \in Nat /\ strm.made \in Int
  BY DEF DsInv, Results, Typed, Decompressor
<1>2. CASE target >= cpos /\ pc' = "skip" /\ UNCHANGED <<cpos, resultPos, strm>>
  BY <1>1, <1>2, ResultsFrame DEF Using
<1>3. CASE /\ target < cpos /\ resultPos >= cpos - target /\ pc' = "moved"
           /\ cpos' = target /\ resultPos' = resultPos - (cpos - target)
           /\ UNCHANGED strm
  <2>1. Made' = Made /\ strm'.made = strm.made
    BY <1>3 DEF Made
  <2>2. Waiting'
    BY <1>1, <1>3, <2>1, StepsAssumption DEF Waiting
  <2> QED
    BY <1>3, <2>2, ResultsMade DEF Using
<1>4. CASE pc' = "init"
  BY <1>1, <1>4 DEF Results, Beginning, Using
<1> QED
  BY <1>2, <1>3, <1>4 DEF Moved

LEMMA ReadingResults ==
  ASSUME DsInv,
         \/ Fetch \/ FetchFails \/ FetchedNothing \/ Inflate \/ GiveBack \/ GiveBackFails
         \/ CopyResult \/ Skip \/ Skipped
  PROVE  Results'
<1>1. Results /\ Phases /\ Typed /\ kind = "compressed"
  BY DEF DsInv, Phases, Beginning, Using, Fetch, FetchFails, FetchedNothing, Inflate, GiveBack,
         GiveBackFails, CopyResult, Skip, Skipped, Calling
<1>2. CASE Fetch \/ FetchFails \/ FetchedNothing \/ GiveBack \/ GiveBackFails \/ Skipped
  <2>1. /\ UNCHANGED <<kind, cpos, resultPos, chunk, strm>>
        /\ pc \in Using /\ pc' \in Using
        /\ pc' \in {"fetch", "fetched"} => pc \in {"fetch", "fetched"}
        /\ pc' \in {"back", "copy"} => pc \in {"back", "copy"}
    BY <1>2 DEF Fetch, FetchFails, FetchedNothing, GiveBack, GiveBackFails, Skipped, Calling, Using
  <2> QED
    BY <1>1, <2>1, ResultsFrame DEF Results
<1>3. CASE Inflate
  <2>1. /\ breply.data \in Seq(Int) /\ Decompress(breply.data) /\ pc = "fetched"
        /\ UNCHANGED <<kind, cpos>>
    BY <1>1, <1>3 DEF Typed, FileTyped, Inflate
  <2>2. Decompressed(breply.data)
    BY <2>1, DecompressIs
  <2>3. resultPos = Made /\ Waiting /\ cpos \in Nat /\ Made \in Nat
    BY <1>1, <2>1 DEF Results, Using, Waiting, Typed
  <2>4. strm.made = cpos
    BY <2>3 DEF Waiting
  <2>5. /\ chunk' = cpos' /\ resultPos' = 0 /\ pc' \in {"back", "failed"}
        /\ Made' \in 0..Chunk /\ strm'.made = cpos' + Made'
    BY <2>1, <2>2, <2>3, <2>4, StepsAssumption DEF Decompressed, Made, Decompressor
  <2>6. Waiting'
    BY <2>1, <2>3, <2>5, StepsAssumption DEF Waiting
  <2> QED
    BY <1>1, <2>1, <2>5, <2>6, ResultsMade DEF Using
<1>4. CASE CopyResult
  <2>1. /\ Waiting /\ resultPos = 0 /\ chunk = cpos /\ cpos \in Nat /\ strm.made \in Int
        /\ rest \in Nat
    BY <1>1, <1>4 DEF Results, Using, CopyResult, Typed, Decompressor
  <2>2. PICK n \in 0..rest : Went(n)
    BY <1>1, <1>4, <2>1, CopyResultIs
  <2>3. /\ cpos' = cpos + n /\ resultPos' = n /\ n <= Made /\ n \in Nat
        /\ pc' \in {"returned", "fetch"} /\ (pc' = "fetch" => n = Made)
    BY <2>1, <2>2 DEF Went
  <2>4. Made' = Made /\ UNCHANGED <<kind, chunk, strm>>
    BY <1>4 DEF CopyResult, Made
  <2>5. Waiting'
    BY <2>1, <2>3, <2>4, StepsAssumption DEF Waiting
  <2> QED
    BY <1>1, <2>3, <2>4, <2>5, ResultsMade DEF Using
<1>5. CASE Skip
  <2>1. UNCHANGED <<kind, chunk, strm>> /\ pc \in Using
    BY <1>5 DEF Skip, Using
  <2>2. CASE delta > 0
    <3>1. Lesser(delta, Chunk) \in Nat
      BY <1>1, <2>2, StepsAssumption DEF Lesser, Typed
    <3>2. BeginRead(Lesser(delta, Chunk))
      BY <1>5, <2>2 DEF Skip
    <3> QED
      BY <1>1, <2>1, <3>1, <3>2, BegunResults
  <2>3. CASE ~(delta > 0)
    BY <1>1, <1>5, <2>1, <2>3, ResultsFrame DEF Skip, Using
  <2> QED
    BY <2>2, <2>3
<1> QED
  BY <1>2, <1>3, <1>4, <1>5

LEMMA ClientResults ==
  ASSUME DsInv, NEW c \in Calls, PlainCall(c) \/ Read(c) \/ Seek(c) \/ GetSize(c)
  PROVE  Results'
<1>1. Results /\ Phases /\ Typed
  BY DEF DsInv
<1>2. CASE PlainCall(c)
  <2>1. kind = "plain" /\ kind' = kind /\ pc' = "served"
        /\ UNCHANGED <<cpos, resultPos, known, chunk>>
    BY <1>2 DEF PlainCall
  <2> QED
    BY <1>1, <2>1 DEF Results, Beginning
<1>3. CASE Read(c)
  <2>1. /\ kind = "compressed" /\ kind' = kind /\ pc \in Using /\ UNCHANGED <<chunk, strm>>
        /\ c.count \in Nat /\ BeginRead(c.count)
    BY <1>3, CallsAssumption DEF Read, Using
  <2> QED
    BY <2>1, BegunResults
<1>4. CASE Seek(c)
  <2> DEFINE target == Target(c, cpos, known)
  <2>1. /\ kind = "compressed" /\ kind' = kind /\ pc \in Using /\ UNCHANGED <<known, chunk>>
        /\ target \in Int
        /\ \/ MayMoveTo(target) /\ Move(target)
           \/ pc' \in {"measure", "idle"} /\ UNCHANGED <<cpos, resultPos, strm>>
    BY <1>1, <1>4, TargetIs DEF Seek, Using
  <2> HIDE DEF target
  <2>2. CASE MayMoveTo(target) /\ Move(target)
    <3>1. target \in Nat /\ Moved(target)
      BY <1>1, <2>1, <2>2, MoveIs DEF MayMoveTo
    <3> QED
      BY <2>1, <3>1, MovedResults
  <2>3. CASE pc' \in {"measure", "idle"} /\ UNCHANGED <<cpos, resultPos, strm>>
    BY <1>1, <2>1, <2>3, ResultsFrame DEF Using
  <2> QED
    BY <2>1, <2>2, <2>3
<1>5. CASE GetSize(c)
  <2>1. /\ kind \in {"plain", "compressed"} /\ pc = "idle" /\ pc' \in {"idle", "measure"}
        /\ UNCHANGED <<kind, cpos, resultPos, known, chunk, strm>>
    BY <1>5 DEF GetSize
  <2>2. kind = "plain" => Results'
    BY <1>1, <2>1 DEF Results, Beginning
  <2>3. kind = "compressed" => Results'
    BY <1>1, <2>1, ResultsFrame DEF Using
  <2> QED
    BY <2>1, <2>2, <2>3
<1> QED
  BY <1>2, <1>3, <1>4, <1>5

LEMMA ReturnResults ==
  ASSUME DsInv,
         PlainReturn \/ ReadReturn \/ SeekReturn \/ Measure \/ Restore \/ Measured \/ Destroy
  PROVE  Results'
<1>1. Results /\ Phases /\ Typed
  BY DEF DsInv
<1>2. CASE PlainReturn
  <2>1. kind = "plain" /\ kind' = kind /\ pc' = "idle"
        /\ UNCHANGED <<cpos, resultPos, known, chunk>>
    BY <1>1, <1>2 DEF PlainReturn, Phases, Beginning, Using
  <2> QED
    BY <1>1, <2>1 DEF Results, Beginning
<1>3. CASE ReadReturn \/ SeekReturn
  <2>1. kind = "compressed" /\ pc \in Using /\ pc' = "idle"
        /\ UNCHANGED <<kind, cpos, resultPos, chunk, strm>>
    BY <1>1, <1>3 DEF ReadReturn, SeekReturn, Phases, Beginning, Using
  <2> QED
    BY <1>1, <2>1, ResultsFrame DEF Using
<1>4. CASE Measure
  <2>1. /\ kind = "compressed" /\ kind' = kind /\ pc \in Using /\ UNCHANGED <<chunk, strm>>
        /\ 2 * Chunk \in Nat /\ BeginRead(2 * Chunk)
    BY <1>1, <1>4, StepsAssumption DEF Measure, Phases, Beginning, Using
  <2> QED
    BY <2>1, BegunResults
<1>5. ASSUME kind = "compressed", kind' = kind, pc \in Using, UNCHANGED <<known, chunk>>,
             NEW target \in Int, MayMoveTo(target), Move(target)
      PROVE  Results'
  <2>1. target \in Nat /\ Moved(target)
    BY <1>1, <1>5, MoveIs DEF MayMoveTo
  <2> QED
    BY <1>5, <2>1, MovedResults
<1>6. CASE Restore
  <2>1. /\ kind = "compressed" /\ kind' = kind /\ pc \in Using /\ UNCHANGED <<known, chunk>>
        /\ from \in Int
        /\ \/ MayMoveTo(from) /\ Move(from)
           \/ pc' = "stuck" /\ UNCHANGED <<cpos, resultPos, strm>>
    BY <1>1, <1>6 DEF Restore, Phases, Beginning, Using, Typed
  <2>2. CASE pc' = "stuck" /\ UNCHANGED <<cpos, resultPos, strm>>
    BY <1>1, <2>1, <2>2, ResultsFrame DEF Using
  <2> QED
    BY <1>5, <2>1, <2>2
<1>7. CASE Measured
  <2> DEFINE target == Target(call, cpos, known)
  <2>1. /\ kind = "compressed" /\ kind' = kind /\ pc \in Using /\ UNCHANGED <<known, chunk>>
        /\ \/ call.op = "seek" /\ MayMoveTo(target) /\ Move(target)
           \/ pc' = "idle" /\ UNCHANGED <<cpos, resultPos, strm>>
    BY <1>1, <1>7 DEF Measured, Phases, Beginning, Using
  <2>2. call \in Calls
    BY <1>1, <1>7, <2>1 DEF Measured, Typed
  <2>3. call.op = "seek" => target \in Int
    BY <1>1, <2>2, TargetIs
  <2> HIDE DEF target
  <2>4. CASE pc' = "idle" /\ UNCHANGED <<cpos, resultPos, strm>>
    BY <1>1, <2>1, <2>4, ResultsFrame DEF Using
  <2> QED
    BY <1>5, <2>1, <2>3, <2>4
<1>8. CASE Destroy
  <2>1. /\ kind \in {"plain", "compressed"} /\ pc = "idle" /\ pc' = "idle" /\ kind' = "closed"
        /\ UNCHANGED <<cpos, resultPos, chunk, strm>>
    BY <1>8 DEF Destroy
  <2>2. Made' = Made
    BY <2>1 DEF Made
  <2>3. Made > resultPos => chunk + resultPos = cpos
    BY <1>1, <2>1, StepsAssumption DEF Results, Waiting, Using, Typed
  <2> QED
    BY <2>1, <2>2, <2>3 DEF Results, Beginning
<1> QED
  BY <1>2, <1>3, <1>4, <1>6, <1>7, <1>8

LEMMA ResultsKept ==
  ASSUME DsInv, SeekFaults = FALSE, [DsNext]_vars
  PROVE  Results'
<1>1. CASE Reading \/ UNCHANGED vars
  <2>1. Results /\ UNCHANGED <<kind, pc, cpos, resultPos, known, chunk, strm>>
    BY <1>1 DEF DsInv, Reading, vars
  <2>2. Made' = Made /\ (Waiting => Waiting')
    BY <2>1 DEF Made, Waiting
  <2> QED
    BY <2>1, <2>2 DEF Results
<1> QED
  BY <1>1, OpeningResults, ReadingResults, ClientResults, ReturnResults
  DEF DsNext, Work, Reading

-----------------------------------------------------------------------------
(* What has been decompressed is part of the file. *)

LEMMA DecodedKept ==
  ASSUME DsInv, SeekFaults = FALSE, [DsNext]_vars
  PROVE  Decoded'
<1>1. Results /\ Phases /\ Typed /\ Decoded
  BY DEF DsInv
<1>2. /\ stream' = stream /\ EndOf' = EndOf /\ PlainSize' = PlainSize
      /\ \A k : Plain(k)' = Plain(k)
  BY StreamKept DEF EndOf, PlainSize, Plain
<1>3. /\ EndOf \in Nat /\ PlainSize \in Nat /\ \A k \in 0..EndOf : Plain(k) \in Nat
      /\ cpos \in Nat /\ known \in Int /\ strm \in Decompressor
      /\ strm.fed \in Nat /\ strm.made \in Nat /\ strm.broken \in BOOLEAN
  BY <1>1, FileIs DEF Typed, FileTyped, Decompressor
<1>4. /\ strm.fed \in 0..EndOf /\ strm.made <= PlainSize
      /\ ~strm.broken => strm.made <= Plain(strm.fed)
      /\ known >= -1 /\ known <= PlainSize /\ cpos <= PlainSize
  BY <1>1 DEF Decoded
<1>5. ASSUME UNCHANGED <<cpos, known>>, strm'.fed = strm.fed, strm'.made = strm.made,
             strm'.broken = strm.broken
      PROVE  Decoded'
  BY <1>2, <1>4, <1>5 DEF Decoded
<1>6. CASE UNCHANGED <<cpos, known, strm>>
  BY <1>5, <1>6
<1>7. CASE InitDecompressor
  BY <1>2, <1>3, <1>4, <1>7 DEF InitDecompressor, Calling, Decoded
<1>8. CASE Rewind
  <2>1. strm' = [strm EXCEPT !.availIn = 0, !.availOut = 0] /\ UNCHANGED <<cpos, known>>
    BY <1>1, <1>8 DEF Rewind, BSeek
  <2> QED
    BY <1>3, <1>5, <2>1 DEF Decompressor
<1>9. CASE DecompressorReady
  <2>1. /\ strm'.fed = 0 /\ strm'.made = 0 /\ UNCHANGED <<cpos, known>>
        /\ 0 \in 0..EndOf /\ Plain(0) \in Nat
    BY <1>3, <1>9 DEF DecompressorReady
  <2> QED
    BY <1>2, <1>3, <1>4, <2>1 DEF Decoded
<1>10. CASE Inflate
  <2>1. breply.data \in Seq(Int) /\ Decompress(breply.data) /\ UNCHANGED <<cpos, known>>
    BY <1>1, <1>10 DEF Typed, FileTyped, Inflate
  <2>2. Decompressed(breply.data)
    BY <2>1, DecompressIs
  <2> QED
    BY <1>2, <1>4, <2>1, <2>2 DEF Decompressed, Decoded
<1>11. CASE FetchedNothing
  BY <1>2, <1>3, <1>4, <1>11 DEF FetchedNothing, Decoded
<1>12. CASE CopyResult
  <2>1. /\ Waiting /\ resultPos = 0 /\ rest \in Nat
    BY <1>1, <1>12 DEF Results, Phases, Beginning, Using, CopyResult, Typed
  <2>2. PICK n \in 0..rest : Went(n)
    BY <1>1, <1>12, <2>1, CopyResultIs
  <2>3. cpos' = cpos + n /\ n <= Made /\ n \in Nat /\ Made \in Nat /\ strm.made = cpos + Made
    BY <1>3, <2>1, <2>2, StepsAssumption DEF Went, Waiting
  <2>4. strm' = strm /\ (known' = cpos + Made \/ known' = known)
    BY <1>12 DEF CopyResult
  <2> QED
    BY <1>2, <1>3, <1>4, <2>3, <2>4 DEF Decoded
<1>13. ASSUME UNCHANGED <<known, strm>>, Waiting, NEW count \in Nat, BeginRead(count)
       PROVE  Decoded'
  <2>1. PICK n \in 0..count : Begun(n, count)
    BY <1>13, BeginReadIs
  <2>2. /\ cpos' = cpos + n /\ n \in Nat /\ n <= Made - resultPos
        /\ strm.made = cpos + (Made - resultPos) /\ Made - resultPos \in Nat
    BY <1>13, <2>1, StepsAssumption DEF Begun, Waiting
  <2> QED
    BY <1>2, <1>3, <1>4, <1>13, <2>2 DEF Decoded
<1>14. ASSUME known' = known, NEW target \in Int, MayMoveTo(target), Move(target)
       PROVE  Decoded'
  <2>1. target \in Nat /\ Moved(target)
    BY <1>1, <1>14, MoveIs DEF MayMoveTo
  <2>2. cpos' = cpos \/ (cpos' = target /\ target < cpos)
    BY <2>1 DEF Moved
  <2>3. strm'.fed = strm.fed /\ strm'.made = strm.made /\ strm'.broken = strm.broken
    <3>1. strm' = strm \/ strm' = [strm EXCEPT !.live = FALSE]
      BY <2>1 DEF Moved
    <3> QED
      BY <1>3, <3>1 DEF Decompressor
  <2> QED
    BY <1>2, <1>3, <1>4, <1>14, <2>1, <2>2, <2>3 DEF Decoded
<1>15. CASE Skip
  <2>1. Waiting /\ UNCHANGED <<known, strm>>
    BY <1>1, <1>15 DEF Results, Phases, Beginning, Using, Skip
  <2>2. delta > 0 => Lesser(delta, Chunk) \in Nat
    BY <1>1, StepsAssumption DEF Lesser, Typed
  <2> QED
    BY <1>6, <1>13, <1>15, <2>1, <2>2 DEF Skip
<1>16. CASE Measure
  <2>1. Waiting /\ UNCHANGED <<known, strm>> /\ 2 * Chunk \in Nat
    BY <1>1, <1>16, StepsAssumption DEF Results, Phases, Beginning, Using, Measure
  <2> QED
    BY <1>13, <1>16, <2>1 DEF Measure
<1>17. CASE Restore
  BY <1>1, <1>6, <1>14, <1>17 DEF Restore, Typed
<1>18. CASE Measured
  <2>1. call.op = "seek" => Target(call, cpos, known) \in Int
    <3>1. kind = "compressed" /\ pc # "idle"
      BY <1>1, <1>18 DEF Measured, Phases, Beginning, Using
    <3> QED
      BY <1>1, <3>1, TargetIs DEF Typed
  <2> QED
    BY <1>6, <1>14, <1>18, <2>1 DEF Measured
<1>19. ASSUME NEW c \in Calls, Read(c)
       PROVE  Decoded'
  <2>1. Waiting /\ UNCHANGED <<known, strm>> /\ c.count \in Nat
    BY <1>1, <1>19, CallsAssumption DEF Results, Using, Read
  <2> QED
    BY <1>13, <1>19, <2>1 DEF Read
<1>20. ASSUME NEW c \in Calls, Seek(c)
       PROVE  Decoded'
  <2>1. Target(c, cpos, known) \in Int
    BY <1>1, <1>20, TargetIs DEF Seek
  <2> QED
    BY <1>6, <1>14, <1>20, <2>1 DEF Seek
<1>21. ASSUME NEW c \in Calls, PlainCall(c) \/ GetSize(c)
       PROVE  UNCHANGED <<cpos, known, strm>>
  BY <1>21 DEF PlainCall, GetSize
<1>22. CASE \/ Reading \/ Probe \/ ProbeRead \/ Probed \/ ReadHeader \/ HeaderParsed
            \/ SeekField \/ ReadField \/ ReportField \/ InitFails
            \/ Fetch \/ FetchFails \/ GiveBack \/ GiveBackFails \/ Skipped
            \/ PlainReturn \/ ReadReturn \/ SeekReturn \/ Destroy \/ UNCHANGED vars
  BY <1>6, <1>22
  DEF Reading, Probe, ProbeRead, Probed, ReadHeader, HeaderParsed, SeekField, ReadField,
      ReportField, InitFails, Fetch, FetchFails, GiveBack, GiveBackFails, Skipped, PlainReturn,
      ReadReturn, SeekReturn, Destroy, Calling, vars
<1> QED
  BY <1>6, <1>7, <1>8, <1>9, <1>10, <1>11, <1>12, <1>15, <1>16, <1>17, <1>18, <1>19, <1>20,
     <1>21, <1>22
  DEF DsNext, Work, Reading

-----------------------------------------------------------------------------
LEMMA DsInvInit == DsInit => DsInv
<1> SUFFICES ASSUME DsInit PROVE DsInv
  OBVIOUS
<1>1. /\ stream \in Files /\ BInit({stream.size}) /\ {stream.size} \subseteq Nat \ {0}
      /\ kind = "opening" /\ pc = "probe"
      /\ cpos = 0 /\ resultPos = 0 /\ known = -1 /\ chunk = 0 /\ from = 0
      /\ strm = [live |-> FALSE, fed |-> 0, made |-> 0, ended |-> FALSE, broken |-> FALSE,
                 availIn |-> 0, availOut |-> Chunk]
      /\ data = <<>> /\ rest = 0 /\ delta = 0 /\ measuring = FALSE
  BY FilesAssumption DEF DsInit
<1>2. Inv
  BY <1>1, BInitInv
<1>3. fsize = stream.size /\ breply.data \in Seq(Int)
  BY <1>1 DEF BInit, NoReply, Answer
<1>4. Typed
  <2>1. strm \in Decompressor
    BY <1>1, StepsAssumption DEF Decompressor
  <2>2. measuring \in BOOLEAN /\ data \in Seq(Int) /\ kind # "compressed"
    <3>1. measuring = FALSE /\ data = <<>> /\ kind = "opening"
      BY <1>1
    <3>2. FALSE \in BOOLEAN /\ <<>> \in Seq(Int)
      OBVIOUS
    <3>3. measuring \in BOOLEAN
      BY <3>1, Zenon
    <3> QED
      BY <3>1, <3>2, <3>3
  <2>3. /\ cpos \in Nat /\ resultPos \in Nat /\ chunk \in Nat /\ rest \in Nat
        /\ known \in Int /\ delta \in Int /\ from \in Int
    BY <1>1
  <2> QED
    BY <1>1, <1>3, <2>1, <2>2, <2>3 DEF Typed, FileTyped
<1>5. Phases /\ Headers /\ Results
  BY <1>1 DEF Phases, Headers, Results, Beginning, Using
<1>6. Decoded
  BY <1>1, FileIs DEF Decoded
<1> QED
  BY <1>2, <1>4, <1>5, <1>6 DEF DsInv

LEMMA DsInvKept ==
  ASSUME DsInv, SeekFaults = FALSE, RestartFaults = FALSE, [DsNext]_vars
  PROVE  DsInv'
BY SourceKeeps, TypedKept, PhasesKept, HeadersKept, ResultsKept, DecodedKept DEF DsInv

(* Between two calls the bytes that wait in cfs->result are those at       *)
(* cfs->fpos (cfs_read, cfs_seek and cfs_init_decompressor), unless a      *)
(* system call fails while the stream is started again, or the lseek of a  *)
(* seek fails.                                                             *)
THEOREM ResultAlwaysAtPosition ==
  ASSUME SeekFaults = FALSE, RestartFaults = FALSE
  PROVE  DsSpec => []ResultAtPosition
<1>1. DsInv => ResultAtPosition
  <2>1. ASSUME DsInv, pc = "idle", Made > resultPos PROVE chunk + resultPos = cpos
    <3>1. kind \in {"plain", "compressed", "closed"}
      BY <2>1 DEF DsInv, Phases, Beginning
    <3>2. kind = "compressed" => Waiting
      BY <2>1 DEF DsInv, Results, Using
    <3>3. Waiting => Made > 0
      BY <2>1, StepsAssumption DEF Waiting
    <3> QED
      BY <2>1, <3>1, <3>2, <3>3 DEF DsInv, Results, Waiting
  <2> QED
    BY <2>1 DEF ResultAtPosition
<1>2. DsInv /\ [DsNext]_vars => DsInv'
  BY DsInvKept
<1> QED
  BY <1>1, <1>2, DsInvInit, PTL DEF DsSpec

-----------------------------------------------------------------------------
(***************************************************************************)
(* DataSource implements ByteSource (ImplementsContent).                   *)
(*                                                                         *)
(* RefInv adds to DsInv what relates the steps of a call to the call:      *)
(* where they lead (Aims), what they are a part of (Roles), what the       *)
(* source underneath answers (Served), and that a healthy stream is        *)
(* decompressed to its end (Working, Settled), so that only trouble cuts a *)
(* call short.                                                             *)
(***************************************************************************)
(* No system call has failed, and all of the stream is there and correct.  *)
Healthy == faults = 0 /\ ~Damaged

(* A healthy stream that is being read, sought or measured. *)
InOrder ==
  /\ ~strm.broken /\ pc # "failed"
  /\ strm.ended <=> strm.fed = EndOf
  /\ strm.ended => strm.made = PlainSize
  /\ strm.ended /\ pc \notin {"back", "copy"} => known = PlainSize
  /\ pc \notin {"fetched", "back"} => ~Serving /\ Position = strm.fed
  /\ pc = "fetched" => ReadFrom(strm.fed, Chunk)
  /\ pc = "back" => ~Serving /\ Position = strm.fed + strm.availIn
  /\ pc = "copy" => breply.value \in Nat

Working == kind = "compressed" /\ pc \in Using => strm.live /\ (Healthy => InOrder)

(* The size that has been found is that of the decompressed file. *)
Settled == Healthy /\ known # -1 => known = PlainSize

(* Where the client's call, or its measuring, has to lead. *)
Goal == IF measuring THEN from ELSE Target(call, from, PlainSize)
Aimed(place) ==
  place = Goal \/ (~measuring /\ call.whence = "end" /\ ~Healthy)

Delivery   == {"fetch", "fetched", "back", "copy", "returned", "failed"}
Delivers(t) == pc \in Delivery /\ task = t

(* What each phase is a part of, and when a seek may be stuck. *)
Roles ==
  /\ kind # "compressed" \/ pc = "idle" => ~measuring
  /\ kind = "compressed" =>
    /\ pc # "idle" => from \in 0..PlainSize
    /\ pc \in Delivery => task \in {"read", "skip", "measure"}
    /\ pc = "measure" \/ Delivers("measure") => measuring
    /\ Delivers("read") => call.op = "read" /\ ~measuring
    /\ measuring => \/ call.op = "size" /\ call.force
                    \/ call.op = "seek" /\ call.whence = "end"
    /\ pc \in Beginning \cup {"init", "skip", "moved", "stuck"} \/ Delivers("skip") =>
         measuring \/ call.op = "seek"
    /\ Healthy =>
         /\ measuring /\ pc # "measure" /\ ~Delivers("measure") => known # -1
         /\ measuring => pc # "stuck"
         /\ pc = "stuck" /\ ~measuring => Target(call, from, PlainSize) \notin 0..PlainSize

(* Reads have delivered the bytes from the position of the call on, and    *)
(* what is left to skip leads to the goal.                                 *)
Aims ==
  kind = "compressed" =>
    /\ pc = "skip" => delta >= 0 /\ Aimed(cpos + delta)
    /\ pc \in Beginning \cup {"init"} => delta >= 0 /\ Aimed(delta)
    /\ pc = "moved" => Aimed(cpos)
    /\ Delivers("read") => /\ data = Run(from, Len(data)) /\ cpos = from + Len(data)
                           /\ Len(data) + rest = call.count
    /\ Delivers("skip") => /\ delta > 0 /\ Len(data) + rest = Lesser(delta, Chunk)
                           /\ Aimed(cpos - Len(data) + delta)
    /\ pc = "returned" /\ Healthy => rest = 0 \/ cpos = PlainSize

(* What the buffered source answers to a call that is passed on to it. *)
Served ==
  kind = "plain" /\ pc = "served" =>
    /\ call \in Calls /\ from \in 0..fsize
    /\ Serving => bcall = call
    /\ \/ /\ call.op = "read" /\ ReadFrom(from, call.count)
          /\ ~Serving => breply = Answer(call, breply.value, breply.data)
       \/ call.op = "read" /\ ~Serving /\ faults > 0 /\ breply = Failure(call)
       \/ /\ call.op = "seek" /\ Sought(Target(call, from, fsize))
          /\ breply = Answer(call, Target(call, from, fsize), <<>>)
          /\ Target(call, from, fsize) \in 0..fsize
       \/ /\ call.op = "seek" /\ ~Serving /\ breply = Failure(call)
          /\ Target(call, from, fsize) \in 0..fsize => faults > 0

(* Nobody is answered or served while a source is opened. *)
Fresh ==
  /\ kind = "opening" => reply = NoReply
  /\ kind \in {"opening", "plain"} /\ pc \in {"probe", "magic", "idle"} => ~Serving

(* libbz2 does not accept bytes that follow the stream. *)
NothingTrails == \A f \in Files : f.method = "bz2" => f.size <= Len(f.plain) - 1

-----------------------------------------------------------------------------
(* The file stays as long as it is. *)
LEMMA SameSize ==
  ASSUME DsInv, [DsNext]_vars
  PROVE  fsize' = fsize
<1>1. CASE UNCHANGED bvars
  BY <1>1 DEF bvars
<1>2. CASE BStep
  BY <1>2 DEF BStep, CopyBuffered, RefillAndCopy, RefillFails, file
<1>3. ASSUME NEW count \in Nat, BRead(count) PROVE fsize' = fsize
  BY <1>3 DEF BRead, file
<1>4. ASSUME NEW off \in Int, NEW whence \in Whences, BSeek(off, whence) PROVE fsize' = fsize
  BY <1>4 DEF BSeek, file
<1> QED
  BY <1>1, <1>2, <1>3, <1>4, SourceMoves

(* Trouble never passes. *)
LEMMA FaultsGrow ==
  ASSUME DsInv, [DsNext]_vars
  PROVE  /\ faults \in Nat /\ faults' \in Nat /\ faults <= faults'
         /\ Damaged' = Damaged
         /\ Healthy' => Healthy /\ faults' = faults
<1>1. faults \in Nat
  BY DEF DsInv, Inv, Placed
<1>2. faults' = faults \/ faults' = faults + 1
  <2>1. CASE UNCHANGED bvars
    BY <2>1 DEF bvars
  <2>2. CASE BStep
    BY <2>2 DEF BStep, CopyBuffered, RefillAndCopy, RefillFails, Fault
  <2>3. ASSUME NEW count \in Nat, BRead(count) PROVE faults' = faults \/ faults' = faults + 1
    BY <2>3 DEF BRead
  <2>4. ASSUME NEW off \in Int, NEW whence \in Whences, BSeek(off, whence)
        PROVE  faults' = faults \/ faults' = faults + 1
    BY <2>4 DEF BSeek, Fault
  <2> QED
    BY <2>1, <2>2, <2>3, <2>4, SourceMoves
<1>3. Damaged' = Damaged
  <2>1. fsize' = fsize
    BY SameSize
  <2>2. stream' = stream
    BY StreamKept
  <2> QED
    BY <2>1, <2>2 DEF Damaged, EndOf
<1> QED
  BY <1>1, <1>2, <1>3 DEF Healthy

(* The last chunk has room for the rest of the stream. *)
LEMMA StreamEnds ==
  ASSUME DsInv, kind = "compressed", ~strm.broken, NEW n \in Nat,
         strm.fed = EndOf => strm.made = PlainSize,
         Consumed(n) = EndOf
  PROVE  Lesser(strm.made + Chunk, PlainSize) = PlainSize
<1>1. /\ EndOf \in Nat /\ PlainSize \in Nat /\ EndOf > 0 /\ Plain(EndOf - 1) = PlainSize
      /\ strm.fed \in 0..EndOf /\ strm.made \in Nat /\ Chunk \in Nat
      /\ Plain(EndOf) = PlainSize
  BY FileIs, StepsAssumption DEF DsInv, Typed, FileTyped, Headers, Decoded, Decompressor, PlainSize
<1>2. \/ PlainSize <= strm.made + Chunk
      \/ \A j \in strm.fed..EndOf - 1 : Plain(j) < strm.made + Chunk
  BY <1>1, ConsumedIs
<1>3. strm.fed # EndOf => EndOf - 1 \in strm.fed..EndOf - 1
  BY <1>1
<1> QED
  BY <1>1, <1>2, <1>3 DEF Lesser

(* A sound stream is decompressed without an error. *)
LEMMA SoundChunk ==
  ASSUME DsInv, Working, NothingTrails, Healthy, kind = "compressed", Inflate
  PROVE  /\ pc' = "back" /\ strm'.live /\ ~strm'.broken
         /\ strm'.ended <=> strm'.fed = EndOf
         /\ strm'.ended => strm'.made = PlainSize
         /\ Position = strm'.fed + strm'.availIn
<1> DEFINE n == Len(breply.data)
           k == Consumed(n)
<1>1. /\ strm.live /\ ~strm.broken /\ (strm.ended <=> strm.fed = EndOf)
      /\ strm.ended => strm.made = PlainSize
      /\ ReadFrom(strm.fed, Chunk) /\ ~Serving /\ breply.value > 0 /\ Decompress(breply.data)
  BY DEF Working, InOrder, Inflate, Using
<1>2. /\ strm \in Decompressor /\ strm.fed \in 0..EndOf /\ EndOf \in Nat /\ fsize \in Nat
      /\ strm.fed \in Nat /\ strm.made \in Nat /\ Chunk \in Nat \ {0}
      /\ stream \in Files /\ fsize = stream.size /\ stream.bad \in 0..EndOf
      /\ stream.method # "none"
  BY FileIs, StepsAssumption
  DEF DsInv, Inv, Placed, Typed, FileTyped, Headers, Decoded, Decompressor
<1>3. /\ breply.value = Lesser(Chunk, fsize - strm.fed)
      /\ breply.data = Run(strm.fed, breply.value) /\ Position = strm.fed + breply.value
  BY <1>1 DEF ReadFrom
<1>4. breply.value \in Nat
  BY <1>1, <1>2, <1>3 DEF Lesser
<1>5. n = breply.value
  <2>1. strm.fed \in Int
    BY <1>2
  <2>2. Len(Run(strm.fed, breply.value)) = breply.value
    BY <1>4, <2>1, RunIs
  <2> QED
    BY <1>3, <2>2
<1>6. ~(strm.fed < stream.bad)
  BY <1>2 DEF Healthy, Damaged
<1>7. strm.ended => stream.method = "zlib"
  <2>1. ASSUME strm.ended, stream.method # "zlib" PROVE FALSE
    <3>1. stream.method = "bz2"
      BY <1>2, <2>1, FilesAssumption
    <3>2. fsize <= EndOf
      BY <1>2, <3>1 DEF NothingTrails, EndOf
    <3> QED
      BY <1>1, <1>2, <1>3, <2>1, <3>2 DEF Lesser
  <2> QED
    BY <2>1
<1>8. Len(breply.data) = n /\ breply.data = Run(strm.fed, n)
  BY <1>3, <1>5
<1> DEFINE made == Lesser(strm.made + Chunk, Plain(k))
           e == k = EndOf /\ made = PlainSize
           i == n - (k - strm.fed)
           o == Chunk - (made - strm.made)
<1>9. /\ strm' = [strm EXCEPT !.fed = k, !.made = made, !.ended = e, !.availIn = i,
                              !.availOut = o]
      /\ pc' = "back"
  BY <1>1, <1>6, <1>7, <1>8 DEF Decompress
<1>10. k \in strm.fed..EndOf
  BY <1>1, <1>4, <1>5, ConsumedIs
<1>11. k = EndOf => made = PlainSize
  BY <1>1, <1>4, <1>5, StreamEnds DEF PlainSize
<1>12. Position = k + i
  BY <1>2, <1>3, <1>4, <1>5, <1>10
<1>13. e <=> k = EndOf
  BY <1>11
<1> HIDE DEF n, k, made, e, i, o
<1>14. /\ strm'.live = strm.live /\ strm'.broken = strm.broken /\ strm'.fed = k /\ strm'.made = made
       /\ strm'.ended = e /\ strm'.availIn = i
  BY <1>2, <1>9 DEF Decompressor
<1> QED
  BY <1>1, <1>9, <1>11, <1>12, <1>13, <1>14

(* Input is neither lost nor given twice while no system call fails. *)
LEMMA WorkingKept ==
  ASSUME DsInv, Working, Settled, NothingTrails, SeekFaults = FALSE, RestartFaults = FALSE,
         [DsNext]_vars
  PROVE  Working'
<1>1. /\ (Healthy' => Healthy /\ faults' = faults)
      /\ EndOf' = EndOf /\ PlainSize' = PlainSize /\ Inv /\ Inv'
  BY FaultsGrow, StreamKept, DsInvKept DEF EndOf, PlainSize, Plain, DsInv
<1>2. CASE \/ Probe \/ ProbeRead \/ Probed \/ InitDecompressor \/ ReadHeader \/ HeaderParsed
           \/ SeekField \/ ReadField \/ ReportField \/ Rewind
  <2>1. kind' # "compressed" \/ pc' \notin Using
    <3>1. CASE Probe \/ ProbeRead \/ Probed
      BY <3>1 DEF Probe, ProbeRead, Probed, Calling, DsInv, Phases, Beginning, Using
    <3>2. CASE \/ InitDecompressor \/ ReadHeader \/ HeaderParsed
               \/ SeekField \/ ReadField \/ ReportField \/ Rewind
      BY <3>2 DEF InitDecompressor, ReadHeader, HeaderParsed, SeekField, ReadField,
                  ReportField, Rewind, Calling, Using
    <3> QED
      BY <1>2, <3>1, <3>2
  <2> QED
    BY <2>1 DEF Working
<1>3. CASE DecompressorReady
  <2>1. /\ strm'.live /\ strm'.fed = 0 /\ ~strm'.ended /\ ~strm'.broken /\ pc' \in {"idle", "skip"}
        /\ UNCHANGED bvars /\ pc = "rewound" /\ breply.value = 0
    BY <1>3 DEF DecompressorReady
  <2>2. Sought(0) /\ EndOf > 0 /\ EndOf \in Nat
    BY <2>1, FileIs DEF DsInv, Headers, OpeningFails, Typed, FileTyped, Beginning
  <2>3. ~Serving' /\ Position' = 0
    BY <2>1, <2>2 DEF bvars, Sought, Serving, Position
  <2> QED
    BY <1>1, <2>1, <2>2, <2>3 DEF Working, InOrder
<1>4. CASE InitFails
  BY <1>4, NoRestartFails DEF InitFails, Working
<1>5. CASE Fetch
  <2>1. /\ kind' = kind /\ pc = "fetch" /\ pc' = "fetched"
        /\ BRead(Chunk) /\ UNCHANGED <<strm, known>>
        /\ kind = "compressed" /\ pc \in Using
    BY <1>5 DEF Fetch, Calling, DsInv, Phases, Beginning, Using
  <2>2. strm.live /\ (Healthy => InOrder)
    BY <2>1 DEF Working, InOrder
  <2>3. ASSUME Healthy' PROVE ReadFrom(strm.fed, Chunk)'
    <3>1. Position = strm.fed /\ strm.fed \in Nat /\ Chunk \in Nat
      BY <1>1, <2>1, <2>2, <2>3, StepsAssumption DEF InOrder, DsInv, Typed, Decompressor
    <3>2. PICK p \in Nat : p = strm.fed
      BY <3>1
    <3>3. ReadFrom(p, Chunk)'
      BY <1>1, <2>1, <3>1, <3>2, ReadStarts
    <3>4. strm'.fed = p
      BY <2>1, <3>2
    <3> QED
      BY <3>3, <3>4 DEF ReadFrom
  <2> QED
    BY <1>1, <2>1, <2>2, <2>3 DEF Working, InOrder
<1>6. CASE FetchFails
  <2>1. /\ pc = "fetched" /\ ~Serving /\ breply.value < 0 /\ kind' = kind /\ strm' = strm
        /\ kind = "compressed" /\ pc \in Using
    BY <1>6 DEF FetchFails, DsInv, Phases, Beginning, Using
  <2>2. ~Healthy
    <3>1. ASSUME Healthy PROVE FALSE
      <4>1. ReadFrom(strm.fed, Chunk) /\ strm.live
        BY <2>1, <3>1 DEF Working, InOrder
      <4>2. /\ breply.value = Lesser(Chunk, fsize - strm.fed) /\ strm.fed \in 0..EndOf
            /\ EndOf \in Nat /\ Chunk \in Nat /\ fsize \in Nat /\ stream.method # "none"
        BY <2>1, <4>1, FileIs, StepsAssumption
        DEF ReadFrom, DsInv, Inv, Placed, Typed, FileTyped, Headers, Decoded
      <4>3. EndOf <= fsize
        BY <3>1, <4>2 DEF Healthy, Damaged
      <4> QED
        BY <2>1, <4>2, <4>3 DEF Lesser
    <3> QED
      BY <3>1
  <2> QED
    BY <1>1, <2>1, <2>2 DEF Working
<1>7. CASE FetchedNothing
  <2>1. /\ pc = "fetched" /\ ~Serving /\ breply.value = 0 /\ kind' = kind /\ pc' = "returned"
        /\ kind = "compressed" /\ pc \in Using /\ UNCHANGED <<bvars, strm, cpos>> /\ known' = cpos
    BY <1>7 DEF FetchedNothing, DsInv, Phases, Beginning, Using
  <2>2. ASSUME Healthy' PROVE InOrder'
    <3>1. InOrder /\ Healthy
      BY <1>1, <2>1, <2>2 DEF Working
    <3>2. /\ 0 = Lesser(Chunk, fsize - strm.fed) /\ Position = strm.fed + 0
          /\ strm.fed \in 0..EndOf /\ Chunk \in Nat \ {0} /\ fsize \in Nat /\ EndOf \in Nat
          /\ EndOf <= fsize /\ stream.method # "none"
      <4>1. stream.method # "none" /\ EndOf \in Nat /\ strm.fed \in 0..EndOf /\ fsize \in Nat
        BY <2>1, FileIs DEF DsInv, Inv, Placed, Typed, FileTyped, Headers, Decoded
      <4>2. EndOf <= fsize
        BY <3>1, <4>1 DEF Healthy, Damaged
      <4> QED
        BY <2>1, <3>1, <4>1, <4>2, StepsAssumption DEF InOrder, ReadFrom
    <3>3. strm.fed = EndOf /\ Position = strm.fed
      BY <3>2 DEF Lesser
    <3>4. cpos = PlainSize
      <4>1. strm.made = PlainSize
        BY <3>1, <3>3 DEF InOrder
      <4>2. Waiting /\ resultPos = Made /\ cpos \in Nat
        BY <2>1 DEF DsInv, Results, Typed
      <4> QED
        BY <4>1, <4>2, StepsAssumption DEF Waiting
    <3>5. ~Serving' /\ Position' = Position
      BY <2>1 DEF bvars, Serving, Position
    <3> QED
      BY <1>1, <2>1, <3>1, <3>3, <3>4, <3>5 DEF InOrder
  <2> QED
    BY <2>1, <2>2 DEF Working
<1>8. CASE Inflate
  <2>1. /\ pc = "fetched" /\ kind' = kind /\ ~Serving /\ UNCHANGED <<bvars, known>>
        /\ kind = "compressed" /\ pc \in Using
    BY <1>8 DEF Inflate, DsInv, Phases, Beginning, Using
  <2>2. ~Serving' /\ Position' = Position
    BY <2>1 DEF bvars, Serving, Position
  <2>3. Healthy' => InOrder'
    BY <1>1, <1>8, <2>1, <2>2, SoundChunk DEF InOrder
  <2>4. strm'.live
    <3>1. breply.data \in Seq(Int) /\ Decompress(breply.data)
      BY <1>8 DEF Inflate, DsInv, Typed, FileTyped
    <3> QED
      BY <2>1, <3>1, DecompressIs DEF Decompressed, Working
  <2> QED
    BY <2>3, <2>4 DEF Working
<1>9. CASE GiveBack
  <2>1. /\ pc = "back" /\ pc' = "copy" /\ kind' = kind /\ BSeek(-strm.availIn, "cur")
        /\ UNCHANGED <<strm, known>> /\ kind = "compressed" /\ pc \in Using
    BY <1>9 DEF GiveBack, Calling, DsInv, Phases, Beginning, Using
  <2>2. ASSUME Healthy' PROVE InOrder'
    <3>1. InOrder /\ Healthy /\ faults' = faults
      BY <1>1, <2>1, <2>2 DEF Working
    <3> DEFINE off == -strm.availIn
    <3>2. /\ Position = strm.fed + strm.availIn /\ off \in Int /\ strm.fed \in 0..EndOf
          /\ strm.availIn \in Int /\ EndOf \in Nat /\ fsize \in Nat
          /\ stream.method # "none" /\ EndOf <= fsize
      <4>1. /\ stream.method # "none" /\ EndOf \in Nat /\ strm.fed \in 0..EndOf /\ fsize \in Nat
            /\ strm.availIn \in Int
        BY <2>1, FileIs DEF DsInv, Inv, Placed, Typed, FileTyped, Headers, Decoded, Decompressor
      <4>2. EndOf <= fsize
        BY <3>1, <4>1 DEF Healthy, Damaged
      <4> QED
        BY <2>1, <3>1, <4>1, <4>2 DEF InOrder
    <3>3. strm.fed = Target(SeekCall(off, "cur"), Position, fsize) /\ strm.fed \in Int
      BY <3>2 DEF Target, SeekCall
    <3>4. strm.fed \in 0..fsize /\ faults \in Nat /\ "cur" \in {"set", "cur", "end"}
      BY <3>2, FaultsGrow
    <3>5. BSeek(off, "cur")
      BY <2>1
    <3> HIDE DEF off
    <3>6. want' = 0 /\ Position' = strm.fed /\ breply'.value = strm.fed
      <4>1. \/ /\ Position' = strm.fed
               /\ breply' = Answer(SeekCall(off, "cur"), strm.fed, <<>>)
            \/ faults' = faults + 1
        BY <1>1, <3>2, <3>3, <3>4, <3>5, SeekLeads DEF off
      <4>2. want' = 0
        BY <1>1, <3>2, <3>3, <3>4, <3>5, SeekLeads DEF off
      <4> QED
        BY <3>1, <3>4, <4>1, <4>2 DEF Answer
    <3> QED
      BY <1>1, <2>1, <3>1, <3>2, <3>6 DEF InOrder, Serving
  <2> QED
    BY <2>1, <2>2 DEF Working
<1>10. CASE GiveBackFails
  <2>1. /\ pc = "copy" /\ breply.value < 0 /\ kind' = kind /\ strm' = strm
        /\ kind = "compressed" /\ pc \in Using /\ UNCHANGED bvars
    BY <1>10 DEF GiveBackFails, DsInv, Phases, Beginning, Using
  <2>2. Healthy => breply.value \in Nat /\ Position = strm.fed /\ ~Serving
    BY <2>1 DEF Working, InOrder
  <2>3. ~Healthy
    <3>1. ASSUME Healthy PROVE FALSE
      <4>1. breply.value \in Nat /\ breply.value < 0
        BY <2>1, <2>2, <3>1
      <4> QED
        BY <4>1
    <3> QED
      BY <3>1
  <2> QED
    BY <1>1, <2>1, <2>3 DEF Working
<1>11. CASE CopyResult
  <2>1. /\ pc = "copy" /\ kind' = kind /\ pc' \in {"returned", "fetch"}
        /\ known' = (IF strm.ended THEN cpos + Made ELSE known)
        /\ kind = "compressed" /\ pc \in Using /\ UNCHANGED <<bvars, strm>>
    BY <1>11 DEF CopyResult, DsInv, Phases, Beginning, Using
  <2>2. (Serving' <=> Serving) /\ Position' = Position
    BY <2>1 DEF bvars, Serving, Position
  <2>3. ASSUME Healthy' PROVE InOrder'
    <3>1. InOrder /\ Healthy
      BY <1>1, <2>1, <2>3 DEF Working
    <3>2. strm.ended => cpos + Made = PlainSize
      <4>1. Waiting /\ resultPos = 0 /\ cpos \in Nat /\ Made \in Nat
        BY <2>1, StepsAssumption DEF DsInv, Results, Typed, Waiting
      <4> QED
        BY <3>1, <4>1 DEF Waiting, InOrder
    <3> QED
      BY <1>1, <2>1, <2>2, <3>1, <3>2 DEF InOrder
  <2> QED
    BY <2>1, <2>3 DEF Working
<1>12. ASSUME UNCHANGED <<bvars, known>>,
              \/ kind' # "compressed"
              \/ pc' \notin Using
              \/ /\ strm' = strm /\ kind = "compressed" /\ pc \in Using
                 /\ pc \notin {"fetched", "back", "copy"}
                 /\ pc' \notin {"fetched", "back", "copy", "failed"}
       PROVE  Working'
  <2>1. Position' = Position /\ (Serving' <=> Serving)
    BY <1>12 DEF bvars, Position, Serving
  <2> QED
    BY <1>1, <1>12, <2>1 DEF Working, InOrder
<1>13. CASE Reading
  <2>1. /\ UNCHANGED <<kind, pc, strm, known, stream>> /\ BStep
    BY <1>13 DEF Reading
  <2>2. Serving
    BY <2>1 DEF BStep, CopyBuffered, RefillAndCopy, RefillFails
  <2>3. ASSUME kind = "compressed", pc \in Using, Healthy' PROVE InOrder'
    <3>1. InOrder /\ Healthy /\ faults' = faults
      BY <1>1, <2>3 DEF Working
    <3>2. pc = "fetched" /\ ReadFrom(strm.fed, Chunk) /\ strm.fed \in Nat /\ Chunk \in Nat
      <4>1. pc = "fetched" \/ pc = "copy"
        BY <2>2, <3>1 DEF InOrder
      <4>2. pc # "copy"
        BY <2>2, <3>1 DEF InOrder
      <4> QED
        BY <3>1, <4>1, <4>2, StepsAssumption DEF InOrder, DsInv, Typed, Decompressor
    <3>3. PICK p \in Nat : p = strm.fed
      BY <3>2
    <3>4. ReadFrom(p, Chunk)'
      BY <1>1, <2>1, <3>1, <3>2, <3>3, ReadGoesOn
    <3>5. ReadFrom(strm.fed, Chunk)'
      BY <2>1, <3>3, <3>4 DEF ReadFrom
    <3> QED
      BY <1>1, <2>1, <3>1, <3>2, <3>5 DEF InOrder
  <2> QED
    BY <2>1, <2>3 DEF Working
<1>14. CASE Skip \/ Skipped \/ ReadReturn \/ SeekReturn \/ Measure \/ Restore \/ Measured
  <2>1. UNCHANGED <<bvars, known>> /\ kind' = kind
    BY <1>14 DEF Skip, Skipped, ReadReturn, SeekReturn, Measure, Restore, Measured
  <2>2. kind = "compressed" /\ pc \in {"skip", "returned", "failed", "moved", "stuck", "measure"}
    BY <1>14 DEF Skip, Skipped, ReadReturn, SeekReturn, Measure, Restore, Measured,
                 DsInv, Phases, Beginning, Using
  <2>3. \/ strm' = strm /\ pc' \notin {"fetched", "back", "copy", "failed"}
        \/ pc' \notin Using
    <3>1. ASSUME NEW target, Move(target)
          PROVE  \/ strm' = strm /\ pc' \notin {"fetched", "back", "copy", "failed"}
                 \/ pc' \notin Using
      BY <3>1 DEF Move, Using
    <3>2. CASE Skip \/ Measure
      BY <3>2, BeginReadPhase DEF Skip, Measure
    <3>3. CASE Skipped \/ ReadReturn \/ SeekReturn
      BY <3>3 DEF Skipped, ReadReturn, SeekReturn
    <3>4. CASE Restore \/ Measured
      BY <3>1, <3>4 DEF Restore, Measured
    <3> QED
      BY <1>14, <3>2, <3>3, <3>4
  <2> QED
    BY <1>12, <2>1, <2>2, <2>3 DEF Using
<1>15. ASSUME NEW c \in Calls, Read(c) \/ Seek(c) \/ GetSize(c) \/ PlainCall(c)
       PROVE  Working'
  <2>1. CASE kind # "compressed"
    BY <1>15, <2>1 DEF Read, Seek, GetSize, PlainCall, Working
  <2>2. CASE kind = "compressed"
    <3>1. UNCHANGED <<bvars, known>> /\ pc = "idle"
      BY <1>15, <2>2 DEF Read, Seek, GetSize, PlainCall
    <3>2. \/ strm' = strm /\ pc' \notin {"fetched", "back", "copy", "failed"}
          \/ pc' \notin Using
      <4>1. ASSUME NEW target, Move(target)
            PROVE  \/ strm' = strm /\ pc' \notin {"fetched", "back", "copy", "failed"}
                   \/ pc' \notin Using
        BY <4>1 DEF Move, Using
      <4> QED
        BY <1>15, <2>2, <4>1, BeginReadPhase DEF Read, Seek, GetSize, PlainCall
    <3> QED
      BY <1>12, <2>2, <3>1, <3>2 DEF Using
  <2> QED
    BY <2>1, <2>2
<1>16. CASE PlainReturn \/ Destroy
  <2>1. kind' # "compressed"
    BY <1>16 DEF PlainReturn, Destroy, DsInv, Phases, Beginning, Using
  <2> QED
    BY <2>1 DEF Working
<1>17. CASE UNCHANGED vars
  <2>1. UNCHANGED <<kind, pc, known, strm, stream>> /\ Position' = Position
        /\ (Serving' <=> Serving) /\ UNCHANGED <<breply, faults, fsize, bcall, got>>
    BY <1>17 DEF vars, bvars, Position, Serving
  <2> QED
    BY <1>1, <2>1 DEF Working, InOrder, ReadFrom
<1> QED
  BY <1>2, <1>3, <1>4, <1>5, <1>6, <1>7, <1>8, <1>9, <1>10, <1>11, <1>13, <1>14, <1>15, <1>16, <1>17
  DEF DsNext, Work, Reading

(* The end of a healthy stream is only seen where it is. *)
LEMMA SettledKept ==
  ASSUME DsInv, Working, Settled, [DsNext]_vars
  PROVE  Settled'
<1>1. (Healthy' => Healthy) /\ PlainSize' = PlainSize
  BY FaultsGrow, StreamKept DEF PlainSize, Plain, EndOf
<1>2. CASE known' = known
  BY <1>1, <1>2 DEF Settled
<1>3. CASE CopyResult
  <2>1. /\ pc = "copy" /\ kind = "compressed" /\ pc \in Using /\ Waiting /\ resultPos = 0
        /\ known' = (IF strm.ended THEN cpos + Made ELSE known) /\ Made \in Nat /\ cpos \in Nat
    BY <1>3, StepsAssumption
    DEF CopyResult, DsInv, Phases, Beginning, Using, Results, Waiting, Typed
  <2>2. Healthy /\ strm.ended => cpos + Made = PlainSize
    BY <2>1 DEF Working, InOrder, Waiting
  <2> QED
    BY <1>1, <2>1, <2>2 DEF Settled
<1>4. CASE FetchedNothing
  <2>1. /\ pc = "fetched" /\ ~Serving /\ breply.value = 0 /\ kind' = kind /\ pc' = "returned"
        /\ kind = "compressed" /\ pc \in Using /\ known' = cpos
    BY <1>4 DEF FetchedNothing, DsInv, Phases, Beginning, Using
  <2>2. ASSUME Healthy PROVE cpos = PlainSize
    <3>1. InOrder
      BY <2>1, <2>2 DEF Working
    <3>2. stream.method # "none" /\ EndOf \in Nat /\ strm.fed \in 0..EndOf /\ fsize \in Nat
      BY <2>1, FileIs DEF DsInv, Inv, Placed, Typed, FileTyped, Headers, Decoded
    <3>3. EndOf <= fsize /\ 0 = Lesser(Chunk, fsize - strm.fed)
      BY <2>1, <2>2, <3>1, <3>2 DEF InOrder, ReadFrom, Healthy, Damaged
    <3>4. strm.made = PlainSize
      BY <3>1, <3>2, <3>3, StepsAssumption DEF Lesser, InOrder
    <3>5. Waiting /\ resultPos = Made /\ cpos \in Nat
      BY <2>1 DEF DsInv, Results, Typed
    <3> QED
      BY <3>4, <3>5, StepsAssumption DEF Waiting
  <2> QED
    BY <1>1, <2>1, <2>2 DEF Settled
<1>5. \/ known' = known \/ CopyResult \/ FetchedNothing
  <2>1. CASE Work
    BY <2>1 DEF Work, Probe, ProbeRead, Probed, InitDecompressor, ReadHeader, HeaderParsed,
      SeekField, ReadField, ReportField, Rewind, DecompressorReady, InitFails, Fetch, FetchFails,
      Inflate, GiveBack, GiveBackFails, Skip, Skipped, PlainReturn,
      ReadReturn, SeekReturn, Measure, Restore, Measured, Calling
  <2>2. ASSUME NEW c \in Calls, PlainCall(c) \/ Read(c) \/ Seek(c) \/ GetSize(c)
        PROVE  known' = known
    BY <2>2 DEF PlainCall, Read, Seek, GetSize
  <2>3. CASE Destroy \/ UNCHANGED vars
    BY <2>3 DEF Destroy, vars
  <2> QED
    BY <2>1, <2>2, <2>3 DEF DsNext
<1> QED
  BY <1>2, <1>3, <1>4, <1>5

-----------------------------------------------------------------------------
(* What each call is about *)

(* cfs_seek sets out for its target ... *)
LEMMA MovedAims ==
  ASSUME Typed, NEW target \in Nat, Moved(target),
         \/ target = Goal'
         \/ ~measuring' /\ call'.whence = "end" /\ ~Healthy'
  PROVE  Aims'
<1>1. cpos \in Nat /\ resultPos \in Nat
  BY DEF Typed
<1>2. \/ pc' = "skip" /\ delta' >= 0 /\ cpos' + delta' = target
      \/ pc' = "moved" /\ cpos' = target
      \/ pc' = "init" /\ delta' = target
  BY <1>1 DEF Moved
<1> QED
  BY <1>2 DEF Aims, Aimed, Delivers, Delivery, Beginning

(* ... and cfs_read begins with the bytes at the position. *)
LEMMA BegunAims ==
  ASSUME DsInv, Settled, Decoded', Typed', PlainSize' = PlainSize, Healthy' => Healthy,
         Waiting, known' = known, NEW count \in Nat, BeginRead(count)
  PROVE  /\ Len(data') + rest' = count /\ cpos' = cpos + Len(data')
         /\ Len(data') \in Nat /\ rest' \in Nat
         /\ data' = Run(cpos, Len(data'))
         /\ pc' = "returned" /\ Healthy' => rest' = 0 \/ cpos' = PlainSize
         /\ pc' \in {"returned", "fetch"}
<1>1. PICK n \in 0..count : Begun(n, count)
  BY BeginReadIs
<1>2. /\ n \in Nat /\ cpos \in Nat /\ chunk \in Nat /\ resultPos \in Nat /\ known \in Int
      /\ PlainSize \in Nat /\ cpos <= PlainSize /\ cpos' <= PlainSize /\ rest' \in Nat
  BY <1>1, FileIs DEF DsInv, Typed, FileTyped, Decoded
<1>3. /\ data' = Run(chunk + resultPos, n) /\ cpos' = cpos + n /\ rest' = count - n
      /\ n <= Made - resultPos
      /\ pc' \in {"returned", "fetch"} /\ (pc' = "returned" => cpos = known \/ n = count)
  BY <1>1 DEF Begun
<1>4. Run(chunk + resultPos, n) = Run(cpos, n)
  <2>1. CASE n = 0
    BY <2>1 DEF Run
  <2>2. CASE n > 0
    <3>1. chunk + resultPos = cpos
      BY <1>2, <1>3, <2>2, StepsAssumption DEF Waiting
    <3> QED
      BY <3>1
  <2> QED
    BY <1>2, <2>1, <2>2
<1>5. Len(data') = n
  <2>1. cpos \in Int
    BY <1>2
  <2>2. Len(Run(cpos, n)) = n
    BY <1>2, <2>1, RunIs
  <2> QED
    BY <1>3, <1>4, <2>2
<1>6. pc' = "returned" /\ Healthy' => rest' = 0 \/ cpos' = PlainSize
  BY <1>2, <1>3 DEF Settled
<1> QED
  BY <1>2, <1>3, <1>4, <1>5, <1>6

RefInv == DsInv /\ Working /\ Settled /\ Roles /\ Aims /\ Served /\ Fresh

(* What the lemmas below need to know of a step. *)
LEMMA StepFacts ==
  ASSUME RefInv, NothingTrails, SeekFaults = FALSE, RestartFaults = FALSE, [DsNext]_vars
  PROVE  /\ DsInv' /\ Working' /\ Settled'
         /\ Healthy' => Healthy
         /\ PlainSize' = PlainSize /\ PlainSize \in Nat
         /\ Typed /\ Typed' /\ Decoded /\ Decoded' /\ Phases /\ Phases'
BY DsInvKept, WorkingKept, SettledKept, FaultsGrow, StreamKept, FileIs
DEF RefInv, DsInv, PlainSize, Plain, EndOf, Typed, FileTyped

(* Starting a stream, for the first time or again for a seek. *)
LEMMA StartingAims ==
  ASSUME RefInv, NothingTrails, SeekFaults = FALSE, RestartFaults = FALSE, [DsNext]_vars,
         \/ Probe \/ ProbeRead \/ Probed \/ InitDecompressor \/ ReadHeader \/ HeaderParsed
         \/ SeekField \/ ReadField \/ ReportField \/ Rewind \/ DecompressorReady \/ InitFails
  PROVE  Roles' /\ Aims'
<1>1. /\ Roles /\ Aims /\ (Healthy' => Healthy) /\ PlainSize' = PlainSize /\ Phases /\ Typed
      /\ DsInv /\ Results
  BY StepFacts DEF RefInv, DsInv
<1>2. /\ UNCHANGED <<call, from, measuring, known, delta, task>>
      /\ pc \notin {"idle"} \cup Delivery
  BY <1>1 DEF Probe, ProbeRead, Probed, InitDecompressor, ReadHeader, HeaderParsed,
    SeekField, ReadField, ReportField, Rewind, DecompressorReady, InitFails, Calling, client,
    reading, Delivery
<1>3. CASE kind' # "compressed"
  <2>1. kind # "compressed"
    BY <1>1, <1>3, NoRestartFails
    DEF Probe, ProbeRead, Probed, InitDecompressor, ReadHeader, HeaderParsed,
      SeekField, ReadField, ReportField, Rewind, DecompressorReady, InitFails, Calling, Phases,
      Beginning, Using
  <2> QED
    BY <1>1, <1>2, <1>3, <2>1 DEF Roles, Aims
<1>4. CASE kind' = "compressed" /\ kind # "compressed"
  <2>1. pc' = "idle" /\ ~measuring'
    BY <1>1, <1>2, <1>4
    DEF Probe, ProbeRead, Probed, InitDecompressor, ReadHeader, HeaderParsed,
      SeekField, ReadField, ReportField, Rewind, DecompressorReady, InitFails, Calling, Roles
  <2> QED
    BY <2>1 DEF Roles, Aims, Delivers, Delivery, Beginning
<1>5. CASE kind' = "compressed" /\ kind = "compressed" /\ pc' \in Beginning
  <2>1. pc \in Beginning \cup {"init"}
    BY <1>1, <1>5 DEF Probe, ProbeRead, Probed, InitDecompressor, ReadHeader, HeaderParsed,
      SeekField, ReadField, ReportField, Rewind, DecompressorReady, InitFails, Calling, Beginning,
      Phases
  <2>2. Goal' = Goal
    BY <1>1, <1>2 DEF Goal
  <2>3. Roles'
    BY <1>1, <1>2, <1>5, <2>1 DEF Roles, Beginning, Delivers, Delivery
  <2>4. Aims'
    BY <1>1, <1>2, <1>5, <2>1, <2>2 DEF Aims, Aimed, Beginning, Delivers, Delivery
  <2> QED
    BY <2>3, <2>4
<1>6. CASE kind' = "compressed" /\ kind = "compressed" /\ pc' \notin Beginning
  <2>1. pc = "rewound" /\ pc' = "skip" /\ cpos' = cpos
    BY <1>1, <1>6, NoRestartFails
    DEF Probe, ProbeRead, Probed, InitDecompressor, ReadHeader, HeaderParsed,
      SeekField, ReadField, ReportField, Rewind, DecompressorReady, InitFails, Calling, Beginning,
      Phases, Using
  <2>2. cpos' = 0 /\ delta \in Int
    BY <1>1, <2>1 DEF Results, Beginning, Typed
  <2>3. Goal' = Goal
    BY <1>1, <1>2 DEF Goal
  <2>4. Roles'
    BY <1>1, <1>2, <1>6, <2>1 DEF Roles, Beginning, Delivers, Delivery
  <2>5. Aims'
    BY <1>1, <1>2, <1>6, <2>1, <2>2, <2>3 DEF Aims, Aimed, Beginning, Delivers, Delivery
  <2> QED
    BY <2>4, <2>5
<1> QED
  BY <1>3, <1>4, <1>5, <1>6

(* cfs_read, chunk by chunk. *)
LEMMA DeliveringAims ==
  ASSUME RefInv, NothingTrails, SeekFaults = FALSE, RestartFaults = FALSE, [DsNext]_vars,
         \/ Fetch \/ FetchFails \/ FetchedNothing \/ Inflate \/ GiveBack \/ GiveBackFails
         \/ CopyResult
  PROVE  Roles' /\ Aims'
<1>1. /\ Roles /\ Aims /\ (Healthy' => Healthy) /\ PlainSize' = PlainSize /\ Phases /\ Typed
      /\ DsInv /\ Results /\ Settled' /\ Working'
      /\ PlainSize \in Nat /\ cpos \in Nat
  BY StepFacts DEF RefInv, DsInv, Typed
<1>2. /\ UNCHANGED <<call, from, measuring, delta, task, kind>>
      /\ kind = "compressed" /\ pc \in Delivery \cap Using /\ pc' \in Delivery \cap Using
  BY <1>1, DecompressIs
  DEF Fetch, FetchFails, FetchedNothing, Inflate, GiveBack, GiveBackFails, CopyResult, Calling,
      client, reading, Delivery, Using, Beginning, Phases, Typed, FileTyped, Decompressed
<1>3. Goal' = Goal
  BY <1>1, <1>2 DEF Goal
<1>4. known' = known \/ (known' \in Nat /\ (FetchedNothing \/ CopyResult))
  <2>1. CASE CopyResult
    <3>1. Made \in Nat
      BY <1>1, <1>2, <2>1, StepsAssumption DEF Results, Waiting, CopyResult
    <3> QED
      BY <1>1, <2>1, <3>1 DEF CopyResult
  <2>2. CASE FetchedNothing
    BY <1>1, <2>2 DEF FetchedNothing
  <2>3. CASE Fetch \/ FetchFails \/ Inflate \/ GiveBack \/ GiveBackFails
    BY <2>3 DEF Fetch, FetchFails, Inflate, GiveBack, GiveBackFails, Calling
  <2> QED
    BY <2>1, <2>2, <2>3
<1>5. Roles'
  <2>1. pc' # "idle" /\ pc' # "stuck" /\ pc' # "measure" /\ \A t : Delivers(t)' <=> Delivers(t)
    BY <1>2 DEF Delivers, Delivery
  <2>2. /\ pc' \notin Beginning \cup {"init", "skip", "moved", "stuck"}
        /\ pc # "idle" /\ pc # "measure"
    BY <1>2 DEF Delivery, Beginning
  <2>3. known # -1 => known' # -1
    BY <1>4
  <2> QED
    BY <1>1, <1>2, <2>1, <2>2, <2>3 DEF Roles
<1>6. CASE CopyResult
  <2>1. /\ Waiting /\ resultPos = 0 /\ chunk = cpos /\ rest \in Nat /\ pc = "copy"
        /\ data \in Seq(Int) /\ from \in Int
    BY <1>1, <1>2, <1>6 DEF Results, CopyResult, Typed
  <2>2. PICK n \in 0..rest : Went(n)
    BY <1>1, <1>6, <2>1, CopyResultIs
  <2>3. /\ data' = data \o Run(cpos, n) /\ cpos' = cpos + n /\ rest' = rest - n /\ n \in Nat
        /\ rest' \in Nat /\ Len(data) \in Nat
        /\ pc' = "returned" => n = rest \/ (n = Made /\ strm.ended)
    BY <2>1, <2>2 DEF Went
  <2>4. Len(data') = Len(data) + n
    <3> DEFINE more == Run(cpos, n)
    <3>1. cpos \in Int
      BY <1>1
    <3>2. more \in Seq(Int) /\ Len(more) = n
      BY <2>3, <3>1, RunIs
    <3>3. data' = data \o more
      BY <2>3
    <3> HIDE DEF more
    <3>4. Len(data \o more) = Len(data) + Len(more)
      BY SMTT(30), <2>1, <3>2
    <3> QED
      BY <3>2, <3>3, <3>4
  <2>5. Delivers("read") => data' = Run(from, Len(data'))
    <3>1. ASSUME Delivers("read") PROVE data' = Run(from, Len(data'))
      <4>1. data = Run(from, Len(data)) /\ cpos = from + Len(data)
        BY <1>1, <1>2, <3>1 DEF Aims
      <4>2. Run(from, Len(data)) \o Run(from + Len(data), n) = Run(from, Len(data) + n)
        BY <2>1, <2>3, RunJoined
      <4> QED
        BY <2>3, <2>4, <4>1, <4>2
    <3> QED
      BY <3>1
  <2>6. pc' = "returned" /\ Healthy' => rest' = 0 \/ cpos' = PlainSize
    <3>1. ASSUME strm.ended, n = Made, Healthy' PROVE cpos' = PlainSize
      <4>1. known' = cpos + n /\ known' # -1
        BY <1>1, <1>6, <2>3, <3>1 DEF CopyResult
      <4> QED
        BY <1>1, <2>3, <3>1, <4>1 DEF Settled
    <3> QED
      BY <2>1, <2>3, <3>1
  <2>7. Delivers("read") =>
          /\ cpos' = from + Len(data') /\ Len(data') + rest' = call.count
    BY <1>1, <1>2, <2>1, <2>3, <2>4 DEF Aims
  <2>8. Delivers("skip") =>
          /\ delta > 0 /\ Len(data') + rest' = Lesser(delta, Chunk)
          /\ Aimed(cpos - Len(data) + delta) /\ cpos' - Len(data') = cpos - Len(data)
    BY <1>1, <1>2, <2>1, <2>3, <2>4 DEF Aims
  <2>9. pc' \notin Beginning \cup {"init", "skip", "moved"}
    BY <1>2 DEF Delivery, Beginning
  <2>10. (Delivers("read")' <=> Delivers("read")) /\ (Delivers("skip")' <=> Delivers("skip"))
    BY <1>2 DEF Delivers
  <2> QED
    BY <1>1, <1>2, <1>3, <1>5, <2>5, <2>6, <2>7, <2>8, <2>9, <2>10 DEF Aims, Aimed
<1>7. CASE ~CopyResult
  <2>1. UNCHANGED <<cpos, data, rest>>
    BY <1>7
    DEF Fetch, FetchFails, FetchedNothing, Inflate, GiveBack, GiveBackFails, Calling, reading
  <2>2. pc' = "returned" /\ Healthy' => cpos' = PlainSize
    <3>1. ASSUME pc' = "returned", Healthy' PROVE cpos' = PlainSize
      <4>1. FetchedNothing
        BY <1>7, <3>1 DEF Fetch, FetchFails, Inflate, GiveBack, GiveBackFails, Calling, Decompress
      <4>2. known' = cpos /\ known' # -1
        BY <1>1, <4>1 DEF FetchedNothing
      <4> QED
        BY <1>1, <2>1, <3>1, <4>2 DEF Settled
    <3> QED
      BY <3>1
  <2>3. pc' \notin Beginning \cup {"init", "skip", "moved"}
    BY <1>2 DEF Delivery, Beginning
  <2>4. (Delivers("read")' <=> Delivers("read")) /\ (Delivers("skip")' <=> Delivers("skip"))
    BY <1>2 DEF Delivers
  <2>5. Aims'
    BY <1>1, <1>2, <1>3, <2>1, <2>2, <2>3, <2>4 DEF Aims, Aimed
  <2> QED
    BY <1>5, <2>5
<1> QED
  BY <1>6, <1>7

(* cfs_seek reads what it has to skip. *)
LEMMA SkippingAims ==
  ASSUME RefInv, NothingTrails, SeekFaults = FALSE, RestartFaults = FALSE, [DsNext]_vars,
         Skip \/ Skipped
  PROVE  Roles' /\ Aims'
<1>1. /\ Roles /\ Aims /\ (Healthy' => Healthy) /\ PlainSize' = PlainSize /\ Phases /\ Typed
      /\ DsInv /\ Results /\ Settled /\ Decoded' /\ Typed'
      /\ PlainSize \in Nat /\ cpos \in Nat /\ delta \in Int /\ rest \in Nat /\ data \in Seq(Int)
      /\ Working /\ cpos <= PlainSize
  BY StepFacts DEF RefInv, DsInv, Typed, Decoded
<1>2. /\ UNCHANGED <<call, from, measuring, known, kind>>
      /\ kind = "compressed"
  BY <1>1 DEF Skip, Skipped, client, Phases, Using, Beginning
<1>3. Goal' = Goal
  BY <1>1, <1>2 DEF Goal
<1>4. CASE Skip /\ delta > 0
  <2> DEFINE count == Lesser(delta, Chunk)
  <2>1. /\ pc = "skip" /\ BeginRead(count) /\ task' = "skip" /\ delta' = delta
        /\ count \in Nat /\ Waiting
    BY <1>1, <1>2, <1>4, StepsAssumption DEF Skip, Lesser, Results, Using
  <2> HIDE DEF count
  <2>2. /\ Len(data') + rest' = count /\ cpos' = cpos + Len(data') /\ Len(data') \in Nat
        /\ pc' = "returned" /\ Healthy' => rest' = 0 \/ cpos' = PlainSize
        /\ pc' \in {"returned", "fetch"}
    BY <1>1, <1>2, <2>1, BegunAims
  <2>3. Roles'
    BY <1>1, <1>2, <2>1, <2>2 DEF Roles, Delivers, Delivery, Beginning
  <2>4. cpos' - Len(data') + delta' = cpos + delta
    BY <1>1, <2>1, <2>2
  <2>5. Aims'
    <3>1. Aimed(cpos + delta)
      BY <1>1, <1>2, <2>1 DEF Aims
    <3> QED
      BY <1>1, <1>2, <1>3, <1>4, <2>1, <2>2, <2>4, <3>1
      DEF Aims, Aimed, Delivers, Delivery, Beginning, count
  <2> QED
    BY <2>3, <2>5
<1>5. CASE Skip /\ ~(delta > 0)
  <2>1. pc = "skip" /\ pc' = "moved" /\ cpos' = cpos
    BY <1>5 DEF Skip
  <2>2. cpos + delta = cpos
    BY <1>1, <1>2, <1>5, <2>1 DEF Aims
  <2>3. Roles'
    BY <1>1, <1>2, <2>1 DEF Roles, Delivers, Delivery, Beginning
  <2>4. Aims'
    BY <1>1, <1>2, <1>3, <2>1, <2>2 DEF Aims, Aimed, Delivers, Delivery, Beginning
  <2> QED
    BY <2>3, <2>4
<1>6. CASE Skipped /\ ~(pc = "failed" \/ data = <<>>)
  <2>1. pc = "returned" /\ Delivers("skip") /\ pc' = "skip" /\ delta' = delta - Len(data)
        /\ cpos' = cpos
    BY <1>6 DEF Skipped, Delivers, Delivery
  <2>2. Len(data) \in Nat /\ Len(data) <= delta /\ Aimed(cpos - Len(data) + delta)
    BY <1>1, <1>2, <2>1, StepsAssumption DEF Aims, Lesser
  <2>3. cpos' + delta' = cpos - Len(data) + delta /\ delta' >= 0
    BY <1>1, <2>1, <2>2
  <2>4. Roles'
    BY <1>1, <1>2, <2>1 DEF Roles, Delivers, Delivery, Beginning
  <2>5. Aims'
    BY <1>1, <1>2, <1>3, <2>1, <2>2, <2>3 DEF Aims, Aimed, Delivers, Delivery, Beginning
  <2> QED
    BY <2>4, <2>5
<1>7. CASE Skipped /\ (pc = "failed" \/ data = <<>>)
  <2>1. Delivers("skip") /\ pc' = "stuck" /\ pc \in Using /\ (pc = "returned" \/ pc = "failed")
    BY <1>7 DEF Skipped, Delivers, Delivery, Using
  <2>2. ASSUME Healthy PROVE ~measuring /\ Target(call, from, PlainSize) \notin 0..PlainSize
    <3>1. pc = "returned" /\ data = <<>>
      BY <1>2, <1>7, <2>1, <2>2, <1>1 DEF Working, InOrder
    <3>2. Len(data) = 0
      BY <3>1
    <3>3. /\ delta > 0 /\ rest = Lesser(delta, Chunk) /\ Aimed(cpos + delta)
          /\ rest = 0 \/ cpos = PlainSize
      <4>1. /\ delta > 0 /\ Len(data) + rest = Lesser(delta, Chunk)
            /\ Aimed(cpos - Len(data) + delta)
            /\ rest = 0 \/ cpos = PlainSize
        BY <1>1, <1>2, <2>1, <2>2, <3>1 DEF Aims
      <4>2. cpos - Len(data) + delta = cpos + delta /\ Len(data) + rest = rest
        BY <1>1, <3>2
      <4> QED
        BY <4>1, <4>2
    <3>4. cpos = PlainSize /\ Goal = PlainSize + delta
      BY <1>1, <2>2, <3>3, StepsAssumption DEF Lesser, Aimed
    <3>5. from \in 0..PlainSize
      BY <1>1, <1>2, <2>1 DEF Roles, Delivers, Delivery
    <3> QED
      BY <1>1, <3>3, <3>4, <3>5 DEF Goal
  <2>3. Roles'
    BY <1>1, <1>2, <2>1, <2>2 DEF Roles, Delivers, Delivery, Beginning
  <2>4. Aims'
    BY <2>1 DEF Aims, Delivers, Delivery, Beginning
  <2> QED
    BY <2>3, <2>4
<1> QED
  BY <1>4, <1>5, <1>6, <1>7

(* Between calls there is nothing to aim at. *)
LEMMA IdleAims ==
  ASSUME pc' = "idle", ~measuring' PROVE Roles' /\ Aims'
BY DEF Roles, Aims, Delivers, Delivery, Beginning

(* Calls that end, and the three parts of measuring. *)
LEMMA ReturningAims ==
  ASSUME RefInv, NothingTrails, SeekFaults = FALSE, RestartFaults = FALSE, [DsNext]_vars,
         PlainReturn \/ ReadReturn \/ SeekReturn \/ Measure \/ Restore \/ Measured \/ Destroy
  PROVE  Roles' /\ Aims'
<1>1. /\ Roles /\ Aims /\ (Healthy' => Healthy) /\ PlainSize' = PlainSize /\ Phases /\ Typed
      /\ DsInv /\ Results /\ Settled /\ Decoded' /\ Typed' /\ Working
      /\ PlainSize \in Nat /\ cpos \in Nat
  BY StepFacts DEF RefInv, DsInv, Typed
<1>2. CASE PlainReturn \/ ReadReturn \/ SeekReturn \/ Destroy
  <2>1. measuring' = measuring
    BY <1>2 DEF PlainReturn, ReadReturn, SeekReturn, Destroy
  <2>2. pc' = "idle"
    BY <1>2 DEF PlainReturn, ReadReturn, SeekReturn, Destroy
  <2>3. ~measuring
    BY <1>1, <1>2
    DEF PlainReturn, ReadReturn, SeekReturn, Destroy, Roles, Delivers, Delivery, Phases, Beginning,
        Using
  <2> QED
    BY <2>1, <2>2, <2>3, IdleAims
<1>3. CASE Measure
  <2>1. /\ kind = "compressed" /\ pc \in Using /\ pc # "idle" /\ BeginRead(2 * Chunk)
        /\ task' = "measure" /\ UNCHANGED <<kind, call, from, known, delta, measuring>>
        /\ pc = "measure" \/ Delivers("measure")
    BY <1>1, <1>3 DEF Measure, Phases, Using, Beginning, Delivers, Delivery, client
  <2>2. 2 * Chunk \in Nat /\ Waiting /\ measuring /\ measuring'
    BY <1>1, <2>1, StepsAssumption DEF Results, Roles
  <2>3. /\ pc' = "returned" /\ Healthy' => rest' = 0 \/ cpos' = PlainSize
        /\ pc' \in {"returned", "fetch"}
    <3> DEFINE count == 2 * Chunk
    <3>1. count \in Nat /\ BeginRead(count)
      BY <2>1, <2>2
    <3> HIDE DEF count
    <3> QED
      BY <1>1, <2>1, <2>2, <3>1, BegunAims
  <2>4. Roles'
    BY <1>1, <2>1, <2>2, <2>3 DEF Roles, Delivers, Delivery, Beginning
  <2>5. Aims'
    BY <1>1, <2>1, <2>2, <2>3 DEF Aims, Delivers, Delivery, Beginning
  <2> QED
    BY <2>4, <2>5
<1>4. CASE Restore
  <2>1. /\ kind = "compressed" /\ pc \in {"returned", "failed"} /\ Delivers("measure")
        /\ pc = "returned" => known # -1
        /\ UNCHANGED <<kind, call, from, known, measuring, task>>
    BY <1>1, <1>4 DEF Restore, Phases, Using, Beginning, Delivers, Delivery, client
  <2>2. measuring /\ measuring' /\ from \in 0..PlainSize
    BY <1>1, <2>1 DEF Roles, Delivers, Delivery
  <2>3. Healthy => pc # "failed" /\ known # -1 /\ MayMoveTo(from)
    <3>1. pc \in Using
      BY <2>1 DEF Using
    <3>2. Healthy => pc # "failed"
      BY <1>1, <2>1, <3>1 DEF Working, InOrder
    <3> QED
      BY <1>1, <2>1, <2>2, <3>2 DEF Settled, MayMoveTo
  <2>4. CASE MayMoveTo(from)
    <3>1. PICK target \in Nat : target = from
      BY <2>2
    <3>2. Moved(target)
      BY <1>1, <1>4, <2>4, <3>1, MoveIs DEF Restore
    <3>3. target = Goal'
      BY <2>1, <2>2, <3>1 DEF Goal
    <3>4. Aims'
      BY <1>1, <3>2, <3>3, MovedAims
    <3>5. pc' \in {"skip", "moved", "init"}
      BY <3>2 DEF Moved
    <3>6. Roles'
      BY <1>1, <2>1, <2>2, <2>3, <3>5 DEF Roles, Delivers, Delivery, Beginning
    <3> QED
      BY <3>4, <3>6
  <2>5. CASE ~MayMoveTo(from)
    <3>1. pc' = "stuck"
      BY <1>4, <2>5 DEF Restore
    <3>2. ~Healthy'
      BY <1>1, <2>3, <2>5
    <3>3. Roles'
      BY <1>1, <2>1, <2>2, <3>1, <3>2 DEF Roles, Delivers, Delivery, Beginning
    <3>4. Aims'
      BY <3>1 DEF Aims, Delivers, Delivery, Beginning
    <3> QED
      BY <3>3, <3>4
  <2> QED
    BY <2>4, <2>5
<1>5. CASE Measured
  <2>1. /\ kind = "compressed" /\ measuring /\ ~measuring' /\ pc \in {"moved", "stuck"}
        /\ UNCHANGED <<kind, call, from, known>>
    BY <1>1, <1>5 DEF Measured, Phases, Using, Beginning
  <2>2. CASE call.op = "seek" /\ known # -1 /\ MayMoveTo(Target(call, cpos, known))
    <3>1. call \in Calls /\ call.whence = "end" /\ call.off \in Int /\ from \in 0..PlainSize
      BY <1>1, <2>1, <2>2, CallsAssumption DEF Roles, Typed
    <3>2. Target(call, cpos, known) = known + call.off /\ known \in Int
      BY <1>1, <3>1 DEF Target, Typed
    <3>3. PICK target \in Nat : target = Target(call, cpos, known)
      BY <2>2, <3>1, <3>2 DEF MayMoveTo
    <3>4. Moved(target)
      BY <1>1, <1>5, <2>2, <3>3, MoveIs DEF Measured
    <3>5. Healthy' => target = Goal'
      BY <1>1, <2>1, <2>2, <3>1, <3>2, <3>3 DEF Goal, Settled, Target
    <3>6. Aims'
      BY <1>1, <2>1, <3>1, <3>4, <3>5, MovedAims
    <3>7. pc' \in {"skip", "moved", "init"}
      BY <3>4 DEF Moved
    <3>8. Roles'
      BY <1>1, <2>1, <2>2, <3>1, <3>7 DEF Roles, Delivers, Delivery, Beginning
    <3> QED
      BY <3>6, <3>8
  <2>3. CASE ~(call.op = "seek" /\ known # -1 /\ MayMoveTo(Target(call, cpos, known)))
    <3>1. pc' = "idle"
      BY <1>5, <2>3 DEF Measured
    <3> QED
      BY <2>1, <3>1, IdleAims
  <2> QED
    BY <2>2, <2>3
<1> QED
  BY <1>2, <1>3, <1>4, <1>5

(* Calls that begin. *)
LEMMA CallingAims ==
  ASSUME RefInv, NothingTrails, SeekFaults = FALSE, RestartFaults = FALSE, [DsNext]_vars,
         NEW c \in Calls, PlainCall(c) \/ Read(c) \/ Seek(c) \/ GetSize(c)
  PROVE  Roles' /\ Aims'
<1>1. /\ Roles /\ Aims /\ (Healthy' => Healthy) /\ PlainSize' = PlainSize /\ Phases /\ Typed
      /\ DsInv /\ Results /\ Settled /\ Decoded' /\ Typed' /\ Working
      /\ PlainSize \in Nat /\ cpos \in Nat /\ cpos <= PlainSize /\ known \in Int
  BY StepFacts DEF RefInv, DsInv, Typed, Decoded
<1>2. pc = "idle" /\ ~measuring
  BY <1>1 DEF PlainCall, Read, Seek, GetSize, Roles
<1>3. CASE PlainCall(c)
  <2>1. kind' # "compressed" /\ ~measuring'
    BY <1>2, <1>3 DEF PlainCall
  <2> QED
    BY <2>1 DEF Roles, Aims
<1>4. CASE Read(c)
  <2>1. /\ kind = "compressed" /\ pc \in Using /\ c.op = "read" /\ call' = c /\ from' = cpos
        /\ task' = "read" /\ BeginRead(c.count) /\ UNCHANGED <<kind, known, measuring>>
    BY <1>4 DEF Read, Using
  <2>2. Waiting
    BY <1>1, <2>1 DEF Results
  <2>3. PICK count \in Nat : count = c.count
    BY <2>1, CallsAssumption
  <2>4. /\ Len(data') + rest' = count /\ cpos' = cpos + Len(data')
        /\ data' = Run(cpos, Len(data'))
        /\ pc' = "returned" /\ Healthy' => rest' = 0 \/ cpos' = PlainSize
        /\ pc' \in {"returned", "fetch"}
    BY <1>1, <2>1, <2>2, <2>3, BegunAims
  <2>5. Roles'
    BY <1>1, <1>2, <2>1, <2>4 DEF Roles, Delivers, Delivery, Beginning
  <2>6. Aims'
    BY <1>1, <2>1, <2>3, <2>4 DEF Aims, Delivers, Delivery, Beginning
  <2> QED
    BY <2>5, <2>6
<1>5. CASE Seek(c)
  <2>1. /\ kind = "compressed" /\ c.op = "seek" /\ call' = c /\ from' = cpos
        /\ UNCHANGED <<kind, known>>
        /\ c.off \in Int /\ c.whence \in {"set", "cur", "end"}
    BY <1>1, <1>5, CallsAssumption DEF Seek
  <2>2. CASE c.whence = "end" /\ known = -1
    <3>1. measuring' /\ pc' = "measure"
      BY <1>5, <2>2 DEF Seek
    <3>2. Roles'
      BY <1>1, <2>1, <2>2, <3>1 DEF Roles, Delivers, Delivery, Beginning
    <3> QED
      BY <3>1, <3>2 DEF Aims, Delivers, Delivery, Beginning
  <2>3. CASE ~(c.whence = "end" /\ known = -1) /\ MayMoveTo(Target(c, cpos, known))
    <3>1. Target(c, cpos, known) \in Int
      BY <1>1, <2>1, TargetIs
    <3>2. PICK target \in Nat : target = Target(c, cpos, known)
      BY <2>3, <3>1 DEF MayMoveTo
    <3>3. Moved(target) /\ ~measuring'
      BY <1>1, <1>2, <1>5, <2>3, <3>2, MoveIs DEF Seek
    <3>4. Healthy' \/ c.whence # "end" => target = Goal'
      BY <1>1, <2>1, <2>3, <3>2, <3>3 DEF Goal, Settled, Target
    <3>5. Aims'
      BY <1>1, <2>1, <3>3, <3>4, MovedAims
    <3>6. pc' \in {"skip", "moved", "init"}
      BY <3>3 DEF Moved
    <3>7. Roles'
      BY <1>1, <2>1, <3>3, <3>6 DEF Roles, Delivers, Delivery, Beginning
    <3> QED
      BY <3>5, <3>7
  <2>4. CASE ~(c.whence = "end" /\ known = -1) /\ ~MayMoveTo(Target(c, cpos, known))
    <3>1. pc' = "idle" /\ ~measuring'
      BY <1>2, <1>5, <2>4 DEF Seek
    <3> QED
      BY <3>1, IdleAims
  <2> QED
    BY <2>2, <2>3, <2>4
<1>6. CASE GetSize(c)
  <2>1. CASE kind = "compressed" /\ c.force /\ known = -1
    <3>1. /\ measuring' /\ pc' = "measure" /\ kind' = kind /\ call' = c /\ from' = cpos
          /\ c.op = "size"
      BY <1>6, <2>1 DEF GetSize
    <3>2. Roles'
      BY <1>1, <2>1, <3>1 DEF Roles, Delivers, Delivery, Beginning
    <3> QED
      BY <3>1, <3>2 DEF Aims, Delivers, Delivery, Beginning
  <2>2. CASE ~(kind = "compressed" /\ c.force /\ known = -1)
    <3>1. pc' = "idle" /\ ~measuring'
      BY <1>2, <1>6, <2>2 DEF GetSize
    <3> QED
      BY <3>1, IdleAims
  <2> QED
    BY <2>1, <2>2
<1> QED
  BY <1>3, <1>4, <1>5, <1>6

(* The source underneath goes on. *)
LEMMA FrameAims ==
  ASSUME RefInv, NothingTrails, SeekFaults = FALSE, RestartFaults = FALSE, [DsNext]_vars,
         Reading \/ UNCHANGED vars
  PROVE  Roles' /\ Aims'
<1>1. /\ Roles /\ Aims /\ (Healthy' => Healthy) /\ PlainSize' = PlainSize
  BY StepFacts DEF RefInv
<1>2. UNCHANGED <<kind, pc, call, from, measuring, known, delta, task, cpos, data, rest>>
  BY DEF Reading, vars, client, reading
<1>3. Goal' = Goal
  BY <1>1, <1>2 DEF Goal
<1>4. Roles'
  BY <1>1, <1>2 DEF Roles, Delivers, Delivery, Beginning
<1>5. Aims'
  BY <1>1, <1>2, <1>3 DEF Aims, Aimed, Delivers, Delivery, Beginning
<1> QED
  BY <1>4, <1>5

(* A call is passed on to the buffered source ... *)
LEMMA ServedBegins ==
  ASSUME RefInv, NothingTrails, SeekFaults = FALSE, RestartFaults = FALSE, [DsNext]_vars,
         NEW c \in Calls, PlainCall(c)
  PROVE  Served'
<1>1. /\ BCall(c) /\ call' = c /\ from' = Position /\ Inv /\ Inv' /\ fsize' = fsize
      /\ c.op = "read" \/ c.op = "seek"
  BY StepFacts, SourceKeeps DEF PlainCall, RefInv, DsInv, BCall
<1>2. Position \in 0..fsize /\ fsize \in Nat
  BY <1>1, CommittedNow DEF Positions, Inv, Placed
<1>3. PICK p \in Nat : p = Position
  BY <1>2
<1>4. Serving' => bcall' = c
  BY <1>1, CallKeeps DEF Serving
<1>5. CASE c.op = "read"
  <2>1. BRead(c.count) /\ c.count \in Nat /\ c = ReadCall(c.count)
    BY <1>1, <1>5, CallsAssumption DEF BCall
  <2>2. ReadFrom(p, c.count)'
    BY <1>1, <1>3, <2>1, ReadStarts
  <2>3. ReadFrom(from, call.count)'
    BY <1>1, <1>3, <2>2 DEF ReadFrom
  <2>4. ~Serving' => breply' = Answer(c, 0, <<>>)
    BY <2>1 DEF BRead, Returns, Serving
  <2>5. ~Serving' => breply' = Answer(c, breply'.value, breply'.data)
    BY <2>4 DEF Answer
  <2> QED
    BY <1>1, <1>2, <1>4, <1>5, <2>3, <2>5 DEF Served, Answer
<1>6. CASE c.op = "seek"
  <2>1. /\ BSeek(c.off, c.whence) /\ c.off \in Int /\ c.whence \in {"set", "cur", "end"}
        /\ c = SeekCall(c.off, c.whence)
    BY <1>1, <1>6, CallsAssumption DEF BCall
  <2>2. Target(c, Position, fsize) \in Int
    BY <1>2, <2>1 DEF Target
  <2>3. PICK target \in Int : target = Target(c, Position, fsize)
    BY <2>2
  <2>4. /\ want' = 0
        /\ \/ /\ target \in 0..fsize /\ Position' = target /\ faults' = faults
              /\ breply' = Answer(c, target, <<>>)
           \/ /\ breply' = Failure(c)
              /\ (target \notin 0..fsize /\ faults' = faults) \/ faults' = faults + 1
    BY <1>1, <2>1, <2>3, SeekLeads
  <2>5. faults \in Nat /\ ~Serving'
    BY <1>1, <2>4 DEF Inv, Placed, Serving
  <2>6. Target(call', from', fsize') = target
    BY <1>1, <2>3
  <2>7. CASE target \in 0..fsize /\ Position' = target /\ breply' = Answer(c, target, <<>>)
    <3>1. Sought(Target(call, from, fsize))'
      BY <2>5, <2>6, <2>7 DEF Sought, Answer
    <3> QED
      BY <1>1, <1>2, <1>6, <2>5, <2>6, <2>7, <3>1 DEF Served
  <2>8. CASE /\ breply' = Failure(c)
             /\ target \in 0..fsize => faults' = faults + 1
    BY <1>1, <1>2, <1>6, <2>5, <2>6, <2>8 DEF Served
  <2> QED
    BY <2>4, <2>7, <2>8
<1> QED
  BY <1>1, <1>5, <1>6

(* ... which works at it, and answers. *)
LEMMA ServedGoesOn ==
  ASSUME RefInv, NothingTrails, SeekFaults = FALSE, RestartFaults = FALSE, [DsNext]_vars,
         Reading
  PROVE  Served'
<1>1. /\ BStep /\ Inv /\ Inv' /\ fsize' = fsize /\ Served
      /\ UNCHANGED <<kind, pc, call, from>>
  BY StepFacts, SourceKeeps DEF Reading, RefInv, DsInv, client
<1>2. Serving /\ bcall' = bcall
  BY <1>1 DEF BStep, CopyBuffered, RefillAndCopy, RefillFails
<1>3. /\ faults \in Nat /\ faults' \in Nat /\ faults <= faults'
  BY FaultsGrow DEF RefInv
<1>4. SUFFICES ASSUME kind = "plain", pc = "served"
               PROVE  Served'
  BY <1>1 DEF Served
<1>5. /\ call.op = "read" /\ ReadFrom(from, call.count) /\ bcall = call
      /\ call \in Calls /\ from \in 0..fsize /\ fsize \in Nat
  BY <1>1, <1>2, <1>4 DEF Served, Sought, Inv, Placed
<1>6. PICK p \in Nat : p = from
  BY <1>5
<1>7. PICK count \in Nat : count = call.count
  BY <1>5, CallsAssumption
<1>8. \/ ReadFrom(p, count)'
      \/ ~Serving' /\ breply' = Failure(bcall) /\ faults' # faults
  BY <1>1, <1>5, <1>6, <1>7, ReadGoesOn
<1>9. ~Serving' => breply' = Answer(call, breply'.value, breply'.data)
  <2>1. ~Serving' => \/ breply' = Answer(call, Len(got'), got')
                     \/ breply' = Failure(call)
    <3>1. ASSUME NEW n \in Nat, n <= want, want > 0, Copied(n, Position), want' = 0
          PROVE  breply' = Answer(call, Len(got'), got')
      <4>1. want \in Nat
        BY <1>1 DEF Inv, InProgress
      <4>2. n = want \/ n = 0
        BY <3>1, <4>1 DEF Copied
      <4> QED
        BY <1>5, <3>1, <4>2 DEF Copied, Returns
    <3>2. CASE RefillFails
      BY <1>5, <3>2 DEF RefillFails, Fails
    <3>3. want' \in Nat
      BY <1>1 DEF Inv, InProgress
    <3> QED
      BY <1>1, <3>1, <3>2, <3>3, StepCopies DEF Serving
  <2> QED
    BY <2>1 DEF Answer, Failure
<1>10. CASE ReadFrom(p, count)'
  <2>1. ReadFrom(from, call.count)'
    BY <1>1, <1>6, <1>7, <1>10 DEF ReadFrom
  <2> QED
    BY <1>1, <1>2, <1>5, <1>9, <2>1 DEF Served, Answer
<1>11. CASE ~Serving' /\ breply' = Failure(bcall) /\ faults' # faults
  <2>1. faults' > 0
    BY <1>3, <1>11
  <2> QED
    BY <1>1, <1>2, <1>5, <1>11, <2>1 DEF Served
<1> QED
  BY <1>8, <1>10, <1>11

(* The other steps do not serve a call. *)
LEMMA ServedKept ==
  ASSUME RefInv, NothingTrails, SeekFaults = FALSE, RestartFaults = FALSE, [DsNext]_vars
  PROVE  Served'
<1>1. CASE Reading
  BY <1>1, ServedGoesOn
<1>2. ASSUME NEW c \in Calls, PlainCall(c) PROVE Served'
  BY <1>2, ServedBegins
<1>3. CASE UNCHANGED vars
  BY <1>3 DEF vars, bvars, client, RefInv, Served, ReadFrom, Sought, Serving, Position
<1>4. ASSUME NEW c \in Calls, Read(c) \/ Seek(c) \/ GetSize(c) PROVE Served'
  <2>1. kind' # "plain" \/ pc' # "served"
    BY <1>4 DEF Read, Seek, GetSize
  <2> QED
    BY <2>1 DEF Served
<1>5. CASE \/ Probe \/ ProbeRead \/ Probed
           \/ InitDecompressor \/ ReadHeader \/ HeaderParsed \/ SeekField \/ ReadField
           \/ ReportField \/ Rewind \/ DecompressorReady \/ InitFails
  <2>1. pc' # "served"
    BY <1>5 DEF Probe, ProbeRead, Probed, InitDecompressor, ReadHeader, HeaderParsed,
      SeekField, ReadField, ReportField, Rewind, DecompressorReady, InitFails, Calling
  <2> QED
    BY <2>1 DEF Served
<1>6. CASE \/ Fetch \/ FetchFails \/ FetchedNothing \/ Inflate \/ GiveBack \/ GiveBackFails
           \/ CopyResult \/ Skip \/ Skipped
           \/ PlainReturn \/ ReadReturn \/ SeekReturn \/ Measure \/ Restore \/ Measured
  <2>1. pc' # "served"
    <3>1. ASSUME NEW target, Move(target) PROVE pc' # "served"
      BY <3>1 DEF Move
    <3>2. ASSUME NEW count, BeginRead(count) PROVE pc' # "served"
      BY <3>2, BeginReadPhase
    <3>3. CASE \/ Fetch \/ FetchFails \/ FetchedNothing \/ Inflate \/ GiveBack \/ GiveBackFails
               \/ CopyResult
      BY <3>3 DEF Fetch, FetchFails, FetchedNothing, Inflate, GiveBack,
        GiveBackFails, CopyResult, Calling, Decompress
    <3>4. CASE Skip \/ Measure
      BY <3>2, <3>4 DEF Skip, Measure
    <3>5. CASE Restore \/ Measured
      BY <3>1, <3>5 DEF Restore, Measured
    <3>6. CASE Skipped \/ PlainReturn \/ ReadReturn \/ SeekReturn
      BY <3>6 DEF Skipped, PlainReturn, ReadReturn, SeekReturn
    <3> QED
      BY <1>6, <3>3, <3>4, <3>5, <3>6
  <2> QED
    BY <2>1 DEF Served
<1>7. CASE Destroy
  BY <1>7 DEF Destroy, Served
<1> QED
  BY <1>1, <1>2, <1>3, <1>4, <1>5, <1>6, <1>7 DEF DsNext, Work, Reading

(* Nobody is answered before the source is there. *)
LEMMA OpeningQuiet ==
  ASSUME DsInv, [DsNext]_vars, kind = "opening"
  PROVE  /\ reply' = reply
         /\ kind' \in {"opening", "closed"} \/ Probed \/ DecompressorReady
<1>1. pc \in {"probe", "magic", "probed", "init"} \cup Beginning
  BY DEF DsInv, Phases
<1> QED
  BY <1>1
  DEF DsNext, Work, Probe, ProbeRead, Probed, InitDecompressor, ReadHeader, HeaderParsed,
    SeekField, ReadField, ReportField, Rewind, DecompressorReady, InitFails, Fetch, FetchFails,
    FetchedNothing, Inflate, GiveBack, GiveBackFails, CopyResult, Skip, Skipped, PlainReturn,
    ReadReturn, SeekReturn, Measure, Restore, Measured, Calling, PlainCall, Read, Seek, GetSize,
    Destroy, vars, client, Beginning

(* A source is created once. *)
LEMMA OpenedOnce ==
  ASSUME DsInv, [DsNext]_vars
  PROVE  /\ kind' = "opening" => kind = "opening"
         /\ kind = "closed" => kind' = "closed"
         /\ kind' \in {"plain", "compressed"} => kind' = kind \/ kind = "opening"
<1>1. \/ kind = "opening" /\ pc \in {"probe", "magic", "probed", "init"} \cup Beginning
      \/ kind # "opening" /\ pc \notin {"probe", "magic", "probed"}
  BY DEF DsInv, Phases, Beginning, Using
<1>2. kind' = kind \/ Probed \/ ReportField \/ DecompressorReady \/ InitFails \/ Destroy
  <2>1. CASE Work
    BY <2>1 DEF Work, Probe, ProbeRead, InitDecompressor, ReadHeader, HeaderParsed,
      SeekField, ReadField, Rewind, Fetch, FetchFails,
      FetchedNothing, Inflate, GiveBack, GiveBackFails, CopyResult, Skip, Skipped, PlainReturn,
      ReadReturn, SeekReturn, Measure, Restore, Measured, Calling
  <2>2. ASSUME NEW c \in Calls, PlainCall(c) \/ Read(c) \/ Seek(c) \/ GetSize(c)
        PROVE  kind' = kind
    BY <2>2 DEF PlainCall, Read, Seek, GetSize
  <2> QED
    BY <2>1, <2>2 DEF DsNext, vars
<1>3. Probed => kind = "opening"
  BY <1>1 DEF Probed
<1>4. ReportField \/ DecompressorReady \/ InitFails =>
        kind' = kind \/ kind = "opening"
  BY DEF ReportField, DecompressorReady, InitFails
<1>5. Destroy => kind \in {"plain", "compressed"} /\ kind' = "closed"
  BY DEF Destroy
<1>6. Probed => kind' \in {"plain", "opening"}
  BY <1>3 DEF Probed
<1> QED
  BY <1>2, <1>3, <1>4, <1>5, <1>6

(* What can happen to a source that is read from the file as it is. *)
LEMMA PlainSteps ==
  ASSUME DsInv, [DsNext]_vars, kind = "plain"
  PROVE  \/ Reading \/ PlainReturn \/ Destroy \/ UNCHANGED vars
         \/ \E c \in Calls : PlainCall(c) \/ GetSize(c)
<1>1. pc \in {"idle", "served"}
  BY DEF DsInv, Phases
<1> QED
  BY <1>1
  DEF DsNext, Work, Probe, ProbeRead, Probed, InitDecompressor, ReadHeader, HeaderParsed,
    SeekField, ReadField, ReportField, Rewind, DecompressorReady, InitFails, Fetch, FetchFails,
    FetchedNothing, Inflate, GiveBack, GiveBackFails, CopyResult, Skip, Skipped,
    ReadReturn, SeekReturn, Measure, Restore, Measured, Calling, Read, Seek, Reading

LEMMA FreshKept ==
  ASSUME DsInv, Fresh, [DsNext]_vars
  PROVE  Fresh'
<1>1. kind' = "opening" => reply' = NoReply
  BY OpeningQuiet, OpenedOnce DEF Fresh
<1>2. ASSUME kind' \in {"opening", "plain"}, pc' \in {"probe", "magic", "idle"}
      PROVE  ~Serving'
  <2>1. CASE kind = "opening"
    <3>1. pc \in {"probe", "magic", "probed", "init"} \cup Beginning
      BY <2>1 DEF DsInv, Phases
    <3>2. Probe \/ Probed \/ Reading \/ UNCHANGED vars
      BY <1>2, <2>1, <3>1
      DEF DsNext, Work, ProbeRead, InitDecompressor, ReadHeader, HeaderParsed,
        SeekField, ReadField, ReportField, Rewind, DecompressorReady, InitFails, Fetch, FetchFails,
        FetchedNothing, Inflate, GiveBack, GiveBackFails, CopyResult, Skip, Skipped, PlainReturn,
        ReadReturn, SeekReturn, Measure, Restore, Measured, Calling, PlainCall, Read, Seek, GetSize,
        Destroy, Beginning, Reading
    <3>3. CASE Probe
      BY <3>3 DEF Probe, BSeek, Serving
    <3>4. CASE Probed
      <4>1. ~Serving /\ want' = want
        BY <2>1, <3>4 DEF Probed, Fresh, bvars
      <4> QED
        BY <4>1 DEF Serving
    <3>5. CASE Reading
      BY <1>2, <2>1, <3>5
      DEF Reading, BStep, CopyBuffered, RefillAndCopy, RefillFails, Fresh
    <3>6. CASE UNCHANGED vars
      BY <1>2, <2>1, <3>6 DEF vars, bvars, Fresh, Serving
    <3> QED
      BY <3>2, <3>3, <3>4, <3>5, <3>6
  <2>2. CASE kind = "plain"
    <3>1. CASE Reading
      BY <1>2, <2>2, <3>1
      DEF Reading, BStep, CopyBuffered, RefillAndCopy, RefillFails, Fresh
    <3>2. CASE PlainReturn
      BY <3>2 DEF PlainReturn, bvars, Serving
    <3>3. CASE UNCHANGED vars
      BY <1>2, <2>2, <3>3 DEF vars, bvars, Fresh, Serving
    <3>4. ASSUME NEW c \in Calls, PlainCall(c) \/ GetSize(c) PROVE ~Serving'
      BY <1>2, <2>2, <3>4 DEF PlainCall, GetSize, bvars, Fresh, Serving
    <3>5. ~Destroy
      BY <1>2 DEF Destroy
    <3> QED
      BY <2>2, <3>1, <3>2, <3>3, <3>4, <3>5, PlainSteps
  <2> QED
    BY <1>2, <2>1, <2>2, OpenedOnce
<1> QED
  BY <1>1, <1>2 DEF Fresh

LEMMA RefInvInit == DsInit => RefInv
<1> SUFFICES ASSUME DsInit PROVE RefInv
  OBVIOUS
<1>1. DsInv
  BY DsInvInit
<1>2. kind = "opening" /\ known = -1 /\ ~measuring /\ reply = NoReply
  BY DEF DsInit
<1>3. ~Serving
  BY DEF DsInit, BInit, Serving
<1> QED
  BY <1>1, <1>2, <1>3 DEF RefInv, Working, Settled, Roles, Aims, Served, Fresh

LEMMA RefInvKept ==
  ASSUME RefInv, NothingTrails, SeekFaults = FALSE, RestartFaults = FALSE, [DsNext]_vars
  PROVE  RefInv'
<1>1. DsInv' /\ Working' /\ Settled'
  BY StepFacts
<1>2. Served' /\ Fresh'
  BY ServedKept, FreshKept DEF RefInv
<1>3. Roles' /\ Aims'
  BY StartingAims, DeliveringAims, SkippingAims, ReturningAims, CallingAims, FrameAims
  DEF DsNext, Work, Reading
<1> QED
  BY <1>1, <1>2, <1>3 DEF RefInv

-----------------------------------------------------------------------------
(* The steps of Content, with what the clients can see of the source. *)

Offered == kind \in {"plain", "compressed"}
Extent  == IF kind = "plain" THEN fsize ELSE PlainSize
Offset  == IF pc # "idle" \/ kind = "closed" THEN from
           ELSE IF kind = "plain" THEN Position ELSE cpos

Counted == faults \in Nat /\ faults' \in Nat

(* Nothing that a client can see changes. *)
LEMMA ContentStays ==
  ASSUME Counted, UNCHANGED <<Offered, Extent, Offset, reply>>, Healthy' => Healthy
  PROVE  [Content!Next]_(Content!vars)
<1>1. CASE ~Healthy'
  BY <1>1 DEF Counted, Healthy, Offered, Extent, Offset, Content!Next, Content!Trouble
<1>2. CASE Healthy'
  BY <1>2 DEF Counted, Healthy, Offered, Extent, Offset, Content!vars
<1> QED
  BY <1>1, <1>2

(* The source is created, or is not there, or no longer. *)
LEMMA ContentOpens ==
  ASSUME ~Offered, Offered' => Offset' \in 0..Extent' /\ reply' = NoReply
  PROVE  Content!Next
BY DEF Offered, Extent, Offset, Content!Next, Content!Open, Content!NoReply, Content!Answer,
       NoReply, Answer

LEMMA ContentCloses ==
  ASSUME Offered, ~Offered'
  PROVE  Content!Next
BY DEF Offered, Content!Next, Content!Close

LEMMA ContentServes ==
  ASSUME Counted, Offered, Offered', Extent' = Extent, Healthy' => Healthy, NEW c \in Calls,
         \/ Content!Read(c) \/ Content!ReadFails(c)
         \/ Content!Seek(c) \/ Content!SeekFails(c)
         \/ Content!GetSize(c)
  PROVE  Content!Next
BY DEF Counted, Offered, Extent, Healthy, Content!Next

LEMMA ContentReads ==
  ASSUME Counted, NEW c, c.op = "read", NEW n \in Nat, n <= Lesser(c.count, Extent - Offset),
         n # Lesser(c.count, Extent - Offset) => ~Healthy',
         Lesser(c.count, Extent - Offset) \in Nat,
         reply' = Answer(c, n, Run(Offset, n)), Offset' = Offset + n
  PROVE  Content!Read(c)
<1>1. n \in 0..Lesser(c.count, Extent - Offset)
  OBVIOUS
<1> QED
  BY <1>1
  DEF Counted, Extent, Offset, Healthy, Content!Read, Content!Suffices, Content!Lesser,
      Content!Run, Content!Answer, Lesser, Run, Answer

LEMMA ContentReadFails ==
  ASSUME Counted, NEW c, c.op = "read", ~Healthy', reply' = Failure(c), Offset' \in 0..Extent
  PROVE  Content!ReadFails(c)
BY DEF Counted, Extent, Offset, Healthy, Content!ReadFails, Failure, Answer

LEMMA ContentSeeks ==
  ASSUME Counted, NEW c, c.op = "seek", Offset' \in 0..Extent,
         \/ Offset' = Target(c, Offset, Extent)
         \/ c.whence = "end" /\ ~Healthy',
         reply' = Answer(c, Offset', <<>>)
  PROVE  Content!Seek(c)
<1>1. Content!Target(c, Offset, Extent) = Target(c, Offset, Extent)
  BY Zenon DEF Content!Target, Target
<1> QED
  BY <1>1 DEF Counted, Extent, Offset, Healthy, Content!Seek, Content!Answer, Answer

LEMMA ContentSeekFails ==
  ASSUME Counted, NEW c, c.op = "seek", Offset' \in 0..Extent,
         Target(c, Offset, Extent) \in 0..Extent => ~Healthy',
         reply' = Failure(c)
  PROVE  Content!SeekFails(c)
<1>1. Content!Target(c, Offset, Extent) = Target(c, Offset, Extent)
  BY Zenon DEF Content!Target, Target
<1> QED
  BY <1>1 DEF Counted, Extent, Offset, Healthy, Content!SeekFails, Content!Failure,
    Content!Answer, Failure, Answer

LEMMA ContentSizes ==
  ASSUME Counted, NEW c, c.op = "size", Offset' \in 0..Extent,
         Offset' # Offset => ~Healthy',
         NEW n \in Int, reply' = Answer(c, n, <<>>),
         \/ n = Extent
         \/ n = -1 /\ (c.force => ~Healthy')
         \/ n \in 0..Extent /\ ~Healthy'
  PROVE  Content!GetSize(c)
BY DEF Counted, Extent, Offset, Healthy, Content!GetSize, Content!Unknown,
       Content!Answer, Answer

-----------------------------------------------------------------------------
(* What the steps below need to know of the invariant. *)
LEMMA Stepping ==
  ASSUME RefInv, NothingTrails, SeekFaults = FALSE, RestartFaults = FALSE, [DsNext]_vars
  PROVE  /\ RefInv' /\ Counted /\ (Healthy' => Healthy)
         /\ PlainSize' = PlainSize /\ PlainSize \in Nat /\ fsize' = fsize /\ fsize \in Nat
         /\ Position \in 0..fsize /\ Position' \in 0..fsize
         /\ cpos \in 0..PlainSize /\ cpos' \in 0..PlainSize
         /\ kind = "compressed" /\ pc # "idle" => from \in 0..PlainSize /\ call \in Calls
<1>1. RefInv' /\ DsInv /\ DsInv' /\ fsize' = fsize
  BY RefInvKept, SourceKeeps DEF RefInv
<1>2. fsize \in Nat /\ Position \in 0..fsize /\ Position' \in 0..fsize
  BY <1>1, CommittedNow DEF DsInv, Inv, Placed, Positions
<1>3. kind = "compressed" /\ pc # "idle" => from \in 0..PlainSize /\ call \in Calls
  BY <1>1 DEF RefInv, Roles, DsInv, Typed
<1>4. cpos \in 0..PlainSize /\ cpos' \in 0..PlainSize /\ PlainSize' = PlainSize
  <2>1. Typed /\ Typed' /\ Decoded /\ Decoded' /\ PlainSize' = PlainSize /\ PlainSize \in Nat
    BY StepFacts
  <2> QED
    BY <2>1 DEF Typed, Decoded
<1> QED
  BY <1>1, <1>2, <1>3, <1>4, StepFacts, FaultsGrow DEF Counted

(* Creating and destroying a source. *)
LEMMA OpensContent ==
  ASSUME RefInv, NothingTrails, SeekFaults = FALSE, RestartFaults = FALSE, [DsNext]_vars,
         ~Offered
  PROVE  [Content!Next]_(Content!vars)
<1>1. ASSUME Offered' PROVE Offset' \in 0..Extent' /\ reply' = NoReply
  <2>1. kind = "opening" /\ DsInv /\ reply = NoReply
    BY <1>1, OpenedOnce DEF Offered, RefInv, Fresh
  <2>2. reply' = NoReply /\ (Probed \/ DecompressorReady)
    BY <1>1, <2>1, OpeningQuiet DEF Offered
  <2>3. pc' = "idle"
    BY <1>1, <2>1, <2>2 DEF Probed, DecompressorReady, Offered
  <2>4. /\ fsize' = fsize /\ PlainSize' = PlainSize
        /\ Position' \in 0..fsize /\ cpos' \in 0..PlainSize
    BY Stepping
  <2>5. Offset' \in 0..Extent'
    BY <1>1, <2>3, <2>4 DEF Offset, Extent, Offered
  <2> QED
    BY <2>2, <2>5
<1> QED
  BY <1>1, ContentOpens

(* A file as it is. *)
LEMMA PlainContent ==
  ASSUME RefInv, NothingTrails, SeekFaults = FALSE, RestartFaults = FALSE, [DsNext]_vars,
         kind = "plain"
  PROVE  [Content!Next]_(Content!vars)
<1>1. /\ Counted /\ (Healthy' => Healthy) /\ fsize' = fsize /\ fsize \in Nat
      /\ Position \in 0..fsize /\ Position' \in 0..fsize /\ DsInv /\ Served /\ Fresh
  BY Stepping DEF RefInv
<1>2. Offered /\ Extent = fsize
  BY DEF Offered, Extent
<1>3. CASE Reading
  <2>1. UNCHANGED <<kind, pc, from, reply, cpos>> /\ Serving
    BY <1>3 DEF Reading, client, BStep, CopyBuffered, RefillAndCopy, RefillFails
  <2>2. pc # "idle"
    BY <2>1, <1>1 DEF Fresh
  <2>3. UNCHANGED <<Offered, Extent, Offset, reply>>
    BY <1>1, <2>1, <2>2 DEF Offered, Extent, Offset
  <2> QED
    BY <1>1, <2>3, ContentStays
<1>4. CASE UNCHANGED vars
  <2>1. UNCHANGED <<kind, pc, from, reply, cpos>> /\ Position' = Position
    BY <1>4 DEF vars, client, bvars, Position
  <2>2. UNCHANGED <<Offered, Extent, Offset, reply>>
    BY <1>1, <2>1 DEF Offered, Extent, Offset
  <2> QED
    BY <1>1, <2>2, ContentStays
<1>5. CASE Destroy
  BY <1>2, <1>5, ContentCloses DEF Destroy, Offered
<1>6. ASSUME NEW c \in Calls, PlainCall(c) PROVE [Content!Next]_(Content!vars)
  <2>1. /\ pc = "idle" /\ pc' = "served" /\ from' = Position /\ UNCHANGED <<kind, reply>>
    BY <1>6 DEF PlainCall
  <2>2. UNCHANGED <<Offered, Extent, Offset, reply>>
    BY <1>1, <2>1 DEF Offered, Extent, Offset
  <2> QED
    BY <1>1, <2>2, ContentStays
<1>7. ASSUME NEW c \in Calls, GetSize(c) PROVE [Content!Next]_(Content!vars)
  <2>1. /\ pc = "idle" /\ pc' = "idle" /\ kind' = kind /\ c.op = "size" /\ UNCHANGED bvars
        /\ reply' = Answer(c, fsize, <<>>)
    BY <1>7 DEF GetSize
  <2>2. Offset' = Offset /\ Offset \in 0..Extent /\ Extent' = Extent /\ Offered'
    BY <1>1, <2>1 DEF Offset, Extent, Offered, bvars, Position
  <2>3. fsize \in Int
    BY <1>1
  <2>4. Content!GetSize(c)
    BY <1>1, <1>2, <2>1, <2>2, <2>3, ContentSizes
  <2> QED
    BY <1>1, <1>2, <2>2, <2>4, ContentServes
<1>8. CASE PlainReturn
  <2>1. /\ pc = "served" /\ ~Serving /\ reply' = breply /\ pc' = "idle"
        /\ UNCHANGED <<kind, faults>> /\ UNCHANGED bvars
    BY <1>8 DEF PlainReturn, bvars
  <2>2. /\ Offset = from /\ Offset' = Position /\ Position' = Position
        /\ Extent' = Extent /\ Offered'
    BY <1>1, <2>1 DEF Offset, Extent, Offered, bvars, Position
  <2>3. call \in Calls /\ from \in 0..fsize
    BY <1>1, <2>1 DEF Served
  <2>4. faults > 0 => ~Healthy'
    BY <2>1, <1>1 DEF Healthy, Counted
  <2>5. CASE /\ call.op = "read" /\ ReadFrom(from, call.count)
             /\ breply = Answer(call, breply.value, breply.data)
    <3>1. PICK n : n = breply.value
      OBVIOUS
    <3>2. n = Lesser(call.count, fsize - from) /\ breply.data = Run(from, n)
          /\ Position = from + n
      BY <2>1, <2>5, <3>1 DEF ReadFrom
    <3>3. n \in Nat
      BY <1>1, <2>3, <2>5, <3>2, CallsAssumption DEF Lesser
    <3>4. Content!Read(call)
      BY <1>1, <1>2, <2>1, <2>2, <2>5, <3>1, <3>2, <3>3, ContentReads
    <3> QED
      BY <1>1, <1>2, <2>2, <2>3, <3>4, ContentServes
  <2>6. CASE call.op = "read" /\ faults > 0 /\ breply = Failure(call)
    <3>1. Content!ReadFails(call)
      BY <1>1, <1>2, <2>1, <2>2, <2>4, <2>6, ContentReadFails
    <3> QED
      BY <1>1, <1>2, <2>2, <2>3, <3>1, ContentServes
  <2>7. CASE /\ call.op = "seek" /\ Sought(Target(call, from, fsize))
             /\ breply = Answer(call, Target(call, from, fsize), <<>>)
    <3>1. Offset' = Target(call, Offset, Extent)
      BY <1>2, <2>2, <2>7 DEF Sought
    <3>2. Content!Seek(call)
      BY <1>1, <1>2, <2>1, <2>2, <2>7, <3>1, ContentSeeks
    <3> QED
      BY <1>1, <1>2, <2>2, <2>3, <3>2, ContentServes
  <2>8. CASE /\ call.op = "seek" /\ breply = Failure(call)
             /\ Target(call, from, fsize) \in 0..fsize => faults > 0
    <3>1. Content!SeekFails(call)
      BY <1>1, <1>2, <2>1, <2>2, <2>4, <2>8, ContentSeekFails
    <3> QED
      BY <1>1, <1>2, <2>2, <2>3, <3>1, ContentServes
  <2> QED
    BY <1>1, <2>1, <2>5, <2>6, <2>7, <2>8 DEF Served
<1> QED
  BY <1>1, <1>3, <1>4, <1>5, <1>6, <1>7, <1>8, PlainSteps

-----------------------------------------------------------------------------
(* A compressed file. *)

(* A call begins, or goes on. *)
LEMMA QuietContent ==
  ASSUME RefInv, NothingTrails, SeekFaults = FALSE, RestartFaults = FALSE, [DsNext]_vars,
         kind = "compressed", kind' = kind, reply' = reply,
         pc' # "idle", IF pc = "idle" THEN from' = cpos ELSE from' = from
  PROVE  [Content!Next]_(Content!vars)
<1>1. UNCHANGED <<Offered, Extent, Offset, reply>>
  BY Stepping DEF Offered, Extent, Offset
<1> QED
  BY <1>1, ContentStays, Stepping

(* cfs_read returns. *)
LEMMA ReadContent ==
  ASSUME RefInv, NothingTrails, SeekFaults = FALSE, RestartFaults = FALSE, [DsNext]_vars,
         kind = "compressed", ReadReturn
  PROVE  [Content!Next]_(Content!vars)
<1>1. /\ Counted /\ (Healthy' => Healthy) /\ PlainSize' = PlainSize /\ PlainSize \in Nat
      /\ cpos \in 0..PlainSize /\ from \in 0..PlainSize /\ call \in Calls
      /\ pc \in {"returned", "failed"} /\ pc' = "idle" /\ UNCHANGED <<kind, cpos>>
      /\ Delivers("read") /\ call.op = "read"
  <2>1. pc \in {"returned", "failed"}
    BY DEF ReadReturn
  <2>2. /\ Counted /\ (Healthy' => Healthy) /\ PlainSize' = PlainSize /\ PlainSize \in Nat
        /\ cpos \in 0..PlainSize /\ from \in 0..PlainSize /\ call \in Calls
    BY <2>1, Stepping
  <2> QED
    BY <2>1, <2>2 DEF RefInv, ReadReturn, Roles, Delivers, Delivery
<1>2. /\ Offered /\ Offered' /\ Extent = PlainSize /\ Extent' = Extent
      /\ Offset = from /\ Offset' = cpos
  BY <1>1 DEF Offered, Extent, Offset
<1>3. CASE pc = "failed"
  <2>1. ~Healthy'
    BY <1>1, <1>3 DEF RefInv, Working, InOrder, Using
  <2>2. Content!ReadFails(call)
    BY <1>1, <1>2, <1>3, <2>1, ContentReadFails DEF ReadReturn
  <2> QED
    BY <1>1, <1>2, <2>2, ContentServes
<1>4. CASE pc = "returned"
  <2>1. reply' = Answer(call, Len(data), data)
    BY <1>4 DEF ReadReturn
  <2>2. /\ data = Run(from, Len(data)) /\ cpos = from + Len(data)
        /\ Len(data) + rest = call.count
        /\ Healthy => rest = 0 \/ cpos = PlainSize
    BY <1>1, <1>4 DEF RefInv, Aims
  <2>3. rest \in Nat /\ Len(data) \in Nat
    BY DEF RefInv, DsInv, Typed
  <2>4. PICK n \in Nat : n = Len(data)
    BY <2>3
  <2>5. /\ n <= Lesser(call.count, Extent - Offset)
        /\ n # Lesser(call.count, Extent - Offset) => ~Healthy'
        /\ Lesser(call.count, Extent - Offset) \in Nat
    BY <1>1, <1>2, <2>2, <2>3, <2>4 DEF Lesser
  <2>6. reply' = Answer(call, n, Run(Offset, n)) /\ Offset' = Offset + n
    BY <1>2, <2>1, <2>2, <2>4
  <2>7. Content!Read(call)
    BY <1>1, <2>5, <2>6, ContentReads
  <2> QED
    BY <1>1, <1>2, <2>7, ContentServes
<1> QED
  BY <1>1, <1>3, <1>4

(* cfs_seek returns. *)
LEMMA SeekContent ==
  ASSUME RefInv, NothingTrails, SeekFaults = FALSE, RestartFaults = FALSE, [DsNext]_vars,
         kind = "compressed", SeekReturn
  PROVE  [Content!Next]_(Content!vars)
<1>1. /\ Counted /\ (Healthy' => Healthy) /\ PlainSize' = PlainSize /\ PlainSize \in Nat
      /\ cpos \in 0..PlainSize /\ from \in 0..PlainSize /\ call \in Calls
      /\ pc \in {"moved", "stuck"} /\ pc' = "idle" /\ UNCHANGED <<kind, cpos>>
      /\ ~measuring /\ call.op = "seek"
  <2>1. pc \in {"moved", "stuck"}
    BY DEF SeekReturn
  <2>2. /\ Counted /\ (Healthy' => Healthy) /\ PlainSize' = PlainSize /\ PlainSize \in Nat
        /\ cpos \in 0..PlainSize /\ from \in 0..PlainSize /\ call \in Calls
    BY <2>1, Stepping
  <2> QED
    BY <2>1, <2>2 DEF RefInv, SeekReturn, Roles
<1>2. /\ Offered /\ Offered' /\ Extent = PlainSize /\ Extent' = Extent
      /\ Offset = from /\ Offset' = cpos
  BY <1>1 DEF Offered, Extent, Offset
<1>3. CASE pc = "moved"
  <2>1. cpos = Target(call, from, PlainSize) \/ (call.whence = "end" /\ ~Healthy)
    BY <1>1, <1>3 DEF RefInv, Aims, Aimed, Goal
  <2>2. Content!Seek(call)
    BY <1>1, <1>2, <1>3, <2>1, ContentSeeks DEF SeekReturn
  <2> QED
    BY <1>1, <1>2, <2>2, ContentServes
<1>4. CASE pc = "stuck"
  <2>1. Target(call, from, PlainSize) \in 0..PlainSize => ~Healthy'
    BY <1>1, <1>4 DEF RefInv, Roles
  <2>2. Content!SeekFails(call)
    BY <1>1, <1>2, <1>4, <2>1, ContentSeekFails DEF SeekReturn
  <2> QED
    BY <1>1, <1>2, <2>2, ContentServes
<1> QED
  BY <1>1, <1>3, <1>4

(* A target that is refused is outside of a healthy source. *)
LEMMA RefusedOutside ==
  ASSUME RefInv, Healthy, NEW c \in Calls, c.op = "seek", NEW p \in 0..PlainSize,
         c.whence = "end" => known # -1, ~MayMoveTo(Target(c, p, known))
  PROVE  Target(c, p, PlainSize) \notin 0..PlainSize
<1>1. known = -1 \/ known = PlainSize
  BY DEF RefInv, Settled
<1>2. PlainSize \in Nat
  BY FileIs DEF RefInv, DsInv, Typed, FileTyped
<1>3. c.whence \in {"set", "cur", "end"} /\ c.off \in Int
  BY CallsAssumption
<1>4. Target(c, p, PlainSize) = Target(c, p, known)
  BY <1>1, <1>3 DEF Target
<1> QED
  BY <1>1, <1>2, <1>4 DEF MayMoveTo

(* Measuring ends: get_size returns, or a seek from the end sets out. *)
LEMMA SizeContent ==
  ASSUME RefInv, NothingTrails, SeekFaults = FALSE, RestartFaults = FALSE, [DsNext]_vars,
         kind = "compressed", Measured
  PROVE  [Content!Next]_(Content!vars)
<1>1. /\ Counted /\ (Healthy' => Healthy) /\ PlainSize' = PlainSize /\ PlainSize \in Nat
      /\ cpos \in 0..PlainSize /\ from \in 0..PlainSize /\ call \in Calls
      /\ pc \in {"moved", "stuck"} /\ UNCHANGED <<kind, call, from, known>>
      /\ measuring
      /\ \/ call.op = "size" /\ call.force
         \/ call.op = "seek" /\ call.whence = "end"
      /\ Healthy => known # -1 /\ pc # "stuck"
      /\ known \in Int /\ known >= -1 /\ known <= PlainSize
  <2>1. pc \in {"moved", "stuck"}
    BY DEF Measured
  <2>2. /\ Counted /\ (Healthy' => Healthy) /\ PlainSize' = PlainSize /\ PlainSize \in Nat
        /\ cpos \in 0..PlainSize /\ from \in 0..PlainSize /\ call \in Calls
    BY <2>1, Stepping
  <2> QED
    BY <2>1, <2>2 DEF RefInv, Measured, Roles, Delivers, Delivery, DsInv, Typed, Decoded
<1>2. CASE call.op = "seek" /\ known # -1 /\ MayMoveTo(Target(call, cpos, known))
  <2>1. Move(Target(call, cpos, known)) /\ reply' = reply
    BY <1>2 DEF Measured
  <2>2. pc' # "idle"
    BY <2>1, MovePhase
  <2> QED
    BY <1>1, <2>1, <2>2, QuietContent
<1>3. CASE ~(call.op = "seek" /\ known # -1 /\ MayMoveTo(Target(call, cpos, known)))
  <2>1. /\ pc' = "idle" /\ cpos' = cpos
        /\ reply' = (IF call.op = "size" /\ pc = "moved" THEN Answer(call, known, <<>>)
                                                         ELSE Failure(call))
    BY <1>3 DEF Measured
  <2>2. /\ Offered /\ Offered' /\ Extent = PlainSize /\ Extent' = Extent
        /\ Offset = from /\ Offset' = cpos
    BY <1>1, <2>1 DEF Offered, Extent, Offset
  <2>3. CASE call.op = "size" /\ pc = "moved"
    <3>1. cpos = from
      BY <1>1, <2>3 DEF RefInv, Aims, Aimed, Goal
    <3>2. known = PlainSize \/ ~Healthy'
      BY <1>1 DEF RefInv, Settled
    <3>3. Content!GetSize(call)
      BY <1>1, <2>1, <2>2, <2>3, <3>1, <3>2, ContentSizes
    <3> QED
      BY <1>1, <2>2, <3>3, ContentServes
  <2>4. CASE call.op = "size" /\ pc # "moved"
    <3>1. ~Healthy' /\ reply' = Answer(call, -1, <<>>)
      BY <1>1, <2>1, <2>4 DEF Failure
    <3>2. Content!GetSize(call)
      BY <1>1, <2>2, <2>4, <3>1, ContentSizes
    <3> QED
      BY <1>1, <2>2, <3>2, ContentServes
  <2>5. CASE call.op # "size"
    <3>1. call.op = "seek" /\ call.whence = "end" /\ reply' = Failure(call)
      BY <1>1, <2>1, <2>5
    <3>2. Target(call, from, known) = Target(call, cpos, known)
      BY <3>1 DEF Target
    <3>3. Target(call, from, PlainSize) \in 0..PlainSize => ~Healthy'
      BY <1>1, <1>3, <3>1, <3>2, RefusedOutside
    <3>4. Content!SeekFails(call)
      BY <1>1, <2>2, <3>1, <3>3, ContentSeekFails
    <3> QED
      BY <1>1, <2>2, <3>4, ContentServes
  <2> QED
    BY <2>3, <2>4, <2>5
<1> QED
  BY <1>2, <1>3

(* A client calls. *)
LEMMA CallContent ==
  ASSUME RefInv, NothingTrails, SeekFaults = FALSE, RestartFaults = FALSE, [DsNext]_vars,
         kind = "compressed", NEW c \in Calls, PlainCall(c) \/ Read(c) \/ Seek(c) \/ GetSize(c)
  PROVE  [Content!Next]_(Content!vars)
<1>1. /\ Counted /\ (Healthy' => Healthy) /\ PlainSize' = PlainSize /\ PlainSize \in Nat
      /\ cpos \in 0..PlainSize /\ pc = "idle" /\ kind' = kind /\ from' = cpos
      /\ known \in Int /\ known >= -1 /\ known <= PlainSize
  <2>1. /\ Counted /\ (Healthy' => Healthy) /\ PlainSize' = PlainSize /\ PlainSize \in Nat
        /\ cpos \in 0..PlainSize
    BY Stepping
  <2>2. pc = "idle" /\ kind' = kind /\ from' = cpos
    BY DEF PlainCall, Read, Seek, GetSize
  <2> QED
    BY <2>1, <2>2 DEF RefInv, DsInv, Typed, Decoded
<1>2. /\ Offered /\ Offered' /\ Extent = PlainSize /\ Extent' = Extent
      /\ Offset = cpos
  BY <1>1 DEF Offered, Extent, Offset
<1>3. CASE Read(c)
  <2>1. reply' = reply /\ pc' # "idle"
    BY <1>3, BeginReadPhase DEF Read
  <2> QED
    BY <1>1, <2>1, QuietContent
<1>4. CASE Seek(c)
  <2>1. CASE c.whence = "end" /\ known = -1
    <3>1. reply' = reply /\ pc' # "idle"
      BY <1>4, <2>1 DEF Seek
    <3> QED
      BY <1>1, <3>1, QuietContent
  <2>2. CASE ~(c.whence = "end" /\ known = -1) /\ MayMoveTo(Target(c, cpos, known))
    <3>1. reply' = reply /\ pc' # "idle"
      BY <1>4, <2>2, MovePhase DEF Seek
    <3> QED
      BY <1>1, <3>1, QuietContent
  <2>3. CASE ~(c.whence = "end" /\ known = -1) /\ ~MayMoveTo(Target(c, cpos, known))
    <3>1. reply' = Failure(c) /\ pc' = "idle" /\ cpos' = cpos /\ c.op = "seek"
      BY <1>4, <2>3 DEF Seek
    <3>2. Offset' = cpos
      BY <1>1, <3>1 DEF Offset
    <3>3. Target(c, cpos, PlainSize) \in 0..PlainSize => ~Healthy'
      BY <1>1, <2>3, <3>1, RefusedOutside
    <3>4. Content!SeekFails(c)
      BY <1>1, <1>2, <3>1, <3>2, <3>3, ContentSeekFails
    <3> QED
      BY <1>1, <1>2, <3>4, ContentServes
  <2> QED
    BY <2>1, <2>2, <2>3
<1>5. CASE GetSize(c)
  <2>1. CASE c.force /\ known = -1
    <3>1. reply' = reply /\ pc' # "idle"
      BY <1>5, <2>1 DEF GetSize
    <3> QED
      BY <1>1, <3>1, QuietContent
  <2>2. CASE ~(c.force /\ known = -1)
    <3>1. /\ reply' = Answer(c, known, <<>>) /\ pc' = "idle" /\ cpos' = cpos /\ c.op = "size"
      BY <1>5, <2>2 DEF GetSize
    <3>2. Offset' = cpos
      BY <1>1, <3>1 DEF Offset
    <3>3. known = -1 \/ known = PlainSize \/ ~Healthy'
      BY <1>1 DEF RefInv, Settled
    <3>4. Content!GetSize(c)
      BY <1>1, <1>2, <2>2, <3>1, <3>2, <3>3, ContentSizes
    <3> QED
      BY <1>1, <1>2, <3>4, ContentServes
  <2> QED
    BY <2>1, <2>2
<1>6. ~PlainCall(c)
  BY DEF PlainCall
<1> QED
  BY <1>3, <1>4, <1>5, <1>6

LEMMA CompressedContent ==
  ASSUME RefInv, NothingTrails, SeekFaults = FALSE, RestartFaults = FALSE, [DsNext]_vars,
         kind = "compressed"
  PROVE  [Content!Next]_(Content!vars)
<1>1. Phases /\ Counted /\ (Healthy' => Healthy) /\ PlainSize' = PlainSize /\ DsInv
  BY Stepping DEF RefInv, DsInv
<1>2. CASE ReadReturn \/ SeekReturn \/ Measured
  BY <1>2, ReadContent, SeekContent, SizeContent
<1>3. ASSUME NEW c \in Calls, PlainCall(c) \/ Read(c) \/ Seek(c) \/ GetSize(c)
      PROVE  [Content!Next]_(Content!vars)
  BY <1>3, CallContent
<1>4. CASE Destroy
  BY <1>4, ContentCloses DEF Destroy, Offered
<1>5. CASE Reading \/ UNCHANGED vars
  <2>1. UNCHANGED <<kind, pc, from, reply, cpos>>
    BY <1>5 DEF Reading, vars, client
  <2>2. UNCHANGED <<Offered, Extent, Offset, reply>>
    BY <1>1, <2>1 DEF Offered, Extent, Offset
  <2> QED
    BY <1>1, <2>2, ContentStays
<1>6. CASE \/ Probe \/ ProbeRead \/ Probed
           \/ InitDecompressor \/ ReadHeader \/ HeaderParsed \/ SeekField \/ ReadField
           \/ ReportField \/ Rewind \/ DecompressorReady \/ InitFails
  <2>1. /\ kind' = kind /\ UNCHANGED <<reply, from>> /\ pc # "idle" /\ pc' # "idle"
    BY <1>1, <1>6, NoRestartFails
    DEF Probe, ProbeRead, Probed, InitDecompressor, ReadHeader, HeaderParsed, SeekField, ReadField,
      ReportField, Rewind, DecompressorReady, InitFails, Calling, client, Phases, Beginning, Using
  <2> QED
    BY <2>1, QuietContent
<1>7. CASE \/ Fetch \/ FetchFails \/ FetchedNothing \/ Inflate \/ GiveBack \/ GiveBackFails
           \/ CopyResult \/ Skip \/ Skipped \/ Measure \/ Restore \/ PlainReturn
  <2>1. kind' = kind /\ UNCHANGED <<reply, from>> /\ pc # "idle"
    BY <1>1, <1>7
    DEF Fetch, FetchFails, FetchedNothing, Inflate, GiveBack, GiveBackFails, CopyResult, Skip,
      Skipped, Measure, Restore, PlainReturn, Calling, client, Phases, Beginning, Using
  <2>2. pc' # "idle"
    <3>1. CASE \/ Fetch \/ FetchFails \/ FetchedNothing \/ Inflate \/ GiveBack \/ GiveBackFails
               \/ CopyResult \/ Skipped
      BY <3>1 DEF Fetch, FetchFails, FetchedNothing, Inflate, GiveBack, GiveBackFails, CopyResult,
        Skipped, Calling, Decompress
    <3>2. CASE Skip \/ Measure
      BY <3>2, BeginReadPhase DEF Skip, Measure
    <3>3. CASE Restore
      BY <3>3, MovePhase DEF Restore
    <3>4. ~PlainReturn
      BY <1>1 DEF PlainReturn, Phases, Beginning, Using
    <3> QED
      BY <1>7, <3>1, <3>2, <3>3, <3>4
  <2> QED
    BY <2>1, <2>2, QuietContent
<1> QED
  BY <1>2, <1>3, <1>4, <1>5, <1>6, <1>7 DEF DsNext, Work, Reading

LEMMA ContentStep ==
  ASSUME RefInv, NothingTrails, SeekFaults = FALSE, RestartFaults = FALSE, [DsNext]_vars
  PROVE  [Content!Next]_(Content!vars)
BY OpensContent, PlainContent, CompressedContent DEF Offered

(* The size that EXTRACTOR_datasource_get_size_ or a read to the end finds *)
(* is that of the decompressed file, unless a system call has failed or    *)
(* the file is damaged: however it was read, sought and started again.     *)
THEOREM SizeFoundIsRight ==
  ASSUME SeekFaults = FALSE, RestartFaults = FALSE, NothingTrails
  PROVE  DsSpec => []Settled
<1>1. DsInit => RefInv
  BY RefInvInit
<1>2. RefInv /\ [DsNext]_vars => RefInv'
  BY RefInvKept
<1>3. RefInv => Settled
  BY DEF RefInv
<1> QED
  BY <1>1, <1>2, <1>3, PTL DEF DsSpec

(* Every read, seek and get_size of a plain or compressed source does what *)
(* ByteSource promises: the bytes at the position asked for, all of them   *)
(* up to the end, the position where the call says, and no refusal or      *)
(* shortfall without a failed system call or a damaged file.               *)
THEOREM DataSourceImplementsContent ==
  ASSUME SeekFaults = FALSE, RestartFaults = FALSE, NothingTrails
  PROVE  DsSpec => ImplementsContent
<1>1. DsInit => RefInv
  BY RefInvInit
<1>2. RefInv /\ [DsNext]_vars => RefInv'
  BY RefInvKept
<1>3. DsInit => Content!Init
  BY DEF DsInit, Content!Init, Content!NoReply, Content!Answer, NoReply, Answer
<1>4. RefInv /\ [DsNext]_vars => [Content!Next]_(Content!vars)
  BY ContentStep
<1> QED
  BY <1>1, <1>2, <1>3, <1>4, PTL DEF DsSpec, ImplementsContent, Content!Spec

-----------------------------------------------------------------------------
(***************************************************************************)
(* The size that is found (SizeSettled), on damaged files, too.            *)
(*                                                                         *)
(* Without faults every start of the stream takes the decompressor through *)
(* the same stages, because what is left of the input is given again.  The *)
(* size is found at a stage that is never left, and there is only one.     *)
(***************************************************************************)
(* What the decompressor has been given, what it has made of it, and       *)
(* whether it is at the end of the stream or at an error.                  *)
Stages == [fed : Nat, made : Nat, over : BOOLEAN]
Stage  == [fed |-> strm.fed, made |-> strm.made, over |-> strm.broken \/ strm.ended]
First  == [fed |-> 0, made |-> 0, over |-> FALSE]

(* Consumed, for any file and stage. *)
ConsumedFrom(f, fed, made, n) ==
  LET last == Lesser(fed + n, Len(f.plain) - 1)
      room == made + Chunk
      first == CHOOSE k \in fed..last :
                 /\ f.plain[k + 1] >= room
                 /\ \A j \in fed..k - 1 : f.plain[j + 1] < room
  IN  IF f.plain[last + 1] <= room THEN last ELSE first

(* The next chunk of a file. *)
AfterChunk(f, size, s) ==
  LET k    == ConsumedFrom(f, s.fed, s.made, Lesser(Chunk, size - s.fed))
      made == Lesser(s.made + Chunk, f.plain[k + 1])
      good == Lesser(s.made + Chunk, f.plain[f.bad - 1 + 1])
      end  == Len(f.plain) - 1
  IN  IF s.over \/ s.fed >= size THEN s
      ELSE IF s.fed < f.bad /\ f.bad <= k
      THEN [fed |-> s.fed, made |-> good, over |-> TRUE]
      ELSE [fed |-> k, made |-> made, over |-> k = end /\ made = f.plain[end + 1]]

Onwards(f, size, S) == \A s \in S : AfterChunk(f, size, s) \in Stages => AfterChunk(f, size, s) \in S

(* The stages of a file, from the first on. *)
LeadsTo(f, size, s, t) ==
  \A S \in SUBSET Stages : s \in S /\ Onwards(f, size, S) => t \in S
Course(f, size) == {s \in Stages : LeadsTo(f, size, First, s)}
Last(f, size)   == {s \in Course(f, size) : AfterChunk(f, size, s) = s}

LEMMA CourseBegins ==
  ASSUME NEW f, NEW size
  PROVE  First \in Course(f, size)
BY DEF Course, LeadsTo, First, Stages

LEMMA CourseGoesOn ==
  ASSUME NEW f, NEW size, NEW s \in Course(f, size), AfterChunk(f, size, s) \in Stages
  PROVE  AfterChunk(f, size, s) \in Course(f, size)
<1> DEFINE t == AfterChunk(f, size, s)
<1>1. ASSUME NEW S \in SUBSET Stages, First \in S, Onwards(f, size, S) PROVE t \in S
  BY <1>1 DEF Course, LeadsTo, Onwards
<1> HIDE DEF t
<1> QED
  BY <1>1 DEF Course, LeadsTo, t

(* A stage that is not left is where every stage leads. *)
LEMMA OneLast ==
  ASSUME NEW f, NEW size, NEW t \in Last(f, size), NEW u \in Last(f, size)
  PROVE  t = u
<1> DEFINE R == {s \in Stages : LeadsTo(f, size, s, t)}
<1>1. First \in R
  BY DEF Last, Course, First, Stages
<1>2. Onwards(f, size, R)
  <2> SUFFICES ASSUME NEW s \in R, AfterChunk(f, size, s) \in Stages
               PROVE  LeadsTo(f, size, AfterChunk(f, size, s), t)
    BY DEF Onwards
  <2> DEFINE n == AfterChunk(f, size, s)
  <2>1. CASE s = t
    BY <2>1 DEF Last
  <2>2. CASE s # t
    <3> SUFFICES ASSUME NEW S \in SUBSET Stages, n \in S, Onwards(f, size, S) PROVE t \in S
      BY DEF LeadsTo
    <3>1. S \cup {s} \in SUBSET Stages
      OBVIOUS
    <3>2. Onwards(f, size, S \cup {s})
      BY DEF Onwards
    <3> QED
      BY <2>2, <3>1, <3>2 DEF LeadsTo
  <2> QED
    BY <2>1, <2>2
<1>3. LeadsTo(f, size, u, t)
  <2>1. R \in SUBSET Stages
    OBVIOUS
  <2> HIDE DEF R
  <2>2. u \in R
    BY <1>1, <1>2, <2>1 DEF Last, Course, LeadsTo
  <2> QED
    BY <2>2 DEF R
<1>4. {u} \in SUBSET Stages /\ Onwards(f, size, {u})
  BY DEF Last, Course, Onwards
<1> QED
  BY <1>3, <1>4 DEF LeadsTo

LEMMA CourseKept ==
  ASSUME stream' = stream, fsize' = fsize, strm' = strm
  PROVE  (Stage \in Course(stream, fsize))' <=> Stage \in Course(stream, fsize)
BY DEF Stage

(* How far the decompressor has come in its course, and that the source    *)
(* underneath is where the rest of its input begins.                       *)
Steered ==
  /\ Stage \in Course(stream, fsize)
  /\ strm.ended => strm.fed = EndOf /\ strm.made = PlainSize
  /\ strm.fed <= fsize
  /\ ~Stage.over =>
       /\ pc # "failed"
       /\ pc \notin {"fetched", "back"} => ~Serving /\ Position = strm.fed
       /\ pc = "fetched" => ReadFrom(strm.fed, Chunk)
       /\ pc = "back" => ~Serving /\ Position = strm.fed + strm.availIn
       /\ pc = "copy" => breply.value \in Nat

OnCourse == kind = "compressed" /\ pc \in Using /\ faults = 0 => strm.live /\ Steered

(* The size is what has been made when the stages end. *)
Sized == faults = 0 /\ known # -1 => \E s \in Last(stream, fsize) : s.made = known

LEMMA StageIs ==
  ASSUME DsInv
  PROVE  /\ Stage \in Stages /\ Stage.fed = strm.fed /\ Stage.made = strm.made
         /\ Stage.over <=> strm.broken \/ strm.ended
<1>1. strm.fed \in Nat /\ strm.made \in Nat /\ strm.broken \in BOOLEAN /\ strm.ended \in BOOLEAN
  BY DEF DsInv, Typed, Decompressor
<1> QED
  BY <1>1 DEF Stage, Stages

(* zlib says again that the stream has ended, libbz2 fails; what has been  *)
(* made stays.                                                             *)
LEMMA OverStays ==
  ASSUME DsInv, Steered, Stage.over, Inflate
  PROVE  Stage' = Stage /\ strm'.live = strm.live /\ (strm'.ended => strm.ended)
<1> DEFINE n == Len(breply.data)
           k == Consumed(n)
           made == Lesser(strm.made + Chunk, Plain(k))
           e == k = EndOf /\ made = PlainSize
           i == n - (k - strm.fed)
           o == Chunk - (made - strm.made)
<1>1. /\ strm \in Decompressor /\ strm.fed \in 0..EndOf /\ EndOf \in Nat /\ PlainSize \in Nat
      /\ strm.fed \in Nat /\ strm.made \in Nat /\ Chunk \in Nat \ {0}
      /\ stream.bad \in 0..EndOf /\ Plain(EndOf) = PlainSize
      /\ strm.ended => strm.fed = EndOf /\ strm.made = PlainSize
      /\ Decompress(breply.data) /\ n \in Nat
  BY FileIs, StepsAssumption
  DEF DsInv, Typed, FileTyped, Decoded, Decompressor, Steered, Inflate, PlainSize
<1>2. strm.broken \/ strm.ended
  BY StageIs
<1>3. CASE strm' = [strm EXCEPT !.availOut = Chunk]
  <2>1. /\ strm'.fed = strm.fed /\ strm'.made = strm.made /\ strm'.live = strm.live
        /\ strm'.broken = strm.broken /\ strm'.ended = strm.ended
    BY <1>1, <1>3 DEF Decompressor
  <2> QED
    BY <2>1 DEF Stage
<1>4. CASE ~strm.broken
  <2>1. strm.ended /\ strm.fed = EndOf /\ strm.made = PlainSize
    BY <1>1, <1>2, <1>4
  <2>2. k \in strm.fed..EndOf
    BY <1>1, <1>4, ConsumedIs
  <2>3. k = EndOf /\ made = PlainSize /\ e
    BY <1>1, <2>1, <2>2 DEF Lesser
  <2>4. ~(strm.fed < stream.bad)
    BY <1>1, <2>1
  <2>5. \/ strm' = [strm EXCEPT !.availOut = Chunk]
        \/ strm' = [strm EXCEPT !.fed = k, !.made = made, !.ended = e, !.availIn = i,
                                !.availOut = o]
    BY <1>1, <2>4 DEF Decompress
  <2> HIDE DEF n, k, made, e, i, o
  <2>6. CASE strm' = [strm EXCEPT !.fed = k, !.made = made, !.ended = e, !.availIn = i,
                                  !.availOut = o]
    <3>1. /\ strm'.fed = k /\ strm'.made = made /\ strm'.live = strm.live
          /\ strm'.broken = strm.broken /\ strm'.ended = e
      BY <1>1, <2>6 DEF Decompressor
    <3>2. Stage' = [fed |-> k, made |-> made, over |-> strm.broken \/ e]
      BY <3>1 DEF Stage
    <3>3. Stage = [fed |-> k, made |-> made, over |-> strm.broken \/ e]
      BY <2>1, <2>3, <1>4 DEF Stage
    <3> QED
      BY <2>1, <3>1, <3>2, <3>3
  <2> QED
    BY <1>3, <2>5, <2>6
<1>5. strm.broken => strm' = [strm EXCEPT !.availOut = Chunk]
  BY <1>1 DEF Decompress
<1> QED
  BY <1>3, <1>4, <1>5

(* A chunk of input takes the stream to its next stage. *)
LEMMA StageFollows ==
  ASSUME DsInv, Steered, strm.live, ~Stage.over, Inflate
  PROVE  /\ Stage' = AfterChunk(stream, fsize, Stage)
         /\ strm'.live /\ strm'.fed <= fsize
         /\ strm'.ended => strm'.fed = EndOf /\ strm'.made = PlainSize
         /\ ~Stage'.over => pc' = "back" /\ Position = strm'.fed + strm'.availIn
<1> DEFINE n == Len(breply.data)
           k == Consumed(n)
           made == Lesser(strm.made + Chunk, Plain(k))
           good == Lesser(strm.made + Chunk, Plain(stream.bad - 1))
           hits == strm.fed < stream.bad /\ stream.bad <= k
           e == k = EndOf /\ made = PlainSize
           i == n - (k - strm.fed)
           o == Chunk - (made - strm.made)
           g == Chunk - (good - strm.made)
<1>1. /\ pc = "fetched" /\ ~Serving /\ breply.value > 0 /\ Decompress(breply.data)
      /\ ~strm.broken /\ ~strm.ended /\ ReadFrom(strm.fed, Chunk) /\ strm.fed <= fsize
  BY StageIs DEF Steered, Inflate
<1>2. /\ strm \in Decompressor /\ strm.fed \in 0..EndOf /\ EndOf \in Nat /\ fsize \in Nat
      /\ strm.fed \in Nat /\ strm.made \in Nat /\ Chunk \in Nat \ {0}
  BY FileIs, StepsAssumption DEF DsInv, Inv, Placed, Typed, FileTyped, Decoded, Decompressor
<1>3. /\ breply.value = Lesser(Chunk, fsize - strm.fed)
      /\ breply.data = Run(strm.fed, breply.value) /\ Position = strm.fed + breply.value
  BY <1>1 DEF ReadFrom
<1>4. breply.value \in Nat /\ strm.fed < fsize /\ strm.fed + breply.value <= fsize
  BY <1>1, <1>2, <1>3 DEF Lesser
<1>5. n = breply.value
  <2>1. strm.fed \in Int
    BY <1>2
  <2>2. Len(Run(strm.fed, breply.value)) = breply.value
    BY <1>4, <2>1, RunIs
  <2> QED
    BY <1>3, <2>2
<1>6. Len(breply.data) = n /\ breply.data = Run(strm.fed, n)
  BY <1>3, <1>5
<1>7. k \in strm.fed..EndOf /\ k <= strm.fed + n
  BY <1>1, <1>4, <1>5, ConsumedIs
<1>8. \/ /\ ~hits /\ pc' = "back"
         /\ strm' = [strm EXCEPT !.fed = k, !.made = made, !.ended = e, !.availIn = i,
                                 !.availOut = o]
      \/ hits /\ strm' = [strm EXCEPT !.broken = TRUE, !.made = good, !.availOut = g]
  BY <1>1, <1>6 DEF Decompress
<1>9. AfterChunk(stream, fsize, Stage) =
        IF hits THEN [fed |-> strm.fed, made |-> good, over |-> TRUE]
        ELSE [fed |-> k, made |-> made, over |-> e]
  <2>1. k = ConsumedFrom(stream, Stage.fed, Stage.made, Lesser(Chunk, fsize - Stage.fed))
    <3>1. k = ConsumedFrom(stream, strm.fed, strm.made, n)
      BY DEF Consumed, ConsumedFrom, EndOf, Plain
    <3>2. n = Lesser(Chunk, fsize - Stage.fed) /\ Stage.fed = strm.fed /\ Stage.made = strm.made
      BY <1>3, <1>5, StageIs
    <3> HIDE DEF n, k
    <3> QED
      BY <3>1, <3>2
  <2>2. ~(Stage.over \/ Stage.fed >= fsize) /\ Stage.fed = strm.fed /\ Stage.made = strm.made
    BY <1>2, <1>4, StageIs
  <2> QED
    BY <2>1, <2>2 DEF AfterChunk, Plain, EndOf, PlainSize
<1>10. Position = k + i /\ k <= fsize
  BY <1>2, <1>3, <1>4, <1>5, <1>7
<1> HIDE DEF n, k, made, good, hits, e, i, o, g
<1>11. CASE /\ ~hits /\ pc' = "back"
            /\ strm' = [strm EXCEPT !.fed = k, !.made = made, !.ended = e, !.availIn = i,
                                    !.availOut = o]
  <2>1. /\ strm'.live = strm.live /\ strm'.broken = strm.broken /\ strm'.fed = k
        /\ strm'.made = made /\ strm'.ended = e /\ strm'.availIn = i
    BY <1>2, <1>11 DEF Decompressor
  <2>2. e \in BOOLEAN /\ (e => k = EndOf /\ made = PlainSize)
    BY DEF e
  <2>3. Stage' = [fed |-> k, made |-> made, over |-> e]
    BY <1>1, <2>1, <2>2 DEF Stage
  <2>4. Stage'.over = e
    BY <2>3
  <2> QED
    BY <1>9, <1>10, <1>11, <2>1, <2>2, <2>3, <2>4
<1>12. CASE hits /\ strm' = [strm EXCEPT !.broken = TRUE, !.made = good, !.availOut = g]
  <2>1. /\ strm'.live = strm.live /\ strm'.broken /\ strm'.fed = strm.fed
        /\ strm'.made = good /\ strm'.ended = strm.ended
    BY <1>2, <1>12 DEF Decompressor
  <2>2. Stage' = [fed |-> strm.fed, made |-> good, over |-> TRUE]
    BY <2>1 DEF Stage
  <2>3. Stage'.over
    BY <2>2
  <2> QED
    BY <1>1, <1>9, <1>12, <2>1, <2>2, <2>3
<1> QED
  BY <1>8, <1>11, <1>12

LEMMA FileKept ==
  ASSUME DsInv, [DsNext]_vars
  PROVE  /\ stream' = stream /\ fsize' = fsize /\ faults \in Nat
         /\ faults' = 0 => faults = 0
         /\ EndOf' = EndOf /\ PlainSize' = PlainSize
<1>1. fsize' = fsize
  BY SameSize
<1>2. faults \in Nat /\ faults' \in Nat /\ faults <= faults'
  BY FaultsGrow
<1>3. faults' = 0 => faults = 0
  BY <1>2
<1> QED
  BY <1>1, <1>2, <1>3, StreamKept DEF EndOf, PlainSize, Plain

(* The stages do not depend on how often the stream is started, read and   *)
(* sought: input is neither lost nor given twice while no system call      *)
(* fails.                                                                  *)
LEMMA OnCourseKept ==
  ASSUME DsInv, OnCourse, SeekFaults = FALSE, RestartFaults = FALSE, [DsNext]_vars
  PROVE  OnCourse'
<1>1. /\ stream' = stream /\ fsize' = fsize /\ faults \in Nat /\ (faults' = 0 => faults = 0)
      /\ EndOf' = EndOf /\ PlainSize' = PlainSize /\ DsInv' /\ Inv /\ Inv'
  BY FileKept, DsInvKept DEF DsInv
<1>2. CASE \/ Probe \/ ProbeRead \/ Probed \/ InitDecompressor \/ ReadHeader \/ HeaderParsed
           \/ SeekField \/ ReadField \/ ReportField \/ Rewind
  <2>1. kind' # "compressed" \/ pc' \notin Using
    <3>1. CASE Probe \/ ProbeRead \/ Probed
      BY <3>1 DEF Probe, ProbeRead, Probed, Calling, DsInv, Phases, Beginning, Using
    <3>2. CASE \/ InitDecompressor \/ ReadHeader \/ HeaderParsed
               \/ SeekField \/ ReadField \/ ReportField \/ Rewind
      BY <3>2 DEF InitDecompressor, ReadHeader, HeaderParsed, SeekField, ReadField,
                  ReportField, Rewind, Calling, Using
    <3> QED
      BY <1>2, <3>1, <3>2
  <2> QED
    BY <2>1 DEF OnCourse
<1>3. CASE DecompressorReady
  <2>1. /\ strm'.live /\ strm'.fed = 0 /\ strm'.made = 0 /\ ~strm'.ended /\ ~strm'.broken
        /\ pc' \in {"idle", "skip"}
        /\ UNCHANGED bvars /\ pc = "rewound" /\ breply.value = 0
    BY <1>3 DEF DecompressorReady
  <2>2. Sought(0) /\ fsize \in Nat
    BY <2>1 DEF DsInv, Headers, OpeningFails, Beginning, Inv, Placed
  <2>3. ~Serving' /\ Position' = 0
    BY <2>1, <2>2 DEF bvars, Sought, Serving, Position
  <2>4. Stage' = First
    BY <2>1 DEF Stage, First
  <2>5. (Stage \in Course(stream, fsize))'
    BY <1>1, <2>4, CourseBegins
  <2> QED
    BY <1>1, <2>1, <2>2, <2>3, <2>5 DEF OnCourse, Steered
<1>4. CASE InitFails
  BY <1>4, NoRestartFails DEF InitFails, OnCourse
<1>5. ASSUME kind = "compressed", pc \in Using, faults' = 0
      PROVE  /\ strm.live /\ Steered /\ Stage \in Course(stream, fsize)
             /\ strm.ended => strm.fed = EndOf /\ strm.made = PlainSize
             /\ strm.fed <= fsize
  BY <1>1, <1>5 DEF OnCourse, Steered
\* A step that leaves the decompressor alone.
<1>6. ASSUME strm' = strm, kind = "compressed", pc \in Using,
             faults' = 0 /\ ~Stage.over =>
               /\ pc' # "failed"
               /\ pc' \notin {"fetched", "back"} => ~Serving' /\ Position' = strm.fed
               /\ pc' = "fetched" => ReadFrom(strm.fed, Chunk)'
               /\ pc' = "back" => ~Serving' /\ Position' = strm.fed + strm.availIn
               /\ pc' = "copy" => breply'.value \in Nat
      PROVE  OnCourse'
  <2> SUFFICES ASSUME faults' = 0 PROVE strm'.live /\ Steered'
    BY DEF OnCourse
  <2>1. /\ strm.live /\ Steered /\ Stage \in Course(stream, fsize)
        /\ strm.ended => strm.fed = EndOf /\ strm.made = PlainSize
        /\ strm.fed <= fsize
    BY <1>5, <1>6
  <2>2. (Stage \in Course(stream, fsize))'
    BY <1>1, <1>6, <2>1, CourseKept
  <2>3. Stage' = Stage
    BY <1>6 DEF Stage
  <2> QED
    BY <1>1, <1>6, <2>1, <2>2, <2>3 DEF Steered, ReadFrom
<1>7. CASE Fetch
  <2>1. /\ pc = "fetch" /\ pc' = "fetched" /\ BRead(Chunk) /\ strm' = strm
        /\ kind = "compressed" /\ pc \in Using
    BY <1>7 DEF Fetch, Calling, DsInv, Phases, Beginning, Using
  <2>2. ASSUME faults' = 0, ~Stage.over PROVE ReadFrom(strm.fed, Chunk)'
    <3>1. Position = strm.fed /\ strm.fed \in Nat /\ Chunk \in Nat
      BY <1>5, <2>1, <2>2, StepsAssumption DEF Steered, DsInv, Typed, Decompressor
    <3>2. PICK p \in Nat : p = strm.fed
      BY <3>1
    <3>3. ReadFrom(p, Chunk)'
      BY <1>1, <2>1, <3>1, <3>2, ReadStarts
    <3>4. strm'.fed = p
      BY <2>1, <3>2
    <3> QED
      BY <3>3, <3>4 DEF ReadFrom
  <2> QED
    BY <1>6, <2>1, <2>2
<1>8. CASE FetchFails
  <2>1. /\ pc = "fetched" /\ ~Serving /\ breply.value < 0 /\ strm' = strm
        /\ kind = "compressed" /\ pc \in Using
    BY <1>8 DEF FetchFails, DsInv, Phases, Beginning, Using
  <2>2. ASSUME faults' = 0, ~Stage.over PROVE FALSE
    <3>1. /\ breply.value = Lesser(Chunk, fsize - strm.fed) /\ strm.fed <= fsize
      BY <1>5, <2>1, <2>2 DEF Steered, ReadFrom
    <3>2. strm.fed \in Nat /\ Chunk \in Nat /\ fsize \in Nat
      BY StepsAssumption DEF DsInv, Inv, Placed, Typed, Decompressor
    <3> QED
      BY <2>1, <3>1, <3>2 DEF Lesser
  <2> QED
    BY <1>6, <2>1, <2>2
<1>9. CASE FetchedNothing
  <2>1. /\ pc = "fetched" /\ ~Serving /\ breply.value = 0 /\ pc' = "returned"
        /\ kind = "compressed" /\ pc \in Using /\ UNCHANGED <<bvars, strm>>
    BY <1>9 DEF FetchedNothing, DsInv, Phases, Beginning, Using
  <2>2. ASSUME faults' = 0, ~Stage.over PROVE ~Serving' /\ Position' = strm.fed
    <3>1. ReadFrom(strm.fed, Chunk)
      BY <1>5, <2>1, <2>2 DEF Steered
    <3>2. Position = strm.fed + 0 /\ strm.fed \in Nat
      BY <2>1, <3>1 DEF ReadFrom, DsInv, Typed, Decompressor
    <3>3. Position' = Position /\ ~Serving'
      BY <2>1 DEF bvars, Serving, Position
    <3> QED
      BY <3>2, <3>3
  <2> QED
    BY <1>6, <2>1, <2>2
<1>10. CASE Inflate
  <2>1. /\ pc = "fetched" /\ kind' = kind /\ ~Serving /\ UNCHANGED bvars
        /\ kind = "compressed" /\ pc \in Using
    BY <1>10 DEF Inflate, DsInv, Phases, Beginning, Using
  <2>2. ~Serving' /\ Position' = Position
    BY <2>1 DEF bvars, Serving, Position
  <2> SUFFICES ASSUME faults' = 0 PROVE strm'.live /\ Steered'
    BY DEF OnCourse
  <2>3. /\ strm.live /\ Steered /\ Stage \in Course(stream, fsize)
        /\ strm.ended => strm.fed = EndOf /\ strm.made = PlainSize
        /\ strm.fed <= fsize
    BY <1>5, <2>1
  <2>4. pc' \in {"back", "failed"}
    <3>1. breply.data \in Seq(Int) /\ Decompress(breply.data)
      BY <1>10 DEF Inflate, DsInv, Typed, FileTyped
    <3> QED
      BY <3>1, DecompressIs DEF Decompressed
  <2>5. CASE Stage.over
    <3>1. Stage' = Stage /\ strm'.live = strm.live /\ (strm'.ended => strm.ended)
      BY <1>10, <2>3, <2>5, OverStays
    <3>2. strm'.fed = strm.fed /\ strm'.made = strm.made
      BY <3>1 DEF Stage
    <3>3. (Stage \in Course(stream, fsize))'
      BY <1>1, <2>3, <3>1
    <3> QED
      BY <1>1, <2>3, <2>5, <3>1, <3>2, <3>3 DEF Steered
  <2>6. CASE ~Stage.over
    <3>1. /\ Stage' = AfterChunk(stream, fsize, Stage)
          /\ strm'.live /\ strm'.fed <= fsize
          /\ strm'.ended => strm'.fed = EndOf /\ strm'.made = PlainSize
          /\ ~Stage'.over => pc' = "back" /\ Position = strm'.fed + strm'.availIn
      BY <1>10, <2>3, <2>6, StageFollows
    <3>2. Stage' \in Stages
      <4>1. /\ strm'.fed \in Nat /\ strm'.made \in Nat
            /\ strm'.broken \in BOOLEAN /\ strm'.ended \in BOOLEAN
        BY <1>1 DEF DsInv, Typed, Decompressor
      <4> QED
        BY <4>1 DEF Stage, Stages
    <3>3. Stage' \in Course(stream, fsize)
      BY <2>3, <3>1, <3>2, CourseGoesOn
    <3>4. (Stage \in Course(stream, fsize))'
      BY <1>1, <3>3
    <3> QED
      BY <1>1, <2>2, <3>1, <3>4 DEF Steered
  <2> QED
    BY <2>5, <2>6
<1>11. CASE GiveBack
  <2>1. /\ pc = "back" /\ pc' = "copy" /\ BSeek(-strm.availIn, "cur")
        /\ strm' = strm /\ kind = "compressed" /\ pc \in Using
    BY <1>11 DEF GiveBack, Calling, DsInv, Phases, Beginning, Using
  <2>2. ASSUME faults' = 0, ~Stage.over
        PROVE  ~Serving' /\ Position' = strm.fed /\ breply'.value \in Nat
    <3> DEFINE off == -strm.availIn
    <3>1. /\ Position = strm.fed + strm.availIn /\ off \in Int /\ strm.fed \in Nat
          /\ strm.availIn \in Int /\ fsize \in Nat /\ strm.fed <= fsize
      BY <1>5, <2>1, <2>2 DEF Steered, DsInv, Inv, Placed, Typed, Decompressor
    <3>2. strm.fed = Target(SeekCall(off, "cur"), Position, fsize) /\ strm.fed \in Int
      BY <3>1 DEF Target, SeekCall
    <3>3. strm.fed \in 0..fsize /\ "cur" \in {"set", "cur", "end"} /\ BSeek(off, "cur")
      BY <2>1, <3>1
    <3> HIDE DEF off
    <3>4. /\ want' = 0
          /\ \/ /\ Position' = strm.fed
                /\ breply' = Answer(SeekCall(off, "cur"), strm.fed, <<>>)
             \/ faults' = faults + 1
      BY <1>1, <3>1, <3>2, <3>3, SeekLeads
    <3>5. faults' # faults + 1
      BY <1>1, <2>2
    <3> QED
      BY <3>1, <3>4, <3>5 DEF Answer, Serving
  <2> QED
    BY <1>6, <2>1, <2>2
<1>12. CASE GiveBackFails
  <2>1. /\ pc = "copy" /\ breply.value < 0 /\ strm' = strm
        /\ kind = "compressed" /\ pc \in Using
    BY <1>12 DEF GiveBackFails, DsInv, Phases, Beginning, Using
  <2>2. ASSUME faults' = 0, ~Stage.over PROVE FALSE
    <3>1. breply.value \in Nat
      BY <1>5, <2>1, <2>2 DEF Steered
    <3> QED
      BY <2>1, <3>1
  <2> QED
    BY <1>6, <2>1, <2>2
<1>13. ASSUME UNCHANGED bvars,
              \/ kind' # "compressed"
              \/ pc' \notin Using
              \/ /\ strm' = strm /\ kind = "compressed" /\ pc \in Using
                 /\ pc \notin {"fetched", "back"}
                 /\ pc' \notin {"fetched", "back", "copy", "failed"}
       PROVE  OnCourse'
  <2>1. Position' = Position /\ (Serving' <=> Serving)
    BY <1>13 DEF bvars, Position, Serving
  <2>2. CASE kind' # "compressed" \/ pc' \notin Using
    BY <2>2 DEF OnCourse
  <2>3. CASE /\ strm' = strm /\ kind = "compressed" /\ pc \in Using
             /\ pc \notin {"fetched", "back"}
             /\ pc' \notin {"fetched", "back", "copy", "failed"}
    <3>1. faults' = 0 /\ ~Stage.over => ~Serving /\ Position = strm.fed
      BY <1>5, <2>3 DEF Steered
    <3> QED
      BY <1>6, <2>1, <2>3, <3>1
  <2> QED
    BY <1>13, <2>2, <2>3
<1>14. CASE CopyResult
  <2>1. /\ pc = "copy" /\ pc' \in {"returned", "fetch"} /\ UNCHANGED <<bvars, strm>>
        /\ kind = "compressed" /\ pc \in Using
    BY <1>14 DEF CopyResult, DsInv, Phases, Beginning, Using
  <2> QED
    BY <1>13, <2>1
<1>15. CASE Reading
  <2>1. UNCHANGED <<kind, pc, strm, stream>> /\ BStep /\ Serving
    BY <1>15 DEF Reading, BStep, CopyBuffered, RefillAndCopy, RefillFails
  <2>2. CASE kind = "compressed" /\ pc \in Using
    <3>1. ASSUME faults' = 0, ~Stage.over PROVE pc = "fetched" /\ ReadFrom(strm.fed, Chunk)'
      <4>1. pc = "fetched" /\ ReadFrom(strm.fed, Chunk) /\ strm.fed \in Nat /\ Chunk \in Nat
        BY <1>5, <2>1, <2>2, <3>1, StepsAssumption DEF Steered, DsInv, Typed, Decompressor
      <4>2. PICK p \in Nat : p = strm.fed
        BY <4>1
      <4>3. faults' = faults
        BY <1>1, <3>1
      <4>4. ReadFrom(p, Chunk)'
        BY <1>1, <2>1, <4>1, <4>2, <4>3, ReadGoesOn
      <4> QED
        BY <2>1, <4>1, <4>2, <4>4 DEF ReadFrom
    <3> QED
      BY <1>6, <2>1, <2>2, <3>1
  <2>3. CASE ~(kind = "compressed" /\ pc \in Using)
    BY <2>1, <2>3 DEF OnCourse
  <2> QED
    BY <2>2, <2>3
<1>16. CASE Skip \/ Skipped \/ ReadReturn \/ SeekReturn \/ Measure \/ Restore \/ Measured
  <2>1. UNCHANGED bvars /\ kind' = kind
    BY <1>16 DEF Skip, Skipped, ReadReturn, SeekReturn, Measure, Restore, Measured
  <2>2. kind = "compressed" /\ pc \in {"skip", "returned", "failed", "moved", "stuck", "measure"}
    BY <1>16 DEF Skip, Skipped, ReadReturn, SeekReturn, Measure, Restore, Measured,
                 DsInv, Phases, Beginning, Using
  <2>3. \/ strm' = strm /\ pc' \notin {"fetched", "back", "copy", "failed"}
        \/ pc' \notin Using
    <3>1. ASSUME NEW target, Move(target)
          PROVE  \/ strm' = strm /\ pc' \notin {"fetched", "back", "copy", "failed"}
                 \/ pc' \notin Using
      BY <3>1 DEF Move, Using
    <3>2. CASE Skip \/ Measure
      BY <3>2, BeginReadPhase DEF Skip, Measure
    <3>3. CASE Skipped \/ ReadReturn \/ SeekReturn
      BY <3>3 DEF Skipped, ReadReturn, SeekReturn
    <3>4. CASE Restore \/ Measured
      BY <3>1, <3>4 DEF Restore, Measured
    <3> QED
      BY <1>16, <3>2, <3>3, <3>4
  <2> QED
    BY <1>13, <2>1, <2>2, <2>3 DEF Using
<1>17. ASSUME NEW c \in Calls, Read(c) \/ Seek(c) \/ GetSize(c) \/ PlainCall(c)
       PROVE  OnCourse'
  <2>1. CASE kind # "compressed"
    BY <1>17, <2>1 DEF Read, Seek, GetSize, PlainCall, OnCourse
  <2>2. CASE kind = "compressed"
    <3>1. UNCHANGED bvars /\ pc = "idle"
      BY <1>17, <2>2 DEF Read, Seek, GetSize, PlainCall
    <3>2. \/ strm' = strm /\ pc' \notin {"fetched", "back", "copy", "failed"}
          \/ pc' \notin Using
      <4>1. ASSUME NEW target, Move(target)
            PROVE  \/ strm' = strm /\ pc' \notin {"fetched", "back", "copy", "failed"}
                   \/ pc' \notin Using
        BY <4>1 DEF Move, Using
      <4> QED
        BY <1>17, <2>2, <4>1, BeginReadPhase DEF Read, Seek, GetSize, PlainCall
    <3> QED
      BY <1>13, <2>2, <3>1, <3>2 DEF Using
  <2> QED
    BY <2>1, <2>2
<1>18. CASE PlainReturn \/ Destroy
  <2>1. kind' # "compressed"
    BY <1>18 DEF PlainReturn, Destroy, DsInv, Phases, Beginning, Using
  <2> QED
    BY <2>1 DEF OnCourse
<1>19. CASE UNCHANGED vars
  <2>1. UNCHANGED <<kind, pc, strm, stream>> /\ Position' = Position
        /\ (Serving' <=> Serving) /\ UNCHANGED <<breply, faults, fsize, bcall, got>>
    BY <1>19 DEF vars, bvars, Position, Serving
  <2>2. CASE kind = "compressed" /\ pc \in Using
    <3>1. faults' = 0 => Steered
      BY <1>5, <2>2
    <3>2. ReadFrom(strm.fed, Chunk) => ReadFrom(strm.fed, Chunk)'
      BY <2>1 DEF ReadFrom
    <3> QED
      BY <1>6, <2>1, <2>2, <3>1, <3>2 DEF Steered
  <2>3. CASE ~(kind = "compressed" /\ pc \in Using)
    BY <2>1, <2>3 DEF OnCourse
  <2> QED
    BY <2>2, <2>3
<1> QED
  BY <1>2, <1>3, <1>4, <1>7, <1>8, <1>9, <1>10, <1>11, <1>12, <1>14, <1>15, <1>16, <1>17, <1>18,
     <1>19
  DEF DsNext, Work, Reading

(* The size is only found when the stream, or the file, is at its end. *)
LEMMA SizedNow ==
  ASSUME DsInv, OnCourse, faults = 0, CopyResult \/ FetchedNothing
  PROVE  known' = known \/ (Stage \in Last(stream, fsize) /\ known' = Stage.made)
<1>1. CASE CopyResult
  <2>1. /\ pc = "copy" /\ kind = "compressed" /\ pc \in Using /\ Waiting /\ resultPos = 0
        /\ known' = (IF strm.ended THEN cpos + Made ELSE known) /\ Made \in Nat /\ cpos \in Nat
    BY <1>1, StepsAssumption
    DEF CopyResult, DsInv, Phases, Beginning, Using, Results, Waiting, Typed
  <2>2. strm.ended => Stage \in Last(stream, fsize)
    <3>1. Stage \in Course(stream, fsize)
      BY <2>1 DEF OnCourse, Steered
    <3> QED
      BY <3>1, StageIs DEF Last, AfterChunk
  <2>3. cpos + Made = Stage.made
    BY <2>1, StageIs DEF Waiting
  <2> QED
    BY <2>1, <2>2, <2>3
<1>2. CASE FetchedNothing
  <2>1. /\ pc = "fetched" /\ ~Serving /\ breply.value = 0
        /\ kind = "compressed" /\ pc \in Using /\ known' = cpos
    BY <1>2 DEF FetchedNothing, DsInv, Phases, Beginning, Using
  <2>2. Stage \in Course(stream, fsize) /\ (~Stage.over => ReadFrom(strm.fed, Chunk))
    BY <2>1 DEF OnCourse, Steered
  <2>3. Stage.over \/ Stage.fed >= fsize
    <3> SUFFICES ASSUME ~Stage.over PROVE Stage.fed >= fsize
      OBVIOUS
    <3>1. 0 = Lesser(Chunk, fsize - strm.fed)
      BY <2>1, <2>2 DEF ReadFrom
    <3>2. strm.fed \in Nat /\ Chunk \in Nat \ {0} /\ fsize \in Nat
      BY StepsAssumption DEF DsInv, Inv, Placed, Typed, Decompressor
    <3> QED
      BY <3>1, <3>2, StageIs DEF Lesser
  <2>4. Stage \in Last(stream, fsize)
    BY <2>2, <2>3 DEF Last, AfterChunk
  <2>5. cpos = Stage.made
    <3>1. Waiting /\ resultPos = Made /\ cpos \in Nat
      BY <2>1 DEF DsInv, Results, Typed
    <3> QED
      BY <3>1, StageIs, StepsAssumption DEF Waiting
  <2> QED
    BY <2>1, <2>4, <2>5
<1> QED
  BY <1>1, <1>2

(* Each step keeps a size that has been found. *)
LEMMA SizedKept ==
  ASSUME DsInv, OnCourse, Sized, [DsNext]_vars
  PROVE  Sized' /\ (known # -1 /\ faults = 0 => known' = known)
<1>1. stream' = stream /\ fsize' = fsize /\ (faults' = 0 => faults = 0)
  BY FileKept
<1>2. \/ known' = known
      \/ CopyResult
      \/ FetchedNothing
  <2>1. CASE Work
    BY <2>1 DEF Work, Probe, ProbeRead, Probed, InitDecompressor, ReadHeader, HeaderParsed,
      SeekField, ReadField, ReportField, Rewind, DecompressorReady, InitFails, Fetch, FetchFails,
      Inflate, GiveBack, GiveBackFails, Skip, Skipped, PlainReturn,
      ReadReturn, SeekReturn, Measure, Restore, Measured, Calling
  <2>2. ASSUME NEW c \in Calls, PlainCall(c) \/ Read(c) \/ Seek(c) \/ GetSize(c)
        PROVE  known' = known
    BY <2>2 DEF PlainCall, Read, Seek, GetSize
  <2>3. CASE Destroy \/ UNCHANGED vars
    BY <2>3 DEF Destroy, vars
  <2> QED
    BY <2>1, <2>2, <2>3 DEF DsNext
<1>3. CASE faults # 0
  BY <1>1, <1>3 DEF Sized
<1>4. CASE faults = 0
  <2>1. known' = known \/ (Stage \in Last(stream, fsize) /\ known' = Stage.made)
    BY <1>2, <1>4, SizedNow
  <2>2. known # -1 => known' = known
    <3> SUFFICES ASSUME known # -1, Stage \in Last(stream, fsize), known' = Stage.made
                 PROVE  known' = known
      BY <2>1
    <3>1. PICK s \in Last(stream, fsize) : s.made = known
      BY <1>4 DEF Sized
    <3>2. s = Stage
      BY <3>1, OneLast
    <3> QED
      BY <3>1, <3>2
  <2>3. known' # -1 => \E s \in Last(stream, fsize) : s.made = known'
    BY <1>4, <2>1 DEF Sized
  <2>4. Sized'
    BY <1>1, <2>3 DEF Sized
  <2> QED
    BY <2>2, <2>4
<1> QED
  BY <1>3, <1>4

(* A size that has been found by cfs_read stays: no seek, no restart and   *)
(* no other way of reading finds a different one, on sound, truncated and  *)
(* damaged files alike, unless a system call fails.                        *)
THEOREM SizeAlwaysSettled ==
  ASSUME SeekFaults = FALSE, RestartFaults = FALSE
  PROVE  DsSpec => SizeSettled
<1> DEFINE I == DsInv /\ OnCourse /\ Sized
<1>1. DsInit => I
  <2> SUFFICES ASSUME DsInit PROVE OnCourse /\ Sized
    BY DsInvInit
  <2> QED
    BY DEF DsInit, OnCourse, Sized
<1>2. I /\ [DsNext]_vars => I'
  BY DsInvKept, OnCourseKept, SizedKept
<1>3. I /\ [DsNext]_vars => [known # -1 /\ faults = 0 => known' = known]_vars
  BY SizedKept
<1> QED
  BY <1>1, <1>2, <1>3, PTL DEF DsSpec, SizeSettled
=============================================================================
