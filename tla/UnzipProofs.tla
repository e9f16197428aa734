---------------------------- MODULE UnzipProofs ----------------------------
(***************************************************************************)
(* The reader of ZIP archives finds the end record, it and its searches    *)
(* know where in the directory they are, and reading an entry implements a *)
(* plain source of bytes, for all archives whose directory is where the end*)
(* record says, all sizes of blocks and buffers and all failures.          *)
(***************************************************************************)
EXTENDS Unzip, SequenceTheorems, TLAPS

Handle == [numFile : Nat, pos : Nat, ok : BOOLEAN, cur : Nat, before : Nat]

Placed == archive \in Archives /\ uf \in Handle /\ saved \in Handle /\ back \in Nat

(* The record at the handle's position, if it is one, is that of the entry *)
(* behind those it has passed.                                             *)
Here(h) == /\ h.before = archive.before
           /\ \A i \in Entries : Entry(i).record = h.pos <=> i = h.numFile + 1

(* The entry behind those passed exists, and its record is intact. *)
Present(h) == h.numFile + 1 \in Entries /\ Entry(h.numFile + 1).known

At(h) == Here(h) /\ (h.ok => h.cur = h.numFile + 1 /\ Present(h))

AtPlace == /\ pc \in {"idle", "find", "opening", "read"} => At(uf)
           /\ pc = "find" => At(saved) /\ saved.ok

(* A search has passed entries of other names only. *)
Searched ==
  pc = "find" =>
    /\ archive.declared # 0 => uf.numFile < archive.declared
    /\ \A i \in 1..uf.numFile : i \in Entries /\ Entry(i).known /\ Entry(i).name # wanted
    /\ ~uf.ok => trouble \/ ~Present(uf)

(* No signature lies in the blocks that have been read. *)
Scanned ==
  pc = "locate" =>
    \/ back = SigSize
    \/ /\ back <= Limit
       /\ \A p \in archive.signatures :
            archive.size - back <= p => archive.size < p + SigSize

Inv == Placed /\ AtPlace /\ Searched /\ Scanned

-----------------------------------------------------------------------------
LEMMA ArchiveInPlace ==
  ASSUME Placed PROVE InPlace(archive)
BY ArchivesAssumption DEF Placed

(* The records lie one behind the other. *)
LEMMA RecordsInOrder ==
  ASSUME InPlace(archive), NEW i \in Entries
  PROVE  /\ i \in Nat \ {0} /\ Entry(i).record \in Nat /\ Entry(i).var \in Nat
         /\ i = 1 => Entry(i).record = archive.offset
         /\ \A k \in 1..i : k \in Entries
         /\ \A j \in Entries : i < j =>
              LET behind == Entry(i).record + Item + Entry(i).var
              IN  /\ Entry(j).record \in Nat /\ Entry(j).record >= behind
                  /\ Entry(j).record = behind <=> j = i + 1
<1>1. /\ i \in Nat \ {0} /\ Entry(i).record \in Nat /\ Entry(i).var \in Nat
      /\ i = 1 => Entry(i).record = archive.offset
  BY DEF InPlace, Entries, Entry
<1>2. ASSUME NEW k \in 1..i PROVE k \in Entries
  BY <1>1 DEF InPlace, Entries
<1>3. ASSUME NEW j \in Entries, i < j
      PROVE  LET behind == Entry(i).record + Item + Entry(i).var
             IN  /\ Entry(j).record \in Nat /\ Entry(j).record >= behind
                 /\ Entry(j).record = behind <=> j = i + 1
  <2> DEFINE behind == Entry(i).record + Item + Entry(i).var
  <2>1. j \in Nat /\ Entry(j).record \in Nat
    BY DEF InPlace, Entries, Entry
  <2>2. behind \in Nat
    BY <1>1, SizesAssumption
  <2>3. IF j = i + 1 THEN Entry(j).record = behind ELSE Entry(j).record > behind
    BY <1>3 DEF InPlace, Entries, Entry
  <2> HIDE DEF behind
  <2>4. /\ Entry(j).record >= behind
        /\ Entry(j).record = behind <=> j = i + 1
    BY <2>1, <2>2, <2>3
  <2> QED
    BY <2>1, <2>4 DEF behind
<1> QED
  BY <1>1, <1>2, <1>3

LEMMA FirstHere ==
  ASSUME InPlace(archive), NEW h \in Handle, h.before = archive.before
  PROVE  First(h) \in Handle /\ Here(First(h)) /\ First(h).numFile = 0
<1> DEFINE f == First(h)
<1>1. f \in Handle /\ f.pos = archive.offset /\ f.numFile = 0 /\ f.before = archive.before
  BY DEF First, Handle, InPlace
<1>2. ASSUME NEW i \in Entries PROVE Entry(i).record = f.pos <=> i = f.numFile + 1
  <2>1. i \in Nat \ {0} /\ archive.offset \in Nat
    BY RecordsInOrder DEF InPlace
  <2>2. CASE i = 1
    BY <1>1, <2>2, RecordsInOrder
  <2>3. CASE i # 1
    <3>1. 1 \in Entries /\ 1 < i
      BY <2>1, <2>3, RecordsInOrder
    <3>2. /\ Entry(1).record = archive.offset /\ Entry(1).var \in Nat
          /\ Entry(i).record \in Nat /\ Entry(i).record >= Entry(1).record + Item + Entry(1).var
      BY <3>1, RecordsInOrder
    <3> QED
      BY <1>1, <2>1, <2>3, <3>2, SizesAssumption
  <2> QED
    BY <2>2, <2>3
<1> QED
  BY <1>1, <1>2 DEF Here

LEMMA FollowingHere ==
  ASSUME InPlace(archive), NEW h \in Handle, At(h), h.ok
  PROVE  /\ Following(h) \in Handle /\ Here(Following(h))
         /\ Following(h).numFile = h.numFile + 1
<1> DEFINE f == Following(h)  c == h.cur
<1>1. c \in Entries /\ c = h.numFile + 1 /\ Entry(c).record = h.pos /\ h.numFile \in Nat
  BY DEF At, Here, Present, Handle
<1>2. Entry(c).var \in Nat /\ h.pos \in Nat /\ Item \in Nat \ {0}
  BY <1>1, RecordsInOrder, SizesAssumption DEF Handle
<1>3. /\ f \in Handle /\ f.pos = h.pos + Item + Entry(c).var
      /\ f.numFile = h.numFile + 1 /\ f.before = archive.before
  <2>1. h.before = archive.before
    BY DEF At, Here
  <2>2. f = [h EXCEPT !.pos = @ + Item + Entry(c).var, !.numFile = @ + 1]
    BY DEF Following
  <2>3. h.pos + Item + Entry(c).var \in Nat /\ h.numFile + 1 \in Nat
    BY <1>1, <1>2
  <2> HIDE DEF f
  <2> QED
    BY <2>1, <2>2, <2>3 DEF Handle
<1>4. ASSUME NEW i \in Entries PROVE Entry(i).record = f.pos <=> i = f.numFile + 1
  <2>1. i \in Nat \ {0} /\ Entry(i).record \in Nat /\ Entry(i).var \in Nat
    BY RecordsInOrder
  <2>2. CASE i = c
    BY <1>1, <1>2, <1>3, <2>2
  <2>3. CASE i < c
    <3>1. Entry(c).record >= Entry(i).record + Item + Entry(i).var
      BY <1>1, <2>3, RecordsInOrder
    <3> QED
      BY <1>1, <1>2, <1>3, <2>1, <2>3, <3>1
  <2>4. CASE c < i
    <3>1. Entry(i).record = Entry(c).record + Item + Entry(c).var <=> i = c + 1
      BY <1>1, <2>4, RecordsInOrder
    <3> QED
      BY <1>1, <1>3, <3>1
  <2> QED
    BY <1>1, <2>1, <2>2, <2>3, <2>4
<1> QED
  BY <1>3, <1>4 DEF Here

(* Reading the record tells whether the handle is at an entry. *)
LEMMA InfoHere ==
  ASSUME InPlace(archive), NEW h \in Handle, Here(h)
  PROVE  Info(h) = IF Present(h) THEN {h.numFile + 1} ELSE {}
<1>1. \A i \in Entries : Entry(i).record \in Nat
  BY DEF InPlace, Entries, Entry
<1>2. h.pos \in Nat /\ archive.before \in Nat /\ h.before = archive.before
  BY DEF Handle, InPlace, Here
<1>3. \A i \in Entries : i \in Info(h) <=> (i = h.numFile + 1 /\ Entry(i).known)
  BY <1>1, <1>2 DEF Info, RecordsAt, Here
<1>4. Info(h) \subseteq Entries
  BY DEF Info, RecordsAt
<1> QED
  BY <1>3, <1>4 DEF Present

LEMMA ArrivedAt ==
  ASSUME InPlace(archive), NEW h \in Handle, Here(h)
  PROVE  LET a == Arrived(h)
         IN  /\ a \in Handle /\ At(a) /\ a.numFile = h.numFile
             /\ a.ok <=> Present(a)
<1> DEFINE a == Arrived(h)
<1>1. h.numFile + 1 \in Nat
  BY DEF Handle
<1>2. CASE Present(h)
  <2>1. Info(h) = {h.numFile + 1}
    BY <1>2, InfoHere
  <2>2. a = [h EXCEPT !.ok = TRUE, !.cur = h.numFile + 1]
    BY <2>1 DEF Arrived
  <2>3. /\ a \in Handle /\ a.numFile = h.numFile /\ a.pos = h.pos
        /\ a.before = h.before /\ a.ok = TRUE /\ a.cur = h.numFile + 1
    BY <1>1, <2>2 DEF Handle
  <2> QED
    BY <1>2, <2>3 DEF At, Here, Present
<1>3. CASE ~Present(h)
  <2>1. a = [h EXCEPT !.ok = FALSE]
    BY <1>3, InfoHere DEF Arrived
  <2>2. /\ a \in Handle /\ a.numFile = h.numFile /\ a.pos = h.pos
        /\ a.before = h.before /\ a.ok = FALSE
    BY <2>1 DEF Handle
  <2> QED
    BY <1>3, <2>2 DEF At, Here, Present
<1> QED
  BY <1>2, <1>3

(* So does a record that cannot be read. *)
LEMMA UnreadAt ==
  ASSUME NEW h \in Handle, Here(h)
  PROVE  LET a == [h EXCEPT !.ok = FALSE]
         IN  a \in Handle /\ At(a) /\ a.numFile = h.numFile /\ a.ok = FALSE
BY DEF Handle, At, Here

LEMMA MovedAt ==
  ASSUME InPlace(archive), NEW h \in Handle, Here(h), NEW op, MoveTo(h, op)
  PROVE  uf' \in Handle /\ At(uf') /\ pc' = "idle"
<1>1. CASE uf' = Arrived(h)
  BY <1>1, ArrivedAt DEF MoveTo, Returns
<1>2. CASE uf' = [h EXCEPT !.ok = FALSE]
  BY <1>2, UnreadAt DEF MoveTo, Returns
<1> QED
  BY <1>1, <1>2 DEF MoveTo

(* What is said of a handle holds on while the archive is the same. *)
LEMMA SameArchive ==
  ASSUME archive' = archive
  PROVE  /\ Limit' = Limit
         /\ At(uf)' <=> At(uf')
         /\ At(saved)' <=> At(saved')
         /\ Present(uf)' <=> Present(uf')
BY DEF At, Here, Present, Entries, Entry, Limit

-----------------------------------------------------------------------------
(* The invariant *)

LEMMA InvInit == Init => Inv
BY DEF Init, Inv, Placed, AtPlace, Searched, Scanned, NoHandle, Handle

(* The signatures that have been passed over. *)
LEMMA ScannedOn ==
  ASSUME Inv, pc = "locate", back < Limit
  PROVE  /\ NextBack \in Nat /\ NextBack <= Limit
         /\ Seen = {} => \A p \in archive.signatures :
              archive.size - NextBack <= p => archive.size < p + SigSize
         /\ Seen # {} => LastOf(Seen) \subseteq LastOf(InReach)
<1>1. /\ archive.size \in Nat /\ archive.signatures \subseteq Nat /\ archive.size > SigSize
      /\ back \in Nat /\ Limit \in Nat /\ Limit <= archive.size
      /\ Block \in Nat \ {0} /\ SigSize \in Nat \ {0} /\ MaxBack \in Nat \ {0}
  BY SMTT(30), ArchiveInPlace, SizesAssumption DEF Inv, Placed, InPlace, Limit, Lesser
<1>2. /\ NextBack \in Nat /\ NextBack <= Limit /\ back < NextBack
      /\ NextBack <= back + Block
  BY <1>1 DEF NextBack
<1>3. ASSUME NEW p \in archive.signatures, p + SigSize <= archive.size,
             archive.size - NextBack <= p
      PROVE  p \in Seen
  <2>1. p <= archive.size - back
    <3>1. CASE back = SigSize
      BY <1>1, <1>3, <3>1
    <3>2. CASE back # SigSize
      BY <1>1, <1>3, <3>2 DEF Inv, Scanned
    <3> QED
      BY <3>1, <3>2
  <2>2. p + SigSize <= (archive.size - NextBack) + (Block + SigSize)
    BY <1>1, <1>2, <2>1
  <2>3. p + SigSize <= (archive.size - NextBack) + (archive.size - (archive.size - NextBack))
    BY <1>1, <1>2, <1>3
  <2> QED
    BY <1>1, <1>2, <1>3, <2>2, <2>3 DEF Seen, Lesser
<1>4. ASSUME NEW p \in Seen
      PROVE  p \in archive.signatures /\ p \in Nat /\ p + SigSize <= archive.size
             /\ archive.size - NextBack <= p /\ p \in InReach
  <2>1. p \in archive.signatures /\ archive.size - NextBack <= p
    BY DEF Seen
  <2>2. p + SigSize <= archive.size
    BY <1>1, <1>2 DEF Seen, Lesser
  <2> QED
    BY <1>1, <1>2, <2>1, <2>2 DEF InReach
<1>5. ASSUME Seen = {}, NEW p \in archive.signatures, archive.size - NextBack <= p
      PROVE  archive.size < p + SigSize
  BY <1>1, <1>3, <1>5
<1>6. ASSUME NEW last \in LastOf(Seen) PROVE last \in LastOf(InReach)
  <2>1. last \in Seen /\ \A q \in Seen : q <= last
    BY DEF LastOf
  <2>2. ASSUME NEW q \in InReach PROVE q <= last
    <3>1. q \in archive.signatures /\ q \in Nat /\ q + SigSize <= archive.size
      BY <1>1 DEF InReach
    <3>2. CASE archive.size - NextBack <= q
      BY <1>3, <2>1, <3>1, <3>2
    <3>3. CASE ~(archive.size - NextBack <= q)
      BY <1>1, <1>2, <1>4, <2>1, <3>1, <3>3
    <3> QED
      BY <3>2, <3>3
  <2> QED
    BY <1>4, <2>1, <2>2 DEF LastOf
<1> QED
  BY <1>2, <1>5, <1>6

(* Steps that leave the handle alone and are no part of opening. *)
LEMMA StaysAt ==
  ASSUME Inv, archive' = archive, uf' = uf, saved' = saved, back' = back,
         pc' \in {"idle", "opening", "read", "closed", "dead", "parse"},
         pc \notin {"idle", "find", "opening", "read"} => pc' \in {"closed", "dead", "parse"}
  PROVE  Inv'
BY SameArchive DEF Inv, Placed, AtPlace, Searched, Scanned

(* Steps that end with the handle at another entry. *)
LEMMA ArrivesAt ==
  ASSUME Inv, archive' = archive, uf' \in Handle, At(uf'), saved' = saved,
         back' = back, pc' = "idle"
  PROVE  Inv'
BY SameArchive DEF Inv, Placed, AtPlace, Searched, Scanned

LEMMA LocateKeeps == ASSUME Inv, Locate PROVE Inv'
<1>1. Limit' = Limit /\ archive' = archive
  BY SameArchive DEF Locate
<1>2. /\ uf' = uf /\ saved' = saved /\ back' = NextBack /\ NextBack \in Nat
      /\ pc' \in {"locate", "parse"}
  BY ScannedOn DEF Locate, finding
<1>3. Placed' /\ AtPlace' /\ Searched'
  BY <1>1, <1>2 DEF Inv, Placed, AtPlace, Searched
<1>4. Scanned'
  <2>1. CASE Seen = {}
    BY <1>1, <2>1, ScannedOn DEF Locate, Scanned
  <2>2. CASE Seen # {}
    BY <2>2 DEF Locate, Scanned
  <2> QED
    BY <2>1, <2>2
<1> QED
  BY <1>3, <1>4 DEF Inv

LEMMA ParseKeeps == ASSUME Inv, Parse PROVE Inv'
<1> DEFINE b == central - (archive.offset + archive.directory)
           h == First([NoHandle EXCEPT !.before = b])
<1>1. InPlace(archive)
  BY ArchiveInPlace DEF Inv
<1>2. b = archive.before /\ b \in Nat
  BY <1>1 DEF Parse, InPlace
<1>3. [NoHandle EXCEPT !.before = b] \in Handle /\ [NoHandle EXCEPT !.before = b].before = b
  BY <1>2 DEF NoHandle, Handle
<1>4. h \in Handle /\ Here(h)
  BY <1>1, <1>2, <1>3, FirstHere
<1>5. MoveTo(h, "open")
  BY DEF Parse
<1> HIDE DEF b, h
<1>6. uf' \in Handle /\ At(uf') /\ pc' = "idle"
  BY <1>1, <1>4, <1>5, MovedAt
<1> QED
  BY <1>6, ArrivesAt DEF Parse, opening, finding

LEMMA GoToFirstKeeps == ASSUME Inv, GoToFirst PROVE Inv'
<1>1. InPlace(archive) /\ uf \in Handle /\ uf.before = archive.before
  BY ArchiveInPlace DEF Inv, Placed, AtPlace, At, Here, GoToFirst
<1>2. First(uf) \in Handle /\ Here(First(uf)) /\ MoveTo(First(uf), "first")
  BY <1>1, FirstHere DEF GoToFirst
<1>3. uf' \in Handle /\ At(uf') /\ pc' = "idle"
  BY <1>1, <1>2, MovedAt
<1> QED
  BY <1>3, ArrivesAt DEF GoToFirst, opening, finding

LEMMA GoToNextKeeps == ASSUME Inv, GoToNext PROVE Inv'
<1>1. InPlace(archive) /\ uf \in Handle /\ At(uf) /\ pc = "idle"
  BY ArchiveInPlace DEF Inv, Placed, AtPlace, GoToNext
<1>2. CASE AtLast
  <2>1. uf' = uf /\ pc' = "idle"
    BY <1>2 DEF GoToNext, Returns
  <2> QED
    BY <1>1, <2>1, StaysAt DEF GoToNext, opening, finding
<1>3. CASE ~AtLast
  <2>1. Following(uf) \in Handle /\ Here(Following(uf))
    BY <1>1, <1>3, FollowingHere DEF AtLast
  <2>2. MoveTo(Following(uf), "next")
    BY <1>3 DEF GoToNext
  <2>3. uf' \in Handle /\ At(uf') /\ pc' = "idle"
    BY <1>1, <2>1, <2>2, MovedAt
  <2> QED
    BY <2>3, ArrivesAt DEF GoToNext, opening, finding
<1> QED
  BY <1>2, <1>3

(* A step of a search leads to an entry, or to the end of the directory. *)
LEMMA SearchArrives ==
  ASSUME InPlace(archive), NEW h \in Handle, Here(h),
         \/ uf' = Arrived(h) /\ UNCHANGED trouble
         \/ uf' = [h EXCEPT !.ok = FALSE] /\ Fault
  PROVE  /\ uf' \in Handle /\ At(uf') /\ uf'.numFile = h.numFile
         /\ ~uf'.ok => trouble' \/ ~Present(uf')
<1>1. CASE uf' = Arrived(h)
  BY <1>1, ArrivedAt
<1>2. CASE uf' = [h EXCEPT !.ok = FALSE] /\ Fault
  BY <1>2, UnreadAt DEF Fault
<1> QED
  BY <1>1, <1>2

LEMMA FindKeeps == ASSUME Inv, NEW name \in Names, Find(name) PROVE Inv'
<1>1. InPlace(archive) /\ uf \in Handle /\ At(uf) /\ uf.before = archive.before
  BY ArchiveInPlace DEF Inv, Placed, AtPlace, At, Here, Find
<1>2. archive' = archive /\ back' = back
  BY DEF Find, opening
<1>3. CASE uf.ok
  <2>1. First(uf) \in Handle /\ Here(First(uf)) /\ First(uf).numFile = 0
    BY <1>1, FirstHere
  <2>2. /\ uf' \in Handle /\ At(uf') /\ uf'.numFile = 0
        /\ ~uf'.ok => trouble' \/ ~Present(uf')
    BY <1>1, <1>3, <2>1, SearchArrives DEF Find
  <2>3. saved' = uf /\ pc' = "find"
    BY <1>3 DEF Find
  <2>4. Placed' /\ AtPlace' /\ Scanned'
    BY <1>1, <1>2, <1>3, <2>2, <2>3, SameArchive DEF Inv, Placed, AtPlace, Scanned
  <2>5. archive.declared \in Nat
    BY <1>1 DEF InPlace
  <2>6. Searched'
    BY <1>2, <2>2, <2>5, SameArchive DEF Searched
  <2> QED
    BY <2>4, <2>6 DEF Inv
<1>4. CASE ~uf.ok
  <2>1. uf' = uf /\ saved' = saved /\ pc' = "idle" /\ pc = "idle"
    BY <1>4 DEF Find, Returns
  <2> QED
    BY <1>2, <2>1, StaysAt
<1> QED
  BY <1>3, <1>4

(* The entry that a search looks at has the name that is wanted or not. *)
LEMMA MatchIs ==
  ASSUME Inv, pc = "find", uf.ok
  PROVE  /\ uf.cur = uf.numFile + 1 /\ uf.cur \in Entries /\ Entry(uf.cur).known
         /\ Matches <=> Entry(uf.cur).name = wanted
<1>1. InPlace(archive) /\ uf \in Handle /\ At(uf)
  BY ArchiveInPlace DEF Inv, Placed, AtPlace
<1>2. Present(uf) /\ Here(uf) /\ uf.cur = uf.numFile + 1
  BY <1>1 DEF At
<1>3. Info(uf) = {uf.cur}
  BY <1>1, <1>2, InfoHere
<1> QED
  BY <1>2, <1>3 DEF Matches, Present

LEMMA FindNextKeeps == ASSUME Inv, FindNext PROVE Inv'
<1>1. InPlace(archive) /\ uf \in Handle /\ At(uf) /\ uf.ok /\ pc = "find"
  BY ArchiveInPlace DEF Inv, Placed, AtPlace, FindNext
<1>2. archive' = archive /\ back' = back /\ saved' = saved /\ wanted' = wanted /\ pc' = "find"
  BY <1>1 DEF FindNext, opening, finding
<1>3. /\ Following(uf) \in Handle /\ Here(Following(uf))
      /\ Following(uf).numFile = uf.numFile + 1
  BY <1>1, FollowingHere
<1>4. /\ uf' \in Handle /\ At(uf') /\ uf'.numFile = uf.numFile + 1
      /\ ~uf'.ok => trouble' \/ ~Present(uf')
  BY <1>1, <1>3, SearchArrives DEF FindNext
<1>5. Placed' /\ AtPlace' /\ Scanned'
  BY <1>1, <1>2, <1>4, SameArchive DEF Inv, Placed, AtPlace, Scanned
<1>6. archive.declared \in Nat /\ uf.numFile \in Nat
  BY <1>1 DEF InPlace, Handle
<1>7. archive.declared # 0 => uf.numFile + 1 < archive.declared
  BY <1>1, <1>6 DEF FindNext, AtLast, Inv, Searched
<1>8. ASSUME NEW i \in 1..uf.numFile + 1
      PROVE  i \in Entries /\ Entry(i).known /\ Entry(i).name # wanted
  <2>1. CASE i \in 1..uf.numFile
    BY <1>1, <2>1 DEF Inv, Searched
  <2>2. CASE i = uf.numFile + 1
    BY <1>1, <2>2, MatchIs DEF FindNext
  <2> QED
    BY <1>6, <2>1, <2>2
<1>9. Entries' = Entries /\ \A i : Entry(i)' = Entry(i)
  BY <1>2 DEF Entries, Entry
<1>10. Searched'
  BY <1>2, <1>4, <1>7, <1>8, <1>9, SameArchive DEF Searched
<1> QED
  BY <1>5, <1>10 DEF Inv

LEMMA FindFailsKeeps == ASSUME Inv, FindFails PROVE Inv'
<1>1. uf \in Handle /\ saved \in Handle /\ At(saved) /\ saved.ok
  BY DEF Inv, Placed, AtPlace, FindFails
<1>2. uf' = [saved EXCEPT !.ok = uf.ok] /\ pc' = "idle"
  BY DEF FindFails, Returns
<1>3. uf' \in Handle /\ At(uf')
  BY <1>1, <1>2 DEF Handle, At, Here, Present
<1> QED
  BY <1>2, <1>3, ArrivesAt DEF FindFails, opening, finding

LEMMA OpenKeeps == ASSUME Inv, Open PROVE Inv'
BY SizesAssumption DEF Open, Inv, Placed, AtPlace, Searched, Scanned, finding

(* The other steps leave the handle alone. *)
LEMMA OpeningFailsKeeps == ASSUME Inv, NotLocated \/ NotParsed PROVE Inv'
<1>1. /\ archive' = archive /\ uf' = uf /\ saved' = saved /\ back' = back
      /\ pc' = "closed"
  BY DEF NotLocated, NotParsed, OpenFails, opening, finding
<1> QED
  BY <1>1, StaysAt

LEMMA OthersKeep ==
  ASSUME Inv,
         \/ GetInfo \/ GetComment \/ FindMatch
         \/ OpenCurrent \/ HeaderRead \/ HeaderFails
         \/ \E c \in Calls : ReadCurrent(c)
         \/ AllCopied \/ Refill \/ RefillFails \/ CopyStored \/ Inflate
         \/ CloseCurrent \/ Overrun
  PROVE  Inv'
<1> DEFINE Same == archive' = archive /\ uf' = uf /\ saved' = saved /\ back' = back
<1>1. ASSUME Same, pc' \in {"idle", "opening", "read"},
             pc \in {"idle", "find", "opening", "read"}
      PROVE  Inv'
  BY <1>1, StaysAt
<1>2. CASE GetInfo \/ GetComment \/ FindMatch
  BY <1>1, <1>2 DEF GetInfo, GetComment, FindMatch, Returns, opening, finding
<1>3. CASE OpenCurrent \/ HeaderRead \/ HeaderFails \/ CloseCurrent
  BY <1>1, <1>3 DEF OpenCurrent, HeaderRead, HeaderFails, CloseCurrent, Returns,
                    opening, finding
<1>4. CASE \E c \in Calls : ReadCurrent(c)
  BY <1>1, <1>4 DEF ReadCurrent, opening, finding
<1>5. CASE AllCopied \/ Refill \/ RefillFails
  BY <1>1, <1>5 DEF AllCopied, Refill, RefillFails, Hungry, ReadReturns, opening, finding
<1>6. CASE CopyStored
  <2>1. pc = "read" /\ Same /\ pc' \in {"read", "idle"}
    BY <1>6 DEF CopyStored, Fed, ReadReturns, opening, finding
  <2> QED
    BY <1>1, <2>1
<1>7. CASE Inflate
  <2>1. pc = "read" /\ Same /\ pc' \in {"read", "idle"}
    BY <1>7 DEF Inflate, Fed, ReadReturns, opening, finding
  <2> QED
    BY <1>1, <2>1
<1>8. CASE Overrun
  <2>1. Same /\ pc' = "dead"
    BY <1>8 DEF Overrun, opening, finding
  <2> QED
    BY <2>1, StaysAt
<1> QED
  BY <1>2, <1>3, <1>4, <1>5, <1>6, <1>7, <1>8

LEMMA CloseKeeps == ASSUME Inv, Close PROVE Inv'
<1>1. NoHandle \in Handle
  BY DEF NoHandle, Handle
<1> QED
  BY <1>1 DEF Close, Inv, Placed, AtPlace, Searched, Scanned, opening, finding

LEMMA InvStep == Inv /\ [Next]_vars => Inv'
<1> SUFFICES ASSUME Inv, [Next]_vars PROVE Inv'
  OBVIOUS
<1>1. CASE UNCHANGED vars
  <2>1. /\ archive' = archive /\ uf' = uf /\ saved' = saved /\ back' = back
        /\ pc' = pc /\ trouble' = trouble /\ wanted' = wanted
    BY <1>1 DEF vars, opening, finding
  <2> QED
    BY <2>1 DEF Inv, Placed, AtPlace, Searched, Scanned, At, Here, Present, Entries,
                Entry, Limit
<1>2. CASE Next
  BY <1>2, OpenKeeps, LocateKeeps, OpeningFailsKeeps, ParseKeeps, GoToFirstKeeps,
     GoToNextKeeps, FindKeeps, FindNextKeeps, FindFailsKeeps, OthersKeep, CloseKeeps
  DEF Next
<1> QED
  BY <1>1, <1>2

LEMMA Invariant == Spec => []Inv
BY InvInit, InvStep, PTL DEF Spec

-----------------------------------------------------------------------------
(* What the reader remembers of the current entry is always what its record*)
(* says, and it has counted the entries right, however searches fail in    *)
(* between (EXTRACTOR_common_unzip_go_find_local_file).                    *)
THEOREM CurrentAlwaysAt == Spec => []CurrentIsAt
<1>1. Inv => CurrentIsAt
  <2> SUFFICES ASSUME Inv, pc = "idle", uf.ok
               PROVE  Info(uf) = {uf.cur} /\ uf.cur = uf.numFile + 1
    BY DEF CurrentIsAt
  <2>1. InPlace(archive) /\ uf \in Handle /\ At(uf)
    BY ArchiveInPlace DEF Inv, Placed, AtPlace
  <2> QED
    BY <2>1, InfoHere DEF At
<1> QED
  BY <1>1, Invariant, PTL

(* The end record found is the last thing in reach with its signature, for *)
(* every file and every size of the blocks read (locate_central_directory).*)
THEOREM LastAlwaysLocated == Spec => LocatesLast
<1> DEFINE Found == pc = "locate" /\ pc' # "locate" =>
                      IF pc' = "parse" THEN central' \in LastOf(InReach)
                                       ELSE trouble' \/ InReach = {}
<1>1. ASSUME Inv, [Next]_vars PROVE Found
  <2> SUFFICES ASSUME pc = "locate", pc' # "locate"
               PROVE  IF pc' = "parse" THEN central' \in LastOf(InReach)
                                       ELSE trouble' \/ InReach = {}
    OBVIOUS
  <2>1. Locate \/ NotLocated \/ Overrun
    BY <1>1 DEF Next, vars, Open, Parse, NotParsed, GoToFirst, GoToNext, GetInfo,
                GetComment, Find, FindMatch, FindNext, FindFails, OpenCurrent,
                HeaderRead, HeaderFails, ReadCurrent, AllCopied, Refill, RefillFails,
                Hungry, CopyStored, Inflate, Fed, CloseCurrent, Close
  <2>2. CASE Locate
    BY <1>1, <2>2, ScannedOn DEF Locate
  <2>3. CASE NotLocated
    <3>1. CASE trouble'
      BY <2>3, <3>1 DEF NotLocated, OpenFails
    <3>2. CASE ~trouble'
      <4>1. /\ archive.size \in Nat /\ archive.signatures \subseteq Nat
            /\ archive.size > SigSize /\ SigSize \in Nat /\ MaxBack \in Nat
            /\ SigSize < MaxBack /\ back \in Nat
        BY <1>1, ArchiveInPlace, SizesAssumption DEF Inv, Placed, InPlace
      <4>2. back >= Limit /\ pc' = "closed"
        BY <2>3, <3>2 DEF NotLocated, Fault, OpenFails
      <4>3. back <= Limit /\ \A p \in archive.signatures :
              archive.size - back <= p => archive.size < p + SigSize
        BY <1>1, <4>1, <4>2 DEF Inv, Scanned, Limit, Lesser
      <4>4. Limit \in Nat
        BY <4>1 DEF Limit, Lesser
      <4>5. ASSUME NEW p \in InReach PROVE FALSE
        <5>1. /\ p \in archive.signatures /\ p \in Nat
              /\ archive.size - Limit <= p /\ p + SigSize <= archive.size
          BY <4>1 DEF InReach
        <5>2. back = Limit
          BY <4>1, <4>2, <4>3, <4>4
        <5> QED
          BY <4>1, <4>3, <5>1, <5>2
      <4> QED
        BY <4>2, <4>5
    <3> QED
      BY <3>1, <3>2
  <2>4. CASE Overrun
    BY <2>4 DEF Overrun
  <2> QED
    BY <2>1, <2>2, <2>3, <2>4
<1> HIDE DEF Found
<1>2. Inv /\ [Next]_vars => [Found]_vars
  BY <1>1
<1>3. Spec => [][Found]_vars
  BY <1>2, Invariant, PTL DEF Spec
<1> QED
  BY <1>3 DEF LocatesLast, Found

(* Without a current entry, the directory could not be read or was left.   *)
Strayed ==
  /\ pc \in {"idle", "opening", "read"} =>
       /\ archive.declared # 0 => uf.numFile < archive.declared
       /\ ~uf.ok => trouble \/ archive.declared \notin Listed
  /\ pc = "find" => (archive.declared # 0 => saved.numFile < archive.declared)

LEMMA NotListed ==
  ASSUME InPlace(archive), NEW h \in Handle, ~Present(h),
         archive.declared # 0 => h.numFile < archive.declared
  PROVE  archive.declared \notin Listed
<1> SUFFICES ASSUME archive.declared \in Listed PROVE FALSE
  OBVIOUS
<1>1. archive.declared \in Entries /\ \A j \in 1..archive.declared : Entry(j).known
  BY DEF Listed
<1>2. archive.declared \in Nat \ {0} /\ h.numFile \in Nat
  BY <1>1, RecordsInOrder DEF Handle
<1>3. h.numFile + 1 \in 1..archive.declared
  BY <1>2
<1>4. h.numFile + 1 \in Entries
  BY <1>1, <1>3, RecordsInOrder
<1> QED
  BY <1>1, <1>3, <1>4 DEF Present

(* A step that moves to another entry. *)
LEMMA StraysBy ==
  ASSUME InPlace(archive), NEW h \in Handle, Here(h),
         archive.declared # 0 => h.numFile < archive.declared,
         \/ uf' = Arrived(h) /\ UNCHANGED trouble
         \/ uf' = [h EXCEPT !.ok = FALSE] /\ Fault
  PROVE  /\ archive.declared # 0 => uf'.numFile < archive.declared
         /\ ~uf'.ok => trouble' \/ archive.declared \notin Listed
<1>1. /\ uf' \in Handle /\ uf'.numFile = h.numFile
      /\ ~uf'.ok => trouble' \/ ~Present(uf')
  BY SearchArrives
<1>2. Present(uf') <=> Present(h)
  BY <1>1 DEF Present
<1> QED
  BY <1>1, <1>2, NotListed

LEMMA SameListed == ASSUME archive' = archive PROVE Listed' = Listed
BY DEF Listed, Entries, Entry

LEMMA MovesStrayed ==
  ASSUME Inv, Strayed, Parse \/ GoToFirst \/ GoToNext PROVE Strayed'
<1>1. /\ InPlace(archive) /\ archive.declared \in Nat /\ archive' = archive
      /\ Listed' = Listed /\ pc' = "idle"
  BY SMTT(30), ArchiveInPlace, SameListed
  DEF Inv, InPlace, Parse, GoToFirst, GoToNext, MoveTo, Returns
<1> SUFFICES /\ archive.declared # 0 => uf'.numFile < archive.declared
             /\ ~uf'.ok => trouble' \/ archive.declared \notin Listed
  BY <1>1 DEF Strayed
<1>2. ASSUME NEW h \in Handle, Here(h), NEW op, MoveTo(h, op),
             archive.declared # 0 => h.numFile < archive.declared
      PROVE  /\ archive.declared # 0 => uf'.numFile < archive.declared
             /\ ~uf'.ok => trouble' \/ archive.declared \notin Listed
  BY <1>1, <1>2, StraysBy DEF MoveTo
<1>3. CASE Parse
  <2> DEFINE b == central - (archive.offset + archive.directory)
             h == First([NoHandle EXCEPT !.before = b])
  <2>1. b = archive.before /\ b \in Nat
    BY <1>1, <1>3 DEF Parse, InPlace
  <2>2. [NoHandle EXCEPT !.before = b] \in Handle /\ [NoHandle EXCEPT !.before = b].before = b
    BY <2>1 DEF NoHandle, Handle
  <2>3. h \in Handle /\ Here(h) /\ h.numFile = 0
    BY <1>1, <2>1, <2>2, FirstHere
  <2>4. MoveTo(h, "open")
    BY <1>3 DEF Parse
  <2> HIDE DEF b, h
  <2>5. archive.declared # 0 => h.numFile < archive.declared
    BY <1>1, <2>3
  <2> QED
    BY <1>2, <2>3, <2>4, <2>5
<1>4. CASE GoToFirst
  <2>1. uf \in Handle /\ uf.before = archive.before
    BY <1>4 DEF Inv, Placed, AtPlace, At, Here, GoToFirst
  <2>2. /\ First(uf) \in Handle /\ Here(First(uf)) /\ MoveTo(First(uf), "first")
        /\ First(uf).numFile = 0
    BY <1>1, <1>4, <2>1, FirstHere DEF GoToFirst
  <2>3. archive.declared # 0 => First(uf).numFile < archive.declared
    BY <1>1, <2>2
  <2> QED
    BY <1>2, <2>2, <2>3
<1>5. CASE GoToNext
  <2>1. /\ uf \in Handle /\ At(uf) /\ uf.numFile \in Nat
        /\ archive.declared # 0 => uf.numFile < archive.declared
        /\ ~uf.ok => trouble \/ archive.declared \notin Listed
    BY <1>5 DEF Inv, Placed, AtPlace, GoToNext, Handle, Strayed
  <2>2. CASE AtLast
    BY <1>5, <2>1, <2>2 DEF GoToNext
  <2>3. CASE ~AtLast
    <3>1. /\ Following(uf) \in Handle /\ Here(Following(uf))
          /\ Following(uf).numFile = uf.numFile + 1
      BY <1>1, <2>1, <2>3, FollowingHere DEF AtLast
    <3>2. archive.declared # 0 => Following(uf).numFile < archive.declared
      BY <1>1, <2>1, <2>3, <3>1 DEF AtLast
    <3>3. MoveTo(Following(uf), "next")
      BY <1>5, <2>3 DEF GoToNext
    <3> QED
      BY <1>2, <3>1, <3>2, <3>3
  <2> QED
    BY <2>2, <2>3
<1> QED
  BY <1>3, <1>4, <1>5

LEMMA FindStrayed ==
  ASSUME Inv, Strayed, NEW name \in Names, Find(name) PROVE Strayed'
<1>1. archive' = archive /\ Listed' = Listed /\ pc = "idle"
  BY SameListed DEF Find
<1>2. CASE uf.ok
  BY <1>1, <1>2 DEF Find, Strayed
<1>3. CASE ~uf.ok
  BY <1>1, <1>3 DEF Find, Strayed, Returns
<1> QED
  BY <1>2, <1>3

LEMMA SearchStrayed ==
  ASSUME Inv, Strayed, FindMatch \/ FindNext \/ FindFails PROVE Strayed'
<1>1. archive' = archive /\ Listed' = Listed /\ pc = "find"
  BY SameListed DEF FindMatch, FindNext, FindFails
<1>2. /\ uf \in Handle /\ saved \in Handle /\ InPlace(archive)
      /\ archive.declared # 0 => uf.numFile < archive.declared
      /\ ~uf.ok => trouble \/ ~Present(uf)
      /\ archive.declared # 0 => saved.numFile < archive.declared
  BY <1>1, ArchiveInPlace DEF Inv, Placed, Searched, Strayed
<1>3. CASE FindMatch
  BY <1>1, <1>2, <1>3 DEF FindMatch, Matches, Returns, Strayed
<1>4. CASE FindNext
  BY <1>1, <1>2, <1>4 DEF FindNext, finding, Strayed
<1>5. CASE FindFails
  <2>1. /\ uf' = [saved EXCEPT !.ok = uf.ok] /\ pc' = "idle"
        /\ ~uf.ok => trouble' = trouble
    BY <1>5 DEF FindFails, Returns
  <2>2. uf'.ok = uf.ok /\ uf'.numFile = saved.numFile
    BY <1>2, <2>1 DEF Handle
  <2>3. ~uf.ok => trouble \/ archive.declared \notin Listed
    BY <1>2, NotListed
  <2> QED
    BY <1>1, <1>2, <2>1, <2>2, <2>3 DEF Strayed
<1> QED
  BY <1>3, <1>4, <1>5

(* The other steps leave the handle alone, or its archive is not open. *)
LEMMA OthersStrayed ==
  ASSUME Strayed,
         \/ Open \/ Locate \/ NotLocated \/ NotParsed \/ GetInfo \/ GetComment
         \/ OpenCurrent \/ HeaderRead \/ HeaderFails
         \/ \E c \in Calls : ReadCurrent(c)
         \/ AllCopied \/ Refill \/ RefillFails \/ CopyStored \/ Inflate
         \/ CloseCurrent \/ Close \/ Overrun
  PROVE  Strayed'
<1>1. ASSUME pc' \in {"closed", "locate", "parse", "dead"} PROVE Strayed'
  BY <1>1 DEF Strayed
<1>2. ASSUME archive' = archive, uf' = uf, trouble' = trouble \/ trouble' = TRUE,
             pc \in {"idle", "opening", "read"}, pc' \in {"idle", "opening", "read"}
      PROVE  Strayed'
  BY <1>2, SameListed DEF Strayed
<1>3. CASE Open \/ Locate \/ NotLocated \/ NotParsed \/ Close \/ Overrun
  BY <1>1, <1>3 DEF Open, Locate, NotLocated, NotParsed, OpenFails, Close, Overrun
<1>4. CASE GetInfo \/ GetComment
  BY <1>2, <1>4 DEF GetInfo, GetComment, Returns, Fault
<1>5. CASE OpenCurrent \/ HeaderRead \/ HeaderFails \/ CloseCurrent
  BY <1>2, <1>5 DEF OpenCurrent, HeaderRead, HeaderFails, CloseCurrent, Returns, Fault
<1>6. CASE \E c \in Calls : ReadCurrent(c)
  BY <1>2, <1>6 DEF ReadCurrent
<1>7. CASE AllCopied \/ Refill \/ RefillFails
  BY <1>2, <1>7 DEF AllCopied, Refill, RefillFails, Hungry, ReadReturns, Fault
<1>8. CASE CopyStored
  BY <1>2, <1>8 DEF CopyStored, Fed, ReadReturns
<1>9. CASE Inflate
  BY <1>2, <1>9 DEF Inflate, Fed, ReadReturns
<1> QED
  BY <1>3, <1>4, <1>5, <1>6, <1>7, <1>8, <1>9

LEMMA StrayedStep == Inv /\ Strayed /\ [Next]_vars => Strayed'
<1> SUFFICES ASSUME Inv, Strayed, [Next]_vars PROVE Strayed'
  OBVIOUS
<1>1. CASE UNCHANGED vars
  BY <1>1, SameListed DEF vars, finding, Strayed
<1>2. CASE Next
  BY <1>2, MovesStrayed, FindStrayed, SearchStrayed, OthersStrayed DEF Next
<1> QED
  BY <1>1, <1>2

LEMMA AlwaysStrayed == Spec => []Strayed
<1>1. Init => Strayed
  BY DEF Init, Strayed
<1> QED
  BY <1>1, Invariant, StrayedStep, PTL DEF Spec

(* How a search ends: it finds the first entry of that name, or has looked *)
(* at all of them; it fails, or has not looked, only if the directory could*)
(* not be read or was left before (go_find_local_file, current_file_ok).   *)
THEOREM SearchAlwaysTells == Spec => SearchTells
<1> DEFINE Told ==
      SearchEnds =>
        CASE result'.value = "ok" ->
               /\ uf'.ok /\ uf'.cur \in Listed
               /\ Entry(uf'.cur).name = wanted
               /\ \A i \in 1..(uf'.cur - 1) : Entry(i).name # wanted
          [] result'.value = "end" /\ uf.ok ->
               /\ uf' = saved
               /\ \A i \in Listed : Entry(i).name # wanted
          [] OTHER ->
               /\ uf' = [(IF pc = "find" THEN saved ELSE uf) EXCEPT !.ok = uf'.ok]
               /\ trouble' \/ archive.declared \notin Listed
<1>1. ASSUME Inv, Strayed, [Next]_vars PROVE Told
  <2> SUFFICES ASSUME SearchEnds PROVE Told
    OBVIOUS
  <2>1. FindMatch \/ FindFails \/ (\E name \in Names : Find(name) /\ ~uf.ok)
    <3>1. /\ pc' = "idle" /\ result'.op = "find"
          /\ pc = "find" \/ ~(result' = result /\ wanted' = wanted)
      BY DEF SearchEnds
    <3>2. CASE UNCHANGED vars
      BY <3>1, <3>2 DEF vars, finding
    <3>3. ASSUME NEW name \in Names, Find(name)
          PROVE  Find(name) /\ ~uf.ok
      BY <3>1, <3>3 DEF Find
    <3>4. ASSUME Open \/ Locate \/ NotLocated \/ NotParsed \/ Close \/ Overrun
          PROVE  FALSE
      BY <3>1, <3>4 DEF Open, Locate, NotLocated, NotParsed, OpenFails, Close, Overrun
    <3>5. ASSUME Parse \/ GoToFirst \/ GoToNext \/ GetInfo \/ GetComment \/ HeaderFails
                   \/ HeaderRead \/ CloseCurrent
          PROVE  FALSE
      BY <3>1, <3>5 DEF Parse, GoToFirst, GoToNext, MoveTo, GetInfo, GetComment,
                        HeaderFails, HeaderRead, CloseCurrent, Returns, Result
    <3>6. ASSUME OpenCurrent PROVE FALSE
      BY <3>1, <3>6 DEF OpenCurrent, Returns, Result
    <3>7. ASSUME \E c \in Calls : ReadCurrent(c) PROVE FALSE
      BY <3>1, <3>7 DEF ReadCurrent, finding
    <3>8. ASSUME AllCopied \/ Refill \/ RefillFails PROVE FALSE
      BY <3>1, <3>8 DEF AllCopied, Refill, RefillFails, Hungry, finding
    <3>9. ASSUME CopyStored PROVE FALSE
      BY <3>1, <3>9 DEF CopyStored, Fed, finding
    <3>10. ASSUME Inflate PROVE FALSE
      BY <3>1, <3>10 DEF Inflate, Fed, finding
    <3>11. ASSUME FindNext PROVE FALSE
      BY <3>1, <3>11 DEF FindNext
    <3> QED
      BY <1>1, <3>2, <3>3, <3>4, <3>5, <3>6, <3>7, <3>8, <3>9, <3>10, <3>11 DEF Next
  <2>2. /\ archive.declared \in Nat /\ uf \in Handle /\ uf.numFile \in Nat
        /\ saved \in Handle /\ Entries \subseteq Nat
    BY SMTT(30), <1>1, ArchiveInPlace DEF Inv, Placed, InPlace, Handle, Entries
  <2>3. pc = "find" =>
          /\ saved.ok
          /\ archive.declared # 0 => uf.numFile < archive.declared
          /\ \A i \in 1..uf.numFile : i \in Entries /\ Entry(i).known /\ Entry(i).name # wanted
    BY <1>1 DEF Inv, AtPlace, Searched
  <2>4. CASE FindMatch
    <3>1. /\ uf' = uf /\ result'.value = "ok" /\ uf.ok /\ Matches /\ pc = "find"
      BY <2>4 DEF FindMatch, Returns, Result, Matches
    <3>2. /\ uf.cur = uf.numFile + 1 /\ uf.cur \in Entries /\ Entry(uf.cur).known
          /\ Entry(uf.cur).name = wanted
      BY <1>1, <3>1, MatchIs
    <3>3. uf.cur \in Listed
      BY <2>2, <2>3, <3>1, <3>2 DEF Listed
    <3>4. \A i \in 1..(uf.cur - 1) : Entry(i).name # wanted
      BY <2>2, <2>3, <3>1, <3>2
    <3> QED
      BY <3>1, <3>2, <3>3, <3>4
  <2>5. CASE FindFails
    <3>1. uf' = [saved EXCEPT !.ok = uf.ok] /\ uf'.ok = uf.ok /\ pc = "find"
      BY <2>2, <2>5 DEF FindFails, Handle
    <3>2. CASE ~uf.ok /\ Returns("find", "error") /\ UNCHANGED trouble
      <4>1. trouble \/ ~Present(uf)
        BY <1>1, <3>1, <3>2 DEF Inv, Searched
      <4>2. ~Present(uf) => archive.declared \notin Listed
        BY <1>1, <2>2, <2>3, <3>1, ArchiveInPlace, NotListed DEF Inv
      <4> QED
        BY <3>1, <3>2, <4>1, <4>2 DEF Returns, Result
    <3>3. CASE uf.ok /\ ~Matches /\ AtLast /\ Returns("find", "end") /\ UNCHANGED trouble
      <4>1. uf.cur = uf.numFile + 1 /\ Entry(uf.cur).name # wanted
        BY <1>1, <3>1, <3>3, MatchIs
      <4>2. archive.declared = uf.numFile + 1
        BY <3>3 DEF AtLast
      <4>3. \A i \in Listed : Entry(i).name # wanted
        <5> SUFFICES ASSUME NEW i \in Listed PROVE Entry(i).name # wanted
          OBVIOUS
        <5>1. i \in Entries /\ i <= uf.numFile + 1
          BY <2>2, <4>2 DEF Listed
        <5>2. i \in Nat \ {0}
          BY <1>1, <5>1, ArchiveInPlace, RecordsInOrder DEF Inv
        <5>3. i \in 1..uf.numFile \/ i = uf.numFile + 1
          BY <2>2, <5>1, <5>2
        <5> QED
          BY <2>3, <3>1, <4>1, <5>3
      <4>4. uf' = saved
        BY <2>2, <2>3, <3>1, <3>3 DEF Handle
      <4> QED
        BY <3>3, <4>3, <4>4 DEF Returns, Result
    <3>4. CASE uf.ok /\ Returns("find", "error") /\ Fault
      BY <3>1, <3>4 DEF Returns, Result, Fault
    <3> QED
      BY <2>5, <3>2, <3>3, <3>4 DEF FindFails
  <2>6. ASSUME NEW name \in Names, Find(name), ~uf.ok PROVE Told
    <3>1. /\ result'.value = "end" /\ uf' = uf /\ trouble' = trouble /\ pc = "idle"
      BY <2>6 DEF Find, Returns, Result
    <3>2. trouble \/ archive.declared \notin Listed
      BY <1>1, <2>6, <3>1 DEF Strayed
    <3>3. uf' = [uf EXCEPT !.ok = uf'.ok]
      BY <2>2, <3>1 DEF Handle
    <3> QED
      BY <2>6, <3>1, <3>2, <3>3
  <2> QED
    BY <2>1, <2>4, <2>5, <2>6
<1> HIDE DEF Told
<1>2. Inv /\ Strayed /\ [Next]_vars => [Told]_vars
  BY <1>1
<1>3. Spec => [][Told]_vars
  BY <1>2, Invariant, AlwaysStrayed, PTL DEF Spec
<1> QED
  BY <1>3 DEF SearchTells, Told

-----------------------------------------------------------------------------
(* Reading an entry *)

(* Where the data of an entry begins, and how much of it has been used.    *)
Begin(i)  == Entry(i).header + Local + Entry(i).lvar
Behind(p) == p.pos - p.availIn - Begin(p.entry)

Reader == [entry : Nat \ {0}, pos : Nat, before : Nat, restC : Nat, restU : Nat,
           availIn : Nat, summed : Seq(Int)]

(* The reader of an open entry has handed out the beginning of the entry,  *)
(* and knows how much input and output there is left.  The input it has    *)
(* used is that of a stored entry's output; it is no further than the end  *)
(* or the damage of a compressed one, and expands to all of the output.    *)
Fits(p) ==
  /\ p \in Reader /\ p.entry \in Entries /\ p.before = archive.before
  /\ p.pos + p.restC = Begin(p.entry) + Entry(p.entry).csize
  /\ Behind(p) \in Nat
  /\ p.restU + Len(p.summed) = Entry(p.entry).usize
  /\ p.summed = Run(0, Len(p.summed))
  /\ Entry(p.entry).method = "stored" => Behind(p) = Len(p.summed)
  /\ Entry(p.entry).method = "deflated" =>
       /\ Behind(p) <= EndOf(p.entry) /\ Len(p.summed) <= Plain(p.entry, Behind(p))
       /\ Entry(p.entry).bad # 0 => Behind(p) < Entry(p.entry).bad

Reading == pfile # NULL => Fits(pfile)

(* What a read has copied are the last bytes handed out, and it still wants*)
(* the rest of what it was called for, or of what there is.                *)
Copying ==
  pc = "read" =>
    /\ pfile # NULL /\ call \in Calls
    /\ out \in Seq(Int) /\ Len(out) <= Len(pfile.summed)
    /\ out = Run(Len(pfile.summed) - Len(out), Len(out))
    /\ availOut \in Nat /\ availOut + Len(out) = Lesser(call.count, pfile.restU + Len(out))

(* An entry is opened where there is one, and nothing is left of a read.   *)
Aside == /\ pc = "opening" => uf.ok /\ pfile = NULL
         /\ pc \notin {"read", "dead"} => out = <<>>

EntryInv == Inv /\ Reading /\ Copying /\ Aside

LEMMA RunIs ==
  ASSUME NEW b \in Int, NEW k \in Nat
  PROVE  /\ Run(b, k) \in Seq(Int) /\ Len(Run(b, k)) = k
         /\ \A i \in 1..k : Run(b, k)[i] = b + i - 1
BY DEF Run

(* Bytes that follow each other are one run of bytes. *)
LEMMA RunJoined ==
  ASSUME NEW a \in Int, NEW m \in Nat, NEW n \in Nat
  PROVE  Run(a, m) \o Run(a + m, n) = Run(a, m + n)
<1> DEFINE s == Run(a, m)  t == Run(a + m, n)  u == Run(a, m + n)
<1>1. s \in Seq(Int) /\ Len(s) = m /\ \A i \in 1..m : s[i] = a + i - 1
  BY RunIs
<1>2. t \in Seq(Int) /\ Len(t) = n /\ \A i \in 1..n : t[i] = (a + m) + i - 1
  <2>1. a + m \in Int
    OBVIOUS
  <2> QED
    BY <2>1, RunIs
<1>3. u \in Seq(Int) /\ Len(u) = m + n /\ \A i \in 1..m + n : u[i] = a + i - 1
  <2>1. m + n \in Nat
    OBVIOUS
  <2> QED
    BY <2>1, RunIs
<1> HIDE DEF s, t, u
<1>4. /\ s \o t \in Seq(Int) /\ Len(s \o t) = m + n
      /\ \A i \in 1..m + n : (s \o t)[i] = IF i <= m THEN s[i] ELSE t[i - m]
  BY <1>1, <1>2, ConcatProperties
<1>5. ASSUME NEW i \in 1..m + n PROVE (s \o t)[i] = u[i]
  <2>1. CASE i <= m
    BY <2>1, <1>1, <1>3, <1>4
  <2>2. CASE ~(i <= m)
    <3>1. (s \o t)[i] = t[i - m]
      BY <2>2, <1>4
    <3>2. t[i - m] = (a + m) + (i - m) - 1
      <4>1. i - m \in 1..n
        BY <2>2
      <4> QED
        BY <4>1, <1>2
    <3>3. (a + m) + (i - m) - 1 = a + i - 1
      OBVIOUS
    <3>4. u[i] = a + i - 1
      BY <1>3
    <3> QED
      BY <3>1, <3>2, <3>3, <3>4
  <2> QED
    BY <2>1, <2>2
<1>6. s \o t = u
  BY <1>3, <1>4, <1>5, SeqEqual
<1> QED
  BY <1>6 DEF s, t, u

LEMMA EntryIs ==
  ASSUME Placed, NEW i \in Entries
  PROVE  /\ i \in Nat \ {0} /\ archive.before \in Nat /\ archive.size \in Nat /\ Local \in Nat
         /\ Entry(i).header \in Nat /\ Entry(i).lvar \in Nat /\ Entry(i).csize \in Nat
         /\ Entry(i).usize \in Nat /\ Entry(i).bad \in Nat
         /\ EndOf(i) \in Nat /\ PlainSize(i) \in Nat
         /\ \A k \in 0..EndOf(i) : Plain(i, k) \in Nat /\ Plain(i, k) <= PlainSize(i)
         /\ \A j, k \in 0..EndOf(i) : j <= k => Plain(i, j) <= Plain(i, k)
         /\ Entry(i).method = "stored" => \A k \in 0..EndOf(i) : Plain(i, k) = k
<1>1. Described(Entry(i)) /\ InPlace(archive)
  BY ArchiveInPlace, EntriesAssumption DEF Placed, Entries, Entry
<1>2. /\ i \in Nat \ {0} /\ archive.before \in Nat /\ archive.size \in Nat /\ Local \in Nat
      /\ Entry(i).header \in Nat /\ Entry(i).lvar \in Nat /\ Entry(i).csize \in Nat
      /\ Entry(i).usize \in Nat /\ Entry(i).bad \in Nat
  BY <1>1, RecordsInOrder, SizesAssumption DEF Described, InPlace
<1> DEFINE plain == Entry(i).plain
<1>3. /\ plain \in Seq(Nat) /\ plain # <<>>
      /\ \A j, k \in DOMAIN plain : j <= k => plain[j] <= plain[k]
      /\ Entry(i).method = "stored" => \A k \in DOMAIN plain : plain[k] = k - 1
  BY <1>1 DEF Described
<1>4. EndOf(i) = Len(plain) - 1 /\ \A k : Plain(i, k) = plain[k + 1]
  BY DEF EndOf, Plain
<1> HIDE DEF plain
<1>5. Len(plain) \in Nat \ {0} /\ DOMAIN plain = 1..Len(plain)
  BY <1>3
<1>6. EndOf(i) \in Nat /\ \A k \in 0..EndOf(i) : k + 1 \in DOMAIN plain
  BY <1>4, <1>5
<1>7. \A k \in 0..EndOf(i) : Plain(i, k) \in Nat
  BY SMTT(30), <1>3, <1>4, <1>5, <1>6
<1>8. \A j, k \in 0..EndOf(i) : j <= k => Plain(i, j) <= Plain(i, k)
  BY <1>3, <1>4, <1>6
<1>9. Entry(i).method = "stored" => \A k \in 0..EndOf(i) : Plain(i, k) = k
  BY <1>3, <1>4, <1>6
<1> QED
  BY <1>2, <1>6, <1>7, <1>8, <1>9 DEF PlainSize

(* What is said of a reader does not change while the archive is the same. *)
LEMMA SameFits ==
  ASSUME archive' = archive
  PROVE  /\ Fits(pfile)' <=> Fits(pfile')
         /\ Entries' = Entries /\ \A i : Entry(i)' = Entry(i)
         /\ \A i : Corrupt(i)' <=> Corrupt(i)
BY DEF Fits, Behind, Begin, EndOf, Plain, Entries, Entry, Corrupt, PlainSize, DataOf

(* The parts of what Fits says that its steps need as numbers. *)
LEMMA FitsIs ==
  ASSUME Placed, NEW p, Fits(p)
  PROVE  /\ p \in Reader /\ p.entry \in Entries /\ p.before = archive.before
         /\ p.pos \in Nat /\ p.restC \in Nat /\ p.restU \in Nat /\ p.availIn \in Nat
         /\ p.summed \in Seq(Int) /\ Len(p.summed) \in Nat /\ p.summed = Run(0, Len(p.summed))
         /\ Begin(p.entry) \in Nat /\ Behind(p) \in Nat
         /\ p.pos = Begin(p.entry) + Behind(p) + p.availIn
         /\ Behind(p) + p.availIn + p.restC = Entry(p.entry).csize
         /\ p.restU + Len(p.summed) = Entry(p.entry).usize
         /\ p # NULL
<1>1. /\ p \in Reader /\ p.entry \in Entries /\ p.before = archive.before
      /\ p.pos + p.restC = Begin(p.entry) + Entry(p.entry).csize
      /\ Behind(p) \in Nat
      /\ p.restU + Len(p.summed) = Entry(p.entry).usize
      /\ p.summed = Run(0, Len(p.summed))
  BY DEF Fits
<1>2. /\ p.entry \in Nat \ {0} /\ p.pos \in Nat /\ p.restC \in Nat /\ p.restU \in Nat
      /\ p.availIn \in Nat /\ p.summed \in Seq(Int)
  BY <1>1 DEF Reader
<1>3. Len(p.summed) \in Nat
  BY <1>2
<1>4. Begin(p.entry) \in Nat /\ Entry(p.entry).csize \in Nat
  BY SMTT(30), <1>1, EntryIs DEF Begin
<1>5. Behind(p) = p.pos - p.availIn - Begin(p.entry)
  BY DEF Behind
<1>6. /\ p.pos = Begin(p.entry) + Behind(p) + p.availIn
      /\ Behind(p) + p.availIn + p.restC = Entry(p.entry).csize
  <2> DEFINE b == Behind(p)  begin == Begin(p.entry)  csize == Entry(p.entry).csize
             pos == p.pos  restC == p.restC  availIn == p.availIn
  <2>1. /\ b \in Nat /\ begin \in Nat /\ csize \in Nat
        /\ pos \in Nat /\ restC \in Nat /\ availIn \in Nat
        /\ pos + restC = begin + csize /\ b = pos - availIn - begin
    BY <1>1, <1>2, <1>4, <1>5
  <2> HIDE DEF b, begin, csize, pos, restC, availIn
  <2>2. pos = begin + b + availIn /\ b + availIn + restC = csize
    BY <2>1
  <2> QED
    BY <2>2 DEF b, begin, csize, pos, restC, availIn
<1>7. p # NULL
  BY <1>2 DEF NULL
<1> QED
  BY <1>1, <1>2, <1>3, <1>4, <1>6, <1>7

LEMMA InputIs ==
  ASSUME Placed, Fits(pfile)
  PROVE  InputAt = Behind(pfile) /\ DataOf(pfile.entry) = archive.before + Begin(pfile.entry)
<1>1. /\ pfile.entry \in Entries /\ pfile.before = archive.before /\ pfile.pos \in Nat
      /\ pfile.availIn \in Nat
  BY FitsIs
<1>2. /\ archive.before \in Nat /\ Local \in Nat /\ Entry(pfile.entry).header \in Nat
      /\ Entry(pfile.entry).lvar \in Nat
  BY <1>1, EntryIs
<1> QED
  BY <1>1, <1>2 DEF InputAt, Behind, DataOf, Begin

(* A portion of input is read. *)
LEMMA FitsFilled ==
  ASSUME Placed, NEW p, Fits(p), p.availIn = 0, NEW n \in Nat, n <= p.restC, NEW q,
         q = [p EXCEPT !.pos = @ + n, !.restC = @ - n, !.availIn = n]
  PROVE  Fits(q) /\ q.entry = p.entry /\ q.restU = p.restU /\ q.summed = p.summed
<1>1. /\ p \in Reader /\ p.entry \in Entries /\ p.before = archive.before
      /\ p.pos \in Nat /\ p.restC \in Nat /\ p.restU \in Nat
      /\ Begin(p.entry) \in Nat
  BY FitsIs
<1>2. /\ q \in Reader /\ q.entry = p.entry /\ q.before = p.before /\ q.pos = p.pos + n
      /\ q.restC = p.restC - n /\ q.restU = p.restU /\ q.availIn = n /\ q.summed = p.summed
  <2> DEFINE pos == p.pos + n  restC == p.restC - n
  <2>1. pos \in Nat /\ restC \in Nat
    BY <1>1
  <2>2. q = [p EXCEPT !.pos = pos, !.restC = restC, !.availIn = n]
    OBVIOUS
  <2> HIDE DEF pos, restC
  <2>3. /\ q \in Reader /\ q.entry = p.entry /\ q.before = p.before /\ q.pos = pos
        /\ q.restC = restC /\ q.restU = p.restU /\ q.availIn = n /\ q.summed = p.summed
    BY <1>1, <2>1, <2>2 DEF Reader
  <2> QED
    BY <2>3 DEF pos, restC
<1>3. Behind(q) = Behind(p)
  BY <1>1, <1>2 DEF Behind
<1>4. q.pos + q.restC = p.pos + p.restC
  BY <1>1, <1>2
<1> QED
  BY <1>1, <1>2, <1>3, <1>4 DEF Fits

(* n bytes are handed out, for which k bytes of input are used. *)
Further(p, n, k) == [p EXCEPT !.restU = @ - n, !.availIn = @ - k,
                              !.summed = @ \o Run(Len(p.summed), n)]

LEMMA FitsFurther ==
  ASSUME Placed, NEW p, Fits(p), NEW n \in Nat, n <= p.restU, NEW k \in Nat, k <= p.availIn,
         Entry(p.entry).method = "stored" => k = n,
         Entry(p.entry).method = "deflated" =>
           /\ Behind(p) + k <= EndOf(p.entry)
           /\ Len(p.summed) + n <= Plain(p.entry, Behind(p) + k)
           /\ Entry(p.entry).bad # 0 => Behind(p) + k < Entry(p.entry).bad,
         NEW q, q = Further(p, n, k)
  PROVE  /\ Fits(q) /\ q.entry = p.entry /\ q.restU = p.restU - n
         /\ Len(q.summed) = Len(p.summed) + n
<1>1. /\ p \in Reader /\ p.entry \in Entries /\ p.before = archive.before
      /\ p.pos \in Nat /\ p.restC \in Nat /\ p.restU \in Nat /\ p.availIn \in Nat
      /\ Begin(p.entry) \in Nat /\ Behind(p) \in Nat
      /\ p.summed \in Seq(Int) /\ Len(p.summed) \in Nat /\ p.summed = Run(0, Len(p.summed))
      /\ p.restU + Len(p.summed) = Entry(p.entry).usize
  BY FitsIs
<1> DEFINE m == Len(p.summed)  s == p.summed \o Run(m, n)
<1>2. /\ s \in Seq(Int) /\ Len(s) = m + n /\ s = Run(0, m + n)
  <2>1. 0 + m = m /\ 0 \in Int /\ m \in Nat /\ m + n \in Nat
    BY <1>1
  <2>2. Run(0, m) \o Run(0 + m, n) = Run(0, m + n)
    BY <2>1, RunJoined
  <2>3. s = Run(0, m + n)
    BY <1>1, <2>1, <2>2
  <2> QED
    BY <2>1, <2>3, RunIs
<1> DEFINE restU == p.restU - n  availIn == p.availIn - k
<1>3. restU \in Nat /\ availIn \in Nat
  BY SMTT(30), <1>1
<1>4. q = [p EXCEPT !.restU = restU, !.availIn = availIn, !.summed = s]
  BY DEF Further
<1> HIDE DEF s, restU, availIn
<1>5. /\ q \in Reader /\ q.entry = p.entry /\ q.before = p.before /\ q.pos = p.pos
      /\ q.restC = p.restC /\ q.restU = restU /\ q.availIn = availIn /\ q.summed = s
  BY <1>1, <1>2, <1>3, <1>4 DEF Reader
<1>6. Behind(q) = Behind(p) + k
  BY SMTT(30), <1>1, <1>5 DEF Behind, availIn
<1>7. Behind(q) \in Nat
  BY <1>1, <1>6
<1>8. q.restU + Len(q.summed) = Entry(q.entry).usize
  <2>1. restU + (m + n) = p.restU + m
    BY <1>1 DEF restU
  <2> QED
    BY <1>1, <1>2, <1>5, <2>1
<1>9. q.pos + q.restC = Begin(q.entry) + Entry(q.entry).csize
  BY <1>5 DEF Fits
<1>10. Entry(q.entry).method = "stored" => Behind(q) = Len(q.summed)
  BY <1>1, <1>2, <1>5, <1>6 DEF Fits
<1>11. Entry(q.entry).method = "deflated" =>
       /\ Behind(q) <= EndOf(q.entry) /\ Len(q.summed) <= Plain(q.entry, Behind(q))
       /\ Entry(q.entry).bad # 0 => Behind(q) < Entry(q.entry).bad
  BY <1>2, <1>5, <1>6
<1>12. q.summed = Run(0, Len(q.summed))
  BY <1>2, <1>5
<1> QED
  BY <1>1, <1>2, <1>5, <1>7, <1>8, <1>9, <1>10, <1>11, <1>12 DEF Fits, restU
-----------------------------------------------------------------------------
(* A step of a read hands out n bytes more.                                *)
HandsOut(n) ==
  /\ n <= availOut /\ n <= pfile.restU /\ archive' = archive
  /\ Fits(pfile') /\ pfile'.entry = pfile.entry
  /\ pfile'.restU = pfile.restU - n /\ Len(pfile'.summed) = Len(pfile.summed) + n

Copied(n) == out \o Run(Len(pfile.summed), n)

GoesOn(n) == /\ out' = Copied(n) /\ availOut' = availOut - n
             /\ UNCHANGED <<pc, call, reply>>

(* It ends with all that was called for, or with a good reason.            *)
Ends(n) ==
  /\ pc' = "idle" /\ out' = <<>>
  /\ \/ /\ reply' = Answer(call, Len(out) + n, Copied(n))
        /\ n # availOut => Corrupt(pfile.entry)
     \/ /\ \E v \in {-1, -3, -5} : reply' = Answer(call, v, <<>>)
        /\ trouble' \/ Corrupt(pfile.entry)

LEMMA NothingCopied ==
  ASSUME EntryInv, pc = "read"
  PROVE  Copied(0) = out
<1>1. out \in Seq(Int) /\ Fits(pfile) /\ Placed
  BY DEF EntryInv, Copying, Reading, Inv
<1>2. Run(Len(pfile.summed), 0) = <<>>
  BY DEF Run
<1> QED
  BY <1>1, <1>2 DEF Copied

(* A read knows what there is left. *)
LEMMA CopyingIs ==
  ASSUME EntryInv, pc = "read"
  PROVE  /\ Placed /\ Fits(pfile) /\ pfile # NULL /\ pfile.restU \in Nat /\ call \in Calls
         /\ out \in Seq(Int) /\ Len(out) \in Nat /\ Len(pfile.summed) \in Nat
         /\ Len(out) <= Len(pfile.summed)
         /\ out = Run(Len(pfile.summed) - Len(out), Len(out))
         /\ availOut \in Nat /\ availOut <= pfile.restU
         /\ availOut + Len(out) = Lesser(call.count, pfile.restU + Len(out))
<1>1. /\ Placed /\ Fits(pfile) /\ pfile # NULL /\ call \in Calls
      /\ out \in Seq(Int) /\ Len(out) <= Len(pfile.summed)
      /\ out = Run(Len(pfile.summed) - Len(out), Len(out))
      /\ availOut \in Nat /\ availOut + Len(out) = Lesser(call.count, pfile.restU + Len(out))
  BY DEF EntryInv, Copying, Reading, Inv
<1>2. pfile.restU \in Nat /\ Len(pfile.summed) \in Nat
  BY <1>1, FitsIs
<1>3. Len(out) \in Nat
  BY <1>1
<1>4. call.count \in Nat
  BY <1>1, CallsAssumption
<1>5. availOut <= pfile.restU
  BY <1>1, <1>2, <1>3, <1>4 DEF Lesser
<1> QED
  BY <1>1, <1>2, <1>3, <1>5

(* A damaged entry is the only one whose input ends early. *)
LEMMA SoundIs ==
  ASSUME Placed, Fits(pfile), ~Corrupt(pfile.entry)
  PROVE  /\ Entry(pfile.entry).usize = PlainSize(pfile.entry)
         /\ Entry(pfile.entry).csize = EndOf(pfile.entry)
         /\ Entry(pfile.entry).bad = 0
         /\ archive.before + Begin(pfile.entry) + EndOf(pfile.entry) <= archive.size
<1>1. pfile.entry \in Entries
  BY FitsIs
<1>2. /\ archive.before \in Nat /\ archive.size \in Nat /\ EndOf(pfile.entry) \in Nat
      /\ Entry(pfile.entry).bad \in Nat /\ Begin(pfile.entry) \in Nat
  BY <1>1, EntryIs, FitsIs
<1>3. DataOf(pfile.entry) = archive.before + Begin(pfile.entry)
  BY InputIs
<1> QED
  BY <1>2, <1>3 DEF Corrupt

LEMMA AllCopiedSteps ==
  ASSUME EntryInv, AllCopied
  PROVE  HandsOut(0) /\ Ends(0)
<1>1. pc = "read" /\ pfile' = pfile /\ archive' = archive /\ availOut = 0
  BY DEF AllCopied
<1>2. reply' = Answer(call, Len(out), out) /\ pc' = "idle" /\ out' = <<>>
  BY DEF AllCopied, ReadReturns
<1>3. Copied(0) = out /\ Fits(pfile) /\ pfile.restU \in Nat /\ Len(pfile.summed) \in Nat
      /\ Len(out) \in Nat
  BY <1>1, NothingCopied, CopyingIs
<1>4. Fits(pfile)
  BY <1>3
<1>5. HandsOut(0)
  BY <1>1, <1>3, <1>4 DEF HandsOut
<1>6. Len(out) + 0 = Len(out)
  BY <1>3
<1> QED
  BY <1>1, <1>2, <1>3, <1>5, <1>6 DEF Ends

LEMMA PortionIs ==
  ASSUME EntryInv, Hungry
  PROVE  /\ Portion \in Nat /\ Portion <= pfile.restC
         /\ ~Reaches => Corrupt(pfile.entry)
<1>1. pc = "read" /\ pfile.availIn = 0
  BY DEF Hungry
<1>2. Placed /\ Fits(pfile)
  BY <1>1, CopyingIs
<1>3. /\ pfile.entry \in Entries /\ pfile.before = archive.before
      /\ pfile.restC \in Nat /\ pfile.pos \in Nat
      /\ Begin(pfile.entry) \in Nat /\ Behind(pfile) \in Nat
      /\ pfile.pos = Begin(pfile.entry) + Behind(pfile) + pfile.availIn
      /\ Behind(pfile) + pfile.availIn + pfile.restC = Entry(pfile.entry).csize
  BY <1>2, FitsIs
<1>4. Portion \in Nat /\ Portion <= pfile.restC
  BY <1>3, SizesAssumption DEF Portion, Lesser
<1>5. archive.before \in Nat /\ archive.size \in Nat
  BY <1>2, <1>3, EntryIs
<1>6. ASSUME ~Corrupt(pfile.entry) PROVE Reaches
  <2>1. /\ Entry(pfile.entry).csize = EndOf(pfile.entry)
        /\ archive.before + Begin(pfile.entry) + EndOf(pfile.entry) <= archive.size
    BY <1>2, <1>6, SoundIs
  <2>2. pfile.pos + pfile.restC = Begin(pfile.entry) + EndOf(pfile.entry)
    BY <1>1, <1>3, <2>1
  <2>3. archive.before + pfile.pos + Portion <= archive.size
    <3> DEFINE b == archive.before  p == pfile.pos  n == Portion  r == pfile.restC
               g == Begin(pfile.entry)  e == EndOf(pfile.entry)  s == archive.size
    <3>1. /\ b \in Nat /\ p \in Nat /\ n \in Nat /\ r \in Nat /\ g \in Nat /\ s \in Nat
          /\ n <= r /\ p + r = g + e /\ b + g + e <= s /\ e \in Nat
      BY <1>2, <1>3, <1>4, <1>5, <2>1, <2>2, EntryIs
    <3> HIDE DEF b, p, n, r, g, e, s
    <3>2. b + p + n <= s
      BY <3>1
    <3> QED
      BY <3>2 DEF b, p, n, s
  <2> QED
    BY <1>3, <2>3 DEF Reaches
<1> QED
  BY <1>4, <1>6

LEMMA RefillSteps ==
  ASSUME EntryInv, Refill
  PROVE  HandsOut(0) /\ GoesOn(0)
<1>1. /\ Hungry /\ pc = "read" /\ archive' = archive /\ pc' = pc /\ reply' = reply
      /\ out' = out /\ availOut' = availOut /\ call' = call
      /\ pfile' = [pfile EXCEPT !.pos = @ + Portion, !.restC = @ - Portion, !.availIn = Portion]
      /\ pfile.availIn = 0
  BY DEF Refill, Hungry, reading
<1>2. /\ Placed /\ Fits(pfile) /\ Copied(0) = out /\ pfile.restU \in Nat
      /\ Len(pfile.summed) \in Nat /\ availOut \in Nat
  BY <1>1, NothingCopied, CopyingIs
<1>3. Portion \in Nat /\ Portion <= pfile.restC
  BY <1>1, PortionIs
<1>4. /\ Fits(pfile') /\ pfile'.entry = pfile.entry /\ pfile'.restU = pfile.restU
      /\ pfile'.summed = pfile.summed
  BY <1>1, <1>2, <1>3, FitsFilled
<1>5. HandsOut(0)
  BY <1>1, <1>2, <1>4 DEF HandsOut
<1> QED
  BY <1>1, <1>2, <1>5 DEF GoesOn

LEMMA RefillFailsSteps ==
  ASSUME EntryInv, RefillFails
  PROVE  HandsOut(0) /\ Ends(0)
<1>1. /\ Hungry /\ pc = "read" /\ archive' = archive /\ pfile' = pfile
      /\ reply' = Answer(call, -1, <<>>) /\ pc' = "idle" /\ out' = <<>>
      /\ ~Reaches \/ trouble'
  BY DEF RefillFails, Hungry, ReadReturns, Fault
<1>2. /\ Placed /\ Fits(pfile) /\ pfile.restU \in Nat
      /\ Len(pfile.summed) \in Nat /\ availOut \in Nat
  BY <1>1, CopyingIs
<1>3. trouble' \/ Corrupt(pfile.entry)
  BY <1>1, PortionIs
<1>4. HandsOut(0)
  BY <1>1, <1>2 DEF HandsOut
<1> QED
  BY <1>1, <1>3, <1>4 DEF Ends

LEMMA CopyStoredSteps ==
  ASSUME EntryInv, CopyStored
  PROVE  \E n \in Nat : HandsOut(n) /\ (GoesOn(n) \/ Ends(n))
<1>1. /\ pc = "read" /\ archive' = archive /\ availOut > 0
      /\ ~(pfile.availIn = 0 /\ pfile.restC > 0)
      /\ Entry(pfile.entry).method = "stored"
  BY DEF CopyStored, Fed
<1>2. /\ Placed /\ Fits(pfile) /\ Copied(0) = out /\ pfile.restU \in Nat
      /\ Len(pfile.summed) \in Nat /\ availOut \in Nat /\ Len(out) \in Nat
      /\ availOut <= pfile.restU
  BY <1>1, NothingCopied, CopyingIs
<1>3. /\ pfile.entry \in Entries /\ pfile.availIn \in Nat /\ pfile.restC \in Nat
      /\ Behind(pfile) \in Nat
      /\ Behind(pfile) + pfile.availIn + pfile.restC = Entry(pfile.entry).csize
      /\ pfile.restU + Len(pfile.summed) = Entry(pfile.entry).usize
  BY <1>2, FitsIs
<1>4. Behind(pfile) = Len(pfile.summed) /\ InputAt = Len(pfile.summed)
  BY <1>1, <1>2, InputIs DEF Fits
<1>5. CASE pfile.availIn = 0
  <2>1. /\ reply' = Answer(call, Len(out), out) /\ pc' = "idle" /\ out' = <<>> /\ pfile' = pfile
    BY <1>1, <1>5 DEF CopyStored, ReadReturns
  <2>2. HandsOut(0)
    BY <1>1, <1>2, <2>1 DEF HandsOut
  <2>3. Corrupt(pfile.entry)
    <3> SUFFICES ASSUME ~Corrupt(pfile.entry) PROVE FALSE
      OBVIOUS
    <3>1. /\ Entry(pfile.entry).usize = PlainSize(pfile.entry)
          /\ Entry(pfile.entry).csize = EndOf(pfile.entry)
      BY <1>2, SoundIs
    <3>2. PlainSize(pfile.entry) = EndOf(pfile.entry) /\ EndOf(pfile.entry) \in Nat
      <4>1. /\ EndOf(pfile.entry) \in Nat
            /\ \A k \in 0..EndOf(pfile.entry) : Plain(pfile.entry, k) = k
        BY <1>1, <1>2, <1>3, EntryIs
      <4>2. EndOf(pfile.entry) \in 0..EndOf(pfile.entry)
        BY <4>1
      <4> QED
        BY <4>1, <4>2 DEF PlainSize
    <3>3. pfile.restC = 0
      BY <1>1, <1>3, <1>5
    <3>4. Behind(pfile) = EndOf(pfile.entry)
      BY <1>3, <1>5, <3>1, <3>2, <3>3
    <3>5. pfile.restU = 0
      BY <1>2, <1>3, <1>4, <3>1, <3>2, <3>4
    <3> QED
      BY <1>1, <1>2, <3>5
  <2>4. Len(out) + 0 = Len(out)
    BY <1>2
  <2> QED
    BY <1>2, <2>1, <2>2, <2>3, <2>4 DEF Ends
<1>6. CASE pfile.availIn # 0
  <2> DEFINE n == Lesser(availOut, pfile.availIn)
  <2>1. n \in Nat /\ n <= availOut /\ n <= pfile.availIn /\ n <= pfile.restU
    BY <1>2, <1>3 DEF Lesser
  <2>2. Len(Run(InputAt, n)) = n
    <3>1. InputAt \in Int
      BY <1>2, <1>4
    <3> QED
      BY <2>1, <3>1, RunIs
  <2>3. /\ out' = out \o Run(InputAt, n) /\ availOut' = availOut - Len(Run(InputAt, n))
        /\ pfile' = [pfile EXCEPT !.restU = @ - Len(Run(InputAt, n)),
                                  !.availIn = @ - Len(Run(InputAt, n)),
                                  !.summed = @ \o Run(InputAt, n)]
        /\ UNCHANGED <<pc, call, reply>>
    BY <1>6 DEF CopyStored, Copies
  <2> HIDE DEF n
  <2>4. pfile' = [pfile EXCEPT !.restU = @ - n, !.availIn = @ - n,
                               !.summed = @ \o Run(Len(pfile.summed), n)]
    BY <1>4, <2>2, <2>3
  <2>5. /\ Fits(pfile') /\ pfile'.entry = pfile.entry /\ pfile'.restU = pfile.restU - n
        /\ Len(pfile'.summed) = Len(pfile.summed) + n
    <3>1. PICK q : q = pfile'
      OBVIOUS
    <3>2. ~(Entry(pfile.entry).method = "deflated")
      BY <1>1
    <3>3. q = Further(pfile, n, n)
      BY <2>4, <3>1 DEF Further
    <3>4. /\ Fits(q) /\ q.entry = pfile.entry /\ q.restU = pfile.restU - n
          /\ Len(q.summed) = Len(pfile.summed) + n
      BY <1>2, <2>1, <3>2, <3>3, FitsFurther
    <3> QED
      BY <3>1, <3>4
  <2>6. HandsOut(n)
    BY <1>1, <2>1, <2>5 DEF HandsOut
  <2>7. GoesOn(n)
    BY <1>4, <2>2, <2>3 DEF GoesOn, Copied
  <2> QED
    BY <2>1, <2>6, <2>7
<1> QED
  BY <1>5, <1>6

(* What inflate can make of the input it has is what there is, and it has  *)
(* not made more so far.                                                   *)
LEMMA UsableIs ==
  ASSUME Placed, Fits(pfile), Entry(pfile.entry).method = "deflated"
  PROVE  /\ Usable \in Nat /\ InputAt \in Nat /\ pfile.availIn \in Nat
         /\ InputAt <= Usable /\ Usable <= InputAt + pfile.availIn
         /\ Usable <= EndOf(pfile.entry) /\ EndOf(pfile.entry) \in Nat
         /\ Entry(pfile.entry).bad # 0 => Usable < Entry(pfile.entry).bad
         /\ Entry(pfile.entry).bad \in Nat
         /\ Entry(pfile.entry).bad = 0 =>
              Usable = EndOf(pfile.entry) \/ Usable = InputAt + pfile.availIn
         /\ Plain(pfile.entry, Usable) \in Nat
         /\ Len(pfile.summed) \in Nat /\ Len(pfile.summed) <= Plain(pfile.entry, Usable)
         /\ Ended => Plain(pfile.entry, Usable) = PlainSize(pfile.entry)
<1> DEFINE i == pfile.entry  b == Behind(pfile)  a == pfile.availIn  e == EndOf(i)
           d == Entry(i).bad  m == Len(pfile.summed)
<1>1. i \in Entries /\ a \in Nat /\ b \in Nat /\ m \in Nat /\ InputAt = b
  BY FitsIs, InputIs
<1>2. /\ e \in Nat /\ d \in Nat
      /\ \A k \in 0..e : Plain(i, k) \in Nat
      /\ \A j, k \in 0..e : j <= k => Plain(i, j) <= Plain(i, k)
  BY <1>1, EntryIs
<1>3. b <= e /\ m <= Plain(i, b) /\ (d # 0 => b < d)
  BY DEF Fits
<1>4. Usable = IF d = 0 THEN Lesser(b + a, e) ELSE Lesser(Lesser(b + a, e), d - 1)
  BY <1>1 DEF Usable
<1> DEFINE u == Usable
<1>5. Ended <=> u = e
  BY DEF Ended
<1>6. Plain(i, e) = PlainSize(i)
  BY DEF PlainSize
<1> HIDE DEF i, b, a, e, d, m, u
<1>7. /\ u \in Nat /\ b <= u /\ u <= b + a /\ u <= e
      /\ d # 0 => u < d
      /\ d = 0 => u = e \/ u = b + a
  BY <1>1, <1>2, <1>3, <1>4 DEF Lesser, u
<1>8. u \in 0..e /\ b \in 0..e
  BY <1>1, <1>2, <1>3, <1>7
<1>9. Plain(i, u) \in Nat /\ Plain(i, b) \in Nat /\ Plain(i, b) <= Plain(i, u)
  BY <1>2, <1>7, <1>8
<1>10. m <= Plain(i, u)
  BY <1>1, <1>3, <1>9
<1>11. Ended => Plain(i, u) = PlainSize(i)
  BY <1>5, <1>6
<1> QED
  BY <1>1, <1>2, <1>7, <1>9, <1>10, <1>11 DEF i, b, a, e, d, m, u

LEMMA InflateSteps ==
  ASSUME EntryInv, Inflate
  PROVE  \E n \in Nat : HandsOut(n) /\ (GoesOn(n) \/ Ends(n))
<1>1. /\ pc = "read" /\ archive' = archive /\ availOut > 0
      /\ ~(pfile.availIn = 0 /\ pfile.restC > 0)
      /\ Entry(pfile.entry).method = "deflated"
  BY DEF Inflate, Fed
<1>2. /\ Placed /\ Fits(pfile) /\ pfile.restU \in Nat
      /\ Len(pfile.summed) \in Nat /\ availOut \in Nat /\ Len(out) \in Nat
      /\ availOut <= pfile.restU /\ out \in Seq(Int)
  BY <1>1, CopyingIs
<1>3. /\ pfile.entry \in Entries /\ pfile.restC \in Nat
      /\ Behind(pfile) + pfile.availIn + pfile.restC = Entry(pfile.entry).csize
      /\ pfile.restU + Len(pfile.summed) = Entry(pfile.entry).usize
      /\ InputAt = Behind(pfile)
  BY <1>2, FitsIs, InputIs
<1>4. /\ Usable \in Nat /\ InputAt \in Nat /\ pfile.availIn \in Nat
      /\ InputAt <= Usable /\ Usable <= InputAt + pfile.availIn
      /\ Usable <= EndOf(pfile.entry) /\ EndOf(pfile.entry) \in Nat
      /\ Entry(pfile.entry).bad # 0 => Usable < Entry(pfile.entry).bad
      /\ Entry(pfile.entry).bad \in Nat
      /\ Entry(pfile.entry).bad = 0 =>
           Usable = EndOf(pfile.entry) \/ Usable = InputAt + pfile.availIn
      /\ Plain(pfile.entry, Usable) \in Nat
      /\ Len(pfile.summed) <= Plain(pfile.entry, Usable)
      /\ Ended => Plain(pfile.entry, Usable) = PlainSize(pfile.entry)
  BY <1>1, <1>2, UsableIs
<1> DEFINE made  == Len(pfile.summed)
           n     == Lesser(availOut, Plain(pfile.entry, Usable) - made)
           bytes == Run(made, n)
<1>5. /\ n \in Nat /\ n <= availOut /\ n <= pfile.restU
      /\ made + n <= Plain(pfile.entry, Usable)
      /\ n # availOut => made + n = Plain(pfile.entry, Usable)
  BY SMTT(30), <1>2, <1>4 DEF Lesser
<1>6. bytes \in Seq(Int) /\ Len(bytes) = n
  <2>1. made \in Int
    BY <1>2
  <2> QED
    BY <1>5, <2>1, RunIs
<1>7. PICK eaten \in InputAt..Usable :
        /\ Plain(pfile.entry, eaten) >= made + Len(bytes)
        /\ ~(Len(bytes) = availOut) => eaten = Usable
        /\ pfile' = [pfile EXCEPT !.restU = @ - Len(bytes), !.summed = @ \o bytes,
                                  !.availIn = @ - (eaten - InputAt)]
        /\ \/ /\ \/ Len(bytes) = availOut
                 \/ ~Damaged /\ ~Ended /\ (bytes # <<>> \/ eaten > InputAt)
              /\ Copies(bytes) /\ UNCHANGED <<pc, call, reply>>
           \/ /\ ~(Len(bytes) = availOut) /\ Ended
              /\ ReadReturns(Len(out \o bytes), out \o bytes)
           \/ /\ ~(Len(bytes) = availOut) /\ Damaged
              /\ ReadReturns(-3, <<>>)
           \/ /\ ~(Len(bytes) = availOut) /\ ~Damaged /\ ~Ended
              /\ bytes = <<>> /\ eaten = InputAt
              /\ ReadReturns(-5, <<>>)
  BY Zenon DEF Inflate
<1> DEFINE k == eaten - InputAt
<1>8. k \in Nat /\ k <= pfile.availIn /\ InputAt + k = eaten
  BY <1>4
<1>9. bytes = Run(Len(pfile.summed), n) /\ Copied(n) = out \o bytes
  BY DEF Copied
<1>10. Len(out \o bytes) = Len(out) + n
  <2> HIDE DEF bytes, n
  <2>1. \A a, b \in Seq(Int) : Len(a \o b) = Len(a) + Len(b)
    OBVIOUS
  <2>2. Len(out \o bytes) = Len(out) + Len(bytes)
    BY Zenon, <1>2, <1>6, <2>1
  <2> QED
    BY <1>6, <2>2
<1>11. pfile' = Further(pfile, n, k)
  BY <1>6, <1>7, <1>9 DEF Further
<1> HIDE DEF k, n, bytes
<1>12. /\ Fits(pfile') /\ pfile'.entry = pfile.entry /\ pfile'.restU = pfile.restU - n
       /\ Len(pfile'.summed) = Len(pfile.summed) + n
  <2>1. PICK q : q = pfile'
    OBVIOUS
  <2>2. q = Further(pfile, n, k)
    BY <1>11, <2>1
  <2>3. ~(Entry(pfile.entry).method = "stored")
    BY <1>1
  <2>4. /\ Behind(pfile) + k <= EndOf(pfile.entry)
        /\ Entry(pfile.entry).bad # 0 => Behind(pfile) + k < Entry(pfile.entry).bad
    BY SMTT(30), <1>3, <1>4, <1>7, <1>8
  <2>5. Behind(pfile) + k = eaten
    BY <1>3, <1>8
  <2>6. Plain(pfile.entry, eaten) \in Nat
    <3>1. eaten \in 0..EndOf(pfile.entry)
      BY <1>4, <1>7
    <3> QED
      BY <1>2, <1>3, <3>1, EntryIs
  <2>7. Len(pfile.summed) + n <= Plain(pfile.entry, Behind(pfile) + k)
    BY <1>2, <1>5, <1>6, <1>7, <2>5, <2>6
  <2>8. /\ Fits(q) /\ q.entry = pfile.entry /\ q.restU = pfile.restU - n
        /\ Len(q.summed) = Len(pfile.summed) + n
    BY <1>2, <1>5, <1>8, <2>2, <2>3, <2>4, <2>7, FitsFurther
  <2> QED
    BY <2>1, <2>8
<1>13. HandsOut(n)
  BY <1>1, <1>5, <1>12 DEF HandsOut
<1>14. CASE Copies(bytes) /\ UNCHANGED <<pc, call, reply>>
  <2>1. GoesOn(n)
    BY <1>6, <1>9, <1>14 DEF GoesOn, Copies
  <2> QED
    BY <1>5, <1>13, <2>1
<1>15. CASE n # availOut /\ Ended /\ ReadReturns(Len(out \o bytes), out \o bytes)
  <2>1. Corrupt(pfile.entry)
    <3> SUFFICES ASSUME ~Corrupt(pfile.entry) PROVE FALSE
      OBVIOUS
    <3>1. Entry(pfile.entry).usize = PlainSize(pfile.entry)
      BY <1>2, SoundIs
    <3>2. made + n = PlainSize(pfile.entry)
      BY <1>4, <1>5, <1>15
    <3>3. n = pfile.restU
      BY <1>2, <1>3, <1>5, <3>1, <3>2
    <3> QED
      BY <1>2, <1>5, <1>15, <3>3
  <2>2. Ends(n)
    BY <1>9, <1>10, <1>15, <2>1 DEF Ends, ReadReturns
  <2> QED
    BY <1>5, <1>13, <2>2
<1>16. CASE Damaged /\ ReadReturns(-3, <<>>)
  <2>1. Entry(pfile.entry).bad > 0
    BY <1>4, <1>16 DEF Damaged
  <2>2. Corrupt(pfile.entry)
    BY <2>1 DEF Corrupt
  <2>3. Ends(n)
    BY <1>16, <2>2 DEF Ends, ReadReturns
  <2> QED
    BY <1>5, <1>13, <2>3
<1>17. CASE n # availOut /\ ~Ended /\ eaten = InputAt /\ ReadReturns(-5, <<>>)
  <2>1. Corrupt(pfile.entry)
    <3> SUFFICES ASSUME ~Corrupt(pfile.entry) PROVE FALSE
      OBVIOUS
    <3>1. Entry(pfile.entry).csize = EndOf(pfile.entry) /\ Entry(pfile.entry).bad = 0
      BY <1>2, SoundIs
    <3>2. Usable = InputAt
      BY <1>6, <1>7, <1>17
    <3>3. Usable # EndOf(pfile.entry)
      BY <1>17 DEF Ended
    <3>4. pfile.availIn = 0
      BY <1>4, <3>1, <3>2, <3>3
    <3>5. pfile.restC = 0
      BY <1>1, <1>3, <3>4
    <3>6. InputAt = EndOf(pfile.entry)
      BY <1>3, <1>4, <3>1, <3>4, <3>5
    <3> QED
      BY <3>2, <3>3, <3>6
  <2>2. Ends(n)
    BY <1>17, <2>1 DEF Ends, ReadReturns
  <2> QED
    BY <1>5, <1>13, <2>2
<1> QED
  BY <1>6, <1>7, <1>14, <1>15, <1>16, <1>17

(* Every step of a read hands out bytes, and goes on or ends the read.     *)
LEMMA ReadSteps ==
  ASSUME EntryInv, AllCopied \/ Refill \/ RefillFails \/ CopyStored \/ Inflate
  PROVE  /\ pc = "read" /\ archive' = archive /\ uf' = uf /\ (trouble => trouble')
         /\ call \in Calls /\ (pc' = "read" => call' = call)
         /\ \E n \in Nat : HandsOut(n) /\ (GoesOn(n) \/ Ends(n))
<1>1. \E n \in Nat : HandsOut(n) /\ (GoesOn(n) \/ Ends(n))
  <2>1. 0 \in Nat
    OBVIOUS
  <2>2. CASE AllCopied
    BY <2>1, <2>2, AllCopiedSteps
  <2>3. CASE Refill
    BY <2>1, <2>3, RefillSteps
  <2>4. CASE RefillFails
    BY <2>1, <2>4, RefillFailsSteps
  <2> QED
    BY <2>2, <2>3, <2>4, CopyStoredSteps, InflateSteps
<1>2. CASE AllCopied \/ Refill \/ RefillFails
  BY <1>1, <1>2, CopyingIs DEF AllCopied, Refill, RefillFails, Hungry, ReadReturns, Fault, reading
<1>3. CASE CopyStored
  <2>1. /\ pc = "read" /\ archive' = archive /\ uf' = uf /\ (trouble => trouble')
        /\ (pc' = "read" => call' = call)
    BY <1>3 DEF CopyStored, Fed, ReadReturns
  <2> QED
    BY <1>1, <2>1, CopyingIs
<1>4. CASE Inflate
  <2>1. /\ pc = "read" /\ archive' = archive /\ uf' = uf /\ (trouble => trouble')
        /\ (pc' = "read" => call' = call)
    BY <1>4 DEF Inflate, Fed, ReadReturns
  <2> QED
    BY <1>1, <2>1, CopyingIs
<1> QED
  BY <1>2, <1>3, <1>4
-----------------------------------------------------------------------------
(* What is not part of reading leaves the reader, or opens or closes it.   *)
LEMMA Rests ==
  ASSUME archive' = archive, pfile' # NULL => Fits(pfile'),
         pc' \notin {"read", "opening"}, pc' # "dead" => out' = <<>>
  PROVE  Reading' /\ Copying' /\ Aside'
BY SameFits DEF Reading, Copying, Aside

LEMMA EntryInvInit == Init => EntryInv
<1> SUFFICES ASSUME Init PROVE EntryInv
  OBVIOUS
<1>1. pfile = NULL /\ pc = "closed" /\ out = <<>>
  BY DEF Init
<1> QED
  BY <1>1, InvInit DEF EntryInv, Reading, Copying, Aside

LEMMA HandedOutKept ==
  ASSUME EntryInv, pc = "read", pc' = "read" => call' = call,
         NEW n \in Nat, HandsOut(n), GoesOn(n) \/ Ends(n)
  PROVE  Reading' /\ Copying' /\ Aside'
<1>1. /\ Placed /\ pfile # NULL /\ pfile.restU \in Nat /\ call \in Calls
      /\ out \in Seq(Int) /\ Len(out) \in Nat /\ Len(pfile.summed) \in Nat
      /\ Len(out) <= Len(pfile.summed)
      /\ out = Run(Len(pfile.summed) - Len(out), Len(out))
      /\ availOut \in Nat /\ availOut <= pfile.restU
      /\ availOut + Len(out) = Lesser(call.count, pfile.restU + Len(out))
  BY CopyingIs
<1>2. /\ n <= availOut /\ archive' = archive /\ Fits(pfile')
      /\ pfile'.restU = pfile.restU - n /\ Len(pfile'.summed) = Len(pfile.summed) + n
  BY DEF HandsOut
<1>3. Reading'
  BY <1>2, SameFits DEF Reading
<1>4. CASE Ends(n)
  BY <1>2, <1>4, Rests DEF Ends
<1>5. CASE GoesOn(n)
  <2>1. pc' = "read" /\ call' = call /\ out' = Copied(n) /\ availOut' = availOut - n
    BY <1>5 DEF GoesOn
  <2> DEFINE m == Len(pfile.summed)  l == Len(out)
  <2>2. m \in Nat /\ l \in Nat /\ l <= m /\ m - l \in Nat /\ (m - l) + l = m
    BY <1>1
  <2>3. Copied(n) = Run(m - l, l + n)
    <3>1. m - l \in Int
      BY <2>2
    <3>2. Run(m - l, l) \o Run((m - l) + l, n) = Run(m - l, l + n)
      BY <2>2, <3>1, RunJoined
    <3> QED
      BY <1>1, <2>2, <3>2 DEF Copied
  <2>4. Copied(n) \in Seq(Int) /\ Len(Copied(n)) = l + n
    <3>1. m - l \in Int /\ l + n \in Nat
      BY <2>2
    <3> QED
      BY <2>3, <3>1, RunIs
  <2> HIDE DEF m, l
  <2>5. PICK c : c = Copied(n)
    OBVIOUS
  <2>6. /\ out' = c /\ c \in Seq(Int) /\ Len(c) = l + n /\ c = Run(m - l, l + n)
    BY <2>1, <2>3, <2>4, <2>5
  <2>7. PICK q : q = pfile'
    OBVIOUS
  <2>8. Fits(q) /\ q.restU = pfile.restU - n /\ Len(q.summed) = m + n
    BY <1>2, <2>7 DEF m
  <2>9. q # NULL
    BY <1>1, <2>8, FitsIs
  <2>10. Len(c) <= Len(q.summed) /\ c = Run(Len(q.summed) - Len(c), Len(c))
    <3>1. (m + n) - (l + n) = m - l /\ l + n <= m + n
      BY <2>2
    <3> QED
      BY <2>6, <2>8, <3>1
  <2>11. /\ availOut - n \in Nat
         /\ (availOut - n) + Len(c) = Lesser(call.count, q.restU + Len(c))
    <3>1. (availOut - n) + (l + n) = availOut + l
      BY <1>1, <2>2
    <3>2. (pfile.restU - n) + (l + n) = pfile.restU + l
      BY <1>1, <2>2
    <3> QED
      BY <1>1, <1>2, <2>6, <2>8, <3>1, <3>2 DEF l
  <2>12. Copying'
    BY <1>1, <2>1, <2>6, <2>7, <2>9, <2>10, <2>11 DEF Copying
  <2>13. Aside'
    BY <2>1 DEF Aside
  <2> QED
    BY <1>3, <2>12, <2>13
<1> QED
  BY <1>4, <1>5

LEMMA ReadCurrentKept ==
  ASSUME EntryInv, NEW c \in Calls, ReadCurrent(c)
  PROVE  Reading' /\ Copying' /\ Aside'
<1>1. pc = "idle" /\ archive' = archive /\ pfile' = pfile /\ out = <<>>
  BY DEF ReadCurrent, EntryInv, Aside
<1>2. pfile' # NULL => Fits(pfile')
  BY <1>1 DEF EntryInv, Reading
<1>3. CASE pfile = NULL \/ c.count = 0
  <2>1. pc' = "idle" /\ out' = <<>>
    BY <1>1, <1>3 DEF ReadCurrent, reading
  <2> QED
    BY <1>1, <1>2, <2>1, Rests
<1>4. CASE ~(pfile = NULL \/ c.count = 0)
  <2>1. /\ pc' = "read" /\ call' = c /\ out' = <<>>
        /\ availOut' = Lesser(c.count, pfile.restU)
    BY <1>4 DEF ReadCurrent
  <2>2. Fits(pfile) /\ Placed /\ pfile # NULL
    BY <1>4 DEF EntryInv, Reading, Inv
  <2>3. pfile.restU \in Nat /\ Len(pfile.summed) \in Nat /\ c.count \in Nat
    BY <2>2, FitsIs, CallsAssumption
  <2>4. <<>> \in Seq(Int) /\ Len(<<>>) = 0 /\ <<>> = Run(Len(pfile.summed) - 0, 0)
    BY DEF Run
  <2>5. /\ Lesser(c.count, pfile.restU) \in Nat
        /\ Lesser(c.count, pfile.restU) + 0 = Lesser(c.count, pfile.restU + 0)
    BY <2>3 DEF Lesser
  <2>6. Copying'
    BY <1>1, <2>1, <2>2, <2>3, <2>4, <2>5 DEF Copying
  <2>7. Reading' /\ Aside'
    BY <1>1, <1>2, <2>1, SameFits DEF Reading, Aside
  <2> QED
    BY <2>6, <2>7
<1> QED
  BY <1>3, <1>4

(* The entry that is opened is the current one. *)
LEMMA HeaderReadFits ==
  ASSUME EntryInv, HeaderRead
  PROVE  /\ Fits(pfile') /\ pfile'.summed = <<>> /\ pfile' # NULL
         /\ pfile'.restU = Entry(pfile'.entry).usize /\ pfile'.entry \in Entries
<1>1. pc = "opening" /\ uf.ok /\ Placed /\ At(uf) /\ uf.before = archive.before
  BY DEF EntryInv, Inv, AtPlace, Aside, At, Here, HeaderRead
<1>2. PICK i : i = uf.cur
  OBVIOUS
<1>3. i \in Entries
  BY <1>1, <1>2 DEF At, Present
<1>4. /\ i \in Nat \ {0} /\ archive.before \in Nat /\ Local \in Nat
      /\ Entry(i).header \in Nat /\ Entry(i).lvar \in Nat /\ Entry(i).csize \in Nat
      /\ Entry(i).usize \in Nat /\ EndOf(i) \in Nat /\ Entry(i).bad \in Nat
      /\ \A k \in 0..EndOf(i) : Plain(i, k) \in Nat
  BY <1>1, <1>3, EntryIs
<1>5. PICK q : q = pfile'
  OBVIOUS
<1>6. q = [entry |-> i, pos |-> Begin(i), before |-> archive.before,
           restC |-> Entry(i).csize, restU |-> Entry(i).usize,
           availIn |-> 0, summed |-> <<>>]
  BY <1>1, <1>2, <1>5 DEF HeaderRead, Begin
<1>7. Begin(i) \in Nat
  BY <1>4 DEF Begin
<1>8. /\ q \in Reader /\ q.entry = i /\ q.pos = Begin(i) /\ q.before = archive.before
      /\ q.restC = Entry(i).csize /\ q.restU = Entry(i).usize /\ q.availIn = 0
      /\ q.summed = <<>>
  BY <1>4, <1>6, <1>7 DEF Reader
<1>9. Behind(q) = 0
  BY <1>7, <1>8 DEF Behind
<1>10. Len(q.summed) = 0 /\ q.summed = Run(0, Len(q.summed))
  BY <1>8 DEF Run
<1>11. 0 <= EndOf(i) /\ 0 <= Plain(i, 0) /\ (Entry(i).bad # 0 => 0 < Entry(i).bad)
  <2>1. 0 \in 0..EndOf(i)
    BY <1>4
  <2> QED
    BY <1>4, <2>1
<1>12. q.restU + Len(q.summed) = Entry(i).usize
  BY <1>4, <1>8, <1>10
<1>13. Fits(q)
  BY <1>3, <1>8, <1>9, <1>10, <1>11, <1>12 DEF Fits
<1>14. q # NULL
  BY <1>1, <1>13, FitsIs
<1> QED
  BY <1>3, <1>5, <1>8, <1>13, <1>14

(* The steps that are not part of reading an entry. *)
Elsewhere ==
  \/ Open \/ Locate \/ NotLocated \/ Parse \/ NotParsed
  \/ GoToFirst \/ GoToNext \/ GetInfo \/ GetComment
  \/ \E name \in Names : Find(name)
  \/ FindMatch \/ FindNext \/ FindFails \/ HeaderFails

LEMMA ElsewhereIs ==
  ASSUME Elsewhere
  PROVE  /\ archive' = archive /\ pfile' = pfile /\ out' = out /\ reply' = reply
         /\ pc \notin {"read", "dead"} /\ pc' \notin {"read", "opening", "dead"}
         /\ (trouble => trouble')
<1>1. CASE Open \/ Locate \/ NotLocated \/ NotParsed
  BY <1>1 DEF Open, Locate, NotLocated, NotParsed, OpenFails, Fault, reading
<1>2. CASE Parse
  BY <1>2 DEF Parse, MoveTo, Returns, Fault, reading
<1>3. CASE GoToFirst \/ GoToNext
  BY <1>3 DEF GoToFirst, GoToNext, MoveTo, Returns, Fault, reading
<1>4. CASE GetInfo \/ GetComment
  BY <1>4 DEF GetInfo, GetComment, Returns, Fault, reading
<1>5. CASE \E name \in Names : Find(name)
  BY <1>5 DEF Find, Returns, Fault, reading
<1>6. CASE FindMatch \/ FindNext \/ FindFails
  BY <1>6 DEF FindMatch, FindNext, FindFails, Returns, Fault, reading
<1>7. CASE HeaderFails
  BY <1>7 DEF HeaderFails, Returns, Fault, reading
<1> QED
  BY <1>1, <1>2, <1>3, <1>4, <1>5, <1>6, <1>7 DEF Elsewhere

LEMMA NextIs ==
  Next => \/ Elsewhere \/ OpenCurrent \/ HeaderRead \/ (\E c \in Calls : ReadCurrent(c))
          \/ (AllCopied \/ Refill \/ RefillFails \/ CopyStored \/ Inflate)
          \/ CloseCurrent \/ Close \/ Overrun
BY DEF Next, Elsewhere

LEMMA EntryInvStep == EntryInv /\ [Next]_vars => EntryInv'
<1> SUFFICES ASSUME EntryInv, [Next]_vars PROVE EntryInv'
  OBVIOUS
<1>1. Inv'
  BY InvStep DEF EntryInv
<1>2. CASE UNCHANGED vars
  <2>1. /\ archive' = archive /\ pc' = pc /\ uf' = uf /\ pfile' = pfile
        /\ availOut' = availOut /\ out' = out /\ call' = call
    BY <1>2 DEF vars, reading
  <2> QED
    BY <1>1, <2>1, SameFits DEF EntryInv, Reading, Copying, Aside
<1>3. CASE Elsewhere
  BY <1>1, <1>3, ElsewhereIs, Rests DEF EntryInv, Reading, Aside
<1>4. CASE OpenCurrent
  <2>1. pc = "idle" /\ archive' = archive /\ out' = out /\ uf' = uf /\ out = <<>>
    BY <1>4 DEF OpenCurrent, reading, EntryInv, Aside
  <2>2. CASE uf.ok
    <3>1. pfile' = NULL /\ pc' = "opening"
      BY <1>4, <2>2 DEF OpenCurrent
    <3> QED
      BY <1>1, <2>1, <2>2, <3>1 DEF EntryInv, Reading, Copying, Aside
  <2>3. CASE ~uf.ok
    <3>1. pfile' = pfile /\ pc' = "idle"
      BY <1>4, <2>3 DEF OpenCurrent, Returns
    <3> QED
      BY <1>1, <2>1, <3>1, Rests DEF EntryInv, Reading
  <2> QED
    BY <2>2, <2>3
<1>5. CASE HeaderRead
  <2>1. archive' = archive /\ pc' = "idle" /\ out' = <<>>
    BY <1>5 DEF HeaderRead, Returns, reading, EntryInv, Aside
  <2> QED
    BY <1>1, <1>5, <2>1, HeaderReadFits, Rests DEF EntryInv
<1>6. CASE \E c \in Calls : ReadCurrent(c)
  BY <1>1, <1>6, ReadCurrentKept DEF EntryInv
<1>7. CASE AllCopied \/ Refill \/ RefillFails \/ CopyStored \/ Inflate
  BY <1>1, <1>7, ReadSteps, HandedOutKept DEF EntryInv
<1>8. CASE CloseCurrent \/ Close
  <2>1. archive' = archive /\ pc' \in {"idle", "closed"} /\ pfile' = NULL /\ out' = <<>>
    BY <1>8 DEF CloseCurrent, Close, Returns, reading, EntryInv, Aside
  <2> QED
    BY <1>1, <2>1, Rests DEF EntryInv
<1>9. CASE Overrun
  <2>1. archive' = archive /\ pc' = "dead" /\ pfile' = pfile
    BY <1>9 DEF Overrun
  <2> QED
    BY <1>1, <2>1, Rests DEF EntryInv, Reading
<1> QED
  BY <1>2, <1>3, <1>4, <1>5, <1>6, <1>7, <1>8, <1>9, NextIs

LEMMA EntryInvariant == Spec => []EntryInv
BY EntryInvInit, EntryInvStep, PTL DEF Spec
-----------------------------------------------------------------------------
(* What Content is about.                                                  *)
Offered == pfile # NULL
Extent  == IF pfile = NULL THEN 0 ELSE Entry(pfile.entry).usize
Offset  == Served - Len(out)
Excused == trouble \/ (pfile # NULL /\ Corrupt(pfile.entry))

(* The entry that is open is read at the place up to which all is copied.  *)
LEMMA OffsetIs ==
  ASSUME EntryInv, pc # "dead", pfile # NULL
  PROVE  /\ Len(pfile.summed) \in Nat /\ Len(out) \in Nat /\ pfile.restU \in Nat
         /\ Extent \in Nat /\ Extent = pfile.restU + Len(pfile.summed)
         /\ Served = Len(pfile.summed) /\ Len(out) <= Len(pfile.summed)
         /\ Offset = Len(pfile.summed) - Len(out) /\ Offset \in 0..Extent
<1>1. Placed /\ Fits(pfile)
  BY DEF EntryInv, Reading, Inv
<1>2. /\ Len(pfile.summed) \in Nat /\ pfile.restU \in Nat
      /\ pfile.restU + Len(pfile.summed) = Entry(pfile.entry).usize
      /\ pfile.entry \in Entries
  BY <1>1, FitsIs
<1>3. Len(out) \in Nat /\ Len(out) <= Len(pfile.summed)
  <2>1. CASE pc = "read"
    BY <2>1, CopyingIs
  <2>2. CASE pc # "read"
    <3>1. out = <<>>
      BY <2>2 DEF EntryInv, Aside
    <3> QED
      BY <1>2, <3>1
  <2> QED
    BY <2>1, <2>2
<1>4. Entry(pfile.entry).usize \in Nat
  BY <1>1, <1>2, EntryIs
<1>5. Extent = Entry(pfile.entry).usize /\ Served = Entry(pfile.entry).usize - pfile.restU
  BY DEF Extent, Served
<1>6. Served = Len(pfile.summed)
  BY <1>2, <1>4, <1>5
<1>7. Offset \in 0..Extent
  BY <1>2, <1>3, <1>4, <1>5, <1>6 DEF Offset
<1> QED
  BY <1>2, <1>3, <1>4, <1>5, <1>6, <1>7 DEF Offset

LEMMA ContentStays ==
  ASSUME UNCHANGED <<Offered, Extent, Offset, reply>>, Excused => Excused'
  PROVE  [Content!Next]_(Content!vars)
<1>1. CASE Excused'
  BY <1>1 DEF Excused, Offered, Extent, Offset, Content!Next, Content!Trouble
<1>2. CASE ~Excused'
  BY <1>2 DEF Excused, Offered, Extent, Offset, Content!vars
<1> QED
  BY <1>1, <1>2

LEMMA ContentOpens ==
  ASSUME ~Offered, Offered' => Offset' \in 0..Extent' /\ reply' = NoReply
  PROVE  Content!Next
BY DEF Offered, Extent, Offset, Content!Next, Content!Open, Content!NoReply, Content!Answer,
       NoReply, Answer

LEMMA ContentCloses ==
  ASSUME ~Offered'
  PROVE  Content!Next
BY DEF Offered, Content!Next, Content!Close

LEMMA ContentServes ==
  ASSUME Offered, Offered', Extent' = Extent, Excused => Excused', NEW c \in Calls,
         Content!Read(c) \/ Content!ReadFails(c)
  PROVE  Content!Next
BY DEF Offered, Extent, Excused, Content!Next

LEMMA ContentReads ==
  ASSUME NEW c, c.op = "read", NEW n \in Nat, n <= Lesser(c.count, Extent - Offset),
         n # Lesser(c.count, Extent - Offset) => Excused',
         Lesser(c.count, Extent - Offset) \in Nat,
         reply' = Answer(c, n, Run(Offset, n)), Offset' = Offset + n
  PROVE  Content!Read(c)
<1>1. n \in 0..Lesser(c.count, Extent - Offset)
  OBVIOUS
<1> QED
  BY <1>1
  DEF Extent, Offset, Excused, Content!Read, Content!Suffices, Content!Lesser,
      Content!Run, Content!Answer, Lesser, Run, Answer

LEMMA ContentReadFails ==
  ASSUME NEW c, c.op = "read", Excused', NEW v \in Int, v < 0,
         reply' = Answer(c, v, <<>>), Offset' \in 0..Extent
  PROVE  Content!ReadFails(c)
BY DEF Extent, Offset, Excused, Content!ReadFails, Answer

LEMMA ContentInit == Init => Content!Init
BY DEF Init, Content!Init, Content!NoReply, Content!Answer, NoReply, Answer

(* A step that has nothing to do with the open entry. *)
LEMMA Unconcerned ==
  ASSUME archive' = archive, pfile' = pfile, out' = out, reply' = reply, trouble => trouble'
  PROVE  [Content!Next]_(Content!vars)
<1>1. UNCHANGED <<Offered, Extent, Offset, reply>> /\ (Excused => Excused')
  BY SameFits DEF Offered, Extent, Offset, Served, Excused
<1> QED
  BY <1>1, ContentStays

LEMMA HeaderReadContent ==
  ASSUME EntryInv, HeaderRead
  PROVE  Content!Next
<1>1. pc = "opening" /\ pfile = NULL /\ out' = <<>> /\ archive' = archive /\ reply' = NoReply
  BY DEF HeaderRead, reading, EntryInv, Aside
<1>2. PICK q : q = pfile'
  OBVIOUS
<1>3. /\ q # NULL /\ q.restU = Entry(q.entry).usize /\ q.entry \in Entries
  BY <1>2, HeaderReadFits
<1>4. Entry(q.entry).usize \in Nat
  BY <1>3, EntryIs DEF EntryInv, Inv
<1>5. Extent' = Entry(q.entry).usize /\ Served' = Entry(q.entry).usize - q.restU
  BY <1>1, <1>2, <1>3, SameFits DEF Extent, Served
<1>6. Offset' = Served' - 0
  BY <1>1 DEF Offset
<1>7. Offset' \in 0..Extent'
  BY <1>3, <1>4, <1>5, <1>6
<1> QED
  BY <1>1, <1>7, ContentOpens DEF Offered

LEMMA ReadCurrentContent ==
  ASSUME EntryInv, NEW c \in Calls, ReadCurrent(c)
  PROVE  [Content!Next]_(Content!vars)
<1>1. /\ pc = "idle" /\ archive' = archive /\ pfile' = pfile /\ out = <<>> /\ trouble' = trouble
  BY DEF ReadCurrent, EntryInv, Aside
<1>2. c.op = "read" /\ c.count \in Nat
  BY CallsAssumption
<1>3. CASE pfile = NULL
  BY <1>1, <1>3, ContentCloses DEF Offered
<1>4. CASE pfile # NULL /\ c.count = 0
  <2>1. reply' = Answer(c, 0, <<>>) /\ out' = out
    BY <1>4 DEF ReadCurrent, reading
  <2>2. Extent \in Nat /\ Offset \in 0..Extent
    BY <1>1, <1>4, OffsetIs
  <2>3. Extent' = Extent /\ Offset' = Offset /\ (Excused => Excused') /\ Offered /\ Offered'
    BY <1>1, <1>4, <2>1, SameFits DEF Offered, Extent, Offset, Served, Excused
  <2>4. Run(Offset, 0) = <<>>
    BY DEF Run
  <2>5. /\ 0 \in Nat /\ 0 <= Lesser(c.count, Extent - Offset)
        /\ Lesser(c.count, Extent - Offset) = 0 /\ Offset' = Offset + 0
    BY <1>4, <2>2, <2>3 DEF Lesser
  <2>6. reply' = Answer(c, 0, Run(Offset, 0))
    BY <2>1, <2>4
  <2>7. Content!Read(c)
    BY <1>2, <2>5, <2>6, ContentReads
  <2> QED
    BY <2>3, <2>7, ContentServes
<1>5. CASE pfile # NULL /\ c.count # 0
  <2>1. reply' = reply /\ out' = out
    BY <1>1, <1>5 DEF ReadCurrent
  <2> QED
    BY <1>1, <2>1, Unconcerned
<1> QED
  BY <1>3, <1>4, <1>5

LEMMA ReadContent ==
  ASSUME EntryInv, AllCopied \/ Refill \/ RefillFails \/ CopyStored \/ Inflate
  PROVE  [Content!Next]_(Content!vars)
<1>1. /\ pc = "read" /\ archive' = archive /\ (trouble => trouble') /\ call \in Calls
      /\ \E n \in Nat : HandsOut(n) /\ (GoesOn(n) \/ Ends(n))
  BY ReadSteps
<1>2. PICK n \in Nat : HandsOut(n) /\ (GoesOn(n) \/ Ends(n))
  BY <1>1
<1>3. /\ Placed /\ pfile # NULL /\ out \in Seq(Int) /\ Len(out) \in Nat
      /\ Len(pfile.summed) \in Nat /\ Len(out) <= Len(pfile.summed) /\ pfile.restU \in Nat
      /\ out = Run(Len(pfile.summed) - Len(out), Len(out))
      /\ availOut \in Nat /\ availOut <= pfile.restU
      /\ availOut + Len(out) = Lesser(call.count, pfile.restU + Len(out))
  BY <1>1, CopyingIs
<1>4. /\ Extent \in Nat /\ Extent = pfile.restU + Len(pfile.summed)
      /\ Offset = Len(pfile.summed) - Len(out) /\ Offset \in 0..Extent
  BY <1>1, <1>3, OffsetIs
<1>5. call.op = "read" /\ call.count \in Nat
  BY <1>1, CallsAssumption
<1> DEFINE m == Len(pfile.summed)  l == Len(out)  r == pfile.restU  a == availOut
<1>6. Extent - Offset = r + l
  <2> HIDE DEF m, l, r, a
  <2>1. Extent = r + m /\ Offset = m - l /\ r \in Nat /\ m \in Nat /\ l \in Nat
    BY <1>3, <1>4 DEF m, l, r, a
  <2> QED
    BY <2>1
<1>7. a + l = Lesser(call.count, Extent - Offset)
  BY <1>3, <1>6
<1>8. PICK q : q = pfile'
  OBVIOUS
<1>9. /\ n <= a /\ n <= r /\ Fits(q) /\ q.entry = pfile.entry
      /\ q.restU = r - n /\ Len(q.summed) = m + n
  BY <1>2, <1>8 DEF HandsOut
<1>10. q # NULL /\ Offered /\ Offered' /\ Extent' = Extent /\ Entries' = Entries
  <2>1. q # NULL
    BY <1>3, <1>9, FitsIs
  <2> QED
    BY <1>1, <1>3, <1>8, <1>9, <2>1, SameFits DEF Offered, Extent
<1>11. Excused => Excused'
  BY <1>1, <1>8, <1>9, <1>10, SameFits DEF Excused, Offered
<1>12. Served' = m + n
  <2>1. Served' = Extent' - q.restU
    BY <1>8, <1>10 DEF Served, Extent, Offered
  <2> HIDE DEF m, l, r, a
  <2>2. Extent = r + m /\ r \in Nat /\ m \in Nat
    BY <1>3, <1>4 DEF m, r
  <2>3. Served' = (r + m) - (r - n)
    BY <1>9, <1>10, <2>1, <2>2
  <2> QED
    BY <2>2, <2>3
<1>13. CASE GoesOn(n)
  <2>1. out' = Copied(n) /\ reply' = reply
    BY <1>13 DEF GoesOn
  <2>2. Len(Copied(n)) = l + n
    <3>1. m \in Int
      BY <1>3
    <3>2. PICK b : b = Run(m, n)
      OBVIOUS
    <3>3. b \in Seq(Int) /\ Len(b) = n
      BY <3>1, <3>2, RunIs
    <3>4. out \in Seq(Int)
      BY <1>3
    <3>5. Len(out \o b) = l + n
      BY <3>3, <3>4
    <3> QED
      BY <3>2, <3>5 DEF Copied
  <2> HIDE DEF m, l, r, a
  <2>3. Offset' = (m + n) - (l + n)
    BY <1>12, <2>1, <2>2 DEF Offset
  <2>4. m \in Nat /\ l \in Nat /\ Offset = m - l
    BY <1>3, <1>4 DEF m, l
  <2>5. Offset' = Offset
    BY <2>3, <2>4
  <2> QED
    BY <1>10, <1>11, <2>1, <2>5, ContentStays
<1>14. CASE Ends(n)
  <2>1. Offset' = m + n
    <3>1. out' = <<>>
      BY <1>14 DEF Ends
    <3>2. Len(out') = 0
      BY <3>1
    <3>3. m + n \in Nat
      BY <1>3
    <3> QED
      BY <1>12, <3>2, <3>3 DEF Offset
  <2>2. CASE reply' = Answer(call, l + n, Copied(n)) /\ (n # a => Corrupt(pfile.entry))
    <3>1. Copied(n) = Run(Offset, l + n)
      <4>1. m - l \in Int /\ m \in Int /\ (m - l) + l = m
        BY <1>3
      <4>2. Run(m - l, l) \o Run((m - l) + l, n) = Run(m - l, l + n)
        BY <1>3, <4>1, RunJoined
      <4> QED
        BY <1>3, <1>4, <4>1, <4>2 DEF Copied
    <3>2. n # a => Excused'
      BY <1>1, <1>8, <1>9, <1>10, <2>2, SameFits DEF Excused, Offered
    <3> HIDE DEF m, l, r, a
    <3>3. l \in Nat /\ m \in Nat /\ a \in Nat /\ Offset = m - l
      BY <1>3, <1>4 DEF l, m, a
    <3>4. /\ l + n \in Nat /\ l + n <= Lesser(call.count, Extent - Offset)
          /\ Lesser(call.count, Extent - Offset) \in Nat
          /\ l + n # Lesser(call.count, Extent - Offset) => n # a
          /\ Offset' = Offset + (l + n)
      BY <1>7, <1>9, <2>1, <3>3
    <3>5. PICK k \in Nat : k = l + n
      BY <3>4
    <3>6. Content!Read(call)
      BY <1>5, <2>2, <3>1, <3>2, <3>4, <3>5, ContentReads
    <3> QED
      BY <1>1, <1>10, <1>11, <3>6, ContentServes
  <2>3. CASE /\ \E v \in {-1, -3, -5} : reply' = Answer(call, v, <<>>)
             /\ trouble' \/ Corrupt(pfile.entry)
    <3>1. PICK v \in {-1, -3, -5} : reply' = Answer(call, v, <<>>)
      BY <2>3
    <3>2. v \in Int /\ v < 0
      BY <3>1
    <3>3. Excused'
      BY <1>1, <1>8, <1>9, <1>10, <2>3, SameFits DEF Excused, Offered
    <3>4. Offset' \in 0..Extent
      <4> HIDE DEF m, l, r, a
      <4>1. m \in Nat /\ r \in Nat /\ Extent = r + m
        BY <1>3, <1>4 DEF m, r
      <4> QED
        BY <1>9, <2>1, <4>1
    <3>5. Content!ReadFails(call)
      BY <1>5, <3>1, <3>2, <3>3, <3>4, ContentReadFails
    <3> QED
      BY <1>1, <1>10, <1>11, <3>5, ContentServes
  <2> QED
    BY <1>14, <2>2, <2>3 DEF Ends
<1> QED
  BY <1>2, <1>13, <1>14

LEMMA ContentStep ==
  ASSUME EntryInv, [Next]_vars
  PROVE  [Content!Next]_(Content!vars)
<1>1. CASE UNCHANGED vars
  <2>1. archive' = archive /\ pfile' = pfile /\ out' = out /\ reply' = reply /\ trouble' = trouble
    BY <1>1 DEF vars, reading
  <2> QED
    BY <2>1, Unconcerned
<1>2. CASE Elsewhere
  BY <1>2, ElsewhereIs, Unconcerned
<1>3. CASE OpenCurrent
  <2>1. archive' = archive /\ out' = out /\ reply' = reply /\ trouble' = trouble
    BY <1>3 DEF OpenCurrent, reading
  <2>2. pfile' = NULL \/ pfile' = pfile
    BY <1>3 DEF OpenCurrent
  <2> QED
    BY <2>1, <2>2, Unconcerned, ContentCloses DEF Offered
<1>4. CASE CloseCurrent \/ Close
  <2>1. pfile' = NULL
    BY <1>4 DEF CloseCurrent, Close
  <2> QED
    BY <2>1, ContentCloses DEF Offered
<1>5. CASE Overrun
  <2>1. archive' = archive /\ pfile' = pfile /\ out' = out /\ reply' = reply /\ trouble' = trouble
    BY <1>5 DEF Overrun, reading
  <2> QED
    BY <2>1, Unconcerned
<1> QED
  BY <1>1, <1>2, <1>3, <1>4, <1>5, HeaderReadContent, ReadCurrentContent, ReadContent, NextIs

(* Reading an entry in pieces yields its bytes once each and in order, as  *)
(* many as the directory says, for every archive, every size of buffer and *)
(* all operations in between; only failing callbacks and a damaged entry   *)
(* excuse less (EXTRACTOR_common_unzip_read_current_file).                 *)
THEOREM UnzipImplementsEntry == Spec => ImplementsEntry
<1>1. Init => Content!Init
  BY ContentInit
<1>2. EntryInv /\ [Next]_vars => [Content!Next]_(Content!vars)
  BY ContentStep
<1> QED
  BY <1>1, <1>2, EntryInvariant, PTL DEF Spec, ImplementsEntry, Content!Spec

(* Closing an entry complains of its checksum only if the archive is       *)
(* damaged (EXTRACTOR_common_unzip_close_current_file).                    *)
THEOREM AlarmsAlwaysTrue == Spec => AlarmsAreTrue
<1> DEFINE True == pfile # NULL /\ pfile' = NULL /\ pc' = "idle" /\ result'.value = "crc" =>
                     Corrupt(pfile.entry) \/ ~Entry(pfile.entry).crcOk
<1>1. ASSUME EntryInv, [Next]_vars PROVE True
  <2> SUFFICES ASSUME pfile # NULL, pfile' = NULL, pc' = "idle", result'.value = "crc",
                      ~Corrupt(pfile.entry)
               PROVE  ~Entry(pfile.entry).crcOk
    OBVIOUS
  <2>1. CASE CloseCurrent
    <3>1. Placed /\ Fits(pfile)
      BY <1>1 DEF EntryInv, Inv, Reading
    <3>2. /\ pfile.restU = 0 /\ ~ChecksumFits(pfile.entry)
      BY <2>1 DEF CloseCurrent, Returns, Result
    <3>3. /\ pfile.summed = Run(0, Len(pfile.summed)) /\ Len(pfile.summed) \in Nat
          /\ pfile.restU + Len(pfile.summed) = Entry(pfile.entry).usize
      BY <3>1, FitsIs
    <3>4. Entry(pfile.entry).usize = PlainSize(pfile.entry)
      BY <3>1, SoundIs
    <3>5. Len(pfile.summed) = PlainSize(pfile.entry)
      BY <3>2, <3>3, <3>4
    <3> QED
      BY <3>2, <3>3, <3>5 DEF ChecksumFits
  <2>2. CASE AllCopied \/ Refill \/ RefillFails \/ CopyStored \/ Inflate
    <3>1. Placed /\ \E n \in Nat : HandsOut(n)
      BY <1>1, <2>2, ReadSteps DEF EntryInv, Inv
    <3>2. PICK q : q = pfile'
      OBVIOUS
    <3>3. Fits(q)
      BY <3>1, <3>2 DEF HandsOut
    <3>4. q # NULL
      BY <3>1, <3>3, FitsIs
    <3> QED
      BY <3>2, <3>4
  <2>3. CASE HeaderRead
    BY <1>1, <2>3, HeaderReadFits
  <2>4. pfile' # pfile
    OBVIOUS
  <2>5. ~UNCHANGED vars /\ ~Elsewhere /\ ~Overrun /\ ~(\E c \in Calls : ReadCurrent(c))
    BY <2>4, ElsewhereIs DEF vars, Overrun, ReadCurrent
  <2>6. ~Close /\ ~OpenCurrent
    BY <2>4 DEF Close, OpenCurrent, Returns
  <2> QED
    BY <1>1, <2>1, <2>2, <2>3, <2>5, <2>6, NextIs
<1> HIDE DEF True
<1>2. EntryInv /\ [Next]_vars => [True]_vars
  BY <1>1
<1>3. Spec => [][True]_vars
  BY <1>2, EntryInvariant, PTL DEF Spec
<1> QED
  BY <1>3 DEF AlarmsAreTrue, True
=============================================================================
