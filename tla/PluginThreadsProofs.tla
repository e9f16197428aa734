------------------------ MODULE PluginThreadsProofs ------------------------
(***************************************************************************)
(* Extract methods that do not work alone behave like sequential ones: for *)
(* every size of the file, of the buffer and of the pipes, any number of   *)
(* items and of callbacks, and whenever the library stops them.            *)
(***************************************************************************)
EXTENDS PluginThreads, FiniteSetTheorems, SequenceTheorems, TLAPS

(* Where there is a mutex, who talks holds it, and its holder is at a      *)
(* certain place in its program.                                           *)
Turns ==
  /\ plugin \in {"rpm", "pdf", "gstreamer"} /\ holder \in Thread \cup {Nobody}
  /\ talking \subseteq Thread /\ asking \subseteq talking
  /\ plugin = "rpm" =>
       /\ "method" \in talking <=> method = "reporting"
       /\ holder = "method" <=> method = "reporting"
       /\ "helper" \in talking <=> feeder = "reading"
       /\ holder = "helper" <=> feeder = "reading"
  /\ plugin = "pdf" =>
       /\ "method" \in talking <=> method \in {"probing", "reading", "reporting"}
       /\ "helper" \notin talking /\ holder = Nobody
  /\ plugin = "gstreamer" =>
       /\ "method" \in talking <=> method = "sending"
       /\ holder = "method" <=> method \in {"send", "sending", "value"}
       /\ "helper" \in talking <=> streamer \in {"reading", "seeking"}
       /\ holder = "helper" <=> streamer \in {"reading", "seeking"}

(* The feeder has the one end of the pipe for as long as it is there, the  *)
(* method gives up the others one by one, and then waits for it.           *)
RpmEnds ==
  /\ listeners = {} /\ printers = {}
  /\ child = "none" /\ readers \subseteq {"pi0", "fdi"}
  /\ writers \in {{}, {"feeder"}} /\ (writers = {} <=> feeder \in {"none", "ended"})
  /\ method = "start" => feeder = "none" /\ readers = {}
  /\ method = "fclose" => readers \subseteq {"fdi"}
  /\ method \in {"join", "returned"} => readers = {}
  /\ method = "returned" => feeder \in {"none", "ended"}

(* Each process has the ends that it needs, and no other for long.         *)
PdfEnds ==
  /\ feeder = "none"
  /\ readers \subseteq {"parent", "child"} /\ writers \subseteq {"parent", "child"}
  /\ child \in {"none", "forked", "reads", "prints", "exited", "reaped"}
  /\ "child" \in readers <=> child \in {"forked", "reads", "prints"}
  /\ "child" \in writers <=> child = "forked"
  /\ "parent" \in readers <=> method = "forked"
  /\ "parent" \in writers <=> method \in {"forked", "read", "reading", "write", "close"}
  /\ listeners \subseteq {"parent", "child"} /\ printers \subseteq {"parent", "child"}
  /\ "child" \in listeners <=> child = "forked"
  /\ "child" \in printers <=> child \in {"forked", "reads", "prints"}
  /\ "parent" \in printers <=> method = "forked"
  /\ "parent" \in listeners <=>
       method \in {"forked", "read", "reading", "write", "close", "print", "reporting", "fclose"}
  /\ method \in {"start", "probing", "fork"} => child = "none"
  /\ method = "reap" => child = "exited"
  /\ method = "returned" => child \in {"none", "reaped"}

(* GStreamer has a streaming thread while it discovers, and is stopped.    *)
GstEnds ==
  /\ feeder = "none" /\ child = "none" /\ readers = {} /\ writers = {}
  /\ listeners = {} /\ printers = {}
  /\ method = "start" => discovery = "none"
  /\ discovery = "none" => streamer = "idle"
  /\ method = "returned" => streamer = "idle"

EndsKept ==
  /\ plugin = "rpm" => RpmEnds
  /\ plugin = "pdf" => PdfEnds
  /\ plugin = "gstreamer" => GstEnds

(* The n bytes of the file that follow the first b.                        *)
After(b, n) == [i \in 1..n |-> b + i]

FeedType ==
  /\ off \in Nat /\ received \in Seq(Nat) /\ pipe \in Seq(Nat) /\ buf \in Seq(Nat)
  /\ moved \in BOOLEAN

(* What has been read at the other end, what is in the pipe, and what is   *)
(* still to be written follow each other in the file.                      *)
InLine ==
  /\ pipe = After(Len(received), Len(pipe))
  /\ buf = After((Len(received) + Len(pipe)), Len(buf))
  /\ off = (Len(received) + Len(pipe)) + Len(buf)

(* librpm, or pdfinfo, may go on reading.                                  *)
Passing == plugin = "pdf" \/ (plugin = "rpm" /\ method \in {"start", "librpm"})

Flows ==
  /\ FeedType
  /\ received = After(0, Len(received))
  /\ Passing => InLine
  /\ plugin = "rpm" /\ feeder \in {"none", "loop", "lock", "reading"} => buf = <<>>
  /\ plugin = "pdf" /\ method \in {"start", "probing", "fork", "forked", "read", "reading"} =>
       buf = <<>>

(* While that is so the window stays where it is under what has yet to be  *)
(* written: only who reads has asked, and it is not answered once the      *)
(* library has stopped listening.                                          *)
StillThere ==
  /\ plugin = "rpm" /\ Passing =>
       /\ library # "listens" =>
            feeder \in {"close", "ended"} \/ (feeder = "reading" /\ "helper" \in asking)
       /\ moved => feeder \in {"reading", "close", "ended"}
  /\ plugin = "pdf" =>
       /\ method \in {"start", "fork", "forked", "read", "write"} => library = "listens"
       /\ method \in {"probing", "reading"} /\ asking = {} => library = "listens"
       /\ method = "write" => ~moved

Inv == Turns /\ EndsKept /\ Flows /\ StillThere /\ Watched

-----------------------------------------------------------------------------
LEMMA AfterIs ==
  ASSUME NEW b \in Nat, NEW n \in Nat
  PROVE  /\ After(b, n) \in Seq(Nat) /\ Len(After(b, n)) = n
         /\ \A i \in 1..n : After(b, n)[i] = b + i
BY DEF After

LEMMA AfterNone ==
  ASSUME NEW b \in Nat
  PROVE  After(b, 0) = <<>>
<1>1. After(b, 0) \in Seq(Nat) /\ Len(After(b, 0)) = 0
  BY AfterIs
<1> QED
  BY <1>1, EmptySeq

(* Bytes and those that follow them are bytes that follow each other. *)
LEMMA AfterJoined ==
  ASSUME NEW b \in Nat, NEW m \in Nat, NEW n \in Nat
  PROVE  After(b, m) \o After(b + m, n) = After(b, m + n)
<1> DEFINE s == After(b, m)  t == After(b + m, n)  u == After(b, m + n)
<1>1. s \in Seq(Nat) /\ Len(s) = m /\ \A i \in 1..m : s[i] = b + i
  BY AfterIs
<1>2. t \in Seq(Nat) /\ Len(t) = n /\ \A i \in 1..n : t[i] = (b + m) + i
  <2>1. b + m \in Nat
    OBVIOUS
  <2> QED
    BY <2>1, AfterIs
<1>3. u \in Seq(Nat) /\ Len(u) = m + n /\ \A i \in 1..m + n : u[i] = b + i
  <2>1. m + n \in Nat
    OBVIOUS
  <2> QED
    BY <2>1, AfterIs
<1> HIDE DEF s, t, u
<1>4. /\ s \o t \in Seq(Nat) /\ Len(s \o t) = m + n
      /\ \A i \in 1..m + n : (s \o t)[i] = IF i <= m THEN s[i] ELSE t[i - m]
  BY ZenonT(40), <1>1, <1>2, ConcatProperties
<1>5. ASSUME NEW i \in 1..m + n PROVE (s \o t)[i] = u[i]
  <2>1. CASE i <= m
    BY <2>1, <1>1, <1>3, <1>4
  <2>2. CASE ~(i <= m)
    <3>1. i - m \in 1..n /\ (b + m) + (i - m) = b + i
      BY <2>2
    <3> QED
      BY <3>1, <2>2, <1>2, <1>3, <1>4
  <2> QED
    BY <2>1, <2>2
<1>6. s \o t = u
  BY <1>3, <1>4, <1>5, SeqEqual
<1> QED
  BY <1>6 DEF s, t, u

(* Cut in two, each part is such bytes, too. *)
LEMMA AfterCut ==
  ASSUME NEW b \in Nat, NEW n \in Nat, NEW k \in 0..n
  PROVE  /\ SubSeq(After(b, n), 1, k) = After(b, k)
         /\ SubSeq(After(b, n), k + 1, n) = After(b + k, n - k)
<1> DEFINE s == After(b, n)
<1>1. s \in Seq(Nat) /\ Len(s) = n /\ \A i \in 1..n : s[i] = b + i
  BY AfterIs
<1> HIDE DEF s
<1>2. SubSeq(s, 1, k) = After(b, k)
  <2>1. /\ SubSeq(s, 1, k) \in Seq(Nat) /\ Len(SubSeq(s, 1, k)) = k
        /\ \A i \in 1..k : SubSeq(s, 1, k)[i] = s[i]
    BY <1>1
  <2>2. /\ After(b, k) \in Seq(Nat) /\ Len(After(b, k)) = k
        /\ \A i \in 1..k : After(b, k)[i] = b + i
    BY AfterIs
  <2>3. \A i \in 1..k : SubSeq(s, 1, k)[i] = After(b, k)[i]
    BY <2>1, <2>2, <1>1
  <2> QED
    BY <2>1, <2>2, <2>3, SeqEqual
<1>3. SubSeq(s, k + 1, n) = After(b + k, n - k)
  <2> DEFINE m == n - k  c == b + k
  <2>1. m \in Nat /\ c \in Nat
    OBVIOUS
  <2>2. /\ SubSeq(s, k + 1, n) \in Seq(Nat) /\ Len(SubSeq(s, k + 1, n)) = m
        /\ \A i \in 1..m : SubSeq(s, k + 1, n)[i] = s[k + i]
    BY <1>1
  <2>3. /\ After(c, m) \in Seq(Nat) /\ Len(After(c, m)) = m
        /\ \A i \in 1..m : After(c, m)[i] = c + i
    BY <2>1, AfterIs
  <2>4. \A i \in 1..m : SubSeq(s, k + 1, n)[i] = After(c, m)[i]
    <3>1. \A i \in 1..m : k + i \in 1..n /\ b + (k + i) = c + i
      OBVIOUS
    <3> QED
      BY <3>1, <2>2, <2>3, <1>1
  <2>5. SubSeq(s, k + 1, n) = After(c, m)
    <3> HIDE DEF m, c
    <3> QED
      BY <2>1, <2>2, <2>3, <2>4, SeqEqual
  <2> QED
    BY <2>5
<1> QED
  BY <1>2, <1>3 DEF s

-----------------------------------------------------------------------------
(* What has been read at the other end only grows at its end. *)
LEMMA TakesInLine ==
  ASSUME FeedType, received = After(0, Len(received)), InLine, TakesBytes
  PROVE  FeedType' /\ received' = After(0, Len(received')) /\ InLine'
<1> DEFINE r == Len(received)  p == Len(pipe)
<1>1. /\ off \in Nat /\ received \in Seq(Nat) /\ pipe \in Seq(Nat) /\ buf \in Seq(Nat)
      /\ moved \in BOOLEAN /\ UNCHANGED <<off, buf, moved>>
  BY DEF FeedType, TakesBytes
<1>2. PICK n \in 1..p : /\ received' = received \o SubSeq(pipe, 1, n)
                        /\ pipe' = SubSeq(pipe, n + 1, p)
  BY DEF TakesBytes
<1>3. r \in Nat /\ p \in Nat /\ n \in 0..p /\ n \in Nat
  BY <1>1
<1>4. received = After(0, r) /\ pipe = After(r, p)
  BY DEF InLine
<1> HIDE DEF r, p
<1>5. SubSeq(pipe, 1, n) = After(r, n) /\ SubSeq(pipe, n + 1, p) = After(r + n, p - n)
  BY <1>3, <1>4, AfterCut
<1>6. received' = After(0, r + n)
  <2>1. After(0, r) \o After(0 + r, n) = After(0, r + n)
    BY <1>3, AfterJoined
  <2>2. 0 + r = r
    BY <1>3
  <2> QED
    BY <1>2, <1>4, <1>5, <2>1, <2>2
<1>7. pipe' = After(r + n, p - n)
  BY <1>2, <1>5
<1>8. r + n \in Nat /\ p - n \in Nat /\ (r + n) + (p - n) = r + p
  BY <1>3
<1>9. received' \in Seq(Nat) /\ Len(received') = r + n
  BY <1>6, <1>8, AfterIs
<1>10. pipe' \in Seq(Nat) /\ Len(pipe') = p - n
  BY <1>7, <1>8, AfterIs
<1>11. Len(received') + Len(pipe') = r + p
  BY <1>8, <1>9, <1>10
<1>12. received' = After(0, Len(received')) /\ pipe' = After(Len(received'), Len(pipe'))
  BY <1>6, <1>7, <1>9, <1>10
<1>13. /\ buf' = After((Len(received') + Len(pipe')), Len(buf'))
       /\ off' = (Len(received') + Len(pipe')) + Len(buf')
  BY <1>1, <1>11 DEF InLine, r, p
<1> QED
  BY <1>1, <1>9, <1>10, <1>12, <1>13 DEF FeedType, InLine

(* What is read follows what was read before. *)
LEMMA GetsInLine ==
  ASSUME PipeAssumption, FeedType, buf = <<>>, GetsBytes
  PROVE  /\ FeedType' /\ UNCHANGED received
         /\ InLine => InLine'
<1>1. /\ off \in Nat /\ received \in Seq(Nat) /\ pipe \in Seq(Nat)
      /\ moved' \in BOOLEAN /\ UNCHANGED <<pipe, received>>
  BY DEF FeedType, GetsBytes
<1>2. PICK n \in 1..BufSize : buf' = After(off, n) /\ off' = off + n
  BY DEF GetsBytes, After
<1>3. n \in Nat
  BY DEF PipeAssumption
<1>4. buf' \in Seq(Nat) /\ Len(buf') = n
  BY <1>1, <1>2, <1>3, AfterIs
<1>5. off' \in Nat
  BY <1>1, <1>2, <1>3
<1>6. ASSUME InLine PROVE InLine'
  <2>1. off = Len(received) + Len(pipe)
    BY <1>1, <1>6 DEF InLine
  <2>2. /\ buf' = After((Len(received) + Len(pipe)), Len(buf'))
        /\ off' = (Len(received) + Len(pipe)) + Len(buf')
    BY <1>2, <1>4, <2>1
  <2> QED
    BY <1>1, <1>6, <2>2 DEF InLine
<1> QED
  BY <1>1, <1>4, <1>5, <1>6 DEF FeedType

(* What is written goes to the end of the pipe, as long as it is there. *)
LEMMA PutsInLine ==
  ASSUME FeedType, PutsBytes
  PROVE  /\ FeedType' /\ UNCHANGED <<received, moved>>
         /\ InLine /\ ~moved => InLine'
<1> DEFINE r == Len(received)  p == Len(pipe)  l == Len(buf)
<1>1. /\ off \in Nat /\ received \in Seq(Nat) /\ pipe \in Seq(Nat) /\ buf \in Seq(Nat)
      /\ moved \in BOOLEAN /\ UNCHANGED <<off, moved, received>>
  BY DEF FeedType, PutsBytes
<1>2. PICK n \in 1..l : pipe' = pipe \o Bytes(n) /\ buf' = SubSeq(buf, n + 1, l)
  BY DEF PutsBytes
<1>3. r \in Nat /\ p \in Nat /\ l \in Nat /\ n \in 0..l /\ n \in Nat /\ r + p \in Nat
  BY <1>1
<1>4. Bytes(n) \in Seq(Nat)
  <2>1. \A i \in 1..n : buf[i] \in Nat
    BY <1>1, <1>3
  <2> QED
    BY <1>3, <2>1 DEF Bytes
<1>5. pipe' \in Seq(Nat) /\ buf' \in Seq(Nat)
  BY SMTT(30), <1>1, <1>2, <1>3, <1>4
<1>6. ASSUME InLine, ~moved PROVE InLine'
  <2>1. pipe = After(r, p) /\ buf = After(r + p, l) /\ off = (r + p) + l
    BY <1>6 DEF InLine
  <2> HIDE DEF r, p, l
  <2>2. Bytes(n) = After(r + p, n)
    BY <1>6, <2>1, <1>3 DEF Bytes, After
  <2>3. pipe' = After(r, p + n)
    <3>1. After(r, p) \o After(r + p, n) = After(r, p + n)
      BY <1>3, AfterJoined
    <3> QED
      BY <1>2, <2>1, <2>2, <3>1
  <2>4. buf' = After((r + p) + n, l - n)
    BY <1>2, <1>3, <2>1, AfterCut
  <2>5. /\ p + n \in Nat /\ l - n \in Nat /\ (r + p) + n \in Nat
        /\ r + (p + n) = (r + p) + n /\ ((r + p) + n) + (l - n) = (r + p) + l
    BY <1>3
  <2>6. Len(pipe') = p + n /\ Len(buf') = l - n
    BY <1>3, <2>3, <2>4, <2>5, AfterIs
  <2>7. Len(received') = r
    BY <1>1 DEF r
  <2> QED
    BY <1>1, <2>1, <2>3, <2>4, <2>5, <2>6, <2>7 DEF InLine
<1> QED
  BY <1>1, <1>5, <1>6 DEF FeedType

-----------------------------------------------------------------------------
LEMMA InvInit == Init => Inv
<1> SUFFICES ASSUME Init PROVE Inv
  OBVIOUS
<1>1. received = After(0, Len(received)) /\ InLine
  <2>1. After(0, 0) = <<>> /\ After(0 + 0, 0) = <<>>
    BY AfterNone
  <2> QED
    BY <2>1 DEF Init, PipeInit, InLine
<1>2. Flows
  <2>1. off = 0 /\ received = <<>> /\ pipe = <<>> /\ buf = <<>> /\ moved = FALSE
    BY DEF Init, PipeInit
  <2>2. <<>> \in Seq(Nat) /\ 0 \in Nat /\ FALSE \in BOOLEAN
    OBVIOUS
  <2>3. FeedType
    BY <2>1, <2>2, Zenon DEF FeedType
  <2> QED
    BY <1>1, <2>1, <2>3 DEF Flows
<1>3. Turns /\ StillThere /\ Watched
  BY DEF Init, CallsInit, PipeInit, RpmInit, PdfInit, GstInit, Turns, StillThere, Passing, Watched,
     Thread, Nobody
<1>4. EndsKept
  BY DEF Init, CallsInit, PipeInit, RpmInit, PdfInit, GstInit, EndsKept, RpmEnds, PdfEnds, GstEnds
<1> QED
  BY <1>2, <1>3, <1>4 DEF Inv

-----------------------------------------------------------------------------
(* Bytes move only where the lemmas above say how.  The other steps keep   *)
(* the invariant by what they say.                                         *)

(* What the method of the plugin for RPM packages does. *)
LEMMA InvRpmStep ==
  ASSUME PipeAssumption, Inv, plugin = "rpm", RpmStep, UNCHANGED <<plugin, pdfVars, gstVars>>
  PROVE  Inv'
<1>1. CASE RpmCreate
  <2>1. Turns'
    BY <1>1 DEF RpmCreate, At, callVars, feedVars, endVars, pdfVars, Inv, Turns, EndsKept,
       RpmEnds, Thread
  <2>2. EndsKept'
    BY <1>1 DEF RpmCreate, At, callVars, feedVars, endVars, pdfVars, Inv, EndsKept, RpmEnds
  <2>3. Flows'
    BY <1>1 DEF RpmCreate, At, callVars, feedVars, endVars, pdfVars, Inv, Flows, FeedType,
       InLine, Passing, EndsKept, RpmEnds
  <2>4. StillThere'
    BY <1>1 DEF RpmCreate, At, callVars, feedVars, endVars, pdfVars, Inv, Turns, EndsKept,
       RpmEnds, Flows, StillThere, Passing
  <2>5. Watched'
    BY DEF Watched
  <2> QED
    BY <2>1, <2>2, <2>3, <2>4, <2>5 DEF Inv
<1>2. CASE LibrpmReads
  <2>1. Turns'
    BY <1>2 DEF LibrpmReads, At, callVars, endVars, rpmVars, AtEnd, pdfVars, Inv, Turns,
       EndsKept, RpmEnds, Thread
  <2>2. EndsKept'
    BY <1>2 DEF LibrpmReads, At, callVars, endVars, rpmVars, AtEnd, pdfVars, Inv, EndsKept,
       RpmEnds
  <2>3. Flows'
    <3>1. method = "librpm" /\ method' # "start" /\ UNCHANGED feeder
      BY <1>2 DEF LibrpmReads, At, rpmVars
    <3>2. FeedType /\ received = After(0, Len(received)) /\ InLine
      BY <3>1 DEF Inv, Flows, Passing
    <3>3. CASE TakesBytes
      <4>1. UNCHANGED buf
        BY <3>3 DEF TakesBytes
      <4> QED
        BY <3>1, <3>2, <3>3, <4>1, TakesInLine DEF Inv, Flows
    <3>4. CASE AtEnd
      BY <3>1, <3>2, <3>4 DEF AtEnd, feedVars, FeedType, InLine, Inv, Flows
    <3> QED
      BY <1>2, <3>3, <3>4 DEF LibrpmReads
  <2>4. StillThere'
    BY <1>2 DEF LibrpmReads, At, callVars, endVars, rpmVars, AtEnd, pdfVars, TakesBytes,
       feedVars, Inv, Turns, EndsKept, RpmEnds, Flows, StillThere, Passing
  <2>5. Watched'
    BY DEF Watched
  <2> QED
    BY <2>1, <2>2, <2>3, <2>4, <2>5 DEF Inv
<1>3. CASE RpmReport
  <2>1. Turns'
    BY <1>3 DEF RpmReport, At, Lock, Call, feedVars, endVars, rpmVars, pdfVars, Inv, Turns,
       EndsKept, RpmEnds, Thread, Nobody
  <2>2. EndsKept'
    BY <1>3 DEF RpmReport, At, Lock, Call, feedVars, endVars, rpmVars, pdfVars, Inv, EndsKept,
       RpmEnds
  <2>3. Flows'
    BY <1>3 DEF RpmReport, At, Lock, Call, feedVars, endVars, rpmVars, pdfVars, Inv, Flows,
       FeedType, InLine, Passing, EndsKept, RpmEnds
  <2>4. StillThere'
    BY <1>3 DEF RpmReport, At, Lock, Call, feedVars, endVars, rpmVars, pdfVars, Inv, Turns,
       EndsKept, RpmEnds, Flows, StillThere, Passing
  <2>5. Watched'
    BY DEF Watched
  <2> QED
    BY <2>1, <2>2, <2>3, <2>4, <2>5 DEF Inv
<1>4. CASE RpmReported
  <2>1. Turns'
    BY <1>4 DEF RpmReported, At, Unlock, Answered, Refused, pipeVars, rpmVars, pdfVars, Ends,
       feedVars, endVars, Inv, Turns, EndsKept, RpmEnds, Thread, Nobody
  <2>2. EndsKept'
    BY <1>4 DEF RpmReported, At, Unlock, Answered, Refused, pipeVars, rpmVars, pdfVars, Ends,
       feedVars, endVars, Inv, EndsKept, RpmEnds
  <2>3. Flows'
    BY <1>4 DEF RpmReported, At, Unlock, Answered, Refused, pipeVars, rpmVars, pdfVars, Ends,
       feedVars, endVars, Inv, Flows, FeedType, InLine, Passing, EndsKept, RpmEnds
  <2>4. StillThere'
    BY <1>4 DEF RpmReported, At, Unlock, Answered, Refused, pipeVars, rpmVars, pdfVars, Ends,
       feedVars, endVars, Inv, Turns, EndsKept, RpmEnds, Flows, StillThere, Passing
  <2>5. Watched'
    BY DEF Watched
  <2> QED
    BY <2>1, <2>2, <2>3, <2>4, <2>5 DEF Inv
<1>5. CASE NoMoreItems
  <2>1. Turns'
    BY <1>5 DEF NoMoreItems, At, callVars, pipeVars, rpmVars, pdfVars, feedVars, endVars, Inv,
       Turns, EndsKept, RpmEnds, Thread
  <2>2. EndsKept'
    BY <1>5 DEF NoMoreItems, At, callVars, pipeVars, rpmVars, pdfVars, feedVars, endVars, Inv,
       EndsKept, RpmEnds
  <2>3. Flows'
    BY <1>5 DEF NoMoreItems, At, callVars, pipeVars, rpmVars, pdfVars, feedVars, endVars, Inv,
       Flows, FeedType, InLine, Passing, EndsKept, RpmEnds
  <2>4. StillThere'
    BY <1>5 DEF NoMoreItems, At, callVars, pipeVars, rpmVars, pdfVars, feedVars, endVars, Inv,
       Turns, EndsKept, RpmEnds, Flows, StillThere, Passing
  <2>5. Watched'
    BY DEF Watched
  <2> QED
    BY <2>1, <2>2, <2>3, <2>4, <2>5 DEF Inv
<1>6. CASE Shutdown
  <2>1. Turns'
    BY <1>6 DEF Shutdown, At, callVars, pipeVars, pdfVars, feedVars, endVars, Inv, Turns,
       EndsKept, RpmEnds, Thread
  <2>2. EndsKept'
    BY <1>6 DEF Shutdown, At, callVars, pipeVars, pdfVars, feedVars, endVars, Inv, EndsKept,
       RpmEnds
  <2>3. Flows'
    BY <1>6 DEF Shutdown, At, callVars, pipeVars, pdfVars, feedVars, endVars, Inv, Flows,
       FeedType, InLine, Passing, EndsKept, RpmEnds
  <2>4. StillThere'
    BY <1>6 DEF Shutdown, At, callVars, pipeVars, pdfVars, feedVars, endVars, Inv, Turns,
       EndsKept, RpmEnds, Flows, StillThere, Passing
  <2>5. Watched'
    BY DEF Watched
  <2> QED
    BY <2>1, <2>2, <2>3, <2>4, <2>5 DEF Inv
<1>7. CASE CloseReader
  <2>1. Turns'
    BY <1>7 DEF CloseReader, At, callVars, feedVars, rpmVars, pdfVars, Inv, Turns, EndsKept,
       RpmEnds, Thread
  <2>2. EndsKept'
    BY <1>7 DEF CloseReader, At, callVars, feedVars, rpmVars, pdfVars, Inv, EndsKept, RpmEnds
  <2>3. Flows'
    BY <1>7 DEF CloseReader, At, callVars, feedVars, rpmVars, pdfVars, Inv, Flows, FeedType,
       InLine, Passing, EndsKept, RpmEnds
  <2>4. StillThere'
    BY <1>7 DEF CloseReader, At, callVars, feedVars, rpmVars, pdfVars, Inv, Turns, EndsKept,
       RpmEnds, Flows, StillThere, Passing
  <2>5. Watched'
    BY DEF Watched
  <2> QED
    BY <2>1, <2>2, <2>3, <2>4, <2>5 DEF Inv
<1>8. CASE Join
  <2>1. Turns'
    BY <1>8 DEF Join, At, callVars, pipeVars, rpmVars, pdfVars, feedVars, endVars, Inv, Turns,
       EndsKept, RpmEnds, Thread
  <2>2. EndsKept'
    BY <1>8 DEF Join, At, callVars, pipeVars, rpmVars, pdfVars, feedVars, endVars, Inv,
       EndsKept, RpmEnds
  <2>3. Flows'
    BY <1>8 DEF Join, At, callVars, pipeVars, rpmVars, pdfVars, feedVars, endVars, Inv, Flows,
       FeedType, InLine, Passing, EndsKept, RpmEnds
  <2>4. StillThere'
    BY <1>8 DEF Join, At, callVars, pipeVars, rpmVars, pdfVars, feedVars, endVars, Inv, Turns,
       EndsKept, RpmEnds, Flows, StillThere, Passing
  <2>5. Watched'
    BY DEF Watched
  <2> QED
    BY <2>1, <2>2, <2>3, <2>4, <2>5 DEF Inv
<1> QED
  BY <1>1, <1>2, <1>3, <1>4, <1>5, <1>6, <1>7, <1>8 DEF RpmStep

(* What its feeder does. *)
LEMMA InvFeederStep ==
  ASSUME PipeAssumption, Inv, plugin = "rpm", FeederStep, UNCHANGED <<plugin, pdfVars, gstVars>>
  PROVE  Inv'
<1>1. CASE FeederLoops
  <2>1. Turns'
    BY <1>1 DEF FeederLoops, FeederAt, callVars, pipeVars, pdfVars, feedVars, endVars, Inv,
       Turns, EndsKept, RpmEnds, Thread
  <2>2. EndsKept'
    BY <1>1 DEF FeederLoops, FeederAt, callVars, pipeVars, pdfVars, feedVars, endVars, Inv,
       EndsKept, RpmEnds
  <2>3. Flows'
    BY <1>1 DEF FeederLoops, FeederAt, callVars, pipeVars, pdfVars, feedVars, endVars, Inv,
       Flows, FeedType, InLine, Passing, EndsKept, RpmEnds
  <2>4. StillThere'
    BY <1>1 DEF FeederLoops, FeederAt, callVars, pipeVars, pdfVars, feedVars, endVars, Inv,
       Turns, EndsKept, RpmEnds, Flows, StillThere, Passing
  <2>5. Watched'
    BY DEF Watched
  <2> QED
    BY <2>1, <2>2, <2>3, <2>4, <2>5 DEF Inv
<1>2. CASE FeederReads
  <2>1. Turns'
    BY <1>2 DEF FeederReads, FeederAt, Lock, Call, pipeVars, pdfVars, feedVars, endVars, Inv,
       Turns, EndsKept, RpmEnds, Thread, Nobody
  <2>2. EndsKept'
    BY <1>2 DEF FeederReads, FeederAt, Lock, Call, pipeVars, pdfVars, feedVars, endVars, Inv,
       EndsKept, RpmEnds
  <2>3. Flows'
    BY <1>2 DEF FeederReads, FeederAt, Lock, Call, pipeVars, pdfVars, feedVars, endVars, Inv,
       Flows, FeedType, InLine, Passing, EndsKept, RpmEnds
  <2>4. StillThere'
    BY <1>2 DEF FeederReads, FeederAt, Lock, Call, pipeVars, pdfVars, feedVars, endVars, Inv,
       Turns, EndsKept, RpmEnds, Flows, StillThere, Passing
  <2>5. Watched'
    BY DEF Watched
  <2> QED
    BY <2>1, <2>2, <2>3, <2>4, <2>5 DEF Inv
<1>3. CASE FeederHasRead
  <2>1. Turns'
    BY <1>3 DEF FeederHasRead, FeederAt, Unlock, Answered, Refused, feedVars, endVars, pdfVars,
       Ends, Inv, Turns, EndsKept, RpmEnds, Thread, Nobody
  <2>2. EndsKept'
    BY <1>3 DEF FeederHasRead, FeederAt, Unlock, Answered, Refused, feedVars, endVars, pdfVars,
       Ends, Inv, EndsKept, RpmEnds
  <2>3. Flows'
    <3>1. feeder = "reading" /\ UNCHANGED method
      BY <1>3 DEF FeederHasRead, FeederAt
    <3>2. FeedType /\ buf = <<>> /\ received = After(0, Len(received))
      BY <3>1 DEF Inv, Flows
    <3>3. CASE feeder' = "copy" /\ GetsBytes
      BY <3>1, <3>2, <3>3, GetsInLine DEF Inv, Flows, Passing
    <3>4. CASE feeder' = "close" /\ UNCHANGED feedVars
      BY <3>1, <3>2, <3>4 DEF feedVars, FeedType, InLine, Inv, Flows, Passing
    <3> QED
      BY <1>3, <3>3, <3>4 DEF FeederHasRead, FeederAt
  <2>4. StillThere'
    BY <1>3 DEF FeederHasRead, FeederAt, Unlock, Answered, Refused, feedVars, endVars, pdfVars,
       Ends, GetsBytes, Inv, Turns, EndsKept, RpmEnds, Flows, StillThere, Passing
  <2>5. Watched'
    BY DEF Watched
  <2> QED
    BY <2>1, <2>2, <2>3, <2>4, <2>5 DEF Inv
<1>4. CASE FeederCopies
  <2>1. Turns'
    BY <1>4 DEF FeederCopies, FeederAt, callVars, pipeVars, pdfVars, feedVars, endVars, Inv,
       Turns, EndsKept, RpmEnds, Thread
  <2>2. EndsKept'
    BY <1>4 DEF FeederCopies, FeederAt, callVars, pipeVars, pdfVars, feedVars, endVars, Inv,
       EndsKept, RpmEnds
  <2>3. Flows'
    BY <1>4 DEF FeederCopies, FeederAt, callVars, pipeVars, pdfVars, feedVars, endVars, Inv,
       Flows, FeedType, InLine, Passing, EndsKept, RpmEnds
  <2>4. StillThere'
    BY <1>4 DEF FeederCopies, FeederAt, callVars, pipeVars, pdfVars, feedVars, endVars, Inv,
       Turns, EndsKept, RpmEnds, Flows, StillThere, Passing
  <2>5. Watched'
    BY DEF Watched
  <2> QED
    BY <2>1, <2>2, <2>3, <2>4, <2>5 DEF Inv
<1>5. CASE FeederWrites
  <2>1. Turns'
    BY <1>5 DEF FeederWrites, FeederAt, callVars, feedVars, endVars, pdfVars, Inv, Turns,
       EndsKept, RpmEnds, Thread
  <2>2. EndsKept'
    BY <1>5 DEF FeederWrites, FeederAt, callVars, feedVars, endVars, pdfVars, Inv, EndsKept,
       RpmEnds
  <2>3. Flows'
    <3>1. feeder = "write" /\ feeder' \in {"copy", "close"} /\ UNCHANGED method
      BY <1>5 DEF FeederWrites, FeederAt
    <3>2. FeedType /\ received = After(0, Len(received)) /\ (Passing => InLine /\ ~moved)
      BY <3>1 DEF Inv, Flows, StillThere, Passing
    <3>3. CASE PutsBytes
      BY <3>1, <3>2, <3>3, PutsInLine DEF Flows, Passing
    <3>4. CASE UNCHANGED feedVars
      BY <3>1, <3>2, <3>4 DEF feedVars, FeedType, InLine, Flows, Passing
    <3> QED
      BY <1>5, <3>3, <3>4 DEF FeederWrites
  <2>4. StillThere'
    BY <1>5 DEF FeederWrites, FeederAt, callVars, feedVars, endVars, pdfVars, PutsBytes, Inv,
       Turns, EndsKept, RpmEnds, Flows, StillThere, Passing
  <2>5. Watched'
    BY DEF Watched
  <2> QED
    BY <2>1, <2>2, <2>3, <2>4, <2>5 DEF Inv
<1>6. CASE FeederCloses
  <2>1. Turns'
    BY <1>6 DEF FeederCloses, FeederAt, callVars, feedVars, pdfVars, Inv, Turns, EndsKept,
       RpmEnds, Thread
  <2>2. EndsKept'
    BY <1>6 DEF FeederCloses, FeederAt, callVars, feedVars, pdfVars, Inv, EndsKept, RpmEnds
  <2>3. Flows'
    BY <1>6 DEF FeederCloses, FeederAt, callVars, feedVars, pdfVars, Inv, Flows, FeedType,
       InLine, Passing, EndsKept, RpmEnds
  <2>4. StillThere'
    BY <1>6 DEF FeederCloses, FeederAt, callVars, feedVars, pdfVars, Inv, Turns, EndsKept,
       RpmEnds, Flows, StillThere, Passing
  <2>5. Watched'
    BY DEF Watched
  <2> QED
    BY <2>1, <2>2, <2>3, <2>4, <2>5 DEF Inv
<1> QED
  BY <1>1, <1>2, <1>3, <1>4, <1>5, <1>6 DEF FeederStep

(* What the method of the plugin for PDF documents does. *)
LEMMA InvPdfStep ==
  ASSUME PipeAssumption, Inv, plugin = "pdf", PdfStep, UNCHANGED <<plugin, rpmVars, gstVars>>
  PROVE  Inv'
<1>1. CASE PdfProbes
  <2>1. Turns'
    BY <1>1 DEF PdfProbes, At, Call, callVars, pipeVars, pdfVars, rpmVars, feedVars, endVars,
       Inv, Turns, EndsKept, PdfEnds, Thread, Nobody
  <2>2. EndsKept'
    BY <1>1 DEF PdfProbes, At, Call, callVars, pipeVars, pdfVars, rpmVars, feedVars, endVars,
       Inv, EndsKept, PdfEnds
  <2>3. Flows'
    BY <1>1 DEF PdfProbes, At, Call, callVars, pipeVars, pdfVars, rpmVars, feedVars, endVars,
       Inv, Flows, FeedType, InLine, Passing, EndsKept, PdfEnds
  <2>4. StillThere'
    BY <1>1 DEF PdfProbes, At, Call, callVars, pipeVars, pdfVars, rpmVars, feedVars, endVars,
       Inv, Turns, EndsKept, PdfEnds, Flows, StillThere, Passing
  <2>5. Watched'
    BY DEF Watched
  <2> QED
    BY <2>1, <2>2, <2>3, <2>4, <2>5 DEF Inv
<1>2. CASE PdfProbed
  <2>1. Turns'
    BY <1>2 DEF PdfProbed, At, Answered, Refused, pipeVars, pdfVars, rpmVars, Ends, feedVars,
       endVars, Inv, Turns, EndsKept, PdfEnds, Thread, Nobody
  <2>2. EndsKept'
    BY <1>2 DEF PdfProbed, At, Answered, Refused, pipeVars, pdfVars, rpmVars, Ends, feedVars,
       endVars, Inv, EndsKept, PdfEnds
  <2>3. Flows'
    BY <1>2 DEF PdfProbed, At, Answered, Refused, pipeVars, pdfVars, rpmVars, Ends, feedVars,
       endVars, Inv, Flows, FeedType, InLine, Passing, EndsKept, PdfEnds
  <2>4. StillThere'
    <3>1. asking = {} \/ "method" \in asking
      BY DEF Inv, Turns, Thread
    <3> QED
      BY <1>2, <3>1 DEF PdfProbed, At, Answered, Refused, pipeVars, pdfVars, rpmVars, Ends,
         feedVars, endVars, Inv, Turns, EndsKept, PdfEnds, StillThere
  <2>5. Watched'
    BY DEF Watched
  <2> QED
    BY <2>1, <2>2, <2>3, <2>4, <2>5 DEF Inv
<1>3. CASE PdfForks
  <2>1. Turns'
    BY <1>3 DEF PdfForks, outEnds, At, callVars, feedVars, endVars, rpmVars, Inv, Turns, EndsKept,
       PdfEnds, Thread, Nobody
  <2>2. EndsKept'
    BY <1>3 DEF PdfForks, outEnds, At, callVars, feedVars, endVars, rpmVars, Inv, EndsKept, PdfEnds
  <2>3. Flows'
    BY <1>3 DEF PdfForks, outEnds, At, callVars, feedVars, endVars, rpmVars, Inv, Flows, FeedType,
       InLine, Passing, EndsKept, PdfEnds
  <2>4. StillThere'
    BY <1>3 DEF PdfForks, outEnds, At, callVars, feedVars, endVars, rpmVars, Inv, Turns, EndsKept,
       PdfEnds, Flows, StillThere, Passing
  <2>5. Watched'
    BY DEF Watched
  <2> QED
    BY <2>1, <2>2, <2>3, <2>4, <2>5 DEF Inv
<1>4. CASE ParentCloses
  <2>1. Turns'
    BY <1>4 DEF ParentCloses, At, callVars, feedVars, pdfVars, rpmVars, Inv, Turns, EndsKept,
       PdfEnds, Thread, Nobody
  <2>2. EndsKept'
    BY <1>4 DEF ParentCloses, At, callVars, feedVars, pdfVars, rpmVars, Inv, EndsKept, PdfEnds
  <2>3. Flows'
    BY <1>4 DEF ParentCloses, At, callVars, feedVars, pdfVars, rpmVars, Inv, Flows, FeedType,
       InLine, Passing, EndsKept, PdfEnds
  <2>4. StillThere'
    BY <1>4 DEF ParentCloses, At, callVars, feedVars, pdfVars, rpmVars, Inv, Turns, EndsKept,
       PdfEnds, Flows, StillThere, Passing
  <2>5. Watched'
    BY DEF Watched
  <2> QED
    BY <2>1, <2>2, <2>3, <2>4, <2>5 DEF Inv
<1>5. CASE PdfReads
  <2>1. Turns'
    BY <1>5 DEF PdfReads, At, Call, pipeVars, pdfVars, rpmVars, feedVars, endVars, Inv, Turns,
       EndsKept, PdfEnds, Thread, Nobody
  <2>2. EndsKept'
    BY <1>5 DEF PdfReads, At, Call, pipeVars, pdfVars, rpmVars, feedVars, endVars, Inv,
       EndsKept, PdfEnds
  <2>3. Flows'
    BY <1>5 DEF PdfReads, At, Call, pipeVars, pdfVars, rpmVars, feedVars, endVars, Inv, Flows,
       FeedType, InLine, Passing, EndsKept, PdfEnds
  <2>4. StillThere'
    BY <1>5 DEF PdfReads, At, Call, pipeVars, pdfVars, rpmVars, feedVars, endVars, Inv, Turns,
       EndsKept, PdfEnds, Flows, StillThere, Passing
  <2>5. Watched'
    BY DEF Watched
  <2> QED
    BY <2>1, <2>2, <2>3, <2>4, <2>5 DEF Inv
<1>6. CASE PdfHasRead
  <2>1. Turns'
    BY <1>6 DEF PdfHasRead, At, Answered, Refused, feedVars, endVars, pdfVars, rpmVars, Ends,
       Inv, Turns, EndsKept, PdfEnds, Thread, Nobody
  <2>2. EndsKept'
    BY <1>6 DEF PdfHasRead, At, Answered, Refused, feedVars, endVars, pdfVars, rpmVars, Ends,
       Inv, EndsKept, PdfEnds
  <2>3. Flows'
    <3>1. method = "reading" /\ method' \in {"write", "read", "close"}
      BY <1>6 DEF PdfHasRead, At
    <3>2. FeedType /\ buf = <<>> /\ received = After(0, Len(received)) /\ InLine
      BY <3>1 DEF Inv, Flows, Passing
    <3>3. CASE method' = "write" /\ GetsBytes
      BY <3>2, <3>3, GetsInLine DEF Flows
    <3>4. CASE UNCHANGED feedVars
      BY <3>1, <3>2, <3>4 DEF feedVars, FeedType, InLine, Flows
    <3> QED
      BY <1>6, <3>3, <3>4 DEF PdfHasRead, At
  <2>4. StillThere'
    <3>1. method = "reading" /\ method' \in {"write", "read", "close"} /\ plugin' = "pdf"
      BY <1>6 DEF PdfHasRead, At
    <3>2. asking = {} \/ "method" \in asking
      BY DEF Inv, Turns, Thread
    <3>3. asking = {} => library = "listens"
      BY <3>1 DEF Inv, StillThere
    <3>4. CASE Answered("method")
      <4>1. library = "listens" /\ library' = "listens"
        BY <3>2, <3>3, <3>4 DEF Answered
      <4>2. method' = "write" => GetsBytes
        BY <1>6 DEF PdfHasRead, At
      <4>3. method' = "write" => ~moved'
        BY <4>1, <4>2 DEF GetsBytes
      <4> QED
        BY <3>1, <4>1, <4>3 DEF StillThere
    <3>6. CASE method' = "close"
      BY <3>1, <3>6 DEF StillThere
    <3> QED
      BY <1>6, <3>4, <3>6 DEF PdfHasRead, At
  <2>5. Watched'
    BY DEF Watched
  <2> QED
    BY <2>1, <2>2, <2>3, <2>4, <2>5 DEF Inv
<1>7. CASE PdfWrites
  <2>1. Turns'
    BY <1>7 DEF PdfWrites, At, callVars, feedVars, endVars, pdfVars, rpmVars, Inv, Turns,
       EndsKept, PdfEnds, Thread, Nobody
  <2>2. EndsKept'
    BY <1>7 DEF PdfWrites, At, callVars, feedVars, endVars, pdfVars, rpmVars, Inv, EndsKept,
       PdfEnds
  <2>3. Flows'
    <3>1. method = "write"
      BY <1>7 DEF PdfWrites, At
    <3>2. FeedType /\ received = After(0, Len(received)) /\ InLine /\ ~moved
      BY <3>1 DEF Inv, Flows, StillThere, Passing
    <3>3. CASE method' = "write" /\ PutsBytes
      BY <3>2, <3>3, PutsInLine DEF Flows
    <3>4. CASE /\ method' \in {"read", "close"} /\ UNCHANGED feedVars
               /\ method' = "read" => buf = <<>>
      BY <3>2, <3>4 DEF feedVars, FeedType, InLine, Flows
    <3> QED
      BY <1>7, <3>3, <3>4 DEF PdfWrites, At
  <2>4. StillThere'
    BY <1>7 DEF PdfWrites, At, callVars, feedVars, endVars, pdfVars, rpmVars, PutsBytes, Inv,
       Turns, EndsKept, PdfEnds, Flows, StillThere, Passing
  <2>5. Watched'
    BY DEF Watched
  <2> QED
    BY <2>1, <2>2, <2>3, <2>4, <2>5 DEF Inv
<1>8. CASE PdfAllRead
  <2>1. Turns'
    BY <1>8 DEF PdfAllRead, At, callVars, pipeVars, pdfVars, rpmVars, feedVars, endVars, Inv,
       Turns, EndsKept, PdfEnds, Thread, Nobody
  <2>2. EndsKept'
    BY <1>8 DEF PdfAllRead, At, callVars, pipeVars, pdfVars, rpmVars, feedVars, endVars, Inv,
       EndsKept, PdfEnds
  <2>3. Flows'
    BY <1>8 DEF PdfAllRead, At, callVars, pipeVars, pdfVars, rpmVars, feedVars, endVars, Inv,
       Flows, FeedType, InLine, Passing, EndsKept, PdfEnds
  <2>4. StillThere'
    BY <1>8 DEF PdfAllRead, At, callVars, pipeVars, pdfVars, rpmVars, feedVars, endVars, Inv,
       Turns, EndsKept, PdfEnds, Flows, StillThere, Passing
  <2>5. Watched'
    BY DEF Watched
  <2> QED
    BY <2>1, <2>2, <2>3, <2>4, <2>5 DEF Inv
<1>9. CASE PdfCloses
  <2>1. Turns'
    BY <1>9 DEF PdfCloses, At, callVars, feedVars, pdfVars, rpmVars, Inv, Turns, EndsKept,
       PdfEnds, Thread, Nobody
  <2>2. EndsKept'
    BY <1>9 DEF PdfCloses, At, callVars, feedVars, pdfVars, rpmVars, Inv, EndsKept, PdfEnds
  <2>3. Flows'
    BY <1>9 DEF PdfCloses, At, callVars, feedVars, pdfVars, rpmVars, Inv, Flows, FeedType,
       InLine, Passing, EndsKept, PdfEnds
  <2>4. StillThere'
    BY <1>9 DEF PdfCloses, At, callVars, feedVars, pdfVars, rpmVars, Inv, Turns, EndsKept,
       PdfEnds, Flows, StillThere, Passing
  <2>5. Watched'
    BY DEF Watched
  <2> QED
    BY <2>1, <2>2, <2>3, <2>4, <2>5 DEF Inv
<1>10. CASE PdfLine
  <2>1. Turns'
    BY <1>10 DEF PdfLine, outEnds, At, Call, feedVars, endVars, rpmVars, Inv, Turns, EndsKept, PdfEnds,
       Thread, Nobody
  <2>2. EndsKept'
    BY <1>10 DEF PdfLine, outEnds, At, Call, feedVars, endVars, rpmVars, Inv, EndsKept, PdfEnds
  <2>3. Flows'
    BY <1>10 DEF PdfLine, outEnds, At, Call, feedVars, endVars, rpmVars, Inv, Flows, FeedType, InLine,
       Passing, EndsKept, PdfEnds
  <2>4. StillThere'
    BY <1>10 DEF PdfLine, outEnds, At, Call, feedVars, endVars, rpmVars, Inv, Turns, EndsKept, PdfEnds,
       Flows, StillThere, Passing
  <2>5. Watched'
    BY DEF Watched
  <2> QED
    BY <2>1, <2>2, <2>3, <2>4, <2>5 DEF Inv
<1>11. CASE PdfReported
  <2>1. Turns'
    BY <1>11 DEF PdfReported, At, Answered, Refused, pipeVars, pdfVars, rpmVars, Ends, feedVars,
       endVars, Inv, Turns, EndsKept, PdfEnds, Thread, Nobody
  <2>2. EndsKept'
    BY <1>11 DEF PdfReported, At, Answered, Refused, pipeVars, pdfVars, rpmVars, Ends, feedVars,
       endVars, Inv, EndsKept, PdfEnds
  <2>3. Flows'
    BY <1>11 DEF PdfReported, At, Answered, Refused, pipeVars, pdfVars, rpmVars, Ends, feedVars,
       endVars, Inv, Flows, FeedType, InLine, Passing, EndsKept, PdfEnds
  <2>4. StillThere'
    BY <1>11 DEF PdfReported, At, Answered, Refused, pipeVars, pdfVars, rpmVars, Ends, feedVars,
       endVars, Inv, Turns, EndsKept, PdfEnds, Flows, StillThere, Passing
  <2>5. Watched'
    BY DEF Watched
  <2> QED
    BY <2>1, <2>2, <2>3, <2>4, <2>5 DEF Inv
<1>12. CASE PdfNoMoreLines
  <2>1. Turns'
    BY <1>12 DEF PdfNoMoreLines, At, callVars, pipeVars, pdfVars, rpmVars, feedVars, endVars,
       Inv, Turns, EndsKept, PdfEnds, Thread, Nobody
  <2>2. EndsKept'
    BY <1>12 DEF PdfNoMoreLines, At, callVars, pipeVars, pdfVars, rpmVars, feedVars, endVars,
       Inv, EndsKept, PdfEnds
  <2>3. Flows'
    BY <1>12 DEF PdfNoMoreLines, At, callVars, pipeVars, pdfVars, rpmVars, feedVars, endVars,
       Inv, Flows, FeedType, InLine, Passing, EndsKept, PdfEnds
  <2>4. StillThere'
    BY <1>12 DEF PdfNoMoreLines, At, callVars, pipeVars, pdfVars, rpmVars, feedVars, endVars,
       Inv, Turns, EndsKept, PdfEnds, Flows, StillThere, Passing
  <2>5. Watched'
    BY DEF Watched
  <2> QED
    BY <2>1, <2>2, <2>3, <2>4, <2>5 DEF Inv
<1>13. CASE PdfKills
  <2>1. Turns'
    BY <1>13 DEF PdfKills, At, ChildEnds, rpmVars, callVars, feedVars, Inv, Turns, EndsKept,
       PdfEnds, Thread, Nobody
  <2>2. EndsKept'
    BY <1>13 DEF PdfKills, At, ChildEnds, rpmVars, callVars, feedVars, Inv, EndsKept, PdfEnds
  <2>3. Flows'
    BY <1>13 DEF PdfKills, At, ChildEnds, rpmVars, callVars, feedVars, Inv, Flows, FeedType,
       InLine, Passing, EndsKept, PdfEnds
  <2>4. StillThere'
    BY <1>13 DEF PdfKills, At, ChildEnds, rpmVars, callVars, feedVars, Inv, Turns, EndsKept,
       PdfEnds, Flows, StillThere, Passing
  <2>5. Watched'
    BY DEF Watched
  <2> QED
    BY <2>1, <2>2, <2>3, <2>4, <2>5 DEF Inv
<1>14. CASE PdfReaps
  <2>1. Turns'
    BY <1>14 DEF PdfReaps, outEnds, At, callVars, pipeVars, rpmVars, feedVars, endVars, Inv, Turns,
       EndsKept, PdfEnds, Thread, Nobody
  <2>2. EndsKept'
    BY <1>14 DEF PdfReaps, outEnds, At, callVars, pipeVars, rpmVars, feedVars, endVars, Inv, EndsKept,
       PdfEnds
  <2>3. Flows'
    BY <1>14 DEF PdfReaps, outEnds, At, callVars, pipeVars, rpmVars, feedVars, endVars, Inv, Flows,
       FeedType, InLine, Passing, EndsKept, PdfEnds
  <2>4. StillThere'
    BY <1>14 DEF PdfReaps, outEnds, At, callVars, pipeVars, rpmVars, feedVars, endVars, Inv, Turns,
       EndsKept, PdfEnds, Flows, StillThere, Passing
  <2>5. Watched'
    BY DEF Watched
  <2> QED
    BY <2>1, <2>2, <2>3, <2>4, <2>5 DEF Inv
<1>15. CASE PdfFcloses
  <2>1. Turns'
    BY <1>15 DEF PdfFcloses, At, callVars, pipeVars, pdfVars, rpmVars, feedVars, endVars,
       Inv, Turns, EndsKept, PdfEnds, Thread, Nobody
  <2>2. EndsKept'
    BY <1>15 DEF PdfFcloses, At, callVars, pipeVars, pdfVars, rpmVars, feedVars, endVars,
       Inv, EndsKept, PdfEnds
  <2>3. Flows'
    BY <1>15 DEF PdfFcloses, At, callVars, pipeVars, pdfVars, rpmVars, feedVars, endVars,
       Inv, Flows, FeedType, InLine, Passing, EndsKept, PdfEnds
  <2>4. StillThere'
    BY <1>15 DEF PdfFcloses, At, callVars, pipeVars, pdfVars, rpmVars, feedVars, endVars,
       Inv, Turns, EndsKept, PdfEnds, Flows, StillThere, Passing
  <2>5. Watched'
    BY DEF Watched
  <2> QED
    BY <2>1, <2>2, <2>3, <2>4, <2>5 DEF Inv
<1> QED
  BY <1>1, <1>2, <1>3, <1>4, <1>5, <1>6, <1>7, <1>8, <1>9, <1>10, <1>11, <1>12, <1>13, <1>14,
     <1>15 DEF PdfStep

Child == ChildStep \/ ChildFails

(* What becomes of its child. *)
LEMMA InvChildStep ==
  ASSUME PipeAssumption, Inv, plugin = "pdf", Child, UNCHANGED <<plugin, rpmVars, gstVars>>
  PROVE  Inv'
<1>1. CASE Execs
  <2>1. Turns'
    BY <1>1 DEF Execs, callVars, feedVars, rpmVars, Inv, Turns, EndsKept, PdfEnds, Thread,
       Nobody
  <2>2. EndsKept'
    BY <1>1 DEF Execs, callVars, feedVars, rpmVars, Inv, EndsKept, PdfEnds
  <2>3. Flows'
    BY <1>1 DEF Execs, callVars, feedVars, rpmVars, Inv, Flows, FeedType, InLine, Passing,
       EndsKept, PdfEnds
  <2>4. StillThere'
    BY <1>1 DEF Execs, callVars, feedVars, rpmVars, Inv, Turns, EndsKept, PdfEnds, Flows,
       StillThere, Passing
  <2>5. Watched'
    BY DEF Watched
  <2> QED
    BY <2>1, <2>2, <2>3, <2>4, <2>5 DEF Inv
<1>2. CASE PdfinfoReads
  <2>1. Turns'
    BY <1>2 DEF PdfinfoReads, outEnds, callVars, endVars, AtEnd, rpmVars, Inv, Turns, EndsKept, PdfEnds,
       Thread, Nobody
  <2>2. EndsKept'
    BY <1>2 DEF PdfinfoReads, outEnds, callVars, endVars, AtEnd, rpmVars, Inv, EndsKept, PdfEnds
  <2>3. Flows'
    <3>1. FeedType /\ received = After(0, Len(received)) /\ InLine /\ UNCHANGED method
      BY <1>2 DEF PdfinfoReads, Inv, Flows, Passing
    <3>2. CASE TakesBytes
      <4>1. UNCHANGED buf
        BY <3>2 DEF TakesBytes
      <4> QED
        BY <3>1, <3>2, <4>1, TakesInLine DEF Inv, Flows
    <3>3. CASE AtEnd
      BY <3>1, <3>3 DEF AtEnd, feedVars, FeedType, InLine, Inv, Flows
    <3> QED
      BY <1>2, <3>2, <3>3 DEF PdfinfoReads
  <2>4. StillThere'
    BY <1>2 DEF PdfinfoReads, outEnds, callVars, endVars, AtEnd, rpmVars, TakesBytes, feedVars, Inv,
       Turns, EndsKept, PdfEnds, Flows, StillThere, Passing
  <2>5. Watched'
    BY DEF Watched
  <2> QED
    BY <2>1, <2>2, <2>3, <2>4, <2>5 DEF Inv
<1>3. CASE PdfinfoPrints
  <2>1. Turns'
    BY <1>3 DEF PdfinfoPrints, outEnds, callVars, pipeVars, rpmVars, feedVars, endVars, Inv, Turns,
       EndsKept, PdfEnds, Thread, Nobody
  <2>2. EndsKept'
    BY <1>3 DEF PdfinfoPrints, outEnds, callVars, pipeVars, rpmVars, feedVars, endVars, Inv, EndsKept,
       PdfEnds
  <2>3. Flows'
    BY <1>3 DEF PdfinfoPrints, outEnds, callVars, pipeVars, rpmVars, feedVars, endVars, Inv, Flows,
       FeedType, InLine, Passing, EndsKept, PdfEnds
  <2>4. StillThere'
    BY <1>3 DEF PdfinfoPrints, outEnds, callVars, pipeVars, rpmVars, feedVars, endVars, Inv, Turns,
       EndsKept, PdfEnds, Flows, StillThere, Passing
  <2>5. Watched'
    BY DEF Watched
  <2> QED
    BY <2>1, <2>2, <2>3, <2>4, <2>5 DEF Inv
<1>4. CASE PdfinfoExits
  <2>1. Turns'
    BY <1>4 DEF PdfinfoExits, ChildEnds, rpmVars, callVars, feedVars, Inv, Turns, EndsKept,
       PdfEnds, Thread, Nobody
  <2>2. EndsKept'
    BY <1>4 DEF PdfinfoExits, ChildEnds, rpmVars, callVars, feedVars, Inv, EndsKept, PdfEnds
  <2>3. Flows'
    BY <1>4 DEF PdfinfoExits, ChildEnds, rpmVars, callVars, feedVars, Inv, Flows, FeedType,
       InLine, Passing, EndsKept, PdfEnds
  <2>4. StillThere'
    BY <1>4 DEF PdfinfoExits, ChildEnds, rpmVars, callVars, feedVars, Inv, Turns, EndsKept,
       PdfEnds, Flows, StillThere, Passing
  <2>5. Watched'
    BY DEF Watched
  <2> QED
    BY <2>1, <2>2, <2>3, <2>4, <2>5 DEF Inv
<1>5. CASE ChildFails
  <2>1. Turns'
    BY <1>5 DEF ChildFails, ChildEnds, rpmVars, callVars, feedVars, Inv, Turns, EndsKept,
       PdfEnds, Thread, Nobody
  <2>2. EndsKept'
    BY <1>5 DEF ChildFails, ChildEnds, rpmVars, callVars, feedVars, Inv, EndsKept, PdfEnds
  <2>3. Flows'
    BY <1>5 DEF ChildFails, ChildEnds, rpmVars, callVars, feedVars, Inv, Flows, FeedType,
       InLine, Passing, EndsKept, PdfEnds
  <2>4. StillThere'
    BY <1>5 DEF ChildFails, ChildEnds, rpmVars, callVars, feedVars, Inv, Turns, EndsKept,
       PdfEnds, Flows, StillThere, Passing
  <2>5. Watched'
    BY DEF Watched
  <2> QED
    BY <2>1, <2>2, <2>3, <2>4, <2>5 DEF Inv
<1> QED
  BY <1>1, <1>2, <1>3, <1>4, <1>5 DEF Child, ChildStep

(* What GStreamer's main loop does. *)
LEMMA InvLoopStep ==
  ASSUME PipeAssumption, Inv, plugin = "gstreamer", LoopStep,
         UNCHANGED <<plugin, rpmVars, pdfVars, pipeVars>>
  PROVE  Inv'
<1>1. CASE GstStart
  <2>1. Turns'
    BY <1>1 DEF GstStart, At, callVars, gstVars, rpmVars, pdfVars, pipeVars, feedVars, endVars,
       Inv, Turns, EndsKept, GstEnds, Thread
  <2>2. EndsKept'
    BY <1>1 DEF GstStart, At, callVars, gstVars, rpmVars, pdfVars, pipeVars, feedVars, endVars,
       Inv, EndsKept, GstEnds
  <2>3. Flows'
    BY <1>1 DEF GstStart, At, callVars, gstVars, rpmVars, pdfVars, pipeVars, feedVars, endVars,
       Inv, Flows, FeedType, InLine, Passing, EndsKept, GstEnds
  <2>4. StillThere'
    BY DEF StillThere
  <2>5. Watched'
    BY <1>1 DEF GstStart, At, callVars, gstVars, rpmVars, pdfVars, pipeVars, feedVars, endVars,
       Inv, EndsKept, GstEnds, Watched
  <2> QED
    BY <2>1, <2>2, <2>3, <2>4, <2>5 DEF Inv
<1>2. CASE RunAsync
  <2>1. Turns'
    BY <1>2 DEF RunAsync, callVars, Arm, rpmVars, pdfVars, pipeVars, feedVars, endVars, Inv,
       Turns, EndsKept, GstEnds, Thread
  <2>2. EndsKept'
    BY <1>2 DEF RunAsync, callVars, Arm, rpmVars, pdfVars, pipeVars, feedVars, endVars, Inv,
       EndsKept, GstEnds
  <2>3. Flows'
    BY <1>2 DEF RunAsync, callVars, Arm, rpmVars, pdfVars, pipeVars, feedVars, endVars, Inv,
       Flows, FeedType, InLine, Passing, EndsKept, GstEnds
  <2>4. StillThere'
    BY DEF StillThere
  <2>5. Watched'
    BY <1>2 DEF RunAsync, callVars, Arm, rpmVars, pdfVars, pipeVars, feedVars, endVars, Inv,
       EndsKept, GstEnds, Watched
  <2> QED
    BY <2>1, <2>2, <2>3, <2>4, <2>5 DEF Inv
<1>3. CASE TimeoutFires
  <2>1. Turns'
    BY <1>3 DEF TimeoutFires, At, callVars, rpmVars, pdfVars, pipeVars, feedVars, endVars, Inv,
       Turns, EndsKept, GstEnds, Thread
  <2>2. EndsKept'
    BY <1>3 DEF TimeoutFires, At, callVars, rpmVars, pdfVars, pipeVars, feedVars, endVars, Inv,
       EndsKept, GstEnds
  <2>3. Flows'
    BY <1>3 DEF TimeoutFires, At, callVars, rpmVars, pdfVars, pipeVars, feedVars, endVars, Inv,
       Flows, FeedType, InLine, Passing, EndsKept, GstEnds
  <2>4. StillThere'
    BY DEF StillThere
  <2>5. Watched'
    BY <1>3 DEF TimeoutFires, At, callVars, rpmVars, pdfVars, pipeVars, feedVars, endVars, Inv,
       EndsKept, GstEnds, Watched
  <2> QED
    BY <2>1, <2>2, <2>3, <2>4, <2>5 DEF Inv
<1>4. CASE Discovered
  <2>1. Turns'
    BY <1>4 DEF Discovered, At, callVars, rpmVars, pdfVars, pipeVars, feedVars, endVars, Inv,
       Turns, EndsKept, GstEnds, Thread
  <2>2. EndsKept'
    BY <1>4 DEF Discovered, At, callVars, rpmVars, pdfVars, pipeVars, feedVars, endVars, Inv,
       EndsKept, GstEnds
  <2>3. Flows'
    BY <1>4 DEF Discovered, At, callVars, rpmVars, pdfVars, pipeVars, feedVars, endVars, Inv,
       Flows, FeedType, InLine, Passing, EndsKept, GstEnds
  <2>4. StillThere'
    BY DEF StillThere
  <2>5. Watched'
    BY <1>4 DEF Discovered, At, callVars, rpmVars, pdfVars, pipeVars, feedVars, endVars, Inv,
       EndsKept, GstEnds, Watched
  <2> QED
    BY <2>1, <2>2, <2>3, <2>4, <2>5 DEF Inv
<1>5. CASE SendBegins
  <2>1. Turns'
    BY <1>5 DEF SendBegins, At, Lock, gstVars, rpmVars, pdfVars, pipeVars, feedVars, endVars,
       Inv, Turns, EndsKept, GstEnds, Thread, Nobody
  <2>2. EndsKept'
    BY <1>5 DEF SendBegins, At, Lock, gstVars, rpmVars, pdfVars, pipeVars, feedVars, endVars,
       Inv, EndsKept, GstEnds
  <2>3. Flows'
    BY <1>5 DEF SendBegins, At, Lock, gstVars, rpmVars, pdfVars, pipeVars, feedVars, endVars,
       Inv, Flows, FeedType, InLine, Passing, EndsKept, GstEnds
  <2>4. StillThere'
    BY DEF StillThere
  <2>5. Watched'
    BY <1>5 DEF SendBegins, At, Lock, gstVars, rpmVars, pdfVars, pipeVars, feedVars, endVars,
       Inv, EndsKept, GstEnds, Watched
  <2> QED
    BY <2>1, <2>2, <2>3, <2>4, <2>5 DEF Inv
<1>6. CASE SendItem
  <2>1. Turns'
    BY <1>6 DEF SendItem, At, Call, rpmVars, pdfVars, pipeVars, feedVars, endVars, Inv, Turns,
       EndsKept, GstEnds, Thread
  <2>2. EndsKept'
    BY <1>6 DEF SendItem, At, Call, rpmVars, pdfVars, pipeVars, feedVars, endVars, Inv,
       EndsKept, GstEnds
  <2>3. Flows'
    BY <1>6 DEF SendItem, At, Call, rpmVars, pdfVars, pipeVars, feedVars, endVars, Inv, Flows,
       FeedType, InLine, Passing, EndsKept, GstEnds
  <2>4. StillThere'
    BY DEF StillThere
  <2>5. Watched'
    BY <1>6 DEF SendItem, At, Call, rpmVars, pdfVars, pipeVars, feedVars, endVars, Inv,
       EndsKept, GstEnds, Watched
  <2> QED
    BY <2>1, <2>2, <2>3, <2>4, <2>5 DEF Inv
<1>7. CASE ItemSent
  <2>1. Turns'
    BY <1>7 DEF ItemSent, At, Answered, Refused, rpmVars, pdfVars, pipeVars, Ends, feedVars,
       endVars, Inv, Turns, EndsKept, GstEnds, Thread
  <2>2. EndsKept'
    BY <1>7 DEF ItemSent, At, Answered, Refused, rpmVars, pdfVars, pipeVars, Ends, feedVars,
       endVars, Inv, EndsKept, GstEnds
  <2>3. Flows'
    BY <1>7 DEF ItemSent, At, Answered, Refused, rpmVars, pdfVars, pipeVars, Ends, feedVars,
       endVars, Inv, Flows, FeedType, InLine, Passing, EndsKept, GstEnds
  <2>4. StillThere'
    BY DEF StillThere
  <2>5. Watched'
    BY <1>7 DEF ItemSent, At, Answered, Refused, rpmVars, pdfVars, pipeVars, Ends, feedVars,
       endVars, Inv, EndsKept, GstEnds, Watched
  <2> QED
    BY <2>1, <2>2, <2>3, <2>4, <2>5 DEF Inv
<1>8. CASE AllSent
  <2>1. Turns'
    BY <1>8 DEF AllSent, At, Unlock, gstVars, rpmVars, pdfVars, pipeVars, feedVars, endVars,
       Inv, Turns, EndsKept, GstEnds, Thread, Nobody
  <2>2. EndsKept'
    BY <1>8 DEF AllSent, At, Unlock, gstVars, rpmVars, pdfVars, pipeVars, feedVars, endVars,
       Inv, EndsKept, GstEnds
  <2>3. Flows'
    BY <1>8 DEF AllSent, At, Unlock, gstVars, rpmVars, pdfVars, pipeVars, feedVars, endVars,
       Inv, Flows, FeedType, InLine, Passing, EndsKept, GstEnds
  <2>4. StillThere'
    BY DEF StillThere
  <2>5. Watched'
    BY <1>8 DEF AllSent, At, Unlock, gstVars, rpmVars, pdfVars, pipeVars, feedVars, endVars,
       Inv, EndsKept, GstEnds, Watched
  <2> QED
    BY <2>1, <2>2, <2>3, <2>4, <2>5 DEF Inv
<1>9. CASE Rearm
  <2>1. Turns'
    BY <1>9 DEF Rearm, At, callVars, Disarm, Arm, rpmVars, pdfVars, pipeVars, feedVars, endVars,
       Inv, Turns, EndsKept, GstEnds, Thread
  <2>2. EndsKept'
    BY <1>9 DEF Rearm, At, callVars, Disarm, Arm, rpmVars, pdfVars, pipeVars, feedVars, endVars,
       Inv, EndsKept, GstEnds
  <2>3. Flows'
    BY <1>9 DEF Rearm, At, callVars, Disarm, Arm, rpmVars, pdfVars, pipeVars, feedVars, endVars,
       Inv, Flows, FeedType, InLine, Passing, EndsKept, GstEnds
  <2>4. StillThere'
    BY DEF StillThere
  <2>5. Watched'
    BY <1>9 DEF Rearm, At, callVars, Disarm, Arm, rpmVars, pdfVars, pipeVars, feedVars, endVars,
       Inv, EndsKept, GstEnds, Watched
  <2> QED
    BY <2>1, <2>2, <2>3, <2>4, <2>5 DEF Inv
<1>10. CASE Finished
  <2>1. Turns'
    BY <1>10 DEF Finished, At, callVars, rpmVars, pdfVars, pipeVars, feedVars, endVars, Inv,
       Turns, EndsKept, GstEnds, Thread
  <2>2. EndsKept'
    BY <1>10 DEF Finished, At, callVars, rpmVars, pdfVars, pipeVars, feedVars, endVars, Inv,
       EndsKept, GstEnds
  <2>3. Flows'
    BY <1>10 DEF Finished, At, callVars, rpmVars, pdfVars, pipeVars, feedVars, endVars, Inv,
       Flows, FeedType, InLine, Passing, EndsKept, GstEnds
  <2>4. StillThere'
    BY DEF StillThere
  <2>5. Watched'
    BY <1>10 DEF Finished, At, callVars, rpmVars, pdfVars, pipeVars, feedVars, endVars, Inv,
       EndsKept, GstEnds, Watched
  <2> QED
    BY <2>1, <2>2, <2>3, <2>4, <2>5 DEF Inv
<1>11. CASE LoopLeft
  <2>1. Turns'
    BY <1>11 DEF LoopLeft, At, callVars, Disarm, rpmVars, pdfVars, pipeVars, feedVars, endVars,
       Inv, Turns, EndsKept, GstEnds, Thread
  <2>2. EndsKept'
    BY <1>11 DEF LoopLeft, At, callVars, Disarm, rpmVars, pdfVars, pipeVars, feedVars, endVars,
       Inv, EndsKept, GstEnds
  <2>3. Flows'
    BY <1>11 DEF LoopLeft, At, callVars, Disarm, rpmVars, pdfVars, pipeVars, feedVars, endVars,
       Inv, Flows, FeedType, InLine, Passing, EndsKept, GstEnds
  <2>4. StillThere'
    BY DEF StillThere
  <2>5. Watched'
    BY <1>11 DEF LoopLeft, At, callVars, Disarm, rpmVars, pdfVars, pipeVars, feedVars, endVars,
       Inv, EndsKept, GstEnds, Watched
  <2> QED
    BY <2>1, <2>2, <2>3, <2>4, <2>5 DEF Inv
<1>12. CASE Stop
  <2>1. Turns'
    BY <1>12 DEF Stop, At, callVars, rpmVars, pdfVars, pipeVars, feedVars, endVars, Inv, Turns,
       EndsKept, GstEnds, Thread
  <2>2. EndsKept'
    BY <1>12 DEF Stop, At, callVars, rpmVars, pdfVars, pipeVars, feedVars, endVars, Inv,
       EndsKept, GstEnds
  <2>3. Flows'
    BY <1>12 DEF Stop, At, callVars, rpmVars, pdfVars, pipeVars, feedVars, endVars, Inv, Flows,
       FeedType, InLine, Passing, EndsKept, GstEnds
  <2>4. StillThere'
    BY DEF StillThere
  <2>5. Watched'
    BY <1>12 DEF Stop, At, callVars, rpmVars, pdfVars, pipeVars, feedVars, endVars, Inv,
       EndsKept, GstEnds, Watched
  <2> QED
    BY <2>1, <2>2, <2>3, <2>4, <2>5 DEF Inv
<1> QED
  BY <1>1, <1>2, <1>3, <1>4, <1>5, <1>6, <1>7, <1>8, <1>9, <1>10, <1>11, <1>12 DEF LoopStep

(* What GStreamer's streaming thread does. *)
LEMMA InvStreamerStep ==
  ASSUME PipeAssumption, Inv, plugin = "gstreamer", StreamerStep,
         UNCHANGED <<plugin, rpmVars, pdfVars, pipeVars>>
  PROVE  Inv'
<1>1. CASE Signal
  <2>1. Turns'
    BY <1>1 DEF Signal, StreamerAt, callVars, rpmVars, pdfVars, pipeVars, feedVars, endVars,
       Inv, Turns, EndsKept, GstEnds, Thread
  <2>2. EndsKept'
    BY <1>1 DEF Signal, StreamerAt, callVars, rpmVars, pdfVars, pipeVars, feedVars, endVars,
       Inv, EndsKept, GstEnds
  <2>3. Flows'
    BY <1>1 DEF Signal, StreamerAt, callVars, rpmVars, pdfVars, pipeVars, feedVars, endVars,
       Inv, Flows, FeedType, InLine, Passing, EndsKept, GstEnds
  <2>4. StillThere'
    BY DEF StillThere
  <2>5. Watched'
    BY <1>1 DEF Signal, StreamerAt, callVars, rpmVars, pdfVars, pipeVars, feedVars, endVars,
       Inv, EndsKept, GstEnds, Watched
  <2> QED
    BY <2>1, <2>2, <2>3, <2>4, <2>5 DEF Inv
<1>2. CASE StreamerArms
  <2>1. Turns'
    BY <1>2 DEF StreamerArms, StreamerAt, callVars, Disarm, Arm, rpmVars, pdfVars, pipeVars,
       feedVars, endVars, Inv, Turns, EndsKept, GstEnds, Thread
  <2>2. EndsKept'
    BY <1>2 DEF StreamerArms, StreamerAt, callVars, Disarm, Arm, rpmVars, pdfVars, pipeVars,
       feedVars, endVars, Inv, EndsKept, GstEnds
  <2>3. Flows'
    BY <1>2 DEF StreamerArms, StreamerAt, callVars, Disarm, Arm, rpmVars, pdfVars, pipeVars,
       feedVars, endVars, Inv, Flows, FeedType, InLine, Passing, EndsKept, GstEnds
  <2>4. StillThere'
    BY DEF StillThere
  <2>5. Watched'
    BY <1>2 DEF StreamerArms, StreamerAt, callVars, Disarm, Arm, rpmVars, pdfVars, pipeVars,
       feedVars, endVars, Inv, EndsKept, GstEnds, Watched
  <2> QED
    BY <2>1, <2>2, <2>3, <2>4, <2>5 DEF Inv
<1>3. CASE EndOfStream
  <2>1. Turns'
    BY <1>3 DEF EndOfStream, StreamerAt, callVars, rpmVars, pdfVars, pipeVars, feedVars,
       endVars, Inv, Turns, EndsKept, GstEnds, Thread
  <2>2. EndsKept'
    BY <1>3 DEF EndOfStream, StreamerAt, callVars, rpmVars, pdfVars, pipeVars, feedVars,
       endVars, Inv, EndsKept, GstEnds
  <2>3. Flows'
    BY <1>3 DEF EndOfStream, StreamerAt, callVars, rpmVars, pdfVars, pipeVars, feedVars,
       endVars, Inv, Flows, FeedType, InLine, Passing, EndsKept, GstEnds
  <2>4. StillThere'
    BY DEF StillThere
  <2>5. Watched'
    BY <1>3 DEF EndOfStream, StreamerAt, callVars, rpmVars, pdfVars, pipeVars, feedVars,
       endVars, Inv, EndsKept, GstEnds, Watched
  <2> QED
    BY <2>1, <2>2, <2>3, <2>4, <2>5 DEF Inv
<1>4. CASE StreamerCalls
  <2>1. Turns'
    BY <1>4 DEF StreamerCalls, StreamerAt, Lock, Call, rpmVars, pdfVars, pipeVars, feedVars,
       endVars, Inv, Turns, EndsKept, GstEnds, Thread, Nobody
  <2>2. EndsKept'
    BY <1>4 DEF StreamerCalls, StreamerAt, Lock, Call, rpmVars, pdfVars, pipeVars, feedVars,
       endVars, Inv, EndsKept, GstEnds
  <2>3. Flows'
    BY <1>4 DEF StreamerCalls, StreamerAt, Lock, Call, rpmVars, pdfVars, pipeVars, feedVars,
       endVars, Inv, Flows, FeedType, InLine, Passing, EndsKept, GstEnds
  <2>4. StillThere'
    BY DEF StillThere
  <2>5. Watched'
    BY <1>4 DEF StreamerCalls, StreamerAt, Lock, Call, rpmVars, pdfVars, pipeVars, feedVars,
       endVars, Inv, EndsKept, GstEnds, Watched
  <2> QED
    BY <2>1, <2>2, <2>3, <2>4, <2>5 DEF Inv
<1>5. CASE StreamerReadsOn
  <2>1. Turns'
    BY <1>5 DEF StreamerReadsOn, gstVars, rpmVars, pdfVars, pipeVars, feedVars, endVars, Inv,
       Turns, EndsKept, GstEnds, Thread
  <2>2. EndsKept'
    BY <1>5 DEF StreamerReadsOn, gstVars, rpmVars, pdfVars, pipeVars, feedVars, endVars, Inv,
       EndsKept, GstEnds
  <2>3. Flows'
    BY <1>5 DEF StreamerReadsOn, gstVars, rpmVars, pdfVars, pipeVars, feedVars, endVars, Inv,
       Flows, FeedType, InLine, Passing, EndsKept, GstEnds
  <2>4. StillThere'
    BY DEF StillThere
  <2>5. Watched'
    BY <1>5 DEF StreamerReadsOn, gstVars, rpmVars, pdfVars, pipeVars, feedVars, endVars, Inv,
       EndsKept, GstEnds, Watched
  <2> QED
    BY <2>1, <2>2, <2>3, <2>4, <2>5 DEF Inv
<1>6. CASE StreamerAnswered
  <2>1. Turns'
    BY <1>6 DEF StreamerAnswered, StreamerAt, Unlock, Answered, Refused, rpmVars, pdfVars,
       pipeVars, Ends, feedVars, endVars, Inv, Turns, EndsKept, GstEnds, Thread, Nobody
  <2>2. EndsKept'
    BY <1>6 DEF StreamerAnswered, StreamerAt, Unlock, Answered, Refused, rpmVars, pdfVars,
       pipeVars, Ends, feedVars, endVars, Inv, EndsKept, GstEnds
  <2>3. Flows'
    BY <1>6 DEF StreamerAnswered, StreamerAt, Unlock, Answered, Refused, rpmVars, pdfVars,
       pipeVars, Ends, feedVars, endVars, Inv, Flows, FeedType, InLine, Passing, EndsKept,
       GstEnds
  <2>4. StillThere'
    BY DEF StillThere
  <2>5. Watched'
    BY <1>6 DEF StreamerAnswered, StreamerAt, Unlock, Answered, Refused, rpmVars, pdfVars,
       pipeVars, Ends, feedVars, endVars, Inv, EndsKept, GstEnds, Watched
  <2> QED
    BY <2>1, <2>2, <2>3, <2>4, <2>5 DEF Inv
<1> QED
  BY <1>1, <1>2, <1>3, <1>4, <1>5, <1>6 DEF StreamerStep

(* The library stops the plugin, or moves the window. *)
LEMMA InvLibrary ==
  ASSUME Inv, Library
  PROVE  Inv'
<1>1. UNCHANGED <<plugin, method, feeder, child, streamer, discovery, sources,
                  listeners, printers>>
  BY DEF Library, rpmVars, pdfVars, gstVars
<1>2. UNCHANGED <<holder, talking, asking, off, buf, pipe, received, readers, writers>>
  BY DEF Library, LibraryStops, WindowMoves, callVars, pipeVars, feedVars, endVars
<1>3. Turns' /\ Watched'
  BY <1>1, <1>2 DEF Inv, Turns, Watched
<1>4. EndsKept'
  BY <1>1, <1>2 DEF Inv, EndsKept, RpmEnds, PdfEnds, GstEnds
<1>5. CASE LibraryStops /\ UNCHANGED <<holder, talking, asking, pipeVars>>
  <2>1. UNCHANGED moved /\ library = "listens" /\ asking # {}
    BY <1>5 DEF LibraryStops, pipeVars, feedVars
  <2>2. Flows'
    BY <1>1, <1>2, <2>1 DEF Inv, Flows, FeedType, Passing, InLine
  <2>3. ASSUME plugin = "rpm", Passing
        PROVE  feeder = "reading" /\ "helper" \in asking
    <3>1. "method" \notin talking
      BY <2>3 DEF Inv, Turns, Passing
    <3>2. "helper" \in asking
      BY <2>1, <3>1 DEF Inv, Turns, Thread
    <3> QED
      BY <2>3, <3>2 DEF Inv, Turns
  <2>4. ASSUME plugin = "pdf"
        PROVE  method \in {"probing", "reading", "reporting"}
    BY <2>1, <2>4 DEF Inv, Turns, Thread
  <2>5. StillThere'
    BY <1>1, <1>2, <2>1, <2>3, <2>4 DEF Inv, StillThere, Passing
  <2> QED
    BY <1>3, <1>4, <2>2, <2>5 DEF Inv
<1>6. CASE /\ \/ plugin = "rpm" /\ WindowMoves(feeder = "reading")
              \/ plugin = "pdf" /\ WindowMoves(method = "reading")
           /\ UNCHANGED callVars
  <2>1. moved' = TRUE /\ UNCHANGED library
    BY <1>6 DEF WindowMoves, callVars
  <2>2. moved' \in BOOLEAN
    BY <2>1, Zenon
  <2>3. Flows'
    BY <1>1, <1>2, <2>2 DEF Inv, Flows, FeedType, Passing, InLine
  <2>4. plugin = "rpm" => feeder = "reading" \/ library # "listens"
    BY <1>6 DEF WindowMoves
  <2>5. plugin = "pdf" => method = "reading" \/ library # "listens"
    BY <1>6 DEF WindowMoves
  <2>6. StillThere'
    BY <1>1, <1>2, <2>1, <2>4, <2>5 DEF Inv, StillThere, Passing
  <2> QED
    BY <1>3, <1>4, <2>3, <2>6 DEF Inv
<1> QED
  BY <1>5, <1>6 DEF Library

LEMMA InvNext ==
  ASSUME PipeAssumption, Inv, [Next]_vars
  PROVE  Inv'
<1>1. CASE Method
  BY <1>1, InvRpmStep, InvPdfStep, InvLoopStep DEF Method, Rpm, Pdf, Gst
<1>2. CASE Helper
  BY <1>2, InvFeederStep, InvChildStep, InvStreamerStep DEF Helper, Rpm, Pdf, Gst, Child
<1>3. CASE Pdf(ChildFails)
  BY <1>3, InvChildStep DEF Pdf, Child
<1>4. CASE Library
  BY <1>4, InvLibrary
<1>5. CASE UNCHANGED vars
  <2>1. UNCHANGED <<plugin, method, holder, talking, asking, library, feeder, child, streamer,
                    discovery, sources, off, buf, moved, pipe, received, readers, writers,
                    listeners, printers>>
    BY <1>5 DEF vars, callVars, pipeVars, feedVars, endVars, rpmVars, pdfVars, gstVars
  <2>2. Turns' /\ StillThere' /\ Watched'
    BY <2>1 DEF Inv, Turns, StillThere, Passing, Watched
  <2>3. EndsKept'
    BY <2>1 DEF Inv, EndsKept, RpmEnds, PdfEnds, GstEnds
  <2>4. Flows'
    BY <2>1 DEF Inv, Flows, FeedType, Passing, InLine
  <2> QED
    BY <2>2, <2>3, <2>4 DEF Inv
<1> QED
  BY <1>1, <1>2, <1>3, <1>4, <1>5 DEF Next

LEMMA InvAlways == Spec => []Inv
<1>1. Inv /\ [Next]_vars => Inv'
  BY InvNext, PipeAssumption
<1> QED
  BY InvInit, <1>1, PTL DEF Spec

-----------------------------------------------------------------------------
(* No two threads ever talk to the library at once, and none when the      *)
(* method has returned: who talks holds the one mutex, or is alone.        *)
THEOREM AlwaysOneAtATime == Spec => []OneAtATime
<1>1. ASSUME Inv PROVE OneAtATime
  <2>1. talking \subseteq {holder} \/ talking \subseteq {"method"}
    BY <1>1 DEF Inv, Turns, Thread
  <2>2. Cardinality(talking) <= 1
    <3>1. /\ Cardinality({}) = 0
          /\ Cardinality({holder}) = 1 /\ Cardinality({"method"}) = 1
      BY FS_EmptySet, FS_Singleton
    <3>2. talking = {} \/ talking = {holder} \/ talking = {"method"}
      BY <2>1
    <3> QED
      BY <3>1, <3>2
  <2>3. method = "returned" => talking = {}
    BY <1>1 DEF Inv, Turns, EndsKept, RpmEnds, GstEnds, Thread
  <2> QED
    BY <2>2, <2>3 DEF OneAtATime
<1> QED
  BY <1>1, InvAlways, PTL

(* When the method has returned, its helper thread or process has ended,   *)
(* or is not at work, the pipe is closed at both ends, the mutex is free.  *)
THEOREM NothingEverLeft == Spec => []NothingLeft
<1>1. ASSUME Inv PROVE NothingLeft
  <2> SUFFICES ASSUME method = "returned" PROVE NothingLeft
    BY DEF NothingLeft
  <2>1. CASE plugin = "rpm"
    BY <1>1, <2>1 DEF Inv, Turns, EndsKept, RpmEnds, NothingLeft, Thread, Nobody
  <2>2. CASE plugin = "pdf"
    <3>1. PdfEnds /\ holder = Nobody
      BY <1>1, <2>2 DEF Inv, Turns, EndsKept
    <3>2. readers = {} /\ writers = {} /\ listeners = {} /\ printers = {}
      BY <3>1 DEF PdfEnds
    <3> QED
      BY <3>1, <3>2 DEF PdfEnds, NothingLeft
  <2>3. CASE plugin = "gstreamer"
    BY <1>1, <2>3 DEF Inv, Turns, EndsKept, GstEnds, NothingLeft, Thread, Nobody
  <2> QED
    BY <1>1, <2>1, <2>2, <2>3 DEF Inv, Turns
<1> QED
  BY <1>1, InvAlways, PTL

(* What librpm or pdfinfo reads is a beginning of the file, though it is   *)
(* written from a window that others may move, and in pieces.              *)
THEOREM AlwaysReceivedInOrder == Spec => []ReceivedInOrder
<1>1. ASSUME Inv PROVE ReceivedInOrder
  <2>1. received = After(0, Len(received))
    BY <1>1 DEF Inv, Flows
  <2>2. \A i \in 1..Len(received) : 0 + i = i
    BY <1>1 DEF Inv, Flows, FeedType
  <2> QED
    BY <2>1, <2>2 DEF ReceivedInOrder, After
<1> QED
  BY <1>1, InvAlways, PTL

(* GStreamer's main loop is never left to wait without a time-out, though  *)
(* two threads remove and set it with no lock between them.                *)
THEOREM AlwaysWatched == Spec => []Watched
<1>1. Inv => Watched
  BY DEF Inv
<1> QED
  BY <1>1, InvAlways, PTL
=============================================================================
