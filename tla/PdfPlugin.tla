----------------------------- MODULE PdfPlugin -----------------------------
(***************************************************************************)
(* The plugin for PDF documents (pdf_extractor.c) runs the program pdfinfo:*)
(* it writes the whole file into the one pipe, and reports what comes out  *)
(* of the other.  Whether either of them sees the end of the pipe it reads *)
(* depends on who still has the other end open.                            *)
(*                                                                         *)
(* pdfinfo is external: it takes its whole input before it prints, as it   *)
(* does, and may exit at any time.                                         *)
(***************************************************************************)
EXTENDS FilePipe

CONSTANT OutSize    \* lines that fit into pdfinfo's output

ASSUME PdfAssumption == OutSize \in Nat \ {0}

VARIABLES
  fsizeKnown, \* the size that the method got is that of the file
  child,      \* the process
  out,        \* lines in its output
  listeners,  \* who has the read end of that pipe open
  printers    \* and who its write end

outEnds == <<listeners, printers>>
pdfVars == <<fsizeKnown, child, out, listeners, printers>>

PdfInit == /\ fsizeKnown \in BOOLEAN /\ child = "none" /\ out = 0
           /\ listeners = {} /\ printers = {}

-----------------------------------------------------------------------------
(* EXTRACTOR_pdf_extract_method *)

(* It looks at the first bytes, and goes back to them. *)
PdfProbes ==
  /\ \/ At("start", "returned") /\ UNCHANGED callVars    \* too small
     \/ At("start", "probing") /\ UNCHANGED holder /\ \E asks \in BOOLEAN : Call("method", asks)
  /\ UNCHANGED <<pdfVars, pipeVars>>

PdfProbed ==
  /\ \/ At("probing", "fork") /\ Answered("method")
     \/ At("probing", "returned") /\ (Answered("method") \/ Refused("method"))
  /\ UNCHANGED <<holder, pdfVars, pipeVars>>

PdfForks ==
  /\ \/ At("fork", "returned") /\ UNCHANGED <<child, endVars, outEnds>>
     \/ /\ At("fork", "forked") /\ child' = "forked"
        /\ readers' = {"parent", "child"} /\ writers' = {"parent", "child"}
        /\ listeners' = {"parent", "child"} /\ printers' = {"parent", "child"}
  /\ UNCHANGED <<callVars, fsizeKnown, out, feedVars, items>>

(* mutant: the parent keeps the end open that the output is written to *)
ParentKeepsOutput ==
  /\ readers' = readers \ {"parent"}
  /\ \/ At("forked", "read") /\ UNCHANGED <<writers, outEnds>>
     \/ /\ At("forked", "kill") /\ writers' = writers \ {"parent"}
        /\ listeners' = listeners \ {"parent"} /\ UNCHANGED printers
  /\ UNCHANGED <<callVars, fsizeKnown, child, out, feedVars, items>>

(* The parent keeps one end of each pipe; none, if fdopen fails. *)
ParentCloses ==
  /\ readers' = readers \ {"parent"} /\ printers' = printers \ {"parent"}
  /\ \/ At("forked", "read") /\ UNCHANGED <<writers, listeners>>
     \/ /\ At("forked", "kill") /\ writers' = writers \ {"parent"}
        /\ listeners' = listeners \ {"parent"}
  /\ UNCHANGED <<callVars, fsizeKnown, child, out, feedVars, items>>

PdfReads ==
  /\ At("read", "reading") /\ (off < FileSize \/ ~fsizeKnown)
  /\ \E asks \in BOOLEAN : Call("method", asks)
  /\ UNCHANGED <<holder, pdfVars, pipeVars>>

(* Without a size to reach, nothing read is no reason to stop. *)
PdfHasRead ==
  /\ \/ At("reading", "write") /\ Answered("method") /\ GetsBytes
     \/ At("reading", "read") /\ Answered("method") /\ off = FileSize /\ UNCHANGED feedVars
     \/ At("reading", "close") /\ Refused("method") /\ UNCHANGED feedVars
  /\ UNCHANGED <<holder, pdfVars, endVars, items>>

PdfWrites ==
  /\ \/ At("write", "write") /\ PutsBytes
     \/ At("write", "read") /\ buf = <<>> /\ UNCHANGED feedVars
     \/ At("write", "close") /\ readers = {} /\ UNCHANGED feedVars
  /\ UNCHANGED <<callVars, pdfVars, endVars, items>>

PdfAllRead ==
  /\ At("read", "close") /\ fsizeKnown /\ off = FileSize
  /\ UNCHANGED <<callVars, pdfVars, pipeVars>>

PdfCloses ==
  /\ At("close", "print")
  /\ writers' = writers \ {"parent"}
  /\ UNCHANGED <<callVars, pdfVars, feedVars, readers, items>>

(* process_stdout: a line is reported, is of no interest, or the last. *)
PdfLine ==
  /\ out > 0 /\ out' = out - 1
  /\ items < MaxItems /\ items' = items + 1
  /\ \/ At("print", "reporting") /\ Call("method", TRUE)
     \/ (At("print", "print") \/ At("print", "fclose")) /\ UNCHANGED <<talking, asking, library>>
  /\ UNCHANGED <<holder, fsizeKnown, child, outEnds, feedVars, endVars>>

PdfReported ==
  /\ \/ At("reporting", "print") /\ Answered("method")
     \/ At("reporting", "fclose") /\ Refused("method")
  /\ UNCHANGED <<holder, pdfVars, pipeVars>>

PdfNoMoreLines ==
  /\ At("print", "fclose") /\ out = 0 /\ printers = {}
  /\ UNCHANGED <<callVars, pdfVars, pipeVars>>

PdfFcloses ==
  /\ At("fclose", "kill")
  /\ listeners' = listeners \ {"parent"}
  /\ UNCHANGED <<callVars, fsizeKnown, child, out, printers, pipeVars>>

ChildEnds ==
  /\ child' = "exited"
  /\ readers' = readers \ {"child"} /\ writers' = writers \ {"child"}
  /\ listeners' = listeners \ {"child"} /\ printers' = printers \ {"child"}
  /\ UNCHANGED <<callVars, fsizeKnown, out, feedVars, items>>

(* kill and waitpid *)
PdfKills == At("kill", "reap") /\ ChildEnds

PdfReaps ==
  /\ At("reap", "returned") /\ child = "exited"
  /\ child' = "reaped"
  /\ UNCHANGED <<callVars, fsizeKnown, out, outEnds, pipeVars>>

PdfStep == \/ PdfProbes \/ PdfProbed \/ PdfForks \/ ParentCloses \/ PdfReads \/ PdfHasRead
           \/ PdfWrites \/ PdfAllRead \/ PdfCloses \/ PdfLine \/ PdfReported
           \/ PdfNoMoreLines \/ PdfFcloses \/ PdfKills \/ PdfReaps

-----------------------------------------------------------------------------
(* The other process *)

(* It keeps its standard input and output, and runs pdfinfo. *)
Execs ==
  /\ child = "forked" /\ child' = "reads"
  /\ writers' = writers \ {"child"} /\ listeners' = listeners \ {"child"}
  /\ UNCHANGED <<method, callVars, fsizeKnown, out, printers, feedVars, readers, items>>

PdfinfoReads ==
  /\ child = "reads"
  /\ \/ TakesBytes /\ UNCHANGED child
     \/ AtEnd /\ child' = "prints"
  /\ UNCHANGED <<method, callVars, fsizeKnown, out, outEnds, endVars, items>>

PdfinfoPrints ==
  /\ child = "prints" /\ listeners # {}
  /\ out < OutSize /\ items + out < MaxItems
  /\ out' = out + 1
  /\ UNCHANGED <<method, callVars, fsizeKnown, child, outEnds, pipeVars>>

(* It has printed all, or there is nobody to print for (SIGPIPE). *)
PdfinfoExits == child = "prints" /\ ChildEnds /\ UNCHANGED method

ChildStep == Execs \/ PdfinfoReads \/ PdfinfoPrints \/ PdfinfoExits

(* It cannot run pdfinfo, or that gives up early. *)
ChildFails == child \in {"forked", "reads"} /\ ChildEnds /\ UNCHANGED method
=============================================================================
