--------------------------- MODULE PluginThreads ---------------------------
(***************************************************************************)
(* A plugin process whose extract method does not work alone: the plugin   *)
(* for RPM packages, that for PDF documents, or that for GStreamer.        *)
(* PluginMain models an extract method as one sequential program behind    *)
(* its pipes; here those that are not are shown to behave like one.        *)
(***************************************************************************)
EXTENDS RpmPlugin, PdfPlugin, GstPlugin

VARIABLE plugin

vars == <<plugin, method, callVars, pipeVars, rpmVars, pdfVars, gstVars>>

Init == /\ plugin \in {"rpm", "pdf", "gstreamer"}
        /\ CallsInit /\ PipeInit /\ RpmInit /\ PdfInit /\ GstInit

Rpm(step) == plugin = "rpm" /\ step /\ UNCHANGED <<plugin, pdfVars, gstVars>>
Pdf(step) == plugin = "pdf" /\ step /\ UNCHANGED <<plugin, rpmVars, gstVars>>
Gst(step) == plugin = "gstreamer" /\ step /\ UNCHANGED <<plugin, rpmVars, pdfVars, pipeVars>>

Method == Rpm(RpmStep) \/ Pdf(PdfStep) \/ Gst(LoopStep)

Helper == Rpm(FeederStep) \/ Pdf(ChildStep) \/ Gst(StreamerStep)

Library ==
  /\ \/ LibraryStops /\ UNCHANGED <<holder, talking, asking, pipeVars>>
     \/ /\ \/ plugin = "rpm" /\ WindowMoves(feeder = "reading")
           \/ plugin = "pdf" /\ WindowMoves(method = "reading")
        /\ UNCHANGED callVars
  /\ UNCHANGED <<plugin, method, rpmVars, pdfVars, gstVars>>

Next == Method \/ Helper \/ Pdf(ChildFails) \/ Library

(* Both threads, or processes, are scheduled, and the library answers whom *)
(* it listens to.  Nothing says that a process will fail.                  *)
Spec == /\ Init /\ [][Next]_vars
        /\ WF_vars(Method /\ Attended("method"))
        /\ WF_vars(Helper /\ Attended("helper"))

-----------------------------------------------------------------------------
(* Two threads never talk over the process's pipes at once: they would     *)
(* take each other's answers.  And none does when the extract method has   *)
(* returned, when the process sends DONE and waits for the next file.      *)
OneAtATime ==
  /\ Cardinality(talking) <= 1
  /\ method = "returned" => talking = {}

(* No thread, process, descriptor or locked mutex is left for the next     *)
(* file, however far the file was read and whatever anyone waited for.     *)
NothingLeft ==
  method = "returned" =>
    /\ feeder \in {"none", "ended"} /\ child \in {"none", "reaped"}
    /\ readers = {} /\ writers = {} /\ listeners = {} /\ printers = {}
    /\ holder = Nobody

(* librpm and pdfinfo get the file from its beginning, without a gap and   *)
(* without a byte of another window, although it is copied out of the      *)
(* window after the mutex was given back, and in pieces.                   *)
ReceivedInOrder == received = [i \in 1..Len(received) |-> i]

(* While GStreamer is at work there is a time-out to end the main loop, or *)
(* the one thread or the other is about to set one, whoever of them has    *)
(* removed the last.                                                       *)
Watched ==
  plugin = "gstreamer" /\ method = "loop" /\ discovery # "none" =>
    sources # {} \/ streamer \in {"feed arm", "done arm"}

(* The method returns, or one of its threads asks a library that does not  *)
(* count on the plugin any more; then it returns with the next file.  This *)
(* does not hold of PDF documents whose size is not known.                 *)
MethodReturns ==
  method # "returned" /\ (plugin = "pdf" => fsizeKnown)
    ~> (method = "returned" \/ (library = "gone" /\ asking # {}))
=============================================================================
