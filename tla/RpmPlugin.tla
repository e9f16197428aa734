----------------------------- MODULE RpmPlugin -----------------------------
(***************************************************************************)
(* The plugin for RPM packages (rpm_extractor.c).  librpm wants to read    *)
(* from a file descriptor, so a helper thread copies the file into a pipe. *)
(* The method reports what librpm has found while the helper may still be  *)
(* reading or blocked in the full pipe, and gets rid of it by closing the  *)
(* other end.  librpm is external: it takes bytes from the pipe for as     *)
(* long as it likes, and succeeds or fails.                                *)
(***************************************************************************)
EXTENDS FilePipe

VARIABLES
  feeder,     \* where pipe_feeder is
  shutdown

rpmVars == <<feeder, shutdown>>

RpmInit == feeder = "none" /\ shutdown = FALSE

-----------------------------------------------------------------------------
(* EXTRACTOR_rpm_extract_method *)

RpmCreate ==
  /\ \/ /\ At("start", "librpm") \/ At("start", "end")    \* it may fail at once
        /\ feeder' = "loop" /\ readers' = {"pi0", "fdi"} /\ writers' = {"feeder"}
     \/ /\ At("start", "returned")        \* no pipe, mutex or thread
        /\ UNCHANGED <<feeder, endVars>>
  /\ UNCHANGED <<callVars, feedVars, items, shutdown>>

(* rpmReadPackageFile reads, and goes on, has seen enough, or gives up. *)
LibrpmReads ==
  /\ \E to \in {"librpm", "report", "end"} : At("librpm", to)
  /\ TakesBytes \/ (AtEnd /\ method' # "librpm")
  /\ UNCHANGED <<callVars, rpmVars, endVars, items>>

\* mutant: without the mutex
RpmReportUnlocked ==
  /\ At("report", "reporting")
  /\ items < MaxItems /\ items' = items + 1
  /\ Call("method", TRUE)
  /\ UNCHANGED <<holder, rpmVars, feedVars, endVars>>

(* ec->proc under the mutex: the mime type, then what the header says. *)
RpmReport ==
  /\ At("report", "reporting")
  /\ items < MaxItems /\ items' = items + 1
  /\ Lock("method") /\ Call("method", TRUE)
  /\ UNCHANGED <<rpmVars, feedVars, endVars>>

RpmReported ==
  /\ \/ At("reporting", "report") /\ Answered("method")
     \/ At("reporting", "end") /\ Refused("method")
  /\ Unlock("method")
  /\ UNCHANGED <<rpmVars, pipeVars>>

NoMoreItems ==
  /\ At("report", "end") /\ items > 0
  /\ UNCHANGED <<callVars, rpmVars, pipeVars>>

(* END: tell the feeder, and close both descriptors it might write to. *)
Shutdown ==
  /\ At("end", "close")
  /\ shutdown' = TRUE
  /\ UNCHANGED <<callVars, feeder, pipeVars>>

CloseReader ==
  /\ \/ At("close", "fclose") /\ readers' = readers \ {"pi0"}
     \/ At("fclose", "join") /\ readers' = readers \ {"fdi"}
  /\ UNCHANGED <<callVars, rpmVars, feedVars, writers, items>>

\* mutant: the thread has been told to end, and is left to it
JoinDetached ==
  /\ At("join", "returned")
  /\ UNCHANGED <<callVars, rpmVars, pipeVars>>

(* pthread_join *)
Join ==
  /\ At("join", "returned")
  /\ feeder = "ended"
  /\ UNCHANGED <<callVars, rpmVars, pipeVars>>

RpmStep == \/ RpmCreate \/ LibrpmReads \/ RpmReport \/ RpmReported
           \/ NoMoreItems \/ Shutdown \/ CloseReader \/ Join

-----------------------------------------------------------------------------
(* pipe_feeder *)

FeederAt(from, to) == feeder = from /\ feeder' = to

FeederLoops ==
  /\ \/ ~shutdown /\ FeederAt("loop", "lock")
     \/ shutdown /\ FeederAt("loop", "close")
  /\ UNCHANGED <<method, callVars, shutdown, pipeVars>>

FeederReads ==
  /\ FeederAt("lock", "reading")
  /\ Lock("helper") /\ \E asks \in BOOLEAN : Call("helper", asks)
  /\ UNCHANGED <<method, shutdown, pipeVars>>

FeederHasRead ==
  /\ \/ FeederAt("reading", "copy") /\ Answered("helper") /\ GetsBytes
     \/ /\ FeederAt("reading", "close")
        /\ \/ Answered("helper") /\ off = FileSize
           \/ Refused("helper")
        /\ UNCHANGED feedVars
  /\ Unlock("helper")
  /\ UNCHANGED <<method, shutdown, endVars, items>>

(* The head of the inner loop, and what follows it. *)
FeederCopies ==
  /\ \/ ~shutdown /\ buf # <<>> /\ FeederAt("copy", "write")
     \/ buf = <<>> /\ FeederAt("copy", "loop")
     \/ shutdown /\ buf # <<>> /\ FeederAt("copy", "close")
  /\ UNCHANGED <<method, callVars, shutdown, pipeVars>>

\* mutant: a part written passes for all
FeederWritesOnce ==
  /\ \/ /\ FeederAt("write", "copy") /\ readers # {}
        /\ \E n \in 1..Len(buf) :
             /\ n + Len(pipe) <= PipeSize
             /\ pipe' = pipe \o Bytes(n)
        /\ buf' = <<>>
     \/ FeederAt("write", "close") /\ readers = {} /\ UNCHANGED <<pipe, buf>>
  /\ UNCHANGED <<method, callVars, shutdown, off, moved, received, endVars, items>>

FeederWrites ==
  /\ \/ FeederAt("write", "copy") /\ PutsBytes
     \/ FeederAt("write", "close") /\ readers = {} /\ UNCHANGED feedVars
  /\ UNCHANGED <<method, callVars, shutdown, endVars, items>>

FeederCloses ==
  /\ FeederAt("close", "ended")
  /\ writers' = {}
  /\ UNCHANGED <<method, callVars, shutdown, feedVars, readers, items>>

FeederStep == \/ FeederLoops \/ FeederReads \/ FeederHasRead \/ FeederCopies
              \/ FeederWrites \/ FeederCloses
=============================================================================
