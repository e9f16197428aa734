----------------------------- MODULE GstPlugin -----------------------------
(***************************************************************************)
(* The plugin that lets GStreamer discover what is in a media file         *)
(* (gstreamer_extractor.c).  The method runs a main loop, which dispatches *)
(* what GstDiscoverer has found and a time-out; GStreamer's streaming      *)
(* thread, the helper, calls back for data and to seek.  Whatever happens  *)
(* arms the time-out anew.                                                 *)
(*                                                                         *)
(* GStreamer is external: it asks for data and seeks as it likes, emits    *)
(* "discovered" once, "finished" when its streaming thread is gone, and    *)
(* gst_discoverer_stop waits for that.  The main loop dispatches a timeout *)
(* source once.                                                            *)
(***************************************************************************)
EXTENDS Callbacks

CONSTANTS MaxFeeds,     \* bound: need-data and seek-data signals
          MaxSent       \* bound: items reported

ASSUME GstAssumption == {MaxFeeds, MaxSent} \subseteq Nat

VARIABLES
  streamer,        \* where the streaming thread is
  feeds,           \* how often it has called
  discovery,       \* what GstDiscoverer has emitted
  timeout_id,      \* 0: none
  sources,         \* the timeout sources that are attached to the main loop
  lastId,          \* the last of them
  time_to_leave,
  sent             \* how often the method has reported

gstVars == <<streamer, feeds, discovery, timeout_id, sources, lastId, time_to_leave, sent>>

GstInit ==
  /\ streamer = "idle" /\ feeds = 0 /\ discovery = "none"
  /\ timeout_id = 0 /\ sources = {} /\ lastId = 0
  /\ time_to_leave = FALSE /\ sent = 0

(* if (ps->timeout_id > 0) g_source_remove (ps->timeout_id), and           *)
(* ps->timeout_id = g_timeout_add (...).  Another thread may come between. *)
Disarm ==
  /\ sources' = sources \ {timeout_id}
  /\ UNCHANGED <<timeout_id, lastId>>

Arm ==
  /\ lastId' = lastId + 1
  /\ timeout_id' = lastId' /\ sources' = sources \cup {lastId'}

-----------------------------------------------------------------------------
(* The main loop *)

GstStart ==
  /\ \/ At("start", "loop")
     \/ At("start", "returned")       \* no discoverer
  /\ UNCHANGED <<callVars, gstVars>>

(* _run_async, and _source_setup within it *)
RunAsync ==
  /\ method = "loop" /\ discovery = "none"
  /\ discovery' = "running"
  /\ Arm
  /\ UNCHANGED <<method, callVars, streamer, feeds, time_to_leave, sent>>

(* _data_timeout *)
TimeoutFires ==
  /\ At("loop", "quit")
  /\ \E id \in sources : sources' = sources \ {id}
  /\ timeout_id' = 0
  /\ UNCHANGED <<callVars, streamer, feeds, discovery, lastId, time_to_leave, sent>>

(* _new_discovered_uri.  There may be no info to send. *)
Discovered ==
  /\ At("loop", "lock") \/ At("loop", "disarm")
  /\ discovery = "running" /\ discovery' = "discovered"
  /\ UNCHANGED <<callVars, streamer, feeds, timeout_id, sources, lastId, time_to_leave, sent>>

SendBegins ==
  /\ At("lock", "send") /\ Lock("method")
  /\ UNCHANGED <<talking, asking, library, gstVars>>

(* send_info, down to send_tag_foreach: one item after the other.  Within  *)
(* the values of a tag ("value") nothing looks at time_to_leave, and a     *)
(* value may be left out.                                                  *)
SendItem ==
  /\ \/ At("send", "sending") /\ ~time_to_leave
     \/ At("value", "sending")
  /\ sent < MaxSent /\ sent' = sent + 1
  /\ Call("method", TRUE)
  /\ UNCHANGED <<holder, streamer, feeds, discovery, timeout_id, sources, lastId, time_to_leave>>

ItemSent ==
  /\ At("sending", "send") \/ At("sending", "value")
  /\ \/ Answered("method") /\ time_to_leave' = FALSE
     \/ Refused("method") /\ time_to_leave' = TRUE
  /\ UNCHANGED <<holder, streamer, feeds, discovery, timeout_id, sources, lastId, sent>>

(* All of it has been sent, or it is time to leave. *)
AllSent ==
  /\ At("send", "disarm") \/ At("value", "disarm")
  /\ Unlock("method")
  /\ UNCHANGED <<talking, asking, library, gstVars>>

Rearm ==
  /\ \/ At("disarm", "arm") /\ Disarm
     \/ At("arm", "loop") /\ Arm
  /\ UNCHANGED <<callVars, streamer, feeds, discovery, time_to_leave, sent>>

(* _discoverer_finished: the streaming thread is gone. *)
Finished ==
  /\ At("loop", "quit") /\ discovery = "discovered" /\ streamer = "idle"
  /\ discovery' = "finished"
  /\ sources' = sources \ {timeout_id} /\ timeout_id' = 0
  /\ UNCHANGED <<callVars, streamer, feeds, lastId, time_to_leave, sent>>

(* After g_main_loop_run: remove the time-out, and stop the discoverer. *)
LoopLeft ==
  /\ At("quit", "stop") /\ Disarm
  /\ UNCHANGED <<callVars, streamer, feeds, discovery, time_to_leave, sent>>

Stop ==
  /\ At("stop", "returned") /\ streamer = "idle"
  /\ discovery' = "finished"
  /\ UNCHANGED <<callVars, streamer, feeds, timeout_id, sources, lastId, time_to_leave, sent>>

LoopStep == \/ GstStart \/ RunAsync \/ TimeoutFires \/ Discovered
            \/ SendBegins \/ SendItem \/ ItemSent
            \/ AllSent \/ Rearm \/ Finished \/ LoopLeft \/ Stop

-----------------------------------------------------------------------------
(* The streaming thread *)

StreamerAt(from, to) == streamer = from /\ streamer' = to

(* "need-data" and "seek-data" *)
Signal ==
  /\ StreamerAt("idle", "feed") \/ StreamerAt("idle", "seek")
  /\ discovery \in {"running", "discovered"} /\ method # "returned"
  /\ feeds < MaxFeeds /\ feeds' = feeds + 1
  /\ UNCHANGED <<method, callVars, discovery, timeout_id, sources, lastId, time_to_leave, sent>>

\* mutant: no new time-out after the data has been delivered
StreamerDisarms ==
  /\ \/ StreamerAt("feed", "feed arm") /\ Disarm
     \/ StreamerAt("feed arm", "feeding") /\ Arm
     \/ StreamerAt("done", "idle") /\ Disarm
  /\ UNCHANGED <<method, callVars, feeds, discovery, time_to_leave, sent>>

(* feed_data arms the time-out before it reads, and both do afterwards. *)
StreamerArms ==
  /\ \/ (StreamerAt("feed", "feed arm") \/ StreamerAt("done", "done arm")) /\ Disarm
     \/ (StreamerAt("feed arm", "feeding") \/ StreamerAt("done arm", "idle")) /\ Arm
  /\ UNCHANGED <<method, callVars, feeds, discovery, time_to_leave, sent>>

(* At the end of the file, or out of memory: only the end is signalled. *)
EndOfStream ==
  /\ StreamerAt("feeding", "idle")
  /\ UNCHANGED <<method, callVars, feeds, discovery, timeout_id, sources, lastId,
                 time_to_leave, sent>>

StreamerCalls ==
  /\ StreamerAt("feeding", "reading") \/ StreamerAt("seek", "seeking")
  /\ Lock("helper") /\ \E asks \in BOOLEAN : Call("helper", asks)
  /\ UNCHANGED <<method, feeds, discovery, timeout_id, sources, lastId, time_to_leave, sent>>

(* Less than it wanted, and it reads on. *)
StreamerReadsOn ==
  /\ streamer = "reading" /\ "helper" \notin asking
  /\ asking' = asking \cup {"helper"}
  /\ UNCHANGED <<method, holder, talking, library, gstVars>>

StreamerAnswered ==
  /\ StreamerAt("reading", "done") \/ StreamerAt("seeking", "done")
  /\ Answered("helper") \/ Refused("helper")
  /\ Unlock("helper")
  /\ UNCHANGED <<method, feeds, discovery, timeout_id, sources, lastId, time_to_leave, sent>>

StreamerStep == \/ Signal \/ StreamerArms \/ EndOfStream \/ StreamerCalls
                \/ StreamerReadsOn \/ StreamerAnswered
=============================================================================
