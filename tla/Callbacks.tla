----------------------------- MODULE Callbacks -----------------------------
(***************************************************************************)
(* The callbacks that extractor_plugin_main.c gives an extract method, as  *)
(* seen by the threads of a method that has two, its own and a helper.  A  *)
(* call is a conversation over the one pair of pipes the process has; it   *)
(* is not a single step, since the library takes its time to answer.       *)
(***************************************************************************)
EXTENDS Naturals, FiniteSets

Thread == {"method", "helper"}
Nobody == "nobody"

VARIABLES
  method,    \* where the extract method itself is
  holder,    \* the thread that holds the mutex, or Nobody
  talking,   \* the threads that are in a callback
  asking,    \* those of them that wait for an answer of the library
  library    \* "listens" to the plugin, "stops" it (DISCARD_STATE is on its
             \* way), or counts on it no more: "gone"

callVars == <<holder, talking, asking, library>>

CallsInit ==
  /\ method = "start"
  /\ holder = Nobody /\ talking = {} /\ asking = {} /\ library = "listens"

At(from, to) == method = from /\ method' = to

(* pthread_mutex_lock, pthread_mutex_unlock *)
Lock(t)   == holder = Nobody /\ holder' = t
Unlock(t) == holder = t /\ holder' = Nobody

(* plugin_env_read within the window needs no answer, plugin_env_send_proc *)
(* and all that leads out of the window does.                              *)
Call(t, asks) ==
  /\ talking' = talking \cup {t}
  /\ asking'  = IF asks THEN asking \cup {t} ELSE asking
  /\ UNCHANGED library

Ends(t) == t \in talking /\ talking' = talking \ {t} /\ asking' = asking \ {t}

Answered(t) == (t \in asking => library = "listens") /\ Ends(t) /\ UNCHANGED library

(* The request was answered by DISCARD_STATE, or by what the library sends *)
(* for the next file, which comes next if it has stopped the plugin before.*)
Refused(t) == t \in asking /\ library # "listens" /\ Ends(t) /\ library' = "gone"

(* Whoever asks it now waits until the application goes on.                *)
Attended(t) == t \in asking => library # "gone"

(* After an abort, a time-out, an error, or when its process has ended. *)
LibraryStops == asking # {} /\ library = "listens" /\ library' = "stops"
=============================================================================
