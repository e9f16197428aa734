---------------------------- MODULE MCPluginEnv ----------------------------
(***************************************************************************)
(* Instances of PluginEnv for TLC, with 4 bits in place of 64.             *)
(***************************************************************************)
EXTENDS PluginEnv

(* Counts up to SIZE_MAX, and the largest and smallest offsets. *)
MCCalls == {ReadCall(n) : n \in {0, 1, 3, 15}}
             \cup {SeekCall(off, whence) : off    \in {-3, -1, 0, 1, 3, 7},
                                           whence \in {"set", "cur", "end"}}
             \cup {SizeCall(FALSE)}
=============================================================================
