--------------------------- MODULE MCReplyChannel ---------------------------
(***************************************************************************)
(* Instances of ReplyChannel for TLC.                                      *)
(***************************************************************************)
EXTENDS ReplyChannel

(* META messages of 2, 4, 6 (all there is room for), 5 and 8 bytes, the    *)
(* last two with a mime type that is too long and more than there is room  *)
(* for, and one that is never sent.                                        *)
Metas    == {Meta(0, 0), Meta(1, 1), Meta(1, 3), Meta(3, 1), Meta(0, 6), Meta(0, 7)}
Messages == {Done, SeekMsg} \cup Metas

Short    == {Done, SeekMsg, Meta(1, 1)}

MCScripts == UNION {[1..n -> Messages] : n \in 1..2} \cup [1..3 -> Short]
=============================================================================
