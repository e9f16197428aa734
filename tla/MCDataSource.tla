---------------------------- MODULE MCDataSource ----------------------------
(***************************************************************************)
(* Instances of DataSource for TLC.                                        *)
(***************************************************************************)
EXTENDS DataSource

File(method, flags, plain, size, bad) ==
  [method |-> method, flags |-> flags, terminated |-> {"name", "comment"},
   plain |-> plain, size |-> size, bad |-> bad]

(* One header byte, bytes that make 1, 3 and 1 bytes, and a trailer. *)
Plain5 == <<0, 0, 1, 4, 5, 5>>
(* The last chunk is full when the trailer comes. *)
Plain4 == <<0, 0, 1, 4, 4>>

(* One byte makes seven: several chunks of output for one of input. *)
Plain9 == <<0, 0, 7, 8, 9, 9>>

MCFiles ==
  {File("none", {}, <<0>>, size, 0) : size \in {1, 4}}
    \cup {File("zlib", {}, plain, 5, 0) : plain \in {Plain5, Plain4, Plain9}}
    \cup {File("zlib", {"FNAME", "FCOMMENT"}, <<0, 0>> \o Plain4, 6, 0)}
    \cup {File("bz2", {}, Plain5, size, bad) : <<size, bad>> \in {<<5, 0>>, <<5, 3>>, <<3, 0>>}}

TrailingBytes == {File("bz2", {}, <<0, 0, 2, 4, 4>>, 5, 0)}
ExtraField    == {File("zlib", {"FEXTRA"}, <<0>> \o Plain4, 5, 0)}

MCCalls ==
  {ReadCall(count) : count \in {1, 3}}
    \cup {SeekCall(off, "set") : off \in {0, 3}}
    \cup {SeekCall(off, "cur") : off \in {-2, 1}}
    \cup {SeekCall(off, "end") : off \in {-1, 1}}
    \cup {SizeCall(force) : force \in BOOLEAN}
=============================================================================
