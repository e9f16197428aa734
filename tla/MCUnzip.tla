------------------------------ MODULE MCUnzip ------------------------------
(***************************************************************************)
(* Instances of Unzip for TLC: an archive behind one other byte, with a    *)
(* stored and a compressed entry, and the ways it may be damaged.          *)
(***************************************************************************)
EXTENDS Unzip

Stored ==
  [name |-> "a", record |-> 11, known |-> TRUE, var |-> 1, header |-> 0, lvar |-> 1,
   coherent |-> TRUE, method |-> "stored", plain |-> <<0, 1, 2, 3>>,
   csize |-> 3, usize |-> 3, bad |-> 0, crcOk |-> TRUE]

Deflated ==
  [Stored EXCEPT !.name = "b", !.record = 14, !.header = 5, !.method = "deflated",
                 !.plain = <<0, 2, 2, 3>>]

Sound ==
  [before |-> 1, size |-> 20, signatures |-> {3, 16, 18}, end |-> 18, offset |-> 11,
   directory |-> 6, declared |-> 2, entries |-> <<Stored, Deflated>>]

With(stored, deflated) == [Sound EXCEPT !.entries = <<stored, deflated>>]

MCArchives ==
  {Sound,
   [Sound EXCEPT !.signatures = {18, 20}, !.size = 23],     \* one in the comment
   [Sound EXCEPT !.size = 23], [Sound EXCEPT !.size = 25],  \* in a later block
   [Sound EXCEPT !.size = 28],                              \* too far from the end
   [Sound EXCEPT !.declared = 3], [Sound EXCEPT !.declared = 0],
   With(Stored, [Deflated EXCEPT !.name = "a"]),
   With(Stored, [Deflated EXCEPT !.known = FALSE]),
   With([Stored EXCEPT !.usize = 4], [Deflated EXCEPT !.usize = 4]),
   With([Stored EXCEPT !.usize = 2], [Deflated EXCEPT !.usize = 2]),
   With([Stored EXCEPT !.csize = 2], [Deflated EXCEPT !.csize = 2]),
   With([Stored EXCEPT !.coherent = FALSE], [Deflated EXCEPT !.bad = 3]),
   With([Stored EXCEPT !.crcOk = FALSE], [Deflated EXCEPT !.crcOk = FALSE]),
   With(Stored, [Deflated EXCEPT !.header = 14, !.csize = 4]),
   With(Stored, [Deflated EXCEPT !.lvar = 30])}             \* data behind the file

MCCalls == {ReadCall(count) : count \in {0, 2, 4}}
=============================================================================
