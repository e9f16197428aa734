---------------------------- MODULE MCPluginList ----------------------------
(***************************************************************************)
(* An instance of PluginList for TLC.  Lists and segments are not compared *)
(* with anything but themselves, and may be permuted.                      *)
(***************************************************************************)
EXTENDS PluginList

Entry(minus, name, options) == [minus |-> minus, name |-> name, options |-> options]

\* "a" and "b" are installed, "b" cannot be loaded, and "d" is not there.
MCInstalled == {<<"a">>, <<"b">>}
MCLoadable  == {<<"a">>}

Plain(name)   == Entry(FALSE, name, NoOptions)
Minus(name)   == Entry(TRUE, name, NoOptions)
Odd           == <<"x", ":", "-", "b", "(">>

\* Every two of these, and a few longer ones.
Entries == {Plain(<<"a">>), Entry(FALSE, <<"a">>, Odd), Entry(FALSE, <<"b">>, <<>>),
            Minus(<<"b">>), Plain(<<"d">>)}

MCConfigs ==
  UNION {[1..n -> Entries] : n \in 1..2}
    \cup {<<Entry(FALSE, <<"b">>, Odd), Minus(<<"a">>), Plain(<<"a">>)>>,
          <<Plain(<<"a">>), Plain(<<"b">>), Entry(TRUE, <<"a">>, <<"y">>)>>}

Symmetry == Permutations(Lists) \cup Permutations(Segments)
=============================================================================
