------------------------------- MODULE MCReplTx -------------------------------
(* Instances of ReplTx for TLC. *)
EXTENDS ReplTx

\* Short ones in which '\n' has its '\r' or not, and two the first wait cuts.
SomeStrings == {<<>>, <<LF>>, <<CR, LF>>, <<"a", LF>>, <<"a", "b", "a", "b", "a">>,
                <<"b", "a", "b", "a", "b", "b", "b">>}

=============================================================================
