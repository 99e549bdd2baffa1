---- MODULE MCKindTree ----
(* IDs of up to three segments and their prefixes for KindTree. *)
EXTENDS KindTree, Sequences
CONSTANTS k, l

Lists == INSTANCE SequencesExt

MCPaths == {<<"a">>, <<"b">>, <<"a", "x">>, <<"a", "y">>, <<"a", "x", "1">>}
MCAbove == {pq \in MCPaths \X MCPaths : Lists!IsStrictPrefix(pq[1], pq[2])}
====
