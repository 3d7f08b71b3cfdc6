----------------------------- MODULE MCLibrary -----------------------------
(***************************************************************************)
(* Small instances of Library for TLC.                                     *)
(***************************************************************************)
EXTENDS Library

\* Torrent 1 takes the room of two others.
MCSize == [h \in Hashes |-> IF h = 1 THEN 2 ELSE 1]

\* Older than everything: a caller moves a movie to the head of the queue.
MCPast == {-1}

MCSymmetry == Permutations(Api) \cup Permutations(Imdb)
=============================================================================
