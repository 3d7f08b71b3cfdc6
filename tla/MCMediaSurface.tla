--------------------------- MODULE MCMediaSurface ---------------------------
(***************************************************************************)
(* A library of two movies, one of which can have two torrents, and pages  *)
(* of one entry; or of that movie alone, with two requests for its limits. *)
(***************************************************************************)
EXTENDS MediaSurface

MCHashes == {<<1, 1>>, <<1, 2>>, <<2, 1>>}
OneMovie == {<<1, 1>>, <<1, 2>>}
ClientSymmetry == Permutations(Clients)

\* Requests for limits look at one movie and its torrents' age, never at a title; a
\* player looks at the movies' titles, and takes their torrents in the table's order.
Apart ==
    /\ who = "api" => DOMAIN movies \subseteq {1} /\ \A m \in DOMAIN movies : movies[m] = 1
    /\ who = "player" => \A i \in DOMAIN rows : rows[i].added_at = 1

\* Nothing is said of a walk under which an entry went or moved (shrunk): until the
\* player leaves it matters only where it stands.
Watched == <<table, api, who, IF player.shrunk THEN player.at ELSE player>>
=============================================================================
