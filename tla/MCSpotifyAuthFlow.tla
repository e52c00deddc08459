--------------------------- MODULE MCSpotifyAuthFlow ---------------------------
(* Small instances of SpotifyAuthFlow for TLC. *)
EXTENDS SpotifyAuthFlow, TLC

Clients == Permutations(Client)
=============================================================================
