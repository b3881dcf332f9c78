----------------------------- MODULE MCPostsApi -----------------------------
(***************************************************************************)
(* PostsApi with a handful of requests.  A stream longer than ReadLimit is *)
(* within reach, so that the properties' conditions on it are exercised.   *)
(***************************************************************************)
EXTENDS PostsApi

RequestSymmetry == Permutations(Requests \ Posts) \cup Permutations(Actors)

=============================================================================
