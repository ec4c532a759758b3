-------------------------- MODULE MCMediaLifecycle --------------------------
(* Small instances of MediaLifecycle for TLC. *)
EXTENDS MediaLifecycle, TLC

CONSTANTS u1, u2, d1, d2

\* PUT requests differ in nothing but their name; so do DELETEs, unless one
\* of them repeats or comes from a stranger.
SameUploads == Permutations(Uploads)
=============================================================================
