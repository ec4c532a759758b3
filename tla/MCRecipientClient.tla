------------------------- MODULE MCRecipientClient -------------------------
(* A small instance of RecipientClient for TLC. *)
EXTENDS RecipientClient, TLC

CONSTANTS p1, p2, p3

\* Photos differ in nothing but their name.
SamePhotos == Permutations(Photos)
=============================================================================
