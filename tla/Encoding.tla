------------------------------ MODULE Encoding ------------------------------
(***************************************************************************)
(* The base64url boundary as lengths and spellings: what a schema admits   *)
(* (characters) and what the strict decoder admits (bytes).                *)
(***************************************************************************)
EXTENDS Naturals

\* A canonical text, one with spare bits set in its last character, one that
\* leaves the alphabet or is padded.
Spelling == {"canonical", "spare", "foreign"}

Text == [chars : Nat, spelling : Spelling]

(* encodedLength: the ceiling of 4/3, unpadded. *)
EncodedLength(bytes) == (4 * bytes + 2) \div 3

(* decodeRaw: whole bytes of the characters; a last lone one is dropped. *)
DecodedLength(chars) == (3 * chars) \div 4

\* No number of bytes is spelt in 4k + 1 characters.
Whole(chars) == chars % 4 # 1

(* The schema's side: the pattern, and the bounds in characters. *)
Admits(text, least, most) ==
    text.spelling # "foreign" /\ text.chars > 0 /\ text.chars >= least /\ text.chars <= most

(* The decoder's: the alphabet, the bounds in bytes, then the re-encoding. *)
Decodes(text, least, most) ==
    /\ text.spelling # "foreign" /\ text.chars > 0
    /\ DecodedLength(text.chars) >= least /\ DecodedLength(text.chars) <= most
    /\ text.spelling = "canonical" /\ Whole(text.chars)

(* encodeBase64url *)
Encoded(bytes) == [chars |-> EncodedLength(bytes), spelling |-> "canonical"]
=============================================================================
