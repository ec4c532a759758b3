------------------------------ MODULE Envelope ------------------------------
(***************************************************************************)
(* The encrypted object and the wrapped key, as crates/envelope writes and *)
(* reads them.  The cipher is ideal: a ciphertext opens to what was sealed *)
(* under the same key, nonce and associated data, whole, or not at all.    *)
(* An object is a sequence of bytes, of which the first stands for the     *)
(* header and each other one says of which ciphertext it is which byte.    *)
(***************************************************************************)
EXTENDS Layout, Sequences, SequencesExt

CONSTANT ChunkSize    \* CHUNK_SIZE

ASSUME EnvelopeAssumption == HeaderLen = 1 /\ ChunkSize \in Nat \ {0}

Ok(v)  == [ok |-> TRUE, value |-> v]
Err(e) == [ok |-> FALSE, code |-> e]

-----------------------------------------------------------------------------
(***************************************************************************)
(* Ciphertexts.                                                            *)
(***************************************************************************)
AeadEncrypt(key, nonce, aad, plain) ==
    LET sealed == [key |-> key, nonce |-> nonce, aad |-> aad, plain |-> plain]
    IN  [k \in 1..(Len(plain) + TagLen) |-> [of |-> sealed, at |-> k]]

AeadDecrypt(key, nonce, aad, cipher) ==
    IF /\ cipher # <<>> /\ "of" \in DOMAIN cipher[1]
       /\ cipher = AeadEncrypt(key, nonce, aad, cipher[1].of.plain)
    THEN Ok(cipher[1].of.plain) ELSE Err("AuthenticationFailed")

\* A key of its own for every use and id.
Derive(album, use, id) == <<use, id, album>>

(***************************************************************************)
(* Objects.                                                                *)
(***************************************************************************)
\* `magic` stands for all that a reader compares with a constant.
Header(id, nonce, size, length) ==
    [magic |-> TRUE, nonce |-> nonce, size |-> size, length |-> length, id |-> id]

Parse(object) ==
    IF Len(object) < HeaderLen \/ "magic" \notin DOMAIN object[1] THEN Err("Header")
    ELSE LET h == object[1] IN
         IF ~h.magic \/ h.size = 0 \/ h.length = 0 THEN Err("Header") ELSE Ok(h)

Nonce(h, i) == <<h.nonce, i>>

Aad_Mutant(h, i) == <<[h EXCEPT !.length = 0], i>>

Aad(h, i) == <<h, i>>

\* The whole header and the chunk's index are in every chunk's associated data.
EncryptChunk(key, h, i, plain) == AeadEncrypt(key, Nonce(h, i), Aad(h, i), plain)

DecryptChunk(key, h, i, cipher) == AeadDecrypt(key, Nonce(h, i), Aad(h, i), cipher)

EncryptObject(key, id, nonce, plain) ==
    LET h == Header(id, nonce, ChunkSize, Len(plain))
        Part(i) == SubSeq(plain, i * h.size + 1,
                          IF (i + 1) * h.size < Len(plain) THEN (i + 1) * h.size ELSE Len(plain))
    IN  <<h>> \o FlattenSeq([i \in 1..ChunkCount(h) |-> EncryptChunk(key, h, i - 1, Part(i - 1))])

\* The length the header claims is the object's, before anything is read by it.
Decrypt(key, object) ==
    LET p == Parse(object) IN
    IF ~p.ok THEN p
    ELSE LET h == p.value
             Chunk(i) == DecryptChunk(key, h, i,
                                      SubSeq(object, ChunkStart(h, i) + 1, ChunkEnd(h, i)))
         IN  CASE SizeOverflows(h) -> Err("Layout")
               [] ~SizeOverflows(h) /\ Len(object) < TotalObjectSize(h) -> Err("ObjectTooShort")
               [] ~SizeOverflows(h) /\ Len(object) > TotalObjectSize(h) -> Err("TrailingBytes")
               [] ~SizeOverflows(h) /\ Len(object) = TotalObjectSize(h) ->
                    IF \E i \in 1..ChunkCount(h) : ~Chunk(i - 1).ok
                    THEN Err("AuthenticationFailed")
                    ELSE Ok(FlattenSeq([i \in 1..ChunkCount(h) |-> Chunk(i - 1).value]))

(***************************************************************************)
(* Wrapped keys: one ciphertext each, whose associated data is a label of  *)
(* the construction and the id the key is for.                             *)
(***************************************************************************)
Wrap(label, id, kek, nonce, key) ==
    [aad |-> <<label, id>>, key |-> kek, nonce |-> nonce, plain |-> key]

Unwrap(label, id, kek, wrap) ==
    IF wrap.aad = <<label, id>> /\ wrap.key = kek THEN Ok(wrap.plain)
    ELSE Err("AuthenticationFailed")
=============================================================================
