-------------------------------- MODULE Keys --------------------------------
(***************************************************************************)
(* The functions of $lib/keys that make, wrap and open keys, over the      *)
(* guarded WASM module, and the objects encrypted under the album keys     *)
(* they hand out.                                                          *)
(*                                                                         *)
(* A function is a record: the calls its `try` makes, in order and each    *)
(* with the variable it assigns, the variables its `catch` and its         *)
(* `finally` free, the ones it hands to its caller, and what it tells the  *)
(* caller of each error.  A secret is a member of Words, a key a tuple:    *)
(* what it is for and the call that minted it.                             *)
(***************************************************************************)
EXTENDS Envelope, FiniteSets

CONSTANTS
    MaxCalls,    \* functions called
    MaxFaults,   \* traps and failures of the device
    MaxKept,     \* rows and objects kept, when an object is written
    Uses,        \* what is encrypted: some of asset, thumb, meta, title, label
    Ids,
    Plaintexts

\* What is encrypted is not empty (header.rs, blob.rs), and a device holds it.
ASSUME ObjectsAssumption ==
    \A p \in Plaintexts : /\ p \in Seq(Range(p)) \ {<<>>}
                          /\ ~SizeOverflows([size |-> ChunkSize, length |-> Len(p)])

VARIABLES
    live,        \* the handles alive in the WASM instance
    poisoned,    \* the instance has trapped
    keys,        \* the handles callers own, and the key each one holds
    rows,        \* what callers had the relay keep
    call,        \* the function in progress
    calls,
    faults,
    told,        \* what the last call answered, and what it had been given
    written,     \* the objects made
    read         \* the last one opened

instance == <<live, poisoned, faults>>
answers  == <<keys, rows, told>>
objects  == <<written, read>>
vars     == <<instance, answers, call, calls, objects>>

Words == {"a", "A", "b", " ", "", "!"}   \* "!" is an unpaired surrogate

\* Normalising a passphrase folds case and drops the spaces around it.
Fold(word) == CASE word = "A" -> "a" [] word = " " -> "" [] OTHER -> word

None == [f |-> "none"]

NoRow == [harm |-> "none"]

-----------------------------------------------------------------------------
(***************************************************************************)
(* The functions.  `blames` says what becomes of an error; an error it     *)
(* does not name is "could-not-derive".                                    *)
(***************************************************************************)
createAccountKeys ==
    [try     |-> << <<"generate", "master">>, <<"WrapParams", "params">>,
                    <<"deriveOwnerCredential", "credential">>, <<"proof", "">>,
                    <<"intoKek", "kek">>, <<"wrapMasterKey", "wrapped">>,
                    <<"wrapped", "">>, <<"free", "wrapped">> >>,
     catch   |-> {"master", "wrapped"},
     finally |-> {"params", "credential", "kek"},
     gives   |-> {"master"},
     blames  |-> [EmptyPassword |-> "empty", UnpairedSurrogate |-> "invalid-password"]]

openAlbumKey ==
    [try     |-> << <<"decode", "">>, <<"fromParts", "wrapped">>,
                    <<"unwrapAlbumKeyWithMaster", "albumKey">> >>,
     catch   |-> {},
     finally |-> {"wrapped"},
     gives   |-> {"albumKey"},
     blames  |-> [Malformed |-> "unusable-material", OverCeiling |-> "unusable-material",
                  InvalidParams |-> "unusable-material", AuthenticationFailed |-> "cannot-open"]]

deriveLoginCredential ==
    [try     |-> << <<"decode", "">>, <<"ceiling", "">>, <<"WrapParams", "params">>,
                    <<"deriveOwnerCredential", "credential">>, <<"proof", "">>,
                    <<"intoKek", "kek">> >>,
     catch   |-> {},
     finally |-> {"credential", "params"},
     gives   |-> {"kek"},
     blames  |-> [Malformed |-> "unusable-material", OverCeiling |-> "unusable-material",
                  InvalidParams |-> "unusable-material", EmptyPassword |-> "empty",
                  UnpairedSurrogate |-> "invalid-password"]]

\* The caller's KEK is spent, whatever comes of it.
openMasterKey ==
    [try     |-> << <<"decode", "">>, <<"fromParts", "wrapped">>, <<"unwrapMasterKey", "master">> >>,
     catch   |-> {},
     finally |-> {"given", "wrapped"},
     gives   |-> {"master"},
     blames  |-> [Malformed |-> "unusable-material", OverCeiling |-> "unusable-material",
                  InvalidParams |-> "unusable-material", AuthenticationFailed |-> "cannot-unlock"]]

unlockMasterKey ==
    [try     |-> << <<"decode", "">>, <<"fromParts", "wrapped">>, <<"ceiling", "">>,
                    <<"WrapParams", "params">>, <<"deriveOwnerCredential", "credential">>,
                    <<"intoKek", "kek">>, <<"unwrapMasterKey", "master">> >>,
     catch   |-> {},
     finally |-> {"credential", "params", "wrapped", "kek"},
     gives   |-> {"master"},
     blames  |-> [Malformed |-> "unusable-material", OverCeiling |-> "unusable-material",
                  InvalidParams |-> "unusable-material", EmptyPassword |-> "empty",
                  AuthenticationFailed |-> "wrong-password",
                  UnpairedSurrogate |-> "wrong-password"]]

createAlbumKey ==
    [try     |-> << <<"generate", "albumKey">>, <<"wrapAlbumKeyWithMaster", "wrapped">>,
                    <<"wrapped", "">> >>,
     catch   |-> {"albumKey"},
     finally |-> {"wrapped"},
     gives   |-> {"albumKey"},
     blames  |-> <<>>]

createQrInvite ==
    [try     |-> << <<"await", "">>, <<"generate", "inviteKey">>,
                    <<"wrapAlbumKeyForInvite", "wrapped">>, <<"wrapped", "">>,
                    <<"toInviteBytes", "">> >>,
     catch   |-> {},
     finally |-> {"wrapped", "inviteKey"},
     gives   |-> {},
     blames  |-> <<>>]

\* On success both handles are freed twice: the second `free` throws, and is swallowed.
createPassphraseInvite ==
    [try     |-> << <<"wordlist", "">>, <<"await", "">>, <<"WrapParams", "params">>,
                    <<"wrapAlbumKey", "wrapped">>, <<"wrapped", "">>,
                    <<"free", "wrapped">>, <<"free", "params">> >>,
     catch   |-> {},
     finally |-> {"wrapped", "params"},
     gives   |-> {},
     blames  |-> [ShortWordlist |-> "unusable-wordlist"]]

openInviteKey ==
    [try     |-> << <<"decode", "">>, <<"fromBytes", "invite">>, <<"fromParts", "wrapped">>,
                    <<"unwrapAlbumKeyWithInvite", "albumKey">> >>,
     catch   |-> {},
     finally |-> {"invite", "wrapped"},
     gives   |-> {"albumKey"},
     blames  |-> [Malformed |-> "unusable-material", OverCeiling |-> "unusable-material",
                  InvalidParams |-> "unusable-material", AuthenticationFailed |-> "damaged-link"]]

openPassphraseKey ==
    [try     |-> << <<"decode", "">>, <<"ceiling", "">>, <<"WrapParams", "params">>,
                    <<"fromParts", "wrapped">>, <<"unwrapAlbumKey", "albumKey">> >>,
     catch   |-> {},
     finally |-> {"params", "wrapped"},
     gives   |-> {"albumKey"},
     blames  |-> [Malformed |-> "unusable-material", OverCeiling |-> "unusable-material",
                  InvalidParams |-> "unusable-material", EmptyPassphrase |-> "empty",
                  AuthenticationFailed |-> "wrong-passphrase",
                  UnpairedSurrogate |-> "wrong-passphrase"]]

Program ==
    [createAccountKeys |-> createAccountKeys, openAlbumKey |-> openAlbumKey,
     deriveLoginCredential |-> deriveLoginCredential, openMasterKey |-> openMasterKey,
     unlockMasterKey |-> unlockMasterKey, createAlbumKey |-> createAlbumKey,
     createQrInvite |-> createQrInvite, createPassphraseInvite |-> createPassphraseInvite,
     openInviteKey |-> openInviteKey, openPassphraseKey |-> openPassphraseKey]

-----------------------------------------------------------------------------
(***************************************************************************)
(* What each call of a function does.  A row is what the relay keeps of a  *)
(* key and serves again; `harm` is what came to it on the way.             *)
(***************************************************************************)
OwnerKek(word, salt) == <<"kek", word, salt>>

\* Of a passphrase.
InviteKek(word, salt) == <<"kek", Fold(word), salt>>

Purpose(key) == key[1]

\* What a call that opens a key makes of its row.
Opened_Mutant(c) ==
    CASE c.f = "unlockMasterKey"   ->
             Unwrap("master", 0, InviteKek(c.word, c.row.salt), c.row.wrap)
      [] c.f = "openMasterKey"     -> Unwrap("master", 0, keys[c.arg], c.row.wrap)
      [] c.f = "openAlbumKey"      -> Unwrap("album", c.row.id, keys[c.arg], c.row.wrap)
      [] c.f = "openInviteKey"     -> Unwrap("invite", c.row.id, c.link, c.row.wrap)
      [] c.f = "openPassphraseKey" ->
             Unwrap("wrap", c.row.id, InviteKek(c.word, c.row.salt), c.row.wrap)

Opened(c) ==
    CASE c.f = "unlockMasterKey"   -> Unwrap("master", 0, OwnerKek(c.word, c.row.salt), c.row.wrap)
      [] c.f = "openMasterKey"     -> Unwrap("master", 0, keys[c.arg], c.row.wrap)
      [] c.f = "openAlbumKey"      -> Unwrap("album", c.row.id, keys[c.arg], c.row.wrap)
      [] c.f = "openInviteKey"     -> Unwrap("invite", c.row.id, c.link, c.row.wrap)
      [] c.f = "openPassphraseKey" ->
             Unwrap("wrap", c.row.id, InviteKek(c.word, c.row.salt), c.row.wrap)

Opening == {"unwrapMasterKey", "unwrapAlbumKeyWithMaster", "unwrapAlbumKeyWithInvite", "unwrapAlbumKey"}

\* The two that reach for an album key after an await, which may have been freed by then.
Inviting == {"wrapAlbumKeyForInvite", "wrapAlbumKey"}

\* Outside the instance, which these never touch.
Outside == {"decode", "ceiling", "wordlist", "await"}

\* The error a call throws for what it was given, or "ok".
Error(c, op) ==
    LET secret == op \in {"deriveOwnerCredential", "unwrapAlbumKey"}
        no == CASE op = "deriveOwnerCredential" -> c.word = ""
                [] op = "unwrapAlbumKey" -> Fold(c.word) = ""
                [] OTHER -> FALSE
    IN  CASE op = "decode" /\ c.row.harm = "text"     -> "Malformed"
          [] op = "ceiling" /\ c.row.harm = "heavy"   -> "OverCeiling"
          [] op = "wordlist" /\ c.word = ""           -> "ShortWordlist"
          [] op = "WrapParams" /\ c.row.harm = "zero" -> "InvalidParams"
          [] op = "fromBytes" /\ c.link = <<>>        -> "WrongLength"
          [] op \in Inviting /\ c.arg \notin DOMAIN keys -> "FreedHandle"
          [] secret /\ c.word = "!"                   -> "UnpairedSurrogate"
          [] secret /\ no -> IF op = "unwrapAlbumKey" THEN "EmptyPassphrase" ELSE "EmptyPassword"
          [] op \in Opening /\ ~(secret /\ (no \/ c.word = "!")) ->
                 IF Opened(c).ok THEN "ok" ELSE Opened(c).code
          [] OTHER -> "ok"

\* The device's own failures: no randomness, no memory for the derivation.
DeviceError(op) ==
    CASE op \in {"generate", "wrapMasterKey", "wrapAlbumKeyWithMaster",
                 "wrapAlbumKeyForInvite", "wrapAlbumKey"} -> {"RandomnessUnavailable"}
      [] op \in {"deriveOwnerCredential", "unwrapAlbumKey"} -> {"HashingFailed"}
      [] OTHER -> {}

\* The keys and the row a call makes, of the salts, nonces and ids it drew.
Minted(n, for) == <<for, n>>

MadeRow(c, label, id, kek, secret, key) ==
    {[f |-> c.f, n |-> c.n, id |-> id, salt |-> c.n, harm |-> "none", secret |-> secret,
      key |-> key, wrap |-> Wrap(label, id, kek, c.n, key)]}

Made(c) ==
    CASE c.f = "createAccountKeys" ->
             MadeRow(c, "master", 0, OwnerKek(c.word, c.n), c.word, Minted(c.n, "master"))
      [] c.f = "createAlbumKey" ->
             MadeRow(c, "album", c.n, keys[c.arg], keys[c.arg], Minted(c.n, "album"))
      [] c.f = "createQrInvite" ->
             MadeRow(c, "invite", c.n, Minted(c.n, "invite"), Minted(c.n, "invite"), keys[c.arg])
      [] c.f = "createPassphraseInvite" ->
             MadeRow(c, "wrap", c.n, InviteKek(c.word, c.n), Fold(c.word), keys[c.arg])
      [] OTHER -> {}

\* The key a handle that is handed over holds.
Holds(c, v) ==
    IF v = "kek" THEN OwnerKek(c.word, c.row.salt)
    ELSE CASE c.f = "createAccountKeys" -> Minted(c.n, "master")
           [] c.f = "createAlbumKey"    -> Minted(c.n, "album")
           [] OTHER                     -> Opened(c).value

-----------------------------------------------------------------------------
(***************************************************************************)
(* Calls.                                                                  *)
(***************************************************************************)
Maker == [unlockMasterKey |-> "createAccountKeys", openMasterKey |-> "createAccountKeys",
          deriveLoginCredential |-> "createAccountKeys", openAlbumKey |-> "createAlbumKey",
          openInviteKey |-> "createQrInvite", openPassphraseKey |-> "createPassphraseInvite"]

\* A row is whole, or its text, its KDF parameters or its ciphertext have changed.
Harms(f) ==
    {"none", "text"}
        \cup (IF \E i \in DOMAIN Program[f].try : Program[f].try[i][1] = "ceiling"
              THEN {"heavy", "zero"} ELSE {})
        \cup (IF f = "deriveLoginCredential" THEN {} ELSE {"bytes"})

\* A row as it is served: whole, harmed, or under the id of another.
Harmed(r, h) == [r EXCEPT !.harm = h, !.wrap.key = IF h = "bytes" THEN <<"none">> ELSE @]

Mistaken(r, q) == [r EXCEPT !.harm = "id", !.id = q.id]

Served(f) ==
    LET own == {r \in rows : r.f = Maker[f]}
    IN  {Harmed(r, h) : r \in own, h \in Harms(f)}
        \cup UNION {{Mistaken(r, q) : q \in {p \in rows : p.id # r.id}} :
                      r \in {p \in own : p.id # 0}}

Owned(for) == {h \in DOMAIN keys : Purpose(keys[h]) = for}

Given(f) ==
    LET row == IF f \in DOMAIN Maker THEN Served(f) ELSE {NoRow}
        \* A word is chosen as a password, drawn as a passphrase, or typed as either.
        word == CASE f = "createAccountKeys" -> {"a", " ", "", "!"}
                  [] f = "createPassphraseInvite" -> {"a", ""}
                  [] f \in {"deriveLoginCredential", "unlockMasterKey", "openPassphraseKey"} -> Words
                  [] OTHER -> {"-"}
        arg == CASE f \in {"openAlbumKey", "createAlbumKey"} -> Owned("master")
                 [] f = "openMasterKey" -> Owned("kek")
                 [] f \in {"createQrInvite", "createPassphraseInvite"} -> Owned("album")
                 [] OTHER -> {<<>>}
        link == IF f = "openInviteKey"
                THEN {<<>>, <<"invite", 0>>} \cup {q.secret : q \in {r \in rows : r.f = Maker[f]}}
                ELSE {<<>>}
    IN  [row : row, word : word, arg : arg, link : link]

Init ==
    /\ live = {}
    /\ poisoned = FALSE
    /\ keys = <<>>
    /\ rows = {}
    /\ call = None
    /\ calls = 0
    /\ faults = 0
    /\ told = None
    /\ written = {}
    /\ read = None

Call(f) ==
    /\ call = None
    /\ read = None
    /\ calls < MaxCalls
    /\ \E g \in Given(f) :
         call' = [f |-> f, n |-> calls + 1, at |-> 1, error |-> "ok", failed |-> FALSE,
                  has |-> IF f = "openMasterKey" THEN [v \in {"given"} |-> g.arg] ELSE <<>>,
                  row |-> g.row, word |-> g.word, arg |-> g.arg, link |-> g.link]
    /\ calls' = calls + 1
    /\ told' = None
    /\ UNCHANGED <<instance, keys, rows, objects>>

Running == call # None /\ call.error = "ok" /\ call.at <= Len(Program[call.f].try)

Doing == Program[call.f].try[call.at]

Throws(error, device) ==
    call' = [call EXCEPT !.error = error, !.failed = @ \/ device]

\* `intoKek` consumes the credential; `free` ends what its variable still names.
Ends(op, v) ==
    CASE op = "intoKek" -> {call.has["credential"]}
      [] op = "free"    -> {call.has[v]}
      [] OTHER          -> {}

\* run(): nothing reaches the instance once it is poisoned.
Step ==
    /\ Running
    /\ LET op == Doing[1]
           v  == Doing[2]
           new == IF v # "" /\ op # "free" THEN {v} ELSE {}
           error == Error(call, op)
       IN  IF poisoned /\ op \notin Outside
           THEN Throws("EnvelopeUnavailable", TRUE) /\ UNCHANGED live
           ELSE IF error # "ok"
           THEN Throws(error, FALSE) /\ UNCHANGED live
           ELSE /\ live' = (live \ Ends(op, v)) \cup {<<call.n, w>> : w \in new}
                /\ call' = [call EXCEPT !.at = @ + 1,
                                        !.has = [w \in DOMAIN @ \cup new |->
                                                   IF w \in new THEN <<call.n, w>> ELSE @[w]]]
    /\ UNCHANGED <<poisoned, faults, answers, calls, objects>>

\* A trap poisons the instance; another failure is only thrown.
DeviceFails ==
    /\ Running
    /\ faults < MaxFaults
    /\ faults' = faults + 1
    /\ ~poisoned
    /\ \/ /\ Doing[1] \notin Outside
          /\ poisoned' = TRUE
          /\ Throws("EnvelopeUnavailable", TRUE)
       \/ /\ \E error \in DeviceError(Doing[1]) : Throws(error, TRUE)
          /\ UNCHANGED poisoned
    /\ UNCHANGED <<live, answers, calls, objects>>

\* Another user of the instance, while a function awaits the digest of its token.
TrapsElsewhere ==
    /\ Running
    /\ Doing[1] = "await"
    /\ ~poisoned
    /\ faults < MaxFaults
    /\ faults' = faults + 1
    /\ poisoned' = TRUE
    /\ UNCHANGED <<live, call, calls, answers, objects>>

Frees_Mutant(p) == p.finally

Frees(p) == p.finally \cup IF call.error # "ok" THEN p.catch ELSE {}

Says_Mutant(p) ==
    IF call.error = "ok" THEN "ok"
    ELSE IF call.error \in DOMAIN p.blames THEN p.blames[call.error]
    ELSE IF call.f = "createAccountKeys" THEN "invalid-password" ELSE "could-not-derive"

Says(p) ==
    IF call.error = "ok" THEN "ok"
    ELSE IF call.error \in DOMAIN p.blames THEN p.blames[call.error] ELSE "could-not-derive"

\* `catch`, `finally` and the return.  What is freed after a trap stays, and throws.
Returns ==
    /\ call # None
    /\ ~Running
    /\ LET p     == Program[call.f]
           ok    == call.error = "ok"
           freed == {call.has[v] : v \in Frees(p) \cap DOMAIN call.has}
           given == IF ok THEN p.gives ELSE {}
           kept  == DOMAIN keys \ freed
           hands == {call.has[v] : v \in given}
       IN  /\ live' = IF poisoned THEN live ELSE live \ freed
           /\ keys' = [h \in kept \cup hands |-> IF h \in kept THEN keys[h] ELSE Holds(call, h[2])]
           /\ rows' = rows \cup IF ok THEN Made(call) ELSE {}
           /\ told' = [f |-> call.f, says |-> Says(p), failed |-> call.failed,
                       row |-> call.row, word |-> call.word, link |-> call.link,
                       arg |-> IF call.arg \in DOMAIN keys THEN keys[call.arg] ELSE <<>>,
                       key |-> IF ok /\ p.gives # {} THEN Holds(call, CHOOSE v \in p.gives : TRUE)
                               ELSE <<>>]
    /\ call' = None
    /\ UNCHANGED <<poisoned, faults, calls, objects>>

\* A caller lets go of a key: between two calls, or while an invitation awaits
\* the digest of its token, its album's key with the others.
Release(h) ==
    /\ call = None \/ (Running /\ Doing[1] = "await")
    /\ read = None
    /\ h \in DOMAIN keys
    /\ live' = IF poisoned THEN live ELSE live \ {h}
    /\ keys' = [k \in DOMAIN keys \ {h} |-> keys[k]]
    /\ told' = None
    /\ UNCHANGED <<poisoned, faults, rows, call, calls, objects>>

-----------------------------------------------------------------------------
(***************************************************************************)
(* Objects, and the two blobs: one ciphertext behind its nonce, with no    *)
(* associated data, under a key of its own.                                *)
(***************************************************************************)
Blobs == {"title", "label"}

Encrypted(album, use, id, nonce, plain) ==
    LET key == Derive(album, use, id)
    IN  IF use \in Blobs
        THEN << [nonce |-> nonce] >> \o AeadEncrypt(key, <<nonce>>, <<>>, plain)
        ELSE EncryptObject(key, id, nonce, plain)

Decrypted(album, use, id, object) ==
    LET key == Derive(album, use, id)
    IN  IF use \notin Blobs THEN Decrypt(key, object)
        ELSE IF Len(object) < 1 + 1 + TagLen THEN Err("TooShort")  \* nonce, a byte, tag
        ELSE AeadDecrypt(key, <<object[1].nonce>>, <<>>, Tail(object))

Write(h, use, id, plain) ==
    /\ call = None
    /\ ~poisoned
    /\ read = None
    /\ Purpose(keys[h]) = "album"
    /\ Cardinality(rows) + Cardinality(written) < MaxKept
    /\ written' = written \cup
         {[album |-> keys[h], use |-> use, id |-> id, plain |-> plain,
           object |-> Encrypted(keys[h], use, id, Cardinality(written) + 1, plain)]}
    /\ told' = None
    /\ UNCHANGED <<instance, keys, rows, call, calls, read>>

\* What may be found where an object was written: it, one that lost or gained
\* bytes, one whose header changed, one made of parts of two or in another order.
Found ==
    LET whole == {w.object : w \in written}
        Cut(o) == {SubSeq(o, 1, k) : k \in 1..(Len(o) - 1)}
        Relabelled(o) ==
            IF "size" \notin DOMAIN o[1] THEN {o}
            ELSE {[o EXCEPT ![1].length = k] : k \in 1..(o[1].length + 1)}
        Claims(o) ==
            IF "size" \notin DOMAIN o[1] THEN {}
            ELSE {[o EXCEPT ![1].size = k] : k \in 0..(o[1].size + 1)}
                 \cup {[o EXCEPT ![1].id = k] : k \in Ids}
        Spliced(o, p) ==
            UNION {{SubSeq(o, 1, k) \o SubSeq(p, j, Len(p)) : j \in 2..Len(p)} : k \in 1..Len(o)}
        \* Its first two chunks the other way round.
        Swapped(o) ==
            LET n == ChunkSize + TagLen
            IN  [k \in DOMAIN o |-> CASE k \in 2..(n + 1) -> o[k + n]
                                       [] k \in (n + 2)..(2 * n + 1) -> o[k - n]
                                       [] OTHER -> o[k]]
    IN  (UNION {Claims(o) \cup UNION {Relabelled(c) : c \in Cut(o) \cup {o}} : o \in whole})
        \cup (UNION {UNION {Spliced(o, p) : p \in whole} : o \in whole})
        \cup {Swapped(o) : o \in {p \in whole : Len(p) > 2 * (ChunkSize + TagLen)}}

\* Opening an object changes nothing: a history ends with its first reading.
Read(h, use, id) ==
    /\ call = None
    /\ ~poisoned
    /\ read = None
    /\ Purpose(keys[h]) = "album"
    /\ \E object \in Found :
         read' = [album |-> keys[h], use |-> use, id |-> id, object |-> object,
                  got |-> Decrypted(keys[h], use, id, object)]
    /\ told' = None
    /\ UNCHANGED <<instance, keys, rows, call, calls, written>>

-----------------------------------------------------------------------------
Next ==
    \/ \E f \in DOMAIN Program : Call(f)
    \/ Step
    \/ DeviceFails
    \/ TrapsElsewhere
    \/ Returns
    \/ \E h \in DOMAIN keys :
         \/ Release(h)
         \/ \E use \in Uses, id \in Ids :
              \/ \E plain \in Plaintexts : Write(h, use, id, plain)
              \/ Read(h, use, id)

Spec == Init /\ [][Next]_vars

-----------------------------------------------------------------------------
(***************************************************************************)
(* Properties.                                                             *)
(***************************************************************************)
\* However a function ends -- at its return, at an early one, at an error
\* half way, at a failure of the device -- the handles alive in the instance
\* are the ones its callers hold: none is left behind, none is freed under a
\* caller.  After a trap nothing is freed any more (owner-open.ts, open.ts:
\* the `catch` and `finally` of every function).
HandlesExact == (call = None /\ ~poisoned) => live = DOMAIN keys

Opens(t) == t.f \in {"unlockMasterKey", "openMasterKey", "openAlbumKey", "openInviteKey",
                     "openPassphraseKey"}

\* The row came as it was made, with the secret it was made with.
Fits(t) ==
    /\ t.row.harm = "none"
    /\ CASE t.f = "unlockMasterKey"   -> t.word = t.row.secret
         [] t.f = "openMasterKey"     -> t.arg = OwnerKek(t.row.secret, t.row.salt)
         [] t.f = "openAlbumKey"      -> t.arg = t.row.secret
         [] t.f = "openInviteKey"     -> t.link = t.row.secret
         [] t.f = "openPassphraseKey" -> Fold(t.word) = t.row.secret

\* Whoever has the secret a row was made with gets the key that was wrapped,
\* and nobody gets a key otherwise: from any row, of any album, account or
\* invitation, served under any id.  Only the device can stand between.
OpensWhatWasWrapped ==
    (told # None /\ Opens(told)) =>
        /\ told.says = "ok" => Fits(told) /\ told.key = told.row.key
        /\ Fits(told) /\ ~told.failed => told.says = "ok"

\* The person is blamed for a secret only when it does not fit the row, and
\* the relay for a row only when the row was harmed; a trap or another failure
\* of the device is never told as either (envelope.ts:18-22).
BlameIsDeserved ==
    told # None =>
        /\ told.failed => told.says \in {"ok", "could-not-derive"}
        /\ told.says \in {"wrong-password", "wrong-passphrase", "cannot-unlock", "cannot-open",
                          "damaged-link"} => ~Fits(told)
        /\ told.says = "unusable-material" => told.row.harm \in {"text", "heavy", "zero"}

\* What is read of an object is what was once written whole under the same
\* album key, for the same use and id: not a part of it, not parts of two,
\* not another photo's (envelope.rs decrypt, blob.rs decrypt_cipher).
ReadsAreWrites ==
    read # None =>
        LET same == {w \in written : /\ w.album = read.album /\ w.use = read.use
                                     /\ w.id = read.id /\ w.object = read.object}
        IN  /\ read.got.ok <=> same # {}
            /\ \A w \in same : read.got.value = w.plain
=============================================================================
