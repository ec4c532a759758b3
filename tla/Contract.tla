------------------------------ MODULE Contract ------------------------------
(***************************************************************************)
(* What the relay and its clients say to each other over HTTP: a request,  *)
(* built by a client's API or with one thing wrong in it; the server's     *)
(* stages, of which the first that throws decides; the one error shape;    *)
(* and what the client makes of the answer, with the repeat of a call that *)
(* got none.                                                               *)
(*                                                                         *)
(* Left out: CORS, headers other than Authorization, Content-Type,         *)
(* Content-Length and Range, the wording of messages and of the log.       *)
(***************************************************************************)
EXTENDS Encoding, Integers, FiniteSets, TLC

CONSTANTS
    MaxTries    \* bound: times one call is sent

ASSUME ContractAssumption == MaxTries \in Nat \ {0}

VARIABLES
    call,       \* the client's call, or Anyone
    request,
    world,      \* what the server has to say about it
    answer,     \* its code, Ok, or NoAnswer when the client got none
    paid,       \* what the request cost its token
    meaning,    \* what the client made of the answer
    tries

contractVars == <<call, request, world, answer, paid, meaning, tries>>

Anyone  == "anyone"
Ok      == "OK"
NoAnswer == "no answer"
Unset   == ""

(***************************************************************************)
(* Routes: who may call, what the body is, whose id is in the path,        *)
(* whether the bytes served are charged, whether a row is made.            *)
(***************************************************************************)
Line(guard, takes, names, charges, makes) ==
    [guard |-> guard, takes |-> takes, names |-> names, charges |-> charges, makes |-> makes]

CredentialRoutes ==
    [signup      |-> Line("address", "json", "nothing", FALSE, TRUE),
     loginParams |-> Line("address", "json", "nothing", FALSE, FALSE),
     login       |-> Line("address", "json", "nothing", FALSE, FALSE),
     ownerKey    |-> Line("owner", "get", "nothing", FALSE, FALSE),
     logout      |-> Line("owner", "empty", "nothing", FALSE, FALSE),
     logoutAll   |-> Line("owner", "empty", "nothing", FALSE, FALSE)]

AlbumRoutes ==
    [createAlbum |-> Line("owner", "json", "nothing", FALSE, TRUE),
     albums      |-> Line("owner", "get", "nothing", FALSE, FALSE),
     album       |-> Line("either", "get", "album", FALSE, FALSE),
     metadata    |-> Line("either", "get", "album", TRUE, FALSE),
     accessLog   |-> Line("owner", "get", "album", FALSE, FALSE),
     entries     |-> Line("owner", "get", "album", FALSE, FALSE)]

MediaRoutes ==
    [createMedia     |-> Line("owner", "json", "album", FALSE, TRUE),
     mediaStatus     |-> Line("owner", "get", "media", FALSE, FALSE),
     uploadAsset     |-> Line("owner", "stream", "media", FALSE, FALSE),
     uploadThumbnail |-> Line("owner", "stream", "media", FALSE, FALSE),
     removeMedia     |-> Line("owner", "empty", "media", FALSE, FALSE)]

RecipientRoutes ==
    [createRecipient |-> Line("owner", "json", "album", FALSE, TRUE),
     revoke          |-> Line("owner", "empty", "recipient", FALSE, FALSE),
     key             |-> Line("recipient", "get", "nothing", FALSE, FALSE),
     recipient       |-> Line("recipient", "get", "nothing", FALSE, FALSE)]

DeliveryRoutes_Mutant ==
    [thumbnail |-> Line("either", "get", "media", FALSE, FALSE),
     asset     |-> Line("either", "get", "media", TRUE, FALSE)]

DeliveryRoutes ==
    [thumbnail |-> Line("either", "get", "media", TRUE, FALSE),
     asset     |-> Line("either", "get", "media", TRUE, FALSE)]

Routes ==
    DOMAIN CredentialRoutes \cup DOMAIN AlbumRoutes \cup DOMAIN MediaRoutes
        \cup DOMAIN RecipientRoutes \cup DOMAIN DeliveryRoutes

Server ==
    [r \in Routes |-> CASE r \in DOMAIN CredentialRoutes -> CredentialRoutes[r]
                        [] r \in DOMAIN AlbumRoutes -> AlbumRoutes[r]
                        [] r \in DOMAIN MediaRoutes -> MediaRoutes[r]
                        [] r \in DOMAIN RecipientRoutes -> RecipientRoutes[r]
                        [] OTHER -> DeliveryRoutes[r]]

(***************************************************************************)
(* Bodies.  A binary field has bounds in characters (schema) and in bytes  *)
(* (decoder), written apart in the code.  Another field is a member of a   *)
(* small set: what its schema lets through is named.                       *)
(***************************************************************************)
Bound(chars, bytes) == [chars |-> chars, bytes |-> bytes]

Exactly(chars, bytes) == Bound(<<chars, chars>>, <<bytes, bytes>>)

Wrap == [wrapped |-> Exactly(64, 48), wrap_nonce |-> Exactly(32, 24)]

Binary ==
    [signup |-> [proof |-> Exactly(43, 32), kdf_salt |-> Exactly(22, 16),
                 wrapped_master |-> Exactly(64, 48), wrap_nonce |-> Exactly(32, 24)],
     login  |-> [proof |-> Exactly(43, 32)],
     createAlbum |-> [title |-> Bound(<<55, 1366>>, <<41, 1024>>),
                      wrapped_key |-> Exactly(64, 48), wrap_nonce |-> Exactly(32, 24)],
     createMedia |-> [metadata |-> Bound(<<108, 5462>>, <<81, 4096>>)],
     createRecipient |-> Wrap @@
                [label |-> Bound(<<55, 1366>>, <<41, 1024>>), token_hash |-> Exactly(43, 32),
                 kdf_salt |-> Exactly(22, 16)]]

BinaryFields(r) == IF r \in DOMAIN Binary THEN DOMAIN Binary[r] ELSE {}

Kdf == {"kdf_salt", "kdf_memory_kib", "kdf_iterations", "kdf_parallelism"}

Integral == Kdf \ {"kdf_salt"}

\* An integer of the KDF: below the floor, on it, as v1 has it, the largest
\* of an int4 column, one more.
Integers_ == {"below", "floor", "v1", "int4", "over"}

Fields ==
    [signup |-> {"email"} \cup Integral \cup BinaryFields("signup"),
     loginParams |-> {"email"},
     login |-> {"email", "proof"},
     createAlbum |-> {"id"} \cup BinaryFields("createAlbum"),
     createMedia |-> {"id", "kind", "metadata"},
     createRecipient |-> {"id", "kind"} \cup Integral \cup BinaryFields("createRecipient")]

(* ajv's format of an id admits one with "urn:uuid:" before it. *)
UuidFormat == {"uuid", "urn"}

(* What a field's own schema lets through, binary fields apart. *)
Allowed(r, f) ==
    CASE f = "email" -> {"typed", "blank", "nul"}
      [] f = "id" -> UuidFormat
      [] f = "kind" -> IF r = "createMedia" THEN {"photo"} ELSE {"qr", "passphrase"}
      [] OTHER -> Integers_ \ (IF r = "signup" THEN {"below"} ELSE {"below", "over"})

(* if / then / else: the KDF goes with a passphrase, and with nothing else. *)
KindAgrees(body) ==
    IF body["kind"] = "passphrase" THEN Kdf \subseteq DOMAIN body ELSE Kdf \cap DOMAIN body = {}

(* required, the fields' own schemas, and the condition. *)
BodyIsValid(r, body) ==
    /\ Fields[r] \ (IF r = "createRecipient" THEN Kdf ELSE {}) \subseteq DOMAIN body
    /\ \A f \in DOMAIN body :
           IF f \in BinaryFields(r)
           THEN Admits(body[f], Binary[r][f].chars[1], Binary[r][f].chars[2])
           ELSE body[f] \in Allowed(r, f)
    /\ r = "createRecipient" => KindAgrees(body)

(***************************************************************************)
(* Errors: an application's, the adapter's, a validation's, the            *)
(* framework's, any other; and the one place that gives them a code.       *)
(***************************************************************************)
None == [from |-> "nobody", what |-> Unset]

Application(what) == [from |-> "application", what |-> what]
Api(what)         == [from |-> "api", what |-> what]
Invalid           == [from |-> "validation", what |-> Unset]
Framework(status) == [from |-> "framework", what |-> status]
Fault             == [from |-> "other", what |-> Unset]

\* The first stage that throws decides.
a %% b == IF a.from = "nobody" THEN b ELSE a

Status ==
    [VALIDATION_FAILED |-> 400, UNAUTHENTICATED |-> 401, INVALID_CREDENTIALS |-> 401,
     ACCESS_REVOKED |-> 403, NOT_FOUND |-> 404, CONFLICT |-> 409, LENGTH_REQUIRED |-> 411,
     PAYLOAD_TOO_LARGE |-> 413, UNSUPPORTED_MEDIA_TYPE |-> 415, RANGE_NOT_SATISFIABLE |-> 416,
     RATE_LIMITED |-> 429, INTERNAL |-> 500, SIGNUP_NOT_ALLOWED |-> 403]

Codes == DOMAIN Status

FrameworkCode_Mutant(status) ==
    CASE status = 400 -> "VALIDATION_FAILED" [] status = 401 -> "UNAUTHENTICATED"
      [] status = 413 -> "PAYLOAD_TOO_LARGE" [] OTHER -> "INTERNAL"

FrameworkCode(status) ==
    CASE status = 400 -> "VALIDATION_FAILED" [] status = 401 -> "UNAUTHENTICATED"
      [] status = 413 -> "PAYLOAD_TOO_LARGE" [] status = 415 -> "UNSUPPORTED_MEDIA_TYPE"
      [] status = 429 -> "RATE_LIMITED" [] OTHER -> "INTERNAL"

ApplicationCode ==
    [EMPTY_ADDRESS |-> "VALIDATION_FAILED", INVALID_CREDENTIALS |-> "INVALID_CREDENTIALS",
     DUPLICATE_ADDRESS |-> "CONFLICT", DUPLICATE_ALBUM_ID |-> "CONFLICT",
     DUPLICATE_MEDIA_ID |-> "CONFLICT", ALBUM_NOT_FOUND |-> "NOT_FOUND",
     MEDIA_NOT_FOUND |-> "NOT_FOUND", MEDIA_ALREADY_READY |-> "CONFLICT",
     ALBUM_ACCESS_REVOKED |-> "ACCESS_REVOKED", DUPLICATE_RECIPIENT |-> "CONFLICT",
     RECIPIENT_NOT_FOUND |-> "NOT_FOUND", SIGNUP_NOT_ALLOWED |-> "SIGNUP_NOT_ALLOWED"]

errorEnvelope(e) ==
    CASE e.from = "application" -> ApplicationCode[e.what]
      [] e.from = "api" -> e.what
      [] e.from = "validation" -> "VALIDATION_FAILED"
      [] e.from = "framework" -> FrameworkCode(e.what)
      [] OTHER -> "INTERNAL"

(***************************************************************************)
(* Stages, in Fastify's order.                                             *)
(***************************************************************************)
\* A Content-Length that is absent, and one that is no whole number.
Absent == -1
Other  == -2

\* framing: the Content-Type of the request, and what follows it; "bare" is a
\* body without one, and so is an upload with "none" and a length.
(* The content-type parsers: JSON and text by default, none but octets on an    *)
(* upload; no body needs none.                                                  *)
Parsed(q) ==
    LET takes  == Server[q.route].takes
        nobody == q.framing = "none" /\ (takes = "stream" => q.length \in {Absent, 0})
    IN  IF takes = "get" \/ nobody THEN None
        ELSE IF takes = "stream" THEN IF q.framing = "octets" THEN None ELSE Framework(415)
        ELSE CASE q.framing \in {"octets", "bare"} -> Framework(415)
               [] q.framing = "long" -> Framework(413)
               [] q.framing = "json, no body" -> Framework(400)
               [] OTHER -> None

(* Path, query and body against the route's schema. *)
Validated(q) ==
    IF \/ Server[q.route].names # "nothing" /\ q.path \notin UuidFormat
       \/ Server[q.route].takes = "json" /\ (q.framing # "json" \/ ~BodyIsValid(q.route, q.body))
       \/ q.route = "entries" /\ (\/ q.query.before = 0 \/ q.query.limit \notin 1 .. 500
                                 \/ q.query.filter \notin {"none"} \cup UuidFormat)
    THEN Invalid
    ELSE None

(* The lookups a token's scheme makes: owners' tokens, recipients' grants. *)
Recognised(guard, token) ==
    \/ guard \in {"owner", "either"} /\ token = "owner"
    \/ guard \in {"recipient", "either"} /\ token \in {"recipient", "revoked"}

(* A budget, of an address or of a token. *)
Afforded(w) == IF w.spent THEN Api("RATE_LIMITED") ELSE None

(* preHandler: an address's budget, or the token and then its own. *)
Admitted(q, w) ==
    IF Server[q.route].guard = "address" THEN Afforded(w)
    ELSE IF w.token = "malformed" THEN Api("UNAUTHENTICATED")
    ELSE IF w.fault = "database" THEN Fault
    ELSE IF ~Recognised(Server[q.route].guard, w.token) THEN Api("UNAUTHENTICATED")
    ELSE Afforded(w)

ASSET_MAX_BYTES == 16 * 1024 * 1024
THUMBNAIL_MAX_BYTES == 1024 * 1024
ENVELOPE_MIN_BYTES == 81

(* The upload's ladder over Content-Length. *)
Measured(q) ==
    IF q.length = Absent THEN Api("LENGTH_REQUIRED")
    ELSE IF q.length = Other THEN Api("VALIDATION_FAILED")
    ELSE IF q.length > (IF q.route = "uploadAsset" THEN ASSET_MAX_BYTES ELSE THUMBNAIL_MAX_BYTES)
         THEN Api("PAYLOAD_TOO_LARGE")
    ELSE IF q.length < ENVELOPE_MIN_BYTES THEN Api("VALIDATION_FAILED")
    ELSE None

(* What a handler reads before its use case: lengths, the range, binary fields. *)
Decoded(q) ==
    IF Server[q.route].takes = "stream" THEN Measured(q)
    ELSE IF \/ q.route = "asset" /\ q.range = "none"
            \/ \E f \in BinaryFields(q.route) \cap DOMAIN q.body :
                 ~Decodes(q.body[f], Binary[q.route][f].bytes[1], Binary[q.route][f].bytes[2])
         THEN Api("VALIDATION_FAILED")
    ELSE None

(***************************************************************************)
(* Use cases.                                                              *)
(***************************************************************************)
(* Scope, then revocation: only one's own album says that access was revoked. *)
resolveAlbumScope_Mutant(w) ==
    IF w.token = "revoked" THEN Application("ALBUM_ACCESS_REVOKED")
    ELSE IF w.target # "own" THEN Application("ALBUM_NOT_FOUND")
    ELSE None

resolveAlbumScope(w) ==
    IF w.target # "own" THEN Application("ALBUM_NOT_FOUND")
    ELSE IF w.token = "revoked" THEN Application("ALBUM_ACCESS_REVOKED")
    ELSE None

Revoked(w) == IF w.token = "revoked" THEN Application("ALBUM_ACCESS_REVOKED") ELSE None

Query(w) == IF w.fault = "database" THEN Fault ELSE None

Unless(taken, what) == IF taken THEN Application(what) ELSE None

(* What the schemas let through and Postgres refuses, in the first query that   *)
(* has it: an id with its urn, an address with a NUL.                           *)
Unread(value) == IF value \in {"urn", "nul"} THEN Fault ELSE None

(* An address's three routes; an int4 column has the last word on the KDF, and  *)
(* no allowlist, which is read from the environment, holds a NUL.               *)
Signup(q, w) ==
    IF q.body["email"] = "blank" THEN Application("EMPTY_ADDRESS")
    ELSE IF w.account = "uninvited" \/ q.body["email"] = "nul" THEN Application("SIGNUP_NOT_ALLOWED")
    ELSE Query(w) %% Unless(w.account = "known", "DUPLICATE_ADDRESS")
         %% IF \E f \in Integral : q.body[f] = "over" THEN Fault ELSE None

Login(q, w) ==
    IF q.body["email"] = "blank" THEN Application("EMPTY_ADDRESS")
    ELSE Unread(q.body["email"]) %% Query(w)
         %% Unless(w.account # "known" \/ ~w.proof, "INVALID_CREDENTIALS")

LoginParams(q, w) ==
    IF q.body["email"] = "blank" THEN Application("EMPTY_ADDRESS")
    ELSE Unread(q.body["email"]) %% Query(w)

(* A media row is found by its id, and its album is the scope. *)
FindMedia(w) == IF w.target = "absent" THEN Application("MEDIA_NOT_FOUND") ELSE None

OwnMedia(w) == IF w.target # "own" THEN Application("MEDIA_NOT_FOUND") ELSE None

(* The store's answer to a GET; a missing object is looked up again. *)
Fetched(q, w) ==
    CASE w.fault = "missing" -> Fault
      [] w.fault = "removed" -> Application("MEDIA_NOT_FOUND")
      [] w.fault = "store" -> Fault
      [] OTHER -> IF q.route = "asset" /\ q.range = "past the end"
                  THEN Api("RANGE_NOT_SATISFIABLE") ELSE None

Delivered(q, w) ==
    FindMedia(w) %% resolveAlbumScope(w)
    %% IF w.status # "ready" THEN Application("MEDIA_NOT_FOUND") ELSE Fetched(q, w)

(* A ready row refuses an upload, a row removed under it ends it; a store that *)
(* fails is answered with the row.                                             *)
Uploaded(w) ==
    OwnMedia(w) %% Unless(w.status = "ready", "MEDIA_ALREADY_READY")
    %% Unless(w.fault = "removed", "MEDIA_NOT_FOUND")

Decided(q, w) ==
    CASE q.route = "signup" -> Signup(q, w)
      [] q.route = "login" -> Login(q, w)
      [] q.route = "loginParams" -> LoginParams(q, w)
      [] q.route = "createAlbum" -> Unread(q.body["id"]) %% Unless(w.taken, "DUPLICATE_ALBUM_ID")
      [] q.route = "createMedia" ->
             resolveAlbumScope(w) %% Unread(q.body["id"]) %% Unless(w.taken, "DUPLICATE_MEDIA_ID")
      [] q.route = "createRecipient" ->
             resolveAlbumScope(w) %% Unread(q.body["id"]) %% Unless(w.taken, "DUPLICATE_RECIPIENT")
      [] q.route = "entries" -> resolveAlbumScope(w) %% Unread(q.query.filter)
      [] q.route \in {"album", "metadata", "accessLog"} -> resolveAlbumScope(w)
      [] q.route \in {"mediaStatus", "removeMedia"} -> OwnMedia(w)
      [] q.route \in {"uploadAsset", "uploadThumbnail"} -> Uploaded(w)
      [] q.route \in {"thumbnail", "asset"} -> Delivered(q, w)
      [] q.route = "revoke" -> IF w.target # "own" THEN Application("RECIPIENT_NOT_FOUND") ELSE None
      [] q.route \in {"key", "recipient"} -> Revoked(w)
      [] OTHER -> None

Before(q, w) == Parsed(q) %% Validated(q) %% Admitted(q, w)

\* The handlers that charge what they serve.
ChargeBytes == {"metadata", "thumbnail", "asset"}

(* onSend: a byte-budget route that did not charge is not answered. *)
Sent(q) == IF Server[q.route].charges /\ q.route \notin ChargeBytes THEN Fault ELSE None

\* The first query of every use case that is given a path's id has it.
Thrown(q, w) == Before(q, w) %% Decoded(q) %% Unread(q.path) %% Decided(q, w) %% Sent(q)

(* A handler that throws nothing answers; an upload cut short is answered nothing. *)
Answer(q, w) ==
    IF Thrown(q, w).from # "nobody" THEN errorEnvelope(Thrown(q, w))
    ELSE IF w.fault = "cut" THEN NoAnswer
    ELSE Ok

(***************************************************************************)
(* What a token pays: the floor or one request when it is admitted, and    *)
(* the rest of what is served; the sizes are in bytes.                     *)
(***************************************************************************)
BYTE_FLOOR == 16 * 1024

AboveFloor(size) == IF size > BYTE_FLOOR THEN size - BYTE_FLOOR ELSE 0

Cost(q, w) ==
    LET line == Server[q.route]
    IN  IF line.guard = "address" \/ Before(q, w).from # "nobody"
        THEN [requests |-> 0, bytes |-> 0]
        ELSE [requests |-> IF line.charges THEN 0 ELSE 1,
              bytes |-> (IF line.charges THEN BYTE_FLOOR ELSE 0)
                        + (IF q.route \in ChargeBytes /\ Answer(q, w) = Ok
                           THEN AboveFloor(w.size) ELSE 0)]

(***************************************************************************)
(* Bodies of the answers, as the type of each field, and what the clients' *)
(* predicates ask of them.  A row of a list counts as fields of the body.  *)
(***************************************************************************)
Session == [token |-> "token", expires_at |-> "time"]

KdfOut == [kdf_salt |-> "text", kdf_memory_kib |-> "count", kdf_iterations |-> "count",
           kdf_parallelism |-> "count"]

Maybe(w, type) == IF w.nulls THEN "null" ELSE type

statusBody(w) ==
    [id |-> "uuid", album_id |-> "uuid", kind |-> "kind", status |-> "status",
     byte_size |-> Maybe(w, "count"), created_at |-> "time", updated_at |-> "time"]

KeyOut_Mutant(w) ==
    [id |-> "uuid", kind |-> w.kind, wrapped |-> "text", wrap_nonce |-> "text"] @@ KdfOut

\* A qr answer carries no KDF field at all.
KeyOut(w) ==
    LET wrapping == [id |-> "uuid", kind |-> w.kind, wrapped |-> "text", wrap_nonce |-> "text"]
    IN  IF w.kind = "qr" THEN wrapping ELSE wrapping @@ KdfOut

EntryOut(w) ==
    [id |-> "count", recipient_id |-> "uuid", media_id |-> Maybe(w, "uuid"),
     event |-> IF w.nulls THEN "album_opened" ELSE "asset_viewed", occurred_at |-> "time",
     next_before |-> Maybe(w, "count")]

Created == [id |-> "uuid", created_at |-> "time"]

BodyOut(r, w) ==
    CASE r = "signup" -> Created @@ Session
      [] r = "loginParams" -> KdfOut
      [] r = "login" -> Session
      [] r = "ownerKey" -> KdfOut @@ [wrapped_master |-> "text", wrap_nonce |-> "text"]
      [] r = "albums" -> Created @@ [title |-> "text", wrapped_key |-> "text", wrap_nonce |-> "text",
                                     media_count |-> "count"]
      [] r = "album" -> Created @@ [title |-> "text", media_id |-> "uuid", media_kind |-> "kind",
                                    media_status |-> "status", media_created_at |-> "time"]
      [] r = "metadata" -> [media_id |-> "uuid", envelope |-> "text"]
      [] r = "accessLog" -> [recipient_id |-> "uuid", label |-> "text", album_opens |-> "count",
                             media_opened |-> "count", revoked_at |-> Maybe(w, "time"),
                             last_opened_at |-> Maybe(w, "time")]
      [] r = "entries" -> EntryOut(w)
      [] r = "createMedia" -> Created @@ [status |-> "status"]
      [] r \in {"mediaStatus", "uploadAsset", "uploadThumbnail"} -> statusBody(w)
      [] r \in {"createAlbum", "createRecipient"} -> Created
      [] r = "revoke" -> [revoked_at |-> "time"]
      [] r = "key" -> KeyOut(w)
      [] r = "recipient" -> Created @@ [label |-> "text", kind |-> w.kind, album_id |-> "uuid"]
      [] OTHER -> <<>>

String == {"uuid", "time", "token", "text", "kind", "status", "qr", "passphrase", "photo"}

Kinds == {"qr", "passphrase"}

Of(fields, types) == [f \in fields |-> types]

KdfIn == Of(Integral, {"count"}) @@ Of({"kdf_salt"}, String)

StatusIn == Of({"id"}, {"uuid"}) @@ Of({"album_id", "kind"}, String) @@ Of({"status"}, {"status"})
            @@ Of({"byte_size"}, {"null", "count"}) @@ Of({"created_at", "updated_at"}, {"time"})

Accepts(r) ==
    CASE r = "signup" -> Of({"token"}, {"token"}) @@ Of({"expires_at"}, {"time"}) @@ Of({"id"}, String)
      [] r = "login" -> Of({"token"}, {"token"}) @@ Of({"expires_at"}, {"time"})
      [] r = "loginParams" -> KdfIn
      [] r = "ownerKey" -> KdfIn @@ Of({"wrapped_master", "wrap_nonce"}, String)
      [] r = "albums" -> Of({"id"}, {"uuid"}) @@ Of({"media_count"}, {"count"})
                         @@ Of({"title", "created_at", "wrapped_key", "wrap_nonce"}, String)
      [] r = "album" -> Of({"id", "media_id"}, {"uuid"}) @@ Of({"media_status"}, {"status"})
                        @@ Of({"title", "created_at", "media_kind", "media_created_at"}, String)
      [] r = "metadata" -> Of({"media_id"}, {"uuid"}) @@ Of({"envelope"}, String)
      [] r = "accessLog" -> Of({"recipient_id"}, {"uuid"}) @@ Of({"label"}, String)
                            @@ Of({"album_opens", "media_opened"}, {"count"})
                            @@ Of({"revoked_at", "last_opened_at"}, {"time", "null"})
      [] r = "entries" -> Of({"id"}, {"count"}) @@ Of({"recipient_id"}, {"uuid"})
                          @@ Of({"occurred_at"}, {"time"}) @@ Of({"next_before"}, {"null", "count"})
      [] r = "createMedia" -> Of({"id"}, String) @@ Of({"status"}, {"status"}) @@ Of({"created_at"}, {"time"})
      [] r \in {"mediaStatus", "uploadAsset", "uploadThumbnail"} -> StatusIn
      [] r \in {"createAlbum", "createRecipient"} -> Of({"id", "created_at"}, String)
      [] r = "revoke" -> Of({"revoked_at"}, {"time"})
      [] r = "key" -> Of({"id", "wrapped", "wrap_nonce"}, String) @@ Of({"kind"}, Kinds)
      [] r = "recipient" -> Of({"id", "album_id"}, {"uuid"}) @@ Of({"label", "created_at"}, String)
                            @@ Of({"kind"}, Kinds)
      [] OTHER -> <<>>

(* What the predicates ask beyond one field: an event's media, a kind's KDF. *)
Shaped(r, body) ==
    /\ r = "entries" => (body["event"] = "album_opened") = (body["media_id"] = "null")
    /\ r = "key" => IF body["kind"] = "qr" THEN Kdf \cap DOMAIN body = {}
                    ELSE \A f \in Kdf : f \in DOMAIN body /\ body[f] \in KdfIn[f]

isAccepted(r, body) ==
    /\ \A f \in DOMAIN Accepts(r) : f \in DOMAIN body /\ body[f] \in Accepts(r)[f]
    /\ Shaped(r, body)

(***************************************************************************)
(* The clients' calls: the route, how the call is made, and the statuses   *)
(* its caller has a branch for.  "call" waits out a fault and a 429 and    *)
(* ends the session on a 401; a credential's call, and a sign-out, leave   *)
(* all of it to the caller.                                                *)
(***************************************************************************)
Statuses == {Status[c] : c \in Codes}

By(route, made, branches) == [route |-> route, made |-> made, branches |-> branches]

OwnerCalls ==
    LET Owner(route, branches) == By(route, "owner", branches)
    IN  [signup          |-> By("signup", "credential", Statuses),
         loginParams     |-> By("loginParams", "credential", Statuses),
         login           |-> By("login", "credential", Statuses),
         ownerKey        |-> Owner("ownerKey", {}),
         albums          |-> Owner("albums", {}),
         createAlbum     |-> Owner("createAlbum", Statuses),
         album           |-> Owner("album", {404}),
         metadata        |-> Owner("metadata", {404}),
         readyMetadata   |-> Owner("metadata", {}),
         mediaStatus     |-> Owner("mediaStatus", {404}),
         thumbnail       |-> Owner("thumbnail", Statuses),
         asset           |-> Owner("asset", Statuses),
         createMedia     |-> Owner("createMedia", Statuses),
         uploadAsset     |-> Owner("uploadAsset", Statuses),
         uploadThumbnail |-> Owner("uploadThumbnail", Statuses),
         removeMedia     |-> Owner("removeMedia", {404}),
         accessLog       |-> Owner("accessLog", {404}),
         entries         |-> Owner("entries", {404}),
         createRecipient |-> Owner("createRecipient", Statuses),
         revoke          |-> Owner("revoke", Statuses),
         logout          |-> By("logout", "signing out", Statuses),
         logoutAll       |-> By("logoutAll", "signing out", Statuses)]

RecipientCalls ==
    LET Mine(route, branches) == By(route, "recipient", branches)
    IN  [myKey           |-> Mine("key", {}),
         myRow           |-> Mine("recipient", {}),
         myAlbum         |-> Mine("album", {404}),
         myMetadata      |-> Mine("metadata", {404}),
         myThumbnail     |-> Mine("thumbnail", Statuses),
         myAsset         |-> Mine("asset", Statuses)]

Calls ==
    [c \in DOMAIN OwnerCalls \cup DOMAIN RecipientCalls |->
        IF c \in DOMAIN OwnerCalls THEN OwnerCalls[c] ELSE RecipientCalls[c]]

(* toFailure, then call's branches in their order, then the caller's. *)
Meaning(c, q, w, a) ==
    LET made  == Calls[c].made
        waits == made \in {"owner", "recipient"}
    IN  IF a = NoAnswer THEN IF waits \/ (made = "credential" /\ c # "signup") THEN "waits" ELSE "told"
        ELSE IF a = Ok THEN IF isAccepted(q.route, BodyOut(q.route, w)) THEN "done" ELSE "unexpected"
        ELSE IF waits /\ (Status[a] >= 500 \/ Status[a] = 429) THEN "waits"
        ELSE IF waits /\ Status[a] = 401 THEN "ends"
        ELSE IF made = "recipient" /\ Status[a] = 403 /\ a = "ACCESS_REVOKED" THEN "ends"
        ELSE IF Status[a] \in Calls[c].branches THEN "told"
        ELSE "unforeseen"

(***************************************************************************)
(* What the clients build: the lengths their own limits let through.       *)
(***************************************************************************)
TITLE_MAX_CODE_POINTS == 200
LABEL_MAX_CODE_POINTS == 60
META_MAX_PLAINTEXT == 4096 - 64 - 16
CHUNK_SIZE == 262144

\* A sealed text: a nonce, the UTF-8 of up to four bytes a code point, a tag.
Sealed(plain) == 24 + plain + 16

\* A one-chunk object: header, plaintext, tag.
Enveloped(plain) == 64 + plain + 16

(* Plaintexts at the clients' own limits. *)
Lengths(c) ==
    CASE c = "createAlbum" -> {Sealed(1), Sealed(4 * TITLE_MAX_CODE_POINTS)}
      [] c = "createRecipient" -> {Sealed(1), Sealed(4 * LABEL_MAX_CODE_POINTS)}
      [] c = "createMedia" -> {Enveloped(1), Enveloped(META_MAX_PLAINTEXT)}
      [] c = "uploadThumbnail" -> {Enveloped(1), Enveloped(CHUNK_SIZE)}
      [] c = "uploadAsset" -> {Enveloped(1), 4 * 1024 * 1024}
      [] OTHER -> {0}

Encodes(r, n) ==
    [f \in BinaryFields(r) |-> Encoded(IF f \in {"title", "label", "metadata"} THEN n ELSE Binary[r][f].bytes[1])]

Without(body, fields) == [f \in DOMAIN body \ fields |-> body[f]]

(* The bodies of the clients' API, at a length, for an address and a kind. *)
BodyIn(c, n, email, kind) ==
    LET r == Calls[c].route
    IN  CASE c = "signup" -> Encodes(r, n) @@ [f \in Integral |-> "v1"] @@ [email |-> email]
          [] c \in {"login", "loginParams"} -> Encodes(r, n) @@ [email |-> email]
          [] c = "createAlbum" -> Encodes(r, n) @@ [id |-> "uuid"]
          [] c = "createMedia" -> Encodes(r, n) @@ [id |-> "uuid", kind |-> "photo"]
          [] c = "createRecipient" ->
                 Without(Encodes(r, n) @@ [f \in Integral |-> "v1"], IF kind = "qr" THEN Kdf ELSE {})
                 @@ [id |-> "uuid", kind |-> kind]
          [] OTHER -> <<>>

(* request: JSON and octets bring their Content-Type, no body brings none. *)
Built(c) ==
    LET r == Calls[c].route
        framing == [json |-> "json", stream |-> "octets", empty |-> "none", get |-> "none"]
    IN  {[route |-> r, framing |-> framing[Server[r].takes], path |-> "uuid",
          body |-> BodyIn(c, n, email, kind), length |-> n, range |-> IF r = "asset" THEN "whole" ELSE "none",
          query |-> [before |-> before, limit |-> 100, filter |-> filter]] :
             n \in Lengths(c),
             email \in IF Server[r].guard = "address" THEN {"typed", "blank", "nul", "long"} ELSE {"typed"},
             kind \in IF c = "createRecipient" THEN Kinds ELSE {"qr"},
             before \in IF c = "entries" THEN {1, 2} ELSE {1},
             filter \in IF c = "entries" THEN {"none", "uuid"} ELSE {"none"}}

(***************************************************************************)
(* What anyone may send: a client's request with one thing wrong in it.    *)
(***************************************************************************)
Framings == {"none", "bare", "json", "json, no body", "octets", "text", "long"}

\* A binary field one character off its bounds, spelt in every way.
Misspelt(r, f) ==
    LET chars == Binary[r][f].chars
    IN  [chars : {chars[1] - 1, chars[1], chars[2], chars[2] + 1}, spelling : Spelling]

Wrong(r, f) ==
    CASE f \in BinaryFields(r) -> Misspelt(r, f)
      [] f = "email" -> {"blank", "nul", "long"}
      [] f = "id" -> {"malformed", "urn"}
      [] f = "kind" -> Kinds \cup {"photo"}
      [] OTHER -> Integers_

WrongBodies(r, body) ==
    {Without(body, {f}) : f \in DOMAIN body}
        \cup UNION {{[body EXCEPT ![f] = v] : v \in Wrong(r, f)} : f \in DOMAIN body}
        \cup (IF r = "createRecipient"
              THEN {body @@ [f \in {g} |-> IF g = "kdf_salt" THEN Encoded(16) ELSE "v1"] : g \in Kdf}
              ELSE {})

Limit(r) == IF r = "uploadAsset" THEN ASSET_MAX_BYTES ELSE THUMBNAIL_MAX_BYTES

Perturbed(q) ==
    LET r == q.route
        takes == Server[r].takes
    IN  {q}
        \cup (IF takes = "get" THEN {} ELSE {[q EXCEPT !.framing = f] : f \in Framings})
        \cup (IF Server[r].names = "nothing" THEN {} ELSE {[q EXCEPT !.path = p] : p \in {"malformed", "urn"}})
        \cup (IF takes = "json" THEN {[q EXCEPT !.body = b] : b \in WrongBodies(r, q.body)} ELSE {})
        \cup (IF takes = "stream"
              THEN {[q EXCEPT !.length = n] :
                       n \in {Absent, Other, 0, ENVELOPE_MIN_BYTES - 1, Limit(r), Limit(r) + 1}}
                   \cup {[q EXCEPT !.framing = "none", !.length = n] : n \in {Absent, 0}}
              ELSE {})
        \cup (IF r = "asset" THEN {[q EXCEPT !.range = g] : g \in {"none", "past the end"}} ELSE {})
        \cup (IF r = "entries"
              THEN {[q EXCEPT !.query = e] : e \in [before : 0 .. 1, limit : {0, 1, 500, 501},
                                                     filter : {"none", "uuid", "urn", "malformed"}]}
              ELSE {})

(***************************************************************************)
(* What the server may have to say about a request: who is asking, whose   *)
(* the thing in the path is, how far it got, and what fails on the way.    *)
(***************************************************************************)
Faults(r) ==
    {"none", "database"}
        \cup (IF r \in {"thumbnail", "asset"} THEN {"missing", "removed", "store"} ELSE {})
        \cup (IF Server[r].takes = "stream" THEN {"removed", "cut"} ELSE {})

Tokens(c, guard) ==
    IF guard = "address" THEN {"unknown"}
    ELSE IF c = Anyone THEN {"malformed", "unknown", "owner", "recipient", "revoked"}
    ELSE IF Calls[c].made = "recipient" THEN {"unknown", "recipient", "revoked"}
    ELSE {"unknown", "owner"}

Targets(c, names) ==
    IF names = "nothing" THEN {"own"}
    ELSE IF c = Anyone THEN {"own", "foreign", "absent"}
    ELSE IF names = "media" THEN {"own", "absent"}
    ELSE {"own"}

Worlds(c, r) ==
    LET line == Server[r]
        If(test, set, one) == IF test THEN set ELSE {one}
        address == line.guard = "address"
    IN  [token : Tokens(c, line.guard), spent : BOOLEAN, target : Targets(c, line.names),
         status : If(line.names = "media", {"processing", "ready", "failed"}, "ready"),
         taken : If(line.makes /\ ~address, BOOLEAN, FALSE),
         account : If(address, {"uninvited", "none", "known"}, "none"),
         proof : If(r = "login", BOOLEAN, TRUE), fault : Faults(r),
         size : If(r \in ChargeBytes, {0, BYTE_FLOOR, BYTE_FLOOR + 1, 4 * BYTE_FLOOR}, 0),
         kind : If(r \in {"key", "recipient"}, Kinds, "qr"),
         nulls : If(r \in {"accessLog", "entries", "mediaStatus"}, BOOLEAN, FALSE),
         lost : BOOLEAN]

(* What a handled request leaves behind. *)
Effect(q, w) ==
    LET done == Answer(q, w) \in {Ok, NoAnswer}
        next == IF ~done THEN w
                ELSE CASE q.route = "removeMedia" -> [w EXCEPT !.target = "absent"]
                       [] q.route \in {"logout", "logoutAll"} -> [w EXCEPT !.token = "unknown"]
                       [] q.route = "signup" -> [w EXCEPT !.account = "known"]
                       [] Server[q.route].takes = "stream" ->
                              [w EXCEPT !.status = IF w.fault = "cut" THEN "failed" ELSE "ready"]
                       [] OTHER -> [w EXCEPT !.taken = Server[q.route].makes]
    IN  [next EXCEPT !.fault = "none", !.spent = FALSE, !.lost = FALSE]

(***************************************************************************)
(* Behaviour: a request is sent, served, understood; a call that waits is  *)
(* sent again once what held it up has passed.                             *)
(***************************************************************************)
Free == [requests |-> 0, bytes |-> 0]

ContractInit ==
    /\ \/ \E c \in DOMAIN Calls :
              /\ call = c
              /\ request \in Built(c)
              /\ world \in Worlds(c, request.route)
       \/ /\ call = Anyone
          /\ \E c \in DOMAIN Calls : \E q \in Built(c) : request \in Perturbed(q)
          /\ world \in {w \in Worlds(Anyone, request.route) : ~w.lost}
    /\ answer = Unset /\ meaning = Unset
    /\ paid = Free
    /\ tries = 1

Answered ==
    /\ answer = Unset
    /\ answer' = IF world.lost THEN NoAnswer ELSE Answer(request, world)
    /\ paid' = Cost(request, world)
    /\ UNCHANGED <<call, request, world, meaning, tries>>

Understand ==
    /\ call # Anyone /\ answer # Unset /\ meaning = Unset
    /\ meaning' = Meaning(call, request, world, answer)
    /\ UNCHANGED <<call, request, world, answer, paid, tries>>

SendAgain ==
    /\ meaning = "waits" /\ tries < MaxTries
    /\ tries' = tries + 1
    /\ world' = Effect(request, world)
    /\ answer' = Unset /\ meaning' = Unset /\ paid' = Free
    /\ UNCHANGED <<call, request>>

ContractNext == Answered \/ Understand \/ SendAgain

ContractSpec == ContractInit /\ [][ContractNext]_contractVars

(***************************************************************************)
(* Properties                                                              *)
(***************************************************************************)
ContractTypeOK ==
    /\ call \in DOMAIN Calls \cup {Anyone}
    /\ request.route \in Routes /\ DOMAIN request.body \subseteq STRING
    /\ answer \in Codes \cup {Ok, NoAnswer, Unset}
    /\ meaning \in {Unset, "done", "waits", "ends", "told", "unexpected", "unforeseen"}
    /\ paid \in [requests : {0, 1}, bytes : Nat]
    /\ tries \in 1 .. MaxTries

\* Refusals that only a request no client should build can meet.
FormRefusals ==
    {"VALIDATION_FAILED", "LENGTH_REQUIRED", "PAYLOAD_TOO_LARGE", "UNSUPPORTED_MEDIA_TYPE",
     "RANGE_NOT_SATISFIABLE"}

\* What Postgres has to read of a request.
Ids(q) == {q.path, q.query.filter}
          \cup (IF Server[q.route].takes = "json" /\ "id" \in DOMAIN q.body THEN {q.body["id"]} ELSE {})

(* What the clients build, with the lengths their own limits allow, is never    *)
(* refused for its form (but for a user name: its rule is the server's), what   *)
(* the server answers passes the predicate of the call that asked, and every    *)
(* refusal has a branch in the caller: no call of api.ts ends in the error its  *)
(* caller throws for an answer it did not foresee, repeats included.  And an    *)
(* answer of INTERNAL is the database's, the store's, a ready row's without its *)
(* object, or of the three forms that pass the schemas and that Postgres does   *)
(* not take: the KDF integer of a sign-up beyond its column, an address with a  *)
(* NUL where one signs in, an id with its urn. No other form, right or wrong,   *)
(* brings it about (error-envelope.ts, schemas/).                               *)
RequestsAreUnderstood ==
    LET q == request
    IN  /\ call # Anyone =>
              /\ meaning \notin {"unexpected", "unforeseen"}
              /\ answer \in FormRefusals => Server[q.route].guard = "address"
        /\ answer = "INTERNAL" =>
              \/ world.fault \in {"database", "missing", "store"}
              \/ q.route = "signup" /\ \E f \in Integral : q.body[f] = "over"
              \/ q.route \in {"login", "loginParams"} /\ q.body["email"] = "nul"
              \/ "urn" \in Ids(q)

(* Answers and costs tell nobody what they are not entitled to: another's album *)
(* or photograph from one that does not exist, nor that a grant is revoked      *)
(* outside its own album; anything at all behind a token that is not one or a   *)
(* budget that is spent; whether an address has an account, from its parameters *)
(* or a wrong proof (resolve-album-scope.ts, login.ts, login-params.ts).        *)
OnlyTheEntitledLearn ==
    LET q == request
        Same(w) == Answer(q, w) = Answer(q, world) /\ Cost(q, w) = Cost(q, world)
        targets == Targets(Anyone, Server[q.route].names)
    IN  answer \notin {Unset, NoAnswer} /\ world.fault = "none" =>
            /\ world.target = "foreign" => Same([world EXCEPT !.target = "absent"])
            /\ world.target \in {"foreign", "absent"} /\ world.token = "revoked" =>
                   Same([world EXCEPT !.token = "recipient"])
            /\ answer \in {"UNAUTHENTICATED", "RATE_LIMITED"} =>
                   \A t \in targets, s \in {"processing", "ready"}, taken \in BOOLEAN,
                      account \in {"none", "known"} :
                       Same([world EXCEPT !.target = t, !.status = s, !.taken = taken, !.account = account])
            /\ q.route = "loginParams" \/ (q.route = "login" /\ ~world.proof) =>
                   \A account \in {"uninvited", "none", "known"} : Same([world EXCEPT !.account = account])

(* Nobody gets more bytes than the token paid, nobody pays for a request that   *)
(* was refused before its budget was asked, and no other answer is free.        *)
EveryByteIsPaid ==
    answer \notin {Unset, NoAnswer} /\ Server[request.route].guard # "address" =>
        /\ answer = Ok => world.size <= paid.bytes
        /\ answer \in {"UNAUTHENTICATED", "RATE_LIMITED", "UNSUPPORTED_MEDIA_TYPE"} => paid = Free
        /\ answer \in {Ok, "NOT_FOUND", "CONFLICT", "ACCESS_REVOKED", "RANGE_NOT_SATISFIABLE"} => paid # Free
=============================================================================
