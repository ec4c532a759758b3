# Vitrina in TLA+

Vitrina is a relay for photographs: an owner's browser encrypts them and PUTs
the ciphertext, a server keeps rows in Postgres and objects in an S3 store,
and invited recipients fetch and decrypt in their browsers. This directory
holds specifications of its parts, small instances for TLC, and proofs for
TLAPS.

    tlc -workers 2 -config MediaSafety.cfg MCMediaLifecycle.tla
    tlapm MediaLifecycle_proofs.tla

`PROJECT.json` lists the runs, the properties each checks, the source lines of
every definition, a wrong version of the code for every property (the operators
named `*_Mutant`, none of which a specification uses) that the property
notices, the hazards of the code and the theorems.

## Inventory

Paths are under `src/packages/server/src` unless they begin with `web`
(`src/packages/web/src/lib`) or `src`.

| Component | State | Operations | What is hard | What makes it correct | Module |
|---|---|---|---|---|---|
| Media lifecycle: `use-cases/{create-media,upload-media-object,remove-media}.ts`, `erase-hidden-media.ts`, `media-repository.ts`, `s3/object-store.ts` | one row (`status`, `removed_at`, `uploads_in_flight`, `byte_size`), two objects | POST media, PUT asset and thumbnail, DELETE, the last upload out erases | every await interleaves with every other request; statements whose answer is lost; PUTs that die with the process; a store that lags or lies | the count is exact; nothing is erased under an upload; no ciphertext outlives its row; `ready` needs both objects; a removal finishes | `MediaLifecycle` |
| Rate limiting: `sliding-window.ts`, `token-limiter.ts`, `rate-limit.ts` | per key, a list of costs in a window | admit, top up, refuse with Retry-After, sweep | requests of a key overlap between admission and top-up; the wall clock; the sweep runs in somebody else's request | Retry-After is enough; the overdraft is bounded; pruning and sweeping change no answer | `SlidingWindow` |
| HTTP: `http/{server,error-envelope}.ts`, `http/schemas`, `http/routes`, `http/auth`, the use cases' answers; `web/api`, `web/{owner,recipient}/api.ts`; `src/packages/shared` | none | validate, authenticate, charge, answer; decode the answer | the first stage that throws decides; schema, decoder and client predicates are written apart; a repeat meets its own effect | what clients build is never refused for its form; nobody learns or gets what they are not entitled to | `Contract`, `Encoding` |
| Delivery and access log: `get-media-{asset,thumbnail}.ts`, `get-album-metadata.ts`, `get-access-log-*.ts`, `access-log-repository.ts` | access-log rows | authenticate, read row, read object, log, answer; page through the log | a removal or a revocation between two awaits; log writes that fail; ids drawn before commit | a removal is a 404, never a 500; the log holds the opens, and a screen the log of what it names | `Sharing` |
| Recipients and grants: `create-recipient.ts`, `revoke-recipient.ts`, `authenticate-recipient.ts` | recipient rows, `revoked_at` | invite, revoke, authenticate | a grant is read once and used until the request ends | a recipient nobody holds a link for is revoked or accounted for | `Sharing` |
| Owner accounts and sessions: `signup.ts`, `login.ts`, `mint-session.ts`, `logout*.ts` | owners, sessions | signup, login, authenticate, logout, logout-all | a login that verified its password before logout-all mints after it; signup commits and the session does not | a session said to be over stays over | `OwnerSession`, `Contract` |
| Albums: `create-album.ts`, `list-albums.ts` | album rows | INSERT, SELECT | a repeated INSERT | as part of the session's and the contract's | `OwnerSession`, `Contract` |
| Owner's client, session: `web/owner/session.ts` | epoch, key handles, tokens, the screen and its children | sign up, sign in, unlock, sign out, `call`, the walk between list, album, invite and people | every operation wakes in an epoch that may be over, and a child's in a session that has gone on | a stale operation writes nothing and frees what it holds; the screen is the open child's | `OwnerSession`, `OwnerScreens` |
| Owner's client, album: `web/owner/album.ts`, `prepare.ts`, `jpeg-*.ts`, `imaging.ts` | items, their upload and removal state | choose, review, prepare, upload, resend, poll, view, remove | answers lost, 409 and 404 on a resend, removal while uploading; what a browser's encoder writes | the list says what became of the row; bytes and pictures are released; nothing but an image leaves the device | `OwnerAlbum`, `Prepare` |
| Owner's client, invites and people: `web/owner/{invite,people}.ts` | the invite's step, the list, the log | create, show, revoke, page | a conflict with a row the client made itself; answers for a view that is closed | as delivery's and the recipients' | `Sharing`, `OwnerScreens` |
| Recipient's client: `web/recipient/{session,gestures,render}.ts`, `Viewer.svelte` | screen, key, pictures, workers, viewer; zoom and pan | open invite, derive, list, fetch, decode, retry, end; zoom, pan, pinch, tap | a worker, a viewer and a derivation under way when a terminal screen comes or the page is left; fingers, buttons and a turned stage in any order | nothing is kept after the end; every picture closed by its last holder; what waits is resumed; the photograph does not jump | `RecipientClient`, `Gestures` |
| Envelope and keys: `src/crates/envelope`, `web/keys` | handles in the WASM instance | make, wrap, open keys; seal and open chunks | a failure or a trap between any two calls; numeric edges; chunks of another object | handles are exact; a key opens what it wrapped; an object opens only as it was written | `Keys`, `Envelope`, `Layout` |
| Boot and shutdown: `index.ts`, `config.ts`, `composition-root.ts`, `shutdown.ts` | listener, pool, store client | check, listen, close in order, under a deadline | an upload still in its `finally` needs the pool | no connected call loses its pool | `Operations` |
| Migration runner: `src/packages/server/scripts/migrate.mjs` | the recorded versions, the schema | lock, plan, apply, record | the runner dies between applying and recording; two runners | what serves finds its schema | `Operations` |
| Deployment and backups: `src/deploy` | the `current` links, dumps, a restored database | release, roll back, dump, prune, recover, hide rows whose objects are gone | a script dies at any line; a dump older than an erasure | retention keeps the last good copies; a restored album points at objects that are there | `Operations` |
| User interface, copy, word lists; tests and tools | layout and wording | | | | not modelled |

Components interact through four things: the Postgres rows (shared by every
request, no transaction but signup's spans two statements), the object store
(one key per row and variant, written by PUTs, erased by DELETEs), the status
codes the clients act on, and the limiter, which every authenticated route
passes before its handler. In a client a session owns its children (album,
invite, people), hands each the album's key and its `call`, and closes one
before it opens another.

The hazards these give rise to are in `PROJECT.json`, each at its line, with
the properties that would notice. Two have none: a rejected PUT that lands
afterwards (`object-store.ts:97`), which the port's contract excludes and the
theorems take as a hypothesis; and log entries committed behind a page already
read (`access-log-repository.ts:84`), which the code accepts. A request that
goes on under a grant revoked meanwhile (`either.ts:65`) is served by design;
`LogIsTrue` has it logged under who asked.

## Modules

### MediaLifecycle, MediaPromise

One media row with its two objects, and all requests about it. One row is
enough because two rows share no state. `Uploads` are clients that PUT, one
PUT at a time each and any number one after the other, of either variant;
`Removals` are DELETEs.

State: `place`, `status`, `inflight` and `byteSize` are the row (`place` is
`live` while `removed_at` is null, `hidden` after, `gone` once deleted);
`store` has the object under each key with its length and whether that is what
the server counted; `pc`, `job` and `era` are the local state of the request
handlers; `late` is what the store may still write for a PUT nobody awaits.

| Action | Code |
|---|---|
| `Create` | `createMedia` |
| `Lookup` | the handler's `findById` and owner check, 404 |
| `Begin`, `Recheck` | the two statements of `beginUpload`: the UPDATE that counts, the SELECT that tells 404 from 409 |
| `StoreTakes`, `PutResolves`, `PutRejects` | `objectStore.put`: the store acts, then answers |
| `HeadWritten`, `HeadOther` | the two confirming HEADs and the ladder of `uploadMediaObject` |
| `MarkFailed`, `MarkReady`, `Reread` | the UPDATEs and the re-read every branch ends with |
| `EndUpload` | the `finally`: uncount, and erase when last out of a hidden row |
| `UploadDbError` | any of these statements rejecting, committed or not, caught where the code catches it; a re-read that fails is read once more by the catch or ends the request, whichever read it was |
| `Hide`, `Repeat` | `removeMedia`'s UPDATE, for a first DELETE and for one the screen sends again after 202 or no answer |
| `RemoveObject`, `HeadObject`, `ErasureUnreachable`, `EraseRow`, `EraseRowError` | `eraseHiddenMedia`: two DELETEs at once, rounds of two HEADs at once, then the guarded DELETE of the row |
| `LateLanding`, `Crash` | the store carrying out a PUT after its answer, the process dying |

Every action is one statement or one call answered, so requests interleave at
exactly the awaits of the code. Faults are of ten kinds, described in the
module; `Faults` and `MaxFaults` say which may happen and how often. A crash
takes all requests with it and leaves their counts: that is what the code does
(nothing repairs `uploads_in_flight` at boot), so a row with a lost count is
never erased, and `CountExact` counts the lost ones.

`MediaPromise` is what a row and its objects promise to anybody who does not
run the requests: `shown` (the status, hidden, gone) and `kept` (which objects
exist). Ready is entered with both objects only, hidden is never left but for
gone, gone is entered with nothing stored and nothing is stored afterwards.
`MediaLifecycle!KeepsPromise` is the refinement.

### SlidingWindow, RollingBudget

The window behind all three limits (address, requests per token, bytes per
token), with the requests that spend from it. The limiter runs without
awaiting, so `admit` and `charge` are one step each, and what interleaves is
admissions and top-ups of different requests, and the clock.

| Action | Code |
|---|---|
| `Admit`, `Refuse` | `admit` with its two outcomes, as `token-limiter.ts` and `rate-limit.ts` call it. A refusal keeps the pruned list and says when to come back |
| `Serve` | `chargeBytes`, then the answer: what is served above `Floor` is recorded, nothing is if it is not above |
| `AnswerUncharged` | a request that ends without a top-up: an error, or a route of the other two limits (for which `Floor` is 1) |
| `Tick`, `StepBack` | `Date.now()`, which may step back |

`spent[k][t]` is the cost key `k` recorded at instant `t`: the code's list,
with the entries of one instant added up, since they expire together and the
code sorts before it walks. `Record` includes the sweep. `told` remembers what
the last Retry-After of a key promised, until the key spends again. The
`throw` behind "unreachable" in `retryAfterSeconds` is not an outcome:
`makeSlidingWindow` refuses a `maxAdmitCost` above `max` (`LimitAssumption`),
and the last expiry leaves nothing, so some expiry makes room.

`RollingBudget` is the limit without its lists: a window that holds exactly the
unexpired costs. A clock set back may bring back any part of what had expired.
`SlidingWindow!AnswersAsRolling` is the refinement.

### Contract, Encoding

What relay and clients say to each other: a table of routes (who may call, what
the body is, whose id is in the path, what is charged), the schemas as bounds,
and a request passed through the server's stages in their order: framing,
schema, authentication, budget, scope, the use case's own answer, the error
envelope. `Meaning` is what the calling client makes of that answer.

| Action | Code |
|---|---|
| `ContractInit` | a call of a client's API, or one of its requests with one thing wrong (a field absent, out of its bounds or mistyped; a length, a type, a range, a query), and what the server has to say of it |
| `Answered` | the stages of `server.ts`, `error-envelope.ts` and the use cases |
| `Understand` | the client's decoding of the answer and the caller's branches |
| `SendAgain` | the repeat, which meets what the first attempt left |

A body without a Content-Type is `framing = "bare"`, and so is an upload
without one and with a length: no parser takes it, and it is a 415.

`Encoding` has the base64url boundary as lengths and spellings. Left out:
CORS, headers but four, wording; a status read after an upload's 409 (in
`OwnerAlbum`); the log's failing INSERT (in `Sharing`); unknown paths. The
client trims an address with JavaScript's idea of white space and the server
with Unicode's, so that a blank one can reach the server and be refused there.

Three forms of a request pass the schemas and are answered 500, because
Postgres has the last word (`Unread`): a sign-up's KDF integers, which have no
ceiling in the schema (`fragments.ts:44-48`) where a recipient's have one
(`recipients.ts:15-17`); an address with a NUL at a sign-in or its parameters
(`credentials.ts:18`), where a sign-up refuses it as not invited; and an id
written with its urn, which the format "uuid" admits and Postgres does not
read. `RequestsAreUnderstood` names the three and says there is no fourth.

### OwnerSession

The object behind the owner's page, with the accounts and tokens its requests
reach. One task runs at a time; `bumpEpoch` makes it stale, and a stale task
that still matters is in `stray`, where it wakes when its request is answered
or its derivation over. A request and its answer are apart, so a page may be
gone when the server handles what it asked.

| Action | Code |
|---|---|
| `Open`, `Leave` | `start`, `dispose`; a reload keeps the stored token and loses everything else |
| `Serve`, `ServeStray`, `Fails`, `EndsElsewhere` | the server's handlers in their steps (a login verifies, then mints), failures, another device |
| `WaitsOnline`, `RetryOffline`, `PolicyUnavailable`, `PauseEnds` | `call`, `guarded`, `retryOffline`, the chunk of the blocklist, a credential form's Retry-After |
| `SubmitUnlock` .. `RetryUnlock`, `SubmitSignin` .. `CannotUnlock`, `SubmitSignup` .. `SignedUp` | unlock, sign-in and sign-up, cut at their awaits |
| `AlbumsListed`, `CreateAlbum`, `AlbumCreated` | `enterAlbums`, `createAlbum` |
| `Logout`, `LoggedOut`, `LogoutFailed`, `LeaveAfterPartial` | both sign-outs: keys first, then the server |
| `SessionEnded`, `DeviceFails`, `StrayEnds` | a 401, a trap, the end of a stale task |

`handles` counts WASM handles made and not freed, a number the code does not
keep. A 429 outside the credential routes is a request still asking. Left out:
the expiry warning and titles.

### OwnerScreens

What an owner with an open session walks through: the list, an album, its
invite form, its people, their log. `open` has the numbers of the children that
are open, `asked` the requests (and loads and derivations) under way, those of
closed children included while their answers can still do something. What a
child does inside is `OwnerAlbum` and `Sharing`; here it is as much as decides
who may leave and what a late answer does.

| Action | Code |
|---|---|
| `OpenAlbum`, `LeaveAlbum`, `LeaveAlbumFor`, `LeaveAnyway`, `StayInAlbum` | `openAlbum`, `leaveAlbum`, `openInvite`, `openPeople` and the question between |
| `OverAlbum` | the viewer, the review, a removal's question and the removal |
| `ChooseMode`, `WordsLoaded`, `CreateInvite`, `Derived`, `InviteAnswered`, `AskLeaveInvite`, `LeaveInvite` | `InviteFlow` |
| `AskRevoke`, `Revoked`, `PeopleLoaded`, `OpenLog`, `MoreLog`, `PageRead`, `CloseLog`, `LeavePeople` | `AlbumPeople` |
| `AlbumIsGone`, `ThrowsOn`, `AnswerFails`, `RetryScreens` | a 404 of an album, `call`, `subGuarded` |
| `SessionOver`, `SignsInAgain` | `toSignin`, `deviceFailed`, a sign-out; a sign-in to the same object |

`wish` and `astray` are what the properties compare with: where the owner last
asked to go, and whether an album was closed under an open question. Requests
of a closed album are dropped: they could only raise the offline notice.

### OwnerAlbum, Prepare

`OwnerAlbum` is the open album over the rows the server keeps, with another
device that finishes or removes photographs. A request and its answer are one
step, unless something is read, awaited and used.

| Action | Code |
|---|---|
| `Load`, `RefreshStatus`, `MetadataRead`, `ThumbLoaded`, `RetryThumb` | `load`, `refreshStatus`, `becameReady`, `loadThumb` |
| `Choose`, `ReadDone`, `PreviewStarts`, `PreviewDone`, `Unpick`, `CancelReview`, `SendReview` | the review and its cap on bytes |
| `PumpTakes`, `DecodeStarts`, `DecodeDone`, `Post`, `Put`, `Ask`, `Poll`, `SendStops`, `SendEnds`, `Resend`, `Dismiss` | `pump`, `one`, `send`, `poll` |
| `OpenViewer`, `ViewLoaded`, `CloseViewer` | the viewer and its generations |
| `AskRemove`, `StatusRead`, `LogRead`, `ConfirmRemove`, `Removed`, `EraseRetry` | removal, its statement, `retryErasure` |
| `LeaveAlbum`, `Stay`, `LeaveAnyway`, `AlbumGone`, `ClosedOutside` | the ways out, `dispose` |

`Prepare` is `prepare.ts` for one photograph: three ways to decode, two JPEGs
drawn and encoded, the filter, and the scan that confirms it by the bytes. A
JPEG is a sequence of pieces; the encoder may write any short one. Left out:
qualities, captions, and readings that throw between encoding and scan.

### Sharing

One album shared: recipients' rows, invites, revocation, what the relay serves,
the log, and the owner's three screens over them.

| Action | Code |
|---|---|
| `Authenticate`, `Scope`, `Get`, `ReadAgain`, `Draws`, `Record` | a recipient's request: grant, row, object, the second reading of the row, the log's id and its INSERT |
| `Hide`, `DeleteObjects`, `Erase` | a removal overtaking it |
| `OpenInvite`, `Draw`, `Create`, `Insert`, `PostArrives`, `PostLost`, `Created`, `Conflict`, `TooManyConflicts`, `CreateRefused`, `LeaveInvite`, `InviteCut`, `LateLands` | `InviteFlow.attempts`, and its POST on the way |
| `OpenPeople` .. `LeavePeople`, `RevokeRow`, `RevokedElsewhere` | `AlbumPeople`'s list and revocation |
| `OpenLog`, `Ask`, `Page`, `PageRead`, `MoreLog`, `CloseLog` | the log's pages and its views |

The kind "album" stands for every read that is neither of a photograph nor
logged. Left out: a revocation's 404, the log's thumbnails.

### RecipientClient

`RecipientSession`, the object behind an invited recipient's page. JavaScript
runs one piece of it at a time, and the pieces are cut at the awaits: a
request, two frames before a derivation, the decoding of an image. Every
request goes through `call`, so `call[c]` says what each is at, for the task
of the screen (`Main`), the two calls the grid waits for, the loader of each
thumbnail, each opening of the viewer, and calls whose task failed while they
ran (`Stray`).

| Action | Code |
|---|---|
| `Unreachable`, `Denied`, `ThrowsHalted` | what `call` does with any request: wait for a retry, end on 403 or 401, stop in a session that is over |
| `Unforeseen`, `RetryOffline` | `guarded` and `retryOffline`: a task that failed runs again, whole, with the waiting calls |
| `Start`, `KeyRefused`, `InviteOpens`, `MaterialArrives` | `start`, `openInvite`, `fetchKeyMaterial` |
| `Submit`, `Derive`, `DeriveFails`, `DerivesForNobody` | `submitPassphrase` and its derivation, which leaving the page does not stop |
| `RecipientArrives`, `RecipientRefused` | `enterOnboarding` |
| `EnterGrid`, `AlbumAnswers`, `StrayAnswers` | `enterGrid`, `loadGrid` and its `Promise.all`, with the start of the workers |
| `ThumbArrives`, `ThumbFails`, `ThumbDecodes`, `RetryThumb` | `loadThumb`, the workers' loop, `retryThumb` |
| `OpenViewer`, `CloseViewer`, `AssetArrives`, `AssetFails`, `AssetDecodes` | the viewer, `loadAsset` with its generations |
| `Terminal`, `Trap` (in the actions), `Dispose` | `terminal`, the poison listener, `dispose` |

`handles` counts the `K_album` handles made and not freed, and `open` the
pictures decoded and not closed; the code has no such counters, they are what
the properties compare with what the session still refers to (`holds`, the
cells, the viewer). A continuation that runs in the same turn as the answer it
waited for (the join of the grid's calls, the unwrap of a QR key) is one step
with it. A 429 leaves its call asking. Left out: text, drawing, and
`relocalise`, which rewrites text; `gridEntered`, which repeats what the
screen says.

### Gestures

The viewer of both clients: one photograph on its stage, `view` (its zoom and
how far it is off centre), and what moves it. `start` is the view and the
pointers' places when one of them last landed or was lifted; every move is
computed from it, not from the view before the move.

| Action | Code |
|---|---|
| `PointerDown`, `PointerMove`, `PointerUp`, `PointerCancel` | `down`, `move`, `up`, `cancel` of `Gestures`: a drag, a pinch, a tap, a double tap |
| `Zoom`, `Pan`, `Fit` | the buttons of `Viewer.svelte` over `zoomBy`, `panBy` |
| `Shown`, `Replaced` | the effect that fits a new photograph and forgets the gesture; it reads the photograph out of the page's state and so runs whenever that is replaced |
| `Measure` | the stage's `ResizeObserver` |

`steered` and `turned` are what the property leaves out: a view moved by a
button or a turn since `start`, and a stage that changed with no move since.
Pointers keep to a diagonal and floating point is rounded down. Left out:
drawing, and where the watermark goes.

### Layout, Envelope, Keys

`Layout` is the arithmetic of chunks, for any header, tag and chunk length.
`Envelope` is the encrypted object and the wrapped key under an ideal cipher: a
ciphertext opens whole under the key, nonce and associated data it was made
with, or not at all. `Keys` has the functions of `web/keys` as programs: the
calls in the `try`, the variables `catch` and `finally` free, what is handed
on, what each error tells the caller. `Step` runs one call, which may fail, or
trap and poison the instance; `Write` makes an object, and `Read` opens any
sequence of chunks put together from those written. `Release` is a caller letting
go of a key, between two calls or while an invitation awaits the digest of its
token; the call that then reaches for the key finds it freed.

### Operations

The server as its operator sees it. A script is a record with the line it has
reached, and may die there.

| Actions | Code |
|---|---|
| `MigrateByHand`, `TakeLock`, `Plan`, `ApplyText`, `Record`, `AllApplied`, `RunnerDies` | `migrate.mjs`, run by a release and by hand |
| `StartRelease`, `Migrated`, `SwitchLinks`, `RestartForRelease`, `Healthy`, `NotHealthy`, `ScriptDies` | `release.sh` with its rollback |
| `Start`, `ReadConfig`, `verifyBucket`, `Registered`, `Killed`, `Crash` | `index.ts`, `config.ts`, `composition-root.ts`, the unit |
| `Signal`, `CloseApp`, `EndPool`, `Exit`, `Deadline`, with `BeginCall`, `ClientLeaves`, `EndCall` | `shutdown.ts`, and an upload under way |
| `Dump`, `Put`, `Select`, `Prune` | the nightly backup and its retention |
| `ServerLost`, `Recover`, `RefuseOrGoOn`, `Restore`, `StartCheck`, `HeadRow`, `FinishCheck` | recovery onto a new server, and `consistency.mjs` |

`db.schema` is what the files applied made, each its bytes or `Part` of it, and
`db.recorded` what schema_migrations says. `pg_restore` is not one transaction:
when it stops, the tables are there, or not yet; their rows, or not yet; and
schema_migrations' among them, or not yet, always with some key or index
missing (`Partly`). It is one step with these outcomes, so a runner started by
hand beside it meets the database before it or after it, but for the first
table, which it may have made (`recovery.at = "empty"`).

Left out: release directories and their pruning, provisioning, the rehearsal
with its copy of the media, counts of uploads in a restored dump; a row's two
HEADs are one step, and whether lengths match is anybody's guess.

### MC modules

`MCMediaLifecycle` and `MCRecipientClient` name the members of the constant
sets and define the symmetry, which is used with safety properties only.
Three put parts that share no state into one run, as beginnings of it, each
part at rest while another runs: `MCSlidingWindow` the limiter (with a clock
that only moves forward, or one that may be set back and one request at a time)
and the contract; `MCOwner` the session and the screens; `MCDevice` key
functions, objects, a photograph being prepared, and one being viewed.

## Runs

| Run | Question | Instance |
|---|---|---|
| `media_safety` | Do the safety properties hold, and is `MediaPromise` kept, whatever interleaves and fails? | 2 uploads, 2 removals (one repeats), 1 length, 2 rounds of HEADs, 2 faults of nine kinds; 686,213 states |
| `media_erasure` | Does a removal finish? | 2 uploads, 2 removals, 1 fault of four kinds, with fairness |
| `media_ready_whole` | Is a ready row's every object as long as the server counted? **Violated**: see Findings | 2 uploads, 1 removal, 1 fault: a rejected PUT that leaves something |
| `sliding_window` | Is Retry-After enough, the overdraft bounded, and the list as good as the exact window? Do relay and clients understand each other, and does anybody learn, get or break what they should not? | 2 keys, 2 requests, budget 3, window 3, floor 1, a sweep above 1 key, 6 instants, one step back; every call, two tries; 381,947 states |
| `owner_session` | Are keys and handles accounted for, does a session said to be over stay over, is no screen busy for ever? Is the screen the open child's, and left only as asked? | 1 album, 3 tokens, 2 page loads, 2 faults; 2 albums, 4 views, 2 mishaps; with fairness; 499,362 states |
| `owner_back` | Does Back lead to the list? **Violated**: see Findings | 1 album, 3 views, 1 mishap |
| `owner_album` | Does the list tell what became of the rows, are bytes and pictures released, does every upload settle? | 2 photographs, 1 in memory at a time, 1 poll, 2 openings, 1 fault, with fairness; 338,168 states |
| `sharing` | What is a fetch overtaken by a removal told, what does the log hold and show, which recipients are left active? | 2 ids, 1 photograph, 2 tries, pages of 1, 4 acts, 1 fault; 2,598,801 states |
| `recipient_client` | Are keys and pictures released by whoever holds them last, and does everything that loads stop? | 2 photographs, 2 openings of the viewer, 1 fault, both kinds of link, with fairness; 160,537 states |
| `recipient_key` | Is `K_album` freed on the revoked screen? **Violated**: see Findings | a passphrase link, 1 photograph, 1 failure |
| `device` | Are handles exact, do keys open what they wrapped, are objects read as written, is what leaves the device an image and nothing more, does the photograph stay in the fingers? | 4 calls, 1 fault, 2 kept, 2 uses, chunks of 2, JPEGs of 4 pieces, 2 pointers at 3 spots, a stage turned, 2 zooms; 1,907,697 states |
| `operations` | Does what serves find its migrations applied as recorded, does retention keep the last copies, do restored pointers land, does no call lose its pool? | 2 photographs, 3 events, 4 days; 1,030,224 states |

What the properties say:

- `CountExact`: `uploads_in_flight` is the number of uploads admitted and not
  yet uncounted, through all dozen ways out of the handler.
- `NoUploadUnderErasure`, `GoneForGood`: hiding and uncounting decide about
  erasure in the statement that reads the count, so nothing is erased under an
  upload and no object outlives its row.
- `ReadyHasBoth`, `CompletedIsReady`: a live ready row has both objects; two
  variants finishing at once do not each leave the row to the other.
- `RetriedDeleteMeansDone`, `LastOutErases`, `RepeatedDeleteErases`: a retried
  DELETE that ends in 204 or 404 is done; a hidden row is erased, without
  anybody coming back if nothing fails, and by the open screen if something
  did.
- `KeepsPromise`, `AnswersAsRolling`: the two refinements.
- `RetryAfterIsEnough`, `OverdraftBounded`: a client that obeys the header is
  admitted; a window holds at most the budget and one top-up for each request
  under way at once.
- `RequestsAreUnderstood`, `OnlyTheEntitledLearn`, `EveryByteIsPaid`: what a
  client builds is not refused for its form and every answer has a branch,
  repeats included; answers and costs are the same
  for what a caller may not tell apart; bytes are paid for and refusals are
  not; a 500 is the server's own doing, or one of the three forms above.
- `KeysAccounted`: each key lives only while the step it serves does, and a
  handle given to a task that is stale is freed by it.
- `SignedOutEnds`, `NeverStuckBusy`: a token answered 401 or signed out opens
  nothing again; every request is answered or waited out.
- `OneScreenOpen`, `LeavesAsAsked`: whatever is answered late, the screen is
  that of the one child open, on its own album; a photograph on its way and a
  link shown once are given up by an answer to the question, with the session,
  or with an album that is gone.
- `ListTellsTheRows`, `BytesAndPicturesAccounted`, `EveryUploadSettles`: no
  photograph is called ready whose row was not, and one removed does not come
  back; originals are within the cap and zeroed when let go; a failure of one
  does not stop the queue.
- `RemovalIsNotFound`, `LogIsTrue`, `InvitesAccounted`: a fetch overtaken by a
  removal is told 404; the log has the opens that were served and not lost, each
  under the recipient who asked and the photograph that was served, and a view
  shows its own; a row made by a POST whose answer was lost is shown,
  revoked or known to be left.
- `PicturesAccounted`, `NothingKept`, `ViewerShowsItsPhoto`, `Settles`: what
  was under way when a session ended (a decoding, a derivation, a worker
  between two photographs) closes and frees what it brings; a load of an
  earlier opening never fills a later one; a task runs again with all it needs
  and workers empty the queue past failures.
- `HandlesExact`, `OpensWhatWasWrapped`, `BlameIsDeserved`, `ReadsAreWrites`,
  `PreparedIsStripped`, `PhotoInHand`: after a key function ends exactly what it handed out is
  alive; a wrong word, a damaged row and a device that failed are told apart;
  chunks cut, swapped or mixed do not open; what is prepared has no metadata
  and the size it says; whatever fingers, buttons and a turning stage do, a
  finger that lands or lifts does not make the photograph jump, and it does not
  leave its edges behind.
- `ServesItsSchema`: a build that answers requests finds its migrations recorded,
  and what is recorded is what was applied, file by file, with edited and
  careless migrations, runners that die and restores that stop half way. Files a
  restore left in part are still recorded, and nothing notices (see Findings).
- `LastCopiesKept`, `PointersLand`, `NoCallLosesItsPool`: as the run's question
  says, with nights that fail and rows removed during the check.

Bounds. Two uploads and two removals are the least with which two uploads of
one row, both variants, a removal overtaking either, and two erasures at once
all happen; a client may PUT again, so sequences are longer than two. Two
faults reach a fault during the handling of a fault (a lost answer then a
crash). The kind `late` is off in every passing run, see below. For the
window, budget 3 over 3 instants with a top-up of 2 gives overdrawn windows,
refusals that wait for the first, second and third expiry, and expiry within
the horizon; a sweep above one key runs as soon as the second key is known, and
a second of two instants makes the rounding matter. Overlapping requests and a
clock set back are not in one behaviour of that run, and one key or the other is quiet:
its window holds at most two admissions and no top-up (with a clock set back,
one admission). A square photograph on an oblong stage has an axis that
overflows and one that does not, and fitted and twice that are a zoom that pans
and one that cannot. Three tokens are a stored one, one of a
sign-in that turns stale, and one after it. Two albums and four views give an
album left for its people, and another open when their answer comes. One
photograph in memory makes the cap bind with two. Two ids and two tries are one
conflict and a second attempt; pages of one entry make a second page. Two
photographs give the recipient's page one worker and a queue (the loop that
starts workers compares with the queue they shorten), so two workers at once
are not in its run; two openings are the least for a load that outlives its
viewer. Three events are a release that dies, a hand that runs its migrations,
and a start; or two nights that fail and one that does not.

Deadlock is not checked: a state with every request answered and nobody
sending another is a proper end, as are the bounds.

Fairness. `MediaLifecycle`: a request that was admitted goes on, because the
body has an upload deadline and every store call a request timeout
(`object-store.ts`), so each awaited call settles, possibly with an error.
Clients are not made to send anything, except that a DELETE of `Repeaters` is
sent again after an answer that leaves the removal unfinished: that is
`retryErasure` of `web/owner/album.ts` for as long as the screen is open.
`RecipientClient` and `OwnerSession`: the browser and the server settle every
request, frame, timer and decoding asked for; an offline notice is retried, by
its button or by the window's `online` event, both of which the routes wire.
`OwnerAlbum`: the queue and the previews go on. Nobody is made to type, open a
photograph, answer a question or stay, and faults are never fair.

## Findings

`ReadyMeansWhole` fails. The API specification says `ready` means "both
objects exist, and each is the size the server itself counted while streaming
it". The code compares the length of the object just written and asks of the
other one only whether it exists; the specification argues that the other was
compared when it was written. An aborted PUT that leaves a partial object was
never compared, and a later upload of the other variant alone makes the row
ready. The present client resends both.

`KeyReleased` fails, on passphrase links only. The task that derives `K_album`
goes on to fetch the recipient's row, and if that fails in a way `call` does
not retry, `guarded` runs the whole task again: it derives a second handle
over the first, which nothing frees. The comment at the head of `session.ts`
says a revocation frees `K_album`. The QR path guards the two halves
separately, and the test of a malformed label takes that path. The owner's
unlock and sign-in (`owner/session.ts:569`, `:666`) do the same to the master
key and the kek, which `KeysAccounted` leaves out by `~reran`.

`BackIsToTheList` fails. With a photograph on its way, the invite (or the
people) is asked for, the question is shown, and the upload's own 401 ends the
session. `reset` closes the album and clears what it lists, and not
`afterLeave`. After a sign-in on the same page, the first Back from an album
enters the invite form. Its comment says "Back to the list".

Not findings of a run, and seen while modelling:

- `recover-server.sh:37` restores without `--single-transaction`, so a restore
  that dies after the rows leaves every migration recorded over tables without
  their keys and indexes. `migrate.mjs` decides from schema_migrations alone:
  the next release's runner applies nothing and the API serves that database,
  though its header (`:4-7`) says that after a run the schema is whatever the
  migrations say. What stands between is an instruction: the failed restore
  tells its operator to drop and recreate the database (`:38`). "0 applied",
  which `deploy/README.md:65` has the next release report, is what a half
  restored database reports too.
- The comment at `fragments.ts:28-32` says that without the format "a malformed
  id reaches Postgres and 22P02 becomes a 500". With it, an id that begins with
  `urn:uuid:` still does. No client writes one.
- `people.ts:172` and `:299` call `gone` without asking whether the people
  screen is still open, as `invite.ts:285` and `album.ts` do. The late 404 of
  an album that is gone closes another album, with a photograph on its way or a
  link shown once. `LeavesAsAsked` excepts a step that hears such a 404.
- A closed invite's 404 is thrown on and shows the offline notice with nothing
  waiting for it (`ThrowsOn`).
- `album.ts:889-893`: a removal's status read may make an item ready without
  `becameReady`, so without its thumbnail; and a 404 to an earlier removal's
  read closes whatever question is open (`:895`).
- `Viewer.svelte:62`: the effect that resets the view for a new photograph runs
  again when the page's state is replaced, so a thumbnail that arrives under an
  open viewer fits a zoomed photograph and drops the gesture (`Replaced`).
- A stage that changes size does not clamp the view, so a zoomed photograph may
  stand off its edge until it is moved (`render.ts:68` says the edge stops at
  the stage's edge); and a button pressed with a finger down is undone by the
  finger's next move. `PhotoInHand` leaves both out by `turned` and `steered`.

## Proofs

`MediaLifecycle_proofs`, for any number of uploads and removals and any bound
on faults. The invariants TLC checks are not inductive as they stand, and are
strengthened in two layers.

`Core` holds whatever the store does: `TypeOK`, `CountExact`,
`CountedRowStands` (a row with a counted upload is never deleted, so
`endUpload` always finds it), `NoUploadUnderErasure`, `ReadyHasBoth`, and

- `JobsKnown`: a PUT under way has a declared length, so what lands is present
  even one byte short;
- `Unborn`: before the row there is no count and no erasure;
- `SeenIsThere`: what an upload's HEADs saw is still there when `markReady`
  runs. It holds since objects go only by erasure, and an erasure runs with no
  upload counted.

From it `TypeSafe`, `UploadsAreCounted`, `CountedRowsStand`,
`ErasureExcludesUploads` and `ReadyRowsHaveBoth`.

`IInv` adds what an erasure rests on:

- `LateIsLost`: a PUT that can still land belongs to an upload that died
  counted, so its row is never erased;
- `Bare`: no row, no object;
- `AbsentStays`: what an erasure's HEADs found absent stays absent until it
  deletes the row.

From it `ErasureIsFinal` (`GoneForGood`) and `Refinement` (`KeepsPromise`).
These two assume `NothingLate`, that a rejected PUT does not land after its
rejection: the contract stated in `ports/object-store.ts`. It is needed:
`uploadMediaObject` uncounts a rejected PUT at once, and TLC with `late` among
the `Faults` shows an object landing under an erased row.

`Relay_proofs`, of `SlidingWindow`, for any keys, requests, budget, window, sweep
threshold, sizes and horizon, and any number of clock steps: `TypeSafe`, and
`Refinement` (`AnswersAsRolling`). The refinement needs no invariant but types:
a swept key has nothing live (`SweptIsEmpty`), pruning twice is pruning once
(`LivePrunes`), so recording adds to one exact window and leaves the others
(`RecordSpends`).

`ObeyingIsEnough` (`RetryAfterIsEnough`): whoever was told to wait fits at every
instant from then on, not only at the one told (`ToldOK`), for what expires
meanwhile only makes room and what is recorded for the key takes the word back.
`OverdraftIsBounded` (`OverdraftBounded`): a window, with one top-up of the
largest size for each request of its key still under way, is within the budget and
one for each request there is (`DueOK`); an admission looks at the window before it
adds to it, and a top-up is that of a request that ends. Both rest on how sums over
the instants grow, add and expire (`TotalGrows` and its like).

The same module, of `Contract`, for any number of tries: `NoByteIsUnpaid`
(`EveryByteIsPaid`) and `OthersLearnNothing` (`OnlyTheEntitledLearn`). The invariant
is that what was answered and charged is what the stages answer and charge in this
world (`ServedInv`), however the call is tried again; the rest is about the stages:
which of them look at what, so that worlds that differ only where no stage has
looked yet are answered alike. And for any bounds of `Encoding`:
`SchemaAgreesWithDecoder`, that a schema's bounds in characters admit
a canonical text exactly when the decoder's bounds in bytes do, and
`EncodedIsAccepted`, that what a client encodes within a field's bounds passes
both.

`Owner_proofs`, of `OwnerScreens`, for any albums and any number of children
opened and of failures: `ScreensAreTyped`, `ScreenIsTheChilds` (`OneScreenOpen`) and
`OwnersLeaveAsAsked` (`LeavesAsAsked`). Neither of the two is inductive. The
strengthening says which shapes a screen has (`ScreenShapeOK`: what may lie over what),
whose a request is and which outlive their child (`RequestsOK`), that the list of
people is asked for once and a revocation sent once (`AskedOnce`), and that where
to go is remembered under the album's question and is where the owner asked to go
(`WishKept`). The parts of `OneScreenOpen` are `OneChild`, `SomethingBehind` and
`WaitingIsSaid`.

`Operations_proofs`, for any photographs, retention and number of events, with
the four builds of `Ships`: `BuildsFindTheirSchema` (`ServesItsSchema`),
`PassedCheckLeavesNoHole` (`PointersLand`), `StopWaitsForClients`
(`NoCallLosesItsPool`) and `RetentionKeepsTheNewest` (`LastCopiesKept`). Schema
and records differ only before the first wrapped file, or where a restore that
stopped recorded nothing, or left files in part (`SchemaOK`); one runner
holds the lock, and what it has still to apply follows what is recorded
(`RunsOK`); every build that runs, that a restart would run, or that the script
has migrated to or would go back to has its migrations (`ReliedOK`); the pool is
gone only once no client waits (`ServiceOK`); while a check runs, what is ready is
to be asked for, missing, or there (`PointersOK`); what retention chose and
has still to delete has KeepMin newer backups yet, for they only arrive meanwhile
(`BackupsOK`).

`Sharing_proofs`, for any finite sets of photographs and ids, and any page size,
tries and faults: `RemovedPhotoIsNotFound` (`RemovalIsNotFound`),
`NoInviteIsLeftBehind` (`InvitesAccounted`) and `LogTellsWhoOpened` (`LogIsTrue`).
What is behind a visible row is in the store, and a request that missed it has a
row hidden (`PhotosOK`, `RequestsOK`); an entry's id is one nobody else has drawn
and says what the request that wrote it was served (`EntriesOK`); the id being
tried is one nobody has seen or given up on (`InvitesOK`); one page at most is
under way for the view that is open, and what is shown is newer than what it
asks for (`ViewOK`). `EveryRankIsTaken` and
`ListedNewestFirst` show that a finite set of entries has a list in order: an entry's
rank is an injection into as many numbers, hence onto them.

`RecipientClient_proofs`, for any album, kind of link, number of workers,
openings and faults: `SessionIsTyped`, `NoPictureLeaks` (`PicturesAccounted`),
`LateLoadsAreDropped` (`ViewerShowsItsPhoto`) and `EndedSessionKeepsNothing`
(`NothingKept`). The strengthening: the handle is one and held unless a
passphrase's derivation ran again (`KeysOK`); a task to be run again has no call
under way, and the album is entered once (`WaitsOK`); a cell somebody loads or
will load says so, so no loader finds a picture it would leak (`GridOK`); an
opening still the viewer's fetches its photograph and shows nothing yet
(`ViewerOK`).

`Owner_proofs`, of `OwnerSession`, for any albums and any number of sessions,
visits and failures: `OwnerSessionIsTyped`, `EndedSessionsStayOver` (`SignedOutEnds`) and
`NoKeyOutlivesItsUse` (`KeysAccounted`). The strengthening: tokens are minted in
order and whoever names one names one that was minted; a 401 or a sign-out's
answer, once given, is true of its token for good, also while it is on its way
(`TokensOK`); which requests each task makes, and that the keys of albums being
created are told apart by their album, stale tasks included (`TaskOK`); what the
screen says of the task (`ShapeOK`); a login key is held exactly while one is
needed, and a poisoned instance holds no handle a call could use (`KeysOK`). A
task that `guarded` runs again leaves the handle of its first run behind and may
be drawn behind another screen, so what the screen says of it, and the equation of
the handles, hold until then; afterwards the handles counted are a lower bound
(`HandlesOK`), which is what keeps `handles` from going below 0.

`OwnerAlbum_proofs`, for any finite set of photographs, any cap and number of
polls, and any number of openings and failures: `OpenAlbumIsTyped`,
`ListTellsWhatBecameOfRows` (`ListTellsTheRows`) and `AlbumFreesWhatItTakes`
(`BytesAndPicturesAccounted`). The list is right because a photograph is told to be
ready once: a photograph chosen on this device has no row, item status or question
until its POST is answered (`PhotosOK`), and the statuses asked for when the list was
read concern only photographs that no upload here moves (`ListOK`, `SendOK`), nothing
being asked before the list is read (`FreshOK`). The equation of pictures holds
because a thumbnail being fetched is not yet on the screen (`ListOK`), a preview is
made once, of a row of the review whose bytes are held (`ReviewOK`), and an opening
of the viewer is loaded once and is the last one while its picture is missing
(`ViewOK`). A removal is told of before it is confirmed (`AskedOK`).

`Device_proofs`, of `Keys`, for any number of calls, of rows kept and of failures of the device:
`HandlesAreExact` (`HandlesExact`), `OnlyTheRightSecretOpens`
(`OpensWhatWasWrapped`) and `NoneIsBlamedInVain` (`BlameIsDeserved`). The ten
functions are data, so each is first shown to be in order, one call at a time, by
comparison with the table `LiveAt` of what is alive before each call (`Balanced`):
an error at any call finds every living handle in the `catch` or the `finally`,
and what is alive at the end and not freed is what is handed over. The invariant is
then of any program in order: handles are numbered by the call that made them, so
those of the function in progress are nobody's yet (`During`). For the other two:
rows are whole, and made with secrets that their opening does not refuse
(`RowsWhole`); a call that was passed had nothing to object to in what it was given
(`Passed`), and an error is the device's or what the call in hand says of it
(`Deserved`). So a function that was done found the row and the secret as they were
made (`DoneFits`), and one that was given both meets no error of its own
(`FitNeverErrs`).

The same module, of the objects. For any header, tag and chunk length of `Layout`:
`ChunksTile`, that the chunks of an object are as many as cover it, none empty,
that they begin after the header, lie end to end, and end with the object. For any
chunk size, tag, ids and plaintexts, and any number of writes: `WhatIsReadWasWritten`
(`ReadsAreWrites`). The invariant is short, that every object written has a nonce
nobody else's has (`WrittenOK`). The argument is about bytes: each byte after a
header says under which key, nonce and associated data it was sealed (`BornOf`),
and cutting, relabelling, joining and exchanging keep that true of every byte found
(`Torn`, `FoundIsTorn`), but not that they belong together. A chunk that opens was
sealed whole under this header and at this index (`ChunkOpened`); so if all of them
open, header and all, the object is the one that was written (`ObjectOpened`), and
one that was written opens (`ObjectIs`, with `FlattenPlaces` for the chunks put end
to end).

Of `Prepare`, for any number of pieces in any order: `OnlyImagesAreHandedOn`
(`PreparedIsStripped`). The filter keeps pieces an image is made of and nothing
else (`KeepsHarmless`, by induction over them), and what it kept, if the scan then
lets it through, is only an image (`ScannedIsClean`); `PrepareInv` says at which
stage which JPEGs are made, and that none is left where it failed.

Of `Gestures`, for any stages, photographs, pointers and levels of zoom:
`PhotoStaysInHand` (`PhotoInHand`). It needs that the press that may be a tap is that
of the one pointer down (`PressOK`), and that a photograph at the smallest scale is
the fitted one (`FittedOK`), since a fitted photograph has no room to be off centre
(`LimitsType`); the rest is that clamping twice is clamping once (`Clamped`).

The library states induction for a predicate, which the provers cannot be given;
for a set it follows from the order of the numbers being well-founded, which is
first-order (`Least`, `Induction` of `Device_proofs`, and the same in
`Relay_proofs`). Sums over instants, chunks put end to end and pieces filtered one
by one are proved so.

The strengthenings of `MediaLifecycle_proofs`, `Owner_proofs`, `Operations_proofs`,
`Sharing_proofs`, `RecipientClient_proofs` and `OwnerAlbum_proofs`, and those of the
handles and rows of `Keys`, were invariants of TLC runs on the instances of the
cfgs, or on smaller ones, before they were proved.

Assumptions: `RequestAssumption` of `MediaLifecycle` (finitely many uploads, disjoint
from removals) and of `SlidingWindow` (finitely many requests), `BoundAssumption`
and `PhotoAssumption` (finite sets, ranges of the
parameters), `LimitAssumption`, `LayoutAssumption` and `SharingAssumption`
(ranges), `AlbumAssumption` (finitely many photographs, none of them `NoId`,
and ranges), `KeyAssumption` (a key is not a program counter), `ScreensAssumption`
(ranges of the bounds), `RetentionAssumption` (at least one backup is kept, for
at least one day), `EnvelopeAssumption` (a header is one element of an object's
sequence, a chunk holds something), `ObjectsAssumption` (what is encrypted is not
empty, `header.rs` and `blob.rs`, and an object's size does not overflow),
`PrepareAssumption` and `ContractAssumption` (ranges of the bounds) and
`GestureAssumption` (sides are numbers, a photograph's are not 0, and there is a
largest level of zoom). TLC evaluates them.

Only model-checked: the liveness properties, which with fairness and ENABLED are
beyond the prover; and `RequestsAreUnderstood` of `Contract`, where nothing depends
on a constant but the number of tries, so that TLC's instance has every call with
every fault there is, and the clients' bodies are put together with `@@`, which
the prover cannot express. The three properties that fail are refuted by TLC.

## Plan

1. Done: the modules above, their runs, and the proofs named.
2. Proofs next: `RequestsAreUnderstood` of `Contract`, once its bodies are written
   without `@@`, and `TypeOK` of `Contract` and `Keys` as theorems of their own.
3. Models next: the expiry warning and the 429 of the token routes, the log's
   thumbnails, the rehearsal of a restore.

## Not modelled

Cryptography but as an ideal cipher; user interface, wording and layout; word
lists and their build; tests, fixtures and the tools that check the
repository's own documents; provisioning of the server and secret scanning,
which are I/O. What a module leaves out is said with the module and in
`PROJECT.json`.
