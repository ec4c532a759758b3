---------------------------- MODULE OwnerSession ----------------------------
(***************************************************************************)
(* OwnerSession, the object of packages/web that holds an owner's token    *)
(* and keys, together with the server's accounts and session tokens that   *)
(* its requests reach.                                                     *)
(*                                                                         *)
(* The session runs one task at a time: the page's first fetch, an unlock, *)
(* a sign-in, a sign-up, a new album, a sign-out.  bumpEpoch makes the     *)
(* task stale; a stale task is a stray, which still wakes when its request *)
(* is answered or its derivation is over.  A request and its answer are    *)
(* apart, so a page may be gone when the server handles what it asked.     *)
(*                                                                         *)
(* A 429 outside the credential routes is a request still asking.  Left    *)
(* out: the expiry warning, titles, and what happens inside an album.      *)
(***************************************************************************)
EXTENDS Integers, FiniteSets

CONSTANTS
    Albums,     \* the ids the owner may create albums under
    MaxTokens,  \* bound: sessions the server mints
    MaxVisits,  \* bound: how often the page is opened
    MaxFaults   \* bound: failures, and sessions ended from elsewhere

ASSUME BoundAssumption ==
    /\ IsFiniteSet(Albums) /\ "none" \notin Albums
    /\ MaxTokens \in Nat \ {0} /\ MaxVisits \in Nat /\ MaxFaults \in Nat

VARIABLES
    account,     \* the owner has an account: its row and its key's, one transaction
    tokens,      \* owner_tokens: "unused", "live", or "dead" (revoked or expired)
    albums,      \* the owner's albums on the server
    store,       \* the token in sessionStorage, 0 for none
    token,       \* the session's token, 0 for null
    screen,      \* what is shown, and its phase
    form,        \* the create form of the album list
    out,         \* signingOut: "no", "asked", or the scope of the sign-out
    paused,      \* the credential form whose Retry-After timer runs
    offline,     \* `online` is awaited, and the screen says so
    list,        \* the albums shown
    holds,       \* of kek, master and material, those not null
    keys,        \* albumKeys: the albums whose key is open
    handles,     \* wasm handles made and not freed
    reran,       \* an unforeseen failure ran a task again from its first step
    poisoned,    \* the envelope's instance has trapped
    task,        \* the live task
    stray,       \* stale tasks, and requests of pages that are gone
    ended,       \* tokens this device was told have ended
    visits, faults

server == <<account, tokens, albums>>
page   == <<screen, form, out, paused, offline, list>>
held   == <<holds, keys, handles, reran, poisoned>>
kept   == <<store, token>>
work   == <<task, stray>>
counts == <<visits, faults>>
vars   == <<server, page, held, kept, work, ended, counts>>

Tokens == 1..MaxTokens
Words  == {"right", "wrong"}
Scopes == {"device", "all"}

Kinds == {"left", "checking", "signin", "signup", "uncertain", "unlock",
          "cannot-unlock", "device-failed", "albums", "partial"}
Phases == {"ready", "busy", "deriving", "refused", "unavailable", "paused"}

Ops == {"none", "fetch", "unlock", "signin", "signup", "create", "logout", "gone"}
Places == {"none", "params", "login", "ownerKey", "albums", "revoke", "policy",
           "signup", "create", "logout"}

Replies == {"none", "ok", "denied", "lost", "fault", "limited", "odd",
            "verified", "created", "not-allowed", "taken", "conflict"}

\* at: the request asked, or awaited next; tok: its token; reply: its answer.
Requests == [op : Ops, at : Places, reply : Replies, tok : 0..MaxTokens,
             wait : {"none", "asking", "waiting", "frames", "again"},
             arg : Words \cup Scopes \cup Albums \cup {"none"}]

NoTask == [op |-> "none", at |-> "none", reply |-> "none", tok |-> 0,
           wait |-> "none", arg |-> "none"]

TypeOK ==
    /\ account \in BOOLEAN /\ offline \in BOOLEAN /\ poisoned \in BOOLEAN
    /\ tokens \in [Tokens -> {"unused", "live", "dead"}]
    /\ {albums, list, keys} \subseteq SUBSET Albums
    /\ store \in 0..MaxTokens /\ token \in 0..MaxTokens
    /\ screen \in [kind : Kinds, phase : Phases]
    /\ form \in {"closed", "open", "creating", "failed"}
    /\ out \in {"no", "asked"} \cup Scopes
    /\ paused \in {"none", "signin", "signup"}
    /\ holds \subseteq {"kek", "master", "material"}
    /\ handles \in Nat /\ reran \in BOOLEAN
    /\ task \in Requests /\ stray \subseteq Requests
    /\ ended \subseteq Tokens
    /\ visits \in 0..MaxVisits /\ faults \in 0..MaxFaults

Init ==
    /\ account \in BOOLEAN
    /\ store \in {0, 1} /\ (store = 1 => account)
    /\ tokens = [t \in Tokens |-> IF t = store THEN "live" ELSE "unused"]
    /\ albums = {} /\ token = 0
    /\ screen = [kind |-> "left", phase |-> "ready"]
    /\ form = "closed" /\ out = "no" /\ paused = "none" /\ offline = FALSE
    /\ list = {} /\ holds = {} /\ keys = {} /\ handles = 0 /\ reran = FALSE
    /\ poisoned = FALSE
    /\ task = NoTask /\ stray = {} /\ ended = {}
    /\ visits = 0 /\ faults = 0

(***************************************************************************)
(* The server.  Outcomes(r) is what handling one step of a request may do: *)
(* the request, with its answer, and the rows it leaves.                   *)
(***************************************************************************)
Live(t) == t # 0 /\ tokens[t] = "live"

Result(r, reply, acc, toks, albs) ==
    [req |-> [r EXCEPT !.reply = reply], account |-> acc, tokens |-> toks, albums |-> albs]

Says(r, reply) == Result(r, reply, account, tokens, albums)

\* mintSession: the next token, inserted live.
Minted(r) ==
    {Result([r EXCEPT !.tok = t], "ok", account, [tokens EXCEPT ![t] = "live"], albums) :
        t \in {u \in Tokens : tokens[u] = "unused"
                              /\ \A v \in Tokens : v < u => tokens[v] # "unused"}}

\* The proof is verified against the row first; the session is inserted after.
HandlesLogin(r) ==
    IF r.reply = "verified" THEN Minted(r)
    ELSE {Says(r, IF account /\ r.arg = "right" THEN "verified" ELSE "denied")}

\* Refused by the allowlist, or the account in one transaction, or a 409.
HandlesSignup(r) ==
    IF r.reply = "created" THEN Minted(r)
    ELSE {Says(r, "not-allowed"),
          IF account THEN Says(r, "taken") ELSE Result(r, "created", TRUE, tokens, albums)}

HandlesCreate(r) ==
    {IF r.arg \in albums THEN Says(r, "conflict")
     ELSE Result(r, "ok", account, tokens, albums \cup {r.arg})}

HandlesLogout_Mutant(r) ==
    {Result(r, "ok", account, [tokens EXCEPT ![r.tok] = "dead"], albums)}

HandlesLogout(r) ==
    LET gone == IF r.arg = "all" THEN {t \in Tokens : Live(t)} ELSE {r.tok}
    IN {Result(r, "ok", account,
               [t \in Tokens |-> IF t \in gone THEN "dead" ELSE tokens[t]], albums)}

\* authenticateOwner first, on every route but the credential ones.
Outcomes(r) ==
    IF r.at \in {"params", "login", "signup"}
    THEN CASE r.at = "params" -> {Says(r, "ok")}
           [] r.at = "login"  -> HandlesLogin(r)
           [] r.at = "signup" -> HandlesSignup(r)
    ELSE IF ~Live(r.tok) THEN {Says(r, "denied")}
    ELSE CASE r.at \in {"ownerKey", "albums"} -> {Says(r, "ok")}
           [] r.at = "create" -> HandlesCreate(r)
           [] OTHER           -> HandlesLogout(r)

InHand(r) ==
    /\ r.wait = "asking"
    /\ r.at \notin {"none", "policy"}
    /\ r.reply \in {"none", "verified", "created"}

Leaves(o) == account' = o.account /\ tokens' = o.tokens /\ albums' = o.albums

Serve ==
    /\ InHand(task)
    /\ \E o \in Outcomes(task) : Leaves(o) /\ task' = o.req
    /\ UNCHANGED <<page, held, kept, stray, ended, counts>>

ServeStray(r) ==
    /\ InHand(r)
    /\ \E o \in Outcomes(r) : Leaves(o) /\ stray' = (stray \ {r}) \cup {o.req}
    /\ UNCHANGED <<page, held, kept, task, ended, counts>>

Fault == faults < MaxFaults /\ faults' = faults + 1

\* No response, whether or not the server did the work; a 5xx or a body that
\* is not what it should be; a 429 of a credential route; a status no branch
\* of the caller expects.
Reaches(reply) ==
    CASE reply = "limited" -> task.at \in {"params", "login", "signup"}
      [] reply = "odd"     -> ~reran /\ task.at \in {"ownerKey", "albums", "create", "signup"}
      [] OTHER             -> TRUE

Fails ==
    /\ InHand(task) \/ (task.wait = "asking" /\ task.reply \in {"ok", "conflict"})
    /\ Fault
    /\ \E reply \in {"lost", "fault", "limited", "odd"} :
         /\ Reaches(reply)
         /\ reply \in {"limited", "odd"} => task.reply = "none"
         /\ task' = [task EXCEPT !.reply = reply]
    /\ UNCHANGED <<server, page, held, kept, stray, ended, visits>>

\* Another device signs out everywhere, or a session reaches its expiry.
EndsElsewhere ==
    /\ Fault
    /\ \/ tokens' = [t \in Tokens |-> IF Live(t) THEN "dead" ELSE tokens[t]]
       \/ \E t \in Tokens : Live(t) /\ tokens' = [tokens EXCEPT ![t] = "dead"]
    /\ UNCHANGED <<account, albums, page, held, kept, work, ended, visits>>

(***************************************************************************)
(* Key state, and the ways it is dropped.                                  *)
(***************************************************************************)
Dead == screen.kind \in {"left", "device-failed"}

Shows(kind, phase) == screen' = [kind |-> kind, phase |-> phase]

\* A new album's key is its task's until the album is created.
Own(r) == IF r.op = "create" THEN 1 ELSE 0

Referenced(hs, ks) == Cardinality(hs \ {"material"}) + Cardinality(ks)

\* What is left of a stale task: a request the server may yet act on, a
\* derivation under way, or an album key only this task refers to.
Writes == {"login", "signup", "create", "logout", "revoke"}

Stale(r) ==
    IF \/ Own(r) = 1 \/ r.wait = "frames"
       \/ r.wait = "asking" /\ r.at \in Writes
    THEN {r} ELSE {}

FreeHandles(trapped) ==
    /\ holds' = {} /\ keys' = {}
    /\ handles' = IF trapped THEN handles ELSE handles - Referenced(holds, keys)
    /\ UNCHANGED reran

\* r: the task made stale, or NoTask when it was the caller itself.
BumpEpoch(r) == task' = NoTask /\ stray' = stray \cup Stale(r)

\* Timers are cancelled, `online` resolved and the notices cleared.
Quiet == offline' = FALSE /\ paused' = "none"

Reset(r) ==
    /\ BumpEpoch(r) /\ FreeHandles(poisoned) /\ Quiet
    /\ store' = 0 /\ token' = 0
    /\ form' = "closed" /\ out' = "no" /\ list' = {}
    /\ UNCHANGED poisoned

ToSignin(r) == Reset(r) /\ Shows("signin", "ready")

\* A trap poisons the instance first: nothing of it is freed any more.
DeviceFailed(trapped) ==
    /\ BumpEpoch(NoTask) /\ FreeHandles(trapped) /\ Quiet
    /\ Shows("device-failed", "ready")
    /\ poisoned' = trapped
    /\ form' = "closed" /\ out' = "no" /\ list' = {}
    /\ UNCHANGED <<server, kept, ended, visits>>

\* A derivation, or an album's key, that the instance could not make.
CannotDerive ==
    \/ poisoned /\ DeviceFailed(TRUE) /\ UNCHANGED faults
    \/ ~poisoned /\ Fault /\ \E trapped \in BOOLEAN : DeviceFailed(trapped)

(***************************************************************************)
(* Requests and retries.                                                   *)
(***************************************************************************)
Ask(op, at, tok, arg) ==
    [op |-> op, at |-> at, reply |-> "none", tok |-> tok, wait |-> "asking", arg |-> arg]

Got(at, replies) == task.wait = "asking" /\ task.at = at /\ task.reply \in replies

\* What the live task does next.
Done == task' = NoTask

Goes(at, tok) ==
    task' = [task EXCEPT !.at = at, !.reply = "none", !.tok = tok, !.wait = "asking"]

Derives == task' = [task EXCEPT !.at = "none", !.reply = "none", !.wait = "frames"]

\* `call` waits for the network, and for a service fault unless told to throw;
\* what nobody foresaw is caught by `guarded`, which runs the task again.
WaitsOnline ==
    /\ task.wait = "asking"
    /\ \E wait \in {"waiting", "again"} :
         /\ \/ wait = "waiting" /\ task.reply = "lost"
               /\ task.at \notin {"signup", "revoke", "logout"}
            \/ wait = "waiting" /\ task.reply = "fault"
               /\ task.at \in {"ownerKey", "albums", "create"}
            \/ wait = "again" /\ task.reply = "odd" /\ task.at \in {"ownerKey", "albums"}
         /\ task' = [task EXCEPT !.wait = wait, !.reply = "none"]
    /\ offline' = TRUE
    /\ UNCHANGED <<server, screen, form, out, paused, list, held, kept, stray, ended, counts>>

\* The blocklist's chunk could not be loaded.
PolicyUnavailable ==
    /\ task.wait = "asking" /\ task.at = "policy" /\ Fault
    /\ task' = [task EXCEPT !.wait = "waiting"] /\ offline' = TRUE
    /\ UNCHANGED <<server, screen, form, out, paused, list, held, kept, stray, ended, visits>>

FromTheStart(r) ==
    CASE r.op = "fetch"  -> [r EXCEPT !.wait = "asking"]
      [] r.op = "unlock" -> [r EXCEPT !.wait = "frames", !.at = "none"]
      [] OTHER           -> [r EXCEPT !.wait = "asking", !.at = "params", !.tok = 0]

RetryOffline_Mutant ==
    /\ offline /\ offline' = FALSE
    /\ task' = IF task.wait = "waiting" THEN [task EXCEPT !.wait = "asking"] ELSE task
    /\ UNCHANGED <<server, screen, form, out, paused, list, held, kept, stray, ended, counts>>

\* The `online` event, or a tap: every waiter wakes.
RetryOffline ==
    /\ offline /\ offline' = FALSE
    /\ task' = IF task.wait = "again" THEN FromTheStart(task)
               ELSE [task EXCEPT !.wait = "asking"]
    /\ reran' = (reran \/ (task.wait = "again" /\ task.op # "fetch"))
    /\ UNCHANGED <<server, screen, form, out, paused, list, holds, keys, handles, poisoned,
                   kept, stray, ended, counts>>

\* A 401 to a call that did not ask for it: the session is over.
SessionEnded ==
    /\ \E at \in {"ownerKey", "albums", "create"} : Got(at, {"denied"})
    /\ ToSignin(IF Own(task) = 1 THEN task ELSE NoTask)
    /\ ended' = ended \cup {task.tok}
    /\ UNCHANGED <<server, reran, counts>>

StrayEnds_Mutant(r) ==
    /\ r \in stray /\ stray' = stray \ {r}
    /\ UNCHANGED <<server, page, held, kept, task, ended, counts>>

\* A stale task wakes, whatever came of its request, frees what only it holds
\* and stops; except that revokeQuietly's caller does not look whether it is
\* stale, and clears the store.  What a derivation made is freed as it is made.
StrayEnds(r) ==
    /\ r \in stray
    /\ stray' = stray \ {r}
    /\ LET here == r.op # "gone" IN
       /\ handles' = IF here /\ ~poisoned THEN handles - Own(r) ELSE handles
       /\ store' = IF here /\ r.at = "revoke" THEN 0 ELSE store
    /\ UNCHANGED <<server, page, holds, keys, reran, poisoned, token, task, ended, counts>>

(***************************************************************************)
(* The page comes and goes.                                                *)
(***************************************************************************)
\* start(), by a route of the same page or by a load with its memory fresh,
\* when of the old page only the requests it sent are left.
Open(loaded) ==
    /\ screen.kind = "left" /\ visits < MaxVisits /\ visits' = visits + 1
    /\ IF loaded
       THEN /\ handles' = 0 /\ reran' = FALSE /\ poisoned' = FALSE
            /\ stray' = {[r EXCEPT !.op = "gone"] : r \in {s \in stray : InHand(s)}}
       ELSE UNCHANGED <<handles, reran, poisoned, stray>>
    /\ token' = store
    /\ IF store = 0
       THEN Shows("signin", "ready") /\ task' = NoTask
       ELSE Shows("checking", "busy") /\ task' = Ask("fetch", "ownerKey", store, "none")
    /\ UNCHANGED <<server, form, out, paused, offline, list, holds, keys, store, ended, faults>>

Leave ==
    /\ screen.kind # "left"
    /\ BumpEpoch(task) /\ FreeHandles(poisoned) /\ Quiet
    /\ Shows("left", "ready")
    /\ token' = 0 /\ form' = "closed" /\ out' = "no" /\ list' = {}
    /\ UNCHANGED <<server, poisoned, store, ended, counts>>

(***************************************************************************)
(* Page load and unlock.                                                   *)
(***************************************************************************)
OwnerKeyFetched ==
    /\ task.op = "fetch" /\ Got("ownerKey", {"ok"}) /\ Done
    /\ holds' = holds \cup {"material"} /\ Shows("unlock", "ready")
    /\ UNCHANGED <<server, form, out, paused, offline, list, keys, handles, reran, poisoned,
                   kept, stray, ended, counts>>

SubmitUnlock(word) ==
    /\ screen.kind = "unlock" /\ screen.phase \in {"ready", "refused"} /\ out = "no"
    /\ "material" \in holds
    /\ Shows("unlock", "deriving")
    /\ task' = [Ask("unlock", "none", 0, word) EXCEPT !.wait = "frames"]
    /\ UNCHANGED <<server, form, out, paused, offline, list, held, kept, stray, ended, counts>>

EnterAlbums(tok) ==
    /\ Shows("albums", "busy") /\ form' = "closed" /\ out' = "no" /\ list' = {}
    /\ Goes("albums", tok)

Deriving(op) == task.op = op /\ task.wait = "frames"

UnlockDerived ==
    /\ Deriving("unlock") /\ ~poisoned
    /\ \/ /\ task.arg = "right"
          /\ holds' = (holds \ {"material"}) \cup {"master"} /\ handles' = handles + 1
          /\ EnterAlbums(token)
          /\ UNCHANGED faults
       \/ /\ task.arg = "wrong" /\ Shows("unlock", "refused") /\ Done
          /\ UNCHANGED <<form, out, list, holds, handles, faults>>
       \/ /\ Fault /\ screen.kind = "unlock" /\ Shows("unlock", "unavailable") /\ Done
          /\ UNCHANGED <<form, out, list, holds, handles>>
    /\ UNCHANGED <<server, paused, offline, keys, reran, poisoned, kept, stray, ended, visits>>

RetryUnlock ==
    /\ screen = [kind |-> "unlock", phase |-> "unavailable"]
    /\ holds' = holds \ {"material"} /\ Shows("checking", "busy")
    /\ task' = Ask("fetch", "ownerKey", token, "none")
    /\ UNCHANGED <<server, form, out, paused, offline, list, keys, handles, reran, poisoned,
                   kept, stray, ended, counts>>

(***************************************************************************)
(* Sign-in and sign-up.                                                    *)
(***************************************************************************)
\* Bound: an attempt starts while there is a token left for it, for each request
\* under way and for each failure that may have a login sent again.
Spare ==
    Cardinality({t \in Tokens : tokens[t] = "unused"})
        > Cardinality({r \in stray : r.at \in {"login", "signup"}}) + MaxFaults - faults

\* A 429 comes back to the form; an earlier form's timer is cancelled.
Pause(kind) == Shows(kind, "paused") /\ paused' = kind /\ Done

\* The timer resumes its own form, if a form is still paused.
PauseEnds ==
    /\ paused # "none" /\ paused' = "none"
    /\ IF screen.phase = "paused" THEN Shows(paused, "ready") ELSE UNCHANGED screen
    /\ UNCHANGED <<server, form, out, offline, list, held, kept, work, ended, counts>>

SubmitSignin(word) ==
    /\ screen.kind = "signin" /\ screen.phase \in {"ready", "refused"} /\ Spare
    /\ Shows("signin", "busy") /\ task' = Ask("signin", "params", 0, word)
    /\ UNCHANGED <<server, form, out, paused, offline, list, held, kept, stray, ended, counts>>

ParamsAnswered ==
    /\ \/ Got("params", {"ok"}) /\ Shows("signin", "deriving") /\ Derives /\ UNCHANGED paused
       \/ Got("params", {"fault"}) /\ Shows("signin", "unavailable") /\ Done /\ UNCHANGED paused
       \/ Got("params", {"limited"}) /\ Pause("signin")
    /\ UNCHANGED <<server, form, out, offline, list, held, kept, stray, ended, counts>>

CredentialDerived ==
    /\ Deriving("signin") /\ ~poisoned
    /\ \/ /\ holds' = holds \cup {"kek"} /\ handles' = handles + 1
          /\ Shows("signin", "busy") /\ Goes("login", 0)
          /\ UNCHANGED faults
       \/ /\ Fault /\ Shows("signin", "unavailable") /\ Done
          /\ UNCHANGED <<holds, handles>>
    /\ UNCHANGED <<server, form, out, paused, offline, list, keys, reran, poisoned,
                   kept, stray, ended, visits>>

FreeKek_Mutant == UNCHANGED <<holds, handles>>

FreeKek ==
    /\ holds' = holds \ {"kek"}
    /\ handles' = handles - Cardinality(holds \cap {"kek"})

SaveSession == store' = task.tok /\ token' = task.tok

LoginRefused ==
    /\ FreeKek
    /\ \/ Got("login", {"denied"}) /\ Shows("signin", "refused") /\ Done /\ UNCHANGED paused
       \/ Got("login", {"fault"}) /\ Shows("signin", "unavailable") /\ Done /\ UNCHANGED paused
       \/ Got("login", {"limited"}) /\ Pause("signin")
    /\ UNCHANGED <<server, form, out, offline, list, keys, reran, poisoned, kept,
                   stray, ended, counts>>

LoggedIn ==
    /\ Got("login", {"ok"}) /\ SaveSession /\ Goes("ownerKey", task.tok)
    /\ UNCHANGED <<server, page, held, stray, ended, counts>>

\* openMasterKey frees the kek on every path.
MasterOpened ==
    /\ task.op = "signin" /\ Got("ownerKey", {"ok"})
    /\ \/ /\ holds' = (holds \ {"kek"}) \cup {"master"} /\ UNCHANGED <<handles, faults>>
          /\ EnterAlbums(task.tok)
       \/ /\ Fault /\ holds' = holds \ {"kek"} /\ handles' = handles - 1
          /\ Goes("revoke", task.tok)
          /\ UNCHANGED <<screen, form, out, list>>
    /\ UNCHANGED <<server, paused, offline, keys, reran, poisoned, kept, stray, ended, visits>>

CannotUnlock ==
    /\ Got("revoke", {"ok", "denied", "lost", "fault"})
    /\ Reset(NoTask) /\ Shows("cannot-unlock", "ready")
    /\ UNCHANGED <<server, ended, counts>>

BackToSignin ==
    /\ \/ screen.kind \in {"cannot-unlock", "uncertain"}
       \/ screen = [kind |-> "signin", phase |-> "unavailable"]
       \/ screen.kind = "signup" /\ screen.phase \notin {"busy", "deriving"}
    /\ ToSignin(task)
    /\ UNCHANGED <<server, ended, counts>>

EnterSignup ==
    /\ screen.kind = "signin" /\ screen.phase \notin {"busy", "deriving"}
    /\ Shows("signup", "ready")
    /\ UNCHANGED <<server, form, out, paused, offline, list, held, kept, work, ended, counts>>

SubmitSignup ==
    /\ screen.kind = "signup" /\ screen.phase \in {"ready", "refused"} /\ Spare
    /\ Shows("signup", "busy") /\ task' = Ask("signup", "policy", 0, "none")
    /\ UNCHANGED <<server, form, out, paused, offline, list, held, kept, stray, ended, counts>>

PolicyChecked ==
    /\ task.wait = "asking" /\ task.at = "policy"
    /\ \/ Shows("signup", "refused") /\ Done
       \/ Shows("signup", "deriving") /\ Derives
    /\ UNCHANGED <<server, form, out, paused, offline, list, held, kept, stray, ended, counts>>

AccountKeysMade ==
    /\ Deriving("signup") /\ ~poisoned
    /\ \/ /\ holds' = holds \cup {"master"} /\ handles' = handles + 1
          /\ Shows("signup", "busy") /\ Goes("signup", 0)
       \/ Shows("signup", "refused") /\ Done /\ UNCHANGED <<holds, handles>>
    /\ UNCHANGED <<server, form, out, paused, offline, list, keys, reran, poisoned,
                   kept, stray, ended, counts>>

\* Never sent again: no answer may still mean an account.
SignupRefused ==
    /\ FreeHandles(poisoned)
    /\ \/ Got("signup", {"taken", "not-allowed", "odd"}) /\ Shows("signup", "refused")
          /\ Done /\ UNCHANGED paused
       \/ Got("signup", {"lost", "fault"}) /\ Shows("uncertain", "ready")
          /\ Done /\ UNCHANGED paused
       \/ Got("signup", {"limited"}) /\ Pause("signup")
    /\ UNCHANGED <<server, form, out, offline, list, poisoned, kept, stray, ended, counts>>

SignedUp ==
    /\ Got("signup", {"ok"}) /\ SaveSession /\ Done
    /\ Shows("albums", "ready") /\ form' = "closed" /\ out' = "no" /\ list' = {}
    /\ UNCHANGED <<server, paused, offline, held, stray, ended, counts>>

(***************************************************************************)
(* The album list, a new album, and the sign-out.                          *)
(***************************************************************************)
\* A key opened again replaces, and frees, the one before.
AlbumsListed ==
    /\ Got("albums", {"ok"}) /\ Done
    /\ list' = albums /\ keys' = keys \cup albums
    /\ handles' = handles + Cardinality(albums \ keys)
    /\ Shows("albums", "ready")
    /\ UNCHANGED <<server, form, out, paused, offline, holds, reran, poisoned, kept,
                   stray, ended, counts>>

ToggleCreate ==
    /\ screen = [kind |-> "albums", phase |-> "ready"] /\ form # "creating"
    /\ form' = IF form = "closed" THEN "open" ELSE "closed"
    /\ UNCHANGED <<server, screen, out, paused, offline, list, held, kept, work, ended, counts>>

\* A new id each time; its key is made before anything is sent.
CreateAlbum(a) ==
    /\ screen = [kind |-> "albums", phase |-> "ready"]
    /\ form \in {"open", "failed"} /\ out = "no" /\ "master" \in holds
    /\ a \notin albums /\ \A r \in stray : r.arg # a
    /\ \/ /\ form' = "creating" /\ handles' = handles + 1
          /\ task' = Ask("create", "create", token, a)
          /\ UNCHANGED faults
       \/ Fault /\ form' = "failed" /\ UNCHANGED <<handles, task>>
    /\ UNCHANGED <<server, screen, out, paused, offline, list, holds, keys, reran, poisoned,
                   kept, stray, ended, visits>>

\* A 409 is this album, created by a request whose answer was lost.
AlbumCreated ==
    /\ Got("create", {"ok", "conflict", "odd"}) /\ Done
    /\ IF task.reply = "odd"
       THEN form' = "failed" /\ handles' = handles - 1 /\ UNCHANGED <<keys, list>>
       ELSE /\ form' = "closed" /\ keys' = keys \cup {task.arg} /\ list' = list \cup {task.arg}
            /\ UNCHANGED handles
    /\ UNCHANGED <<server, screen, out, paused, offline, holds, reran, poisoned, kept,
                   stray, ended, counts>>

AskSignOut ==
    /\ screen.kind = "unlock" /\ screen.phase # "deriving"
    /\ out' = IF out = "no" THEN "asked" ELSE "no"
    /\ UNCHANGED <<server, screen, form, paused, offline, list, held, kept, work, ended, counts>>

\* Everything is freed first, and then the server is asked.
Logout(scope) ==
    /\ task.op # "logout"
    /\ \/ /\ screen.kind = "unlock" /\ out = "asked" /\ scope = "device"
          /\ Shows("unlock", "ready") /\ UNCHANGED out
       \/ /\ screen.kind = "albums" /\ out = "no" /\ form # "creating"
          /\ out' = scope /\ UNCHANGED screen
       \/ /\ screen = [kind |-> "partial", phase |-> "ready"] /\ out = scope
          /\ Shows("partial", "busy") /\ UNCHANGED out
    /\ task' = Ask("logout", "logout", token, scope)
    /\ stray' = stray \cup Stale(task)
    /\ FreeHandles(poisoned) /\ Quiet
    /\ UNCHANGED <<server, form, list, poisoned, kept, ended, counts>>

\* Signed out, whether now or before; everywhere, the earlier sessions too.
LoggedOut ==
    /\ Got("logout", {"ok", "denied"})
    /\ ToSignin(NoTask)
    /\ ended' = ended \cup (IF task.reply = "ok" /\ task.arg = "all" THEN 1..task.tok
                            ELSE {task.tok})
    /\ UNCHANGED <<server, counts>>

\* The keys are gone; the token is kept to ask again.
LogoutFailed ==
    /\ Got("logout", {"lost", "fault"}) /\ Done
    /\ Shows("partial", "ready") /\ out' = task.arg /\ form' = "closed" /\ list' = {}
    /\ UNCHANGED <<server, paused, offline, held, kept, stray, ended, counts>>

LeaveAfterPartial ==
    /\ screen = [kind |-> "partial", phase |-> "ready"]
    /\ ToSignin(task)
    /\ UNCHANGED <<server, ended, counts>>

\* The envelope cannot derive, or traps while the list's keys are opened or
\* a new album's is made.
DeviceFails ==
    \/ task.wait = "frames" /\ CannotDerive
    \/ task.op = "signin" /\ Got("ownerKey", {"ok"}) /\ CannotDerive
    \/ Got("albums", {"ok"}) /\ Fault /\ DeviceFailed(TRUE)
    \/ screen.kind = "albums" /\ form = "open" /\ out = "no" /\ Fault /\ DeviceFailed(TRUE)

(***************************************************************************)
(* The specification.                                                      *)
(***************************************************************************)
ClientSteps ==
    \/ WaitsOnline \/ SessionEnded \/ OwnerKeyFetched \/ UnlockDerived
    \/ ParamsAnswered \/ CredentialDerived \/ LoginRefused \/ LoggedIn
    \/ MasterOpened \/ CannotUnlock \/ PolicyChecked \/ AccountKeysMade
    \/ SignupRefused \/ SignedUp \/ AlbumsListed \/ AlbumCreated
    \/ LoggedOut \/ LogoutFailed \/ DeviceFails

UserSteps ==
    \/ \E loaded \in BOOLEAN : Open(loaded)
    \/ Leave
    \/ \E word \in Words : SubmitUnlock(word) \/ SubmitSignin(word)
    \/ RetryUnlock \/ BackToSignin \/ EnterSignup \/ SubmitSignup
    \/ ToggleCreate \/ \E a \in Albums : CreateAlbum(a)
    \/ AskSignOut \/ LeaveAfterPartial
    \/ \E scope \in Scopes : Logout(scope)

Next ==
    \/ Serve \/ Fails \/ EndsElsewhere \/ PolicyUnavailable
    \/ \E r \in stray : ServeStray(r) \/ StrayEnds(r)
    \/ ClientSteps \/ UserSteps \/ RetryOffline \/ PauseEnds

\* The server answers, promises settle and timers fire; the device comes back
\* online or the owner taps retry.  Nothing obliges the owner otherwise.
Fairness ==
    /\ WF_vars(Serve) /\ WF_vars(ClientSteps)
    /\ WF_vars(RetryOffline) /\ WF_vars(PauseEnds)

Spec == Init /\ [][Next]_vars /\ Fairness

(***************************************************************************)
(* Properties.                                                             *)
(***************************************************************************)
\* No key outlives what it is for: the login key only between /login and the
\* owner's key, the master key and the album keys only with a session open on
\* the list, or while the sign-up that made the master key runs; never while
\* the session is being signed out.  And every handle made and not freed is one
\* the session still refers to, or the key of an album being created, whose
\* task frees it even when it wakes after the session it belonged to was reset.
\* (session.ts:9-24, freeHandles, freeQuietly, and every early return of
\* submitSignin and submitSignup; a task run twice is left out.)
KeysAccounted ==
    ~reran =>
        /\ "kek" \in holds => task.op = "signin" /\ task.at \in {"login", "ownerKey"}
        /\ "master" \in holds \/ keys # {} =>
             \/ screen.kind = "albums" /\ out = "no" /\ token # 0
             \/ task.op = "signup" /\ keys = {}
        /\ "material" \in holds => screen.kind = "unlock" /\ task.op # "logout"
        /\ poisoned \/ handles = Referenced(holds, keys)
                                 + Cardinality({r \in stray \cup {task} : Own(r) = 1})

\* A session this device was told is over stays over: a token answered 401, or
\* signed out, never opens anything again, and signed out everywhere the
\* sessions before it do not either.  (logout, logoutAll, authenticateOwner)
SignedOutEnds == \A t \in ended : tokens[t] # "live"

\* No screen is busy for ever: each request is answered or waited out, and a
\* sign-out ends, whatever failed meanwhile.  (call, waitOnline, guarded)
Busy ==
    \/ screen.phase \in {"busy", "deriving"} \/ form = "creating"
    \/ screen.kind = "albums" /\ out # "no"

NeverStuckBusy == Busy ~> ~Busy
=============================================================================
