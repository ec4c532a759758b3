-------------------------- MODULE RecipientClient --------------------------
(***************************************************************************)
(* RecipientSession: the path of an invited recipient, from the link to    *)
(* the grid of thumbnails and the viewer, as the one object of             *)
(* packages/web that holds the album's key and the decrypted pictures.     *)
(*                                                                         *)
(* JavaScript runs one piece of it at a time.  The pieces are cut at the   *)
(* awaits: a request (through `call`), two frames before a derivation, the *)
(* decoding of an image.  Whatever wakes finds the session as others have  *)
(* left it, and it may be over: a terminal screen, or the page was left.   *)
(*                                                                         *)
(* A 429 is a request still asking: the call sleeps and asks again.  Text  *)
(* (title, label, caption, watermark) is left out.                         *)
(***************************************************************************)
EXTENDS Integers, FiniteSets

CONSTANTS
    Photos,       \* what the album may list
    NoPhoto,
    Modes,        \* kinds of link: "qr" holds K_invite, "passphrase" does not
    Concurrency,  \* THUMB_CONCURRENCY
    MaxOpens,     \* bound: how often the viewer opens
    MaxFaults     \* bound: how often a call fails in a way that is retried

ASSUME PhotoAssumption == IsFiniteSet(Photos) /\ NoPhoto \notin Photos

ASSUME BoundAssumption ==
    /\ Modes \subseteq {"qr", "passphrase"}
    /\ Concurrency \in Nat /\ MaxOpens \in Nat /\ MaxFaults \in Nat

VARIABLES
    mode,      \* the kind of this link
    screen,    \* what is on screen, an album's phase and a form's included
    halted,    \* a terminal screen was reached, or the page was left
    offline,   \* `online` is awaited, and the screen says so
    again,     \* the task of this screen failed and awaits `online` to run again
    poisoned,  \* the envelope's instance has trapped
    stored,    \* the tab keeps the invite for a reload
    holds,     \* of albumKey, inviteKey and material, those not null
    handles,   \* K_album handles made and not freed
    task,      \* the task of this screen
    call,      \* what every call is at
    thumb,     \* each photo's cell in the grid
    queue,     \* photos no worker has taken
    worker,    \* photos loaded by a worker, not by a retry
    viewer,    \* the viewer's photo, phase and picture
    viewerGen,
    wants,     \* the photo each opening of the viewer fetches
    open,      \* pictures decoded and not closed
    faults     \* how many of MaxFaults were spent

self   == <<mode, halted, poisoned, stored>>
notice == <<offline, again>>
keys   == <<holds, handles>>
grid   == <<thumb, queue, worker>>
viewing == <<viewer, viewerGen, wants>>
album  == <<grid, viewing, open>>
page   == <<self, notice, screen>>
vars   == <<page, keys, task, call, album, faults>>

(***************************************************************************)
(* Who calls: the task of the screen, the two calls the grid waits for,    *)
(* the loader of each thumbnail, each opening of the viewer, and calls     *)
(* whose task failed while they were under way.                            *)
(***************************************************************************)
Main     == <<"main">>
Details  == <<"details">>
Metadata == <<"metadata">>
Thumb(p) == <<"thumb", p>>
Asset(g) == <<"asset", g>>
Stray(n) == <<"stray", n>>

Gens    == {2 * n - 1 : n \in 1..MaxOpens}
Callers == {Main, Details, Metadata} \cup {Thumb(p) : p \in Photos}
             \cup {Asset(g) : g \in Gens} \cup {Stray(n) : n \in 1..MaxFaults}

Calls == {"idle", "asking", "waiting", "decoding", "ok", "missing", "bad"}

Forms     == {"ready", "empty", "wrong"}
Unsettled == {"starting", "loading", "deriving", "opening"}
Terminals == {"dead", "newer-version", "not-recognised", "revoked", "device-failed"}
Screens   == Forms \cup Unsettled \cup Terminals \cup {"onboarding", "album"}

NoThumbs == [p \in Photos |-> "absent"]
NoViewer == [photo |-> NoPhoto, phase |-> "closed", picture |-> NoPhoto]

TypeOK ==
    /\ mode \in Modes
    /\ screen \in Screens
    /\ {halted, offline, again, poisoned, stored} \subseteq BOOLEAN
    /\ holds \subseteq {"key", "invite", "material"}
    /\ handles \in Nat
    /\ task \in {"none", "key", "frames", "recipient", "grid"}
    /\ call \in [Callers -> Calls]
    /\ thumb \in [Photos -> {"absent", "loading", "ready", "failed", "unavailable"}]
    /\ queue \subseteq Photos /\ worker \subseteq Photos
    /\ viewer \in [photo : Photos \cup {NoPhoto}, picture : Photos \cup {NoPhoto},
                   phase : {"closed", "loading", "shown", "removed", "failed"}]
    /\ viewerGen \in 0..(2 * MaxOpens)
    /\ wants \in [Gens -> Photos \cup {NoPhoto}]
    /\ open \in Nat
    /\ faults \in 0..MaxFaults

Init ==
    /\ mode \in Modes
    /\ screen = "starting"
    /\ halted = FALSE /\ offline = FALSE /\ again = FALSE /\ poisoned = FALSE
    /\ stored = TRUE
    /\ holds = {} /\ handles = 0
    /\ task = "none"
    /\ call = [c \in Callers |-> "idle"]
    /\ thumb = NoThumbs /\ queue = {} /\ worker = {}
    /\ viewer = NoViewer /\ viewerGen = 0
    /\ wants = [g \in Gens |-> NoPhoto]
    /\ open = 0 /\ faults = 0

Goes(c, to) == [call EXCEPT ![c] = to]

(***************************************************************************)
(* The ends: dropKeyState, terminal, a trap, and leaving the page.  What a *)
(* task holds in its closure (queue, wants, task) survives them.           *)
(***************************************************************************)
\* online.resolve: every waiting call asks again.
Woken(calls) ==
    [c \in Callers |-> IF calls[c] = "waiting" THEN "asking" ELSE calls[c]]

OnScreen ==
    Cardinality({p \in Photos : thumb[p] = "ready"})
      + (IF viewer.picture = NoPhoto THEN 0 ELSE 1)

Freed(free) == IF free /\ "key" \in holds THEN 1 ELSE 0

DropKeyState(free) ==
    /\ handles' = handles - Freed(free)
    /\ holds' = {}
    /\ open' = open - OnScreen

Ends(kind, calls) ==
    /\ halted' = TRUE
    /\ stored' = (stored /\ kind = "device-failed")
    /\ DropKeyState(kind # "device-failed" /\ ~poisoned)
    /\ call' = Woken(calls)
    /\ screen' = kind /\ thumb' = NoThumbs /\ viewer' = NoViewer
    /\ offline' = FALSE /\ again' = FALSE
    /\ UNCHANGED <<mode, task, queue, worker, viewerGen, wants, faults>>

Terminal(kind, calls) == Ends(kind, calls) /\ UNCHANGED poisoned

Trap(calls) == Ends("device-failed", calls) /\ poisoned' = TRUE

Dispose ==
    /\ ~halted
    /\ halted' = TRUE
    /\ DropKeyState(~poisoned)
    /\ UNCHANGED <<mode, screen, notice, poisoned, stored, task, call, grid, viewing, faults>>

(***************************************************************************)
(* What `call` does with a request whichever it is: wait until online      *)
(* after no response or a fault of the server, end on 403 and 401, and     *)
(* stop when it wakes in a session that is over.                           *)
(***************************************************************************)
Asks(c) == ~halted /\ call[c] = "asking"

Fault == faults < MaxFaults /\ faults' = faults + 1

Unreachable(c) ==
    /\ Asks(c) /\ Fault
    /\ call' = Goes(c, "waiting")
    /\ offline' = TRUE
    /\ UNCHANGED <<self, screen, again, keys, task, album>>

Denied(c) ==
    /\ Asks(c)
    /\ \E kind \in {"revoked", "not-recognised"} : Terminal(kind, Goes(c, "idle"))

ThrowsHalted(c) ==
    /\ halted /\ call[c] = "asking"
    /\ call' = Goes(c, "idle")
    /\ worker' = {p \in worker : Thumb(p) # c}
    /\ UNCHANGED <<page, keys, task, thumb, queue, viewing, open, faults>>

(***************************************************************************)
(* guarded: a task that fails as nobody foresaw shows the offline state    *)
(* and runs again, whole, when the retry comes.  The passphrase's task     *)
(* begins with the derivation and goes on to the recipient's row.          *)
(***************************************************************************)
Abandoned(calls) ==
    [c \in Callers |->
        CASE c \in {Details, Metadata} -> "idle"
          [] c = Stray(faults + 1) ->
               IF \E d \in {Details, Metadata} : calls[d] = "waiting" THEN "waiting"
               ELSE IF \E d \in {Details, Metadata} : calls[d] = "asking" THEN "asking"
               ELSE "idle"
          [] OTHER -> calls[c]]

RunsAgain(on, what, calls) ==
    /\ Fault
    /\ again' = TRUE /\ offline' = TRUE
    /\ screen' = on /\ task' = what /\ call' = calls
    /\ UNCHANGED <<self, keys, album>>

FirstCallsMetadata_Mutant(t) == IF t = "grid" THEN {Metadata} ELSE {Main}

FirstCalls(t) == IF t = "grid" THEN {Details, Metadata} ELSE {Main}

Derives(t) == t = "recipient" /\ mode = "passphrase"

RetryOffline ==
    /\ ~halted /\ offline
    /\ offline' = FALSE /\ again' = FALSE
    /\ task' = IF again /\ Derives(task) THEN "frames" ELSE task
    /\ call' = [c \in Callers |->
                  IF again /\ ~Derives(task) /\ c \in FirstCalls(task) THEN "asking"
                  ELSE Woken(call)[c]]
    /\ UNCHANGED <<self, screen, keys, album, faults>>

(***************************************************************************)
(* Opening the link: start, openInvite, fetchKeyMaterial.  A QR link's key *)
(* is unwrapped in the step that takes the answer, and K_invite with it.   *)
(***************************************************************************)
Start ==
    /\ ~halted /\ screen = "starting" /\ task = "none"
    /\ \/ \E kind \in {"dead", "newer-version"} : Terminal(kind, call)
       \/ /\ screen' = IF mode = "qr" THEN "starting" ELSE "loading"
          /\ holds' = IF mode = "qr" THEN {"invite"} ELSE {}
          /\ task' = "key"
          /\ call' = Goes(Main, "asking")
          /\ UNCHANGED <<self, notice, handles, album, faults>>

FetchesKey == Asks(Main) /\ task = "key"

KeyRefused ==
    /\ FetchesKey
    /\ \/ Terminal("not-recognised", Goes(Main, "idle"))  \* of the other kind, or unusable
       \/ mode = "qr" /\ \E kind \in {"dead", "device-failed"} :
                            Terminal(kind, Goes(Main, "idle"))
       \/ mode = "qr" /\ Trap(Goes(Main, "idle"))

\* Without K_invite the task ends in silence, and the screen stays.
InviteOpens ==
    /\ FetchesKey /\ mode = "qr"
    /\ IF "invite" \in holds
       THEN /\ holds' = {"key"} /\ handles' = handles + 1
            /\ task' = "recipient" /\ UNCHANGED call  \* asks at once
       ELSE UNCHANGED <<keys, task>> /\ call' = Goes(Main, "idle")
    /\ UNCHANGED <<page, album, faults>>

MaterialArrives ==
    /\ FetchesKey /\ mode = "passphrase"
    /\ holds' = {"material"}
    /\ screen' = "ready"
    /\ task' = "none" /\ call' = Goes(Main, "idle")
    /\ UNCHANGED <<self, notice, handles, album, faults>>

(***************************************************************************)
(* submitPassphrase, and the derivation two frames later, which nothing    *)
(* stops.  The same words and material give the same answer again.         *)
(***************************************************************************)
Submit ==
    /\ ~halted /\ screen \in Forms /\ "material" \in holds
    /\ \/ screen' = "empty" /\ UNCHANGED task
       \/ screen' = "deriving" /\ task' = "frames"
    /\ UNCHANGED <<self, notice, keys, call, album, faults>>

AdoptsAlways_Mutant == TRUE

\* A key that arrives in a session that is over is freed at once.
Adopts == ~halted

Derive ==
    /\ task = "frames"
    /\ IF Adopts
       THEN /\ holds' = (holds \ {"material"}) \cup {"key"}
            /\ handles' = handles + 1
            /\ task' = "recipient" /\ call' = Goes(Main, "asking")
       ELSE UNCHANGED <<keys, call>> /\ task' = "none"
    /\ UNCHANGED <<page, album, faults>>

DeriveFails ==
    /\ task = "frames" /\ ~halted
    /\ \/ \E form \in {"empty", "wrong"} :
            /\ "key" \notin holds
            /\ screen' = form
            /\ task' = "none"
            /\ UNCHANGED <<self, notice, keys, call, album, faults>>
       \/ "key" \notin holds /\ Terminal("not-recognised", call)
       \/ Terminal("device-failed", call)
       \/ Trap(call)

DerivesForNobody ==
    /\ task = "frames" /\ halted
    /\ task' = "none"
    /\ poisoned' \in {poisoned, TRUE}
    /\ UNCHANGED <<mode, screen, halted, notice, stored, keys, call, album, faults>>

(***************************************************************************)
(* enterOnboarding.  The album's details are asked for while the reader is *)
(* on the onboarding screen.                                               *)
(***************************************************************************)
FetchesRecipient == Asks(Main) /\ task = "recipient"

RecipientArrives ==
    /\ FetchesRecipient
    /\ screen' = "onboarding"
    /\ task' = "none"
    /\ call' = [call EXCEPT ![Main] = "idle", ![Details] = "asking"]
    /\ UNCHANGED <<self, notice, keys, album, faults>>

RecipientRefused ==
    /\ FetchesRecipient
    /\ \/ Terminal("dead", Goes(Main, "idle"))  \* another album's, or a label that does not open
       \/ Trap(Goes(Main, "idle"))

\* A failure no branch is for, or a label that is not base64.
Unforeseen == Asks(Main) /\ RunsAgain(screen, task, Goes(Main, "idle"))

(***************************************************************************)
(* enterGrid and loadGrid, which waits for two calls at once.  It goes on  *)
(* in the step of the answer that decides: the second good one, or the     *)
(* first bad one.                                                          *)
(***************************************************************************)
StartedOne_Mutant(n) == Cardinality({i \in 0..(Concurrency - 1) : i < n - i - 1})

\* The loop's bound is the queue's length, which each worker shortens.
Started(n) == Cardinality({i \in 0..(Concurrency - 1) : i < n - i})

Lists(usable, shown, calls) ==
    /\ screen' = "album"
    /\ thumb' = [p \in Photos |-> IF p \in usable THEN "loading"
                                  ELSE IF p \in shown THEN "unavailable"
                                  ELSE "absent"]
    /\ \E first \in SUBSET usable :
         /\ Cardinality(first) = Started(Cardinality(usable))
         /\ worker' = first /\ queue' = usable \ first
         /\ call' = [c \in Callers |->
                       IF c \in {Details, Metadata} THEN "idle"
                       ELSE IF \E p \in first : c = Thumb(p) THEN "asking"
                       ELSE calls[c]]
    /\ task' = "none"
    /\ UNCHANGED <<self, notice, keys, viewing, open, faults>>

Joined(calls) ==
    LET two == {calls[Details], calls[Metadata]}
    IN \/ two = {"ok"} /\ \E shown \in SUBSET Photos :
            \E usable \in SUBSET shown : Lists(usable, shown, calls)
       \/ two = {"ok"} /\ Terminal("dead", calls)  \* the title does not open
       \/ two = {"ok"} /\ Trap(calls)
       \/ two = {"ok"} /\ RunsAgain(screen, task, Abandoned(calls))         \* the title is not base64
       \/ "missing" \in two /\ Terminal("dead", calls)
       \/ "bad" \in two /\ RunsAgain(screen, task, Abandoned(calls))
       \/ /\ two # {"ok"} /\ two \cap {"missing", "bad"} = {}
          /\ call' = calls
          /\ UNCHANGED <<page, keys, task, album, faults>>

EnterGrid ==
    LET calls == Goes(Metadata, "asking")
    IN /\ ~halted /\ screen = "onboarding"
       /\ \/ call[Details] = "missing" /\ Terminal("dead", calls)
          \/ call[Details] = "bad" /\ RunsAgain("opening", "grid", Abandoned(calls))
          \/ /\ call[Details] \in {"asking", "waiting", "ok"}
             /\ screen' = "opening" /\ task' = "grid" /\ call' = calls
             /\ UNCHANGED <<self, notice, keys, album, faults>>

\* 404 is "missing"; what no branch of `call` is for is "bad".
AlbumAnswers(c) ==
    /\ Asks(c)
    /\ \E to \in {"ok", "missing", "bad"} :
         IF task = "grid" THEN Joined(Goes(c, to))
         ELSE call' = Goes(c, to)
              /\ UNCHANGED <<page, keys, task, album, faults>>

\* An answer nobody waits for any more.
StrayAnswers(n) ==
    /\ Asks(Stray(n))
    /\ call' = Goes(Stray(n), "idle")
    /\ UNCHANGED <<page, keys, task, album, faults>>

(***************************************************************************)
(* The thumbnails: workers that take the next photo when one is done, and  *)
(* retries of single cells.  A decoded picture that nobody shows is closed *)
(* at once.                                                                *)
(***************************************************************************)
TakesNext(p) == p \in worker /\ queue # {} /\ ~halted

LoaderEnds(p) ==
    IF TakesNext(p)
    THEN \E q \in queue :
           /\ queue' = queue \ {q}
           /\ worker' = (worker \ {p}) \cup {q}
           /\ call' = [call EXCEPT ![Thumb(p)] = "idle", ![Thumb(q)] = "asking"]
    ELSE /\ worker' = worker \ {p}
         /\ call' = Goes(Thumb(p), "idle")
         /\ UNCHANGED queue

\* updateItem, for an item that is still on the grid.
Cell(p, to) == [thumb EXCEPT ![p] = IF @ = "absent" THEN @ ELSE to]

ThumbArrives(p) ==
    /\ Asks(Thumb(p))
    /\ \/ call' = Goes(Thumb(p), "decoding")
          /\ UNCHANGED <<page, keys, task, album, faults>>
       \/ Trap(Goes(Thumb(p), "idle"))

\* Not fetched, not decrypted, or not decoded.
ThumbFails(p) ==
    /\ Asks(Thumb(p)) \/ call[Thumb(p)] = "decoding"
    /\ thumb' = Cell(p, "failed")
    /\ LoaderEnds(p)
    /\ UNCHANGED <<page, keys, task, viewing, open, faults>>

ShowsHalted_Mutant(p) == thumb[p] # "absent"

Shows(p) == ~halted /\ thumb[p] # "absent"

ThumbDecodes(p) ==
    /\ call[Thumb(p)] = "decoding"
    /\ open' = IF Shows(p) THEN open + 1 ELSE open
    /\ thumb' = IF halted THEN thumb ELSE Cell(p, "ready")
    /\ LoaderEnds(p)
    /\ UNCHANGED <<page, keys, task, viewing, faults>>

RetryThumb(p) ==
    /\ ~halted /\ thumb[p] = "failed"
    /\ thumb' = Cell(p, "loading")
    /\ call' = Goes(Thumb(p), "asking")
    /\ UNCHANGED <<page, keys, task, queue, worker, viewing, open, faults>>

(***************************************************************************)
(* The viewer.  Each opening and each closing moves viewerGen on, and a    *)
(* load writes only to the opening that started it.                        *)
(***************************************************************************)
OpenViewer(p) ==
    /\ ~halted /\ screen = "album"
    /\ viewer.phase = "closed" /\ thumb[p] \notin {"absent", "unavailable"}
    /\ viewerGen < 2 * MaxOpens
    /\ viewerGen' = viewerGen + 1
    /\ viewer' = [photo |-> p, phase |-> "loading", picture |-> NoPhoto]
    /\ wants' = [wants EXCEPT ![viewerGen + 1] = p]
    /\ call' = Goes(Asset(viewerGen + 1), "asking")
    /\ UNCHANGED <<page, keys, task, grid, open, faults>>

CloseViewer ==
    /\ ~halted /\ viewer.phase # "closed"
    /\ viewerGen' = viewerGen + 1
    /\ open' = IF viewer.picture = NoPhoto THEN open ELSE open - 1
    /\ viewer' = NoViewer
    /\ UNCHANGED <<page, keys, task, call, grid, wants, faults>>

AnyGen_Mutant(g) == viewer.phase # "closed"

Current(g) == viewer.phase # "closed" /\ g = viewerGen

AssetArrives(g) ==
    /\ Asks(Asset(g))
    /\ \/ call' = Goes(Asset(g), IF g = viewerGen THEN "decoding" ELSE "idle")
          /\ UNCHANGED <<page, keys, task, album, faults>>
       \/ g = viewerGen /\ Trap(Goes(Asset(g), "idle"))

\* Removed is a 404; failed is any other answer, or bytes that do not open.
AssetFails(g) ==
    /\ \/ Asks(Asset(g))
       \/ call[Asset(g)] = "decoding"
    /\ \E phase \in {"removed", "failed"} :
         /\ call[Asset(g)] = "decoding" => phase = "failed"
         /\ viewer' = IF Current(g) THEN [viewer EXCEPT !.phase = phase] ELSE viewer
    /\ call' = Goes(Asset(g), "idle")
    /\ UNCHANGED <<page, keys, task, grid, viewerGen, wants, open, faults>>

AssetDecodes(g) ==
    /\ call[Asset(g)] = "decoding"
    /\ call' = Goes(Asset(g), "idle")
    /\ IF ~halted /\ Current(g)
       THEN /\ viewer' = [viewer EXCEPT !.phase = "shown", !.picture = wants[g]]
            /\ open' = open + 1
       ELSE UNCHANGED <<viewer, open>>
    /\ UNCHANGED <<page, keys, task, grid, viewerGen, wants, faults>>

(***************************************************************************)
(* One step of each call, whatever it brings.                              *)
(***************************************************************************)
Answered(c) ==
    \/ Unreachable(c) \/ Denied(c) \/ ThrowsHalted(c)
    \/ c = Main /\ (KeyRefused \/ InviteOpens \/ MaterialArrives
                    \/ RecipientArrives \/ RecipientRefused \/ Unforeseen)
    \/ c \in {Details, Metadata} /\ AlbumAnswers(c)
    \/ \E n \in 1..MaxFaults : c = Stray(n) /\ StrayAnswers(n)
    \/ \E p \in Photos : c = Thumb(p) /\ (ThumbArrives(p) \/ ThumbFails(p) \/ ThumbDecodes(p))
    \/ \E g \in Gens : c = Asset(g) /\ (AssetArrives(g) \/ AssetFails(g) \/ AssetDecodes(g))

Derivation == Derive \/ DeriveFails \/ DerivesForNobody

Next ==
    \/ Start \/ Submit \/ EnterGrid \/ CloseViewer \/ Dispose
    \/ RetryOffline \/ Derivation
    \/ \E p \in Photos : RetryThumb(p) \/ OpenViewer(p)
    \/ \E c \in Callers : Answered(c)

(***************************************************************************)
(* The page starts the session; the browser settles what it was asked for; *)
(* the offline notice is retried, by its button or by the window's         *)
(* "online" event.  Nobody has to type, to open a photo or to stay.        *)
(***************************************************************************)
Fairness ==
    /\ WF_vars(Start) /\ WF_vars(Derivation) /\ WF_vars(RetryOffline)
    /\ \A c \in Callers : WF_vars(Answered(c))

Spec == Init /\ [][Next]_vars /\ Fairness

-----------------------------------------------------------------------------
(***************************************************************************)
(* Properties.                                                             *)
(***************************************************************************)

\* Every decoded picture that is not closed is one the screen shows, and when
\* the session is over none is open: what is decoded late, for a closed viewer
\* or after an end, is closed by whoever decoded it.
PicturesAccounted == open = IF halted THEN 0 ELSE OnScreen

\* The viewer never shows a photograph other than the one that was opened,
\* however many openings are still fetching and decoding.
ViewerShowsItsPhoto == viewer.phase = "shown" => viewer.picture = viewer.photo

\* Once over, the session holds no key material and its K_album handle is
\* freed, unless the envelope trapped.  A handle made by deriving twice is
\* KeyReleased's matter.
NothingKept ==
    halted => /\ holds = {}
              /\ (mode = "qr" \/ faults = 0) /\ ~poisoned => handles = 0

\* "403 ACCESS_REVOKED, anywhere: K_album freed" (session.ts:7; flows 1.2).
KeyReleased == screen = "revoked" => handles = 0

\* Nothing goes on saying that it is loading: the screens that tell the reader
\* to wait are left, if retries come and failures end, for every failed step is
\* run again with all it needs; and every listed thumbnail is loaded or failed,
\* for the workers empty the queue whatever they meet.
Settles ==
    /\ screen \in Unsettled ~> (halted \/ screen \notin Unsettled)
    /\ \A p \in Photos : thumb[p] = "loading" ~> (halted \/ thumb[p] # "loading")

=============================================================================
