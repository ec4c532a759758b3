---------------------------- MODULE OwnerScreens ----------------------------
(***************************************************************************)
(* What an owner with an open session walks through: the album list, an    *)
(* album, its invite form, its people and their log.  The session object   *)
(* has one of the children album, invite and people open at a time, and    *)
(* each sends requests that may be answered when it no longer is.          *)
(*                                                                         *)
(* What a child does inside is OwnerAlbum and Sharing; here it is as much  *)
(* as decides who may leave, and what a late answer does to the screen.    *)
(* The end of a session makes every request stale (OwnerSession); the      *)
(* owner may then sign in again to the same object.                        *)
(***************************************************************************)
EXTENDS Integers, Sequences

CONSTANTS
    AlbumIds,
    MaxViews,    \* bound: children and logs opened
    MaxMishaps   \* bound: failed answers, albums gone, sessions ended

ASSUME ScreensAssumption ==
    "none" \notin AlbumIds /\ MaxViews \in Nat /\ MaxMishaps \in Nat

VARIABLES
    there,       \* the albums the server has
    listed,      \* albumList
    shown,       \* the screen
    open,        \* the fields album, invite and people: a child's number, 0 for null
    log,         \* the open log's number, 0 for null
    views,       \* views[n]: the album child n was made for
    logs,        \* logs opened
    languages,   \* of an invite's form: "idle", "loading", "failed" or "known"
    afterLeave,  \* where to go once the album, asked to leave, is left
    asked,       \* requests, and what else is awaited
    awaits,      \* `online` is awaited, and the screen says so
    wish,        \* where the owner last asked to go from the album
    astray,      \* an album was closed under an open question
    mishaps

outside     == <<there, listed>>
place       == <<shown, open, log>>
made        == <<views, logs>>
wishes      == <<afterLeave, wish, astray>>
screensVars == <<outside, place, made, languages, wishes, asked, awaits, mishaps>>

Children == {"album", "invite", "people"}
NoChild  == [c \in Children |-> 0]

\* at: loading, ready or more, or an invite's step.  over: what lies over the
\* screen, or the mode of an invite.  leaving: the question whether to leave.
On(kind, of, at) == [kind |-> kind, of |-> of, at |-> at, over |-> "none", leaving |-> FALSE]
ListShown == On("albums", "none", "ready")
SignedOut == On("signin", "none", "ready")

Req(op, n, l) == [op |-> op, kid |-> n, log |-> l, st |-> "asked"]

ScreensTypeOK ==
    /\ there \subseteq AlbumIds /\ listed \subseteq AlbumIds
    /\ shown.kind \in {"albums", "album", "invite", "people", "log", "signin", "device-failed"}
    /\ open \in [Children -> 0..Len(views)] /\ log \in 0..logs
    /\ views \in Seq(AlbumIds) /\ logs \in Nat
    /\ languages \in {"idle", "loading", "failed", "known"}
    /\ {afterLeave, wish} \subseteq {"none", "albums", "invite", "people"}
    /\ \A r \in asked : r.kid \in DOMAIN views /\ r.st \in {"asked", "waiting", "again"}
    /\ awaits \in BOOLEAN /\ astray \in BOOLEAN
    /\ mishaps \in 0..MaxMishaps

ScreensInit ==
    /\ there = AlbumIds /\ listed = AlbumIds
    /\ shown = ListShown /\ open = NoChild /\ log = 0
    /\ views = <<>> /\ logs = 0 /\ languages = "idle"
    /\ afterLeave = "none" /\ wish = "none" /\ astray = FALSE
    /\ asked = {} /\ awaits = FALSE /\ mishaps = 0

Alive(r)   == r.kid \in {open[c] : c \in Children}
Gone(r)    == views[r.kid] \notin there
Of(child)  == {r \in asked : r.kid = open[child]}
Occupied(ops)  == \E r \in asked : Alive(r) /\ r.op \in ops

Mishap == mishaps < MaxMishaps /\ mishaps' = mishaps + 1

\* Bound: a view the owner opens is within MaxViews.
Room == Len(views) + logs < MaxViews

-----------------------------------------------------------------------------
(* A child is entered by closing the others.  reqs: what is still asked.   *)

\* Of a closed child's requests only these can still change anything; the
\* others find it closed when they are answered.
Lasting(reqs) == {r \in reqs : r.op \in {"create", "people", "page"}}

Only_Mutant(child, n) == [open EXCEPT ![child] = n]

Only(child, n) == [NoChild EXCEPT ![child] = n]

Enters(child, a, reqs) ==
    LET n == Len(views) + 1
        first == [album |-> {Req("load", n, 0)}, invite |-> {}, people |-> {Req("people", n, 0)}]
    IN  /\ views' = Append(views, a) /\ logs' = logs
        /\ open' = Only(child, n) /\ log' = 0
        /\ shown' = IF child = "invite" THEN [On(child, a, "form") EXCEPT !.over = "qr"]
                    ELSE On(child, a, "loading")
        /\ languages' = "idle"
        /\ asked' = Lasting(reqs) \cup first[child]

BackToList(reqs) ==
    /\ open' = NoChild /\ log' = 0
    /\ shown' = ListShown /\ asked' = Lasting(reqs) /\ languages' = "idle"
    /\ UNCHANGED made

OpenAlbum(a) ==
    /\ shown = ListShown /\ a \in listed /\ Room
    /\ Enters("album", a, asked)
    /\ UNCHANGED <<outside, afterLeave, astray, awaits, mishaps>> /\ wish' = "none"

-----------------------------------------------------------------------------
(* The album, and the ways out of it *)

Asks(leave) ==
    /\ shown' = [shown EXCEPT !.leaving = leave]
    /\ UNCHANGED <<open, log, made, languages, asked>>

\* leaveAlbum: not while a removal is under way.  to: where, once it is left.
MayLeaveAlbum == shown.kind = "album" /\ shown.over # "removing"

Departs(to, reqs) ==
    /\ IF to \in {"invite", "people"} THEN Enters(to, shown.of, reqs) ELSE BackToList(reqs)
    /\ afterLeave' = "none"

\* Under a sheet or the question the album is inert.
OnAlbum == shown.kind = "album" /\ shown.over = "none" /\ ~shown.leaving

LeaveAlbum ==
    /\ OnAlbum /\ wish' = "albums" /\ (afterLeave \in {"invite", "people"} => Room)
    /\ IF Occupied({"upload"}) THEN Asks(TRUE) /\ afterLeave' = "none"
       ELSE Departs(afterLeave, asked)
    /\ UNCHANGED <<outside, astray, awaits, mishaps>>

LeaveAlbumFor(next) ==
    /\ OnAlbum /\ shown.at = "ready" /\ Room /\ wish' = next
    /\ IF Occupied({"upload"}) THEN Asks(TRUE) /\ afterLeave' = next
       ELSE Departs(next, asked)
    /\ UNCHANGED <<outside, astray, awaits, mishaps>>

LeaveAnyway ==
    /\ shown.kind = "album" /\ shown.leaving /\ (afterLeave # "none" => Room)
    /\ Departs(afterLeave, asked)
    /\ UNCHANGED <<outside, wish, astray, awaits, mishaps>>

StayInAlbum_Mutant ==
    /\ shown.kind = "album" /\ shown.leaving /\ Asks(FALSE) /\ wish' = "none"
    /\ UNCHANGED <<outside, afterLeave, astray, awaits, mishaps>>

StayInAlbum ==
    /\ shown.kind = "album" /\ shown.leaving /\ Asks(FALSE) /\ wish' = "none"
    /\ afterLeave' = "none"
    /\ UNCHANGED <<outside, astray, awaits, mishaps>>

Calm == UNCHANGED <<outside, open, log, made, languages, wishes, awaits>>

\* What lies over the album.  A review is sent by its own button; a removal is
\* asked about, confirmed, and under way until the server answers.
OverAlbum ==
    /\ shown.kind = "album" /\ shown.at = "ready" /\ ~shown.leaving
    /\ \/ /\ shown.over = "none" /\ UNCHANGED asked
          /\ \E over \in {"viewer", "review", "confirm"} : shown' = [shown EXCEPT !.over = over]
       \/ /\ shown.over \in {"viewer", "review", "confirm"} /\ shown' = [shown EXCEPT !.over = "none"]
          /\ asked' \in {asked} \cup (IF shown.over # "review" THEN {}
                                   ELSE {asked \cup {Req("upload", open.album, 0)}})
       \/ /\ shown.over = "confirm" /\ shown' = [shown EXCEPT !.over = "removing"]
          /\ asked' = asked \cup {Req("remove", open.album, 0)}
    /\ UNCHANGED mishaps /\ Calm

-----------------------------------------------------------------------------
(* The invite form *)

OnInvite(step) == shown.kind = "invite" /\ shown.at = step

Form(screen, reqs) ==
    /\ shown' = screen /\ asked' = reqs
    /\ UNCHANGED <<outside, open, log, made, wishes, awaits>>

\* The word lists are a chunk, asked for when a passphrase is first chosen.
ChooseMode ==
    /\ OnInvite("form") /\ UNCHANGED mishaps
    /\ \/ shown.over = "passphrase" /\ Form([shown EXCEPT !.over = "qr"], asked) /\ UNCHANGED languages
       \/ /\ shown.over = "qr" \/ languages = "failed"
          /\ IF languages \in {"idle", "failed"}
             THEN /\ languages' = "loading"
                  /\ Form([shown EXCEPT !.over = "passphrase"], asked \cup {Req("words", open.invite, 0)})
             ELSE Form([shown EXCEPT !.over = "passphrase"], asked) /\ UNCHANGED languages

WordsLoaded(r) ==
    /\ r.op = "words"
    /\ \/ languages' = "known" /\ UNCHANGED mishaps
       \/ languages' = "failed" /\ Mishap
    /\ Form(shown, asked \ {r})

\* An empty label, or no list to draw words from, leaves the form as it was.
CreateInvite ==
    /\ OnInvite("form") /\ UNCHANGED <<languages, mishaps>>
    /\ \/ /\ shown.over = "qr"
          /\ Form([shown EXCEPT !.at = "creating"], asked \cup {Req("create", open.invite, 0)})
       \/ /\ shown.over = "passphrase" /\ languages = "known"
          /\ Form([shown EXCEPT !.at = "deriving"], asked \cup {Req("derive", open.invite, 0)})

Derived(r) ==
    /\ r.op = "derive" /\ UNCHANGED languages
    /\ \/ /\ UNCHANGED mishaps
          /\ Form([shown EXCEPT !.at = "creating"], (asked \ {r}) \cup {Req("create", r.kid, 0)})
       \/ Mishap /\ Form([shown EXCEPT !.at = "form"], asked \ {r})

\* A conflict starts again with new secrets; a refusal goes back to the form.
InviteAnswered(r) ==
    /\ r.op = "create" /\ r.st = "asked" /\ ~Gone(r) /\ UNCHANGED languages
    /\ \/ Alive(r) /\ Form([shown EXCEPT !.at = "share"], asked \ {r}) /\ UNCHANGED mishaps
       \/ Alive(r) /\ Form([shown EXCEPT !.at = "form"], asked \ {r}) /\ Mishap
       \/ ~Alive(r) /\ Form(shown, asked \ {r}) /\ UNCHANGED mishaps
       \/ /\ Alive(r) /\ shown.over = "passphrase" /\ Mishap
          /\ Form([shown EXCEPT !.at = "deriving"], (asked \ {r}) \cup {Req("derive", r.kid, 0)})

AskLeaveInvite ==
    /\ OnInvite("share") /\ Form([shown EXCEPT !.leaving = ~@], asked)
    /\ UNCHANGED <<languages, mishaps>>

\* From the form at once; from the share step once asked and confirmed.
LeaveInvite_Mutant ==
    /\ OnInvite("form") \/ OnInvite("share")
    /\ Room /\ Enters("album", shown.of, asked)
    /\ UNCHANGED <<outside, afterLeave, astray, awaits, mishaps>> /\ wish' = "none"

LeaveInvite ==
    /\ OnInvite("form") \/ (OnInvite("share") /\ shown.leaving)
    /\ Room /\ Enters("album", shown.of, asked)
    /\ UNCHANGED <<outside, afterLeave, astray, awaits, mishaps>> /\ wish' = "none"

-----------------------------------------------------------------------------
(* The people, and their log *)

OnPeople == shown.kind = "people"

People(screen, reqs) ==
    /\ shown' = screen /\ asked' = reqs
    /\ UNCHANGED <<outside, open, log, made, languages, wishes, awaits>>

AskRevoke ==
    /\ OnPeople /\ shown.at = "ready" /\ UNCHANGED mishaps
    /\ \/ shown.over = "none" /\ People([shown EXCEPT !.over = "revoke"], asked)
       \/ shown.over = "revoke" /\ People([shown EXCEPT !.over = "none"], asked)
       \/ /\ shown.over = "revoke"
          /\ People([shown EXCEPT !.over = "revoking"], asked \cup {Req("revoke", open.people, 0)})

\* A 404 means the list was stale: it is loaded again.
Revoked(r) ==
    /\ r.op = "revoke" /\ r.st = "asked"
    /\ \/ ~Gone(r) /\ People([shown EXCEPT !.over = "none"], asked \ {r}) /\ UNCHANGED mishaps
       \/ ~Gone(r) /\ People([shown EXCEPT !.over = "revoke"], asked \ {r}) /\ Mishap
       \/ /\ Gone(r) /\ UNCHANGED mishaps
          /\ People(On("people", shown.of, "loading"), (asked \ {r}) \cup {Req("people", r.kid, 0)})

PeopleLoaded(r) ==
    /\ r.op = "people" /\ r.st = "asked" /\ ~Gone(r)
    /\ People(IF Alive(r) THEN On("people", shown.of, "ready") ELSE shown, asked \ {r})
    /\ UNCHANGED mishaps

OpenLog ==
    /\ OnPeople /\ shown.at = "ready" /\ shown.over = "none" /\ Room
    /\ logs' = logs + 1 /\ log' = logs + 1
    /\ shown' = On("log", shown.of, "loading")
    /\ asked' = asked \cup {Req("page", open.people, logs + 1)}
    /\ UNCHANGED <<outside, open, views, languages, wishes, awaits, mishaps>>

MoreLog ==
    /\ shown.kind = "log" /\ shown.at = "ready"
    /\ People([shown EXCEPT !.at = "more"], asked \cup {Req("page", open.people, log)})
    /\ UNCHANGED mishaps

\* A page of a log that is closed is dropped.
PageRead(r) ==
    /\ r.op = "page" /\ r.st = "asked" /\ ~Gone(r)
    /\ People(IF Alive(r) /\ r.log = log THEN [shown EXCEPT !.at = "ready"] ELSE shown, asked \ {r})
    /\ UNCHANGED mishaps

CloseLog ==
    /\ shown.kind = "log" /\ log' = 0
    /\ shown' = On("people", shown.of, "ready")
    /\ UNCHANGED <<outside, open, made, languages, wishes, asked, awaits, mishaps>>

LeavePeople ==
    /\ OnPeople /\ shown.over # "revoking" /\ Room
    /\ Enters("album", shown.of, asked)
    /\ UNCHANGED <<outside, afterLeave, astray, awaits, mishaps>> /\ wish' = "none"

-----------------------------------------------------------------------------
(* What the album's requests are answered *)

\* Once the list is there the statuses of what is not ready are asked for.
AlbumLoaded(r) ==
    /\ r.op = "load" /\ r.st = "asked" /\ ~Gone(r)
    /\ shown' = [shown EXCEPT !.at = "ready"]
    /\ asked' \in {asked \ {r}, (asked \ {r}) \cup {Req("statuses", r.kid, 0)}}
    /\ UNCHANGED mishaps /\ Calm

\* An upload or a removal is over, or the statuses are known, a 404 included.
AlbumAnswered(r) ==
    /\ r.op \in {"upload", "remove", "statuses"} /\ r.st = "asked"
    /\ shown' = IF r.op = "remove" THEN [shown EXCEPT !.over = "none"] ELSE shown
    /\ asked' = asked \ {r}
    /\ UNCHANGED mishaps /\ Calm

\* An album's 404: the album and the invite look whether they are still open
\* (a closed invite throws on, as if nobody foresaw it); the people do not.
AlbumIsGone(r) ==
    /\ r.st = "asked" /\ Gone(r)
    /\ \/ r.op = "load" /\ MayLeaveAlbum /\ Departs(afterLeave, asked \ {r}) /\ UNCHANGED astray
       \/ /\ r.op = "load" /\ ~MayLeaveAlbum /\ asked' = asked \ {r}
          /\ UNCHANGED <<place, made, languages, afterLeave, astray>>
       \/ /\ r.op \in {"people", "page"} \/ (r.op = "create" /\ Alive(r))
          /\ BackToList(asked \ {r})
          /\ astray' = (astray \/ afterLeave # "none") /\ UNCHANGED afterLeave
    /\ UNCHANGED <<outside, wish, awaits, mishaps>>

ThrowsOn(r) ==
    /\ r.op = "create" /\ r.st = "asked" /\ Gone(r) /\ ~Alive(r)
    /\ asked' = (asked \ {r}) \cup {[r EXCEPT !.st = "again"]} /\ awaits' = TRUE
    /\ UNCHANGED <<outside, place, made, languages, wishes, mishaps>>

\* `call` waits out a lost answer; `guarded` catches one nobody foresaw, and
\* runs the whole task again.
AnswerFails(r) ==
    /\ r.st = "asked" /\ r.op \notin {"words", "derive"} /\ Mishap
    /\ LET again == [r EXCEPT !.op = IF @ = "statuses" THEN "load" ELSE @, !.st = "again"]
           rest == asked \ {r}
       IN \/ asked' = rest \cup {[r EXCEPT !.st = "waiting"]} /\ awaits' = TRUE
          \/ /\ r.op \in {"load", "statuses", "remove", "people", "page"}
             /\ asked' = rest \cup {again} /\ awaits' = TRUE
    /\ UNCHANGED <<outside, place, made, languages, wishes>>

\* What belongs to a closed child is not sent again.
RetryScreens ==
    /\ awaits /\ awaits' = FALSE
    /\ asked' = {[r EXCEPT !.st = "asked"] : r \in {q \in asked : q.st = "asked" \/ Alive(q)}}
    /\ UNCHANGED <<outside, place, made, languages, wishes, mishaps>>

-----------------------------------------------------------------------------
(* From outside *)

Vanishes(a) ==
    /\ a \in there /\ there' = there \ {a} /\ Mishap
    /\ UNCHANGED <<listed, place, made, languages, wishes, asked, awaits>>

\* A 401 to any request, or a trap of the envelope where it is used; or the
\* owner signs out, from the list.
SessionOver ==
    /\ shown.kind \notin {"signin", "device-failed"}
    /\ \/ shown' = SignedOut /\ (\E r \in asked : r.st = "asked" /\ r.op \notin {"words", "derive"}) /\ Mishap
       \/ shown' = On("device-failed", "none", "ready") /\ Occupied({"load", "upload", "derive", "create", "people"}) /\ Mishap
       \/ shown' = SignedOut /\ shown.kind = "albums" /\ UNCHANGED mishaps
    /\ open' = NoChild /\ log' = 0 /\ asked' = {} /\ awaits' = FALSE
    /\ astray' = (astray \/ afterLeave # "none") /\ languages' = "idle"
    /\ UNCHANGED <<outside, made, afterLeave, wish>>

SignsInAgain ==
    /\ shown = SignedOut /\ Room
    /\ shown' = ListShown /\ listed' = there
    /\ UNCHANGED <<there, open, log, made, languages, wishes, asked, awaits, mishaps>>

ScreensNext ==
    \/ \E a \in AlbumIds : OpenAlbum(a) \/ Vanishes(a)
    \/ LeaveAlbum \/ LeaveAnyway \/ StayInAlbum \/ OverAlbum
    \/ \E next \in {"invite", "people"} : LeaveAlbumFor(next)
    \/ ChooseMode \/ CreateInvite \/ AskLeaveInvite \/ LeaveInvite
    \/ AskRevoke \/ OpenLog \/ MoreLog \/ CloseLog \/ LeavePeople
    \/ \E r \in asked :
          \/ WordsLoaded(r) \/ Derived(r) \/ InviteAnswered(r) \/ Revoked(r) \/ PeopleLoaded(r)
          \/ PageRead(r) \/ AlbumLoaded(r) \/ AlbumAnswered(r) \/ AlbumIsGone(r) \/ ThrowsOn(r) \/ AnswerFails(r)
    \/ RetryScreens \/ SessionOver \/ SignsInAgain

ScreensSpec == ScreensInit /\ [][ScreensNext]_screensVars

-----------------------------------------------------------------------------
(* What is checked *)

ShownBy(kind) == IF kind = "log" THEN "people" ELSE kind

\* The answers the screen waits for.
Behind ==
    {op \in {"load", "people", "page", "derive", "create", "remove", "revoke"} :
        \/ op = "load"   /\ shown.kind = "album"  /\ shown.at = "loading"
        \/ op = "people" /\ shown.kind = "people" /\ shown.at = "loading"
        \/ op = "page"   /\ shown.kind = "log"    /\ shown.at \in {"loading", "more"}
        \/ op = "derive" /\ shown.at = "deriving"
        \/ op = "create" /\ shown.at = "creating"
        \/ op = "remove" /\ shown.over = "removing"
        \/ op = "revoke" /\ shown.over = "revoking"}

\* Whatever is answered late, the screen is that of the one child that is open,
\* on its own album, with its log while one is read; a screen that waits has
\* something under way that will end the wait; and where to go is remembered
\* only under the question, unless the album was closed under it.
\* (closeAlbum, and the `screen` and `show` of each child)
OneScreenOpen ==
    /\ \A c \in Children : open[c] # 0 <=> ShownBy(shown.kind) = c
    /\ \A c \in Children : open[c] # 0 => views[open[c]] = shown.of
    /\ log # 0 <=> shown.kind = "log"
    /\ \A op \in Behind : \E r \in asked : Alive(r) /\ r.op = op /\ r.log = log
    /\ afterLeave # "none" => shown.leaving \/ astray
    /\ \A r \in asked : r.st # "asked" => awaits

\* A step that heard a 404 of an album that is gone.
HearsGone == \E r \in asked \ asked' : Gone(r)

\* A photograph on its way and a link being shown are given up only by an
\* answer to the question, with the session, or with an album that is gone;
\* and from an album the owner comes where they last asked to go, unless an
\* album was closed under an open question.
\* (leaveAlbum, leaveAlbumFor, leaveInvite, stayInAlbum)
LeavesAsAsked ==
    [][ \/ HearsGone \/ shown'.kind \in {"signin", "device-failed"}
        \/ /\ Occupied({"upload"}) /\ open'.album # open.album => shown.leaving
           /\ shown.at = "share" /\ open'.invite # open.invite => shown.leaving
           /\ shown.kind = "album" /\ shown'.kind # "album" /\ ~astray => shown'.kind = wish'
      ]_screensVars

\* Back, from an album, leads to the list, or to the question first; nothing
\* but asking for the invite or the people opens them.  False where the session
\* ended under the question asked for the invite: `reset` leaves afterLeave as
\* it was, and the first Back after the next sign-in opens the invite form.
\* (session.ts:1151 "Back to the list."; afterLeave, reset, leaveAlbum)
BackIsToTheList ==
    [][ shown.kind = "album" /\ wish' = "albums" /\ ~HearsGone =>
            shown'.kind \notin {"invite", "people"} ]_screensVars
=============================================================================
