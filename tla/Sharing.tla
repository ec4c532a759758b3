------------------------------ MODULE Sharing ------------------------------
(***************************************************************************)
(* One album shared: the recipients' rows and the invites that make them,  *)
(* revocation, what the relay serves to a recipient, the access log, and   *)
(* the owner's invite, people and log screens.                             *)
(*                                                                         *)
(* An id stands for its row and for the token in its link.  A request      *)
(* keeps the grant it was authenticated with, and reads rows and objects   *)
(* in steps of its own.  Left out: labels, wraps, words and languages; the *)
(* pictures of the log, which are as the album's; another album.           *)
(***************************************************************************)
EXTENDS Integers, FiniteSets, Sequences, SequencesExt, FiniteSetsExt

CONSTANTS
    Ids,        \* recipient ids this device may draw
    Media,      \* the album's photos
    Tries,      \* MAX_CREATE_ATTEMPTS
    Limit,      \* entries to a page of the log
    MaxActs,    \* bound: requests, invites, removals, revocations, openings of the log
    MaxFaults   \* bound: failures of any kind

ASSUME SharingAssumption ==
    /\ IsFiniteSet(Ids) /\ IsFiniteSet(Media) /\ Tries \in Nat \ {0} /\ Limit \in Nat \ {0}
    /\ MaxActs \in Nat /\ MaxFaults \in Nat

VARIABLES
    rec,        \* the recipients' rows
    media,      \* the photos' rows
    stored,     \* the photos whose objects the store has
    entries,    \* the access log, committed
    drawn,      \* the last access_log.id drawn
    reqs,       \* requests being served
    answer,     \* ghost: how the last of them was answered
    opened,     \* ghost: served, and to be logged
    unlogged,   \* ghost: of those, the INSERTs that failed
    step, draft, gaveUp,  \* the invite: its step, its id, the ids a 409 refused
    ids,        \* ids drawn so far
    post,       \* where the invite's POST is
    given,      \* ids whose link was shown
    revokes,    \* revocations under way, with who asked
    people, listed, revoke,  \* the people screen: its phase, its list, the question
    log, logSeq,          \* the log as shown, with nextBefore, and the view's number
    pages,      \* pages of the log being fetched
    strays,     \* ghost: ids nobody is left to revoke
    acts, faults

rows    == <<rec, media, stored>>
logged  == <<entries, drawn>>
served  == <<reqs, answer, opened, unlogged>>
invite  == <<step, draft, gaveUp, ids, post, given>>
screens == <<people, listed, revoke>>
view    == <<log, logSeq, pages>>
vars    == <<rows, logged, served, invite, revokes, screens, view, strays, acts, faults>>

NoId  == "none"
NoLog == [who |-> NoId, phase |-> "none", shown |-> <<>>, next |-> 0]
All   == "all"

Nobody   == [i \in Ids |-> "none"]
NoRevoke == [id |-> NoId, busy |-> FALSE]

\* "album" stands for every read that is not of a photo and is not logged.
Kinds    == [of : {"album", "metadata"}, m : {NoId}]
            \cup [of : {"thumbnail", "asset"}, m : Media]
Requests == [n : 1..MaxActs, who : Ids, what : Kinds, revoked : BOOLEAN,
             at : {"scope", "store", "again", "draw", "insert"}, id : Nat]

Entries  == [id : 1..MaxActs, who : Ids, m : Media \cup {NoId}, n : 1..MaxActs]
Openings == [n : 1..MaxActs, who : Ids, m : Media \cup {NoId}]

TypeOK ==
    /\ rec \in [Ids -> {"none", "active", "revoked"}]
    /\ media \in [Media -> {"pending", "ready", "hidden", "gone"}] /\ stored \subseteq Media
    /\ entries \subseteq Entries
    /\ drawn \in 0..MaxActs /\ reqs \subseteq Requests
    /\ answer \in {0, 200, 403, 404, 500}
    /\ opened \cup unlogged \subseteq Openings
    /\ step \in {"away", "form", "creating", "share"} /\ draft \in Ids \cup {NoId}
    /\ gaveUp \cup ids \cup given \cup strays \subseteq Ids
    /\ post \in {"none", "sent", "created", "conflict"}
    /\ revokes \subseteq [id : Ids, by : {"invite", "people"}]
    /\ people \in {"away", "loading", "ready"} /\ listed \in [Ids -> {"none", "active", "revoked"}]
    /\ revoke \in [id : Ids \cup {NoId}, busy : BOOLEAN]
    /\ log \in [who : Ids \cup {All, NoId}, phase : {"none", "loading", "ready", "more"},
                shown : Seq(Entries), next : 0..MaxActs]
    /\ logSeq \in 0..2*MaxActs
    /\ pages \subseteq [seq : 0..2*MaxActs, who : Ids \cup {All}, before : 0..MaxActs]
    /\ acts \in 0..MaxActs /\ faults \in 0..MaxFaults

Init ==
    /\ rec = Nobody /\ media \in [Media -> {"pending", "ready"}] /\ stored = Media
    /\ entries = {} /\ drawn = 0 /\ reqs = {} /\ answer = 0 /\ opened = {} /\ unlogged = {}
    /\ step = "away" /\ draft = NoId /\ gaveUp = {} /\ ids = {} /\ post = "none" /\ given = {}
    /\ revokes = {} /\ people = "away" /\ listed = Nobody /\ revoke = NoRevoke
    /\ log = NoLog /\ logSeq = 0 /\ pages = {}
    /\ strays = {} /\ acts = 0 /\ faults = 0

Act   == acts < MaxActs /\ acts' = acts + 1
Fault == faults < MaxFaults /\ faults' = faults + 1

-----------------------------------------------------------------------------
(***************************************************************************)
(* A recipient's request, and the log.                                     *)
(***************************************************************************)
\* Found by its token's hash, revoked or not, once for the whole request.
Grant(i) == [who |-> i, revoked |-> rec[i] = "revoked"]

\* Whoever has a link may use it.
Authenticate(i, what) ==
    /\ i \in given /\ Act
    /\ LET grant == Grant(i) IN
       reqs' = reqs \cup {[n |-> acts', who |-> grant.who, what |-> what, revoked |-> grant.revoked,
                          at |-> "scope", id |-> 0]}
    /\ UNCHANGED <<rows, logged, answer, opened, unlogged, invite, revokes, screens, view, strays,
                   faults>>

OfMedia(q) == q.what.m # NoId

Visible(m) == media[m] \in {"pending", "ready"}

Erased(m) == m # NoId /\ media[m] = "gone"

\* Only the start of the asset and the metadata are opens.
Opens_Mutant(q) == q.what.of \in {"metadata", "asset", "thumbnail"}

Opens(q) == q.what.of \in {"metadata", "asset"}

\* Who opened what, with which request.
Opening(q) == [n |-> q.n, who |-> q.who, m |-> q.what.m]

\* `opened` says what is an open by the documents, not by Opens.
Answer(q, code) ==
    /\ reqs' = reqs \ {q}
    /\ answer' = code
    /\ opened' = opened \cup
         IF code = 200 /\ q.what.of \in {"metadata", "asset"} THEN {Opening(q)} ELSE {}

Moves(q, at) == reqs' = (reqs \ {q}) \cup {[q EXCEPT !.at = at]} /\ UNCHANGED <<answer, opened>>

Served(q) == IF Opens(q) THEN Moves(q, "draw") ELSE Answer(q, 200)

\* The row first, then the revocation, and whether it is ready last.
Scope(q) ==
    /\ q \in reqs /\ q.at = "scope"
    /\ IF OfMedia(q) /\ ~Visible(q.what.m) THEN Answer(q, 404)
       ELSE IF q.revoked THEN Answer(q, 403)
       ELSE IF OfMedia(q) /\ media[q.what.m] # "ready" THEN Answer(q, 404)
       ELSE IF OfMedia(q) THEN Moves(q, "store")
       ELSE Served(q)
    /\ UNCHANGED <<rows, logged, unlogged, invite, revokes, screens, view, strays, acts,
                   faults>>

Get(q) ==
    /\ q \in reqs /\ q.at = "store"
    /\ IF q.what.m \notin stored THEN Moves(q, "again")
       ELSE Served(q)
    /\ UNCHANGED <<rows, logged, unlogged, invite, revokes, screens, view, strays, acts,
                   faults>>

\* No object: the row tells a removal from a broken row.
ReadAgain(q) ==
    /\ q \in reqs /\ q.at = "again"
    /\ Answer(q, IF Visible(q.what.m) THEN 500 ELSE 404)
    /\ UNCHANGED <<rows, logged, unlogged, invite, revokes, screens, view, strays, acts,
                   faults>>

\* The identity is drawn before the INSERT commits.
Draws(q) ==
    /\ q \in reqs /\ q.at = "draw" /\ drawn' = drawn + 1
    /\ reqs' = (reqs \ {q}) \cup {[q EXCEPT !.at = "insert", !.id = drawn']}
    /\ UNCHANGED <<rows, entries, answer, opened, unlogged, invite, revokes, screens, view, strays,
                   acts, faults>>

\* Served all the same when it fails; the row it names may be erased by now.
Record(q) ==
    /\ q \in reqs /\ q.at = "insert" /\ Answer(q, 200)
    /\ LET m == q.what.m IN
       \/ /\ ~Erased(m)
          /\ entries' = entries \cup {[id |-> q.id, who |-> q.who, m |-> m, n |-> q.n]}
          /\ UNCHANGED <<unlogged, faults>>
       \/ /\ IF Erased(m) THEN UNCHANGED faults ELSE Fault
          /\ unlogged' = unlogged \cup {Opening(q)} /\ UNCHANGED entries
    /\ UNCHANGED <<rows, drawn, invite, revokes, screens, view, strays, acts>>

(***************************************************************************)
(* The photos: MediaLifecycle, as seen from here.                          *)
(***************************************************************************)
BecomesReady(m) ==
    /\ media[m] = "pending" /\ media' = [media EXCEPT ![m] = "ready"]
    /\ UNCHANGED <<rec, stored, logged, served, invite, revokes, screens, view, strays, acts,
                   faults>>

Hide(m) ==
    /\ Visible(m) /\ Act /\ media' = [media EXCEPT ![m] = "hidden"]
    /\ UNCHANGED <<rec, stored, logged, served, invite, revokes, screens, view, strays, faults>>

DeleteObjects_Mutant(m) ==
    /\ m \in stored /\ stored' = stored \ {m}
    /\ UNCHANGED <<rec, media, logged, served, invite, revokes, screens, view, strays, acts, faults>>

DeleteObjects(m) ==
    /\ media[m] = "hidden" /\ m \in stored /\ stored' = stored \ {m}
    /\ UNCHANGED <<rec, media, logged, served, invite, revokes, screens, view, strays, acts, faults>>

\* The foreign key takes the entries with the row.
Erase(m) ==
    /\ media[m] = "hidden" /\ m \notin stored /\ media' = [media EXCEPT ![m] = "gone"]
    /\ entries' = {e \in entries : e.m # m}
    /\ UNCHANGED <<rec, stored, drawn, served, invite, revokes, screens, view, strays, acts, faults>>

-----------------------------------------------------------------------------
(***************************************************************************)
(* The invite.  Its secrets are made anew for every attempt; an id given   *)
(* up on is revoked, once, with nobody waiting.                            *)
(***************************************************************************)
OpenInvite ==
    /\ step = "away" /\ people = "away" /\ step' = "form"
    /\ UNCHANGED <<rows, logged, served, draft, gaveUp, ids, post, given, revokes, screens, view, strays,
                   acts, faults>>

Draw(i) == i \notin ids /\ ids' = ids \cup {i} /\ draft' = i /\ post' = "sent"

Create(i) ==
    /\ step = "form" /\ Act /\ step' = "creating" /\ Draw(i)
    /\ UNCHANGED <<rows, logged, served, gaveUp, given, revokes, screens, view, strays, faults>>

\* The row and its wrap in one transaction, if the id is free.
Insert(i) == rec' = [rec EXCEPT ![i] = IF @ = "none" THEN "active" ELSE @]

\* An id the relay has is a conflict, whoever put it there.
PostArrives ==
    /\ post = "sent" /\ post' = IF rec[draft] = "none" THEN "created" ELSE "conflict"
    /\ Insert(draft)
    /\ UNCHANGED <<media, stored, logged, served, step, draft, gaveUp, ids, given, revokes, screens,
                   view, strays, acts, faults>>

\* The answer is lost, and the same body sent again.
PostLost ==
    /\ post = "created" /\ post' = "sent"
    /\ UNCHANGED <<rows, logged, served, step, draft, gaveUp, ids, given, revokes, screens, view,
                   strays, acts, faults>>

RevokeAbandoned_Mutant(to) ==
    /\ step' = to /\ post' = "none" /\ gaveUp' = {}
    /\ revokes' = revokes \cup {[id |-> i, by |-> "invite"] : i \in gaveUp \cup {draft}}

RevokeAbandoned(to) ==
    /\ step' = to /\ post' = "none" /\ gaveUp' = {}
    /\ revokes' = revokes \cup {[id |-> i, by |-> "invite"] : i \in gaveUp}

\* Only now is there anything to share.
Created ==
    /\ post = "created" /\ RevokeAbandoned("share") /\ given' = given \cup {draft}
    /\ UNCHANGED <<rows, logged, served, draft, ids, screens, view, strays, acts, faults>>

\* A new id and token, never this one again; after Tries, the form.
Conflict_Mutant(i) ==
    /\ post = "conflict" /\ Cardinality(gaveUp) + 1 < Tries /\ Draw(i) /\ UNCHANGED gaveUp
    /\ UNCHANGED <<rows, logged, served, step, given, revokes, screens, view, strays, acts, faults>>

Conflict(i) ==
    /\ post = "conflict" /\ Cardinality(gaveUp) + 1 < Tries /\ Draw(i)
    /\ gaveUp' = gaveUp \cup {draft}
    /\ UNCHANGED <<rows, logged, served, step, given, revokes, screens, view, strays, acts, faults>>

TooManyConflicts ==
    /\ post = "conflict" /\ Cardinality(gaveUp) + 1 = Tries /\ step' = "form" /\ post' = "none"
    /\ gaveUp' = {}
    /\ revokes' = revokes \cup {[id |-> i, by |-> "invite"] : i \in gaveUp \cup {draft}}
    /\ UNCHANGED <<rows, logged, served, draft, ids, given, screens, view, strays, acts, faults>>

CreateRefused ==
    /\ post = "sent" /\ rec[draft] = "none" /\ Fault /\ RevokeAbandoned("form")
    /\ UNCHANGED <<rows, logged, served, draft, ids, given, screens, view, strays, acts>>

\* Never while creating; from the share step, asked first.
LeaveInvite ==
    /\ step \in {"form", "share"} /\ step' = "away" /\ draft' = NoId
    /\ UNCHANGED <<rows, logged, served, gaveUp, ids, post, given, revokes, screens, view,
                   strays, acts, faults>>

\* The session ends, or the page goes: nothing is revoked, and a POST on its way
\* may still land.
InviteCut ==
    /\ step = "creating" /\ Fault /\ step' = "away" /\ post' = "none" /\ draft' = NoId
    /\ gaveUp' = {} /\ strays' = strays \cup gaveUp \cup {draft}
    /\ UNCHANGED <<rows, logged, served, ids, given, revokes, screens, view, acts>>

LateLands(i) ==
    /\ i \in strays /\ rec[i] = "none" /\ Insert(i)
    /\ UNCHANGED <<media, stored, logged, served, invite, revokes, screens, view, strays, acts,
                   faults>>

(***************************************************************************)
(* Revocation, and the people screen.                                      *)
(***************************************************************************)
OpenPeople ==
    /\ step = "away" /\ people = "away" /\ people' = "loading"
    /\ UNCHANGED <<rows, logged, served, invite, revokes, listed, revoke, view, strays, acts, faults>>

PeopleLoaded ==
    /\ people = "loading" /\ people' = "ready" /\ listed' = rec /\ revoke' = NoRevoke
    /\ UNCHANGED <<rows, logged, served, invite, revokes, view, strays, acts, faults>>

AskRevoke(i) ==
    /\ people = "ready" /\ log = NoLog /\ ~revoke.busy /\ listed[i] = "active"
    /\ revoke' = [id |-> i, busy |-> FALSE]
    /\ UNCHANGED <<rows, logged, served, invite, revokes, people, listed, view, strays, acts,
                   faults>>

CancelRevoke ==
    /\ revoke # NoRevoke /\ ~revoke.busy /\ revoke' = NoRevoke
    /\ UNCHANGED <<rows, logged, served, invite, revokes, people, listed, view, strays, acts,
                   faults>>

ConfirmRevoke ==
    /\ people = "ready" /\ revoke # NoRevoke /\ ~revoke.busy
    /\ revoke' = [revoke EXCEPT !.busy = TRUE]
    /\ revokes' = revokes \cup {[id |-> revoke.id, by |-> "people"]}
    /\ UNCHANGED <<rows, logged, served, invite, people, listed, view, strays, acts, faults>>

RevokeRow(i) == rec' = [rec EXCEPT ![i] = "revoked"]

\* Idempotent: sent again until it is answered, and revoked once.
Revoked(v) ==
    /\ v \in revokes /\ revokes' = revokes \ {v} /\ RevokeRow(v.id)
    /\ IF v.by = "people"
       THEN revoke' = NoRevoke /\ listed' = [listed EXCEPT ![v.id] = "revoked"]
       ELSE UNCHANGED <<revoke, listed>>
    /\ UNCHANGED <<media, stored, logged, served, invite, people, view, strays, acts, faults>>

RevokeFails(v) ==
    /\ v \in revokes /\ Fault /\ revokes' = revokes \ {v}
    /\ IF v.by = "people" THEN revoke' = [revoke EXCEPT !.busy = FALSE] /\ UNCHANGED strays
       ELSE strays' = strays \cup {v.id} /\ UNCHANGED revoke
    /\ UNCHANGED <<rows, logged, served, invite, people, listed, view, acts>>

RevokedElsewhere(i) ==
    /\ rec[i] = "active" /\ Act /\ RevokeRow(i)
    /\ UNCHANGED <<media, stored, logged, served, invite, revokes, screens, view, strays, faults>>

LeavePeople ==
    /\ people # "away" /\ log = NoLog /\ ~revoke.busy /\ people' = "away"
    /\ listed' = Nobody /\ revoke' = NoRevoke
    /\ UNCHANGED <<rows, logged, served, invite, revokes, view, strays, acts, faults>>

(***************************************************************************)
(* The log.  Each opening and each closing begins another view, and a page *)
(* of an earlier one is dropped.                                           *)
(***************************************************************************)
Ask(who, before) == pages' = pages \cup {[seq |-> logSeq', who |-> who, before |-> before]}

OpenLog(who) ==
    /\ people = "ready" /\ revoke = NoRevoke /\ log = NoLog /\ Act
    /\ log' = [who |-> who, phase |-> "loading", shown |-> <<>>, next |-> 0]
    /\ logSeq' = logSeq + 1 /\ Ask(who, 0)
    /\ UNCHANGED <<rows, logged, served, invite, revokes, screens, strays, faults>>

MoreLog ==
    /\ log.phase = "ready" /\ log.next > 0 /\ log' = [log EXCEPT !.phase = "more"]
    /\ UNCHANGED logSeq /\ Ask(log.who, log.next)
    /\ UNCHANGED <<rows, logged, served, invite, revokes, screens, strays, acts, faults>>

\* The newest first, one row read beyond the page to tell whether there are more.
ListEntries(p) ==
    LET found == {e \in entries : p.who \in {e.who, All} /\ (p.before > 0 => e.id < p.before)}
        Newer(e) == {d \in found : d.id > e.id}
    IN  [k \in 1..Cardinality(found) |-> CHOOSE e \in found : Cardinality(Newer(e)) = k - 1]

Page(s) == SubSeq(s, 1, IF Len(s) > Limit THEN Limit ELSE Len(s))

PageRead_Mutant(p) ==
    /\ p \in pages /\ pages' = pages \ {p}
    /\ IF log = NoLog THEN UNCHANGED log
       ELSE LET s == ListEntries(p) IN
            log' = [log EXCEPT !.phase = "ready", !.shown = @ \o Page(s),
                               !.next = IF Len(s) > Limit THEN s[Limit].id ELSE 0]
    /\ UNCHANGED <<rows, logged, served, invite, revokes, screens, logSeq, strays, acts, faults>>

PageRead(p) ==
    /\ p \in pages /\ pages' = pages \ {p}
    /\ IF p.seq # logSeq THEN UNCHANGED log
       ELSE LET s == ListEntries(p) IN
            log' = [log EXCEPT !.phase = "ready", !.shown = @ \o Page(s),
                               !.next = IF Len(s) > Limit THEN s[Limit].id ELSE 0]
    /\ UNCHANGED <<rows, logged, served, invite, revokes, screens, logSeq, strays, acts, faults>>

CloseLog ==
    /\ log # NoLog /\ log' = NoLog /\ logSeq' = logSeq + 1
    /\ UNCHANGED <<rows, logged, served, invite, revokes, screens, pages, strays, acts,
                   faults>>

-----------------------------------------------------------------------------
Serving ==
    \/ \E i \in Ids, what \in Kinds : Authenticate(i, what)
    \/ \E q \in reqs : Scope(q) \/ Get(q) \/ ReadAgain(q) \/ Draws(q) \/ Record(q)

Removing == \E m \in Media : BecomesReady(m) \/ Hide(m) \/ DeleteObjects(m) \/ Erase(m)

Inviting ==
    \/ OpenInvite \/ PostArrives \/ PostLost \/ Created \/ TooManyConflicts \/ CreateRefused
    \/ LeaveInvite \/ InviteCut
    \/ \E i \in Ids : Create(i) \/ Conflict(i) \/ LateLands(i)

Revoking ==
    \/ OpenPeople \/ PeopleLoaded \/ CancelRevoke \/ ConfirmRevoke \/ LeavePeople
    \/ \E i \in Ids : AskRevoke(i) \/ RevokedElsewhere(i)
    \/ \E v \in revokes : Revoked(v) \/ RevokeFails(v)

Logging ==
    \/ MoreLog \/ CloseLog
    \/ \E who \in Ids \cup {All} : OpenLog(who)
    \/ \E p \in pages : PageRead(p)

Next == Serving \/ Removing \/ Inviting \/ Revoking \/ Logging

Spec == Init /\ [][Next]_vars

Symmetry == Permutations(Ids)

-----------------------------------------------------------------------------
(***************************************************************************)
(* Properties.                                                             *)
(***************************************************************************)
\* A photo removed while it was fetched is a 404, never the 500 of a row whose
\* object is missing: the row is hidden before its objects go (get-media-asset.ts:72).
RemovalIsNotFound == answer # 500

\* What an entry says.
Entered(e) == [n |-> e.n, who |-> e.who, m |-> e.m]

\* Every album or asset a recipient was served is in the log once, under the
\* recipient whose link asked and the photo that was served, unless its INSERT
\* failed or the photo is erased; nothing else is.
\* What the screen shows of it are the entries of the recipient it was opened
\* for, newest first and none twice, whatever pages of earlier views are
\* answered late (logSeq).
LogIsTrue ==
    /\ \A e \in entries : Entered(e) \in opened \ unlogged /\ ~Erased(e.m)
    /\ \A d, e \in entries : d # e => d.id # e.id /\ d.n # e.n
    /\ (\A m \in Media : media[m] # "gone") => opened \ unlogged = {Entered(e) : e \in entries}
    /\ \A k \in DOMAIN log.shown : log.who \in {log.shown[k].who, All}
    /\ \A j, k \in DOMAIN log.shown : j < k => log.shown[j].id > log.shown[k].id

\* A link shown opens a row that is there, and that the clean-up of the attempts
\* given up on will not revoke behind the owner's back (invite.ts, abandoned).
\* And a recipient nobody was sent a link for does not stay active unseen: it is
\* the invite being made, one given up on and to be revoked, or one whose only
\* revocation failed or whose screen was closed (revokeAbandoned).
InvitesAccounted ==
    /\ \A i \in given : rec[i] # "none" /\ [id |-> i, by |-> "invite"] \notin revokes
    /\ \A i \in Ids : rec[i] = "active" /\ i \notin given =>
        \/ (step = "creating" /\ i \in gaveUp \cup {draft}) \/ i \in strays
        \/ [id |-> i, by |-> "invite"] \in revokes

=============================================================================
