----------------------------- MODULE OwnerAlbum -----------------------------
(***************************************************************************)
(* OwnerAlbum, the object of packages/web behind an owner's open album:    *)
(* its list, the review of chosen photos, the upload queue, the viewer and *)
(* removal, over the rows the server keeps.  It lives from openAlbum to    *)
(* the moment the album is left.                                           *)
(*                                                                         *)
(* A row's id names its item.  A request and its answer are one step,      *)
(* unless something is read, awaited and used.  Left out: captions, sizes, *)
(* the pace and the stall clock, and a task run again from its start.      *)
(***************************************************************************)
EXTENDS Integers, FiniteSets, Sequences, SequencesExt

CONSTANTS
    Photos,     \* those the album has, or that the owner may choose on this device
    Cap,        \* ORIGINALS_CAP, in photos
    Polls,      \* POLL_DELAYS_MS, its length
    MaxOpens,   \* bound: openings of the viewer and of a removal's question
    MaxFaults   \* bound: failures of any kind

ASSUME AlbumAssumption ==
    /\ IsFiniteSet(Photos) /\ "none" \notin Photos
    /\ Cap \in Nat \ {0} /\ Polls \in Nat \ {0} /\ MaxOpens \in Nat /\ MaxFaults \in Nat

VARIABLES
    row,        \* the server's row of each photo
    where,      \* "album" while it is open, then where the owner went
    phase,      \* of the list: "loading" or "ready"
    item,       \* what the list shows of each photo
    refresh,    \* rows not ready whose status is still to be asked
    metas,      \* rows found ready whose metadata is being read
    thumbs,     \* thumbnails being fetched
    orig,       \* the bytes read of each chosen photo
    review,     \* the rows of the review
    preview,    \* of each row of the review
    previewing, \* the photo being decoded for its preview, or NoId
    queue, cur, \* the photos waiting to be sent, and the one being sent
    held,       \* photos whose envelopes this tab holds
    confirm,    \* the removal being confirmed
    asks,       \* removals whose statement is being computed
    removing,   \* ids confirmed for removal
    deleting,   \* DELETEs under way, by photo
    erasing,    \* erasures to be tried again, each by its timer
    pending,    \* erasurePending
    viewer, views, gen,  \* the viewer, the openings being fetched, the last one
    leaving,    \* the question before leaving
    pictures,   \* ghost: decoded pictures not closed
    opens,      \* openings so far
    faults

NoId == "none"

listed == <<phase, item, refresh, metas, thumbs>>
chosen == <<orig, review, preview, previewing>>
sent   == <<queue, cur, held>>
rem    == <<confirm, asks, removing, deleting, erasing, pending>>
seen   == <<viewer, views, gen, opens>>
left   == <<where, leaving>>
vars   == <<row, listed, chosen, sent, rem, seen, left, pictures, faults>>

Rows     == {"absent", "pending", "processing", "ready", "failed", "hidden"}
Statuses == {"none", "pending", "processing", "ready", "failed"}
Steps    == {"none", "queued", "preparing", "uploading", "waiting"}
Thumbs   == {"none", "loading", "ready", "failed", "unavailable"}
Items == [shown : BOOLEAN, status : Statuses, local : Steps, failed : BOOLEAN,
          resend : BOOLEAN, thumb : Thumbs]

Blank == [shown |-> FALSE, status |-> "none", local |-> "none", failed |-> FALSE,
          resend |-> FALSE, thumb |-> "none"]

\* The job at hand: the step it is at, the status last told, the polls made.
Jobs == [id : Photos, at : {"frames", "decode", "post", "asset", "thumbnail", "ask", "poll"},
         st : Statuses, polls : 0..Polls]
NoJob == [id |-> NoId, at |-> "none", st |-> "none", polls |-> 0]

Statements == {"none", "never-ready", "logged"}  \* unopened and opened are one
NoConfirm  == [id |-> NoId, says |-> "none", busy |-> FALSE]
NoViewer   == [id |-> NoId, phase |-> "none"]

TypeOK ==
    /\ row \in [Photos -> Rows]
    /\ where \in {"album", "list", "closed"}
    /\ phase \in {"loading", "ready"} /\ item \in [Photos -> Items]
    /\ {refresh, metas, thumbs, held, removing} \subseteq SUBSET Photos
    /\ queue \in Seq(Photos)
    /\ orig \in [Photos -> {"none", "unread", "reading", "held", "queued", "preparing",
                            "unreadable", "zeroed"}]
    /\ review \subseteq Photos
    /\ preview \in [Photos -> {"none", "loading", "ready", "failed"}]
    /\ previewing \in Photos \cup {NoId}
    /\ cur \in Jobs \cup {NoJob}
    /\ confirm \in [id : Photos \cup {NoId}, says : Statements, busy : BOOLEAN]
    /\ asks \subseteq [id : Photos, at : {"status", "log"}]
    /\ {deleting, erasing} \subseteq [Photos -> Nat] /\ pending \in Nat /\ pictures \in Nat
    /\ viewer \in [id : Photos \cup {NoId}, phase : {"none", "loading", "shown", "failed"}]
    /\ views \subseteq [gen : 1..2*MaxOpens, id : Photos]
    /\ gen \in 0..2*MaxOpens /\ opens \in 0..MaxOpens
    /\ leaving \in BOOLEAN
    /\ faults \in 0..MaxFaults

\* Of the rows not ready at first, one status stands for the three.
Init ==
    /\ row \in [Photos -> {"absent", "processing", "ready"}]
    /\ where = "album" /\ phase = "loading" /\ item = [i \in Photos |-> Blank]
    /\ refresh = {} /\ metas = {} /\ thumbs = {}
    /\ orig = [p \in Photos |-> IF row[p] = "absent" THEN "unread" ELSE "none"] /\ review = {}
    /\ preview = [p \in Photos |-> "none"] /\ previewing = NoId
    /\ queue = <<>> /\ cur = NoJob /\ held = {}
    /\ confirm = NoConfirm /\ asks = {} /\ removing = {}
    /\ deleting = [i \in Photos |-> 0] /\ erasing = [i \in Photos |-> 0] /\ pending = 0
    /\ viewer = NoViewer /\ views = {} /\ gen = 0 /\ opens = 0
    /\ leaving = FALSE
    /\ pictures = 0 /\ faults = 0

(***************************************************************************)
(* The server's rows, and the owner's other device.                        *)
(***************************************************************************)
Open == where = "album"

Visible(i) == row[i] \notin {"absent", "hidden"}

Fault == faults < MaxFaults /\ faults' = faults + 1

\* The other device finishes an upload, or a PUT given up on does; and the
\* other device removes a photo.
ElsewhereFinished(i) ==
    /\ Open /\ row[i] \in {"pending", "processing", "failed"}
    /\ (orig[i] = "none" \/ row[i] = "processing")
    /\ row' = [row EXCEPT ![i] = "ready"]
    /\ UNCHANGED <<listed, chosen, sent, rem, seen, left, pictures, faults>>

ElsewhereRemoved(i) ==
    /\ Open /\ Visible(i) /\ Fault /\ row' = [row EXCEPT ![i] = "absent"]
    /\ UNCHANGED <<listed, chosen, sent, rem, seen, left, pictures>>

(***************************************************************************)
(* The list.                                                               *)
(***************************************************************************)
\* The album is inert under the viewer, a question or the review.
Free == Open /\ viewer = NoViewer /\ confirm = NoConfirm /\ review = {} /\ ~leaving

Update_Mutant(i, it) == item' = [item EXCEPT ![i] = [it EXCEPT !.shown = TRUE]]

Update(i, it) == item' = IF item[i].shown THEN [item EXCEPT ![i] = it] ELSE item

Opened(i) == item[i].thumb = "ready"

Drop_Mutant(i) ==
    /\ item' = [item EXCEPT ![i] = Blank]
    /\ UNCHANGED pictures

Drop(i) ==
    /\ item' = [item EXCEPT ![i] = Blank]
    /\ pictures' = IF Opened(i) THEN pictures - 1 ELSE pictures

\* The list and the metadata, the latter of some photos not opening; a 404
\* leaves the album.
Listed(i, read) ==
    IF ~Visible(i) THEN item[i]
    ELSE [Blank EXCEPT !.shown = TRUE, !.status = row[i],
              !.thumb = IF row[i] # "ready" THEN "none"
                        ELSE IF i \in read THEN "loading" ELSE "unavailable"]

Load ==
    /\ Open /\ phase = "loading" /\ phase' = "ready"
    /\ \E read \in SUBSET Photos :
         /\ item' = [i \in Photos |-> Listed(i, read)]
         /\ thumbs' = {i \in read : row[i] = "ready"}
    /\ refresh' = {i \in Photos : Visible(i) /\ row[i] # "ready"}
    /\ UNCHANGED <<row, metas, chosen, sent, rem, seen, left, pictures, faults>>

\* One at a time.  A row this device is moving is left to the upload.
RefreshStatus(i) ==
    /\ Open /\ i \in refresh /\ metas = {} /\ refresh' = refresh \ {i}
    /\ IF ~Visible(i) THEN Drop(i) /\ UNCHANGED metas
       ELSE /\ UNCHANGED pictures
            /\ IF ~item[i].shown \/ item[i].local # "none" THEN UNCHANGED <<item, metas>>
               ELSE /\ Update(i, [item[i] EXCEPT !.status = row[i]])
                    /\ metas' = IF row[i] = "ready" /\ item[i].status # "ready"
                                THEN {i} ELSE {}
    /\ UNCHANGED <<row, phase, thumbs, chosen, sent, rem, seen, left, faults>>

\* Only now is it shown as done.
BecameReady(i, opened) ==
    /\ Update(i, [item[i] EXCEPT !.status = "ready", !.local = "none", !.resend = FALSE,
                                 !.thumb = IF opened THEN "loading" ELSE "unavailable"])
    /\ thumbs' = IF opened THEN thumbs \cup {i} ELSE thumbs

MetadataRead(i) ==
    /\ Open /\ i \in metas /\ metas' = metas \ {i}
    /\ \E opened \in BOOLEAN : BecameReady(i, opened)
    /\ UNCHANGED <<row, phase, refresh, chosen, sent, rem, seen, left, pictures, faults>>

\* A picture with no item left to show it is closed.
ThumbLoaded(i) ==
    /\ i \in thumbs /\ thumbs' = thumbs \ {i}
    /\ \/ ~Open /\ UNCHANGED <<item, pictures, faults>>
       \/ Open /\ ~Visible(i) /\ Drop(i) /\ UNCHANGED faults
       \/ /\ Open /\ Visible(i) /\ Update(i, [item[i] EXCEPT !.thumb = "ready"])
          /\ pictures' = IF item[i].shown THEN pictures + 1 ELSE pictures
          /\ UNCHANGED faults
       \/ Open /\ Fault /\ Update(i, [item[i] EXCEPT !.thumb = "failed"]) /\ UNCHANGED pictures
    /\ UNCHANGED <<row, phase, refresh, metas, chosen, sent, rem, seen, left>>

RetryThumb(i) ==
    /\ Free /\ item[i].thumb = "failed"
    /\ item' = [item EXCEPT ![i].thumb = "loading"] /\ thumbs' = thumbs \cup {i}
    /\ UNCHANGED <<row, phase, refresh, metas, chosen, sent, rem, seen, left, pictures, faults>>

(***************************************************************************)
(* The review of chosen photos.                                            *)
(***************************************************************************)
\* What the cap counts: every original held or being read.
HeldBytes == {p \in Photos : orig[p] \in {"reading", "held", "queued", "preparing"}}

\* Refused whole when it would pass the cap; else every file is read at once.
Choose(ps) ==
    /\ Open /\ phase = "ready" /\ viewer = NoViewer /\ confirm = NoConfirm /\ ~leaving
    /\ ps # {} /\ \A p \in ps : orig[p] = "unread"
    /\ Cardinality(HeldBytes) + Cardinality(ps) <= Cap
    /\ orig' = [p \in Photos |-> IF p \in ps THEN "reading" ELSE orig[p]]
    /\ preview' = [p \in Photos |-> IF p \in ps THEN "loading" ELSE preview[p]]
    /\ review' = review \cup ps
    /\ UNCHANGED <<row, listed, previewing, sent, rem, seen, left, pictures, faults>>

ReadDone_Mutant(p) ==
    /\ orig[p] = "reading"
    /\ orig' = [orig EXCEPT ![p] = "held"]
    /\ UNCHANGED <<row, listed, review, preview, previewing, sent, rem, seen, left, pictures,
                   faults>>

\* Taken out, cancelled or left while reading: the bytes are zeroed as they land.
ReadDone(p) ==
    /\ orig[p] = "reading"
    /\ \/ /\ orig' = [orig EXCEPT ![p] = IF Open /\ p \in review THEN "held" ELSE "zeroed"]
          /\ UNCHANGED <<preview, faults>>
       \/ /\ Fault /\ orig' = [orig EXCEPT ![p] = "unreadable"]
          /\ preview' = [preview EXCEPT ![p] = IF p \in review THEN "failed" ELSE @]
    /\ UNCHANGED <<row, listed, review, previewing, sent, rem, seen, left, pictures>>

\* One full-size decode at a time, whoever asks.
Decoding == previewing # NoId \/ cur.at = "decode"

PreviewStarts(p) ==
    /\ Open /\ ~Decoding /\ p \in review /\ orig[p] = "held" /\ preview[p] = "loading"
    /\ previewing' = p
    /\ UNCHANGED <<row, listed, orig, review, preview, sent, rem, seen, left, pictures, faults>>

\* A row taken out meanwhile has its preview closed.
PreviewDone ==
    /\ previewing # NoId /\ previewing' = NoId
    /\ LET placed == Open /\ previewing \in review IN
       \/ /\ preview' = IF placed THEN [preview EXCEPT ![previewing] = "ready"] ELSE preview
          /\ pictures' = IF placed THEN pictures + 1 ELSE pictures
          /\ UNCHANGED faults
       \/ /\ Fault /\ UNCHANGED pictures
          /\ preview' = IF placed THEN [preview EXCEPT ![previewing] = "failed"] ELSE preview
    /\ UNCHANGED <<row, listed, orig, review, sent, rem, seen, left>>

Previewed(ps) == Cardinality({p \in ps : preview[p] = "ready"})

\* unpick, and cancelReview: their previews closed, their bytes zeroed.
TakeOut(ps) ==
    /\ Open /\ ps # {} /\ ps \subseteq review /\ review' = review \ ps
    /\ pictures' = pictures - Previewed(ps)
    /\ preview' = [p \in Photos |-> IF p \in ps THEN "none" ELSE preview[p]]
    /\ orig' = [p \in Photos |-> IF p \in ps /\ orig[p] = "held" THEN "zeroed" ELSE orig[p]]
    /\ UNCHANGED <<row, listed, previewing, sent, rem, seen, left, faults>>

Unpick(p) == TakeOut({p})

CancelReview == TakeOut(review)

\* Nothing is prepared or sent before this; an unreadable row is left behind.
SendReview ==
    /\ Open /\ \A p \in review : orig[p] # "reading"
    /\ LET send == {p \in review : orig[p] = "held"} IN
       /\ send # {}
       /\ orig' = [p \in Photos |-> IF p \in send THEN "queued" ELSE orig[p]]
       /\ \E s \in SetToSeqs(send) : queue' = queue \o s
       /\ item' = [i \in Photos |-> IF i \in send
                    THEN [Blank EXCEPT !.shown = TRUE, !.local = "queued"] ELSE item[i]]
    /\ review' = {} /\ pictures' = pictures - Previewed(review)
    /\ preview' = [p \in Photos |-> IF p \in review THEN "none" ELSE preview[p]]
    /\ UNCHANGED <<row, phase, refresh, metas, thumbs, previewing, cur, held, rem, seen, left,
                   faults>>

(***************************************************************************)
(* The upload: one photo at a time, from its decode to the server's answer.*)
(***************************************************************************)
Busy == cur # NoJob \/ queue # <<>>

Working(at) == Open /\ cur.at = at

CanResend(i, st) == i \in held /\ st \notin {"none", "ready"}

\* A photo chosen is prepared first; one sent again is already sealed, and is
\* skipped if a removal dropped its envelopes while it waited.
PumpTakes(i) ==
    /\ Open /\ cur = NoJob /\ queue # <<>> /\ i = Head(queue) /\ queue' = Tail(queue)
    /\ IF orig[i] = "queued"
       THEN /\ cur' = [NoJob EXCEPT !.id = i, !.at = "frames"]
            /\ orig' = [orig EXCEPT ![i] = "preparing"]
            /\ Update(i, [item[i] EXCEPT !.local = "preparing"])
       ELSE /\ cur' = IF i \in held THEN [NoJob EXCEPT !.id = i, !.at = "asset"] ELSE NoJob
            /\ Update(i, [item[i] EXCEPT !.local = IF i \in held THEN "uploading" ELSE @])
            /\ UNCHANGED orig
    /\ UNCHANGED <<row, phase, refresh, metas, thumbs, review, preview, previewing, held, rem,
                   seen, left, pictures, faults>>

DecodeStarts ==
    /\ Working("frames") /\ ~Decoding /\ cur' = [cur EXCEPT !.at = "decode"]
    /\ UNCHANGED <<row, listed, chosen, queue, held, rem, seen, left, pictures, faults>>

\* The original is zeroed whatever came of it; then the envelopes are sealed.
DecodeDone ==
    /\ Working("decode") /\ orig' = [orig EXCEPT ![cur.id] = "zeroed"]
    /\ \/ /\ Update(cur.id, [item[cur.id] EXCEPT !.local = "uploading"])
          /\ held' = held \cup {cur.id} /\ cur' = [cur EXCEPT !.at = "post"]
          /\ UNCHANGED faults
       \/ /\ Fault /\ Update(cur.id, [item[cur.id] EXCEPT !.local = "none", !.failed = TRUE])
          /\ cur' = NoJob /\ UNCHANGED held
    /\ UNCHANGED <<row, phase, refresh, metas, thumbs, review, preview, previewing, queue, rem,
                   seen, left, pictures>>

\* An answer lost is asked for again, and 409: created all the same.
Post ==
    /\ Working("post")
    /\ \/ /\ row' = [row EXCEPT ![cur.id] = "pending"] /\ cur' = [cur EXCEPT !.at = "asset"]
          /\ Update(cur.id, [item[cur.id] EXCEPT !.status = "pending"])
          /\ UNCHANGED <<held, faults>>
       \/ /\ Fault /\ cur' = NoJob /\ held' = held \ {cur.id} /\ UNCHANGED row
          /\ Update(cur.id, [item[cur.id] EXCEPT !.local = "none", !.failed = TRUE])
    /\ UNCHANGED <<phase, refresh, metas, thumbs, chosen, queue, rem, seen, left, pictures>>

Gone(i) == cur' = NoJob /\ held' = held \ {i} /\ Drop(i)

\* One PUT, which may be the one that completes the row.  A row already ready
\* answers 409; one refused is out of the queue.
Stored == {"processing", "ready", "failed"}

Put(v) ==
    /\ Working(v) /\ cur.id \notin removing
    /\ LET i == cur.id IN
       \/ ~Visible(i) /\ Gone(i) /\ UNCHANGED <<row, faults>>
       \/ /\ row[i] = "ready" /\ cur' = [cur EXCEPT !.at = "ask"]
          /\ UNCHANGED <<row, item, held, pictures, faults>>
       \/ /\ Visible(i) /\ row[i] # "ready"
          /\ \E r \in Stored :
               /\ IF r = "failed" THEN Fault ELSE UNCHANGED faults
               /\ row' = [row EXCEPT ![i] = r]
               /\ LET more == v = "asset" /\ r # "failed" IN
                  /\ cur' = [cur EXCEPT !.at = IF more THEN "thumbnail" ELSE "poll", !.st = r]
                  /\ Update(i, [item[i] EXCEPT !.status = r,
                                               !.local = IF more THEN @ ELSE "waiting"])
          /\ UNCHANGED <<held, pictures>>
       \/ /\ Visible(i) /\ Fault
          /\ cur' = NoJob /\ held' = held \ {i}
          /\ Update(i, [item[i] EXCEPT !.local = "none", !.status = "failed", !.resend = FALSE])
          /\ UNCHANGED <<row, pictures>>
    /\ UNCHANGED <<phase, refresh, metas, thumbs, chosen, queue, rem, seen, left>>

\* The status a 409 is followed by, whoever is removing the photo by now; a row
\* gone since, or an answer nobody foresaw, fails this photo only.
Ask ==
    /\ Working("ask")
    /\ LET i == cur.id IN
       \/ /\ Visible(i) /\ cur' = [cur EXCEPT !.at = "poll", !.st = row[i]]
          /\ Update(i, [item[i] EXCEPT !.local = "waiting"]) /\ UNCHANGED faults
       \/ /\ Fault \/ (~Visible(i) /\ UNCHANGED faults)
          /\ cur' = NoJob
          /\ Update(i, [item[i] EXCEPT !.local = "none",
                                       !.resend = CanResend(i, item[i].status)])
    /\ UNCHANGED <<row, phase, refresh, metas, thumbs, chosen, queue, held, rem, seen, left,
                   pictures>>

Settled == cur.st \in {"ready", "failed"} \/ cur.polls = Polls

\* The status, after a while; an answer nobody foresaw fails this photo only.
Poll ==
    /\ Working("poll") /\ ~Settled /\ cur.id \notin removing
    /\ LET i == cur.id IN
       \/ ~Visible(i) /\ Gone(i) /\ UNCHANGED faults
       \/ /\ Visible(i)
          /\ cur' = [cur EXCEPT !.st = row[i], !.polls = @ + 1]
          /\ Update(i, [item[i] EXCEPT !.status = row[i]])
          /\ UNCHANGED <<held, pictures, faults>>
       \/ /\ Fault /\ cur' = NoJob /\ UNCHANGED <<held, pictures>>
          /\ Update(i, [item[i] EXCEPT !.local = "none",
                                       !.resend = CanResend(i, item[i].status)])
    /\ UNCHANGED <<row, phase, refresh, metas, thumbs, chosen, queue, rem, seen, left>>

\* Checked before each PUT and each poll: the removal sees to the item.
SendStops ==
    /\ Open /\ cur.at \in {"asset", "thumbnail", "poll"} /\ ~Settled /\ cur.id \in removing
    /\ cur' = NoJob
    /\ UNCHANGED <<row, listed, chosen, queue, held, rem, seen, left, pictures, faults>>

\* Ready, and the envelopes dropped; or shown as the server last said.
SendEnds_StuckMutant ==
    /\ Working("poll") /\ Settled /\ cur' = NoJob
    /\ LET i == cur.id IN
       IF cur.st = "ready" THEN held' = held \ {i} /\ BecameReady(i, TRUE)
       ELSE Update(i, [item[i] EXCEPT !.resend = CanResend(i, cur.st)]) /\ UNCHANGED <<held, thumbs>>
    /\ UNCHANGED <<row, phase, refresh, metas, chosen, queue, rem, seen, left, pictures, faults>>

SendEnds_DoneMutant ==
    /\ Working("poll") /\ Settled /\ cur' = NoJob /\ held' = held \ {cur.id}
    /\ BecameReady(cur.id, TRUE)
    /\ UNCHANGED <<row, phase, refresh, metas, chosen, queue, rem, seen, left, pictures, faults>>

SendEnds ==
    /\ Working("poll") /\ Settled /\ cur' = NoJob
    /\ LET i == cur.id IN
       IF cur.st = "ready" THEN held' = held \ {i} /\ BecameReady(i, TRUE)
       ELSE /\ Update(i, [item[i] EXCEPT !.local = "none", !.resend = CanResend(i, cur.st)])
            /\ UNCHANGED <<held, thumbs>>
    /\ UNCHANGED <<row, phase, refresh, metas, chosen, queue, rem, seen, left, pictures, faults>>

Resend(i) ==
    /\ Free /\ item[i].resend /\ CanResend(i, item[i].status) /\ item[i].local = "none"
    /\ queue' = Append(queue, i)
    /\ item' = [item EXCEPT ![i].local = "queued", ![i].resend = FALSE]
    /\ UNCHANGED <<row, phase, refresh, metas, thumbs, chosen, cur, held, rem, seen, left,
                   pictures, faults>>

Dismiss(i) ==
    /\ Free /\ item[i].failed /\ Drop(i)
    /\ UNCHANGED <<row, phase, refresh, metas, thumbs, chosen, sent, rem, seen, left, faults>>

(***************************************************************************)
(* The viewer.  Each opening and each closing takes a new number, and an   *)
(* answer of another one is dropped.                                       *)
(***************************************************************************)
Another == opens < MaxOpens /\ opens' = opens + 1

OpenViewer(i) ==
    /\ Free /\ Another /\ item[i].status = "ready"
    /\ item[i].thumb \in {"loading", "ready", "failed"}
    /\ gen' = gen + 1 /\ views' = views \cup {[gen |-> gen + 1, id |-> i]}
    /\ viewer' = [id |-> i, phase |-> "loading"]
    /\ UNCHANGED <<row, listed, chosen, sent, rem, left, pictures, faults>>

\* 404 shows it removed, which "failed" stands for too.
ViewLoaded(v) ==
    /\ v \in views /\ views' = views \ {v}
    /\ LET current == Open /\ viewer # NoViewer /\ v.gen = gen IN
       \/ /\ Visible(v.id) /\ UNCHANGED faults
          /\ viewer' = IF current THEN [viewer EXCEPT !.phase = "shown"] ELSE viewer
          /\ pictures' = IF current THEN pictures + 1 ELSE pictures
       \/ /\ IF Visible(v.id) THEN Fault ELSE UNCHANGED faults
          /\ viewer' = IF current THEN [viewer EXCEPT !.phase = "failed"] ELSE viewer
          /\ UNCHANGED pictures
    /\ UNCHANGED <<row, listed, chosen, sent, rem, gen, opens, left>>

Viewed == IF viewer.phase = "shown" THEN 1 ELSE 0

CloseViewer ==
    /\ Open /\ viewer # NoViewer /\ viewer' = NoViewer /\ gen' = gen + 1
    /\ pictures' = pictures - Viewed
    /\ UNCHANGED <<row, listed, chosen, sent, rem, views, opens, left, faults>>

(***************************************************************************)
(* Removal: what the owner is told first, read again from the server.      *)
(***************************************************************************)
AskRemove(i) ==
    /\ Free /\ Another /\ item[i].shown /\ item[i].status # "none" /\ item[i].local = "none"
    /\ confirm' = [NoConfirm EXCEPT !.id = i]
    /\ asks' = asks \cup {[id |-> i, at |-> IF item[i].status = "ready" THEN "log" ELSE "status"]}
    /\ UNCHANGED <<row, listed, chosen, sent, removing, deleting, erasing, pending, viewer, views, gen,
                   left, pictures, faults>>

\* The question still waiting for this photo's statement.
Asked(i) == confirm.id = i /\ ~confirm.busy

Say(i, s) == confirm' = IF Asked(i) THEN [confirm EXCEPT !.says = s] ELSE confirm

\* A 404 takes the question away, whichever photo it is about by now.
StatusRead(i) ==
    /\ Open /\ [id |-> i, at |-> "status"] \in asks
    /\ LET rest == asks \ {[id |-> i, at |-> "status"]} IN
       \/ ~Visible(i) /\ asks' = rest /\ confirm' = NoConfirm /\ Drop(i)
       \/ /\ Visible(i) /\ Update(i, [item[i] EXCEPT !.status = row[i]]) /\ UNCHANGED pictures
          /\ IF row[i] = "ready"
             THEN asks' = rest \cup {[id |-> i, at |-> "log"]} /\ UNCHANGED confirm
             ELSE asks' = rest /\ Say(i, "never-ready")
    /\ UNCHANGED <<row, phase, refresh, metas, thumbs, chosen, sent, removing, deleting, erasing,
                   pending, seen, left, faults>>

LogRead(i) ==
    /\ Open /\ [id |-> i, at |-> "log"] \in asks /\ asks' = asks \ {[id |-> i, at |-> "log"]}
    /\ Say(i, "logged")
    /\ UNCHANGED <<row, listed, chosen, sent, removing, deleting, erasing, pending, seen, left,
                   pictures, faults>>

CancelRemove ==
    /\ Open /\ confirm # NoConfirm /\ ~confirm.busy /\ confirm' = NoConfirm
    /\ UNCHANGED <<row, listed, chosen, sent, asks, removing, deleting, erasing, pending, seen,
                   left, pictures, faults>>

ConfirmRemove ==
    /\ Open /\ confirm.says # "none" /\ ~confirm.busy /\ item[confirm.id].shown
    /\ confirm' = [confirm EXCEPT !.busy = TRUE] /\ removing' = removing \cup {confirm.id}
    /\ deleting' = [deleting EXCEPT ![confirm.id] = @ + 1]
    /\ UNCHANGED <<row, listed, chosen, sent, asks, erasing, pending, seen, left, pictures,
                   faults>>

\* The objects may outlive the row: that is told apart, and tried again.  A row
\* already erased answers 404, which is as good.
Removed(i) ==
    /\ Open /\ deleting[i] > 0 /\ deleting' = [deleting EXCEPT ![i] = @ - 1]
    /\ held' = held \ {i} /\ confirm' = NoConfirm /\ Drop(i)
    /\ \/ /\ row' = [row EXCEPT ![i] = "absent"] /\ UNCHANGED <<erasing, pending, faults>>
       \/ /\ row[i] # "absent" /\ Fault /\ row' = [row EXCEPT ![i] = "hidden"]
          /\ pending' = pending + 1 /\ erasing' = [erasing EXCEPT ![i] = @ + 1]
    /\ UNCHANGED <<phase, refresh, metas, thumbs, chosen, queue, cur, asks, removing, seen, left>>

EraseRetry(i) ==
    /\ Open /\ erasing[i] > 0 /\ erasing' = [erasing EXCEPT ![i] = @ - 1]
    /\ row' = [row EXCEPT ![i] = "absent"] /\ pending' = IF pending > 0 THEN pending - 1 ELSE 0
    /\ UNCHANGED <<listed, chosen, sent, confirm, asks, removing, deleting, seen, left, pictures,
                   faults>>

(***************************************************************************)
(* Leaving.  Nothing started here goes on, except what it takes to close   *)
(* and zero what is still being read or decoded.                           *)
(***************************************************************************)
Dispose(to) ==
    /\ where' = to /\ leaving' = FALSE
    /\ item' = [i \in Photos |-> Blank] /\ phase' = "loading" /\ refresh' = {} /\ metas' = {}
    /\ orig' = [p \in Photos |-> IF orig[p] \in {"held", "queued", "preparing"} THEN "zeroed"
                                 ELSE orig[p]]
    /\ preview' = [p \in Photos |-> "none"] /\ review' = {}
    /\ queue' = <<>> /\ cur' = NoJob /\ held' = {}
    /\ confirm' = NoConfirm /\ asks' = {} /\ pending' = 0
    /\ deleting' = [i \in Photos |-> 0] /\ erasing' = [i \in Photos |-> 0]
    /\ viewer' = NoViewer
    /\ pictures' = pictures - Cardinality({i \in Photos : Opened(i)}) - Previewed(review) - Viewed
    /\ UNCHANGED <<row, thumbs, previewing, removing, views, gen, opens, faults>>

\* Back to the list, or on to the invite or the people, which are not told
\* apart; asking first while a photo is on its way.
LeaveAlbum ==
    /\ Free
    /\ IF Busy
       THEN /\ leaving' = TRUE
            /\ UNCHANGED <<row, where, listed, chosen, sent, rem, seen, pictures, faults>>
       ELSE Dispose("list")

Stay ==
    /\ Open /\ leaving /\ leaving' = FALSE
    /\ UNCHANGED <<row, where, listed, chosen, sent, rem, seen, pictures, faults>>

LeaveAnyway == Open /\ leaving /\ ~confirm.busy /\ Dispose("list")

\* The list answers 404.
AlbumGone == Open /\ phase = "loading" /\ Dispose("list")

\* The session ends, or the page goes.
ClosedOutside == Open /\ Dispose("closed")

-----------------------------------------------------------------------------
Listing ==
    \/ Load \/ AlbumGone
    \/ \E i \in Photos : RefreshStatus(i) \/ MetadataRead(i) \/ ThumbLoaded(i)

Reviewing == PreviewDone \/ \E p \in Photos : ReadDone(p) \/ PreviewStarts(p)

Sending ==
    \/ \E i \in Photos : PumpTakes(i)
    \/ DecodeStarts \/ DecodeDone \/ Post \/ Put("asset") \/ Put("thumbnail") \/ Ask \/ Poll
    \/ SendStops \/ SendEnds

Removing == \E i \in Photos : StatusRead(i) \/ LogRead(i) \/ Removed(i) \/ EraseRetry(i)

Viewing == \E v \in views : ViewLoaded(v)

Owner ==
    \/ \E ps \in SUBSET Photos : Choose(ps)
    \/ \E p \in Photos : Unpick(p)
    \/ CancelReview \/ SendReview
    \/ \E i \in Photos : RetryThumb(i) \/ Resend(i) \/ Dismiss(i) \/ OpenViewer(i) \/ AskRemove(i)
    \/ CloseViewer \/ CancelRemove \/ ConfirmRemove
    \/ LeaveAlbum \/ Stay \/ LeaveAnyway
    \/ ClosedOutside

Elsewhere == \E i \in Photos : ElsewhereFinished(i) \/ ElsewhereRemoved(i)

Next == Listing \/ Reviewing \/ Sending \/ Removing \/ Viewing \/ Owner \/ Elsewhere

\* Requests are resent until they are answered, timers fire, decodes end; the
\* owner and the other device may do nothing.  Stated of what the property needs.
Fairness == WF_vars(PreviewDone) /\ WF_vars(Sending)

Spec == Init /\ [][Next]_vars /\ Fairness

-----------------------------------------------------------------------------
(***************************************************************************)
(* Properties.                                                             *)
(***************************************************************************)
\* Whole photos in memory are never more than the cap, and only in the review,
\* the queue or the preparation: taken out, cancelled, sent or left, their bytes
\* are zeroed, those still being read included (choose, unpick, dispose).  And
\* every decoded picture not closed is one the screen shows: a thumbnail, a
\* preview or the viewer's, however late it was decoded (drop, closeViewer's
\* generation, dispose).
BytesAndPicturesAccounted ==
    /\ Cardinality({p \in Photos : orig[p] \in {"reading", "held", "queued", "preparing"}}) <= Cap
    /\ \A p \in Photos :
         /\ orig[p] = "held" => Open /\ p \in review
         /\ orig[p] = "queued" => Open /\ p \in ToSet(queue)
         /\ orig[p] = "preparing" => Open /\ cur.id = p /\ cur.at \in {"frames", "decode"}
    /\ pictures = Cardinality({i \in Photos : Opened(i)})
                  + Cardinality({p \in Photos : preview[p] = "ready"}) + Viewed

\* What the list says of a photo is what became of its row.  "Only now is the
\* item shown as done" (becameReady, album.ts:429): no interleaving of polls,
\* resends, a removal's status read or another device has it call a photo
\* ready, or show its thumbnail, whose row was not.  And a photo removed is not
\* back on the screen, or visible on the server, by an upload, a poll, a
\* thumbnail or a status answered after it (update, removing).
ListTellsTheRows ==
    /\ \A i \in Photos : item[i].status = "ready" \/ item[i].thumb # "none"
                          => row[i] \in {"ready", "hidden", "absent"}
    /\ \A i \in removing : Open /\ deleting[i] = 0 => ~item[i].shown /\ ~Visible(i)

\* Every photo sent is settled, one way or another, while the album is open: a
\* failure of one does not stop the queue (pump, one).  One whose removal was
\* confirmed is left to the removal.
EveryUploadSettles ==
    \A p \in Photos : item[p].local # "none" ~> item[p].local = "none" \/ p \in removing

=============================================================================
