--------------------------- MODULE MediaLifecycle ---------------------------
(***************************************************************************)
(* The life of one media row and of its two objects: create, upload,       *)
(* removal and erasure, as packages/server runs them.  Requests interleave *)
(* at every await: each action below is one statement sent to Postgres or  *)
(* one call answered by the object store.                                  *)
(*                                                                         *)
(* One row is enough, because two media rows share no state.  Its id is    *)
(* used once: the client draws it at random before it encrypts.            *)
(***************************************************************************)
EXTENDS Integers, FiniteSets

CONSTANTS
    Uploads,          \* clients that send PUTs, one at a time each
    Removals,         \* DELETE requests
    Lengths,          \* the Content-Lengths a PUT may declare
    ConfirmAttempts,  \* rounds of HEADs an erasure makes
    Repeaters,        \* the DELETEs of a screen that stays open and retries
    Faults,           \* the kinds of fault the environment may commit
    MaxFaults         \* bound: how many it commits in one behaviour

Requests == Uploads \cup Removals
Variants == {"asset", "thumbnail"}
Callers  == {"owner", "stranger"}   \* whose session a request carries
Other(v) == IF v = "asset" THEN "thumbnail" ELSE "asset"

(***************************************************************************)
(* Faults of the store and the database, and the death of the process:     *)
(*   refuse   a PUT is rejected: the store, the deadline, a vanished client*)
(*   landed   a rejected PUT has landed all the same, whole or in part     *)
(*   late     a rejected PUT lands after the rejection (the port promises  *)
(*            neither happens; the spec allows the first)                  *)
(*   cut      the store keeps fewer bytes than it was sent, and answers 200*)
(*   lost     the store answers 200 to a PUT and keeps nothing             *)
(*   lag      an upload's HEAD does not see an object yet, or an erasure's *)
(*            still sees the one it deleted                                *)
(*   kept     the store accepts a DELETE and keeps the object              *)
(*   store    a HEAD or a DELETE cannot reach the store                    *)
(*   db       a statement's answer never comes, committed or not           *)
(*   crash    the server process dies                                      *)
(***************************************************************************)
FaultKinds == {"refuse", "landed", "late", "cut", "lost", "lag", "kept",
               "store", "db", "crash"}

ASSUME RequestAssumption ==
    /\ IsFiniteSet(Uploads)
    /\ Uploads \cap Removals = {}
    /\ Repeaters \subseteq Removals

ASSUME BoundAssumption ==
    /\ Lengths \subseteq Nat \ {0, 1}    \* an envelope has at least 81 bytes
    /\ IsFiniteSet(Lengths)              \* and at most the route's maxBytes
    /\ ConfirmAttempts \in Nat \ {0}
    /\ Faults \subseteq FaultKinds
    /\ MaxFaults \in Nat

VARIABLES
    place,     \* where the row is: none, live, hidden (removed_at set) or gone
    status,    \* media.status
    inflight,  \* media.uploads_in_flight
    byteSize,  \* media.byte_size, 0 for null
    store,     \* the object under each variant's key
    pc,        \* where each request is
    job,       \* what each PUT sends, and what its HEADs have answered
    era,       \* the erasure each request is running
    late,      \* what the store may still write for PUTs nobody awaits
    faults     \* faults committed so far

row  == <<place, status, inflight, byteSize>>
vars == <<row, store, pc, job, era, late, faults>>

NoObject   == [len |-> 0, whole |-> FALSE]
Objects    == {NoObject} \cup [len : Nat \ {0}, whole : BOOLEAN]
Present(v) == store[v] # NoObject

Admitted  == {"putting", "stored", "rejected", "heading", "headOther",
              "mismatch", "marking", "reread", "ending"}
UploadPcs == Admitted \cup
             {"idle", "found", "refused", "erasing", "200", "404", "409",
              "500", "lost"}
RemovePcs == {"idle", "erasing", "202", "204", "404", "500", "lost"}

NoJob == [variant |-> "asset", len |-> 0, seen |-> 0, other |-> 0,
          out |-> "ok"]
NoErasure == [step |-> "off", todo |-> {}, shown |-> FALSE, round |-> 0]

Jobs     == [variant : Variants, len : Nat, seen : Nat, other : Nat,
             out : {"ok", "missing", "error"}]
Erasures == [step : {"off", "removing", "checking", "delete"},
             todo : SUBSET Variants, shown : BOOLEAN, round : Nat]

TypeOK ==
    /\ place \in {"none", "live", "hidden", "gone"}
    /\ status \in {"pending", "processing", "ready", "failed"}
    /\ inflight \in Nat
    /\ byteSize \in Nat
    /\ store \in [Variants -> Objects]
    /\ pc \in [Requests -> UploadPcs \cup RemovePcs]
    /\ \A u \in Uploads : pc[u] \in UploadPcs
    /\ \A d \in Removals : pc[d] \in RemovePcs
    /\ job \in [Uploads -> Jobs]
    /\ era \in [Requests -> Erasures]
    /\ late \subseteq [variant : Variants, len : Nat]
    /\ faults \in 0..MaxFaults

Init ==
    /\ place = "none" /\ status = "pending" /\ inflight = 0 /\ byteSize = 0
    /\ store = [v \in Variants |-> NoObject]
    /\ pc = [r \in Requests |-> "idle"]
    /\ job = [u \in Uploads |-> NoJob]
    /\ era = [r \in Requests |-> NoErasure]
    /\ late = {}
    /\ faults = 0

(***************************************************************************)
(* Small parts.                                                            *)
(***************************************************************************)
Goto(r, from, to) == pc[r] = from /\ pc' = [pc EXCEPT ![r] = to]

Fault(kind) ==
    /\ kind \in Faults
    /\ faults < MaxFaults
    /\ faults' = faults + 1

NoFault == UNCHANGED faults

RowStands == place \in {"live", "hidden"}

Counted == {u \in Uploads : pc[u] \in Admitted \cup {"lost"}}

Forget(u) == job' = [job EXCEPT ![u] = NoJob]

BeginErasure(r) ==
    era' = [era EXCEPT ![r] = [step |-> "removing", todo |-> Variants,
                               shown |-> FALSE, round |-> 1]]

(***************************************************************************)
(* createMedia: the row enters at pending, with its envelope.              *)
(***************************************************************************)
Create ==
    /\ place = "none"
    /\ place' = "live" /\ status' = "pending"
    /\ UNCHANGED <<inflight, byteSize, store, pc, job, era, late, faults>>

(***************************************************************************)
(* uploadMediaObject up to the PUT.                                        *)
(***************************************************************************)
Answered == {"200", "404", "409", "500"}

Lookup(u) ==  \* findById and the owner check
    /\ pc[u] \in {"idle"} \cup Answered
    /\ \E caller \in Callers :
       IF place = "live" /\ caller = "owner"
       THEN /\ pc' = [pc EXCEPT ![u] = "found"]
            /\ \E v \in Variants, n \in Lengths :
                 job' = [job EXCEPT ![u] = [NoJob EXCEPT !.variant = v, !.len = n]]
       ELSE /\ pc' = [pc EXCEPT ![u] = "404"]
            /\ UNCHANGED job
    /\ NoFault /\ UNCHANGED <<row, store, era, late>>

AdmitsReady_Mutant  == place = "live"

Admits == place = "live" /\ status \in {"pending", "processing", "failed"}

Uncounted_Mutant(n) == n

CountIn(n) == n + 1

Begin(u) ==  \* beginUpload's UPDATE, which counts what it admits
    /\ pc[u] = "found"
    /\ IF Admits
       THEN /\ status' = "processing" /\ inflight' = CountIn(inflight)
            /\ \/ NoFault /\ Goto(u, "found", "putting") /\ UNCHANGED job
               \/ Fault("db") /\ Goto(u, "found", "lost") /\ Forget(u)
       ELSE /\ UNCHANGED <<status, inflight>>
            /\ NoFault /\ Goto(u, "found", "refused") /\ Forget(u)
    /\ UNCHANGED <<place, byteSize, store, era, late>>

Recheck(u) ==  \* beginUpload's SELECT, a second statement
    /\ Goto(u, "refused", IF place = "live" THEN "409" ELSE "404")
    /\ NoFault /\ UNCHANGED <<row, store, job, era, late>>

(***************************************************************************)
(* The PUT: the store takes the object, then answers.  A crash can fall    *)
(* between the two.                                                        *)
(***************************************************************************)
Lands(v, n, counted) ==
    store' = [store EXCEPT ![v] = [len |-> n, whole |-> n = counted]]

Sent(u) == [variant |-> job[u].variant, len |-> job[u].len]

StoreTakes(u) ==
    /\ Goto(u, "putting", "stored")
    /\ \/ NoFault      /\ Lands(job[u].variant, job[u].len, job[u].len)
       \/ Fault("cut") /\ Lands(job[u].variant, job[u].len - 1, job[u].len)
    /\ UNCHANGED <<row, job, era, late>>

PutResolves(u) ==
    /\ \/ NoFault       /\ Goto(u, "stored", "heading")
       \/ Fault("lost") /\ Goto(u, "putting", "heading")
    /\ UNCHANGED <<row, store, job, era, late>>

PutRejects(u) ==
    /\ Goto(u, "putting", "rejected")
    /\ \/ Fault("refuse")  /\ UNCHANGED <<store, late>>
       \/ /\ Fault("landed") /\ UNCHANGED late
          /\ \E n \in {job[u].len - 1, job[u].len} :
               Lands(job[u].variant, n, job[u].len)
       \/ Fault("late") /\ late' = late \cup {Sent(u)} /\ UNCHANGED store
    /\ UNCHANGED <<row, job, era>>

LateLanding ==
    /\ \E put \in late :
         /\ late' = late \ {put}
         /\ Lands(put.variant, put.len, put.len) \/ UNCHANGED store
    /\ NoFault /\ UNCHANGED <<row, pc, job, era>>

(***************************************************************************)
(* The confirming HEADs and the ladder.  A HEAD that throws leaves the row *)
(* as it is.                                                               *)
(***************************************************************************)
HeadSees(v, n) ==
    \/ n = store[v].len /\ NoFault
    \/ n = 0 /\ Present(v) /\ Fault("lag")

HeadWritten(u) ==
    /\ pc[u] = "heading"
    /\ \/ \E n \in {0, store[job[u].variant].len} :
            /\ HeadSees(job[u].variant, n)
            /\ job' = [job EXCEPT ![u].seen = n]
            /\ Goto(u, "heading", "headOther")
       \/ Fault("store") /\ Goto(u, "heading", "reread") /\ UNCHANGED job
    /\ UNCHANGED <<row, store, era, late>>

OtherUnread_Mutant(u, other) ==
    CASE job[u].seen = 0                      -> "reread"
      [] job[u].seen \notin {0, job[u].len}   -> "mismatch"
      [] job[u].seen = job[u].len             -> "marking"

Verdict(u, other) ==
    CASE job[u].seen = 0                           -> "reread"
      [] job[u].seen \notin {0, job[u].len}        -> "mismatch"
      [] job[u].seen = job[u].len /\ other = 0     -> "reread"
      [] job[u].seen = job[u].len /\ other # 0     -> "marking"

HeadOther(u) ==
    /\ pc[u] = "headOther"
    /\ \/ \E n \in {0, store[Other(job[u].variant)].len} :
            /\ HeadSees(Other(job[u].variant), n)
            /\ job' = [job EXCEPT ![u].other = n]
            /\ Goto(u, "headOther", Verdict(u, n))
       \/ Fault("store") /\ Goto(u, "headOther", "reread") /\ UNCHANGED job
    /\ UNCHANGED <<row, store, era, late>>

FailedStatus == IF RowStands /\ status = "processing" THEN "failed" ELSE status

MarkFailed(u) ==  \* from the rejected PUT, or from a HEAD that disagrees
    /\ \/ Goto(u, "rejected", "reread") \/ Goto(u, "mismatch", "reread")
    /\ status' = FailedStatus
    /\ NoFault /\ UNCHANGED <<place, inflight, byteSize, store, job, era, late>>

ReadyAlone_Mutant == place = "live" /\ status = "processing" /\ inflight = 1

MayBeReady == place = "live" /\ status = "processing"

MarkReady(u) ==
    /\ Goto(u, "marking", "reread")
    /\ IF MayBeReady
       THEN /\ status' = "ready"
            /\ byteSize' = job[u].seen + job[u].other
       ELSE UNCHANGED <<status, byteSize>>
    /\ NoFault /\ UNCHANGED <<place, inflight, store, job, era, late>>

Reread(u) ==  \* the findById every branch ends with
    /\ Goto(u, "reread", "ending")
    /\ job' = [job EXCEPT ![u].out = IF place = "live" THEN "ok" ELSE "missing"]
    /\ NoFault /\ UNCHANGED <<row, store, era, late>>

(***************************************************************************)
(* The finally: uncount, and erase when this was the last upload out of a  *)
(* hidden row.  "missing" answers 404 from the re-read; a hidden row       *)
(* answers 404 whatever the try block meant to say.                        *)
(***************************************************************************)
Answer(out) == CASE out = "ok"      -> "200"
                 [] out = "missing" -> "404"
                 [] out = "error"   -> "500"

NeverErases_Mutant == FALSE

LastOut == place = "hidden" /\ inflight = 1

EndUpload(u) ==
    /\ Goto(u, "ending",
            CASE place = "live"               -> Answer(job[u].out)
              [] LastOut                      -> "erasing"
              [] place = "hidden" /\ ~LastOut -> "404"
              [] OTHER                        -> "500")  \* it throws
    /\ inflight' = IF RowStands THEN inflight - 1 ELSE inflight
    /\ IF LastOut THEN BeginErasure(u) ELSE UNCHANGED era
    /\ Forget(u)
    /\ NoFault /\ UNCHANGED <<place, status, byteSize, store, late>>

(***************************************************************************)
(* A statement of the upload rejects.  Inside the inner try the catch      *)
(* re-reads, so a re-read that fails may be read once more; elsewhere, and *)
(* when the catch's own read fails, the finally runs next.  A rejected     *)
(* markFailed or endUpload may have taken effect or not.                   *)
(***************************************************************************)
UploadDbError(u) ==
    /\ Fault("db")
    /\ \/ /\ Goto(u, "found", "500") \/ Goto(u, "refused", "500")
          /\ Forget(u) /\ UNCHANGED <<status, inflight>>
       \/ /\ \/ Goto(u, "mismatch", "reread") \/ Goto(u, "marking", "reread")
             \/ Goto(u, "reread", "reread")
          /\ UNCHANGED <<status, job, inflight>>
       \/ /\ \/ Goto(u, "rejected", "ending") /\ status' \in {status, FailedStatus}
             \/ Goto(u, "reread", "ending") /\ UNCHANGED status
          /\ job' = [job EXCEPT ![u].out = "error"]
          /\ UNCHANGED inflight
       \/ /\ Goto(u, "ending", "lost")
          /\ Forget(u) /\ UNCHANGED <<status, inflight>>
       \/ /\ RowStands /\ Goto(u, "ending", "500")
          /\ Forget(u) /\ inflight' = inflight - 1 /\ UNCHANGED status
    /\ UNCHANGED <<place, byteSize, store, era, late>>

(***************************************************************************)
(* removeMedia: hide, then erase unless an upload is in flight.            *)
(***************************************************************************)
HidesLiveOnly_Mutant(caller) == place = "live" /\ caller = "owner"

HideMatches(caller) == RowStands /\ caller = "owner"

WaitsForTwo_Mutant(n) == n > 1

MustWait(n) == n > 0

HideRow(d, caller, from) ==
    /\ IF HideMatches(caller)
       THEN \/ /\ place' = "hidden" /\ MustWait(inflight)
               /\ NoFault /\ Goto(d, from, "202") /\ UNCHANGED era
            \/ /\ place' = "hidden" /\ ~MustWait(inflight)
               /\ NoFault /\ Goto(d, from, "erasing") /\ BeginErasure(d)
            \/ /\ place' \in {"hidden", place}  \* committed or not
               /\ Fault("db") /\ Goto(d, from, "500") /\ UNCHANGED era
       ELSE /\ Goto(d, from, "404")
            /\ NoFault /\ UNCHANGED <<place, era>>
    /\ UNCHANGED <<status, inflight, byteSize, store, job, late>>

Hide(d) == \E caller \in Callers : HideRow(d, caller, "idle")

Unfinished == {"202", "500", "lost"}

Repeat(d) ==  \* retryErasure after a 202, the client's resend after a failure
    /\ d \in Repeaters
    /\ \E from \in Unfinished : HideRow(d, "owner", from)

(***************************************************************************)
(* eraseHiddenMedia, run by a DELETE or by the last upload out.            *)
(***************************************************************************)
Conclude(r, answer) ==
    /\ Goto(r, "erasing",
            IF r \in Uploads /\ answer # "500" THEN "404" ELSE answer)
    /\ era' = [era EXCEPT ![r] = NoErasure]

Step(r, step) == pc[r] = "erasing" /\ era[r].step = step

ThumbnailUnconfirmed_Mutant == {"asset"}

ToConfirm == Variants

RemoveObject(r, v) ==  \* two DELETEs at once; the second answer goes on
    /\ Step(r, "removing") /\ v \in era[r].todo
    /\ \/ NoFault /\ store' = [store EXCEPT ![v] = NoObject]
       \/ Fault("kept") /\ UNCHANGED store
    /\ era' = [era EXCEPT ![r] =
                 IF @.todo = {v}
                 THEN [@ EXCEPT !.step = "checking", !.todo = ToConfirm]
                 ELSE [@ EXCEPT !.todo = era[r].todo \ {v}]]
    /\ UNCHANGED <<row, pc, job, late>>

HeadObject(r, v) ==  \* two HEADs at once; the round ends with the second
    /\ Step(r, "checking") /\ v \in era[r].todo
    /\ \E sees \in BOOLEAN :
         /\ \/ sees = Present(v) /\ NoFault
            \/ sees /\ ~Present(v) /\ Fault("lag")
         /\ LET shown == era[r].shown \/ sees
                last  == era[r].todo = {v}
            IN \/ /\ ~last
                  /\ era' = [era EXCEPT ![r] = [@ EXCEPT
                               !.todo = era[r].todo \ {v}, !.shown = shown]]
                  /\ UNCHANGED pc
               \/ /\ last /\ ~shown
                  /\ era' = [era EXCEPT ![r] = [NoErasure EXCEPT !.step = "delete"]]
                  /\ UNCHANGED pc
               \/ /\ last /\ shown /\ era[r].round < ConfirmAttempts
                  /\ era' = [era EXCEPT ![r] = [@ EXCEPT
                               !.todo = ToConfirm, !.shown = FALSE,
                               !.round = era[r].round + 1]]
                  /\ UNCHANGED pc
               \/ /\ last /\ shown /\ era[r].round >= ConfirmAttempts
                  /\ Conclude(r, "202")
    /\ UNCHANGED <<row, store, job, late>>

(***************************************************************************)
(* The store cannot be reached.  Promise.all rejects at the first failure; *)
(* the other DELETE may still be carried out.                              *)
(***************************************************************************)
ErasureUnreachable(r) ==
    /\ pc[r] = "erasing" /\ era[r].step \in {"removing", "checking"}
    /\ Fault("store")
    /\ \E taken \in SUBSET (IF era[r].step = "removing"
                            THEN era[r].todo ELSE {}) :
         store' = [v \in Variants |-> IF v \in taken THEN NoObject ELSE store[v]]
    /\ Conclude(r, "202")
    /\ UNCHANGED <<row, job, late>>

ErasureAnswer(deleted) == IF deleted THEN "204" ELSE "404"

Erasable == place = "hidden" /\ inflight = 0

EraseRow(r) ==
    /\ Step(r, "delete")
    /\ place' = IF Erasable THEN "gone" ELSE place
    /\ \/ NoFault /\ Conclude(r, ErasureAnswer(Erasable))
       \/ Erasable /\ Fault("db") /\ Conclude(r, "500")
    /\ UNCHANGED <<status, inflight, byteSize, store, job, late>>

EraseRowError(r) ==
    /\ Step(r, "delete")
    /\ Fault("db") /\ Conclude(r, "500")
    /\ UNCHANGED <<row, store, job, late>>

(***************************************************************************)
(* The process dies.  Every request dies with it, every count it held      *)
(* stays, and the store may still carry out the PUTs it had been sent.     *)
(***************************************************************************)
AtRest == {"idle", "200", "202", "204", "404", "409", "500", "lost"}

Crash ==
    /\ \E r \in Requests : pc[r] \notin AtRest
    /\ Fault("crash")
    /\ late' = late \cup {Sent(u) : u \in {w \in Uploads : pc[w] = "putting"}}
    /\ pc' = [r \in Requests |->
                IF pc[r] \in AtRest THEN pc[r]
                ELSE IF r \in Uploads \ Counted THEN "500" ELSE "lost"]
    /\ job' = [u \in Uploads |-> NoJob]
    /\ era' = [r \in Requests |-> NoErasure]
    /\ UNCHANGED <<row, store>>

-----------------------------------------------------------------------------
UploadStep(u) ==
    \/ Begin(u) \/ Recheck(u) \/ StoreTakes(u) \/ PutResolves(u)
    \/ PutRejects(u) \/ HeadWritten(u) \/ HeadOther(u) \/ MarkFailed(u)
    \/ MarkReady(u) \/ Reread(u) \/ EndUpload(u)
    \/ UploadDbError(u)

EraseStep(r) ==
    \/ \E v \in Variants : RemoveObject(r, v) \/ HeadObject(r, v)
    \/ ErasureUnreachable(r) \/ EraseRow(r) \/ EraseRowError(r)

Next ==
    \/ Create
    \/ \E u \in Uploads : Lookup(u) \/ UploadStep(u)
    \/ LateLanding
    \/ \E d \in Removals : Hide(d) \/ Repeat(d)
    \/ \E r \in Requests : EraseStep(r)
    \/ Crash

(***************************************************************************)
(* Fairness: an admitted request goes on, because the upload deadline and  *)
(* the store's request timeout settle every call it awaits.  Nobody is     *)
(* made to send a request, except the repeats of an owner's open screen.   *)
(***************************************************************************)
Fairness ==
    /\ \A u \in Uploads : WF_vars(UploadStep(u))
    /\ \A r \in Requests : WF_vars(EraseStep(r))
    /\ \A d \in Removals : WF_vars(Repeat(d))

Spec     == Init /\ [][Next]_vars
FairSpec == Spec /\ Fairness

-----------------------------------------------------------------------------
(***************************************************************************)
(* uploads_in_flight is exactly the number of admitted uploads that have   *)
(* not been uncounted, those that died on the way included: beginUpload    *)
(* and endUpload pair up across every interleaving, error and crash.       *)
(***************************************************************************)
CountExact == RowStands => inflight = Cardinality(Counted)

(***************************************************************************)
(* endUpload always finds its row, so its "no row for a counted upload"    *)
(* is never thrown: erase cannot delete a row an upload still counts on.   *)
(***************************************************************************)
CountedRowStands == Counted # {} => RowStands

(***************************************************************************)
(* No erasure runs while an upload may still write an object: hide and     *)
(* endUpload read the count in the statement that decides.                 *)
(***************************************************************************)
NoUploadUnderErasure ==
    (\E r \in Requests : pc[r] = "erasing") => Counted = {} /\ place # "live"

(***************************************************************************)
(* When the row is gone, so is the ciphertext: no object is left under its *)
(* keys, and no PUT is outstanding that could still put one there, the     *)
(* server's death mid-upload included.                                     *)
(***************************************************************************)
GoneForGood ==
    place = "gone" =>
        /\ \A v \in Variants : ~Present(v)
        /\ late = {}
        /\ \A u \in Uploads : pc[u] # "putting"

(***************************************************************************)
(* A live ready row has both its objects, so a fetch that finds one        *)
(* missing met a removal, not a broken row.                                *)
(***************************************************************************)
ReadyHasBoth ==
    place = "live" /\ status = "ready" => \A v \in Variants : Present(v)

(***************************************************************************)
(* The uploads of one photograph's two objects cannot both leave the       *)
(* other to finish: with the same bytes resent and no fault, a live row    *)
(* with both objects and nobody uploading is ready.                        *)
(***************************************************************************)
CompletedIsReady ==
    /\ Cardinality(Lengths) = 1 /\ faults = 0 /\ Counted = {}
    /\ place = "live" /\ \A v \in Variants : Present(v)
    => status = "ready"

(***************************************************************************)
(* An owner's DELETE that once got further than 404 and is then answered   *)
(* 204 or 404 means the row is gone: the client stops retrying on either.  *)
(***************************************************************************)
RetriedDeleteMeansDone ==
    [][\A d \in Removals :
         /\ pc[d] \in Unfinished \cup {"erasing"}
         /\ pc'[d] \in {"204", "404"}
         => place' = "gone"]_vars

(***************************************************************************)
(* Spec of the relay: "ready means something a viewer can rely on: both    *)
(* objects exist, and each is the size the server itself counted while     *)
(* streaming it."  Asked once nobody is uploading any more.                *)
(***************************************************************************)
ReadyMeansWhole ==
    place = "live" /\ status = "ready" /\ Counted = {}
        => \A v \in Variants : store[v].whole

(***************************************************************************)
(* A removal needs nobody to come back: with no fault, a hidden row is     *)
(* erased by the DELETE that hid it or by the last upload out.             *)
(***************************************************************************)
LastOutErases == [](faults = 0) => (place = "hidden" ~> place = "gone")

(***************************************************************************)
(* An owner who keeps the screen open gets the erasure done once the store *)
(* answers again, whatever DELETEs and HEADs failed on the way.            *)
(***************************************************************************)
RepeatedDeleteErases ==
    \A d \in Repeaters :
        pc[d] \in Unfinished \cup {"erasing"} ~> place = "gone"

(***************************************************************************)
(* What the row and its objects promise to everybody else: see             *)
(* MediaPromise.                                                           *)
(***************************************************************************)
Shown == IF place = "live" THEN status ELSE place
Kept  == {v \in Variants : Present(v)}

Promise == INSTANCE MediaPromise WITH shown <- Shown, kept <- Kept

KeepsPromise == Promise!Spec
=============================================================================
