----------------------- MODULE MediaLifecycle_proofs -----------------------
(***************************************************************************)
(* Proofs about MediaLifecycle, for any number of uploads and removals and *)
(* any bound on faults.  What an erasure promises, and the refinement, are *)
(* for every kind of fault but "late": that a rejected PUT does not land   *)
(* afterwards is the object store port's promise, and a hypothesis of      *)
(* these theorems.                                                         *)
(***************************************************************************)
EXTENDS MediaLifecycle, FiniteSetTheorems, TLAPS

NothingLate == "late" \notin Faults

\* Where a removal may be when it hides the row.
Starts == {"idle"} \cup Unfinished

(***************************************************************************)
(* The inductive invariant.                                                *)
(***************************************************************************)

\* A PUT that is not finished knows what it sends.
Sending == {"found"} \cup (Admitted \ {"ending"})

JobsKnown ==
    /\ \A u \in Uploads : pc[u] \in Sending => job[u].len \in Lengths
    /\ \A put \in late : put.len \in Lengths

\* Before the row there is no upload counted and no erasure.
Unborn ==
    place = "none" => /\ inflight = 0
                      /\ status = "pending"
                      /\ \A r \in Requests : pc[r] # "erasing"

\* Only a PUT that died counted can still land.
LateIsLost == late # {} => \E u \in Uploads : pc[u] = "lost"

\* No row, no object.
Bare == place \in {"none", "gone"} => \A v \in Variants : ~Present(v)

\* What an upload's HEADs have seen is still there.
SeenIsThere ==
    \A u \in Uploads :
        /\ pc[u] = "headOther" /\ job[u].seen # 0 => Present(job[u].variant)
        /\ pc[u] = "marking" => \A v \in Variants : Present(v)

\* What an erasure's HEADs have found absent stays absent.
AbsentStays ==
    \A r \in Requests : pc[r] = "erasing" =>
        /\ era[r].step = "checking" /\ ~era[r].shown =>
             \A v \in Variants \ era[r].todo : ~Present(v)
        /\ era[r].step = "delete" => \A v \in Variants : ~Present(v)

\* What needs nothing of the store.
Core ==
    /\ TypeOK
    /\ CountExact
    /\ CountedRowStands
    /\ NoUploadUnderErasure
    /\ ReadyHasBoth
    /\ JobsKnown
    /\ Unborn
    /\ SeenIsThere

\* What needs a rejected PUT not to land afterwards.
IInv == Core /\ LateIsLost /\ Bare /\ AbsentStays

-----------------------------------------------------------------------------
(***************************************************************************)
(* Counting uploads.                                                       *)
(***************************************************************************)

\* The set of counted uploads is finite.
LEMMA CountedFinite == IsFiniteSet(Counted)
<1>1. Counted \in SUBSET Uploads  BY DEF Counted
<1>2. QED  BY <1>1, RequestAssumption, FS_Subset

\* An upload that joins the counted ones adds one to their number.
LEMMA CountedJoins ==
    ASSUME NEW u \in Uploads, u \notin Counted, Counted' = Counted \cup {u}
    PROVE  Cardinality(Counted') = Cardinality(Counted) + 1
BY CountedFinite, FS_AddElement

\* An upload that leaves them takes one away; the last leaves none.
LEMMA CountedLeaves ==
    ASSUME NEW u \in Uploads, u \in Counted, Counted' = Counted \ {u}
    PROVE  /\ Cardinality(Counted) \in Nat \ {0}
           /\ Cardinality(Counted') = Cardinality(Counted) - 1
           /\ Cardinality(Counted) = 1 => Counted' = {}
<1>1. IsFiniteSet(Counted') /\ Cardinality(Counted') = Cardinality(Counted) - 1
  BY CountedFinite, FS_RemoveElement
<1>2. Cardinality(Counted) \in Nat /\ Cardinality(Counted') \in Nat
  BY <1>1, CountedFinite, FS_CardinalityType
<1>3. Cardinality(Counted') = 0 => Counted' = {}  BY <1>1, FS_EmptySet
<1>4. QED  BY <1>1, <1>2, <1>3

\* Counting none means there is none.
LEMMA CountedNone == Cardinality(Counted) = 0 => Counted = {}
BY CountedFinite, FS_EmptySet

-----------------------------------------------------------------------------
\* The inductive invariant holds before the row is created.
LEMMA InitIInv == Init => IInv
<1> SUFFICES ASSUME Init PROVE IInv  OBVIOUS
<1>1. Counted = {}
  BY DEF Init, Counted, Admitted, Requests
<1>2. TypeOK
  BY BoundAssumption, RequestAssumption
  DEF Init, TypeOK, Requests, Objects, NoObject, UploadPcs, RemovePcs, Admitted,
      NoJob, NoErasure, Jobs, Erasures, Variants
<1>3. QED
  BY <1>1, <1>2, FS_EmptySet
  DEF Init, IInv, Core, Sending, CountExact, CountedRowStands, NoUploadUnderErasure,
      ReadyHasBoth, JobsKnown, Unborn, LateIsLost, Bare, SeenIsThere, AbsentStays,
      RowStands, Present, Requests, Admitted

-----------------------------------------------------------------------------
(***************************************************************************)
(* Types, one variable at a time.                                          *)
(***************************************************************************)
PcOK ==
    /\ pc \in [Requests -> UploadPcs \cup RemovePcs]
    /\ \A u \in Uploads : pc[u] \in UploadPcs
    /\ \A d \in Removals : pc[d] \in RemovePcs

RestOK ==
    /\ place \in {"none", "live", "hidden", "gone"}
    /\ status \in {"pending", "processing", "ready", "failed"}
    /\ inflight \in Nat
    /\ byteSize \in Nat
    /\ late \subseteq [variant : Variants, len : Nat]
    /\ faults \in 0..MaxFaults

JobOK   == job \in [Uploads -> Jobs]
EraOK   == era \in [Requests -> Erasures]
StoreOK == store \in [Variants -> Objects]

\* The type invariant, a variable at a time.
LEMMA TypeParts == TypeOK <=> RestOK /\ PcOK /\ JobOK /\ EraOK /\ StoreOK
BY DEF TypeOK, RestOK, PcOK, JobOK, EraOK, StoreOK

\* Moving one upload.
LEMMA UploadMoves ==
    ASSUME PcOK, NEW u \in Uploads, NEW s \in UploadPcs,
           pc' = [pc EXCEPT ![u] = s]
    PROVE  PcOK'
BY RequestAssumption DEF PcOK, Requests

\* The same, where the upload moves by Goto.
LEMMA UploadGoes ==
    ASSUME PcOK, NEW u \in Uploads, NEW s \in UploadPcs, NEW from,
           Goto(u, from, s)
    PROVE  PcOK'
BY UploadMoves DEF Goto

\* Moving one removal.
LEMMA RemovalMoves ==
    ASSUME PcOK, NEW d \in Removals, NEW s \in RemovePcs,
           pc' = [pc EXCEPT ![d] = s]
    PROVE  PcOK'
BY RequestAssumption DEF PcOK, Requests

\* A request that erases ends with one of the three answers.
LEMMA EraserMoves ==
    ASSUME PcOK, EraOK, NEW r \in Requests,
           NEW answer \in {"202", "204", "404", "500"}, Conclude(r, answer)
    PROVE  PcOK' /\ EraOK'
<1>1. r \in Uploads \/ r \in Removals  BY DEF Requests
<1>2. answer \in RemovePcs  BY DEF RemovePcs
<1>3. r \in Uploads =>
        (IF answer # "500" THEN "404" ELSE answer) \in UploadPcs
  BY DEF UploadPcs
<1>4. r \in Uploads => PcOK'
  BY <1>3, UploadMoves DEF Conclude, Goto
<1>5. r \in Removals => PcOK'
  BY <1>2, RemovalMoves, RequestAssumption DEF Conclude, Goto
<1>6. NoErasure \in Erasures  BY DEF NoErasure, Erasures, Variants
<1>7. EraOK'  BY <1>6 DEF EraOK, Conclude
<1>8. QED  BY <1>1, <1>4, <1>5, <1>7

\* A request starts an erasure.
LEMMA ErasureBegins ==
    ASSUME EraOK, NEW r \in Requests, BeginErasure(r)
    PROVE  EraOK'
BY DEF EraOK, BeginErasure, Erasures, Variants

\* An upload changes its job.
LEMMA JobChanges ==
    ASSUME JobOK, NEW u \in Uploads, NEW j \in Jobs, job' = [job EXCEPT ![u] = j]
    PROVE  JobOK'
BY DEF JobOK

\* A forgotten job is a job.
LEMMA NoJobIsJob == NoJob \in Jobs
BY DEF NoJob, Jobs, Variants

\* Forgetting a job keeps the type of the others.
LEMMA JobForgotten ==
    ASSUME JobOK, NEW u \in Uploads, Forget(u)
    PROVE  JobOK'
BY NoJobIsJob DEF Forget, JobOK

\* A PUT that is carried out leaves an object, or none if it had no byte.
LEMMA ObjectLands ==
    ASSUME StoreOK, NEW v \in Variants, NEW n \in Nat \ {0}, NEW m \in Nat,
           Lands(v, n, m)
    PROVE  StoreOK'
BY DEF StoreOK, Lands, Objects

\* The faults committed stay within their bound.
LEMMA FaultCounts ==
    ASSUME faults \in 0..MaxFaults, NoFault \/ \E k \in FaultKinds : Fault(k)
    PROVE  faults' \in 0..MaxFaults
BY BoundAssumption DEF NoFault, Fault

\* The steps of an upload keep the types.  The count a counted upload gives
\* back is positive.
LEMMA UploadTypes ==
    ASSUME Core, NEW u \in Uploads, Lookup(u) \/ UploadStep(u)
    PROVE  TypeOK'
<1>0. /\ CountExact /\ CountedRowStands /\ JobsKnown
      /\ RestOK /\ PcOK /\ JobOK /\ EraOK /\ StoreOK
      /\ u \in Requests
  BY TypeParts DEF Core, Requests
<1> SUFFICES RestOK' /\ PcOK' /\ JobOK' /\ EraOK' /\ StoreOK'
  BY TypeParts DEF TypeOK, RestOK, PcOK, JobOK, EraOK, StoreOK
<1> USE BoundAssumption
<1>1. CASE Lookup(u)
  <2>1. RestOK'  BY <1>0, <1>1 DEF Lookup, RestOK, NoFault, row
  <2>2. PICK s \in {"found", "404"} : pc' = [pc EXCEPT ![u] = s]
    BY <1>1 DEF Lookup
  <2>3. PcOK'
    BY <1>0, <2>2, UploadMoves DEF UploadPcs
  <2>4. JobOK'
    <3>1. \A v \in Variants, n \in Lengths :
            [NoJob EXCEPT !.variant = v, !.len = n] \in Jobs
      BY NoJobIsJob DEF NoJob, Jobs
    <3>2. QED  BY <1>0, <1>1, <3>1, JobChanges DEF Lookup, JobOK
  <2>5. EraOK' /\ StoreOK'  BY <1>0, <1>1 DEF Lookup, EraOK, StoreOK
  <2>6. QED  BY <2>1, <2>3, <2>4, <2>5
<1>2. CASE Begin(u)
  <2>1. RestOK'  BY <1>0, <1>2 DEF Begin, RestOK, NoFault, Fault, CountIn
  <2>2. PcOK'
    BY <1>0, <1>2, UploadGoes DEF Begin, UploadPcs, Admitted
  <2>3. JobOK'  BY <1>0, <1>2, JobForgotten DEF Begin, JobOK
  <2>4. EraOK' /\ StoreOK'  BY <1>0, <1>2 DEF Begin, EraOK, StoreOK
  <2>5. QED  BY <2>1, <2>2, <2>3, <2>4
<1>3. CASE Recheck(u)
  <2>1. PcOK'
    BY <1>0, <1>3, UploadGoes DEF Recheck, UploadPcs
  <2>2. QED
    BY <1>0, <1>3, <2>1
    DEF Recheck, RestOK, JobOK, EraOK, StoreOK, NoFault, row
<1>4. CASE StoreTakes(u)
  <2>1. PcOK'
    BY <1>0, <1>4, UploadGoes
    DEF StoreTakes, UploadPcs, Admitted
  <2>2. job[u].len \in Nat \ {0, 1} /\ job[u].variant \in Variants
    BY <1>0, <1>4 DEF StoreTakes, Goto, JobsKnown, Sending, Admitted, JobOK, Jobs
  <2>3. StoreOK'
    <3>1. job[u].len \in Nat \ {0} /\ job[u].len - 1 \in Nat \ {0}  BY <2>2
    <3>2. QED  BY <1>0, <1>4, <2>2, <3>1, ObjectLands DEF StoreTakes
  <2>4. QED
    BY <1>0, <1>4, <2>1, <2>3
    DEF StoreTakes, RestOK, JobOK, EraOK, NoFault, Fault, row
<1>5. CASE PutResolves(u)
  <2>1. PcOK'
    BY <1>0, <1>5, UploadGoes
    DEF PutResolves, UploadPcs, Admitted
  <2>2. QED
    BY <1>0, <1>5, <2>1
    DEF PutResolves, RestOK, JobOK, EraOK, StoreOK, NoFault, Fault, row
<1>6. CASE PutRejects(u)
  <2>1. PcOK'
    BY <1>0, <1>6, UploadGoes
    DEF PutRejects, UploadPcs, Admitted
  <2>2. job[u].len \in Nat \ {0, 1} /\ job[u].variant \in Variants
    BY <1>0, <1>6 DEF PutRejects, Goto, JobsKnown, Sending, Admitted, JobOK, Jobs
  <2>3. StoreOK'
    <3>1. job[u].len \in Nat \ {0} /\ job[u].len - 1 \in Nat \ {0}  BY <2>2
    <3>2. QED
      BY <1>0, <1>6, <2>2, <3>1, ObjectLands DEF PutRejects, StoreOK
  <2>4. Sent(u) \in [variant : Variants, len : Nat]  BY <2>2 DEF Sent
  <2>5. RestOK'  BY <1>0, <1>6, <2>4 DEF PutRejects, RestOK, Fault, row
  <2>6. QED
    BY <1>0, <1>6, <2>1, <2>3, <2>5 DEF PutRejects, JobOK, EraOK
<1>7. CASE HeadWritten(u)
  <2>1. PcOK'
    BY <1>0, <1>7, UploadGoes
    DEF HeadWritten, UploadPcs, Admitted
  <2>2. \A v \in Variants : store[v].len \in Nat
    BY <1>0 DEF StoreOK, Objects, NoObject
  <2>3. JobOK'  BY <1>0, <1>7, <2>2 DEF HeadWritten, JobOK, Jobs
  <2>4. QED
    BY <1>0, <1>7, <2>1, <2>3
    DEF HeadWritten, HeadSees, RestOK, EraOK, StoreOK, NoFault, Fault, row
<1>8. CASE HeadOther(u)
  <2>0. job[u] \in Jobs  BY <1>0 DEF JobOK
  <2>1. PICK s \in {"reread", "mismatch", "marking"} :
          pc' = [pc EXCEPT ![u] = s]
    <3>1. \A n \in Nat : Verdict(u, n) \in {"reread", "mismatch", "marking"}
      BY <2>0 DEF Verdict, Jobs
    <3>2. \A v \in Variants : store[v].len \in Nat
      BY <1>0 DEF StoreOK, Objects, NoObject
    <3>3. Other(job[u].variant) \in Variants
      BY <2>0 DEF Other, Jobs, Variants
    <3>4. QED  BY <1>8, <3>1, <3>2, <3>3 DEF HeadOther, Goto
  <2>2. PcOK'
    BY <1>0, <2>1, RequestAssumption DEF PcOK, UploadPcs, Admitted
  <2>3. JobOK'
    <3>1. \A v \in Variants : store[v].len \in Nat
      BY <1>0 DEF StoreOK, Objects, NoObject
    <3>2. Other(job[u].variant) \in Variants
      BY <2>0 DEF Other, Jobs, Variants
    <3>3. QED  BY <1>0, <1>8, <3>1, <3>2 DEF HeadOther, JobOK, Jobs
  <2>4. QED
    BY <1>0, <1>8, <2>2, <2>3
    DEF HeadOther, HeadSees, RestOK, EraOK, StoreOK, NoFault, Fault, row
<1>9. CASE MarkFailed(u)
  <2>1. PcOK'
    BY <1>0, <1>9, UploadGoes
    DEF MarkFailed, UploadPcs, Admitted
  <2>2. QED
    BY <1>0, <1>9, <2>1
    DEF MarkFailed, FailedStatus, RestOK, JobOK, EraOK, StoreOK, NoFault
<1>10. CASE MarkReady(u)
  <2>1. PcOK'
    BY <1>0, <1>10, RequestAssumption
    DEF MarkReady, Goto, PcOK, UploadPcs, Admitted
  <2>2. job[u].seen + job[u].other \in Nat  BY <1>0 DEF JobOK, Jobs
  <2>3. QED
    BY <1>0, <1>10, <2>1, <2>2
    DEF MarkReady, RestOK, JobOK, EraOK, StoreOK, NoFault
<1>11. CASE Reread(u)
  <2>1. PcOK'
    BY <1>0, <1>11, RequestAssumption
    DEF Reread, Goto, PcOK, UploadPcs, Admitted
  <2>2. JobOK'  BY <1>0, <1>11 DEF Reread, JobOK, Jobs
  <2>3. QED
    BY <1>0, <1>11, <2>1, <2>2
    DEF Reread, RestOK, EraOK, StoreOK, NoFault, row
<1>12. CASE EndUpload(u)
  <2>0. job[u] \in Jobs  BY <1>0 DEF JobOK
  <2>1. PICK s \in {"200", "404", "500", "erasing"} :
          pc' = [pc EXCEPT ![u] = s]
    <3>1. Answer(job[u].out) \in {"200", "404", "500"}
      BY <2>0 DEF Answer, Jobs
    <3>2. PICK s : pc' = [pc EXCEPT ![u] = s] /\
                   s = CASE place = "live"               -> Answer(job[u].out)
                         [] LastOut                      -> "erasing"
                         [] place = "hidden" /\ ~LastOut -> "404"
                         [] OTHER                        -> "500"
      BY <1>12 DEF EndUpload, Goto
    <3>3. s \in {"200", "404", "500", "erasing"}  BY <3>1, <3>2 DEF LastOut
    <3>4. QED  BY <3>2, <3>3
  <2>2. PcOK'
    BY <1>0, <2>1, RequestAssumption DEF PcOK, UploadPcs
  <2>3. RowStands => inflight - 1 \in Nat
    <3>1. u \in Counted  BY <1>12 DEF EndUpload, Goto, Counted, Admitted
    <3>2. Cardinality(Counted) \in Nat \ {0}
      BY <3>1, CountedFinite, FS_CardinalityType, CountedNone
    <3>3. QED  BY <1>0, <3>2 DEF CountExact
  <2>4. RestOK'  BY <1>0, <1>12, <2>3 DEF EndUpload, RestOK, NoFault
  <2>5. JobOK'  BY <1>0, <1>12, JobForgotten DEF EndUpload
  <2>6. EraOK'  BY <1>0, <1>12, ErasureBegins DEF EndUpload, EraOK
  <2>7. QED
    BY <1>0, <1>12, <2>2, <2>4, <2>5, <2>6 DEF EndUpload, StoreOK
<1>13. CASE UploadDbError(u)
  <2>1. PcOK'
    BY <1>0, <1>13, UploadGoes
    DEF UploadDbError, UploadPcs, Admitted
  <2>2. JobOK'
    <3>1. CASE Forget(u)  BY <1>0, <3>1, JobForgotten
    <3>2. CASE job' = [job EXCEPT ![u].out = "error"]
      BY <1>0, <3>2 DEF JobOK, Jobs
    <3>3. CASE UNCHANGED job  BY <1>0, <3>3 DEF JobOK
    <3>4. QED  BY <1>13, <3>1, <3>2, <3>3 DEF UploadDbError
  <2>3. pc[u] = "ending" /\ RowStands => inflight - 1 \in Nat
    <3>1. pc[u] = "ending" => u \in Counted  BY DEF Counted, Admitted
    <3>2. u \in Counted => Cardinality(Counted) \in Nat \ {0}
      BY CountedFinite, FS_CardinalityType, CountedNone
    <3>3. QED  BY <1>0, <3>1, <3>2 DEF CountExact
  <2>4. RestOK'
    BY <1>0, <1>13, <2>3 DEF UploadDbError, Goto, FailedStatus, RestOK, Fault
  <2>5. QED
    BY <1>0, <1>13, <2>1, <2>2, <2>4 DEF UploadDbError, EraOK, StoreOK
<1>14. QED
  BY <1>1, <1>2, <1>3, <1>4, <1>5, <1>6, <1>7, <1>8, <1>9, <1>10, <1>11,
     <1>12, <1>13
  DEF UploadStep

\* So does a removal's hide, first sent or repeated.
LEMMA HideTypes ==
    ASSUME TypeOK, NEW d \in Removals, NEW caller, NEW from,
           HideRow(d, caller, from)
    PROVE  TypeOK'
<1>0. RestOK /\ PcOK /\ JobOK /\ EraOK /\ StoreOK /\ d \in Requests
  BY TypeParts DEF Requests
<1>1. PICK s \in {"202", "erasing", "500", "404"} :
        pc' = [pc EXCEPT ![d] = s]
  BY DEF HideRow, Goto
<1>2. PcOK'  BY <1>0, <1>1, RemovalMoves DEF RemovePcs
<1>3. EraOK'  BY <1>0, ErasureBegins DEF HideRow, EraOK
<1>4. RestOK'
  BY <1>0, BoundAssumption DEF HideRow, RestOK, NoFault, Fault
<1>5. JobOK' /\ StoreOK'  BY <1>0 DEF HideRow, JobOK, StoreOK
<1>6. QED
  BY <1>2, <1>3, <1>4, <1>5 DEF TypeOK, RestOK, PcOK, JobOK, EraOK, StoreOK

\* So do the steps of an erasure.
LEMMA EraseTypes ==
    ASSUME TypeOK, NEW r \in Requests, EraseStep(r)
    PROVE  TypeOK'
<1>0. RestOK /\ PcOK /\ JobOK /\ EraOK /\ StoreOK
  BY TypeParts
<1> SUFFICES RestOK' /\ PcOK' /\ JobOK' /\ EraOK' /\ StoreOK'
  BY DEF TypeOK, RestOK, PcOK, JobOK, EraOK, StoreOK
<1> USE BoundAssumption
<1>1. NoObject \in Objects  BY DEF Objects
<1>2. ASSUME NEW v \in Variants, RemoveObject(r, v)
      PROVE  RestOK' /\ PcOK' /\ JobOK' /\ EraOK' /\ StoreOK'
  <2>1. RestOK' /\ PcOK' /\ JobOK'
    BY <1>0, <1>2
    DEF RemoveObject, RestOK, PcOK, JobOK, NoFault, Fault, row
  <2>2. StoreOK'  BY <1>0, <1>1, <1>2 DEF RemoveObject, StoreOK
  <2>3. EraOK'
    <3>1. era[r] \in Erasures  BY <1>0 DEF EraOK
    <3>2. [era[r] EXCEPT !.step = "checking", !.todo = ToConfirm] \in Erasures
      BY <3>1 DEF Erasures, ToConfirm
    <3>3. [era[r] EXCEPT !.todo = era[r].todo \ {v}] \in Erasures
      BY <3>1 DEF Erasures
    <3>4. QED  BY <1>0, <1>2, <3>2, <3>3 DEF RemoveObject, EraOK
  <2>4. QED  BY <2>1, <2>2, <2>3
<1>3. ASSUME NEW v \in Variants, HeadObject(r, v)
      PROVE  RestOK' /\ PcOK' /\ JobOK' /\ EraOK' /\ StoreOK'
  <2>1. RestOK' /\ JobOK' /\ StoreOK'
    BY <1>0, <1>3
    DEF HeadObject, RestOK, JobOK, StoreOK, NoFault, Fault, row
  <2>2. PcOK' /\ EraOK'
    <3>1. CASE Conclude(r, "202")  BY <1>0, <3>1, EraserMoves
    <3>2. CASE UNCHANGED pc
      <4>1. PcOK'  BY <1>0, <3>2 DEF PcOK
      <4>2. era[r] \in Erasures  BY <1>0 DEF EraOK
      <4>3. \A x \in BOOLEAN :
              [era[r] EXCEPT !.todo = era[r].todo \ {v}, !.shown = x] \in Erasures
        BY <4>2 DEF Erasures
      <4>4. [NoErasure EXCEPT !.step = "delete"] \in Erasures
        BY DEF Erasures, NoErasure
      <4>5. [era[r] EXCEPT !.todo = ToConfirm, !.shown = FALSE,
                           !.round = era[r].round + 1] \in Erasures
        <5>1. era[r].round + 1 \in Nat /\ ToConfirm \in SUBSET Variants
          BY <4>2 DEF Erasures, ToConfirm
        <5>2. \A n \in Nat, t \in SUBSET Variants :
                [era[r] EXCEPT !.todo = t, !.shown = FALSE, !.round = n]
                  \in Erasures
          BY <4>2 DEF Erasures
        <5>3. QED  BY <5>1, <5>2
      <4>6. era[r].shown \in BOOLEAN  BY <4>2 DEF Erasures
      <4>7. CASE \E x \in BOOLEAN : era' = [era EXCEPT ![r] =
                    [era[r] EXCEPT !.todo = era[r].todo \ {v}, !.shown = x]]
        BY <1>0, <4>1, <4>3, <4>7 DEF EraOK
      <4>8. CASE era' = [era EXCEPT ![r] = [NoErasure EXCEPT !.step = "delete"]]
        BY <1>0, <4>1, <4>4, <4>8 DEF EraOK
      <4>9. CASE era' = [era EXCEPT ![r] =
                    [era[r] EXCEPT !.todo = ToConfirm, !.shown = FALSE,
                                   !.round = era[r].round + 1]]
        BY <1>0, <4>1, <4>5, <4>9 DEF EraOK
      <4>10. QED
        BY <1>0, <1>3, <3>1, <4>6, <4>7, <4>8, <4>9 DEF HeadObject, EraOK
    <3>3. QED  BY <1>3, <3>1, <3>2 DEF HeadObject
  <2>3. QED  BY <2>1, <2>2
<1>4. CASE ErasureUnreachable(r)
  <2>1. RestOK' /\ JobOK'
    BY <1>0, <1>4 DEF ErasureUnreachable, RestOK, JobOK, Fault, row
  <2>2. StoreOK'  BY <1>0, <1>1, <1>4 DEF ErasureUnreachable, StoreOK
  <2>3. PcOK' /\ EraOK'  BY <1>0, <1>4, EraserMoves DEF ErasureUnreachable
  <2>4. QED  BY <2>1, <2>2, <2>3
<1>5. CASE EraseRow(r)
  <2>1. RestOK' /\ JobOK' /\ StoreOK'
    BY <1>0, <1>5 DEF EraseRow, RestOK, JobOK, StoreOK, NoFault, Fault
  <2>2. ErasureAnswer(Erasable) \in {"204", "404"}  BY DEF ErasureAnswer
  <2>3. PcOK' /\ EraOK'  BY <1>0, <1>5, <2>2, EraserMoves DEF EraseRow
  <2>4. QED  BY <2>1, <2>3
<1>6. CASE EraseRowError(r)
  <2>1. RestOK' /\ JobOK' /\ StoreOK'
    BY <1>0, <1>6 DEF EraseRowError, RestOK, JobOK, StoreOK, Fault, row
  <2>2. PcOK' /\ EraOK'  BY <1>0, <1>6, EraserMoves DEF EraseRowError
  <2>3. QED  BY <2>1, <2>2
<1>7. QED  BY <1>2, <1>3, <1>4, <1>5, <1>6 DEF EraseStep

\* So do a late landing and the death of the process.
LEMMA LateTypes ==
    ASSUME TypeOK, JobsKnown, LateLanding
    PROVE  TypeOK'
<1>0. RestOK /\ PcOK /\ JobOK /\ EraOK /\ StoreOK
  BY TypeParts
<1>1. PICK put \in late : /\ late' = late \ {put}
                          /\ Lands(put.variant, put.len, put.len) \/ UNCHANGED store
  BY DEF LateLanding
<1>2. put.variant \in Variants /\ put.len \in Nat \ {0}
  BY <1>0, BoundAssumption DEF RestOK, JobsKnown
<1>3. StoreOK'  BY <1>0, <1>1, <1>2, ObjectLands DEF StoreOK
<1>4. RestOK'  BY <1>0, <1>1 DEF LateLanding, RestOK, NoFault, row
<1>5. QED
  BY <1>0, <1>3, <1>4
  DEF LateLanding, TypeOK, RestOK, PcOK, JobOK, EraOK, StoreOK

\* So does the death of the process.
LEMMA CrashTypes ==
    ASSUME TypeOK, Crash
    PROVE  TypeOK'
<1>0. RestOK /\ PcOK /\ JobOK /\ EraOK /\ StoreOK
  BY TypeParts
<1>1. PcOK'
  <2>1. \A r \in Requests : pc'[r] \in {pc[r], "500", "lost"}
    BY DEF Crash
  <2>2. "500" \in UploadPcs /\ "lost" \in UploadPcs
        /\ "500" \in RemovePcs /\ "lost" \in RemovePcs
    BY DEF UploadPcs, RemovePcs
  <2>3. \A u \in Uploads : pc'[u] \in UploadPcs
    BY <1>0, <2>1, <2>2 DEF PcOK, Requests
  <2>4. \A d \in Removals : pc'[d] \in RemovePcs
    BY <1>0, <2>1, <2>2 DEF PcOK, Requests
  <2>5. pc' = [r \in Requests |-> pc'[r]]  BY DEF Crash
  <2>6. pc' \in [Requests -> UploadPcs \cup RemovePcs]
    BY <2>3, <2>4, <2>5 DEF Requests
  <2>7. QED  BY <2>3, <2>4, <2>6 DEF PcOK
<1>2. JobOK'  BY NoJobIsJob DEF Crash, JobOK
<1>3. NoErasure \in Erasures  BY DEF NoErasure, Erasures
<1>4. EraOK'  BY <1>3 DEF Crash, EraOK
<1>5. \A u \in Uploads : Sent(u) \in [variant : Variants, len : Nat]
  BY <1>0 DEF JobOK, Jobs, Sent
<1>6. RestOK'
  BY <1>0, <1>5, BoundAssumption DEF Crash, RestOK, Fault, row
<1>7. StoreOK'  BY <1>0 DEF Crash, StoreOK
<1>8. QED
  BY <1>1, <1>2, <1>4, <1>6, <1>7
  DEF TypeOK, RestOK, PcOK, JobOK, EraOK, StoreOK

\* Every step keeps the types.
LEMMA NextTypeOK == Core /\ [Next]_vars => TypeOK'
<1> SUFFICES ASSUME Core, [Next]_vars PROVE TypeOK'  OBVIOUS
<1>0. TypeOK /\ JobsKnown  BY DEF Core
<1>1. CASE Create  BY <1>0, <1>1 DEF Create, TypeOK
<1>2. CASE \E u \in Uploads : Lookup(u) \/ UploadStep(u)
  BY <1>2, UploadTypes
<1>3. CASE LateLanding  BY <1>0, <1>3, LateTypes
<1>4. CASE \E d \in Removals : Hide(d) \/ Repeat(d)
  BY <1>0, <1>4, HideTypes DEF Hide, Repeat, Starts, Callers
<1>5. CASE \E r \in Requests : EraseStep(r)  BY <1>0, <1>5, EraseTypes
<1>6. CASE Crash  BY <1>0, <1>6, CrashTypes
<1>7. CASE UNCHANGED vars  BY <1>0, <1>7 DEF vars, row, TypeOK
<1>8. QED
  BY <1>1, <1>2, <1>3, <1>4, <1>5, <1>6, <1>7 DEF Next

-----------------------------------------------------------------------------
(***************************************************************************)
(* The count.                                                              *)
(***************************************************************************)

\* Where an upload moves to decides whether it is counted.
LEMMA UploadCounted ==
    ASSUME TypeOK, NEW u \in Uploads, NEW from, NEW to, Goto(u, from, to)
    PROVE  /\ from \notin Admitted \cup {"lost"} => u \notin Counted
           /\ from \in Admitted \cup {"lost"} => u \in Counted
           /\ to \in Admitted \cup {"lost"} => Counted' = Counted \cup {u}
           /\ to \notin Admitted \cup {"lost"} => Counted' = Counted \ {u}
BY DEF TypeOK, Requests, Goto, Counted

\* A removal is never counted.
LEMMA RemovalUncounted ==
    ASSUME TypeOK, NEW d \in Removals, NEW from, NEW to, Goto(d, from, to)
    PROVE  Counted' = Counted
BY RequestAssumption DEF TypeOK, Requests, Goto, Counted

\* An erasure is not counted, and neither are its answers.
LEMMA EraserUncounted ==
    ASSUME TypeOK, NEW r \in Requests,
           NEW answer \in {"202", "204", "404", "500"}, Conclude(r, answer)
    PROVE  Counted' = Counted
<1>1. r \in Uploads \/ r \in Removals  BY DEF Requests
<1>2. "erasing" \notin Admitted \cup {"lost"}
      /\ (IF answer # "500" THEN "404" ELSE answer)
            \notin Admitted \cup {"lost"}
  BY DEF Admitted
<1>3. r \in Uploads => Counted' = Counted
  BY <1>2, UploadCounted DEF Conclude
<1>4. r \in Removals => Counted' = Counted
  BY RemovalUncounted DEF Conclude
<1>5. QED  BY <1>1, <1>3, <1>4

\* A move inside the counted ones changes neither the set nor anything else
\* the count depends on; every other step that counts or uncounts an upload
\* moves the number with the set.
LEMMA UploadCounts ==
    ASSUME Core, NEW u \in Uploads, Lookup(u) \/ UploadStep(u)
    PROVE  CountExact' /\ CountedRowStands'
<1>0. TypeOK /\ CountExact /\ CountedRowStands /\ inflight \in Nat
  BY DEF Core, TypeOK
<1>1. CASE Lookup(u)
  <2>1. PICK s \in {"found", "404"} : pc' = [pc EXCEPT ![u] = s]
    BY <1>1 DEF Lookup
  <2>2. Counted' = Counted
    BY <1>0, <1>1, <2>1
    DEF Lookup, Answered, TypeOK, Requests, Counted, Admitted
  <2>3. QED
    BY <1>0, <1>1, <2>2 DEF Lookup, CountExact, CountedRowStands, RowStands, row
<1>2. CASE Begin(u)
  <2>1. CASE Admits
    <3>1. u \notin Counted /\ Counted' = Counted \cup {u}
      BY <1>0, <1>2, <2>1, UploadCounted DEF Begin, Admitted
    <3>2. QED
      BY <1>0, <1>2, <2>1, <3>1, CountedJoins
      DEF Begin, Admits, CountIn, CountExact, CountedRowStands, RowStands
  <2>2. CASE ~Admits
    <3>1. u \notin Counted /\ Counted' = Counted \ {u}
      BY <1>0, <1>2, <2>2, UploadCounted DEF Begin, Admitted
    <3>2. Counted' = Counted  BY <3>1
    <3>3. QED
      BY <1>0, <1>2, <2>2, <3>2
      DEF Begin, CountExact, CountedRowStands, RowStands
  <2>3. QED  BY <2>1, <2>2
<1>3. CASE Recheck(u)
  <2>1. u \notin Counted /\ Counted' = Counted \ {u}
    BY <1>0, <1>3, UploadCounted DEF Recheck, Admitted
  <2>2. Counted' = Counted  BY <2>1
  <2>3. QED
    BY <1>0, <1>3, <2>2
    DEF Recheck, CountExact, CountedRowStands, RowStands, row
<1>4. ASSUME NEW from \in Admitted, NEW to \in Admitted, Goto(u, from, to),
             UNCHANGED <<place, inflight>>
      PROVE  CountExact' /\ CountedRowStands'
  <2>1. Counted' = Counted  BY <1>0, <1>4, UploadCounted
  <2>2. QED
    BY <1>0, <1>4, <2>1 DEF CountExact, CountedRowStands, RowStands
<1>5. CASE StoreTakes(u) \/ PutResolves(u) \/ PutRejects(u)
  BY <1>4, <1>5 DEF StoreTakes, PutResolves, PutRejects, row, Admitted
<1>6. CASE HeadWritten(u)
  BY <1>4, <1>6 DEF HeadWritten, row, Admitted
<1>7. CASE HeadOther(u)
  <2>1. job[u] \in Jobs  BY <1>0 DEF TypeOK
  <2>2. \A n \in Nat : Verdict(u, n) \in Admitted
    BY <2>1 DEF Verdict, Jobs, Admitted
  <2>3. \A v \in Variants : store[v].len \in Nat
    BY <1>0 DEF TypeOK, Objects, NoObject
  <2>4. Other(job[u].variant) \in Variants
    BY <2>1 DEF Other, Jobs, Variants
  <2>5. QED
    BY <1>4, <1>7, <2>2, <2>3, <2>4 DEF HeadOther, row, Admitted
<1>8. CASE MarkFailed(u) \/ MarkReady(u) \/ Reread(u)
  BY <1>4, <1>8 DEF MarkFailed, MarkReady, Reread, row, Admitted
<1>9. ASSUME NEW from \in Admitted, NEW to, to \notin Admitted \cup {"lost"},
             Goto(u, from, to), UNCHANGED place,
             inflight' = IF RowStands THEN inflight - 1 ELSE inflight
      PROVE  CountExact' /\ CountedRowStands'
  <2>1. u \in Counted /\ Counted' = Counted \ {u}
    BY <1>0, <1>9, UploadCounted
  <2>2. QED
    BY <1>0, <1>9, <2>1, CountedLeaves
    DEF CountExact, CountedRowStands, RowStands
<1>10. CASE EndUpload(u)
  <2>1. job[u] \in Jobs  BY <1>0 DEF TypeOK
  <2>2. Answer(job[u].out) \notin Admitted \cup {"lost"}
    BY <2>1 DEF Answer, Jobs, Admitted
  <2>3. PICK to : Goto(u, "ending", to) /\ to \notin Admitted \cup {"lost"}
    <3>1. (CASE place = "live"               -> Answer(job[u].out)
             [] LastOut                      -> "erasing"
             [] place = "hidden" /\ ~LastOut -> "404"
             [] OTHER                        -> "500")
            \notin Admitted \cup {"lost"}
      BY <2>2 DEF LastOut, Admitted
    <3>2. QED  BY <1>10, <3>1 DEF EndUpload
  <2>4. QED  BY <1>9, <1>10, <2>3 DEF EndUpload, Admitted
<1>11. CASE UploadDbError(u)
  <2>1. CASE Goto(u, "found", "500") \/ Goto(u, "refused", "500")
    <3>1. u \notin Counted /\ Counted' = Counted \ {u}
      BY <1>0, <2>1, UploadCounted DEF Admitted
    <3>2. inflight' = inflight
      BY <1>0, <1>11, <2>1 DEF UploadDbError, Goto
    <3>3. Counted' = Counted  BY <3>1
    <3>4. QED
      BY <1>0, <1>11, <3>2, <3>3
      DEF UploadDbError, CountExact, CountedRowStands, RowStands
  <2>2. CASE /\ \/ Goto(u, "mismatch", "reread") \/ Goto(u, "marking", "reread")
                \/ Goto(u, "reread", "reread")
                \/ Goto(u, "rejected", "ending") \/ Goto(u, "reread", "ending")
             /\ UNCHANGED inflight
    BY <1>4, <1>11, <2>2 DEF UploadDbError, Admitted
  <2>3. CASE Goto(u, "ending", "lost") /\ UNCHANGED inflight
    <3>1. Counted' = Counted
      BY <1>0, <2>3, UploadCounted DEF Admitted
    <3>2. QED
      BY <1>0, <1>11, <2>3, <3>1
      DEF UploadDbError, CountExact, CountedRowStands, RowStands
  <2>4. CASE RowStands /\ Goto(u, "ending", "500") /\ inflight' = inflight - 1
    BY <1>9, <1>11, <2>4 DEF UploadDbError, Admitted
  <2>5. QED  BY <1>11, <2>1, <2>2, <2>3, <2>4 DEF UploadDbError
<1>12. QED
  BY <1>1, <1>2, <1>3, <1>5, <1>6, <1>7, <1>8, <1>10, <1>11 DEF UploadStep

\* Only a row nobody is counted on is deleted.
LEMMA EraseCounts ==
    ASSUME Core, NEW r \in Requests, EraseStep(r)
    PROVE  CountExact' /\ CountedRowStands'
<1>0. TypeOK /\ CountExact /\ CountedRowStands  BY DEF Core
<1>1. Counted' = Counted /\ inflight' = inflight
  <2>1. CASE \E v \in Variants : RemoveObject(r, v)
    BY <2>1 DEF RemoveObject, Counted, row
  <2>2. CASE \E v \in Variants : HeadObject(r, v)
    BY <1>0, <2>2, EraserUncounted DEF HeadObject, Counted, row
  <2>3. CASE ErasureUnreachable(r)
    BY <1>0, <2>3, EraserUncounted DEF ErasureUnreachable, row
  <2>4. CASE EraseRow(r)
    <3>1. ErasureAnswer(Erasable) \in {"204", "404"}  BY DEF ErasureAnswer
    <3>2. QED  BY <1>0, <2>4, <3>1, EraserUncounted DEF EraseRow
  <2>5. CASE EraseRowError(r)
    BY <1>0, <2>5, EraserUncounted DEF EraseRowError, row
  <2>6. QED  BY <2>1, <2>2, <2>3, <2>4, <2>5 DEF EraseStep
<1>2. \/ place' = place
      \/ place = "hidden" /\ inflight = 0 /\ place' = "gone"
  BY DEF EraseStep, RemoveObject, HeadObject, ErasureUnreachable, EraseRow,
         EraseRowError, Erasable, row
<1>3. CASE place' = place
  BY <1>0, <1>1, <1>3 DEF CountExact, CountedRowStands, RowStands
<1>4. CASE place = "hidden" /\ inflight = 0 /\ place' = "gone"
  BY <1>0, <1>1, <1>4, CountedNone
  DEF CountExact, CountedRowStands, RowStands
<1>5. QED  BY <1>2, <1>3, <1>4

\* A dead process leaves every count it held.
LEMMA CrashCounts ==
    ASSUME TypeOK, Crash
    PROVE  Counted' = Counted
<1>1. Counted \cap {u \in Uploads : pc[u] \in AtRest \ {"lost"}} = {}
  BY DEF Counted, Admitted, AtRest
<1>2. ASSUME NEW u \in Uploads PROVE u \in Counted' <=> u \in Counted
  <2>1. pc'[u] = IF pc[u] \in AtRest THEN pc[u]
                 ELSE IF u \in Uploads \ Counted THEN "500" ELSE "lost"
    BY DEF Crash, Requests
  <2>2. CASE pc[u] \in AtRest
    BY <2>1, <2>2 DEF Counted
  <2>3. CASE pc[u] \notin AtRest /\ u \in Counted
    BY <2>1, <2>3 DEF Counted
  <2>4. CASE pc[u] \notin AtRest /\ u \notin Counted
    BY <2>1, <2>4 DEF Counted, Admitted
  <2>5. QED  BY <2>2, <2>3, <2>4
<1>3. QED  BY <1>2 DEF Counted

\* The count is exact, and what it counts stands.
LEMMA NextCounts == Core /\ [Next]_vars => CountExact' /\ CountedRowStands'
<1> SUFFICES ASSUME Core, [Next]_vars PROVE CountExact' /\ CountedRowStands'
  OBVIOUS
<1>0. TypeOK /\ CountExact /\ CountedRowStands /\ Unborn  BY DEF Core
<1>1. CASE Create
  <2>1. Counted = {} /\ Counted' = {} /\ inflight' = 0
    BY <1>0, <1>1 DEF Create, CountedRowStands, RowStands, Unborn, Counted
  <2>2. QED  BY <2>1, FS_EmptySet DEF CountExact, CountedRowStands
<1>2. CASE \E u \in Uploads : Lookup(u) \/ UploadStep(u)
  BY <1>2, UploadCounts
<1>3. ASSUME Counted' = Counted, UNCHANGED inflight,
             \/ UNCHANGED place
             \/ RowStands /\ place' = "hidden"
      PROVE  CountExact' /\ CountedRowStands'
  BY <1>0, <1>3 DEF CountExact, CountedRowStands, RowStands
<1>4. CASE LateLanding
  BY <1>3, <1>4 DEF LateLanding, Counted, row
<1>5. CASE \E d \in Removals : Hide(d) \/ Repeat(d)
  <2>1. PICK d \in Removals, caller \in Callers, from \in Starts : HideRow(d, caller, from)
    BY <1>5 DEF Hide, Repeat, Starts, Callers
  <2>2. Counted' = Counted  BY <1>0, <2>1, RemovalUncounted DEF HideRow
  <2>3. QED  BY <1>3, <2>1, <2>2 DEF HideRow, HideMatches
<1>6. CASE \E r \in Requests : EraseStep(r)  BY <1>6, EraseCounts
<1>7. CASE Crash
  BY <1>0, <1>3, <1>7, CrashCounts DEF Crash, row
<1>8. CASE UNCHANGED vars
  BY <1>3, <1>8 DEF vars, row, Counted
<1>9. QED
  BY <1>1, <1>2, <1>4, <1>5, <1>6, <1>7, <1>8 DEF Next

-----------------------------------------------------------------------------
(***************************************************************************)
(* Erasing and uploading exclude one another.                              *)
(***************************************************************************)

\* An upload that is counted already, or is not counted next, may move while
\* another request erases.
LEMMA MoveUnderErasure ==
    ASSUME TypeOK, NoUploadUnderErasure, UNCHANGED place,
           NEW u \in Uploads, NEW from, NEW to, Goto(u, from, to), to # "erasing",
           from \in Admitted \/ to \notin Admitted \cup {"lost"}
    PROVE  NoUploadUnderErasure'
<1>1. \A r \in Requests : pc'[r] = "erasing" => pc[r] = "erasing"
  BY DEF Goto, TypeOK, Requests
<1>2. Counted' \subseteq Counted  BY UploadCounted
<1>3. QED  BY <1>1, <1>2 DEF NoUploadUnderErasure

\* An upload's step starts an erasure only when it was the last one out.
LEMMA UploadErasing ==
    ASSUME Core, NEW u \in Uploads, Lookup(u) \/ UploadStep(u)
    PROVE  NoUploadUnderErasure'
<1>0. /\ TypeOK /\ CountExact /\ CountedRowStands /\ NoUploadUnderErasure
      /\ u \in Requests
  BY DEF Core, Requests
<1>1. CASE Lookup(u)
  <2>1. PICK s \in {"found", "404"} : pc' = [pc EXCEPT ![u] = s]
    BY <1>1 DEF Lookup
  <2>2. Counted' = Counted
    BY <1>0, <1>1, <2>1
    DEF Lookup, Answered, TypeOK, Requests, Counted, Admitted
  <2>3. \A r \in Requests : pc'[r] = "erasing" => pc[r] = "erasing"
    BY <1>0, <2>1 DEF TypeOK
  <2>4. QED  BY <1>0, <1>1, <2>2, <2>3 DEF Lookup, NoUploadUnderErasure, row
<1>2. CASE Begin(u)
  <2>1. CASE Admits
    <3>1. \A r \in Requests : pc[r] # "erasing"
      BY <1>0, <2>1 DEF Admits, NoUploadUnderErasure
    <3>2. \A r \in Requests : pc'[r] # "erasing"
      BY <1>0, <1>2, <2>1, <3>1 DEF Begin, Goto, TypeOK
    <3>3. QED  BY <3>2 DEF NoUploadUnderErasure
  <2>2. CASE ~Admits
    BY <1>0, <1>2, <2>2, MoveUnderErasure DEF Begin, Admitted
  <2>3. QED  BY <2>1, <2>2
<1>3. CASE Recheck(u)
  BY <1>0, <1>3, MoveUnderErasure DEF Recheck, Admitted, row
<1>4. CASE StoreTakes(u) \/ PutResolves(u) \/ PutRejects(u)
  BY <1>0, <1>4, MoveUnderErasure
  DEF StoreTakes, PutResolves, PutRejects, Admitted, row
<1>5. CASE HeadWritten(u)
  BY <1>0, <1>5, MoveUnderErasure DEF HeadWritten, Admitted, row
<1>6. CASE HeadOther(u)
  <2>1. job[u] \in Jobs  BY <1>0 DEF TypeOK
  <2>2. \A n \in Nat : Verdict(u, n) # "erasing"
    BY <2>1 DEF Verdict, Jobs
  <2>3. \A v \in Variants : store[v].len \in Nat
    BY <1>0 DEF TypeOK, Objects, NoObject
  <2>4. Other(job[u].variant) \in Variants
    BY <2>1 DEF Other, Jobs, Variants
  <2>5. QED
    BY <1>0, <1>6, <2>2, <2>3, <2>4, MoveUnderErasure
    DEF HeadOther, Admitted, row
<1>7. CASE MarkFailed(u) \/ MarkReady(u) \/ Reread(u)
  BY <1>0, <1>7, MoveUnderErasure DEF MarkFailed, MarkReady, Reread, Admitted, row
<1>8. CASE EndUpload(u)
  <2>1. CASE LastOut
    <3>1. u \in Counted /\ Counted' = Counted \ {u}
      <4>1. Goto(u, "ending", "erasing")
        BY <1>8, <2>1 DEF EndUpload, LastOut
      <4>2. QED  BY <1>0, <4>1, UploadCounted DEF Admitted
    <3>2. Counted' = {}
      BY <1>0, <2>1, <3>1, CountedLeaves DEF LastOut, CountExact, RowStands
    <3>3. QED  BY <1>8, <2>1, <3>2 DEF EndUpload, LastOut, NoUploadUnderErasure
  <2>2. CASE ~LastOut
    <3>1. job[u] \in Jobs  BY <1>0 DEF TypeOK
    <3>2. Answer(job[u].out) # "erasing"  BY <3>1 DEF Answer, Jobs
    <3>3. QED
      BY <1>0, <1>8, <2>2, <3>2, MoveUnderErasure DEF EndUpload, Admitted
  <2>3. QED  BY <2>1, <2>2
<1>9. CASE UploadDbError(u)
  BY <1>0, <1>9, MoveUnderErasure DEF UploadDbError, Admitted
<1>10. QED
  BY <1>1, <1>2, <1>3, <1>4, <1>5, <1>6, <1>7, <1>8, <1>9 DEF UploadStep

\* No erasure runs while an upload may still write.
LEMMA NextErasing == Core /\ [Next]_vars => NoUploadUnderErasure'
<1> SUFFICES ASSUME Core, [Next]_vars PROVE NoUploadUnderErasure'
  OBVIOUS
<1>0. TypeOK /\ CountExact /\ NoUploadUnderErasure /\ Unborn
  BY DEF Core
<1>1. ASSUME Counted' = Counted, place' = place \/ place' # "live",
             \A r \in Requests : pc'[r] = "erasing" => pc[r] = "erasing"
      PROVE  NoUploadUnderErasure'
  BY <1>0, <1>1 DEF NoUploadUnderErasure
<1>2. CASE Create
  BY <1>0, <1>2 DEF Create, Unborn, NoUploadUnderErasure
<1>3. CASE \E u \in Uploads : Lookup(u) \/ UploadStep(u)
  BY <1>3, UploadErasing
<1>4. CASE LateLanding
  BY <1>1, <1>4 DEF LateLanding, Counted, row
<1>5. CASE \E d \in Removals : Hide(d) \/ Repeat(d)
  <2>1. PICK d \in Removals, caller \in Callers, from \in Starts : HideRow(d, caller, from)
    BY <1>5 DEF Hide, Repeat, Starts, Callers
  <2>2. Counted' = Counted  BY <1>0, <2>1, RemovalUncounted DEF HideRow
  <2>3. CASE \E s \in {"202", "404", "500"} : Goto(d, from, s)
    <3>1. \A r \in Requests : pc'[r] = "erasing" => pc[r] = "erasing"
      BY <1>0, <2>3 DEF Goto, TypeOK, Requests
    <3>2. place' = place \/ place' # "live"  BY <2>1 DEF HideRow
    <3>3. QED  BY <1>1, <2>2, <3>1, <3>2
  <2>4. CASE place' = "hidden" /\ ~MustWait(inflight) /\ HideMatches(caller)
    <3>1. inflight = 0  BY <1>0, <2>4 DEF MustWait, TypeOK
    <3>2. Counted = {}
      BY <1>0, <2>4, <3>1, CountedNone DEF CountExact, HideMatches
    <3>3. QED  BY <2>2, <2>4, <3>2 DEF NoUploadUnderErasure
  <2>5. QED  BY <2>1, <2>3, <2>4 DEF HideRow
<1>6. CASE \E r \in Requests : EraseStep(r)
  <2>1. PICK r \in Requests : EraseStep(r)  BY <1>6
  <2>2. pc[r] = "erasing"
    BY <2>1 DEF EraseStep, RemoveObject, HeadObject, ErasureUnreachable,
               EraseRow, EraseRowError, Step
  <2>3. Counted = {} /\ place # "live"  BY <1>0, <2>2 DEF NoUploadUnderErasure
  <2>4. place' # "live"
    BY <2>1, <2>3
    DEF EraseStep, RemoveObject, HeadObject, ErasureUnreachable, EraseRow,
        EraseRowError, row
  <2>5. Counted' = {}
    <3>1. CASE UNCHANGED pc  BY <2>3, <3>1 DEF Counted
    <3>2. CASE Conclude(r, "202") \/ Conclude(r, "500")
      BY <1>0, <2>3, <3>2, EraserUncounted
    <3>3. CASE Conclude(r, ErasureAnswer(Erasable))
      <4>1. ErasureAnswer(Erasable) \in {"204", "404"}  BY DEF ErasureAnswer
      <4>2. QED  BY <1>0, <2>3, <3>3, <4>1, EraserUncounted
    <3>4. QED
      BY <2>1, <3>1, <3>2, <3>3
      DEF EraseStep, RemoveObject, HeadObject, ErasureUnreachable, EraseRow,
          EraseRowError
  <2>6. QED  BY <2>4, <2>5 DEF NoUploadUnderErasure
<1>7. CASE Crash
  <2>1. \A r \in Requests : pc'[r] # "erasing"
    BY <1>7 DEF Crash, AtRest
  <2>2. QED  BY <2>1 DEF NoUploadUnderErasure
<1>8. CASE UNCHANGED vars
  BY <1>1, <1>8 DEF vars, row, Counted
<1>9. QED
  BY <1>2, <1>3, <1>4, <1>5, <1>6, <1>7, <1>8 DEF Next

-----------------------------------------------------------------------------
(***************************************************************************)
(* What PUTs send, and what may still land.                                *)
(***************************************************************************)

\* endUpload leads to an answer, or to the erasure.
LEMMA EndMoves ==
    ASSUME TypeOK, NEW u \in Uploads, EndUpload(u)
    PROVE  \E to \in {"200", "404", "500", "erasing"} : Goto(u, "ending", to)
<1>1. job[u] \in Jobs  BY DEF TypeOK
<1>2. Answer(job[u].out) \in {"200", "404", "500"}
  BY <1>1 DEF Answer, Jobs
<1>3. (CASE place = "live"               -> Answer(job[u].out)
         [] LastOut                      -> "erasing"
         [] place = "hidden" /\ ~LastOut -> "404"
         [] OTHER                        -> "500")
        \in {"200", "404", "500", "erasing"}
  BY <1>2 DEF LastOut
<1>4. QED  BY <1>3 DEF EndUpload

\* An erasure's request stays where it is or is answered; nobody else moves.
LEMMA EraserAnswers ==
    ASSUME TypeOK, NEW r \in Requests, EraseStep(r)
    PROVE  /\ pc[r] = "erasing"
           /\ \A q \in Requests : \/ pc'[q] = pc[q]
                                  \/ q = r /\ pc'[q] \in {"202", "204", "404", "500"}
<1>1. pc[r] = "erasing"
  BY DEF EraseStep, RemoveObject, HeadObject, ErasureUnreachable, EraseRow,
         EraseRowError, Step
<1>2. UNCHANGED pc \/ \E answer \in {"202", "204", "404", "500"} :
                          Conclude(r, answer)
  BY DEF EraseStep, RemoveObject, HeadObject, ErasureUnreachable, EraseRow,
         EraseRowError, ErasureAnswer
<1>3. ASSUME NEW answer \in {"202", "204", "404", "500"}, Conclude(r, answer)
      PROVE  /\ pc'[r] \in {"202", "204", "404", "500"}
             /\ \A q \in Requests \ {r} : pc'[q] = pc[q]
  <2>1. PICK s \in {"202", "204", "404", "500"} : pc' = [pc EXCEPT ![r] = s]
    BY <1>3 DEF Conclude, Goto
  <2>2. QED  BY <2>1 DEF TypeOK
<1>4. QED  BY <1>1, <1>2, <1>3

\* What a PUT sends is known from its admission until it is answered.
LEMMA NextJobs == Core /\ [Next]_vars => JobsKnown'
<1> SUFFICES ASSUME Core, [Next]_vars PROVE JobsKnown'  OBVIOUS
<1>0. TypeOK /\ JobsKnown  BY DEF Core
<1> USE DEF Sending
<1>1. ASSUME \A u \in Uploads : /\ pc'[u] \in Sending => pc[u] \in Sending
                                /\ pc'[u] \in Sending => job'[u].len = job[u].len,
             late' \subseteq late
      PROVE  JobsKnown'
  BY <1>0, <1>1 DEF JobsKnown
<1>2. ASSUME NEW u \in Uploads, NEW from, NEW to, Goto(u, from, to),
             from \in Sending \/ to \notin Sending,
             \/ UNCHANGED job
             \/ \E j \in Jobs : /\ job' = [job EXCEPT ![u] = j]
                                /\ to \notin Sending \/ j.len = job[u].len,
             late' \subseteq late
      PROVE  JobsKnown'
  <2>1. \A w \in Uploads : pc'[w] \in Sending => pc[w] \in Sending
    BY <1>0, <1>2 DEF Goto, TypeOK, Requests
  <2>2. \A w \in Uploads : pc'[w] \in Sending => job'[w].len = job[w].len
    BY <1>0, <1>2 DEF Goto, TypeOK, Requests
  <2>3. QED  BY <1>1, <1>2, <2>1, <2>2
<1>3. CASE Create
  BY <1>1, <1>3 DEF Create
<1>4. ASSUME NEW u \in Uploads, Lookup(u) PROVE JobsKnown'
  <2>1. CASE pc' = [pc EXCEPT ![u] = "404"] /\ UNCHANGED job
    <3>1. \A w \in Uploads : pc'[w] \in Sending => pc[w] \in Sending
      BY <1>0, <2>1 DEF TypeOK, Requests, Admitted
    <3>2. QED  BY <1>1, <1>4, <2>1, <3>1 DEF Lookup
  <2>2. CASE /\ pc' = [pc EXCEPT ![u] = "found"]
             /\ \E v \in Variants, n \in Lengths :
                  job' = [job EXCEPT ![u] = [NoJob EXCEPT !.variant = v, !.len = n]]
    <3>1. job'[u].len \in Lengths  BY <1>0, <2>2 DEF TypeOK, NoJob
    <3>2. \A w \in Uploads \ {u} : pc'[w] = pc[w] /\ job'[w] = job[w]
      BY <1>0, <2>2 DEF TypeOK, Requests
    <3>3. QED  BY <1>0, <1>4, <3>1, <3>2 DEF Lookup, JobsKnown
  <2>3. QED  BY <1>4, <2>1, <2>2 DEF Lookup
<1>5. ASSUME NEW u \in Uploads, UploadStep(u) PROVE JobsKnown'
  <2>0. job[u] \in Jobs  BY <1>0 DEF TypeOK
  <2>1. CASE Begin(u)
    BY <1>2, <2>1, NoJobIsJob DEF Begin, Forget, Admitted
  <2>2. CASE Recheck(u)
    BY <1>2, <2>2 DEF Recheck, Admitted
  <2>3. CASE StoreTakes(u) \/ PutResolves(u)
    BY <1>2, <2>3 DEF StoreTakes, PutResolves, Admitted
  <2>4. CASE PutRejects(u)
    <3>1. pc[u] = "putting" /\ UNCHANGED job /\ late' \subseteq late \cup {Sent(u)}
      BY <2>4 DEF PutRejects, Goto
    <3>2. Sent(u).len \in Lengths
      BY <1>0, <3>1 DEF JobsKnown, Sent, Admitted
    <3>3. \A w \in Uploads : pc'[w] \in Sending => pc[w] \in Sending
      BY <1>0, <2>4 DEF PutRejects, Goto, TypeOK, Requests, Admitted
    <3>4. QED  BY <1>0, <3>1, <3>2, <3>3 DEF JobsKnown
  <2>5. CASE HeadWritten(u)
    <3>1. \A n \in Nat : [job[u] EXCEPT !.seen = n] \in Jobs
                         /\ [job[u] EXCEPT !.seen = n].len = job[u].len
      BY <2>0 DEF Jobs
    <3>2. \A v \in Variants : store[v].len \in Nat
      BY <1>0 DEF TypeOK, Objects, NoObject
    <3>3. job[u].variant \in Variants  BY <2>0 DEF Jobs
    <3>4. \/ UNCHANGED job
          \/ \E n \in Nat : job' = [job EXCEPT ![u] = [job[u] EXCEPT !.seen = n]]
      BY <2>5, <3>2, <3>3 DEF HeadWritten
    <3>5. QED  BY <1>2, <2>5, <3>1, <3>4 DEF HeadWritten, Admitted
  <2>6. CASE HeadOther(u)
    <3>1. \A n \in Nat : [job[u] EXCEPT !.other = n] \in Jobs
                         /\ [job[u] EXCEPT !.other = n].len = job[u].len
      BY <2>0 DEF Jobs
    <3>2. \A v \in Variants : store[v].len \in Nat
      BY <1>0 DEF TypeOK, Objects, NoObject
    <3>3. Other(job[u].variant) \in Variants
      BY <2>0 DEF Other, Jobs, Variants
    <3>4. \/ UNCHANGED job
          \/ \E n \in Nat : job' = [job EXCEPT ![u] = [job[u] EXCEPT !.other = n]]
      BY <2>6, <3>2, <3>3 DEF HeadOther
    <3>5. PICK to : Goto(u, "headOther", to)  BY <2>6 DEF HeadOther
    <3>6. QED  BY <1>2, <2>6, <3>1, <3>4, <3>5 DEF HeadOther, Admitted
  <2>7. CASE MarkFailed(u) \/ MarkReady(u)
    BY <1>2, <2>7 DEF MarkFailed, MarkReady, Admitted
  <2>8. CASE Reread(u)
    <3>1. \A o \in {"ok", "missing", "error"} : [job[u] EXCEPT !.out = o] \in Jobs
      BY <2>0 DEF Jobs
    <3>2. QED  BY <1>2, <2>8, <3>1 DEF Reread, Admitted
  <2>9. CASE EndUpload(u)
    <3>1. PICK to \in {"200", "404", "500", "erasing"} : Goto(u, "ending", to)
      BY <1>0, <2>9, EndMoves
    <3>2. QED
      BY <1>2, <2>9, <3>1, NoJobIsJob DEF EndUpload, Forget, Admitted
  <2>10. CASE UploadDbError(u)
    <3>1. [job[u] EXCEPT !.out = "error"] \in Jobs
      BY <2>0 DEF Jobs
    <3>2. QED
      BY <1>2, <2>10, <3>1, NoJobIsJob DEF UploadDbError, Forget, Admitted
  <2>11. QED
    BY <1>5, <2>1, <2>2, <2>3, <2>4, <2>5, <2>6, <2>7, <2>8, <2>9, <2>10
    DEF UploadStep
<1>6. CASE LateLanding
  BY <1>1, <1>6 DEF LateLanding
<1>7. CASE \E d \in Removals : Hide(d) \/ Repeat(d)
  <2>1. PICK d \in Removals, caller \in Callers, from \in Starts : HideRow(d, caller, from)
    BY <1>7 DEF Hide, Repeat, Starts, Callers
  <2>2. \A u \in Uploads : pc'[u] = pc[u]
    BY <1>0, <2>1, RequestAssumption DEF HideRow, Goto, TypeOK, Requests
  <2>3. QED  BY <1>1, <2>1, <2>2 DEF HideRow
<1>8. CASE \E r \in Requests : EraseStep(r)
  <2>1. PICK r \in Requests : EraseStep(r)  BY <1>8
  <2>2. UNCHANGED <<job, late>>
    BY <2>1 DEF EraseStep, RemoveObject, HeadObject, ErasureUnreachable,
               EraseRow, EraseRowError
  <2>3. \A u \in Uploads : pc'[u] \in Sending => pc[u] \in Sending
    BY <1>0, <2>1, EraserAnswers DEF Requests, Admitted
  <2>4. QED  BY <1>1, <2>2, <2>3
<1>9. CASE Crash
  <2>1. \A u \in Uploads : pc'[u] \notin Sending
    BY <1>9 DEF Crash, AtRest, Requests, Admitted
  <2>2. \A put \in late' : put.len \in Lengths
    BY <1>0, <1>9 DEF Crash, JobsKnown, Sent, Admitted
  <2>3. QED  BY <2>1, <2>2 DEF JobsKnown
<1>10. CASE UNCHANGED vars
  BY <1>1, <1>10 DEF vars
<1>11. QED
  BY <1>3, <1>4, <1>5, <1>6, <1>7, <1>8, <1>9, <1>10 DEF Next

\* A row leaves "none" by Create alone, and until then nothing happens to it.
LEMMA NextUnborn == Core /\ [Next]_vars => Unborn'
<1> SUFFICES ASSUME Core, [Next]_vars, place' = "none" PROVE Unborn'
  BY DEF Unborn
<1>0. /\ TypeOK /\ Unborn /\ CountedRowStands
      /\ NoUploadUnderErasure' /\ TypeOK'
  BY NextErasing, NextTypeOK DEF Core
<1>1. CASE Create  BY <1>1 DEF Create
<1>2. CASE place # "none"
  BY <1>2
  DEF Next, Create, Lookup, UploadStep, Begin, Recheck, StoreTakes, PutResolves,
      PutRejects, HeadWritten, HeadOther, MarkFailed, MarkReady, Reread,
      EndUpload, UploadDbError, LateLanding, Hide, Repeat, HideRow, EraseStep,
      RemoveObject, HeadObject, ErasureUnreachable, EraseRow, EraseRowError,
      Crash, vars, row
<1>3. ASSUME place = "none" PROVE Unborn'
  <2>1. /\ inflight = 0 /\ status = "pending" /\ ~RowStands /\ Counted = {}
        /\ \A r \in Requests : pc[r] # "erasing"
    BY <1>0, <1>3 DEF Unborn, CountedRowStands, RowStands
  <2>2. ASSUME NEW r \in Requests, NEW from, NEW to, Goto(r, from, to),
               to # "erasing", UNCHANGED <<inflight, status>>
        PROVE  Unborn'
    BY <1>0, <2>1, <2>2 DEF Unborn, Goto, TypeOK
  <2>3. ASSUME NEW u \in Uploads, Lookup(u) PROVE Unborn'
    <3>1. PICK s \in {"found", "404"} : pc' = [pc EXCEPT ![u] = s]
      BY <2>3 DEF Lookup
    <3>2. \A r \in Requests : pc'[r] # "erasing"
      BY <1>0, <2>1, <3>1 DEF TypeOK
    <3>3. QED  BY <2>1, <2>3, <3>2 DEF Lookup, Unborn, row
  <2>4. ASSUME NEW u \in Uploads, UploadStep(u) PROVE Unborn'
    <3>0. u \in Requests /\ u \notin Counted  BY <2>1 DEF Requests
    <3>1. pc[u] \notin Admitted  BY <3>0 DEF Counted
    <3>2. \/ Begin(u) \/ Recheck(u)
          \/ UploadDbError(u) /\ pc[u] \in {"found", "refused"}
      BY <2>4, <3>1
      DEF UploadStep, StoreTakes, PutResolves, PutRejects, HeadWritten,
          HeadOther, MarkFailed, MarkReady, Reread, EndUpload, UploadDbError,
          Goto, Admitted
    <3>3. CASE Begin(u)
      BY <1>3, <2>2, <3>0, <3>3 DEF Begin, Admits
    <3>4. CASE Recheck(u)  BY <2>2, <3>0, <3>4 DEF Recheck, row
    <3>5. CASE UploadDbError(u) /\ pc[u] \in {"found", "refused"}
      BY <2>2, <3>0, <3>5 DEF UploadDbError, Goto
    <3>6. QED  BY <3>2, <3>3, <3>4, <3>5
  <2>5. CASE LateLanding
    BY <2>1, <2>5 DEF LateLanding, Unborn, row
  <2>6. CASE \E d \in Removals : Hide(d) \/ Repeat(d)
    <3>1. PICK d \in Removals, caller \in Callers, from \in Starts : HideRow(d, caller, from)
      BY <2>6 DEF Hide, Repeat, Starts, Callers
    <3>2. Goto(d, from, "404") /\ UNCHANGED <<inflight, status>>
      BY <2>1, <3>1 DEF HideRow, HideMatches
    <3>3. QED  BY <2>2, <3>2 DEF Requests
  <2>7. CASE \E r \in Requests : EraseStep(r)
    BY <1>0, <2>1, <2>7, EraserAnswers
  <2>8. CASE Crash
    BY <2>1, <2>8 DEF Crash, Unborn, AtRest, row
  <2>9. CASE UNCHANGED vars
    BY <2>1, <2>9 DEF vars, row, Unborn
  <2>10. QED
    BY <1>1, <2>3, <2>4, <2>5, <2>6, <2>7, <2>8, <2>9 DEF Next
<1>4. QED  BY <1>2, <1>3

\* A lost upload stays lost.
LEMMA LostStays ==
    ASSUME TypeOK, [Next]_vars, NEW u \in Uploads, pc[u] = "lost"
    PROVE  pc'[u] = "lost"
<1>1. ASSUME NEW w \in Uploads, Lookup(w) PROVE pc'[u] = "lost"
  <2>1. PICK s \in {"found", "404"} : pc' = [pc EXCEPT ![w] = s]
    BY <1>1 DEF Lookup
  <2>2. w # u  BY <1>1 DEF Lookup, Answered
  <2>3. QED  BY <2>1, <2>2 DEF TypeOK, Requests
<1>2. ASSUME NEW w \in Uploads, UploadStep(w) PROVE pc'[u] = "lost"
  <2>1. \E from, to : Goto(w, from, to) /\ from # "lost"
    BY <1>2
    DEF UploadStep, Begin, Recheck, StoreTakes, PutResolves, PutRejects,
        HeadWritten, HeadOther, MarkFailed, MarkReady, Reread, EndUpload,
        UploadDbError
  <2>2. QED  BY <2>1 DEF Goto, TypeOK, Requests
<1>3. ASSUME NEW d \in Removals, Hide(d) \/ Repeat(d) PROVE pc'[u] = "lost"
  <2>1. PICK caller \in Callers, from \in Starts : HideRow(d, caller, from)
    BY <1>3 DEF Hide, Repeat, Starts, Callers
  <2>2. QED
    BY <2>1, RequestAssumption DEF HideRow, Goto, TypeOK, Requests
<1>4. ASSUME NEW r \in Requests, EraseStep(r) PROVE pc'[u] = "lost"
  BY <1>4, EraserAnswers DEF Requests
<1>5. CASE Crash  BY <1>5 DEF Crash, AtRest, Requests
<1>6. CASE Create \/ LateLanding \/ UNCHANGED vars
  BY <1>6 DEF Create, LateLanding, vars
<1>7. QED  BY <1>1, <1>2, <1>3, <1>4, <1>5, <1>6 DEF Next

\* Only a crash leaves a PUT to land later, and it leaves its upload lost.
LEMMA NextLate == NothingLate /\ IInv /\ [Next]_vars => LateIsLost'
<1> SUFFICES ASSUME NothingLate, IInv, [Next]_vars PROVE LateIsLost'  OBVIOUS
<1>0. TypeOK /\ LateIsLost  BY DEF IInv, Core
<1>1. CASE late' \subseteq late
  BY <1>0, <1>1, LostStays DEF LateIsLost
<1>2. CASE Crash
  <2>1. CASE \E u \in Uploads : pc[u] = "putting"
    <3>1. PICK u \in Uploads : pc[u] = "putting"  BY <2>1
    <3>2. pc'[u] = "lost"
      BY <1>2, <3>1 DEF Crash, AtRest, Counted, Admitted, Requests
    <3>3. QED  BY <3>2 DEF LateIsLost
  <2>2. CASE ~\E u \in Uploads : pc[u] = "putting"
    BY <1>1, <1>2, <2>2 DEF Crash
  <2>3. QED  BY <2>1, <2>2
<1>3. late' \subseteq late \/ Crash
  BY DEF NothingLate, Next, Create, Lookup, UploadStep, Begin, Recheck,
         StoreTakes, PutResolves, PutRejects, Fault, HeadWritten, HeadOther,
         MarkFailed, MarkReady, Reread, EndUpload, UploadDbError, LateLanding,
         Hide, Repeat, HideRow, EraseStep, RemoveObject, HeadObject,
         ErasureUnreachable, EraseRow, EraseRowError, vars
<1>4. QED  BY <1>1, <1>2, <1>3

-----------------------------------------------------------------------------
(***************************************************************************)
(* Objects.  Only an erasure takes one away, and only a counted upload, or *)
(* a PUT nobody awaits any more, puts one.                                 *)
(***************************************************************************)

\* What lands is there: an envelope cut by one byte still has one.
LEMMA LandsPresent ==
    ASSUME TypeOK, NEW v \in Variants, NEW n \in Nat \ {0}, NEW m, Lands(v, n, m)
    PROVE  \A w \in Variants : Present(w)' <=> w = v \/ Present(w)
<1>1. store' = [store EXCEPT ![v] = [len |-> n, whole |-> n = m]]
  BY DEF Lands
<1>2. [len |-> n, whole |-> n = m] # NoObject  BY DEF NoObject
<1>3. QED  BY <1>1, <1>2 DEF TypeOK, Present

\* How the store may change, from whom.
LEMMA StoreSteps ==
    ASSUME Core, [Next]_vars
    PROVE  \/ UNCHANGED store
           \/ /\ Counted # {} \/ late # {}
              /\ UNCHANGED row
              /\ \E v \in Variants, n \in Nat \ {0}, m \in Nat : Lands(v, n, m)
           \/ /\ UNCHANGED row
              /\ \E r \in Requests : pc[r] = "erasing"
              /\ \A v \in Variants : Present(v)' => Present(v)
<1>0. TypeOK /\ JobsKnown  BY DEF Core
<1>1. ASSUME NEW u \in Uploads, pc[u] = "putting"
      PROVE  /\ u \in Counted
             /\ job[u].variant \in Variants
             /\ job[u].len \in Nat \ {0} /\ job[u].len - 1 \in Nat \ {0}
  <2>1. job[u].len \in Nat \ {0, 1}
    BY <1>0, <1>1, BoundAssumption DEF JobsKnown, Sending, Admitted
  <2>2. u \in Counted  BY <1>1 DEF Counted, Admitted
  <2>3. QED  BY <1>0, <2>1, <2>2 DEF TypeOK, Jobs
<1>2. ASSUME NEW u \in Uploads, StoreTakes(u) \/ PutRejects(u)
      PROVE  \/ UNCHANGED store
             \/ /\ Counted # {} /\ UNCHANGED row
                /\ \E v \in Variants, n \in Nat \ {0}, m \in Nat : Lands(v, n, m)
  <2>1. pc[u] = "putting"  BY <1>2 DEF StoreTakes, PutRejects, Goto
  <2>2. QED  BY <1>1, <1>2, <2>1 DEF StoreTakes, PutRejects
<1>3. CASE LateLanding
  <2>1. PICK put \in late : Lands(put.variant, put.len, put.len) \/ UNCHANGED store
    BY <1>3 DEF LateLanding
  <2>2. put.variant \in Variants /\ put.len \in Nat \ {0}
    BY <1>0, BoundAssumption DEF TypeOK, JobsKnown
  <2>3. QED  BY <1>3, <2>1, <2>2 DEF LateLanding
<1>4. ASSUME NEW r \in Requests, NEW v \in Variants, RemoveObject(r, v)
      PROVE  /\ pc[r] = "erasing" /\ UNCHANGED row
             /\ \A w \in Variants : Present(w)' => Present(w)
  BY <1>0, <1>4 DEF RemoveObject, Step, TypeOK, Present
<1>5. ASSUME NEW r \in Requests, ErasureUnreachable(r)
      PROVE  /\ pc[r] = "erasing" /\ UNCHANGED row
             /\ \A w \in Variants : Present(w)' => Present(w)
  BY <1>0, <1>5 DEF ErasureUnreachable, TypeOK, Present
<1>6. \/ UNCHANGED store
      \/ \E u \in Uploads : StoreTakes(u) \/ PutRejects(u)
      \/ LateLanding
      \/ \E r \in Requests : \/ \E v \in Variants : RemoveObject(r, v)
                             \/ ErasureUnreachable(r)
  BY DEF Next, Create, Lookup, UploadStep, Begin, Recheck, PutResolves,
         HeadWritten, HeadOther, MarkFailed, MarkReady, Reread, EndUpload,
         UploadDbError, Hide, Repeat, HideRow, EraseStep, HeadObject, EraseRow,
         EraseRowError, Crash, vars, row
<1>7. QED  BY <1>2, <1>3, <1>4, <1>5, <1>6

\* While nobody erases, what is stored stays.
LEMMA KeepsObjects ==
    ASSUME Core, [Next]_vars, \A r \in Requests : pc[r] # "erasing",
           NEW v \in Variants, Present(v)
    PROVE  Present(v)'
<1>0. TypeOK  BY DEF Core
<1>1. \/ UNCHANGED store
      \/ \E w \in Variants, n \in Nat \ {0}, m \in Nat : Lands(w, n, m)
  BY StoreSteps
<1>2. CASE UNCHANGED store  BY <1>2 DEF Present
<1>3. CASE \E w \in Variants, n \in Nat \ {0}, m \in Nat : Lands(w, n, m)
  BY <1>0, <1>3, LandsPresent
<1>4. QED  BY <1>1, <1>2, <1>3

\* While nobody is counted, nothing is put.
LEMMA AddsNothing ==
    ASSUME IInv, [Next]_vars, Counted = {}, NEW v \in Variants, ~Present(v)
    PROVE  ~Present(v)'
<1>1. Core /\ late = {}  BY DEF IInv, LateIsLost, Counted
<1>2. QED  BY <1>1, StoreSteps DEF Present

\* An erasure is under way only with nobody counted.
LEMMA NextBare == IInv /\ [Next]_vars => Bare'
<1> SUFFICES ASSUME IInv, [Next]_vars, place' \in {"none", "gone"},
                    NEW v \in Variants
             PROVE  ~Present(v)'
  BY DEF Bare
<1>0. TypeOK /\ Bare /\ AbsentStays /\ CountExact /\ CountedRowStands
  BY DEF IInv, Core
<1>1. CASE place \in {"none", "gone"}
  <2>1. Counted = {}  BY <1>0, <1>1 DEF CountedRowStands, RowStands
  <2>2. QED  BY <1>0, <1>1, <2>1, AddsNothing DEF Bare
<1>2. CASE \E r \in Requests : EraseRow(r)
  <2>1. PICK r \in Requests : EraseRow(r)  BY <1>2
  <2>2. ~Present(v)  BY <1>0, <2>1 DEF EraseRow, Step, AbsentStays
  <2>3. QED  BY <2>1, <2>2 DEF EraseRow, Present
<1>3. \/ place \in {"none", "gone"}
      \/ \E r \in Requests : EraseRow(r)
  BY DEF Next, Create, Lookup, UploadStep, Begin, Recheck, StoreTakes,
         PutResolves, PutRejects, HeadWritten, HeadOther, MarkFailed, MarkReady,
         Reread, EndUpload, UploadDbError, LateLanding, Hide, Repeat, HideRow,
         EraseStep, RemoveObject, HeadObject, ErasureUnreachable,
         EraseRowError, Crash, vars, row
<1>4. QED  BY <1>1, <1>2, <1>3

\* Only markReady makes a row ready, and it has seen both objects.
LEMMA NextReady == Core /\ [Next]_vars => ReadyHasBoth'
<1> SUFFICES ASSUME Core, [Next]_vars, place' = "live", status' = "ready",
                    NEW v \in Variants
             PROVE  Present(v)'
  BY DEF ReadyHasBoth
<1>0. TypeOK /\ ReadyHasBoth /\ SeenIsThere /\ NoUploadUnderErasure
  BY DEF Core
<1>1. CASE place = "live" /\ status = "ready"
  <2>1. \A r \in Requests : pc[r] # "erasing"
    BY <1>0, <1>1 DEF NoUploadUnderErasure
  <2>2. QED  BY <1>0, <1>1, <2>1, KeepsObjects DEF ReadyHasBoth
<1>2. CASE \E u \in Uploads : MarkReady(u)
  <2>1. PICK u \in Uploads : MarkReady(u)  BY <1>2
  <2>2. Present(v)  BY <1>0, <2>1 DEF MarkReady, Goto, SeenIsThere
  <2>3. QED  BY <2>1, <2>2 DEF MarkReady, Present
<1>3. \/ place = "live" /\ status = "ready"
      \/ \E u \in Uploads : MarkReady(u)
  BY DEF Next, Create, Lookup, UploadStep, Begin, Recheck, StoreTakes,
         PutResolves, PutRejects, HeadWritten, HeadOther, MarkFailed,
         FailedStatus, Reread, EndUpload, UploadDbError, LateLanding, Hide,
         Repeat, HideRow, EraseStep, RemoveObject, HeadObject,
         ErasureUnreachable, EraseRow, EraseRowError, Crash, vars, row
<1>4. QED  BY <1>1, <1>2, <1>3

\* An upload's step touches no other request.
LEMMA UploadLocal ==
    ASSUME TypeOK, NEW u \in Uploads, Lookup(u) \/ UploadStep(u)
    PROVE  /\ \A r \in Requests \ {u} : pc'[r] = pc[r]
           /\ \A w \in Uploads \ {u} : job'[w] = job[w]
           /\ \A r \in Requests \ {u} : era'[r] = era[r]
<1>1. \E s : pc' = [pc EXCEPT ![u] = s]
  BY DEF Lookup, UploadStep, Begin, Recheck, StoreTakes, PutResolves,
         PutRejects, HeadWritten, HeadOther, MarkFailed, MarkReady, Reread,
         EndUpload, UploadDbError, Goto
<1>2. UNCHANGED job \/ \E j : job' = [job EXCEPT ![u] = j]
  BY DEF Lookup, UploadStep, Begin, Recheck, StoreTakes, PutResolves,
         PutRejects, HeadWritten, HeadOther, MarkFailed, MarkReady, Reread,
         EndUpload, UploadDbError, Forget
<1>3. UNCHANGED era \/ \E e : era' = [era EXCEPT ![u] = e]
  BY DEF Lookup, UploadStep, Begin, Recheck, StoreTakes, PutResolves,
         PutRejects, HeadWritten, HeadOther, MarkFailed, MarkReady, Reread,
         EndUpload, UploadDbError, BeginErasure
<1>4. QED  BY <1>1, <1>2, <1>3 DEF TypeOK

\* How an upload comes to have seen the object it wrote, or both.
LEMMA SeenSteps ==
    ASSUME TypeOK, [Next]_vars, NEW w \in Uploads
    PROVE  \/ pc'[w] \notin {"headOther", "marking"}
           \/ pc'[w] = pc[w] /\ job'[w] = job[w]
           \/ pc'[w] = "headOther" /\ HeadWritten(w)
           \/ pc'[w] = "marking" /\ HeadOther(w)
<1> DEFINE Calm(q) == pc'[q] \notin {"headOther", "marking"}
<1>1. CASE Lookup(w)
  <2>1. PICK s \in {"found", "404"} : pc' = [pc EXCEPT ![w] = s]
    BY <1>1 DEF Lookup
  <2>2. QED  BY <2>1 DEF TypeOK, Requests
<1>2. ASSUME NEW from, NEW to, Goto(w, from, to), to \notin {"headOther", "marking"}
      PROVE  Calm(w)
  BY <1>2 DEF Goto, TypeOK, Requests
<1>3. CASE UploadStep(w) /\ ~HeadWritten(w) /\ ~HeadOther(w)
  <2>1. CASE EndUpload(w)  BY <1>2, <2>1, EndMoves
  <2>2. CASE ~EndUpload(w)
    BY <1>2, <1>3, <2>2
    DEF UploadStep, Begin, Recheck, StoreTakes, PutResolves, PutRejects,
        MarkFailed, MarkReady, Reread, UploadDbError
  <2>3. QED  BY <2>1, <2>2
<1>4. CASE HeadWritten(w)
  <2>1. PICK to \in {"headOther", "reread"} : Goto(w, "heading", to)
    BY <1>4 DEF HeadWritten
  <2>2. pc'[w] = to  BY <2>1 DEF Goto, TypeOK, Requests
  <2>3. QED  BY <1>4, <2>1, <2>2
<1>5. CASE HeadOther(w)
  <2>1. job[w] \in Jobs /\ \A v \in Variants : store[v].len \in Nat
    BY DEF TypeOK, Objects, NoObject
  <2>2. Other(job[w].variant) \in Variants
    BY <2>1 DEF Other, Jobs, Variants
  <2>3. \A n \in Nat : Verdict(w, n) \in {"reread", "mismatch", "marking"}
    BY <2>1 DEF Verdict, Jobs
  <2>4. PICK to \in {"reread", "mismatch", "marking"} : Goto(w, "headOther", to)
    BY <1>5, <2>1, <2>2, <2>3 DEF HeadOther
  <2>5. pc'[w] = to  BY <2>4 DEF Goto, TypeOK, Requests
  <2>6. QED  BY <1>5, <2>4, <2>5
<1>6. ASSUME NEW u \in Uploads \ {w}, Lookup(u) \/ UploadStep(u)
      PROVE  pc'[w] = pc[w] /\ job'[w] = job[w]
  BY <1>6, UploadLocal DEF Requests
<1>7. ASSUME NEW d \in Removals, Hide(d) \/ Repeat(d)
      PROVE  pc'[w] = pc[w] /\ job'[w] = job[w]
  <2>1. PICK caller \in Callers, from \in Starts : HideRow(d, caller, from)
    BY <1>7 DEF Hide, Repeat, Starts, Callers
  <2>2. QED
    BY <2>1, RequestAssumption DEF HideRow, Goto, TypeOK, Requests
<1>8. ASSUME NEW r \in Requests, EraseStep(r)
      PROVE  Calm(w) \/ (pc'[w] = pc[w] /\ job'[w] = job[w])
  <2>1. UNCHANGED job
    BY <1>8 DEF EraseStep, RemoveObject, HeadObject, ErasureUnreachable,
               EraseRow, EraseRowError
  <2>2. QED  BY <1>8, <2>1, EraserAnswers DEF Requests
<1>9. CASE Crash  BY <1>9 DEF Crash, AtRest, Requests
<1>10. CASE Create \/ LateLanding \/ UNCHANGED vars
  BY <1>10 DEF Create, LateLanding, vars
<1>11. QED
  BY <1>1, <1>3, <1>4, <1>5, <1>6, <1>7, <1>8, <1>9, <1>10 DEF Next

\* A request that goes somewhere is there.
LEMMA GotoThere ==
    ASSUME TypeOK, NEW u \in Uploads, NEW from, NEW to, Goto(u, from, to)
    PROVE  pc'[u] = to
BY DEF Goto, TypeOK, Requests

\* What an upload has seen stays there until it says so.
LEMMA NextSeen == Core /\ [Next]_vars => SeenIsThere'
<1> SUFFICES ASSUME Core, [Next]_vars, NEW w \in Uploads
             PROVE  /\ pc'[w] = "headOther" /\ job'[w].seen # 0
                         => Present(job[w].variant)' /\ job'[w].variant = job[w].variant
                    /\ pc'[w] = "marking" => \A v \in Variants : Present(v)'
  BY DEF SeenIsThere, Present
<1>0. /\ TypeOK /\ SeenIsThere /\ NoUploadUnderErasure /\ job[w] \in Jobs
      /\ job[w].variant \in Variants /\ Other(job[w].variant) \in Variants
  BY DEF Core, TypeOK, Jobs, Other, Variants
<1>1. CASE pc'[w] \notin {"headOther", "marking"}  BY <1>1
<1>2. CASE pc'[w] = pc[w] /\ job'[w] = job[w] /\ pc'[w] \in {"headOther", "marking"}
  <2>1. \A r \in Requests : pc[r] # "erasing"
    BY <1>0, <1>2 DEF NoUploadUnderErasure, Counted, Admitted
  <2>2. QED  BY <1>0, <1>2, <2>1, KeepsObjects DEF SeenIsThere, Present
<1>3. CASE pc'[w] = "headOther" /\ HeadWritten(w)
  <2>1. PICK n \in {0, store[job[w].variant].len} :
          job' = [job EXCEPT ![w].seen = n]
    <3>1. ~Goto(w, "heading", "reread")  BY <1>0, <1>3, GotoThere
    <3>2. QED  BY <1>3, <3>1 DEF HeadWritten
  <2>2. job'[w].seen = n /\ job'[w].variant = job[w].variant
    BY <1>0, <2>1 DEF TypeOK, Jobs
  <2>3. n # 0 => Present(job[w].variant)
    BY <2>1 DEF Present, NoObject
  <2>4. QED  BY <1>3, <2>2, <2>3 DEF HeadWritten, Present
<1>4. CASE pc'[w] = "marking" /\ HeadOther(w)
  <2>1. PICK n \in {0, store[Other(job[w].variant)].len} :
          Verdict(w, n) = "marking"
    <3>1. ~Goto(w, "headOther", "reread")  BY <1>0, <1>4, GotoThere
    <3>2. \A n : Goto(w, "headOther", Verdict(w, n)) => Verdict(w, n) = "marking"
      BY <1>0, <1>4, GotoThere
    <3>3. QED  BY <1>4, <3>1, <3>2 DEF HeadOther
  <2>2. n # 0 /\ job[w].seen # 0
    <3>1. job[w].len \in Nat \ {0}
      BY <1>4, BoundAssumption
      DEF Core, JobsKnown, Sending, Admitted, HeadOther, Goto
    <3>2. QED  BY <1>0, <2>1, <3>1 DEF Verdict, Jobs
  <2>3. Present(Other(job[w].variant))
    BY <2>1, <2>2 DEF Present, NoObject
  <2>4. Present(job[w].variant)
    BY <1>0, <1>4, <2>2 DEF SeenIsThere, HeadOther, Goto
  <2>5. \A v \in Variants : v = job[w].variant \/ v = Other(job[w].variant)
    BY <1>0 DEF Variants, Other
  <2>6. QED  BY <1>4, <2>3, <2>4, <2>5 DEF HeadOther, Present
<1>5. QED  BY <1>0, <1>1, <1>2, <1>3, <1>4, SeenSteps

\* An erasure begins by removing, and only its own steps take it further.
LEMMA EraSteps ==
    ASSUME TypeOK, [Next]_vars, NEW r \in Requests, pc'[r] = "erasing"
    PROVE  \/ pc[r] = "erasing" /\ era'[r] = era[r]
           \/ era'[r].step = "removing"
           \/ \E v \in Variants : RemoveObject(r, v) \/ HeadObject(r, v)
<1>1. ASSUME BeginErasure(r) PROVE era'[r].step = "removing"
  BY <1>1 DEF BeginErasure, TypeOK
<1>2. ASSUME NEW u \in Uploads, Lookup(u) \/ UploadStep(u), u # r
      PROVE  pc[r] = "erasing" /\ era'[r] = era[r]
  BY <1>2, UploadLocal
<1>3. ASSUME r \in Uploads, Lookup(r) PROVE FALSE
  <2>1. PICK s \in {"found", "404"} : pc' = [pc EXCEPT ![r] = s]
    BY <1>3 DEF Lookup
  <2>2. QED  BY <2>1 DEF TypeOK
<1>4. ASSUME r \in Uploads, UploadStep(r) PROVE BeginErasure(r)
  <2>0. \A from, to : Goto(r, from, to) => to = "erasing"
    BY <1>4, GotoThere
  <2>1. ~HeadOther(r)
    <3>1. SUFFICES ASSUME HeadOther(r) PROVE FALSE  OBVIOUS
    <3>2. pc'[r] \notin {"headOther", "marking"} => pc'[r] # "erasing"
      <4>1. job[r] \in Jobs /\ \A v \in Variants : store[v].len \in Nat
        BY <1>4 DEF TypeOK, Objects, NoObject
      <4>2. Other(job[r].variant) \in Variants
        BY <4>1 DEF Other, Jobs, Variants
      <4>3. \A n \in Nat : Verdict(r, n) # "erasing"
        BY <4>1 DEF Verdict, Jobs
      <4>4. QED  BY <2>0, <3>1, <4>1, <4>2, <4>3 DEF HeadOther
    <3>3. QED  BY <3>2
  <2>2. EndUpload(r)
    BY <1>4, <2>0, <2>1
    DEF UploadStep, Begin, Recheck, StoreTakes, PutResolves, PutRejects,
        HeadWritten, MarkFailed, MarkReady, Reread, UploadDbError
  <2>3. LastOut
    <3>1. job[r] \in Jobs  BY <1>4 DEF TypeOK
    <3>2. Answer(job[r].out) # "erasing"  BY <3>1 DEF Answer, Jobs
    <3>3. QED  BY <2>0, <2>2, <3>2 DEF EndUpload, LastOut
  <2>4. QED  BY <2>2, <2>3 DEF EndUpload
<1>5. ASSUME NEW d \in Removals, Hide(d) \/ Repeat(d)
      PROVE  (pc[r] = "erasing" /\ era'[r] = era[r]) \/ BeginErasure(r)
  <2>1. PICK caller \in Callers, from \in Starts : HideRow(d, caller, from)
    BY <1>5 DEF Hide, Repeat, Starts, Callers
  <2>2. CASE d # r
    <3>1. pc[r] = "erasing"
      BY <2>1, <2>2 DEF HideRow, Goto, TypeOK, Requests
    <3>2. era'[r] = era[r]
      BY <2>1, <2>2 DEF HideRow, BeginErasure, TypeOK, Requests
    <3>3. QED  BY <3>1, <3>2
  <2>3. CASE d = r
    <3>1. \A to : Goto(d, from, to) => to = "erasing"
      BY <2>3 DEF Goto, TypeOK, Requests
    <3>2. QED  BY <2>1, <2>3, <3>1 DEF HideRow
  <2>4. QED  BY <2>2, <2>3
<1>6. ASSUME NEW q \in Requests, EraseStep(q)
      PROVE  \/ pc[r] = "erasing" /\ era'[r] = era[r]
             \/ \E v \in Variants : RemoveObject(r, v) \/ HeadObject(r, v)
  <2>1. pc[r] = "erasing"  BY <1>6, EraserAnswers
  <2>2. CASE q # r
    <3>1. \E e : era' = [era EXCEPT ![q] = e]
      BY <1>6 DEF EraseStep, RemoveObject, HeadObject, ErasureUnreachable,
                 EraseRow, EraseRowError, Conclude
    <3>2. QED  BY <2>1, <2>2, <3>1 DEF TypeOK
  <2>3. CASE q = r
    <3>1. \A answer \in {"202", "204", "404", "500"} : ~Conclude(r, answer)
      BY DEF Conclude, Goto, TypeOK
    <3>2. ErasureAnswer(Erasable) \in {"204", "404"}  BY DEF ErasureAnswer
    <3>3. QED
      BY <1>6, <2>3, <3>1, <3>2
      DEF EraseStep, ErasureUnreachable, EraseRow, EraseRowError
  <2>4. QED  BY <2>2, <2>3
<1>7. CASE Crash  BY <1>7 DEF Crash, AtRest
<1>8. CASE Create \/ LateLanding \/ UNCHANGED vars
  BY <1>8 DEF Create, LateLanding, vars
<1>9. QED
  BY <1>1, <1>2, <1>3, <1>4, <1>5, <1>6, <1>7, <1>8 DEF Next

\* What an erasure has found absent stays absent until the row is deleted.
LEMMA NextAbsent == IInv /\ [Next]_vars => AbsentStays'
<1> DEFINE Holds(r) ==
      /\ era[r].step = "checking" /\ ~era[r].shown =>
           \A v \in Variants \ era[r].todo : ~Present(v)
      /\ era[r].step = "delete" => \A v \in Variants : ~Present(v)
<1> SUFFICES ASSUME IInv, [Next]_vars, NEW r \in Requests, pc'[r] = "erasing"
             PROVE  Holds(r)'
  BY DEF AbsentStays
<1>0. TypeOK /\ AbsentStays /\ NoUploadUnderErasure /\ era[r] \in Erasures
  BY DEF IInv, Core, TypeOK
<1>1. CASE pc[r] = "erasing" /\ era'[r] = era[r]
  <2>1. Counted = {} /\ Holds(r)
    BY <1>0, <1>1 DEF NoUploadUnderErasure, AbsentStays
  <2>2. QED  BY <1>1, <2>1, AddsNothing
<1>2. CASE era'[r].step = "removing"  BY <1>2
<1>3. ASSUME NEW v \in Variants, RemoveObject(r, v) PROVE Holds(r)'
  <2>1. PICK e : /\ era' = [era EXCEPT ![r] = e]
                 /\ \/ e = [era[r] EXCEPT !.step = "checking", !.todo = ToConfirm]
                    \/ e = [era[r] EXCEPT !.todo = era[r].todo \ {v}]
    BY <1>3 DEF RemoveObject
  <2>2. era'[r] = e  BY <1>0, <2>1 DEF TypeOK
  <2>3. \/ e.step = "checking" /\ e.todo = Variants
        \/ e.step = "removing"
    BY <1>0, <1>3, <2>1 DEF Erasures, ToConfirm, RemoveObject, Step
  <2>4. QED  BY <2>2, <2>3
<1>4. ASSUME NEW v \in Variants, HeadObject(r, v) PROVE Holds(r)'
  <2>0. /\ Holds(r) /\ UNCHANGED store /\ era[r].step = "checking"
        /\ era[r].shown \in BOOLEAN
    BY <1>0, <1>4 DEF HeadObject, Step, AbsentStays, Erasures
  <2>1. \A answer \in {"202", "204", "404", "500"} : ~Conclude(r, answer)
    BY <1>0 DEF Conclude, Goto, TypeOK
  <2>2. PICK sees \in BOOLEAN : /\ ~sees => ~Present(v)
        /\ LET shown == era[r].shown \/ sees
           IN \/ era' = [era EXCEPT ![r] = [era[r] EXCEPT
                           !.todo = era[r].todo \ {v}, !.shown = shown]]
              \/ /\ era[r].todo = {v} /\ ~shown
                 /\ era' = [era EXCEPT ![r] = [NoErasure EXCEPT !.step = "delete"]]
              \/ era' = [era EXCEPT ![r] = [era[r] EXCEPT
                           !.todo = ToConfirm, !.shown = FALSE,
                           !.round = era[r].round + 1]]
    BY <1>4, <2>1 DEF HeadObject
  <2>3. CASE era' = [era EXCEPT ![r] = [era[r] EXCEPT
                       !.todo = era[r].todo \ {v}, !.shown = era[r].shown \/ sees]]
    <3>1. /\ era'[r].step = "checking"
          /\ era'[r].todo = era[r].todo \ {v}
          /\ era'[r].shown = (era[r].shown \/ sees)
      BY <1>0, <2>0, <2>3 DEF TypeOK, Erasures
    <3>2. QED  BY <2>0, <2>2, <3>1 DEF Present
  <2>4. CASE /\ era[r].todo = {v} /\ ~(era[r].shown \/ sees)
             /\ era' = [era EXCEPT ![r] = [NoErasure EXCEPT !.step = "delete"]]
    <3>1. \A w \in Variants : ~Present(w)  BY <2>0, <2>2, <2>4
    <3>2. QED  BY <1>0, <2>0, <2>4, <3>1 DEF TypeOK, NoErasure, Present
  <2>5. CASE era' = [era EXCEPT ![r] = [era[r] EXCEPT
                       !.todo = ToConfirm, !.shown = FALSE,
                       !.round = era[r].round + 1]]
    <3>1. era'[r].todo = Variants /\ era'[r].step = "checking"
      BY <1>0, <2>0, <2>5 DEF TypeOK, Erasures, ToConfirm
    <3>2. QED  BY <3>1
  <2>6. QED  BY <2>2, <2>3, <2>4, <2>5
<1>5. QED  BY <1>0, <1>1, <1>2, <1>3, <1>4, EraSteps

-----------------------------------------------------------------------------
(***************************************************************************)
(* The theorems.                                                           *)
(***************************************************************************)
\* The part that holds whatever the store does is inductive by itself.
LEMMA NextCore == Core /\ [Next]_vars => Core'
BY NextTypeOK, NextCounts, NextErasing, NextJobs, NextUnborn, NextReady,
   NextSeen DEF Core

\* The whole is, while no rejected PUT lands afterwards.
LEMMA NextIInv == NothingLate /\ IInv /\ [Next]_vars => IInv'
BY NextCore, NextLate, NextBare, NextAbsent DEF IInv

\* The count, the exclusion of uploads and erasures, and what ready rests on
\* hold in every state, whatever requests interleave and whatever fails.
THEOREM CoreInductive == Spec => []Core
<1>1. Init => Core  BY InitIInv DEF IInv
<1>2. QED  BY <1>1, NextCore, PTL DEF Spec

\* With the port's contract, so does what an erasure rests on.
THEOREM Inductive ==
    ASSUME NothingLate
    PROVE  Spec => []IInv
<1>1. Init => IInv  BY InitIInv
<1>2. IInv /\ [Next]_vars => IInv'  BY NextIInv
<1>3. QED  BY <1>1, <1>2, PTL DEF Spec

\* Every variable keeps its type.
THEOREM TypeSafe == Spec => []TypeOK
<1>1. Core => TypeOK  BY DEF Core
<1>2. QED  BY <1>1, CoreInductive, PTL

\* uploads_in_flight is the number of admitted uploads not yet uncounted.
THEOREM UploadsAreCounted == Spec => []CountExact
<1>1. Core => CountExact  BY DEF Core
<1>2. QED  BY <1>1, CoreInductive, PTL

\* endUpload finds the row of every upload it is called for.
THEOREM CountedRowsStand == Spec => []CountedRowStands
<1>1. Core => CountedRowStands  BY DEF Core
<1>2. QED  BY <1>1, CoreInductive, PTL

\* An erasure and an upload are never under way together.
THEOREM ErasureExcludesUploads == Spec => []NoUploadUnderErasure
<1>1. Core => NoUploadUnderErasure  BY DEF Core
<1>2. QED  BY <1>1, CoreInductive, PTL

\* A live ready row has both its objects.
THEOREM ReadyRowsHaveBoth == Spec => []ReadyHasBoth
<1>1. Core => ReadyHasBoth  BY DEF Core
<1>2. QED  BY <1>1, CoreInductive, PTL

\* A row that is gone leaves nothing in the store, and nothing that could
\* still get there.
THEOREM ErasureIsFinal ==
    ASSUME NothingLate
    PROVE  Spec => []GoneForGood
<1>1. IInv => GoneForGood
  <2> SUFFICES ASSUME IInv, place = "gone"
               PROVE  /\ \A v \in Variants : ~Present(v)
                      /\ late = {}
                      /\ \A u \in Uploads : pc[u] # "putting"
    BY DEF GoneForGood
  <2>1. Counted = {}  BY DEF IInv, Core, CountedRowStands, RowStands
  <2>2. late = {}  BY <2>1 DEF IInv, LateIsLost, Counted
  <2>3. \A u \in Uploads : pc[u] # "putting"
    BY <2>1 DEF Counted, Admitted
  <2>4. QED  BY <2>2, <2>3 DEF IInv, Bare
<1>2. QED  BY <1>1, Inductive, PTL

-----------------------------------------------------------------------------
(***************************************************************************)
(* The detailed specification implements the promise.                      *)
(***************************************************************************)

\* How the row may change.
LEMMA RowSteps ==
    ASSUME [Next]_vars
    PROVE  \/ UNCHANGED <<place, status>>
           \/ Create
           \/ UNCHANGED <<place, store>> /\ Admits /\ status' = "processing"
           \/ /\ UNCHANGED <<place, store>>
              /\ status = "processing" /\ status' = "failed"
           \/ \E u \in Uploads : MarkReady(u) /\ MayBeReady
           \/ UNCHANGED <<status, store>> /\ RowStands /\ place' = "hidden"
           \/ \E r \in Requests : EraseRow(r) /\ Erasable
<1>1. ASSUME NEW u \in Uploads, Begin(u)
      PROVE  \/ UNCHANGED <<place, status>>
             \/ UNCHANGED <<place, store>> /\ Admits /\ status' = "processing"
  BY <1>1 DEF Begin
<1>2. ASSUME NEW u \in Uploads, MarkFailed(u) \/ UploadDbError(u)
      PROVE  \/ UNCHANGED <<place, status>>
             \/ /\ UNCHANGED <<place, store>>
                /\ status = "processing" /\ status' = "failed"
  BY <1>2 DEF MarkFailed, UploadDbError, FailedStatus
<1>3. ASSUME NEW d \in Removals, Hide(d) \/ Repeat(d)
      PROVE  \/ UNCHANGED <<place, status>>
             \/ UNCHANGED <<status, store>> /\ RowStands /\ place' = "hidden"
  <2>1. PICK caller \in Callers, from \in Starts : HideRow(d, caller, from)
    BY <1>3 DEF Hide, Repeat, Starts, Callers
  <2>2. QED  BY <2>1 DEF HideRow, HideMatches
<1>4. ASSUME NEW u \in Uploads, MarkReady(u)
      PROVE  MayBeReady \/ UNCHANGED <<place, status>>
  BY <1>4 DEF MarkReady
<1>5. ASSUME NEW r \in Requests, EraseRow(r)
      PROVE  Erasable \/ UNCHANGED <<place, status>>
  BY <1>5 DEF EraseRow
<1>6. \/ UNCHANGED <<place, status>>
      \/ Create
      \/ \E u \in Uploads : \/ Begin(u) \/ MarkFailed(u)
                           \/ UploadDbError(u) \/ MarkReady(u)
      \/ \E d \in Removals : Hide(d) \/ Repeat(d)
      \/ \E r \in Requests : EraseRow(r)
  BY DEF Next, Lookup, UploadStep, Recheck, StoreTakes, PutResolves,
         PutRejects, HeadWritten, HeadOther, Reread, EndUpload,
         LateLanding, EraseStep, RemoveObject, HeadObject, ErasureUnreachable,
         EraseRowError, Crash, vars, row
<1>7. QED  BY <1>1, <1>2, <1>3, <1>4, <1>5, <1>6

\* Every step is one of the promise's, or changes nothing it speaks of.
LEMMA StepKeepsPromise ==
    ASSUME IInv, [Next]_vars
    PROVE  [Promise!Next]_(Promise!vars)
<1> USE DEF Promise!vars
<1>0. /\ TypeOK /\ CountedRowStands /\ NoUploadUnderErasure /\ Unborn /\ Bare
      /\ SeenIsThere /\ AbsentStays /\ LateIsLost /\ Core
  BY DEF IInv, Core
<1>1. ASSUME UNCHANGED row, NEW v \in Variants,
             Kept' = Kept \cup {v}, RowStands
      PROVE  Promise!Next
  <2>1. Shown' = Shown /\ Shown \in Promise!Live \cup {"hidden"}
    BY <1>0, <1>1
    DEF TypeOK, row, RowStands, Shown, Promise!Live, Promise!Unready
  <2>2. Promise!Keep(v)  BY <1>1, <2>1 DEF Promise!Keep
  <2>3. QED  BY <2>2 DEF Promise!Next
<1>2. CASE UNCHANGED row /\ ~UNCHANGED store
  <2>1. Shown' = Shown  BY <1>2 DEF row, Shown
  <2>2. CASE /\ Counted # {} \/ late # {}
             /\ \E v \in Variants, n \in Nat \ {0}, m \in Nat : Lands(v, n, m)
    <3>1. PICK v \in Variants, n \in Nat \ {0}, m \in Nat : Lands(v, n, m)
      BY <2>2
    <3>2. Kept' = Kept \cup {v}
      BY <1>0, <3>1, LandsPresent DEF Kept
    <3>3. QED  BY <1>0, <1>1, <1>2, <2>2, <3>2 DEF CountedRowStands, LateIsLost, Counted
  <2>3. CASE /\ \E r \in Requests : pc[r] = "erasing"
             /\ \A v \in Variants : Present(v)' => Present(v)
    <3>1. place \in {"hidden", "gone"}
      BY <1>0, <2>3 DEF NoUploadUnderErasure, Unborn, TypeOK
    <3>2. Kept' \in SUBSET Kept  BY <2>3 DEF Kept
    <3>3. CASE place = "hidden"
      <4>1. Promise!Discard
        BY <2>1, <3>2, <3>3 DEF Promise!Discard, Shown
      <4>2. QED  BY <4>1 DEF Promise!Next
    <3>4. CASE place = "gone"
      <4>1. Kept = {}  BY <1>0, <3>4 DEF Bare, Kept
      <4>2. QED  BY <2>1, <3>2, <4>1
    <3>5. QED  BY <3>1, <3>3, <3>4
  <2>4. QED  BY <1>0, <1>2, <2>2, <2>3, StoreSteps
<1>3. ASSUME UNCHANGED store PROVE Kept' = Kept
  BY <1>3 DEF Kept, Present
<1>4. CASE UNCHANGED <<place, status, store>>
  BY <1>3, <1>4 DEF Shown
<1>5. CASE Create
  <2>1. Kept' = Kept  BY <1>3, <1>5 DEF Create
  <2>2. Promise!Create  BY <1>5, <2>1 DEF Create, Promise!Create, Shown
  <2>3. QED  BY <2>2 DEF Promise!Next
<1>6. CASE UNCHANGED <<place, store>> /\ Admits /\ status' = "processing"
  <2>1. Kept' = Kept  BY <1>3, <1>6
  <2>2. Promise!Attempt
    BY <1>6, <2>1 DEF Admits, Promise!Attempt, Promise!Unready, Shown
  <2>3. QED  BY <2>2 DEF Promise!Next
<1>7. CASE /\ UNCHANGED <<place, store>>
           /\ status = "processing" /\ status' = "failed"
  <2>1. Kept' = Kept  BY <1>3, <1>7
  <2>2. CASE place = "live"
    <3>1. Promise!Fail  BY <1>7, <2>1, <2>2 DEF Promise!Fail, Shown
    <3>2. QED  BY <3>1 DEF Promise!Next
  <2>3. CASE place # "live"  BY <1>7, <2>1, <2>3 DEF Shown
  <2>4. QED  BY <2>2, <2>3
<1>8. ASSUME NEW u \in Uploads, MarkReady(u), MayBeReady
      PROVE  Promise!Next
  <2>1. Kept' = Kept  BY <1>3, <1>8 DEF MarkReady
  <2>2. Kept = Variants
    BY <1>0, <1>8 DEF MarkReady, Goto, SeenIsThere, Kept
  <2>3. Promise!Finish
    BY <1>8, <2>1, <2>2 DEF MarkReady, MayBeReady, Promise!Finish, Shown
  <2>4. QED  BY <2>3 DEF Promise!Next
<1>9. CASE UNCHANGED <<status, store>> /\ RowStands /\ place' = "hidden"
  <2>1. Kept' = Kept  BY <1>3, <1>9
  <2>2. CASE place = "live"
    <3>1. Promise!Hide
      BY <1>0, <1>9, <2>1, <2>2
      DEF Promise!Hide, Promise!Live, Promise!Unready, Shown, TypeOK
    <3>2. QED  BY <3>1 DEF Promise!Next
  <2>3. CASE place = "hidden"  BY <1>9, <2>1, <2>3 DEF Shown
  <2>4. QED  BY <1>9, <2>2, <2>3 DEF RowStands
<1>10. ASSUME NEW r \in Requests, EraseRow(r), Erasable
       PROVE  Promise!Next
  <2>1. Kept' = Kept  BY <1>3, <1>10 DEF EraseRow
  <2>2. Kept = {}
    BY <1>0, <1>10 DEF EraseRow, Step, AbsentStays, Kept
  <2>3. Promise!Erase
    BY <1>10, <2>1, <2>2 DEF EraseRow, Erasable, Promise!Erase, Shown
  <2>4. QED  BY <2>3 DEF Promise!Next
<1>11. UNCHANGED <<place, status>> => UNCHANGED store \/ UNCHANGED row
  BY <1>0, StoreSteps
<1>12. QED
  BY <1>2, <1>4, <1>5, <1>6, <1>7, <1>8, <1>9, <1>10, <1>11, RowSteps

\* What the relay does to a media row and its objects is what MediaPromise
\* says may happen to them.
THEOREM Refinement ==
    ASSUME NothingLate
    PROVE  Spec => KeepsPromise
<1>1. Init => Promise!Init
  BY DEF Init, Promise!Init, Shown, Kept, Present
<1>2. IInv /\ [Next]_vars => [Promise!Next]_(Promise!vars)
  BY StepKeepsPromise
<1>3. QED
  BY <1>1, <1>2, Inductive, PTL DEF Spec, KeepsPromise, Promise!Spec

-----------------------------------------------------------------------------
(***************************************************************************)
(* What a DELETE that is sent again is told.                               *)
(***************************************************************************)

\* A DELETE that was once more than a 404 met a row, and a row that was there
\* is never unborn again.
AskedMetARow ==
    \A d \in Removals : pc[d] \in Unfinished \cup {"erasing"} => place # "none"

\* A removal is moved by its own statement, by its erasure or by a crash.
LEMMA RemovalSteps ==
    ASSUME TypeOK, [Next]_vars, NEW d \in Removals
    PROVE  \/ pc'[d] = pc[d]
           \/ \E caller \in Callers : HideRow(d, caller, "idle")
           \/ \E from \in Unfinished : HideRow(d, "owner", from)
           \/ pc[d] = "erasing" /\ EraseStep(d)
           \/ pc[d] = "erasing" /\ pc'[d] = "lost" /\ Crash
<1>1. ASSUME NEW u \in Uploads, Lookup(u) \/ UploadStep(u) PROVE pc'[d] = pc[d]
  BY <1>1, UploadLocal, RequestAssumption DEF Requests
<1>2. ASSUME NEW e \in Removals \ {d}, Hide(e) \/ Repeat(e) PROVE pc'[d] = pc[d]
  <2>1. PICK caller \in Callers, from \in Starts : HideRow(e, caller, from)
    BY <1>2 DEF Hide, Repeat, Starts, Callers
  <2>2. QED  BY <2>1 DEF HideRow, Goto, TypeOK, Requests
<1>3. ASSUME NEW r \in Requests, EraseStep(r)
      PROVE  pc'[d] = pc[d] \/ (pc[d] = "erasing" /\ EraseStep(d))
  <2>1. pc'[d] = pc[d] \/ \E answer : Goto(r, "erasing", answer)
    BY <1>3 DEF EraseStep, RemoveObject, HeadObject, ErasureUnreachable,
               EraseRow, EraseRowError, Conclude
  <2>2. QED  BY <1>3, <2>1 DEF Goto, TypeOK, Requests
<1>4. CASE Crash
  <2>1. pc[d] \in RemovePcs /\ d \notin Uploads
    BY RequestAssumption DEF TypeOK
  <2>2. QED  BY <1>4, <2>1 DEF Crash, AtRest, RemovePcs, Requests
<1>5. CASE Create \/ LateLanding \/ UNCHANGED vars
  BY <1>5 DEF Create, LateLanding, vars
<1>6. QED  BY <1>1, <1>2, <1>3, <1>4, <1>5 DEF Next, Hide, Repeat

\* A row is born once.
LEMMA NextAsked == Core /\ AskedMetARow /\ [Next]_vars => AskedMetARow'
<1> SUFFICES ASSUME Core, AskedMetARow, [Next]_vars, NEW d \in Removals,
                    pc'[d] \in Unfinished \cup {"erasing"}
             PROVE  place' # "none"
  BY DEF AskedMetARow
<1>0. TypeOK  BY DEF Core
<1>1. place # "none" => place' # "none"
  <2>1. Create => place = "none"  BY DEF Create
  <2>2. (\E r \in Requests : EraseRow(r) /\ Erasable) => place' = "gone"
    BY DEF EraseRow
  <2>3. (\E u \in Uploads : MarkReady(u)) => place' = place  BY DEF MarkReady
  <2>4. \/ place' = place \/ place' = "hidden" \/ place' = "gone" \/ Create
    BY <2>2, <2>3, RowSteps
  <2>5. QED  BY <2>1, <2>4
<1>2. CASE pc'[d] = pc[d]  BY <1>1, <1>2 DEF AskedMetARow
<1>3. ASSUME NEW caller \in Callers, NEW from \in Starts, HideRow(d, caller, from)
      PROVE  place # "none"
  <2>1. pc'[d] # "404"  BY DEF Unfinished
  <2>2. ~Goto(d, from, "404")  BY <1>0, <2>1 DEF Goto, TypeOK, Requests
  <2>3. QED  BY <1>3, <2>2 DEF HideRow, HideMatches, RowStands
<1>4. pc[d] = "erasing" => place # "none"  BY DEF AskedMetARow
<1>5. QED  BY <1>0, <1>1, <1>2, <1>3, <1>4, RemovalSteps DEF Starts, Callers

\* Whatever fails and whatever the store does, an owner's screen that stops
\* repeating a DELETE because it was told 204 or 404 stops when the row is gone.
THEOREM RetriesStopWhenDone == Spec => RetriedDeleteMeansDone
<1>1. Init => AskedMetARow
  BY DEF Init, AskedMetARow, Unfinished, Requests
<1>2. ASSUME Core, AskedMetARow, [Next]_vars, NEW d \in Removals,
             pc[d] \in Unfinished \cup {"erasing"}, pc'[d] \in {"204", "404"}
      PROVE  place' = "gone"
  <2>0. TypeOK /\ place # "none" /\ NoUploadUnderErasure /\ CountExact
    BY <1>2 DEF Core, AskedMetARow
  <2>1. ASSUME NEW from \in Unfinished, HideRow(d, "owner", from)
        PROVE  place' = "gone"
    <3>1. pc'[d] \notin {"202", "500", "erasing"}  BY <1>2
    <3>2. ~HideMatches("owner")
      BY <2>0, <2>1, <3>1 DEF HideRow, Goto, TypeOK, Requests
    <3>3. QED  BY <2>0, <2>1, <3>2 DEF HideRow, HideMatches, RowStands, TypeOK
  <2>2. CASE pc[d] = "erasing" /\ EraseStep(d)
    <3>1. Counted = {} /\ place # "live"  BY <2>0, <2>2 DEF NoUploadUnderErasure, Requests
    <3>2. place = "hidden" => inflight = 0
      BY <2>0, <3>1, FS_EmptySet DEF CountExact, RowStands
    <3>3. EraseRow(d)
      <4>1. ASSUME NEW answer \in {"202", "500"} PROVE ~Conclude(d, answer)
        BY <1>2, <2>0, RequestAssumption DEF Conclude, Goto, TypeOK, Requests
      <4>2. ASSUME NEW v \in Variants, RemoveObject(d, v) \/ HeadObject(d, v)
            PROVE  FALSE
        BY <1>2, <4>1, <4>2, <2>2 DEF RemoveObject, HeadObject
      <4>3. QED  BY <2>2, <4>1, <4>2 DEF EraseStep, ErasureUnreachable, EraseRowError
    <3>4. QED  BY <2>0, <3>1, <3>2, <3>3 DEF EraseRow, Erasable, TypeOK
  <2>3. ASSUME NEW caller \in Callers, HideRow(d, caller, "idle") PROVE FALSE
    BY <1>2, <2>3 DEF HideRow, Goto, Unfinished
  <2>4. pc'[d] # pc[d] /\ pc'[d] # "lost"  BY <1>2 DEF Unfinished
  <2>5. QED  BY <1>2, <2>0, <2>1, <2>2, <2>3, <2>4, RemovalSteps
<1>3. Core /\ AskedMetARow /\ [Next]_vars =>
        [\A d \in Removals : /\ pc[d] \in Unfinished \cup {"erasing"}
                             /\ pc'[d] \in {"204", "404"}
                             => place' = "gone"]_vars
  BY <1>2
<1>4. Core /\ AskedMetARow /\ [Next]_vars => AskedMetARow'  BY NextAsked
<1>5. QED
  BY <1>1, <1>3, <1>4, CoreInductive, PTL DEF Spec, RetriedDeleteMeansDone

-----------------------------------------------------------------------------
(***************************************************************************)
(* Two uploads of one photograph finish it, when nothing fails.            *)
(***************************************************************************)

\* An upload that still has to find both objects and to say so.
Finishing == {"stored", "heading", "headOther", "marking"}

\* What no upload comes to while nothing fails and every PUT has the bytes of
\* the one before.
Failing == {"rejected", "mismatch", "lost"}

Undisturbed == faults = 0 /\ Cardinality(Lengths) = 1

AllPresent == \A v \in Variants : Present(v)

\* Nothing fails, so no upload does.
NoneFails ==
    /\ late = {} /\ status # "failed"
    /\ \A u \in Uploads : pc[u] \notin Failing

\* An upload's bytes are there from its PUT to its last HEAD.
SameBytes ==
    /\ \A v \in Variants : Present(v) => store[v].len \in Lengths
    /\ \A u \in Uploads :
        /\ pc[u] \in {"stored", "heading"} => Present(job[u].variant)
        /\ pc[u] = "headOther" => job[u].seen \in Lengths

\* A row is pending until the first upload is admitted.
PendingIsNew ==
    status = "pending" => Counted = {} /\ \A v \in Variants : ~Present(v)

\* Whoever puts the second object has the HEAD of the other before it.
SomebodyFinishes ==
    place = "live" /\ AllPresent =>
        status = "ready" \/ \E u \in Uploads : pc[u] \in Finishing

Smooth ==
    Undisturbed => NoneFails /\ SameBytes /\ PendingIsNew /\ SomebodyFinishes

\* A step commits one fault or none.
LEMMA NoFaultOrOne ==
    ASSUME [Next]_vars
    PROVE  NoFault \/ \E kind \in FaultKinds : Fault(kind)
<1> USE DEF FaultKinds
<1>1. ASSUME NEW u \in Uploads, Lookup(u) \/ UploadStep(u)
      PROVE  NoFault \/ \E kind \in FaultKinds : Fault(kind)
  <2>1. HeadWritten(u) \/ HeadOther(u) => NoFault \/ Fault("lag") \/ Fault("store")
    BY DEF HeadWritten, HeadOther, HeadSees
  <2>2. PutRejects(u) => Fault("refuse") \/ Fault("landed") \/ Fault("late")
    BY DEF PutRejects
  <2>3. StoreTakes(u) \/ PutResolves(u) => NoFault \/ Fault("cut") \/ Fault("lost")
    BY DEF StoreTakes, PutResolves
  <2>4. Begin(u) \/ UploadDbError(u) => NoFault \/ Fault("db")
    BY DEF Begin, UploadDbError
  <2>5. Lookup(u) \/ Recheck(u) \/ MarkFailed(u) \/ MarkReady(u) \/ Reread(u)
          \/ EndUpload(u) => NoFault
    BY DEF Lookup, Recheck, MarkFailed, MarkReady, Reread, EndUpload
  <2>6. QED  BY <1>1, <2>1, <2>2, <2>3, <2>4, <2>5 DEF UploadStep
<1>2. ASSUME NEW d \in Removals, Hide(d) \/ Repeat(d)
      PROVE  NoFault \/ Fault("db")
  BY <1>2 DEF Hide, Repeat, HideRow
<1>3. ASSUME NEW r \in Requests, EraseStep(r)
      PROVE  NoFault \/ \E kind \in FaultKinds : Fault(kind)
  <2>1. (\E v \in Variants : RemoveObject(r, v)) => NoFault \/ Fault("kept")
    BY DEF RemoveObject
  <2>2. (\E v \in Variants : HeadObject(r, v)) => NoFault \/ Fault("lag")
    BY DEF HeadObject
  <2>3. ErasureUnreachable(r) => Fault("store")  BY DEF ErasureUnreachable
  <2>4. EraseRow(r) \/ EraseRowError(r) => NoFault \/ Fault("db")
    BY DEF EraseRow, EraseRowError
  <2>5. QED  BY <1>3, <2>1, <2>2, <2>3, <2>4 DEF EraseStep
<1>4. Create \/ LateLanding \/ Crash \/ UNCHANGED vars => NoFault \/ Fault("crash")
  BY DEF Create, LateLanding, Crash, vars, NoFault
<1>5. QED  BY <1>1, <1>2, <1>3, <1>4 DEF Next

\* How an upload moves while nothing fails.
LEMMA SmoothMoves ==
    ASSUME TypeOK, [Next]_vars, faults = 0, faults' = 0, NEW w \in Uploads
    PROVE  \/ pc'[w] = pc[w] /\ job'[w] = job[w]
           \/ Begin(w) /\ pc'[w] \in {"putting", "refused"}
           \/ StoreTakes(w) /\ pc'[w] = "stored"
           \/ PutResolves(w) /\ pc[w] = "stored" /\ pc'[w] = "heading"
           \/ HeadWritten(w) /\ pc'[w] = "headOther"
           \/ HeadOther(w)
           \/ (MarkReady(w) \/ MarkFailed(w)) /\ pc'[w] = "reread"
           \/ /\ pc[w] \notin Finishing
              /\ pc'[w] \notin Finishing \cup Failing \cup {"putting"}
              /\ pc'[w] \in Admitted => pc[w] \in Admitted
<1> DEFINE Rests == /\ pc[w] \notin Finishing
                    /\ pc'[w] \notin Finishing \cup Failing \cup {"putting"}
                    /\ pc'[w] \in Admitted => pc[w] \in Admitted
<1>0. \A kind : ~Fault(kind)  BY DEF Fault
<1>1. \A from, to : Goto(w, from, to) => pc[w] = from /\ pc'[w] = to
  BY GotoThere DEF Goto
<1>2. CASE Lookup(w)
  <2>1. PICK s \in {"found", "404"} : pc' = [pc EXCEPT ![w] = s]
    BY <1>2 DEF Lookup
  <2>2. Rests
    BY <1>2, <2>1 DEF Lookup, Answered, Finishing, Failing, Admitted, TypeOK, Requests
  <2>3. QED  BY <2>2
<1>3. CASE EndUpload(w)
  <2>1. Rests  BY <1>1, <1>3, EndMoves DEF Finishing, Failing, Admitted
  <2>2. QED  BY <2>1
<1>4. CASE Begin(w)  BY <1>0, <1>1, <1>4 DEF Begin
<1>5. CASE StoreTakes(w)  BY <1>1, <1>5 DEF StoreTakes
<1>6. CASE PutResolves(w)  BY <1>0, <1>1, <1>6 DEF PutResolves
<1>7. CASE HeadWritten(w)  BY <1>0, <1>1, <1>7 DEF HeadWritten
<1>8. CASE HeadOther(w)  BY <1>8
<1>9. CASE MarkReady(w) \/ MarkFailed(w)
  BY <1>1, <1>9 DEF MarkReady, MarkFailed
<1>10. CASE Recheck(w) \/ Reread(w)
  <2>1. Rests  BY <1>1, <1>10 DEF Recheck, Reread, Finishing, Failing, Admitted
  <2>2. QED  BY <2>1
<1>11. ~UploadDbError(w) /\ ~PutRejects(w) /\ ~Crash
  BY <1>0 DEF UploadDbError, PutRejects, Crash
<1>12. ASSUME NEW u \in Uploads \ {w}, Lookup(u) \/ UploadStep(u)
       PROVE  pc'[w] = pc[w] /\ job'[w] = job[w]
  BY <1>12, UploadLocal DEF Requests
<1>13. ASSUME NEW d \in Removals, Hide(d) \/ Repeat(d)
       PROVE  pc'[w] = pc[w] /\ job'[w] = job[w]
  <2>1. PICK caller \in Callers, from \in Starts : HideRow(d, caller, from)
    BY <1>13 DEF Hide, Repeat, Starts, Callers
  <2>2. QED
    BY <2>1, RequestAssumption DEF HideRow, Goto, TypeOK, Requests
<1>14. ASSUME NEW r \in Requests, EraseStep(r)
       PROVE  Rests \/ (pc'[w] = pc[w] /\ job'[w] = job[w])
  <2>1. UNCHANGED job
    BY <1>14 DEF EraseStep, RemoveObject, HeadObject, ErasureUnreachable,
                EraseRow, EraseRowError
  <2>2. QED  BY <1>14, <2>1, EraserAnswers DEF Requests, Finishing, Failing, Admitted
<1>15. CASE Create \/ LateLanding \/ UNCHANGED vars
  BY <1>15 DEF Create, LateLanding, vars
<1>16. QED
  BY <1>2, <1>3, <1>4, <1>5, <1>6, <1>7, <1>8, <1>9, <1>10, <1>11, <1>12, <1>13,
     <1>14, <1>15 DEF Next, UploadStep

\* Nothing fails, and a photograph is finished: inductive together.
LEMMA NextSmooth == Core /\ Smooth /\ [Next]_vars => Smooth'
<1> SUFFICES ASSUME Core, Smooth, [Next]_vars, Undisturbed'
             PROVE  (NoneFails /\ SameBytes /\ PendingIsNew /\ SomebodyFinishes)'
  BY DEF Smooth
<1> USE DEF Finishing, Failing
<1>0. /\ TypeOK /\ CountExact /\ CountedRowStands /\ NoUploadUnderErasure
      /\ JobsKnown /\ SeenIsThere /\ Unborn
  BY DEF Core
<1>1. /\ faults = 0 /\ faults' = 0 /\ Undisturbed
      /\ \A kind : ~Fault(kind)
  <2>1. NoFault \/ \E kind \in FaultKinds : Fault(kind)
    BY NoFaultOrOne
  <2>2. faults = 0 /\ faults' = 0
    BY <1>0, <2>1, BoundAssumption DEF TypeOK, NoFault, Fault, Undisturbed
  <2>3. QED  BY <2>2 DEF Undisturbed, Fault
<1>2. NoneFails /\ SameBytes /\ PendingIsNew /\ SomebodyFinishes
  BY <1>1 DEF Smooth
<1>3. PICK n : Lengths = {n} /\ n \in Nat \ {0, 1}
  BY <1>1, BoundAssumption, FS_Singleton DEF Undisturbed
<1>4. \A u \in Uploads : job[u] \in Jobs /\ job[u].variant \in Variants
  BY <1>0 DEF TypeOK, Jobs
<1>5. ASSUME NEW u \in Uploads, HeadWritten(u)
      PROVE  /\ pc[u] = "heading" /\ UNCHANGED <<row, store>>
             /\ Goto(u, "heading", "headOther")
             /\ job' = [job EXCEPT ![u].seen = n]
  <2>1. store[job[u].variant].len = n
    BY <1>2, <1>3, <1>4, <1>5 DEF HeadWritten, SameBytes
  <2>2. Present(job[u].variant)  BY <1>2, <1>5 DEF HeadWritten, SameBytes
  <2>3. QED  BY <1>1, <1>5, <2>1, <2>2 DEF HeadWritten, HeadSees
<1>6. ASSUME NEW u \in Uploads, HeadOther(u)
      PROVE  /\ pc[u] = "headOther" /\ UNCHANGED <<row, store>>
             /\ IF AllPresent THEN pc'[u] = "marking"
                ELSE pc'[u] = "reread"
  <2>1. job[u].len = n /\ job[u].seen = n
    BY <1>0, <1>2, <1>3, <1>6 DEF HeadOther, Goto, JobsKnown, SameBytes, Sending, Admitted
  <2>2. Present(job[u].variant) /\ Other(job[u].variant) \in Variants
    BY <1>0, <1>3, <1>4, <1>6, <2>1 DEF HeadOther, SeenIsThere, Other, Variants
  <2>3. AllPresent <=> Present(Other(job[u].variant))
    BY <1>4, <2>2 DEF AllPresent, Variants, Other
  <2>4. store[Other(job[u].variant)].len =
          IF AllPresent THEN n ELSE 0
    BY <1>2, <1>3, <2>2, <2>3 DEF SameBytes, Present, NoObject
  <2>5. Goto(u, "headOther", Verdict(u, store[Other(job[u].variant)].len))
    BY <1>1, <1>6 DEF HeadOther, HeadSees
  <2>6. Verdict(u, n) = "marking" /\ Verdict(u, 0) = "reread"
    BY <1>3, <2>1 DEF Verdict
  <2>7. pc[u] = "headOther" /\ UNCHANGED <<row, store>>  BY <1>6 DEF HeadOther
  <2>8. QED  BY <1>0, <2>4, <2>5, <2>6, <2>7, GotoThere
<1>7. ASSUME NEW u \in Uploads, pc[u] = "putting"
      PROVE  job[u].len = n
  BY <1>0, <1>3, <1>7 DEF JobsKnown, Sending, Admitted
<1>8. \A u \in Uploads : ~PutRejects(u) /\ ~UploadDbError(u)
  BY <1>1 DEF PutRejects, UploadDbError
<1>9. ~LateLanding /\ ~Crash  BY <1>1, <1>2 DEF LateLanding, Crash, NoneFails
<1>10. \A u \in Uploads : MarkFailed(u) => FALSE
  BY <1>2 DEF MarkFailed, Goto, NoneFails
<1>11. \/ UNCHANGED status
       \/ \E u \in Uploads : Begin(u) /\ status' = "processing"
       \/ \E u \in Uploads : MarkReady(u) /\ MayBeReady /\ status' = "ready"
       \/ Create /\ status = "pending" /\ status' = "pending"
  <2>1. Create => status = "pending"  BY <1>0 DEF Create, Unborn
  <2>2. QED
    BY <1>8, <1>9, <1>10, <2>1
    DEF Next, Create, Lookup, UploadStep, Begin, Recheck, StoreTakes,
        PutResolves, HeadWritten, HeadOther, MarkReady,
        Reread, EndUpload, Hide, Repeat, HideRow, EraseStep, RemoveObject,
        HeadObject, ErasureUnreachable, EraseRow, EraseRowError, vars, row
<1>12. \/ UNCHANGED store
       \/ \E u \in Uploads : StoreTakes(u)
       \/ \E r \in Requests, v \in Variants : RemoveObject(r, v)
  BY <1>1, <1>8, <1>9
  DEF Next, Create, Lookup, UploadStep, Begin, Recheck,
      PutResolves, HeadWritten, HeadOther, MarkReady, MarkFailed,
      Reread, EndUpload, Hide, Repeat, HideRow, EraseStep,
      HeadObject, ErasureUnreachable, EraseRow, EraseRowError, vars, row
<1>13. ASSUME NEW u \in Uploads, StoreTakes(u)
       PROVE  /\ pc[u] = "putting" /\ pc'[u] = "stored" /\ UNCHANGED <<row, job>>
              /\ store' = [store EXCEPT ![job[u].variant] = [len |-> n, whole |-> TRUE]]
  <2>1. pc[u] = "putting" /\ pc'[u] = "stored" /\ UNCHANGED <<row, job>>
    BY <1>0, <1>13, GotoThere DEF StoreTakes, Goto
  <2>2. job[u].len = n  BY <1>7, <2>1
  <2>3. Lands(job[u].variant, job[u].len, job[u].len)
    BY <1>1, <1>13 DEF StoreTakes
  <2>4. QED  BY <2>1, <2>2, <2>3 DEF Lands
<1>14. ASSUME NEW r \in Requests, NEW v \in Variants, RemoveObject(r, v)
       PROVE  /\ Counted = {} /\ place # "live" /\ UNCHANGED <<row, pc, job>>
              /\ store' = [store EXCEPT ![v] = NoObject]
  BY <1>0, <1>1, <1>14 DEF RemoveObject, Step, NoUploadUnderErasure
<1>15. \A u \in Uploads :
         \/ pc'[u] = pc[u] /\ job'[u] = job[u]
         \/ Begin(u) /\ pc'[u] \in {"putting", "refused"}
         \/ StoreTakes(u) /\ pc'[u] = "stored"
         \/ PutResolves(u) /\ pc[u] = "stored" /\ pc'[u] = "heading"
         \/ HeadWritten(u) /\ pc'[u] = "headOther"
         \/ HeadOther(u)
         \/ MarkReady(u) /\ pc'[u] = "reread"
         \/ /\ pc[u] \notin Finishing
            /\ pc'[u] \notin Finishing \cup Failing \cup {"putting"}
            /\ pc'[u] \in Admitted => pc[u] \in Admitted
  BY <1>0, <1>1, <1>10, SmoothMoves
<1>16. NoneFails'
  <2>1. late' = {}
    <3>1. late' = late
      BY <1>8, <1>9
      DEF Next, Create, Lookup, UploadStep, Begin, Recheck, StoreTakes,
          PutResolves, HeadWritten, HeadOther, MarkReady, MarkFailed,
          Reread, EndUpload, Hide, Repeat, HideRow, EraseStep, RemoveObject,
          HeadObject, ErasureUnreachable, EraseRow, EraseRowError, vars
    <3>2. QED  BY <1>2, <3>1 DEF NoneFails
  <2>2. status' # "failed"  BY <1>2, <1>11 DEF NoneFails
  <2>3. \A u \in Uploads : pc'[u] \notin Failing
    BY <1>2, <1>6, <1>15 DEF NoneFails
  <2>4. QED  BY <2>1, <2>2, <2>3 DEF NoneFails
<1>17. \A v \in Variants : Present(v)' => store'[v].len \in Lengths
  <2> TAKE v \in Variants
  <2>1. CASE UNCHANGED store  BY <1>2, <2>1 DEF SameBytes, Present
  <2>2. CASE \E u \in Uploads : StoreTakes(u)
    BY <1>0, <1>2, <1>3, <1>4, <1>13, <2>2 DEF SameBytes, Present, TypeOK
  <2>3. CASE \E r \in Requests, w \in Variants : RemoveObject(r, w)
    BY <1>0, <1>2, <1>14, <2>3 DEF SameBytes, Present, TypeOK
  <2>4. QED  BY <1>12, <2>1, <2>2, <2>3
<1>18. ASSUME Counted # {}, NEW v \in Variants, Present(v) PROVE Present(v)'
  <2>1. \A r \in Requests : pc[r] # "erasing"  BY <1>0, <1>18 DEF NoUploadUnderErasure
  <2>2. QED  BY <1>18, <2>1, KeepsObjects
<1>19. ASSUME NEW u \in Uploads
       PROVE  /\ (pc[u] \in {"stored", "heading"} => Present(job[u].variant))'
              /\ (pc[u] = "headOther" => job[u].seen \in Lengths)'
  <2>1. CASE pc'[u] = pc[u] /\ job'[u] = job[u]
    <3>1. pc[u] \in {"stored", "heading"} => Counted # {}
      BY DEF Counted, Admitted
    <3>2. QED  BY <1>2, <1>4, <1>18, <2>1, <3>1 DEF SameBytes, Present
  <2>2. CASE StoreTakes(u)
    <3>1. store'[job[u].variant] # NoObject
      BY <1>0, <1>3, <1>4, <1>13, <2>2 DEF TypeOK, NoObject
    <3>2. job'[u] = job[u] /\ pc'[u] = "stored"  BY <1>13, <2>2
    <3>3. QED  BY <3>1, <3>2 DEF Present
  <2>3. CASE PutResolves(u) /\ pc[u] = "stored" /\ pc'[u] = "heading"
    BY <1>2, <2>3 DEF PutResolves, SameBytes, Present
  <2>4. CASE HeadWritten(u) /\ pc'[u] = "headOther"
    BY <1>0, <1>3, <1>4, <1>5, <2>4 DEF TypeOK, Jobs
  <2>5. CASE HeadOther(u)  BY <1>6, <2>5
  <2>6. QED  BY <1>15, <2>1, <2>2, <2>3, <2>4, <2>5
<1>20. SameBytes'  BY <1>17, <1>19 DEF SameBytes, Present
<1>21. PendingIsNew'
  <2> SUFFICES ASSUME status' = "pending"
               PROVE  Counted' = {} /\ \A v \in Variants : ~Present(v)'
    BY DEF PendingIsNew
  <2>1. status = "pending"  BY <1>11
  <2>2. Counted = {} /\ \A v \in Variants : ~Present(v)
    BY <1>2, <2>1 DEF PendingIsNew
  <2>3. ASSUME NEW u \in Uploads PROVE pc'[u] \notin Admitted \cup {"lost"}
    <3>1. pc[u] \notin Admitted \cup {"lost"}  BY <2>2 DEF Counted
    <3>2. ~Begin(u) \/ pc'[u] # "putting"
      <4>1. CASE ~Admits
        <5>1. Begin(u) => Goto(u, "found", "refused")  BY <4>1 DEF Begin
        <5>2. QED  BY <1>0, <5>1, GotoThere
      <4>2. CASE Admits  BY <4>2 DEF Begin
      <4>3. QED  BY <4>1, <4>2
    <3>3. pc[u] \notin {"putting", "stored", "heading", "headOther", "marking"}
      BY <3>1 DEF Admitted
    <3>4. ~MarkReady(u) /\ ~HeadOther(u) /\ ~HeadWritten(u) /\ ~StoreTakes(u)
      BY <3>3 DEF MarkReady, HeadOther, HeadWritten, StoreTakes, Goto
    <3>5. pc'[u] # "lost"  BY <1>16 DEF NoneFails
    <3>6. QED  BY <1>15, <3>1, <3>2, <3>3, <3>4, <3>5 DEF Admitted
  <2>4. Counted' = {}  BY <2>3 DEF Counted
  <2>5. ASSUME NEW v \in Variants PROVE ~Present(v)'
    <3>1. \A u \in Uploads : ~StoreTakes(u)
      BY <2>2 DEF StoreTakes, Goto, Counted, Admitted
    <3>2. CASE UNCHANGED store  BY <2>2, <3>2 DEF Present
    <3>3. CASE \E r \in Requests, w \in Variants : RemoveObject(r, w)
      BY <1>0, <1>14, <2>2, <3>3 DEF Present, TypeOK
    <3>4. QED  BY <1>12, <3>1, <3>2, <3>3
  <2>6. QED  BY <2>4, <2>5
<1>22. SomebodyFinishes'
  <2> SUFFICES ASSUME place' = "live", AllPresent', status' # "ready"
               PROVE  \E u \in Uploads : pc'[u] \in Finishing
    BY DEF SomebodyFinishes, AllPresent, Present
  <2>1. CASE \E u \in Uploads : StoreTakes(u)  BY <1>13, <2>1
  <2>2. CASE ~\E u \in Uploads : StoreTakes(u)
    <3>1. AllPresent
      <4>1. CASE UNCHANGED store  BY <4>1 DEF AllPresent, Present
      <4>2. CASE \E r \in Requests, w \in Variants : RemoveObject(r, w)
        BY <1>0, <1>14, <4>2 DEF AllPresent, Present, TypeOK
      <4>3. QED  BY <1>12, <2>2, <4>1, <4>2
    <3>2. status # "pending"
      BY <1>2, <3>1 DEF PendingIsNew, AllPresent, Variants
    <3>3. ~Create  BY <1>0, <3>2 DEF Create, Unborn
    <3>4. place = "live"
      <4>1. (\E u \in Uploads : MarkReady(u)) => place' = place  BY DEF MarkReady
      <4>2. (\E r \in Requests : EraseRow(r) /\ Erasable) => place' = "gone"
        BY DEF EraseRow
      <4>3. QED  BY <3>3, <4>1, <4>2, RowSteps
    <3>5. status # "ready"
      <4>1. \A u \in Uploads : Begin(u) /\ status = "ready" => UNCHANGED status
        BY DEF Begin, Admits
      <4>2. QED  BY <1>11, <3>2, <4>1
    <3>6. PICK u \in Uploads : pc[u] \in Finishing
      BY <1>2, <3>1, <3>4, <3>5 DEF SomebodyFinishes
    <3>7. u \in Counted  BY <3>6 DEF Counted, Admitted
    <3>8. status = "processing"
      BY <1>0, <1>2, <3>2, <3>5 DEF NoneFails, TypeOK
    <3>9. ~MarkReady(u)  BY <3>4, <3>8 DEF MarkReady, MayBeReady
    <3>10. ~Begin(u)  BY <3>6 DEF Begin, Goto
    <3>11. QED  BY <1>6, <1>15, <3>1, <3>6, <3>9, <3>10
  <2>3. QED  BY <2>1, <2>2
<1>23. QED  BY <1>16, <1>20, <1>21, <1>22

\* Two clients that upload a photograph's two objects side by side, or one that
\* sends them one after the other, leave the row ready: neither leaves the last
\* step to the other.
THEOREM CompletedRowsAreReady == Spec => []CompletedIsReady
<1>1. Init => Smooth
  BY FS_EmptySet
  DEF Init, Smooth, NoneFails, Failing, SameBytes, Present, PendingIsNew, Counted,
      Admitted, SomebodyFinishes, Requests
<1>2. Smooth => CompletedIsReady
  <2>1. \A u \in Uploads : pc[u] \in Finishing => u \in Counted
    BY DEF Finishing, Counted, Admitted
  <2>2. QED
    BY <2>1 DEF Smooth, Undisturbed, SomebodyFinishes, AllPresent, CompletedIsReady
<1>3. QED  BY <1>1, <1>2, NextSmooth, CoreInductive, PTL DEF Spec
=============================================================================
