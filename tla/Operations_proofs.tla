-------------------------- MODULE Operations_proofs --------------------------
(***************************************************************************)
(* Proofs about Operations, for any photographs, any retention and any     *)
(* number of events: a build that answers has the schema it was written    *)
(* for, a check that passed leaves no pointer to nothing, retention keeps  *)
(* the newest backups, and an orderly stop takes the pool from nobody.     *)
(***************************************************************************)
EXTENDS Operations, FiniteSetTheorems, TLAPS

(***************************************************************************)
(* The inductive invariant: one conjunct for the database and what is a    *)
(* copy of it, one for the runners, one for what relies on the schema, one *)
(* for the process, one for the pointers and one for the backups.          *)
(***************************************************************************)
Files == {"001", "002", "003", "003 edited", "004 COMMIT"}
Dbs   == [schema : Seq(Files \cup {Part}), recorded : Seq(Files), tables : BOOLEAN]
Rows  == [Media -> {"none", "ready", "removed", "hidden"}]

\* One sequence is another, some places of it in part.
Matches(s, r) == Len(s) = Len(r) /\ \A i \in 1..Len(r) : s[i] = r[i] \/ s[i] = Part

\* What is recorded is what is applied, but for an early file that committed
\* itself, or a restore that stopped before the records.
SchemaOK(d) ==
    /\ d \in Dbs
    /\ Matches(d.schema, d.recorded)
       \/ (Len(d.recorded) < FirstWrapped - 1 /\ Len(d.recorded) < Len(d.schema))
    /\ ~d.tables => d.schema = <<>> /\ d.recorded = <<>>

Begins(s, t) == Len(s) <= Len(t) /\ \A i \in 1..Len(s) : s[i] = t[i]

Holding == {"locked", "next", "texted"}
Running == {"waiting"} \cup Holding
Runs == [at : {"off", "failed", "done"} \cup Running, release : Releases \cup {None},
         todo : Seq(Files)]

\* A runner applies what its build ships after what is recorded.
Applies(x, d) ==
    LET files == Ships[x.release]
        next  == Len(d.recorded) + 1
    IN  /\ d.tables /\ Begins(d.recorded, files)
        /\ Len(x.todo) = Len(files) - Len(d.recorded)
        /\ \A i \in 1..Len(x.todo) : x.todo[i] = files[Len(d.recorded) + i]
        /\ x.at = "texted" =>
             /\ x.todo # <<>>
             /\ Matches(d.schema, IF next < FirstWrapped THEN Append(d.recorded, files[next])
                                  ELSE d.recorded)

\* One runner at a time holds the lock, and only it looks at the records.
RunsOK ==
    /\ run \in [Runners -> Runs] /\ lock \in Runners \cup {None}
    /\ \A r \in Runners : run[r].at \in Running => run[r].release \in Releases
    /\ \A r \in Runners : run[r].at \in Holding <=> lock = r
    /\ \A r \in Runners : run[r].at \in {"next", "texted"} => Applies(run[r], db)

Switching == {"switch api", "switch app", "restart", "health", "back api", "back app", "restart back"}
Scripts == [at : {"off", "migrating"} \cup Switching, release : Releases \cup {None},
            prev : [api : Releases \cup {None}, app : Releases \cup {None}]]

Installed(rel) == rel \in Releases /\ Begins(Ships[rel], db.recorded)

\* The builds that run, that a restart would run, and that the script has
\* migrated to or would go back to.
InUse(rel) ==
    \/ svc.at # "off" /\ rel = svc.release
    \/ rel = current.api /\ rel # None
    \/ script.at \in Switching /\ rel = script.release
    \/ script.at \in Switching /\ rel = script.prev.api /\ rel # None
    \/ script.at = "migrating" /\ At("release", "done") /\ rel = script.release

ReliedOK ==
    /\ current \in [api : Releases \cup {None}, app : Releases \cup {None}]
    /\ script \in Scripts
    /\ script.at = "migrating" =>
         /\ script.release \in Releases
         /\ run["release"].at \in Running => run["release"].release = script.release
    /\ script.at \in {"switch app", "restart", "back app", "restart back"} => current.api # None
    /\ script.at \in {"back api", "back app", "restart back"} => script.prev.api # None
    /\ \A rel \in Releases \cup {None} : InUse(rel) => Installed(rel)

\* The pool is gone only once no client waits for an answer.
ServiceOK ==
    /\ svc \in [at : {"off", "boot", "bucket", "listening", "serving", "closing", "ending", "ended"},
                release : Releases \cup {None}, pool : {"none", "open", "ended"},
                storage : {"none", "open", "destroyed"}, failed : BOOLEAN]
    /\ call \in {"none", "connected", "left"}
    /\ svc.pool = "ended" => svc.at \in {"ending", "ended"} /\ call # "connected"
    /\ "connected" \notin lost

\* While a check runs, what is ready is still to be asked for, missing, or there.
PointersOK ==
    /\ rows \in Rows /\ objects \subseteq Media /\ landed \in BOOLEAN
    /\ landed => \A m \in Media : rows[m] = "ready" => m \in objects
    /\ \A m \in Media : rows[m] = "hidden" => m \notin objects
    /\ check \in [at : {"off", "heads"}, hide : BOOLEAN, todo : SUBSET Media,
                  missing : SUBSET Media, clean : BOOLEAN]
    /\ check.at = "off" => check.todo = {}
    /\ check.missing \cap objects = {}
    /\ check.at = "heads" =>
         /\ db.tables
         /\ \A m \in Media : rows[m] = "ready" => m \in check.todo \cup check.missing \cup objects

\* A backup is a database as it once was, with the rows of that time.
CopyOK(k, objs) ==
    /\ k.at \in Nat
    /\ SchemaOK(k.db) /\ k.db.tables
    /\ k.rows \in Rows /\ \A m \in Media : k.rows[m] = "hidden" => m \notin objs

Spared(k, keys) == parseBackupKey(k) /\ Cardinality(Newer(k, keys)) >= KeepMin

BackupsOK ==
    /\ IsFiniteSet(bucket) /\ day \in Nat
    /\ \A k \in bucket : k.at = Unnamed \/ CopyOK(k, objects)
    /\ DOMAIN job = {"at", "copy", "doomed"} /\ job.at \in {"off", "dumped", "put", "pruning"}
    /\ job.at \in {"dumped", "put"} => CopyOK(job.copy, objects)
    /\ job.at = "pruning" => job.doomed \subseteq bucket /\ \A k \in job.doomed : Spared(k, bucket)
    /\ DOMAIN recovery = {"at", "copy"} /\ recovery.at \in {"off", "fetched", "empty"}
    /\ recovery.at # "off" => CopyOK(recovery.copy, objects)

IInv ==
    /\ SchemaOK(db)
    /\ RunsOK
    /\ ReliedOK
    /\ ServiceOK
    /\ PointersOK
    /\ BackupsOK

-----------------------------------------------------------------------------
(***************************************************************************)
(* Facts about builds, databases and copies.                               *)
(***************************************************************************)

\* Every build ships the two files that commit themselves, at least.
LEMMA ShipsMore ==
    \A rel \in Releases : /\ Ships[rel] \in Seq(Files)
                          /\ Len(Ships[rel]) \in Nat /\ Len(Ships[rel]) >= FirstWrapped - 1
<1>1. \A rel \in Releases : rel \in {"old", "new", "edited", "careless"}
  BY DEF Releases, Ships
<1>2. \E a, b, c, d, e \in Files :
        /\ Ships["old"] = <<a, b>> /\ Ships["new"] = <<a, b, c>>
        /\ Ships["edited"] = <<a, b, d>> /\ Ships["careless"] = <<a, b, c, e>>
  BY DEF Ships, Files
<1>3. PICK a, b, c, d, e \in Files :
        /\ Ships["old"] = <<a, b>> /\ Ships["new"] = <<a, b, c>>
        /\ Ships["edited"] = <<a, b, d>> /\ Ships["careless"] = <<a, b, c, e>>
  BY <1>2
<1>4. \A rel \in {"old", "new", "edited", "careless"} :
         Ships[rel] \in Seq(Files) /\ Len(Ships[rel]) \in 2..4
  <2>1. Ships["old"] \in Seq(Files) /\ Len(Ships["old"]) = 2  BY <1>3
  <2>2. Ships["new"] \in Seq(Files) /\ Len(Ships["new"]) = 3  BY <1>3
  <2>3. Ships["edited"] \in Seq(Files) /\ Len(Ships["edited"]) = 3  BY <1>3
  <2>4. Ships["careless"] \in Seq(Files) /\ Len(Ships["careless"]) = 4  BY <1>3
  <2>5. QED  BY <2>1, <2>2, <2>3, <2>4
<1>5. \A n \in 2..4 : n \in Nat /\ n >= FirstWrapped - 1  BY DEF FirstWrapped
<1>6. QED  BY <1>1, <1>4, <1>5

\* What is left of a sequence behind its first elements.
LEMMA SubSeqRest ==
    ASSUME NEW S, NEW s \in Seq(S), NEW m \in Nat, m <= Len(s)
    PROVE  /\ SubSeq(s, m + 1, Len(s)) \in Seq(S)
           /\ Len(SubSeq(s, m + 1, Len(s))) = Len(s) - m
           /\ \A i \in 1..Len(s) - m : SubSeq(s, m + 1, Len(s))[i] = s[m + i]
<1>1. Len(s) \in Nat /\ m + 1 \in Nat /\ m + 1 <= Len(s) + 1  OBVIOUS
<1>2. SubSeq(s, m + 1, Len(s)) \in Seq(S)  BY <1>1
<1>3. Len(SubSeq(s, m + 1, Len(s))) = Len(s) - m  BY <1>1
<1>4. ASSUME NEW i \in 1..Len(s) - m
      PROVE  SubSeq(s, m + 1, Len(s))[i] = s[m + i]
  <2>1. i \in Nat /\ i \in 1..(Len(s) - (m + 1) + 1) /\ (m + 1) + i - 1 = m + i
    BY <1>1
  <2>2. QED  BY <1>1, <2>1
<1>5. QED  BY <1>2, <1>3, <1>4

\* A sequence matches itself.
LEMMA MatchesItself == ASSUME NEW S, NEW s \in Seq(S) PROVE Matches(s, s)
BY DEF Matches

\* What matches still does when the same file is put behind both.
LEMMA MatchesMore ==
    ASSUME NEW s \in Seq(Files \cup {Part}), NEW r \in Seq(Files), NEW f \in Files, Matches(s, r)
    PROVE  Matches(Append(s, f), Append(r, f))
<1>1. Len(s) = Len(r) /\ \A i \in 1..Len(r) : s[i] = r[i] \/ s[i] = Part  BY DEF Matches
<1>2. Len(Append(s, f)) = Len(s) + 1 /\ Len(Append(r, f)) = Len(r) + 1  OBVIOUS
<1>3. ASSUME NEW i \in 1..Len(r) + 1
      PROVE  Append(s, f)[i] = Append(r, f)[i] \/ Append(s, f)[i] = Part
  <2>1. CASE i = Len(r) + 1
    <3>1. Append(s, f)[i] = f /\ Append(r, f)[i] = f  BY <1>1, <2>1
    <3>2. QED  BY <3>1
  <2>2. CASE i # Len(r) + 1
    <3>1. i \in 1..Len(r) /\ Len(r) \in Nat  BY <2>2
    <3>2. Append(s, f)[i] = s[i] /\ Append(r, f)[i] = r[i]  BY <1>1, <3>1
    <3>3. QED  BY <1>1, <3>1, <3>2
  <2>3. QED  BY <2>1, <2>2
<1>4. QED  BY <1>1, <1>2, <1>3 DEF Matches

\* A build's name is not the absence of one.
LEMMA NoneIsNoRelease == None \notin Releases
BY DEF None, Releases, Ships

\* What is installed is applied: a build's migrations are more than what can be
\* recorded without being all that is applied.
LEMMA InstalledIsApplied ==
    ASSUME SchemaOK(db), NEW rel, Installed(rel)
    PROVE  Matches(db.schema, db.recorded) /\ db.tables /\ db.recorded # <<>>
<1>1. Len(db.recorded) \in Nat  BY DEF SchemaOK, Dbs
<1>2. Len(Ships[rel]) \in Nat /\ Len(Ships[rel]) >= FirstWrapped - 1 /\ Len(Ships[rel]) <= Len(db.recorded)
  BY ShipsMore DEF Installed, Begins
<1>3. Len(db.recorded) >= FirstWrapped - 1 /\ Len(db.recorded) >= 2
  BY <1>1, <1>2 DEF FirstWrapped
<1>4. db.recorded # <<>>  BY <1>3
<1>5. ~(Len(db.recorded) < FirstWrapped - 1)  BY <1>1, <1>3 DEF FirstWrapped
<1>6. db.tables \in BOOLEAN  BY DEF SchemaOK, Dbs
<1>7. QED  BY <1>4, <1>5, <1>6 DEF SchemaOK

\* A database before anything was made in it.
LEMMA EmptyOK == SchemaOK(EmptyDb)
<1>1. <<>> \in Seq(Files) /\ <<>> \in Seq(Files \cup {Part})  OBVIOUS
<1>2. EmptyDb \in Dbs /\ EmptyDb.schema = <<>> /\ EmptyDb.recorded = <<>>  BY <1>1 DEF EmptyDb, Dbs
<1>3. QED  BY <1>1, <1>2, MatchesItself DEF SchemaOK

\* What a restore leaves half way is no less in order than what it restores.
LEMMA PartlyOK ==
    ASSUME NEW k, SchemaOK(k.db), NEW d \in Partly(k)
    PROVE  SchemaOK(d) /\ d.tables
<1> DEFINE parts == [i \in DOMAIN k.db.schema |-> Part]
<1>1. PICK recorded \in {<<>>, k.db.recorded} :
        d = [schema |-> parts, recorded |-> recorded, tables |-> TRUE]
  BY DEF Partly
<1>2. /\ k.db.schema \in Seq(Files \cup {Part}) /\ k.db.recorded \in Seq(Files)
      /\ Len(k.db.schema) \in Nat /\ Len(k.db.recorded) \in Nat
  BY DEF SchemaOK, Dbs
<1>3. /\ parts \in Seq(Files \cup {Part}) /\ Len(parts) = Len(k.db.schema)
      /\ \A i \in 1..Len(k.db.schema) : parts[i] = Part
  BY <1>2
<1> HIDE DEF parts
<1>4. /\ d.schema = parts /\ d.recorded = recorded /\ d.tables /\ d \in Dbs
  <2>1. recorded \in Seq(Files)
    <3>1. <<>> \in Seq(Files)  OBVIOUS
    <3>2. QED  BY <1>2, <3>1
  <2>2. d \in Dbs  BY <1>1, <1>3, <2>1 DEF Dbs
  <2>3. QED  BY <1>1, <2>2
<1>5. CASE recorded = <<>>
  <2>1. Len(d.recorded) = 0 /\ Len(d.recorded) < FirstWrapped - 1  BY <1>4, <1>5 DEF FirstWrapped
  <2>2. CASE Len(parts) = 0
    BY <1>3, <1>4, <2>1, <2>2 DEF SchemaOK, Matches
  <2>3. CASE Len(parts) # 0
    <3>1. Len(d.recorded) < Len(d.schema)  BY <1>2, <1>3, <1>4, <2>1, <2>3
    <3>2. QED  BY <1>4, <2>1, <3>1 DEF SchemaOK
  <2>4. QED  BY <2>2, <2>3
<1>6. CASE recorded = k.db.recorded
  <2>1. CASE Matches(k.db.schema, k.db.recorded)
    <3>1. Matches(d.schema, d.recorded)  BY <1>2, <1>3, <1>4, <1>6, <2>1 DEF Matches
    <3>2. QED  BY <1>4, <3>1 DEF SchemaOK
  <2>2. CASE Len(k.db.recorded) < FirstWrapped - 1 /\ Len(k.db.recorded) < Len(k.db.schema)
    BY <1>3, <1>4, <1>6, <2>2 DEF SchemaOK
  <2>3. QED  BY <2>1, <2>2 DEF SchemaOK
<1>7. QED  BY <1>1, <1>4, <1>5, <1>6

\* A copy is as good when objects have gone since.
LEMMA CopyStays ==
    ASSUME NEW k, NEW objs, NEW fewer \in SUBSET objs, CopyOK(k, objs)
    PROVE  CopyOK(k, fewer)
BY DEF CopyOK

-----------------------------------------------------------------------------
(***************************************************************************)
(* Each conjunct, by steps that leave it alone.                            *)
(***************************************************************************)

\* The runners, by a step that moves neither them nor the database.
LEMMA RunsKept ==
    ASSUME RunsOK, UNCHANGED <<db, lock, run>> PROVE RunsOK'
BY DEF RunsOK, Applies

\* What relies on the schema, by a step that starts no build.
LEMMA ReliedKept ==
    ASSUME ReliedOK, UNCHANGED <<db, run, current, script>>,
           svc'.at # "off" => svc.at # "off" /\ svc'.release = svc.release
    PROVE  ReliedOK'
<1>1. \A rel : Installed(rel)' <=> Installed(rel)  BY DEF Installed
<1>2. \A rel : InUse(rel)' => InUse(rel)  BY DEF InUse, At
<1>3. QED  BY <1>1, <1>2 DEF ReliedOK

\* The pointers, by a step that moves neither them nor their check.
LEMMA PointersKept ==
    ASSUME PointersOK, UNCHANGED pointers, UNCHANGED <<check, landed>>, db.tables => db'.tables
    PROVE  PointersOK'
BY DEF PointersOK, pointers

\* The backups, by a step of another part, which takes objects away at most.
LEMMA BackupsKept ==
    ASSUME BackupsOK, UNCHANGED store, UNCHANGED recovery, objects' \subseteq objects
    PROVE  BackupsOK'
<1>1. UNCHANGED <<bucket, day, job>>  BY DEF store
<1>2. \A k : CopyOK(k, objects) => CopyOK(k, objects')  BY CopyStays
<1>3. \A k \in bucket : k.at = Unnamed \/ CopyOK(k, objects')  BY <1>2 DEF BackupsOK
<1>4. job.at \in {"dumped", "put"} => CopyOK(job.copy, objects')  BY <1>2 DEF BackupsOK
<1>5. recovery.at # "off" => CopyOK(recovery.copy, objects')  BY <1>2 DEF BackupsOK
<1>6. QED  BY <1>1, <1>3, <1>4, <1>5 DEF BackupsOK

\* The process, by a step of another part.
LEMMA ServiceKept ==
    ASSUME ServiceOK, UNCHANGED process PROVE ServiceOK'
BY DEF ServiceOK, process

-----------------------------------------------------------------------------
(***************************************************************************)
(* The server's beginning.                                                 *)
(***************************************************************************)

\* A new server, and one in service, satisfy the invariant.
LEMMA InitIInv == Init => IInv
<1> SUFFICES ASSUME Init PROVE IInv  OBVIOUS
<1>1. PICK served \in BOOLEAN, gone \in SUBSET Media :
           /\ db = IF served THEN [schema |-> Ships.old, recorded |-> Ships.old, tables |-> TRUE] ELSE EmptyDb
           /\ current = IF served THEN [api |-> "old", app |-> "old"] ELSE NoLinks
           /\ svc = IF served THEN InService ELSE Down
           /\ objects = IF served THEN Media \ gone ELSE {}
           /\ rows = [m \in Media |-> IF m \in objects THEN "ready" ELSE "none"]
           /\ bucket = {[at |-> Unnamed]} \cup
                  IF served THEN {[at |-> 0, db |-> db, rows |-> [m \in Media |-> "ready"]]} ELSE {}
  BY DEF Init
<1>2. /\ lock = None /\ run = [r \in Runners |-> Idle] /\ script = NoScript
      /\ call = "none" /\ lost = {} /\ day = 0 /\ job = NoJob
      /\ recovery = NoRecovery /\ check = NoCheck /\ landed = FALSE
  BY DEF Init
<1>3. "old" \in Releases /\ Ships.old \in Seq(Files)
  <2>1. "old" \in Releases  BY DEF Releases, Ships
  <2>2. QED  BY <2>1, ShipsMore
<1>4. SchemaOK(db)
  <2>1. CASE served
    <3>1. Ships.old \in Seq(Files \cup {Part})  BY <1>3
    <3>2. /\ db.schema = Ships.old /\ db.recorded = Ships.old /\ db.tables /\ db \in Dbs
      BY <1>1, <1>3, <2>1, <3>1 DEF Dbs
    <3>3. QED  BY <1>3, <3>2, MatchesItself DEF SchemaOK
  <2>2. CASE ~served
    BY <1>1, <2>2, EmptyOK
  <2>3. QED  BY <2>1, <2>2
<1>5. RunsOK
  <2>1. run \in [Runners -> Runs]  BY <1>2 DEF Runs, Idle, Running
  <2>2. \A r \in Runners : run[r].at = "off" /\ lock # r
    BY <1>2 DEF Idle, Runners, None
  <2>3. QED  BY <1>2, <2>1, <2>2 DEF RunsOK, Running, Holding
<1>6. ReliedOK
  <2>1. script \in Scripts /\ script.at = "off"
    BY <1>2 DEF NoScript, Scripts
  <2>2. current \in [api : Releases \cup {None}, app : Releases \cup {None}]
    BY <1>1, <1>3 DEF NoLinks
  <2>3. \A rel : InUse(rel) => served /\ rel = "old"
    BY <1>1, <2>1 DEF InUse, InService, Down, NoLinks, None, Switching
  <2>4. served => Installed("old")
    <3>1. ASSUME served PROVE Installed("old")
      <4>1. db.recorded = Ships["old"]  BY <1>1, <3>1
      <4>2. Len(Ships["old"]) \in Nat  BY <1>3
      <4>3. QED  BY <1>3, <4>1, <4>2 DEF Installed, Begins
    <3>2. QED  BY <3>1
  <2>5. QED  BY <2>1, <2>2, <2>3, <2>4 DEF ReliedOK
<1>7. ServiceOK
  <2>1. svc = InService \/ svc = Down  BY <1>1
  <2>2. InService \in [at : {"serving"}, release : Releases, pool : {"open"}, storage : {"open"},
                        failed : BOOLEAN]
    BY <1>3 DEF InService
  <2>3. Down \in [at : {"off"}, release : {None}, pool : {"none"}, storage : {"none"},
                   failed : BOOLEAN]
    BY DEF Down
  <2>4. svc \in [at : {"off", "boot", "bucket", "listening", "serving", "closing", "ending", "ended"},
                 release : Releases \cup {None}, pool : {"none", "open", "ended"},
                 storage : {"none", "open", "destroyed"}, failed : BOOLEAN]
    BY <2>1, <2>2, <2>3
  <2>5. svc.pool # "ended"  BY <2>1, <2>2, <2>3
  <2>6. QED  BY <1>2, <2>4, <2>5 DEF ServiceOK
<1>8. PointersOK
  <2>1. rows \in Rows /\ objects \subseteq Media  BY <1>1 DEF Rows
  <2>2. QED  BY <1>1, <1>2, <2>1 DEF PointersOK, NoCheck
<1>9. BackupsOK
  <2>1. IsFiniteSet(bucket)
    <3>1. IsFiniteSet({[at |-> Unnamed]})  BY FS_Singleton
    <3>2. IsFiniteSet({[at |-> Unnamed]} \cup {[at |-> 0, db |-> db, rows |-> [m \in Media |-> "ready"]]})
      BY <3>1, FS_AddElement
    <3>3. QED  BY <1>1, <3>1, <3>2
  <2>2. ASSUME NEW k \in bucket PROVE k.at = Unnamed \/ CopyOK(k, objects)
    <3>1. CASE k = [at |-> Unnamed]  BY <3>1
    <3>2. CASE served /\ k = [at |-> 0, db |-> db, rows |-> [m \in Media |-> "ready"]]
      BY <1>1, <1>4, <3>2 DEF CopyOK, Rows
    <3>3. QED  BY <1>1, <2>2, <3>1, <3>2
  <2>3. DOMAIN NoJob = {"at", "copy", "doomed"} /\ DOMAIN NoRecovery = {"at", "copy"}
    BY DEF NoJob, NoRecovery
  <2>4. QED  BY <1>2, <2>1, <2>2, <2>3 DEF BackupsOK, NoJob, NoRecovery
<1>10. QED  BY <1>4, <1>5, <1>6, <1>7, <1>8, <1>9 DEF IInv

-----------------------------------------------------------------------------
(***************************************************************************)
(* The runners, and the script that waits for one.                         *)
(***************************************************************************)

\* One runner moves on, and holds the lock or does not.
LEMMA RunnerMoves ==
    ASSUME RunsOK, NEW r \in Runners, NEW new \in Runs, run' = [run EXCEPT ![r] = new],
           lock' \in Runners \cup {None},
           new.at \in Running => new.release \in Releases,
           new.at \in Holding <=> lock' = r,
           \A q \in Runners : q # r => (run[q].at \in Holding <=> lock' = q),
           new.at \in {"next", "texted"} => Applies(run'[r], db'),
           UNCHANGED db \/ run[r].at \in Holding
    PROVE  RunsOK'
<1>1. /\ run' \in [Runners -> Runs] /\ run'[r] = new
      /\ \A q \in Runners : q # r => run'[q] = run[q]
  BY DEF RunsOK
<1>2. ASSUME NEW q \in Runners, run'[q].at \in {"next", "texted"} PROVE Applies(run'[q], db')
  <2>1. CASE q = r  BY <1>1, <1>2, <2>1
  <2>2. CASE q # r
    <3>1. run[q].at \in Holding /\ lock = q  BY <1>1, <1>2, <2>2 DEF RunsOK, Holding
    <3>2. run[r].at \notin Holding  BY <2>2, <3>1 DEF RunsOK
    <3>3. Applies(run[q], db) /\ UNCHANGED db /\ run'[q] = run[q]
      BY <1>1, <1>2, <2>2, <3>2 DEF RunsOK
    <3>4. QED  BY <3>3
  <2>3. QED  BY <2>1, <2>2
<1>3. QED  BY <1>1, <1>2 DEF RunsOK

\* A runner that is started waits for the lock.
LEMMA RunnerStarts ==
    ASSUME RunsOK, NEW r \in Runners, run[r].at \in {"off", "failed", "done"}, NEW rel \in Releases,
           run' = [run EXCEPT ![r] = [at |-> "waiting", release |-> rel, todo |-> <<>>]],
           UNCHANGED <<db, lock>>
    PROVE  /\ RunsOK' /\ run'[r].at = "waiting" /\ run'[r].release = rel
           /\ \A q \in Runners : q # r => run'[q] = run[q]
<1> DEFINE new == [at |-> "waiting", release |-> rel, todo |-> <<>>]
<1>1. new \in Runs /\ new.at = "waiting" /\ new.release = rel /\ run' = [run EXCEPT ![r] = new]
  BY DEF Runs, Running
<1> HIDE DEF new
<1>2. run[r].at \notin Holding /\ new.at \notin Holding /\ new.at \notin {"next", "texted"}
  BY <1>1 DEF Holding
<1>3. lock' \in Runners \cup {None} /\ lock' # r
      /\ \A q \in Runners : run[q].at \in Holding <=> lock' = q
  BY <1>2 DEF RunsOK
<1>4. RunsOK'  BY <1>1, <1>2, <1>3, RunnerMoves
<1>5. QED  BY <1>1, <1>4 DEF RunsOK

\* A runner that stops gives the lock back.
LEMMA RunnerStops ==
    ASSUME RunsOK, NEW r \in Runners, NEW how \in {"failed", "done"}, Stop(r, how),
           UNCHANGED db \/ run[r].at \in Holding
    PROVE  /\ RunsOK' /\ run'[r].at = how /\ \A q \in Runners : q # r => run'[q] = run[q]
<1> DEFINE new == [at |-> how, release |-> None, todo |-> <<>>]
<1>1. run' = [run EXCEPT ![r] = new]
  <2>1. [Idle EXCEPT !.at = how] = new  BY DEF Idle
  <2>2. QED  BY <2>1 DEF Stop
<1>2. lock' = IF lock = r THEN None ELSE lock  BY DEF Stop, Release
<1>3. new \in Runs /\ new.at = how  BY DEF Runs, Running, Holding
<1> HIDE DEF new
<1>4. new.at \notin Running /\ new.at \notin Holding /\ new.at \notin {"next", "texted"}
  BY <1>3 DEF Running, Holding
<1>5. r # None  BY DEF Runners, None
<1>6. lock' \in Runners \cup {None} /\ lock' # r
  BY <1>2, <1>5 DEF RunsOK
<1>7. \A q \in Runners : q # r => (run[q].at \in Holding <=> lock' = q)
  <2>1. \A q \in Runners : q # None  BY DEF Runners, None
  <2>2. QED  BY <1>2, <2>1 DEF RunsOK
<1>8. RunsOK'  BY <1>1, <1>3, <1>4, <1>6, <1>7, RunnerMoves
<1>9. QED  BY <1>1, <1>3, <1>8 DEF RunsOK

\* The runner that holds the lock goes on with the build it was started for.
LEMMA RunnerGoesOn ==
    ASSUME RunsOK, NEW r \in Runners, run[r].at \in Holding, UNCHANGED lock,
           NEW at \in Holding, NEW todo \in Seq(Files),
           run' = [run EXCEPT ![r].at = at, ![r].todo = todo],
           at \in {"next", "texted"} => Applies(run'[r], db')
    PROVE  /\ RunsOK' /\ run'[r].at = at /\ run'[r].release = run[r].release
           /\ run'[r].todo = todo /\ \A q \in Runners : q # r => run'[q] = run[q]
<1> DEFINE new == [at |-> at, release |-> run[r].release, todo |-> todo]
<1>1. run[r] \in Runs /\ run[r].release \in Releases /\ run \in [Runners -> Runs]
  BY DEF RunsOK, Running
<1>2. new \in Runs /\ new.at = at /\ new.release = run[r].release /\ new.todo = todo
  BY <1>1 DEF Runs, Running
<1>3. run' = [run EXCEPT ![r] = new]
  <2>1. [run[r] EXCEPT !.at = at, !.todo = todo] = new
    <3>1. [run[r] EXCEPT !.at = at]
            = [at |-> at, release |-> run[r].release, todo |-> run[r].todo]
      BY <1>1 DEF Runs
    <3>2. [run[r] EXCEPT !.at = at, !.todo = todo] = [[run[r] EXCEPT !.at = at] EXCEPT !.todo = todo]
      OBVIOUS
    <3>3. [[at |-> at, release |-> run[r].release, todo |-> run[r].todo] EXCEPT !.todo = todo] = new
      OBVIOUS
    <3>4. QED  BY <3>1, <3>2, <3>3
  <2>2. [run EXCEPT ![r].at = at, ![r].todo = todo]
          = [run EXCEPT ![r] = [run[r] EXCEPT !.at = at, !.todo = todo]]
    BY <1>1
  <2>3. QED  BY <2>1, <2>2
<1> HIDE DEF new
<1>4. lock = r /\ lock' = r /\ lock' \in Runners \cup {None}  BY DEF RunsOK
<1>5. \A q \in Runners : q # r => (run[q].at \in Holding <=> lock' = q)
  BY <1>4 DEF RunsOK
<1>6. new.at \in Running => new.release \in Releases  BY <1>1, <1>2
<1>7. new.at \in Holding <=> lock' = r  BY <1>2, <1>4
<1>8. RunsOK'  BY <1>2, <1>3, <1>4, <1>5, <1>6, <1>7, RunnerMoves
<1>9. QED  BY <1>1, <1>2, <1>3, <1>8

\* What was relied upon still is, when nothing recorded is lost.
LEMMA RunnersKeepRelied ==
    ASSUME ReliedOK, UNCHANGED <<current, script, svc>>,
           \A rel : Installed(rel) => Installed(rel)',
           script.at = "migrating" =>
             /\ run'["release"].at \in Running => run'["release"].release = script.release
             /\ run'["release"].at = "done" =>
                  run["release"].at = "done" \/ Installed(script.release)'
    PROVE  ReliedOK'
<1>1. ASSUME NEW rel \in Releases \cup {None}, InUse(rel)' PROVE Installed(rel)'
  <2>1. CASE InUse(rel)  BY <2>1 DEF ReliedOK
  <2>2. CASE ~InUse(rel)
    <3>1. /\ script.at = "migrating" /\ rel = script.release
          /\ run'["release"].at = "done" /\ run["release"].at # "done"
      BY <1>1, <2>2 DEF InUse, At
    <3>2. QED  BY <3>1
  <2>3. QED  BY <2>1, <2>2
<1>2. QED  BY <1>1 DEF ReliedOK

\* The runners' steps.
RunnerMove ==
    \/ \E rel \in Releases : MigrateByHand(rel)
    \/ \E r \in Runners :
          TakeLock(r) \/ Plan(r) \/ ApplyText(r) \/ Record(r) \/ AllApplied(r) \/ RunnerDies(r)

\* A runner's step keeps the invariant.
LEMMA NextRunners == ASSUME IInv, RunnerMove PROVE IInv'
<1> USE DEF RunnerMove
<1>0. /\ SchemaOK(db) /\ RunsOK /\ ReliedOK /\ ServiceOK /\ PointersOK /\ BackupsOK
      /\ \A q \in Runners : run[q] \in Runs
  BY DEF IInv, RunsOK
<1>1. /\ db \in Dbs /\ db.schema \in Seq(Files \cup {Part}) /\ db.recorded \in Seq(Files)
      /\ Len(db.schema) \in Nat /\ Len(db.recorded) \in Nat /\ db.tables \in BOOLEAN
  BY <1>0 DEF SchemaOK, Dbs
<1>2. "release" \in Runners /\ "hand" \in Runners  BY DEF Runners
\* The rest of the server looks on.
<1>3. ASSUME UNCHANGED <<current, script, process, store, pointers, repair>>,
             SchemaOK(db'), db.tables => db'.tables, RunsOK',
             \A rel : Installed(rel) => Installed(rel)',
             script.at = "migrating" =>
               /\ run'["release"].at \in Running => run'["release"].release = script.release
               /\ run'["release"].at = "done" =>
                    run["release"].at = "done" \/ Installed(script.release)'
      PROVE  IInv'
  <2>1. UNCHANGED <<svc, recovery, check, landed>> /\ UNCHANGED objects
    BY <1>3 DEF process, repair, pointers
  <2>2. ServiceOK'  BY <1>0, <1>3, ServiceKept
  <2>3. ReliedOK'  BY <1>0, <1>3, <2>1, RunnersKeepRelied
  <2>4. PointersOK'  BY <1>0, <1>3, <2>1, PointersKept
  <2>5. BackupsOK'  BY <1>0, <1>3, <2>1, BackupsKept
  <2>6. QED  BY <1>3, <2>2, <2>3, <2>4, <2>5 DEF IInv
<1>4. UNCHANGED db => (\A rel : Installed(rel) => Installed(rel)')
  BY DEF Installed
\* A runner stops, and says it applied everything only if so.
<1>5. ASSUME NEW r \in Runners, NEW how \in {"failed", "done"}, Stop(r, how),
             how = "done" => run[r].at \in Running /\ Installed(run[r].release),
             UNCHANGED db \/ (run[r].at \in Holding /\ SchemaOK(db') /\ db.tables => db'.tables),
             UNCHANGED db \/ run[r].at \in Holding,
             SchemaOK(db'), db.tables => db'.tables,
             \A rel : Installed(rel) => Installed(rel)',
             UNCHANGED <<current, script, process, store, pointers, repair>>
      PROVE  IInv'
  <2>1. RunsOK' /\ run'[r].at = how /\ \A q \in Runners : q # r => run'[q] = run[q]
    BY <1>0, <1>5, RunnerStops
  <2>2. how \notin Running  BY DEF Running, Holding
  <2>3. ASSUME script.at = "migrating"
        PROVE  /\ run'["release"].at \in Running => run'["release"].release = script.release
               /\ run'["release"].at = "done" =>
                    run["release"].at = "done" \/ Installed(script.release)'
    <3>1. run["release"].at \in Running => run["release"].release = script.release
      BY <1>0, <2>3 DEF ReliedOK
    <3>2. CASE r = "release"  BY <1>5, <2>1, <2>2, <3>1, <3>2
    <3>3. CASE r # "release"  BY <1>2, <2>1, <3>1, <3>3
    <3>4. QED  BY <3>2, <3>3
  <2>4. QED  BY <1>3, <1>5, <2>1, <2>3
\* The lock's holder goes on.
<1>6. ASSUME NEW r \in Runners, run[r].at \in Holding, UNCHANGED lock,
             NEW at \in Holding, NEW todo \in Seq(Files),
             run' = [run EXCEPT ![r].at = at, ![r].todo = todo],
             at \in {"next", "texted"} => Applies(run'[r], db'),
             SchemaOK(db'), db.tables => db'.tables,
             \A rel : Installed(rel) => Installed(rel)',
             UNCHANGED <<current, script, process, store, pointers, repair>>
      PROVE  IInv'
  <2>1. /\ RunsOK' /\ run'[r].at = at /\ run'[r].release = run[r].release
        /\ \A q \in Runners : q # r => run'[q] = run[q]
    BY <1>0, <1>6, RunnerGoesOn
  <2>2. ASSUME script.at = "migrating"
        PROVE  /\ run'["release"].at \in Running => run'["release"].release = script.release
               /\ run'["release"].at = "done" =>
                    run["release"].at = "done" \/ Installed(script.release)'
    <3>1. run["release"].at \in Running => run["release"].release = script.release
      BY <1>0, <2>2 DEF ReliedOK
    <3>2. run[r].at \in Running /\ at # "done"  BY <1>6 DEF Running, Holding
    <3>3. QED  BY <1>2, <2>1, <3>1, <3>2
  <2>3. QED  BY <1>3, <1>6, <2>1, <2>2
<1>7. ASSUME NEW rel \in Releases, MigrateByHand(rel) PROVE IInv'
  <2>1. /\ run["hand"].at \in {"off", "failed", "done"}
        /\ run' = [run EXCEPT !["hand"] = [at |-> "waiting", release |-> rel, todo |-> <<>>]]
        /\ UNCHANGED <<db, lock, current, script, process, store, pointers, repair>>
    BY <1>7 DEF MigrateByHand
  <2>2. RunsOK' /\ run'["release"] = run["release"]
    <3>1. UNCHANGED <<db, lock>>  BY <2>1
    <3>2. QED  BY <1>0, <1>2, <2>1, <3>1, RunnerStarts
  <2>3. script.at = "migrating" /\ run["release"].at \in Running =>
           run["release"].release = script.release
    BY <1>0 DEF ReliedOK
  <2>4. QED  BY <1>0, <1>3, <1>4, <2>1, <2>2, <2>3
<1>8. ASSUME NEW r \in Runners, TakeLock(r) PROVE IInv'
  <2> DEFINE new == [at |-> "locked", release |-> run[r].release, todo |-> run[r].todo]
  <2>1. /\ run[r].at = "waiting" /\ lock = None /\ lock' = r
        /\ run' = [run EXCEPT ![r].at = "locked"]
        /\ UNCHANGED <<db, current, script, process, store, pointers, repair>>
    BY <1>8 DEF TakeLock, At
  <2>2. run[r].release \in Releases  BY <1>0, <2>1 DEF RunsOK, Running
  <2>3. run' = [run EXCEPT ![r] = new] /\ new \in Runs /\ new.at = "locked"
    <3>1. new \in Runs  BY <1>0, <2>2 DEF Runs, Running, Holding
    <3>2. [run[r] EXCEPT !.at = "locked"] = new  BY <1>0 DEF Runs
    <3>3. QED  BY <2>1, <3>1, <3>2
  <2>4. new.release = run[r].release  OBVIOUS
  <2> HIDE DEF new
  <2>5. new.at \in Holding /\ new.at \notin {"next", "texted"}  BY <2>3 DEF Holding
  <2>6. \A q \in Runners : run[q].at \notin Holding
    BY <1>0, <2>1 DEF RunsOK, Runners, None
  <2>7. RunsOK'  BY <1>0, <2>1, <2>2, <2>3, <2>4, <2>5, <2>6, RunnerMoves
  <2>8. /\ run'[r].at = "locked" /\ run'[r].release = run[r].release
        /\ \A q \in Runners : q # r => run'[q] = run[q]
    BY <1>0, <2>3, <2>4 DEF RunsOK
  <2>9. script.at = "migrating" /\ run["release"].at \in Running =>
           run["release"].release = script.release
    BY <1>0 DEF ReliedOK
  <2>10. run[r].at \in Running  BY <2>1 DEF Running
  <2>11. QED  BY <1>0, <1>2, <1>3, <1>4, <2>1, <2>7, <2>8, <2>9, <2>10
<1>9. ASSUME NEW r \in Runners, AllApplied(r) PROVE IInv'
  <2>1. /\ run[r].at = "next" /\ run[r].todo = <<>> /\ Stop(r, "done")
        /\ UNCHANGED <<db, current, script, process, store, pointers, repair>>
    BY <1>9 DEF AllApplied, At
  <2>2. run[r].at \in Running /\ run[r].release \in Releases /\ Applies(run[r], db)
    BY <1>0, <2>1 DEF RunsOK, Running, Holding
  <2>3. Installed(run[r].release)
    <3>1. Len(run[r].todo) = 0  BY <2>1
    <3>2. Len(Ships[run[r].release]) \in Nat  BY <2>2, ShipsMore
    <3>3. /\ Len(run[r].todo) = Len(Ships[run[r].release]) - Len(db.recorded)
          /\ Begins(db.recorded, Ships[run[r].release])
      BY <2>2 DEF Applies
    <3>4. Len(Ships[run[r].release]) = Len(db.recorded)
      <4>1. \A a, b \in Nat : 0 = a - b => a = b  OBVIOUS
      <4>2. 0 = Len(Ships[run[r].release]) - Len(db.recorded)  BY <3>1, <3>3
      <4>3. QED  BY <1>1, <3>2, <4>1, <4>2
    <3>5. QED  BY <2>2, <3>3, <3>4 DEF Installed, Begins
  <2>4. QED  BY <1>0, <1>4, <1>5, <2>1, <2>2, <2>3
<1>10. ASSUME NEW r \in Runners, RunnerDies(r) PROVE IInv'
  BY <1>0, <1>4, <1>5, <1>10 DEF RunnerDies
<1>11. ASSUME NEW r \in Runners, Plan(r) PROVE IInv'
  <2>1. /\ run[r].at = "locked" /\ db' = [db EXCEPT !.tables = TRUE]
        /\ UNCHANGED <<current, script, process, store, pointers, repair>>
    BY <1>11 DEF Plan, At
  <2>2. run[r].at \in Holding /\ run[r].release \in Releases
    BY <1>0, <2>1 DEF RunsOK, Running, Holding
  <2>3. /\ db'.schema = db.schema /\ db'.recorded = db.recorded /\ db'.tables = TRUE /\ db' \in Dbs
    BY <1>1, <2>1 DEF Dbs
  <2>4. SchemaOK(db') /\ \A rel : Installed(rel) => Installed(rel)'
    BY <1>0, <2>3 DEF SchemaOK, Installed
  <2> DEFINE files == Ships[run[r].release]
  <2>5. files \in Seq(Files) /\ Len(files) \in Nat  BY <2>2, ShipsMore
  <2>6. CASE Refuses(files, db.recorded) /\ Stop(r, "failed")
    BY <1>5, <2>1, <2>2, <2>3, <2>4, <2>6
  <2>7. CASE /\ ~Refuses(files, db.recorded) /\ UNCHANGED lock
             /\ run' = [run EXCEPT ![r].at = "next",
                                   ![r].todo = SubSeq(files, Len(db.recorded) + 1, Len(files))]
    <3> DEFINE todo == SubSeq(files, Len(db.recorded) + 1, Len(files))
    <3>1. Begins(db.recorded, files)
      BY <1>1, <2>5, <2>7 DEF Refuses, Begins
    <3>2. /\ todo \in Seq(Files) /\ Len(todo) = Len(files) - Len(db.recorded)
          /\ \A i \in 1..Len(todo) : todo[i] = files[Len(db.recorded) + i]
      <4>1. /\ Len(db.recorded) <= Len(files) /\ Len(db.recorded) + 1 \in 1..Len(files) + 1
        BY <1>1, <2>5, <3>1 DEF Begins
      <4>2. \A s \in Seq(Files), m \in Nat : m <= Len(s) =>
               /\ SubSeq(s, m + 1, Len(s)) \in Seq(Files)
               /\ Len(SubSeq(s, m + 1, Len(s))) = Len(s) - m
               /\ \A i \in 1..Len(s) - m : SubSeq(s, m + 1, Len(s))[i] = s[m + i]
        BY SubSeqRest
      <4>3. /\ todo \in Seq(Files) /\ Len(todo) = Len(files) - Len(db.recorded)
            /\ \A i \in 1..Len(files) - Len(db.recorded) : todo[i] = files[Len(db.recorded) + i]
        BY <1>1, <2>5, <4>1, <4>2
      <4>4. QED  BY <4>3
    <3>3. /\ run'[r].at = "next" /\ run'[r].todo = todo /\ run'[r].release = run[r].release
      BY <1>0, <2>7 DEF RunsOK, Runs
    <3>4. Applies(run'[r], db')  BY <2>3, <3>1, <3>2, <3>3 DEF Applies
    <3> HIDE DEF todo
    <3>5. "next" \in Holding  BY DEF Holding
    <3>6. run' = [run EXCEPT ![r].at = "next", ![r].todo = todo] /\ UNCHANGED lock
      BY <2>7 DEF todo
    <3>7. db'.tables  BY <2>3
    <3>8. QED  BY <1>6, <2>1, <2>2, <2>4, <3>2, <3>4, <3>5, <3>6, <3>7
  <2>8. QED  BY <1>11, <2>6, <2>7 DEF Plan
<1>12. ASSUME NEW r \in Runners, run[r].at \in {"next", "texted"}, run[r].todo # <<>>
       PROVE  /\ run[r].at \in Holding /\ run[r].release \in Releases /\ Applies(run[r], db) /\ db.tables
              /\ run[r].todo \in Seq(Files) /\ Ships[run[r].release] \in Seq(Files)
              /\ Len(db.recorded) + 1 \in 1..Len(Ships[run[r].release])
              /\ Head(run[r].todo) = Ships[run[r].release][Len(db.recorded) + 1]
              /\ Head(run[r].todo) \in Files
              /\ Version(r) = Len(db.recorded) + 1
  <2>1. run[r].at \in Holding /\ run[r].release \in Releases /\ Applies(run[r], db)
    BY <1>0, <1>12 DEF RunsOK, Running, Holding
  <2>2. run[r].todo \in Seq(Files)  BY <1>0 DEF Runs
  <2>3. Ships[run[r].release] \in Seq(Files) /\ Len(Ships[run[r].release]) \in Nat
    BY <2>1, ShipsMore
  <2>4. Len(run[r].todo) \in Nat \ {0} /\ Head(run[r].todo) = run[r].todo[1]
    BY <1>12, <2>2
  <2>5. /\ Len(run[r].todo) = Len(Ships[run[r].release]) - Len(db.recorded) /\ db.tables
        /\ run[r].todo[1] = Ships[run[r].release][Len(db.recorded) + 1]
    BY <2>1, <2>4 DEF Applies
  <2>6. Len(db.recorded) + 1 \in 1..Len(Ships[run[r].release])
    BY <1>1, <2>3, <2>4, <2>5
  <2>7. Version(r) = Len(db.recorded) + 1  BY <1>1, <2>3, <2>5 DEF Version
  <2>8. Head(run[r].todo) \in Files  BY <2>3, <2>4, <2>5, <2>6
  <2>9. QED  BY <2>1, <2>2, <2>3, <2>4, <2>5, <2>6, <2>7, <2>8
<1>13. ASSUME NEW r \in Runners, ApplyText(r) PROVE IInv'
  <2>1. /\ run[r].at = "next" /\ run[r].todo # <<>>
        /\ UNCHANGED <<current, script, process, store, pointers, repair>>
    BY <1>13 DEF ApplyText, At
  <2> DEFINE f == Head(run[r].todo)
  <2>2. /\ run[r].at \in Holding /\ run[r].release \in Releases /\ Applies(run[r], db) /\ db.tables
        /\ run[r].todo \in Seq(Files)
        /\ f = Ships[run[r].release][Len(db.recorded) + 1] /\ f \in Files
        /\ Version(r) = Len(db.recorded) + 1
    BY <1>12, <2>1
  <2>3. CASE Len(db.schema) >= Version(r) /\ Stop(r, "failed") /\ UNCHANGED db
    BY <1>0, <1>4, <1>5, <2>1, <2>2, <2>3
  <2>4. CASE /\ ~(Len(db.schema) >= Version(r)) /\ UNCHANGED lock
             /\ run' = [run EXCEPT ![r].at = "texted"]
             /\ db' = IF Version(r) < FirstWrapped THEN [db EXCEPT !.schema = Append(@, f)] ELSE db
    <3> HIDE DEF f
    <3>1. Matches(db.schema, db.recorded)  BY <1>0, <1>1, <2>2, <2>4 DEF SchemaOK
    <3>2. /\ db' \in Dbs /\ db'.tables = db.tables /\ db'.recorded = db.recorded
          /\ db'.schema = IF Len(db.recorded) + 1 < FirstWrapped THEN Append(db.schema, f) ELSE db.schema
      <4>1. CASE Len(db.recorded) + 1 < FirstWrapped
        <5>1. db' = [schema |-> Append(db.schema, f), recorded |-> db.recorded, tables |-> db.tables]
          BY <1>1, <2>2, <2>4, <4>1 DEF Dbs
        <5>2. Append(db.schema, f) \in Seq(Files \cup {Part})  BY <1>1, <2>2
        <5>3. QED  BY <1>1, <3>1, <4>1, <5>1, <5>2 DEF Dbs
      <4>2. CASE ~(Len(db.recorded) + 1 < FirstWrapped)
        BY <1>1, <2>2, <2>4, <3>1, <4>2
      <4>3. QED  BY <4>1, <4>2
    <3>3. SchemaOK(db')
      <4>1. CASE Len(db.recorded) + 1 < FirstWrapped
        <5>1. Len(db'.schema) = Len(db.recorded) + 1  BY <1>1, <2>2, <3>1, <3>2, <4>1 DEF Matches
        <5>2. Len(db.recorded) < FirstWrapped - 1  BY <1>1, <4>1 DEF FirstWrapped
        <5>3. Len(db'.recorded) < Len(db'.schema)  BY <1>1, <3>2, <5>1
        <5>4. QED  BY <2>2, <3>2, <5>2, <5>3 DEF SchemaOK
      <4>2. CASE ~(Len(db.recorded) + 1 < FirstWrapped)
        BY <2>2, <3>1, <3>2, <4>2 DEF SchemaOK
      <4>3. QED  BY <4>1, <4>2
    <3>4. /\ run'[r].at = "texted" /\ run'[r].todo = run[r].todo /\ run'[r].release = run[r].release
      BY <1>0, <2>4 DEF RunsOK, Runs
    <3>5. Applies(run'[r], db')
      <4>1. Matches(db'.schema, IF Len(db.recorded) + 1 < FirstWrapped THEN Append(db.recorded, f)
                                ELSE db.recorded)
        BY <1>1, <2>2, <3>1, <3>2, MatchesMore
      <4>2. QED  BY <2>1, <2>2, <3>2, <3>4, <4>1 DEF Applies
    <3>6. run' = [run EXCEPT ![r].at = "texted", ![r].todo = run[r].todo]
      <4>1. [run[r] EXCEPT !.at = "texted"]
              = [at |-> "texted", release |-> run[r].release, todo |-> run[r].todo]
        BY <1>0 DEF Runs
      <4>2. [run[r] EXCEPT !.at = "texted", !.todo = run[r].todo]
              = [[run[r] EXCEPT !.at = "texted"] EXCEPT !.todo = run[r].todo]
        OBVIOUS
      <4>3. [[at |-> "texted", release |-> run[r].release, todo |-> run[r].todo]
               EXCEPT !.todo = run[r].todo]
              = [at |-> "texted", release |-> run[r].release, todo |-> run[r].todo]
        OBVIOUS
      <4>4. [run EXCEPT ![r].at = "texted", ![r].todo = run[r].todo]
              = [run EXCEPT ![r] = [run[r] EXCEPT !.at = "texted", !.todo = run[r].todo]]
        BY <1>0 DEF RunsOK
      <4>5. [run EXCEPT ![r].at = "texted"] = [run EXCEPT ![r] = [run[r] EXCEPT !.at = "texted"]]
        OBVIOUS
      <4>6. QED  BY <2>4, <4>1, <4>2, <4>3, <4>4, <4>5
    <3>7. "texted" \in Holding  BY DEF Holding
    <3>8. \A rel : Installed(rel) => Installed(rel)'  BY <3>2 DEF Installed
    <3>9. db.tables => db'.tables  BY <3>2
    <3>10. QED  BY <1>6, <2>1, <2>2, <2>4, <3>3, <3>5, <3>6, <3>7, <3>8, <3>9
  <2>5. QED  BY <1>13, <2>3, <2>4 DEF ApplyText
<1>14. ASSUME NEW r \in Runners, Record(r) PROVE IInv'
  <2> DEFINE f == Head(run[r].todo)
  <2>0. run[r].at = "texted"  BY <1>14 DEF Record, At
  <2>1. run[r].todo # <<>>  BY <1>0, <2>0 DEF RunsOK, Applies
  <2>2. /\ run[r].at \in Holding /\ run[r].release \in Releases /\ Applies(run[r], db) /\ db.tables
        /\ run[r].todo \in Seq(Files) /\ Ships[run[r].release] \in Seq(Files)
        /\ Len(db.recorded) + 1 \in 1..Len(Ships[run[r].release])
        /\ f = Ships[run[r].release][Len(db.recorded) + 1] /\ f \in Files
        /\ Version(r) = Len(db.recorded) + 1
    BY <1>12, <2>0, <2>1
  <2>3. /\ db' = [db EXCEPT !.recorded = Append(@, f),
                            !.schema = IF Len(@) < Version(r) THEN Append(@, f) ELSE @]
        /\ run' = [run EXCEPT ![r].at = "next", ![r].todo = Tail(@)]
        /\ UNCHANGED <<lock, current, script, process, store, pointers, repair>>
    BY <1>14 DEF Record
  <2> HIDE DEF f
  <2>4. Matches(db.schema, IF Len(db.recorded) + 1 < FirstWrapped THEN Append(db.recorded, f)
                           ELSE db.recorded)
    BY <2>0, <2>2 DEF Applies
  <2>5. /\ Append(db.recorded, f) \in Seq(Files) /\ Len(Append(db.recorded, f)) = Len(db.recorded) + 1
        /\ \A i \in 1..Len(db.recorded) : Append(db.recorded, f)[i] = db.recorded[i]
        /\ Append(db.recorded, f)[Len(db.recorded) + 1] = f
    BY <1>1, <2>2
  <2> DEFINE schema == IF Len(db.schema) < Version(r) THEN Append(db.schema, f) ELSE db.schema
  <2>6. Matches(schema, Append(db.recorded, f)) /\ schema \in Seq(Files \cup {Part})
    <3>1. CASE Len(db.recorded) + 1 < FirstWrapped
      <4>1. Len(db.schema) = Len(db.recorded) + 1  BY <2>4, <2>5, <3>1 DEF Matches
      <4>2. schema = db.schema  BY <1>1, <2>2, <4>1
      <4>3. QED  BY <1>1, <2>4, <3>1, <4>2
    <3>2. CASE ~(Len(db.recorded) + 1 < FirstWrapped)
      <4>1. Matches(db.schema, db.recorded) /\ Len(db.schema) = Len(db.recorded)
        BY <2>4, <3>2 DEF Matches
      <4>2. schema = Append(db.schema, f)  BY <1>1, <2>2, <4>1
      <4>3. Matches(Append(db.schema, f), Append(db.recorded, f))
        BY <1>1, <2>2, <4>1, MatchesMore
      <4>4. Append(db.schema, f) \in Seq(Files \cup {Part})  BY <1>1, <2>2
      <4>5. QED  BY <4>2, <4>3, <4>4
    <3>3. QED  BY <3>1, <3>2
  <2> HIDE DEF schema
  <2>7. /\ db'.recorded = Append(db.recorded, f) /\ db'.schema = schema
        /\ db'.tables = db.tables /\ db' \in Dbs
    <3>1. db' = [schema |-> schema, recorded |-> Append(db.recorded, f), tables |-> db.tables]
      BY <1>1, <2>3 DEF Dbs, schema
    <3>2. QED  BY <1>1, <2>5, <2>6, <3>1 DEF Dbs
  <2>8. SchemaOK(db')  BY <2>2, <2>6, <2>7 DEF SchemaOK
  <2>9. \A rel : Installed(rel) => Installed(rel)'
    <3>1. ASSUME NEW rel, Installed(rel) PROVE Installed(rel)'
      <4>1. rel \in Releases /\ Len(Ships[rel]) \in Nat /\ Len(Ships[rel]) <= Len(db.recorded)
        BY <3>1, ShipsMore DEF Installed, Begins
      <4>2. \A i \in 1..Len(Ships[rel]) : Ships[rel][i] = db.recorded[i] /\ i \in 1..Len(db.recorded)
        BY <1>1, <3>1, <4>1 DEF Installed, Begins
      <4>3. Len(Ships[rel]) <= Len(db.recorded) + 1  BY <1>1, <4>1
      <4>4. QED  BY <2>5, <2>7, <4>1, <4>2, <4>3 DEF Installed, Begins
    <3>2. QED  BY <3>1
  <2> DEFINE todo == Tail(run[r].todo)
             files == Ships[run[r].release]
  <2>10. /\ todo \in Seq(Files) /\ Len(todo) = Len(run[r].todo) - 1
         /\ \A i \in 1..Len(todo) : todo[i] = run[r].todo[i + 1]
    BY <2>1, <2>2
  <2>11. run' = [run EXCEPT ![r].at = "next", ![r].todo = todo]
    <3>1. [run EXCEPT ![r].at = "next", ![r].todo = Tail(@)]
            = [run EXCEPT ![r] = [run[r] EXCEPT !.at = "next", !.todo = Tail(run[r].todo)]]
      BY <1>0 DEF RunsOK, Runs
    <3>2. [run EXCEPT ![r].at = "next", ![r].todo = todo]
            = [run EXCEPT ![r] = [run[r] EXCEPT !.at = "next", !.todo = todo]]
      BY <1>0 DEF RunsOK, Runs
    <3>3. QED  BY <2>3, <3>1, <3>2
  <2>12. /\ run'[r].at = "next" /\ run'[r].todo = todo /\ run'[r].release = run[r].release
    BY <1>0, <2>11 DEF RunsOK, Runs
  <2> HIDE DEF todo
  <2>13. Applies(run'[r], db')
    <3>1. /\ Len(run[r].todo) = Len(files) - Len(db.recorded)
          /\ \A i \in 1..Len(run[r].todo) : run[r].todo[i] = files[Len(db.recorded) + i]
          /\ Begins(db.recorded, files) /\ Len(run[r].todo) \in Nat /\ Len(files) \in Nat
      <4>1. Len(run[r].todo) \in Nat /\ Len(files) \in Nat  BY <2>2
      <4>2. /\ Len(run[r].todo) = Len(files) - Len(db.recorded)
            /\ \A i \in 1..Len(run[r].todo) : run[r].todo[i] = files[Len(db.recorded) + i]
            /\ Begins(db.recorded, files)
        BY <2>2 DEF Applies
      <4>3. QED  BY <4>1, <4>2
    <3>2. Len(todo) = Len(files) - (Len(db.recorded) + 1)
      BY <1>1, <2>10, <3>1
    <3>3. \A i \in 1..Len(todo) : todo[i] = files[Len(db.recorded) + 1 + i]
      <4>1. ASSUME NEW i \in 1..Len(todo) PROVE todo[i] = files[Len(db.recorded) + 1 + i]
        <5>0. \A n, m \in Nat : \A j \in 1..(n - 1) :
                j + 1 \in 1..n /\ m + (j + 1) = m + 1 + j
          OBVIOUS
        <5>1. i + 1 \in 1..Len(run[r].todo)  BY <1>1, <2>10, <3>1, <5>0
        <5>2. run[r].todo[i + 1] = files[Len(db.recorded) + (i + 1)]  BY <3>1, <5>1
        <5>3. Len(db.recorded) + (i + 1) = Len(db.recorded) + 1 + i  BY <1>1, <2>10, <3>1, <5>0
        <5>4. QED  BY <2>10, <5>2, <5>3
      <4>2. QED  BY <4>1
    <3>4. Begins(Append(db.recorded, f), files)
      <4>1. Len(db.recorded) + 1 <= Len(files)  BY <1>1, <2>2, <3>1
      <4>2. \A i \in 1..Len(db.recorded) + 1 : i \in 1..Len(db.recorded) \/ i = Len(db.recorded) + 1
        BY <1>1
      <4>3. QED  BY <2>2, <2>5, <3>1, <4>1, <4>2 DEF Begins
    <3>5. db'.tables  BY <2>2, <2>7
    <3>6. db'.recorded = Append(db.recorded, f) /\ Len(db'.recorded) = Len(db.recorded) + 1
      BY <2>5, <2>7
    <3>7. /\ Begins(db'.recorded, files) /\ Len(todo) = Len(files) - Len(db'.recorded)
          /\ \A i \in 1..Len(todo) : todo[i] = files[Len(db'.recorded) + i]
      BY <3>2, <3>3, <3>4, <3>6
    <3>8. QED  BY <2>12, <3>5, <3>7 DEF Applies
  <2>14. "next" \in Holding  BY DEF Holding
  <2>15. db.tables => db'.tables  BY <2>7
  <2>16. QED  BY <1>6, <2>2, <2>3, <2>8, <2>9, <2>10, <2>11, <2>13, <2>14, <2>15
<1>15. QED  BY <1>7, <1>8, <1>9, <1>10, <1>11, <1>13, <1>14

-----------------------------------------------------------------------------
(***************************************************************************)
(* The release script.                                                     *)
(***************************************************************************)

\* Its steps.
ScriptMove ==
    \/ \E rel \in Releases : StartRelease(rel)
    \/ Migrated \/ SwitchLinks \/ RestartForRelease \/ Healthy \/ NotHealthy \/ ScriptDies

\* The script's step keeps the invariant.
LEMMA NextScript == ASSUME IInv, ScriptMove PROVE IInv'
<1>0. /\ SchemaOK(db) /\ RunsOK /\ ReliedOK /\ ServiceOK /\ PointersOK /\ BackupsOK
  BY DEF IInv
<1>1. /\ script \in Scripts /\ current \in [api : Releases \cup {None}, app : Releases \cup {None}]
      /\ \A rel \in Releases \cup {None} : InUse(rel) => Installed(rel)
  BY <1>0 DEF ReliedOK
<1>2. UNCHANGED db => \A rel : Installed(rel)' <=> Installed(rel)  BY DEF Installed
\* What the links and the script say, and nothing else, is moved.
<1>3. ASSUME UNCHANGED <<db, lock, run, process, store, pointers, repair>>, ReliedOK' PROVE IInv'
  <2>1. UNCHANGED <<svc, recovery, check, landed>> /\ UNCHANGED objects
    BY <1>3 DEF process, repair, pointers
  <2>2. SchemaOK(db') /\ RunsOK' /\ ServiceOK' /\ PointersOK' /\ BackupsOK'
    BY <1>0, <1>3, <2>1, RunsKept, ServiceKept, PointersKept, BackupsKept
  <2>3. QED  BY <1>3, <2>2 DEF IInv
\* The script is over, or was never begun.
<1>4. ASSUME script' = NoScript, UNCHANGED <<db, run, svc, current>> PROVE ReliedOK'
  <2>1. script' \in Scripts /\ script'.at = "off"  BY <1>4 DEF NoScript, Scripts
  <2>2. \A rel : InUse(rel)' => InUse(rel)  BY <1>4, <2>1 DEF InUse, Switching
  <2>3. QED  BY <1>1, <1>2, <1>4, <2>1, <2>2 DEF ReliedOK
\* The script goes on with the same build.
<1>5. ASSUME script.at \in Switching, NEW at \in Switching, script' = [script EXCEPT !.at = at],
             UNCHANGED <<db, run, svc>>,
             current' \in [api : Releases \cup {None}, app : Releases \cup {None}],
             current'.api \in {current.api, script.release, script.prev.api},
             at \in {"switch app", "restart", "back app", "restart back"} => current'.api # None,
             at \in {"back api", "back app", "restart back"} => script.prev.api # None
      PROVE  ReliedOK'
  <2>1. /\ script'.at = at /\ script'.release = script.release /\ script'.prev = script.prev
        /\ script' \in Scripts
    BY <1>1, <1>5 DEF Scripts
  <2>2. at \notin {"off", "migrating"}  BY <1>5 DEF Switching
  <2>3. \A rel : InUse(rel)' => InUse(rel)  BY <1>5, <2>1, <2>2 DEF InUse
  <2>4. QED  BY <1>1, <1>2, <1>5, <2>1, <2>2, <2>3 DEF ReliedOK
<1>6. ASSUME NEW rel \in Releases, StartRelease(rel) PROVE IInv'
  <2>1. /\ script.at = "off" /\ run["release"].at \in {"off", "failed", "done"}
        /\ script' = [NoScript EXCEPT !.at = "migrating", !.release = rel]
        /\ run' = [run EXCEPT !["release"] = [at |-> "waiting", release |-> rel, todo |-> <<>>]]
        /\ UNCHANGED <<db, lock, current, process, store, pointers, repair>>
    BY <1>6 DEF StartRelease
  <2>2. /\ script' \in Scripts /\ script'.at = "migrating" /\ script'.release = rel
    BY <2>1 DEF NoScript, Scripts
  <2>3. RunsOK' /\ run'["release"].at = "waiting" /\ run'["release"].release = rel
    <3>1. "release" \in Runners /\ UNCHANGED <<db, lock>>  BY <2>1 DEF Runners
    <3>2. QED  BY <1>0, <2>1, <3>1, RunnerStarts
  <2>4. UNCHANGED <<svc, recovery, check, landed>> /\ UNCHANGED objects
    BY <2>1 DEF process, repair, pointers
  <2>5. \A q : InUse(q)' => InUse(q)
    BY <2>1, <2>2, <2>3, <2>4 DEF InUse, Switching, At
  <2>6. ReliedOK'  BY <1>1, <1>2, <2>1, <2>2, <2>3, <2>5 DEF ReliedOK
  <2>7. SchemaOK(db') /\ ServiceOK' /\ PointersOK' /\ BackupsOK'
    BY <1>0, <2>1, <2>4, ServiceKept, PointersKept, BackupsKept
  <2>8. QED  BY <2>3, <2>6, <2>7 DEF IInv
<1>7. CASE Migrated
  <2>1. /\ script.at = "migrating"
        /\ script' = IF At("release", "done")
                     THEN [script EXCEPT !.at = "switch api", !.prev = current] ELSE NoScript
        /\ UNCHANGED <<db, lock, run, current, process, store, pointers, repair>>
    BY <1>7 DEF Migrated
  <2>2. UNCHANGED <<db, run, svc, current>>  BY <2>1 DEF process
  <2>3. CASE At("release", "done")
    <3>1. /\ script'.at = "switch api" /\ script'.release = script.release /\ script'.prev = current
          /\ script' \in Scripts
      BY <1>1, <2>1, <2>3 DEF Scripts, Switching
    <3>2. \A rel : InUse(rel)' => InUse(rel)
      BY <2>1, <2>2, <2>3, <3>1 DEF InUse, Switching
    <3>3. ReliedOK'  BY <1>1, <1>2, <2>2, <3>1, <3>2 DEF ReliedOK
    <3>4. QED  BY <1>3, <2>1, <3>3
  <2>4. CASE ~At("release", "done")
    BY <1>3, <1>4, <2>1, <2>2, <2>4
  <2>5. QED  BY <2>3, <2>4
<1>8. CASE SwitchLinks
  <2>1. ASSUME NEW at, NEW which \in {"api", "app"}, NEW to, NEW then \in Switching,
               Switch(at, which, to, then), script.at = at, at \in Switching,
               to \in Releases \cup {None}, which = "api" => to \in {script.release, script.prev.api},
               then \in {"switch app", "restart", "back app", "restart back"} =>
                 IF which = "api" THEN to # None ELSE current.api # None,
               then \in {"back api", "back app", "restart back"} => script.prev.api # None
        PROVE  IInv'
    <3>1. /\ current' = [current EXCEPT ![which] = to] /\ script' = [script EXCEPT !.at = then]
          /\ UNCHANGED <<db, lock, run, process, store, pointers, repair>>
      BY <2>1 DEF Switch
    <3>2. /\ current' \in [api : Releases \cup {None}, app : Releases \cup {None}]
          /\ current'.api = IF which = "api" THEN to ELSE current.api
      BY <1>1, <2>1, <3>1
    <3>3. UNCHANGED <<db, run, svc>>  BY <3>1 DEF process
    <3>4. ReliedOK'  BY <1>5, <2>1, <3>1, <3>2, <3>3
    <3>5. QED  BY <1>3, <3>1, <3>4
  <2>2. script.prev.api \in Releases \cup {None} /\ script.prev.app \in Releases \cup {None}
        /\ script.release \in Releases \cup {None}
    BY <1>1 DEF Scripts
  <2>3. script.at \in Switching => script.release \in Releases
    BY <1>1, <2>2 DEF InUse, Installed
  <2>4. /\ script.at \in {"switch app", "restart", "back app", "restart back"} => current.api # None
        /\ script.at \in {"back api", "back app", "restart back"} => script.prev.api # None
    BY <1>0 DEF ReliedOK
  <2>5. CASE Switch("switch api", "api", script.release, "switch app")
    <3>1. "switch api" \in Switching /\ "switch app" \in Switching  BY DEF Switching
    <3>2. script.at = "switch api"  BY <2>5 DEF Switch
    <3>3. script.release # None  BY <2>3, <3>1, <3>2, NoneIsNoRelease
    <3>4. QED  BY <2>1, <2>2, <2>5, <3>1, <3>2, <3>3
  <2>6. CASE Switch("switch app", "app", script.release, "restart")
    <3>1. "switch app" \in Switching /\ "restart" \in Switching  BY DEF Switching
    <3>2. script.at = "switch app"  BY <2>6 DEF Switch
    <3>3. QED  BY <2>1, <2>2, <2>4, <2>6, <3>1, <3>2
  <2>7. CASE Switch("back api", "api", script.prev.api, "back app")
    <3>1. "back api" \in Switching /\ "back app" \in Switching  BY DEF Switching
    <3>2. script.at = "back api"  BY <2>7 DEF Switch
    <3>3. QED  BY <2>1, <2>2, <2>4, <2>7, <3>1, <3>2
  <2>8. CASE Switch("back app", "app", script.prev.app, "restart back")
    <3>1. "back app" \in Switching /\ "restart back" \in Switching  BY DEF Switching
    <3>2. script.at = "back app"  BY <2>8 DEF Switch
    <3>3. QED  BY <2>1, <2>2, <2>4, <2>8, <3>1, <3>2
  <2>9. QED  BY <1>8, <2>5, <2>6, <2>7, <2>8 DEF SwitchLinks
<1>9. CASE RestartForRelease
  <2>1. /\ script.at \in {"restart", "restart back"}
        /\ script' = IF script.at = "restart" THEN [script EXCEPT !.at = "health"] ELSE NoScript
        /\ svc' = [Down EXCEPT !.at = "boot", !.release = current.api]
        /\ UNCHANGED <<db, lock, run, current, call, lost, store, pointers, repair>>
    BY <1>9 DEF RestartForRelease
  <2>2. /\ script' \in Scripts /\ script'.at \in {"off", "health"}
        /\ script'.at = "health" => script'.release = script.release /\ script'.prev = script.prev
    <3>1. CASE script.at = "restart"
      BY <1>1, <2>1, <3>1 DEF Scripts, Switching
    <3>2. CASE script.at # "restart"
      BY <2>1, <3>2 DEF NoScript, Scripts
    <3>3. QED  BY <3>1, <3>2
  <2>3. /\ svc'.at = "boot" /\ svc'.release = current.api /\ svc'.pool = "none"
        /\ svc'.storage = "none" /\ svc'.failed = FALSE
        /\ svc' = [at |-> "boot", release |-> current.api, pool |-> "none", storage |-> "none",
                   failed |-> FALSE]
    BY <2>1 DEF Down
  <2>4. current.api # None /\ current.api \in Releases \cup {None}
    BY <1>0, <1>1, <2>1 DEF ReliedOK
  <2>5. \A rel : InUse(rel)' => InUse(rel)
    BY <2>1, <2>2, <2>3, <2>4 DEF InUse, Switching
  <2>6. ReliedOK'  BY <1>1, <1>2, <2>1, <2>2, <2>5 DEF ReliedOK
  <2>7. ServiceOK'
    <3>1. svc' \in [at : {"off", "boot", "bucket", "listening", "serving", "closing", "ending", "ended"},
                    release : Releases \cup {None}, pool : {"none", "open", "ended"},
                    storage : {"none", "open", "destroyed"}, failed : BOOLEAN]
      BY <2>3, <2>4
    <3>2. QED  BY <1>0, <2>1, <2>3, <3>1 DEF ServiceOK
  <2>8. UNCHANGED <<recovery, check, landed>> /\ UNCHANGED objects  BY <2>1 DEF repair, pointers
  <2>9. SchemaOK(db') /\ RunsOK' /\ PointersOK' /\ BackupsOK'
    BY <1>0, <2>1, <2>8, RunsKept, PointersKept, BackupsKept
  <2>10. QED  BY <2>6, <2>7, <2>9 DEF IInv
<1>10. CASE Healthy \/ ScriptDies
  <2>1. script' = NoScript /\ UNCHANGED <<db, lock, run, current, process, store, pointers, repair>>
    BY <1>10 DEF Healthy, ScriptDies
  <2>2. UNCHANGED <<db, run, svc, current>>  BY <2>1 DEF process
  <2>3. QED  BY <1>3, <1>4, <2>1, <2>2
<1>11. CASE NotHealthy
  <2>1. /\ script.at = "health"
        /\ script' = IF None \in {script.prev.api, script.prev.app} THEN NoScript
                     ELSE [script EXCEPT !.at = "back api"]
        /\ UNCHANGED <<db, lock, run, current, process, store, pointers, repair>>
    BY <1>11 DEF NotHealthy
  <2>2. UNCHANGED <<db, run, svc, current>>  BY <2>1 DEF process
  <2>3. CASE script' = NoScript  BY <1>3, <1>4, <2>1, <2>2, <2>3
  <2>4. CASE script.prev.api # None /\ script' = [script EXCEPT !.at = "back api"]
    <3>1. "back api" \in Switching /\ "health" \in Switching  BY DEF Switching
    <3>2. ReliedOK'  BY <1>1, <1>5, <2>1, <2>2, <2>4, <3>1
    <3>3. QED  BY <1>3, <2>1, <3>2
  <2>5. QED  BY <2>1, <2>3, <2>4
<1>12. QED  BY <1>6, <1>7, <1>8, <1>9, <1>10, <1>11 DEF ScriptMove

-----------------------------------------------------------------------------
(***************************************************************************)
(* The service.                                                            *)
(***************************************************************************)

\* Its steps, and those of the call under way in it.
ServiceMove ==
    \/ Start \/ ReadConfig \/ verifyBucket \/ Registered \/ Crash \/ Signal
    \/ CloseApp \/ EndPool \/ Exit \/ Deadline
    \/ BeginCall \/ ClientLeaves \/ EndCall

\* The service's step keeps the invariant.
LEMMA NextService == ASSUME IInv, ServiceMove PROVE IInv'
<1>0. /\ SchemaOK(db) /\ RunsOK /\ ReliedOK /\ ServiceOK /\ PointersOK /\ BackupsOK
  BY DEF IInv
<1> DEFINE ats == {"off", "boot", "bucket", "listening", "serving", "closing", "ending", "ended"}
           Svcs == [at : ats, release : Releases \cup {None}, pool : {"none", "open", "ended"},
                    storage : {"none", "open", "destroyed"}, failed : BOOLEAN]
<1>1. /\ svc \in Svcs /\ call \in {"none", "connected", "left"} /\ "connected" \notin lost
      /\ svc.pool = "ended" => svc.at \in {"ending", "ended"} /\ call # "connected"
  BY <1>0 DEF ServiceOK
\* The service's own state, and nothing else, is moved, and it stays the build it was.
<1>2. ASSUME UNCHANGED <<db, deploy, store, pointers, repair>>, ServiceOK',
             svc'.at # "off" => svc.at # "off" /\ svc'.release = svc.release
      PROVE  IInv'
  <2>1. UNCHANGED <<lock, run, current, script, recovery, check, landed>> /\ UNCHANGED objects
    BY <1>2 DEF deploy, repair, pointers
  <2>2. RunsOK' /\ ReliedOK' /\ PointersOK' /\ BackupsOK'
    BY <1>0, <1>2, <2>1, RunsKept, ReliedKept, PointersKept, BackupsKept
  <2>3. SchemaOK(db')  BY <1>0, <1>2
  <2>4. QED  BY <1>2, <2>2, <2>3 DEF IInv
\* The process is gone.
<1>3. Down \in Svcs /\ Down.at = "off" /\ Down.pool = "none"
  BY DEF Down
<1>4. ASSUME svc' = Down, call' \in {"none", call}, UNCHANGED lost PROVE ServiceOK'
  BY <1>1, <1>3, <1>4 DEF ServiceOK
\* Only the call moves.
<1>5. ASSUME UNCHANGED svc PROVE svc'.at # "off" => svc.at # "off" /\ svc'.release = svc.release
  BY <1>5
<1>6. CASE Start
  <2>1. /\ svc.at = "off" /\ current.api # None
        /\ svc' = [Down EXCEPT !.at = "boot", !.release = current.api]
        /\ UNCHANGED <<db, deploy, call, lost, store, pointers, repair>>
    BY <1>6 DEF Start
  <2>2. UNCHANGED <<lock, run, current, script, recovery, check, landed>> /\ UNCHANGED objects
    BY <2>1 DEF deploy, repair, pointers
  <2>3. svc' = [at |-> "boot", release |-> current.api, pool |-> "none", storage |-> "none",
                failed |-> FALSE]
    BY <2>1 DEF Down
  <2>4. current.api \in Releases \cup {None}  BY <1>0 DEF ReliedOK
  <2>5. svc' \in Svcs /\ svc'.pool = "none" /\ svc'.release = current.api /\ svc'.at = "boot"
    BY <2>3, <2>4
  <2>6. ServiceOK'  BY <1>1, <2>1, <2>5 DEF ServiceOK
  <2>7. \A rel : InUse(rel)' => InUse(rel)  BY <2>1, <2>2, <2>5 DEF InUse, At
  <2>8. \A rel : Installed(rel)' <=> Installed(rel)  BY <2>1 DEF Installed
  <2>9. ReliedOK'  BY <1>0, <2>2, <2>7, <2>8 DEF ReliedOK
  <2>10. SchemaOK(db') /\ RunsOK' /\ PointersOK' /\ BackupsOK'
    BY <1>0, <2>1, <2>2, RunsKept, PointersKept, BackupsKept
  <2>11. QED  BY <2>6, <2>9, <2>10 DEF IInv
\* A step of the boot goes on, or ends the process.
<1>7. ASSUME NEW from \in ats \ {"off"}, NEW may, NEW to \in Svcs, Booting(from, may, to),
             to.release = svc.release, to.pool # "ended"
      PROVE  IInv'
  <2>1. /\ svc.at = from /\ (svc' = to \/ svc' = Down)
        /\ UNCHANGED <<db, deploy, call, lost, store, pointers, repair>>
    BY <1>7 DEF Booting
  <2>2. CASE svc' = Down  BY <1>2, <1>3, <1>4, <2>1, <2>2
  <2>3. CASE svc' = to
    <3>1. ServiceOK'  BY <1>1, <1>7, <2>1, <2>3 DEF ServiceOK
    <3>2. QED  BY <1>2, <1>7, <2>1, <2>3, <3>1
  <2>4. QED  BY <2>1, <2>2, <2>3
<1>8. CASE ReadConfig
  <2>1. PICK env \in Environments :
          Booting("boot", loadConfig(env), [svc EXCEPT !.at = "bucket", !.pool = "open", !.storage = "open"])
    BY <1>8 DEF ReadConfig
  <2> DEFINE to == [svc EXCEPT !.at = "bucket", !.pool = "open", !.storage = "open"]
  <2>2. to \in Svcs /\ to.release = svc.release /\ to.pool = "open"  BY <1>1
  <2> HIDE DEF to
  <2>3. Booting("boot", loadConfig(env), to)  BY <2>1 DEF to
  <2>4. QED  BY <1>7, <2>2, <2>3
<1>9. ASSUME NEW from \in {"bucket", "listening"}, NEW at \in {"listening", "serving"},
             Booting(from, TRUE, [svc EXCEPT !.at = at])
      PROVE  IInv'
  <2>1. svc.at = from  BY <1>9 DEF Booting
  <2> DEFINE to == [svc EXCEPT !.at = at]
  <2>2. to \in Svcs /\ to.release = svc.release /\ to.pool = svc.pool  BY <1>1
  <2> HIDE DEF to
  <2>3. Booting(from, TRUE, to)  BY <1>9 DEF to
  <2>4. to.pool # "ended"  BY <1>1, <2>1, <2>2
  <2>5. QED  BY <1>7, <2>2, <2>3, <2>4
<1>10. CASE verifyBucket \/ Registered
  BY <1>9, <1>10 DEF verifyBucket, Registered
<1>11. CASE Crash \/ Deadline
  <2>1. svc' = Down /\ call' = "none" /\ UNCHANGED <<db, deploy, lost, store, pointers, repair>>
    BY <1>11 DEF Crash, Deadline, Killed
  <2>2. QED  BY <1>2, <1>3, <1>4, <2>1
<1>12. CASE Signal
  <2>1. /\ UNCHANGED <<db, deploy, lost, store, pointers, repair>>
        /\ \/ svc.at = "serving" /\ svc' = [svc EXCEPT !.at = "closing"] /\ UNCHANGED call
           \/ svc' = Down /\ call' = "none"
    BY <1>12 DEF Signal, Killed
  <2>2. CASE svc' = Down /\ call' = "none"  BY <1>2, <1>3, <1>4, <2>1, <2>2
  <2>3. CASE svc.at = "serving" /\ svc' = [svc EXCEPT !.at = "closing"] /\ UNCHANGED call
    <3>1. svc' \in Svcs /\ svc'.release = svc.release /\ svc'.pool = svc.pool  BY <1>1, <2>3
    <3>2. ServiceOK'  BY <1>1, <2>1, <2>3, <3>1 DEF ServiceOK
    <3>3. QED  BY <1>2, <2>1, <2>3, <3>1, <3>2
  <2>4. QED  BY <2>1, <2>2, <2>3
<1>13. CASE CloseApp
  <2>1. PICK failed \in BOOLEAN :
          svc' = [svc EXCEPT !.at = "ending", !.pool = "ended", !.failed = failed]
    BY <1>13 DEF CloseApp
  <2>2. /\ svc.at = "closing" /\ call # "connected"
        /\ UNCHANGED <<db, deploy, call, lost, store, pointers, repair>>
    BY <1>13 DEF CloseApp
  <2>3. svc' \in Svcs /\ svc'.release = svc.release /\ svc'.at = "ending"  BY <1>1, <2>1
  <2>4. ServiceOK'  BY <1>1, <2>2, <2>3 DEF ServiceOK
  <2>5. QED  BY <1>2, <2>2, <2>3, <2>4
<1>14. CASE EndPool
  <2>1. PICK failed \in BOOLEAN :
          svc' = [svc EXCEPT !.at = "ended", !.storage = "destroyed", !.failed = @ \/ failed]
    BY <1>14 DEF EndPool
  <2>2. svc.at = "ending" /\ UNCHANGED <<db, deploy, call, lost, store, pointers, repair>>
    BY <1>14 DEF EndPool
  <2>3. (svc.failed \/ failed) \in BOOLEAN  OBVIOUS
  <2>4. svc' \in Svcs /\ svc'.release = svc.release /\ svc'.at = "ended" /\ svc'.pool = svc.pool
    BY <1>1, <2>1, <2>3
  <2>5. ServiceOK'  BY <1>1, <2>2, <2>4 DEF ServiceOK
  <2>6. QED  BY <1>2, <2>2, <2>4, <2>5
<1>15. CASE Exit
  <2>1. svc' = Down /\ UNCHANGED <<db, deploy, call, lost, store, pointers, repair>>
    BY <1>15 DEF Exit
  <2>2. QED  BY <1>2, <1>3, <1>4, <2>1
<1>16. CASE BeginCall
  <2>1. /\ svc.at \in {"listening", "serving"} /\ call' = "connected"
        /\ UNCHANGED <<db, deploy, svc, lost, store, pointers, repair>>
    BY <1>16 DEF BeginCall
  <2>2. ServiceOK'  BY <1>1, <2>1 DEF ServiceOK
  <2>3. QED  BY <1>2, <1>5, <2>1, <2>2
<1>17. CASE ClientLeaves
  <2>1. call' = "left" /\ UNCHANGED <<db, deploy, svc, lost, store, pointers, repair>>
    BY <1>17 DEF ClientLeaves
  <2>2. ServiceOK'  BY <1>1, <2>1 DEF ServiceOK
  <2>3. QED  BY <1>2, <1>5, <2>1, <2>2
<1>18. CASE EndCall
  <2>1. /\ call' = "none" /\ UNCHANGED <<db, deploy, svc, store, pointers, repair>>
        /\ lost' = IF svc.pool = "ended" THEN lost \cup {call} ELSE lost
    BY <1>18 DEF EndCall
  <2>2. "connected" \notin lost'  BY <1>1, <2>1
  <2>3. ServiceOK'  BY <1>1, <2>1, <2>2 DEF ServiceOK
  <2>4. QED  BY <1>2, <1>5, <2>1, <2>3
<1>19. QED
  BY <1>6, <1>8, <1>10, <1>11, <1>12, <1>13, <1>14, <1>15, <1>16, <1>17, <1>18 DEF ServiceMove

-----------------------------------------------------------------------------
(***************************************************************************)
(* The photographs' rows, and the check of what they point to.             *)
(***************************************************************************)

\* The owner's removals, and the steps of the check.
PointerMove ==
    \/ \E m \in Media : OwnerRemoves(m) \/ HeadRow(m)
    \/ (\E hide \in BOOLEAN : StartCheck(hide)) \/ FinishCheck

\* A step on the pointers keeps the invariant: a removal hides the row first,
\* and the check hides only what it asked for and did not find.
LEMMA NextPointers == ASSUME IInv, PointerMove PROVE IInv'
<1>0. /\ SchemaOK(db) /\ RunsOK /\ ReliedOK /\ ServiceOK /\ PointersOK /\ BackupsOK
  BY DEF IInv
<1> DEFINE Checks == [at : {"off", "heads"}, hide : BOOLEAN, todo : SUBSET Media,
                      missing : SUBSET Media, clean : BOOLEAN]
<1>1. /\ rows \in Rows /\ objects \subseteq Media /\ landed \in BOOLEAN /\ check \in Checks
      /\ landed => \A m \in Media : rows[m] = "ready" => m \in objects
      /\ \A m \in Media : rows[m] = "hidden" => m \notin objects
      /\ check.at = "off" => check.todo = {}
      /\ check.missing \cap objects = {}
      /\ check.at = "heads" =>
           /\ db.tables
           /\ \A m \in Media : rows[m] = "ready" => m \in check.todo \cup check.missing \cup objects
  BY <1>0 DEF PointersOK
\* The pointers and the check, and nothing else, are moved.
<1>2. ASSUME UNCHANGED <<db, deploy, process, store, recovery>>, objects' \subseteq objects, PointersOK'
      PROVE  IInv'
  <2>1. UNCHANGED <<lock, run, current, script, svc>>  BY <1>2 DEF deploy, process
  <2>2. RunsOK' /\ ReliedOK' /\ ServiceOK' /\ BackupsOK'
    BY <1>0, <1>2, <2>1, RunsKept, ReliedKept, ServiceKept, BackupsKept
  <2>3. SchemaOK(db')  BY <1>0, <1>2
  <2>4. QED  BY <1>2, <2>2, <2>3 DEF IInv
<1>3. NoCheck \in Checks /\ NoCheck.at = "off" /\ NoCheck.todo = {} /\ NoCheck.missing = {}
  BY DEF NoCheck
<1>4. ASSUME NEW m \in Media, OwnerRemoves(m) PROVE IInv'
  <2>1. UNCHANGED <<db, deploy, process, store, recovery, check, landed>>
    BY <1>4 DEF OwnerRemoves, repair
  <2>2. CASE rows[m] = "ready" /\ rows' = [rows EXCEPT ![m] = "removed"] /\ UNCHANGED objects
    <3>1. rows' \in Rows /\ \A n \in Media : rows'[n] # "removed" => rows'[n] = rows[n]
      BY <1>1, <2>2 DEF Rows
    <3>2. PointersOK'  BY <1>1, <2>1, <2>2, <3>1 DEF PointersOK
    <3>3. QED  BY <1>2, <2>1, <2>2, <3>2
  <2>3. CASE rows[m] = "removed" /\ objects' = objects \ {m} /\ UNCHANGED rows
    <3>1. \A n \in Media : rows[n] = "ready" => n # m  BY <2>3
    <3>2. PointersOK'  BY <1>1, <2>1, <2>3, <3>1 DEF PointersOK
    <3>3. QED  BY <1>2, <2>1, <2>3, <3>2
  <2>4. CASE rows' = [rows EXCEPT ![m] = "none"] /\ UNCHANGED objects
    <3>1. rows' \in Rows /\ \A n \in Media : rows'[n] # "none" => rows'[n] = rows[n]
      BY <1>1, <2>4 DEF Rows
    <3>2. PointersOK'  BY <1>1, <2>1, <2>4, <3>1 DEF PointersOK
    <3>3. QED  BY <1>2, <2>1, <2>4, <3>2
  <2>5. QED  BY <1>4, <2>2, <2>3, <2>4 DEF OwnerRemoves
<1>5. ASSUME NEW hide \in BOOLEAN, StartCheck(hide) PROVE IInv'
  <2> DEFINE ready == {m \in Media : rows[m] = "ready"}
             clean == hide \/ \E m \in Media : rows[m] = "ready"
  <2>1. /\ db.tables /\ UNCHANGED <<db, deploy, process, store, recovery, landed>> /\ UNCHANGED pointers
        /\ check' = [NoCheck EXCEPT !.at = "heads", !.hide = hide, !.todo = ready, !.clean = clean]
    BY <1>5 DEF StartCheck
  <2>2. clean \in BOOLEAN /\ ready \in SUBSET Media  OBVIOUS
  <2>3. check' = [at |-> "heads", hide |-> hide, todo |-> ready, missing |-> {}, clean |-> clean]
    BY <2>1 DEF NoCheck
  <2> HIDE DEF clean
  <2>4. check' \in Checks /\ check'.at = "heads" /\ check'.todo = ready /\ check'.missing = {}
    BY <2>2, <2>3
  <2>5. UNCHANGED <<rows, objects>>  BY <2>1 DEF pointers
  <2>6. PointersOK'  BY <1>1, <2>1, <2>4, <2>5 DEF PointersOK
  <2>7. QED  BY <1>2, <2>1, <2>5, <2>6
<1>6. ASSUME NEW m \in Media, HeadRow(m) PROVE IInv'
  <2>1. /\ m \in check.todo /\ UNCHANGED <<db, deploy, process, store, recovery, landed>>
        /\ UNCHANGED pointers
    BY <1>6 DEF HeadRow
  <2>2. UNCHANGED <<rows, objects>> /\ check.at = "heads"  BY <1>1, <2>1 DEF pointers
  <2>3. \/ check' = NoCheck
        \/ m \in objects /\ check' = [check EXCEPT !.todo = @ \ {m}]
        \/ m \in objects /\ check' = [check EXCEPT !.todo = @ \ {m}, !.clean = FALSE]
        \/ m \notin objects /\ check' = [check EXCEPT !.todo = @ \ {m}, !.missing = @ \cup {m}]
    <3>1. CASE m \in objects  BY <1>6, <3>1 DEF HeadRow
    <3>2. CASE m \notin objects  BY <1>6, <3>2 DEF HeadRow
    <3>3. QED  BY <3>1, <3>2
  <2>4. CASE check' = NoCheck
    <3>1. PointersOK'  BY <1>1, <1>3, <2>1, <2>2, <2>4 DEF PointersOK
    <3>2. QED  BY <1>2, <2>1, <2>2, <3>1
  <2>5. CASE m \in objects /\ \/ check' = [check EXCEPT !.todo = @ \ {m}]
                              \/ check' = [check EXCEPT !.todo = @ \ {m}, !.clean = FALSE]
    <3>1. /\ check' \in Checks /\ check'.at = check.at /\ check'.todo = check.todo \ {m}
          /\ check'.missing = check.missing
      BY <1>1, <2>5
    <3>2. PointersOK'  BY <1>1, <2>1, <2>2, <2>5, <3>1 DEF PointersOK
    <3>3. QED  BY <1>2, <2>1, <2>2, <3>2
  <2>6. CASE m \notin objects /\ check' = [check EXCEPT !.todo = @ \ {m}, !.missing = @ \cup {m}]
    <3>1. /\ check' \in Checks /\ check'.at = check.at /\ check'.todo = check.todo \ {m}
          /\ check'.missing = check.missing \cup {m}
      BY <1>1, <2>6
    <3>2. PointersOK'  BY <1>1, <2>1, <2>2, <2>6, <3>1 DEF PointersOK
    <3>3. QED  BY <1>2, <2>1, <2>2, <3>2
  <2>7. QED  BY <2>3, <2>4, <2>5, <2>6
<1>7. CASE FinishCheck
  <2> DEFINE hidden == {m \in check.missing : check.hide /\ rows[m] = "ready"}
             passed == landed \/ (check.clean /\ check.missing \subseteq hidden)
  <2>1. /\ check.at = "heads" /\ check.todo = {} /\ check' = NoCheck
        /\ UNCHANGED <<db, deploy, process, store, objects, recovery>>
        /\ rows' = [m \in Media |-> IF m \in hidden THEN "hidden" ELSE rows[m]]
        /\ landed' = passed
    BY <1>7 DEF FinishCheck
  <2>2. passed \in BOOLEAN  BY <1>1
  <2>3. rows' \in Rows /\ \A m \in Media : rows'[m] = IF m \in hidden THEN "hidden" ELSE rows[m]
    BY <1>1, <2>1 DEF Rows
  <2>4. \A m \in hidden : m \notin objects  BY <1>1
  <2>5. passed => \A m \in Media : rows'[m] = "ready" => m \in objects
    BY <1>1, <2>1, <2>3
  <2>6. \A m \in Media : rows'[m] = "hidden" => m \notin objects  BY <1>1, <2>3, <2>4
  <2> HIDE DEF passed
  <2>7. PointersOK'  BY <1>1, <1>3, <2>1, <2>2, <2>3, <2>5, <2>6 DEF PointersOK
  <2>8. QED  BY <1>2, <2>1, <2>7
<1>8. QED  BY <1>4, <1>5, <1>6, <1>7 DEF PointerMove

-----------------------------------------------------------------------------
(***************************************************************************)
(* The backups.                                                            *)
(***************************************************************************)

\* When a backup goes, one that is not older than it has as many newer ones as
\* before.
LEMMA SparedStays ==
    ASSUME NEW keys, IsFiniteSet(keys), \A k \in keys : k.at \in Int,
           NEW gone \in keys, NEW j \in keys, j.at <= gone.at, Spared(gone, keys), Spared(j, keys),
           KeepMin \in Nat
    PROVE  Spared(j, keys \ {gone})
<1>1. Newer(gone, keys) \subseteq Newer(j, keys \ {gone})
  <2>1. ASSUME NEW k \in Newer(gone, keys) PROVE k \in Newer(j, keys \ {gone})
    <3>1. k \in keys /\ parseBackupKey(k) /\ k.at > gone.at  BY <2>1 DEF Newer, Backups
    <3>2. k # gone /\ k.at > j.at  BY <3>1
    <3>3. QED  BY <3>1, <3>2 DEF Newer, Backups
  <2>2. QED  BY <2>1
<1>2. IsFiniteSet(Newer(j, keys \ {gone}))
  <2>1. Newer(j, keys \ {gone}) \subseteq keys  BY DEF Newer, Backups
  <2>2. QED  BY <2>1, FS_Subset
<1>3. /\ IsFiniteSet(Newer(gone, keys))
      /\ Cardinality(Newer(gone, keys)) <= Cardinality(Newer(j, keys \ {gone}))
  BY <1>1, <1>2, FS_Subset
<1>4. Cardinality(Newer(gone, keys)) \in Nat /\ Cardinality(Newer(j, keys \ {gone})) \in Nat
  BY <1>2, <1>3, FS_CardinalityType
<1>5. parseBackupKey(j) /\ Cardinality(Newer(gone, keys)) >= KeepMin  BY DEF Spared
<1>6. QED  BY <1>3, <1>4, <1>5 DEF Spared

\* Its steps.
BackupMove == Dump \/ Put \/ Select \/ Prune

\* The backup's step keeps the invariant: what it has selected stays superfluous
\* while it deletes, the newest of it first.
LEMMA NextBackups == ASSUME IInv, BackupMove PROVE IInv'
<1>0. /\ SchemaOK(db) /\ RunsOK /\ ReliedOK /\ ServiceOK /\ PointersOK /\ BackupsOK
  BY DEF IInv
<1>1. /\ IsFiniteSet(bucket) /\ day \in Nat
      /\ \A k \in bucket : k.at = Unnamed \/ CopyOK(k, objects)
      /\ DOMAIN job = {"at", "copy", "doomed"} /\ job.at \in {"off", "dumped", "put", "pruning"}
      /\ job.at \in {"dumped", "put"} => CopyOK(job.copy, objects)
      /\ job.at = "pruning" => job.doomed \subseteq bucket /\ \A k \in job.doomed : Spared(k, bucket)
      /\ DOMAIN recovery = {"at", "copy"} /\ recovery.at \in {"off", "fetched", "empty"}
      /\ recovery.at # "off" => CopyOK(recovery.copy, objects)
  BY <1>0 DEF BackupsOK
\* The bucket, the day and the job, and nothing else, are moved.
<1>2. ASSUME UNCHANGED <<db, deploy, process, pointers, repair>>, BackupsOK' PROVE IInv'
  <2>1. UNCHANGED <<lock, run, current, script, svc, check, landed>>
    BY <1>2 DEF deploy, process, repair
  <2>2. SchemaOK(db') /\ RunsOK' /\ ReliedOK' /\ ServiceOK' /\ PointersOK'
    BY <1>0, <1>2, <2>1, RunsKept, ReliedKept, ServiceKept, PointersKept
  <2>3. QED  BY <1>2, <2>2 DEF IInv
<1>3. NoJob.at = "off" /\ DOMAIN NoJob = {"at", "copy", "doomed"}  BY DEF NoJob
<1>4. CASE Dump
  <2>1. /\ db.tables /\ day' \in day + 1 .. MaxDay
        /\ job' = [NoJob EXCEPT !.at = "dumped", !.copy = [at |-> day', db |-> db, rows |-> rows]]
        /\ UNCHANGED <<db, deploy, process, bucket, pointers, repair>>
    BY <1>4 DEF Dump
  <2>2. /\ job'.at = "dumped" /\ job'.copy = [at |-> day', db |-> db, rows |-> rows]
        /\ DOMAIN job' = {"at", "copy", "doomed"}
    BY <2>1, <1>3 DEF NoJob
  <2>3. day' \in Nat  BY <1>1, <2>1
  <2>4. UNCHANGED <<recovery, objects>>  BY <2>1 DEF repair, pointers
  <2>5. CopyOK(job'.copy, objects)
    BY <1>0, <2>1, <2>2, <2>3 DEF CopyOK, PointersOK
  <2>6. BackupsOK'  BY <1>1, <2>1, <2>2, <2>3, <2>4, <2>5 DEF BackupsOK
  <2>7. QED  BY <1>2, <2>1, <2>6
<1>5. CASE Put
  <2>1. job.at = "dumped" /\ UNCHANGED <<db, deploy, process, day, pointers, repair>>
    BY <1>5 DEF Put
  <2>2. bucket' \in {bucket, bucket \cup {job.copy}}  BY <1>5 DEF Put
  <2>3. job' = NoJob \/ job' = [job EXCEPT !.at = "put"]  BY <1>5 DEF Put
  <2>4. UNCHANGED <<recovery, objects>>  BY <2>1 DEF repair, pointers
  <2>5. IsFiniteSet(bucket')  BY <1>1, <2>2, FS_AddElement
  <2>6. CopyOK(job.copy, objects)  BY <1>1, <2>1
  <2>7. \A k \in bucket' : k.at = Unnamed \/ CopyOK(k, objects)  BY <1>1, <2>2, <2>6
  <2>8. /\ job'.at \in {"off", "put"} /\ DOMAIN job' = {"at", "copy", "doomed"}
        /\ job'.at = "put" => CopyOK(job'.copy, objects)
    <3>1. CASE job' = NoJob  BY <1>3, <3>1
    <3>2. CASE job' = [job EXCEPT !.at = "put"]
      <4>1. /\ job'.copy = job.copy /\ job'.at \in {"off", "put"}
            /\ DOMAIN job' = {"at", "copy", "doomed"}
        BY <1>1, <3>2
      <4>2. QED  BY <2>6, <4>1
    <3>3. QED  BY <2>3, <3>1, <3>2
  <2>9. BackupsOK'  BY <1>1, <2>1, <2>4, <2>5, <2>7, <2>8 DEF BackupsOK
  <2>10. QED  BY <1>2, <2>1, <2>9
<1>6. CASE Select
  <2>1. /\ job' = [NoJob EXCEPT !.at = "pruning", !.doomed = selectForDeletion(bucket, day)]
        /\ UNCHANGED <<db, deploy, process, bucket, day, pointers, repair>>
    BY <1>6 DEF Select
  <2>2. /\ job'.at = "pruning" /\ job'.doomed = selectForDeletion(bucket, day)
        /\ DOMAIN job' = {"at", "copy", "doomed"}
    BY <2>1, <1>3 DEF NoJob
  <2>3. UNCHANGED <<recovery, objects>>  BY <2>1 DEF repair, pointers
  <2>4. /\ selectForDeletion(bucket, day) \subseteq bucket
        /\ \A k \in selectForDeletion(bucket, day) : Spared(k, bucket)
    BY DEF selectForDeletion, Spared, Backups
  <2>5. BackupsOK'  BY <1>1, <2>1, <2>2, <2>3, <2>4 DEF BackupsOK
  <2>6. QED  BY <1>2, <2>1, <2>5
<1>7. CASE Prune
  <2>1. job.at = "pruning" /\ UNCHANGED <<db, deploy, process, day, pointers, repair>>
    BY <1>7 DEF Prune
  <2>2. UNCHANGED <<recovery, objects>>  BY <2>1 DEF repair, pointers
  <2>3. CASE UNCHANGED bucket /\ job' = NoJob
    <3>1. BackupsOK'  BY <1>1, <1>3, <2>1, <2>2, <2>3 DEF BackupsOK
    <3>2. QED  BY <1>2, <2>1, <3>1
  <2>4. ASSUME NEW k \in job.doomed, \A j \in job.doomed : j.at <= k.at,
               bucket' = bucket \ {k}, job' = [job EXCEPT !.doomed = @ \ {k}]
        PROVE  IInv'
    <3>1. /\ job'.at = "pruning" /\ job'.doomed = job.doomed \ {k}
          /\ DOMAIN job' = {"at", "copy", "doomed"}
      BY <1>1, <2>1, <2>4
    <3>2. IsFiniteSet(bucket')  BY <1>1, <2>4, FS_Subset
    <3>3. \A j \in bucket : j.at \in Int  BY <1>1 DEF CopyOK, Unnamed
    <3>4. \A j \in job.doomed \ {k} : Spared(j, bucket')
      <4>1. KeepMin \in Nat  BY RetentionAssumption
      <4>2. QED  BY <1>1, <2>1, <2>4, <3>3, <4>1, SparedStays
    <3>5. BackupsOK'  BY <1>1, <2>1, <2>2, <2>4, <3>1, <3>2, <3>4 DEF BackupsOK
    <3>6. QED  BY <1>2, <2>1, <3>5
  <2>5. QED  BY <1>7, <2>3, <2>4 DEF Prune
<1>8. QED  BY <1>4, <1>5, <1>6, <1>7 DEF BackupMove

-----------------------------------------------------------------------------
(***************************************************************************)
(* A lost server, and its recovery.                                        *)
(***************************************************************************)

\* Its steps.
RecoveryMove == ServerLost \/ Recover \/ RefuseOrGoOn \/ Restore

\* The recovery's step keeps the invariant: it restores where there are no
\* tables, and there nothing relies on any.
LEMMA NextRecovery == ASSUME IInv, RecoveryMove PROVE IInv'
<1>0. /\ SchemaOK(db) /\ RunsOK /\ ReliedOK /\ ServiceOK /\ PointersOK /\ BackupsOK
  BY DEF IInv
<1>1. /\ IsFiniteSet(bucket) /\ day \in Nat
      /\ \A k \in bucket : k.at = Unnamed \/ CopyOK(k, objects)
      /\ DOMAIN job = {"at", "copy", "doomed"} /\ job.at \in {"off", "dumped", "put", "pruning"}
      /\ job.at \in {"dumped", "put"} => CopyOK(job.copy, objects)
      /\ job.at = "pruning" => job.doomed \subseteq bucket /\ \A k \in job.doomed : Spared(k, bucket)
      /\ DOMAIN recovery = {"at", "copy"} /\ recovery.at \in {"off", "fetched", "empty"}
      /\ recovery.at # "off" => CopyOK(recovery.copy, objects)
  BY <1>0 DEF BackupsOK
<1>2. NoRecovery.at = "off" /\ DOMAIN NoRecovery = {"at", "copy"}  BY DEF NoRecovery
\* Only the recovery's own place is moved.
<1>3. ASSUME UNCHANGED <<db, deploy, process, store, pointers, check, landed>>, BackupsOK' PROVE IInv'
  <2>1. UNCHANGED <<lock, run, current, script, svc>>  BY <1>3 DEF deploy, process
  <2>2. SchemaOK(db') /\ RunsOK' /\ ReliedOK' /\ ServiceOK' /\ PointersOK'
    BY <1>0, <1>3, <2>1, RunsKept, ReliedKept, ServiceKept, PointersKept
  <2>3. QED  BY <1>3, <2>2 DEF IInv
<1>4. CASE ServerLost
  <2>1. /\ db' = EmptyDb /\ rows' = [m \in Media |-> "none"]
        /\ lock' = None /\ run' = [r \in Runners |-> Idle] /\ script' = NoScript /\ current' = NoLinks
        /\ svc' = Down /\ call' = "none" /\ job' = NoJob
        /\ recovery' = NoRecovery /\ check' = NoCheck /\ landed' = FALSE
        /\ UNCHANGED <<lost, bucket, day, objects>>
    BY <1>4 DEF ServerLost
  <2>2. SchemaOK(db')  BY <2>1, EmptyOK
  <2>3. RunsOK'
    <3>1. run' \in [Runners -> Runs]  BY <2>1 DEF Runs, Idle, Running
    <3>2. \A r \in Runners : run'[r].at = "off" /\ lock' # r
      BY <2>1 DEF Idle, Runners, None
    <3>3. QED  BY <2>1, <3>1, <3>2 DEF RunsOK, Running, Holding
  <2>4. ReliedOK'
    <3>1. script' \in Scripts /\ script'.at = "off"  BY <2>1 DEF NoScript, Scripts
    <3>2. current' \in [api : Releases \cup {None}, app : Releases \cup {None}] /\ current'.api = None
      BY <2>1 DEF NoLinks
    <3>3. svc'.at = "off"  BY <2>1 DEF Down
    <3>4. \A rel : ~InUse(rel)'  BY <3>1, <3>2, <3>3 DEF InUse, Switching
    <3>5. QED  BY <3>1, <3>2, <3>4 DEF ReliedOK
  <2>5. ServiceOK'
    <3>1. svc' \in [at : {"off"}, release : {None}, pool : {"none"}, storage : {"none"},
                     failed : BOOLEAN]
      BY <2>1 DEF Down
    <3>2. QED  BY <1>0, <2>1, <3>1 DEF ServiceOK
  <2>6. PointersOK'
    <3>1. rows' \in Rows /\ \A m \in Media : rows'[m] = "none"  BY <2>1 DEF Rows
    <3>2. QED  BY <1>0, <2>1, <3>1 DEF PointersOK, NoCheck
  <2>7. BackupsOK'
    <3>1. job'.at = "off" /\ DOMAIN job' = {"at", "copy", "doomed"}  BY <2>1 DEF NoJob
    <3>2. QED  BY <1>1, <1>2, <2>1, <3>1 DEF BackupsOK
  <2>8. QED  BY <2>2, <2>3, <2>4, <2>5, <2>6, <2>7 DEF IInv
<1>5. CASE Recover
  <2>1. PICK k \in Latest(bucket) \cup Backups(bucket) : recovery' = [at |-> "fetched", copy |-> k]
    BY <1>5 DEF Recover
  <2>2. UNCHANGED <<db, deploy, process, store, pointers, check, landed>>  BY <1>5 DEF Recover
  <2>3. k \in bucket /\ k.at # Unnamed  BY <2>1 DEF Latest, Backups, parseBackupKey
  <2>4. CopyOK(k, objects)  BY <1>1, <2>3
  <2>5. UNCHANGED <<bucket, day, job>> /\ UNCHANGED objects  BY <2>2 DEF store, pointers
  <2>6. /\ recovery'.at = "fetched" /\ recovery'.copy = k /\ DOMAIN recovery' = {"at", "copy"}
    BY <2>1
  <2>7. BackupsOK'  BY <1>1, <2>4, <2>5, <2>6 DEF BackupsOK
  <2>8. QED  BY <1>3, <2>2, <2>7
<1>6. CASE RefuseOrGoOn
  <2>1. /\ recovery.at = "fetched"
        /\ recovery' = NoRecovery \/ recovery' = [recovery EXCEPT !.at = "empty"]
        /\ UNCHANGED <<db, deploy, process, store, pointers, check, landed>>
    BY <1>6 DEF RefuseOrGoOn
  <2>2. UNCHANGED <<bucket, day, job>> /\ UNCHANGED objects  BY <2>1 DEF store, pointers
  <2>3. /\ DOMAIN recovery' = {"at", "copy"} /\ recovery'.at \in {"off", "empty"}
        /\ recovery'.at # "off" => recovery'.copy = recovery.copy
    <3>1. CASE recovery' = NoRecovery  BY <1>2, <3>1
    <3>2. CASE recovery' = [recovery EXCEPT !.at = "empty"]  BY <1>1, <3>2
    <3>3. QED  BY <2>1, <3>1, <3>2
  <2>4. BackupsOK'  BY <1>1, <2>1, <2>2, <2>3 DEF BackupsOK
  <2>5. QED  BY <1>3, <2>1, <2>4
<1>7. CASE Restore
  <2> DEFINE copy == recovery.copy
  <2>1. /\ recovery.at = "empty" /\ recovery' = NoRecovery
        /\ UNCHANGED <<deploy, process, store, objects, check>>
        /\ \/ UNCHANGED <<db, rows, landed>>
           \/ /\ ~db.tables /\ db' \in Partly(copy) \cup {copy.db}
              /\ rows' \in {rows, copy.rows} /\ landed' = FALSE
    BY <1>7 DEF Restore
  <2>2. UNCHANGED <<lock, run, current, script, svc, bucket, day, job>>
    BY <2>1 DEF deploy, process, store
  <2>3. CopyOK(copy, objects)  BY <1>1, <2>1
  <2> HIDE DEF copy
  <2>4. BackupsOK'  BY <1>1, <1>2, <2>1, <2>2 DEF BackupsOK
  <2>5. ServiceOK'  BY <1>0, <2>1, ServiceKept
  <2>6. CASE UNCHANGED <<db, rows, landed>>
    <3>1. UNCHANGED <<db, deploy, process, store, pointers, check, landed>>
      BY <2>1, <2>6 DEF pointers
    <3>2. QED  BY <1>3, <2>4, <3>1
  <2>7. CASE /\ ~db.tables /\ db' \in Partly(copy) \cup {copy.db}
             /\ rows' \in {rows, copy.rows} /\ landed' = FALSE
    <3>1. SchemaOK(db') /\ db'.tables
      <4>1. SchemaOK(copy.db) /\ copy.db.tables  BY <2>3 DEF CopyOK
      <4>2. CASE db' = copy.db  BY <4>1, <4>2
      <4>3. CASE db' \in Partly(copy)  BY <4>1, <4>3, PartlyOK
      <4>4. QED  BY <2>7, <4>2, <4>3
    <3>2. \A r \in Runners : run[r].at \notin {"next", "texted"}
      BY <1>0, <2>7 DEF RunsOK, Applies
    <3>3. RunsOK'  BY <1>0, <2>2, <3>2 DEF RunsOK
    <3>4. \A rel \in Releases \cup {None} : ~InUse(rel)
      BY <1>0, <2>7, InstalledIsApplied DEF ReliedOK
    <3>5. \A rel \in Releases \cup {None} : ~InUse(rel)'
      BY <2>2, <3>4 DEF InUse, At
    <3>6. ReliedOK'  BY <1>0, <2>2, <3>5 DEF ReliedOK
    <3>7. check.at = "off"  BY <1>0, <2>7 DEF PointersOK
    <3>8. copy.rows \in Rows /\ \A m \in Media : copy.rows[m] = "hidden" => m \notin objects
      BY <2>3 DEF CopyOK
    <3>9. PointersOK'
      <4>1. CASE rows' = rows  BY <1>0, <2>1, <2>7, <3>1, <3>7, <4>1 DEF PointersOK
      <4>2. CASE rows' = copy.rows
        BY <1>0, <2>1, <2>7, <3>1, <3>7, <3>8, <4>2 DEF PointersOK
      <4>3. QED  BY <2>7, <4>1, <4>2
    <3>10. QED  BY <2>4, <2>5, <3>1, <3>3, <3>6, <3>9 DEF IInv
  <2>8. QED  BY <2>1, <2>6, <2>7
<1>8. QED  BY <1>4, <1>5, <1>6, <1>7 DEF RecoveryMove

-----------------------------------------------------------------------------
(***************************************************************************)
(* Every step, and what follows.                                           *)
(***************************************************************************)

\* The invariant is inductive.
LEMMA NextIInv == IInv /\ [Next]_vars => IInv'
<1> SUFFICES ASSUME IInv, [Next]_vars PROVE IInv'  OBVIOUS
<1>1. CASE UNCHANGED vars
  <2>1. /\ UNCHANGED <<db, deploy, process, store, pointers, repair>>
        /\ UNCHANGED <<lock, run, current, script, svc, recovery, check, landed>> /\ UNCHANGED objects
    BY <1>1 DEF vars, deploy, process, pointers, repair
  <2>2. QED
    BY <2>1, RunsKept, ReliedKept, ServiceKept, PointersKept, BackupsKept DEF IInv
<1>2. CASE Next
  <2>1. \/ \E rel \in Releases : MigrateByHand(rel)
        \/ \E r \in Runners : \/ TakeLock(r) \/ Plan(r) \/ ApplyText(r)
                              \/ Record(r) \/ AllApplied(r) \/ RunnerDies(r)
        \/ ScriptMove \/ ServiceMove \/ PointerMove \/ BackupMove \/ RecoveryMove
    BY <1>2 DEF Next, ScriptMove, ServiceMove, PointerMove, BackupMove, RecoveryMove
  <2>2. CASE \/ \E rel \in Releases : MigrateByHand(rel)
             \/ \E r \in Runners : \/ TakeLock(r) \/ Plan(r) \/ ApplyText(r)
                                   \/ Record(r) \/ AllApplied(r) \/ RunnerDies(r)
    <3>1. RunnerMove  BY <2>2 DEF RunnerMove
    <3>2. QED  BY <3>1, NextRunners
  <2>3. QED
    BY <2>1, <2>2, NextScript, NextService, NextPointers, NextBackups, NextRecovery
<1>3. QED  BY <1>1, <1>2

\* It holds for ever.
LEMMA AlwaysIInv == Spec => []IInv
<1>1. QED  BY InitIInv, NextIInv, PTL DEF Spec

\* A sequence that begins another is its prefix.
LEMMA BeginsIsPrefix ==
    ASSUME NEW S, NEW s \in Seq(S), NEW t \in Seq(S), Begins(s, t)
    PROVE  IsPrefix(s, t)
<1>1. Len(s) \in Nat /\ Len(t) \in Nat /\ Len(s) <= Len(t)  BY DEF Begins
<1>2. Len(SubSeq(t, 1, Len(s))) = Len(s) /\ SubSeq(t, 1, Len(s)) \in Seq(S)  BY <1>1
<1>3. Len(SubSeq(s, 1, Len(s))) = Len(s) /\ SubSeq(s, 1, Len(s)) \in Seq(S)  BY <1>1
<1>4. \A i \in 1..Len(s) : SubSeq(s, 1, Len(s))[i] = s[i] /\ SubSeq(t, 1, Len(s))[i] = t[i]
  BY <1>1
<1>5. \A i \in 1..Len(s) : s[i] = t[i]  BY DEF Begins
<1>6. SubSeq(s, 1, Len(s)) = SubSeq(t, 1, Len(s))
  BY <1>1, <1>2, <1>3, <1>4, <1>5
<1>7. QED  BY <1>1, <1>6 DEF IsPrefix

\* A build that answers requests finds its migrations recorded, unedited and in
\* order, and what is recorded applied and nothing else, whatever the runners are
\* doing or died doing, and after any release, way back, loss and recovery, one
\* that stopped half way and left files in part too (release.sh, migrate.mjs,
\* recover-server.sh).
THEOREM BuildsFindTheirSchema == Spec => []ServesItsSchema
<1>1. IInv => ServesItsSchema
  <2> SUFFICES ASSUME IInv, svc.at \in {"listening", "serving"}
               PROVE  IsPrefix(Ships[svc.release], db.recorded) /\ AppliedAsRecorded(db)
    BY DEF ServesItsSchema
  <2>1. SchemaOK(db) /\ ReliedOK /\ ServiceOK  BY DEF IInv
  <2>2. InUse(svc.release) /\ svc.release \in Releases \cup {None}
    BY <2>1 DEF InUse, ServiceOK
  <2>3. Installed(svc.release)  BY <2>1, <2>2 DEF ReliedOK
  <2>4. AppliedAsRecorded(db)
    <3>1. Matches(db.schema, db.recorded)  BY <2>1, <2>3, InstalledIsApplied
    <3>2. db.schema \in Seq(Files \cup {Part}) /\ DOMAIN db.schema = 1..Len(db.schema)
      BY <2>1 DEF SchemaOK, Dbs
    <3>3. QED  BY <3>1, <3>2 DEF Matches, AppliedAsRecorded
  <2>5. svc.release \in Releases /\ Begins(Ships[svc.release], db.recorded)
    BY <2>3 DEF Installed
  <2>6. Ships[svc.release] \in Seq(Files) /\ db.recorded \in Seq(Files)
    BY <2>1, <2>5, ShipsMore DEF SchemaOK, Dbs
  <2>7. QED  BY <2>4, <2>5, <2>6, BeginsIsPrefix
<1>2. QED  BY <1>1, AlwaysIInv, PTL

\* After a check that passed, what a recipient can ask for is there, and the check
\* hides nothing that is there, whatever is removed while it asks (media-check.mjs,
\* consistency.mjs).
THEOREM PassedCheckLeavesNoHole == Spec => []PointersLand
<1>1. IInv => PointersLand  BY DEF IInv, PointersOK, PointersLand
<1>2. QED  BY <1>1, AlwaysIInv, PTL

\* An orderly stop takes the pool from no call whose client is still there
\* (shutdown.ts, app.close before pool.end).
THEOREM StopWaitsForClients == Spec => []NoCallLosesItsPool
<1>1. IInv => NoCallLosesItsPool  BY DEF IInv, ServiceOK, NoCallLosesItsPool
<1>2. QED  BY <1>1, AlwaysIInv, PTL

\* Retention deletes no key that is no backup's, and none of the newest KeepMin,
\* though it selects once and deletes for a while (prune.mjs).
THEOREM RetentionKeepsTheNewest == Spec => LastCopiesKept
<1>1. ASSUME IInv, [Next]_vars
      PROVE  [\A k \in bucket \ bucket' : parseBackupKey(k) /\ Cardinality(Newer(k, bucket)) >= KeepMin]_bucket
  <2>1. CASE UNCHANGED bucket  BY <2>1
  <2>2. CASE Put
    <3>1. bucket \subseteq bucket'  BY <2>2 DEF Put
    <3>2. QED  BY <3>1
  <2>3. CASE Prune
    <3>1. job.at = "pruning"  BY <2>3 DEF Prune
    <3>2. \A k \in job.doomed : Spared(k, bucket)  BY <1>1, <3>1 DEF IInv, BackupsOK
    <3>3. \A k \in bucket \ bucket' : k \in job.doomed  BY <2>3 DEF Prune
    <3>4. QED  BY <3>2, <3>3 DEF Spared
  <2>4. UNCHANGED bucket \/ Put \/ Prune
    <3>1. CASE UNCHANGED vars  BY <3>1 DEF vars, store
    <3>2. CASE Next
      <4>1. \A rel : MigrateByHand(rel) \/ StartRelease(rel) => UNCHANGED bucket
        BY DEF MigrateByHand, StartRelease, store
      <4>2. \A r : TakeLock(r) \/ Plan(r) \/ ApplyText(r) \/ Record(r) \/ AllApplied(r) \/ RunnerDies(r)
                     => UNCHANGED bucket
        BY DEF TakeLock, Plan, ApplyText, Record, AllApplied, RunnerDies, store
      <4>3. Migrated \/ SwitchLinks \/ RestartForRelease \/ Healthy \/ NotHealthy \/ ScriptDies
              => UNCHANGED bucket
        BY DEF Migrated, SwitchLinks, Switch, RestartForRelease, Healthy, NotHealthy, ScriptDies, store
      <4>4. ServiceMove => UNCHANGED bucket
        BY DEF ServiceMove, Start, ReadConfig, verifyBucket, Registered, Booting, Crash, Signal,
               CloseApp, EndPool, Exit, Deadline, BeginCall, ClientLeaves, EndCall, store
      <4>5. PointerMove => UNCHANGED bucket
        BY DEF PointerMove, OwnerRemoves, HeadRow, StartCheck, FinishCheck, store
      <4>6. Dump \/ Select => UNCHANGED bucket  BY DEF Dump, Select
      <4>7. RecoveryMove => UNCHANGED bucket
        BY DEF RecoveryMove, ServerLost, Recover, RefuseOrGoOn, Restore, store
      <4>8. QED
        BY <3>2, <4>1, <4>2, <4>3, <4>4, <4>5, <4>6, <4>7
        DEF Next, ServiceMove, PointerMove, RecoveryMove
    <3>3. QED  BY <1>1, <3>1, <3>2
  <2>5. QED  BY <2>1, <2>2, <2>3, <2>4
<1>2. QED  BY <1>1, AlwaysIInv, PTL DEF Spec, LastCopiesKept
=============================================================================
