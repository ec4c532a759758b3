----------------------------- MODULE Operations -----------------------------
(***************************************************************************)
(* The server as its operator sees it: the migration runner, the release   *)
(* script that runs it and switches to a new build, the service's boot and *)
(* shutdown, the nightly backup with its retention, and the recovery of a  *)
(* lost server from the newest backup with the check of its pointers.      *)
(*                                                                         *)
(* A script is a record with the line it has reached, and may die there.   *)
(* What an operator or a failure does is an event; MaxEvents bounds how    *)
(* many of them one behaviour has.                                         *)
(***************************************************************************)
EXTENDS Integers, Sequences, FiniteSets, SequencesExt

CONSTANTS Media, KeepMin, RetentionDays, MaxDay, MaxEvents

ASSUME RetentionAssumption == KeepMin \in Nat \ {0} /\ RetentionDays \in Nat \ {0}

None == "none"
Runners == {"release", "hand"}     \* release.sh's run, and pnpm db:migrate

\* What each build ships in migrations/: the successor of what is in service,
\* one that edited an applied file, and one whose file takes the transaction
\* over. A file is its bytes; its version is its place.
Ships == [old      |-> <<"001", "002">>,
          new      |-> <<"001", "002", "003">>,
          edited   |-> <<"001", "002", "003 edited">>,
          careless |-> <<"001", "002", "003", "004 COMMIT">>]
Releases == DOMAIN Ships

VARIABLES
    db,        \* [schema, recorded, tables]: what is committed in the database;
               \* a file of the schema is its bytes, or Part of what they make
    lock,      \* the runner that holds the advisory lock
    run,       \* [runner -> [at, release, todo]]
    current,   \* the two `current` links
    script,    \* release.sh: [at, release, prev]
    svc,       \* the service's process
    call,      \* one upload under way in it: none, connected, left
    lost,      \* its count could not be given back, and no kill explains it
    rows,      \* [medium -> none, ready, removed, hidden]
    objects,   \* the media whose objects are in the media bucket
    bucket,    \* the backup bucket's keys, with what each holds
    day,
    job,       \* backup.sh: [at, copy, doomed]
    recovery,  \* recover.sh: [at, copy]
    check,     \* consistency.mjs: [at, hide, todo, missing, clean]
    landed,    \* a check has passed since the last restore
    events

deploy == <<lock, run, current, script>>
process == <<svc, call, lost>>
store == <<bucket, day, job>>
pointers == <<rows, objects>>
repair == <<recovery, check, landed>>
vars == <<db, deploy, process, store, pointers, repair, events>>

Event == events < MaxEvents /\ events' = events + 1

-----------------------------------------------------------------------------
(***************************************************************************)
(* The migration runner                                                    *)
(***************************************************************************)
Part == "in part"
EmptyDb == [schema |-> <<>>, recorded |-> <<>>, tables |-> FALSE]
Idle == [at |-> "off", release |-> None, todo |-> <<>>]

\* Files 001 and 002 commit themselves; from 003 on the runner wraps them.
FirstWrapped == 3
findTransactionControl(f) == f = "004 COMMIT"

\* The recorded rows are an unbroken, unedited prefix of the directory.
Refuses(files, recorded) ==
    \/ Len(recorded) > Len(files)
    \/ \E i \in DOMAIN recorded : recorded[i] # files[i]
    \/ \E i \in Len(recorded) + 1 .. Len(files) : i >= FirstWrapped /\ findTransactionControl(files[i])

At(r, a) == run[r].at = a
Release(r) == lock' = IF lock = r THEN None ELSE lock
Stop(r, how) == run' = [run EXCEPT ![r] = [Idle EXCEPT !.at = how]] /\ Release(r)

MigrateByHand(rel) ==
    /\ Event
    /\ run["hand"].at \in {"off", "failed", "done"}
    /\ run' = [run EXCEPT !["hand"] = [at |-> "waiting", release |-> rel, todo |-> <<>>]]
    /\ UNCHANGED <<db, lock, current, script, process, store, pointers, repair>>

TakeLock(r) ==
    /\ At(r, "waiting") /\ lock = None
    /\ lock' = r
    /\ run' = [run EXCEPT ![r].at = "locked"]
    /\ UNCHANGED <<db, current, script, process, store, pointers, repair, events>>

\* The directory against the recorded rows; nothing is applied before all of
\* it has been looked at.
Plan(r) ==
    /\ At(r, "locked")
    /\ db' = [db EXCEPT !.tables = TRUE]
    /\ LET files == Ships[run[r].release] IN
       IF Refuses(files, db.recorded) THEN Stop(r, "failed")
       ELSE /\ run' = [run EXCEPT ![r].at = "next",
                                  ![r].todo = SubSeq(files, Len(db.recorded) + 1, Len(files))]
            /\ UNCHANGED lock
    /\ UNCHANGED <<current, script, process, store, pointers, repair, events>>

Version(r) == Len(Ships[run[r].release]) - Len(run[r].todo) + 1

\* BEGIN and the file's text. A text over what it already made fails on its
\* first CREATE; the COMMIT inside an early file commits it here.
ApplyText_Mutant(r) ==
    /\ At(r, "next") /\ run[r].todo # <<>>
    /\ IF Len(db.schema) >= Version(r) THEN Stop(r, "failed") /\ UNCHANGED db
       ELSE /\ run' = [run EXCEPT ![r].at = "texted"]
            /\ db' = [db EXCEPT !.schema = Append(@, Head(run[r].todo))]
            /\ UNCHANGED lock
    /\ UNCHANGED <<current, script, process, store, pointers, repair, events>>
ApplyText(r) ==
    /\ At(r, "next") /\ run[r].todo # <<>>
    /\ IF Len(db.schema) >= Version(r) THEN Stop(r, "failed") /\ UNCHANGED db
       ELSE /\ run' = [run EXCEPT ![r].at = "texted"]
            /\ db' = IF Version(r) < FirstWrapped
                     THEN [db EXCEPT !.schema = Append(@, Head(run[r].todo))] ELSE db
            /\ UNCHANGED lock
    /\ UNCHANGED <<current, script, process, store, pointers, repair, events>>

\* The INSERT that records it, and COMMIT.
Record(r) ==
    /\ At(r, "texted")
    /\ LET f == Head(run[r].todo) IN
       db' = [db EXCEPT !.recorded = Append(@, f),
                        !.schema = IF Len(@) < Version(r) THEN Append(@, f) ELSE @]
    /\ run' = [run EXCEPT ![r].at = "next", ![r].todo = Tail(@)]
    /\ UNCHANGED <<lock, current, script, process, store, pointers, repair, events>>

AllApplied(r) ==
    /\ At(r, "next") /\ run[r].todo = <<>>
    /\ Stop(r, "done")
    /\ UNCHANGED <<db, current, script, process, store, pointers, repair, events>>

\* A query fails or the process dies: an open transaction is rolled back, and
\* the connection's end frees the lock.
RunnerDies(r) ==
    /\ Event
    /\ run[r].at \in {"waiting", "locked", "next", "texted"}
    /\ Stop(r, "failed")
    /\ UNCHANGED <<db, current, script, process, store, pointers, repair>>

-----------------------------------------------------------------------------
(***************************************************************************)
(* release.sh: migrate, switch both links, restart, wait for /health, and  *)
(* switch back when it does not come.                                      *)
(***************************************************************************)
NoScript == [at |-> "off", release |-> None, prev |-> [api |-> None, app |-> None]]

StartRelease(rel) ==
    /\ Event
    /\ script.at = "off" /\ run["release"].at \in {"off", "failed", "done"}
    /\ script' = [NoScript EXCEPT !.at = "migrating", !.release = rel]
    /\ run' = [run EXCEPT !["release"] = [at |-> "waiting", release |-> rel, todo |-> <<>>]]
    /\ UNCHANGED <<db, lock, current, process, store, pointers, repair>>

\* set -e: a runner that failed ends the script before anything is switched.
Migrated ==
    /\ script.at = "migrating" /\ run["release"].at \in {"failed", "done"}
    /\ script' = IF At("release", "done")
                 THEN [script EXCEPT !.at = "switch api", !.prev = current] ELSE NoScript
    /\ UNCHANGED <<db, lock, run, current, process, store, pointers, repair, events>>

Switch(at, which, to, then) ==
    /\ script.at = at
    /\ current' = [current EXCEPT ![which] = to]
    /\ script' = [script EXCEPT !.at = then]
    /\ UNCHANGED <<db, lock, run, process, store, pointers, repair, events>>

SwitchLinks ==
    \/ Switch("switch api", "api", script.release, "switch app")
    \/ Switch("switch app", "app", script.release, "restart")
    \/ Switch("back api", "api", script.prev.api, "back app")
    \/ Switch("back app", "app", script.prev.app, "restart back")

Down == [at |-> "off", release |-> None, pool |-> "none", storage |-> "none", failed |-> FALSE]

InService == [at |-> "serving", release |-> "old", pool |-> "open", storage |-> "open", failed |-> FALSE]

\* systemctl restart starts the process once the old one has gone.
RestartForRelease ==
    /\ script.at \in {"restart", "restart back"}
    /\ svc.at = "off"
    /\ script' = IF script.at = "restart" THEN [script EXCEPT !.at = "health"] ELSE NoScript
    /\ svc' = [Down EXCEPT !.at = "boot", !.release = current.api]
    /\ UNCHANGED <<db, lock, run, current, call, lost, store, pointers, repair, events>>

Healthy ==
    /\ script.at = "health" /\ svc.at \in {"listening", "serving"}
    /\ script' = NoScript
    /\ UNCHANGED <<db, lock, run, current, process, store, pointers, repair, events>>

NotHealthy ==
    /\ script.at = "health"
    /\ script' = IF None \in {script.prev.api, script.prev.app} THEN NoScript
                 ELSE [script EXCEPT !.at = "back api"]
    /\ UNCHANGED <<db, lock, run, current, process, store, pointers, repair, events>>

\* The script is interrupted where it stands; the links stay as they are.
ScriptDies ==
    /\ Event
    /\ script.at \notin {"off", "migrating"}
    /\ script' = NoScript
    /\ UNCHANGED <<db, lock, run, current, process, store, pointers, repair>>

-----------------------------------------------------------------------------
(***************************************************************************)
(* The service: configuration, adapters, bucket, socket, signals           *)
(***************************************************************************)
Required == {"CLIENT_ORIGIN", "VITRINA_SERVER_SECRET", "DATABASE_URL", "S3_ENDPOINT",
             "AWS_DEFAULT_REGION", "S3_BUCKET", "AWS_ACCESS_KEY_ID", "AWS_SECRET_ACCESS_KEY"}
Parsed == {"CLIENT_ORIGIN", "VITRINA_SERVER_SECRET", "S3_ENDPOINT", "SIGNUP_ALLOWLIST", "PORT"}

\* Nothing required has a substitute, and nothing malformed is skipped; an
\* absent allowlist closes signup, and an absent port is 3000.
loadConfig(env) ==
    /\ \A n \in Required : env[n] # "absent"
    /\ \A n \in Parsed : env[n] # "malformed"

\* /etc/vitrina/api.env, with at most one thing wrong in it.
Environments ==
    {[n \in Required \cup Parsed |-> IF n = x THEN v ELSE "usable"] :
        x \in Required \cup Parsed, v \in {"absent", "malformed", "usable"}}

Start ==
    /\ Event
    /\ svc.at = "off" /\ current.api # None
    /\ script.at \notin {"restart", "restart back"}
    /\ svc' = [Down EXCEPT !.at = "boot", !.release = current.api]
    /\ UNCHANGED <<db, deploy, call, lost, store, pointers, repair>>

Booting(from, may, to) ==
    /\ svc.at = from
    /\ \/ may /\ svc' = to
       \/ svc' = Down
    /\ UNCHANGED <<db, deploy, call, lost, store, pointers, repair, events>>

\* The pool and the store's client connect to nothing yet.
ReadConfig ==
    \E env \in Environments :
        Booting("boot", loadConfig(env), [svc EXCEPT !.at = "bucket", !.pool = "open", !.storage = "open"])

verifyBucket == Booting("bucket", TRUE, [svc EXCEPT !.at = "listening"])   \* and app.listen

Registered == Booting("listening", TRUE, [svc EXCEPT !.at = "serving"])    \* process.on

\* A killed process takes its calls with it: that loss the media lifecycle
\* knows, as a crash.
Killed == svc' = Down /\ call' = "none"

Crash ==
    /\ Event
    /\ svc.at # "off" /\ Killed
    /\ UNCHANGED <<db, deploy, lost, store, pointers, repair>>

\* systemctl stop, or the restart of a release. Before its handlers are
\* registered a signal kills; a second one finds shuttingDown set.
Signal ==
    /\ IF script.at \in {"restart", "restart back"} THEN UNCHANGED events ELSE Event
    /\ \/ svc.at = "serving" /\ svc' = [svc EXCEPT !.at = "closing"] /\ UNCHANGED call
       \/ svc.at \in {"boot", "bucket", "listening"} /\ Killed
    /\ UNCHANGED <<db, deploy, lost, store, pointers, repair>>

\* app.close waits for the calls whose clients are there; whatever it says,
\* the pool is ended next, and from that moment gives no connection.
CloseApp_Mutant ==
    /\ svc.at = "closing"
    /\ \E failed \in BOOLEAN :
           svc' = [svc EXCEPT !.at = "ending", !.pool = "ended", !.failed = failed]
    /\ UNCHANGED <<db, deploy, call, lost, store, pointers, repair, events>>
CloseApp ==
    /\ svc.at = "closing" /\ call # "connected"
    /\ \E failed \in BOOLEAN :
           svc' = [svc EXCEPT !.at = "ending", !.pool = "ended", !.failed = failed]
    /\ UNCHANGED <<db, deploy, call, lost, store, pointers, repair, events>>

\* The pool's end, then the storage client's, each in its own try.
EndPool ==
    /\ svc.at = "ending"
    /\ \E failed \in BOOLEAN :
           svc' = [svc EXCEPT !.at = "ended", !.storage = "destroyed", !.failed = @ \/ failed]
    /\ UNCHANGED <<db, deploy, call, lost, store, pointers, repair, events>>

\* Nothing is left to run, and the process is over with its exit code.
Exit ==
    /\ svc.at = "ended" /\ call = "none"
    /\ svc' = Down
    /\ UNCHANGED <<db, deploy, call, lost, store, pointers, repair, events>>

Deadline ==
    /\ svc.at \in {"closing", "ending"} /\ Killed
    /\ UNCHANGED <<db, deploy, lost, store, pointers, repair, events>>

\* One upload: counted at its beginning, uncounted in its finally, whether or
\* not its client is still there.
BeginCall ==
    /\ Event
    /\ svc.at \in {"listening", "serving"} /\ call = "none"
    /\ call' = "connected"
    /\ UNCHANGED <<db, deploy, svc, lost, store, pointers, repair>>

ClientLeaves ==
    /\ call = "connected" /\ call' = "left"
    /\ UNCHANGED <<db, deploy, svc, lost, store, pointers, repair, events>>

EndCall ==
    /\ call # "none" /\ call' = "none"
    /\ lost' = IF svc.pool = "ended" THEN lost \cup {call} ELSE lost
    /\ UNCHANGED <<db, deploy, svc, store, pointers, repair, events>>

\* The owner removes a photograph: the row is hidden, its objects go, the row
\* goes.
OwnerRemoves(m) ==
    /\ svc.at = "serving"
    /\ \/ Event /\ rows[m] = "ready" /\ rows' = [rows EXCEPT ![m] = "removed"] /\ UNCHANGED objects
       \/ rows[m] = "removed" /\ m \in objects /\ objects' = objects \ {m} /\ UNCHANGED <<rows, events>>
       \/ rows[m] = "removed" /\ m \notin objects
          /\ rows' = [rows EXCEPT ![m] = "none"] /\ UNCHANGED <<objects, events>>
    /\ UNCHANGED <<db, deploy, process, store, repair>>

-----------------------------------------------------------------------------
(***************************************************************************)
(* The backup bucket                                                       *)
(***************************************************************************)
NoJob == [at |-> "off", copy |-> None, doomed |-> {}]

\* A key is known by the time in its name; any other name is no backup's.
Unnamed == -1
parseBackupKey(k) == k.at # Unnamed
Backups(keys) == {k \in keys : parseBackupKey(k)}
Newer(k, keys) == {j \in Backups(keys) : j.at > k.at}

\* Sorted newest first, the first keepMin set aside, the old ones among the rest.
selectForDeletion_Mutant(keys, now) ==
    {k \in Backups(keys) : k.at < now - RetentionDays}
selectForDeletion(keys, now) ==
    {k \in Backups(keys) : Cardinality(Newer(k, keys)) >= KeepMin /\ k.at < now - RetentionDays}

\* The timer's run of a night, after some that failed before they dumped:
\* pg_dump | age, into a file.
Dump ==
    /\ Event
    /\ job.at = "off" /\ db.tables
    /\ day' \in day + 1 .. MaxDay
    /\ job' = [NoJob EXCEPT !.at = "dumped", !.copy = [at |-> day', db |-> db, rows |-> rows]]
    /\ UNCHANGED <<db, deploy, process, bucket, pointers, repair>>

\* PUT, then HEAD for the length; a failure ends the run where it is.
Put ==
    /\ job.at = "dumped"
    /\ \/ bucket' = bucket \cup {job.copy} /\ job' = [job EXCEPT !.at = "put"]
       \/ bucket' \in {bucket, bucket \cup {job.copy}} /\ job' = NoJob
    /\ UNCHANGED <<db, deploy, process, day, pointers, repair, events>>

Select ==
    /\ job.at = "put"
    /\ job' = [NoJob EXCEPT !.at = "pruning", !.doomed = selectForDeletion(bucket, day)]
    /\ UNCHANGED <<db, deploy, process, bucket, day, pointers, repair, events>>

Prune ==
    /\ job.at = "pruning"
    /\ \/ \E k \in job.doomed :
              /\ \A j \in job.doomed : j.at <= k.at
              /\ bucket' = bucket \ {k} /\ job' = [job EXCEPT !.doomed = @ \ {k}]
       \/ UNCHANGED bucket /\ job' = NoJob
    /\ UNCHANGED <<db, deploy, process, day, pointers, repair, events>>

-----------------------------------------------------------------------------
(***************************************************************************)
(* A lost server, and its recovery                                         *)
(***************************************************************************)
NoRecovery == [at |-> "off", copy |-> None]
NoCheck == [at |-> "off", hide |-> FALSE, todo |-> {}, missing |-> {}, clean |-> TRUE]
NoLinks == [api |-> None, app |-> None]

\* The buckets outlive the server. (Before its first release, dropping and
\* recreating the database comes to the same.)
ServerLost ==
    /\ Event
    /\ db' = EmptyDb /\ rows' = [m \in Media |-> "none"]
    /\ lock' = None /\ run' = [r \in Runners |-> Idle] /\ script' = NoScript /\ current' = NoLinks
    /\ svc' = Down /\ call' = "none" /\ job' = NoJob
    /\ recovery' = NoRecovery /\ check' = NoCheck /\ landed' = FALSE
    /\ UNCHANGED <<lost, bucket, day, objects>>

\* recover.sh: the newest backup, unless the operator names one.
Latest(keys) == {k \in Backups(keys) : Newer(k, keys) = {}}

Recover ==
    /\ Event
    /\ recovery.at = "off"
    /\ \E k \in Latest(bucket) \cup Backups(bucket) : recovery' = [at |-> "fetched", copy |-> k]
    /\ UNCHANGED <<db, deploy, process, store, pointers, check, landed>>

\* recover-server.sh restores over nothing and under nobody.
RefuseOrGoOn ==
    /\ recovery.at = "fetched"
    /\ recovery' = IF db.tables \/ svc.at # "off" THEN NoRecovery
                   ELSE [recovery EXCEPT !.at = "empty"]
    /\ UNCHANGED <<db, deploy, process, store, pointers, check, landed, events>>

\* What is there when pg_restore stops: it makes the tables, fills them one by
\* one, schema_migrations among them, and then adds keys and indexes, and
\* commits each of these by itself.
Partly(copy) ==
    {[schema |-> [i \in DOMAIN copy.db.schema |-> Part], recorded |-> recorded, tables |-> TRUE] :
        recorded \in {<<>>, copy.db.recorded}}

\* It stops at an error: at the first table when somebody made one in between,
\* else wherever it is, before the first table too.
Restore ==
    /\ recovery.at = "empty"
    /\ recovery' = NoRecovery
    /\ LET copy == recovery.copy IN
       \/ UNCHANGED <<db, rows, landed>>
       \/ ~db.tables /\ db' \in Partly(copy) /\ rows' \in {rows, copy.rows} /\ landed' = FALSE
       \/ ~db.tables /\ db' = copy.db /\ rows' = copy.rows /\ landed' = FALSE
    /\ UNCHANGED <<deploy, process, store, objects, check, events>>

StartCheck(hide) ==
    /\ Event
    /\ check.at = "off" /\ db.tables
    /\ check' = [NoCheck EXCEPT !.at = "heads", !.hide = hide,
                                !.todo = {m \in Media : rows[m] = "ready"},
                                !.clean = hide \/ \E m \in Media : rows[m] = "ready"]
    /\ UNCHANGED <<db, deploy, process, store, pointers, recovery, landed>>

\* A store that throws for one row ends the check: unreachable is not absent.
HeadRow_Mutant(m) ==
    /\ m \in check.todo
    /\ check' \in {[check EXCEPT !.todo = @ \ {m}, !.missing = @ \cup {m}]}
                  \cup (IF m \in objects THEN {[check EXCEPT !.todo = @ \ {m}],
                                               [check EXCEPT !.todo = @ \ {m}, !.clean = FALSE]} ELSE {})
    /\ UNCHANGED <<db, deploy, process, store, pointers, recovery, landed, events>>
HeadRow(m) ==
    /\ m \in check.todo
    /\ check' \in {NoCheck} \cup
                  IF m \in objects THEN {[check EXCEPT !.todo = @ \ {m}],
                                         [check EXCEPT !.todo = @ \ {m}, !.clean = FALSE]}
                  ELSE {[check EXCEPT !.todo = @ \ {m}, !.missing = @ \cup {m}]}
    /\ UNCHANGED <<db, deploy, process, store, pointers, recovery, landed, events>>

\* Hides what is absent and still ready; a row left missing, or of the wrong
\* length, fails the check.
FinishCheck ==
    /\ check.at = "heads" /\ check.todo = {}
    /\ LET hidden == {m \in check.missing : check.hide /\ rows[m] = "ready"} IN
       /\ rows' = [m \in Media |-> IF m \in hidden THEN "hidden" ELSE rows[m]]
       /\ landed' = (landed \/ (check.clean /\ check.missing \subseteq hidden))
    /\ check' = NoCheck
    /\ UNCHANGED <<db, deploy, process, store, objects, recovery, events>>

-----------------------------------------------------------------------------
\* A server before its first release, or one in service, some of whose
\* photographs were removed since its last backup.
Init ==
    /\ \E served \in BOOLEAN, gone \in SUBSET Media :
           /\ db = IF served THEN [schema |-> Ships.old, recorded |-> Ships.old, tables |-> TRUE] ELSE EmptyDb
           /\ current = IF served THEN [api |-> "old", app |-> "old"] ELSE NoLinks
           /\ svc = IF served THEN InService ELSE Down
           /\ objects = IF served THEN Media \ gone ELSE {}
           /\ rows = [m \in Media |-> IF m \in objects THEN "ready" ELSE "none"]
           /\ bucket = {[at |-> Unnamed]} \cup
                  IF served THEN {[at |-> 0, db |-> db, rows |-> [m \in Media |-> "ready"]]} ELSE {}
    /\ lock = None /\ run = [r \in Runners |-> Idle] /\ script = NoScript
    /\ call = "none" /\ lost = {}
    /\ day = 0 /\ job = NoJob
    /\ recovery = NoRecovery /\ check = NoCheck /\ landed = FALSE
    /\ events = 0

Next ==
    \/ \E rel \in Releases : MigrateByHand(rel) \/ StartRelease(rel)
    \/ \E r \in Runners : TakeLock(r) \/ Plan(r) \/ ApplyText(r) \/ Record(r) \/ AllApplied(r) \/ RunnerDies(r)
    \/ Migrated \/ SwitchLinks \/ RestartForRelease \/ Healthy \/ NotHealthy \/ ScriptDies
    \/ Start \/ ReadConfig \/ verifyBucket \/ Registered \/ Crash \/ Signal \/ CloseApp \/ EndPool \/ Exit \/ Deadline
    \/ BeginCall \/ ClientLeaves \/ EndCall \/ \E m \in Media : OwnerRemoves(m)
    \/ Dump \/ Put \/ Select \/ Prune
    \/ ServerLost \/ Recover \/ RefuseOrGoOn \/ Restore
    \/ (\E hide \in BOOLEAN : StartCheck(hide)) \/ (\E m \in Media : HeadRow(m)) \/ FinishCheck

Spec == Init /\ [][Next]_vars

-----------------------------------------------------------------------------
(* What is checked *)

\* What is applied is what is recorded, file by file, each whole or in part.
AppliedAsRecorded(d) ==
    /\ Len(d.schema) = Len(d.recorded)
    /\ \A i \in DOMAIN d.schema : d.schema[i] \in {d.recorded[i], Part}

\* A build that answers requests finds its migrations recorded, unedited and in
\* order, and nothing applied that is not recorded, nor recorded that was never
\* applied, whatever another runner is doing or died doing. A file is there in
\* part only where a restore stopped half way, which nothing after it notices, the
\* next runner included. (release.sh, "migrations" before "switch";
\* migrate.mjs, "the DDL and its schema_migrations row commit together".)
ServesItsSchema ==
    svc.at \in {"listening", "serving"} =>
        IsPrefix(Ships[svc.release], db.recorded) /\ AppliedAsRecorded(db)

\* Retention deletes no key that is not a backup, and none of the newest
\* KeepMin backups, however old. (prune.mjs, "a backup job that has been
\* failing for a month must not end with retention deleting the last good
\* copy".)
LastCopiesKept ==
    [][\A k \in bucket \ bucket' : parseBackupKey(k) /\ Cardinality(Newer(k, bucket)) >= KeepMin]_bucket

\* After a check that passed, every photograph a recipient can ask for has its
\* objects; and the check hides none that has them. (media-check.mjs,
\* consistency.mjs.)
PointersLand ==
    /\ landed => \A m \in Media : rows[m] = "ready" => m \in objects
    /\ \A m \in Media : rows[m] = "hidden" => m \notin objects

\* An orderly stop takes the pool from no call whose client is still there:
\* only a client that had left can leave its count behind. (shutdown.ts,
\* app.close before pool.end.)
NoCallLosesItsPool == "connected" \notin lost
=============================================================================
