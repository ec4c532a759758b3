---------------------------- MODULE Sharing_proofs ----------------------------
(***************************************************************************)
(* Proofs about Sharing, for any ids, any photos, any page length and any  *)
(* number of acts and failures: a photo removed while it is fetched is not *)
(* found, no invite is left behind unseen, and the log says who opened     *)
(* what, page by page.                                                     *)
(***************************************************************************)
EXTENDS Sharing, FunctionTheorems, FiniteSetTheorems, SequenceTheorems, TLAPS

(***************************************************************************)
(* The inductive invariant: one conjunct for the photos, one for the       *)
(* requests being served, one for the log they write, one for the invites  *)
(* and their revocations, and one for the log as the screen shows it.      *)
(***************************************************************************)
\* What is behind a visible row is in the store.
PhotosOK ==
    /\ media \in [Media -> {"pending", "ready", "hidden", "gone"}] /\ stored \subseteq Media
    /\ \A m \in Media : Visible(m) => m \in stored

Recorded == {"metadata", "asset"}

ServedRequests == [n : Nat, who : Ids, what : Kinds, revoked : BOOLEAN,
                   at : {"scope", "store", "again", "draw", "insert"}, id : Nat]

\* A request that reads the row again found no object, and the row is hidden; it
\* is not in the log before it is over.
RequestOK(q) ==
    /\ q.n <= acts /\ \A o \in opened : o.n # q.n
    /\ q.at \in {"draw", "insert"} => q.what.of \in Recorded
    /\ q.at \in {"store", "again"} => q.what.m \in Media
    /\ q.at = "again" => ~Visible(q.what.m)
    /\ q.at = "insert" => q.id <= drawn

RequestsOK ==
    /\ reqs \subseteq ServedRequests /\ acts \in Nat /\ drawn \in Nat
    /\ answer # 500
    /\ \A q \in reqs : RequestOK(q)
    /\ \A p, q \in reqs : p.n = q.n => p = q
    /\ \A p, q \in reqs : p.at = "insert" /\ q.at = "insert" /\ p.id = q.id => p = q

Logged == [id : Nat, who : Ids, m : Media \cup {NoId}, n : Nat]
Servings == [n : Nat, who : Ids, m : Media \cup {NoId}]

\* An entry is of a request that is over, under an id that no other has drawn.
EntriesOK ==
    /\ entries \subseteq Logged /\ IsFiniteSet(entries)
    /\ opened \subseteq Servings /\ unlogged \subseteq opened
    /\ \A o \in opened : o.n <= acts
    /\ \A e \in entries : /\ e.id <= drawn /\ Entered(e) \in opened \ unlogged /\ ~Erased(e.m)
                          /\ \A q \in reqs : q.at = "insert" => q.id # e.id
    /\ \A d, e \in entries : d # e => d.id # e.id /\ d.n # e.n
    /\ (\A m \in Media : media[m] # "gone") => opened \ unlogged = {Entered(e) : e \in entries}

ToRevoke(i) == [id |-> i, by |-> "invite"] \in revokes

\* The id being tried is one nobody has seen or given up on.
InvitesOK ==
    /\ rec \in [Ids -> {"none", "active", "revoked"}]
    /\ revoke \in [id : Ids \cup {NoId}, busy : BOOLEAN]
    /\ revokes \subseteq [id : Ids, by : {"invite", "people"}]
    /\ ids \subseteq Ids /\ gaveUp \cup given \cup strays \subseteq ids
    /\ \A i \in Ids : ToRevoke(i) => i \in ids
    /\ gaveUp \cap given = {}
    /\ post # "none" <=> step = "creating"
    /\ step = "creating" => draft \in ids \ (gaveUp \cup given) /\ ~ToRevoke(draft)
    /\ post = "created" => rec[draft] # "none"
    /\ InvitesAccounted

\* One page at most is under way for the view that is open, and what is shown is
\* newer than what it asks for.
ViewOK ==
    /\ log \in [who : Ids \cup {All, NoId}, phase : {"none", "loading", "ready", "more"},
                shown : Seq(Logged), next : Nat]
    /\ logSeq \in Nat
    /\ pages \subseteq [seq : Nat, who : Ids \cup {All, NoId}, before : Nat]
    /\ \A p \in pages : p.seq <= logSeq
    /\ \A p \in pages : p.seq = logSeq =>
         log.phase \in {"loading", "more"} /\ p.who = log.who /\ p.before = log.next
    /\ log.phase = "loading" => log.shown = <<>> /\ log.next = 0
    /\ log.phase = "more" => log.next > 0
    /\ log.next > 0 => \A k \in 1..Len(log.shown) : log.shown[k].id >= log.next
    /\ \A k \in 1..Len(log.shown) : log.who \in {log.shown[k].who, All}
    /\ \A j, k \in 1..Len(log.shown) : j < k => log.shown[j].id > log.shown[k].id

IInv ==
    /\ PhotosOK
    /\ RequestsOK
    /\ EntriesOK
    /\ InvitesOK
    /\ ViewOK

-----------------------------------------------------------------------------
(***************************************************************************)
(* A set of entries, newest first.                                         *)
(***************************************************************************)
NewerIn(S, e) == {d \in S : d.id > e.id}

\* Every place in the order is taken by an entry: as many are newer than it as
\* there are places before it.
LEMMA EveryRankIsTaken ==
    ASSUME NEW S, IsFiniteSet(S), \A e \in S : e.id \in Nat,
           \A d, e \in S : d # e => d.id # e.id
    PROVE  /\ Cardinality(S) \in Nat
           /\ \A k \in 1..Cardinality(S) : \E e \in S : Cardinality(NewerIn(S, e)) = k - 1
<1> DEFINE n == Cardinality(S)
           rank == [e \in S |-> Cardinality(NewerIn(S, e)) + 1]
<1>1. n \in Nat  BY FS_CardinalityType
<1>2. \A e \in S : IsFiniteSet(NewerIn(S, e)) /\ Cardinality(NewerIn(S, e)) \in Nat
  BY FS_Subset, FS_CardinalityType DEF NewerIn
<1>3. \A d, e \in S : d.id > e.id => Cardinality(NewerIn(S, d)) < Cardinality(NewerIn(S, e))
  <2>1. ASSUME NEW d \in S, NEW e \in S, d.id > e.id
        PROVE  Cardinality(NewerIn(S, d)) < Cardinality(NewerIn(S, e))
    <3>1. NewerIn(S, d) \cup {d} \subseteq NewerIn(S, e) /\ d \notin NewerIn(S, d)
      BY <2>1 DEF NewerIn
    <3>2. Cardinality(NewerIn(S, d) \cup {d}) = Cardinality(NewerIn(S, d)) + 1
      BY <1>2, <3>1, FS_AddElement
    <3>3. Cardinality(NewerIn(S, d) \cup {d}) <= Cardinality(NewerIn(S, e))
      BY <1>2, <3>1, FS_Subset
    <3>4. QED  BY <1>2, <3>2, <3>3
  <2>2. QED  BY <2>1
<1>4. \A e \in S : Cardinality(NewerIn(S, e)) < n
  <2>1. ASSUME NEW e \in S PROVE Cardinality(NewerIn(S, e)) < n
    <3>1. NewerIn(S, e) \subseteq S \ {e}  BY DEF NewerIn
    <3>2. IsFiniteSet(S \ {e}) /\ Cardinality(S \ {e}) = n - 1  BY FS_RemoveElement
    <3>3. Cardinality(NewerIn(S, e)) <= n - 1  BY <3>1, <3>2, FS_Subset
    <3>4. QED  BY <1>1, <1>2, <3>3
  <2>2. QED  BY <2>1
<1>5. rank \in Injection(S, 1..n)
  <2>1. rank \in [S -> 1..n]  BY <1>1, <1>2, <1>4
  <2>2. ASSUME NEW d \in S, NEW e \in S, rank[d] = rank[e] PROVE d = e
    <3>1. Cardinality(NewerIn(S, d)) = Cardinality(NewerIn(S, e))  BY <1>2, <2>2
    <3>2. ~(d.id > e.id) /\ ~(e.id > d.id)  BY <1>2, <1>3, <3>1
    <3>3. QED  BY <3>2
  <2>3. QED  BY <2>1, <2>2, Fun_IsInj
<1>6. IsFiniteSet(1..n) /\ Cardinality(1..n) = n  BY <1>1, FS_Interval
<1>7. \A e \in S : rank[e] = Cardinality(NewerIn(S, e)) + 1  OBVIOUS
<1> HIDE DEF rank
<1>8. \A k \in 1..n : \E e \in S : rank[e] = k
  <2>1. Cardinality(S) = Cardinality(1..n)  BY <1>6 DEF n
  <2>2. rank \in Surjection(S, 1..n)
    <3> DEFINE T == 1..n
    <3>1. rank \in Injection(S, T) /\ IsFiniteSet(T) /\ Cardinality(S) = Cardinality(T)
      BY <1>5, <1>6, <2>1
    <3> HIDE DEF T
    <3>2. rank \in Surjection(S, T)  BY <3>1, FS_Injection
    <3>3. QED  BY <3>2 DEF T
  <2>3. QED  BY <2>2, Fun_SurjectionProperties
<1>9. \A k \in 1..n : \E e \in S : Cardinality(NewerIn(S, e)) = k - 1  BY <1>1, <1>2, <1>7, <1>8
<1>10. QED  BY <1>1, <1>9

\* A page read is a sequence of entries as asked for, newest first.
LEMMA ListedNewestFirst ==
    ASSUME EntriesOK, NEW p
    PROVE  /\ ListEntries(p) \in Seq(Logged)
           /\ \A k \in 1..Len(ListEntries(p)) :
                /\ p.who \in {ListEntries(p)[k].who, All}
                /\ p.before > 0 => ListEntries(p)[k].id < p.before
           /\ \A j, k \in 1..Len(ListEntries(p)) :
                j < k => ListEntries(p)[j].id > ListEntries(p)[k].id
<1> DEFINE found == {e \in entries : p.who \in {e.who, All} /\ (p.before > 0 => e.id < p.before)}
           n == Cardinality(found)
           s == [k \in 1..n |-> CHOOSE e \in found : Cardinality(NewerIn(found, e)) = k - 1]
<1>1. ListEntries(p) = s  BY DEF ListEntries, NewerIn
<1>2. /\ IsFiniteSet(found) /\ found \subseteq Logged
      /\ \A e \in found : e.id \in Nat
      /\ \A d, e \in found : d # e => d.id # e.id
  <2>1. found \subseteq entries  OBVIOUS
  <2>2. QED  BY <2>1, FS_Subset DEF EntriesOK, Logged
<1>3. /\ \A e \in found : p.who \in {e.who, All} /\ (p.before > 0 => e.id < p.before)
  OBVIOUS
<1> HIDE DEF found
<1>4. n \in Nat /\ \A k \in 1..n : \E e \in found : Cardinality(NewerIn(found, e)) = k - 1
  BY <1>2, EveryRankIsTaken
<1>5. \A k \in 1..n : s[k] \in found /\ Cardinality(NewerIn(found, s[k])) = k - 1
  BY <1>4
<1>6. s \in [1..n -> found]  BY <1>4, <1>5
<1> HIDE DEF s
<1>7. s \in Seq(found) /\ Len(s) = n
  <2>1. n \in Nat  BY <1>4
  <2> HIDE DEF n
  <2>2. QED  BY <1>6, <2>1
<1>8. s \in Seq(Logged)  BY <1>2, <1>7
<1>9. \A j, k \in 1..n : j < k => s[j].id > s[k].id
  <2>1. ASSUME NEW j \in 1..n, NEW k \in 1..n, j < k, ~(s[j].id > s[k].id) PROVE FALSE
    <3>1. s[j] \in found /\ s[k] \in found /\ s[j].id <= s[k].id  BY <1>2, <1>5, <2>1
    <3>2. NewerIn(found, s[k]) \subseteq NewerIn(found, s[j])  BY <1>2, <3>1 DEF NewerIn
    <3>3. IsFiniteSet(NewerIn(found, s[j]))  BY <1>2, FS_Subset DEF NewerIn
    <3>4. Cardinality(NewerIn(found, s[k])) <= Cardinality(NewerIn(found, s[j]))
      BY <3>2, <3>3, FS_Subset
    <3>5. k - 1 <= j - 1  BY <1>5, <3>4
    <3>6. QED  BY <1>4, <2>1, <3>5
  <2>2. QED  BY <2>1
<1>10. \A k \in 1..n : p.who \in {s[k].who, All} /\ (p.before > 0 => s[k].id < p.before)
  BY <1>3, <1>5
<1>11. QED  BY <1>1, <1>7, <1>8, <1>9, <1>10

-----------------------------------------------------------------------------
(***************************************************************************)
(* Each conjunct, by steps that leave it alone.                            *)
(***************************************************************************)

\* The photos, by a step that moves none.
LEMMA PhotosKept == ASSUME PhotosOK, UNCHANGED <<media, stored>> PROVE PhotosOK'
BY DEF PhotosOK, Visible

\* The requests, by a step that serves none and shows no photo again.
LEMMA RequestsKept ==
    ASSUME RequestsOK, UNCHANGED <<drawn, reqs, answer, opened>>, acts' \in {acts, acts + 1},
           \A m \in Media : Visible(m)' => Visible(m)
    PROVE  RequestsOK'
<1>1. acts' \in Nat /\ acts <= acts'  BY DEF RequestsOK
<1>2. ASSUME NEW q \in reqs PROVE RequestOK(q)'
  <2>1. RequestOK(q) /\ q.n \in Nat /\ acts \in Nat  BY DEF RequestsOK, ServedRequests
  <2>2. q.n <= acts'  BY <1>1, <2>1 DEF RequestOK
  <2>3. QED  BY <2>1, <2>2 DEF RequestOK
<1>3. QED  BY <1>1, <1>2 DEF RequestsOK

\* The log, by a step that writes nothing to it and erases no photo.
LEMMA EntriesKept ==
    ASSUME EntriesOK, acts \in Nat, UNCHANGED <<entries, opened, unlogged, drawn, reqs>>,
           acts' \in {acts, acts + 1},
           \A m \in Media : media'[m] = "gone" <=> media[m] = "gone"
    PROVE  EntriesOK'
<1>1. \A o \in opened : o.n <= acts'
  <2>1. \A n \in Nat : n <= acts => n <= acts'  OBVIOUS
  <2>2. QED  BY <2>1 DEF EntriesOK, Servings
<1>2. \A e \in entries : Erased(e.m)' => Erased(e.m)  BY DEF EntriesOK, Logged, Erased
<1>3. QED  BY <1>1, <1>2 DEF EntriesOK, Entered

\* The invites, by a step of another part.
LEMMA InvitesKept ==
    ASSUME InvitesOK, UNCHANGED <<rec, revoke, revokes, strays>>, UNCHANGED invite
    PROVE  InvitesOK'
BY DEF InvitesOK, InvitesAccounted, ToRevoke, invite

\* The log's screen, by a step of another part.
LEMMA ViewKept == ASSUME ViewOK, UNCHANGED view PROVE ViewOK'
BY DEF ViewOK, view

-----------------------------------------------------------------------------
(***************************************************************************)
(* The beginning, and the steps that serve.                                *)
(***************************************************************************)

\* An album without recipients satisfies the invariant.
LEMMA InitIInv == Init => IInv
<1> SUFFICES ASSUME Init PROVE IInv  OBVIOUS
<1>1. PhotosOK  BY DEF Init, PhotosOK
<1>2. RequestsOK  BY DEF Init, RequestsOK
<1>3. EntriesOK  BY FS_EmptySet DEF Init, EntriesOK
<1>4. InvitesOK  BY DEF Init, InvitesOK, InvitesAccounted, ToRevoke, Nobody, NoRevoke, NoId
<1>5. ViewOK
  <2>1. log = [who |-> NoId, phase |-> "none", shown |-> <<>>, next |-> 0]
    BY DEF Init, NoLog
  <2>2. <<>> \in Seq(Logged) /\ Len(<<>>) = 0  OBVIOUS
  <2>3. log \in [who : Ids \cup {All, NoId}, phase : {"none", "loading", "ready", "more"},
                 shown : Seq(Logged), next : Nat]
    BY <2>1, <2>2
  <2>4. log.shown = <<>> /\ log.phase = "none" /\ log.next = 0  BY <2>1
  <2>5. \A k : k \notin 1..Len(log.shown)  BY <2>2, <2>4
  <2>6. logSeq = 0 /\ pages = {}  BY DEF Init
  <2>7. QED  BY <2>3, <2>4, <2>5, <2>6 DEF ViewOK
<1>6. QED  BY <1>1, <1>2, <1>3, <1>4, <1>5 DEF IInv

\* A request that is over, and was no open.
LEMMA RequestOver ==
    ASSUME RequestsOK, EntriesOK, NEW q \in reqs, reqs' = reqs \ {q}, answer' # 500,
           UNCHANGED <<opened, unlogged, entries, drawn, acts, media>>
    PROVE  RequestsOK' /\ EntriesOK'
<1>1. \A r \in reqs' : r \in reqs /\ RequestOK(r)'  BY DEF RequestsOK, RequestOK, Visible
<1>2. RequestsOK'  BY <1>1 DEF RequestsOK
<1>3. EntriesOK'  BY <1>1 DEF EntriesOK, Erased
<1>4. QED  BY <1>2, <1>3

\* A request that goes on to another of its steps.
LEMMA RequestGoesOn ==
    ASSUME RequestsOK, EntriesOK, NEW q \in reqs, NEW at \in {"scope", "store", "again", "draw"},
           reqs' = (reqs \ {q}) \cup {[q EXCEPT !.at = at]},
           UNCHANGED <<answer, opened, unlogged, entries, drawn, acts, media>>,
           at = "draw" => q.what.of \in Recorded,
           at \in {"store", "again"} => q.what.m \in Media,
           at = "again" => ~Visible(q.what.m)
    PROVE  RequestsOK' /\ EntriesOK'
<1> DEFINE r == [q EXCEPT !.at = at]
<1>1. /\ r \in ServedRequests /\ r.at = at /\ r.n = q.n /\ r.what = q.what /\ r.id = q.id
      /\ q \in ServedRequests
  BY DEF RequestsOK, ServedRequests
<1>2. reqs' = (reqs \ {q}) \cup {r}  OBVIOUS
<1> HIDE DEF r
<1>3. RequestOK(q) /\ \A p \in reqs : RequestOK(p)  BY DEF RequestsOK
<1>4. RequestOK(r)'  BY <1>1, <1>3 DEF RequestOK, Visible
<1>5. \A p \in reqs : RequestOK(p)'  BY <1>3 DEF RequestOK, Visible
<1>6. \A p \in reqs \ {q} : p.n # r.n  BY <1>1 DEF RequestsOK
<1>7. RequestsOK'
  <2>1. reqs' \subseteq ServedRequests  BY <1>1, <1>2 DEF RequestsOK
  <2>2. \A p \in reqs' : RequestOK(p)'  BY <1>2, <1>4, <1>5
  <2>3. \A p, o \in reqs' : p.n = o.n => p = o  BY <1>2, <1>6 DEF RequestsOK
  <2>4. \A p, o \in reqs' : p.at = "insert" /\ o.at = "insert" /\ p.id = o.id => p = o
    BY <1>1, <1>2 DEF RequestsOK
  <2>5. QED  BY <2>1, <2>2, <2>3, <2>4 DEF RequestsOK
<1>8. EntriesOK'  BY <1>1, <1>2 DEF EntriesOK, Erased
<1>9. QED  BY <1>7, <1>8

\* The step that serves keeps the invariant.
LEMMA NextServing == ASSUME IInv, Serving PROVE IInv'
<1>0. PhotosOK /\ RequestsOK /\ EntriesOK /\ InvitesOK /\ ViewOK  BY DEF IInv
<1>1. /\ reqs \subseteq ServedRequests /\ acts \in Nat /\ drawn \in Nat /\ answer # 500
      /\ \A q \in reqs : RequestOK(q)
      /\ \A p, q \in reqs : p.n = q.n => p = q
      /\ \A p, q \in reqs : p.at = "insert" /\ q.at = "insert" /\ p.id = q.id => p = q
  BY <1>0 DEF RequestsOK
\* Only the requests, the answers and the log are moved.
<1>2. ASSUME UNCHANGED <<rows, invite, revokes, screens, view, strays>>, RequestsOK', EntriesOK'
      PROVE  IInv'
  <2>1. UNCHANGED <<rec, media, stored, revoke>>  BY <1>2 DEF rows, screens
  <2>2. PhotosOK' /\ InvitesOK' /\ ViewOK'
    BY <1>0, <1>2, <2>1, PhotosKept, InvitesKept, ViewKept
  <2>3. QED  BY <1>2, <2>2 DEF IInv
<1>3. ASSUME NEW i \in Ids, NEW what \in Kinds, Authenticate(i, what) PROVE IInv'
  <2>0. PICK q : q = [n |-> acts', who |-> Grant(i).who, what |-> what, revoked |-> Grant(i).revoked,
                      at |-> "scope", id |-> 0]
    OBVIOUS
  <2>1. /\ acts' = acts + 1 /\ reqs' = reqs \cup {q}
        /\ UNCHANGED <<rows, logged, answer, opened, unlogged, invite, revokes, screens, view, strays>>
    BY <1>3, <2>0 DEF Authenticate, Act
  <2>2. UNCHANGED <<media, entries, drawn>>  BY <2>1 DEF rows, logged
  <2>3. acts' \in Nat /\ acts < acts' /\ acts <= acts'  BY <1>1, <2>1
  <2>4. (rec[i] = "revoked") \in BOOLEAN  OBVIOUS
  <2>5. q \in ServedRequests /\ q.n = acts' /\ q.at = "scope"
    BY <2>0, <2>3, <2>4 DEF Grant, ServedRequests
  <2>6. \A p \in reqs : p.n # q.n /\ p.n <= acts'
    BY <1>1, <2>3, <2>5 DEF RequestOK, ServedRequests
  <2>7. \A o \in opened : o.n # q.n /\ o.n <= acts'
    BY <1>0, <1>1, <2>3, <2>5 DEF EntriesOK, Servings
  <2>8. RequestsOK'
    <3>1. RequestOK(q)'  BY <2>1, <2>3, <2>5, <2>7 DEF RequestOK
    <3>2. \A p \in reqs : RequestOK(p)'  BY <1>1, <2>1, <2>2, <2>6 DEF RequestOK, Visible
    <3>3. \A p, o \in reqs' : p.n = o.n => p = o  BY <1>1, <2>1, <2>6
    <3>4. \A p, o \in reqs' : p.at = "insert" /\ o.at = "insert" /\ p.id = o.id => p = o
      BY <1>1, <2>1, <2>5
    <3>5. \A p \in reqs' : RequestOK(p)'  BY <2>1, <3>1, <3>2
    <3>6. QED  BY <1>1, <2>1, <2>2, <2>3, <2>5, <3>3, <3>4, <3>5 DEF RequestsOK
  <2>9. EntriesOK'
    <3>1. \A o \in reqs' : o.at = "insert" => o \in reqs  BY <2>1, <2>5
    <3>2. QED  BY <1>0, <2>1, <2>2, <2>7, <3>1 DEF EntriesOK, Erased
  <2>10. QED  BY <1>2, <2>1, <2>8, <2>9
\* A step of one request that writes nothing to the log.
<1>4. ASSUME NEW q \in reqs, UNCHANGED <<rows, logged, unlogged, invite, revokes, screens, view, strays, acts>>,
             \/ /\ reqs' = reqs \ {q} /\ answer' # 500 /\ UNCHANGED opened
             \/ \E at \in {"scope", "store", "again", "draw"} :
                  /\ reqs' = (reqs \ {q}) \cup {[q EXCEPT !.at = at]}
                  /\ UNCHANGED <<answer, opened>>
                  /\ at = "draw" => q.what.of \in Recorded
                  /\ at \in {"store", "again"} => q.what.m \in Media
                  /\ at = "again" => ~Visible(q.what.m)
      PROVE  IInv'
  <2>1. UNCHANGED <<media, entries, drawn>>  BY <1>4 DEF rows, logged
  <2>2. RequestsOK' /\ EntriesOK'
    <3>1. CASE reqs' = reqs \ {q} /\ answer' # 500 /\ UNCHANGED opened
      BY <1>0, <1>4, <2>1, <3>1, RequestOver
    <3>2. CASE \E at \in {"scope", "store", "again", "draw"} :
                  /\ reqs' = (reqs \ {q}) \cup {[q EXCEPT !.at = at]}
                  /\ UNCHANGED <<answer, opened>>
                  /\ at = "draw" => q.what.of \in Recorded
                  /\ at \in {"store", "again"} => q.what.m \in Media
                  /\ at = "again" => ~Visible(q.what.m)
      BY <1>0, <1>4, <2>1, <3>2, RequestGoesOn
    <3>3. QED  BY <1>4, <3>1, <3>2
  <2>3. QED  BY <1>2, <1>4, <2>2
\* What Answer and Served come to.
<1>5. ASSUME NEW q \in reqs, NEW code \in {403, 404}, Answer(q, code)
      PROVE  reqs' = reqs \ {q} /\ answer' # 500 /\ UNCHANGED opened
  BY <1>5 DEF Answer
<1>6. ASSUME NEW q \in reqs, Served(q)
      PROVE  \/ reqs' = reqs \ {q} /\ answer' # 500 /\ UNCHANGED opened
             \/ /\ reqs' = (reqs \ {q}) \cup {[q EXCEPT !.at = "draw"]}
                /\ UNCHANGED <<answer, opened>> /\ q.what.of \in Recorded
  <2>1. CASE Opens(q)  BY <1>6, <2>1 DEF Served, Moves, Opens, Recorded
  <2>2. CASE ~Opens(q)  BY <1>6, <2>2 DEF Served, Answer, Opens
  <2>3. QED  BY <2>1, <2>2
<1>7. \A q \in reqs : OfMedia(q) => q.what.m \in Media
  BY <1>1 DEF ServedRequests, Kinds, OfMedia
<1>8. ASSUME NEW q \in reqs, Scope(q) PROVE IInv'
  <2>1. UNCHANGED <<rows, logged, unlogged, invite, revokes, screens, view, strays, acts>>
    BY <1>8 DEF Scope
  <2>2. \/ Answer(q, 404) \/ Answer(q, 403)
        \/ OfMedia(q) /\ Moves(q, "store")
        \/ Served(q)
    BY <1>8 DEF Scope
  <2>3. CASE Answer(q, 404) \/ Answer(q, 403)
    <3>1. reqs' = reqs \ {q} /\ answer' # 500 /\ UNCHANGED opened  BY <1>5, <2>3
    <3>2. QED  BY <1>4, <2>1, <3>1
  <2>4. CASE OfMedia(q) /\ Moves(q, "store")
    <3>1. /\ reqs' = (reqs \ {q}) \cup {[q EXCEPT !.at = "store"]} /\ UNCHANGED <<answer, opened>>
          /\ q.what.m \in Media
      BY <1>7, <2>4 DEF Moves
    <3>2. QED  BY <1>4, <2>1, <3>1
  <2>5. CASE Served(q)  BY <1>4, <1>6, <2>1, <2>5
  <2>6. QED  BY <2>2, <2>3, <2>4, <2>5
<1>9. ASSUME NEW q \in reqs, Get(q) PROVE IInv'
  <2>1. /\ UNCHANGED <<rows, logged, unlogged, invite, revokes, screens, view, strays, acts>>
        /\ q.at = "store"
        /\ (q.what.m \notin stored /\ Moves(q, "again")) \/ Served(q)
    BY <1>9 DEF Get
  <2>2. q.what.m \in Media  BY <1>1, <2>1 DEF RequestOK
  <2>3. CASE q.what.m \notin stored /\ Moves(q, "again")
    <3>1. ~Visible(q.what.m)  BY <1>0, <2>2, <2>3 DEF PhotosOK
    <3>2. reqs' = (reqs \ {q}) \cup {[q EXCEPT !.at = "again"]} /\ UNCHANGED <<answer, opened>>
      BY <2>3 DEF Moves
    <3>3. QED  BY <1>4, <2>1, <2>2, <3>1, <3>2
  <2>4. CASE Served(q)  BY <1>4, <1>6, <2>1, <2>4
  <2>5. QED  BY <2>1, <2>3, <2>4
<1>10. ASSUME NEW q \in reqs, ReadAgain(q) PROVE IInv'
  <2>1. /\ UNCHANGED <<rows, logged, unlogged, invite, revokes, screens, view, strays, acts>>
        /\ q.at = "again" /\ Answer(q, IF Visible(q.what.m) THEN 500 ELSE 404)
    BY <1>10 DEF ReadAgain
  <2>2. ~Visible(q.what.m)  BY <1>1, <2>1 DEF RequestOK
  <2>3. Answer(q, 404)  BY <2>1, <2>2
  <2>4. QED  BY <1>4, <1>5, <2>1, <2>3
<1>11. ASSUME NEW q \in reqs, Draws(q) PROVE IInv'
  <2>0. PICK r : r = [q EXCEPT !.at = "insert", !.id = drawn']  OBVIOUS
  <2>1. /\ q.at = "draw" /\ drawn' = drawn + 1 /\ reqs' = (reqs \ {q}) \cup {r}
        /\ UNCHANGED <<rows, entries, answer, opened, unlogged, invite, revokes, screens, view, strays, acts>>
    BY <1>11, <2>0 DEF Draws
  <2>2. UNCHANGED media /\ drawn' \in Nat /\ drawn < drawn'  BY <1>1, <2>1 DEF rows
  <2>3. /\ r \in ServedRequests /\ r.at = "insert" /\ r.n = q.n /\ r.what = q.what /\ r.id = drawn'
        /\ q \in ServedRequests
    <3>1. q \in ServedRequests  BY <1>1
    <3>2. r = [n |-> q.n, who |-> q.who, what |-> q.what, revoked |-> q.revoked,
               at |-> "insert", id |-> drawn']
      BY <2>0, <3>1 DEF ServedRequests
    <3>3. QED  BY <2>2, <3>1, <3>2 DEF ServedRequests
  <2>4. \A p \in reqs : RequestOK(p) /\ (p.at = "insert" => p.id < drawn' /\ p.id <= drawn')
    BY <1>1, <2>2 DEF RequestOK, ServedRequests
  <2>5. \A e \in entries : e.id < drawn' /\ e.id <= drawn'
    <3>1. \A n \in Nat : n <= drawn => n < drawn' /\ n <= drawn'  BY <1>1, <2>2
    <3>2. QED  BY <1>0, <3>1 DEF EntriesOK, Logged
  <2>6. RequestOK(r)'  BY <2>1, <2>2, <2>3, <2>4 DEF RequestOK, Recorded
  <2>7. \A p \in reqs : RequestOK(p)'  BY <2>1, <2>2, <2>4 DEF RequestOK, Visible
  <2>8. \A p \in reqs \ {q} : p.n # r.n  BY <1>1, <2>3
  <2>9. \A p \in reqs : p.at = "insert" => p.id # r.id
    BY <1>1, <2>2, <2>3, <2>4 DEF ServedRequests
  <2>10. RequestsOK'
    <3>1. reqs' \subseteq ServedRequests  BY <1>1, <2>1, <2>3
    <3>2. \A p, o \in reqs' : p.n = o.n => p = o  BY <1>1, <2>1, <2>8
    <3>3. \A p, o \in reqs' : p.at = "insert" /\ o.at = "insert" /\ p.id = o.id => p = o
      BY <1>1, <2>1, <2>9
    <3>4. \A p \in reqs' : RequestOK(p)'  BY <2>1, <2>6, <2>7
    <3>5. QED  BY <1>1, <2>1, <2>2, <3>1, <3>2, <3>3, <3>4 DEF RequestsOK
  <2>11. EntriesOK'
    <3>1. \A e \in entries : e.id # r.id  BY <1>0, <2>2, <2>3, <2>5 DEF EntriesOK, Logged
    <3>2. \A e \in entries : \A o \in reqs' : o.at = "insert" => o.id # e.id
      BY <1>0, <2>1, <3>1 DEF EntriesOK
    <3>3. QED  BY <1>0, <2>1, <2>2, <2>5, <3>2 DEF EntriesOK, Erased
  <2>12. QED  BY <1>2, <2>1, <2>10, <2>11
<1>12. ASSUME NEW q \in reqs, Record(q) PROVE IInv'
  <2>1. /\ q.at = "insert" /\ Answer(q, 200)
        /\ UNCHANGED <<rows, drawn, invite, revokes, screens, view, strays, acts>>
    BY <1>12 DEF Record
  <2>2. UNCHANGED media  BY <2>1 DEF rows
  <2>3. RequestOK(q) /\ q.what.of \in Recorded /\ q \in ServedRequests
    BY <1>1, <2>1 DEF RequestOK
  <2>4. reqs' = reqs \ {q} /\ answer' = 200 /\ opened' = opened \cup {Opening(q)}
    BY <2>1, <2>3 DEF Answer, Recorded
  <2>5. q.n \in Nat /\ q.n <= acts /\ q.id \in Nat /\ q.id <= drawn /\ \A o \in opened : o.n # q.n
    BY <2>1, <2>3 DEF RequestOK, ServedRequests
  <2>6. PICK opening : opening = Opening(q)  OBVIOUS
  <2>7. opening \in Servings /\ opening.n = q.n /\ opening \notin opened
    BY <2>3, <2>5, <2>6 DEF Opening, Servings, ServedRequests, Kinds
  <2>8. opened' = opened \cup {opening}  BY <2>4, <2>6
  <2>9. RequestsOK'
    <3>1. ASSUME NEW p \in reqs' PROVE RequestOK(p)'
      <4>1. p \in reqs /\ p.n # q.n /\ RequestOK(p)  BY <1>1, <2>4, <3>1
      <4>2. \A o \in opened' : o.n # p.n  BY <2>7, <2>8, <4>1 DEF RequestOK
      <4>3. QED  BY <2>1, <2>2, <4>1, <4>2 DEF RequestOK, Visible
    <3>2. QED  BY <1>1, <2>1, <2>4, <3>1 DEF RequestsOK
  <2>10. EntriesOK'
    <3>1. /\ opened' \subseteq Servings /\ \A o \in opened' : o.n <= acts'
          /\ \A e \in entries : \A o \in reqs' : o.at = "insert" => o.id # e.id
      BY <1>0, <2>1, <2>4, <2>5, <2>7, <2>8 DEF EntriesOK
    <3>2. CASE UNCHANGED entries /\ unlogged' = unlogged \cup {Opening(q)}
      <4>1. opened' \ unlogged' = opened \ unlogged /\ unlogged' \subseteq opened'
        BY <1>0, <2>6, <2>7, <2>8, <3>2 DEF EntriesOK
      <4>2. QED  BY <1>0, <2>1, <2>2, <3>1, <3>2, <4>1 DEF EntriesOK, Erased, Entered
    <3>3. CASE /\ ~Erased(q.what.m) /\ UNCHANGED unlogged
               /\ entries' = entries \cup {[id |-> q.id, who |-> q.who, m |-> q.what.m, n |-> q.n]}
      <4> DEFINE e0 == [id |-> q.id, who |-> q.who, m |-> q.what.m, n |-> q.n]
      <4>1. e0 \in Logged /\ e0.id = q.id /\ e0.n = q.n /\ e0.m = q.what.m /\ Entered(e0) = opening
        BY <2>3, <2>6 DEF ServedRequests, Kinds, Logged, Entered, Opening
      <4>2. entries' = entries \cup {e0}  BY <3>3
      <4> HIDE DEF e0
      <4>3. entries' \subseteq Logged /\ IsFiniteSet(entries')
        BY <1>0, <4>1, <4>2, FS_AddElement DEF EntriesOK
      <4>4. opening \notin unlogged /\ unlogged' \subseteq opened'
        BY <1>0, <2>7, <2>8, <3>3 DEF EntriesOK
      <4>5. opened' \ unlogged' = (opened \ unlogged) \cup {opening}
        BY <2>8, <3>3, <4>4
      <4>6. \A e \in entries : e.id # e0.id /\ e.n # e0.n
        <5>1. \A e \in entries : Entered(e) \in opened /\ e.id # e0.id
          BY <1>0, <2>1, <4>1 DEF EntriesOK
        <5>2. \A e : Entered(e).n = e.n  BY DEF Entered
        <5>3. QED  BY <2>5, <4>1, <5>1, <5>2
      <4>7. \A o \in reqs' : o.at = "insert" => o.id # e0.id
        BY <1>1, <2>1, <2>4, <4>1
      <4>8. \A e \in entries' : /\ e.id <= drawn' /\ Entered(e) \in opened' \ unlogged' /\ ~Erased(e.m)'
                                /\ \A o \in reqs' : o.at = "insert" => o.id # e.id
        BY <1>0, <2>1, <2>2, <2>5, <3>1, <3>3, <4>1, <4>2, <4>5, <4>7 DEF EntriesOK, Erased
      <4>9. \A d, e \in entries' : d # e => d.id # e.id /\ d.n # e.n
        BY <1>0, <4>2, <4>6 DEF EntriesOK
      <4>10. {Entered(e) : e \in entries'} = {Entered(e) : e \in entries} \cup {opening}  BY <4>1, <4>2
      <4>11. (\A m \in Media : media'[m] # "gone") => opened' \ unlogged' = {Entered(e) : e \in entries'}
        BY <1>0, <2>2, <4>5, <4>10 DEF EntriesOK
      <4>12. QED  BY <3>1, <4>3, <4>4, <4>8, <4>9, <4>11 DEF EntriesOK, Entered
    <3>4. QED  BY <1>12, <3>2, <3>3 DEF Record
  <2>11. QED  BY <1>2, <2>1, <2>9, <2>10
<1>13. QED  BY <1>3, <1>8, <1>9, <1>10, <1>11, <1>12 DEF Serving

-----------------------------------------------------------------------------
(***************************************************************************)
(* The photos' steps.                                                      *)
(***************************************************************************)

\* The step that removes keeps the invariant: a row is hidden before its objects
\* go, and nothing hidden is shown again.
LEMMA NextRemoving == ASSUME IInv, Removing PROVE IInv'
<1>0. PhotosOK /\ RequestsOK /\ EntriesOK /\ InvitesOK /\ ViewOK  BY DEF IInv
<1>1. acts \in Nat  BY <1>0 DEF RequestsOK
<1>2. PICK m \in Media : BecomesReady(m) \/ Hide(m) \/ DeleteObjects(m) \/ Erase(m)
  BY DEF Removing
<1>3. /\ UNCHANGED <<rec, drawn, served, invite, revokes, screens, view, strays>>
      /\ acts' \in {acts, acts + 1}
  BY <1>2 DEF BecomesReady, Hide, DeleteObjects, Erase, Act, logged
<1>4. UNCHANGED <<revoke, reqs, answer, opened, unlogged>>  BY <1>3 DEF screens, served
<1>5. InvitesOK' /\ ViewOK'  BY <1>0, <1>3, <1>4, InvitesKept, ViewKept
<1>6. CASE BecomesReady(m) \/ Hide(m)
  <2>1. /\ Visible(m) /\ UNCHANGED <<stored, entries>>
        /\ media' = [media EXCEPT ![m] = "ready"] \/ media' = [media EXCEPT ![m] = "hidden"]
    BY <1>6 DEF BecomesReady, Hide, logged, Visible
  <2>2. /\ media' \in [Media -> {"pending", "ready", "hidden", "gone"}]
        /\ \A n \in Media : Visible(n)' => Visible(n)
        /\ \A n \in Media : media'[n] = "gone" <=> media[n] = "gone"
    BY <1>0, <2>1 DEF PhotosOK, Visible
  <2>3. PhotosOK'  BY <1>0, <2>1, <2>2 DEF PhotosOK
  <2>4. RequestsOK' /\ EntriesOK'
    BY <1>0, <1>1, <1>3, <1>4, <2>1, <2>2, RequestsKept, EntriesKept
  <2>5. QED  BY <1>5, <2>3, <2>4 DEF IInv
<1>7. CASE DeleteObjects(m)
  <2>1. /\ media[m] = "hidden" /\ stored' = stored \ {m} /\ UNCHANGED <<media, entries>>
    BY <1>7 DEF DeleteObjects, logged
  <2>2. ~Visible(m) /\ \A n \in Media : Visible(n)' <=> Visible(n)  BY <2>1 DEF Visible
  <2>3. PhotosOK'  BY <1>0, <2>1, <2>2 DEF PhotosOK
  <2>4. RequestsOK' /\ EntriesOK'
    BY <1>0, <1>1, <1>3, <1>4, <2>1, <2>2, RequestsKept, EntriesKept
  <2>5. QED  BY <1>5, <2>3, <2>4 DEF IInv
<1>8. CASE Erase(m)
  <2>1. /\ media[m] = "hidden" /\ media' = [media EXCEPT ![m] = "gone"] /\ UNCHANGED <<stored, acts>>
        /\ entries' = {e \in entries : e.m # m}
    BY <1>8 DEF Erase
  <2>2. /\ media' \in [Media -> {"pending", "ready", "hidden", "gone"}]
        /\ \A n \in Media : Visible(n)' => Visible(n)
        /\ \A n \in Media : media'[n] = "gone" <=> n = m \/ media[n] = "gone"
    BY <1>0, <2>1 DEF PhotosOK, Visible
  <2>3. PhotosOK'  BY <1>0, <2>1, <2>2 DEF PhotosOK
  <2>4. RequestsOK'  BY <1>0, <1>3, <1>4, <2>2, RequestsKept
  <2>5. EntriesOK'
    <3>1. entries' \subseteq entries /\ IsFiniteSet(entries')
      BY <1>0, <2>1, FS_Subset DEF EntriesOK
    <3>2. \A e \in entries' : ~Erased(e.m)'
      BY <1>0, <2>1, <2>2 DEF EntriesOK, Logged, Erased
    <3>3. ~(\A n \in Media : media'[n] # "gone")  BY <2>2
    <3>4. QED  BY <1>0, <1>3, <1>4, <2>1, <3>1, <3>2, <3>3 DEF EntriesOK
  <2>6. QED  BY <1>5, <2>3, <2>4, <2>5 DEF IInv
<1>9. QED  BY <1>2, <1>6, <1>7, <1>8

-----------------------------------------------------------------------------
(***************************************************************************)
(* The invites and the revocations.                                        *)
(***************************************************************************)

\* A step that keeps InvitesOK and moves neither the photos, nor the requests, nor
\* the log.
LEMMA InvitesMove ==
    ASSUME IInv, UNCHANGED <<media, stored, logged, served, view>>, acts' \in {acts, acts + 1},
           InvitesOK'
    PROVE  IInv'
<1>1. PhotosOK /\ RequestsOK /\ EntriesOK /\ ViewOK  BY DEF IInv
<1>2. UNCHANGED <<entries, drawn, reqs, answer, opened, unlogged>>  BY DEF logged, served
<1>3. acts \in Nat  BY <1>1 DEF RequestsOK
<1>4. \A m \in Media : Visible(m)' => Visible(m)  BY DEF Visible
<1>5. PhotosOK' /\ RequestsOK' /\ EntriesOK' /\ ViewOK'
  BY <1>1, <1>2, <1>3, <1>4, PhotosKept, RequestsKept, EntriesKept, ViewKept
<1>6. QED  BY <1>5 DEF IInv

\* The invite's step keeps the invariant: an id given up on is revoked, or a stray
\* once nobody is left to.
LEMMA NextInviting == ASSUME IInv, Inviting PROVE IInv'
<1>0. InvitesOK /\ acts \in Nat  BY DEF IInv, RequestsOK
<1> USE DEF ToRevoke
<1>1. /\ rec \in [Ids -> {"none", "active", "revoked"}]
      /\ revoke \in [id : Ids \cup {NoId}, busy : BOOLEAN]
      /\ revokes \subseteq [id : Ids, by : {"invite", "people"}]
      /\ ids \subseteq Ids /\ gaveUp \cup given \cup strays \subseteq ids
      /\ \A i \in Ids : ToRevoke(i) => i \in ids
      /\ gaveUp \cap given = {}
      /\ post # "none" <=> step = "creating"
      /\ step = "creating" => draft \in ids \ (gaveUp \cup given) /\ ~ToRevoke(draft)
      /\ post = "created" => rec[draft] # "none"
      /\ \A i \in given : rec[i] # "none" /\ ~ToRevoke(i)
      /\ \A i \in Ids : rec[i] = "active" /\ i \notin given =>
           (step = "creating" /\ i \in gaveUp \cup {draft}) \/ i \in strays \/ ToRevoke(i)
  BY <1>0 DEF InvitesOK, InvitesAccounted
<1>2. ASSUME UNCHANGED <<media, stored, logged, served, view>>, acts' \in {acts, acts + 1},
             UNCHANGED revoke, rec' \in [Ids -> {"none", "active", "revoked"}],
             revokes' \subseteq [id : Ids, by : {"invite", "people"}],
             ids' \subseteq Ids, gaveUp' \cup given' \cup strays' \subseteq ids',
             \A i \in Ids : ToRevoke(i)' => i \in ids',
             gaveUp' \cap given' = {},
             post' # "none" <=> step' = "creating",
             step' = "creating" => draft' \in ids' \ (gaveUp' \cup given') /\ ~ToRevoke(draft)',
             post' = "created" => rec'[draft'] # "none",
             \A i \in given' : rec'[i] # "none" /\ ~ToRevoke(i)',
             \A i \in Ids : rec'[i] = "active" /\ i \notin given' =>
               (step' = "creating" /\ i \in gaveUp' \cup {draft'}) \/ i \in strays' \/ ToRevoke(i)'
      PROVE  IInv'
  <2>1. InvitesAccounted'  BY <1>2 DEF InvitesAccounted
  <2>2. InvitesOK'  BY <1>1, <1>2, <2>1 DEF InvitesOK
  <2>3. QED  BY <1>2, <2>2, InvitesMove
<1>3. CASE OpenInvite
  BY <1>1, <1>2, <1>3 DEF OpenInvite, rows, screens
<1>4. ASSUME NEW i \in Ids, Create(i) PROVE IInv'
  <2>1. UNCHANGED <<rows, logged, served, gaveUp, given, revokes, screens, view, strays>>
        /\ step = "form" /\ step' = "creating" /\ acts' = acts + 1
        /\ i \notin ids /\ ids' = ids \cup {i} /\ draft' = i /\ post' = "sent"
    BY <1>4 DEF Create, Act, Draw
  <2>2. UNCHANGED <<rec, media, stored, revoke>>  BY <2>1 DEF rows, screens
  <2>3. step # "creating"  BY <2>1
  <2>4. QED  BY <1>1, <1>2, <2>1, <2>2, <2>3
<1>5. CASE PostArrives
  <2>1. /\ post = "sent" /\ post' \in {"created", "conflict"}
        /\ rec' = [rec EXCEPT ![draft] = IF @ = "none" THEN "active" ELSE @]
        /\ UNCHANGED <<media, stored, logged, served, step, draft, gaveUp, ids, given, revokes, screens,
                       view, strays, acts>>
    BY <1>5 DEF PostArrives, Insert
  <2>2. UNCHANGED revoke /\ step = "creating" /\ draft \in Ids  BY <1>1, <2>1 DEF screens
  <2>3. /\ rec' \in [Ids -> {"none", "active", "revoked"}] /\ rec'[draft] # "none"
        /\ \A i \in Ids : i # draft => rec'[i] = rec[i]
        /\ \A i \in Ids : rec[i] # "none" => rec'[i] # "none"
    BY <1>1, <2>1, <2>2
  <2>4. \A i \in Ids : rec'[i] = "active" /\ i \notin given =>
           (step = "creating" /\ i \in gaveUp \cup {draft}) \/ i \in strays \/ ToRevoke(i)
    BY <1>1, <2>2, <2>3
  <2>5. QED  BY <1>1, <1>2, <2>1, <2>2, <2>3, <2>4
<1>6. CASE PostLost
  BY <1>1, <1>2, <1>6 DEF PostLost, rows, screens
\* What RevokeAbandoned leaves.
<1>7. ASSUME NEW to \in {"share", "form"}, RevokeAbandoned(to)
      PROVE  /\ step' = to /\ post' = "none" /\ gaveUp' = {}
             /\ revokes' \subseteq [id : Ids, by : {"invite", "people"}]
             /\ \A i \in Ids : ToRevoke(i)' <=> ToRevoke(i) \/ i \in gaveUp
  <2>1. /\ step' = to /\ post' = "none" /\ gaveUp' = {}
        /\ revokes' = revokes \cup {[id |-> i, by |-> "invite"] : i \in gaveUp}
    BY <1>7 DEF RevokeAbandoned
  <2>2. revokes' \subseteq [id : Ids, by : {"invite", "people"}]  BY <1>1, <2>1
  <2>3. \A i, j : [id |-> i, by |-> "invite"] = [id |-> j, by |-> "invite"] => i = j  OBVIOUS
  <2>4. QED  BY <2>1, <2>2, <2>3
<1>8. CASE Created
  <2>1. /\ post = "created" /\ RevokeAbandoned("share") /\ given' = given \cup {draft}
        /\ UNCHANGED <<rows, logged, served, draft, ids, screens, view, strays, acts>>
    BY <1>8 DEF Created
  <2>2. UNCHANGED <<rec, media, stored, revoke>>  BY <2>1 DEF rows, screens
  <2>3. step = "creating" /\ draft \in ids \ (gaveUp \cup given) /\ ~ToRevoke(draft) /\ rec[draft] # "none"
    BY <1>1, <2>1
  <2>4. /\ step' = "share" /\ post' = "none" /\ gaveUp' = {}
        /\ revokes' \subseteq [id : Ids, by : {"invite", "people"}]
        /\ \A i \in Ids : ToRevoke(i)' <=> ToRevoke(i) \/ i \in gaveUp
    BY <1>7, <2>1
  <2>5. \A i \in given' : rec'[i] # "none" /\ ~ToRevoke(i)'  BY <1>1, <2>1, <2>2, <2>3, <2>4
  <2>6. \A i \in Ids : rec'[i] = "active" /\ i \notin given' => i \in strays' \/ ToRevoke(i)'
    BY <1>1, <2>1, <2>2, <2>3, <2>4
  <2>7. \A i \in Ids : ToRevoke(i)' => i \in ids'  BY <1>1, <2>1, <2>4
  <2>8. QED  BY <1>1, <1>2, <2>1, <2>2, <2>3, <2>4, <2>5, <2>6, <2>7
<1>9. ASSUME NEW i \in Ids, Conflict(i) PROVE IInv'
  <2>1. /\ post = "conflict" /\ i \notin ids /\ ids' = ids \cup {i} /\ draft' = i /\ post' = "sent"
        /\ gaveUp' = gaveUp \cup {draft}
        /\ UNCHANGED <<rows, logged, served, step, given, revokes, screens, view, strays, acts>>
    BY <1>9 DEF Conflict, Draw
  <2>2. UNCHANGED <<rec, media, stored, revoke>>  BY <2>1 DEF rows, screens
  <2>3. step = "creating" /\ draft \in ids \ (gaveUp \cup given) /\ ~ToRevoke(draft)
    BY <1>1, <2>1
  <2>4. QED  BY <1>1, <1>2, <2>1, <2>2, <2>3
<1>10. CASE TooManyConflicts
  <2>1. /\ post = "conflict" /\ step' = "form" /\ post' = "none" /\ gaveUp' = {}
        /\ revokes' = revokes \cup {[id |-> i, by |-> "invite"] : i \in gaveUp \cup {draft}}
        /\ UNCHANGED <<rows, logged, served, draft, ids, given, screens, view, strays, acts>>
    BY <1>10 DEF TooManyConflicts
  <2>2. UNCHANGED <<rec, media, stored, revoke>>  BY <2>1 DEF rows, screens
  <2>3. step = "creating" /\ draft \in ids \ (gaveUp \cup given)  BY <1>1, <2>1
  <2>4. revokes' \subseteq [id : Ids, by : {"invite", "people"}]  BY <1>1, <2>1, <2>3
  <2>5. \A i, j : [id |-> i, by |-> "invite"] = [id |-> j, by |-> "invite"] => i = j  OBVIOUS
  <2>6. \A i \in Ids : ToRevoke(i)' <=> ToRevoke(i) \/ i \in gaveUp \cup {draft}  BY <2>1, <2>5
  <2>7. \A i \in given : ~ToRevoke(i)'  BY <1>1, <2>3, <2>6
  <2>8. \A i \in Ids : rec[i] = "active" /\ i \notin given => i \in strays \/ ToRevoke(i)'
    BY <1>1, <2>3, <2>6
  <2>9. \A i \in Ids : ToRevoke(i)' => i \in ids  BY <1>1, <2>3, <2>6
  <2>10. QED  BY <1>1, <1>2, <2>1, <2>2, <2>4, <2>7, <2>8, <2>9
<1>11. CASE CreateRefused
  <2>1. /\ post = "sent" /\ rec[draft] = "none" /\ RevokeAbandoned("form")
        /\ UNCHANGED <<rows, logged, served, draft, ids, given, screens, view, strays, acts>>
    BY <1>11 DEF CreateRefused
  <2>2. UNCHANGED <<rec, media, stored, revoke>>  BY <2>1 DEF rows, screens
  <2>3. /\ step' = "form" /\ post' = "none" /\ gaveUp' = {}
        /\ revokes' \subseteq [id : Ids, by : {"invite", "people"}]
        /\ \A i \in Ids : ToRevoke(i)' <=> ToRevoke(i) \/ i \in gaveUp
    BY <1>7, <2>1
  <2>4. \A i \in given : ~ToRevoke(i)'  BY <1>1, <2>3
  <2>5. \A i \in Ids : rec[i] = "active" /\ i \notin given => i \in strays \/ ToRevoke(i)'
    BY <1>1, <2>1, <2>3
  <2>6. \A i \in Ids : ToRevoke(i)' => i \in ids  BY <1>1, <2>3
  <2>7. QED  BY <1>1, <1>2, <2>1, <2>2, <2>3, <2>4, <2>5, <2>6
<1>12. CASE LeaveInvite
  <2>1. /\ step \in {"form", "share"} /\ step' = "away"
        /\ UNCHANGED <<rows, logged, served, gaveUp, ids, post, given, revokes, screens, view, strays, acts>>
    BY <1>12 DEF LeaveInvite
  <2>2. UNCHANGED <<rec, media, stored, revoke>> /\ step # "creating"  BY <2>1 DEF rows, screens
  <2>3. QED  BY <1>1, <1>2, <2>1, <2>2
<1>13. CASE InviteCut
  <2>1. /\ step = "creating" /\ step' = "away" /\ post' = "none"
        /\ gaveUp' = {} /\ strays' = strays \cup gaveUp \cup {draft}
        /\ UNCHANGED <<rows, logged, served, ids, given, revokes, screens, view, acts>>
    BY <1>13 DEF InviteCut
  <2>2. UNCHANGED <<rec, media, stored, revoke>>  BY <2>1 DEF rows, screens
  <2>3. QED  BY <1>1, <1>2, <2>1, <2>2
<1>14. ASSUME NEW i \in Ids, LateLands(i) PROVE IInv'
  <2>1. /\ i \in strays /\ rec' = [rec EXCEPT ![i] = IF @ = "none" THEN "active" ELSE @]
        /\ UNCHANGED <<media, stored, logged, served, invite, revokes, screens, view, strays, acts>>
    BY <1>14 DEF LateLands, Insert
  <2>2. UNCHANGED <<revoke, step, draft, gaveUp, ids, post, given>>  BY <2>1 DEF screens, invite
  <2>3. /\ rec' \in [Ids -> {"none", "active", "revoked"}]
        /\ \A j \in Ids : j # i => rec'[j] = rec[j]
        /\ \A j \in Ids : rec[j] # "none" => rec'[j] # "none"
    BY <1>1, <2>1
  <2>4. post = "created" => draft \in Ids  BY <1>1
  <2>5. QED  BY <1>1, <1>2, <2>1, <2>2, <2>3, <2>4
<1>15. QED
  BY <1>3, <1>4, <1>5, <1>6, <1>8, <1>9, <1>10, <1>11, <1>12, <1>13, <1>14 DEF Inviting

\* The step that revokes keeps the invariant.
LEMMA NextRevoking == ASSUME IInv, Revoking PROVE IInv'
<1>0. InvitesOK /\ acts \in Nat  BY DEF IInv, RequestsOK
<1> USE DEF ToRevoke
<1>1. /\ rec \in [Ids -> {"none", "active", "revoked"}]
      /\ revoke \in [id : Ids \cup {NoId}, busy : BOOLEAN]
      /\ revokes \subseteq [id : Ids, by : {"invite", "people"}]
      /\ ids \subseteq Ids /\ gaveUp \cup given \cup strays \subseteq ids
      /\ \A i \in Ids : ToRevoke(i) => i \in ids
      /\ post = "created" => rec[draft] # "none"
      /\ step = "creating" => draft \in ids \ (gaveUp \cup given) /\ ~ToRevoke(draft)
      /\ post # "none" <=> step = "creating"
      /\ \A i \in given : rec[i] # "none" /\ ~ToRevoke(i)
      /\ \A i \in Ids : rec[i] = "active" /\ i \notin given =>
           (step = "creating" /\ i \in gaveUp \cup {draft}) \/ i \in strays \/ ToRevoke(i)
  BY <1>0 DEF InvitesOK, InvitesAccounted
\* The rows, the revocations and the people screen are moved, the invite is not.
<1>2. ASSUME UNCHANGED <<media, stored, logged, served, view>>, acts' \in {acts, acts + 1},
             UNCHANGED invite, revoke' \in [id : Ids \cup {NoId}, busy : BOOLEAN],
             rec' \in [Ids -> {"none", "active", "revoked"}],
             revokes' \subseteq [id : Ids, by : {"invite", "people"}],
             strays' \subseteq ids, \A i \in Ids : ToRevoke(i)' => ToRevoke(i),
             \A i \in Ids : rec[i] # "none" => rec'[i] # "none",
             \A i \in Ids : rec'[i] = "active" => rec[i] = "active",
             strays \subseteq strays',
             \A i \in Ids : rec'[i] = "active" /\ ToRevoke(i) => ToRevoke(i)' \/ i \in strays'
      PROVE  IInv'
  <2>1. UNCHANGED <<step, draft, gaveUp, ids, post, given>>  BY <1>2 DEF invite
  <2>2. InvitesAccounted'
    <3>1. \A i \in given : rec'[i] # "none" /\ ~ToRevoke(i)'  BY <1>1, <1>2
    <3>2. \A i \in Ids : rec'[i] = "active" /\ i \notin given =>
             (step = "creating" /\ i \in gaveUp \cup {draft}) \/ i \in strays' \/ ToRevoke(i)'
      BY <1>1, <1>2
    <3>3. QED  BY <2>1, <3>1, <3>2 DEF InvitesAccounted
  <2>3. post = "created" => rec'[draft] # "none"  BY <1>1, <1>2
  <2>4. \A i \in Ids : ToRevoke(i)' => i \in ids
    <3>1. \A i \in Ids : ToRevoke(i)' => ToRevoke(i)  BY <1>2
    <3>2. \A i \in Ids : ToRevoke(i) => i \in ids  BY <1>1
    <3>3. QED  BY <3>1, <3>2
  <2>5. step = "creating" => ~ToRevoke(draft)'  BY <1>1, <1>2, <2>1
  <2>6. InvitesOK'  BY <1>0, <1>2, <2>1, <2>2, <2>3, <2>4, <2>5 DEF InvitesOK
  <2>7. QED  BY <1>2, <2>6, InvitesMove
\* The question is put, taken back or answered; no row is touched.
<1>3. ASSUME UNCHANGED <<rows, logged, served, invite, view, strays, acts>>,
             revoke' \in [id : Ids \cup {NoId}, busy : BOOLEAN],
             UNCHANGED revokes \/ \E i \in Ids : revokes' = revokes \cup {[id |-> i, by |-> "people"]}
      PROVE  IInv'
  <2>1. UNCHANGED <<rec, media, stored>>  BY <1>3 DEF rows
  <2>2. \A i \in Ids : ToRevoke(i)' <=> ToRevoke(i)  BY <1>3
  <2>3. revokes' \subseteq [id : Ids, by : {"invite", "people"}]  BY <1>1, <1>3
  <2>4. strays' \subseteq ids  BY <1>1, <1>3
  <2>5. QED  BY <1>1, <1>2, <1>3, <2>1, <2>2, <2>3, <2>4
<1>4. NoRevoke \in [id : Ids \cup {NoId}, busy : BOOLEAN]  BY DEF NoRevoke
<1>5. CASE OpenPeople \/ PeopleLoaded \/ CancelRevoke \/ LeavePeople
  <2>1. UNCHANGED <<rows, logged, served, invite, revokes, view, strays, acts>>
    BY <1>5 DEF OpenPeople, PeopleLoaded, CancelRevoke, LeavePeople
  <2>2. revoke' \in {revoke, NoRevoke}
    BY <1>5 DEF OpenPeople, PeopleLoaded, CancelRevoke, LeavePeople
  <2>3. QED  BY <1>1, <1>3, <1>4, <2>1, <2>2
<1>6. CASE ConfirmRevoke
  <2>1. /\ revoke # NoRevoke /\ ~revoke.busy /\ revoke' = [revoke EXCEPT !.busy = TRUE]
        /\ revokes' = revokes \cup {[id |-> revoke.id, by |-> "people"]}
        /\ UNCHANGED <<rows, logged, served, invite, view, strays, acts>>
    BY <1>6 DEF ConfirmRevoke
  <2>2. revoke.id # NoId
    <3>1. revoke = [id |-> revoke.id, busy |-> revoke.busy] /\ revoke.busy = FALSE  BY <1>1, <2>1
    <3>2. QED  BY <2>1, <3>1 DEF NoRevoke
  <2>3. revoke.id \in Ids /\ TRUE \in BOOLEAN  BY <1>1, <2>2
  <2>4. revoke' \in [id : Ids \cup {NoId}, busy : BOOLEAN]  BY <1>1, <2>1, <2>3
  <2>5. QED  BY <1>3, <2>1, <2>3, <2>4
<1>7. ASSUME NEW i \in Ids, AskRevoke(i) PROVE IInv'
  <2>1. /\ revoke' = [id |-> i, busy |-> FALSE]
        /\ UNCHANGED <<rows, logged, served, invite, revokes, view, strays, acts>>
    BY <1>7 DEF AskRevoke
  <2>2. FALSE \in BOOLEAN  OBVIOUS
  <2>3. revoke' \in [id : Ids \cup {NoId}, busy : BOOLEAN]  BY <2>1, <2>2
  <2>4. QED  BY <1>3, <2>1, <2>3
<1>8. ASSUME NEW i \in Ids, RevokedElsewhere(i) PROVE IInv'
  <2>1. /\ rec' = [rec EXCEPT ![i] = "revoked"] /\ acts' = acts + 1
        /\ UNCHANGED <<media, stored, logged, served, invite, revokes, screens, view, strays>>
    BY <1>8 DEF RevokedElsewhere, RevokeRow, Act
  <2>2. UNCHANGED revoke  BY <2>1 DEF screens
  <2>3. /\ rec' \in [Ids -> {"none", "active", "revoked"}]
        /\ \A j \in Ids : rec[j] # "none" => rec'[j] # "none"
        /\ \A j \in Ids : rec'[j] = "active" => rec[j] = "active"
    BY <1>1, <2>1
  <2>4. strays' \subseteq ids  BY <1>1, <2>1
  <2>5. QED  BY <1>1, <1>2, <2>1, <2>2, <2>3, <2>4
<1>9. ASSUME NEW v \in revokes, Revoked(v) PROVE IInv'
  <2>1. /\ revokes' = revokes \ {v} /\ rec' = [rec EXCEPT ![v.id] = "revoked"]
        /\ revoke' \in {revoke, NoRevoke}
        /\ UNCHANGED <<media, stored, logged, served, invite, view, strays, acts>>
    BY <1>9 DEF Revoked, RevokeRow
  <2>2. v.id \in Ids /\ v = [id |-> v.id, by |-> v.by]  BY <1>1
  <2>3. /\ rec' \in [Ids -> {"none", "active", "revoked"}]
        /\ \A j \in Ids : rec[j] # "none" => rec'[j] # "none"
        /\ \A j \in Ids : rec'[j] = "active" => rec[j] = "active" /\ j # v.id
    BY <1>1, <2>1, <2>2
  <2>4. \A j \in Ids : j # v.id => (ToRevoke(j)' <=> ToRevoke(j))  BY <2>1, <2>2
  <2>5. \A j \in Ids : ToRevoke(j)' => ToRevoke(j)  BY <2>1
  <2>6. /\ revoke' \in [id : Ids \cup {NoId}, busy : BOOLEAN]
        /\ revokes' \subseteq [id : Ids, by : {"invite", "people"}] /\ strays' \subseteq ids
    BY <1>1, <1>4, <2>1
  <2>7. \A j \in Ids : rec'[j] = "active" /\ ToRevoke(j) => ToRevoke(j)'  BY <2>3, <2>4
  <2>8. QED  BY <1>2, <2>1, <2>3, <2>5, <2>6, <2>7
<1>10. ASSUME NEW v \in revokes, RevokeFails(v) PROVE IInv'
  <2>1. /\ revokes' = revokes \ {v}
        /\ UNCHANGED <<rows, logged, served, invite, view, acts>>
        /\ IF v.by = "people" THEN revoke' = [revoke EXCEPT !.busy = FALSE] /\ UNCHANGED strays
           ELSE strays' = strays \cup {v.id} /\ UNCHANGED revoke
    BY <1>10 DEF RevokeFails
  <2>2. v.id \in Ids /\ v = [id |-> v.id, by |-> v.by] /\ v.by \in {"invite", "people"}  BY <1>1
  <2>3. UNCHANGED <<rec, media, stored>>  BY <2>1 DEF rows
  <2>4. revoke' \in [id : Ids \cup {NoId}, busy : BOOLEAN]
    <3>1. FALSE \in BOOLEAN  OBVIOUS
    <3>2. [revoke EXCEPT !.busy = FALSE] \in [id : Ids \cup {NoId}, busy : BOOLEAN]
      BY <1>1, <3>1
    <3>3. QED  BY <1>1, <2>1, <3>2
  <2>5. strays \subseteq strays' /\ strays' \subseteq ids
    <3>1. v.by = "invite" => v.id \in ids  BY <1>1, <2>2
    <3>2. QED  BY <1>1, <2>1, <2>2, <3>1
  <2>6. \A j \in Ids : ToRevoke(j)' => ToRevoke(j)  BY <2>1
  <2>7. \A j \in Ids : ToRevoke(j) => ToRevoke(j)' \/ j \in strays'
    <3>1. ASSUME NEW j \in Ids, ToRevoke(j), ~ToRevoke(j)' PROVE j \in strays'
      <4>1. v = [id |-> j, by |-> "invite"]  BY <2>1, <3>1
      <4>2. v.by = "invite" /\ v.id = j  BY <4>1
      <4>3. QED  BY <2>1, <4>2
    <3>2. QED  BY <3>1
  <2>8. revokes' \subseteq [id : Ids, by : {"invite", "people"}]  BY <1>1, <2>1
  <2>9. QED  BY <1>1, <1>2, <2>1, <2>3, <2>4, <2>5, <2>6, <2>7, <2>8
<1>11. QED  BY <1>5, <1>6, <1>7, <1>8, <1>9, <1>10 DEF Revoking

-----------------------------------------------------------------------------
(***************************************************************************)
(* The log on the screen.                                                  *)
(***************************************************************************)

\* What is put behind a sequence comes behind all of it.
LEMMA Concatenated ==
    ASSUME NEW S, NEW a \in Seq(S), NEW b \in Seq(S)
    PROVE  /\ Len(a) \in Nat /\ a \in Seq(S) /\ a \o b \in Seq(S)
           /\ Len(a \o b) = Len(a) + Len(b)
           /\ \A k \in 1..Len(a \o b) :
                \/ k \in 1..Len(a) /\ (a \o b)[k] = a[k]
                \/ k - Len(a) \in 1..Len(b) /\ k > Len(a) /\ (a \o b)[k] = b[k - Len(a)]
<1>1. Len(a) \in Nat /\ Len(b) \in Nat /\ a \o b \in Seq(S) /\ Len(a \o b) = Len(a) + Len(b)
  OBVIOUS
<1>2. \A n, m \in Nat : \A k \in 1..(n + m) :
         k \in 1..n \/ (k - n \in 1..m /\ k > n)
  OBVIOUS
<1>3. \A k \in 1..Len(a) + Len(b) : (a \o b)[k] = IF k <= Len(a) THEN a[k] ELSE b[k - Len(a)]
  OBVIOUS
<1>4. ASSUME NEW k \in 1..Len(a) + Len(b)
      PROVE  \/ k \in 1..Len(a) /\ (a \o b)[k] = a[k]
             \/ k - Len(a) \in 1..Len(b) /\ k > Len(a) /\ (a \o b)[k] = b[k - Len(a)]
  <2>1. CASE k \in 1..Len(a)  BY <1>1, <1>3, <2>1
  <2>2. CASE k - Len(a) \in 1..Len(b) /\ k > Len(a)  BY <1>1, <1>3, <2>2
  <2>3. QED  BY <1>1, <1>2, <2>1, <2>2
<1>5. QED  BY <1>1, <1>4

\* The step on the log's screen keeps the invariant: a page of an earlier view is
\* dropped, and one of this view goes behind what it was asked from.
LEMMA NextLogging == ASSUME IInv, Logging PROVE IInv'
<1>0. PhotosOK /\ RequestsOK /\ EntriesOK /\ InvitesOK /\ ViewOK  BY DEF IInv
<1> DEFINE Logs == [who : Ids \cup {All, NoId}, phase : {"none", "loading", "ready", "more"},
                    shown : Seq(Logged), next : Nat]
           Pages == [seq : Nat, who : Ids \cup {All, NoId}, before : Nat]
<1>1. /\ log \in Logs /\ logSeq \in Nat /\ pages \subseteq Pages
      /\ \A p \in pages : p.seq <= logSeq
      /\ \A p \in pages : p.seq = logSeq =>
           log.phase \in {"loading", "more"} /\ p.who = log.who /\ p.before = log.next
      /\ log.phase = "loading" => log.shown = <<>> /\ log.next = 0
      /\ log.phase = "more" => log.next > 0
      /\ log.next > 0 => \A k \in 1..Len(log.shown) : log.shown[k].id >= log.next
      /\ \A k \in 1..Len(log.shown) : log.who \in {log.shown[k].who, All}
      /\ \A j, k \in 1..Len(log.shown) : j < k => log.shown[j].id > log.shown[k].id
  BY <1>0 DEF ViewOK
<1>2. acts \in Nat  BY <1>0 DEF RequestsOK
\* Only the screen is moved.
<1>3. ASSUME UNCHANGED <<rows, logged, served, invite, revokes, screens, strays>>,
             acts' \in {acts, acts + 1}, ViewOK'
      PROVE  IInv'
  <2>1. UNCHANGED <<rec, media, stored, entries, drawn, reqs, answer, opened, unlogged, revoke>>
    BY <1>3 DEF rows, logged, served, screens
  <2>2. \A m \in Media : Visible(m)' => Visible(m)  BY <2>1 DEF Visible
  <2>3. PhotosOK' /\ RequestsOK' /\ EntriesOK' /\ InvitesOK'
    BY <1>0, <1>2, <1>3, <2>1, <2>2, PhotosKept, RequestsKept, EntriesKept, InvitesKept
  <2>4. QED  BY <1>3, <2>3 DEF IInv
<1>4. ASSUME NEW who \in Ids \cup {All}, OpenLog(who) PROVE IInv'
  <2>1. /\ log' = [who |-> who, phase |-> "loading", shown |-> <<>>, next |-> 0]
        /\ logSeq' = logSeq + 1 /\ acts' = acts + 1
        /\ pages' = pages \cup {[seq |-> logSeq', who |-> who, before |-> 0]}
        /\ UNCHANGED <<rows, logged, served, invite, revokes, screens, strays>>
    BY <1>4 DEF OpenLog, Act, Ask
  <2>2. logSeq' \in Nat /\ \A n \in Nat : n <= logSeq => n <= logSeq' /\ n # logSeq'
    BY <1>1, <2>1
  <2>3. /\ log' \in Logs /\ log'.phase = "loading" /\ log'.shown = <<>> /\ log'.next = 0
        /\ log'.who = who
    BY <2>1
  <2>4. pages' \subseteq Pages
    <3>1. [seq |-> logSeq', who |-> who, before |-> 0] \in Pages  BY <2>2
    <3>2. QED  BY <1>1, <2>1, <3>1
  <2>5. \A p \in pages' : \/ (p \in pages /\ p.seq <= logSeq' /\ p.seq # logSeq')
                           \/ p = [seq |-> logSeq', who |-> who, before |-> 0]
    BY <1>1, <2>1, <2>2
  <2>6. \A p \in pages' : p.seq <= logSeq' /\ (p.seq = logSeq' => p.who = who /\ p.before = 0)
    BY <2>2, <2>5
  <2>7. \A k : k \notin 1..Len(log'.shown)  BY <2>3
  <2>8. ViewOK'  BY <2>2, <2>3, <2>4, <2>6, <2>7 DEF ViewOK
  <2>9. QED  BY <1>3, <2>1, <2>8
<1>5. CASE MoreLog
  <2>1. /\ log.phase = "ready" /\ log.next > 0 /\ log' = [log EXCEPT !.phase = "more"]
        /\ logSeq' = logSeq
        /\ pages' = pages \cup {[seq |-> logSeq', who |-> log.who, before |-> log.next]}
        /\ UNCHANGED <<rows, logged, served, invite, revokes, screens, strays, acts>>
    BY <1>5 DEF MoreLog, Ask
  <2>2. /\ log' \in Logs /\ log'.phase = "more" /\ log'.shown = log.shown /\ log'.next = log.next
        /\ log'.who = log.who
    BY <1>1, <2>1
  <2>3. /\ pages' \subseteq Pages
        /\ \A p \in pages' : p \in pages \/ p = [seq |-> logSeq, who |-> log.who, before |-> log.next]
    <3>1. [seq |-> logSeq, who |-> log.who, before |-> log.next] \in Pages  BY <1>1
    <3>2. QED  BY <1>1, <2>1, <3>1
  <2>4. \A p \in pages : p.seq # logSeq  BY <1>1, <2>1
  <2>5. \A p \in pages' : p.seq <= logSeq /\ (p.seq = logSeq => p.who = log.who /\ p.before = log.next)
    BY <1>1, <2>3, <2>4
  <2>6. ViewOK'  BY <1>1, <2>1, <2>2, <2>3, <2>5 DEF ViewOK
  <2>7. QED  BY <1>3, <2>1, <2>6
<1>6. CASE CloseLog
  <2>1. /\ log' = NoLog /\ logSeq' = logSeq + 1
        /\ UNCHANGED <<rows, logged, served, invite, revokes, screens, pages, strays, acts>>
    BY <1>6 DEF CloseLog
  <2>2. logSeq' \in Nat /\ \A n \in Nat : n <= logSeq => n <= logSeq' /\ n # logSeq'
    BY <1>1, <2>1
  <2>3. /\ log' \in Logs /\ log'.phase = "none" /\ log'.shown = <<>> /\ log'.next = 0
    BY <2>1 DEF NoLog
  <2>4. \A k : k \notin 1..Len(log'.shown)  BY <2>3
  <2>5. \A p \in pages : p.seq <= logSeq' /\ p.seq # logSeq'  BY <1>1, <2>2
  <2>6. ViewOK'  BY <1>1, <2>1, <2>2, <2>3, <2>4, <2>5 DEF ViewOK
  <2>7. QED  BY <1>3, <2>1, <2>6
<1>7. ASSUME NEW p \in pages, PageRead(p) PROVE IInv'
  <2> DEFINE s == ListEntries(p)
             page == Page(s)
             next == IF Len(s) > Limit THEN s[Limit].id ELSE 0
  <2>1. /\ pages' = pages \ {p} /\ logSeq' = logSeq
        /\ UNCHANGED <<rows, logged, served, invite, revokes, screens, strays, acts>>
        /\ IF p.seq # logSeq THEN UNCHANGED log
           ELSE log' = [log EXCEPT !.phase = "ready", !.shown = @ \o page, !.next = next]
    BY <1>7 DEF PageRead
  <2>2. CASE p.seq # logSeq
    <3>1. ViewOK'  BY <1>1, <2>1, <2>2 DEF ViewOK
    <3>2. QED  BY <1>3, <2>1, <3>1
  <2>3. CASE p.seq = logSeq
    <3>1. log.phase \in {"loading", "more"} /\ p.who = log.who /\ p.before = log.next
      BY <1>1, <2>3
    <3>2. \A r \in pages' : r.seq # logSeq
      <4>1. ASSUME NEW r \in pages, r.seq = logSeq PROVE r = p
        <5>1. r \in Pages /\ p \in Pages  BY <1>1
        <5>2. r.seq = p.seq /\ r.who = p.who /\ r.before = p.before  BY <1>1, <2>3, <4>1
        <5>3. QED  BY <5>1, <5>2
      <4>2. QED  BY <2>1, <4>1
    <3>3. /\ s \in Seq(Logged)
          /\ \A k \in 1..Len(s) : p.who \in {s[k].who, All} /\ (p.before > 0 => s[k].id < p.before)
          /\ \A j, k \in 1..Len(s) : j < k => s[j].id > s[k].id
      BY <1>0, ListedNewestFirst
    <3>4. Limit \in Nat /\ Limit >= 1  BY SharingAssumption
    <3> HIDE DEF s
    <3>5. /\ page \in Seq(Logged) /\ Len(page) \in Nat /\ Len(page) <= Len(s)
          /\ Len(page) = IF Len(s) > Limit THEN Limit ELSE Len(s)
          /\ \A k \in 1..Len(page) : page[k] = s[k] /\ k \in 1..Len(s)
      <4> DEFINE n == IF Len(s) > Limit THEN Limit ELSE Len(s)
      <4>1. Len(s) \in Nat /\ n \in Nat /\ n <= Len(s)  BY <3>3, <3>4
      <4>2. page = SubSeq(s, 1, n)  BY DEF Page
      <4> HIDE DEF page, n
      <4>3. page \in Seq(Logged) /\ Len(page) = n  BY <3>3, <4>1, <4>2
      <4>4. \A k \in 1..n : page[k] = s[k] /\ k \in 1..Len(s)  BY <3>3, <4>1, <4>2
      <4>5. QED  BY <4>1, <4>3, <4>4 DEF n
    <3>6. /\ \A k \in 1..Len(page) :
               p.who \in {page[k].who, All} /\ page[k].id \in Nat /\ (p.before > 0 => page[k].id < p.before)
          /\ \A j, k \in 1..Len(page) : j < k => page[j].id > page[k].id
      <4> HIDE DEF page
      <4>1. ASSUME NEW k \in 1..Len(page)
            PROVE  p.who \in {page[k].who, All} /\ page[k].id \in Nat /\ (p.before > 0 => page[k].id < p.before)
        <5>1. page[k] = s[k] /\ k \in 1..Len(s)  BY <3>5
        <5>2. s[k] \in Logged  BY <3>3, <5>1
        <5>3. s[k].id \in Nat  BY <5>2 DEF Logged
        <5>4. p.who \in {s[k].who, All} /\ (p.before > 0 => s[k].id < p.before)  BY <3>3, <5>1
        <5>5. QED  BY <5>1, <5>3, <5>4
      <4>2. ASSUME NEW j \in 1..Len(page), NEW k \in 1..Len(page), j < k PROVE page[j].id > page[k].id
        <5>1. page[j] = s[j] /\ j \in 1..Len(s) /\ page[k] = s[k] /\ k \in 1..Len(s)  BY <3>5
        <5>2. s[j].id > s[k].id  BY <3>3, <4>2, <5>1
        <5>3. QED  BY <5>1, <5>2
      <4>3. QED  BY <4>1, <4>2
    <3>7. next \in Nat /\ (next > 0 => \A k \in 1..Len(page) : page[k].id >= next)
      <4>1. CASE Len(s) > Limit
        <5>1. Limit \in 1..Len(page) /\ next = page[Limit].id  BY <3>4, <3>5, <4>1
        <5>2. \A k \in 1..Len(page) : page[k].id >= page[Limit].id
          <6>1. Len(page) = Limit  BY <3>5, <4>1
          <6>2. \A k \in 1..Limit : page[k].id \in Nat  BY <3>6, <6>1
          <6>3. \A k \in 1..Limit : k < Limit => page[k].id > page[Limit].id  BY <3>6, <5>1, <6>1
          <6> HIDE DEF page, next, s
          <6>4. ASSUME NEW k \in 1..Limit PROVE page[k].id >= page[Limit].id
            <7>1. CASE k = Limit  BY <6>2, <6>4, <7>1
            <7>2. CASE k # Limit
              <8>1. k < Limit  BY <3>4, <6>4, <7>2
              <8>2. page[k].id > page[Limit].id  BY <6>3, <6>4, <8>1
              <8>3. Limit \in 1..Limit  BY <3>4
              <8>4. page[k].id \in Nat /\ page[Limit].id \in Nat  BY <6>2, <6>4, <8>3
              <8>5. \A a, b \in Nat : a > b => a >= b  OBVIOUS
              <8>6. QED  BY <8>2, <8>4, <8>5
            <7>3. QED  BY <7>1, <7>2
          <6>5. QED  BY <6>1, <6>4
        <5>3. QED  BY <3>6, <5>1, <5>2
      <4>2. CASE ~(Len(s) > Limit)  BY <4>2
      <4>3. QED  BY <4>1, <4>2
    <3> HIDE DEF page, next
    <3> DEFINE shown == log.shown \o page
               n == Len(log.shown)
    <3>8. /\ n \in Nat /\ log.shown \in Seq(Logged) /\ shown \in Seq(Logged)
          /\ Len(shown) = n + Len(page)
          /\ \A k \in 1..Len(shown) :
               \/ (k \in 1..n /\ shown[k] = log.shown[k])
               \/ (k - n \in 1..Len(page) /\ k > n /\ shown[k] = page[k - n])
      <4>1. log \in Logs  BY <1>1
      <4>2. log.shown \in Seq(Logged)  BY <4>1
      <4>3. page \in Seq(Logged)
        <5>1. page \in Seq(Logged) /\ Len(page) \in Nat  BY <3>5
        <5>2. QED  BY <5>1
      <4>4. QED  BY <4>2, <4>3, Concatenated
    <3>9. \A k \in 1..n : log.shown[k].id \in Nat /\ \A j \in 1..Len(page) : log.shown[k].id > page[j].id
      <4>1. ASSUME NEW k \in 1..n, NEW j \in 1..Len(page)
            PROVE  log.shown[k].id \in Nat /\ log.shown[k].id > page[j].id
        <5>1. log.shown[k] \in Logged  BY <3>8, <4>1
        <5>2. log.shown[k].id \in Nat  BY <5>1 DEF Logged
        <5>3. log.phase = "more"  BY <1>1, <3>1, <4>1
        <5>4. log.next > 0 /\ log.next \in Nat  BY <1>1, <5>3
        <5>5. log.shown[k].id >= log.next
          <6>1. \A i \in 1..n : log.shown[i].id >= log.next  BY <1>1, <5>4
          <6> HIDE DEF n
          <6>2. QED  BY <6>1
        <5>6. page[j].id < log.next /\ page[j].id \in Nat  BY <3>1, <3>6, <4>1, <5>4
        <5>7. \A a, b, c \in Nat : a >= b /\ c < b => a > c  OBVIOUS
        <5>8. QED  BY <5>2, <5>4, <5>5, <5>6, <5>7
      <4>2. \A k \in 1..n : log.shown[k] \in Logged  BY <3>8
      <4>3. QED  BY <4>1, <4>2 DEF Logged
    <3>10. log' = [log EXCEPT !.phase = "ready", !.shown = shown, !.next = next]
      BY <2>1, <2>3
    <3> HIDE DEF shown, n
    <3>11. /\ log' \in Logs /\ log'.phase = "ready" /\ log'.shown = shown /\ log'.next = next
           /\ log'.who = log.who
      <4>1. log' = [who |-> log.who, phase |-> "ready", shown |-> shown, next |-> next]
        BY <1>1, <3>10
      <4>2. QED  BY <1>1, <3>7, <3>8, <4>1
    <3>12. \A k \in 1..Len(shown) : log.who \in {shown[k].who, All}
      <4>1. ASSUME NEW k \in 1..Len(shown) PROVE log.who \in {shown[k].who, All}
        <5>1. CASE k \in 1..n /\ shown[k] = log.shown[k]
          <6>1. \A i \in 1..n : log.who \in {log.shown[i].who, All}  BY <1>1 DEF n
          <6>2. log.who \in {log.shown[k].who, All} /\ shown[k] = log.shown[k]  BY <5>1, <6>1, Zenon
          <6>3. QED  BY <6>2, Zenon
        <5>2. CASE k - n \in 1..Len(page) /\ shown[k] = page[k - n]  BY <3>1, <3>6, <5>2
        <5>3. QED  BY <3>8, <4>1, <5>1, <5>2
      <4>2. QED  BY <4>1
    <3>13. \A j, k \in 1..Len(shown) : j < k => shown[j].id > shown[k].id
      <4>1. ASSUME NEW j \in 1..Len(shown), NEW k \in 1..Len(shown), j < k
            PROVE  shown[j].id > shown[k].id
        <5>1. CASE k \in 1..n
          <6>1. j \in 1..n /\ shown[j] = log.shown[j] /\ shown[k] = log.shown[k]
            BY <3>8, <4>1, <5>1
          <6>2. QED  BY <1>1, <4>1, <5>1, <6>1 DEF n
        <5>2. CASE k > n /\ j \in 1..n
          <6>1. k - n \in 1..Len(page) /\ shown[k] = page[k - n] /\ shown[j] = log.shown[j]
            BY <3>8, <4>1, <5>2
          <6>2. QED  BY <3>9, <5>2, <6>1
        <5>3. CASE k > n /\ j > n
          <6>1. /\ k - n \in 1..Len(page) /\ shown[k] = page[k - n]
                /\ j - n \in 1..Len(page) /\ shown[j] = page[j - n] /\ j - n < k - n
            BY <3>8, <4>1, <5>3
          <6>2. QED  BY <3>6, <6>1
        <5>4. QED  BY <3>8, <4>1, <5>1, <5>2, <5>3
      <4>2. QED  BY <4>1
    <3>14. next > 0 => \A k \in 1..Len(shown) : shown[k].id >= next
      <4>1. ASSUME next > 0, NEW k \in 1..Len(shown) PROVE shown[k].id >= next
        <5>1. CASE k > n
          <6>1. k - n \in 1..Len(page) /\ shown[k] = page[k - n]  BY <3>8, <5>1
          <6>2. QED  BY <3>7, <4>1, <6>1
        <5>2. CASE k \in 1..n
          <6>1. Len(page) >= 1
            <7>1. CASE Len(s) > Limit  BY <3>4, <3>5, <7>1
            <7>2. CASE ~(Len(s) > Limit)  BY <4>1, <7>2 DEF next
            <7>3. QED  BY <7>1, <7>2
          <6>2. 1 \in 1..Len(page)  BY <3>5, <6>1
          <6>3. /\ shown[k] = log.shown[k] /\ log.shown[k].id \in Nat /\ log.shown[k].id > page[1].id
                /\ page[1].id >= next /\ page[1].id \in Nat
            BY <3>6, <3>7, <3>8, <3>9, <4>1, <5>2, <6>2
          <6>4. QED  BY <3>7, <6>3
        <5>3. QED  BY <3>8, <5>1, <5>2
      <4>2. QED  BY <4>1
    <3>15. pages' \subseteq Pages /\ \A r \in pages' : r.seq <= logSeq' /\ r.seq # logSeq'
      BY <1>1, <2>1, <3>2
    <3>16. ViewOK'  BY <1>1, <2>1, <3>11, <3>12, <3>13, <3>14, <3>15 DEF ViewOK
    <3>17. QED  BY <1>3, <2>1, <3>16
  <2>4. QED  BY <2>2, <2>3
<1>8. QED  BY <1>4, <1>5, <1>6, <1>7 DEF Logging

-----------------------------------------------------------------------------
(***************************************************************************)
(* Every step, and what follows.                                           *)
(***************************************************************************)

\* The invariant is inductive.
LEMMA NextIInv == IInv /\ [Next]_vars => IInv'
<1> SUFFICES ASSUME IInv, [Next]_vars PROVE IInv'  OBVIOUS
<1>1. CASE UNCHANGED vars
  <2>1. /\ UNCHANGED <<media, stored, logged, served, view, invite, revokes, strays, acts>>
        /\ UNCHANGED <<rec, revoke>>
    BY <1>1 DEF vars, rows, screens
  <2>2. InvitesOK'  BY <2>1, InvitesKept DEF IInv
  <2>3. QED  BY <2>1, <2>2, InvitesMove
<1>2. CASE Next
  BY <1>2, NextServing, NextRemoving, NextInviting, NextRevoking, NextLogging DEF Next
<1>3. QED  BY <1>1, <1>2

\* It holds for ever.
LEMMA AlwaysIInv == Spec => []IInv
<1>1. QED  BY InitIInv, NextIInv, PTL DEF Spec

\* A photo removed while it is fetched is a 404, however the removal and the
\* request interleave (get-media-asset.ts; remove-media.ts hides first).
THEOREM RemovedPhotoIsNotFound == Spec => []RemovalIsNotFound
<1>1. IInv => RemovalIsNotFound  BY DEF IInv, RequestsOK, RemovalIsNotFound
<1>2. QED  BY <1>1, AlwaysIInv, PTL

\* A link shown opens a row nobody cleans up, and no recipient stays active unseen,
\* whatever is lost, refused, tried again or left (invite.ts, revokeAbandoned).
THEOREM NoInviteIsLeftBehind == Spec => []InvitesAccounted
<1>1. IInv => InvitesAccounted  BY DEF IInv, InvitesOK
<1>2. QED  BY <1>1, AlwaysIInv, PTL

\* What was served is in the log once, under the link that asked and the photo it
\* was served, and what the screen shows of the log is what it was opened for,
\* newest first and none twice (list-access-log.ts, logSeq).
THEOREM LogTellsWhoOpened == Spec => []LogIsTrue
<1>1. IInv => LogIsTrue
  <2> SUFFICES ASSUME IInv PROVE LogIsTrue  OBVIOUS
  <2>1. EntriesOK /\ ViewOK  BY DEF IInv
  <2>2. DOMAIN log.shown = 1..Len(log.shown)  BY <2>1 DEF ViewOK
  <2>3. QED  BY <2>1, <2>2 DEF EntriesOK, ViewOK, LogIsTrue
<1>2. QED  BY <1>1, AlwaysIInv, PTL
=============================================================================
