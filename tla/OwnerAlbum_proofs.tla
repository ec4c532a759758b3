-------------------------- MODULE OwnerAlbum_proofs --------------------------
(***************************************************************************)
(* What the owner's open album shows and keeps, proved for any photographs *)
(* and caps and any number of openings and failures: its list tells what   *)
(* became of the rows, and every original and every decoded picture is     *)
(* accounted for.                                                          *)
(***************************************************************************)
EXTENDS OwnerAlbum, FiniteSetTheorems, SequenceTheorems, TLAPS

(***************************************************************************)
(* The inductive invariant.                                                *)
(***************************************************************************)
\* A photo chosen on this device has no row until its POST is answered.
Unborn(i) ==
    \/ orig[i] \in {"unread", "reading", "held", "queued", "preparing"}
    \/ cur.id = i /\ cur.at = "post"

\* What a row is once its upload is complete, and after that.
Final(i) == row[i] \in {"ready", "hidden", "absent"}

\* Nothing is said of such a photo, and nobody asks for its removal.
PhotosOK ==
    \A i \in Photos : Unborn(i) =>
        /\ row[i] = "absent" /\ item[i].status = "none" /\ item[i].thumb = "none"
        /\ i \notin refresh \cup metas \cup thumbs \cup removing
        /\ confirm.id # i /\ \A a \in asks : a.id # i

\* A photo is told to be ready once: by its upload, or by the status asked for when
\* the list was read, each of which leaves the other's photos alone.
ListOK ==
    /\ refresh \cap metas = {}
    /\ \A i \in refresh \cup metas : orig[i] = "none" /\ item[i].thumb = "none" /\ i \notin thumbs
    /\ \A i \in metas \cup thumbs : Final(i)
    /\ \A i \in thumbs : item[i].thumb # "ready"
    /\ \A i \in Photos : i \in held \/ cur.id = i => item[i].thumb = "none" /\ i \notin thumbs

\* Envelopes exist once the original is zeroed, and the status last told was so.
SendOK ==
    /\ \A i \in held : orig[i] = "zeroed"
    /\ \A i \in ToSet(queue) : orig[i] \in {"queued", "preparing", "zeroed"}
    /\ cur # NoJob => orig[cur.id] = IF cur.at \in {"frames", "decode"} THEN "preparing"
                                     ELSE "zeroed"
    /\ cur.at \in {"frames", "decode", "post"} => cur.st = "none"
    /\ cur.st = "ready" => Final(cur.id)

\* A preview is one of the review's, and is made once.
ReviewOK ==
    /\ ~Open => review = {}
    /\ \A p \in review : orig[p] \in {"reading", "held", "unreadable"}
    /\ \A p \in Photos : preview[p] = "ready" => p \in review /\ orig[p] = "held"
    /\ previewing # NoId => /\ orig[previewing] \notin {"unread", "reading"}
                            /\ previewing \in review =>
                                 preview[previewing] = "loading" /\ orig[previewing] = "held"

\* Until the list has been read there is nothing to ask for.
FreshOK ==
    Open /\ phase = "loading" =>
        /\ \A i \in Photos : item[i] = Blank /\ orig[i] \in {"none", "unread"}
        /\ refresh = {} /\ metas = {} /\ thumbs = {} /\ removing = {} /\ asks = {}
        /\ held = {} /\ cur = NoJob /\ queue = <<>> /\ review = {} /\ confirm = NoConfirm

\* An opening is loaded once, and the last one is the viewer's.
ViewOK ==
    /\ \A v \in views : /\ v.gen <= gen
                        /\ v.gen = gen /\ viewer # NoViewer => viewer.phase = "loading"
    /\ \A v, w \in views : v.gen = w.gen => v = w
    /\ gen + (IF viewer = NoViewer THEN 0 ELSE 1) <= 2 * opens

\* A removal is told of before it is confirmed, and it is a photo's.
AskedOK == confirm.says # "none" => confirm.id # NoId

\* The parts of BytesAndPicturesAccounted.
OpenedOnes    == {i \in Photos : Opened(i)}
PreviewedOnes == {p \in Photos : preview[p] = "ready"}

CapOK == Cardinality(HeldBytes) <= Cap

PlacesOK ==
    \A p \in Photos :
        /\ orig[p] = "held" => Open /\ p \in review
        /\ orig[p] = "queued" => Open /\ p \in ToSet(queue)
        /\ orig[p] = "preparing" => Open /\ cur.id = p /\ cur.at \in {"frames", "decode"}

PicturesOK == pictures = Cardinality(OpenedOnes) + Cardinality(PreviewedOnes) + Viewed

\* The parts of TypeOK.
ListTypes ==
    /\ row \in [Photos -> Rows]
    /\ where \in {"album", "list", "closed"} /\ leaving \in BOOLEAN
    /\ phase \in {"loading", "ready"} /\ item \in [Photos -> Items]
    /\ refresh \subseteq Photos /\ metas \subseteq Photos /\ thumbs \subseteq Photos

ReviewTypes ==
    /\ orig \in [Photos -> {"none", "unread", "reading", "held", "queued", "preparing",
                            "unreadable", "zeroed"}]
    /\ review \subseteq Photos
    /\ preview \in [Photos -> {"none", "loading", "ready", "failed"}]
    /\ previewing \in Photos \cup {NoId}

SendTypes == queue \in Seq(Photos) /\ cur \in Jobs \cup {NoJob} /\ held \subseteq Photos

RemovalTypes ==
    /\ confirm \in [id : Photos \cup {NoId}, says : Statements, busy : BOOLEAN]
    /\ asks \subseteq [id : Photos, at : {"status", "log"}] /\ removing \subseteq Photos
    /\ deleting \in [Photos -> Nat] /\ erasing \in [Photos -> Nat] /\ pending \in Nat

ViewTypes ==
    /\ viewer \in [id : Photos \cup {NoId}, phase : {"none", "loading", "shown", "failed"}]
    /\ views \subseteq [gen : 1..2*MaxOpens, id : Photos]
    /\ gen \in 0..2*MaxOpens /\ opens \in 0..MaxOpens

CountTypes == pictures \in Nat /\ faults \in 0..MaxFaults

IInv == /\ ListTypes /\ ReviewTypes /\ SendTypes /\ RemovalTypes /\ ViewTypes /\ CountTypes
        /\ PhotosOK /\ ListOK /\ SendOK /\ ReviewOK /\ FreshOK /\ ViewOK /\ AskedOK
        /\ CapOK /\ PlacesOK /\ PicturesOK /\ ListTellsTheRows

\* TypeOK, part by part.
LEMMA TypesAreAll ==
    TypeOK <=> /\ ListTypes /\ ReviewTypes /\ SendTypes /\ RemovalTypes /\ ViewTypes
               /\ CountTypes
<1>1. ASSUME TypeOK
      PROVE  ListTypes /\ ReviewTypes /\ SendTypes /\ RemovalTypes /\ ViewTypes /\ CountTypes
  <2>1. ListTypes  BY <1>1 DEF TypeOK, ListTypes
  <2>2. ReviewTypes /\ SendTypes  BY <1>1 DEF TypeOK, ReviewTypes, SendTypes
  <2>3. RemovalTypes  BY <1>1 DEF TypeOK, RemovalTypes
  <2>4. ViewTypes /\ CountTypes  BY <1>1 DEF TypeOK, ViewTypes, CountTypes
  <2>5. QED  BY <2>1, <2>2, <2>3, <2>4
<1>2. ASSUME ListTypes, ReviewTypes, SendTypes, RemovalTypes, ViewTypes, CountTypes
      PROVE  TypeOK
  BY <1>2 DEF TypeOK, ListTypes, ReviewTypes, SendTypes, RemovalTypes, ViewTypes, CountTypes
<1>3. QED  BY <1>1, <1>2

\* And the accounts.
LEMMA PartsAreAll == BytesAndPicturesAccounted <=> CapOK /\ PlacesOK /\ PicturesOK
<1>1. QED  BY DEF BytesAndPicturesAccounted, CapOK, PlacesOK, PicturesOK, OpenedOnes,
                  PreviewedOnes, HeldBytes

-----------------------------------------------------------------------------
(***************************************************************************)
(* Counting photos.                                                        *)
(***************************************************************************)
LEMMA Counted ==
    ASSUME NEW A \in SUBSET Photos
    PROVE  IsFiniteSet(A) /\ Cardinality(A) \in Nat
<1>1. QED  BY AlbumAssumption, FS_Subset, FS_CardinalityType

In(i, A) == IF i \in A THEN 1 ELSE 0

\* Two sets that differ in one photo at most.
LEMMA Differ ==
    ASSUME NEW A \in SUBSET Photos, NEW B \in SUBSET Photos, NEW i \in Photos,
           \A j \in Photos \ {i} : j \in A <=> j \in B
    PROVE  Cardinality(B) = Cardinality(A) + In(i, B) - In(i, A)
<1>1. IsFiniteSet(A) /\ Cardinality(A) \in Nat /\ IsFiniteSet(B) /\ Cardinality(B) \in Nat
  BY Counted
<1>2. CASE i \in A /\ i \notin B
  <2>1. B = A \ {i}  BY <1>2
  <2>2. Cardinality(A \ {i}) = Cardinality(A) - 1  BY <1>1, <1>2, FS_RemoveElement
  <2>3. QED  BY <1>1, <1>2, <2>1, <2>2 DEF In
<1>3. CASE i \notin A /\ i \in B
  <2>1. B = A \cup {i}  BY <1>3
  <2>2. Cardinality(A \cup {i}) = Cardinality(A) + 1  BY <1>1, <1>3, FS_AddElement
  <2>3. QED  BY <1>1, <1>3, <2>1, <2>2 DEF In
<1>4. CASE i \in A <=> i \in B
  <2>1. A = B  BY <1>4
  <2>2. QED  BY <1>1, <1>4, <2>1 DEF In
<1>5. QED  BY <1>2, <1>3, <1>4

\* Taking out some of them.
LEMMA Without ==
    ASSUME NEW A \in SUBSET Photos, NEW B \in SUBSET A
    PROVE  Cardinality(A \ B) = Cardinality(A) - Cardinality(B)
<1>1. IsFiniteSet(A \ B) /\ IsFiniteSet(B) /\ Cardinality(A \ B) \in Nat /\ Cardinality(B) \in Nat
  BY Counted
<1>2. Cardinality((A \ B) \cup B)
      = Cardinality(A \ B) + Cardinality(B) - Cardinality((A \ B) \cap B)
  BY <1>1, FS_Union
<1>3. (A \ B) \cup B = A /\ (A \ B) \cap B = {}  OBVIOUS
<1>4. QED  BY <1>1, <1>2, <1>3, FS_EmptySet

\* Fewer originals in memory pass no cap.
LEMMA CapKept == ASSUME CapOK, HeldBytes' \subseteq HeldBytes PROVE CapOK'
<1>1. HeldBytes \in SUBSET Photos  BY DEF HeldBytes
<1>2. HeldBytes' \in SUBSET HeldBytes  OBVIOUS
<1>3. IsFiniteSet(HeldBytes) /\ Cardinality(HeldBytes) \in Nat /\ Cardinality(HeldBytes') \in Nat
  BY <1>1, <1>2, Counted
<1>4. Cardinality(HeldBytes') <= Cardinality(HeldBytes)  BY <1>2, <1>3, FS_Subset
<1>5. QED  BY <1>3, <1>4, AlbumAssumption DEF CapOK

\* What the account of pictures adds up are numbers.
LEMMA PicturesCounted ==
    /\ Cardinality(OpenedOnes) \in Nat /\ Cardinality(PreviewedOnes) \in Nat /\ Viewed \in Nat
    /\ OpenedOnes \in SUBSET Photos /\ PreviewedOnes \in SUBSET Photos
<1>1. OpenedOnes \in SUBSET Photos /\ PreviewedOnes \in SUBSET Photos
  BY DEF OpenedOnes, PreviewedOnes
<1>2. QED  BY <1>1, Counted DEF Viewed

\* One photo's thumbnail opened, or closed, or neither.
LEMMA OneThumb ==
    ASSUME PicturesOK, NEW i \in Photos, UNCHANGED <<preview, viewer>>,
           \A j \in Photos \ {i} : item'[j] = item[j],
           pictures' = pictures + In(i, OpenedOnes)' - In(i, OpenedOnes)
    PROVE  PicturesOK' /\ pictures' \in Nat
<1>1. PreviewedOnes' = PreviewedOnes /\ Viewed' = Viewed  BY DEF PreviewedOnes, Viewed
<1>2. \A j \in Photos \ {i} : j \in OpenedOnes <=> j \in OpenedOnes'  BY DEF OpenedOnes, Opened
<1>3. OpenedOnes \in SUBSET Photos /\ OpenedOnes' \in SUBSET Photos  BY DEF OpenedOnes
<1>4. Cardinality(OpenedOnes') = Cardinality(OpenedOnes) + In(i, OpenedOnes') - In(i, OpenedOnes)
  BY <1>2, <1>3, Differ
<1>5. Cardinality(OpenedOnes) \in Nat /\ Cardinality(PreviewedOnes) \in Nat /\ Viewed \in Nat
      /\ Cardinality(OpenedOnes') \in Nat
  BY <1>3, Counted, PicturesCounted
<1>6. /\ In(i, OpenedOnes)' = In(i, OpenedOnes')
      /\ In(i, OpenedOnes) \in Nat /\ In(i, OpenedOnes') \in Nat
  BY DEF In
<1>7. PicturesOK'  BY <1>1, <1>4, <1>5, <1>6 DEF PicturesOK
<1>8. QED  BY <1>1, <1>5, <1>7 DEF PicturesOK

\* One photo's preview made or closed.
LEMMA SamePictures ==
    ASSUME PicturesOK, OpenedOnes' = OpenedOnes, PreviewedOnes' = PreviewedOnes,
           pictures' = pictures + Viewed' - Viewed
    PROVE  PicturesOK' /\ pictures' \in Nat
<1>1. Viewed' \in Nat  BY DEF Viewed
<1>2. PicturesOK'  BY <1>1, PicturesCounted DEF PicturesOK
<1>3. QED  BY <1>1, <1>2, PicturesCounted DEF PicturesOK

-----------------------------------------------------------------------------
(***************************************************************************)
(* The operators of the actions.                                           *)
(***************************************************************************)
LEMMA UpdateIs ==
    ASSUME TypeOK, NEW i \in Photos, NEW it \in Items, Update(i, it)
    PROVE  /\ item' \in [Photos -> Items]
           /\ \A j \in Photos \ {i} : item'[j] = item[j]
           /\ item'[i] = IF item[i].shown THEN it ELSE item[i]
<1>1. item \in [Photos -> Items]  BY DEF TypeOK
<1>2. QED  BY <1>1 DEF Update

\* An item not shown is an item.
LEMMA BlankIs == Blank \in Items
<1>1. QED  BY DEF Blank, Items, Statuses, Steps, Thumbs

\* A dropped item is blank, and its picture closed.
LEMMA DropIs ==
    ASSUME TypeOK, PicturesOK, NEW i \in Photos, Drop(i), UNCHANGED <<preview, viewer>>
    PROVE  /\ item' \in [Photos -> Items]
           /\ \A j \in Photos \ {i} : item'[j] = item[j]
           /\ item'[i] = Blank
           /\ PicturesOK' /\ pictures' \in Nat
<1>1. item \in [Photos -> Items]  BY DEF TypeOK
<1>2. /\ item' \in [Photos -> Items] /\ \A j \in Photos \ {i} : item'[j] = item[j]
      /\ item'[i] = Blank
  BY <1>1, BlankIs DEF Drop
<1>3. pictures' = pictures + In(i, OpenedOnes)' - In(i, OpenedOnes)
  <2>1. In(i, OpenedOnes)' = 0  BY <1>2 DEF In, OpenedOnes, Opened, Blank
  <2>2. In(i, OpenedOnes) = IF Opened(i) THEN 1 ELSE 0  BY DEF In, OpenedOnes
  <2>3. pictures \in Int  BY DEF TypeOK
  <2>4. QED  BY <2>1, <2>2, <2>3 DEF Drop
<1>4. QED  BY <1>2, <1>3, OneThumb

\* An item changed in anything but an open thumbnail.
LEMMA NoThumb ==
    ASSUME TypeOK, PicturesOK, NEW i \in Photos, UNCHANGED <<preview, viewer, pictures>>,
           \A j \in Photos \ {i} : item'[j] = item[j],
           item'[i].thumb = "ready" <=> item[i].thumb = "ready"
    PROVE  PicturesOK' /\ pictures' \in Nat
<1>1. In(i, OpenedOnes)' = In(i, OpenedOnes)  BY DEF In, OpenedOnes, Opened
<1>2. In(i, OpenedOnes) \in Nat /\ pictures \in Nat  BY DEF In, TypeOK
<1>3. pictures' = pictures + In(i, OpenedOnes)' - In(i, OpenedOnes)  BY <1>1, <1>2
<1>4. QED  BY <1>3, OneThumb

\* The job at hand is a photo's.
LEMMA AtWork ==
    ASSUME TypeOK
    PROVE  /\ cur.at # "none" \/ cur # NoJob \/ cur.id # NoId \/ cur.st # "none"
              => cur \in Jobs /\ cur # NoJob
           /\ cur \in Jobs => cur.id \in Photos /\ cur.id # NoId /\ cur # NoJob
           /\ cur = NoJob => cur.id = NoId /\ cur.at = "none" /\ cur.st = "none"
<1>1. cur \in Jobs \/ cur = NoJob  BY DEF TypeOK
<1>2. cur \in Jobs => cur.id \in Photos /\ cur.id # NoId  BY AlbumAssumption DEF Jobs, NoId
<1>3. NoJob.id = NoId /\ NoJob.at = "none" /\ NoJob.st = "none"  BY DEF NoJob
<1>4. cur \in Jobs => cur # NoJob  BY <1>2, <1>3
<1>5. QED  BY <1>1, <1>2, <1>3, <1>4

\* What the server tells of a visible row is a status.
LEMMA RowsAreStatuses ==
    ASSUME TypeOK, NEW i \in Photos
    PROVE  /\ item[i] \in Items /\ row[i] \in Rows
           /\ Visible(i) => row[i] \in Statuses
<1>1. QED  BY DEF TypeOK, Visible, Rows, Statuses

\* A step fails within the bound, or does not.
LEMMA FaultIs == ASSUME TypeOK, Fault \/ UNCHANGED faults PROVE faults' \in 0..MaxFaults
<1>1. QED  BY AlbumAssumption DEF TypeOK, Fault

\* What most steps need of the invariant.
LEMMA Typed == IInv => TypeOK /\ PicturesOK
<1>1. QED  BY TypesAreAll DEF IInv

\* An item edited, if it is shown, in anything but its thumbnail.
LEMMA EditIs ==
    ASSUME TypeOK, PicturesOK, NEW i \in Photos, NEW it \in Items,
           it.shown = item[i].shown, it.thumb = item[i].thumb,
           Update(i, it) \/ UNCHANGED item, UNCHANGED <<preview, viewer, pictures>>
    PROVE  /\ item' \in [Photos -> Items]
           /\ \A j \in Photos \ {i} : item'[j] = item[j]
           /\ item'[i].shown = item[i].shown /\ item'[i].thumb = item[i].thumb
           /\ item'[i] = item[i] \/ item'[i] = it
           /\ PicturesOK' /\ pictures' \in Nat
<1>1. item \in [Photos -> Items]  BY DEF TypeOK
<1>2. /\ item' \in [Photos -> Items] /\ \A j \in Photos \ {i} : item'[j] = item[j]
      /\ item'[i] = item[i] \/ item'[i] = it
  BY <1>1 DEF Update
<1>3. item'[i].thumb = item[i].thumb /\ item'[i].shown = item[i].shown  BY <1>2
<1>4. QED  BY <1>2, <1>3, NoThumb

\* Who waits in the queue is a photo.
LEMMA QueueIs == SendTypes => ToSet(queue) \subseteq Photos
<1>1. QED  BY LenProperties DEF SendTypes, ToSet

\* Nobody is at work on a photo that is not of these.
LEMMA AtRest ==
    ASSUME IInv, NEW i \in Photos, orig[i] \notin {"queued", "preparing", "zeroed"}
    PROVE  cur.id # i /\ i \notin held /\ i \notin ToSet(queue)
<1>1. cur.id = i => cur # NoJob  BY Typed, AtWork, AlbumAssumption DEF NoId
<1>2. cur # NoJob => orig[cur.id] \in {"preparing", "zeroed"}  BY DEF IInv, SendOK
<1>3. QED  BY <1>1, <1>2 DEF IInv, SendOK

\* What a step must see to, that changes no set of the list's.
LEMMA ListKept ==
    ASSUME IInv, UNCHANGED <<refresh, metas, thumbs>>,
           \A j \in Photos : item'[j].thumb \in {item[j].thumb, "none"},
           \A j \in Photos : Final(j) => row'[j] \in {"ready", "hidden", "absent"},
           \A j \in refresh \cup metas : orig'[j] = "none",
           \A j \in Photos : j \in held' \/ cur'.id = j => j \in held \/ cur.id = j
    PROVE  ListOK'
<1>1. ListOK /\ refresh \subseteq Photos /\ metas \subseteq Photos /\ thumbs \subseteq Photos
  BY DEF IInv, ListTypes
<1>2. refresh' \cap metas' = {}  BY <1>1 DEF ListOK
<1>3. \A i \in refresh \cup metas : orig'[i] = "none" /\ item'[i].thumb = "none" /\ i \notin thumbs
  BY <1>1 DEF ListOK
<1>4. \A i \in metas \cup thumbs : Final(i)'  BY <1>1 DEF ListOK, Final
<1>5. \A i \in thumbs : item'[i].thumb # "ready"  BY <1>1 DEF ListOK
<1>6. \A i \in Photos : i \in held' \/ cur'.id = i => item'[i].thumb = "none" /\ i \notin thumbs
  BY <1>1 DEF ListOK
<1>7. QED  BY <1>2, <1>3, <1>4, <1>5, <1>6 DEF ListOK
-----------------------------------------------------------------------------
(***************************************************************************)
(* The initial states, and the steps of other devices.                     *)
(***************************************************************************)

\* The row of a photo done elsewhere is final, and nobody here says otherwise.
LEMMA NextElsewhereFinished == ASSUME IInv, NEW i \in Photos, ElsewhereFinished(i) PROVE IInv'
<1>1. UNCHANGED <<phase, item, refresh, metas, thumbs, orig, review, preview, previewing,
                 queue, cur, held, confirm, asks, removing, deleting, erasing, pending,
                 viewer, views, gen, opens, where, leaving, pictures, faults>>
  BY DEF ElsewhereFinished, listed, chosen, sent, rem, seen, left
<1>2. row[i] # "absent" /\ row' \in [Photos -> Rows]
  BY DEF IInv, ListTypes, ElsewhereFinished, Rows
<1>3. ReviewTypes' /\ SendTypes' /\ RemovalTypes' /\ ViewTypes' /\ CountTypes' /\ AskedOK'
  BY <1>1 DEF IInv, ReviewTypes, SendTypes, RemovalTypes, ViewTypes, CountTypes, AskedOK
<1>4. FreshOK'
  BY <1>1 DEF IInv, FreshOK, Open
<1>5. ReviewOK' /\ ViewOK' /\ CapOK' /\ PlacesOK' /\ PicturesOK'
  BY <1>1 DEF IInv, ReviewOK, Open, ViewOK, CapOK, HeldBytes, PlacesOK, PicturesOK, OpenedOnes,
    PreviewedOnes, Opened, Viewed
<1>6. ListTypes'
  BY <1>1, <1>2 DEF IInv, ListTypes, ElsewhereFinished
<1>7. PhotosOK'
  BY <1>1, <1>2 DEF IInv, PhotosOK, Unborn, ListTypes, ElsewhereFinished
<1>8. ListOK'
  BY <1>1, <1>2 DEF IInv, ListOK, Final, ListTypes, SendTypes, ElsewhereFinished
<1>9. SendOK'
  BY <1>1, <1>2 DEF IInv, SendOK, Final, SendTypes, ElsewhereFinished
<1>10. ListTellsTheRows'
  BY <1>1, <1>2 DEF IInv, ListTellsTheRows, Open, Visible, Final, RemovalTypes,
    ElsewhereFinished
<1>11. QED  BY <1>3, <1>4, <1>5, <1>6, <1>7, <1>8, <1>9, <1>10 DEF IInv

\* A row gone is final.
LEMMA NextElsewhereRemoved == ASSUME IInv, NEW i \in Photos, ElsewhereRemoved(i) PROVE IInv'
<1>1. UNCHANGED <<phase, item, refresh, metas, thumbs, orig, review, preview, previewing,
                 queue, cur, held, confirm, asks, removing, deleting, erasing, pending,
                 viewer, views, gen, opens, where, leaving, pictures>>
  BY DEF ElsewhereRemoved, listed, chosen, sent, rem, seen, left
<1>2. row' \in [Photos -> Rows]
  BY DEF IInv, ListTypes, ElsewhereRemoved, Rows
<1>3. faults' \in 0..MaxFaults
  BY Typed, FaultIs DEF ElsewhereRemoved
<1>4. ReviewTypes' /\ SendTypes' /\ RemovalTypes' /\ ViewTypes' /\ AskedOK'
  BY <1>1 DEF IInv, ReviewTypes, SendTypes, RemovalTypes, ViewTypes, AskedOK
<1>5. FreshOK'
  BY <1>1 DEF IInv, FreshOK, Open
<1>6. ReviewOK' /\ ViewOK' /\ CapOK' /\ PlacesOK' /\ PicturesOK'
  BY <1>1 DEF IInv, ReviewOK, Open, ViewOK, CapOK, HeldBytes, PlacesOK, PicturesOK, OpenedOnes,
    PreviewedOnes, Opened, Viewed
<1>7. ListTypes'
  BY <1>1, <1>2, <1>3 DEF IInv, ListTypes, ElsewhereRemoved
<1>8. CountTypes'
  BY <1>1, <1>2, <1>3 DEF IInv, CountTypes, ElsewhereRemoved
<1>9. PhotosOK'
  BY <1>1, <1>2, <1>3 DEF IInv, PhotosOK, Unborn, ListTypes, ElsewhereRemoved
<1>10. ListOK'
  BY <1>1, <1>2, <1>3 DEF IInv, ListOK, Final, ListTypes, SendTypes, ElsewhereRemoved
<1>11. SendOK'
  BY <1>1, <1>2, <1>3 DEF IInv, SendOK, Final, SendTypes, ElsewhereRemoved
<1>12. ListTellsTheRows'
  BY <1>1, <1>2, <1>3 DEF IInv, ListTellsTheRows, Open, Visible, Final, RemovalTypes,
    ElsewhereRemoved
<1>13. QED  BY <1>4, <1>5, <1>6, <1>7, <1>8, <1>9, <1>10, <1>11, <1>12 DEF IInv

\* A row found ready leaves refresh for metas: told to be ready once.
LEMMA NextRefreshStatus == ASSUME IInv, NEW i \in Photos, RefreshStatus(i) PROVE IInv'
<1>1. UNCHANGED <<row, phase, thumbs, orig, review, preview, previewing, queue, cur, held,
                 confirm, asks, removing, deleting, erasing, pending, viewer, views, gen,
                 opens, where, leaving, faults>>
  BY DEF RefreshStatus, chosen, sent, rem, seen, left
<1>2. Open /\ i \in refresh /\ metas = {} /\ refresh' = refresh \ {i}
  BY DEF RefreshStatus
<1>3. orig[i] = "none" /\ item[i].thumb = "none" /\ i \notin thumbs /\ ~Unborn(i)
  BY <1>2 DEF IInv, ListOK, PhotosOK
<1>4. /\ item' \in [Photos -> Items] /\ \A j \in Photos \ {i} : item'[j] = item[j]
      /\ item'[i].thumb = "none"
      /\ item'[i].status = "ready" => item[i].status = "ready" \/ row[i] = "ready"
      /\ item'[i].shown => item[i].shown
      /\ PicturesOK' /\ pictures' \in Nat
  <2>1. UNCHANGED <<preview, viewer>> /\ TypeOK /\ PicturesOK  BY <1>1, Typed
  <2>2. CASE ~Visible(i)
    <3>1. Drop(i)  BY <2>2 DEF RefreshStatus
    <3>2. QED  BY <2>1, <2>2, <3>1, DropIs DEF Blank
  <2>3. CASE Visible(i)
    <3> DEFINE it == [item[i] EXCEPT !.status = row[i]]
    <3>1. UNCHANGED pictures  BY <2>3 DEF RefreshStatus
    <3>2. item[i] \in Items /\ row[i] \in Statuses  BY <2>1, <2>3, RowsAreStatuses
    <3>3. /\ it \in Items /\ it.shown = item[i].shown /\ it.thumb = item[i].thumb
          /\ it.status = row[i]
      BY <3>2 DEF Items
    <3>4. UNCHANGED item \/ Update(i, it)  BY <2>3 DEF RefreshStatus
    <3> HIDE DEF it
    <3>5. QED  BY <1>3, <2>1, <3>1, <3>3, <3>4, EditIs
  <2>4. QED  BY <2>2, <2>3
<1>5. metas' = {} \/ (metas' = {i} /\ row[i] = "ready")
  BY <1>2 DEF RefreshStatus
<1>6. ReviewTypes' /\ SendTypes' /\ RemovalTypes' /\ ViewTypes' /\ AskedOK'
  BY <1>1 DEF IInv, ReviewTypes, SendTypes, RemovalTypes, ViewTypes, AskedOK
<1>7. SendOK'
  BY <1>1 DEF IInv, SendOK, Final
<1>8. ReviewOK' /\ ViewOK' /\ CapOK' /\ PlacesOK'
  BY <1>1 DEF IInv, ReviewOK, Open, ViewOK, CapOK, HeldBytes, PlacesOK
<1>9. ListTypes'
  BY <1>1, <1>2, <1>3, <1>4, <1>5 DEF IInv, ListTypes
<1>10. CountTypes'
  BY <1>1, <1>2, <1>3, <1>4, <1>5 DEF IInv, CountTypes
<1>11. PhotosOK'
  BY <1>1, <1>2, <1>3, <1>4, <1>5 DEF IInv, PhotosOK, Unborn, ListTypes
<1>12. ListOK'
  BY <1>1, <1>2, <1>3, <1>4, <1>5 DEF IInv, ListOK, Final, ListTypes, SendTypes
<1>13. FreshOK'
  BY <1>1, <1>2, <1>3, <1>4, <1>5 DEF IInv, FreshOK, Open
<1>14. ListTellsTheRows'
  BY <1>1, <1>2, <1>3, <1>4, <1>5 DEF IInv, ListTellsTheRows, Open, Visible, Final, RemovalTypes
<1>15. QED  BY <1>6, <1>7, <1>8, <1>9, <1>10, <1>11, <1>12, <1>13, <1>14, <1>4 DEF IInv
-----------------------------------------------------------------------------
(***************************************************************************)
(* The list.                                                               *)
(***************************************************************************)

\* What the list has of a row when it is read.
LEMMA ListedIs ==
    ASSUME TypeOK, NEW i \in Photos, item[i] = Blank, NEW read \in SUBSET Photos
    PROVE  /\ Listed(i, read) \in Items /\ Listed(i, read).thumb # "ready"
           /\ ~Visible(i) => Listed(i, read) = Blank
           /\ row[i] # "ready" => Listed(i, read).thumb = "none" /\ Listed(i, read).status # "ready"
<1>1. Blank \in Items /\ Blank.thumb = "none" /\ Blank.status = "none"  BY BlankIs DEF Blank
<1>2. CASE ~Visible(i)
  BY <1>1, <1>2 DEF Listed
<1>3. CASE Visible(i)
  <2>1. row[i] \in Statuses  BY <1>3, RowsAreStatuses
  <2> DEFINE th == IF row[i] # "ready" THEN "none"
                   ELSE IF i \in read THEN "loading" ELSE "unavailable"
  <2>2. th \in Thumbs /\ th # "ready" /\ (row[i] # "ready" => th = "none")  BY DEF Thumbs
  <2>3. Listed(i, read) = [Blank EXCEPT !.shown = TRUE, !.status = row[i], !.thumb = th]
    BY <1>3 DEF Listed
  <2> HIDE DEF th
  <2>4. /\ Listed(i, read) \in Items /\ Listed(i, read).thumb = th
        /\ Listed(i, read).status = row[i]
    BY <2>1, <2>2, <2>3 DEF Blank, Items, Statuses, Steps, Thumbs
  <2>5. QED  BY <1>3, <2>2, <2>4
<1>4. QED  BY <1>2, <1>3

\* The list is read before anything else is done.
LEMMA NextLoad == ASSUME IInv, Load PROVE IInv'
<1>1. UNCHANGED <<row, metas, orig, review, preview, previewing, queue, cur, held,
                 confirm, asks, removing, deleting, erasing, pending, viewer, views, gen,
                 opens, where, leaving, pictures, faults>>
  BY DEF Load, chosen, sent, rem, seen, left
<1>2. Open /\ phase = "loading" /\ phase' = "ready"
      /\ refresh' = {i \in Photos : Visible(i) /\ row[i] # "ready"}
  BY DEF Load
<1>3. /\ \A i \in Photos : item[i] = Blank /\ orig[i] \in {"none", "unread"} /\ i \notin held
      /\ metas = {} /\ removing = {} /\ cur = NoJob /\ confirm = NoConfirm /\ asks = {}
  BY <1>2 DEF IInv, FreshOK
<1>4. TypeOK /\ Blank.thumb = "none" /\ Blank.status = "none" /\ \A i \in Photos : cur.id # i
  BY <1>3, Typed, AtWork, AlbumAssumption DEF Blank, NoId
<1>5. PICK read \in SUBSET Photos : /\ item' = [i \in Photos |-> Listed(i, read)]
                                    /\ thumbs' = {i \in read : row[i] = "ready"}
  BY DEF Load
<1>6. \A i \in Photos : /\ item'[i] \in Items /\ item'[i].thumb # "ready"
                        /\ ~Visible(i) => item'[i] = Blank
                        /\ row[i] # "ready" => item'[i].thumb = "none" /\ item'[i].status # "ready"
  BY <1>3, <1>4, <1>5, ListedIs
<1>7. item' \in [Photos -> Items]
  BY <1>5, <1>6
<1>8. OpenedOnes' = OpenedOnes /\ PreviewedOnes' = PreviewedOnes /\ Viewed' = Viewed
  BY <1>1, <1>3, <1>4, <1>6 DEF OpenedOnes, PreviewedOnes, Opened, Viewed
<1>9. ReviewTypes' /\ SendTypes' /\ RemovalTypes' /\ ViewTypes' /\ CountTypes' /\ AskedOK'
  BY <1>1 DEF IInv, ReviewTypes, SendTypes, RemovalTypes, ViewTypes, CountTypes, AskedOK
<1>10. SendOK'
  BY <1>1 DEF IInv, SendOK, Final
<1>11. ReviewOK' /\ ViewOK' /\ CapOK' /\ PlacesOK'
  BY <1>1 DEF IInv, ReviewOK, Open, ViewOK, CapOK, HeldBytes, PlacesOK
<1>12. ListTypes'
  BY <1>1, <1>2, <1>3, <1>4, <1>5, <1>6, <1>7, <1>8 DEF IInv, ListTypes
<1>13. PhotosOK'
  BY <1>1, <1>2, <1>3, <1>4, <1>5, <1>6, <1>7, <1>8 DEF IInv, PhotosOK, Unborn, ListTypes,
    Visible
<1>14. ListOK'
  BY <1>1, <1>2, <1>3, <1>4, <1>5, <1>6, <1>7, <1>8 DEF IInv, ListOK, Final, ListTypes,
    SendTypes, PhotosOK, Unborn, Visible
<1>15. FreshOK'
  BY <1>1, <1>2, <1>3, <1>4, <1>5, <1>6, <1>7, <1>8 DEF IInv, FreshOK, Open
<1>16. PicturesOK'
  BY <1>1, <1>8 DEF IInv, PicturesOK
<1>17. ListTellsTheRows'
  BY <1>1, <1>2, <1>3, <1>4, <1>5, <1>6, <1>7, <1>8 DEF IInv, ListTellsTheRows, Open, Visible,
    Final, RemovalTypes, ListTypes
<1>18. QED  BY <1>9, <1>10, <1>11, <1>12, <1>13, <1>14, <1>15, <1>16, <1>17 DEF IInv

\* Metadata read, the photo is ready and its thumbnail is to be fetched.
LEMMA NextMetadataRead == ASSUME IInv, NEW i \in Photos, MetadataRead(i) PROVE IInv'
<1>1. UNCHANGED <<row, phase, refresh, orig, review, preview, previewing, queue, cur,
                 held, confirm, asks, removing, deleting, erasing, pending, viewer, views,
                 gen, opens, where, leaving, pictures, faults>>
  BY DEF MetadataRead, chosen, sent, rem, seen, left
<1>2. Open /\ i \in metas /\ metas' = metas \ {i} /\ i \notin refresh
  BY DEF IInv, ListOK, MetadataRead
<1>3. /\ orig[i] = "none" /\ Final(i) /\ item[i].thumb = "none"
      /\ i \notin thumbs /\ i \notin held /\ cur.id # i
  <2>1. orig[i] = "none" /\ Final(i) /\ item[i].thumb = "none" /\ i \notin thumbs
    BY <1>2 DEF IInv, ListOK
  <2>2. cur # NoJob /\ cur.id = i => orig[i] \in {"preparing", "zeroed"}  BY DEF IInv, SendOK
  <2>3. cur = NoJob => cur.id # i  BY Typed, AtWork, AlbumAssumption DEF NoId
  <2>4. QED  BY <2>1, <2>2, <2>3 DEF IInv, SendOK
<1>4. PICK opened \in BOOLEAN : BecameReady(i, opened)
  BY DEF MetadataRead
<1>5. /\ item' \in [Photos -> Items] /\ \A j \in Photos \ {i} : item'[j] = item[j]
      /\ item'[i].thumb # "ready"
      /\ item'[i] = item[i] \/ ~(item'[i].thumb = "ready")
      /\ item[i].shown = item'[i].shown
      /\ PicturesOK' /\ pictures' \in Nat
  <2> DEFINE it == [item[i] EXCEPT !.status = "ready", !.local = "none", !.resend = FALSE,
                                   !.thumb = IF opened THEN "loading" ELSE "unavailable"]
  <2>1. TypeOK /\ PicturesOK /\ item[i] \in Items  BY Typed, RowsAreStatuses
  <2>2. it \in Items /\ it.shown = item[i].shown /\ it.thumb # "ready"
    BY <2>1 DEF Items, Statuses, Steps, Thumbs
  <2>3. Update(i, it)  BY <1>4 DEF BecameReady
  <2> HIDE DEF it
  <2>4. /\ item' \in [Photos -> Items] /\ \A j \in Photos \ {i} : item'[j] = item[j]
        /\ item'[i] = IF item[i].shown THEN it ELSE item[i]
    BY <2>1, <2>2, <2>3, UpdateIs
  <2>5. UNCHANGED <<preview, viewer, pictures>>  BY <1>1
  <2>6. QED  BY <1>3, <2>1, <2>2, <2>4, <2>5, NoThumb
<1>6. thumbs' = thumbs \/ thumbs' = thumbs \cup {i}
  BY <1>4 DEF BecameReady
<1>7. ReviewTypes' /\ SendTypes' /\ RemovalTypes' /\ ViewTypes' /\ CountTypes' /\ AskedOK'
  BY <1>1 DEF IInv, ReviewTypes, SendTypes, RemovalTypes, ViewTypes, CountTypes, AskedOK
<1>8. SendOK'
  BY <1>1 DEF IInv, SendOK, Final
<1>9. ReviewOK' /\ ViewOK' /\ CapOK' /\ PlacesOK'
  BY <1>1 DEF IInv, ReviewOK, Open, ViewOK, CapOK, HeldBytes, PlacesOK
<1>10. ListTypes'
  BY <1>1, <1>2, <1>3, <1>4, <1>5, <1>6 DEF IInv, ListTypes
<1>11. PhotosOK'
  BY <1>1, <1>2, <1>3, <1>4, <1>5, <1>6 DEF IInv, PhotosOK, Unborn, ListTypes
<1>12. ListOK'
  BY <1>1, <1>2, <1>3, <1>4, <1>5, <1>6 DEF IInv, ListOK, Final, ListTypes, SendTypes
<1>13. FreshOK'
  BY <1>1, <1>2, <1>3, <1>4, <1>5, <1>6 DEF IInv, FreshOK, Open
<1>14. ListTellsTheRows'
  BY <1>1, <1>2, <1>3, <1>4, <1>5, <1>6 DEF IInv, ListTellsTheRows, Open, Visible, Final,
    RemovalTypes
<1>15. QED  BY <1>7, <1>8, <1>9, <1>10, <1>11, <1>12, <1>13, <1>14, <1>5 DEF IInv
\* A thumbnail is kept only by an item that shows it.
LEMMA NextThumbLoaded == ASSUME IInv, NEW i \in Photos, ThumbLoaded(i) PROVE IInv'
<1>1. UNCHANGED <<row, phase, refresh, metas, orig, review, preview, previewing, queue,
                 cur, held, confirm, asks, removing, deleting, erasing, pending, viewer,
                 views, gen, opens, where, leaving>>
  BY DEF ThumbLoaded, chosen, sent, rem, seen, left
<1>2. i \in thumbs /\ thumbs' = thumbs \ {i}
  BY DEF ThumbLoaded
<1>3. /\ item[i].thumb # "ready" /\ Final(i) /\ ~Unborn(i)
      /\ i \notin refresh \cup metas /\ i \notin held /\ cur.id # i
  BY <1>2 DEF IInv, ListOK, PhotosOK
<1>4. faults' \in 0..MaxFaults
  BY Typed, FaultIs DEF ThumbLoaded
<1>5. /\ item' \in [Photos -> Items] /\ \A j \in Photos \ {i} : item'[j] = item[j]
      /\ item'[i].shown => item[i].shown
      /\ phase = "loading" => ~Open
      /\ PicturesOK' /\ pictures' \in Nat
  <2>1. TypeOK /\ PicturesOK /\ item[i] \in Items /\ UNCHANGED <<preview, viewer>>
    BY <1>1, Typed, RowsAreStatuses
  <2>2. phase = "loading" => ~Open  BY <1>2 DEF IInv, FreshOK
  <2>3. CASE UNCHANGED <<item, pictures>>
    BY <2>1, <2>2, <2>3, NoThumb DEF TypeOK
  <2>4. CASE Drop(i)
    BY <2>1, <2>2, <2>4, DropIs DEF Blank
  <2>5. ASSUME NEW th \in {"ready", "failed"}, Update(i, [item[i] EXCEPT !.thumb = th]),
               pictures' = IF item[i].shown /\ th = "ready" THEN pictures + 1 ELSE pictures
        PROVE  /\ item' \in [Photos -> Items] /\ \A j \in Photos \ {i} : item'[j] = item[j]
               /\ item'[i].shown => item[i].shown
               /\ PicturesOK' /\ pictures' \in Nat
    <3> DEFINE it == [item[i] EXCEPT !.thumb = th]
    <3>1. it \in Items /\ it.shown = item[i].shown /\ it.thumb = th
      BY <2>1, <2>5 DEF Items, Thumbs
    <3>2. Update(i, it)  BY <2>5
    <3> HIDE DEF it
    <3>3. /\ item' \in [Photos -> Items] /\ \A j \in Photos \ {i} : item'[j] = item[j]
          /\ item'[i] = IF item[i].shown THEN it ELSE item[i]
      BY <2>1, <3>1, <3>2, UpdateIs
    <3>4. pictures' = pictures + In(i, OpenedOnes)' - In(i, OpenedOnes)
      BY <1>3, <2>1, <2>5, <3>1, <3>3 DEF In, OpenedOnes, Opened, TypeOK
    <3>5. QED  BY <2>1, <3>1, <3>3, <3>4, OneThumb
  <2>6. \/ UNCHANGED <<item, pictures>> \/ Drop(i)
        \/ /\ Update(i, [item[i] EXCEPT !.thumb = "ready"])
           /\ pictures' = IF item[i].shown THEN pictures + 1 ELSE pictures
        \/ Update(i, [item[i] EXCEPT !.thumb = "failed"]) /\ UNCHANGED pictures
    BY DEF ThumbLoaded
  <2>7. QED  BY <2>2, <2>3, <2>4, <2>5, <2>6
<1>6. ReviewTypes' /\ SendTypes' /\ RemovalTypes' /\ ViewTypes' /\ AskedOK'
  BY <1>1 DEF IInv, ReviewTypes, SendTypes, RemovalTypes, ViewTypes, AskedOK
<1>7. SendOK'
  BY <1>1 DEF IInv, SendOK, Final
<1>8. ReviewOK' /\ ViewOK' /\ CapOK' /\ PlacesOK'
  BY <1>1 DEF IInv, ReviewOK, Open, ViewOK, CapOK, HeldBytes, PlacesOK
<1>9. ListTypes'
  BY <1>1, <1>2, <1>3, <1>4, <1>5 DEF IInv, ListTypes
<1>10. CountTypes'
  BY <1>1, <1>2, <1>3, <1>4, <1>5 DEF IInv, CountTypes
<1>11. PhotosOK'
  BY <1>1, <1>2, <1>3, <1>4, <1>5 DEF IInv, PhotosOK, Unborn, ListTypes
<1>12. ListOK'
  BY <1>1, <1>2, <1>3, <1>4, <1>5 DEF IInv, ListOK, Final, ListTypes, SendTypes
<1>13. FreshOK'
  BY <1>1, <1>2, <1>3, <1>4, <1>5 DEF IInv, FreshOK, Open
<1>14. ListTellsTheRows'
  BY <1>1, <1>2, <1>3, <1>4, <1>5 DEF IInv, ListTellsTheRows, Open, Visible, Final, RemovalTypes
<1>15. QED  BY <1>6, <1>7, <1>8, <1>9, <1>10, <1>11, <1>12, <1>13, <1>14, <1>5 DEF IInv

\* A thumbnail that failed is nobody's: it may be fetched again.
LEMMA NextRetryThumb == ASSUME IInv, NEW i \in Photos, RetryThumb(i) PROVE IInv'
<1>1. UNCHANGED <<row, phase, refresh, metas, orig, review, preview, previewing, queue,
                 cur, held, confirm, asks, removing, deleting, erasing, pending, viewer,
                 views, gen, opens, where, leaving, pictures, faults>>
  BY DEF RetryThumb, chosen, sent, rem, seen, left
<1>2. Open /\ item[i].thumb = "failed" /\ thumbs' = thumbs \cup {i}
  BY DEF RetryThumb, Free
<1>3. Final(i) /\ ~Unborn(i) /\ i \notin refresh \cup metas /\ i \notin held /\ cur.id # i
  BY <1>2 DEF IInv, ListOK, PhotosOK, ListTellsTheRows, Final
<1>4. /\ item' \in [Photos -> Items] /\ \A j \in Photos \ {i} : item'[j] = item[j]
      /\ item'[i].shown = item[i].shown /\ item'[i].thumb = "loading"
      /\ item'[i].status = item[i].status
      /\ PicturesOK' /\ pictures' \in Nat
  <2>1. TypeOK /\ PicturesOK /\ item[i] \in Items /\ UNCHANGED <<preview, viewer, pictures>>
    BY <1>1, Typed, RowsAreStatuses
  <2>2. item' = [item EXCEPT ![i].thumb = "loading"]  BY DEF RetryThumb
  <2>3. /\ item' \in [Photos -> Items] /\ \A j \in Photos \ {i} : item'[j] = item[j]
        /\ item'[i].shown = item[i].shown /\ item'[i].thumb = "loading"
        /\ item'[i].status = item[i].status
    BY <2>1, <2>2 DEF TypeOK, Items, Thumbs
  <2>4. QED  BY <1>2, <2>1, <2>3, NoThumb
<1>5. phase # "loading"
  BY <1>2 DEF IInv, FreshOK, Blank
<1>6. ReviewTypes' /\ SendTypes' /\ RemovalTypes' /\ ViewTypes' /\ CountTypes' /\ AskedOK'
  BY <1>1 DEF IInv, ReviewTypes, SendTypes, RemovalTypes, ViewTypes, CountTypes, AskedOK
<1>7. SendOK'
  BY <1>1 DEF IInv, SendOK, Final
<1>8. ReviewOK' /\ ViewOK' /\ CapOK' /\ PlacesOK'
  BY <1>1 DEF IInv, ReviewOK, Open, ViewOK, CapOK, HeldBytes, PlacesOK
<1>9. ListTypes'
  BY <1>1, <1>2, <1>3, <1>4, <1>5 DEF IInv, ListTypes
<1>10. PhotosOK'
  BY <1>1, <1>2, <1>3, <1>4, <1>5 DEF IInv, PhotosOK, Unborn, ListTypes
<1>11. ListOK'
  BY <1>1, <1>2, <1>3, <1>4, <1>5 DEF IInv, ListOK, Final, ListTypes, SendTypes
<1>12. FreshOK'
  BY <1>1, <1>2, <1>3, <1>4, <1>5 DEF IInv, FreshOK, Open
<1>13. ListTellsTheRows'
  BY <1>1, <1>2, <1>3, <1>4, <1>5 DEF IInv, ListTellsTheRows, Open, Visible, Final, RemovalTypes
<1>14. QED  BY <1>6, <1>7, <1>8, <1>9, <1>10, <1>11, <1>12, <1>13, <1>4 DEF IInv

-----------------------------------------------------------------------------
(***************************************************************************)
(* The review.                                                             *)
(***************************************************************************)

\* The cap is counted before the reads begin.
LEMMA NextChoose == ASSUME IInv, NEW ps \in SUBSET Photos, Choose(ps) PROVE IInv'
<1>1. UNCHANGED <<row, phase, item, refresh, metas, thumbs, previewing, queue, cur, held,
                 confirm, asks, removing, deleting, erasing, pending, viewer, views, gen,
                 opens, where, leaving, pictures, faults>>
  BY DEF Choose, listed, sent, rem, seen, left
<1>2. /\ Open /\ phase = "ready" /\ review' = review \cup ps
      /\ \A p \in ps : orig[p] = "unread"
      /\ orig' = [p \in Photos |-> IF p \in ps THEN "reading" ELSE orig[p]]
      /\ preview' = [p \in Photos |-> IF p \in ps THEN "loading" ELSE preview[p]]
      /\ Cardinality(HeldBytes) + Cardinality(ps) <= Cap
  BY DEF Choose
<1>3. \A p \in ps : /\ preview[p] # "ready" /\ p # previewing /\ p \notin review
                     /\ cur.id # p /\ p \notin held /\ p \notin ToSet(queue)
  BY <1>2, AtRest, AlbumAssumption DEF IInv, ReviewOK, ReviewTypes, NoId
<1>4. ListTypes' /\ SendTypes' /\ RemovalTypes' /\ ViewTypes' /\ CountTypes' /\ AskedOK'
  BY <1>1 DEF IInv, ListTypes, SendTypes, RemovalTypes, ViewTypes, CountTypes, AskedOK
<1>5. ListTellsTheRows'
  BY <1>1 DEF IInv, ListTellsTheRows, Open, Visible, Final
<1>6. ViewOK'
  BY <1>1 DEF IInv, ViewOK
<1>7. ReviewTypes'
  BY <1>1, <1>2, <1>3 DEF IInv, ReviewTypes
<1>8. PhotosOK'
  BY <1>1, <1>2, <1>3 DEF IInv, PhotosOK, Unborn, ListTypes
<1>9. ListOK'
  BY <1>1, <1>2, <1>3 DEF IInv, ListOK, Final, ListTypes, SendTypes
<1>10. SendOK'
  BY <1>1, <1>2, <1>3, QueueIs, Typed, AtWork DEF IInv, SendOK, Final, SendTypes
<1>11. ReviewOK'
  BY <1>1, <1>2, <1>3 DEF IInv, ReviewOK, Open, ReviewTypes
<1>12. FreshOK'
  BY <1>1, <1>2, <1>3 DEF IInv, FreshOK, Open
<1>13. CapOK'
  <2>1. HeldBytes' = HeldBytes \cup ps /\ HeldBytes \cap ps = {} /\ HeldBytes \in SUBSET Photos
    BY <1>2 DEF HeldBytes
  <2>2. /\ IsFiniteSet(HeldBytes) /\ IsFiniteSet(ps)
        /\ Cardinality(HeldBytes) \in Nat /\ Cardinality(ps) \in Nat
    BY <2>1, Counted
  <2>3. Cardinality(HeldBytes \cup ps)
        = Cardinality(HeldBytes) + Cardinality(ps) - Cardinality(HeldBytes \cap ps)
    BY <2>2, FS_Union
  <2>4. Cardinality(HeldBytes \cap ps) = 0  BY <2>1, FS_EmptySet
  <2>5. QED  BY <1>2, <2>1, <2>2, <2>3, <2>4 DEF CapOK
<1>14. PlacesOK'
  BY <1>1, <1>2, <1>3 DEF IInv, PlacesOK, Open
<1>15. PicturesOK'
  <2>1. OpenedOnes' = OpenedOnes /\ Viewed' = Viewed /\ UNCHANGED pictures
    BY <1>1 DEF OpenedOnes, Opened, Viewed
  <2>2. PreviewedOnes' = PreviewedOnes  BY <1>2, <1>3 DEF PreviewedOnes
  <2>3. QED  BY <2>1, <2>2 DEF IInv, PicturesOK
<1>16. QED  BY <1>4, <1>5, <1>6, <1>7, <1>8, <1>9, <1>10, <1>11, <1>12, <1>13, <1>14, <1>15 DEF IInv

\* Bytes read land in the review, or are zeroed.
LEMMA NextReadDone == ASSUME IInv, NEW p \in Photos, ReadDone(p) PROVE IInv'
<1>1. UNCHANGED <<row, phase, item, refresh, metas, thumbs, review, previewing, queue,
                 cur, held, confirm, asks, removing, deleting, erasing, pending, viewer,
                 views, gen, opens, where, leaving, pictures>>
  BY DEF ReadDone, listed, sent, rem, seen, left
<1>2. /\ orig[p] = "reading"
      /\ orig' \in [Photos -> {"none", "unread", "reading", "held", "queued", "preparing",
                              "unreadable", "zeroed"}]
      /\ \A q \in Photos \ {p} : orig'[q] = orig[q] /\ preview'[q] = preview[q]
      /\ orig'[p] \in {"held", "zeroed", "unreadable"}
      /\ orig'[p] = "held" => Open /\ p \in review
      /\ orig'[p] = "zeroed" => ~(Open /\ p \in review)
      /\ preview' \in [Photos -> {"none", "loading", "ready", "failed"}]
      /\ preview'[p] = preview[p] \/ (p \in review /\ preview'[p] = "failed")
  BY DEF IInv, ReviewTypes, ReadDone
<1>3. faults' \in 0..MaxFaults
  BY Typed, FaultIs DEF ReadDone
<1>4. /\ p # previewing /\ preview[p] # "ready" /\ (phase = "loading" => ~Open)
      /\ cur.id # p /\ p \notin held /\ p \notin ToSet(queue)
  BY <1>2, AtRest, AlbumAssumption DEF IInv, ReviewOK, FreshOK, NoId
<1>5. ListTypes' /\ SendTypes' /\ RemovalTypes' /\ ViewTypes' /\ AskedOK'
  BY <1>1 DEF IInv, ListTypes, SendTypes, RemovalTypes, ViewTypes, AskedOK
<1>6. ListTellsTheRows'
  BY <1>1 DEF IInv, ListTellsTheRows, Open, Visible, Final
<1>7. ViewOK'
  BY <1>1 DEF IInv, ViewOK
<1>8. ReviewTypes'
  BY <1>1, <1>2, <1>3, <1>4 DEF IInv, ReviewTypes
<1>9. CountTypes'
  BY <1>1, <1>3 DEF IInv, CountTypes
<1>10. PhotosOK'
  BY <1>1, <1>2, <1>3, <1>4 DEF IInv, PhotosOK, Unborn, ListTypes
<1>11. ListOK'
  BY <1>1, <1>2, <1>3, <1>4 DEF IInv, ListOK, Final, ListTypes, SendTypes
<1>12. SendOK'
  BY <1>1, <1>2, <1>3, <1>4, QueueIs, Typed, AtWork DEF IInv, SendOK, Final, SendTypes
<1>13. ReviewOK'
  BY <1>1, <1>2, <1>3, <1>4 DEF IInv, ReviewOK, Open, ReviewTypes
<1>14. FreshOK'
  BY <1>1, <1>2, <1>3, <1>4 DEF IInv, FreshOK, Open
<1>15. CapOK'
  BY <1>2, CapKept DEF IInv, HeldBytes
<1>16. PlacesOK'
  BY <1>1, <1>2, <1>3, <1>4 DEF IInv, PlacesOK, Open
<1>17. PicturesOK'
  <2>1. OpenedOnes' = OpenedOnes /\ Viewed' = Viewed /\ UNCHANGED pictures
    BY <1>1 DEF OpenedOnes, Opened, Viewed
  <2>2. PreviewedOnes' = PreviewedOnes  BY <1>2, <1>4 DEF PreviewedOnes
  <2>3. QED  BY <2>1, <2>2 DEF IInv, PicturesOK
<1>18. QED  BY <1>5, <1>6, <1>7, <1>8, <1>9, <1>10, <1>11, <1>12, <1>13, <1>14, <1>15, <1>16,
    <1>17 DEF IInv

\* One decode for a row that has no preview.
LEMMA NextPreviewStarts == ASSUME IInv, NEW p \in Photos, PreviewStarts(p) PROVE IInv'
<1>1. UNCHANGED <<row, phase, item, refresh, metas, thumbs, orig, review, preview, queue,
                 cur, held, confirm, asks, removing, deleting, erasing, pending, viewer,
                 views, gen, opens, where, leaving, pictures, faults>>
  BY DEF PreviewStarts, listed, sent, rem, seen, left
<1>2. ListTypes' /\ SendTypes' /\ RemovalTypes' /\ ViewTypes' /\ CountTypes' /\ AskedOK'
  BY <1>1 DEF IInv, ListTypes, SendTypes, RemovalTypes, ViewTypes, CountTypes, AskedOK
<1>3. PhotosOK' /\ ListOK' /\ SendOK' /\ FreshOK' /\ ListTellsTheRows'
  BY <1>1 DEF IInv, PhotosOK, Unborn, ListOK, Final, SendOK, FreshOK, Open, ListTellsTheRows,
    Visible
<1>4. ViewOK' /\ CapOK' /\ PlacesOK' /\ PicturesOK'
  BY <1>1 DEF IInv, ViewOK, CapOK, HeldBytes, PlacesOK, Open, PicturesOK, OpenedOnes,
    PreviewedOnes, Opened, Viewed
<1>5. ReviewTypes'
  BY <1>1 DEF IInv, ReviewTypes, PreviewStarts
<1>6. ReviewOK'
  BY <1>1 DEF IInv, ReviewOK, Open, ReviewTypes, PreviewStarts
<1>7. QED  BY <1>2, <1>3, <1>4, <1>5, <1>6 DEF IInv

\* Its picture is the row's, or is closed.
LEMMA NextPreviewDone == ASSUME IInv, PreviewDone PROVE IInv'
<1>1. UNCHANGED <<row, phase, item, refresh, metas, thumbs, orig, review, queue, cur,
                 held, confirm, asks, removing, deleting, erasing, pending, viewer, views,
                 gen, opens, where, leaving>>
  BY DEF PreviewDone, listed, sent, rem, seen, left
<1>2. previewing # NoId /\ previewing' = NoId /\ previewing \in Photos
  BY DEF IInv, ReviewTypes, PreviewDone
<1>3. faults' \in 0..MaxFaults
  BY Typed, FaultIs DEF PreviewDone
<1>4. PICK p \in Photos : p = previewing
  BY <1>2
<1>5. p \in review => preview[p] = "loading"
  BY <1>2, <1>4 DEF IInv, ReviewOK
<1>6. /\ preview' \in [Photos -> {"none", "loading", "ready", "failed"}]
      /\ \A q \in Photos \ {p} : preview'[q] = preview[q]
      /\ preview'[p] # preview[p] => p \in review
      /\ pictures' = IF preview'[p] = "ready" /\ preview[p] # "ready" THEN pictures + 1 ELSE pictures
  BY <1>4, <1>5 DEF IInv, ReviewTypes, ReviewOK, PreviewDone
<1>7. PicturesOK' /\ pictures' \in Nat
  <2>1. OpenedOnes' = OpenedOnes /\ Viewed' = Viewed  BY <1>1 DEF OpenedOnes, Opened, Viewed
  <2>2. PreviewedOnes \in SUBSET Photos /\ PreviewedOnes' \in SUBSET Photos  BY DEF PreviewedOnes
  <2>3. \A q \in Photos \ {p} : q \in PreviewedOnes <=> q \in PreviewedOnes'  BY <1>6 DEF PreviewedOnes
  <2>4. Cardinality(PreviewedOnes')
        = Cardinality(PreviewedOnes) + In(p, PreviewedOnes') - In(p, PreviewedOnes)
    BY <2>2, <2>3, Differ
  <2>5. pictures' = pictures + In(p, PreviewedOnes') - In(p, PreviewedOnes)
    <3>1. preview[p] = "ready" => preview'[p] = "ready"  BY <1>5, <1>6
    <3>2. pictures \in Int  BY Typed DEF TypeOK
    <3>3. QED  BY <1>6, <3>1, <3>2 DEF In, PreviewedOnes
  <2>6. Cardinality(PreviewedOnes') \in Nat  BY <2>2, Counted
  <2>7. In(p, PreviewedOnes') \in Nat /\ In(p, PreviewedOnes) \in Nat  BY DEF In
  <2>8. PicturesOK'  BY Typed, <2>1, <2>4, <2>5, <2>6, <2>7, PicturesCounted DEF PicturesOK
  <2>9. QED  BY <2>1, <2>6, <2>8, PicturesCounted DEF PicturesOK
<1>8. ListTypes' /\ SendTypes' /\ RemovalTypes' /\ ViewTypes' /\ AskedOK'
  BY <1>1 DEF IInv, ListTypes, SendTypes, RemovalTypes, ViewTypes, AskedOK
<1>9. PhotosOK' /\ ListOK' /\ SendOK' /\ FreshOK' /\ ListTellsTheRows'
  BY <1>1 DEF IInv, PhotosOK, Unborn, ListOK, Final, SendOK, FreshOK, Open, ListTellsTheRows,
    Visible
<1>10. ViewOK' /\ CapOK' /\ PlacesOK'
  BY <1>1 DEF IInv, ViewOK, CapOK, HeldBytes, PlacesOK, Open
<1>11. ReviewTypes'
  BY <1>1, <1>2, <1>3, <1>4, <1>5, <1>6, <1>7 DEF IInv, ReviewTypes
<1>12. CountTypes'
  BY <1>1, <1>2, <1>3, <1>4, <1>5, <1>6, <1>7 DEF IInv, CountTypes
<1>13. ReviewOK'
  BY <1>1, <1>2, <1>3, <1>4, <1>5, <1>6, <1>7 DEF IInv, ReviewOK, Open, ReviewTypes
<1>14. QED  BY <1>8, <1>9, <1>10, <1>11, <1>12, <1>13, <1>7 DEF IInv
\* The previews closed are those the review had.
LEMMA NextTakeOut == ASSUME IInv, NEW ps \in SUBSET Photos, TakeOut(ps) PROVE IInv'
<1>1. UNCHANGED <<row, phase, item, refresh, metas, thumbs, previewing, queue, cur, held,
                 confirm, asks, removing, deleting, erasing, pending, viewer, views, gen,
                 opens, where, leaving, faults>>
  BY DEF TakeOut, listed, sent, rem, seen, left
<1>2. /\ Open /\ ps # {} /\ ps \subseteq review /\ review' = review \ ps
      /\ pictures' = pictures - Previewed(ps)
      /\ preview' = [p \in Photos |-> IF p \in ps THEN "none" ELSE preview[p]]
      /\ orig' = [p \in Photos |-> IF p \in ps /\ orig[p] = "held" THEN "zeroed" ELSE orig[p]]
  BY DEF TakeOut
<1>3. \A p \in ps : cur.id # p /\ p \notin held /\ p \notin ToSet(queue)
  BY <1>2, AtRest DEF IInv, ReviewOK
<1>4. phase # "loading"
  BY <1>2 DEF IInv, FreshOK
<1>5. PicturesOK' /\ pictures' \in Nat
  <2> DEFINE gone == {p \in ps : preview[p] = "ready"}
  <2>1. OpenedOnes' = OpenedOnes /\ Viewed' = Viewed  BY <1>1 DEF OpenedOnes, Opened, Viewed
  <2>2. PreviewedOnes' = PreviewedOnes \ gone /\ gone \in SUBSET PreviewedOnes
        /\ PreviewedOnes \in SUBSET Photos
    BY <1>2 DEF PreviewedOnes
  <2>3. pictures' = pictures - Cardinality(gone)  BY <1>2 DEF Previewed
  <2> HIDE DEF gone
  <2>4. Cardinality(PreviewedOnes \ gone) = Cardinality(PreviewedOnes) - Cardinality(gone)
    BY <2>2, Without
  <2>5. Cardinality(PreviewedOnes \ gone) \in Nat /\ Cardinality(gone) \in Nat  BY <2>2, Counted
  <2>6. PicturesOK'  BY Typed, <2>1, <2>2, <2>3, <2>4, <2>5, PicturesCounted DEF PicturesOK
  <2>7. QED  BY <2>1, <2>2, <2>5, <2>6, PicturesCounted DEF PicturesOK
<1>6. ListTypes' /\ SendTypes' /\ RemovalTypes' /\ ViewTypes' /\ AskedOK'
  BY <1>1 DEF IInv, ListTypes, SendTypes, RemovalTypes, ViewTypes, AskedOK
<1>7. ListTellsTheRows'
  BY <1>1 DEF IInv, ListTellsTheRows, Open, Visible, Final
<1>8. ViewOK'
  BY <1>1 DEF IInv, ViewOK
<1>9. ReviewTypes'
  BY <1>1, <1>2, <1>3, <1>4, <1>5 DEF IInv, ReviewTypes
<1>10. CountTypes'
  BY <1>1, <1>2, <1>3, <1>4, <1>5 DEF IInv, CountTypes
<1>11. PhotosOK'
  BY <1>1, <1>2, <1>3, <1>4, <1>5 DEF IInv, PhotosOK, Unborn, ListTypes
<1>12. ListOK'
  BY <1>1, <1>2, <1>3, <1>4, <1>5 DEF IInv, ListOK, Final, ListTypes, SendTypes
<1>13. SendOK'
  BY <1>1, <1>2, <1>3, <1>4, <1>5, QueueIs, Typed, AtWork DEF IInv, SendOK, Final, SendTypes
<1>14. ReviewOK'
  BY <1>1, <1>2, <1>3, <1>4, <1>5 DEF IInv, ReviewOK, Open, ReviewTypes
<1>15. FreshOK'
  BY <1>1, <1>2, <1>3, <1>4, <1>5 DEF IInv, FreshOK, Open
<1>16. CapOK'
  BY <1>2, CapKept DEF IInv, HeldBytes
<1>17. PlacesOK'
  BY <1>1, <1>2, <1>3, <1>4, <1>5 DEF IInv, PlacesOK, Open
<1>18. QED  BY <1>6, <1>7, <1>8, <1>9, <1>10, <1>11, <1>12, <1>13, <1>14, <1>15, <1>16, <1>17,
    <1>5 DEF IInv


\* A count of the first n numbers.
LEMMA OneTo == ASSUME NEW n \in Nat PROVE IsFiniteSet(1..n) /\ Cardinality(1..n) = n
<1>1. 1 \in Int /\ n \in Int  OBVIOUS
<1>2. IsFiniteSet(1..n) /\ Cardinality(1..n) = IF 1 > n THEN 0 ELSE n - 1 + 1
  BY <1>1, FS_Interval
<1>3. CASE n = 0
  BY <1>2, <1>3
<1>4. CASE n > 0
  BY <1>2, <1>4
<1>5. QED  BY <1>3, <1>4

\* What is sent is queued, in some order.
LEMMA QueuedAll ==
    ASSUME NEW send \in SUBSET Photos, NEW s \in SetToSeqs(send), NEW q \in Seq(Photos)
    PROVE  q \o s \in Seq(Photos) /\ ToSet(q \o s) = ToSet(q) \cup send
<1> DEFINE n == Cardinality(send)
<1>1. IsFiniteSet(send) /\ n \in Nat  BY Counted
<1>2. s \in [1..n -> send] /\ \A j, k \in 1..n : j # k => s[j] # s[k]  BY DEF SetToSeqs
<1>3. s \in Seq(Photos) /\ Len(s) = n
  <2>1. s \in Seq(send) /\ Len(s) = n  BY <1>1, <1>2
  <2>2. QED  BY <2>1
<1>4. \A p \in send : \E k \in 1..n : s[k] = p
  <2>1. IsFiniteSet(1..n) /\ Cardinality(1..n) = n
    BY <1>1, OneTo
  <2>2. s \in Injection(1..n, send)  BY <1>2 DEF Injection, IsInjective
  <2>3. s \in Surjection(1..n, send)  BY <1>1, <2>1, <2>2, FS_Injection
  <2>4. QED  BY <2>3 DEF Surjection
<1> HIDE DEF n
<1>5. /\ q \o s \in Seq(Photos) /\ Len(q \o s) = Len(q) + n /\ Len(q) \in Nat
      /\ \A k \in 1..Len(q) + n : (q \o s)[k] = IF k <= Len(q) THEN q[k] ELSE s[k - Len(q)]
  BY <1>3, ConcatProperties, LenProperties
<1>6. DOMAIN (q \o s) = 1..Len(q) + n /\ DOMAIN q = 1..Len(q)  BY <1>5, LenProperties
<1>7. \A p \in ToSet(q) \cup send : p \in ToSet(q \o s)
  <2>1. ASSUME NEW k \in 1..Len(q) PROVE q[k] \in ToSet(q \o s)
    <3>1. k \in 1..Len(q) + n /\ k <= Len(q)  BY <1>1, <1>5 DEF n
    <3>2. (q \o s)[k] = q[k]  BY <1>5, <3>1
    <3>3. QED  BY <1>6, <3>1, <3>2 DEF ToSet
  <2>2. ASSUME NEW k \in 1..n PROVE s[k] \in ToSet(q \o s)
    <3>1. k + Len(q) \in 1..Len(q) + n /\ ~(k + Len(q) <= Len(q)) /\ (k + Len(q)) - Len(q) = k
      BY <1>1, <1>5 DEF n
    <3>2. (q \o s)[k + Len(q)] = s[k]  BY <1>5, <3>1
    <3>3. QED  BY <1>6, <3>1, <3>2 DEF ToSet
  <2>3. QED  BY <1>4, <1>6, <2>1, <2>2 DEF ToSet
<1>8. \A p \in ToSet(q \o s) : p \in ToSet(q) \cup send
  <2> SUFFICES ASSUME NEW k \in 1..Len(q) + n PROVE (q \o s)[k] \in ToSet(q) \cup send
    BY <1>6 DEF ToSet
  <2>1. CASE k <= Len(q)
    <3>1. k \in 1..Len(q) /\ (q \o s)[k] = q[k]  BY <1>1, <1>5, <2>1
    <3>2. QED  BY <1>6, <3>1 DEF ToSet
  <2>2. CASE ~(k <= Len(q))
    <3>1. k - Len(q) \in 1..n /\ (q \o s)[k] = s[k - Len(q)]  BY <1>1, <1>5, <2>2 DEF n
    <3>2. QED  BY <1>2, <3>1 DEF n
  <2>3. QED  BY <2>1, <2>2
<1>9. QED  BY <1>5, <1>7, <1>8

\* What was held is queued, and every preview of the review closed.
LEMMA NextSendReview == ASSUME IInv, SendReview PROVE IInv'
<1>1. UNCHANGED <<row, phase, refresh, metas, thumbs, previewing, cur, held, confirm,
                 asks, removing, deleting, erasing, pending, viewer, views, gen, opens,
                 where, leaving, faults>>
  BY DEF SendReview, rem, seen, left
<1>2. /\ Open /\ review' = {} /\ \A p \in review : orig[p] # "reading"
      /\ preview' = [p \in Photos |-> IF p \in review THEN "none" ELSE preview[p]]
      /\ pictures' = pictures - Previewed(review)
  BY DEF SendReview
<1>3. PICK send \in SUBSET Photos :
      /\ send = {p \in review : orig[p] = "held"} /\ send # {}
      /\ orig' = [p \in Photos |-> IF p \in send THEN "queued" ELSE orig[p]]
      /\ \E s \in SetToSeqs(send) : queue' = queue \o s
      /\ item' = [i \in Photos |-> IF i \in send
                   THEN [Blank EXCEPT !.shown = TRUE, !.local = "queued"] ELSE item[i]]
  <2>1. {p \in review : orig[p] = "held"} \in SUBSET Photos  BY DEF IInv, ReviewTypes
  <2>2. QED  BY <2>1 DEF SendReview
<1>4. queue' \in Seq(Photos) /\ ToSet(queue') = ToSet(queue) \cup send
  BY <1>3, QueuedAll DEF IInv, SendTypes
<1>5. /\ \A p \in send : /\ p \in review /\ orig[p] = "held" /\ Unborn(p)
                         /\ item[p].thumb = "none" /\ item[p].status = "none"
                         /\ cur.id # p /\ p \notin held /\ p \notin removing
      /\ phase # "loading"
  BY <1>2, <1>3, AtRest DEF IInv, PhotosOK, Unborn, FreshOK
<1>6. /\ item' \in [Photos -> Items] /\ \A j \in Photos \ send : item'[j] = item[j]
      /\ \A j \in send : item'[j].thumb = "none" /\ item'[j].status = "none"
  <2> DEFINE it == [Blank EXCEPT !.shown = TRUE, !.local = "queued"]
  <2>1. it \in Items /\ it.thumb = "none" /\ it.status = "none"
    BY DEF Blank, Items, Statuses, Steps, Thumbs
  <2>2. item \in [Photos -> Items]  BY DEF IInv, ListTypes
  <2>3. item' = [i \in Photos |-> IF i \in send THEN it ELSE item[i]]  BY <1>3
  <2> HIDE DEF it
  <2>4. QED  BY <2>1, <2>2, <2>3
<1>7. PicturesOK' /\ pictures' \in Nat
  <2>1. OpenedOnes' = OpenedOnes /\ Viewed' = Viewed
    BY <1>1, <1>5, <1>6 DEF OpenedOnes, Opened, Viewed
  <2>2. {p \in review : preview[p] = "ready"} = PreviewedOnes
    BY DEF IInv, ReviewOK, ReviewTypes, PreviewedOnes
  <2>3. pictures' = pictures - Cardinality(PreviewedOnes)  BY <1>2, <2>2 DEF Previewed
  <2>4. PreviewedOnes' = {}  BY <1>2, <2>2 DEF PreviewedOnes
  <2>5. Cardinality(PreviewedOnes') = 0  BY <2>4, FS_EmptySet
  <2>6. PicturesOK'  BY Typed, <2>1, <2>3, <2>5, PicturesCounted DEF PicturesOK
  <2>7. QED  BY <2>1, <2>5, <2>6, PicturesCounted DEF PicturesOK
<1>8. RemovalTypes' /\ ViewTypes' /\ AskedOK'
  BY <1>1 DEF IInv, RemovalTypes, ViewTypes, AskedOK
<1>9. ViewOK'
  BY <1>1 DEF IInv, ViewOK
<1>10. ListTypes'
  BY <1>1, <1>2, <1>3, <1>4, <1>5, <1>6, <1>7 DEF IInv, ListTypes
<1>11. ReviewTypes'
  BY <1>1, <1>2, <1>3, <1>4, <1>5, <1>6, <1>7 DEF IInv, ReviewTypes
<1>12. SendTypes'
  BY <1>1, <1>2, <1>3, <1>4, <1>5, <1>6, <1>7 DEF IInv, SendTypes
<1>13. CountTypes'
  BY <1>1, <1>2, <1>3, <1>4, <1>5, <1>6, <1>7 DEF IInv, CountTypes
<1>14. PhotosOK'
  <2> SUFFICES ASSUME NEW i \in Photos, Unborn(i)'
               PROVE  /\ row[i] = "absent" /\ item'[i].status = "none" /\ item'[i].thumb = "none"
                      /\ i \notin refresh \cup metas \cup thumbs \cup removing
                      /\ confirm.id # i /\ \A a \in asks : a.id # i
    BY <1>1 DEF PhotosOK
  <2>1. Unborn(i)  BY <1>1, <1>3, <1>5 DEF Unborn
  <2>2. QED  BY <1>5, <1>6, <2>1 DEF IInv, PhotosOK
<1>15. ListOK'
  <2>1. \A j \in Photos : item'[j].thumb \in {item[j].thumb, "none"}  BY <1>5, <1>6
  <2>2. \A j \in Photos : Final(j) => row'[j] \in {"ready", "hidden", "absent"}
    BY <1>1 DEF Final
  <2>3. \A j \in refresh \cup metas : j \in Photos /\ orig[j] = "none"
    BY DEF IInv, ListOK, ListTypes
  <2>4. \A j \in refresh \cup metas : orig'[j] = "none"  BY <1>3, <1>5, <2>3
  <2>5. QED  BY <1>1, <2>1, <2>2, <2>4, ListKept
<1>16. SendOK'
  BY <1>1, <1>2, <1>3, <1>4, <1>5, <1>6, <1>7, QueueIs, Typed, AtWork DEF IInv, SendOK, Final,
    SendTypes
<1>17. ReviewOK'
  BY <1>1, <1>2, <1>3, <1>4, <1>5, <1>6, <1>7 DEF IInv, ReviewOK, Open, ReviewTypes
<1>18. FreshOK'
  BY <1>1, <1>2, <1>3, <1>4, <1>5, <1>6, <1>7 DEF IInv, FreshOK, Open
<1>19. CapOK'
  BY <1>2, <1>3, CapKept DEF IInv, HeldBytes
<1>20. PlacesOK'
  BY <1>1, <1>2, <1>3, <1>4, <1>5, <1>6, <1>7, QueueIs DEF IInv, PlacesOK, Open, SendTypes
<1>21. ListTellsTheRows'
  BY <1>1, <1>2, <1>3, <1>4, <1>5, <1>6, <1>7 DEF IInv, ListTellsTheRows, Open, Visible, Final,
    RemovalTypes, ListTypes
<1>22. QED  BY <1>8, <1>9, <1>10, <1>11, <1>12, <1>13, <1>14, <1>15, <1>16, <1>17, <1>18, <1>19,
    <1>20, <1>21, <1>7 DEF IInv
-----------------------------------------------------------------------------
(***************************************************************************)
(* The upload.                                                             *)
(***************************************************************************)
\* The photo at hand has no thumbnail yet, and is not asked about by the list.
LEMMA AtHand ==
    ASSUME IInv, cur.at # "none"
    PROVE  /\ cur \in Jobs /\ cur # NoJob /\ cur.id \in Photos
           /\ item[cur.id] \in Items /\ item[cur.id].thumb = "none"
           /\ cur.id \notin refresh \cup metas \cup thumbs
           /\ Open => phase # "loading"
           /\ cur.at \in {"frames", "decode"} => orig[cur.id] = "preparing"
           /\ cur.at \notin {"frames", "decode"} => orig[cur.id] = "zeroed"
<1>1. cur \in Jobs /\ cur # NoJob /\ cur.id \in Photos  BY Typed, AtWork
<1>2. orig[cur.id] = IF cur.at \in {"frames", "decode"} THEN "preparing" ELSE "zeroed"
  BY <1>1 DEF IInv, SendOK
<1>3. item[cur.id] \in Items  BY <1>1, Typed, RowsAreStatuses
<1>4. /\ item[cur.id].thumb = "none" /\ cur.id \notin thumbs
      /\ cur.id \notin refresh \cup metas
  BY <1>1, <1>2 DEF IInv, ListOK
<1>5. Open => phase # "loading"  BY <1>1 DEF IInv, FreshOK
<1>6. QED  BY <1>1, <1>2, <1>3, <1>4, <1>5

\* A job moved on is a job.
LEMMA JobAt ==
    ASSUME cur \in Jobs, NEW at \in {"frames", "decode", "post", "asset", "thumbnail", "ask", "poll"}
    PROVE  /\ [cur EXCEPT !.at = at] \in Jobs /\ [cur EXCEPT !.at = at].id = cur.id
           /\ [cur EXCEPT !.at = at].at = at /\ [cur EXCEPT !.at = at].st = cur.st
<1>1. QED  BY DEF Jobs

\* And one told a status.
LEMMA JobTold ==
    ASSUME cur \in Jobs, NEW at \in {"frames", "decode", "post", "asset", "thumbnail", "ask", "poll"},
           NEW st \in Statuses
    PROVE  /\ [cur EXCEPT !.at = at, !.st = st] \in Jobs
           /\ [cur EXCEPT !.at = at, !.st = st].id = cur.id
           /\ [cur EXCEPT !.at = at, !.st = st].at = at /\ [cur EXCEPT !.at = at, !.st = st].st = st
<1>1. QED  BY DEF Jobs


\* What a step of the upload may do to the photo at hand, once it is sealed: it
\* moves its row, its item but for the thumbnail, and itself on.
LEMMA UploadGoes ==
    ASSUME IInv, cur.at \in {"post", "asset", "thumbnail", "ask", "poll"}, NEW i \in Photos, i = cur.id,
           UNCHANGED <<phase, refresh, metas, thumbs, orig, review, preview, previewing, queue,
                       confirm, asks, removing, deleting, erasing, pending, viewer, views, gen,
                       opens, where, leaving>>,
           row' \in [Photos -> Rows], \A j \in Photos \ {i} : row'[j] = row[j],
           i \in removing /\ Visible(i)' => Visible(i),
           item' \in [Photos -> Items], \A j \in Photos \ {i} : item'[j] = item[j],
           item'[i].thumb = "none", item'[i].shown \in {item[i].shown, FALSE},
           item'[i].status = "ready" => Final(i)',
           \/ cur' = NoJob
           \/ /\ cur' \in Jobs /\ cur'.id = i /\ cur'.at \in {"asset", "thumbnail", "ask", "poll"}
              /\ cur'.st = "ready" => Final(i)',
           held' \subseteq held,
           faults' \in 0..MaxFaults, pictures' \in Nat, PicturesOK'
    PROVE  IInv'
<1>1. /\ i \notin refresh \cup metas \cup thumbs /\ orig[i] = "zeroed" /\ cur # NoJob
      /\ Open => phase # "loading"
      /\ \A j \in Photos : cur'.id = j => j = i
      /\ cur' = NoJob => cur'.at = "none" /\ cur'.st = "none"
  BY AtHand, AlbumAssumption DEF NoJob, NoId
<1>2. ReviewTypes' /\ RemovalTypes' /\ ViewTypes' /\ AskedOK'
  BY <1>1 DEF IInv, ReviewTypes, RemovalTypes, ViewTypes, AskedOK
<1>3. ReviewOK' /\ ViewOK' /\ CapOK'
  BY <1>1 DEF IInv, ReviewOK, Open, ViewOK, CapOK, HeldBytes
<1>4. ListTypes'
  BY <1>1 DEF IInv, ListTypes
<1>5. SendTypes'
  BY <1>1 DEF IInv, SendTypes
<1>6. CountTypes'
  BY <1>1 DEF IInv, CountTypes
<1>7. PhotosOK'
  BY <1>1 DEF IInv, PhotosOK, Unborn, ListTypes
<1>8. ListOK'
  BY <1>1 DEF IInv, ListOK, Final, ListTypes, SendTypes
<1>9. SendOK'
  BY <1>1, QueueIs DEF IInv, SendOK, Final, SendTypes
<1>10. FreshOK'
  BY <1>1 DEF IInv, FreshOK, Open
<1>11. PlacesOK'
  BY <1>1 DEF IInv, PlacesOK, Open, SendTypes
<1>12. ListTellsTheRows'
  <2>1. ASSUME NEW j \in Photos, item'[j].status = "ready" \/ item'[j].thumb # "none"
        PROVE  row'[j] \in {"ready", "hidden", "absent"}
    BY <2>1 DEF IInv, ListTellsTheRows, Final
  <2>2. ASSUME NEW j \in removing, Open, deleting[j] = 0
        PROVE  item'[j].shown = FALSE /\ ~Visible(j)'
    <3>1. j \in Photos /\ item[j].shown = FALSE /\ ~Visible(j)
      BY <2>2 DEF IInv, ListTellsTheRows, RemovalTypes, ListTypes, Items
    <3>2. CASE j = i
      BY <3>1, <3>2
    <3>3. CASE j # i
      BY <3>1, <3>3 DEF Visible
    <3>4. QED  BY <3>2, <3>3
  <2>3. QED  BY <2>1, <2>2 DEF ListTellsTheRows, Open
<1>13. QED  BY <1>2, <1>3, <1>4, <1>5, <1>6, <1>7, <1>8, <1>9, <1>10, <1>11, <1>12 DEF IInv

\* The next photo's job.
LEMMA JobsStart ==
    ASSUME NEW i \in Photos, NEW at \in {"frames", "asset"}
    PROVE  /\ [NoJob EXCEPT !.id = i, !.at = at] \in Jobs
           /\ [NoJob EXCEPT !.id = i, !.at = at].id = i /\ [NoJob EXCEPT !.id = i, !.at = at].at = at
           /\ [NoJob EXCEPT !.id = i, !.at = at].st = "none"
<1>1. 0 \in 0..Polls /\ "none" \in Statuses  BY AlbumAssumption DEF Statuses
<1>2. [NoJob EXCEPT !.id = i, !.at = at] \in Jobs  BY <1>1 DEF NoJob, NoId, Jobs
<1>3. [NoJob EXCEPT !.id = i, !.at = at].st = "none"  BY DEF NoJob
<1>4. [NoJob EXCEPT !.id = i, !.at = at].id = i /\ [NoJob EXCEPT !.id = i, !.at = at].at = at
  BY DEF NoJob
<1>5. QED  BY <1>2, <1>3, <1>4

\* A queue is its head and the rest.
LEMMA TailIs ==
    ASSUME NEW q \in Seq(Photos), q # <<>>
    PROVE  /\ Head(q) \in Photos /\ Tail(q) \in Seq(Photos)
           /\ ToSet(Tail(q)) \subseteq ToSet(q) /\ Head(q) \in ToSet(q)
           /\ ToSet(q) \subseteq {Head(q)} \cup ToSet(Tail(q))
<1>1. /\ Head(q) \in Photos /\ Tail(q) \in Seq(Photos) /\ Len(Tail(q)) = Len(q) - 1
      /\ \A k \in 1..Len(Tail(q)) : Tail(q)[k] = q[k + 1]
  BY HeadTailProperties
<1>2. /\ Len(q) \in Nat /\ Len(q) # 0 /\ Head(q) = q[1]
      /\ DOMAIN q = 1..Len(q) /\ DOMAIN Tail(q) = 1..Len(q) - 1
  BY <1>1, LenProperties, EmptySeq
<1>3. \A k \in 1..Len(q) - 1 : k + 1 \in 1..Len(q) /\ Tail(q)[k] = q[k + 1]  BY <1>1, <1>2
<1>4. \A k \in 1..Len(q) : k = 1 \/ (k - 1 \in 1..Len(q) - 1 /\ Tail(q)[k - 1] = q[k])
  <2> SUFFICES ASSUME NEW k \in 1..Len(q), k # 1
               PROVE  k - 1 \in 1..Len(q) - 1 /\ Tail(q)[k - 1] = q[k]
    OBVIOUS
  <2>1. k - 1 \in 1..Len(q) - 1 /\ (k - 1) + 1 = k  BY <1>2
  <2>2. QED  BY <1>3, <2>1
<1>5. ToSet(Tail(q)) \subseteq ToSet(q)  BY <1>2, <1>3 DEF ToSet
<1>6. Head(q) \in ToSet(q)  BY <1>2 DEF ToSet
<1>7. ToSet(q) \subseteq {Head(q)} \cup ToSet(Tail(q))  BY <1>2, <1>4 DEF ToSet
<1>8. QED  BY <1>1, <1>5, <1>6, <1>7

\* The head of the queue becomes the job at hand.
LEMMA NextPumpTakes == ASSUME IInv, NEW i \in Photos, PumpTakes(i) PROVE IInv'
<1>1. UNCHANGED <<row, phase, refresh, metas, thumbs, review, preview, previewing, held,
                 confirm, asks, removing, deleting, erasing, pending, viewer, views, gen,
                 opens, where, leaving, pictures, faults>>
  BY DEF PumpTakes, rem, seen, left
<1>2. Open /\ cur = NoJob /\ queue # <<>> /\ i = Head(queue) /\ queue' = Tail(queue)
  BY DEF PumpTakes
<1>3. /\ queue' \in Seq(Photos) /\ ToSet(queue') \subseteq ToSet(queue) /\ i \in ToSet(queue)
      /\ ToSet(queue) \subseteq {i} \cup ToSet(queue') /\ ToSet(queue) \subseteq Photos
  BY <1>2, TailIs, QueueIs DEF IInv, SendTypes
<1>4. /\ phase # "loading" /\ orig[i] \in {"queued", "zeroed"} /\ (i \in held => orig[i] = "zeroed")
      /\ item[i] \in Items /\ i \notin refresh \cup metas
      /\ \A j \in Photos : cur.id # j
  <2>1. \A j \in Photos : cur.id # j  BY <1>2, Typed, AtWork, AlbumAssumption DEF NoId
  <2>2. orig[i] \in {"queued", "preparing", "zeroed"}  BY <1>3 DEF IInv, SendOK
  <2>3. orig[i] # "preparing"  BY <2>1 DEF IInv, PlacesOK
  <2>4. QED  BY <1>2, <2>1, <2>2, <2>3, Typed, RowsAreStatuses DEF IInv, SendOK, ListOK, FreshOK
<1>5. /\ item' \in [Photos -> Items] /\ \A j \in Photos \ {i} : item'[j] = item[j]
      /\ item'[i].shown = item[i].shown /\ item'[i].thumb = item[i].thumb
      /\ item'[i].status = item[i].status
      /\ PicturesOK' /\ pictures' \in Nat
  <2>1. TypeOK /\ PicturesOK /\ UNCHANGED <<preview, viewer, pictures>>  BY <1>1, Typed
  <2>2. PICK lo \in Steps : Update(i, [item[i] EXCEPT !.local = lo])
    <3>1. CASE orig[i] = "queued"
      BY <3>1 DEF PumpTakes, Steps
    <3>2. CASE orig[i] # "queued" /\ i \in held
      BY <3>2 DEF PumpTakes, Steps
    <3>3. CASE orig[i] # "queued" /\ i \notin held
      <4>1. item[i].local \in Steps  BY <1>4 DEF Items
      <4>2. QED  BY <3>3, <4>1 DEF PumpTakes
    <3>4. QED  BY <3>1, <3>2, <3>3
  <2> DEFINE it == [item[i] EXCEPT !.local = lo]
  <2>3. /\ it \in Items /\ it.shown = item[i].shown /\ it.thumb = item[i].thumb
        /\ it.status = item[i].status
    BY <1>4 DEF Items
  <2>4. Update(i, it)  BY <2>2
  <2> HIDE DEF it
  <2>5. QED  BY <2>1, <2>3, <2>4, EditIs
<1>6. \/ /\ orig[i] = "queued" /\ orig' = [orig EXCEPT ![i] = "preparing"]
         /\ cur' \in Jobs /\ cur'.id = i /\ cur'.at = "frames" /\ cur'.st = "none" /\ cur' # NoJob
      \/ /\ orig[i] = "zeroed" /\ UNCHANGED orig /\ i \in held
         /\ cur' \in Jobs /\ cur'.id = i /\ cur'.at = "asset" /\ cur'.st = "none" /\ cur' # NoJob
      \/ /\ orig[i] = "zeroed" /\ UNCHANGED orig
         /\ cur' = NoJob /\ cur'.at = "none" /\ cur'.st = "none" /\ \A j \in Photos : cur'.id # j
  <2>1. NoJob.at = "none" /\ NoJob.st = "none" /\ \A j \in Photos : NoJob.id # j
    BY AlbumAssumption DEF NoJob, NoId
  <2>2. CASE orig[i] = "queued"
    <3>1. cur' = [NoJob EXCEPT !.id = i, !.at = "frames"] /\ orig' = [orig EXCEPT ![i] = "preparing"]
      BY <2>2 DEF PumpTakes
    <3>2. cur' \in Jobs /\ cur'.id = i /\ cur'.at = "frames" /\ cur'.st = "none"
      BY <3>1, JobsStart
    <3>3. QED  BY <2>1, <2>2, <3>1, <3>2
  <2>3. CASE orig[i] = "zeroed" /\ i \in held
    <3>1. cur' = [NoJob EXCEPT !.id = i, !.at = "asset"] /\ UNCHANGED orig
      BY <2>3 DEF PumpTakes
    <3>2. cur' \in Jobs /\ cur'.id = i /\ cur'.at = "asset" /\ cur'.st = "none"
      BY <3>1, JobsStart
    <3>3. QED  BY <2>1, <2>3, <3>1, <3>2
  <2>4. CASE orig[i] = "zeroed" /\ i \notin held
    BY <2>1, <2>4 DEF PumpTakes
  <2>5. QED  BY <1>4, <2>2, <2>3, <2>4
<1>7. RemovalTypes' /\ ViewTypes' /\ CountTypes' /\ AskedOK'
  BY <1>1 DEF IInv, RemovalTypes, ViewTypes, CountTypes, AskedOK
<1>8. ViewOK'
  BY <1>1 DEF IInv, ViewOK
<1>9. ListTypes'
  BY <1>1, <1>2, <1>3, <1>4, <1>5, <1>6 DEF IInv, ListTypes
<1>10. ReviewTypes'
  BY <1>1, <1>2, <1>3, <1>4, <1>5, <1>6 DEF IInv, ReviewTypes
<1>11. SendTypes'
  BY <1>1, <1>2, <1>3, <1>4, <1>5, <1>6 DEF IInv, SendTypes
<1>12. PhotosOK'
  BY <1>1, <1>2, <1>3, <1>4, <1>5, <1>6 DEF IInv, PhotosOK, Unborn, ListTypes, ReviewTypes
<1>13. ListOK'
  <2>0. \A j \in Photos \ {i} : orig'[j] = orig[j]  BY <1>6 DEF IInv, ReviewTypes
  <2>1. CASE cur'.id = i
    <3>1. item[i].thumb = "none" /\ i \notin thumbs
      <4>1. CASE orig[i] = "queued"
        <5>1. Unborn(i)  BY <4>1 DEF Unborn
        <5>2. QED  BY <5>1 DEF IInv, PhotosOK
      <4>2. CASE i \in held
        BY <4>2 DEF IInv, ListOK
      <4>3. QED  BY <1>6, <2>1, <4>1, <4>2
    <3>2. QED  BY <1>1, <1>3, <1>4, <1>5, <1>6, <2>1, <3>1
      DEF IInv, ListOK, Final, ListTypes, SendTypes, ReviewTypes
  <2>2. CASE \A j \in Photos : cur'.id # j
    BY <1>1, <1>3, <1>4, <1>5, <2>0, <2>2
    DEF IInv, ListOK, Final, ListTypes, SendTypes, ReviewTypes
  <2>3. QED  BY <1>6, <2>1, <2>2
<1>14. SendOK'
  BY <1>1, <1>2, <1>3, <1>4, <1>5, <1>6 DEF IInv, SendOK, Final, SendTypes, ReviewTypes
<1>15. ReviewOK'
  BY <1>1, <1>2, <1>3, <1>4, <1>5, <1>6 DEF IInv, ReviewOK, Open, ReviewTypes
<1>16. FreshOK'
  BY <1>1, <1>2, <1>3, <1>4, <1>5, <1>6 DEF IInv, FreshOK, Open
<1>17. CapOK'
  <2>1. HeldBytes' = HeldBytes  BY <1>6 DEF IInv, ReviewTypes, HeldBytes
  <2>2. QED  BY <2>1 DEF IInv, CapOK
<1>18. PlacesOK'
  BY <1>1, <1>2, <1>3, <1>4, <1>5, <1>6 DEF IInv, PlacesOK, Open, SendTypes, ReviewTypes
<1>19. ListTellsTheRows'
  BY <1>1, <1>2, <1>3, <1>4, <1>5, <1>6 DEF IInv, ListTellsTheRows, Open, Visible, Final,
    RemovalTypes
<1>20. QED  BY <1>7, <1>8, <1>9, <1>10, <1>11, <1>12, <1>13, <1>14, <1>15, <1>16, <1>17, <1>18,
    <1>19, <1>5 DEF IInv

\* The bytes stay until the decode has read them.
LEMMA NextDecodeStarts == ASSUME IInv, DecodeStarts PROVE IInv'
<1>1. UNCHANGED <<row, phase, item, refresh, metas, thumbs, orig, review, preview,
                 previewing, queue, held, confirm, asks, removing, deleting, erasing,
                 pending, viewer, views, gen, opens, where, leaving, pictures, faults>>
  BY DEF DecodeStarts, listed, chosen, rem, seen, left
<1>2. Open /\ cur.at = "frames" /\ cur' = [cur EXCEPT !.at = "decode"]
  BY DEF DecodeStarts, Working
<1>3. cur \in Jobs /\ cur # NoJob /\ (Open => phase # "loading")
  BY <1>2, AtHand
<1>4. cur' \in Jobs /\ cur'.id = cur.id /\ cur'.at = "decode" /\ cur'.st = cur.st
  BY <1>2, <1>3, JobAt
<1>5. ListTypes' /\ ReviewTypes' /\ RemovalTypes' /\ ViewTypes' /\ CountTypes' /\ AskedOK'
  BY <1>1 DEF IInv, ListTypes, ReviewTypes, RemovalTypes, ViewTypes, CountTypes, AskedOK
<1>6. ListTellsTheRows'
  BY <1>1 DEF IInv, ListTellsTheRows, Open, Visible, Final
<1>7. ReviewOK' /\ ViewOK' /\ CapOK' /\ PicturesOK'
  BY <1>1 DEF IInv, ReviewOK, Open, ViewOK, CapOK, HeldBytes, PicturesOK, OpenedOnes,
    PreviewedOnes, Opened, Viewed
<1>8. SendTypes'
  BY <1>1, <1>2, <1>3, <1>4 DEF IInv, SendTypes
<1>9. PhotosOK'
  BY <1>1, <1>2, <1>3, <1>4 DEF IInv, PhotosOK, Unborn, ListTypes
<1>10. ListOK'
  BY <1>1, <1>2, <1>3, <1>4 DEF IInv, ListOK, Final, ListTypes, SendTypes
<1>11. SendOK'
  BY <1>1, <1>2, <1>3, <1>4 DEF IInv, SendOK, Final, SendTypes
<1>12. FreshOK'
  BY <1>1, <1>2, <1>3, <1>4 DEF IInv, FreshOK, Open
<1>13. PlacesOK'
  BY <1>1, <1>2, <1>3, <1>4 DEF IInv, PlacesOK, Open
<1>14. QED  BY <1>5, <1>6, <1>7, <1>8, <1>9, <1>10, <1>11, <1>12, <1>13 DEF IInv

\* Prepared, the original is zeroed and the envelopes are held.
LEMMA NextDecodeDone == ASSUME IInv, DecodeDone PROVE IInv'
<1>1. UNCHANGED <<row, phase, refresh, metas, thumbs, review, preview, previewing, queue,
                 confirm, asks, removing, deleting, erasing, pending, viewer, views, gen,
                 opens, where, leaving, pictures>>
  BY DEF DecodeDone, rem, seen, left
<1>2. Open /\ cur.at = "decode" /\ orig' = [orig EXCEPT ![cur.id] = "zeroed"]
  BY DEF DecodeDone, Working
<1>3. PICK i \in Photos : i = cur.id
  BY <1>2, AtHand
<1>4. /\ cur \in Jobs /\ cur # NoJob /\ item[i] \in Items /\ item[i].thumb = "none"
      /\ i \notin refresh \cup metas \cup thumbs /\ phase # "loading" /\ orig[i] = "preparing"
      /\ Unborn(i)
  <2>1. cur \in Jobs /\ cur # NoJob /\ item[i] \in Items /\ item[i].thumb = "none"
    BY <1>2, <1>3, AtHand
  <2>2. i \notin refresh \cup metas \cup thumbs /\ phase # "loading" /\ orig[i] = "preparing"
    BY <1>2, <1>3, AtHand
  <2>3. QED  BY <2>1, <2>2 DEF Unborn
<1>5. faults' \in 0..MaxFaults
  BY Typed, FaultIs DEF DecodeDone
<1>6. /\ item' \in [Photos -> Items] /\ \A j \in Photos \ {i} : item'[j] = item[j]
      /\ item'[i].shown = item[i].shown /\ item'[i].thumb = item[i].thumb
      /\ item'[i].status = item[i].status
      /\ PicturesOK' /\ pictures' \in Nat
  <2>1. TypeOK /\ PicturesOK /\ UNCHANGED <<preview, viewer, pictures>>  BY <1>1, Typed
  <2>2. PICK lo \in Steps, f \in BOOLEAN : Update(i, [item[i] EXCEPT !.local = lo, !.failed = f])
    <3>1. CASE Update(i, [item[i] EXCEPT !.local = "uploading"])
      <4>1. /\ [item[i] EXCEPT !.local = "uploading"]
               = [item[i] EXCEPT !.local = "uploading", !.failed = item[i].failed]
            /\ item[i].failed \in BOOLEAN
        BY <1>4 DEF Items
      <4>2. QED  BY <3>1, <4>1 DEF Steps
    <3>2. CASE Update(i, [item[i] EXCEPT !.local = "none", !.failed = TRUE])
      BY <3>2 DEF Steps
    <3>3. QED  BY <1>3, <3>1, <3>2 DEF DecodeDone
  <2> DEFINE it == [item[i] EXCEPT !.local = lo, !.failed = f]
  <2>3. /\ it \in Items /\ it.shown = item[i].shown /\ it.thumb = item[i].thumb
        /\ it.status = item[i].status
    BY <1>4 DEF Items
  <2>4. Update(i, it)  BY <2>2
  <2> HIDE DEF it
  <2>5. QED  BY <2>1, <2>3, <2>4, EditIs
<1>7. \/ /\ held' = held \cup {i}
         /\ cur' \in Jobs /\ cur'.id = i /\ cur'.at = "post" /\ cur'.st = cur.st /\ cur' # NoJob
      \/ /\ held' = held
         /\ cur' = NoJob /\ cur'.at = "none" /\ cur'.st = "none" /\ \A j \in Photos : cur'.id # j
  <2>1. NoJob.at = "none" /\ NoJob.st = "none" /\ \A j \in Photos : NoJob.id # j
    BY AlbumAssumption DEF NoJob, NoId
  <2>2. CASE held' = held \cup {i} /\ cur' = [cur EXCEPT !.at = "post"]
    BY <1>3, <1>4, <2>1, <2>2, JobAt
  <2>3. CASE UNCHANGED held /\ cur' = NoJob
    BY <2>1, <2>3
  <2>4. QED  BY <1>3, <2>2, <2>3 DEF DecodeDone
<1>8. RemovalTypes' /\ ViewTypes' /\ AskedOK'
  BY <1>1 DEF IInv, RemovalTypes, ViewTypes, AskedOK
<1>9. ViewOK'
  BY <1>1 DEF IInv, ViewOK
<1>10. ListTypes'
  BY <1>1, <1>2, <1>3, <1>4, <1>5, <1>6, <1>7 DEF IInv, ListTypes
<1>11. ReviewTypes'
  BY <1>1, <1>2, <1>3, <1>4, <1>5, <1>6, <1>7 DEF IInv, ReviewTypes
<1>12. SendTypes'
  BY <1>1, <1>2, <1>3, <1>4, <1>5, <1>6, <1>7 DEF IInv, SendTypes
<1>13. CountTypes'
  BY <1>1, <1>2, <1>3, <1>4, <1>5, <1>6, <1>7 DEF IInv, CountTypes
<1>14. PhotosOK'
  BY <1>1, <1>2, <1>3, <1>4, <1>5, <1>6, <1>7 DEF IInv, PhotosOK, Unborn, ListTypes, ReviewTypes
<1>15. ListOK'
  BY <1>1, <1>2, <1>3, <1>4, <1>5, <1>6, <1>7 DEF IInv, ListOK, Final, ListTypes, SendTypes,
    ReviewTypes
<1>16. SendOK'
  BY <1>1, <1>2, <1>3, <1>4, <1>5, <1>6, <1>7, QueueIs DEF IInv, SendOK, Final, SendTypes,
    ReviewTypes
<1>17. ReviewOK'
  BY <1>1, <1>2, <1>3, <1>4, <1>5, <1>6, <1>7 DEF IInv, ReviewOK, Open, ReviewTypes
<1>18. FreshOK'
  BY <1>1, <1>2, <1>3, <1>4, <1>5, <1>6, <1>7 DEF IInv, FreshOK, Open
<1>19. CapOK'
  BY <1>2, CapKept DEF IInv, HeldBytes, ReviewTypes
<1>20. PlacesOK'
  BY <1>1, <1>2, <1>3, <1>4, <1>5, <1>6, <1>7, QueueIs DEF IInv, PlacesOK, Open, SendTypes,
    ReviewTypes
<1>21. ListTellsTheRows'
  BY <1>1, <1>2, <1>3, <1>4, <1>5, <1>6, <1>7 DEF IInv, ListTellsTheRows, Open, Visible, Final,
    RemovalTypes
<1>22. QED  BY <1>8, <1>9, <1>10, <1>11, <1>12, <1>13, <1>14, <1>15, <1>16, <1>17, <1>18, <1>19,
    <1>20, <1>21, <1>6 DEF IInv
\* Its item edited, but for the thumbnail.
LEMMA HandEdited ==
    ASSUME IInv, cur.at # "none", NEW i \in Photos, i = cur.id,
           UNCHANGED <<preview, viewer, pictures>>,
           NEW it \in Items, it.shown = item[i].shown, it.thumb = item[i].thumb, Update(i, it),
           it.status = "ready" => Final(i)', Final(i) => Final(i)'
    PROVE  /\ item' \in [Photos -> Items] /\ \A j \in Photos \ {i} : item'[j] = item[j]
           /\ item'[i].thumb = "none" /\ item'[i].shown = item[i].shown
           /\ item'[i].status = "ready" => Final(i)'
           /\ pictures' \in Nat /\ PicturesOK'
<1>1. /\ item' \in [Photos -> Items] /\ \A j \in Photos \ {i} : item'[j] = item[j]
      /\ item'[i].shown = item[i].shown /\ item'[i].thumb = item[i].thumb
      /\ item'[i] = item[i] \/ item'[i] = it
      /\ PicturesOK' /\ pictures' \in Nat
  BY Typed, EditIs
<1>2. item[i].thumb = "none"  BY AtHand
<1>3. item[i].status = "ready" => Final(i)  BY DEF IInv, ListTellsTheRows, Final
<1>4. QED  BY <1>1, <1>2, <1>3

\* A row is born pending, and its item says so.
LEMMA NextPost == ASSUME IInv, Post PROVE IInv'
<1>1. UNCHANGED <<phase, refresh, metas, thumbs, orig, review, preview, previewing, queue,
                  confirm, asks, removing, deleting, erasing, pending, viewer, views, gen,
                  opens, where, leaving, pictures>>
  BY DEF Post, chosen, rem, seen, left
<1>2. Open /\ cur.at = "post"  BY DEF Post, Working
<1>3. PICK i \in Photos : i = cur.id  BY <1>2, AtHand
<1>4. /\ cur \in Jobs /\ item[i] \in Items /\ Unborn(i) /\ cur.st = "none"
      /\ row[i] = "absent" /\ i \notin removing /\ item[i].status = "none"
  BY <1>2, <1>3, AtHand DEF IInv, PhotosOK, Unborn, SendOK
<1>5. row \in [Photos -> Rows] /\ faults' \in 0..MaxFaults
  <2>1. Fault \/ UNCHANGED faults  BY DEF Post
  <2>2. QED  BY <2>1, Typed, FaultIs DEF IInv, ListTypes
<1>6. CASE /\ row' = [row EXCEPT ![i] = "pending"] /\ cur' = [cur EXCEPT !.at = "asset"]
           /\ Update(i, [item[i] EXCEPT !.status = "pending"]) /\ UNCHANGED held
  <2> DEFINE it == [item[i] EXCEPT !.status = "pending"]
  <2>1. it \in Items /\ it.shown = item[i].shown /\ it.thumb = item[i].thumb /\ it.status = "pending"
    BY <1>4 DEF Items, Statuses
  <2>2. Update(i, it)  BY <1>6
  <2> HIDE DEF it
  <2>3. /\ item' \in [Photos -> Items] /\ \A j \in Photos \ {i} : item'[j] = item[j]
        /\ item'[i].shown = item[i].shown /\ item'[i].thumb = item[i].thumb
        /\ item'[i] = item[i] \/ item'[i] = it
        /\ PicturesOK' /\ pictures' \in Nat
    BY <1>1, <2>1, <2>2, Typed, EditIs
  <2>4. item'[i].thumb = "none" /\ item'[i].status # "ready"  BY <1>2, <1>3, <1>4, <2>1, <2>3, AtHand
  <2>5. row' \in [Photos -> Rows] /\ \A j \in Photos \ {i} : row'[j] = row[j]
    BY <1>5, <1>6 DEF Rows
  <2>6. cur' \in Jobs /\ cur'.id = i /\ cur'.at = "asset" /\ cur'.st = "none"
    BY <1>3, <1>4, <1>6, JobAt
  <2>7. QED  BY <1>1, <1>2, <1>3, <1>4, <1>5, <1>6, <2>3, <2>4, <2>5, <2>6, UploadGoes
<1>7. CASE /\ cur' = NoJob /\ held' = held \ {i} /\ UNCHANGED row
           /\ Update(i, [item[i] EXCEPT !.local = "none", !.failed = TRUE])
  <2> DEFINE it == [item[i] EXCEPT !.local = "none", !.failed = TRUE]
  <2>1. it \in Items /\ it.shown = item[i].shown /\ it.thumb = item[i].thumb /\ it.status = "none"
    BY <1>4 DEF Items, Steps
  <2>2. Update(i, it)  BY <1>7
  <2> HIDE DEF it
  <2>3. Final(i) => Final(i)'  BY <1>7 DEF Final
  <2>4. /\ item' \in [Photos -> Items] /\ \A j \in Photos \ {i} : item'[j] = item[j]
        /\ item'[i].thumb = "none" /\ item'[i].shown = item[i].shown
        /\ item'[i].status = "ready" => Final(i)'
        /\ pictures' \in Nat /\ PicturesOK'
    BY <1>1, <1>2, <1>3, <2>1, <2>2, <2>3, HandEdited
  <2>5. row' \in [Photos -> Rows]
      /\ (\A j \in Photos \ {i} : row'[j] = row[j]) /\ held' \subseteq held
    BY <1>5, <1>7
  <2>6. QED  BY <1>1, <1>2, <1>3, <1>4, <1>5, <1>7, <2>4, <2>5, UploadGoes
<1>8. QED  BY <1>3, <1>6, <1>7 DEF Post

\* The item is told what the PUT was answered; ready only by the row.
LEMMA NextPut == ASSUME IInv, NEW v \in {"asset", "thumbnail"}, Put(v) PROVE IInv'
<1>1. UNCHANGED <<phase, refresh, metas, thumbs, orig, review, preview, previewing, queue,
                  confirm, asks, removing, deleting, erasing, pending, viewer, views, gen,
                  opens, where, leaving>>
  BY DEF Put, chosen, rem, seen, left
<1>2. Open /\ cur.at = v /\ cur.at \in {"post", "asset", "thumbnail", "ask", "poll"} /\ cur.at # "none"
  BY DEF Put, Working
<1>3. PICK i \in Photos : i = cur.id  BY <1>2, AtHand
<1>4. cur \in Jobs /\ item[i] \in Items /\ i \notin removing  BY <1>2, <1>3, AtHand DEF Put
<1>5. TypeOK /\ PicturesOK /\ row \in [Photos -> Rows] /\ UNCHANGED <<preview, viewer>>
  BY <1>1, Typed DEF TypeOK
<1>6. CASE ~Visible(i) /\ Gone(i) /\ UNCHANGED <<row, faults>>
  <2>1. cur' = NoJob /\ held' = held \ {i} /\ Drop(i)  BY <1>6 DEF Gone
  <2>2. /\ item' \in [Photos -> Items] /\ \A j \in Photos \ {i} : item'[j] = item[j]
        /\ item'[i].thumb = "none" /\ item'[i].shown = FALSE /\ item'[i].status = "none"
        /\ PicturesOK' /\ pictures' \in Nat
    BY <1>5, <2>1, DropIs DEF Blank
  <2>3. faults' \in 0..MaxFaults  BY <1>5, <1>6, FaultIs
  <2>4. QED  BY <1>1, <1>2, <1>3, <1>4, <1>5, <1>6, <2>1, <2>2, <2>3, UploadGoes
<1>7. CASE /\ row[i] = "ready" /\ cur' = [cur EXCEPT !.at = "ask"]
           /\ UNCHANGED <<row, item, held, pictures, faults>>
  <2>1. /\ item' \in [Photos -> Items] /\ item'[i].thumb = "none"
        /\ item'[i].status = "ready" => Final(i)'
    BY <1>2, <1>3, <1>5, <1>7, Typed, AtHand DEF TypeOK, IInv, ListTellsTheRows, Final
  <2>2. pictures' \in Nat /\ PicturesOK'
    BY <1>1, <1>5, <1>7 DEF PicturesOK, OpenedOnes, PreviewedOnes, Opened, Viewed, TypeOK
  <2>3. cur' \in Jobs /\ cur'.id = i /\ cur'.at = "ask" /\ cur'.st = cur.st
    BY <1>3, <1>4, <1>7, JobAt
  <2>4. (cur'.st = "ready" => Final(i)') /\ cur # NoJob
    BY <1>2, <1>3, <1>7, <2>3, AtHand DEF IInv, SendOK, Final
  <2>5. faults' \in 0..MaxFaults  BY <1>5, <1>7, FaultIs
  <2>6. /\ row' \in [Photos -> Rows] /\ \A j \in Photos \ {i} : row'[j] = row[j]
        /\ \A j \in Photos \ {i} : item'[j] = item[j]
        /\ item'[i].shown = item[i].shown /\ held' \subseteq held
    BY <1>5, <1>7
  <2>7. QED  BY <1>1, <1>2, <1>3, <1>4, <2>1, <2>2, <2>3, <2>4, <2>5, <2>6, UploadGoes
<1>8. ASSUME Visible(i), row[i] # "ready", NEW r \in Stored, Fault \/ UNCHANGED faults,
             row' = [row EXCEPT ![i] = r], UNCHANGED <<held, pictures>>,
             cur' = [cur EXCEPT !.at = IF v = "asset" /\ r # "failed" THEN "thumbnail" ELSE "poll",
                                !.st = r],
             Update(i, [item[i] EXCEPT !.status = r,
                               !.local = IF v = "asset" /\ r # "failed" THEN @ ELSE "waiting"])
      PROVE  IInv'
  <2> DEFINE it == [item[i] EXCEPT !.status = r,
                           !.local = IF v = "asset" /\ r # "failed" THEN @ ELSE "waiting"]
  <2>1. r \in Statuses /\ r \in Rows  BY <1>8 DEF Stored, Statuses, Rows
  <2>2. /\ it \in Items /\ it.shown = item[i].shown /\ it.thumb = item[i].thumb
        /\ it.status = r
    BY <1>4, <2>1 DEF Items, Steps
  <2>3. Update(i, it)  BY <1>8
  <2> HIDE DEF it
  <2>4. /\ row' \in [Photos -> Rows] /\ \A j \in Photos \ {i} : row'[j] = row[j]
        /\ row'[i] = r /\ ~Final(i)
    BY <1>5, <1>8, <2>1 DEF Final, Visible
  <2>5. r = "ready" => Final(i)'  BY <2>4 DEF Final
  <2>6. /\ item' \in [Photos -> Items] /\ \A j \in Photos \ {i} : item'[j] = item[j]
        /\ item'[i].thumb = "none" /\ item'[i].shown = item[i].shown
        /\ item'[i].status = "ready" => Final(i)'
        /\ pictures' \in Nat /\ PicturesOK'
    BY <1>2, <1>3, <1>5, <1>8, <2>2, <2>3, <2>4, <2>5, HandEdited
  <2>7. cur' \in Jobs /\ cur'.id = i /\ cur'.at \in {"thumbnail", "poll"} /\ cur'.st = r
    <3>1. CASE v = "asset" /\ r # "failed"
      <4>1. cur' = [cur EXCEPT !.at = "thumbnail", !.st = r]  BY <1>8, <3>1
      <4>2. QED  BY <1>3, <1>4, <2>1, <4>1, JobTold
    <3>2. CASE ~(v = "asset" /\ r # "failed")
      <4>1. cur' = [cur EXCEPT !.at = "poll", !.st = r]  BY <1>8, <3>2
      <4>2. QED  BY <1>3, <1>4, <2>1, <4>1, JobTold
    <3>3. QED  BY <3>1, <3>2
  <2>8. faults' \in 0..MaxFaults  BY <1>5, <1>8, FaultIs
  <2>9. held' \subseteq held  BY <1>8
  <2>10. QED  BY <1>1, <1>2, <1>3, <1>4, <2>4, <2>5, <2>6, <2>7, <2>8, <2>9, UploadGoes
<1>9. CASE /\ Fault /\ cur' = NoJob /\ held' = held \ {i}
           /\ Update(i, [item[i] EXCEPT !.local = "none", !.status = "failed", !.resend = FALSE])
           /\ UNCHANGED <<row, pictures>>
  <2> DEFINE it == [item[i] EXCEPT !.local = "none", !.status = "failed", !.resend = FALSE]
  <2>1. it \in Items /\ it.shown = item[i].shown /\ it.thumb = item[i].thumb /\ it.status = "failed"
    BY <1>4 DEF Items, Steps, Statuses
  <2>2. Update(i, it)  BY <1>9
  <2>3. Final(i) => Final(i)'  BY <1>9 DEF Final
  <2> HIDE DEF it
  <2>4. /\ item' \in [Photos -> Items] /\ \A j \in Photos \ {i} : item'[j] = item[j]
        /\ item'[i].thumb = "none" /\ item'[i].shown = item[i].shown
        /\ item'[i].status = "ready" => Final(i)'
        /\ pictures' \in Nat /\ PicturesOK'
    BY <1>2, <1>3, <1>5, <1>9, <2>1, <2>2, <2>3, HandEdited
  <2>5. faults' \in 0..MaxFaults  BY <1>5, <1>9, FaultIs
  <2>6. row' \in [Photos -> Rows]
      /\ (\A j \in Photos \ {i} : row'[j] = row[j]) /\ held' \subseteq held
    BY <1>5, <1>9
  <2>7. QED  BY <1>1, <1>2, <1>3, <1>4, <1>9, <2>4, <2>5, <2>6, UploadGoes
<1>10. \/ ~Visible(i) /\ Gone(i) /\ UNCHANGED <<row, faults>>
       \/ /\ row[i] = "ready" /\ cur' = [cur EXCEPT !.at = "ask"]
          /\ UNCHANGED <<row, item, held, pictures, faults>>
       \/ /\ Visible(i) /\ row[i] # "ready" /\ UNCHANGED <<held, pictures>>
          /\ \E r \in Stored :
               /\ Fault \/ UNCHANGED faults
               /\ row' = [row EXCEPT ![i] = r]
               /\ cur' = [cur EXCEPT !.at = IF v = "asset" /\ r # "failed" THEN "thumbnail" ELSE "poll",
                                     !.st = r]
               /\ Update(i, [item[i] EXCEPT !.status = r,
                                    !.local = IF v = "asset" /\ r # "failed" THEN @ ELSE "waiting"])
       \/ /\ Fault /\ cur' = NoJob /\ held' = held \ {i}
          /\ Update(i, [item[i] EXCEPT !.local = "none", !.status = "failed", !.resend = FALSE])
          /\ UNCHANGED <<row, pictures>>
  BY <1>3 DEF Put
<1>11. QED  BY <1>6, <1>7, <1>8, <1>9, <1>10

\* A row that refuses a PUT is ready, or has gone since.
LEMMA NextAsk == ASSUME IInv, Ask PROVE IInv'
<1>1. UNCHANGED <<row, phase, refresh, metas, thumbs, orig, review, preview, previewing, queue,
                  held, confirm, asks, removing, deleting, erasing, pending, viewer, views, gen,
                  opens, where, leaving, pictures>>
  BY DEF Ask, chosen, rem, seen, left
<1>2. Open /\ cur.at = "ask"  BY DEF Ask, Working
<1>3. PICK i \in Photos : i = cur.id  BY <1>2, AtHand
<1>4. cur \in Jobs /\ item[i] \in Items  BY <1>2, <1>3, AtHand
<1>5. TypeOK /\ PicturesOK /\ row' \in [Photos -> Rows] /\ UNCHANGED <<preview, viewer>>
      /\ Final(i)' = Final(i) /\ Visible(i)' = Visible(i)
  BY <1>1, Typed DEF TypeOK, Final, Visible
<1>6. faults' \in 0..MaxFaults
  <2>1. Fault \/ UNCHANGED faults  BY DEF Ask
  <2>2. QED  BY <1>5, <2>1, FaultIs
<1>7. \A it : /\ it \in Items /\ it.shown = item[i].shown /\ it.thumb = item[i].thumb
              /\ it.status = item[i].status /\ Update(i, it)
              => /\ item' \in [Photos -> Items] /\ \A j \in Photos \ {i} : item'[j] = item[j]
                 /\ item'[i].thumb = "none" /\ item'[i].shown = item[i].shown
                 /\ item'[i].status = "ready" => Final(i)'
                 /\ pictures' \in Nat /\ PicturesOK'
  <2>1. item[i].status = "ready" => Final(i)  BY DEF IInv, ListTellsTheRows, Final
  <2>2. QED  BY <1>1, <1>2, <1>3, <1>5, <2>1, HandEdited
<1>8. CASE /\ Visible(i) /\ cur' = [cur EXCEPT !.at = "poll", !.st = row[i]]
           /\ Update(i, [item[i] EXCEPT !.local = "waiting"])
  <2> DEFINE it == [item[i] EXCEPT !.local = "waiting"]
  <2>1. row[i] \in Statuses  BY <1>1, <1>5, <1>8, RowsAreStatuses
  <2>2. /\ it \in Items /\ it.shown = item[i].shown /\ it.thumb = item[i].thumb
        /\ it.status = item[i].status
    BY <1>4 DEF Items, Steps
  <2>3. Update(i, it)  BY <1>8
  <2> HIDE DEF it
  <2>4. /\ item' \in [Photos -> Items] /\ \A j \in Photos \ {i} : item'[j] = item[j]
        /\ item'[i].thumb = "none" /\ item'[i].shown = item[i].shown
        /\ item'[i].status = "ready" => Final(i)'
        /\ pictures' \in Nat /\ PicturesOK'
    BY <1>7, <2>2, <2>3
  <2>5. cur' \in Jobs /\ cur'.id = i /\ cur'.at = "poll" /\ cur'.st = row[i]
    BY <1>3, <1>4, <1>8, <2>1, JobTold
  <2>6. /\ row' \in [Photos -> Rows] /\ \A j \in Photos \ {i} : row'[j] = row[j]
        /\ held' \subseteq held /\ (cur'.st = "ready" => Final(i)')
    BY <1>1, <1>5, <2>5 DEF Final
  <2>7. QED  BY <1>1, <1>2, <1>3, <1>4, <1>5, <1>6, <2>4, <2>5, <2>6, UploadGoes
<1>9. CASE /\ cur' = NoJob
           /\ Update(i, [item[i] EXCEPT !.local = "none", !.resend = CanResend(i, item[i].status)])
  <2> DEFINE re == CanResend(i, item[i].status)
             it == [item[i] EXCEPT !.local = "none", !.resend = re]
  <2>1. re \in BOOLEAN  BY DEF CanResend
  <2> HIDE DEF re
  <2>2. /\ it \in Items /\ it.shown = item[i].shown /\ it.thumb = item[i].thumb
        /\ it.status = item[i].status
    BY <1>4, <2>1 DEF Items, Steps
  <2>3. Update(i, it)  BY <1>9 DEF re
  <2> HIDE DEF it
  <2>4. /\ item' \in [Photos -> Items] /\ \A j \in Photos \ {i} : item'[j] = item[j]
        /\ item'[i].thumb = "none" /\ item'[i].shown = item[i].shown
        /\ item'[i].status = "ready" => Final(i)'
        /\ pictures' \in Nat /\ PicturesOK'
    BY <1>7, <2>2, <2>3
  <2>5. /\ row' \in [Photos -> Rows] /\ \A j \in Photos \ {i} : row'[j] = row[j]
        /\ held' \subseteq held
    BY <1>1, <1>5
  <2>6. QED  BY <1>1, <1>2, <1>3, <1>4, <1>5, <1>6, <1>9, <2>4, <2>5, UploadGoes
<1>10. QED  BY <1>3, <1>8, <1>9 DEF Ask

\* The item is told what the status was.
LEMMA NextPoll == ASSUME IInv, Poll PROVE IInv'
<1>1. UNCHANGED <<row, phase, refresh, metas, thumbs, orig, review, preview, previewing, queue,
                  confirm, asks, removing, deleting, erasing, pending, viewer, views, gen,
                  opens, where, leaving>>
  BY DEF Poll, chosen, rem, seen, left
<1>2. Open /\ cur.at = "poll" /\ ~Settled  BY DEF Poll, Working
<1>3. PICK i \in Photos : i = cur.id  BY <1>2, AtHand
<1>4. cur \in Jobs /\ item[i] \in Items /\ i \notin removing  BY <1>2, <1>3, AtHand DEF Poll
<1>5. TypeOK /\ PicturesOK /\ row' \in [Photos -> Rows] /\ UNCHANGED <<preview, viewer>>
      /\ Final(i)' = Final(i)
  BY <1>1, Typed DEF TypeOK, Final
<1>6. faults' \in 0..MaxFaults
  <2>1. Fault \/ UNCHANGED faults  BY DEF Poll
  <2>2. QED  BY <1>5, <2>1, FaultIs
<1>7. CASE ~Visible(i) /\ Gone(i)
  <2>1. cur' = NoJob /\ held' = held \ {i} /\ Drop(i)  BY <1>7 DEF Gone
  <2>2. /\ item' \in [Photos -> Items] /\ \A j \in Photos \ {i} : item'[j] = item[j]
        /\ item'[i].thumb = "none" /\ item'[i].shown = FALSE /\ item'[i].status = "none"
        /\ PicturesOK' /\ pictures' \in Nat
    BY <1>5, <2>1, DropIs DEF Blank
  <2>3. QED  BY <1>1, <1>2, <1>3, <1>4, <1>5, <1>6, <2>1, <2>2, UploadGoes
<1>8. CASE /\ Visible(i) /\ cur' = [cur EXCEPT !.st = row[i], !.polls = @ + 1]
           /\ Update(i, [item[i] EXCEPT !.status = row[i]]) /\ UNCHANGED <<held, pictures>>
  <2> DEFINE it == [item[i] EXCEPT !.status = row[i]]
  <2>1. row[i] \in Statuses  BY <1>5, <1>8, RowsAreStatuses
  <2>2. it \in Items /\ it.shown = item[i].shown /\ it.thumb = item[i].thumb /\ it.status = row[i]
    BY <1>4, <2>1 DEF Items
  <2>3. Update(i, it) /\ (row[i] = "ready" => Final(i))  BY <1>8 DEF Final
  <2> HIDE DEF it
  <2>4. /\ item' \in [Photos -> Items] /\ \A j \in Photos \ {i} : item'[j] = item[j]
        /\ item'[i].thumb = "none" /\ item'[i].shown = item[i].shown
        /\ item'[i].status = "ready" => Final(i)'
        /\ pictures' \in Nat /\ PicturesOK'
    BY <1>2, <1>3, <1>5, <1>8, <2>2, <2>3, HandEdited
  <2>5. cur' \in Jobs /\ cur'.id = i /\ cur'.at = "poll" /\ cur'.st = row[i]
    <3>1. cur.polls + 1 \in 0..Polls  BY <1>2, <1>4, AlbumAssumption DEF Jobs, Settled
    <3>2. cur' \in Jobs  BY <1>4, <1>8, <2>1, <3>1 DEF Jobs
    <3>3. cur'.id = cur.id /\ cur'.at = cur.at /\ cur'.st = row[i]  BY <1>4, <1>8 DEF Jobs
    <3>4. QED  BY <1>2, <1>3, <3>2, <3>3
  <2>6. /\ row' \in [Photos -> Rows] /\ \A j \in Photos \ {i} : row'[j] = row[j]
        /\ held' \subseteq held /\ (cur'.st = "ready" => Final(i)')
    BY <1>1, <1>5, <1>8, <2>3, <2>5
  <2>7. QED  BY <1>1, <1>2, <1>3, <1>4, <1>6, <2>4, <2>5, <2>6, UploadGoes
<1>9. CASE /\ cur' = NoJob /\ UNCHANGED <<held, pictures>>
           /\ Update(i, [item[i] EXCEPT !.local = "none", !.resend = CanResend(i, item[i].status)])
  <2> DEFINE re == CanResend(i, item[i].status)
             it == [item[i] EXCEPT !.local = "none", !.resend = re]
  <2>1. re \in BOOLEAN  BY DEF CanResend
  <2> HIDE DEF re
  <2>2. /\ it \in Items /\ it.shown = item[i].shown /\ it.thumb = item[i].thumb
        /\ it.status = item[i].status
    BY <1>4, <2>1 DEF Items, Steps
  <2>3. Update(i, it)  BY <1>9 DEF re
  <2>4. item[i].status = "ready" => Final(i)  BY DEF IInv, ListTellsTheRows, Final
  <2> HIDE DEF it
  <2>5. /\ item' \in [Photos -> Items] /\ \A j \in Photos \ {i} : item'[j] = item[j]
        /\ item'[i].thumb = "none" /\ item'[i].shown = item[i].shown
        /\ item'[i].status = "ready" => Final(i)'
        /\ pictures' \in Nat /\ PicturesOK'
    BY <1>2, <1>3, <1>5, <1>9, <2>2, <2>3, <2>4, HandEdited
  <2>6. row' \in [Photos -> Rows]
      /\ (\A j \in Photos \ {i} : row'[j] = row[j]) /\ held' \subseteq held
    BY <1>1, <1>5, <1>9
  <2>7. QED  BY <1>1, <1>2, <1>3, <1>4, <1>6, <1>9, <2>5, <2>6, UploadGoes
<1>10. QED  BY <1>3, <1>7, <1>8, <1>9 DEF Poll

\* A photo being removed is left to the removal.
LEMMA NextSendStops == ASSUME IInv, SendStops PROVE IInv'
<1>1. UNCHANGED <<row, phase, item, refresh, metas, thumbs, orig, review, preview, previewing,
                  queue, held, confirm, asks, removing, deleting, erasing, pending, viewer, views,
                  gen, opens, where, leaving, pictures, faults>>
  BY DEF SendStops, listed, chosen, rem, seen, left
<1>2. cur.at \in {"asset", "thumbnail", "poll"} /\ cur' = NoJob  BY DEF SendStops
<1>3. PICK i \in Photos : i = cur.id  BY <1>2, AtHand
<1>4. item[i].thumb = "none" /\ (item[i].status = "ready" => Final(i)) /\ Final(i)' = Final(i)
      /\ Visible(i)' = Visible(i)
  BY <1>1, <1>2, <1>3, AtHand DEF IInv, ListTellsTheRows, Final, Visible
<1>5. TypeOK /\ PicturesOK  BY Typed
<1>6. PicturesOK' /\ pictures' \in Nat
  BY <1>1, <1>5 DEF PicturesOK, OpenedOnes, PreviewedOnes, Opened, Viewed, TypeOK
<1>7. item' \in [Photos -> Items] /\ row' \in [Photos -> Rows] /\ faults' \in 0..MaxFaults
  BY <1>1, <1>5 DEF TypeOK
<1>8. QED  BY <1>1, <1>2, <1>3, <1>4, <1>6, <1>7, UploadGoes
\* The photo at hand is done: its thumbnail is fetched.
LEMMA SendDone == ASSUME IInv, SendEnds, cur.st = "ready" PROVE IInv'
<1>1. UNCHANGED <<row, phase, refresh, metas, orig, review, preview, previewing, queue,
                 confirm, asks, removing, deleting, erasing, pending, viewer, views, gen,
                 opens, where, leaving, pictures, faults>>
  BY DEF SendEnds, chosen, rem, seen, left
<1>2. Open /\ cur.at = "poll" /\ cur' = NoJob
  BY DEF SendEnds, Working
<1>3. PICK i \in Photos : i = cur.id
  BY <1>2, AtHand
<1>4. /\ cur # NoJob /\ item[i] \in Items /\ item[i].thumb = "none" /\ orig[i] = "zeroed" /\ Final(i)
      /\ i \notin refresh \cup metas \cup thumbs /\ phase # "loading"
      /\ cur'.at = "none" /\ cur'.st = "none" /\ \A j \in Photos : cur'.id # j
  <2>1. Final(i)  BY <1>3 DEF IInv, SendOK
  <2>2. NoJob.at = "none" /\ NoJob.st = "none" /\ \A j \in Photos : NoJob.id # j
    BY AlbumAssumption DEF NoJob, NoId
  <2>3. QED  BY <1>2, <1>3, <2>1, <2>2, AtHand
<1>5. held' = held \ {i} /\ BecameReady(i, TRUE)
  BY <1>3 DEF SendEnds
<1>6. thumbs' = thumbs \cup {i}
  BY <1>5 DEF BecameReady
<1>7. /\ item' \in [Photos -> Items] /\ \A j \in Photos \ {i} : item'[j] = item[j]
      /\ item'[i].shown = item[i].shown /\ item'[i].thumb # "ready"
      /\ PicturesOK' /\ pictures' \in Nat
  <2> DEFINE it == [item[i] EXCEPT !.status = "ready", !.local = "none", !.resend = FALSE,
                                   !.thumb = "loading"]
  <2>1. TypeOK /\ PicturesOK /\ UNCHANGED <<preview, viewer, pictures>>  BY <1>1, Typed
  <2>2. it \in Items /\ it.shown = item[i].shown /\ it.thumb # "ready"
    BY <1>4 DEF Items, Statuses, Steps, Thumbs
  <2>3. Update(i, it)  BY <1>5 DEF BecameReady
  <2> HIDE DEF it
  <2>4. /\ item' \in [Photos -> Items] /\ \A j \in Photos \ {i} : item'[j] = item[j]
        /\ item'[i] = IF item[i].shown THEN it ELSE item[i]
    BY <2>1, <2>2, <2>3, UpdateIs
  <2>5. QED  BY <1>4, <2>1, <2>2, <2>4, NoThumb
<1>8. ReviewTypes' /\ RemovalTypes' /\ ViewTypes' /\ CountTypes' /\ AskedOK'
  BY <1>1 DEF IInv, ReviewTypes, RemovalTypes, ViewTypes, CountTypes, AskedOK
<1>9. ReviewOK' /\ ViewOK' /\ CapOK'
  BY <1>1 DEF IInv, ReviewOK, Open, ViewOK, CapOK, HeldBytes
<1>10. ListTypes'
  BY <1>1, <1>2, <1>3, <1>4, <1>5, <1>6, <1>7 DEF IInv, ListTypes
<1>11. SendTypes'
  BY <1>1, <1>2, <1>3, <1>4, <1>5, <1>6, <1>7 DEF IInv, SendTypes
<1>12. PhotosOK'
  BY <1>1, <1>2, <1>3, <1>4, <1>5, <1>6, <1>7 DEF IInv, PhotosOK, Unborn, ListTypes
<1>13. ListOK'
  BY <1>1, <1>2, <1>3, <1>4, <1>5, <1>6, <1>7 DEF IInv, ListOK, Final, ListTypes, SendTypes
<1>14. SendOK'
  BY <1>1, <1>2, <1>3, <1>4, <1>5, <1>6, <1>7, QueueIs DEF IInv, SendOK, Final, SendTypes
<1>15. FreshOK'
  BY <1>1, <1>2, <1>3, <1>4, <1>5, <1>6, <1>7 DEF IInv, FreshOK, Open
<1>16. PlacesOK'
  BY <1>1, <1>2, <1>3, <1>4, <1>5, <1>6, <1>7 DEF IInv, PlacesOK, Open
<1>17. ListTellsTheRows'
  BY <1>1, <1>2, <1>3, <1>4, <1>5, <1>6, <1>7 DEF IInv, ListTellsTheRows, Open, Visible, Final,
    RemovalTypes
<1>18. QED  BY <1>8, <1>9, <1>10, <1>11, <1>12, <1>13, <1>14, <1>15, <1>16, <1>17, <1>7 DEF IInv

\* Done, or shown as the server last said.
LEMMA NextSendEnds == ASSUME IInv, SendEnds PROVE IInv'
<1>1. CASE cur.st = "ready"
  BY <1>1, SendDone
<1>2. CASE cur.st # "ready"
  <2>1. UNCHANGED <<row, phase, refresh, metas, thumbs, orig, review, preview, previewing, queue,
                    held, confirm, asks, removing, deleting, erasing, pending, viewer, views, gen,
                    opens, where, leaving, pictures, faults>>
    BY <1>2 DEF SendEnds, chosen, rem, seen, left
  <2>2. cur.at = "poll" /\ cur' = NoJob  BY DEF SendEnds, Working
  <2>3. PICK i \in Photos : i = cur.id  BY <2>2, AtHand
  <2>4. item[i] \in Items  BY <2>2, <2>3, AtHand
  <2> DEFINE re == CanResend(i, cur.st)
             it == [item[i] EXCEPT !.local = "none", !.resend = re]
  <2>5. re \in BOOLEAN  BY DEF CanResend
  <2> HIDE DEF re
  <2>6. /\ it \in Items /\ it.shown = item[i].shown /\ it.thumb = item[i].thumb
        /\ it.status = item[i].status
    BY <2>4, <2>5 DEF Items, Steps
  <2>7. Update(i, it)  BY <1>2, <2>3 DEF SendEnds, re
  <2>8. /\ item[i].status = "ready" => Final(i)
        /\ Final(i)' = Final(i) /\ Visible(i)' = Visible(i)
    BY <2>1 DEF IInv, ListTellsTheRows, Final, Visible
  <2> HIDE DEF it
  <2>9. /\ item' \in [Photos -> Items] /\ \A j \in Photos \ {i} : item'[j] = item[j]
        /\ item'[i].thumb = "none" /\ item'[i].shown = item[i].shown
        /\ item'[i].status = "ready" => Final(i)'
        /\ pictures' \in Nat /\ PicturesOK'
    BY <2>1, <2>2, <2>3, <2>6, <2>7, <2>8, HandEdited
  <2>10. row' \in [Photos -> Rows] /\ faults' \in 0..MaxFaults  BY <2>1, Typed DEF TypeOK
  <2>11. QED  BY <2>1, <2>2, <2>3, <2>8, <2>9, <2>10, UploadGoes
<1>3. QED  BY <1>1, <1>2

\* A queue and one more.
LEMMA AppendIs ==
    ASSUME NEW q \in Seq(Photos), NEW i \in Photos
    PROVE  Append(q, i) \in Seq(Photos) /\ ToSet(Append(q, i)) = ToSet(q) \cup {i}
<1>1. /\ Append(q, i) \in Seq(Photos) /\ Len(q) \in Nat /\ Len(Append(q, i)) = Len(q) + 1
      /\ DOMAIN q = 1..Len(q) /\ DOMAIN Append(q, i) = 1..Len(q) + 1
      /\ \A k \in 1..Len(q) : Append(q, i)[k] = q[k]
      /\ Append(q, i)[Len(q) + 1] = i
  BY LenProperties
<1>2. ToSet(Append(q, i)) \subseteq ToSet(q) \cup {i}
  <2> SUFFICES ASSUME NEW k \in 1..Len(q) + 1 PROVE Append(q, i)[k] \in ToSet(q) \cup {i}
    BY <1>1 DEF ToSet
  <2>1. k \in 1..Len(q) \/ k = Len(q) + 1  BY <1>1
  <2>2. QED  BY <1>1, <2>1 DEF ToSet
<1>3. ToSet(q) \cup {i} \subseteq ToSet(Append(q, i))
  <2>1. Len(q) + 1 \in 1..Len(q) + 1 /\ \A k \in 1..Len(q) : k \in 1..Len(q) + 1  BY <1>1
  <2>2. QED  BY <1>1, <2>1 DEF ToSet
<1>4. QED  BY <1>1, <1>2, <1>3

\* Envelopes still held are queued again; the original stays zeroed.
LEMMA NextResend == ASSUME IInv, NEW i \in Photos, Resend(i) PROVE IInv'
<1>1. UNCHANGED <<row, phase, refresh, metas, thumbs, orig, review, preview, previewing,
                 cur, held, confirm, asks, removing, deleting, erasing, pending, viewer,
                 views, gen, opens, where, leaving, pictures, faults>>
  BY DEF Resend, chosen, rem, seen, left
<1>2. /\ Open /\ i \in held /\ orig[i] = "zeroed" /\ item[i] \in Items /\ phase # "loading"
      /\ queue' = Append(queue, i)
  <2>1. Open /\ i \in held /\ queue' = Append(queue, i)  BY DEF Resend, Free, CanResend
  <2>2. orig[i] = "zeroed" /\ phase # "loading"  BY <2>1 DEF IInv, SendOK, FreshOK
  <2>3. QED  BY <2>1, <2>2, Typed, RowsAreStatuses
<1>3. queue' \in Seq(Photos) /\ ToSet(queue') = ToSet(queue) \cup {i}
  BY <1>2, AppendIs DEF IInv, SendTypes
<1>4. /\ item' \in [Photos -> Items] /\ \A j \in Photos \ {i} : item'[j] = item[j]
      /\ item'[i].shown = item[i].shown /\ item'[i].thumb = item[i].thumb
      /\ item'[i].status = item[i].status
      /\ PicturesOK' /\ pictures' \in Nat
  <2>1. TypeOK /\ PicturesOK /\ UNCHANGED <<preview, viewer, pictures>>  BY <1>1, Typed
  <2>2. item' = [item EXCEPT ![i] = [item[i] EXCEPT !.local = "queued", !.resend = FALSE]]
    BY <2>1 DEF Resend, TypeOK
  <2> DEFINE it == [item[i] EXCEPT !.local = "queued", !.resend = FALSE]
  <2>3. /\ it \in Items /\ it.shown = item[i].shown /\ it.thumb = item[i].thumb
        /\ it.status = item[i].status
    BY <1>2 DEF Items, Steps
  <2>4. item' = [item EXCEPT ![i] = it]  BY <2>2
  <2> HIDE DEF it
  <2>5. /\ item' \in [Photos -> Items] /\ \A j \in Photos \ {i} : item'[j] = item[j]
        /\ item'[i] = it
    BY <2>1, <2>3, <2>4 DEF TypeOK
  <2>6. QED  BY <2>1, <2>3, <2>5, NoThumb
<1>5. ReviewTypes' /\ RemovalTypes' /\ ViewTypes' /\ CountTypes' /\ AskedOK'
  BY <1>1 DEF IInv, ReviewTypes, RemovalTypes, ViewTypes, CountTypes, AskedOK
<1>6. ReviewOK' /\ ViewOK' /\ CapOK'
  BY <1>1 DEF IInv, ReviewOK, Open, ViewOK, CapOK, HeldBytes
<1>7. ListTypes'
  BY <1>1, <1>2, <1>3, <1>4 DEF IInv, ListTypes
<1>8. SendTypes'
  BY <1>1, <1>2, <1>3, <1>4 DEF IInv, SendTypes
<1>9. PhotosOK'
  BY <1>1, <1>2, <1>3, <1>4 DEF IInv, PhotosOK, Unborn, ListTypes
<1>10. ListOK'
  BY <1>1, <1>2, <1>3, <1>4 DEF IInv, ListOK, Final, ListTypes, SendTypes
<1>11. SendOK'
  BY <1>1, <1>2, <1>3, <1>4, QueueIs DEF IInv, SendOK, Final, SendTypes
<1>12. FreshOK'
  BY <1>1, <1>2, <1>3, <1>4 DEF IInv, FreshOK, Open
<1>13. PlacesOK'
  BY <1>1, <1>2, <1>3, <1>4, QueueIs DEF IInv, PlacesOK, Open
<1>14. ListTellsTheRows'
  BY <1>1, <1>2, <1>3, <1>4 DEF IInv, ListTellsTheRows, Open, Visible, Final, RemovalTypes
<1>15. QED  BY <1>5, <1>6, <1>7, <1>8, <1>9, <1>10, <1>11, <1>12, <1>13, <1>14, <1>4 DEF IInv

\* A failed item is dropped.
LEMMA NextDismiss == ASSUME IInv, NEW i \in Photos, Dismiss(i) PROVE IInv'
<1>1. UNCHANGED <<row, phase, refresh, metas, thumbs, orig, review, preview, previewing,
                 queue, cur, held, confirm, asks, removing, deleting, erasing, pending,
                 viewer, views, gen, opens, where, leaving, faults>>
  BY DEF Dismiss, chosen, sent, rem, seen, left
<1>2. Open /\ item[i].failed /\ Drop(i)
  BY DEF Dismiss, Free
<1>3. /\ item' \in [Photos -> Items] /\ \A j \in Photos \ {i} : item'[j] = item[j]
      /\ item'[i] = Blank /\ Blank.thumb = "none" /\ Blank.status = "none" /\ Blank.shown = FALSE
      /\ PicturesOK' /\ pictures' \in Nat
  BY <1>1, <1>2, Typed, DropIs DEF Blank
<1>4. ReviewTypes' /\ SendTypes' /\ RemovalTypes' /\ ViewTypes' /\ AskedOK'
  BY <1>1 DEF IInv, ReviewTypes, SendTypes, RemovalTypes, ViewTypes, AskedOK
<1>5. SendOK'
  BY <1>1 DEF IInv, SendOK, Final
<1>6. ReviewOK' /\ ViewOK' /\ CapOK' /\ PlacesOK'
  BY <1>1 DEF IInv, ReviewOK, Open, ViewOK, CapOK, HeldBytes, PlacesOK
<1>7. ListTypes'
  BY <1>1, <1>2, <1>3 DEF IInv, ListTypes
<1>8. CountTypes'
  BY <1>1, <1>2, <1>3 DEF IInv, CountTypes
<1>9. PhotosOK'
  BY <1>1, <1>2, <1>3 DEF IInv, PhotosOK, Unborn, ListTypes
<1>10. ListOK'
  BY <1>1, <1>2, <1>3 DEF IInv, ListOK, Final, ListTypes, SendTypes
<1>11. FreshOK'
  BY <1>1, <1>2, <1>3 DEF IInv, FreshOK, Open
<1>12. ListTellsTheRows'
  BY <1>1, <1>2, <1>3 DEF IInv, ListTellsTheRows, Open, Visible, Final, RemovalTypes
<1>13. QED  BY <1>4, <1>5, <1>6, <1>7, <1>8, <1>9, <1>10, <1>11, <1>12, <1>3 DEF IInv
-----------------------------------------------------------------------------
(***************************************************************************)
(* The viewer.                                                             *)
(***************************************************************************)

\* An opening takes a number nobody had.
LEMMA NextOpenViewer == ASSUME IInv, NEW i \in Photos, OpenViewer(i) PROVE IInv'
<1>1. UNCHANGED <<row, phase, item, refresh, metas, thumbs, orig, review, preview,
                 previewing, queue, cur, held, confirm, asks, removing, deleting, erasing,
                 pending, where, leaving, pictures, faults>>
  BY DEF OpenViewer, listed, chosen, sent, rem, left
<1>2. /\ viewer = NoViewer /\ opens' = opens + 1 /\ opens < MaxOpens /\ gen' = gen + 1
      /\ views' = views \cup {[gen |-> gen + 1, id |-> i]}
      /\ viewer' = [id |-> i, phase |-> "loading"]
  BY DEF OpenViewer, Free, Another
<1>3. /\ gen \in Nat /\ opens \in Nat /\ gen <= 2 * opens /\ MaxOpens \in Nat
      /\ \A v \in views : v.gen \in Nat /\ v.gen <= gen
  BY <1>2, AlbumAssumption DEF IInv, ViewTypes, ViewOK
<1>4. gen + 1 \in 1..2 * MaxOpens /\ opens + 1 \in 0..MaxOpens
  BY <1>2, <1>3
<1>5. viewer' # NoViewer /\ viewer'.phase = "loading"
  BY <1>2 DEF NoViewer
<1>6. PicturesOK' /\ pictures' \in Nat
  <2>1. Viewed' = Viewed  BY <1>2 DEF Viewed, NoViewer
  <2>2. QED  BY <1>1, <2>1 DEF IInv, PicturesOK, OpenedOnes, PreviewedOnes, Opened, CountTypes
<1>7. ListTypes' /\ ReviewTypes' /\ SendTypes' /\ RemovalTypes' /\ CountTypes' /\ AskedOK'
  BY <1>1 DEF IInv, ListTypes, ReviewTypes, SendTypes, RemovalTypes, CountTypes, AskedOK
<1>8. PhotosOK' /\ ListOK' /\ SendOK' /\ FreshOK' /\ ListTellsTheRows'
  BY <1>1 DEF IInv, PhotosOK, Unborn, ListOK, Final, SendOK, FreshOK, Open, ListTellsTheRows,
    Visible
<1>9. ReviewOK' /\ CapOK' /\ PlacesOK'
  BY <1>1 DEF IInv, ReviewOK, Open, CapOK, HeldBytes, PlacesOK
<1>10. ViewTypes'
  BY <1>1, <1>2, <1>3, <1>4, <1>5, <1>6 DEF IInv, ViewTypes
<1>11. ViewOK'
  BY <1>1, <1>2, <1>3, <1>4, <1>5, <1>6 DEF IInv, ViewOK
<1>12. QED  BY <1>7, <1>8, <1>9, <1>10, <1>11, <1>6 DEF IInv

\* Only the last opening shows a picture, and only once.
LEMMA NextViewLoaded == ASSUME IInv, NEW v \in views, ViewLoaded(v) PROVE IInv'
<1>1. UNCHANGED <<row, phase, item, refresh, metas, thumbs, orig, review, preview,
                 previewing, queue, cur, held, confirm, asks, removing, deleting, erasing,
                 pending, gen, opens, where, leaving>>
  BY DEF ViewLoaded, listed, chosen, sent, rem, left
<1>2. /\ views' = views \ {v}
      /\ Fault \/ UNCHANGED faults
  BY DEF ViewLoaded
<1>3. faults' \in 0..MaxFaults
  BY <1>2, Typed, FaultIs
<1>4. \/ UNCHANGED <<viewer, pictures>>
      \/ /\ viewer # NoViewer /\ v.gen = gen /\ viewer' = [viewer EXCEPT !.phase = "shown"]
         /\ pictures' = pictures + 1
      \/ /\ viewer # NoViewer /\ v.gen = gen /\ viewer' = [viewer EXCEPT !.phase = "failed"]
         /\ UNCHANGED pictures
  BY DEF ViewLoaded
<1>5. /\ viewer' \in [id : Photos \cup {NoId}, phase : {"none", "loading", "shown", "failed"}]
      /\ viewer' = NoViewer <=> viewer = NoViewer
      /\ viewer' # viewer => v.gen = gen
  BY <1>4 DEF IInv, ViewTypes, NoViewer
<1>6. pictures' = pictures + Viewed' - Viewed
  <2>1. pictures \in Nat  BY DEF IInv, CountTypes
  <2>2. v.gen = gen /\ viewer # NoViewer => viewer.phase = "loading"  BY DEF IInv, ViewOK
  <2>3. viewer \in [id : Photos \cup {NoId}, phase : {"none", "loading", "shown", "failed"}]
    BY DEF IInv, ViewTypes
  <2>4. CASE UNCHANGED <<viewer, pictures>>  BY <2>1, <2>4 DEF Viewed
  <2>5. CASE /\ viewer # NoViewer /\ v.gen = gen /\ viewer' = [viewer EXCEPT !.phase = "shown"]
             /\ pictures' = pictures + 1
    <3>1. viewer.phase = "loading" /\ viewer'.phase = "shown"  BY <2>2, <2>3, <2>5
    <3>2. Viewed = 0 /\ Viewed' = 1  BY <3>1 DEF Viewed
    <3>3. QED  BY <2>1, <2>5, <3>2
  <2>6. CASE /\ viewer # NoViewer /\ v.gen = gen /\ viewer' = [viewer EXCEPT !.phase = "failed"]
             /\ UNCHANGED pictures
    <3>1. viewer.phase = "loading" /\ viewer'.phase = "failed"  BY <2>2, <2>3, <2>6
    <3>2. Viewed = 0 /\ Viewed' = 0  BY <3>1 DEF Viewed
    <3>3. QED  BY <2>1, <2>6, <3>2
  <2>7. QED  BY <1>4, <2>4, <2>5, <2>6
<1>7. PicturesOK' /\ pictures' \in Nat
  <2>1. OpenedOnes' = OpenedOnes /\ PreviewedOnes' = PreviewedOnes
    BY <1>1 DEF OpenedOnes, PreviewedOnes, Opened
  <2>2. QED  BY <1>6, <2>1, SamePictures DEF IInv
<1>8. \A w \in views' : w \in views /\ w.gen # v.gen
  <2>1. \A w \in views : v.gen = w.gen => v = w  BY DEF IInv, ViewOK
  <2>2. views' = views \ {v}  BY <1>2
  <2>3. QED  BY <2>1, <2>2
<1>9. ListTypes' /\ ReviewTypes' /\ SendTypes' /\ RemovalTypes' /\ AskedOK'
  BY <1>1 DEF IInv, ListTypes, ReviewTypes, SendTypes, RemovalTypes, AskedOK
<1>10. PhotosOK' /\ ListOK' /\ SendOK' /\ FreshOK' /\ ListTellsTheRows'
  BY <1>1 DEF IInv, PhotosOK, Unborn, ListOK, Final, SendOK, FreshOK, Open, ListTellsTheRows,
    Visible
<1>11. ReviewOK' /\ CapOK' /\ PlacesOK'
  BY <1>1 DEF IInv, ReviewOK, Open, CapOK, HeldBytes, PlacesOK
<1>12. ViewTypes'
  BY <1>1, <1>2, <1>3, <1>4, <1>5, <1>6, <1>7, <1>8 DEF IInv, ViewTypes
<1>13. CountTypes'
  BY <1>1, <1>2, <1>3, <1>4, <1>5, <1>6, <1>7, <1>8 DEF IInv, CountTypes
<1>14. ViewOK'
  BY <1>1, <1>2, <1>3, <1>4, <1>5, <1>6, <1>7, <1>8 DEF IInv, ViewOK
<1>15. QED  BY <1>9, <1>10, <1>11, <1>12, <1>13, <1>14, <1>7 DEF IInv

\* Closing takes a number too: no opening under way is the last any more.
LEMMA NextCloseViewer == ASSUME IInv, CloseViewer PROVE IInv'
<1>1. UNCHANGED <<row, phase, item, refresh, metas, thumbs, orig, review, preview,
                 previewing, queue, cur, held, confirm, asks, removing, deleting, erasing,
                 pending, views, opens, where, leaving, faults>>
  BY DEF CloseViewer, listed, chosen, sent, rem, left
<1>2. /\ viewer # NoViewer /\ viewer' = NoViewer /\ gen' = gen + 1
      /\ pictures' = pictures - Viewed
  BY DEF CloseViewer
<1>3. /\ gen \in Nat /\ opens \in 0..MaxOpens /\ gen + 1 <= 2 * opens /\ MaxOpens \in Nat
      /\ \A v \in views : v.gen \in Nat /\ v.gen <= gen
  BY <1>2, AlbumAssumption DEF IInv, ViewTypes, ViewOK
<1>4. gen' \in 0..2 * MaxOpens /\ \A v \in views : v.gen < gen' 
  BY <1>2, <1>3
<1>5. PicturesOK' /\ pictures' \in Nat
  <2>1. OpenedOnes' = OpenedOnes /\ PreviewedOnes' = PreviewedOnes
    BY <1>1 DEF OpenedOnes, PreviewedOnes, Opened
  <2>2. Viewed' = 0 /\ Viewed \in Nat  BY <1>2 DEF Viewed, NoViewer
  <2>3. pictures' = pictures + Viewed' - Viewed  BY <1>2, <2>2 DEF IInv, CountTypes
  <2>4. QED  BY <2>1, <2>3, SamePictures DEF IInv
<1>6. ListTypes' /\ ReviewTypes' /\ SendTypes' /\ RemovalTypes' /\ AskedOK'
  BY <1>1 DEF IInv, ListTypes, ReviewTypes, SendTypes, RemovalTypes, AskedOK
<1>7. PhotosOK' /\ ListOK' /\ SendOK' /\ FreshOK' /\ ListTellsTheRows'
  BY <1>1 DEF IInv, PhotosOK, Unborn, ListOK, Final, SendOK, FreshOK, Open, ListTellsTheRows,
    Visible
<1>8. ReviewOK' /\ CapOK' /\ PlacesOK'
  BY <1>1 DEF IInv, ReviewOK, Open, CapOK, HeldBytes, PlacesOK
<1>9. ViewTypes'
  BY <1>1, <1>2, <1>3, <1>4, <1>5 DEF IInv, ViewTypes, NoViewer
<1>10. CountTypes'
  BY <1>1, <1>2, <1>3, <1>4, <1>5 DEF IInv, CountTypes, NoViewer
<1>11. ViewOK'
  BY <1>1, <1>2, <1>3, <1>4, <1>5 DEF IInv, ViewOK, NoViewer
<1>12. QED  BY <1>6, <1>7, <1>8, <1>9, <1>10, <1>11, <1>5 DEF IInv
-----------------------------------------------------------------------------
(***************************************************************************)
(* Removal.                                                                *)
(***************************************************************************)
LEMMA NoQuestion ==
    /\ NoConfirm.id = NoId /\ NoConfirm.says = "none" /\ NoConfirm.busy = FALSE
    /\ \A i \in Photos : NoConfirm.id # i
    /\ NoConfirm \in [id : Photos \cup {NoId}, says : Statements, busy : BOOLEAN]
<1>1. QED  BY AlbumAssumption DEF NoConfirm, NoId, Statements

\* The question says more, or what it said.
LEMMA SayIs ==
    ASSUME IInv, NEW i \in Photos, NEW s \in Statements, Say(i, s) \/ UNCHANGED confirm
    PROVE  /\ confirm' \in [id : Photos \cup {NoId}, says : Statements, busy : BOOLEAN]
           /\ confirm'.id = confirm.id
           /\ confirm'.says # "none" => confirm'.id # NoId
<1>1. confirm \in [id : Photos \cup {NoId}, says : Statements, busy : BOOLEAN]
  BY DEF IInv, RemovalTypes
<1>2. confirm.says # "none" => confirm.id # NoId  BY DEF IInv, AskedOK
<1>3. CASE UNCHANGED confirm  BY <1>1, <1>2, <1>3
<1>4. CASE confirm' = [confirm EXCEPT !.says = s] /\ confirm.id = i
  <2>1. i # NoId  BY AlbumAssumption DEF NoId
  <2>2. QED  BY <1>1, <1>4, <2>1
<1>5. QED  BY <1>3, <1>4 DEF Say, Asked

\* Asked of a photo the list shows, which has a row.
LEMMA NextAskRemove == ASSUME IInv, NEW i \in Photos, AskRemove(i) PROVE IInv'
<1>1. UNCHANGED <<row, phase, item, refresh, metas, thumbs, orig, review, preview,
                 previewing, queue, cur, held, removing, deleting, erasing, pending,
                 viewer, views, gen, where, leaving, pictures, faults>>
  BY DEF AskRemove, listed, chosen, sent, left
<1>2. /\ opens' = opens + 1 /\ opens < MaxOpens /\ item[i].shown /\ item[i].status # "none"
      /\ confirm' = [NoConfirm EXCEPT !.id = i]
      /\ asks' = asks \cup {[id |-> i, at |-> IF item[i].status = "ready" THEN "log" ELSE "status"]}
  BY DEF AskRemove, Another
<1>3. /\ confirm' \in [id : Photos \cup {NoId}, says : Statements, busy : BOOLEAN]
      /\ confirm'.id = i /\ i # NoId
  BY <1>2, AlbumAssumption DEF NoConfirm, NoId, Statements
<1>4. /\ asks' \subseteq [id : Photos, at : {"status", "log"}]
      /\ \A a \in asks' : a \in asks \/ a.id = i
  BY <1>2 DEF IInv, RemovalTypes
<1>5. opens' \in 0..MaxOpens /\ 2 * opens <= 2 * opens' /\ opens \in Nat
  BY <1>2, AlbumAssumption DEF IInv, ViewTypes
<1>6. ~Unborn(i) /\ ~(Open /\ phase = "loading")
  <2>1. ~Unborn(i)  BY <1>2 DEF IInv, PhotosOK
  <2>2. ~(Open /\ phase = "loading")  BY <1>2 DEF IInv, FreshOK, Blank
  <2>3. QED  BY <2>1, <2>2
<1>7. ListTypes' /\ ReviewTypes' /\ SendTypes' /\ CountTypes'
  BY <1>1 DEF IInv, ListTypes, ReviewTypes, SendTypes, CountTypes
<1>8. ListOK' /\ SendOK' /\ ListTellsTheRows'
  BY <1>1 DEF IInv, ListOK, Final, SendOK, ListTellsTheRows, Open, Visible
<1>9. ReviewOK' /\ CapOK' /\ PlacesOK' /\ PicturesOK'
  BY <1>1 DEF IInv, ReviewOK, Open, CapOK, HeldBytes, PlacesOK, PicturesOK, OpenedOnes,
    PreviewedOnes, Opened, Viewed
<1>10. RemovalTypes'
  BY <1>1, <1>2, <1>3, <1>4, <1>5, <1>6 DEF IInv, RemovalTypes
<1>11. ViewTypes'
  BY <1>1, <1>2, <1>3, <1>4, <1>5, <1>6 DEF IInv, ViewTypes
<1>12. PhotosOK'
  BY <1>1, <1>2, <1>3, <1>4, <1>5, <1>6 DEF IInv, PhotosOK, Unborn, ListTypes
<1>13. FreshOK'
  BY <1>1, <1>2, <1>3, <1>4, <1>5, <1>6 DEF IInv, FreshOK, Open
<1>14. ViewOK'
  BY <1>1, <1>2, <1>3, <1>4, <1>5, <1>6 DEF IInv, ViewOK, ViewTypes
<1>15. AskedOK'
  BY <1>1, <1>2, <1>3, <1>4, <1>5, <1>6 DEF IInv, AskedOK
<1>16. QED  BY <1>7, <1>8, <1>9, <1>10, <1>11, <1>12, <1>13, <1>14, <1>15 DEF IInv

\* The item is told what the status was, or dropped.
LEMMA NextStatusRead == ASSUME IInv, NEW i \in Photos, StatusRead(i) PROVE IInv'
<1>1. UNCHANGED <<row, phase, refresh, metas, thumbs, orig, review, preview, previewing,
                 queue, cur, held, removing, deleting, erasing, pending, viewer, views,
                 gen, opens, where, leaving, faults>>
  BY DEF StatusRead, chosen, sent, seen, left
<1>2. Open /\ [id |-> i, at |-> "status"] \in asks
  BY DEF StatusRead
<1>3. ~Unborn(i) /\ phase # "loading" /\ item[i] \in Items
  <2>1. [id |-> i, at |-> "status"].id = i  OBVIOUS
  <2>2. ~Unborn(i)  BY <1>2, <2>1 DEF IInv, PhotosOK
  <2>3. phase # "loading"  BY <1>2 DEF IInv, FreshOK
  <2>4. QED  BY <2>2, <2>3, Typed, RowsAreStatuses
<1>4. /\ asks' \subseteq [id : Photos, at : {"status", "log"}]
      /\ \A a \in asks' : a \in asks \/ a.id = i
  BY DEF StatusRead, IInv, RemovalTypes
<1>5. /\ confirm' \in [id : Photos \cup {NoId}, says : Statements, busy : BOOLEAN]
      /\ \A j \in Photos : confirm'.id = j => confirm.id = j
      /\ confirm'.says # "none" => confirm'.id # NoId
  <2>1. \/ confirm' = NoConfirm
        \/ Say(i, "never-ready") \/ UNCHANGED confirm
    BY DEF StatusRead
  <2>2. CASE confirm' = NoConfirm
    BY <2>2, NoQuestion
  <2>3. CASE Say(i, "never-ready") \/ UNCHANGED confirm
    BY <2>3, SayIs DEF Statements
  <2>4. QED  BY <2>1, <2>2, <2>3
<1>6. /\ item' \in [Photos -> Items] /\ \A j \in Photos \ {i} : item'[j] = item[j]
      /\ item'[i].shown \in {item[i].shown, FALSE} /\ item'[i].thumb \in {item[i].thumb, "none"}
      /\ item'[i].status = "ready" => Final(i)
      /\ PicturesOK' /\ pictures' \in Nat
  <2>1. TypeOK /\ PicturesOK /\ UNCHANGED <<preview, viewer>>  BY <1>1, Typed
  <2>2. CASE Drop(i)
    <3>1. /\ item' \in [Photos -> Items] /\ \A j \in Photos \ {i} : item'[j] = item[j]
          /\ item'[i] = Blank
          /\ PicturesOK' /\ pictures' \in Nat
      BY <2>1, <2>2, DropIs
    <3>2. Blank.shown = FALSE /\ Blank.thumb = "none" /\ Blank.status = "none"  BY DEF Blank
    <3>3. QED  BY <3>1, <3>2
  <2>3. CASE /\ Visible(i) /\ Update(i, [item[i] EXCEPT !.status = row[i]])
             /\ UNCHANGED pictures
    <3> DEFINE it == [item[i] EXCEPT !.status = row[i]]
    <3>1. row[i] \in Statuses  BY <2>1, <2>3, RowsAreStatuses
    <3>2. /\ it \in Items /\ it.shown = item[i].shown /\ it.thumb = item[i].thumb
          /\ it.status = row[i]
      BY <1>3, <3>1 DEF Items
    <3>3. Update(i, it)  BY <2>3
    <3> HIDE DEF it
    <3>4. /\ item' \in [Photos -> Items] /\ \A j \in Photos \ {i} : item'[j] = item[j]
          /\ item'[i].shown = item[i].shown /\ item'[i].thumb = item[i].thumb
          /\ item'[i] = item[i] \/ item'[i] = it
          /\ PicturesOK' /\ pictures' \in Nat
      BY <2>1, <2>3, <3>2, <3>3, EditIs
    <3>5. item[i].status = "ready" => Final(i)  BY DEF IInv, ListTellsTheRows, Final
    <3>6. item'[i].status = "ready" => Final(i)  BY <3>2, <3>4, <3>5 DEF Final
    <3>7. QED  BY <3>4, <3>6
  <2>4. QED  BY <2>2, <2>3 DEF StatusRead
<1>7. ReviewTypes' /\ SendTypes' /\ ViewTypes'
  BY <1>1 DEF IInv, ReviewTypes, SendTypes, ViewTypes
<1>8. SendOK'
  BY <1>1 DEF IInv, SendOK, Final
<1>9. ReviewOK' /\ ViewOK' /\ CapOK' /\ PlacesOK'
  BY <1>1 DEF IInv, ReviewOK, Open, ViewOK, CapOK, HeldBytes, PlacesOK
<1>10. ListTypes'
  BY <1>1, <1>2, <1>3, <1>4, <1>5, <1>6 DEF IInv, ListTypes
<1>11. RemovalTypes'
  BY <1>1, <1>2, <1>3, <1>4, <1>5, <1>6 DEF IInv, RemovalTypes
<1>12. CountTypes'
  BY <1>1, <1>2, <1>3, <1>4, <1>5, <1>6 DEF IInv, CountTypes
<1>13. PhotosOK'
  BY <1>1, <1>2, <1>3, <1>4, <1>5, <1>6 DEF IInv, PhotosOK, Unborn, ListTypes
<1>14. ListOK'
  BY <1>1, <1>2, <1>3, <1>4, <1>5, <1>6 DEF IInv, ListOK, Final, ListTypes, SendTypes
<1>15. FreshOK'
  BY <1>1, <1>2, <1>3, <1>4, <1>5, <1>6 DEF IInv, FreshOK, Open
<1>16. AskedOK'
  BY <1>1, <1>2, <1>3, <1>4, <1>5, <1>6 DEF IInv, AskedOK
<1>17. ListTellsTheRows'
  BY <1>1, <1>2, <1>3, <1>4, <1>5, <1>6 DEF IInv, ListTellsTheRows, Open, Visible, Final,
    RemovalTypes
<1>18. QED  BY <1>7, <1>8, <1>9, <1>10, <1>11, <1>12, <1>13, <1>14, <1>15, <1>16, <1>17, <1>6 DEF IInv

\* The question says what the log told.
LEMMA NextLogRead == ASSUME IInv, NEW i \in Photos, LogRead(i) PROVE IInv'
<1>1. UNCHANGED <<row, phase, item, refresh, metas, thumbs, orig, review, preview,
                 previewing, queue, cur, held, removing, deleting, erasing, pending,
                 viewer, views, gen, opens, where, leaving, pictures, faults>>
  BY DEF LogRead, listed, chosen, sent, seen, left
<1>2. asks' \subseteq asks
  BY DEF LogRead
<1>3. /\ confirm' \in [id : Photos \cup {NoId}, says : Statements, busy : BOOLEAN]
      /\ confirm'.id = confirm.id
      /\ confirm'.says # "none" => confirm'.id # NoId
  <2>1. Say(i, "logged")  BY DEF LogRead
  <2>2. QED  BY <2>1, SayIs DEF Statements
<1>4. ~(Open /\ phase = "loading")
  BY DEF LogRead, IInv, FreshOK
<1>5. ListTypes' /\ ReviewTypes' /\ SendTypes' /\ ViewTypes' /\ CountTypes'
  BY <1>1 DEF IInv, ListTypes, ReviewTypes, SendTypes, ViewTypes, CountTypes
<1>6. ListOK' /\ SendOK' /\ ListTellsTheRows'
  BY <1>1 DEF IInv, ListOK, Final, SendOK, ListTellsTheRows, Open, Visible
<1>7. ReviewOK' /\ ViewOK' /\ CapOK' /\ PlacesOK' /\ PicturesOK'
  BY <1>1 DEF IInv, ReviewOK, Open, ViewOK, CapOK, HeldBytes, PlacesOK, PicturesOK, OpenedOnes,
    PreviewedOnes, Opened, Viewed
<1>8. RemovalTypes'
  BY <1>1, <1>2, <1>3, <1>4 DEF IInv, RemovalTypes
<1>9. PhotosOK'
  BY <1>1, <1>2, <1>3, <1>4 DEF IInv, PhotosOK, Unborn, ListTypes
<1>10. FreshOK'
  BY <1>1, <1>2, <1>3, <1>4 DEF IInv, FreshOK, Open
<1>11. AskedOK'
  BY <1>1, <1>2, <1>3, <1>4 DEF IInv, AskedOK
<1>12. QED  BY <1>5, <1>6, <1>7, <1>8, <1>9, <1>10, <1>11 DEF IInv

\* The question is taken away.
LEMMA NextCancelRemove == ASSUME IInv, CancelRemove PROVE IInv'
<1>1. UNCHANGED <<row, phase, item, refresh, metas, thumbs, orig, review, preview,
                 previewing, queue, cur, held, asks, removing, deleting, erasing, pending,
                 viewer, views, gen, opens, where, leaving, pictures, faults>>
  BY DEF CancelRemove, listed, chosen, sent, seen, left
<1>2. confirm' = NoConfirm
  BY DEF CancelRemove
<1>3. ListTypes' /\ ReviewTypes' /\ SendTypes' /\ ViewTypes' /\ CountTypes'
  BY <1>1 DEF IInv, ListTypes, ReviewTypes, SendTypes, ViewTypes, CountTypes
<1>4. ListOK' /\ SendOK' /\ ListTellsTheRows'
  BY <1>1 DEF IInv, ListOK, Final, SendOK, ListTellsTheRows, Open, Visible
<1>5. ReviewOK' /\ ViewOK' /\ CapOK' /\ PlacesOK' /\ PicturesOK'
  BY <1>1 DEF IInv, ReviewOK, Open, ViewOK, CapOK, HeldBytes, PlacesOK, PicturesOK, OpenedOnes,
    PreviewedOnes, Opened, Viewed
<1>6. RemovalTypes'
  BY <1>1, <1>2, NoQuestion DEF IInv, RemovalTypes
<1>7. PhotosOK'
  BY <1>1, <1>2, NoQuestion DEF IInv, PhotosOK, Unborn, ListTypes
<1>8. FreshOK'
  BY <1>1, <1>2, NoQuestion DEF IInv, FreshOK, Open
<1>9. AskedOK'
  BY <1>1, <1>2, NoQuestion DEF IInv, AskedOK
<1>10. QED  BY <1>3, <1>4, <1>5, <1>6, <1>7, <1>8, <1>9 DEF IInv

\* Until the DELETE is answered nothing is promised of the photo.
LEMMA NextConfirmRemove == ASSUME IInv, ConfirmRemove PROVE IInv'
<1>1. UNCHANGED <<row, phase, item, refresh, metas, thumbs, orig, review, preview,
                 previewing, queue, cur, held, asks, erasing, pending, viewer, views, gen,
                 opens, where, leaving, pictures, faults>>
  BY DEF ConfirmRemove, listed, chosen, sent, seen, left
<1>2. /\ Open /\ confirm.says # "none" /\ confirm' = [confirm EXCEPT !.busy = TRUE]
      /\ removing' = removing \cup {confirm.id}
      /\ deleting' = [deleting EXCEPT ![confirm.id] = @ + 1]
  BY DEF ConfirmRemove
<1>3. /\ confirm \in [id : Photos \cup {NoId}, says : Statements, busy : BOOLEAN]
      /\ confirm.id # NoId
  BY <1>2 DEF IInv, RemovalTypes, AskedOK
<1>4. PICK i \in Photos : i = confirm.id
  BY <1>3
<1>5. /\ confirm' \in [id : Photos \cup {NoId}, says : Statements, busy : BOOLEAN]
      /\ confirm'.id = i /\ i # NoId
  BY <1>2, <1>3, <1>4
<1>6. /\ deleting' \in [Photos -> Nat] /\ deleting'[i] # 0
      /\ \A j \in Photos \ {i} : deleting'[j] = deleting[j]
  BY <1>2, <1>4 DEF IInv, RemovalTypes
<1>7. removing' = removing \cup {i} /\ ~Unborn(i) /\ phase # "loading"
  <2>1. ~Unborn(i)  BY <1>4 DEF IInv, PhotosOK
  <2>2. phase # "loading"  BY <1>2, NoQuestion DEF IInv, FreshOK
  <2>3. QED  BY <1>2, <1>4, <2>1, <2>2
<1>8. ListTypes' /\ ReviewTypes' /\ SendTypes' /\ ViewTypes' /\ CountTypes'
  BY <1>1 DEF IInv, ListTypes, ReviewTypes, SendTypes, ViewTypes, CountTypes
<1>9. ListOK' /\ SendOK'
  BY <1>1 DEF IInv, ListOK, Final, SendOK
<1>10. ReviewOK' /\ ViewOK' /\ CapOK' /\ PlacesOK' /\ PicturesOK'
  BY <1>1 DEF IInv, ReviewOK, Open, ViewOK, CapOK, HeldBytes, PlacesOK, PicturesOK, OpenedOnes,
    PreviewedOnes, Opened, Viewed
<1>11. RemovalTypes'
  BY <1>1, <1>2, <1>3, <1>4, <1>5, <1>6, <1>7 DEF IInv, RemovalTypes
<1>12. PhotosOK'
  BY <1>1, <1>2, <1>3, <1>4, <1>5, <1>6, <1>7 DEF IInv, PhotosOK, Unborn, ListTypes
<1>13. FreshOK'
  BY <1>1, <1>2, <1>3, <1>4, <1>5, <1>6, <1>7 DEF IInv, FreshOK, Open
<1>14. AskedOK'
  BY <1>1, <1>2, <1>3, <1>4, <1>5, <1>6, <1>7 DEF IInv, AskedOK
<1>15. ListTellsTheRows'
  BY <1>1, <1>2, <1>3, <1>4, <1>5, <1>6, <1>7 DEF IInv, ListTellsTheRows, Open, Visible, Final,
    RemovalTypes
<1>16. QED  BY <1>8, <1>9, <1>10, <1>11, <1>12, <1>13, <1>14, <1>15 DEF IInv

\* Answered, the item is dropped and its row is not visible.
LEMMA NextRemoved == ASSUME IInv, NEW i \in Photos, Removed(i) PROVE IInv'
<1>1. UNCHANGED <<phase, refresh, metas, thumbs, orig, review, preview, previewing, queue,
                 cur, asks, removing, viewer, views, gen, opens, where, leaving>>
  BY DEF Removed, chosen, seen, left
<1>2. /\ deleting' = [deleting EXCEPT ![i] = @ - 1] /\ deleting[i] > 0
      /\ held' = held \ {i} /\ confirm' = NoConfirm /\ Drop(i)
  BY DEF Removed
<1>3. deleting' \in [Photos -> Nat] /\ \A j \in Photos \ {i} : deleting'[j] = deleting[j]
  BY <1>2 DEF IInv, RemovalTypes
<1>4. /\ erasing' \in [Photos -> Nat] /\ pending' \in Nat
  <2>1. erasing \in [Photos -> Nat] /\ pending \in Nat  BY DEF IInv, RemovalTypes
  <2>2. \/ UNCHANGED <<erasing, pending>>
        \/ pending' = pending + 1 /\ erasing' = [erasing EXCEPT ![i] = @ + 1]
    BY DEF Removed
  <2>3. QED  BY <2>1, <2>2
<1>5. faults' \in 0..MaxFaults
  <2>1. Fault \/ UNCHANGED faults  BY DEF Removed
  <2>2. QED  BY <2>1, Typed, FaultIs
<1>6. /\ row' \in [Photos -> Rows] /\ \A j \in Photos \ {i} : row'[j] = row[j]
      /\ row'[i] \in {"absent", "hidden"}
      /\ row[i] = "absent" => row'[i] = "absent"
  <2>1. row \in [Photos -> Rows]  BY DEF IInv, ListTypes
  <2>2. \/ row' = [row EXCEPT ![i] = "absent"]
        \/ row' = [row EXCEPT ![i] = "hidden"] /\ row[i] # "absent"
    BY DEF Removed
  <2>3. QED  BY <2>1, <2>2 DEF Rows
<1>7. /\ item' \in [Photos -> Items] /\ \A j \in Photos \ {i} : item'[j] = item[j]
      /\ item'[i] = Blank /\ Blank.thumb = "none" /\ Blank.status = "none" /\ Blank.shown = FALSE
      /\ PicturesOK' /\ pictures' \in Nat
  <2>1. TypeOK /\ PicturesOK /\ UNCHANGED <<preview, viewer>>  BY <1>1, Typed
  <2>2. QED  BY <1>2, <2>1, DropIs DEF Blank
<1>8. ReviewTypes' /\ ViewTypes'
  BY <1>1 DEF IInv, ReviewTypes, ViewTypes
<1>9. ReviewOK' /\ ViewOK' /\ CapOK' /\ PlacesOK'
  BY <1>1 DEF IInv, ReviewOK, Open, ViewOK, CapOK, HeldBytes, PlacesOK
<1>10. ListTypes'
  BY <1>1, <1>2, <1>3, <1>4, <1>5, <1>6, <1>7 DEF IInv, ListTypes
<1>11. SendTypes'
  BY <1>1, <1>2, <1>3, <1>4, <1>5, <1>6, <1>7 DEF IInv, SendTypes
<1>12. RemovalTypes'
  BY <1>1, <1>2, <1>3, <1>4, <1>5, <1>6, <1>7, NoQuestion DEF IInv, RemovalTypes
<1>13. CountTypes'
  BY <1>1, <1>2, <1>3, <1>4, <1>5, <1>6, <1>7 DEF IInv, CountTypes
<1>14. PhotosOK'
  BY <1>1, <1>2, <1>3, <1>4, <1>5, <1>6, <1>7, NoQuestion DEF IInv, PhotosOK, Unborn, ListTypes
<1>15. ListOK'
  <2>1. \A j \in Photos : Final(j) => row'[j] \in {"ready", "hidden", "absent"}
    BY <1>6 DEF Final
  <2>2. \A j \in Photos : item'[j].thumb \in {item[j].thumb, "none"}  BY <1>7
  <2>3. \A j \in refresh \cup metas : orig'[j] = "none"  BY <1>1 DEF IInv, ListOK
  <2>4. \A j \in Photos : j \in held' \/ cur'.id = j => j \in held \/ cur.id = j  BY <1>1, <1>2
  <2>5. QED  BY <1>1, <2>1, <2>2, <2>3, <2>4, ListKept
<1>16. SendOK'
  <2>1. \A j \in Photos : Final(j) => row'[j] \in {"ready", "hidden", "absent"}
    BY <1>6 DEF Final
  <2>2. cur.st = "ready" => cur.id \in Photos  BY Typed, AtWork
  <2>3. cur.st = "ready" => row'[cur.id] \in {"ready", "hidden", "absent"}
    BY <2>1, <2>2 DEF IInv, SendOK
  <2>4. QED  BY <1>1, <1>2, <2>3 DEF IInv, SendOK, Final
<1>17. FreshOK'
  BY <1>1, <1>2, <1>3, <1>4, <1>5, <1>6, <1>7, NoQuestion DEF IInv, FreshOK, Open
<1>18. AskedOK'
  BY <1>1, <1>2, <1>3, <1>4, <1>5, <1>6, <1>7, NoQuestion DEF IInv, AskedOK
<1>19. ListTellsTheRows'
  BY <1>1, <1>2, <1>3, <1>4, <1>5, <1>6, <1>7 DEF IInv, ListTellsTheRows, Open, Visible, Final,
    RemovalTypes, ListTypes
<1>20. QED  BY <1>8, <1>9, <1>10, <1>11, <1>12, <1>13, <1>14, <1>15, <1>16, <1>17, <1>18, <1>19,
    <1>7 DEF IInv

\* An erasure tried again takes the row away, which is final too.
LEMMA NextEraseRetry == ASSUME IInv, NEW i \in Photos, EraseRetry(i) PROVE IInv'
<1>1. UNCHANGED <<phase, item, refresh, metas, thumbs, orig, review, preview, previewing,
                 queue, cur, held, confirm, asks, removing, deleting, viewer, views, gen,
                 opens, where, leaving, pictures, faults>>
  BY DEF EraseRetry, listed, chosen, sent, seen, left
<1>2. /\ erasing' = [erasing EXCEPT ![i] = @ - 1] /\ erasing[i] > 0
      /\ row' = [row EXCEPT ![i] = "absent"] /\ pending' = IF pending > 0 THEN pending - 1 ELSE 0
  BY DEF EraseRetry
<1>3. erasing' \in [Photos -> Nat] /\ pending' \in Nat
  BY <1>2 DEF IInv, RemovalTypes
<1>4. /\ row' \in [Photos -> Rows] /\ \A j \in Photos \ {i} : row'[j] = row[j]
      /\ row'[i] = "absent"
  BY <1>2 DEF IInv, ListTypes, Rows
<1>5. ReviewTypes' /\ SendTypes' /\ ViewTypes' /\ CountTypes' /\ AskedOK'
  BY <1>1 DEF IInv, ReviewTypes, SendTypes, ViewTypes, CountTypes, AskedOK
<1>6. FreshOK'
  BY <1>1 DEF IInv, FreshOK, Open
<1>7. ReviewOK' /\ ViewOK' /\ CapOK' /\ PlacesOK' /\ PicturesOK'
  BY <1>1 DEF IInv, ReviewOK, Open, ViewOK, CapOK, HeldBytes, PlacesOK, PicturesOK, OpenedOnes,
    PreviewedOnes, Opened, Viewed
<1>8. ListTypes'
  BY <1>1, <1>2, <1>3, <1>4 DEF IInv, ListTypes
<1>9. RemovalTypes'
  BY <1>1, <1>2, <1>3, <1>4 DEF IInv, RemovalTypes
<1>10. PhotosOK'
  BY <1>1, <1>2, <1>3, <1>4 DEF IInv, PhotosOK, Unborn, ListTypes
<1>11. ListOK'
  BY <1>1, <1>2, <1>3, <1>4 DEF IInv, ListOK, Final, ListTypes, SendTypes
<1>12. SendOK'
  BY <1>1, <1>2, <1>3, <1>4 DEF IInv, SendOK, Final, SendTypes
<1>13. ListTellsTheRows'
  BY <1>1, <1>2, <1>3, <1>4 DEF IInv, ListTellsTheRows, Open, Visible, Final, RemovalTypes
<1>14. QED  BY <1>5, <1>6, <1>7, <1>8, <1>9, <1>10, <1>11, <1>12, <1>13 DEF IInv
-----------------------------------------------------------------------------
(***************************************************************************)
(* Leaving.                                                                *)
(***************************************************************************)

\* Leaving closes what the screen shows and zeroes what is held.
LEMMA NextDispose == ASSUME IInv, NEW to \in {"list", "closed"}, Dispose(to) PROVE IInv'
<1>1. UNCHANGED <<row, thumbs, previewing, removing, views, gen, opens, faults>>
  BY DEF Dispose
<1>2. /\ where' = to /\ leaving' = FALSE /\ phase' = "loading"
      /\ item' = [i \in Photos |-> Blank] /\ refresh' = {} /\ metas' = {}
      /\ preview' = [p \in Photos |-> "none"] /\ review' = {}
      /\ queue' = <<>> /\ cur' = NoJob /\ held' = {}
      /\ confirm' = NoConfirm /\ asks' = {} /\ pending' = 0
      /\ deleting' = [i \in Photos |-> 0] /\ erasing' = [i \in Photos |-> 0]
      /\ viewer' = NoViewer
  BY DEF Dispose
<1>3. orig' = [p \in Photos |-> IF orig[p] \in {"held", "queued", "preparing"} THEN "zeroed"
                                ELSE orig[p]]
  BY DEF Dispose
<1>4. /\ orig' \in [Photos -> {"none", "unread", "reading", "held", "queued", "preparing",
                               "unreadable", "zeroed"}]
      /\ \A p \in Photos : /\ orig'[p] \notin {"held", "queued", "preparing"}
                           /\ orig'[p] \in {"unread", "reading"} => orig[p] = orig'[p]
  BY <1>3 DEF IInv, ReviewTypes
<1>5. /\ item' \in [Photos -> Items]
      /\ \A i \in Photos : /\ item'[i].thumb = "none" /\ item'[i].status = "none"
                           /\ item'[i].shown = FALSE
  <2>1. Blank.thumb = "none" /\ Blank.status = "none" /\ Blank.shown = FALSE  BY DEF Blank
  <2>2. QED  BY <1>2, <2>1, BlankIs
<1>6. /\ cur'.at = "none" /\ cur'.st = "none" /\ cur'.id = NoId
      /\ \A i \in Photos : cur'.id # i
  BY <1>2, AlbumAssumption DEF NoJob, NoId
<1>7. ~Open' /\ \A i \in Photos : Unborn(i)' => Unborn(i)
  BY <1>2, <1>4, <1>6 DEF Open, Unborn
<1>8. queue' \in Seq(Photos) /\ ToSet(queue') = {}
  BY <1>2, EmptySeq DEF ToSet
<1>9. PicturesOK' /\ pictures' \in Nat
  <2>1. {p \in review : preview[p] = "ready"} = PreviewedOnes
    BY DEF IInv, ReviewOK, ReviewTypes, PreviewedOnes
  <2>2. pictures' = pictures - Cardinality(OpenedOnes) - Cardinality(PreviewedOnes) - Viewed
    BY <2>1 DEF Dispose, Previewed, OpenedOnes
  <2>3. OpenedOnes' = {} /\ PreviewedOnes' = {}
    BY <1>2, <1>5 DEF OpenedOnes, Opened, PreviewedOnes
  <2>4. Cardinality(OpenedOnes') = 0 /\ Cardinality(PreviewedOnes') = 0  BY <2>3, FS_EmptySet
  <2>5. Viewed' = 0  BY <1>2 DEF Viewed, NoViewer
  <2>6. pictures' = 0  BY Typed, <2>2, PicturesCounted DEF PicturesOK
  <2>7. QED  BY <2>4, <2>5, <2>6 DEF PicturesOK
<1>10. ListTypes'
  BY <1>1, <1>2, <1>3, <1>4, <1>5, <1>6, <1>7, <1>8, <1>9 DEF IInv, ListTypes
<1>11. ReviewTypes'
  BY <1>1, <1>2, <1>3, <1>4, <1>5, <1>6, <1>7, <1>8, <1>9 DEF IInv, ReviewTypes
<1>12. SendTypes'
  BY <1>1, <1>2, <1>3, <1>4, <1>5, <1>6, <1>7, <1>8, <1>9 DEF IInv, SendTypes
<1>13. RemovalTypes'
  BY <1>1, <1>2, <1>3, <1>4, <1>5, <1>6, <1>7, <1>8, <1>9, NoQuestion DEF IInv, RemovalTypes
<1>14. ViewTypes'
  BY <1>1, <1>2 DEF IInv, ViewTypes, NoViewer
<1>15. CountTypes'
  BY <1>1, <1>2, <1>3, <1>4, <1>5, <1>6, <1>7, <1>8, <1>9 DEF IInv, CountTypes
<1>16. PhotosOK'
  BY <1>1, <1>2, <1>3, <1>4, <1>5, <1>6, <1>7, <1>8, <1>9, NoQuestion DEF IInv, PhotosOK,
    Unborn, ListTypes
<1>17. ListOK'
  BY <1>1, <1>2, <1>3, <1>4, <1>5, <1>6, <1>7, <1>8, <1>9 DEF IInv, ListOK, Final, ListTypes,
    SendTypes
<1>18. SendOK'
  BY <1>1, <1>2, <1>3, <1>4, <1>5, <1>6, <1>7, <1>8, <1>9 DEF IInv, SendOK, Final, SendTypes
<1>19. ReviewOK'
  BY <1>1, <1>2, <1>3, <1>4, <1>5, <1>6, <1>7, <1>8, <1>9 DEF IInv, ReviewOK, Open, ReviewTypes
<1>20. FreshOK'
  BY <1>1, <1>2, <1>3, <1>4, <1>5, <1>6, <1>7, <1>8, <1>9 DEF IInv, FreshOK, Open
<1>21. ViewOK'
  BY <1>1, <1>2, <1>3, <1>4, <1>5, <1>6, <1>7, <1>8, <1>9 DEF IInv, ViewOK, ViewTypes
<1>22. AskedOK'
  BY <1>1, <1>2, <1>3, <1>4, <1>5, <1>6, <1>7, <1>8, <1>9, NoQuestion DEF IInv, AskedOK
<1>23. CapOK'
  BY <1>4, CapKept DEF IInv, HeldBytes
<1>24. PlacesOK'
  BY <1>1, <1>2, <1>3, <1>4, <1>5, <1>6, <1>7, <1>8, <1>9 DEF IInv, PlacesOK, Open
<1>25. ListTellsTheRows'
  BY <1>1, <1>2, <1>3, <1>4, <1>5, <1>6, <1>7, <1>8, <1>9 DEF IInv, ListTellsTheRows, Open,
    Visible, Final, RemovalTypes
<1>26. QED  BY <1>10, <1>11, <1>12, <1>13, <1>14, <1>15, <1>16, <1>17, <1>18, <1>19, <1>20,
    <1>21, <1>22, <1>23, <1>24, <1>25, <1>9 DEF IInv

\* Asked whether to leave, or nothing done at all.
LEMMA Unmoved ==
    ASSUME IInv, leaving' \in BOOLEAN,
           UNCHANGED <<row, where, listed, chosen, sent, rem, seen, pictures, faults>>
    PROVE  IInv'
<1>1. UNCHANGED <<row, phase, item, refresh, metas, thumbs, orig, review, preview,
                 previewing, queue, cur, held, confirm, asks, removing, deleting, erasing,
                 pending, viewer, views, gen, opens, where, pictures, faults>>
  BY DEF listed, chosen, sent, rem, seen
<1>2. ReviewTypes' /\ SendTypes' /\ RemovalTypes' /\ ViewTypes' /\ CountTypes' /\ AskedOK'
  BY <1>1 DEF IInv, ReviewTypes, SendTypes, RemovalTypes, ViewTypes, CountTypes, AskedOK
<1>3. PhotosOK' /\ ListOK' /\ SendOK' /\ FreshOK' /\ ListTellsTheRows'
  BY <1>1 DEF IInv, PhotosOK, Unborn, ListOK, Final, SendOK, FreshOK, Open, ListTellsTheRows,
    Visible
<1>4. ReviewOK' /\ ViewOK' /\ CapOK' /\ PlacesOK' /\ PicturesOK'
  BY <1>1 DEF IInv, ReviewOK, Open, ViewOK, CapOK, HeldBytes, PlacesOK, PicturesOK, OpenedOnes,
    PreviewedOnes, Opened, Viewed
<1>5. ListTypes'
  BY <1>1 DEF IInv, ListTypes
<1>6. QED  BY <1>2, <1>3, <1>4, <1>5 DEF IInv
\* Asked first, or left.
LEMMA NextLeaveAlbum == ASSUME IInv, LeaveAlbum PROVE IInv'
<1>1. \/ /\ leaving' = TRUE
         /\ UNCHANGED <<row, where, listed, chosen, sent, rem, seen, pictures, faults>>
      \/ Dispose("list")
  BY DEF LeaveAlbum
<1>2. QED  BY <1>1, Unmoved, NextDispose

-----------------------------------------------------------------------------
(***************************************************************************)
(* The invariant holds throughout.                                         *)
(***************************************************************************)
\* At first the list is still to be read.
LEMMA InitIInv == Init => IInv
<1> SUFFICES ASSUME Init PROVE IInv
  OBVIOUS
<1>1. /\ row \in [Photos -> {"absent", "processing", "ready"}] /\ where = "album"
      /\ phase = "loading" /\ item = [i \in Photos |-> Blank]
      /\ refresh = {} /\ metas = {} /\ thumbs = {} /\ review = {}
      /\ preview = [p \in Photos |-> "none"] /\ previewing = NoId
      /\ queue = <<>> /\ cur = NoJob /\ held = {} /\ confirm = NoConfirm /\ asks = {}
      /\ removing = {} /\ viewer = NoViewer /\ views = {} /\ gen = 0 /\ opens = 0
      /\ pictures = 0
  BY DEF Init
<1>2. /\ orig \in [Photos -> {"none", "unread"}]
      /\ \A p \in Photos : orig[p] = "unread" => row[p] = "absent"
  BY DEF Init
<1>3. /\ item \in [Photos -> Items]
      /\ \A i \in Photos : item[i].thumb = "none" /\ item[i].status = "none"
  <2>1. Blank.thumb = "none" /\ Blank.status = "none"  BY DEF Blank
  <2>2. QED  BY <1>1, <2>1, BlankIs
<1>4. /\ cur.id = NoId /\ cur.at = "none" /\ cur.st = "none" /\ \A i \in Photos : cur.id # i
      /\ queue \in Seq(Photos) /\ ToSet(queue) = {}
  BY <1>1, AlbumAssumption, EmptySeq DEF NoJob, NoId, ToSet
<1>5. ListTypes  BY <1>1, <1>3 DEF Init, ListTypes, Rows
<1>6. ReviewTypes  BY <1>1, <1>2 DEF ReviewTypes
<1>7. SendTypes  BY <1>1, <1>4 DEF SendTypes
<1>8. RemovalTypes
  BY <1>1, NoQuestion DEF Init, RemovalTypes
<1>9. ViewTypes /\ CountTypes
  BY <1>1, AlbumAssumption DEF Init, ViewTypes, NoViewer, CountTypes
<1>10. PhotosOK  BY <1>1, <1>2, <1>3, <1>4, NoQuestion DEF PhotosOK, Unborn
<1>11. ListOK /\ SendOK  BY <1>1, <1>4 DEF ListOK, SendOK
<1>12. ReviewOK  BY <1>1 DEF ReviewOK
<1>13. FreshOK  BY <1>1, <1>2 DEF FreshOK
<1>14. ViewOK /\ AskedOK  BY <1>1, NoQuestion DEF ViewOK, AskedOK
<1>15. CapOK
  <2>1. HeldBytes = {}  BY <1>2 DEF HeldBytes
  <2>2. QED  BY <2>1, FS_EmptySet, AlbumAssumption DEF CapOK
<1>16. PlacesOK  BY <1>2 DEF PlacesOK
<1>17. PicturesOK
  <2>1. OpenedOnes = {} /\ PreviewedOnes = {} /\ Viewed = 0
    BY <1>1, <1>3 DEF OpenedOnes, Opened, PreviewedOnes, Viewed, NoViewer
  <2>2. QED  BY <1>1, <2>1, FS_EmptySet DEF PicturesOK
<1>18. ListTellsTheRows  BY <1>1, <1>3 DEF ListTellsTheRows
<1>19. QED
  BY <1>5, <1>6, <1>7, <1>8, <1>9, <1>10, <1>11, <1>12, <1>13, <1>14, <1>15, <1>16, <1>17,
     <1>18 DEF IInv

\* Every step keeps the invariant.
LEMMA NextIInv == IInv /\ [Next]_vars => IInv'
<1> SUFFICES ASSUME IInv, [Next]_vars PROVE IInv'
  OBVIOUS
<1>1. CASE Listing
  BY <1>1, NextLoad, NextDispose, NextRefreshStatus, NextMetadataRead, NextThumbLoaded
     DEF Listing, AlbumGone
<1>2. CASE Reviewing
  BY <1>2, NextPreviewDone, NextReadDone, NextPreviewStarts DEF Reviewing
<1>3. CASE Sending
  BY <1>3, NextPumpTakes, NextDecodeStarts, NextDecodeDone, NextPost, NextPut, NextAsk, NextPoll,
     NextSendStops, NextSendEnds DEF Sending
<1>4. CASE Removing
  BY <1>4, NextStatusRead, NextLogRead, NextRemoved, NextEraseRetry DEF Removing
<1>5. CASE Viewing
  BY <1>5, NextViewLoaded DEF Viewing
<1>6. CASE Owner
  <2>1. ASSUME NEW p \in Photos, Unpick(p) PROVE IInv'
    BY <2>1, NextTakeOut DEF Unpick
  <2>2. ASSUME CancelReview PROVE IInv'
    <3>1. review \in SUBSET Photos  BY DEF IInv, ReviewTypes
    <3>2. QED  BY <2>2, <3>1, NextTakeOut DEF CancelReview
  <2>3. ASSUME Stay \/ LeaveAnyway \/ ClosedOutside PROVE IInv'
    BY <2>3, Unmoved, NextDispose DEF Stay, LeaveAnyway, ClosedOutside
  <2>4. QED
    BY <1>6, <2>1, <2>2, <2>3, NextChoose, NextSendReview, NextRetryThumb, NextResend,
       NextDismiss, NextOpenViewer, NextAskRemove, NextCloseViewer, NextCancelRemove,
       NextConfirmRemove, NextLeaveAlbum DEF Owner
<1>7. CASE Elsewhere
  BY <1>7, NextElsewhereFinished, NextElsewhereRemoved DEF Elsewhere
<1>8. CASE UNCHANGED vars
  <2>1. leaving' \in BOOLEAN  BY <1>8 DEF vars, left, IInv, ListTypes
  <2>2. UNCHANGED <<row, where, listed, chosen, sent, rem, seen, pictures, faults>>
    BY <1>8 DEF vars, left
  <2>3. QED  BY <2>1, <2>2, Unmoved
<1>9. QED  BY <1>1, <1>2, <1>3, <1>4, <1>5, <1>6, <1>7, <1>8 DEF Next

\* And so it holds throughout.
LEMMA AlwaysIInv == Spec => []IInv
<1>1. Init => IInv  BY InitIInv
<1>2. IInv /\ [Next]_vars => IInv'  BY NextIInv
<1>3. QED  BY <1>1, <1>2, PTL DEF Spec

-----------------------------------------------------------------------------
(***************************************************************************)
(* The theorems.                                                           *)
(***************************************************************************)
\* Whatever the owner, the server and the other device do, and in whatever order
\* the answers come, every part of the open album's state (OwnerAlbum in
\* album.ts) has a value the code means it to have.
THEOREM OpenAlbumIsTyped == Spec => []TypeOK
<1>1. IInv => TypeOK  BY Typed
<1>2. QED  BY <1>1, AlwaysIInv, PTL

\* The list calls a photo ready, or shows its thumbnail, only once its row was;
\* and a photo removed is not back on the screen, or visible on the server, by an
\* upload, a poll, a thumbnail or a status answered after it (becameReady, update,
\* removing).
THEOREM ListTellsWhatBecameOfRows == Spec => []ListTellsTheRows
<1>1. IInv => ListTellsTheRows  BY DEF IInv
<1>2. QED  BY <1>1, AlwaysIInv, PTL

\* Originals in memory are never more than the cap and only in the review, the
\* queue or the preparation; and the decoded pictures not closed are those on the
\* screen: however the owner chooses, takes out, sends, looks and leaves while
\* files are read and pictures decoded (choose, unpick, drop, closeViewer,
\* dispose).
THEOREM AlbumFreesWhatItTakes == Spec => []BytesAndPicturesAccounted
<1>1. IInv => BytesAndPicturesAccounted  BY PartsAreAll DEF IInv
<1>2. QED  BY <1>1, AlwaysIInv, PTL
=============================================================================
