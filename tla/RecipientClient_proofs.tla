----------------------- MODULE RecipientClient_proofs -----------------------
(***************************************************************************)
(* What the recipient's session keeps, proved for any album, any kind of   *)
(* link, any number of workers and any bound on openings and faults: the   *)
(* decoded pictures are the ones on screen, the viewer shows what was      *)
(* opened, and a session that is over keeps no key.                        *)
(***************************************************************************)
EXTENDS RecipientClient, FiniteSetTheorems, TLAPS

(***************************************************************************)
(* The inductive invariant.                                                *)
(***************************************************************************)

\* Where the keys are.  K_album has one handle and the session holds it, unless a
\* passphrase's derivation was run again after a fault; and none after the end.
KeysOK ==
    /\ "material" \in holds => /\ mode = "passphrase" /\ "key" \notin holds
                               /\ ~again /\ task \in {"none", "frames"}
                               /\ screen \in Forms \cup {"deriving"}
    /\ "key" \in holds => handles > 0
    /\ task = "key" => holds \subseteq {"invite"}
    /\ task = "frames" => mode = "passphrase" /\ ~again /\ ("key" \in holds => faults > 0)
    /\ ~halted /\ screen = "starting" /\ task = "none" => holds = {}
    /\ halted => holds = {}
    /\ poisoned => halted
    /\ again => faults > 0
    /\ (mode = "qr" \/ faults = 0) /\ ~poisoned => handles = IF "key" \in holds THEN 1 ELSE 0

\* Who waits for whom.  A task that is to run again has no call under way, and
\* the album is entered once.
WaitsOK ==
    ~halted =>
       /\ call[Main] # "idle" => task \in {"key", "recipient"} /\ ~again
       /\ again => task \in {"key", "recipient", "grid"}
       /\ again /\ task = "grid" => call[Details] = "idle" /\ call[Metadata] = "idle"
       /\ task = "grid" => screen = "opening"
       /\ screen \in {"onboarding", "album"} => task = "none"

\* A cell somebody loads, or will load, says that it is loading, and outside the
\* album there is none.
GridOK ==
    ~halted => \A p \in Photos :
       /\ call[Thumb(p)] # "idle" => thumb[p] = "loading"
       /\ p \in queue => thumb[p] = "loading" /\ call[Thumb(p)] = "idle"
       /\ screen # "album" => thumb[p] = "absent"

\* An opening that is still the viewer's fetches the viewer's photo, and shows
\* nothing until it has it; the generation says whether the viewer is open.
ViewerOK ==
    /\ IF viewer.phase = "shown" THEN viewer.picture = viewer.photo ELSE viewer.picture = NoPhoto
    /\ viewer.phase # "closed" => viewer.photo \in Photos
    /\ \A g \in Gens : Current(g) =>
          wants[g] = viewer.photo /\ (call[Asset(g)] # "idle" => viewer.phase = "loading")
    /\ ~halted => IF viewer.phase = "closed" THEN \E n \in 0..MaxOpens : viewerGen = 2 * n
                                             ELSE viewerGen \in Gens

IInv == TypeOK /\ PicturesAccounted /\ KeysOK /\ WaitsOK /\ GridOK /\ ViewerOK

-----------------------------------------------------------------------------
(***************************************************************************)
(* Who calls, and what is counted.                                         *)
(***************************************************************************)

\* Two callers that are named differently are different.
LEMMA NamesDiffer ==
    /\ Main # Details /\ Main # Metadata /\ Details # Metadata
    /\ \A p : Thumb(p) \notin {Main, Details, Metadata}
    /\ \A g : Asset(g) \notin {Main, Details, Metadata}
    /\ \A n : Stray(n) \notin {Main, Details, Metadata}
    /\ \A p, g : Thumb(p) # Asset(g) /\ Thumb(p) # Stray(g) /\ Asset(p) # Stray(g)
    /\ \A p, q : Thumb(p) = Thumb(q) => p = q
    /\ \A g, h : Asset(g) = Asset(h) => g = h
BY DEF Main, Details, Metadata, Thumb, Asset, Stray

\* Every name that is used is a caller's.
LEMMA NamesAreCallers ==
    /\ {Main, Details, Metadata} \subseteq Callers
    /\ \A p \in Photos : Thumb(p) \in Callers
    /\ \A g \in Gens : Asset(g) \in Callers
    /\ \A n \in 1..MaxFaults : Stray(n) \in Callers
BY DEF Callers

\* What a call is at after one goes on, and after online.resolve.
LEMMA GoesTyped ==
    ASSUME NEW f \in [Callers -> Calls], NEW c \in Callers, NEW to \in Calls
    PROVE  [f EXCEPT ![c] = to] \in [Callers -> Calls]
OBVIOUS

LEMMA WokenTyped ==
    ASSUME NEW f \in [Callers -> Calls]
    PROVE  Woken(f) \in [Callers -> Calls]
BY DEF Woken, Calls

LEMMA AbandonedTyped ==
    ASSUME NEW f \in [Callers -> Calls]
    PROVE  Abandoned(f) \in [Callers -> Calls]
<1>1. "idle" \in Calls /\ "waiting" \in Calls /\ "asking" \in Calls  BY DEF Calls
<1>2. QED  BY <1>1 DEF Abandoned

\* The cells that show their picture are finitely many.
Ready(t) == {p \in Photos : t[p] = "ready"}

LEMMA ReadyIsFinite == \A t : IsFiniteSet(Ready(t)) /\ Cardinality(Ready(t)) \in Nat
<1>1. \A t : Ready(t) \subseteq Photos  BY DEF Ready
<1>2. QED  BY <1>1, PhotoAssumption, FS_Subset, FS_CardinalityType

\* A cell that comes to show its picture is one more.
LEMMA OneMoreReady ==
    ASSUME NEW t \in [Photos -> {"absent", "loading", "ready", "failed", "unavailable"}],
           NEW p \in Photos, t[p] # "ready"
    PROVE  Cardinality(Ready([t EXCEPT ![p] = "ready"])) = Cardinality(Ready(t)) + 1
<1>1. Ready([t EXCEPT ![p] = "ready"]) = Ready(t) \cup {p}  BY DEF Ready
<1>2. p \notin Ready(t)  BY DEF Ready
<1>3. IsFiniteSet(Ready(t))  BY ReadyIsFinite
<1>4. QED  BY <1>1, <1>2, <1>3, FS_AddElement

\* Cells that show no picture before and after count for nothing.
LEMMA NoneReady ==
    ASSUME NEW t, \A p \in Photos : t[p] # "ready"
    PROVE  Cardinality(Ready(t)) = 0
<1>1. Ready(t) = {}  BY DEF Ready
<1>2. QED  BY <1>1, FS_EmptySet

\* What is on screen, of the grid's cells t and the viewer v.
Showing(t, v) == Cardinality(Ready(t)) + (IF v.picture = NoPhoto THEN 0 ELSE 1)

LEMMA ShowingIsNat ==
    /\ \A t, v : Showing(t, v) \in Nat
    /\ OnScreen = Showing(thumb, viewer)
<1>1. \A t, v : Cardinality(Ready(t)) \in Nat  BY ReadyIsFinite
<1>2. \A t, v : Showing(t, v) \in Nat  BY <1>1 DEF Showing
<1>3. QED  BY <1>2 DEF Showing, OnScreen, Ready

-----------------------------------------------------------------------------
(***************************************************************************)
(* The first state.                                                        *)
(***************************************************************************)

LEMMA InitIInv == Init => IInv
<1> SUFFICES ASSUME Init PROVE IInv  OBVIOUS
<1> USE DEF Init
<1>1. OnScreen = 0
  <2>1. \A p \in Photos : thumb[p] # "ready"  BY DEF NoThumbs
  <2>2. Cardinality(Ready(thumb)) = 0  BY <2>1, NoneReady
  <2>3. QED  BY <2>2, ShowingIsNat DEF Showing, NoViewer
<1>2. PicturesAccounted  BY <1>1 DEF PicturesAccounted
<1>3. TypeOK
  <2>1. call \in [Callers -> Calls]  BY DEF Calls
  <2>2. viewer \in [photo : Photos \cup {NoPhoto}, picture : Photos \cup {NoPhoto},
                    phase : {"closed", "loading", "shown", "removed", "failed"}]
    BY DEF NoViewer
  <2>3. viewerGen \in 0..(2 * MaxOpens) /\ faults \in 0..MaxFaults  BY BoundAssumption
  <2>4. {halted, offline, again, poisoned, stored} \subseteq BOOLEAN  OBVIOUS
  <2>5. screen \in Screens  BY DEF Screens, Unsettled
  <2>6. QED  BY <2>1, <2>2, <2>3, <2>4, <2>5 DEF TypeOK, NoThumbs
<1>4. KeysOK  BY DEF KeysOK
<1>5. WaitsOK  BY NamesAreCallers DEF WaitsOK
<1>6. GridOK  BY NamesAreCallers DEF GridOK, NoThumbs
<1>7. ViewerOK
  <2>1. 0 \in 0..MaxOpens /\ viewerGen = 2 * 0  BY BoundAssumption
  <2>2. QED  BY <2>1 DEF ViewerOK, NoViewer, Current
<1>8. QED  BY <1>2, <1>3, <1>4, <1>5, <1>6, <1>7 DEF IInv

-----------------------------------------------------------------------------
(***************************************************************************)
(* What a step that leaves a part alone keeps of it.                       *)
(***************************************************************************)

\* The types, part by part.
LEMMA Typed ==
    IInv => /\ mode \in Modes /\ mode \in {"qr", "passphrase"} /\ screen \in Screens
            /\ halted \in BOOLEAN /\ offline \in BOOLEAN /\ again \in BOOLEAN
            /\ poisoned \in BOOLEAN /\ stored \in BOOLEAN
            /\ holds \subseteq {"key", "invite", "material"} /\ handles \in Nat
            /\ task \in {"none", "key", "frames", "recipient", "grid"}
            /\ call \in [Callers -> Calls]
            /\ thumb \in [Photos -> {"absent", "loading", "ready", "failed", "unavailable"}]
            /\ queue \subseteq Photos /\ worker \subseteq Photos
            /\ viewer \in [photo : Photos \cup {NoPhoto}, picture : Photos \cup {NoPhoto},
                           phase : {"closed", "loading", "shown", "removed", "failed"}]
            /\ viewerGen \in 0..(2 * MaxOpens) /\ wants \in [Gens -> Photos \cup {NoPhoto}]
            /\ open \in Nat /\ faults \in 0..MaxFaults
BY BoundAssumption DEF IInv, TypeOK

\* A step that opens no loader keeps the album as it is.
LEMMA AlbumKept ==
    ASSUME IInv, UNCHANGED <<album, halted>>,
           ~halted => (screen' = "album" <=> screen = "album"),
           \A p \in Photos : call[Thumb(p)] = "idle" => call'[Thumb(p)] = "idle",
           \A g \in Gens : call[Asset(g)] = "idle" => call'[Asset(g)] = "idle"
    PROVE  PicturesAccounted' /\ GridOK' /\ ViewerOK'
<1>1. UNCHANGED <<thumb, queue, worker, viewer, viewerGen, wants, open, halted>>
  BY DEF album, grid, viewing
<1>2. PicturesAccounted'  BY <1>1 DEF IInv, PicturesAccounted, OnScreen
<1>3. GridOK'  BY <1>1 DEF IInv, GridOK
<1>4. ViewerOK'
  <2>1. \A g \in Gens : Current(g)' <=> Current(g)  BY <1>1 DEF Current
  <2>2. ViewerOK  BY DEF IInv
  <2>3. QED  BY <1>1, <2>1, <2>2 DEF ViewerOK
<1>5. QED  BY <1>2, <1>3, <1>4

\* A step of the album leaves the session's task and its keys alone.
LEMMA SessionKept ==
    ASSUME IInv, UNCHANGED <<page, keys, task, faults>>,
           \A c \in {Main, Details, Metadata} : call'[c] = call[c]
    PROVE  KeysOK' /\ WaitsOK'
<1>1. UNCHANGED <<mode, screen, halted, poisoned, stored, offline, again, holds, handles, task, faults>>
  BY DEF page, self, notice, keys
<1>2. KeysOK'  BY <1>1 DEF IInv, KeysOK
<1>3. WaitsOK'  BY <1>1 DEF IInv, WaitsOK
<1>4. QED  BY <1>2, <1>3

\* An end: no key, no picture, nothing left to say of the grid.
LEMMA Ended ==
    ASSUME IInv, ~halted, NEW kind \in Terminals, NEW calls \in [Callers -> Calls],
           Ends(kind, calls), poisoned' \in {poisoned, kind = "device-failed"},
           kind = "device-failed" =>
              poisoned' \/ "key" \notin holds \/ (mode = "passphrase" /\ faults > 0)
    PROVE  IInv'
<1>1. /\ halted' = TRUE /\ holds' = {} /\ open' = open - OnScreen
      /\ screen' = kind /\ thumb' = NoThumbs /\ viewer' = NoViewer
      /\ offline' = FALSE /\ again' = FALSE
      /\ UNCHANGED <<mode, task, queue, worker, viewerGen, wants, faults>>
      /\ handles' = handles - Freed(kind # "device-failed" /\ ~poisoned)
      /\ call' = Woken(calls) /\ stored' = (stored /\ kind = "device-failed")
  BY DEF Ends, DropKeyState
<1>2. KeysOK /\ PicturesAccounted /\ ViewerOK  BY DEF IInv
<1>3. ~poisoned  BY <1>2 DEF KeysOK
<1>4. call' \in [Callers -> Calls]  BY <1>1, WokenTyped
<1>5. open' = 0
  <2>1. open = OnScreen /\ OnScreen \in Nat  BY <1>2, ShowingIsNat DEF PicturesAccounted
  <2>2. QED  BY <1>1, <2>1
<1>6. handles' \in Nat /\ handles' = handles - (IF kind # "device-failed" /\ "key" \in holds THEN 1 ELSE 0)
  BY <1>1, <1>2, <1>3, Typed DEF KeysOK, Freed
<1>7. TypeOK'
  <2>1. {halted, offline, again, poisoned, stored}' \subseteq BOOLEAN  BY <1>1, Typed
  <2>2. screen' \in Screens  BY <1>1 DEF Screens
  <2>3. viewer' \in [photo : Photos \cup {NoPhoto}, picture : Photos \cup {NoPhoto},
                     phase : {"closed", "loading", "shown", "removed", "failed"}]
    BY <1>1 DEF NoViewer
  <2>4. thumb' \in [Photos -> {"absent", "loading", "ready", "failed", "unavailable"}]
    BY <1>1 DEF NoThumbs
  <2>5. QED  BY <1>1, <1>4, <1>5, <1>6, <2>1, <2>2, <2>3, <2>4, Typed DEF TypeOK
<1>8. PicturesAccounted'  BY <1>1, <1>5 DEF PicturesAccounted
<1>9. KeysOK'
  <2>1. ~poisoned' /\ (mode = "qr" \/ faults = 0) => handles' = 0
    <3>1. ASSUME ~poisoned', mode = "qr" \/ faults = 0 PROVE handles' = 0
      <4>1. handles = IF "key" \in holds THEN 1 ELSE 0  BY <1>2, <1>3, <3>1 DEF KeysOK
      <4>2. kind = "device-failed" => "key" \notin holds  BY <3>1, Typed
      <4>3. QED  BY <1>6, <4>1, <4>2
    <3>2. QED  BY <3>1
  <2>2. task = "frames" => mode = "passphrase"  BY <1>2 DEF KeysOK
  <2>3. QED  BY <1>1, <2>1, <2>2 DEF KeysOK
<1>10. WaitsOK' /\ GridOK'  BY <1>1 DEF WaitsOK, GridOK
<1>11. ViewerOK'
  <2>1. viewer'.phase = "closed" /\ viewer'.picture = NoPhoto  BY <1>1 DEF NoViewer
  <2>2. \A g \in Gens : ~Current(g)'  BY <2>1 DEF Current
  <2>3. QED  BY <1>1, <2>1, <2>2 DEF ViewerOK
<1>12. QED  BY <1>7, <1>8, <1>9, <1>10, <1>11 DEF IInv

\* A task that failed as nobody foresaw: its calls are off, and it waits for the retry.
LEMMA ToRunAgain ==
    ASSUME IInv, ~halted, NEW on \in Screens, NEW what \in {"key", "recipient", "grid"},
           NEW calls \in [Callers -> Calls], RunsAgain(on, what, calls),
           "material" \notin holds, calls[Main] = "idle", on \notin {"onboarding", "album"},
           what = "key" => task = "key",
           what = "grid" => /\ on = "opening"
                            /\ calls[Details] = "idle" /\ calls[Metadata] = "idle",
           screen # "album",
           \A p \in Photos : call[Thumb(p)] = "idle" => calls[Thumb(p)] = "idle",
           \A g \in Gens : call[Asset(g)] = "idle" => calls[Asset(g)] = "idle"
    PROVE  IInv'
<1>1. /\ faults < MaxFaults /\ faults' = faults + 1 /\ again' = TRUE /\ offline' = TRUE
      /\ screen' = on /\ task' = what /\ call' = calls
      /\ UNCHANGED <<self, keys, album>>
  BY DEF RunsAgain, Fault
<1>2. UNCHANGED <<mode, halted, poisoned, stored, holds, handles>>  BY <1>1 DEF self, keys
<1>3. UNCHANGED <<thumb, queue, worker, viewer, viewerGen, wants, open>>
  BY <1>1 DEF album, grid, viewing
<1>4. faults' \in 0..MaxFaults /\ faults' > 0  BY <1>1, Typed, BoundAssumption
<1>5. PicturesAccounted' /\ GridOK' /\ ViewerOK'  BY <1>1, <1>2, AlbumKept
<1>6. TypeOK'
  <2>1. {halted, offline, again, poisoned, stored}' \subseteq BOOLEAN  BY <1>1, <1>2, Typed
  <2>2. QED  BY <1>1, <1>2, <1>3, <1>4, <2>1, Typed DEF TypeOK
<1>7. KeysOK'
  <2>1. KeysOK /\ handles \in Nat  BY Typed DEF IInv
  <2>2. mode = "qr" => handles = IF "key" \in holds THEN 1 ELSE 0
    BY <2>1 DEF IInv, KeysOK
  <2>3. QED  BY <1>1, <1>2, <1>4, <2>1, <2>2 DEF KeysOK
<1>8. WaitsOK'  BY <1>1 DEF WaitsOK
<1>9. QED  BY <1>5, <1>6, <1>7, <1>8 DEF IInv

-----------------------------------------------------------------------------
(***************************************************************************)
(* The link is opened, the words are submitted, the key is derived.        *)
(***************************************************************************)

\* What the proofs of these steps know of a session that is not over.
LEMMA NotOver ==
    IInv /\ ~halted =>
       /\ ~poisoned
       /\ call[Main] # "idle" => task \in {"key", "recipient"} /\ ~again
       /\ screen = "album" => task = "none"
       /\ task = "key" => "material" \notin holds /\ "key" \notin holds
       /\ task = "grid" => call[Main] = "idle"
BY DEF IInv, KeysOK, WaitsOK

\* A step that moves the task, the screen or the keys, and of the calls only those
\* of the task.  What the guard must see to is named.
LEMMA TaskMoves ==
    ASSUME IInv, ~halted, UNCHANGED <<self, album, faults, again>>,
           offline' \in BOOLEAN,
           screen' \in Screens, screen' # "album", screen # "album",
           task' \in {"none", "key", "frames", "recipient", "grid"},
           holds' \subseteq {"key", "invite", "material"}, handles' \in Nat,
           call' \in [Callers -> Calls],
           \A c \in Callers : c \notin {Main, Details, Metadata} => call'[c] = call[c],
           KeysOK', WaitsOK'
    PROVE  IInv'
<1>1. UNCHANGED <<mode, halted, poisoned, stored>>  BY DEF self
<1>2. UNCHANGED <<thumb, queue, worker, viewer, viewerGen, wants, open>>  BY DEF album, grid, viewing
<1>3. /\ \A p \in Photos : call'[Thumb(p)] = call[Thumb(p)]
      /\ \A g \in Gens : call'[Asset(g)] = call[Asset(g)]
  BY NamesDiffer, NamesAreCallers
<1>4. PicturesAccounted' /\ GridOK' /\ ViewerOK'  BY <1>1, <1>3, AlbumKept
<1>5. TypeOK'
  <2>1. {halted, offline, again, poisoned, stored}' \subseteq BOOLEAN  BY <1>1, Typed
  <2>2. QED  BY <1>1, <1>2, <2>1, Typed DEF TypeOK
<1>6. QED  BY <1>4, <1>5 DEF IInv

LEMMA NextStart == ASSUME IInv, Start PROVE IInv'
<1>1. ~halted /\ screen = "starting" /\ task = "none"  BY DEF Start
<1>2. /\ holds = {} /\ KeysOK /\ WaitsOK /\ ~again /\ call[Main] = "idle"  BY <1>1 DEF IInv, KeysOK, WaitsOK
<1>3. call \in [Callers -> Calls]  BY Typed
<1>4. CASE \E kind \in {"dead", "newer-version"} : Terminal(kind, call)
  <2>1. PICK kind \in {"dead", "newer-version"} : Terminal(kind, call)  BY <1>4
  <2>2. \E calls \in [Callers -> Calls] : Ends(kind, calls) /\ poisoned' = poisoned
    BY <1>3, <2>1 DEF Terminal
  <2>3. QED  BY <1>1, <2>1, <2>2, Ended DEF Terminals
<1>5. CASE ~\E kind \in {"dead", "newer-version"} : Terminal(kind, call)
  <2>1. /\ screen' = IF mode = "qr" THEN "starting" ELSE "loading"
        /\ holds' = IF mode = "qr" THEN {"invite"} ELSE {}
        /\ task' = "key" /\ call' = Goes(Main, "asking")
        /\ UNCHANGED <<self, notice, handles, album, faults>>
    BY <1>5 DEF Start
  <2>2. call' \in [Callers -> Calls] /\ \A c \in Callers : c # Main => call'[c] = call[c]
    BY <1>3, <2>1, NamesAreCallers DEF Goes, Calls
  <2>3. UNCHANGED <<mode, halted, poisoned, again, offline>>  BY <2>1 DEF self, notice
  <2>4. holds' \subseteq {"invite"} /\ "key" \notin holds' /\ "material" \notin holds'  BY <2>1
  <2>5. KeysOK'  BY <1>1, <1>2, <2>1, <2>3, <2>4 DEF KeysOK
  <2>6. WaitsOK'  BY <1>1, <1>2, <2>1, <2>3 DEF WaitsOK
  <2>7. screen' \in Screens /\ screen' # "album"  BY <2>1 DEF Screens, Unsettled
  <2>8. QED  BY <1>1, <2>1, <2>2, <2>3, <2>4, <2>5, <2>6, <2>7, TaskMoves, Typed
<1>6. QED  BY <1>4, <1>5

\* An end by `terminal`, and an end by a trap.
LEMMA TerminalEnds ==
    ASSUME IInv, ~halted, NEW kind \in Terminals, NEW calls \in [Callers -> Calls],
           Terminal(kind, calls),
           kind = "device-failed" => "key" \notin holds \/ (mode = "passphrase" /\ faults > 0)
    PROVE  IInv'
<1>1. Ends(kind, calls) /\ poisoned' = poisoned  BY DEF Terminal
<1>2. QED  BY <1>1, Ended

LEMMA TrapEnds ==
    ASSUME IInv, ~halted, NEW calls \in [Callers -> Calls], Trap(calls)
    PROVE  IInv'
<1>1. Ends("device-failed", calls) /\ poisoned' = TRUE  BY DEF Trap
<1>2. "device-failed" \in Terminals  BY DEF Terminals
<1>3. QED  BY <1>1, <1>2, Ended

\* Where the calls are after one goes on.
LEMMA Gone ==
    IInv => \A c \in Callers : \A to \in Calls :
               /\ Goes(c, to) \in [Callers -> Calls]
               /\ Goes(c, to)[c] = to
               /\ \A d \in Callers : d # c => Goes(c, to)[d] = call[d]
<1> SUFFICES ASSUME IInv PROVE \A c \in Callers : \A to \in Calls :
               /\ Goes(c, to) \in [Callers -> Calls]
               /\ Goes(c, to)[c] = to
               /\ \A d \in Callers : d # c => Goes(c, to)[d] = call[d]
  OBVIOUS
<1>1. call \in [Callers -> Calls]  BY Typed
<1>2. QED  BY <1>1 DEF Goes

\* The answer about the key.
LEMMA NextKey == ASSUME IInv, KeyRefused \/ InviteOpens \/ MaterialArrives PROVE IInv'
<1>1. /\ ~halted /\ call[Main] = "asking" /\ task = "key"
  BY DEF KeyRefused, InviteOpens, MaterialArrives, FetchesKey, Asks
<1>2. Main \in Callers /\ "idle" \in Calls  BY NamesAreCallers DEF Calls
<1>3. KeysOK /\ WaitsOK /\ screen # "album" /\ ~again /\ ~poisoned
  BY <1>1, NotOver DEF IInv
<1>4. "key" \notin holds /\ "material" \notin holds  BY <1>1, <1>3 DEF KeysOK
<1>5. Goes(Main, "idle") \in [Callers -> Calls]  BY <1>2, Gone
<1>6. CASE KeyRefused
  <2>1. \/ \E kind \in Terminals : Terminal(kind, Goes(Main, "idle"))
        \/ Trap(Goes(Main, "idle"))
    BY <1>6 DEF KeyRefused, Terminals
  <2>2. QED  BY <1>1, <1>4, <1>5, <2>1, TerminalEnds, TrapEnds
<1>7. CASE InviteOpens
  <2>1. UNCHANGED <<page, album, faults>> /\ mode = "qr"  BY <1>7 DEF InviteOpens
  <2>2. UNCHANGED <<self, notice, screen, mode, halted, poisoned, again, offline>>
    BY <2>1 DEF page, self, notice
  <2>3. CASE "invite" \in holds
    <3>1. holds' = {"key"} /\ handles' = handles + 1 /\ task' = "recipient" /\ call' = call
      BY <1>7, <2>3 DEF InviteOpens
    <3>2. handles = 0 /\ handles \in Nat  BY <1>3, <1>4, <2>1, Typed DEF KeysOK
    <3>3. KeysOK'  BY <1>1, <1>3, <2>1, <2>2, <3>1, <3>2 DEF KeysOK
    <3>4. WaitsOK'  BY <1>1, <1>3, <2>2, <3>1 DEF WaitsOK
    <3>5. QED  BY <1>1, <1>3, <2>1, <2>2, <3>1, <3>2, <3>3, <3>4, TaskMoves, Typed
  <2>4. CASE "invite" \notin holds
    <3>1. UNCHANGED <<holds, handles, task>> /\ call' = Goes(Main, "idle")
      BY <1>7, <2>4 DEF InviteOpens, keys
    <3>2. KeysOK'  BY <1>3, <2>1, <2>2, <3>1 DEF KeysOK
    <3>3. call'[Main] = "idle" /\ \A c \in Callers : c # Main => call'[c] = call[c]
      BY <1>2, <3>1, Gone
    <3>4. WaitsOK'  BY <1>1, <1>3, <2>2, <3>1, <3>3 DEF WaitsOK
    <3>5. QED  BY <1>1, <1>3, <1>5, <2>1, <2>2, <3>1, <3>2, <3>3, <3>4, TaskMoves, Typed
  <2>5. QED  BY <2>3, <2>4
<1>8. CASE MaterialArrives
  <2>1. /\ holds' = {"material"} /\ screen' = "ready" /\ task' = "none" /\ mode = "passphrase"
        /\ call' = Goes(Main, "idle") /\ UNCHANGED <<self, notice, handles, album, faults>>
    BY <1>8 DEF MaterialArrives
  <2>2. UNCHANGED <<mode, halted, poisoned, again, offline>>  BY <2>1 DEF self, notice
  <2>3. KeysOK'  BY <1>1, <1>3, <1>4, <2>1, <2>2 DEF KeysOK, Forms
  <2>4. call'[Main] = "idle" /\ \A c \in Callers : c # Main => call'[c] = call[c]
    BY <1>2, <2>1, Gone
  <2>5. WaitsOK'  BY <1>1, <1>3, <2>1, <2>2, <2>4 DEF WaitsOK
  <2>6. screen' \in Screens  BY <2>1 DEF Screens, Forms
  <2>7. QED  BY <1>1, <1>3, <1>5, <2>1, <2>2, <2>3, <2>4, <2>5, <2>6, TaskMoves, Typed
<1>9. QED  BY <1>6, <1>7, <1>8

\* The words are submitted.
LEMMA NextSubmit == ASSUME IInv, Submit PROVE IInv'
<1>1. /\ ~halted /\ screen \in Forms /\ "material" \in holds
      /\ screen' \in {"empty", "deriving"} /\ task' \in {task, "frames"}
      /\ screen' = "empty" => task' = task
      /\ UNCHANGED <<self, notice, keys, call, album, faults>>
  BY DEF Submit
<1>2. UNCHANGED <<mode, halted, poisoned, again, offline, holds, handles>>  BY <1>1 DEF self, notice, keys
<1>3. KeysOK /\ WaitsOK  BY DEF IInv
<1>4. KeysOK'  BY <1>1, <1>2, <1>3 DEF KeysOK, Forms
<1>5. call[Main] = "idle"  BY <1>1, <1>3 DEF KeysOK, WaitsOK
<1>6. WaitsOK'  BY <1>1, <1>2, <1>3, <1>5 DEF KeysOK, WaitsOK
<1>7. screen' \in Screens /\ screen # "album" /\ screen' # "album"
  BY <1>1 DEF Screens, Forms, Unsettled
<1>8. QED  BY <1>1, <1>2, <1>4, <1>6, <1>7, TaskMoves, Typed

\* The derivation ends, in a session that may be over.
LEMMA NextDerivation == ASSUME IInv, Derivation PROVE IInv'
<1>1. task = "frames"  BY DEF Derivation, Derive, DeriveFails, DerivesForNobody
<1>2. /\ KeysOK /\ WaitsOK /\ mode = "passphrase" /\ ~again /\ ("key" \in holds => faults > 0)
  BY <1>1 DEF IInv, KeysOK
<1>3. ~halted => call[Main] = "idle" /\ screen # "album" /\ ~poisoned
  BY <1>1, <1>2 DEF WaitsOK, KeysOK
<1>4. call \in [Callers -> Calls]  BY Typed
<1>5. CASE halted
  <2>1. /\ task' = "none" /\ poisoned' \in {poisoned, TRUE}
        /\ UNCHANGED <<mode, screen, halted, notice, stored, keys, call, album, faults>>
    <3>1. CASE Derive
      BY <1>5, <3>1 DEF Derive, Adopts, page, self, keys
    <3>2. CASE DeriveFails \/ DerivesForNobody  BY <1>5, <3>2 DEF DeriveFails, DerivesForNobody
    <3>3. QED  BY <3>1, <3>2 DEF Derivation
  <2>2. UNCHANGED <<again, offline, holds, handles>>  BY <2>1 DEF notice, keys
  <2>3. UNCHANGED <<thumb, queue, worker, viewer, viewerGen, wants, open>>
    BY <2>1 DEF album, grid, viewing
  <2>4. PicturesAccounted' /\ GridOK' /\ ViewerOK'  BY <1>5, <2>1, AlbumKept
  <2>5. TypeOK'
    <3>1. {halted, offline, again, poisoned, stored}' \subseteq BOOLEAN  BY <2>1, <2>2, Typed
    <3>2. QED  BY <2>1, <2>2, <2>3, <3>1, Typed DEF TypeOK
  <2>6. KeysOK'  BY <1>2, <1>5, <2>1, <2>2 DEF KeysOK
  <2>7. WaitsOK'  BY <1>5, <2>1 DEF WaitsOK
  <2>8. QED  BY <2>4, <2>5, <2>6, <2>7 DEF IInv
<1>6. CASE ~halted /\ Derive
  <2>1. /\ holds' = (holds \ {"material"}) \cup {"key"} /\ handles' = handles + 1
        /\ task' = "recipient" /\ call' = Goes(Main, "asking")
        /\ UNCHANGED <<page, album, faults>>
    BY <1>6 DEF Derive, Adopts
  <2>2. UNCHANGED <<self, screen, mode, halted, poisoned, again, offline>>
    BY <2>1 DEF page, self, notice
  <2>3. handles' \in Nat /\ handles' > 0 /\ (faults = 0 => handles = 0)
    BY <1>2, <1>3, <1>6, <2>1, Typed DEF KeysOK
  <2>4. "material" \notin holds' /\ "key" \in holds' /\ holds' \subseteq {"key", "invite", "material"}
    BY <2>1, Typed
  <2>5. KeysOK'  BY <1>2, <1>6, <2>1, <2>2, <2>3, <2>4 DEF KeysOK
  <2>6. /\ call' \in [Callers -> Calls] /\ \A c \in Callers : c # Main => call'[c] = call[c]
    BY <2>1, Gone, NamesAreCallers DEF Calls
  <2>7. WaitsOK'
    <3>1. screen \notin {"onboarding", "album"}  BY <1>1, <1>2, <1>6 DEF WaitsOK
    <3>2. ~again' /\ task' = "recipient" /\ screen' = screen  BY <1>2, <2>1, <2>2
    <3>3. QED  BY <3>1, <3>2 DEF WaitsOK
  <2>8. QED  BY <1>3, <1>6, <2>1, <2>2, <2>3, <2>4, <2>5, <2>6, <2>7, TaskMoves, Typed
<1>7. CASE ~halted /\ DeriveFails
  <2>1. CASE \E form \in {"empty", "wrong"} :
               /\ screen' = form /\ task' = "none"
               /\ UNCHANGED <<self, notice, keys, call, album, faults>>
    <3>1. UNCHANGED <<mode, halted, poisoned, again, offline, holds, handles>>
      BY <2>1 DEF self, notice, keys
    <3>2. screen' \in Forms /\ screen' \in Screens /\ screen' # "album"
          /\ screen' \notin {"starting", "onboarding"}
      BY <2>1 DEF Forms, Screens
    <3>3. KeysOK'  BY <1>1, <1>2, <2>1, <3>1, <3>2 DEF KeysOK
    <3>4. WaitsOK'  BY <1>2, <1>3, <1>7, <2>1, <3>1, <3>2 DEF WaitsOK
    <3>5. QED  BY <1>3, <1>7, <2>1, <3>1, <3>2, <3>3, <3>4, TaskMoves, Typed
  <2>2. CASE "key" \notin holds /\ Terminal("not-recognised", call)
    BY <1>4, <1>7, <2>2, TerminalEnds DEF Terminals
  <2>3. CASE Terminal("device-failed", call)
    BY <1>2, <1>4, <1>7, <2>3, TerminalEnds DEF Terminals
  <2>4. CASE Trap(call)  BY <1>4, <1>7, <2>4, TrapEnds
  <2>5. QED  BY <1>7, <2>1, <2>2, <2>3, <2>4 DEF DeriveFails
<1>8. QED  BY <1>5, <1>6, <1>7 DEF Derivation, DerivesForNobody

-----------------------------------------------------------------------------
(***************************************************************************)
(* The recipient's row, the album's details and its metadata.              *)
(***************************************************************************)

LEMMA NextRecipient == ASSUME IInv, RecipientArrives \/ RecipientRefused PROVE IInv'
<1>1. /\ ~halted /\ call[Main] = "asking" /\ task = "recipient"
  BY DEF RecipientArrives, RecipientRefused, FetchesRecipient, Asks
<1>2. Main \in Callers /\ Details \in Callers /\ "idle" \in Calls /\ "asking" \in Calls
  BY NamesAreCallers DEF Calls
<1>3. KeysOK /\ WaitsOK /\ screen # "album" /\ ~again /\ ~poisoned
  BY <1>1, NotOver DEF IInv
<1>4. Goes(Main, "idle") \in [Callers -> Calls]  BY <1>2, Gone
<1>5. CASE RecipientArrives
  <2>1. /\ screen' = "onboarding" /\ task' = "none"
        /\ call' = [call EXCEPT ![Main] = "idle", ![Details] = "asking"]
        /\ UNCHANGED <<self, notice, keys, album, faults>>
    BY <1>5 DEF RecipientArrives
  <2>2. UNCHANGED <<mode, halted, poisoned, again, offline, holds, handles>>
    BY <2>1 DEF self, notice, keys
  <2>3. /\ call' \in [Callers -> Calls] /\ call'[Main] = "idle"
        /\ \A c \in Callers : c \notin {Main, Details} => call'[c] = call[c]
    BY <1>2, <2>1, NamesDiffer, Typed
  <2>4. KeysOK'  BY <1>1, <1>3, <2>1, <2>2 DEF KeysOK
  <2>5. WaitsOK'  BY <1>3, <2>1, <2>2, <2>3 DEF WaitsOK
  <2>6. screen' \in Screens /\ screen' # "album"  BY <2>1 DEF Screens
  <2>7. QED  BY <1>1, <1>3, <2>1, <2>2, <2>3, <2>4, <2>5, <2>6, TaskMoves, Typed
<1>6. CASE RecipientRefused
  <2>1. Terminal("dead", Goes(Main, "idle")) \/ Trap(Goes(Main, "idle"))
    BY <1>6 DEF RecipientRefused
  <2>2. "dead" \in Terminals  BY DEF Terminals
  <2>3. QED  BY <1>1, <1>4, <2>1, <2>2, TerminalEnds, TrapEnds
<1>7. QED  BY <1>5, <1>6

LEMMA NextUnforeseen == ASSUME IInv, Unforeseen PROVE IInv'
<1>1. ~halted /\ call[Main] = "asking" /\ RunsAgain(screen, task, Goes(Main, "idle"))
  BY DEF Unforeseen, Asks
<1>2. task \in {"key", "recipient"}  BY <1>1, NotOver
<1>3. "material" \notin holds  BY <1>2 DEF IInv, KeysOK
<1>4. screen \notin {"onboarding", "album"} /\ screen \in Screens
  BY <1>1, <1>2, Typed DEF IInv, WaitsOK
<1>5. Main \in Callers /\ "idle" \in Calls  BY NamesAreCallers DEF Calls
<1>6. /\ Goes(Main, "idle") \in [Callers -> Calls] /\ Goes(Main, "idle")[Main] = "idle"
      /\ \A p \in Photos : Goes(Main, "idle")[Thumb(p)] = call[Thumb(p)]
      /\ \A g \in Gens : Goes(Main, "idle")[Asset(g)] = call[Asset(g)]
  BY <1>5, Gone, NamesDiffer, NamesAreCallers
<1>7. QED  BY <1>1, <1>2, <1>3, <1>4, <1>6, ToRunAgain

\* Nothing but what the grid's two calls were at is given up.
LEMMA AbandonedKeeps ==
    ASSUME NEW f \in [Callers -> Calls]
    PROVE  /\ Abandoned(f) \in [Callers -> Calls]
           /\ Abandoned(f)[Main] = f[Main]
           /\ Abandoned(f)[Details] = "idle" /\ Abandoned(f)[Metadata] = "idle"
           /\ \A p \in Photos : Abandoned(f)[Thumb(p)] = f[Thumb(p)]
           /\ \A g \in Gens : Abandoned(f)[Asset(g)] = f[Asset(g)]
<1>1. Abandoned(f)[Main] = f[Main]
  BY NamesDiffer, NamesAreCallers DEF Abandoned
<1>2. Abandoned(f)[Details] = "idle" /\ Abandoned(f)[Metadata] = "idle"
  BY NamesDiffer, NamesAreCallers DEF Abandoned
<1>3. \A p \in Photos : Abandoned(f)[Thumb(p)] = f[Thumb(p)]
  BY NamesDiffer, NamesAreCallers DEF Abandoned
<1>4. \A g \in Gens : Abandoned(f)[Asset(g)] = f[Asset(g)]
  BY NamesDiffer, NamesAreCallers DEF Abandoned
<1>5. QED  BY <1>1, <1>2, <1>3, <1>4, AbandonedTyped

\* The grid is entered.
LEMMA NextEnterGrid == ASSUME IInv, EnterGrid PROVE IInv'
<1> DEFINE calls == Goes(Metadata, "asking")
<1>1. ~halted /\ screen = "onboarding"  BY DEF EnterGrid
<1>2. /\ KeysOK /\ WaitsOK /\ task = "none" /\ call[Main] = "idle" /\ ~again
      /\ "material" \notin holds
  BY <1>1 DEF IInv, KeysOK, WaitsOK, Forms
<1>3. /\ calls \in [Callers -> Calls] /\ calls[Main] = "idle"
      /\ \A c \in Callers : c # Metadata => calls[c] = call[c]
  BY <1>2, Gone, NamesDiffer, NamesAreCallers DEF Calls
<1>4. /\ \A p \in Photos : calls[Thumb(p)] = call[Thumb(p)]
      /\ \A g \in Gens : calls[Asset(g)] = call[Asset(g)]
  BY <1>3, NamesDiffer, NamesAreCallers
<1>5. \/ Terminal("dead", calls)
      \/ RunsAgain("opening", "grid", Abandoned(calls))
      \/ /\ screen' = "opening" /\ task' = "grid" /\ call' = calls
         /\ UNCHANGED <<self, notice, keys, album, faults>>
  BY DEF EnterGrid
<1> HIDE DEF calls
<1>6. CASE Terminal("dead", calls)
  BY <1>1, <1>3, <1>6, TerminalEnds DEF Terminals
<1>7. CASE RunsAgain("opening", "grid", Abandoned(calls))
  <2>1. "opening" \in Screens  BY DEF Screens, Unsettled
  <2>2. /\ Abandoned(calls) \in [Callers -> Calls] /\ Abandoned(calls)[Main] = "idle"
        /\ Abandoned(calls)[Details] = "idle" /\ Abandoned(calls)[Metadata] = "idle"
        /\ \A p \in Photos : Abandoned(calls)[Thumb(p)] = call[Thumb(p)]
        /\ \A g \in Gens : Abandoned(calls)[Asset(g)] = call[Asset(g)]
    BY <1>3, <1>4, AbandonedKeeps
  <2>3. QED  BY <1>1, <1>2, <1>7, <2>1, <2>2, ToRunAgain
<1>8. CASE /\ screen' = "opening" /\ task' = "grid" /\ call' = calls
           /\ UNCHANGED <<self, notice, keys, album, faults>>
  <2>1. UNCHANGED <<mode, halted, poisoned, again, offline, holds, handles>>
    BY <1>8 DEF self, notice, keys
  <2>2. KeysOK'  BY <1>1, <1>2, <1>8, <2>1 DEF KeysOK
  <2>3. WaitsOK'  BY <1>2, <1>3, <1>8, <2>1 DEF WaitsOK
  <2>4. screen' \in Screens /\ screen' # "album"  BY <1>8 DEF Screens, Unsettled
  <2>5. QED  BY <1>1, <1>3, <1>8, <2>1, <2>2, <2>3, <2>4, TaskMoves, Typed
<1>9. QED  BY <1>5, <1>6, <1>7, <1>8

\* The album is listed: the first workers ask, the others wait in the queue.
LEMMA NextLists ==
    ASSUME IInv, ~halted, task = "grid", ~again,
           NEW calls \in [Callers -> Calls], NEW shown \in SUBSET Photos, NEW usable \in SUBSET shown,
           \A p \in Photos : calls[Thumb(p)] = call[Thumb(p)],
           \A g \in Gens : calls[Asset(g)] = call[Asset(g)],
           Lists(usable, shown, calls), calls[Main] = call[Main]
    PROVE  IInv'
<1>1. PICK first \in SUBSET usable :
        /\ worker' = first /\ queue' = usable \ first
        /\ call' = [c \in Callers |->
                      IF c \in {Details, Metadata} THEN "idle"
                      ELSE IF \E p \in first : c = Thumb(p) THEN "asking"
                      ELSE calls[c]]
  BY DEF Lists
<1>2. /\ screen' = "album" /\ task' = "none"
      /\ thumb' = [p \in Photos |-> IF p \in usable THEN "loading"
                                    ELSE IF p \in shown THEN "unavailable" ELSE "absent"]
      /\ UNCHANGED <<self, notice, keys, viewing, open, faults>>
  BY DEF Lists
<1>3. UNCHANGED <<mode, halted, poisoned, stored, again, offline, holds, handles,
                  viewer, viewerGen, wants, open, faults>>
  BY <1>2 DEF self, notice, keys, viewing
<1>4. /\ KeysOK /\ WaitsOK /\ GridOK /\ ViewerOK /\ PicturesAccounted
      /\ screen = "opening" /\ call[Main] = "idle"
  BY NotOver DEF IInv, WaitsOK
<1>5. \A p \in Photos : call[Thumb(p)] = "idle" /\ thumb[p] = "absent"
  BY <1>4 DEF GridOK
<1>6. call' \in [Callers -> Calls]  BY <1>1 DEF Calls
<1>7. \A p \in Photos : /\ p \in first => call'[Thumb(p)] = "asking"
                        /\ p \notin first => call'[Thumb(p)] = "idle"
  BY <1>1, <1>5, NamesDiffer, NamesAreCallers
<1>8. \A g \in Gens : call'[Asset(g)] = call[Asset(g)]
  BY <1>1, NamesDiffer, NamesAreCallers
<1>9. call'[Main] = "idle"  BY <1>1, <1>4, NamesDiffer, NamesAreCallers
<1>10. TypeOK'
  <2>1. {halted, offline, again, poisoned, stored}' \subseteq BOOLEAN  BY <1>3, Typed
  <2>2. thumb' \in [Photos -> {"absent", "loading", "ready", "failed", "unavailable"}]  BY <1>2
  <2>3. queue' \subseteq Photos /\ worker' \subseteq Photos  BY <1>1
  <2>4. screen' \in Screens  BY <1>2 DEF Screens
  <2>5. QED  BY <1>2, <1>3, <1>6, <2>1, <2>2, <2>3, <2>4, Typed DEF TypeOK
<1>11. PicturesAccounted'
  <2>1. \A p \in Photos : thumb[p] # "ready" /\ thumb'[p] # "ready"  BY <1>2, <1>5
  <2>2. Cardinality(Ready(thumb)) = 0 /\ Cardinality(Ready(thumb')) = 0  BY <2>1, NoneReady
  <2>3. OnScreen' = Showing(thumb', viewer')  BY DEF OnScreen, Showing, Ready
  <2>4. OnScreen' = OnScreen  BY <1>3, <2>2, <2>3, ShowingIsNat DEF Showing
  <2>5. QED  BY <1>3, <1>4, <2>4 DEF PicturesAccounted
<1>12. KeysOK'
  <2>1. "material" \notin holds  BY <1>4 DEF KeysOK
  <2>2. QED  BY <1>2, <1>3, <1>4, <2>1 DEF KeysOK
<1>13. WaitsOK'  BY <1>2, <1>3, <1>9 DEF WaitsOK
<1>14. GridOK'  BY <1>1, <1>2, <1>7 DEF GridOK
<1>15. ViewerOK'
  <2>1. \A g \in Gens : Current(g)' <=> Current(g)  BY <1>3 DEF Current
  <2>2. QED  BY <1>3, <1>4, <1>8, <2>1 DEF ViewerOK
<1>16. QED  BY <1>10, <1>11, <1>12, <1>13, <1>14, <1>15 DEF IInv

\* An answer about the album, whichever of the two it is.
LEMMA NextAlbumAnswers ==
    ASSUME IInv, NEW c \in {Details, Metadata}, AlbumAnswers(c)
    PROVE  IInv'
<1>1. ~halted /\ call[c] = "asking"  BY DEF AlbumAnswers, Asks
<1>2. KeysOK /\ WaitsOK /\ call \in [Callers -> Calls]  BY Typed DEF IInv
<1>3. PICK to \in {"ok", "missing", "bad"} :
        IF task = "grid" THEN Joined(Goes(c, to))
        ELSE call' = Goes(c, to) /\ UNCHANGED <<page, keys, task, album, faults>>
  BY DEF AlbumAnswers
<1> DEFINE calls == Goes(c, to)
<1>4. to \in Calls /\ c \in Callers /\ c # Main  BY NamesAreCallers, NamesDiffer DEF Calls
<1>5. /\ calls \in [Callers -> Calls] /\ calls[Main] = call[Main]
      /\ \A p \in Photos : calls[Thumb(p)] = call[Thumb(p)]
      /\ \A g \in Gens : calls[Asset(g)] = call[Asset(g)]
      /\ \A d \in Callers : d \notin {Main, Details, Metadata} => calls[d] = call[d]
  BY <1>4, Gone, NamesDiffer, NamesAreCallers
<1>6. CASE call' = calls /\ UNCHANGED <<page, keys, task, album, faults>>
  <2>1. UNCHANGED <<self, screen, mode, halted, poisoned, again, offline, stored, holds, handles>>
    BY <1>6 DEF page, self, notice, keys
  <2>2. UNCHANGED <<thumb, queue, worker, viewer, viewerGen, wants, open>>
    BY <1>6 DEF album, grid, viewing
  <2>3. KeysOK'  BY <1>2, <1>6, <2>1 DEF KeysOK
  <2>4. ~(again /\ task = "grid")  BY <1>1, <1>2 DEF WaitsOK
  <2>5. WaitsOK'  BY <1>2, <1>5, <1>6, <2>1, <2>4 DEF WaitsOK
  <2>6. PicturesAccounted' /\ GridOK' /\ ViewerOK'  BY <1>5, <1>6, <2>1, AlbumKept
  <2>7. TypeOK'
    <3>1. {halted, offline, again, poisoned, stored}' \subseteq BOOLEAN  BY <2>1, Typed
    <3>2. QED  BY <1>5, <1>6, <2>1, <2>2, <3>1, Typed DEF TypeOK
  <2>8. QED  BY <2>3, <2>5, <2>6, <2>7 DEF IInv
<1>7. CASE task = "grid" /\ ~(call' = calls /\ UNCHANGED <<page, keys, task, album, faults>>)
  <2>1. ~again /\ screen = "opening" /\ call[Main] = "idle" /\ "material" \notin holds
    BY <1>1, <1>2, <1>7 DEF WaitsOK, KeysOK
  <2>2. \/ \E shown \in SUBSET Photos : \E usable \in SUBSET shown : Lists(usable, shown, calls)
        \/ Terminal("dead", calls) \/ Trap(calls)
        \/ RunsAgain(screen, task, Abandoned(calls))
    BY <1>3, <1>7 DEF Joined
  <2> HIDE DEF calls
  <2>3. CASE \E shown \in SUBSET Photos : \E usable \in SUBSET shown : Lists(usable, shown, calls)
    BY <1>1, <1>5, <1>7, <2>1, <2>3, NextLists
  <2>4. CASE Terminal("dead", calls)
    <3>1. "dead" \in Terminals  BY DEF Terminals
    <3>2. QED  BY <1>1, <1>5, <2>4, <3>1, TerminalEnds
  <2>5. CASE Trap(calls)  BY <1>1, <1>5, <2>5, TrapEnds
  <2>6. CASE RunsAgain(screen, task, Abandoned(calls))
    <3>1. /\ Abandoned(calls) \in [Callers -> Calls] /\ Abandoned(calls)[Main] = "idle"
          /\ Abandoned(calls)[Details] = "idle" /\ Abandoned(calls)[Metadata] = "idle"
          /\ \A p \in Photos : Abandoned(calls)[Thumb(p)] = call[Thumb(p)]
          /\ \A g \in Gens : Abandoned(calls)[Asset(g)] = call[Asset(g)]
      BY <1>5, <2>1, AbandonedKeeps
    <3>2. RunsAgain("opening", "grid", Abandoned(calls))  BY <1>7, <2>1, <2>6
    <3>3. "opening" \in Screens  BY DEF Screens, Unsettled
    <3>4. QED  BY <1>1, <2>1, <3>1, <3>2, <3>3, ToRunAgain
  <2>7. QED  BY <2>2, <2>3, <2>4, <2>5, <2>6
<1>8. QED  BY <1>3, <1>6, <1>7

-----------------------------------------------------------------------------
(***************************************************************************)
(* What befalls a call whoever makes it, the retry, and leaving the page.  *)
(***************************************************************************)

\* A step that only moves calls, and what the retry is about.
LEMMA CallsMove ==
    ASSUME IInv, UNCHANGED <<self, screen, keys, thumb, queue, viewing, open>>,
           worker' \subseteq Photos, offline' \in BOOLEAN, again' \in BOOLEAN,
           task' \in {"none", "key", "frames", "recipient", "grid"},
           faults' \in 0..MaxFaults, call' \in [Callers -> Calls],
           \A p \in Photos : call[Thumb(p)] = "idle" => call'[Thumb(p)] = "idle",
           \A g \in Gens : call[Asset(g)] = "idle" => call'[Asset(g)] = "idle",
           KeysOK', WaitsOK'
    PROVE  IInv'
<1>1. UNCHANGED <<mode, halted, poisoned, stored, holds, handles, viewer, viewerGen, wants>>
  BY DEF self, keys, viewing
<1>2. PicturesAccounted /\ GridOK /\ ViewerOK  BY DEF IInv
<1>3. PicturesAccounted'  BY <1>1, <1>2 DEF PicturesAccounted, OnScreen
<1>4. GridOK'  BY <1>1, <1>2 DEF GridOK
<1>5. ViewerOK'
  <2>1. \A g \in Gens : Current(g)' <=> Current(g)  BY <1>1 DEF Current
  <2>2. QED  BY <1>1, <1>2, <2>1 DEF ViewerOK
<1>6. TypeOK'
  <2>1. {halted, offline, again, poisoned, stored}' \subseteq BOOLEAN  BY <1>1, Typed
  <2>2. QED  BY <1>1, <2>1, Typed DEF TypeOK
<1>7. QED  BY <1>3, <1>4, <1>5, <1>6 DEF IInv

LEMMA NextUnreachable == ASSUME IInv, NEW c \in Callers, Unreachable(c) PROVE IInv'
<1>1. /\ ~halted /\ call[c] = "asking" /\ faults < MaxFaults /\ faults' = faults + 1
      /\ call' = Goes(c, "waiting") /\ offline' = TRUE
      /\ UNCHANGED <<self, screen, again, keys, task, album>>
  BY DEF Unreachable, Asks, Fault
<1>2. UNCHANGED <<mode, halted, poisoned, holds, handles, thumb, queue, worker, viewing, open>>
  BY <1>1 DEF self, keys, album, grid
<1>3. KeysOK /\ WaitsOK /\ handles \in Nat  BY Typed DEF IInv
<1>4. faults' \in 0..MaxFaults /\ faults' > 0  BY <1>1, Typed, BoundAssumption
<1>5. call' \in [Callers -> Calls]  BY <1>1, Gone DEF Calls
<1>6. \A d \in Callers : call[d] = "idle" => call'[d] = "idle"
  BY <1>1, Gone DEF Calls
<1>7. KeysOK'
  <2>1. mode = "qr" /\ ~poisoned => handles = IF "key" \in holds THEN 1 ELSE 0  BY <1>3 DEF KeysOK
  <2>2. QED  BY <1>1, <1>2, <1>3, <1>4, <2>1 DEF KeysOK
<1>8. WaitsOK'  BY <1>1, <1>2, <1>3, <1>6, NamesAreCallers DEF WaitsOK
<1>9. again \in BOOLEAN /\ worker \subseteq Photos
      /\ task \in {"none", "key", "frames", "recipient", "grid"}
  BY Typed
<1>10. QED  BY <1>1, <1>2, <1>4, <1>5, <1>6, <1>7, <1>8, <1>9, CallsMove, NamesAreCallers

LEMMA NextDenied == ASSUME IInv, NEW c \in Callers, Denied(c) PROVE IInv'
<1>1. ~halted /\ \E kind \in {"revoked", "not-recognised"} : Terminal(kind, Goes(c, "idle"))
  BY DEF Denied, Asks
<1>2. Goes(c, "idle") \in [Callers -> Calls]  BY Gone DEF Calls
<1>3. \A kind \in {"revoked", "not-recognised"} : kind \in Terminals /\ kind # "device-failed"
  BY DEF Terminals
<1>4. QED  BY <1>1, <1>2, <1>3, TerminalEnds

\* A call that stops: nobody waits for it, or the session is over.
LEMMA NextGivesUp ==
    ASSUME IInv, NEW c \in Callers, ThrowsHalted(c) \/ \E n \in 1..MaxFaults : c = Stray(n) /\ StrayAnswers(n)
    PROVE  IInv'
<1>1. /\ call' = Goes(c, "idle") /\ worker' \subseteq worker
      /\ halted \/ c \notin {Main, Details, Metadata}
      /\ UNCHANGED <<page, keys, task, thumb, queue, viewing, open, faults>>
  <2>1. CASE ThrowsHalted(c)  BY <2>1 DEF ThrowsHalted
  <2>2. CASE \E n \in 1..MaxFaults : c = Stray(n) /\ StrayAnswers(n)
    BY <2>2, NamesDiffer DEF StrayAnswers, album, grid
  <2>3. QED  BY <2>1, <2>2
<1>2. UNCHANGED <<self, screen, mode, halted, offline, again, poisoned, holds, handles>>
  BY <1>1 DEF page, self, notice, keys
<1>3. /\ call' \in [Callers -> Calls] /\ \A d \in Callers : call[d] = "idle" => call'[d] = "idle"
      /\ \A d \in Callers : d # c => call'[d] = call[d]
  <2>1. "idle" \in Calls  BY DEF Calls
  <2>2. /\ call' \in [Callers -> Calls] /\ call'[c] = "idle"
        /\ \A d \in Callers : d # c => call'[d] = call[d]
    BY <1>1, <2>1, Gone
  <2>3. QED  BY <2>2
<1>4. KeysOK /\ WaitsOK  BY DEF IInv
<1>5. KeysOK'  BY <1>1, <1>2, <1>4 DEF KeysOK
<1>6. WaitsOK'  BY <1>1, <1>2, <1>3, <1>4, NamesAreCallers DEF WaitsOK
<1>7. QED  BY <1>1, <1>2, <1>3, <1>5, <1>6, CallsMove, NamesAreCallers, Typed

LEMMA NextRetryOffline == ASSUME IInv, RetryOffline PROVE IInv'
<1>1. /\ ~halted /\ offline' = FALSE /\ again' = FALSE
      /\ task' = IF again /\ Derives(task) THEN "frames" ELSE task
      /\ call' = [c \in Callers |->
                    IF again /\ ~Derives(task) /\ c \in FirstCalls(task) THEN "asking"
                    ELSE Woken(call)[c]]
      /\ UNCHANGED <<self, screen, keys, album, faults>>
  BY DEF RetryOffline
<1>2. UNCHANGED <<mode, halted, poisoned, holds, handles, thumb, queue, worker, viewing, open>>
  BY <1>1 DEF self, keys, album, grid
<1>3. KeysOK /\ WaitsOK /\ call \in [Callers -> Calls]  BY Typed DEF IInv
<1>4. again => task \in {"key", "recipient", "grid"} /\ call[Main] = "idle" /\ faults > 0
               /\ "material" \notin holds /\ screen \notin {"onboarding", "album"}
  BY <1>1, <1>3 DEF KeysOK, WaitsOK
<1>5. \A c \in Callers : call[c] = "idle" => Woken(call)[c] = "idle"  BY DEF Woken
<1>6. call' \in [Callers -> Calls]
  <2>1. Woken(call) \in [Callers -> Calls] /\ "asking" \in Calls  BY <1>3, WokenTyped DEF Calls
  <2>2. QED  BY <1>1, <2>1
<1>7. \A c \in Callers : /\ c \notin {Main, Details, Metadata} /\ call[c] = "idle" => call'[c] = "idle"
                         /\ ~again /\ call[c] = "idle" => call'[c] = "idle"
  BY <1>1, <1>5 DEF FirstCalls
<1>8. /\ again /\ task = "grid" => call'[Main] = "idle"
      /\ again /\ Derives(task) => call'[Main] = "idle"
  BY <1>1, <1>4, <1>5, NamesDiffer, NamesAreCallers DEF FirstCalls
<1>9. KeysOK'  BY <1>1, <1>2, <1>3, <1>4 DEF KeysOK, Derives
<1>10. WaitsOK'
  <2>1. ASSUME call'[Main] # "idle" PROVE task' \in {"key", "recipient"}
    <3>1. CASE again  BY <1>1, <1>4, <1>8, <2>1, <3>1
    <3>2. CASE ~again
      <4>1. call[Main] # "idle"  BY <1>7, <2>1, <3>2, NamesAreCallers
      <4>2. QED  BY <1>1, <1>3, <3>2, <4>1 DEF WaitsOK
    <3>3. QED  BY <3>1, <3>2
  <2>2. task' = "grid" => screen' = "opening"  BY <1>1, <1>3 DEF WaitsOK
  <2>3. screen' \in {"onboarding", "album"} => task' = "none"  BY <1>1, <1>3, <1>4 DEF WaitsOK
  <2>4. QED  BY <1>1, <2>1, <2>2, <2>3 DEF WaitsOK
<1>11. /\ \A p \in Photos : call[Thumb(p)] = "idle" => call'[Thumb(p)] = "idle"
       /\ \A g \in Gens : call[Asset(g)] = "idle" => call'[Asset(g)] = "idle"
  BY <1>7, NamesDiffer, NamesAreCallers
<1>12. task' \in {"none", "key", "frames", "recipient", "grid"}  BY <1>1, Typed
<1>13. QED  BY <1>1, <1>2, <1>6, <1>9, <1>10, <1>11, <1>12, CallsMove, Typed

LEMMA NextDispose == ASSUME IInv, Dispose PROVE IInv'
<1>1. /\ ~halted /\ halted' = TRUE /\ holds' = {} /\ open' = open - OnScreen
      /\ handles' = handles - Freed(~poisoned)
      /\ UNCHANGED <<mode, screen, notice, poisoned, stored, task, call, grid, viewing, faults>>
  BY DEF Dispose, DropKeyState
<1>2. UNCHANGED <<again, offline, thumb, queue, worker, viewer, viewerGen, wants>>
  BY <1>1 DEF notice, grid, viewing
<1>3. KeysOK /\ PicturesAccounted /\ ViewerOK /\ ~poisoned  BY <1>1, NotOver DEF IInv
<1>4. open' = 0
  <2>1. open = OnScreen /\ OnScreen \in Nat  BY <1>1, <1>3, ShowingIsNat DEF PicturesAccounted
  <2>2. QED  BY <1>1, <2>1
<1>5. handles' \in Nat /\ handles' = handles - (IF "key" \in holds THEN 1 ELSE 0)
  BY <1>1, <1>3, Typed DEF KeysOK, Freed
<1>6. TypeOK'
  <2>1. {halted, offline, again, poisoned, stored}' \subseteq BOOLEAN  BY <1>1, <1>2, Typed
  <2>2. QED  BY <1>1, <1>2, <1>4, <1>5, <2>1, Typed DEF TypeOK
<1>7. PicturesAccounted'  BY <1>1, <1>4 DEF PicturesAccounted
<1>8. KeysOK'  BY <1>1, <1>2, <1>3, <1>5 DEF KeysOK
<1>9. WaitsOK' /\ GridOK'  BY <1>1 DEF WaitsOK, GridOK
<1>10. ViewerOK'
  <2>1. \A g \in Gens : Current(g)' <=> Current(g)  BY <1>2 DEF Current
  <2>2. QED  BY <1>1, <1>2, <1>3, <2>1 DEF ViewerOK
<1>11. QED  BY <1>6, <1>7, <1>8, <1>9, <1>10 DEF IInv

-----------------------------------------------------------------------------
(***************************************************************************)
(* The thumbnails.                                                         *)
(***************************************************************************)

\* A step of the grid, in a session that may be over: what the cells say and what
\* their loaders are at still fit, and the pictures are counted.
LEMMA GridMoves ==
    ASSUME IInv, UNCHANGED <<page, keys, task, viewing, faults>>,
           thumb' \in [Photos -> {"absent", "loading", "ready", "failed", "unavailable"}],
           queue' \subseteq Photos, worker' \subseteq Photos, call' \in [Callers -> Calls],
           \A c \in Callers : (\A p \in Photos : c # Thumb(p)) => call'[c] = call[c],
           PicturesAccounted', open' \in Nat, GridOK'
    PROVE  IInv'
<1>1. UNCHANGED <<mode, halted, poisoned, stored, screen, offline, again, holds, handles,
                  viewer, viewerGen, wants>>
  BY DEF page, self, notice, keys, viewing
<1>2. /\ \A g \in Gens : call'[Asset(g)] = call[Asset(g)]
      /\ \A c \in {Main, Details, Metadata} : call'[c] = call[c]
  BY NamesDiffer, NamesAreCallers
<1>3. KeysOK' /\ WaitsOK'  BY <1>2, SessionKept
<1>4. ViewerOK'
  <2>1. \A g \in Gens : Current(g)' <=> Current(g)  BY <1>1 DEF Current
  <2>2. ViewerOK  BY DEF IInv
  <2>3. QED  BY <1>1, <1>2, <2>1, <2>2 DEF ViewerOK
<1>5. TypeOK'
  <2>1. {halted, offline, again, poisoned, stored}' \subseteq BOOLEAN  BY <1>1, Typed
  <2>2. QED  BY <1>1, <2>1, Typed DEF TypeOK
<1>6. QED  BY <1>3, <1>4, <1>5 DEF IInv

\* A loader that is done, at p: the next photo, if there is one and the session
\* goes on, is asked for; and p's call is idle.
LEMMA LoaderGoesOn ==
    ASSUME IInv, NEW p \in Photos, LoaderEnds(p), call[Thumb(p)] # "idle"
    PROVE  /\ queue' \subseteq queue /\ worker' \subseteq Photos /\ call' \in [Callers -> Calls]
           /\ \A c \in Callers : (\A q \in Photos : c # Thumb(q)) => call'[c] = call[c]
           /\ ~halted => /\ call'[Thumb(p)] = "idle"
                         /\ \A q \in Photos : q # p /\ call[Thumb(q)] = "idle" =>
                              \/ call'[Thumb(q)] = "idle"
                              \/ q \in queue /\ q \notin queue'
<1>1. call \in [Callers -> Calls] /\ queue \subseteq Photos /\ worker \subseteq Photos  BY Typed
<1>2. "idle" \in Calls /\ "asking" \in Calls  BY DEF Calls
<1>3. Thumb(p) \in Callers  BY NamesAreCallers
<1>4. CASE TakesNext(p)
  <2>1. PICK q \in queue :
          /\ queue' = queue \ {q} /\ worker' = (worker \ {p}) \cup {q}
          /\ call' = [call EXCEPT ![Thumb(p)] = "idle", ![Thumb(q)] = "asking"]
    BY <1>4 DEF LoaderEnds
  <2>2. ~halted /\ q \in Photos  BY <1>1, <1>4 DEF TakesNext
  <2>3. q # p /\ call[Thumb(q)] = "idle"  BY <2>2 DEF IInv, GridOK
  <2>4. Thumb(q) \in Callers /\ Thumb(p) # Thumb(q)  BY <2>2, <2>3, NamesDiffer, NamesAreCallers
  <2>5. /\ call' \in [Callers -> Calls] /\ call'[Thumb(p)] = "idle" /\ call'[Thumb(q)] = "asking"
        /\ \A c \in Callers : c # Thumb(p) /\ c # Thumb(q) => call'[c] = call[c]
    BY <1>1, <1>2, <1>3, <2>1, <2>4
  <2>6. \A r \in Photos : r # p /\ r # q => call'[Thumb(r)] = call[Thumb(r)]
    BY <2>2, <2>5, NamesDiffer, NamesAreCallers
  <2>7. q \notin queue'  BY <2>1
  <2>8. \A c \in Callers : (\A r \in Photos : c # Thumb(r)) => call'[c] = call[c]
    BY <2>2, <2>5
  <2>9. queue' \subseteq queue /\ worker' \subseteq Photos  BY <1>1, <2>1, <2>2
  <2>10. QED  BY <2>1, <2>5, <2>6, <2>7, <2>8, <2>9
<1>5. CASE ~TakesNext(p)
  <2>1. worker' = worker \ {p} /\ queue' = queue /\ call' = Goes(Thumb(p), "idle")
    BY <1>5 DEF LoaderEnds
  <2>2. /\ call' \in [Callers -> Calls] /\ call'[Thumb(p)] = "idle"
        /\ \A c \in Callers : c # Thumb(p) => call'[c] = call[c]
    BY <1>2, <1>3, <2>1, Gone
  <2>3. \A q \in Photos : q # p => call'[Thumb(q)] = call[Thumb(q)]
    BY <2>2, NamesDiffer, NamesAreCallers
  <2>4. QED  BY <1>1, <2>1, <2>2, <2>3
<1>6. QED  BY <1>4, <1>5

\* One cell is settled, and its loader goes on.
LEMMA CellSettles ==
    ASSUME IInv, NEW p \in Photos, LoaderEnds(p), call[Thumb(p)] # "idle",
           NEW to \in {"ready", "failed"},
           thumb' = Cell(p, to) \/ (halted /\ thumb' = thumb),
           UNCHANGED <<page, keys, task, viewing, faults>>,
           open' = IF to = "ready" /\ Shows(p) THEN open + 1 ELSE open
    PROVE  IInv'
<1>1. /\ thumb \in [Photos -> {"absent", "loading", "ready", "failed", "unavailable"}]
      /\ queue \subseteq Photos /\ open \in Nat
  BY Typed
<1>2. UNCHANGED <<halted, screen, viewer>>  BY DEF page, self, viewing
<1>3. thumb' \in [Photos -> {"absent", "loading", "ready", "failed", "unavailable"}]
  BY <1>1 DEF Cell
<1>4. open' \in Nat  BY <1>1
<1>5. GridOK /\ PicturesAccounted  BY DEF IInv
<1>6. PicturesAccounted'
  <2>1. CASE halted
    <3>1. open' = open  BY <2>1 DEF Shows
    <3>2. QED  BY <1>2, <1>5, <2>1, <3>1 DEF PicturesAccounted
  <2>2. CASE ~halted
    <3>1. thumb[p] = "loading"  BY <1>5, <2>2 DEF GridOK
    <3>2. thumb' = [thumb EXCEPT ![p] = to]  BY <1>1, <2>2, <3>1 DEF Cell
    <3>3. OnScreen' = Showing(thumb', viewer')  BY DEF OnScreen, Showing, Ready
    <3>4. open = Cardinality(Ready(thumb)) + (IF viewer.picture = NoPhoto THEN 0 ELSE 1)
      BY <1>5, <2>2, ShowingIsNat DEF PicturesAccounted, Showing
    <3>5. Cardinality(Ready(thumb)) \in Nat  BY ReadyIsFinite
    <3>6. CASE to = "ready"
      <4>1. open' = open + 1  BY <2>2, <3>1, <3>6 DEF Shows
      <4>2. Cardinality(Ready(thumb')) = Cardinality(Ready(thumb)) + 1
        <5>1. thumb[p] # "ready"  BY <3>1
        <5>2. thumb' = [thumb EXCEPT ![p] = "ready"]  BY <3>2, <3>6
        <5>3. QED  BY <1>1, <5>1, <5>2, OneMoreReady
      <4>3. open' = Showing(thumb', viewer')  BY <1>2, <3>4, <3>5, <4>1, <4>2 DEF Showing
      <4>4. QED  BY <1>2, <2>2, <3>3, <4>3 DEF PicturesAccounted
    <3>7. CASE to = "failed"
      <4>1. open' = open  BY <3>7
      <4>2. Ready(thumb') = Ready(thumb)  BY <1>1, <3>1, <3>2, <3>7 DEF Ready
      <4>3. open' = Showing(thumb', viewer')  BY <1>2, <3>4, <4>1, <4>2 DEF Showing
      <4>4. QED  BY <1>2, <2>2, <3>3, <4>3 DEF PicturesAccounted
    <3>8. QED  BY <3>6, <3>7
  <2>3. QED  BY <2>1, <2>2
<1>7. GridOK'
  <2>1. ASSUME ~halted, NEW q \in Photos
        PROVE  /\ call'[Thumb(q)] # "idle" => thumb'[q] = "loading"
               /\ q \in queue' => thumb'[q] = "loading" /\ call'[Thumb(q)] = "idle"
               /\ screen' # "album" => thumb'[q] = "absent"
    <3>1. /\ call[Thumb(q)] # "idle" => thumb[q] = "loading"
          /\ q \in queue => thumb[q] = "loading" /\ call[Thumb(q)] = "idle"
          /\ screen # "album" => thumb[q] = "absent"
      BY <1>5, <2>1 DEF GridOK
    <3>2. thumb[p] = "loading" /\ p \notin queue  BY <1>5, <2>1 DEF GridOK
    <3>3. thumb' = [thumb EXCEPT ![p] = to]  BY <1>1, <2>1, <3>2 DEF Cell
    <3>4. /\ queue' \subseteq queue /\ call'[Thumb(p)] = "idle"
          /\ q # p /\ call[Thumb(q)] = "idle" =>
               call'[Thumb(q)] = "idle" \/ (q \in queue /\ q \notin queue')
      BY <2>1, LoaderGoesOn
    <3>5. screen = "album"  BY <1>5, <2>1, <3>2 DEF GridOK
    <3>6. CASE q = p  BY <1>2, <3>2, <3>4, <3>5, <3>6
    <3>7. CASE q # p
      <4>1. thumb'[q] = thumb[q]  BY <1>1, <3>3, <3>7
      <4>2. QED  BY <1>2, <3>1, <3>4, <3>5, <3>7, <4>1
    <3>8. QED  BY <3>6, <3>7
  <2>2. QED  BY <1>2, <2>1 DEF GridOK
<1>8. QED  BY <1>1, <1>3, <1>4, <1>6, <1>7, LoaderGoesOn, GridMoves

LEMMA NextThumb ==
    ASSUME IInv, NEW p \in Photos, ThumbArrives(p) \/ ThumbFails(p) \/ ThumbDecodes(p) \/ RetryThumb(p)
    PROVE  IInv'
<1>1. Thumb(p) \in Callers /\ {"idle", "asking", "decoding"} \subseteq Calls
  BY NamesAreCallers DEF Calls
<1>2. CASE ThumbFails(p)
  <2>1. /\ call[Thumb(p)] # "idle" /\ thumb' = Cell(p, "failed") /\ LoaderEnds(p)
        /\ UNCHANGED <<page, keys, task, viewing, open, faults>>
    BY <1>2 DEF ThumbFails, Asks
  <2>2. QED  BY <2>1, CellSettles
<1>3. CASE ThumbDecodes(p)
  <2>1. /\ call[Thumb(p)] # "idle" /\ LoaderEnds(p)
        /\ thumb' = Cell(p, "ready") \/ (halted /\ thumb' = thumb)
        /\ open' = IF Shows(p) THEN open + 1 ELSE open
        /\ UNCHANGED <<page, keys, task, viewing, faults>>
    BY <1>3 DEF ThumbDecodes
  <2>2. QED  BY <2>1, CellSettles
<1>4. CASE ThumbArrives(p)
  <2>1. ~halted /\ call[Thumb(p)] = "asking"  BY <1>4 DEF ThumbArrives, Asks
  <2>2. CASE Trap(Goes(Thumb(p), "idle"))  BY <1>1, <2>1, <2>2, Gone, TrapEnds
  <2>3. CASE call' = Goes(Thumb(p), "decoding") /\ UNCHANGED <<page, keys, task, album, faults>>
    <3>1. UNCHANGED <<viewing, thumb, queue, worker, open, halted, screen, viewer>>
      BY <2>3 DEF album, grid, viewing, page, self
    <3>2. call' \in [Callers -> Calls] /\ \A c \in Callers : c # Thumb(p) => call'[c] = call[c]
      BY <1>1, <2>3, Gone
    <3>3. \A q \in Photos : call[Thumb(q)] = "idle" => call'[Thumb(q)] = "idle"
      BY <2>1, <3>2, NamesDiffer, NamesAreCallers
    <3>4. PicturesAccounted' /\ GridOK'
      BY <2>3, <3>1, <3>2, <3>3, AlbumKept, NamesDiffer, NamesAreCallers
    <3>5. QED  BY <2>3, <3>1, <3>2, <3>4, GridMoves, Typed
  <2>4. QED  BY <1>4, <2>2, <2>3 DEF ThumbArrives
<1>5. CASE RetryThumb(p)
  <2>1. /\ ~halted /\ thumb[p] = "failed" /\ thumb' = Cell(p, "loading")
        /\ call' = Goes(Thumb(p), "asking")
        /\ UNCHANGED <<page, keys, task, queue, worker, viewing, open, faults>>
    BY <1>5 DEF RetryThumb
  <2>2. thumb \in [Photos -> {"absent", "loading", "ready", "failed", "unavailable"}]  BY Typed
  <2>3. thumb' = [thumb EXCEPT ![p] = "loading"]  BY <2>1, <2>2 DEF Cell
  <2>4. /\ call' \in [Callers -> Calls]
        /\ \A c \in Callers : c # Thumb(p) => call'[c] = call[c]
    BY <1>1, <2>1, Gone
  <2>5. \A q \in Photos : q # p => call'[Thumb(q)] = call[Thumb(q)]
    BY <2>4, NamesDiffer, NamesAreCallers
  <2>6. UNCHANGED <<halted, screen, viewer>>  BY <2>1 DEF page, self, viewing
  <2>7. GridOK /\ PicturesAccounted  BY DEF IInv
  <2>8. p \notin queue /\ screen = "album"  BY <2>1, <2>7 DEF GridOK
  <2>9. GridOK'  BY <2>1, <2>2, <2>3, <2>5, <2>6, <2>7, <2>8 DEF GridOK
  <2>10. Ready(thumb') = Ready(thumb)  BY <2>1, <2>2, <2>3 DEF Ready
  <2>11. OnScreen' = OnScreen  BY <2>6, <2>10 DEF OnScreen, Ready
  <2>12. PicturesAccounted'  BY <2>1, <2>6, <2>7, <2>11 DEF PicturesAccounted
  <2>13. thumb' \in [Photos -> {"absent", "loading", "ready", "failed", "unavailable"}]
    BY <2>2, <2>3
  <2>14. QED  BY <2>1, <2>4, <2>9, <2>12, <2>13, GridMoves, Typed
<1>6. QED  BY <1>2, <1>3, <1>4, <1>5

-----------------------------------------------------------------------------
(***************************************************************************)
(* The viewer.                                                             *)
(***************************************************************************)

Views == [photo : Photos \cup {NoPhoto}, picture : Photos \cup {NoPhoto},
          phase : {"closed", "loading", "shown", "removed", "failed"}]

\* A step of the viewer, in a session that may be over.
LEMMA ViewerMoves ==
    ASSUME IInv, UNCHANGED <<page, keys, task, grid, faults>>,
           viewer' \in Views, viewerGen' \in 0..(2 * MaxOpens),
           wants' \in [Gens -> Photos \cup {NoPhoto}], call' \in [Callers -> Calls],
           \A c \in Callers : (\A g \in Gens : c # Asset(g)) => call'[c] = call[c],
           PicturesAccounted', open' \in Nat, ViewerOK'
    PROVE  IInv'
<1>1. UNCHANGED <<mode, halted, poisoned, stored, screen, offline, again, holds, handles,
                  thumb, queue, worker>>
  BY DEF page, self, notice, keys, grid
<1>2. /\ \A p \in Photos : call'[Thumb(p)] = call[Thumb(p)]
      /\ \A c \in {Main, Details, Metadata} : call'[c] = call[c]
  BY NamesDiffer, NamesAreCallers
<1>3. KeysOK' /\ WaitsOK'  BY <1>2, SessionKept
<1>4. GridOK'  BY <1>1, <1>2 DEF IInv, GridOK
<1>5. TypeOK'
  <2>1. {halted, offline, again, poisoned, stored}' \subseteq BOOLEAN  BY <1>1, Typed
  <2>2. QED  BY <1>1, <2>1, Typed DEF TypeOK, Views
<1>6. QED  BY <1>3, <1>4, <1>5 DEF IInv

\* What is on screen while the grid does not change.
LEMMA Viewed ==
    ASSUME IInv, ~halted, UNCHANGED <<thumb, halted>>,
           open' = open + (IF viewer'.picture = NoPhoto THEN 0 ELSE 1)
                        - (IF viewer.picture = NoPhoto THEN 0 ELSE 1)
    PROVE  PicturesAccounted' /\ open' \in Nat
<1>1. open = Showing(thumb, viewer)  BY ShowingIsNat DEF IInv, PicturesAccounted
<1>2. Cardinality(Ready(thumb)) \in Nat  BY ReadyIsFinite
<1>3. OnScreen' = Cardinality(Ready(thumb)) + (IF viewer'.picture = NoPhoto THEN 0 ELSE 1)
  BY DEF OnScreen, Ready
<1>4. open' = OnScreen' /\ open' \in Nat  BY <1>1, <1>2, <1>3 DEF Showing
<1>5. QED  BY <1>4 DEF PicturesAccounted

LEMMA NextOpenViewer == ASSUME IInv, NEW p \in Photos, OpenViewer(p) PROVE IInv'
<1>1. /\ ~halted /\ viewer.phase = "closed" /\ viewerGen < 2 * MaxOpens
      /\ viewerGen' = viewerGen + 1
      /\ viewer' = [photo |-> p, phase |-> "loading", picture |-> NoPhoto]
      /\ wants' = [wants EXCEPT ![viewerGen + 1] = p]
      /\ call' = Goes(Asset(viewerGen + 1), "asking")
      /\ UNCHANGED <<page, keys, task, grid, open, faults>>
  BY DEF OpenViewer
<1>2. ViewerOK /\ viewerGen \in Nat /\ MaxOpens \in Nat  BY Typed, BoundAssumption DEF IInv
<1>3. viewer.picture = NoPhoto  BY <1>1, <1>2 DEF ViewerOK
<1>4. viewerGen + 1 \in Gens /\ viewerGen' \in 0..(2 * MaxOpens)
  <2>1. PICK n \in 0..MaxOpens : viewerGen = 2 * n  BY <1>1, <1>2 DEF ViewerOK
  <2>2. n + 1 \in 1..MaxOpens /\ viewerGen + 1 = 2 * (n + 1) - 1  BY <1>1, <1>2, <2>1
  <2>3. viewerGen + 1 \in Gens  BY <2>2 DEF Gens
  <2>4. QED  BY <1>1, <1>2, <2>1, <2>2, <2>3
<1>5. /\ call' \in [Callers -> Calls]
      /\ \A c \in Callers : (\A g \in Gens : c # Asset(g)) => call'[c] = call[c]
  <2>1. Asset(viewerGen + 1) \in Callers /\ "asking" \in Calls  BY <1>4, NamesAreCallers DEF Calls
  <2>2. QED  BY <1>1, <1>4, <2>1, Gone
<1>6. wants' \in [Gens -> Photos \cup {NoPhoto}] /\ wants'[viewerGen + 1] = p
  BY <1>1, <1>4, Typed
<1>7. viewer' \in Views  BY <1>1 DEF Views
<1>8. ViewerOK'
  <2>1. UNCHANGED halted  BY <1>1 DEF page, self
  <2>2. /\ viewer'.phase = "loading" /\ viewer'.picture = NoPhoto /\ viewer'.photo = p
    BY <1>1
  <2>3. \A g \in Gens : Current(g)' => g = viewerGen + 1  BY <1>1 DEF Current
  <2>4. viewerGen' \in Gens  BY <1>1, <1>4
  <2>5. QED  BY <1>6, <2>2, <2>3, <2>4 DEF ViewerOK
<1>9. PicturesAccounted' /\ open' \in Nat
  <2>1. UNCHANGED <<thumb, halted>>  BY <1>1 DEF grid, page, self
  <2>2. viewer'.picture = NoPhoto  BY <1>1
  <2>3. open' = open /\ open \in Nat  BY <1>1, Typed
  <2>4. QED  BY <1>1, <1>3, <2>1, <2>2, <2>3, Viewed
<1>10. QED  BY <1>1, <1>4, <1>5, <1>6, <1>7, <1>8, <1>9, ViewerMoves

LEMMA NextCloseViewer == ASSUME IInv, CloseViewer PROVE IInv'
<1>1. /\ ~halted /\ viewer.phase # "closed" /\ viewerGen' = viewerGen + 1
      /\ open' = (IF viewer.picture = NoPhoto THEN open ELSE open - 1)
      /\ viewer' = NoViewer
      /\ UNCHANGED <<page, keys, task, call, grid, wants, faults>>
  BY DEF CloseViewer
<1>2. ViewerOK /\ MaxOpens \in Nat  BY BoundAssumption DEF IInv
<1>3. PICK n \in 1..MaxOpens : viewerGen = 2 * n - 1  BY <1>1, <1>2 DEF ViewerOK, Gens
<1>4. /\ n \in 0..MaxOpens /\ viewerGen' = 2 * n /\ viewerGen' \in 0..(2 * MaxOpens)
  BY <1>1, <1>2, <1>3
<1>5. viewer'.phase = "closed" /\ viewer'.picture = NoPhoto /\ viewer' \in Views
  BY <1>1 DEF NoViewer, Views
<1>6. ViewerOK'
  <2>1. \A g \in Gens : ~Current(g)'  BY <1>5 DEF Current
  <2>2. QED  BY <1>4, <1>5, <2>1 DEF ViewerOK
<1>7. PicturesAccounted' /\ open' \in Nat
  <2>1. UNCHANGED <<thumb, halted>>  BY <1>1 DEF grid, page, self
  <2>2. open \in Nat  BY Typed
  <2>3. open' = open + (IF viewer'.picture = NoPhoto THEN 0 ELSE 1)
                     - (IF viewer.picture = NoPhoto THEN 0 ELSE 1)
    BY <1>1, <1>5, <2>2
  <2>4. QED  BY <1>1, <2>1, <2>3, Viewed
<1>8. QED  BY <1>1, <1>4, <1>5, <1>6, <1>7, ViewerMoves, Typed

LEMMA NextAsset ==
    ASSUME IInv, NEW g \in Gens, AssetArrives(g) \/ AssetFails(g) \/ AssetDecodes(g)
    PROVE  IInv'
<1>1. Asset(g) \in Callers /\ {"idle", "decoding"} \subseteq Calls
  BY NamesAreCallers DEF Calls
<1>2. ViewerOK /\ PicturesAccounted /\ viewer \in Views /\ open \in Nat  BY Typed DEF IInv, Views
<1>3. \A to \in {"idle", "decoding"} :
         /\ Goes(Asset(g), to) \in [Callers -> Calls] /\ Goes(Asset(g), to)[Asset(g)] = to
         /\ \A c \in Callers : c # Asset(g) => Goes(Asset(g), to)[c] = call[c]
  BY <1>1, Gone
<1>4. Current(g) /\ call[Asset(g)] # "idle" =>
         /\ viewer.phase = "loading" /\ viewer.picture = NoPhoto
         /\ viewer.photo \in Photos /\ wants[g] = viewer.photo
  BY <1>2 DEF ViewerOK
\* Only this call moves, and an idle one stays idle.
<1>5. ASSUME NEW to \in {"idle", "decoding"}, call[Asset(g)] # "idle", call' = Goes(Asset(g), to)
      PROVE  /\ call' \in [Callers -> Calls]
             /\ \A c \in Callers : (\A h \in Gens : c # Asset(h)) => call'[c] = call[c]
             /\ \A h \in Gens : call[Asset(h)] = "idle" => call'[Asset(h)] = "idle"
  <2>1. \A h \in Gens : h # g => call'[Asset(h)] = call[Asset(h)]
    BY <1>3, <1>5, NamesDiffer, NamesAreCallers
  <2>2. QED  BY <1>3, <1>5, <2>1
<1>6. CASE AssetArrives(g)
  <2>1. ~halted /\ call[Asset(g)] = "asking"  BY <1>6 DEF AssetArrives, Asks
  <2>2. CASE Trap(Goes(Asset(g), "idle"))  BY <1>3, <2>1, <2>2, TrapEnds
  <2>3. CASE \E to \in {"idle", "decoding"} :
               call' = Goes(Asset(g), to) /\ UNCHANGED <<page, keys, task, album, faults>>
    <3>1. UNCHANGED <<grid, viewer, viewerGen, wants, open, halted, screen>>
      BY <2>3 DEF album, viewing, page, self
    <3>2. /\ call' \in [Callers -> Calls]
          /\ \A c \in Callers : (\A h \in Gens : c # Asset(h)) => call'[c] = call[c]
          /\ \A h \in Gens : call[Asset(h)] = "idle" => call'[Asset(h)] = "idle"
      BY <1>5, <2>1, <2>3
    <3>3. PicturesAccounted' /\ ViewerOK'
      BY <2>3, <3>1, <3>2, AlbumKept, NamesDiffer, NamesAreCallers
    <3>4. QED  BY <1>2, <2>3, <3>1, <3>2, <3>3, ViewerMoves, Typed
  <2>4. QED  BY <1>6, <2>2, <2>3 DEF AssetArrives
<1>7. CASE AssetFails(g)
  <2>1. PICK phase \in {"removed", "failed"} :
          /\ call[Asset(g)] # "idle" /\ call' = Goes(Asset(g), "idle")
          /\ viewer' = IF Current(g) THEN [viewer EXCEPT !.phase = phase] ELSE viewer
          /\ UNCHANGED <<page, keys, task, grid, viewerGen, wants, open, faults>>
    BY <1>7 DEF AssetFails, Asks
  <2>2. /\ call' \in [Callers -> Calls]
        /\ \A c \in Callers : (\A h \in Gens : c # Asset(h)) => call'[c] = call[c]
        /\ \A h \in Gens : call[Asset(h)] = "idle" => call'[Asset(h)] = "idle"
    BY <1>5, <2>1
  <2>3. call'[Asset(g)] = "idle"  BY <1>3, <2>1
  <2>4. UNCHANGED <<thumb, halted, screen>>  BY <2>1 DEF grid, page, self
  <2>5. CASE Current(g)
    <3>1. viewer' = [photo |-> viewer.photo, picture |-> viewer.picture, phase |-> phase]
      BY <1>2, <2>1, <2>5 DEF Views
    <3>2. /\ viewer' \in Views /\ viewer'.phase = phase
          /\ viewer'.picture = NoPhoto /\ viewer'.photo = viewer.photo
      BY <1>2, <1>4, <2>1, <2>5, <3>1 DEF Views
    <3>3. \A h \in Gens : Current(h)' => h = g  BY <2>1, <2>5 DEF Current
    <3>4. ViewerOK'
      <4>1. viewer.phase # "closed"  BY <2>5 DEF Current
      <4>2. ~halted => viewerGen' \in Gens  BY <1>2, <2>1, <4>1 DEF ViewerOK
      <4>3. QED  BY <1>4, <2>1, <2>3, <2>4, <2>5, <3>2, <3>3, <4>2 DEF ViewerOK
    <3>5. PicturesAccounted'
      BY <1>2, <1>4, <2>1, <2>4, <2>5, <3>2 DEF PicturesAccounted, OnScreen
    <3>6. QED  BY <1>2, <2>1, <2>2, <3>2, <3>4, <3>5, ViewerMoves, Typed
  <2>6. CASE ~Current(g)
    <3>1. viewer' = viewer  BY <2>1, <2>6
    <3>2. \A h \in Gens : Current(h)' <=> Current(h)  BY <2>1, <3>1 DEF Current
    <3>3. ViewerOK'  BY <1>2, <2>1, <2>2, <2>4, <3>1, <3>2 DEF ViewerOK
    <3>4. PicturesAccounted'  BY <1>2, <2>1, <2>4, <3>1 DEF PicturesAccounted, OnScreen
    <3>5. QED  BY <1>2, <2>1, <2>2, <3>1, <3>3, <3>4, ViewerMoves, Typed
  <2>7. QED  BY <2>5, <2>6
<1>8. CASE AssetDecodes(g)
  <2>1. /\ call[Asset(g)] = "decoding" /\ call' = Goes(Asset(g), "idle")
        /\ UNCHANGED <<page, keys, task, grid, viewerGen, wants, faults>>
        /\ IF ~halted /\ Current(g)
           THEN /\ viewer' = [viewer EXCEPT !.phase = "shown", !.picture = wants[g]]
                /\ open' = open + 1
           ELSE UNCHANGED <<viewer, open>>
    BY <1>8 DEF AssetDecodes
  <2>2. /\ call' \in [Callers -> Calls]
        /\ \A c \in Callers : (\A h \in Gens : c # Asset(h)) => call'[c] = call[c]
        /\ \A h \in Gens : call[Asset(h)] = "idle" => call'[Asset(h)] = "idle"
    BY <1>5, <2>1
  <2>3. call'[Asset(g)] = "idle"  BY <1>3, <2>1
  <2>4. UNCHANGED <<thumb, halted, screen>>  BY <2>1 DEF grid, page, self
  <2>5. CASE ~halted /\ Current(g)
    <3>1. viewer' = [photo |-> viewer.photo, picture |-> wants[g], phase |-> "shown"]
      BY <1>2, <2>1, <2>5 DEF Views
    <3>2. wants[g] = viewer.photo /\ viewer.photo \in Photos /\ viewer.photo # NoPhoto
      BY <1>4, <2>1, <2>5, PhotoAssumption
    <3>3. /\ viewer' \in Views /\ viewer'.phase = "shown"
          /\ viewer'.picture = viewer.photo /\ viewer'.photo = viewer.photo
      BY <3>1, <3>2 DEF Views
    <3>4. \A h \in Gens : Current(h)' => h = g  BY <2>1, <2>5 DEF Current
    <3>5. ViewerOK'
      <4>1. viewer.phase # "closed"  BY <2>5 DEF Current
      <4>2. viewerGen' \in Gens  BY <1>2, <2>1, <2>5, <4>1 DEF ViewerOK
      <4>3. QED  BY <2>1, <2>3, <3>2, <3>3, <3>4, <4>2 DEF ViewerOK
    <3>6. PicturesAccounted' /\ open' \in Nat
      <4>1. open' = open + 1 /\ viewer.picture = NoPhoto /\ viewer'.picture # NoPhoto
        BY <1>4, <2>1, <2>5, <3>2, <3>3
      <4>2. QED  BY <1>2, <2>4, <2>5, <4>1, Viewed
    <3>7. QED  BY <2>1, <2>2, <3>3, <3>5, <3>6, ViewerMoves, Typed
  <2>6. CASE ~(~halted /\ Current(g))
    <3>1. viewer' = viewer /\ open' = open  BY <2>1, <2>6
    <3>2. \A h \in Gens : Current(h)' <=> Current(h)  BY <2>1, <3>1 DEF Current
    <3>3. ViewerOK'  BY <1>2, <2>1, <2>2, <2>4, <3>1, <3>2 DEF ViewerOK
    <3>4. PicturesAccounted'  BY <1>2, <2>1, <2>4, <3>1 DEF PicturesAccounted, OnScreen
    <3>5. QED  BY <1>2, <2>1, <2>2, <3>1, <3>3, <3>4, ViewerMoves, Typed
  <2>7. QED  BY <2>5, <2>6
<1>9. QED  BY <1>6, <1>7, <1>8

-----------------------------------------------------------------------------
(***************************************************************************)
(* Every step, and what follows.                                           *)
(***************************************************************************)

\* One step of a call, whoever makes it.
LEMMA NextAnswered == ASSUME IInv, NEW c \in Callers, Answered(c) PROVE IInv'
<1>1. CASE Unreachable(c) \/ Denied(c)  BY <1>1, NextUnreachable, NextDenied
<1>2. CASE ThrowsHalted(c) \/ \E n \in 1..MaxFaults : c = Stray(n) /\ StrayAnswers(n)
  BY <1>2, NextGivesUp
<1>3. CASE KeyRefused \/ InviteOpens \/ MaterialArrives  BY <1>3, NextKey
<1>4. CASE RecipientArrives \/ RecipientRefused  BY <1>4, NextRecipient
<1>5. CASE Unforeseen  BY <1>5, NextUnforeseen
<1>6. CASE c \in {Details, Metadata} /\ AlbumAnswers(c)  BY <1>6, NextAlbumAnswers
<1>7. CASE \E p \in Photos : ThumbArrives(p) \/ ThumbFails(p) \/ ThumbDecodes(p)
  BY <1>7, NextThumb
<1>8. CASE \E g \in Gens : AssetArrives(g) \/ AssetFails(g) \/ AssetDecodes(g)
  BY <1>8, NextAsset
<1>9. QED  BY <1>1, <1>2, <1>3, <1>4, <1>5, <1>6, <1>7, <1>8 DEF Answered

\* The invariant is inductive.
LEMMA NextIInv == IInv /\ [Next]_vars => IInv'
<1> SUFFICES ASSUME IInv, [Next]_vars PROVE IInv'  OBVIOUS
<1>1. CASE UNCHANGED vars
  <2>1. UNCHANGED <<page, keys, task, call, album, faults>>  BY <1>1 DEF vars
  <2>2. /\ UNCHANGED <<mode, screen, halted, poisoned, stored, offline, again, holds, handles>>
        /\ UNCHANGED <<grid, viewer, viewerGen, wants, open>>
    BY <2>1 DEF page, self, notice, keys, album, viewing
  <2>3. PicturesAccounted' /\ ViewerOK'  BY <2>1, <2>2, AlbumKept
  <2>4. viewer \in Views  BY Typed DEF Views
  <2>5. QED  BY <2>1, <2>2, <2>3, <2>4, ViewerMoves, Typed
<1>2. CASE Start \/ Submit \/ EnterGrid \/ CloseViewer \/ Dispose \/ RetryOffline \/ Derivation
  BY <1>2, NextStart, NextSubmit, NextEnterGrid, NextCloseViewer, NextDispose,
     NextRetryOffline, NextDerivation
<1>3. CASE \E p \in Photos : RetryThumb(p) \/ OpenViewer(p)
  BY <1>3, NextThumb, NextOpenViewer
<1>4. CASE \E c \in Callers : Answered(c)  BY <1>4, NextAnswered
<1>5. QED  BY <1>1, <1>2, <1>3, <1>4 DEF Next

\* It holds for ever.
LEMMA AlwaysIInv == Spec => []IInv
<1>1. QED  BY InitIInv, NextIInv, PTL DEF Spec

\* The variables of the session keep their types.
THEOREM SessionIsTyped == Spec => []TypeOK
<1>1. IInv => TypeOK  BY DEF IInv
<1>2. QED  BY <1>1, AlwaysIInv, PTL

\* No decoded picture is lost track of: what is decoded late, for a viewer that was
\* closed or a session that is over, is closed by whoever decoded it (updateItem,
\* loadViewer, dropKeyState).
THEOREM NoPictureLeaks == Spec => []PicturesAccounted
<1>1. IInv => PicturesAccounted  BY DEF IInv
<1>2. QED  BY <1>1, AlwaysIInv, PTL

\* The viewer shows the photo that was opened, however many openings still fetch:
\* a load writes only to its own generation (viewerGen).
THEOREM LateLoadsAreDropped == Spec => []ViewerShowsItsPhoto
<1>1. IInv => ViewerShowsItsPhoto  BY DEF IInv, ViewerOK, ViewerShowsItsPhoto
<1>2. QED  BY <1>1, AlwaysIInv, PTL

\* A session that is over keeps no key material and has freed its handle
\* (terminal, dispose, dropKeyState).
THEOREM EndedSessionKeepsNothing == Spec => []NothingKept
<1>1. IInv => NothingKept  BY DEF IInv, KeysOK, NothingKept
<1>2. QED  BY <1>1, AlwaysIInv, PTL

=============================================================================
