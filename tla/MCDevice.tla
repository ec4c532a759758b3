------------------------------ MODULE MCDevice ------------------------------
(***************************************************************************)
(* What a device computes beneath its screens, in four beginnings of one   *)
(* run: nothing made yet, from which the key functions are called; two     *)
(* album keys opened, under which objects are written (MaxKept leaves them *)
(* no room behind two rows); a photograph to prepare, before there is a    *)
(* key to write it under; and a photograph that comes to be viewed.        *)
(***************************************************************************)
EXTENDS Keys, Prepare, Gestures

VARIABLE part    \* the part a behaviour is about

NoPhotograph == at = "over" /\ result = "not-decoded" /\ file = Absent /\ bitmaps = {} /\ made = NoneMade

NoCallsLeft ==
    /\ calls = MaxCalls /\ poisoned = FALSE /\ call = None
    /\ faults = 0 /\ told = None /\ rows = {} /\ written = {} /\ read = None

AlbumKeysOpen ==
    /\ live = {<<1, "albumKey">>, <<2, "albumKey">>}
    /\ keys = [h \in live |-> Minted(h[1], "album")]
    /\ NoCallsLeft

NoKeys == live = {} /\ keys = [h \in {} |-> Minted(1, "album")] /\ NoCallsLeft

\* A stage is turned, not squared.
Oblong == stage.x # stage.y

NothingViewed == GesturesInit /\ stage = [x |-> 8, y |-> 16]

MCInit ==
    \/ part = "keys" /\ (Init \/ AlbumKeysOpen) /\ NoPhotograph /\ NothingViewed
    \/ part = "photograph" /\ NoKeys /\ NothingPrepared /\ NothingViewed
    \/ part = "viewer" /\ NoKeys /\ NoPhotograph /\ GesturesInit /\ Oblong

\* There is one album, so one id a title is under.
OneTitle(x) == x.use = "title" => x.id = 1

MCNext ==
    \/ /\ part = "keys" /\ Next /\ UNCHANGED <<part, prepareVars, gestureVars>>
       /\ \A w \in written' : OneTitle(w)
       /\ read' # None => OneTitle(read')
    \/ part = "photograph" /\ PrepareNext /\ UNCHANGED <<part, vars, gestureVars>>
    \/ part = "viewer" /\ GesturesNext /\ Oblong' /\ UNCHANGED <<part, vars, prepareVars>>

MCSpec == MCInit /\ [][MCNext]_<<part, vars, prepareVars, gestureVars>>

\* Two chunks, the second of them short or full.
MCPlaintexts == {<<"p", "q", "r">>, <<"q", "q", "r", "r">>}
=============================================================================
