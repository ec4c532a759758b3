------------------------------ MODULE MCOwner ------------------------------
(***************************************************************************)
(* The owner's device in two beginnings of one run: a page about to be     *)
(* opened, from which OwnerSession goes on; and a session open on its      *)
(* list, from which OwnerScreens does.  The other module's part rests.     *)
(***************************************************************************)
EXTENDS OwnerSession, OwnerScreens

VARIABLE part    \* the part a behaviour is about

\* Not signed in, and nothing to do: no fair step of the session is enabled.
NobodyThere == ~account /\ store = 0

MCInit ==
    /\ Init /\ ScreensInit
    /\ \/ part = "session"
       \/ part = "screens" /\ NobodyThere

MCNext ==
    \/ part = "session" /\ Next /\ UNCHANGED <<part, screensVars>>
    \/ part = "screens" /\ ScreensNext /\ UNCHANGED <<part, vars>>

MCSpec == MCInit /\ [][MCNext]_<<part, vars, screensVars>> /\ Fairness
=============================================================================
