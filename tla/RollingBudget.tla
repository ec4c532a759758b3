--------------------------- MODULE RollingBudget ---------------------------
(***************************************************************************)
(* What a rate limit promises: a window that holds exactly the costs of    *)
(* the last Window instants, with no list to prune and no key to sweep.  A *)
(* request is refused when its cost does not fit, and only then.           *)
(***************************************************************************)
EXTENDS Integers

CONSTANTS
    Keys, Requests, Budget, Window, Floor, Sizes, Horizon,
    Total(_)  \* what the costs in a window add up to

VARIABLES
    now,     \* the wall clock
    window,  \* the cost of each key at each instant that has not expired
    pc       \* idle, refused, or the key a request was admitted for

vars == <<now, window, pc>>

Times == 0..Horizon

Init ==
    /\ now = 0
    /\ window = [k \in Keys |-> [t \in Times |-> 0]]
    /\ pc = [r \in Requests |-> "idle"]

Fits(k) == Total(window[k]) + Floor <= Budget

Spend(k, cost) ==
    window' = [window EXCEPT ![k] =
                 [window[k] EXCEPT ![now] = window[k][now] + cost]]

Admit(r, k) ==
    /\ pc[r] \in {"idle", "refused"} /\ Fits(k)
    /\ Spend(k, Floor)
    /\ pc' = [pc EXCEPT ![r] = k] /\ UNCHANGED now

Refuse(r, k) ==
    /\ pc[r] \in {"idle", "refused"} /\ ~Fits(k)
    /\ pc' = [pc EXCEPT ![r] = "refused"] /\ UNCHANGED <<now, window>>

Answer(r) ==
    /\ pc[r] \in Keys
    /\ \/ UNCHANGED window
       \/ \E size \in Sizes : size > Floor /\ Spend(pc[r], size - Floor)
    /\ pc' = [pc EXCEPT ![r] = "idle"] /\ UNCHANGED now

Tick ==
    /\ now' = now + 1
    /\ window' = [k \in Keys |-> [t \in Times |->
                    IF t > now' - Window THEN window[k][t] ELSE 0]]
    /\ UNCHANGED pc

\* A clock set back forgets nothing of the window it leaves.  Of what had
\* expired there, and has not at the earlier time, anything may come back.
StepBack ==
    /\ now' < now
    /\ window' \in [Keys -> [Times -> Nat]]
    /\ \A k \in Keys, t \in Times :
         /\ t > now - Window   => window'[k][t] = window[k][t]
         /\ t <= now' - Window => window'[k][t] = 0
    /\ UNCHANGED pc

Next ==
    \/ \E r \in Requests, k \in Keys : Admit(r, k) \/ Refuse(r, k)
    \/ \E r \in Requests : Answer(r)
    \/ Tick \/ StepBack

Spec == Init /\ [][Next]_vars
=============================================================================
