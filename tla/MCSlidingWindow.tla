-------------------------- MODULE MCSlidingWindow --------------------------
(***************************************************************************)
(* What a request meets before any use case: a small instance for TLC of   *)
(* SlidingWindow and of Contract, in three beginnings of one run.          *)
(*                                                                         *)
(* Of the rate limiter, requests overlap under a clock that only moves     *)
(* forward, which is what the overdraft is about; or the clock may be set  *)
(* back, and then there is one request at a time.  One of the two keys,    *)
(* not always the same, is quiet: its window holds two admissions at most  *)
(* and no top-up, or one when the clock may be set back.  The third is a   *)
(* call of the contract, which charges its token whatever the limiter says.*)
(***************************************************************************)
EXTENDS SlidingWindow, Contract, TLC

CONSTANTS k1, k2, r1, r2

VARIABLE clock

\* Keys differ in nothing but their name, and neither do requests.
SameNames == Permutations(Keys) \cup Permutations(Requests)

Quiet(cost) == \E k \in Keys : Total(spent'[k]) <= cost

\* In a behaviour of the limiter no call is made.
NoCall ==
    /\ call = Anyone /\ request = <<>> /\ world = <<>>
    /\ answer = Unset /\ meaning = Unset /\ paid = Free /\ tries = 1

MCInit ==
    \/ Init /\ clock \in {"forward", "set back"} /\ NoCall
    \/ Init /\ clock = "none" /\ ContractInit

MCNext ==
    \/ /\ Next /\ UNCHANGED <<clock, contractVars>>
       /\ \/ clock = "forward" /\ back' = 0 /\ Quiet(Floor + 1)
          \/ /\ clock = "set back" /\ Quiet(Floor)
             /\ Cardinality({r \in Requests : pc'[r] # "idle"}) <= 1
    \/ clock = "none" /\ ContractNext /\ UNCHANGED <<clock, vars>>

MCSpec == MCInit /\ [][MCNext]_<<vars, clock, contractVars>>
=============================================================================
