--------------------------- MODULE SlidingWindow ---------------------------
(***************************************************************************)
(* The weighted sliding window behind every rate limit of packages/server, *)
(* with the requests that spend from it: a request is admitted for Floor,  *)
(* and a ciphertext route tops it up by what it serves above Floor before  *)
(* it answers.  Requests of one key overlap; the limiter itself runs       *)
(* without awaiting, so each call is one step.                             *)
(*                                                                         *)
(* A key's list of entries is kept as the cost spent at each instant: the  *)
(* code sorts the list by instant before it reads an order from it, and    *)
(* entries of one instant expire together.                                 *)
(***************************************************************************)
EXTENDS Integers, FiniteSets

CONSTANTS
    Keys,         \* addresses, or hashes of tokens
    Requests,     \* requests, one at a time each
    Budget,       \* max
    Window,       \* windowMs
    Floor,        \* the cost of an admission, which is also maxAdmitCost
    Second,       \* instants in a second
    SweepAbove,   \* SWEEP_ABOVE_KEYS
    Sizes,        \* sizes of the objects served
    Horizon,      \* bound: the last instant
    MaxStepsBack  \* bound: how often the wall clock is set back

ASSUME KeyAssumption ==
    /\ IsFiniteSet(Keys)
    /\ Keys \cap {"idle", "refused"} = {}

ASSUME RequestAssumption == IsFiniteSet(Requests)

ASSUME LimitAssumption ==
    /\ Budget \in Nat \ {0} /\ Window \in Nat \ {0} /\ Second \in Nat \ {0}
    /\ Floor \in 1..Budget  \* checked when the window is made
    /\ SweepAbove \in Nat
    /\ Sizes \subseteq Nat
    /\ Horizon \in Nat
    /\ MaxStepsBack \in Nat

VARIABLES
    now,      \* the wall clock
    spent,    \* what each key spent at each instant, as far as it is kept
    tracked,  \* the keys of the map
    pc,       \* idle, refused, or the key a request was admitted for
    told,     \* when the last refusal of a key said to return, until it spends
    back      \* how often the clock was set back

vars == <<now, spent, tracked, pc, told, back>>

Times   == 0..Horizon
Nothing == [t \in Times |-> 0]
NotTold == 0  \* a refusal answers a later instant

TypeOK ==
    /\ now \in Times
    /\ spent \in [Keys -> [Times -> Nat]]
    /\ tracked \subseteq Keys
    /\ pc \in [Requests -> Keys \cup {"idle", "refused"}]
    /\ told \in [Keys -> 0..(Horizon + Window + Second)]
    /\ back \in 0..MaxStepsBack

Init ==
    /\ now = 0
    /\ spent = [k \in Keys |-> Nothing]
    /\ tracked = {}
    /\ pc = [r \in Requests |-> "idle"]
    /\ told = [k \in Keys |-> NotTold]
    /\ back = 0

(***************************************************************************)
(* live, and what it adds up to.                                           *)
(***************************************************************************)
Live(f, at) == [t \in Times |-> IF t > at - Window THEN f[t] ELSE 0]

UpTo(f) ==
    LET upTo[t \in Times] == f[t] + IF t = 0 THEN 0 ELSE upTo[t - 1]
    IN upTo

Total(f) == UpTo(f)[Horizon]

FitsUncosted_Mutant(f) == Total(f) <= Budget

Fits(f) == Total(f) + Floor <= Budget

FitsNow(k) == Fits(Live(spent[k], now))

(***************************************************************************)
(* record, with the sweep of idle keys it runs when there are too many.    *)
(***************************************************************************)
Idle_Mutant(f) == \A t \in Times : f[t] > 0 => t < now

Idle(f) == \A t \in Times : f[t] > 0 => t <= now - Window

Record(k, cost) ==
    LET kept  == [spent EXCEPT ![k] =
                    [Live(spent[k], now) EXCEPT ![now] = spent[k][now] + cost]]
        known == tracked \cup {k}
        swept == IF Cardinality(known) > SweepAbove
                 THEN {j \in known : Idle(kept[j])} ELSE {}
    IN /\ tracked' = known \ swept
       /\ spent' = [j \in Keys |-> IF j \in swept THEN Nothing ELSE kept[j]]
       /\ told' = [told EXCEPT ![k] = NotTold]

(***************************************************************************)
(* admit.  A refusal keeps the pruned list and records nothing.  It waits  *)
(* for the first expiry that makes room, of which there is one, because    *)
(* the last leaves nothing and Floor <= Budget.                            *)
(***************************************************************************)
Asks(r) == pc[r] \in {"idle", "refused"}

Admit(r, k) ==
    /\ Asks(r) /\ FitsNow(k)
    /\ Record(k, Floor)
    /\ pc' = [pc EXCEPT ![r] = k]
    /\ UNCHANGED <<now, back>>

\* What is left once the entries up to t have expired.
After(f, t) == [s \in Times |-> IF s > t THEN f[s] ELSE 0]

MakesRoomUncosted_Mutant(f, t) == f[t] > 0 /\ Total(After(f, t)) <= Budget

MakesRoom(f, t) == f[t] > 0 /\ Fits(After(f, t))

\* t counts while it is later than the clock less Window; rounded up.
WaitSeconds(t) ==
    LET s == (t + Window - now + Second - 1) \div Second
    IN IF s < 1 THEN 1 ELSE s

Refuse(r, k) ==
    LET kept == Live(spent[k], now)
    IN /\ Asks(r) /\ ~FitsNow(k)
       /\ \E t \in Times :
            /\ MakesRoom(kept, t)
            /\ \A s \in Times : MakesRoom(kept, s) => t <= s
            /\ told' = [told EXCEPT ![k] = now + Second * WaitSeconds(t)]
       /\ spent' = [spent EXCEPT ![k] = kept]
       /\ tracked' = tracked \cup {k}
       /\ pc' = [pc EXCEPT ![r] = "refused"]
       /\ UNCHANGED <<now, back>>

(***************************************************************************)
(* chargeBytes, which never refuses, and the answers that do not charge.   *)
(***************************************************************************)
TopUp(size) == IF size > Floor THEN size - Floor ELSE 0

Serve(r, size) ==
    /\ pc[r] \in Keys
    /\ \/ TopUp(size) = 0 /\ UNCHANGED <<spent, tracked, told>>
       \/ TopUp(size) > 0 /\ Record(pc[r], TopUp(size))
    /\ pc' = [pc EXCEPT ![r] = "idle"]
    /\ UNCHANGED <<now, back>>

AnswerUncharged(r) ==  \* an error, or a route of the request budgets
    /\ pc[r] \in Keys
    /\ pc' = [pc EXCEPT ![r] = "idle"]
    /\ UNCHANGED <<now, spent, tracked, told, back>>

(***************************************************************************)
(* The wall clock.                                                         *)
(***************************************************************************)
Tick ==
    /\ now < Horizon /\ now' = now + 1
    /\ UNCHANGED <<spent, tracked, pc, told, back>>

StepBack ==
    /\ back < MaxStepsBack /\ back' = back + 1
    /\ now' \in 0..(now - 1)
    /\ UNCHANGED <<spent, tracked, pc, told>>

Next ==
    \/ \E r \in Requests, k \in Keys : Admit(r, k) \/ Refuse(r, k)
    \/ \E r \in Requests, size \in Sizes : Serve(r, size)
    \/ \E r \in Requests : AnswerUncharged(r)
    \/ Tick \/ StepBack

Spec == Init /\ [][Next]_vars

-----------------------------------------------------------------------------
WasTold(k) == told[k] # NotTold

(***************************************************************************)
(* A client that obeys Retry-After is not refused again: once the time it  *)
(* was told is over, and its key has spent nothing meanwhile, it fits,     *)
(* whatever top-ups had overdrawn the budget and wherever the wall clock   *)
(* went in between.                                                        *)
(***************************************************************************)
RetryAfterIsEnough ==
    \A k \in Keys : WasTold(k) /\ now >= told[k] => FitsNow(k)

(***************************************************************************)
(* An admission looks at what was topped up, so however requests of one    *)
(* key overlap, a window holds no more than the budget and what the        *)
(* requests under way at once may serve above Floor.  The clock only moves *)
(* forward here: one set back brings expired entries into the window.      *)
(***************************************************************************)
OverdraftBounded ==
    \A most \in Sizes : (\A size \in Sizes : size <= most) /\ back = 0 =>
        \A k \in Keys : Total(Live(spent[k], now))
                          <= Budget + Cardinality(Requests) * TopUp(most)

(***************************************************************************)
(* Pruning a list when its key comes by and sweeping keys from another     *)
(* key's request are invisible: every answer is that of a window that      *)
(* forgets each cost at the instant it expires.  See RollingBudget.        *)
(***************************************************************************)
Rolling == INSTANCE RollingBudget
             WITH window <- [k \in Keys |-> Live(spent[k], now)]

AnswersAsRolling == Rolling!Spec
=============================================================================
