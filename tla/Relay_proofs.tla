---------------------------- MODULE Relay_proofs ----------------------------
(***************************************************************************)
(* What the relay asks of every request and of every byte, proved about    *)
(* four small modules.  The sliding windows of its rate limits, for any    *)
(* budget, window, cost, number of keys and threshold of the sweep, and    *)
(* any number of steps of the clock, forward and back: the answers agree   *)
(* because the windows do, a caller who obeys Retry-After is let in, and   *)
(* no window holds more than its budget and one request.  The contract of  *)
(* its routes, for every request in every world: what is served is paid,   *)
(* and those who may not know are not told.  The layout of an object,      *)
(* whose chunks cover it from the end of its header to its last byte       *)
(* without a gap or an overlap, and none is empty.  And lengths in         *)
(* characters against lengths in bytes, for every length.                  *)
(***************************************************************************)
EXTENDS SlidingWindow, Contract, Encoding, FiniteSetTheorems, WellFoundedInduction, TLAPS

-----------------------------------------------------------------------------
(***************************************************************************)
(* Rate limits (SlidingWindow).                                            *)
(***************************************************************************)

\* What is live of a key is what it spent at the instants not yet expired.
LEMMA LiveType ==
    ASSUME NEW f \in [Times -> Nat], NEW at \in Int
    PROVE  Live(f, at) \in [Times -> Nat]
BY DEF Live, Times

\* Recording a cost keeps the types, whatever it sweeps.
LEMMA RecordType ==
    ASSUME TypeOK, NEW k \in Keys, NEW cost \in Nat, Record(k, cost)
    PROVE  /\ spent' \in [Keys -> [Times -> Nat]]
           /\ tracked' \subseteq Keys
           /\ told' \in [Keys -> 0..(Horizon + Window + Second)]
<1> DEFINE kept == [spent EXCEPT ![k] =
                      [Live(spent[k], now) EXCEPT ![now] = spent[k][now] + cost]]
<1>1. Live(spent[k], now) \in [Times -> Nat]
  BY LiveType DEF TypeOK, Times
<1>2. spent[k][now] + cost \in Nat
  BY DEF TypeOK
<1>3. kept \in [Keys -> [Times -> Nat]]
  BY <1>1, <1>2 DEF TypeOK
<1>4. Nothing \in [Times -> Nat]
  BY DEF Nothing
<1>5. spent' \in [Keys -> [Times -> Nat]]
  BY <1>3, <1>4 DEF Record
<1>6. told' \in [Keys -> 0..(Horizon + Window + Second)]
  BY LimitAssumption DEF Record, TypeOK, NotTold
<1>7. tracked' \subseteq Keys
  BY DEF Record, TypeOK
<1>8. QED  BY <1>5, <1>6, <1>7

\* A refusal sends nobody away for more than a window, a second rounded up.
LEMMA WaitBounded ==
    ASSUME TypeOK, NEW t \in Times
    PROVE  now + Second * WaitSeconds(t) \in 0..(Horizon + Window + Second)
<1> DEFINE n == t + Window - now + Second - 1
           s == n \div Second
<1>1. /\ now \in Int /\ 0 <= now /\ now <= Horizon /\ t \in Int /\ t <= Horizon
      /\ Window \in Int /\ Second \in Int /\ Second >= 1 /\ Horizon \in Int
      /\ Window >= 1
  BY LimitAssumption DEF TypeOK, Times
<1>2. n \in Int  BY <1>1
<1>3. s \in Int /\ Second * s <= n
  BY <1>1, <1>2
<1>4. CASE s < 1
  <2>1. WaitSeconds(t) = 1  BY <1>4 DEF WaitSeconds
  <2>2. QED  BY <2>1, <1>1
<1>5. CASE ~(s < 1)
  <2>1. WaitSeconds(t) = s  BY <1>5 DEF WaitSeconds
  <2>2. Second * s >= 0  BY <1>1, <1>3, <1>5
  <2>3. Second * s \in Int  BY <1>1, <1>3
  <2>4. QED  BY <2>1, <2>2, <2>3, <1>1, <1>2, <1>3
<1>6. QED  BY <1>4, <1>5

\* A top-up is a natural number.
LEMMA TopUpType ==
    ASSUME NEW size \in Sizes
    PROVE  TopUp(size) \in Nat
BY LimitAssumption DEF TopUp

\* Every step keeps the types.
LEMMA NextTypeOK == TypeOK /\ [Next]_vars => TypeOK'
<1> SUFFICES ASSUME TypeOK, [Next]_vars PROVE TypeOK'  OBVIOUS
<1>1. CASE UNCHANGED vars
  BY <1>1 DEF TypeOK, vars
<1>2. ASSUME NEW r \in Requests, NEW k \in Keys, Admit(r, k)
      PROVE  TypeOK'
  <2>1. Floor \in Nat  BY LimitAssumption
  <2>2. QED  BY <1>2, <2>1, RecordType DEF Admit, TypeOK
<1>3. ASSUME NEW r \in Requests, NEW k \in Keys, Refuse(r, k)
      PROVE  TypeOK'
  <2>1. Live(spent[k], now) \in [Times -> Nat]
    BY LiveType DEF TypeOK, Times
  <2>2. spent' \in [Keys -> [Times -> Nat]]
    BY <1>3, <2>1 DEF Refuse, TypeOK
  <2>3. told' \in [Keys -> 0..(Horizon + Window + Second)]
    BY <1>3, WaitBounded DEF Refuse, TypeOK
  <2>4. QED  BY <1>3, <2>2, <2>3 DEF Refuse, TypeOK
<1>4. ASSUME NEW r \in Requests, NEW size \in Sizes, Serve(r, size)
      PROVE  TypeOK'
  <2>1. CASE UNCHANGED <<spent, tracked, told>>
    BY <1>4, <2>1 DEF Serve, TypeOK
  <2>2. CASE Record(pc[r], TopUp(size))
    BY <1>4, <2>2, RecordType, TopUpType DEF Serve, TypeOK
  <2>3. QED  BY <1>4, <2>1, <2>2 DEF Serve
<1>5. ASSUME NEW r \in Requests, AnswerUncharged(r)
      PROVE  TypeOK'
  BY <1>5 DEF AnswerUncharged, TypeOK
<1>6. CASE Tick
  BY <1>6, LimitAssumption DEF Tick, TypeOK, Times
<1>7. CASE StepBack
  BY <1>7, LimitAssumption DEF StepBack, TypeOK, Times
<1>8. QED  BY <1>1, <1>2, <1>3, <1>4, <1>5, <1>6, <1>7 DEF Next

\* Every variable keeps its type.  In particular no client is ever told to
\* wait past the last instant by more than a window and a second.
THEOREM TypeSafe == Spec => []TypeOK
<1>1. Init => TypeOK
  BY LimitAssumption DEF Init, TypeOK, Times, Nothing, NotTold
<1>2. QED  BY <1>1, NextTypeOK, PTL DEF Spec

-----------------------------------------------------------------------------
(***************************************************************************)
(* The refinement.                                                         *)
(***************************************************************************)
Kept == [k \in Keys |-> Live(spent[k], now)]

\* Pruning a list takes away nothing that is live.
LEMMA LivePrunes ==
    ASSUME NEW f \in [Times -> Nat], NEW at \in Int
    PROVE  Live(Live(f, at), at) = Live(f, at)
BY DEF Live

\* A swept key had nothing live.
LEMMA SweptIsEmpty ==
    ASSUME TypeOK, NEW f \in [Times -> Nat], Idle(f)
    PROVE  Live(f, now) = Live(Nothing, now)
<1>1. \A t \in Times : t > now - Window => f[t] = 0
  BY LimitAssumption DEF Idle, TypeOK, Times
<1>2. QED  BY <1>1 DEF Live, Nothing

\* What is inside a window is inside the one of an earlier clock.
LEMMA LaterEdge ==
    \A t, at, earlier, w \in Int :
        /\ earlier < at /\ t > at - w => t > earlier - w
        /\ t <= earlier - w => ~(t > earlier - w)
OBVIOUS

\* Recording a cost, sweep included, adds it to its key's window and leaves
\* every other window as it was.
LEMMA RecordSpends ==
    ASSUME TypeOK, NEW k \in Keys, NEW cost \in Nat, Record(k, cost), now' = now
    PROVE  Kept' = [Kept EXCEPT ![k] =
                      [Kept[k] EXCEPT ![now] = Kept[k][now] + cost]]
<1> DEFINE kept == [spent EXCEPT ![k] =
                      [Live(spent[k], now) EXCEPT ![now] = spent[k][now] + cost]]
           added == [Kept EXCEPT ![k] =
                      [Kept[k] EXCEPT ![now] = Kept[k][now] + cost]]
<1>1. /\ Live(spent[k], now) \in [Times -> Nat]
      /\ now \in Times /\ now \in Int /\ now > now - Window
  <2>1. now \in Times /\ now \in Int /\ spent[k] \in [Times -> Nat]
    BY DEF TypeOK, Times
  <2>2. now > now - Window  BY <2>1, LimitAssumption
  <2>3. QED  BY <2>1, <2>2, LiveType
<1>2. Live(spent[k], now)[now] = spent[k][now]
  BY <1>1 DEF Live
<1>3. kept \in [Keys -> [Times -> Nat]]
  BY <1>1 DEF TypeOK
<1>4. \A j \in Keys : Live(kept[j], now) = added[j]
  <2>1. TAKE j \in Keys
  <2>2. CASE j = k
    <3>1. kept[k] = [Live(spent[k], now) EXCEPT ![now] = spent[k][now] + cost]
      BY DEF TypeOK
    <3>2. added[k] = [Live(spent[k], now) EXCEPT ![now] = spent[k][now] + cost]
      BY <1>2 DEF Kept
    <3>3. Live(kept[k], now) = kept[k]
      BY <3>1, <1>1 DEF Live
    <3>4. QED  BY <2>2, <3>1, <3>2, <3>3
  <2>3. CASE j # k
    BY <2>3 DEF Kept, TypeOK
  <2>4. QED  BY <2>2, <2>3
<1>5. \A j \in Keys : \/ spent'[j] = kept[j]
                      \/ spent'[j] = Nothing /\ Idle(kept[j])
  BY DEF Record
<1>6. \A j \in Keys : Live(spent'[j], now) = Live(kept[j], now)
  <2>1. TAKE j \in Keys
  <2>2. CASE spent'[j] = kept[j]  BY <2>2
  <2>3. CASE spent'[j] = Nothing /\ Idle(kept[j])
    <3>1. kept[j] \in [Times -> Nat]  BY <1>3
    <3>2. Live(kept[j], now) = Live(Nothing, now)
      BY <2>3, <3>1, SweptIsEmpty
    <3>3. QED  BY <2>3, <3>2
  <2>4. QED  BY <1>5, <2>2, <2>3
<1>7. Kept' = [j \in Keys |-> Live(spent'[j], now)]
  BY DEF Kept, Live, Times
<1>8. added = [j \in Keys |-> added[j]]
  BY DEF Kept
<1>9. QED  BY <1>4, <1>6, <1>7, <1>8

\* An answer fits its key's window exactly when it fits the exact one.
LEMMA FitsAlike ==
    ASSUME NEW k \in Keys
    PROVE  Rolling!Fits(k) <=> FitsNow(k)
BY DEF Rolling!Fits, FitsNow, Fits

\* A cost recorded is a cost spent.
LEMMA RecordIsSpend ==
    ASSUME TypeOK, NEW k \in Keys, NEW cost \in Nat, Record(k, cost), now' = now
    PROVE  Rolling!Spend(k, cost)
BY RecordSpends DEF Rolling!Spend, Kept

\* Every step is one of the exact window's, or leaves it as it is.
LEMMA StepAnswersAsRolling ==
    TypeOK /\ [Next]_vars => [Rolling!Next]_(Rolling!vars)
<1> SUFFICES ASSUME TypeOK, [Next]_vars
             PROVE  [Rolling!Next]_(Rolling!vars)
  OBVIOUS
<1>1. CASE UNCHANGED vars
  BY <1>1 DEF vars, Rolling!vars, Live
<1>2. ASSUME NEW r \in Requests, NEW k \in Keys, Admit(r, k)
      PROVE  Rolling!Admit(r, k)
  <2>1. Floor \in Nat  BY LimitAssumption
  <2>2. Rolling!Spend(k, Floor)
    BY <1>2, <2>1, RecordIsSpend DEF Admit
  <2>3. Rolling!Fits(k)  BY <1>2, FitsAlike DEF Admit
  <2>4. QED  BY <1>2, <2>2, <2>3 DEF Admit, Asks, Rolling!Admit
<1>3. ASSUME NEW r \in Requests, NEW k \in Keys, Refuse(r, k)
      PROVE  Rolling!Refuse(r, k)
  <2>1. ~Rolling!Fits(k)  BY <1>3, FitsAlike DEF Refuse
  <2>2. spent' = [spent EXCEPT ![k] = Live(spent[k], now)] /\ now' = now
    BY <1>3 DEF Refuse
  <2>3. \A j \in Keys : Live(spent'[j], now) = Live(spent[j], now)
    <3>1. spent[k] \in [Times -> Nat] /\ now \in Int
      BY DEF TypeOK, Times
    <3>2. QED  BY <2>2, <3>1, LivePrunes DEF TypeOK
  <2>4. Kept' = Kept  BY <2>2, <2>3 DEF Kept, Live, Times
  <2>5. QED  BY <1>3, <2>1, <2>4 DEF Refuse, Asks, Kept, Rolling!Refuse
<1>4. ASSUME NEW r \in Requests, NEW size \in Sizes, Serve(r, size)
      PROVE  Rolling!Answer(r)
  <2>1. CASE UNCHANGED <<spent, tracked, told>>
    <3>1. Kept' = Kept  BY <1>4, <2>1 DEF Serve, Kept, Live, Times
    <3>2. QED  BY <1>4, <3>1 DEF Serve, Kept, Rolling!Answer
  <2>2. CASE TopUp(size) > 0 /\ Record(pc[r], TopUp(size))
    <3>1. size > Floor /\ TopUp(size) = size - Floor
      BY <2>2, LimitAssumption DEF TopUp
    <3>2. Rolling!Spend(pc[r], size - Floor)
      BY <1>4, <2>2, <3>1, TopUpType, RecordIsSpend DEF Serve
    <3>3. QED  BY <1>4, <3>1, <3>2 DEF Serve, Rolling!Answer
  <2>3. QED  BY <1>4, <2>1, <2>2 DEF Serve
<1>5. ASSUME NEW r \in Requests, AnswerUncharged(r)
      PROVE  Rolling!Answer(r)
  <2>1. Kept' = Kept  BY <1>5 DEF AnswerUncharged, Kept, Live, Times
  <2>2. QED  BY <1>5, <2>1 DEF AnswerUncharged, Kept, Rolling!Answer
<1>6. CASE Tick
  <2>1. now' = now + 1 /\ spent' = spent /\ pc' = pc /\ now \in Int /\ Window \in Int
    BY <1>6, LimitAssumption DEF Tick, TypeOK, Times
  <2>2. Kept' = [k \in Keys |-> [t \in Times |->
                   IF t > now' - Window THEN Kept[k][t] ELSE 0]]
    BY <2>1 DEF Kept, Live, Times
  <2>3. Rolling!Tick  BY <2>1, <2>2 DEF Rolling!Tick, Rolling!Times, Kept, Times
  <2>4. QED  BY <2>3 DEF Rolling!Next
<1>7. CASE StepBack
  <2>1. /\ spent' = spent /\ pc' = pc /\ now \in Int /\ now' \in Int /\ now' < now
        /\ Window \in Int
    BY <1>7, LimitAssumption DEF StepBack, TypeOK, Times
  <2>2. Kept' = [k \in Keys |-> Live(spent[k], now')]
    BY <2>1 DEF Kept, Live, Times
  <2>3. Kept' \in [Keys -> [Times -> Nat]]
    BY <2>1, <2>2, LiveType DEF TypeOK
  <2>4. \A k \in Keys, t \in Times :
          /\ t > now - Window   => Kept'[k][t] = Kept[k][t]
          /\ t <= now' - Window => Kept'[k][t] = 0
    <3>1. TAKE k \in Keys, t \in Times
    <3>2. Kept'[k][t] = IF t > now' - Window THEN spent[k][t] ELSE 0
      BY <2>2 DEF Live
    <3>3. Kept[k][t] = IF t > now - Window THEN spent[k][t] ELSE 0
      BY DEF Kept, Live
    <3>4. t \in Int  BY DEF Times
    <3>5. t > now - Window => t > now' - Window
      BY <2>1, <3>4, LaterEdge
    <3>6. t <= now' - Window => ~(t > now' - Window)
      BY <2>1, <3>4, LaterEdge
    <3>7. QED  BY <3>2, <3>3, <3>5, <3>6
  <2>5. Rolling!StepBack
    BY <2>1, <2>3, <2>4 DEF Rolling!StepBack, Rolling!Times, Kept, Times
  <2>6. QED  BY <2>5 DEF Rolling!Next
<1>8. QED
  BY <1>1, <1>2, <1>3, <1>4, <1>5, <1>6, <1>7 DEF Next, Rolling!Next

\* Lists pruned when their key comes by, and keys swept from another key's
\* request, answer as the exact window does.
THEOREM Refinement == Spec => AnswersAsRolling
<1>1. Init => Rolling!Init
  BY DEF Init, Rolling!Init, Rolling!Times, Live, Nothing, Times
<1>2. QED
  BY <1>1, StepAnswersAsRolling, TypeSafe, PTL
  DEF Spec, AnswersAsRolling, Rolling!Spec

-----------------------------------------------------------------------------
(***************************************************************************)
(* What costs add up to.  Total is a recursive function of the instants:   *)
(* its laws are shown by induction, a property of the instants being the   *)
(* set of those that have it.                                              *)
(***************************************************************************)
\* A set of numbers with 0 and the successor of each of its members has them all.
LEMMA Induction ==
    ASSUME NEW S, 0 \in S, \A n \in Nat \cap S : n + 1 \in S
    PROVE  Nat \subseteq S
<1>1. SUFFICES ASSUME NEW m \in Nat, m \notin S PROVE FALSE
  OBVIOUS
<1> DEFINE R == {ss \in Nat \X Nat : ss[1] < ss[2]}
           T == Nat \ S
<1>2. IsWellFoundedOn(R, Nat)
  BY NatLessThanWellFounded DEF OpToRel
<1>3. \A i, j \in Nat : <<i, j>> \in R <=> i < j
  OBVIOUS
<1>4. T \subseteq Nat /\ T # {}
  BY <1>1
<1> HIDE DEF R
<1>5. PICK n \in T : \A i \in T : ~(<<i, n>> \in R)
  BY <1>2, <1>4, WFMin
<1>6. n # 0 /\ n - 1 \in Nat /\ n - 1 < n
  OBVIOUS
<1>7. n - 1 \notin T
  BY <1>3, <1>5, <1>6
<1> QED  BY <1>6, <1>7

\* The running sums exist, and are what UpTo says.
LEMMA UpToExists ==
    ASSUME NEW f \in [Times -> Nat]
    PROVE  UpTo(f) = [t \in Times |-> f[t] + IF t = 0 THEN 0 ELSE UpTo(f)[t - 1]]
<1> DEFINE Sums(g, n) == g = [t \in 0..n |-> f[t] + IF t = 0 THEN 0 ELSE g[t - 1]]
           S == {n \in Nat : n <= Horizon => \E g : Sums(g, n)}
<1>1. Horizon \in Nat  BY LimitAssumption
<1>2. 0 \in S
  <2>1. Sums([t \in 0..0 |-> f[0]], 0)
    <3>1. 0 \in Times /\ f[0] + 0 = f[0]  BY <1>1 DEF Times
    <3>2. \A t \in 0..0 : t = 0  OBVIOUS
    <3> QED  BY <3>1, <3>2
  <2> QED  BY <2>1
<1>3. ASSUME NEW n \in Nat, n \in S PROVE n + 1 \in S
  <2>1. SUFFICES ASSUME n + 1 <= Horizon PROVE \E g : Sums(g, n + 1)
    OBVIOUS
  <2>2. PICK g : Sums(g, n)
    BY <1>3, <2>1, <1>1
  <2> DEFINE h == [t \in 0..(n + 1) |-> IF t = n + 1 THEN f[n + 1] + g[n] ELSE g[t]]
  <2>3. Sums(h, n + 1)
    BY <2>2, <2>1
  <2> QED  BY <2>3
<1>4. \E g : Sums(g, Horizon)
  <2>1. Nat \subseteq S
    <3> HIDE DEF S
    <3> QED  BY <1>2, <1>3, Induction
  <2> QED  BY <2>1, <1>1
<1> QED
  BY <1>4 DEF UpTo, Times

\* Step by step.
LEMMA UpToSteps ==
    ASSUME NEW f \in [Times -> Nat]
    PROVE  /\ UpTo(f)[0] = f[0]
           /\ \A t \in Nat : t + 1 \in Times => UpTo(f)[t + 1] = f[t + 1] + UpTo(f)[t]
<1>1. Horizon \in Nat /\ 0 \in Times  BY LimitAssumption DEF Times
<1>2. \A t \in Times : UpTo(f)[t] = f[t] + IF t = 0 THEN 0 ELSE UpTo(f)[t - 1]
  BY UpToExists
<1>3. f[0] \in Nat  BY <1>1
<1>4. UpTo(f)[0] = f[0]  BY <1>1, <1>2, <1>3
<1>5. ASSUME NEW t \in Nat, t + 1 \in Times PROVE UpTo(f)[t + 1] = f[t + 1] + UpTo(f)[t]
  <2>1. t + 1 # 0 /\ (t + 1) - 1 = t  OBVIOUS
  <2> QED  BY <1>2, <1>5, <2>1
<1> QED  BY <1>4, <1>5

\* A total is a number, and no smaller for larger costs.
LEMMA TotalGrows ==
    ASSUME NEW f \in [Times -> Nat], NEW g \in [Times -> Nat],
           \A t \in Times : f[t] <= g[t]
    PROVE  Total(f) \in Nat /\ Total(f) <= Total(g)
<1> DEFINE S == {n \in Nat : n \in Times =>
                    UpTo(f)[n] \in Nat /\ UpTo(g)[n] \in Nat /\ UpTo(f)[n] <= UpTo(g)[n]}
<1>1. Horizon \in Nat /\ Horizon \in Times /\ 0 \in Times  BY LimitAssumption DEF Times
<1>2. 0 \in S  BY <1>1, UpToSteps
<1>3. ASSUME NEW n \in Nat \cap S PROVE n + 1 \in S
  <2>1. SUFFICES ASSUME n + 1 \in Times
                 PROVE  /\ UpTo(f)[n + 1] \in Nat /\ UpTo(g)[n + 1] \in Nat
                        /\ UpTo(f)[n + 1] <= UpTo(g)[n + 1]
    OBVIOUS
  <2>2. n \in Times  BY <1>1, <2>1 DEF Times
  <2>3. /\ UpTo(f)[n + 1] = f[n + 1] + UpTo(f)[n]
        /\ UpTo(g)[n + 1] = g[n + 1] + UpTo(g)[n]
    BY <2>1, UpToSteps
  <2>4. UpTo(f)[n] \in Nat /\ UpTo(g)[n] \in Nat /\ UpTo(f)[n] <= UpTo(g)[n]
    BY <1>3, <2>2
  <2>5. f[n + 1] \in Nat /\ g[n + 1] \in Nat /\ f[n + 1] <= g[n + 1]
    BY <2>1
  <2> QED  BY <2>3, <2>4, <2>5
<1>4. Nat \subseteq S
  <2> HIDE DEF S
  <2> QED  BY <1>2, <1>3, Induction
<1> QED  BY <1>1, <1>4 DEF Total

\* Nothing adds up to nothing.
LEMMA TotalOfNothing == Total(Nothing) = 0
<1> DEFINE S == {n \in Nat : n \in Times => UpTo(Nothing)[n] = 0}
<1>1. Horizon \in Nat /\ Horizon \in Times /\ 0 \in Times  BY LimitAssumption DEF Times
<1>2. Nothing \in [Times -> Nat] /\ \A t \in Times : Nothing[t] = 0  BY DEF Nothing
<1>3. 0 \in S  BY <1>1, <1>2, UpToSteps
<1>4. ASSUME NEW n \in Nat \cap S PROVE n + 1 \in S
  <2>1. SUFFICES ASSUME n + 1 \in Times PROVE UpTo(Nothing)[n + 1] = 0
    OBVIOUS
  <2>2. n \in Times  BY <1>1, <2>1 DEF Times
  <2>3. UpTo(Nothing)[n + 1] = Nothing[n + 1] + UpTo(Nothing)[n]
    BY <1>2, <2>1, UpToSteps
  <2> QED  BY <1>2, <1>4, <2>1, <2>2, <2>3
<1>5. Nat \subseteq S
  <2> HIDE DEF S
  <2> QED  BY <1>3, <1>4, Induction
<1> QED  BY <1>1, <1>5 DEF Total

\* A cost spent at one instant adds that much.
LEMMA TotalAdds ==
    ASSUME NEW f \in [Times -> Nat], NEW at \in Times, NEW cost \in Nat
    PROVE  Total([f EXCEPT ![at] = f[at] + cost]) = Total(f) + cost
<1> DEFINE g == [f EXCEPT ![at] = f[at] + cost]
           S == {n \in Nat : n \in Times =>
                    /\ UpTo(f)[n] \in Nat
                    /\ UpTo(g)[n] = UpTo(f)[n] + IF at <= n THEN cost ELSE 0}
<1>1. /\ Horizon \in Nat /\ Horizon \in Times /\ 0 \in Times
      /\ at \in Nat /\ at <= Horizon
  BY LimitAssumption DEF Times
<1>2. /\ g \in [Times -> Nat]
      /\ \A t \in Times : f[t] \in Nat /\ g[t] = IF t = at THEN f[t] + cost ELSE f[t]
  OBVIOUS
<1> HIDE DEF g
<1>3. 0 \in S
  <2>1. UpTo(f)[0] = f[0] /\ UpTo(g)[0] = g[0]  BY <1>2, UpToSteps
  <2>2. at <= 0 <=> at = 0  BY <1>1
  <2> QED  BY <1>1, <1>2, <2>1, <2>2
<1>4. ASSUME NEW n \in Nat \cap S PROVE n + 1 \in S
  <2>1. SUFFICES ASSUME n + 1 \in Times
                 PROVE  /\ UpTo(f)[n + 1] \in Nat
                        /\ UpTo(g)[n + 1] = UpTo(f)[n + 1] + IF at <= n + 1 THEN cost ELSE 0
    OBVIOUS
  <2>2. n \in Times  BY <1>1, <2>1 DEF Times
  <2>3. /\ UpTo(f)[n + 1] = f[n + 1] + UpTo(f)[n]
        /\ UpTo(g)[n + 1] = g[n + 1] + UpTo(g)[n]
    BY <1>2, <2>1, UpToSteps
  <2>4. UpTo(f)[n] \in Nat /\ UpTo(g)[n] = UpTo(f)[n] + IF at <= n THEN cost ELSE 0
    BY <1>4, <2>2
  <2>5. f[n + 1] \in Nat /\ g[n + 1] = IF n + 1 = at THEN f[n + 1] + cost ELSE f[n + 1]
    BY <1>2, <2>1
  <2> QED  BY <1>1, <2>3, <2>4, <2>5
<1>5. Nat \subseteq S
  <2> HIDE DEF S
  <2> QED  BY <1>3, <1>4, Induction
<1>6. Horizon \in S  BY <1>1, <1>5
<1>7. UpTo(g)[Horizon] = UpTo(f)[Horizon] + cost  BY <1>1, <1>6
<1> QED  BY <1>7 DEF Total, g

\* What is live of a key adds up to a number.
LEMMA LiveTotal ==
    ASSUME TypeOK, NEW k \in Keys, NEW at \in Int
    PROVE  Total(Live(spent[k], at)) \in Nat
<1>1. Live(spent[k], at) \in [Times -> Nat]
  BY LiveType DEF TypeOK
<1>2. \A t \in Times : Live(spent[k], at)[t] <= Live(spent[k], at)[t]
  BY <1>1
<1> QED  BY <1>1, <1>2, TotalGrows

\* What is left of a list later on is no more.
LEMMA LiveShrinks ==
    ASSUME NEW f \in [Times -> Nat], NEW at \in Int, NEW later \in Int, at <= later
    PROVE  Total(Live(f, later)) <= Total(Live(f, at))
<1>1. Live(f, at) \in [Times -> Nat] /\ Live(f, later) \in [Times -> Nat]
  BY LiveType
<1>2. \A t \in Times : Live(f, later)[t] <= Live(f, at)[t]
  <2>1. TAKE t \in Times
  <2>2. t \in Int /\ f[t] \in Nat /\ Window \in Int  BY LimitAssumption DEF Times
  <2>3. t > later - Window => t > at - Window  BY <2>2
  <2> QED  BY <2>2, <2>3 DEF Live
<1> QED  BY <1>1, <1>2, TotalGrows

-----------------------------------------------------------------------------
(***************************************************************************)
(* Retry-After.                                                            *)
(***************************************************************************)
\* Whoever was told to wait fits at any instant from then on.
ToldOK ==
    \A k \in Keys : WasTold(k) =>
        \A at \in Times : at >= told[k] => Fits(Live(spent[k], at))

\* A smaller list fits where a larger one does.
LEMMA FitsShrinks ==
    ASSUME NEW f \in [Times -> Nat], NEW g \in [Times -> Nat],
           \A t \in Times : f[t] <= g[t], Fits(g)
    PROVE  Fits(f)
<1>1. Total(f) \in Nat /\ Total(f) <= Total(g)  BY TotalGrows
<1>2. Total(g) \in Nat  BY TotalGrows
<1> QED  BY <1>1, <1>2, LimitAssumption DEF Fits

\* A key with no costs fits, at any instant.
LEMMA NothingFits ==
    ASSUME NEW at \in Int
    PROVE  Fits(Live(Nothing, at))
<1>1. Live(Nothing, at) = Nothing  BY DEF Live, Nothing
<1> QED  BY <1>1, TotalOfNothing, LimitAssumption DEF Fits

\* Recording a cost forgets what its key was told, and leaves the other lists
\* as they were or empty.
LEMMA RecordKeepsToldOK ==
    ASSUME TypeOK, ToldOK, NEW k \in Keys, NEW cost \in Nat, Record(k, cost)
    PROVE  ToldOK'
<1>1. SUFFICES ASSUME NEW j \in Keys, told'[j] # NotTold, NEW at \in Times, at >= told'[j]
               PROVE  Fits(Live(spent'[j], at))
  BY DEF ToldOK, WasTold, Live, Fits, Total, UpTo, Times, NotTold
<1>2. j # k /\ told'[j] = told[j]
  BY <1>1 DEF Record, TypeOK
<1>3. spent'[j] = spent[j] \/ spent'[j] = Nothing
  BY <1>2 DEF Record, TypeOK
<1>4. Fits(Live(spent[j], at))
  BY <1>1, <1>2 DEF ToldOK, WasTold
<1>5. at \in Int  BY DEF Times
<1> QED  BY <1>3, <1>4, <1>5, NothingFits

\* A refusal says to return when enough has expired.
LEMMA RefuseKeepsToldOK ==
    ASSUME TypeOK, ToldOK, NEW r \in Requests, NEW k \in Keys, Refuse(r, k)
    PROVE  ToldOK'
<1> DEFINE kept == Live(spent[k], now)
<1>1. /\ spent \in [Keys -> [Times -> Nat]] /\ now \in Int /\ Window \in Int /\ Second \in Int
      /\ Second > 0
  BY LimitAssumption DEF TypeOK, Times
<1>2. kept \in [Times -> Nat]  BY <1>1, LiveType
<1>3. SUFFICES ASSUME NEW j \in Keys, told'[j] # NotTold, NEW at \in Times, at >= told'[j]
               PROVE  Fits(Live(spent'[j], at))
  BY DEF ToldOK, WasTold, Live, Fits, Total, UpTo, Times, NotTold
<1>4. at \in Int  BY DEF Times
<1>5. CASE j # k
  <2>1. told'[j] = told[j] /\ spent'[j] = spent[j]
    BY <1>5 DEF Refuse, TypeOK
  <2> QED  BY <1>3, <2>1 DEF ToldOK, WasTold
<1>6. CASE j = k
  <2>1. PICK t \in Times : MakesRoom(kept, t) /\ told' = [told EXCEPT ![k] = now + Second * WaitSeconds(t)]
    BY DEF Refuse
  <2>2. spent'[k] = kept /\ told'[k] = now + Second * WaitSeconds(t)
    BY <2>1 DEF Refuse, TypeOK
  <2>3. now + Second * WaitSeconds(t) >= t + Window
    <3> DEFINE n == t + Window - now + Second - 1
               s == n \div Second
    <3>1. t \in Int /\ n \in Int  BY <1>1 DEF Times
    <3>2. s \in Int /\ n < Second * s + Second
      BY <1>1, <3>1
    <3>3. Second * s \in Int  BY <1>1, <3>2
    <3>4. CASE s < 1
      <4>1. WaitSeconds(t) = 1  BY <3>4 DEF WaitSeconds
      <4>2. Second * s <= 0  BY <1>1, <3>2, <3>4
      <4> QED  BY <1>1, <3>1, <3>2, <3>3, <4>1, <4>2
    <3>5. CASE ~(s < 1)
      <4>1. WaitSeconds(t) = s  BY <3>5 DEF WaitSeconds
      <4> QED  BY <1>1, <3>1, <3>2, <3>3, <4>1
    <3> QED  BY <3>4, <3>5
  <2>4. at >= t + Window
    <3>1. t + Window \in Int /\ now + Second * WaitSeconds(t) \in Int
      BY <1>1, WaitBounded DEF Times
    <3> QED  BY <1>3, <1>4, <1>6, <2>2, <2>3, <3>1
  <2>5. Fits(After(kept, t)) /\ After(kept, t) \in [Times -> Nat]
    BY <1>2, <2>1 DEF MakesRoom, After
  <2>6. Live(kept, at) \in [Times -> Nat]
    BY <1>2, <1>4, LiveType
  <2>7. \A s \in Times : Live(kept, at)[s] <= After(kept, t)[s]
    <3>1. TAKE s \in Times
    <3>2. s \in Int /\ t \in Int /\ kept[s] \in Nat  BY <1>2, LimitAssumption DEF Times
    <3>3. s > at - Window => s > t  BY <1>1, <1>4, <2>4, <3>2
    <3> HIDE DEF kept
    <3> QED  BY <3>2, <3>3 DEF Live, After
  <2> QED  BY <1>6, <2>2, <2>5, <2>6, <2>7, FitsShrinks
<1> QED  BY <1>5, <1>6

\* A client that obeys Retry-After is not refused again, for any budget, window,
\* length of a second, sizes, and wherever the clock went.
THEOREM ObeyingIsEnough == Spec => []RetryAfterIsEnough
<1>1. Init => ToldOK
  BY DEF Init, ToldOK, WasTold
<1>2. TypeOK /\ ToldOK /\ [Next]_vars => ToldOK'
  <2> SUFFICES ASSUME TypeOK, ToldOK, [Next]_vars PROVE ToldOK'  OBVIOUS
  <2>1. ASSUME UNCHANGED <<spent, told>> PROVE ToldOK'
    BY <2>1 DEF ToldOK, WasTold, NotTold, Live, Fits, Total, UpTo, Times
  <2>2. CASE UNCHANGED vars
    BY <2>1, <2>2 DEF vars
  <2>3. ASSUME NEW r \in Requests, NEW k \in Keys, Admit(r, k) PROVE ToldOK'
    BY <2>3, LimitAssumption, RecordKeepsToldOK DEF Admit
  <2>4. ASSUME NEW r \in Requests, NEW k \in Keys, Refuse(r, k) PROVE ToldOK'
    BY <2>4, RefuseKeepsToldOK
  <2>5. ASSUME NEW r \in Requests, NEW size \in Sizes, Serve(r, size) PROVE ToldOK'
    <3>1. CASE UNCHANGED <<spent, tracked, told>>  BY <2>1, <3>1
    <3>2. CASE Record(pc[r], TopUp(size))
      BY <2>5, <3>2, TopUpType, RecordKeepsToldOK DEF Serve
    <3> QED  BY <2>5, <3>1, <3>2 DEF Serve
  <2>6. ASSUME NEW r \in Requests, AnswerUncharged(r) PROVE ToldOK'
    BY <2>1, <2>6 DEF AnswerUncharged
  <2>7. CASE Tick  BY <2>1, <2>7 DEF Tick
  <2>8. CASE StepBack  BY <2>1, <2>8 DEF StepBack
  <2> QED  BY <2>2, <2>3, <2>4, <2>5, <2>6, <2>7, <2>8 DEF Next
<1>3. TypeOK /\ ToldOK => RetryAfterIsEnough
  BY DEF TypeOK, ToldOK, RetryAfterIsEnough, FitsNow
<1> QED  BY <1>1, <1>2, <1>3, TypeSafe, PTL DEF Spec

-----------------------------------------------------------------------------
(***************************************************************************)
(* The overdraft.                                                          *)
(***************************************************************************)
Largest(most) == \A size \in Sizes : size <= most

UnderWay(k) == {r \in Requests : pc[r] = k}

\* A key's window, and what its requests under way may still top it up by.
DueOK ==
    back = 0 => \A most \in Sizes : Largest(most) =>
        \A k \in Keys :
            Total(Live(spent[k], now)) + Cardinality(UnderWay(k)) * TopUp(most)
                <= Budget + Cardinality(Requests) * TopUp(most)

\* As many times as much.
LEMMA Multiples ==
    ASSUME NEW m \in Nat, NEW n \in Nat, NEW u \in Nat, m <= n
    PROVE  /\ m * u \in Nat /\ m * u <= n * u
           /\ m # 0 => m * u = (m - 1) * u + u
<1>1. m * u \in Nat /\ n * u \in Nat /\ (m - 1) * u \in Int  OBVIOUS
<1>2. m * u <= n * u
  <2>1. PICK d \in Nat : n = m + d  BY n - m \in Nat
  <2>2. n * u = m * u + d * u /\ d * u \in Nat  BY <2>1
  <2> QED  BY <1>1, <2>2
<1>3. m * u = (m - 1) * u + u  OBVIOUS
<1> QED  BY <1>1, <1>2, <1>3
\* The requests under way are finitely many.
LEMMA UnderWayType ==
    ASSUME NEW k \in Keys
    PROVE  /\ IsFiniteSet(UnderWay(k)) /\ Cardinality(UnderWay(k)) \in Nat
           /\ Cardinality(Requests) \in Nat
           /\ Cardinality(UnderWay(k)) <= Cardinality(Requests)
<1>1. UnderWay(k) \subseteq Requests  BY DEF UnderWay
<1> QED  BY <1>1, RequestAssumption, FS_Subset, FS_CardinalityType

\* What is recorded adds its cost to its key's window, and to no other.
LEMMA RecordAdds ==
    ASSUME TypeOK, NEW k \in Keys, NEW cost \in Nat, Record(k, cost), now' = now, NEW j \in Keys
    PROVE  Total(Live(spent'[j], now))
             = Total(Live(spent[j], now)) + IF j = k THEN cost ELSE 0
<1>1. Kept' = [Kept EXCEPT ![k] = [Kept[k] EXCEPT ![now] = Kept[k][now] + cost]]
  BY RecordSpends
<1>2. Kept'[j] = Live(spent'[j], now)
  BY DEF Kept, Live, Times
<1>3. Kept[j] = Live(spent[j], now)
  BY DEF Kept
<1>4. Kept[j] \in [Times -> Nat] /\ now \in Times
  BY <1>3, LiveType DEF TypeOK, Times
<1>5. Total(Kept[j]) \in Nat
  BY <1>4, TotalGrows
<1>6. CASE j = k
  <2>1. Kept'[j] = [Kept[j] EXCEPT ![now] = Kept[j][now] + cost]
    BY <1>1, <1>6 DEF Kept
  <2> QED  BY <1>2, <1>3, <1>4, <1>6, <2>1, TotalAdds
<1>7. CASE j # k
  <2>1. Kept'[j] = Kept[j]
    BY <1>1, <1>7 DEF Kept
  <2> QED  BY <1>2, <1>3, <1>5, <1>7, <2>1
<1> QED  BY <1>6, <1>7

\* An admission leaves what the requests may still serve above it.
LEMMA AdmitKeepsDueOK ==
    ASSUME TypeOK, DueOK, NEW r \in Requests, NEW k \in Keys, Admit(r, k)
    PROVE  DueOK'
<1>1. SUFFICES ASSUME back = 0, NEW most \in Sizes, Largest(most), NEW j \in Keys
               PROVE  Total(Live(spent'[j], now)) + Cardinality(UnderWay(j)') * TopUp(most)
                        <= Budget + Cardinality(Requests) * TopUp(most)
  BY DEF Admit, DueOK, Largest, TopUp, Live, Times, Total, UpTo, UnderWay
<1>2. Total(Live(spent'[j], now)) = Total(Live(spent[j], now)) + IF j = k THEN Floor ELSE 0
  BY RecordAdds, LimitAssumption DEF Admit
<1>3. Total(Live(spent[j], now)) \in Nat
  BY LiveTotal DEF TypeOK, Times
<1>4. TopUp(most) \in Nat /\ Floor \in Nat /\ Budget \in Nat
  BY TopUpType, LimitAssumption
<1>5. CASE j # k
  <2>1. UnderWay(j)' = UnderWay(j)
    BY <1>5, KeyAssumption DEF UnderWay, Admit, Asks, TypeOK
  <2> QED  BY <1>1, <1>2, <1>3, <1>5, <2>1 DEF DueOK
<1>6. CASE j = k
  <2>1. Total(Live(spent[k], now)) + Floor <= Budget
    BY DEF Admit, FitsNow, Fits
  <2>2. /\ Cardinality(UnderWay(j)') \in Nat /\ Cardinality(Requests) \in Nat
        /\ Cardinality(UnderWay(j)') <= Cardinality(Requests)
    <3>1. UnderWay(j)' \subseteq Requests  BY DEF UnderWay
    <3> QED  BY <3>1, RequestAssumption, FS_Subset, FS_CardinalityType
  <2>3. /\ Cardinality(UnderWay(j)') * TopUp(most) \in Nat
        /\ Cardinality(Requests) * TopUp(most) \in Nat
        /\ Cardinality(UnderWay(j)') * TopUp(most) <= Cardinality(Requests) * TopUp(most)
    BY <1>4, <2>2, Multiples
  <2> QED  BY <1>2, <1>3, <1>4, <1>6, <2>1, <2>3
<1> QED  BY <1>5, <1>6

\* An answered request tops up by no more than it was allowed for.
LEMMA AnswerKeepsDueOK ==
    ASSUME TypeOK, DueOK, NEW r \in Requests, pc[r] \in Keys, pc' = [pc EXCEPT ![r] = "idle"],
           UNCHANGED <<now, back>>,
           NEW cost \in Nat, \A size \in Sizes : Largest(size) => cost <= TopUp(size),
           \A j \in Keys : Total(Live(spent'[j], now))
                             = Total(Live(spent[j], now)) + IF j = pc[r] THEN cost ELSE 0
    PROVE  DueOK'
<1>1. SUFFICES ASSUME back = 0, NEW most \in Sizes, Largest(most), NEW j \in Keys
               PROVE  Total(Live(spent'[j], now)) + Cardinality(UnderWay(j)') * TopUp(most)
                        <= Budget + Cardinality(Requests) * TopUp(most)
  BY DEF DueOK, Largest, TopUp, Live, Times, Total, UpTo, UnderWay
<1>2. Total(Live(spent[j], now)) \in Nat
  BY LiveTotal DEF TypeOK, Times
<1>3. Total(Live(spent[j], now)) + Cardinality(UnderWay(j)) * TopUp(most)
        <= Budget + Cardinality(Requests) * TopUp(most)
  BY <1>1 DEF DueOK
<1>4. TopUp(most) \in Nat /\ cost <= TopUp(most)
  BY <1>1, TopUpType
<1>5. CASE j # pc[r]
  <2>1. UnderWay(j)' = UnderWay(j)
    BY <1>5, KeyAssumption DEF UnderWay, TypeOK
  <2> QED  BY <1>2, <1>3, <1>5, <2>1
<1>6. CASE j = pc[r]
  <2>1. UnderWay(j)' = UnderWay(j) \ {r} /\ r \in UnderWay(j)
    BY <1>6, KeyAssumption DEF UnderWay, TypeOK
  <2>2. Cardinality(UnderWay(j)') = Cardinality(UnderWay(j)) - 1
    BY <2>1, UnderWayType, FS_RemoveElement
  <2>3. UnderWay(j) # {}  BY <2>1
  <2>4. Cardinality(UnderWay(j)) # 0
    BY <2>3, UnderWayType, FS_EmptySet
  <2>5. /\ Cardinality(UnderWay(j)) * TopUp(most)
             = (Cardinality(UnderWay(j)) - 1) * TopUp(most) + TopUp(most)
        /\ Cardinality(UnderWay(j)) * TopUp(most) \in Nat
        /\ (Cardinality(UnderWay(j)) - 1) * TopUp(most) \in Int
        /\ Cardinality(Requests) * TopUp(most) \in Nat
    BY <1>4, <2>4, UnderWayType, Multiples
  <2>6. Total(Live(spent'[j], now)) = Total(Live(spent[j], now)) + cost
    BY <1>6
  <2> QED  BY <1>2, <1>3, <1>4, <2>2, <2>5, <2>6, LimitAssumption
<1> QED  BY <1>5, <1>6

\* However requests of one key overlap, a window holds no more than the budget
\* and what the requests under way may serve above their admission.
THEOREM OverdraftIsBounded == Spec => []OverdraftBounded
<1>1. Init => DueOK
  <2>1. SUFFICES ASSUME Init, NEW most \in Sizes, NEW k \in Keys
                 PROVE  Total(Live(spent[k], now)) + Cardinality(UnderWay(k)) * TopUp(most)
                          <= Budget + Cardinality(Requests) * TopUp(most)
    BY DEF DueOK
  <2>2. Live(spent[k], now) = Nothing  BY <2>1 DEF Init, Live, Nothing
  <2>3. UnderWay(k) = {}  BY <2>1, KeyAssumption DEF Init, UnderWay
  <2>4. Cardinality(UnderWay(k)) = 0  BY <2>3, FS_EmptySet
  <2>5. 0 * TopUp(most) = 0 /\ Cardinality(Requests) * TopUp(most) \in Nat
    BY TopUpType, UnderWayType, Multiples
  <2> QED  BY <2>2, <2>4, <2>5, TotalOfNothing, LimitAssumption
<1>2. TypeOK /\ DueOK /\ [Next]_vars => DueOK'
  <2> SUFFICES ASSUME TypeOK, DueOK, [Next]_vars PROVE DueOK'  OBVIOUS
  <2>1. spent \in [Keys -> [Times -> Nat]] /\ now \in Int /\ pc \in [Requests -> Keys \cup {"idle", "refused"}]
    BY DEF TypeOK, Times
  <2>2. CASE UNCHANGED vars
    BY <2>2 DEF vars, DueOK, Largest, TopUp, Live, Times, Total, UpTo, UnderWay
  <2>3. ASSUME NEW r \in Requests, NEW k \in Keys, Admit(r, k) PROVE DueOK'
    BY <2>3, AdmitKeepsDueOK
  <2>4. ASSUME NEW r \in Requests, NEW k \in Keys, Refuse(r, k) PROVE DueOK'
    <3>1. \A j \in Keys : Live(spent'[j], now) = Live(spent[j], now)
      <4>1. spent' = [spent EXCEPT ![k] = Live(spent[k], now)]  BY <2>4 DEF Refuse
      <4> QED  BY <2>1, <4>1, LivePrunes
    <3>2. \A j \in Keys : UnderWay(j)' = UnderWay(j)
      BY <2>1, <2>4, KeyAssumption DEF Refuse, Asks, UnderWay
    <3>3. \A j \in Keys : Live(spent[j], now)' = Live(spent[j], now)
      BY <2>4, <3>1 DEF Refuse, Live, Times
    <3>4. \A j \in Keys : Total(Live(spent[j], now))' = Total(Live(spent[j], now))
      BY <3>3 DEF Total, UpTo, Times
    <3> QED  BY <2>4, <3>2, <3>4 DEF Refuse, DueOK, Largest, TopUp
  <2>5. ASSUME NEW r \in Requests, NEW size \in Sizes, Serve(r, size) PROVE DueOK'
    <3>1. \A most \in Sizes : Largest(most) => TopUp(size) <= TopUp(most)
      BY LimitAssumption DEF Largest, TopUp
    <3>2. \A j \in Keys : Total(Live(spent'[j], now))
                            = Total(Live(spent[j], now)) + IF j = pc[r] THEN TopUp(size) ELSE 0
      <4>1. CASE TopUp(size) = 0 /\ UNCHANGED <<spent, tracked, told>>
        <5>1. \A j \in Keys : Total(Live(spent[j], now)) \in Nat
          BY <2>1, LiveTotal
        <5> QED  BY <4>1, <5>1
      <4>2. CASE Record(pc[r], TopUp(size))
        BY <2>5, <4>2, TopUpType, RecordAdds DEF Serve
      <4> QED  BY <2>5, <4>1, <4>2 DEF Serve
    <3> QED  BY <2>5, <3>1, <3>2, TopUpType, AnswerKeepsDueOK DEF Serve
  <2>6. ASSUME NEW r \in Requests, AnswerUncharged(r) PROVE DueOK'
    <3>1. \A most \in Sizes : 0 <= TopUp(most)
      BY TopUpType
    <3>2. \A j \in Keys : Total(Live(spent'[j], now))
                            = Total(Live(spent[j], now)) + IF j = pc[r] THEN 0 ELSE 0
      <4>1. \A j \in Keys : Total(Live(spent[j], now)) \in Nat
        BY <2>1, LiveTotal
      <4> QED  BY <2>6, <4>1 DEF AnswerUncharged
    <3> QED  BY <2>6, <3>1, <3>2, AnswerKeepsDueOK DEF AnswerUncharged
  <2>7. CASE Tick
    <3>1. SUFFICES ASSUME back = 0, NEW most \in Sizes, Largest(most), NEW k \in Keys
                   PROVE  Total(Live(spent[k], now + 1)) + Cardinality(UnderWay(k)) * TopUp(most)
                            <= Budget + Cardinality(Requests) * TopUp(most)
      BY <2>7 DEF Tick, DueOK, Largest, TopUp, Live, Times, Total, UpTo, UnderWay
    <3>2. Total(Live(spent[k], now + 1)) <= Total(Live(spent[k], now))
      BY <2>1, LiveShrinks
    <3>3. Total(Live(spent[k], now + 1)) \in Nat /\ Total(Live(spent[k], now)) \in Nat
      BY <2>1, LiveTotal
    <3>4. Total(Live(spent[k], now)) + Cardinality(UnderWay(k)) * TopUp(most)
            <= Budget + Cardinality(Requests) * TopUp(most)
      BY <3>1 DEF DueOK
    <3>5. /\ Cardinality(UnderWay(k)) * TopUp(most) \in Nat
          /\ Cardinality(Requests) * TopUp(most) \in Nat
      BY UnderWayType, TopUpType, Multiples
    <3> QED  BY <3>2, <3>3, <3>4, <3>5, LimitAssumption
  <2>8. CASE StepBack
    <3>1. back' # 0  BY <2>8 DEF StepBack, TypeOK
    <3> QED  BY <3>1 DEF DueOK
  <2> QED  BY <2>2, <2>3, <2>4, <2>5, <2>6, <2>7, <2>8 DEF Next
<1>3. TypeOK /\ DueOK => OverdraftBounded
  <2>1. SUFFICES ASSUME TypeOK, DueOK, back = 0, NEW most \in Sizes, Largest(most), NEW k \in Keys
                 PROVE  Total(Live(spent[k], now)) <= Budget + Cardinality(Requests) * TopUp(most)
    BY DEF OverdraftBounded, Largest
  <2>2. Total(Live(spent[k], now)) + Cardinality(UnderWay(k)) * TopUp(most)
          <= Budget + Cardinality(Requests) * TopUp(most)
    BY <2>1 DEF DueOK
  <2>3. Total(Live(spent[k], now)) \in Nat
    BY <2>1, LiveTotal DEF TypeOK, Times
  <2>4. /\ Cardinality(UnderWay(k)) * TopUp(most) \in Nat
        /\ Cardinality(Requests) * TopUp(most) \in Nat
    BY UnderWayType, TopUpType, Multiples
  <2> QED  BY <2>2, <2>3, <2>4, LimitAssumption
<1> QED  BY <1>1, <1>2, <1>3, TypeSafe, PTL DEF Spec

-----------------------------------------------------------------------------
(***************************************************************************)
(* Encoded and decoded lengths (Encoding).                                 *)
(***************************************************************************)
\* Encoding is increasing, so bounds carry over in both directions.
LEMMA EncodingIncreases ==
    ASSUME NEW a \in Nat, NEW b \in Nat
    PROVE  EncodedLength(a) <= EncodedLength(b) <=> a <= b
BY Z3 DEF EncodedLength

\* What encodeBase64url writes has whole bytes, and those it was given.
LEMMA EncodingIsWhole ==
    ASSUME NEW n \in Nat
    PROVE  /\ EncodedLength(n) \in Nat
           /\ Whole(EncodedLength(n))
           /\ DecodedLength(EncodedLength(n)) = n
BY Z3 DEF EncodedLength, DecodedLength, Whole

\* A length with whole bytes is the encoded length of the bytes it decodes to.
LEMMA DecodingIsExact ==
    ASSUME NEW c \in Nat, Whole(c)
    PROVE  DecodedLength(c) \in Nat /\ EncodedLength(DecodedLength(c)) = c
BY Z3 DEF EncodedLength, DecodedLength, Whole

\* A schema's bounds in characters, written as the encoded lengths of the
\* decoder's bounds in bytes, admit exactly the canonical texts the decoder
\* decodes: neither side refuses what the other one lets through.
THEOREM SchemaAgreesWithDecoder ==
    ASSUME NEW least \in Nat, NEW most \in Nat, NEW text \in Text,
           text.spelling = "canonical", Whole(text.chars)
    PROVE  Admits(text, EncodedLength(least), EncodedLength(most)) <=> Decodes(text, least, most)
<1> DEFINE n == DecodedLength(text.chars)
<1>1. text.chars \in Nat
  BY DEF Text
<1>2. n \in Nat /\ EncodedLength(n) = text.chars
  BY <1>1, DecodingIsExact
<1>3. text.chars >= EncodedLength(least) <=> n >= least
  <2>1. EncodedLength(least) <= EncodedLength(n) <=> least <= n
    BY <1>2, EncodingIncreases
  <2> QED BY <2>1, <1>1, <1>2, EncodingIsWhole
<1>4. text.chars <= EncodedLength(most) <=> n <= most
  BY <1>2, EncodingIncreases
<1> QED BY <1>3, <1>4 DEF Admits, Decodes

\* Every value this code encodes within the decoder's bounds is accepted on
\* both sides: the client's own bodies are never refused for their lengths.
THEOREM EncodedIsAccepted ==
    ASSUME NEW least \in Nat, NEW most \in Nat, NEW n \in Nat, n > 0, least <= n, n <= most
    PROVE  /\ Admits(Encoded(n), EncodedLength(least), EncodedLength(most))
           /\ Decodes(Encoded(n), least, most)
<1>1. Encoded(n) \in Text /\ Encoded(n).spelling = "canonical" /\ Encoded(n).chars = EncodedLength(n)
  BY EncodingIsWhole DEF Encoded, Text, Spelling
<1>2. EncodedLength(n) > 0
  BY Z3 DEF EncodedLength
<1>3. Decodes(Encoded(n), least, most)
  BY <1>1, <1>2, EncodingIsWhole DEF Decodes
<1> QED BY <1>1, <1>3, EncodingIsWhole, SchemaAgreesWithDecoder

-----------------------------------------------------------------------------
(***************************************************************************)
(* The contract (Contract).                                                *)
(***************************************************************************)

\* The routes, and what is asked of each.
AddressRoutes == {"signup", "loginParams", "login"}
AlbumNamed == {"album", "metadata", "accessLog", "entries", "createMedia", "createRecipient"}
MediaNamed == {"mediaStatus", "uploadAsset", "uploadThumbnail", "removeMedia", "thumbnail", "asset"}

\* The server's table is the five tables it is made of: no route is in two of them.
LEMMA Table ==
    /\ \A r \in DOMAIN CredentialRoutes : Server[r] = CredentialRoutes[r]
    /\ \A r \in DOMAIN AlbumRoutes : Server[r] = AlbumRoutes[r]
    /\ \A r \in DOMAIN MediaRoutes : Server[r] = MediaRoutes[r]
    /\ \A r \in DOMAIN RecipientRoutes : Server[r] = RecipientRoutes[r]
    /\ \A r \in DOMAIN DeliveryRoutes : Server[r] = DeliveryRoutes[r]
<1>1. /\ DOMAIN CredentialRoutes = {"signup", "loginParams", "login", "ownerKey", "logout", "logoutAll"}
      /\ DOMAIN AlbumRoutes = {"createAlbum", "albums", "album", "metadata", "accessLog", "entries"}
      /\ DOMAIN MediaRoutes = {"createMedia", "mediaStatus", "uploadAsset", "uploadThumbnail", "removeMedia"}
      /\ DOMAIN RecipientRoutes = {"createRecipient", "revoke", "key", "recipient"}
      /\ DOMAIN DeliveryRoutes = {"thumbnail", "asset"}
  BY DEF CredentialRoutes, AlbumRoutes, MediaRoutes, RecipientRoutes, DeliveryRoutes
<1>2. \A r \in Routes :
         Server[r] = CASE r \in DOMAIN CredentialRoutes -> CredentialRoutes[r]
                       [] r \in DOMAIN AlbumRoutes -> AlbumRoutes[r]
                       [] r \in DOMAIN MediaRoutes -> MediaRoutes[r]
                       [] r \in DOMAIN RecipientRoutes -> RecipientRoutes[r]
                       [] OTHER -> DeliveryRoutes[r]
  BY DEF Server
<1>3. \A r \in DOMAIN CredentialRoutes : Server[r] = CredentialRoutes[r]
  BY <1>1, <1>2 DEF Routes
<1>4. \A r \in DOMAIN AlbumRoutes : Server[r] = AlbumRoutes[r]
  BY <1>1, <1>2 DEF Routes
<1>5. \A r \in DOMAIN MediaRoutes : Server[r] = MediaRoutes[r]
  BY <1>1, <1>2 DEF Routes
<1>6. \A r \in DOMAIN RecipientRoutes : Server[r] = RecipientRoutes[r]
  BY <1>1, <1>2 DEF Routes
<1>7. \A r \in DOMAIN DeliveryRoutes : Server[r] = DeliveryRoutes[r]
  BY <1>1, <1>2 DEF Routes
<1> QED  BY <1>3, <1>4, <1>5, <1>6, <1>7

\* What the table says of the routes, by what they are about.
LEMMA Guards ==
    ASSUME NEW r \in Routes
    PROVE  /\ Server[r].guard = "address" <=> r \in AddressRoutes
           /\ Server[r].names = "album" <=> r \in AlbumNamed
           /\ r \in MediaNamed => Server[r].names = "media"
           /\ r = "revoke" => Server[r].names = "recipient"
           /\ r \notin AlbumNamed \cup MediaNamed \cup {"revoke"} => Server[r].names = "nothing"
           /\ Server[r].charges <=> r \in ChargeBytes
           /\ Server[r].makes = TRUE \/ Server[r].makes = FALSE
           /\ Server[r].takes = "stream" <=> r \in {"uploadAsset", "uploadThumbnail"}
<1> USE DEF AddressRoutes, AlbumNamed, MediaNamed, ChargeBytes, Line
<1>1. CASE r \in DOMAIN CredentialRoutes
  <2>1. r \in {"signup", "loginParams", "login", "ownerKey", "logout", "logoutAll"}
    BY <1>1 DEF CredentialRoutes
  <2>2. Server[r] = CredentialRoutes[r]  BY <1>1, Table
  <2>3. CASE r \in {"signup", "loginParams", "login"}
    BY <2>2, <2>3 DEF CredentialRoutes
  <2>4. CASE r \in {"ownerKey", "logout", "logoutAll"}
    BY <2>2, <2>4 DEF CredentialRoutes
  <2> QED  BY <2>1, <2>3, <2>4
<1>2. CASE r \in DOMAIN AlbumRoutes
  BY <1>2, Table DEF AlbumRoutes
<1>3. CASE r \in DOMAIN MediaRoutes
  BY <1>3, Table DEF MediaRoutes
<1>4. CASE r \in DOMAIN RecipientRoutes
  BY <1>4, Table DEF RecipientRoutes
<1>5. CASE r \in DOMAIN DeliveryRoutes
  BY <1>5, Table DEF DeliveryRoutes
<1> QED  BY <1>1, <1>2, <1>3, <1>4, <1>5 DEF Routes

-----------------------------------------------------------------------------
\* What the server may have to say, and what of it a route is about.
AnyWorld ==
    [token : {"malformed", "unknown", "owner", "recipient", "revoked"}, spent : BOOLEAN,
     target : {"own", "foreign", "absent"}, status : {"processing", "ready", "failed"},
     taken : BOOLEAN, account : {"uninvited", "none", "known"}, proof : BOOLEAN,
     fault : {"none", "database", "missing", "removed", "store", "cut"}, size : Nat,
     kind : Kinds, nulls : BOOLEAN, lost : BOOLEAN]

OfRoute(r, w) ==
    /\ w \in AnyWorld
    /\ Server[r].names = "nothing" => w.target = "own"
    /\ r \notin ChargeBytes => w.size = 0

\* The errors a request may meet before its token pays, and after.
EarlyErrors ==
    {None, Framework(400), Framework(413), Framework(415), Invalid, Api("UNAUTHENTICATED"),
     Api("RATE_LIMITED"), Fault}

LateErrors ==
    {Application(what) : what \in DOMAIN ApplicationCode}
        \cup {Api(what) : what \in {"LENGTH_REQUIRED", "VALIDATION_FAILED", "PAYLOAD_TOO_LARGE",
                                     "RANGE_NOT_SATISFIABLE"}}
        \cup {None, Fault}

\* Codes that are only given before, and only after.
Unpaid == {"UNAUTHENTICATED", "RATE_LIMITED", "UNSUPPORTED_MEDIA_TYPE"}
PaidFor == {"NOT_FOUND", "CONFLICT", "ACCESS_REVOKED", "RANGE_NOT_SATISFIABLE"}

Late(q, w) == Decoded(q) %% Unread(q.path) %% Decided(q, w) %% Sent(q)

\* Of two steps that may throw, the first one's error is the one that is thrown.
LEMMA FirstThrows ==
    ASSUME NEW S, NEW a \in S, NEW b \in S
    PROVE  /\ a %% b \in S
           /\ a.from # "nobody" => a %% b = a
           /\ a.from = "nobody" => a %% b = b
BY DEF %%

\* What the framework, the schema and the token may object to.
LEMMA BeforeErrors ==
    ASSUME NEW q, NEW w
    PROVE  Before(q, w) \in EarlyErrors
<1>1. Parsed(q) \in EarlyErrors
  BY DEF Parsed, EarlyErrors
<1>2. Validated(q) \in EarlyErrors
  BY DEF Validated, EarlyErrors
<1>3. Admitted(q, w) \in EarlyErrors
  BY DEF Admitted, Afforded, EarlyErrors
<1>4. Parsed(q) %% Validated(q) \in EarlyErrors
  BY <1>1, <1>2, FirstThrows
<1> QED  BY <1>3, <1>4, FirstThrows DEF Before

\* What is thrown is what came before the payment, or else what came after it.
LEMMA ThrownIs ==
    ASSUME NEW q, NEW w
    PROVE  /\ Before(q, w).from # "nobody" => Thrown(q, w) = Before(q, w)
           /\ Before(q, w).from = "nobody" => Thrown(q, w) = Late(q, w)
<1>1. CASE Before(q, w).from # "nobody"  BY <1>1 DEF Thrown, %%
<1>2. CASE Before(q, w).from = "nobody"  BY <1>2 DEF Thrown, Late, %%
<1> QED  BY <1>1, <1>2

\* Where each kind of error comes from.
LEMMA BareErrors ==
    /\ None.from = "nobody" /\ Invalid.from = "validation" /\ Fault.from = "other"
    /\ \A what : /\ Application(what).from = "application" /\ Application(what).what = what
                 /\ Api(what).from = "api" /\ Api(what).what = what
                 /\ Framework(what).from = "framework" /\ Framework(what).what = what
BY DEF None, Invalid, Fault, Application, Api, Framework

\* An error met before the payment is never told with a code of after it.
LEMMA EarlyCodes ==
    ASSUME NEW e \in EarlyErrors, e.from # "nobody"
    PROVE  errorEnvelope(e) \notin PaidFor \cup {Ok}
<1>1. CASE e \in {Framework(400), Framework(413), Framework(415)}
  BY <1>1, BareErrors DEF errorEnvelope, FrameworkCode, PaidFor, Ok
<1>2. CASE e \in {Invalid, Fault}
  BY <1>2, BareErrors DEF errorEnvelope, PaidFor, Ok
<1>3. CASE e \in {Api("UNAUTHENTICATED"), Api("RATE_LIMITED")}
  BY <1>3, BareErrors DEF errorEnvelope, PaidFor, Ok
<1> QED  BY <1>1, <1>2, <1>3, BareErrors DEF EarlyErrors

\* An error met after the payment is never told with a code of before it.
LEMMA LateCodes ==
    ASSUME NEW e \in LateErrors, e.from # "nobody"
    PROVE  errorEnvelope(e) \notin Unpaid \cup {Ok}
<1>1. ASSUME NEW what \in DOMAIN ApplicationCode, e = Application(what)
      PROVE  errorEnvelope(e) \notin Unpaid \cup {Ok}
  <2>1. errorEnvelope(e) = ApplicationCode[what]
    BY <1>1, BareErrors DEF errorEnvelope
  <2>2. ApplicationCode[what] \notin Unpaid \cup {Ok}
    BY <1>1 DEF ApplicationCode, Unpaid, Ok
  <2> QED  BY <2>1, <2>2
<1>2. ASSUME NEW what \in {"LENGTH_REQUIRED", "VALIDATION_FAILED", "PAYLOAD_TOO_LARGE",
                           "RANGE_NOT_SATISFIABLE"}, e = Api(what)
      PROVE  errorEnvelope(e) \notin Unpaid \cup {Ok}
  BY <1>2, BareErrors DEF errorEnvelope, Unpaid, Ok
<1>3. CASE e = Fault
  BY <1>3, BareErrors DEF errorEnvelope, Unpaid, Ok
<1> QED  BY <1>1, <1>2, <1>3, BareErrors DEF LateErrors

\* The errors the use cases throw are among those met after the payment.
LEMMA ApplicationErrors ==
    /\ None \in LateErrors /\ Fault \in LateErrors
    /\ \A what \in {"EMPTY_ADDRESS", "INVALID_CREDENTIALS", "DUPLICATE_ADDRESS", "DUPLICATE_ALBUM_ID",
                     "DUPLICATE_MEDIA_ID", "ALBUM_NOT_FOUND", "MEDIA_NOT_FOUND", "MEDIA_ALREADY_READY",
                     "ALBUM_ACCESS_REVOKED", "DUPLICATE_RECIPIENT", "RECIPIENT_NOT_FOUND",
                     "SIGNUP_NOT_ALLOWED"} : Application(what) \in LateErrors
    /\ \A what \in {"LENGTH_REQUIRED", "VALIDATION_FAILED", "PAYLOAD_TOO_LARGE",
                     "RANGE_NOT_SATISFIABLE"} : Api(what) \in LateErrors
<1>1. DOMAIN ApplicationCode =
        {"EMPTY_ADDRESS", "INVALID_CREDENTIALS", "DUPLICATE_ADDRESS", "DUPLICATE_ALBUM_ID",
         "DUPLICATE_MEDIA_ID", "ALBUM_NOT_FOUND", "MEDIA_NOT_FOUND", "MEDIA_ALREADY_READY",
         "ALBUM_ACCESS_REVOKED", "DUPLICATE_RECIPIENT", "RECIPIENT_NOT_FOUND", "SIGNUP_NOT_ALLOWED"}
  BY DEF ApplicationCode
<1> QED  BY <1>1 DEF LateErrors

\* So are those of finding an album or a photo one may see.
LEMMA ScopeErrors ==
    ASSUME NEW w
    PROVE  /\ resolveAlbumScope(w) \in LateErrors
           /\ FindMedia(w) \in LateErrors /\ OwnMedia(w) \in LateErrors
           /\ Revoked(w) \in LateErrors /\ Query(w) \in LateErrors
           /\ \A value : Unread(value) \in LateErrors
BY ApplicationErrors DEF resolveAlbumScope, FindMedia, OwnMedia, Revoked, Query, Unread

\* Two alternatives, the first of them to throw.
LEMMA Unlesses ==
    ASSUME NEW taken,
           NEW what \in {"DUPLICATE_ADDRESS", "INVALID_CREDENTIALS", "DUPLICATE_ALBUM_ID", "DUPLICATE_MEDIA_ID",
                         "DUPLICATE_RECIPIENT", "MEDIA_ALREADY_READY", "MEDIA_NOT_FOUND"}
    PROVE  Unless(taken, what) \in LateErrors
BY ApplicationErrors DEF Unless

\* Whatever a route decides is an error of after the payment, or none.
LEMMA DecidedErrors ==
    ASSUME NEW q, q.route \in Routes, NEW w
    PROVE  Decided(q, w) \in LateErrors
<1>1. Signup(q, w) \in LateErrors
  <2>1. (IF \E f \in Integral : q.body[f] = "over" THEN Fault ELSE None) \in LateErrors
    BY ApplicationErrors
  <2>2. Query(w) %% Unless(w.account = "known", "DUPLICATE_ADDRESS") \in LateErrors
    BY ScopeErrors, Unlesses, FirstThrows
  <2>3. Query(w) %% Unless(w.account = "known", "DUPLICATE_ADDRESS")
        %% (IF \E f \in Integral : q.body[f] = "over" THEN Fault ELSE None) \in LateErrors
    BY <2>1, <2>2, FirstThrows
  <2> QED  BY <2>3, ApplicationErrors DEF Signup
<1>2. Login(q, w) \in LateErrors /\ LoginParams(q, w) \in LateErrors
  <2>1. Unread(q.body["email"]) %% Query(w) \in LateErrors
    BY ScopeErrors, FirstThrows
  <2>2. Unread(q.body["email"]) %% Query(w)
          %% Unless(w.account # "known" \/ ~w.proof, "INVALID_CREDENTIALS") \in LateErrors
    BY <2>1, Unlesses, FirstThrows
  <2> QED  BY <2>1, <2>2, ApplicationErrors DEF Login, LoginParams
<1>3. /\ resolveAlbumScope(w) %% Unread(q.body["id"]) %% Unless(w.taken, "DUPLICATE_MEDIA_ID") \in LateErrors
      /\ resolveAlbumScope(w) %% Unread(q.body["id"]) %% Unless(w.taken, "DUPLICATE_RECIPIENT") \in LateErrors
      /\ Unread(q.body["id"]) %% Unless(w.taken, "DUPLICATE_ALBUM_ID") \in LateErrors
      /\ resolveAlbumScope(w) %% Unread(q.query.filter) \in LateErrors
  <2>1. \A value : resolveAlbumScope(w) %% Unread(value) \in LateErrors
    BY ScopeErrors, FirstThrows
  <2> QED  BY <2>1, ScopeErrors, Unlesses, FirstThrows
<1>4. Uploaded(w) \in LateErrors
  <2>1. OwnMedia(w) %% Unless(w.status = "ready", "MEDIA_ALREADY_READY") \in LateErrors
    BY ScopeErrors, Unlesses, FirstThrows
  <2>2. Unless(w.fault = "removed", "MEDIA_NOT_FOUND") \in LateErrors
    BY Unlesses
  <2> QED  BY <2>1, <2>2, FirstThrows DEF Uploaded
<1>5. Delivered(q, w) \in LateErrors
  <2>1. Fetched(q, w) \in LateErrors
    BY ApplicationErrors DEF Fetched
  <2>2. FindMedia(w) %% resolveAlbumScope(w) \in LateErrors
    BY ScopeErrors, FirstThrows
  <2>3. (IF w.status # "ready" THEN Application("MEDIA_NOT_FOUND") ELSE Fetched(q, w)) \in LateErrors
    BY <2>1, ApplicationErrors
  <2> QED  BY <2>2, <2>3, FirstThrows DEF Delivered
<1>6. (IF w.target # "own" THEN Application("RECIPIENT_NOT_FOUND") ELSE None) \in LateErrors
  BY ApplicationErrors
<1> QED  BY <1>1, <1>2, <1>3, <1>4, <1>5, <1>6, ScopeErrors, ApplicationErrors DEF Decided

\* And so is whatever comes of a request once it is let in.
LEMMA LateIs ==
    ASSUME NEW q, q.route \in Routes, NEW w
    PROVE  Late(q, w) \in LateErrors
<1>1. Decoded(q) \in LateErrors
  BY ApplicationErrors DEF Decoded, Measured
<1>2. Sent(q) \in LateErrors
  BY ApplicationErrors DEF Sent
<1>3. Decoded(q) %% Unread(q.path) \in LateErrors
  BY <1>1, ScopeErrors, FirstThrows
<1>4. Decoded(q) %% Unread(q.path) %% Decided(q, w) \in LateErrors
  BY <1>3, DecidedErrors, FirstThrows
<1> QED  BY <1>2, <1>4, FirstThrows DEF Late

\* A code tells whether the token had paid: one that only comes before says
\* that it had not, one that only comes after, or Ok, that it had.
LEMMA CodesTell ==
    ASSUME NEW q, q.route \in Routes, NEW w
    PROVE  /\ Answer(q, w) \in Unpaid => Before(q, w).from # "nobody"
           /\ Answer(q, w) \in PaidFor \cup {Ok} => Before(q, w).from = "nobody"
<1>1. Ok \notin Unpaid /\ NoAnswer \notin Unpaid
  BY DEF Ok, NoAnswer, Unpaid
<1>2. ASSUME Before(q, w).from = "nobody", Answer(q, w) \in Unpaid PROVE FALSE
  <2>1. Thrown(q, w) = Late(q, w)  BY <1>2, ThrownIs
  <2>2. CASE Late(q, w).from # "nobody"
    <3>1. Answer(q, w) = errorEnvelope(Late(q, w))  BY <2>1, <2>2 DEF Answer
    <3>2. errorEnvelope(Late(q, w)) \notin Unpaid  BY <2>2, LateIs, LateCodes
    <3> QED  BY <1>2, <3>1, <3>2
  <2>3. CASE Late(q, w).from = "nobody"
    BY <1>1, <1>2, <2>1, <2>3 DEF Answer
  <2> QED  BY <2>2, <2>3
<1>3. ASSUME Before(q, w).from # "nobody", Answer(q, w) \in PaidFor \cup {Ok} PROVE FALSE
  <2>1. Thrown(q, w) = Before(q, w)  BY <1>3, ThrownIs
  <2>2. Answer(q, w) = errorEnvelope(Before(q, w))  BY <1>3, <2>1 DEF Answer
  <2> QED  BY <1>3, <2>2, BeforeErrors, EarlyCodes
<1> QED  BY <1>2, <1>3

-----------------------------------------------------------------------------
\* Of two worlds that let a request in alike, and answer it alike, the cost is the same.
LEMMA SameCost ==
    ASSUME NEW q, NEW v, NEW w,
           Before(q, v) = Before(q, w), Answer(q, v) = Answer(q, w), v.size = w.size
    PROVE  Cost(q, v) = Cost(q, w)
BY DEF Cost

\* Two worlds that object alike, before and after, are answered alike.
LEMMA SameAnswer ==
    ASSUME NEW q, NEW v, NEW w, Before(q, v) = Before(q, w), Late(q, v) = Late(q, w), v.fault = w.fault
    PROVE  Answer(q, v) = Answer(q, w)
<1>1. Thrown(q, v) = Thrown(q, w)
  BY ThrownIs
<1> QED  BY <1>1 DEF Answer

NotFounds ==
    {Application("ALBUM_NOT_FOUND"), Application("MEDIA_NOT_FOUND"), Application("RECIPIENT_NOT_FOUND")}

\* What is not one's own is not found, and that is said before anything about it.
LEMMA NotOwn ==
    ASSUME NEW q, q.route \in Routes, NEW w, OfRoute(q.route, w), w.target # "own"
    PROVE  Decided(q, w) \in NotFounds
<1>1. q.route \in AlbumNamed \cup MediaNamed \cup {"revoke"}
  BY Guards DEF OfRoute
<1>2. resolveAlbumScope(w) = Application("ALBUM_NOT_FOUND") /\ OwnMedia(w) = Application("MEDIA_NOT_FOUND")
  BY DEF resolveAlbumScope, OwnMedia
<1>3. \A a, b : a.from = "application" => a %% b = a
  BY DEF %%
<1>4. /\ \A b : resolveAlbumScope(w) %% b = Application("ALBUM_NOT_FOUND")
      /\ \A b, c : resolveAlbumScope(w) %% b %% c = Application("ALBUM_NOT_FOUND")
      /\ \A b, c : OwnMedia(w) %% b %% c = Application("MEDIA_NOT_FOUND")
  BY <1>2, <1>3, BareErrors
<1>5. CASE q.route \in AlbumNamed
  <2>1. Server[q.route].names = "album"  BY <1>5, Guards
  <2>2. CASE q.route \in {"createMedia", "createRecipient", "entries"}
    BY <2>2, <1>4 DEF Decided, NotFounds
  <2>3. CASE q.route \notin {"createMedia", "createRecipient", "entries"}
    <3>1. Decided(q, w) = resolveAlbumScope(w)
      BY <1>5, <2>1, <2>3 DEF Decided, AlbumNamed
    <3> QED  BY <1>2, <3>1 DEF NotFounds
  <2> QED  BY <2>2, <2>3
<1>6. CASE q.route \in MediaNamed
  <2>1. Server[q.route].names # "album"  BY <1>6, Guards
  <2>2. CASE q.route \in {"mediaStatus", "removeMedia"}
    <3>1. Decided(q, w) = OwnMedia(w)
      BY <2>1, <2>2 DEF Decided
    <3> QED  BY <1>2, <3>1 DEF NotFounds
  <2>3. CASE q.route \in {"uploadAsset", "uploadThumbnail"}
    <3>1. Decided(q, w) = Uploaded(w)
      BY <2>1, <2>3 DEF Decided
    <3> QED  BY <1>4, <3>1 DEF Uploaded, NotFounds
  <2>4. CASE q.route \in {"thumbnail", "asset"}
    <3>1. Decided(q, w) = Delivered(q, w)
      BY <2>1, <2>4 DEF Decided
    <3>2. FindMedia(w) %% resolveAlbumScope(w) \in
              {Application("MEDIA_NOT_FOUND"), Application("ALBUM_NOT_FOUND")}
      BY <1>2, BareErrors DEF FindMedia, %%
    <3>3. (FindMedia(w) %% resolveAlbumScope(w)).from = "application"
      BY <3>2, BareErrors
    <3>4. Delivered(q, w) = FindMedia(w) %% resolveAlbumScope(w)
      BY <1>3, <3>3 DEF Delivered
    <3> QED  BY <3>1, <3>2, <3>4 DEF NotFounds
  <2> QED  BY <1>6, <2>2, <2>3, <2>4 DEF MediaNamed
<1>7. CASE q.route = "revoke"
  <2>1. Server[q.route].names # "album"  BY <1>7, Guards
  <2>2. Decided(q, w) = Application("RECIPIENT_NOT_FOUND")
    BY <1>7, <2>1 DEF Decided
  <2> QED  BY <2>2 DEF NotFounds
<1> QED  BY <1>1, <1>5, <1>6, <1>7

\* Of two albums that are not one's own, whichever they are, one hears the same.
LEMMA NotOwnAnswer ==
    ASSUME NEW q, q.route \in Routes,
           NEW v, OfRoute(q.route, v), v.target # "own",
           NEW w, OfRoute(q.route, w), w.target # "own",
           Before(q, v) = Before(q, w)
    PROVE  Answer(q, v) = Answer(q, w)
<1>1. CASE Before(q, w).from # "nobody"
  BY <1>1, ThrownIs DEF Answer
<1> DEFINE asked == Decoded(q) %% Unread(q.path)
<1>0. \A u : Late(q, u) = asked %% Decided(q, u) %% Sent(q)
  BY DEF Late
<1> HIDE DEF asked
<1>2. CASE Before(q, w).from = "nobody" /\ asked.from # "nobody"
  <2>1. Late(q, v) = asked /\ Late(q, w) = asked
    BY <1>0, <1>2 DEF %%
  <2> QED  BY <1>2, <2>1, ThrownIs DEF Answer
<1>3. CASE Before(q, w).from = "nobody" /\ asked.from = "nobody"
  <2>1. ASSUME NEW u, OfRoute(q.route, u), u.target # "own", Before(q, u).from = "nobody"
        PROVE  Answer(q, u) = "NOT_FOUND"
    <3>1. Decided(q, u) \in NotFounds  BY <2>1, NotOwn
    <3>2. Decided(q, u).from = "application" /\ ApplicationCode[Decided(q, u).what] = "NOT_FOUND"
      BY <3>1, BareErrors DEF NotFounds, ApplicationCode
    <3>3. Late(q, u) = Decided(q, u)
      BY <1>0, <1>3, <3>2 DEF %%
    <3>4. Thrown(q, u) = Decided(q, u)  BY <2>1, <3>3, ThrownIs
    <3> QED  BY <3>2, <3>4 DEF Answer, errorEnvelope
  <2> QED  BY <1>3, <2>1
<1> QED  BY <1>1, <1>2, <1>3

-----------------------------------------------------------------------------
\* The beginnings: requests of the server's routes, and worlds that fit them.
LEMMA CallRoutes == \A c \in DOMAIN Calls : Calls[c].route \in Routes
<1>1. \A c \in DOMAIN OwnerCalls : OwnerCalls[c].route \in Routes
  <2>1. SUFFICES ASSUME NEW c \in DOMAIN OwnerCalls PROVE OwnerCalls[c].route \in Routes
    OBVIOUS
  <2>2. OwnerCalls["readyMetadata"].route = "metadata"
    BY DEF OwnerCalls, By
  <2>3. /\ OwnerCalls["signup"].route = "signup"
        /\ OwnerCalls["loginParams"].route = "loginParams"
        /\ OwnerCalls["login"].route = "login"
        /\ OwnerCalls["ownerKey"].route = "ownerKey"
        /\ OwnerCalls["albums"].route = "albums"
        /\ OwnerCalls["createAlbum"].route = "createAlbum"
        /\ OwnerCalls["album"].route = "album"
        /\ OwnerCalls["metadata"].route = "metadata"
        /\ OwnerCalls["mediaStatus"].route = "mediaStatus"
        /\ OwnerCalls["thumbnail"].route = "thumbnail"
        /\ OwnerCalls["asset"].route = "asset"
    BY DEF OwnerCalls, By
  <2>4. /\ OwnerCalls["createMedia"].route = "createMedia"
        /\ OwnerCalls["uploadAsset"].route = "uploadAsset"
        /\ OwnerCalls["uploadThumbnail"].route = "uploadThumbnail"
        /\ OwnerCalls["removeMedia"].route = "removeMedia"
        /\ OwnerCalls["accessLog"].route = "accessLog"
        /\ OwnerCalls["entries"].route = "entries"
        /\ OwnerCalls["createRecipient"].route = "createRecipient"
        /\ OwnerCalls["revoke"].route = "revoke"
        /\ OwnerCalls["logout"].route = "logout"
        /\ OwnerCalls["logoutAll"].route = "logoutAll"
    BY DEF OwnerCalls, By
  <2>5. c \in {"signup", "loginParams", "login", "ownerKey", "albums", "createAlbum", "album", "metadata",
              "readyMetadata", "mediaStatus", "thumbnail", "asset", "createMedia", "uploadAsset",
              "uploadThumbnail", "removeMedia", "accessLog", "entries", "createRecipient", "revoke",
              "logout", "logoutAll"}
    BY DEF OwnerCalls
  <2> QED
    BY <2>2, <2>3, <2>4, <2>5
    DEF Routes, CredentialRoutes, AlbumRoutes, MediaRoutes, RecipientRoutes, DeliveryRoutes
<1>2. \A c \in DOMAIN RecipientCalls : RecipientCalls[c].route \in Routes
  <2>1. SUFFICES ASSUME NEW c \in DOMAIN RecipientCalls PROVE RecipientCalls[c].route \in Routes
    OBVIOUS
  <2>2. RecipientCalls[c].route \in {"key", "recipient", "album", "metadata", "thumbnail", "asset"}
    BY DEF RecipientCalls, By
  <2> QED
    BY <2>2 DEF Routes, CredentialRoutes, AlbumRoutes, MediaRoutes, RecipientRoutes, DeliveryRoutes
<1>3. \A c \in DOMAIN Calls : /\ c \in DOMAIN OwnerCalls => Calls[c] = OwnerCalls[c]
                              /\ c \notin DOMAIN OwnerCalls =>
                                   c \in DOMAIN RecipientCalls /\ Calls[c] = RecipientCalls[c]
  BY DEF Calls
<1> QED  BY <1>1, <1>2, <1>3

\* What is built for a call, and what is made of it by breaking it, is of the call's route.
LEMMA BuiltRoute ==
    ASSUME NEW c \in DOMAIN Calls, NEW q \in Built(c)
    PROVE  q.route = Calls[c].route /\ \A p \in Perturbed(q) : p.route = q.route
<1>1. PICK framing, path, body, length, range, query :
          q = [route |-> Calls[c].route, framing |-> framing, path |-> path, body |-> body,
               length |-> length, range |-> range, query |-> query]
  BY DEF Built
<1>2. q.route = Calls[c].route  BY <1>1
<1>3. ASSUME NEW p \in Perturbed(q) PROVE p.route = q.route
  <2> DEFINE framings == {[q EXCEPT !.framing = f] : f \in Framings}
             paths == {[q EXCEPT !.path = x] : x \in {"malformed", "urn"}}
             bodies == {[q EXCEPT !.body = b] : b \in WrongBodies(q.route, q.body)}
             lengths == {[q EXCEPT !.length = n] :
                           n \in {Absent, Other, 0, ENVELOPE_MIN_BYTES - 1, Limit(q.route), Limit(q.route) + 1}}
             nobodies == {[q EXCEPT !.framing = "none", !.length = n] : n \in {Absent, 0}}
             ranges == {[q EXCEPT !.range = g] : g \in {"none", "past the end"}}
             queries == {[q EXCEPT !.query = e] : e \in [before : 0 .. 1, limit : {0, 1, 500, 501},
                                                         filter : {"none", "uuid", "urn", "malformed"}]}
  <2>1. Perturbed(q) =
          {q}
          \cup (IF Server[q.route].takes = "get" THEN {} ELSE framings)
          \cup (IF Server[q.route].names = "nothing" THEN {} ELSE paths)
          \cup (IF Server[q.route].takes = "json" THEN bodies ELSE {})
          \cup (IF Server[q.route].takes = "stream" THEN lengths \cup nobodies ELSE {})
          \cup (IF q.route = "asset" THEN ranges ELSE {})
          \cup (IF q.route = "entries" THEN queries ELSE {})
    BY Zenon DEF Perturbed
  <2>2. \/ p \in {q} \/ p \in framings \/ p \in paths \/ p \in bodies
        \/ p \in lengths \/ p \in nobodies \/ p \in ranges \/ p \in queries
    <3> HIDE DEF framings, paths, bodies, lengths, nobodies, ranges, queries
    <3> QED  BY <1>3, <2>1
  <2>3. p \in framings \/ p \in paths => p.route = q.route
    BY <1>1
  <2>4. p \in bodies \/ p \in lengths => p.route = q.route
    BY <1>1
  <2>5. p \in ranges \/ p \in nobodies => p.route = q.route
    BY <1>1
  <2>6. p \in queries => p.route = q.route
    <3>1. p \in queries => \E e : p = [q EXCEPT !.query = e]
      BY Zenon
    <3>2. \A e : [q EXCEPT !.query = e].route = q.route  BY <1>1
    <3> HIDE DEF queries
    <3> QED  BY <3>1, <3>2
  <2> HIDE DEF framings, paths, bodies, lengths, nobodies, ranges, queries
  <2> QED  BY <2>2, <2>3, <2>4, <2>5, <2>6
<1> QED  BY <1>2, <1>3

\* Every world a request may find fits the request's route.
LEMMA WorldsFit ==
    ASSUME NEW c, NEW r \in Routes, NEW w \in Worlds(c, r)
    PROVE  OfRoute(r, w)
<1>1. w \in [token : Tokens(c, Server[r].guard), spent : BOOLEAN, target : Targets(c, Server[r].names),
             status : IF Server[r].names = "media" THEN {"processing", "ready", "failed"} ELSE {"ready"},
             taken : IF Server[r].makes /\ ~(Server[r].guard = "address") THEN BOOLEAN ELSE {FALSE},
             account : IF Server[r].guard = "address" THEN {"uninvited", "none", "known"} ELSE {"none"},
             proof : IF r = "login" THEN BOOLEAN ELSE {TRUE}, fault : Faults(r),
             size : IF r \in ChargeBytes THEN {0, BYTE_FLOOR, BYTE_FLOOR + 1, 4 * BYTE_FLOOR} ELSE {0},
             kind : IF r \in {"key", "recipient"} THEN Kinds ELSE {"qr"},
             nulls : IF r \in {"accessLog", "entries", "mediaStatus"} THEN BOOLEAN ELSE {FALSE},
             lost : BOOLEAN]
  BY DEF Worlds
<1>2. Tokens(c, Server[r].guard) \subseteq {"malformed", "unknown", "owner", "recipient", "revoked"}
  BY DEF Tokens
<1>3. /\ Targets(c, Server[r].names) \subseteq {"own", "foreign", "absent"}
      /\ Server[r].names = "nothing" => Targets(c, Server[r].names) = {"own"}
  BY DEF Targets
<1>4. Faults(r) \subseteq {"none", "database", "missing", "removed", "store", "cut"}
  BY DEF Faults
<1>5. {0, BYTE_FLOOR, BYTE_FLOOR + 1, 4 * BYTE_FLOOR} \subseteq Nat
  BY DEF BYTE_FLOOR
<1>6. "qr" \in Kinds  BY DEF Kinds
<1>7. w \in AnyWorld
  BY <1>1, <1>2, <1>3, <1>4, <1>5, <1>6 DEF AnyWorld
<1>8. Server[r].names = "nothing" => w.target = "own"
  BY <1>1, <1>3
<1>9. r \notin ChargeBytes => w.size = 0
  BY <1>1
<1> QED  BY <1>7, <1>8, <1>9 DEF OfRoute

\* What a request leaves behind fits its route again.
LEMMA EffectFits ==
    ASSUME NEW q, q.route \in Routes, NEW w, OfRoute(q.route, w)
    PROVE  OfRoute(q.route, Effect(q, w))
<1> DEFINE Left == {v \in AnyWorld : OfRoute(q.route, v)}
<1>1. ASSUME NEW v \in AnyWorld
      PROVE  LET left == [v EXCEPT !.fault = "none", !.spent = FALSE, !.lost = FALSE]
             IN  left \in AnyWorld /\ left.target = v.target /\ left.size = v.size
  <2>1. [v EXCEPT !.fault = "none", !.spent = FALSE, !.lost = FALSE] \in AnyWorld
    BY DEF AnyWorld
  <2>2. [v EXCEPT !.fault = "none", !.spent = FALSE, !.lost = FALSE].target = v.target
    BY DEF AnyWorld
  <2>3. [v EXCEPT !.fault = "none", !.spent = FALSE, !.lost = FALSE].size = v.size
    BY DEF AnyWorld
  <2> QED  BY <2>1, <2>2, <2>3
<1>2. w \in AnyWorld  BY DEF OfRoute
<1>3. q.route = "removeMedia" => OfRoute(q.route, [w EXCEPT !.target = "absent"])
  <2>1. q.route = "removeMedia" => Server[q.route].names # "nothing"
    BY Guards DEF MediaNamed
  <2>2. [w EXCEPT !.target = "absent"] \in AnyWorld /\ [w EXCEPT !.target = "absent"].size = w.size
    BY <1>2 DEF AnyWorld
  <2> QED  BY <2>1, <2>2 DEF OfRoute
<1>4. /\ OfRoute(q.route, [w EXCEPT !.token = "unknown"])
      /\ OfRoute(q.route, [w EXCEPT !.account = "known"])
      /\ OfRoute(q.route, [w EXCEPT !.status = "failed"])
      /\ OfRoute(q.route, [w EXCEPT !.status = "ready"])
      /\ OfRoute(q.route, [w EXCEPT !.taken = TRUE])
      /\ OfRoute(q.route, [w EXCEPT !.taken = FALSE])
  BY <1>2 DEF OfRoute, AnyWorld
<1>5. Server[q.route].makes = TRUE \/ Server[q.route].makes = FALSE
  BY Guards
<1>6. OfRoute(q.route, [w EXCEPT !.taken = Server[q.route].makes])
  BY <1>4, <1>5
<1> DEFINE next == IF ~(Answer(q, w) \in {Ok, NoAnswer}) THEN w
                   ELSE CASE q.route = "removeMedia" -> [w EXCEPT !.target = "absent"]
                          [] q.route \in {"logout", "logoutAll"} -> [w EXCEPT !.token = "unknown"]
                          [] q.route = "signup" -> [w EXCEPT !.account = "known"]
                          [] Server[q.route].takes = "stream" ->
                                 [w EXCEPT !.status = IF w.fault = "cut" THEN "failed" ELSE "ready"]
                          [] OTHER -> [w EXCEPT !.taken = Server[q.route].makes]
<1>7. OfRoute(q.route, next)
  BY <1>3, <1>4, <1>6
<1>8. Effect(q, w) = [next EXCEPT !.fault = "none", !.spent = FALSE, !.lost = FALSE]
  BY DEF Effect
<1> HIDE DEF next
<1> QED  BY <1>1, <1>7, <1>8 DEF OfRoute

\* What was answered and paid is what the server answers and charges, unless the answer was lost.
ServedInv ==
    /\ request.route \in Routes
    /\ OfRoute(request.route, world)
    /\ answer # Unset => /\ answer \in {NoAnswer, Answer(request, world)}
                         /\ paid = Cost(request, world)

\* The first request and its world are of one route.
LEMMA InitServed == ContractInit => ServedInv
<1>1. ASSUME ContractInit PROVE answer = Unset
  BY <1>1 DEF ContractInit
<1>2. ASSUME NEW c \in DOMAIN Calls, request \in Built(c), world \in Worlds(c, request.route)
      PROVE  request.route \in Routes /\ OfRoute(request.route, world)
  BY <1>2, CallRoutes, BuiltRoute, WorldsFit
<1>3. ASSUME NEW c \in DOMAIN Calls, NEW q \in Built(c), request \in Perturbed(q),
             world \in Worlds(Anyone, request.route)
      PROVE  request.route \in Routes /\ OfRoute(request.route, world)
  BY <1>3, CallRoutes, BuiltRoute, WorldsFit
<1> QED  BY <1>1, <1>2, <1>3 DEF ContractInit, ServedInv

\* An answer is the server's to the request in its world, and stays so.
LEMMA NextServed == ServedInv /\ [ContractNext]_contractVars => ServedInv'
<1> SUFFICES ASSUME ServedInv, [ContractNext]_contractVars PROVE ServedInv'
  OBVIOUS
<1>1. CASE Answered
  BY <1>1 DEF Answered, ServedInv
<1>2. CASE Understand
  BY <1>2 DEF Understand, ServedInv
<1>3. CASE SendAgain
  BY <1>3, EffectFits DEF SendAgain, ServedInv
<1>4. CASE UNCHANGED contractVars
  BY <1>4 DEF contractVars, ServedInv
<1> QED  BY <1>1, <1>2, <1>3, <1>4 DEF ContractNext

\* So every answer is the server's.
LEMMA AlwaysServed == ContractSpec => []ServedInv
BY InitServed, NextServed, PTL DEF ContractSpec

\* What a token pays for and what it gets, for any request and any size of what is served.
LEMMA ServedIsPaid ==
    ASSUME NEW q, q.route \in Routes, NEW w, OfRoute(q.route, w), Server[q.route].guard # "address"
    PROVE  /\ Answer(q, w) = Ok => w.size <= Cost(q, w).bytes
           /\ Answer(q, w) \in Unpaid => Cost(q, w) = Free
           /\ Answer(q, w) \in PaidFor \cup {Ok} => Cost(q, w) # Free
<1>1. w.size \in Nat /\ (q.route \notin ChargeBytes => w.size = 0)
  BY DEF OfRoute, AnyWorld
<1>2. Server[q.route].charges <=> q.route \in ChargeBytes
  BY Guards
<1>3. ASSUME Before(q, w).from = "nobody"
      PROVE  /\ Cost(q, w).requests = IF Server[q.route].charges THEN 0 ELSE 1
             /\ Cost(q, w).bytes = (IF Server[q.route].charges THEN BYTE_FLOOR ELSE 0)
                        + (IF q.route \in ChargeBytes /\ Answer(q, w) = Ok THEN AboveFloor(w.size) ELSE 0)
  BY <1>3 DEF Cost
<1>4. /\ AboveFloor(w.size) \in Nat /\ w.size <= BYTE_FLOOR + AboveFloor(w.size)
      /\ BYTE_FLOOR \in Nat /\ BYTE_FLOOR > 0
  BY <1>1 DEF AboveFloor, BYTE_FLOOR
<1>5. Answer(q, w) = Ok => w.size <= Cost(q, w).bytes
  <2>1. SUFFICES ASSUME Answer(q, w) = Ok PROVE w.size <= Cost(q, w).bytes
    OBVIOUS
  <2>2. Before(q, w).from = "nobody"  BY <2>1, CodesTell
  <2>3. CASE q.route \in ChargeBytes
    <3>1. Cost(q, w).bytes = BYTE_FLOOR + AboveFloor(w.size)
      BY <1>2, <1>3, <2>1, <2>2, <2>3
    <3> QED  BY <1>4, <3>1
  <2>4. CASE q.route \notin ChargeBytes
    <3>1. Cost(q, w).bytes = 0 + 0
      BY <1>2, <1>3, <2>2, <2>4
    <3> QED  BY <1>1, <2>4, <3>1
  <2> QED  BY <2>3, <2>4
<1>6. Answer(q, w) \in Unpaid => Cost(q, w) = Free
  BY CodesTell DEF Cost, Free
<1>7. Answer(q, w) \in PaidFor \cup {Ok} => Cost(q, w) # Free
  <2>1. SUFFICES ASSUME Before(q, w).from = "nobody" PROVE Cost(q, w) # Free
    BY CodesTell
  <2>2. Free.requests = 0 /\ Free.bytes = 0  BY DEF Free
  <2>3. CASE q.route \in ChargeBytes
    <3>1. \E n \in Nat : Cost(q, w).bytes = BYTE_FLOOR + n
      BY <1>2, <1>3, <1>4, <2>1, <2>3
    <3> QED  BY <1>4, <2>2, <3>1
  <2>4. CASE q.route \notin ChargeBytes
    BY <1>2, <1>3, <2>1, <2>2, <2>4
  <2> QED  BY <2>3, <2>4
<1> QED  BY <1>5, <1>6, <1>7

(***************************************************************************)
(* NoByteIsUnpaid: whatever is served to a token is charged to it, byte    *)
(* for byte above the floor; what is refused at the door is free, and what *)
(* is refused behind it, or granted, is not.  It holds of every request    *)
(* of a route of the server's in every world that fits it, with objects of *)
(* any size, and ServedInv says that these are the answers there are.      *)
(***************************************************************************)
THEOREM NoByteIsUnpaid == ContractSpec => []EveryByteIsPaid
<1>1. ServedInv => EveryByteIsPaid
  <2>1. SUFFICES ASSUME ServedInv, answer \notin {Unset, NoAnswer}, Server[request.route].guard # "address"
                 PROVE  /\ answer = Ok => world.size <= paid.bytes
                        /\ answer \in Unpaid => paid = Free
                        /\ answer \in PaidFor \cup {Ok} => paid # Free
    BY DEF EveryByteIsPaid, Unpaid, PaidFor
  <2>2. answer = Answer(request, world) /\ paid = Cost(request, world)
    BY <2>1 DEF ServedInv
  <2> QED  BY <2>1, <2>2, ServedIsPaid DEF ServedInv
<1> QED  BY <1>1, AlwaysServed, PTL

\* Before a budget is asked, who the request is from is all that is looked at.
LEMMA BeforeSees ==
    ASSUME NEW q, NEW v, NEW w, v.token = w.token, v.spent = w.spent, v.fault = w.fault
    PROVE  Before(q, v) = Before(q, w)
BY DEF Before, Admitted, Afforded

\* Revoked or not, a recipient is recognised.
LEMMA BeforeRevoked ==
    ASSUME NEW q, NEW v, NEW w, v.token = "recipient", w.token = "revoked", v.spent = w.spent, v.fault = w.fault
    PROVE  Before(q, v) = Before(q, w)
<1>1. Admitted(q, v) = Admitted(q, w)
  BY DEF Admitted, Afforded, Recognised
<1> QED  BY <1>1 DEF Before

\* An album of somebody else and one that does not exist, a grant and a revoked
\* one outside their album, are answered and charged alike.
LEMMA NothingOfOthers ==
    ASSUME NEW q, q.route \in Routes, NEW w, OfRoute(q.route, w)
    PROVE  /\ w.target = "foreign" =>
                LET v == [w EXCEPT !.target = "absent"]
                IN  Answer(q, v) = Answer(q, w) /\ Cost(q, v) = Cost(q, w)
           /\ w.target \in {"foreign", "absent"} /\ w.token = "revoked" =>
                LET v == [w EXCEPT !.token = "recipient"]
                IN  Answer(q, v) = Answer(q, w) /\ Cost(q, v) = Cost(q, w)
<1>1. ASSUME w.target = "foreign"
      PROVE  LET v == [w EXCEPT !.target = "absent"]
             IN  Answer(q, v) = Answer(q, w) /\ Cost(q, v) = Cost(q, w)
  <2> DEFINE v == [w EXCEPT !.target = "absent"]
  <2>1. /\ v \in AnyWorld /\ v.target = "absent" /\ v.size = w.size
        /\ v.token = w.token /\ v.spent = w.spent /\ v.fault = w.fault
    BY DEF OfRoute, AnyWorld
  <2>2. OfRoute(q.route, v)  BY <1>1, <2>1 DEF OfRoute
  <2> HIDE DEF v
  <2>3. Before(q, v) = Before(q, w)  BY <2>1, BeforeSees
  <2>4. Answer(q, v) = Answer(q, w)  BY <1>1, <2>1, <2>2, <2>3, NotOwnAnswer
  <2>5. Cost(q, v) = Cost(q, w)  BY <2>1, <2>3, <2>4, SameCost
  <2> QED  BY <2>4, <2>5 DEF v
<1>2. ASSUME w.target \in {"foreign", "absent"}, w.token = "revoked"
      PROVE  LET v == [w EXCEPT !.token = "recipient"]
             IN  Answer(q, v) = Answer(q, w) /\ Cost(q, v) = Cost(q, w)
  <2> DEFINE v == [w EXCEPT !.token = "recipient"]
  <2>1. /\ v \in AnyWorld /\ v.target = w.target /\ v.size = w.size
        /\ v.token = "recipient" /\ v.spent = w.spent /\ v.fault = w.fault
    BY DEF OfRoute, AnyWorld
  <2>2. OfRoute(q.route, v)  BY <2>1 DEF OfRoute
  <2> HIDE DEF v
  <2>3. Before(q, v) = Before(q, w)  BY <1>2, <2>1, BeforeRevoked
  <2>4. Answer(q, v) = Answer(q, w)  BY <1>2, <2>1, <2>2, <2>3, NotOwnAnswer
  <2>5. Cost(q, v) = Cost(q, w)  BY <2>1, <2>3, <2>4, SameCost
  <2> QED  BY <2>4, <2>5 DEF v
<1> QED  BY <1>1, <1>2

\* Behind a token that is not one, or a spent budget, nothing is looked at.
LEMMA NothingBehindTheDoor ==
    ASSUME NEW q, q.route \in Routes, NEW w, OfRoute(q.route, w),
           Answer(q, w) \in {"UNAUTHENTICATED", "RATE_LIMITED"},
           NEW t, NEW s, NEW taken, NEW account
    PROVE  LET v == [w EXCEPT !.target = t, !.status = s, !.taken = taken, !.account = account]
           IN  Answer(q, v) = Answer(q, w) /\ Cost(q, v) = Cost(q, w)
<1> DEFINE v == [w EXCEPT !.target = t, !.status = s, !.taken = taken, !.account = account]
<1>1. v.token = w.token /\ v.spent = w.spent
  BY DEF OfRoute, AnyWorld
<1>2. v.fault = w.fault /\ v.size = w.size
  BY DEF OfRoute, AnyWorld
<1> HIDE DEF v
<1>3. Before(q, v) = Before(q, w)  BY <1>1, <1>2, BeforeSees
<1>4. Before(q, w).from # "nobody"  BY CodesTell DEF Unpaid
<1>5. Answer(q, v) = Answer(q, w)  BY <1>3, <1>4, ThrownIs DEF Answer
<1>6. Cost(q, v) = Cost(q, w)  BY <1>2, <1>3, <1>5, SameCost
<1> QED  BY <1>5, <1>6 DEF v

\* The parameters of an address, and a wrong proof, say nothing of its account.
LEMMA NothingOfAccounts ==
    ASSUME NEW q, q.route \in Routes, NEW w, OfRoute(q.route, w),
           q.route = "loginParams" \/ (q.route = "login" /\ ~w.proof),
           NEW account
    PROVE  LET v == [w EXCEPT !.account = account]
           IN  Answer(q, v) = Answer(q, w) /\ Cost(q, v) = Cost(q, w)
<1> DEFINE v == [w EXCEPT !.account = account]
<1>1. v.token = w.token /\ v.spent = w.spent /\ v.fault = w.fault /\ v.size = w.size /\ v.proof = w.proof
  BY DEF OfRoute, AnyWorld
<1> HIDE DEF v
<1>2. Before(q, v) = Before(q, w)  BY <1>1, BeforeSees
<1>3. Query(v) = Query(w)  BY <1>1 DEF Query
<1>4. Decided(q, v) = Decided(q, w)
  <2>1. Server[q.route].names # "album"
    BY Guards DEF AlbumNamed
  <2>2. CASE q.route = "loginParams"
    <3>1. Decided(q, v) = LoginParams(q, v) /\ Decided(q, w) = LoginParams(q, w)
      BY <2>1, <2>2 DEF Decided
    <3> QED  BY <1>3, <3>1 DEF LoginParams
  <2>3. CASE q.route = "login" /\ ~w.proof
    <3>1. Decided(q, v) = Login(q, v) /\ Decided(q, w) = Login(q, w)
      BY <2>1, <2>3 DEF Decided
    <3>2. /\ Unless(v.account # "known" \/ ~v.proof, "INVALID_CREDENTIALS") = Application("INVALID_CREDENTIALS")
          /\ Unless(w.account # "known" \/ ~w.proof, "INVALID_CREDENTIALS") = Application("INVALID_CREDENTIALS")
      BY <1>1, <2>3 DEF Unless
    <3> QED  BY <1>3, <3>1, <3>2 DEF Login
  <2> QED  BY <2>2, <2>3
<1>5. Late(q, v) = Late(q, w)  BY <1>4 DEF Late
<1>6. Answer(q, v) = Answer(q, w)  BY <1>1, <1>2, <1>5, SameAnswer
<1>7. Cost(q, v) = Cost(q, w)  BY <1>1, <1>2, <1>6, SameCost
<1> QED  BY <1>6, <1>7 DEF v

(***************************************************************************)
(* OthersLearnNothing: the answer and its price are the same in the worlds *)
(* the caller may not tell apart.  Somebody else's album and none, a grant *)
(* and a revoked one outside its album; anything at all behind a token     *)
(* that is unknown or spent; an account and none, for its parameters or    *)
(* with a wrong proof.  The order of the checks is what it rests on: what  *)
(* is looked at before the budget is asked sees only the token.            *)
(***************************************************************************)
THEOREM OthersLearnNothing == ContractSpec => []OnlyTheEntitledLearn
<1>1. ServedInv => OnlyTheEntitledLearn
  <2> SUFFICES ASSUME ServedInv, answer \notin {Unset, NoAnswer} PROVE OnlyTheEntitledLearn
    BY DEF OnlyTheEntitledLearn
  <2> DEFINE q == request
             Same(w) == Answer(q, w) = Answer(q, world) /\ Cost(q, w) = Cost(q, world)
  <2>1. q.route \in Routes /\ OfRoute(q.route, world) /\ answer = Answer(q, world)
    BY DEF ServedInv
  <2>2. /\ world.target = "foreign" => Same([world EXCEPT !.target = "absent"])
        /\ world.target \in {"foreign", "absent"} /\ world.token = "revoked" =>
             Same([world EXCEPT !.token = "recipient"])
    BY <2>1, NothingOfOthers
  <2>3. answer \in {"UNAUTHENTICATED", "RATE_LIMITED"} =>
          \A t \in Targets(Anyone, Server[q.route].names), s \in {"processing", "ready"},
             taken \in BOOLEAN, account \in {"none", "known"} :
             Same([world EXCEPT !.target = t, !.status = s, !.taken = taken, !.account = account])
    <3>1. answer \in {"UNAUTHENTICATED", "RATE_LIMITED"} =>
            \A t, s, taken, account :
               Same([world EXCEPT !.target = t, !.status = s, !.taken = taken, !.account = account])
      BY <2>1, NothingBehindTheDoor
    <3> HIDE DEF Same
    <3> QED  BY <3>1
  <2>4. q.route = "loginParams" \/ (q.route = "login" /\ ~world.proof) =>
          \A account \in {"uninvited", "none", "known"} : Same([world EXCEPT !.account = account])
    BY <2>1, NothingOfAccounts
  <2> QED  BY <2>2, <2>3, <2>4, Zenon DEF OnlyTheEntitledLearn
<1> QED  BY <1>1, AlwaysServed, PTL
=============================================================================
