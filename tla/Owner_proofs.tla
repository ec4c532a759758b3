---------------------------- MODULE Owner_proofs ----------------------------
(***************************************************************************)
(* What the owner's session keeps, proved for any albums and any number of *)
(* sessions, visits and failures: a session this device was told is over   *)
(* stays over, and every handle is accounted for.  And what the screens of *)
(* an open session keep, for any number of views and mishaps: a late       *)
(* answer never shows another child's screen, and the owner leaves a       *)
(* screen only as they asked.                                              *)
(***************************************************************************)
EXTENDS OwnerSession, OwnerScreens, FiniteSetTheorems, TLAPS

(***************************************************************************)
(* The inductive invariant.                                                *)
(***************************************************************************)
Dying(t) == tokens[t] = "dead"

\* The screens of an open session, and the requests that name its token.
Signed  == {"checking", "unlock", "albums", "partial"}
Bearing == {"ownerKey", "albums", "create", "logout", "revoke"}

Named == {store, token, task.tok} \cup {r.tok : r \in stray}

\* Tokens are minted in order, and whoever names one names one that was minted.
\* What a 401 and a sign-out say of one is so, and stays so.
TokensOK ==
    /\ \A t, u \in Tokens : u < t /\ tokens[u] = "unused" => tokens[t] = "unused"
    /\ \A t \in Named : t # 0 => tokens[t] # "unused"
    /\ screen.kind \in Signed \/ task.op = "unlock" \/ task.at \in Bearing => token # 0
    /\ task.at \in Bearing => task.tok # 0
    /\ task.at \in {"login", "signup"} /\ task.reply = "ok" => task.tok # 0
    /\ task.at \in Bearing /\ task.reply = "denied" => Dying(task.tok)
    /\ task.at = "logout" /\ task.reply = "ok" =>
         Dying(task.tok) /\ (task.arg = "all" => \A t \in 1..task.tok : Dying(t))
    /\ \A t \in ended : Dying(t)

\* The requests each task makes, in some order; at "none" it derives.
Course(op, at) ==
    \/ op = "none" /\ at = "none"
    \/ op = "fetch" /\ at = "ownerKey"
    \/ op = "unlock" /\ at \in {"none", "albums"}
    \/ op = "signin" /\ at \in {"none", "params", "login", "ownerKey", "albums", "revoke"}
    \/ op = "signup" /\ at \in {"none", "policy", "signup"}
    \/ op = "create" /\ at = "create"
    \/ op = "logout" /\ at = "logout"

\* The album keys that no album has yet are told apart by their album.
TaskOK ==
    /\ Course(task.op, task.at)
    /\ task.op = "none" => task = NoTask
    /\ task.op # "none" => task.wait # "none"
    /\ offline <=> task.wait \in {"waiting", "again"}
    /\ task.wait = "again" => task.at \in {"ownerKey", "albums"}
    /\ task.at = "policy" \/ offline => task.reply = "none"
    /\ task.op = "logout" => task.arg \in Scopes
    /\ task.op # "none" => (task.wait = "frames" <=> task.at = "none")
    /\ \A r \in stray \cup {task} : r.at = "create" => r.arg \in Albums
    /\ task.op = "create" /\ task.reply \in {"ok", "conflict"} => task.arg \in albums
    /\ IsFiniteSet(stray)
    /\ \A r, s \in stray : r.op = "create" /\ s.op = "create" /\ r.arg = s.arg => r = s
    /\ task.op = "create" => \A r \in stray : r.op = "create" => r.arg # task.arg

\* What the screen says of the task.  A task run again may do so behind another
\* screen than its own.
ShapeOK ==
    /\ task.op \in {"fetch", "unlock", "signin", "signup"} => screen.phase \in {"busy", "deriving"}
    /\ task.op = "create" => /\ screen = [kind |-> "albums", phase |-> "ready"]
                             /\ form = "creating" /\ out = "no" /\ task.arg \notin keys
    /\ task.op = "logout" => /\ holds = {} /\ keys = {}
                             /\ \/ screen.kind = "albums" /\ out # "no"
                                \/ screen = [kind |-> "unlock", phase |-> "ready"]
                                \/ screen = [kind |-> "partial", phase |-> "busy"]
    /\ screen.kind = "albums" /\ out # "no" => task.op = "logout"
    /\ task.at = "albums" => screen.kind = "albums"
    /\ screen.phase = "paused" => screen.kind \in {"signin", "signup"}
    /\ Dead => task = NoTask /\ holds = {} /\ keys = {}
    /\ ~reran =>
         /\ task.op = "fetch" => screen.kind = "checking"
         /\ task.op = "unlock" /\ task.at = "none" => screen.kind = "unlock"
         /\ task.op = "signin" /\ task.at # "albums" => screen.kind = "signin"
         /\ task.op = "signup" => screen.kind = "signup"

\* What is held, and what for.
KeysOK ==
    /\ keys \subseteq albums
    /\ task.at = "login" \/ (task.op = "signin" /\ task.at = "ownerKey") => "kek" \in holds
    /\ poisoned => /\ holds \subseteq {"material"} /\ keys = {}
                   /\ task.at \notin {"login", "albums", "signup", "create"}
                   /\ task.op = "signin" => task.at # "ownerKey"
    /\ ~reran =>
         /\ "kek" \in holds => task.op = "signin" /\ task.at \in {"login", "ownerKey"}
         /\ "master" \in holds \/ keys # {} =>
              \/ screen.kind = "albums" /\ out = "no"
              \/ task.at = "signup" /\ keys = {}
         /\ "material" \in holds => screen.kind = "unlock" /\ task.op # "logout"

\* The tasks that own the key of an album that is being created.
Owners == {r \in stray \cup {task} : r.op = "create"}

\* A task that runs again may have left a handle behind; nothing else does.
HandlesOK ==
    ~poisoned =>
       /\ handles >= Referenced(holds, keys) + Cardinality(Owners)
       /\ ~reran => handles = Referenced(holds, keys) + Cardinality(Owners)

IInv == TypeOK /\ TokensOK /\ TaskOK /\ ShapeOK /\ KeysOK /\ HandlesOK

-----------------------------------------------------------------------------
(***************************************************************************)
(* Counting handles.                                                       *)
(***************************************************************************)
Flag(hs, k) == IF k \in hs THEN 1 ELSE 0

\* An album's key is one handle, and so are the login key and the master key.
LEMMA ReferencedIs ==
    ASSUME NEW hs \in SUBSET {"kek", "master", "material"}, NEW ks \in SUBSET Albums
    PROVE  /\ Referenced(hs, ks) = Flag(hs, "kek") + Flag(hs, "master") + Cardinality(ks)
           /\ IsFiniteSet(ks) /\ Cardinality(ks) \in Nat /\ Referenced(hs, ks) \in Nat
<1>1. IsFiniteSet(ks) /\ Cardinality(ks) \in Nat
  BY BoundAssumption, FS_Subset, FS_CardinalityType
<1>2. Cardinality(hs \ {"material"}) = Flag(hs, "kek") + Flag(hs, "master")
  <2> DEFINE both == hs \ {"material"}
  <2>1. CASE "kek" \in hs /\ "master" \in hs
    <3>1. both = {"kek"} \cup {"master"} /\ "master" \notin {"kek"}  BY <2>1
    <3>2. IsFiniteSet({"kek"}) /\ Cardinality({"kek"}) = 1  BY FS_Singleton
    <3>3. Cardinality({"kek"} \cup {"master"}) = Cardinality({"kek"}) + 1  BY <3>1, <3>2, FS_AddElement
    <3>4. QED  BY <2>1, <3>1, <3>2, <3>3 DEF Flag
  <2>2. CASE "kek" \in hs /\ "master" \notin hs
    <3>1. both = {"kek"}  BY <2>2
    <3>2. QED  BY <2>2, <3>1, FS_Singleton DEF Flag
  <2>3. CASE "kek" \notin hs /\ "master" \in hs
    <3>1. both = {"master"}  BY <2>3
    <3>2. QED  BY <2>3, <3>1, FS_Singleton DEF Flag
  <2>4. CASE "kek" \notin hs /\ "master" \notin hs
    <3>1. both = {}  BY <2>4
    <3>2. Cardinality(both) = 0  BY <3>1, FS_EmptySet
    <3>3. QED  BY <2>4, <3>2 DEF Flag
  <2>5. QED  BY <2>1, <2>2, <2>3, <2>4
<1>3. Flag(hs, "kek") \in Nat /\ Flag(hs, "master") \in Nat  BY DEF Flag
<1>4. QED  BY <1>1, <1>2, <1>3 DEF Referenced

LEMMA NothingReferenced == Referenced({}, {}) = 0
<1>1. {} \ {"material"} = {}  OBVIOUS
<1>2. QED  BY <1>1, FS_EmptySet DEF Referenced

\* Another element in the place of one counts no more, and as much if it is new.
LEMMA Replaced ==
    ASSUME NEW S, IsFiniteSet(S), NEW a \in S, NEW b
    PROVE  /\ IsFiniteSet((S \ {a}) \cup {b})
           /\ b \notin S \ {a} => Cardinality((S \ {a}) \cup {b}) = Cardinality(S)
<1>1. IsFiniteSet(S \ {a}) /\ Cardinality(S \ {a}) = Cardinality(S) - 1 /\ Cardinality(S) \in Nat
  BY FS_RemoveElement, FS_CardinalityType
<1>2. IsFiniteSet((S \ {a}) \cup {b})  BY <1>1, FS_AddElement
<1>3. ASSUME b \notin S \ {a} PROVE Cardinality((S \ {a}) \cup {b}) = Cardinality(S)
  <2>1. Cardinality((S \ {a}) \cup {b}) = Cardinality(S \ {a}) + 1  BY <1>1, <1>3, FS_AddElement
  <2>2. QED  BY <1>1, <2>1
<1>4. QED  BY <1>2, <1>3

\* The owners are finitely many.
LEMMA OwnersFinite ==
    IsFiniteSet(stray) => IsFiniteSet(Owners) /\ Cardinality(Owners) \in Nat
<1> SUFFICES ASSUME IsFiniteSet(stray) PROVE IsFiniteSet(Owners) /\ Cardinality(Owners) \in Nat
  OBVIOUS
<1>1. IsFiniteSet(stray \cup {task})  BY FS_AddElement
<1>2. Owners \subseteq stray \cup {task}  BY DEF Owners
<1>3. QED  BY <1>1, <1>2, FS_Subset, FS_CardinalityType

-----------------------------------------------------------------------------
(***************************************************************************)
(* The first state.                                                        *)
(***************************************************************************)
LEMMA NoTaskTyped == NoTask \in Requests
<1>1. 0 \in 0..MaxTokens  BY BoundAssumption
<1>2. "none" \in Replies  BY DEF Replies
<1>3. /\ "none" \in Ops /\ "none" \in Places
      /\ "none" \in {"none", "asking", "waiting", "frames", "again"}
      /\ "none" \in Words \cup Scopes \cup Albums \cup {"none"}
  BY DEF Ops, Places
<1>4. QED  BY <1>1, <1>2, <1>3 DEF NoTask, Requests

LEMMA InitIInv == Init => IInv
<1> SUFFICES ASSUME Init PROVE IInv  OBVIOUS
<1> USE DEF Init
<1>0. MaxTokens \in Nat \ {0} /\ MaxVisits \in Nat /\ MaxFaults \in Nat  BY BoundAssumption
<1>1. TypeOK
  <2>1. task \in Requests /\ stray \subseteq Requests  BY NoTaskTyped
  <2>2. tokens \in [Tokens -> {"unused", "live", "dead"}]  OBVIOUS
  <2>3. screen \in [kind : Kinds, phase : Phases]  BY DEF Kinds, Phases
  <2>4. store \in 0..MaxTokens /\ token \in 0..MaxTokens
        /\ visits \in 0..MaxVisits /\ faults \in 0..MaxFaults
    BY <1>0
  <2>5. QED  BY <2>1, <2>2, <2>3, <2>4 DEF TypeOK
<1>2. TokensOK
  <2>1. \A t, u \in Tokens : u < t /\ tokens[u] = "unused" => tokens[t] = "unused"
    BY <1>0 DEF Tokens
  <2>2. Named = {store, 0} /\ (store # 0 => store \in Tokens)  BY <1>0 DEF Named, NoTask, Tokens
  <2>3. \A t \in Named : t # 0 => tokens[t] # "unused"  BY <2>2
  <2>4. QED  BY <2>1, <2>3 DEF TokensOK, NoTask, Signed, Bearing
<1>3. TaskOK
  <2>1. IsFiniteSet(stray)  BY FS_EmptySet
  <2>2. QED  BY <2>1 DEF TaskOK, NoTask, Course
<1>4. ShapeOK  BY DEF ShapeOK, NoTask, Dead
<1>5. KeysOK  BY DEF KeysOK, NoTask
<1>6. HandlesOK
  <2>1. Owners = {}  BY DEF Owners, NoTask
  <2>2. QED  BY <2>1, FS_EmptySet, NothingReferenced DEF HandlesOK
<1>7. QED  BY <1>1, <1>2, <1>3, <1>4, <1>5, <1>6 DEF IInv
-----------------------------------------------------------------------------
(***************************************************************************)
(* The server.                                                             *)
(***************************************************************************)

\* The types, part by part.
LEMMA Typed ==
    IInv => /\ account \in BOOLEAN /\ offline \in BOOLEAN /\ poisoned \in BOOLEAN
            /\ reran \in BOOLEAN
            /\ tokens \in [Tokens -> {"unused", "live", "dead"}]
            /\ albums \subseteq Albums /\ list \subseteq Albums /\ keys \in SUBSET Albums
            /\ store \in 0..MaxTokens /\ token \in 0..MaxTokens
            /\ screen \in [kind : Kinds, phase : Phases]
            /\ form \in {"closed", "open", "creating", "failed"}
            /\ out \in {"no", "asked"} \cup Scopes
            /\ paused \in {"none", "signin", "signup"}
            /\ holds \in SUBSET {"kek", "master", "material"} /\ handles \in Nat
            /\ task \in Requests /\ stray \subseteq Requests /\ ended \subseteq Tokens
            /\ visits \in 0..MaxVisits /\ faults \in 0..MaxFaults
BY DEF IInv, TypeOK

\* Tokens only age: they are minted in order, and what is dead stays dead.
Ages(toks) ==
    /\ toks \in [Tokens -> {"unused", "live", "dead"}]
    /\ \A t, u \in Tokens : u < t /\ toks[u] = "unused" => toks[t] = "unused"
    /\ \A t \in Tokens : /\ tokens[t] # "unused" => toks[t] # "unused"
                         /\ tokens[t] = "dead" => toks[t] = "dead"

\* What the handling of a step leaves of a request: its answer, and its token.
Answers(r, o) ==
    /\ o.req \in Requests
    /\ o.req.op = r.op /\ o.req.at = r.at /\ o.req.wait = r.wait /\ o.req.arg = r.arg
    /\ o.req.tok # 0 => o.tokens[o.req.tok] # "unused"
    /\ r.at \in {"login", "signup"} => (o.req.reply = "ok" => o.req.tok # 0)
    /\ r.at \notin {"login", "signup"} => o.req.tok = r.tok
    /\ r.at \in Bearing /\ r.tok # 0 /\ o.req.reply = "denied" => o.tokens[r.tok] = "dead"
    /\ r.at = "logout" /\ o.req.reply = "ok" =>
         /\ o.tokens[r.tok] = "dead"
         /\ r.arg = "all" => \A t \in 1..r.tok : o.tokens[t] = "dead"
    /\ r.at = "create" /\ o.req.reply \in {"ok", "conflict"} => r.arg \in o.albums

LEMMA AgesAlike == IInv => Ages(tokens)
BY Typed DEF IInv, TokensOK, Ages

LEMMA DyingAges ==
    ASSUME IInv, NEW gone \in SUBSET {t \in Tokens : tokens[t] = "live"}
    PROVE  Ages([t \in Tokens |-> IF t \in gone THEN "dead" ELSE tokens[t]])
<1>1. tokens \in [Tokens -> {"unused", "live", "dead"}]  BY Typed
<1>2. \A t, u \in Tokens : u < t /\ tokens[u] = "unused" => tokens[t] = "unused"
  BY DEF IInv, TokensOK
<1>3. \A t \in gone : t \in Tokens /\ tokens[t] = "live"  OBVIOUS
<1>4. QED  BY <1>1, <1>2, <1>3 DEF Ages

\* An answer that changes no row.
LEMMA SaysAnswers ==
    ASSUME IInv, NEW r \in Requests, r.tok # 0 => tokens[r.tok] # "unused",
           NEW reply \in Replies,
           r.at \in {"login", "signup", "logout"} => reply # "ok",
           r.at \in Bearing /\ r.tok # 0 /\ reply = "denied" => tokens[r.tok] = "dead",
           r.at = "create" /\ reply \in {"ok", "conflict"} => r.arg \in albums
    PROVE  Answers(r, Says(r, reply))
<1> DEFINE q == [r EXCEPT !.reply = reply]
<1>1. q \in Requests /\ q.op = r.op /\ q.at = r.at /\ q.wait = r.wait /\ q.arg = r.arg
      /\ q.tok = r.tok /\ q.reply = reply
  BY DEF Requests
<1>2. Says(r, reply) = [req |-> q, account |-> account, tokens |-> tokens, albums |-> albums]
  BY DEF Says, Result
<1> HIDE DEF q
<1>3. QED  BY <1>1, <1>2 DEF Answers

LEMMA MintedAnswers ==
    ASSUME IInv, NEW r \in Requests, r.at \in {"login", "signup"}, NEW o \in Minted(r)
    PROVE  /\ Answers(r, o) /\ Ages(o.tokens)
           /\ o.account = account /\ o.albums = albums
<1>1. PICK t \in Tokens :
         /\ tokens[t] = "unused" /\ \A v \in Tokens : v < t => tokens[v] # "unused"
         /\ o = Result([r EXCEPT !.tok = t], "ok", account, [tokens EXCEPT ![t] = "live"], albums)
  BY DEF Minted
<1> DEFINE q == [[r EXCEPT !.tok = t] EXCEPT !.reply = "ok"]
           toks == [tokens EXCEPT ![t] = "live"]
<1>2. t \in 0..MaxTokens /\ t # 0  BY BoundAssumption DEF Tokens
<1>3. q \in Requests /\ q.op = r.op /\ q.at = r.at /\ q.wait = r.wait /\ q.arg = r.arg
      /\ q.tok = t /\ q.reply = "ok"
  BY <1>2 DEF Requests, Replies
<1>4. o = [req |-> q, account |-> account, tokens |-> toks, albums |-> albums]
  BY <1>1 DEF Result
<1>5. tokens \in [Tokens -> {"unused", "live", "dead"}]  BY Typed
<1>6. \A u, v \in Tokens : v < u /\ tokens[v] = "unused" => tokens[u] = "unused"
  BY DEF IInv, TokensOK
<1>7. toks[t] = "live" /\ \A u \in Tokens : u # t => toks[u] = tokens[u]  BY <1>5
<1>8. toks \in [Tokens -> {"unused", "live", "dead"}]  BY <1>5
<1> HIDE DEF q, toks
<1>9. \A u, v \in Tokens : v < u /\ toks[v] = "unused" => toks[u] = "unused"
  <2> SUFFICES ASSUME NEW u \in Tokens, NEW v \in Tokens, v < u, toks[v] = "unused"
               PROVE  toks[u] = "unused"
    OBVIOUS
  <2>1. v # t /\ tokens[v] = "unused"  BY <1>7
  <2>2. tokens[u] = "unused"  BY <1>6, <2>1
  <2>3. u # t  BY <1>1, <2>1
  <2>4. QED  BY <1>7, <2>2, <2>3
<1>10. Ages(toks)  BY <1>1, <1>7, <1>8, <1>9 DEF Ages
<1>11. QED  BY <1>2, <1>3, <1>4, <1>7, <1>10 DEF Answers, Bearing

\* authenticateOwner found the token alive, and logout revokes it.
LEMMA LogoutAnswers ==
    ASSUME IInv, NEW r \in Requests, r.at \notin {"login", "signup", "create"},
           Live(r.tok), NEW o \in HandlesLogout(r)
    PROVE  /\ Answers(r, o) /\ Ages(o.tokens)
           /\ o.account = account /\ o.albums = albums
<1>1. r.tok \in 0..MaxTokens /\ r.tok # 0 /\ tokens[r.tok] = "live"  BY DEF Live, Requests
<1>2. r.tok \in Tokens  BY <1>1, BoundAssumption DEF Tokens
<1> DEFINE gone == IF r.arg = "all" THEN {t \in Tokens : Live(t)} ELSE {r.tok}
           toks == [t \in Tokens |-> IF t \in gone THEN "dead" ELSE tokens[t]]
           q == [r EXCEPT !.reply = "ok"]
<1>3. o = [req |-> q, account |-> account, tokens |-> toks, albums |-> albums]
  BY DEF HandlesLogout, Result
<1>4. q \in Requests /\ q.op = r.op /\ q.at = r.at /\ q.wait = r.wait /\ q.arg = r.arg
      /\ q.tok = r.tok /\ q.reply = "ok"
  BY DEF Requests, Replies
<1>5. gone \in SUBSET {t \in Tokens : tokens[t] = "live"} /\ r.tok \in gone
  BY <1>1, <1>2 DEF Live
<1> HIDE DEF gone, q
<1>6. Ages(toks)  BY <1>5, DyingAges
<1>7. toks[r.tok] = "dead"  BY <1>2, <1>5
<1>8. r.arg = "all" => \A t \in 1..r.tok : toks[t] = "dead"
  <2> SUFFICES ASSUME r.arg = "all", NEW t \in 1..r.tok PROVE toks[t] = "dead"
    OBVIOUS
  <2>1. t \in Tokens /\ (t < r.tok \/ t = r.tok)  BY <1>1, BoundAssumption DEF Tokens
  <2>2. tokens[t] # "unused"  BY <1>1, <1>2, <2>1 DEF IInv, TokensOK
  <2>3. tokens[t] = "live" \/ tokens[t] = "dead"  BY <2>1, <2>2, Typed
  <2>4. tokens[t] = "live" => t \in gone  BY <2>1, BoundAssumption DEF gone, Live, Tokens
  <2>5. QED  BY <2>1, <2>3, <2>4
<1> HIDE DEF toks
<1>9. QED  BY <1>1, <1>3, <1>4, <1>6, <1>7, <1>8 DEF Answers
\* Whoever is named was minted.
LEMMA NamedIsUsed ==
    IInv => \A t \in Named : t \in 0..MaxTokens /\ (t # 0 => t \in Tokens /\ tokens[t] # "unused")
<1> SUFFICES ASSUME IInv, NEW t \in Named
             PROVE  t \in 0..MaxTokens /\ (t # 0 => t \in Tokens /\ tokens[t] # "unused")
  OBVIOUS
<1>1. t \in 0..MaxTokens  BY Typed DEF Named, Requests
<1>2. t # 0 => t \in Tokens  BY <1>1, BoundAssumption DEF Tokens
<1>3. t # 0 => tokens[t] # "unused"  BY DEF IInv, TokensOK
<1>4. QED  BY <1>1, <1>2, <1>3

\* Handling a step of a request, whoever made it.
LEMMA Served ==
    ASSUME IInv, NEW r \in stray \cup {task}, InHand(r), NEW o \in Outcomes(r)
    PROVE  /\ Answers(r, o) /\ Ages(o.tokens) /\ o.account \in BOOLEAN
           /\ albums \subseteq o.albums /\ o.albums \subseteq Albums
<1>1. r \in Requests /\ r.tok \in Named  BY Typed DEF Named
<1>2. /\ r.tok # 0 => r.tok \in Tokens /\ tokens[r.tok] # "unused"
      /\ account \in BOOLEAN /\ albums \subseteq Albums
      /\ tokens \in [Tokens -> {"unused", "live", "dead"}]
  BY <1>1, NamedIsUsed, Typed
<1>3. r.tok # 0 /\ ~Live(r.tok) => tokens[r.tok] = "dead"  BY <1>2 DEF Live
<1>4. ASSUME NEW reply \in Replies, o = Says(r, reply),
             r.at \in {"login", "signup", "logout"} => reply # "ok",
             r.at \in Bearing /\ r.tok # 0 /\ reply = "denied" => tokens[r.tok] = "dead",
             r.at = "create" /\ reply \in {"ok", "conflict"} => r.arg \in albums
      PROVE  Answers(r, o) /\ Ages(o.tokens) /\ o.account = account /\ o.albums = albums
  <2>1. Answers(r, Says(r, reply))  BY <1>1, <1>2, <1>4, SaysAnswers
  <2>2. o.account = account /\ o.tokens = tokens /\ o.albums = albums  BY <1>4 DEF Says, Result
  <2>3. QED  BY <1>4, <2>1, <2>2, AgesAlike
<1>0. /\ r.at = "params" => Outcomes(r) = {Says(r, "ok")}
      /\ r.at = "login" => Outcomes(r) = HandlesLogin(r)
      /\ r.at = "signup" => Outcomes(r) = HandlesSignup(r)
      /\ r.at \notin {"params", "login", "signup"} /\ ~Live(r.tok) => Outcomes(r) = {Says(r, "denied")}
  BY DEF Outcomes
<1>5. CASE r.at = "params"
  <2>1. o = Says(r, "ok") /\ "ok" \in Replies  BY <1>0, <1>5 DEF Replies
  <2>2. QED  BY <1>2, <1>4, <1>5, <2>1 DEF Bearing
<1>6. CASE r.at = "login"
  <2>1. CASE r.reply = "verified"
    <3>1. o \in Minted(r)  BY <1>0, <1>6, <2>1 DEF HandlesLogin
    <3>2. QED  BY <1>1, <1>2, <1>6, <3>1, MintedAnswers
  <2>2. CASE r.reply # "verified"
    <3>1. \E reply \in {"verified", "denied"} : o = Says(r, reply)
      BY <1>6, <2>2 DEF Outcomes, HandlesLogin
    <3>2. {"verified", "denied"} \subseteq Replies  BY DEF Replies
    <3>3. QED  BY <1>2, <1>4, <1>6, <3>1, <3>2 DEF Bearing
  <2>3. QED  BY <2>1, <2>2
<1>7. CASE r.at = "signup"
  <2>1. CASE r.reply = "created"
    <3>1. o \in Minted(r)  BY <1>0, <1>7, <2>1 DEF HandlesSignup
    <3>2. QED  BY <1>1, <1>2, <1>7, <3>1, MintedAnswers
  <2>2. CASE r.reply # "created" /\ \E reply \in {"not-allowed", "taken"} : o = Says(r, reply)
    <3>1. {"not-allowed", "taken"} \subseteq Replies  BY DEF Replies
    <3>2. QED  BY <1>2, <1>4, <1>7, <2>2, <3>1 DEF Bearing
  <2>3. CASE r.reply # "created" /\ o = Result(r, "created", TRUE, tokens, albums)
    <3>1. "created" \in Replies  BY DEF Replies
    <3>2. Answers(r, Says(r, "created"))  BY <1>1, <1>2, <1>7, <3>1, SaysAnswers DEF Bearing
    <3>3. /\ o.req = Says(r, "created").req /\ o.tokens = Says(r, "created").tokens
          /\ o.albums = Says(r, "created").albums /\ o.account = TRUE
          /\ o.albums = albums /\ o.tokens = tokens
      BY <2>3 DEF Says, Result
    <3>4. Answers(r, o)  BY <3>2, <3>3 DEF Answers
    <3>5. QED  BY <1>2, <3>3, <3>4, AgesAlike
  <2>4. o \in HandlesSignup(r)  BY <1>0, <1>7
  <2>5. QED  BY <2>1, <2>2, <2>3, <2>4 DEF HandlesSignup
<1>8. CASE r.at \notin {"params", "login", "signup"} /\ ~Live(r.tok)
  <2>1. o = Says(r, "denied") /\ "denied" \in Replies  BY <1>0, <1>8 DEF Replies
  <2>2. QED  BY <1>2, <1>3, <1>4, <1>8, <2>1
<1>9. CASE r.at \in {"ownerKey", "albums"} /\ Live(r.tok)
  <2>1. o = Says(r, "ok") /\ "ok" \in Replies  BY <1>9 DEF Outcomes, Replies
  <2>2. QED  BY <1>2, <1>4, <1>9, <2>1
<1>10. CASE r.at = "create" /\ Live(r.tok)
  <2>1. o \in HandlesCreate(r)  BY <1>10 DEF Outcomes
  <2>2. r.arg \in Albums  BY <1>10 DEF IInv, TaskOK
  <2>3. CASE r.arg \in albums
    <3>1. o = Says(r, "conflict") /\ "conflict" \in Replies
      BY <2>1, <2>3 DEF HandlesCreate, Replies
    <3>2. QED  BY <1>2, <1>4, <1>10, <2>3, <3>1
  <2>4. CASE r.arg \notin albums
    <3> DEFINE q == [r EXCEPT !.reply = "ok"]
               more == albums \cup {r.arg}
    <3>1. o = [req |-> q, account |-> account, tokens |-> tokens, albums |-> more]
      BY <2>1, <2>4 DEF HandlesCreate, Result
    <3>2. q \in Requests /\ q.op = r.op /\ q.at = r.at /\ q.wait = r.wait /\ q.arg = r.arg
          /\ q.tok = r.tok /\ q.reply = "ok"
      BY <1>1 DEF Requests, Replies
    <3>3. albums \subseteq more /\ more \subseteq Albums /\ r.arg \in more  BY <1>2, <2>2
    <3> HIDE DEF q, more
    <3>4. QED  BY <1>2, <1>10, <3>1, <3>2, <3>3, AgesAlike DEF Answers
  <2>5. QED  BY <2>3, <2>4
<1>11. CASE r.at \notin {"params", "login", "signup", "ownerKey", "albums", "create"} /\ Live(r.tok)
  <2>1. o \in HandlesLogout(r)  BY <1>11 DEF Outcomes
  <2>2. QED  BY <1>1, <1>2, <1>11, <2>1, LogoutAnswers
<1>12. QED  BY <1>5, <1>6, <1>7, <1>8, <1>9, <1>10, <1>11

\* What the tokens' ageing keeps, of the names that are left as they are.
LEMMA StaysSaid ==
    ASSUME IInv, Ages(tokens'), albums \subseteq albums', albums' \subseteq Albums
    PROVE  /\ \A t, u \in Tokens : u < t /\ tokens'[u] = "unused" => tokens'[t] = "unused"
           /\ \A t \in Named : t # 0 => tokens'[t] # "unused"
           /\ \A t \in Tokens : Dying(t) => Dying(t)'
           /\ \A t \in ended : Dying(t)'
           /\ tokens' \in [Tokens -> {"unused", "live", "dead"}]
<1>1. \A t \in ended : t \in Tokens /\ Dying(t)  BY Typed DEF IInv, TokensOK
<1>2. \A t \in Tokens : Dying(t) => Dying(t)'  BY DEF Ages, Dying
<1>3. QED  BY <1>1, <1>2, NamedIsUsed DEF Ages

\* A request in the place of the one it answers is as much an owner.
LEMMA OwnersAnswered ==
    ASSUME IInv, NEW r \in stray \cup {task}, NEW q, q.op = r.op, q.arg = r.arg,
           \/ r = task /\ task' = q /\ stray' = stray
           \/ r \in stray /\ task' = task /\ stray' = (stray \ {r}) \cup {q}
    PROVE  IsFiniteSet(stray') /\ Cardinality(Owners') = Cardinality(Owners)
<1>1. /\ IsFiniteSet(stray)
      /\ \A x, y \in stray : x.op = "create" /\ y.op = "create" /\ x.arg = y.arg => x = y
      /\ task.op = "create" => \A x \in stray : x.op = "create" => x.arg # task.arg
  BY DEF IInv, TaskOK
<1>2. IsFiniteSet(stray')
  <2>1. CASE r \in stray /\ stray' = (stray \ {r}) \cup {q}  BY <1>1, <2>1, Replaced
  <2>2. QED  BY <1>1, <2>1
<1>3. CASE r.op # "create"
  <2>1. q.op # "create"  BY <1>3
  <2>2. Owners' = Owners  BY <1>3, <2>1 DEF Owners
  <2>3. QED  BY <1>2, <2>2
<1>4. CASE r.op = "create"
  <2>1. \A x \in Owners : x # r => x.arg # r.arg  BY <1>1, <1>4 DEF Owners
  <2>2. r \in Owners /\ q \notin Owners \ {r}  BY <1>4, <2>1 DEF Owners
  <2>3. Owners' = (Owners \ {r}) \cup {q}
    <3>1. CASE r = task /\ task' = q /\ stray' = stray
      <4>1. r \notin stray  BY <1>1, <1>4, <3>1
      <4>2. QED  BY <1>4, <3>1, <4>1 DEF Owners
    <3>2. CASE r \in stray /\ task' = task /\ stray' = (stray \ {r}) \cup {q}
      <4>1. r # task  BY <1>1, <1>4, <3>2
      <4>2. QED  BY <1>4, <3>2, <4>1 DEF Owners
    <3>3. QED  BY <3>1, <3>2
  <2>4. QED  BY <1>1, <1>2, <2>2, <2>3, OwnersFinite, Replaced
<1>5. QED  BY <1>3, <1>4

\* The handles are counted as they were.
LEMMA HandlesKept ==
    ASSUME IInv, UNCHANGED <<holds, keys, handles, poisoned>>, reran' \in {reran, TRUE},
           Cardinality(Owners') = Cardinality(Owners)
    PROVE  HandlesOK'
BY DEF IInv, HandlesOK
\* A request that the server handled, in the place of the one it answers.
LEMMA Handled ==
    ASSUME IInv, NEW r \in stray \cup {task}, InHand(r), NEW o \in Outcomes(r), Leaves(o),
           UNCHANGED <<page, held, kept, ended, counts>>,
           \/ r = task /\ task' = o.req /\ stray' = stray
           \/ r \in stray /\ task' = task /\ stray' = (stray \ {r}) \cup {o.req}
    PROVE  IInv'
<1>1. UNCHANGED <<screen, form, out, paused, offline, list, holds, keys, handles, reran,
                  poisoned, store, token, ended, visits, faults>>
  BY DEF page, held, kept, counts
<1>2. /\ Answers(r, o) /\ Ages(tokens') /\ account' \in BOOLEAN
      /\ albums \subseteq albums' /\ albums' \subseteq Albums
      /\ tokens' = o.tokens /\ albums' = o.albums
  BY Served DEF Leaves
<1>3. /\ o.req \in Requests
      /\ o.req.op = r.op /\ o.req.at = r.at /\ o.req.wait = r.wait /\ o.req.arg = r.arg
  BY <1>2 DEF Answers
<1>4. task' \in Requests /\ stray' \subseteq Requests  BY <1>3, Typed
<1>5. task'.op = task.op /\ task'.at = task.at /\ task'.wait = task.wait /\ task'.arg = task.arg
  BY <1>3
<1>6. TypeOK'
  <2>1. tokens' \in [Tokens -> {"unused", "live", "dead"}]  BY <1>2 DEF Ages
  <2>2. QED  BY <1>1, <1>2, <1>4, <2>1, Typed DEF TypeOK
<1>7. TokensOK'
  <2>1. /\ \A t, u \in Tokens : u < t /\ tokens'[u] = "unused" => tokens'[t] = "unused"
        /\ \A t \in Named : t # 0 => tokens'[t] # "unused"
        /\ \A t \in Tokens : Dying(t) => Dying(t)'
        /\ \A t \in ended : Dying(t)'
    BY <1>2, StaysSaid
  <2>2. \A t \in Named' : t \in Named \/ t = o.req.tok  BY <1>1 DEF Named
  <2>3. \A t \in Named' : t # 0 => tokens'[t] # "unused"  BY <1>2, <2>1, <2>2 DEF Answers
  <2>4. TokensOK  BY DEF IInv
  <2>5. CASE r = task /\ task' = o.req
    <3>1. /\ task'.at \in Bearing => task'.tok # 0 /\ task'.tok = task.tok
          /\ task'.at \in {"login", "signup"} /\ task'.reply = "ok" => task'.tok # 0
          /\ task'.at \in Bearing /\ task'.reply = "denied" => tokens'[task.tok] = "dead"
          /\ task'.at = "logout" /\ task'.reply = "ok" =>
               tokens'[task.tok] = "dead"
               /\ (task'.arg = "all" => \A t \in 1..task.tok : tokens'[t] = "dead")
      BY <1>2, <1>5, <2>4, <2>5 DEF Answers, TokensOK, Bearing
    <3>2. QED  BY <1>1, <1>5, <2>1, <2>3, <2>4, <3>1 DEF TokensOK, Dying, Bearing
  <2>6. CASE task' = task
    <3>1. task.tok \in 0..MaxTokens /\ (task.tok # 0 => task.tok \in Tokens)
      BY NamedIsUsed DEF Named
    <3>2. \A t \in 1..task.tok : t \in Tokens  BY <3>1, BoundAssumption DEF Tokens
    <3>3. QED  BY <1>1, <2>1, <2>3, <2>4, <2>6, <3>1, <3>2 DEF TokensOK, Bearing
  <2>7. QED  BY <2>5, <2>6
<1>8. IsFiniteSet(stray') /\ Cardinality(Owners') = Cardinality(Owners)
  BY <1>3, OwnersAnswered
<1>9. r = task => task.op # "none"
  BY DEF InHand, NoTask, IInv, TaskOK
<1>10. TaskOK'
  <2>1. TaskOK  BY DEF IInv
  <2>2. \A x \in stray' \cup {task'} : x.at = "create" => x.arg \in Albums
    BY <1>3, <2>1 DEF TaskOK
  <2>3. task'.op = "create" /\ task'.reply \in {"ok", "conflict"} => task'.arg \in albums'
    BY <1>2, <1>5, <2>1 DEF TaskOK, Answers, Course
  <2>4. \A x, y \in stray' : x.op = "create" /\ y.op = "create" /\ x.arg = y.arg => x = y
    BY <1>3, <2>1 DEF TaskOK
  <2>5. task'.op = "create" => \A x \in stray' : x.op = "create" => x.arg # task'.arg
    BY <1>3, <1>5, <2>1 DEF TaskOK
  <2>6. task'.op = "none" => task' = NoTask  BY <1>3, <1>9, <2>1 DEF TaskOK
  <2>7. task'.at = "policy" \/ offline' => task'.reply = "none"
    BY <1>1, <1>5, <2>1 DEF TaskOK, InHand
  <2>8. QED  BY <1>1, <1>5, <1>8, <2>1, <2>2, <2>3, <2>4, <2>5, <2>6, <2>7 DEF TaskOK
<1>11. ShapeOK'
  <2>1. Dead => task' = NoTask
    <3>1. Dead => task = NoTask  BY DEF IInv, ShapeOK
    <3>2. task = NoTask => r # task  BY <1>9 DEF NoTask
    <3>3. QED  BY <3>1, <3>2
  <2>2. Dead' <=> Dead  BY <1>1 DEF Dead
  <2>3. QED  BY <1>1, <1>5, <2>1, <2>2 DEF IInv, ShapeOK
<1>12. KeysOK'  BY <1>1, <1>2, <1>5 DEF IInv, KeysOK
<1>13. HandlesOK'  BY <1>1, <1>8, HandlesKept
<1>14. QED  BY <1>6, <1>7, <1>10, <1>11, <1>12, <1>13 DEF IInv

LEMMA NextServe == ASSUME IInv, Serve PROVE IInv'
<1>1. PICK o \in Outcomes(task) : Leaves(o) /\ task' = o.req  BY DEF Serve
<1>2. InHand(task) /\ stray' = stray /\ UNCHANGED <<page, held, kept, ended, counts>>
  BY DEF Serve
<1>3. QED  BY <1>1, <1>2, Handled

LEMMA NextServeStray == ASSUME IInv, NEW r \in stray, ServeStray(r) PROVE IInv'
<1>1. PICK o \in Outcomes(r) : Leaves(o) /\ stray' = (stray \ {r}) \cup {o.req}
  BY DEF ServeStray
<1>2. InHand(r) /\ task' = task /\ UNCHANGED <<page, held, kept, ended, counts>>
  BY DEF ServeStray
<1>3. QED  BY <1>1, <1>2, Handled

\* A session that ends elsewhere.
LEMMA NextEndsElsewhere == ASSUME IInv, EndsElsewhere PROVE IInv'
<1>1. /\ UNCHANGED <<account, albums, page, held, kept, work, ended, visits>>
      /\ faults' \in 0..MaxFaults
  BY Typed, BoundAssumption DEF EndsElsewhere, Fault
<1>2. UNCHANGED <<account, albums, screen, form, out, paused, offline, list, holds, keys,
                  handles, reran, poisoned, store, token, task, stray, ended, visits>>
  BY <1>1 DEF page, held, kept, work
<1>3. \E gone \in SUBSET {t \in Tokens : tokens[t] = "live"} :
         tokens' = [t \in Tokens |-> IF t \in gone THEN "dead" ELSE tokens[t]]
  <2>1. tokens \in [Tokens -> {"unused", "live", "dead"}]  BY Typed
  <2>2. \A t \in Tokens : Live(t) <=> tokens[t] = "live"  BY BoundAssumption DEF Live, Tokens
  <2>3. CASE tokens' = [t \in Tokens |-> IF Live(t) THEN "dead" ELSE tokens[t]]
    <3> DEFINE gone == {t \in Tokens : tokens[t] = "live"}
    <3>1. tokens' = [t \in Tokens |-> IF t \in gone THEN "dead" ELSE tokens[t]]
      BY <2>2, <2>3
    <3>2. QED  BY <3>1
  <2>4. CASE \E t \in Tokens : Live(t) /\ tokens' = [tokens EXCEPT ![t] = "dead"]
    <3>1. PICK u \in Tokens : Live(u) /\ tokens' = [tokens EXCEPT ![u] = "dead"]  BY <2>4
    <3>2. tokens' = [t \in Tokens |-> IF t \in {u} THEN "dead" ELSE tokens[t]]
      BY <2>1, <3>1
    <3>3. {u} \in SUBSET {t \in Tokens : tokens[t] = "live"}  BY <2>2, <3>1
    <3>4. QED  BY <3>2, <3>3
  <2>5. QED  BY <2>3, <2>4 DEF EndsElsewhere
<1>4. Ages(tokens')  BY <1>3, DyingAges
<1>5. TypeOK'  BY <1>1, <1>2, <1>4, Typed DEF TypeOK, Ages
<1>6. TokensOK'
  <2>1. /\ \A t, u \in Tokens : u < t /\ tokens'[u] = "unused" => tokens'[t] = "unused"
        /\ \A t \in Named : t # 0 => tokens'[t] # "unused"
        /\ \A t \in Tokens : Dying(t) => Dying(t)'
        /\ \A t \in ended : Dying(t)'
    BY <1>2, <1>4, StaysSaid, Typed
  <2>2. Named' = Named /\ TokensOK  BY <1>2 DEF Named, IInv
  <2>3. task.tok \in 0..MaxTokens /\ (task.tok # 0 => task.tok \in Tokens)
    BY NamedIsUsed DEF Named
  <2>4. \A t \in 1..task.tok : t \in Tokens  BY <2>3, BoundAssumption DEF Tokens
  <2>5. QED  BY <1>2, <2>1, <2>2, <2>3, <2>4 DEF TokensOK, Bearing
<1>7. TaskOK' /\ ShapeOK' /\ KeysOK'
  BY <1>2 DEF IInv, TaskOK, ShapeOK, KeysOK, Dead
<1>8. HandlesOK'
  <2>1. Owners' = Owners  BY <1>2 DEF Owners
  <2>2. QED  BY <1>2, <2>1, HandlesKept
<1>9. QED  BY <1>5, <1>6, <1>7, <1>8 DEF IInv
-----------------------------------------------------------------------------
(***************************************************************************)
(* A task that waits, fails and is asked again.                            *)
(***************************************************************************)

\* The tokens stand, and no answer has been given yet.
LEMMA TokensMove ==
    ASSUME IInv, UNCHANGED <<tokens, stray, ended>>, task'.reply \notin {"ok", "denied"},
           {store', token', task'.tok} \subseteq {0, store, token, task.tok},
           screen'.kind \in Signed \/ task'.op = "unlock" \/ task'.at \in Bearing => token' # 0,
           task'.at \in Bearing => task'.tok # 0
    PROVE  TokensOK'
<1>1. TokensOK  BY DEF IInv
<1>2. \A t \in Named' : t = 0 \/ t \in Named  BY DEF Named
<1>3. \A t \in Named' : t # 0 => tokens'[t] # "unused"  BY <1>1, <1>2 DEF TokensOK
<1>4. QED  BY <1>1, <1>3 DEF TokensOK, Dying

\* A task that stays what it is: it may ask again from its first step, behind
\* another screen, once it has been marked as run again.
LEMMA Retried ==
    ASSUME IInv, UNCHANGED <<server, screen, form, out, paused, list, holds, keys, handles,
                             poisoned, kept, stray, ended, visits>>,
           reran' \in {reran, TRUE}, faults' \in 0..MaxFaults,
           task' \in Requests, task'.op = task.op, task'.arg = task.arg,
           task.op # "none", task'.wait # "none",
           \/ task'.at = task.at /\ task'.tok = task.tok
           \/ reran' /\ task'.at \in {"none", "params"} /\ task'.tok \in {0, task.tok},
           Course(task'.op, task'.at), task'.reply \notin {"ok", "denied", "conflict"},
           offline' \in BOOLEAN, offline' <=> task'.wait \in {"waiting", "again"},
           task'.wait = "again" => task'.at \in {"ownerKey", "albums"},
           task'.at = "policy" \/ offline' => task'.reply = "none",
           task'.wait = "frames" <=> task'.at = "none"
    PROVE  IInv'
<1>1. UNCHANGED <<account, tokens, albums, store, token>>  BY DEF server, kept
<1>2. TypeOK'  BY <1>1, Typed DEF TypeOK
<1>3. TokensOK'
  <2>1. TokensOK  BY DEF IInv
  <2>2. task'.at \in Bearing => task'.at = task.at /\ task'.tok = task.tok  BY DEF Bearing
  <2>3. screen'.kind \in Signed \/ task'.op = "unlock" \/ task'.at \in Bearing => token' # 0
    BY <1>1, <2>1, <2>2 DEF TokensOK
  <2>4. task'.at \in Bearing => task'.tok # 0  BY <2>1, <2>2 DEF TokensOK
  <2>5. QED  BY <1>1, <2>3, <2>4, TokensMove
<1>4. task'.at = "create" => task.at = "create"  OBVIOUS
<1>5. TaskOK'
  <2>1. TaskOK  BY DEF IInv
  <2>2. QED  BY <1>1, <1>4, <2>1 DEF TaskOK
<1>6. ShapeOK'
  <2>1. Dead' <=> Dead  BY DEF Dead
  <2>2. Dead => task = NoTask  BY DEF IInv, ShapeOK
  <2>3. ~Dead  BY <2>2 DEF NoTask
  <2>4. QED  BY <2>1, <2>3 DEF IInv, ShapeOK
<1>7. KeysOK'  BY <1>1 DEF IInv, KeysOK
<1>8. HandlesOK'
  <2>1. Cardinality(Owners') = Cardinality(Owners)  BY OwnersAnswered
  <2>2. QED  BY <2>1, HandlesKept
<1>9. QED  BY <1>2, <1>3, <1>5, <1>6, <1>7, <1>8 DEF IInv

\* What a task that asks is known to be.
LEMMA Asking ==
    IInv /\ task.wait = "asking" =>
       task.op # "none" /\ task.at # "none" /\ ~offline /\ Course(task.op, task.at)
<1> SUFFICES ASSUME IInv, task.wait = "asking"
             PROVE  task.op # "none" /\ task.at # "none" /\ ~offline /\ Course(task.op, task.at)
  OBVIOUS
<1>1. TaskOK  BY DEF IInv
<1>2. task.op # "none"  BY <1>1 DEF TaskOK, NoTask
<1>3. QED  BY <1>1, <1>2 DEF TaskOK

LEMMA NextFails == ASSUME IInv, Fails PROVE IInv'
<1>1. PICK reply \in {"lost", "fault", "limited", "odd"} : task' = [task EXCEPT !.reply = reply]
  BY DEF Fails
<1>2. /\ task.wait = "asking" /\ faults' \in 0..MaxFaults
      /\ UNCHANGED <<server, page, held, kept, stray, ended, visits>>
  BY Typed, BoundAssumption DEF Fails, Fault, InHand
<1>3. UNCHANGED <<screen, form, out, paused, offline, list, holds, keys, handles, reran, poisoned>>
  BY <1>2 DEF page, held
<1>4. task \in Requests  BY Typed
<1>5. /\ task' \in Requests /\ task'.op = task.op /\ task'.arg = task.arg
      /\ task'.at = task.at /\ task'.tok = task.tok /\ task'.wait = "asking"
      /\ task'.reply = reply
  BY <1>1, <1>2, <1>4 DEF Requests, Replies
<1>6. ~offline /\ (task.at = "policy" => FALSE)
  BY <1>2, Asking DEF Fails, InHand, IInv, TaskOK
<1>7. Course(task'.op, task'.at) /\ task.op # "none" /\ task.at # "none"  BY <1>2, <1>5, Asking
<1>8. QED  BY <1>2, <1>3, <1>5, <1>6, <1>7, Retried, Typed

LEMMA NextWaitsOnline == ASSUME IInv, WaitsOnline PROVE IInv'
<1>1. PICK wait \in {"waiting", "again"} :
         /\ task' = [task EXCEPT !.wait = wait, !.reply = "none"]
         /\ wait = "again" => task.at \in {"ownerKey", "albums"}
  BY DEF WaitsOnline
<1>2. /\ task.wait = "asking" /\ offline' = TRUE
      /\ UNCHANGED <<server, screen, form, out, paused, list, held, kept, stray, ended, counts>>
  BY DEF WaitsOnline
<1>3. UNCHANGED <<holds, keys, handles, reran, poisoned, visits, faults>>
  BY <1>2 DEF held, counts
<1>4. task \in Requests  BY Typed
<1>5. /\ task' \in Requests /\ task'.op = task.op /\ task'.arg = task.arg
      /\ task'.at = task.at /\ task'.tok = task.tok /\ task'.wait = wait
      /\ task'.reply = "none"
  BY <1>1, <1>4 DEF Requests, Replies
<1>6. faults' \in 0..MaxFaults  BY <1>3, Typed
<1>7. Course(task'.op, task'.at) /\ task.op # "none" /\ task.at # "none"  BY <1>2, <1>5, Asking
<1>8. QED  BY <1>1, <1>2, <1>3, <1>5, <1>6, <1>7, Retried

LEMMA NextPolicyUnavailable == ASSUME IInv, PolicyUnavailable PROVE IInv'
<1>1. /\ task.wait = "asking" /\ task.at = "policy" /\ offline' = TRUE
      /\ task' = [task EXCEPT !.wait = "waiting"] /\ faults' \in 0..MaxFaults
      /\ UNCHANGED <<server, screen, form, out, paused, list, held, kept, stray, ended, visits>>
  BY Typed, BoundAssumption DEF PolicyUnavailable, Fault
<1>2. UNCHANGED <<holds, keys, handles, reran, poisoned>>  BY <1>1 DEF held
<1>3. task \in Requests  BY Typed
<1>4. /\ task' \in Requests /\ task'.op = task.op /\ task'.arg = task.arg
      /\ task'.at = task.at /\ task'.tok = task.tok /\ task'.wait = "waiting"
      /\ task'.reply = task.reply
  BY <1>1, <1>3 DEF Requests
<1>5. task.reply = "none"  BY <1>1 DEF IInv, TaskOK
<1>6. Course(task'.op, task'.at) /\ task.op # "none" /\ task.at # "none"  BY <1>1, <1>4, Asking
<1>7. QED  BY <1>1, <1>2, <1>4, <1>5, <1>6, Retried

LEMMA NextRetryOffline == ASSUME IInv, RetryOffline PROVE IInv'
<1>1. /\ offline /\ offline' = FALSE
      /\ task' = IF task.wait = "again" THEN FromTheStart(task)
                 ELSE [task EXCEPT !.wait = "asking"]
      /\ reran' = (reran \/ (task.wait = "again" /\ task.op # "fetch"))
      /\ UNCHANGED <<server, screen, form, out, paused, list, holds, keys, handles, poisoned,
                     kept, stray, ended, counts>>
  BY DEF RetryOffline
<1>2. UNCHANGED <<visits, faults>> /\ faults' \in 0..MaxFaults  BY <1>1, Typed DEF counts
<1>3. /\ task \in Requests /\ reran \in BOOLEAN /\ task.wait \in {"waiting", "again"}
      /\ task.reply = "none" /\ Course(task.op, task.at)
      /\ task.wait = "again" => task.at \in {"ownerKey", "albums"}
  BY <1>1, Typed DEF IInv, TaskOK
<1>4. task.op # "none" /\ task.at # "none"
  BY <1>3 DEF IInv, TaskOK, NoTask
<1>5. CASE task.wait = "waiting"
  <2>1. /\ task' \in Requests /\ task'.op = task.op /\ task'.arg = task.arg
        /\ task'.at = task.at /\ task'.tok = task.tok /\ task'.wait = "asking"
        /\ task'.reply = "none"
    BY <1>1, <1>3, <1>5 DEF Requests
  <2>2. reran' = reran /\ Course(task'.op, task'.at)  BY <1>1, <1>3, <1>5, <2>1
  <2>3. QED  BY <1>1, <1>2, <1>3, <1>4, <2>1, <2>2, Retried
<1>6. CASE task.wait = "again" /\ task.op = "fetch"
  <2>1. task' = [task EXCEPT !.wait = "asking"]  BY <1>1, <1>6 DEF FromTheStart
  <2>2. /\ task' \in Requests /\ task'.op = task.op /\ task'.arg = task.arg
        /\ task'.at = task.at /\ task'.tok = task.tok /\ task'.wait = "asking"
        /\ task'.reply = "none"
    BY <1>3, <2>1 DEF Requests
  <2>3. reran' = reran /\ Course(task'.op, task'.at)  BY <1>1, <1>3, <1>6, <2>2
  <2>4. QED  BY <1>1, <1>2, <1>3, <1>4, <2>2, <2>3, Retried
<1>7. CASE task.wait = "again" /\ task.op = "unlock"
  <2>1. task' = [task EXCEPT !.wait = "frames", !.at = "none"]  BY <1>1, <1>7 DEF FromTheStart
  <2>2. /\ task' \in Requests /\ task'.op = task.op /\ task'.arg = task.arg
        /\ task'.at = "none" /\ task'.tok = task.tok /\ task'.wait = "frames"
        /\ task'.reply = "none"
    BY <1>3, <2>1 DEF Requests, Places
  <2>3. reran' = TRUE  BY <1>1, <1>7
  <2>4. Course(task'.op, task'.at)  BY <1>7, <2>2 DEF Course
  <2>5. QED  BY <1>1, <1>2, <1>3, <1>4, <2>2, <2>3, <2>4, Retried
<1>8. CASE task.wait = "again" /\ task.op = "signin"
  <2>1. task' = [task EXCEPT !.wait = "asking", !.at = "params", !.tok = 0]
    BY <1>1, <1>8 DEF FromTheStart
  <2>2. 0 \in 0..MaxTokens  BY BoundAssumption
  <2>3. /\ task' \in Requests /\ task'.op = task.op /\ task'.arg = task.arg
        /\ task'.at = "params" /\ task'.tok = 0 /\ task'.wait = "asking"
        /\ task'.reply = "none"
    BY <1>3, <2>1, <2>2 DEF Requests, Places
  <2>4. reran' = TRUE  BY <1>1, <1>8
  <2>5. Course(task'.op, task'.at)  BY <1>8, <2>3 DEF Course
  <2>6. QED  BY <1>1, <1>2, <1>3, <1>4, <2>3, <2>4, <2>5, Retried
<1>9. task.wait = "again" => task.op \in {"fetch", "unlock", "signin"}
  BY <1>3 DEF Course
<1>10. QED  BY <1>3, <1>5, <1>6, <1>7, <1>8, <1>9
-----------------------------------------------------------------------------
(***************************************************************************)
(* Everything is dropped.                                                  *)
(***************************************************************************)

\* The task r, if any, becomes a stray; the keys are freed, or lost with the
\* instance; and the page shows nothing that needs a session.
LEMMA Cleared ==
    ASSUME IInv, NEW r \in {task, NoTask}, r = NoTask => task.op # "create",
           BumpEpoch(r), Quiet, UNCHANGED <<server, reran>>,
           holds' = {}, keys' = {}, form' = "closed", out' = "no", list' = {},
           screen' \in [kind : {"left", "device-failed", "signin", "cannot-unlock"},
                        phase : {"ready"}],
           poisoned' \in BOOLEAN, poisoned => poisoned',
           handles' = IF poisoned' THEN handles ELSE handles - Referenced(holds, keys),
           store' \in {0, store}, token' \in {0, token},
           ended' \subseteq Tokens, \A t \in ended' : Dying(t),
           visits' = visits, faults' \in 0..MaxFaults
    PROVE  IInv'
<1>1. UNCHANGED <<account, tokens, albums>>  BY DEF server
<1>2. task' = NoTask /\ stray' = stray \cup Stale(r) /\ offline' = FALSE /\ paused' = "none"
  BY DEF BumpEpoch, Quiet
<1>3. /\ NoTask.op = "none" /\ NoTask.at = "none" /\ NoTask.wait = "none"
      /\ NoTask.reply = "none" /\ NoTask.tok = 0 /\ NoTask.arg = "none"
  BY DEF NoTask
<1>4. /\ Stale(r) \subseteq {task}
      /\ task.op = "create" => task \in Stale(r)
  BY <1>3 DEF Stale, Own
<1>5. /\ holds \in SUBSET {"kek", "master", "material"} /\ keys \in SUBSET Albums
      /\ handles \in Nat /\ stray \subseteq Requests /\ task \in Requests
      /\ 0 \in 0..MaxTokens /\ store \in 0..MaxTokens /\ token \in 0..MaxTokens
  BY Typed, BoundAssumption
<1>6. TaskOK /\ IsFiniteSet(stray)  BY DEF IInv, TaskOK
<1>7. /\ Owners' = Owners /\ Cardinality(Owners) \in Nat
      /\ Referenced(holds, keys) \in Nat /\ Referenced(holds', keys') = 0
  <2>1. Owners' = Owners  BY <1>2, <1>3, <1>4 DEF Owners
  <2>2. QED  BY <1>5, <1>6, <2>1, OwnersFinite, ReferencedIs, NothingReferenced
<1>8. ~poisoned' => handles' = handles - Referenced(holds, keys)
                    /\ handles >= Referenced(holds, keys) + Cardinality(Owners)
                    /\ (~reran => handles = Referenced(holds, keys) + Cardinality(Owners))
  BY DEF IInv, HandlesOK
<1>9. handles' \in Nat  BY <1>5, <1>7, <1>8
<1>10. TypeOK'
  <2>1. task' \in Requests /\ stray' \subseteq Requests  BY <1>2, <1>4, <1>5, NoTaskTyped
  <2>2. screen' \in [kind : Kinds, phase : Phases]  BY DEF Kinds, Phases
  <2>3. store' \in 0..MaxTokens /\ token' \in 0..MaxTokens  BY <1>5
  <2>4. QED  BY <1>1, <1>2, <1>9, <2>1, <2>2, <2>3, Typed DEF TypeOK
<1>11. TokensOK'
  <2>1. \A t \in Named' : t = 0 \/ t \in Named  BY <1>2, <1>3, <1>4 DEF Named
  <2>2. TokensOK  BY DEF IInv
  <2>3. \A t \in Named' : t # 0 => tokens'[t] # "unused"  BY <1>1, <2>1, <2>2 DEF TokensOK
  <2>4. screen'.kind \notin Signed  BY DEF Signed
  <2>5. QED  BY <1>1, <1>2, <1>3, <2>2, <2>3, <2>4 DEF TokensOK, Dying, Bearing
<1>12. TaskOK'
  <2>1. IsFiniteSet(stray')
    <3>1. IsFiniteSet(stray \cup {task})  BY <1>6, FS_AddElement
    <3>2. QED  BY <1>2, <1>4, <3>1, FS_Subset
  <2>2. \A x \in stray' : x \in stray \/ x = task  BY <1>2, <1>4
  <2>3. \A x \in stray' \cup {task'} : x.at = "create" => x.arg \in Albums
    BY <1>2, <1>3, <1>6, <2>2 DEF TaskOK
  <2>4. \A x, y \in stray' : x.op = "create" /\ y.op = "create" /\ x.arg = y.arg => x = y
    BY <1>6, <2>2 DEF TaskOK
  <2>5. QED  BY <1>2, <1>3, <2>1, <2>3, <2>4 DEF TaskOK, Course
<1>13. ShapeOK'  BY <1>2, <1>3 DEF ShapeOK
<1>14. KeysOK'  BY <1>2, <1>3 DEF KeysOK
<1>15. HandlesOK'  BY <1>5, <1>7, <1>8 DEF HandlesOK
<1>16. QED  BY <1>10, <1>11, <1>12, <1>13, <1>14, <1>15 DEF IInv

\* A reset, to whatever is shown then.
LEMMA ResetClears ==
    ASSUME IInv, NEW r \in {task, NoTask}, r = NoTask => task.op # "create",
           Reset(r), UNCHANGED server,
           screen' \in [kind : {"signin", "cannot-unlock"}, phase : {"ready"}],
           ended' \subseteq Tokens, \A t \in ended' : Dying(t),
           UNCHANGED counts
    PROVE  IInv'
<1>1. /\ BumpEpoch(r) /\ Quiet /\ holds' = {} /\ keys' = {} /\ UNCHANGED <<reran, poisoned>>
      /\ handles' = IF poisoned' THEN handles ELSE handles - Referenced(holds, keys)
      /\ store' = 0 /\ token' = 0 /\ form' = "closed" /\ out' = "no" /\ list' = {}
  BY DEF Reset, FreeHandles
<1>2. visits' = visits /\ faults' \in 0..MaxFaults /\ poisoned \in BOOLEAN  BY Typed DEF counts
<1>3. QED  BY <1>1, <1>2, Cleared

LEMMA EndedStays == IInv => ended \subseteq Tokens /\ \A t \in ended : Dying(t)
BY Typed DEF IInv, TokensOK

LEMMA NextSessionEnded == ASSUME IInv, SessionEnded PROVE IInv'
<1>1. /\ task.at \in {"ownerKey", "albums", "create"} /\ task.reply = "denied"
      /\ ToSignin(IF Own(task) = 1 THEN task ELSE NoTask)
      /\ ended' = ended \cup {task.tok} /\ UNCHANGED <<server, reran, counts>>
  BY DEF SessionEnded, Got
<1>2. task.tok \in Tokens /\ Dying(task.tok)
  <2>1. task.tok # 0 /\ Dying(task.tok)  BY <1>1 DEF IInv, TokensOK, Bearing
  <2>2. QED  BY <2>1, NamedIsUsed DEF Named
<1>3. ended' \subseteq Tokens /\ \A t \in ended' : Dying(t)  BY <1>1, <1>2, EndedStays
<1>4. screen' \in [kind : {"signin", "cannot-unlock"}, phase : {"ready"}]
  BY <1>1 DEF ToSignin, Shows
<1>5. CASE task.op = "create"
  <2>1. Reset(task)  BY <1>1, <1>5 DEF ToSignin, Own
  <2>2. task # NoTask  BY <1>5 DEF NoTask
  <2>3. QED  BY <1>1, <1>3, <1>4, <2>1, <2>2, ResetClears
<1>6. CASE task.op # "create"
  <2>1. Reset(NoTask)  BY <1>1, <1>6 DEF ToSignin, Own
  <2>2. QED  BY <1>1, <1>3, <1>4, <1>6, <2>1, ResetClears
<1>7. QED  BY <1>5, <1>6

LEMMA NextCannotUnlock == ASSUME IInv, CannotUnlock PROVE IInv'
<1>1. task.at = "revoke" /\ Reset(NoTask) /\ UNCHANGED <<server, ended, counts>>
      /\ screen' \in [kind : {"signin", "cannot-unlock"}, phase : {"ready"}]
  BY DEF CannotUnlock, Got, Shows
<1>2. task.op # "create"  BY <1>1 DEF IInv, TaskOK, Course
<1>3. ended' \subseteq Tokens /\ \A t \in ended' : Dying(t)  BY <1>1, EndedStays
<1>4. QED  BY <1>1, <1>2, <1>3, ResetClears

LEMMA NextLeaves == ASSUME IInv, BackToSignin \/ LeaveAfterPartial PROVE IInv'
<1>1. Reset(task) /\ UNCHANGED <<server, ended, counts>>
      /\ screen' \in [kind : {"signin", "cannot-unlock"}, phase : {"ready"}]
  BY DEF BackToSignin, LeaveAfterPartial, ToSignin, Shows
<1>2. ended' \subseteq Tokens /\ \A t \in ended' : Dying(t)  BY <1>1, EndedStays
<1>3. task = NoTask => task.op # "create"  BY DEF NoTask
<1>4. QED  BY <1>1, <1>2, <1>3, ResetClears

LEMMA NextLoggedOut == ASSUME IInv, LoggedOut PROVE IInv'
<1>1. /\ task.at = "logout" /\ task.reply \in {"ok", "denied"} /\ Reset(NoTask)
      /\ UNCHANGED <<server, counts>>
      /\ ended' = ended \cup (IF task.reply = "ok" /\ task.arg = "all" THEN 1..task.tok
                              ELSE {task.tok})
      /\ screen' \in [kind : {"signin", "cannot-unlock"}, phase : {"ready"}]
  BY DEF LoggedOut, Got, ToSignin, Shows
<1>2. task.op # "create"  BY <1>1 DEF IInv, TaskOK, Course
<1>3. TokensOK  BY DEF IInv
<1>4. task.tok \in Tokens /\ Dying(task.tok)
  <2>1. task.tok # 0 /\ Dying(task.tok)  BY <1>1, <1>3 DEF TokensOK, Bearing
  <2>2. QED  BY <2>1, NamedIsUsed DEF Named
<1>5. task.reply = "ok" /\ task.arg = "all" => \A t \in 1..task.tok : t \in Tokens /\ Dying(t)
  <2>1. \A t \in 1..task.tok : t \in Tokens  BY <1>4, BoundAssumption DEF Tokens
  <2>2. QED  BY <1>1, <1>3, <2>1 DEF TokensOK
<1>6. ended' \subseteq Tokens /\ \A t \in ended' : Dying(t)
  BY <1>1, <1>4, <1>5, EndedStays
<1>7. QED  BY <1>1, <1>2, <1>6, ResetClears

LEMMA NextLeave == ASSUME IInv, Leave PROVE IInv'
<1>1. /\ BumpEpoch(task) /\ Quiet /\ holds' = {} /\ keys' = {}
      /\ UNCHANGED <<server, reran, poisoned, store, ended, visits, faults>>
      /\ handles' = IF poisoned' THEN handles ELSE handles - Referenced(holds, keys)
      /\ screen' = [kind |-> "left", phase |-> "ready"]
      /\ token' = 0 /\ form' = "closed" /\ out' = "no" /\ list' = {}
  BY DEF Leave, FreeHandles, Shows, counts
<1>2. task = NoTask => task.op # "create"  BY DEF NoTask
<1>3. ended' \subseteq Tokens /\ \A t \in ended' : Dying(t)  BY <1>1, EndedStays
<1>4. screen' \in [kind : {"left", "device-failed", "signin", "cannot-unlock"}, phase : {"ready"}]
  BY <1>1
<1>5. poisoned' \in BOOLEAN /\ faults' \in 0..MaxFaults  BY <1>1, Typed
<1>6. QED  BY <1>1, <1>2, <1>3, <1>4, <1>5, Cleared

\* The instance fails, with no album key being made.
LEMMA DeviceFailedClears ==
    ASSUME IInv, NEW trapped \in BOOLEAN, poisoned => trapped, DeviceFailed(trapped),
           task.op # "create", faults' \in 0..MaxFaults
    PROVE  IInv'
<1>1. /\ BumpEpoch(NoTask) /\ Quiet /\ holds' = {} /\ keys' = {} /\ poisoned' = trapped
      /\ UNCHANGED <<server, reran, store, token, ended, visits>>
      /\ handles' = IF poisoned' THEN handles ELSE handles - Referenced(holds, keys)
      /\ screen' = [kind |-> "device-failed", phase |-> "ready"]
      /\ form' = "closed" /\ out' = "no" /\ list' = {}
  BY DEF DeviceFailed, FreeHandles, Shows, kept
<1>2. ended' \subseteq Tokens /\ \A t \in ended' : Dying(t)  BY <1>1, EndedStays
<1>3. screen' \in [kind : {"left", "device-failed", "signin", "cannot-unlock"}, phase : {"ready"}]
  BY <1>1
<1>4. QED  BY <1>1, <1>2, <1>3, Cleared

LEMMA NextDeviceFails == ASSUME IInv, DeviceFails PROVE IInv'
<1>1. task.op # "create"
  <2>1. CASE task.wait = "frames"  BY <2>1 DEF IInv, TaskOK, Course
  <2>2. CASE task.at \in {"ownerKey", "albums"}  BY <2>2 DEF IInv, TaskOK, Course
  <2>3. CASE form = "open"  BY <2>3 DEF IInv, ShapeOK
  <2>4. QED  BY <2>1, <2>2, <2>3 DEF DeviceFails, Got
<1>2. \E trapped \in BOOLEAN : (poisoned => trapped) /\ DeviceFailed(trapped)
  BY Typed DEF DeviceFails, CannotDerive
<1>3. faults' \in 0..MaxFaults
  <2>1. faults' = faults \/ Fault  BY DEF DeviceFails, CannotDerive
  <2>2. faults \in 0..MaxFaults /\ MaxFaults \in Nat  BY Typed, BoundAssumption
  <2>3. QED  BY <2>1, <2>2 DEF Fault
<1>4. QED  BY <1>1, <1>2, <1>3, DeviceFailedClears
-----------------------------------------------------------------------------
(***************************************************************************)
(* Steps of a task, and of the page.                                       *)
(***************************************************************************)

\* A task that asks for something else, derives, or is over, and no album is being
\* created; and the same for a task that begins.
LEMMA Steps ==
    ASSUME IInv, UNCHANGED <<server, stray, ended>>,
           task.op # "create", task'.op \notin {"create", "logout"},
           task'.op = "none" => task' = NoTask,
           task'.op # "none" => task'.wait = IF task'.at = "none" THEN "frames" ELSE "asking",
           Course(task'.op, task'.at), task'.reply = "none", offline' = FALSE,
           {store', token', task'.tok} \subseteq {0, store, token, task.tok},
           screen'.kind \in Signed \/ task'.op = "unlock" \/ task'.at \in Bearing => token' # 0,
           task'.at \in Bearing => task'.tok # 0,
           TypeOK', ShapeOK', KeysOK', HandlesOK'
    PROVE  IInv'
<1>1. UNCHANGED <<tokens, albums>>  BY DEF server
<1>2. TokensOK'  BY <1>1, TokensMove
<1>3. TaskOK'
  <2>1. TaskOK  BY DEF IInv
  <2>2. task'.at # "create"  BY DEF Course
  <2>3. QED  BY <2>1, <2>2 DEF TaskOK, NoTask
<1>4. QED  BY <1>2, <1>3 DEF IInv

\* The owners while no album is being created are the strays'.
LEMMA OwnersAlike ==
    ASSUME IInv, stray' = stray, task.op # "create", task'.op # "create"
    PROVE  Owners' = Owners /\ Cardinality(Owners) \in Nat
<1>1. IsFiniteSet(stray)  BY DEF IInv, TaskOK
<1>2. Owners' = Owners  BY DEF Owners
<1>3. QED  BY <1>1, <1>2, OwnersFinite

\* What is held changes by as many handles as are made and freed.
LEMMA HandlesMove ==
    ASSUME IInv, stray' = stray, task.op # "create", task'.op # "create",
           UNCHANGED <<reran, poisoned>>, holds' \in SUBSET {"kek", "master", "material"},
           keys' = keys, handles' \in Nat,
           ~poisoned => Flag(holds', "kek") + Flag(holds', "master") + handles
                          <= Flag(holds, "kek") + Flag(holds, "master") + handles',
           ~poisoned /\ ~reran => Flag(holds', "kek") + Flag(holds', "master") + handles
                          = Flag(holds, "kek") + Flag(holds, "master") + handles'
    PROVE  HandlesOK'
<1>1. Owners' = Owners /\ Cardinality(Owners) \in Nat  BY OwnersAlike
<1>2. holds \in SUBSET {"kek", "master", "material"} /\ keys \in SUBSET Albums /\ handles \in Nat
  BY Typed
<1>3. /\ Referenced(holds, keys) = Flag(holds, "kek") + Flag(holds, "master") + Cardinality(keys)
      /\ Referenced(holds', keys) = Flag(holds', "kek") + Flag(holds', "master") + Cardinality(keys)
      /\ Cardinality(keys) \in Nat
  BY <1>2, ReferencedIs
<1>4. \A hs : Flag(hs, "kek") \in Nat /\ Flag(hs, "master") \in Nat  BY DEF Flag
<1>5. HandlesOK  BY DEF IInv
<1>6. QED  BY <1>1, <1>2, <1>3, <1>4, <1>5 DEF HandlesOK

LEMMA AskIs ==
    ASSUME NEW op \in Ops, NEW at \in Places, NEW tok \in 0..MaxTokens,
           NEW arg \in Words \cup Scopes \cup Albums \cup {"none"}
    PROVE  /\ Ask(op, at, tok, arg) \in Requests
           /\ Ask(op, at, tok, arg).op = op /\ Ask(op, at, tok, arg).at = at
           /\ Ask(op, at, tok, arg).tok = tok /\ Ask(op, at, tok, arg).arg = arg
           /\ Ask(op, at, tok, arg).reply = "none" /\ Ask(op, at, tok, arg).wait = "asking"
BY DEF Ask, Requests, Replies

LEMMA GoesIs ==
    ASSUME IInv, NEW at \in Places, NEW tok \in 0..MaxTokens, Goes(at, tok)
    PROVE  /\ task' \in Requests /\ task'.op = task.op /\ task'.at = at /\ task'.tok = tok
           /\ task'.arg = task.arg /\ task'.reply = "none" /\ task'.wait = "asking"
<1>1. task \in Requests  BY Typed
<1>2. QED  BY <1>1 DEF Goes, Requests, Replies

LEMMA DerivesIs ==
    ASSUME IInv, Derives
    PROVE  /\ task' \in Requests /\ task'.op = task.op /\ task'.at = "none" /\ task'.tok = task.tok
           /\ task'.arg = task.arg /\ task'.reply = "none" /\ task'.wait = "frames"
<1>1. task \in Requests  BY Typed
<1>2. QED  BY <1>1 DEF Derives, Requests, Replies, Places

LEMMA DoneIs ==
    ASSUME Done
    PROVE  /\ task' \in Requests /\ task' = NoTask /\ task'.op = "none" /\ task'.at = "none"
           /\ task'.tok = 0 /\ task'.arg = "none" /\ task'.reply = "none" /\ task'.wait = "none"
BY NoTaskTyped DEF Done, NoTask

\* A new task begins where none is, or after one that is over.
LEMMA Idle ==
    IInv /\ screen.phase \notin {"busy", "deriving"} /\ task.op \notin {"create", "logout"} =>
       task = NoTask /\ task.op = "none" /\ task.at = "none" /\ ~offline
BY DEF IInv, ShapeOK, TaskOK, Course, NoTask
\* A login key that is held is a handle.
LEMMA KekIsAHandle == IInv /\ ~poisoned /\ "kek" \in holds => handles \in Nat /\ handles >= 1
<1> SUFFICES ASSUME IInv, ~poisoned, "kek" \in holds PROVE handles \in Nat /\ handles >= 1
  OBVIOUS
<1>1. IsFiniteSet(stray) /\ HandlesOK  BY DEF IInv, TaskOK
<1>2. Cardinality(Owners) \in Nat  BY <1>1, OwnersFinite
<1>3. holds \in SUBSET {"kek", "master", "material"} /\ keys \in SUBSET Albums /\ handles \in Nat
  BY Typed
<1>4. /\ Referenced(holds, keys) = Flag(holds, "kek") + Flag(holds, "master") + Cardinality(keys)
      /\ Cardinality(keys) \in Nat
  BY <1>3, ReferencedIs
<1>5. Flag(holds, "kek") = 1 /\ Flag(holds, "master") \in Nat  BY DEF Flag
<1>6. handles >= Referenced(holds, keys) + Cardinality(Owners)  BY <1>1 DEF HandlesOK
<1>7. QED  BY <1>2, <1>3, <1>4, <1>5, <1>6

LEMMA NextOwnerKeyFetched == ASSUME IInv, OwnerKeyFetched PROVE IInv'
<1>1. /\ task.op = "fetch" /\ task.at = "ownerKey" /\ task.wait = "asking" /\ Done
      /\ holds' = holds \cup {"material"} /\ screen' = [kind |-> "unlock", phase |-> "ready"]
      /\ UNCHANGED <<server, form, out, paused, offline, list, keys, handles, reran, poisoned,
                     store, token, stray, ended, visits, faults>>
  BY DEF OwnerKeyFetched, Got, Shows, kept, counts
<1>2. /\ task' \in Requests /\ task' = NoTask /\ task'.op = "none" /\ task'.at = "none"
      /\ task'.tok = 0 /\ task'.reply = "none" /\ task'.wait = "none"
  BY <1>1, DoneIs
<1>3. offline' = FALSE  BY <1>1, Asking, Typed
<1>4. UNCHANGED <<account, tokens, albums>>  BY <1>1 DEF server
<1>5. holds' \in SUBSET {"kek", "master", "material"}  BY <1>1, Typed
<1>6. TypeOK'
  <2>1. screen' \in [kind : Kinds, phase : Phases]  BY <1>1 DEF Kinds, Phases
  <2>2. QED  BY <1>1, <1>2, <1>4, <1>5, <2>1, Typed DEF TypeOK
<1>7. TokensOK /\ ShapeOK /\ KeysOK  BY DEF IInv
<1>8. token' # 0  BY <1>1, <1>7 DEF TokensOK, Bearing
<1>9. ShapeOK'  BY <1>1, <1>2 DEF ShapeOK, Dead
<1>10. KeysOK'
  <2>1. ~reran => "kek" \notin holds /\ "master" \notin holds /\ keys = {}
    BY <1>1, <1>7 DEF ShapeOK, KeysOK
  <2>2. QED  BY <1>1, <1>2, <1>4, <1>7, <2>1 DEF KeysOK
<1>11. HandlesOK'
  <2>1. Flag(holds', "kek") = Flag(holds, "kek") /\ Flag(holds', "master") = Flag(holds, "master")
        /\ Flag(holds, "kek") \in Nat /\ Flag(holds, "master") \in Nat
    BY <1>1 DEF Flag
  <2>2. handles' = handles /\ handles \in Nat  BY <1>1, Typed
  <2>3. QED  BY <1>1, <1>2, <1>5, <2>1, <2>2, HandlesMove
<1>12. QED
  <2>1. Course(task'.op, task'.at)  BY <1>2 DEF Course
  <2>2. {store', token', task'.tok} \subseteq {0, store, token, task.tok}  BY <1>1, <1>2
  <2>3. QED  BY <1>1, <1>2, <1>3, <1>6, <1>8, <1>9, <1>10, <1>11, <2>1, <2>2, Steps DEF Bearing
LEMMA NextSubmitUnlock == ASSUME IInv, NEW word \in Words, SubmitUnlock(word) PROVE IInv'
<1>1. /\ screen.kind = "unlock" /\ screen.phase \in {"ready", "refused"} /\ "material" \in holds
      /\ screen' = [kind |-> "unlock", phase |-> "deriving"]
      /\ task' = [Ask("unlock", "none", 0, word) EXCEPT !.wait = "frames"]
      /\ UNCHANGED <<server, form, out, paused, offline, list, holds, keys, handles, reran,
                     poisoned, store, token, stray, ended, visits, faults>>
  BY DEF SubmitUnlock, Shows, held, kept, counts
<1>2. TokensOK /\ ShapeOK /\ KeysOK  BY DEF IInv
<1>3. task = NoTask /\ task.op = "none" /\ task.at = "none" /\ offline' = FALSE
  BY <1>1, <1>2, Idle, Typed DEF ShapeOK
<1>4. /\ task' \in Requests /\ task'.op = "unlock" /\ task'.at = "none" /\ task'.tok = 0
      /\ task'.reply = "none" /\ task'.wait = "frames"
  <2>1. 0 \in 0..MaxTokens  BY BoundAssumption
  <2>2. QED  BY <1>1, <2>1 DEF Ask, Requests, Ops, Places, Replies
<1>5. UNCHANGED <<account, tokens, albums>>  BY <1>1 DEF server
<1>6. TypeOK'
  <2>1. screen' \in [kind : Kinds, phase : Phases]  BY <1>1 DEF Kinds, Phases
  <2>2. QED  BY <1>1, <1>4, <1>5, <2>1, Typed DEF TypeOK
<1>7. token' # 0  BY <1>1, <1>2 DEF TokensOK, Signed
<1>8. ShapeOK'  BY <1>1, <1>4 DEF ShapeOK, Dead
<1>9. KeysOK'  BY <1>1, <1>2, <1>3, <1>4, <1>5 DEF KeysOK
<1>10. HandlesOK'
  <2>1. Owners' = Owners  BY <1>1, <1>3, <1>4, OwnersAlike
  <2>2. QED  BY <1>1, <2>1, HandlesKept
<1>11. QED
  <2>1. Course(task'.op, task'.at)  BY <1>4 DEF Course
  <2>2. {store', token', task'.tok} \subseteq {0, store, token, task.tok}  BY <1>1, <1>4
  <2>3. QED  BY <1>1, <1>3, <1>4, <1>6, <1>7, <1>8, <1>9, <1>10, <2>1, <2>2, Steps DEF Bearing

LEMMA NextUnlockDerived == ASSUME IInv, UnlockDerived PROVE IInv'
<1>1. /\ task.op = "unlock" /\ task.wait = "frames" /\ ~poisoned
      /\ UNCHANGED <<server, paused, offline, keys, reran, poisoned, store, token, stray, ended, visits>>
  BY DEF UnlockDerived, Deriving, kept
<1>2. TokensOK /\ TaskOK /\ ShapeOK /\ KeysOK  BY DEF IInv
<1>3. task.at = "none" /\ offline' = FALSE /\ token \in 0..MaxTokens /\ token # 0
  BY <1>1, <1>2, Typed DEF TaskOK, TokensOK
<1>4. UNCHANGED <<account, tokens, albums>>  BY <1>1 DEF server
<1>5. ~reran => screen.kind = "unlock" /\ "kek" \notin holds /\ "master" \notin holds /\ keys = {}
  BY <1>1, <1>2, <1>3 DEF ShapeOK, KeysOK
<1>6. CASE holds' = (holds \ {"material"}) \cup {"master"} /\ handles' = handles + 1
           /\ EnterAlbums(token) /\ UNCHANGED faults
  <2>1. /\ screen' = [kind |-> "albums", phase |-> "busy"] /\ form' = "closed" /\ out' = "no"
        /\ list' = {} /\ Goes("albums", token)
    BY <1>6 DEF EnterAlbums, Shows
  <2>2. "albums" \in Places  BY DEF Places
  <2>3. /\ task' \in Requests /\ task'.op = "unlock" /\ task'.at = "albums" /\ task'.tok = token
        /\ task'.reply = "none" /\ task'.wait = "asking"
    BY <1>1, <1>3, <2>1, <2>2, GoesIs
  <2>4. holds' \in SUBSET {"kek", "master", "material"} /\ handles' \in Nat  BY <1>6, Typed
  <2>5. TypeOK'
    <3>1. screen' \in [kind : Kinds, phase : Phases]  BY <2>1 DEF Kinds, Phases
    <3>2. QED  BY <1>1, <1>4, <1>6, <2>1, <2>3, <2>4, <3>1, Typed DEF TypeOK
  <2>6. ShapeOK'  BY <2>1, <2>3 DEF ShapeOK, Dead
  <2>7. KeysOK'  BY <1>1, <1>2, <1>4, <1>5, <1>6, <2>1, <2>3 DEF KeysOK
  <2>8. HandlesOK'
    <3>1. /\ Flag(holds', "kek") = Flag(holds, "kek") /\ Flag(holds', "master") = 1
          /\ Flag(holds, "kek") \in Nat /\ Flag(holds, "master") \in Nat
          /\ ~reran => Flag(holds, "master") = 0
      BY <1>5, <1>6 DEF Flag
    <3>2. handles \in Nat  BY Typed
    <3>3. QED  BY <1>1, <1>6, <2>3, <2>4, <3>1, <3>2, HandlesMove
  <2>9. Course(task'.op, task'.at)  BY <2>3 DEF Course
  <2>10. {store', token', task'.tok} \subseteq {0, store, token, task.tok}  BY <1>1, <2>3
  <2>11. QED  BY <1>1, <1>3, <2>3, <2>5, <2>6, <2>7, <2>8, <2>9, <2>10, Steps
<1>7. CASE Done /\ UNCHANGED <<form, out, list, holds, handles>> /\ faults' \in 0..MaxFaults
           /\ screen' \in [kind : {"unlock"}, phase : {"refused", "unavailable"}]
  <2>1. /\ task' \in Requests /\ task' = NoTask /\ task'.op = "none" /\ task'.at = "none"
        /\ task'.tok = 0 /\ task'.reply = "none" /\ task'.wait = "none"
    BY <1>7, DoneIs
  <2>2. TypeOK'
    <3>1. screen' \in [kind : Kinds, phase : Phases]  BY <1>7 DEF Kinds, Phases
    <3>2. QED  BY <1>1, <1>4, <1>7, <2>1, <3>1, Typed DEF TypeOK
  <2>3. screen'.kind = "unlock" /\ screen'.phase \in {"refused", "unavailable"}  BY <1>7
  <2>4. ShapeOK'  BY <2>1, <2>3 DEF ShapeOK, Dead
  <2>5. KeysOK'  BY <1>1, <1>2, <1>4, <1>5, <1>7, <2>1, <2>3 DEF KeysOK
  <2>6. HandlesOK'
    <3>1. Owners' = Owners  BY <1>1, <2>1, OwnersAlike
    <3>2. QED  BY <1>1, <1>7, <3>1, HandlesKept
  <2>7. Course(task'.op, task'.at)  BY <2>1 DEF Course
  <2>8. {store', token', task'.tok} \subseteq {0, store, token, task.tok}  BY <1>1, <2>1
  <2>9. QED  BY <1>1, <1>3, <2>1, <2>2, <2>4, <2>5, <2>6, <2>7, <2>8, Steps DEF Bearing
<1>8. QED
  <2>1. faults \in 0..MaxFaults /\ (Fault => faults' \in 0..MaxFaults)
    BY Typed, BoundAssumption DEF Fault
  <2>2. QED  BY <1>6, <1>7, <2>1 DEF UnlockDerived, Shows

LEMMA NextRetryUnlock == ASSUME IInv, RetryUnlock PROVE IInv'
<1>1. /\ screen = [kind |-> "unlock", phase |-> "unavailable"]
      /\ holds' = holds \ {"material"} /\ screen' = [kind |-> "checking", phase |-> "busy"]
      /\ task' = Ask("fetch", "ownerKey", token, "none")
      /\ UNCHANGED <<server, form, out, paused, offline, list, keys, handles, reran, poisoned,
                     store, token, stray, ended, visits, faults>>
  BY DEF RetryUnlock, Shows, kept, counts
<1>2. TokensOK /\ ShapeOK /\ KeysOK  BY DEF IInv
<1>3. task = NoTask /\ task.op = "none" /\ task.at = "none" /\ offline' = FALSE
  BY <1>1, <1>2, Idle, Typed DEF ShapeOK
<1>4. token \in 0..MaxTokens /\ token # 0  BY <1>1, <1>2, Typed DEF TokensOK, Signed
<1>5. /\ task' \in Requests /\ task'.op = "fetch" /\ task'.at = "ownerKey" /\ task'.tok = token
      /\ task'.reply = "none" /\ task'.wait = "asking"
  BY <1>1, <1>4, AskIs DEF Ops, Places
<1>6. UNCHANGED <<account, tokens, albums>>  BY <1>1 DEF server
<1>7. holds' \in SUBSET {"kek", "master", "material"} /\ handles \in Nat  BY <1>1, Typed
<1>8. TypeOK'
  <2>1. screen' \in [kind : Kinds, phase : Phases]  BY <1>1 DEF Kinds, Phases
  <2>2. QED  BY <1>1, <1>5, <1>6, <1>7, <2>1, Typed DEF TypeOK
<1>9. ShapeOK'  BY <1>1, <1>5 DEF ShapeOK, Dead
<1>10. KeysOK'  BY <1>1, <1>2, <1>3, <1>5, <1>6 DEF KeysOK
<1>11. HandlesOK'
  <2>1. Flag(holds', "kek") = Flag(holds, "kek") /\ Flag(holds', "master") = Flag(holds, "master")
        /\ Flag(holds, "kek") \in Nat /\ Flag(holds, "master") \in Nat
    BY <1>1 DEF Flag
  <2>2. QED  BY <1>1, <1>3, <1>5, <1>7, <2>1, HandlesMove
<1>12. QED
  <2>1. Course(task'.op, task'.at)  BY <1>5 DEF Course
  <2>2. {store', token', task'.tok} \subseteq {0, store, token, task.tok}  BY <1>1, <1>5
  <2>3. QED  BY <1>1, <1>3, <1>4, <1>5, <1>8, <1>9, <1>10, <1>11, <2>1, <2>2, Steps
\* A task that begins or ends behind a form, with nothing made and nothing freed.
LEMMA FormStep ==
    ASSUME IInv, UNCHANGED <<server, form, out, offline, list, holds, keys, handles, reran,
                             poisoned, store, token, stray, ended, visits>>,
           ~offline, faults' \in 0..MaxFaults, paused' \in {"none", "signin", "signup"},
           task.op # "create", task'.op \notin {"create", "logout", "unlock"},
           task' \in Requests, task'.op = "none" => task' = NoTask,
           task'.op # "none" => task'.wait = IF task'.at = "none" THEN "frames" ELSE "asking",
           Course(task'.op, task'.at), task'.reply = "none", task'.tok \in {0, task.tok},
           task'.at \notin Bearing \cup {"login", "signup"},
           screen' \in [kind : {"signin", "signup"}, phase : Phases],
           screen.kind \notin {"albums", "unlock"} \/ reran,
           ~reran => task.at \notin {"login", "ownerKey", "signup"},
           task'.op # "none" => screen'.phase \in {"busy", "deriving"} /\ task'.op \in {"signin", "signup"}
                                /\ (~reran => screen'.kind = task'.op)
    PROVE  IInv'
<1>1. UNCHANGED <<account, tokens, albums>>  BY DEF server
<1>2. TokensOK /\ ShapeOK /\ KeysOK  BY DEF IInv
<1>3. TypeOK'
  <2>1. screen' \in [kind : Kinds, phase : Phases]  BY DEF Kinds
  <2>2. QED  BY <1>1, <2>1, Typed DEF TypeOK
<1>4. screen'.kind \in {"signin", "signup"}  OBVIOUS
<1>5. task'.at # "create" /\ task'.at # "logout" /\ task'.at # "ownerKey" /\ task'.at # "albums"
  BY DEF Bearing
<1>6. ShapeOK'  BY <1>4, <1>5 DEF ShapeOK, Dead
<1>7. KeysOK'  BY <1>1, <1>2, <1>4, <1>5 DEF KeysOK
<1>8. HandlesOK'
  <2>1. Owners' = Owners  BY OwnersAlike
  <2>2. QED  BY <2>1, HandlesKept
<1>9. offline' = FALSE  BY Typed
<1>10. QED  BY <1>1, <1>3, <1>4, <1>5, <1>6, <1>7, <1>8, <1>9, Steps DEF Signed, Bearing

LEMMA NextSubmitSignin == ASSUME IInv, NEW word \in Words, SubmitSignin(word) PROVE IInv'
<1>1. /\ screen.kind = "signin" /\ screen.phase \in {"ready", "refused"}
      /\ screen' = [kind |-> "signin", phase |-> "busy"] /\ task' = Ask("signin", "params", 0, word)
      /\ UNCHANGED <<server, form, out, paused, offline, list, holds, keys, handles, reran,
                     poisoned, store, token, stray, ended, visits, faults>>
  BY DEF SubmitSignin, Shows, held, kept, counts
<1>2. task = NoTask /\ task.op = "none" /\ task.at = "none" /\ ~offline
  BY <1>1, Idle DEF IInv, ShapeOK
<1>3. 0 \in 0..MaxTokens  BY BoundAssumption
<1>4. /\ task' \in Requests /\ task'.op = "signin" /\ task'.at = "params" /\ task'.tok = 0
      /\ task'.reply = "none" /\ task'.wait = "asking"
  BY <1>1, <1>3, AskIs DEF Ops, Places
<1>5. Course(task'.op, task'.at)  BY <1>4 DEF Course
<1>6. screen' \in [kind : {"signin", "signup"}, phase : Phases] /\ screen'.phase = "busy"
      /\ screen'.kind = "signin"
  BY <1>1 DEF Phases
<1>7. task'.at \notin Bearing \cup {"login", "signup"}  BY <1>4 DEF Bearing
<1>8. faults' \in 0..MaxFaults /\ paused' \in {"none", "signin", "signup"}  BY <1>1, Typed
<1>9. QED  BY <1>1, <1>2, <1>4, <1>5, <1>6, <1>7, <1>8, FormStep

LEMMA NextSubmitSignup == ASSUME IInv, SubmitSignup PROVE IInv'
<1>1. /\ screen.kind = "signup" /\ screen.phase \in {"ready", "refused"}
      /\ screen' = [kind |-> "signup", phase |-> "busy"] /\ task' = Ask("signup", "policy", 0, "none")
      /\ UNCHANGED <<server, form, out, paused, offline, list, holds, keys, handles, reran,
                     poisoned, store, token, stray, ended, visits, faults>>
  BY DEF SubmitSignup, Shows, held, kept, counts
<1>2. task = NoTask /\ task.op = "none" /\ task.at = "none" /\ ~offline
  BY <1>1, Idle DEF IInv, ShapeOK
<1>3. 0 \in 0..MaxTokens  BY BoundAssumption
<1>4. /\ task' \in Requests /\ task'.op = "signup" /\ task'.at = "policy" /\ task'.tok = 0
      /\ task'.reply = "none" /\ task'.wait = "asking"
  BY <1>1, <1>3, AskIs DEF Ops, Places
<1>5. Course(task'.op, task'.at)  BY <1>4 DEF Course
<1>6. screen' \in [kind : {"signin", "signup"}, phase : Phases] /\ screen'.phase = "busy"
      /\ screen'.kind = "signup"
  BY <1>1 DEF Phases
<1>7. task'.at \notin Bearing \cup {"login", "signup"}  BY <1>4 DEF Bearing
<1>8. faults' \in 0..MaxFaults /\ paused' \in {"none", "signin", "signup"}  BY <1>1, Typed
<1>9. QED  BY <1>1, <1>2, <1>4, <1>5, <1>6, <1>7, <1>8, FormStep

LEMMA NextParamsAnswered == ASSUME IInv, ParamsAnswered PROVE IInv'
<1>1. /\ task.at = "params" /\ task.wait = "asking"
      /\ UNCHANGED <<server, form, out, offline, list, holds, keys, handles, reran, poisoned,
                     store, token, stray, ended, visits, faults>>
      /\ \/ screen' = [kind |-> "signin", phase |-> "deriving"] /\ Derives /\ paused' = paused
         \/ /\ screen' \in [kind : {"signin"}, phase : {"unavailable", "paused"}] /\ Done
            /\ paused' \in {paused, "signin"}
  BY DEF ParamsAnswered, Got, Shows, Pause, held, kept, counts
<1>2. task.op = "signin" /\ ~offline  BY <1>1, Asking DEF Course
<1>3. ~reran => screen.kind = "signin"  BY <1>1, <1>2 DEF IInv, ShapeOK
<1>4. screen' \in [kind : {"signin", "signup"}, phase : Phases] /\ screen'.kind = "signin"
  BY <1>1 DEF Phases
<1>5. faults' \in 0..MaxFaults /\ paused' \in {"none", "signin", "signup"}  BY <1>1, Typed
<1>6. CASE Derives /\ screen'.phase = "deriving"
  <2>1. /\ task' \in Requests /\ task'.op = "signin" /\ task'.at = "none" /\ task'.tok = task.tok
        /\ task'.reply = "none" /\ task'.wait = "frames"
    BY <1>2, <1>6, DerivesIs
  <2>2. Course(task'.op, task'.at) /\ task'.at \notin Bearing \cup {"login", "signup"}
    BY <2>1 DEF Course, Bearing
  <2>3. QED  BY <1>1, <1>2, <1>3, <1>4, <1>5, <1>6, <2>1, <2>2, FormStep
<1>7. CASE Done
  <2>1. /\ task' \in Requests /\ task' = NoTask /\ task'.op = "none" /\ task'.at = "none"
        /\ task'.tok = 0 /\ task'.reply = "none"
    BY <1>7, DoneIs
  <2>2. Course(task'.op, task'.at) /\ task'.at \notin Bearing \cup {"login", "signup"}
    BY <2>1 DEF Course, Bearing
  <2>3. QED  BY <1>1, <1>2, <1>3, <1>4, <1>5, <2>1, <2>2, FormStep
<1>8. QED  BY <1>1, <1>6, <1>7

LEMMA NextPolicyChecked == ASSUME IInv, PolicyChecked PROVE IInv'
<1>1. /\ task.at = "policy" /\ task.wait = "asking"
      /\ UNCHANGED <<server, form, out, paused, offline, list, holds, keys, handles, reran, poisoned,
                     store, token, stray, ended, visits, faults>>
      /\ \/ screen' = [kind |-> "signup", phase |-> "deriving"] /\ Derives
         \/ screen' = [kind |-> "signup", phase |-> "refused"] /\ Done
  BY DEF PolicyChecked, Shows, held, kept, counts
<1>2. task.op = "signup" /\ ~offline  BY <1>1, Asking DEF Course
<1>3. ~reran => screen.kind = "signup"  BY <1>1, <1>2 DEF IInv, ShapeOK
<1>4. screen' \in [kind : {"signin", "signup"}, phase : Phases] /\ screen'.kind = "signup"
  BY <1>1 DEF Phases
<1>5. faults' \in 0..MaxFaults /\ paused' \in {"none", "signin", "signup"}  BY <1>1, Typed
<1>6. CASE Derives /\ screen'.phase = "deriving"
  <2>1. /\ task' \in Requests /\ task'.op = "signup" /\ task'.at = "none" /\ task'.tok = task.tok
        /\ task'.reply = "none" /\ task'.wait = "frames"
    BY <1>2, <1>6, DerivesIs
  <2>2. Course(task'.op, task'.at) /\ task'.at \notin Bearing \cup {"login", "signup"}
    BY <2>1 DEF Course, Bearing
  <2>3. QED  BY <1>1, <1>2, <1>3, <1>4, <1>5, <1>6, <2>1, <2>2, FormStep
<1>7. CASE Done
  <2>1. /\ task' \in Requests /\ task' = NoTask /\ task'.op = "none" /\ task'.at = "none"
        /\ task'.tok = 0 /\ task'.reply = "none"
    BY <1>7, DoneIs
  <2>2. Course(task'.op, task'.at) /\ task'.at \notin Bearing \cup {"login", "signup"}
    BY <2>1 DEF Course, Bearing
  <2>3. QED  BY <1>1, <1>2, <1>3, <1>4, <1>5, <2>1, <2>2, FormStep
<1>8. QED  BY <1>1, <1>6, <1>7
LEMMA NextCredentialDerived == ASSUME IInv, CredentialDerived PROVE IInv'
<1>1. /\ task.op = "signin" /\ task.wait = "frames" /\ ~poisoned
      /\ UNCHANGED <<server, form, out, paused, offline, list, keys, reran, poisoned,
                     store, token, stray, ended, visits>>
  BY DEF CredentialDerived, Deriving, kept
<1>2. TaskOK /\ ShapeOK /\ KeysOK  BY DEF IInv
<1>3. task.at = "none" /\ ~offline /\ offline' = FALSE  BY <1>1, <1>2, Typed DEF TaskOK
<1>4. UNCHANGED <<account, tokens, albums>>  BY <1>1 DEF server
<1>5. ~reran => /\ screen.kind = "signin" /\ "kek" \notin holds /\ "master" \notin holds
                /\ keys = {} /\ "material" \notin holds
  BY <1>1, <1>2, <1>3 DEF ShapeOK, KeysOK
<1>6. faults \in 0..MaxFaults /\ (Fault => faults' \in 0..MaxFaults)
  BY Typed, BoundAssumption DEF Fault
<1>7. CASE holds' = holds \cup {"kek"} /\ handles' = handles + 1 /\ Shows("signin", "busy")
           /\ Goes("login", 0) /\ UNCHANGED faults
  <2>1. screen' = [kind |-> "signin", phase |-> "busy"]  BY <1>7 DEF Shows
  <2>2. "login" \in Places /\ 0 \in 0..MaxTokens  BY BoundAssumption DEF Places
  <2>3. /\ task' \in Requests /\ task'.op = "signin" /\ task'.at = "login" /\ task'.tok = 0
        /\ task'.reply = "none" /\ task'.wait = "asking"
    BY <1>1, <1>7, <2>2, GoesIs
  <2>4. holds' \in SUBSET {"kek", "master", "material"} /\ handles' \in Nat  BY <1>7, Typed
  <2>5. TypeOK'
    <3>1. screen' \in [kind : Kinds, phase : Phases]  BY <2>1 DEF Kinds, Phases
    <3>2. QED  BY <1>1, <1>4, <1>7, <2>3, <2>4, <3>1, Typed DEF TypeOK
  <2>6. ShapeOK'  BY <2>1, <2>3 DEF ShapeOK, Dead
  <2>7. KeysOK'  BY <1>1, <1>2, <1>4, <1>5, <1>7, <2>1, <2>3 DEF KeysOK
  <2>8. HandlesOK'
    <3>1. /\ Flag(holds', "kek") = 1 /\ Flag(holds', "master") = Flag(holds, "master")
          /\ Flag(holds, "kek") \in Nat /\ Flag(holds, "master") \in Nat
          /\ ~reran => Flag(holds, "kek") = 0
      BY <1>5, <1>7 DEF Flag
    <3>2. handles \in Nat  BY Typed
    <3>3. QED  BY <1>1, <1>7, <2>3, <2>4, <3>1, <3>2, HandlesMove
  <2>9. Course(task'.op, task'.at)  BY <2>3 DEF Course
  <2>10. {store', token', task'.tok} \subseteq {0, store, token, task.tok}  BY <1>1, <2>3
  <2>11. QED  BY <1>1, <1>3, <2>1, <2>3, <2>5, <2>6, <2>7, <2>8, <2>9, <2>10, Steps DEF Signed, Bearing
<1>8. CASE Fault /\ Shows("signin", "unavailable") /\ Done /\ UNCHANGED <<holds, handles>>
  <2>1. screen' = [kind |-> "signin", phase |-> "unavailable"]  BY <1>8 DEF Shows
  <2>2. /\ task' \in Requests /\ task' = NoTask /\ task'.op = "none" /\ task'.at = "none"
        /\ task'.tok = 0 /\ task'.reply = "none"
    BY <1>8, DoneIs
  <2>3. Course(task'.op, task'.at) /\ task'.at \notin Bearing \cup {"login", "signup"}
    BY <2>2 DEF Course, Bearing
  <2>4. screen' \in [kind : {"signin", "signup"}, phase : Phases]  BY <2>1 DEF Phases
  <2>5. paused' \in {"none", "signin", "signup"} /\ faults' \in 0..MaxFaults  BY <1>1, <1>6, <1>8, Typed
  <2>6. QED  BY <1>1, <1>3, <1>5, <1>8, <2>2, <2>3, <2>4, <2>5, FormStep
<1>9. QED  BY <1>7, <1>8 DEF CredentialDerived

LEMMA NextLoginRefused == ASSUME IInv, LoginRefused PROVE IInv'
<1>1. /\ task.at = "login" /\ task.wait = "asking" /\ Done
      /\ holds' = holds \ {"kek"} /\ handles' = handles - Cardinality(holds \cap {"kek"})
      /\ UNCHANGED <<server, form, out, offline, list, keys, reran, poisoned, store, token,
                     stray, ended, visits, faults>>
      /\ screen' \in [kind : {"signin"}, phase : {"refused", "unavailable", "paused"}]
      /\ paused' \in {paused, "signin"}
  BY DEF LoginRefused, FreeKek, Got, Shows, Pause, kept, counts
<1>2. ShapeOK /\ KeysOK  BY DEF IInv
<1>3. task.op = "signin" /\ offline' = FALSE  BY <1>1, Asking, Typed DEF Course
<1>4. "kek" \in holds /\ ~poisoned  BY <1>1, <1>2 DEF KeysOK
<1>5. handles' = handles - 1 /\ handles \in Nat /\ handles' \in Nat
  <2>1. holds \cap {"kek"} = {"kek"}  BY <1>4
  <2>2. Cardinality(holds \cap {"kek"}) = 1  BY <2>1, FS_Singleton
  <2>3. QED  BY <1>1, <1>4, <2>2, KekIsAHandle
<1>6. UNCHANGED <<account, tokens, albums>>  BY <1>1 DEF server
<1>7. ~reran => "master" \notin holds /\ keys = {} /\ "material" \notin holds
  BY <1>1, <1>2, <1>3 DEF ShapeOK, KeysOK
<1>8. /\ task' \in Requests /\ task' = NoTask /\ task'.op = "none" /\ task'.at = "none"
      /\ task'.tok = 0 /\ task'.reply = "none" /\ task'.wait = "none"
  BY <1>1, DoneIs
<1>9. holds' \in SUBSET {"kek", "master", "material"}  BY <1>1, Typed
<1>10. TypeOK'
  <2>1. screen' \in [kind : Kinds, phase : Phases]  BY <1>1 DEF Kinds, Phases
  <2>2. QED  BY <1>1, <1>5, <1>6, <1>8, <1>9, <2>1, Typed DEF TypeOK
<1>11. screen'.kind = "signin" /\ screen'.phase \notin {"busy", "deriving"}  BY <1>1
<1>12. ShapeOK'  BY <1>8, <1>11 DEF ShapeOK, Dead
<1>13. KeysOK'  BY <1>1, <1>2, <1>4, <1>6, <1>7, <1>8 DEF KeysOK
<1>14. HandlesOK'
  <2>1. /\ Flag(holds', "kek") = 0 /\ Flag(holds, "kek") = 1
        /\ Flag(holds', "master") = Flag(holds, "master") /\ Flag(holds, "master") \in Nat
    BY <1>1, <1>4 DEF Flag
  <2>2. QED  BY <1>1, <1>3, <1>5, <1>8, <1>9, <2>1, HandlesMove
<1>15. QED
  <2>1. Course(task'.op, task'.at)  BY <1>8 DEF Course
  <2>2. {store', token', task'.tok} \subseteq {0, store, token, task.tok}  BY <1>1, <1>8
  <2>3. QED  BY <1>1, <1>3, <1>8, <1>10, <1>11, <1>12, <1>13, <1>14, <2>1, <2>2, Steps
           DEF Bearing, Signed

LEMMA NextLoggedIn == ASSUME IInv, LoggedIn PROVE IInv'
<1>1. /\ task.at = "login" /\ task.wait = "asking" /\ task.reply = "ok"
      /\ store' = task.tok /\ token' = task.tok /\ Goes("ownerKey", task.tok)
      /\ UNCHANGED <<server, screen, form, out, paused, offline, list, holds, keys, handles, reran,
                     poisoned, stray, ended, visits, faults>>
  BY DEF LoggedIn, SaveSession, Got, page, held, counts
<1>2. TokensOK /\ ShapeOK /\ KeysOK  BY DEF IInv
<1>3. task.op = "signin" /\ offline' = FALSE  BY <1>1, Asking, Typed DEF Course
<1>4. task.tok \in 0..MaxTokens /\ task.tok # 0
  BY <1>1, <1>2, NamedIsUsed DEF TokensOK, Named
<1>5. /\ task' \in Requests /\ task'.op = "signin" /\ task'.at = "ownerKey" /\ task'.tok = task.tok
      /\ task'.reply = "none" /\ task'.wait = "asking"
  <2>1. "ownerKey" \in Places  BY DEF Places
  <2>2. QED  BY <1>1, <1>3, <1>4, <2>1, GoesIs
<1>6. UNCHANGED <<account, tokens, albums>>  BY <1>1 DEF server
<1>7. TypeOK'  BY <1>1, <1>4, <1>5, <1>6, Typed DEF TypeOK
<1>8. ShapeOK'  BY <1>1, <1>2, <1>3, <1>5 DEF ShapeOK, Dead, NoTask
<1>9. KeysOK'  BY <1>1, <1>2, <1>3, <1>5, <1>6 DEF KeysOK
<1>10. HandlesOK'
  <2>1. Owners' = Owners  BY <1>1, <1>3, <1>5, OwnersAlike
  <2>2. QED  BY <1>1, <2>1, HandlesKept
<1>11. QED
  <2>1. Course(task'.op, task'.at)  BY <1>5 DEF Course
  <2>2. {store', token', task'.tok} \subseteq {0, store, token, task.tok}  BY <1>1, <1>5
  <2>3. QED  BY <1>1, <1>3, <1>4, <1>5, <1>7, <1>8, <1>9, <1>10, <2>1, <2>2, Steps

LEMMA NextMasterOpened == ASSUME IInv, MasterOpened PROVE IInv'
<1>1. /\ task.op = "signin" /\ task.at = "ownerKey" /\ task.wait = "asking"
      /\ UNCHANGED <<server, paused, offline, keys, reran, poisoned, store, token, stray, ended, visits>>
  BY DEF MasterOpened, Got, kept
<1>2. TokensOK /\ ShapeOK /\ KeysOK  BY DEF IInv
<1>3. "kek" \in holds /\ ~poisoned /\ handles \in Nat /\ handles >= 1 /\ offline' = FALSE
  BY <1>1, <1>2, KekIsAHandle, Asking, Typed DEF KeysOK
<1>4. token # 0 /\ task.tok \in 0..MaxTokens /\ task.tok # 0
  BY <1>1, <1>2, NamedIsUsed DEF TokensOK, Named, Bearing
<1>5. UNCHANGED <<account, tokens, albums>>  BY <1>1 DEF server
<1>6. ~reran => /\ screen.kind = "signin" /\ "master" \notin holds /\ keys = {}
                /\ "material" \notin holds
  BY <1>1, <1>2 DEF ShapeOK, KeysOK
<1>7. faults \in 0..MaxFaults /\ (Fault => faults' \in 0..MaxFaults)
  BY Typed, BoundAssumption DEF Fault
<1>8. CASE holds' = (holds \ {"kek"}) \cup {"master"} /\ UNCHANGED <<handles, faults>>
           /\ EnterAlbums(task.tok)
  <2>1. /\ screen' = [kind |-> "albums", phase |-> "busy"] /\ form' = "closed" /\ out' = "no"
        /\ list' = {} /\ Goes("albums", task.tok)
    BY <1>8 DEF EnterAlbums, Shows
  <2>2. "albums" \in Places  BY DEF Places
  <2>3. /\ task' \in Requests /\ task'.op = "signin" /\ task'.at = "albums" /\ task'.tok = task.tok
        /\ task'.reply = "none" /\ task'.wait = "asking"
    BY <1>1, <1>4, <2>1, <2>2, GoesIs
  <2>4. holds' \in SUBSET {"kek", "master", "material"} /\ handles' \in Nat  BY <1>3, <1>8, Typed
  <2>5. TypeOK'
    <3>1. screen' \in [kind : Kinds, phase : Phases]  BY <2>1 DEF Kinds, Phases
    <3>2. QED  BY <1>1, <1>5, <1>8, <2>1, <2>3, <2>4, <3>1, Typed DEF TypeOK
  <2>6. ShapeOK'  BY <2>1, <2>3 DEF ShapeOK, Dead
  <2>7. KeysOK'  BY <1>1, <1>2, <1>3, <1>5, <1>6, <1>8, <2>1, <2>3 DEF KeysOK
  <2>8. HandlesOK'
    <3>1. /\ Flag(holds', "kek") = 0 /\ Flag(holds', "master") = 1
          /\ Flag(holds, "kek") = 1 /\ Flag(holds, "master") \in Nat
          /\ ~reran => Flag(holds, "master") = 0
      BY <1>3, <1>6, <1>8 DEF Flag
    <3>2. QED  BY <1>1, <1>3, <1>8, <2>3, <2>4, <3>1, HandlesMove
  <2>9. Course(task'.op, task'.at)  BY <2>3 DEF Course
  <2>10. {store', token', task'.tok} \subseteq {0, store, token, task.tok}  BY <1>1, <2>3
  <2>11. QED  BY <1>1, <1>3, <1>4, <2>3, <2>5, <2>6, <2>7, <2>8, <2>9, <2>10, Steps
<1>9. CASE Fault /\ holds' = holds \ {"kek"} /\ handles' = handles - 1 /\ Goes("revoke", task.tok)
           /\ UNCHANGED <<screen, form, out, list>>
  <2>1. "revoke" \in Places  BY DEF Places
  <2>2. /\ task' \in Requests /\ task'.op = "signin" /\ task'.at = "revoke" /\ task'.tok = task.tok
        /\ task'.reply = "none" /\ task'.wait = "asking"
    BY <1>1, <1>4, <1>9, <2>1, GoesIs
  <2>3. holds' \in SUBSET {"kek", "master", "material"} /\ handles' \in Nat  BY <1>3, <1>9, Typed
  <2>4. TypeOK'  BY <1>1, <1>5, <1>7, <1>9, <2>2, <2>3, Typed DEF TypeOK
  <2>5. ShapeOK'
    <3>1. ~Dead  BY <1>1, <1>2 DEF ShapeOK, NoTask
    <3>2. QED  BY <1>1, <1>2, <1>9, <2>2, <3>1 DEF ShapeOK, Dead
  <2>6. KeysOK'  BY <1>1, <1>2, <1>3, <1>5, <1>6, <1>9, <2>2 DEF KeysOK
  <2>7. HandlesOK'
    <3>1. /\ Flag(holds', "kek") = 0 /\ Flag(holds', "master") = Flag(holds, "master")
          /\ Flag(holds, "kek") = 1 /\ Flag(holds, "master") \in Nat
      BY <1>3, <1>9 DEF Flag
    <3>2. QED  BY <1>1, <1>3, <1>9, <2>2, <2>3, <3>1, HandlesMove
  <2>8. Course(task'.op, task'.at)  BY <2>2 DEF Course
  <2>9. {store', token', task'.tok} \subseteq {0, store, token, task.tok}  BY <1>1, <2>2
  <2>10. QED  BY <1>1, <1>3, <1>4, <2>2, <2>4, <2>5, <2>6, <2>7, <2>8, <2>9, Steps
<1>10. QED  BY <1>8, <1>9 DEF MasterOpened
LEMMA NextAccountKeysMade == ASSUME IInv, AccountKeysMade PROVE IInv'
<1>1. /\ task.op = "signup" /\ task.wait = "frames" /\ ~poisoned
      /\ UNCHANGED <<server, form, out, paused, offline, list, keys, reran, poisoned,
                     store, token, stray, ended, visits, faults>>
  BY DEF AccountKeysMade, Deriving, kept, counts
<1>2. TaskOK /\ ShapeOK /\ KeysOK  BY DEF IInv
<1>3. task.at = "none" /\ ~offline /\ offline' = FALSE  BY <1>1, <1>2, Typed DEF TaskOK
<1>4. UNCHANGED <<account, tokens, albums>>  BY <1>1 DEF server
<1>5. ~reran => /\ screen.kind = "signup" /\ "kek" \notin holds /\ "master" \notin holds
                /\ keys = {} /\ "material" \notin holds
  BY <1>1, <1>2, <1>3 DEF ShapeOK, KeysOK
<1>6. CASE holds' = holds \cup {"master"} /\ handles' = handles + 1 /\ Shows("signup", "busy")
           /\ Goes("signup", 0)
  <2>1. screen' = [kind |-> "signup", phase |-> "busy"]  BY <1>6 DEF Shows
  <2>2. "signup" \in Places /\ 0 \in 0..MaxTokens  BY BoundAssumption DEF Places
  <2>3. /\ task' \in Requests /\ task'.op = "signup" /\ task'.at = "signup" /\ task'.tok = 0
        /\ task'.reply = "none" /\ task'.wait = "asking"
    BY <1>1, <1>6, <2>2, GoesIs
  <2>4. holds' \in SUBSET {"kek", "master", "material"} /\ handles' \in Nat  BY <1>6, Typed
  <2>5. TypeOK'
    <3>1. screen' \in [kind : Kinds, phase : Phases]  BY <2>1 DEF Kinds, Phases
    <3>2. QED  BY <1>1, <1>4, <2>3, <2>4, <3>1, Typed DEF TypeOK
  <2>6. ShapeOK'  BY <2>1, <2>3 DEF ShapeOK, Dead
  <2>7. KeysOK'  BY <1>1, <1>2, <1>4, <1>5, <1>6, <2>1, <2>3 DEF KeysOK
  <2>8. HandlesOK'
    <3>1. /\ Flag(holds', "kek") = Flag(holds, "kek") /\ Flag(holds', "master") = 1
          /\ Flag(holds, "kek") \in Nat /\ Flag(holds, "master") \in Nat
          /\ ~reran => Flag(holds, "master") = 0
      BY <1>5, <1>6 DEF Flag
    <3>2. handles \in Nat  BY Typed
    <3>3. QED  BY <1>1, <1>6, <2>3, <2>4, <3>1, <3>2, HandlesMove
  <2>9. Course(task'.op, task'.at)  BY <2>3 DEF Course
  <2>10. {store', token', task'.tok} \subseteq {0, store, token, task.tok}  BY <1>1, <2>3
  <2>11. QED  BY <1>1, <1>3, <2>1, <2>3, <2>5, <2>6, <2>7, <2>8, <2>9, <2>10, Steps DEF Signed, Bearing
<1>7. CASE Shows("signup", "refused") /\ Done /\ UNCHANGED <<holds, handles>>
  <2>1. screen' = [kind |-> "signup", phase |-> "refused"]  BY <1>7 DEF Shows
  <2>2. /\ task' \in Requests /\ task' = NoTask /\ task'.op = "none" /\ task'.at = "none"
        /\ task'.tok = 0 /\ task'.reply = "none"
    BY <1>7, DoneIs
  <2>3. Course(task'.op, task'.at) /\ task'.at \notin Bearing \cup {"login", "signup"}
    BY <2>2 DEF Course, Bearing
  <2>4. screen' \in [kind : {"signin", "signup"}, phase : Phases]  BY <2>1 DEF Phases
  <2>5. paused' \in {"none", "signin", "signup"} /\ faults' \in 0..MaxFaults  BY <1>1, Typed
  <2>6. QED  BY <1>1, <1>3, <1>5, <1>7, <2>2, <2>3, <2>4, <2>5, FormStep
<1>8. QED  BY <1>6, <1>7 DEF AccountKeysMade

LEMMA NextSignupRefused == ASSUME IInv, SignupRefused PROVE IInv'
<1>1. /\ task.at = "signup" /\ task.wait = "asking" /\ Done /\ FreeHandles(poisoned)
      /\ UNCHANGED <<server, form, out, offline, list, reran, poisoned, store, token,
                     stray, ended, visits, faults>>
      /\ \/ screen' \in [kind : {"signup"}, phase : {"refused", "paused"}]
         \/ screen' = [kind |-> "uncertain", phase |-> "ready"]
      /\ paused' \in {paused, "signup"}
  BY DEF SignupRefused, FreeHandles, Got, Shows, Pause, kept, counts
<1>2. KeysOK /\ HandlesOK  BY DEF IInv
<1>3. task.op = "signup" /\ offline' = FALSE  BY <1>1, Asking, Typed DEF Course
<1>4. ~poisoned  BY <1>1, <1>2 DEF KeysOK
<1>5. UNCHANGED <<account, tokens, albums>>  BY <1>1 DEF server
<1>6. holds' = {} /\ keys' = {} /\ handles' = handles - Referenced(holds, keys)
  BY <1>1, <1>4 DEF FreeHandles
<1>7. /\ task' \in Requests /\ task' = NoTask /\ task'.op = "none" /\ task'.at = "none"
      /\ task'.tok = 0 /\ task'.reply = "none" /\ task'.wait = "none"
  BY <1>1, DoneIs
<1>8. /\ Owners' = Owners /\ Cardinality(Owners) \in Nat
      /\ Referenced(holds, keys) \in Nat /\ Referenced(holds', keys') = 0 /\ handles \in Nat
  <2>1. holds \in SUBSET {"kek", "master", "material"} /\ keys \in SUBSET Albums /\ handles \in Nat
    BY Typed
  <2>2. QED  BY <1>1, <1>3, <1>6, <1>7, <2>1, OwnersAlike, ReferencedIs, NothingReferenced
<1>9. handles' \in Nat  BY <1>2, <1>4, <1>6, <1>8 DEF HandlesOK
<1>10. TypeOK'
  <2>1. screen' \in [kind : Kinds, phase : Phases]  BY <1>1 DEF Kinds, Phases
  <2>2. paused' \in {"none", "signin", "signup"}  BY <1>1, Typed
  <2>3. QED  BY <1>1, <1>5, <1>6, <1>7, <1>9, <2>1, <2>2, Typed DEF TypeOK
<1>11. screen'.kind \in {"signup", "uncertain"} /\ (screen'.kind = "uncertain" => screen'.phase = "ready")
  BY <1>1
<1>12. ShapeOK'  BY <1>6, <1>7, <1>11 DEF ShapeOK, Dead
<1>13. KeysOK'  BY <1>6, <1>7 DEF KeysOK
<1>14. HandlesOK'  BY <1>1, <1>2, <1>4, <1>6, <1>8 DEF HandlesOK
<1>15. QED
  <2>1. Course(task'.op, task'.at)  BY <1>7 DEF Course
  <2>2. {store', token', task'.tok} \subseteq {0, store, token, task.tok}  BY <1>1, <1>7
  <2>3. QED  BY <1>1, <1>3, <1>7, <1>10, <1>11, <1>12, <1>13, <1>14, <2>1, <2>2, Steps
           DEF Bearing, Signed

LEMMA NextSignedUp == ASSUME IInv, SignedUp PROVE IInv'
<1>1. /\ task.at = "signup" /\ task.wait = "asking" /\ task.reply = "ok" /\ Done
      /\ store' = task.tok /\ token' = task.tok
      /\ screen' = [kind |-> "albums", phase |-> "ready"]
      /\ form' = "closed" /\ out' = "no" /\ list' = {}
      /\ UNCHANGED <<server, paused, offline, holds, keys, handles, reran, poisoned,
                     stray, ended, visits, faults>>
  BY DEF SignedUp, SaveSession, Got, Shows, held, counts
<1>2. TokensOK /\ ShapeOK /\ KeysOK  BY DEF IInv
<1>3. task.op = "signup" /\ offline' = FALSE  BY <1>1, Asking, Typed DEF Course
<1>4. task.tok \in 0..MaxTokens /\ task.tok # 0
  BY <1>1, <1>2, NamedIsUsed DEF TokensOK, Named
<1>5. UNCHANGED <<account, tokens, albums>>  BY <1>1 DEF server
<1>6. /\ task' \in Requests /\ task' = NoTask /\ task'.op = "none" /\ task'.at = "none"
      /\ task'.tok = 0 /\ task'.reply = "none" /\ task'.wait = "none"
  BY <1>1, DoneIs
<1>7. TypeOK'
  <2>1. screen' \in [kind : Kinds, phase : Phases]  BY <1>1 DEF Kinds, Phases
  <2>2. QED  BY <1>1, <1>4, <1>5, <1>6, <2>1, Typed DEF TypeOK
<1>8. ShapeOK'  BY <1>1, <1>6 DEF ShapeOK, Dead
<1>9. KeysOK'
  <2>1. ~reran => "kek" \notin holds /\ "material" \notin holds
    BY <1>1, <1>2, <1>3 DEF ShapeOK, KeysOK
  <2>2. QED  BY <1>1, <1>2, <1>5, <1>6, <2>1 DEF KeysOK
<1>10. HandlesOK'
  <2>1. Owners' = Owners  BY <1>1, <1>3, <1>6, OwnersAlike
  <2>2. QED  BY <1>1, <2>1, HandlesKept
<1>11. QED
  <2>1. Course(task'.op, task'.at)  BY <1>6 DEF Course
  <2>2. {store', token', task'.tok} \subseteq {0, store, token, task.tok}  BY <1>1, <1>6
  <2>3. QED  BY <1>1, <1>3, <1>4, <1>6, <1>7, <1>8, <1>9, <1>10, <2>1, <2>2, Steps DEF Bearing

\* What only the page does: no request, no key and no token moves.
LEMMA PageMoves ==
    ASSUME IInv, UNCHANGED <<server, offline, held, kept, work, ended>>,
           screen'.kind \in Signed => screen.kind \in Signed,
           TypeOK', ShapeOK', KeysOK'
    PROVE  IInv'
<1>1. UNCHANGED <<tokens, albums, offline, holds, keys, handles, reran, poisoned, store, token,
                  task, stray, ended>>
  BY DEF server, held, kept, work
<1>2. TokensOK'
  <2>1. Named' = Named  BY <1>1 DEF Named
  <2>2. QED  BY <1>1, <2>1 DEF IInv, TokensOK, Dying
<1>3. TaskOK'  BY <1>1 DEF IInv, TaskOK
<1>4. HandlesOK'
  <2>1. Owners' = Owners  BY <1>1 DEF Owners
  <2>2. QED  BY <1>1, <2>1, HandlesKept
<1>5. QED  BY <1>2, <1>3, <1>4 DEF IInv

LEMMA NextEnterSignup == ASSUME IInv, EnterSignup PROVE IInv'
<1>1. /\ screen.kind = "signin" /\ screen.phase \notin {"busy", "deriving"}
      /\ screen' = [kind |-> "signup", phase |-> "ready"]
      /\ UNCHANGED <<server, form, out, paused, offline, list, held, kept, work, ended, counts>>
  BY DEF EnterSignup, Shows
<1>2. UNCHANGED <<account, tokens, albums, holds, keys, handles, reran, poisoned, store, token,
                  task, stray, visits, faults>>
  BY <1>1 DEF server, held, kept, work, counts
<1>3. ShapeOK /\ KeysOK  BY DEF IInv
<1>4. task = NoTask /\ task.op = "none" /\ task.at = "none"  BY <1>1, <1>3, Idle DEF ShapeOK
<1>5. TypeOK'
  <2>1. screen' \in [kind : Kinds, phase : Phases]  BY <1>1 DEF Kinds, Phases
  <2>2. QED  BY <1>1, <1>2, <2>1, Typed DEF TypeOK
<1>6. ShapeOK'  BY <1>1, <1>2, <1>4 DEF ShapeOK, Dead
<1>7. KeysOK'  BY <1>1, <1>2, <1>3, <1>4 DEF KeysOK
<1>8. QED  BY <1>1, <1>5, <1>6, <1>7, PageMoves DEF Signed

LEMMA NextToggleCreate == ASSUME IInv, ToggleCreate PROVE IInv'
<1>1. /\ form # "creating" /\ form' \in {"open", "closed"}
      /\ UNCHANGED <<server, screen, out, paused, offline, list, held, kept, work, ended, counts>>
  BY DEF ToggleCreate
<1>2. UNCHANGED <<account, tokens, albums, holds, keys, handles, reran, poisoned, store, token,
                  task, stray, visits, faults>>
  BY <1>1 DEF server, held, kept, work, counts
<1>3. ShapeOK /\ KeysOK  BY DEF IInv
<1>4. TypeOK'  BY <1>1, <1>2, Typed DEF TypeOK
<1>5. ShapeOK'  BY <1>1, <1>2, <1>3 DEF ShapeOK, Dead
<1>6. KeysOK'  BY <1>1, <1>2, <1>3 DEF KeysOK
<1>7. QED  BY <1>1, <1>4, <1>5, <1>6, PageMoves

LEMMA NextAskSignOut == ASSUME IInv, AskSignOut PROVE IInv'
<1>1. /\ screen.kind = "unlock" /\ out' \in {"asked", "no"}
      /\ UNCHANGED <<server, screen, form, paused, offline, list, held, kept, work, ended, counts>>
  BY DEF AskSignOut
<1>2. UNCHANGED <<account, tokens, albums, holds, keys, handles, reran, poisoned, store, token,
                  task, stray, visits, faults>>
  BY <1>1 DEF server, held, kept, work, counts
<1>3. ShapeOK /\ KeysOK  BY DEF IInv
<1>4. TypeOK'  BY <1>1, <1>2, Typed DEF TypeOK
<1>5. ShapeOK'  BY <1>1, <1>2, <1>3 DEF ShapeOK, Dead
<1>6. KeysOK'  BY <1>1, <1>2, <1>3 DEF KeysOK
<1>7. QED  BY <1>1, <1>4, <1>5, <1>6, PageMoves

LEMMA NextPauseEnds == ASSUME IInv, PauseEnds PROVE IInv'
<1>1. /\ paused # "none" /\ paused' = "none"
      /\ UNCHANGED <<server, form, out, offline, list, held, kept, work, ended, counts>>
  BY DEF PauseEnds
<1>2. UNCHANGED <<account, tokens, albums, holds, keys, handles, reran, poisoned, store, token,
                  task, stray, visits, faults>>
  BY <1>1 DEF server, held, kept, work, counts
<1>3. ShapeOK /\ KeysOK  BY DEF IInv
<1>4. CASE screen.phase = "paused" /\ screen' = [kind |-> paused, phase |-> "ready"]
  <2>1. paused \in {"signin", "signup"} /\ screen.kind \in {"signin", "signup"}
    BY <1>1, <1>3, <1>4, Typed DEF ShapeOK
  <2>2. task = NoTask /\ task.op = "none" /\ task.at = "none"
    BY <1>3, <1>4, <2>1, Idle DEF ShapeOK
  <2>3. TypeOK'
    <3>1. screen' \in [kind : Kinds, phase : Phases]  BY <1>4, <2>1 DEF Kinds, Phases
    <3>2. QED  BY <1>1, <1>2, <3>1, Typed DEF TypeOK
  <2>4. ShapeOK'  BY <1>1, <1>2, <1>4, <2>1, <2>2 DEF ShapeOK, Dead
  <2>5. KeysOK'  BY <1>1, <1>2, <1>3, <2>1, <2>2 DEF KeysOK
  <2>6. QED  BY <1>1, <1>4, <2>1, <2>3, <2>4, <2>5, PageMoves DEF Signed
<1>5. CASE screen' = screen
  <2>1. TypeOK'  BY <1>1, <1>2, <1>5, Typed DEF TypeOK
  <2>2. ShapeOK' /\ KeysOK'  BY <1>1, <1>2, <1>3, <1>5 DEF ShapeOK, KeysOK, Dead
  <2>3. QED  BY <1>1, <1>5, <2>1, <2>2, PageMoves
<1>6. QED  BY <1>4, <1>5 DEF PauseEnds, Shows
-----------------------------------------------------------------------------
(***************************************************************************)
(* The album list, a new album, and the sign-out.                          *)
(***************************************************************************)
LEMMA NextAlbumsListed == ASSUME IInv, AlbumsListed PROVE IInv'
<1>1. /\ task.at = "albums" /\ task.wait = "asking" /\ Done
      /\ list' = albums /\ keys' = keys \cup albums
      /\ handles' = handles + Cardinality(albums \ keys)
      /\ screen' = [kind |-> "albums", phase |-> "ready"]
      /\ UNCHANGED <<server, form, out, paused, offline, holds, reran, poisoned, store, token,
                     stray, ended, visits, faults>>
  BY DEF AlbumsListed, Got, Shows, kept, counts
<1>2. TokensOK /\ ShapeOK /\ KeysOK /\ HandlesOK  BY DEF IInv
<1>3. task.op \in {"unlock", "signin"} /\ offline' = FALSE  BY <1>1, Asking, Typed DEF Course
<1>4. ~poisoned /\ screen.kind = "albums" /\ out = "no" /\ token # 0
  BY <1>1, <1>2, <1>3 DEF KeysOK, ShapeOK, TokensOK, Bearing
<1>5. UNCHANGED <<account, tokens, albums>>  BY <1>1 DEF server
<1>6. /\ task' \in Requests /\ task' = NoTask /\ task'.op = "none" /\ task'.at = "none"
      /\ task'.tok = 0 /\ task'.reply = "none" /\ task'.wait = "none"
  BY <1>1, DoneIs
<1>7. /\ holds \in SUBSET {"kek", "master", "material"} /\ keys \in SUBSET Albums
      /\ keys' \in SUBSET Albums /\ albums \ keys \in SUBSET Albums /\ handles \in Nat
  BY <1>1, Typed
<1>8. /\ Cardinality(keys') = Cardinality(keys) + Cardinality(albums \ keys)
      /\ Cardinality(keys) \in Nat /\ Cardinality(albums \ keys) \in Nat
  <2>1. /\ IsFiniteSet(keys) /\ Cardinality(keys) \in Nat
        /\ IsFiniteSet(albums \ keys) /\ Cardinality(albums \ keys) \in Nat
    BY <1>7, ReferencedIs
  <2>2. keys' = keys \cup (albums \ keys) /\ keys \cap (albums \ keys) = {}  BY <1>1
  <2>3. Cardinality(keys \cup (albums \ keys))
          = Cardinality(keys) + Cardinality(albums \ keys) - Cardinality(keys \cap (albums \ keys))
    BY <2>1, FS_Union
  <2>4. Cardinality(keys \cap (albums \ keys)) = 0  BY <2>2, FS_EmptySet
  <2>5. Cardinality(keys') = Cardinality(keys \cup (albums \ keys))  BY <2>2
  <2>6. QED  BY <2>1, <2>3, <2>4, <2>5
<1>9. TypeOK'
  <2>1. screen' \in [kind : Kinds, phase : Phases]  BY <1>1 DEF Kinds, Phases
  <2>2. handles' \in Nat  BY <1>1, <1>7, <1>8
  <2>3. QED  BY <1>1, <1>5, <1>6, <1>7, <2>1, <2>2, Typed DEF TypeOK
<1>10. ShapeOK'  BY <1>1, <1>4, <1>6 DEF ShapeOK, Dead
<1>11. KeysOK'  BY <1>1, <1>2, <1>4, <1>5, <1>6 DEF KeysOK
<1>12. HandlesOK'
  <2>1. Owners' = Owners /\ Cardinality(Owners) \in Nat  BY <1>1, <1>3, <1>6, OwnersAlike
  <2>2. /\ Referenced(holds, keys)
             = Flag(holds, "kek") + Flag(holds, "master") + Cardinality(keys)
        /\ Referenced(holds', keys')
             = Flag(holds, "kek") + Flag(holds, "master") + Cardinality(keys')
        /\ Flag(holds, "kek") \in Nat /\ Flag(holds, "master") \in Nat
    BY <1>1, <1>7, ReferencedIs DEF Flag
  <2>3. QED  BY <1>1, <1>2, <1>4, <1>7, <1>8, <2>1, <2>2 DEF HandlesOK
<1>13. QED
  <2>1. Course(task'.op, task'.at)  BY <1>6 DEF Course
  <2>2. {store', token', task'.tok} \subseteq {0, store, token, task.tok}  BY <1>1, <1>6
  <2>3. QED  BY <1>1, <1>3, <1>4, <1>6, <1>9, <1>10, <1>11, <1>12, <2>1, <2>2, Steps DEF Bearing

LEMMA NextLogoutFailed == ASSUME IInv, LogoutFailed PROVE IInv'
<1>1. /\ task.at = "logout" /\ task.wait = "asking" /\ Done
      /\ screen' = [kind |-> "partial", phase |-> "ready"] /\ out' = task.arg
      /\ form' = "closed" /\ list' = {}
      /\ UNCHANGED <<server, paused, offline, holds, keys, handles, reran, poisoned, store, token,
                     stray, ended, visits, faults>>
  BY DEF LogoutFailed, Got, Shows, held, kept, counts
<1>2. TokensOK /\ TaskOK /\ ShapeOK /\ KeysOK  BY DEF IInv
<1>3. task.op = "logout" /\ offline' = FALSE  BY <1>1, Asking, Typed DEF Course
<1>4. task.arg \in Scopes /\ holds = {} /\ keys = {} /\ token # 0
  BY <1>1, <1>2, <1>3 DEF TaskOK, ShapeOK, TokensOK, Bearing
<1>5. UNCHANGED <<account, tokens, albums>>  BY <1>1 DEF server
<1>6. /\ task' \in Requests /\ task' = NoTask /\ task'.op = "none" /\ task'.at = "none"
      /\ task'.tok = 0 /\ task'.reply = "none" /\ task'.wait = "none"
  BY <1>1, DoneIs
<1>7. TypeOK'
  <2>1. screen' \in [kind : Kinds, phase : Phases]  BY <1>1 DEF Kinds, Phases
  <2>2. QED  BY <1>1, <1>4, <1>5, <1>6, <2>1, Typed DEF TypeOK
<1>8. ShapeOK'  BY <1>1, <1>6 DEF ShapeOK, Dead
<1>9. KeysOK'  BY <1>1, <1>4, <1>6 DEF KeysOK
<1>10. HandlesOK'
  <2>1. Owners' = Owners  BY <1>1, <1>3, <1>6, OwnersAlike
  <2>2. QED  BY <1>1, <2>1, HandlesKept
<1>11. QED
  <2>1. Course(task'.op, task'.at)  BY <1>6 DEF Course
  <2>2. {store', token', task'.tok} \subseteq {0, store, token, task.tok}  BY <1>1, <1>6
  <2>3. QED  BY <1>1, <1>3, <1>4, <1>6, <1>7, <1>8, <1>9, <1>10, <2>1, <2>2, Steps DEF Bearing

LEMMA NextCreateAlbum == ASSUME IInv, NEW a \in Albums, CreateAlbum(a) PROVE IInv'
<1>1. /\ screen = [kind |-> "albums", phase |-> "ready"]
      /\ form \in {"open", "failed"} /\ out = "no" /\ "master" \in holds
      /\ a \notin albums /\ (\A r \in stray : r.arg # a)
      /\ UNCHANGED <<server, screen, out, paused, offline, list, holds, keys, reran, poisoned,
                     store, token, stray, ended, visits>>
  BY DEF CreateAlbum, kept
<1>2. TokensOK /\ TaskOK /\ ShapeOK /\ KeysOK /\ HandlesOK  BY DEF IInv
<1>3. task = NoTask /\ task.op = "none" /\ task.at = "none" /\ offline' = FALSE
  BY <1>1, <1>2, Idle, Typed DEF ShapeOK
<1>4. ~poisoned /\ a \notin keys /\ token \in 0..MaxTokens /\ token # 0
  BY <1>1, <1>2, Typed DEF KeysOK, TokensOK, Signed
<1>5. UNCHANGED <<account, tokens, albums>>  BY <1>1 DEF server
<1>6. CASE form' = "creating" /\ handles' = handles + 1 /\ UNCHANGED faults
           /\ task' = Ask("create", "create", token, a)
  <2>1. /\ task' \in Requests /\ task'.op = "create" /\ task'.at = "create" /\ task'.tok = token
        /\ task'.arg = a /\ task'.reply = "none" /\ task'.wait = "asking"
    BY <1>4, <1>6, AskIs DEF Ops, Places
  <2>2. TypeOK'
    <3>1. handles' \in Nat  BY <1>6, Typed
    <3>2. QED  BY <1>1, <1>5, <1>6, <2>1, <3>1, Typed DEF TypeOK
  <2>3. TokensOK'
    <3>1. {store', token', task'.tok} \subseteq {0, store, token, task.tok}  BY <1>1, <2>1
    <3>2. QED  BY <1>1, <1>4, <1>5, <2>1, <3>1, TokensMove
  <2>4. TaskOK'
    <3>1. Course(task'.op, task'.at)  BY <2>1 DEF Course
    <3>2. QED  BY <1>1, <1>2, <1>3, <2>1, <3>1 DEF TaskOK
  <2>5. ShapeOK'  BY <1>1, <1>4, <1>6, <2>1 DEF ShapeOK, Dead
  <2>6. KeysOK'  BY <1>1, <1>2, <1>3, <1>4, <1>5, <2>1 DEF KeysOK
  <2>7. HandlesOK'
    <3>1. Owners' = Owners \cup {task'} /\ task' \notin Owners
      BY <1>1, <1>3, <2>1 DEF Owners
    <3>2. IsFiniteSet(Owners) /\ Cardinality(Owners) \in Nat  BY <1>2, OwnersFinite DEF TaskOK
    <3>3. Cardinality(Owners') = Cardinality(Owners) + 1  BY <3>1, <3>2, FS_AddElement
    <3>4. holds \in SUBSET {"kek", "master", "material"} /\ keys \in SUBSET Albums /\ handles \in Nat
      BY Typed
    <3>5. Referenced(holds, keys) \in Nat  BY <3>4, ReferencedIs
    <3>6. QED  BY <1>1, <1>2, <1>4, <1>6, <3>2, <3>3, <3>4, <3>5 DEF HandlesOK
  <2>8. QED  BY <2>2, <2>3, <2>4, <2>5, <2>6, <2>7 DEF IInv
<1>7. CASE Fault /\ form' = "failed" /\ UNCHANGED <<handles, task>>
  <2>1. faults' \in 0..MaxFaults  BY <1>7, Typed, BoundAssumption DEF Fault
  <2>2. UNCHANGED <<server, offline, held, kept, work, ended, screen>>
    BY <1>1, <1>7 DEF held, kept, work
  <2>3. TypeOK'  BY <1>1, <1>5, <1>7, <2>1, Typed DEF TypeOK
  <2>4. ShapeOK'  BY <1>1, <1>2, <1>3, <1>7 DEF ShapeOK, Dead
  <2>5. KeysOK'  BY <1>1, <1>2, <1>5, <1>7 DEF KeysOK
  <2>6. QED  BY <2>2, <2>3, <2>4, <2>5, PageMoves
<1>8. QED  BY <1>6, <1>7 DEF CreateAlbum

LEMMA NextAlbumCreated == ASSUME IInv, AlbumCreated PROVE IInv'
<1>1. /\ task.at = "create" /\ task.wait = "asking" /\ task.reply \in {"ok", "conflict", "odd"} /\ Done
      /\ UNCHANGED <<server, screen, out, paused, offline, holds, reran, poisoned, store, token,
                     stray, ended, visits, faults>>
  BY DEF AlbumCreated, Got, kept, counts
<1>2. TokensOK /\ TaskOK /\ ShapeOK /\ KeysOK /\ HandlesOK  BY DEF IInv
<1>3. task.op = "create" /\ offline' = FALSE  BY <1>1, Asking, Typed DEF Course
<1>4. /\ ~poisoned /\ screen = [kind |-> "albums", phase |-> "ready"] /\ out = "no"
      /\ task.arg \in Albums /\ task.arg \notin keys
      /\ \A r \in stray : r.op = "create" => r.arg # task.arg
  BY <1>1, <1>2, <1>3 DEF KeysOK, ShapeOK, TaskOK
<1>5. UNCHANGED <<account, tokens, albums>>  BY <1>1 DEF server
<1>6. /\ task' \in Requests /\ task' = NoTask /\ task'.op = "none" /\ task'.at = "none"
      /\ task'.tok = 0 /\ task'.reply = "none" /\ task'.wait = "none"
  BY <1>1, DoneIs
<1>7. TokensOK'
  <2>1. token' # 0  BY <1>1, <1>2, <1>4 DEF TokensOK, Signed
  <2>2. {store', token', task'.tok} \subseteq {0, store, token, task.tok}  BY <1>1, <1>6
  <2>3. QED  BY <1>1, <1>5, <1>6, <2>1, <2>2, TokensMove DEF Bearing
<1>8. TaskOK'
  <2>1. Course(task'.op, task'.at)  BY <1>6 DEF Course
  <2>2. QED  BY <1>1, <1>2, <1>3, <1>6, <2>1 DEF TaskOK
<1>9. /\ Cardinality(Owners') = Cardinality(Owners) - 1
      /\ Cardinality(Owners) \in Nat /\ Cardinality(Owners') \in Nat
  <2>1. IsFiniteSet(Owners) /\ Cardinality(Owners) \in Nat  BY <1>2, OwnersFinite DEF TaskOK
  <2>2. task \in Owners /\ Owners' = Owners \ {task}  BY <1>1, <1>3, <1>4, <1>6 DEF Owners
  <2>3. QED  BY <2>1, <2>2, FS_RemoveElement, FS_CardinalityType
<1>10. holds \in SUBSET {"kek", "master", "material"} /\ keys \in SUBSET Albums /\ handles \in Nat
  BY Typed
<1>11. Referenced(holds, keys) \in Nat  BY <1>10, ReferencedIs
<1>12. ~reran => /\ "kek" \notin holds /\ "material" \notin holds
  BY <1>2, <1>3, <1>4 DEF KeysOK
<1>13. CASE form' = "failed" /\ handles' = handles - 1 /\ UNCHANGED <<keys, list>>
  <2>1. handles' \in Nat  BY <1>2, <1>4, <1>9, <1>10, <1>11, <1>13 DEF HandlesOK
  <2>2. TypeOK'  BY <1>1, <1>5, <1>6, <1>13, <2>1, Typed DEF TypeOK
  <2>3. ShapeOK'  BY <1>1, <1>4, <1>6, <1>13 DEF ShapeOK, Dead
  <2>4. KeysOK'  BY <1>1, <1>2, <1>4, <1>5, <1>6, <1>12, <1>13 DEF KeysOK
  <2>5. HandlesOK'  BY <1>1, <1>2, <1>4, <1>9, <1>10, <1>11, <1>13 DEF HandlesOK
  <2>6. QED  BY <1>7, <1>8, <2>2, <2>3, <2>4, <2>5 DEF IInv
<1>14. CASE /\ task.reply # "odd" /\ form' = "closed" /\ keys' = keys \cup {task.arg}
            /\ list' = list \cup {task.arg} /\ UNCHANGED handles
  <2>1. task.arg \in albums  BY <1>1, <1>2, <1>3, <1>14 DEF TaskOK
  <2>2. TypeOK'  BY <1>1, <1>4, <1>5, <1>6, <1>14, Typed DEF TypeOK
  <2>3. ShapeOK'  BY <1>1, <1>4, <1>6, <1>14 DEF ShapeOK, Dead
  <2>4. KeysOK'  BY <1>1, <1>2, <1>4, <1>5, <1>6, <1>12, <1>14, <2>1 DEF KeysOK
  <2>5. HandlesOK'
    <3>1. IsFiniteSet(keys) /\ Cardinality(keys) \in Nat  BY <1>10, ReferencedIs
    <3>2. Cardinality(keys') = Cardinality(keys) + 1 /\ keys' \in SUBSET Albums
      BY <1>4, <1>10, <1>14, <3>1, FS_AddElement
    <3>3. Referenced(holds', keys') = Referenced(holds, keys) + 1
      <4>1. /\ Referenced(holds, keys)
                 = Flag(holds, "kek") + Flag(holds, "master") + Cardinality(keys)
            /\ Referenced(holds', keys')
                 = Flag(holds, "kek") + Flag(holds, "master") + Cardinality(keys')
            /\ Flag(holds, "kek") \in Nat /\ Flag(holds, "master") \in Nat
        BY <1>1, <1>10, <3>2, ReferencedIs DEF Flag
      <4>2. QED  BY <3>1, <3>2, <4>1
    <3>4. QED  BY <1>1, <1>2, <1>4, <1>9, <1>10, <1>11, <1>14, <3>3 DEF HandlesOK
  <2>6. QED  BY <1>7, <1>8, <2>2, <2>3, <2>4, <2>5 DEF IInv
<1>15. QED  BY <1>13, <1>14 DEF AlbumCreated
LEMMA NextLogout == ASSUME IInv, NEW scope \in Scopes, Logout(scope) PROVE IInv'
<1>1. /\ task.op # "logout" /\ task' = Ask("logout", "logout", token, scope)
      /\ stray' = stray \cup Stale(task) /\ FreeHandles(poisoned) /\ Quiet
      /\ UNCHANGED <<server, form, list, reran, poisoned, store, token, ended, visits, faults>>
  BY DEF Logout, FreeHandles, kept, counts
<1>2. TokensOK /\ TaskOK /\ ShapeOK /\ KeysOK /\ HandlesOK  BY DEF IInv
<1>3. \/ /\ screen.kind = "unlock" /\ out = "asked"
         /\ screen' = [kind |-> "unlock", phase |-> "ready"] /\ out' = out
      \/ /\ screen.kind = "albums" /\ form # "creating" /\ out' = scope /\ screen' = screen
      \/ /\ screen.kind = "partial" /\ out' = out
         /\ screen' = [kind |-> "partial", phase |-> "busy"]
  BY <1>1 DEF Logout, Shows
<1>4. task.op # "create" /\ token \in 0..MaxTokens /\ token # 0
  BY <1>2, <1>3, Typed DEF ShapeOK, TokensOK, Signed
<1>5. UNCHANGED <<account, tokens, albums>>  BY <1>1 DEF server
<1>6. /\ task' \in Requests /\ task'.op = "logout" /\ task'.at = "logout" /\ task'.tok = token
      /\ task'.arg = scope /\ task'.reply = "none" /\ task'.wait = "asking"
  BY <1>1, <1>4, AskIs DEF Ops, Places
<1>7. /\ Stale(task) \subseteq {task} /\ offline' = FALSE /\ paused' = "none"
      /\ holds' = {} /\ keys' = {}
      /\ handles' = IF poisoned THEN handles ELSE handles - Referenced(holds, keys)
  BY <1>1 DEF Stale, Quiet, FreeHandles
<1>8. \A x \in stray' : x \in stray \/ x = task  BY <1>1, <1>7
<1>9. /\ Owners' = Owners /\ Cardinality(Owners) \in Nat /\ handles \in Nat
      /\ Referenced(holds, keys) \in Nat /\ Referenced(holds', keys') = 0
  <2>1. Owners' = Owners  BY <1>1, <1>4, <1>6, <1>8 DEF Owners
  <2>2. holds \in SUBSET {"kek", "master", "material"} /\ keys \in SUBSET Albums /\ handles \in Nat
    BY Typed
  <2>3. QED  BY <1>2, <1>7, <2>1, <2>2, OwnersFinite, ReferencedIs, NothingReferenced DEF TaskOK
<1>10. TypeOK'
  <2>1. screen' \in [kind : Kinds, phase : Phases]  BY <1>3, Typed DEF Kinds, Phases
  <2>2. out' \in {"no", "asked"} \cup Scopes  BY <1>3, Typed
  <2>3. stray' \subseteq Requests  BY <1>8, Typed
  <2>4. handles' \in Nat  BY <1>2, <1>7, <1>9 DEF HandlesOK
  <2>5. QED  BY <1>1, <1>5, <1>6, <1>7, <2>1, <2>2, <2>3, <2>4, Typed DEF TypeOK
<1>11. TokensOK'
  <2>1. \A t \in Named' : t = 0 \/ t \in Named  BY <1>1, <1>6, <1>8 DEF Named
  <2>2. \A t \in Named' : t # 0 => tokens'[t] # "unused"  BY <1>2, <1>5, <2>1 DEF TokensOK
  <2>3. QED  BY <1>1, <1>2, <1>4, <1>5, <1>6, <2>2 DEF TokensOK, Dying
<1>12. TaskOK'
  <2>1. IsFiniteSet(stray')
    <3>1. IsFiniteSet(stray \cup {task})  BY <1>2, FS_AddElement DEF TaskOK
    <3>2. QED  BY <1>1, <1>7, <3>1, FS_Subset
  <2>2. Course(task'.op, task'.at)  BY <1>6 DEF Course
  <2>3. \A x \in stray' \cup {task'} : x.at = "create" => x.arg \in Albums
    BY <1>2, <1>6, <1>8 DEF TaskOK
  <2>4. \A x, y \in stray' : x.op = "create" /\ y.op = "create" /\ x.arg = y.arg => x = y
    BY <1>2, <1>4, <1>8 DEF TaskOK
  <2>5. QED  BY <1>6, <1>7, <2>1, <2>2, <2>3, <2>4 DEF TaskOK
<1>13. ShapeOK'
  <2>1. scope # "no"  BY DEF Scopes
  <2>2. QED  BY <1>3, <1>6, <1>7, <1>2, <2>1 DEF ShapeOK, Dead
<1>14. KeysOK'  BY <1>6, <1>7 DEF KeysOK
<1>15. HandlesOK'  BY <1>1, <1>2, <1>7, <1>9 DEF HandlesOK
<1>16. QED  BY <1>10, <1>11, <1>12, <1>13, <1>14, <1>15 DEF IInv

-----------------------------------------------------------------------------
(***************************************************************************)
(* The page comes again, and a stale task wakes.                           *)
(***************************************************************************)
\* What is left of a page that is gone owns nothing.
Remains(S) == {[r EXCEPT !.op = "gone"] : r \in S}

LEMMA GonePages ==
    ASSUME IInv, NEW S \in SUBSET stray
    PROVE  /\ Remains(S) \subseteq Requests /\ IsFiniteSet(Remains(S))
           /\ \A q \in Remains(S) :
                /\ q.op = "gone"
                /\ \E r \in S : q.at = r.at /\ q.arg = r.arg /\ q.tok = r.tok
<1>1. IsFiniteSet(S) /\ S \subseteq Requests
  <2>1. IsFiniteSet(stray)  BY DEF IInv, TaskOK
  <2>2. QED  BY <2>1, FS_Subset, Typed
<1>2. Remains(S) \subseteq Requests  BY <1>1 DEF Remains, Requests, Ops
<1>3. \A q \in Remains(S) :
         q.op = "gone" /\ \E r \in S : q.at = r.at /\ q.arg = r.arg /\ q.tok = r.tok
  BY <1>1 DEF Remains, Requests
<1>4. IsFiniteSet(Remains(S))
  <2> DEFINE f == [r \in S |-> [r EXCEPT !.op = "gone"]]
  <2>1. f \in Surjection(S, Remains(S))  BY DEF Remains, Surjection
  <2> HIDE DEF f
  <2>2. QED  BY <1>1, <2>1, FS_Surjection
<1>5. QED  BY <1>2, <1>3, <1>4

LEMMA NextOpen == ASSUME IInv, NEW loaded \in BOOLEAN, Open(loaded) PROVE IInv'
<1>1. /\ screen.kind = "left" /\ visits < MaxVisits /\ visits' = visits + 1 /\ token' = store
      /\ UNCHANGED <<server, form, out, paused, offline, list, holds, keys, store, ended, faults>>
      /\ \/ store = 0 /\ screen' = [kind |-> "signin", phase |-> "ready"] /\ task' = NoTask
         \/ /\ store # 0 /\ screen' = [kind |-> "checking", phase |-> "busy"]
            /\ task' = Ask("fetch", "ownerKey", store, "none")
  BY DEF Open, Shows
<1>2. TokensOK /\ TaskOK /\ ShapeOK /\ KeysOK /\ HandlesOK  BY DEF IInv
<1>3. /\ task = NoTask /\ task.op = "none" /\ task.wait = "none" /\ holds = {} /\ keys = {}
      /\ offline' = FALSE
  BY <1>1, <1>2, Typed DEF ShapeOK, TaskOK, Dead, NoTask
<1>4. UNCHANGED <<account, tokens, albums>>  BY <1>1 DEF server
<1>5. store \in 0..MaxTokens /\ 0 \in 0..MaxTokens  BY Typed, BoundAssumption
<1>6. /\ task' \in Requests /\ task'.reply = "none"
      /\ \/ /\ store = 0 /\ screen' = [kind |-> "signin", phase |-> "ready"]
            /\ task' = NoTask /\ task'.op = "none" /\ task'.at = "none" /\ task'.tok = 0
            /\ task'.wait = "none"
         \/ /\ store # 0 /\ screen' = [kind |-> "checking", phase |-> "busy"]
            /\ task'.op = "fetch" /\ task'.at = "ownerKey" /\ task'.tok = store
            /\ task'.wait = "asking"
  <2>1. CASE store = 0 /\ task' = NoTask /\ screen' = [kind |-> "signin", phase |-> "ready"]
    BY <2>1, NoTaskTyped DEF NoTask
  <2>2. CASE /\ store # 0 /\ screen' = [kind |-> "checking", phase |-> "busy"]
             /\ task' = Ask("fetch", "ownerKey", store, "none")
    BY <1>5, <2>2, AskIs DEF Ops, Places
  <2>3. QED  BY <1>1, <2>1, <2>2
<1>7. Course(task'.op, task'.at) /\ task'.op \in {"none", "fetch"} /\ task'.at \in {"none", "ownerKey"}
  BY <1>6 DEF Course
<1>8. /\ stray' \subseteq Requests /\ IsFiniteSet(stray')
      /\ \A q \in stray' : \E r \in stray : q.at = r.at /\ q.arg = r.arg /\ q.tok = r.tok
      /\ \A x, y \in stray' : x.op = "create" /\ y.op = "create" /\ x.arg = y.arg => x = y
      /\ handles' \in Nat /\ reran' \in BOOLEAN /\ poisoned' \in BOOLEAN
      /\ HandlesOK'
  <2>1. CASE UNCHANGED <<handles, reran, poisoned, stray>>
    <3>1. Owners' = Owners  BY <1>3, <1>7, <2>1, OwnersAlike
    <3>2. HandlesOK'  BY <1>1, <2>1, <3>1, HandlesKept
    <3>3. QED  BY <1>2, <2>1, <3>2, Typed DEF TaskOK
  <2>2. CASE /\ handles' = 0 /\ reran' = FALSE /\ poisoned' = FALSE
             /\ stray' = {[r EXCEPT !.op = "gone"] : r \in {s \in stray : InHand(s)}}
    <3>1. /\ stray' \subseteq Requests /\ IsFiniteSet(stray')
          /\ \A q \in stray' : /\ q.op = "gone"
                               /\ \E r \in stray : q.at = r.at /\ q.arg = r.arg /\ q.tok = r.tok
      <4> DEFINE S == {s \in stray : InHand(s)}
      <4>1. S \in SUBSET stray  OBVIOUS
      <4>2. stray' = Remains(S)  BY <2>2 DEF Remains
      <4> HIDE DEF S
      <4>3. /\ stray' \subseteq Requests /\ IsFiniteSet(stray')
            /\ \A q \in stray' : /\ q.op = "gone"
                                 /\ \E r \in S : q.at = r.at /\ q.arg = r.arg /\ q.tok = r.tok
        BY <4>1, <4>2, GonePages
      <4>4. QED  BY <4>1, <4>3
    <3>2. Owners' = {}  BY <1>7, <3>1 DEF Owners
    <3>3. Cardinality(Owners') = 0 /\ Referenced(holds', keys') = 0
      BY <1>1, <1>3, <3>2, FS_EmptySet, NothingReferenced
    <3>4. HandlesOK'  BY <2>2, <3>3 DEF HandlesOK
    <3>5. QED  BY <2>2, <3>1, <3>4
  <2>3. QED  BY <2>1, <2>2 DEF Open
<1>9. TypeOK'
  <2>1. screen' \in [kind : Kinds, phase : Phases]  BY <1>6 DEF Kinds, Phases
  <2>2. visits' \in 0..MaxVisits  BY <1>1, Typed, BoundAssumption
  <2>3. token' \in 0..MaxTokens  BY <1>1, <1>5
  <2>4. QED  BY <1>1, <1>4, <1>6, <1>8, <2>1, <2>2, <2>3, Typed DEF TypeOK
<1>10. TokensOK'
  <2>1. \A t \in Named' : t = 0 \/ t \in Named  BY <1>1, <1>6, <1>8 DEF Named
  <2>2. \A t \in Named' : t # 0 => tokens'[t] # "unused"  BY <1>2, <1>4, <2>1 DEF TokensOK
  <2>3. screen'.kind \in Signed \/ task'.op = "unlock" \/ task'.at \in Bearing => token' # 0
    BY <1>1, <1>6 DEF Signed, Bearing
  <2>4. task'.at \in Bearing => task'.tok # 0  BY <1>6 DEF Bearing
  <2>5. QED  BY <1>1, <1>2, <1>4, <1>6, <2>2, <2>3, <2>4 DEF TokensOK, Dying
<1>11. TaskOK'
  <2>1. \A x \in stray' \cup {task'} : x.at = "create" => x.arg \in Albums
    BY <1>2, <1>7, <1>8 DEF TaskOK
  <2>2. QED  BY <1>3, <1>6, <1>7, <1>8, <2>1 DEF TaskOK
<1>12. ShapeOK'  BY <1>6 DEF ShapeOK, Dead
<1>13. KeysOK'  BY <1>1, <1>3, <1>6 DEF KeysOK
<1>14. QED  BY <1>8, <1>9, <1>10, <1>11, <1>12, <1>13 DEF IInv

LEMMA NextStrayEnds == ASSUME IInv, NEW r \in stray, StrayEnds(r) PROVE IInv'
<1>1. /\ stray' = stray \ {r} /\ store' \in {0, store}
      /\ handles' = IF r.op # "gone" /\ ~poisoned THEN handles - Own(r) ELSE handles
      /\ UNCHANGED <<server, screen, form, out, paused, offline, list, holds, keys, reran, poisoned,
                     token, task, ended, visits, faults>>
  BY DEF StrayEnds, page, counts
<1>2. TokensOK /\ TaskOK /\ ShapeOK /\ KeysOK /\ HandlesOK  BY DEF IInv
<1>3. UNCHANGED <<account, tokens, albums>>  BY <1>1 DEF server
<1>4. /\ holds \in SUBSET {"kek", "master", "material"} /\ keys \in SUBSET Albums /\ handles \in Nat
      /\ store \in 0..MaxTokens /\ 0 \in 0..MaxTokens
  BY Typed, BoundAssumption
<1>5. Referenced(holds, keys) \in Nat  BY <1>4, ReferencedIs
<1>6. IsFiniteSet(Owners) /\ Cardinality(Owners) \in Nat  BY <1>2, OwnersFinite DEF TaskOK
<1>7. /\ Own(r) \in Nat /\ Cardinality(Owners') = Cardinality(Owners) - Own(r)
      /\ Cardinality(Owners') \in Nat
  <2>1. CASE r.op = "create"
    <3>1. r # task  BY <1>2, <2>1 DEF TaskOK
    <3>2. r \in Owners /\ Owners' = Owners \ {r}  BY <1>1, <2>1, <3>1 DEF Owners
    <3>3. Own(r) = 1  BY <2>1 DEF Own
    <3>4. QED  BY <1>6, <3>2, <3>3, FS_RemoveElement, FS_CardinalityType
  <2>2. CASE r.op # "create"
    <3>1. Owners' = Owners  BY <1>1, <2>2 DEF Owners
    <3>2. Own(r) = 0  BY <2>2 DEF Own
    <3>3. QED  BY <1>6, <3>1, <3>2
  <2>3. QED  BY <2>1, <2>2
<1>8. r.op = "gone" => Own(r) = 0  BY DEF Own
<1>9. ~poisoned => handles' = handles - Own(r)  BY <1>1, <1>4, <1>8
<1>10. handles' \in Nat  BY <1>1, <1>2, <1>4, <1>5, <1>6, <1>7, <1>9 DEF HandlesOK
<1>11. TypeOK'  BY <1>1, <1>3, <1>4, <1>10, Typed DEF TypeOK
<1>12. TokensOK'
  <2>1. \A t \in Named' : t = 0 \/ t \in Named  BY <1>1 DEF Named
  <2>2. \A t \in Named' : t # 0 => tokens'[t] # "unused"  BY <1>2, <1>3, <2>1 DEF TokensOK
  <2>3. QED  BY <1>1, <1>2, <1>3, <2>2 DEF TokensOK, Dying
<1>13. TaskOK'
  <2>1. IsFiniteSet(stray')  BY <1>1, <1>2, FS_Subset DEF TaskOK
  <2>2. QED  BY <1>1, <1>2, <1>3, <2>1 DEF TaskOK
<1>14. ShapeOK' /\ KeysOK'  BY <1>1, <1>2, <1>3 DEF ShapeOK, KeysOK, Dead
<1>15. HandlesOK'  BY <1>1, <1>2, <1>4, <1>5, <1>6, <1>7, <1>9 DEF HandlesOK
<1>16. QED  BY <1>11, <1>12, <1>13, <1>14, <1>15 DEF IInv
-----------------------------------------------------------------------------
(***************************************************************************)
(* The theorems.                                                           *)
(***************************************************************************)
\* The invariant is inductive.
LEMMA NextIInv == IInv /\ [Next]_vars => IInv'
<1> SUFFICES ASSUME IInv, [Next]_vars PROVE IInv'  OBVIOUS
<1>1. CASE UNCHANGED vars
  <2>1. UNCHANGED <<server, screen, form, out, paused, list, holds, keys, handles, reran,
                    poisoned, kept, stray, ended, visits, task, offline>>
        /\ UNCHANGED <<held, work, page, counts, faults>>
    BY <1>1 DEF vars, page, held, kept, work, counts
  <2>2. UNCHANGED <<account, tokens, albums, store, token, faults>>
    BY <2>1 DEF server, kept, counts
  <2>3. TypeOK' /\ ShapeOK' /\ KeysOK'
    BY <2>1, <2>2 DEF IInv, TypeOK, ShapeOK, KeysOK, Dead
  <2>4. QED  BY <2>1, <2>3, PageMoves
<1>2. CASE Serve \/ Fails \/ EndsElsewhere \/ PolicyUnavailable \/ RetryOffline \/ PauseEnds
  BY <1>2, NextServe, NextFails, NextEndsElsewhere, NextPolicyUnavailable, NextRetryOffline,
     NextPauseEnds
<1>3. CASE \E r \in stray : ServeStray(r) \/ StrayEnds(r)
  BY <1>3, NextServeStray, NextStrayEnds
<1>4. CASE ClientSteps
  BY <1>4, NextWaitsOnline, NextSessionEnded, NextOwnerKeyFetched, NextUnlockDerived,
     NextParamsAnswered, NextCredentialDerived, NextLoginRefused, NextLoggedIn,
     NextMasterOpened, NextCannotUnlock, NextPolicyChecked, NextAccountKeysMade,
     NextSignupRefused, NextSignedUp, NextAlbumsListed, NextAlbumCreated,
     NextLoggedOut, NextLogoutFailed, NextDeviceFails
  DEF ClientSteps
<1>5. CASE UserSteps
  BY <1>5, NextOpen, NextLeave, NextSubmitUnlock, NextSubmitSignin, NextRetryUnlock, NextLeaves,
     NextEnterSignup, NextSubmitSignup, NextToggleCreate, NextCreateAlbum, NextAskSignOut,
     NextLogout
  DEF UserSteps
<1>6. QED  BY <1>1, <1>2, <1>3, <1>4, <1>5 DEF Next

\* It holds for ever.
LEMMA AlwaysIInv == Spec => []IInv
<1>1. QED  BY InitIInv, NextIInv, PTL DEF Spec

\* The variables of the owner's session keep their types.
THEOREM OwnerSessionIsTyped == Spec => []TypeOK
<1>1. IInv => TypeOK  BY DEF IInv
<1>2. QED  BY <1>1, AlwaysIInv, PTL

\* A session that this device was told is over opens nothing any more, whatever was
\* under way when it ended (logout, logoutAll, authenticateOwner).
THEOREM EndedSessionsStayOver == Spec => []SignedOutEnds
<1>1. IInv => SignedOutEnds  BY DEF IInv, TokensOK, SignedOutEnds, Dying
<1>2. QED  BY <1>1, AlwaysIInv, PTL

\* No key outlives what it is for, and every handle made and not freed is referred to,
\* or is the key of an album being created (freeHandles, freeQuietly, submitSignin,
\* submitSignup, createAlbum).
THEOREM NoKeyOutlivesItsUse == Spec => []KeysAccounted
<1>1. ASSUME IInv PROVE KeysAccounted
  <2>1. TokensOK /\ TaskOK /\ ShapeOK /\ KeysOK /\ HandlesOK  BY <1>1 DEF IInv
  <2>2. screen.kind = "albums" => token # 0  BY <2>1 DEF TokensOK, Signed
  <2>3. task.at = "signup" => task.op = "signup"  BY <2>1 DEF TaskOK, Course
  <2>4. {r \in stray \cup {task} : Own(r) = 1} = Owners  BY DEF Own, Owners
  <2>5. QED  BY <2>1, <2>2, <2>3, <2>4 DEF KeysOK, HandlesOK, KeysAccounted
<1>2. QED  BY <1>1, AlwaysIInv, PTL

-----------------------------------------------------------------------------
(***************************************************************************)
(* The screens' inductive invariant: what a screen may look like, whose the         *)
(* requests are, and what is still to be answered behind each screen.      *)
(***************************************************************************)
AtRest == {"albums", "signin", "device-failed"}

ScreenKinds == AtRest \cup {"album", "invite", "people", "log"}
ScreenSteps == {"loading", "more", "ready", "form", "deriving", "creating", "share"}
Overs == {"none", "viewer", "review", "confirm", "removing", "qr", "passphrase",
          "revoke", "revoking"}

\* What each kind of screen may be at, and what may lie over it.
ScreenShapeOK ==
    /\ shown \in [kind : ScreenKinds, of : AlbumIds \cup {"none"}, at : ScreenSteps, over : Overs,
                  leaving : BOOLEAN]
    /\ \/ shown.kind \in AtRest /\ shown.at = "ready" /\ shown.over = "none" /\ ~shown.leaving
       \/ shown.kind = "album" /\ shown.at = "loading" /\ shown.over = "none"
       \/ /\ shown.kind = "album" /\ shown.at = "ready"
          /\ shown.over \in {"none", "viewer", "review", "confirm", "removing"}
       \/ /\ shown.kind = "invite" /\ shown.at \in {"form", "deriving", "creating", "share"}
          /\ shown.over \in {"qr", "passphrase"}
       \/ shown.kind = "people" /\ shown.at = "loading" /\ shown.over = "none"
       \/ shown.kind = "people" /\ shown.at = "ready" /\ shown.over \in {"none", "revoke", "revoking"}
       \/ shown.kind = "log" /\ shown.at \in {"loading", "more", "ready"} /\ shown.over = "none"

ScreenOps == {"load", "statuses", "upload", "remove", "words", "derive", "create",
        "people", "page", "revoke"}

Owner(op) == CASE op \in {"load", "statuses", "upload", "remove"} -> "album"
               [] op \in {"words", "derive", "create"}            -> "invite"
               [] op \in {"people", "page", "revoke"}             -> "people"

\* A request is one child's; only those whose late answer still counts outlive
\* it; and of a log only its pages are.
RequestsOK ==
    /\ asked \subseteq [op : ScreenOps, kid : Nat \ {0}, log : Nat, st : {"asked", "waiting", "again"}]
    /\ \A r \in asked : r.op = "page" <=> r.log # 0
    /\ \A r \in asked : Alive(r) => r.kid = open[Owner(r.op)]
    /\ \A r \in asked : r.op \notin {"create", "people", "page"} => Alive(r)

\* The screen is that of the one child that is open.
OneChild ==
    /\ \A c \in Children : open[c] # 0 <=> ShownBy(shown.kind) = c
    /\ \A c \in Children : open[c] # 0 => views[open[c]] = shown.of
    /\ log # 0 <=> shown.kind = "log"

\* A screen that waits has something under way that will end the wait.
SomethingBehind ==
    \A op \in Behind : \E r \in asked : Alive(r) /\ r.op = op /\ r.log = log

\* The list of people is asked for once, and a revocation sent once, under the
\* screen that says so.
AskedOnce ==
    /\ \A r \in asked : Alive(r) /\ r.op = "people" =>
         shown.kind = "people" /\ shown.at = "loading"
    /\ \A r \in asked : r.op = "revoke" => shown.kind = "people" /\ shown.over = "revoking"
    /\ \A q, r \in asked : Alive(q) /\ Alive(r) /\ q.op = r.op /\ r.op \in {"people", "revoke"}
         => q = r

\* Where to go is remembered under the album's question, and is where the owner
\* asked to go.
WishKept ==
    /\ afterLeave # "none" => astray \/ (shown.kind = "album" /\ shown.leaving)
    /\ shown.kind = "album" /\ shown.leaving /\ ~astray =>
         wish = IF afterLeave = "none" THEN "albums" ELSE afterLeave
    /\ afterLeave # "albums"

\* Whoever waits says so.
WaitingIsSaid == \A r \in asked : r.st # "asked" => awaits

ScreensIInv ==
    /\ ScreensTypeOK
    /\ ScreenShapeOK
    /\ RequestsOK
    /\ OneChild
    /\ SomethingBehind
    /\ AskedOnce
    /\ WishKept
    /\ WaitingIsSaid

\* What does not speak of where to go, nor of who waits.
OnScreen == ScreenShapeOK /\ RequestsOK /\ OneChild /\ SomethingBehind /\ AskedOnce

\* The types of what a child is made of, and of the rest.
MadeOK ==
    /\ open \in [Children -> 0..Len(views)] /\ log \in 0..logs
    /\ views \in Seq(AlbumIds) /\ logs \in Nat
    /\ languages \in {"idle", "loading", "failed", "known"}
    /\ \A r \in asked : r.kid \in DOMAIN views

RestOK ==
    /\ there \subseteq AlbumIds /\ listed \subseteq AlbumIds
    /\ {afterLeave, wish} \subseteq {"none", "albums", "invite", "people"}
    /\ awaits \in BOOLEAN /\ astray \in BOOLEAN
    /\ mishaps \in 0..MaxMishaps

-----------------------------------------------------------------------------
\* The invariant holds on the list the session opens with.
LEMMA InitScreensIInv == ScreensInit => ScreensIInv
<1> SUFFICES ASSUME ScreensInit PROVE ScreensIInv  OBVIOUS
<1>1. shown = ListShown /\ open = NoChild /\ log = 0 /\ asked = {} /\ views = <<>>
  BY DEF ScreensInit
<1>2. ScreensTypeOK
  <2>1. MadeOK  BY DEF ScreensInit, MadeOK, NoChild
  <2>2. shown.kind = "albums"  BY <1>1 DEF ListShown, On
  <2>3. mishaps \in 0..MaxMishaps  BY ScreensAssumption DEF ScreensInit
  <2>4. awaits \in BOOLEAN /\ astray \in BOOLEAN  BY DEF ScreensInit
  <2>5. QED
    BY <1>1, <2>1, <2>2, <2>3, <2>4 DEF ScreensInit, ScreensTypeOK, MadeOK
<1>3. ScreenShapeOK
  BY <1>1 DEF ScreenShapeOK, ListShown, On, AtRest, ScreenKinds, ScreenSteps, Overs
<1>4. OneChild
  BY <1>1 DEF OneChild, ListShown, On, NoChild, ShownBy, Children
<1>5. SomethingBehind  BY <1>1 DEF SomethingBehind, Behind, ListShown, On
<1>6. WishKept  BY DEF ScreensInit, WishKept, ListShown, On
<1>7. QED
  BY <1>1, <1>2, <1>3, <1>4, <1>5, <1>6
  DEF ScreensIInv, RequestsOK, AskedOnce, WaitingIsSaid

-----------------------------------------------------------------------------
(***************************************************************************)
(* A child is entered, or the list; every request so far is then dead.     *)
(***************************************************************************)

\* A child of a new number has none of the requests made so far.
LEMMA EntersOnScreen ==
    ASSUME ScreensTypeOK, RequestsOK, NEW child \in Children, NEW a \in AlbumIds,
           NEW reqs \in SUBSET asked, Enters(child, a, reqs)
    PROVE  /\ OnScreen' /\ MadeOK'
           /\ \A r \in asked' : r \in asked \/ r.st = "asked"
           /\ shown'.kind = child /\ ~shown'.leaving
<1> DEFINE n == Len(views) + 1
           first == [album |-> {Req("load", n, 0)}, invite |-> {}, people |-> {Req("people", n, 0)}]
<1>0. /\ views \in Seq(AlbumIds) /\ logs \in Nat /\ Len(views) \in Nat
      /\ \A r \in asked : r.kid \in 1..Len(views)
  BY DEF ScreensTypeOK
<1>1. /\ views' = Append(views, a) /\ logs' = logs /\ log' = 0 /\ languages' = "idle"
      /\ open' = [NoChild EXCEPT ![child] = n]
      /\ shown' = IF child = "invite" THEN [On(child, a, "form") EXCEPT !.over = "qr"]
                  ELSE On(child, a, "loading")
      /\ asked' = Lasting(reqs) \cup first[child]
  BY DEF Enters, Only
<1>2. /\ Len(views') = n /\ views'[n] = a /\ views' \in Seq(AlbumIds) /\ n \in Nat \ {0}
  BY <1>0, <1>1
<1>3. /\ \A c \in Children : open'[c] = IF c = child THEN n ELSE 0
      /\ open' \in [Children -> 0..n]
  BY <1>1, <1>2 DEF NoChild
<1>5. /\ shown'.kind = child /\ shown'.of = a /\ shown'.leaving = FALSE
      /\ shown'.at = (IF child = "invite" THEN "form" ELSE "loading")
      /\ shown'.over = (IF child = "invite" THEN "qr" ELSE "none")
      /\ shown' \in [kind : ScreenKinds, of : AlbumIds \cup {"none"}, at : ScreenSteps, over : Overs,
                     leaving : BOOLEAN]
  BY <1>1 DEF On, ScreenKinds, ScreenSteps, Overs, Children
<1>6. ScreenShapeOK'  BY <1>5 DEF ScreenShapeOK, Children
<1>7. OneChild'
  BY <1>1, <1>2, <1>3, <1>5 DEF OneChild, ShownBy, Children
<1>8. first[child] = IF child = "album" THEN {Req("load", n, 0)}
                     ELSE IF child = "people" THEN {Req("people", n, 0)} ELSE {}
  <2>1. child = "album" \/ child = "invite" \/ child = "people"  BY DEF Children
  <2>2. /\ first["album"] = {Req("load", n, 0)} /\ first["invite"] = {}
        /\ first["people"] = {Req("people", n, 0)}
    OBVIOUS
  <2>3. QED  BY <2>1, <2>2
<1> HIDE DEF first
<1>9. \A r \in asked' : \/ r \in asked /\ r.op \in {"create", "people", "page"} /\ ~Alive(r)'
                        \/ r = Req("load", n, 0) /\ child = "album"
                        \/ r = Req("people", n, 0) /\ child = "people"
  <2>1. \A r \in Lasting(reqs) : r \in asked /\ r.op \in {"create", "people", "page"}
    BY DEF Lasting
  <2>2. \A r \in asked : ~Alive(r)'
    BY <1>0, <1>2, <1>3 DEF Alive
  <2>3. QED  BY <1>1, <1>8, <2>1, <2>2
<1>4. MadeOK'  BY <1>0, <1>1, <1>2, <1>3, <1>9 DEF MadeOK, Req
<1>10. \A r : r.kid = n => Alive(r)'
  BY <1>3 DEF Alive
<1>11. RequestsOK'
  <2>1. ASSUME NEW r \in asked'
        PROVE  /\ r \in [op : ScreenOps, kid : Nat \ {0}, log : Nat, st : {"asked", "waiting", "again"}]
               /\ r.op = "page" <=> r.log # 0
               /\ Alive(r)' => r.kid = open'[Owner(r.op)]
               /\ r.op \notin {"create", "people", "page"} => Alive(r)'
    <3>1. CASE r \in asked /\ r.op \in {"create", "people", "page"} /\ ~Alive(r)'
      BY <3>1 DEF RequestsOK
    <3>2. CASE r = Req("load", n, 0) /\ child = "album"
      BY <1>2, <1>3, <1>10, <3>2 DEF Req, ScreenOps, Owner, Children
    <3>3. CASE r = Req("people", n, 0) /\ child = "people"
      BY <1>2, <1>3, <1>10, <3>3 DEF Req, ScreenOps, Owner, Children
    <3>4. QED  BY <1>9, <2>1, <3>1, <3>2, <3>3
  <2>2. QED  BY <2>1 DEF RequestsOK, Alive
<1>12. SomethingBehind'
  <2>1. CASE child = "invite"
    BY <1>5, <2>1 DEF SomethingBehind, Behind
  <2>2. CASE child = "album"
    <3>1. Req("load", n, 0) \in asked'  BY <1>1, <1>8, <2>2
    <3>2. Behind' = {"load"}  BY <1>5, <2>2 DEF Behind
    <3>3. QED  BY <1>1, <1>10, <3>1, <3>2 DEF SomethingBehind, Req, Alive
  <2>3. CASE child = "people"
    <3>1. Req("people", n, 0) \in asked'  BY <1>1, <1>8, <2>3
    <3>2. Behind' = {"people"}  BY <1>5, <2>3 DEF Behind
    <3>3. QED  BY <1>1, <1>10, <3>1, <3>2 DEF SomethingBehind, Req, Alive
  <2>4. QED  BY <2>1, <2>2, <2>3 DEF Children
<1>13. AskedOnce'
  BY <1>5, <1>9 DEF AskedOnce, Req, Alive
<1>14. QED
  BY <1>4, <1>5, <1>6, <1>7, <1>9, <1>11, <1>12, <1>13 DEF OnScreen, Req

\* Back on the list no request has a child.
LEMMA ListOnScreen ==
    ASSUME ScreensTypeOK, RequestsOK, NEW reqs \in SUBSET asked, BackToList(reqs)
    PROVE  OnScreen' /\ MadeOK' /\ asked' \subseteq asked /\ shown' = ListShown
<1>1. /\ open' = NoChild /\ log' = 0 /\ shown' = ListShown /\ asked' = Lasting(reqs)
      /\ languages' = "idle" /\ UNCHANGED <<views, logs>>
  BY DEF BackToList, made
<1>2. \A r \in asked' : r \in asked /\ r.op \in {"create", "people", "page"} /\ ~Alive(r)'
  <2>1. \A r \in asked : r.kid # 0  BY DEF RequestsOK
  <2>2. QED  BY <1>1, <2>1 DEF Lasting, Alive, NoChild
<1>3. MadeOK'  BY <1>1, <1>2 DEF ScreensTypeOK, MadeOK, NoChild
<1>4. ScreenShapeOK'
  BY <1>1 DEF ScreenShapeOK, ListShown, On, AtRest, ScreenKinds, ScreenSteps, Overs
<1>5. OneChild'
  BY <1>1 DEF OneChild, ListShown, On, NoChild, ShownBy, Children
<1>6. SomethingBehind'  BY <1>1 DEF SomethingBehind, Behind, ListShown, On
<1>7. RequestsOK'  BY <1>2 DEF RequestsOK, Alive
<1>8. AskedOnce'  BY <1>2 DEF AskedOnce, Alive
<1>9. QED
  BY <1>1, <1>2, <1>3, <1>4, <1>5, <1>6, <1>7, <1>8 DEF OnScreen

-----------------------------------------------------------------------------
(***************************************************************************)
(* While the child stays.                                                  *)
(***************************************************************************)

\* The invariant, in parts.
LEMMA Parts ==
    ScreensIInv <=> OnScreen /\ MadeOK /\ RestOK /\ WishKept /\ WaitingIsSaid
<1>1. OnScreen /\ MadeOK /\ RestOK => ScreensTypeOK
  BY DEF OnScreen, MadeOK, RestOK, ScreensTypeOK, ScreenShapeOK, RequestsOK, ScreenKinds, AtRest
<1>2. ScreensTypeOK => MadeOK  BY DEF MadeOK, ScreensTypeOK
<1>3. ScreensTypeOK => RestOK  BY DEF RestOK, ScreensTypeOK
<1>4. QED  BY <1>1, <1>2, <1>3 DEF ScreensIInv, OnScreen

\* And after a step.
LEMMA PartsNext ==
    OnScreen' /\ MadeOK' /\ RestOK' /\ WishKept' /\ WaitingIsSaid' => ScreensIInv'
BY Parts, PTL

\* The types of what no step on a child's screen touches.
LEMMA RestKept ==
    ASSUME RestOK, UNCHANGED <<outside, wishes>>, UNCHANGED mishaps \/ Mishap,
           awaits' \in BOOLEAN
    PROVE  RestOK'
<1>1. mishaps' \in 0..MaxMishaps  BY ScreensAssumption DEF RestOK, Mishap
<1>2. UNCHANGED <<there, listed, afterLeave, wish, astray>>
  BY DEF outside, wishes
<1>3. astray' \in BOOLEAN  BY <1>2 DEF RestOK
<1>4. QED  BY <1>1, <1>2, <1>3 DEF RestOK

\* The child that is open is that of the screen, and its album is the screen's.
LEMMA Showing ==
    ASSUME ScreensIInv, NEW c \in Children, ShownBy(shown.kind) = c
    PROVE  /\ open[c] \in 1..Len(views) /\ shown.of \in AlbumIds
           /\ \A r \in asked : Alive(r) <=> r.kid = open[c]
<1>1. /\ open \in [Children -> 0..Len(views)] /\ views \in Seq(AlbumIds)
      /\ OneChild
  BY DEF ScreensIInv, ScreensTypeOK
<1>2. open[c] # 0 /\ views[open[c]] = shown.of  BY <1>1 DEF OneChild
<1>3. open[c] \in 1..Len(views)  BY <1>1, <1>2
<1>4. shown.of \in AlbumIds  BY <1>1, <1>2, <1>3
<1>5. \A d \in Children : open[d] # 0 => d = c  BY <1>1 DEF OneChild
<1>6. \A r \in asked : r.kid # 0  BY DEF ScreensIInv, RequestsOK
<1>7. QED  BY <1>3, <1>4, <1>5, <1>6 DEF Alive

\* A new request of the child that is open.
LEMMA AsksAnother ==
    ASSUME ScreensIInv, UNCHANGED <<open, views>>,
           NEW op \in ScreenOps, ShownBy(shown.kind) = Owner(op),
           NEW l \in Nat, op = "page" <=> l # 0,
           asked' \subseteq asked \cup {Req(op, open[Owner(op)], l)}
    PROVE  RequestsOK' /\ \A r \in asked' : r.kid \in DOMAIN views
<1>1. Owner(op) \in Children  BY DEF Owner, ScreenOps, Children
<1>2. open[Owner(op)] \in 1..Len(views)  BY <1>1, Showing
<1>3. Req(op, open[Owner(op)], l) \in
        [op : ScreenOps, kid : Nat \ {0}, log : Nat, st : {"asked", "waiting", "again"}]
  BY <1>2 DEF Req
<1>4. Alive(Req(op, open[Owner(op)], l))  BY <1>1 DEF Req, Alive
<1>5. /\ RequestsOK /\ \A r \in asked : r.kid \in DOMAIN views
      /\ views \in Seq(AlbumIds)
  BY DEF ScreensIInv, ScreensTypeOK
<1>6. RequestsOK'
  BY <1>3, <1>4, <1>5 DEF RequestsOK, Alive, Req
<1>7. QED  BY <1>2, <1>5, <1>6 DEF Req

\* Requests that are answered, or wait to be sent again.
LEMMA AsksNothingNew ==
    ASSUME ScreensIInv, UNCHANGED <<open, views>>,
           \A q \in asked' : \E r \in asked :
               /\ q.kid = r.kid /\ q.log = r.log
               /\ q.op = r.op \/ (r.op = "statuses" /\ q.op = "load")
               /\ q = [op |-> q.op, kid |-> q.kid, log |-> q.log, st |-> q.st]
               /\ q.st \in {"asked", "waiting", "again"}
    PROVE  RequestsOK' /\ \A r \in asked' : r.kid \in DOMAIN views
<1>1. RequestsOK /\ \A r \in asked : r.kid \in DOMAIN views
  BY DEF ScreensIInv, ScreensTypeOK
<1>2. \A r, q : q.kid = r.kid => (Alive(q)' <=> Alive(r))  BY DEF Alive
<1>3. ASSUME NEW q \in asked'
      PROVE  /\ q \in [op : ScreenOps, kid : Nat \ {0}, log : Nat, st : {"asked", "waiting", "again"}]
             /\ q.op = "page" <=> q.log # 0
             /\ Alive(q)' => q.kid = open'[Owner(q.op)]
             /\ q.op \notin {"create", "people", "page"} => Alive(q)'
             /\ q.kid \in DOMAIN views
  <2>1. PICK r \in asked :
               /\ q.kid = r.kid /\ q.log = r.log
               /\ q.op = r.op \/ (r.op = "statuses" /\ q.op = "load")
               /\ q = [op |-> q.op, kid |-> q.kid, log |-> q.log, st |-> q.st]
               /\ q.st \in {"asked", "waiting", "again"}
    BY <1>3
  <2>2. q \in [op : ScreenOps, kid : Nat \ {0}, log : Nat, st : {"asked", "waiting", "again"}]
    <3>1. q.op \in ScreenOps /\ q.kid \in Nat \ {0} /\ q.log \in Nat
      BY <1>1, <2>1 DEF RequestsOK, ScreenOps
    <3>2. QED  BY <2>1, <3>1
  <2>3. Owner(q.op) = Owner(r.op)  BY <2>1 DEF Owner
  <2>4. QED  BY <1>1, <1>2, <2>1, <2>2, <2>3 DEF RequestsOK
<1>4. QED  BY <1>3 DEF RequestsOK, Alive

\* The screen of the same child.
LEMMA SameChild ==
    ASSUME ScreensIInv, UNCHANGED <<open, views, log>>,
           shown'.kind = shown.kind, shown'.of = shown.of
    PROVE  OneChild'
BY DEF ScreensIInv, OneChild, ShownBy

-----------------------------------------------------------------------------
(***************************************************************************)
(* The invite form.                                                        *)
(***************************************************************************)

\* A step on a form moves nothing but the form, and asks one thing at most.
LEMMA ScreenFormStep ==
    ASSUME ScreensIInv, shown.kind = "invite",
           UNCHANGED <<outside, open, log, made, wishes, awaits>>,
           languages' \in {"idle", "loading", "failed", "known"},
           UNCHANGED mishaps \/ Mishap,
           NEW at \in {"form", "deriving", "creating", "share"},
           NEW over \in {"qr", "passphrase"}, NEW leaving \in BOOLEAN,
           shown' = [kind |-> "invite", of |-> shown.of, at |-> at, over |-> over,
                     leaving |-> leaving],
           NEW op \in {"words", "derive", "create"},
           asked' \subseteq asked \cup {Req(op, open["invite"], 0)},
           at = "deriving" => \E r \in asked' : Alive(r) /\ r.op = "derive",
           at = "creating" => \E r \in asked' : Alive(r) /\ r.op = "create"
    PROVE  ScreensIInv'
<1>0. OnScreen /\ MadeOK /\ RestOK /\ WishKept /\ WaitingIsSaid  BY Parts
<1>1. /\ shown'.kind = "invite" /\ shown'.of = shown.of /\ shown'.at = at
      /\ shown'.over = over /\ shown'.leaving = leaving /\ log = 0
  BY <1>0 DEF OnScreen, ScreenShapeOK, OneChild
<1>2. ScreenShapeOK'
  <2>1. shown.of \in AlbumIds \cup {"none"}  BY <1>0 DEF OnScreen, ScreenShapeOK
  <2>2. QED  BY <1>1, <2>1 DEF ScreenShapeOK, ScreenSteps, Overs, ScreenKinds
<1>3. OneChild'  BY <1>1, SameChild DEF made
<1>4. \A r : Alive(r)' <=> Alive(r)  BY DEF Alive
<1>5. RequestsOK' /\ \A r \in asked' : r.kid \in DOMAIN views
  <2>1. op \in ScreenOps /\ Owner(op) = "invite" /\ op # "page"  BY DEF ScreenOps, Owner
  <2>2. UNCHANGED <<open, views>>  BY DEF made
  <2>3. QED  BY <2>1, <2>2, AsksAnother DEF ShownBy
<1>6. \A r \in asked' : \/ r \in asked
                        \/ r.op = op /\ r.st = "asked"
  BY DEF Req
<1>7. SomethingBehind'
  <2>1. \A r \in asked' : r.op # "page" => r.log = 0  BY <1>5 DEF RequestsOK
  <2>2. /\ Behind' \subseteq {"derive", "create"}
        /\ "derive" \in Behind' => at = "deriving"
        /\ "create" \in Behind' => at = "creating"
    BY <1>1 DEF Behind
  <2>3. QED  BY <1>1, <1>4, <2>1, <2>2 DEF SomethingBehind
<1>8. AskedOnce'
  <2>1. \A r \in asked : ~(Alive(r) /\ r.op = "people") /\ r.op # "revoke"
    BY <1>0 DEF OnScreen, AskedOnce
  <2>2. \A r \in asked' : ~(Alive(r) /\ r.op = "people") /\ r.op # "revoke"
    BY <1>6, <2>1
  <2>3. QED  BY <1>4, <2>2 DEF AskedOnce
<1>9. MadeOK'  BY <1>0, <1>5 DEF MadeOK, made
<1>10. RestOK'
  <2>1. awaits' \in BOOLEAN  BY <1>0 DEF RestOK
  <2>2. QED  BY <1>0, <2>1, RestKept
<1>11. WishKept'  BY <1>0, <1>1 DEF WishKept, wishes
<1>12. WaitingIsSaid'  BY <1>0, <1>6 DEF WaitingIsSaid
<1>13. QED
  BY <1>2, <1>3, <1>5, <1>7, <1>8, <1>9, <1>10, <1>11, <1>12, PartsNext DEF OnScreen

\* What happens on a form.
FormMoves ==
    \/ ChooseMode \/ CreateInvite \/ AskLeaveInvite
    \/ \E r \in asked : WordsLoaded(r) \/ Derived(r) \/ (InviteAnswered(r) /\ Alive(r))

\* The steps of the form.
LEMMA NextForm == ASSUME ScreensIInv, FormMoves PROVE ScreensIInv'
<1> USE DEF FormMoves
<1>0. /\ ScreenShapeOK /\ RequestsOK /\ OneChild /\ SomethingBehind
      /\ languages \in {"idle", "loading", "failed", "known"}
  BY DEF ScreensIInv, ScreensTypeOK
<1>1. shown.kind = "invite"
  <2>1. ASSUME NEW r \in asked, Alive(r), r.op \in {"words", "derive", "create"}
        PROVE  shown.kind = "invite"
    <3>1. open["invite"] # 0  BY <1>0, <2>1 DEF RequestsOK, Owner
    <3>2. QED  BY <1>0, <3>1 DEF OneChild, Children, ShownBy
  <2>2. ASSUME NEW r \in asked, r.op \in {"words", "derive"} PROVE Alive(r)
    BY <1>0, <2>2 DEF RequestsOK
  <2>3. QED
    BY <2>1, <2>2 DEF ChooseMode, CreateInvite, AskLeaveInvite, OnInvite, WordsLoaded,
                      Derived, InviteAnswered
<1> DEFINE Screen(at, over, leaving) ==
      [kind |-> "invite", of |-> shown.of, at |-> at, over |-> over, leaving |-> leaving]
<1>2. /\ shown.at \in {"form", "deriving", "creating", "share"}
      /\ shown.over \in {"qr", "passphrase"} /\ shown.leaving \in BOOLEAN
  BY <1>0, <1>1 DEF ScreenShapeOK, AtRest
<1>3. /\ shown = Screen(shown.at, shown.over, shown.leaving)
      /\ \A over : [shown EXCEPT !.over = over] = Screen(shown.at, over, shown.leaving)
      /\ \A at : [shown EXCEPT !.at = at] = Screen(at, shown.over, shown.leaving)
      /\ [shown EXCEPT !.leaving = ~@] = Screen(shown.at, shown.over, ~shown.leaving)
  BY <1>0, <1>1 DEF ScreenShapeOK
<1>4. /\ \A r \in asked : Alive(r) => r.kid = open["invite"]
      /\ \A op : Alive(Req(op, open["invite"], 0)) /\ Req(op, open["invite"], 0).op = op
  BY <1>1, Showing DEF ShownBy, Children, Alive, Req
<1>5. \A op \in {"derive", "create"} :
        (shown.at = IF op = "derive" THEN "deriving" ELSE "creating") =>
           \E r \in asked : Alive(r) /\ r.op = op
  BY <1>0 DEF SomethingBehind, Behind
<1> HIDE DEF Screen
<1>6. ASSUME NEW at \in {"form", "deriving", "creating", "share"},
             NEW over \in {"qr", "passphrase"}, NEW leaving \in BOOLEAN,
             NEW op \in {"words", "derive", "create"}, NEW reqs,
             reqs \subseteq asked \cup {Req(op, open["invite"], 0)},
             Form(Screen(at, over, leaving), reqs),
             languages' \in {"idle", "loading", "failed", "known"},
             UNCHANGED mishaps \/ Mishap,
             at = "deriving" => \E r \in reqs : Alive(r) /\ r.op = "derive",
             at = "creating" => \E r \in reqs : Alive(r) /\ r.op = "create"
      PROVE  ScreensIInv'
  BY <1>1, <1>6, ScreenFormStep DEF Form, Screen
<1>7. CASE ChooseMode
  <2>1. shown.at = "form" /\ UNCHANGED mishaps  BY <1>7 DEF ChooseMode, OnInvite
  <2>2. CASE Form([shown EXCEPT !.over = "qr"], asked) /\ UNCHANGED languages
    BY <1>0, <1>2, <1>3, <1>6, <2>1, <2>2
  <2>3. CASE languages' = "loading"
             /\ Form([shown EXCEPT !.over = "passphrase"], asked \cup {Req("words", open["invite"], 0)})
    BY <1>2, <1>3, <1>6, <2>1, <2>3
  <2>4. CASE Form([shown EXCEPT !.over = "passphrase"], asked) /\ UNCHANGED languages
    BY <1>0, <1>2, <1>3, <1>6, <2>1, <2>4
  <2>5. QED  BY <1>7, <2>2, <2>3, <2>4 DEF ChooseMode
<1>8. CASE CreateInvite
  <2>1. UNCHANGED <<languages, mishaps>>  BY <1>8 DEF CreateInvite
  <2>2. ASSUME NEW at \in {"creating", "deriving"},
               NEW op \in {"create", "derive"}, op = "create" <=> at = "creating",
               Form([shown EXCEPT !.at = at], asked \cup {Req(op, open["invite"], 0)})
        PROVE  ScreensIInv'
    BY <1>0, <1>2, <1>3, <1>4, <1>6, <2>1, <2>2
  <2>3. QED  BY <1>8, <2>2 DEF CreateInvite
<1>9. CASE AskLeaveInvite
  <2>1. /\ Form([shown EXCEPT !.leaving = ~@], asked)
        /\ UNCHANGED <<languages, mishaps>> /\ shown.at = "share"
    BY <1>9 DEF AskLeaveInvite, OnInvite
  <2>2. Form(Screen("share", shown.over, ~shown.leaving), asked)
    BY <1>3, <2>1
  <2>3. (~shown.leaving) \in BOOLEAN  BY <1>2
  <2>4. languages' \in {"idle", "loading", "failed", "known"}  BY <1>0, <2>1
  <2>5. asked \subseteq asked \cup {Req("words", open["invite"], 0)}  OBVIOUS
  <2>6. QED  BY <1>2, <1>6, <2>1, <2>2, <2>3, <2>4, <2>5
<1>10. ASSUME NEW r \in asked, WordsLoaded(r) PROVE ScreensIInv'
  <2>1. /\ shown.at = "deriving" => \E q \in asked \ {r} : Alive(q) /\ q.op = "derive"
        /\ shown.at = "creating" => \E q \in asked \ {r} : Alive(q) /\ q.op = "create"
    BY <1>5, <1>10 DEF WordsLoaded
  <2>2. Form(Screen(shown.at, shown.over, shown.leaving), asked \ {r})
    BY <1>3, <1>10 DEF WordsLoaded
  <2>3. languages' \in {"known", "failed"} /\ (UNCHANGED mishaps \/ Mishap)
    BY <1>10 DEF WordsLoaded
  <2>4. QED  BY <1>2, <1>6, <2>1, <2>2, <2>3
<1>11. ASSUME NEW r \in asked, Derived(r) PROVE ScreensIInv'
  <2>1. r.kid = open["invite"]  BY <1>0, <1>4, <1>11 DEF Derived, RequestsOK
  <2>2. UNCHANGED languages  BY <1>11 DEF Derived
  <2>3. CASE /\ UNCHANGED mishaps
             /\ Form([shown EXCEPT !.at = "creating"], (asked \ {r}) \cup {Req("create", r.kid, 0)})
    BY <1>0, <1>2, <1>3, <1>4, <1>6, <2>1, <2>2, <2>3
  <2>4. CASE Mishap /\ Form([shown EXCEPT !.at = "form"], asked \ {r})
    BY <1>0, <1>2, <1>3, <1>6, <2>2, <2>4
  <2>5. QED  BY <1>11, <2>3, <2>4 DEF Derived
<1>12. ASSUME NEW r \in asked, InviteAnswered(r), Alive(r) PROVE ScreensIInv'
  <2>1. r.kid = open["invite"]  BY <1>4, <1>12
  <2>2. UNCHANGED languages  BY <1>12 DEF InviteAnswered
  <2>3. ASSUME NEW at \in {"share", "form"}, Form([shown EXCEPT !.at = at], asked \ {r}),
               UNCHANGED mishaps \/ Mishap
        PROVE  ScreensIInv'
    BY <1>0, <1>2, <1>3, <1>6, <2>2, <2>3
  <2>4. CASE /\ Mishap
             /\ Form([shown EXCEPT !.at = "deriving"], (asked \ {r}) \cup {Req("derive", r.kid, 0)})
    BY <1>0, <1>2, <1>3, <1>4, <1>6, <2>1, <2>2, <2>4
  <2>5. QED  BY <1>12, <2>3, <2>4 DEF InviteAnswered
<1>13. QED  BY <1>7, <1>8, <1>9, <1>10, <1>11, <1>12

-----------------------------------------------------------------------------
(***************************************************************************)
(* The people and their log.                                               *)
(***************************************************************************)

\* A step among the people keeps what is open, but for the log.
LEMMA PeopleStep ==
    ASSUME ScreensIInv, shown.kind \in {"people", "log"},
           UNCHANGED <<outside, open, views, languages, wishes, awaits>>,
           UNCHANGED mishaps \/ Mishap,
           logs' \in Nat, log' \in 0..logs',
           NEW kind \in {"people", "log"}, NEW at \in {"loading", "more", "ready"},
           NEW over \in {"none", "revoke", "revoking"}, NEW leaving \in BOOLEAN,
           kind = "people" => at # "more" /\ (at = "loading" => over = "none"),
           kind = "log" => over = "none",
           log' # 0 <=> kind = "log",
           shown' = [kind |-> kind, of |-> shown.of, at |-> at, over |-> over,
                     leaving |-> leaving],
           NEW op \in {"people", "page", "revoke"}, NEW l \in Nat, op = "page" <=> l # 0,
           asked' \subseteq asked \cup {Req(op, open["people"], l)},
           SomethingBehind', AskedOnce'
    PROVE  ScreensIInv'
<1>0. OnScreen /\ MadeOK /\ RestOK /\ WishKept /\ WaitingIsSaid  BY Parts
<1>1. /\ shown'.kind = kind /\ shown'.of = shown.of /\ shown'.at = at
      /\ shown'.over = over /\ shown'.leaving = leaving
  OBVIOUS
<1>2. ScreenShapeOK'
  <2>1. shown.of \in AlbumIds \cup {"none"}  BY <1>0 DEF OnScreen, ScreenShapeOK
  <2>2. QED  BY <1>1, <2>1 DEF ScreenShapeOK, ScreenSteps, Overs, ScreenKinds
<1>3. OneChild'
  <2>1. \A c \in Children : open[c] # 0 <=> c = "people"
    BY <1>0 DEF OnScreen, OneChild, ShownBy, Children
  <2>2. QED  BY <1>0, <1>1, <2>1 DEF OnScreen, OneChild, ShownBy, Children
<1>4. RequestsOK' /\ \A r \in asked' : r.kid \in DOMAIN views
  <2>1. op \in ScreenOps /\ Owner(op) = "people"  BY DEF ScreenOps, Owner
  <2>2. QED  BY <2>1, AsksAnother DEF ShownBy
<1>5. MadeOK'  BY <1>0, <1>4 DEF MadeOK
<1>6. RestOK'
  <2>1. awaits' \in BOOLEAN  BY <1>0 DEF RestOK
  <2>2. QED  BY <1>0, <2>1, RestKept
<1>7. WishKept'  BY <1>0, <1>1 DEF WishKept, wishes
<1>8. WaitingIsSaid'  BY <1>0 DEF WaitingIsSaid, Req
<1>9. QED
  BY <1>2, <1>3, <1>4, <1>5, <1>6, <1>7, <1>8, PartsNext DEF OnScreen

\* What happens among the people and on their log.
PeopleMoves ==
    \/ AskRevoke \/ OpenLog \/ MoreLog \/ CloseLog
    \/ \E r \in asked :
          \/ Revoked(r)
          \/ PeopleLoaded(r) /\ Alive(r)
          \/ PageRead(r) /\ Alive(r) /\ r.log = log

\* The steps among the people.
LEMMA NextPeople == ASSUME ScreensIInv, PeopleMoves PROVE ScreensIInv'
<1> USE DEF PeopleMoves
<1>0. /\ ScreenShapeOK /\ RequestsOK /\ OneChild /\ SomethingBehind /\ AskedOnce
      /\ logs \in Nat /\ log \in 0..logs
  BY DEF ScreensIInv, ScreensTypeOK
<1>1. shown.kind \in {"people", "log"}
  <2>1. ASSUME NEW r \in asked, Alive(r), r.op \in {"revoke", "people", "page"}
        PROVE  shown.kind \in {"people", "log"}
    <3>1. open["people"] # 0  BY <1>0, <2>1 DEF RequestsOK, Owner
    <3>2. QED  BY <1>0, <3>1 DEF OneChild, Children, ShownBy
  <2>2. ASSUME NEW r \in asked, r.op = "revoke" PROVE Alive(r)
    BY <1>0, <2>2 DEF RequestsOK
  <2>3. QED
    BY <2>1, <2>2 DEF AskRevoke, OpenLog, MoreLog, CloseLog, OnPeople, Revoked,
                      PeopleLoaded, PageRead
<1> DEFINE Screen(kind, at, over, leaving) ==
      [kind |-> kind, of |-> shown.of, at |-> at, over |-> over, leaving |-> leaving]
<1>2. /\ shown.leaving \in BOOLEAN
      /\ shown.kind = "people" => /\ shown.at \in {"loading", "ready"}
                                  /\ shown.over \in {"none", "revoke", "revoking"}
                                  /\ shown.at = "loading" => shown.over = "none"
                                  /\ log = 0
      /\ shown.kind = "log" => /\ shown.at \in {"loading", "more", "ready"}
                               /\ shown.over = "none" /\ log # 0
  BY <1>0, <1>1 DEF ScreenShapeOK, AtRest, OneChild
<1>3. /\ \A over : [shown EXCEPT !.over = over] = Screen(shown.kind, shown.at, over, shown.leaving)
      /\ \A at : [shown EXCEPT !.at = at] = Screen(shown.kind, at, shown.over, shown.leaving)
      /\ \A kind, at : On(kind, shown.of, at) = Screen(kind, at, "none", FALSE)
  BY <1>0, <1>1 DEF ScreenShapeOK, On
<1>4. /\ \A r \in asked : Alive(r) <=> r.kid = open["people"]
      /\ \A op, l : /\ Alive(Req(op, open["people"], l)) /\ Req(op, open["people"], l).op = op
                    /\ Req(op, open["people"], l).log = l
  BY <1>1, Showing DEF ShownBy, Children, Alive, Req
<1>5. \A kind, at, over, leaving :
        /\ Screen(kind, at, over, leaving).kind = kind
        /\ Screen(kind, at, over, leaving).at = at
        /\ Screen(kind, at, over, leaving).over = over
  OBVIOUS
<1> HIDE DEF Screen
<1>6. ASSUME UNCHANGED <<outside, open, views, languages, wishes, awaits>>,
             UNCHANGED mishaps \/ Mishap,
             logs' \in Nat, log' \in 0..logs',
             NEW kind \in {"people", "log"}, NEW at \in {"loading", "more", "ready"},
             NEW over \in {"none", "revoke", "revoking"}, NEW leaving \in BOOLEAN,
             kind = "people" => at # "more" /\ (at = "loading" => over = "none"),
             kind = "log" => over = "none",
             log' # 0 <=> kind = "log",
             shown' = Screen(kind, at, over, leaving),
             NEW op \in {"people", "page", "revoke"}, NEW l \in Nat, op = "page" <=> l # 0,
             asked' \subseteq asked \cup {Req(op, open["people"], l)},
             \* what is behind the new screen
             at \in {"loading", "more"} =>
               \E r \in asked' : Alive(r) /\ r.op = (IF kind = "log" THEN "page" ELSE "people") /\ r.log = log',
             over = "revoking" =>
               \E r \in asked' : Alive(r) /\ r.op = "revoke" /\ r.log = log',
             \* and nothing else
             kind = "log" \/ at = "ready" =>
               \A r \in asked' : Alive(r) => r.op # "people",
             over # "revoking" => \A r \in asked' : r.op # "revoke",
             \A q, r \in asked' : Alive(q) /\ Alive(r) /\ q.op = r.op /\ r.op \in {"people", "revoke"}
               => q = r
      PROVE  ScreensIInv'
  <2>1. \A r : Alive(r)' <=> Alive(r)  BY <1>6 DEF Alive
  <2>2. shown'.kind = kind /\ shown'.at = at /\ shown'.over = over
    BY <1>5, <1>6
  <2>3. SomethingBehind'
    BY <1>6, <2>1, <2>2 DEF SomethingBehind, Behind
  <2>4. AskedOnce'
    BY <1>6, <2>1, <2>2 DEF AskedOnce
  <2>5. QED  BY <1>1, <1>6, <2>3, <2>4, PeopleStep DEF Screen
<1>7. \A s, q : People(s, q) =>
        /\ shown' = s /\ asked' = q
        /\ UNCHANGED <<outside, open, log, views, logs, languages, wishes, awaits>>
  BY DEF People, made
<1>8. /\ \A r \in asked : Alive(r) /\ r.op = "people" => shown.kind = "people" /\ shown.at = "loading"
      /\ \A r \in asked : r.op = "revoke" => shown.kind = "people" /\ shown.over = "revoking"
      /\ \A q, r \in asked : Alive(q) /\ Alive(r) /\ q.op = r.op /\ r.op \in {"people", "revoke"}
           => q = r
      /\ \A r \in asked : r.op = "revoke" => Alive(r)
      /\ \A r \in asked : r.op # "page" => r.log = 0
  BY <1>0 DEF AskedOnce, RequestsOK
<1>9. /\ shown.at = "loading" /\ shown.kind = "people" =>
           \E r \in asked : Alive(r) /\ r.op = "people" /\ r.log = log
      /\ shown.at \in {"loading", "more"} /\ shown.kind = "log" =>
           \E r \in asked : Alive(r) /\ r.op = "page" /\ r.log = log
      /\ shown.over = "revoking" => \E r \in asked : Alive(r) /\ r.op = "revoke" /\ r.log = log
  BY <1>0, <1>1 DEF SomethingBehind, Behind
<1>10. CASE AskRevoke
  <2>1. shown.kind = "people" /\ shown.at = "ready" /\ UNCHANGED mishaps
    BY <1>10 DEF AskRevoke, OnPeople
  <2>2. ASSUME NEW over \in {"none", "revoke"}, People([shown EXCEPT !.over = over], asked),
               shown.over # "revoking"
        PROVE  ScreensIInv'
    BY <1>0, <1>2, <1>3, <1>6, <1>7, <1>8, <2>1, <2>2
  <2>3. CASE /\ shown.over = "revoke"
             /\ People([shown EXCEPT !.over = "revoking"], asked \cup {Req("revoke", open["people"], 0)})
    BY <1>0, <1>2, <1>3, <1>4, <1>6, <1>7, <1>8, <2>1, <2>3
  <2>4. QED  BY <1>10, <2>2, <2>3 DEF AskRevoke
<1>11. CASE OpenLog
  <2>1. /\ shown.kind = "people" /\ shown.at = "ready" /\ shown.over = "none"
        /\ logs' = logs + 1 /\ log' = logs + 1
        /\ shown' = Screen("log", "loading", "none", FALSE)
        /\ asked' = asked \cup {Req("page", open["people"], logs + 1)}
        /\ UNCHANGED <<outside, open, views, languages, wishes, awaits, mishaps>>
    BY <1>3, <1>11 DEF OpenLog, OnPeople
  <2>2. \A r \in asked : r.op # "revoke" /\ ~(Alive(r) /\ r.op = "people")
    BY <1>8, <2>1
  <2>3. \A r \in asked' : r.op # "revoke" /\ ~(Alive(r) /\ r.op = "people")
    BY <1>4, <2>1, <2>2
  <2>4. \E r \in asked' : Alive(r) /\ r.op = "page" /\ r.log = log'
    BY <1>4, <2>1
  <2>5. logs' \in Nat /\ log' \in 0..logs' /\ log' # 0  BY <1>0, <2>1
  <2>6. QED  BY <1>6, <2>1, <2>3, <2>4, <2>5
<1>12. CASE MoreLog
  <2>1. /\ shown.kind = "log" /\ log # 0 /\ UNCHANGED mishaps
        /\ People([shown EXCEPT !.at = "more"], asked \cup {Req("page", open["people"], log)})
    BY <1>2, <1>12 DEF MoreLog
  <2>2. QED  BY <1>0, <1>2, <1>3, <1>4, <1>6, <1>7, <1>8, <2>1
<1>13. CASE CloseLog
  <2>1. /\ shown.kind = "log" /\ log' = 0 /\ shown' = Screen("people", "ready", "none", FALSE)
        /\ UNCHANGED <<outside, open, views, logs, languages, wishes, asked, awaits, mishaps>>
    BY <1>3, <1>13 DEF CloseLog, made
  <2>2. \A r \in asked' : r.op # "revoke" /\ ~(Alive(r) /\ r.op = "people")
    BY <1>8, <2>1
  <2>3. logs' \in Nat /\ log' \in 0..logs' /\ log' = 0  BY <1>0, <2>1
  <2>4. asked' \subseteq asked \cup {Req("people", open["people"], 0)}  BY <2>1
  <2>5. FALSE \in BOOLEAN  OBVIOUS
  <2>6. QED  BY <1>6, <2>1, <2>2, <2>3, <2>4, <2>5
<1>14. ASSUME NEW r \in asked, Revoked(r) PROVE ScreensIInv'
  <2>1. /\ r.op = "revoke" /\ Alive(r) /\ r.kid = open["people"]
        /\ shown.kind = "people" /\ shown.over = "revoking" /\ shown.at = "ready"
    BY <1>2, <1>4, <1>8, <1>14 DEF Revoked
  <2>2. ASSUME NEW over \in {"none", "revoke"}, People([shown EXCEPT !.over = over], asked \ {r}),
               UNCHANGED mishaps \/ Mishap
        PROVE  ScreensIInv'
    BY <1>0, <1>2, <1>3, <1>6, <1>7, <1>8, <2>1, <2>2
  <2>3. CASE /\ UNCHANGED mishaps
             /\ People(On("people", shown.of, "loading"), (asked \ {r}) \cup {Req("people", r.kid, 0)})
    <3>1. /\ shown' = Screen("people", "loading", "none", FALSE)
          /\ asked' = (asked \ {r}) \cup {Req("people", open["people"], 0)}
          /\ UNCHANGED <<outside, open, log, views, logs, languages, wishes, awaits, mishaps>>
      BY <1>3, <1>7, <2>1, <2>3
    <3>2. \A q \in asked \ {r} : q.op # "revoke" /\ ~(Alive(q) /\ q.op = "people")
      BY <1>8, <2>1
    <3>3. \E q \in asked' : Alive(q) /\ q.op = "people" /\ q.log = log'
      BY <1>2, <1>4, <2>1, <3>1
    <3>4. \A q \in asked' : q.op # "revoke"  BY <1>4, <3>1, <3>2
    <3>5. \A q, p \in asked' : Alive(q) /\ Alive(p) /\ q.op = p.op /\ p.op \in {"people", "revoke"}
            => q = p
      BY <1>4, <3>1, <3>2
    <3>6. QED  BY <1>0, <1>2, <1>6, <2>1, <3>1, <3>3, <3>4, <3>5
  <2>4. QED  BY <1>14, <2>2, <2>3 DEF Revoked
<1>15. ASSUME NEW r \in asked, PeopleLoaded(r), Alive(r) PROVE ScreensIInv'
  <2>1. r.op = "people" /\ shown.kind = "people" /\ shown.at = "loading"
    BY <1>8, <1>15 DEF PeopleLoaded
  <2>2. People(Screen("people", "ready", "none", FALSE), asked \ {r}) /\ UNCHANGED mishaps
    BY <1>3, <1>15 DEF PeopleLoaded
  <2>3. /\ shown' = Screen("people", "ready", "none", FALSE) /\ asked' = asked \ {r}
        /\ UNCHANGED <<outside, open, log, views, logs, languages, wishes, awaits, mishaps>>
    BY <1>7, <2>2
  <2>4. \A q \in asked' : q.op # "revoke" /\ ~(Alive(q) /\ q.op = "people")
    <3>1. \A q \in asked : q.op # "revoke"  BY <1>2, <1>8, <2>1
    <3>2. \A q \in asked \ {r} : ~(Alive(q) /\ q.op = "people")  BY <1>8, <1>15, <2>1
    <3>3. QED  BY <2>3, <3>1, <3>2
  <2>5. logs' \in Nat /\ log' \in 0..logs' /\ log' = 0  BY <1>0, <1>2, <2>1, <2>3
  <2>6. asked' \subseteq asked \cup {Req("people", open["people"], 0)}  BY <2>3
  <2>7. FALSE \in BOOLEAN  OBVIOUS
  <2>8. QED  BY <1>6, <2>3, <2>4, <2>5, <2>6, <2>7
<1>16. ASSUME NEW r \in asked, PageRead(r), Alive(r), r.log = log PROVE ScreensIInv'
  <2>1. r.op = "page" /\ shown.kind = "log"
    BY <1>0, <1>1, <1>2, <1>16 DEF PageRead, RequestsOK
  <2>2. People([shown EXCEPT !.at = "ready"], asked \ {r}) /\ UNCHANGED mishaps
    BY <1>16 DEF PageRead
  <2>3. QED  BY <1>0, <1>2, <1>3, <1>6, <1>7, <1>8, <2>1, <2>2
<1>17. QED  BY <1>10, <1>11, <1>12, <1>13, <1>14, <1>15, <1>16

-----------------------------------------------------------------------------
(***************************************************************************)
(* What no screen shows: an answer to a closed child, and one that waits   *)
(* to be asked for again.                                                  *)
(***************************************************************************)

\* The screen stays, and so does what it waits for.
LEMMA UnseenStep ==
    ASSUME ScreensIInv, UNCHANGED <<outside, place, made, languages, wishes>>,
           UNCHANGED mishaps \/ Mishap, awaits' \in BOOLEAN,
           \A q \in asked' : \E r \in asked :
               /\ q.kid = r.kid /\ q.log = r.log
               /\ q.op = r.op \/ (r.op = "statuses" /\ q.op = "load")
               /\ q = [op |-> q.op, kid |-> q.kid, log |-> q.log, st |-> q.st]
               /\ q.st \in {"asked", "waiting", "again"},
           \A r \in asked : Alive(r) /\ r.log = log /\ r.op # "statuses" =>
               \E q \in asked' : q.op = r.op /\ q.kid = r.kid /\ q.log = r.log,
           \A q, p \in asked' :
               Alive(q) /\ Alive(p) /\ q.op = p.op /\ p.op \in {"people", "revoke"} => q = p,
           \A q \in asked' : q.st # "asked" => awaits'
    PROVE  ScreensIInv'
<1>0. OnScreen /\ MadeOK /\ RestOK /\ WishKept /\ WaitingIsSaid  BY Parts
<1>1. UNCHANGED <<shown, open, log, views, logs, languages, afterLeave, wish, astray>>
  BY DEF place, made, wishes
<1>2. \A q, r : q.kid = r.kid => (Alive(q)' <=> Alive(r))  BY <1>1 DEF Alive
<1>3. RequestsOK' /\ \A r \in asked' : r.kid \in DOMAIN views
  BY <1>1, AsksNothingNew
<1>4. ScreenShapeOK'  BY <1>0, <1>1 DEF OnScreen, ScreenShapeOK
<1>5. OneChild'  BY <1>1, SameChild
<1>6. SomethingBehind'
  <2>1. Behind' = Behind  BY <1>1 DEF Behind
  <2>2. ASSUME NEW op \in Behind
        PROVE  \E q \in asked' : Alive(q)' /\ q.op = op /\ q.log = log'
    <3>1. PICK r \in asked : Alive(r) /\ r.op = op /\ r.log = log
      BY <1>0 DEF OnScreen, SomethingBehind
    <3>2. op # "statuses"  BY DEF Behind
    <3>3. PICK q \in asked' : q.op = r.op /\ q.kid = r.kid /\ q.log = r.log
      BY <3>1, <3>2
    <3>4. QED  BY <1>1, <1>2, <3>1, <3>3
  <2>3. QED  BY <2>1, <2>2 DEF SomethingBehind, Alive
<1>7. AskedOnce'
  <2>1. \A q \in asked' : \E r \in asked :
           q.kid = r.kid /\ (q.op = r.op \/ q.op = "load")
    OBVIOUS
  <2>2. \A q \in asked' : (Alive(q)' /\ q.op = "people") \/ q.op = "revoke" =>
           \E r \in asked : q.op = r.op /\ (q.op = "people" => Alive(r))
    BY <1>2, <2>1
  <2>3. \A q : Alive(q)' <=> Alive(q)  BY <1>2
  <2>4. QED  BY <1>0, <1>1, <2>2, <2>3 DEF OnScreen, AskedOnce
<1>8. MadeOK'  BY <1>0, <1>1, <1>3 DEF MadeOK
<1>9. RestOK'  BY <1>0, RestKept
<1>10. WishKept'  BY <1>0, <1>1 DEF WishKept
<1>11. WaitingIsSaid'  BY DEF WaitingIsSaid
<1>12. QED
  BY <1>3, <1>4, <1>5, <1>6, <1>7, <1>8, <1>9, <1>10, <1>11, PartsNext DEF OnScreen

\* What no screen shows.
UnseenMoves ==
    \/ RetryScreens
    \/ \E r \in asked :
          \/ InviteAnswered(r) /\ ~Alive(r)
          \/ PeopleLoaded(r) /\ ~Alive(r)
          \/ PageRead(r) /\ ~(Alive(r) /\ r.log = log)
          \/ ThrowsOn(r)
          \/ AnswerFails(r)

\* The steps nobody sees.
LEMMA NextUnseen == ASSUME ScreensIInv, UnseenMoves PROVE ScreensIInv'
<1> USE DEF UnseenMoves
<1>0. /\ RequestsOK /\ AskedOnce /\ WaitingIsSaid /\ awaits \in BOOLEAN
  BY DEF ScreensIInv, ScreensTypeOK
<1>1. /\ \A r \in asked : /\ r = [op |-> r.op, kid |-> r.kid, log |-> r.log, st |-> r.st]
                          /\ r.st \in {"asked", "waiting", "again"}
      /\ \A r \in asked : r.st # "asked" => awaits
      /\ \A q, r \in asked : Alive(q) /\ Alive(r) /\ q.op = r.op /\ r.op \in {"people", "revoke"}
           => q = r
  BY <1>0 DEF RequestsOK, WaitingIsSaid, AskedOnce
<1>2. ASSUME NEW r \in asked, asked' = asked \ {r}, ~(Alive(r) /\ r.log = log),
             UNCHANGED <<outside, place, made, languages, wishes, awaits, mishaps>>
      PROVE  ScreensIInv'
  <2>1. UNCHANGED <<outside, place, made, languages, wishes>> /\ UNCHANGED mishaps /\ awaits' \in BOOLEAN
    BY <1>0, <1>2
  <2>2. \A q \in asked' : q \in asked  BY <1>2
  <2>3. \A q \in asked : Alive(q) /\ q.log = log /\ q.op # "statuses" => q \in asked'
    BY <1>2
  <2>4. UNCHANGED awaits  BY <1>2
  <2>5. QED  BY <1>1, <2>1, <2>2, <2>3, <2>4, UnseenStep
<1>3. ASSUME NEW r \in asked, NEW op, op = r.op \/ (r.op = "statuses" /\ op = "load"),
             NEW st \in {"waiting", "again"},
             asked' = (asked \ {r}) \cup {[r EXCEPT !.op = op, !.st = st]},
             awaits' = TRUE, UNCHANGED mishaps \/ Mishap,
             UNCHANGED <<outside, place, made, languages, wishes>>
      PROVE  ScreensIInv'
  <2> DEFINE new == [op |-> op, kid |-> r.kid, log |-> r.log, st |-> st]
  <2>1. asked' = (asked \ {r}) \cup {new}
    <3>1. r \in [op : ScreenOps, kid : Nat \ {0}, log : Nat, st : {"asked", "waiting", "again"}]
      BY <1>0 DEF RequestsOK
    <3>2. [r EXCEPT !.op = op] = [op |-> op, kid |-> r.kid, log |-> r.log, st |-> r.st]
      BY <3>1
    <3>3. [r EXCEPT !.op = op, !.st = st] = [[r EXCEPT !.op = op] EXCEPT !.st = st]
      OBVIOUS
    <3>4. [[op |-> op, kid |-> r.kid, log |-> r.log, st |-> r.st] EXCEPT !.st = st] = new
      OBVIOUS
    <3>5. [r EXCEPT !.op = op, !.st = st] = new  BY <3>2, <3>3, <3>4
    <3>6. QED  BY <1>3, <3>5
  <2>2. /\ new.op = op /\ new.kid = r.kid /\ new.log = r.log /\ new.st = st
        /\ new = [op |-> new.op, kid |-> new.kid, log |-> new.log, st |-> new.st]
    OBVIOUS
  <2>3. Alive(new) <=> Alive(r)  BY <2>2 DEF Alive
  <2> HIDE DEF new
  <2>4. awaits' \in BOOLEAN  BY <1>3
  <2>5. \A q \in asked' : \E p \in asked :
               /\ q.kid = p.kid /\ q.log = p.log
               /\ q.op = p.op \/ (p.op = "statuses" /\ q.op = "load")
               /\ q = [op |-> q.op, kid |-> q.kid, log |-> q.log, st |-> q.st]
               /\ q.st \in {"asked", "waiting", "again"}
    <3>1. \A q \in asked \ {r} : \E p \in asked :
               /\ q.kid = p.kid /\ q.log = p.log
               /\ q.op = p.op \/ (p.op = "statuses" /\ q.op = "load")
               /\ q = [op |-> q.op, kid |-> q.kid, log |-> q.log, st |-> q.st]
               /\ q.st \in {"asked", "waiting", "again"}
      BY <1>1
    <3>2. \E p \in asked :
               /\ new.kid = p.kid /\ new.log = p.log
               /\ new.op = p.op \/ (p.op = "statuses" /\ new.op = "load")
               /\ new = [op |-> new.op, kid |-> new.kid, log |-> new.log, st |-> new.st]
               /\ new.st \in {"asked", "waiting", "again"}
      <4>1. new.st \in {"asked", "waiting", "again"}  BY <1>3, <2>2
      <4>2. new.op = r.op \/ (r.op = "statuses" /\ new.op = "load")  BY <1>3, <2>2
      <4>3. QED  BY <2>2, <4>1, <4>2
    <3>3. QED  BY <2>1, <3>1, <3>2
  <2>6. \A p \in asked : Alive(p) /\ p.log = log /\ p.op # "statuses" =>
               \E q \in asked' : q.op = p.op /\ q.kid = p.kid /\ q.log = p.log
    <3>1. new \in asked' /\ \A p \in asked : p # r => p \in asked'  BY <2>1
    <3>2. r.op # "statuses" => new.op = r.op  BY <1>3, <2>2
    <3>3. QED  BY <2>2, <3>1, <3>2
  <2>7. ASSUME NEW q \in asked', NEW p \in asked', Alive(q), Alive(p), q.op = p.op,
               p.op \in {"people", "revoke"}
        PROVE  q = p
    <3>1. new.op \in {"people", "revoke"} => r.op = new.op  BY <1>3, <2>2
    <3>2. CASE q = new /\ p # new
      BY <1>1, <2>1, <2>3, <2>7, <3>1, <3>2
    <3>3. CASE q # new /\ p = new
      BY <1>1, <2>1, <2>3, <2>7, <3>1, <3>3
    <3>4. CASE q # new /\ p # new
      BY <1>1, <2>1, <2>7, <3>4
    <3>5. QED  BY <3>2, <3>3, <3>4
  <2>8. \A q \in asked' : q.st # "asked" => awaits'  BY <1>3
  <2>9. QED  BY <1>3, <2>4, <2>5, <2>6, <2>7, <2>8, UnseenStep
<1>4. ASSUME NEW r \in asked, AnswerFails(r) PROVE ScreensIInv'
  <2>1. UNCHANGED <<outside, place, made, languages, wishes>> /\ Mishap
    BY <1>4 DEF AnswerFails
  <2>2. r = [op |-> r.op, kid |-> r.kid, log |-> r.log, st |-> r.st]  BY <1>1
  <2>3. CASE asked' = (asked \ {r}) \cup {[r EXCEPT !.st = "waiting"]} /\ awaits' = TRUE
    <3>1. [r EXCEPT !.st = "waiting"] = [r EXCEPT !.op = r.op, !.st = "waiting"]  BY <2>2
    <3>2. asked' = (asked \ {r}) \cup {[r EXCEPT !.op = r.op, !.st = "waiting"]}
      BY <2>3, <3>1
    <3>3. QED  BY <1>3, <2>1, <2>3, <3>2
  <2>4. CASE /\ asked' = (asked \ {r}) \cup
                  {[r EXCEPT !.op = IF @ = "statuses" THEN "load" ELSE @, !.st = "again"]}
             /\ awaits' = TRUE
    <3> DEFINE op == IF r.op = "statuses" THEN "load" ELSE r.op
    <3>1. [r EXCEPT !.op = IF @ = "statuses" THEN "load" ELSE @, !.st = "again"]
            = [r EXCEPT !.op = op, !.st = "again"]
      OBVIOUS
    <3>2. asked' = (asked \ {r}) \cup {[r EXCEPT !.op = op, !.st = "again"]}
      BY <2>4, <3>1
    <3>3. op = r.op \/ (r.op = "statuses" /\ op = "load")  OBVIOUS
    <3> HIDE DEF op
    <3>4. QED  BY <1>3, <2>1, <2>4, <3>2, <3>3
  <2>5. QED  BY <1>4, <2>3, <2>4 DEF AnswerFails
<1>5. ASSUME NEW r \in asked, ThrowsOn(r) PROVE ScreensIInv'
  <2>1. r = [op |-> r.op, kid |-> r.kid, log |-> r.log, st |-> r.st]  BY <1>1
  <2>2. [r EXCEPT !.st = "again"] = [r EXCEPT !.op = r.op, !.st = "again"]  BY <2>1
  <2>3. /\ asked' = (asked \ {r}) \cup {[r EXCEPT !.op = r.op, !.st = "again"]}
        /\ awaits' = TRUE /\ UNCHANGED mishaps
        /\ UNCHANGED <<outside, place, made, languages, wishes>>
    BY <1>5, <2>2 DEF ThrowsOn
  <2>4. QED  BY <1>3, <2>3
<1>6. CASE RetryScreens
  <2>1. /\ awaits' = FALSE /\ UNCHANGED <<outside, place, made, languages, wishes, mishaps>>
        /\ asked' = {[r EXCEPT !.st = "asked"] : r \in {q \in asked : q.st = "asked" \/ Alive(q)}}
    BY <1>6 DEF RetryScreens
  <2>2. \A r \in asked : [r EXCEPT !.st = "asked"]
                           = [op |-> r.op, kid |-> r.kid, log |-> r.log, st |-> "asked"]
    BY <1>1
  <2>3. \A q \in asked' : \E r \in asked :
           q = [op |-> r.op, kid |-> r.kid, log |-> r.log, st |-> "asked"]
    BY <2>1, <2>2
  <2>4. \A r \in asked : Alive(r) =>
           [op |-> r.op, kid |-> r.kid, log |-> r.log, st |-> "asked"] \in asked'
    BY <2>1, <2>2
  <2>5. \A q \in asked' : \E r \in asked :
               /\ q.kid = r.kid /\ q.log = r.log /\ q.op = r.op
               /\ q = [op |-> q.op, kid |-> q.kid, log |-> q.log, st |-> q.st]
               /\ q.st = "asked"
    BY <2>3
  <2>6. \A r \in asked : Alive(r) =>
               \E q \in asked' : q.op = r.op /\ q.kid = r.kid /\ q.log = r.log
    <3>1. ASSUME NEW r \in asked, Alive(r)
          PROVE  \E q \in asked' : q.op = r.op /\ q.kid = r.kid /\ q.log = r.log
      <4> DEFINE q == [op |-> r.op, kid |-> r.kid, log |-> r.log, st |-> "asked"]
      <4>1. q \in asked'  BY <2>4, <3>1
      <4>2. q.op = r.op /\ q.kid = r.kid /\ q.log = r.log  OBVIOUS
      <4>3. QED  BY <4>1, <4>2
    <3>2. QED  BY <3>1
  <2>7. ASSUME NEW q \in asked', NEW p \in asked', Alive(q), Alive(p), q.op = p.op,
               p.op \in {"people", "revoke"}
        PROVE  q = p
    <3>1. PICK r \in asked : q = [op |-> r.op, kid |-> r.kid, log |-> r.log, st |-> "asked"]
      BY <2>3
    <3>2. PICK s \in asked : p = [op |-> s.op, kid |-> s.kid, log |-> s.log, st |-> "asked"]
      BY <2>3
    <3>3. r.op = s.op /\ s.op \in {"people", "revoke"} /\ q.kid = r.kid /\ p.kid = s.kid
      BY <2>7, <3>1, <3>2
    <3>4. Alive(r) /\ Alive(s)  BY <2>7, <3>3 DEF Alive
    <3>5. r = s  BY <1>1, <3>3, <3>4
    <3>6. QED  BY <3>1, <3>2, <3>5
  <2>8. awaits' \in BOOLEAN  BY <2>1
  <2>9. UNCHANGED <<outside, place, made, languages, wishes>> /\ UNCHANGED mishaps  BY <2>1
  <2>10. \A q \in asked' : \E r \in asked :
               /\ q.kid = r.kid /\ q.log = r.log
               /\ q.op = r.op \/ (r.op = "statuses" /\ q.op = "load")
               /\ q = [op |-> q.op, kid |-> q.kid, log |-> q.log, st |-> q.st]
               /\ q.st \in {"asked", "waiting", "again"}
    BY <2>5
  <2>11. \A q \in asked' : q.st # "asked" => awaits'  BY <2>5
  <2>12. QED  BY <2>6, <2>7, <2>8, <2>9, <2>10, <2>11, UnseenStep
<1>7. ASSUME NEW r \in asked, InviteAnswered(r), ~Alive(r) PROVE ScreensIInv'
  BY <1>2, <1>7 DEF InviteAnswered, Form, place
<1>8. ASSUME NEW r \in asked, PeopleLoaded(r), ~Alive(r) PROVE ScreensIInv'
  BY <1>2, <1>8 DEF PeopleLoaded, People, place
<1>9. ASSUME NEW r \in asked, PageRead(r), ~(Alive(r) /\ r.log = log) PROVE ScreensIInv'
  BY <1>2, <1>9 DEF PageRead, People, place
<1>10. QED  BY <1>4, <1>5, <1>6, <1>7, <1>8, <1>9

-----------------------------------------------------------------------------
(***************************************************************************)
(* The album.                                                              *)
(***************************************************************************)

\* A step that leaves the owner on the album asks one thing at most.
LEMMA AlbumStep ==
    ASSUME ScreensIInv, shown.kind = "album", UNCHANGED <<outside, open, log, made, languages, awaits>>,
           NEW at \in {"loading", "ready"},
           NEW over \in {"none", "viewer", "review", "confirm", "removing"},
           NEW leaving \in BOOLEAN, at = "loading" => over = "none",
           shown' = [kind |-> "album", of |-> shown.of, at |-> at, over |-> over,
                     leaving |-> leaving],
           NEW op \in {"statuses", "upload", "remove"},
           asked' \subseteq asked \cup {Req(op, open["album"], 0)},
           at = "loading" => \E r \in asked' : Alive(r) /\ r.op = "load",
           over = "removing" => \E r \in asked' : Alive(r) /\ r.op = "remove",
           RestOK', WishKept'
    PROVE  ScreensIInv'
<1>0. OnScreen /\ MadeOK /\ WaitingIsSaid  BY Parts
<1>1. /\ shown'.kind = "album" /\ shown'.of = shown.of /\ shown'.at = at
      /\ shown'.over = over /\ shown'.leaving = leaving /\ log = 0
  BY <1>0 DEF OnScreen, ScreenShapeOK, OneChild
<1>2. ScreenShapeOK'
  <2>1. shown.of \in AlbumIds \cup {"none"}  BY <1>0 DEF OnScreen, ScreenShapeOK
  <2>2. QED  BY <1>1, <2>1 DEF ScreenShapeOK, ScreenSteps, Overs, ScreenKinds
<1>3. OneChild'  BY <1>1, SameChild DEF made
<1>4. \A r : Alive(r)' <=> Alive(r)  BY DEF Alive
<1>5. RequestsOK' /\ \A r \in asked' : r.kid \in DOMAIN views
  <2>1. op \in ScreenOps /\ Owner(op) = "album" /\ op # "page"  BY DEF ScreenOps, Owner
  <2>2. UNCHANGED <<open, views>>  BY DEF made
  <2>3. QED  BY <2>1, <2>2, AsksAnother DEF ShownBy
<1>6. \A r \in asked' : \/ r \in asked
                        \/ r.op = op /\ r.st = "asked"
  BY DEF Req
<1>7. SomethingBehind'
  <2>1. \A r \in asked' : r.op # "page" => r.log = 0  BY <1>5 DEF RequestsOK
  <2>2. /\ Behind' \subseteq {"load", "remove"}
        /\ "load" \in Behind' => at = "loading"
        /\ "remove" \in Behind' => over = "removing"
    BY <1>1 DEF Behind
  <2>3. QED  BY <1>1, <1>4, <2>1, <2>2 DEF SomethingBehind
<1>8. AskedOnce'
  <2>1. \A r \in asked : ~(Alive(r) /\ r.op = "people") /\ r.op # "revoke"
    BY <1>0 DEF OnScreen, AskedOnce
  <2>2. \A r \in asked' : ~(Alive(r) /\ r.op = "people") /\ r.op # "revoke"
    BY <1>6, <2>1
  <2>3. QED  BY <1>4, <2>2 DEF AskedOnce
<1>9. MadeOK'  BY <1>0, <1>5 DEF MadeOK, made
<1>10. WaitingIsSaid'  BY <1>0, <1>6 DEF WaitingIsSaid
<1>11. QED
  BY <1>2, <1>3, <1>5, <1>7, <1>8, <1>9, <1>10, PartsNext DEF OnScreen

\* What an album's screen looks like, and who waits for what on it.
LEMMA OnAnAlbum ==
    ASSUME ScreensIInv, shown.kind = "album"
    PROVE  /\ shown.at \in {"loading", "ready"} /\ shown.leaving \in BOOLEAN
           /\ shown.over \in {"none", "viewer", "review", "confirm", "removing"}
           /\ shown.at = "loading" => shown.over = "none"
           /\ shown = [kind |-> "album", of |-> shown.of, at |-> shown.at, over |-> shown.over,
                       leaving |-> shown.leaving]
           /\ shown.at = "loading" => \E r \in asked : Alive(r) /\ r.op = "load"
           /\ shown.over = "removing" => \E r \in asked : Alive(r) /\ r.op = "remove"
           /\ \A r \in asked : Alive(r) => r.kid = open["album"]
<1>1. ScreenShapeOK /\ SomethingBehind  BY DEF ScreensIInv
<1>2. \A r \in asked : Alive(r) => r.kid = open["album"]
  BY Showing DEF ShownBy, Children
<1>3. QED  BY <1>1, <1>2 DEF ScreenShapeOK, AtRest, SomethingBehind, Behind

\* Requests of the album keep it open: the album is what is shown.
LEMMA AlbumIsShown ==
    ASSUME ScreensIInv, NEW r \in asked, r.op \in {"load", "statuses", "upload", "remove"}
    PROVE  Alive(r) /\ shown.kind = "album"
<1>1. RequestsOK /\ OneChild /\ r.kid # 0
  BY DEF ScreensIInv, RequestsOK
<1>2. Alive(r) /\ open["album"] # 0  BY <1>1 DEF RequestsOK, Owner
<1>3. QED  BY <1>1, <1>2 DEF OneChild, Children, ShownBy

\* The types of where to go, once a step has settled it.
LEMMA RestGoes ==
    ASSUME RestOK, UNCHANGED <<outside, awaits>>, UNCHANGED mishaps \/ Mishap,
           {afterLeave', wish'} \subseteq {"none", "albums", "invite", "people"},
           astray' \in BOOLEAN
    PROVE  RestOK'
<1>1. mishaps' \in 0..MaxMishaps  BY ScreensAssumption DEF RestOK, Mishap
<1>2. UNCHANGED <<there, listed, awaits>>  BY DEF outside
<1>3. awaits' \in BOOLEAN  BY <1>2 DEF RestOK
<1>4. QED  BY <1>1, <1>2, <1>3 DEF RestOK

\* What leaves the owner on the album.
AlbumMoves ==
    \/ StayInAlbum \/ OverAlbum
    \/ LeaveAlbum /\ Occupied({"upload"})
    \/ \E next \in {"invite", "people"} : LeaveAlbumFor(next) /\ Occupied({"upload"})
    \/ \E r \in asked :
          \/ AlbumLoaded(r)
          \/ AlbumAnswered(r)
          \/ AlbumIsGone(r) /\ r.op = "load" /\ ~MayLeaveAlbum

\* The steps that leave the owner on the album.
LEMMA NextAlbum == ASSUME ScreensIInv, AlbumMoves PROVE ScreensIInv'
<1> USE DEF AlbumMoves
<1>0. ScreenShapeOK /\ RequestsOK /\ RestOK /\ WishKept  BY Parts DEF OnScreen
<1>1. shown.kind = "album"
  BY AlbumIsShown DEF StayInAlbum, OverAlbum, LeaveAlbum, LeaveAlbumFor, OnAlbum, AlbumLoaded,
                      AlbumAnswered, AlbumIsGone
<1> DEFINE Screen(at, over, leaving) ==
      [kind |-> "album", of |-> shown.of, at |-> at, over |-> over, leaving |-> leaving]
<1>2. /\ shown.at \in {"loading", "ready"} /\ shown.leaving \in BOOLEAN
      /\ shown.over \in {"none", "viewer", "review", "confirm", "removing"}
      /\ shown.at = "loading" => shown.over = "none"
      /\ shown = Screen(shown.at, shown.over, shown.leaving)
  BY <1>1, OnAnAlbum
<1>3. /\ \A over : [shown EXCEPT !.over = over] = Screen(shown.at, over, shown.leaving)
      /\ \A at : [shown EXCEPT !.at = at] = Screen(at, shown.over, shown.leaving)
      /\ \A leaving : [shown EXCEPT !.leaving = leaving] = Screen(shown.at, shown.over, leaving)
  BY <1>0, <1>1 DEF ScreenShapeOK
<1>4. /\ \A r \in asked : Alive(r) => r.kid = open["album"]
      /\ \A op : Alive(Req(op, open["album"], 0)) /\ Req(op, open["album"], 0).op = op
  BY <1>1, OnAnAlbum DEF Children, Alive, Req
<1>5. /\ shown.at = "loading" => \E r \in asked : Alive(r) /\ r.op = "load"
      /\ shown.over = "removing" => \E r \in asked : Alive(r) /\ r.op = "remove"
  BY <1>1, OnAnAlbum
<1>6. \A at, over, leaving : Screen(at, over, leaving).kind = "album"
                             /\ Screen(at, over, leaving).leaving = leaving
  OBVIOUS
<1> HIDE DEF Screen
\* Those that move nothing but the screen and the requests.
<1>7. ASSUME NEW at \in {"loading", "ready"},
             NEW over \in {"none", "viewer", "review", "confirm", "removing"},
             at = "loading" => over = "none",
             NEW op \in {"statuses", "upload", "remove"}, NEW reqs,
             reqs \subseteq asked \cup {Req(op, open["album"], 0)},
             shown' = Screen(at, over, shown.leaving), asked' = reqs,
             Calm, UNCHANGED mishaps,
             at = "loading" => \E r \in reqs : Alive(r) /\ r.op = "load",
             over = "removing" => \E r \in reqs : Alive(r) /\ r.op = "remove"
      PROVE  ScreensIInv'
  <2>1. UNCHANGED <<outside, open, log, made, languages, awaits>> /\ UNCHANGED wishes
    BY <1>7 DEF Calm
  <2>2. RestOK'
    <3>1. awaits' \in BOOLEAN  BY <1>0, <2>1 DEF RestOK
    <3>2. QED  BY <1>0, <1>7, <2>1, <3>1, RestKept
  <2>3. WishKept'
    <3>1. shown'.kind = shown.kind /\ shown'.leaving = shown.leaving
      BY <1>1, <1>6, <1>7
    <3>2. UNCHANGED <<afterLeave, wish, astray>>  BY <2>1 DEF wishes
    <3>3. QED  BY <1>0, <3>1, <3>2 DEF WishKept
  <2>4. shown.leaving \in BOOLEAN  BY <1>2
  <2>5. QED  BY <1>1, <1>7, <2>1, <2>2, <2>3, <2>4, AlbumStep DEF Screen
\* Those that ask the question, or take it back.
<1>8. ASSUME NEW leave \in BOOLEAN, Asks(leave), UNCHANGED <<outside, astray, awaits, mishaps>>,
             {afterLeave', wish'} \subseteq {"none", "albums", "invite", "people"},
             afterLeave' # "albums",
             leave => wish' = IF afterLeave' = "none" THEN "albums" ELSE afterLeave',
             ~leave => afterLeave' = "none"
      PROVE  ScreensIInv'
  <2>1. /\ shown' = Screen(shown.at, shown.over, leave) /\ asked' = asked
        /\ UNCHANGED <<open, log, made, languages>>
    BY <1>3, <1>8 DEF Asks
  <2>2. RestOK'
    <3>1. astray' \in BOOLEAN  BY <1>0, <1>8 DEF RestOK
    <3>2. UNCHANGED <<outside, awaits>> /\ UNCHANGED mishaps  BY <1>8
    <3>3. QED  BY <1>0, <1>8, <3>1, <3>2, RestGoes
  <2>3. shown'.kind = "album" /\ shown'.leaving = leave  BY <1>6, <2>1
  <2>4. WishKept'  BY <1>8, <2>3 DEF WishKept
  <2>5. asked' \subseteq asked \cup {Req("upload", open["album"], 0)}  BY <2>1
  <2>6. UNCHANGED <<outside, open, log, made, languages, awaits>>  BY <1>8, <2>1
  <2>7. shown' = [kind |-> "album", of |-> shown.of, at |-> shown.at, over |-> shown.over,
                  leaving |-> leave]
    BY <2>1 DEF Screen
  <2>8. QED  BY <1>1, <1>2, <1>5, <2>1, <2>2, <2>4, <2>5, <2>6, <2>7, AlbumStep
<1>9. CASE StayInAlbum
  <2>1. /\ Asks(FALSE) /\ wish' = "none" /\ afterLeave' = "none"
        /\ UNCHANGED <<outside, astray, awaits, mishaps>>
    BY <1>9 DEF StayInAlbum
  <2>2. FALSE \in BOOLEAN  OBVIOUS
  <2>3. QED  BY <1>8, <2>1, <2>2
<1>10. CASE LeaveAlbum /\ Occupied({"upload"})
  <2>1. /\ Asks(TRUE) /\ wish' = "albums" /\ afterLeave' = "none"
        /\ UNCHANGED <<outside, astray, awaits, mishaps>>
    BY <1>10 DEF LeaveAlbum
  <2>2. TRUE \in BOOLEAN  OBVIOUS
  <2>3. QED  BY <1>8, <2>1, <2>2
<1>11. ASSUME NEW next \in {"invite", "people"}, LeaveAlbumFor(next), Occupied({"upload"})
       PROVE  ScreensIInv'
  <2>1. /\ Asks(TRUE) /\ wish' = next /\ afterLeave' = next
        /\ UNCHANGED <<outside, astray, awaits, mishaps>>
    BY <1>11 DEF LeaveAlbumFor
  <2>2. TRUE \in BOOLEAN  OBVIOUS
  <2>3. QED  BY <1>8, <2>1, <2>2
<1>12. CASE OverAlbum
  <2>1. shown.at = "ready" /\ UNCHANGED mishaps /\ Calm  BY <1>12 DEF OverAlbum
  <2>2. ASSUME NEW over \in {"none", "viewer", "review", "confirm"}, NEW reqs,
               reqs \in {asked, asked \cup {Req("upload", open["album"], 0)}},
               shown' = [shown EXCEPT !.over = over], asked' = reqs
        PROVE  ScreensIInv'
    <3>1. shown' = Screen("ready", over, shown.leaving)  BY <1>3, <2>1, <2>2
    <3>2. reqs \subseteq asked \cup {Req("upload", open["album"], 0)}  BY <2>2
    <3>3. QED  BY <1>7, <2>1, <2>2, <3>1, <3>2
  <2>3. CASE /\ shown' = [shown EXCEPT !.over = "removing"]
             /\ asked' = asked \cup {Req("remove", open["album"], 0)}
    <3>1. shown' = Screen("ready", "removing", shown.leaving)  BY <1>3, <2>1, <2>3
    <3>2. \E r \in asked \cup {Req("remove", open["album"], 0)} : Alive(r) /\ r.op = "remove"
      BY <1>4
    <3>3. QED  BY <1>7, <2>1, <2>3, <3>1, <3>2
  <2>4. QED
    <3>1. CASE /\ UNCHANGED asked
               /\ \E over \in {"viewer", "review", "confirm"} : shown' = [shown EXCEPT !.over = over]
      BY <2>2, <3>1
    <3>2. CASE /\ shown' = [shown EXCEPT !.over = "none"]
               /\ asked' \in {asked, asked \cup {Req("upload", open["album"], 0)}}
      BY <2>2, <3>2
    <3>3. QED  BY <1>12, <2>3, <3>1, <3>2 DEF OverAlbum
<1>13. ASSUME NEW r \in asked, AlbumLoaded(r) PROVE ScreensIInv'
  <2>1. r.op = "load" /\ Alive(r) /\ r.kid = open["album"]
    BY <1>4, <1>13, AlbumIsShown DEF AlbumLoaded
  <2>2. /\ shown' = Screen("ready", shown.over, shown.leaving) /\ UNCHANGED mishaps /\ Calm
        /\ asked' \in {asked \ {r}, (asked \ {r}) \cup {Req("statuses", r.kid, 0)}}
    BY <1>3, <1>13 DEF AlbumLoaded
  <2>3. asked' \subseteq asked \cup {Req("statuses", open["album"], 0)}
    BY <2>1, <2>2
  <2>4. shown.over = "removing" => \E q \in asked' : Alive(q) /\ q.op = "remove"
    BY <1>5, <2>1, <2>2
  <2>5. QED  BY <1>2, <1>7, <2>2, <2>3, <2>4
<1>14. ASSUME NEW r \in asked, AlbumAnswered(r) PROVE ScreensIInv'
  <2>1. /\ asked' = asked \ {r} /\ UNCHANGED mishaps /\ Calm /\ r.op # "load"
        /\ shown' = IF r.op = "remove" THEN [shown EXCEPT !.over = "none"] ELSE shown
    BY <1>14 DEF AlbumAnswered
  <2>2. shown.at = "loading" => \E q \in asked' : Alive(q) /\ q.op = "load"
    BY <1>5, <2>1
  <2>3. CASE r.op = "remove"
    <3>1. shown' = Screen(shown.at, "none", shown.leaving)  BY <1>3, <2>1, <2>3
    <3>2. asked' \subseteq asked \cup {Req("upload", open["album"], 0)}  BY <2>1
    <3>3. QED  BY <1>2, <1>7, <2>1, <2>2, <3>1, <3>2
  <2>4. CASE r.op # "remove"
    <3>1. shown' = Screen(shown.at, shown.over, shown.leaving)  BY <1>2, <2>1, <2>4
    <3>2. shown.over = "removing" => \E q \in asked' : Alive(q) /\ q.op = "remove"
      BY <1>5, <2>1, <2>4
    <3>3. asked' \subseteq asked \cup {Req("upload", open["album"], 0)}  BY <2>1
    <3>4. QED  BY <1>2, <1>7, <2>1, <2>2, <3>1, <3>2, <3>3
  <2>5. QED  BY <2>3, <2>4
<1>15. ASSUME NEW r \in asked, AlbumIsGone(r), r.op = "load", ~MayLeaveAlbum PROVE ScreensIInv'
  <2>1. /\ asked' = asked \ {r}
        /\ UNCHANGED <<outside, place, made, languages, afterLeave, astray, wish, awaits, mishaps>>
    BY <1>15 DEF AlbumIsGone
  <2>2. shown.over = "removing"  BY <1>1, <1>15 DEF MayLeaveAlbum
  <2>3. shown.at = "ready"  BY <1>2, <2>2
  <2>4. shown' = Screen("ready", "removing", shown.leaving)
    BY <1>2, <2>1, <2>2, <2>3 DEF place
  <2>5. \E q \in asked' : Alive(q) /\ q.op = "remove"  BY <1>5, <1>15, <2>1, <2>2
  <2>6. Calm /\ UNCHANGED mishaps  BY <2>1 DEF Calm, place, wishes
  <2>7. asked' \subseteq asked \cup {Req("upload", open["album"], 0)}  BY <2>1
  <2>8. QED  BY <1>7, <2>4, <2>5, <2>6, <2>7
<1>16. QED  BY <1>9, <1>10, <1>11, <1>12, <1>13, <1>14, <1>15

-----------------------------------------------------------------------------
(***************************************************************************)
(* From one child to another, and in and out of the session.               *)
(***************************************************************************)

\* Where the album is left for.
LEMMA DepartsOnScreen ==
    ASSUME ScreensIInv, shown.kind = "album", NEW to \in {"none", "invite", "people"},
           NEW reqs \in SUBSET asked, Departs(to, reqs)
    PROVE  /\ OnScreen' /\ MadeOK' /\ afterLeave' = "none"
           /\ \A r \in asked' : r \in asked \/ r.st = "asked"
           /\ shown'.kind = (IF to = "none" THEN "albums" ELSE to) /\ ~shown'.leaving
<1>1. ScreensTypeOK /\ RequestsOK  BY DEF ScreensIInv
<1>2. afterLeave' = "none"  BY DEF Departs
<1>3. CASE to \in {"invite", "people"}
  <2>1. shown.of \in AlbumIds  BY Showing DEF ShownBy, Children
  <2>2. Enters(to, shown.of, reqs)  BY <1>3 DEF Departs
  <2>3. to \in Children  BY <1>3 DEF Children
  <2>4. QED  BY <1>1, <1>2, <1>3, <2>1, <2>2, <2>3, EntersOnScreen
<1>4. CASE to = "none"
  <2>1. BackToList(reqs)  BY <1>4 DEF Departs
  <2>2. OnScreen' /\ MadeOK' /\ asked' \subseteq asked /\ shown' = ListShown
    BY <1>1, <2>1, ListOnScreen
  <2>3. QED  BY <1>2, <1>4, <2>2 DEF ListShown, On
<1>5. QED  BY <1>3, <1>4

\* A step to a screen of which the question is not asked.
LEMMA Arrives ==
    ASSUME ScreensIInv, OnScreen', MadeOK', UNCHANGED <<outside, awaits>>,
           UNCHANGED mishaps \/ Mishap,
           {afterLeave', wish'} \subseteq {"none", "albums", "invite", "people"},
           astray' \in BOOLEAN,
           \A r \in asked' : r \in asked \/ r.st = "asked",
           ~shown'.leaving, afterLeave' # "none" => astray', afterLeave' # "albums"
    PROVE  ScreensIInv'
<1>1. RestOK /\ WaitingIsSaid  BY Parts
<1>2. RestOK'  BY <1>1, RestGoes
<1>3. WishKept'  BY DEF WishKept
<1>4. WaitingIsSaid'  BY <1>1 DEF WaitingIsSaid
<1>5. QED  BY <1>2, <1>3, <1>4, PartsNext

\* What opens another child, or the list.
WayMoves ==
    \/ \E a \in AlbumIds : OpenAlbum(a)
    \/ LeaveAlbum /\ ~Occupied({"upload"})
    \/ \E next \in {"invite", "people"} : LeaveAlbumFor(next) /\ ~Occupied({"upload"})
    \/ LeaveAnyway \/ LeaveInvite \/ LeavePeople
    \/ \E r \in asked : AlbumIsGone(r) /\ ~(r.op = "load" /\ ~MayLeaveAlbum)

\* The steps to another child, or to the list.
LEMMA NextWays == ASSUME ScreensIInv, WayMoves PROVE ScreensIInv'
<1> USE DEF WayMoves
<1>0. /\ ScreensTypeOK /\ RequestsOK /\ WishKept /\ asked \in SUBSET asked
      /\ afterLeave \in {"none", "invite", "people"}
      /\ wish \in {"none", "albums", "invite", "people"} /\ astray \in BOOLEAN
  <2>1. ScreensTypeOK /\ RequestsOK /\ WishKept  BY DEF ScreensIInv
  <2>2. QED  BY <2>1 DEF ScreensTypeOK, WishKept
\* Into an album from a screen that is none.
<1>1. ASSUME NEW a \in AlbumIds, Enters("album", a, asked), wish' = "none",
             UNCHANGED <<outside, afterLeave, astray, awaits, mishaps>>,
             shown.kind # "album"
      PROVE  ScreensIInv'
  <2>1. "album" \in Children  BY DEF Children
  <2>2. /\ OnScreen' /\ MadeOK' /\ ~shown'.leaving
        /\ \A r \in asked' : r \in asked \/ r.st = "asked"
    BY <1>0, <1>1, <2>1, EntersOnScreen
  <2>3. afterLeave' # "none" => astray'  BY <1>0, <1>1 DEF WishKept
  <2>4. UNCHANGED <<outside, awaits>> /\ UNCHANGED mishaps  BY <1>1
  <2>5. astray' \in BOOLEAN  BY <1>0, <1>1
  <2>6. {afterLeave', wish'} \subseteq {"none", "albums", "invite", "people"}
    BY <1>0, <1>1
  <2>7. afterLeave' # "albums"  BY <1>0, <1>1
  <2>8. QED  BY <2>2, <2>3, <2>4, <2>5, <2>6, <2>7, Arrives
\* Out of the album, wherever to.
<1>2. ASSUME shown.kind = "album", NEW to \in {"none", "invite", "people"},
             NEW reqs \in SUBSET asked, Departs(to, reqs),
             wish' \in {"none", "albums", "invite", "people"},
             UNCHANGED <<outside, astray, awaits, mishaps>>
      PROVE  ScreensIInv'
  <2>1. /\ OnScreen' /\ MadeOK' /\ afterLeave' = "none"
        /\ \A r \in asked' : r \in asked \/ r.st = "asked"
    BY <1>2, DepartsOnScreen
  <2>2. ~shown'.leaving  BY <1>2, DepartsOnScreen
  <2>3. UNCHANGED <<outside, awaits>> /\ UNCHANGED mishaps  BY <1>2
  <2>4. astray' \in BOOLEAN  BY <1>0, <1>2
  <2>5. {afterLeave', wish'} \subseteq {"none", "albums", "invite", "people"}
    BY <1>2, <2>1
  <2>6. QED  BY <2>1, <2>2, <2>3, <2>4, <2>5, Arrives
<1>3. ASSUME NEW a \in AlbumIds, OpenAlbum(a) PROVE ScreensIInv'
  BY <1>1, <1>3 DEF OpenAlbum, ListShown, On
<1>4. CASE LeaveInvite
  <2>1. shown.kind = "invite"  BY <1>4 DEF LeaveInvite, OnInvite
  <2>2. shown.of \in AlbumIds  BY <2>1, Showing DEF ShownBy, Children
  <2>3. QED  BY <1>1, <1>4, <2>1, <2>2 DEF LeaveInvite
<1>5. CASE LeavePeople
  <2>1. shown.kind = "people"  BY <1>5 DEF LeavePeople, OnPeople
  <2>2. shown.of \in AlbumIds  BY <2>1, Showing DEF ShownBy, Children
  <2>3. QED  BY <1>1, <1>5, <2>1, <2>2 DEF LeavePeople
<1>6. CASE LeaveAlbum /\ ~Occupied({"upload"})
  <2>1. /\ shown.kind = "album" /\ wish' = "albums" /\ Departs(afterLeave, asked)
        /\ UNCHANGED <<outside, astray, awaits, mishaps>>
    BY <1>6 DEF LeaveAlbum, OnAlbum
  <2>2. QED  BY <1>0, <1>2, <2>1
<1>7. ASSUME NEW next \in {"invite", "people"}, LeaveAlbumFor(next), ~Occupied({"upload"})
      PROVE  ScreensIInv'
  <2>1. /\ shown.kind = "album" /\ wish' = next /\ Departs(next, asked)
        /\ UNCHANGED <<outside, astray, awaits, mishaps>>
    BY <1>7 DEF LeaveAlbumFor, OnAlbum
  <2>2. QED  BY <1>0, <1>2, <2>1
<1>8. CASE LeaveAnyway
  <2>1. /\ shown.kind = "album" /\ Departs(afterLeave, asked)
        /\ UNCHANGED <<outside, wish, astray, awaits, mishaps>>
    BY <1>8 DEF LeaveAnyway
  <2>2. wish' \in {"none", "albums", "invite", "people"}  BY <1>0, <2>1
  <2>3. QED  BY <1>0, <1>2, <2>1, <2>2
<1>9. ASSUME NEW r \in asked, AlbumIsGone(r), ~(r.op = "load" /\ ~MayLeaveAlbum) PROVE ScreensIInv'
  <2>1. UNCHANGED <<outside, wish, awaits, mishaps>> /\ asked \ {r} \in SUBSET asked
    BY <1>9 DEF AlbumIsGone
  <2>2. wish' \in {"none", "albums", "invite", "people"}  BY <1>0, <2>1
  <2>3. CASE r.op = "load" /\ MayLeaveAlbum /\ Departs(afterLeave, asked \ {r}) /\ UNCHANGED astray
    <3>1. shown.kind = "album"  BY <2>3 DEF MayLeaveAlbum
    <3>2. QED  BY <1>0, <1>2, <2>1, <2>2, <2>3, <3>1
  <2>4. CASE /\ BackToList(asked \ {r})
             /\ astray' = (astray \/ afterLeave # "none") /\ UNCHANGED afterLeave
    <3>1. OnScreen' /\ MadeOK' /\ asked' \subseteq asked /\ shown' = ListShown
      BY <1>0, <2>1, <2>4, ListOnScreen
    <3>2. ~shown'.leaving  BY <3>1 DEF ListShown, On
    <3>3. astray' \in BOOLEAN  BY <1>0, <2>4
    <3>4. afterLeave' # "none" => astray'  BY <2>4
    <3>5. {afterLeave', wish'} \subseteq {"none", "albums", "invite", "people"} /\ afterLeave' # "albums"
      BY <1>0, <2>2, <2>4
    <3>6. UNCHANGED <<outside, awaits>> /\ UNCHANGED mishaps  BY <2>1
    <3>7. QED  BY <3>1, <3>2, <3>3, <3>4, <3>5, <3>6, Arrives
  <2>5. QED  BY <1>9, <2>3, <2>4 DEF AlbumIsGone
<1>10. QED  BY <1>3, <1>4, <1>5, <1>6, <1>7, <1>8, <1>9

\* What comes from outside.
OutsideMoves == (\E a \in AlbumIds : Vanishes(a)) \/ SessionOver \/ SignsInAgain

\* In and out of the session, and what the server loses on its own.
LEMMA NextOutside == ASSUME ScreensIInv, OutsideMoves PROVE ScreensIInv'
<1> USE DEF OutsideMoves
<1>0. /\ OnScreen /\ MadeOK /\ RestOK /\ WishKept /\ WaitingIsSaid
  BY Parts
<1>1. ASSUME NEW a \in AlbumIds, Vanishes(a) PROVE ScreensIInv'
  <2>1. /\ there' = there \ {a} /\ Mishap
        /\ UNCHANGED <<listed, shown, open, log, views, logs, languages, afterLeave, wish, astray,
                       asked, awaits>>
    BY <1>1 DEF Vanishes, place, made, wishes
  <2>2. RestOK'
    <3>1. mishaps' \in 0..MaxMishaps  BY <1>0, <2>1, ScreensAssumption DEF RestOK, Mishap
    <3>2. awaits' \in BOOLEAN /\ astray' \in BOOLEAN  BY <1>0, <2>1 DEF RestOK
    <3>3. QED  BY <1>0, <2>1, <3>1, <3>2 DEF RestOK
  <2>3. OnScreen'
    <3>1. ScreenShapeOK' /\ RequestsOK' /\ OneChild'
      BY <1>0, <2>1 DEF OnScreen, ScreenShapeOK, RequestsOK, OneChild, Alive
    <3>2. Behind' = Behind  BY <2>1 DEF Behind
    <3>3. SomethingBehind' /\ AskedOnce'
      BY <1>0, <2>1, <3>2 DEF OnScreen, SomethingBehind, AskedOnce, Alive
    <3>4. QED  BY <3>1, <3>3 DEF OnScreen
  <2>4. MadeOK' /\ WishKept' /\ WaitingIsSaid'
    BY <1>0, <2>1 DEF MadeOK, WishKept, WaitingIsSaid
  <2>5. QED  BY <2>2, <2>3, <2>4, PartsNext
<1>2. CASE SessionOver
  <2>1. /\ open' = NoChild /\ log' = 0 /\ asked' = {} /\ awaits' = FALSE
        /\ astray' = (astray \/ afterLeave # "none") /\ languages' = "idle"
        /\ UNCHANGED <<there, listed, views, logs, afterLeave, wish>>
    BY <1>2 DEF SessionOver, outside, made
  <2>2. PICK kind \in {"signin", "device-failed"} : shown' = On(kind, "none", "ready")
    BY <1>2 DEF SessionOver, SignedOut
  <2>3. /\ shown'.kind = kind /\ shown'.at = "ready" /\ shown'.over = "none" /\ ~shown'.leaving
        /\ shown' \in [kind : ScreenKinds, of : AlbumIds \cup {"none"}, at : ScreenSteps, over : Overs,
                       leaving : BOOLEAN]
    BY <2>2 DEF On, AtRest, ScreenKinds, ScreenSteps, Overs
  <2>4. ScreenShapeOK'  BY <2>3 DEF ScreenShapeOK, AtRest
  <2>5. OneChild'  BY <2>1, <2>3 DEF OneChild, NoChild, ShownBy, Children
  <2>6. SomethingBehind'  BY <2>3 DEF SomethingBehind, Behind
  <2>7. RequestsOK' /\ AskedOnce' /\ WaitingIsSaid'
    BY <2>1 DEF RequestsOK, AskedOnce, WaitingIsSaid
  <2>8. MadeOK'  BY <1>0, <2>1 DEF MadeOK, NoChild
  <2>9. RestOK'
    <3>1. UNCHANGED mishaps \/ Mishap  BY <1>2 DEF SessionOver
    <3>2. mishaps' \in 0..MaxMishaps  BY <1>0, <3>1, ScreensAssumption DEF RestOK, Mishap
    <3>3. awaits' \in BOOLEAN /\ astray' \in BOOLEAN  BY <1>0, <2>1 DEF RestOK
    <3>4. QED  BY <1>0, <2>1, <3>2, <3>3 DEF RestOK
  <2>10. WishKept'  BY <1>0, <2>1, <2>3 DEF WishKept
  <2>11. QED
    BY <2>4, <2>5, <2>6, <2>7, <2>8, <2>9, <2>10, PartsNext DEF OnScreen
<1>3. CASE SignsInAgain
  <2>1. /\ shown = SignedOut /\ shown' = ListShown /\ listed' = there
        /\ UNCHANGED <<there, open, log, views, logs, languages, afterLeave, wish, astray, asked,
                       awaits, mishaps>>
    BY <1>3 DEF SignsInAgain, made, wishes
  <2>2. /\ shown.kind = "signin" /\ shown'.kind = "albums" /\ shown'.at = "ready"
        /\ shown'.over = "none" /\ ~shown'.leaving
    BY <2>1 DEF SignedOut, ListShown, On
  <2>3. ScreenShapeOK'  BY <2>1 DEF ScreenShapeOK, ListShown, On, AtRest, ScreenKinds, ScreenSteps, Overs
  <2>4. \A c \in Children : open[c] = 0
    BY <1>0, <2>2 DEF OnScreen, OneChild, ShownBy, Children
  <2>5. OneChild'
    BY <1>0, <2>1, <2>2, <2>4 DEF OnScreen, OneChild, ShownBy, Children
  <2>6. \A r \in asked : ~Alive(r) /\ ~Alive(r)'
    BY <1>0, <2>1, <2>4 DEF OnScreen, RequestsOK, Alive
  <2>7. RequestsOK'  BY <1>0, <2>1, <2>6 DEF OnScreen, RequestsOK, Alive
  <2>8. SomethingBehind'  BY <2>2 DEF SomethingBehind, Behind
  <2>9. AskedOnce'  BY <1>0, <2>1, <2>2, <2>6 DEF OnScreen, AskedOnce, Alive
  <2>10. MadeOK' /\ WaitingIsSaid'  BY <1>0, <2>1 DEF MadeOK, WaitingIsSaid
  <2>11. RestOK'
    <3>1. awaits' \in BOOLEAN /\ astray' \in BOOLEAN  BY <1>0, <2>1 DEF RestOK
    <3>2. mishaps' \in 0..MaxMishaps  BY <1>0, <2>1 DEF RestOK
    <3>3. QED  BY <1>0, <2>1, <3>1, <3>2 DEF RestOK
  <2>12. WishKept'  BY <1>0, <2>1, <2>2 DEF WishKept
  <2>13. QED
    BY <2>3, <2>5, <2>7, <2>8, <2>9, <2>10, <2>11, <2>12, PartsNext DEF OnScreen
<1>4. QED  BY <1>1, <1>2, <1>3

\* Every step keeps the invariant.
LEMMA NextScreensIInv == ScreensIInv /\ [ScreensNext]_screensVars => ScreensIInv'
<1>1. ASSUME ScreensIInv, UNCHANGED screensVars PROVE ScreensIInv'
  <2>0. OnScreen /\ MadeOK /\ RestOK /\ WishKept /\ WaitingIsSaid  BY <1>1, Parts
  <2>1. UNCHANGED <<there, listed, shown, open, log, views, logs, languages, afterLeave, wish,
                    astray, asked, awaits, mishaps>>
    BY <1>1 DEF screensVars, outside, place, made, wishes
  <2>2. ScreenShapeOK' /\ RequestsOK' /\ OneChild'
    BY <2>0, <2>1 DEF OnScreen, ScreenShapeOK, RequestsOK, OneChild, Alive
  <2>3. Behind' = Behind  BY <2>1 DEF Behind
  <2>4. SomethingBehind' /\ AskedOnce'
    BY <2>0, <2>1, <2>3 DEF OnScreen, SomethingBehind, AskedOnce, Alive
  <2>5. MadeOK' /\ RestOK' /\ WishKept' /\ WaitingIsSaid'
    BY <2>0, <2>1 DEF MadeOK, RestOK, WishKept, WaitingIsSaid
  <2>6. QED  BY <2>2, <2>4, <2>5, PartsNext DEF OnScreen
<1>2. ASSUME ScreensIInv, ScreensNext PROVE ScreensIInv'
  <2>1. \/ FormMoves \/ PeopleMoves \/ UnseenMoves \/ AlbumMoves \/ WayMoves \/ OutsideMoves
    <3>1. ASSUME NEW r \in asked,
                 \/ WordsLoaded(r) \/ Derived(r) \/ InviteAnswered(r) \/ Revoked(r)
                 \/ PeopleLoaded(r) \/ PageRead(r)
          PROVE  FormMoves \/ PeopleMoves \/ UnseenMoves
      <4>1. WordsLoaded(r) \/ Derived(r) \/ (InviteAnswered(r) /\ Alive(r)) => FormMoves
        BY DEF FormMoves
      <4>2. Revoked(r) => PeopleMoves  BY DEF PeopleMoves
      <4>3. PeopleLoaded(r) /\ Alive(r) => PeopleMoves  BY DEF PeopleMoves
      <4>4. PageRead(r) /\ Alive(r) /\ r.log = log => PeopleMoves  BY DEF PeopleMoves
      <4>5. InviteAnswered(r) /\ ~Alive(r) => UnseenMoves  BY DEF UnseenMoves
      <4>6. PeopleLoaded(r) /\ ~Alive(r) => UnseenMoves  BY DEF UnseenMoves
      <4>7. PageRead(r) /\ ~(Alive(r) /\ r.log = log) => UnseenMoves  BY DEF UnseenMoves
      <4>8. QED  BY <3>1, <4>1, <4>2, <4>3, <4>4, <4>5, <4>6, <4>7
    <3>2. ASSUME NEW r \in asked,
                 \/ AlbumLoaded(r) \/ AlbumAnswered(r) \/ AlbumIsGone(r) \/ ThrowsOn(r) \/ AnswerFails(r)
          PROVE  UnseenMoves \/ AlbumMoves \/ WayMoves
      <4>1. AlbumLoaded(r) \/ AlbumAnswered(r) => AlbumMoves  BY DEF AlbumMoves
      <4>2. AlbumIsGone(r) /\ r.op = "load" /\ ~MayLeaveAlbum => AlbumMoves  BY DEF AlbumMoves
      <4>3. AlbumIsGone(r) /\ ~(r.op = "load" /\ ~MayLeaveAlbum) => WayMoves  BY DEF WayMoves
      <4>4. ThrowsOn(r) \/ AnswerFails(r) => UnseenMoves  BY DEF UnseenMoves
      <4>5. QED  BY <3>2, <4>1, <4>2, <4>3, <4>4
    <3>3. ChooseMode \/ CreateInvite \/ AskLeaveInvite => FormMoves  BY DEF FormMoves
    <3>4. AskRevoke \/ OpenLog \/ MoreLog \/ CloseLog => PeopleMoves  BY DEF PeopleMoves
    <3>5. ASSUME NEW next \in {"invite", "people"}, LeaveAlbumFor(next)
          PROVE  AlbumMoves \/ WayMoves
      BY <3>5 DEF AlbumMoves, WayMoves
    <3>6. LeaveAlbum \/ StayInAlbum \/ OverAlbum \/ LeaveAnyway \/ LeaveInvite \/ LeavePeople
            => AlbumMoves \/ WayMoves
      BY DEF AlbumMoves, WayMoves
    <3>7. ASSUME NEW a \in AlbumIds, OpenAlbum(a) \/ Vanishes(a)
          PROVE  WayMoves \/ OutsideMoves
      BY <3>7 DEF WayMoves, OutsideMoves
    <3>8. RetryScreens => UnseenMoves  BY DEF UnseenMoves
    <3>9. SessionOver \/ SignsInAgain => OutsideMoves  BY DEF OutsideMoves
    <3>10. QED
      BY <1>2, <3>1, <3>2, <3>3, <3>4, <3>5, <3>6, <3>7, <3>8, <3>9 DEF ScreensNext
  <2>2. QED
    BY <1>2, <2>1, NextForm, NextPeople, NextUnseen, NextAlbum, NextWays, NextOutside
<1>3. QED  BY <1>1, <1>2

-----------------------------------------------------------------------------
(***************************************************************************)
(* What a session's screens promise.                                       *)
(***************************************************************************)

\* The invariant always holds.
LEMMA AlwaysScreensIInv == ScreensSpec => []ScreensIInv
<1>1. QED  BY InitScreensIInv, NextScreensIInv, PTL DEF ScreensSpec

\* The values every variable stays within.
THEOREM ScreensAreTyped == ScreensSpec => []ScreensTypeOK
<1>1. ScreensIInv => ScreensTypeOK  BY DEF ScreensIInv
<1>2. QED  BY <1>1, AlwaysScreensIInv, PTL

\* Whatever is answered late, the screen is that of the one child that is open,
\* and a screen that waits has something under way that will end the wait.
\* (closeAlbum, and the `screen` and `show` of each child)
THEOREM ScreenIsTheChilds == ScreensSpec => []OneScreenOpen
<1>1. ScreensIInv => OneScreenOpen
  BY DEF ScreensIInv, OneChild, SomethingBehind, WishKept, WaitingIsSaid, OneScreenOpen
<1>2. QED  BY <1>1, AlwaysScreensIInv, PTL

\* A step that leaves the owner where they are, or asks the question.
Stays == /\ shown'.kind = shown.kind /\ open' = open

\* The question is asked where an upload is on its way.
LEMMA Leaving ==
    ASSUME ScreensIInv, ScreensNext, ~HearsGone, shown'.kind \notin {"signin", "device-failed"}
    PROVE  /\ Occupied({"upload"}) /\ open'.album # open.album => shown.leaving
           /\ shown.at = "share" /\ open'.invite # open.invite => shown.leaving
           /\ shown.kind = "album" /\ shown'.kind # "album" /\ ~astray => shown'.kind = wish'
<1>0. ScreenShapeOK /\ WishKept /\ RequestsOK
  BY DEF ScreensIInv
<1>1. Occupied({"upload"}) => shown.kind = "album"
  BY AlbumIsShown DEF Occupied
<1>2. shown.at = "share" => shown.kind = "invite"
  BY <1>0 DEF ScreenShapeOK
<1>3. CASE shown'.kind = shown.kind /\ UNCHANGED open
  BY <1>3
<1>4. ASSUME NEW a \in AlbumIds, OpenAlbum(a) PROVE shown.kind = "albums"
  BY <1>4 DEF OpenAlbum, ListShown, On
<1>5. CASE shown.kind \notin {"album", "invite"}
  BY <1>1, <1>2, <1>5
<1>6. CASE LeaveAlbum /\ ~Occupied({"upload"})
  <2>1. /\ shown.kind = "album" /\ wish' = "albums" /\ Departs(afterLeave, asked) /\ ~shown.leaving
    BY <1>6 DEF LeaveAlbum, OnAlbum
  <2>2. ~astray => afterLeave = "none"  BY <1>0, <2>1 DEF WishKept
  <2>3. afterLeave = "none" => shown'.kind = "albums"
    BY <2>1 DEF Departs, BackToList, ListShown, On
  <2>4. QED  BY <1>2, <1>6, <2>1, <2>2, <2>3
<1>7. ASSUME NEW next \in {"invite", "people"}, LeaveAlbumFor(next), ~Occupied({"upload"})
      PROVE  /\ shown.kind = "album" /\ shown'.kind = wish'
  BY <1>7 DEF LeaveAlbumFor, OnAlbum, Departs, Enters, On
<1>8. CASE LeaveAnyway
  <2>1. /\ shown.kind = "album" /\ shown.leaving /\ Departs(afterLeave, asked) /\ wish' = wish
    BY <1>8 DEF LeaveAnyway
  <2>2. afterLeave \in {"none", "invite", "people"}
    BY <1>0 DEF WishKept, ScreensIInv, ScreensTypeOK
  <2>3. shown'.kind = IF afterLeave = "none" THEN "albums" ELSE afterLeave
    BY <2>1, <2>2 DEF Departs, Enters, BackToList, ListShown, On
  <2>4. QED  BY <1>0, <2>1, <2>3 DEF WishKept
<1>9. CASE LeaveInvite
  BY <1>1, <1>2, <1>9 DEF LeaveInvite, OnInvite
<1>10. ASSUME NEW r \in asked, AlbumIsGone(r) PROVE HearsGone
  <2>1. Gone(r)  BY <1>10 DEF AlbumIsGone
  <2>2. r \notin asked'
    <3>1. CASE asked' = asked \ {r}  BY <3>1
    <3>2. CASE BackToList(asked \ {r})  BY <3>2 DEF BackToList, Lasting
    <3>3. CASE r.op = "load" /\ MayLeaveAlbum /\ Departs(afterLeave, asked \ {r})
      <4>1. PICK to \in {"none", "invite", "people"} : afterLeave = to
        BY <1>0 DEF WishKept, ScreensIInv, ScreensTypeOK
      <4>2. CASE to = "none"
        BY <3>3, <4>1, <4>2 DEF Departs, BackToList, Lasting
      <4>3. CASE to \in {"invite", "people"}
        <5>1. Enters(to, shown.of, asked \ {r})  BY <3>3, <4>1, <4>3 DEF Departs
        <5>2. \A q \in asked' : q \in Lasting(asked \ {r}) \/ q.op \in {"people"}
          BY <4>3, <5>1 DEF Enters, Req
        <5>3. QED  BY <3>3, <5>2 DEF Lasting
      <4>4. QED  BY <4>2, <4>3
    <3>4. QED  BY <1>10, <3>1, <3>2, <3>3 DEF AlbumIsGone
  <2>3. QED  BY <2>1, <2>2 DEF HearsGone
<1>11. ASSUME NEW r \in asked,
              \/ WordsLoaded(r) \/ Derived(r) \/ InviteAnswered(r) \/ Revoked(r) \/ PeopleLoaded(r)
              \/ PageRead(r) \/ AlbumLoaded(r) \/ AlbumAnswered(r) \/ ThrowsOn(r) \/ AnswerFails(r)
       PROVE  Stays
  <2>1. \A at : [shown EXCEPT !.at = at].kind = shown.kind
    BY <1>0 DEF ScreenShapeOK
  <2>2. \A over : [shown EXCEPT !.over = over].kind = shown.kind
    BY <1>0 DEF ScreenShapeOK
  <2>3. QED
    <3>1. Form(shown, asked \ {r}) => Stays  BY DEF Form, Stays
    <3>2. \A at, q : Form([shown EXCEPT !.at = at], q) => Stays  BY <2>1 DEF Form, Stays
    <3>3. CASE WordsLoaded(r) \/ Derived(r) \/ InviteAnswered(r)
      BY <3>1, <3>2, <3>3 DEF WordsLoaded, Derived, InviteAnswered
    <3>4. CASE Revoked(r)
      <4>1. shown.kind = "people"
        BY <1>11, <3>4 DEF Revoked, ScreensIInv, AskedOnce
      <4>2. \A q : People(On("people", shown.of, "loading"), q) => Stays
        BY <4>1 DEF People, Stays, On
      <4>3. \A over, q : People([shown EXCEPT !.over = over], q) => Stays
        BY <2>2 DEF People, Stays
      <4>4. QED  BY <3>4, <4>2, <4>3 DEF Revoked
    <3>5. CASE PeopleLoaded(r)
      <4>1. Alive(r) => shown.kind = "people"
        BY <3>5 DEF PeopleLoaded, ScreensIInv, AskedOnce
      <4>2. QED  BY <3>5, <4>1 DEF PeopleLoaded, People, Stays, On
    <3>6. CASE PageRead(r)  BY <2>1, <3>6 DEF PageRead, People, Stays
    <3>7. CASE AlbumLoaded(r)  BY <2>1, <3>7 DEF AlbumLoaded, Calm, Stays
    <3>8. CASE AlbumAnswered(r)  BY <2>2, <3>8 DEF AlbumAnswered, Calm, Stays
    <3>9. CASE ThrowsOn(r) \/ AnswerFails(r)
      BY <3>9 DEF ThrowsOn, AnswerFails, place, Stays
    <3>10. QED  BY <1>11, <3>3, <3>4, <3>5, <3>6, <3>7, <3>8, <3>9
<1>12. ASSUME \/ StayInAlbum \/ OverAlbum
              \/ LeaveAlbum /\ Occupied({"upload"})
              \/ \E next \in {"invite", "people"} : LeaveAlbumFor(next) /\ Occupied({"upload"})
              \/ ChooseMode \/ CreateInvite \/ AskLeaveInvite \/ AskRevoke
              \/ MoreLog \/ RetryScreens \/ \E a \in AlbumIds : Vanishes(a)
       PROVE  Stays
  <2>1. \A at : [shown EXCEPT !.at = at].kind = shown.kind
    BY <1>0 DEF ScreenShapeOK
  <2>2. \A over : [shown EXCEPT !.over = over].kind = shown.kind
    BY <1>0 DEF ScreenShapeOK
  <2>3. \A leaving : [shown EXCEPT !.leaving = leaving].kind = shown.kind
    BY <1>0 DEF ScreenShapeOK
  <2>4. \A leaving : Asks(leaving) => Stays  BY <2>3 DEF Asks, Stays
  <2>5. \A at, q : Form([shown EXCEPT !.at = at], q) => Stays  BY <2>1 DEF Form, Stays
  <2>6. \A over, q : Form([shown EXCEPT !.over = over], q) => Stays  BY <2>2 DEF Form, Stays
  <2>7. \A over, q : People([shown EXCEPT !.over = over], q) => Stays
    BY <2>2 DEF People, Stays
  <2>8. CASE StayInAlbum \/ (LeaveAlbum /\ Occupied({"upload"}))
             \/ \E next \in {"invite", "people"} : LeaveAlbumFor(next) /\ Occupied({"upload"})
    BY <2>4, <2>8 DEF StayInAlbum, LeaveAlbum, LeaveAlbumFor
  <2>9. CASE OverAlbum  BY <2>2, <2>9 DEF OverAlbum, Calm, Stays
  <2>10. CASE ChooseMode  BY <2>6, <2>10 DEF ChooseMode
  <2>11. CASE CreateInvite  BY <2>5, <2>11 DEF CreateInvite
  <2>12. CASE AskLeaveInvite
    <3>1. shown' = [shown EXCEPT !.leaving = ~@] /\ UNCHANGED open
      BY <2>12 DEF AskLeaveInvite, Form
    <3>2. QED  BY <1>0, <3>1 DEF Stays, ScreenShapeOK
  <2>13. CASE AskRevoke  BY <2>7, <2>13 DEF AskRevoke
  <2>14. CASE MoreLog  BY <2>1, <2>14 DEF MoreLog, People, Stays
  <2>15. CASE RetryScreens \/ \E a \in AlbumIds : Vanishes(a)
    BY <2>15 DEF RetryScreens, Vanishes, place, Stays
  <2>16. QED
    BY <1>12, <2>8, <2>9, <2>10, <2>11, <2>12, <2>13, <2>14, <2>15
<1>13. CASE Stays  BY <1>3, <1>13 DEF Stays
<1>14. CASE \E next \in {"invite", "people"} : LeaveAlbumFor(next) /\ ~Occupied({"upload"})
  <2>1. shown.kind = "album" /\ shown'.kind = wish'  BY <1>7, <1>14
  <2>2. QED  BY <1>2, <1>14, <2>1
<1>15. OpenLog \/ CloseLog \/ LeavePeople \/ SignsInAgain => shown.kind \notin {"album", "invite"}
  BY DEF OpenLog, CloseLog, LeavePeople, OnPeople, SignsInAgain, SignedOut, On
<1>16. ~SessionOver  BY DEF SessionOver, SignedOut, On
<1>17. CASE shown.kind \in {"album", "invite"}
  <2>1. \/ LeaveAlbum /\ ~Occupied({"upload"})
        \/ LeaveAnyway \/ LeaveInvite
        \/ \E next \in {"invite", "people"} : LeaveAlbumFor(next) /\ ~Occupied({"upload"})
        \/ Stays
    <3>1. ~(\E a \in AlbumIds : OpenAlbum(a)) /\ ~SessionOver
          /\ ~OpenLog /\ ~CloseLog /\ ~LeavePeople /\ ~SignsInAgain
      BY <1>4, <1>15, <1>16, <1>17
    <3>2. \A r \in asked : ~AlbumIsGone(r)  BY <1>10
    <3>3. ASSUME NEW r \in asked,
                 \/ WordsLoaded(r) \/ Derived(r) \/ InviteAnswered(r) \/ Revoked(r) \/ PeopleLoaded(r)
                 \/ PageRead(r) \/ AlbumLoaded(r) \/ AlbumAnswered(r) \/ AlbumIsGone(r) \/ ThrowsOn(r)
                 \/ AnswerFails(r)
          PROVE  Stays
      <4>1. ~AlbumIsGone(r)  BY <3>2
      <4>2. \/ WordsLoaded(r) \/ Derived(r) \/ InviteAnswered(r) \/ Revoked(r) \/ PeopleLoaded(r)
            \/ PageRead(r) \/ AlbumLoaded(r) \/ AlbumAnswered(r) \/ ThrowsOn(r) \/ AnswerFails(r)
        BY <3>3, <4>1
      <4>3. QED  BY <1>11, <4>2
    <3>4. StayInAlbum \/ OverAlbum => Stays  BY <1>12
    <3>5. ChooseMode \/ CreateInvite \/ AskLeaveInvite \/ AskRevoke \/ MoreLog \/ RetryScreens => Stays
      BY <1>12
    <3>6. LeaveAlbum /\ Occupied({"upload"}) => Stays  BY <1>12
    <3>7. ASSUME NEW next \in {"invite", "people"}, LeaveAlbumFor(next), Occupied({"upload"})
          PROVE  Stays
      BY <1>12, <3>7
    <3>8. ASSUME NEW a \in AlbumIds, Vanishes(a) PROVE Stays  BY <1>12, <3>8
    <3>9. QED
      BY <3>1, <3>3, <3>4, <3>5, <3>6, <3>7, <3>8 DEF ScreensNext
  <2>2. QED  BY <1>6, <1>8, <1>9, <1>13, <1>14, <2>1
<1>18. QED  BY <1>5, <1>17

\* A photograph on its way and a link being shown are given up only by an
\* answer to the question, with the session, or with an album that is gone;
\* and from an album the owner comes where they last asked to go, unless an
\* album was closed under an open question.
\* (leaveAlbum, leaveAlbumFor, leaveInvite, stayInAlbum)
THEOREM OwnersLeaveAsAsked == ScreensSpec => LeavesAsAsked
<1>1. ScreensIInv /\ [ScreensNext]_screensVars =>
        [ \/ HearsGone \/ shown'.kind \in {"signin", "device-failed"}
          \/ /\ Occupied({"upload"}) /\ open'.album # open.album => shown.leaving
             /\ shown.at = "share" /\ open'.invite # open.invite => shown.leaving
             /\ shown.kind = "album" /\ shown'.kind # "album" /\ ~astray => shown'.kind = wish'
        ]_screensVars
  BY Leaving
<1>2. QED  BY <1>1, AlwaysScreensIInv, PTL DEF ScreensSpec, LeavesAsAsked
=============================================================================
