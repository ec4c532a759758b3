------------------------------ MODULE Device_proofs ------------------------------
(***************************************************************************)
(* What a device computes.  Its handles and keys, for any number of calls  *)
(* and failures of the device: none is left behind, none is freed under a  *)
(* caller, and each opens what was wrapped.  Its objects, for any sizes    *)
(* and plaintexts: the chunks of one cover it, and what is read was        *)
(* written.  A photograph prepared from any pieces a browser's encoder may *)
(* write is an image and nothing more, and one that is viewed stays in     *)
(* hand on any stage, at any levels of zoom.                               *)
(***************************************************************************)
EXTENDS Keys, Prepare, Gestures, FiniteSetTheorems, WellFoundedInduction, SequenceTheorems, TLAPS

USE DEF instance, answers, objects, vars

(***************************************************************************)
(* Numbers.                                                                *)
(***************************************************************************)
\* The least of a set of numbers.
LEMMA Least ==
    ASSUME NEW T \in SUBSET Nat, T # {}
    PROVE  \E n \in T : \A m \in T : n <= m
<1> DEFINE R == {ss \in Nat \X Nat : ss[1] < ss[2]}
<1>1. IsWellFoundedOn(R, Nat)
  BY NatLessThanWellFounded DEF OpToRel
<1>2. \A i, j \in Nat : <<i, j>> \in R <=> i < j
  OBVIOUS
<1> HIDE DEF R
<1>3. PICK n \in T : \A m \in T : ~(<<m, n>> \in R)
  BY <1>1, WFMin
<1>4. \A m \in T : m \in Nat /\ n \in Nat /\ ~(m < n)
  BY <1>2, <1>3
<1> QED  BY <1>4

\* The least element is one, and least.
LEMMA MinIs ==
    ASSUME NEW T \in SUBSET Nat, T # {}
    PROVE  Min(T) \in T /\ \A n \in T : Min(T) <= n
<1>1. \E n \in T : \A m \in T : n <= m  BY Least
<1> QED  BY <1>1 DEF Min

\* A set of numbers that has 0, and the successor of each of its own, has them all.
LEMMA Induction ==
    ASSUME NEW S, 0 \in S, \A n \in Nat \cap S : n + 1 \in S
    PROVE  Nat \subseteq S
<1> DEFINE T == {n \in Nat : n \notin S}
<1>1. SUFFICES ASSUME T # {} PROVE FALSE
  OBVIOUS
<1>2. PICK n \in T : \A m \in T : n <= m
  <2>1. T \in SUBSET Nat  OBVIOUS
  <2> HIDE DEF T
  <2> QED  BY <1>1, <2>1, Least
<1>3. n \in Nat /\ n \notin S /\ n # 0  OBVIOUS
<1>4. n - 1 \in Nat /\ (n - 1) + 1 = n /\ ~(n <= n - 1)  BY <1>3
<1>5. n - 1 \in S  BY <1>2, <1>4
<1> QED  BY <1>3, <1>4, <1>5

(***************************************************************************)
(* The functions.  What is alive in each of them, call by call, is a table *)
(* that every program is compared with.                                    *)
(***************************************************************************)
\* The variables whose handles are alive before each call of a function, and
\* at its end.
LiveAt ==
    [createAccountKeys |-> <<{}, {"master"}, {"master", "params"},
                             {"master", "params", "credential"},
                             {"master", "params", "credential"}, {"master", "params", "kek"},
                             {"master", "params", "kek", "wrapped"},
                             {"master", "params", "kek", "wrapped"}, {"master", "params", "kek"}>>,
     openAlbumKey |-> <<{}, {}, {"wrapped"}, {"wrapped", "albumKey"}>>,
     deriveLoginCredential |-> <<{}, {}, {}, {"params"}, {"params", "credential"},
                                 {"params", "credential"}, {"params", "kek"}>>,
     openMasterKey |-> <<{}, {}, {"wrapped"}, {"wrapped", "master"}>>,
     unlockMasterKey |-> <<{}, {}, {"wrapped"}, {"wrapped"}, {"wrapped", "params"},
                           {"wrapped", "params", "credential"}, {"wrapped", "params", "kek"},
                           {"wrapped", "params", "kek", "master"}>>,
     createAlbumKey |-> <<{}, {"albumKey"}, {"albumKey", "wrapped"}, {"albumKey", "wrapped"}>>,
     createQrInvite |-> <<{}, {}, {"inviteKey"}, {"inviteKey", "wrapped"},
                          {"inviteKey", "wrapped"}, {"inviteKey", "wrapped"}>>,
     createPassphraseInvite |-> <<{}, {}, {}, {"params"}, {"params", "wrapped"},
                                  {"params", "wrapped"}, {"params"}, {}>>,
     openInviteKey |-> <<{}, {}, {"invite"}, {"invite", "wrapped"},
                         {"invite", "wrapped", "albumKey"}>>,
     openPassphraseKey |-> <<{}, {}, {}, {"params"}, {"params", "wrapped"},
                             {"params", "wrapped", "albumKey"}>>]

Alive(f, k) == LiveAt[f][k]

\* The variable a call assigns, and the one whose handle it ends.
NewName(step) == IF step[2] # "" /\ step[1] # "free" THEN {step[2]} ELSE {}

Spent(step) ==
    IF step[1] = "intoKek" THEN {"credential"}
    ELSE IF step[1] = "free" THEN {step[2]} ELSE {}

\* The functions that open a key, and the ones that derive one from a secret and a row.
Openers ==
    {"unlockMasterKey", "openMasterKey", "openAlbumKey", "openInviteKey", "openPassphraseKey"}

Derivers == {"unlockMasterKey", "deriveLoginCredential", "openPassphraseKey"}

\* Which functions make a call, where it matters.
Belongs(f, op) ==
    /\ op \in Opening => f \in Openers
    /\ op = "ceiling" => f \in Derivers
    /\ op = "deriveOwnerCredential" =>
         f \in {"createAccountKeys", "deriveLoginCredential", "unlockMasterKey"}
    /\ op = "unwrapAlbumKey" => f = "openPassphraseKey"
    /\ op = "fromBytes" => f = "openInviteKey"
    /\ op = "wordlist" => f = "createPassphraseInvite"
    /\ op \in Inviting \cup {"await"} => f \in {"createQrInvite", "createPassphraseInvite"}

\* What a call makes of what is alive before it.
Turns(step, before, after) ==
    /\ after = (before \ Spent(step)) \cup NewName(step)
    /\ Spent(step) \subseteq before
    /\ step[1] \in Outside => step[2] = ""
    /\ step[2] # "given"
    /\ "given" \notin before

InOrder(f, p, k) ==
    /\ Turns(p.try[k], Alive(f, k), Alive(f, k + 1))
    /\ Belongs(f, p.try[k][1])

\* An error at any call finds every living handle in the `catch` or the `finally`.
Closes(f, p, k) == Alive(f, k) \subseteq p.catch \cup p.finally

\* What is alive at the end and not freed is handed over.
HandsOver(f, p, end) ==
    /\ Alive(f, 1) = {}
    /\ p.gives \subseteq Alive(f, end)
    /\ Alive(f, end) \ p.finally = p.gives
    /\ "given" \notin Alive(f, end)

\* A function frees what it holds, however it ends.
Balanced(f, p) ==
    /\ Len(p.try) \in Nat
    /\ Len(p.try) > 0
    /\ DOMAIN p.try = 1..Len(p.try)
    /\ \A k \in 1..Len(p.try) : InOrder(f, p, k)
    /\ \A k \in 1..Len(p.try) : Closes(f, p, k)
    /\ HandsOver(f, p, Len(p.try) + 1)

\* Call by call, what each function frees when it ends is what it holds by then,
\* and what it hands over is never freed (owner-open.ts, open.ts).
LEMMA CreateAccountKeysBalanced == Balanced("createAccountKeys", createAccountKeys)
<1>1. Len(createAccountKeys.try) = 8 /\ DOMAIN createAccountKeys.try = 1..8
  BY DEF createAccountKeys
<1>2. \A k \in 1..8 : InOrder("createAccountKeys", createAccountKeys, k)
  <2>1. InOrder("createAccountKeys", createAccountKeys, 1)
    BY DEF InOrder, Turns, NewName, Spent, Outside, Belongs, Opening, Inviting, Openers, Derivers, Alive,
           LiveAt, createAccountKeys
  <2>2. InOrder("createAccountKeys", createAccountKeys, 2)
    BY DEF InOrder, Turns, NewName, Spent, Outside, Belongs, Opening, Inviting, Openers, Derivers, Alive,
           LiveAt, createAccountKeys
  <2>3. InOrder("createAccountKeys", createAccountKeys, 3)
    BY DEF InOrder, Turns, NewName, Spent, Outside, Belongs, Opening, Inviting, Openers, Derivers, Alive,
           LiveAt, createAccountKeys
  <2>4. InOrder("createAccountKeys", createAccountKeys, 4)
    BY DEF InOrder, Turns, NewName, Spent, Outside, Belongs, Opening, Inviting, Openers, Derivers, Alive,
           LiveAt, createAccountKeys
  <2>5. InOrder("createAccountKeys", createAccountKeys, 5)
    BY DEF InOrder, Turns, NewName, Spent, Outside, Belongs, Opening, Inviting, Openers, Derivers, Alive,
           LiveAt, createAccountKeys
  <2>6. InOrder("createAccountKeys", createAccountKeys, 6)
    BY DEF InOrder, Turns, NewName, Spent, Outside, Belongs, Opening, Inviting, Openers, Derivers, Alive,
           LiveAt, createAccountKeys
  <2>7. InOrder("createAccountKeys", createAccountKeys, 7)
    BY DEF InOrder, Turns, NewName, Spent, Outside, Belongs, Opening, Inviting, Openers, Derivers, Alive,
           LiveAt, createAccountKeys
  <2>8. InOrder("createAccountKeys", createAccountKeys, 8)
    BY DEF InOrder, Turns, NewName, Spent, Outside, Belongs, Opening, Inviting, Openers, Derivers, Alive,
           LiveAt, createAccountKeys
  <2>9. QED
    BY <2>1, <2>2, <2>3, <2>4, <2>5, <2>6, <2>7, <2>8
<1>3. \A k \in 1..8 : Closes("createAccountKeys", createAccountKeys, k)
  BY DEF Closes, Alive, LiveAt, createAccountKeys
<1>4. HandsOver("createAccountKeys", createAccountKeys, 9)
  BY DEF HandsOver, Alive, LiveAt, createAccountKeys
<1>5. QED
  BY <1>1, <1>2, <1>3, <1>4 DEF Balanced

\* So does openAlbumKey.
LEMMA OpenAlbumKeyBalanced == Balanced("openAlbumKey", openAlbumKey)
<1>1. Len(openAlbumKey.try) = 3 /\ DOMAIN openAlbumKey.try = 1..3
  BY DEF openAlbumKey
<1>2. \A k \in 1..3 : InOrder("openAlbumKey", openAlbumKey, k)
  <2>1. InOrder("openAlbumKey", openAlbumKey, 1)
    BY DEF InOrder, Turns, NewName, Spent, Outside, Belongs, Opening, Inviting, Openers, Derivers, Alive,
           LiveAt, openAlbumKey
  <2>2. InOrder("openAlbumKey", openAlbumKey, 2)
    BY DEF InOrder, Turns, NewName, Spent, Outside, Belongs, Opening, Inviting, Openers, Derivers, Alive,
           LiveAt, openAlbumKey
  <2>3. InOrder("openAlbumKey", openAlbumKey, 3)
    BY DEF InOrder, Turns, NewName, Spent, Outside, Belongs, Opening, Inviting, Openers, Derivers, Alive,
           LiveAt, openAlbumKey
  <2>4. QED
    BY <2>1, <2>2, <2>3
<1>3. \A k \in 1..3 : Closes("openAlbumKey", openAlbumKey, k)
  BY DEF Closes, Alive, LiveAt, openAlbumKey
<1>4. HandsOver("openAlbumKey", openAlbumKey, 4)
  BY DEF HandsOver, Alive, LiveAt, openAlbumKey
<1>5. QED
  BY <1>1, <1>2, <1>3, <1>4 DEF Balanced

\* deriveLoginCredential.
LEMMA DeriveLoginCredentialBalanced == Balanced("deriveLoginCredential", deriveLoginCredential)
<1>1. Len(deriveLoginCredential.try) = 6 /\ DOMAIN deriveLoginCredential.try = 1..6
  BY DEF deriveLoginCredential
<1>2. \A k \in 1..6 : InOrder("deriveLoginCredential", deriveLoginCredential, k)
  <2>1. InOrder("deriveLoginCredential", deriveLoginCredential, 1)
    BY DEF InOrder, Turns, NewName, Spent, Outside, Belongs, Opening, Inviting, Openers, Derivers, Alive,
           LiveAt, deriveLoginCredential
  <2>2. InOrder("deriveLoginCredential", deriveLoginCredential, 2)
    BY DEF InOrder, Turns, NewName, Spent, Outside, Belongs, Opening, Inviting, Openers, Derivers, Alive,
           LiveAt, deriveLoginCredential
  <2>3. InOrder("deriveLoginCredential", deriveLoginCredential, 3)
    BY DEF InOrder, Turns, NewName, Spent, Outside, Belongs, Opening, Inviting, Openers, Derivers, Alive,
           LiveAt, deriveLoginCredential
  <2>4. InOrder("deriveLoginCredential", deriveLoginCredential, 4)
    BY DEF InOrder, Turns, NewName, Spent, Outside, Belongs, Opening, Inviting, Openers, Derivers, Alive,
           LiveAt, deriveLoginCredential
  <2>5. InOrder("deriveLoginCredential", deriveLoginCredential, 5)
    BY DEF InOrder, Turns, NewName, Spent, Outside, Belongs, Opening, Inviting, Openers, Derivers, Alive,
           LiveAt, deriveLoginCredential
  <2>6. InOrder("deriveLoginCredential", deriveLoginCredential, 6)
    BY DEF InOrder, Turns, NewName, Spent, Outside, Belongs, Opening, Inviting, Openers, Derivers, Alive,
           LiveAt, deriveLoginCredential
  <2>7. QED
    BY <2>1, <2>2, <2>3, <2>4, <2>5, <2>6
<1>3. \A k \in 1..6 : Closes("deriveLoginCredential", deriveLoginCredential, k)
  BY DEF Closes, Alive, LiveAt, deriveLoginCredential
<1>4. HandsOver("deriveLoginCredential", deriveLoginCredential, 7)
  BY DEF HandsOver, Alive, LiveAt, deriveLoginCredential
<1>5. QED
  BY <1>1, <1>2, <1>3, <1>4 DEF Balanced

\* openMasterKey, which never frees its caller's handle.
LEMMA OpenMasterKeyBalanced == Balanced("openMasterKey", openMasterKey)
<1>1. Len(openMasterKey.try) = 3 /\ DOMAIN openMasterKey.try = 1..3
  BY DEF openMasterKey
<1>2. \A k \in 1..3 : InOrder("openMasterKey", openMasterKey, k)
  <2>1. InOrder("openMasterKey", openMasterKey, 1)
    BY DEF InOrder, Turns, NewName, Spent, Outside, Belongs, Opening, Inviting, Openers, Derivers, Alive,
           LiveAt, openMasterKey
  <2>2. InOrder("openMasterKey", openMasterKey, 2)
    BY DEF InOrder, Turns, NewName, Spent, Outside, Belongs, Opening, Inviting, Openers, Derivers, Alive,
           LiveAt, openMasterKey
  <2>3. InOrder("openMasterKey", openMasterKey, 3)
    BY DEF InOrder, Turns, NewName, Spent, Outside, Belongs, Opening, Inviting, Openers, Derivers, Alive,
           LiveAt, openMasterKey
  <2>4. QED
    BY <2>1, <2>2, <2>3
<1>3. \A k \in 1..3 : Closes("openMasterKey", openMasterKey, k)
  BY DEF Closes, Alive, LiveAt, openMasterKey
<1>4. HandsOver("openMasterKey", openMasterKey, 4)
  BY DEF HandsOver, Alive, LiveAt, openMasterKey
<1>5. QED
  BY <1>1, <1>2, <1>3, <1>4 DEF Balanced

\* unlockMasterKey.
LEMMA UnlockMasterKeyBalanced == Balanced("unlockMasterKey", unlockMasterKey)
<1>1. Len(unlockMasterKey.try) = 7 /\ DOMAIN unlockMasterKey.try = 1..7
  BY DEF unlockMasterKey
<1>2. \A k \in 1..7 : InOrder("unlockMasterKey", unlockMasterKey, k)
  <2>1. InOrder("unlockMasterKey", unlockMasterKey, 1)
    BY DEF InOrder, Turns, NewName, Spent, Outside, Belongs, Opening, Inviting, Openers, Derivers, Alive,
           LiveAt, unlockMasterKey
  <2>2. InOrder("unlockMasterKey", unlockMasterKey, 2)
    BY DEF InOrder, Turns, NewName, Spent, Outside, Belongs, Opening, Inviting, Openers, Derivers, Alive,
           LiveAt, unlockMasterKey
  <2>3. InOrder("unlockMasterKey", unlockMasterKey, 3)
    BY DEF InOrder, Turns, NewName, Spent, Outside, Belongs, Opening, Inviting, Openers, Derivers, Alive,
           LiveAt, unlockMasterKey
  <2>4. InOrder("unlockMasterKey", unlockMasterKey, 4)
    BY DEF InOrder, Turns, NewName, Spent, Outside, Belongs, Opening, Inviting, Openers, Derivers, Alive,
           LiveAt, unlockMasterKey
  <2>5. InOrder("unlockMasterKey", unlockMasterKey, 5)
    BY DEF InOrder, Turns, NewName, Spent, Outside, Belongs, Opening, Inviting, Openers, Derivers, Alive,
           LiveAt, unlockMasterKey
  <2>6. InOrder("unlockMasterKey", unlockMasterKey, 6)
    BY DEF InOrder, Turns, NewName, Spent, Outside, Belongs, Opening, Inviting, Openers, Derivers, Alive,
           LiveAt, unlockMasterKey
  <2>7. InOrder("unlockMasterKey", unlockMasterKey, 7)
    BY DEF InOrder, Turns, NewName, Spent, Outside, Belongs, Opening, Inviting, Openers, Derivers, Alive,
           LiveAt, unlockMasterKey
  <2>8. QED
    BY <2>1, <2>2, <2>3, <2>4, <2>5, <2>6, <2>7
<1>3. \A k \in 1..7 : Closes("unlockMasterKey", unlockMasterKey, k)
  BY DEF Closes, Alive, LiveAt, unlockMasterKey
<1>4. HandsOver("unlockMasterKey", unlockMasterKey, 8)
  BY DEF HandsOver, Alive, LiveAt, unlockMasterKey
<1>5. QED
  BY <1>1, <1>2, <1>3, <1>4 DEF Balanced

\* createAlbumKey.
LEMMA CreateAlbumKeyBalanced == Balanced("createAlbumKey", createAlbumKey)
<1>1. Len(createAlbumKey.try) = 3 /\ DOMAIN createAlbumKey.try = 1..3
  BY DEF createAlbumKey
<1>2. \A k \in 1..3 : InOrder("createAlbumKey", createAlbumKey, k)
  <2>1. InOrder("createAlbumKey", createAlbumKey, 1)
    BY DEF InOrder, Turns, NewName, Spent, Outside, Belongs, Opening, Inviting, Openers, Derivers, Alive,
           LiveAt, createAlbumKey
  <2>2. InOrder("createAlbumKey", createAlbumKey, 2)
    BY DEF InOrder, Turns, NewName, Spent, Outside, Belongs, Opening, Inviting, Openers, Derivers, Alive,
           LiveAt, createAlbumKey
  <2>3. InOrder("createAlbumKey", createAlbumKey, 3)
    BY DEF InOrder, Turns, NewName, Spent, Outside, Belongs, Opening, Inviting, Openers, Derivers, Alive,
           LiveAt, createAlbumKey
  <2>4. QED
    BY <2>1, <2>2, <2>3
<1>3. \A k \in 1..3 : Closes("createAlbumKey", createAlbumKey, k)
  BY DEF Closes, Alive, LiveAt, createAlbumKey
<1>4. HandsOver("createAlbumKey", createAlbumKey, 4)
  BY DEF HandsOver, Alive, LiveAt, createAlbumKey
<1>5. QED
  BY <1>1, <1>2, <1>3, <1>4 DEF Balanced

\* createQrInvite.
LEMMA CreateQrInviteBalanced == Balanced("createQrInvite", createQrInvite)
<1>1. Len(createQrInvite.try) = 5 /\ DOMAIN createQrInvite.try = 1..5
  BY DEF createQrInvite
<1>2. \A k \in 1..5 : InOrder("createQrInvite", createQrInvite, k)
  <2>1. InOrder("createQrInvite", createQrInvite, 1)
    BY DEF InOrder, Turns, NewName, Spent, Outside, Belongs, Opening, Inviting, Openers, Derivers, Alive,
           LiveAt, createQrInvite
  <2>2. InOrder("createQrInvite", createQrInvite, 2)
    BY DEF InOrder, Turns, NewName, Spent, Outside, Belongs, Opening, Inviting, Openers, Derivers, Alive,
           LiveAt, createQrInvite
  <2>3. InOrder("createQrInvite", createQrInvite, 3)
    BY DEF InOrder, Turns, NewName, Spent, Outside, Belongs, Opening, Inviting, Openers, Derivers, Alive,
           LiveAt, createQrInvite
  <2>4. InOrder("createQrInvite", createQrInvite, 4)
    BY DEF InOrder, Turns, NewName, Spent, Outside, Belongs, Opening, Inviting, Openers, Derivers, Alive,
           LiveAt, createQrInvite
  <2>5. InOrder("createQrInvite", createQrInvite, 5)
    BY DEF InOrder, Turns, NewName, Spent, Outside, Belongs, Opening, Inviting, Openers, Derivers, Alive,
           LiveAt, createQrInvite
  <2>6. QED
    BY <2>1, <2>2, <2>3, <2>4, <2>5
<1>3. \A k \in 1..5 : Closes("createQrInvite", createQrInvite, k)
  BY DEF Closes, Alive, LiveAt, createQrInvite
<1>4. HandsOver("createQrInvite", createQrInvite, 6)
  BY DEF HandsOver, Alive, LiveAt, createQrInvite
<1>5. QED
  BY <1>1, <1>2, <1>3, <1>4 DEF Balanced

\* createPassphraseInvite.
LEMMA CreatePassphraseInviteBalanced == Balanced("createPassphraseInvite", createPassphraseInvite)
<1>1. Len(createPassphraseInvite.try) = 7 /\ DOMAIN createPassphraseInvite.try = 1..7
  BY DEF createPassphraseInvite
<1>2. \A k \in 1..7 : InOrder("createPassphraseInvite", createPassphraseInvite, k)
  <2>1. InOrder("createPassphraseInvite", createPassphraseInvite, 1)
    BY DEF InOrder, Turns, NewName, Spent, Outside, Belongs, Opening, Inviting, Openers, Derivers, Alive,
           LiveAt, createPassphraseInvite
  <2>2. InOrder("createPassphraseInvite", createPassphraseInvite, 2)
    BY DEF InOrder, Turns, NewName, Spent, Outside, Belongs, Opening, Inviting, Openers, Derivers, Alive,
           LiveAt, createPassphraseInvite
  <2>3. InOrder("createPassphraseInvite", createPassphraseInvite, 3)
    BY DEF InOrder, Turns, NewName, Spent, Outside, Belongs, Opening, Inviting, Openers, Derivers, Alive,
           LiveAt, createPassphraseInvite
  <2>4. InOrder("createPassphraseInvite", createPassphraseInvite, 4)
    BY DEF InOrder, Turns, NewName, Spent, Outside, Belongs, Opening, Inviting, Openers, Derivers, Alive,
           LiveAt, createPassphraseInvite
  <2>5. InOrder("createPassphraseInvite", createPassphraseInvite, 5)
    BY DEF InOrder, Turns, NewName, Spent, Outside, Belongs, Opening, Inviting, Openers, Derivers, Alive,
           LiveAt, createPassphraseInvite
  <2>6. InOrder("createPassphraseInvite", createPassphraseInvite, 6)
    BY DEF InOrder, Turns, NewName, Spent, Outside, Belongs, Opening, Inviting, Openers, Derivers, Alive,
           LiveAt, createPassphraseInvite
  <2>7. InOrder("createPassphraseInvite", createPassphraseInvite, 7)
    BY DEF InOrder, Turns, NewName, Spent, Outside, Belongs, Opening, Inviting, Openers, Derivers, Alive,
           LiveAt, createPassphraseInvite
  <2>8. QED
    BY <2>1, <2>2, <2>3, <2>4, <2>5, <2>6, <2>7
<1>3. \A k \in 1..7 : Closes("createPassphraseInvite", createPassphraseInvite, k)
  BY DEF Closes, Alive, LiveAt, createPassphraseInvite
<1>4. HandsOver("createPassphraseInvite", createPassphraseInvite, 8)
  BY DEF HandsOver, Alive, LiveAt, createPassphraseInvite
<1>5. QED
  BY <1>1, <1>2, <1>3, <1>4 DEF Balanced

\* openInviteKey.
LEMMA OpenInviteKeyBalanced == Balanced("openInviteKey", openInviteKey)
<1>1. Len(openInviteKey.try) = 4 /\ DOMAIN openInviteKey.try = 1..4
  BY DEF openInviteKey
<1>2. \A k \in 1..4 : InOrder("openInviteKey", openInviteKey, k)
  <2>1. InOrder("openInviteKey", openInviteKey, 1)
    BY DEF InOrder, Turns, NewName, Spent, Outside, Belongs, Opening, Inviting, Openers, Derivers, Alive,
           LiveAt, openInviteKey
  <2>2. InOrder("openInviteKey", openInviteKey, 2)
    BY DEF InOrder, Turns, NewName, Spent, Outside, Belongs, Opening, Inviting, Openers, Derivers, Alive,
           LiveAt, openInviteKey
  <2>3. InOrder("openInviteKey", openInviteKey, 3)
    BY DEF InOrder, Turns, NewName, Spent, Outside, Belongs, Opening, Inviting, Openers, Derivers, Alive,
           LiveAt, openInviteKey
  <2>4. InOrder("openInviteKey", openInviteKey, 4)
    BY DEF InOrder, Turns, NewName, Spent, Outside, Belongs, Opening, Inviting, Openers, Derivers, Alive,
           LiveAt, openInviteKey
  <2>5. QED
    BY <2>1, <2>2, <2>3, <2>4
<1>3. \A k \in 1..4 : Closes("openInviteKey", openInviteKey, k)
  BY DEF Closes, Alive, LiveAt, openInviteKey
<1>4. HandsOver("openInviteKey", openInviteKey, 5)
  BY DEF HandsOver, Alive, LiveAt, openInviteKey
<1>5. QED
  BY <1>1, <1>2, <1>3, <1>4 DEF Balanced

\* And openPassphraseKey.
LEMMA OpenPassphraseKeyBalanced == Balanced("openPassphraseKey", openPassphraseKey)
<1>1. Len(openPassphraseKey.try) = 5 /\ DOMAIN openPassphraseKey.try = 1..5
  BY DEF openPassphraseKey
<1>2. \A k \in 1..5 : InOrder("openPassphraseKey", openPassphraseKey, k)
  <2>1. InOrder("openPassphraseKey", openPassphraseKey, 1)
    BY DEF InOrder, Turns, NewName, Spent, Outside, Belongs, Opening, Inviting, Openers, Derivers, Alive,
           LiveAt, openPassphraseKey
  <2>2. InOrder("openPassphraseKey", openPassphraseKey, 2)
    BY DEF InOrder, Turns, NewName, Spent, Outside, Belongs, Opening, Inviting, Openers, Derivers, Alive,
           LiveAt, openPassphraseKey
  <2>3. InOrder("openPassphraseKey", openPassphraseKey, 3)
    BY DEF InOrder, Turns, NewName, Spent, Outside, Belongs, Opening, Inviting, Openers, Derivers, Alive,
           LiveAt, openPassphraseKey
  <2>4. InOrder("openPassphraseKey", openPassphraseKey, 4)
    BY DEF InOrder, Turns, NewName, Spent, Outside, Belongs, Opening, Inviting, Openers, Derivers, Alive,
           LiveAt, openPassphraseKey
  <2>5. InOrder("openPassphraseKey", openPassphraseKey, 5)
    BY DEF InOrder, Turns, NewName, Spent, Outside, Belongs, Opening, Inviting, Openers, Derivers, Alive,
           LiveAt, openPassphraseKey
  <2>6. QED
    BY <2>1, <2>2, <2>3, <2>4, <2>5
<1>3. \A k \in 1..5 : Closes("openPassphraseKey", openPassphraseKey, k)
  BY DEF Closes, Alive, LiveAt, openPassphraseKey
<1>4. HandsOver("openPassphraseKey", openPassphraseKey, 6)
  BY DEF HandsOver, Alive, LiveAt, openPassphraseKey
<1>5. QED
  BY <1>1, <1>2, <1>3, <1>4 DEF Balanced

\* Every function of the device is balanced.
LEMMA ProgramsBalanced ==
    ASSUME NEW f \in DOMAIN Program
    PROVE  Balanced(f, Program[f])
<1>1. CASE f = "createAccountKeys"
  BY <1>1, CreateAccountKeysBalanced DEF Program
<1>2. CASE f = "openAlbumKey"
  BY <1>2, OpenAlbumKeyBalanced DEF Program
<1>3. CASE f = "deriveLoginCredential"
  BY <1>3, DeriveLoginCredentialBalanced DEF Program
<1>4. CASE f = "openMasterKey"
  BY <1>4, OpenMasterKeyBalanced DEF Program
<1>5. CASE f = "unlockMasterKey"
  BY <1>5, UnlockMasterKeyBalanced DEF Program
<1>6. CASE f = "createAlbumKey"
  BY <1>6, CreateAlbumKeyBalanced DEF Program
<1>7. CASE f = "createQrInvite"
  BY <1>7, CreateQrInviteBalanced DEF Program
<1>8. CASE f = "createPassphraseInvite"
  BY <1>8, CreatePassphraseInviteBalanced DEF Program
<1>9. CASE f = "openInviteKey"
  BY <1>9, OpenInviteKeyBalanced DEF Program
<1>10. CASE f = "openPassphraseKey"
  BY <1>10, OpenPassphraseKeyBalanced DEF Program
<1>11. QED
  BY <1>1, <1>2, <1>3, <1>4, <1>5, <1>6, <1>7, <1>8, <1>9, <1>10 DEF Program

-----------------------------------------------------------------------------
(***************************************************************************)
(* The inductive invariant of the handles.                                 *)
(***************************************************************************)
Fields == {"f", "n", "at", "error", "failed", "has", "row", "word", "arg", "link"}

\* A call that is under way, at one of its function's calls or past the last.
Busy(c) ==
    /\ DOMAIN c = Fields
    /\ c.f \in DOMAIN Program
    /\ c.n = calls
    /\ c.at \in 1..(Len(Program[c.f].try) + 1)
    /\ c.error # "ok" => c.at <= Len(Program[c.f].try)

\* What a variable names: its own handle, or, in openMasterKey, its caller's.
Names(c) ==
    /\ \A v \in DOMAIN c.has : v # "given" => c.has[v] = <<c.n, v>>
    /\ "given" \in DOMAIN c.has => c.f = "openMasterKey" /\ c.has["given"] \in DOMAIN keys
    /\ Alive(c.f, c.at) \subseteq DOMAIN c.has

\* The handles of its own that are alive.
Own(c) == {<<c.n, v>> : v \in Alive(c.f, c.at)}

\* A handle is numbered by the call that made it.
OlderThan(n) == \A h \in DOMAIN keys : h[1] \in Nat /\ h[1] < n

Between == call = None => OlderThan(calls + 1) /\ (~poisoned => live = DOMAIN keys)

During ==
    call # None =>
        /\ Busy(call)
        /\ Names(call)
        /\ OlderThan(calls)
        /\ ~poisoned => live = DOMAIN keys \cup Own(call)

IInv == calls \in Nat /\ Between /\ During

\* Two calls that have been given the same.
SameAsk(c, d) ==
    d.f = c.f /\ d.row = c.row /\ d.word = c.word /\ d.arg = c.arg /\ d.link = c.link

\* An error changes nothing else of a call.
LEMMA KeepsField ==
    ASSUME NEW c, DOMAIN c = Fields, NEW e, NEW d
    PROVE  LET x == [c EXCEPT !.error = e, !.failed = c.failed \/ d]
           IN  /\ DOMAIN x = Fields
               /\ x.error = e
               /\ x.f = c.f
               /\ x.n = c.n
               /\ x.at = c.at
               /\ x.has = c.has
BY DEF Fields

\* Nor does going on to the next call.
LEMMA KeepsFieldOn ==
    ASSUME NEW c, DOMAIN c = Fields, NEW has
    PROVE  LET x == [c EXCEPT !.at = c.at + 1, !.has = has]
           IN  /\ DOMAIN x = Fields
               /\ x.error = c.error
               /\ x.f = c.f
               /\ x.n = c.n
               /\ x.at = c.at + 1
               /\ x.has = has
               /\ x.failed = c.failed
               /\ SameAsk(c, x)
BY DEF Fields, SameAsk

\* Nothing is alive at first.
LEMMA InitIInv == Init => IInv
BY DEF Init, IInv, Between, During, OlderThan

\* A function that is called holds nothing yet.
LEMMA CallIInv ==
    ASSUME IInv, NEW f \in DOMAIN Program, Call(f)
    PROVE  IInv'
<1>1. PICK g \in Given(f) :
         call' = [f |-> f, n |-> calls + 1, at |-> 1, error |-> "ok", failed |-> FALSE,
                  has |-> IF f = "openMasterKey" THEN [v \in {"given"} |-> g.arg] ELSE <<>>,
                  row |-> g.row, word |-> g.word, arg |-> g.arg, link |-> g.link]
  BY DEF Call
<1>2. /\ calls' = calls + 1
      /\ calls \in Nat
      /\ call = None
      /\ live' = live
      /\ poisoned' = poisoned
      /\ keys' = keys
  BY DEF Call, IInv
<1>3. f # "none"
  BY DEF Program
<1>4. call' # None
  BY <1>1, <1>3 DEF None
<1>5. /\ call'.f = f
      /\ call'.n = calls'
      /\ call'.at = 1
      /\ call'.error = "ok"
      /\ DOMAIN call' = Fields
  BY <1>1, <1>2 DEF Fields
<1>6. Balanced(f, Program[f])
  BY ProgramsBalanced
<1>7. /\ Alive(f, 1) = {}
      /\ Len(Program[f].try) \in Nat
  BY <1>6 DEF Balanced, HandsOver
<1>8. Busy(call)'
  BY <1>5, <1>7 DEF Busy
<1>9. f = "openMasterKey" => g.arg \in DOMAIN keys
  BY DEF Given, Owned
<1>10. \A v \in DOMAIN call'.has : v = "given" /\ f = "openMasterKey" /\ call'.has[v] \in DOMAIN keys
  BY <1>1, <1>9
<1>11. Names(call)'
  BY <1>2, <1>5, <1>7, <1>10 DEF Names
<1>12. OlderThan(calls)'
  BY <1>2 DEF IInv, Between, OlderThan
<1>13. Own(call)' = {}
  BY <1>5, <1>7 DEF Own
<1>14. ~poisoned' => live' = DOMAIN keys'
  BY <1>2 DEF IInv, Between
<1>15. QED
  BY <1>2, <1>4, <1>8, <1>11, <1>12, <1>13, <1>14 DEF IInv, Between, During

\* An error leaves the handles and the variables as they are.
LEMMA ThrowsIInv ==
    ASSUME IInv, Running, NEW e, NEW d, Throws(e, d), e # "ok",
           live' = live, keys' = keys, calls' = calls, poisoned => poisoned'
    PROVE  IInv'
<1>1. /\ call # None
      /\ Busy(call)
      /\ Names(call)
      /\ OlderThan(calls)
      /\ ~poisoned => live = DOMAIN keys \cup Own(call)
      /\ calls \in Nat
  BY DEF IInv, During, Running
<1>2. call' = [call EXCEPT !.error = e, !.failed = call.failed \/ d]
  BY DEF Throws
<1>3. /\ DOMAIN call' = Fields
      /\ call'.error = e
      /\ call'.f = call.f
      /\ call'.n = call.n
      /\ call'.at = call.at
      /\ call'.has = call.has
  BY <1>1, <1>2, KeepsField DEF Busy
<1>4. Busy(call)'
  BY <1>1, <1>3 DEF Busy, Running
<1>5. Names(call)'
  BY <1>1, <1>3 DEF Names
<1>6. Own(call)' = Own(call)
  BY <1>3 DEF Own
<1>7. call' # None
  BY <1>3 DEF None, Fields
<1>8. QED
  BY <1>1, <1>4, <1>5, <1>6, <1>7 DEF IInv, Between, During, OlderThan

\* Nothing the invariant reads of a call changes but that the instance traps.
LEMMA TrappedIInv ==
    ASSUME IInv, live' = live, keys' = keys, calls' = calls, call' = call, poisoned => poisoned'
    PROVE  IInv'
BY DEF IInv, Between, During, OlderThan, Busy, Names, Own

\* A failure of the device is an error like any other.
LEMMA DeviceFailsIInv ==
    ASSUME IInv, DeviceFails
    PROVE  IInv'
<1>1. live' = live /\ keys' = keys /\ calls' = calls /\ Running /\ ~poisoned
  BY DEF DeviceFails
<1>2. CASE Throws("EnvelopeUnavailable", TRUE)
  BY <1>1, <1>2, ThrowsIInv
<1>3. ASSUME NEW error \in DeviceError(Doing[1]), Throws(error, TRUE)
      PROVE  IInv'
  <2>1. error # "ok"
    BY <1>3 DEF DeviceError
  <2>2. QED
    BY <1>1, <1>3, <2>1, ThrowsIInv
<1>4. QED
  BY <1>2, <1>3 DEF DeviceFails

\* After a trap nothing is claimed of what is alive.
LEMMA TrapsElsewhereIInv ==
    ASSUME IInv, TrapsElsewhere
    PROVE  IInv'
BY TrappedIInv DEF TrapsElsewhere

\* A call that is passed assigns its variable, and ends what it consumes.
LEMMA StepIInv ==
    ASSUME IInv, Step
    PROVE  IInv'
<1> DEFINE op  == Doing[1]
           v   == Doing[2]
           new == IF v # "" /\ op # "free" THEN {v} ELSE {}
           has == [w \in DOMAIN call.has \cup new |->
                     IF w \in new THEN <<call.n, w>> ELSE call.has[w]]
<1>1. /\ keys' = keys
      /\ calls' = calls
      /\ poisoned' = poisoned
      /\ Running
  BY DEF Step
<1>2. CASE live' = live /\ Throws("EnvelopeUnavailable", TRUE)
  BY <1>1, <1>2, ThrowsIInv
<1>3. CASE live' = live /\ Error(call, op) # "ok" /\ Throws(Error(call, op), FALSE)
  <2> HIDE DEF op
  <2>1. QED
    BY <1>1, <1>3, ThrowsIInv
<1>4. CASE /\ live' = (live \ Ends(op, v)) \cup {<<call.n, w>> : w \in new}
           /\ call' = [call EXCEPT !.at = call.at + 1, !.has = has]
  <2>1. /\ call # None
        /\ Busy(call)
        /\ Names(call)
        /\ OlderThan(calls)
        /\ ~poisoned => live = DOMAIN keys \cup Own(call)
        /\ calls \in Nat
        /\ call.error = "ok"
        /\ call.at <= Len(Program[call.f].try)
    BY <1>1 DEF IInv, During, Running
  <2> HIDE DEF op, v, new, has
  <2>2. /\ DOMAIN call' = Fields
        /\ call'.error = call.error
        /\ call'.f = call.f
        /\ call'.n = call.n
        /\ call'.at = call.at + 1
        /\ call'.has = has
    BY <1>4, <2>1, KeepsFieldOn DEF Busy
  <2>3. Balanced(call.f, Program[call.f])
    BY <2>1, ProgramsBalanced DEF Busy
  <2>4. /\ Turns(Doing, Alive(call.f, call.at), Alive(call.f, call.at + 1))
        /\ call.at \in Nat
        /\ Len(Program[call.f].try) \in Nat
    BY <2>1, <2>3 DEF Balanced, InOrder, Busy, Doing
  <2>5. Busy(call)'
    <3>1. call'.at \in 1..(Len(Program[call'.f].try) + 1)
      BY <2>1, <2>2, <2>4
    <3>2. QED
      BY <1>1, <2>1, <2>2, <3>1 DEF Busy
  <2>6. call' # None
    BY <2>2 DEF None, Fields
  <2>7. /\ Alive(call.f, call.at + 1) = (Alive(call.f, call.at) \ Spent(Doing)) \cup NewName(Doing)
        /\ Spent(Doing) \subseteq Alive(call.f, call.at)
        /\ v # "given"
        /\ "given" \notin Alive(call.f, call.at)
    BY <2>4 DEF Turns, v
  <2>8. new = NewName(Doing) /\ new \subseteq {v}
    BY DEF NewName, new, op, v
  <2>9. Ends(op, v) = {<<call.n, w>> : w \in Spent(Doing)}
    <3>1. \A w \in Spent(Doing) : call.has[w] = <<call.n, w>>
      BY <2>1, <2>7 DEF Names
    <3>2. Ends(op, v) = {call.has[w] : w \in Spent(Doing)}
      BY DEF Ends, Spent, op, v
    <3>3. QED
      BY <3>1, <3>2
  <2>10. /\ DOMAIN has = DOMAIN call.has \cup NewName(Doing)
         /\ \A w \in DOMAIN has :
              \/ w \in NewName(Doing) /\ has[w] = <<call.n, w>>
              \/ w \in DOMAIN call.has /\ has[w] = call.has[w]
    BY <2>8 DEF has
  <2>11. Names(call)'
    <3>1. \A w \in DOMAIN call'.has : w # "given" => call'.has[w] = <<call'.n, w>>
      BY <2>1, <2>2, <2>10 DEF Names
    <3>2. "given" \in DOMAIN call'.has
            => call'.f = "openMasterKey" /\ call'.has["given"] \in DOMAIN keys'
      BY <1>1, <2>1, <2>2, <2>7, <2>8, <2>10 DEF Names
    <3>3. Alive(call'.f, call'.at) \subseteq DOMAIN call'.has
      BY <2>1, <2>2, <2>7, <2>10 DEF Names
    <3>4. QED
      BY <3>1, <3>2, <3>3 DEF Names
  <2>12. ~poisoned => live' = DOMAIN keys \cup Own(call)'
    <3>1. \A w \in Spent(Doing) : <<call.n, w>> \notin DOMAIN keys
      BY <2>1 DEF OlderThan, Busy
    <3>2. Own(call)' = (Own(call) \ Ends(op, v)) \cup {<<call.n, w>> : w \in new}
      BY <2>2, <2>7, <2>8, <2>9 DEF Own
    <3>3. Ends(op, v) \cap DOMAIN keys = {}
      BY <2>9, <3>1
    <3>4. QED
      BY <1>4, <2>1, <3>2, <3>3
  <2>13. QED
    BY <1>1, <2>1, <2>5, <2>6, <2>11, <2>12 DEF IInv, Between, During, OlderThan
<1>5. QED
  BY <1>2, <1>3, <1>4 DEF Step

\* At the end what is alive is freed or handed over, and older handles stay.
LEMMA ReturnsIInv ==
    ASSUME IInv, Returns
    PROVE  IInv'
<1> DEFINE p     == Program[call.f]
           ok    == call.error = "ok"
           freed == {call.has[v] : v \in Frees(p) \cap DOMAIN call.has}
           given == IF ok THEN p.gives ELSE {}
           kept  == DOMAIN keys \ freed
           hands == {call.has[v] : v \in given}
<1>1. /\ live' = IF poisoned THEN live ELSE live \ freed
      /\ DOMAIN keys' = kept \cup hands
      /\ call' = None
      /\ calls' = calls
      /\ poisoned' = poisoned
      /\ call # None
      /\ ~Running
  BY DEF Returns
<1>2. /\ Busy(call)
      /\ Names(call)
      /\ OlderThan(calls)
      /\ ~poisoned => live = DOMAIN keys \cup Own(call)
      /\ calls \in Nat
  BY <1>1 DEF IInv, During
<1>3. Balanced(call.f, p)
  BY <1>2, ProgramsBalanced DEF Busy
<1>4. /\ Len(p.try) \in Nat
      /\ call.at \in 1..(Len(p.try) + 1)
      /\ ok => call.at = Len(p.try) + 1
      /\ ~ok => call.at \in 1..Len(p.try)
  BY <1>1, <1>2, <1>3 DEF Busy, Balanced, Running
<1> HIDE DEF p
<1>5. given \subseteq Alive(call.f, call.at)
  BY <1>3, <1>4 DEF Balanced, HandsOver
<1>6. Alive(call.f, call.at) \ Frees(p) = given
  <2>1. CASE ok
    BY <1>3, <1>4, <2>1 DEF Balanced, HandsOver, Frees
  <2>2. CASE ~ok
    <3>1. Alive(call.f, call.at) \subseteq p.catch \cup p.finally
      BY <1>3, <1>4, <2>2 DEF Balanced, Closes
    <3>2. QED
      BY <2>2, <3>1 DEF Frees
  <2>3. QED
    BY <2>1, <2>2
<1>7. "given" \notin Alive(call.f, call.at)
  BY <1>3, <1>4 DEF Balanced, HandsOver, InOrder, Turns
<1> HIDE DEF given, ok
<1>8. hands = {<<call.n, v>> : v \in given}
  <2>1. \A v \in given : call.has[v] = <<call.n, v>>
    BY <1>2, <1>5, <1>7 DEF Names
  <2>2. QED
    BY <2>1
<1>9. \A v : <<call.n, v>> \notin DOMAIN keys
  BY <1>2 DEF OlderThan, Busy
<1>10. \A v : <<call.n, v>> \in freed <=> v \in (Frees(p) \cap DOMAIN call.has) \ {"given"}
  <2>1. TAKE v
  <2>2. ASSUME v \in (Frees(p) \cap DOMAIN call.has) \ {"given"}
        PROVE  <<call.n, v>> \in freed
    BY <1>2, <2>2 DEF Names
  <2>3. ASSUME <<call.n, v>> \in freed
        PROVE  v \in (Frees(p) \cap DOMAIN call.has) \ {"given"}
    <3>1. PICK w \in Frees(p) \cap DOMAIN call.has : call.has[w] = <<call.n, v>>
      BY <2>3
    <3>2. w # "given"
      BY <1>2, <1>9, <3>1 DEF Names
    <3>3. QED
      BY <1>2, <3>1, <3>2 DEF Names
  <2>4. QED
    BY <2>2, <2>3
<1>11. Own(call) \ freed = hands
  <2>1. \A v \in Alive(call.f, call.at) : v \in DOMAIN call.has
    BY <1>2 DEF Names
  <2>2. QED
    BY <1>6, <1>7, <1>8, <1>10, <2>1 DEF Own
<1>12. ~poisoned' => live' = DOMAIN keys'
  <2> HIDE DEF freed, hands
  <2>1. QED
    BY <1>1, <1>2, <1>11
<1>13. OlderThan(calls + 1)'
  <2> HIDE DEF freed
  <2>1. \A h \in hands : h[1] \in Nat /\ h[1] < calls + 1
    BY <1>2, <1>8 DEF Busy
  <2>2. \A h \in kept : h[1] \in Nat /\ h[1] < calls + 1
    BY <1>2 DEF OlderThan
  <2> HIDE DEF kept, hands
  <2>3. QED
    BY <1>1, <2>1, <2>2 DEF OlderThan
<1>14. QED
  BY <1>1, <1>2, <1>12, <1>13 DEF IInv, Between, During

\* What awaits is an invitation, and it has not reached for the album's key yet.
LEMMA AwaitsFirst ==
    ASSUME IInv, Running, Doing[1] = "await"
    PROVE  /\ call.f \in {"createQrInvite", "createPassphraseInvite"}
           /\ \A k \in 1..(call.at - 1) : Program[call.f].try[k][1] = "wordlist"
<1>1. Busy(call) /\ call.at \in 1..Len(Program[call.f].try)
  <2>1. Busy(call)  BY DEF IInv, During, Running
  <2>2. Balanced(call.f, Program[call.f])  BY <2>1, ProgramsBalanced DEF Busy
  <2>3. QED  BY <2>1, <2>2 DEF Busy, Balanced, Running
<1>2. call.f \in {"createQrInvite", "createPassphraseInvite"}
  <2>1. Balanced(call.f, Program[call.f])  BY <1>1, ProgramsBalanced DEF Busy
  <2>2. Belongs(call.f, "await")  BY <1>1, <2>1 DEF Balanced, InOrder, Doing
  <2>3. QED  BY <2>2 DEF Belongs
<1>3. CASE call.f = "createQrInvite"
  <2>1. Program[call.f] = createQrInvite  BY <1>3 DEF Program
  <2>2. Len(createQrInvite.try) = 5 /\ \A k \in 2..5 : createQrInvite.try[k][1] # "await"
    BY DEF createQrInvite
  <2>3. call.at = 1  BY <1>1, <2>1, <2>2 DEF Doing
  <2>4. QED  BY <1>2, <2>3
<1>4. CASE call.f = "createPassphraseInvite"
  <2>1. Program[call.f] = createPassphraseInvite  BY <1>4 DEF Program
  <2>2. /\ Len(createPassphraseInvite.try) = 7
        /\ \A k \in 3..7 : createPassphraseInvite.try[k][1] # "await"
        /\ createPassphraseInvite.try[1][1] = "wordlist"
    BY DEF createPassphraseInvite
  <2>3. call.at \in 1..2  BY <1>1, <2>1, <2>2 DEF Doing
  <2>4. QED  BY <1>2, <2>1, <2>2, <2>3
<1>5. QED  BY <1>2, <1>3, <1>4

\* A caller gives up a handle it holds.
LEMMA ReleaseIInv ==
    ASSUME IInv, NEW h \in DOMAIN keys, Release(h)
    PROVE  IInv'
<1>1. /\ DOMAIN keys' = DOMAIN keys \ {h}
      /\ live' = IF poisoned THEN live ELSE live \ {h}
      /\ call' = call /\ calls' = calls /\ poisoned' = poisoned
  BY DEF Release
<1>2. CASE call = None
  BY <1>1, <1>2 DEF IInv, Between, During, OlderThan
<1>3. CASE call # None /\ Running /\ Doing[1] = "await"
  <2>1. Busy(call) /\ Names(call) /\ OlderThan(calls)
        /\ (~poisoned => live = DOMAIN keys \cup Own(call))
    BY <1>3 DEF IInv, During
  <2>2. Busy(call)' /\ Own(call)' = Own(call)
    BY <1>1, <2>1 DEF Busy, Own
  <2>3. Names(call)'
    BY <1>1, <1>3, <2>1, AwaitsFirst DEF Names
  <2>4. OlderThan(calls)'
    BY <1>1, <2>1 DEF OlderThan
  <2>5. h \notin Own(call)
    BY <1>1, <2>1 DEF Own, OlderThan, Busy
  <2>6. QED
    BY <1>1, <1>3, <2>1, <2>2, <2>3, <2>4, <2>5 DEF IInv, Between, During
<1>4. QED
  BY <1>2, <1>3 DEF Release

\* Writing and reading objects leave the handles alone.
LEMMA ObjectIInv ==
    ASSUME IInv, NEW h, NEW use, NEW id, NEW plain,
           Write(h, use, id, plain) \/ Read(h, use, id)
    PROVE  IInv'
BY TrappedIInv DEF Write, Read

\* Every step keeps the handles exact.
LEMMA NextIInv == IInv /\ [Next]_vars => IInv'
<1>1. SUFFICES ASSUME IInv, [Next]_vars
               PROVE  IInv'
  OBVIOUS
<1>2. CASE UNCHANGED vars
  BY <1>1, <1>2, TrappedIInv
<1>3. ASSUME NEW f \in DOMAIN Program, Call(f)
      PROVE  IInv'
  BY <1>1, <1>3, CallIInv
<1>4. CASE Step
  BY <1>1, <1>4, StepIInv
<1>5. CASE DeviceFails
  BY <1>1, <1>5, DeviceFailsIInv
<1>6. CASE TrapsElsewhere
  BY <1>1, <1>6, TrapsElsewhereIInv
<1>7. CASE Returns
  BY <1>1, <1>7, ReturnsIInv
<1>8. ASSUME NEW h \in DOMAIN keys, Release(h)
      PROVE  IInv'
  BY <1>1, <1>8, ReleaseIInv
<1>9. ASSUME NEW h \in DOMAIN keys, NEW use \in Uses, NEW id \in Ids, NEW plain \in Plaintexts,
             Write(h, use, id, plain)
      PROVE  IInv'
  BY <1>1, <1>9, ObjectIInv
<1>10. ASSUME NEW h \in DOMAIN keys, NEW use \in Uses, NEW id \in Ids, Read(h, use, id)
       PROVE  IInv'
  BY <1>1, <1>10, ObjectIInv
<1>11. QED
  BY <1>1, <1>2, <1>3, <1>4, <1>5, <1>6, <1>7, <1>8, <1>9, <1>10 DEF Next

\* However a function ends, the handles alive in the instance are the ones its
\* callers hold.
\* (owner-open.ts, open.ts: every `try`, `catch` and `finally`)
THEOREM HandlesAreExact == Spec => []HandlesExact
<1>1. Init => IInv
  BY InitIInv
<1>2. IInv /\ [Next]_vars => IInv'
  BY NextIInv
<1>3. IInv => HandlesExact
  BY DEF IInv, Between, HandlesExact
<1>4. QED
  BY <1>1, <1>2, <1>3, PTL DEF Spec

-----------------------------------------------------------------------------
(***************************************************************************)
(* What the rows hold, and what a call has been given.                     *)
(***************************************************************************)
RowLabel(r) ==
    CASE r.f = "createAccountKeys"      -> "master"
      [] r.f = "createAlbumKey"         -> "album"
      [] r.f = "createQrInvite"         -> "invite"
      [] r.f = "createPassphraseInvite" -> "wrap"

\* The key a row is wrapped under, by the secret it was made with.
RowKek(r) ==
    IF r.f \in {"createAccountKeys", "createPassphraseInvite"} THEN OwnerKek(r.secret, r.salt)
    ELSE r.secret

\* No row was made with a secret that its opening refuses.
Typable(r) ==
    /\ r.f \in {"createAccountKeys", "createPassphraseInvite"} => r.secret \notin {"", "!"}
    /\ r.f = "createQrInvite" => r.secret = Minted(r.n, "invite")
    /\ r.f = "createAlbumKey" => Purpose(r.secret) = "master"
    /\ r.f = "createAccountKeys" => r.id = 0

RowFields == {"f", "n", "id", "salt", "harm", "secret", "key", "wrap"}

\* A row as it was made.
WholeRow(r) ==
    /\ DOMAIN r = RowFields
    /\ r.harm = "none"
    /\ r.f \in {"createAccountKeys", "createAlbumKey", "createQrInvite", "createPassphraseInvite"}
    /\ Typable(r)
    /\ r.wrap = Wrap(RowLabel(r), r.id, RowKek(r), r.n, r.key)

\* A row as a function gets it, whatever came to it.
Fetched(f, q) ==
    /\ q.f = Maker[f]
    /\ q.harm \in {"none", "text", "bytes", "id"}
                   \cup (IF f \in Derivers THEN {"heavy", "zero"} ELSE {})
    /\ Typable(q)
    /\ q.wrap.plain = q.key
    /\ q.harm = "bytes" => q.wrap.key = <<"none">>
    /\ q.harm = "id" => q.wrap.aad # <<RowLabel(q), q.id>>
    /\ q.harm \notin {"bytes", "id"} =>
         /\ q.wrap.aad = <<RowLabel(q), q.id>>
         /\ q.wrap.key = RowKek(q)

\* A call was given what a caller may have.
AsAsked(c) ==
    /\ c.f \in DOMAIN Maker => Fetched(c.f, c.row)
    /\ c.f \notin DOMAIN Maker => c.row = NoRow
    /\ c.f = "createPassphraseInvite" => c.word \in {"a", ""}
    /\ c.f \in {"openAlbumKey", "createAlbumKey"} =>
         c.arg \in DOMAIN keys /\ Purpose(keys[c.arg]) = "master"
    /\ c.f = "openMasterKey" => c.arg \in DOMAIN keys /\ Purpose(keys[c.arg]) = "kek"
    /\ c.f = "openInviteKey" => c.link = <<>> \/ c.link[1] = "invite"

\* No call that was passed objects to what it was given.
Passed(c) == \A k \in 1..(c.at - 1) : Error(c, Program[c.f].try[k][1]) = "ok"

DeviceErrors == {"EnvelopeUnavailable", "RandomnessUnavailable", "HashingFailed"}

\* An error is the device's, or what the call in hand says of what it was given.
Deserved(c) ==
    /\ c.error = "ok" => c.failed = FALSE
    /\ c.error # "ok" =>
         \/ c.failed = TRUE /\ c.error \in DeviceErrors
         \/ c.failed = FALSE /\ c.error = Error(c, Program[c.f].try[c.at][1])

Answered == OpensWhatWasWrapped /\ BlameIsDeserved

RowsWhole == \A r \in rows : WholeRow(r)

Asking == call # None => AsAsked(call) /\ Passed(call) /\ Deserved(call)

KInv == RowsWhole /\ Asking /\ Answered

\* A function makes a call.
Does(f, op) == \E k \in 1..Len(Program[f].try) : Program[f].try[k][1] = op

\* What each function that opens a row asks of the row on its way.
LEMMA WhatIsDone ==
    /\ Does("unlockMasterKey", "decode")
    /\ Does("unlockMasterKey", "ceiling")
    /\ Does("unlockMasterKey", "WrapParams")
    /\ Does("unlockMasterKey", "unwrapMasterKey")
    /\ Does("openMasterKey", "decode")
    /\ Does("openMasterKey", "unwrapMasterKey")
    /\ Does("openAlbumKey", "decode")
    /\ Does("openAlbumKey", "unwrapAlbumKeyWithMaster")
    /\ Does("openInviteKey", "decode")
    /\ Does("openInviteKey", "unwrapAlbumKeyWithInvite")
    /\ Does("openPassphraseKey", "decode")
    /\ Does("openPassphraseKey", "ceiling")
    /\ Does("openPassphraseKey", "WrapParams")
    /\ Does("openPassphraseKey", "unwrapAlbumKey")
    /\ Does("createAccountKeys", "deriveOwnerCredential")
    /\ Does("createPassphraseInvite", "wordlist")
<1>1. /\ Does("unlockMasterKey", "decode")
      /\ Does("unlockMasterKey", "ceiling")
      /\ Does("unlockMasterKey", "WrapParams")
      /\ Does("unlockMasterKey", "unwrapMasterKey")
  <2>1. /\ Program["unlockMasterKey"] = unlockMasterKey
        /\ Len(unlockMasterKey.try) = 7
        /\ unlockMasterKey.try[1][1] = "decode"
        /\ unlockMasterKey.try[3][1] = "ceiling"
        /\ unlockMasterKey.try[4][1] = "WrapParams"
        /\ unlockMasterKey.try[7][1] = "unwrapMasterKey"
    BY DEF Program, unlockMasterKey
  <2>2. QED
    BY <2>1 DEF Does
<1>2. /\ Does("openMasterKey", "decode")
      /\ Does("openMasterKey", "unwrapMasterKey")
  <2>1. /\ Program["openMasterKey"] = openMasterKey
        /\ Len(openMasterKey.try) = 3
        /\ openMasterKey.try[1][1] = "decode"
        /\ openMasterKey.try[3][1] = "unwrapMasterKey"
    BY DEF Program, openMasterKey
  <2>2. QED
    BY <2>1 DEF Does
<1>3. /\ Does("openAlbumKey", "decode")
      /\ Does("openAlbumKey", "unwrapAlbumKeyWithMaster")
  <2>1. /\ Program["openAlbumKey"] = openAlbumKey
        /\ Len(openAlbumKey.try) = 3
        /\ openAlbumKey.try[1][1] = "decode"
        /\ openAlbumKey.try[3][1] = "unwrapAlbumKeyWithMaster"
    BY DEF Program, openAlbumKey
  <2>2. QED
    BY <2>1 DEF Does
<1>4. /\ Does("openInviteKey", "decode")
      /\ Does("openInviteKey", "unwrapAlbumKeyWithInvite")
  <2>1. /\ Program["openInviteKey"] = openInviteKey
        /\ Len(openInviteKey.try) = 4
        /\ openInviteKey.try[1][1] = "decode"
        /\ openInviteKey.try[4][1] = "unwrapAlbumKeyWithInvite"
    BY DEF Program, openInviteKey
  <2>2. QED
    BY <2>1 DEF Does
<1>5. /\ Does("openPassphraseKey", "decode")
      /\ Does("openPassphraseKey", "ceiling")
      /\ Does("openPassphraseKey", "WrapParams")
      /\ Does("openPassphraseKey", "unwrapAlbumKey")
  <2>1. /\ Program["openPassphraseKey"] = openPassphraseKey
        /\ Len(openPassphraseKey.try) = 5
        /\ openPassphraseKey.try[1][1] = "decode"
        /\ openPassphraseKey.try[2][1] = "ceiling"
        /\ openPassphraseKey.try[3][1] = "WrapParams"
        /\ openPassphraseKey.try[5][1] = "unwrapAlbumKey"
    BY DEF Program, openPassphraseKey
  <2>2. QED
    BY <2>1 DEF Does
<1>6. /\ Does("createAccountKeys", "deriveOwnerCredential")
  <2>1. /\ Program["createAccountKeys"] = createAccountKeys
        /\ Len(createAccountKeys.try) = 8
        /\ createAccountKeys.try[3][1] = "deriveOwnerCredential"
    BY DEF Program, createAccountKeys
  <2>2. QED
    BY <2>1 DEF Does
<1>7. /\ Does("createPassphraseInvite", "wordlist")
  <2>1. /\ Program["createPassphraseInvite"] = createPassphraseInvite
        /\ Len(createPassphraseInvite.try) = 7
        /\ createPassphraseInvite.try[1][1] = "wordlist"
    BY DEF Program, createPassphraseInvite
  <2>2. QED
    BY <2>1 DEF Does
<1>8. QED
  BY <1>1, <1>2, <1>3, <1>4, <1>5, <1>6, <1>7

\* A call objects to what it was given, and to nothing else.
LEMMA SameErrors ==
    ASSUME NEW c, NEW d, NEW op, d.f = c.f, d.row = c.row, d.word = c.word,
           d.arg = c.arg, d.link = c.link
    PROVE  Error(d, op) = Error(c, op)
BY DEF Error, Opened

\* Unwrapping asks for the label, the id and the key of the wrap.
LEMMA UnwrapIsFit ==
    ASSUME NEW f, NEW q, Fetched(f, q), NEW kek, kek # <<"none">>, NEW u,
           u = Unwrap(RowLabel(q), q.id, kek, q.wrap)
    PROVE  /\ u.ok \in BOOLEAN
           /\ u.ok <=> q.harm \notin {"bytes", "id"} /\ kek = RowKek(q)
           /\ u.ok => u.value = q.key
           /\ ~u.ok => u.code = "AuthenticationFailed"
<1>1. CASE q.harm = "bytes"
  BY <1>1 DEF Unwrap, Ok, Err, Fetched
<1>2. CASE q.harm = "id"
  BY <1>2 DEF Unwrap, Ok, Err, Fetched
<1>3. CASE q.harm \notin {"bytes", "id"}
  BY <1>3 DEF Unwrap, Ok, Err, Fetched
<1>4. QED
  BY <1>1, <1>2, <1>3

\* Which function made the rows that another opens.
LEMMA Makers ==
    /\ DOMAIN Maker = Openers \cup {"deriveLoginCredential"}
    /\ Maker["unlockMasterKey"] = "createAccountKeys"
    /\ Maker["openMasterKey"] = "createAccountKeys"
    /\ Maker["deriveLoginCredential"] = "createAccountKeys"
    /\ Maker["openAlbumKey"] = "createAlbumKey"
    /\ Maker["openInviteKey"] = "createQrInvite"
    /\ Maker["openPassphraseKey"] = "createPassphraseInvite"
BY DEF Maker, Openers

\* What a function that opens a key makes of a row: the key that was wrapped,
\* for whoever has the secret, if the row's ciphertext and id are its own.
LEMMA OpenedIsFit ==
    ASSUME NEW c, Opens(c), AsAsked(c), NEW t, t.f = c.f, t.row = c.row, t.word = c.word,
           t.link = c.link, t.arg = IF c.arg \in DOMAIN keys THEN keys[c.arg] ELSE <<>>
    PROVE  /\ Fits(t) => Opened(c).ok
           /\ Opened(c).ok /\ c.row.harm \notin {"text", "heavy", "zero"} => Fits(t)
           /\ Opened(c).ok => Opened(c).value = c.row.key
           /\ ~Opened(c).ok => Opened(c).code = "AuthenticationFailed"
<1> DEFINE q == c.row
<1>1. Fetched(c.f, q) /\ q.f = Maker[c.f]
  BY DEF Opens, AsAsked, Maker, Fetched
<1>2. q.harm \in {"none", "text", "bytes", "id", "heavy", "zero"}
  BY <1>1 DEF Fetched
<1>3. ASSUME NEW kek, kek # <<"none">>, Opened(c) = Unwrap(RowLabel(q), q.id, kek, q.wrap),
             Fits(t) <=> q.harm = "none" /\ kek = RowKek(q)
      PROVE  /\ Fits(t) => Opened(c).ok
             /\ Opened(c).ok /\ q.harm \notin {"text", "heavy", "zero"} => Fits(t)
             /\ Opened(c).ok => Opened(c).value = q.key
             /\ ~Opened(c).ok => Opened(c).code = "AuthenticationFailed"
  <2> HIDE DEF q
  <2>1. QED
    BY <1>1, <1>2, <1>3, UnwrapIsFit
<1>4. CASE c.f = "unlockMasterKey"
  <2> DEFINE kek == OwnerKek(c.word, q.salt)
  <2>1. q.f = "createAccountKeys" /\ q.id = 0
    BY <1>1, <1>4, Makers DEF Fetched, Typable
  <2>2. Opened(c) = Unwrap(RowLabel(q), q.id, kek, q.wrap)
    BY <1>4, <2>1 DEF Opened, RowLabel
  <2>3. kek # <<"none">>
    BY <1>4 DEF OwnerKek
  <2>4. kek = RowKek(q) <=> c.word = q.secret
    BY <1>1, <2>1 DEF RowKek, OwnerKek
  <2>5. Fits(t) <=> q.harm = "none" /\ c.word = q.secret
    BY <1>4 DEF Fits
  <2> HIDE DEF kek
  <2>6. Fits(t) <=> q.harm = "none" /\ kek = RowKek(q)
    BY <2>4, <2>5
  <2>7. QED
    BY <1>3, <2>2, <2>3, <2>6
<1>5. CASE c.f = "openMasterKey"
  <2> DEFINE kek == keys[c.arg]
  <2>1. q.f = "createAccountKeys" /\ q.id = 0
    BY <1>1, <1>5, Makers DEF Fetched, Typable
  <2>2. Opened(c) = Unwrap(RowLabel(q), q.id, kek, q.wrap)
    BY <1>5, <2>1 DEF Opened, RowLabel
  <2>3. kek # <<"none">>
    BY <1>5 DEF AsAsked, Purpose
  <2>4. kek = RowKek(q) <=> keys[c.arg] = OwnerKek(q.secret, q.salt)
    BY <1>1, <2>1 DEF RowKek
  <2>5. Fits(t) <=> q.harm = "none" /\ keys[c.arg] = OwnerKek(q.secret, q.salt)
    BY <1>5, <2>1 DEF Fits, AsAsked
  <2> HIDE DEF kek
  <2>6. Fits(t) <=> q.harm = "none" /\ kek = RowKek(q)
    BY <2>4, <2>5
  <2>7. QED
    BY <1>3, <2>2, <2>3, <2>6
<1>6. CASE c.f = "openAlbumKey"
  <2> DEFINE kek == keys[c.arg]
  <2>1. q.f = "createAlbumKey"
    BY <1>1, <1>6, Makers DEF Fetched, Typable
  <2>2. Opened(c) = Unwrap(RowLabel(q), q.id, kek, q.wrap)
    BY <1>6, <2>1 DEF Opened, RowLabel
  <2>3. kek # <<"none">>
    BY <1>6 DEF AsAsked, Purpose
  <2>4. kek = RowKek(q) <=> keys[c.arg] = q.secret
    BY <1>1, <2>1 DEF RowKek
  <2>5. Fits(t) <=> q.harm = "none" /\ keys[c.arg] = q.secret
    BY <1>6, <2>1 DEF Fits, AsAsked
  <2> HIDE DEF kek
  <2>6. Fits(t) <=> q.harm = "none" /\ kek = RowKek(q)
    BY <2>4, <2>5
  <2>7. QED
    BY <1>3, <2>2, <2>3, <2>6
<1>7. CASE c.f = "openInviteKey"
  <2> DEFINE kek == c.link
  <2>1. q.f = "createQrInvite"
    BY <1>1, <1>7, Makers DEF Fetched, Typable
  <2>2. Opened(c) = Unwrap(RowLabel(q), q.id, kek, q.wrap)
    BY <1>7, <2>1 DEF Opened, RowLabel
  <2>3. kek # <<"none">>
    <3>1. c.link = <<>> \/ c.link[1] = "invite"
      BY <1>7 DEF AsAsked
    <3>2. <<>> # <<"none">> /\ <<"none">>[1] # "invite"
      OBVIOUS
    <3>3. QED
      BY <3>1, <3>2
  <2>4. kek = RowKek(q) <=> c.link = q.secret
    BY <1>1, <2>1 DEF RowKek
  <2>5. Fits(t) <=> q.harm = "none" /\ c.link = q.secret
    BY <1>7 DEF Fits
  <2> HIDE DEF kek
  <2>6. Fits(t) <=> q.harm = "none" /\ kek = RowKek(q)
    BY <2>4, <2>5
  <2>7. QED
    BY <1>3, <2>2, <2>3, <2>6
<1>8. CASE c.f = "openPassphraseKey"
  <2> DEFINE kek == InviteKek(c.word, q.salt)
  <2>1. q.f = "createPassphraseInvite"
    BY <1>1, <1>8, Makers DEF Fetched, Typable
  <2>2. Opened(c) = Unwrap(RowLabel(q), q.id, kek, q.wrap)
    BY <1>8, <2>1 DEF Opened, RowLabel
  <2>3. kek # <<"none">>
    BY <1>8 DEF InviteKek
  <2>4. kek = RowKek(q) <=> Fold(c.word) = q.secret
    BY <1>1, <2>1 DEF RowKek, OwnerKek, InviteKek
  <2>5. Fits(t) <=> q.harm = "none" /\ Fold(c.word) = q.secret
    BY <1>8 DEF Fits
  <2> HIDE DEF kek
  <2>6. Fits(t) <=> q.harm = "none" /\ kek = RowKek(q)
    BY <2>4, <2>5
  <2>7. QED
    BY <1>3, <2>2, <2>3, <2>6
<1>9. QED
  BY <1>4, <1>5, <1>6, <1>7, <1>8 DEF Opens

\* Whoever brings a whole row and its secret meets no error but the device's.
LEMMA FitNeverErrs ==
    ASSUME NEW c, Opens(c), AsAsked(c), NEW t, t.f = c.f, t.row = c.row, t.word = c.word,
           t.link = c.link, t.arg = IF c.arg \in DOMAIN keys THEN keys[c.arg] ELSE <<>>,
           Fits(t), NEW op, Belongs(c.f, op)
    PROVE  Error(c, op) = "ok"
<1>1. Opened(c).ok
  BY OpenedIsFit
<1>2. c.row.harm = "none"
  BY DEF Fits
<1>3. Fetched(c.f, c.row)
  BY Makers DEF Opens, AsAsked, Openers
<1>4. op = "deriveOwnerCredential" => c.word \notin {"", "!"}
  <2>1. SUFFICES ASSUME op = "deriveOwnerCredential"
                 PROVE  c.word \notin {"", "!"}
    OBVIOUS
  <2>2. c.f = "unlockMasterKey"
    BY <2>1 DEF Belongs, Opens
  <2>3. c.word = c.row.secret
    BY <2>2 DEF Fits
  <2>4. c.row.secret \notin {"", "!"}
    BY <1>3, <2>2, Makers DEF Fetched, Typable
  <2>5. QED
    BY <2>3, <2>4
<1>5. op = "unwrapAlbumKey" => Fold(c.word) # "" /\ c.word # "!"
  <2>1. SUFFICES ASSUME op = "unwrapAlbumKey"
                 PROVE  Fold(c.word) # "" /\ c.word # "!"
    OBVIOUS
  <2>2. c.f = "openPassphraseKey"
    BY <2>1 DEF Belongs
  <2>3. Fold(c.word) = c.row.secret
    BY <2>2 DEF Fits
  <2>4. c.row.secret \notin {"", "!"}
    BY <1>3, <2>2, Makers DEF Fetched, Typable
  <2>5. QED
    BY <2>3, <2>4 DEF Fold
<1>6. op = "fromBytes" => c.link # <<>>
  <2>1. SUFFICES ASSUME op = "fromBytes"
                 PROVE  c.link # <<>>
    OBVIOUS
  <2>2. c.f = "openInviteKey"
    BY <2>1 DEF Belongs
  <2>3. c.link = c.row.secret
    BY <2>2 DEF Fits
  <2>4. c.row.secret = <<"invite", c.row.n>>
    BY <1>3, <2>2, Makers DEF Fetched, Typable, Minted
  <2>5. QED
    BY <2>3, <2>4
<1>7. op # "wordlist"
  BY DEF Belongs, Opens
<1>8. op \notin Inviting
  BY DEF Belongs, Opens
<1>9. QED
  BY <1>1, <1>2, <1>4, <1>5, <1>6, <1>7, <1>8 DEF Error, Opening, Inviting

\* A function that was done has found all it was given as it was made.
LEMMA DoneFits ==
    ASSUME NEW c, Opens(c), AsAsked(c), NEW t, t.f = c.f, t.row = c.row, t.word = c.word,
           t.link = c.link, t.arg = IF c.arg \in DOMAIN keys THEN keys[c.arg] ELSE <<>>,
           \A op : Does(c.f, op) => Error(c, op) = "ok"
    PROVE  Fits(t) /\ Opened(c).value = c.row.key
<1>1. \E op \in Opening : Does(c.f, op)
  BY WhatIsDone DEF Opens, Opening
<1>2. Opened(c).ok
  BY <1>1, OpenedIsFit DEF Error, Opening, Inviting
<1>3. Error(c, "decode") = "ok"
  BY WhatIsDone DEF Opens
<1>4. c.row.harm # "text"
  BY <1>3 DEF Error, Opening, Inviting
<1>5. c.row.harm \notin {"heavy", "zero"}
  <2>1. CASE c.f \in Derivers
    <3>1. Error(c, "ceiling") = "ok" /\ Error(c, "WrapParams") = "ok"
      BY <2>1, WhatIsDone DEF Opens, Derivers
    <3>2. QED
      BY <3>1 DEF Error, Opening, Inviting
  <2>2. CASE c.f \notin Derivers
    BY <2>2, Makers DEF Opens, AsAsked, Openers, Fetched
  <2>3. QED
    BY <2>1, <2>2
<1>6. QED
  BY <1>2, <1>4, <1>5, OpenedIsFit

\* What the relay serves of it is as Fetched says.
LEMMA ServedIsFetched ==
    ASSUME RowsWhole, NEW f \in DOMAIN Maker, NEW q \in Served(f)
    PROVE  Fetched(f, q)
<1>1. f \in DOMAIN Program
  BY Makers DEF Openers, Program
<1>2. Harms(f) \subseteq {"none", "text", "bytes"} \cup (IF f \in Derivers THEN {"heavy", "zero"} ELSE {})
  <2>1. Balanced(f, Program[f])
    BY <1>1, ProgramsBalanced
  <2>2. ASSUME NEW i \in DOMAIN Program[f].try, Program[f].try[i][1] = "ceiling"
        PROVE  f \in Derivers
    BY <2>1, <2>2 DEF Balanced, InOrder, Belongs
  <2>3. QED
    BY <2>2 DEF Harms
<1>3. ASSUME NEW r \in rows, r.f = Maker[f], NEW h \in Harms(f),
             q = Harmed(r, h)
      PROVE  Fetched(f, q)
  <2>1. WholeRow(r)
    BY DEF RowsWhole
  <2>2. /\ q.f = r.f
        /\ q.n = r.n
        /\ q.id = r.id
        /\ q.salt = r.salt
        /\ q.harm = h
        /\ q.secret = r.secret
        /\ q.key = r.key
        /\ q.wrap = [r.wrap EXCEPT !.key = IF h = "bytes" THEN <<"none">> ELSE @]
    BY <1>3, <2>1 DEF WholeRow, RowFields, Harmed
  <2>3. /\ q.wrap.aad = <<RowLabel(r), r.id>>
        /\ q.wrap.plain = r.key
        /\ h # "bytes" => q.wrap.key = RowKek(r)
        /\ h = "bytes" => q.wrap.key = <<"none">>
    BY <2>1, <2>2 DEF WholeRow, Wrap
  <2>4. /\ RowLabel(q) = RowLabel(r)
        /\ RowKek(q) = RowKek(r)
        /\ Typable(q)
    BY <2>1, <2>2 DEF RowLabel, RowKek, Typable, WholeRow
  <2>5. h \in {"none", "text", "bytes"} \cup (IF f \in Derivers THEN {"heavy", "zero"} ELSE {})
    BY <1>2
  <2>6. QED
    BY <1>3, <2>2, <2>3, <2>4, <2>5 DEF Fetched
<1>4. ASSUME NEW r \in rows, r.f = Maker[f], NEW p \in rows, p.id # r.id, r.id # 0,
             q = Mistaken(r, p)
      PROVE  Fetched(f, q)
  <2>1. WholeRow(r)
    BY DEF RowsWhole
  <2>2. /\ q.f = r.f
        /\ q.n = r.n
        /\ q.id = p.id
        /\ q.salt = r.salt
        /\ q.harm = "id"
        /\ q.secret = r.secret
        /\ q.key = r.key
        /\ q.wrap = r.wrap
    BY <1>4, <2>1 DEF WholeRow, RowFields, Mistaken
  <2>3. q.wrap.aad = <<RowLabel(r), r.id>> /\ q.wrap.plain = r.key
    BY <2>1, <2>2 DEF WholeRow, Wrap
  <2>4. RowLabel(q) = RowLabel(r) /\ Typable(q)
    BY <1>4, <2>1, <2>2 DEF RowLabel, Typable, WholeRow
  <2>5. q.wrap.aad # <<RowLabel(q), q.id>>
    BY <1>4, <2>2, <2>3, <2>4
  <2>6. QED
    BY <1>4, <2>2, <2>3, <2>4, <2>5 DEF Fetched
<1>5. QED
  BY <1>3, <1>4 DEF Served

\* What the relay is given to keep is whole.
LEMMA MadeRowIsWhole ==
    ASSUME NEW c, NEW label, NEW id, NEW kek, NEW secret, NEW key,
           NEW r \in MadeRow(c, label, id, kek, secret, key),
           r.f \in {"createAccountKeys", "createAlbumKey", "createQrInvite", "createPassphraseInvite"},
           label = RowLabel(r), kek = RowKek(r), Typable(r)
    PROVE  WholeRow(r)
BY DEF MadeRow, WholeRow, RowFields

\* The rows a function makes, when none of its calls objected, are whole.
LEMMA MadeIsWhole ==
    ASSUME NEW c, AsAsked(c), \A op : Does(c.f, op) => Error(c, op) = "ok", NEW r \in Made(c)
    PROVE  WholeRow(r)
<1>1. CASE c.f = "createAccountKeys"
  <2>1. Error(c, "deriveOwnerCredential") = "ok"
    BY <1>1, WhatIsDone
  <2>2. c.word \notin {"", "!"}
    BY <2>1 DEF Error, Opening, Inviting
  <2>3. r \in MadeRow(c, "master", 0, OwnerKek(c.word, c.n), c.word, Minted(c.n, "master"))
    BY <1>1 DEF Made
  <2>4. r.f = "createAccountKeys" /\ r.id = 0 /\ r.secret = c.word /\ r.salt = c.n
    BY <1>1, <2>3 DEF MadeRow
  <2>5. RowLabel(r) = "master" /\ RowKek(r) = OwnerKek(c.word, c.n) /\ Typable(r)
    BY <2>2, <2>4 DEF RowLabel, RowKek, Typable
  <2>6. QED
    BY <2>3, <2>4, <2>5, MadeRowIsWhole
<1>2. CASE c.f = "createAlbumKey"
  <2>1. r \in MadeRow(c, "album", c.n, keys[c.arg], keys[c.arg], Minted(c.n, "album"))
    BY <1>2 DEF Made
  <2>2. r.f = "createAlbumKey" /\ r.secret = keys[c.arg]
    BY <1>2, <2>1 DEF MadeRow
  <2>3. RowLabel(r) = "album" /\ RowKek(r) = keys[c.arg] /\ Typable(r)
    BY <1>2, <2>2 DEF RowLabel, RowKek, Typable, AsAsked
  <2>4. QED
    BY <2>1, <2>2, <2>3, MadeRowIsWhole
<1>3. CASE c.f = "createQrInvite"
  <2>1. r \in MadeRow(c, "invite", c.n, Minted(c.n, "invite"), Minted(c.n, "invite"), keys[c.arg])
    BY <1>3 DEF Made
  <2>2. r.f = "createQrInvite" /\ r.secret = Minted(c.n, "invite") /\ r.n = c.n
    BY <1>3, <2>1 DEF MadeRow
  <2>3. RowLabel(r) = "invite" /\ RowKek(r) = Minted(c.n, "invite") /\ Typable(r)
    BY <2>2 DEF RowLabel, RowKek, Typable
  <2>4. QED
    BY <2>1, <2>2, <2>3, MadeRowIsWhole
<1>4. CASE c.f = "createPassphraseInvite"
  <2>1. Error(c, "wordlist") = "ok"
    BY <1>4, WhatIsDone
  <2>2. Fold(c.word) = "a"
    BY <1>4, <2>1 DEF Error, Opening, Inviting, AsAsked, Fold
  <2>3. r \in MadeRow(c, "wrap", c.n, InviteKek(c.word, c.n), Fold(c.word), keys[c.arg])
    BY <1>4 DEF Made
  <2>4. r.f = "createPassphraseInvite" /\ r.secret = Fold(c.word) /\ r.salt = c.n
    BY <1>4, <2>3 DEF MadeRow
  <2>5. RowLabel(r) = "wrap" /\ RowKek(r) = InviteKek(c.word, c.n) /\ Typable(r)
    BY <2>2, <2>4 DEF RowLabel, RowKek, Typable, OwnerKek, InviteKek
  <2>6. QED
    BY <2>3, <2>4, <2>5, MadeRowIsWhole
<1>5. QED
  BY <1>1, <1>2, <1>3, <1>4 DEF Made

-----------------------------------------------------------------------------
(***************************************************************************)
(* Every step keeps them.                                                  *)
(***************************************************************************)
LEMMA InitKInv == Init => KInv
BY DEF Init, KInv, RowsWhole, Asking, Answered, OpensWhatWasWrapped, BlameIsDeserved

\* Between two answers there is nothing to hold of one.
LEMMA NothingAnswered == told = None => Answered
BY DEF Answered, OpensWhatWasWrapped, BlameIsDeserved

\* What is told of a call holds while nothing new is told.
LEMMA SameAnswer == Answered /\ told' = told => Answered'
BY DEF Answered, OpensWhatWasWrapped, BlameIsDeserved, Opens, Fits

\* What is given to a function is a row as it may be served, and its caller's own.
LEMMA GivenIsAsked ==
    ASSUME RowsWhole, NEW f \in DOMAIN Program, NEW g \in Given(f), NEW c, c.f = f, c.row = g.row,
           c.word = g.word, c.arg = g.arg, c.link = g.link
    PROVE  AsAsked(c)
<1>1. f \in DOMAIN Maker => Fetched(f, g.row)
  BY ServedIsFetched DEF Given
<1>2. f \notin DOMAIN Maker => g.row = NoRow
  BY DEF Given
<1>3. f = "createPassphraseInvite" => g.word \in {"a", ""}
  BY DEF Given
<1>4. f \in {"openAlbumKey", "createAlbumKey"} => g.arg \in Owned("master")
  BY DEF Given
<1>5. f = "openMasterKey" => g.arg \in Owned("kek")
  BY DEF Given
<1>6. f = "openInviteKey" => g.link = <<>> \/ g.link[1] = "invite"
  <2>1. SUFFICES ASSUME f = "openInviteKey", g.link # <<>>
                 PROVE  g.link[1] = "invite"
    OBVIOUS
  <2>2. g.link = <<"invite", 0>> \/ \E q \in rows : q.f = Maker[f] /\ g.link = q.secret
    BY <2>1 DEF Given
  <2>3. ASSUME NEW q \in rows, q.f = "createQrInvite"
        PROVE  q.secret = <<"invite", q.n>>
    BY <2>3 DEF RowsWhole, WholeRow, Typable, Minted
  <2>4. QED
    BY <2>1, <2>2, <2>3, Makers
<1>7. QED
  BY <1>1, <1>2, <1>3, <1>4, <1>5, <1>6 DEF AsAsked, Owned

\* No call has objected yet when a function is called.
LEMMA CallKInv ==
    ASSUME KInv, NEW f \in DOMAIN Program, Call(f)
    PROVE  KInv'
<1>1. PICK g \in Given(f) :
         call' = [f |-> f, n |-> calls + 1, at |-> 1, error |-> "ok", failed |-> FALSE,
                  has |-> IF f = "openMasterKey" THEN [v \in {"given"} |-> g.arg] ELSE <<>>,
                  row |-> g.row, word |-> g.word, arg |-> g.arg, link |-> g.link]
  BY DEF Call
<1>2. keys' = keys /\ rows' = rows /\ told' = None
  BY DEF Call
<1>3. /\ call'.f = f
      /\ call'.row = g.row
      /\ call'.word = g.word
      /\ call'.arg = g.arg
      /\ call'.link = g.link
      /\ call'.at = 1
      /\ call'.error = "ok"
      /\ call'.failed = FALSE
  BY <1>1
<1>4. AsAsked(call')
  BY <1>3, GivenIsAsked DEF KInv
<1>5. AsAsked(call)'
  BY <1>2, <1>4 DEF AsAsked
<1>6. Passed(call)' /\ Deserved(call)'
  BY <1>3 DEF Passed, Deserved
<1>7. Answered'
  BY <1>2, NothingAnswered DEF Answered, OpensWhatWasWrapped, BlameIsDeserved
<1>8. QED
  BY <1>2, <1>5, <1>6, <1>7 DEF KInv, RowsWhole, Asking

\* What is asked, and what a call says of it, stay as they are while a function runs.
LEMMA AskStays ==
    ASSUME NEW c, NEW d, SameAsk(c, d)
    PROVE  /\ AsAsked(c) => AsAsked(d)
           /\ \A op : Error(d, op) = Error(c, op)
<1>1. AsAsked(c) => AsAsked(d)
  BY DEF SameAsk, AsAsked
<1>2. QED
  BY <1>1, SameErrors DEF SameAsk

\* What a call objects to does not depend on what is alive.
LEMMA ErrorStays ==
    ASSUME keys' = keys, NEW op
    PROVE  Error(call, op)' = Error(call', op)
BY DEF Error, Opened

\* An error that is the device's, or the call's in hand, is deserved.
LEMMA AskedKInv ==
    ASSUME KInv, AsAsked(call), Passed(call), SameAsk(call, call'), call'.at = call.at,
           NEW e, e # "ok", call'.error = e,
           \/ call'.failed = TRUE /\ e \in DeviceErrors
           \/ call'.failed = FALSE /\ e = Error(call, Doing[1]),
           keys' = keys, rows' = rows, told' = told
    PROVE  KInv'
<1>1. AsAsked(call')
  BY AskStays
<1>2. AsAsked(call)'
  BY <1>1 DEF AsAsked
<1>3. \A op : Error(call', op) = Error(call, op)
  BY AskStays
<1>4. \A op : Error(call, op)' = Error(call, op)
  BY <1>3, ErrorStays
<1>5. Passed(call)'
  BY <1>4 DEF Passed, SameAsk
<1>6. Deserved(call)'
  BY <1>4 DEF Deserved, Doing, SameAsk
<1>7. Answered'
  BY SameAnswer DEF KInv
<1>8. QED
  BY <1>2, <1>5, <1>6, <1>7 DEF KInv, RowsWhole, Asking

\* So is every error that is thrown.
LEMMA ThrowsKInv ==
    ASSUME IInv, KInv, Running, NEW e, e # "ok",
           \/ Throws(e, TRUE) /\ e \in DeviceErrors
           \/ Throws(e, FALSE) /\ e = Error(call, Doing[1]),
           keys' = keys, rows' = rows, told' = told
    PROVE  KInv'
<1>1. /\ Busy(call)
      /\ AsAsked(call)
      /\ Passed(call)
      /\ Deserved(call)
      /\ call.error = "ok"
  BY DEF IInv, During, Running, KInv, Asking
<1>2. CASE Throws(e, TRUE) /\ e \in DeviceErrors
  <2>1. call' = [call EXCEPT !.error = e, !.failed = call.failed \/ TRUE]
    BY <1>2 DEF Throws
  <2>2. /\ call'.error = e
        /\ call'.failed = TRUE
        /\ call'.at = call.at
        /\ SameAsk(call, call')
    BY <1>1, <2>1 DEF Busy, Fields, SameAsk
  <2>3. QED
    BY <1>1, <1>2, <2>2, AskedKInv
<1>3. CASE Throws(e, FALSE) /\ e = Error(call, Doing[1])
  <2>1. call' = [call EXCEPT !.error = e, !.failed = call.failed \/ FALSE]
    BY <1>3 DEF Throws
  <2>2. /\ call'.error = e
        /\ call'.failed = (call.failed \/ FALSE)
        /\ call'.at = call.at
        /\ SameAsk(call, call')
    BY <1>1, <2>1 DEF Busy, Fields, SameAsk
  <2>3. call'.failed = FALSE
    BY <1>1, <2>2 DEF Deserved
  <2>4. QED
    BY <1>1, <1>3, <2>2, <2>3, AskedKInv
<1>4. QED
  BY <1>2, <1>3

\* A call that goes on objected to nothing.
LEMMA StepKInv ==
    ASSUME IInv, KInv, Step
    PROVE  KInv'
<1> DEFINE op  == Doing[1]
           v   == Doing[2]
           new == IF v # "" /\ op # "free" THEN {v} ELSE {}
           has == [w \in DOMAIN call.has \cup new |->
                     IF w \in new THEN <<call.n, w>> ELSE call.has[w]]
<1>1. /\ keys' = keys
      /\ rows' = rows
      /\ told' = told
      /\ Running
  BY DEF Step
<1>2. CASE Throws("EnvelopeUnavailable", TRUE)
  BY <1>1, <1>2, ThrowsKInv DEF DeviceErrors
<1>3. CASE Error(call, op) # "ok" /\ Throws(Error(call, op), FALSE)
  <2> DEFINE e == Error(call, op)
  <2> HIDE DEF e
  <2>1. e # "ok" /\ e = Error(call, Doing[1]) /\ Throws(e, FALSE)
    BY <1>3 DEF e
  <2>2. QED
    BY <1>1, <2>1, ThrowsKInv
<1>4. CASE Error(call, op) = "ok" /\ call' = [call EXCEPT !.at = call.at + 1, !.has = has]
  <2>1. /\ Busy(call)
        /\ AsAsked(call)
        /\ Passed(call)
        /\ Deserved(call)
        /\ call.error = "ok"
        /\ call.at \in Nat
    BY <1>1 DEF IInv, During, Running, KInv, Asking, Busy
  <2> HIDE DEF has
  <2>2. /\ call'.error = "ok"
        /\ call'.failed = call.failed
        /\ call'.at = call.at + 1
        /\ SameAsk(call, call')
    BY <1>4, <2>1, KeepsFieldOn DEF Busy
  <2>3. AsAsked(call')
    BY <2>1, <2>2, AskStays
  <2>4. AsAsked(call)'
    BY <1>1, <2>3 DEF AsAsked
  <2>5. \A o : Error(call', o) = Error(call, o)
    BY <2>2, AskStays
  <2>6. \A o : Error(call, o)' = Error(call, o)
    BY <1>1, <2>5, ErrorStays
  <2>7. \A k \in 1..call.at : Error(call, Program[call.f].try[k][1]) = "ok"
    <3>1. SUFFICES ASSUME NEW k \in 1..call.at
                   PROVE  Error(call, Program[call.f].try[k][1]) = "ok"
      OBVIOUS
    <3>2. CASE k = call.at
      BY <1>4, <3>2 DEF Doing
    <3>3. CASE k \in 1..(call.at - 1)
      BY <2>1, <3>3 DEF Passed
    <3>4. QED
      BY <2>1, <3>2, <3>3
  <2>8. Passed(call)'
    <3>1. call'.at - 1 = call.at /\ call'.f = call.f
      BY <2>1, <2>2 DEF SameAsk
    <3>2. QED
      BY <2>6, <2>7, <3>1 DEF Passed
  <2>9. Deserved(call)'
    BY <2>1, <2>2 DEF Deserved
  <2>10. Answered'
    BY <1>1, SameAnswer DEF KInv
  <2>11. QED
    BY <1>1, <2>4, <2>8, <2>9, <2>10 DEF KInv, RowsWhole, Asking
<1>5. QED
  BY <1>2, <1>3, <1>4 DEF Step

\* The device fails with an error of its own.
LEMMA DeviceFailsKInv ==
    ASSUME IInv, KInv, DeviceFails
    PROVE  KInv'
<1>1. /\ keys' = keys
      /\ rows' = rows
      /\ told' = told
      /\ Running
  BY DEF DeviceFails
<1>2. CASE Throws("EnvelopeUnavailable", TRUE)
  BY <1>1, <1>2, ThrowsKInv DEF DeviceErrors
<1>3. ASSUME NEW error \in DeviceError(Doing[1]), Throws(error, TRUE)
      PROVE  KInv'
  <2>1. error # "ok" /\ error \in DeviceErrors
    BY <1>3 DEF DeviceError, DeviceErrors
  <2>2. QED
    BY <1>1, <1>3, <2>1, ThrowsKInv
<1>4. QED
  BY <1>2, <1>3 DEF DeviceFails

\* A step that ends with nothing to tell, and no function running.
LEMMA QuietKInv ==
    ASSUME KInv, call' = None, told' = None, rows' = rows
    PROVE  KInv'
<1>1. Answered'
  BY NothingAnswered DEF Answered, OpensWhatWasWrapped, BlameIsDeserved
<1>2. QED
  BY <1>1 DEF KInv, RowsWhole, Asking

\* A key that is let go was not reached for, or is the album's of an invitation
\* that has not reached for it yet.
LEMMA ReleaseKInv ==
    ASSUME IInv, KInv, NEW h \in DOMAIN keys, Release(h)
    PROVE  KInv'
<1>1. call' = call /\ told' = None /\ rows' = rows
  BY DEF Release
<1>2. CASE call = None
  BY <1>1, <1>2, QuietKInv
<1>3. CASE call # None /\ Running /\ Doing[1] = "await"
  <2>1. /\ call.f \in {"createQrInvite", "createPassphraseInvite"}
        /\ \A k \in 1..(call.at - 1) : Program[call.f].try[k][1] = "wordlist"
    BY <1>3, AwaitsFirst
  <2>2. AsAsked(call) /\ Passed(call) /\ Deserved(call) /\ call.error = "ok"
    BY <1>3 DEF KInv, Asking, Running
  <2>3. AsAsked(call)'
    BY <1>1, <2>1, <2>2, Makers DEF AsAsked, Openers
  <2>4. Error(call, "wordlist")' = Error(call, "wordlist")
    BY <1>1 DEF Error, Opening, Inviting
  <2>5. Passed(call)'
    BY <1>1, <2>1, <2>2, <2>4 DEF Passed
  <2>6. Deserved(call)'
    BY <1>1, <2>2 DEF Deserved
  <2>7. Answered'
    BY <1>1 DEF Answered, OpensWhatWasWrapped, BlameIsDeserved
  <2>8. QED
    BY <1>1, <2>3, <2>5, <2>6, <2>7 DEF KInv, RowsWhole, Asking
<1>4. QED
  BY <1>2, <1>3 DEF Release

\* A step that touches none of it.
LEMMA UntouchedKInv ==
    ASSUME KInv, call' = call, told' = told, rows' = rows, keys' = keys
    PROVE  KInv'
<1>1. Answered'
  BY SameAnswer DEF KInv
<1>2. \A op : Error(call, op)' = Error(call, op)
  BY ErrorStays
<1>3. Asking'
  BY <1>2 DEF KInv, Asking, AsAsked, Passed, Deserved
<1>4. QED
  BY <1>1, <1>3 DEF KInv, RowsWhole

-----------------------------------------------------------------------------
(***************************************************************************)
(* What a function tells of its errors.                                    *)
(***************************************************************************)
Wrong == {"wrong-password", "wrong-passphrase", "cannot-unlock", "cannot-open", "damaged-link"}

BlamesWell(f, p) ==
    /\ \A e \in DOMAIN p.blames :
         /\ p.blames[e] # "ok"
         /\ e \notin DeviceErrors
         /\ p.blames[e] \in Wrong => f \in Openers
         /\ p.blames[e] = "unusable-material" => e \in {"Malformed", "OverCeiling", "InvalidParams"}
    /\ f \in Openers => p.gives = {"master"} \/ p.gives = {"albumKey"}

\* The code tables of every function blame each error on what may have caused it.
LEMMA ProgramsBlameWell ==
    ASSUME NEW f \in DOMAIN Program
    PROVE  BlamesWell(f, Program[f])
<1>1. CASE f = "createAccountKeys"
  <2> DEFINE b == createAccountKeys.blames
  <2>1. Program[f] = createAccountKeys
    BY <1>1 DEF Program
  <2>2. DOMAIN b = {"EmptyPassword", "UnpairedSurrogate"}
    BY DEF createAccountKeys
  <2>3. /\ b["EmptyPassword"] = "empty"
        /\ b["UnpairedSurrogate"] = "invalid-password"
    BY DEF createAccountKeys
  <2>4. createAccountKeys.gives = {"master"}
    BY DEF createAccountKeys
  <2> HIDE DEF b
  <2>5. ASSUME NEW e \in DOMAIN b
        PROVE  /\ b[e] # "ok"
               /\ e \notin DeviceErrors
               /\ b[e] \in Wrong => f \in Openers
               /\ b[e] = "unusable-material" => e \in {"Malformed", "OverCeiling", "InvalidParams"}
    BY <1>1, <2>2, <2>3 DEF DeviceErrors, Wrong, Openers
  <2>6. QED
    BY <1>1, <2>1, <2>4, <2>5 DEF BlamesWell, Openers, b
<1>2. CASE f = "openAlbumKey"
  <2> DEFINE b == openAlbumKey.blames
  <2>1. Program[f] = openAlbumKey
    BY <1>2 DEF Program
  <2>2. DOMAIN b = {"Malformed", "OverCeiling", "InvalidParams", "AuthenticationFailed"}
    BY DEF openAlbumKey
  <2>3. /\ b["Malformed"] = "unusable-material"
        /\ b["OverCeiling"] = "unusable-material"
        /\ b["InvalidParams"] = "unusable-material"
        /\ b["AuthenticationFailed"] = "cannot-open"
    BY DEF openAlbumKey
  <2>4. openAlbumKey.gives = {"albumKey"}
    BY DEF openAlbumKey
  <2> HIDE DEF b
  <2>5. ASSUME NEW e \in DOMAIN b
        PROVE  /\ b[e] # "ok"
               /\ e \notin DeviceErrors
               /\ b[e] \in Wrong => f \in Openers
               /\ b[e] = "unusable-material" => e \in {"Malformed", "OverCeiling", "InvalidParams"}
    BY <1>2, <2>2, <2>3 DEF DeviceErrors, Wrong, Openers
  <2>6. QED
    BY <1>2, <2>1, <2>4, <2>5 DEF BlamesWell, Openers, b
<1>3. CASE f = "deriveLoginCredential"
  <2> DEFINE b == deriveLoginCredential.blames
  <2>1. Program[f] = deriveLoginCredential
    BY <1>3 DEF Program
  <2>2. DOMAIN b = {"Malformed", "OverCeiling", "InvalidParams", "EmptyPassword",
                    "UnpairedSurrogate"}
    BY DEF deriveLoginCredential
  <2>3. /\ b["Malformed"] = "unusable-material"
        /\ b["OverCeiling"] = "unusable-material"
        /\ b["InvalidParams"] = "unusable-material"
        /\ b["EmptyPassword"] = "empty"
        /\ b["UnpairedSurrogate"] = "invalid-password"
    BY DEF deriveLoginCredential
  <2>4. deriveLoginCredential.gives = {"kek"}
    BY DEF deriveLoginCredential
  <2> HIDE DEF b
  <2>5. ASSUME NEW e \in DOMAIN b
        PROVE  /\ b[e] # "ok"
               /\ e \notin DeviceErrors
               /\ b[e] \in Wrong => f \in Openers
               /\ b[e] = "unusable-material" => e \in {"Malformed", "OverCeiling", "InvalidParams"}
    BY <1>3, <2>2, <2>3 DEF DeviceErrors, Wrong, Openers
  <2>6. QED
    BY <1>3, <2>1, <2>4, <2>5 DEF BlamesWell, Openers, b
<1>4. CASE f = "openMasterKey"
  <2> DEFINE b == openMasterKey.blames
  <2>1. Program[f] = openMasterKey
    BY <1>4 DEF Program
  <2>2. DOMAIN b = {"Malformed", "OverCeiling", "InvalidParams", "AuthenticationFailed"}
    BY DEF openMasterKey
  <2>3. /\ b["Malformed"] = "unusable-material"
        /\ b["OverCeiling"] = "unusable-material"
        /\ b["InvalidParams"] = "unusable-material"
        /\ b["AuthenticationFailed"] = "cannot-unlock"
    BY DEF openMasterKey
  <2>4. openMasterKey.gives = {"master"}
    BY DEF openMasterKey
  <2> HIDE DEF b
  <2>5. ASSUME NEW e \in DOMAIN b
        PROVE  /\ b[e] # "ok"
               /\ e \notin DeviceErrors
               /\ b[e] \in Wrong => f \in Openers
               /\ b[e] = "unusable-material" => e \in {"Malformed", "OverCeiling", "InvalidParams"}
    BY <1>4, <2>2, <2>3 DEF DeviceErrors, Wrong, Openers
  <2>6. QED
    BY <1>4, <2>1, <2>4, <2>5 DEF BlamesWell, Openers, b
<1>5. CASE f = "unlockMasterKey"
  <2> DEFINE b == unlockMasterKey.blames
  <2>1. Program[f] = unlockMasterKey
    BY <1>5 DEF Program
  <2>2. DOMAIN b = {"Malformed", "OverCeiling", "InvalidParams", "EmptyPassword",
                    "AuthenticationFailed", "UnpairedSurrogate"}
    BY DEF unlockMasterKey
  <2>3. /\ b["Malformed"] = "unusable-material"
        /\ b["OverCeiling"] = "unusable-material"
        /\ b["InvalidParams"] = "unusable-material"
        /\ b["EmptyPassword"] = "empty"
        /\ b["AuthenticationFailed"] = "wrong-password"
        /\ b["UnpairedSurrogate"] = "wrong-password"
    BY DEF unlockMasterKey
  <2>4. unlockMasterKey.gives = {"master"}
    BY DEF unlockMasterKey
  <2> HIDE DEF b
  <2>5. ASSUME NEW e \in DOMAIN b
        PROVE  /\ b[e] # "ok"
               /\ e \notin DeviceErrors
               /\ b[e] \in Wrong => f \in Openers
               /\ b[e] = "unusable-material" => e \in {"Malformed", "OverCeiling", "InvalidParams"}
    BY <1>5, <2>2, <2>3 DEF DeviceErrors, Wrong, Openers
  <2>6. QED
    BY <1>5, <2>1, <2>4, <2>5 DEF BlamesWell, Openers, b
<1>6. CASE f = "createAlbumKey"
  <2> DEFINE b == createAlbumKey.blames
  <2>1. Program[f] = createAlbumKey
    BY <1>6 DEF Program
  <2>2. DOMAIN b = {}
    BY DEF createAlbumKey
  <2>3. createAlbumKey.gives = {"albumKey"}
    BY DEF createAlbumKey
  <2> HIDE DEF b
  <2>4. ASSUME NEW e \in DOMAIN b
        PROVE  /\ b[e] # "ok"
               /\ e \notin DeviceErrors
               /\ b[e] \in Wrong => f \in Openers
               /\ b[e] = "unusable-material" => e \in {"Malformed", "OverCeiling", "InvalidParams"}
    BY <1>6, <2>2 DEF DeviceErrors, Wrong, Openers
  <2>5. QED
    BY <1>6, <2>1, <2>3, <2>4 DEF BlamesWell, Openers, b
<1>7. CASE f = "createQrInvite"
  <2> DEFINE b == createQrInvite.blames
  <2>1. Program[f] = createQrInvite
    BY <1>7 DEF Program
  <2>2. DOMAIN b = {}
    BY DEF createQrInvite
  <2>3. createQrInvite.gives = {}
    BY DEF createQrInvite
  <2> HIDE DEF b
  <2>4. ASSUME NEW e \in DOMAIN b
        PROVE  /\ b[e] # "ok"
               /\ e \notin DeviceErrors
               /\ b[e] \in Wrong => f \in Openers
               /\ b[e] = "unusable-material" => e \in {"Malformed", "OverCeiling", "InvalidParams"}
    BY <1>7, <2>2 DEF DeviceErrors, Wrong, Openers
  <2>5. QED
    BY <1>7, <2>1, <2>3, <2>4 DEF BlamesWell, Openers, b
<1>8. CASE f = "createPassphraseInvite"
  <2> DEFINE b == createPassphraseInvite.blames
  <2>1. Program[f] = createPassphraseInvite
    BY <1>8 DEF Program
  <2>2. DOMAIN b = {"ShortWordlist"}
    BY DEF createPassphraseInvite
  <2>3. /\ b["ShortWordlist"] = "unusable-wordlist"
    BY DEF createPassphraseInvite
  <2>4. createPassphraseInvite.gives = {}
    BY DEF createPassphraseInvite
  <2> HIDE DEF b
  <2>5. ASSUME NEW e \in DOMAIN b
        PROVE  /\ b[e] # "ok"
               /\ e \notin DeviceErrors
               /\ b[e] \in Wrong => f \in Openers
               /\ b[e] = "unusable-material" => e \in {"Malformed", "OverCeiling", "InvalidParams"}
    BY <1>8, <2>2, <2>3 DEF DeviceErrors, Wrong, Openers
  <2>6. QED
    BY <1>8, <2>1, <2>4, <2>5 DEF BlamesWell, Openers, b
<1>9. CASE f = "openInviteKey"
  <2> DEFINE b == openInviteKey.blames
  <2>1. Program[f] = openInviteKey
    BY <1>9 DEF Program
  <2>2. DOMAIN b = {"Malformed", "OverCeiling", "InvalidParams", "AuthenticationFailed"}
    BY DEF openInviteKey
  <2>3. /\ b["Malformed"] = "unusable-material"
        /\ b["OverCeiling"] = "unusable-material"
        /\ b["InvalidParams"] = "unusable-material"
        /\ b["AuthenticationFailed"] = "damaged-link"
    BY DEF openInviteKey
  <2>4. openInviteKey.gives = {"albumKey"}
    BY DEF openInviteKey
  <2> HIDE DEF b
  <2>5. ASSUME NEW e \in DOMAIN b
        PROVE  /\ b[e] # "ok"
               /\ e \notin DeviceErrors
               /\ b[e] \in Wrong => f \in Openers
               /\ b[e] = "unusable-material" => e \in {"Malformed", "OverCeiling", "InvalidParams"}
    BY <1>9, <2>2, <2>3 DEF DeviceErrors, Wrong, Openers
  <2>6. QED
    BY <1>9, <2>1, <2>4, <2>5 DEF BlamesWell, Openers, b
<1>10. CASE f = "openPassphraseKey"
  <2> DEFINE b == openPassphraseKey.blames
  <2>1. Program[f] = openPassphraseKey
    BY <1>10 DEF Program
  <2>2. DOMAIN b = {"Malformed", "OverCeiling", "InvalidParams", "EmptyPassphrase",
                    "AuthenticationFailed", "UnpairedSurrogate"}
    BY DEF openPassphraseKey
  <2>3. /\ b["Malformed"] = "unusable-material"
        /\ b["OverCeiling"] = "unusable-material"
        /\ b["InvalidParams"] = "unusable-material"
        /\ b["EmptyPassphrase"] = "empty"
        /\ b["AuthenticationFailed"] = "wrong-passphrase"
        /\ b["UnpairedSurrogate"] = "wrong-passphrase"
    BY DEF openPassphraseKey
  <2>4. openPassphraseKey.gives = {"albumKey"}
    BY DEF openPassphraseKey
  <2> HIDE DEF b
  <2>5. ASSUME NEW e \in DOMAIN b
        PROVE  /\ b[e] # "ok"
               /\ e \notin DeviceErrors
               /\ b[e] \in Wrong => f \in Openers
               /\ b[e] = "unusable-material" => e \in {"Malformed", "OverCeiling", "InvalidParams"}
    BY <1>10, <2>2, <2>3 DEF DeviceErrors, Wrong, Openers
  <2>6. QED
    BY <1>10, <2>1, <2>4, <2>5 DEF BlamesWell, Openers, b
<1>11. QED
  BY <1>1, <1>2, <1>3, <1>4, <1>5, <1>6, <1>7, <1>8, <1>9, <1>10 DEF Program

\* What a function says, by the error it ended with.
LEMMA SaysOf ==
    ASSUME NEW p, p = Program[call.f], call.f \in DOMAIN Program
    PROVE  /\ Says(p) = "ok" <=> call.error = "ok"
           /\ call.error \in DeviceErrors => Says(p) = "could-not-derive"
           /\ Says(p) \in Wrong => call.f \in Openers
           /\ Says(p) = "unusable-material" =>
                call.error \in {"Malformed", "OverCeiling", "InvalidParams"}
<1>1. BlamesWell(call.f, p)
  BY ProgramsBlameWell
<1>2. CASE call.error = "ok"
  BY <1>2 DEF Says, Wrong, DeviceErrors
<1>3. CASE call.error # "ok" /\ call.error \in DOMAIN p.blames
  <2>1. Says(p) = p.blames[call.error]
    BY <1>3 DEF Says
  <2>2. QED
    BY <1>1, <1>3, <2>1 DEF BlamesWell
<1>4. CASE call.error # "ok" /\ call.error \notin DOMAIN p.blames
  <2>1. Says(p) = "could-not-derive"
    BY <1>4 DEF Says
  <2>2. QED
    BY <1>4, <2>1 DEF Wrong
<1>5. QED
  BY <1>2, <1>3, <1>4

\* What the relay sends is at fault for the errors that say so.
LEMMA HarmedMaterial ==
    ASSUME NEW c, AsAsked(c), NEW op, Belongs(c.f, op),
           Error(c, op) \in {"Malformed", "OverCeiling", "InvalidParams"}
    PROVE  c.row.harm \in {"text", "heavy", "zero"}
<1>1. op \in Opening => Opens(c)
  BY DEF Belongs, Openers, Opens
<1>2. op \in Opening => Opened(c).ok \/ Opened(c).code = "AuthenticationFailed"
  <2>1. SUFFICES ASSUME Opens(c)
                 PROVE  Opened(c).ok \/ Opened(c).code = "AuthenticationFailed"
    BY <1>1
  <2> DEFINE t == [f |-> c.f, row |-> c.row, word |-> c.word, link |-> c.link,
                   arg |-> IF c.arg \in DOMAIN keys THEN keys[c.arg] ELSE <<>>]
  <2>2. /\ t.f = c.f
        /\ t.row = c.row
        /\ t.word = c.word
        /\ t.link = c.link
        /\ t.arg = IF c.arg \in DOMAIN keys THEN keys[c.arg] ELSE <<>>
    OBVIOUS
  <2> HIDE DEF t
  <2>3. QED
    BY <2>1, <2>2, OpenedIsFit
<1>3. QED
  BY <1>2 DEF Error, Opening, Inviting

\* What is told at the end is what was wrapped, or the blame that is deserved.
LEMMA ReturnsKInv ==
    ASSUME IInv, KInv, Returns
    PROVE  KInv'
<1> DEFINE p  == Program[call.f]
           ok == call.error = "ok"
           t  == told'
<1>1. /\ call # None
      /\ ~Running
      /\ call' = None
      /\ rows' = rows \cup IF ok THEN Made(call) ELSE {}
  BY DEF Returns
<1>2. /\ t.f = call.f
      /\ t.says = Says(p)
      /\ t.failed = call.failed
      /\ t.row = call.row
      /\ t.word = call.word
      /\ t.link = call.link
      /\ t.arg = IF call.arg \in DOMAIN keys THEN keys[call.arg] ELSE <<>>
      /\ t.key = IF ok /\ p.gives # {} THEN Holds(call, CHOOSE v \in p.gives : TRUE) ELSE <<>>
  BY DEF Returns
<1>3. /\ Busy(call)
      /\ AsAsked(call)
      /\ Passed(call)
      /\ Deserved(call)
      /\ RowsWhole
  BY <1>1 DEF IInv, During, KInv, Asking
<1>4. call.f \in DOMAIN Program
  BY <1>3 DEF Busy
<1>5. Balanced(call.f, p)
  BY <1>4, ProgramsBalanced
<1>6. /\ Len(p.try) \in Nat
      /\ ok => call.at = Len(p.try) + 1
      /\ ~ok => call.at \in 1..Len(p.try)
  BY <1>1, <1>3, <1>5 DEF Busy, Balanced, Running
<1>7. ok => \A op : Does(call.f, op) => Error(call, op) = "ok"
  BY <1>3, <1>6 DEF Passed, Does
<1>8. ~ok => Belongs(call.f, p.try[call.at][1])
  BY <1>5, <1>6 DEF Balanced, InOrder
<1> HIDE DEF t, p
<1>9. RowsWhole'
  <2>1. ASSUME NEW r \in rows'
        PROVE  WholeRow(r)
    <3>1. CASE r \in rows
      BY <1>3, <3>1 DEF RowsWhole
    <3>2. CASE ok /\ r \in Made(call)
      BY <1>3, <1>7, <3>2, MadeIsWhole
    <3>3. QED
      BY <1>1, <2>1, <3>1, <3>2
  <2>2. QED
    BY <2>1 DEF RowsWhole
<1>10. /\ t.says = "ok" <=> ok
       /\ call.error \in DeviceErrors => t.says = "could-not-derive"
       /\ t.says \in Wrong => call.f \in Openers
       /\ t.says = "unusable-material" => call.error \in {"Malformed", "OverCeiling", "InvalidParams"}
  BY <1>2, <1>4, SaysOf DEF p
<1>11. Opens(t) <=> Opens(call)
  BY <1>2 DEF Opens
<1>12. ASSUME Opens(call), Fits(t), t.failed = FALSE
       PROVE  t.says = "ok"
  <2>1. SUFFICES ASSUME ~ok
                 PROVE  FALSE
    BY <1>10
  <2>2. call.error = Error(call, p.try[call.at][1])
    BY <1>2, <1>3, <1>12, <2>1 DEF Deserved, p
  <2>3. Error(call, p.try[call.at][1]) = "ok"
    BY <1>2, <1>3, <1>8, <1>12, <2>1, FitNeverErrs
  <2>4. QED
    BY <2>1, <2>2, <2>3
<1>13. ASSUME Opens(call), t.says = "ok"
       PROVE  Fits(t) /\ t.key = t.row.key
  <2>1. ok
    BY <1>10, <1>13
  <2>2. Fits(t) /\ Opened(call).value = call.row.key
    BY <1>2, <1>3, <1>7, <1>13, <2>1, DoneFits
  <2>3. p.gives = {"master"} \/ p.gives = {"albumKey"}
    BY <1>4, <1>13, ProgramsBlameWell DEF BlamesWell, Opens, Openers, p
  <2>4. PICK v : t.key = Holds(call, v) /\ v \in {"master", "albumKey"}
    BY <1>2, <2>1, <2>3
  <2>5. Holds(call, v) = Opened(call).value
    BY <1>13, <2>4 DEF Holds, Opens
  <2>6. QED
    BY <1>2, <2>2, <2>4, <2>5
<1>14. t.failed = TRUE \/ t.failed = FALSE
  BY <1>2, <1>3 DEF Deserved
<1>15. t.failed = TRUE => t.says = "could-not-derive"
  BY <1>2, <1>3, <1>10 DEF Deserved
<1>16. OpensWhatWasWrapped'
  BY <1>11, <1>12, <1>13, <1>14 DEF OpensWhatWasWrapped, t
<1>17. ASSUME t.says \in Wrong
       PROVE  ~Fits(t)
  <2>1. Opens(call)
    BY <1>10, <1>17 DEF Opens, Openers
  <2>2. t.failed = FALSE /\ t.says # "ok"
    BY <1>14, <1>15, <1>17 DEF Wrong
  <2>3. QED
    BY <1>12, <2>1, <2>2
<1>18. ASSUME t.says = "unusable-material"
       PROVE  t.row.harm \in {"text", "heavy", "zero"}
  <2>1. call.error \in {"Malformed", "OverCeiling", "InvalidParams"} /\ ~ok
    BY <1>10, <1>18
  <2>2. call.error = Error(call, p.try[call.at][1])
    BY <1>3, <2>1 DEF Deserved, DeviceErrors, p
  <2>3. QED
    BY <1>2, <1>3, <1>8, <2>1, <2>2, HarmedMaterial
<1>19. BlameIsDeserved'
  BY <1>14, <1>15, <1>17, <1>18 DEF BlameIsDeserved, Wrong, t
<1>20. QED
  BY <1>1, <1>9, <1>16, <1>19 DEF KInv, Asking, Answered

\* Every step keeps the rows whole and the answers true.
LEMMA NextKInv == IInv /\ KInv /\ [Next]_vars => KInv'
<1>1. SUFFICES ASSUME IInv, KInv, [Next]_vars
               PROVE  KInv'
  OBVIOUS
<1>2. CASE UNCHANGED vars
  BY <1>1, <1>2, UntouchedKInv
<1>3. ASSUME NEW f \in DOMAIN Program, Call(f)
      PROVE  KInv'
  BY <1>1, <1>3, CallKInv
<1>4. CASE Step
  BY <1>1, <1>4, StepKInv
<1>5. CASE DeviceFails
  BY <1>1, <1>5, DeviceFailsKInv
<1>6. CASE TrapsElsewhere
  BY <1>1, <1>6, UntouchedKInv DEF TrapsElsewhere
<1>7. CASE Returns
  BY <1>1, <1>7, ReturnsKInv
<1>8. ASSUME NEW h \in DOMAIN keys, Release(h)
      PROVE  KInv'
  BY <1>1, <1>8, ReleaseKInv
<1>9. ASSUME NEW h \in DOMAIN keys, NEW use \in Uses, NEW id \in Ids, NEW plain \in Plaintexts,
             Write(h, use, id, plain)
      PROVE  KInv'
  BY <1>1, <1>9, QuietKInv DEF Write
<1>10. ASSUME NEW h \in DOMAIN keys, NEW use \in Uses, NEW id \in Ids, Read(h, use, id)
       PROVE  KInv'
  BY <1>1, <1>10, QuietKInv DEF Read
<1>11. QED
  BY <1>1, <1>2, <1>3, <1>4, <1>5, <1>6, <1>7, <1>8, <1>9, <1>10 DEF Next

\* Both invariants hold in every state.
LEMMA AlwaysKInv == Spec => [](IInv /\ KInv)
<1>1. Init => IInv /\ KInv
  BY InitIInv, InitKInv
<1>2. (IInv /\ KInv) /\ [Next]_vars => (IInv /\ KInv)'
  BY NextIInv, NextKInv
<1>3. QED
  BY <1>1, <1>2, PTL DEF Spec

\* A key function that opens a row opens the key that was wrapped, for whoever
\* has the secret, and for nobody else.
\* (owner-open.ts, open.ts; crates/envelope: the unwrap functions)
THEOREM OnlyTheRightSecretOpens == Spec => []OpensWhatWasWrapped
<1>1. IInv /\ KInv => OpensWhatWasWrapped
  BY DEF KInv, Answered
<1>2. QED
  BY <1>1, AlwaysKInv, PTL

\* A secret is said to be wrong only where it is, a row to be unusable only
\* where it was harmed, and neither for a failure of the device.
\* (the code tables of owner-open.ts and open.ts; envelope.ts:18-22)
THEOREM NoneIsBlamedInVain == Spec => []BlameIsDeserved
<1>1. IInv /\ KInv => BlameIsDeserved
  BY DEF KInv, Answered
<1>2. QED
  BY <1>1, AlwaysKInv, PTL

(***************************************************************************)
(* The layout of an object (Layout).                                       *)
(***************************************************************************)
\* Division, as the SMT solver needs it spelt out.
LEMMA Division ==
    ASSUME NEW a \in Nat, NEW b \in Nat \ {0}
    PROVE  /\ a \div b \in Nat
           /\ b * (a \div b) <= a
           /\ a < b * (a \div b) + b
BY Z3

\* One less chunk is one chunk's size less.
LEMMA OneLess ==
    ASSUME NEW c \in Int, NEW s \in Int
    PROVE  (c - 1) * s = c * s - s
BY Z3

\* Products of integers, which the solvers know only on their own.
LEMMA Commutes ==
    ASSUME NEW a \in Int, NEW b \in Int
    PROVE  a * b = b * a
BY Z3

\* And they are integers.
LEMMA ProductIsInt ==
    ASSUME NEW a \in Int, NEW b \in Int
    PROVE  a * b \in Int
BY Z3

\* There is a chunk, and the last one is neither empty nor too long
\* (header.rs: chunk_count, last_chunk_plaintext).
LEMMA Counts ==
    ASSUME NEW h, h.size \in Nat \ {0}, h.length \in Nat \ {0}
    PROVE  /\ ChunkCount(h) \in Nat \ {0}
           /\ LastChunkPlaintext(h) \in 1..h.size
<1> DEFINE s == h.size
           l == h.length
           c == ChunkCount(h)
           p == s * c
<1>1. s \in Nat \ {0} /\ l \in Nat \ {0}
  OBVIOUS
<1>2. l + s - 1 \in Nat
  BY <1>1
<1>3. c = (l + s - 1) \div s
  BY DEF ChunkCount
<1>4. c \in Nat /\ p <= l + s - 1 /\ l + s - 1 < p + s
  <2> HIDE DEF s, l, c
  <2> QED BY <1>1, <1>2, <1>3, Division
<1>5. c # 0
  <2> HIDE DEF s, l, c
  <2>1. SUFFICES ASSUME c = 0 PROVE FALSE
    OBVIOUS
  <2>2. p = 0
    BY <1>1, <2>1
  <2> QED BY <1>1, <1>4, <2>2
<1>6. (c - 1) * s = p - s
  <2> HIDE DEF s, l, c
  <2>1. c \in Int /\ s \in Int
    BY <1>1, <1>4
  <2> QED BY <2>1, OneLess, Commutes
<1>7. p \in Int
  <2> HIDE DEF s, l, c
  <2> QED BY <1>1, <1>4, ProductIsInt
<1>8. LastChunkPlaintext(h) = l - (c - 1) * s
  BY DEF LastChunkPlaintext
<1>9. LastChunkPlaintext(h) \in 1..s
  <2> HIDE DEF s, l, c, p
  <2> QED BY <1>1, <1>4, <1>6, <1>7, <1>8
<1> QED
  BY <1>4, <1>5, <1>9

\* Every chunk lies after the one before it and the last one ends the object;
\* what a chunk holds is between one byte and chunk_size of them, and its tag
\* (header.rs chunk_range and total_object_size, by which envelope.rs decrypt
\* cuts the object).
THEOREM ChunksTile ==
    ASSUME NEW h \in Layouts
    PROVE  /\ ChunkStart(h, 0) = HeaderLen
           /\ ChunkEnd(h, ChunkCount(h) - 1) = TotalObjectSize(h)
           /\ \A i \in 0..(ChunkCount(h) - 2) : ChunkEnd(h, i) = ChunkStart(h, i + 1)
           /\ \A i \in 0..(ChunkCount(h) - 1) :
                ChunkEnd(h, i) - ChunkStart(h, i) \in (TagLen + 1)..(h.size + TagLen)
<1> DEFINE z == CiphertextChunkSize(h)
           c == ChunkCount(h)
           r == LastChunkPlaintext(h)
<1>1. h.size \in Nat \ {0} /\ HeaderLen \in Nat /\ TagLen \in Nat
  BY LayoutAssumption DEF Layouts
<1>2. c \in Nat \ {0} /\ r \in 1..h.size
  BY Counts DEF Layouts
<1>3. z = h.size + TagLen /\ z \in Nat \ {0}
  BY <1>1 DEF CiphertextChunkSize
<1>4. \A i \in Int : ChunkStart(h, i) = i * z + HeaderLen /\ i * z \in Int
  <2> TAKE i \in Int
  <2>1. ChunkStart(h, i) = i * z + HeaderLen
    BY DEF ChunkStart
  <2>2. i * z \in Int
    BY <1>3, ProductIsInt
  <2> QED BY <2>1, <2>2
<1>5. \A i : ChunkEnd(h, i) = ChunkStart(h, i) + IF i = c - 1 THEN r + TagLen ELSE z
  BY DEF ChunkEnd
<1>6. ChunkStart(h, 0) = HeaderLen
  <2>1. 0 * z = 0
    BY <1>3
  <2> QED BY <1>1, <1>4, <2>1
<1>7. ChunkEnd(h, c - 1) = TotalObjectSize(h)
  <2>1. TotalObjectSize(h) = (c - 1) * z + r + TagLen + HeaderLen
    BY DEF TotalObjectSize
  <2>2. ChunkEnd(h, c - 1) = ((c - 1) * z + HeaderLen) + (r + TagLen)
    BY <1>2, <1>4, <1>5
  <2>3. (c - 1) * z \in Int
    BY <1>2, <1>4
  <2> HIDE DEF z, c, r
  <2> QED BY <1>1, <1>2, <2>1, <2>2, <2>3
<1>8. ASSUME NEW i \in 0..(c - 2) PROVE ChunkEnd(h, i) = ChunkStart(h, i + 1)
  <2>1. i \in Int /\ i + 1 \in Int /\ i # c - 1
    BY <1>2
  <2>2. ChunkEnd(h, i) = (i * z + HeaderLen) + z
    BY <1>4, <1>5, <2>1
  <2>3. ((i + 1) - 1) * z = (i + 1) * z - z
    BY <1>3, <2>1, OneLess
  <2>4. (i + 1) - 1 = i
    BY <2>1
  <2>5. i * z = (i + 1) * z - z
    BY <2>3, <2>4
  <2>6. i * z \in Int /\ (i + 1) * z \in Int /\ ChunkStart(h, i + 1) = (i + 1) * z + HeaderLen
    BY <1>4, <2>1
  <2> HIDE DEF z, c, r
  <2> QED BY <1>1, <1>3, <2>2, <2>5, <2>6
<1>9. ASSUME NEW i \in 0..(c - 1)
      PROVE  ChunkEnd(h, i) - ChunkStart(h, i) \in (TagLen + 1)..(h.size + TagLen)
  <2>1. ChunkStart(h, i) \in Int
    BY <1>1, <1>2, <1>4
  <2>2. CASE i = c - 1
    <3>1. ChunkEnd(h, i) = ChunkStart(h, i) + (r + TagLen)
      BY <1>5, <2>2
    <3> HIDE DEF r
    <3> QED BY <1>1, <1>2, <2>1, <3>1
  <2>3. CASE i # c - 1
    <3>1. ChunkEnd(h, i) = ChunkStart(h, i) + z
      BY <1>5, <2>3
    <3> HIDE DEF z
    <3> QED BY <1>1, <1>3, <2>1, <3>1
  <2> QED BY <2>2, <2>3
<1> QED
  BY <1>6, <1>7, <1>8, <1>9

\* A multiple of a number is one, and the next one is that much greater.
LEMMA Multiples ==
    ASSUME NEW m \in Nat, NEW z \in Nat
    PROVE  m * z \in Nat /\ (m + 1) * z = m * z + z
BY Z3

\* What is within the i-th interval of a size is within the first m.
LEMMA InRange ==
    ASSUME NEW i \in Nat, NEW m \in Nat, i + 1 <= m, NEW z \in Nat, NEW k \in 1..z
    PROVE  i * z + k \in 1..(m * z)
<1>1. i * z \in Nat /\ (i + 1) * z = i * z + z  BY Multiples
<1>2. (i + 1) * z <= m * z  BY Z3
<1>3. m * z \in Int  BY ProductIsInt
<1> QED  BY <1>1, <1>2, <1>3

\* What two sequences are, one after the other.
LEMMA Joined ==
    ASSUME NEW S, NEW a \in Seq(S), NEW b \in Seq(S), NEW c, c = a \o b
    PROVE  /\ c \in Seq(S)
           /\ Len(c) = Len(a) + Len(b)
           /\ \A k \in 1..Len(a) : c[k] = a[k]
           /\ \A k \in 1..Len(b) : c[Len(a) + k] = b[k]
OBVIOUS

\* A part of a sequence is what has its elements.
LEMMA Cuts ==
    ASSUME NEW S, NEW R, NEW o \in Seq(S), NEW c \in Seq(R), NEW a \in Nat, NEW m \in Nat,
           a + m <= Len(o), Len(c) = m, \A k \in 1..m : o[a + k] = c[k]
    PROVE  SubSeq(o, a + 1, a + m) = c
<1>1. /\ SubSeq(o, a + 1, a + m) \in Seq(S)
      /\ Len(SubSeq(o, a + 1, a + m)) = m
      /\ \A k \in 1..m : SubSeq(o, a + 1, a + m)[k] = o[a + k]
  OBVIOUS
<1> QED  BY <1>1

\* What is left of a sequence after its first element.
LEMMA TailIs ==
    ASSUME NEW S, NEW o \in Seq(S), Len(o) >= 1
    PROVE  /\ Tail(o) \in Seq(S)
           /\ Len(Tail(o)) = Len(o) - 1
           /\ \A k \in 1..(Len(o) - 1) : Tail(o)[k] = o[k + 1]
OBVIOUS

-----------------------------------------------------------------------------
(***************************************************************************)
(* Objects, and what is found where they were written (Envelope, Keys).    *)
(***************************************************************************)
\* One piece after another.
Joins(seqs, n, f) ==
    f = [i \in 1..n |-> IF i = 1 THEN seqs[i] ELSE f[i - 1] \o seqs[i]]

\* There is such a joining of any pieces.
LEMMA JoinExists ==
    ASSUME NEW seqs, NEW n \in Nat
    PROVE  \E f : Joins(seqs, n, f)
<1> DEFINE S == {m \in Nat : \E f : Joins(seqs, m, f)}
<1>1. 0 \in S
  <2>1. Joins(seqs, 0, [i \in 1..0 |-> <<>>])
    <3>1. \A i \in 1..0 : FALSE  OBVIOUS
    <3> QED  BY <3>1 DEF Joins
  <2> QED  BY <2>1
<1>2. ASSUME NEW m \in Nat, m \in S PROVE m + 1 \in S
  <2>1. PICK g : Joins(seqs, m, g)  BY <1>2
  <2> DEFINE h == [i \in 1..(m + 1) |->
                     IF i = m + 1 THEN (IF i = 1 THEN seqs[i] ELSE g[m] \o seqs[i]) ELSE g[i]]
  <2>2. ASSUME NEW i \in 1..m
        PROVE  h[i] = IF i = 1 THEN seqs[i] ELSE h[i - 1] \o seqs[i]
    <3>1. g[i] = IF i = 1 THEN seqs[i] ELSE g[i - 1] \o seqs[i]  BY <2>1 DEF Joins
    <3>2. h[i] = g[i] /\ (i # 1 => h[i - 1] = g[i - 1])  OBVIOUS
    <3> HIDE DEF h
    <3> QED  BY <3>1, <3>2
  <2>3. h[m + 1] = IF m + 1 = 1 THEN seqs[m + 1] ELSE h[m] \o seqs[m + 1]
    <3>1. h[m + 1] = IF m + 1 = 1 THEN seqs[m + 1] ELSE g[m] \o seqs[m + 1]  OBVIOUS
    <3>2. m + 1 # 1 => h[m] = g[m]  OBVIOUS
    <3> HIDE DEF h
    <3> QED  BY <3>1, <3>2
  <2>4. (m + 1) - 1 = m /\ \A i \in 1..(m + 1) : i \in 1..m \/ i = m + 1  OBVIOUS
  <2>5. h = [i \in 1..(m + 1) |-> h[i]]  OBVIOUS
  <2> HIDE DEF h
  <2>6. \A i \in 1..(m + 1) : h[i] = IF i = 1 THEN seqs[i] ELSE h[i - 1] \o seqs[i]
    BY <2>2, <2>3, <2>4
  <2>7. Joins(seqs, m + 1, h)  BY <2>5, <2>6, Zenon DEF Joins
  <2> QED  BY <2>7
<1>3. Nat \subseteq S
  <2> HIDE DEF S
  <2> QED  BY <1>1, <1>2, Induction
<1> QED  BY <1>3

\* How much is before a piece, of pieces of one size.
Past(i, z) == (i - 1) * z

\* It grows by that size, and nothing within the first m pieces is past them.
LEMMA PastIs ==
    ASSUME NEW z \in Nat
    PROVE  /\ Past(1, z) = 0
           /\ \A i \in Nat \ {0} : Past(i, z) \in Nat /\ Past(i + 1, z) = Past(i, z) + z
           /\ \A i, m \in Nat \ {0} : i <= m => \A k \in 1..z : Past(i, z) + k \in 1..Past(m + 1, z)
<1>1. Past(1, z) = 0  BY DEF Past
<1>2. ASSUME NEW i \in Nat \ {0} PROVE Past(i, z) \in Nat /\ Past(i + 1, z) = Past(i, z) + z
  <2> DEFINE j == i - 1
  <2>1. j \in Nat /\ i = j + 1 /\ (i + 1) - 1 = j + 1  OBVIOUS
  <2>2. Past(i, z) = j * z  BY DEF Past
  <2>3. Past(i + 1, z) = (j + 1) * z  BY <2>1 DEF Past
  <2> HIDE DEF j
  <2> QED  BY <2>1, <2>2, <2>3, Multiples
<1>3. ASSUME NEW i \in Nat \ {0}, NEW m \in Nat \ {0}, i <= m, NEW k \in 1..z
      PROVE  Past(i, z) + k \in 1..Past(m + 1, z)
  <2> DEFINE j == i - 1
  <2>1. j \in Nat /\ j + 1 <= m  BY <1>3
  <2>2. Past(i, z) = j * z  BY DEF Past
  <2>3. Past(m + 1, z) = m * z
    <3>1. (m + 1) - 1 = m  OBVIOUS
    <3> QED  BY <3>1 DEF Past
  <2>4. j * z + k \in 1..(m * z)
    <3> HIDE DEF j
    <3> QED  BY <2>1, InRange
  <2> HIDE DEF j
  <2> QED  BY <2>2, <2>3, <2>4
<1> QED  BY <1>1, <1>2, <1>3

\* Of pieces of one size, but for the last, each is found at its place.
Placed(whole, S, n, z, seqs) ==
    /\ whole \in Seq(S)
    /\ Len(whole) = Past(n, z) + Len(seqs[n])
    /\ \A i \in 1..n : \A k \in 1..Len(seqs[i]) : whole[Past(i, z) + k] = seqs[i][k]

\* A joining places them so.
LEMMA JoinPlaces ==
    ASSUME NEW S, NEW n \in Nat \ {0}, NEW z \in Nat, NEW seqs \in [1..n -> Seq(S)],
           \A i \in 1..(n - 1) : Len(seqs[i]) = z,
           NEW f, Joins(seqs, n, f)
    PROVE  Placed(f[n], S, n, z, seqs)
<1> DEFINE P(m) == Placed(f[m], S, m, z, seqs)
           T == {m \in Nat : m + 1 <= n => P(m + 1)}
<1>1. \A i \in 1..n : f[i] = IF i = 1 THEN seqs[i] ELSE f[i - 1] \o seqs[i]
  BY DEF Joins
<1>2. 0 \in T
  <2>1. f[1] = seqs[1] /\ seqs[1] \in Seq(S) /\ Len(seqs[1]) \in Nat  BY <1>1
  <2>2. \A i \in 1..1 : i = 1  OBVIOUS
  <2>3. Past(1, z) = 0  BY PastIs
  <2>4. P(1)  BY <2>1, <2>2, <2>3 DEF Placed
  <2>5. 0 + 1 = 1  OBVIOUS
  <2> HIDE DEF P
  <2> QED  BY <2>4, <2>5
<1>3. ASSUME NEW m \in Nat, m \in T PROVE m + 1 \in T
  <2>1. SUFFICES ASSUME m + 2 <= n PROVE P(m + 2)
    <3> HIDE DEF P
    <3>1. (m + 1) + 1 = m + 2  OBVIOUS
    <3> QED  BY <3>1
  <2>2. Placed(f[m + 1], S, m + 1, z, seqs)  BY <1>3, <2>1
  <2>3. /\ m + 2 \in 1..n /\ m + 1 \in 1..(n - 1) /\ m + 1 \in 1..n /\ m + 1 \in Nat \ {0}
        /\ (m + 2) - 1 = m + 1 /\ m + 2 # 1 /\ (m + 1) + 1 = m + 2
    BY <2>1
  <2>4. f[m + 2] = f[m + 1] \o seqs[m + 2]  BY <1>1, <2>3
  <2>5. seqs[m + 2] \in Seq(S) /\ f[m + 1] \in Seq(S)  BY <2>2, <2>3 DEF Placed
  <2>6. Len(f[m + 1]) = Past(m + 2, z) /\ Past(m + 2, z) \in Nat
    <3>1. Past(m + 2, z) = Past(m + 1, z) + z /\ Past(m + 1, z) \in Nat  BY <2>3, PastIs
    <3>2. Len(seqs[m + 1]) = z  BY <2>3
    <3> QED  BY <2>2, <3>1, <3>2 DEF Placed
  <2>7. f[m + 2] \in Seq(S) /\ Len(f[m + 2]) = Past(m + 2, z) + Len(seqs[m + 2])
    <3> DEFINE a == f[m + 1]
               b == seqs[m + 2]
               c == f[m + 2]
    <3>1. a \in Seq(S) /\ b \in Seq(S) /\ c = a \o b  BY <2>4, <2>5
    <3> HIDE DEF a, b, c
    <3>2. c \in Seq(S) /\ Len(c) = Len(a) + Len(b)  BY <3>1, Joined
    <3> QED  BY <2>6, <3>2 DEF a, b, c
  <2> DEFINE joined ==
             /\ \A k \in 1..Len(f[m + 1]) : f[m + 2][k] = f[m + 1][k]
             /\ \A k \in 1..Len(seqs[m + 2]) : f[m + 2][Len(f[m + 1]) + k] = seqs[m + 2][k]
  <2>9. joined
    <3> DEFINE a == f[m + 1]
               b == seqs[m + 2]
               c == f[m + 2]
    <3>1. a \in Seq(S) /\ b \in Seq(S) /\ c = a \o b  BY <2>4, <2>5
    <3> HIDE DEF a, b, c
    <3>2. /\ \A k \in 1..Len(a) : c[k] = a[k]
          /\ \A k \in 1..Len(b) : c[Len(a) + k] = b[k]
      BY <3>1, Joined
    <3> QED  BY <3>2 DEF a, b, c
  <2> HIDE DEF joined
  <2>8. ASSUME NEW i \in 1..(m + 2), NEW k \in 1..Len(seqs[i])
        PROVE  f[m + 2][Past(i, z) + k] = seqs[i][k]
    <3>1. CASE i = m + 2
      BY <2>6, <2>8, <2>9, <3>1 DEF joined
    <3>2. CASE i # m + 2
      <4>1. i \in 1..(m + 1) /\ i \in 1..(n - 1) /\ i \in Nat \ {0} /\ i <= m + 1  BY <2>1, <3>2
      <4>2. Len(seqs[i]) = z /\ k \in 1..z  BY <4>1
      <4>3. Past(i, z) + k \in 1..Past(m + 2, z)
        BY <2>3, <4>1, <4>2, PastIs
      <4>4. f[m + 2][Past(i, z) + k] = f[m + 1][Past(i, z) + k]
        BY <2>6, <2>9, <4>3 DEF joined
      <4>5. f[m + 1][Past(i, z) + k] = seqs[i][k]  BY <2>2, <2>8, <4>1 DEF Placed
      <4> QED  BY <4>4, <4>5
    <3> QED  BY <3>1, <3>2
  <2> QED  BY <2>7, <2>8 DEF Placed
<1>4. Nat \subseteq T
  <2> HIDE DEF T
  <2> QED  BY <1>2, <1>3, Induction
<1>5. n - 1 \in Nat /\ (n - 1) + 1 = n  OBVIOUS
<1>6. P(n)
  <2> HIDE DEF P
  <2>1. n - 1 \in T  BY <1>4, <1>5
  <2>2. P((n - 1) + 1)  BY <1>5, <2>1
  <2> QED  BY <1>5, <2>2
<1> QED  BY <1>6

\* FlattenSeq joins.
LEMMA FlattenPlaces ==
    ASSUME NEW S, NEW n \in Nat \ {0}, NEW z \in Nat, NEW seqs \in [1..n -> Seq(S)],
           \A i \in 1..(n - 1) : Len(seqs[i]) = z
    PROVE  Placed(FlattenSeq(seqs), S, n, z, seqs)
<1> DEFINE F == CHOOSE f : f = [i \in 1..Len(seqs) |->
                                  IF i = 1 THEN seqs[i] ELSE f[i - 1] \o seqs[i]]
<1>1. Len(seqs) = n
  <2>1. seqs \in Seq(Seq(S))  OBVIOUS
  <2> QED  OBVIOUS
<1>2. FlattenSeq(seqs) = F[Len(seqs)]
  BY <1>1 DEF FlattenSeq
<1>3. Joins(seqs, n, F)
  <2>1. \E f : Joins(seqs, n, f)  BY JoinExists
  <2>2. F = CHOOSE f : Joins(seqs, n, f)  BY <1>1 DEF Joins
  <2> HIDE DEF F
  <2> QED  BY <2>1, <2>2
<1> HIDE DEF F
<1>4. Placed(F[n], S, n, z, seqs)
  BY <1>3, JoinPlaces
<1> QED  BY <1>1, <1>2, <1>4

\* Every place within pieces of one size, but for the last, is a place of one of them.
LEMMA Covered ==
    ASSUME NEW n \in Nat \ {0}, NEW z \in Nat \ {0}, NEW r \in Nat, NEW j \in 1..(Past(n, z) + r)
    PROVE  \E i \in 1..n : \E k \in 1..(IF i = n THEN r ELSE z) : j = Past(i, z) + k
<1>1. Past(n, z) \in Nat  BY PastIs
<1>2. CASE j > Past(n, z)
  <2>1. j - Past(n, z) \in 1..r /\ j = Past(n, z) + (j - Past(n, z))  BY <1>1, <1>2
  <2> QED  BY <2>1
<1>3. CASE j <= Past(n, z)
  <2> DEFINE q == (j - 1) \div z
  <2>1. j - 1 \in Nat  BY <1>1
  <2>2. q \in Nat /\ z * q <= j - 1 /\ j - 1 < z * q + z  BY <2>1, Division
  <2> HIDE DEF q
  <2>3. Past(q + 1, z) = z * q
    <3>1. (q + 1) - 1 = q  BY <2>2
    <3> QED  BY <2>2, <3>1, Commutes DEF Past
  <2>4. z * q \in Nat  BY <2>2, <2>3, PastIs
  <2>5. j - z * q \in 1..z /\ j = z * q + (j - z * q)  BY <1>1, <2>2, <2>4
  <2>6. q + 1 < n
    <3>1. SUFFICES ASSUME n <= q + 1 PROVE FALSE  BY <2>2
    <3>2. CASE n = 1
      <4>1. Past(n, z) = 0  BY <3>2, PastIs
      <4> QED  BY <1>3, <4>1
    <3>3. CASE n # 1
      <4> DEFINE m == n - 1
      <4>1. m \in Nat \ {0} /\ m <= q /\ m + 1 = n  BY <2>2, <3>1, <3>3
      <4>2. Past(n, z) = Past(m, z) + z /\ Past(m, z) \in Nat
        <5> HIDE DEF m
        <5> QED  BY <4>1, PastIs
      <4>3. Past(m, z) + z \in 1..Past(q + 1, z)
        <5> HIDE DEF m
        <5>1. z \in 1..z /\ q \in Nat \ {0}  BY <2>2, <4>1
        <5> QED  BY <4>1, <5>1, PastIs
      <4> QED  BY <1>1, <1>3, <2>2, <2>3, <2>4, <4>2, <4>3
    <3> QED  BY <3>2, <3>3
  <2> DEFINE i == q + 1
             k == j - Past(i, z)
  <2>7. i \in 1..n /\ i # n  BY <2>2, <2>6
  <2>8. k \in 1..z /\ j = Past(i, z) + k
    BY <2>3, <2>4, <2>5
  <2> HIDE DEF i, k
  <2> QED  BY <2>7, <2>8
<1> QED  BY <1>1, <1>2, <1>3

\* What a header says of its object, counted in pieces.
LEMMA HeaderTiles ==
    ASSUME NEW h, h.size \in Nat \ {0}, h.length \in Nat \ {0}
    PROVE  LET n == ChunkCount(h)
               z == h.size + TagLen
               r == LastChunkPlaintext(h) + TagLen
           IN  /\ n \in Nat \ {0} /\ z \in Nat \ {0} /\ r \in 1..z
               /\ TotalObjectSize(h) = Past(n, z) + r + 1
               /\ h.length = Past(n, h.size) + LastChunkPlaintext(h)
               /\ \A i \in 1..n : /\ ChunkStart(h, i - 1) = Past(i, z) + 1
                                  /\ ChunkEnd(h, i - 1) = Past(i, z) + 1 + (IF i = n THEN r ELSE z)
<1> DEFINE n == ChunkCount(h)
           z == h.size + TagLen
           l == LastChunkPlaintext(h)
           r == l + TagLen
<1>1. n \in Nat \ {0} /\ l \in 1..h.size  BY Counts
<1>2. z \in Nat \ {0} /\ r \in 1..z /\ HeaderLen = 1 /\ TagLen \in Nat
  <2> HIDE DEF l
  <2> QED  BY <1>1, LayoutAssumption, EnvelopeAssumption
<1>3. TotalObjectSize(h) = Past(n, z) + r + 1
  <2>1. TotalObjectSize(h) = Past(n, z) + l + TagLen + 1
    BY <1>2 DEF TotalObjectSize, CiphertextChunkSize, Past
  <2>2. Past(n, z) \in Nat
    <3> HIDE DEF n, z
    <3> QED  BY <1>1, <1>2, PastIs
  <2> HIDE DEF n, z, l
  <2> QED  BY <1>1, <1>2, <2>1, <2>2
<1>4. h.length = Past(n, h.size) + l
  <2>1. l = h.length - Past(n, h.size)
    BY DEF LastChunkPlaintext, Past
  <2>2. Past(n, h.size) \in Nat
    <3> HIDE DEF n
    <3> QED  BY <1>1, PastIs
  <2> HIDE DEF n, l
  <2> QED  BY <2>1, <2>2
<1>5. ASSUME NEW i \in 1..n
      PROVE  /\ ChunkStart(h, i - 1) = Past(i, z) + 1
             /\ ChunkEnd(h, i - 1) = Past(i, z) + 1 + (IF i = n THEN r ELSE z)
  <2>1. ChunkStart(h, i - 1) = Past(i, z) + 1
    BY <1>2 DEF ChunkStart, CiphertextChunkSize, Past
  <2>2. i - 1 = n - 1 <=> i = n
    <3> HIDE DEF n
    <3> QED  BY <1>1
  <2>3. ChunkEnd(h, i - 1) = ChunkStart(h, i - 1) + (IF i - 1 = n - 1 THEN r ELSE z)
    BY DEF ChunkEnd, CiphertextChunkSize
  <2> HIDE DEF n, z, r
  <2> QED  BY <2>1, <2>2, <2>3
<1> HIDE DEF n, z, l
<1> QED  BY <1>1, <1>2, <1>3, <1>4, <1>5 DEF n, z, l

\* The pieces a plaintext is cut in.
Portion(plain, s, i) ==
    SubSeq(plain, Past(i, s) + 1,
           IF Past(i + 1, s) < Len(plain) THEN Past(i + 1, s) ELSE Len(plain))

\* All of one length but the last, and together the whole.
LEMMA Portions ==
    ASSUME NEW S, NEW plain \in Seq(S), NEW s \in Nat \ {0}, NEW n \in Nat \ {0}, NEW l \in 1..s,
           Len(plain) = Past(n, s) + l
    PROVE  /\ \A i \in 1..n : /\ Portion(plain, s, i) \in Seq(S)
                              /\ Len(Portion(plain, s, i)) = IF i = n THEN l ELSE s
           /\ FlattenSeq([i \in 1..n |-> Portion(plain, s, i)]) = plain
<1> DEFINE P == [i \in 1..n |-> Portion(plain, s, i)]
           F == FlattenSeq(P)
<1>1. ASSUME NEW i \in 1..n
      PROVE  /\ Past(i, s) \in Nat
             /\ Past(i, s) + (IF i = n THEN l ELSE s) =
                  (IF Past(i + 1, s) < Len(plain) THEN Past(i + 1, s) ELSE Len(plain))
             /\ Past(i, s) + (IF i = n THEN l ELSE s) <= Len(plain)
  <2>1. i \in Nat \ {0} /\ n \in Nat \ {0}  OBVIOUS
  <2>2. Past(i, s) \in Nat /\ Past(i + 1, s) = Past(i, s) + s /\ Past(n, s) \in Nat  BY <2>1, PastIs
  <2>3. i # n => Past(i + 1, s) <= Past(n, s)
    <3>1. SUFFICES ASSUME i # n PROVE Past(i + 1, s) <= Past(n, s)  OBVIOUS
    <3>2. n - 1 \in Nat \ {0} /\ i <= n - 1 /\ (n - 1) + 1 = n /\ s \in 1..s  BY <3>1
    <3>3. Past(i, s) + s \in 1..Past(n, s)  BY <2>1, <3>2, PastIs
    <3> QED  BY <2>2, <3>3
  <2> QED  BY <2>2, <2>3
<1>2. ASSUME NEW i \in 1..n
      PROVE  /\ Portion(plain, s, i) \in Seq(S)
             /\ Len(Portion(plain, s, i)) = IF i = n THEN l ELSE s
             /\ \A k \in 1..(IF i = n THEN l ELSE s) : Portion(plain, s, i)[k] = plain[Past(i, s) + k]
  <2> DEFINE a == Past(i, s)
             m == IF i = n THEN l ELSE s
  <2>1. Portion(plain, s, i) = SubSeq(plain, a + 1, a + m)  BY <1>1 DEF Portion
  <2>2. a \in Nat /\ m \in Nat /\ a + m <= Len(plain)  BY <1>1
  <2> HIDE DEF a, m
  <2>3. /\ SubSeq(plain, a + 1, a + m) \in Seq(S)
        /\ Len(SubSeq(plain, a + 1, a + m)) = m
        /\ \A k \in 1..m : SubSeq(plain, a + 1, a + m)[k] = plain[a + k]
    BY <2>2
  <2> QED  BY <2>1, <2>3 DEF a, m
<1>3. P \in [1..n -> Seq(S)] /\ (\A i \in 1..(n - 1) : Len(P[i]) = s) /\ Len(P[n]) = l
  BY <1>2
<1>4. Placed(F, S, n, s, P)
  <2> HIDE DEF P
  <2> QED  BY <1>3, FlattenPlaces
<1>5. F \in Seq(S) /\ Len(F) = Len(plain)
  <2> HIDE DEF P, F
  <2> QED  BY <1>3, <1>4 DEF Placed
<1>6. ASSUME NEW j \in 1..Len(plain) PROVE F[j] = plain[j]
  <2>1. PICK i \in 1..n : \E k \in 1..(IF i = n THEN l ELSE s) : j = Past(i, s) + k
    BY Covered
  <2>a. PICK k \in 1..(IF i = n THEN l ELSE s) : j = Past(i, s) + k
    BY <2>1
  <2>2. Len(P[i]) = (IF i = n THEN l ELSE s) /\ P[i][k] = plain[Past(i, s) + k]
    BY <1>2
  <2> HIDE DEF P, F
  <2>3. F[Past(i, s) + k] = P[i][k]  BY <1>4, <2>2 DEF Placed
  <2> QED  BY <2>a, <2>2, <2>3
<1>7. F = plain
  <2> HIDE DEF F
  <2> QED  BY <1>5, <1>6
<1> QED  BY <1>2, <1>7

\* What is sealed of a piece of an object, and the object's bytes.
Sealed(key, h, i, plain) ==
    [key |-> key, nonce |-> Nonce(h, i), aad |-> Aad(h, i), plain |-> plain]

BytesOf(key, h, n, plain) ==
    [of : {Sealed(key, h, i - 1, Portion(plain, ChunkSize, i)) : i \in 1..n}, at : Nat]

\* A ciphertext is as long as what it seals and a tag, and says of every byte what it is of.
LEMMA Ciphers ==
    ASSUME NEW key, NEW nonce, NEW aad, NEW S, NEW plain \in Seq(S)
    PROVE  LET sealed == [key |-> key, nonce |-> nonce, aad |-> aad, plain |-> plain]
               c == AeadEncrypt(key, nonce, aad, plain)
           IN  /\ c \in Seq([of : {sealed}, at : Nat])
               /\ Len(c) = Len(plain) + TagLen
               /\ plain # <<>> => AeadDecrypt(key, nonce, aad, c) = Ok(plain)
<1> DEFINE sealed == [key |-> key, nonce |-> nonce, aad |-> aad, plain |-> plain]
           c == AeadEncrypt(key, nonce, aad, plain)
           m == Len(plain) + TagLen
<1>1. m \in Nat /\ (plain # <<>> => m # 0)
  BY LayoutAssumption
<1>2. c = [k \in 1..m |-> [of |-> sealed, at |-> k]]
  BY DEF AeadEncrypt
<1>3. \A k \in 1..m : [of |-> sealed, at |-> k] \in [of : {sealed}, at : Nat]
  BY <1>1
<1>4. c \in Seq([of : {sealed}, at : Nat]) /\ Len(c) = m
  <2> DEFINE B == [of : {sealed}, at : Nat]
             e(k) == [of |-> sealed, at |-> k]
  <2>1. c = [k \in 1..m |-> e(k)] /\ \A k \in 1..m : e(k) \in B
    BY <1>2, <1>3
  <2> HIDE DEF c, m, B, e
  <2>2. c \in [1..m -> B]  BY <2>1
  <2>3. c \in Seq(B) /\ Len(c) = m  BY <1>1, <2>2
  <2> QED  BY <2>3 DEF B
<1>5. ASSUME plain # <<>> PROVE AeadDecrypt(key, nonce, aad, c) = Ok(plain)
  <2>1. 1 \in 1..m  BY <1>1, <1>5
  <2>2. c[1] = [of |-> sealed, at |-> 1] /\ c # <<>>
    <3> HIDE DEF sealed, m, c
    <3> QED  BY <1>2, <1>4, <2>1
  <2>3. "of" \in DOMAIN c[1] /\ c[1].of.plain = plain
    <3> HIDE DEF c
    <3> QED  BY <2>2
  <2>4. c = AeadEncrypt(key, nonce, aad, c[1].of.plain)
    <3>1. c = AeadEncrypt(key, nonce, aad, plain)  OBVIOUS
    <3> HIDE DEF c
    <3> QED  BY <2>3, <3>1
  <2> HIDE DEF c
  <2> QED  BY <2>2, <2>3, <2>4 DEF AeadDecrypt
<1> QED  BY <1>4, <1>5

\* An object, as it was written.
Shape(key, h, plain, o) ==
    /\ h.size = ChunkSize /\ h.length = Len(plain) /\ Len(plain) \in Nat \ {0}
    /\ ChunkCount(h) \in Nat \ {0}
    /\ ~SizeOverflows(h)
    /\ o \in Seq({h} \cup BytesOf(key, h, ChunkCount(h), plain)) /\ Len(o) = TotalObjectSize(h)
    /\ o[1] = h /\ \A j \in 2..Len(o) : o[j] \in BytesOf(key, h, ChunkCount(h), plain)
    /\ \A i \in 1..ChunkCount(h) :
         /\ SubSeq(o, ChunkStart(h, i - 1) + 1, ChunkEnd(h, i - 1))
              = EncryptChunk(key, h, i - 1, Portion(plain, ChunkSize, i))
         /\ DecryptChunk(key, h, i - 1, EncryptChunk(key, h, i - 1, Portion(plain, ChunkSize, i)))
              = Ok(Portion(plain, ChunkSize, i))
    /\ FlattenSeq([i \in 1..ChunkCount(h) |-> Portion(plain, ChunkSize, i)]) = plain

\* An encrypted object has this shape.
LEMMA ObjectIs ==
    ASSUME NEW key, NEW id, NEW nonce, NEW plain \in Plaintexts
    PROVE  Shape(key, Header(id, nonce, ChunkSize, Len(plain)), plain, EncryptObject(key, id, nonce, plain))
<1> DEFINE h == Header(id, nonce, ChunkSize, Len(plain))
           o == EncryptObject(key, id, nonce, plain)
           n == ChunkCount(h)
           B == BytesOf(key, h, n, plain)
           z == ChunkSize + TagLen
           l == LastChunkPlaintext(h)
           r == l + TagLen
           C == [i \in 1..n |-> EncryptChunk(key, h, i - 1, Portion(plain, ChunkSize, i))]
           F == FlattenSeq(C)
<1>1. /\ h.size = ChunkSize /\ h.length = Len(plain) /\ ChunkSize \in Nat \ {0}
      /\ plain \in Seq(Range(plain)) /\ Len(plain) \in Nat \ {0}
  <2>1. plain \in Seq(Range(plain)) \ {<<>>}  BY ObjectsAssumption
  <2>2. Len(plain) \in Nat \ {0}  BY <2>1
  <2> QED  BY <2>1, <2>2, EnvelopeAssumption DEF Header
<1>2. ~SizeOverflows(h)
  <2>1. ~SizeOverflows([size |-> ChunkSize, length |-> Len(plain)])  BY ObjectsAssumption
  <2> QED  BY <2>1 DEF Header, SizeOverflows, TotalObjectSize, ChunkCount, CiphertextChunkSize, LastChunkPlaintext
<1> HIDE DEF h
<1>3. /\ n \in Nat \ {0} /\ z \in Nat \ {0} /\ r \in 1..z
      /\ TotalObjectSize(h) = Past(n, z) + r + 1
      /\ Len(plain) = Past(n, ChunkSize) + l
      /\ \A i \in 1..n : /\ ChunkStart(h, i - 1) = Past(i, z) + 1
                         /\ ChunkEnd(h, i - 1) = Past(i, z) + 1 + (IF i = n THEN r ELSE z)
  BY <1>1, HeaderTiles
<1>4. l \in 1..ChunkSize
  BY <1>1, Counts
<1>5. /\ \A i \in 1..n : /\ Portion(plain, ChunkSize, i) \in Seq(Range(plain))
                         /\ Len(Portion(plain, ChunkSize, i)) = IF i = n THEN l ELSE ChunkSize
      /\ FlattenSeq([i \in 1..n |-> Portion(plain, ChunkSize, i)]) = plain
  <2> HIDE DEF n, l
  <2> QED  BY <1>1, <1>3, <1>4, Portions
<1>6. ASSUME NEW i \in 1..n
      PROVE  /\ C[i] \in Seq(B) /\ Len(C[i]) = (IF i = n THEN r ELSE z)
             /\ DecryptChunk(key, h, i - 1, C[i]) = Ok(Portion(plain, ChunkSize, i))
  <2> DEFINE p == Portion(plain, ChunkSize, i)
             s == Sealed(key, h, i - 1, p)
  <2>1. p \in Seq(Range(plain)) /\ Len(p) = (IF i = n THEN l ELSE ChunkSize)  BY <1>5
  <2>2. p # <<>>
    <3> HIDE DEF p, n, l
    <3> QED  BY <1>1, <1>4, <2>1
  <2>3. C[i] = AeadEncrypt(key, Nonce(h, i - 1), Aad(h, i - 1), p)  BY DEF EncryptChunk
  <2>4. /\ C[i] \in Seq([of : {s}, at : Nat]) /\ Len(C[i]) = Len(p) + TagLen
        /\ AeadDecrypt(key, Nonce(h, i - 1), Aad(h, i - 1), C[i]) = Ok(p)
    <3> DEFINE c == AeadEncrypt(key, Nonce(h, i - 1), Aad(h, i - 1), p)
    <3>1. /\ c \in Seq([of : {s}, at : Nat]) /\ Len(c) = Len(p) + TagLen
          /\ AeadDecrypt(key, Nonce(h, i - 1), Aad(h, i - 1), c) = Ok(p)
      <4> HIDE DEF p, n
      <4> QED  BY <2>1, <2>2, Ciphers DEF Sealed
    <3> HIDE DEF p, C, s
    <3> QED  BY <2>3, <3>1
  <2>5. [of : {s}, at : Nat] \subseteq B
    <3>1. s \in {Sealed(key, h, j - 1, Portion(plain, ChunkSize, j)) : j \in 1..n}  OBVIOUS
    <3> HIDE DEF s, n
    <3> QED  BY <3>1 DEF BytesOf
  <2>6. Len(C[i]) = (IF i = n THEN r ELSE z)
    <3> HIDE DEF p, C, n
    <3> QED  BY <2>1, <2>4
  <2>7. C[i] \in Seq(B)
    <3> DEFINE c == C[i]
               A == [of : {s}, at : Nat]
    <3>1. c \in Seq(A) /\ A \subseteq B  BY <2>4, <2>5
    <3> HIDE DEF c, A, B
    <3>2. c \in Seq(B)  BY <3>1
    <3> QED  BY <3>2 DEF c
  <2> HIDE DEF C
  <2> QED  BY <2>4, <2>6, <2>7 DEF DecryptChunk
<1>7. C \in [1..n -> Seq(B)] /\ (\A i \in 1..(n - 1) : Len(C[i]) = z) /\ Len(C[n]) = r
  <2>1. \A i \in 1..n : C[i] \in Seq(B)  BY <1>6
  <2>2. \A i \in 1..n : Len(C[i]) = (IF i = n THEN r ELSE z)  BY <1>6
  <2>3. C = [i \in 1..n |-> C[i]]  OBVIOUS
  <2> HIDE DEF C, B, n
  <2> QED  BY <1>3, <2>1, <2>2, <2>3
<1>8. Placed(F, B, n, z, C)
  <2> HIDE DEF C, B, n, z
  <2> QED  BY <1>3, <1>7, FlattenPlaces
<1>9. o = <<h>> \o F
  <2>1. ASSUME NEW i \in 1..n
        PROVE  SubSeq(plain, (i - 1) * h.size + 1,
                      IF ((i - 1) + 1) * h.size < Len(plain) THEN ((i - 1) + 1) * h.size ELSE Len(plain))
                 = Portion(plain, ChunkSize, i)
    <3>1. (i - 1) + 1 = (i + 1) - 1  OBVIOUS
    <3> QED  BY <1>1, <3>1 DEF Portion, Past
  <2>2. o = <<h>> \o FlattenSeq([i \in 1..n |->
                EncryptChunk(key, h, i - 1,
                   SubSeq(plain, (i - 1) * h.size + 1,
                          IF ((i - 1) + 1) * h.size < Len(plain) THEN ((i - 1) + 1) * h.size ELSE Len(plain)))])
    BY DEF EncryptObject, h
  <2> QED  BY <2>1, <2>2
<1>10. /\ o \in Seq({h} \cup B) /\ Len(o) = Len(F) + 1 /\ o[1] = h
       /\ Len(F) = Past(n, z) + r /\ F \in Seq(B) /\ Past(n, z) \in Nat
       /\ \A j \in 1..Len(F) : o[j + 1] = F[j]
  <2>1. F \in Seq(B) /\ Len(F) = Past(n, z) + r  BY <1>7, <1>8 DEF Placed
  <2>2. Past(n, z) \in Nat
    <3> HIDE DEF n, z
    <3> QED  BY <1>3, PastIs
  <2> HIDE DEF F, B, n, z, l, o
  <2>3. <<h>> \in Seq({h} \cup B) /\ F \in Seq({h} \cup B)  BY <2>1
  <2> QED  BY <1>9, <2>1, <2>2, <2>3
<1>11. Len(o) = TotalObjectSize(h) /\ \A j \in 2..Len(o) : o[j] \in B
  <2> HIDE DEF F, B, n, z, l, o
  <2>1. Len(o) = TotalObjectSize(h)  BY <1>3, <1>10
  <2>2. \A j \in 2..Len(o) : j - 1 \in 1..Len(F) /\ (j - 1) + 1 = j  BY <1>10
  <2> QED  BY <1>10, <2>1, <2>2
<1>12. ASSUME NEW i \in 1..n
       PROVE  SubSeq(o, ChunkStart(h, i - 1) + 1, ChunkEnd(h, i - 1)) = C[i]
  <2> DEFINE a == Past(i, z) + 1
             m == Len(C[i])
  <2>1. ChunkStart(h, i - 1) = a /\ ChunkEnd(h, i - 1) = a + m  BY <1>3, <1>6
  <2>2. C[i] \in Seq(B) /\ m \in Nat  BY <1>6
  <2>3. Past(i, z) \in Nat /\ a \in Nat \ {0}
    <3> HIDE DEF n, z
    <3>1. i \in Nat \ {0} /\ z \in Nat  BY <1>3
    <3>2. Past(i, z) \in Nat  BY <3>1, PastIs
    <3> QED  BY <3>2
  <2>4. a + m <= Len(o)
    <3>1. i # n => Past(i, z) + z \in 1..Past(n, z)
      <4>1. SUFFICES ASSUME i # n PROVE Past(i, z) + z \in 1..Past(n, z)  OBVIOUS
      <4>2. /\ i \in Nat \ {0} /\ n - 1 \in Nat \ {0} /\ i <= n - 1 /\ (n - 1) + 1 = n /\ z \in 1..z
        <5> HIDE DEF n, z
        <5> QED  BY <1>3, <4>1
      <4> HIDE DEF n, z
      <4> QED  BY <1>3, <4>2, PastIs
    <3>2. m = (IF i = n THEN r ELSE z)  BY <1>6
    <3>3. Past(n, z) \in Nat /\ r \in 1..z /\ z \in Nat  BY <1>3, <1>10
    <3>4. Len(o) = Past(n, z) + r + 1  BY <1>10
    <3> DEFINE e == Past(n, z)
               b == Past(i, z)
               w == Len(o)
    <3>5. /\ e \in Nat /\ b \in Nat /\ w = e + r + 1 /\ (i # n => b + z <= e)
          /\ (i = n => b = e)
      BY <2>3, <3>1, <3>3, <3>4
    <3> HIDE DEF e, b, w, n, z, r
    <3>6. b + 1 + (IF i = n THEN r ELSE z) <= w  BY <3>3, <3>5
    <3> QED  BY <3>2, <3>6 DEF b, w
  <2>5. \A k \in 1..m : o[a + k] = C[i][k]
    <3>1. \A k \in 1..m : F[Past(i, z) + k] = C[i][k]  BY <1>8 DEF Placed
    <3> HIDE DEF C, F, n, z, o
    <3>2. ASSUME NEW k \in 1..m PROVE o[a + k] = C[i][k]
      <4>1. Past(i, z) + k \in 1..Len(F) /\ (Past(i, z) + k) + 1 = a + k
        <5> DEFINE b == Past(i, z)
                   v == Len(F)
                   w == Len(o)
        <5>1. b \in Nat /\ v \in Nat /\ w = v + 1 /\ m \in Nat /\ a = b + 1 /\ a + m <= w
          BY <1>10, <2>2, <2>3, <2>4
        <5> HIDE DEF a, b, v, w, m
        <5>2. b + k \in 1..v /\ (b + k) + 1 = a + k  BY <5>1
        <5> QED  BY <5>2 DEF b, v
      <4> QED  BY <1>10, <3>1, <4>1
    <3> QED  BY <3>2
  <2> HIDE DEF C, a, m, o, n, B
  <2>6. SubSeq(o, a + 1, a + m) = C[i]
    <3> DEFINE c == C[i]
    <3>1. c \in Seq(B) /\ m = Len(c) /\ \A k \in 1..m : o[a + k] = c[k]  BY <2>2, <2>5 DEF m
    <3> HIDE DEF c
    <3>2. SubSeq(o, a + 1, a + m) = c  BY <1>10, <2>2, <2>3, <2>4, <3>1, Cuts
    <3> QED  BY <3>2 DEF c
  <2> QED  BY <2>1, <2>6
<1>13. \A i \in 1..n : C[i] = EncryptChunk(key, h, i - 1, Portion(plain, ChunkSize, i))
  OBVIOUS
<1> HIDE DEF C, F, o, n, B
<1> QED  BY <1>1, <1>2, <1>3, <1>5, <1>6, <1>10, <1>11, <1>12, <1>13 DEF h, o, n, B, Shape

\* An object that was written is read back.
LEMMA ReadsBack ==
    ASSUME NEW key, NEW id, NEW nonce, NEW plain \in Plaintexts
    PROVE  Decrypt(key, EncryptObject(key, id, nonce, plain)) = Ok(plain)
<1> DEFINE h == Header(id, nonce, ChunkSize, Len(plain))
           o == EncryptObject(key, id, nonce, plain)
           n == ChunkCount(h)
           cut(i) == SubSeq(o, ChunkStart(h, i) + 1, ChunkEnd(h, i))
           piece(i) == Portion(plain, ChunkSize, i)
<1>0. Shape(key, h, plain, o)  BY ObjectIs
<1> HIDE DEF h, o
<1>1. /\ h.size = ChunkSize /\ h.length = Len(plain) /\ Len(plain) \in Nat \ {0}
      /\ n \in Nat \ {0} /\ ~SizeOverflows(h)
      /\ Len(o) = TotalObjectSize(h) /\ o[1] = h
      /\ \A i \in 1..n : /\ cut(i - 1) = EncryptChunk(key, h, i - 1, piece(i))
                         /\ DecryptChunk(key, h, i - 1, EncryptChunk(key, h, i - 1, piece(i))) = Ok(piece(i))
      /\ FlattenSeq([i \in 1..n |-> piece(i)]) = plain
  BY <1>0 DEF Shape
<1>2. h.magic = TRUE /\ "magic" \in DOMAIN h
  BY DEF Header, h
<1>3. Len(o) \in Nat /\ Len(o) >= 1
  <2>1. TotalObjectSize(h) = Past(n, h.size + TagLen) + (LastChunkPlaintext(h) + TagLen) + 1
        /\ h.size + TagLen \in Nat \ {0} /\ LastChunkPlaintext(h) + TagLen \in 1..(h.size + TagLen)
    BY <1>1, EnvelopeAssumption, HeaderTiles
  <2>2. Past(n, h.size + TagLen) \in Nat  BY <1>1, <2>1, PastIs
  <2> QED  BY <1>1, <2>1, <2>2
<1>4. Parse(o) = Ok(h)
  BY <1>1, <1>2, <1>3, EnvelopeAssumption DEF Parse
<1>5. \A i \in 1..n : /\ DecryptChunk(key, h, i - 1, cut(i - 1)).ok
                      /\ DecryptChunk(key, h, i - 1, cut(i - 1)).value = piece(i)
  <2>1. TAKE i \in 1..n
  <2> DEFINE c == cut(i - 1)
             p == piece(i)
  <2>2. c = EncryptChunk(key, h, i - 1, p)  BY <1>1
  <2>3. DecryptChunk(key, h, i - 1, EncryptChunk(key, h, i - 1, p)) = Ok(p)  BY <1>1
  <2> HIDE DEF c, p
  <2>4. DecryptChunk(key, h, i - 1, c).ok /\ DecryptChunk(key, h, i - 1, c).value = p
    BY <2>2, <2>3 DEF Ok
  <2> QED  BY <2>4 DEF c, p
<1>6. [i \in 1..n |-> DecryptChunk(key, h, i - 1, cut(i - 1)).value] = [i \in 1..n |-> piece(i)]
  <2>1. \A i \in 1..n : DecryptChunk(key, h, i - 1, cut(i - 1)).value = piece(i)
    BY <1>5
  <2> HIDE DEF cut, piece
  <2> QED  BY <2>1
<1>7. Decrypt(key, o) = Ok(FlattenSeq([i \in 1..n |-> DecryptChunk(key, h, i - 1, cut(i - 1)).value]))
  <2>1. Parse(o).ok /\ Parse(o).value = h  BY <1>4 DEF Ok
  <2>2. ~(Len(o) < TotalObjectSize(h)) /\ ~(Len(o) > TotalObjectSize(h))  BY <1>1, <1>3
  <2> QED  BY <1>1, <1>5, <2>1, <2>2 DEF Decrypt
<1>8. FlattenSeq([i \in 1..n |-> DecryptChunk(key, h, i - 1, cut(i - 1)).value]) = plain
  BY <1>1, <1>6, Zenon
<1> QED  BY <1>7, <1>8 DEF o

\* What opens of an object is what its chunks were, from its header to its last byte.
LEMMA WhatOpens ==
    ASSUME NEW key, NEW S, NEW o \in Seq(S), Len(o) >= 1, Decrypt(key, o).ok,
           "magic" \in DOMAIN o[1] => o[1].size \in Nat /\ o[1].length \in Nat
    PROVE  /\ "magic" \in DOMAIN o[1]
           /\ o[1].size \in Nat \ {0} /\ o[1].length \in Nat \ {0}
           /\ Len(o) = TotalObjectSize(o[1])
           /\ \A i \in 1..ChunkCount(o[1]) :
                DecryptChunk(key, o[1], i - 1,
                             SubSeq(o, ChunkStart(o[1], i - 1) + 1, ChunkEnd(o[1], i - 1))).ok
<1> DEFINE h == o[1]
           cut(i) == SubSeq(o, ChunkStart(h, i) + 1, ChunkEnd(h, i))
           n == ChunkCount(h)
<1>1. Len(o) \in Nat /\ ~(Len(o) < HeaderLen)  BY EnvelopeAssumption
<1>2. \A e : Err(e).ok = FALSE  BY DEF Err
<1>3. Parse(o).ok  BY <1>2 DEF Decrypt
<1>4. "magic" \in DOMAIN h /\ h.size # 0 /\ h.length # 0 /\ Parse(o) = Ok(h)
  BY <1>1, <1>2, <1>3 DEF Parse
<1>5. Parse(o).value = h  BY <1>4 DEF Ok
<1>6. ~SizeOverflows(h) /\ ~(Len(o) < TotalObjectSize(h)) /\ ~(Len(o) > TotalObjectSize(h))
  <2> HIDE DEF h
  <2>1. SizeOverflows(h) => Decrypt(key, o) = Err("Layout")  BY <1>3, <1>5 DEF Decrypt
  <2> DEFINE t == TotalObjectSize(h)
  <2>2. t \in Nat
    <3>1. h.size \in Nat \ {0} /\ h.length \in Nat \ {0}  BY <1>4 DEF h
    <3> DEFINE z == h.size + TagLen
    <3>2. /\ n \in Nat \ {0} /\ z \in Nat \ {0} /\ LastChunkPlaintext(h) + TagLen \in 1..z
          /\ t = Past(n, z) + (LastChunkPlaintext(h) + TagLen) + 1
      BY <3>1, HeaderTiles
    <3>3. Past(n, z) \in Nat  BY <3>2, PastIs
    <3> QED  BY <3>2, <3>3
  <2>3. ~SizeOverflows(h) /\ Len(o) < t => Decrypt(key, o) = Err("ObjectTooShort")
    <3> HIDE DEF t
    <3>1. Len(o) < t => ~(Len(o) > t) /\ Len(o) # t  BY <1>1, <2>2
    <3> QED  BY <1>3, <1>5, <3>1 DEF Decrypt, t
  <2>4. ~SizeOverflows(h) /\ Len(o) > t => Decrypt(key, o) = Err("TrailingBytes")
    <3> HIDE DEF t
    <3>1. Len(o) > t => ~(Len(o) < t) /\ Len(o) # t  BY <1>1, <2>2
    <3> QED  BY <1>3, <1>5, <3>1 DEF Decrypt, t
  <2> QED  BY <1>2, <2>1, <2>3, <2>4
<1>7. TotalObjectSize(h) \in Int /\ h.size \in Nat \ {0} /\ h.length \in Nat \ {0}
  <2> HIDE DEF h
  <2>1. h.size \in Nat \ {0} /\ h.length \in Nat \ {0}  BY <1>4 DEF h
  <2> DEFINE z == h.size + TagLen
  <2>2. /\ n \in Nat \ {0} /\ z \in Nat \ {0} /\ LastChunkPlaintext(h) + TagLen \in 1..z
        /\ TotalObjectSize(h) = Past(n, z) + (LastChunkPlaintext(h) + TagLen) + 1
    BY <2>1, HeaderTiles
  <2>3. Past(n, z) \in Nat  BY <2>2, PastIs
  <2> QED  BY <2>1, <2>2, <2>3
<1>8. Len(o) = TotalObjectSize(h)
  <2> HIDE DEF h
  <2> QED  BY <1>1, <1>6, <1>7
<1>9. ASSUME NEW i \in 1..n PROVE DecryptChunk(key, h, i - 1, cut(i - 1)).ok
  <2> HIDE DEF h
  <2>1. SUFFICES ASSUME ~DecryptChunk(key, h, i - 1, cut(i - 1)).ok
                 PROVE Decrypt(key, o) = Err("AuthenticationFailed")
    BY <1>2
  <2>2. ~(Len(o) < TotalObjectSize(h)) /\ ~(Len(o) > TotalObjectSize(h)) /\ ~SizeOverflows(h)
    BY <1>6
  <2> QED  BY <1>3, <1>5, <1>8, <2>1, <2>2 DEF Decrypt
<1> QED  BY <1>4, <1>7, <1>8, <1>9

\* A chunk that opens is the chunk that was sealed, of the key, the header and
\* the place it is opened for.
LEMMA ChunkOpened ==
    ASSUME NEW key, NEW nonce, NEW aad, NEW S, NEW c \in Seq(S), AeadDecrypt(key, nonce, aad, c).ok
    PROVE  /\ Len(c) >= 1
           /\ c[1].of.key = key /\ c[1].of.nonce = nonce /\ c[1].of.aad = aad
           /\ c = AeadEncrypt(key, nonce, aad, c[1].of.plain)
<1>1. Err("AuthenticationFailed").ok = FALSE  BY DEF Err
<1>2. c # <<>> /\ c = AeadEncrypt(key, nonce, aad, c[1].of.plain)
  BY <1>1 DEF AeadDecrypt
<1>3. Len(c) >= 1 /\ 1 \in DOMAIN c  BY <1>2
<1> DEFINE s == [key |-> key, nonce |-> nonce, aad |-> aad, plain |-> c[1].of.plain]
           m == Len(c[1].of.plain) + TagLen
<1>4. c = [k \in 1..m |-> [of |-> s, at |-> k]]  BY <1>2 DEF AeadEncrypt
<1>5. 1 \in 1..m
  <2> HIDE DEF s, m
  <2> QED  BY <1>3, <1>4
<1>6. c[1] = [of |-> s, at |-> 1]
  <2> HIDE DEF s, m
  <2> QED  BY <1>4, <1>5
<1>7. c[1].of = s
  <2> HIDE DEF s
  <2> QED  BY <1>6
<1>8. s.key = key /\ s.nonce = nonce /\ s.aad = aad  OBVIOUS
<1> HIDE DEF s
<1> QED  BY <1>2, <1>3, <1>7, <1>8

\* An object all of whose chunks are those of one that is written is that one.
LEMMA OnlyWhole ==
    ASSUME NEW key, NEW id, NEW nonce, NEW plain \in Plaintexts, NEW S, NEW o \in Seq(S),
           NEW h, h = Header(id, nonce, ChunkSize, Len(plain)),
           Len(o) = TotalObjectSize(h), o[1] = h,
           \A i \in 1..ChunkCount(h) : SubSeq(o, ChunkStart(h, i - 1) + 1, ChunkEnd(h, i - 1))
                                        = EncryptChunk(key, h, i - 1, Portion(plain, ChunkSize, i))
    PROVE  o = EncryptObject(key, id, nonce, plain)
<1> DEFINE w == EncryptObject(key, id, nonce, plain)
           n == ChunkCount(h)
           z == ChunkSize + TagLen
           r == LastChunkPlaintext(h) + TagLen
           B == BytesOf(key, h, n, plain)
<1>0. Shape(key, h, plain, w)  BY ObjectIs
<1> HIDE DEF w
<1>1. /\ h.size = ChunkSize /\ h.length = Len(plain) /\ Len(plain) \in Nat \ {0}
      /\ w \in Seq({h} \cup B) /\ Len(w) = TotalObjectSize(h) /\ w[1] = h
      /\ \A i \in 1..n : SubSeq(w, ChunkStart(h, i - 1) + 1, ChunkEnd(h, i - 1))
                           = EncryptChunk(key, h, i - 1, Portion(plain, ChunkSize, i))
  BY <1>0 DEF Shape
<1>2. /\ n \in Nat \ {0} /\ z \in Nat \ {0} /\ r \in 1..z
      /\ TotalObjectSize(h) = Past(n, z) + r + 1
      /\ \A i \in 1..n : /\ ChunkStart(h, i - 1) = Past(i, z) + 1
                         /\ ChunkEnd(h, i - 1) = Past(i, z) + 1 + (IF i = n THEN r ELSE z)
  BY <1>1, EnvelopeAssumption, HeaderTiles
<1>3. Past(n, z) \in Nat
  <2> HIDE DEF n, z
  <2> QED  BY <1>2, PastIs
<1>4. ASSUME NEW j \in 2..Len(o) PROVE o[j] = w[j]
  <2>1. r \in Nat /\ j - 1 \in 1..(Past(n, z) + r)
    <3> HIDE DEF n, z, r
    <3> QED  BY <1>2, <1>3
  <2>2. PICK i \in 1..n : \E k \in 1..(IF i = n THEN r ELSE z) : j - 1 = Past(i, z) + k
    <3> HIDE DEF n, z, r
    <3> QED  BY <1>2, <2>1, Covered
  <2>3. PICK k \in 1..(IF i = n THEN r ELSE z) : j - 1 = Past(i, z) + k
    BY <2>2
  <2> DEFINE a == ChunkStart(h, i - 1)
             e == ChunkEnd(h, i - 1)
  <2>4. SubSeq(o, a + 1, e) = SubSeq(w, a + 1, e)  BY <1>1
  <2>5. a \in Nat \ {0} /\ a + k = j /\ k \in 1..(e - a) /\ e \in Int
    <3>1. a = Past(i, z) + 1 /\ e = Past(i, z) + 1 + (IF i = n THEN r ELSE z)  BY <1>2
    <3>2. Past(i, z) \in Nat
      <4> HIDE DEF n, z
      <4>1. i \in Nat \ {0}  BY <1>2
      <4> QED  BY <1>2, <4>1, PastIs
    <3>3. r \in Nat /\ z \in Nat /\ j \in Nat
      <4> HIDE DEF n, z, r
      <4> QED  BY <1>2
    <3> DEFINE m == IF i = n THEN r ELSE z
               b == Past(i, z)
    <3>4. /\ a = b + 1 /\ e = b + 1 + m /\ b \in Nat /\ j \in Nat
          /\ k \in 1..m /\ j - 1 = b + k
      BY <2>3, <3>1, <3>2, <3>3
    <3>5. m \in Nat
      <4> HIDE DEF n, z, r
      <4> QED  BY <3>3
    <3> HIDE DEF a, e, m, b
    <3> QED  BY <3>4, <3>5
  <2> HIDE DEF a, e
  <2>6. SubSeq(o, a + 1, e)[k] = o[a + k] /\ SubSeq(w, a + 1, e)[k] = w[a + k]
    <3> HIDE DEF B
    <3> QED  BY <1>1, <2>5
  <2> QED  BY <2>4, <2>5, <2>6
<1>5. Len(o) = Len(w)  BY <1>1
<1>6. o[1] = w[1]  BY <1>1
<1>7. \A j \in 1..Len(o) : o[j] = w[j]
  <2>1. \A j \in 1..Len(o) : j = 1 \/ j \in 2..Len(o)  OBVIOUS
  <2> QED  BY <1>4, <1>6, <2>1
<1>8. o = w
  <2> HIDE DEF B
  <2> QED  BY <1>1, <1>5, <1>7
<1> QED  BY <1>8 DEF w

(***************************************************************************)
(* What was written, each object with a nonce of its own.                  *)
(***************************************************************************)
WrittenOK ==
    /\ IsFiniteSet(written)
    /\ \A w \in written :
         /\ w.plain \in Plaintexts
         /\ \E n \in 1..Cardinality(written) :
              /\ w.object = Encrypted(w.album, w.use, w.id, n, w.plain)
              /\ w.object[1].nonce = n
    /\ \A v, w \in written : v.object[1].nonce = w.object[1].nonce => v = w

\* What a byte of an object says of its origin.
BornOf(byte, w) ==
    LET key == Derive(w.album, w.use, w.id)
        h == w.object[1]
    IN  /\ byte.of.key = key
        /\ w.use \in Blobs => /\ byte.of.nonce = <<h.nonce>> /\ byte.of.aad = <<>>
                              /\ byte.of.plain = w.plain
        /\ w.use \notin Blobs =>
             \E i \in 1..ChunkCount(h) : /\ byte.of.aad = Aad(h, i - 1)
                                         /\ byte.of.plain = Portion(w.plain, ChunkSize, i)

\* A header that may come of one that was written.
HeadOf(h, w) ==
    /\ h.nonce = w.object[1].nonce
    /\ w.use \in Blobs => h = w.object[1] /\ DOMAIN h = {"nonce"}
    /\ w.use \notin Blobs => /\ DOMAIN h = {"magic", "nonce", "size", "length", "id"}
                             /\ h.size \in Nat /\ h.length \in Nat

\* A sequence of a header that came of a written one, and of bytes that were written.
Torn(o) ==
    /\ \E S : o \in Seq(S)
    /\ Len(o) >= 1
    /\ \E w \in written : HeadOf(o[1], w)
    /\ \A j \in 2..Len(o) : \E w \in written : BornOf(o[j], w)

\* A blob, as it was written.
BlobShape(key, nonce, plain, o) ==
    /\ \E S : o \in Seq(S)
    /\ o[1] = [nonce |-> nonce]
    /\ Len(o) \in Nat /\ Len(o) >= 1 + 1 + TagLen /\ Len(o) >= 2
    /\ Tail(o) = AeadEncrypt(key, <<nonce>>, <<>>, plain)
    /\ AeadDecrypt(key, <<nonce>>, <<>>, Tail(o)) = Ok(plain)
    /\ \A j \in 2..Len(o) : o[j].of = [key |-> key, nonce |-> <<nonce>>, aad |-> <<>>, plain |-> plain]

\* An encrypted blob has this shape.
LEMMA BlobIs ==
    ASSUME NEW key, NEW nonce, NEW plain \in Plaintexts
    PROVE  BlobShape(key, nonce, plain, << [nonce |-> nonce] >> \o AeadEncrypt(key, <<nonce>>, <<>>, plain))
<1> DEFINE c == AeadEncrypt(key, <<nonce>>, <<>>, plain)
           s == [key |-> key, nonce |-> <<nonce>>, aad |-> <<>>, plain |-> plain]
           g == [nonce |-> nonce]
           B == [of : {s}, at : Nat]
           T == {g} \cup B
           o == <<g>> \o c
<1>1. plain \in Seq(Range(plain)) /\ plain # <<>>  BY ObjectsAssumption
<1>2. /\ c \in Seq(B) /\ Len(c) = Len(plain) + TagLen
      /\ AeadDecrypt(key, <<nonce>>, <<>>, c) = Ok(plain)
  BY <1>1, Ciphers
<1>3. Len(plain) \in Nat /\ Len(plain) >= 1 /\ TagLen \in Nat  BY <1>1, LayoutAssumption
<1>4. \A b \in B : b.of = s  OBVIOUS
<1> HIDE DEF c, s, g, B
<1>5. c \in Seq(T) /\ <<g>> \in Seq(T)  BY <1>2
<1>6. /\ o \in Seq(T) /\ Len(o) = 1 + Len(c) /\ o[1] = g /\ Tail(o) = c
      /\ \A k \in 1..Len(c) : o[k + 1] = c[k]
  <2> DEFINE f == <<g>>
  <2>2. Len(f) = 1 /\ f[1] = g /\ f \in Seq(T)  BY <1>5
  <2>3. o = f \o c  OBVIOUS
  <2>1. c \in Seq(T) /\ f \in Seq(T)  BY <1>5
  <2> HIDE DEF f, T, o
  <2>4. o \in Seq(T) /\ Len(o) = Len(f) + Len(c)
    BY <2>1, <2>3, Joined
  <2>5. \A k \in 1..Len(f) : o[k] = f[k]
    BY <2>1, <2>3, Joined
  <2>6. \A k \in 1..Len(c) : o[Len(f) + k] = c[k]
    BY <2>1, <2>3, Joined
  <2>7. \A k \in 1..Len(c) : o[k + 1] = c[k]
    <3>1. \A k \in 1..Len(c) : 1 + k = k + 1  OBVIOUS
    <3> QED  BY <2>2, <2>6, <3>1
  <2>8. Tail(o) = c
    <3>1. Len(c) \in Nat /\ Len(o) = 1 + Len(c)  BY <1>2, <1>3, <2>2, <2>4
    <3>2. /\ Tail(o) \in Seq(T) /\ Len(Tail(o)) = Len(o) - 1
          /\ \A k \in 1..(Len(o) - 1) : Tail(o)[k] = o[k + 1]
      BY <2>4, <3>1, TailIs
    <3>3. Len(Tail(o)) = Len(c) /\ \A k \in 1..Len(c) : Tail(o)[k] = c[k]
      BY <2>7, <3>1, <3>2
    <3> QED  BY <1>5, <3>2, <3>3
  <2> QED  BY <2>2, <2>4, <2>5, <2>7, <2>8
<1>7. ASSUME NEW j \in 2..Len(o) PROVE o[j].of = s
  <2> DEFINE k == j - 1
  <2>1. k \in 1..Len(c) /\ k + 1 = j  BY <1>2, <1>3, <1>6
  <2> HIDE DEF k
  <2>2. o[j] = c[k]
    <3> HIDE DEF o, T
    <3> QED  BY <1>6, <2>1
  <2>3. c[k] \in B  BY <1>2, <2>1
  <2> QED  BY <1>4, <2>2, <2>3
<1>8. Len(o) \in Nat /\ Len(o) >= 1 + 1 + TagLen /\ Len(o) >= 2  BY <1>2, <1>3, <1>6
<1> HIDE DEF o
<1> QED  BY <1>2, <1>6, <1>7, <1>8 DEF g, c, s, o, BlobShape

\* What was written is whole, of course: it has its header, and says what it is of.
LEMMA WrittenIs ==
    ASSUME WrittenOK, NEW w \in written
    PROVE  /\ Torn(w.object)
           /\ HeadOf(w.object[1], w)
           /\ \A j \in 2..Len(w.object) : BornOf(w.object[j], w)
<1> DEFINE o == w.object
           key == Derive(w.album, w.use, w.id)
<1>1. PICK n \in 1..Cardinality(written) :
        o = Encrypted(w.album, w.use, w.id, n, w.plain) /\ o[1].nonce = n
  BY DEF WrittenOK
<1>2. w.plain \in Plaintexts  BY DEF WrittenOK
<1>3. CASE w.use \in Blobs
  <2>1. o = << [nonce |-> n] >> \o AeadEncrypt(key, <<n>>, <<>>, w.plain)
    BY <1>1, <1>3 DEF Encrypted
  <2> HIDE DEF o, key
  <2>2. /\ \E S : o \in Seq(S)
        /\ o[1] = [nonce |-> n] /\ Len(o) \in Nat /\ Len(o) >= 2
        /\ \A j \in 2..Len(o) : o[j].of = [key |-> key, nonce |-> <<n>>, aad |-> <<>>, plain |-> w.plain]
    <3>1. BlobShape(key, n, w.plain, o)  BY <1>2, <2>1, BlobIs
    <3> QED  BY <3>1 DEF BlobShape
  <2>3. ASSUME NEW j \in 2..Len(o) PROVE BornOf(o[j], w)
    <3>1. o[j].of = [key |-> key, nonce |-> <<n>>, aad |-> <<>>, plain |-> w.plain]  BY <2>2
    <3>2. /\ o[j].of.key = key /\ o[j].of.nonce = <<n>> /\ o[j].of.aad = <<>>
          /\ o[j].of.plain = w.plain
      BY <3>1
    <3> QED  BY <1>1, <1>3, <3>2 DEF BornOf, key, o
  <2>4. HeadOf(o[1], w)
    <3>1. DOMAIN o[1] = {"nonce"}  BY <2>2
    <3> QED  BY <1>3, <3>1 DEF HeadOf, o
  <2> QED  BY <2>2, <2>3, <2>4 DEF Torn, o
<1>4. CASE w.use \notin Blobs
  <2> DEFINE h == Header(w.id, n, ChunkSize, Len(w.plain))
             B == BytesOf(key, h, ChunkCount(h), w.plain)
  <2>1. o = EncryptObject(key, w.id, n, w.plain)
    BY <1>1, <1>4 DEF Encrypted
  <2>2. Shape(key, h, w.plain, o)  BY <1>2, <2>1, ObjectIs
  <2>3. DOMAIN h = {"magic", "nonce", "size", "length", "id"}  BY DEF Header
  <2> HIDE DEF o, key, h, B
  <2>4. /\ \E S : o \in Seq(S)
        /\ o[1] = h /\ Len(o) = TotalObjectSize(h)
        /\ h.size = ChunkSize /\ h.length = Len(w.plain) /\ Len(w.plain) \in Nat \ {0}
        /\ \A j \in 2..Len(o) : o[j] \in B
    BY <2>2 DEF Shape, B
  <2>5. Len(o) >= 1
    <3> DEFINE m == ChunkCount(h)
               z == h.size + TagLen
               r == LastChunkPlaintext(h) + TagLen
    <3>1. m \in Nat \ {0} /\ z \in Nat \ {0} /\ r \in 1..z /\ TotalObjectSize(h) = Past(m, z) + r + 1
      BY <2>4, EnvelopeAssumption, HeaderTiles
    <3>2. Past(m, z) \in Nat
      <4> HIDE DEF m, z
      <4> QED  BY <3>1, PastIs
    <3>3. Len(o) = Past(m, z) + r + 1  BY <2>4, <3>1
    <3> HIDE DEF m, z, r
    <3> QED  BY <3>1, <3>2, <3>3
  <2>6. ASSUME NEW j \in 2..Len(o) PROVE BornOf(o[j], w)
    <3>1. o[j] \in B  BY <2>4
    <3>2. PICK i \in 1..ChunkCount(h) : o[j].of = Sealed(key, h, i - 1, Portion(w.plain, ChunkSize, i))
      BY <3>1 DEF B, BytesOf
    <3>3. /\ o[j].of.key = key /\ o[j].of.aad = Aad(h, i - 1)
          /\ o[j].of.plain = Portion(w.plain, ChunkSize, i)
      BY <3>2 DEF Sealed
    <3>4. w.object[1] = h  BY <2>4 DEF o
    <3> QED  BY <1>4, <3>3, <3>4 DEF BornOf, key
  <2>7. HeadOf(o[1], w)
    BY <1>4, <2>3, <2>4, EnvelopeAssumption DEF HeadOf, o
  <2> QED  BY <2>4, <2>5, <2>6, <2>7 DEF Torn, o
<1> QED  BY <1>3, <1>4

\* A chunk that opens, of an object torn from others, is one of an object that was written.
LEMMA ChunkIsWritten ==
    ASSUME WrittenOK, NEW album, NEW use, NEW id, use \notin Blobs, NEW h, NEW i \in Nat,
           NEW S, NEW c \in Seq(S), DecryptChunk(Derive(album, use, id), h, i, c).ok,
           NEW w \in written, BornOf(c[1], w)
    PROVE  /\ w.album = album /\ w.use = use /\ w.id = id /\ w.object[1] = h
           /\ c = EncryptChunk(Derive(album, use, id), h, i, Portion(w.plain, ChunkSize, i + 1))
<1> DEFINE key == Derive(album, use, id)
<1>1. /\ c[1].of.key = key /\ c[1].of.aad = Aad(h, i)
      /\ c = AeadEncrypt(key, Nonce(h, i), Aad(h, i), c[1].of.plain)
  <2> HIDE DEF key
  <2> QED  BY ChunkOpened DEF DecryptChunk, key
<1>2. w.album = album /\ w.use = use /\ w.id = id
  <2>1. Derive(w.album, w.use, w.id) = Derive(album, use, id)  BY <1>1 DEF BornOf
  <2> QED  BY <2>1 DEF Derive
<1>3. PICK k \in 1..ChunkCount(w.object[1]) :
        c[1].of.aad = Aad(w.object[1], k - 1) /\ c[1].of.plain = Portion(w.plain, ChunkSize, k)
  BY <1>2 DEF BornOf
<1>4. w.object[1] = h /\ k - 1 = i
  <2>1. <<w.object[1], k - 1>> = <<h, i>>  BY <1>1, <1>3 DEF Aad
  <2> QED  BY <2>1
<1>5. k = i + 1
  <2>1. k \in Int \/ k \notin Int  OBVIOUS
  <2> QED  BY <1>4
<1>6. c[1].of.plain = Portion(w.plain, ChunkSize, i + 1)  BY <1>3, <1>5
<1> QED  BY <1>1, <1>2, <1>4, <1>6 DEF EncryptChunk

\* What opens of a torn object is what was written whole.
LEMMA ObjectOpened ==
    ASSUME WrittenOK, NEW o, Torn(o), NEW album, NEW use, NEW id, use \notin Blobs,
           Decrypt(Derive(album, use, id), o).ok
    PROVE  \E w \in written : w.album = album /\ w.use = use /\ w.id = id /\ w.object = o
<1> DEFINE key == Derive(album, use, id)
           h == o[1]
           n == ChunkCount(h)
           cut(i) == SubSeq(o, ChunkStart(h, i - 1) + 1, ChunkEnd(h, i - 1))
<1>1. PICK S : o \in Seq(S)  BY DEF Torn
<1>2. PICK a \in written : HeadOf(h, a)  BY DEF Torn
<1>3. "magic" \in DOMAIN h => h.size \in Nat /\ h.length \in Nat
  <2> HIDE DEF h
  <2>1. "magic" \notin {"nonce"}  OBVIOUS
  <2> QED  BY <1>2, <2>1 DEF HeadOf
<1>4. Len(o) >= 1  BY DEF Torn
<1>5. /\ h.size \in Nat \ {0} /\ h.length \in Nat \ {0}
      /\ Len(o) = TotalObjectSize(h)
      /\ \A i \in 1..n : DecryptChunk(key, h, i - 1, cut(i)).ok
  <2>1. Decrypt(key, o).ok  OBVIOUS
  <2> HIDE DEF key
  <2> QED  BY <1>1, <1>3, <1>4, <2>1, WhatOpens
<1> HIDE DEF key, h
<1> DEFINE z == h.size + TagLen
           r == LastChunkPlaintext(h) + TagLen
<1>6. /\ n \in Nat \ {0} /\ z \in Nat \ {0} /\ r \in 1..z
      /\ TotalObjectSize(h) = Past(n, z) + r + 1
      /\ \A i \in 1..n : /\ ChunkStart(h, i - 1) = Past(i, z) + 1
                         /\ ChunkEnd(h, i - 1) = Past(i, z) + 1 + (IF i = n THEN r ELSE z)
  BY <1>5, HeaderTiles
<1>7. ASSUME NEW i \in 1..n
      PROVE  \E w \in written : /\ w.album = album /\ w.use = use /\ w.id = id /\ w.object[1] = h
                                /\ cut(i) = EncryptChunk(key, h, i - 1, Portion(w.plain, ChunkSize, i))
  <2> DEFINE j == ChunkStart(h, i - 1)
             e == ChunkEnd(h, i - 1)
             c == cut(i)
  <2>1. j \in Nat \ {0} /\ e \in Nat
    <3>1. i \in Nat \ {0} /\ z \in Nat /\ r \in Nat
      <4> HIDE DEF n, z, r
      <4> QED  BY <1>6
    <3>2. Past(i, z) \in Nat
      <4> HIDE DEF z
      <4> QED  BY <3>1, PastIs
    <3>3. j = Past(i, z) + 1 /\ e = Past(i, z) + 1 + (IF i = n THEN r ELSE z)  BY <1>6
    <3> HIDE DEF j, e, z, r, n
    <3> QED  BY <3>1, <3>2, <3>3
  <2>2. c = SubSeq(o, j + 1, e)  OBVIOUS
  <2> HIDE DEF j, e, c, n
  <2>3. DecryptChunk(key, h, i - 1, c).ok  BY <1>5 DEF c
  <2>a. e <= Len(o)
    <3>1. i # n => Past(i, z) + z \in 1..Past(n, z)
      <4>1. SUFFICES ASSUME i # n PROVE Past(i, z) + z \in 1..Past(n, z)  OBVIOUS
      <4>2. /\ i \in Nat \ {0} /\ n - 1 \in Nat \ {0} /\ i <= n - 1 /\ (n - 1) + 1 = n /\ z \in 1..z
        <5> HIDE DEF z
        <5> QED  BY <1>6, <4>1
      <4> HIDE DEF z
      <4> QED  BY <1>6, <4>2, PastIs
    <3>2. Past(n, z) \in Nat /\ z \in Nat /\ r \in 1..z
      <4> HIDE DEF z, r
      <4> QED  BY <1>6, PastIs
    <3>3. e = Past(i, z) + 1 + (IF i = n THEN r ELSE z)  BY <1>6 DEF e
    <3>4. Len(o) = Past(n, z) + r + 1  BY <1>5, <1>6
    <3>5. i = n => Past(i, z) = Past(n, z)  OBVIOUS
    <3>6. Past(i, z) \in Nat
      <4>1. i \in Nat \ {0}  BY <1>6
      <4> HIDE DEF z
      <4> QED  BY <3>2, <4>1, PastIs
    <3> DEFINE b == Past(i, z)
               d == Past(n, z)
               m == Len(o)
    <3> HIDE DEF b, d, m, z, r
    <3>7. /\ e = b + 1 + (IF i = n THEN r ELSE z) /\ m = d + r + 1
          /\ (i = n => b = d) /\ (i # n => b + z <= d) /\ b \in Nat /\ d \in Nat
      BY <3>1, <3>2, <3>3, <3>4, <3>5, <3>6 DEF b, d, m
    <3>8. e <= m  BY <3>2, <3>7
    <3> QED  BY <3>8 DEF m
  <2>4. c \in Seq(S)  BY <1>1, <2>1, <2>2, <2>a
  <2>5. c # <<>> /\ Len(c) >= 1
    <3>1. Len(c) >= 1
      <4> HIDE DEF key
      <4> QED  BY <2>3, <2>4, ChunkOpened DEF DecryptChunk
    <3> QED  BY <2>4, <3>1
  <2>6. c[1] = o[j + 1] /\ j + 1 \in 2..Len(o)
    <3>1. Len(SubSeq(o, j + 1, e)) >= 1  BY <2>2, <2>5
    <3>2. j + 1 <= e /\ e <= Len(o)
      <4>1. SUFFICES ASSUME e < j + 1 PROVE Len(SubSeq(o, j + 1, e)) = 0
        BY <2>1, <2>a, <3>1
      <4>2. \A k : k \notin 1..(1 + e - (j + 1))  BY <2>1, <4>1
      <4> QED  BY <1>1, <2>1, <4>1, <4>2
    <3> QED  BY <1>1, <2>1, <2>2, <3>2
  <2>7. PICK w \in written : BornOf(o[j + 1], w)  BY <2>6 DEF Torn
  <2>8. i - 1 \in Nat /\ (i - 1) + 1 = i  BY <1>6
  <2>9. /\ w.album = album /\ w.use = use /\ w.id = id /\ w.object[1] = h
        /\ c = EncryptChunk(key, h, i - 1, Portion(w.plain, ChunkSize, (i - 1) + 1))
    <3>1. BornOf(c[1], w)  BY <2>6, <2>7
    <3> QED  BY <2>3, <2>4, <2>8, <3>1, ChunkIsWritten DEF key
  <2> QED  BY <2>8, <2>9 DEF c
<1>8. PICK w \in written : w.album = album /\ w.use = use /\ w.id = id /\ w.object[1] = h
  <2>1. 1 \in 1..n  BY <1>6
  <2> QED  BY <1>7, <2>1
<1>9. \A i \in 1..n : cut(i) = EncryptChunk(key, h, i - 1, Portion(w.plain, ChunkSize, i))
  <2>1. TAKE i \in 1..n
  <2>2. PICK v \in written : /\ v.object[1] = h
                             /\ cut(i) = EncryptChunk(key, h, i - 1, Portion(v.plain, ChunkSize, i))
    BY <1>7
  <2>3. v = w  BY <1>8, <2>2 DEF WrittenOK
  <2> QED  BY <2>2, <2>3
<1>10. PICK m : w.plain \in Plaintexts /\ w.object = EncryptObject(key, w.id, m, w.plain)
  BY <1>8 DEF WrittenOK, Encrypted, key
<1>11. h = Header(w.id, m, ChunkSize, Len(w.plain))
  <2>1. Shape(key, Header(w.id, m, ChunkSize, Len(w.plain)), w.plain, w.object)
    BY <1>10, ObjectIs
  <2> QED  BY <1>8, <2>1 DEF Shape
<1>12. o = EncryptObject(key, w.id, m, w.plain)
  BY <1>1, <1>5, <1>9, <1>10, <1>11, OnlyWhole DEF h
<1> QED  BY <1>8, <1>10, <1>12

\* What opens of a torn blob is what was written whole.
LEMMA BlobOpened ==
    ASSUME WrittenOK, NEW o, Torn(o), NEW album, NEW use, NEW id, use \in Blobs,
           AeadDecrypt(Derive(album, use, id), <<o[1].nonce>>, <<>>, Tail(o)).ok
    PROVE  \E w \in written : w.album = album /\ w.use = use /\ w.id = id /\ w.object = o
<1> DEFINE key == Derive(album, use, id)
           c == Tail(o)
<1>1. PICK S : o \in Seq(S)  BY DEF Torn
<1>2. Len(o) >= 1  BY DEF Torn
<1>3. c \in Seq(S) /\ Len(c) = Len(o) - 1 /\ \A k \in 1..(Len(o) - 1) : c[k] = o[k + 1]
  BY <1>1, <1>2, TailIs
<1>4. /\ Len(c) >= 1
      /\ c[1].of.key = key /\ c[1].of.nonce = <<o[1].nonce>> /\ c[1].of.aad = <<>>
      /\ c = AeadEncrypt(key, <<o[1].nonce>>, <<>>, c[1].of.plain)
  <2>1. AeadDecrypt(key, <<o[1].nonce>>, <<>>, c).ok  OBVIOUS
  <2> HIDE DEF key, c
  <2> QED  BY <1>3, <2>1, ChunkOpened
<1> HIDE DEF c
<1>5. Len(o) \in Nat /\ 2 \in 2..Len(o) /\ c[1] = o[2]
  <2>1. Len(o) \in Nat /\ 1 \in 1..(Len(o) - 1)  BY <1>1, <1>2, <1>3, <1>4
  <2> QED  BY <1>3, <2>1
<1>6. PICK w \in written : BornOf(c[1], w)  BY <1>5 DEF Torn
<1>7. w.album = album /\ w.use = use /\ w.id = id
  <2>1. Derive(w.album, w.use, w.id) = Derive(album, use, id)  BY <1>4, <1>6 DEF BornOf
  <2> QED  BY <2>1 DEF Derive
<1>8. <<w.object[1].nonce>> = <<o[1].nonce>> /\ c[1].of.plain = w.plain
  BY <1>4, <1>6, <1>7 DEF BornOf
<1>9. w.object[1].nonce = o[1].nonce  BY <1>8
<1>10. PICK a \in written : HeadOf(o[1], a)  BY DEF Torn
<1>11. a = w  BY <1>9, <1>10 DEF WrittenOK, HeadOf
<1>12. o[1] = w.object[1]  BY <1>7, <1>10, <1>11 DEF HeadOf
<1>13. PICK m : /\ w.plain \in Plaintexts /\ w.object[1].nonce = m
                /\ w.object = << [nonce |-> m] >> \o AeadEncrypt(key, <<m>>, <<>>, w.plain)
  BY <1>7 DEF WrittenOK, Encrypted, key
<1>14. BlobShape(key, m, w.plain, w.object)  BY <1>13, BlobIs
<1>15. Tail(w.object) = c
  BY <1>4, <1>8, <1>9, <1>13, <1>14 DEF BlobShape
<1>16. w.object = o
  <2> DEFINE p == w.object
  <2>1. PICK R : p \in Seq(R)  BY <1>14 DEF BlobShape
  <2>2. Len(p) >= 1 /\ Tail(p) = c /\ p[1] = o[1]  BY <1>12, <1>14, <1>15, LayoutAssumption DEF BlobShape
  <2> HIDE DEF p
  <2>3. Len(c) = Len(p) - 1 /\ \A k \in 1..(Len(p) - 1) : c[k] = p[k + 1]
    BY <2>1, <2>2, TailIs
  <2>4. Len(p) = Len(o)  BY <1>1, <1>3, <2>1, <2>3
  <2>5. ASSUME NEW j \in 1..Len(o) PROVE p[j] = o[j]
    <3>1. CASE j = 1  BY <2>2, <3>1
    <3>2. CASE j # 1
      <4> DEFINE k == j - 1
      <4>1. k \in 1..(Len(o) - 1) /\ k + 1 = j  BY <1>5, <3>2
      <4> HIDE DEF k
      <4> QED  BY <1>3, <2>3, <2>4, <4>1
    <3> QED  BY <3>1, <3>2
  <2>6. p = o  BY <1>1, <2>1, <2>4, <2>5
  <2> QED  BY <2>6 DEF p
<1> QED  BY <1>7, <1>16

\* What is read of a torn object is what was written whole, and only that.
LEMMA ReadIsWritten ==
    ASSUME WrittenOK, NEW o, Torn(o), NEW album, NEW use, NEW id
    PROVE  /\ Decrypted(album, use, id, o).ok
                <=> \E w \in written : w.album = album /\ w.use = use /\ w.id = id /\ w.object = o
           /\ \A w \in written : w.album = album /\ w.use = use /\ w.id = id /\ w.object = o
                => Decrypted(album, use, id, o).value = w.plain
<1> DEFINE key == Derive(album, use, id)
           got == Decrypted(album, use, id, o)
<1>1. ASSUME NEW w \in written, w.album = album, w.use = use, w.id = id, w.object = o
      PROVE  got = Ok(w.plain)
  <2>1. PICK m : w.plain \in Plaintexts /\ o = Encrypted(album, use, id, m, w.plain)
    BY <1>1 DEF WrittenOK
  <2>2. CASE use \in Blobs
    <3>1. o = << [nonce |-> m] >> \o AeadEncrypt(key, <<m>>, <<>>, w.plain)
      BY <2>1, <2>2 DEF Encrypted
    <3> HIDE DEF key
    <3>2. BlobShape(key, m, w.plain, o)  BY <2>1, <3>1, BlobIs
    <3>3. ~(Len(o) < 1 + 1 + TagLen) /\ o[1].nonce = m /\ AeadDecrypt(key, <<m>>, <<>>, Tail(o)) = Ok(w.plain)
      BY <3>2, LayoutAssumption DEF BlobShape
    <3> QED  BY <2>2, <3>3 DEF Decrypted, key
  <2>3. CASE use \notin Blobs
    <3>1. o = EncryptObject(key, id, m, w.plain)  BY <2>1, <2>3 DEF Encrypted
    <3>2. got = Decrypt(key, o)  BY <2>3 DEF Decrypted
    <3> HIDE DEF key, got
    <3> QED  BY <2>1, <3>1, <3>2, ReadsBack
  <2> QED  BY <2>2, <2>3
<1>2. ASSUME got.ok
      PROVE  \E w \in written : w.album = album /\ w.use = use /\ w.id = id /\ w.object = o
  <2>1. CASE use \in Blobs
    <3>1. Err("TooShort").ok = FALSE  BY DEF Err
    <3>2. AeadDecrypt(key, <<o[1].nonce>>, <<>>, Tail(o)).ok
      BY <1>2, <2>1, <3>1 DEF Decrypted
    <3> QED  BY <2>1, <3>2, BlobOpened
  <2>2. CASE use \notin Blobs
    <3>1. Decrypt(key, o).ok  BY <1>2, <2>2 DEF Decrypted
    <3> QED  BY <2>2, <3>1, ObjectOpened
  <2> QED  BY <2>1, <2>2
<1>3. \A v : Ok(v).ok = TRUE /\ Ok(v).value = v  BY DEF Ok
<1> HIDE DEF got
<1>4. got.ok <=> \E w \in written : w.album = album /\ w.use = use /\ w.id = id /\ w.object = o
  BY <1>1, <1>2, <1>3
<1>5. \A w \in written : w.album = album /\ w.use = use /\ w.id = id /\ w.object = o => got.value = w.plain
  BY <1>1, <1>3
<1> QED  BY <1>4, <1>5 DEF got

\* A torn object under another header that may come of one that was written is torn.
LEMMA TornHead ==
    ASSUME NEW o, Torn(o), NEW h, NEW w \in written, HeadOf(h, w)
    PROVE  Torn([o EXCEPT ![1] = h])
<1> DEFINE p == [o EXCEPT ![1] = h]
<1>1. PICK S : o \in Seq(S)  BY DEF Torn
<1>2. Len(o) >= 1  BY DEF Torn
<1>3. p \in Seq(S \cup {h}) /\ Len(p) = Len(o) /\ p[1] = h  BY <1>1, <1>2
<1>4. \A j \in 2..Len(o) : p[j] = o[j]  BY <1>1, <1>2
<1> HIDE DEF p
<1>5. \A j \in 2..Len(p) : \E v \in written : BornOf(p[j], v)
  BY <1>3, <1>4 DEF Torn
<1>6. Torn(p)  BY <1>2, <1>3, <1>5 DEF Torn
<1> QED  BY <1>6 DEF p

\* So it is when its header claims another size, length or id.
LEMMA TornClaims ==
    ASSUME NEW o, Torn(o), "size" \in DOMAIN o[1]
    PROVE  /\ o[1].size \in Nat /\ o[1].length \in Nat
           /\ \A k \in Nat : Torn([o EXCEPT ![1].length = k])
           /\ \A k \in Nat : Torn([o EXCEPT ![1].size = k])
           /\ \A k : Torn([o EXCEPT ![1].id = k])
<1> DEFINE h == o[1]
<1>1. PICK w \in written : HeadOf(h, w)  BY DEF Torn
<1> HIDE DEF h
<1>2. w.use \notin Blobs
  <2>1. "size" \notin {"nonce"}  OBVIOUS
  <2> QED  BY <1>1, <2>1 DEF HeadOf, h
<1>3. /\ DOMAIN h = {"magic", "nonce", "size", "length", "id"}
      /\ h.nonce = w.object[1].nonce /\ h.size \in Nat /\ h.length \in Nat
  BY <1>1, <1>2 DEF HeadOf
<1>4. ASSUME NEW k \in Nat PROVE Torn([o EXCEPT ![1].length = k])
  <2>1. /\ DOMAIN [h EXCEPT !.length = k] = {"magic", "nonce", "size", "length", "id"}
        /\ [h EXCEPT !.length = k].nonce = h.nonce
        /\ [h EXCEPT !.length = k].size = h.size
        /\ [h EXCEPT !.length = k].length = k
    BY <1>3
  <2>2. HeadOf([h EXCEPT !.length = k], w)  BY <1>2, <1>3, <2>1 DEF HeadOf
  <2>3. Torn([o EXCEPT ![1] = [h EXCEPT !.length = k]])  BY <2>2, TornHead
  <2> QED  BY <2>3 DEF h
<1>5. ASSUME NEW k \in Nat PROVE Torn([o EXCEPT ![1].size = k])
  <2>1. /\ DOMAIN [h EXCEPT !.size = k] = {"magic", "nonce", "size", "length", "id"}
        /\ [h EXCEPT !.size = k].nonce = h.nonce
        /\ [h EXCEPT !.size = k].size = k
        /\ [h EXCEPT !.size = k].length = h.length
    BY <1>3
  <2>2. HeadOf([h EXCEPT !.size = k], w)  BY <1>2, <1>3, <2>1 DEF HeadOf
  <2>3. Torn([o EXCEPT ![1] = [h EXCEPT !.size = k]])  BY <2>2, TornHead
  <2> QED  BY <2>3 DEF h
<1>6. ASSUME NEW k PROVE Torn([o EXCEPT ![1].id = k])
  <2>1. /\ DOMAIN [h EXCEPT !.id = k] = {"magic", "nonce", "size", "length", "id"}
        /\ [h EXCEPT !.id = k].nonce = h.nonce
        /\ [h EXCEPT !.id = k].size = h.size
        /\ [h EXCEPT !.id = k].length = h.length
    BY <1>3
  <2>2. HeadOf([h EXCEPT !.id = k], w)  BY <1>2, <1>3, <2>1 DEF HeadOf
  <2>3. Torn([o EXCEPT ![1] = [h EXCEPT !.id = k]])  BY <2>2, TornHead
  <2> QED  BY <2>3 DEF h
<1> QED  BY <1>3, <1>4, <1>5, <1>6 DEF h

\* A beginning of a torn object is torn.
LEMMA TornCut ==
    ASSUME NEW o, Torn(o), NEW k \in 1..Len(o)
    PROVE  Torn(SubSeq(o, 1, k))
<1> DEFINE p == SubSeq(o, 1, k)
<1>1. PICK S : o \in Seq(S)  BY DEF Torn
<1>2. p \in Seq(S) /\ Len(p) = k /\ \A j \in 1..k : p[j] = o[j]  BY <1>1
<1>3. k \in Nat /\ k >= 1 /\ \A j \in 2..k : j \in 1..k /\ j \in 2..Len(o)  BY <1>1
<1> HIDE DEF p
<1>4. p[1] = o[1] /\ \A j \in 2..Len(p) : p[j] = o[j] /\ j \in 2..Len(o)  BY <1>2, <1>3
<1>5. Torn(p)  BY <1>2, <1>3, <1>4 DEF Torn
<1> QED  BY <1>5 DEF p

\* A beginning of one and an end of another.
LEMMA TornSpliced ==
    ASSUME NEW o, Torn(o), NEW p, Torn(p), NEW k \in 1..Len(o), NEW j \in 2..Len(p)
    PROVE  Torn(SubSeq(o, 1, k) \o SubSeq(p, j, Len(p)))
<1> DEFINE a == SubSeq(o, 1, k)
           b == SubSeq(p, j, Len(p))
           c == a \o b
<1>1. Torn(a)  BY TornCut
<1>2. PICK S : p \in Seq(S)  BY DEF Torn
<1>3. /\ b \in Seq(S) /\ Len(b) = Len(p) - j + 1
      /\ \A i \in 1..(Len(p) - j + 1) : b[i] = p[j + i - 1]
  BY <1>2
<1>4. Len(p) \in Nat  BY <1>2
<1>5. \A i \in 1..Len(b) : b[i] = p[j + i - 1] /\ j + i - 1 \in 2..Len(p)  BY <1>3, <1>4
<1> HIDE DEF a, b
<1>6. PICK R : a \in Seq(R)  BY <1>1 DEF Torn
<1> DEFINE T == R \cup S
<1>7. a \in Seq(T) /\ b \in Seq(T)  BY <1>3, <1>6
<1>8. c = a \o b  OBVIOUS
<1> HIDE DEF T, c
<1>9. /\ c \in Seq(T) /\ Len(c) = Len(a) + Len(b)
      /\ \A i \in 1..Len(a) : c[i] = a[i]
      /\ \A i \in 1..Len(b) : c[Len(a) + i] = b[i]
  BY <1>7, <1>8, Joined
<1>10. Len(a) \in Nat /\ Len(a) >= 1 /\ Len(b) \in Nat  BY <1>1, <1>3, <1>6 DEF Torn
<1>11. c[1] = a[1] /\ Len(c) >= 1  BY <1>9, <1>10
<1>12. ASSUME NEW i \in 2..Len(c) PROVE \E w \in written : BornOf(c[i], w)
  <2>1. CASE i <= Len(a)
    <3>1. i \in 2..Len(a) /\ c[i] = a[i]  BY <1>9, <1>10, <2>1
    <3> QED  BY <1>1, <3>1 DEF Torn
  <2>2. CASE i > Len(a)
    <3> DEFINE m == i - Len(a)
    <3>1. m \in 1..Len(b) /\ Len(a) + m = i  BY <1>9, <1>10, <2>2
    <3> HIDE DEF m
    <3>2. c[i] = p[j + m - 1] /\ j + m - 1 \in 2..Len(p)  BY <1>5, <1>9, <3>1
    <3> QED  BY <3>2 DEF Torn
  <2> QED  BY <1>10, <2>1, <2>2
<1>13. Torn(c)  BY <1>1, <1>9, <1>11, <1>12 DEF Torn
<1> QED  BY <1>13 DEF c, a, b

\* Its first two chunks the other way round.
LEMMA TornSwapped ==
    ASSUME NEW o, Torn(o), NEW n \in Nat \ {0}, Len(o) > 2 * n
    PROVE  Torn([k \in DOMAIN o |-> CASE k \in 2..(n + 1) -> o[k + n]
                                      [] k \in (n + 2)..(2 * n + 1) -> o[k - n]
                                      [] OTHER -> o[k]])
<1> DEFINE from(k) == CASE k \in 2..(n + 1) -> k + n
                      [] k \in (n + 2)..(2 * n + 1) -> k - n
                      [] OTHER -> k
           p == [k \in DOMAIN o |-> CASE k \in 2..(n + 1) -> o[k + n]
                                      [] k \in (n + 2)..(2 * n + 1) -> o[k - n]
                                      [] OTHER -> o[k]]
<1>1. PICK S : o \in Seq(S)  BY DEF Torn
<1>2. Len(o) \in Nat /\ Len(o) >= 1 /\ DOMAIN o = 1..Len(o)  BY <1>1 DEF Torn
<1>3. \A k \in 1..Len(o) : from(k) \in 1..Len(o) /\ (k # 1 => from(k) \in 2..Len(o)) /\ (k = 1 => from(k) = 1)
  BY <1>2
<1>4. \A k \in 1..Len(o) : p[k] = o[from(k)]
  BY <1>2
<1>5. p = [k \in 1..Len(o) |-> p[k]]  BY <1>2
<1> HIDE DEF p, from
<1>6. \A k \in 1..Len(o) : p[k] \in S  BY <1>1, <1>3, <1>4
<1>7. p \in [1..Len(o) -> S]  BY <1>5, <1>6
<1>8. p \in Seq(S) /\ Len(p) = Len(o)  BY <1>2, <1>7
<1>9. p[1] = o[1] /\ \A k \in 2..Len(p) : from(k) \in 2..Len(o) /\ p[k] = o[from(k)]
  BY <1>2, <1>3, <1>4, <1>8
<1>10. Torn(p)  BY <1>2, <1>8, <1>9 DEF Torn
<1> QED  BY <1>10 DEF p

\* Whatever is found where objects were written is torn from them.
LEMMA FoundIsTorn ==
    ASSUME WrittenOK, NEW o \in Found
    PROVE  Torn(o)
<1> DEFINE whole == {w.object : w \in written}
           Cut(p) == {SubSeq(p, 1, k) : k \in 1..(Len(p) - 1)}
           Relabelled(p) ==
             IF "size" \notin DOMAIN p[1] THEN {p}
             ELSE {[p EXCEPT ![1].length = k] : k \in 1..(p[1].length + 1)}
           Claims(p) ==
             IF "size" \notin DOMAIN p[1] THEN {}
             ELSE {[p EXCEPT ![1].size = k] : k \in 0..(p[1].size + 1)}
                  \cup {[p EXCEPT ![1].id = k] : k \in Ids}
           Spliced(p, q) ==
             UNION {{SubSeq(p, 1, k) \o SubSeq(q, j, Len(q)) : j \in 2..Len(q)} : k \in 1..Len(p)}
           Swapped(p) ==
             LET n == ChunkSize + TagLen
             IN  [k \in DOMAIN p |-> CASE k \in 2..(n + 1) -> p[k + n]
                                       [] k \in (n + 2)..(2 * n + 1) -> p[k - n]
                                       [] OTHER -> p[k]]
<1>1. \A p \in whole : Torn(p)  BY WrittenIs
<1>2. ASSUME NEW p, Torn(p), NEW q \in Relabelled(p) PROVE Torn(q)
  <2>1. CASE "size" \notin DOMAIN p[1]  BY <1>2, <2>1
  <2>2. CASE "size" \in DOMAIN p[1]
    <3>1. PICK k \in 1..(p[1].length + 1) : q = [p EXCEPT ![1].length = k]  BY <1>2, <2>2
    <3>2. k \in Nat  BY <1>2, <2>2, TornClaims
    <3>3. \A l \in Nat : Torn([p EXCEPT ![1].length = l])  BY <1>2, <2>2, TornClaims
    <3> QED  BY <3>1, <3>2, <3>3
  <2> QED  BY <2>1, <2>2
<1>3. ASSUME NEW p, Torn(p), NEW q \in Claims(p) PROVE Torn(q)
  <2>1. "size" \in DOMAIN p[1]  BY <1>3
  <2>2. CASE q \in {[p EXCEPT ![1].size = k] : k \in 0..(p[1].size + 1)}
    <3>1. PICK k \in 0..(p[1].size + 1) : q = [p EXCEPT ![1].size = k]  BY <2>2
    <3>2. k \in Nat  BY <1>3, <2>1, TornClaims
    <3>3. \A l \in Nat : Torn([p EXCEPT ![1].size = l])  BY <1>3, <2>1, TornClaims
    <3> QED  BY <3>1, <3>2, <3>3
  <2>3. CASE q \in {[p EXCEPT ![1].id = k] : k \in Ids}
    <3>1. PICK k \in Ids : q = [p EXCEPT ![1].id = k]  BY <2>3
    <3>3. \A l : Torn([p EXCEPT ![1].id = l])  BY <1>3, <2>1, TornClaims
    <3> QED  BY <3>1, <3>3
  <2> QED  BY <1>3, <2>1, <2>2, <2>3
<1>4. ASSUME NEW p, Torn(p), NEW q \in Cut(p) PROVE Torn(q)
  <2>1. PICK k \in 1..(Len(p) - 1) : q = SubSeq(p, 1, k)  BY <1>4
  <2>2. k \in 1..Len(p)
    <3>1. PICK S : p \in Seq(S)  BY <1>4 DEF Torn
    <3> QED  BY <3>1
  <2> QED  BY <1>4, <2>1, <2>2, TornCut
<1>5. ASSUME NEW p, Torn(p), NEW q, Torn(q), NEW s \in Spliced(p, q) PROVE Torn(s)
  <2>1. PICK k \in 1..Len(p) : s \in {SubSeq(p, 1, k) \o SubSeq(q, j, Len(q)) : j \in 2..Len(q)}
    BY <1>5
  <2>2. PICK j \in 2..Len(q) : s = SubSeq(p, 1, k) \o SubSeq(q, j, Len(q))
    BY <2>1
  <2> QED  BY <1>5, <2>2, TornSpliced
<1>6. ASSUME NEW p, Torn(p), Len(p) > 2 * (ChunkSize + TagLen) PROVE Torn(Swapped(p))
  <2> DEFINE n == ChunkSize + TagLen
  <2>1. n \in Nat \ {0}  BY EnvelopeAssumption, LayoutAssumption
  <2>2. Len(p) > 2 * n  BY <1>6
  <2> HIDE DEF n
  <2>3. Torn([k \in DOMAIN p |-> CASE k \in 2..(n + 1) -> p[k + n]
                                   [] k \in (n + 2)..(2 * n + 1) -> p[k - n]
                                   [] OTHER -> p[k]])
    BY <1>6, <2>1, <2>2, TornSwapped
  <2> QED  BY <2>3 DEF n
<1>7. \/ \E p \in whole : o \in Claims(p)
      \/ \E p \in whole : \E c \in Cut(p) \cup {p} : o \in Relabelled(c)
      \/ \E p \in whole : \E q \in whole : o \in Spliced(p, q)
      \/ \E p \in whole : Len(p) > 2 * (ChunkSize + TagLen) /\ o = Swapped(p)
  <2>1. o \in (UNION {Claims(p) \cup UNION {Relabelled(c) : c \in Cut(p) \cup {p}} : p \in whole})
              \cup (UNION {UNION {Spliced(p, q) : q \in whole} : p \in whole})
              \cup {Swapped(p) : p \in {q \in whole : Len(q) > 2 * (ChunkSize + TagLen)}}
    BY DEF Found
  <2> DEFINE A == UNION {Claims(p) \cup UNION {Relabelled(c) : c \in Cut(p) \cup {p}} : p \in whole}
             B == UNION {UNION {Spliced(p, q) : q \in whole} : p \in whole}
             C == {Swapped(p) : p \in {q \in whole : Len(q) > 2 * (ChunkSize + TagLen)}}
  <2> HIDE DEF whole, Cut, Relabelled, Claims, Spliced, Swapped
  <2>2. CASE o \in A
    <3>1. PICK p \in whole : o \in Claims(p) \cup UNION {Relabelled(c) : c \in Cut(p) \cup {p}}
      BY <2>2
    <3>2. o \in UNION {Relabelled(c) : c \in Cut(p) \cup {p}} => \E c \in Cut(p) \cup {p} : o \in Relabelled(c)
      OBVIOUS
    <3> QED  BY <3>1, <3>2
  <2>3. CASE o \in B
    <3>1. PICK p \in whole : o \in UNION {Spliced(p, q) : q \in whole}  BY <2>3
    <3>2. PICK q \in whole : o \in Spliced(p, q)  BY <3>1
    <3> QED  BY <3>2
  <2>4. CASE o \in C
    <3> DEFINE long == {q \in whole : Len(q) > 2 * (ChunkSize + TagLen)}
    <3>1. \A p \in long : p \in whole /\ Len(p) > 2 * (ChunkSize + TagLen)  OBVIOUS
    <3>2. PICK p \in long : o = Swapped(p)  BY <2>4
    <3> HIDE DEF long
    <3>3. p \in whole /\ Len(p) > 2 * (ChunkSize + TagLen) /\ o = Swapped(p)  BY <3>1, <3>2
    <3> QED  BY <3>3, Zenon
  <2>5. o \in A \/ o \in B \/ o \in C  BY <2>1
  <2> HIDE DEF A, B, C
  <2> QED  BY <2>2, <2>3, <2>4, <2>5
<1> HIDE DEF whole, Cut, Relabelled, Claims, Spliced, Swapped
<1> QED  BY <1>1, <1>2, <1>3, <1>4, <1>5, <1>6, <1>7

\* Writing gives what it writes the next nonce.
LEMMA WriteKeepsWritten ==
    ASSUME WrittenOK, NEW album, NEW use, NEW id, NEW plain \in Plaintexts,
           written' = written \cup {[album |-> album, use |-> use, id |-> id, plain |-> plain,
                                     object |-> Encrypted(album, use, id, Cardinality(written) + 1, plain)]}
    PROVE  WrittenOK'
<1> DEFINE n == Cardinality(written) + 1
           object == Encrypted(album, use, id, n, plain)
           r == [album |-> album, use |-> use, id |-> id, plain |-> plain, object |-> object]
<1>1. IsFiniteSet(written) /\ Cardinality(written) \in Nat  BY FS_CardinalityType DEF WrittenOK
<1>2. object[1].nonce = n
  <2> HIDE DEF n
  <2> DEFINE key == Derive(album, use, id)
  <2>1. CASE use \in Blobs
    <3>1. object = << [nonce |-> n] >> \o AeadEncrypt(key, <<n>>, <<>>, plain)  BY <2>1 DEF Encrypted
    <3> HIDE DEF object, key
    <3>2. BlobShape(key, n, plain, object)  BY <3>1, BlobIs
    <3>3. object[1] = [nonce |-> n]  BY <3>2 DEF BlobShape
    <3> QED  BY <3>3
  <2>2. CASE use \notin Blobs
    <3>1. object = EncryptObject(key, id, n, plain)  BY <2>2 DEF Encrypted
    <3> HIDE DEF object, key
    <3>2. Shape(key, Header(id, n, ChunkSize, Len(plain)), plain, object)  BY <3>1, ObjectIs
    <3>3. object[1] = Header(id, n, ChunkSize, Len(plain))  BY <3>2 DEF Shape
    <3>4. Header(id, n, ChunkSize, Len(plain)).nonce = n  BY DEF Header
    <3> QED  BY <3>3, <3>4
  <2> QED  BY <2>1, <2>2
<1>3. r.album = album /\ r.use = use /\ r.id = id /\ r.plain = plain /\ r.object = object
  OBVIOUS
<1>4. \A w \in written : w.object[1].nonce \in 1..Cardinality(written)  BY DEF WrittenOK
<1>5. r.object[1].nonce = n  BY <1>2, <1>3
<1>6. r \notin written  BY <1>1, <1>4, <1>5
<1> HIDE DEF r
<1>7. written' = written \cup {r}  BY DEF r
<1>8. IsFiniteSet(written') /\ Cardinality(written') = n
  BY <1>1, <1>6, <1>7, FS_AddElement
<1>9. ASSUME NEW w \in written'
      PROVE  /\ w.plain \in Plaintexts
             /\ \E m \in 1..n : w.object = Encrypted(w.album, w.use, w.id, m, w.plain) /\ w.object[1].nonce = m
  <2>1. CASE w = r
    <3>1. n \in 1..n  BY <1>1
    <3> QED  BY <1>3, <1>5, <2>1, <3>1
  <2>2. CASE w \in written
    <3>1. 1..Cardinality(written) \subseteq 1..n  BY <1>1
    <3> QED  BY <2>2, <3>1 DEF WrittenOK
  <2> QED  BY <1>7, <2>1, <2>2
<1>10. ASSUME NEW v \in written', NEW w \in written', v.object[1].nonce = w.object[1].nonce
       PROVE  v = w
  <2>1. n \notin 1..Cardinality(written)  BY <1>1
  <2> QED  BY <1>4, <1>5, <1>7, <1>10, <2>1 DEF WrittenOK
<1> HIDE DEF n
<1> QED  BY <1>8, <1>9, <1>10 DEF WrittenOK

\* Whatever is read of what was cut, relabelled, joined of two, or had its
\* chunks exchanged where objects lie, under whatever album key, use and id it
\* is asked for, what comes out is what was written whole under just those.
\* (header.rs nonce and aad, envelope.rs decrypt, blob.rs
\* decrypt_cipher: a nonce of its own for each object, the whole header and
\* the index of the chunk in what is authenticated)
THEOREM WhatIsReadWasWritten == Spec => []ReadsAreWrites
<1> DEFINE Inv == WrittenOK /\ ReadsAreWrites
<1>1. Init => Inv
  <2>1. SUFFICES ASSUME Init PROVE Inv  OBVIOUS
  <2>2. written = {} /\ read = None  BY <2>1 DEF Init
  <2>3. WrittenOK  BY <2>2, FS_EmptySet DEF WrittenOK
  <2> QED  BY <2>2, <2>3 DEF ReadsAreWrites
<1>2. Inv /\ [Next]_vars => Inv'
  <2> SUFFICES ASSUME Inv, [Next]_vars PROVE Inv'
    OBVIOUS
  <2>1. ASSUME UNCHANGED objects PROVE Inv'
    BY <2>1 DEF objects, WrittenOK, ReadsAreWrites
  <2>2. CASE UNCHANGED vars  BY <2>1, <2>2 DEF vars
  <2>3. ASSUME NEW f \in DOMAIN Program, Call(f) PROVE Inv'
    <3> HIDE DEF Inv
    <3> QED  BY <2>1, <2>3 DEF Call
  <2>4. CASE Step
    <3> HIDE DEF Inv
    <3>1. UNCHANGED objects  BY <2>4 DEF Step
    <3> QED  BY <2>1, <3>1
  <2>5. CASE DeviceFails
    <3> HIDE DEF Inv
    <3> QED  BY <2>1, <2>5 DEF DeviceFails
  <2>6. CASE TrapsElsewhere
    <3> HIDE DEF Inv
    <3> QED  BY <2>1, <2>6 DEF TrapsElsewhere
  <2>7. CASE Returns
    <3> HIDE DEF Inv
    <3> QED  BY <2>1, <2>7 DEF Returns
  <2>8. ASSUME NEW h \in DOMAIN keys, Release(h) PROVE Inv'
    <3> HIDE DEF Inv
    <3> QED  BY <2>1, <2>8 DEF Release
  <2>9. ASSUME NEW h \in DOMAIN keys, NEW use \in Uses, NEW id \in Ids, NEW plain \in Plaintexts,
               Write(h, use, id, plain)
        PROVE  Inv'
    <3>1. WrittenOK'
      <4>1. written' = written \cup
              {[album |-> keys[h], use |-> use, id |-> id, plain |-> plain,
                object |-> Encrypted(keys[h], use, id, Cardinality(written) + 1, plain)]}
        BY <2>9 DEF Write
      <4> QED  BY <4>1, WriteKeepsWritten
    <3>2. read' = None  BY <2>9 DEF Write
    <3> QED  BY <3>1, <3>2 DEF ReadsAreWrites
  <2>10. ASSUME NEW h \in DOMAIN keys, NEW use \in Uses, NEW id \in Ids, Read(h, use, id)
         PROVE  Inv'
    <3>1. written' = written  BY <2>10 DEF Read
    <3>2. WrittenOK'  BY <3>1 DEF WrittenOK
    <3>3. PICK object \in Found :
            read' = [album |-> keys[h], use |-> use, id |-> id, object |-> object,
                     got |-> Decrypted(keys[h], use, id, object)]
      BY <2>10 DEF Read
    <3> DEFINE album == keys[h]
               got == Decrypted(album, use, id, object)
    <3>4. /\ got.ok <=> \E w \in written : w.album = album /\ w.use = use /\ w.id = id /\ w.object = object
          /\ \A w \in written : w.album = album /\ w.use = use /\ w.id = id /\ w.object = object
               => got.value = w.plain
      BY <3>3, FoundIsTorn, ReadIsWritten
    <3> HIDE DEF album, got
    <3>5. /\ read'.album = album /\ read'.use = use /\ read'.id = id /\ read'.object = object
          /\ read'.got = got
      BY <3>3 DEF album, got
    <3>6. ReadsAreWrites'  BY <3>1, <3>4, <3>5 DEF ReadsAreWrites
    <3> QED  BY <3>2, <3>6
  <2> QED  BY <2>2, <2>3, <2>4, <2>5, <2>6, <2>7, <2>8, <2>9, <2>10 DEF Next
<1>3. Inv => ReadsAreWrites  OBVIOUS
<1> QED  BY <1>1, <1>2, <1>3, PTL DEF Spec

(***************************************************************************)
(* Preparing.                                                              *)
(***************************************************************************)
\* Any piece of a JPEG, and one that the filter lets through.
AnyPiece == [kind : Kinds, sig : {Absent} \cup SIGNATURES, size : Int]
Harmless == {p \in AnyPiece : p.kind \in Kept \cup {"RST", "bytes"}}

\* What is kept of the first pieces is what the recursion says.
LEMMA KeepingExists ==
    ASSUME NEW b \in Seq(AnyPiece)
    PROVE  Keeping(b) = [j \in 0..Len(b) |->
                            IF j = 0 THEN <<>>
                            ELSE IF Whole(b, j) THEN Append(Keeping(b)[j - 1], b[j]) ELSE Keeping(b)[j - 1]]
<1> DEFINE Keeps(g, n) == g = [j \in 0..n |->
                                 IF j = 0 THEN <<>>
                                 ELSE IF Whole(b, j) THEN Append(g[j - 1], b[j]) ELSE g[j - 1]]
           S == {n \in Nat : n <= Len(b) => \E g : Keeps(g, n)}
<1>1. Len(b) \in Nat  OBVIOUS
<1>2. 0 \in S
  <2>1. Keeps([j \in 0..0 |-> <<>>], 0)
    <3>1. \A j \in 0..0 : j = 0  OBVIOUS
    <3> QED  BY <3>1
  <2> QED  BY <2>1
<1>3. ASSUME NEW n \in Nat, n \in S PROVE n + 1 \in S
  <2>1. SUFFICES ASSUME n + 1 <= Len(b) PROVE \E g : Keeps(g, n + 1)
    <3> HIDE DEF Keeps
    <3> QED  OBVIOUS
  <2>2. PICK g : Keeps(g, n)
    <3> HIDE DEF Keeps
    <3> QED  BY <1>3, <2>1, <1>1
  <2> DEFINE h == [j \in 0..(n + 1) |->
                     IF j = n + 1 THEN IF Whole(b, n + 1) THEN Append(g[n], b[n + 1]) ELSE g[n]
                     ELSE g[j]]
  <2>3. \A j \in 0..(n + 1) : h[j] = IF j = 0 THEN <<>>
                                    ELSE IF Whole(b, j) THEN Append(h[j - 1], b[j]) ELSE h[j - 1]
    <3>1. ASSUME NEW j \in 0..n
          PROVE  h[j] = IF j = 0 THEN <<>>
                        ELSE IF Whole(b, j) THEN Append(h[j - 1], b[j]) ELSE h[j - 1]
      <4>1. g[j] = IF j = 0 THEN <<>>
                   ELSE IF Whole(b, j) THEN Append(g[j - 1], b[j]) ELSE g[j - 1]
        BY <2>2
      <4>2. h[j] = g[j] /\ (j # 0 => h[j - 1] = g[j - 1])
        OBVIOUS
      <4> HIDE DEF h
      <4> QED  BY <4>1, <4>2
    <3>2. h[n + 1] = IF Whole(b, n + 1) THEN Append(h[n], b[n + 1]) ELSE h[n]
      OBVIOUS
    <3>3. n + 1 # 0 /\ (n + 1) - 1 = n /\ \A j \in 0..(n + 1) : j \in 0..n \/ j = n + 1
      OBVIOUS
    <3> HIDE DEF h
    <3> QED  BY <3>1, <3>2, <3>3
  <2>4. Keeps(h, n + 1)
    <3>1. h = [j \in 0..(n + 1) |-> h[j]]  OBVIOUS
    <3> HIDE DEF h
    <3> QED  BY <2>3, <3>1
  <2> HIDE DEF Keeps
  <2> QED  BY <2>4
<1>4. \E g : Keeps(g, Len(b))
  <2>1. Nat \subseteq S
    <3> HIDE DEF S
    <3> QED  BY <1>2, <1>3, Induction
  <2> QED  BY <2>1, <1>1
<1> QED
  BY <1>4 DEF Keeping

\* The filter keeps pieces an image is made of, and nothing else.
LEMMA KeepsHarmless ==
    ASSUME NEW b \in Seq(AnyPiece)
    PROVE  \A j \in 0..Len(b) : Keeping(b)[j] \in Seq(Harmless)
<1> DEFINE S == {n \in Nat : n <= Len(b) => Keeping(b)[n] \in Seq(Harmless)}
<1>1. Len(b) \in Nat  OBVIOUS
<1>2. 0 \in S
  <2>1. 0 \in 0..Len(b)  BY <1>1
  <2>2. Keeping(b)[0] = <<>>  BY <2>1, KeepingExists
  <2>3. <<>> \in Seq(Harmless)  OBVIOUS
  <2> QED  BY <2>2, <2>3
<1>3. ASSUME NEW n \in Nat \cap S PROVE n + 1 \in S
  <2>1. SUFFICES ASSUME n + 1 <= Len(b) PROVE Keeping(b)[n + 1] \in Seq(Harmless)
    OBVIOUS
  <2>2. Keeping(b)[n] \in Seq(Harmless)
    BY <1>1, <1>3, <2>1
  <2>3. /\ n + 1 \in 0..Len(b) /\ n + 1 # 0 /\ (n + 1) - 1 = n
        /\ n + 1 \in 1..Len(b)
    BY <1>1, <2>1
  <2>4. Keeping(b)[n + 1] = IF Whole(b, n + 1) THEN Append(Keeping(b)[n], b[n + 1]) ELSE Keeping(b)[n]
    BY <2>3, KeepingExists
  <2>5. b[n + 1] \in AnyPiece  BY <2>3
  <2>6. Whole(b, n + 1) => b[n + 1] \in Harmless
    BY <2>5 DEF Whole, InScan, Harmless
  <2> HIDE DEF S
  <2> QED  BY <2>2, <2>4, <2>6
<1>4. Nat \subseteq S
  <2> HIDE DEF S
  <2> QED  BY <1>2, <1>3, Induction
<1> QED  BY <1>1, <1>4

\* What the filter makes: such pieces and an end, or nothing.
LEMMA FilterLeaves ==
    ASSUME NEW b \in Seq(AnyPiece), keepImageSegments(b) # Nothing
    PROVE  \E s \in Seq(Harmless) : keepImageSegments(b) = Append(s, Piece("EOI", Absent, 0))
<1> DEFINE ends == {j \in DOMAIN b : b[j].kind = "EOI"}
           last == Min(ends) - 1
<1>1. ends # {} /\ keepImageSegments(b) = Append(Keeping(b)[last], Piece("EOI", Absent, 0))
  BY DEF keepImageSegments
<1>2. last \in 0..Len(b)
  <2>1. ends \in SUBSET Nat /\ ends \subseteq 1..Len(b) /\ Len(b) \in Nat  OBVIOUS
  <2>2. Min(ends) \in ends  BY <1>1, <2>1, MinIs
  <2> HIDE DEF ends
  <2>3. Min(ends) \in 1..Len(b)  BY <2>1, <2>2
  <2> QED  BY <2>1, <2>3
<1> HIDE DEF last
<1> QED  BY <1>1, <1>2, KeepsHarmless

\* A last frame is a frame.
LEMMA LastFrame ==
    ASSUME NEW b \in Seq(AnyPiece), NEW i \in Nat, FrameBefore(b, i) # {}
    PROVE  (CHOOSE j \in FrameBefore(b, i) : \A k \in FrameBefore(b, i) : k <= j) \in FrameBefore(b, i)
<1> DEFINE F == FrameBefore(b, i)
           U == {n \in Nat : n <= i /\ i - n \in F}
<1>1. \A j \in F : j \in Nat /\ j <= i  BY DEF FrameBefore
<1>2. U # {} /\ U \in SUBSET Nat
  <2>1. \A j \in F : i - j \in Nat /\ i - j <= i /\ i - (i - j) = j  BY <1>1
  <2>2. PICK j \in F : TRUE  OBVIOUS
  <2> HIDE DEF F
  <2> QED  BY <2>1, <2>2
<1>3. PICK m \in U : \A n \in U : m <= n
  <2> HIDE DEF U
  <2> QED  BY <1>2, Least
<1>4. i - m \in F /\ m \in Nat  OBVIOUS
<1>5. \A k \in F : k <= i - m
  <2>1. SUFFICES ASSUME NEW k \in F PROVE k <= i - m
    OBVIOUS
  <2>2. k \in Nat /\ k <= i  BY <1>1
  <2>3. i - k \in Nat /\ i - k <= i /\ i - (i - k) = k  BY <2>2
  <2>4. i - k \in U  BY <2>1, <2>3
  <2>5. m <= i - k  BY <1>3, <2>4
  <2> QED  BY <1>4, <2>2, <2>5
<1> HIDE DEF F
<1>6. \E j \in F : \A k \in F : k <= j  BY <1>4, <1>5
<1>7. (CHOOSE j \in F : \A k \in F : k <= j) \in F  BY <1>6
<1> QED  BY <1>7 DEF F

\* A JPEG that was filtered and passes the scan is only an image.
LEMMA ScannedIsClean ==
    ASSUME NEW s \in Seq(Harmless), NEW b, b = Append(s, Piece("EOI", Absent, 0)), scanJpeg(b).ok
    PROVE  OnlyAnImage(b, scanJpeg(b).size)
<1> DEFINE stops == {j \in DOMAIN b : Stops(b, j)}
           i == Min(stops)
           n == Len(b)
<1>1. Piece("EOI", Absent, 0) \in AnyPiece
  BY DEF Piece, AnyPiece, Kinds
<1>2. s \in Seq(AnyPiece)  BY DEF Harmless
<1>3. /\ b \in Seq(AnyPiece) /\ n = Len(s) + 1 /\ n \in Nat
      /\ b[n] = Piece("EOI", Absent, 0)
      /\ \A j \in 1..(n - 1) : b[j] = s[j] /\ b[j] \in Harmless
  <2>1. Len(s) \in Nat  BY <1>2
  <2>2. b \in Seq(AnyPiece) /\ n = Len(s) + 1 /\ b[n] = Piece("EOI", Absent, 0)
    BY <1>1, <1>2, <2>1, AppendProperties
  <2>3. \A j \in 1..Len(s) : b[j] = s[j] /\ s[j] \in Harmless
    BY <1>1, <1>2, AppendProperties
  <2> QED  BY <2>1, <2>2, <2>3
<1>4. DOMAIN b = 1..n  BY <1>3
<1>5. \A j \in 1..n : b[j] \in AnyPiece  BY <1>3
<1>6. \A j \in 1..n : b[j].kind = "EOI" <=> j = n
  <2>1. b[n].kind = "EOI"  BY <1>3 DEF Piece
  <2>2. \A j \in 1..(n - 1) : b[j].kind # "EOI"
    BY <1>3 DEF Harmless, Kept, Frames
  <2> QED  BY <1>3, <2>1, <2>2
<1>7. ~(\E j \in DOMAIN b : b[j].sig \in SIGNATURES) /\ scanJpeg(b) = Walk(b)
  BY DEF scanJpeg, Scanned
<1>8. \A j \in DOMAIN b : b[j].sig = Absent
  BY <1>4, <1>5, <1>7 DEF AnyPiece
<1>9. Walk(b).ok  BY <1>7
<1>10. stops # {}
  BY <1>9 DEF Walk, Scanned
<1>11. i \in stops /\ \A j \in stops : i <= j
  <2>1. stops \in SUBSET Nat  BY <1>4
  <2> HIDE DEF stops
  <2> QED  BY <1>10, <2>1, MinIs
<1>12. i \in 1..n  BY <1>4, <1>11
<1> DEFINE last == CHOOSE j \in FrameBefore(b, i) : \A k \in FrameBefore(b, i) : k <= j
<1>13. b[i].kind = "EOI" /\ FrameBefore(b, i) # {} /\ Walk(b).size = b[last].size
  <2> HIDE DEF last
  <2>1. Walk(b) = IF b[i].kind # "EOI" THEN Scanned(FALSE, segmentFinding(b[i].kind), 0)
                  ELSE IF FrameBefore(b, i) = {} THEN Scanned(FALSE, "malformed", 0)
                  ELSE IF i < Len(b) THEN Scanned(FALSE, "trailing-data", 0)
                  ELSE Scanned(TRUE, Absent, b[last].size)
    <3> HIDE DEF i, stops
    <3>1. Walk(b) = IF stops = {} THEN Scanned(FALSE, "malformed", 0)
                    ELSE IF b[i].kind # "EOI" THEN Scanned(FALSE, segmentFinding(b[i].kind), 0)
                    ELSE IF FrameBefore(b, i) = {} THEN Scanned(FALSE, "malformed", 0)
                    ELSE IF i < Len(b) THEN Scanned(FALSE, "trailing-data", 0)
                    ELSE Scanned(TRUE, Absent, b[last].size)
      BY DEF Walk, last, i, stops
    <3> QED  BY <1>10, <3>1
  <2>2. \A f, z : ~Scanned(FALSE, f, z).ok /\ Scanned(TRUE, f, z).size = z
    BY DEF Scanned
  <2> DEFINE here == b[i]
             before == FrameBefore(b, i)
             long == b[last].size
  <2>3. Walk(b) = IF here.kind # "EOI" THEN Scanned(FALSE, segmentFinding(here.kind), 0)
                  ELSE IF before = {} THEN Scanned(FALSE, "malformed", 0)
                  ELSE IF i < Len(b) THEN Scanned(FALSE, "trailing-data", 0)
                  ELSE Scanned(TRUE, Absent, long)
    BY <2>1
  <2> HIDE DEF here, before, long
  <2>4. here.kind = "EOI" /\ before # {} /\ Walk(b).size = long
    BY <1>9, <2>2, <2>3
  <2> QED  BY <2>4 DEF here, before, long
<1>14. i = n  BY <1>6, <1>12, <1>13
<1>15. \A j \in 1..(n - 1) : ~Stops(b, j)
  <2>1. \A j \in 1..(n - 1) : j \in DOMAIN b /\ ~(n <= j)  BY <1>3, <1>4
  <2> QED  BY <1>11, <1>14, <2>1
<1>16. \A j \in 1..(n - 1) : b[j].kind \in {"JFIF", "tables", "frame", "scan", "EOI"} \/ InScan(b, j)
  <2>1. SUFFICES ASSUME NEW j \in 1..(n - 1), ~InScan(b, j)
                 PROVE  b[j].kind \in {"JFIF", "tables", "frame", "scan", "EOI"}
    OBVIOUS
  <2>2. segmentFinding(b[j].kind) = Absent  BY <1>15, <2>1 DEF Stops
  <2>3. b[j].kind \in Kept \cup {"RST", "bytes"}  BY <1>3 DEF Harmless
  <2>4. b[j].kind \notin {"RST", "bytes"}
    BY <2>2 DEF segmentFinding, Absent, Frames
  <2> QED  BY <2>3, <2>4 DEF Kept, Frames
<1>17. \A j \in DOMAIN b : b[j].kind \in {"JFIF", "tables", "frame", "scan", "EOI"} \/ InScan(b, j)
  BY <1>3, <1>4, <1>6, <1>16
<1>18. last \in FrameBefore(b, i)
  <2> HIDE DEF i
  <2>1. i \in Nat  BY <1>3, <1>12
  <2>2. b \in Seq(AnyPiece) /\ FrameBefore(b, i) # {}  BY <1>3, <1>13
  <2> HIDE DEF n, stops
  <2> QED  BY <2>1, <2>2, LastFrame
<1>19. \E j \in DOMAIN b : b[j].kind = "frame" /\ b[j].size = scanJpeg(b).size
  <2> HIDE DEF i, last
  <2>1. last \in DOMAIN b /\ b[last].kind = "frame"
    BY <1>3, <1>4, <1>14, <1>18 DEF FrameBefore, Frames
  <2> QED  BY <1>7, <1>13, <2>1
<1> QED  BY <1>4, <1>6, <1>8, <1>17, <1>19 DEF OnlyAnImage

\* What comes of an encoder's answer: a stripped JPEG of the size asked for, or an error.
LEMMA JpegIsStripped ==
    ASSUME NEW blob \in Seq(AnyPiece), NEW size, jpeg(blob, size).error = Absent
    PROVE  jpeg(blob, size).bytes # Nothing /\ OnlyAnImage(jpeg(blob, size).bytes, size)
<1> DEFINE bytes == keepImageSegments(blob)
<1>1. bytes # Nothing /\ scanJpeg(bytes).ok /\ scanJpeg(bytes).size = size /\ jpeg(blob, size).bytes = bytes
  BY DEF jpeg, Absent
<1>2. \E s \in Seq(Harmless) : bytes = Append(s, Piece("EOI", Absent, 0))
  BY <1>1, FilterLeaves
<1> HIDE DEF bytes
<1> QED  BY <1>1, <1>2, ScannedIsClean

\* What an encoder may write is made of pieces.
LEMMA EncodedPieces ==
    ASSUME NEW size \in Int
    PROVE  /\ Encodings(size) \subseteq Seq(AnyPiece)
           /\ ThumbEncodings(size) \subseteq Seq(AnyPiece)
<1>1. Pieces(size) \subseteq AnyPiece
  BY DEF Pieces, AnyPiece, Piece, Kinds, Absent, SIGNATURES
<1>2. Nothing \in Seq(AnyPiece)  BY DEF Nothing
<1>3. Encodings(size) \subseteq Seq(AnyPiece)
  <2>1. SUFFICES ASSUME NEW n \in 1..MaxPieces, NEW b \in [1..n -> Pieces(size)]
                 PROVE  b \in Seq(AnyPiece)
    BY <1>2 DEF Encodings
  <2>2. n \in Nat  BY PrepareAssumption
  <2>3. b \in [1..n -> AnyPiece]  BY <1>1
  <2> QED  BY <2>2, <2>3
<1>4. /\ Piece("frame", Absent, size) \in AnyPiece /\ Piece("scan", Absent, 0) \in AnyPiece
      /\ Piece("EOI", Absent, 0) \in AnyPiece /\ Piece("XMP", "xmp", 0) \in AnyPiece
      /\ Piece("tables", "gps", 0) \in AnyPiece
  BY DEF AnyPiece, Piece, Kinds, Absent, SIGNATURES
<1>5. Clean(size) \in Seq(AnyPiece)
  BY <1>4 DEF Clean
<1>6. <<Piece("XMP", "xmp", 0)>> \in Seq(AnyPiece) /\ <<Piece("tables", "gps", 0)>> \in Seq(AnyPiece)
  BY <1>4
<1>7. /\ <<Piece("XMP", "xmp", 0)>> \o Clean(size) \in Seq(AnyPiece)
      /\ <<Piece("tables", "gps", 0)>> \o Clean(size) \in Seq(AnyPiece)
  BY <1>5, <1>6, ConcatProperties
<1> QED  BY <1>2, <1>3, <1>5, <1>7 DEF ThumbEncodings

(***************************************************************************)
(* The bitmaps, the JPEGs made and the result, stage by stage.             *)
(***************************************************************************)
Bitmap == \E edge \in 1..3 : bitmaps = {edge}
Stripped(b, sizes) == b # Nothing /\ \E size \in sizes : OnlyAnImage(b, size)

PrepareInv ==
    /\ at \in {"off", "width", "height", "full", "size", "thumb", "fits", "over"}
    /\ made \in [asset : {made.asset}, thumb : {made.thumb}]
    /\ at \in {"off", "width", "height", "full"} => bitmaps = {} /\ made = NoneMade
    /\ at = "size" => Bitmap /\ made = NoneMade
    /\ at = "thumb" => Bitmap /\ made.thumb = Nothing
    /\ at \in {"fits", "over"} => bitmaps = {}
    /\ at \in {"thumb", "fits"} => Stripped(made.asset, 1..ASSET_LONG_EDGE)
    /\ at = "fits" => Stripped(made.thumb, {THUMB_LONG_EDGE})
    /\ at = "over" /\ result = "ok" =>
         Stripped(made.asset, 1..ASSET_LONG_EDGE) /\ Stripped(made.thumb, {THUMB_LONG_EDGE})
    /\ at = "over" /\ result # "ok" => made = NoneMade
    /\ at # "over" => result = Absent

\* The sizes prepare asks for are those of the caps.
LEMMA AskedSizes ==
    ASSUME Bitmap
    PROVE  Asked("asset") \in 1..ASSET_LONG_EDGE /\ Asked("thumb") = THUMB_LONG_EDGE
<1>1. PICK edge \in 1..3 : bitmaps = {edge}  BY DEF Bitmap
<1>2. (CHOOSE e \in bitmaps : TRUE) = edge  BY <1>1
<1> DEFINE asset == fitLongEdge(edge, ASSET_LONG_EDGE)
<1>3. asset \in 1..ASSET_LONG_EDGE
  BY DEF fitLongEdge, ASSET_LONG_EDGE
<1>4. Asked("asset") = asset /\ Asked("thumb") = fitLongEdge(asset, THUMB_LONG_EDGE)
  BY <1>2 DEF Asked
<1> HIDE DEF asset
<1>5. fitLongEdge(asset, THUMB_LONG_EDGE) = THUMB_LONG_EDGE
  BY <1>3 DEF fitLongEdge, ASSET_LONG_EDGE, THUMB_LONG_EDGE
<1> QED  BY <1>3, <1>4, <1>5

\* The property is a part of the invariant.
LEMMA InvIsStripped == PrepareInv => PreparedIsStripped
<1> SUFFICES ASSUME PrepareInv PROVE PreparedIsStripped
  OBVIOUS
<1>1. made.asset # Nothing => \E size \in 1..ASSET_LONG_EDGE : OnlyAnImage(made.asset, size)
  <2>1. NoneMade.asset = Nothing  BY DEF NoneMade
  <2> QED  BY <2>1 DEF PrepareInv, Stripped
<1>2. made.thumb # Nothing => OnlyAnImage(made.thumb, THUMB_LONG_EDGE)
  <2>1. NoneMade.thumb = Nothing  BY DEF NoneMade
  <2> QED  BY <2>1 DEF PrepareInv, Stripped
<1>3. result = "ok" => Nothing \notin {made.asset, made.thumb}
  BY DEF PrepareInv, Stripped, Absent
<1> QED  BY <1>1, <1>2, <1>3 DEF PrepareInv, PreparedIsStripped

\* Before anything is prepared.
LEMMA InitPrepareInv == NothingPrepared => PrepareInv
BY DEF NothingPrepared, PrepareInv, NoneMade, Nothing

\* Decoding opens one bitmap, or ends.
LEMMA DecodeKeepsInv ==
    ASSUME PrepareInv,
           (\E f \in Files : ChooseFile(f)) \/ DecodeThrows \/ DecodeWidth \/ DecodeHeight \/ DecodeFull
    PROVE  PrepareInv'
<1>1. ASSUME NEW f \in Files, ChooseFile(f) PROVE PrepareInv'
  BY <1>1 DEF PrepareInv, ChooseFile, NoneMade
<1>2. CASE DecodeThrows
  BY <1>2 DEF PrepareInv, DecodeThrows, Finishes, NoneMade
<1>3. CASE DecodeWidth
  <2>1. made' = made /\ result' = result /\ at = "width" /\ made = NoneMade /\ bitmaps = {} /\ result = Absent
    BY <1>3 DEF DecodeWidth, PrepareInv
  <2>2. \/ at' \in {"height", "full"} /\ bitmaps' = bitmaps
        \/ at' = "size" /\ bitmaps' = {ASSET_LONG_EDGE}
    BY <1>3 DEF DecodeWidth
  <2> QED  BY <2>1, <2>2 DEF PrepareInv, NoneMade, Bitmap, ASSET_LONG_EDGE
<1>4. CASE DecodeHeight
  <2>1. made' = made /\ result' = result /\ at = "height" /\ made = NoneMade /\ bitmaps = {} /\ result = Absent
    BY <1>4 DEF DecodeHeight, PrepareInv
  <2>2. \/ at' = "full" /\ bitmaps' = bitmaps
        \/ at' = "size" /\ bitmaps' = {ASSET_LONG_EDGE}
    BY <1>4 DEF DecodeHeight
  <2> QED  BY <2>1, <2>2 DEF PrepareInv, NoneMade, Bitmap, ASSET_LONG_EDGE
<1>5. CASE DecodeFull
  <2>1. made' = made /\ at = "full" /\ made = NoneMade /\ bitmaps = {} /\ result = Absent
    BY <1>5 DEF DecodeFull, PrepareInv
  <2>2. \/ at' = "over" /\ result' = "not-decoded" /\ bitmaps' = bitmaps
        \/ at' = "size" /\ result' = result /\ \E edge \in 1..3 : bitmaps' = {edge}
    <3>1. PICK b \in Decoded(0..3) :
              IF (Frame # Absent /\ (b.edge # file.edge \/ ~b.right)) \/ b.edge = 0
              THEN Finishes("not-decoded") /\ UNCHANGED <<bitmaps, file>>
              ELSE at' = "size" /\ bitmaps' = {b.edge} /\ file' = Absent /\ UNCHANGED result
      BY <1>5 DEF DecodeFull
    <3>2. b.edge \in 0..3  BY DEF Decoded
    <3>3. b.edge # 0 => b.edge \in 1..3  BY <3>2
    <3> QED  BY <3>1, <3>3 DEF Finishes
  <2> QED  BY <2>1, <2>2 DEF PrepareInv, NoneMade, Bitmap
<1> QED  BY <1>1, <1>2, <1>3, <1>4, <1>5

\* Encoding the asset keeps what the filter lets through, or ends with nothing made.
LEMMA EncodeAssetKeepsInv ==
    ASSUME PrepareInv, EncodeAsset
    PROVE  PrepareInv'
<1>1. at = "size" /\ Bitmap /\ made = NoneMade /\ result = Absent
  BY DEF EncodeAsset, PrepareInv
<1> DEFINE size == Asked("asset")
<1>2. size \in 1..ASSET_LONG_EDGE /\ size \in Int
  BY <1>1, AskedSizes DEF ASSET_LONG_EDGE
<1>3. PICK blob \in Encodings(size) :
          IF jpeg(blob, size).error = Absent
          THEN at' = "thumb" /\ made' = [made EXCEPT !.asset = jpeg(blob, size).bytes] /\ UNCHANGED <<bitmaps, result>>
          ELSE Finishes(jpeg(blob, size).error) /\ bitmaps' = {} /\ UNCHANGED made
  BY DEF EncodeAsset
<1>4. blob \in Seq(AnyPiece)  BY <1>2, EncodedPieces
<1> HIDE DEF size
<1>5. CASE jpeg(blob, size).error = Absent
  <2>1. Stripped(jpeg(blob, size).bytes, 1..ASSET_LONG_EDGE)
    BY <1>2, <1>4, <1>5, JpegIsStripped DEF Stripped
  <2>2. at' = "thumb" /\ bitmaps' = bitmaps /\ result' = result
        /\ made' = [asset |-> jpeg(blob, size).bytes, thumb |-> Nothing]
    BY <1>1, <1>3, <1>5 DEF NoneMade
  <2>3. Stripped(made.asset, 1..ASSET_LONG_EDGE)'
    BY <2>1, <2>2 DEF Stripped, OnlyAnImage, InScan
  <2> QED  BY <1>1, <2>2, <2>3 DEF PrepareInv, Bitmap
<1>6. CASE jpeg(blob, size).error # Absent
  <2>1. jpeg(blob, size).error # "ok"
    BY <1>6 DEF jpeg, Absent
  <2>2. at' = "over" /\ result' # "ok" /\ bitmaps' = {} /\ made' = NoneMade
    BY <1>1, <1>3, <1>6, <2>1 DEF Finishes
  <2> QED  BY <2>2 DEF PrepareInv, NoneMade
<1> QED  BY <1>5, <1>6

\* So does encoding the thumbnail, which lets go of the bitmap and, on failure, of both.
LEMMA EncodeThumbKeepsInv ==
    ASSUME PrepareInv, EncodeThumb
    PROVE  PrepareInv'
<1>1. /\ at = "thumb" /\ Bitmap /\ made.thumb = Nothing /\ result = Absent
      /\ Stripped(made.asset, 1..ASSET_LONG_EDGE) /\ bitmaps' = {}
      /\ made = [asset |-> made.asset, thumb |-> made.thumb]
  BY DEF EncodeThumb, PrepareInv
<1> DEFINE size == Asked("thumb")
<1>2. size = THUMB_LONG_EDGE /\ size \in Int
  BY <1>1, AskedSizes DEF THUMB_LONG_EDGE
<1>3. PICK blob \in ThumbEncodings(size) :
          IF jpeg(blob, size).error = Absent
          THEN at' = "fits" /\ made' = [made EXCEPT !.thumb = jpeg(blob, size).bytes] /\ UNCHANGED result
          ELSE Finishes(jpeg(blob, size).error) /\ made' = NoneMade
  BY DEF EncodeThumb
<1>4. blob \in Seq(AnyPiece)  BY <1>2, EncodedPieces
<1> HIDE DEF size
<1>5. CASE jpeg(blob, size).error = Absent
  <2>1. Stripped(jpeg(blob, size).bytes, {THUMB_LONG_EDGE})
    BY <1>2, <1>4, <1>5, JpegIsStripped DEF Stripped
  <2>2. at' = "fits" /\ result' = result
        /\ made' = [asset |-> made.asset, thumb |-> jpeg(blob, size).bytes]
    BY <1>1, <1>3, <1>5
  <2>3. Stripped(made.thumb, {THUMB_LONG_EDGE})'
    BY <2>1, <2>2 DEF Stripped, OnlyAnImage, InScan
  <2>4. Stripped(made.asset, 1..ASSET_LONG_EDGE)'
    BY <1>1, <2>2 DEF Stripped, OnlyAnImage, InScan
  <2> QED  BY <1>1, <2>2, <2>3, <2>4 DEF PrepareInv
<1>6. CASE jpeg(blob, size).error # Absent
  <2>1. jpeg(blob, size).error # "ok"
    BY <1>6 DEF jpeg, Absent
  <2>2. at' = "over" /\ result' # "ok" /\ bitmaps' = {} /\ made' = NoneMade
    BY <1>1, <1>3, <1>6, <2>1 DEF Finishes
  <2> QED  BY <2>2 DEF PrepareInv, NoneMade
<1> QED  BY <1>5, <1>6

\* What is over a cap is let go of, all of it.
LEMMA WithinCapsKeepsInv ==
    ASSUME PrepareInv, WithinCaps
    PROVE  PrepareInv'
<1>1. at = "fits" /\ bitmaps' = {} /\ at' = "over"
  BY DEF WithinCaps, PrepareInv, Finishes
<1>2. CASE result' # "ok" /\ made' = NoneMade
  BY <1>1, <1>2 DEF PrepareInv, NoneMade
<1>3. CASE result' = "ok" /\ made' = made
  <2>1. Stripped(made.asset, 1..ASSET_LONG_EDGE)' /\ Stripped(made.thumb, {THUMB_LONG_EDGE})'
    BY <1>1, <1>3 DEF PrepareInv, Stripped, OnlyAnImage, InScan
  <2> QED  BY <1>1, <1>3, <2>1 DEF PrepareInv
<1> QED  BY <1>2, <1>3 DEF WithinCaps, Finishes

\* A step of the other parts.
LEMMA UnpreparedKeepsInv ==
    ASSUME PrepareInv, UNCHANGED prepareVars
    PROVE  PrepareInv'
BY DEF PrepareInv, prepareVars, Bitmap, Stripped, OnlyAnImage, InScan

\* Whatever the browser's encoder wrote, in however many pieces, prepare hands on
\* an image and nothing more, of the size it asked for, and keeps nothing that it
\* does not hand on (prepare.ts prepare, jpeg-filter.ts keepImageSegments).
THEOREM OnlyImagesAreHandedOn == PrepareSpec => []PreparedIsStripped
<1>1. PrepareInv /\ [PrepareNext]_prepareVars => PrepareInv'
  BY DecodeKeepsInv, EncodeAssetKeepsInv, EncodeThumbKeepsInv, WithinCapsKeepsInv, UnpreparedKeepsInv
  DEF PrepareNext
<1> QED  BY InitPrepareInv, InvIsStripped, <1>1, PTL DEF PrepareSpec

(***************************************************************************)
(* A photograph that is viewed.                                            *)
(***************************************************************************)
\* The greatest of a bounded set of numbers is one of them.
LEMMA MaxIs ==
    ASSUME NEW T \in SUBSET Nat, T # {}, NEW bound \in Nat, \A n \in T : n <= bound
    PROVE  Max(T) \in T /\ \A n \in T : n <= Max(T)
<1> DEFINE U == {n \in Nat : n <= bound /\ bound - n \in T}
<1>1. \A n \in T : bound - n \in U  OBVIOUS
<1>2. PICK m \in U : \A n \in U : m <= n
  <2> HIDE DEF U
  <2>1. U # {}  BY <1>1
  <2>2. U \in SUBSET Nat  BY DEF U
  <2> QED  BY <2>1, <2>2, Least
<1>3. bound - m \in T /\ m \in Nat  OBVIOUS
<1>4. \A n \in T : m <= bound - n  BY <1>1, <1>2
<1>5. \A n \in T : n <= bound - m  BY <1>3, <1>4
<1>6. \E x \in T : \A y \in T : x >= y  BY <1>3, <1>5
<1> QED  BY <1>6 DEF Max

\* The views there are.
Views == [scale : One..MAX_SCALE, x : Int, y : Int]

\* The levels of zoom are numbers, and the largest is one of them.
LEMMA Levels ==
    /\ One \in Int /\ One > 0 /\ MAX_SCALE \in ZOOM_LEVELS /\ MAX_SCALE \in Int /\ One <= MAX_SCALE
    /\ \A l \in ZOOM_LEVELS : l \in Int /\ l <= MAX_SCALE
<1>1. PICK most \in ZOOM_LEVELS : \A l \in ZOOM_LEVELS : l <= most
  BY GestureAssumption
<1>2. ZOOM_LEVELS \in SUBSET Nat /\ ZOOM_LEVELS # {} /\ most \in Nat /\ One \in ZOOM_LEVELS /\ One \in Nat \ {0}
  BY GestureAssumption
<1>3. Max(ZOOM_LEVELS) \in ZOOM_LEVELS /\ \A l \in ZOOM_LEVELS : l <= Max(ZOOM_LEVELS)
  BY <1>1, <1>2, MaxIs
<1>4. Max(ZOOM_LEVELS) \in Nat  BY <1>2, <1>3
<1>5. \A l \in ZOOM_LEVELS : l \in Nat  BY <1>2
<1> HIDE DEF Max
<1> QED  BY <1>2, <1>3, <1>4, <1>5 DEF MAX_SCALE

\* A clamped number is within its bounds, and one that was already is not moved.
LEMMA WithinBounds ==
    ASSUME NEW l \in Nat, NEW n \in Int
    PROVE  /\ Within(-l, n, l) \in (-l)..l
           /\ n \in (-l)..l => Within(-l, n, l) = n
BY DEF Within

\* A number, if it is positive.
LEMMA MaxOfTwo ==
    ASSUME NEW n \in Int
    PROVE  Max({0, n}) = IF n > 0 THEN n ELSE 0
BY DEF Max

\* A quotient of what fits.
LEMMA Fitted ==
    ASSUME NEW a \in Nat, NEW b \in Nat, NEW p \in Nat \ {0}, a <= b * p
    PROVE  a \div p \in Nat /\ a \div p <= b
OBVIOUS

\* A fitted photograph is inside its stage.
LEMMA FitInside ==
    ASSUME stage \in Stages, picture \in Pictures
    PROVE  \A a \in Axes : fitOf[a] \in Nat /\ fitOf[a] <= stage[a]
<1>1. /\ stage.x \in Nat /\ stage.y \in Nat
      /\ picture.x \in Nat \ {0} /\ picture.y \in Nat \ {0}
  BY GestureAssumption DEF Stages, Pictures, Axes
<1>2. /\ stage.x * picture.y \in Nat /\ stage.y * picture.x \in Nat
  BY <1>1
<1>3. CASE stage.x * picture.y <= stage.y * picture.x
  <2>1. fitOf = [x |-> stage.x, y |-> (stage.x * picture.y) \div picture.x]
    BY <1>3 DEF fitOf
  <2>2. /\ (stage.x * picture.y) \div picture.x \in Nat
        /\ (stage.x * picture.y) \div picture.x <= stage.y
    BY <1>1, <1>2, <1>3, Fitted
  <2> QED  BY <1>1, <2>1, <2>2 DEF Axes
<1>4. CASE ~(stage.x * picture.y <= stage.y * picture.x)
  <2>1. fitOf = [x |-> (stage.y * picture.x) \div picture.y, y |-> stage.y]
    BY <1>4 DEF fitOf
  <2>2. /\ (stage.y * picture.x) \div picture.y \in Nat
        /\ (stage.y * picture.x) \div picture.y <= stage.x
    BY <1>1, <1>2, <1>4, Fitted
  <2> QED  BY <1>1, <2>1, <2>2 DEF Axes
<1> QED  BY <1>3, <1>4

\* The farthest a photograph may be off centre; not at all when it is fitted.
LEMMA LimitsType ==
    ASSUME stage \in Stages, picture \in Pictures, NEW s \in Int, s >= One
    PROVE  \A a \in Axes : /\ panLimits(s)[a] \in Nat
                           /\ s = One => panLimits(s)[a] = 0
<1>1. SUFFICES ASSUME NEW a \in Axes
               PROVE  panLimits(s)[a] \in Nat /\ (s = One => panLimits(s)[a] = 0)
  OBVIOUS
<1>2. /\ fitOf[a] \in Nat /\ fitOf[a] <= stage[a] /\ stage[a] \in Nat
      /\ One \in Int /\ One > 0
  BY FitInside, Levels, GestureAssumption DEF Stages
<1> DEFINE n == ((fitOf[a] * s) \div One - stage[a]) \div 2
<1>3. fitOf[a] * s \in Int  BY <1>2
<1>4. n \in Int  BY <1>2, <1>3
<1>5. panLimits(s)[a] = IF n > 0 THEN n ELSE 0
  BY <1>4, MaxOfTwo DEF panLimits
<1>6. s = One => (fitOf[a] * s) \div One = fitOf[a]
  BY <1>2
<1>7. s = One => n <= 0
  BY <1>2, <1>6
<1> QED  BY <1>4, <1>5, <1>7

\* Clamping keeps a view, leaves a clamped one, and centres a fitted one.
LEMMA Clamped ==
    ASSUME stage \in Stages, picture \in Pictures,
           NEW v \in Views
    PROVE  /\ clampView(v) \in Views
           /\ clampView(v).scale = v.scale
           /\ clampView(clampView(v)) = clampView(v)
           /\ clampView(v).scale = One => clampView(v) = FIT
<1> DEFINE lim == panLimits(v.scale)
<1>1. v.scale \in Int /\ v.scale >= One /\ v.x \in Int /\ v.y \in Int
  BY Levels DEF Views
<1>2. /\ lim.x \in Nat /\ lim.y \in Nat
      /\ v.scale = One => lim.x = 0 /\ lim.y = 0
  BY <1>1, LimitsType DEF Axes
<1> HIDE DEF lim
<1>3. clampView(v) = [scale |-> v.scale, x |-> Within(-lim.x, v.x, lim.x), y |-> Within(-lim.y, v.y, lim.y)]
  BY DEF clampView, lim
<1>4. /\ Within(-lim.x, v.x, lim.x) \in (-lim.x)..lim.x
      /\ Within(-lim.y, v.y, lim.y) \in (-lim.y)..lim.y
  BY <1>1, <1>2, WithinBounds
<1>5. clampView(v) \in Views /\ clampView(v).scale = v.scale
  BY <1>1, <1>2, <1>3, <1>4 DEF Views
<1>6. clampView(clampView(v)) = clampView(v)
  <2>1. clampView(clampView(v)) =
          [scale |-> clampView(v).scale,
           x |-> Within(-lim.x, clampView(v).x, lim.x), y |-> Within(-lim.y, clampView(v).y, lim.y)]
    BY <1>5 DEF clampView, lim
  <2>2. /\ clampView(v).x = Within(-lim.x, v.x, lim.x)
        /\ clampView(v).y = Within(-lim.y, v.y, lim.y)
    BY <1>3
  <2>4. /\ clampView(v).x \in Int /\ clampView(v).x \in (-lim.x)..lim.x
        /\ clampView(v).y \in Int /\ clampView(v).y \in (-lim.y)..lim.y
    BY <1>4, <1>5, <2>2 DEF Views
  <2>3. /\ Within(-lim.x, clampView(v).x, lim.x) = clampView(v).x
        /\ Within(-lim.y, clampView(v).y, lim.y) = clampView(v).y
    BY <1>2, <2>4, WithinBounds
  <2> QED  BY <1>3, <1>5, <2>1, <2>2, <2>3
<1>7. v.scale = One => clampView(v) = FIT
  BY <1>2, <1>3, <1>4 DEF FIT
<1> QED  BY <1>5, <1>6, <1>7

\* A scale is kept between fitted and the last step of the buttons.
LEMMA ScaleType ==
    ASSUME NEW n \in Int
    PROVE  /\ clampScale(n) \in One..MAX_SCALE
           /\ n \in One..MAX_SCALE => clampScale(n) = n
BY Levels DEF clampScale, Within

\* Moving a view makes a view, clamped.
LEMMA MoveType ==
    ASSUME stage \in Stages, picture \in Pictures, NEW v \in Views,
           NEW scale \in Int, NEW from \in Int, NEW to \in Int
    PROVE  /\ moveView(v, scale, from, to) \in Views
           /\ clampView(moveView(v, scale, from, to)) = moveView(v, scale, from, to)
           /\ moveView(v, scale, from, to).scale = One => moveView(v, scale, from, to) = FIT
<1> DEFINE s == clampScale(scale)
           Off(n) == to - ((from - n) * s) \div v.scale
           moved == [scale |-> s, x |-> Off(v.x), y |-> Off(v.y)]
<1>1. s \in One..MAX_SCALE /\ s \in Int  BY ScaleType, Levels
<1>2. v.scale \in Int /\ v.scale > 0 /\ v.x \in Int /\ v.y \in Int
  BY Levels DEF Views
<1> HIDE DEF s
<1>3. (from - v.x) * s \in Int /\ (from - v.y) * s \in Int  BY <1>1, <1>2
<1>4. Off(v.x) \in Int /\ Off(v.y) \in Int  BY <1>2, <1>3
<1>5. moved \in Views  BY <1>1, <1>4 DEF Views
<1>6. moveView(v, scale, from, to) = clampView(moved)  BY DEF moveView, s
<1> HIDE DEF moved
<1> QED  BY <1>5, <1>6, Clamped

\* What is moved nowhere stays where it is.
LEMMA MoveNowhere ==
    ASSUME stage \in Stages, picture \in Pictures, NEW v \in Views, NEW spot \in Int
    PROVE  moveView(v, v.scale, spot, spot) = clampView(v)
<1>1. /\ v.scale \in Int /\ v.scale > 0 /\ v.x \in Int /\ v.y \in Int
      /\ v.scale \in One..MAX_SCALE
  BY Levels DEF Views
<1>2. clampScale(v.scale) = v.scale  BY <1>1, ScaleType
<1>3. /\ ((spot - v.x) * v.scale) \div v.scale = spot - v.x
      /\ ((spot - v.y) * v.scale) \div v.scale = spot - v.y
  <2>1. \A n \in Int, d \in Int : d > 0 => (n * d) \div d = n  BY Z3
  <2> QED  BY <1>1, <2>1
<1>4. /\ spot - ((spot - v.x) * v.scale) \div v.scale = v.x
      /\ spot - ((spot - v.y) * v.scale) \div v.scale = v.y
  BY <1>1, <1>3
<1>5. [scale |-> v.scale, x |-> v.x, y |-> v.y] = v  BY DEF Views
<1> QED  BY <1>2, <1>4, <1>5 DEF moveView

Touches == [id : Pointers, at : Int]

\* The pointers that are down.
LEMMA TouchType ==
    ASSUME NEW s \in Seq(Touches)
    PROVE  /\ Len(s) \in Nat /\ s \in [1..Len(s) -> Touches]
           /\ \A i \in 1..Len(s) : s[i].id \in Pointers /\ s[i].at \in Int
<1>1. Len(s) \in Nat /\ \A i \in 1..Len(s) : s[i] \in Touches  OBVIOUS
<1> QED  BY <1>1 DEF Touches

\* Distances and middles are numbers.
LEMMA DistType ==
    ASSUME NEW a \in Int, NEW b \in Int
    PROVE  dist(a, b) \in Int /\ mid(a, b) \in Int
BY DEF dist, mid

\* A gesture that has not moved yet, or that has.
LEMMA MovedType ==
    ASSUME stage \in Stages, picture \in Pictures,
           NEW now \in Seq(Touches), NEW from, from.view \in Views, from.at \in Seq(Touches),
           Len(from.at) = Len(now), Len(now) > 0
    PROVE  /\ Moved(from, now) \in Views
           /\ clampView(Moved(from, now)) = Moved(from, now)
           /\ Moved(from, now).scale = One => Moved(from, now) = FIT
           /\ now = from.at => Moved(from, now) = clampView(from.view)
<1> DEFINE v == from.view
           a0 == from.at[1].at
           a1 == now[1].at
           b0 == from.at[2].at
           b1 == now[2].at
           d0 == dist(a0, b0)
           scale == IF d0 > 0 THEN (v.scale * dist(a1, b1)) \div d0 ELSE v.scale
<1>1. v \in Views /\ v.scale \in Int  BY Levels DEF Views
<1>2. a0 \in Int /\ a1 \in Int  BY TouchType
<1>3. CASE Len(now) = 1
  <2>1. Moved(from, now) = moveView(v, v.scale, a0, a1)  BY <1>3 DEF Moved
  <2> HIDE DEF v, a0, a1
  <2>2. now = from.at => a1 = a0  BY DEF a0, a1
  <2>3. now = from.at => Moved(from, now) = clampView(v)
    BY <1>1, <1>2, <2>1, <2>2, MoveNowhere
  <2>4. /\ Moved(from, now) \in Views
        /\ clampView(Moved(from, now)) = Moved(from, now)
        /\ Moved(from, now).scale = One => Moved(from, now) = FIT
    BY <1>1, <1>2, <2>1, MoveType
  <2> QED  BY <2>3, <2>4 DEF v
<1>4. CASE Len(now) # 1
  <2>1. b0 \in Int /\ b1 \in Int
    <3>1. Len(now) \in Nat  BY TouchType
    <3>3. \A n \in Nat : n > 0 /\ n # 1 => 2 \in 1..n  OBVIOUS
    <3>2. 2 \in 1..Len(now) /\ 2 \in 1..Len(from.at)  BY <1>4, <3>1, <3>3
    <3> QED  BY <3>2, TouchType
  <2>2. Moved(from, now) = moveView(v, scale, mid(a0, b0), mid(a1, b1))
    BY <1>4 DEF Moved
  <2>3. /\ mid(a0, b0) \in Int /\ mid(a1, b1) \in Int
        /\ d0 \in Int /\ dist(a1, b1) \in Int
    BY <1>2, <2>1, DistType
  <2>4. scale \in Int
    <3>1. v.scale * dist(a1, b1) \in Int  BY <1>1, <2>3
    <3> HIDE DEF d0
    <3> QED  BY <1>1, <2>3, <3>1
  <2>5. now = from.at => scale = v.scale /\ mid(a0, b0) = mid(a1, b1)
    <3>1. now = from.at => a0 = a1 /\ b0 = b1  OBVIOUS
    <3>2. d0 > 0 => (v.scale * d0) \div d0 = v.scale
      <4>1. \A n \in Int, d \in Int : d > 0 => (n * d) \div d = n  BY Z3
      <4> HIDE DEF d0
      <4> QED  BY <1>1, <2>3, <4>1
    <3> QED  BY <3>1, <3>2
  <2> HIDE DEF v, a0, a1, b0, b1, scale
  <2>6. now = from.at => Moved(from, now) = clampView(v)
    BY <1>1, <2>2, <2>3, <2>5, MoveNowhere
  <2>7. /\ Moved(from, now) \in Views
        /\ clampView(Moved(from, now)) = Moved(from, now)
        /\ Moved(from, now).scale = One => Moved(from, now) = FIT
    BY <1>1, <2>2, <2>3, <2>4, MoveType
  <2> QED  BY <2>6, <2>7 DEF v
<1> QED  BY <1>3, <1>4

-----------------------------------------------------------------------------
\* What the pointers, the gesture and the press are, and the view.
GesturesTypeOK ==
    /\ stage \in Stages /\ picture \in Pictures \cup {NoPicture}
    /\ view \in Views
    /\ pointers \in Seq(Touches)
    /\ pointers # <<>> =>
          /\ Scene
          /\ start.view \in Views /\ start.at \in Seq(Touches) /\ Len(start.at) = Len(pointers)
    /\ ~Scene => view = FIT

\* A press that may be a tap is of the only pointer down.
PressOK == press # Untouched => Len(pointers) = 1 /\ pointers[1].id = press.id

\* A fitted photograph is in its place.
FittedOK == view.scale = One => view = FIT

\* What the gesture has made of the photograph, and the stage's edge.
HeldOK ==
    /\ pointers # <<>> /\ ~steered /\ view = clampView(view) => view = Moved(start, pointers)
    /\ Scene /\ ~turned => view = clampView(view)

GesturesInv == GesturesTypeOK /\ PressOK /\ FittedOK /\ HeldOK

\* The fitted view is a view.
LEMMA FitType == FIT \in Views
BY Levels DEF FIT, Views

\* Clamping does not move it.
LEMMA FitClamped == stage \in Stages /\ picture \in Pictures => clampView(FIT) = FIT
<1>1. SUFFICES ASSUME stage \in Stages, picture \in Pictures PROVE clampView(FIT) = FIT
  OBVIOUS
<1>2. clampView(FIT).scale = FIT.scale  BY <1>1, FitType, Clamped
<1> QED  BY <1>1, <1>2, FitType, Clamped DEF FIT

\* Nor in the next state.
LEMMA FitClampedNext == (stage \in Stages /\ picture \in Pictures => clampView(FIT) = FIT)'
BY FitClamped, PTL

\* A gesture that begins with pointers down finds the photograph where it is.
LEMMA Rebased ==
    ASSUME stage \in Stages, picture \in Pictures, view \in Views,
           NEW now \in Seq(Touches), now # <<>>, view = clampView(view)
    PROVE  view = Moved(rebase(now), now)
<1>1. rebase(now).view = view /\ rebase(now).at = now  BY DEF rebase
<1>2. Len(now) > 0  OBVIOUS
<1> QED  BY <1>1, <1>2, MovedType

\* One pointer fewer.
LEMMA LiftedType ==
    ASSUME pointers \in Seq(Touches), NEW p, IsDown(p)
    PROVE  /\ Lifted(p) \in Seq(Touches)
           /\ Len(Lifted(p)) = Len(pointers) - 1
<1> DEFINE i == CHOOSE i \in 1..Len(pointers) : pointers[i].id = p
<1>1. i \in 1..Len(pointers)  BY DEF IsDown
<1> HIDE DEF i
<1>2. Len(pointers) \in Nat  BY TouchType
<1>3. /\ SubSeq(pointers, 1, i - 1) \in Seq(Touches)
      /\ Len(SubSeq(pointers, 1, i - 1)) = i - 1
      /\ SubSeq(pointers, i + 1, Len(pointers)) \in Seq(Touches)
      /\ Len(SubSeq(pointers, i + 1, Len(pointers))) = Len(pointers) - i
  BY <1>1, <1>2, SubSeqProperties
<1>4. Lifted(p) = SubSeq(pointers, 1, i - 1) \o SubSeq(pointers, i + 1, Len(pointers))
  BY DEF Lifted, RemoveAt, i
<1>5. /\ Lifted(p) \in Seq(Touches)
      /\ Len(Lifted(p)) = Len(SubSeq(pointers, 1, i - 1)) + Len(SubSeq(pointers, i + 1, Len(pointers)))
  BY <1>3, <1>4, ConcatProperties
<1>6. Len(Lifted(p)) = (i - 1) + (Len(pointers) - i)
  BY <1>3, <1>5
<1>7. \A n, m \in Int : (m - 1) + (n - m) = n - 1  OBVIOUS
<1>8. i \in Int /\ Len(pointers) \in Int  BY <1>1, <1>2
<1> QED  BY <1>5, <1>6, <1>7, <1>8

\* A step that leaves the stage and the photograph alone clamps and moves as before.
LEMMA SameScene ==
    ASSUME UNCHANGED <<stage, picture>>
    PROVE  /\ clampView(view)' = clampView(view')
           /\ Moved(start, pointers)' = Moved(start', pointers')
<1>1. \A s : panLimits(s)' = panLimits(s)
  BY DEF panLimits, fitOf
<1>2. \A v : clampView(v)' = clampView(v)
  BY <1>1 DEF clampView
<1>3. clampView(view)' = clampView(view')
  BY DEF clampView, panLimits, fitOf
<1>4. Moved(start, pointers)' = Moved(start', pointers')
  BY DEF Moved, moveView, clampView, panLimits, fitOf
<1> QED  BY <1>3, <1>4

\* The pointers are others, and the gesture begins anew.
LEMMA RebaseKeeps ==
    ASSUME GesturesInv, Scene, UNCHANGED <<stage, picture, view, turned>>,
           pointers' \in Seq(Touches), start' = rebase(pointers'), steered' = FALSE,
           PressOK'
    PROVE  GesturesInv'
<1>1. stage \in Stages /\ picture \in Pictures /\ view \in Views
  BY DEF GesturesInv, GesturesTypeOK, Scene
<1>2. GesturesTypeOK'
  BY <1>1 DEF GesturesInv, GesturesTypeOK, Scene, rebase
<1>3. FittedOK'
  BY DEF GesturesInv, FittedOK
<1>4. HeldOK'
  <2>1. clampView(view)' = clampView(view)
    BY SameScene
  <2>2. pointers' # <<>> /\ view = clampView(view) => view = Moved(start', pointers')
    BY <1>1, Rebased
  <2>3. Scene' = Scene  BY DEF Scene
  <2> QED  BY <2>1, <2>2, <2>3, SameScene DEF GesturesInv, HeldOK
<1> QED  BY <1>2, <1>3, <1>4 DEF GesturesInv

\* The photograph is put somewhere its edge allows, by what is not a pointer.
LEMMA PutKeeps ==
    ASSUME GesturesInv, Scene, UNCHANGED <<stage, picture>>,
           view' \in Views, clampView(view') = view', view'.scale = One => view' = FIT,
           \/ UNCHANGED <<pointers, start, press>> /\ steered' = (pointers # <<>>)
           \/ pointers' = <<>> /\ press' = Untouched
    PROVE  GesturesInv'
<1>1. clampView(view)' = view'  BY SameScene
<1>2. GesturesTypeOK'
  <2>1. pointers' = <<>> => pointers' \in Seq(Touches)  OBVIOUS
  <2> QED  BY <2>1 DEF GesturesInv, GesturesTypeOK, Scene
<1>3. PressOK'
  BY DEF GesturesInv, PressOK
<1>4. FittedOK'
  BY DEF FittedOK
<1>5. HeldOK'
  BY <1>1 DEF HeldOK
<1> QED  BY <1>2, <1>3, <1>4, <1>5 DEF GesturesInv

\* A pointer lands: the gesture starts over from where the photograph is.
LEMMA DownKeeps ==
    ASSUME GesturesInv, NEW p \in Pointers, NEW spot \in Spots, PointerDown(p, spot)
    PROVE  GesturesInv'
<1>1. spot \in Int  BY GestureAssumption DEF Spots
<1>2. [id |-> p, at |-> spot] \in Touches /\ pointers \in Seq(Touches)
  BY <1>1 DEF Touches, GesturesInv, GesturesTypeOK
<1>3. pointers' \in Seq(Touches)
  BY <1>2, AppendProperties DEF PointerDown
<1>4. PressOK'
  <2>1. CASE pointers = <<>>
    <3>1. pointers' = <<[id |-> p, at |-> spot]>>  BY <2>1 DEF PointerDown
    <3>2. press'.id = p  BY <2>1 DEF PointerDown
    <3> QED  BY <3>1, <3>2 DEF PressOK
  <2>2. CASE pointers # <<>>
    BY <2>2 DEF PointerDown, PressOK
  <2> QED  BY <2>1, <2>2
<1> QED  BY <1>3, <1>4, RebaseKeeps DEF PointerDown

\* A pointer moves: the photograph follows, clamped.
LEMMA MoveKeeps ==
    ASSUME GesturesInv, NEW p \in Pointers, NEW spot \in Spots, PointerMove(p, spot)
    PROVE  GesturesInv'
<1>1. spot \in Int  BY GestureAssumption DEF Spots
<1>2. /\ stage \in Stages /\ picture \in Pictures /\ pointers \in Seq(Touches) /\ pointers # <<>>
      /\ start.view \in Views /\ start.at \in Seq(Touches) /\ Len(start.at) = Len(pointers)
  BY DEF PointerMove, IsDown, GesturesInv, GesturesTypeOK, Scene
<1>3. /\ pointers' \in Seq(Touches) /\ Len(pointers') = Len(pointers)
      /\ \A i \in 1..Len(pointers) : pointers'[i].id = pointers[i].id
  <2>1. Len(pointers) \in Nat /\ \A i \in 1..Len(pointers) : pointers[i] \in Touches
    BY <1>2, TouchType
  <2>2. [id |-> p, at |-> spot] \in Touches  BY <1>1 DEF Touches
  <2>3. pointers' = [i \in 1..Len(pointers) |->
                       IF pointers[i].id = p THEN [id |-> p, at |-> spot] ELSE pointers[i]]
    BY DEF PointerMove, Put
  <2> QED  BY <2>1, <2>2, <2>3
<1>4. Len(pointers') > 0 /\ pointers' # <<>>  BY <1>2, <1>3
<1>5. view' = Moved(start, pointers') /\ UNCHANGED <<stage, picture, start>>
  BY DEF PointerMove
<1>6. view' \in Views /\ clampView(view') = view' /\ (view'.scale = One => view' = FIT)
  BY <1>2, <1>3, <1>4, <1>5, MovedType
<1>7. GesturesTypeOK'
  BY <1>2, <1>3, <1>5, <1>6 DEF GesturesInv, GesturesTypeOK, Scene, PointerMove
<1>8. PressOK'
  <2>1. SUFFICES ASSUME press' # Untouched PROVE Len(pointers') = 1 /\ pointers'[1].id = press'.id
    BY DEF PressOK
  <2>2. press # Untouched /\ press'.id = press.id
    BY <2>1 DEF PointerMove
  <2>3. Len(pointers) = 1 /\ pointers[1].id = press.id
    BY <2>2 DEF GesturesInv, PressOK
  <2> QED  BY <1>3, <2>2, <2>3
<1>9. FittedOK'  BY <1>6 DEF FittedOK
<1>10. HeldOK'
  BY <1>5, <1>6, SameScene DEF HeldOK
<1> QED  BY <1>7, <1>8, <1>9, <1>10 DEF GesturesInv

\* A pointer is lifted: a tap, a double tap, or the rest of a pinch.
LEMMA UpKeeps ==
    ASSUME GesturesInv, NEW p \in Pointers, NEW spot \in Spots, PointerUp(p, spot)
    PROVE  GesturesInv'
<1>1. spot \in Int  BY GestureAssumption DEF Spots
<1>2. /\ stage \in Stages /\ picture \in Pictures /\ pointers \in Seq(Touches) /\ view \in Views
      /\ Scene /\ IsDown(p)
  BY DEF PointerUp, GesturesInv, GesturesTypeOK, Scene
<1>3. pointers' \in Seq(Touches) /\ Len(pointers') = Len(pointers) - 1
  BY <1>2, LiftedType DEF PointerUp
<1>4. PressOK'
  BY DEF PointerUp, PressOK
<1>5. CASE UNCHANGED <<view, turned>>
  BY <1>2, <1>3, <1>4, <1>5, RebaseKeeps DEF PointerUp
<1>6. CASE IsTap(p, spot) /\ view' = doubleTap(spot)
  <2>1. Len(pointers) = 1
    BY <1>6 DEF IsTap, GesturesInv, PressOK
  <2>2. pointers' = <<>>
    BY <1>3, <2>1, EmptySeq
  <2>3. view' \in Views /\ clampView(view') = view' /\ (view'.scale = One => view' = FIT)
    <3>1. CASE isFitted(view)
      <4>1. view' = moveView(view, DOUBLE_TAP_SCALE, spot, spot)
        BY <1>6, <3>1 DEF doubleTap
      <4> QED  BY <1>1, <1>2, <4>1, GestureAssumption, MoveType
    <3>2. CASE ~isFitted(view)
      <4>1. view' = FIT  BY <1>6, <3>2 DEF doubleTap
      <4> QED  BY <1>2, <4>1, FitType, FitClamped
    <3> QED  BY <3>1, <3>2
  <2> QED  BY <1>2, <2>2, <2>3, PutKeeps DEF PointerUp
<1> QED  BY <1>5, <1>6 DEF PointerUp

\* A pointer is lost.
LEMMA CancelKeeps ==
    ASSUME GesturesInv, NEW p \in Pointers, PointerCancel(p)
    PROVE  GesturesInv'
<1>1. pointers \in Seq(Touches) /\ Scene /\ IsDown(p)
  BY DEF PointerCancel, GesturesInv, GesturesTypeOK
<1>2. pointers' \in Seq(Touches)
  BY <1>1, LiftedType DEF PointerCancel
<1>3. press' = Untouched
  <2>1. SUFFICES ASSUME press # Untouched PROVE press.id = p
    BY DEF PointerCancel
  <2>2. Len(pointers) = 1 /\ pointers[1].id = press.id
    BY <2>1 DEF GesturesInv, PressOK
  <2>3. PICK i \in 1..Len(pointers) : pointers[i].id = p  BY <1>1 DEF IsDown
  <2> QED  BY <2>2, <2>3
<1>4. PressOK'  BY <1>3 DEF PressOK
<1> QED  BY <1>1, <1>2, <1>4, RebaseKeeps DEF PointerCancel

\* A view chosen by a button or a key is clamped already; the pointers stay.
LEMMA ButtonKeeps ==
    ASSUME GesturesInv, Scene, NEW to \in Views, clampView(to) = to, to.scale = One => to = FIT, Button(to)
    PROVE  GesturesInv'
BY PutKeeps DEF Button, touch

\* A zoom, by a button or a key.
LEMMA ZoomKeeps ==
    ASSUME GesturesInv, NEW dir \in {"in", "out"}, Zoom(dir)
    PROVE  GesturesInv'
<1>1. stage \in Stages /\ picture \in Pictures /\ view \in Views /\ Scene
  BY DEF Zoom, GesturesInv, GesturesTypeOK, Scene
<1>2. view.scale \in Nat /\ view.scale >= One /\ ZOOM_LEVELS \in SUBSET Nat
  BY <1>1, Levels, GestureAssumption DEF Views
<1> DEFINE next == IF dir = "in" THEN Min({l \in ZOOM_LEVELS : l > view.scale})
                   ELSE Max({l \in ZOOM_LEVELS : l < view.scale})
<1>3. next \in Int
  <2>1. CASE dir = "in"
    <3>1. view.scale < MAX_SCALE  BY <2>1 DEF Zoom, canZoom
    <3>2. MAX_SCALE \in {l \in ZOOM_LEVELS : l > view.scale}  BY <1>2, <3>1, Levels
    <3>3. {l \in ZOOM_LEVELS : l > view.scale} \in SUBSET Nat  BY <1>2
    <3>4. Min({l \in ZOOM_LEVELS : l > view.scale}) \in Nat  BY <3>2, <3>3, MinIs
    <3> QED  BY <2>1, <3>4
  <2>2. CASE dir = "out"
    <3>1. view.scale > One  BY <2>2 DEF Zoom, canZoom
    <3>2. One \in {l \in ZOOM_LEVELS : l < view.scale}
      BY <1>2, <3>1, Levels, GestureAssumption
    <3>3. /\ {l \in ZOOM_LEVELS : l < view.scale} \in SUBSET Nat
          /\ \A l \in {m \in ZOOM_LEVELS : m < view.scale} : l <= view.scale
      <4>1. \A l \in ZOOM_LEVELS : l \in Nat  BY <1>2
      <4>2. \A l, m \in Nat : l < m => l <= m  OBVIOUS
      <4> QED  BY <1>2, <4>1, <4>2
    <3>4. Max({l \in ZOOM_LEVELS : l < view.scale}) \in Nat  BY <1>2, <3>2, <3>3, MaxIs
    <3> QED  BY <2>2, <3>4
  <2> QED  BY <2>1, <2>2
<1> HIDE DEF next
<1>4. zoomBy(dir) = moveView(view, next, 0, 0)  BY DEF zoomBy, next
<1>5. /\ zoomBy(dir) \in Views /\ clampView(zoomBy(dir)) = zoomBy(dir)
      /\ zoomBy(dir).scale = One => zoomBy(dir) = FIT
  BY <1>1, <1>3, <1>4, MoveType
<1> QED  BY <1>1, <1>5, ButtonKeeps DEF Zoom

\* A pan, by a button or a key.
LEMMA PanKeeps ==
    ASSUME GesturesInv, NEW dir \in {"up", "down", "left", "right"}, Pan(dir)
    PROVE  GesturesInv'
<1>1. stage \in Stages /\ picture \in Pictures /\ view \in Views /\ Scene
  BY DEF Pan, GesturesInv, GesturesTypeOK, Scene
<1>2. stage.x \in Nat /\ stage.y \in Nat
  BY <1>1, GestureAssumption DEF Stages, Axes
<1>3. stage.x \div 4 \in Int /\ stage.y \div 4 \in Int
  BY <1>2
<1>4. PICK v \in Views : panBy(dir) = clampView(v)
  <2> DEFINE quarter == [a \in Axes |-> stage[a] \div 4]
  <2>1. quarter.x \in Int /\ quarter.y \in Int  BY <1>3 DEF Axes
  <2> HIDE DEF quarter
  <2>2. view.x \in Int /\ view.y \in Int  BY <1>1 DEF Views
  <2>3. CASE dir = "up"
    <3>1. [view EXCEPT !.y = @ + quarter.y] \in Views  BY <1>1, <2>1, <2>2 DEF Views
    <3>2. panBy(dir) = clampView([view EXCEPT !.y = @ + quarter.y])  BY <2>3 DEF panBy, quarter
    <3> QED  BY <3>1, <3>2
  <2>4. CASE dir = "down"
    <3>1. [view EXCEPT !.y = @ - quarter.y] \in Views  BY <1>1, <2>1, <2>2 DEF Views
    <3>2. panBy(dir) = clampView([view EXCEPT !.y = @ - quarter.y])  BY <2>4 DEF panBy, quarter
    <3> QED  BY <3>1, <3>2
  <2>5. CASE dir = "left"
    <3>1. [view EXCEPT !.x = @ + quarter.x] \in Views  BY <1>1, <2>1, <2>2 DEF Views
    <3>2. panBy(dir) = clampView([view EXCEPT !.x = @ + quarter.x])  BY <2>5 DEF panBy, quarter
    <3> QED  BY <3>1, <3>2
  <2>6. CASE dir = "right"
    <3>1. [view EXCEPT !.x = @ - quarter.x] \in Views  BY <1>1, <2>1, <2>2 DEF Views
    <3>2. panBy(dir) = clampView([view EXCEPT !.x = @ - quarter.x])  BY <2>6 DEF panBy, quarter
    <3> QED  BY <3>1, <3>2
  <2> QED  BY <2>3, <2>4, <2>5, <2>6
<1>5. /\ panBy(dir) \in Views /\ clampView(panBy(dir)) = panBy(dir)
      /\ panBy(dir).scale = One => panBy(dir) = FIT
  BY <1>1, <1>4, Clamped
<1> QED  BY <1>1, <1>5, ButtonKeeps DEF Pan

\* The stage is measured again.
LEMMA MeasureKeeps ==
    ASSUME GesturesInv, NEW size \in Stages, Measure(size)
    PROVE  GesturesInv'
<1>1. GesturesTypeOK'
  BY DEF Measure, touch, GesturesInv, GesturesTypeOK, Scene
<1>2. PressOK' /\ FittedOK'
  BY DEF Measure, touch, GesturesInv, PressOK, FittedOK
<1>3. HeldOK'
  BY DEF Measure, touch, HeldOK
<1> QED  BY <1>1, <1>2, <1>3 DEF GesturesInv

\* The photograph has loaded.
LEMMA ShownKeeps ==
    ASSUME GesturesInv, NEW pic \in Pictures \cup {NoPicture}, Shown(pic)
    PROVE  GesturesInv'
<1>1. /\ stage' \in Stages /\ picture' \in Pictures \cup {NoPicture}
      /\ view' = FIT /\ pointers' = <<>> /\ press' = Untouched
  BY DEF Shown, Forgets, GesturesInv, GesturesTypeOK
<1>2. GesturesTypeOK'
  BY <1>1, FitType DEF GesturesTypeOK
<1>3. PressOK' /\ FittedOK'
  BY <1>1 DEF PressOK, FittedOK
<1>4. HeldOK'
  <2>1. Scene' => clampView(FIT)' = FIT
    <3>1. SUFFICES ASSUME Scene' PROVE clampView(FIT)' = FIT  OBVIOUS
    <3>2. stage' \in Stages /\ picture' \in Pictures  BY <1>1, <3>1 DEF Scene
    <3> QED  BY <3>2, FitClampedNext
  <2> QED  BY <1>1, <2>1 DEF HeldOK, clampView
<1> QED  BY <1>2, <1>3, <1>4 DEF GesturesInv

\* Another photograph is shown.
LEMMA ReplacedKeeps ==
    ASSUME GesturesInv, Replaced
    PROVE  GesturesInv'
<1>1. stage \in Stages /\ picture \in Pictures /\ Scene
  BY DEF Replaced, GesturesInv, GesturesTypeOK, Scene
<1>2. FIT \in Views /\ clampView(FIT) = FIT  BY <1>1, FitType, FitClamped
<1> QED  BY <1>1, <1>2, PutKeeps DEF Replaced, Forgets

\* The photograph is where the fingers put it and inside its edges, and none is
\* displaced with "Fit" switched off, whatever the steps, stages and photographs.
THEOREM PhotoStaysInHand == GesturesSpec => []PhotoInHand
<1>1. GesturesInit => GesturesInv
  <2>1. ASSUME GesturesInit PROVE GesturesTypeOK
    BY <2>1, FitType DEF GesturesInit, GesturesTypeOK
  <2>2. ASSUME GesturesInit PROVE PressOK /\ FittedOK /\ HeldOK
    BY <2>2 DEF GesturesInit, PressOK, FittedOK, HeldOK, Scene
  <2> QED  BY <2>1, <2>2 DEF GesturesInv
<1>2. GesturesInv /\ [GesturesNext]_gestureVars => GesturesInv'
  <2> SUFFICES ASSUME GesturesInv, [GesturesNext]_gestureVars PROVE GesturesInv'
    OBVIOUS
  <2>1. CASE UNCHANGED gestureVars
    <3>1. /\ clampView(view)' = clampView(view)
          /\ Moved(start, pointers)' = Moved(start, pointers)
      BY <2>1, SameScene DEF gestureVars, touch
    <3> QED  BY <2>1, <3>1 DEF gestureVars, touch, GesturesInv, GesturesTypeOK, PressOK, FittedOK, HeldOK, Scene
  <2>2. CASE \E p \in Pointers : PointerCancel(p)  BY <2>2, CancelKeeps
  <2>3. CASE \E p \in Pointers, spot \in Spots : PointerDown(p, spot) \/ PointerMove(p, spot) \/ PointerUp(p, spot)
    BY <2>3, DownKeeps, MoveKeeps, UpKeeps
  <2>4. CASE Replaced  BY <2>4, ReplacedKeeps
  <2>5. CASE \E pic \in Pictures \cup {NoPicture} : Shown(pic)  BY <2>5, ShownKeeps
  <2>6. CASE \E dir \in {"in", "out"} : Zoom(dir)  BY <2>6, ZoomKeeps
  <2>7. CASE \E dir \in {"up", "down", "left", "right"} : Pan(dir)  BY <2>7, PanKeeps
  <2>8. CASE Fit
    <3>1. stage \in Stages /\ picture \in Pictures /\ Scene
      BY <2>8 DEF Fit, GesturesInv, GesturesTypeOK, Scene
    <3> QED  BY <2>8, <3>1, FitType, FitClamped, ButtonKeeps DEF Fit
  <2>9. CASE \E size \in Stages : Measure(size)  BY <2>9, MeasureKeeps
  <2> QED  BY <2>1, <2>2, <2>3, <2>4, <2>5, <2>6, <2>7, <2>8, <2>9 DEF GesturesNext
<1>3. GesturesInv => PhotoInHand
  <2>1. ASSUME GesturesInv, view # FIT PROVE canZoom.out
    <3>1. view \in Views /\ view.scale # One
      BY <2>1 DEF GesturesInv, GesturesTypeOK, FittedOK
    <3>2. view.scale > One
      BY <3>1, Levels DEF Views
    <3> QED  BY <3>2 DEF canZoom
  <2> QED  BY <2>1 DEF GesturesInv, HeldOK, PhotoInHand
<1> QED  BY <1>1, <1>2, <1>3, PTL DEF GesturesSpec
=============================================================================
