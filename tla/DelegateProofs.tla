---------------------------- MODULE DelegateProofs ----------------------------
(***************************************************************************)
(* Proofs about module Delegate: the two walks of src/delegate.rs, for     *)
(* every cap on the length of a chain, every set of keys and every         *)
(* certificate that may be put in it.                                      *)
(***************************************************************************)
EXTENDS Delegate, TLAPS

-----------------------------------------------------------------------------
(* The inductive invariant                                                  *)

\* The check made of the certificate visited as number k, in either walk.
GoodStep(k) ==
    IF walk = "delegate"
    THEN IF k = 1 THEN path[1].by = Owner ELSE IssuedBy(path[k], path[k - 1], len - k)
    ELSE k = 1 \/ IssuedBy(path[k - 1], path[k], k - 2)

AllGood == \A k \in DOMAIN path : GoodStep(k)

\* A walk stays within the chain, and only a chain within the cap is walked.
Bounds ==
    /\ Len(path) <= len
    /\ path # <<>> => len <= MAX_DELEGATE_CHAIN_LEN
    /\ pc = "idle" => path = <<>>
    /\ pc = "walk" => len \in 1..MAX_DELEGATE_CHAIN_LEN

\* A walk goes on only over certificates that passed; its verdict is that of
\* all of them.
WalkedGood == pc \in {"idle", "walk"} => result = {} /\ AllGood

Accepted ==
    /\ Len(path) = len /\ len > 0
    /\ AllGood
    /\ result = {IF walk = "delegate"
                 THEN [key |-> path[len].key, flags |-> ChainFlags(path)]
                 ELSE [key |-> path[1].key, flags |-> {}]}

Verdict ==
    pc = "done" => \/ result = {} /\ path = <<>>
                   \/ result = {} /\ ~AllGood
                   \/ Accepted

\* Every key of the chain so far that is not the owner's has its certificate from
\* somebody else: a run of certificates a key issued to itself begins with one.
Held ==
    walk = "delegate" /\ AllGood =>
        \A j \in DOMAIN path : path[j].key # Owner =>
            \E i \in 1..j : path[i].key = path[j].key /\ path[i].by # path[i].key

IInv == TypeOK /\ Bounds /\ WalkedGood /\ Verdict /\ Held

LEMMA InitInv == Init => IInv
  BY DelegateAssumption
     DEF Init, IInv, TypeOK, Bounds, WalkedGood, Verdict, Held, AllGood

-----------------------------------------------------------------------------
(* Every step keeps it                                                      *)

LEMMA CallStep ==
    ASSUME IInv, NEW w \in {"delegate", "x5chain"}, NEW n \in 0..(MAX_DELEGATE_CHAIN_LEN + 1),
           NEW parses \in BOOLEAN, Call(w, n, parses)
    PROVE  IInv'
  <1>1. /\ pc = "idle" /\ walk' = w /\ len' = n /\ path' = <<>>
        /\ result = {} /\ result' = {} /\ pc' \in {"done", "walk"}
    BY DEF Call, Return, IInv, WalkedGood
  <1>2. pc' = "walk" => n # 0 /\ ~TooLong(n)
    BY DEF Call, Return
  <1>3. pc' = "walk" => n \in 1..MAX_DELEGATE_CHAIN_LEN
    BY <1>2, DelegateAssumption DEF TooLong
  <1>4. TypeOK'
    BY <1>1, DelegateAssumption DEF TypeOK
  <1>5. Bounds'
    BY <1>1, <1>3 DEF Bounds
  <1>6. AllGood'
    BY <1>1 DEF AllGood
  <1>7. Held'
    BY <1>1 DEF Held
  <1>8. QED  BY <1>1, <1>4, <1>5, <1>6, <1>7 DEF IInv, WalkedGood, Verdict

\* A visited certificate: the path grows by one, and the walk goes on exactly if
\* it passed.
LEMMA VisitStep ==
    ASSUME IInv, NEW c \in Certs, NEW k \in Nat, k = Len(path) + 1,
           pc = "walk", Len(path) < len, path' = Append(path, c), UNCHANGED <<walk, len>>,
           \/ GoodStep(k)' /\ UNCHANGED <<pc, result>>
           \/ ~GoodStep(k)' /\ Return({})
    PROVE  IInv'
  <1>0. /\ path \in Seq(Certs) /\ Len(path) \in Nat
        /\ len \in 1..MAX_DELEGATE_CHAIN_LEN /\ MAX_DELEGATE_CHAIN_LEN \in Nat
        /\ result = {} /\ AllGood
    BY DelegateAssumption DEF IInv, TypeOK, Bounds, WalkedGood
  <1>1. /\ path' \in Seq(Certs) /\ Len(path') = k /\ path' # <<>>
        /\ path'[k] = c
        /\ \A i \in 1..Len(path) : path'[i] = path[i]
    BY <1>0
  <1>2. DOMAIN path = 1..Len(path) /\ DOMAIN path' = 1..k
    BY <1>0, <1>1
  <1>3. TypeOK'
    BY <1>0, <1>1 DEF IInv, TypeOK, Return
  <1>4. Bounds'
    <2>1. pc' \in {"walk", "done"}
      BY DEF Return
    <2>2. QED  BY <1>0, <1>1, <2>1 DEF Bounds
  <1>5. \A i \in 1..Len(path) : GoodStep(i) = GoodStep(i)'
    <2>1. SUFFICES ASSUME NEW i \in 1..Len(path) PROVE GoodStep(i) = GoodStep(i)'
      OBVIOUS
    <2>2. path'[i] = path[i] /\ (i # 1 => path'[i - 1] = path[i - 1])
      BY <1>0, <1>1
    <2>3. i = 1 => path'[1] = path[1]
      BY <2>2
    <2>4. QED  BY <2>2, <2>3 DEF GoodStep
  <1>6. AllGood' <=> GoodStep(k)'
    <2>1. k \in 1..k /\ \A i \in 1..k : i = k \/ i \in 1..Len(path)
      BY <1>0
    <2>2. AllGood' <=> \A i \in 1..k : GoodStep(i)'
      BY <1>2 DEF AllGood
    <2>3. \A i \in 1..Len(path) : GoodStep(i)'
      BY <1>0, <1>2, <1>5 DEF AllGood
    <2>4. QED  BY <2>1, <2>2, <2>3
  <1>7. WalkedGood' /\ Verdict'
    <2>1. CASE GoodStep(k)' /\ UNCHANGED <<pc, result>>
      BY <2>1, <1>0, <1>6 DEF WalkedGood, Verdict
    <2>2. CASE ~GoodStep(k)' /\ Return({})
      BY <2>2, <1>6 DEF WalkedGood, Verdict, Return
    <2>3. QED  BY <2>1, <2>2
  <1>8. Held'
    <2>1. SUFFICES ASSUME walk = "delegate", GoodStep(k)', NEW j \in 1..k, path'[j].key # Owner
                   PROVE  \E i \in 1..j : path'[i].key = path'[j].key
                                          /\ path'[i].by # path'[i].key
      BY <1>2, <1>6 DEF Held
    <2>2. ASSUME NEW m \in 1..Len(path), path[m].key # Owner
          PROVE  \E i \in 1..m : path'[i].key = path[m].key /\ path'[i].by # path'[i].key
      <3>1. PICK i \in 1..m : path[i].key = path[m].key /\ path[i].by # path[i].key
        BY <1>0, <1>2, <2>1, <2>2 DEF IInv, Held
      <3>2. i \in 1..Len(path)
        BY <1>0
      <3>3. QED  BY <3>1, <3>2, <1>1
    <2>3. CASE j \in 1..Len(path)
      BY <2>1, <2>2, <2>3, <1>1
    <2>4. CASE j \notin 1..Len(path)
      <3>1. j = k
        BY <2>4, <1>0
      <3>2. CASE c.by # c.key
        BY <3>1, <3>2, <1>1
      <3>3. CASE c.by = c.key
        <4>1. k # 1
          BY <3>1, <3>3, <2>1, <1>1 DEF GoodStep
        <4>2. k - 1 = Len(path) /\ Len(path) \in 1..Len(path)
          BY <4>1, <1>0
        <4>3. c.by = path[Len(path)].key
          BY <2>1, <4>1, <4>2, <1>1 DEF GoodStep, IssuedBy
        <4>4. PICK i \in 1..Len(path) : path'[i].key = c.key /\ path'[i].by # path'[i].key
          BY <2>1, <2>2, <3>1, <3>3, <4>2, <4>3, <1>1
        <4>5. i \in 1..j
          BY <3>1, <1>0
        <4>6. QED  BY <3>1, <4>4, <4>5, <1>1
      <3>4. QED  BY <3>2, <3>3
    <2>5. QED  BY <2>3, <2>4
  <1>9. QED  BY <1>3, <1>4, <1>7, <1>8 DEF IInv

\* Both loops visit a certificate that way.
LEMMA WalkStep ==
    ASSUME IInv, NEW c \in Certs, DelegateStep(c) \/ X5ChainStep(c)
    PROVE  IInv'
  <1>0. /\ pc = "walk" /\ Len(path) < len /\ path' = Append(path, c) /\ UNCHANGED <<walk, len>>
    BY DEF DelegateStep, X5ChainStep
  <1>1. path \in Seq(Certs) /\ Len(path) \in Nat /\ len \in Nat
    BY DelegateAssumption DEF IInv, TypeOK
  <1> PICK k \in Nat : k = Len(path) + 1
    BY <1>1
  <1>2. path'[k] = c /\ (k # 1 => path'[k - 1] = path[k - 1])
    BY <1>0, <1>1
  <1>3. k = 1 => path'[1] = c
    BY <1>2
  <1>4. CASE DelegateStep(c)
    <2>1. GoodStep(k)' <=> IF k = 1 THEN c.by = Owner ELSE IssuedBy(c, path[k - 1], len - k)
      BY <1>0, <1>2, <1>3, <1>4 DEF GoodStep, DelegateStep
    <2>2. QED  BY <1>0, <1>4, <2>1, VisitStep DEF DelegateStep
  <1>5. CASE X5ChainStep(c)
    <2>1. GoodStep(k)' <=> IF k = 1 THEN TRUE ELSE IssuedBy(path[k - 1], c, k - 2)
      BY <1>0, <1>2, <1>3, <1>5 DEF GoodStep, X5ChainStep
    <2>2. QED  BY <1>0, <1>5, <2>1, VisitStep DEF X5ChainStep
  <1>6. QED  BY <1>4, <1>5

\* The end of the chain: what passed is accepted.
LEMMA DoneStep ==
    ASSUME IInv, DelegateDone \/ X5ChainDone
    PROVE  IInv'
  <1>1. /\ pc = "walk" /\ pc' = "done" /\ Len(path) = len /\ UNCHANGED <<walk, len, path>>
    BY DEF DelegateDone, X5ChainDone, Return
  <1>2. len \in 1..MAX_DELEGATE_CHAIN_LEN /\ path \in Seq(Certs) /\ AllGood
    BY <1>1 DEF IInv, TypeOK, Bounds, WalkedGood
  <1>3. result' = {IF walk = "delegate"
                   THEN [key |-> path[len].key, flags |-> ChainFlags(path)]
                   ELSE [key |-> path[1].key, flags |-> {}]}
    BY DEF DelegateDone, X5ChainDone, Return
  <1>4. AllGood'
    BY <1>1, <1>2 DEF AllGood, GoodStep
  <1>5. Accepted'
    BY <1>1, <1>2, <1>3, <1>4, DelegateAssumption DEF Accepted, ChainFlags
  <1>6. TypeOK'
    <2>1. path[len] \in Certs /\ path[1] \in Certs
      BY <1>1, <1>2, DelegateAssumption
    <2>2. path[len].key \in Keys /\ path[1].key \in Keys
      BY <2>1 DEF Certs
    <2>3. ChainFlags(path) \in SUBSET Flags
      BY DEF ChainFlags
    <2>4. result' \subseteq [key : Keys, flags : SUBSET Flags]
      BY <1>3, <2>2, <2>3
    <2>5. QED  BY <1>1, <2>4 DEF IInv, TypeOK
  <1>7. Bounds'
    BY <1>1, <1>2 DEF IInv, Bounds
  <1>8. Held'
    BY <1>1, <1>2 DEF IInv, Held
  <1>9. QED  BY <1>1, <1>5, <1>6, <1>7, <1>8 DEF IInv, WalkedGood, Verdict

LEMMA InvStep == IInv /\ [Next]_vars => IInv'
  <1> SUFFICES ASSUME IInv, [Next]_vars PROVE IInv'
    OBVIOUS
  <1>1. CASE UNCHANGED vars
    <2>1. AllGood' <=> AllGood
      BY <1>1 DEF vars, AllGood, GoodStep
    <2>2. Accepted' <=> Accepted
      BY <1>1, <2>1 DEF vars, Accepted, ChainFlags
    <2>3. QED  BY <1>1, <2>1, <2>2 DEF vars, IInv, TypeOK, Bounds, WalkedGood, Verdict, Held
  <1>2. CASE Next
    BY <1>2, CallStep, WalkStep, DoneStep DEF Next
  <1>3. QED  BY <1>1, <1>2

\* The inductive invariant holds at every certificate of both walks.
THEOREM InvHolds == Spec => []IInv
  BY InitInv, InvStep, PTL DEF Spec

-----------------------------------------------------------------------------
(* What it means for a chain                                                *)

\* No walk visits more than MAX_DELEGATE_CHAIN_LEN certificates.
THEOREM TypeCorrect == Spec => []TypeOK
  <1>1. IInv => TypeOK
    BY DEF IInv
  <1>2. QED  BY <1>1, InvHolds, PTL

LEMMA InvGrants == IInv => NoDelegateExceedsItsGrant
  <1> SUFFICES ASSUME IInv, pc = "done", walk = "delegate", NEW r \in result,
                      NEW j \in DOMAIN path, path[j].key # Owner
               PROVE  GrantOf(path, path[j].key)
    BY DEF NoDelegateExceedsItsGrant
  <1>1. Accepted
    BY DEF IInv, Verdict
  <1>2. /\ path \in Seq(Certs) /\ Len(path) \in Nat /\ len = Len(path)
        /\ DOMAIN path = 1..Len(path)
    BY <1>1 DEF IInv, TypeOK, Accepted
  <1>3. PICK i \in 1..j : path[i].key = path[j].key /\ path[i].by # path[i].key
    BY <1>1 DEF IInv, Held, Accepted
  <1>4. i \in 1..Len(path) /\ i \in DOMAIN path
    BY <1>2
  <1>5. \A s \in result : s.flags \subseteq CheckEkuOids(path[i].eku)
    <2>1. \A s \in result : s.flags = ChainFlags(path)
      BY <1>1 DEF Accepted
    <2>2. QED  BY <2>1, <1>4 DEF ChainFlags
  <1>6. ASSUME i < Len(path)
        PROVE  path[i].ca /\ \A n \in path[i].path_len : n < 32768 => Len(path) - i <= n + 1
    <2>1. i + 1 \in DOMAIN path /\ i + 1 # 1 /\ i + 1 - 1 = i
      BY <1>2, <1>4, <1>6
    <2>2. IssuedBy(path[i + 1], path[i], len - (i + 1))
      BY <1>1, <2>1 DEF Accepted, AllGood, GoodStep
    <2>3. path[i].path_len \subseteq Nat
      <3>1. path[i] \in Certs
        BY <1>2, <1>4
      <3>2. path[i].path_len \in Opt(PathLens)
        BY <3>1 DEF Certs
      <3>3. QED  BY <3>2, DelegateAssumption DEF Opt
    <2>4. \A n \in path[i].path_len : n < 32768 => len - (i + 1) <= n
      BY <2>2 DEF IssuedBy, PathLenAllows, PathLen
    <2>5. path[i].ca
      BY <2>2 DEF IssuedBy
    <2>6. QED  BY <1>2, <1>4, <2>3, <2>4, <2>5
  <1>7. QED  BY <1>3, <1>4, <1>5, <1>6 DEF GrantOf

\* Each delegate on an accepted chain holds a certificate from somebody else that
\* grants all the chain grants and allows issuing as deep as the chain goes,
\* for chains of any length and any certificates delegates may have issued.
THEOREM GrantsBoundDelegates == Spec => []NoDelegateExceedsItsGrant
  BY InvGrants, InvHolds, PTL

\* The chain of a delegate, turned around, is as long and has the same certificates.
LEMMA LeafFirstType ==
    ASSUME NEW p \in Seq(Certs), NEW q, q = LeafFirst(p)
    PROVE  /\ Len(q) = Len(p) /\ DOMAIN q = 1..Len(p)
           /\ \A i \in 1..Len(p) : q[i] = p[Len(p) + 1 - i]
  <1>1. DOMAIN q = 1..Len(p) /\ \A i \in 1..Len(p) : q[i] = p[Len(p) + 1 - i]
    BY DEF LeafFirst
  <1>2. \A i \in 1..Len(p) : Len(p) + 1 - i \in 1..Len(p)
    OBVIOUS
  <1>3. q \in [1..Len(p) -> Certs]
    <2>1. \A i \in 1..Len(p) : p[Len(p) + 1 - i] \in Certs
      BY <1>2
    <2>2. QED  BY <2>1 DEF LeafFirst
  <1>4. q \in Seq(Certs) /\ Len(q) = Len(p)
    BY <1>3
  <1>5. QED  BY <1>1, <1>4

\* What IssuedBy asks, with the encoded pathLenConstraint.
LEMMA IssuedByMeans ==
    ASSUME NEW cert, NEW issuer, NEW below
    PROVE  IssuedBy(cert, issuer, below) <=>
             /\ issuer.ca
             /\ \A n \in issuer.path_len : n < 32768 => below <= n
             /\ cert.by = issuer.key
  BY DEF IssuedBy, PathLenAllows, PathLen

LEMMA LinkedMeans ==
    ASSUME NEW p
    PROVE  Linked(p) <=> \A i \in 1..(Len(p) - 1) : IssuedBy(p[i], p[i + 1], i - 1)
  BY IssuedByMeans DEF Linked

\* Leaf first or root first, the checks of a complete walk are those of Linked.
LEMMA DelegateWalkIsLinked ==
    ASSUME IInv, walk = "delegate", Len(path) = len, len > 0,
           NEW p, p = LeafFirst(path)
    PROVE  AllGood <=> Linked(p) /\ p[len].by = Owner
  <1>1. path \in Seq(Certs) /\ len \in Nat /\ DOMAIN path = 1..len
    BY DEF IInv, TypeOK
  <1>2. Len(p) = len /\ \A i \in 1..len : p[i] = path[len + 1 - i]
    BY <1>1, LeafFirstType
  <1>3. p[len] = path[1]
    BY <1>1, <1>2
  <1>4. Linked(p) <=> \A i \in 1..(len - 1) : IssuedBy(p[i], p[i + 1], i - 1)
    BY <1>2, LinkedMeans
  <1>5. \A i \in 1..(len - 1) : p[i] = path[len + 1 - i] /\ p[i + 1] = path[len - i]
    <2>1. SUFFICES ASSUME NEW i \in 1..(len - 1)
                   PROVE  p[i] = path[len + 1 - i] /\ p[i + 1] = path[len - i]
      OBVIOUS
    <2>2. i \in 1..len /\ i + 1 \in 1..len /\ len + 1 - (i + 1) = len - i
      BY <1>1
    <2>3. QED  BY <1>2, <2>2
  <1>6. AllGood <=> /\ path[1].by = Owner
                    /\ \A k \in 2..len : IssuedBy(path[k], path[k - 1], len - k)
    <2>1. \A k \in 1..len : k = 1 \/ k \in 2..len
      BY <1>1
    <2>2. 1 \in 1..len /\ \A k \in 2..len : k \in 1..len /\ k # 1
      BY <1>1
    <2>3. AllGood <=> \A k \in 1..len : GoodStep(k)
      BY <1>1 DEF AllGood
    <2>4. QED  BY <2>1, <2>2, <2>3 DEF GoodStep
  <1>7. ASSUME \A k \in 2..len : IssuedBy(path[k], path[k - 1], len - k),
               NEW i \in 1..(len - 1)
        PROVE  IssuedBy(p[i], p[i + 1], i - 1)
    <2>1. len + 1 - i \in 2..len /\ len + 1 - i - 1 = len - i /\ len - (len + 1 - i) = i - 1
      BY <1>1
    <2>2. IssuedBy(path[len + 1 - i], path[len - i], i - 1)
      BY <1>7, <2>1
    <2>3. QED  BY <2>2, <1>5
  <1>8. ASSUME \A i \in 1..(len - 1) : IssuedBy(p[i], p[i + 1], i - 1),
               NEW k \in 2..len
        PROVE  IssuedBy(path[k], path[k - 1], len - k)
    <2>1. /\ len + 1 - k \in 1..(len - 1)
          /\ len + 1 - (len + 1 - k) = k /\ len - (len + 1 - k) = k - 1
          /\ (len + 1 - k) - 1 = len - k
      BY <1>1
    <2>2. IssuedBy(p[len + 1 - k], p[len + 1 - k + 1], len - k)
      BY <1>8, <2>1
    <2>3. p[len + 1 - k] = path[k] /\ p[len + 1 - k + 1] = path[k - 1]
      BY <2>1, <1>5
    <2>4. QED  BY <2>2, <2>3
  <1>9. QED  BY <1>3, <1>4, <1>6, <1>7, <1>8

LEMMA X5ChainWalkIsLinked ==
    ASSUME IInv, walk # "delegate", Len(path) = len, len > 0
    PROVE  AllGood <=> Linked(path)
  <1>1. path \in Seq(Certs) /\ len \in Nat /\ DOMAIN path = 1..len
    BY DEF IInv, TypeOK
  <1>2. Linked(path) <=> \A i \in 1..(len - 1) : IssuedBy(path[i], path[i + 1], i - 1)
    BY LinkedMeans
  <1>3. AllGood <=> \A k \in 2..len : IssuedBy(path[k - 1], path[k], k - 2)
    <2>1. \A k \in 1..len : k = 1 \/ k \in 2..len
      BY <1>1
    <2>2. \A k \in 2..len : k \in 1..len /\ k # 1
      BY <1>1
    <2>3. AllGood <=> \A k \in 1..len : GoodStep(k)
      BY <1>1 DEF AllGood
    <2>4. QED  BY <2>1, <2>2, <2>3 DEF GoodStep
  <1>4. ASSUME \A k \in 2..len : IssuedBy(path[k - 1], path[k], k - 2),
               NEW i \in 1..(len - 1)
        PROVE  IssuedBy(path[i], path[i + 1], i - 1)
    <2>1. i + 1 \in 2..len /\ i + 1 - 1 = i /\ i + 1 - 2 = i - 1
      BY <1>1
    <2>2. QED  BY <1>4, <2>1
  <1>5. ASSUME \A i \in 1..(len - 1) : IssuedBy(path[i], path[i + 1], i - 1),
               NEW k \in 2..len
        PROVE  IssuedBy(path[k - 1], path[k], k - 2)
    <2>1. k - 1 \in 1..(len - 1) /\ k - 1 + 1 = k /\ k - 1 - 1 = k - 2
      BY <1>1
    <2>2. QED  BY <1>5, <2>1
  <1>6. QED  BY <1>2, <1>3, <1>4, <1>5

LEMMA InvAgrees == IInv => WalksAgree
  <1> SUFFICES ASSUME IInv, pc = "done", len > 0, Len(path) = len,
                      NEW p, p = IF walk = "delegate" THEN LeafFirst(path) ELSE path
               PROVE  IF Linked(p) /\ (walk = "delegate" => p[len].by = Owner)
                      THEN \E r \in result : r.key = p[1].key
                      ELSE result = {}
    BY DEF WalksAgree
  <1>1. AllGood <=> Linked(p) /\ (walk = "delegate" => p[len].by = Owner)
    BY DelegateWalkIsLinked, X5ChainWalkIsLinked
  <1>2. path \in Seq(Certs) /\ len \in Nat
    BY DEF IInv, TypeOK
  <1>3. path # <<>>
    BY <1>2
  <1>4. CASE AllGood
    <2>1. Accepted
      BY <1>3, <1>4 DEF IInv, Verdict
    <2>2. walk = "delegate" => p[1] = path[len]
      BY <1>2, LeafFirstType
    <2>3. \E r \in result : r.key = p[1].key
      BY <2>1, <2>2 DEF Accepted
    <2>4. QED  BY <1>1, <1>4, <2>3
  <1>5. CASE ~AllGood
    BY <1>1, <1>5, <1>3 DEF IInv, Verdict, Accepted
  <1>6. QED  BY <1>4, <1>5

\* verify_delegate_chain and verify_x5chain_internal, walking in opposite directions
\* with indices of their own, accept exactly the chains that are linked, and
\* return the key of the leaf.
THEOREM WalksDecideTheSame == Spec => []WalksAgree
  BY InvAgrees, InvHolds, PTL
=============================================================================
