-------------------------- MODULE CredentialProofs ---------------------------
(***************************************************************************)
(* Proofs about module Credential and the decoders it is built from, for   *)
(* every RendezvousInfo, every artifact and every sequence of revisions.   *)
(* The provers cannot use an induction principle that takes a formula; the *)
(* ones below take a set.                                                  *)
(***************************************************************************)
EXTENDS Credential, SequenceTheorems, NaturalsInduction, WellFoundedInduction, TLAPS

LessThan == {p \in Nat \X Nat : p[1] < p[2]}

\* A set of numbers that is not empty has a least one.
LEMMA LeastNat ==
    ASSUME NEW T \in SUBSET Nat, T # {}
    PROVE  \E x \in T : \A y \in T : x <= y
  <1>1. IsWellFoundedOn(LessThan, Nat)
    BY NatLessThanWellFounded DEF OpToRel, LessThan
  <1>2. PICK x \in T : \A y \in T : ~(<<y, x>> \in LessThan)
    BY <1>1, WFMin
  <1>3. \A a, b \in Nat : ~(<<b, a>> \in LessThan) => a <= b
    BY DEF LessThan
  <1> QED BY <1>2, <1>3

\* Induction over the rounds of a loop.
LEMMA UpInduction ==
    ASSUME NEW P, 0 \in P, \A i \in Nat : i \in P => i + 1 \in P
    PROVE  \A i \in Nat : i \in P
  <1> DEFINE T == Nat \ P
  <1>1. SUFFICES T = {}
    OBVIOUS
  <1>2. SUFFICES ASSUME T # {} PROVE FALSE
    OBVIOUS
  <1>3. PICK x \in T : \A y \in T : x <= y
    BY <1>2, LeastNat
  <1>4. x # 0 /\ x - 1 \in Nat /\ x - 1 \notin T
    BY <1>3
  <1>5. (x - 1) + 1 \in P
    BY <1>4
  <1> QED BY <1>3, <1>5

\* Induction over the positions of a buffer, from its end.
LEMMA DownInduction ==
    ASSUME NEW n \in Nat, NEW P, n \in P, \A p \in 1..n : p # n /\ p + 1 \in P => p \in P
    PROVE  \A p \in 1..n : p \in P
  <1> DEFINE Q == {i \in Nat : i < n => n - i \in P}
  <1>1. 0 \in Q
    OBVIOUS
  <1>2. ASSUME NEW i \in Q PROVE i + 1 \in Q
    <2>1. SUFFICES ASSUME i + 1 < n PROVE n - (i + 1) \in P
      BY <1>2
    <2>2. n - i \in P
      BY <2>1
    <2>3. n - (i + 1) \in 1..n /\ n - (i + 1) # n /\ (n - (i + 1)) + 1 = n - i
      BY <2>1
    <2> QED BY <2>2, <2>3
  <1>3. \A i \in Nat : i \in Q
    <2> HIDE DEF Q
    <2>1. \A i \in Nat : i \in Q => i + 1 \in Q
      BY <1>2
    <2> QED BY <1>1, <2>1, UpInduction
  <1> TAKE p \in 1..n
  <1>4. n - p \in Nat /\ n - p < n /\ n - (n - p) = p
    OBVIOUS
  <1> QED BY <1>3, <1>4

-----------------------------------------------------------------------------
(* Loops                                                                    *)

\* A loop that stays within a set of positions has a function of its rounds.
LEMMA RoundsExist ==
    ASSUME NEW V, NEW start \in V, NEW step \in [V -> V]
    PROVE  \E f \in [Nat -> V] : f[0] = start /\ \A i \in Nat : f[i + 1] = step[f[i]]
  <1> DEFINE Partial(f, n) == /\ f \in [0..n -> V] /\ f[0] = start
                              /\ \A i \in 0..n : i # n => f[i + 1] = step[f[i]]
             P == {n \in Nat : \E f : Partial(f, n)}
  <1>1. 0 \in P
    <2> Partial([i \in 0..0 |-> start], 0)
      OBVIOUS
    <2> QED OBVIOUS
  <1>2. ASSUME NEW n \in Nat, n \in P PROVE n + 1 \in P
    <2>1. PICK f : Partial(f, n)
      BY <1>2
    <2>2. f[n] \in V
      BY <2>1
    <2> DEFINE g == [i \in 0..n + 1 |-> IF i = n + 1 THEN step[f[n]] ELSE f[i]]
    <2>3. g \in [0..n + 1 -> V]
      BY <2>1, <2>2
    <2>4. g[0] = start
      BY <2>1
    <2>5. ASSUME NEW i \in 0..n + 1, i # n + 1 PROVE g[i + 1] = step[g[i]]
      <3>1. CASE i = n
        BY <3>1
      <3>2. CASE i # n
        BY <3>2, <2>1, <2>5
      <3> QED BY <3>1, <3>2
    <2>6. Partial(g, n + 1)
      BY <2>3, <2>4, <2>5
    <2> QED BY <2>6
  <1>3. \A n \in Nat : n \in P
    <2> HIDE DEF P
    <2> QED BY <1>1, <1>2, UpInduction
  <1> DEFINE F == [n \in Nat |-> CHOOSE f : Partial(f, n)]
             h == [n \in Nat |-> F[n][n]]
  <1>4. \A n \in Nat : Partial(F[n], n)
    <2> TAKE n \in Nat
    <2>1. \E f : Partial(f, n)
      BY <1>3
    <2> HIDE DEF Partial
    <2>2. Partial(CHOOSE f : Partial(f, n), n)
      BY <2>1, Zenon
    <2> QED BY <2>2
  <1>5. ASSUME NEW n \in Nat PROVE \A i \in Nat : i <= n => F[n + 1][i] = F[n][i]
    <2> DEFINE Q == {i \in Nat : i <= n => F[n + 1][i] = F[n][i]}
    <2> HIDE DEF F
    <2>1. 0 \in Q
      BY <1>4
    <2>2. ASSUME NEW i \in Nat, i \in Q PROVE i + 1 \in Q
      <3>1. SUFFICES ASSUME i + 1 <= n PROVE F[n + 1][i + 1] = F[n][i + 1]
        OBVIOUS
      <3>2. F[n + 1][i] = F[n][i]
        BY <2>2, <3>1
      <3>3. i \in 0..n /\ i # n /\ i \in 0..n + 1 /\ i # n + 1
        BY <3>1
      <3>4. F[n][i + 1] = step[F[n][i]] /\ F[n + 1][i + 1] = step[F[n + 1][i]]
        BY <3>3, <1>4
      <3> QED BY <3>2, <3>4
    <2>3. \A i \in Nat : i \in Q
      <3> HIDE DEF Q
      <3> QED BY <2>1, <2>2, UpInduction
    <2> QED BY <2>3
  <1>6. h \in [Nat -> V]
    <2> SUFFICES ASSUME NEW n \in Nat PROVE F[n][n] \in V
      OBVIOUS
    <2> HIDE DEF F
    <2> QED BY <1>4
  <1>7. h[0] = start
    <2> HIDE DEF F
    <2> QED BY <1>4
  <1>8. ASSUME NEW i \in Nat PROVE h[i + 1] = step[h[i]]
    <2> HIDE DEF F
    <2>1. F[i + 1][i + 1] = step[F[i + 1][i]]
      BY <1>4
    <2>2. F[i + 1][i] = F[i][i]
      BY <1>5
    <2> QED BY <2>1, <2>2
  <1> HIDE DEF h
  <1> QED BY <1>6, <1>7, <1>8

\* Rounds is that function.
LEMMA RoundsAre ==
    ASSUME NEW V, NEW start \in V, NEW step \in [V -> V]
    PROVE  /\ \A i \in Nat : Rounds(step, start)[i] \in V
           /\ Rounds(step, start)[0] = start
           /\ \A i \in Nat : Rounds(step, start)[i + 1] = step[Rounds(step, start)[i]]
  <1> DEFINE h == CHOOSE g : g = [i \in Nat |-> IF i = 0 THEN start ELSE step[g[i - 1]]]
             P == {i \in Nat : h[i] \in V}
  <1>1. PICK f \in [Nat -> V] : f[0] = start /\ \A i \in Nat : f[i + 1] = step[f[i]]
    <2> HIDE DEF h, P
    <2> QED BY RoundsExist
  <1>2. ASSUME NEW i \in Nat PROVE f[i] = IF i = 0 THEN start ELSE step[f[i - 1]]
    <2>1. CASE i = 0
      BY <1>1, <2>1
    <2>2. CASE i # 0
      <3>1. i - 1 \in Nat /\ (i - 1) + 1 = i
        BY <2>2
      <3>2. f[(i - 1) + 1] = step[f[i - 1]]
        BY <1>1, <3>1
      <3> QED BY <2>2, <3>1, <3>2
    <2> QED BY <2>1, <2>2
  <1>3. f = [i \in Nat |-> IF i = 0 THEN start ELSE step[f[i - 1]]]
    BY <1>1, <1>2
  <1>4. h = [i \in Nat |-> IF i = 0 THEN start ELSE step[h[i - 1]]]
    <2>1. \E g : g = [i \in Nat |-> IF i = 0 THEN start ELSE step[g[i - 1]]]
      BY <1>3
    <2> QED BY <2>1, Zenon
  <1>5. h = Rounds(step, start)
    BY DEF Rounds
  <1> HIDE DEF h
  <1>6. h[0] = start
    BY <1>4
  <1>7. ASSUME NEW i \in Nat PROVE h[i + 1] = step[h[i]]
    <2>1. i + 1 \in Nat /\ i + 1 # 0 /\ (i + 1) - 1 = i
      OBVIOUS
    <2>2. h[i + 1] = IF i + 1 = 0 THEN start ELSE step[h[(i + 1) - 1]]
      BY <1>4, <2>1
    <2> QED BY <2>1, <2>2
  <1>8. 0 \in P
    BY <1>6
  <1>9. ASSUME NEW i \in Nat, i \in P PROVE i + 1 \in P
    BY <1>7, <1>9
  <1>10. \A i \in Nat : i \in P
    <2> HIDE DEF P
    <2> QED BY <1>8, <1>9, UpInduction
  <1> QED BY <1>5, <1>6, <1>7, <1>10

\* The rounds of a loop that begins at start and stays in V.
IsWalk(step, start, V) ==
    /\ \A i \in Nat : Rounds(step, start)[i] \in V
    /\ Rounds(step, start)[0] = start
    /\ \A i \in Nat : Rounds(step, start)[i + 1] = step[Rounds(step, start)[i]]

\* The same in one word.
LEMMA RoundsWalk ==
    ASSUME NEW V, NEW start \in V, NEW step \in [V -> V]
    PROVE  IsWalk(step, start, V)
  BY RoundsAre DEF IsWalk

\* The first round may be taken before the loop.
LEMMA RoundsShift ==
    ASSUME NEW V, NEW start \in V, NEW step \in [V -> V]
    PROVE  \A i \in Nat : Rounds(step, start)[i + 1] = Rounds(step, step[start])[i]
  <1> DEFINE P == {i \in Nat : Rounds(step, start)[i + 1] = Rounds(step, step[start])[i]}
  <1>1. step[start] \in V
    OBVIOUS
  <1>2. 0 \in P
    BY <1>1, RoundsAre
  <1>3. ASSUME NEW i \in Nat, i \in P PROVE i + 1 \in P
    <2>1. Rounds(step, start)[i + 1] = Rounds(step, step[start])[i]
      BY <1>3
    <2>2. Rounds(step, start)[(i + 1) + 1] = step[Rounds(step, start)[i + 1]]
      BY RoundsAre
    <2>3. Rounds(step, step[start])[i + 1] = step[Rounds(step, step[start])[i]]
      BY <1>1, RoundsAre
    <2> QED BY <2>1, <2>2, <2>3
  <1>4. \A i \in Nat : i \in P
    <2> HIDE DEF P
    <2> QED BY <1>2, <1>3, UpInduction
  <1> QED BY <1>4

\* A loop that has come to rest stays there.
LEMMA RoundsRest ==
    ASSUME NEW V, NEW start \in V, NEW step \in [V -> V], step[start] = start
    PROVE  \A i \in Nat : Rounds(step, start)[i] = start
  <1> DEFINE P == {i \in Nat : Rounds(step, start)[i] = start}
  <1>1. 0 \in P
    BY RoundsAre
  <1>2. ASSUME NEW i \in Nat, i \in P PROVE i + 1 \in P
    <2>1. Rounds(step, start)[i + 1] = step[Rounds(step, start)[i]]
      BY RoundsAre
    <2> QED BY <1>2, <2>1
  <1>3. \A i \in Nat : i \in P
    <2> HIDE DEF P
    <2> QED BY <1>1, <1>2, UpInduction
  <1> QED BY <1>3

-----------------------------------------------------------------------------
(* The skippers                                                             *)

\* What is known of a buffer.
LEMMA StreamType ==
    ASSUME NEW s, IsStream(s)
    PROVE  /\ Len(s) \in Nat
           /\ DOMAIN s = 1..Len(s)
           /\ \A p \in 1..Len(s) : s[p].n \in Nat /\ Children(s[p]) \in Nat
  <1>1. s \in Seq({s[p] : p \in DOMAIN s}) /\ \A p \in DOMAIN s : s[p].n \in Nat
    BY DEF IsStream
  <1>2. Len(s) \in Nat /\ DOMAIN s = 1..Len(s)
    BY <1>1, LenProperties
  <1>3. ASSUME NEW p \in 1..Len(s) PROVE Children(s[p]) \in Nat
    <2>1. s[p].n \in Nat
      BY <1>1, <1>2
    <2> QED BY <2>1 DEF Children
  <1> QED BY <1>1, <1>2, <1>3

SkipState(s) == [at : 0..Len(s) + 1, owed : Nat]

\* Reading a head leads to a state of the skipper again.
LEMMA ReadHeadType ==
    ASSUME NEW s, IsStream(s), NEW widths
    PROVE  ReadHead(s, widths) \in [SkipState(s) -> SkipState(s)]
  <1> USE StreamType
  <1> SUFFICES ASSUME NEW l \in SkipState(s)
               PROVE  (IF l.owed = 0 THEN l
                       ELSE IF l.at \notin DOMAIN s THEN [at |-> 0, owed |-> 0]
                       ELSE IF s[l.at].w \notin widths THEN [at |-> 0, owed |-> 0]
                       ELSE [at |-> l.at + 1, owed |-> l.owed - 1 + Children(s[l.at])])
                      \in SkipState(s)
    BY DEF ReadHead, SkipState
  <1>1. l.at \in 0..Len(s) + 1 /\ l.owed \in Nat
    BY DEF SkipState
  <1>2. [at |-> 0, owed |-> 0] \in SkipState(s)
    BY DEF SkipState
  <1>3. ASSUME l.owed # 0, l.at \in DOMAIN s
        PROVE  [at |-> l.at + 1, owed |-> l.owed - 1 + Children(s[l.at])] \in SkipState(s)
    <2>1. l.at \in 1..Len(s) /\ Children(s[l.at]) \in Nat
      BY <1>3
    <2>2. l.at + 1 \in 0..Len(s) + 1 /\ l.owed - 1 + Children(s[l.at]) \in Nat
      BY <1>1, <1>3, <2>1
    <2> HIDE DEF Children
    <2> QED BY <2>2 DEF SkipState
  <1> QED BY <1>2, <1>3

\* What a skipper does with the head it stands at.
LEMMA ReadHeadAt ==
    ASSUME NEW s, NEW widths, NEW pos \in 0..Len(s) + 1, NEW count \in Nat
    PROVE  ReadHead(s, widths)[[at |-> pos, owed |-> count]] =
             IF count = 0 THEN [at |-> pos, owed |-> count]
             ELSE IF pos \notin DOMAIN s THEN [at |-> 0, owed |-> 0]
             ELSE IF s[pos].w \notin widths THEN [at |-> 0, owed |-> 0]
             ELSE [at |-> pos + 1, owed |-> count - 1 + Children(s[pos])]
  <1> DEFINE l == [at |-> pos, owed |-> count]
  <1>1. l.at = pos /\ l.owed = count /\ l \in [at : 0..Len(s) + 1, owed : Nat]
    OBVIOUS
  <1> HIDE DEF l, Children
  <1>2. ReadHead(s, widths)[l] =
             IF l.owed = 0 THEN l
             ELSE IF l.at \notin DOMAIN s THEN [at |-> 0, owed |-> 0]
             ELSE IF s[l.at].w \notin widths THEN [at |-> 0, owed |-> 0]
             ELSE [at |-> l.at + 1, owed |-> l.owed - 1 + Children(s[l.at])]
    BY <1>1 DEF ReadHead
  <1>3. ReadHead(s, widths)[l] =
             IF count = 0 THEN l
             ELSE IF pos \notin DOMAIN s THEN [at |-> 0, owed |-> 0]
             ELSE IF s[pos].w \notin widths THEN [at |-> 0, owed |-> 0]
             ELSE [at |-> pos + 1, owed |-> count - 1 + Children(s[pos])]
    BY <1>1, <1>2
  <1> QED BY <1>3 DEF l

\* Nothing owed: the skipper stays.
LEMMA SkipNone ==
    ASSUME NEW s, IsStream(s), NEW widths, NEW pos \in 1..Len(s) + 1
    PROVE  Skip(s, pos, 0, widths) = pos
  <1> DEFINE st == [at |-> pos, owed |-> 0]
             i == Len(s) + 2 - pos
  <1>1. st \in SkipState(s) /\ i \in Nat
    BY StreamType DEF SkipState
  <1>2. ReadHead(s, widths)[st] = st
    BY <1>1 DEF ReadHead, SkipState
  <1> HIDE DEF st, i
  <1>3. Rounds(ReadHead(s, widths), st)[i] = st
    BY <1>1, <1>2, ReadHeadType, RoundsRest
  <1> QED BY <1>3 DEF Skip, st, i

\* At the end of the buffer, or before a head that it cannot read, a skipper that owes an
\* item fails.
LEMMA SkipStuck ==
    ASSUME NEW s, IsStream(s), NEW widths, NEW pos \in 1..Len(s) + 1, NEW count \in Nat \ {0},
           pos \in 1..Len(s) => s[pos].w \notin widths
    PROVE  Skip(s, pos, count, widths) = 0
  <1> DEFINE st == [at |-> pos, owed |-> count]
             none == [at |-> 0, owed |-> 0]
             i == Len(s) + 1 - pos
  <1>1. st \in SkipState(s) /\ i \in Nat /\ none \in SkipState(s) /\ Len(s) + 2 - pos = i + 1
    BY StreamType DEF SkipState
  <1>2. ReadHead(s, widths)[st] = none
    <2> pos \in 0..Len(s) + 1 /\ count \in Nat /\ count # 0 /\ DOMAIN s = 1..Len(s)
      BY StreamType
    <2> QED BY ReadHeadAt
  <1>3. ReadHead(s, widths)[none] = none
    BY <1>1 DEF ReadHead, SkipState
  <1> HIDE DEF st, none, i
  <1>4. Rounds(ReadHead(s, widths), st)[i + 1] = Rounds(ReadHead(s, widths), none)[i]
    <2> DEFINE V == SkipState(s)
               R == ReadHead(s, widths)
    <2>1. R \in [V -> V] /\ st \in V /\ R[st] = none
      BY <1>1, <1>2, ReadHeadType
    <2> HIDE DEF V, R
    <2>2. \A k \in Nat : Rounds(R, st)[k + 1] = Rounds(R, R[st])[k]
      BY <2>1, RoundsShift
    <2> QED BY <1>1, <2>1, <2>2 DEF R
  <1>5. Rounds(ReadHead(s, widths), none)[i] = none
    BY <1>1, <1>3, ReadHeadType, RoundsRest
  <1> QED BY <1>1, <1>4, <1>5 DEF Skip, st, none

\* Otherwise it goes on behind the head, and owes the items that the head announces.
LEMMA SkipStep ==
    ASSUME NEW s, IsStream(s), NEW widths, NEW pos \in 1..Len(s), NEW count \in Nat \ {0},
           s[pos].w \in widths
    PROVE  Skip(s, pos, count, widths) = Skip(s, pos + 1, count - 1 + Children(s[pos]), widths)
  <1> DEFINE st == [at |-> pos, owed |-> count]
             nx == [at |-> pos + 1, owed |-> count - 1 + Children(s[pos])]
             i == Len(s) + 1 - pos
  <1>1. Children(s[pos]) \in Nat /\ Len(s) \in Nat /\ DOMAIN s = 1..Len(s)
    BY StreamType
  <1> HIDE DEF Children
  <1>2. st \in SkipState(s) /\ i \in Nat /\ Len(s) + 2 - pos = i + 1 /\ Len(s) + 2 - (pos + 1) = i
    BY <1>1 DEF SkipState
  <1>3. nx \in SkipState(s)
    BY <1>1 DEF SkipState
  <1>4. ReadHead(s, widths)[st] = nx
    <2> pos \in 0..Len(s) + 1 /\ count \in Nat /\ count # 0
      BY <1>1
    <2> QED BY <1>1, ReadHeadAt
  <1> HIDE DEF st, nx, i
  <1>5. Rounds(ReadHead(s, widths), st)[i + 1] = Rounds(ReadHead(s, widths), nx)[i]
    <2> DEFINE V == SkipState(s)
               R == ReadHead(s, widths)
    <2>1. R \in [V -> V] /\ st \in V /\ R[st] = nx
      BY <1>2, <1>4, ReadHeadType
    <2> HIDE DEF V, R
    <2>2. \A k \in Nat : Rounds(R, st)[k + 1] = Rounds(R, R[st])[k]
      BY <2>1, RoundsShift
    <2> QED BY <1>2, <2>1, <2>2 DEF R
  <1>6. Skip(s, pos, count, widths) = Rounds(ReadHead(s, widths), st)[i + 1].at
    BY <1>2 DEF Skip, st
  <1>7. Skip(s, pos + 1, count - 1 + Children(s[pos]), widths)
        = Rounds(ReadHead(s, widths), nx)[i].at
    BY <1>2 DEF Skip, nx
  <1> QED BY <1>5, <1>6, <1>7

\* A skipper stays within the buffer, and moves on if it owes anything.
LEMMA SkipRange ==
    ASSUME NEW s, IsStream(s), NEW widths
    PROVE  \A p \in 1..Len(s) + 1 : \A c \in Nat :
              /\ Skip(s, p, c, widths) \in {0} \cup p..Len(s) + 1
              /\ c # 0 => Skip(s, p, c, widths) # p
  <1> DEFINE n == Len(s) + 1
             R(p, c) == /\ Skip(s, p, c, widths) \in {0} \cup p..n
                        /\ c # 0 => Skip(s, p, c, widths) # p
             P == {p \in 1..n : \A c \in Nat : R(p, c)}
  <1>1. Len(s) \in Nat /\ n \in Nat /\ \A p \in 1..Len(s) : Children(s[p]) \in Nat
    BY StreamType
  <1> HIDE DEF Children
  <1>2. ASSUME NEW p \in 1..n, NEW c \in Nat, p # n => p + 1 \in P
        PROVE  R(p, c)
    <2>1. CASE c = 0
      BY <1>1, <2>1, SkipNone
    <2>2. CASE c # 0 /\ (p \in 1..Len(s) => s[p].w \notin widths)
      <3>1. Skip(s, p, c, widths) = 0
        BY <2>2, SkipStuck
      <3> QED BY <1>1, <3>1
    <2>3. CASE c # 0 /\ p \in 1..Len(s) /\ s[p].w \in widths
      <3> DEFINE d == c - 1 + Children(s[p])
      <3>1. d \in Nat /\ p + 1 \in P
        BY <1>1, <1>2, <2>3
      <3>2. Skip(s, p, c, widths) = Skip(s, p + 1, d, widths)
        BY <2>3, SkipStep
      <3>3. Skip(s, p + 1, d, widths) \in {0} \cup p + 1..n
        <4> HIDE DEF d
        <4> QED BY <3>1
      <3> QED BY <1>1, <3>2, <3>3
    <2> QED BY <2>1, <2>2, <2>3
  <1> HIDE DEF R
  <1>3. n \in P /\ \A p \in 1..n : p # n /\ p + 1 \in P => p \in P
    BY <1>1, <1>2
  <1>4. \A p \in 1..n : p \in P
    <2> HIDE DEF P, n
    <2> QED BY <1>1, <1>3, DownInduction
  <1> QED BY <1>4 DEF R

\* Skipping items is skipping some and then the others.
LEMMA SkipCompose ==
    ASSUME NEW s, IsStream(s), NEW widths
    PROVE  \A p \in 1..Len(s) + 1 : \A a, b \in Nat :
              Skip(s, p, a + b, widths) =
                IF Skip(s, p, a, widths) = 0 THEN 0
                ELSE Skip(s, Skip(s, p, a, widths), b, widths)
  <1> DEFINE n == Len(s) + 1
             R(p, a, b) == Skip(s, p, a + b, widths) =
                IF Skip(s, p, a, widths) = 0 THEN 0
                ELSE Skip(s, Skip(s, p, a, widths), b, widths)
             P == {p \in 1..n : \A a, b \in Nat : R(p, a, b)}
  <1>1. Len(s) \in Nat /\ n \in Nat /\ \A p \in 1..Len(s) : Children(s[p]) \in Nat
    BY StreamType
  <1> HIDE DEF Children
  <1>2. ASSUME NEW p \in 1..n, NEW a \in Nat, NEW b \in Nat, p # n => p + 1 \in P
        PROVE  R(p, a, b)
    <2>1. CASE a = 0
      <3>1. Skip(s, p, a, widths) = p /\ a + b = b
        BY <2>1, SkipNone
      <3> QED BY <2>1, <3>1
    <2>2. CASE a # 0 /\ (p \in 1..Len(s) => s[p].w \notin widths)
      <3>1. Skip(s, p, a, widths) = 0
        BY <2>2, SkipStuck
      <3>2. a + b \in Nat \ {0}
        BY <2>2
      <3>3. Skip(s, p, a + b, widths) = 0
        BY <2>2, <3>2, SkipStuck
      <3> QED BY <2>2, <3>1, <3>3
    <2>3. CASE a # 0 /\ p \in 1..Len(s) /\ s[p].w \in widths
      <3> DEFINE d == a - 1 + Children(s[p])
                 e == (a + b) - 1 + Children(s[p])
      <3>1. d \in Nat /\ p + 1 \in P /\ e = d + b /\ a + b \in Nat \ {0}
        <4>1. Children(s[p]) \in Nat /\ p # n /\ a \in Nat /\ b \in Nat /\ a # 0
          BY <1>1, <2>3
        <4>2. p + 1 \in P
          BY <1>2, <4>1
        <4> HIDE DEF P, n
        <4> QED BY <4>1, <4>2
      <3>2. Skip(s, p, a, widths) = Skip(s, p + 1, d, widths)
        BY <2>3, SkipStep
      <3>3. Skip(s, p, a + b, widths) = Skip(s, p + 1, e, widths)
        BY <2>3, <3>1, SkipStep
      <3> HIDE DEF d, e
      <3>4. Skip(s, p + 1, d + b, widths) =
               IF Skip(s, p + 1, d, widths) = 0 THEN 0
               ELSE Skip(s, Skip(s, p + 1, d, widths), b, widths)
        BY <3>1
      <3> QED BY <3>1, <3>2, <3>3, <3>4
    <2> QED BY <2>1, <2>2, <2>3
  <1> HIDE DEF R
  <1>3. n \in P /\ \A p \in 1..n : p # n /\ p + 1 \in P => p \in P
    BY <1>1, <1>2
  <1>4. \A p \in 1..n : p \in P
    <2> HIDE DEF P, n
    <2> QED BY <1>1, <1>3, DownInduction
  <1> QED BY <1>4 DEF R

\* A skipper that can read more goes the same way.
LEMMA SkipWiden ==
    ASSUME NEW s, IsStream(s), NEW narrow, NEW wide, narrow \subseteq wide
    PROVE  \A p \in 1..Len(s) + 1 : \A c \in Nat :
              Skip(s, p, c, narrow) # 0 => Skip(s, p, c, wide) = Skip(s, p, c, narrow)
  <1> DEFINE n == Len(s) + 1
             R(p, c) == Skip(s, p, c, narrow) # 0 => Skip(s, p, c, wide) = Skip(s, p, c, narrow)
             P == {p \in 1..n : \A c \in Nat : R(p, c)}
  <1>1. Len(s) \in Nat /\ n \in Nat /\ \A p \in 1..Len(s) : Children(s[p]) \in Nat
    BY StreamType
  <1> HIDE DEF Children
  <1>2. ASSUME NEW p \in 1..n, NEW c \in Nat, p # n => p + 1 \in P
        PROVE  R(p, c)
    <2>1. CASE c = 0
      BY <2>1, SkipNone
    <2>2. CASE c # 0 /\ (p \in 1..Len(s) => s[p].w \notin narrow)
      BY <1>1, <2>2, SkipStuck
    <2>3. CASE c # 0 /\ p \in 1..Len(s) /\ s[p].w \in narrow
      <3> DEFINE d == c - 1 + Children(s[p])
      <3>1. d \in Nat /\ p + 1 \in P /\ s[p].w \in wide
        BY <1>1, <1>2, <2>3
      <3>2. Skip(s, p, c, narrow) = Skip(s, p + 1, d, narrow)
        BY <2>3, SkipStep
      <3>3. Skip(s, p, c, wide) = Skip(s, p + 1, d, wide)
        BY <2>3, <3>1, SkipStep
      <3> HIDE DEF d
      <3> QED BY <3>1, <3>2, <3>3
    <2> QED BY <2>1, <2>2, <2>3
  <1> HIDE DEF R
  <1>3. n \in P /\ \A p \in 1..n : p # n /\ p + 1 \in P => p \in P
    BY <1>1, <1>2
  <1>4. \A p \in 1..n : p \in P
    <2> HIDE DEF P, n
    <2> QED BY <1>1, <1>3, DownInduction
  <1> QED BY <1>4 DEF R

\* s is the part of t behind its first o heads.
Inside(s, t, o) ==
    /\ IsStream(s) /\ IsStream(t)
    /\ o \in Nat /\ o + Len(s) <= Len(t)
    /\ \A p \in 1..Len(s) : t[o + p] = s[p]

\* What can be skipped in a part is skipped in the whole, to the same place.
LEMMA SkipInside ==
    ASSUME NEW s, NEW t, NEW o, Inside(s, t, o), NEW widths
    PROVE  \A p \in 1..Len(s) + 1 : \A c \in Nat :
              Skip(s, p, c, widths) # 0 => Skip(t, o + p, c, widths) = o + Skip(s, p, c, widths)
  <1> DEFINE n == Len(s) + 1
             R(p, c) == Skip(s, p, c, widths) # 0
                        => Skip(t, o + p, c, widths) = o + Skip(s, p, c, widths)
             P == {p \in 1..n : \A c \in Nat : R(p, c)}
  <1>1. /\ IsStream(s) /\ IsStream(t) /\ o \in Nat /\ o + Len(s) <= Len(t)
        /\ Len(s) \in Nat /\ Len(t) \in Nat /\ n \in Nat
        /\ \A p \in 1..Len(s) : Children(s[p]) \in Nat /\ t[o + p] = s[p]
    BY StreamType DEF Inside
  <1> HIDE DEF Children
  <1>2. ASSUME NEW p \in 1..n, NEW c \in Nat, p # n => p + 1 \in P
        PROVE  R(p, c)
    <2>0. o + p \in 1..Len(t) + 1
      BY <1>1
    <2>1. CASE c = 0
      <3>1. Skip(s, p, c, widths) = p
        BY <1>1, <2>1, SkipNone
      <3>2. Skip(t, o + p, c, widths) = o + p
        BY <1>1, <2>0, <2>1, SkipNone
      <3> QED BY <3>1, <3>2
    <2>2. CASE c # 0 /\ (p \in 1..Len(s) => s[p].w \notin widths)
      BY <1>1, <2>2, SkipStuck
    <2>3. CASE c # 0 /\ p \in 1..Len(s) /\ s[p].w \in widths
      <3> DEFINE d == c - 1 + Children(s[p])
      <3>1. Children(s[p]) \in Nat /\ p # n /\ t[o + p] = s[p] /\ o + p \in 1..Len(t)
        BY <1>1, <2>3
      <3>2. d \in Nat /\ p + 1 \in P
        BY <1>2, <2>3, <3>1
      <3>3. Skip(s, p, c, widths) = Skip(s, p + 1, d, widths)
        BY <1>1, <2>3, SkipStep
      <3>4. Skip(t, o + p, c, widths) = Skip(t, (o + p) + 1, d, widths)
        BY <1>1, <2>3, <3>1, SkipStep
      <3>5. (o + p) + 1 = o + (p + 1)
        BY <1>1
      <3> HIDE DEF d
      <3> QED BY <3>2, <3>3, <3>4, <3>5
    <2> QED BY <2>1, <2>2, <2>3
  <1> HIDE DEF R
  <1>3. n \in P /\ \A p \in 1..n : p # n /\ p + 1 \in P => p \in P
    BY <1>1, <1>2
  <1>4. \A p \in 1..n : p \in P
    <2> HIDE DEF P, n
    <2> QED BY <1>1, <1>3, DownInduction
  <1> QED BY <1>4 DEF R

\* What is skipped in the whole without leaving the part can be skipped in the part.
LEMMA SkipWithin ==
    ASSUME NEW s, NEW t, NEW o, Inside(s, t, o), NEW widths
    PROVE  \A p \in 1..Len(s) + 1 : \A c \in Nat :
              Skip(t, o + p, c, widths) \in 1..o + Len(s) + 1 => Skip(s, p, c, widths) # 0
  <1> DEFINE n == Len(s) + 1
             R(p, c) == Skip(t, o + p, c, widths) \in 1..o + n => Skip(s, p, c, widths) # 0
             P == {p \in 1..n : \A c \in Nat : R(p, c)}
  <1>1. /\ IsStream(s) /\ IsStream(t) /\ o \in Nat /\ o + Len(s) <= Len(t)
        /\ Len(s) \in Nat /\ Len(t) \in Nat /\ n \in Nat
        /\ \A p \in 1..Len(s) : Children(s[p]) \in Nat /\ t[o + p] = s[p]
    BY StreamType DEF Inside
  <1> HIDE DEF Children
  <1>2. ASSUME NEW p \in 1..n, NEW c \in Nat, p # n => p + 1 \in P
        PROVE  R(p, c)
    <2>0. o + p \in 1..Len(t) + 1 /\ p # 0
      BY <1>1
    <2>1. CASE c = 0
      <3>1. Skip(s, p, c, widths) = p
        BY <1>1, <2>1, SkipNone
      <3> QED BY <2>0, <3>1
    <2>2. CASE c # 0 /\ p = n
      <3>1. /\ Skip(t, o + p, c, widths) \in {0} \cup (o + p)..Len(t) + 1
            /\ Skip(t, o + p, c, widths) # o + p
        BY <1>1, <2>0, <2>2, SkipRange
      <3> QED BY <1>1, <2>2, <3>1
    <2>3. CASE c # 0 /\ p \in 1..Len(s) /\ s[p].w \notin widths
      <3>1. t[o + p] = s[p] /\ o + p \in 1..Len(t)
        BY <1>1, <2>3
      <3>2. Skip(t, o + p, c, widths) = 0
        BY <1>1, <2>0, <2>3, <3>1, SkipStuck
      <3> QED BY <3>2
    <2>4. CASE c # 0 /\ p \in 1..Len(s) /\ s[p].w \in widths
      <3> DEFINE d == c - 1 + Children(s[p])
      <3>1. Children(s[p]) \in Nat /\ p # n /\ t[o + p] = s[p] /\ o + p \in 1..Len(t)
        BY <1>1, <2>4
      <3>2. d \in Nat /\ p + 1 \in P
        BY <1>2, <2>4, <3>1
      <3>3. Skip(s, p, c, widths) = Skip(s, p + 1, d, widths)
        BY <1>1, <2>4, SkipStep
      <3>4. Skip(t, o + p, c, widths) = Skip(t, (o + p) + 1, d, widths)
        BY <1>1, <2>4, <3>1, SkipStep
      <3>5. (o + p) + 1 = o + (p + 1)
        BY <1>1
      <3> HIDE DEF d
      <3> QED BY <3>2, <3>3, <3>4, <3>5
    <2> QED BY <1>1, <2>1, <2>2, <2>3, <2>4
  <1>3. n \in P /\ \A p \in 1..n : p # n /\ p + 1 \in P => p \in P
    <2> HIDE DEF R
    <2> QED BY <1>1, <1>2
  <1>4. \A p \in 1..n : p \in P
    <2> HIDE DEF P, n
    <2> QED BY <1>1, <1>3, DownInduction
  <1>5. o + n = o + Len(s) + 1
    BY <1>1
  <1> QED BY <1>4, <1>5

-----------------------------------------------------------------------------
(* Items                                                                    *)

\* The items inside one that can be skipped: where they begin, and that the skipper goes from
\* each to the next.
LEMMA ItemsInside ==
    ASSUME NEW s, IsStream(s), NEW pos \in 1..Len(s), Skip(s, pos, 1, Narrow) # 0
    PROVE  /\ s[pos].w \in Narrow
           /\ ItemAt(s, pos, 1) = pos + 1
           /\ ItemAt(s, pos, Children(s[pos]) + 1) = Skip(s, pos, 1, Narrow)
           /\ \A k \in 1..Children(s[pos]) :
                 /\ ItemAt(s, pos, k) \in pos + 1..Len(s)
                 /\ Skip(s, ItemAt(s, pos, k), 1, Narrow) = ItemAt(s, pos, k + 1)
                 /\ ItemAt(s, pos, k + 1) # 0
  <1> DEFINE n == Children(s[pos])
             At(c) == Skip(s, pos + 1, c, Narrow)
  <1>1. Len(s) \in Nat /\ n \in Nat /\ pos + 1 \in 1..Len(s) + 1
    BY StreamType
  <1> HIDE DEF n
  <1>2. s[pos].w \in Narrow
    BY SkipStuck
  <1>3. Skip(s, pos, 1, Narrow) = At(n)
    <2>1. Skip(s, pos, 1, Narrow) = Skip(s, pos + 1, 1 - 1 + n, Narrow)
      BY <1>2, SkipStep DEF n
    <2>2. 1 - 1 + n = n
      BY <1>1
    <2> QED BY <2>1, <2>2
  <1>4. ASSUME NEW c \in 0..n
        PROVE  At(c) # 0 /\ At(c) \in pos + 1..Len(s) + 1 /\ ItemAt(s, pos, c + 1) = At(c)
    <2>1. c \in Nat /\ n - c \in Nat /\ c + (n - c) = n
      BY <1>1
    <2>2. At(c + (n - c)) = IF At(c) = 0 THEN 0 ELSE Skip(s, At(c), n - c, Narrow)
      <3>1. \A a, b \in Nat : Skip(s, pos + 1, a + b, Narrow) =
                IF Skip(s, pos + 1, a, Narrow) = 0 THEN 0
                ELSE Skip(s, Skip(s, pos + 1, a, Narrow), b, Narrow)
        BY <1>1, SkipCompose
      <3> QED BY <2>1, <3>1
    <2>3. At(c) # 0
      BY <1>3, <2>1, <2>2
    <2>4. At(c) \in {0} \cup pos + 1..Len(s) + 1
      BY <1>1, <2>1, SkipRange
    <2>5. Skip(s, pos + 1, c, Wide) = At(c)
      BY <1>1, <2>1, <2>3, SkipWiden DEF Wide
    <2>6. (c + 1) - 1 = c
      BY <2>1
    <2> HIDE DEF At
    <2> QED BY <2>3, <2>4, <2>5, <2>6 DEF ItemAt
  <1>5. At(0) = pos + 1
    BY <1>1, SkipNone
  <1>6. ItemAt(s, pos, 1) = pos + 1 /\ ItemAt(s, pos, n + 1) = Skip(s, pos, 1, Narrow)
    <2> HIDE DEF At
    <2>1. 0 \in 0..n /\ n \in 0..n /\ 0 + 1 = 1
      BY <1>1
    <2> QED BY <1>3, <1>4, <1>5, <2>1
  <1>7. ASSUME NEW k \in 1..n
        PROVE  /\ ItemAt(s, pos, k) \in pos + 1..Len(s)
               /\ Skip(s, ItemAt(s, pos, k), 1, Narrow) = ItemAt(s, pos, k + 1)
               /\ ItemAt(s, pos, k + 1) # 0
    <2>1. k - 1 \in 0..n /\ (k - 1) + 1 = k /\ k \in 0..n /\ k - 1 \in Nat
      BY <1>1
    <2>2. At((k - 1) + 1) = IF At(k - 1) = 0 THEN 0 ELSE Skip(s, At(k - 1), 1, Narrow)
      BY <1>1, <2>1, SkipCompose
    <2> HIDE DEF At
    <2>3. ItemAt(s, pos, k) = At(k - 1) /\ At(k - 1) # 0 /\ At(k - 1) \in pos + 1..Len(s) + 1
      BY <1>4, <2>1
    <2>4. ItemAt(s, pos, k + 1) = At(k) /\ At(k) # 0
      BY <1>4, <2>1
    <2>5. Skip(s, At(k - 1), 1, Narrow) = At(k)
      BY <2>1, <2>2, <2>3
    <2>6. At(k - 1) # Len(s) + 1
      <3>1. Len(s) + 1 \notin 1..Len(s) /\ Len(s) + 1 \in 1..Len(s) + 1
        BY <1>1
      <3>2. Skip(s, Len(s) + 1, 1, Narrow) = 0
        BY <3>1, SkipStuck
      <3> QED BY <2>4, <2>5, <3>2
    <2> QED BY <1>1, <2>3, <2>4, <2>5, <2>6
  <1> QED BY <1>2, <1>6, <1>7 DEF n

-----------------------------------------------------------------------------
(* The walk over an RvInfo                                                  *)

\* What heads announce.
LEMMA ChildrenOf ==
    ASSUME NEW h
    PROVE  /\ h.m = 4 => Children(h) = h.n
           /\ h.m = 5 => Children(h) = 2 * h.n
           /\ h.m \in {0, 1, 2, 3} => Children(h) = 0
  BY DEF Children

\* The walk stays within the buffer.
LEMMA SkipPlace ==
    ASSUME NEW s, IsStream(s), NEW pos \in 1..Len(s) + 1, NEW count \in Nat
    PROVE  Skip(s, pos, count, Narrow) \in 0..Len(s) + 1
  <1>1. Skip(s, pos, count, Narrow) \in {0} \cup pos..Len(s) + 1
    BY SkipRange
  <1>2. Len(s) \in Nat
    BY StreamType
  <1> QED BY <1>1, <1>2

\* So does every round of the instructions,
LEMMA PastInstructionType ==
    ASSUME NEW s, IsStream(s)
    PROVE  PastInstruction(s) \in [0..Len(s) + 1 -> 0..Len(s) + 1]
  <1>1. /\ Len(s) \in Nat /\ DOMAIN s = 1..Len(s)
        /\ \A p \in 1..Len(s) : s[p].n \in Nat
    BY StreamType
  <1> SUFFICES ASSUME NEW p \in 0..Len(s) + 1
               PROVE  (IF p \notin DOMAIN s THEN p
                       ELSE IF s[p].m # 4 THEN PassOver(s, p)
                       ELSE IF s[p].n < 2 \/ p + 2 > Len(s) THEN Skip(s, p + 1, s[p].n, Narrow)
                       ELSE Skip(s, p + 3, s[p].n - 2, Narrow)) \in 0..Len(s) + 1
    BY DEF PastInstruction
  <1>2. ASSUME p \in DOMAIN s PROVE PassOver(s, p) \in 0..Len(s) + 1
    <2>1. p + 1 \in 1..Len(s) + 1
      BY <1>1, <1>2
    <2> QED BY <2>1, SkipPlace DEF PassOver
  <1>3. ASSUME p \in DOMAIN s PROVE Skip(s, p + 1, s[p].n, Narrow) \in 0..Len(s) + 1
    <2>1. p + 1 \in 1..Len(s) + 1 /\ s[p].n \in Nat
      BY <1>1, <1>3
    <2> QED BY <2>1, SkipPlace
  <1>4. ASSUME p \in DOMAIN s, ~(s[p].n < 2 \/ p + 2 > Len(s))
        PROVE  Skip(s, p + 3, s[p].n - 2, Narrow) \in 0..Len(s) + 1
    <2>1. p + 3 \in 1..Len(s) + 1 /\ s[p].n - 2 \in Nat
      BY <1>1, <1>4
    <2> QED BY <2>1, SkipPlace
  <1> QED BY <1>2, <1>3, <1>4

\* and of the directives.
LEMMA PastDirectiveType ==
    ASSUME NEW s, IsStream(s)
    PROVE  PastDirective(s) \in [0..Len(s) + 1 -> 0..Len(s) + 1]
  <1>1. /\ Len(s) \in Nat /\ DOMAIN s = 1..Len(s)
        /\ \A p \in 1..Len(s) : s[p].n \in Nat
    BY StreamType
  <1> DEFINE V == 0..Len(s) + 1
  <1> SUFFICES ASSUME NEW p \in V
               PROVE  (IF p \notin DOMAIN s THEN p
                       ELSE IF s[p].m # 4 THEN PassOver(s, p)
                       ELSE Rounds(PastInstruction(s), p + 1)[s[p].n]) \in V
    BY DEF PastDirective
  <1>2. ASSUME p \in DOMAIN s PROVE PassOver(s, p) \in V
    <2>1. p + 1 \in 1..Len(s) + 1
      BY <1>1, <1>2
    <2>2. Skip(s, p + 1, 1, Narrow) \in 0..Len(s) + 1
      BY <2>1, SkipPlace
    <2> QED BY <1>1, <2>2 DEF PassOver
  <1>3. ASSUME p \in DOMAIN s PROVE Rounds(PastInstruction(s), p + 1)[s[p].n] \in V
    <2>1. p + 1 \in V /\ s[p].n \in Nat
      BY <1>1, <1>3
    <2> HIDE DEF V
    <2>2. PastInstruction(s) \in [V -> V]
      BY PastInstructionType DEF V
    <2>3. \A i \in Nat : Rounds(PastInstruction(s), p + 1)[i] \in V
      BY <2>1, <2>2, RoundsAre
    <2> QED BY <2>1, <2>3
  <1> QED BY <1>2, <1>3

\* Past an instruction the walk stands where the item ends.
LEMMA PastInstructionIs ==
    ASSUME NEW s, IsStream(s), NEW p \in 1..Len(s), IsInstruction(s, p),
           Skip(s, p, 1, Narrow) # 0
    PROVE  /\ PastInstruction(s)[p] = Skip(s, p, 1, Narrow)
           /\ s[p].n >= 2 => p + 2 <= Len(s)
           /\ p + 1 <= Len(s)
  <1> DEFINE n == s[p].n
  <1>1. /\ Len(s) \in Nat /\ DOMAIN s = 1..Len(s) /\ n \in Nat
        /\ s[p].m = 4 /\ n >= 1 /\ s[p + 1].m = 0 /\ (n >= 2 => s[p + 2].m = 2)
        /\ p \in 0..Len(s) + 1
    BY StreamType DEF IsInstruction
  <1>2. Skip(s, p, 1, Narrow) = Skip(s, p + 1, n, Narrow)
    <2>1. s[p].w \in Narrow
      BY SkipStuck
    <2>2. Skip(s, p, 1, Narrow) = Skip(s, p + 1, 1 - 1 + Children(s[p]), Narrow)
      BY <2>1, SkipStep
    <2>3. Children(s[p]) = n
      BY <1>1, ChildrenOf
    <2>4. 1 - 1 + n = n
      BY <1>1
    <2> QED BY <2>2, <2>3, <2>4
  <1>3. p + 1 \in 1..Len(s) /\ Skip(s, p + 1, n, Narrow) = Skip(s, p + 2, n - 1, Narrow)
    <2>1. p + 1 \in 1..Len(s) + 1 /\ n \in Nat \ {0}
      BY <1>1
    <2>2. p + 1 \in 1..Len(s) /\ s[p + 1].w \in Narrow
      BY <1>2, <2>1, SkipStuck
    <2>3. Skip(s, p + 1, n, Narrow) = Skip(s, (p + 1) + 1, n - 1 + Children(s[p + 1]), Narrow)
      BY <2>1, <2>2, SkipStep
    <2>4. Children(s[p + 1]) = 0
      BY <1>1, ChildrenOf
    <2>5. (p + 1) + 1 = p + 2 /\ n - 1 + 0 = n - 1
      BY <1>1
    <2> QED BY <2>2, <2>3, <2>4, <2>5
  <1>4. ASSUME n >= 2
        PROVE  p + 2 \in 1..Len(s) /\ Skip(s, p + 2, n - 1, Narrow) = Skip(s, p + 3, n - 2, Narrow)
    <2>1. p + 2 \in 1..Len(s) + 1 /\ n - 1 \in Nat \ {0}
      BY <1>1, <1>3, <1>4
    <2>2. p + 2 \in 1..Len(s) /\ s[p + 2].w \in Narrow
      BY <1>2, <1>3, <2>1, SkipStuck
    <2>3. Skip(s, p + 2, n - 1, Narrow)
          = Skip(s, (p + 2) + 1, (n - 1) - 1 + Children(s[p + 2]), Narrow)
      BY <2>1, <2>2, SkipStep
    <2>4. Children(s[p + 2]) = 0
      BY <1>1, <1>4, ChildrenOf
    <2>5. (p + 2) + 1 = p + 3 /\ (n - 1) - 1 + 0 = n - 2
      BY <1>1
    <2> QED BY <2>2, <2>3, <2>4, <2>5
  <1>5. CASE n < 2
    <2>1. PastInstruction(s)[p] = Skip(s, p + 1, n, Narrow)
      BY <1>1, <1>5 DEF PastInstruction
    <2> QED BY <1>1, <1>2, <1>3, <1>5, <2>1
  <1>6. CASE n >= 2
    <2>1. p + 2 \in 1..Len(s) /\ ~(n < 2 \/ p + 2 > Len(s))
      BY <1>1, <1>4, <1>6
    <2>2. PastInstruction(s)[p] = Skip(s, p + 3, n - 2, Narrow)
      BY <1>1, <2>1 DEF PastInstruction
    <2> QED BY <1>1, <1>2, <1>3, <1>4, <1>6, <2>1, <2>2
  <1> QED BY <1>1, <1>5, <1>6

\* The rounds of the two walks.
LEMMA WalkRounds ==
    ASSUME NEW s, IsStream(s), NEW p \in 1..Len(s) + 1
    PROVE  /\ IsWalk(PastInstruction(s), p, 0..Len(s) + 1)
           /\ IsWalk(PastDirective(s), p, 0..Len(s) + 1)
  <1>1. p \in 0..Len(s) + 1
    BY StreamType
  <1> QED BY <1>1, PastInstructionType, PastDirectiveType, RoundsWalk

\* A loop whose rounds take it from each item of a container to the next visits them all.
LEMMA WalkItems ==
    ASSUME NEW s, IsStream(s), NEW pos \in 1..Len(s), Skip(s, pos, 1, Narrow) # 0,
           NEW step, IsWalk(step, pos + 1, 0..Len(s) + 1),
           \A k \in 1..Children(s[pos]) :
               step[ItemAt(s, pos, k)] = Skip(s, ItemAt(s, pos, k), 1, Narrow)
    PROVE  \A k \in 0..Children(s[pos]) : Rounds(step, pos + 1)[k] = ItemAt(s, pos, k + 1)
  <1> DEFINE n == Children(s[pos])
             P == {k \in Nat : k <= n => Rounds(step, pos + 1)[k] = ItemAt(s, pos, k + 1)}
  <1>1. Len(s) \in Nat /\ n \in Nat
    BY StreamType
  <1>2. /\ Rounds(step, pos + 1)[0] = pos + 1
        /\ \A i \in Nat : Rounds(step, pos + 1)[i + 1] = step[Rounds(step, pos + 1)[i]]
    BY DEF IsWalk
  <1>3. /\ ItemAt(s, pos, 1) = pos + 1
        /\ \A k \in 1..n : Skip(s, ItemAt(s, pos, k), 1, Narrow) = ItemAt(s, pos, k + 1)
    BY ItemsInside
  <1> HIDE DEF n
  <1>4. 0 \in P
    <2>1. ItemAt(s, pos, 0 + 1) = pos + 1
      BY <1>3
    <2> QED BY <1>2, <2>1
  <1>5. ASSUME NEW k \in Nat, k \in P PROVE k + 1 \in P
    <2>1. SUFFICES ASSUME k + 1 <= n
                   PROVE  Rounds(step, pos + 1)[k + 1] = ItemAt(s, pos, (k + 1) + 1)
      OBVIOUS
    <2>2. k + 1 \in 1..n /\ k <= n
      BY <1>1, <2>1
    <2>3. Rounds(step, pos + 1)[k] = ItemAt(s, pos, k + 1)
      BY <1>5, <2>2
    <2>4. step[ItemAt(s, pos, k + 1)] = Skip(s, ItemAt(s, pos, k + 1), 1, Narrow)
      BY <2>2 DEF n
    <2>5. Skip(s, ItemAt(s, pos, k + 1), 1, Narrow) = ItemAt(s, pos, (k + 1) + 1)
      BY <1>3, <2>2
    <2> QED BY <1>2, <2>3, <2>4, <2>5
  <1>6. \A k \in Nat : k \in P
    <2> HIDE DEF P
    <2> QED BY <1>4, <1>5, UpInduction
  <1>7. \A k \in 0..n : k \in Nat /\ k <= n
    BY <1>1
  <1> QED BY <1>6, <1>7 DEF n

\* A directive at d, as the property RvReadersAgree speaks of it.
HoldsInstructions(s, d) ==
    s[d].m = 4 /\ \A j \in 1..s[d].n : IsInstruction(s, ItemAt(s, d, j))

\* The instructions of a directive are found at the beginning of its items, and the walk
\* leaves it where it ends.
LEMMA InstructionWalk ==
    ASSUME NEW s, IsStream(s), NEW d \in 1..Len(s), Skip(s, d, 1, Narrow) # 0,
           HoldsInstructions(s, d)
    PROVE  /\ \A j \in 0..s[d].n : Rounds(PastInstruction(s), d + 1)[j] = ItemAt(s, d, j + 1)
           /\ DirectiveAt(s, d) = [j \in 1..s[d].n |-> InstructionAt(s, ItemAt(s, d, j))]
           /\ PastDirective(s)[d] = Skip(s, d, 1, Narrow)
  <1>1. Len(s) \in Nat /\ DOMAIN s = 1..Len(s) /\ s[d].n \in Nat
    BY StreamType
  <1>2. s[d].m = 4 /\ Children(s[d]) = s[d].n
    BY ChildrenOf DEF HoldsInstructions
  <1>3. IsWalk(PastInstruction(s), d + 1, 0..Len(s) + 1)
    <2> d + 1 \in 1..Len(s) + 1
      BY <1>1
    <2> QED BY WalkRounds
  <1>4. ASSUME NEW k \in 1..Children(s[d])
        PROVE  PastInstruction(s)[ItemAt(s, d, k)] = Skip(s, ItemAt(s, d, k), 1, Narrow)
    <2>1. ItemAt(s, d, k) \in d + 1..Len(s) /\ Skip(s, ItemAt(s, d, k), 1, Narrow) # 0
      BY ItemsInside
    <2>2. ItemAt(s, d, k) \in 1..Len(s) /\ IsInstruction(s, ItemAt(s, d, k))
      BY <1>1, <1>2, <2>1 DEF HoldsInstructions
    <2> QED BY <2>1, <2>2, PastInstructionIs
  <1>5. \A j \in 0..s[d].n : Rounds(PastInstruction(s), d + 1)[j] = ItemAt(s, d, j + 1)
    BY <1>2, <1>3, <1>4, WalkItems
  <1>6. DirectiveAt(s, d) = [j \in 1..s[d].n |-> InstructionAt(s, ItemAt(s, d, j))]
    <2>1. DirectiveAt(s, d)
          = [j \in 1..s[d].n |-> InstructionAt(s, Rounds(PastInstruction(s), d + 1)[j - 1])]
      BY <1>1, <1>2 DEF DirectiveAt
    <2>2. \A j \in 1..s[d].n : Rounds(PastInstruction(s), d + 1)[j - 1] = ItemAt(s, d, j)
      <3> TAKE j \in 1..s[d].n
      <3>1. j - 1 \in 0..s[d].n /\ (j - 1) + 1 = j
        BY <1>1
      <3> QED BY <1>5, <3>1
    <2> QED BY <2>1, <2>2
  <1>7. PastDirective(s)[d] = Skip(s, d, 1, Narrow)
    <2>1. d \in 0..Len(s) + 1 /\ d \in DOMAIN s /\ s[d].n \in 0..s[d].n
      BY <1>1
    <2>2. PastDirective(s)[d] = Rounds(PastInstruction(s), d + 1)[s[d].n]
      BY <1>2, <2>1 DEF PastDirective
    <2>3. ItemAt(s, d, s[d].n + 1) = Skip(s, d, 1, Narrow)
      BY <1>2, ItemsInside
    <2> QED BY <1>5, <2>1, <2>2, <2>3
  <1> QED BY <1>5, <1>6, <1>7

\* The walk of tpm.rs and rv_parse.rs over an RvInfo of arrays finds what is meant, whatever
\* stands behind it in the buffer.
LEMMA DirectivesAreMeant ==
    ASSUME NEW s, IsStream(s), NEW pos \in 1..Len(s), Skip(s, pos, 1, Narrow) # 0,
           HoldsArrays(s, pos)
    PROVE  Directives(s, pos) = Meant(s, pos)
  <1> DEFINE n == s[pos].n
  <1>1. Len(s) \in Nat /\ DOMAIN s = 1..Len(s) /\ n \in Nat
    BY StreamType
  <1>2. s[pos].m = 4 /\ Children(s[pos]) = n
    BY ChildrenOf DEF HoldsArrays
  <1>3. ASSUME NEW k \in 1..n
        PROVE  /\ PastDirective(s)[ItemAt(s, pos, k)] = Skip(s, ItemAt(s, pos, k), 1, Narrow)
               /\ DirectiveAt(s, ItemAt(s, pos, k))
                  = [j \in 1..s[ItemAt(s, pos, k)].n |-> InstructionAt(s, ItemAt(s, ItemAt(s, pos, k), j))]
    <2>1. ItemAt(s, pos, k) \in pos + 1..Len(s) /\ Skip(s, ItemAt(s, pos, k), 1, Narrow) # 0
      BY <1>2, ItemsInside
    <2>2. ItemAt(s, pos, k) \in 1..Len(s) /\ HoldsInstructions(s, ItemAt(s, pos, k))
      BY <1>1, <2>1 DEF HoldsArrays, HoldsInstructions
    <2> QED BY <2>1, <2>2, InstructionWalk
  <1> DEFINE M == [k \in 1..n |-> [j \in 1..s[ItemAt(s, pos, k)].n |->
                                     InstructionAt(s, ItemAt(s, ItemAt(s, pos, k), j))]]
             D(k) == DirectiveAt(s, Rounds(PastDirective(s), pos + 1)[k - 1])
  <1>4. \A k \in 0..n : Rounds(PastDirective(s), pos + 1)[k] = ItemAt(s, pos, k + 1)
    <2>1. IsWalk(PastDirective(s), pos + 1, 0..Len(s) + 1)
      <3> pos + 1 \in 1..Len(s) + 1
        BY <1>1
      <3> QED BY WalkRounds
    <2>2. \A k \in 1..Children(s[pos]) :
             PastDirective(s)[ItemAt(s, pos, k)] = Skip(s, ItemAt(s, pos, k), 1, Narrow)
      BY <1>2, <1>3
    <2>3. \A k \in 0..Children(s[pos]) :
             Rounds(PastDirective(s), pos + 1)[k] = ItemAt(s, pos, k + 1)
      BY <2>1, <2>2, WalkItems
    <2> QED BY <1>2, <2>3
  <1>5. \A k \in 1..n : D(k) = M[k]
    <2> TAKE k \in 1..n
    <2>1. k - 1 \in 0..n /\ (k - 1) + 1 = k
      BY <1>1
    <2>2. Rounds(PastDirective(s), pos + 1)[k - 1] = ItemAt(s, pos, k)
      BY <1>4, <2>1
    <2> QED BY <1>3, <2>2
  <1>6. Directives(s, pos) = [k \in 1..n |-> D(k)]
    <2> ~(s[pos].m = 2)
      BY <1>2
    <2> QED BY <1>2 DEF Directives
  <1>7. Meant(s, pos) = M
    BY DEF Meant
  <1>8. [k \in 1..n |-> D(k)] = [k \in 1..n |-> M[k]] /\ M = [k \in 1..n |-> M[k]]
    <2> [k \in 1..n |-> D(k)] = [k \in 1..n |-> M[k]]
      <3> HIDE DEF D, M
      <3> QED BY <1>5
    <2> QED OBVIOUS
  <1> HIDE DEF D, M
  <1> QED BY <1>6, <1>7, <1>8

-----------------------------------------------------------------------------
(* The scan for minimum revisions                                           *)

\* The scan of dctpm.rs stays within the RvInfo as well.
LEMMA ScanType ==
    ASSUME NEW s, IsStream(s)
    PROVE  /\ ScanInstruction(s) \in [0..Len(s) + 1 -> 0..Len(s) + 1]
           /\ ScanDirective(s) \in [0..Len(s) + 1 -> 0..Len(s) + 1]
  <1>1. /\ Len(s) \in Nat /\ DOMAIN s = 1..Len(s)
        /\ \A p \in 1..Len(s) : s[p].n \in Nat
    BY StreamType
  <1> DEFINE V == 0..Len(s) + 1
  <1>2. 0 \in V
    BY <1>1
  <1>3. ASSUME NEW p \in DOMAIN s PROVE Skip(s, p, 1, Wide) \in V
    <2>1. p \in 1..Len(s) + 1
      BY <1>1
    <2>2. Skip(s, p, 1, Wide) \in {0} \cup p..Len(s) + 1
      BY <2>1, SkipRange
    <2> QED BY <1>1, <2>1, <2>2
  <1>4. ScanInstruction(s) \in [V -> V]
    <2> HIDE DEF V
    <2> SUFFICES \A p \in V : (IF p \notin DOMAIN s THEN 0
                               ELSE IF s[p].m # 4 \/ s[p].n = 0 THEN 0
                               ELSE Skip(s, p, 1, Wide)) \in V
      BY DEF ScanInstruction, V
    <2> QED BY <1>2, <1>3
  <1>5. ASSUME NEW p \in DOMAIN s PROVE Rounds(ScanInstruction(s), p + 1)[s[p].n] \in V
    <2>1. p + 1 \in V /\ s[p].n \in Nat
      BY <1>1
    <2> HIDE DEF V
    <2>2. IsWalk(ScanInstruction(s), p + 1, V)
      BY <1>4, <2>1, RoundsWalk
    <2> QED BY <2>1, <2>2 DEF IsWalk
  <1>6. ScanDirective(s) \in [V -> V]
    <2> HIDE DEF V
    <2> SUFFICES \A p \in V : (IF p \notin DOMAIN s THEN 0
                               ELSE IF s[p].m # 4 THEN 0
                               ELSE Rounds(ScanInstruction(s), p + 1)[s[p].n]) \in V
      BY DEF ScanDirective, V
    <2> QED BY <1>2, <1>5
  <1> QED BY <1>4, <1>6

\* Its rounds.
LEMMA ScanRounds ==
    ASSUME NEW s, IsStream(s), NEW p \in 1..Len(s) + 1
    PROVE  /\ IsWalk(ScanInstruction(s), p, 0..Len(s) + 1)
           /\ IsWalk(ScanDirective(s), p, 0..Len(s) + 1)
  <1>1. p \in 0..Len(s) + 1
    BY StreamType
  <1> QED BY <1>1, ScanType, RoundsWalk

\* In a directive of instructions it visits them all, and leaves where the directive ends.
LEMMA ScanWalk ==
    ASSUME NEW s, IsStream(s), NEW d \in 1..Len(s), Skip(s, d, 1, Narrow) # 0,
           HoldsInstructions(s, d)
    PROVE  /\ \A j \in 0..s[d].n : Rounds(ScanInstruction(s), d + 1)[j] = ItemAt(s, d, j + 1)
           /\ ScanDirective(s)[d] = Skip(s, d, 1, Narrow)
  <1>1. Len(s) \in Nat /\ DOMAIN s = 1..Len(s) /\ s[d].n \in Nat
    BY StreamType
  <1>2. s[d].m = 4 /\ Children(s[d]) = s[d].n
    BY ChildrenOf DEF HoldsInstructions
  <1>3. IsWalk(ScanInstruction(s), d + 1, 0..Len(s) + 1)
    <2> d + 1 \in 1..Len(s) + 1
      BY <1>1
    <2> QED BY ScanRounds
  <1>4. ASSUME NEW k \in 1..Children(s[d])
        PROVE  ScanInstruction(s)[ItemAt(s, d, k)] = Skip(s, ItemAt(s, d, k), 1, Narrow)
    <2> DEFINE p == ItemAt(s, d, k)
    <2>1. p \in d + 1..Len(s) /\ Skip(s, p, 1, Narrow) # 0
      BY ItemsInside
    <2>2. p \in 1..Len(s) /\ IsInstruction(s, p)
      BY <1>1, <1>2, <2>1 DEF HoldsInstructions
    <2> HIDE DEF p
    <2>3. p \in 0..Len(s) + 1 /\ p \in 1..Len(s) + 1 /\ p \in DOMAIN s /\ s[p].m = 4 /\ s[p].n # 0
      BY <1>1, <2>2 DEF IsInstruction
    <2>4. ScanInstruction(s)[p] = Skip(s, p, 1, Wide)
      BY <2>3 DEF ScanInstruction
    <2>5. Skip(s, p, 1, Wide) = Skip(s, p, 1, Narrow)
      BY <2>1, <2>3, SkipWiden DEF Wide
    <2> QED BY <2>4, <2>5 DEF p
  <1>5. \A j \in 0..s[d].n : Rounds(ScanInstruction(s), d + 1)[j] = ItemAt(s, d, j + 1)
    BY <1>2, <1>3, <1>4, WalkItems
  <1>6. ScanDirective(s)[d] = Skip(s, d, 1, Narrow)
    <2>1. d \in 0..Len(s) + 1 /\ d \in DOMAIN s /\ s[d].n \in 0..s[d].n
      BY <1>1
    <2>2. ScanDirective(s)[d] = Rounds(ScanInstruction(s), d + 1)[s[d].n]
      BY <1>2, <2>1 DEF ScanDirective
    <2>3. ItemAt(s, d, s[d].n + 1) = Skip(s, d, 1, Narrow)
      BY <1>2, ItemsInside
    <2> QED BY <1>5, <2>1, <2>2, <2>3
  <1> QED BY <1>5, <1>6

\* The revision that the scan sees in an instruction is the one that the instruction names.
LEMMA RevAtIs ==
    ASSUME NEW s, IsStream(s), NEW p \in 1..Len(s), IsInstruction(s, p),
           Skip(s, p, 1, Narrow) # 0
    PROVE  RevAt(s, p) = IF InstructionAt(s, p).var = RvMinFirmwareRev
                         THEN {t.n : t \in HeadOf(InstructionAt(s, p).value, 0, Wide)} ELSE {}
  <1>1. Len(s) \in Nat /\ DOMAIN s = 1..Len(s) /\ s[p].n \in Nat
    BY StreamType
  <1>2. s[p].n >= 2 => p + 2 <= Len(s)
    BY PastInstructionIs
  <1>3. s[p].m = 4 /\ s[p + 1].m = 0 /\ (s[p].n >= 2 => s[p + 2].m = 2)
    BY DEF IsInstruction
  <1>4. CASE s[p].n < 2
    <2>1. InstructionAt(s, p) = [var |-> 255, value |-> <<>>]
      BY <1>1, <1>4 DEF InstructionAt
    <2>2. RevAt(s, p) = {}
      BY <1>4 DEF RevAt
    <2> QED BY <2>1, <2>2 DEF RvMinFirmwareRev
  <1>5. CASE s[p].n >= 2
    <2>1. InstructionAt(s, p) = [var |-> s[p + 1].n, value |-> s[p + 2].inner]
      BY <1>1, <1>2, <1>3, <1>5 DEF InstructionAt
    <2>2. RevAt(s, p) = IF s[p + 1].n # RvMinFirmwareRev THEN {}
                        ELSE {t.n : t \in HeadOf(s[p + 2].inner, 0, Wide)}
      BY <1>1, <1>3, <1>5 DEF RevAt
    <2> QED BY <2>1, <2>2
  <1> QED BY <1>1, <1>4, <1>5

\* What build_dctpm stores is the highest of the revisions that an RvInfo of arrays names.
LEMMA ScanRevsAreMeant ==
    ASSUME NEW s, IsStream(s), s # <<>>, Skip(s, 1, 1, Narrow) # 0, HoldsArrays(s, 1)
    PROVE  ScanRevs(s) = MeantRevs(Meant(s, 1))
  <1> DEFINE n == s[1].n
             At == Rounds(ScanDirective(s), 2)
             I(k) == ItemAt(s, 1, k)
             R(p) == IF InstructionAt(s, p).var = RvMinFirmwareRev
                     THEN {t.n : t \in HeadOf(InstructionAt(s, p).value, 0, Wide)} ELSE {}
  <1>1. Len(s) \in Nat /\ DOMAIN s = 1..Len(s) /\ Len(s) # 0 /\ 1 \in 1..Len(s)
    BY StreamType, EmptySeq DEF IsStream
  <1>2. s[1].m = 4 /\ Children(s[1]) = n /\ n \in Nat
    BY <1>1, ChildrenOf, StreamType DEF HoldsArrays
  <1>3. ASSUME NEW k \in 1..n
        PROVE  /\ I(k) \in 1..Len(s) /\ Skip(s, I(k), 1, Narrow) # 0
               /\ HoldsInstructions(s, I(k))
    <2>1. I(k) \in 1 + 1..Len(s) /\ Skip(s, I(k), 1, Narrow) # 0
      BY <1>1, <1>2, ItemsInside
    <2>2. HoldsInstructions(s, I(k))
      BY DEF HoldsArrays, HoldsInstructions
    <2>3. I(k) \in 1..Len(s)
      BY <1>1, <2>1
    <2> QED BY <2>1, <2>2, <2>3
  <1>4. \A k \in 0..n : At[k] = ItemAt(s, 1, k + 1)
    <2>1. IsWalk(ScanDirective(s), 1 + 1, 0..Len(s) + 1)
      <3> 1 + 1 \in 1..Len(s) + 1
        BY <1>1
      <3> QED BY ScanRounds
    <2>2. \A k \in 1..Children(s[1]) :
             ScanDirective(s)[ItemAt(s, 1, k)] = Skip(s, ItemAt(s, 1, k), 1, Narrow)
      BY <1>2, <1>3, ScanWalk
    <2>3. \A k \in 0..Children(s[1]) :
             Rounds(ScanDirective(s), 1 + 1)[k] = ItemAt(s, 1, k + 1)
      BY <1>1, <2>1, <2>2, WalkItems
    <2> QED BY <1>2, <2>3
  <1>5. At[n] # 0
    <2>1. ItemAt(s, 1, Children(s[1]) + 1) = Skip(s, 1, 1, Narrow)
      BY <1>1, ItemsInside
    <2>2. n \in 0..n
      BY <1>2
    <2> QED BY <1>2, <1>4, <2>1, <2>2
  <1>6. ASSUME NEW k \in 1..n PROVE At[k - 1] = I(k)
    <2> k - 1 \in 0..n /\ (k - 1) + 1 = k
      BY <1>2
    <2> QED BY <1>4
  <1>7. ASSUME NEW k \in 1..n, NEW j \in 1..s[I(k)].n
        PROVE  /\ Rounds(ScanInstruction(s), At[k - 1] + 1)[j - 1] = ItemAt(s, I(k), j)
               /\ RevAt(s, ItemAt(s, I(k), j)) = R(ItemAt(s, I(k), j))
    <2> DEFINE d == I(k)
    <2>1. d \in 1..Len(s) /\ Skip(s, d, 1, Narrow) # 0 /\ HoldsInstructions(s, d) /\ At[k - 1] = d
      BY <1>3, <1>6
    <2> HIDE DEF d, At
    <2>2. s[d].n \in Nat /\ s[d].m = 4 /\ j \in 1..s[d].n
      BY <2>1, StreamType DEF HoldsInstructions, d
    <2>3. j - 1 \in 0..s[d].n /\ (j - 1) + 1 = j
      BY <2>2
    <2>4. Rounds(ScanInstruction(s), d + 1)[j - 1] = ItemAt(s, d, j)
      <3>1. \A i \in 0..s[d].n : Rounds(ScanInstruction(s), d + 1)[i] = ItemAt(s, d, i + 1)
        BY <2>1, ScanWalk
      <3> QED BY <2>3, <3>1
    <2> DEFINE q == ItemAt(s, d, j)
    <2>5. q \in d + 1..Len(s) /\ Skip(s, q, 1, Narrow) # 0
      BY <2>1, <2>2, ItemsInside, ChildrenOf
    <2>6. q \in 1..Len(s) /\ IsInstruction(s, q)
      BY <1>1, <2>1, <2>2, <2>5 DEF HoldsInstructions
    <2> HIDE DEF q
    <2>7. RevAt(s, q) = R(q)
      BY <2>5, <2>6, RevAtIs
    <2> HIDE DEF R
    <2> QED BY <2>1, <2>4, <2>7 DEF q, d
  <1>8. ScanRevs(s) = UNION {UNION {R(ItemAt(s, I(k), j)) : j \in 1..s[I(k)].n} : k \in 1..n}
    <2>1. ScanRevs(s) = UNION {UNION {RevAt(s, Rounds(ScanInstruction(s), At[k - 1] + 1)[j - 1]) :
                                      j \in 1..s[At[k - 1]].n} : k \in 1..n}
      BY <1>2, <1>5 DEF ScanRevs
    <2> DEFINE A(k) == {RevAt(s, Rounds(ScanInstruction(s), At[k - 1] + 1)[j - 1]) :
                        j \in 1..s[At[k - 1]].n}
               B(k) == {R(ItemAt(s, I(k), j)) : j \in 1..s[I(k)].n}
    <2>2. \A k \in 1..n : A(k) = B(k)
      <3> HIDE DEF At, I, R
      <3> QED BY <1>6, <1>7
    <2>3. UNION {UNION A(k) : k \in 1..n} = UNION {UNION B(k) : k \in 1..n}
      <3> HIDE DEF A, B
      <3> QED BY <2>2
    <2> QED BY <2>1, <2>3
  <1>9. MeantRevs(Meant(s, 1))
        = UNION {UNION {R(ItemAt(s, I(k), j)) : j \in 1..s[I(k)].n} : k \in 1..n}
    <2> DEFINE M == Meant(s, 1)
               Rev(d) == UNION {{t.n : t \in HeadOf(d[j].value, 0, Wide)} :
                                j \in {i \in DOMAIN d : d[i].var = RvMinFirmwareRev}}
    <2>1. DOMAIN M = 1..n /\ \A k \in 1..n : /\ DOMAIN M[k] = 1..s[I(k)].n
                                             /\ \A j \in 1..s[I(k)].n :
                                                   M[k][j] = InstructionAt(s, ItemAt(s, I(k), j))
      BY DEF Meant
    <2>2. MeantRevs(M) = UNION {Rev(d) : d \in {M[k] : k \in DOMAIN M}}
      BY DEF MeantRevs
    <2> HIDE DEF M, I
    <2>3. ASSUME NEW k \in 1..n
          PROVE  Rev(M[k]) = UNION {R(ItemAt(s, I(k), j)) : j \in 1..s[I(k)].n}
      <3> DEFINE J == 1..s[I(k)].n
                 H(j) == {t.n : t \in HeadOf(InstructionAt(s, ItemAt(s, I(k), j)).value, 0, Wide)}
                 v(j) == InstructionAt(s, ItemAt(s, I(k), j)).var
                 d == M[k]
                 G(j) == {t.n : t \in HeadOf(d[j].value, 0, Wide)}
      <3>1. Rev(M[k]) = UNION {H(j) : j \in {i \in J : v(i) = RvMinFirmwareRev}}
        <4>1. DOMAIN d = J /\ \A j \in J : d[j].var = v(j) /\ G(j) = H(j)
          BY <2>1
        <4>2. Rev(d) = UNION {G(j) : j \in {i \in DOMAIN d : d[i].var = RvMinFirmwareRev}}
          OBVIOUS
        <4>3. {i \in DOMAIN d : d[i].var = RvMinFirmwareRev} = {i \in J : v(i) = RvMinFirmwareRev}
          <5> HIDE DEF J, v, d
          <5> QED BY <4>1
        <4> HIDE DEF J, G, H, v, d, Rev
        <4>4. UNION {G(j) : j \in {i \in J : v(i) = RvMinFirmwareRev}}
              = UNION {H(j) : j \in {i \in J : v(i) = RvMinFirmwareRev}}
          BY <4>1
        <4> QED BY <4>2, <4>3, <4>4 DEF d
      <3>2. \A j \in J : R(ItemAt(s, I(k), j)) = IF v(j) = RvMinFirmwareRev THEN H(j) ELSE {}
        OBVIOUS
      <3> HIDE DEF R, J, H, v, Rev
      <3>3. UNION {H(j) : j \in {i \in J : v(i) = RvMinFirmwareRev}}
            = UNION {R(ItemAt(s, I(k), j)) : j \in J}
        BY <3>2
      <3> QED BY <3>1, <3>3 DEF J
    <2> DEFINE U(k) == UNION {R(ItemAt(s, I(k), j)) : j \in 1..s[I(k)].n}
    <2>4. UNION {Rev(d) : d \in {M[k] : k \in DOMAIN M}} = UNION {U(k) : k \in 1..n}
      <3> HIDE DEF Rev, U
      <3>1. \A k \in 1..n : Rev(M[k]) = U(k)
        BY <2>3 DEF U
      <3> QED BY <2>1, <3>1
    <2> QED BY <2>2, <2>4 DEF M
  <1> QED BY <1>8, <1>9

-----------------------------------------------------------------------------
(* An RvInfo inside a credential                                            *)

\* The items inside a container are at the same places of the part and of the whole.
LEMMA ItemAtInside ==
    ASSUME NEW s, NEW t, NEW o, Inside(s, t, o), NEW p \in 1..Len(s),
           Skip(s, p, 1, Narrow) # 0
    PROVE  /\ o + p \in 1..Len(t) /\ t[o + p] = s[p]
           /\ Skip(t, o + p, 1, Narrow) = o + Skip(s, p, 1, Narrow)
           /\ Skip(t, o + p, 1, Narrow) # 0
           /\ \A k \in 1..Children(s[p]) : ItemAt(t, o + p, k) = o + ItemAt(s, p, k)
  <1>1. /\ IsStream(s) /\ IsStream(t) /\ o \in Nat /\ o + Len(s) <= Len(t)
        /\ Len(s) \in Nat /\ Len(t) \in Nat
        /\ \A q \in 1..Len(s) : t[o + q] = s[q]
    BY StreamType DEF Inside
  <1>2. o + p \in 1..Len(t) /\ t[o + p] = s[p] /\ p \in 1..Len(s) + 1
    BY <1>1
  <1>3. Skip(t, o + p, 1, Narrow) = o + Skip(s, p, 1, Narrow)
    BY <1>2, SkipInside
  <1>4. Skip(s, p, 1, Narrow) \in {0} \cup p..Len(s) + 1
    BY <1>1, <1>2, SkipRange
  <1>5. Skip(t, o + p, 1, Narrow) # 0
    BY <1>1, <1>3, <1>4
  <1>6. ASSUME NEW k \in 1..Children(s[p]) PROVE ItemAt(t, o + p, k) = o + ItemAt(s, p, k)
    <2>1. ItemAt(s, p, k) \in p + 1..Len(s)
      BY <1>1, ItemsInside
    <2>2. Skip(s, p + 1, k - 1, Wide) # 0
      BY <1>1, <2>1 DEF ItemAt
    <2>3. p + 1 \in 1..Len(s) + 1 /\ k - 1 \in Nat /\ o + (p + 1) = (o + p) + 1
      <3>1. Children(s[p]) \in Nat
        BY <1>1, StreamType
      <3> HIDE DEF Children
      <3> QED BY <1>1, <3>1
    <2>4. Skip(t, o + (p + 1), k - 1, Wide) = o + Skip(s, p + 1, k - 1, Wide)
      BY <2>2, <2>3, SkipInside
    <2> QED BY <2>3, <2>4 DEF ItemAt
  <1> QED BY <1>2, <1>3, <1>5, <1>6

\* An instruction is the same in both.
LEMMA InstructionInside ==
    ASSUME NEW s, NEW t, NEW o, Inside(s, t, o), NEW p \in 1..Len(s),
           Skip(s, p, 1, Narrow) # 0, IsInstruction(s, p)
    PROVE  IsInstruction(t, o + p) /\ InstructionAt(t, o + p) = InstructionAt(s, p)
  <1>1. /\ IsStream(s) /\ IsStream(t) /\ o \in Nat /\ o + Len(s) <= Len(t)
        /\ Len(s) \in Nat /\ Len(t) \in Nat
        /\ DOMAIN s = 1..Len(s) /\ DOMAIN t = 1..Len(t)
        /\ \A q \in 1..Len(s) : t[o + q] = s[q]
        /\ s[p].n \in Nat
    BY StreamType DEF Inside
  <1>2. (s[p].n >= 2 => p + 2 <= Len(s)) /\ p + 1 <= Len(s)
    BY <1>1, PastInstructionIs
  <1>3. t[o + p] = s[p] /\ t[(o + p) + 1] = s[p + 1] /\ o + p \in 1..Len(t)
    <2>1. p + 1 \in 1..Len(s) /\ (o + p) + 1 = o + (p + 1)
      BY <1>1, <1>2
    <2> QED BY <1>1, <2>1
  <1>4. s[p].n >= 2 => /\ t[(o + p) + 2] = s[p + 2] /\ (o + p) + 2 \in 1..Len(t)
                       /\ p + 2 \in 1..Len(s)
    <2>1. ASSUME s[p].n >= 2 PROVE p + 2 \in 1..Len(s) /\ (o + p) + 2 = o + (p + 2)
      BY <1>1, <1>2, <2>1
    <2> QED BY <1>1, <2>1
  <1>5. IsInstruction(t, o + p)
    BY <1>3, <1>4 DEF IsInstruction
  <1>6. s[p].m = 4
    BY DEF IsInstruction
  <1>7. CASE s[p].n >= 2
    <2> DEFINE i == [var |-> IF s[p + 1].m = 0 THEN s[p + 1].n ELSE 255, value |-> s[p + 2].inner]
    <2>1. s[p + 2].m = 2 /\ p \in DOMAIN s /\ p + 2 \in DOMAIN s
      BY <1>1, <1>4, <1>7 DEF IsInstruction
    <2>2. InstructionAt(s, p) = i
      BY <1>6, <1>7, <2>1 DEF InstructionAt
    <2>3. o + p \in DOMAIN t /\ (o + p) + 2 \in DOMAIN t /\ t[(o + p) + 2] = s[p + 2]
      BY <1>1, <1>3, <1>4, <1>7
    <2>4. InstructionAt(t, o + p) = i
      BY <1>3, <1>6, <1>7, <2>1, <2>3 DEF InstructionAt
    <2> QED BY <1>5, <2>2, <2>4
  <1>8. CASE ~(s[p].n >= 2)
    <2>1. InstructionAt(s, p) = [var |-> 255, value |-> <<>>]
      BY <1>8 DEF InstructionAt
    <2>2. InstructionAt(t, o + p) = [var |-> 255, value |-> <<>>]
      BY <1>3, <1>8 DEF InstructionAt
    <2> QED BY <1>5, <2>1, <2>2
  <1> QED BY <1>5, <1>7, <1>8

\* So the walk over a credential finds in the RvInfo inside it what the RvInfo means.
LEMMA DirectivesInside ==
    ASSUME NEW s, NEW t, NEW o, Inside(s, t, o), s # <<>>, Skip(s, 1, 1, Narrow) # 0,
           HoldsArrays(s, 1)
    PROVE  Directives(t, o + 1) = Meant(s, 1)
  <1> DEFINE n == s[1].n
             I(k) == ItemAt(s, 1, k)
             J(k) == ItemAt(t, o + 1, k)
  <1>1. /\ IsStream(s) /\ IsStream(t) /\ o \in Nat
        /\ Len(s) \in Nat /\ 1 \in 1..Len(s)
    BY StreamType, EmptySeq DEF Inside, IsStream
  <1>2. s[1].m = 4 /\ Children(s[1]) = n /\ n \in Nat
    BY <1>1, ChildrenOf, StreamType DEF HoldsArrays
  <1>3. /\ o + 1 \in 1..Len(t) /\ t[o + 1] = s[1] /\ Skip(t, o + 1, 1, Narrow) # 0
        /\ \A k \in 1..n : J(k) = o + I(k)
    BY <1>1, <1>2, ItemAtInside
  <1>4. ASSUME NEW k \in 1..n
        PROVE  /\ I(k) \in 1..Len(s) /\ Skip(s, I(k), 1, Narrow) # 0
               /\ HoldsInstructions(s, I(k))
    <2>1. I(k) \in 1 + 1..Len(s) /\ Skip(s, I(k), 1, Narrow) # 0
      BY <1>1, <1>2, ItemsInside
    <2>2. HoldsInstructions(s, I(k))
      BY DEF HoldsArrays, HoldsInstructions
    <2>3. I(k) \in 1..Len(s)
      BY <1>1, <2>1
    <2> QED BY <2>1, <2>2, <2>3
  <1>5. ASSUME NEW k \in 1..n
        PROVE  /\ t[J(k)] = s[I(k)] /\ s[I(k)].m = 4
               /\ \A j \in 1..s[I(k)].n :
                     /\ IsInstruction(t, ItemAt(t, J(k), j))
                     /\ InstructionAt(t, ItemAt(t, J(k), j)) = InstructionAt(s, ItemAt(s, I(k), j))
    <2> DEFINE d == I(k)
    <2>1. d \in 1..Len(s) /\ Skip(s, d, 1, Narrow) # 0 /\ HoldsInstructions(s, d) /\ J(k) = o + d
      BY <1>3, <1>4
    <2> HIDE DEF I, J, d
    <2>2. s[d].n \in Nat /\ s[d].m = 4 /\ Children(s[d]) = s[d].n
      BY <1>1, <2>1, StreamType, ChildrenOf DEF HoldsInstructions
    <2>3. t[o + d] = s[d] /\ \A j \in 1..s[d].n : ItemAt(t, o + d, j) = o + ItemAt(s, d, j)
      BY <2>1, <2>2, ItemAtInside
    <2>4. ASSUME NEW j \in 1..s[d].n
          PROVE  /\ IsInstruction(t, o + ItemAt(s, d, j))
                 /\ InstructionAt(t, o + ItemAt(s, d, j)) = InstructionAt(s, ItemAt(s, d, j))
      <3> DEFINE q == ItemAt(s, d, j)
      <3>1. q \in d + 1..Len(s) /\ Skip(s, q, 1, Narrow) # 0
        BY <1>1, <2>1, <2>2, ItemsInside
      <3>2. q \in 1..Len(s) /\ IsInstruction(s, q)
        BY <1>1, <2>1, <2>2, <3>1 DEF HoldsInstructions
      <3> HIDE DEF q
      <3>3. IsInstruction(t, o + q) /\ InstructionAt(t, o + q) = InstructionAt(s, q)
        BY <3>1, <3>2, InstructionInside
      <3> QED BY <3>3 DEF q
    <2> QED BY <2>1, <2>2, <2>3, <2>4 DEF d
  <1>6. HoldsArrays(t, o + 1)
    <2> HIDE DEF I
    <2> QED BY <1>2, <1>3, <1>5 DEF HoldsArrays
  <1>7. Meant(t, o + 1) = Meant(s, 1)
    <2> DEFINE A(k) == [j \in 1..s[I(k)].n |-> InstructionAt(s, ItemAt(s, I(k), j))]
               B(k) == [j \in 1..t[J(k)].n |-> InstructionAt(t, ItemAt(t, J(k), j))]
    <2>1. \A k \in 1..n : B(k) = A(k)
      <3> HIDE DEF I, J
      <3> QED BY <1>5
    <2>2. Meant(s, 1) = [k \in 1..n |-> A(k)] /\ Meant(t, o + 1) = [k \in 1..n |-> B(k)]
      BY <1>3 DEF Meant
    <2> HIDE DEF A, B
    <2> QED BY <2>1, <2>2
  <1>8. Directives(t, o + 1) = Meant(t, o + 1)
    BY <1>1, <1>3, <1>6, DirectivesAreMeant
  <1> QED BY <1>7, <1>8

-----------------------------------------------------------------------------
(* The highest of several revisions                                         *)

\* Finitely many numbers are bounded.
LEMMA Bounded ==
    ASSUME NEW n \in Nat, NEW f, \A i \in 1..n : f[i] \in Nat
    PROVE  \E b \in Nat : \A i \in 1..n : f[i] <= b
  <1> DEFINE P == {m \in Nat : \E b \in Nat : \A i \in 1..n : i <= m => f[i] <= b}
  <1>1. 0 \in P
    <2> \A i \in 1..n : i <= 0 => f[i] <= 0
      OBVIOUS
    <2> QED OBVIOUS
  <1>2. ASSUME NEW m \in Nat, m \in P PROVE m + 1 \in P
    <2>1. PICK b \in Nat : \A i \in 1..n : i <= m => f[i] <= b
      BY <1>2
    <2>2. CASE m + 1 \in 1..n
      <3>1. f[m + 1] \in Nat
        BY <2>2
      <3>2. PICK c \in Nat : c >= b /\ c >= f[m + 1]
        BY <3>1
      <3>3. ASSUME NEW i \in 1..n, i <= m + 1 PROVE f[i] <= c
        <4>1. f[i] \in Nat
          OBVIOUS
        <4>2. CASE i = m + 1
          BY <3>2, <4>2
        <4>3. CASE i <= m
          BY <2>1, <3>2, <4>1, <4>3
        <4> QED BY <3>3, <4>2, <4>3
      <3> QED BY <3>3
    <2>3. CASE m + 1 \notin 1..n
      <3>1. \A i \in 1..n : i <= m + 1 => i <= m
        BY <2>3
      <3>2. \A i \in 1..n : i <= m + 1 => f[i] <= b
        BY <2>1, <3>1
      <3> QED BY <3>2
    <2> QED BY <2>2, <2>3
  <1>3. n \in P
    <2> HIDE DEF P
    <2> QED BY <1>1, <1>2, UpInduction
  <1>4. \A i \in 1..n : i <= n
    OBVIOUS
  <1> QED BY <1>3, <1>4

\* What Highest chooses.
LEMMA HighestIs ==
    ASSUME NEW S \in SUBSET Nat, NEW b \in Nat, \A q \in S : q <= b
    PROVE  /\ Highest(S) \in S \cup {0} /\ Highest(S) \in Nat
           /\ \A q \in S : q <= Highest(S)
  <1> DEFINE U == {c \in Nat : \A q \in S : q <= c}
             IsMax(r) == r \in S \cup {0} /\ \A q \in S : q <= r
  <1>1. PICK u \in U : \A c \in U : u <= c
    <2> b \in U
      OBVIOUS
    <2> U \in SUBSET Nat /\ U # {}
      OBVIOUS
    <2> HIDE DEF U
    <2> QED BY LeastNat
  <1>2. u \in S \cup {0}
    <2>1. SUFFICES ASSUME u # 0, u \notin S PROVE FALSE
      OBVIOUS
    <2>2. u - 1 \in Nat
      BY <2>1
    <2>3. \A q \in S : q <= u - 1
      BY <2>1
    <2>4. u - 1 \in U
      BY <2>2, <2>3
    <2> QED BY <1>1, <2>2, <2>4
  <1>3. IsMax(u)
    BY <1>2
  <1>4. Highest(S) = CHOOSE r : IsMax(r)
    BY DEF Highest
  <1> HIDE DEF IsMax
  <1>5. IsMax(CHOOSE r : IsMax(r))
    BY <1>3, Zenon
  <1>6. IsMax(Highest(S))
    BY <1>4, <1>5
  <1>7. Highest(S) \in S \cup {0} /\ \A q \in S : q <= Highest(S)
    BY <1>6 DEF IsMax
  <1>8. S \cup {0} \subseteq Nat
    OBVIOUS
  <1> QED BY <1>7, <1>8

\* A scan that fails has failed at the end: one that stands somewhere at the end never had.
LEMMA WalkAlive ==
    ASSUME NEW step, NEW start, NEW V, IsWalk(step, start, V), step[0] = 0,
           NEW n \in Nat, Rounds(step, start)[n] # 0
    PROVE  \A i \in 0..n : Rounds(step, start)[i] # 0
  <1> DEFINE At == Rounds(step, start)
  <1>1. \A i \in Nat : At[i + 1] = step[At[i]]
    BY DEF IsWalk
  <1> HIDE DEF At
  <1> SUFFICES ASSUME NEW i \in 0..n, At[i] = 0 PROVE FALSE
    BY DEF At
  <1> DEFINE P == {j \in Nat : At[i + j] = 0}
  <1>2. 0 \in P
    <2> i + 0 = i
      OBVIOUS
    <2> QED OBVIOUS
  <1>3. ASSUME NEW j \in Nat, j \in P PROVE j + 1 \in P
    <2>1. i + j \in Nat /\ i + (j + 1) = (i + j) + 1
      OBVIOUS
    <2>2. At[(i + j) + 1] = step[At[i + j]] /\ At[i + j] = 0
      BY <1>1, <1>3, <2>1
    <2> QED BY <2>1, <2>2
  <1>4. n - i \in Nat /\ i + (n - i) = n
    OBVIOUS
  <1>5. n - i \in P
    <2> HIDE DEF P
    <2> QED BY <1>2, <1>3, <1>4, UpInduction
  <1> QED BY <1>4, <1>5 DEF At

\* What can be read of a value is its first head.
LEMMA HeadOfIs ==
    ASSUME NEW value, NEW major, NEW widths, NEW t \in HeadOf(value, major, widths)
    PROVE  value # <<>> /\ t = value[1] /\ value[1].m = major /\ value[1].w \in widths
  BY DEF HeadOf

\* The numbers in the byte strings of a buffer are bounded.
LEMMA InnerBounded ==
    ASSUME NEW s, IsStream(s), \A p \in 1..Len(s) : IsStream(s[p].inner)
    PROVE  \E b \in Nat : \A q \in 1..Len(s) :
              s[q].inner # <<>> => s[q].inner[1].n \in Nat /\ s[q].inner[1].n <= b
  <1> DEFINE f == [q \in 1..Len(s) |-> IF s[q].inner = <<>> THEN 0 ELSE s[q].inner[1].n]
  <1>1. Len(s) \in Nat
    BY StreamType
  <1>2. \A q \in 1..Len(s) : s[q].inner # <<>> => s[q].inner[1].n \in Nat
    <2> SUFFICES ASSUME NEW q \in 1..Len(s), s[q].inner # <<>> PROVE s[q].inner[1].n \in Nat
      OBVIOUS
    <2> DEFINE v == s[q].inner
    <2>1. IsStream(v) /\ v # <<>>
      OBVIOUS
    <2> HIDE DEF v
    <2>2. Len(v) \in Nat \ {0}
      BY <2>1, EmptySeq DEF IsStream
    <2>3. 1 \in 1..Len(v)
      BY <2>2
    <2>4. v[1].n \in Nat
      BY <2>1, <2>3, StreamType
    <2> QED BY <2>4 DEF v
  <1>3. \A q \in 1..Len(s) : f[q] \in Nat
    BY <1>2
  <1>4. PICK b \in Nat : \A q \in 1..Len(s) : f[q] <= b
    <2> HIDE DEF f
    <2> QED BY <1>1, <1>3, Bounded
  <1>5. \A q \in 1..Len(s) : s[q].inner # <<>> => f[q] = s[q].inner[1].n
    OBVIOUS
  <1> HIDE DEF f
  <1>6. \A q \in 1..Len(s) : s[q].inner # <<>> => s[q].inner[1].n <= b
    BY <1>4, <1>5
  <1> QED BY <1>2, <1>6

\* Where a scan that does not fail reads a revision there is one.
LEMMA RevAtInside ==
    ASSUME NEW s, IsStream(s), NEW q \in 1..Len(s), s[q].m = 4, Skip(s, q, 1, Wide) # 0,
           NEW r \in RevAt(s, q)
    PROVE  q + 2 \in 1..Len(s) /\ s[q + 2].inner # <<>> /\ r = s[q + 2].inner[1].n
  <1> DEFINE n == s[q].n
  <1>1. Len(s) \in Nat /\ n \in Nat
    BY StreamType
  <1>2. ~(n < 2) /\ s[q + 1].m = 0 /\ r \in {t.n : t \in HeadOf(s[q + 2].inner, 0, Wide)}
    BY DEF RevAt
  <1>3. s[q + 2].inner # <<>> /\ r = s[q + 2].inner[1].n
    BY <1>2, HeadOfIs
  <1>4. Skip(s, q, 1, Wide) = Skip(s, q + 1, n, Wide)
    <2>1. s[q].w \in Wide
      BY SkipStuck
    <2>2. Skip(s, q, 1, Wide) = Skip(s, q + 1, 1 - 1 + Children(s[q]), Wide)
      BY <2>1, SkipStep
    <2>3. Children(s[q]) = n
      BY ChildrenOf
    <2>4. 1 - 1 + n = n
      BY <1>1
    <2> QED BY <2>2, <2>3, <2>4
  <1>5. Skip(s, q + 1, n, Wide) = Skip(s, q + 2, n - 1, Wide) /\ q + 1 \in 1..Len(s)
    <2>1. q + 1 \in 1..Len(s) + 1 /\ n \in Nat \ {0}
      BY <1>1, <1>2
    <2>2. q + 1 \in 1..Len(s) /\ s[q + 1].w \in Wide
      BY <1>4, <2>1, SkipStuck
    <2>3. Skip(s, q + 1, n, Wide) = Skip(s, (q + 1) + 1, n - 1 + Children(s[q + 1]), Wide)
      BY <2>1, <2>2, SkipStep
    <2>4. Children(s[q + 1]) = 0
      BY <1>2, ChildrenOf
    <2>5. (q + 1) + 1 = q + 2 /\ n - 1 + 0 = n - 1
      BY <1>1
    <2> QED BY <2>2, <2>3, <2>4, <2>5
  <1>6. q + 2 \in 1..Len(s)
    <2>1. q + 2 \in 1..Len(s) + 1 /\ n - 1 \in Nat \ {0}
      BY <1>1, <1>2, <1>5
    <2> QED BY <1>4, <1>5, <2>1, SkipStuck
  <1> QED BY <1>3, <1>6

\* The revisions that dctpm.rs finds are numbers, and there is a highest one.
LEMMA ScanRevsBounded ==
    ASSUME NEW s, IsStream(s), s # <<>>, \A p \in 1..Len(s) : IsStream(s[p].inner)
    PROVE  /\ ScanRevs(s) \in SUBSET Nat
           /\ \E b \in Nat : \A r \in ScanRevs(s) : r <= b
  <1> DEFINE n == s[1].n
             At == Rounds(ScanDirective(s), 2)
             In(d) == Rounds(ScanInstruction(s), d + 1)
  <1>1. Len(s) \in Nat \ {0} /\ DOMAIN s = 1..Len(s) /\ n \in Nat
        /\ \A p \in 1..Len(s) : s[p].n \in Nat
    <2>1. Len(s) \in Nat \ {0}
      BY EmptySeq DEF IsStream
    <2>2. 1 \in 1..Len(s)
      BY <2>1
    <2> QED BY <2>1, <2>2, StreamType
  <1>2. PICK b \in Nat : \A q \in 1..Len(s) :
              s[q].inner # <<>> => s[q].inner[1].n \in Nat /\ s[q].inner[1].n <= b
    BY InnerBounded
  <1>3. ScanInstruction(s)[0] = 0 /\ ScanDirective(s)[0] = 0
    <2> 0 \in 0..Len(s) + 1 /\ 0 \notin DOMAIN s
      BY <1>1
    <2> QED BY DEF ScanInstruction, ScanDirective
  <1>4. SUFFICES ASSUME NEW r \in ScanRevs(s) PROVE r \in Nat /\ r <= b
    BY <1>2
  <1>5. At[n] # 0
    BY DEF ScanRevs
  <1>6. PICK k \in 1..n : \E j \in 1..s[At[k - 1]].n : r \in RevAt(s, In(At[k - 1])[j - 1])
    BY DEF ScanRevs
  <1>7. IsWalk(ScanDirective(s), 2, 0..Len(s) + 1)
    <2> 2 \in 1..Len(s) + 1
      BY <1>1
    <2> QED BY ScanRounds
  <1> DEFINE d == At[k - 1]
  <1>8. k - 1 \in Nat /\ k \in 0..n /\ (k - 1) + 1 = k
    BY <1>1
  <1>9. d \in 0..Len(s) + 1 /\ ScanDirective(s)[d] # 0
    <2>1. At[k] # 0
      BY <1>1, <1>3, <1>5, <1>7, <1>8, WalkAlive
    <2>2. At[(k - 1) + 1] = ScanDirective(s)[At[k - 1]] /\ At[k - 1] \in 0..Len(s) + 1
      BY <1>7, <1>8 DEF IsWalk
    <2> QED BY <1>8, <2>1, <2>2
  <1>10. PICK j \in 1..s[d].n : r \in RevAt(s, In(d)[j - 1])
    BY <1>6
  <1> HIDE DEF d, At
  <1>11. d \in 1..Len(s) /\ In(d)[s[d].n] # 0
    BY <1>1, <1>9 DEF ScanDirective
  <1>12. IsWalk(ScanInstruction(s), d + 1, 0..Len(s) + 1)
    <2> d + 1 \in 1..Len(s) + 1
      BY <1>1, <1>11
    <2> QED BY ScanRounds
  <1> DEFINE q == In(d)[j - 1]
  <1>13. s[d].n \in Nat /\ j - 1 \in Nat /\ j \in 0..s[d].n /\ (j - 1) + 1 = j
    BY <1>1, <1>11
  <1>14. q \in 0..Len(s) + 1 /\ ScanInstruction(s)[q] # 0
    <2>1. In(d)[j] # 0
      BY <1>3, <1>11, <1>12, <1>13, WalkAlive
    <2>2. In(d)[(j - 1) + 1] = ScanInstruction(s)[In(d)[j - 1]] /\ In(d)[j - 1] \in 0..Len(s) + 1
      BY <1>12, <1>13 DEF IsWalk
    <2> QED BY <1>13, <2>1, <2>2
  <1>15. r \in RevAt(s, q)
    BY <1>10
  <1> HIDE DEF q, In
  <1>16. q \in 1..Len(s) /\ s[q].m = 4 /\ Skip(s, q, 1, Wide) # 0
    BY <1>1, <1>14 DEF ScanInstruction
  <1>17. q + 2 \in 1..Len(s) /\ s[q + 2].inner # <<>> /\ r = s[q + 2].inner[1].n
    BY <1>15, <1>16, RevAtInside
  <1> QED BY <1>2, <1>17

-----------------------------------------------------------------------------
(* The credential                                                           *)

\* What a credential of this program holds, and where: the magic number and the GUID in
\* front of the RvInfo, the hash of the owner key and the handles behind it.
Stored(data, guid, rv) ==
    LET end == 6 + Len(rv)
    IN  /\ Inside(rv, data, 6)
        /\ Len(data) \in {end + 6, end + 7}
        /\ \A p \in 1..6 : data[p].inner = <<>>
        /\ \A p \in end + 1..Len(data) : data[p].inner = <<>>
        /\ \A p \in 2..6 : data[p].w \in Narrow /\ Children(data[p]) = 0 /\ data[p].m # 4
        /\ \A p \in end + 2..end + 6 : data[p].w \in Narrow /\ Children(data[p]) = 0
        /\ data[end + 1].w \in Narrow /\ Children(data[end + 1]) = 2
        /\ data[1].n \in {10, 11}
        /\ data[2].n = Magic
        /\ data[6].m = 2 /\ data[6].text = guid
        /\ data[end + 5].m = 0 /\ data[end + 5].n = DakHandle
        /\ data[end + 6].m = 0 /\ data[end + 6].n = HmacHandle

\* What is known of an RvInfo.
IsRv(rv) == IsItem(rv) /\ IsDescribed(rv) /\ IsDescribed(RvStream(rv))

\* An instruction that has a value has it inside the buffer.
LEMMA ValueInside ==
    ASSUME NEW s, IsStream(s), NEW p, InstructionAt(s, p).value # <<>>
    PROVE  /\ p \in 1..Len(s) /\ p + 2 \in 1..Len(s) /\ s[p].m = 4 /\ s[p].n >= 2
           /\ s[p + 2].m = 2
           /\ InstructionAt(s, p).value = s[p + 2].inner
           /\ InstructionAt(s, p) = [var |-> IF s[p + 1].m = 0 THEN s[p + 1].n ELSE 255,
                                     value |-> s[p + 2].inner]
  <1>1. DOMAIN s = 1..Len(s)
    BY StreamType
  <1> QED BY <1>1 DEF InstructionAt

\* The walk over the directives that begin at first.
Walk(s, first) ==
    IF s[first].m # 4 THEN <<>>
    ELSE [k \in 1..s[first].n |-> DirectiveAt(s, Rounds(PastDirective(s), first + 1)[k - 1])]

\* Wherever counting leads it, all it finds are instructions of the buffer.
LEMMA WalkEntries ==
    ASSUME NEW s, IsStream(s), NEW first \in 1..Len(s),
           NEW k \in DOMAIN Walk(s, first), NEW j \in DOMAIN Walk(s, first)[k]
    PROVE  \E p \in 0..Len(s) + 1 : Walk(s, first)[k][j] = InstructionAt(s, p)
  <1>1. /\ Len(s) \in Nat /\ DOMAIN s = 1..Len(s)
        /\ \A p \in 1..Len(s) : s[p].n \in Nat
    BY StreamType
  <1> DEFINE d == Rounds(PastDirective(s), first + 1)[k - 1]
  <1>2. s[first].m = 4
    BY DEF Walk
  <1>3. k \in 1..s[first].n /\ Walk(s, first)[k] = DirectiveAt(s, d)
    BY <1>2 DEF Walk
  <1>4. d \in 0..Len(s) + 1
    <2>1. first + 1 \in 1..Len(s) + 1 /\ k - 1 \in Nat
      BY <1>1, <1>3
    <2>2. IsWalk(PastDirective(s), first + 1, 0..Len(s) + 1)
      BY <2>1, WalkRounds
    <2> QED BY <2>1, <2>2 DEF IsWalk
  <1> HIDE DEF d
  <1>5. d \in DOMAIN s /\ s[d].m = 4
    BY <1>3 DEF DirectiveAt
  <1> DEFINE p == Rounds(PastInstruction(s), d + 1)[j - 1]
  <1>6. j \in 1..s[d].n /\ Walk(s, first)[k][j] = InstructionAt(s, p)
    BY <1>3, <1>5 DEF DirectiveAt
  <1>7. p \in 0..Len(s) + 1
    <2>1. d + 1 \in 1..Len(s) + 1 /\ j - 1 \in Nat
      BY <1>1, <1>5, <1>6
    <2>2. IsWalk(PastInstruction(s), d + 1, 0..Len(s) + 1)
      BY <2>1, WalkRounds
    <2> QED BY <2>1, <2>2 DEF IsWalk
  <1> QED BY <1>6, <1>7

\* The RvInfo of a credential, and how its first head is found in it.
LEMMA RvType ==
    ASSUME NEW rv, IsRv(rv)
    PROVE  /\ IsStream(rv) /\ Len(rv) \in Nat \ {0} /\ DOMAIN rv = 1..Len(rv) /\ rv # <<>>
           /\ IsStream(RvStream(rv)) /\ RvStream(rv) # <<>> /\ 1 \in 1..Len(RvStream(rv))
           /\ \A p \in 1..Len(RvStream(rv)) : IsStream(RvStream(rv)[p].inner)
           /\ \A p \in 1..Len(rv) : IsStream(rv[p].inner)
           /\ Skip(rv, 1, 1, Narrow) = Len(rv) + 1
  <1> DEFINE s == RvStream(rv)
  <1>1. IsStream(rv) /\ rv # <<>> /\ Skip(rv, 1, 1, Narrow) = Len(rv) + 1
    BY DEF IsRv, IsItem
  <1>2. IsStream(s) /\ s # <<>> /\ \A p \in DOMAIN s : IsStream(s[p].inner)
    BY DEF IsRv, IsDescribed
  <1>3. \A p \in DOMAIN rv : IsStream(rv[p].inner)
    BY DEF IsRv, IsDescribed
  <1> HIDE DEF s
  <1>4. Len(rv) \in Nat \ {0} /\ Len(s) \in Nat \ {0}
    BY <1>1, <1>2, EmptySeq DEF IsStream
  <1>5. DOMAIN rv = 1..Len(rv) /\ DOMAIN s = 1..Len(s) /\ 1 \in 1..Len(s)
    BY <1>1, <1>2, <1>4, StreamType
  <1> QED BY <1>1, <1>2, <1>3, <1>4, <1>5 DEF s

\* What both readers find in a credential are instructions of its RvInfo: if the walk strays
\* behind it, there is nothing there that has a value.
LEMMA StoredEntries ==
    ASSUME NEW data, NEW guid, NEW rv, Stored(data, guid, rv), IsRv(rv),
           NEW k \in DOMAIN Directives(data, 7), NEW j \in DOMAIN Directives(data, 7)[k],
           Directives(data, 7)[k][j].value # <<>>
    PROVE  \E p \in 1..Len(RvStream(rv)) :
              Directives(data, 7)[k][j] = InstructionAt(RvStream(rv), p)
  <1>1. /\ IsStream(data) /\ IsStream(rv) /\ Len(rv) \in Nat \ {0} /\ Len(data) \in Nat
        /\ 6 + Len(rv) <= Len(data)
        /\ \A p \in 1..Len(rv) : data[6 + p] = rv[p]
    BY RvType, StreamType DEF Stored, Inside
  <1>2. data[7] = rv[1] /\ 7 \in 1..Len(data) /\ 6 + 1 = 7
    <2> 1 \in 1..Len(rv) /\ 6 + 1 = 7 /\ 7 \in 1..Len(data)
      BY <1>1
    <2> QED BY <1>1
  <1> DEFINE D == Directives(data, 7)
             i == D[k][j]
  <1>3. CASE rv[1].m = 2
    <2> DEFINE s == RvStream(rv)
    <2>1. s = rv[1].inner
      BY <1>3 DEF RvStream
    <2>2. D = Walk(s, 1)
      BY <1>2, <1>3, <2>1 DEF Directives, Walk
    <2>3. IsStream(s) /\ 1 \in 1..Len(s)
      BY RvType
    <2> HIDE DEF s, D
    <2>4. PICK p \in 0..Len(s) + 1 : D[k][j] = InstructionAt(s, p)
      <3>1. k \in DOMAIN Walk(s, 1) /\ j \in DOMAIN Walk(s, 1)[k]
        BY <2>2 DEF D
      <3> QED BY <2>2, <2>3, <3>1, WalkEntries
    <2>5. p \in 1..Len(s)
      BY <2>3, <2>4, ValueInside DEF D
    <2> QED BY <2>4, <2>5 DEF s, D
  <1>4. CASE rv[1].m # 2
    <2>1. RvStream(rv) = rv
      BY <1>4 DEF RvStream
    <2>2. D = Walk(data, 7)
      BY <1>2, <1>4 DEF Directives, Walk
    <2> HIDE DEF D
    <2>3. PICK p \in 0..Len(data) + 1 : D[k][j] = InstructionAt(data, p)
      <3>1. k \in DOMAIN Walk(data, 7) /\ j \in DOMAIN Walk(data, 7)[k]
        BY <2>2 DEF D
      <3> QED BY <1>1, <1>2, <2>2, <3>1, WalkEntries
    <2>4. /\ p \in 1..Len(data) /\ p + 2 \in 1..Len(data) /\ data[p].m = 4 /\ data[p].n >= 2
          /\ data[p + 2].m = 2 /\ data[p + 2].inner # <<>>
          /\ i = [var |-> IF data[p + 1].m = 0 THEN data[p + 1].n ELSE 255,
                  value |-> data[p + 2].inner]
      <3>1. InstructionAt(data, p).value # <<>>
        BY <2>3 DEF D
      <3> QED BY <1>1, <2>3, <3>1, ValueInside
    <2>5. p + 2 \in 7..6 + Len(rv)
      <3>1. p + 2 \notin 1..6
        BY <2>4 DEF Stored
      <3>2. p + 2 \notin 6 + Len(rv) + 1..Len(data)
        BY <2>4 DEF Stored
      <3> QED BY <1>1, <2>4, <3>1, <3>2
    <2>6. p \notin 2..6
      BY <2>4 DEF Stored
    <2> DEFINE q == p - 6
    <2>7. /\ q \in 1..Len(rv) /\ q + 1 \in 1..Len(rv) /\ q + 2 \in 1..Len(rv)
          /\ 6 + q = p /\ 6 + (q + 1) = p + 1 /\ 6 + (q + 2) = p + 2
      BY <1>1, <2>4, <2>5, <2>6
    <2>8. data[p] = rv[q] /\ data[p + 1] = rv[q + 1] /\ data[p + 2] = rv[q + 2]
      BY <1>1, <2>7
    <2> HIDE DEF q
    <2>9. DOMAIN rv = 1..Len(rv)
      BY RvType
    <2>10. InstructionAt(rv, q) = i
      BY <2>4, <2>7, <2>8, <2>9 DEF InstructionAt
    <2> QED BY <2>1, <2>7, <2>10 DEF D
  <1> QED BY <1>3, <1>4

-----------------------------------------------------------------------------
(* The readers of the RvInfo                                                *)

\* An instruction that tpm.rs reads as well as rv_parse.rs.
Short(i) ==
    i.var % 256 \in {RvDns, RvIpAddress, RvDevPort, RvProtocol} /\ i.value # <<>>
    => i.value[1].w # 4

\* Of such an instruction both make the same.
LEMMA DecodeAgree ==
    ASSUME NEW i, Short(i), i.var % 256 \in {RvDns, RvIpAddress, RvDevPort, RvProtocol}
    PROVE  Decode("tpm", i) = Decode("rv", i)
  <1>1. \A major : Decoded("tpm", i.value, major) = Decoded("rv", i.value, major)
    BY DEF Decoded, HeadOf, ArgWidths, Narrow, Short
  <1>2. /\ DecodeText("tpm", i.value) = DecodeText("rv", i.value)
        /\ DecodeIp("tpm", i.value) = DecodeIp("rv", i.value)
        /\ DecodeUint("tpm", i.value) = DecodeUint("rv", i.value)
    BY <1>1 DEF DecodeText, DecodeIp, DecodeUint
  <1> HIDE DEF DecodeText, DecodeIp, DecodeUint
  <1> QED BY <1>2 DEF Decode, RvDns, RvIpAddress, RvDevPort, RvProtocol, RvFirmwarePath,
                      RvFirmwareUrl, RvMinFirmwareRev

\* So they take the same server from a directive,
LEMMA ServerAgree ==
    ASSUME NEW d, \A j \in DOMAIN d : Short(d[j])
    PROVE  Server("tpm", d) = Server("rv", d)
  <1>1. ASSUME NEW v \in {RvDns, RvIpAddress, RvDevPort, RvProtocol}
        PROVE  LastOf("tpm", d, v) = LastOf("rv", d, v)
    <2> DEFINE F(reader) == [j \in DOMAIN d |->
                               IF d[j].var % 256 = v THEN Decode(reader, d[j]) ELSE {}]
    <2>1. \A j \in DOMAIN d : d[j].var % 256 = v => Decode("tpm", d[j]) = Decode("rv", d[j])
      BY DecodeAgree
    <2>2. F("tpm") = F("rv")
      BY <2>1
    <2>3. LastFound(F("tpm")) = LastFound(F("rv"))
      BY <2>2
    <2> QED BY <2>3 DEF LastOf
  <1>2. /\ LastOf("tpm", d, RvDns) = LastOf("rv", d, RvDns)
        /\ LastOf("tpm", d, RvIpAddress) = LastOf("rv", d, RvIpAddress)
        /\ LastOf("tpm", d, RvDevPort) = LastOf("rv", d, RvDevPort)
        /\ LastOf("tpm", d, RvProtocol) = LastOf("rv", d, RvProtocol)
    BY <1>1
  <1> QED BY <1>2 DEF Server

\* and from all of them.
LEMMA FirstServerAgree ==
    ASSUME NEW D, \A k \in DOMAIN D : \A j \in DOMAIN D[k] : Short(D[k][j])
    PROVE  FirstServer("tpm", D) = FirstServer("rv", D)
  <1>1. \A k \in DOMAIN D : Server("tpm", D[k]) = Server("rv", D[k])
    BY ServerAgree
  <1>2. [k \in DOMAIN D |-> Server("tpm", D[k])] = [k \in DOMAIN D |-> Server("rv", D[k])]
    BY <1>1
  <1> QED BY <1>2 DEF FirstServer

\* The first directive with a host is the one that is meant.
LEMMA FirstServerMeant ==
    ASSUME NEW n \in Nat, NEW D, DOMAIN D = 1..n
    PROVE  FirstServer("rv", D) = MeantServer(D)
  <1> DEFINE Sv(k) == Server("rv", D[k])
             f == [k \in 1..n |-> Sv(k)]
  <1>1. FirstServer("rv", D)
        = UNION {f[i] : i \in {j \in DOMAIN f : \A k \in DOMAIN f : k < j => f[k] = {}}}
    BY DEF FirstServer, FirstFound
  <1>2. MeantServer(D) = {h \in UNION {Sv(k) : k \in 1..n} :
                            \E k \in 1..n : h \in Sv(k) /\ \A i \in 1..k - 1 : Sv(i) = {}}
    BY DEF MeantServer
  <1>3. DOMAIN f = 1..n /\ \A k \in 1..n : f[k] = Sv(k)
    OBVIOUS
  <1> HIDE DEF Sv, f
  <1>4. \A h : h \in FirstServer("rv", D)
               <=> \E j \in 1..n : h \in Sv(j) /\ \A k \in 1..n : k < j => Sv(k) = {}
    BY <1>1, <1>3
  <1>5. \A h : h \in MeantServer(D)
               <=> \E j \in 1..n : h \in Sv(j) /\ \A i \in 1..j - 1 : Sv(i) = {}
    BY <1>2
  <1>6. \A j \in 1..n : (\A k \in 1..n : k < j => Sv(k) = {}) <=> (\A i \in 1..j - 1 : Sv(i) = {})
    <2> TAKE j \in 1..n
    <2>1. \A k \in 1..n : k < j => k \in 1..j - 1
      OBVIOUS
    <2>2. \A i \in 1..j - 1 : i \in 1..n /\ i < j
      OBVIOUS
    <2> QED BY <2>1, <2>2
  <1>7. \A h : h \in FirstServer("rv", D) <=> h \in MeantServer(D)
    BY <1>4, <1>5, <1>6
  <1> QED BY <1>7

\* Without numbers of four bytes in the RvInfo, tpm.rs reads all that the walk finds.
LEMMA StoredShort ==
    ASSUME NEW data, NEW guid, NEW rv, Stored(data, guid, rv), IsRv(rv), IsShort(RvStream(rv)),
           NEW k \in DOMAIN Directives(data, 7), NEW j \in DOMAIN Directives(data, 7)[k]
    PROVE  Short(Directives(data, 7)[k][j])
  <1> DEFINE i == Directives(data, 7)[k][j]
             s == RvStream(rv)
  <1>1. SUFFICES ASSUME i.value # <<>> PROVE Short(i)
    BY DEF Short
  <1>2. PICK p \in 1..Len(s) : i = InstructionAt(s, p)
    BY <1>1, StoredEntries
  <1>3. p \in DOMAIN s
    BY RvType, StreamType
  <1> HIDE DEF i, s
  <1> QED BY <1>2, <1>3 DEF IsShort, Short, s

\* The minimum revision that rv_parse.rs takes from a credential is bounded.
LEMMA RvMinBounded ==
    ASSUME NEW data, NEW guid, NEW rv, Stored(data, guid, rv), IsRv(rv)
    PROVE  LET S == UNION {i.min_firmware_rev : i \in ParseRvFirmwareInfoAt(data, 7)}
           IN  S \in SUBSET Nat /\ \E b \in Nat : \A r \in S : r <= b
  <1> DEFINE S == UNION {i.min_firmware_rev : i \in ParseRvFirmwareInfoAt(data, 7)}
             D == Directives(data, 7)
             s == RvStream(rv)
             last == [k \in DOMAIN D |-> LastOf("rv", D[k], RvMinFirmwareRev)]
  <1>1. PICK b \in Nat : \A q \in 1..Len(s) :
              s[q].inner # <<>> => s[q].inner[1].n \in Nat /\ s[q].inner[1].n <= b
    BY RvType, InnerBounded
  <1>2. SUFFICES ASSUME NEW r \in S PROVE r \in Nat /\ r <= b
    BY <1>1
  <1>3. r \in LastFound(last)
    <2>1. PICK i \in ParseRvFirmwareInfoAt(data, 7) : r \in i.min_firmware_rev
      OBVIOUS
    <2>2. i.min_firmware_rev = LastFound(last)
      <3> HIDE DEF S
      <3> QED BY DEF ParseRvFirmwareInfoAt
    <2> QED BY <2>1, <2>2
  <1>4. PICK k \in DOMAIN D : r \in LastOf("rv", D[k], RvMinFirmwareRev)
    BY <1>3 DEF LastFound
  <1> DEFINE d == D[k]
             found == [j \in DOMAIN d |->
                         IF d[j].var % 256 = RvMinFirmwareRev THEN Decode("rv", d[j]) ELSE {}]
  <1>5. r \in LastFound(found)
    BY <1>4 DEF LastOf
  <1>6. PICK j \in DOMAIN d : d[j].var % 256 = RvMinFirmwareRev /\ r \in Decode("rv", d[j])
    BY <1>5 DEF LastFound
  <1> DEFINE i == d[j]
  <1> HIDE DEF d, D, s
  <1>7. r \in DecodeUint("rv", i.value)
    BY <1>6 DEF Decode, RvDns, RvIpAddress, RvDevPort, RvProtocol, RvFirmwarePath,
                RvFirmwareUrl, RvMinFirmwareRev
  <1>8. i.value # <<>> /\ r = i.value[1].n
    BY <1>7, HeadOfIs DEF DecodeUint, Decoded
  <1>9. PICK p \in 1..Len(s) : i = InstructionAt(s, p)
    BY <1>8, StoredEntries DEF d, D, s
  <1>10. IsStream(s)
    BY RvType DEF s
  <1>11. p + 2 \in 1..Len(s) /\ i.value = s[p + 2].inner
    <2>1. InstructionAt(s, p).value # <<>>
      BY <1>8, <1>9
    <2> QED BY <1>9, <1>10, <2>1, ValueInside
  <1> QED BY <1>1, <1>8, <1>11

-----------------------------------------------------------------------------
(* Reading a credential                                                     *)

\* How a skipper goes through a credential with an RvInfo of L heads.
StepsThrough(data, L, widths) ==
    /\ \A p \in 2..6 : \A c \in Nat \ {0} :
          Skip(data, p, c, widths) = Skip(data, p + 1, c - 1, widths)
    /\ \A c \in Nat \ {0} :
          Skip(data, 7, c, widths) = Skip(data, 7 + L, c - 1, widths)
    /\ \A c \in Nat \ {0} :
          Skip(data, 7 + L, c, widths) = Skip(data, 8 + L, c + 1, widths)
    /\ \A p \in 8 + L..12 + L : \A c \in Nat \ {0} :
          Skip(data, p, c, widths) = Skip(data, p + 1, c - 1, widths)

\* How any skipper goes through a credential, item by item: over the heads in front, over the
\* RvInfo at once whatever is in it, and over those behind it.
LEMMA StoredStep ==
    ASSUME NEW data, NEW guid, NEW rv, Stored(data, guid, rv), IsRv(rv),
           NEW widths, Narrow \subseteq widths
    PROVE  StepsThrough(data, Len(rv), widths)
  <1> DEFINE L == Len(rv)
  <1>1. /\ IsStream(data) /\ IsStream(rv) /\ L \in Nat \ {0} /\ Len(data) \in Nat
        /\ Inside(rv, data, 6)
    BY RvType, StreamType DEF Stored, Inside
  <1>2. Len(data) \in {12 + L, 13 + L}
    <2> 6 + L + 6 = 12 + L /\ 6 + L + 7 = 13 + L
      BY <1>1
    <2> QED BY DEF Stored
  <1>3. ASSUME NEW p \in 1..Len(data), data[p].w \in Narrow, Children(data[p]) = 0,
               NEW c \in Nat \ {0}
        PROVE  Skip(data, p, c, widths) = Skip(data, p + 1, c - 1, widths)
    <2>1. data[p].w \in widths
      BY <1>3
    <2>2. Skip(data, p, c, widths) = Skip(data, p + 1, c - 1 + Children(data[p]), widths)
      BY <1>1, <2>1, SkipStep
    <2>3. c - 1 + 0 = c - 1
      OBVIOUS
    <2> QED BY <1>3, <2>2, <2>3
  <1>4. ASSUME NEW p \in 2..6, NEW c \in Nat \ {0}
        PROVE  Skip(data, p, c, widths) = Skip(data, p + 1, c - 1, widths)
    <2>1. data[p].w \in Narrow /\ Children(data[p]) = 0
      BY DEF Stored
    <2>2. p \in 1..Len(data)
      BY <1>1, <1>2
    <2> QED BY <1>3, <2>1, <2>2
  <1>5. ASSUME NEW p \in 8 + L..12 + L, NEW c \in Nat \ {0}
        PROVE  Skip(data, p, c, widths) = Skip(data, p + 1, c - 1, widths)
    <2>1. p \in (6 + L) + 2..(6 + L) + 6 /\ p \in 1..Len(data)
      BY <1>1, <1>2
    <2>2. data[p].w \in Narrow /\ Children(data[p]) = 0
      BY <2>1 DEF Stored
    <2> QED BY <1>3, <2>1, <2>2
  <1>6. ASSUME NEW c \in Nat \ {0}
        PROVE  Skip(data, 7 + L, c, widths) = Skip(data, 8 + L, c + 1, widths)
    <2>1. 7 + L = (6 + L) + 1 /\ 7 + L \in 1..Len(data) /\ (7 + L) + 1 = 8 + L
      BY <1>1, <1>2
    <2>2. data[7 + L].w \in widths /\ Children(data[7 + L]) = 2
      BY <2>1 DEF Stored
    <2>3. Skip(data, 7 + L, c, widths)
          = Skip(data, (7 + L) + 1, c - 1 + Children(data[7 + L]), widths)
      BY <1>1, <2>1, <2>2, SkipStep
    <2>4. c - 1 + 2 = c + 1
      OBVIOUS
    <2> QED BY <2>1, <2>2, <2>3, <2>4
  <1>7. ASSUME NEW c \in Nat \ {0}
        PROVE  Skip(data, 7, c, widths) = Skip(data, 7 + L, c - 1, widths)
    <2>1. 1 \in 1..L + 1 /\ 7 \in 1..Len(data) + 1 /\ 6 + 1 = 7 /\ 6 + (L + 1) = 7 + L
      BY <1>1, <1>2
    <2>2. Skip(rv, 1, 1, Narrow) = L + 1 /\ L + 1 # 0
      BY <1>1, RvType
    <2>3. Skip(rv, 1, 1, widths) = L + 1
      BY <1>1, <2>1, <2>2, SkipWiden
    <2>4. Skip(data, 6 + 1, 1, widths) = 6 + (L + 1)
      <3>1. \A q \in 1..L + 1 : \A m \in Nat :
               Skip(rv, q, m, widths) # 0 => Skip(data, 6 + q, m, widths) = 6 + Skip(rv, q, m, widths)
        BY <1>1, SkipInside
      <3> QED BY <2>1, <2>2, <2>3, <3>1
    <2>5. Skip(data, 7, 1, widths) = 7 + L /\ 7 + L # 0
      BY <1>1, <2>1, <2>4
    <2>6. \A a, b \in Nat : Skip(data, 7, a + b, widths) =
                IF Skip(data, 7, a, widths) = 0 THEN 0
                ELSE Skip(data, Skip(data, 7, a, widths), b, widths)
      BY <1>1, <2>1, SkipCompose
    <2>7. c - 1 \in Nat /\ 1 + (c - 1) = c
      OBVIOUS
    <2> QED BY <2>5, <2>6, <2>7
  <1> QED BY <1>4, <1>5, <1>6, <1>7 DEF StepsThrough

\* Where the decoders find the GUID, the RvInfo, the handles and the minimum revision.
LEMMA StoredPlaces ==
    ASSUME NEW data, NEW guid, NEW rv, Stored(data, guid, rv), IsRv(rv)
    PROVE  /\ Skip(data, 3, 3, Narrow) = 6
           /\ Skip(data, 7, 3, Narrow) = 11 + Len(rv)
           /\ RvInfoAt(data) = 7
           /\ Skip(data, 2, 10, Wide) = 13 + Len(rv)
  <1> DEFINE L == Len(rv)
  <1>1. IsStream(data) /\ L \in Nat /\ Len(data) \in Nat /\ Len(data) \in {12 + L, 13 + L}
    <2>1. IsStream(data) /\ L \in Nat /\ Len(data) \in Nat
      BY RvType, StreamType DEF Stored, Inside
    <2>2. 6 + L + 6 = 12 + L /\ 6 + L + 7 = 13 + L
      BY <2>1
    <2> QED BY <2>1, <2>2 DEF Stored
  <1>2. ASSUME NEW p \in 1..Len(data) + 1, NEW widths PROVE Skip(data, p, 0, widths) = p
    BY <1>1, SkipNone
  <1>3. StepsThrough(data, L, Narrow) /\ StepsThrough(data, L, Wide)
    <2> Narrow \subseteq Narrow /\ Narrow \subseteq Wide
      BY DEF Wide
    <2> QED BY StoredStep
  <1>4. Skip(data, 3, 3, Narrow) = 6
    <2>1. \A p \in 2..6 : \A c \in Nat \ {0} :
             Skip(data, p, c, Narrow) = Skip(data, p + 1, c - 1, Narrow)
      BY <1>3 DEF StepsThrough
    <2>2. /\ Skip(data, 3, 3, Narrow) = Skip(data, 4, 2, Narrow)
          /\ Skip(data, 4, 2, Narrow) = Skip(data, 5, 1, Narrow)
          /\ Skip(data, 5, 1, Narrow) = Skip(data, 6, 0, Narrow)
      BY <2>1
    <2>3. 6 \in 1..Len(data) + 1
      BY <1>1
    <2> QED BY <1>2, <2>2, <2>3
  <1>5. RvInfoAt(data) = 7
    <2>1. \A p \in 2..6 : \A c \in Nat \ {0} :
             Skip(data, p, c, Narrow) = Skip(data, p + 1, c - 1, Narrow)
      BY <1>3 DEF StepsThrough
    <2>2. /\ Skip(data, 2, 5, Narrow) = Skip(data, 3, 4, Narrow)
          /\ Skip(data, 3, 4, Narrow) = Skip(data, 4, 3, Narrow)
          /\ Skip(data, 4, 3, Narrow) = Skip(data, 5, 2, Narrow)
          /\ Skip(data, 5, 2, Narrow) = Skip(data, 6, 1, Narrow)
          /\ Skip(data, 6, 1, Narrow) = Skip(data, 7, 0, Narrow)
      BY <2>1
    <2>3. 7 \in 1..Len(data) + 1
      BY <1>1
    <2> QED BY <1>2, <2>2, <2>3 DEF RvInfoAt
  <1>6. Skip(data, 7, 3, Narrow) = 11 + L
    <2>1. /\ Skip(data, 7, 3, Narrow) = Skip(data, 7 + L, 2, Narrow)
          /\ Skip(data, 7 + L, 2, Narrow) = Skip(data, 8 + L, 3, Narrow)
      <3>1. /\ \A c \in Nat \ {0} : Skip(data, 7, c, Narrow) = Skip(data, 7 + L, c - 1, Narrow)
            /\ \A c \in Nat \ {0} : Skip(data, 7 + L, c, Narrow) = Skip(data, 8 + L, c + 1, Narrow)
        BY <1>3 DEF StepsThrough
      <3> QED BY <3>1
    <2>2. \A p \in 8 + L..12 + L : \A c \in Nat \ {0} :
             Skip(data, p, c, Narrow) = Skip(data, p + 1, c - 1, Narrow)
      BY <1>3 DEF StepsThrough
    <2>3. /\ 8 + L \in 8 + L..12 + L /\ 9 + L \in 8 + L..12 + L /\ 10 + L \in 8 + L..12 + L
          /\ (8 + L) + 1 = 9 + L /\ (9 + L) + 1 = 10 + L /\ (10 + L) + 1 = 11 + L
      BY <1>1
    <2>4. /\ Skip(data, 8 + L, 3, Narrow) = Skip(data, 9 + L, 2, Narrow)
          /\ Skip(data, 9 + L, 2, Narrow) = Skip(data, 10 + L, 1, Narrow)
          /\ Skip(data, 10 + L, 1, Narrow) = Skip(data, 11 + L, 0, Narrow)
      <3>1. 3 - 1 = 2 /\ 2 - 1 = 1 /\ 1 - 1 = 0
        OBVIOUS
      <3>2. 3 \in Nat \ {0} /\ 2 \in Nat \ {0} /\ 1 \in Nat \ {0}
        OBVIOUS
      <3> HIDE DEF L
      <3> QED BY <2>2, <2>3, <3>1, <3>2
    <2>5. 11 + L \in 1..Len(data) + 1
      BY <1>1
    <2> QED BY <1>2, <2>1, <2>4, <2>5
  <1>7. Skip(data, 2, 10, Wide) = 13 + L
    <2>1. \A p \in 2..6 : \A c \in Nat \ {0} :
             Skip(data, p, c, Wide) = Skip(data, p + 1, c - 1, Wide)
      BY <1>3 DEF StepsThrough
    <2>2. /\ Skip(data, 2, 10, Wide) = Skip(data, 3, 9, Wide)
          /\ Skip(data, 3, 9, Wide) = Skip(data, 4, 8, Wide)
          /\ Skip(data, 4, 8, Wide) = Skip(data, 5, 7, Wide)
          /\ Skip(data, 5, 7, Wide) = Skip(data, 6, 6, Wide)
          /\ Skip(data, 6, 6, Wide) = Skip(data, 7, 5, Wide)
      BY <2>1
    <2>3. /\ Skip(data, 7, 5, Wide) = Skip(data, 7 + L, 4, Wide)
          /\ Skip(data, 7 + L, 4, Wide) = Skip(data, 8 + L, 5, Wide)
      <3>1. /\ \A c \in Nat \ {0} : Skip(data, 7, c, Wide) = Skip(data, 7 + L, c - 1, Wide)
            /\ \A c \in Nat \ {0} : Skip(data, 7 + L, c, Wide) = Skip(data, 8 + L, c + 1, Wide)
        BY <1>3 DEF StepsThrough
      <3> QED BY <3>1
    <2>4. \A p \in 8 + L..12 + L : \A c \in Nat \ {0} :
             Skip(data, p, c, Wide) = Skip(data, p + 1, c - 1, Wide)
      BY <1>3 DEF StepsThrough
    <2>5. /\ 8 + L \in 8 + L..12 + L /\ 9 + L \in 8 + L..12 + L /\ 10 + L \in 8 + L..12 + L
          /\ 11 + L \in 8 + L..12 + L /\ 12 + L \in 8 + L..12 + L
          /\ (8 + L) + 1 = 9 + L /\ (9 + L) + 1 = 10 + L /\ (10 + L) + 1 = 11 + L
          /\ (11 + L) + 1 = 12 + L /\ (12 + L) + 1 = 13 + L
      BY <1>1
    <2>6. /\ Skip(data, 8 + L, 5, Wide) = Skip(data, 9 + L, 4, Wide)
          /\ Skip(data, 9 + L, 4, Wide) = Skip(data, 10 + L, 3, Wide)
          /\ Skip(data, 10 + L, 3, Wide) = Skip(data, 11 + L, 2, Wide)
          /\ Skip(data, 11 + L, 2, Wide) = Skip(data, 12 + L, 1, Wide)
          /\ Skip(data, 12 + L, 1, Wide) = Skip(data, 13 + L, 0, Wide)
      <3>1. 5 - 1 = 4 /\ 4 - 1 = 3 /\ 3 - 1 = 2 /\ 2 - 1 = 1 /\ 1 - 1 = 0
        OBVIOUS
      <3>2. /\ 5 \in Nat \ {0} /\ 4 \in Nat \ {0}
            /\ 3 \in Nat \ {0} /\ 2 \in Nat \ {0} /\ 1 \in Nat \ {0}
        OBVIOUS
      <3> HIDE DEF L
      <3> QED BY <2>4, <2>5, <3>1, <3>2
    <2>7. 13 + L \in 1..Len(data) + 1
      BY <1>1
    <2> QED BY <1>2, <2>2, <2>3, <2>6, <2>7
  <1> QED BY <1>4, <1>5, <1>6, <1>7

\* read_fdo_credentials finds what DI stored.
LEMMA StoredCredentials ==
    ASSUME NEW data, NEW guid, NEW rv, Stored(data, guid, rv), IsRv(rv)
    PROVE  ReadFdoCredentials(data) = {[guid |-> guid, device_key_handle |-> DakHandle,
                                        hmac_key_handle |-> HmacHandle]}
  <1> DEFINE L == Len(rv)
  <1>1. L \in Nat /\ (6 + L) + 5 = 11 + L /\ (6 + L) + 6 = 12 + L /\ (11 + L) + 1 = 12 + L
    BY RvType
  <1>2. Skip(data, 3, 3, Narrow) = 6 /\ Skip(data, 6 + 1, 3, Narrow) = 11 + L
    BY StoredPlaces
  <1>3. data # <<>>
    <2>1. Len(data) # 0
      BY <1>1 DEF Stored
    <2> QED BY <2>1, EmptySeq
  <1>4. /\ data[1].n \in {10, 11} /\ data[2].n = Magic
        /\ data[6].m = 2 /\ data[6].text = guid
        /\ data[11 + L].m = 0 /\ data[11 + L].n = DakHandle
        /\ data[(11 + L) + 1].m = 0 /\ data[(11 + L) + 1].n = HmacHandle
    BY <1>1 DEF Stored
  <1>5. ~(data[1].n < 10) /\ 6 # 0 /\ 11 + L # 0
    BY <1>1, <1>4
  <1> HIDE DEF L
  <1> QED BY <1>2, <1>3, <1>4, <1>5 DEF ReadFdoCredentials

\* Item 10 of a credential, and a credential of an earlier build that has none.
HasRev(data, rv, rev) ==
    /\ Len(data) = 13 + Len(rv)
    /\ data[1].n = 11
    /\ data[13 + Len(rv)].m = 0 /\ data[13 + Len(rv)].n = rev
HasNoRev(data, rv) == Len(data) = 12 + Len(rv) /\ data[1].n = 10

\* What min_firmware_rev reads in either.
LEMMA StoredMin ==
    ASSUME NEW data, NEW guid, NEW rv, Stored(data, guid, rv), IsRv(rv)
    PROVE  /\ \A rev : HasRev(data, rv, rev) => MinFirmwareRev(data) = {rev}
           /\ HasNoRev(data, rv) => MinFirmwareRev(data) = {0}
  <1>1. Skip(data, 2, 10, Wide) = 13 + Len(rv) /\ Len(rv) \in Nat
    BY StoredPlaces, RvType
  <1>2. 13 + Len(rv) # 0 /\ ~(11 <= 10) /\ 10 <= 10
    BY <1>1
  <1>3. ASSUME NEW rev, HasRev(data, rv, rev) PROVE MinFirmwareRev(data) = {rev}
    BY <1>1, <1>2, <1>3 DEF MinFirmwareRev, HasRev
  <1>4. ASSUME HasNoRev(data, rv) PROVE MinFirmwareRev(data) = {0}
    BY <1>2, <1>4 DEF MinFirmwareRev, HasNoRev
  <1> QED BY <1>3, <1>4

\* A sequence of heads is a buffer.
LEMMA StreamOf ==
    ASSUME NEW S, NEW s \in Seq(S), \A p \in 1..Len(s) : s[p].n \in Nat
    PROVE  IsStream(s)
  <1>1. Len(s) \in Nat /\ DOMAIN s = 1..Len(s) /\ s \in [1..Len(s) -> S]
    BY LenProperties
  <1> DEFINE T == {s[p] : p \in DOMAIN s}
  <1>2. s \in [1..Len(s) -> T]
    BY <1>1
  <1>3. s \in Seq(T)
    <2> HIDE DEF T
    <2> QED BY <1>1, <1>2, SeqDef
  <1> QED BY <1>1, <1>3 DEF IsStream

\* Two buffers one behind the other.
Joined(a, b, m, n, c, S) ==
    /\ c \in Seq(S) /\ Len(c) = m + n
    /\ \A i \in 1..m + n : c[i] = IF i <= m THEN a[i] ELSE b[i - m]

\* They are joined by concatenation.
LEMMA JoinedIs ==
    ASSUME NEW S, NEW a \in Seq(S), NEW b \in Seq(S)
    PROVE  Joined(a, b, Len(a), Len(b), a \o b, S)
  BY ConcatProperties DEF Joined

\* A head that is one item by itself.
Plain(h) == h.w \in Narrow /\ Children(h) = 0 /\ h.m # 4 /\ h.n \in Nat /\ h.inner = <<>>

\* The heads that DI writes are numbers,
LEMMA ItemIs ==
    ASSUME NEW m, NEW w, NEW n
    PROVE  /\ Item(m, w, n).m = m /\ Item(m, w, n).w = w /\ Item(m, w, n).n = n
           /\ Item(m, w, n).inner = <<>>
           /\ m \in {0, 1, 7} => Children(Item(m, w, n)) = 0
           /\ m = 4 => Children(Item(m, w, n)) = n
  BY DEF Item, Children

\* each a single item,
LEMMA PlainItem ==
    ASSUME NEW m \in {0, 1, 7}, NEW w \in Narrow, NEW n \in Nat
    PROVE  Plain(Item(m, w, n))
  <1> m # 4
    OBVIOUS
  <1> QED BY ItemIs DEF Plain

\* and strings.
LEMMA PlainString ==
    ASSUME NEW x
    PROVE  Plain(Text(x)) /\ Plain(Bytes(x)) /\ Bytes(x).m = 2 /\ Bytes(x).text = x
  <1>1. Plain(Text(x))
    BY DEF Plain, Text, Item, Children, Narrow
  <1>2. Plain(Bytes(x)) /\ Bytes(x).m = 2 /\ Bytes(x).text = x
    BY DEF Plain, Bytes, Item, Children, Narrow
  <1> QED BY <1>1, <1>2

\* Ten items with a count in front, head by head.
TenAt(t, guid, rv, count) ==
    LET L == Len(rv)
    IN  /\ \E S : t \in Seq(S)
        /\ Len(t) = 12 + L
        /\ t[1] = Array(count) /\ t[2] = Uint32(Magic) /\ t[3] = Item(7, 0, 21)
        /\ t[4] = Item(0, 1, 200) /\ t[5] = Text("device") /\ t[6] = Bytes(guid)
        /\ \A p \in 1..L : t[6 + p] = rv[p]
        /\ t[7 + L] = Array(2) /\ t[8 + L] = Item(1, 0, 15)
        /\ t[9 + L] = Bytes("key hash") /\ t[10 + L] = Item(0, 0, 0)
        /\ t[11 + L] = Uint32(DakHandle) /\ t[12 + L] = Uint32(HmacHandle)

\* That is what FirstTen is.
LEMMA TenItems ==
    ASSUME NEW guid, NEW rv, IsRv(rv), NEW count
    PROVE  TenAt(<<Array(count)>> \o FirstTen(guid, rv), guid, rv, count)
  <1> DEFINE L == Len(rv)
             h0 == Array(count)
             h1 == Uint32(Magic)
             h2 == Item(7, 0, 21)
             h3 == Item(0, 1, 200)
             h4 == Text("device")
             h5 == Bytes(guid)
             g1 == Array(2)
             g2 == Item(1, 0, 15)
             g3 == Bytes("key hash")
             g4 == Item(0, 0, 0)
             g5 == Uint32(DakHandle)
             g6 == Uint32(HmacHandle)
             R == {rv[p] : p \in DOMAIN rv}
             S == R \cup {h0, h1, h2, h3, h4, h5, g1, g2, g3, g4, g5, g6}
             front == <<h1, h2, h3, h4, h5>>
             back == <<g1, g2, g3, g4, g5, g6>>
             ten == front \o rv \o back
             t == <<h0>> \o ten
  <1>1. t = <<Array(count)>> \o FirstTen(guid, rv)
    BY DEF FirstTen, LastFour
  <1>2. rv \in Seq(R) /\ L \in Nat
    BY RvType DEF IsStream
  <1> HIDE DEF h0, h1, h2, h3, h4, h5, g1, g2, g3, g4, g5, g6, R
  <1>3. rv \in Seq(S)
    <2> R \subseteq S
      OBVIOUS
    <2> HIDE DEF S
    <2> QED BY <1>2, SeqMonotonic
  <1>4. front \in Seq(S) /\ back \in Seq(S) /\ <<h0>> \in Seq(S)
    OBVIOUS
  <1>5. /\ Len(front) = 5 /\ Len(back) = 6 /\ Len(<<h0>>) = 1 /\ <<h0>>[1] = h0
        /\ front[1] = h1 /\ front[2] = h2 /\ front[3] = h3 /\ front[4] = h4 /\ front[5] = h5
        /\ back[1] = g1 /\ back[2] = g2 /\ back[3] = g3 /\ back[4] = g4 /\ back[5] = g5
        /\ back[6] = g6
    OBVIOUS
  <1> DEFINE one == <<h0>>
  <1> HIDE DEF front, back, one, S, L
  <1>6. /\ front \o rv \in Seq(S) /\ Len(front \o rv) = 5 + L
        /\ \A i \in 1..5 + L : (front \o rv)[i] = IF i <= 5 THEN front[i] ELSE rv[i - 5]
    <2>1. Joined(front, rv, Len(front), Len(rv), front \o rv, S)
      BY <1>3, <1>4, JoinedIs
    <2>2. Joined(front, rv, 5, L, front \o rv, S)
      BY <1>5, <2>1 DEF L
    <2> QED BY <2>2 DEF Joined
  <1>7. /\ ten \in Seq(S) /\ Len(ten) = (5 + L) + 6
        /\ \A i \in 1..(5 + L) + 6 : ten[i] = IF i <= 5 + L THEN (front \o rv)[i]
                                              ELSE back[i - (5 + L)]
    <2> DEFINE fr == front \o rv
    <2>1. fr \in Seq(S) /\ Len(fr) = 5 + L
      BY <1>6
    <2> HIDE DEF fr
    <2>2. /\ fr \o back \in Seq(S) /\ Len(fr \o back) = (5 + L) + 6
          /\ \A i \in 1..(5 + L) + 6 : (fr \o back)[i] = IF i <= 5 + L THEN fr[i]
                                              ELSE back[i - (5 + L)]
      <3>1. Joined(fr, back, Len(fr), Len(back), fr \o back, S)
        BY <1>4, <2>1, JoinedIs
      <3>2. Joined(fr, back, 5 + L, 6, fr \o back, S)
        BY <1>5, <2>1, <3>1
      <3> QED BY <3>2 DEF Joined
    <2> QED BY <2>2 DEF fr
  <1> HIDE DEF ten
  <1>8. /\ t \in Seq(S) /\ Len(t) = 1 + ((5 + L) + 6)
        /\ \A i \in 1..1 + ((5 + L) + 6) : t[i] = IF i <= 1 THEN one[i] ELSE ten[i - 1]
    <2>1. one \in Seq(S) /\ Len(one) = 1
      BY <1>4, <1>5 DEF one
    <2>2. /\ one \o ten \in Seq(S) /\ Len(one \o ten) = 1 + ((5 + L) + 6)
          /\ \A i \in 1..1 + ((5 + L) + 6) : (one \o ten)[i] = IF i <= 1 THEN one[i] ELSE ten[i - 1]
      <3>1. Joined(one, ten, Len(one), Len(ten), one \o ten, S)
        BY <1>7, <2>1, JoinedIs
      <3>2. Joined(one, ten, 1, (5 + L) + 6, one \o ten, S)
        BY <1>7, <2>1, <3>1
      <3> QED BY <3>2 DEF Joined
    <2> QED BY <2>2 DEF one
  <1> HIDE DEF t
  <1>9. t[1] = h0
    BY <1>2, <1>5, <1>8 DEF one, L
  <1>10. ASSUME NEW i \in 1..5 PROVE t[i + 1] = front[i]
    <2>1. /\ i + 1 \in 1..1 + ((5 + L) + 6) /\ ~(i + 1 <= 1) /\ (i + 1) - 1 = i
          /\ i \in 1..(5 + L) + 6 /\ i <= 5 + L /\ i \in 1..5 + L /\ i <= 5
      BY <1>2 DEF L
    <2>2. t[i + 1] = ten[i]
      BY <1>8, <2>1
    <2>3. ten[i] = (front \o rv)[i]
      BY <1>7, <2>1
    <2>4. (front \o rv)[i] = front[i]
      BY <1>6, <2>1
    <2> QED BY <2>2, <2>3, <2>4
  <1>11. ASSUME NEW p \in 1..L PROVE t[6 + p] = rv[p]
    <2>1. /\ 6 + p \in 1..1 + ((5 + L) + 6) /\ ~(6 + p <= 1) /\ (6 + p) - 1 = 5 + p
          /\ 5 + p \in 1..(5 + L) + 6 /\ 5 + p <= 5 + L /\ 5 + p \in 1..5 + L /\ ~(5 + p <= 5)
          /\ (5 + p) - 5 = p
      BY <1>2 DEF L
    <2>2. t[6 + p] = ten[5 + p]
      BY <1>8, <2>1
    <2>3. ten[5 + p] = (front \o rv)[5 + p]
      BY <1>7, <2>1
    <2>4. (front \o rv)[5 + p] = rv[p]
      BY <1>6, <2>1
    <2> QED BY <2>2, <2>3, <2>4
  <1>12. ASSUME NEW i \in 1..6 PROVE t[(6 + L) + i] = back[i]
    <2>1. /\ (6 + L) + i \in 1..1 + ((5 + L) + 6) /\ ~((6 + L) + i <= 1)
          /\ ((6 + L) + i) - 1 = (5 + L) + i
          /\ (5 + L) + i \in 1..(5 + L) + 6 /\ ~((5 + L) + i <= 5 + L)
          /\ ((5 + L) + i) - (5 + L) = i
      BY <1>2 DEF L
    <2>2. t[(6 + L) + i] = ten[(5 + L) + i]
      BY <1>8, <2>1
    <2>3. ten[(5 + L) + i] = back[i]
      BY <1>7, <2>1
    <2> QED BY <2>2, <2>3
  <1>13. t[2] = h1 /\ t[3] = h2 /\ t[4] = h3 /\ t[5] = h4 /\ t[6] = h5
    <2> t[1 + 1] = h1 /\ t[2 + 1] = h2 /\ t[3 + 1] = h3 /\ t[4 + 1] = h4 /\ t[5 + 1] = h5
      BY <1>5, <1>10
    <2> QED OBVIOUS
  <1>14. /\ t[7 + L] = g1 /\ t[8 + L] = g2 /\ t[9 + L] = g3 /\ t[10 + L] = g4
         /\ t[11 + L] = g5 /\ t[12 + L] = g6
    <2>1. /\ t[(6 + L) + 1] = g1 /\ t[(6 + L) + 2] = g2 /\ t[(6 + L) + 3] = g3
          /\ t[(6 + L) + 4] = g4 /\ t[(6 + L) + 5] = g5 /\ t[(6 + L) + 6] = g6
      BY <1>5, <1>12
    <2>2. /\ (6 + L) + 1 = 7 + L /\ (6 + L) + 2 = 8 + L /\ (6 + L) + 3 = 9 + L
          /\ (6 + L) + 4 = 10 + L /\ (6 + L) + 5 = 11 + L /\ (6 + L) + 6 = 12 + L
      BY <1>2 DEF L
    <2> QED BY <2>1, <2>2
  <1>15. Len(t) = 12 + L
    BY <1>2, <1>8 DEF L
  <1>16. \E X : t \in Seq(X)
    BY <1>8
  <1> QED BY <1>1, <1>9, <1>11, <1>13, <1>14, <1>15, <1>16
          DEF L, h0, h1, h2, h3, h4, h5, g1, g2, g3, g4, g5, g6, TenAt

\* A credential of ten items holds what it should.
LEMMA TenStored ==
    ASSUME NEW guid, NEW rv, IsRv(rv), NEW t, TenAt(t, guid, rv, 10)
    PROVE  Stored(t, guid, rv) /\ HasNoRev(t, rv)
  <1> DEFINE L == Len(rv)
  <1>1. /\ \E S : t \in Seq(S)
        /\ Len(t) = 12 + L
        /\ t[1] = Array(10) /\ t[2] = Uint32(Magic) /\ t[3] = Item(7, 0, 21)
        /\ t[4] = Item(0, 1, 200) /\ t[5] = Text("device") /\ t[6] = Bytes(guid)
        /\ \A p \in 1..L : t[6 + p] = rv[p]
        /\ t[7 + L] = Array(2) /\ t[8 + L] = Item(1, 0, 15)
        /\ t[9 + L] = Bytes("key hash") /\ t[10 + L] = Item(0, 0, 0)
        /\ t[11 + L] = Uint32(DakHandle) /\ t[12 + L] = Uint32(HmacHandle)
    BY DEF TenAt
  <1>2. L \in Nat /\ IsStream(rv) /\ \A p \in 1..L : rv[p].n \in Nat
    BY RvType, StreamType
  <1>3. 0 \in Narrow /\ 1 \in Narrow /\ 4 \in Narrow
    BY DEF Narrow
  <1> HIDE DEF L, Narrow
  <1>4. Plain(t[2]) /\ t[2].n = Magic
    <2> Plain(Item(0, 4, Magic)) /\ Item(0, 4, Magic).n = Magic
      BY <1>3, PlainItem, ItemIs DEF Magic
    <2> QED BY <1>1 DEF Uint32
  <1>5. Plain(t[3])
    <2> Plain(Item(7, 0, 21))
      BY <1>3, PlainItem
    <2> QED BY <1>1
  <1>6. Plain(t[4])
    <2> Plain(Item(0, 1, 200))
      BY <1>3, PlainItem
    <2> QED BY <1>1
  <1>7. Plain(t[5])
    BY <1>1, PlainString
  <1>8. Plain(t[6]) /\ t[6].m = 2 /\ t[6].text = guid
    <2>1. Plain(Bytes(guid)) /\ Bytes(guid).m = 2 /\ Bytes(guid).text = guid
      BY PlainString
    <2>2. t[6] = Bytes(guid)
      BY <1>1
    <2> QED BY <2>1, <2>2
  <1>9. Plain(t[8 + L])
    <2> Plain(Item(1, 0, 15))
      BY <1>3, PlainItem
    <2> QED BY <1>1
  <1>10. Plain(t[9 + L])
    BY <1>1, PlainString
  <1>11. Plain(t[10 + L])
    <2> Plain(Item(0, 0, 0))
      BY <1>3, PlainItem
    <2> QED BY <1>1
  <1>12. Plain(t[11 + L]) /\ t[11 + L].m = 0 /\ t[11 + L].n = DakHandle
    <2>1. Plain(Item(0, 4, DakHandle))
      BY <1>3, PlainItem DEF DakHandle
    <2>2. Item(0, 4, DakHandle).m = 0 /\ Item(0, 4, DakHandle).n = DakHandle
      BY ItemIs
    <2> QED BY <1>1, <2>1, <2>2 DEF Uint32
  <1>13. Plain(t[12 + L]) /\ t[12 + L].m = 0 /\ t[12 + L].n = HmacHandle
    <2>1. Plain(Item(0, 4, HmacHandle))
      BY <1>3, PlainItem DEF HmacHandle
    <2>2. Item(0, 4, HmacHandle).m = 0 /\ Item(0, 4, HmacHandle).n = HmacHandle
      BY ItemIs
    <2> QED BY <1>1, <2>1, <2>2 DEF Uint32
  <1>14. t[1].n = 10 /\ t[1].inner = <<>> /\ t[2].n = Magic
    <2> Item(4, 0, 10).n = 10 /\ Item(4, 0, 10).inner = <<>>
      BY ItemIs
    <2> QED BY <1>1, <1>4 DEF Array
  <1>15. t[7 + L].w \in Narrow /\ Children(t[7 + L]) = 2 /\ t[7 + L].n = 2 /\ t[7 + L].inner = <<>>
    <2> /\ Item(4, 0, 2).w = 0 /\ Children(Item(4, 0, 2)) = 2
        /\ Item(4, 0, 2).n = 2 /\ Item(4, 0, 2).inner = <<>>
      BY ItemIs
    <2> QED BY <1>1, <1>3 DEF Array
  <1>16. \A p \in 2..6 : Plain(t[p])
    <2>1. \A p \in 2..6 : p = 2 \/ p = 3 \/ p = 4 \/ p = 5 \/ p = 6
      OBVIOUS
    <2> QED BY <1>4, <1>5, <1>6, <1>7, <1>8, <2>1
  <1>17. \A p \in 8 + L..12 + L : Plain(t[p])
    <2>1. \A p \in 8 + L..12 + L : \/ p = 8 + L \/ p = 9 + L \/ p = 10 + L
                                   \/ p = 11 + L \/ p = 12 + L
      BY <1>2
    <2> QED BY <1>9, <1>10, <1>11, <1>12, <1>13, <2>1
  <1>18. \A p \in 1..6 : t[p].inner = <<>> /\ t[p].n \in Nat
    <2>1. \A p \in 1..6 : p = 1 \/ p \in 2..6
      OBVIOUS
    <2> QED BY <1>14, <1>16, <2>1 DEF Plain
  <1>19. \A p \in 7 + L..12 + L : t[p].inner = <<>> /\ t[p].n \in Nat
    <2>1. \A p \in 7 + L..12 + L : p = 7 + L \/ p \in 8 + L..12 + L
      BY <1>2
    <2> QED BY <1>15, <1>17, <2>1 DEF Plain
  <1>20. IsStream(t)
    <2>1. PICK S : t \in Seq(S)
      BY <1>1
    <2>2. ASSUME NEW p \in 1..Len(t) PROVE t[p].n \in Nat
      <3>1. CASE p \in 1..6
        BY <1>18, <3>1
      <3>2. CASE p \in 7 + L..12 + L
        BY <1>19, <3>2
      <3>3. CASE p \in 7..6 + L
        <4>1. p - 6 \in 1..L /\ 6 + (p - 6) = p
          BY <1>2, <3>3
        <4>2. t[6 + (p - 6)] = rv[p - 6]
          BY <1>1, <4>1
        <4>3. rv[p - 6].n \in Nat
          BY <1>2, <4>1
        <4> QED BY <4>1, <4>2, <4>3
      <3>4. p \in 1..6 \/ p \in 7..6 + L \/ p \in 7 + L..12 + L
        <4> p \in 1..12 + L
          BY <1>1
        <4> QED BY <1>2
      <3> QED BY <3>1, <3>2, <3>3, <3>4
    <2> QED BY <2>1, <2>2, StreamOf
  <1>21. Inside(rv, t, 6)
    <2>1. 6 + L <= Len(t)
      <3> Len(t) = 12 + L
        BY <1>1
      <3> QED BY <1>2
    <2>2. \A p \in 1..L : t[6 + p] = rv[p]
      BY <1>1
    <2> QED BY <1>2, <1>20, <2>1, <2>2 DEF Inside, L
  <1>22. /\ 6 + L + 1 = 7 + L /\ 6 + L + 2 = 8 + L /\ 6 + L + 6 = 12 + L
         /\ 6 + L + 5 = 11 + L
    BY <1>2
  <1>23. Len(t) = 12 + L
    BY <1>1
  <1>24. Stored(t, guid, rv)
    <2>1. Len(t) \in {6 + L + 6, 6 + L + 7}
      BY <1>22, <1>23
    <2>2. \A p \in 6 + L + 1..Len(t) : t[p].inner = <<>>
      BY <1>19, <1>22, <1>23
    <2>3. \A p \in 2..6 : t[p].w \in Narrow /\ Children(t[p]) = 0 /\ t[p].m # 4
      BY <1>16 DEF Plain
    <2>4. \A p \in 6 + L + 2..6 + L + 6 : t[p].w \in Narrow /\ Children(t[p]) = 0
      BY <1>17, <1>22 DEF Plain
    <2>5. /\ t[6 + L + 1].w \in Narrow /\ Children(t[6 + L + 1]) = 2
          /\ t[6 + L + 5].m = 0 /\ t[6 + L + 5].n = DakHandle
          /\ t[6 + L + 6].m = 0 /\ t[6 + L + 6].n = HmacHandle
      BY <1>12, <1>13, <1>15, <1>22
    <2> QED BY <1>8, <1>14, <1>18, <1>21, <2>1, <2>2, <2>3, <2>4, <2>5 DEF Stored, L
  <1> QED BY <1>14, <1>23, <1>24 DEF HasNoRev, L

\* So does one whose minimum revision was appended or replaced.
LEMMA RevStored ==
    ASSUME NEW guid, NEW rv, IsRv(rv), NEW old, Stored(old, guid, rv), NEW rev \in Nat,
           NEW S, NEW new \in Seq(S), Len(new) = 13 + Len(rv),
           new[1] = Array(11), \A p \in 2..12 + Len(rv) : new[p] = old[p],
           new[13 + Len(rv)] = Uint(rev)
    PROVE  Stored(new, guid, rv) /\ HasRev(new, rv, rev)
  <1> DEFINE L == Len(rv)
             e == 6 + L
  <1>1. /\ L \in Nat /\ IsStream(rv) /\ Inside(rv, old, 6) /\ IsStream(old)
        /\ Len(old) \in {e + 6, e + 7}
    BY RvType DEF Stored, Inside
  <1>2. /\ new[13 + L].n = rev /\ new[13 + L].m = 0 /\ new[13 + L].inner = <<>>
        /\ new[1].n = 11 /\ new[1].inner = <<>>
    <2>1. new[13 + L] = Item(0, ShortestWidth(rev), rev) /\ new[1] = Item(4, 0, 11)
      BY DEF Uint, Array
    <2> DEFINE w == ShortestWidth(rev)
    <2> HIDE DEF w
    <2>2. Item(0, w, rev).n = rev /\ Item(0, w, rev).m = 0 /\ Item(0, w, rev).inner = <<>>
      BY ItemIs
    <2>3. Item(4, 0, 11).n = 11 /\ Item(4, 0, 11).inner = <<>>
      BY ItemIs
    <2> QED BY <2>1, <2>2, <2>3 DEF w
  <1>3. \A p \in 2..12 + L : new[p] = old[p] /\ old[p].n \in Nat
    <2> \A p \in 2..12 + L : p \in 1..Len(old)
      BY <1>1
    <2> QED BY <1>1, StreamType
  <1>4. IsStream(new)
    <2>1. ASSUME NEW p \in 1..Len(new) PROVE new[p].n \in Nat
      <3>1. p = 1 \/ p \in 2..12 + L \/ p = 13 + L
        BY <1>1
      <3> QED BY <1>2, <1>3, <3>1
    <2> QED BY <2>1, StreamOf
  <1>5. Inside(rv, new, 6)
    <2>1. ASSUME NEW p \in 1..L PROVE new[6 + p] = rv[p]
      <3>1. 6 + p \in 2..12 + L
        BY <1>1
      <3>2. old[6 + p] = rv[p]
        BY <1>1 DEF Inside
      <3> QED BY <1>3, <3>1, <3>2
    <2>2. 6 + L <= Len(new)
      BY <1>1
    <2> QED BY <1>1, <1>4, <2>1, <2>2 DEF Inside
  <1>6. \A p \in 1..6 : new[p].inner = <<>>
    <2> SUFFICES ASSUME NEW p \in 1..6 PROVE new[p].inner = <<>>
      OBVIOUS
    <2>1. p = 1 \/ p \in 2..12 + L
      BY <1>1
    <2>2. old[p].inner = <<>>
      BY DEF Stored
    <2> QED BY <1>2, <1>3, <2>1, <2>2
  <1>7. \A p \in e + 1..Len(new) : new[p].inner = <<>>
    <2> SUFFICES ASSUME NEW p \in e + 1..Len(new) PROVE new[p].inner = <<>>
      OBVIOUS
    <2>1. p = 13 + L \/ (p \in 2..12 + L /\ p \in e + 1..Len(old))
      BY <1>1
    <2>2. ASSUME p \in e + 1..Len(old) PROVE old[p].inner = <<>>
      BY <2>2 DEF Stored
    <2> QED BY <1>2, <1>3, <2>1, <2>2
  <1>8. \A p \in 2..6 : new[p].w \in Narrow /\ Children(new[p]) = 0 /\ new[p].m # 4
    <2>1. \A p \in 2..6 : p \in 2..12 + L
      BY <1>1
    <2>2. \A p \in 2..6 : old[p].w \in Narrow /\ Children(old[p]) = 0 /\ old[p].m # 4
      BY DEF Stored
    <2> QED BY <1>3, <2>1, <2>2
  <1>9. \A p \in e + 2..e + 6 : new[p].w \in Narrow /\ Children(new[p]) = 0
    <2>1. \A p \in e + 2..e + 6 : p \in 2..12 + L
      BY <1>1
    <2>2. \A p \in e + 2..e + 6 : old[p].w \in Narrow /\ Children(old[p]) = 0
      BY DEF Stored
    <2> QED BY <1>3, <2>1, <2>2
  <1>10. /\ new[2] = old[2] /\ new[6] = old[6] /\ new[e + 1] = old[e + 1]
         /\ new[e + 5] = old[e + 5] /\ new[e + 6] = old[e + 6]
    <2> /\ 2 \in 2..12 + L /\ 6 \in 2..12 + L /\ e + 1 \in 2..12 + L
        /\ e + 5 \in 2..12 + L /\ e + 6 \in 2..12 + L
      BY <1>1
    <2> HIDE DEF e
    <2> QED BY <1>3
  <1>11. Len(new) \in {e + 6, e + 7}
    BY <1>1
  <1> HIDE DEF e
  <1>12. /\ old[e + 1].w \in Narrow /\ Children(old[e + 1]) = 2
         /\ old[2].n = Magic
         /\ old[6].m = 2 /\ old[6].text = guid
         /\ old[e + 5].m = 0 /\ old[e + 5].n = DakHandle
         /\ old[e + 6].m = 0 /\ old[e + 6].n = HmacHandle
    BY DEF Stored, e
  <1>13. /\ new[e + 1].w \in Narrow /\ Children(new[e + 1]) = 2
         /\ new[1].n \in {10, 11}
         /\ new[2].n = Magic
         /\ new[6].m = 2 /\ new[6].text = guid
         /\ new[e + 5].m = 0 /\ new[e + 5].n = DakHandle
         /\ new[e + 6].m = 0 /\ new[e + 6].n = HmacHandle
    BY <1>2, <1>10, <1>12
  <1>14. Stored(new, guid, rv)
    BY <1>5, <1>6, <1>7, <1>8, <1>9, <1>11, <1>13 DEF Stored, e
  <1> QED BY <1>2, <1>14 DEF HasRev

\* The minimum that DI stores is a number, and not below any that the scan found.
LEMMA RvMinIs ==
    ASSUME NEW rv, IsRv(rv)
    PROVE  /\ RvMinFirmwareRevOf(rv) \in Nat
           /\ \A r \in ScanRevs(rv) : r <= RvMinFirmwareRevOf(rv)
  <1>1. /\ ScanRevs(rv) \in SUBSET Nat
        /\ \E b \in Nat : \A r \in ScanRevs(rv) : r <= b
    BY RvType, ScanRevsBounded
  <1> QED BY <1>1, HighestIs DEF RvMinFirmwareRevOf

\* What build_dctpm writes.
LEMMA BuildStored ==
    ASSUME NEW guid, NEW rv, IsRv(rv)
    PROVE  /\ Stored(BuildDctpm(guid, rv), guid, rv)
           /\ HasRev(BuildDctpm(guid, rv), rv, RvMinFirmwareRevOf(rv))
  <1> DEFINE L == Len(rv)
             old == <<Array(10)>> \o FirstTen(guid, rv)
             t == <<Array(11)>> \o FirstTen(guid, rv)
             rev == RvMinFirmwareRevOf(rv)
             u == Uint(rev)
             new == t \o <<u>>
  <1>1. TenAt(old, guid, rv, 10) /\ TenAt(t, guid, rv, 11)
    BY TenItems
  <1>2. rev \in Nat /\ L \in Nat /\ new = BuildDctpm(guid, rv)
    BY RvMinIs, RvType DEF BuildDctpm
  <1> HIDE DEF old, t, rev, u, L
  <1>3. Stored(old, guid, rv)
    BY <1>1, TenStored
  <1>4. PICK S : t \in Seq(S)
    BY <1>1 DEF TenAt
  <1> DEFINE T == S \cup {u}
  <1>5. t \in Seq(T) /\ <<u>> \in Seq(T) /\ Len(<<u>>) = 1 /\ <<u>>[1] = u /\ Len(t) = 12 + L
    <2>1. S \subseteq T /\ u \in T
      OBVIOUS
    <2> HIDE DEF T
    <2>2. t \in Seq(T)
      BY <1>4, <2>1, SeqMonotonic
    <2>3. Len(t) = 12 + L
      BY <1>1 DEF TenAt, L
    <2> QED BY <2>1, <2>2, <2>3
  <1> DEFINE tail == <<u>>
  <1>6. Joined(t, tail, 12 + L, 1, new, T)
    <2> HIDE DEF T
    <2>1. Joined(t, <<u>>, Len(t), Len(<<u>>), t \o <<u>>, T)
      BY <1>5, JoinedIs
    <2> QED BY <1>5, <2>1
  <1>7. tail[1] = u
    BY <1>5
  <1> HIDE DEF T, new, tail
  <1>8. /\ new \in Seq(T) /\ Len(new) = (12 + L) + 1
        /\ \A i \in 1..(12 + L) + 1 : new[i] = IF i <= 12 + L THEN t[i] ELSE tail[i - (12 + L)]
    BY <1>6 DEF Joined
  <1>9. Len(new) = 13 + L /\ new[13 + L] = u
    <2>1. /\ (12 + L) + 1 = 13 + L /\ 13 + L \in 1..(12 + L) + 1 /\ ~(13 + L <= 12 + L)
          /\ (13 + L) - (12 + L) = 1
      BY <1>2
    <2> QED BY <1>7, <1>8, <2>1
  <1>10. \A i \in 1..12 + L : new[i] = t[i]
    <2> \A i \in 1..12 + L : i \in 1..(12 + L) + 1 /\ i <= 12 + L
      BY <1>2
    <2> QED BY <1>8
  <1>11. new[1] = Array(11)
    <2>1. 1 \in 1..12 + L
      BY <1>2
    <2>2. t[1] = Array(11)
      BY <1>1 DEF TenAt
    <2> QED BY <1>10, <2>1, <2>2
  <1>12. ASSUME NEW p \in 2..12 + L PROVE t[p] = old[p]
    <2>1. \/ p = 2 \/ p = 3 \/ p = 4 \/ p = 5 \/ p = 6 \/ p \in 7..6 + L
          \/ p = 7 + L \/ p = 8 + L \/ p = 9 + L \/ p = 10 + L \/ p = 11 + L \/ p = 12 + L
      BY <1>2
    <2>2. ASSUME p \in 7..6 + L PROVE t[p] = old[p]
      <3>1. p - 6 \in 1..L /\ 6 + (p - 6) = p
        BY <1>2, <2>2
      <3>2. \A q \in 1..L : t[6 + q] = rv[q] /\ old[6 + q] = rv[q]
        BY <1>1 DEF TenAt, L
      <3>3. t[6 + (p - 6)] = old[6 + (p - 6)]
        BY <3>1, <3>2
      <3> QED BY <3>1, <3>3
    <2>3. t[2] = old[2] /\ t[3] = old[3] /\ t[4] = old[4] /\ t[5] = old[5] /\ t[6] = old[6]
      BY <1>1 DEF TenAt
    <2>4. /\ t[7 + L] = old[7 + L] /\ t[8 + L] = old[8 + L] /\ t[9 + L] = old[9 + L]
          /\ t[10 + L] = old[10 + L] /\ t[11 + L] = old[11 + L] /\ t[12 + L] = old[12 + L]
      BY <1>1 DEF TenAt, L
    <2> QED BY <2>1, <2>2, <2>3, <2>4
  <1>13. \A p \in 2..12 + L : new[p] = old[p]
    <2> \A p \in 2..12 + L : p \in 1..12 + L
      BY <1>2
    <2> QED BY <1>10, <1>12
  <1>14. Stored(new, guid, rv) /\ HasRev(new, rv, rev)
    BY <1>2, <1>3, <1>8, <1>9, <1>11, <1>13, RevStored DEF L, u
  <1> QED BY <1>2, <1>14 DEF rev

\* What with_min_firmware_rev makes of a credential, whether it had a minimum or not.
LEMMA RewriteStored ==
    ASSUME NEW guid, NEW rv, IsRv(rv), NEW data, Stored(data, guid, rv), NEW rev \in Nat
    PROVE  /\ Stored(WithMinFirmwareRev(data, rev), guid, rv)
           /\ HasRev(WithMinFirmwareRev(data, rev), rv, rev)
  <1> DEFINE L == Len(rv)
             E == Len(data)
             one == <<Array(11)>>
             mid == SubSeq(data, 2, 12 + L)
             last == <<Uint(rev)>>
             front == one \o mid
             new == front \o last
             D == {data[p] : p \in DOMAIN data}
             T == D \cup {Array(11), Uint(rev)}
  <1>1. L \in Nat /\ E \in Nat /\ DOMAIN data = 1..E /\ E \in {6 + L + 6, 6 + L + 7}
    BY RvType, StreamType DEF Stored, Inside
  <1>2. Skip(data, 2, 10, Wide) = 13 + L
    BY StoredPlaces
  <1>3. new = (<<Array(11)>> \o SubSeq(data, 2, 12 + L)) \o <<Uint(rev)>>
    OBVIOUS
  <1> HIDE DEF L, E
  <1>4. /\ mid \in Seq(T) /\ Len(mid) = 11 + L
        /\ \A i \in 1..11 + L : mid[i] = data[i + 1]
    <2>1. \A i \in 2..12 + L : i \in 1..E
      BY <1>1
    <2>2. \A i \in 2..12 + L : data[i] \in T
      BY <1>1, <2>1
    <2>3. 2 \in Int /\ 12 + L \in Int /\ 2 <= 12 + L /\ (12 + L) - 2 + 1 = 11 + L
      BY <1>1
    <2> HIDE DEF T
    <2>4. /\ mid \in Seq(T) /\ Len(mid) = (IF 2 <= 12 + L THEN (12 + L) - 2 + 1 ELSE 0)
          /\ \A i \in 1..(12 + L) - 2 + 1 : mid[i] = data[2 + i - 1]
      BY <2>2, <2>3, SubSeqProperties
    <2>5. \A i \in 1..11 + L : 2 + i - 1 = i + 1
      BY <1>1
    <2> HIDE DEF mid
    <2> QED BY <2>3, <2>4, <2>5
  <1>5. /\ one \in Seq(T) /\ Len(one) = 1 /\ one[1] = Array(11)
        /\ last \in Seq(T) /\ Len(last) = 1 /\ last[1] = Uint(rev)
    OBVIOUS
  <1> HIDE DEF one, mid, last, T
  <1>6. /\ front \in Seq(T) /\ Len(front) = 1 + (11 + L)
        /\ \A i \in 1..1 + (11 + L) : front[i] = IF i <= 1 THEN one[i] ELSE mid[i - 1]
    <2>1. Joined(one, mid, Len(one), Len(mid), one \o mid, T)
      BY <1>4, <1>5, JoinedIs
    <2>2. Joined(one, mid, 1, 11 + L, front, T)
      BY <1>4, <1>5, <2>1
    <2> QED BY <2>2 DEF Joined
  <1> HIDE DEF front
  <1>7. Len(front) = 12 + L /\ front[1] = Array(11) /\ \A p \in 2..12 + L : front[p] = data[p]
    <2>1. 1 + (11 + L) = 12 + L /\ 1 \in 1..1 + (11 + L)
      BY <1>1
    <2>2. \A p \in 2..12 + L : /\ p \in 1..1 + (11 + L) /\ ~(p <= 1)
                               /\ p - 1 \in 1..11 + L /\ (p - 1) + 1 = p
      BY <1>1
    <2>3. ASSUME NEW p \in 2..12 + L PROVE front[p] = data[p]
      <3>1. front[p] = mid[p - 1]
        BY <1>6, <2>2
      <3>2. mid[p - 1] = data[(p - 1) + 1]
        BY <1>4, <2>2
      <3> QED BY <2>2, <3>1, <3>2
    <2>4. front[1] = one[1]
      BY <1>6, <2>1
    <2> QED BY <1>5, <1>6, <2>1, <2>3, <2>4
  <1>8. /\ new \in Seq(T) /\ Len(new) = (12 + L) + 1
        /\ \A i \in 1..(12 + L) + 1 : new[i] = IF i <= 12 + L THEN front[i] ELSE last[i - (12 + L)]
    <2>1. Joined(front, last, Len(front), Len(last), front \o last, T)
      BY <1>5, <1>6, JoinedIs
    <2>2. Joined(front, last, 12 + L, 1, new, T)
      BY <1>5, <1>7, <2>1
    <2> QED BY <2>2 DEF Joined
  <1> HIDE DEF new
  <1>9. Len(new) = 13 + L /\ new[13 + L] = Uint(rev)
    <2>1. /\ (12 + L) + 1 = 13 + L /\ 13 + L \in 1..(12 + L) + 1 /\ ~(13 + L <= 12 + L)
          /\ (13 + L) - (12 + L) = 1
      BY <1>1
    <2> QED BY <1>5, <1>8, <2>1
  <1>10. new[1] = Array(11) /\ \A p \in 2..12 + L : new[p] = data[p]
    <2>1. \A p \in 1..12 + L : p \in 1..(12 + L) + 1 /\ p <= 12 + L
      BY <1>1
    <2>2. \A p \in 1..12 + L : new[p] = front[p]
      BY <1>8, <2>1
    <2>3. 1 \in 1..12 + L /\ \A p \in 2..12 + L : p \in 1..12 + L
      BY <1>1
    <2> QED BY <1>7, <2>2, <2>3
  <1>11. Stored(new, guid, rv) /\ HasRev(new, rv, rev)
    BY <1>8, <1>9, <1>10, RevStored DEF L
  <1>12. WithMinFirmwareRev(data, rev) = new
    <2>1. SubSeq(data, (13 + L) + 1, E) = <<>>
      <3> (13 + L) + 1 \in Int /\ E \in Int /\ E < (13 + L) + 1
        BY <1>1
      <3> QED BY SubSeqEmpty
    <2>2. (13 + L) - 1 = 12 + L
      BY <1>1
    <2>3. (IF data[1].n > 11 THEN data[1].n ELSE 11) = 11
      <3> data[1].n \in {10, 11}
        BY DEF Stored
      <3> QED OBVIOUS
    <2>4. WithMinFirmwareRev(data, rev)
          = <<Array(IF data[1].n > 11 THEN data[1].n ELSE 11)>> \o SubSeq(data, 2, (13 + L) - 1)
            \o <<Uint(rev)>> \o SubSeq(data, (13 + L) + 1, E)
      BY <1>2 DEF WithMinFirmwareRev, E
    <2>5. WithMinFirmwareRev(data, rev) = new \o <<>>
      BY <1>3, <2>1, <2>2, <2>3, <2>4
    <2> QED BY <1>8, <2>5, ConcatEmptySeq
  <1> QED BY <1>11, <1>12

-----------------------------------------------------------------------------
(* The scope of an artifact                                                 *)

\* An integer or a string is a single head, and what follows it begins right behind.
LEMMA SkipString ==
    ASSUME NEW s, IsStream(s), NEW p \in 1..Len(s), Skip(s, p, 1, Narrow) # 0,
           s[p].m \in {0, 1, 2, 3}
    PROVE  Skip(s, p, 1, Narrow) = p + 1 /\ s[p].w \in Narrow
  <1>1. s[p].w \in Narrow
    BY SkipStuck
  <1>2. Skip(s, p, 1, Narrow) = Skip(s, p + 1, 1 - 1 + Children(s[p]), Narrow)
    BY <1>1, SkipStep
  <1>3. Children(s[p]) = 0 /\ 1 - 1 + 0 = 0
    BY ChildrenOf
  <1>4. p + 1 \in 1..Len(s) + 1
    BY StreamType
  <1>5. Skip(s, p + 1, 0, Narrow) = p + 1
    BY <1>4, SkipNone
  <1> QED BY <1>1, <1>2, <1>3, <1>5

\* The items of a list of strings follow one another.
LEMMA FlatItems ==
    ASSUME NEW s, IsStream(s), NEW v \in 1..Len(s), Skip(s, v, 1, Narrow) # 0,
           NEW k \in 0..Children(s[v]),
           \A i \in 1..k : ItemAt(s, v, i) = v + i => s[v + i].m = 2
    PROVE  \A i \in 1..k + 1 : ItemAt(s, v, i) = v + i
  <1> DEFINE n == Children(s[v])
             P == {i \in Nat : i <= k => ItemAt(s, v, i + 1) = v + (i + 1)}
  <1>1. Len(s) \in Nat /\ n \in Nat
    BY StreamType
  <1>2. /\ ItemAt(s, v, 1) = v + 1
        /\ \A i \in 1..n : /\ ItemAt(s, v, i) \in v + 1..Len(s)
                           /\ Skip(s, ItemAt(s, v, i), 1, Narrow) = ItemAt(s, v, i + 1)
                           /\ ItemAt(s, v, i + 1) # 0
    BY ItemsInside
  <1> HIDE DEF n
  <1>3. k \in 0..n
    BY DEF n
  <1>4. 0 \in P
    <2> ItemAt(s, v, 0 + 1) = v + (0 + 1)
      BY <1>2
    <2> QED OBVIOUS
  <1>5. ASSUME NEW i \in Nat, i \in P PROVE i + 1 \in P
    <2>1. SUFFICES ASSUME i + 1 <= k PROVE ItemAt(s, v, (i + 1) + 1) = v + ((i + 1) + 1)
      OBVIOUS
    <2>2. i <= k /\ i + 1 \in 1..n /\ i + 1 \in 1..k
      BY <1>1, <1>3, <2>1
    <2> DEFINE q == v + (i + 1)
    <2>3. ItemAt(s, v, i + 1) = q
      BY <1>5, <2>2
    <2>4. s[q].m = 2
      BY <2>2, <2>3
    <2>5. q \in v + 1..Len(s) /\ Skip(s, q, 1, Narrow) = ItemAt(s, v, (i + 1) + 1)
          /\ ItemAt(s, v, (i + 1) + 1) # 0
      BY <1>2, <2>2, <2>3
    <2>6. q \in 1..Len(s) /\ q + 1 = v + ((i + 1) + 1)
      BY <1>1, <2>5
    <2> HIDE DEF q
    <2>7. Skip(s, q, 1, Narrow) = q + 1
      BY <2>4, <2>5, <2>6, SkipString
    <2> QED BY <2>5, <2>6, <2>7
  <1>6. \A i \in Nat : i \in P
    <2> HIDE DEF P
    <2> QED BY <1>4, <1>5, UpInduction
  <1> TAKE i \in 1..k + 1
  <1>7. i - 1 \in Nat /\ i - 1 <= k /\ (i - 1) + 1 = i
    BY <1>3
  <1>8. ItemAt(s, v, (i - 1) + 1) = v + ((i - 1) + 1)
    BY <1>6, <1>7
  <1> QED BY <1>7, <1>8

\* No GUID is listed behind the one that matches.
LastInList(s, v, guid) ==
    s[v].m = 4 => \A i \in 1..s[v].n : i < s[v].n => s[ItemAt(s, v, i)].text # guid

\* The guid at v is passed, to the place behind it, exactly when it names the device.
LEMMA GuidEnd ==
    ASSUME NEW s, IsStream(s), NEW v \in 1..Len(s), Skip(s, v, 1, Narrow) # 0, NEW guid,
           LastInList(s, v, guid)
    PROVE  ScopeGuidEnd(s, v, guid)
           = IF NamesDevice(s, v, guid) THEN Skip(s, v, 1, Narrow) ELSE 0
  <1> DEFINE n == s[v].n
             hits == {i \in v + 1..v + n :
                        /\ i <= Len(s) /\ s[i].text = guid
                        /\ \A k \in v + 1..i : s[k].m = 2 /\ s[k].w \in Narrow
                        /\ \A k \in v + 1..i - 1 : s[k].text # guid}
  <1>1. Len(s) \in Nat /\ DOMAIN s = 1..Len(s) /\ n \in Nat
    BY StreamType
  <1>2. s[v].w \in Narrow /\ v \in DOMAIN s
    BY <1>1, ItemsInside
  <1>3. CASE s[v].m = 2
    <2>1. Skip(s, v, 1, Narrow) = v + 1
      BY <1>3, SkipString
    <2>2. NamesDevice(s, v, guid) <=> s[v].text = guid
      BY <1>3 DEF NamesDevice
    <2>3. ScopeGuidEnd(s, v, guid) = IF s[v].text = guid THEN v + 1 ELSE 0
      BY <1>2, <1>3 DEF ScopeGuidEnd
    <2> QED BY <2>1, <2>2, <2>3
  <1>4. CASE s[v].m = 4
    <2>1. Children(s[v]) = n
      BY <1>4, ChildrenOf
    <2>2. /\ ItemAt(s, v, n + 1) = Skip(s, v, 1, Narrow)
          /\ \A i \in 1..n : /\ ItemAt(s, v, i) \in v + 1..Len(s)
                             /\ Skip(s, ItemAt(s, v, i), 1, Narrow) = ItemAt(s, v, i + 1)
                             /\ ItemAt(s, v, i + 1) # 0
      BY <2>1, ItemsInside
    <2>3. \A i \in 1..n : i < n => s[ItemAt(s, v, i)].text # guid
      BY <1>4 DEF LastInList
    <2>4. ScopeGuidEnd(s, v, guid) = IF hits = {} THEN 0 ELSE (CHOOSE i \in hits : TRUE) + 1
      BY <1>2, <1>4 DEF ScopeGuidEnd
    <2>5. NamesDevice(s, v, guid) <=> /\ \A k \in 1..n : s[ItemAt(s, v, k)].m = 2
                                      /\ \E k \in 1..n : s[ItemAt(s, v, k)].text = guid
      BY <1>4 DEF NamesDevice
    <2>6. ASSUME NEW i \in hits
          PROVE  i = v + n /\ NamesDevice(s, v, guid)
      <3> DEFINE k == i - v
      <3>1. /\ i \in v + 1..v + n /\ s[i].text = guid
            /\ \A q \in v + 1..i : s[q].m = 2
        OBVIOUS
      <3> HIDE DEF hits
      <3>2. k \in 1..n /\ k \in 0..n /\ v + k = i /\ k \in 1..k + 1
        BY <1>1, <3>1
      <3>3. \A j \in 1..k : v + j \in v + 1..i
        BY <1>1, <3>1
      <3>4. \A j \in 1..k : s[v + j].m = 2
        BY <3>1, <3>3
      <3> HIDE DEF k
      <3>5. \A j \in 1..k + 1 : ItemAt(s, v, j) = v + j
        <4> k \in 0..Children(s[v])
          BY <2>1, <3>2
        <4> QED BY <3>4, FlatItems
      <3>6. s[ItemAt(s, v, k)].text = guid
        BY <3>1, <3>2, <3>5
      <3>7. ~(k < n)
        BY <2>3, <3>2, <3>6
      <3>8. k = n
        BY <1>1, <3>2, <3>7
      <3>9. \A j \in 1..n : s[ItemAt(s, v, j)].m = 2
        <4> \A j \in 1..n : j \in 1..k + 1 /\ j \in 1..k
          BY <1>1, <3>8
        <4> QED BY <3>4, <3>5
      <3> QED BY <2>5, <3>2, <3>6, <3>8, <3>9
    <2>7. ASSUME NamesDevice(s, v, guid)
          PROVE  v + n \in hits /\ Skip(s, v, 1, Narrow) = (v + n) + 1
      <3>1. \A i \in 1..n + 1 : ItemAt(s, v, i) = v + i
        <4>1. n \in 0..Children(s[v])
          BY <1>1, <2>1
        <4>2. \A i \in 1..n : s[ItemAt(s, v, i)].m = 2
          BY <2>5, <2>7
        <4> QED BY <4>1, <4>2, FlatItems
      <3>2. PICK k \in 1..n : s[ItemAt(s, v, k)].text = guid
        BY <2>5, <2>7
      <3>3. k = n
        BY <1>1, <2>3, <3>2
      <3>4. \A i \in 1..n : i \in 1..n + 1
        BY <1>1
      <3>5. \A i \in 1..n : v + i \in 1..Len(s) /\ s[v + i].m = 2 /\ s[v + i].w \in Narrow
        <4> TAKE i \in 1..n
        <4>1. ItemAt(s, v, i) = v + i
          BY <3>1, <3>4
        <4>2. v + i \in v + 1..Len(s) /\ Skip(s, v + i, 1, Narrow) # 0 /\ s[v + i].m = 2
          BY <2>2, <2>5, <2>7, <4>1
        <4>3. v + i \in 1..Len(s)
          BY <1>1, <4>2
        <4>4. s[v + i].w \in Narrow
          BY <4>2, <4>3, SkipString
        <4> QED BY <4>2, <4>3, <4>4
      <3>6. ASSUME NEW q \in v + 1..v + n
            PROVE  q \in 1..Len(s) /\ s[q].m = 2 /\ s[q].w \in Narrow
        <4> q - v \in 1..n /\ v + (q - v) = q
          BY <1>1
        <4> QED BY <3>5
      <3>7. ASSUME NEW q \in v + 1..(v + n) - 1 PROVE s[q].text # guid
        <4>1. q - v \in 1..n /\ q - v < n /\ v + (q - v) = q
          BY <1>1
        <4>2. ItemAt(s, v, q - v) = q
          BY <3>1, <3>4, <4>1
        <4> QED BY <2>3, <4>1, <4>2
      <3>8. s[v + n].text = guid /\ v + n \in v + 1..v + n
        <4>1. n \in 1..n + 1 /\ v + n \in v + 1..v + n
          BY <1>1, <3>3
        <4>2. ItemAt(s, v, n) = v + n
          BY <3>1, <4>1
        <4> QED BY <3>2, <3>3, <4>1, <4>2
      <3>9. v + n <= Len(s)
        BY <1>1, <3>6, <3>8
      <3>10. Skip(s, v, 1, Narrow) = (v + n) + 1
        <4> n + 1 \in 1..n + 1 /\ v + (n + 1) = (v + n) + 1
          BY <1>1
        <4> QED BY <2>2, <3>1
      <3> QED BY <3>6, <3>7, <3>8, <3>9, <3>10
    <2> HIDE DEF hits
    <2>8. CASE NamesDevice(s, v, guid)
      <3>1. hits # {} /\ \A i \in hits : i = v + n
        BY <2>6, <2>7, <2>8
      <3>2. (CHOOSE i \in hits : TRUE) = v + n
        BY <3>1
      <3> QED BY <2>4, <2>7, <2>8, <3>1, <3>2
    <2>9. CASE ~NamesDevice(s, v, guid)
      <3>1. hits = {}
        BY <2>6, <2>9
      <3> QED BY <2>4, <2>9, <3>1
    <2> QED BY <2>8, <2>9
  <1>5. CASE s[v].m # 2 /\ s[v].m # 4
    <2>1. ~NamesDevice(s, v, guid)
      BY <1>5 DEF NamesDevice
    <2>2. ScopeGuidEnd(s, v, guid) = 0
      BY <1>2, <1>5 DEF ScopeGuidEnd
    <2> QED BY <2>1, <2>2
  <1> QED BY <1>3, <1>4, <1>5

\* The j-th entry of the map at pos: where its key is, its value, and the next entry.
EntryAt(s, pos, j) ==
    LET key == ItemAt(s, pos, 2 * j - 1)
        value == ItemAt(s, pos, 2 * j)
        next == ItemAt(s, pos, 2 * j + 1)
    IN  /\ key \in pos + 1..Len(s) /\ value \in pos + 1..Len(s) /\ next \in pos + 1..Len(s) + 1
        /\ Skip(s, key, 1, Narrow) = value /\ Skip(s, value, 1, Narrow) = next
        /\ Skip(s, key, 2, Narrow) = next
        /\ s[key].m = 3 => value = key + 1 /\ s[key].w \in Narrow

\* The entries of a map follow one another.
LEMMA EntriesInside ==
    ASSUME NEW s, IsStream(s), NEW pos \in 1..Len(s), Skip(s, pos, 1, Narrow) # 0, s[pos].m = 5
    PROVE  /\ \A j \in 1..s[pos].n : EntryAt(s, pos, j)
           /\ ItemAt(s, pos, 1) = pos + 1
           /\ ItemAt(s, pos, 2 * s[pos].n + 1) = Skip(s, pos, 1, Narrow)
  <1> DEFINE n == s[pos].n
  <1>1. Len(s) \in Nat /\ n \in Nat /\ Children(s[pos]) = 2 * n
    BY StreamType, ChildrenOf
  <1>2. /\ ItemAt(s, pos, 1) = pos + 1
        /\ ItemAt(s, pos, 2 * n + 1) = Skip(s, pos, 1, Narrow)
        /\ \A k \in 1..2 * n : /\ ItemAt(s, pos, k) \in pos + 1..Len(s)
                               /\ Skip(s, ItemAt(s, pos, k), 1, Narrow) = ItemAt(s, pos, k + 1)
                               /\ ItemAt(s, pos, k + 1) # 0
    <2> HIDE DEF n
    <2> QED BY <1>1, ItemsInside
  <1>3. ASSUME NEW j \in 1..n PROVE EntryAt(s, pos, j)
    <2> HIDE DEF n
    <2> DEFINE key == ItemAt(s, pos, 2 * j - 1)
               value == ItemAt(s, pos, 2 * j)
               next == ItemAt(s, pos, 2 * j + 1)
    <2>1. 2 * j - 1 \in 1..2 * n /\ 2 * j \in 1..2 * n /\ (2 * j - 1) + 1 = 2 * j
      BY <1>1
    <2>2. /\ key \in pos + 1..Len(s) /\ value \in pos + 1..Len(s)
          /\ Skip(s, key, 1, Narrow) = value /\ Skip(s, value, 1, Narrow) = next /\ next # 0
      BY <1>2, <2>1
    <2> HIDE DEF key, value, next
    <2>3. key \in 1..Len(s) + 1 /\ value \in 1..Len(s) + 1 /\ key \in 1..Len(s) /\ value # 0
      BY <1>1, <2>2
    <2>4. next \in pos + 1..Len(s) + 1
      <3> next \in {0} \cup value..Len(s) + 1
        BY <2>2, <2>3, SkipRange
      <3> QED BY <1>1, <2>2
    <2>5. Skip(s, key, 2, Narrow) = next
      <3>1. Skip(s, key, 1 + 1, Narrow) =
              IF Skip(s, key, 1, Narrow) = 0 THEN 0
              ELSE Skip(s, Skip(s, key, 1, Narrow), 1, Narrow)
        BY <2>3, SkipCompose
      <3> QED BY <2>2, <2>3, <3>1
    <2>6. s[key].m = 3 => value = key + 1 /\ s[key].w \in Narrow
      BY <2>2, <2>3, SkipString
    <2> QED BY <2>2, <2>4, <2>5, <2>6 DEF EntryAt, key, value, next
  <1> QED BY <1>2, <1>3

\* The key and the value of an entry can be read, and behind an integer is its value.
LEMMA EntryHeads ==
    ASSUME NEW s, IsStream(s), NEW j, EntryAt(s, 1, j)
    PROVE  LET key == ItemAt(s, 1, 2 * j - 1)
               value == ItemAt(s, 1, 2 * j)
           IN  /\ key \in DOMAIN s /\ s[key].w \in Narrow
               /\ value \in DOMAIN s /\ s[value].w \in Narrow
               /\ s[key].m \in {0, 1} => value = key + 1
  <1> DEFINE key == ItemAt(s, 1, 2 * j - 1)
             value == ItemAt(s, 1, 2 * j)
             next == ItemAt(s, 1, 2 * j + 1)
  <1>1. Len(s) \in Nat /\ DOMAIN s = 1..Len(s)
    BY StreamType
  <1>2. /\ key \in 1 + 1..Len(s) /\ value \in 1 + 1..Len(s) /\ next \in 1 + 1..Len(s) + 1
        /\ Skip(s, key, 1, Narrow) = value /\ Skip(s, value, 1, Narrow) = next
    BY DEF EntryAt
  <1> HIDE DEF key, value, next
  <1>3. /\ key \in 1..Len(s) /\ value \in 1..Len(s) /\ value # 0 /\ next # 0
        /\ key \in 1..Len(s) + 1 /\ value \in 1..Len(s) + 1
    BY <1>1, <1>2
  <1>4. s[key].w \in Narrow /\ s[value].w \in Narrow
    BY <1>2, <1>3, SkipStuck
  <1>5. s[key].m \in {0, 1} => value = key + 1
    BY <1>2, <1>3, SkipString
  <1> QED BY <1>1, <1>3, <1>4, <1>5 DEF key, value

\* The walk over the entries of a header stays inside it.
LEMMA PastEntryType ==
    ASSUME NEW s, IsStream(s)
    PROVE  PastEntry(s) \in [0..Len(s) + 1 -> 0..Len(s) + 1]
  <1>1. Len(s) \in Nat /\ DOMAIN s = 1..Len(s)
    BY StreamType
  <1> SUFFICES ASSUME NEW p \in 0..Len(s) + 1
               PROVE  (IF p \notin DOMAIN s THEN 0 ELSE Skip(s, p, 2, Narrow)) \in 0..Len(s) + 1
    BY DEF PastEntry
  <1>2. ASSUME p \in DOMAIN s PROVE Skip(s, p, 2, Narrow) \in 0..Len(s) + 1
    <2>1. p \in 1..Len(s) + 1
      BY <1>1, <1>2
    <2>2. Skip(s, p, 2, Narrow) \in {0} \cup p..Len(s) + 1
      BY <2>1, SkipRange
    <2> QED BY <1>1, <2>1, <2>2
  <1> QED BY <1>1, <1>2

\* So does a guid that is passed.
LEMMA GuidEndType ==
    ASSUME NEW s, IsStream(s), NEW p \in 1..Len(s) + 1, NEW guid
    PROVE  ScopeGuidEnd(s, p, guid) \in 0..Len(s) + 1
  <1>1. Len(s) \in Nat /\ DOMAIN s = 1..Len(s)
    BY StreamType
  <1> DEFINE hits == {i \in p + 1..p + s[p].n :
                        /\ i <= Len(s) /\ s[i].text = guid
                        /\ \A k \in p + 1..i : s[k].m = 2 /\ s[k].w \in Narrow
                        /\ \A k \in p + 1..i - 1 : s[k].text # guid}
  <1>2. CASE p \in DOMAIN s
    <2>1. s[p].n \in Nat
      BY <1>1, <1>2, StreamType
    <2>2. \A i \in hits : i \in 1..Len(s)
      BY <1>1, <2>1
    <2> HIDE DEF hits
    <2>3. hits # {} => (CHOOSE i \in hits : TRUE) \in hits
      BY Zenon
    <2>4. (IF hits = {} THEN 0 ELSE (CHOOSE i \in hits : TRUE) + 1) \in 0..Len(s) + 1
      BY <1>1, <2>2, <2>3
    <2>5. ScopeGuidEnd(s, p, guid)
          \in {0, p + 1, IF hits = {} THEN 0 ELSE (CHOOSE i \in hits : TRUE) + 1}
      BY <1>2 DEF ScopeGuidEnd, hits
    <2>6. p + 1 \in 0..Len(s) + 1 /\ 0 \in 0..Len(s) + 1
      BY <1>1, <1>2
    <2> QED BY <2>4, <2>5, <2>6
  <1>3. CASE p \notin DOMAIN s
    BY <1>1, <1>3 DEF ScopeGuidEnd
  <1> QED BY <1>2, <1>3

\* And the walk over the constraints of a scope.
LEMMA PastConstraintType ==
    ASSUME NEW s, IsStream(s), NEW guid
    PROVE  PastConstraint(s, guid) \in [0..Len(s) + 1 -> 0..Len(s) + 1]
  <1>1. Len(s) \in Nat /\ DOMAIN s = 1..Len(s)
    BY StreamType
  <1> SUFFICES ASSUME NEW p \in 0..Len(s) + 1
               PROVE  (IF p \notin DOMAIN s THEN 0
                       ELSE IF s[p].m # 3 THEN Skip(s, p, 2, Narrow)
                       ELSE IF s[p].w \in Narrow /\ s[p].text = "guid"
                         THEN ScopeGuidEnd(s, p + 1, guid)
                       ELSE 0) \in 0..Len(s) + 1
    BY DEF PastConstraint
  <1>2. ASSUME p \in DOMAIN s
        PROVE  /\ Skip(s, p, 2, Narrow) \in 0..Len(s) + 1
               /\ ScopeGuidEnd(s, p + 1, guid) \in 0..Len(s) + 1
    <2>1. p \in 1..Len(s) + 1 /\ p + 1 \in 1..Len(s) + 1
      BY <1>1, <1>2
    <2>2. Skip(s, p, 2, Narrow) \in {0} \cup p..Len(s) + 1
      BY <2>1, SkipRange
    <2>3. ScopeGuidEnd(s, p + 1, guid) \in 0..Len(s) + 1
      BY <2>1, GuidEndType
    <2> QED BY <1>1, <2>1, <2>2, <2>3
  <1> QED BY <1>1, <1>2

\* A scope that evaluate_bmo_scope decides as its signer meant it: text for keys, and no GUID
\* listed behind the device's own.
IsDecidable(s, v, guid) ==
    s[v].m = 5 => \A j \in 1..s[v].n : /\ s[ItemAt(s, v, 2 * j - 1)].m = 3
                                       /\ LastInList(s, ItemAt(s, v, 2 * j), guid)

\* The j-th constraint is one that lets the artifact pass.
Holds(s, v, j, guid) ==
    /\ s[ItemAt(s, v, 2 * j - 1)].m = 3 /\ s[ItemAt(s, v, 2 * j - 1)].text = "guid"
    /\ NamesDevice(s, ItemAt(s, v, 2 * j), guid)

\* One round of the loop over the constraints.
LEMMA ConstraintRound ==
    ASSUME NEW s, IsStream(s), s # <<>>, Skip(s, 1, 1, Narrow) # 0, s[1].m = 5, NEW guid,
           IsDecidable(s, 1, guid), NEW j \in 1..s[1].n
    PROVE  PastConstraint(s, guid)[ItemAt(s, 1, 2 * j - 1)]
           = IF Holds(s, 1, j, guid) THEN ItemAt(s, 1, 2 * j + 1) ELSE 0
  <1> DEFINE key == ItemAt(s, 1, 2 * j - 1)
             value == ItemAt(s, 1, 2 * j)
             next == ItemAt(s, 1, 2 * j + 1)
  <1>1. Len(s) \in Nat /\ DOMAIN s = 1..Len(s) /\ 1 \in 1..Len(s)
    BY StreamType
  <1>2. EntryAt(s, 1, j)
    BY <1>1, EntriesInside
  <1>3. /\ key \in 1 + 1..Len(s) /\ value \in 1 + 1..Len(s) /\ next \in 1 + 1..Len(s) + 1
        /\ Skip(s, value, 1, Narrow) = next
        /\ s[key].m = 3 => value = key + 1 /\ s[key].w \in Narrow
    BY <1>2 DEF EntryAt
  <1>4. s[key].m = 3 /\ LastInList(s, value, guid)
    BY DEF IsDecidable
  <1>5. Holds(s, 1, j, guid) <=> s[key].text = "guid" /\ NamesDevice(s, value, guid)
    BY <1>4 DEF Holds
  <1> HIDE DEF key, value, next
  <1>6. /\ key \in 0..Len(s) + 1 /\ key \in DOMAIN s /\ value \in 1..Len(s) /\ next # 0
        /\ value = key + 1 /\ s[key].w \in Narrow
    BY <1>1, <1>3, <1>4
  <1>7. ScopeGuidEnd(s, value, guid)
        = IF NamesDevice(s, value, guid) THEN Skip(s, value, 1, Narrow) ELSE 0
    BY <1>3, <1>4, <1>6, GuidEnd
  <1>8. PastConstraint(s, guid)[key]
        = IF s[key].text = "guid" THEN ScopeGuidEnd(s, value, guid) ELSE 0
    BY <1>4, <1>6 DEF PastConstraint
  <1> QED BY <1>3, <1>5, <1>7, <1>8 DEF key, next

\* The loop gets through the constraints exactly when all of them let the artifact pass.
LEMMA ConstraintRounds ==
    ASSUME NEW s, IsStream(s), s # <<>>, Skip(s, 1, 1, Narrow) # 0, s[1].m = 5, NEW guid,
           IsDecidable(s, 1, guid)
    PROVE  Rounds(PastConstraint(s, guid), 2)[s[1].n] # 0
           <=> \A j \in 1..s[1].n : Holds(s, 1, j, guid)
  <1> DEFINE n == s[1].n
             At == Rounds(PastConstraint(s, guid), 2)
             P == {i \in Nat : i <= n =>
                     At[i] = IF \A j \in 1..i : Holds(s, 1, j, guid)
                             THEN ItemAt(s, 1, 2 * i + 1) ELSE 0}
  <1>1. Len(s) \in Nat /\ n \in Nat /\ 1 \in 1..Len(s) /\ 2 \in 0..Len(s) + 1
        /\ 0 \in 0..Len(s) + 1 /\ DOMAIN s = 1..Len(s)
    BY StreamType
  <1>2. IsWalk(PastConstraint(s, guid), 2, 0..Len(s) + 1)
    BY <1>1, PastConstraintType, RoundsWalk
  <1>3. At[0] = 2 /\ \A i \in Nat : At[i + 1] = PastConstraint(s, guid)[At[i]]
    BY <1>2 DEF IsWalk
  <1>4. PastConstraint(s, guid)[0] = 0
    BY <1>1 DEF PastConstraint
  <1>5. ItemAt(s, 1, 1) = 2 /\ ItemAt(s, 1, 2 * n + 1) # 0
    <2>1. /\ ItemAt(s, 1, 1) = 1 + 1
          /\ ItemAt(s, 1, 2 * n + 1) = Skip(s, 1, 1, Narrow)
      BY <1>1, EntriesInside
    <2> QED BY <2>1
  <1>6. \A j \in 1..n : PastConstraint(s, guid)[ItemAt(s, 1, 2 * j - 1)]
                        = IF Holds(s, 1, j, guid) THEN ItemAt(s, 1, 2 * j + 1) ELSE 0
    BY ConstraintRound
  <1> HIDE DEF n, At
  <1>7. 0 \in P
    <2>1. 2 * 0 + 1 = 1 /\ \A j \in 1..0 : FALSE
      OBVIOUS
    <2>2. At[0] = IF \A j \in 1..0 : Holds(s, 1, j, guid) THEN ItemAt(s, 1, 2 * 0 + 1) ELSE 0
      BY <1>3, <1>5, <2>1
    <2> QED BY <2>2
  <1>8. ASSUME NEW i \in Nat, i \in P PROVE i + 1 \in P
    <2>1. SUFFICES ASSUME i + 1 <= n
                   PROVE  At[i + 1] = IF \A j \in 1..i + 1 : Holds(s, 1, j, guid)
                                      THEN ItemAt(s, 1, 2 * (i + 1) + 1) ELSE 0
      OBVIOUS
    <2>2. At[i] = IF \A j \in 1..i : Holds(s, 1, j, guid) THEN ItemAt(s, 1, 2 * i + 1) ELSE 0
      BY <1>1, <1>8, <2>1
    <2>3. At[i + 1] = PastConstraint(s, guid)[At[i]]
      BY <1>3
    <2>4. i + 1 \in 1..n /\ 2 * (i + 1) - 1 = 2 * i + 1
      BY <1>1, <2>1
    <2>5. PastConstraint(s, guid)[ItemAt(s, 1, 2 * i + 1)]
          = IF Holds(s, 1, i + 1, guid) THEN ItemAt(s, 1, 2 * (i + 1) + 1) ELSE 0
      BY <1>6, <2>4
    <2>6. (\A j \in 1..i + 1 : Holds(s, 1, j, guid))
          <=> (\A j \in 1..i : Holds(s, 1, j, guid)) /\ Holds(s, 1, i + 1, guid)
      <3> \A j : j \in 1..i + 1 <=> j \in 1..i \/ j = i + 1
        OBVIOUS
      <3> QED OBVIOUS
    <2> QED BY <1>4, <2>2, <2>3, <2>5, <2>6
  <1>9. \A i \in Nat : i \in P
    <2> HIDE DEF P
    <2> QED BY <1>7, <1>8, UpInduction
  <1>10. At[n] = IF \A j \in 1..n : Holds(s, 1, j, guid) THEN ItemAt(s, 1, 2 * n + 1) ELSE 0
    BY <1>1, <1>9
  <1> QED BY <1>5, <1>10 DEF n, At

\* A scope that stands alone in its buffer is decided as its signer meant it.
LEMMA ScopePassesIs ==
    ASSUME NEW s, IsItem(s), NEW guid, IsDecidable(s, 1, guid)
    PROVE  ScopePasses(s, guid) <=> ScopeAllows(s, 1, guid)
  <1>1. IsStream(s) /\ s # <<>> /\ Skip(s, 1, 1, Narrow) # 0 /\ 1 \in 1..Len(s)
    <2>1. IsStream(s) /\ s # <<>> /\ Skip(s, 1, 1, Narrow) = Len(s) + 1
      BY DEF IsItem
    <2> QED BY <2>1, StreamType
  <1>2. s[1].w \in Narrow
    BY <1>1, ItemsInside
  <1>3. CASE s[1].m = 5
    <2>1. ScopeAllows(s, 1, guid) <=> \A j \in 1..s[1].n : Holds(s, 1, j, guid)
      BY <1>3 DEF ScopeAllows, Holds
    <2>2. ScopePasses(s, guid) <=> Rounds(PastConstraint(s, guid), 2)[s[1].n] # 0
      BY <1>1, <1>2, <1>3 DEF ScopePasses
    <2>3. Rounds(PastConstraint(s, guid), 2)[s[1].n] # 0
          <=> \A j \in 1..s[1].n : Holds(s, 1, j, guid)
      BY <1>1, <1>3, ConstraintRounds
    <2> QED BY <2>1, <2>2, <2>3
  <1>4. CASE s[1].m # 5
    BY <1>1, <1>4 DEF ScopeAllows, ScopePasses
  <1> QED BY <1>3, <1>4

\* What a guid says does not depend on the buffer around it.
LEMMA GuidInside ==
    ASSUME NEW s, NEW t, NEW o, Inside(s, t, o), NEW v \in 1..Len(s), Skip(s, v, 1, Narrow) # 0,
           NEW guid
    PROVE  /\ NamesDevice(s, v, guid) <=> NamesDevice(t, o + v, guid)
           /\ LastInList(s, v, guid) <=> LastInList(t, o + v, guid)
  <1>1. IsStream(s) /\ IsStream(t) /\ \A p \in 1..Len(s) : t[o + p] = s[p]
    BY DEF Inside
  <1>2. /\ t[o + v] = s[v]
        /\ \A k \in 1..Children(s[v]) : ItemAt(t, o + v, k) = o + ItemAt(s, v, k)
    BY ItemAtInside
  <1>3. \A k \in 1..Children(s[v]) : ItemAt(s, v, k) \in 1..Len(s)
    <2>1. Len(s) \in Nat
      BY <1>1, StreamType
    <2>2. \A k \in 1..Children(s[v]) : ItemAt(s, v, k) \in v + 1..Len(s)
      BY <1>1, ItemsInside
    <2>3. \A q \in v + 1..Len(s) : q \in 1..Len(s)
      BY <2>1
    <2> QED BY <2>2, <2>3
  <1>4. \A k \in 1..Children(s[v]) : t[ItemAt(t, o + v, k)] = s[ItemAt(s, v, k)]
    BY <1>1, <1>2, <1>3
  <1>5. s[v].m = 4 => \A k \in 1..s[v].n : t[ItemAt(t, o + v, k)] = s[ItemAt(s, v, k)]
    <2> s[v].m = 4 => Children(s[v]) = s[v].n
      BY ChildrenOf
    <2> QED BY <1>4
  <1>6. NamesDevice(s, v, guid) <=> NamesDevice(t, o + v, guid)
    BY <1>2, <1>5 DEF NamesDevice
  <1>7. LastInList(s, v, guid) <=> LastInList(t, o + v, guid)
    BY <1>2, <1>5 DEF LastInList
  <1> QED BY <1>6, <1>7

\* Nor does what a scope says.
LEMMA ScopeInside ==
    ASSUME NEW s, NEW t, NEW o, Inside(s, t, o), IsItem(s), NEW guid
    PROVE  /\ ScopeAllows(s, 1, guid) <=> ScopeAllows(t, o + 1, guid)
           /\ IsDecidable(s, 1, guid) <=> IsDecidable(t, o + 1, guid)
  <1>1. IsStream(s) /\ Len(s) \in Nat /\ 1 \in 1..Len(s) /\ Skip(s, 1, 1, Narrow) # 0
    <2>1. IsStream(s) /\ s # <<>> /\ Skip(s, 1, 1, Narrow) = Len(s) + 1
      BY DEF IsItem
    <2> QED BY <2>1, StreamType
  <1>2. /\ t[o + 1] = s[1]
        /\ \A k \in 1..Children(s[1]) : ItemAt(t, o + 1, k) = o + ItemAt(s, 1, k)
    BY <1>1, ItemAtInside
  <1>3. CASE s[1].m = 5
    <2> DEFINE Ks(j) == ItemAt(s, 1, 2 * j - 1)
               Vs(j) == ItemAt(s, 1, 2 * j)
               Kt(j) == ItemAt(t, o + 1, 2 * j - 1)
               Vt(j) == ItemAt(t, o + 1, 2 * j)
    <2>1. \A j \in 1..s[1].n : EntryAt(s, 1, j)
      BY <1>1, <1>3, EntriesInside
    <2>2. \A j \in 1..s[1].n : /\ Ks(j) \in 1..Len(s) /\ Vs(j) \in 1..Len(s)
                               /\ Skip(s, Vs(j), 1, Narrow) # 0
      <3> TAKE j \in 1..s[1].n
      <3>1. /\ Ks(j) \in 1 + 1..Len(s) /\ Vs(j) \in 1 + 1..Len(s)
            /\ Skip(s, Vs(j), 1, Narrow) \in 1 + 1..Len(s) + 1
        BY <2>1 DEF EntryAt
      <3> HIDE DEF Ks, Vs
      <3> QED BY <1>1, <3>1
    <2>3. \A j \in 1..s[1].n : Kt(j) = o + Ks(j) /\ Vt(j) = o + Vs(j)
      <3>1. s[1].n \in Nat /\ Children(s[1]) = 2 * s[1].n
        BY <1>1, <1>3, StreamType, ChildrenOf
      <3>2. \A j \in 1..s[1].n : 2 * j - 1 \in 1..2 * s[1].n /\ 2 * j \in 1..2 * s[1].n
        BY <3>1
      <3> QED BY <1>2, <3>1, <3>2
    <2>4. \A p \in 1..Len(s) : t[o + p] = s[p]
      BY DEF Inside
    <2> HIDE DEF Ks, Vs, Kt, Vt
    <2>5. \A j \in 1..s[1].n : /\ t[Kt(j)] = s[Ks(j)]
                               /\ NamesDevice(s, Vs(j), guid) <=> NamesDevice(t, Vt(j), guid)
                               /\ LastInList(s, Vs(j), guid) <=> LastInList(t, Vt(j), guid)
      <3> TAKE j \in 1..s[1].n
      <3>1. t[Kt(j)] = s[Ks(j)]
        BY <2>2, <2>3, <2>4
      <3>2. /\ NamesDevice(s, Vs(j), guid) <=> NamesDevice(t, o + Vs(j), guid)
            /\ LastInList(s, Vs(j), guid) <=> LastInList(t, o + Vs(j), guid)
        BY <2>2, GuidInside
      <3> QED BY <2>3, <3>1, <3>2
    <2>6. ScopeAllows(s, 1, guid)
          <=> \A j \in 1..s[1].n : /\ s[Ks(j)].m = 3 /\ s[Ks(j)].text = "guid"
                                   /\ NamesDevice(s, Vs(j), guid)
      BY <1>3 DEF ScopeAllows, Ks, Vs
    <2>7. ScopeAllows(t, o + 1, guid)
          <=> \A j \in 1..s[1].n : /\ t[Kt(j)].m = 3 /\ t[Kt(j)].text = "guid"
                                   /\ NamesDevice(t, Vt(j), guid)
      BY <1>2, <1>3 DEF ScopeAllows, Kt, Vt
    <2>8. IsDecidable(s, 1, guid)
          <=> \A j \in 1..s[1].n : s[Ks(j)].m = 3 /\ LastInList(s, Vs(j), guid)
      BY <1>3 DEF IsDecidable, Ks, Vs
    <2>9. IsDecidable(t, o + 1, guid)
          <=> \A j \in 1..s[1].n : t[Kt(j)].m = 3 /\ LastInList(t, Vt(j), guid)
      BY <1>2, <1>3 DEF IsDecidable, Kt, Vt
    <2>10. ScopeAllows(s, 1, guid) <=> ScopeAllows(t, o + 1, guid)
      BY <2>5, <2>6, <2>7
    <2>11. IsDecidable(s, 1, guid) <=> IsDecidable(t, o + 1, guid)
      BY <2>5, <2>8, <2>9
    <2> QED BY <2>10, <2>11
  <1>4. CASE s[1].m # 5
    BY <1>2, <1>4 DEF ScopeAllows, IsDecidable
  <1> QED BY <1>3, <1>4

\* What is cut out of a buffer from the beginning of an item to its end is an item.
LEMMA CutOut ==
    ASSUME NEW h, IsStream(h), NEW v \in 1..Len(h), Skip(h, v, 1, Narrow) # 0
    PROVE  LET s == SubSeq(h, v, Skip(h, v, 1, Narrow) - 1)
           IN  IsItem(s) /\ Inside(s, h, v - 1)
  <1> DEFINE e == Skip(h, v, 1, Narrow)
             s == SubSeq(h, v, e - 1)
             S == {h[p] : p \in DOMAIN h}
  <1>1. Len(h) \in Nat /\ h \in Seq(S) /\ \A p \in 1..Len(h) : h[p].n \in Nat
    BY StreamType DEF IsStream
  <1>2. e \in v + 1..Len(h) + 1
    <2>1. v \in 1..Len(h) + 1
      BY <1>1
    <2>2. e \in {0} \cup v..Len(h) + 1 /\ e # v
      BY <2>1, SkipRange
    <2> HIDE DEF e
    <2> QED BY <1>1, <2>2 DEF e
  <1> HIDE DEF e, S
  <1>3. /\ s \in Seq(S) /\ Len(s) = e - v
        /\ \A i \in 1..e - v : s[i] = h[v + i - 1]
    <2>1. v \in 1..Len(h) + 1 /\ e - 1 \in v - 1..Len(h)
      BY <1>1, <1>2
    <2>2. v \in 1..Len(h) /\ e - 1 \in v..Len(h) /\ (e - 1) - v + 1 = e - v
      BY <1>1, <1>2
    <2> QED BY <1>1, <2>1, <2>2, SubSeqProperties
  <1> HIDE DEF s
  <1>4. IsStream(s)
    <2> \A p \in 1..Len(s) : s[p].n \in Nat
      <3> TAKE p \in 1..Len(s)
      <3>1. p \in 1..e - v /\ v + p - 1 \in 1..Len(h)
        BY <1>1, <1>2, <1>3
      <3> QED BY <1>1, <1>3, <3>1
    <2> QED BY <1>3, StreamOf
  <1>5. Inside(s, h, v - 1)
    <2>1. v - 1 \in Nat /\ (v - 1) + Len(s) <= Len(h)
      BY <1>1, <1>2, <1>3
    <2>2. \A p \in 1..Len(s) : h[(v - 1) + p] = s[p]
      <3> TAKE p \in 1..Len(s)
      <3>1. p \in 1..e - v /\ v + p - 1 = (v - 1) + p
        BY <1>1, <1>2, <1>3
      <3> QED BY <1>3, <3>1
    <2> QED BY <1>4, <2>1, <2>2 DEF Inside
  <1>6. s # <<>> /\ 1 \in 1..Len(s) + 1 /\ Len(s) \in Nat
    BY <1>2, <1>3
  <1>7. Skip(s, 1, 1, Narrow) = Len(s) + 1
    <2> DEFINE o == v - 1
    <2>1. o + 1 = v /\ o + Len(s) + 1 = e /\ o \in Nat /\ e \in 1..e
      BY <1>2, <1>3
    <2>2. Inside(s, h, o)
      BY <1>5
    <2> HIDE DEF o
    <2>3. Skip(h, o + 1, 1, Narrow) = e
      BY <2>1 DEF e
    <2>4. Skip(s, 1, 1, Narrow) # 0
      BY <1>6, <2>1, <2>2, <2>3, SkipWithin
    <2>5. Skip(h, o + 1, 1, Narrow) = o + Skip(s, 1, 1, Narrow)
      BY <1>6, <2>2, <2>4, SkipInside
    <2>6. Skip(s, 1, 1, Narrow) \in Nat
      <3> Skip(s, 1, 1, Narrow) \in {0} \cup 1..Len(s) + 1
        BY <1>4, <1>6, SkipRange
      <3> QED BY <1>6
    <2> QED BY <1>6, <2>1, <2>3, <2>5, <2>6
  <1>8. IsItem(s)
    BY <1>4, <1>6, <1>7 DEF IsItem
  <1> QED BY <1>5, <1>8 DEF s, e

\* The loop over the entries of a header finds them where they begin.
LEMMA EntryRounds ==
    ASSUME NEW h, IsItem(h), h[1].m = 5
    PROVE  \A i \in 0..h[1].n : Rounds(PastEntry(h), 2)[i] = ItemAt(h, 1, 2 * i + 1)
  <1> DEFINE n == h[1].n
             At == Rounds(PastEntry(h), 2)
             P == {i \in Nat : i <= n => At[i] = ItemAt(h, 1, 2 * i + 1)}
  <1>1. IsStream(h) /\ Skip(h, 1, 1, Narrow) # 0 /\ Len(h) \in Nat /\ n \in Nat
        /\ 1 \in 1..Len(h) /\ 2 \in 0..Len(h) + 1 /\ DOMAIN h = 1..Len(h)
    <2>1. IsStream(h) /\ h # <<>> /\ Skip(h, 1, 1, Narrow) = Len(h) + 1
      BY DEF IsItem
    <2> QED BY <2>1, StreamType
  <1>2. IsWalk(PastEntry(h), 2, 0..Len(h) + 1)
    BY <1>1, PastEntryType, RoundsWalk
  <1>3. At[0] = 2 /\ \A i \in Nat : At[i + 1] = PastEntry(h)[At[i]]
    BY <1>2 DEF IsWalk
  <1>4. ItemAt(h, 1, 1) = 1 + 1 /\ \A j \in 1..n : EntryAt(h, 1, j)
    BY <1>1, EntriesInside
  <1>5. \A j \in 1..n : PastEntry(h)[ItemAt(h, 1, 2 * j - 1)] = ItemAt(h, 1, 2 * j + 1)
    <2> TAKE j \in 1..n
    <2> DEFINE key == ItemAt(h, 1, 2 * j - 1)
    <2>1. key \in 1 + 1..Len(h) /\ Skip(h, key, 2, Narrow) = ItemAt(h, 1, 2 * j + 1)
      BY <1>4 DEF EntryAt
    <2> HIDE DEF key
    <2>2. key \in DOMAIN h /\ key \in 0..Len(h) + 1
      BY <1>1, <2>1
    <2>3. PastEntry(h)[key] = Skip(h, key, 2, Narrow)
      BY <2>2 DEF PastEntry
    <2> QED BY <2>1, <2>3 DEF key
  <1> HIDE DEF n, At
  <1>6. 0 \in P
    <2>1. 2 * 0 + 1 = 1 /\ 1 + 1 = 2
      OBVIOUS
    <2>2. At[0] = ItemAt(h, 1, 2 * 0 + 1)
      BY <1>3, <1>4, <2>1
    <2> QED BY <2>2
  <1>7. ASSUME NEW i \in Nat, i \in P PROVE i + 1 \in P
    <2>1. SUFFICES ASSUME i + 1 <= n PROVE At[i + 1] = ItemAt(h, 1, 2 * (i + 1) + 1)
      OBVIOUS
    <2>2. At[i] = ItemAt(h, 1, 2 * i + 1)
      BY <1>1, <1>7, <2>1
    <2>3. i + 1 \in 1..n /\ 2 * (i + 1) - 1 = 2 * i + 1
      BY <1>1, <2>1
    <2>4. PastEntry(h)[ItemAt(h, 1, 2 * i + 1)] = ItemAt(h, 1, 2 * (i + 1) + 1)
      BY <1>5, <2>3
    <2> QED BY <1>3, <2>2, <2>4
  <1>8. \A i \in Nat : i \in P
    <2> HIDE DEF P
    <2> QED BY <1>6, <1>7, UpInduction
  <1>9. \A i \in 0..n : i \in Nat /\ i <= n
    BY <1>1
  <1>10. \A i \in 0..n : At[i] = ItemAt(h, 1, 2 * i + 1)
    BY <1>8, <1>9
  <1> QED BY <1>10 DEF n, At

\* The k-th entry of a header has that label; and its value, cut out.
Labelled(h, k, label) ==
    h[ItemAt(h, 1, 2 * k - 1)].m = 3 /\ h[ItemAt(h, 1, 2 * k - 1)].text = label
ValueOf(h, k) == SubSeq(h, ItemAt(h, 1, 2 * k), ItemAt(h, 1, 2 * k + 1) - 1)

\* What is extracted is the value of the first entry with the label.
LEMMA ExtractIs ==
    ASSUME NEW h, IsItem(h), h[1].m = 5, NEW label
    PROVE  ExtractTstrKeyedValue(h, label)
           = {ValueOf(h, k) : k \in {i \in 1..h[1].n :
                /\ Labelled(h, i, label) /\ \A j \in 1..i - 1 : ~Labelled(h, j, label)}}
  <1> DEFINE n == h[1].n
             At == Rounds(PastEntry(h), 2)
             IsKey(i) == At[i] # 0 /\ h[At[i - 1]].m = 3 /\ h[At[i - 1]].text = label
             Found == {k \in 1..n : IsKey(k) /\ \A j \in 1..k - 1 : ~IsKey(j)}
             Firsts == {k \in 1..n : Labelled(h, k, label)
                                     /\ \A j \in 1..k - 1 : ~Labelled(h, j, label)}
             Cut(i) == SubSeq(h, At[i - 1] + 1, At[i] - 1)
  <1>1. IsStream(h) /\ h # <<>> /\ Skip(h, 1, 1, Narrow) # 0 /\ Len(h) \in Nat /\ n \in Nat
        /\ 1 \in 1..Len(h)
    <2>1. IsStream(h) /\ h # <<>> /\ Skip(h, 1, 1, Narrow) = Len(h) + 1
      BY DEF IsItem
    <2> QED BY <2>1, StreamType
  <1>2. h[1].w \in Narrow
    BY <1>1, ItemsInside
  <1>3. ExtractTstrKeyedValue(h, label) = {Cut(i) : i \in Found}
    BY <1>1, <1>2 DEF ExtractTstrKeyedValue
  <1>4. \A j \in 1..n : EntryAt(h, 1, j)
    BY <1>1, EntriesInside
  <1>5. \A i \in 0..n : At[i] = ItemAt(h, 1, 2 * i + 1)
    BY EntryRounds
  <1> HIDE DEF n, At
  <1>6. \A i \in 1..n : At[i] = ItemAt(h, 1, 2 * i + 1) /\ At[i - 1] = ItemAt(h, 1, 2 * i - 1)
    <2> TAKE i \in 1..n
    <2> i \in 0..n /\ i - 1 \in 0..n /\ 2 * (i - 1) + 1 = 2 * i - 1
      BY <1>1
    <2> QED BY <1>5
  <1>7. \A i \in 1..n : IsKey(i) <=> Labelled(h, i, label)
    <2> TAKE i \in 1..n
    <2>1. ItemAt(h, 1, 2 * i + 1) \in 1 + 1..Len(h) + 1
      BY <1>4 DEF EntryAt
    <2>2. At[i] # 0
      BY <1>1, <1>6, <2>1
    <2> QED BY <1>6, <2>2 DEF Labelled
  <1>8. \A i \in 1..n : Labelled(h, i, label) => Cut(i) = ValueOf(h, i)
    <2> TAKE i \in 1..n
    <2> HAVE Labelled(h, i, label)
    <2>1. ItemAt(h, 1, 2 * i) = ItemAt(h, 1, 2 * i - 1) + 1
      BY <1>4 DEF EntryAt, Labelled
    <2> QED BY <1>6, <2>1 DEF ValueOf
  <1> HIDE DEF Cut, IsKey
  <1>9. Found = Firsts
    <2>1. \A k \in 1..n : \A j \in 1..k - 1 : j \in 1..n
      BY <1>1
    <2>2. \A k \in 1..n : k \in Found <=> k \in Firsts
      BY <1>7, <2>1
    <2> QED BY <2>2
  <1>10. \A k \in Firsts : Cut(k) = ValueOf(h, k)
    BY <1>8
  <1> HIDE DEF Found, Firsts
  <1>11. {Cut(i) : i \in Found} = {ValueOf(h, k) : k \in Firsts}
    BY <1>9, <1>10
  <1> QED BY <1>3, <1>11 DEF Firsts, n

\* The text under an integer label is found where it is.
LEMMA TextFound ==
    ASSUME NEW h, IsItem(h), h[1].m = 5, NEW label, NEW text
    PROVE  text \in ParseProtectedTstr(h, label) <=> HasText(h, label, text)
  <1> DEFINE n == h[1].n
             At == Rounds(PastEntry(h), 2)
             Key(k) == h[ItemAt(h, 1, 2 * k - 1)]
             Value(k) == h[ItemAt(h, 1, 2 * k)]
             Named(k) == Key(k).m = 0 /\ Key(k).n = label
             IsInt(i) == At[i - 1] \in DOMAIN h /\ h[At[i - 1]].m \in {0, 1} /\ h[At[i - 1]].w \in Narrow
             IsLabel(i) == h[At[i - 1]].m = 0 /\ h[At[i - 1]].n = label
             IsTstr(p) == p \in DOMAIN h /\ h[p].m = 3 /\ h[p].w \in Narrow
             Found == {k \in 1..n : /\ \A j \in 1..k : IsInt(j)
                                    /\ IsLabel(k) /\ \A j \in 1..k - 1 : ~IsLabel(j)
                                    /\ IsTstr(At[k - 1] + 1)}
  <1>1. IsStream(h) /\ h # <<>> /\ Skip(h, 1, 1, Narrow) # 0 /\ Len(h) \in Nat /\ n \in Nat
        /\ 1 \in 1..Len(h) /\ DOMAIN h = 1..Len(h)
    <2>1. IsStream(h) /\ h # <<>> /\ Skip(h, 1, 1, Narrow) = Len(h) + 1
      BY DEF IsItem
    <2> QED BY <2>1, StreamType
  <1>2. h[1].w \in Narrow
    BY <1>1, ItemsInside
  <1>3. ParseProtectedTstr(h, label) = {h[At[i - 1] + 1].text : i \in Found}
    BY <1>1, <1>2 DEF ParseProtectedTstr
  <1>4. HasText(h, label, text) <=>
          \E k \in 1..n : /\ Named(k) /\ Value(k).m = 3 /\ Value(k).text = text
                          /\ \A j \in 1..k - 1 : Key(j).m \in {0, 1} /\ ~Named(j)
    BY DEF HasText
  <1>5. \A j \in 1..n : EntryAt(h, 1, j)
    BY <1>1, EntriesInside
  <1>6. \A i \in 0..n : At[i] = ItemAt(h, 1, 2 * i + 1)
    BY EntryRounds
  <1> HIDE DEF n, At
  <1>7. \A i \in 1..n : At[i - 1] = ItemAt(h, 1, 2 * i - 1)
    <2> TAKE i \in 1..n
    <2> i - 1 \in 0..n /\ 2 * (i - 1) + 1 = 2 * i - 1
      BY <1>1
    <2> QED BY <1>6
  <1> DEFINE Place(k) == ItemAt(h, 1, 2 * k)
             IntKey(k) == Key(k).m \in {0, 1}
             IsText(k) == Value(k).m = 3
  <1>8. ASSUME NEW i \in 1..n
        PROVE  /\ IsLabel(i) <=> Named(i)
               /\ IsInt(i) <=> IntKey(i)
               /\ IntKey(i) => Place(i) = At[i - 1] + 1
               /\ IsTstr(Place(i)) <=> IsText(i)
    <2>1. /\ ItemAt(h, 1, 2 * i - 1) \in DOMAIN h /\ Key(i).w \in Narrow
          /\ ItemAt(h, 1, 2 * i) \in DOMAIN h /\ Value(i).w \in Narrow
          /\ Key(i).m \in {0, 1} => ItemAt(h, 1, 2 * i) = ItemAt(h, 1, 2 * i - 1) + 1
      BY <1>1, <1>5, EntryHeads
    <2> QED BY <1>7, <2>1
  <1>9. \A k \in 1..n : k \in 1..k /\ (\A j \in 1..k - 1 : j \in 1..n /\ j \in 1..k)
                        /\ \A j \in 1..k : j \in 1..n /\ (j = k \/ j \in 1..k - 1)
    BY <1>1
  <1>10. \A k \in 1..n : Named(k) => IntKey(k)
    OBVIOUS
  <1>11. \A k \in 1..n : Value(k) = h[Place(k)]
    OBVIOUS
  <1> DEFINE Hit(k) == /\ Named(k) /\ IsText(k) /\ \A j \in 1..k - 1 : IntKey(j) /\ ~Named(j)
  <1>12. HasText(h, label, text) <=> \E k \in 1..n : Hit(k) /\ Value(k).text = text
    BY <1>4, Zenon
  <1> HIDE DEF IsLabel, IsInt, IsTstr, Named, IntKey, IsText, Key, Value, Place
  <1>13. ASSUME NEW k \in 1..n
         PROVE  /\ k \in Found <=> Hit(k)
                /\ Hit(k) => h[At[k - 1] + 1] = Value(k)
    <2>1. ASSUME k \in Found PROVE Hit(k)
      <3>1. /\ \A j \in 1..k : IsInt(j)
            /\ IsLabel(k) /\ (\A j \in 1..k - 1 : ~IsLabel(j)) /\ IsTstr(At[k - 1] + 1)
        BY <2>1, Zenon
      <3>2. IntKey(k)
        BY <1>8, <1>9, <3>1, Zenon
      <3>3. IsTstr(Place(k))
        BY <1>8, <3>1, <3>2, Zenon
      <3>4. Named(k) /\ IsText(k)
        BY <1>8, <3>1, <3>3, Zenon
      <3>5. \A j \in 1..k - 1 : IntKey(j) /\ ~Named(j)
        BY <1>8, <1>9, <3>1, Zenon
      <3> QED BY <3>4, <3>5, Zenon
    <2>2. ASSUME Hit(k) PROVE k \in Found /\ h[At[k - 1] + 1] = Value(k)
      <3>1. Named(k) /\ IsText(k) /\ IntKey(k) /\ \A j \in 1..k - 1 : IntKey(j) /\ ~Named(j)
        BY <1>10, <2>2, Zenon
      <3>2. Place(k) = At[k - 1] + 1 /\ IsTstr(Place(k)) /\ IsLabel(k)
        BY <1>8, <3>1, Zenon
      <3>3. \A j \in 1..k : IntKey(j)
        BY <1>9, <3>1, Zenon
      <3>4. \A j \in 1..k : IsInt(j)
        BY <1>8, <1>9, <3>3, Zenon
      <3>5. \A j \in 1..k - 1 : ~IsLabel(j)
        BY <1>8, <1>9, <3>1, Zenon
      <3>6. IsTstr(At[k - 1] + 1)
        BY <3>2, Zenon
      <3>7. k \in Found
        BY <3>2, <3>4, <3>5, <3>6, Zenon
      <3>8. h[At[k - 1] + 1] = Value(k)
        BY <1>11, <3>2, Zenon
      <3> QED BY <3>7, <3>8
    <2> QED BY <2>1, <2>2, Zenon
  <1>14. \A k \in Found : k \in 1..n
    BY Zenon
  <1> HIDE DEF Found, Hit
  <1>15. text \in ParseProtectedTstr(h, label) <=> \E k \in Found : h[At[k - 1] + 1].text = text
    BY <1>3, Zenon
  <1> QED BY <1>12, <1>13, <1>14, <1>15, Zenon

\* Where no label comes twice, it is the value of the entry with the label.
LEMMA ExtractOne ==
    ASSUME NEW h, IsItem(h), h[1].m = 5, NEW label,
           \A j, k \in 1..h[1].n : Labelled(h, j, label) /\ Labelled(h, k, label) => j = k
    PROVE  ExtractTstrKeyedValue(h, label)
           = {ValueOf(h, k) : k \in {i \in 1..h[1].n : Labelled(h, i, label)}}
  <1> DEFINE n == h[1].n
             Firsts == {k \in 1..n : Labelled(h, k, label)
                                     /\ \A j \in 1..k - 1 : ~Labelled(h, j, label)}
             All == {k \in 1..n : Labelled(h, k, label)}
  <1>1. ExtractTstrKeyedValue(h, label) = {ValueOf(h, k) : k \in Firsts}
    BY ExtractIs
  <1>2. n \in Nat
    <2>1. IsStream(h) /\ h # <<>>
      BY DEF IsItem
    <2> QED BY <2>1, StreamType
  <1> HIDE DEF n
  <1>3. \A k \in 1..n : \A j \in 1..k - 1 : j \in 1..n /\ j # k
    BY <1>2
  <1>4. \A j, k \in 1..n : Labelled(h, j, label) /\ Labelled(h, k, label) => j = k
    BY DEF n
  <1>5. Firsts = All
    BY <1>3, <1>4
  <1> HIDE DEF Firsts, All
  <1> QED BY <1>1, <1>5 DEF All, n

\* A scope is decided in its own buffer as it would be in the header.
LEMMA ScopeValue ==
    ASSUME NEW h, IsItem(h), h[1].m = 5, NEW k \in 1..h[1].n, NEW guid,
           IsDecidable(h, ItemAt(h, 1, 2 * k), guid)
    PROVE  ScopePasses(ValueOf(h, k), guid) <=> ScopeAllows(h, ItemAt(h, 1, 2 * k), guid)
  <1> DEFINE v == ItemAt(h, 1, 2 * k)
             s == SubSeq(h, v, Skip(h, v, 1, Narrow) - 1)
             o == v - 1
  <1>1. IsStream(h) /\ Skip(h, 1, 1, Narrow) # 0 /\ Len(h) \in Nat /\ 1 \in 1..Len(h)
    <2>1. IsStream(h) /\ h # <<>> /\ Skip(h, 1, 1, Narrow) = Len(h) + 1
      BY DEF IsItem
    <2> QED BY <2>1, StreamType
  <1>2. EntryAt(h, 1, k)
    BY <1>1, EntriesInside
  <1>3. /\ v \in 1 + 1..Len(h) /\ Skip(h, v, 1, Narrow) = ItemAt(h, 1, 2 * k + 1)
        /\ Skip(h, v, 1, Narrow) \in 1 + 1..Len(h) + 1
    BY <1>2 DEF EntryAt
  <1>4. ValueOf(h, k) = s
    BY <1>3 DEF ValueOf
  <1> HIDE DEF v
  <1>5. v \in 1..Len(h) /\ Skip(h, v, 1, Narrow) # 0 /\ o + 1 = v
    BY <1>1, <1>3
  <1>6. IsItem(s) /\ Inside(s, h, o)
    BY <1>1, <1>5, CutOut
  <1>7. IsDecidable(h, o + 1, guid)
    BY <1>5 DEF v
  <1> HIDE DEF s, o
  <1>8. /\ ScopeAllows(s, 1, guid) <=> ScopeAllows(h, o + 1, guid)
        /\ IsDecidable(s, 1, guid) <=> IsDecidable(h, o + 1, guid)
    BY <1>6, ScopeInside
  <1>9. ScopePasses(s, guid) <=> ScopeAllows(s, 1, guid)
    BY <1>6, <1>7, <1>8, ScopePassesIs
  <1> QED BY <1>4, <1>5, <1>8, <1>9 DEF v

\* evaluate_bmo_scope decides exactly as the signer of the artifact meant.
LEMMA EvaluateIs ==
    ASSUME NEW h, NEW guid, IsReadable(h), IsLastGuid(h, guid)
    PROVE  EvaluateBmoScope(h, guid) <=> Allowed(h, guid)
  <1> DEFINE n == h[1].n
             V(k) == ItemAt(h, 1, 2 * k)
             G(l) == {k \in 1..n : Labelled(h, k, l)}
             generic == ExtractTstrKeyedValue(h, "fdo.scope")
             legacy == ExtractTstrKeyedValue(h, "fdo.bmo.scope")
  <1>1. IsItem(h) /\ h[1].m = 5
    BY DEF IsReadable
  <1>2. ScopesOf(h) = G("fdo.scope") \cup G("fdo.bmo.scope")
    BY DEF ScopesOf, ScopeLabels, Labelled
  <1>3. \A k \in 1..n : ~(k \in G("fdo.scope") /\ k \in G("fdo.bmo.scope"))
    BY DEF Labelled
  <1>4. ASSUME NEW l \in ScopeLabels
        PROVE  ExtractTstrKeyedValue(h, l) = {ValueOf(h, k) : k \in G(l)}
    <2>1. \A k \in G(l) : k \in ScopesOf(h) /\ h[ItemAt(h, 1, 2 * k - 1)].text = l
      BY <1>4 DEF ScopesOf, Labelled
    <2>2. \A j, k \in G(l) : j = k
      BY <2>1 DEF IsReadable
    <2>3. \A j, k \in 1..n : Labelled(h, j, l) /\ Labelled(h, k, l) => j = k
      BY <2>2
    <2> QED BY <1>1, <2>3, ExtractOne
  <1>5. /\ generic = {ValueOf(h, k) : k \in G("fdo.scope")}
        /\ legacy = {ValueOf(h, k) : k \in G("fdo.bmo.scope")}
    BY <1>4 DEF ScopeLabels
  <1>6. \A k \in ScopesOf(h) : IsDecidable(h, V(k), guid)
    <2> TAKE k \in ScopesOf(h)
    <2>1. h[V(k)].m = 5 => \A j \in 1..h[V(k)].n : h[ItemAt(h, V(k), 2 * j - 1)].m = 3
      BY DEF IsReadable
    <2>2. h[V(k)].m = 5 => \A j \in 1..h[V(k)].n : LastInList(h, ItemAt(h, V(k), 2 * j), guid)
      BY DEF IsLastGuid, LastInList
    <2> QED BY <2>1, <2>2 DEF IsDecidable
  <1>7. \A k \in ScopesOf(h) : ScopePasses(ValueOf(h, k), guid) <=> ScopeAllows(h, V(k), guid)
    <2>1. \A k \in ScopesOf(h) : k \in 1..n
      BY DEF ScopesOf
    <2> QED BY <1>1, <1>6, <2>1, ScopeValue
  <1>8. generic = {} \/ legacy = {} <=> \A j, k \in ScopesOf(h) : j = k
    <2>1. \A l \in ScopeLabels : \A j, k \in G(l) : j = k
      <3> TAKE l \in ScopeLabels
      <3>1. \A k \in G(l) : k \in ScopesOf(h) /\ h[ItemAt(h, 1, 2 * k - 1)].text = l
        BY DEF ScopesOf, Labelled
      <3> QED BY <3>1 DEF IsReadable
    <2>2. /\ \A j, k \in G("fdo.scope") : j = k
          /\ \A j, k \in G("fdo.bmo.scope") : j = k
      BY <2>1 DEF ScopeLabels
    <2>3. \A k : k \in G("fdo.scope") => k \in 1..n
      OBVIOUS
    <2> HIDE DEF G, generic, legacy
    <2>4. generic = {} <=> G("fdo.scope") = {}
      BY <1>5
    <2>5. legacy = {} <=> G("fdo.bmo.scope") = {}
      BY <1>5
    <2> QED BY <1>2, <1>3, <2>2, <2>3, <2>4, <2>5
  <1>9. (\A s \in generic \cup legacy : ScopePasses(s, guid))
        <=> \A k \in ScopesOf(h) : ScopeAllows(h, V(k), guid)
    <2> HIDE DEF G, generic, legacy, V
    <2>1. (\A s \in generic \cup legacy : ScopePasses(s, guid))
          <=> \A k \in ScopesOf(h) : ScopePasses(ValueOf(h, k), guid)
      BY <1>2, <1>5
    <2> QED BY <1>7, <2>1
  <1> QED BY <1>8, <1>9 DEF EvaluateBmoScope, Allowed

-----------------------------------------------------------------------------
(* The credential in the TPM                                                *)

\* What a revision is measured by is not below the minimum in the credential.
LEMMA EffectiveMinIs ==
    ASSUME NEW data, NEW guid, NEW rv, Stored(data, guid, rv), IsRv(rv), NEW k \in Nat,
           MinFirmwareRev(data) = {k}
    PROVE  EffectiveMin(data) \in Nat /\ EffectiveMin(data) >= k
  <1> DEFINE S == UNION {i.min_firmware_rev : i \in ParseRvFirmwareInfoAt(data, 7)}
             T == {k} \cup S
  <1>1. S \in SUBSET Nat /\ \E b \in Nat : \A r \in S : r <= b
    BY RvMinBounded
  <1>2. EffectiveMin(data) = Highest(T)
    <2>1. RvInfoAt(data) = 7
      BY StoredPlaces
    <2> QED BY <2>1 DEF EffectiveMin, ReadRvFirmwareInfo
  <1> HIDE DEF S
  <1>3. PICK b \in Nat : \A r \in S : r <= b
    BY <1>1
  <1> DEFINE c == b + k
  <1>4. T \in SUBSET Nat /\ c \in Nat /\ k \in T
    BY <1>1
  <1>5. \A r \in T : r <= c
    BY <1>1, <1>3
  <1> HIDE DEF T, c
  <1>6. Highest(T) \in Nat /\ k <= Highest(T)
    BY <1>4, <1>5, HighestIs
  <1> QED BY <1>2, <1>6

\* The highest of one and of two.
LEMMA HighestOfTwo ==
    ASSUME NEW a \in Nat, NEW b \in Nat
    PROVE  /\ Highest({a}) = a
           /\ Highest({a, b}) \in {a, b}
           /\ Highest({a, b}) >= a /\ Highest({a, b}) >= b
  <1> DEFINE c == a + b
  <1>1. c \in Nat /\ {a} \in SUBSET Nat /\ {a, b} \in SUBSET Nat
    OBVIOUS
  <1>2. (\A q \in {a} : q <= c) /\ \A q \in {a, b} : q <= c
    OBVIOUS
  <1> HIDE DEF c
  <1>3. Highest({a}) \in {a} \cup {0} /\ \A q \in {a} : q <= Highest({a})
    BY <1>1, <1>2, HighestIs
  <1>4. Highest({a, b}) \in {a, b} \cup {0} /\ \A q \in {a, b} : q <= Highest({a, b})
    BY <1>1, <1>2, HighestIs
  <1>5. Highest({a}) = a
    BY <1>3
  <1>6. Highest({a, b}) \in {a, b} /\ Highest({a, b}) >= a /\ Highest({a, b}) >= b
    BY <1>4
  <1> QED BY <1>5, <1>6

\* The credential has no minimum, and nothing was started that had a revision; or it has
\* one, which is not below any that was started nor, behind a DI of this build, below any that
\* the RvInfo asks for.
Ratchet(data, rv, booted, low) ==
    \/ booted = 0 /\ low = 0 /\ HasNoRev(data, rv)
    \/ \E rev \in Nat : /\ HasRev(data, rv, rev)
                        /\ rev >= low
                        /\ booted > 0 => rev >= RvMinFirmwareRevOf(rv)

\* What a revision is measured by, under that.
LEMMA RatchetMin ==
    ASSUME NEW data, NEW guid, NEW rv, Stored(data, guid, rv), IsRv(rv),
           NEW booted \in Nat, NEW low \in Nat, Ratchet(data, rv, booted, low)
    PROVE  /\ EffectiveMin(data) \in Nat /\ EffectiveMin(data) >= low
           /\ booted > 0 => EffectiveMin(data) >= RvMinFirmwareRevOf(rv)
  <1>1. CASE booted = 0 /\ low = 0 /\ HasNoRev(data, rv)
    <2>1. MinFirmwareRev(data) = {0}
      BY <1>1, StoredMin
    <2>2. EffectiveMin(data) \in Nat /\ EffectiveMin(data) >= 0
      BY <2>1, EffectiveMinIs
    <2> QED BY <1>1, <2>2
  <1>2. CASE \E rev \in Nat : /\ HasRev(data, rv, rev) /\ rev >= low
                              /\ booted > 0 => rev >= RvMinFirmwareRevOf(rv)
    <2>1. PICK rev \in Nat : /\ HasRev(data, rv, rev) /\ rev >= low
                             /\ booted > 0 => rev >= RvMinFirmwareRevOf(rv)
      BY <1>2
    <2>2. MinFirmwareRev(data) = {rev}
      BY <2>1, StoredMin
    <2>3. EffectiveMin(data) \in Nat /\ EffectiveMin(data) >= rev
      BY <2>2, EffectiveMinIs
    <2>4. RvMinFirmwareRevOf(rv) \in Nat
      BY RvMinIs
    <2> QED BY <2>1, <2>3, <2>4
  <1> QED BY <1>1, <1>2 DEF Ratchet

\* A delivery keeps the ratchet, whether it rewrites the credential or not.
LEMMA DeliverKeeps ==
    ASSUME NEW data, NEW guid, NEW rv, Stored(data, guid, rv), IsRv(rv),
           NEW booted \in Nat, NEW low \in Nat, Ratchet(data, rv, booted, low),
           NEW rev \in Nat, rev >= EffectiveMin(data), NEW new,
           new = IF rev > Highest(MinFirmwareRev(data)) THEN WithMinFirmwareRev(data, rev) ELSE data
    PROVE  /\ Stored(new, guid, rv) /\ Highest({low, rev}) \in Nat
           /\ Ratchet(new, rv, booted, Highest({low, rev}))
  <1> DEFINE up == Highest({low, rev})
  <1>1. up \in {low, rev} /\ up >= low /\ up >= rev
    BY HighestOfTwo
  <1>2. /\ EffectiveMin(data) \in Nat /\ EffectiveMin(data) >= low
        /\ booted > 0 => EffectiveMin(data) >= RvMinFirmwareRevOf(rv)
    BY RatchetMin
  <1>3. RvMinFirmwareRevOf(rv) \in Nat
    BY RvMinIs
  <1> HIDE DEF up
  <1>4. up = rev /\ up \in Nat
    BY <1>1, <1>2
  <1>5. CASE rev > Highest(MinFirmwareRev(data))
    <2>1. Stored(new, guid, rv) /\ HasRev(new, rv, rev)
      BY <1>5, RewriteStored
    <2>2. rev >= up /\ (booted > 0 => rev >= RvMinFirmwareRevOf(rv))
      BY <1>2, <1>3, <1>4
    <2>3. Ratchet(new, rv, booted, up)
      BY <2>1, <2>2 DEF Ratchet
    <2> QED BY <1>4, <2>1, <2>3 DEF up
  <1>6. CASE ~(rev > Highest(MinFirmwareRev(data)))
    <2>1. new = data
      BY <1>6
    <2>2. CASE booted = 0 /\ low = 0 /\ HasNoRev(data, rv)
      <3>1. MinFirmwareRev(data) = {0}
        BY <2>2, StoredMin
      <3>2. Highest({0}) = 0
        BY HighestOfTwo
      <3>3. rev = 0
        BY <1>6, <3>1, <3>2
      <3>4. Ratchet(new, rv, booted, up)
        BY <1>4, <2>1, <2>2, <3>3 DEF Ratchet
      <3> QED BY <1>4, <2>1, <3>4 DEF up
    <2>3. CASE \E k \in Nat : /\ HasRev(data, rv, k) /\ k >= low
                              /\ booted > 0 => k >= RvMinFirmwareRevOf(rv)
      <3>1. PICK k \in Nat : /\ HasRev(data, rv, k) /\ k >= low
                             /\ booted > 0 => k >= RvMinFirmwareRevOf(rv)
        BY <2>3
      <3>2. MinFirmwareRev(data) = {k}
        BY <3>1, StoredMin
      <3>3. Highest({k}) = k
        BY HighestOfTwo
      <3>4. k >= up
        BY <1>4, <1>6, <3>2, <3>3
      <3>5. Ratchet(new, rv, booted, up)
        BY <2>1, <3>1, <3>4 DEF Ratchet
      <3> QED BY <1>4, <2>1, <3>5 DEF up
    <2> QED BY <2>2, <2>3 DEF Ratchet
  <1> QED BY <1>5, <1>6

\* verify_bmo_signed lets an artifact with this header pass.
Passes(h, guid) ==
    ExpectedCt \in ParseProtectedTstr(h, ContentTypeLabel) /\ EvaluateBmoScope(h, guid)

\* The inductive invariant: where there is a credential, it is laid out as the decoders
\* expect, holds what the last DI stored and a minimum that only went up; and the verdict
\* is about the GUID of that DI.
CredentialInv ==
    /\ ov_header.guid \in Guids /\ ov_header.rv \in RvInfos
    /\ inits \in Nat /\ floor \in Nat
    /\ nv = <<>> => inits = 0 /\ floor = 0
    /\ nv # <<>> => /\ Stored(nv, ov_header.guid, ov_header.rv)
                    /\ Ratchet(nv, ov_header.rv, inits, floor)
    /\ \A h \in artifact : verdict = Passes(h, ov_header.guid)

\* What the assumption says of the RvInfo of a DI.
LEMMA RvInfosAre ==
    ASSUME NEW rv \in RvInfos
    PROVE  IsRv(rv)
  BY CredentialAssumption DEF IsRv, IsRvInfo

\* Init establishes the invariant: no credential, or one of ten items.
LEMMA CredentialInit == Init => CredentialInv
  <1> SUFFICES ASSUME Init PROVE CredentialInv
    OBVIOUS
  <1>1. PICK g \in Guids, r \in RvInfos : ov_header = [guid |-> g, rv |-> r]
    BY DEF Init
  <1>2. ov_header.guid \in Guids /\ ov_header.rv \in RvInfos
    BY <1>1
  <1> DEFINE guid == ov_header.guid
             rv == ov_header.rv
             ten == <<Array(10)>> \o FirstTen(guid, rv)
  <1>3. IsRv(rv)
    BY <1>2, RvInfosAre
  <1>4. nv \in {<<>>, ten} /\ inits = 0 /\ artifact = {} /\ floor = 0
    BY DEF Init
  <1> HIDE DEF guid, rv
  <1>5. TenAt(ten, guid, rv, 10)
    BY <1>3, TenItems
  <1> HIDE DEF ten
  <1>6. Stored(ten, guid, rv) /\ HasNoRev(ten, rv)
    BY <1>3, <1>5, TenStored
  <1>7. ASSUME nv # <<>> PROVE Stored(nv, guid, rv) /\ Ratchet(nv, rv, inits, floor)
    BY <1>4, <1>6, <1>7 DEF Ratchet
  <1> QED BY <1>2, <1>4, <1>7 DEF CredentialInv, guid, rv

\* DI writes a credential anew, with the minimum that the RvInfo asks for.
LEMMA InitializeKeeps ==
    ASSUME CredentialInv, NEW guid \in Guids, NEW rv \in RvInfos, Initialize(guid, rv)
    PROVE  CredentialInv'
  <1>1. IsRv(rv)
    BY RvInfosAre
  <1>2. /\ artifact' = {} /\ inits' = inits + 1 /\ nv' = BuildDctpm(guid, rv)
        /\ ov_header' = [guid |-> guid, rv |-> rv] /\ floor' = 0
    BY DEF Initialize
  <1>3. ov_header'.guid = guid /\ ov_header'.rv = rv
    BY <1>2
  <1>4. /\ Stored(BuildDctpm(guid, rv), guid, rv)
        /\ HasRev(BuildDctpm(guid, rv), rv, RvMinFirmwareRevOf(rv))
    BY <1>1, BuildStored
  <1>5. RvMinFirmwareRevOf(rv) \in Nat
    BY <1>1, RvMinIs
  <1>6. Ratchet(BuildDctpm(guid, rv), rv, inits', floor')
    <2> RvMinFirmwareRevOf(rv) >= floor' /\ RvMinFirmwareRevOf(rv) >= RvMinFirmwareRevOf(rv)
      BY <1>2, <1>5
    <2> QED BY <1>4, <1>5 DEF Ratchet
  <1>7. inits' \in Nat /\ floor' \in Nat
    BY <1>2 DEF CredentialInv
  <1>8. nv' # <<>>
    <2>1. Len(rv) \in Nat
      BY <1>1, RvType
    <2>2. Len(BuildDctpm(guid, rv)) = 13 + Len(rv)
      BY <1>4 DEF HasRev
    <2>3. Len(<<>>) = 0
      OBVIOUS
    <2> QED BY <1>2, <2>1, <2>2, <2>3
  <1>9. Stored(nv', ov_header'.guid, ov_header'.rv) /\ Ratchet(nv', ov_header'.rv, inits', floor')
    BY <1>2, <1>3, <1>4, <1>6
  <1> QED BY <1>2, <1>3, <1>7, <1>8, <1>9 DEF CredentialInv

\* The delivery of firmware rewrites no more than the minimum, and only upwards.
LEMMA DeliverStep ==
    ASSUME CredentialInv, NEW rev \in Revs, Deliver(rev)
    PROVE  CredentialInv'
  <1> DEFINE guid == ov_header.guid
             rv == ov_header.rv
  <1>1. /\ artifact' = {} /\ nv # <<>> /\ rev >= EffectiveMin(nv)
        /\ nv' = IF rev > Highest(MinFirmwareRev(nv)) THEN WithMinFirmwareRev(nv, rev) ELSE nv
        /\ floor' = Highest({floor, rev}) /\ inits' = inits /\ ov_header' = ov_header
    BY DEF Deliver
  <1>2. /\ guid \in Guids /\ rv \in RvInfos /\ inits \in Nat /\ floor \in Nat
        /\ Stored(nv, guid, rv) /\ Ratchet(nv, rv, inits, floor)
    BY <1>1 DEF CredentialInv
  <1>3. rev \in Nat
    BY CredentialAssumption
  <1> HIDE DEF guid, rv
  <1>4. IsRv(rv)
    BY <1>2, RvInfosAre
  <1>5. /\ Stored(nv', guid, rv) /\ Highest({floor, rev}) \in Nat
        /\ Ratchet(nv', rv, inits, Highest({floor, rev}))
    BY <1>1, <1>2, <1>3, <1>4, DeliverKeeps
  <1>6. nv' # <<>>
    <2>1. Len(rv) \in Nat
      BY <1>4, RvType
    <2>2. Len(nv') \in {12 + Len(rv), 13 + Len(rv)}
      BY <1>5, <2>1 DEF Stored
    <2>3. Len(<<>>) = 0
      OBVIOUS
    <2> QED BY <2>1, <2>2, <2>3
  <1> QED BY <1>1, <1>2, <1>5, <1>6 DEF CredentialInv, guid, rv

\* The evaluation of an artifact takes the GUID out of the credential, and finds it.
LEMMA EvaluateStep ==
    ASSUME CredentialInv, NEW header \in Artifacts, Evaluate(header)
    PROVE  CredentialInv'
  <1> DEFINE guid == ov_header.guid
             rv == ov_header.rv
  <1>1. /\ nv # <<>> /\ artifact' = {header}
        /\ UNCHANGED <<nv, inits, ov_header, floor>>
    BY DEF Evaluate
  <1>2. PICK c \in ReadFdoCredentials(nv) : verdict' = Passes(header, c.guid)
    BY DEF Evaluate, Passes
  <1>3. IsRv(rv) /\ Stored(nv, guid, rv)
    BY <1>1, RvInfosAre DEF CredentialInv
  <1> HIDE DEF guid, rv
  <1>4. ReadFdoCredentials(nv) = {[guid |-> guid, device_key_handle |-> DakHandle,
                                   hmac_key_handle |-> HmacHandle]}
    BY <1>3, StoredCredentials
  <1>5. c.guid = guid
    BY <1>2, <1>4
  <1>6. \A h \in artifact' : verdict' = Passes(h, ov_header'.guid)
    <2> ov_header'.guid = guid
      BY <1>1 DEF guid
    <2> QED BY <1>1, <1>2, <1>5, Zenon
  <1> QED BY <1>1, <1>6 DEF CredentialInv

\* Every step keeps the invariant.
LEMMA CredentialNext == CredentialInv /\ [Next]_vars => CredentialInv'
  <1> SUFFICES ASSUME CredentialInv, [Next]_vars PROVE CredentialInv'
    OBVIOUS
  <1>1. CASE \E guid \in Guids, rv \in RvInfos : Initialize(guid, rv)
    BY <1>1, InitializeKeeps
  <1>2. CASE \E rev \in Revs : Deliver(rev)
    BY <1>2, DeliverStep
  <1>3. CASE \E header \in Artifacts : Evaluate(header)
    BY <1>3, EvaluateStep
  <1>4. CASE Reboot
    BY <1>4 DEF Reboot, CredentialInv
  <1>5. CASE UNCHANGED vars
    BY <1>5 DEF vars, CredentialInv
  <1> QED BY <1>1, <1>2, <1>3, <1>4, <1>5 DEF Next

\* In every reachable state the credential is laid out as its decoders expect and holds what
\* the last DI stored; the minimum in it is not below a revision that was started nor, behind
\* a DI of this build, below one that the RvInfo asks for.
THEOREM CredentialInvariant == Spec => []CredentialInv
  <1> QED BY CredentialInit, CredentialNext, PTL DEF Spec

\* What the decoders find in a credential that the invariant speaks of is what was stored.
LEMMA ReadBack == CredentialInv => CredentialReadBack
  <1> SUFFICES ASSUME CredentialInv, nv # <<>>
               PROVE  /\ ReadFdoCredentials(nv) =
                           {[guid |-> ov_header.guid, device_key_handle |-> DakHandle,
                             hmac_key_handle |-> HmacHandle]}
                      /\ EffectiveMin(nv) >= floor
                      /\ inits > 0 /\ HoldsArrays(ov_header.rv, 1) =>
                           \A rev \in MeantRevs(Meant(ov_header.rv, 1)) : EffectiveMin(nv) >= rev
    BY DEF CredentialReadBack
  <1> DEFINE guid == ov_header.guid
             rv == ov_header.rv
  <1>1. /\ IsRv(rv) /\ Stored(nv, guid, rv) /\ Ratchet(nv, rv, inits, floor)
        /\ inits \in Nat /\ floor \in Nat
    BY RvInfosAre DEF CredentialInv
  <1> HIDE DEF guid, rv
  <1>2. ReadFdoCredentials(nv) = {[guid |-> guid, device_key_handle |-> DakHandle,
                                   hmac_key_handle |-> HmacHandle]}
    BY <1>1, StoredCredentials
  <1>3. /\ EffectiveMin(nv) \in Nat /\ EffectiveMin(nv) >= floor
        /\ inits > 0 => EffectiveMin(nv) >= RvMinFirmwareRevOf(rv)
    BY <1>1, RatchetMin
  <1>4. ASSUME inits > 0, HoldsArrays(rv, 1), NEW rev \in MeantRevs(Meant(rv, 1))
        PROVE  EffectiveMin(nv) >= rev
    <2>1. /\ IsStream(rv) /\ rv # <<>> /\ Skip(rv, 1, 1, Narrow) # 0
          /\ \A p \in 1..Len(rv) : IsStream(rv[p].inner)
      <3>1. /\ IsStream(rv) /\ rv # <<>> /\ Skip(rv, 1, 1, Narrow) = Len(rv) + 1
            /\ Len(rv) \in Nat /\ \A p \in 1..Len(rv) : IsStream(rv[p].inner)
        BY <1>1, RvType
      <3> QED BY <3>1
    <2>2. rev \in ScanRevs(rv)
      BY <1>4, <2>1, ScanRevsAreMeant
    <2>3. rev \in Nat
      BY <2>1, <2>2, ScanRevsBounded
    <2>4. RvMinFirmwareRevOf(rv) \in Nat /\ rev <= RvMinFirmwareRevOf(rv)
      BY <1>1, <2>2, RvMinIs
    <2> QED BY <1>3, <1>4, <2>3, <2>4
  <1> QED BY <1>2, <1>3, <1>4 DEF guid, rv

\* The directives that are found in the credential are those of the RvInfo.
LEMMA StoredDirectives ==
    ASSUME NEW data, NEW guid, NEW rv, Stored(data, guid, rv), IsRv(rv),
           IsItem(RvStream(rv)), HoldsArrays(RvStream(rv), 1)
    PROVE  Directives(data, 7) = Meant(RvStream(rv), 1)
  <1> DEFINE s == RvStream(rv)
  <1>1. /\ IsStream(s) /\ s # <<>> /\ 1 \in 1..Len(s) /\ Skip(s, 1, 1, Narrow) # 0
        /\ s[1].m = 4
    <2>1. IsStream(s) /\ s # <<>> /\ Skip(s, 1, 1, Narrow) = Len(s) + 1
      BY DEF IsItem
    <2>2. s[1].m = 4
      BY DEF HoldsArrays
    <2>3. 1 \in 1..Len(s)
      BY RvType
    <2> HIDE DEF s
    <2>4. Len(s) \in Nat
      BY <2>1, StreamType
    <2>5. Skip(s, 1, 1, Narrow) # 0
      BY <2>1, <2>4
    <2> QED BY <2>1, <2>2, <2>3, <2>5
  <1>2. Inside(rv, data, 6) /\ data[6 + 1] = rv[1]
    <2>1. Inside(rv, data, 6)
      BY DEF Stored
    <2>2. Len(rv) \in Nat \ {0}
      BY RvType
    <2> QED BY <2>1, <2>2 DEF Inside
  <1>3. CASE rv[1].m = 2
    <2>1. s = rv[1].inner
      BY <1>3 DEF RvStream
    <2> HIDE DEF s
    <2>2. Directives(data, 7) = Directives(s, 1)
      <3>1. 6 + 1 = 7
        OBVIOUS
      <3>2. data[7].m = 2 /\ data[7].inner = s
        BY <1>2, <1>3, <2>1, <3>1
      <3>3. s[1].m = 4
        BY <1>1 DEF s
      <3>4. Directives(data, 7) = [k \in 1..s[1].n |->
              DirectiveAt(s, Rounds(PastDirective(s), 1 + 1)[k - 1])]
        BY <3>2, <3>3 DEF Directives
      <3>5. Directives(s, 1) = [k \in 1..s[1].n |->
              DirectiveAt(s, Rounds(PastDirective(s), 1 + 1)[k - 1])]
        BY <3>3 DEF Directives
      <3> QED BY <3>4, <3>5
    <2>3. Directives(s, 1) = Meant(s, 1)
      BY <1>1, DirectivesAreMeant DEF s
    <2> QED BY <2>2, <2>3 DEF s
  <1>4. CASE rv[1].m # 2
    <2>1. s = rv
      BY <1>4 DEF RvStream
    <2>2. Directives(data, 6 + 1) = Meant(rv, 1)
      BY <1>1, <1>2, <2>1, DirectivesInside
    <2> QED BY <2>1, <2>2
  <1> QED BY <1>3, <1>4

\* Both readers find the same server, and the one that is meant.
LEMMA ReadersAgree == CredentialInv => RvReadersAgree
  <1> DEFINE guid == ov_header.guid
             rv == ov_header.rv
             s == RvStream(rv)
  <1> SUFFICES ASSUME CredentialInv, nv # <<>>, IsShort(s)
               PROVE  /\ IsItem(s) /\ HoldsArrays(s, 1)
                         => ReadFdoRvInfo(nv) = MeantServer(Meant(s, 1))
                      /\ \A i \in ReadRvFirmwareInfo(nv) : i.server_url = ReadFdoRvInfo(nv)
    BY DEF RvReadersAgree
  <1> DEFINE D == Directives(nv, 7)
  <1>1. IsRv(rv) /\ Stored(nv, guid, rv)
    BY RvInfosAre DEF CredentialInv
  <1> HIDE DEF guid, rv
  <1>2. RvInfoAt(nv) = 7
    BY <1>1, StoredPlaces
  <1>3. ReadFdoRvInfo(nv) = FirstServer("tpm", D)
    BY <1>2 DEF ReadFdoRvInfo, ParseRvInfoAt
  <1>4. \A i \in ReadRvFirmwareInfo(nv) : i.server_url = FirstServer("rv", D)
    BY <1>2 DEF ReadRvFirmwareInfo, ParseRvFirmwareInfoAt
  <1>5. \A k \in DOMAIN D : \A j \in DOMAIN D[k] : Short(D[k][j])
    BY <1>1, StoredShort
  <1>6. IsItem(s) /\ HoldsArrays(s, 1) => D = Meant(s, 1)
    BY <1>1, StoredDirectives
  <1> HIDE DEF D
  <1>7. FirstServer("tpm", D) = FirstServer("rv", D)
    BY <1>5, FirstServerAgree
  <1>8. ASSUME IsItem(s), HoldsArrays(s, 1) PROVE FirstServer("rv", D) = MeantServer(Meant(s, 1))
    <2>1. s[1].n \in Nat
      <3>1. IsStream(s) /\ 1 \in 1..Len(s)
        BY <1>1, RvType
      <3> QED BY <3>1, StreamType
    <2>2. DOMAIN Meant(s, 1) = 1..s[1].n
      BY DEF Meant
    <2>3. FirstServer("rv", Meant(s, 1)) = MeantServer(Meant(s, 1))
      BY <2>1, <2>2, FirstServerMeant
    <2> QED BY <1>6, <1>8, <2>3
  <1> QED BY <1>3, <1>4, <1>7, <1>8

\* The verdict on an artifact is the one that its signer meant.
LEMMA ScopeDecided == CredentialInv => ScopeExact
  <1> SUFFICES ASSUME CredentialInv, NEW h \in artifact,
                      IsReadable(h), IsLastGuid(h, ov_header.guid)
               PROVE  verdict <=> /\ HasText(h, ContentTypeLabel, ExpectedCt)
                                  /\ Allowed(h, ov_header.guid)
    BY DEF ScopeExact
  <1>1. verdict = Passes(h, ov_header.guid)
    BY DEF CredentialInv
  <1>2. EvaluateBmoScope(h, ov_header.guid) <=> Allowed(h, ov_header.guid)
    BY EvaluateIs
  <1>3. ExpectedCt \in ParseProtectedTstr(h, ContentTypeLabel)
        <=> HasText(h, ContentTypeLabel, ExpectedCt)
    <2>1. IsItem(h) /\ h[1].m = 5
      BY DEF IsReadable
    <2> QED BY <2>1, TextFound
  <1> QED BY <1>1, <1>2, <1>3, Zenon DEF Passes

\* read_fdo_credentials reads back what DI stored, whatever the RvInfo in the middle of the
\* credential looks like and however often update_firmware_rev_counter rewrote its end; and
\* check_firmware_rev never measures by less than what was started or asked for.
THEOREM ReadBackCorrect == Spec => []CredentialReadBack
  <1> QED BY CredentialInvariant, ReadBack, PTL

\* For every RvInfo that IsRvInfo describes, in every reachable credential, read_fdo_rv_info
\* and parse_rv_firmware_info find the same server if its values are short, and it is the one
\* that an RvInfo of nothing but arrays means.
THEOREM RvReadersCorrect == Spec => []RvReadersAgree
  <1> QED BY CredentialInvariant, ReadersAgree, PTL

\* For every artifact with a readable header verify_bmo_signed decides as its signer meant,
\* by the content type and the scope, with the GUID that DI stored, unless that GUID is
\* listed before another one.
THEOREM ScopeCorrect == Spec => []ScopeExact
  <1> QED BY CredentialInvariant, ScopeDecided, PTL
=============================================================================
