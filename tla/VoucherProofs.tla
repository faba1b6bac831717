---------------------------- MODULE VoucherProofs ----------------------------
(***************************************************************************)
(* Proofs about module Voucher, for any keys, headers and hash algorithms, *)
(* any number of signed entries and vouchers of any length.                *)
(***************************************************************************)
EXTENDS Voucher, SequenceTheorems, TLAPS

\* Vouchers without a bound on their entries.
AnyVoucher == [header : Headers, raw : BOOLEAN, entries : Seq(Bytes(Len(signed)))]

\* The vouchers TLC enumerates are among them.
LEMMA VouchersAreSeqs ==
    ASSUME NEW n \in Nat, NEW v \in Vouchers(n)
    PROVE  /\ v \in AnyVoucher
           /\ Len(v.entries) \in 0..n
           /\ DOMAIN v.entries = 1..Len(v.entries)
  <1>1. PICK m \in 0..n : v.entries \in [1..m -> Bytes(Len(signed))]
    BY DEF Vouchers
  <1>2. v.entries \in Seq(Bytes(Len(signed))) /\ Len(v.entries) = m
    BY <1>1, IsASeq
  <1>3. /\ v.header \in Headers /\ v.raw \in BOOLEAN
        /\ v = [header |-> v.header, raw |-> v.raw, entries |-> v.entries]
    BY DEF Vouchers
  <1> QED BY <1>1, <1>2, <1>3 DEF AnyVoucher

-----------------------------------------------------------------------------
(* What is signed stays signed                                              *)

\* Adding an entry changes none of the chains of custody there were.
LEMMA CustodyStable ==
    ASSUME NEW S, signed \in Seq(S), NEW e \in S, signed' = Append(signed, e),
           NEW v \in AnyVoucher, InCustody(v)
    PROVE  /\ InCustody(v)'
           /\ v \in AnyVoucher'
  <1>1. \A n \in 1..Len(signed) : signed'[n] = signed[n]
    BY AppendProperties
  <1>2. Len(signed') = Len(signed) + 1 /\ Len(signed) \in Nat
    BY AppendProperties, LenProperties
  <1>3. Bytes(Len(signed)) \subseteq Bytes(Len(signed'))
    BY <1>2 DEF Bytes
  <1>4. v \in AnyVoucher'
    BY <1>3, SeqMonotonic DEF AnyVoucher
  <1>5. \A n \in DOMAIN v.entries : v.entries[n] \in Bytes(Len(signed)) /\ n \in 1..Len(v.entries)
    BY LenProperties DEF AnyVoucher
  <1>6. \A n \in DOMAIN v.entries : v.entries[n].id \in 1..Len(signed)
    BY <1>5, <1>2 DEF InCustody, Continues, Bytes
  <1>7. ASSUME NEW n \in DOMAIN v.entries
        PROVE  Continues(v, n)'
    <2>1. signed'[v.entries[n].id] = signed[v.entries[n].id]
      BY <1>1, <1>6
    <2>2. n - 1 # 0 => n - 1 \in DOMAIN v.entries
      BY <1>5, LenProperties DEF AnyVoucher
    <2>3. OwnerAfter(v, n - 1)' = OwnerAfter(v, n - 1)
      BY <1>1, <1>6, <2>2 DEF OwnerAfter
    <2>4. HashAfter(v, n - 1)' = HashAfter(v, n - 1)
      BY DEF HashAfter
    <2> QED BY <2>1, <2>3, <2>4 DEF InCustody, Continues
  <1> QED BY <1>4, <1>7 DEF InCustody

-----------------------------------------------------------------------------
(* Type correctness                                                         *)

\* An entry added to those that were signed leaves the types as they are.
LEMMA SignType ==
    ASSUME TypeOK, NEW e \in Entries, Sign(e), Len(signed) < MaxSigned
    PROVE  /\ signed' \in Seq(Entries)
           /\ Len(signed') = Len(signed) + 1
           /\ Len(signed') <= MaxSigned
           /\ entries' \in Seq(Bytes(Len(signed')))
           /\ \A n \in Nat : Vouchers(n) \subseteq Vouchers(n)'
  <1>1. signed' \in Seq(Entries) /\ Len(signed') = Len(signed) + 1 /\ Len(signed) \in Nat
    BY AppendProperties, LenProperties DEF TypeOK, Sign
  <1>2. Len(signed') <= MaxSigned
    BY <1>1, VoucherAssumption
  <1>3. Bytes(Len(signed)) \subseteq Bytes(Len(signed'))
    BY <1>1 DEF Bytes
  <1>4. entries' \in Seq(Bytes(Len(signed')))
    BY <1>3, SeqMonotonic DEF TypeOK, Sign, presented
  <1>5. ASSUME NEW n \in Nat, NEW v \in Vouchers(n)
        PROVE  v \in Vouchers(n)'
    <2>1. PICK m \in 0..n : v.entries \in [1..m -> Bytes(Len(signed))]
      BY DEF Vouchers
    <2>2. v.entries \in [1..m -> Bytes(Len(signed'))]
      BY <1>3, <2>1
    <2>3. v.entries \in UNION {[1..k -> Bytes(Len(signed'))] : k \in 0..n}
      BY <2>2
    <2> QED BY <2>3 DEF Vouchers
  <1> QED BY <1>1, <1>2, <1>4, <1>5

\* The payload of a transfer is an entry.
LEMMA ExtendEntry ==
    ASSUME TypeOK, NEW v \in Circulating, NEW to \in Keys \cup {Unsupported}, NEW alg \in Algs,
           OwnerAfter(v, Len(v.entries)) \in Honest
    PROVE  [by |-> OwnerAfter(v, Len(v.entries)), hash_prev |-> HashAfter(v, Len(v.entries)),
            hash_hdr |-> HeaderInfoHash(v.header), pub_key |-> to, alg |-> alg] \in Entries
  <1>1. MaxEntries - 1 \in Nat /\ v \in Vouchers(MaxEntries - 1)
    BY VoucherAssumption DEF Circulating
  <1>2. v \in AnyVoucher /\ Len(v.entries) \in Nat /\ DOMAIN v.entries = 1..Len(v.entries)
    BY <1>1, VouchersAreSeqs
  <1>3. Len(signed) \in Nat /\ Len(signed) <= MaxSigned /\ MaxSigned \in Nat
    BY LenProperties, VoucherAssumption DEF TypeOK
  <1>4. Bytes(Len(signed)) \subseteq Bytes(MaxSigned)
    BY <1>3 DEF Bytes
  <1>5. CASE Len(v.entries) = 0
    <2>1. HashAfter(v, Len(v.entries)) \in {"header"} \X Headers \X BOOLEAN
      BY <1>2, <1>5 DEF HashAfter, HeaderHash, AnyVoucher
    <2> QED BY <1>2, <2>1, VoucherAssumption DEF Entries, AnyVoucher
  <1>6. CASE Len(v.entries) # 0
    <2>1. v.entries[Len(v.entries)] \in Bytes(MaxSigned)
      BY <1>2, <1>4, <1>6, ElementOfSeq DEF AnyVoucher
    <2>2. HashAfter(v, Len(v.entries)) \in {"entry"} \X Bytes(MaxSigned)
      BY <1>6, <2>1 DEF HashAfter, EntryHash
    <2> QED BY <1>2, <2>2, VoucherAssumption DEF Entries, AnyVoucher
  <1> QED BY <1>5, <1>6

\* So is what a dishonest key signs.
LEMMA AnythingEntry ==
    ASSUME TypeOK, NEW k \in Keys, NEW prev \in Hashes, NEW h \in Headers,
           NEW to \in Keys \cup {Unsupported}, NEW alg \in Algs
    PROVE  [by |-> k, hash_prev |-> prev, hash_hdr |-> HeaderInfoHash(h),
            pub_key |-> to, alg |-> alg] \in Entries
  <1>1. Len(signed) \in Nat /\ Len(signed) <= MaxSigned /\ MaxSigned \in Nat
    BY LenProperties, VoucherAssumption DEF TypeOK
  <1>2. Bytes(Len(signed)) \subseteq Bytes(MaxSigned)
    BY <1>1 DEF Bytes
  <1>3. prev \in ({"header"} \X Headers \X BOOLEAN) \cup ({"entry"} \X Bytes(MaxSigned))
    BY <1>2 DEF Hashes, HeaderHash, EntryHash
  <1> QED BY <1>3 DEF Entries

\* The headers' manufacturer keys and what the loop reads are keys.
LEMMA EntryType ==
    ASSUME TypeOK, NEW b \in Bytes(Len(signed)), b.id # 0
    PROVE  b.id \in 1..Len(signed) /\ signed[b.id] \in Entries
  BY ElementOfSeq, LenProperties DEF TypeOK, Bytes

\* What a step without an error knows of its entry.
LEMMA EntryPasses ==
    ASSUME NEW b, EntryError(b) = {}
    PROVE  /\ b.id # 0
           /\ b.unprotected # "delegate"
           /\ signed[b.id].by = prev_key
           /\ signed[b.id].pub_key \in Keys
           /\ signed[b.id].alg = "SHA256"
           /\ signed[b.id].hash_hdr = HeaderInfoHash(header)
           /\ signed[b.id].hash_prev = prev_hash
  BY DEF EntryError, KeyParses, PrevHashMatches

\* Errors are errors.
LEMMA EntryErrorType == \A b : EntryError(b) \subseteq Errors
  BY DEF EntryError, Errors

\* The state verify_voucher works on keeps its types while vouchers are sold,
\* the device is initialized again and the network offers what it likes.
THEOREM TypeCorrect == Spec => []TypeOK
  <1>1. Init => TypeOK
    <2> SUFFICES ASSUME Init PROVE TypeOK
      OBVIOUS
    <2>1. header \in Headers /\ prev_key \in Keys \cup {Unsupported}
      BY VoucherAssumption DEF Init
    <2>2. signed \in Seq(Entries) /\ Len(signed) = 0 /\ entries \in Seq(Bytes(Len(signed)))
      BY EmptySeq DEF Init
    <2> QED BY <2>1, <2>2, VoucherAssumption DEF Init, TypeOK, Errors
  <1>2. TypeOK /\ [Next]_vars => TypeOK'
    <2> SUFFICES ASSUME TypeOK, [Next]_vars PROVE TypeOK'
      OBVIOUS
    <2> USE VoucherAssumption
    <2>1. ASSUME pc = "idle", Len(signed) < MaxSigned,
                 NEW v \in Circulating, NEW to \in Keys \cup {Unsupported}, NEW alg \in Algs,
                 Extend(v, to, alg)
          PROVE  TypeOK'
      <3> DEFINE e == [by |-> OwnerAfter(v, Len(v.entries)),
                       hash_prev |-> HashAfter(v, Len(v.entries)),
                       hash_hdr |-> HeaderInfoHash(v.header), pub_key |-> to, alg |-> alg]
      <3>1. e \in Entries /\ Sign(e)
        BY <2>1, ExtendEntry DEF Extend
      <3> HIDE DEF e
      <3>2. /\ signed' \in Seq(Entries) /\ Len(signed') = Len(signed) + 1
            /\ Len(signed') <= MaxSigned /\ entries' \in Seq(Bytes(Len(signed')))
            /\ \A n \in Nat : Vouchers(n) \subseteq Vouchers(n)'
            /\ Len(signed) \in Nat
        BY <2>1, <3>1, SignType, LenProperties DEF TypeOK
      <3>3. v \in Vouchers(MaxEntries)
        <4>1. PICK m \in 0..(MaxEntries - 1) : v.entries \in [1..m -> Bytes(Len(signed))]
          BY DEF Circulating, Vouchers
        <4>2. m \in 0..MaxEntries
          OBVIOUS
        <4>3. v.entries \in UNION {[1..k -> Bytes(Len(signed))] : k \in 0..MaxEntries}
          BY <4>1, <4>2
        <4> QED BY <4>3 DEF Circulating, Vouchers
      <3>4. transfers' \subseteq [id : 1..Len(signed'), over : Vouchers(MaxEntries)']
        <4>1. Vouchers(MaxEntries) \subseteq Vouchers(MaxEntries)'
          BY <3>2
        <4> HIDE DEF Vouchers
        <4>2. transfers \subseteq [id : 1..Len(signed), over : Vouchers(MaxEntries)]
          BY DEF TypeOK
        <4>3. transfers' = transfers \cup {[id |-> Len(signed) + 1, over |-> v]}
          BY <2>1 DEF Extend
        <4>4. 1..Len(signed) \subseteq 1..Len(signed') /\ Len(signed) + 1 \in 1..Len(signed')
          BY <3>2
        <4> QED BY <3>3, <4>1, <4>2, <4>3, <4>4
      <3> QED BY <3>1, <3>2, <3>4 DEF TypeOK, Sign, presented, chain
    <2>2. ASSUME pc = "idle", Len(signed) < MaxSigned,
                 NEW k \in Keys \ Honest, NEW prev \in Hashes, NEW h \in Headers,
                 NEW to \in Keys \cup {Unsupported}, NEW alg \in Algs,
                 SignAnything(k, prev, h, to, alg)
          PROVE  TypeOK'
      <3> DEFINE e == [by |-> k, hash_prev |-> prev, hash_hdr |-> HeaderInfoHash(h),
                       pub_key |-> to, alg |-> alg]
      <3>1. e \in Entries /\ Sign(e)
        BY <2>2, AnythingEntry DEF SignAnything
      <3> HIDE DEF e
      <3>2. /\ signed' \in Seq(Entries) /\ Len(signed') = Len(signed) + 1
            /\ Len(signed') <= MaxSigned /\ entries' \in Seq(Bytes(Len(signed')))
            /\ Vouchers(MaxEntries) \subseteq Vouchers(MaxEntries)'
            /\ Len(signed) \in Nat
        BY <2>2, <3>1, SignType, LenProperties DEF TypeOK
      <3>3. transfers' \subseteq [id : 1..Len(signed'), over : Vouchers(MaxEntries)']
        BY <2>2, <3>2 DEF TypeOK, SignAnything
      <3> QED BY <3>1, <3>2, <3>3 DEF TypeOK, Sign, presented, chain
    <2>3. ASSUME NEW h \in Minted, Initialize(h)
          PROVE  TypeOK'
      BY <2>3 DEF TypeOK, Initialize, presented, chain, Vouchers
    <2>4. ASSUME NEW h \in Headers, NEW of, NEW r \in BOOLEAN, NEW tpm_ok \in BOOLEAN,
                 Begin(h, of, r, tpm_ok)
          PROVE  TypeOK'
      <3>1. entries' \in Seq(Bytes(Len(signed'))) /\ h.mfg \in Keys \cup {Unsupported}
        BY <2>4, EmptySeq DEF Begin
      <3> QED BY <2>4, <3>1 DEF TypeOK, Begin, HeaderParses, Return, world, Vouchers, Errors
    <2>5. ASSUME NEW b \in Bytes(Len(signed)), Entry(b)
          PROVE  TypeOK'
      <3>1. entries' \in Seq(Bytes(Len(signed')))
        BY <2>5, AppendProperties DEF TypeOK, Entry, world
      <3>2. prev_key' \in Keys
        BY <2>5, EntryPasses DEF TypeOK, Entry, Advance, chain
      <3>3. result' \in Keys \cup Errors /\ pc' \in {"idle", "entries", "done"}
        BY <2>5, EntryErrorType DEF TypeOK, Entry, Return
      <3> QED BY <2>5, <3>1, <3>2, <3>3 DEF TypeOK, Entry, world, Vouchers
    <2>6. CASE Accept
      <3>1. prev_key \in Keys
        BY <2>6 DEF TypeOK, Accept
      <3> QED BY <2>6, <3>1 DEF TypeOK, Accept, Return, world, presented, chain, Vouchers
    <2>7. CASE UNCHANGED vars
      BY <2>7 DEF TypeOK, vars, world, presented, chain, Vouchers
    <2> QED BY <2>1, <2>2, <2>3, <2>4, <2>5, <2>6, <2>7 DEF Next, Owners
  <1> QED BY <1>1, <1>2, PTL DEF Spec

-----------------------------------------------------------------------------
(* The chain of custody                                                     *)

\* Every honest entry is a transfer of a voucher that was in custody, and holds
\* the hash that voucher ends in.
TransfersInv ==
    \A n \in 1..Len(signed) :
        signed[n].by \in Honest =>
            \E v \in AnyVoucher :
                /\ [id |-> n, over |-> v] \in transfers
                /\ InCustody(v)
                /\ signed[n].hash_prev = HashAfter(v, Len(v.entries))

\* Every honest entry of the voucher being verified was made over what precedes it.
Agreed ==
    \A n \in DOMAIN entries :
        signed[entries[n].id].by \in Honest =>
            [id |-> entries[n].id, over |-> Upto(Presented, n - 1)] \in transfers

\* At the head of the loop: what was examined is in custody and can be processed,
\* the chain stands at its end, and prev_hash names this voucher and no other.
WalkInv ==
    pc = "entries" =>
        /\ InCustody(Presented)
        /\ Processable(Presented)
        /\ prev_key = OwnerAfter(Presented, Len(entries))
        /\ prev_hash = HashAfter(Presented, Len(entries))
        /\ \A v \in AnyVoucher :
              InCustody(v) /\ HashAfter(v, Len(v.entries)) = prev_hash => v = Presented
        /\ Agreed
        /\ identity = {header}

IInv ==
    /\ TransfersInv
    /\ WalkInv
    /\ CustodyAgreement
    /\ CurrentIdentity
    /\ VerdictExact

\* The voucher under examination with one entry more.
PresentedAnd(b) == [header |-> header, raw |-> raw, entries |-> Append(entries, b)]

\* What the definitions say of a voucher that is one entry longer.
LEMMA Longer ==
    ASSUME TypeOK, NEW b \in Bytes(Len(signed)), NEW w, w = PresentedAnd(b)
    PROVE  /\ Presented \in AnyVoucher
           /\ w \in AnyVoucher
           /\ Len(w.entries) = Len(entries) + 1
           /\ Len(entries) \in Nat
           /\ DOMAIN entries = 1..Len(entries)
           /\ DOMAIN w.entries = 1..(Len(entries) + 1)
           /\ w.entries[Len(entries) + 1] = b
           /\ \A n \in 1..Len(entries) : w.entries[n] = entries[n]
           /\ \A n \in 0..Len(entries) :
                 /\ OwnerAfter(w, n) = OwnerAfter(Presented, n)
                 /\ HashAfter(w, n) = HashAfter(Presented, n)
                 /\ Upto(w, n) = Upto(Presented, n)
           /\ \A n \in 1..Len(entries) : Continues(w, n) <=> Continues(Presented, n)
           /\ Upto(w, Len(entries)) = Presented
  <1> USE DEF PresentedAnd
  <1>1. /\ entries \in Seq(Bytes(Len(signed))) /\ Len(entries) \in Nat
        /\ DOMAIN entries = 1..Len(entries)
        /\ Append(entries, b) \in Seq(Bytes(Len(signed)))
        /\ Len(Append(entries, b)) = Len(entries) + 1
        /\ \A n \in 1..Len(entries) : Append(entries, b)[n] = entries[n]
        /\ Append(entries, b)[Len(entries) + 1] = b
    BY AppendProperties, LenProperties DEF TypeOK
  <1>2. DOMAIN Append(entries, b) = 1..(Len(entries) + 1)
    BY <1>1, LenProperties
  <1>3. Presented \in AnyVoucher /\ w \in AnyVoucher
    BY <1>1 DEF TypeOK, AnyVoucher, Presented
  <1>4. ASSUME NEW n \in 0..Len(entries)
        PROVE  /\ OwnerAfter(w, n) = OwnerAfter(Presented, n)
               /\ HashAfter(w, n) = HashAfter(Presented, n)
    BY <1>1 DEF OwnerAfter, HashAfter, Presented
  <1>5. ASSUME NEW n \in 0..Len(entries)
        PROVE  SubSeq(Append(entries, b), 1, n) = SubSeq(entries, 1, n)
    <2> DEFINE s == SubSeq(Append(entries, b), 1, n)
               t == SubSeq(entries, 1, n)
    <2>1. /\ s \in Seq(Bytes(Len(signed))) /\ t \in Seq(Bytes(Len(signed)))
          /\ Len(s) = n /\ Len(t) = n
          /\ \A i \in 1..n : s[i] = t[i]
      BY <1>1, SubSeqProperties
    <2> QED BY <2>1, SeqEqual
  <1>6. SubSeq(entries, 1, Len(entries)) = entries
    BY <1>1, SubSeqFull
  <1>7. \A n \in 0..Len(entries) : Upto(w, n) = Upto(Presented, n)
    BY <1>5 DEF Upto, Presented
  <1>8. Upto(w, Len(entries)) = Presented
    BY <1>1, <1>5, <1>6 DEF Upto, Presented
  <1>9. ASSUME NEW n \in 1..Len(entries)
        PROVE  Continues(w, n) <=> Continues(Presented, n)
    <2>1. n - 1 \in 0..Len(entries)
      BY <1>1
    <2>2. /\ OwnerAfter(w, n - 1) = OwnerAfter(Presented, n - 1)
          /\ HashAfter(w, n - 1) = HashAfter(Presented, n - 1)
      BY <1>4, <2>1
    <2>3. w.entries[n] = Presented.entries[n] /\ w.header = Presented.header
      BY <1>1 DEF Presented
    <2> QED BY <2>2, <2>3 DEF Continues
  <1> QED BY <1>1, <1>2, <1>3, <1>4, <1>7, <1>8, <1>9

\* A voucher in custody without its last entry is in custody, and its last
\* entry holds the hash the rest ends in.
LEMMA Shorter ==
    ASSUME NEW v \in AnyVoucher, InCustody(v), Len(v.entries) # 0
    PROVE  /\ Len(v.entries) \in Nat \ {0}
           /\ Upto(v, Len(v.entries) - 1) \in AnyVoucher
           /\ InCustody(Upto(v, Len(v.entries) - 1))
           /\ signed[v.entries[Len(v.entries)].id].hash_prev =
                 HashAfter(Upto(v, Len(v.entries) - 1), Len(Upto(v, Len(v.entries) - 1).entries))
           /\ v.entries = Append(Upto(v, Len(v.entries) - 1).entries, v.entries[Len(v.entries)])
  <1> DEFINE l == Len(v.entries)
             u == Upto(v, l - 1)
             s == SubSeq(v.entries, 1, l - 1)
  <1>1. v.entries \in Seq(Bytes(Len(signed))) /\ l \in Nat \ {0} /\ DOMAIN v.entries = 1..l
    BY LenProperties DEF AnyVoucher
  <1>2. s \in Seq(Bytes(Len(signed))) /\ Len(s) = l - 1 /\ \A i \in 1..(l - 1) : s[i] = v.entries[i]
    BY <1>1, SubSeqProperties
  <1>3. u = [header |-> v.header, raw |-> v.raw, entries |-> s] /\ u.entries = s
    BY DEF Upto, AnyVoucher
  <1>4. DOMAIN s = 1..(l - 1)
    BY <1>2, LenProperties
  <1> HIDE DEF s, u
  <1>5. u \in AnyVoucher
    BY <1>2, <1>3 DEF AnyVoucher
  <1>6. ASSUME NEW n \in 0..(l - 1)
        PROVE  OwnerAfter(u, n) = OwnerAfter(v, n) /\ HashAfter(u, n) = HashAfter(v, n)
    BY <1>1, <1>2, <1>3 DEF OwnerAfter, HashAfter
  <1>7. ASSUME NEW n \in 1..(l - 1)
        PROVE  Continues(u, n)
    <2>1. Continues(v, n) /\ n - 1 \in 0..(l - 1)
      BY <1>1 DEF InCustody
    <2>2. u.entries[n] = v.entries[n] /\ u.header = v.header
      BY <1>2, <1>3
    <2>3. OwnerAfter(u, n - 1) = OwnerAfter(v, n - 1) /\ HashAfter(u, n - 1) = HashAfter(v, n - 1)
      BY <1>6, <2>1
    <2> QED BY <2>1, <2>2, <2>3 DEF Continues
  <1>8. InCustody(u)
    BY <1>3, <1>4, <1>7 DEF InCustody
  <1>9. signed[v.entries[l].id].hash_prev = HashAfter(v, l - 1)
    BY <1>1 DEF InCustody, Continues
  <1>10. HashAfter(v, l - 1) = HashAfter(u, Len(u.entries))
    BY <1>1, <1>2, <1>3, <1>6
  <1>11. v.entries = Append(s, v.entries[l])
    <2>1. v.entries[l] \in Bytes(Len(signed))
      BY <1>1, ElementOfSeq
    <2>2. Append(s, v.entries[l]) \in Seq(Bytes(Len(signed))) /\ Len(Append(s, v.entries[l])) = l
          /\ \A i \in 1..l : Append(s, v.entries[l])[i] = v.entries[i]
      BY <1>1, <1>2, <2>1, AppendProperties
    <2> QED BY <1>1, <2>2, SeqEqual
  <1> QED BY <1>1, <1>3, <1>5, <1>8, <1>9, <1>10, <1>11 DEF u

\* Signing an entry leaves the transfers there were.
LEMMA SignKeepsTransfers ==
    ASSUME TypeOK, TransfersInv, NEW e \in Entries, Sign(e), transfers \subseteq transfers',
           NEW n \in 1..Len(signed), signed'[n].by \in Honest
    PROVE  \E v \in AnyVoucher' :
               /\ [id |-> n, over |-> v] \in transfers'
               /\ InCustody(v)'
               /\ signed'[n].hash_prev = HashAfter(v, Len(v.entries))'
  <1>1. signed'[n] = signed[n] /\ signed' = Append(signed, e) /\ signed \in Seq(Entries)
    BY AppendProperties DEF Sign, TypeOK
  <1>2. PICK v \in AnyVoucher :
            /\ [id |-> n, over |-> v] \in transfers
            /\ InCustody(v)
            /\ signed[n].hash_prev = HashAfter(v, Len(v.entries))
    BY <1>1 DEF TransfersInv
  <1>3. InCustody(v)' /\ v \in AnyVoucher'
    BY <1>1, <1>2, CustodyStable
  <1>4. HashAfter(v, Len(v.entries))' = HashAfter(v, Len(v.entries))
    BY DEF HashAfter
  <1> QED BY <1>1, <1>2, <1>3, <1>4

\* A step that signs nothing leaves them too.
LEMMA TransfersKept ==
    ASSUME TransfersInv, UNCHANGED <<signed, transfers>>
    PROVE  TransfersInv'
  BY DEF TransfersInv, AnyVoucher, InCustody, Continues, OwnerAfter, HashAfter

\* The owners' part of the invariant.
LEMMA OwnersStep ==
    ASSUME TypeOK, IInv, Owners
    PROVE  IInv'
  <1> USE VoucherAssumption
  <1>1. pc = "idle" /\ Len(signed) < MaxSigned
    BY DEF Owners
  <1>2. ASSUME NEW v \in Circulating, NEW to \in Keys \cup {Unsupported}, NEW alg \in Algs,
               Extend(v, to, alg)
        PROVE  TransfersInv' /\ pc' = "idle"
    <2> DEFINE e == [by |-> OwnerAfter(v, Len(v.entries)),
                     hash_prev |-> HashAfter(v, Len(v.entries)),
                     hash_hdr |-> HeaderInfoHash(v.header), pub_key |-> to, alg |-> alg]
    <2>1. e \in Entries /\ Sign(e) /\ e.hash_prev = HashAfter(v, Len(v.entries))
      BY <1>2, ExtendEntry DEF Extend
    <2> HIDE DEF e
    <2>2. v \in AnyVoucher /\ InCustody(v)
      BY VouchersAreSeqs DEF Circulating
    <2>3. signed' = Append(signed, e) /\ signed \in Seq(Entries)
      BY <2>1 DEF Sign, TypeOK
    <2>4. InCustody(v)' /\ v \in AnyVoucher'
      BY <2>1, <2>2, <2>3, CustodyStable
    <2>5. Len(signed') = Len(signed) + 1 /\ Len(signed) \in Nat /\ signed'[Len(signed) + 1] = e
      BY <2>1, <2>3, AppendProperties, LenProperties
    <2>6. transfers' = transfers \cup {[id |-> Len(signed) + 1, over |-> v]}
      BY <1>2 DEF Extend
    <2>7. HashAfter(v, Len(v.entries))' = HashAfter(v, Len(v.entries))
      BY DEF HashAfter
    <2>8. ASSUME NEW n \in 1..Len(signed'), signed'[n].by \in Honest
          PROVE  \E u \in AnyVoucher' :
                     /\ [id |-> n, over |-> u] \in transfers'
                     /\ InCustody(u)'
                     /\ signed'[n].hash_prev = HashAfter(u, Len(u.entries))'
      <3>1. CASE n = Len(signed) + 1
        BY <2>1, <2>4, <2>5, <2>6, <2>7, <3>1
      <3>2. CASE n # Len(signed) + 1
        <4>1. n \in 1..Len(signed) /\ transfers \subseteq transfers'
          BY <2>5, <2>6, <3>2
        <4> QED BY <2>1, <2>8, <4>1, SignKeepsTransfers DEF IInv
      <3> QED BY <3>1, <3>2
    <2> QED BY <1>1, <2>1, <2>8 DEF TransfersInv, Sign
  <1>3. ASSUME NEW k \in Keys \ Honest, NEW prev \in Hashes, NEW h \in Headers,
               NEW to \in Keys \cup {Unsupported}, NEW alg \in Algs,
               SignAnything(k, prev, h, to, alg)
        PROVE  TransfersInv' /\ pc' = "idle"
    <2> DEFINE e == [by |-> k, hash_prev |-> prev, hash_hdr |-> HeaderInfoHash(h),
                     pub_key |-> to, alg |-> alg]
    <2>1. e \in Entries /\ Sign(e) /\ e.by \notin Honest
      BY <1>3, AnythingEntry DEF SignAnything
    <2> HIDE DEF e
    <2>2. signed' = Append(signed, e) /\ signed \in Seq(Entries)
      BY <2>1 DEF Sign, TypeOK
    <2>3. Len(signed') = Len(signed) + 1 /\ Len(signed) \in Nat /\ signed'[Len(signed) + 1] = e
      BY <2>1, <2>2, AppendProperties, LenProperties
    <2>4. transfers' = transfers
      BY <1>3 DEF SignAnything
    <2>5. ASSUME NEW n \in 1..Len(signed'), signed'[n].by \in Honest
          PROVE  \E u \in AnyVoucher' :
                     /\ [id |-> n, over |-> u] \in transfers'
                     /\ InCustody(u)'
                     /\ signed'[n].hash_prev = HashAfter(u, Len(u.entries))'
      <3>1. n \in 1..Len(signed)
        BY <2>1, <2>3, <2>5
      <3> QED BY <2>1, <2>4, <2>5, <3>1, SignKeepsTransfers DEF IInv
    <2> QED BY <1>1, <2>1, <2>5 DEF TransfersInv, Sign
  <1>4. TransfersInv' /\ pc' = "idle"
    BY <1>2, <1>3 DEF Owners
  <1> QED BY <1>4 DEF IInv, WalkInv, CustodyAgreement, CurrentIdentity, VerdictExact, Accepted

\* Up to the HMAC: a header that passes is the one of the current identity, and
\* no other voucher ends in its hash.
LEMMA BeginStep ==
    ASSUME TypeOK, IInv, NEW h \in Headers, NEW of, NEW r \in BOOLEAN, NEW tpm_ok \in BOOLEAN,
           Begin(h, of, r, tpm_ok)
    PROVE  IInv'
  <1> USE VoucherAssumption
  <1>1. /\ header' = h /\ raw' = r /\ entries' = <<>>
        /\ prev_key' = h.mfg /\ prev_hash' = HeaderHash(h, r)
        /\ UNCHANGED <<signed, transfers, hmacs, identity>>
    BY DEF Begin, world
  <1>2. TransfersInv'
    BY <1>1, TransfersKept DEF IInv
  <1>3. CASE pc' = "done"
    <2>1. /\ result' \in Errors
          /\ \/ h.mfg \notin Keys
             \/ result' \in {"GuidMismatch", "HmacUnavailable", "HmacMismatch"}
      BY <1>3 DEF Begin, HeaderParses, Return, Errors
    <2>2. result' \notin Keys
      BY <2>1
    <2>3. h.mfg \notin Keys => ~Processable(Presented)'
      BY <1>1 DEF Processable, Presented
    <2> QED BY <1>2, <1>3, <2>1, <2>2, <2>3
            DEF IInv, WalkInv, CustodyAgreement, CurrentIdentity, VerdictExact, Accepted
  <1>4. CASE pc' = "entries"
    <2>1. h.mfg \in Keys /\ GuidMatches(h) /\ of = {h} /\ of \subseteq hmacs
      BY <1>4 DEF Begin, HeaderParses, Return, HmacMatches
    <2>2. identity' = {header'}
      <3>1. PICK c \in identity : h.guid = c.guid
        BY <2>1 DEF GuidMatches
      <3>2. c \in Minted /\ h \in Minted /\ identity = {c}
        BY <2>1, <3>1 DEF TypeOK
      <3> QED BY <1>1, <3>1, <3>2
    <2>3. Presented' = [header |-> h, raw |-> r, entries |-> <<>>] /\ DOMAIN entries' = {}
          /\ Len(entries') = 0
      BY <1>1 DEF Presented
    <2>4. InCustody(Presented)' /\ Processable(Presented)' /\ Agreed'
      BY <1>1, <2>1, <2>3 DEF InCustody, Processable, Agreed
    <2>5. /\ prev_key' = OwnerAfter(Presented, Len(entries))'
          /\ prev_hash' = HashAfter(Presented, Len(entries))'
      BY <1>1, <2>3 DEF OwnerAfter, HashAfter
    <2>6. ASSUME NEW v \in AnyVoucher', HashAfter(v, Len(v.entries))' = prev_hash'
          PROVE  v = Presented'
      <3>1. Len(v.entries) = 0
        BY <1>1, <2>6 DEF HashAfter, HeaderHash, EntryHash
      <3>2. v.entries = <<>>
        BY <3>1, EmptySeq DEF AnyVoucher
      <3>3. v.header = h /\ v.raw = r
        BY <1>1, <2>6, <3>1 DEF HashAfter, HeaderHash
      <3> QED BY <2>3, <3>2, <3>3 DEF AnyVoucher
    <2>7. WalkInv'
      BY <2>2, <2>4, <2>5, <2>6 DEF WalkInv
    <2> QED BY <1>2, <1>4, <2>7 DEF IInv, CustodyAgreement, CurrentIdentity, VerdictExact, Accepted
  <1> QED BY <1>3, <1>4 DEF Begin, Return

\* One iteration. An entry that passes leaves prev_hash naming the longer voucher
\* alone; one that is refused is not in custody or cannot be processed.
LEMMA EntryStep ==
    ASSUME TypeOK, IInv, NEW b \in Bytes(Len(signed)), Entry(b)
    PROVE  IInv'
  <1> USE VoucherAssumption
  <1>0. PICK w, L : /\ w = PresentedAnd(b)
                    /\ L = Len(entries) + 1
    OBVIOUS
  <1>1. /\ pc = "entries" /\ header' = header /\ raw' = raw /\ entries' = Append(entries, b)
        /\ UNCHANGED <<signed, transfers, hmacs, identity>>
    BY DEF Entry, world
  <1>2. Presented' = w
    BY <1>0, <1>1 DEF Presented, PresentedAnd
  <1>3. TransfersInv'
    BY <1>1, TransfersKept DEF IInv
  <1>3b. /\ Presented \in AnyVoucher
         /\ w \in AnyVoucher
         /\ Len(w.entries) = Len(entries) + 1
         /\ Len(entries) \in Nat
         /\ DOMAIN entries = 1..Len(entries)
         /\ DOMAIN w.entries = 1..(Len(entries) + 1)
         /\ w.entries[Len(entries) + 1] = b
         /\ \A n \in 1..Len(entries) : w.entries[n] = entries[n]
         /\ \A n \in 0..Len(entries) :
               /\ OwnerAfter(w, n) = OwnerAfter(Presented, n)
               /\ HashAfter(w, n) = HashAfter(Presented, n)
               /\ Upto(w, n) = Upto(Presented, n)
         /\ \A n \in 1..Len(entries) : Continues(w, n) <=> Continues(Presented, n)
         /\ Upto(w, Len(entries)) = Presented
    BY <1>0, Longer
  <1>4. /\ Presented \in AnyVoucher /\ w \in AnyVoucher
        /\ Len(w.entries) = L /\ Len(entries) \in Nat
        /\ DOMAIN entries = 1..Len(entries) /\ DOMAIN w.entries = 1..L
        /\ w.entries[L] = b /\ \A n \in 1..Len(entries) : w.entries[n] = entries[n]
        /\ \A n \in 0..Len(entries) :
              /\ OwnerAfter(w, n) = OwnerAfter(Presented, n)
              /\ HashAfter(w, n) = HashAfter(Presented, n)
              /\ Upto(w, n) = Upto(Presented, n)
        /\ \A n \in 1..Len(entries) : Continues(w, n) <=> Continues(Presented, n)
        /\ L = Len(entries) + 1
        /\ Upto(w, Len(entries)) = Presented
    BY <1>0, <1>3b
  <1>5. w.header = header /\ w.raw = raw /\ w.entries = entries'
    BY <1>0, <1>1 DEF PresentedAnd
  <1>6. /\ InCustody(Presented) /\ Processable(Presented) /\ Agreed /\ identity = {header}
        /\ prev_key = OwnerAfter(Presented, Len(entries))
        /\ prev_hash = HashAfter(Presented, Len(entries))
        /\ \A v \in AnyVoucher :
              InCustody(v) /\ HashAfter(v, Len(v.entries)) = prev_hash => v = Presented
    BY <1>1 DEF IInv, WalkInv
  <1>7. OwnerAfter(w, L - 1) = prev_key /\ HashAfter(w, L - 1) = prev_hash
    BY <1>4, <1>6
  <1>8. /\ (InCustody(w)' <=> InCustody(w)) /\ (Processable(w)' <=> Processable(w))
        /\ OwnerAfter(w, L)' = signed[b.id].pub_key
        /\ HashAfter(w, L)' = EntryHash(b)
    <2>1. (InCustody(w)' <=> InCustody(w)) /\ (Processable(w)' <=> Processable(w))
      BY <1>1 DEF InCustody, Continues, Processable, OwnerAfter, HashAfter
    <2>2. L # 0
      BY <1>4
    <2> QED BY <1>1, <1>4, <2>1, <2>2 DEF OwnerAfter, HashAfter
  <1>9. CASE EntryError(b) = {} /\ Advance(b) /\ UNCHANGED <<pc, result>>
    <2>1. /\ b.id # 0 /\ b.unprotected # "delegate" /\ signed[b.id].by = prev_key
          /\ signed[b.id].pub_key \in Keys /\ signed[b.id].alg = "SHA256"
          /\ signed[b.id].hash_hdr = HeaderInfoHash(header)
          /\ signed[b.id].hash_prev = prev_hash
      BY <1>9, EntryPasses
    <2>2. prev_key' = signed[b.id].pub_key /\ prev_hash' = EntryHash(b) /\ pc' = "entries"
      BY <1>1, <1>9 DEF Advance
    <2>3. InCustody(w)
      <3>1. Continues(w, L)
        BY <1>4, <1>5, <1>7, <2>1 DEF Continues
      <3> QED BY <1>4, <1>6, <3>1 DEF InCustody, Presented
    <2>4. Processable(w)
      BY <1>4, <1>5, <1>6, <2>1 DEF Processable, Presented
    <2>5. ASSUME NEW v \in AnyVoucher, InCustody(v), HashAfter(v, Len(v.entries)) = EntryHash(b)
          PROVE  v = w
      <3>1. Len(v.entries) # 0 /\ v.entries[Len(v.entries)] = b
        BY <2>5 DEF HashAfter, HeaderHash, EntryHash
      <3> DEFINE u == Upto(v, Len(v.entries) - 1)
      <3>2. /\ u \in AnyVoucher /\ InCustody(u)
            /\ signed[b.id].hash_prev = HashAfter(u, Len(u.entries))
            /\ v.entries = Append(u.entries, b)
        BY <2>5, <3>1, Shorter
      <3>3. u.header = v.header /\ u.raw = v.raw
        BY DEF Upto
      <3> HIDE DEF u
      <3>4. u = Presented
        BY <1>6, <2>1, <3>2
      <3>5. v.header = header /\ v.raw = raw /\ v.entries = Append(entries, b)
        BY <3>2, <3>3, <3>4 DEF Presented
      <3> QED BY <1>0, <3>5 DEF AnyVoucher, PresentedAnd
    <2>6. ASSUME NEW n \in DOMAIN entries', signed'[entries'[n].id].by \in Honest
          PROVE  [id |-> entries'[n].id, over |-> Upto(w, n - 1)] \in transfers'
      <3>1. CASE n = L
        <4>1. b.id \in 1..Len(signed) /\ signed[b.id].by \in Honest
          BY <1>1, <1>4, <1>5, <2>1, <2>6, <3>1, EntryType
        <4>2. PICK v \in AnyVoucher :
                  /\ [id |-> b.id, over |-> v] \in transfers
                  /\ InCustody(v)
                  /\ signed[b.id].hash_prev = HashAfter(v, Len(v.entries))
          BY <4>1 DEF IInv, TransfersInv
        <4>3. v = Presented
          BY <1>6, <2>1, <4>2
        <4>4. Upto(w, n - 1) = Presented
          BY <1>4, <3>1
        <4> QED BY <1>1, <1>4, <1>5, <3>1, <4>2, <4>3, <4>4
      <3>2. CASE n # L
        <4>1. n \in 1..Len(entries) /\ n - 1 \in 0..Len(entries) /\ entries'[n] = entries[n]
          BY <1>4, <1>5, <2>6, <3>2
        <4>2. [id |-> entries[n].id, over |-> Upto(Presented, n - 1)] \in transfers
          BY <1>1, <1>4, <1>6, <2>6, <4>1 DEF Agreed
        <4> QED BY <1>1, <1>4, <4>1, <4>2
      <3> QED BY <3>1, <3>2
    <2>7. Agreed'
      BY <1>2, <2>6 DEF Agreed, Upto
    <2>8. AnyVoucher' = AnyVoucher /\ Len(entries') = L
      BY <1>1, <1>4, <1>5 DEF AnyVoucher
    <2>9. ASSUME NEW v \in AnyVoucher', InCustody(v)', HashAfter(v, Len(v.entries))' = prev_hash'
          PROVE  v = w
      <3>1. /\ InCustody(v)' <=> InCustody(v)
            /\ HashAfter(v, Len(v.entries))' = HashAfter(v, Len(v.entries))
        BY <1>1 DEF InCustody, Continues, OwnerAfter, HashAfter
      <3> QED BY <2>2, <2>5, <2>8, <2>9, <3>1
    <2>10. /\ InCustody(Presented)' /\ Processable(Presented)'
           /\ prev_key' = OwnerAfter(Presented, Len(entries))'
           /\ prev_hash' = HashAfter(Presented, Len(entries))'
      <3>1. /\ (InCustody(Presented)' <=> InCustody(w)') /\ (Processable(Presented)' <=> Processable(w)')
            /\ OwnerAfter(Presented, Len(entries))' = OwnerAfter(w, L)'
            /\ HashAfter(Presented, Len(entries))' = HashAfter(w, L)'
        BY <1>1, <1>2, <2>8 DEF InCustody, Continues, Processable, OwnerAfter, HashAfter
      <3> QED BY <1>8, <2>2, <2>3, <2>4, <3>1
    <2>11. WalkInv'
      BY <1>1, <1>2, <1>6, <2>7, <2>9, <2>10 DEF WalkInv
    <2> QED BY <1>3, <2>2, <2>11 DEF IInv, CustodyAgreement, CurrentIdentity, VerdictExact, Accepted
  <1>10. CASE \E err \in EntryError(b) : Return(err)
    <2>1. pc' = "done" /\ result' \in EntryError(b) /\ result' \in Errors
      BY <1>10, EntryErrorType DEF Return
    <2>2. result' \notin Keys
      BY <2>1
    <2>3. ~(InCustody(w) /\ Processable(w))
      <3> SUFFICES ASSUME InCustody(w), Processable(w) PROVE FALSE
        OBVIOUS
      <3>1. Continues(w, L) /\ L \in DOMAIN w.entries
        BY <1>4 DEF InCustody
      <3>2. /\ b.id # 0 /\ signed[b.id].by = prev_key
            /\ signed[b.id].hash_hdr = HeaderInfoHash(header)
            /\ signed[b.id].hash_prev = prev_hash
        BY <1>4, <1>5, <1>7, <3>1 DEF Continues
      <3>3. b.unprotected # "delegate" /\ signed[b.id].pub_key \in Keys /\ signed[b.id].alg = "SHA256"
        BY <1>4, <3>1 DEF Processable
      <3>4. EntryError(b) = {}
        BY <3>2, <3>3 DEF EntryError, KeyParses, PrevHashMatches
      <3> QED BY <2>1, <3>4
    <2>4. (InCustody(Presented)' <=> InCustody(w)') /\ (Processable(Presented)' <=> Processable(w)')
      BY <1>1, <1>2 DEF InCustody, Continues, Processable, OwnerAfter, HashAfter
    <2>5. VerdictExact'
      BY <1>8, <2>2, <2>3, <2>4 DEF VerdictExact
    <2> QED BY <1>3, <2>1, <2>2, <2>5 DEF IInv, WalkInv, CustodyAgreement, CurrentIdentity, Accepted
  <1> QED BY <1>9, <1>10 DEF Entry

\* The end of the loop: the invariant of the walk gives the three properties.
LEMMA AcceptStep ==
    ASSUME TypeOK, IInv, Accept
    PROVE  IInv'
  <1>1. /\ pc = "entries" /\ pc' = "done" /\ result' = prev_key /\ prev_key \in Keys
        /\ UNCHANGED <<signed, transfers, identity, header, raw, entries>>
    BY DEF Accept, Return, world, presented, TypeOK
  <1>2. TransfersInv'
    BY <1>1, TransfersKept DEF IInv
  <1>3. /\ InCustody(Presented) /\ Processable(Presented) /\ Agreed /\ identity = {header}
        /\ prev_key = OwnerAfter(Presented, Len(entries))
    BY <1>1 DEF IInv, WalkInv
  <1>4. /\ Presented' = Presented
        /\ InCustody(Presented)' /\ Processable(Presented)'
        /\ OwnerAfter(Presented, Len(entries))' = OwnerAfter(Presented, Len(entries))
    BY <1>1, <1>3 DEF Presented, InCustody, Continues, Processable, OwnerAfter, HashAfter
  <1>5. CustodyAgreement'
    BY <1>1, <1>3, <1>4 DEF CustodyAgreement, Agreed, Upto
  <1> QED BY <1>1, <1>2, <1>3, <1>4, <1>5 DEF IInv, WalkInv, CurrentIdentity, VerdictExact

\* The inductive invariant: honest entries are transfers of vouchers in custody,
\* and at every iteration prev_hash names exactly one voucher, the one examined.
THEOREM InvHolds == Spec => []IInv
  <1>1. Init => IInv
    BY DEF Init, IInv, TransfersInv, WalkInv, CustodyAgreement, CurrentIdentity, VerdictExact,
           Accepted
  <1>2. TypeOK /\ IInv /\ [Next]_vars => IInv'
    <2> SUFFICES ASSUME TypeOK, IInv, [Next]_vars PROVE IInv'
      OBVIOUS
    <2>1. CASE Owners
      BY <2>1, OwnersStep
    <2>2. ASSUME NEW h \in Minted, Initialize(h)
          PROVE  IInv'
      <3>1. pc' = "idle" /\ UNCHANGED <<signed, transfers>>
        BY <2>2 DEF Initialize
      <3>2. TransfersInv'
        BY <3>1, TransfersKept DEF IInv
      <3> QED BY <3>1, <3>2 DEF IInv, WalkInv, CustodyAgreement, CurrentIdentity, VerdictExact, Accepted
    <2>3. ASSUME NEW h \in Headers, NEW of, NEW r \in BOOLEAN, NEW tpm_ok \in BOOLEAN,
                 Begin(h, of, r, tpm_ok)
          PROVE  IInv'
      BY <2>3, BeginStep
    <2>4. ASSUME NEW b \in Bytes(Len(signed)), Entry(b)
          PROVE  IInv'
      BY <2>4, EntryStep
    <2>5. CASE Accept
      BY <2>5, AcceptStep
    <2>6. CASE UNCHANGED vars
      <3>1. UNCHANGED <<signed, transfers, identity, pc, header, raw, entries,
                        prev_key, prev_hash, result>>
        BY <2>6 DEF vars, world, presented, chain
      <3>2. TransfersInv'
        BY <3>1, TransfersKept DEF IInv
      <3>3. WalkInv'
        BY <3>1 DEF IInv, WalkInv, Agreed, AnyVoucher, InCustody, Continues, Processable,
                    OwnerAfter, HashAfter, Presented, Upto
      <3>4. CustodyAgreement'
        BY <3>1 DEF IInv, CustodyAgreement, Accepted, Presented, Upto
      <3>5. CurrentIdentity' /\ VerdictExact'
        BY <3>1 DEF IInv, CurrentIdentity, VerdictExact, Accepted, InCustody, Continues, Processable,
                    OwnerAfter, HashAfter, Presented
      <3> QED BY <3>2, <3>3, <3>4, <3>5 DEF IInv
    <2> QED BY <2>1, <2>2, <2>3, <2>4, <2>5, <2>6 DEF Next
  <1> QED BY <1>1, <1>2, TypeCorrect, PTL DEF Spec

\* verify_voucher's hash chain does what its comment says: in an accepted voucher,
\* of any length, every honest owner's entry is a transfer of what precedes it.
THEOREM Custody == Spec => []CustodyAgreement
  BY InvHolds, PTL DEF IInv

\* Only the voucher of the device's present identity is accepted.
THEOREM Identity == Spec => []CurrentIdentity
  BY InvHolds, PTL DEF IInv

\* The loop decides exactly the vouchers in custody that can be processed.
THEOREM Verdict == Spec => []VerdictExact
  BY InvHolds, PTL DEF IInv
=============================================================================
