----------------------------- MODULE DeviceProofs -----------------------------
(***************************************************************************)
(* Proofs about module Device, for any number of boots, of GUIDs and of DI *)
(* attempts, any voucher headers and firmware files, any default size of   *)
(* the index and any adversities.                                          *)
(***************************************************************************)
EXTENDS Device, SequenceTheorems, NaturalsInduction, WellFoundedInduction, TLAPS

InDi == {"evictDak", "createDak", "appStart", "evictHmac", "createHmac", "setHmac"}

\* tpm_nv_write, called by DI or, with no caller of DI, by the ratchet.
Rewriting == {"undefine", "define", "write"}

FirmwareAccepted == pc \in {"ratchet", "start", "running"} \/ (pc \in Rewriting /\ caller = "none")

\* Whoever runs DI is known while it runs, and -force-di is given on a command line.
Control ==
    /\ force => "force" \in adversity
    /\ pc \in InDi => caller # "none"
    /\ pc \notin InDi \cup Rewriting => caller = "none"

\* There is an index when one is written.
IndexDefined == pc = "write" /\ dctpm # {} => nv # {}

\* DI finds no credential and leaves none before it has written its own.
DiFindsNothing == DiOnlyOnce /\ caller # "none" => Stored = {}

BothKeys == "DAK" \in keys /\ ("persist" \notin adversity => "HMAC" \in keys)

\* DI goes on only with the keys it has made, and the ratchet rewrites only a
\* credential whose keys are there.
KeysAtHandles ==
    DiOnlyOnce =>
        /\ pc \in {"appStart", "evictHmac", "createHmac", "setHmac"} => "DAK" \in keys
        /\ pc \in {"setHmac"} \cup Rewriting => BothKeys

\* What is about to be written has a voucher.
PendingBacked == pc \in Rewriting => \A d \in dctpm : d.guid \in vouchers

\* Only a device whose RendezvousInfo is that long holds a credential without room.
AllRoomy == "tight" \notin adversity => \A d \in Stored \cup dctpm : Roomy(d)

\* A device without a credential has not stored a minimum yet, and neither has one
\* whose index may be defined again: an index of an older build, without room for any.
NothingToLose ==
    MinRevKept =>
        /\ Stored = {} \/ pc \in Rewriting => floor = 0
        /\ \A i \in nv : \A d \in i.data :
              \/ i.size >= d.first_ten + MaxUintLen
              \/ i.size <= d.first_ten /\ floor = 0

\* The ratchet redefines only an index without room.
RewriteNeedsRoom ==
    pc \in Rewriting /\ caller = "none" =>
        \A i \in nv : \A d \in i.data : i.size < d.first_ten + MaxUintLen

\* What check_firmware_rev established is still so when the firmware is started.
RevStillAccepted ==
    "read" \notin adversity =>
        /\ pc \in {"download", "checkRev"} => dctpm = Stored
        /\ FirmwareAccepted =>
              \A f \in fw :
                  /\ MinRevKept => f.firmware_rev >= floor
                  /\ \A d \in Stored : /\ f.firmware_rev >= d.min_firmware_rev
                                      /\ f.firmware_rev >= ParsedMinRev(d.rv_revs)
        /\ pc \in Rewriting /\ caller = "none" =>
              \A f \in fw : \A d \in dctpm :
                  /\ f.firmware_rev >= d.min_firmware_rev
                  /\ f.firmware_rev >= ParsedMinRev(d.rv_revs)

\* The inductive invariant.
IInv ==
    /\ TypeOK
    /\ Control
    /\ IndexDefined
    /\ DiFindsNothing
    /\ KeysAtHandles
    /\ PendingBacked
    /\ AllRoomy
    /\ NothingToLose
    /\ RewriteNeedsRoom
    /\ RevStillAccepted
    /\ MinRevNeverLowered
    /\ CredentialBacked

-----------------------------------------------------------------------------
(* The operators                                                            *)

LessThan == {p \in Nat \X Nat : p[1] < p[2]}

\* A set of naturals that is not empty has a least element.
LEMMA LeastNat ==
    ASSUME NEW T \in SUBSET Nat, T # {}
    PROVE  \E x \in T : \A y \in T : x <= y
  <1>1. IsWellFoundedOn(LessThan, Nat)
    BY NatLessThanWellFounded DEF OpToRel, LessThan
  <1>2. PICK x \in T : \A y \in T : ~(<<y, x>> \in LessThan)
    BY <1>1, WFMin
  <1>3. \A a, b \in Nat : ~(<<b, a>> \in LessThan) => a <= b
    BY DEF LessThan
  <1> QED BY <1>2, <1>3

\* The numbers of a sequence have an upper bound.
LEMMA SeqBounded ==
    ASSUME NEW revs \in Seq(Nat)
    PROVE  \E n \in Nat : \A i \in DOMAIN revs : revs[i] <= n
  <1>1. Len(revs) \in Nat /\ DOMAIN revs = 1..Len(revs) /\ \A i \in 1..Len(revs) : revs[i] \in Nat
    BY LenProperties, ElementOfSeq
  <1> DEFINE Bounded(k) == \E n \in Nat : \A i \in 1..k : revs[i] <= n
             T == {k \in 0..Len(revs) : ~Bounded(k)}
  <1>2. Bounded(0)
    OBVIOUS
  <1>3. ASSUME NEW k \in 1..Len(revs), Bounded(k - 1)
        PROVE  Bounded(k)
    <2>1. PICK n \in Nat : \A i \in 1..(k - 1) : revs[i] <= n
      BY <1>3
    <2>2. revs[k] \in Nat /\ k \in Nat
      BY <1>1
    <2>3. PICK m \in Nat : m >= n /\ m >= revs[k]
      <3>1. CASE n >= revs[k]
        BY <3>1
      <3>2. CASE ~(n >= revs[k])
        BY <2>2, <3>2
      <3> QED BY <3>1, <3>2
    <2>4. \A i \in 1..k : revs[i] <= m
      <3> TAKE i \in 1..k
      <3>1. revs[i] \in Nat
        BY <1>1
      <3> QED BY <2>1, <2>2, <2>3, <3>1
    <2> QED BY <2>4
  <1>4. T = {}
    <2> HIDE DEF Bounded
    <2>1. SUFFICES ASSUME T # {} PROVE FALSE
      OBVIOUS
    <2>2. T \in SUBSET Nat
      BY <1>1
    <2>3. PICK k \in T : \A j \in T : k <= j
      <3> HIDE DEF T
      <3> QED BY <2>1, <2>2, LeastNat
    <2>4. k # 0 /\ k \in 0..Len(revs) /\ ~Bounded(k)
      BY <1>2
    <2>5. k \in 1..Len(revs) /\ k - 1 \in 0..Len(revs)
      BY <1>1, <2>4
    <2>6. k - 1 \notin T
      BY <2>2, <2>3, <2>5
    <2> QED BY <1>3, <2>4, <2>5, <2>6
  <1>5. Bounded(Len(revs))
    <2> HIDE DEF Bounded
    <2> QED BY <1>1, <1>4
  <1> QED BY <1>1, <1>5

\* dctpm::rv_min_firmware_rev is one of the values of the RendezvousInfo, or 0,
\* and none of them is above it.
LEMMA RvMinIsMax ==
    ASSUME NEW revs \in Seq(Nat)
    PROVE  /\ RvMinFirmwareRev(revs) \in Nat
           /\ \A i \in DOMAIN revs : RvMinFirmwareRev(revs) >= revs[i]
  <1> DEFINE found == {0} \cup {revs[i] : i \in DOMAIN revs}
             T == {n \in Nat : \A x \in found : x <= n}
  <1>1. found \in SUBSET Nat
    BY ElementOfSeq, LenProperties
  <1>2. T # {}
    <2>1. PICK n \in Nat : \A i \in DOMAIN revs : revs[i] <= n
      BY SeqBounded
    <2>2. \A x \in found : x <= n
      BY <2>1
    <2> QED BY <2>2
  <1>3. PICK m \in T : \A n \in T : m <= n
    <2>1. T \in SUBSET Nat
      OBVIOUS
    <2> HIDE DEF T
    <2> QED BY <1>2, <2>1, LeastNat
  <1>4. m \in found
    <2>1. SUFFICES ASSUME m \notin found PROVE FALSE
      OBVIOUS
    <2>2. m # 0 /\ m - 1 \in Nat
      BY <2>1, <1>3
    <2>3. \A x \in found : x <= m - 1
      BY <1>1, <1>3, <2>1, <2>2
    <2>4. m - 1 \in T
      BY <2>2, <2>3
    <2>5. m \in Nat /\ m <= m - 1
      BY <1>3, <2>4
    <2> QED BY <2>5
  <1>5. \E x \in found : \A y \in found : x >= y
    BY <1>1, <1>3, <1>4
  <1>6. RvMinFirmwareRev(revs) = CHOOSE x \in found : \A y \in found : x >= y
    BY DEF RvMinFirmwareRev
  <1>7. RvMinFirmwareRev(revs) \in found /\ \A y \in found : RvMinFirmwareRev(revs) >= y
    <2> HIDE DEF found
    <2> QED BY <1>5, <1>6
  <1> QED BY <1>1, <1>7

\* The program holds one firmware file at most.
LEMMA FwType ==
    ASSUME TypeOK
    PROVE  \A f, g \in fw : f = g /\ f.firmware_rev \in Nat
  <1>1. fw = {} \/ \E x \in Firmwares : fw = {x}
    BY DEF TypeOK, Opt
  <1>2. \A x \in Firmwares : x.firmware_rev \in Nat
    BY DeviceAssumption DEF Firmware
  <1> QED BY <1>1, <1>2

\* What is stored is one credential at most, in the one index.
LEMMA StoredType ==
    ASSUME TypeOK
    PROVE  /\ Stored \subseteq Dctpm
           /\ AtMostOne(Stored)
           /\ \A d : d \in Stored <=> \E i \in nv : d \in i.data
  <1>1. \A d : d \in Stored <=> \E i \in nv : d \in i.data
    BY DEF Stored
  <1>2. Stored \subseteq Dctpm
    BY <1>1 DEF TypeOK
  <1>3. AtMostOne(Stored)
    BY <1>1 DEF TypeOK, AtMostOne
  <1> QED BY <1>1, <1>2, <1>3

\* A read returns what is stored, or nothing on a device where it may fail.
LEMMA NvReadIsStored ==
    ASSUME NEW data \in NvRead
    PROVE  /\ data = {} \/ data = Stored
           /\ "read" \notin adversity => data = Stored
  BY DEF NvRead

\* The sizes of a credential and of the index it is written into.
LEMMA Sizes ==
    ASSUME NEW d \in Dctpm
    PROVE  /\ Length(d) \in Nat
           /\ d.first_ten < Length(d)
           /\ Length(d) <= d.first_ten + MaxUintLen
           /\ DctpmPadded(d) \in Nat
           /\ DctpmPadded(d) >= DefaultSize
  <1>1. d.first_ten \in Nat /\ d.min_firmware_rev \in Nat
    BY DEF Dctpm
  <1>2. EncodeUintLen(d.min_firmware_rev) \in {1, 2, 3, 5, 9}
    <2> HIDE <1>1
    <2> QED BY DEF EncodeUintLen, MaxUintLen
  <1>3. Length(d) \in Nat /\ d.first_ten < Length(d) /\ Length(d) <= d.first_ten + MaxUintLen
    BY <1>1, <1>2 DEF Length, MaxUintLen
  <1> QED BY <1>3, DeviceAssumption DEF DctpmPadded

\* One NV_Write replaces the data of the index and leaves its size.
LEMMA NvWriteStores ==
    ASSUME TypeOK, NEW d \in Dctpm, NvWrite(d)
    PROVE  /\ nv' \subseteq [size : Nat, data : SUBSET Dctpm]
           /\ AtMostOne(nv)' /\ \A i \in nv' : AtMostOne(i.data)
           /\ \A j \in nv' : j.data = {d} /\ \E i \in nv : j.size = i.size
           /\ nv # {} => Stored' = {d}
           /\ nv = {} => Stored' = {}
           /\ floor' \in Nat /\ floor' >= floor /\ floor' >= d.min_firmware_rev
           /\ floor' = floor \/ floor' = d.min_firmware_rev
  <1>1. \A i \in nv : i \in [size : Nat, data : SUBSET Dctpm]
    BY DEF TypeOK
  <1>2. \A i \in nv : [i EXCEPT !.data = {d}] = [size |-> i.size, data |-> {d}]
    BY <1>1
  <1>3. nv' = {[size |-> i.size, data |-> {d}] : i \in nv}
    BY <1>2 DEF NvWrite
  <1>4. nv' \subseteq [size : Nat, data : SUBSET Dctpm]
    BY <1>1, <1>3
  <1>5. AtMostOne(nv)' /\ \A i \in nv' : AtMostOne(i.data)
    <2>1. \A i, j \in nv : i = j
      BY DEF TypeOK, AtMostOne
    <2>2. \A i, j \in nv' : i = j
      BY <1>3, <2>1
    <2>3. \A i \in nv' : i.data = {d}
      BY <1>3
    <2> QED BY <2>2, <2>3 DEF AtMostOne
  <1>6. \A j \in nv' : j.data = {d} /\ \E i \in nv : j.size = i.size
    BY <1>3
  <1>7. (nv # {} => Stored' = {d}) /\ (nv = {} => Stored' = {})
    <2>1. \A e : e \in Stored' <=> \E j \in nv' : e \in j.data
      BY DEF Stored
    <2>2. nv' = {} <=> nv = {}
      BY <1>3
    <2>3. \A e : e \in Stored' <=> nv # {} /\ e = d
      BY <1>6, <2>1, <2>2
    <2> QED BY <2>3
  <1>8. d.min_firmware_rev \in Nat /\ floor \in Nat
    BY DEF TypeOK, Dctpm
  <1>9. /\ floor' \in Nat /\ floor' >= floor /\ floor' >= d.min_firmware_rev
        /\ floor' = floor \/ floor' = d.min_firmware_rev
    BY <1>8 DEF NvWrite
  <1> QED BY <1>4, <1>5, <1>6, <1>7, <1>9

-----------------------------------------------------------------------------
(* Type correctness                                                         *)

\* The locals of the program and where it is.
LocalsOK ==
    /\ pc \in Labels
    /\ boots \in 0..MaxBoots
    /\ force \in BOOLEAN
    /\ caller \in {"none", "delivery", "main"}
    /\ attempt \in 0..DiMaxAttempts
    /\ dctpm \subseteq Dctpm /\ AtMostOne(dctpm)
    /\ fw \in Opt(Firmwares)

\* The TPM and what the outside has seen of the device.
WorldOK ==
    /\ nv \subseteq [size : Nat, data : SUBSET Dctpm]
    /\ AtMostOne(nv) /\ \A i \in nv : AtMostOne(i.data)
    /\ keys \subseteq {"DAK", "HMAC"}
    /\ issued \in 0..MaxGuids
    /\ vouchers \subseteq 0..MaxGuids
    /\ floor \in Nat

\* The two are the type invariant.
LEMMA TypeParts == (TypeOK <=> LocalsOK /\ WorldOK) /\ (TypeOK' <=> LocalsOK' /\ WorldOK')
  BY DEF TypeOK, LocalsOK, WorldOK

\* The ways in which a handler ends, none of which touches the world.
LEMMA EndingsType ==
    ASSUME TypeOK
    PROVE  /\ Exit => TypeOK'
           /\ \A l \in Labels : Goto(l) => TypeOK'
           /\ \A by \in {"delivery", "main"} : StartDi(by) => TypeOK'
           /\ AttemptFails => LocalsOK'
           /\ DiSucceeds => LocalsOK'
           /\ WriteFailed => LocalsOK'
           /\ WriteDone => LocalsOK'
  <1> USE DeviceAssumption
  <1>0. ASSUME ForgetLocals, pc' \in Labels, UNCHANGED boots
        PROVE  LocalsOK'
    <2>1. {} \in Opt(Firmwares)
      BY DEF Opt
    <2>2. attempt' \in 0..DiMaxAttempts /\ boots' \in 0..MaxBoots
      BY <1>0 DEF TypeOK, ForgetLocals
    <2>3. dctpm' \subseteq Dctpm /\ AtMostOne(dctpm)' /\ fw' \in Opt(Firmwares)
      BY <1>0, <2>1 DEF ForgetLocals, AtMostOne
    <2> QED BY <1>0, <2>2, <2>3 DEF LocalsOK, ForgetLocals
  <1>1. Exit => TypeOK'
    <2> HAVE Exit
    <2>1. LocalsOK'
      BY <1>0 DEF Exit, Labels
    <2>2. WorldOK'
      BY DEF TypeOK, Exit, WorldOK, tpm, history, AtMostOne
    <2> QED BY <2>1, <2>2, TypeParts
  <1>2. \A l \in Labels : Goto(l) => TypeOK'
    BY DEF TypeOK, Goto, tpm, locals, history, AtMostOne
  <1>3. \A by \in {"delivery", "main"} : StartDi(by) => TypeOK'
    BY DEF TypeOK, StartDi, tpm, history, Labels, AtMostOne
  <1>4. AttemptFails => LocalsOK'
    <2>1. CASE MoreAttempts
      BY <2>1 DEF TypeOK, LocalsOK, AttemptFails, MoreAttempts, NextAttempt, Labels, AtMostOne
    <2>2. CASE ~MoreAttempts
      BY <1>0, <2>2 DEF AttemptFails, Labels
    <2> QED BY <2>1, <2>2
  <1>5. DiSucceeds => LocalsOK'
    BY <1>0 DEF DiSucceeds, Labels
  <1>6. (WriteFailed => LocalsOK') /\ (WriteDone => LocalsOK')
    BY <1>4, <1>5 DEF TypeOK, LocalsOK, WriteFailed, WriteDone, locals, Labels, AtMostOne
  <1> QED BY <1>1, <1>2, <1>3, <1>4, <1>5, <1>6

\* Every step keeps the types.
LEMMA TypeStep ==
    ASSUME TypeOK, [Next]_vars
    PROVE  TypeOK'
  <1> USE DeviceAssumption
  <1>0. ASSUME UNCHANGED <<tpm, issued, vouchers, floor>> PROVE WorldOK'
    BY <1>0 DEF TypeOK, WorldOK, tpm, AtMostOne
  <1>1. ASSUME NEW f \in BOOLEAN, Boot(f)
        PROVE  TypeOK'
    BY <1>1 DEF TypeOK, Boot, tpm, history, Labels, AtMostOne
  <1>2. CASE Main
    BY <1>2, EndingsType DEF Main, Labels
  <1>3. CASE Onboard \/ FirmwareReturns \/ Crash
    BY <1>3, EndingsType DEF Onboard, FirmwareReturns, Crash
  <1>4. CASE Delivery
    BY <1>4, EndingsType DEF Delivery, Labels
  <1>5. CASE ReadDctpm
    <2>1. PICK data \in NvRead :
              \/ Goto("main")
              \/ /\ pc' = "download" /\ dctpm' = data
                 /\ UNCHANGED <<boots, tpm, force, caller, attempt, fw, history>>
      BY <1>5 DEF ReadDctpm
    <2>2. data \subseteq Dctpm /\ AtMostOne(data)
      BY NvReadIsStored, StoredType DEF AtMostOne
    <2>3. CASE Goto("main")
      BY <2>3, EndingsType DEF Labels
    <2>4. CASE /\ pc' = "download" /\ dctpm' = data
               /\ UNCHANGED <<boots, tpm, force, caller, attempt, fw, history>>
      BY <2>2, <2>4 DEF TypeOK, tpm, history, Labels, AtMostOne
    <2> QED BY <2>1, <2>3, <2>4
  <1>6. ASSUME NEW got \in Opt(Firmwares), Download(got)
        PROVE  TypeOK'
    <2>1. CASE Goto("main")
      BY <2>1, EndingsType DEF Labels
    <2>2. CASE /\ pc' = "checkRev" /\ fw' = got
               /\ UNCHANGED <<boots, tpm, force, caller, attempt, dctpm, history>>
      BY <2>2 DEF TypeOK, tpm, history, Labels, AtMostOne
    <2> QED BY <1>6, <2>1, <2>2 DEF Download
  <1>7. CASE CheckRev \/ StartFirmware
    BY <1>7, EndingsType DEF CheckRev, StartFirmware, Labels
  <1>8. CASE Ratchet
    <2>1. CASE Goto("start")
      BY <2>1, EndingsType DEF Labels
    <2>2. ASSUME NEW d \in Dctpm, NvWrite(d), pc' = "start",
                 UNCHANGED <<boots, keys, locals, issued, vouchers, adversity>>
          PROVE  TypeOK'
      <3>1. WorldOK'
        BY <2>2, NvWriteStores DEF TypeOK, WorldOK
      <3>2. LocalsOK'
        BY <2>2 DEF TypeOK, LocalsOK, locals, Labels, AtMostOne
      <3> QED BY <3>1, <3>2, TypeParts
    <2>3. ASSUME NEW d \in Dctpm, pc' = "undefine", dctpm' = {d},
                 UNCHANGED <<boots, tpm, force, caller, attempt, fw, history>>
          PROVE  TypeOK'
      <3>1. WorldOK'
        BY <1>0, <2>3 DEF history
      <3>2. LocalsOK'
        BY <2>3 DEF TypeOK, LocalsOK, Labels, AtMostOne
      <3> QED BY <3>1, <3>2, TypeParts
    <2>4. ASSUME NEW data \in NvRead, NEW f \in fw, NEW d \in data
          PROVE  [d EXCEPT !.min_firmware_rev = f.firmware_rev] \in Dctpm
      <3>1. d \in Dctpm
        BY <2>4, NvReadIsStored, StoredType
      <3>2. f.firmware_rev \in Nat
        BY DEF TypeOK, Opt, Firmware
      <3> QED BY <3>1, <3>2 DEF Dctpm
    <2> QED BY <1>8, <2>1, <2>2, <2>3, <2>4 DEF Ratchet
  <1>9. CASE EvictDak \/ EvictHmac
    <2>1. WorldOK'
      BY <1>9 DEF EvictDak, EvictHmac, EvictKey, TypeOK, WorldOK, history, AtMostOne
    <2>2. LocalsOK'
      BY <1>9 DEF EvictDak, EvictHmac, TypeOK, LocalsOK, locals, Labels, AtMostOne
    <2> QED BY <2>1, <2>2, TypeParts
  <1>10. CASE CreateDak \/ CreateHmac
    <2>1. WorldOK'
      BY <1>10 DEF CreateDak, CreateHmac, TypeOK, WorldOK, history, tpm, AtMostOne
    <2>2. CASE AttemptFails
      BY <2>1, <2>2, EndingsType, TypeParts
    <2>3. CASE pc' \in {"appStart", "setHmac"} /\ UNCHANGED <<boots, locals>>
      <3>1. LocalsOK'
        BY <2>3 DEF TypeOK, LocalsOK, locals, Labels, AtMostOne
      <3> QED BY <2>1, <3>1, TypeParts
    <2> QED BY <1>10, <2>2, <2>3 DEF CreateDak, CreateHmac
  <1>11. CASE AppStartFails
    <2>1. WorldOK'
      BY <1>0, <1>11 DEF AppStartFails, history
    <2> QED BY <1>11, <2>1, EndingsType, TypeParts DEF AppStartFails
  <1>12. ASSUME NEW h \in OVHeaders, AppStart(h)
         PROVE  TypeOK'
    <2>1. issued' \in 0..MaxGuids
      BY <1>12 DEF AppStart, TypeOK
    <2>2. h.rv_revs \in Seq(Nat) /\ h.fw_url \in BOOLEAN /\ h.first_ten \in Nat
      BY DEF OVHeader
    <2>3. BuildDctpm(issued', h, RvMinFirmwareRev(h.rv_revs)) \in Dctpm
      BY <2>1, <2>2, RvMinIsMax DEF BuildDctpm, Dctpm
    <2>4. LocalsOK'
      BY <1>12, <2>3 DEF AppStart, TypeOK, LocalsOK, Labels, AtMostOne
    <2>5. WorldOK'
      BY <1>12, <2>1 DEF AppStart, TypeOK, WorldOK, tpm, AtMostOne
    <2> QED BY <2>4, <2>5, TypeParts
  <1>13. CASE SetHmac
    <2>1. {d.guid : d \in dctpm} \subseteq 0..MaxGuids
      BY DEF TypeOK, Dctpm
    <2>2. WorldOK'
      BY <1>13, <2>1 DEF SetHmac, TypeOK, WorldOK, tpm, AtMostOne
    <2>3. CASE AttemptFails
      BY <2>2, <2>3, EndingsType, TypeParts
    <2>4. CASE pc' = "undefine" /\ UNCHANGED <<boots, locals>>
      <3>1. LocalsOK'
        BY <2>4 DEF TypeOK, LocalsOK, locals, Labels, AtMostOne
      <3> QED BY <2>2, <3>1, TypeParts
    <2> QED BY <1>13, <2>3, <2>4 DEF SetHmac
  <1>14. CASE Undefine
    <2>1. WorldOK'
      BY <1>14 DEF Undefine, TypeOK, WorldOK, history, AtMostOne
    <2>2. LocalsOK'
      BY <1>14 DEF Undefine, TypeOK, LocalsOK, locals, Labels, AtMostOne
    <2> QED BY <2>1, <2>2, TypeParts
  <1>15. CASE Define
    <2>1. CASE WriteFailed /\ UNCHANGED nv
      <3>1. WorldOK'
        BY <1>0, <1>15, <2>1 DEF Define, tpm, history
      <3> QED BY <2>1, <3>1, EndingsType, TypeParts
    <2>2. CASE /\ nv' = IF nv = {} THEN {[size |-> DctpmPadded(d), data |-> {}] : d \in dctpm}
                        ELSE nv
               /\ pc' = "write"
               /\ UNCHANGED <<boots, locals>>
      <3>1. \A d \in dctpm : [size |-> DctpmPadded(d), data |-> {}] \in [size : Nat, data : SUBSET Dctpm]
        BY Sizes DEF TypeOK
      <3>2. CASE nv = {}
        <4>1. nv' = {[size |-> DctpmPadded(d), data |-> {}] : d \in dctpm}
          BY <2>2, <3>2
        <4>2. AtMostOne(nv)'
          <5>1. \A d, e \in dctpm : d = e
            BY DEF TypeOK, AtMostOne
          <5>2. \A i, j \in nv' : i = j
            BY <4>1, <5>1
          <5> QED BY <5>2 DEF AtMostOne
        <4>3. \A i \in nv' : AtMostOne(i.data)
          BY <4>1 DEF AtMostOne
        <4>4. WorldOK'
          BY <1>15, <3>1, <4>1, <4>2, <4>3 DEF Define, TypeOK, WorldOK, history
        <4>5. LocalsOK'
          BY <2>2 DEF TypeOK, LocalsOK, locals, Labels, AtMostOne
        <4> QED BY <4>4, <4>5, TypeParts
      <3>3. CASE nv # {}
        <4>1. WorldOK'
          BY <1>0, <1>15, <2>2, <3>3 DEF Define, tpm, history
        <4>2. LocalsOK'
          BY <2>2 DEF TypeOK, LocalsOK, locals, Labels, AtMostOne
        <4> QED BY <4>1, <4>2, TypeParts
      <3> QED BY <3>2, <3>3
    <2> QED BY <1>15, <2>1, <2>2 DEF Define
  <1>16. CASE Write
    <2>1. CASE WriteFailed /\ UNCHANGED <<nv, floor>>
      <3>1. WorldOK'
        BY <1>0, <1>16, <2>1 DEF Write, tpm
      <3> QED BY <2>1, <3>1, EndingsType, TypeParts
    <2>2. ASSUME NEW d \in dctpm, NvWrite(d), WriteDone
          PROVE  TypeOK'
      <3>1. WorldOK'
        BY <1>16, <2>2, NvWriteStores DEF Write, TypeOK, WorldOK
      <3> QED BY <2>2, <3>1, EndingsType, TypeParts
    <2> QED BY <1>16, <2>1, <2>2 DEF Write
  <1>17. CASE UNCHANGED vars
    <2>1. WorldOK'
      BY <1>0, <1>17 DEF vars, history
    <2>2. LocalsOK'
      BY <1>17 DEF TypeOK, LocalsOK, vars, locals, AtMostOne
    <2> QED BY <2>1, <2>2, TypeParts
  <1> QED BY <1>1, <1>2, <1>3, <1>4, <1>5, <1>6, <1>7, <1>8, <1>9, <1>10, <1>11, <1>12, <1>13,
             <1>14, <1>15, <1>16, <1>17 DEF Next, Step

-----------------------------------------------------------------------------
(* The invariants                                                           *)

\* The endings of a handler, by what they do to the program.
LEMMA Endings ==
    /\ Exit => pc' = "off" /\ ForgetLocals /\ UNCHANGED <<tpm, history>>
    /\ \A l : Goto(l) => pc' = l /\ UNCHANGED <<tpm, locals, history>>
    /\ \A by : StartDi(by) => /\ pc' = "evictDak" /\ caller' = by
                              /\ UNCHANGED <<tpm, force, dctpm, fw, history>>
    /\ AttemptFails => \/ pc' = "evictDak" /\ dctpm' = {} /\ UNCHANGED <<force, caller, fw>>
                       \/ pc' \in {"off", "main"} /\ ForgetLocals
    /\ DiSucceeds => pc' \in {"off", "readDctpm"} /\ ForgetLocals
  BY DEF Exit, Goto, StartDi, AttemptFails, DiSucceeds

\* The invariants about what a handler relies on while it runs.
Pending ==
    /\ Control
    /\ IndexDefined
    /\ DiFindsNothing
    /\ KeysAtHandles
    /\ PendingBacked
    /\ RewriteNeedsRoom
    /\ RevStillAccepted

\* A step that leaves the index alone, and no key of a stored credential out,
\* keeps the invariants about what is stored.
LEMMA WorldKept ==
    ASSUME IInv, TypeOK', UNCHANGED <<nv, floor, adversity>>, vouchers \subseteq vouchers',
           DiOnlyOnce /\ Stored # {} => keys \subseteq keys',
           "tight" \notin adversity => \A d \in dctpm' : Roomy(d),
           pc' \in Rewriting /\ MinRevKept => pc \in Rewriting \/ floor = 0,
           Pending'
    PROVE  IInv'
  <1>1. Stored' = Stored
    BY DEF Stored
  <1>2. AllRoomy'
    BY <1>1 DEF IInv, AllRoomy, Roomy
  <1>3. NothingToLose'
    BY <1>1 DEF IInv, NothingToLose, MinRevKept, DiOnlyOnce
  <1>4. MinRevNeverLowered'
    BY <1>1 DEF IInv, MinRevNeverLowered, MinRevOnlyIncreased, MinRevKept, DiOnlyOnce
  <1>5. CredentialBacked'
    BY <1>1 DEF IInv, CredentialBacked, DiOnlyOnce
  <1> QED BY <1>2, <1>3, <1>4, <1>5 DEF IInv, Pending

\* A step after which nothing is pending.
LEMMA RestStep ==
    ASSUME IInv, TypeOK', UNCHANGED <<nv, keys, floor, adversity>>, vouchers \subseteq vouchers',
           pc' \in {"off", "main", "onboard", "delivery", "readDctpm"}, caller' = "none",
           force' => "force" \in adversity, dctpm' \in {{}, dctpm}
    PROVE  IInv'
  <1>1. Pending'
    BY DEF Pending, Control, IndexDefined, DiFindsNothing, KeysAtHandles, PendingBacked, RewriteNeedsRoom,
       RevStillAccepted, FirmwareAccepted, InDi, Rewriting
  <1>2. "tight" \notin adversity => \A d \in dctpm' : Roomy(d)
    BY DEF IInv, AllRoomy
  <1> QED BY <1>1, <1>2, WorldKept DEF Rewriting

\* DI is started by a program that found no credential or by -force-di, and
\* started again by an attempt that failed.
LEMMA EvictDakStep ==
    ASSUME IInv, TypeOK', UNCHANGED <<nv, keys, floor, adversity, force>>,
           vouchers \subseteq vouchers', pc' = "evictDak", caller' # "none",
           DiOnlyOnce => Stored = {}, dctpm' \in {{}, dctpm}
    PROVE  IInv'
  <1>1. Stored' = Stored
    BY DEF Stored
  <1>2. Pending'
    BY <1>1 DEF IInv, Pending, Control, IndexDefined, DiFindsNothing, KeysAtHandles, PendingBacked,
       RewriteNeedsRoom, RevStillAccepted, FirmwareAccepted, InDi, Rewriting, DiOnlyOnce
  <1>3. "tight" \notin adversity => \A d \in dctpm' : Roomy(d)
    BY DEF IInv, AllRoomy
  <1> QED BY <1>2, <1>3, WorldKept DEF Rewriting

\* The program ends, by itself or not.
LEMMA ExitStep ==
    ASSUME IInv, TypeOK', Exit
    PROVE  IInv'
  <1>1. pc' = "off" /\ ForgetLocals /\ UNCHANGED <<tpm, history>>
    BY Endings
  <1> QED BY <1>1, RestStep DEF ForgetLocals, tpm, history

\* The program goes on to onboarding, or to read the credential.
LEMMA GotoStep ==
    ASSUME IInv, TypeOK', NEW l \in {"main", "onboard", "readDctpm"}, Goto(l), caller = "none"
    PROVE  IInv'
  <1>1. pc' = l /\ UNCHANGED <<tpm, locals, history>>
    BY Endings
  <1>2. force' => "force" \in adversity
    BY <1>1 DEF locals, IInv, Control
  <1> QED BY <1>1, <1>2, RestStep DEF locals, tpm, history

\* DI begins where there is nothing to lose.
LEMMA StartDiStep ==
    ASSUME IInv, TypeOK', NEW by \in {"delivery", "main"}, StartDi(by), DiOnlyOnce => Stored = {}
    PROVE  IInv'
  <1>1. /\ pc' = "evictDak" /\ caller' = by
        /\ UNCHANGED <<tpm, force, dctpm, fw, history>>
    BY Endings
  <1> QED BY <1>1, EvictDakStep DEF tpm, history

\* An attempt fails wherever DI is.
LEMMA AttemptFailsStep ==
    ASSUME IInv, TypeOK', AttemptFails, caller # "none", UNCHANGED <<nv, keys, floor, adversity>>,
           vouchers \subseteq vouchers'
    PROVE  IInv'
  <1>1. CASE pc' = "evictDak" /\ dctpm' = {} /\ UNCHANGED <<force, caller, fw>>
    BY <1>1, EvictDakStep DEF IInv, DiFindsNothing
  <1>2. CASE pc' \in {"off", "main"} /\ ForgetLocals
    BY <1>2, RestStep DEF ForgetLocals
  <1> QED BY <1>1, <1>2, Endings

\* The steps of check_and_deliver, up to the one that stores the minimum.
LEMMA DeliverySteps ==
    ASSUME IInv, TypeOK',
           \/ Delivery \/ ReadDctpm \/ CheckRev \/ StartFirmware
           \/ \E got \in Opt(Firmwares) : Download(got)
    PROVE  IInv'
  <1>1. CASE Delivery
    <2>1. caller = "none"
      BY <1>1 DEF Delivery, IInv, Control, InDi, Rewriting
    <2>2. PICK d \in NvRead : IF d = {} THEN StartDi("delivery") ELSE Goto("readDctpm")
      BY <1>1 DEF Delivery
    <2>3. DiOnlyOnce => d = Stored
      BY NvReadIsStored DEF DiOnlyOnce
    <2> QED BY <2>1, <2>2, <2>3, StartDiStep, GotoStep
  <1>2. CASE ReadDctpm
    <2>1. caller = "none"
      BY <1>2 DEF ReadDctpm, IInv, Control, InDi, Rewriting
    <2>2. PICK data \in NvRead :
              \/ Goto("main")
              \/ /\ pc' = "download" /\ dctpm' = data
                 /\ UNCHANGED <<boots, tpm, force, caller, attempt, fw, history>>
      BY <1>2 DEF ReadDctpm
    <2>3. CASE Goto("main")
      BY <2>1, <2>3, GotoStep
    <2>4. CASE /\ pc' = "download" /\ dctpm' = data
               /\ UNCHANGED <<boots, tpm, force, caller, attempt, fw, history>>
      <3>1. Stored' = Stored
        BY <2>4 DEF Stored, tpm
      <3>2. (data = {} \/ data = Stored) /\ ("read" \notin adversity => data = Stored)
        BY NvReadIsStored
      <3>3. Pending'
        BY <2>1, <2>4, <3>1, <3>2 DEF IInv, Pending, Control, IndexDefined, DiFindsNothing, KeysAtHandles,
           PendingBacked, RewriteNeedsRoom, RevStillAccepted, FirmwareAccepted, InDi, Rewriting,
           history
      <3>4. "tight" \notin adversity => \A d \in dctpm' : Roomy(d)
        BY <2>4, <3>2 DEF IInv, AllRoomy
      <3> QED BY <2>4, <3>3, <3>4, WorldKept DEF Rewriting, tpm, history
    <2> QED BY <2>2, <2>3, <2>4
  <1>3. ASSUME NEW got \in Opt(Firmwares), Download(got)
        PROVE  IInv'
    <2>1. caller = "none" /\ pc = "download"
      BY <1>3 DEF Download, IInv, Control, InDi, Rewriting
    <2>2. CASE Goto("main")
      BY <2>1, <2>2, GotoStep
    <2>3. CASE /\ pc' = "checkRev" /\ fw' = got
               /\ UNCHANGED <<boots, tpm, force, caller, attempt, dctpm, history>>
      <3>1. Stored' = Stored
        BY <2>3 DEF Stored, tpm
      <3>2. Pending'
        BY <2>1, <2>3, <3>1 DEF IInv, Pending, Control, IndexDefined, DiFindsNothing, KeysAtHandles,
           PendingBacked, RewriteNeedsRoom, RevStillAccepted, FirmwareAccepted, InDi, Rewriting,
           history
      <3>3. "tight" \notin adversity => \A d \in dctpm' : Roomy(d)
        BY <2>3 DEF IInv, AllRoomy
      <3> QED BY <2>3, <3>2, <3>3, WorldKept DEF Rewriting, tpm, history
    <2> QED BY <1>3, <2>2, <2>3 DEF Download
  <1>4. CASE CheckRev
    <2>1. caller = "none" /\ pc = "checkRev"
      BY <1>4 DEF CheckRev, IInv, Control, InDi, Rewriting
    <2>2. PICK data \in NvRead, f \in fw :
              \/ Goto("main")
              \/ RevAccepted(f.firmware_rev, data) /\ Goto("ratchet")
      BY <1>4 DEF CheckRev
    <2>3. CASE Goto("main")
      BY <2>1, <2>3, GotoStep
    <2>4. CASE RevAccepted(f.firmware_rev, data) /\ Goto("ratchet")
      <3>1. pc' = "ratchet" /\ UNCHANGED <<tpm, locals, history>>
        BY <2>4, Endings
      <3>2. Stored' = Stored
        BY <3>1 DEF Stored, tpm
      <3>3. \A g \in fw : g = f /\ g.firmware_rev \in Nat
        BY FwType DEF IInv
      <3>4. MinRevKept => f.firmware_rev >= floor
        <4>1. SUFFICES ASSUME MinRevKept PROVE f.firmware_rev >= floor
          OBVIOUS
        <4>2. data = Stored
          BY <4>1, NvReadIsStored DEF MinRevKept, DiOnlyOnce
        <4>3. CASE Stored = {}
          BY <3>3, <4>1, <4>3 DEF IInv, NothingToLose
        <4>4. CASE Stored # {}
          <5>1. PICK d \in Stored : TRUE
            BY <4>4
          <5>2. f.firmware_rev >= d.min_firmware_rev /\ d.min_firmware_rev >= floor
            BY <2>4, <4>1, <4>2 DEF RevAccepted, IInv, MinRevNeverLowered, MinRevOnlyIncreased
          <5>3. d.min_firmware_rev \in Nat /\ floor \in Nat
            BY StoredType DEF IInv, Dctpm, TypeOK
          <5> QED BY <3>3, <5>2, <5>3
        <4> QED BY <4>3, <4>4
      <3>5. "read" \notin adversity =>
                \A d \in Stored : /\ f.firmware_rev >= d.min_firmware_rev
                                  /\ f.firmware_rev >= ParsedMinRev(d.rv_revs)
        BY <2>1, <2>4, NvReadIsStored DEF RevAccepted, IInv, RevStillAccepted
      <3>6. RevStillAccepted'
        BY <3>1, <3>2, <3>3, <3>4, <3>5 DEF RevStillAccepted, Rewriting, locals, history,
           MinRevKept, DiOnlyOnce
      <3>7. Pending'
        BY <2>1, <3>1, <3>6 DEF IInv, Pending, Control, IndexDefined, DiFindsNothing, KeysAtHandles,
           PendingBacked, RewriteNeedsRoom, InDi, Rewriting, locals, history
      <3>8. "tight" \notin adversity => \A d \in dctpm' : Roomy(d)
        BY <3>1 DEF IInv, AllRoomy, locals
      <3> QED BY <3>1, <3>7, <3>8, WorldKept DEF Rewriting, tpm, history
    <2> QED BY <2>2, <2>3, <2>4
  <1>5. CASE StartFirmware
    <2>1. caller = "none" /\ pc = "start"
      BY <1>5 DEF StartFirmware, IInv, Control, InDi, Rewriting
    <2>2. CASE Goto("main")
      BY <2>1, <2>2, GotoStep
    <2>3. CASE Goto("running")
      <3>1. pc' = "running" /\ UNCHANGED <<tpm, locals, history>>
        BY <2>3, Endings
      <3>2. Stored' = Stored
        BY <3>1 DEF Stored, tpm
      <3>3. RevStillAccepted'
        BY <2>1, <3>1, <3>2 DEF IInv, RevStillAccepted, FirmwareAccepted, Rewriting, locals,
           history, MinRevKept, DiOnlyOnce
      <3>4. Pending'
        BY <2>1, <3>1, <3>3 DEF IInv, Pending, Control, IndexDefined, DiFindsNothing, KeysAtHandles,
           PendingBacked, RewriteNeedsRoom, InDi, Rewriting, locals, history
      <3>5. "tight" \notin adversity => \A d \in dctpm' : Roomy(d)
        BY <3>1 DEF IInv, AllRoomy, locals
      <3> QED BY <3>1, <3>4, <3>5, WorldKept DEF Rewriting, tpm, history
    <2> QED BY <1>5, <2>2, <2>3 DEF StartFirmware
  <1> QED BY <1>1, <1>2, <1>3, <1>4, <1>5

\* update_firmware_rev_counter: in place while there is room, so that only the
\* index of an older build, without a minimum, is ever defined again.
LEMMA RatchetStep ==
    ASSUME IInv, TypeOK', Ratchet
    PROVE  IInv'
  <1>0. TypeOK
    BY DEF IInv
  <1>1. caller = "none" /\ pc = "ratchet"
    BY DEF Ratchet, IInv, Control, InDi, Rewriting
  <1>2. ASSUME Goto("start")
        PROVE  IInv'
    <2>1. pc' = "start" /\ UNCHANGED <<tpm, locals, history>>
      BY <1>2, Endings
    <2>2. Stored' = Stored
      BY <2>1 DEF Stored, tpm
    <2>3. RevStillAccepted'
      BY <1>1, <2>1, <2>2 DEF IInv, RevStillAccepted, FirmwareAccepted, Rewriting, locals,
         history, MinRevKept, DiOnlyOnce
    <2>4. Pending'
      BY <1>1, <2>1, <2>3 DEF IInv, Pending, Control, IndexDefined, DiFindsNothing, KeysAtHandles,
         PendingBacked, RewriteNeedsRoom, InDi, Rewriting, locals, history
    <2>5. "tight" \notin adversity => \A d \in dctpm' : Roomy(d)
      BY <2>1 DEF IInv, AllRoomy, locals
    <2> QED BY <2>1, <2>4, <2>5, WorldKept DEF Rewriting, tpm, history
  <1>3. SUFFICES ASSUME NEW data \in NvRead, NEW f \in fw, NEW d \in data, NEW u,
                        u = [d EXCEPT !.min_firmware_rev = f.firmware_rev],
                        f.firmware_rev > d.min_firmware_rev,
                        IF FitsInPlace(u)
                        THEN /\ NvWrite(u)
                             /\ pc' = "start"
                             /\ UNCHANGED <<boots, keys, locals, issued, vouchers, adversity>>
                        ELSE /\ pc' = "undefine"
                             /\ dctpm' = {u}
                             /\ UNCHANGED <<boots, tpm, force, caller, attempt, fw, history>>
                 PROVE  IInv'
    BY <1>2 DEF Ratchet
  <1>4. d \in Stored /\ d \in Dctpm /\ \A e \in Stored : e = d
    BY <1>0, NvReadIsStored, StoredType DEF AtMostOne
  <1>5. PICK i \in nv : d \in i.data
    BY <1>0, <1>4, StoredType
  <1>6. /\ \A j \in nv : j = i /\ \A e \in j.data : e = d
        /\ i.size \in Nat
    BY <1>0, <1>5 DEF TypeOK, AtMostOne
  <1>7. f.firmware_rev \in Nat /\ \A g \in fw : g = f
    BY <1>0, FwType
  <1>8. /\ u \in Dctpm
        /\ u.guid = d.guid /\ u.rv_revs = d.rv_revs /\ u.first_ten = d.first_ten
        /\ u.min_firmware_rev = f.firmware_rev
    BY <1>3, <1>4, <1>7 DEF Dctpm
  <1>9. d.min_firmware_rev \in Nat /\ d.first_ten \in Nat /\ floor \in Nat
    BY <1>0, <1>4 DEF Dctpm, TypeOK
  <1>10. BothKeys \/ ~DiOnlyOnce
    BY <1>4 DEF IInv, CredentialBacked, BothKeys
  <1>11. d.guid \in vouchers /\ ("tight" \notin adversity => Roomy(u))
    BY <1>4, <1>8 DEF IInv, CredentialBacked, AllRoomy, Roomy
  <1>12. MinRevKept => f.firmware_rev >= floor
    BY <1>3, <1>4, <1>7, <1>9 DEF IInv, MinRevNeverLowered, MinRevOnlyIncreased
  <1>13. "read" \notin adversity => f.firmware_rev >= ParsedMinRev(u.rv_revs)
    BY <1>1, <1>4, <1>8 DEF IInv, RevStillAccepted, FirmwareAccepted
  <1>14. f.firmware_rev >= d.min_firmware_rev
    BY <1>3, <1>7, <1>9
  <1>15. CASE FitsInPlace(u)
    <2>1. /\ NvWrite(u) /\ pc' = "start"
          /\ UNCHANGED <<boots, keys, locals, issued, vouchers, adversity>>
      BY <1>3, <1>15
    <2>2. /\ Stored' = {u}
          /\ \A j \in nv' : j.data = {u} /\ \E k \in nv : j.size = k.size
          /\ floor' \in Nat /\ floor' >= floor
          /\ floor' = floor \/ floor' = f.firmware_rev
      BY <1>0, <1>5, <1>8, <2>1, NvWriteStores
    <2>3. \A j \in nv' : j.size = i.size /\ \A e \in j.data : e = u
      BY <1>6, <2>2
    <2>4. MinRevKept => f.firmware_rev >= floor'
      BY <1>7, <1>12, <2>2
    <2>5. Control' /\ IndexDefined' /\ DiFindsNothing' /\ KeysAtHandles' /\ PendingBacked'
          /\ RewriteNeedsRoom'
      BY <1>1, <2>1 DEF IInv, Control, IndexDefined, DiFindsNothing, KeysAtHandles, PendingBacked,
         RewriteNeedsRoom, InDi, Rewriting, locals
    <2>6. RevStillAccepted'
      BY <1>7, <1>8, <1>13, <2>1, <2>2, <2>4 DEF RevStillAccepted, FirmwareAccepted, Rewriting,
         locals, MinRevKept, DiOnlyOnce
    <2>7. AllRoomy'
      BY <1>11, <2>1, <2>2 DEF IInv, AllRoomy, Roomy, locals
    <2>8. Length(u) <= i.size /\ Length(u) \in Nat /\ d.first_ten < Length(u)
      BY <1>5, <1>8, <1>15, Sizes DEF FitsInPlace, NvFits
    <2>9. MinRevKept => i.size >= u.first_ten + MaxUintLen
      BY <1>5, <1>6, <1>8, <1>9, <2>8 DEF IInv, NothingToLose
    <2>10. NothingToLose'
      BY <2>1, <2>2, <2>3, <2>9 DEF NothingToLose, MinRevKept, DiOnlyOnce, Rewriting
    <2>11. MinRevNeverLowered'
      BY <1>8, <2>1, <2>2, <2>4 DEF MinRevNeverLowered, MinRevOnlyIncreased, MinRevKept, DiOnlyOnce
    <2>12. CredentialBacked'
      BY <1>8, <1>10, <1>11, <2>1, <2>2 DEF CredentialBacked, BothKeys, DiOnlyOnce
    <2> QED BY <2>5, <2>6, <2>7, <2>10, <2>11, <2>12 DEF IInv
  <1>16. CASE ~FitsInPlace(u)
    <2>1. /\ pc' = "undefine" /\ dctpm' = {u}
          /\ UNCHANGED <<boots, tpm, force, caller, attempt, fw, history>>
      BY <1>3, <1>16
    <2>2. Stored' = Stored
      BY <2>1 DEF Stored, tpm
    <2>3. i.size < d.first_ten + MaxUintLen
      BY <1>6, <1>8, <1>9, <1>16, Sizes DEF FitsInPlace, NvFits, MaxUintLen
    <2>4. MinRevKept => floor = 0
      BY <1>5, <1>6, <1>9, <2>3 DEF IInv, NothingToLose, MaxUintLen
    <2>5. Control' /\ IndexDefined' /\ DiFindsNothing' /\ PendingBacked'
      BY <1>1, <1>8, <1>11, <2>1 DEF IInv, Control, IndexDefined, DiFindsNothing, PendingBacked, InDi,
         Rewriting, history
    <2>6. KeysAtHandles'
      BY <1>10, <2>1 DEF KeysAtHandles, BothKeys, DiOnlyOnce, tpm, history
    <2>7. RewriteNeedsRoom'
      BY <1>6, <2>1, <2>3 DEF RewriteNeedsRoom, tpm
    <2>8. RevStillAccepted'
      BY <1>1, <1>4, <1>7, <1>8, <1>12, <1>13, <1>14, <2>1, <2>2 DEF RevStillAccepted,
         FirmwareAccepted, history, MinRevKept, DiOnlyOnce
    <2> QED BY <1>11, <2>1, <2>4, <2>5, <2>6, <2>7, <2>8, WorldKept DEF Pending, tpm, history
  <1> QED BY <1>15, <1>16

\* run_di_protocol up to DIDone: the index is not touched, and the keys of a
\* credential are evicted only where there is none.
LEMMA DiSteps ==
    ASSUME IInv, TypeOK',
           \/ EvictDak \/ CreateDak \/ AppStartFails \/ EvictHmac \/ CreateHmac \/ SetHmac
           \/ \E h \in OVHeaders : AppStart(h)
    PROVE  IInv'
  <1>1. caller # "none" /\ pc \in InDi
    BY DEF EvictDak, CreateDak, AppStartFails, AppStart, EvictHmac, CreateHmac, SetHmac, IInv,
       Control, InDi
  <1>2. DiOnlyOnce => Stored = {} /\ (MinRevKept => floor = 0)
    BY <1>1 DEF IInv, DiFindsNothing, NothingToLose
  <1>3. MinRevKept => floor = 0
    BY <1>2 DEF MinRevKept
  \* A step within DI that leaves index, minimum and caller as they are.
  <1>4. ASSUME UNCHANGED <<nv, floor, adversity, force, caller>>, vouchers \subseteq vouchers',
               pc' \in InDi \cup {"undefine"}, KeysAtHandles', PendingBacked',
               "tight" \notin adversity => \A d \in dctpm' : Roomy(d)
        PROVE  IInv'
    <2>1. Stored' = Stored
      BY <1>4 DEF Stored
    <2>2. Control' /\ IndexDefined' /\ DiFindsNothing' /\ RewriteNeedsRoom'
      BY <1>1, <1>2, <1>4, <2>1 DEF IInv, Control, IndexDefined, DiFindsNothing, RewriteNeedsRoom, InDi,
         Rewriting, DiOnlyOnce
    <2>3. RevStillAccepted'
      BY <1>1, <1>4 DEF RevStillAccepted, FirmwareAccepted, InDi, Rewriting
    <2> QED BY <1>2, <1>3, <1>4, <2>2, <2>3, WorldKept DEF Pending
  <1>5. "tight" \notin adversity => \A d \in dctpm : Roomy(d)
    BY DEF IInv, AllRoomy
  <1>6. ASSUME AttemptFails, UNCHANGED <<tpm, floor, adversity>>, vouchers \subseteq vouchers'
        PROVE  IInv'
    BY <1>1, <1>6, AttemptFailsStep DEF tpm
  <1>7. CASE EvictDak
    BY <1>4, <1>5, <1>7 DEF EvictDak, KeysAtHandles, PendingBacked, InDi, Rewriting, locals, history
  <1>8. CASE CreateDak
    <2>1. CASE AttemptFails /\ UNCHANGED tpm
      BY <1>6, <1>8, <2>1 DEF CreateDak, history
    <2>2. CASE keys' = keys \cup {"DAK"} /\ pc' = "appStart" /\ UNCHANGED <<boots, nv, locals>>
      BY <1>4, <1>5, <1>8, <2>2 DEF CreateDak, KeysAtHandles, PendingBacked, InDi, Rewriting,
         locals, history
    <2> QED BY <1>8, <2>1, <2>2 DEF CreateDak
  <1>9. CASE AppStartFails
    BY <1>6, <1>9 DEF AppStartFails, history
  <1>10. ASSUME NEW h \in OVHeaders, AppStart(h)
         PROVE  IInv'
    <2>1. "tight" \notin adversity => \A d \in dctpm' : Roomy(d)
      BY <1>10 DEF AppStart, HeaderOfDevice, BuildDctpm, Roomy
    <2> QED BY <1>4, <1>10, <2>1 DEF IInv, AppStart, KeysAtHandles, PendingBacked, DiOnlyOnce,
              InDi, Rewriting, tpm
  <1>11. CASE EvictHmac
    BY <1>4, <1>5, <1>11 DEF IInv, EvictHmac, EvictKey, KeysAtHandles, PendingBacked, DiOnlyOnce,
       InDi, Rewriting, locals, history
  <1>12. CASE CreateHmac
    <2>1. CASE AttemptFails /\ UNCHANGED tpm
      BY <1>6, <1>12, <2>1 DEF CreateHmac, history
    <2>2. CASE /\ keys' = keys \cup {"HMAC"} \/ ("persist" \in adversity /\ UNCHANGED keys)
               /\ pc' = "setHmac" /\ UNCHANGED <<boots, nv, locals>>
      BY <1>4, <1>5, <1>12, <2>2 DEF IInv, CreateHmac, KeysAtHandles, BothKeys, PendingBacked,
         DiOnlyOnce, InDi, Rewriting, locals, history
    <2> QED BY <1>12, <2>1, <2>2 DEF CreateHmac
  <1>13. CASE SetHmac
    <2>1. CASE AttemptFails
      BY <1>6, <1>13, <2>1 DEF SetHmac
    <2>2. CASE /\ vouchers' = vouchers \cup {d.guid : d \in dctpm}
               /\ pc' = "undefine" /\ UNCHANGED <<boots, locals>>
      <3>1. KeysAtHandles'
        BY <1>13, <2>2 DEF IInv, SetHmac, KeysAtHandles, BothKeys, DiOnlyOnce, tpm
      <3>2. PendingBacked'
        BY <2>2 DEF PendingBacked, locals
      <3> QED BY <1>4, <1>5, <1>13, <2>2, <3>1, <3>2 DEF SetHmac, locals, tpm
    <2> QED BY <1>13, <2>1, <2>2 DEF SetHmac
  <1> QED BY <1>7, <1>8, <1>9, <1>10, <1>11, <1>12, <1>13

\* A rewrite that ends leaves the program where its caller goes on.
LEMMA WriteEndsStep ==
    ASSUME IInv, TypeOK', pc \in Rewriting, WriteFailed,
           UNCHANGED <<nv, keys, floor, vouchers, adversity>>
    PROVE  IInv'
  <1>1. CASE caller = "none"
    <2>1. pc' = "start" /\ UNCHANGED <<boots, locals>>
      BY <1>1 DEF WriteFailed
    <2>2. Stored' = Stored
      BY DEF Stored
    <2>3. RevStillAccepted'
      BY <1>1, <2>1, <2>2 DEF IInv, RevStillAccepted, FirmwareAccepted, Rewriting, locals,
         MinRevKept, DiOnlyOnce
    <2>4. Pending'
      BY <1>1, <2>1, <2>3 DEF IInv, Pending, Control, IndexDefined, DiFindsNothing, KeysAtHandles,
         PendingBacked, RewriteNeedsRoom, InDi, Rewriting, locals
    <2>5. "tight" \notin adversity => \A d \in dctpm' : Roomy(d)
      BY <2>1 DEF IInv, AllRoomy, locals
    <2> QED BY <2>1, <2>4, <2>5, WorldKept DEF Rewriting
  <1>2. CASE caller # "none"
    BY <1>2, AttemptFailsStep DEF WriteFailed
  <1> QED BY <1>1, <1>2

\* tpm_nv_write: undefine, define, write, for DI and for the ratchet.
LEMMA RewriteSteps ==
    ASSUME IInv, TypeOK', Undefine \/ Define \/ Write
    PROVE  IInv'
  <1>0. TypeOK
    BY DEF IInv
  <1>1. pc \in Rewriting
    BY DEF Undefine, Define, Write, Rewriting
  <1>2. MinRevKept => floor = 0
    BY <1>1 DEF IInv, NothingToLose
  <1>3. "tight" \notin adversity => \A d \in dctpm : Roomy(d)
    BY DEF IInv, AllRoomy
  \* The index loses its data, or keeps it, and the rewrite goes on.
  <1>4. ASSUME pc' \in Rewriting, UNCHANGED <<keys, locals, history>>,
               \A j \in nv' : j \in nv \/ j.data = {}, IndexDefined'
        PROVE  IInv'
    <2>1. Stored' \subseteq Stored
      BY <1>4 DEF Stored
    <2>2. /\ UNCHANGED <<force, caller, dctpm, fw>>
          /\ UNCHANGED <<vouchers, floor, adversity>>
      BY <1>4 DEF locals, history
    <2>3. Control'
      BY <1>1, <1>4, <2>2 DEF IInv, Control, InDi, Rewriting
    <2>4. DiFindsNothing'
      BY <2>1, <2>2 DEF IInv, DiFindsNothing, DiOnlyOnce
    <2>5. KeysAtHandles'
      BY <1>1, <1>4, <2>2 DEF IInv, KeysAtHandles, BothKeys, DiOnlyOnce, Rewriting
    <2>6. PendingBacked' /\ AllRoomy'
      BY <1>1, <2>1, <2>2 DEF IInv, PendingBacked, AllRoomy, Roomy
    <2>7. NothingToLose'
      BY <1>2, <1>4, <2>2 DEF IInv, NothingToLose, MinRevKept, DiOnlyOnce
    <2>8. RewriteNeedsRoom'
      BY <1>1, <1>4, <2>2 DEF IInv, RewriteNeedsRoom
    <2>9. RevStillAccepted'
      BY <1>1, <1>4, <2>1, <2>2 DEF IInv, RevStillAccepted, FirmwareAccepted, Rewriting,
         MinRevKept, DiOnlyOnce
    <2>10. MinRevNeverLowered'
      BY <2>1, <2>2 DEF IInv, MinRevNeverLowered, MinRevOnlyIncreased, MinRevKept, DiOnlyOnce
    <2>11. CredentialBacked'
      BY <1>4, <2>1, <2>2 DEF IInv, CredentialBacked, DiOnlyOnce
    <2> QED BY <1>4, <2>3, <2>4, <2>5, <2>6, <2>7, <2>8, <2>9, <2>10, <2>11 DEF IInv
  <1>5. CASE Undefine
    BY <1>4, <1>5 DEF Undefine, Rewriting, IndexDefined
  <1>6. CASE Define
    <2>1. CASE WriteFailed /\ UNCHANGED nv
      BY <1>1, <1>6, <2>1, WriteEndsStep DEF Define, history
    <2>2. CASE /\ nv' = IF nv = {} THEN {[size |-> DctpmPadded(d), data |-> {}] : d \in dctpm}
                        ELSE nv
               /\ pc' = "write" /\ UNCHANGED <<boots, locals>>
      <3>1. \A j \in nv' : j \in nv \/ j.data = {}
        BY <2>2
      <3>2. IndexDefined'
        BY <2>2 DEF IndexDefined, locals
      <3> QED BY <1>4, <1>6, <2>2, <3>1, <3>2 DEF Define, Rewriting
    <2> QED BY <1>6, <2>1, <2>2 DEF Define
  <1>7. CASE Write
    <2>1. CASE WriteFailed /\ UNCHANGED <<nv, floor>>
      BY <1>1, <1>7, <2>1, WriteEndsStep DEF Write
    <2>2. ASSUME NEW d \in dctpm, NvFits(DctpmPadded(d)), NvWrite(d), WriteDone
          PROVE  IInv'
      <3>1. UNCHANGED <<keys, issued, vouchers, adversity>>
        BY <1>7 DEF Write
      <3>2. /\ d \in Dctpm /\ \A e \in dctpm : e = d
            /\ d.first_ten \in Nat /\ d.min_firmware_rev \in Nat
        BY <1>0 DEF TypeOK, AtMostOne, Dctpm
      <3>3. /\ Stored' \subseteq {d}
            /\ nv = {} => Stored' = {}
            /\ \A j \in nv' : j.data = {d} /\ \E i \in nv : j.size = i.size
            /\ floor' \in Nat
            /\ floor' >= d.min_firmware_rev
            /\ floor' = floor \/ floor' = d.min_firmware_rev
        BY <1>0, <2>2, <3>2, NvWriteStores
      <3>4. \A j \in nv' : j.size \in Nat /\ j.size >= DctpmPadded(d) /\ \A e \in j.data : e = d
        BY <1>0, <2>2, <3>3 DEF NvFits, TypeOK
      <3>5. MinRevKept => floor' = d.min_firmware_rev
        BY <1>2, <3>2, <3>3
      <3>6. /\ pc' \in {"start", "off", "readDctpm"}
            /\ caller' = "none"
            /\ force' => force
            /\ dctpm' \subseteq dctpm
            /\ pc' = "start" => caller = "none" /\ UNCHANGED <<dctpm, fw>>
        BY <2>2 DEF WriteDone, DiSucceeds, ForgetLocals, locals
      <3>7. Control' /\ IndexDefined' /\ DiFindsNothing' /\ KeysAtHandles' /\ PendingBacked'
            /\ RewriteNeedsRoom'
        BY <3>1, <3>6 DEF IInv, Control, IndexDefined, DiFindsNothing, KeysAtHandles, PendingBacked,
           RewriteNeedsRoom, InDi, Rewriting
      <3>8. AllRoomy'
        BY <1>3, <3>1, <3>3, <3>6 DEF AllRoomy, Roomy
      <3>9. MinRevKept => \A j \in nv' : j.size >= d.first_ten + MaxUintLen
        BY <1>3, <3>2, <3>4, Sizes, DeviceAssumption DEF MinRevKept, Roomy, MaxUintLen
      <3>10. NothingToLose'
        <4>1. Stored' # {}
          BY <1>0, <1>7, <2>2, <3>2, NvWriteStores DEF IInv, IndexDefined, Write
        <4> QED BY <3>1, <3>4, <3>6, <3>9, <4>1 DEF NothingToLose, MinRevKept, DiOnlyOnce, Rewriting
      <3>11. RevStillAccepted'
        BY <1>1, <3>1, <3>3, <3>5, <3>6 DEF IInv, RevStillAccepted, FirmwareAccepted, Rewriting,
           MinRevKept, DiOnlyOnce
      <3>12. MinRevNeverLowered'
        BY <3>1, <3>2, <3>3, <3>5 DEF MinRevNeverLowered, MinRevOnlyIncreased, MinRevKept, DiOnlyOnce
      <3>13. CredentialBacked'
        BY <1>1, <3>1, <3>3 DEF IInv, CredentialBacked, PendingBacked, KeysAtHandles, BothKeys,
           DiOnlyOnce
      <3> QED BY <3>7, <3>8, <3>10, <3>11, <3>12, <3>13 DEF IInv
    <2> QED BY <1>7, <2>1, <2>2 DEF Write
  <1> QED BY <1>5, <1>6, <1>7

\* Every step keeps the inductive invariant.
LEMMA InvStep ==
    ASSUME IInv, [Next]_vars
    PROVE  IInv'
  <1>1. TypeOK'
    BY TypeStep DEF IInv
  <1>2. ASSUME NEW f \in BOOLEAN, Boot(f)
        PROVE  IInv'
    BY <1>1, <1>2, RestStep DEF IInv, Control, Boot, InDi, Rewriting, tpm, history
  <1>3. CASE Main
    <2>1. caller = "none"
      BY <1>3 DEF Main, IInv, Control, InDi, Rewriting
    <2>2. CASE force /\ StartDi("main")
      BY <1>1, <2>2, StartDiStep DEF IInv, Control, DiOnlyOnce
    <2>3. ASSUME NEW d \in NvRead, IF d = {} THEN StartDi("main") ELSE Goto("onboard")
          PROVE  IInv'
      <3>1. DiOnlyOnce => d = Stored
        BY NvReadIsStored DEF DiOnlyOnce
      <3> QED BY <1>1, <2>1, <2>3, <3>1, StartDiStep, GotoStep
    <2> QED BY <1>3, <2>2, <2>3 DEF Main, ReadFdoCredentials
  <1>4. CASE Onboard \/ FirmwareReturns \/ Crash
    BY <1>1, <1>4, ExitStep DEF Onboard, FirmwareReturns, Crash
  <1>5. CASE \/ Delivery \/ ReadDctpm \/ CheckRev \/ StartFirmware
             \/ \E got \in Opt(Firmwares) : Download(got)
    BY <1>1, <1>5, DeliverySteps
  <1>6. CASE Ratchet
    BY <1>1, <1>6, RatchetStep
  <1>7. CASE \/ EvictDak \/ CreateDak \/ AppStartFails \/ EvictHmac \/ CreateHmac \/ SetHmac
             \/ \E h \in OVHeaders : AppStart(h)
    BY <1>1, <1>7, DiSteps
  <1>8. CASE Undefine \/ Define \/ Write
    BY <1>1, <1>8, RewriteSteps
  <1>9. CASE UNCHANGED vars
    <2>1. Stored' = Stored
      BY <1>9 DEF Stored, vars, tpm
    <2>2. Pending'
      BY <1>9, <2>1 DEF IInv, Pending, Control, IndexDefined, DiFindsNothing, KeysAtHandles,
         BothKeys, PendingBacked, RewriteNeedsRoom, RevStillAccepted, FirmwareAccepted,
         DiOnlyOnce, MinRevKept, vars, tpm, locals, history
    <2>3. "tight" \notin adversity => \A d \in dctpm' : Roomy(d)
      BY <1>9 DEF IInv, AllRoomy, vars, locals
    <2> QED BY <1>1, <1>9, <2>2, <2>3, WorldKept DEF vars, tpm, history
  <1> QED BY <1>2, <1>3, <1>4, <1>5, <1>6, <1>7, <1>8, <1>9 DEF Next, Step

\* The states a device may be in when it is switched on for the first time.
LEMMA InitInv == Init => IInv
  <1> SUFFICES ASSUME Init PROVE IInv
    OBVIOUS
  <1> USE DeviceAssumption
  <1>1. /\ pc = "off" /\ boots = 0 /\ force = FALSE /\ caller = "none" /\ attempt = 0
        /\ dctpm = {} /\ fw = {} /\ issued = 0 /\ floor = 0
    BY DEF Init
  <1>2. {} \in Opt(Firmwares)
    BY DEF Opt
  <1>3. LocalsOK
    <2>1. dctpm \subseteq Dctpm /\ AtMostOne(dctpm) /\ fw \in Opt(Firmwares)
      BY <1>1, <1>2 DEF AtMostOne
    <2>2. attempt \in 0..DiMaxAttempts /\ boots \in 0..MaxBoots
      BY <1>1
    <2> QED BY <1>1, <2>1, <2>2 DEF LocalsOK, Labels
  <1>4. CASE nv = {} /\ keys = {} /\ vouchers = {}
    <2>1. Stored = {}
      BY <1>4 DEF Stored
    <2>2. WorldOK
      BY <1>1, <1>4 DEF WorldOK, AtMostOne
    <2>3. Pending /\ AllRoomy /\ NothingToLose
      BY <1>1, <1>4, <2>1 DEF Pending, Control, IndexDefined, DiFindsNothing, KeysAtHandles,
         PendingBacked, RewriteNeedsRoom, RevStillAccepted, FirmwareAccepted, InDi, Rewriting,
         AllRoomy, NothingToLose
    <2>4. MinRevNeverLowered /\ CredentialBacked
      BY <2>1 DEF MinRevNeverLowered, MinRevOnlyIncreased, CredentialBacked
    <2> QED BY <1>3, <2>2, <2>3, <2>4, TypeParts DEF IInv, Pending
  <1>5. ASSUME NEW h \in OldHeaders, HeaderOfDevice(h),
               nv = {[size |-> h.first_ten, data |-> {BuildDctpm(0, h, 0)}]},
               keys = {"DAK", "HMAC"}, vouchers = {0}
        PROVE  IInv
    <2> DEFINE d == BuildDctpm(0, h, 0)
    <2>1. h.rv_revs \in Seq(Nat) /\ h.fw_url \in BOOLEAN /\ h.first_ten \in Nat
      BY DEF OVHeader
    <2>2. d \in Dctpm /\ d.guid = 0 /\ d.min_firmware_rev = 0 /\ d.first_ten = h.first_ten
      BY <2>1 DEF BuildDctpm, Dctpm
    <2>3. "tight" \notin adversity => Roomy(d)
      BY <1>5, <2>2 DEF HeaderOfDevice, Roomy
    <2> HIDE DEF d
    <2>4. nv = {[size |-> h.first_ten, data |-> {d}]}
      BY <1>5 DEF d
    <2>5. Stored = {d}
      BY <2>4 DEF Stored
    <2>6. WorldOK
      <3>1. nv \subseteq [size : Nat, data : SUBSET Dctpm]
        BY <2>1, <2>2, <2>4
      <3>2. AtMostOne(nv) /\ \A i \in nv : AtMostOne(i.data)
        BY <2>4 DEF AtMostOne
      <3>3. issued \in 0..MaxGuids /\ vouchers \subseteq 0..MaxGuids /\ floor \in Nat
        BY <1>1, <1>5
      <3> QED BY <1>5, <3>1, <3>2, <3>3 DEF WorldOK
    <2>7. Pending
      BY <1>1, <2>4 DEF Pending, Control, IndexDefined, DiFindsNothing, KeysAtHandles,
         PendingBacked, RewriteNeedsRoom, RevStillAccepted, FirmwareAccepted, InDi, Rewriting
    <2>8. AllRoomy
      BY <1>1, <2>3, <2>5 DEF AllRoomy
    <2>9. NothingToLose
      BY <1>1, <2>1, <2>2, <2>4, <2>5 DEF NothingToLose, Rewriting
    <2>10. MinRevNeverLowered
      BY <1>1, <2>2, <2>5 DEF MinRevNeverLowered, MinRevOnlyIncreased
    <2>11. CredentialBacked
      BY <1>5, <2>2, <2>5 DEF CredentialBacked
    <2> QED BY <1>3, <2>6, <2>7, <2>8, <2>9, <2>10, <2>11, TypeParts DEF IInv, Pending
  <1> QED BY <1>4, <1>5 DEF Init

\* The inductive invariant holds in every state of the device's life.
THEOREM InvHolds == Spec => []IInv
  <1>1. IInv /\ [Next]_vars => IInv'
    BY InvStep
  <1> QED BY <1>1, InitInv, PTL DEF Spec

-----------------------------------------------------------------------------
(* What a device can rely on                                                *)

\* The index, the keys and the program's variables hold values of their types.
THEOREM TypeCorrect == Spec => []TypeOK
  <1>1. IInv => TypeOK
    BY DEF IInv
  <1> QED BY <1>1, InvHolds, PTL

\* DCMinFirmwareRev is never lowered, over ratchets, failed writes, crashes and
\* repeated DI, on a device that keeps its index.
THEOREM MinRevIsNeverLowered == Spec => []MinRevNeverLowered
  <1>1. IInv => MinRevNeverLowered
    BY DEF IInv
  <1> QED BY <1>1, InvHolds, PTL

\* Unless reads of the index fail, no firmware takes over that is older than the
\* minimum the device has, or than that of its RendezvousInfo; nor, on a device that
\* keeps its minimum, than any it has stored in any boot: what check_firmware_rev read
\* is still what counts when the image is started.
THEOREM FirmwareNeverRollsBack == Spec => []NoRollback
  <1>1. IInv => NoRollback
    BY DEF IInv, RevStillAccepted, FirmwareAccepted, NoRollback
  <1> QED BY <1>1, InvHolds, PTL

\* A credential the device has is one the manufacturer has a voucher for, and
\* its keys are at their handles.
THEOREM CredentialIsBacked == Spec => []CredentialBacked
  <1>1. IInv => CredentialBacked
    BY DEF IInv
  <1> QED BY <1>1, InvHolds, PTL

\* No step outside DI loses a credential whose index has room for any minimum,
\* wherever power is lost: tpm_nv_write_in_place is one command.
THEOREM CredentialIsNotLost == Spec => CredentialSurvives
  <1> DEFINE A == \A i \in nv : \A d \in i.data :
                      i.size >= d.first_ten + MaxUintLen =>
                          caller # "none" \/ \E e \in Stored' : e.guid = d.guid
  <1>1. IInv /\ [Next]_vars => [A]_vars
    <2> SUFFICES ASSUME IInv, Next, NEW i \in nv, NEW d \in i.data,
                        i.size >= d.first_ten + MaxUintLen, caller = "none"
                 PROVE  \E e \in Stored' : e.guid = d.guid
      OBVIOUS
    <2>0. TypeOK
      BY DEF IInv
    <2>1. d \in Stored /\ d \in Dctpm /\ i.size \in Nat /\ d.first_ten \in Nat
      BY <2>0, StoredType DEF TypeOK, Dctpm
    <2>2. pc \notin Rewriting
      BY <2>1 DEF IInv, RewriteNeedsRoom, MaxUintLen
    <2>3. CASE UNCHANGED nv
      BY <2>1, <2>3 DEF Stored
    <2>4. CASE Ratchet
      <3>1. SUFFICES ASSUME NEW data \in NvRead, NEW f \in fw, NEW e \in data,
                            NvWrite([e EXCEPT !.min_firmware_rev = f.firmware_rev])
                     PROVE  \E u \in Stored' : u.guid = d.guid
        BY <2>3, <2>4 DEF Ratchet, Goto, tpm, history
      <3>2. e = d
        BY <2>0, <2>1, NvReadIsStored, StoredType DEF AtMostOne
      <3>3. f.firmware_rev \in Nat
        BY <2>0, FwType
      <3>4. [e EXCEPT !.min_firmware_rev = f.firmware_rev] \in Dctpm
        BY <2>1, <3>2, <3>3 DEF Dctpm
      <3>5. Stored' = {[e EXCEPT !.min_firmware_rev = f.firmware_rev]}
        BY <2>0, <3>1, <3>4, NvWriteStores
      <3> QED BY <2>1, <3>2, <3>5 DEF Dctpm
    <2>5. CASE Next /\ ~Ratchet
      <3>1. UNCHANGED nv
        BY <2>2, <2>5 DEF Next, Step, Boot, Main, Onboard, Delivery, ReadDctpm, Download, CheckRev,
           StartFirmware, EvictDak, CreateDak, AppStartFails, AppStart, EvictHmac, CreateHmac,
           SetHmac, Undefine, Define, Write, FirmwareReturns, Crash, Exit, Goto, StartDi,
           Rewriting, tpm
      <3> QED BY <2>3, <3>1
    <2> QED BY <2>4, <2>5
  <1> QED BY <1>1, InvHolds, PTL DEF Spec, CredentialSurvives
=============================================================================
