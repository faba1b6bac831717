------------------------------- MODULE Device -------------------------------
(***************************************************************************)
(* One device over many boots: main (src/main.rs), the delivery of         *)
(* pre-onboarding firmware with its anti-rollback minimum                  *)
(* (src/rv_firmware), Device Initialization (src/di/protocol.rs) and the   *)
(* TPM state they share: the DCTPM index and two persistent keys. Power    *)
(* may go, or the watchdog fire, between any two TPM commands or messages. *)
(*                                                                         *)
(* CreatePrimary from a fixed template yields the same key every time, so  *)
(* a persistent key is either at its handle or not. A TPM command that     *)
(* reports an error was not executed. TO1 and TO2 write nothing here.      *)
(***************************************************************************)
EXTENDS Naturals, Sequences

CONSTANTS
    MaxBoots,        \* bound on the boots of the device
    MaxGuids,        \* bound on the GUIDs the manufacturer hands out
    DiMaxAttempts,   \* DI_MAX_ATTEMPTS
    DefaultSize,     \* DCTPM_DEFAULT_SIZE
    OVHeaders,       \* voucher headers the manufacturer may send
    OldHeaders,      \* headers behind ten-item credentials of older builds
    Firmwares,       \* signed firmware files the rendezvous server may serve
    Adversities      \* what a device may have to live with: see adversity

Opt(S) == {{}} \cup {{x} : x \in S}

\* What DI keeps of a voucher header: the RVMinFirmwareRev values in the order of
\* the RendezvousInfo, whether that names a server or a firmware URL, and the
\* encoded length of the first ten DCTPM items.
OVHeader == [rv_revs : Seq(Nat), fw_url : BOOLEAN, first_ten : Nat]

\* A signed file: made with the platform key or not; sound if the envelope and
\* the payload parse, the algorithm is ES256, the architecture x86_64, the image
\* lies within the payload and FWImageHash is its hash.
Firmware == [platform_key : BOOLEAN, sound : BOOLEAN, firmware_rev : Nat]

ASSUME DeviceAssumption ==
    /\ MaxBoots \in Nat /\ MaxGuids \in Nat /\ DefaultSize \in Nat
    /\ DiMaxAttempts \in Nat \ {0}
    /\ OVHeaders \subseteq OVHeader
    /\ OldHeaders \subseteq OVHeader
    /\ Firmwares \subseteq Firmware
    /\ Adversities \subseteq SUBSET {"force", "read", "persist", "tight"}

VARIABLES
    adversity, \* what may happen to this device: -force-di is given on its command line
               \* ("force"), tpm_nv_read fails on an index that is there ("read"), the HMAC
               \* key cannot be made persistent ("persist"), its RendezvousInfo is so long
               \* that an index of DCTPM_DEFAULT_SIZE has no room for any minimum ("tight")
    pc,        \* where the program is; "off" between boots
    boots,     \* boots so far
    nv,        \* the DCTPM index, if defined: its size, and its data once written
    keys,      \* the persistent keys that are at their handles
    force,     \* opts.force_di of this boot
    caller,    \* who runs DI: check_and_deliver, main, or nobody
    attempt,   \* attempt
    dctpm,     \* the DCTPM the program holds: read, received or about to be written
    fw,        \* the firmware downloaded and verified, if any
    issued,    \* history: GUIDs the manufacturer has sent in DISetCredentials
    vouchers,  \* history: GUIDs the manufacturer has an HMAC for
    floor      \* history: the highest DCMinFirmwareRev ever stored

locals == <<force, caller, attempt, dctpm, fw>>
tpm == <<nv, keys>>
history == <<issued, vouchers, floor, adversity>>
vars == <<pc, boots, tpm, locals, history>>

Dctpm == [guid : 0..MaxGuids, rv_revs : Seq(Nat), fw_url : BOOLEAN, first_ten : Nat,
          min_firmware_rev : Nat]

BuildDctpm(guid, h, rev) ==
    [guid |-> guid, rv_revs |-> h.rv_revs, fw_url |-> h.fw_url,
     first_ten |-> h.first_ten, min_firmware_rev |-> rev]

\* dctpm::rv_min_firmware_rev, the seed of DCMinFirmwareRev: the highest value.
RvMinFirmwareRev(revs) ==
    LET found == {0} \cup {revs[i] : i \in DOMAIN revs}
    IN  CHOOSE m \in found : \A n \in found : m >= n

\* parse_rv_firmware_info, the rendezvous minimum of each delivery: the last value.
ParsedMinRev(revs) == IF revs = <<>> THEN 0 ELSE revs[Len(revs)]

\* Bytes encode_uint needs.
MaxUintLen == 9

EncodeUintLen(v) ==
    IF v <= 23 THEN 1 ELSE IF v <= 255 THEN 2 ELSE IF v <= 65535 THEN 3
    ELSE IF v \div 65536 <= 65535 THEN 5 ELSE MaxUintLen

Length(d) == d.first_ten + EncodeUintLen(d.min_firmware_rev)

DctpmPadded(d) == IF Length(d) < DefaultSize THEN DefaultSize ELSE Length(d)

\* The header of a credential, or the credential, leaves room for any minimum.
Roomy(h) == h.first_ten + MaxUintLen <= DefaultSize

HeaderOfDevice(h) == Roomy(h) \/ "tight" \in adversity

\* An older build wrote ten items into an index of exactly that size.
Init ==
    /\ adversity \in Adversities
    /\ pc = "off"
    /\ boots = 0
    /\ \/ nv = {} /\ keys = {} /\ vouchers = {}
       \/ \E h \in OldHeaders :
             /\ HeaderOfDevice(h)
             /\ nv = {[size |-> h.first_ten, data |-> {BuildDctpm(0, h, 0)}]}
             /\ keys = {"DAK", "HMAC"}
             /\ vouchers = {0}
    /\ force = FALSE
    /\ caller = "none"
    /\ attempt = 0
    /\ dctpm = {}
    /\ fw = {}
    /\ issued = 0
    /\ floor = 0

-----------------------------------------------------------------------------
(* The TPM (tpm.rs).                                                        *)

Stored == UNION {i.data : i \in nv}

\* Deviation: a read of a good index may fail.
NvReadUnreliable == {{}, Stored}

\* tpm_nv_read: nothing for an index that is not defined or was never written.
NvRead == IF "read" \in adversity THEN {{}, Stored} ELSE {Stored}

\* One TPM2_NV_Write into the index as it is.
NvWrite(d) ==
    /\ nv' = {[i EXCEPT !.data = {d}] : i \in nv}
    /\ floor' = IF d.min_firmware_rev > floor THEN d.min_firmware_rev ELSE floor

NvFits(len) == \A i \in nv : len <= i.size

\* EvictControl of a key that may be at the handle; its failure is ignored.
EvictKey(k) == keys' \in {keys \ {k}, keys}

-----------------------------------------------------------------------------
(* Boots.                                                                   *)

ForgetLocals ==
    /\ force' = FALSE
    /\ caller' = "none"
    /\ attempt' = 0
    /\ dctpm' = {}
    /\ fw' = {}

\* -force-di skips the firmware check: re-provisioning comes first.
Boot(f) ==
    /\ pc = "off"
    /\ f => "force" \in adversity
    /\ boots < MaxBoots
    /\ boots' = boots + 1
    /\ force' = f
    /\ pc' = IF f THEN "main" ELSE "delivery"
    /\ UNCHANGED <<tpm, caller, attempt, dctpm, fw, history>>

Exit ==
    /\ pc' = "off"
    /\ ForgetLocals
    /\ UNCHANGED <<boots, tpm, history>>

\* Power is lost or the watchdog resets the machine.
Crash == pc # "off" /\ Exit

Goto(label) == pc' = label /\ UNCHANGED <<boots, tpm, locals, history>>

StartDi(by) ==
    /\ pc' = "evictDak"
    /\ caller' = by
    /\ attempt' = 1
    /\ UNCHANGED <<boots, tpm, force, dctpm, fw, history>>

\* read_fdo_credentials: what was stored decodes, as build_dctpm encoded it.
ReadFdoCredentials == NvRead

\* main after the delivery check: credentials lead to onboarding, none to DI.
Main ==
    /\ pc = "main"
    /\ \/ force /\ StartDi("main")
       \/ /\ ~force
          /\ \E d \in ReadFdoCredentials : IF d = {} THEN StartDi("main") ELSE Goto("onboard")

Onboard == pc = "onboard" /\ Exit

-----------------------------------------------------------------------------
(* check_and_deliver (rv_firmware/mod.rs).                                  *)

Delivery ==
    /\ pc = "delivery"
    /\ \E d \in NvRead : IF d = {} THEN StartDi("delivery") ELSE Goto("readDctpm")

ReadDctpm ==
    /\ pc = "readDctpm"
    /\ \E data \in NvRead :
          \/ /\ \A d \in data : ~d.fw_url
             /\ Goto("main")
          \/ /\ \E d \in data : d.fw_url
             /\ pc' = "download"
             /\ dctpm' = data
             /\ UNCHANGED <<boots, tpm, force, caller, attempt, fw, history>>

\* verify_firmware.
VerifyFirmware(f) == f.platform_key /\ f.sound

\* http_get and verify_firmware; any failure goes on to onboarding.
Download(got) ==
    /\ pc = "download"
    /\ \/ /\ \A f \in got : ~VerifyFirmware(f)
          /\ Goto("main")
       \/ /\ \E f \in got : VerifyFirmware(f)
          /\ pc' = "checkRev"
          /\ fw' = got
          /\ UNCHANGED <<boots, tpm, force, caller, attempt, dctpm, history>>

\* Deviation: the stored minimum is not consulted.
RevAcceptedRvOnly(rev, data) == \A d \in dctpm : rev >= ParsedMinRev(d.rv_revs)

\* check_firmware_rev: at least the stored minimum, 0 when nothing can be read,
\* and the rendezvous minimum of the credential read first.
RevAccepted(rev, data) ==
    /\ \A d \in data : rev >= d.min_firmware_rev
    /\ \A d \in dctpm : rev >= ParsedMinRev(d.rv_revs)

CheckRev ==
    /\ pc = "checkRev"
    /\ \E data \in NvRead : \E f \in fw :
          \/ ~RevAccepted(f.firmware_rev, data) /\ Goto("main")
          \/ RevAccepted(f.firmware_rev, data) /\ Goto("ratchet")

\* Deviation: the index is redefined for every ratchet.
FitsNever(d) == FALSE

FitsInPlace(d) == NvFits(Length(d))

\* update_firmware_rev_counter. That the minimum could not be stored is logged,
\* and the firmware is started all the same.
Ratchet ==
    /\ pc = "ratchet"
    /\ \E data \in NvRead : \E f \in fw :
          \/ /\ \A d \in data : f.firmware_rev <= d.min_firmware_rev
             /\ Goto("start")
          \/ \E d \in data :
                LET updated == [d EXCEPT !.min_firmware_rev = f.firmware_rev]
                IN  /\ f.firmware_rev > d.min_firmware_rev
                    /\ IF FitsInPlace(updated)
                       THEN \/ Goto("start")
                            \/ /\ NvWrite(updated)
                               /\ pc' = "start"
                               /\ UNCHANGED <<boots, keys, locals, issued, vouchers, adversity>>
                       ELSE /\ pc' = "undefine"
                            /\ dctpm' = {updated}
                            /\ UNCHANGED <<boots, tpm, force, caller, attempt, fw, history>>

\* chainload_image: a file that does not load leads on to onboarding; one that
\* was started and returned, with an error or without, ends the program.
StartFirmware ==
    /\ pc = "start"
    /\ \/ Goto("main")
       \/ Goto("running")

FirmwareReturns == pc = "running" /\ Exit

-----------------------------------------------------------------------------
(* run_di_protocol (di/protocol.rs) and its retries. The URL is never       *)
(* missing: get_di_server_url falls back to a well-known name.              *)

MoreAttempts == attempt < DiMaxAttempts

\* Deviation: attempts are not counted.
NextAttemptStuck == attempt

NextAttempt == attempt + 1

\* The attempt failed: another one, or on without credentials.
AttemptFails ==
    IF MoreAttempts
    THEN /\ pc' = "evictDak"
         /\ attempt' = NextAttempt
         /\ dctpm' = {}
         /\ UNCHANGED <<boots, force, caller, fw>>
    ELSE IF caller = "main"
    THEN pc' = "off" /\ ForgetLocals /\ UNCHANGED boots
    ELSE pc' = "main" /\ ForgetLocals /\ UNCHANGED boots

DiSucceeds ==
    /\ pc' = IF caller = "main" THEN "off" ELSE "readDctpm"
    /\ ForgetLocals
    /\ UNCHANGED boots

\* tpm_create_and_persist_signing_key, in two steps a crash may separate.
EvictDak ==
    /\ pc = "evictDak"
    /\ EvictKey("DAK")
    /\ pc' = "createDak"
    /\ UNCHANGED <<boots, nv, locals, history>>

\* DI goes on only with the key at its handle.
CreateDak ==
    /\ pc = "createDak"
    /\ \/ AttemptFails /\ UNCHANGED tpm
       \/ /\ "DAK" \notin keys
          /\ keys' = keys \cup {"DAK"}
          /\ pc' = "appStart"
          /\ UNCHANGED <<boots, nv, locals>>
    /\ UNCHANGED history

\* The CSR, DIAppStart and DISetCredentials, which names a fresh GUID.
AppStartFails == pc = "appStart" /\ AttemptFails /\ UNCHANGED <<tpm, history>>

AppStart(h) ==
    /\ pc = "appStart"
    /\ HeaderOfDevice(h)
    /\ issued < MaxGuids
    /\ issued' = issued + 1
    /\ dctpm' = {BuildDctpm(issued', h, RvMinFirmwareRev(h.rv_revs))}
    /\ pc' = "evictHmac"
    /\ UNCHANGED <<boots, tpm, force, caller, attempt, fw, vouchers, floor, adversity>>

EvictHmac ==
    /\ pc = "evictHmac"
    /\ EvictKey("HMAC")
    /\ pc' = "createHmac"
    /\ UNCHANGED <<boots, nv, locals, history>>

\* tpm_create_hmac_and_persist: DI goes on when the key could not be persisted.
CreateHmac ==
    /\ pc = "createHmac"
    /\ \/ AttemptFails /\ UNCHANGED tpm
       \/ /\ \/ keys' = keys \cup {"HMAC"}
             \/ "persist" \in adversity /\ UNCHANGED keys
          /\ pc' = "setHmac"
          /\ UNCHANGED <<boots, nv, locals>>
    /\ UNCHANGED history

\* Deviation: the credential is written without DIDone.
SetHmacUnanswered == pc = "setHmac" /\ Goto("undefine")

\* DISetHMAC: the manufacturer extends the voucher; its DIDone may be lost.
SetHmac ==
    /\ pc = "setHmac"
    /\ \/ /\ vouchers' = vouchers \cup {d.guid : d \in dctpm}
          /\ pc' = "undefine"
          /\ UNCHANGED <<boots, locals>>
       \/ /\ vouchers' \in {vouchers, vouchers \cup {d.guid : d \in dctpm}}
          /\ AttemptFails
    /\ UNCHANGED <<tpm, issued, floor, adversity>>

-----------------------------------------------------------------------------
(* tpm_nv_write: undefine, define, write. DI's failure is a failed attempt, *)
(* the ratchet's is only logged.                                            *)

WriteFailed ==
    IF caller = "none" THEN pc' = "start" /\ UNCHANGED <<boots, locals>> ELSE AttemptFails

WriteDone == IF caller = "none" THEN pc' = "start" /\ UNCHANGED <<boots, locals>> ELSE DiSucceeds

Undefine ==
    /\ pc = "undefine"
    /\ nv' \in {{}, nv}
    /\ pc' = "define"
    /\ UNCHANGED <<boots, keys, locals, history>>

\* An index that could not be undefined is still defined, which is accepted.
Define ==
    /\ pc = "define"
    /\ \/ WriteFailed /\ UNCHANGED nv
       \/ /\ nv' = IF nv = {} THEN {[size |-> DctpmPadded(d), data |-> {}] : d \in dctpm} ELSE nv
          /\ pc' = "write"
          /\ UNCHANGED <<boots, locals>>
    /\ UNCHANGED <<keys, history>>

Write ==
    /\ pc = "write"
    /\ \/ WriteFailed /\ UNCHANGED <<nv, floor>>
       \/ \E d \in dctpm : NvFits(DctpmPadded(d)) /\ NvWrite(d) /\ WriteDone
    /\ UNCHANGED <<keys, issued, vouchers, adversity>>

-----------------------------------------------------------------------------

Step ==
    \/ Main \/ Onboard
    \/ Delivery \/ ReadDctpm
    \/ \E got \in Opt(Firmwares) : Download(got)
    \/ CheckRev \/ Ratchet \/ StartFirmware
    \/ EvictDak \/ CreateDak
    \/ AppStartFails \/ \E h \in OVHeaders : AppStart(h)
    \/ EvictHmac \/ CreateHmac \/ SetHmac
    \/ Undefine \/ Define \/ Write

Next ==
    \/ \E f \in BOOLEAN : Boot(f)
    \/ Step
    \/ FirmwareReturns
    \/ Crash

\* The program is one thread that takes its next step; firmware that was
\* started need not return, and nobody has to switch the device on.
Spec == Init /\ [][Next]_vars /\ WF_vars(Step)

-----------------------------------------------------------------------------
(* Properties                                                               *)

Labels == {"off", "main", "onboard", "delivery", "readDctpm", "download", "checkRev",
           "ratchet", "start", "running", "evictDak", "createDak", "appStart",
           "evictHmac", "createHmac", "setHmac", "undefine", "define", "write"}

AtMostOne(S) == \A x, y \in S : x = y

\* The index, the keys and the program's variables hold values of their types.
TypeOK ==
    /\ pc \in Labels
    /\ boots \in 0..MaxBoots
    /\ nv \subseteq [size : Nat, data : SUBSET Dctpm]
    /\ AtMostOne(nv) /\ \A i \in nv : AtMostOne(i.data)
    /\ keys \subseteq {"DAK", "HMAC"}
    /\ force \in BOOLEAN
    /\ caller \in {"none", "delivery", "main"}
    /\ attempt \in 0..DiMaxAttempts
    /\ dctpm \subseteq Dctpm /\ AtMostOne(dctpm)
    /\ fw \in Opt(Firmwares)
    /\ issued \in 0..MaxGuids
    /\ vouchers \subseteq 0..MaxGuids
    /\ floor \in Nat

\* DCMinFirmwareRev is "only ever increased, preserved on rewrite" (dctpm.rs):
\* whatever is stored, after ratchets, failed writes, crashes and repeated DI,
\* is no lower than anything stored before.
MinRevOnlyIncreased == \A d \in Stored : d.min_firmware_rev >= floor

\* A device is initialized anew while it has a credential by -force-di, or because a read
\* that failed looks like an index that is not there.
DiOnlyOnce == adversity \cap {"force", "read"} = {}

\* The minimum is kept by a device that is not initialized anew while it has a credential
\* and whose index, once defined by this build, is never defined again: that takes three
\* TPM commands, and a crash between them leaves nothing to be preserved.
MinRevKept == DiOnlyOnce /\ "tight" \notin adversity

\* So it is on every such device.
MinRevNeverLowered == MinRevKept => MinRevOnlyIncreased

\* "The effective minimum revision is MAX(RVMinFirmwareRev, DCMinFirmwareRev)"
\* (anti_rollback.rs): no firmware takes over the machine that is older than a
\* minimum the device has stored in any boot, or than its rendezvous minimum. With
\* -force-di, or where a redefinition may be cut short, none that is older than the
\* minimum it has now. (Unless a read may fail, which counts as 0.)
NoRollback ==
    pc = "running" /\ "read" \notin adversity =>
        \A f \in fw :
            /\ MinRevKept => f.firmware_rev >= floor
            /\ \A d \in Stored : /\ f.firmware_rev >= d.min_firmware_rev
                                /\ f.firmware_rev >= ParsedMinRev(d.rv_revs)

\* A device never believes in a credential the manufacturer has no voucher for,
\* whatever answer was lost and wherever it lost power; and both keys of the credential
\* are at their handles, unless DI began on top of it and did not end or the HMAC key
\* could not be made persistent, which DI does not take for an error.
CredentialBacked ==
    /\ \A d \in Stored : d.guid \in vouchers
    /\ DiOnlyOnce /\ Stored # {} =>
          "DAK" \in keys /\ ("persist" \notin adversity => "HMAC" \in keys)

\* "so an interruption leaves the old or the new data" (tpm_nv_write_in_place):
\* while the index has room for any minimum, no step and no crash loses the
\* credential in it, other than DI.
CredentialSurvives ==
    [][\A i \in nv : \A d \in i.data :
          i.size >= d.first_ten + MaxUintLen =>
              caller # "none" \/ \E e \in Stored' : e.guid = d.guid]_vars

\* Every boot comes to an end or hands over to firmware: DI is retried only
\* DI_MAX_ATTEMPTS times, in the delivery check and in main.
BootEnds == pc # "off" ~> pc \in {"off", "running"}
=============================================================================
