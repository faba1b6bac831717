----------------------------- MODULE Credential ------------------------------
(***************************************************************************)
(* The device credential (DCTPM) as bytes: what DI encodes (build_dctpm of *)
(* src/di/protocol.rs), what the firmware delivery rewrites when it        *)
(* ratchets the minimum revision (src/dctpm.rs, anti_rollback.rs), and what*)
(* the decoders of the program read out of it, the GUID that the scope of  *)
(* an artifact is compared with included (Scope). Device treats the same   *)
(* credential as a record; here is why it may. The form of the credential  *)
(* as a map, which dctpm.rs reads but nothing writes, is left out.         *)
(***************************************************************************)
EXTENDS Rendezvous, Scope

CONSTANTS
    Guids,          \* GUIDs that DI services assign
    RvInfos,        \* RendezvousInfos that they send, as streams
    Revs,           \* revisions of firmware images
    Artifacts,      \* protected headers of the artifacts that the owner signs
    ExpectedCt,     \* the content type that an artifact must have
    MaxInits        \* bound on the initializations of a device

VARIABLES
    nv,         \* the DCTPM index without its padding; empty if there is none
    inits,
    artifact,   \* the header that was evaluated last, if any
    verdict,    \* and whether it passed
    \* Histories.
    ov_header,  \* the GUID and the RvInfo of the last DI
    floor       \* the highest revision that was started since then

vars == <<nv, inits, artifact, verdict, ov_header, floor>>

Magic == 1000
DakHandle == 2000
HmacHandle == 3000

\* Four bytes whatever the value.
Uint32(n) == Item(0, 4, n)

\* Items 0 to 9; the last four of them follow the RvInfo.
LastFour ==
    <<Array(2), Item(1, 0, 15), Bytes("key hash"), Item(0, 0, 0),
      Uint32(DakHandle), Uint32(HmacHandle)>>
FirstTen(guid, rv) ==
    <<Uint32(Magic), Item(7, 0, 21), Item(0, 1, 200), Text("device"), Bytes(guid)>>
    \o rv \o LastFour

\* An RvInfo is what cbor_capture_value took out of the voucher header, one item that could
\* be skipped. A byte string around it is not empty, and its length has no four bytes: tpm.rs
\* would give it up. Without one, a walk that loses count goes on behind the RvInfo.
IsRvInfo(rv) ==
    /\ IsItem(rv) /\ IsDescribed(rv) /\ IsDescribed(RvStream(rv))
    /\ IF rv[1].m = 2 THEN IsRead(rv[1], 2) /\ IsFollowed(RvStream(rv), 1)
       ELSE IsFollowed(rv \o LastFour, 1)

\* Of an artifact, the protected header.
ASSUME CredentialAssumption ==
    /\ \A rv \in RvInfos : IsRvInfo(rv)
    /\ \A header \in Artifacts : IsStream(header)
    /\ Revs \subseteq Nat
    /\ MaxInits \in Nat

BuildDctpm(guid, rv) ==
    <<Array(11)>> \o FirstTen(guid, rv) \o <<Uint(RvMinFirmwareRevOf(rv))>>

-----------------------------------------------------------------------------
(* The decoders of the credential.                                          *)

\* read_fdo_credentials of tpm.rs.
ReadFdoCredentials(data) ==
    LET guid == Skip(data, 3, 3, Narrow)
        dak == IF guid = 0 THEN 0 ELSE Skip(data, guid + 1, 3, Narrow)
    IN  IF data = <<>> THEN {}
        ELSE IF data[1].n < 10 \/ data[2].n # Magic \/ dak = 0 THEN {}
        ELSE IF data[guid].m # 2 \/ data[dak].m # 0 \/ data[dak + 1].m # 0 THEN {}
        ELSE {[guid |-> data[guid].text, device_key_handle |-> data[dak].n,
               hmac_key_handle |-> data[dak + 1].n]}

\* Where read_fdo_rv_info and parse_rv_firmware_info find item 5.
RvInfoAt(data) == Skip(data, 2, 5, Narrow)

ReadFdoRvInfo(data) == ParseRvInfoAt(data, RvInfoAt(data))
ReadRvFirmwareInfo(data) == ParseRvFirmwareInfoAt(data, RvInfoAt(data))

\* min_firmware_rev of dctpm.rs: item 10, and 0 for a credential that has none.
MinFirmwareRev(data) ==
    IF data[1].n <= 10 THEN {0}
    ELSE LET at == Skip(data, 2, 10, Wide)
         IN  IF at = 0 THEN {} ELSE IF data[at].m # 0 THEN {} ELSE {data[at].n}

\* Deviation: an appended item is not counted.
WithMinFirmwareRevUncounted(data, rev) ==
    LET at == Skip(data, 2, 10, Wide)
    IN  SubSeq(data, 1, at - 1) \o <<Uint(rev)>> \o SubSeq(data, at + 1, Len(data))

\* with_min_firmware_rev: item 10 replaced, or appended to ten items.
WithMinFirmwareRev(data, rev) ==
    LET at == Skip(data, 2, 10, Wide)
    IN  <<Array(IF data[1].n > 11 THEN data[1].n ELSE 11)>> \o SubSeq(data, 2, at - 1)
        \o <<Uint(rev)>> \o SubSeq(data, at + 1, Len(data))

\* What check_firmware_rev measures a revision by.
EffectiveMin(data) ==
    Highest(MinFirmwareRev(data) \cup UNION {i.min_firmware_rev : i \in ReadRvFirmwareInfo(data)})

-----------------------------------------------------------------------------

\* No credential, or one of an earlier build, which had ten items.
Init ==
    /\ ov_header \in [guid : Guids, rv : RvInfos]
    /\ nv \in {<<>>, <<Array(10)>> \o FirstTen(ov_header.guid, ov_header.rv)}
    /\ inits = 0
    /\ artifact = {} /\ verdict = FALSE
    /\ floor = 0

\* run_di_protocol: the header is parsed, its RvInfo captured and stored as it came.
Initialize(guid, rv) ==
    /\ artifact = {}
    /\ inits < MaxInits
    /\ inits' = inits + 1
    /\ nv' = BuildDctpm(guid, rv)
    /\ ov_header' = [guid |-> guid, rv |-> rv]
    /\ floor' = 0
    /\ UNCHANGED <<artifact, verdict>>

\* check_and_deliver with a verified image of that revision: nothing without a URL to
\* download from, check_firmware_rev, update_firmware_rev_counter.
Deliver(rev) ==
    /\ artifact = {}
    /\ nv # <<>>
    /\ \E i \in ReadRvFirmwareInfo(nv) : i.server_url # {} \/ i.firmware_urls # {}
    /\ rev >= EffectiveMin(nv)
    /\ nv' = IF rev > Highest(MinFirmwareRev(nv)) THEN WithMinFirmwareRev(nv, rev) ELSE nv
    /\ floor' = Highest({floor, rev})
    /\ UNCHANGED <<inits, artifact, verdict, ov_header>>

ContentTypeLabel == 3

\* verify_bmo_signed of an artifact whose signature is right, with the GUID of the credential.
Evaluate(header) ==
    /\ artifact = {}
    /\ nv # <<>>
    /\ \E c \in ReadFdoCredentials(nv) :
          verdict' = (/\ ExpectedCt \in ParseProtectedTstr(header, ContentTypeLabel)
                      /\ EvaluateBmoScope(header, c.guid))
    /\ artifact' = {header}
    /\ UNCHANGED <<nv, inits, ov_header, floor>>

\* The next boot, in which DI and the delivery come before any artifact again.
Reboot ==
    /\ artifact # {}
    /\ artifact' = {} /\ verdict' = FALSE
    /\ UNCHANGED <<nv, inits, ov_header, floor>>

Next ==
    \/ \E guid \in Guids, rv \in RvInfos : Initialize(guid, rv)
    \/ \E rev \in Revs : Deliver(rev)
    \/ \E header \in Artifacts : Evaluate(header)
    \/ Reboot

Spec == Init /\ [][Next]_vars

-----------------------------------------------------------------------------
(* Properties.                                                              *)

\* However often the minimum was rewritten, in whatever width, and whatever the RvInfo in the
\* middle of the credential looks like, read_fdo_credentials finds the GUID and the handles
\* that DI stored, and the minimum that a revision is measured by is not below one that
\* was started. Behind a DI of this build it is not below any that the RvInfo asked for
\* either, although rv_parse.rs only sees the last of them and none of eight bytes: unless
\* dctpm.rs could not read the RvInfo, which neither may be wrapped nor hold anything
\* but arrays.
CredentialReadBack ==
    nv # <<>> =>
        /\ ReadFdoCredentials(nv) = {[guid |-> ov_header.guid, device_key_handle |-> DakHandle,
                                      hmac_key_handle |-> HmacHandle]}
        /\ EffectiveMin(nv) >= floor
        /\ inits > 0 /\ HoldsArrays(ov_header.rv, 1) =>
              \A rev \in MeantRevs(Meant(ov_header.rv, 1)) : EffectiveMin(nv) >= rev

\* The server the device onboards with (tpm.rs) is the one it takes firmware from
\* (rv_parse.rs), with the same port and scheme, and of an RvInfo that holds nothing but
\* arrays it is the one that is meant, whatever follows in the credential. Provided that
\* tpm.rs can read the arguments of the values (IsShort); and of an RvInfo with something
\* else than an array in it only as far as both get lost in the same way (IsRvInfo).
RvReadersAgree ==
    LET s == RvStream(ov_header.rv)
    IN  nv # <<>> /\ IsShort(s) =>
          /\ IsItem(s) /\ HoldsArrays(s, 1) => ReadFdoRvInfo(nv) = MeantServer(Meant(s, 1))
          /\ \A i \in ReadRvFirmwareInfo(nv) : i.server_url = ReadFdoRvInfo(nv)

\* An artifact passes exactly when it has the content type and its scope allows it, in every
\* order of its entries and constraints: provided that its header is readable, and that
\* no GUID is listed behind the device's own.
ScopeExact ==
    \A header \in artifact :
        IsReadable(header) /\ IsLastGuid(header, ov_header.guid)
        => (verdict <=> /\ HasText(header, ContentTypeLabel, ExpectedCt)
                        /\ Allowed(header, ov_header.guid))

\* What the comment of evaluate_bmo_scope promises without these provisos: no artifact passes
\* with a constraint that fails or cannot be evaluated.
ScopeFailsClosed == \A header \in artifact : verdict => Allowed(header, ov_header.guid)
=============================================================================
