------------------------------- MODULE Voucher -------------------------------
(***************************************************************************)
(* verify_voucher of src/voucher.rs: the walk from the OVHeader of a       *)
(* ProveOVHdr20 along the voucher entries to the owner's key, against      *)
(* everything that was ever signed. Vouchers travel through the hands of   *)
(* their owners and of the network, which may drop, repeat, reorder and    *)
(* mix entries, change what no signature covers, and offer the voucher of  *)
(* another device or of an earlier identity of this one.                   *)
(*                                                                         *)
(* Hashes do not collide, a signature verifies only under the key that     *)
(* made it, and an HMAC is only ever computed by the device's TPM. The     *)
(* HMAC key is a primary key, hence the same in every identity (module     *)
(* Device): the HMACs of all of them verify.                               *)
(***************************************************************************)
EXTENDS Naturals, Sequences, FiniteSets

CONSTANTS
    Keys,         \* keys parse_fdo_public_key understands
    Unsupported,  \* a public key it refuses
    Honest,       \* keys whose holders sign only transfers of vouchers they hold
    Headers,      \* OVHeaders anybody may write: guid, device_info and mfg key
    Minted,       \* those that DI services handed out, to this device or another
    Algs,         \* hash algorithms an entry may name
    MaxSigned,    \* bound on the entries ever signed
    MaxForged,    \* bound on those of them that dishonest keys sign
    MaxEntries    \* bound on the entries of a voucher

\* VoucherError
Errors == {"HeaderParse", "UnsupportedKey", "GuidMismatch", "HmacUnavailable",
           "HmacMismatch", "EntryParse", "DelegateNotSupported",
           "EntrySignatureInvalid", "UnsupportedHash", "HeaderHashMismatch", "PrevHashMismatch"}

ASSUME VoucherAssumption ==
    /\ Unsupported \notin Keys
    /\ Keys \cap Errors = {}
    /\ Honest \subseteq Keys
    /\ Minted \subseteq Headers
    /\ \A h \in Headers : h.mfg \in Keys \cup {Unsupported}
    /\ \A g, h \in Minted : g.guid = h.guid => g = h
    /\ MaxSigned \in Nat
    /\ MaxForged \in Nat
    /\ Headers # {}
    /\ MaxEntries \in Nat \ {0}

VARIABLES
    signed,     \* every entry ever signed, in order; its number names its bytes
    transfers,  \* history: which voucher each honest entry extended
    hmacs,      \* headers whose HMAC the device sent in DISetHMAC
    identity,   \* the header the device's credential came with, if any
    pc,         \* "idle", "entries", or the verdict was given: "done"
    header,     \* ov_header_cbor of the voucher being verified
    raw,        \* hmac_raw_cbor is encoded as the manufacturer encoded it
    entries,    \* the entries examined so far
    prev_key,   \* the key the next entry must be signed with
    prev_hash,  \* the hash the next entry must contain
    result      \* the owner's key or an error, once done

world == <<signed, transfers, hmacs, identity>>
presented == <<header, raw, entries>>
chain == <<prev_key, prev_hash>>
vars == <<world, pc, presented, chain, result>>

\* An entry as it travels: its number, 0 for bytes that are no COSE_Sign1, and
\* what the signature does not cover and the hash does, the unprotected header.
Unprotected == {"empty", "changed", "delegate"}
Bytes(n) == [id : 0..n, unprotected : Unprotected]

\* SHA-256 of OVHeader || HMac, of an entry, and of GUID || DeviceInfo.
HeaderHash(h, r) == <<"header", h, r>>
EntryHash(e) == <<"entry", e>>
HeaderInfoHash(h) == <<h.guid, h.device_info>>

\* A voucher of up to n entries: what ProveOVHdr20 and OVNextEntry20 carry.
Vouchers(n) == [header : Headers, raw : BOOLEAN,
                entries : UNION {[1..m -> Bytes(Len(signed))] : m \in 0..n}]

Upto(v, n) == [header |-> v.header, raw |-> v.raw, entries |-> SubSeq(v.entries, 1, n)]

OwnerAfter(v, n) == IF n = 0 THEN v.header.mfg ELSE signed[v.entries[n].id].pub_key
HashAfter(v, n) == IF n = 0 THEN HeaderHash(v.header, v.raw) ELSE EntryHash(v.entries[n])

\* Entry n of a voucher continues its chain of custody.
Continues(v, n) ==
    /\ v.entries[n].id # 0
    /\ LET e == signed[v.entries[n].id]
       IN  /\ e.by = OwnerAfter(v, n - 1)
           /\ e.hash_prev = HashAfter(v, n - 1)
           /\ e.hash_hdr = HeaderInfoHash(v.header)

InCustody(v) == \A n \in DOMAIN v.entries : Continues(v, n)

\* What this implementation can process of it.
Processable(v) ==
    /\ v.header.mfg \in Keys
    /\ \A n \in DOMAIN v.entries :
          /\ v.entries[n].unprotected # "delegate"
          /\ signed[v.entries[n].id].pub_key \in Keys
          /\ signed[v.entries[n].id].alg = "SHA256"

Presented == [header |-> header, raw |-> raw, entries |-> entries]

Init ==
    /\ signed = <<>>
    /\ transfers = {}
    /\ hmacs = {}
    /\ identity = {}
    /\ pc = "idle"
    /\ header = CHOOSE h \in Headers : TRUE
    /\ raw = TRUE
    /\ entries = <<>>
    /\ prev_key = header.mfg
    /\ prev_hash = HeaderHash(header, raw)
    /\ result = "HeaderParse"

-----------------------------------------------------------------------------
(* The owners (external). What they sign while the device verifies cannot   *)
(* be in the voucher it verifies, so they act before.                       *)

Sign(e) ==
    /\ signed' = Append(signed, e)
    /\ UNCHANGED <<hmacs, identity, pc, presented, chain, result>>

\* Vouchers that can be put together, up to the last but one entry.
Circulating == {v \in Vouchers(MaxEntries - 1) : InCustody(v)}

\* An honest owner extends a voucher that is in its custody; a manufacturer
\* one whose header it minted.
Extend(v, to, alg) ==
    /\ OwnerAfter(v, Len(v.entries)) \in Honest
    /\ v.entries = <<>> => v.header \in Minted /\ v.raw
    /\ Sign([by |-> OwnerAfter(v, Len(v.entries)),
             hash_prev |-> HashAfter(v, Len(v.entries)),
             hash_hdr |-> HeaderInfoHash(v.header), pub_key |-> to, alg |-> alg])
    /\ transfers' = transfers \cup {[id |-> Len(signed) + 1, over |-> v]}

Hashes == {HeaderHash(h, r) : h \in Headers, r \in BOOLEAN}
            \cup {EntryHash(e) : e \in {b \in Bytes(Len(signed)) : b.id # 0}}

\* The holder of any other key signs whatever it likes.
SignAnything(k, prev, h, to, alg) ==
    /\ Len(signed) < Cardinality(transfers) + MaxForged
    /\ Sign([by |-> k, hash_prev |-> prev, hash_hdr |-> HeaderInfoHash(h),
             pub_key |-> to, alg |-> alg])
    /\ UNCHANGED transfers

-----------------------------------------------------------------------------
(* The device.                                                              *)

\* run_di_protocol: a header from the DI service becomes the identity, in place of
\* an earlier one. Its HMAC leaves the device before the credential is written: DI
\* may fail in between, with the earlier credential still there or undefined.
Initialize(h) ==
    /\ pc = "idle"
    /\ h \in Minted \ hmacs
    /\ hmacs' = hmacs \cup {h}
    /\ identity' \in {{h}, identity, {}}
    /\ UNCHANGED <<signed, transfers, pc, presented, chain, result>>

Return(r) ==
    /\ pc' = "done"
    /\ result' = r

\* Deviation: the GUID is not compared.
GuidMatchesAny(h) == identity # {}

GuidMatches(h) == \E c \in identity : h.guid = c.guid

\* The HMAC computed over the header is the one received, made over header "of".
HmacMatches(h, of) == of = {h}

\* parse_ov_header, down to the manufacturer's key.
HeaderParses(h) == h.mfg \in Keys

\* From the header to the HMAC. "of" is the header whose HMAC was received, if
\* it is one of this device's. The TPM may fail.
Begin(h, of, r, tpm_ok) ==
    /\ pc = "idle"
    /\ identity # {}
    /\ of \subseteq hmacs
    /\ header' = h
    /\ raw' = r
    /\ entries' = <<>>
    /\ prev_key' = h.mfg
    /\ prev_hash' = HeaderHash(h, r)
    /\ \/ ~HeaderParses(h) /\ \E err \in {"HeaderParse", "UnsupportedKey"} : Return(err)
       \/ HeaderParses(h) /\ ~GuidMatches(h) /\ Return("GuidMismatch")
       \/ HeaderParses(h) /\ GuidMatches(h) /\ ~tpm_ok /\ Return("HmacUnavailable")
       \/ /\ HeaderParses(h) /\ GuidMatches(h) /\ tpm_ok /\ ~HmacMatches(h, of)
          /\ Return("HmacMismatch")
       \/ /\ HeaderParses(h) /\ GuidMatches(h) /\ tpm_ok /\ HmacMatches(h, of)
          /\ pc' = "entries"
          /\ UNCHANGED result
    /\ UNCHANGED world

\* Deviation: the predecessor is not compared.
PrevHashMatchesAny(e) == TRUE

PrevHashMatches(e) == e.hash_prev = prev_hash

\* Deviation: a key in a form that is not implemented is passed on.
KeyParsesAny(e) == TRUE

\* parse_fdo_public_key of the new owner's key.
KeyParses(e) == e.pub_key \in Keys

\* What an entry fails with, in the order of the checks; {} if it passes.
EntryError(b) ==
    LET e == signed[b.id]
    IN  CASE b.id = 0 -> {"EntryParse"}
          [] b.unprotected = "delegate" -> {"DelegateNotSupported"}
          [] e.by # prev_key -> {"EntrySignatureInvalid"}
          [] ~KeyParses(e) -> {"EntryParse"}
          [] e.alg # "SHA256" -> {"UnsupportedHash"}
          [] e.hash_hdr # HeaderInfoHash(header) -> {"HeaderHashMismatch"}
          [] ~PrevHashMatches(e) -> {"PrevHashMismatch"}
          [] OTHER -> {}

\* Deviation: the chain advances by the key alone.
AdvanceKeyOnly(b) ==
    /\ prev_key' = signed[b.id].pub_key
    /\ UNCHANGED prev_hash

Advance(b) ==
    /\ prev_key' = signed[b.id].pub_key
    /\ prev_hash' = EntryHash(b)

\* One iteration of the loop. Entries not examined yet have no influence on it,
\* so each is chosen when the loop reaches it.
Entry(b) ==
    /\ pc = "entries"
    /\ Len(entries) < MaxEntries
    /\ entries' = Append(entries, b)
    /\ \/ /\ EntryError(b) = {}
          /\ Advance(b)
          /\ UNCHANGED <<pc, result>>
       \/ /\ \E err \in EntryError(b) : Return(err)
          /\ UNCHANGED chain
    /\ UNCHANGED <<world, header, raw>>

\* No entries (left): the owner is the key the chain has reached.
Accept ==
    /\ pc = "entries"
    /\ Return(prev_key)
    /\ UNCHANGED <<world, presented, chain>>

Owners ==
    /\ pc = "idle"
    /\ Len(signed) < MaxSigned
    /\ \/ \E v \in Circulating, to \in Keys \cup {Unsupported}, alg \in Algs : Extend(v, to, alg)
       \/ \E k \in Keys \ Honest, prev \in Hashes, h \in Headers,
             to \in Keys \cup {Unsupported}, alg \in Algs : SignAnything(k, prev, h, to, alg)

Next ==
    \/ Owners
    \/ \E h \in Minted : Initialize(h)
    \/ \E h \in Headers, of \in {{}} \cup {{g} : g \in hmacs}, r, tpm_ok \in BOOLEAN :
          Begin(h, of, r, tpm_ok)
    \/ \E b \in Bytes(Len(signed)) : Entry(b)
    \/ Accept

Spec == Init /\ [][Next]_vars

-----------------------------------------------------------------------------
(* Properties                                                               *)

Entries == [by : Keys,
            hash_prev : ({"header"} \X Headers \X BOOLEAN)
                          \cup ({"entry"} \X Bytes(MaxSigned)),
            hash_hdr : {HeaderInfoHash(h) : h \in Headers},
            pub_key : Keys \cup {Unsupported},
            alg : Algs]

\* The variables hold values of their types, and while entries are examined the
\* chain stands on a key that was understood.
TypeOK ==
    /\ signed \in Seq(Entries)
    /\ Len(signed) <= MaxSigned
    /\ transfers \subseteq [id : 1..Len(signed), over : Vouchers(MaxEntries)]
    /\ hmacs \subseteq Minted
    /\ identity \in {{}} \cup {{h} : h \in hmacs}
    /\ pc \in {"idle", "entries", "done"}
    /\ header \in Headers
    /\ raw \in BOOLEAN
    /\ entries \in Seq(Bytes(Len(signed)))
    /\ prev_key \in Keys \cup {Unsupported}
    /\ pc = "entries" => prev_key \in Keys
    /\ result \in Keys \cup Errors

Accepted == pc = "done" /\ result \in Keys

\* "Binds the entry to its predecessor, so entries cannot be reordered,
\* replaced, or removed" (verify_voucher): in a voucher the device accepts,
\* every entry signed by an honest owner is a transfer that owner made of exactly
\* the voucher formed by the header, the HMac and the entries before it.
CustodyAgreement ==
    Accepted =>
        \A n \in DOMAIN entries :
            signed[entries[n].id].by \in Honest =>
                [id |-> entries[n].id, over |-> Upto(Presented, n - 1)] \in transfers

\* "the HMAC binds this header to THIS device": what is accepted is the voucher of
\* the identity the device has now, not one of an earlier DI, whose HMAC the
\* unchanged TPM key confirms as well, and not a header somebody else wrote.
CurrentIdentity == Accepted => identity = {header}

\* The loop against the definition of a valid voucher: it accepts the owner that
\* custody has reached, and a voucher in custody that it can process is refused
\* only for a GUID or an HMAC that is not right, or a TPM that does not answer.
VerdictExact ==
    pc = "done" =>
        IF result \in Keys
        THEN /\ InCustody(Presented)
             /\ Processable(Presented)
             /\ result = OwnerAfter(Presented, Len(entries))
        ELSE InCustody(Presented) /\ Processable(Presented) =>
                result \in {"GuidMismatch", "HmacUnavailable", "HmacMismatch"}
=============================================================================
