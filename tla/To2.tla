--------------------------------- MODULE To2 ---------------------------------
(***************************************************************************)
(* perform_to1 (messages 30 to 33) and the handshake of perform_to2        *)
(* (messages 80 to 87) in src/fdo.rs: from the question to the rendezvous  *)
(* server to the SetupDevice20 that opens the ServiceInfo loop (module     *)
(* ServiceInfo), over as many runs as the device makes. Everything before  *)
(* step 3b is unauthenticated, so the network may answer with any blob and *)
(* with a ProveOVHdr of an earlier run or of somebody else.                *)
(*                                                                         *)
(* Random numbers are fresh: what the TPM draws in run r is named by r.    *)
(* A signature verifies only under the key that made it, and only the      *)
(* device and the party that chose xB can compute the session key.         *)
(***************************************************************************)
EXTENDS Naturals, Sequences, FiniteSets

CONSTANTS
    MaxRuns,         \* bound on the runs of perform_to2
    MaxAnswers,      \* bound on the ProveOVHdr answers signed over all runs
    TransientSlots,  \* transient object slots of the TPM
    Custody,         \* owner keys after 0, 1, ... voucher entries
    Chains,          \* delegate certificate chains that verify: leaf, root, perms
    Stranger,        \* a key that is neither an owner's nor a delegate's
    To1ds            \* to1d blobs a rendezvous server may deliver

Opt(S) == {{}} \cup {{x} : x \in S}

Permissions == {"onboard", "provision", "redirect"}
Owners == {Custody[n] : n \in DOMAIN Custody}
Delegates == {c.leaf : c \in Chains}
Keys == Owners \cup Delegates \cup {Stranger}

ASSUME To2Assumption ==
    /\ MaxRuns \in Nat \ {0}
    /\ MaxAnswers \in Nat
    /\ TransientSlots \in Nat \ {0}
    /\ Custody # <<>>
    /\ Stranger \notin Owners \cup Delegates
    /\ Owners \cap Delegates = {}
    /\ Chains \subseteq [leaf : Delegates, root : Owners, perms : SUBSET Permissions]
    /\ \A c, d \in Chains : c.leaf = d.leaf => c = d
    /\ To1ds \subseteq [by : Keys, chain : Opt(Delegates)]

VARIABLES
    pc,           \* where perform_to1, then perform_to2, is
    run,          \* the run in progress; names its xA and nonces
    to1d,         \* the to1d argument, if TO1 delivered one
    loaded,       \* transient objects left in the TPM
    prove_ov,     \* the ProveOVHdr20 received, if any
    entries,      \* OV entries fetched: TRUE if it is the voucher's own
    sek,          \* session key: the xA and the xB it was derived from
    peer,         \* peer_authority, once established
    signer,       \* prove_ov_signer, once established
    sessions,     \* history: TO2 sessions the holders of keys have answered
    ciphertexts   \* history: what the device encrypted, under which key and IV

device == <<to1d, prove_ov, entries, sek, peer, signer>>
vars == <<pc, run, loaded, device, sessions, ciphertexts>>

\* An xB: the party that knows its private half.
XB == Keys

\* ProveOVHdr20: its signer, the nonce and xB in it, whether its HMAC is that
\* of this device over the header, the number of entries and the chain in it.
ProveOVHdr == [by : Keys, nonce : 1..MaxRuns, xb : XB, hmac : BOOLEAN,
               num_ov_entries : 0..(Len(Custody) - 1), delegate_chain : Opt(Delegates)]

Session == [msg : ProveOVHdr, xa : 1..MaxRuns]

SetupDevice == [decrypts : BOOLEAN, disposition : {"resale", "reuse", "disable"},
                by : Keys, owner2 : Keys, nonce : 1..MaxRuns]

NoSek == [xa |-> 0, xb |-> Stranger]

\* Deviation: every run draws the same xA.
XaRandFixed(r) == 1

\* xA.Rand, NonceTO2ProveOV and NonceTO2SetupDv as drawn in run r.
XaRand(r) == r
NonceTO2ProveOV(r) == r
NonceTO2SetupDv(r) == r

Init ==
    /\ pc = "to1"
    /\ run = 1
    /\ to1d = {}
    /\ loaded = 0
    /\ prove_ov = {}
    /\ entries = <<>>
    /\ sek = NoSek
    /\ peer = "none"
    /\ signer = {}
    /\ sessions = {}
    /\ ciphertexts = {}

-----------------------------------------------------------------------------
(* The other parties (external): each answers the ProveDevice20 of a run,   *)
(* or an old copy of it, with what its key lets it sign.                    *)

SignedBy(k, nonce) ==
    [by : {k}, nonce : {nonce}, xb : {k}, hmac : {TRUE},
     num_ov_entries : {n \in 0..(Len(Custody) - 1) :
                         \/ Custody[n + 1] = k
                         \/ \E c \in Chains : c.leaf = k /\ c.root = Custody[n + 1]},
     delegate_chain : {IF k \in Delegates THEN {k} ELSE {}}]

\* The device's ProveDevice20 of run r is in the network once it was sent.
Proved(r) == r < run \/ (r = run /\ pc \notin {"to1", "proveToRV", "idle", "prove"})

Respond(k, r) ==
    /\ Proved(r)
    /\ Cardinality(sessions) < MaxAnswers
    /\ \E m \in SignedBy(k, NonceTO2ProveOV(r)) :
          sessions' = sessions \cup {[msg |-> m, xa |-> XaRand(r)]}
    /\ UNCHANGED <<pc, run, loaded, device, ciphertexts>>

\* What may reach the device: a signed answer of any run, or a message made up
\* without the keys, from nonces and xBs that were seen.
Deliverable ==
    {s.msg : s \in sessions}
      \cup {m \in ProveOVHdr :
              /\ m.by = Stranger
              /\ m.xb = Stranger \/ \E s \in sessions : m.xb = s.msg.xb
              /\ \E r \in 1..run : m.nonce = NonceTO2ProveOV(r)}

-----------------------------------------------------------------------------
(* The device.                                                              *)

ResetLocals ==
    /\ prove_ov' = {}
    /\ entries' = <<>>
    /\ sek' = NoSek
    /\ peer' = "none"
    /\ signer' = {}

\* HelloRV is answered with a nonce and a session token.
HelloRV ==
    /\ pc = "to1"
    /\ pc' = "proveToRV"
    /\ UNCHANGED <<run, loaded, device, sessions, ciphertexts>>

\* ProveToRV, signed by the persistent device key, is answered with RVRedirect;
\* its first blob is kept for step 3b, which alone can check it.
ProveToRV(b) ==
    /\ pc = "proveToRV"
    /\ pc' = "idle"
    /\ to1d' = {b}
    /\ UNCHANGED <<run, loaded, prove_ov, entries, sek, peer, signer, sessions, ciphertexts>>

\* No answer, an error message or one that does not parse, and TO2 is run
\* without a blob.
To1Fails ==
    /\ pc \in {"to1", "proveToRV"}
    /\ pc' = "idle"
    /\ UNCHANGED <<run, loaded, device, sessions, ciphertexts>>

\* perform_to2 returns an error: its locals are gone, the TPM keeps what was
\* not flushed.
Fail(leaked) ==
    /\ pc' = "failed"
    /\ loaded' = loaded + leaked
    /\ ResetLocals
    /\ UNCHANGED <<run, to1d, sessions, ciphertexts>>

\* Deviation: leftover transient objects are not flushed.
HelloKeepsObjects ==
    /\ pc = "idle"
    /\ pc' = "prove"
    /\ UNCHANGED <<run, loaded, device, sessions, ciphertexts>>

\* Steps 0 and 1: leftover transient objects are flushed, then the probe and
\* an ack whose hashPrev covers it and which offers ECDH256.
Hello ==
    /\ pc = "idle"
    /\ pc' = "prove"
    /\ loaded' = 0
    /\ UNCHANGED <<run, device, sessions, ciphertexts>>

HelloFails ==
    /\ pc = "idle"
    /\ pc' = "failed"
    /\ loaded' = 0
    /\ UNCHANGED <<run, device, sessions, ciphertexts>>

\* Step 2: the ECDH key is created, xA and NonceTO2ProveOV are drawn, the key
\* is flushed and the signed EAT is posted.
ProveDevice ==
    /\ pc = "prove"
    /\ loaded < TransientSlots
    /\ pc' = "awaitOVHdr"
    /\ UNCHANGED <<run, loaded, device, sessions, ciphertexts>>

\* No slot for the key; or GetRandom fails before the key is flushed; or the
\* signature fails after it was.
ProveDeviceFails ==
    /\ pc = "prove"
    /\ \/ loaded >= TransientSlots /\ Fail(0)
       \/ loaded < TransientSlots /\ \E leaked \in {0, 1} : Fail(leaked)

\* The key is recreated (CreatePrimary is deterministic) and the session keys
\* are derived from an answer nothing has authenticated yet.
RecvProveOVHdr(m) ==
    /\ pc = "awaitOVHdr"
    /\ loaded < TransientSlots
    /\ pc' = "entries"
    /\ prove_ov' = {m}
    /\ sek' = [xa |-> XaRand(run), xb |-> m.xb]
    /\ entries' = <<>>
    /\ UNCHANGED <<run, loaded, to1d, peer, signer, sessions, ciphertexts>>

\* No answer or one that does not parse; no slot; ECDH_ZGen or an xB that does
\* not parse, both before the recreated key is flushed.
RecvProveOVHdrFails ==
    /\ pc = "awaitOVHdr"
    /\ \E leaked \in {0, 1} : loaded + leaked <= TransientSlots /\ Fail(leaked)

\* Step 3: GetOVNextEntry20. An answer for another number ends the run.
FetchEntry(own) ==
    /\ pc = "entries"
    /\ \E m \in prove_ov : Len(entries) < m.num_ov_entries
    /\ entries' = Append(entries, own)
    /\ UNCHANGED <<pc, run, loaded, to1d, prove_ov, sek, peer, signer, sessions, ciphertexts>>

FetchEntryFails ==
    /\ pc = "entries"
    /\ \E m \in prove_ov : Len(entries) < m.num_ov_entries
    /\ Fail(0)

\* voucher::verify_voucher: the header is this device's, and the chain of
\* custody leads to the key of its last entry if no entry was replaced.
VerifyVoucher(m) ==
    IF m.hmac /\ \A i \in DOMAIN entries : entries[i]
    THEN {Custody[Len(entries) + 1]} ELSE {}

\* delegate::verify_delegate_chain: the permissions of a chain that roots in key.
VerifyDelegateChain(leaf, key) == {c \in Chains : c.leaf = leaf /\ c.root = key}

\* Deviation: a chain needs no onboard permission.
MayOnboardAny(c) == TRUE

MayOnboard(c) == "onboard" \in c.perms

\* Deviation: every delegate may provision.
PeerOfTrusting(c) == "DelegateProvision"

PeerOf(c) == IF "provision" \in c.perms THEN "DelegateProvision" ELSE "DelegateOnboard"

\* The key ProveOVHdr must be signed with, and the peer it proves.
PeerFor(m, key) ==
    IF m.delegate_chain = {}
    THEN {[key |-> key, peer |-> "OwnerDirect"]}
    ELSE {[key |-> c.leaf, peer |-> PeerOf(c)] :
            c \in {d \in UNION {VerifyDelegateChain(l, key) : l \in m.delegate_chain} :
                     MayOnboard(d)}}

\* Deviation: the nonce is not compared.
VerifyNonceEchoAny(expected, received) == TRUE

VerifyNonceEcho(expected, received) == expected = received

\* Deviation: a blob with a chain is not checked against it.
VerifyTo1dChain(key) ==
    \A b \in to1d : b.chain # {} \/ b.by = key

\* The rendezvous blob, when there is one, against the same owner key.
VerifyTo1d(key) ==
    \A b \in to1d :
        IF b.chain = {}
        THEN b.by = key
        ELSE \E c \in UNION {VerifyDelegateChain(l, key) : l \in b.chain} :
                "redirect" \in c.perms /\ b.by = c.leaf

AllFetched(m) == pc = "entries" /\ Len(entries) = m.num_ov_entries

OwnerProven(m, key, p) ==
    /\ key \in VerifyVoucher(m)
    /\ p \in PeerFor(m, key)
    /\ m.by = p.key
    /\ VerifyNonceEcho(NonceTO2ProveOV(run), m.nonce)
    /\ VerifyTo1d(key)

\* Steps 3b and 4: the owner is proven, and DeviceSvcInfoRdy20 is the first
\* message of the session, encrypted with IV 0.
VerifyOwner ==
    \E m \in prove_ov : \E key \in Owners : \E p \in PeerFor(m, key) :
        /\ AllFetched(m)
        /\ OwnerProven(m, key, p)
        /\ pc' = "awaitSetup"
        /\ peer' = p.peer
        /\ signer' = {p.key}
        /\ ciphertexts' = ciphertexts \cup {[sek |-> sek, iv |-> 0, run |-> run]}
        /\ UNCHANGED <<run, loaded, to1d, prove_ov, entries, sek, sessions>>

\* The owner is not proven; or it is, and NonceTO2SetupDv cannot be drawn.
VerifyOwnerFails == \E m \in prove_ov : AllFetched(m) /\ Fail(0)

\* Resale proves possession of the new owner's key, with this run's nonce;
\* credential reuse is signed by the signer of ProveOVHdr.
CheckSetupDevice20(d) ==
    \/ d.disposition = "resale" /\ d.by = d.owner2 /\ d.nonce = NonceTO2SetupDv(run)
    \/ d.disposition = "reuse" /\ d.by \in signer

RecvSetupDevice(d) ==
    /\ pc = "awaitSetup"
    /\ d.decrypts
    /\ CheckSetupDevice20(d)
    /\ pc' = "ready"
    /\ UNCHANGED <<run, loaded, device, sessions, ciphertexts>>

RecvSetupDeviceFails(d) ==
    /\ pc = "awaitSetup"
    /\ ~(d.decrypts /\ CheckSetupDevice20(d))
    /\ Fail(0)

\* The next run: the application is started again, after a reset or without.
NextRun ==
    /\ pc \in {"failed", "ready"}
    /\ run < MaxRuns
    /\ run' = run + 1
    /\ pc' = "to1"
    /\ to1d' = {}
    /\ loaded' \in {0, loaded}
    /\ ResetLocals
    /\ UNCHANGED <<sessions, ciphertexts>>

Next ==
    \/ HelloRV \/ (\E b \in To1ds : ProveToRV(b)) \/ To1Fails
    \/ Hello \/ HelloFails
    \/ ProveDevice \/ ProveDeviceFails
    \/ \E m \in Deliverable : RecvProveOVHdr(m)
    \/ RecvProveOVHdrFails
    \/ \E own \in BOOLEAN : FetchEntry(own)
    \/ FetchEntryFails
    \/ VerifyOwner \/ VerifyOwnerFails
    \/ \E d \in SetupDevice : RecvSetupDevice(d) \/ RecvSetupDeviceFails(d)
    \/ NextRun
    \/ \E k \in Keys \ {Stranger}, r \in 1..MaxRuns : Respond(k, r)

Spec == Init /\ [][Next]_vars

-----------------------------------------------------------------------------
(* Properties                                                               *)

\* The variables of perform_to2 and the recorded messages hold values of their types.
TypeOK ==
    /\ pc \in {"to1", "proveToRV", "idle", "prove", "awaitOVHdr", "entries", "awaitSetup",
               "ready", "failed"}
    /\ run \in 1..MaxRuns
    /\ to1d \subseteq To1ds
    /\ loaded \in Nat
    /\ prove_ov \subseteq ProveOVHdr
    /\ entries \in Seq(BOOLEAN)
    /\ sek \in [xa : 0..MaxRuns, xb : XB]
    /\ peer \in {"none", "OwnerDirect", "DelegateProvision", "DelegateOnboard"}
    /\ signer \subseteq Keys
    /\ sessions \subseteq Session
    /\ ciphertexts \subseteq [sek : [xa : 1..MaxRuns, xb : XB], iv : {0}, run : 1..MaxRuns]

Authenticated == pc \in {"awaitSetup", "ready"}

\* Keys that may onboard the device: every owner in the chain of custody, and
\* delegates whose whole chain grants an onboard permission.
Onboarders == Owners \cup {c.leaf : c \in {d \in Chains : "onboard" \in d.perms}}

\* Agreement (step 3b, "This is what binds the session (and xB, hence the
\* session keys) to the proven Owner"): once the device considers its owner
\* proven, the holder of that key did answer THIS run, with the xB the session
\* key was derived from. A ProveOVHdr recorded in another run does not do.
OwnerAuthenticated ==
    Authenticated =>
        \E s \in sessions :
            /\ s.msg.by \in signer
            /\ s.msg.by \in Onboarders
            /\ s.xa = sek.xa
            /\ s.msg.xb = sek.xb
            /\ s.msg.nonce = NonceTO2ProveOV(run)

\* Session keys exist before the peer is known (step 2), but nothing was ever
\* encrypted, in this run or an earlier one, under a key that a party without
\* onboarding authority can compute.
SecretsOnlyToOnboarders == \A c \in ciphertexts : c.sek.xb \in Onboarders

\* The IV counter restarts at 0 in every run, so no two runs may encrypt under
\* one session key, even with a peer whose xB never changes.
SekNeverReused ==
    \A c, d \in ciphertexts : c.sek = d.sek /\ c.iv = d.iv => c.run = d.run

\* "conflating the two once let a PERM.2-only delegate supply unsigned
\* provisioning payloads under Owner channel authority" (PeerAuthority): the
\* peer passed to Bmo claims channel authority only for a key that has it.
ChannelAuthorityEarned ==
    Authenticated =>
        /\ peer = "OwnerDirect" => signer \subseteq Owners
        /\ peer = "DelegateProvision" =>
              \E c \in Chains : c.leaf \in signer /\ {"onboard", "provision"} \subseteq c.perms

\* A rendezvous blob the device was redirected by was issued by the owner the
\* voucher leads to, or by that owner's delegate for redirection.
RedirectVouched ==
    LET owner == Custody[Len(entries) + 1]
    IN  Authenticated =>
            \A b \in to1d :
                \/ b.by = owner
                \/ \E c \in Chains : c.leaf = b.by /\ c.root = owner /\ "redirect" \in c.perms

\* "the next attempt may get TPM_RC_OBJECT_MEMORY" (step 0): whatever earlier
\* runs left loaded when they failed, there is a slot when a key is created.
SlotsNeverExhausted == pc \in {"prove", "awaitOVHdr"} => loaded < TransientSlots
=============================================================================
