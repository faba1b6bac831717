--------------------------------- MODULE Bmo ---------------------------------
(***************************************************************************)
(* The Bare Metal Onboarding session of src/bmo.rs and the delivery rules  *)
(* of src/chunking.rs: what the device does with each fdo.bmo ServiceInfo  *)
(* message its TO2 peer sends, and when the image it holds may be booted.  *)
(*                                                                         *)
(* An optional value (Rust's Option) is a set with at most one element.    *)
(* SHA-256 is taken to be collision free, so a digest is an injective      *)
(* constructor applied to the bytes.                                       *)
(***************************************************************************)
EXTENDS Naturals, Sequences

CONSTANTS
    Bytes,            \* the byte values images are made of
    MaxImage,         \* bound on the length of an image and of image_buffer
    Publishers,       \* keys a meta_signer field may name
    WatchdogTimeout,  \* WATCHDOG_TIMEOUT_SECS
    U64,              \* the number of u64 values: 2^64, smaller in a model
    BeginMessages,    \* image-begin messages a peer may send
    SetMessages,      \* set messages a peer may send
    Chunks,           \* payloads an image-data message may carry
    EndHashes,        \* digests an image-end may carry
    MetaPayloads,     \* meta-payloads an HTTP GET may return
    Served            \* images an HTTP GET may return

Opt(S) == {{}} \cup {{x} : x \in S}

IsOpt(o, S) == o \subseteq S /\ \A x, y \in o : x = y

Images == UNION {[1..n -> Bytes] : n \in 0..MaxImage}

Sha256(image) == [sha256 |-> image]

Digests == {Sha256(i) : i \in Images}

\* PeerAuthority. "Unauthenticated" is the legacy value no TO2 run produces.
Peers == {"OwnerDirect", "DelegateProvision", "DelegateOnboard"}

\* Who produced a COSE_Sign1: the Owner key; the leaf of an x5chain that
\* roots in the Owner key, with PERM.7 in every certificate or without it;
\* anything else (another key, a broken chain, a signature that fails).
Signers == {"owner", "delegate7", "delegate", "stranger"}

Modes == {"inline", "url", "meta", "unknown"}

BeginBody == [mode : Modes, hash : Opt(Digests), url : BOOLEAN,
              total_size : 0..MaxImage, require_ack : BOOLEAN,
              meta_signer : Opt(Publishers), estimated_duration : 0..(U64 - 1)]

\* A provisioning message: an optional COSE_Sign1 envelope (tag18, signer,
\* content type, scope verdict), whether the body parses, and the body.
Envelope(B) == [tag18 : BOOLEAN, signer : Signers, ct : {"image-begin", "set"},
                scope : BOOLEAN, parses : BOOLEAN, body : B]

MetaPayload == [tag18 : BOOLEAN, signer : Signers \cup Publishers,
                parses : BOOLEAN, hash : Opt(Digests), instructions : BOOLEAN]

ASSUME BmoAssumption ==
    /\ MaxImage \in Nat
    /\ U64 \in Nat \ {0}
    /\ WatchdogTimeout \in 0..(U64 - 1)
    /\ Publishers \cap (Signers \cup {"peer", "network", "misused"}) = {}
    /\ BeginMessages \subseteq Envelope(BeginBody)
    /\ SetMessages \subseteq Envelope({{}})
    /\ Chunks \subseteq Images
    /\ EndHashes \subseteq Digests
    /\ MetaPayloads \subseteq MetaPayload
    /\ Served \subseteq Images

VARIABLES
    peer,            \* PeerAuthority established by TO2
    state,           \* BmoSession.state
    begin,           \* BmoSession.begin
    image_buffer,    \* BmoSession.image_buffer
    bytes_received,  \* BmoSession.bytes_received
    authority,       \* BmoSession.authority
    watchdog,        \* seconds the firmware watchdog was last armed with
    reply,           \* what the last process_bmo_message call returned
    stated           \* history: who stated which digest in this transfer

session == <<state, begin, image_buffer, bytes_received, authority>>
bmoVars == <<peer, session, watchdog, reply, stated>>

Results == {"success", "error"}
Replies == [key : {"image-result", "set-response"}, status : Results]
             \cup [key : {"image-ack"}, status : {"accepted"}]
Sources == Signers \cup Publishers \cup {"peer", "network", "misused"}

ImageResult(status) == [key |-> "image-result", status |-> status]

-----------------------------------------------------------------------------
(* Authorization: who may instruct the device.                              *)

\* cose::verify_bmo_signed: content type, then signer authority, then scope.
VerifyBmoSigned(e, ct) ==
    /\ e.ct = ct
    /\ e.signer \in {"owner", "delegate7"}
    /\ e.scope

\* The Owner key is always known inside TO2 (owner_key_point is Some).
CheckBmoAuthorization(e, ct) ==
    IF e.tag18
    THEN IF VerifyBmoSigned(e, ct) THEN "SignedOk" ELSE "SignedFailed"
    ELSE IF peer = "OwnerDirect" THEN "UnsignedModel1"
    ELSE IF peer = "DelegateProvision" THEN "UnsignedModel2"
    ELSE "UnsignedRefused"

\* Deviation: an unsigned message from a peer without authority passes.
IsAuthorizedIfUnsigned(auth) == auth # "SignedFailed"

IsAuthorized(auth) == auth \notin {"SignedFailed", "UnsignedRefused"}

\* Deviation: the verdict itself is kept as the authority.
ToAuthorityUnmapped(auth) == auth

ToAuthority(auth) ==
    IF auth \in {"UnsignedModel1", "UnsignedModel2"} THEN "Channel" ELSE "Artifact"

SignedBeginBindsContent(auth, b) ==
    ~(auth = "Artifact" /\ b.mode = "inline" /\ b.hash = {})

-----------------------------------------------------------------------------
(* Hash policy: which digests an image must match. {} refuses the transfer. *)

\* Deviation: the digest in image-end takes precedence over the signed one.
EndHashWins(auth, begin_hash, end_hash) == IF end_hash # {} THEN end_hash ELSE begin_hash

InlineHashDecision(auth, begin_hash, end_hash) ==
    IF \/ begin_hash # {} /\ end_hash # {} /\ begin_hash # end_hash
       \/ auth = "Artifact" /\ begin_hash = {}
    THEN {}
    ELSE IF begin_hash # {} THEN begin_hash ELSE end_hash

UrlHashDecision(begin_hash) == begin_hash

MetaHashDecision(begin_hash, authenticated, meta_hash) ==
    IF begin_hash # {} \/ (authenticated /\ meta_hash # {})
    THEN begin_hash \cup meta_hash
    ELSE {}

\* Ok(signed) is {signed}; an Err is {}.
VerifyAndExtractMeta(m, meta_signer) ==
    IF meta_signer # {}
    THEN IF m.tag18 /\ m.signer \in meta_signer THEN {TRUE} ELSE {}
    ELSE IF ~m.tag18 THEN {FALSE}
    ELSE IF m.signer \in {"owner", "delegate7"} THEN {TRUE} ELSE {}

CheckUnauthenticatedMeta(m, authenticated, begin_hash) ==
    authenticated \/ (begin_hash # {} /\ ~m.instructions)

\* Every digest the plan requires must be the digest of the image.
Matches(required, image) == required # {} /\ \A d \in required : d = Sha256(image)

-----------------------------------------------------------------------------
(* History: the digests stated for the transfer in progress, by whom.       *)

StatedBySigned(e) ==
    IF e.ct = "image-begin" /\ e.scope THEN e.signer ELSE "misused"

StatedIn(by, digests) == {[by |-> by, digest |-> d] : d \in digests}

BeginStatement(e) ==
    StatedIn(IF e.tag18 THEN StatedBySigned(e) ELSE "peer", e.body.hash)

MetaStatement(m) == StatedIn(IF m.tag18 THEN m.signer ELSE "network", m.hash)

-----------------------------------------------------------------------------
(* Actions: one call of process_bmo_message each.                           *)

BmoInit ==
    /\ state = "Idle"
    /\ begin = {}
    /\ image_buffer = <<>>
    /\ bytes_received = 0
    /\ authority = "Unauthenticated"
    /\ reply = {}
    /\ stated = {}

\* The transfer ends in Error and the owner is sent a failed image-result.
FailTransfer ==
    /\ state' = "Error"
    /\ reply' = {ImageResult("error")}

\* image-begin refused: signed but not verified, or unsigned from a peer
\* without provisioning authority.
BeginRefused(e) ==
    /\ ~IsAuthorized(CheckBmoAuthorization(e, "image-begin"))
    /\ FailTransfer
    /\ UNCHANGED <<peer, begin, image_buffer, bytes_received, authority, watchdog, stated>>

\* What every authorized image-begin does first: the authority is recorded.
\* The statements of the transfer start over with this message and fetched.
Authorize(e, fetched) ==
    LET auth == CheckBmoAuthorization(e, "image-begin")
    IN  /\ IsAuthorized(auth)
        /\ authority' = ToAuthority(auth)
        /\ stated' = BeginStatement(e) \cup fetched
        /\ UNCHANGED peer

BeginMalformed(e) ==
    /\ Authorize(e, {})
    /\ ~e.parses
    /\ state' = "Error"
    /\ reply' = {}
    /\ UNCHANGED <<begin, image_buffer, bytes_received, watchdog>>

\* Twice the estimated duration (a u64 product, which wraps in a release
\* build), if longer than the default. A failure to set it is only logged.
ExtendWatchdog(e) ==
    LET secs == (2 * e.body.estimated_duration) % U64
    IN  IF secs > WatchdogTimeout
        THEN watchdog' \in {secs, watchdog}
        ELSE UNCHANGED watchdog

BeginParsed(e, fetched) == Authorize(e, fetched) /\ e.parses /\ ExtendWatchdog(e)

BeginUnusable(e) ==
    /\ BeginParsed(e, {})
    /\ \/ ~SignedBeginBindsContent(authority', e.body)
       \/ e.body.mode = "unknown"
       \/ e.body.mode \in {"url", "meta"} /\ ~e.body.url
    /\ FailTransfer
    /\ UNCHANGED <<begin, image_buffer, bytes_received>>

BeginInline(e) ==
    /\ BeginParsed(e, {})
    /\ e.body.mode = "inline"
    /\ SignedBeginBindsContent(authority', e.body)
    /\ state' = "AwaitingData"
    /\ begin' = {e.body}
    /\ image_buffer' = <<>>
    /\ bytes_received' = 0
    /\ reply' = IF e.body.require_ack
                THEN {[key |-> "image-ack", status |-> "accepted"]} ELSE {}

\* A fetched image is stored and the transfer is complete at once.
StoreFetched(e, image) ==
    /\ state' = "Complete"
    /\ begin' = {e.body}
    /\ image_buffer' = image
    /\ bytes_received' = Len(image)
    /\ reply' = {ImageResult("success")}

FailFetch == FailTransfer /\ UNCHANGED <<begin, image_buffer, bytes_received>>

\* process_bmo_url_delivery. got is the outcome of http_get.
UrlAccepts(b, image) ==
    /\ b.total_size = 0 \/ Len(image) = b.total_size
    /\ Matches(UrlHashDecision(b.hash), image)

BeginUrl(e, got) ==
    /\ BeginParsed(e, {})
    /\ e.body.mode = "url" /\ e.body.url
    /\ \/ \E image \in got : UrlAccepts(e.body, image) /\ StoreFetched(e, image)
       \/ (\A image \in got : ~UrlAccepts(e.body, image)) /\ FailFetch

\* process_bmo_meta_url_delivery: every check made before the image is fetched,
\* then the image against every digest of the plan.
MetaAccepts(b, m, image) ==
    \E signed \in VerifyAndExtractMeta(m, b.meta_signer) :
        /\ m.parses
        /\ CheckUnauthenticatedMeta(m, signed, b.hash)
        /\ Matches(MetaHashDecision(b.hash, signed, m.hash), image)

BeginMeta(e, meta, got) ==
    LET ok(m, image) == MetaAccepts(e.body, m, image)
    IN  /\ BeginParsed(e, UNION {MetaStatement(m) : m \in meta})
        /\ e.body.mode = "meta" /\ e.body.url
        /\ \/ \E m \in meta, image \in got : ok(m, image) /\ StoreFetched(e, image)
           \/ (\A m \in meta, image \in got : ~ok(m, image)) /\ FailFetch

ImageBegin(e) ==
    \/ BeginRefused(e) \/ BeginMalformed(e) \/ BeginUnusable(e) \/ BeginInline(e)
    \/ \E got \in Opt(Served) : BeginUrl(e, got)
    \/ \E meta \in Opt(MetaPayloads), got \in Opt(Served) : BeginMeta(e, meta, got)

\* image-data-N: appended in the order received; the index N is not looked at.
\* The guard on the length is the bound MaxImage, not a check of the code.
ImageData(chunk) ==
    /\ state = "AwaitingData"
    /\ Len(image_buffer) + Len(chunk) <= MaxImage
    /\ image_buffer' = image_buffer \o chunk
    /\ bytes_received' = bytes_received + Len(chunk)
    /\ reply' = {}
    /\ UNCHANGED <<peer, state, begin, authority, watchdog, stated>>

\* image-data in another state, and every fdo.bmo key the client does not know.
Ignored ==
    /\ reply' = {}
    /\ UNCHANGED <<peer, session, watchdog, stated>>

ImageDataUnexpected == state # "AwaitingData" /\ Ignored

UnknownKey == Ignored

\* An image-end outside a transfer is answered with an error; the session,
\* a completed one included, stays as it is.
ImageEndUnexpected ==
    /\ state # "AwaitingData"
    /\ reply' = {ImageResult("error")}
    /\ UNCHANGED <<peer, session, watchdog, stated>>

SizeMismatch == \E b \in begin : b.total_size > 0 /\ bytes_received # b.total_size

BeginHash == UNION {b.hash : b \in begin}

ImageEnd(end_hash) ==
    /\ state = "AwaitingData"
    /\ stated' = stated \cup StatedIn("peer", end_hash)
    /\ \/ /\ ~SizeMismatch
          /\ Matches(InlineHashDecision(authority, BeginHash, end_hash), image_buffer)
          /\ state' = "Complete"
          /\ reply' = {ImageResult("success")}
       \/ /\ \/ SizeMismatch
             \/ ~Matches(InlineHashDecision(authority, BeginHash, end_hash), image_buffer)
          /\ FailTransfer
    /\ UNCHANGED <<peer, begin, image_buffer, bytes_received, authority, watchdog>>

\* set: never applied; a refused one also ends the transfer in Error.
SetParams(e) ==
    /\ state' = IF IsAuthorized(CheckBmoAuthorization(e, "set")) THEN state ELSE "Error"
    /\ reply' = {[key |-> "set-response", status |-> "error"]}
    /\ UNCHANGED <<peer, begin, image_buffer, bytes_received, authority,
                   watchdog, stated>>

BmoNext ==
    \/ \E e \in BeginMessages : ImageBegin(e)
    \/ \E chunk \in Chunks : ImageData(chunk)
    \/ ImageDataUnexpected
    \/ UnknownKey
    \/ \E end_hash \in Opt(EndHashes) : ImageEnd(end_hash)
    \/ ImageEndUnexpected
    \/ \E e \in SetMessages : SetParams(e)

Init == BmoInit /\ peer \in Peers /\ watchdog = WatchdogTimeout

Spec == Init /\ [][BmoNext]_bmoVars

-----------------------------------------------------------------------------
(* Properties                                                               *)

\* Every field of BmoSession holds a value of its Rust type.
TypeOK ==
    /\ peer \in Peers
    /\ state \in {"Idle", "AwaitingData", "Complete", "Error"}
    /\ IsOpt(begin, BeginBody)
    /\ image_buffer \in Seq(Bytes)
    /\ bytes_received \in Nat
    /\ authority \in {"Unauthenticated", "Channel", "Artifact"}
    /\ watchdog \in 0..(U64 - 1)
    /\ IsOpt(reply, Replies)
    /\ stated \subseteq [by : Sources, digest : Digests]

\* Sources whose word for a digest counts: the Owner key, a chain with PERM.7,
\* the TO2 peer itself when the channel carries provisioning authority, and
\* the publisher the accepted image-begin names.
ArtifactSources == {"owner", "delegate7"} \cup UNION {b.meta_signer : b \in begin}

ChannelPeers == {"OwnerDirect", "DelegateProvision"}

TrustedSources ==
    ArtifactSources \cup (IF peer \in ChannelPeers THEN {"peer"} ELSE {})

VouchedBy(sources) ==
    \E s \in stated : s.by \in sources /\ s.digest = Sha256(image_buffer)

\* "nothing may be executed unless some authenticated statement covers the
\* exact bytes" (chunking.rs, image hash policy): whatever the order of begins,
\* chunks, ends, sets and fetches, an image process_bmo_message leaves ready
\* for boot has the digest a trusted source stated for THIS transfer.
BootImageVouched == state = "Complete" => VouchedBy(TrustedSources)

\* Under artifact authority the peer is a courier: an image accepted on the
\* strength of a signature is bound by the signature (or by the publisher the
\* signed begin names), never by what the courier wrote in image-end.
ArtifactBindsImage ==
    state = "Complete" /\ authority = "Artifact" => VouchedBy(ArtifactSources)

\* The counters of a transfer are those of its own bytes, also after earlier
\* transfers that failed halfway: a complete image has the announced size.
CompleteSize ==
    state = "Complete" =>
        /\ bytes_received = Len(image_buffer)
        /\ \A b \in begin : b.mode # "meta" /\ b.total_size > 0
                             => Len(image_buffer) = b.total_size

\* What holds while chunks arrive, and makes the three properties above
\* inductive: the counters describe the buffer, and every digest of the pending
\* image-begin was stated by whoever the recorded authority stands for, also
\* after refused, malformed or replaced begins.
TransferInv ==
    state = "AwaitingData" =>
        /\ begin # {}
        /\ bytes_received = Len(image_buffer)
        /\ authority \in {"Channel", "Artifact"}
        /\ authority = "Channel" => peer \in ChannelPeers
        /\ \A b \in begin : \A d \in b.hash : \E s \in stated :
              /\ s.digest = d
              /\ s.by \in IF authority = "Artifact" THEN {"owner", "delegate7"} ELSE {"peer"}
=============================================================================
