-------------------------- MODULE ServiceInfoProofs --------------------------
(***************************************************************************)
(* Proofs about module ServiceInfo: the last part of perform_to2, for any  *)
(* number of rounds, entries and images. They rest on those about module   *)
(* Bmo, which come first, for every image size, byte set and choice of     *)
(* messages: what an fdo.bmo entry does to the session.                    *)
(***************************************************************************)
EXTENDS ServiceInfo, SequenceTheorems, TLAPS

-----------------------------------------------------------------------------
(* The BMO session                                                          *)

\* The u64 product of estimated_duration stays a u64.
LEMMA ModRange ==
    ASSUME NEW x \in Nat, NEW y \in Nat \ {0}
    PROVE  x % y \in 0..(y - 1)
  OBVIOUS

\* Images are byte sequences.
LEMMA ImagesAreSeqs == Images \subseteq Seq(Bytes)
  BY DEF Images

\* What process_bmo_message knows of an authorized image-begin: a verified
\* signature gives artifact authority, no signature gives channel authority
\* and needs a peer that has it.
LEMMA AuthorizedBegin ==
    ASSUME NEW e, IsAuthorized(CheckBmoAuthorization(e, "image-begin")),
           peer \in Peers, e.tag18 \in BOOLEAN
    PROVE  \/ /\ e.tag18
              /\ VerifyBmoSigned(e, "image-begin")
              /\ ToAuthority(CheckBmoAuthorization(e, "image-begin")) = "Artifact"
           \/ /\ ~e.tag18
              /\ peer \in {"OwnerDirect", "DelegateProvision"}
              /\ ToAuthority(CheckBmoAuthorization(e, "image-begin")) = "Channel"
  BY DEF IsAuthorized, CheckBmoAuthorization, ToAuthority, Peers

-----------------------------------------------------------------------------
(* Type correctness                                                         *)

\* What the assumptions say of a message in hand.
LEMMA BeginMessageType ==
    ASSUME NEW e \in BeginMessages
    PROVE  /\ e.tag18 \in BOOLEAN /\ e.signer \in Signers /\ e.body \in BeginBody
           /\ e.body.hash \subseteq Digests
           /\ e.body.estimated_duration \in 0..(U64 - 1)
           /\ BeginStatement(e) \subseteq [by : Sources, digest : Digests]
  <1>1. /\ e.tag18 \in BOOLEAN /\ e.signer \in Signers /\ e.body \in BeginBody
    BY BmoAssumption DEF Envelope
  <1>2. /\ e.body.hash \in Opt(Digests)
        /\ e.body.estimated_duration \in 0..(U64 - 1)
    BY <1>1 DEF BeginBody
  <1>3. e.body.hash \subseteq Digests
    BY <1>2 DEF Opt
  <1>4. BeginStatement(e) \subseteq [by : Sources, digest : Digests]
    BY <1>1, <1>3 DEF BeginStatement, StatedIn, StatedBySigned, Sources
  <1>5. QED  BY <1>1, <1>2, <1>3, <1>4

LEMMA MetaPayloadType ==
    ASSUME NEW m \in MetaPayloads
    PROVE  /\ m.hash \subseteq Digests
           /\ MetaStatement(m) \subseteq [by : Sources, digest : Digests]
  <1>1. m.signer \in Signers \cup Publishers /\ m.hash \in Opt(Digests)
    BY BmoAssumption DEF MetaPayload
  <1>2. m.hash \subseteq Digests
    BY <1>1 DEF Opt
  <1>3. QED  BY <1>1, <1>2 DEF MetaStatement, StatedIn, Sources

\* An optional value drawn from a set.
LEMMA OptSubset ==
    ASSUME NEW S, NEW o \in Opt(S)
    PROVE  o \subseteq S
  BY DEF Opt

\* The digests a fetched meta-payload states are typed.
LEMMA FetchedType ==
    ASSUME NEW meta \in Opt(MetaPayloads)
    PROVE  UNION {MetaStatement(m) : m \in meta} \subseteq [by : Sources, digest : Digests]
  BY OptSubset, MetaPayloadType

\* Recording the authority and arming the watchdog keep their types.
LEMMA BeginParsedType ==
    ASSUME NEW e \in BeginMessages, NEW fetched, TypeOK,
           fetched \subseteq [by : Sources, digest : Digests],
           BeginParsed(e, fetched)
    PROVE  /\ peer' \in Peers
           /\ authority' \in {"Unauthenticated", "Channel", "Artifact"}
           /\ watchdog' \in 0..(U64 - 1)
           /\ stated' \subseteq [by : Sources, digest : Digests]
  <1>1. peer' \in Peers
    BY DEF BeginParsed, Authorize, TypeOK
  <1>2. authority' \in {"Unauthenticated", "Channel", "Artifact"}
    BY DEF BeginParsed, Authorize, ToAuthority
  <1>3. watchdog' \in 0..(U64 - 1)
    <2>1. U64 \in Nat \ {0} /\ e.body.estimated_duration \in Nat
      BY BmoAssumption, BeginMessageType
    <2>2. 2 * e.body.estimated_duration \in Nat
      BY <2>1
    <2>3. (2 * e.body.estimated_duration) % U64 \in 0..(U64 - 1)
      BY <2>1, <2>2, ModRange
    <2>4. watchdog' \in {(2 * e.body.estimated_duration) % U64, watchdog}
      BY DEF BeginParsed, ExtendWatchdog
    <2>5. QED  BY <2>3, <2>4 DEF TypeOK
  <1>4. stated' \subseteq [by : Sources, digest : Digests]
    BY BeginMessageType DEF BeginParsed, Authorize
  <1>5. QED  BY <1>1, <1>2, <1>3, <1>4

\* Every message leaves the session well typed.
LEMMA TypeStep == TypeOK /\ [BmoNext]_bmoVars => TypeOK'
  <1> SUFFICES ASSUME TypeOK, [BmoNext]_bmoVars PROVE TypeOK'
    OBVIOUS
  <1> USE DEF TypeOK
  <1>1. ASSUME NEW e \in BeginMessages, BeginRefused(e) PROVE TypeOK'
    BY <1>1 DEF BeginRefused, FailTransfer, ImageResult, IsOpt, Replies, Results
  <1>2. ASSUME NEW e \in BeginMessages, BeginMalformed(e) PROVE TypeOK'
    BY <1>2, BeginMessageType DEF BeginMalformed, Authorize, ToAuthority, IsOpt
  <1>3. ASSUME NEW e \in BeginMessages, BeginUnusable(e) PROVE TypeOK'
    BY <1>3, BeginParsedType
       DEF BeginUnusable, FailTransfer, ImageResult, IsOpt, Replies, Results
  <1>4. ASSUME NEW e \in BeginMessages, BeginInline(e) PROVE TypeOK'
    BY <1>4, BeginParsedType, BeginMessageType DEF BeginInline, IsOpt, Replies
  <1>5. ASSUME NEW e \in BeginMessages, NEW image \in Served, StoreFetched(e, image)
        PROVE  /\ state' = "Complete" /\ IsOpt(begin', BeginBody)
               /\ image_buffer' \in Seq(Bytes) /\ bytes_received' \in Nat
               /\ IsOpt(reply', Replies)
    <2>1. image \in Seq(Bytes)
      BY BmoAssumption, ImagesAreSeqs
    <2>2. QED  BY <1>5, <2>1, BeginMessageType
               DEF StoreFetched, ImageResult, IsOpt, Replies, Results
  <1>6. ASSUME FailFetch
        PROVE  /\ state' = "Error" /\ IsOpt(begin', BeginBody)
               /\ image_buffer' \in Seq(Bytes) /\ bytes_received' \in Nat
               /\ IsOpt(reply', Replies)
    BY <1>6 DEF FailFetch, FailTransfer, ImageResult, IsOpt, Replies, Results
  <1>7. ASSUME NEW e \in BeginMessages, NEW got \in Opt(Served), BeginUrl(e, got)
        PROVE  TypeOK'
    <2>1. BeginParsed(e, {})
      BY <1>7 DEF BeginUrl
    <2>2. (\E image \in Served : StoreFetched(e, image)) \/ FailFetch
      BY <1>7, OptSubset DEF BeginUrl
    <2>3. QED  BY <2>1, <2>2, <1>5, <1>6, BeginParsedType
  <1>8. ASSUME NEW e \in BeginMessages, NEW meta \in Opt(MetaPayloads),
               NEW got \in Opt(Served), BeginMeta(e, meta, got)
        PROVE  TypeOK'
    <2>1. BeginParsed(e, UNION {MetaStatement(m) : m \in meta})
      BY <1>8 DEF BeginMeta
    <2>2. (\E image \in Served : StoreFetched(e, image)) \/ FailFetch
      BY <1>8, OptSubset DEF BeginMeta
    <2>3. QED  BY <2>1, <2>2, <1>5, <1>6, BeginParsedType, FetchedType
  <1>9. ASSUME NEW chunk \in Chunks, ImageData(chunk) PROVE TypeOK'
    <2>1. chunk \in Seq(Bytes)
      BY BmoAssumption, ImagesAreSeqs
    <2>2. image_buffer' \in Seq(Bytes) /\ bytes_received' \in Nat
      BY <1>9, <2>1 DEF ImageData
    <2>3. QED  BY <1>9, <2>2 DEF ImageData, IsOpt
  <1>10. ASSUME Ignored PROVE TypeOK'
    BY <1>10 DEF Ignored, session, IsOpt
  <1>11. ASSUME ImageEndUnexpected PROVE TypeOK'
    BY <1>11 DEF ImageEndUnexpected, session, ImageResult, IsOpt, Replies, Results
  <1>12. ASSUME NEW end_hash \in Opt(EndHashes), ImageEnd(end_hash) PROVE TypeOK'
    <2>1. end_hash \subseteq Digests
      BY BmoAssumption, OptSubset
    <2>2. stated' \subseteq [by : Sources, digest : Digests]
      BY <1>12, <2>1 DEF ImageEnd, StatedIn, Sources
    <2>3. /\ state' \in {"Complete", "Error"}
          /\ \E status \in Results :
                reply' = {ImageResult(status)}
      BY <1>12 DEF ImageEnd, FailTransfer, Results
    <2>4. IsOpt(reply', Replies)
      BY <2>3 DEF ImageResult, IsOpt, Replies
    <2>5. UNCHANGED <<peer, begin, image_buffer, bytes_received, authority, watchdog>>
      BY <1>12 DEF ImageEnd
    <2>6. QED  BY <2>2, <2>3, <2>4, <2>5 DEF IsOpt
  <1>13. ASSUME NEW e \in SetMessages, SetParams(e) PROVE TypeOK'
    BY <1>13 DEF SetParams, IsOpt, Replies, Results
  <1>14. CASE UNCHANGED bmoVars
    BY <1>14 DEF bmoVars, session
  <1>15. QED
    BY <1>1, <1>2, <1>3, <1>4, <1>7, <1>8, <1>9, <1>10, <1>11, <1>12, <1>13, <1>14
       DEF BmoNext, ImageBegin, ImageDataUnexpected, UnknownKey

\* BmoSession keeps its types, whatever a peer sends and a server serves.
THEOREM TypeCorrect == Spec => []TypeOK
  <1>1. Init => TypeOK
    BY BmoAssumption DEF Init, BmoInit, TypeOK, IsOpt
  <1>2. QED  BY <1>1, TypeStep, PTL DEF Spec

-----------------------------------------------------------------------------
(* The booted image is vouched for                                          *)

\* The inductive invariant: what the pending transfer has, and what a
\* complete one therefore keeps.
Inv == TypeOK /\ TransferInv /\ BootImageVouched /\ ArtifactBindsImage /\ CompleteSize

\* The digests of an authorized image-begin are stated by the source its
\* authority stands for.
LEMMA BeginStated ==
    ASSUME NEW e \in BeginMessages, NEW fetched, peer \in Peers, Authorize(e, fetched)
    PROVE  /\ authority' \in {"Channel", "Artifact"}
           /\ authority' = "Channel" => peer' \in ChannelPeers
           /\ \A d \in e.body.hash : \E s \in stated' :
                 /\ s.digest = d
                 /\ s.by \in IF authority' = "Artifact" THEN {"owner", "delegate7"} ELSE {"peer"}
  <1>1. e.tag18 \in BOOLEAN
    BY BeginMessageType
  <1>2. \A d \in e.body.hash : \E s \in stated' :
           /\ s.digest = d
           /\ s.by = IF e.tag18 THEN StatedBySigned(e) ELSE "peer"
    <2>1. SUFFICES ASSUME NEW d \in e.body.hash
                   PROVE  \E s \in stated' :
                             /\ s.digest = d
                             /\ s.by = IF e.tag18 THEN StatedBySigned(e) ELSE "peer"
      OBVIOUS
    <2>2. [by |-> IF e.tag18 THEN StatedBySigned(e) ELSE "peer", digest |-> d] \in BeginStatement(e)
      BY DEF BeginStatement, StatedIn
    <2>3. BeginStatement(e) \subseteq stated'
      BY DEF Authorize
    <2>4. QED  BY <2>2, <2>3
  <1>3. CASE e.tag18
    <2>1. VerifyBmoSigned(e, "image-begin") /\ authority' = "Artifact"
      BY <1>1, <1>3, AuthorizedBegin DEF Authorize
    <2>2. StatedBySigned(e) \in {"owner", "delegate7"}
      BY <2>1 DEF VerifyBmoSigned, StatedBySigned
    <2>3. QED  BY <1>2, <1>3, <2>1, <2>2
  <1>4. CASE ~e.tag18
    <2>1. peer \in ChannelPeers /\ authority' = "Channel"
      BY <1>1, <1>4, AuthorizedBegin DEF Authorize, ChannelPeers
    <2>2. peer' = peer
      BY DEF Authorize
    <2>3. QED  BY <1>2, <1>4, <2>1, <2>2
  <1>5. QED  BY <1>1, <1>3, <1>4

\* An image whose digest the image-begin of this transfer carries is vouched
\* for: by the signer of the begin, or by a peer with channel authority.
LEMMA BeginHashVouches ==
    ASSUME NEW e \in BeginMessages, NEW fetched, peer \in Peers, Authorize(e, fetched),
           Sha256(image_buffer') \in e.body.hash
    PROVE  BootImageVouched' /\ ArtifactBindsImage'
  <1>1. PICK s \in stated' :
           /\ s.digest = Sha256(image_buffer')
           /\ s.by \in IF authority' = "Artifact" THEN {"owner", "delegate7"} ELSE {"peer"}
    BY BeginStated
  <1>2. authority' \in {"Channel", "Artifact"} /\ (authority' = "Channel" => peer' \in ChannelPeers)
    BY BeginStated
  <1>3. QED
    BY <1>1, <1>2 DEF BootImageVouched, ArtifactBindsImage, VouchedBy, TrustedSources, ArtifactSources

\* An image whose digest an authenticated meta-payload carries is vouched for
\* by the signer of the meta-payload.
LEMMA MetaHashVouches ==
    ASSUME NEW e \in BeginMessages, NEW m, NEW fetched, Authorize(e, fetched),
           MetaStatement(m) \subseteq fetched, begin' = {e.body},
           VerifyAndExtractMeta(m, e.body.meta_signer) = {TRUE},
           Sha256(image_buffer') \in m.hash
    PROVE  BootImageVouched' /\ ArtifactBindsImage'
  <1>1. m.tag18 /\ m.signer \in {"owner", "delegate7"} \cup e.body.meta_signer
    BY DEF VerifyAndExtractMeta
  <1>2. [by |-> m.signer, digest |-> Sha256(image_buffer')] \in stated'
    BY <1>1 DEF MetaStatement, StatedIn, Authorize
  <1>3. m.signer \in ArtifactSources'
    BY <1>1 DEF ArtifactSources
  <1>4. QED
    BY <1>2, <1>3 DEF BootImageVouched, ArtifactBindsImage, VouchedBy, TrustedSources

\* A failed transfer holds nothing that could be booted.
LEMMA ErrorIsSafe ==
    ASSUME state' = "Error"
    PROVE  TransferInv' /\ BootImageVouched' /\ ArtifactBindsImage' /\ CompleteSize'
  BY DEF TransferInv, BootImageVouched, ArtifactBindsImage, CompleteSize

\* A message that changes neither the transfer nor who vouched for it.
LEMMA UntouchedIsSafe ==
    ASSUME Inv, UNCHANGED <<peer, session, stated>>
    PROVE  TransferInv' /\ BootImageVouched' /\ ArtifactBindsImage' /\ CompleteSize'
  BY DEF Inv, session, TransferInv, BootImageVouched, ArtifactBindsImage, CompleteSize,
         VouchedBy, TrustedSources, ArtifactSources

\* Every message preserves the invariant.
LEMMA InvStep == Inv /\ [BmoNext]_bmoVars => Inv'
  <1> DEFINE Safe == TransferInv /\ BootImageVouched /\ ArtifactBindsImage /\ CompleteSize
  <1> SUFFICES ASSUME Inv, [BmoNext]_bmoVars PROVE Safe'
    BY TypeStep DEF Inv
  <1>0. TypeOK /\ peer \in Peers
    BY DEF Inv, TypeOK
  <1>1. ASSUME NEW e \in BeginMessages, BeginRefused(e) \/ BeginMalformed(e) \/ BeginUnusable(e)
        PROVE  Safe'
    BY <1>1, ErrorIsSafe DEF BeginRefused, BeginMalformed, BeginUnusable, FailTransfer
  <1>2. ASSUME NEW e \in BeginMessages, BeginInline(e) PROVE Safe'
    <2>1. Authorize(e, {})
      BY <1>2 DEF BeginInline, BeginParsed
    <2>2. /\ state' = "AwaitingData" /\ begin' = {e.body}
          /\ image_buffer' = <<>> /\ bytes_received' = 0
      BY <1>2 DEF BeginInline
    <2>3. TransferInv'
      BY <1>0, <2>1, <2>2, BeginStated DEF TransferInv
    <2>4. QED  BY <2>2, <2>3 DEF BootImageVouched, ArtifactBindsImage, CompleteSize
  <1>3. ASSUME NEW e \in BeginMessages, NEW got \in Opt(Served), BeginUrl(e, got)
        PROVE  Safe'
    <2>1. Authorize(e, {}) /\ e.body.mode = "url"
      BY <1>3 DEF BeginUrl, BeginParsed
    <2>2. ASSUME NEW image \in got, UrlAccepts(e.body, image), StoreFetched(e, image)
          PROVE  Safe'
      <3>1. /\ state' = "Complete" /\ begin' = {e.body} /\ image_buffer' = image
            /\ bytes_received' = Len(image)
        BY <2>2 DEF StoreFetched
      <3>2. Sha256(image_buffer') \in e.body.hash
        BY <2>2, <3>1 DEF UrlAccepts, Matches, UrlHashDecision
      <3>3. BootImageVouched' /\ ArtifactBindsImage'
        BY <1>0, <2>1, <3>2, BeginHashVouches
      <3>4. CompleteSize'
        BY <2>2, <3>1 DEF UrlAccepts, CompleteSize
      <3>5. QED  BY <3>1, <3>3, <3>4 DEF TransferInv
    <2>3. CASE FailFetch
      BY <2>3, ErrorIsSafe DEF FailFetch, FailTransfer
    <2>4. QED  BY <1>3, <2>2, <2>3 DEF BeginUrl
  <1>4. ASSUME NEW e \in BeginMessages, NEW meta \in Opt(MetaPayloads),
               NEW got \in Opt(Served), BeginMeta(e, meta, got)
        PROVE  Safe'
    <2> DEFINE fetched == UNION {MetaStatement(m) : m \in meta}
    <2>1. Authorize(e, fetched) /\ e.body.mode = "meta"
      BY <1>4 DEF BeginMeta, BeginParsed
    <2>2. ASSUME NEW m \in meta, NEW image \in got,
                 MetaAccepts(e.body, m, image), StoreFetched(e, image)
          PROVE  Safe'
      <3>1. /\ state' = "Complete" /\ begin' = {e.body} /\ image_buffer' = image
            /\ bytes_received' = Len(image)
        BY <2>2 DEF StoreFetched
      <3>2. PICK signed \in VerifyAndExtractMeta(m, e.body.meta_signer) :
               Matches(MetaHashDecision(e.body.hash, signed, m.hash), image)
        BY <2>2 DEF MetaAccepts
      <3>3. \/ Sha256(image) \in e.body.hash
            \/ signed /\ Sha256(image) \in m.hash
        BY <3>2 DEF Matches, MetaHashDecision
      <3>4. signed => VerifyAndExtractMeta(m, e.body.meta_signer) = {TRUE}
        BY <3>2 DEF VerifyAndExtractMeta
      <3>5. MetaStatement(m) \subseteq fetched
        OBVIOUS
      <3>6. CASE Sha256(image) \in e.body.hash
        BY <1>0, <2>1, <3>1, <3>6, BeginHashVouches DEF TransferInv, CompleteSize
      <3>7. CASE signed /\ Sha256(image) \in m.hash
        <4>1. BootImageVouched' /\ ArtifactBindsImage'
          BY <2>1, <3>1, <3>4, <3>5, <3>7, MetaHashVouches
        <4>2. QED  BY <2>1, <3>1, <4>1 DEF TransferInv, CompleteSize
      <3>8. QED  BY <3>3, <3>6, <3>7
    <2>3. CASE FailFetch
      BY <2>3, ErrorIsSafe DEF FailFetch, FailTransfer
    <2>4. QED  BY <1>4, <2>2, <2>3 DEF BeginMeta
  <1>5. ASSUME NEW chunk \in Chunks, ImageData(chunk) PROVE Safe'
    <2>1. chunk \in Seq(Bytes) /\ image_buffer \in Seq(Bytes)
      BY <1>0, BmoAssumption, ImagesAreSeqs DEF TypeOK
    <2>2. Len(image_buffer \o chunk) = Len(image_buffer) + Len(chunk)
      BY <2>1
    <2>3. QED
      BY <1>5, <2>2 DEF ImageData, Inv, TransferInv, BootImageVouched,
                        ArtifactBindsImage, CompleteSize
  <1>6. ASSUME Ignored \/ ImageEndUnexpected PROVE Safe'
    BY <1>6, UntouchedIsSafe DEF Ignored, ImageEndUnexpected
  <1>7. ASSUME NEW end_hash \in Opt(EndHashes), ImageEnd(end_hash) PROVE Safe'
    <2>1. CASE FailTransfer
      BY <2>1, ErrorIsSafe DEF FailTransfer
    <2>2. ASSUME ~SizeMismatch,
                 Matches(InlineHashDecision(authority, BeginHash, end_hash), image_buffer),
                 state' = "Complete"
          PROVE  Safe'
      <3>1. /\ state = "AwaitingData" /\ stated' = stated \cup StatedIn("peer", end_hash)
            /\ UNCHANGED <<peer, begin, image_buffer, bytes_received, authority>>
        BY <1>7 DEF ImageEnd
      <3>2. TransferInv
        BY DEF Inv
      <3>3. PICK s \in stated' :
               /\ s.digest = Sha256(image_buffer)
               /\ s.by \in IF authority = "Artifact" THEN {"owner", "delegate7"} ELSE {"peer"}
        <4>1. CASE Sha256(image_buffer) \in BeginHash
          BY <3>1, <3>2, <4>1 DEF TransferInv, BeginHash
        <4>2. CASE authority # "Artifact" /\ Sha256(image_buffer) \in end_hash
          <5>1. [by |-> "peer", digest |-> Sha256(image_buffer)] \in stated'
            BY <3>1, <4>2 DEF StatedIn
          <5>2. QED  BY <4>2, <5>1
        <4>3. QED  BY <2>2, <4>1, <4>2 DEF Matches, InlineHashDecision
      <3>4. BootImageVouched' /\ ArtifactBindsImage'
        BY <3>1, <3>2, <3>3 DEF TransferInv, BootImageVouched, ArtifactBindsImage,
                                VouchedBy, TrustedSources, ArtifactSources
      <3>5. CompleteSize'
        BY <2>2, <3>1, <3>2 DEF TransferInv, CompleteSize, SizeMismatch
      <3>6. QED  BY <2>2, <3>4, <3>5 DEF TransferInv
    <2>3. QED  BY <1>7, <2>1, <2>2 DEF ImageEnd
  <1>8. ASSUME NEW e \in SetMessages, SetParams(e) PROVE Safe'
    <2>1. CASE state' = state
      BY <1>8, <2>1, UntouchedIsSafe DEF SetParams, session
    <2>2. CASE state' = "Error"
      BY <2>2, ErrorIsSafe
    <2>3. QED  BY <1>8, <2>1, <2>2 DEF SetParams
  <1>9. CASE UNCHANGED bmoVars
    BY <1>9, UntouchedIsSafe DEF bmoVars
  <1>10. QED
    BY <1>1, <1>2, <1>3, <1>4, <1>5, <1>6, <1>7, <1>8, <1>9
       DEF BmoNext, ImageBegin, ImageDataUnexpected, UnknownKey

\* The invariant holds of every reachable state.
THEOREM InvHolds == Spec => []Inv
  <1>1. Init => Inv
    <2>1. Init => TypeOK
      BY BmoAssumption DEF Init, BmoInit, TypeOK, IsOpt
    <2>2. QED  BY <2>1 DEF Inv, Init, BmoInit, TransferInv, BootImageVouched,
                           ArtifactBindsImage, CompleteSize
  <1>2. QED  BY <1>1, InvStep, PTL DEF Spec

\* Whatever the peer sends and the servers serve, an image process_bmo_message
\* leaves ready for boot has the digest a trusted source stated for it.
THEOREM ImageVouched == Spec => []BootImageVouched
  <1>1. Inv => BootImageVouched
    BY DEF Inv
  <1>2. QED  BY <1>1, InvHolds, PTL

\* An image accepted under a signed image-begin is never vouched for by the
\* courier alone.
THEOREM SignatureBindsImage == Spec => []ArtifactBindsImage
  <1>1. Inv => ArtifactBindsImage
    BY DEF Inv
  <1>2. QED  BY <1>1, InvHolds, PTL

\* A complete image has the size its image-begin announced.
THEOREM ImageSize == Spec => []CompleteSize
  <1>1. Inv => CompleteSize
    BY DEF Inv
  <1>2. QED  BY <1>1, InvHolds, PTL

-----------------------------------------------------------------------------
(* Facts about sequences                                                    *)

\* What is left of a sequence once all of it was sent.
LEMMA NothingLeft ==
    ASSUME NEW S, NEW s \in Seq(S)
    PROVE  SubSeq(s, Len(s) + 1, Len(s)) = <<>>
  <1>1. Len(s) \in Nat /\ Len(s) + 1 \in Int /\ Len(s) \in Int /\ Len(s) < Len(s) + 1
    OBVIOUS
  <1>2. QED  BY <1>1, SubSeqEmpty

\* How long the unsent end of a sequence is.
LEMMA UnsentLength ==
    ASSUME NEW S, NEW s \in Seq(S), NEW n \in 0..Len(s)
    PROVE  /\ SubSeq(s, n + 1, Len(s)) \in Seq(S)
           /\ Len(SubSeq(s, n + 1, Len(s))) = Len(s) - n
           /\ \A i \in 1..(Len(s) - n) : SubSeq(s, n + 1, Len(s))[i] = s[n + i]
  <1>1. \A i \in (n + 1)..Len(s) : s[i] \in S
    OBVIOUS
  <1>2. n + 1 \in Int /\ Len(s) \in Int
    OBVIOUS
  <1>3. /\ SubSeq(s, n + 1, Len(s)) \in Seq(S)
        /\ Len(SubSeq(s, n + 1, Len(s)))
             = IF n + 1 <= Len(s) THEN Len(s) - (n + 1) + 1 ELSE 0
        /\ \A i \in 1..(Len(s) - (n + 1) + 1) :
              SubSeq(s, n + 1, Len(s))[i] = s[(n + 1) + i - 1]
    BY <1>1, <1>2, SubSeqProperties
  <1>4. Len(SubSeq(s, n + 1, Len(s))) = Len(s) - n
    BY <1>3
  <1>5. ASSUME NEW i \in 1..(Len(s) - n) PROVE SubSeq(s, n + 1, Len(s))[i] = s[n + i]
    <2>1. i \in 1..(Len(s) - (n + 1) + 1) /\ (n + 1) + i - 1 = n + i
      OBVIOUS
    <2>2. QED  BY <1>3, <2>1
  <1>6. QED  BY <1>3, <1>4, <1>5

\* A new element ends up behind the unsent ones.
LEMMA UnsentAppend ==
    ASSUME NEW S, NEW s \in Seq(S), NEW n \in 0..Len(s), NEW x \in S
    PROVE  SubSeq(Append(s, x), n + 1, Len(Append(s, x)))
             = Append(SubSeq(s, n + 1, Len(s)), x)
  <1> DEFINE t == Append(s, x)
             a == SubSeq(t, n + 1, Len(t))
             b == Append(SubSeq(s, n + 1, Len(s)), x)
             r == SubSeq(s, n + 1, Len(s))
  <1>1. /\ t \in Seq(S) /\ Len(t) = Len(s) + 1
        /\ \A i \in 1..Len(s) : t[i] = s[i]
        /\ t[Len(s) + 1] = x
    OBVIOUS
  <1>2. n \in 0..Len(t)
    BY <1>1
  <1>3. a \in Seq(S) /\ Len(a) = Len(t) - n
    BY <1>1, <1>2, UnsentLength
  <1>4. r \in Seq(S) /\ Len(r) = Len(s) - n
    BY UnsentLength
  <1>5. b \in Seq(S) /\ Len(b) = Len(r) + 1
    BY <1>4
  <1>6. ASSUME NEW i \in 1..Len(a) PROVE a[i] = b[i]
    <2>0. n \in Nat /\ Len(s) \in Nat /\ i \in Nat /\ i >= 1 /\ i <= Len(s) + 1 - n
      BY <1>1, <1>3
    <2>1. a[i] = t[n + i]
      BY <1>1, <1>2, <1>3, UnsentLength
    <2>2. CASE i = Len(r) + 1
      <3>1. n + i = Len(s) + 1
        BY <2>0, <2>2, <1>4
      <3>2. b[i] = x
        <4>1. \A q \in Seq(S) : Append(q, x)[Len(q) + 1] = x
          OBVIOUS
        <4>2. QED  BY <2>2, <1>4, <4>1
      <3>3. QED  BY <2>1, <3>1, <3>2, <1>1
    <2>3. CASE i # Len(r) + 1
      <3>1. i \in 1..Len(r)
        BY <2>0, <2>3, <1>4
      <3>2. b[i] = r[i]
        BY <3>1, <1>4
      <3>3. r[i] = s[n + i]
        BY <3>1, <1>4, UnsentLength
      <3>4. n + i \in 1..Len(s)
        BY <3>1, <1>4, <2>0
      <3>5. QED  BY <2>1, <3>2, <3>3, <3>4, <1>1
    <2>4. QED  BY <2>2, <2>3
  <1>7. Len(a) = Len(b)
    BY <1>1, <1>3, <1>4, <1>5
  <1> HIDE DEF a, b
  <1>8. a = b
    BY <1>3, <1>5, <1>6, <1>7
  <1>9. QED  BY <1>8 DEF a, b

\* A sequence is the beginning of every sequence it was extended to.
LEMMA BeginningOfConcat ==
    ASSUME NEW S, NEW s \in Seq(S), NEW t \in Seq(S)
    PROVE  SubSeq(s \o t, 1, Len(s)) = s
  <1>1. CASE s = <<>>
    <2>1. Len(s) = 0
      BY <1>1
    <2>2. SubSeq(s \o t, 1, Len(s)) = <<>>
      BY <2>1, SubSeqEmpty
    <2>3. QED  BY <1>1, <2>2
  <1>2. CASE s # <<>>
    <2>1. 1 \in 1..Len(s) /\ Len(s) \in 1..Len(s)
      BY <1>2
    <2>2. SubSeq(s \o t, 1, Len(s)) = SubSeq(s, 1, Len(s))
      BY <2>1, SubSeqOfConcat1
    <2>3. QED  BY <2>2, SubSeqFull
  <1>3. QED  BY <1>1, <1>2

-----------------------------------------------------------------------------
(* The inductive invariant                                                  *)

\* The session's buffer is one of the images.
BufferIsImage == image_buffer \in Images

\* The round that is about to be sent is within the limit.
RoundLeft == phase = "send" => round < MaxServiceInfoRounds

\* The history of the replies, which those queued are the end of.
RepliesAccounted ==
    /\ produced \in Seq(Replies)
    /\ sent \in 0..Len(produced)
    /\ RepliesConserved

\* The next IV is above every one used.
IvsUsed ==
    /\ \A c \in ciphertexts : c.iv \in Nat /\ c.iv < iv_counter
    /\ IvNeverReused

\* From DoneAck on there is an image to boot, and the session keeps it.
ImageFixed == phase \in {"chainload", "loaded", "booted"} => Bootable

\* What LoadImage read begins with that image, and only that is started.
LoadedIsImage ==
    /\ loaded # {} => /\ phase \in {"loaded", "booted", "finished", "rebooted"}
                      /\ Bootable
    /\ phase = "loaded" => loaded # {}
    /\ \A l \in loaded : /\ Begun(l.image) = image_buffer
                         /\ l.mode = "Buffer" => l.image = image_buffer
    /\ started \subseteq {l.image : l \in loaded}
    /\ started # {} => phase \in {"booted", "finished", "rebooted"}

SvcInv ==
    /\ SvcTypeOK
    /\ Inv
    /\ BufferIsImage
    /\ RoundLeft
    /\ RepliesAccounted
    /\ IvsUsed
    /\ ImageFixed
    /\ LoadedIsImage

\* The invariant says what the runs check of the booted image.
LEMMA SvcInvImplies == SvcInv => StartedVouched /\ IvNeverReused /\ RepliesConserved
  <1> SUFFICES ASSUME SvcInv PROVE StartedVouched
    BY DEF SvcInv, IvsUsed, RepliesAccounted
  <1> SUFFICES ASSUME NEW i \in started
               PROVE  /\ state = "Complete"
                      /\ VouchedBy(TrustedSources)
                      /\ Begun(i) = image_buffer
                      /\ \A l \in loaded : l.mode = "Buffer" => i = image_buffer
    BY DEF StartedVouched
  <1>1. PICK l \in loaded : i = l.image
    BY DEF SvcInv, LoadedIsImage
  <1>2. state = "Complete"
    BY <1>1 DEF SvcInv, LoadedIsImage, Bootable
  <1>3. VouchedBy(TrustedSources)
    BY <1>2 DEF SvcInv, Inv, BootImageVouched
  <1>4. \A k \in loaded : k = l
    BY DEF SvcInv, SvcTypeOK, IsOpt
  <1>5. Begun(l.image) = image_buffer /\ (l.mode = "Buffer" => l.image = image_buffer)
    BY DEF SvcInv, LoadedIsImage
  <1>6. QED  BY <1>1, <1>2, <1>3, <1>4, <1>5

LEMMA SvcInitInv == SvcInit => SvcInv
  <1> SUFFICES ASSUME SvcInit PROVE SvcInv
    OBVIOUS
  <1>1. Inv
    <2>1. TypeOK
      BY BmoAssumption DEF SvcInit, Init, BmoInit, TypeOK, IsOpt
    <2>2. QED  BY <2>1 DEF SvcInit, Inv, Init, BmoInit, TransferInv, BootImageVouched,
                           ArtifactBindsImage, CompleteSize
  <1>2. SvcTypeOK
    BY <1>1, ServiceInfoAssumption DEF SvcInit, SvcTypeOK, Inv, IsOpt, Running, Ended
  <1>3. BufferIsImage
    <2>1. <<>> \in [1..0 -> Bytes]
      OBVIOUS
    <2>2. 0 \in 0..MaxImage
      BY BmoAssumption
    <2>3. QED  BY <2>1, <2>2 DEF SvcInit, Init, BmoInit, BufferIsImage, Images
  <1>4. RoundLeft
    BY ServiceInfoAssumption DEF SvcInit, RoundLeft
  <1>5. RepliesAccounted
    <2>1. produced \in Seq(Replies) /\ sent \in 0..Len(produced)
      BY DEF SvcInit
    <2>2. SubSeq(produced, Len(produced) + 1, Len(produced)) = <<>>
      BY <2>1, NothingLeft
    <2>3. QED  BY <2>1, <2>2 DEF SvcInit, RepliesAccounted, RepliesConserved
  <1>6. IvsUsed
    BY DEF SvcInit, IvsUsed, IvNeverReused
  <1>7. ImageFixed /\ LoadedIsImage
    BY DEF SvcInit, ImageFixed, LoadedIsImage
  <1>8. QED  BY <1>1, <1>2, <1>3, <1>4, <1>5, <1>6, <1>7 DEF SvcInv

-----------------------------------------------------------------------------
(* Every step keeps it                                                      *)

\* A byte sequence within the bound is an image.
LEMMA BoundedIsImage ==
    ASSUME NEW s \in Seq(Bytes), Len(s) <= MaxImage
    PROVE  s \in Images
  <1>1. Len(s) \in 0..MaxImage /\ s \in [1..Len(s) -> Bytes]
    BY BmoAssumption
  <1>2. QED  BY <1>1 DEF Images

\* Whatever entry arrives, the session's buffer stays an image.
LEMMA BufferStep ==
    ASSUME TypeOK, BufferIsImage, BmoNext
    PROVE  BufferIsImage'
  <1>1. ASSUME NEW e \in BeginMessages, ImageBegin(e) PROVE BufferIsImage'
    <2>1. ASSUME NEW image \in Served, StoreFetched(e, image) PROVE BufferIsImage'
      BY <2>1, BmoAssumption DEF StoreFetched, BufferIsImage
    <2>2. ASSUME FailFetch PROVE BufferIsImage'
      BY <2>2 DEF FailFetch, BufferIsImage
    <2>3. CASE BeginRefused(e) \/ BeginMalformed(e) \/ BeginUnusable(e)
      BY <2>3 DEF BeginRefused, BeginMalformed, BeginUnusable, BufferIsImage
    <2>4. CASE BeginInline(e)
      <3>1. image_buffer' = <<>>
        BY <2>4 DEF BeginInline
      <3>2. <<>> \in Seq(Bytes) /\ Len(<<>>) <= MaxImage
        BY BmoAssumption
      <3>3. QED  BY <3>1, <3>2, BoundedIsImage DEF BufferIsImage
    <2>5. CASE \E got \in Opt(Served) : BeginUrl(e, got)
      BY <2>1, <2>2, <2>5, OptSubset DEF BeginUrl
    <2>6. CASE \E meta \in Opt(MetaPayloads), got \in Opt(Served) : BeginMeta(e, meta, got)
      BY <2>1, <2>2, <2>6, OptSubset DEF BeginMeta
    <2>7. QED  BY <1>1, <2>3, <2>4, <2>5, <2>6 DEF ImageBegin
  <1>2. ASSUME NEW chunk \in Chunks, ImageData(chunk) PROVE BufferIsImage'
    <2>1. chunk \in Seq(Bytes) /\ image_buffer \in Seq(Bytes)
      BY BmoAssumption, ImagesAreSeqs DEF TypeOK
    <2>2. image_buffer \o chunk \in Seq(Bytes)
          /\ Len(image_buffer \o chunk) = Len(image_buffer) + Len(chunk)
      BY <2>1
    <2>3. QED  BY <1>2, <2>2, BoundedIsImage DEF ImageData, BufferIsImage
  <1>3. CASE \/ ImageDataUnexpected \/ UnknownKey \/ ImageEndUnexpected
             \/ \E end_hash \in Opt(EndHashes) : ImageEnd(end_hash)
             \/ \E e \in SetMessages : SetParams(e)
    BY <1>3 DEF ImageDataUnexpected, UnknownKey, Ignored, ImageEndUnexpected, ImageEnd,
                SetParams, session, BufferIsImage
  <1>4. QED  BY <1>1, <1>2, <1>3 DEF BmoNext

\* Arming the watchdog leaves the rest of the session as it is.
LEMMA SessionKept ==
    ASSUME Inv, BufferIsImage, KeepSession, watchdog' \in 0..(U64 - 1)
    PROVE  Inv' /\ BufferIsImage'
  <1>1. TransferInv' /\ BootImageVouched' /\ ArtifactBindsImage' /\ CompleteSize'
    BY UntouchedIsSafe DEF KeepSession
  <1>2. TypeOK'
    BY DEF Inv, TypeOK, KeepSession, session
  <1>3. QED  BY <1>1, <1>2 DEF Inv, KeepSession, session, BufferIsImage

\* A message encrypted under the next IV shares it with none before it.
LEMMA EncryptKeepsIvs ==
    ASSUME iv_counter \in Nat, IvsUsed, NEW msg, NEW n, Encrypt(msg, n)
    PROVE  iv_counter' \in Nat /\ IvsUsed'
  <1> DEFINE new == [iv |-> iv_counter, msg |-> msg, n |-> n]
  <1>1. /\ ciphertexts' = ciphertexts \cup {new}
        /\ iv_counter' = iv_counter + 1
        /\ new.iv = iv_counter
    BY DEF Encrypt
  <1> HIDE DEF new
  <1>2. \A c \in ciphertexts : c.iv \in Nat /\ c.iv < iv_counter
    BY DEF IvsUsed
  <1>3. \A c \in ciphertexts' : c.iv \in Nat /\ c.iv < iv_counter'
    BY <1>1, <1>2
  <1>4. \A c, d \in ciphertexts' : c.iv = d.iv => c = d
    BY <1>1, <1>2 DEF IvsUsed, IvNeverReused
  <1>5. QED  BY <1>1, <1>3, <1>4 DEF IvsUsed, IvNeverReused

\* A reply is queued where it is recorded: behind those not yet sent.
LEMMA QueueKeepsReplies ==
    ASSUME RepliesAccounted, bmo_responses \in Seq(Replies), reply' \subseteq Replies,
           QueueReply, sent' = sent
    PROVE  bmo_responses' \in Seq(Replies) /\ RepliesAccounted'
  <1>1. CASE UNCHANGED <<bmo_responses, produced>>
    BY <1>1 DEF RepliesAccounted, RepliesConserved
  <1>2. ASSUME NEW r \in reply', bmo_responses' = Append(bmo_responses, r),
               produced' = Append(produced, r)
        PROVE  bmo_responses' \in Seq(Replies) /\ RepliesAccounted'
    <2>1. r \in Replies /\ produced \in Seq(Replies) /\ sent \in 0..Len(produced)
      BY DEF RepliesAccounted
    <2>2. /\ produced' \in Seq(Replies) /\ bmo_responses' \in Seq(Replies)
          /\ Len(produced') = Len(produced) + 1
      BY <1>2, <2>1
    <2>3. sent' \in 0..Len(produced')
      BY <2>1, <2>2
    <2>4. RepliesConserved'
      BY <1>2, <2>1, UnsentAppend DEF RepliesAccounted, RepliesConserved
    <2>5. QED  BY <2>2, <2>3, <2>4 DEF RepliesAccounted
  <1>3. QED  BY <1>1, <1>2 DEF QueueReply

\* The DeviceSvcInfo of a round carries every reply queued.
LEMMA SendKeepsReplies ==
    ASSUME RepliesAccounted, bmo_responses \in Seq(Replies), UNCHANGED produced,
           bmo_responses' = <<>>, sent' = sent + Len(bmo_responses)
    PROVE  RepliesAccounted'
  <1>1. produced \in Seq(Replies) /\ sent \in 0..Len(produced)
    BY DEF RepliesAccounted
  <1>2. Len(bmo_responses) = Len(produced) - sent
    BY <1>1, UnsentLength DEF RepliesAccounted, RepliesConserved
  <1>3. sent' = Len(produced)
    BY <1>1, <1>2
  <1>4. SubSeq(produced, Len(produced) + 1, Len(produced)) = <<>>
    BY <1>1, NothingLeft
  <1>5. RepliesConserved'
    BY <1>3, <1>4 DEF RepliesConserved
  <1>6. sent' \in 0..Len(produced')
    BY <1>1, <1>3
  <1>7. QED  BY <1>1, <1>5, <1>6 DEF RepliesAccounted

\* Steps outside the session leave it as it is.
LEMMA SessionUntouched ==
    ASSUME SvcInv, UNCHANGED bmoVars
    PROVE  Inv' /\ BufferIsImage'
  BY InvStep DEF SvcInv, bmoVars, session, BufferIsImage

\* The loop's histories are left as they are.
LEMMA HistoryUntouched ==
    ASSUME SvcInv, UNCHANGED <<iv_counter, bmo_responses, history>>
    PROVE  RepliesAccounted' /\ IvsUsed'
  BY DEF SvcInv, history, RepliesAccounted, RepliesConserved, IvsUsed, IvNeverReused

\* Before DoneAck nothing is loaded, so nothing to keep.
LEMMA NotYetLoaded ==
    ASSUME SvcInv, phase \notin {"loaded", "booted", "finished", "rebooted"}
    PROVE  loaded = {} /\ started = {}
  BY DEF SvcInv, LoadedIsImage

LEMMA NothingLoadedIsSafe ==
    ASSUME loaded' = {}, started' = {}, phase' # "loaded"
    PROVE  LoadedIsImage'
  BY DEF LoadedIsImage

\* What was loaded stays loaded, of the same image.
LEMMA LoadedUntouched ==
    ASSUME SvcInv, phase \in {"chainload", "loaded", "booted", "finished", "rebooted"},
           phase' \in {"booted", "finished", "rebooted"},
           UNCHANGED <<loaded, session>>, started' \subseteq {l.image : l \in loaded}
    PROVE  LoadedIsImage'
  <1>1. /\ loaded # {} => Bootable
        /\ \A l \in loaded : /\ Begun(l.image) = image_buffer
                             /\ l.mode = "Buffer" => l.image = image_buffer
    BY DEF SvcInv, LoadedIsImage
  <1>2. /\ loaded' = loaded /\ image_buffer' = image_buffer /\ state' = state
    BY DEF session
  <1>3. loaded' # {} => Bootable'
    BY <1>1, <1>2 DEF Bootable
  <1>4. \A l \in loaded' : /\ Begun(l.image)' = image_buffer'
                           /\ l.mode = "Buffer" => l.image = image_buffer'
    BY <1>1, <1>2 DEF Begun
  <1>5. started' \subseteq {l.image : l \in loaded'}
    BY <1>2
  <1>6. QED  BY <1>3, <1>4, <1>5 DEF LoadedIsImage

LEMMA SendRoundStep == SvcInv /\ SendRound => SvcInv'
  <1> SUFFICES ASSUME SvcInv, SendRound PROVE SvcInv'
    OBVIOUS
  <1>1. watchdog' \in 0..(U64 - 1)
    BY BmoAssumption DEF SvcInv, SvcTypeOK, TypeOK, SendRound, ArmWatchdog
  <1>2. Inv' /\ BufferIsImage'
    BY <1>1, SessionKept DEF SvcInv, SendRound
  <1>3. iv_counter' \in Nat /\ IvsUsed'
    BY EncryptKeepsIvs DEF SvcInv, SvcTypeOK, SendRound
  <1>4. bmo_responses' \in Seq(Replies) /\ RepliesAccounted'
    <2>1. CASE round' = 1
      BY <2>1 DEF SendRound, SvcInv, SvcTypeOK, RepliesAccounted, RepliesConserved
    <2>2. CASE round' # 1
      BY <2>2, SendKeepsReplies DEF SendRound, SvcInv, SvcTypeOK
    <2>3. QED  BY <2>1, <2>2
  <1>5. LoadedIsImage' /\ loaded' = {} /\ started' = {}
    BY NotYetLoaded, NothingLoadedIsSafe DEF SendRound
  <1>6. round' \in 0..MaxServiceInfoRounds
    BY ServiceInfoAssumption DEF SendRound, SvcInv, SvcTypeOK, RoundLeft
  <1>7. SvcTypeOK'
    BY <1>2, <1>3, <1>4, <1>5, <1>6 DEF SendRound, SvcInv, Inv, SvcTypeOK, Running, IsOpt
  <1>8. RoundLeft' /\ ImageFixed'
    BY DEF SendRound, RoundLeft, ImageFixed
  <1>9. QED  BY <1>2, <1>3, <1>4, <1>5, <1>7, <1>8 DEF SvcInv

LEMMA RecvRoundStep ==
    ASSUME SvcInv, NEW is_done \in BOOLEAN, NEW n \in 0..MaxEntries, RecvRound(is_done, n)
    PROVE  SvcInv'
  <1>1. Inv' /\ BufferIsImage'
    BY SessionKept DEF SvcInv, SvcTypeOK, TypeOK, RecvRound
  <1>2. RepliesAccounted' /\ IvsUsed'
    BY HistoryUntouched DEF RecvRound
  <1>3. LoadedIsImage' /\ loaded' = {} /\ started' = {}
    BY NotYetLoaded, NothingLoadedIsSafe DEF RecvRound
  <1>4. SvcTypeOK'
    BY <1>1, <1>3 DEF RecvRound, SvcInv, Inv, SvcTypeOK, Running, IsOpt
  <1>5. RoundLeft' /\ ImageFixed'
    BY DEF RecvRound, RoundLeft, ImageFixed
  <1>6. QED  BY <1>1, <1>2, <1>3, <1>4, <1>5 DEF SvcInv

\* A fdo.bmo entry: the session and the queue move, the phase does not.
LEMMA ProcessBmoEntryStep == SvcInv /\ ProcessBmoEntry => SvcInv'
  <1> SUFFICES ASSUME SvcInv, ProcessBmoEntry PROVE SvcInv'
    OBVIOUS
  <1>1. Inv'
    BY InvStep DEF SvcInv, ProcessBmoEntry
  <1>2. BufferIsImage'
    BY BufferStep DEF SvcInv, Inv, ProcessBmoEntry
  <1>3. reply' \subseteq Replies
    BY <1>1 DEF Inv, TypeOK, IsOpt
  <1>4. bmo_responses' \in Seq(Replies) /\ RepliesAccounted'
    BY <1>3, QueueKeepsReplies DEF SvcInv, SvcTypeOK, ProcessBmoEntry, NextEntry
  <1>5. IvsUsed'
    BY DEF SvcInv, ProcessBmoEntry, NextEntry, IvsUsed, IvNeverReused
  <1>6. LoadedIsImage' /\ loaded' = {} /\ started' = {}
    BY NotYetLoaded, NothingLoadedIsSafe DEF ProcessBmoEntry, NextEntry
  <1>7. owner_svc' \in [is_done : BOOLEAN, left : 0..MaxEntries]
    BY ServiceInfoAssumption DEF SvcInv, SvcTypeOK, ProcessBmoEntry, NextEntry
  <1>8. SvcTypeOK'
    BY <1>1, <1>4, <1>6, <1>7
       DEF ProcessBmoEntry, NextEntry, SvcInv, Inv, SvcTypeOK, Running, IsOpt
  <1>9. RoundLeft' /\ ImageFixed'
    BY DEF ProcessBmoEntry, NextEntry, RoundLeft, ImageFixed
  <1>10. QED  BY <1>1, <1>2, <1>4, <1>5, <1>6, <1>8, <1>9 DEF SvcInv

\* An entry of another module is passed over.
LEMMA OtherEntryStep == SvcInv /\ OtherEntry => SvcInv'
  <1> SUFFICES ASSUME SvcInv, OtherEntry PROVE SvcInv'
    OBVIOUS
  <1>1. Inv' /\ BufferIsImage'
    BY SessionUntouched DEF OtherEntry
  <1>2. RepliesAccounted' /\ IvsUsed'
    BY HistoryUntouched DEF OtherEntry, NextEntry, history
  <1>3. LoadedIsImage' /\ loaded' = {} /\ started' = {}
    BY NotYetLoaded, NothingLoadedIsSafe DEF OtherEntry, NextEntry
  <1>4. owner_svc' \in [is_done : BOOLEAN, left : 0..MaxEntries]
    BY ServiceInfoAssumption DEF SvcInv, SvcTypeOK, OtherEntry, NextEntry
  <1>5. SvcTypeOK'
    BY <1>1, <1>3, <1>4 DEF OtherEntry, NextEntry, SvcInv, Inv, SvcTypeOK, Running, IsOpt
  <1>6. RoundLeft' /\ ImageFixed'
    BY DEF OtherEntry, NextEntry, RoundLeft, ImageFixed
  <1>7. QED  BY <1>1, <1>2, <1>3, <1>5, <1>6 DEF SvcInv

\* The steps that only move perform_to2 on.
LEMMA PhaseStep ==
    ASSUME SvcInv, phase' \in Running \cup Ended, LoadedIsImage',
           UNCHANGED <<bmoVars, round, bmo_responses, owner_svc, iv_counter, loaded, started, history>>,
           phase' = "send" => round < MaxServiceInfoRounds,
           phase' \in {"chainload", "loaded", "booted"} => Bootable
    PROVE  SvcInv'
  <1>1. Inv' /\ BufferIsImage'
    BY SessionUntouched
  <1>2. RepliesAccounted' /\ IvsUsed'
    BY HistoryUntouched
  <1>3. SvcTypeOK'
    BY <1>1 DEF SvcInv, Inv, SvcTypeOK, IsOpt
  <1>4. RoundLeft'
    BY DEF RoundLeft
  <1>5. ImageFixed'
    BY DEF ImageFixed, Bootable, bmoVars, session
  <1>6. QED  BY <1>1, <1>2, <1>3, <1>4, <1>5 DEF SvcInv

\* The loop goes on below the limit only.
LEMMA EndRoundStep == SvcInv /\ EndRound => SvcInv'
  <1> SUFFICES ASSUME SvcInv, EndRound PROVE SvcInv'
    OBVIOUS
  <1>1. loaded' = {} /\ started' = {} /\ phase' \in {"done", "send"}
    BY NotYetLoaded DEF EndRound
  <1>2. LoadedIsImage'
    BY <1>1, NothingLoadedIsSafe
  <1>3. phase' = "send" => round < MaxServiceInfoRounds
    BY ServiceInfoAssumption DEF EndRound, LimitReached, SvcInv, SvcTypeOK
  <1>4. QED  BY <1>1, <1>2, <1>3, PhaseStep DEF EndRound, Running

LEMMA SendDoneStep == SvcInv /\ SendDone => SvcInv'
  <1> SUFFICES ASSUME SvcInv, SendDone PROVE SvcInv'
    OBVIOUS
  <1>1. Inv' /\ BufferIsImage'
    BY SessionUntouched DEF SendDone
  <1>2. iv_counter' \in Nat /\ IvsUsed'
    BY EncryptKeepsIvs DEF SvcInv, SvcTypeOK, SendDone
  <1>3. RepliesAccounted'
    BY DEF SvcInv, SendDone, RepliesAccounted, RepliesConserved
  <1>4. LoadedIsImage' /\ loaded' = {} /\ started' = {}
    BY NotYetLoaded, NothingLoadedIsSafe DEF SendDone
  <1>5. SvcTypeOK'
    BY <1>1, <1>2, <1>4 DEF SendDone, SvcInv, Inv, SvcTypeOK, Running, IsOpt
  <1>6. RoundLeft' /\ ImageFixed'
    BY DEF SendDone, RoundLeft, ImageFixed
  <1>7. QED  BY <1>1, <1>2, <1>3, <1>4, <1>5, <1>6 DEF SvcInv

\* The steps that end the run, and the one that decides to boot.
LEMMA DecisionStep ==
    ASSUME SvcInv, \/ ExchangeFails \/ RecvDoneAck \/ ChainloadFails \/ WatchdogFires
    PROVE  SvcInv'
  <1>1. CASE ExchangeFails \/ RecvDoneAck
    <2>1. /\ loaded' = {} /\ started' = {}
          /\ phase' \in {"failed", "chainload", "finished"}
          /\ phase' = "chainload" => Bootable
      BY <1>1, NotYetLoaded DEF ExchangeFails, RecvDoneAck
    <2>2. LoadedIsImage'
      BY <2>1, NothingLoadedIsSafe
    <2>3. UNCHANGED <<bmoVars, round, bmo_responses, owner_svc, iv_counter, loaded, started, history>>
      BY <1>1 DEF ExchangeFails, RecvDoneAck
    <2>4. QED  BY <2>1, <2>2, <2>3, PhaseStep DEF Running, Ended
  <1>2. CASE ChainloadFails \/ WatchdogFires
    <2>1. phase' \in {"finished", "rebooted"} /\ UNCHANGED <<loaded, started, session>>
      BY <1>2 DEF ChainloadFails, WatchdogFires, bmoVars
    <2>2. LoadedIsImage'
      <3>1. CASE phase \in {"chainload", "loaded", "booted", "finished", "rebooted"}
        <4>1. started' \subseteq {l.image : l \in loaded}
          BY <2>1 DEF SvcInv, LoadedIsImage
        <4>2. QED  BY <2>1, <3>1, <4>1, LoadedUntouched
      <3>2. CASE phase \notin {"chainload", "loaded", "booted", "finished", "rebooted"}
        BY <2>1, <3>2, NotYetLoaded, NothingLoadedIsSafe
      <3>3. QED  BY <3>1, <3>2
    <2>3. UNCHANGED <<bmoVars, round, bmo_responses, owner_svc, iv_counter, loaded, started, history>>
      BY <1>2 DEF ChainloadFails, WatchdogFires
    <2>4. QED  BY <2>1, <2>2, <2>3, PhaseStep DEF Running, Ended
  <1>3. QED  BY <1>1, <1>2

\* LoadImage reads the session's image, or a file that begins with it.
LEMMA LoadImageStep ==
    ASSUME SvcInv, NEW mode \in LoadModes, LoadImage(mode)
    PROVE  SvcInv'
  <1>1. Inv' /\ BufferIsImage'
    BY SessionUntouched DEF LoadImage
  <1>2. RepliesAccounted' /\ IvsUsed'
    BY HistoryUntouched DEF LoadImage
  <1>3. PICK image \in Seq(Bytes) :
           /\ loaded' = {[mode |-> mode, image |-> image]}
           /\ Begun(image) = image_buffer
           /\ mode = "Buffer" => image = image_buffer
    <2>0. image_buffer \in Seq(Bytes)
      BY DEF SvcInv, SvcTypeOK, TypeOK
    <2>1. CASE mode = "Buffer"
      <3>1. loaded' = {[mode |-> mode, image |-> image_buffer]}
        BY <2>1 DEF LoadImage
      <3>2. Begun(image_buffer) = image_buffer
        BY <2>0, SubSeqFull DEF Begun
      <3>3. QED  BY <2>0, <3>1, <3>2
    <2>2. CASE mode = "File"
      <3>1. PICK old \in TempFiles :
               loaded' = {[mode |-> mode, image |-> FileWritten(old, image_buffer)]}
        BY <2>2 DEF LoadImage
      <3>2. old \in Seq(Bytes)
        BY ServiceInfoAssumption
      <3> DEFINE rest == SubSeq(old, Len(image_buffer) + 1, Len(old))
      <3>3. rest \in Seq(Bytes)
        <4>1. \A i \in (Len(image_buffer) + 1)..Len(old) : old[i] \in Bytes
          BY <2>0, <3>2
        <4>2. Len(image_buffer) + 1 \in Int /\ Len(old) \in Int
          BY <2>0, <3>2
        <4>3. QED  BY <4>1, <4>2, SubSeqProperties
      <3> HIDE DEF rest
      <3>4. SubSeq(image_buffer \o rest, 1, Len(image_buffer)) = image_buffer
        BY <2>0, <3>3, BeginningOfConcat
      <3>5. image_buffer \o rest \in Seq(Bytes)
        BY <2>0, <3>3
      <3>6. FileWritten(old, image_buffer) = image_buffer \o rest
        BY DEF FileWritten, rest
      <3>7. QED  BY <2>2, <3>1, <3>4, <3>5, <3>6 DEF Begun
    <2>3. QED  BY <2>1, <2>2 DEF LoadImage
  <1>4. started' = {} /\ started = {} /\ phase' = "loaded" /\ UNCHANGED session /\ Bootable
    BY NotYetLoaded DEF LoadImage, SvcInv, ImageFixed, bmoVars
  <1>5. Bootable'
    BY <1>4 DEF Bootable, session
  <1>6. LoadedIsImage'
    <2>1. Begun(image)' = image_buffer' /\ (mode = "Buffer" => image = image_buffer')
      BY <1>3, <1>4 DEF Begun, session
    <2>2. \A l \in loaded' : l.image = image /\ l.mode = mode
      BY <1>3
    <2>3. \A l \in loaded' : /\ Begun(l.image)' = image_buffer'
                             /\ l.mode = "Buffer" => l.image = image_buffer'
      BY <2>1, <2>2 DEF Begun
    <2>4. loaded' # {}
      BY <1>3
    <2>5. QED  BY <1>4, <1>5, <2>3, <2>4 DEF LoadedIsImage
  <1>7. SvcTypeOK'
    <2>1. [mode |-> mode, image |-> image] \in [mode : LoadModes, image : Seq(Bytes)]
      OBVIOUS
    <2>2. IsOpt(loaded', [mode : LoadModes, image : Seq(Bytes)])
      BY <1>3, <2>1 DEF IsOpt
    <2>3. QED  BY <1>1, <1>4, <2>2 DEF LoadImage, SvcInv, Inv, SvcTypeOK, Running, IsOpt
  <1>8. RoundLeft' /\ ImageFixed'
    BY <1>5, <1>4 DEF RoundLeft, ImageFixed
  <1>9. QED  BY <1>1, <1>2, <1>6, <1>7, <1>8 DEF SvcInv

\* StartImage and the return of the image.
LEMMA StartStep ==
    ASSUME SvcInv, StartImage \/ ImageReturns
    PROVE  SvcInv'
  <1>1. watchdog' \in 0..(U64 - 1)
    BY BmoAssumption, ServiceInfoAssumption
       DEF SvcInv, SvcTypeOK, TypeOK, StartImage, ImageReturns, ArmWatchdog
  <1>2. KeepSession /\ UNCHANGED <<round, bmo_responses, owner_svc, iv_counter, loaded, history>>
    BY DEF StartImage, ImageReturns
  <1>3. Inv' /\ BufferIsImage'
    BY <1>1, <1>2, SessionKept DEF SvcInv
  <1>4. RepliesAccounted' /\ IvsUsed'
    BY <1>2, HistoryUntouched
  <1>5. started' \subseteq {l.image : l \in loaded}
    BY DEF StartImage, ImageReturns, SvcInv, LoadedIsImage
  <1>6. phase \in {"loaded", "booted"} /\ phase' \in {"booted", "finished"}
    BY DEF StartImage, ImageReturns
  <1>7. LoadedIsImage'
    BY <1>2, <1>5, <1>6, LoadedUntouched DEF KeepSession
  <1>8. RoundLeft' /\ ImageFixed'
    BY <1>2, <1>6 DEF RoundLeft, ImageFixed, Bootable, SvcInv, KeepSession, session
  <1>9. IsOpt(started', Seq(Bytes))
    <2>1. \A k, l \in loaded : k = l /\ k.image \in Seq(Bytes)
      BY DEF SvcInv, SvcTypeOK, IsOpt
    <2>2. QED  BY <1>5, <2>1 DEF IsOpt
  <1>10. SvcTypeOK'
    BY <1>2, <1>3, <1>6, <1>9 DEF SvcInv, Inv, SvcTypeOK, Running, Ended, IsOpt
  <1>11. QED  BY <1>3, <1>4, <1>7, <1>8, <1>10 DEF SvcInv

LEMMA SvcInvStep == SvcInv /\ [SvcNext]_vars => SvcInv'
  <1> SUFFICES ASSUME SvcInv, [SvcNext]_vars PROVE SvcInv'
    OBVIOUS
  <1>1. CASE UNCHANGED vars
    <2>1. UNCHANGED <<bmoVars, round, bmo_responses, owner_svc, iv_counter, loaded, started, history>>
          /\ phase' = phase
      BY <1>1 DEF vars, toVars
    <2>2. LoadedIsImage'
      BY <2>1 DEF SvcInv, LoadedIsImage, Begun, Bootable, bmoVars, session
    <2>3. QED  BY <2>1, <2>2, PhaseStep DEF SvcInv, SvcTypeOK, RoundLeft, ImageFixed
  <1>2. CASE SvcNext
    BY <1>2, SendRoundStep, RecvRoundStep, ProcessBmoEntryStep, OtherEntryStep, EndRoundStep,
       SendDoneStep, DecisionStep, LoadImageStep, StartStep DEF SvcNext
  <1>3. QED  BY <1>1, <1>2

\* The inductive invariant holds in every round of the loop, in Done and in the chainload.
THEOREM SvcInvHolds == SvcSpec => []SvcInv
  BY SvcInitInv, SvcInvStep, PTL DEF SvcSpec

\* Type correctness of the loop: in particular the round counter never passes
\* MAX_SERVICE_INFO_ROUNDS, whatever the owner answers.
THEOREM SvcTypeCorrect == SvcSpec => []SvcTypeOK
  <1>1. SvcInv => SvcTypeOK
    BY DEF SvcInv
  <1>2. QED  BY <1>1, SvcInvHolds, PTL

\* chainload_image hands the machine only to the session's complete image, which a
\* trusted source vouched for, for any number of rounds, entries and transfers before it.
THEOREM OnlyVouchedStarts == SvcSpec => []StartedVouched
  BY SvcInvImplies, SvcInvHolds, PTL

\* next_session_iv: no two messages of a session are encrypted under one IV.
THEOREM IvsNeverRepeat == SvcSpec => []IvNeverReused
  BY SvcInvImplies, SvcInvHolds, PTL

\* Every reply process_bmo_message returns is sent once and in order, or still queued.
THEOREM NoReplyLost == SvcSpec => []RepliesConserved
  BY SvcInvImplies, SvcInvHolds, PTL

-----------------------------------------------------------------------------
(* The loop implements the gate                                             *)

Ready == IF state = "Complete" THEN {image_buffer} ELSE {}

Begins == {Begun(i) : i \in started}

\* Steps that leave the session alone leave what the gate sees of it alone.
LEMMA GateKept ==
    ASSUME UNCHANGED <<peer, session, stated>>
    PROVE  /\ VouchedImages' = VouchedImages
           /\ Ready' = Ready
           /\ started' = started => Begins' = Begins
  <1>1. VouchedImages' = VouchedImages
    BY DEF session, VouchedImages, TrustedSources, ArtifactSources
  <1>2. Ready' = Ready
    BY DEF session, Ready
  <1>3. ASSUME started' = started PROVE Begins' = Begins
    BY <1>3 DEF session, Begins, Begun
  <1>4. QED  BY <1>1, <1>2, <1>3

LEMMA GateInit == SvcInit => Gate!Init
  <1> SUFFICES ASSUME SvcInit PROVE Gate!Init
    OBVIOUS
  <1>1. VouchedImages = {} /\ Ready = {} /\ Begins = {}
    BY DEF SvcInit, Init, BmoInit, VouchedImages, Ready, Begins
  <1>2. Stage = "provisioning"
    BY DEF SvcInit, Stage
  <1>3. QED  BY <1>1, <1>2 DEF Gate!Init, Ready, Begins

\* An fdo.bmo entry is the gate's Provision, whatever it is.
LEMMA EntryProvisions ==
    ASSUME SvcInv, SvcInv', ProcessBmoEntry
    PROVE  Gate!Provision
  <1>1. phase = "process" /\ phase' = "process" /\ started = {} /\ started' = {}
    BY NotYetLoaded DEF ProcessBmoEntry, NextEntry
  <1>2. Stage = "provisioning" /\ Stage' = "provisioning"
    BY <1>1 DEF Stage
  <1>3. Begins = {} /\ Begins' = {}
    BY <1>1 DEF Begins
  <1>4. VouchedImages' \in SUBSET Images
    BY DEF VouchedImages
  <1>5. \/ Ready' = {}
        \/ \E i \in VouchedImages' : Ready' = {i}
    <2>1. CASE state' = "Complete"
      <3>1. image_buffer' \in VouchedImages'
        <4>1. VouchedBy(TrustedSources)' /\ image_buffer' \in Images
          BY <2>1 DEF SvcInv, Inv, BootImageVouched, BufferIsImage
        <4>2. QED  BY <4>1 DEF VouchedBy, VouchedImages
      <3>2. QED  BY <2>1, <3>1 DEF Ready
    <2>2. CASE state' # "Complete"
      BY <2>2 DEF Ready
    <2>3. QED  BY <2>1, <2>2
  <1>6. QED  BY <1>2, <1>3, <1>4, <1>5 DEF Gate!Provision, Ready, Begins

\* Every step of perform_to2 is one the gate allows, or none the gate sees.
LEMMA GateStep == SvcInv /\ SvcInv' /\ [SvcNext]_vars => [Gate!Next]_(Gate!gateVars)
  <1> SUFFICES ASSUME SvcInv, SvcInv', [SvcNext]_vars
               PROVE  Gate!Next \/ UNCHANGED Gate!gateVars
    OBVIOUS
  <1> DEFINE Same == /\ VouchedImages' = VouchedImages
                     /\ Ready' = Ready
                     /\ Begins' = Begins
  <1>1. ASSUME UNCHANGED <<peer, session, stated, started>> PROVE Same
    BY <1>1, GateKept
  <1>2. ASSUME Same, Stage' = Stage PROVE UNCHANGED Gate!gateVars
    BY <1>2 DEF Gate!gateVars, Ready, Begins
  <1>3. ASSUME Same, Stage \in {"provisioning", "sealed"}, Stage' = "over" PROVE Gate!Next
    BY <1>3 DEF Gate!Next, Gate!Stop, Ready, Begins
  <1>4. CASE UNCHANGED vars
    <2>1. UNCHANGED <<peer, session, stated, started>> /\ phase' = phase
      BY <1>4 DEF vars, toVars, bmoVars
    <2>2. QED  BY <2>1, <1>1, <1>2 DEF Stage
  <1>5. CASE \/ SendRound \/ OtherEntry \/ EndRound \/ SendDone
             \/ \E is_done \in BOOLEAN, n \in 0..MaxEntries : RecvRound(is_done, n)
    <2>1. /\ UNCHANGED <<peer, session, stated, started>>
          /\ phase \in {"send", "await", "process", "done", "awaitAck"}
          /\ phase' \in {"send", "await", "process", "done", "awaitAck"}
      BY <1>5 DEF SendRound, OtherEntry, NextEntry, EndRound, SendDone, RecvRound, KeepSession,
                  bmoVars
    <2>2. QED  BY <2>1, <1>1, <1>2 DEF Stage
  <1>6. CASE ProcessBmoEntry
    BY <1>6, EntryProvisions DEF Gate!Next
  <1>7. CASE ExchangeFails \/ ChainloadFails \/ ImageReturns \/ WatchdogFires
    <2>1. /\ UNCHANGED <<peer, session, stated, started>>
          /\ phase \in Running /\ phase' \in Ended
      BY <1>7 DEF ExchangeFails, ChainloadFails, ImageReturns, WatchdogFires, KeepSession,
                  bmoVars, Running, Ended
    <2>2. Stage \in {"provisioning", "sealed"} /\ Stage' = "over"
      BY <2>1 DEF Stage, Running, Ended
    <2>3. QED  BY <2>1, <2>2, <1>1, <1>3
  <1>8. CASE RecvDoneAck
    <2>1. UNCHANGED <<peer, session, stated, started>> /\ Stage = "provisioning"
      BY <1>8 DEF RecvDoneAck, bmoVars, Stage
    <2>2. Same
      BY <2>1, <1>1
    <2>3. CASE phase' = "chainload"
      <3>1. Stage' = "sealed"
        BY <2>3 DEF Stage
      <3>2. QED  BY <2>1, <2>2, <3>1 DEF Gate!Next, Gate!Seal, Ready, Begins
    <2>4. CASE phase' = "finished"
      <3>1. Stage' = "over"
        BY <2>4 DEF Stage
      <3>2. QED  BY <2>1, <2>2, <3>1, <1>3
    <2>5. QED  BY <1>8, <2>3, <2>4 DEF RecvDoneAck
  <1>9. CASE \E mode \in LoadModes : LoadImage(mode)
    <2>1. /\ UNCHANGED <<peer, session, stated, started>>
          /\ phase = "chainload" /\ phase' = "loaded"
      BY <1>9 DEF LoadImage, bmoVars
    <2>2. QED  BY <2>1, <1>1, <1>2 DEF Stage
  <1>10. CASE StartImage
    <2>1. /\ UNCHANGED <<peer, session, stated>>
          /\ phase = "loaded" /\ phase' = "booted"
          /\ started' = {l.image : l \in loaded}
      BY <1>10 DEF StartImage, KeepSession
    <2>2. VouchedImages' = VouchedImages /\ Ready' = Ready
      BY <2>1, GateKept
    <2>3. Stage = "sealed" /\ Stage' = "sealed"
      BY <2>1 DEF Stage
    <2>4. started = {} /\ loaded # {} /\ state = "Complete"
          /\ \A l \in loaded : Begun(l.image) = image_buffer
      BY <2>1 DEF SvcInv, LoadedIsImage, Bootable
    <2>5. Begins = {} /\ Ready = {image_buffer}
      BY <2>4 DEF Begins, Ready
    <2>6. Begins' = {image_buffer}
      <3>1. \A i \in started' : Begun(i)' = image_buffer
        BY <2>1, <2>4 DEF Begun, session
      <3>2. started' # {}
        BY <2>1, <2>4
      <3>3. QED  BY <3>1, <3>2 DEF Begins
    <2>7. QED  BY <2>2, <2>3, <2>5, <2>6 DEF Gate!Next, Gate!Start, Ready, Begins
  <1>11. QED  BY <1>4, <1>5, <1>6, <1>7, <1>8, <1>9, <1>10 DEF SvcNext

\* Step by step, the loop, the BMO session and the chainload do only what BootGate
\* allows: an unvouched image is never ready, none is started before DoneAck, and
\* none is replaced after it.
THEOREM ImplementsGateSafety == SvcSpec => Gate!Safety
  BY GateInit, GateStep, SvcInvHolds, PTL DEF SvcSpec, Gate!Safety
=============================================================================
