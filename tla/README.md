# Verification of fdo-uefi-rs

TLA+ models of the FDO 2.0 client in `src/`: a UEFI application that obtains a
credential at the factory (Device Initialization), proves its owner with TO1 and
TO2, receives a boot image over ServiceInfo (Bare Metal Onboarding, BMO) and
starts it. TLC checks the models on small instances; TLAPS proves every safety property that a passing run
checks, and the safety part of the refinement of `BootGate`, for every value of the constants.

Paths below are relative to `src/src/`.

## 1. Inventory

| Component | Source | State | Operations | Modules |
|---|---|---|---|---|
| BMO session | `bmo.rs` | `BmoSession`: state, begin, image_buffer, bytes_received, authority | image-begin (inline, URL, meta-URL), image-data-N, image-end, set, unknown key | `Bmo`, `ServiceInfoProofs` |
| Delivery and hash policy | `chunking.rs` | none | inline/URL/meta hash decisions, meta-payload checks | `Bmo` |
| COSE verification | `cose.rs` | none | verify_bmo_signed, artifact_signer_point, evaluate_bmo_scope | `Bmo` (verdicts), `Scope`, `CredentialProofs` |
| TO2 handshake | `fdo.rs` (perform_to2, steps 0 to 4) | nonces, session keys, voucher entries, peer authority, TPM transient objects | HelloDevice20 to SetupDevice20 | `To2`, `To2Proofs` |
| ServiceInfo loop, Done | `fdo.rs` (steps 5, 6) | round, bmo_responses, iv_counter | DeviceSvcInfo / OwnerSvcInfo, Done / DoneAck | `ServiceInfo`, `BootGate`, `ServiceInfoProofs` |
| Chainload | `chainload.rs` | watchdog, temp_bmo.efi | PE gate, LoadImage from the buffer or a file, StartImage, return | `ServiceInfo`, `Device` |
| Device Initialization | `di/` | two persistent keys, the DCTPM index | DIAppStart to DIDone, retries, build_dctpm | `Device`, `DeviceProofs`, `Credential`, `CredentialProofs` |
| Firmware delivery, anti-rollback | `rv_firmware/`, `dctpm.rs` | DCMinFirmwareRev inside DCTPM | download, verify, check, ratchet, start; RvInfo and DCTPM decoding | `Device`, `DeviceProofs`, `Rendezvous`, `Credential`, `CredentialProofs` |
| TPM access | `tpm.rs`, `tpm_policy.rs` | NV index, persistent handles, transient slots | NV read/write/redefine, CreatePrimary, EvictControl, flush; read_fdo_credentials, read_fdo_rv_info | `Device`, `To2`, `Credential`, `CredentialProofs` |
| Application | `main.rs` | options, order of the phases | delivery, DI, onboarding, exit | `Device` |
| Voucher verification | `voucher.rs` | the walk's key and hash | verify_voucher | `Voucher`, `VoucherProofs`; verdict in `To2` |
| Delegate chains | `delegate.rs` | the walk's index | verify_delegate_chain, verify_x5chain_internal | `Delegate`, `DelegateProofs`; verdict in `To2` |
| TO1 | `fdo.rs` | to1d | HelloRV, ProveToRV | `To2` |
| Transports | `http.rs`, `http_api.rs`, `tcp4_http.rs` | child handles, cached NIC, receive buffer, TCP4_NET_INIT | POST, GET, fallback, DHCP | `Transport`, `TransportProofs`, `Network` |
| DNS | `dns.rs` | DNS_SERVER, DNS_CACHE, DNS_TX_ID, UDP4 children | discover_dns_server, dns_resolve, udp4_dns_query | `Network`, `NetworkProofs` |
| CBOR codec | `cose.rs`, `tpm.rs`, `dctpm.rs`, `rv_firmware/rv_parse.rs` | a position in a buffer | skip, read, splice | `Cbor` and its users, `CredentialProofs` |

How they interact: `main` runs `check_and_deliver` (firmware delivery, which may
run DI), then DI or onboarding, by what the DCTPM index holds. `perform_to2`
proves the owner, creates a `BmoSession` with the peer's authority, calls
`process_bmo_message` for each fdo.bmo entry, queues the replies for the next
round, and calls `chainload_image` after DoneAck. All of them share the TPM. A request that falls back to TCP4
first configures the network and resolves the host. The credential that DI encodes is read by four decoders
written independently of one another.

The program is one thread, so its difficulty lies elsewhere:

* the peer chooses the order of all BMO messages, so a transfer may be abandoned,
  replaced, spoiled or finished at any point, under changing authority;
* the session key exists long before its peer is authenticated, and the network
  may replay anything from an earlier run;
* power may go (or the watchdog fire) between any two TPM commands, and what is
  in the TPM then decides what the next boot does;
* a TPM command, a message or a fetch may fail at every step, and several of these
  failures are deliberately only logged;
* vouchers and certificate chains pass through the hands of those who gain by changing
  them, and every entry of a forged one may be genuine;
* firmware drivers complete calls now, later or never, and a request is sent again
  over a second transport;
* a DNS answer is told from a stale one by sixteen bits of id and nothing else;
* the decoders walk over a flat buffer: one that loses count reads one item for another, and the hand-written skippers
  disagree on which heads they can read;
* counters: rounds, IVs, revisions, path lengths, transaction ids, a u64 product.

What makes each part correct: only bytes a trusted source vouched for are booted
(BMO, ServiceInfo); the device shares its key with the owner of this run
(TO2); a voucher is accepted only along its chain of custody, and no delegate has more than
it was granted; no IV is used twice under one key; the firmware minimum only rises
and is obeyed, and a credential always has its voucher and device key (Device); what is read from a
credential is what DI and the ratchet wrote, and a scope is obeyed (Credential); a body
is what the server sent (Transport); an address is one of the name asked for (Network); every loop ends. `PROJECT.json`
lists 40 hazards at the lines where they bite, each with the properties that would catch it going wrong, or a note that says why
none does. Section 6 has those that no model reaches.

## 2. Modules

### Bmo — the BMO session

One action per arm of `process_bmo_message`; `ImageBegin` is the disjunction of its
outcomes (refused, malformed, unusable, inline, URL, meta-URL). The state is the
`BmoSession` structure under its own names, the TO2 peer authority, the watchdog and the
reply. `Option` is a set of at most one element. A message is a record of what the
code looks at: whether it carries a COSE_Sign1 envelope, who made the signature, its
content type, the scope verdict, whether the body parses, and the body. A digest
is an injective constructor over the bytes, so images really are compared by
content. `stated` is a history variable: which source stated which digest for the
transfer in progress. It is never read by an action.

`ExtendWatchdog` keeps the width of the product `estimated_duration * 2` (mod `U64`). No property is about it: the product is
compared with the default after it wrapped (`bmo.rs:644`), so a wrap costs the extension and nothing else.

### ServiceInfo — rounds, Done, chainload

Extends `Bmo`: `ProcessBmoEntry` is one entry of an OwnerSvcInfo, hence one step of
`BmoNext` plus the queueing of its reply. `SendRound` moves the queued replies into a
message and takes an IV; `EndRound` leaves the loop on `is_done` or at the limit.
An owner answer is a number of entries and `is_done`, so every sequence of
messages is possible. `produced`, `sent` and `ciphertexts` are histories.

`LoadImage`, `StartImage`, `ImageReturns` and `ChainloadFails` are chainload_image, with both values of -load-mode. The PE gate is
membership in `EfiImages`. In File mode the image goes through temp_bmo.efi, which is opened with
CreateReadWrite and not truncated: `FileWritten` keeps what an earlier, longer file had behind the image, and
`StartedVouched` says that the image started begins with a vouched one, and is it in Buffer mode; `StartedExact`, that it is it
in either mode, does not hold (section 5).

### BootGate — what a TO2 run promises about the image

An abstract specification with four variables: the images vouched for, the image
that is ready, the stage and the image started. Only a vouched image becomes ready; after the
owner's acknowledgement it is fixed; only then may it start; a run ends.
`ServiceInfo` is shown to implement it (`ImplementsBootGate`): `ready` is the
buffer of a complete session, `stage` is computed from the phase. `Safety` is `BootGate` without its fairness.

### To2 — TO1 and the handshake over several runs

A run begins with TO1: `HelloRV` and `ProveToRV` (or `To1Fails`) leave the to1d blob that TO2 checks
later; the blob's address is not used by the program, which goes on with the URL it was given. `Hello` ... `RecvSetupDevice` are the steps of `perform_to2`, each with an action
for its error returns; `Fail(leaked)` says how many TPM objects an early return
leaves loaded. The other parties are the environment: any owner or delegate
key may answer any ProveDevice20 ever sent (`Respond`), and the network delivers
any signed answer of any run or an unsigned invention (`Deliverable`). A session key is the
pair of its xA and xB. `verify_voucher` and `verify_delegate_chain` enter as
operators giving their verdict.

### Device — many boots

`main`, `check_and_deliver`, `run_di_protocol`, `tpm_nv_write` and the ratchet, one
action per TPM command or message, so that `Crash` can separate any two of them. The
DCTPM index is its size and its data; `FitsInPlace` computes the encoded length, so
whether the ratchet writes in place or redefines depends on the width of the
revision. A RendezvousInfo may hold several RVMinFirmwareRev: DI seeds the minimum with the
highest, the delivery check uses the last (`RvMinFirmwareRev`, `ParsedMinRev`). `issued`,
`vouchers` and `floor` are histories. `adversity` is chosen once and never changes: whether this device is started with
-force-di at times, whether its NV reads may fail, whether its HMAC key may fail to persist, and whether its
RendezvousInfo may be so long that an index of DCTPM_DEFAULT_SIZE has no room for every minimum ("tight"). The properties
name those they exclude, so one run covers the eight combinations of the first three, and the last one.

### Voucher — verify_voucher against everything ever signed

`Begin` is the part up to the HMAC, `Entry` one iteration of the loop with its checks in their
order, `Accept` its end. Around it: honest owners extend vouchers they hold (`Extend`), any other key signs any
entry (`SignAnything`), the network offers any header with any entries in any order, with their
unprotected headers changed, and DI may run again or be cut off after its HMAC left the device
(`Initialize`). Entries are named by their number in `signed`; a hash is an injective constructor.
`transfers` is a history: which voucher each honest entry extended.

### Delegate — the two certificate walks

`DelegateStep`/`DelegateDone` are the loops of verify_delegate_chain, from the owner down;
`X5ChainStep`/`X5ChainDone` those of verify_x5chain_internal, from the leaf up. Each certificate is
chosen when the walk reaches it, from all certificates that any key may issue to any other or to
itself.

### Transport — one request after another

`Request` is http_post_with_session or http_get; `Http...`, `First...` and `Drain...` are http.rs, from the
child handle to the drain loop and the clean-up; `Tcp4Start` to `Tcp4Finish` are tcp4_http.rs, with the scan of
the NICs (`InOrder`: the cached handle first, the others as they were found). A byte of a body is its position in the body, so that a buffer shows where each of its
bytes came from; a byte that nobody wrote is 0. A token of Response() completes with bytes or without (`DrainRead`, `DrainEmpty`), is still pending when the wait
for it ends (`DrainStalls`), or completes with an error that is not looked at (`DrainTokenFails`); the last two leave a length that need not be
what was written. `FirstResponseMisread` is the same of the first token.

`DestroyChild` is the firmware's: it refuses while a protocol on the child is open, and may fail for reasons of its own, which `refused` records.
`DestroyHttpChild` closes the protocol before, destroy_tcp4_child does not. The actions of `Answered` need the firmware or the server, those of `Unanswered` do
not. `delivered`, `tried`, `usable`, `via`, `misread`, `cut`, `unanswered` and `refused` are histories.

### Network — before a TCP4 connection

`NicFails`, `DhcpSucceeds` and `NoNicLeft` are the loop of ensure_network_configured, which runs once per boot. `ResolveLocally`,
`StartChase` and `Query` are dns_resolve with its cache and its CNAME chase; `NoChild` to `Receive` are
udp4_dns_query over one UDP4 handle after another. The server answers from `Zone`; the answer to any query it ever
got may arrive at any receive, cut off or as an error. A record carries the name that owns it: the code never looks
at it, `AnswerBelongs` does, by the names that a name leads to (`Leads`, the least set that is closed under CNAME
records). It supposes a server that answers a question with records of that name's own chain (`ZoneOfChains`) and a
boot with no more queries than there are ids: the code checks neither. `Transport` begins where this module ends: a `Request` there has its address.

### Cbor, Scope, Rendezvous, Credential — what is decoded is what was encoded

`Cbor` describes a buffer as the sequence of its heads, each with the width of its argument. The decoders are loops over a position,
and that is how they are written: a function takes the loop from one round to the next, `Rounds(step, start)` says where it stands after
each number of rounds. `Skip` is such a loop: the recursive skippers remember no more than how many items they still owe (`ReadHead`);
it is 0 if the buffer ends or a head has a width they cannot read (`Narrow`, or `Wide` for `dctpm.rs`). `Scope` is evaluate_bmo_scope
(`PastEntry`, `PastConstraint`, `ScopeGuidEnd`), `Rendezvous` the three decoders of RendezvousInfo (`PastDirective` and
`PastInstruction`, which tpm.rs and rv_parse.rs share, `ScanDirective` and `ScanInstruction` of dctpm.rs), `Credential` the DCTPM:
build_dctpm, the four decoders, and with_min_firmware_rev, which splices a new minimum into it. `Evaluate` is verify_bmo_signed behind its
signature: the content type (`ParseProtectedTstr`) and then the scope. The state machine of `Credential`
interleaves DI, firmware deliveries and the evaluation of artifacts over the boots of a device.

tpm.rs and rv_parse.rs do not walk alike everywhere. A value that is no byte string takes tpm.rs one byte further and rv_parse.rs to the end of the item,
an item in the place of an array is passed over with the one behind it, a length of four bytes only rv_parse.rs can read, and a float is passed over twice by tpm.rs. One walk describes both
only where these do not differ, and `IsRvInfo` (with `IsFollowed`) says so of every place that the walk comes to: heads of arrays, variables and values have
arguments of up to two bytes, what stands in the place of one of them is one byte long (null, a small integer), and a minimum revision is a byte string. This is an
assumption on the RvInfos (`CredentialAssumption`), not a fact about the code: outside of it the readers may find different servers.

What the decoders are compared with does not walk at all: `ItemAt` is the place of the k-th item of a container, and `Meant`, `MeantServer`,
`MeantRevs` (Rendezvous) and `Allowed` (Scope) say what an RvInfo or a scope means by the places of its items. `MCCredential` states in
its ASSUME that for each RvInfo and artifact of the run these definitions give what it was made to mean. `Device` treats the
credential as a record; `CredentialReadBack` is why it may.

Operators whose comment begins with "Deviation" are not part of the models: each is
a variant of the operator that follows it with a plausible mistake, used to confirm that
the properties notice it.

## 3. Runs

| Run | Shows | Result |
|---|---|---|
| `bmo` | any order of messages from any peer: `BootImageVouched`, `ArtifactBindsImage` | holds, 20 thousand states |
| `service_info` | `StartedVouched`, `IvNeverReused`, `RepliesConserved`, `Terminates`, refinement `ImplementsBootGate` | holds, 491 thousand states |
| `to2` | `OwnerAuthenticated`, `SecretsOnlyToOnboarders`, `SekNeverReused`, `ChannelAuthorityEarned`, `RedirectVouched`, `SlotsNeverExhausted` | holds, 77 thousand states |
| `device` | under every adversity: `MinRevNeverLowered`, `NoRollback`, `CredentialBacked`, `CredentialSurvives`, `BootEnds` | holds, 982 thousand states |
| `device_force_di` | `MinRevOnlyIncreased`, with -force-di | violated, finding 1 |
| `voucher` | `CustodyAgreement`, `CurrentIdentity`, `VerdictExact` | holds, 919 thousand states |
| `delegate` | `NoDelegateExceedsItsGrant`, `WalksAgree` | holds, 1.05 million states |
| `transport` | `AnswersCostNoHandle`, `BodyExact`, `EveryNicTried`, `SentAtMostTwice`, `RequestEnds` | holds, 481 thousand states |
| `transport_stall` | `LengthCheckSuffices` | violated, finding 3 |
| `network` | late, repeated and damaged answers: `AnswerBelongs`, `CacheSound`, `UdpChildReleased`, `ResolveEnds` | holds, 65 thousand states |
| `credential` | `CredentialReadBack`, `RvReadersAgree`, `ScopeExact` | holds, 134 thousand states |
| `scope_closed` | `ScopeFailsClosed` | violated, finding 2 |

The type invariants of `Bmo`, `ServiceInfo`, `Voucher` and `Transport` are invariants of their runs. Those of `To2`,
`Device`, `Delegate` and `Network` are parts of their inductive invariants and proved.

### Bounds

* `bmo`: two byte values and images of up to two bytes: enough for an image, a proper
  prefix of it and a different one of the same length. Every signer, delivery mode and
  hash choice is combined; independent fields (size, ack, duration, malformed) are varied
  one at a time. `U64 = 16` and `WatchdogTimeout = 8` with durations 3, 5 and 9 give a double below the default,
  one above it and one that wraps. `MaxImage` bounds `image_buffer`; the code has no such
  bound. The number of messages is not bounded.
* `service_info`: three rounds of up to two entries: a begin, its data and its
  end fit in two rounds, the third can replace or spoil the result. The code's limit is
  MAX_SERVICE_INFO_ROUNDS; the limit is reached in the model. temp_bmo.efi is absent, as long as the image, or longer.
* `to2`: two runs and two signed answers, enough to replay one run's answer into
  another and to have two peers; one TPM slot, the tightest TPM that can complete a run.
* `device`: three boots (provision, ratchet, be rolled back), two DI attempts instead of three, revisions 0, 5
  and 30, whose encodings have different lengths, and both an index with room and one of
  exactly ten items as an older build left it. `DefaultSize = 11` is the smallest that has room for two units of
  credential and a minimum of nine bytes, the longest there is; a header of eleven units fills it (adversity "tight"),
  so that DI defines an index of the exact size and a longer minimum defines it again, which the code
  itself warns is not atomic (`rv_firmware/anti_rollback.rs`).
* `voucher`: vouchers of up to three entries out of at most two signed ones, one of them by a dishonest key, so
  that an entry is repeated, dropped or moved into another voucher; two identities of the device, a header with the
  GUID of the first that nobody minted and one with a key that is not understood; two hash algorithms.
* `delegate`: chains of up to three certificates (MAX_DELEGATE_CHAIN_LEN is 8), hence with one intermediate between
  two others, among three keys; a pathLenConstraint of 0, of 40000 (three bytes, which the code does
  not read) or none; three extensions, so that intersections are proper.
* `transport`: three requests, two NICs, bodies shorter than, equal to and longer than the receive
  buffer, with and without Content-Length, Authorization header and blank line; tokens that err after any number of bytes.
* `network`: three requests, the cache holding two names, so that it overflows; chases of up to two queries, so that
  a CNAME is followed once and a loop is cut off; four transaction ids instead of 2^16, so that they wrap and
  the condition of `AnswerBelongs` is needed; two NICs. `ids` counts up to one more than there are ids.
* `credential`: two initializations, ten RvInfos (one or two directives, names and addresses, ports and
  revisions of every width, wrapped or not, with a null for an array), scopes of up to two constraints under
  either label or both, algorithms of one and of eight bytes before and behind the content type, and another content type. `U32 = 100000` stands for 2^32, which TLC's
  integers do not reach, so that revisions above it take the widest encoding.
* In all runs but `bmo` the system may stop (a run, a verification or the last boot ends), so deadlock
  is not an error.

### Fairness

* `SvcSpec`: weak fairness of the whole next-state relation except while an image is
  running. The code is one thread; each POST returns or times out, and a started image owes
  nothing.
* `Device`: weak fairness of `Step`, the program's own next step; not of `Boot` (nobody
  must switch the device on), `FirmwareReturns` or `Crash`.
* `Transport`: weak fairness of `Unanswered` only: every wait in the code is bounded; no answer is owed.
* `Network`: weak fairness of `Step`, everything but a new `Request`: all poll loops of `dns.rs` are bounded.
* `BootGate`: a run does not provision for ever, until an image was started.
* `Bmo`, `To2`, `Voucher`, `Delegate` and `Credential` state safety only.

## 4. Proofs

The first part of `ServiceInfoProofs` is about `Bmo` alone. It proves, for all byte sets, image bounds, publishers and sets of messages that satisfy
`BmoAssumption` (types of the constants, and that publisher keys are not among the
owner's or the model's own source names):

* `TypeCorrect`: `Spec => []TypeOK`;
* `InvHolds`: `Spec => []Inv` with `Inv == TypeOK /\ TransferInv /\ BootImageVouched /\
  ArtifactBindsImage /\ CompleteSize`;
* `ImageVouched`, `SignatureBindsImage`, `ImageSize`: its conjuncts as theorems.

`BootImageVouched` alone is not inductive: an image-end step needs to know who stated the digest of the pending
image-begin, and that its authority is the one recorded. `TransferInv` says
this of the state `AwaitingData`, together with the agreement of the counter and the buffer. The
argument follows the code: an authorized image-begin is signed by the owner or a PERM.7
delegate, or comes from a peer with channel authority (`AuthorizedBegin`); its digest is
then stated by the right source (`BeginStated`); the hash decisions only return
digests of such statements (`BeginHashVouches`, `MetaHashVouches`); a step that does not
touch the transfer, or ends it in Error, keeps the invariant (`UntouchedIsSafe`, `ErrorIsSafe`).
`TransferInv` and `CompleteSize` are proved for every instance and therefore not listed by the run `bmo`.

`VoucherProofs` proves, for all keys, headers, hash algorithms, numbers of entries and lengths of vouchers
that satisfy `VoucherAssumption` (DI services mint no GUID twice, keys are not error names):

* `TypeCorrect`: `Spec => []TypeOK`;
* `InvHolds`: the inductive invariant `IInv`, for `TransfersInv`, `WalkInv` and the three properties;
* `Custody`, `Identity`, `Verdict`: `CustodyAgreement`, `CurrentIdentity` and `VerdictExact`.

`CustodyAgreement` speaks of an accepted voucher, while the loop only knows the last key and the last hash. What
carries it over an iteration is that `prev_hash` is the hash of one voucher in custody only, the one
examined so far: an entry that contains it and is signed by an honest key was made over exactly that voucher
(`TransfersInv`), and entries signed later disturb no chain of custody there is (`CustodyStable`).

`To2Proofs`, for any number of runs, keys, delegate chains and rendezvous blobs (`To2Assumption`: types; owners, delegates and
the stranger are different keys; one chain per delegate; at least one TPM slot): `OwnerIsAuthenticated`, `SecretsStayWithOnboarders`, `SessionKeysDiffer`, `AuthorityIsEarned`,
`RedirectIsVouched`, `SlotsSuffice`. The invariant says what a signed answer
proves: its signer chose its half of the key for the run whose nonce it names (`SessionsHonest`), unless the answer was made up by a stranger; the device's key comes from the
answer it holds (`SekFromAnswer`); a ciphertext has the key of its own run (`CiphertextsOfTheirRun`); nothing is
left in the TPM when perform_to2 is about to load its own key (`NothingLoaded`). `VerifyOwner` is the step at which the key, which exists
long before, becomes one that is shared with an onboarder.

`DeviceProofs`, for any number of boots, headers, revisions and firmwares: `MinRevIsNeverLowered`, `FirmwareNeverRollsBack`,
`CredentialIsBacked` and the action property `CredentialIsNotLost`. `NothingToLose` carries the minimum over
crashes: a device without a credential has stored none yet, and an index that may be defined again has none in it. It is
preserved only if every credential leaves room for any minimum (`AllRoomy`), which the first attempt at the proof
took for granted of the code: this is how the loss of the minimum described in section 5 came up. `RevStillAccepted` says that the check of a revision still holds when
the firmware is started, after the ratchet; `KeysAtHandles` and `PendingBacked` follow DI command by command.

Its second part, for any number of rounds and entries and any load mode, on top of the invariant of `Bmo`
(a `ProcessBmoEntry` is a step of `BmoNext`): `OnlyVouchedStarts`, `IvsNeverRepeat`, `NoReplyLost`, and
`ImplementsGateSafety`: `SvcSpec => Gate!Safety`, one step of `BootGate` or none for each action. `SvcInv` adds to the types that
a round about to be sent is within the limit (`RoundLeft`), that from DoneAck on the session has a bootable image (`ImageFixed`), that what is loaded
begins with it (`LoadedIsImage`), and what has been done with IVs and replies (`IvsUsed`, `RepliesAccounted`).

`DelegateProofs`, for chains of any length: `WalksDecideTheSame` and `GrantsBoundDelegates`. A walk goes on only over
certificates that passed (`WalkedGood`), and its verdict is that of all of them (`Verdict`), from whichever end it came; a key that issued
certificates to itself has the first of them from somebody else (`Held`).

`NetworkProofs`, for any zone, number of requests, NICs and ids: `AnswersBelong`, `CacheIsSound`, `UdpChildIsReleased`. While the ids have
not wrapped, an answer with the id that is waited for answers this very query (`IdInv`), and the name of the
query is one that the host leads to (`ChainInv`); `Leads` is a closure, so no induction is needed.

`TransportProofs`, for responses of any size in any segments, any buffer sizes, NICs and requests: `TypeCorrect` (rx_body never counts
more than the buffer holds), `AnswersAreFree`, `BodyIsExact`, `AllNicsTried`, `SentTwiceAtMost`. As long as no token
was misread, rx_body is the body up to where it was read and what the headers said is known (`BodyInv`);
what is local to a call is forgotten when it returns (`LocalInv`); every NIC is tried or still to be tried and
none is both (`NicInv`). The proof showed that one condition of `BodyExact` was not needed: a response that is too large for
tcp4_http.rs is given up, and so already excluded.

`CredentialProofs`, for every RvInfo and protected header of any length and nesting, any GUIDs and revisions
(`CredentialAssumption`: an RvInfo is one item that could be skipped, because cbor_capture_value did so, and that the decoders walk in the same way,
`IsRvInfo` of section 2; a header is a sequence of heads):

* `CredentialInvariant`: `Spec => []CredentialInv`, the inductive invariant;
* `ReadBackCorrect`, `RvReadersCorrect`, `ScopeCorrect`: `CredentialReadBack`, `RvReadersAgree` and `ScopeExact`.

None of the three properties is inductive: they say what decoders find, not what is in the buffer. `CredentialInv` says that: where
each item of a credential is (`Stored`), and that item 10 is not below what was started or asked for (`Ratchet`). DI establishes it
(`TenStored`, `BuildStored`), the splice of with_min_firmware_rev preserves it (`RewriteStored`), and what the decoders read follows from it.

The rest is about the decoders, in four layers. *Loops*: the induction theorems of the library take a formula, which the provers
cannot instantiate; `UpInduction` and `DownInduction` take a set instead and follow from the well-foundedness of the naturals
(`LeastNat`), and `RoundsAre` derives from them that `Rounds` satisfies its recursion. *Skipping*: a skip of a + b items is a
skip of a and then of b (`SkipCompose`), wider arguments change nothing that narrow ones could read (`SkipWiden`), and an item inside a
larger buffer is skipped as it would be alone (`SkipInside`, `SkipWithin`); so the items of a container lie one behind the other
up to where a skip over the container ends (`ItemsInside`). *Walks*: each loop of each decoder is, after k rounds, at the k-th item, as
long as it finds arrays where it expects them (`InstructionWalk`, `DirectivesAreMeant`, `ScanRevsAreMeant`, `ConstraintRounds`, `EntryRounds`).
*Going astray*: where an RvInfo holds one-byte items in the place of arrays, tpm.rs and rv_parse.rs still agree, because they take the same walk and every
value on it comes from inside the RvInfo, even if the walk leaves it (`StoredEntries`, `StoredShort`, `FirstServerAgree`): nothing
else in a credential is a byte string that holds CBOR.

`EvaluateIs` reduces evaluate_bmo_scope to `Allowed`; `GuidEnd` shows why the GUID must be the last of its list: only then does
evaluate_scope_guid return at the end of the array.

Only model-checked: everything under fairness (`Terminates`, `BootEnds`, `RequestEnds`, `ResolveEnds`, the fairness of `BootGate` in
`ImplementsBootGate`), which TLAPS does not treat. The three runs that end in a violation are counterexamples and need no proof.

## 5. Findings

1. `-force-di` on a provisioned device lowers DCMinFirmwareRev: `build_dctpm`
   (`di/protocol.rs:831`) seeds it from the new header alone, while `dctpm.rs:14-15` calls it
   "only ever increased, preserved on rewrite". Without `-force-di`, and with reads that succeed, it holds
   (`MinRevNeverLowered`).
2. The scope of an artifact does not always fail closed, as `cose.rs:326-329` says it does: the walk over the protected header ends at a head
   that cbor_skip cannot read, if it comes behind the content type, as if there were no scope (`cose.rs:524`), GUIDs listed behind the
   device's own are read as further keys, and keys that are not text are passed over. For headers without these
   it is exact (`ScopeExact`).
3. A segment of an HTTP response that takes longer than the wait for its token, or whose token completes with an error,
   is counted with the size that was asked for (`http.rs:650-666`), so that a body of the right length contains filler bytes;
   the comment at `http.rs:663` says that this size means nothing before the token has completed. With tokens that succeed it does not
   happen (`BodyExact`).

Further disagreements, which the models contain and no run is devoted to. For the first four TLC finds a counterexample at once when
the property named is put in place of those of the run's .cfg:

* every TCP4 connection leaves a child handle behind: the protocol opened EXCLUSIVE on it (`tcp4_http.rs:159`) is not closed, and DestroyChild then
  refuses, as `http.rs:756-759` says of the HTTP child, whose protocol is closed (`Tcp4ChildrenDestroyed`, `MCTransport.cfg`). That an answered POST costs no HTTP
  child holds (`AnswersCostNoHandle`);
* with `-load-mode file`, the image is written over temp_bmo.efi without truncating it (`chainload.rs:415`), so that what is loaded may
  have the end of an earlier, longer image behind the bytes that were checked, where `chunking.rs:328-329` wants a statement that "covers the exact bytes"
  (`StartedExact`, `MCServiceInfo.cfg`). In Buffer mode, the default, what is started is what was checked (`StartedVouched`);
* the response to a `set` in the OwnerSvcInfo that has `is_done` is never sent (`fdo.rs:2390`), where `bmo.rs:905` promises
  "exactly one response" (`SetsAnswered`, `MCServiceInfo.cfg`);
* the minimum can be lost without `-force-di`: a credential that leaves no room in DCTPM_DEFAULT_SIZE for a longer minimum
  gets an index of its exact size, and the next ratchet that needs more undefines, defines and writes it
  (`rv_firmware/anti_rollback.rs:71`). Cut off in between, the device has no credential, and DI seeds a lower minimum,
  where `rv_firmware/anti_rollback.rs:39-41` says "Never lowers it" and speaks of "an old exact-size index" only
  (`MinRevOnlyIncreased`, `MCDeviceForceDi.cfg` with `Adversities = {{"tight"}}`). With room
  for any minimum it is kept (`MinRevNeverLowered`, `CredentialSurvives`);
* a failed NV read counts as minimum 0 (`rv_firmware/anti_rollback.rs:33`), so firmware below the stored minimum
  starts: `NoRollback` excludes the adversity "read";
* DI stores a credential although the HMAC key could not be made persistent (`tpm.rs:2093`), which the comment in
  `di/protocol.rs:180` and every later boot assume it was: `CredentialBacked` excludes the adversity "persist";
* the comment of chainload_image (`chainload.rs:124-132`) describes a fallback to the temporary file that
  the code does not have (`ChainloadFails`);
* firmware of the revision that already ran is started again at
  each boot (`rv_firmware/mod.rs:185`), where the header of the file says it falls through to
  onboarding;
* firmware whose ratchet failed is started all the same (`rv_firmware/mod.rs:192`), and the next boot decides with the old
  minimum: `NoRollback` measures by the minimums that were stored;
* a port in four bytes is read by rv_parse.rs and not by tpm.rs (`tpm.rs:1690`), and sends firmware download and onboarding to different
  ports: `RvReadersAgree` excludes it (`IsShort`).

## 6. Assumptions and what is left out

Assumed: SHA-256 has no collisions; a signature verifies only under the key that made it;
numbers drawn from the TPM are fresh; a TPM command that reports an error was not executed;
CreatePrimary from a fixed template gives the same key, so the HMAC key is the same in every identity of a device;
tpm_flush_all_transient succeeds (the code ignores its failures); a DeviceInfo is shorter than 256 bytes; the DI server URL is never missing
(`get_di_server_url` falls back to a well-known name); inside TO2 the Owner key is
always known, so the legacy authority value of `bmo.rs` does not occur.

Not promised by the code, and not by the models: that a voucher is complete. verify_voucher accepts a prefix of a chain of
custody, which leads to an earlier owner; and in a delegate chain the onboard permission means that each certificate has
one of the three onboard OIDs, not the same one.

Not modelled, and why:

* what goes over a transport in the other models (an answer or none, chosen freely): `Transport` and `Network` have
  the failures, and the product would add no behaviour to theirs;
* lengths in bytes, UTF-8, floats and the encoders of the protocol messages, COSE envelopes, DER, the CSR and TPM
  commands: a message parses or does not. They are straight-line byte code with unit tests in the repository;
* names on the wire and their compression (`dns.rs`): a name is a value that decodes or does not;
* the arithmetic of the PE gate, and teardown_network of `chainload.rs`, after which this program does nothing
  more with the network;
* static addresses, TCP and HTTP driver configuration, events that are never closed, memory allocation: what they
  do is up to the firmware, and the code looks at it only as success or failure;
* the platform key store and certificate validity dates: constants of a boot;
* argument parsing and the test modes of `main.rs`.

Hazards of the code that no property covers:

* allocations and handles, whose limits are the firmware's: `total_size` is reserved at once (`bmo.rs:676`), as is room for as many
  certificates as an x5chain claims (`delegate.rs:855`); the events of a DNS query are never closed (`dns.rs:862`); a POST that fails after CreateChild keeps its HTTP child
  (`HttpFails` counts it, and no comment promises otherwise);
* which of the error returns of udp4_dns_query (`dns.rs:824`) destroys the child: those with the same effect are one action of `Network`;
* an RvInfo that tpm.rs and rv_parse.rs walk differently (`IsRvInfo`, section 2);
* a first Response() that was only queued is taken for complete (`http.rs:507`), a TCP4 response that was cut
  short for whole (`tcp4_http.rs:716`), and a body with a blank line and no Authorization header loses its
  beginning (`http.rs:736`): `BodyExact` names them as its exceptions, and what arrives then has to fail to parse or
  to authenticate;
* the DNS server may be that of another NIC (`dns.rs:519`), and a network that could not be configured is not tried again
  (`http_api.rs:203`): both are steps of `Network`, and nothing the code promises is broken by them;
* arithmetic on offsets below the models: an empty RvInfo string is indexed at 0 (`tpm.rs:1537`), SizeOfImage is read
  three bytes beyond its check and doubled in 32 bits (`chainload.rs:170`), a DeviceInfo of 256 bytes or more is stored with its
  length cut to one byte (`di/protocol.rs:789`).

## 7. Plan

Done: `Bmo`, `ServiceInfo` with `BootGate` and both load modes, `To2` with TO1, `Device`, `Voucher`,
`Delegate`, `Transport`, `Network`, `Credential` with the decoders under it.

Proved: every safety property and action property that a passing run checks, for every value of the constants, and the safety part
of the refinement of `BootGate`.

What would extend the project: the encoders of the protocol messages and COSE envelopes as streams of heads, in the way of
`Cbor`; certificates as DER in the same way under `Delegate`; and the length of items in bytes, for the arithmetic on offsets that section 6
lists.
