----------------------------- MODULE ServiceInfo -----------------------------
(***************************************************************************)
(* The last part of perform_to2 in src/fdo.rs, once the Owner is proven:   *)
(* the ServiceInfo loop (messages 88 and 89), which hands every fdo.bmo    *)
(* entry to the session of module Bmo and returns its replies in the next  *)
(* round, then Done and DoneAck (90, 91), then chainload_image.            *)
(*                                                                         *)
(* The owner is the environment: it may put any entry in any answer, so    *)
(* owners that repeat, reorder or drop entries, and answers lost because   *)
(* http_post_with_session sent a request again over its second transport,  *)
(* are all behaviours of this specification.                               *)
(***************************************************************************)
EXTENDS Bmo

CONSTANTS
    MaxServiceInfoRounds,  \* MAX_SERVICE_INFO_ROUNDS
    MaxEntries,            \* bound on the entries of one OwnerSvcInfo
    StartTimeout,          \* the 60 s armed around StartImage
    EfiImages,             \* the images whose PE headers look right
    LoadModes,             \* -load-mode: where chainload_image loads from
    TempFiles              \* what an earlier run may have left in temp_bmo.efi

ASSUME ServiceInfoAssumption ==
    /\ MaxServiceInfoRounds \in Nat \ {0}
    /\ MaxEntries \in Nat
    /\ StartTimeout \in 0..(U64 - 1)
    /\ LoadModes \subseteq {"Buffer", "File"}
    /\ TempFiles \subseteq Seq(Bytes)

VARIABLES
    phase,          \* where perform_to2 is
    round,          \* round
    bmo_responses,  \* replies queued for the next DeviceSvcInfo
    owner_svc,      \* the OwnerSvcInfo being processed: is_done, entries left
    iv_counter,     \* iv_counter
    loaded,         \* what LoadImage made an image handle of, if anything: mode, image
    started,        \* the image StartImage was called on, if any
    ciphertexts,    \* history: the messages encrypted under the SEK
    produced,       \* history: every reply process_bmo_message returned
    sent            \* history: how many of them a DeviceSvcInfo has carried

toVars == <<phase, round, bmo_responses, owner_svc, iv_counter, loaded, started>>
history == <<ciphertexts, produced, sent>>
vars == <<bmoVars, toVars, history>>

Running == {"send", "await", "process", "done", "awaitAck", "chainload", "loaded", "booted"}
Ended == {"finished", "failed", "rebooted"}

\* DeviceSvcInfoRdy has used the first IV of the session.
SvcInit ==
    /\ Init
    /\ phase = "send"
    /\ round = 0
    /\ bmo_responses = <<>>
    /\ owner_svc = [is_done |-> FALSE, left |-> 0]
    /\ iv_counter = 1
    /\ loaded = {}
    /\ started = {}
    /\ ciphertexts = {[iv |-> 0, msg |-> "DeviceSvcInfoRdy", n |-> 0]}
    /\ produced = <<>>
    /\ sent = 0

-----------------------------------------------------------------------------

\* set_watchdog_timer; its failure leaves the timer as it was.
ArmWatchdog(secs) == watchdog' \in {secs, watchdog}

KeepSession == UNCHANGED <<peer, session, reply, stated>>

\* Deviation: the IV counter is not advanced.
EncryptSameIv(msg, n) ==
    /\ ciphertexts' = ciphertexts \cup {[iv |-> iv_counter, msg |-> msg, n |-> n]}
    /\ UNCHANGED iv_counter

\* next_session_iv and cose_encrypt0_a256gcm.
Encrypt(msg, n) ==
    /\ ciphertexts' = ciphertexts \cup {[iv |-> iv_counter, msg |-> msg, n |-> n]}
    /\ iv_counter' = iv_counter + 1

\* One turn of the loop up to the POST: round 1 sends devmod, a later round
\* the replies queued since.
SendRound ==
    /\ phase = "send"
    /\ phase' = "await"
    /\ round' = round + 1
    /\ ArmWatchdog(WatchdogTimeout)
    /\ Encrypt("DeviceSvcInfo", round')
    /\ IF round' = 1
       THEN UNCHANGED <<bmo_responses, sent>>
       ELSE bmo_responses' = <<>> /\ sent' = sent + Len(bmo_responses)
    /\ KeepSession
    /\ UNCHANGED <<owner_svc, loaded, started, produced>>

\* An OwnerSvcInfo that decrypts and parses. A service_info array that does
\* not parse is dropped with a warning: an answer with no entries.
RecvRound(is_done, n) ==
    /\ phase = "await"
    /\ phase' = "process"
    /\ owner_svc' = [is_done |-> is_done, left |-> n]
    /\ KeepSession
    /\ UNCHANGED <<watchdog, round, bmo_responses, iv_counter, loaded, started, history>>

\* The ? of perform_to2: no answer, an FDO error, a message that does not
\* decrypt or parse, a nonce that does not match.
ExchangeFails ==
    /\ phase \in {"await", "awaitAck"}
    /\ phase' = "failed"
    /\ UNCHANGED <<bmoVars, round, bmo_responses, owner_svc, iv_counter, loaded, started, history>>

NextEntry ==
    /\ phase = "process"
    /\ owner_svc.left > 0
    /\ owner_svc' = [owner_svc EXCEPT !.left = @ - 1]
    /\ UNCHANGED <<phase, round, iv_counter, loaded, started, ciphertexts, sent>>

\* Deviation: a reply replaces the one queued before it.
QueueLastReply ==
    /\ bmo_responses' = IF reply' = {} THEN bmo_responses ELSE <<CHOOSE r \in reply' : TRUE>>
    /\ produced' = IF reply' = {} THEN produced ELSE Append(produced, CHOOSE r \in reply' : TRUE)

QueueReply ==
    \/ /\ reply' = {}
       /\ UNCHANGED <<bmo_responses, produced>>
    \/ \E r \in reply' :
          /\ bmo_responses' = Append(bmo_responses, r)
          /\ produced' = Append(produced, r)

ProcessBmoEntry == NextEntry /\ BmoNext /\ QueueReply

OtherEntry == NextEntry /\ UNCHANGED <<bmoVars, bmo_responses, produced>>

\* Deviation: the loop waits for another answer without sending anything.
EndRoundPolls ==
    /\ phase = "process"
    /\ owner_svc.left = 0
    /\ phase' = IF owner_svc.is_done THEN "done" ELSE "await"
    /\ UNCHANGED <<bmoVars, round, bmo_responses, owner_svc, iv_counter, loaded, started, history>>

\* Deviation: the round limit is off by one.
LimitPassed == round > MaxServiceInfoRounds

LimitReached == round >= MaxServiceInfoRounds

\* The end of the loop body: is_done, or the safety limit, leaves the loop.
EndRound ==
    /\ phase = "process"
    /\ owner_svc.left = 0
    /\ phase' = IF owner_svc.is_done \/ LimitReached THEN "done" ELSE "send"
    /\ UNCHANGED <<bmoVars, round, bmo_responses, owner_svc, iv_counter, loaded, started, history>>

SendDone ==
    /\ phase = "done"
    /\ phase' = "awaitAck"
    /\ Encrypt("Done", 0)
    /\ UNCHANGED <<bmoVars, round, bmo_responses, owner_svc, loaded, started, produced, sent>>

\* Deviation: any received bytes are booted.
BootableIfAny == image_buffer # <<>>

Bootable == state = "Complete" /\ image_buffer # <<>>

\* DoneAck echoes NonceTO2SetupDv.
RecvDoneAck ==
    /\ phase = "awaitAck"
    /\ phase' = IF Bootable THEN "chainload" ELSE "finished"
    /\ UNCHANGED <<bmoVars, round, bmo_responses, owner_svc, iv_counter, loaded, started, history>>

-----------------------------------------------------------------------------
(* chainload_image (chainload.rs).                                          *)

\* validate_efi_image and the sanity gate on the PE header.
ValidateEfiImage(image) == image \in EfiImages

\* The gate refuses the image, or LoadImage does, or the ESP cannot be written: there is
\* no fallback.
ChainloadFails ==
    /\ phase = "chainload"
    /\ phase' = "finished"
    /\ UNCHANGED <<bmoVars, round, bmo_responses, owner_svc, iv_counter, loaded, started, history>>

\* load_via_temp_file writes from the start of a file it does not truncate.
FileWritten(old, image) == image \o SubSeq(old, Len(image) + 1, Len(old))

\* load_from_buffer or load_via_temp_file.
LoadImage(mode) ==
    /\ phase = "chainload"
    /\ ValidateEfiImage(image_buffer)
    /\ phase' = "loaded"
    /\ \/ mode = "Buffer" /\ loaded' = {[mode |-> mode, image |-> image_buffer]}
       \/ /\ mode = "File"
          /\ \E old \in TempFiles :
                loaded' = {[mode |-> mode, image |-> FileWritten(old, image_buffer)]}
    /\ UNCHANGED <<bmoVars, round, bmo_responses, owner_svc, iv_counter, started, history>>

\* StartImage under a short watchdog; an image that returns gets the long one back.
StartImage ==
    /\ phase = "loaded"
    /\ phase' = "booted"
    /\ started' = {l.image : l \in loaded}
    /\ ArmWatchdog(StartTimeout)
    /\ KeepSession
    /\ UNCHANGED <<round, bmo_responses, owner_svc, iv_counter, loaded, history>>

ImageReturns ==
    /\ phase = "booted"
    /\ phase' = "finished"
    /\ ArmWatchdog(WatchdogTimeout)
    /\ KeepSession
    /\ UNCHANGED <<round, bmo_responses, owner_svc, iv_counter, loaded, started, history>>

\* The firmware resets a device that does not make progress.
WatchdogFires ==
    /\ phase \in Running
    /\ phase' = "rebooted"
    /\ UNCHANGED <<bmoVars, round, bmo_responses, owner_svc, iv_counter, loaded, started, history>>

SvcNext ==
    \/ SendRound
    \/ \E is_done \in BOOLEAN, n \in 0..MaxEntries : RecvRound(is_done, n)
    \/ ExchangeFails
    \/ ProcessBmoEntry
    \/ OtherEntry
    \/ EndRound
    \/ SendDone
    \/ RecvDoneAck
    \/ ChainloadFails
    \/ \E mode \in LoadModes : LoadImage(mode)
    \/ StartImage
    \/ ImageReturns
    \/ WatchdogFires

\* The device is one thread that always takes its next step: a POST returns or
\* times out, and an image that was started returns or keeps the machine.
SvcSpec ==
    SvcInit /\ [][SvcNext]_vars /\ WF_vars(SvcNext /\ phase # "booted")

-----------------------------------------------------------------------------
(* Properties                                                               *)

\* The variables of the loop hold values of their types; the round counter never
\* passes MAX_SERVICE_INFO_ROUNDS.
SvcTypeOK ==
    /\ TypeOK
    /\ phase \in Running \cup Ended
    /\ round \in 0..MaxServiceInfoRounds
    /\ bmo_responses \in Seq(Replies)
    /\ owner_svc \in [is_done : BOOLEAN, left : 0..MaxEntries]
    /\ iv_counter \in Nat
    /\ IsOpt(loaded, [mode : LoadModes, image : Seq(Bytes)])
    /\ IsOpt(started, Seq(Bytes))

\* What image i has in the place of the session's image.
Begun(i) == SubSeq(i, 1, Len(image_buffer))

\* perform_to2 hands the machine only to bytes a trusted source vouched for,
\* and what it starts is still the session's complete image: nothing the owner
\* sends in a later entry or round slips between the check and chainload_image. Only with
\* -load-mode file, a longer temp_bmo.efi of an earlier run leaves its end behind the image.
StartedVouched ==
    \A i \in started :
        /\ state = "Complete"
        /\ VouchedBy(TrustedSources)
        /\ Begun(i) = image_buffer
        /\ \A l \in loaded : l.mode = "Buffer" => i = image_buffer

\* "nothing may be executed unless some authenticated statement covers the exact bytes"
\* (chunking.rs, image hash policy): what is started is the image that was checked, and
\* no byte of anything else. load_via_temp_file does not keep to it.
StartedExact == \A i \in started : i = image_buffer

\* "an IV must never repeat" under one SEK (fdo.rs, step 4): two messages
\* encrypted in a session never share an IV, however many rounds it has and
\* however the loop is left.
IvNeverReused ==
    \A c, d \in ciphertexts : c.iv = d.iv => c = d

\* The queue between Bmo and the loop neither loses, repeats nor reorders a
\* reply: those not yet sent are exactly the ones queued, in order.
RepliesConserved ==
    bmo_responses = SubSeq(produced, sent + 1, Len(produced))

\* "A set is atomic and answered by exactly one response" (bmo.rs): once Done is sent, which
\* no DeviceSvcInfo follows, no response to a set is left in the queue. For a set in the
\* last OwnerSvcInfo the loop does not keep to it.
SetsAnswered ==
    phase \in {"awaitAck", "chainload", "loaded", "booted"} =>
        \A i \in DOMAIN bmo_responses : bmo_responses[i].key # "set-response"

\* The loop ends: is_done, a failed exchange, a reset, or the round limit when
\* the owner never says it is done. Then perform_to2 returns or boots.
Terminates == <>(phase \in Ended \cup {"booted"})

\* Refinement of the abstract gate.
VouchedImages == {i \in Images : \E s \in stated : s.by \in TrustedSources /\ s.digest = Sha256(i)}

Stage ==
    IF phase \in {"send", "await", "process", "done", "awaitAck"} THEN "provisioning"
    ELSE IF phase \in {"chainload", "loaded", "booted"} THEN "sealed"
    ELSE "over"

Gate == INSTANCE BootGate WITH
    Image <- Images,
    vouched <- VouchedImages,
    ready <- IF state = "Complete" THEN {image_buffer} ELSE {},
    stage <- Stage,
    started <- {Begun(i) : i \in started}

\* Step by step, the loop, the BMO session and the chainload do what BootGate
\* allows: an unvouched image is never ready, none is started before DoneAck,
\* and none is replaced after it.
ImplementsBootGate == Gate!Spec
=============================================================================
