------------------------------- MODULE BootGate -------------------------------
(***************************************************************************)
(* What a TO2 run promises about the image it boots, and nothing of how:   *)
(* while the owner is provisioning, an image may become ready or be        *)
(* withdrawn, but only one that is vouched for at that moment; once the    *)
(* owner has acknowledged the end of the run the image is fixed, and only  *)
(* then may it be started. Every run ends.                                 *)
(***************************************************************************)
CONSTANT Image

VARIABLES
    vouched,  \* images some trusted source has stated the digest of
    ready,    \* the image that would be booted, if any
    stage,    \* provisioning, sealed by the owner's acknowledgement, or over
    started   \* the image control was handed to, if any

gateVars == <<vouched, ready, stage, started>>

Init ==
    /\ vouched = {}
    /\ ready = {}
    /\ stage = "provisioning"
    /\ started = {}

\* Provisioning goes on: an image is accepted, replaced, withdrawn or kept.
Provision ==
    /\ stage = "provisioning"
    /\ vouched' \in SUBSET Image
    /\ \/ ready' = {}
       \/ \E i \in vouched' : ready' = {i}
    /\ UNCHANGED <<stage, started>>

Seal ==
    /\ stage = "provisioning"
    /\ stage' = "sealed"
    /\ UNCHANGED <<vouched, ready, started>>

\* The image takes over the machine; it may also return.
Start ==
    /\ stage = "sealed"
    /\ ready # {}
    /\ started = {}
    /\ started' = ready
    /\ UNCHANGED <<vouched, ready, stage>>

Stop ==
    /\ stage \in {"provisioning", "sealed"}
    /\ stage' = "over"
    /\ UNCHANGED <<vouched, ready, started>>

Next == Provision \/ Seal \/ Start \/ Stop

\* What never goes wrong.
Safety == Init /\ [][Next]_gateVars

\* A run does not provision for ever; an image that was started may run for ever.
Spec ==
    /\ Safety
    /\ WF_gateVars(Seal \/ Start \/ (Stop /\ started = {}))
=============================================================================
