------------------------------ MODULE To2Proofs ------------------------------
(***************************************************************************)
(* Proofs about module To2, for any number of runs and of answers signed,  *)
(* any chain of custody, any delegate chains and rendezvous blobs, and a   *)
(* TPM with any number of transient slots.                                 *)
(***************************************************************************)
EXTENDS To2, SequenceTheorems, TLAPS

\* A party that answered a run signed that run's nonce, together with an xB of
\* its own; nobody holds the stranger's key.
SessionsHonest ==
    \A s \in sessions :
        /\ s.msg.by # Stranger
        /\ s.msg.xb = s.msg.by
        /\ s.xa = s.msg.nonce

\* The session key is that of this run's xA and of the xB in the answer, and
\* the answer comes from a session or carries the stranger's signature.
SekFromAnswer ==
    pc \in {"entries", "awaitSetup", "ready"} =>
        \A m \in prove_ov :
            /\ sek = [xa |-> XaRand(run), xb |-> m.xb]
            /\ m.by = Stranger \/ \E s \in sessions : s.msg = m

\* What was encrypted, was encrypted under a key drawn in its own run.
CiphertextsOfTheirRun == \A c \in ciphertexts : c.sek.xa = XaRand(c.run)

\* Nothing is left in the TPM between the flush of step 0 and the next failure.
NothingLoaded == pc \in {"prove", "awaitOVHdr"} => loaded = 0

\* The inductive invariant.
IInv ==
    /\ TypeOK
    /\ SessionsHonest
    /\ SekFromAnswer
    /\ CiphertextsOfTheirRun
    /\ NothingLoaded
    /\ OwnerAuthenticated
    /\ SecretsOnlyToOnboarders
    /\ ChannelAuthorityEarned
    /\ RedirectVouched

-----------------------------------------------------------------------------
(* The operators                                                            *)

\* What the holder of a key signs is a ProveOVHdr20.
LEMMA SignedByType ==
    ASSUME NEW k \in Keys \ {Stranger}, NEW r \in 1..MaxRuns, NEW m \in SignedBy(k, r)
    PROVE  /\ m \in ProveOVHdr
           /\ m.by = k /\ m.xb = k /\ m.nonce = r
  <1>1. (IF k \in Delegates THEN {k} ELSE {}) \in Opt(Delegates)
    BY DEF Opt
  <1> QED BY <1>1 DEF SignedBy, ProveOVHdr, XB

\* What reaches the device is a ProveOVHdr20: one of a session, or one under
\* the stranger's signature.
LEMMA DeliverableType ==
    ASSUME TypeOK, NEW m \in Deliverable
    PROVE  /\ m \in ProveOVHdr
           /\ m.by = Stranger \/ \E s \in sessions : s.msg = m
  BY DEF Deliverable, TypeOK, Session

\* The peer that is proven is the owner itself, or a delegate of a chain that
\* grants what the peer's authority says.
LEMMA PeerForProperties ==
    ASSUME NEW m, NEW key \in Owners, NEW p \in PeerFor(m, key)
    PROVE  /\ p.key \in Onboarders
           /\ p.key \in Keys
           /\ p.key # Stranger
           /\ p.peer \in {"OwnerDirect", "DelegateProvision", "DelegateOnboard"}
           /\ p.peer = "OwnerDirect" => p.key \in Owners
           /\ p.peer = "DelegateProvision" =>
                \E c \in Chains : c.leaf = p.key /\ {"onboard", "provision"} \subseteq c.perms
  <1>1. CASE m.delegate_chain = {}
    <2>1. p = [key |-> key, peer |-> "OwnerDirect"]
      BY <1>1 DEF PeerFor
    <2> QED BY <2>1, To2Assumption DEF Onboarders, Keys
  <1>2. CASE m.delegate_chain # {}
    <2>1. PICK c \in Chains : MayOnboard(c) /\ p = [key |-> c.leaf, peer |-> PeerOf(c)]
      BY <1>2 DEF PeerFor, VerifyDelegateChain
    <2>2. c.leaf \in Onboarders /\ c.leaf \in Delegates
      BY <2>1 DEF Onboarders, MayOnboard, Delegates
    <2> QED BY <2>1, <2>2, To2Assumption DEF Keys, PeerOf, MayOnboard
  <1> QED BY <1>1, <1>2

\* A rendezvous blob that was accepted was issued by the owner or by the
\* owner's delegate for redirection.
LEMMA VerifyTo1dProperties ==
    ASSUME NEW key, VerifyTo1d(key), NEW b \in to1d
    PROVE  \/ b.by = key
           \/ \E c \in Chains : c.leaf = b.by /\ c.root = key /\ "redirect" \in c.perms
  BY DEF VerifyTo1d, VerifyDelegateChain

-----------------------------------------------------------------------------
(* Type correctness                                                         *)

\* A run that fails resets the locals of perform_to2.
LEMMA FailType ==
    ASSUME TypeOK, NEW leaked \in {0, 1}, Fail(leaked)
    PROVE  TypeOK'
  BY To2Assumption DEF TypeOK, Fail, ResetLocals, NoSek, XB, Keys

\* Each step of the device and of the other parties keeps the types. That a
\* key in use names a run is known from where it comes.
LEMMA TypeStep ==
    ASSUME TypeOK, SekFromAnswer, [Next]_vars
    PROVE  TypeOK'
  <1> USE To2Assumption
  <1>1. CASE HelloRV \/ To1Fails \/ Hello \/ HelloFails \/ ProveDevice
    BY <1>1 DEF TypeOK, HelloRV, To1Fails, Hello, HelloFails, ProveDevice, device
  <1>2. ASSUME NEW b \in To1ds, ProveToRV(b)
        PROVE  TypeOK'
    BY <1>2 DEF TypeOK, ProveToRV
  <1>3. CASE ProveDeviceFails \/ RecvProveOVHdrFails \/ FetchEntryFails \/ VerifyOwnerFails
    BY <1>3, FailType
       DEF ProveDeviceFails, RecvProveOVHdrFails, FetchEntryFails, VerifyOwnerFails
  <1>4. ASSUME NEW m \in Deliverable, RecvProveOVHdr(m)
        PROVE  TypeOK'
    BY <1>4, DeliverableType DEF TypeOK, RecvProveOVHdr, XaRand, ProveOVHdr
  <1>5. ASSUME NEW own \in BOOLEAN, FetchEntry(own)
        PROVE  TypeOK'
    <2>1. entries' \in Seq(BOOLEAN)
      BY <1>5, AppendProperties DEF TypeOK, FetchEntry
    <2> QED BY <1>5, <2>1 DEF TypeOK, FetchEntry
  <1>6. CASE VerifyOwner
    <2>1. PICK m \in prove_ov, key \in Owners : \E p \in PeerFor(m, key) :
              /\ AllFetched(m)
              /\ pc' = "awaitSetup" /\ peer' = p.peer /\ signer' = {p.key}
              /\ ciphertexts' = ciphertexts \cup {[sek |-> sek, iv |-> 0, run |-> run]}
              /\ UNCHANGED <<run, loaded, to1d, prove_ov, entries, sek, sessions>>
      BY <1>6 DEF VerifyOwner
    <2>2. sek \in [xa : 1..MaxRuns, xb : XB]
      BY <2>1 DEF SekFromAnswer, AllFetched, TypeOK, XaRand, ProveOVHdr
    <2> QED BY <2>1, <2>2, PeerForProperties DEF TypeOK
  <1>7. ASSUME NEW d \in SetupDevice, RecvSetupDevice(d)
        PROVE  TypeOK'
    BY <1>7 DEF TypeOK, RecvSetupDevice, device
  <1>8. ASSUME NEW d \in SetupDevice, RecvSetupDeviceFails(d)
        PROVE  TypeOK'
    BY <1>8, FailType DEF RecvSetupDeviceFails
  <1>9. CASE NextRun
    BY <1>9 DEF TypeOK, NextRun, ResetLocals, NoSek, XB, Keys
  <1>10. ASSUME NEW k \in Keys \ {Stranger}, NEW r \in 1..MaxRuns, Respond(k, r)
         PROVE  TypeOK'
    <2>1. PICK m \in SignedBy(k, r) : sessions' = sessions \cup {[msg |-> m, xa |-> r]}
      BY <1>10 DEF Respond, XaRand, NonceTO2ProveOV
    <2>2. m \in ProveOVHdr
      BY SignedByType
    <2> QED BY <1>10, <2>1, <2>2 DEF Respond, TypeOK, Session, device
  <1>11. CASE UNCHANGED vars
    BY <1>11 DEF TypeOK, vars, device
  <1> QED BY <1>1, <1>2, <1>3, <1>4, <1>5, <1>6, <1>7, <1>8, <1>9, <1>10, <1>11 DEF Next

-----------------------------------------------------------------------------
(* The invariants                                                           *)

\* The proven owner's key, what it was proven for and the blob it vouches for:
\* the step that ends the unauthenticated part of the protocol establishes all
\* that the device relies on afterwards.
LEMMA VerifyOwnerEstablishes ==
    ASSUME IInv, VerifyOwner
    PROVE  /\ OwnerAuthenticated'
           /\ ChannelAuthorityEarned'
           /\ RedirectVouched'
           /\ sek.xb \in Onboarders
           /\ sek.xa = XaRand(run)
  <1>0. PICK m \in prove_ov, key \in Owners : \E p \in PeerFor(m, key) :
            /\ AllFetched(m)
            /\ OwnerProven(m, key, p)
            /\ pc' = "awaitSetup" /\ peer' = p.peer /\ signer' = {p.key}
            /\ UNCHANGED <<run, loaded, to1d, prove_ov, entries, sek, sessions>>
    BY DEF VerifyOwner
  <1>1. PICK p \in PeerFor(m, key) :
            /\ AllFetched(m)
            /\ OwnerProven(m, key, p)
            /\ pc' = "awaitSetup" /\ peer' = p.peer /\ signer' = {p.key}
            /\ UNCHANGED <<run, loaded, to1d, prove_ov, entries, sek, sessions>>
    BY <1>0
  <1>2. m.by = p.key /\ m.nonce = run /\ key = Custody[Len(entries) + 1] /\ VerifyTo1d(key)
    BY <1>1 DEF OwnerProven, VerifyVoucher, VerifyNonceEcho, NonceTO2ProveOV
  <1>3. p.key \in Onboarders /\ p.key # Stranger
    BY PeerForProperties
  <1>4. sek = [xa |-> run, xb |-> m.xb]
    BY <1>1 DEF IInv, SekFromAnswer, AllFetched, XaRand
  <1>5. PICK s \in sessions : s.msg = m
    BY <1>1, <1>2, <1>3 DEF IInv, SekFromAnswer, AllFetched
  <1>6. s.xa = run /\ m.xb = p.key
    BY <1>2, <1>5 DEF IInv, SessionsHonest
  <1>7. OwnerAuthenticated'
    BY <1>1, <1>2, <1>3, <1>4, <1>5, <1>6 DEF OwnerAuthenticated, NonceTO2ProveOV, Onboarders
  <1>8. ChannelAuthorityEarned'
    BY <1>1, PeerForProperties DEF ChannelAuthorityEarned
  <1>9. RedirectVouched'
    BY <1>1, <1>2, VerifyTo1dProperties DEF RedirectVouched
  <1>10. sek.xb \in Onboarders /\ sek.xa = XaRand(run)
    BY <1>3, <1>4, <1>6 DEF XaRand
  <1> QED BY <1>7, <1>8, <1>9, <1>10

\* A step that leaves what the device knows as it is, and forgets no session,
\* keeps what the device relies on.
LEMMA KnowledgeKept ==
    ASSUME IInv, UNCHANGED <<device, run>>, sessions \subseteq sessions',
           Authenticated' => Authenticated
    PROVE  /\ OwnerAuthenticated'
           /\ ChannelAuthorityEarned'
           /\ RedirectVouched'
  BY DEF IInv, device, OwnerAuthenticated, ChannelAuthorityEarned, RedirectVouched, Onboarders,
         Authenticated, NonceTO2ProveOV

\* Every step keeps the inductive invariant.
LEMMA InvStep ==
    ASSUME IInv, [Next]_vars
    PROVE  IInv'
  <1>0. TypeOK'
    BY TypeStep DEF IInv
  <1> DEFINE Kept == /\ SessionsHonest' /\ SekFromAnswer' /\ CiphertextsOfTheirRun'
                     /\ NothingLoaded' /\ SecretsOnlyToOnboarders'
             Knowledge == OwnerAuthenticated' /\ ChannelAuthorityEarned' /\ RedirectVouched'
  <1> SUFFICES Kept /\ Knowledge
    BY <1>0 DEF IInv
  <1>1. ASSUME UNCHANGED <<device, run, sessions, ciphertexts>>,
               pc' \in {"awaitSetup", "ready"} => pc = "awaitSetup",
               pc' # "entries", NothingLoaded'
        PROVE  Kept /\ Knowledge
    <2>1. Knowledge
      BY <1>1, KnowledgeKept DEF Authenticated
    <2> QED BY <1>1, <2>1 DEF IInv, device, SessionsHonest, SekFromAnswer,
              CiphertextsOfTheirRun, SecretsOnlyToOnboarders, Onboarders, XaRand
  <1>2. CASE HelloRV \/ To1Fails \/ Hello \/ HelloFails
    BY <1>1, <1>2 DEF HelloRV, To1Fails, Hello, HelloFails, NothingLoaded
  <1>3. CASE ProveDevice
    BY <1>1, <1>3 DEF ProveDevice, NothingLoaded, IInv
  <1>4. ASSUME NEW d \in SetupDevice, RecvSetupDevice(d)
        PROVE  Kept /\ Knowledge
    BY <1>1, <1>4 DEF RecvSetupDevice, NothingLoaded
  <1>5. ASSUME ResetLocals, pc' \in {"failed", "to1"}, UNCHANGED <<sessions, ciphertexts>>
        PROVE  Kept /\ Knowledge
    BY <1>5 DEF IInv, ResetLocals, SessionsHonest, SekFromAnswer, CiphertextsOfTheirRun,
         NothingLoaded, OwnerAuthenticated, SecretsOnlyToOnboarders, Onboarders,
         ChannelAuthorityEarned, RedirectVouched, Authenticated, XaRand
  <1>6. CASE ProveDeviceFails \/ RecvProveOVHdrFails \/ FetchEntryFails \/ VerifyOwnerFails
    BY <1>5, <1>6 DEF Fail, ProveDeviceFails, RecvProveOVHdrFails, FetchEntryFails,
         VerifyOwnerFails
  <1>7. CASE NextRun
    BY <1>5, <1>7 DEF NextRun
  <1>8. ASSUME NEW d \in SetupDevice, RecvSetupDeviceFails(d)
        PROVE  Kept /\ Knowledge
    BY <1>5, <1>8 DEF RecvSetupDeviceFails, Fail
  <1>9. ASSUME NEW b \in To1ds, ProveToRV(b)
        PROVE  Kept /\ Knowledge
    BY <1>9 DEF IInv, ProveToRV, SessionsHonest, SekFromAnswer, CiphertextsOfTheirRun,
         NothingLoaded, OwnerAuthenticated, SecretsOnlyToOnboarders, Onboarders,
         ChannelAuthorityEarned, RedirectVouched, Authenticated, XaRand
  <1>10. ASSUME NEW m \in Deliverable, RecvProveOVHdr(m)
         PROVE  Kept /\ Knowledge
    <2>1. m.by = Stranger \/ \E s \in sessions : s.msg = m
      BY DeliverableType DEF IInv
    <2> QED BY <1>10, <2>1 DEF IInv, RecvProveOVHdr, SessionsHonest, SekFromAnswer,
              CiphertextsOfTheirRun, NothingLoaded, OwnerAuthenticated,
              SecretsOnlyToOnboarders, Onboarders, ChannelAuthorityEarned, RedirectVouched,
              Authenticated, XaRand
  <1>11. ASSUME NEW own \in BOOLEAN, FetchEntry(own)
         PROVE  Kept /\ Knowledge
    BY <1>11 DEF IInv, FetchEntry, SessionsHonest, SekFromAnswer, CiphertextsOfTheirRun,
         NothingLoaded, OwnerAuthenticated, SecretsOnlyToOnboarders, Onboarders,
         ChannelAuthorityEarned, RedirectVouched, Authenticated, XaRand
  <1>12. CASE VerifyOwner
    <2>1. Knowledge /\ sek.xb \in Onboarders /\ sek.xa = XaRand(run)
      BY <1>12, VerifyOwnerEstablishes
    <2>2. /\ pc = "entries" /\ pc' = "awaitSetup"
          /\ ciphertexts' = ciphertexts \cup {[sek |-> sek, iv |-> 0, run |-> run]}
          /\ UNCHANGED <<run, loaded, prove_ov, sek, sessions>>
      BY <1>12 DEF VerifyOwner, AllFetched
    <2> QED BY <2>1, <2>2 DEF IInv, SessionsHonest, SekFromAnswer, CiphertextsOfTheirRun,
              NothingLoaded, SecretsOnlyToOnboarders, Onboarders, XaRand
  <1>13. ASSUME NEW k \in Keys \ {Stranger}, NEW r \in 1..MaxRuns, Respond(k, r)
         PROVE  Kept /\ Knowledge
    <2>1. PICK m \in SignedBy(k, r) : sessions' = sessions \cup {[msg |-> m, xa |-> r]}
      BY <1>13 DEF Respond, XaRand, NonceTO2ProveOV
    <2>2. m.by = k /\ m.xb = k /\ m.nonce = r
      BY SignedByType
    <2>3. UNCHANGED <<pc, run, loaded, device, ciphertexts>>
      BY <1>13 DEF Respond
    <2>4. Knowledge
      BY <2>1, <2>3, KnowledgeKept DEF Authenticated
    <2>5. SessionsHonest'
      BY <2>1, <2>2 DEF IInv, SessionsHonest
    <2> QED BY <2>1, <2>3, <2>4, <2>5 DEF IInv, SekFromAnswer, CiphertextsOfTheirRun,
              NothingLoaded, SecretsOnlyToOnboarders, Onboarders, XaRand, device
  <1>14. CASE UNCHANGED vars
    <2>1. Knowledge
      BY <1>14, KnowledgeKept DEF vars, Authenticated
    <2> QED BY <1>14, <2>1 DEF IInv, vars, device, SessionsHonest, SekFromAnswer,
              CiphertextsOfTheirRun, NothingLoaded, SecretsOnlyToOnboarders, Onboarders, XaRand
  <1> QED BY <1>2, <1>3, <1>4, <1>6, <1>7, <1>8, <1>9, <1>10, <1>11, <1>12, <1>13, <1>14 DEF Next

\* The inductive invariant holds in every state of every run of the protocol.
THEOREM InvHolds == Spec => []IInv
  <1>1. Init => IInv
    BY To2Assumption DEF Init, IInv, TypeOK, SessionsHonest, SekFromAnswer,
       CiphertextsOfTheirRun, NothingLoaded, OwnerAuthenticated, SecretsOnlyToOnboarders,
       ChannelAuthorityEarned, RedirectVouched, Authenticated, NoSek, XB, Keys
  <1>2. IInv /\ [Next]_vars => IInv'
    BY InvStep
  <1> QED BY <1>1, <1>2, PTL DEF Spec

-----------------------------------------------------------------------------
(* What the handshake guarantees                                            *)

\* The variables of perform_to2 and the recorded messages hold values of their
\* types, in every run.
THEOREM TypeCorrect == Spec => []TypeOK
  <1>1. IInv => TypeOK
    BY DEF IInv
  <1> QED BY <1>1, InvHolds, PTL

\* Agreement: a device that considers its owner proven (step 3b of perform_to2)
\* shares its session key with a party that may onboard it and that answered
\* this very run, whatever the network replayed, mixed or made up.
THEOREM OwnerIsAuthenticated == Spec => []OwnerAuthenticated
  <1>1. IInv => OwnerAuthenticated
    BY DEF IInv
  <1> QED BY <1>1, InvHolds, PTL

\* Nothing is ever encrypted under a key that a party without onboarding
\* authority can compute, although the key is derived before the peer is known.
THEOREM SecretsStayWithOnboarders == Spec => []SecretsOnlyToOnboarders
  <1>1. IInv => SecretsOnlyToOnboarders
    BY DEF IInv
  <1> QED BY <1>1, InvHolds, PTL

\* No two runs of perform_to2 encrypt under one session key with one IV.
THEOREM SessionKeysDiffer == Spec => []SekNeverReused
  <1>1. IInv => SekNeverReused
    BY DEF IInv, CiphertextsOfTheirRun, SekNeverReused, XaRand
  <1> QED BY <1>1, InvHolds, PTL

\* The peer authority passed on to the BMO session is one the proven key has.
THEOREM AuthorityIsEarned == Spec => []ChannelAuthorityEarned
  <1>1. IInv => ChannelAuthorityEarned
    BY DEF IInv
  <1> QED BY <1>1, InvHolds, PTL

\* The rendezvous blob that redirected the device was issued by the owner the
\* voucher leads to or by that owner's delegate for redirection.
THEOREM RedirectIsVouched == Spec => []RedirectVouched
  <1>1. IInv => RedirectVouched
    BY DEF IInv
  <1> QED BY <1>1, InvHolds, PTL

\* However many runs failed with objects left in the TPM, a slot is free
\* whenever perform_to2 creates its ECDH key.
THEOREM SlotsSuffice == Spec => []SlotsNeverExhausted
  <1>1. IInv => SlotsNeverExhausted
    BY To2Assumption DEF IInv, NothingLoaded, SlotsNeverExhausted
  <1> QED BY <1>1, InvHolds, PTL
=============================================================================
