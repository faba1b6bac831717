------------------------------- MODULE Delegate -------------------------------
(***************************************************************************)
(* The two certificate walks of src/delegate.rs: verify_delegate_chain,    *)
(* which goes from the certificate the owner signed down to the leaf of a  *)
(* delegate, and verify_x5chain_internal, which goes from the leaf of an   *)
(* X5CHAIN public key up to its topmost certificate.                       *)
(*                                                                         *)
(* A chain arrives in an unprotected header, and anyone may sign           *)
(* certificates with a key of its own, for any key, itself included. A     *)
(* signature verifies only under the key that made it. Certificates a walk *)
(* has not reached have no influence on it, so each is chosen when the     *)
(* walk reaches it; only their number is known from the start.             *)
(***************************************************************************)
EXTENDS Naturals, Sequences

CONSTANTS
    Keys,                    \* keys of owners and delegates
    Owner,                   \* owner_key_point
    Ekus,                    \* ExtendedKeyUsage extensions, as sets of OIDs
    PathLens,                \* pathLenConstraints as encoded
    MAX_DELEGATE_CHAIN_LEN   \* 8 in the code

Oids == {"PermitRedirect", "PermitOnboardNewCred", "PermitOnboardReuseCred",
         "PermitOnboardFdoDisable", "PermitProvision", "Other"}

ASSUME DelegateAssumption ==
    /\ Owner \in Keys
    /\ Ekus \subseteq SUBSET Oids
    /\ PathLens \subseteq Nat
    /\ MAX_DELEGATE_CHAIN_LEN \in Nat \ {0}

VARIABLES
    pc,       \* "idle", "walk" or "done"
    walk,     \* the function: "delegate" or "x5chain"
    len,      \* cert_ders.len()
    path,     \* the certificates visited, in the order of the walk
    result    \* the leaf's key and the flags of the chain, or nothing

vars == <<pc, walk, len, path, result>>

Opt(S) == {{}} \cup {{x} : x \in S}

\* A certificate: who signed it, its key and the extensions that are read.
Certs == [by : Keys, key : Keys, ca : BOOLEAN, path_len : Opt(PathLens), eku : Ekus]

Flags == {"redirect", "provision", "onboard", "reuse_cred"}

\* check_eku_oids: any of the three onboard OIDs makes the onboard flag.
CheckEkuOids(oids) ==
    {f \in Flags :
        \/ f = "redirect" /\ "PermitRedirect" \in oids
        \/ f = "provision" /\ "PermitProvision" \in oids
        \/ f = "reuse_cred" /\ "PermitOnboardReuseCred" \in oids
        \/ f = "onboard" /\ oids \cap {"PermitOnboardNewCred", "PermitOnboardReuseCred",
                                       "PermitOnboardFdoDisable"} # {}}

\* parse_basic_constraints: an integer of more than two bytes is no constraint.
PathLen(c) == {n \in c.path_len : n < 32768}

Init ==
    /\ pc = "idle"
    /\ walk = "delegate"
    /\ len = 0
    /\ path = <<>>
    /\ result = {}

Return(r) ==
    /\ pc' = "done"
    /\ result' = r

TooLong(n) == n > MAX_DELEGATE_CHAIN_LEN

\* Either function is called with n certificates, which all parse or do not.
Call(w, n, parses) ==
    /\ pc = "idle"
    /\ walk' = w
    /\ len' = n
    /\ path' = <<>>
    /\ \/ (n = 0 \/ TooLong(n) \/ ~parses) /\ Return({})
       \/ ~(n = 0 \/ TooLong(n) \/ ~parses) /\ pc' = "walk" /\ UNCHANGED result

\* Deviation: the leaf counts as an intermediate one level too low.
PathLenAllowsOneMore(c, below) == \A n \in PathLen(c) : below <= n + 1

\* At most as many intermediates below an issuer as its pathLenConstraint says.
PathLenAllows(c, below) == \A n \in PathLen(c) : below <= n

\* The checks of one iteration: issuer above cert, with "below" intermediates.
IssuedBy(cert, issuer, below) ==
    /\ issuer.ca
    /\ PathLenAllows(issuer, below)
    /\ cert.by = issuer.key

\* verify_delegate_chain visits the root first: it must be the owner's. The
\* certificate visited as number k has index len - k in cert_ders.
DelegateStep(c) ==
    /\ pc = "walk" /\ walk = "delegate"
    /\ Len(path) < len
    /\ LET k == Len(path) + 1
           ok == IF k = 1 THEN c.by = Owner ELSE IssuedBy(c, path[k - 1], len - k)
       IN  \/ ok /\ UNCHANGED <<pc, result>>
           \/ ~ok /\ Return({})
    /\ path' = Append(path, c)
    /\ UNCHANGED <<walk, len>>

\* Deviation: the permissions are those the leaf claims.
ChainFlagsOfLeaf(p) == CheckEkuOids(p[Len(p)].eku)

\* Step 3: the intersection over all certificates.
ChainFlags(p) == {f \in Flags : \A k \in DOMAIN p : f \in CheckEkuOids(p[k].eku)}

DelegateDone ==
    /\ pc = "walk" /\ walk = "delegate"
    /\ Len(path) = len
    /\ Return({[key |-> path[len].key, flags |-> ChainFlags(path)]})
    /\ UNCHANGED <<walk, len, path>>

\* verify_x5chain_internal visits the leaf first and asks nothing of the
\* topmost certificate's signature.
X5ChainStep(c) ==
    /\ pc = "walk" /\ walk = "x5chain"
    /\ Len(path) < len
    /\ LET k == Len(path) + 1
           ok == IF k = 1 THEN TRUE ELSE IssuedBy(path[k - 1], c, k - 2)
       IN  \/ ok /\ UNCHANGED <<pc, result>>
           \/ ~ok /\ Return({})
    /\ path' = Append(path, c)
    /\ UNCHANGED <<walk, len>>

X5ChainDone ==
    /\ pc = "walk" /\ walk = "x5chain"
    /\ Len(path) = len
    /\ Return({[key |-> path[1].key, flags |-> {}]})
    /\ UNCHANGED <<walk, len, path>>

Next ==
    \/ \E w \in {"delegate", "x5chain"}, n \in 0..(MAX_DELEGATE_CHAIN_LEN + 1), parses \in BOOLEAN :
          Call(w, n, parses)
    \/ \E c \in Certs : DelegateStep(c) \/ X5ChainStep(c)
    \/ DelegateDone \/ X5ChainDone

Spec == Init /\ [][Next]_vars

-----------------------------------------------------------------------------
(* Properties                                                               *)

\* The variables hold values of their types, and no walk is longer than the cap
\* on what an unauthenticated peer may make the device process.
TypeOK ==
    /\ pc \in {"idle", "walk", "done"}
    /\ walk \in {"delegate", "x5chain"}
    /\ len \in 0..(MAX_DELEGATE_CHAIN_LEN + 1)
    /\ path \in Seq(Certs)
    /\ Len(path) <= MAX_DELEGATE_CHAIN_LEN
    /\ result \subseteq [key : Keys, flags : SUBSET Flags]

\* Somebody else's certificate for key k covers all that an accepted chain p does.
GrantOf(p, k) ==
    \E j \in DOMAIN p :
        /\ p[j].key = k
        /\ p[j].by # k
        /\ \A r \in result : r.flags \subseteq CheckEkuOids(p[j].eku)
        /\ j < Len(p) =>
              p[j].ca /\ \A n \in p[j].path_len : n < 32768 => Len(p) - j <= n + 1

\* "Without this, any delegate [...] can mint further certificates and hand its
\* own permissions to anyone, indefinitely": whatever certificates the delegates
\* on an accepted chain issued, to each other or to themselves, each of them
\* holds one from somebody else that grants all the chain grants and, if anything
\* follows it, allows issuing that deep.
NoDelegateExceedsItsGrant ==
    (pc = "done" /\ walk = "delegate") =>
        \A r \in result : \A j \in DOMAIN path :
            path[j].key # Owner => GrantOf(path, path[j].key)

\* A chain is linked, leaf first, as both functions define it.
Linked(p) ==
    \A i \in 1..(Len(p) - 1) :
        /\ p[i + 1].ca
        /\ \A n \in p[i + 1].path_len : n < 32768 => i - 1 <= n
        /\ p[i].by = p[i + 1].key

LeafFirst(p) == [i \in 1..Len(p) |-> p[Len(p) + 1 - i]]

\* The two walks, in opposite directions and with indices of their own, decide
\* the same relation: a complete chain is accepted exactly when it is linked (and
\* rooted in the owner, for a delegate), and the key returned is the leaf's.
WalksAgree ==
    (pc = "done" /\ len > 0 /\ Len(path) = len) =>
        LET p == IF walk = "delegate" THEN LeafFirst(path) ELSE path
        IN  IF Linked(p) /\ (walk = "delegate" => p[len].by = Owner)
            THEN \E r \in result : r.key = p[1].key
            ELSE result = {}
=============================================================================
