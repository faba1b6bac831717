-------------------------------- MODULE Scope --------------------------------
(***************************************************************************)
(* What a signer put into the protected header of an artifact, as          *)
(* verify_bmo_signed of src/cose.rs reads it: the type of its content, and *)
(* the scope, constraints that it is valid under (evaluate_bmo_scope).     *)
(***************************************************************************)
EXTENDS Cbor

PastEntry(header) ==
    [p \in 0..Len(header) + 1 |->
        IF p \notin DOMAIN header THEN 0 ELSE Skip(header, p, 2, Narrow)]

\* The text behind an integer label, if the walk over the header finds it. A key that is
\* no integer ends the walk, like a head that cannot be read.
ParseProtectedTstr(header, label) ==
    LET At == Rounds(PastEntry(header), 2)
        IsInt(i) == /\ At[i - 1] \in DOMAIN header
                    /\ header[At[i - 1]].m \in {0, 1} /\ header[At[i - 1]].w \in Narrow
        IsLabel(i) == header[At[i - 1]].m = 0 /\ header[At[i - 1]].n = label
        IsTstr(p) == p \in DOMAIN header /\ header[p].m = 3 /\ header[p].w \in Narrow
    IN  IF header = <<>> THEN {}
        ELSE IF header[1].m # 5 \/ header[1].w \notin Narrow THEN {}
        ELSE {header[At[i - 1] + 1].text :
              i \in {k \in 1..header[1].n :
                        /\ \A j \in 1..k : IsInt(j)
                        /\ IsLabel(k) /\ \A j \in 1..k - 1 : ~IsLabel(j)
                        /\ IsTstr(At[k - 1] + 1)}}

\* The value behind a text key, if the walk over the header finds it. A head that
\* cbor_skip cannot read ends the walk as if the key were absent.
ExtractTstrKeyedValue(header, key) ==
    LET At == Rounds(PastEntry(header), 2)
        IsKey(i) == /\ At[i] # 0
                    /\ header[At[i - 1]].m = 3 /\ header[At[i - 1]].text = key
    IN  IF header = <<>> THEN {}
        ELSE IF header[1].m # 5 \/ header[1].w \notin Narrow THEN {}
        ELSE {SubSeq(header, At[i - 1] + 1, At[i] - 1) :
              i \in {k \in 1..header[1].n : IsKey(k) /\ \A j \in 1..k - 1 : ~IsKey(j)}}

\* Deviation: an array of GUIDs matches when its first one does not.
ScopeGuidEndSkipped(s, pos, guid) == Skip(s, pos, 1, Narrow)

\* Where to go on when the guid at pos names the device, and 0 if it does not: for an array
\* right behind the entry that does, whatever entries are left.
ScopeGuidEnd(s, pos, guid) ==
    IF pos \notin DOMAIN s THEN 0
    ELSE IF s[pos].w \notin Narrow THEN 0
    ELSE IF s[pos].m = 2 THEN IF s[pos].text = guid THEN pos + 1 ELSE 0
    ELSE IF s[pos].m = 4
      THEN LET hits == {i \in pos + 1..pos + s[pos].n :
                   /\ i <= Len(s) /\ s[i].text = guid
                   /\ \A k \in pos + 1..i : s[k].m = 2 /\ s[k].w \in Narrow
                   /\ \A k \in pos + 1..i - 1 : s[k].text # guid}
           IN  IF hits = {} THEN 0 ELSE (CHOOSE i \in hits : TRUE) + 1
    ELSE 0

\* Every constraint but guid is refused; a key that is not text is passed over together
\* with its value.
PastConstraint(s, guid) ==
    [p \in 0..Len(s) + 1 |->
        IF p \notin DOMAIN s THEN 0
        ELSE IF s[p].m # 3 THEN Skip(s, p, 2, Narrow)
        ELSE IF s[p].w \in Narrow /\ s[p].text = "guid" THEN ScopeGuidEnd(s, p + 1, guid)
        ELSE 0]

ScopePasses(s, guid) ==
    IF s = <<>> THEN TRUE
    ELSE s[1].m = 5 /\ s[1].w \in Narrow /\ Rounds(PastConstraint(s, guid), 2)[s[1].n] # 0

EvaluateBmoScope(header, guid) ==
    LET generic == ExtractTstrKeyedValue(header, "fdo.scope")
        legacy == ExtractTstrKeyedValue(header, "fdo.bmo.scope")
    IN  /\ generic = {} \/ legacy = {}
        /\ \A s \in generic \cup legacy : ScopePasses(s, guid)

-----------------------------------------------------------------------------
(* What the signer of an artifact meant: entries and constraints by place.  *)

\* The first entry under the label has this text, and the keys before it are integers.
HasText(header, label, text) ==
    LET Key(k) == header[ItemAt(header, 1, 2 * k - 1)]
        Value(k) == header[ItemAt(header, 1, 2 * k)]
        Labelled(k) == Key(k).m = 0 /\ Key(k).n = label
    IN  \E k \in 1..header[1].n :
            /\ Labelled(k) /\ Value(k).m = 3 /\ Value(k).text = text
            /\ \A j \in 1..k - 1 : Key(j).m \in {0, 1} /\ ~Labelled(j)

ScopeLabels == {"fdo.scope", "fdo.bmo.scope"}

\* The entries of the header that are scopes.
ScopesOf(header) ==
    {k \in 1..header[1].n : LET key == header[ItemAt(header, 1, 2 * k - 1)]
                            IN  key.m = 3 /\ key.text \in ScopeLabels}

\* The guid at v names the device: it is the GUID, or one of a list of them.
NamesDevice(s, v, guid) ==
    \/ s[v].m = 2 /\ s[v].text = guid
    \/ /\ s[v].m = 4
       /\ \A k \in 1..s[v].n : s[ItemAt(s, v, k)].m = 2
       /\ \E k \in 1..s[v].n : s[ItemAt(s, v, k)].text = guid

\* The scope at v has nothing but GUIDs in it, and this device's among each of them.
ScopeAllows(s, v, guid) ==
    /\ s[v].m = 5
    /\ \A j \in 1..s[v].n : LET key == s[ItemAt(s, v, 2 * j - 1)]
                            IN  /\ key.m = 3 /\ key.text = "guid"
                                /\ NamesDevice(s, ItemAt(s, v, 2 * j), guid)

Allowed(header, guid) ==
    /\ \A j, k \in ScopesOf(header) : j = k
    /\ \A k \in ScopesOf(header) : ScopeAllows(header, ItemAt(header, 1, 2 * k), guid)

\* A header that cbor_skip can read, with no scope twice and with text for keys in the
\* scopes.
IsReadable(header) ==
    /\ IsItem(header)
    /\ header[1].m = 5
    /\ \A j, k \in ScopesOf(header) :
          header[ItemAt(header, 1, 2 * j - 1)].text = header[ItemAt(header, 1, 2 * k - 1)].text
          => j = k
    /\ \A k \in ScopesOf(header) :
          LET v == ItemAt(header, 1, 2 * k)
          IN  header[v].m = 5 =>
                \A j \in 1..header[v].n : header[ItemAt(header, v, 2 * j - 1)].m = 3

\* In no list of GUIDs does anything follow this one.
IsLastGuid(header, guid) ==
    \A k \in ScopesOf(header) :
        LET v == ItemAt(header, 1, 2 * k)
        IN  header[v].m = 5 =>
              \A j \in 1..header[v].n :
                  LET list == ItemAt(header, v, 2 * j)
                  IN  header[list].m = 4 =>
                        \A i \in 1..header[list].n :
                            i < header[list].n => header[ItemAt(header, list, i)].text # guid
=============================================================================
