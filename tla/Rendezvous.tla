----------------------------- MODULE Rendezvous ------------------------------
(***************************************************************************)
(* RendezvousInfo, which three decoders read: tpm.rs for the server to     *)
(* onboard with, rv_firmware/rv_parse.rs for the server and the minimum    *)
(* revision of a firmware download, and dctpm.rs for the minimum that DI   *)
(* stores. It is an array of directives, each an array of instructions     *)
(* [variable, bstr .cbor value].                                           *)
(***************************************************************************)
EXTENDS Cbor

RvIpAddress == 2
RvDevPort == 3
RvDns == 5
RvProtocol == 12
RvFirmwarePath == 16
RvFirmwareUrl == 17
RvMinFirmwareRev == 18

-----------------------------------------------------------------------------
(* The walk of tpm.rs and of rv_parse.rs. Where something else than the      *)
(* next array turns up each of them has its own way of getting lost; the    *)
(* walk is described as far as they go the same way (IsFollowed, below).     *)

\* Past an item that should have been an array: its first byte is read already, so that the
\* item skipped is the one behind it.
PassOver(s, pos) == Skip(s, pos + 1, 1, Narrow)

\* An instruction with a value; anything else counts as one without. Of an array with more
\* than two items the first two count.
InstructionAt(s, p) ==
    IF p \in DOMAIN s /\ p + 2 \in DOMAIN s /\ s[p].m = 4 /\ s[p].n >= 2 /\ s[p + 2].m = 2
    THEN [var |-> IF s[p + 1].m = 0 THEN s[p + 1].n ELSE 255, value |-> s[p + 2].inner]
    ELSE [var |-> 255, value |-> <<>>]

PastInstruction(s) ==
    [p \in 0..Len(s) + 1 |->
        IF p \notin DOMAIN s THEN p
        ELSE IF s[p].m # 4 THEN PassOver(s, p)
        ELSE IF s[p].n < 2 \/ p + 2 > Len(s) THEN Skip(s, p + 1, s[p].n, Narrow)
        ELSE Skip(s, p + 3, s[p].n - 2, Narrow)]

\* The instructions of the directive at p, and where the walk goes on behind them.
DirectiveAt(s, p) ==
    IF p \notin DOMAIN s THEN <<>>
    ELSE IF s[p].m # 4 THEN <<>>
    ELSE [j \in 1..s[p].n |-> InstructionAt(s, Rounds(PastInstruction(s), p + 1)[j - 1])]

PastDirective(s) ==
    [p \in 0..Len(s) + 1 |->
        IF p \notin DOMAIN s THEN p
        ELSE IF s[p].m # 4 THEN PassOver(s, p)
        ELSE Rounds(PastInstruction(s), p + 1)[s[p].n]]

\* The directives of the RvInfo at start; of one that is wrapped into a byte string, those
\* inside. Otherwise the walk goes over the whole of data, and nothing but its counting
\* keeps it inside the RvInfo.
Directives(data, start) ==
    LET wrapped == data[start].m = 2
        s == IF wrapped THEN data[start].inner ELSE data
        first == IF wrapped THEN 1 ELSE start
    IN  IF s[first].m # 4 THEN <<>>
        ELSE [k \in 1..s[first].n |->
                 DirectiveAt(s, Rounds(PastDirective(s), first + 1)[k - 1])]

-----------------------------------------------------------------------------
(* What the two make of the instructions.                                   *)

\* read_cbor_uint_arg of tpm.rs, and of rv_parse.rs.
ArgWidths(reader) == IF reader = "tpm" THEN {0, 1, 2} ELSE Narrow

\* The head of a value, if it has the major type and a width that can be read.
HeadOf(value, major, widths) ==
    IF value = <<>> THEN {}
    ELSE IF value[1].m = major /\ value[1].w \in widths THEN {value[1]} ELSE {}

Decoded(reader, value, major) == HeadOf(value, major, ArgWidths(reader))

DecodeText(reader, value) == {t.text : t \in Decoded(reader, value, 3)}
\* Addresses have 4, 5 or 16 bytes; one of another length is written as "".
DecodeIp(reader, value) == {t.text : t \in Decoded(reader, value, 2)} \ {""}
DecodeUint(reader, value) == {t.n : t \in Decoded(reader, value, 0)}

\* The match over var_id; variables and protocols are cut to a byte.
Decode(reader, i) ==
    CASE i.var % 256 \in {RvDns, RvFirmwarePath, RvFirmwareUrl} -> DecodeText(reader, i.value)
      [] i.var % 256 = RvIpAddress -> DecodeIp(reader, i.value)
      [] i.var % 256 \in {RvDevPort, RvMinFirmwareRev} -> DecodeUint(reader, i.value)
      [] i.var % 256 = RvProtocol -> {p % 256 : p \in DecodeUint(reader, i.value)} \cap {1, 2}
      [] OTHER -> {}

\* Of what is found at several places, that at the first or the last where there is any.
FirstFound(f) ==
    UNION {f[i] : i \in {j \in DOMAIN f : \A k \in DOMAIN f : k < j => f[k] = {}}}
LastFound(f) ==
    UNION {f[i] : i \in {j \in DOMAIN f : \A k \in DOMAIN f : k > j => f[k] = {}}}

\* The last value of a variable that decodes, if any.
LastOf(reader, d, variable) ==
    LastFound([j \in DOMAIN d |->
        IF d[j].var % 256 = variable THEN Decode(reader, d[j]) ELSE {}])

OrElse(set, default) == IF set = {} THEN default ELSE CHOOSE x \in set : TRUE

\* The server of a directive with a host: its name before its address, port 8080 and http
\* unless told otherwise; ports are cut to two bytes.
Server(reader, d) ==
    LET dns == LastOf(reader, d, RvDns)
    IN  {[host |-> h, port |-> OrElse(LastOf(reader, d, RvDevPort), 8080) % 65536,
          scheme |-> IF LastOf(reader, d, RvProtocol) = {2} THEN "https" ELSE "http"] :
         h \in IF dns # {} THEN dns ELSE LastOf(reader, d, RvIpAddress)}

\* Deviation: a later directive replaces the server.
LastServer(reader, directives) ==
    LastFound([k \in DOMAIN directives |-> Server(reader, directives[k])])

\* The first directive with a host has the word.
FirstServer(reader, directives) ==
    FirstFound([k \in DOMAIN directives |-> Server(reader, directives[k])])

\* parse_rv_info_at of tpm.rs.
ParseRvInfoAt(data, pos) == FirstServer("tpm", Directives(data, pos))

\* parse_rv_firmware_info_at: the extensions of all directives together. There is no
\* result without a server or a URL. Of several URLs it does not matter here which is first.
ParseRvFirmwareInfoAt(data, pos) ==
    LET directives == Directives(data, pos)
        Last(variable) ==
            LastFound([k \in DOMAIN directives |-> LastOf("rv", directives[k], variable)])
        info == [server_url |-> FirstServer("rv", directives),
                 firmware_urls |->
                    UNION {UNION {Decode("rv", d[j]) :
                                  j \in {i \in DOMAIN d : d[i].var % 256 = RvFirmwareUrl}} :
                           d \in {directives[k] : k \in DOMAIN directives}},
                 firmware_path |-> Last(RvFirmwarePath),
                 min_firmware_rev |-> Last(RvMinFirmwareRev)]
    IN  IF info.server_url # {} \/ info.firmware_urls # {} THEN {info} ELSE {}

-----------------------------------------------------------------------------
(* rv_min_firmware_rev of dctpm.rs, which gives up at the first surprise:   *)
(* its position is 0 then.                                                  *)

ScanInstruction(rv) ==
    [p \in 0..Len(rv) + 1 |->
        IF p \notin DOMAIN rv THEN 0
        ELSE IF rv[p].m # 4 \/ rv[p].n = 0 THEN 0
        ELSE Skip(rv, p, 1, Wide)]

ScanDirective(rv) ==
    [p \in 0..Len(rv) + 1 |->
        IF p \notin DOMAIN rv THEN 0
        ELSE IF rv[p].m # 4 THEN 0
        ELSE Rounds(ScanInstruction(rv), p + 1)[rv[p].n]]

\* The revision of the instruction at p, if it names one.
RevAt(rv, p) ==
    IF rv[p].n < 2 THEN {}
    ELSE IF rv[p + 1].m # 0 \/ rv[p + 1].n # RvMinFirmwareRev \/ rv[p + 2].m # 2 THEN {}
    ELSE {t.n : t \in HeadOf(rv[p + 2].inner, 0, Wide)}

\* The revisions an RvInfo names; none if the scan fails.
ScanRevs(rv) ==
    LET At == Rounds(ScanDirective(rv), 2)
    IN  IF rv[1].m # 4 THEN {}
        ELSE IF At[rv[1].n] = 0 THEN {}
        ELSE UNION {UNION {RevAt(rv, Rounds(ScanInstruction(rv), At[k - 1] + 1)[j - 1]) :
                           j \in 1..rv[At[k - 1]].n} : k \in 1..rv[1].n}

Highest(revs) == CHOOSE r \in revs \cup {0} : \A q \in revs : q <= r

RvMinFirmwareRevOf(rv) == Highest(ScanRevs(rv))

-----------------------------------------------------------------------------
(* What an RvInfo means, whoever reads it.                                  *)

RvStream(rv) == IF rv[1].m = 2 THEN rv[1].inner ELSE rv

\* An array of arrays of instructions, each an array with an integer and a byte string.
IsInstruction(s, p) ==
    s[p].m = 4 /\ s[p].n >= 1 /\ s[p + 1].m = 0 /\ (s[p].n >= 2 => s[p + 2].m = 2)
HoldsArrays(s, pos) ==
    /\ s[pos].m = 4
    /\ \A k \in 1..s[pos].n :
          /\ s[ItemAt(s, pos, k)].m = 4
          /\ \A j \in 1..s[ItemAt(s, pos, k)].n :
                IsInstruction(s, ItemAt(s, ItemAt(s, pos, k), j))

\* Its directives, and the instructions in each of them.
Meant(s, pos) ==
    [k \in 1..s[pos].n |->
        [j \in 1..s[ItemAt(s, pos, k)].n |-> InstructionAt(s, ItemAt(s, ItemAt(s, pos, k), j))]]

\* The server of the first directive with a host, and the minimum revisions.
MeantServer(directives) ==
    {h \in UNION {Server("rv", directives[k]) : k \in DOMAIN directives} :
        \E k \in DOMAIN directives :
            /\ h \in Server("rv", directives[k])
            /\ \A i \in 1..k - 1 : Server("rv", directives[i]) = {}}
MeantRevs(directives) ==
    UNION {UNION {{t.n : t \in HeadOf(d[j].value, 0, Wide)} :
                  j \in {i \in DOMAIN d : d[i].var = RvMinFirmwareRev}} :
           d \in {directives[k] : k \in DOMAIN directives}}

\* No host, port or protocol has an argument of four bytes, which only rv_parse.rs can read.
IsShort(s) ==
    \A p \in DOMAIN s :
        LET i == InstructionAt(s, p)
        IN  i.var % 256 \in {RvDns, RvIpAddress, RvDevPort, RvProtocol} /\ i.value # <<>>
            => i.value[1].w # 4

-----------------------------------------------------------------------------
(* What the walks are described for.                                        *)

\* No floats, whose payload tpm.rs passes over twice.
IsDescribed(s) ==
    /\ IsStream(s) /\ s # <<>>
    /\ \A p \in DOMAIN s : IsStream(s[p].inner) /\ (s[p].m = 7 => s[p].w \notin {2, 4, 8})

\* An item that is one byte long, like null.
IsOneByte(t) == t.w = 0 /\ Children(t) = 0 /\ (t.m \in {2, 3} => t.n = 0)

\* A head that all can read, of the major type.
IsRead(t, major) == t.m = major /\ t.w \in ArgWidths("tpm")

\* An item in the place of an array is passed over as in PassOver, because it is one byte
\* long; behind it is something to be skipped.
FollowsArray(s, p) == p \in DOMAIN s /\ (IsRead(s[p], 4) \/ (s[p].m # 4 /\ IsOneByte(s[p])))

\* A variable that is no integer, or a value that is no byte string, takes tpm.rs one byte
\* further, rv_parse.rs to the end of the item, and dctpm.rs, behind a minimum revision,
\* anywhere. A length of four bytes only rv_parse.rs can read.
FollowsInstruction(s, p) ==
    /\ FollowsArray(s, p)
    /\ PastInstruction(s)[p] # 0
    /\ s[p].m = 4 /\ s[p].n >= 1 => IsRead(s[p + 1], 0) \/ (s[p + 1].m # 0 /\ IsOneByte(s[p + 1]))
    /\ s[p].m = 4 /\ s[p].n >= 2 =>
          \/ IsRead(s[p + 2], 2)
          \/ /\ s[p + 2].m # 2 /\ IsOneByte(s[p + 2])
             /\ ~(s[p + 1].m = 0 /\ s[p + 1].n = RvMinFirmwareRev)

\* Wherever the walk from the array at first on comes, all three go the same way, up to the
\* point where dctpm.rs gives up.
IsFollowed(s, first) ==
    s[first].m = 4 =>
        /\ IsRead(s[first], 4)
        /\ \A k \in 1..s[first].n :
              LET p == Rounds(PastDirective(s), first + 1)[k - 1]
              IN  /\ FollowsArray(s, p)
                  /\ PastDirective(s)[p] # 0
                  /\ s[p].m = 4 =>
                        \A j \in 1..s[p].n :
                            FollowsInstruction(s, Rounds(PastInstruction(s), p + 1)[j - 1])
=============================================================================
