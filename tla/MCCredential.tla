---------------------------- MODULE MCCredential -----------------------------
(* RvInfos of one or two directives, with hosts, ports and revisions of       *)
(* several widths, wrapped or with a null in the place of an array; scopes of *)
(* up to two constraints, under either label or both.                         *)
EXTENDS Credential, SequencesExt

Instruction(var, token) == <<Array(2), Uint(var), Wrap(<<token>>)>>
Marker(var) == <<Array(1), Uint(var)>>
DnsIs(host) == Instruction(RvDns, Text(host))
IpIs(host) == Instruction(RvIpAddress, Bytes(host))
PortIs(p) == Instruction(RvDevPort, Uint(p))
Https == Instruction(RvProtocol, Uint(2))
RevIs(n) == Instruction(RvMinFirmwareRev, Uint(n))
Directive(instructions) == <<Array(Len(instructions))>> \o FlattenSeq(instructions)
Url(h, p, s) == {[host |-> h, port |-> p, scheme |-> s]}

RvInfo(directives, server, revs, arrays, short, wrap) ==
    LET rv == <<Array(Len(directives))>> \o FlattenSeq(directives)
    IN  [rv |-> IF wrap THEN <<Wrap(rv)>> ELSE rv, server |-> server, revs |-> revs,
         arrays |-> arrays, short |-> short]

\* RvInfos with what is to be read in them.
RvCases ==
    UNION {{
        RvInfo(<<Directive(<<Marker(0), IpIs("ip"), DnsIs("rv"), PortIs(443), Https>>),
                 Directive(<<DnsIs("other"), RevIs(3)>>)>>,
               Url("rv", 443, "https"), {3}, TRUE, TRUE, wrap),
        RvInfo(<<Directive(<<RevIs(200000), Marker(0)>>),
                 Directive(<<RevIs(1), IpIs(""), IpIs("ip")>>)>>,
               Url("ip", 8080, "http"), {200000, 1}, TRUE, TRUE, wrap),
        RvInfo(<<Directive(<<DnsIs("rv"), PortIs(66000), RevIs(30)>>)>>,
               Url("rv", 464, "http"), {30}, TRUE, FALSE, wrap),
        RvInfo(<<>>, {}, {}, TRUE, TRUE, wrap)} : wrap \in BOOLEAN}
    \cup {
        RvInfo(<<<<Null>>, Directive(<<DnsIs("rv"), RevIs(3)>>)>>,
               {}, {3}, FALSE, TRUE, FALSE),
        RvInfo(<<Directive(<<DnsIs("rv"), <<Null>>, PortIs(443), RevIs(3)>>)>>,
               {}, {3}, FALSE, TRUE, FALSE)}

MCRvInfos == {c.rv : c \in RvCases}

ASSUME RvMeaning ==
    \A c \in RvCases :
        LET s == RvStream(c.rv)
        IN  /\ HoldsArrays(s, 1) = c.arrays
            /\ IsShort(s) = c.short
            /\ c.arrays => /\ MeantServer(Meant(s, 1)) = c.server
                           /\ MeantRevs(Meant(s, 1)) = c.revs

Constraint(key, guids, stream) == [key |-> key, guids |-> guids, stream |-> stream]
GuidArray(guids) ==
    Constraint("guid", guids,
        <<Text("guid"), Array(Len(guids))>> \o [k \in DOMAIN guids |-> Bytes(guids[k])])

Constraints ==
    {Constraint("guid", <<"g1">>, <<Text("guid"), Bytes("g1")>>),
     GuidArray(<<>>), GuidArray(<<"g2", "g1">>), GuidArray(<<"g1", "g2">>),
     Constraint("not_after", <<>>, <<Text("not_after"), Uint(70000)>>),
     Constraint("generation", <<>>, <<Text("generation"), Uint(200000)>>),
     Constraint("7", <<>>, <<Item(0, 0, 7), Null>>)}

ScopeMap(constraints) ==
    <<Map(Len(constraints))>>
    \o FlattenSeq([k \in DOMAIN constraints |-> constraints[k].stream])

\* What stands in front of the scopes: the algorithm and the content type, in either order,
\* with an algorithm of eight bytes or of one, and with the right type or another.
Alg(w) == <<Item(0, 0, 1), Item(1, w, 6)>>
ContentType(type) == <<Item(0, 0, 3), Text(type)>>
Fronts ==
    {Alg(0) \o ContentType("type"), Alg(8) \o ContentType("type"),
     ContentType("type") \o Alg(8), ContentType("other") \o Alg(0)}

Header(front, labels, scope) ==
    <<Map(2 + Len(labels))>> \o front
    \o FlattenSeq([k \in DOMAIN labels |-> <<Text(labels[k])>> \o ScopeMap(scope)])

Labels == {<<>>, <<"fdo.scope">>, <<"fdo.bmo.scope">>, <<"fdo.scope", "fdo.bmo.scope">>}
Scopes == BoundedSeq(Constraints, 2)

MCArtifacts ==
    {Header(front, labels, scope) : front \in Fronts, labels \in Labels, scope \in Scopes}

ASSUME ScopeMeaning ==
    \A front \in Fronts, labels \in Labels, scope \in Scopes, guid \in Guids :
        LET header == Header(front, labels, scope)
        IN  /\ Allowed(header, guid) <=>
                  labels = <<>> \/ (Len(labels) = 1 /\ \A j \in DOMAIN scope :
                      scope[j].key = "guid" /\ guid \in {scope[j].guids[k] : k \in DOMAIN scope[j].guids})
            /\ IsReadable(header) <=>
                  /\ \A p \in DOMAIN header : header[p].w \in Narrow
                  /\ labels # <<>> => \A j \in DOMAIN scope : scope[j].key # "7"
            /\ HasText(header, 3, "type") <=> Text("type") \in {front[p] : p \in DOMAIN front}
=============================================================================
