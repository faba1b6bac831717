------------------------------- MODULE Network -------------------------------
(***************************************************************************)
(* What a request over TCP4 does before it connects: configure the network *)
(* once per boot (ensure_network_configured of src/http_api.rs) and turn   *)
(* the host of its URL into an address (parse_url of src/tcp4_http.rs,     *)
(* dns_resolve and the UDP4 transport of src/dns.rs).                      *)
(*                                                                         *)
(* The firmware's drivers, the network and the DNS server are the          *)
(* environment. The server answers a question with the records of Zone;    *)
(* the answer to any query that was ever sent may arrive at any receive,   *)
(* late, twice, cut off, turned into an error, or not at all. A record     *)
(* carries the name that owns it, which the code never looks at.           *)
(***************************************************************************)
EXTENDS Naturals, Sequences

CONSTANTS
    Names,          \* host names, CNAME targets included
    Literals,       \* hosts that are written as IPv4 addresses
    Zone,           \* name -> the records the DNS server sends for it
    MaxCnameDepth,  \* MAX_CNAME_DEPTH of dns.rs
    MaxCache,       \* MAX_CACHE_ENTRIES of dns.rs
    TxIds,          \* number of transaction ids, 2^16 in dns.rs
    Nics,           \* number of handles with Ip4Config2 and UDP4 ServiceBinding
    MaxRequests     \* bound on the requests of a boot

\* A record is of type A (data: an address), CNAME (data: a name, "bad" if it does not
\* decode) or of a type, class or length that the code passes over.
ASSUME NetworkAssumption ==
    /\ Names \cap Literals = {}
    /\ DOMAIN Zone = Names
    /\ \A n \in Names : Zone[n] \in Seq({Zone[n][i] : i \in DOMAIN Zone[n]})
    /\ \A n \in Names : \A i \in DOMAIN Zone[n] :
          /\ Zone[n][i].type \in {"A", "CNAME", "other"}
          /\ Zone[n][i].type = "CNAME" => Zone[n][i].data \in Names \cup {"bad"}
    /\ {MaxCnameDepth, MaxCache, TxIds} \subseteq Nat \ {0}
    /\ {Nics, MaxRequests} \subseteq Nat

VARIABLES
    pc, requests,
    net_init,       \* TCP4_NET_INIT
    dhcp,           \* DHCP_SUCCEEDED
    dns_server,     \* DNS_SERVER: the NIC whose setting it is, if any
    cache,          \* DNS_CACHE
    next_id,        \* DNS_TX_ID
    nic,            \* the handle at hand, of Ip4Config2 or of UDP4
    hostname,       \* the host of the request
    current_name, depth, tx_id,
    children,       \* UDP4 child handles that were not destroyed
    result,         \* the address the host was resolved to, if any
    \* Histories.
    sent,           \* the queries the DNS server has received
    ids             \* the ids that were given out, counted up to TxIds + 1

config == <<net_init, dhcp, dns_server>>
numbering == <<next_id, ids>>
chase == <<current_name, depth, tx_id>>
vars == <<pc, requests, config, cache, numbering, nic, hostname, chase, children, result, sent>>

Init ==
    /\ pc = "idle" /\ requests = 0
    /\ net_init = FALSE /\ dhcp = FALSE /\ dns_server = {}
    /\ cache = <<>>
    /\ next_id = 1 % TxIds
    /\ nic = 1
    /\ hostname \in Names \cup Literals
    /\ current_name = hostname /\ depth = 0 /\ tx_id = 0
    /\ children = 0
    /\ result = {}
    /\ sent = {}
    /\ ids = 0

-----------------------------------------------------------------------------
(* ensure_network_configured.                                               *)

\* tcp4_http_post or tcp4_http_get is called with a URL of host h.
Request(h) ==
    /\ pc = "idle"
    /\ requests < MaxRequests
    /\ requests' = requests + 1
    /\ hostname' = h
    /\ result' = {}
    /\ nic' = 1
    /\ pc' = IF net_init THEN "resolve" ELSE "configure"
    /\ UNCHANGED <<config, cache, numbering, chase, children, sent>>

\* A handle that does not open, a NIC without link, or DHCP that fails on it.
NicFails ==
    /\ pc = "configure"
    /\ nic <= Nics
    /\ nic' = nic + 1
    /\ UNCHANGED <<pc, requests, config, cache, numbering, hostname, chase, children, result, sent>>

\* discover_dns_server: the first handle with a DNS server set, which need not be the one
\* that has just been configured.
DiscoverDnsServer(with_server) ==
    IF with_server = {} THEN dns_server
    ELSE {CHOOSE i \in with_server : \A j \in with_server : i <= j}

DhcpSucceeds ==
    /\ pc = "configure"
    /\ nic <= Nics
    /\ dhcp' = TRUE
    /\ \E with_server \in SUBSET (1..Nics) : dns_server' = DiscoverDnsServer(with_server)
    /\ net_init' = TRUE
    /\ pc' = "resolve"
    /\ UNCHANGED <<requests, cache, numbering, nic, hostname, chase, children, result, sent>>

\* The network counts as configured even when no NIC could be.
NoNicLeft ==
    /\ pc = "configure"
    /\ nic > Nics
    /\ net_init' = TRUE
    /\ pc' = "resolve"
    /\ UNCHANGED <<requests, dhcp, dns_server, cache, numbering, nic, hostname, chase, children,
                   result, sent>>

-----------------------------------------------------------------------------
(* dns_resolve.                                                             *)

Cached(h) == {i \in DOMAIN cache : cache[i].hostname = h}

Return(addr) ==
    /\ pc' = "idle"
    /\ result' = addr

\* A literal address, a cached name, or no DNS server to ask.
ResolveLocally ==
    /\ pc = "resolve"
    /\ \/ hostname \in Literals /\ Return({hostname})
       \/ /\ hostname \in Names
          /\ \E i \in Cached(hostname) :
                /\ \A j \in Cached(hostname) : i <= j
                /\ Return({cache[i].ip})
       \/ hostname \in Names /\ Cached(hostname) = {} /\ dns_server = {} /\ Return({})
    /\ UNCHANGED <<requests, config, cache, numbering, nic, hostname, chase, children, sent>>

StartChase ==
    /\ pc = "resolve"
    /\ hostname \in Names
    /\ Cached(hostname) = {}
    /\ dns_server # {}
    /\ current_name' = hostname
    /\ depth' = 0
    /\ pc' = "query"
    /\ UNCHANGED <<requests, config, cache, numbering, nic, hostname, tx_id, children, result, sent>>

\* The next query of the chase; there is none after MaxCnameDepth of them.
Query ==
    /\ pc = "query"
    /\ IF depth < MaxCnameDepth
         THEN /\ tx_id' = next_id
              /\ next_id' = (next_id + 1) % TxIds
              /\ ids' = IF ids <= TxIds THEN ids + 1 ELSE ids
              /\ nic' = 1
              /\ pc' = "udp"
              /\ UNCHANGED result
         ELSE /\ Return({})
              /\ UNCHANGED <<tx_id, numbering, nic>>
    /\ UNCHANGED <<requests, config, cache, hostname, current_name, depth, children, sent>>

-----------------------------------------------------------------------------
(* udp4_dns_query: the query goes out over one handle after another until a *)
(* response of any kind comes back.                                         *)

AllHandlesFailed ==
    /\ pc = "udp"
    /\ nic > Nics
    /\ Return({})
    /\ UNCHANGED <<requests, config, cache, numbering, nic, hostname, chase, children, sent>>

NextHandle == nic' = nic + 1 /\ pc' = "udp"

\* The ServiceBinding does not open or gives no child.
NoChild ==
    /\ pc = "udp"
    /\ nic <= Nics
    /\ NextHandle
    /\ UNCHANGED <<requests, config, cache, numbering, hostname, chase, children, result, sent>>

CreateChild ==
    /\ pc = "udp"
    /\ nic <= Nics
    /\ children' = children + 1
    /\ pc' = "transmit"
    /\ UNCHANGED <<requests, config, cache, numbering, nic, hostname, chase, result, sent>>

\* Deviation: the child stays.
DestroyChildLeak == UNCHANGED children

DestroyChild == children' = children - 1

ServerReceives == sent' = sent \cup {[id |-> tx_id, question |-> current_name]}

\* Opening, configuring, an event or Transmit fails, or Transmit does not complete in its
\* hundred polls, in which case the query may have gone out.
TransmitFails ==
    /\ pc = "transmit"
    /\ DestroyChild
    /\ NextHandle
    /\ UNCHANGED sent \/ ServerReceives
    /\ UNCHANGED <<requests, config, cache, numbering, hostname, chase, result>>

Transmit ==
    /\ pc = "transmit"
    /\ pc' = "receive"
    /\ UNCHANGED sent \/ ServerReceives
    /\ UNCHANGED <<requests, config, cache, numbering, nic, hostname, chase, children, result>>

\* Receive is refused, fails, times out and is cancelled, or brings a packet of a length that
\* is not taken.
ReceiveFails ==
    /\ pc = "receive"
    /\ DestroyChild
    /\ NextHandle
    /\ UNCHANGED <<requests, config, cache, numbering, hostname, chase, result, sent>>

\* Deviation: any response is taken for the answer.
IsAnswerAnyId(m, id) == m.ok

IsAnswer(m, id) == m.id = id /\ m.ok

\* The first record of that type; what is passed over on the way does not matter.
FirstOf(records, type) ==
    LET found == {i \in DOMAIN records : records[i].type = type}
    IN  IF found = {} THEN {}
        ELSE {records[CHOOSE i \in found : \A j \in found : i <= j].data}

ParseDnsResponse(m, id) == IF IsAnswer(m, id) THEN FirstOf(m.records, "A") ELSE {}

ExtractCnameTarget(m, id) ==
    IF IsAnswer(m, id) THEN FirstOf(m.records, "CNAME") \ {"bad"} ELSE {}

\* Deviation: the entry is kept under the name of the last query.
CacheUnderCurrentName(addr) ==
    cache' = Append(IF Len(cache) >= MaxCache THEN Tail(cache) ELSE cache,
                    [hostname |-> current_name, ip |-> addr])

CacheResult(addr) ==
    cache' = Append(IF Len(cache) >= MaxCache THEN Tail(cache) ELSE cache,
                    [hostname |-> hostname, ip |-> addr])

\* Deviation: the queries of a chase are not counted.
FollowForever(target) ==
    /\ current_name' = target
    /\ depth' = depth
    /\ pc' = "query"

Follow(target) ==
    /\ current_name' = target
    /\ depth' = depth + 1
    /\ pc' = "query"

\* What the receive may bring: the records for a query the server got, all or the first
\* few of them, or the same with an error code or without the response flag.
Responses ==
    UNION {{[id |-> q.id, ok |-> ok, records |-> SubSeq(Zone[q.question], 1, n)] :
               n \in 0..Len(Zone[q.question]), ok \in BOOLEAN} : q \in sent}

\* An A record ends the chase, else a CNAME continues it, else the name is given up: there
\* is no second receive, and no query over the remaining handles.
Receive(m) ==
    /\ pc = "receive"
    /\ DestroyChild
    /\ LET addr == ParseDnsResponse(m, tx_id)
           target == ExtractCnameTarget(m, tx_id)
       IN  \/ /\ addr # {}
              /\ Return(addr)
              /\ \A a \in addr : CacheResult(a)
              /\ UNCHANGED <<current_name, depth>>
           \/ /\ addr = {}
              /\ \E t \in target : Follow(t)
              /\ UNCHANGED <<cache, result>>
           \/ /\ addr = {} /\ target = {}
              /\ Return({})
              /\ UNCHANGED <<cache, current_name, depth>>
    /\ UNCHANGED <<requests, config, numbering, nic, hostname, tx_id, sent>>

-----------------------------------------------------------------------------

Step ==
    \/ NicFails \/ DhcpSucceeds \/ NoNicLeft
    \/ ResolveLocally \/ StartChase \/ Query
    \/ AllHandlesFailed \/ NoChild \/ CreateChild
    \/ TransmitFails \/ Transmit
    \/ ReceiveFails
    \/ \E m \in Responses : Receive(m)

Next == Step \/ \E h \in Names \cup Literals : Request(h)

\* Every poll loop is bounded, so a request that was made goes on. Nothing says that there
\* is another request.
Spec == Init /\ [][Next]_vars /\ WF_vars(Step)

-----------------------------------------------------------------------------
(* Properties.                                                              *)

TypeOK ==
    /\ pc \in {"idle", "configure", "resolve", "query", "udp", "transmit", "receive"}
    /\ requests \in 0..MaxRequests
    /\ net_init \in BOOLEAN /\ dhcp \in BOOLEAN
    /\ dns_server \in {{}} \cup {{i} : i \in 1..Nics}
    /\ DOMAIN cache = 1..Len(cache)
    /\ \A i \in DOMAIN cache : cache[i].hostname \in Names
    /\ next_id \in 0..TxIds - 1 /\ tx_id \in 0..TxIds - 1
    /\ nic \in 1..Nics + 1
    /\ hostname \in Names \cup Literals
    /\ current_name \in Names \cup Literals
    /\ depth \in 0..MaxCnameDepth
    /\ children \in Nat
    /\ ids \in 0..TxIds + 1
    /\ sent \subseteq [id : 0..TxIds - 1, question : Names]

Records == UNION {{Zone[n][i] : i \in DOMAIN Zone[n]} : n \in Names}

\* No CNAME record of a name in S leads out of S.
Closed(S) ==
    \A c \in Records : c.type = "CNAME" /\ c.data # "bad" /\ c.owner \in S => c.data \in S

\* The names that h leads to over CNAME records, by the owners of the records.
Leads ==
    [h \in Names |-> {n \in Names : \A S \in SUBSET Names : h \in S /\ Closed(S) => n \in S}]

Addresses(h) ==
    IF h \in Literals THEN {h}
    ELSE {r.data : r \in {c \in Records : c.type = "A" /\ c.owner \in Leads[h]}}

\* A server that answers a question with records of the chain of that name only.
ZoneOfChains ==
    \A n \in Names : \A i \in DOMAIN Zone[n] : Zone[n][i].owner \in Leads[n]

\* A host is resolved, for the request and in the cache, to an address that its own chain of
\* records ends in: an answer to an earlier query, or to an earlier link of the chain, that
\* comes late is not taken for the answer (dns.rs checks nothing of a response but its id:
\* not its question, not the owners of its records). It rests on a server that answers
\* what it is asked, and on the sixteen bits of the id: it may fail once more queries were
\* made in a boot than there are ids.
AnswerBelongs ==
    ZoneOfChains /\ ids <= TxIds =>
        /\ pc = "idle" => result \subseteq Addresses(hostname)
        /\ \A i \in DOMAIN cache : cache[i].ip \in Addresses(cache[i].hostname)

\* The cache never holds two answers for a host, so that the first one found is the only
\* one, and never outgrows its bound, however chases, failures and evictions interleave.
CacheSound ==
    /\ Len(cache) <= MaxCache
    /\ \A i, j \in DOMAIN cache : cache[i].hostname = cache[j].hostname => i = j

\* Whichever of the ways out of udp4_dns_query_on_handle is taken, the UDP4 child it
\* created is destroyed, so that between queries there is none.
UdpChildReleased == children = IF pc \in {"transmit", "receive"} THEN 1 ELSE 0

\* Whatever the server answers, a loop of CNAME records included, and on however many
\* NICs it stays silent, the request gets an address or none.
ResolveEnds == pc # "idle" ~> pc = "idle"
=============================================================================
