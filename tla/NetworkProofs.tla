---------------------------- MODULE NetworkProofs ----------------------------
(***************************************************************************)
(* Proofs about module Network, for any names, any zone the DNS server may *)
(* answer from, any number of NICs, requests and transaction ids.          *)
(***************************************************************************)
EXTENDS Network, WellFoundedInduction, NaturalsInduction, SequenceTheorems, TLAPS

-----------------------------------------------------------------------------
(* Numbers                                                                  *)

LessThan == {p \in Nat \X Nat : p[1] < p[2]}

\* A set of naturals that is not empty has a least element, so that the first handle,
\* record or cache entry of a kind exists if there is one.
LEMMA LeastNat ==
    ASSUME NEW T \in SUBSET Nat, T # {}
    PROVE  \E x \in T : \A y \in T : x <= y
  <1>1. IsWellFoundedOn(LessThan, Nat)
    BY NatLessThanWellFounded DEF OpToRel, LessThan
  <1>2. PICK x \in T : \A y \in T : ~(<<y, x>> \in LessThan)
    BY <1>1, WFMin
  <1>3. \A a, b \in Nat : ~(<<b, a>> \in LessThan) => a <= b
    BY DEF LessThan
  <1>4. QED  BY <1>2, <1>3

\* A remainder, as far as the ids of one round of TxIds go.
LEMMA Remainder ==
    ASSUME NEW x \in Nat, NEW y \in Nat \ {0}, x <= y
    PROVE  x % y = IF x < y THEN x ELSE 0
  OBVIOUS

LEMMA RemainderType ==
    ASSUME NEW x \in Nat, NEW y \in Nat \ {0}
    PROVE  x % y \in 0..(y - 1)
  OBVIOUS

-----------------------------------------------------------------------------
(* Records and responses                                                    *)

\* parse_dns_response and extract_cname_target return the data of a record of that type.
LEMMA FirstOfIsARecord ==
    ASSUME NEW records, DOMAIN records \subseteq Nat, NEW type
    PROVE  /\ \A d \in FirstOf(records, type) : \E i \in DOMAIN records :
                 records[i].type = type /\ records[i].data = d
           /\ \A d, e \in FirstOf(records, type) : d = e
  <1> DEFINE found == {i \in DOMAIN records : records[i].type = type}
             first == CHOOSE i \in found : \A j \in found : i <= j
  <1>1. CASE found = {}
    BY <1>1 DEF FirstOf
  <1>2. CASE found # {}
    <2>1. found \in SUBSET Nat
      OBVIOUS
    <2>2. \E i \in found : \A j \in found : i <= j
      <3> HIDE DEF found
      <3>1. QED  BY <1>2, <2>1, LeastNat
    <2>3. first \in found
      <3> HIDE DEF found
      <3>1. QED  BY <2>2
    <2>4. FirstOf(records, type) = {records[first].data}
      BY <1>2 DEF FirstOf
    <2> HIDE DEF first
    <2>5. QED  BY <2>3, <2>4
  <1>3. QED  BY <1>1, <1>2

\* What a receive brings are records the server keeps for a question it got.
LEMMA ResponseOfZone ==
    ASSUME sent \subseteq [id : 0..TxIds - 1, question : Names], NEW m \in Responses
    PROVE  \E q \in sent :
              /\ m.id = q.id
              /\ q.question \in Names
              /\ DOMAIN m.records \subseteq Nat
              /\ \A i \in DOMAIN m.records :
                    i \in DOMAIN Zone[q.question] /\ m.records[i] = Zone[q.question][i]
  <1>1. PICK q \in sent : \E n \in 0..Len(Zone[q.question]), ok \in BOOLEAN :
           m = [id |-> q.id, ok |-> ok, records |-> SubSeq(Zone[q.question], 1, n)]
    BY DEF Responses
  <1>2. PICK n \in 0..Len(Zone[q.question]) : \E ok \in BOOLEAN :
           m = [id |-> q.id, ok |-> ok, records |-> SubSeq(Zone[q.question], 1, n)]
    BY <1>1
  <1>3. m.id = q.id /\ m.records = SubSeq(Zone[q.question], 1, n) /\ q.question \in Names
    BY <1>2
  <1> DEFINE z == Zone[q.question]
             R == {z[i] : i \in DOMAIN z}
  <1>4. z \in Seq(R)
    BY <1>3, NetworkAssumption
  <1> HIDE DEF z, R
  <1>5. Len(z) \in Nat /\ DOMAIN z = 1..Len(z) /\ \A i \in 1..Len(z) : z[i] \in R
    BY <1>4
  <1>6. n \in 0..Len(z) /\ m.records = SubSeq(z, 1, n)
    BY <1>2, <1>3 DEF z
  <1>7. \A i \in 1..n : z[i] \in R
    BY <1>5, <1>6
  <1>8. /\ SubSeq(z, 1, n) \in Seq(R)
        /\ Len(SubSeq(z, 1, n)) = (IF 1 <= n THEN n - 1 + 1 ELSE 0)
        /\ \A i \in 1..(n - 1 + 1) : SubSeq(z, 1, n)[i] = z[1 + i - 1]
    <2>1. 1 \in Int /\ n \in Int
      BY <1>5, <1>6
    <2>2. QED  BY <1>7, <2>1, SubSeqProperties
  <1>9. Len(m.records) = n /\ DOMAIN m.records = 1..n
    BY <1>5, <1>6, <1>8
  <1>10. ASSUME NEW i \in 1..n PROVE i \in DOMAIN z /\ m.records[i] = z[i]
    <2>1. i \in 1..(n - 1 + 1) /\ 1 + i - 1 = i /\ i \in 1..Len(z)
      BY <1>5, <1>6
    <2>2. QED  BY <1>5, <1>6, <1>8, <2>1
  <1>11. QED  BY <1>3, <1>5, <1>6, <1>9, <1>10 DEF z

\* A name leads to what the records of its chain name.
LEMMA LeadsSelf ==
    ASSUME NEW h \in Names
    PROVE  h \in Leads[h]
  BY DEF Leads

LEMMA LeadsFollows ==
    ASSUME NEW h \in Names, NEW c \in Records, c.type = "CNAME", c.data # "bad",
           c.owner \in Leads[h]
    PROVE  c.data \in Leads[h]
  <1>1. c.data \in Names
    BY NetworkAssumption DEF Records
  <1>2. ASSUME NEW S \in SUBSET Names, h \in S, Closed(S) PROVE c.data \in S
    <2>1. c.owner \in S
      BY <1>2 DEF Leads
    <2>2. QED  BY <1>2, <2>1 DEF Closed
  <1>3. QED  BY <1>1, <1>2 DEF Leads

LEMMA LeadsTransitive ==
    ASSUME NEW h \in Names, NEW n \in Leads[h]
    PROVE  n \in Names /\ Leads[n] \subseteq Leads[h]
  <1>1. n \in Names
    BY DEF Leads
  <1>2. ASSUME NEW m \in Leads[n] PROVE m \in Leads[h]
    <2>1. m \in Names
      BY <1>1 DEF Leads
    <2>2. ASSUME NEW S \in SUBSET Names, h \in S, Closed(S) PROVE m \in S
      <3>1. n \in S
        BY <2>2 DEF Leads
      <3>2. QED  BY <1>1, <2>2, <3>1 DEF Leads
    <2>3. QED  BY <2>1, <2>2 DEF Leads
  <1>3. QED  BY <1>1, <1>2

-----------------------------------------------------------------------------
(* The inductive invariant                                                  *)

Chasing == {"query", "udp", "transmit", "receive"}
InFlight == {"udp", "transmit", "receive"}

\* During a chase the host is a name that is not in the cache, and there is a query left.
ChaseInv ==
    /\ pc \in Chasing => hostname \in Names /\ current_name \in Names /\ Cached(hostname) = {}
    /\ pc \in InFlight => depth < MaxCnameDepth
    /\ pc \in {"transmit", "receive"} => nic <= Nics

Entries == [hostname : Names, ip : {r.data : r \in Records}]

CacheInv == cache \in Seq(Entries) /\ CacheSound

\* The k-th id given out in a boot, for k up to TxIds.
IdOf(k) == IF k < TxIds THEN k ELSE 0

\* Until the ids wrap, the id of the query in flight is that of no earlier query.
IdInv ==
    ids <= TxIds =>
        /\ ids < TxIds => next_id = IdOf(ids + 1)
        /\ \A q \in sent : \E k \in 1..ids : q.id = IdOf(k)
        /\ pc \in InFlight => /\ ids >= 1
                              /\ tx_id = IdOf(ids)
                              /\ \A q \in sent : q.id = tx_id => q.question = current_name

\* The chase has not left the chain of the host.
ChainInv ==
    ZoneOfChains /\ ids <= TxIds /\ pc \in Chasing => current_name \in Leads[hostname]

IInv == TypeOK /\ ChaseInv /\ CacheInv /\ UdpChildReleased /\ IdInv /\ ChainInv /\ AnswerBelongs

LEMMA InitInv == Init => IInv
  <1> SUFFICES ASSUME Init PROVE IInv
    OBVIOUS
  <1>1. TxIds \in Nat \ {0} /\ MaxCnameDepth \in Nat /\ MaxCache \in Nat
        /\ Nics \in Nat /\ MaxRequests \in Nat
    BY NetworkAssumption
  <1>2. next_id \in 0..(TxIds - 1) /\ next_id = IdOf(1)
    <2>1. next_id = 1 % TxIds /\ 1 \in Nat /\ 1 <= TxIds
      BY <1>1 DEF Init
    <2>2. 1 % TxIds \in 0..(TxIds - 1) /\ 1 % TxIds = IF 1 < TxIds THEN 1 ELSE 0
      BY <1>1, <2>1, RemainderType, Remainder
    <2>3. QED  BY <2>1, <2>2 DEF IdOf
  <1>3. TypeOK
    <2>1. cache = <<>> /\ DOMAIN cache = 1..Len(cache) /\ DOMAIN cache = {}
      BY DEF Init
    <2>2. nic \in 1..Nics + 1 /\ tx_id \in 0..TxIds - 1 /\ ids \in 0..TxIds + 1
          /\ depth \in 0..MaxCnameDepth /\ requests \in 0..MaxRequests
      BY <1>1 DEF Init
    <2>3. QED  BY <1>2, <2>1, <2>2 DEF Init, TypeOK
  <1>4. ChaseInv /\ UdpChildReleased /\ ChainInv
    BY DEF Init, ChaseInv, Chasing, InFlight, UdpChildReleased, ChainInv
  <1>5. CacheInv
    BY <1>1 DEF Init, CacheInv, CacheSound
  <1>6. IdInv
    BY <1>2 DEF Init, IdInv, InFlight
  <1>7. AnswerBelongs
    BY DEF Init, AnswerBelongs
  <1>8. QED  BY <1>3, <1>4, <1>5, <1>6, <1>7 DEF IInv

-----------------------------------------------------------------------------
(* Every step keeps it                                                      *)

LEMMA Consts ==
    /\ TxIds \in Nat \ {0} /\ MaxCnameDepth \in Nat \ {0} /\ MaxCache \in Nat \ {0}
    /\ Nics \in Nat /\ MaxRequests \in Nat
    /\ Names \cap Literals = {}
  BY NetworkAssumption

\* discover_dns_server returns a handle there is.
LEMMA DiscoverType ==
    ASSUME dns_server \in {{}} \cup {{i} : i \in 1..Nics}, NEW with_server \in SUBSET (1..Nics)
    PROVE  DiscoverDnsServer(with_server) \in {{}} \cup {{i} : i \in 1..Nics}
  <1>1. CASE with_server = {}
    BY <1>1 DEF DiscoverDnsServer
  <1>2. CASE with_server # {}
    <2>1. with_server \in SUBSET Nat
      OBVIOUS
    <2>2. \E i \in with_server : \A j \in with_server : i <= j
      BY <1>2, <2>1, LeastNat
    <2>3. (CHOOSE i \in with_server : \A j \in with_server : i <= j) \in with_server
      BY <2>2
    <2>4. QED  BY <1>2, <2>3 DEF DiscoverDnsServer
  <1>3. QED  BY <1>1, <1>2

\* The target of a CNAME that is followed is a name.
LEMMA TargetIsName ==
    ASSUME TypeOK, NEW m \in Responses, NEW t \in ExtractCnameTarget(m, tx_id)
    PROVE  t \in Names
  <1>1. t \in FirstOf(m.records, "CNAME") /\ t # "bad"
    BY DEF ExtractCnameTarget
  <1>2. PICK q \in sent :
              /\ q.question \in Names
              /\ DOMAIN m.records \subseteq Nat
              /\ \A i \in DOMAIN m.records :
                    i \in DOMAIN Zone[q.question] /\ m.records[i] = Zone[q.question][i]
    BY ResponseOfZone DEF TypeOK
  <1>3. PICK i \in DOMAIN m.records : m.records[i].type = "CNAME" /\ m.records[i].data = t
    BY <1>1, <1>2, FirstOfIsARecord
  <1>4. QED  BY <1>1, <1>2, <1>3, NetworkAssumption

\* The address of an A record that is taken.
LEMMA AddressIsData ==
    ASSUME TypeOK, NEW m \in Responses, NEW a \in ParseDnsResponse(m, tx_id)
    PROVE  a \in {r.data : r \in Records}
  <1>1. a \in FirstOf(m.records, "A")
    BY DEF ParseDnsResponse
  <1>2. PICK q \in sent :
              /\ q.question \in Names
              /\ DOMAIN m.records \subseteq Nat
              /\ \A i \in DOMAIN m.records :
                    i \in DOMAIN Zone[q.question] /\ m.records[i] = Zone[q.question][i]
    BY ResponseOfZone DEF TypeOK
  <1>3. PICK i \in DOMAIN m.records : m.records[i].type = "A" /\ m.records[i].data = a
    BY <1>1, <1>2, FirstOfIsARecord
  <1>4. Zone[q.question][i] \in Records
    BY <1>2, <1>3 DEF Records
  <1>5. QED  BY <1>2, <1>3, <1>4

\* What is put in the cache is put behind what is left of it.
LEMMA CacheGrows ==
    ASSUME CacheInv, hostname \in Names, Cached(hostname) = {},
           NEW a \in {r.data : r \in Records}, CacheResult(a)
    PROVE  /\ CacheInv'
           /\ \A i \in DOMAIN cache' :
                 cache'[i] = [hostname |-> hostname, ip |-> a] \/ \E j \in DOMAIN cache : cache'[i] = cache[j]
  <1> DEFINE e == [hostname |-> hostname, ip |-> a]
  <1>1. e \in Entries /\ e.hostname = hostname
    BY DEF Entries
  <1> HIDE DEF e
  <1>2. /\ cache \in Seq(Entries) /\ Len(cache) \in Nat /\ Len(cache) <= MaxCache
        /\ MaxCache \in Nat \ {0} /\ DOMAIN cache = 1..Len(cache)
        /\ \A i, j \in 1..Len(cache) : cache[i].hostname = cache[j].hostname => i = j
        /\ \A i \in 1..Len(cache) : cache[i].hostname # hostname
    BY Consts DEF CacheInv, CacheSound, Cached
  <1>3. PICK kept \in Seq(Entries), d \in {0, 1} :
           /\ cache' = Append(kept, e)
           /\ Len(kept) = Len(cache) - d /\ Len(kept) < MaxCache
           /\ \A i \in 1..Len(kept) : kept[i] = cache[i + d]
    <2>1. CASE Len(cache) >= MaxCache
      <3>1. cache # <<>> /\ cache' = Append(Tail(cache), e)
        BY <1>2, <2>1 DEF CacheResult, e
      <3>2. /\ Tail(cache) \in Seq(Entries) /\ Len(Tail(cache)) = Len(cache) - 1
            /\ \A i \in 1..Len(Tail(cache)) : Tail(cache)[i] = cache[i + 1]
        BY <1>2, <3>1, HeadTailProperties
      <3>3. Len(Tail(cache)) < MaxCache
        BY <1>2, <3>2
      <3>4. QED  BY <3>1, <3>2, <3>3
    <2>2. CASE ~(Len(cache) >= MaxCache)
      <3>1. cache' = Append(cache, e)
        BY <2>2 DEF CacheResult, e
      <3>2. /\ Len(cache) = Len(cache) - 0 /\ Len(cache) < MaxCache
            /\ \A i \in 1..Len(cache) : cache[i] = cache[i + 0]
        BY <1>2, <2>2
      <3>3. QED  BY <1>2, <3>1, <3>2
    <2>3. QED  BY <2>1, <2>2
  <1>4. Len(kept) \in Nat /\ \A i \in 1..Len(kept) : i + d \in 1..Len(cache)
    BY <1>2, <1>3
  <1>5. /\ cache' \in Seq(Entries) /\ Len(cache') = Len(kept) + 1
        /\ DOMAIN cache' = 1..(Len(kept) + 1)
        /\ cache'[Len(kept) + 1] = e
        /\ \A i \in 1..Len(kept) : cache'[i] = kept[i]
    BY <1>1, <1>3
  <1>6. \A i \in 1..(Len(kept) + 1) : i = Len(kept) + 1 \/ i \in 1..Len(kept)
    BY <1>4
  <1>7. \A i \in 1..Len(kept) : cache'[i] = cache[i + d]
    BY <1>3, <1>5
  <1>8. Len(cache') <= MaxCache
    BY <1>2, <1>3, <1>4, <1>5
  <1>9. ASSUME NEW i \in DOMAIN cache', NEW j \in DOMAIN cache',
               cache'[i].hostname = cache'[j].hostname
        PROVE  i = j
    <2>1. CASE i \in 1..Len(kept) /\ j \in 1..Len(kept)
      <3>1. i + d \in 1..Len(cache) /\ j + d \in 1..Len(cache)
        BY <2>1, <1>4
      <3>2. cache[i + d].hostname = cache[j + d].hostname
        BY <2>1, <1>7, <1>9
      <3>3. i + d = j + d
        BY <3>1, <3>2, <1>2
      <3>4. QED  BY <2>1, <3>3, <1>4
    <2>2. CASE i \in 1..Len(kept) /\ j = Len(kept) + 1
      BY <2>2, <1>1, <1>2, <1>4, <1>5, <1>7, <1>9
    <2>3. CASE j \in 1..Len(kept) /\ i = Len(kept) + 1
      BY <2>3, <1>1, <1>2, <1>4, <1>5, <1>7, <1>9
    <2>4. QED  BY <2>1, <2>2, <2>3, <1>5, <1>6
  <1>10. \A i \in DOMAIN cache' : cache'[i] = e \/ \E j \in DOMAIN cache : cache'[i] = cache[j]
    BY <1>2, <1>4, <1>5, <1>6, <1>7
  <1>11. QED  BY <1>5, <1>8, <1>9, <1>10 DEF CacheInv, CacheSound, e

\* The cache and the addresses in it stay.
LEMMA CacheKept ==
    ASSUME IInv, UNCHANGED cache
    PROVE  /\ CacheInv' /\ DOMAIN cache' = 1..Len(cache')
           /\ \A i \in DOMAIN cache' : cache'[i].hostname \in Names
  BY DEF IInv, CacheInv, CacheSound, TypeOK

\* Up to the chase nothing is asked and nothing is kept.
LEMMA BeforeStep ==
    ASSUME IInv,
           \/ \E h \in Names \cup Literals : Request(h)
           \/ NicFails \/ DhcpSucceeds \/ NoNicLeft \/ ResolveLocally
    PROVE  IInv'
  <1>1. /\ UNCHANGED <<cache, numbering, chase, children, sent>>
        /\ pc \notin Chasing /\ pc' \in {"idle", "configure", "resolve"}
    BY DEF Request, NicFails, DhcpSucceeds, NoNicLeft, ResolveLocally, Return, Chasing
  <1>2. /\ hostname' \in Names \cup Literals
        /\ nic' \in 1..Nics + 1
        /\ requests' \in 0..MaxRequests
    <2>1. nic \in 1..Nics + 1 /\ requests \in 0..MaxRequests /\ hostname \in Names \cup Literals
      BY DEF IInv, TypeOK
    <2>2. CASE \E h \in Names \cup Literals : Request(h)
      BY <2>1, <2>2, Consts DEF Request
    <2>3. CASE NicFails \/ DhcpSucceeds \/ NoNicLeft \/ ResolveLocally
      BY <2>1, <2>3, Consts DEF NicFails, DhcpSucceeds, NoNicLeft, ResolveLocally
    <2>4. QED  BY <2>2, <2>3
  <1>3. /\ net_init' \in BOOLEAN /\ dhcp' \in BOOLEAN
        /\ dns_server' \in {{}} \cup {{i} : i \in 1..Nics}
    BY DiscoverType DEF IInv, TypeOK, Request, NicFails, DhcpSucceeds, NoNicLeft, ResolveLocally,
                        config
  <1>4. CacheInv' /\ DOMAIN cache' = 1..Len(cache')
        /\ \A i \in DOMAIN cache' : cache'[i].hostname \in Names
    BY <1>1, CacheKept
  <1>5. TypeOK'
    BY <1>1, <1>2, <1>3, <1>4 DEF IInv, TypeOK, numbering, chase
  <1>6. ChaseInv' /\ UdpChildReleased' /\ ChainInv'
    BY <1>1 DEF IInv, ChaseInv, UdpChildReleased, ChainInv, Chasing, InFlight
  <1>7. IdInv'
    BY <1>1 DEF IInv, IdInv, InFlight, numbering, chase
  <1>8. AnswerBelongs'
    <2>1. SUFFICES ASSUME ZoneOfChains, ids <= TxIds
                   PROVE  /\ pc' = "idle" => result' \subseteq Addresses(hostname')
                          /\ \A i \in DOMAIN cache' : cache'[i].ip \in Addresses(cache'[i].hostname)
      BY <1>1 DEF AnswerBelongs, numbering
    <2>2. \A i \in DOMAIN cache : cache[i].ip \in Addresses(cache[i].hostname)
      BY <2>1 DEF IInv, AnswerBelongs
    <2>3. ASSUME pc' = "idle" PROVE ResolveLocally
      BY <2>3 DEF Request, NicFails, DhcpSucceeds, NoNicLeft
    <2>4. ASSUME ResolveLocally PROVE result' \subseteq Addresses(hostname')
      <3>1. CASE hostname \in Literals /\ result' = {hostname}
        BY <2>4, <3>1 DEF ResolveLocally, Addresses
      <3>2. CASE \E i \in Cached(hostname) : result' = {cache[i].ip}
        BY <2>2, <2>4, <3>2 DEF ResolveLocally, Cached
      <3>3. CASE result' = {}
        BY <3>3
      <3>4. QED  BY <2>4, <3>1, <3>2, <3>3 DEF ResolveLocally, Return
    <2>5. QED  BY <1>1, <2>2, <2>3, <2>4
  <1>9. QED  BY <1>4, <1>5, <1>6, <1>7, <1>8 DEF IInv

LEMMA StartChaseStep == IInv /\ StartChase => IInv'
  <1> SUFFICES ASSUME IInv, StartChase PROVE IInv'
    OBVIOUS
  <1>1. /\ UNCHANGED <<requests, config, cache, numbering, nic, hostname, tx_id, children, result, sent>>
        /\ pc = "resolve" /\ pc' = "query" /\ hostname \in Names /\ Cached(hostname) = {}
        /\ current_name' = hostname /\ depth' = 0
    BY DEF StartChase
  <1>2. CacheInv' /\ DOMAIN cache' = 1..Len(cache')
        /\ \A i \in DOMAIN cache' : cache'[i].hostname \in Names
    BY <1>1, CacheKept
  <1>3. TypeOK'
    BY <1>1, <1>2, Consts DEF IInv, TypeOK, numbering, config
  <1>4. ChaseInv' /\ UdpChildReleased'
    BY <1>1 DEF IInv, ChaseInv, Cached, UdpChildReleased, Chasing, InFlight
  <1>5. IdInv'
    BY <1>1 DEF IInv, IdInv, InFlight, numbering
  <1>6. ChainInv'
    BY <1>1, LeadsSelf DEF ChainInv
  <1>7. AnswerBelongs'
    BY <1>1 DEF IInv, AnswerBelongs, numbering
  <1>8. QED  BY <1>2, <1>3, <1>4, <1>5, <1>6, <1>7 DEF IInv

\* next_id: until they wrap, an id that is given out is on no query the server ever got.
LEMMA QueryStep == IInv /\ Query => IInv'
  <1> SUFFICES ASSUME IInv, Query PROVE IInv'
    OBVIOUS
  <1>1. /\ UNCHANGED <<requests, config, cache, hostname, current_name, depth, children, sent>>
        /\ pc = "query"
    BY DEF Query
  <1>2. CacheInv' /\ DOMAIN cache' = 1..Len(cache')
        /\ \A i \in DOMAIN cache' : cache'[i].hostname \in Names
    BY <1>1, CacheKept
  <1>3. /\ hostname \in Names /\ current_name \in Names /\ Cached(hostname) = {}
        /\ children = 0
    BY <1>1 DEF IInv, ChaseInv, Chasing, UdpChildReleased
  <1>4. CASE depth < MaxCnameDepth
    <2>1. /\ tx_id' = next_id /\ next_id' = (next_id + 1) % TxIds
          /\ ids' = (IF ids <= TxIds THEN ids + 1 ELSE ids)
          /\ nic' = 1 /\ pc' = "udp" /\ UNCHANGED result
      BY <1>4 DEF Query
    <2>2. next_id \in 0..TxIds - 1 /\ ids \in 0..TxIds + 1
      BY DEF IInv, TypeOK
    <2>3. next_id' \in 0..TxIds - 1 /\ ids' \in 0..TxIds + 1 /\ nic' \in 1..Nics + 1
      <3>1. next_id + 1 \in Nat
        BY <2>2, Consts
      <3>2. (next_id + 1) % TxIds \in 0..(TxIds - 1)
        BY <3>1, Consts, RemainderType
      <3>3. QED  BY <2>1, <2>2, <3>2, Consts
    <2>4. TypeOK'
      BY <1>1, <1>2, <2>1, <2>2, <2>3 DEF IInv, TypeOK, config
    <2>5. ChaseInv' /\ UdpChildReleased'
      BY <1>1, <1>3, <1>4, <2>1 DEF ChaseInv, Cached, UdpChildReleased, Chasing, InFlight
    <2>6. IdInv'
      <3>1. SUFFICES ASSUME ids' <= TxIds
                     PROVE  /\ ids' < TxIds => next_id' = IdOf(ids' + 1)
                            /\ \A q \in sent : \E k \in 1..ids' : q.id = IdOf(k)
                            /\ ids' >= 1
                            /\ tx_id' = IdOf(ids')
                            /\ \A q \in sent : q.id # tx_id'
        BY <1>1, <2>1 DEF IdInv, IdOf, InFlight
      <3>2. ids \in Nat /\ ids < TxIds /\ ids' = ids + 1 /\ TxIds \in Nat \ {0}
        BY <2>1, <2>2, <3>1, Consts
      <3>3. next_id = IdOf(ids + 1) /\ \A q \in sent : \E k \in 1..ids : q.id = IdOf(k)
        BY <3>2, Consts DEF IInv, IdInv
      <3>4. ASSUME ids' < TxIds PROVE next_id' = IdOf(ids' + 1)
        <4>1. next_id = ids + 1 /\ next_id + 1 \in Nat /\ next_id + 1 <= TxIds
          BY <3>2, <3>3, <3>4 DEF IdOf
        <4>2. (next_id + 1) % TxIds = IF next_id + 1 < TxIds THEN next_id + 1 ELSE 0
          BY <3>2, <4>1, Remainder
        <4>3. QED  BY <2>1, <3>2, <4>1, <4>2 DEF IdOf
      <3>5. \A k \in 1..ids : IdOf(k) # IdOf(ids + 1) /\ k \in 1..ids'
        BY <3>2 DEF IdOf
      <3>6. \A q \in sent : q.id # tx_id' /\ \E k \in 1..ids' : q.id = IdOf(k)
        BY <2>1, <3>3, <3>5
      <3>7. QED  BY <2>1, <3>2, <3>3, <3>4, <3>6
    <2>7. ChainInv'
      <3>1. ids' <= TxIds => ids <= TxIds
        BY <2>1, <2>2, Consts
      <3>2. QED  BY <1>1, <3>1 DEF IInv, ChainInv, Chasing
    <2>8. AnswerBelongs'
      <3>1. ids' <= TxIds => ids <= TxIds
        BY <2>1, <2>2, Consts
      <3>2. QED  BY <1>1, <2>1, <3>1 DEF IInv, AnswerBelongs
    <2>9. QED  BY <1>2, <2>4, <2>5, <2>6, <2>7, <2>8 DEF IInv
  <1>5. CASE ~(depth < MaxCnameDepth)
    <2>1. pc' = "idle" /\ result' = {} /\ UNCHANGED <<tx_id, numbering, nic>>
      BY <1>5 DEF Query, Return
    <2>2. TypeOK'
      BY <1>1, <1>2, <2>1 DEF IInv, TypeOK, config, numbering
    <2>3. ChaseInv' /\ UdpChildReleased' /\ ChainInv'
      BY <1>1, <1>3, <2>1 DEF ChaseInv, UdpChildReleased, ChainInv, Chasing, InFlight
    <2>4. IdInv'
      BY <1>1, <2>1 DEF IInv, IdInv, InFlight, numbering
    <2>5. AnswerBelongs'
      BY <1>1, <2>1 DEF IInv, AnswerBelongs, numbering
    <2>6. QED  BY <1>2, <2>2, <2>3, <2>4, <2>5 DEF IInv
  <1>6. QED  BY <1>4, <1>5

\* udp4_dns_query over one handle after another: at most the query in hand reaches the
\* server.
LEMMA UdpStep ==
    ASSUME IInv,
           \/ AllHandlesFailed \/ NoChild \/ CreateChild \/ TransmitFails \/ Transmit \/ ReceiveFails
    PROVE  IInv'
  <1>1. /\ UNCHANGED <<requests, config, cache, numbering, hostname, chase>>
        /\ pc \in InFlight /\ pc' \in InFlight \cup {"idle"}
        /\ pc' = "idle" => result' = {}
        /\ UNCHANGED sent \/ ServerReceives
    BY DEF AllHandlesFailed, NoChild, CreateChild, TransmitFails, Transmit, ReceiveFails,
           NextHandle, Return, InFlight
  <1>2. CacheInv' /\ DOMAIN cache' = 1..Len(cache')
        /\ \A i \in DOMAIN cache' : cache'[i].hostname \in Names
    BY <1>1, CacheKept
  <1>3. /\ hostname \in Names /\ current_name \in Names /\ Cached(hostname) = {}
        /\ depth < MaxCnameDepth
    BY <1>1 DEF IInv, ChaseInv, Chasing, InFlight
  <1>4. nic' \in 1..Nics + 1 /\ (pc' \in {"transmit", "receive"} => nic' <= Nics)
    <2>1. nic \in 1..Nics + 1 /\ (pc \in {"transmit", "receive"} => nic <= Nics)
      BY DEF IInv, TypeOK, ChaseInv
    <2>2. QED  BY <2>1, Consts DEF AllHandlesFailed, NoChild, CreateChild, TransmitFails, Transmit,
                                   ReceiveFails, NextHandle, Return
  <1>5. UdpChildReleased'
    BY DEF IInv, UdpChildReleased, AllHandlesFailed, NoChild, CreateChild, TransmitFails, Transmit,
           ReceiveFails, NextHandle, Return, DestroyChild
  <1>6. children' \in Nat
    BY <1>5 DEF UdpChildReleased
  <1>7. sent' \subseteq [id : 0..TxIds - 1, question : Names]
    BY <1>1, <1>3 DEF IInv, TypeOK, ServerReceives
  <1>8. TypeOK'
    BY <1>1, <1>2, <1>4, <1>6, <1>7 DEF IInv, TypeOK, config, numbering, chase, InFlight
  <1>9. ChaseInv'
    BY <1>1, <1>3, <1>4 DEF ChaseInv, Cached, chase
  <1>10. IdInv'
    <2>1. SUFFICES ASSUME ids <= TxIds
                   PROVE  /\ ids < TxIds => next_id = IdOf(ids + 1)
                          /\ \A q \in sent' : \E k \in 1..ids : q.id = IdOf(k)
                          /\ ids >= 1
                          /\ tx_id = IdOf(ids)
                          /\ \A q \in sent' : q.id = tx_id => q.question = current_name
      BY <1>1 DEF IdInv, IdOf, numbering, chase
    <2>2. /\ ids < TxIds => next_id = IdOf(ids + 1)
          /\ \A q \in sent : \E k \in 1..ids : q.id = IdOf(k)
          /\ ids >= 1
          /\ tx_id = IdOf(ids)
          /\ \A q \in sent : q.id = tx_id => q.question = current_name
      BY <1>1, <2>1 DEF IInv, IdInv
    <2>3. ids \in Nat /\ ids \in 1..ids
      BY <2>2, Consts DEF IInv, TypeOK
    <2>4. \A q \in sent' : q \in sent \/ (q.id = tx_id /\ q.question = current_name)
      BY <1>1 DEF ServerReceives
    <2>5. QED  BY <2>2, <2>3, <2>4
  <1>11. ChainInv'
    BY <1>1 DEF IInv, ChainInv, Chasing, InFlight, numbering, chase
  <1>12. AnswerBelongs'
    BY <1>1 DEF IInv, AnswerBelongs, numbering
  <1>13. QED  BY <1>2, <1>5, <1>8, <1>9, <1>10, <1>11, <1>12 DEF IInv

\* While the ids have not wrapped, a response that is taken for the answer holds records
\* of the chain of the host.
LEMMA AnswerIsOfChain ==
    ASSUME IInv, ZoneOfChains, ids <= TxIds, pc = "receive",
           NEW m \in Responses, IsAnswer(m, tx_id)
    PROVE  /\ DOMAIN m.records \subseteq Nat
           /\ \A i \in DOMAIN m.records :
                 m.records[i] \in Records /\ m.records[i].owner \in Leads[hostname]
  <1>1. PICK q \in sent :
              /\ m.id = q.id
              /\ q.question \in Names
              /\ DOMAIN m.records \subseteq Nat
              /\ \A i \in DOMAIN m.records :
                    i \in DOMAIN Zone[q.question] /\ m.records[i] = Zone[q.question][i]
    BY ResponseOfZone DEF IInv, TypeOK
  <1>2. q.question = current_name
    BY <1>1 DEF IsAnswer, IInv, IdInv, InFlight
  <1>3. hostname \in Names /\ current_name \in Leads[hostname]
    BY DEF IInv, ChaseInv, ChainInv, Chasing
  <1>4. Leads[current_name] \subseteq Leads[hostname]
    BY <1>3, LeadsTransitive
  <1>5. ASSUME NEW i \in DOMAIN m.records
        PROVE  m.records[i] \in Records /\ m.records[i].owner \in Leads[hostname]
    <2>1. i \in DOMAIN Zone[current_name] /\ m.records[i] = Zone[current_name][i]
      BY <1>1, <1>2
    <2>2. Zone[current_name][i].owner \in Leads[current_name]
      BY <1>1, <1>2, <2>1 DEF ZoneOfChains
    <2>3. Zone[current_name][i] \in Records
      BY <1>1, <1>2, <2>1 DEF Records
    <2>4. QED  BY <1>4, <2>1, <2>2, <2>3
  <1>6. QED  BY <1>1, <1>5

LEMMA ReceiveStep ==
    ASSUME IInv, NEW m \in Responses, Receive(m)
    PROVE  IInv'
  <1> DEFINE addr == ParseDnsResponse(m, tx_id)
             target == ExtractCnameTarget(m, tx_id)
  <1>1. /\ UNCHANGED <<requests, config, numbering, nic, hostname, tx_id, sent>>
        /\ pc = "receive" /\ children' = children - 1
    BY DEF Receive, DestroyChild
  <1>2. /\ hostname \in Names /\ current_name \in Names /\ Cached(hostname) = {}
        /\ depth < MaxCnameDepth /\ children = 1 /\ TypeOK
    BY <1>1 DEF IInv, ChaseInv, Chasing, InFlight, UdpChildReleased
  <1>3. children' = 0
    BY <1>1, <1>2
  <1>4. ASSUME NEW a \in addr, result' = addr, pc' = "idle", CacheResult(a),
               UNCHANGED <<current_name, depth>>
        PROVE  IInv'
    <2>1. a \in {r.data : r \in Records}
      BY <1>2, AddressIsData
    <2>2. /\ CacheInv'
          /\ \A i \in DOMAIN cache' :
                \/ cache'[i] = [hostname |-> hostname, ip |-> a]
                \/ \E j \in DOMAIN cache : cache'[i] = cache[j]
      BY <1>2, <1>4, <2>1, CacheGrows DEF IInv
    <2>3. DOMAIN cache' = 1..Len(cache') /\ \A i \in DOMAIN cache' : cache'[i].hostname \in Names
      <3>1. cache' \in Seq(Entries)
        BY <2>2 DEF CacheInv
      <3>2. DOMAIN cache' = 1..Len(cache') /\ \A i \in DOMAIN cache' : cache'[i] \in Entries
        BY <3>1
      <3>3. QED  BY <3>2 DEF Entries
    <2>4. TypeOK'
      BY <1>1, <1>2, <1>3, <1>4, <2>3 DEF TypeOK, config, numbering
    <2>5. ChaseInv' /\ UdpChildReleased' /\ ChainInv'
      BY <1>3, <1>4 DEF ChaseInv, UdpChildReleased, ChainInv, Chasing, InFlight
    <2>6. IdInv'
      BY <1>1, <1>4 DEF IInv, IdInv, InFlight, numbering
    <2>7. AnswerBelongs'
      <3>1. SUFFICES ASSUME ZoneOfChains, ids <= TxIds
                     PROVE  /\ addr \subseteq Addresses(hostname)
                            /\ \A i \in DOMAIN cache' : cache'[i].ip \in Addresses(cache'[i].hostname)
        BY <1>1, <1>4 DEF AnswerBelongs, numbering
      <3>2. IsAnswer(m, tx_id) /\ addr = FirstOf(m.records, "A")
        BY <1>4 DEF ParseDnsResponse
      <3>3. /\ DOMAIN m.records \subseteq Nat
            /\ \A i \in DOMAIN m.records :
                  m.records[i] \in Records /\ m.records[i].owner \in Leads[hostname]
        BY <1>1, <3>1, <3>2, AnswerIsOfChain
      <3>4. hostname \notin Literals
        BY <1>2, Consts
      <3>5. ASSUME NEW b \in addr PROVE b \in Addresses(hostname)
        <4>1. PICK i \in DOMAIN m.records : m.records[i].type = "A" /\ m.records[i].data = b
          BY <3>2, <3>3, FirstOfIsARecord
        <4>2. QED  BY <3>3, <3>4, <4>1 DEF Addresses
      <3>6. \A j \in DOMAIN cache : cache[j].ip \in Addresses(cache[j].hostname)
        BY <3>1 DEF IInv, AnswerBelongs
      <3>7. a \in Addresses(hostname)
        BY <3>5
      <3>8. \A i \in DOMAIN cache' : cache'[i].ip \in Addresses(cache'[i].hostname)
        BY <2>2, <3>6, <3>7
      <3>9. QED  BY <3>5, <3>8
    <2>8. QED  BY <2>2, <2>4, <2>5, <2>6, <2>7 DEF IInv
  <1>5. ASSUME NEW t \in target, Follow(t), UNCHANGED <<cache, result>> PROVE IInv'
    <2>1. t \in Names
      BY <1>2, TargetIsName
    <2>2. current_name' = t /\ depth' = depth + 1 /\ pc' = "query"
      BY <1>5 DEF Follow
    <2>3. CacheInv' /\ DOMAIN cache' = 1..Len(cache')
          /\ \A i \in DOMAIN cache' : cache'[i].hostname \in Names
      BY <1>5, CacheKept
    <2>4. depth' \in 0..MaxCnameDepth
      BY <1>2, <2>2, Consts DEF TypeOK
    <2>5. TypeOK'
      BY <1>1, <1>2, <1>3, <2>1, <2>2, <2>3, <2>4 DEF TypeOK, config, numbering
    <2>6. ChaseInv' /\ UdpChildReleased'
      BY <1>1, <1>2, <1>3, <1>5, <2>1, <2>2
         DEF ChaseInv, Cached, UdpChildReleased, Chasing, InFlight
    <2>7. IdInv'
      BY <1>1, <2>2 DEF IInv, IdInv, InFlight, numbering
    <2>8. ChainInv'
      <3>1. SUFFICES ASSUME ZoneOfChains, ids <= TxIds PROVE t \in Leads[hostname]
        BY <1>1, <2>2 DEF ChainInv, numbering
      <3>2. IsAnswer(m, tx_id) /\ t \in FirstOf(m.records, "CNAME") /\ t # "bad"
        BY <1>5 DEF ExtractCnameTarget
      <3>3. /\ DOMAIN m.records \subseteq Nat
            /\ \A i \in DOMAIN m.records :
                  m.records[i] \in Records /\ m.records[i].owner \in Leads[hostname]
        BY <1>1, <3>1, <3>2, AnswerIsOfChain
      <3>4. PICK i \in DOMAIN m.records : m.records[i].type = "CNAME" /\ m.records[i].data = t
        BY <3>2, <3>3, FirstOfIsARecord
      <3>5. QED  BY <1>2, <3>2, <3>3, <3>4, LeadsFollows
    <2>9. AnswerBelongs'
      BY <1>1, <1>5, <2>2 DEF IInv, AnswerBelongs, numbering
    <2>10. QED  BY <2>3, <2>5, <2>6, <2>7, <2>8, <2>9 DEF IInv
  <1>6. ASSUME result' = {}, pc' = "idle", UNCHANGED <<cache, current_name, depth>> PROVE IInv'
    <2>1. CacheInv' /\ DOMAIN cache' = 1..Len(cache')
          /\ \A i \in DOMAIN cache' : cache'[i].hostname \in Names
      BY <1>6, CacheKept
    <2>2. TypeOK'
      BY <1>1, <1>2, <1>3, <1>6, <2>1 DEF TypeOK, config, numbering
    <2>3. ChaseInv' /\ UdpChildReleased' /\ ChainInv'
      BY <1>3, <1>6 DEF ChaseInv, UdpChildReleased, ChainInv, Chasing, InFlight
    <2>4. IdInv'
      BY <1>1, <1>6 DEF IInv, IdInv, InFlight, numbering
    <2>5. AnswerBelongs'
      BY <1>1, <1>6 DEF IInv, AnswerBelongs, numbering
    <2>6. QED  BY <2>1, <2>2, <2>3, <2>4, <2>5 DEF IInv
  <1>7. QED
    <2>1. \/ \E a \in addr : /\ result' = addr /\ pc' = "idle" /\ CacheResult(a)
                             /\ UNCHANGED <<current_name, depth>>
          \/ \E t \in target : Follow(t) /\ UNCHANGED <<cache, result>>
          \/ result' = {} /\ pc' = "idle" /\ UNCHANGED <<cache, current_name, depth>>
      BY DEF Receive, Return
    <2> HIDE DEF addr, target
    <2>2. QED  BY <1>4, <1>5, <1>6, <2>1

LEMMA InvStep == IInv /\ [Next]_vars => IInv'
  <1> SUFFICES ASSUME IInv, [Next]_vars PROVE IInv'
    OBVIOUS
  <1>1. CASE UNCHANGED vars
    <2>1. TypeOK' /\ ChaseInv' /\ UdpChildReleased'
      BY <1>1 DEF vars, config, numbering, chase, IInv, TypeOK, ChaseInv, Cached, UdpChildReleased
    <2>2. CacheInv'
      BY <1>1, CacheKept DEF vars
    <2>3. IdInv' /\ ChainInv'
      BY <1>1 DEF vars, numbering, chase, IInv, IdInv, ChainInv
    <2>4. AnswerBelongs'
      BY <1>1 DEF vars, numbering, IInv, AnswerBelongs
    <2>5. QED  BY <2>1, <2>2, <2>3, <2>4 DEF IInv
  <1>2. CASE Next
    BY <1>2, BeforeStep, StartChaseStep, QueryStep, UdpStep, ReceiveStep DEF Next, Step
  <1>3. QED  BY <1>1, <1>2

-----------------------------------------------------------------------------

\* The inductive invariant holds in every state of every boot, whatever the drivers and the
\* DNS server do.
THEOREM InvHolds == Spec => []IInv
  BY InitInv, InvStep, PTL DEF Spec

\* Type correctness; a chase makes at most MAX_CNAME_DEPTH queries.
THEOREM TypeCorrect == Spec => []TypeOK
  <1>1. IInv => TypeOK
    BY DEF IInv
  <1>2. QED  BY <1>1, InvHolds, PTL

\* A late, repeated or cut off answer is never taken for the answer to another question, in
\* a boot that makes no more queries than there are transaction ids.
THEOREM AnswersBelong == Spec => []AnswerBelongs
  <1>1. IInv => AnswerBelongs
    BY DEF IInv
  <1>2. QED  BY <1>1, InvHolds, PTL

\* The DNS cache keeps one answer per host, and no more than MAX_CACHE_ENTRIES of them.
THEOREM CacheIsSound == Spec => []CacheSound
  <1>1. IInv => CacheSound
    BY DEF IInv, CacheInv
  <1>2. QED  BY <1>1, InvHolds, PTL

\* Every way out of udp4_dns_query_on_handle destroys the child it created.
THEOREM UdpChildIsReleased == Spec => []UdpChildReleased
  <1>1. IInv => UdpChildReleased
    BY DEF IInv
  <1>2. QED  BY <1>1, InvHolds, PTL
=============================================================================
