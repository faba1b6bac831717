---------------------------- MODULE TransportProofs ----------------------------
(***************************************************************************)
(* Proofs about module Transport, for responses of any size, split in any  *)
(* way, any number of NICs and of requests.                                *)
(***************************************************************************)
EXTENDS Transport, SequenceTheorems, TLAPS

-----------------------------------------------------------------------------
(* Constants and buffers                                                    *)

LEMMA Consts ==
    /\ RxBuffer \in Nat /\ MaxResponse \in Nat /\ MaxDrainIdle \in Nat
    /\ MaxNics \in Nat /\ MaxRequests \in Nat
    /\ Responses # {}
  BY TransportAssumption

LEMMA ResponseType ==
    ASSUME NEW r \in Responses
    PROVE  /\ r.head \in Nat \ {0} /\ r.body \in Nat /\ r.extra \in Nat
           /\ r.length \in {{}, {r.body}} /\ (r.length = {} => r.extra = 0)
           /\ r.auth \in BOOLEAN
           /\ Ready(r) \in Nat /\ Ready(r) <= r.body /\ Ready(r) <= RxBuffer
  <1>1. /\ r.head \in Nat \ {0} /\ r.body \in Nat /\ r.extra \in Nat
        /\ r.length \in {{}, {r.body}} /\ (r.length = {} => r.extra = 0)
        /\ r.auth \in BOOLEAN
    BY TransportAssumption
  <1>2. Ready(r) \in Nat /\ Ready(r) <= r.body /\ Ready(r) <= RxBuffer
    BY <1>1, Consts DEF Ready, Smaller
  <1>3. QED  BY <1>1, <1>2

\* The body of a response from byte a to byte b, and bytes nobody wrote.
LEMMA SpanType ==
    ASSUME NEW a \in Nat \ {0}, NEW b \in Nat, NEW m \in Nat, b + 1 = a + m
    PROVE  /\ Span(a, b) \in Seq(Nat) /\ Len(Span(a, b)) = m
           /\ \A i \in 1..m : Span(a, b)[i] = a + i - 1
  <1>1. b - a + 1 = m
    OBVIOUS
  <1>2. Span(a, b) \in [1..m -> Nat]
    BY <1>1 DEF Span
  <1>3. \A i \in 1..m : Span(a, b)[i] = a + i - 1
    BY <1>1 DEF Span
  <1>4. QED  BY <1>2, <1>3

LEMMA UnwrittenType ==
    ASSUME NEW n \in Nat
    PROVE  Unwritten(n) \in Seq(Nat) /\ Len(Unwritten(n)) = n
  <1>1. Unwritten(n) \in [1..n -> Nat]
    BY DEF Unwritten
  <1>2. QED  BY <1>1

LEMMA BodyType ==
    ASSUME NEW k \in Nat
    PROVE  Span(1, k) \in Seq(Nat) /\ Len(Span(1, k)) = k /\ \A i \in 1..k : Span(1, k)[i] = i
  <1>1. k - 1 + 1 = k /\ \A i \in 1..k : 1 + i - 1 = i
    OBVIOUS
  <1>2. Span(1, k) \in [1..k -> Nat] /\ \A i \in 1..k : Span(1, k)[i] = 1 + i - 1
    BY <1>1 DEF Span
  <1>3. QED  BY <1>1, <1>2

\* Bytes written behind those there are continue the body.
LEMMA SpanGrows ==
    ASSUME NEW k \in Nat, NEW n \in Nat, NEW m \in Nat, m = k + n
    PROVE  Span(1, k) \o Span(k + 1, m) = Span(1, m)
  <1> DEFINE s == Span(1, k)
             t == Span(k + 1, m)
             u == Span(1, m)
  <1>1. s \in Seq(Nat) /\ Len(s) = k /\ \A i \in 1..k : s[i] = i
    BY BodyType
  <1>2. t \in Seq(Nat) /\ Len(t) = n /\ \A i \in 1..n : t[i] = k + i
    <2>1. k + 1 \in Nat \ {0} /\ m + 1 = (k + 1) + n
      OBVIOUS
    <2>2. t \in Seq(Nat) /\ Len(t) = n /\ \A i \in 1..n : t[i] = (k + 1) + i - 1
      BY <2>1, SpanType
    <2> HIDE DEF t
    <2>3. QED  BY <2>2
  <1>3. u \in Seq(Nat) /\ Len(u) = m /\ \A i \in 1..m : u[i] = i
    BY BodyType
  <1> HIDE DEF s, t, u
  <1>4. /\ s \o t \in Seq(Nat) /\ Len(s \o t) = Len(s) + Len(t)
        /\ \A i \in 1..Len(s) + Len(t) : (s \o t)[i] = IF i <= Len(s) THEN s[i] ELSE t[i - Len(s)]
    BY <1>1, <1>2, ConcatProperties
  <1>5. Len(s \o t) = m /\ \A i \in 1..m : (s \o t)[i] = i
    <2>1. Len(s) + Len(t) = m
      BY <1>1, <1>2
    <2>2. ASSUME NEW i \in 1..m PROVE (s \o t)[i] = i
      <3>1. (s \o t)[i] = IF i <= k THEN s[i] ELSE t[i - k]
        BY <1>1, <1>4, <2>1
      <3>2. (i <= k => i \in 1..k) /\ (~(i <= k) => i - k \in 1..n)
        OBVIOUS
      <3>3. QED  BY <1>1, <1>2, <3>1, <3>2
    <2>3. QED  BY <1>4, <2>1, <2>2
  <1>6. s \o t = u
    <2>1. \A i \in 1..m : (s \o t)[i] = u[i]
      BY <1>3, <1>5
    <2>2. QED  BY <1>3, <1>4, <1>5, <2>1, SeqEqual
  <1>7. QED  BY <1>6 DEF s, t, u

-----------------------------------------------------------------------------
(* The inductive invariant                                                  *)

Phases == {"idle", "http", "request", "response", "drain", "tcp4", "scan", "transmit",
           "receive", "close"}

\* http_post_internal holds a child, tcp4_http_post or tcp4_http_get holds one.
HoldsHttp == {"request", "response", "drain"}
HoldsTcp4 == {"transmit", "receive", "close"}

\* The steps that count what a token that did not complete with success says.
Misreads ==
    \/ \E n, counted \in 0..RxBuffer : FirstResponseMisread(n, counted)
    \/ \E n \in 0..RxBuffer : DrainStalls(n)
    \/ \E n, counted \in 0..RxBuffer : DrainTokenFails(n, counted)

\* While it has neither answered nor failed, a request is not among those without an
\* answer. Of the HTTP children, one is in use and the others belong to POSTs without
\* an answer, one each, as long as the firmware releases what it is asked to.
ChildrenInv ==
    /\ pc \in Phases
    /\ method \in {"POST", "GET"}
    /\ requests \in 0..MaxRequests
    /\ http_children \in Nat /\ tcp4_children \in Nat /\ unanswered \in Nat
    /\ refused \in BOOLEAN
    /\ http_children <= requests /\ unanswered <= requests
    /\ pc = "http" => http_children < requests
    /\ pc \in HoldsHttp => http_children >= 1
    /\ pc \in HoldsHttp \cup {"http"} => unanswered < requests
    /\ refused = FALSE => http_children <= unanswered + (IF pc \in HoldsHttp THEN 1 ELSE 0)

\* A request has been sent only over the transports it has been through, and a
\* result ends it.
DeliverInv ==
    /\ delivered \in [{"http", "tcp4"} -> Nat]
    /\ pc \in {"http", "request"} => delivered["http"] = 0
    /\ pc \notin {"idle", "receive", "close"} => delivered["tcp4"] = 0
    /\ delivered["http"] <= 1 /\ delivered["tcp4"] <= 1
    /\ via \in {"none", "http", "tcp4"}
    /\ via = "http" => delivered["tcp4"] = 0
    /\ pc # "idle" => via = "none" /\ result = {}

\* What is local to a call is forgotten when it returns.
LocalInv ==
    /\ response \in Responses
    /\ auth \in BOOLEAN /\ misread \in BOOLEAN /\ cut \in BOOLEAN
    /\ pc # "drain" => rx_body = <<>> /\ content_length = {} /\ idle = 0
    /\ pc \notin {"receive", "close"} => received = 0
    /\ pc \notin {"drain", "idle"} => ~misread
    /\ pc \notin {"close", "idle"} => ~cut

\* The buffers hold no more than they can.
BufferInv ==
    /\ rx_body \in Seq(Nat) /\ Len(rx_body) <= RxBuffer
    /\ content_length \subseteq {response.body}
    /\ idle \in 0..MaxDrainIdle
    /\ received \in 0..Stream

\* Every NIC is tried or still to be tried, and none is both.
NicInv ==
    /\ last_nic \in {{}} \cup {{i} : i \in 1..MaxNics}
    /\ nics \in Seq(1..MaxNics) /\ tried \in Seq(1..MaxNics) /\ usable \subseteq 1..MaxNics
    /\ pc \in {"http", "request", "response", "drain", "tcp4"} => tried = <<>>
    /\ \A i, j \in DOMAIN tried : tried[i] = tried[j] => i = j
    /\ pc = "scan" =>
          /\ \A i, j \in DOMAIN nics : nics[i] = nics[j] => i = j
          /\ \A i \in DOMAIN tried, j \in DOMAIN nics : tried[i] # nics[j]
          /\ \A u \in usable : (\E i \in DOMAIN tried : tried[i] = u)
                               \/ (\E j \in DOMAIN nics : nics[j] = u)

\* As long as every token that was counted completed with success, rx_body is the body up to where it was read;
\* TCP4 stops when the response is complete, or gives it up.
BodyInv ==
    /\ pc \in HoldsHttp => method = "POST"
    /\ pc = "drain" /\ ~misread =>
          /\ rx_body = Span(1, Len(rx_body))
          /\ Len(rx_body) <= Ready(response)
          /\ content_length = response.length
          /\ auth = response.auth
    /\ pc = "close" /\ ~cut => Complete(received) \/ received = Stream
    /\ BodyExact
    /\ \A b \in result : b \in Seq(Nat)

IInv ==
    ChildrenInv /\ DeliverInv /\ LocalInv /\ BufferInv /\ NicInv /\ BodyInv

LEMMA InvImplies ==
    IInv => TypeOK /\ AnswersCostNoHandle /\ SentAtMostTwice /\ EveryNicTried /\ BodyExact
  <1> SUFFICES ASSUME IInv PROVE TypeOK /\ AnswersCostNoHandle /\ SentAtMostTwice /\ EveryNicTried
    BY DEF IInv, BodyInv
  <1>1. {http_children, unanswered} \subseteq 0..MaxRequests /\ tcp4_children \in Nat
    <2>1. requests \in 0..MaxRequests /\ http_children \in Nat /\ unanswered \in Nat
          /\ http_children <= requests /\ unanswered <= requests /\ tcp4_children \in Nat
      BY DEF IInv, ChildrenInv
    <2>2. QED  BY <2>1, Consts
  <1>2. {auth, misread, cut, refused} \subseteq BOOLEAN
    BY DEF IInv, LocalInv, ChildrenInv
  <1>3. TypeOK
    BY <1>1, <1>2 DEF IInv, TypeOK, ChildrenInv, DeliverInv, LocalInv, BufferInv, NicInv, BodyInv, Phases
  <1>4. AnswersCostNoHandle
    <2> SUFFICES ASSUME pc = "idle", ~refused PROVE http_children <= unanswered
      BY DEF AnswersCostNoHandle
    <2>1. refused = FALSE /\ pc \notin HoldsHttp
      BY DEF IInv, ChildrenInv, HoldsHttp
    <2>2. http_children \in Nat /\ unanswered \in Nat /\ http_children <= unanswered + 0
      BY <2>1 DEF IInv, ChildrenInv
    <2>3. QED  BY <2>2
  <1>5. SentAtMostTwice
    BY DEF IInv, DeliverInv, SentAtMostTwice
  <1>6. EveryNicTried
    <2>1. ASSUME pc = "scan", nics = <<>>, NEW u \in usable PROVE u \in {tried[i] : i \in DOMAIN tried}
      BY <2>1 DEF IInv, NicInv
    <2>2. QED  BY <2>1 DEF IInv, NicInv, EveryNicTried
  <1>7. QED  BY <1>3, <1>4, <1>5, <1>6

LEMMA InitInv == Init => IInv
  <1> SUFFICES ASSUME Init PROVE IInv
    OBVIOUS
  <1>1. response \in Responses
    BY Consts DEF Init
  <1>2. ChildrenInv /\ DeliverInv
    <2>1. ChildrenInv
      <3>1. /\ pc = "idle" /\ method = "POST" /\ requests = 0 /\ http_children = 0
            /\ tcp4_children = 0 /\ unanswered = 0
        BY DEF Init
      <3>2. refused \in BOOLEAN
        BY Zenon DEF Init
      <3>3. pc \in Phases /\ pc \notin HoldsHttp /\ pc # "http"
        BY <3>1 DEF Phases, HoldsHttp
      <3>4. 0 <= 0 + (IF pc \in HoldsHttp THEN 1 ELSE 0)
        BY <3>3
      <3>5. QED  BY <3>1, <3>2, <3>3, <3>4, Consts DEF ChildrenInv
    <2>2. DeliverInv
      <3>1. [http |-> 0, tcp4 |-> 0] \in [{"http", "tcp4"} -> Nat]
        OBVIOUS
      <3>2. QED  BY <3>1 DEF Init, DeliverInv
    <2>3. QED  BY <2>1, <2>2
  <1>3. LocalInv
    BY <1>1 DEF Init, LocalInv
  <1>4. BufferInv
    <2>1. Stream \in Nat
      BY <1>1, ResponseType DEF Stream
    <2>2. QED  BY <2>1, Consts DEF Init, BufferInv
  <1>5. NicInv
    BY DEF Init, NicInv
  <1>6. BodyInv
    BY DEF Init, BodyInv, BodyExact
  <1>7. QED  BY <1>2, <1>3, <1>4, <1>5, <1>6 DEF IInv

-----------------------------------------------------------------------------
(* Children and deliveries                                                  *)

\* The call that is to release the child of an answered request releases it, or is on
\* record as refused.
LEMMA HttpChildGoes ==
    ASSUME DestroyHttpChild, refused \in BOOLEAN, http_children \in Nat
    PROVE  /\ refused' \in BOOLEAN
           /\ http_children' = http_children - 1 \/ http_children' = http_children
           /\ refused' = FALSE => refused = FALSE /\ http_children' = http_children - 1
  <1>1. PICK fails \in BOOLEAN : /\ http_children' = DestroyChild(http_children, FALSE, fails)
                                 /\ refused' = (refused \/ fails)
    BY DEF DestroyHttpChild
  <1>2. CASE fails = TRUE
    <2>1. refused' = TRUE /\ http_children' = http_children
      BY <1>1, <1>2 DEF DestroyChild
    <2>2. QED  BY <2>1
  <1>3. CASE fails = FALSE
    <2>1. refused' = refused /\ http_children' = http_children - 1
      BY <1>1, <1>3 DEF DestroyChild
    <2>2. QED  BY <2>1
  <1>4. QED  BY <1>2, <1>3

\* Releasing a TCP4 child never adds one, nor clears the record.
LEMMA Tcp4ChildGoes ==
    ASSUME NEW n \in Nat, NEW open \in BOOLEAN, DestroyTcp4Child(n, open), refused \in BOOLEAN,
           open = TRUE \/ n >= 1
    PROVE  tcp4_children' \in Nat /\ refused' \in BOOLEAN /\ (refused' = FALSE => refused = FALSE)
  <1>1. PICK fails \in BOOLEAN : /\ tcp4_children' = DestroyChild(n, open, fails)
                                 /\ refused' = (refused \/ fails)
    BY DEF DestroyTcp4Child
  <1>2. tcp4_children' \in Nat
    <2>1. DestroyChild(n, open, fails) = n \/ (open = FALSE /\ DestroyChild(n, open, fails) = n - 1)
      BY DEF DestroyChild
    <2>2. open = FALSE => n - 1 \in Nat
      OBVIOUS
    <2>3. QED  BY <1>1, <2>1, <2>2
  <1>3. CASE fails = TRUE
    <2>1. refused' = TRUE
      BY <1>1, <1>3
    <2>2. QED  BY <1>2, <2>1
  <1>4. CASE fails = FALSE
    <2>1. refused' = refused
      BY <1>1, <1>4
    <2>2. QED  BY <1>2, <2>1
  <1>5. QED  BY <1>3, <1>4

LEMMA ChildrenStep == IInv /\ [Next]_vars => ChildrenInv'
  <1> SUFFICES ASSUME IInv, [Next]_vars PROVE ChildrenInv'
    OBVIOUS
  <1> USE DEF Phases, HoldsHttp, HoldsTcp4
  <1>1. /\ pc \in Phases /\ method \in {"POST", "GET"}
        /\ requests \in Nat /\ requests <= MaxRequests /\ MaxRequests \in Nat
        /\ http_children \in Nat /\ tcp4_children \in Nat /\ unanswered \in Nat
        /\ refused \in BOOLEAN
        /\ http_children <= requests /\ unanswered <= requests
        /\ pc = "http" => http_children < requests
        /\ pc \in HoldsHttp => http_children >= 1
        /\ pc \in HoldsHttp \cup {"http"} => unanswered < requests
        /\ refused = FALSE => http_children <= unanswered + (IF pc \in HoldsHttp THEN 1 ELSE 0)
    <2>1. requests \in 0..MaxRequests
      BY DEF IInv, ChildrenInv
    <2>2. requests \in Nat /\ requests <= MaxRequests /\ MaxRequests \in Nat
      BY <2>1, Consts
    <2>3. QED  BY <2>2 DEF IInv, ChildrenInv
  <1>2. pc \in HoldsHttp => method = "POST"
    BY DEF IInv, BodyInv
  <1> DEFINE Same == method' = method /\ requests' = requests
             Kept(ps, qs) == /\ pc \in ps /\ pc' \in qs /\ Same
                             /\ http_children' = http_children /\ unanswered' = unanswered
                             /\ tcp4_children' \in Nat /\ refused' \in BOOLEAN
                             /\ refused' = FALSE => refused = FALSE
             NoHttp == {"tcp4", "scan", "transmit", "receive", "close", "idle"}
             Held == UNCHANGED <<tcp4_children, refused>>
  <1>3. CASE Kept(NoHttp, NoHttp) \/ Kept({"http"}, NoHttp) \/ Kept(HoldsHttp, HoldsHttp)
    BY <1>1, <1>3 DEF ChildrenInv
  <1>4. ASSUME HttpNone, Same, Held, http_children' = http_children, pc \in HoldsHttp \cup {"http"}
        PROVE  ChildrenInv'
    <2>1. /\ pc' = "tcp4"
          /\ unanswered' = IF method = "POST" THEN unanswered + 1 ELSE unanswered
      BY <1>4 DEF HttpNone
    <2>2. CASE method = "POST"
      BY <1>1, <1>4, <2>1, <2>2 DEF ChildrenInv
    <2>3. CASE method # "POST"
      BY <1>1, <1>2, <1>4, <2>1, <2>3 DEF ChildrenInv
    <2>4. QED  BY <2>2, <2>3
  <1>5. CASE \E m \in {"POST", "GET"} : Request(m)
    <2>1. /\ pc = "idle" /\ pc' = "http" /\ method' \in {"POST", "GET"} /\ requests < MaxRequests
          /\ requests' = requests + 1 /\ http_children' = http_children
          /\ unanswered' = unanswered /\ Held
      BY <1>5 DEF Request, children
    <2>2. QED  BY <1>1, <2>1 DEF ChildrenInv
  <1>6. CASE UNCHANGED vars
    <2>1. UNCHANGED <<pc, method, requests, http_children, refused, tcp4_children, unanswered>>
      BY <1>6 DEF vars, children, outcome
    <2>2. QED  BY <2>1 DEF IInv, ChildrenInv
  <1>7. CASE Answered
    <2>1. CASE (\E r \in Responses : HttpRequest(r)) \/ (\E n \in 0..RxBuffer : FirstResponse(n))
               \/ (\E n \in 0..RxBuffer : DrainRead(n)) \/ DrainEmpty
      <3>1. Kept(HoldsHttp, HoldsHttp)
        BY <1>1, <2>1 DEF HttpRequest, FirstResponse, DrainRead, DrainEmpty, children, outcome
      <3>2. QED  BY <1>3, <3>1
    <2>2. CASE (\E r \in Responses : Transmit(r)) \/ (\E n \in 1..Stream : Receive(n))
      <3>1. Kept(NoHttp, NoHttp)
        BY <1>1, <2>2 DEF Transmit, Receive, children, outcome
      <3>2. QED  BY <1>3, <3>1
    <2>3. CASE \E r \in Responses : \E n \in 0..r.body : HttpGet(r, n)
      <3>a. PICK r \in Responses : \E n \in 0..r.body : HttpGet(r, n)
        BY <2>3
      <3>1. PICK n \in 0..r.body : HttpGet(r, n)
        BY <3>a
      <3>2. pc = "http" /\ Same /\ Held /\ http_children' = http_children
        BY <3>1 DEF HttpGet, children
      <3>3. CASE r.ok
        <4>1. pc' = "idle" /\ unanswered' = unanswered
          BY <3>1, <3>3 DEF HttpGet, Return
        <4>2. Kept({"http"}, NoHttp)
          BY <1>1, <3>2, <4>1
        <4>3. QED  BY <1>3, <4>2
      <3>4. CASE ~r.ok
        <4>1. HttpNone
          BY <3>1, <3>4 DEF HttpGet
        <4>2. QED  BY <1>4, <3>2, <4>1
      <3>5. QED  BY <3>3, <3>4
    <2>4. CASE Connects
      <3>1. /\ pc = "scan" /\ pc' = "transmit" /\ Same /\ refused' = refused
            /\ http_children' = http_children /\ unanswered' = unanswered
            /\ tcp4_children' = tcp4_children + 1
        BY <2>4 DEF Connects, outcome
      <3>2. Kept(NoHttp, NoHttp)
        BY <1>1, <3>1
      <3>3. QED  BY <1>3, <3>2
    <2>5. QED  BY <1>7, <2>1, <2>2, <2>3, <2>4 DEF Answered
  <1>8. CASE Unanswered
    <2>1. CASE HttpUnavailable \/ (\E reached \in BOOLEAN : HttpGetFails(reached))
               \/ (\E reached \in BOOLEAN : HttpFails(reached))
      <3>1. /\ pc \in HoldsHttp \cup {"http"} /\ HttpNone /\ Same /\ Held
            /\ http_children' = http_children
        BY <2>1 DEF HttpUnavailable, HttpGetFails, HttpFails, children
      <3>2. QED  BY <1>4, <3>1
    <2>2. CASE Misreads
      <3>1. Kept(HoldsHttp, HoldsHttp)
        BY <1>1, <2>2 DEF Misreads, FirstResponseMisread, DrainStalls, DrainTokenFails, children, outcome
      <3>2. QED  BY <1>3, <3>1
    <2>3. CASE ReceiveEnds \/ NoConnection
               \/ (\E n \in 0..MaxNics : \E with_mac \in SUBSET (1..n) : Tcp4Start(n, with_mac))
      <3>1. Kept(NoHttp, NoHttp)
        BY <1>1, <2>3 DEF ReceiveEnds, NoConnection, Tcp4Start, Return, children, outcome
      <3>2. QED  BY <1>3, <3>1
    <2>4. CASE HttpOpen
      <3>1. /\ pc = "http" /\ pc' = "request" /\ Same /\ Held
            /\ unanswered' = unanswered /\ http_children' = http_children + 1
        BY <2>4 DEF HttpOpen, outcome
      <3>2. QED  BY <1>1, <3>1 DEF ChildrenInv
    <2>5. CASE \E fails \in BOOLEAN : HttpFinish(fails)
      <3>1. /\ pc = "drain" /\ pc' = "idle" /\ Same /\ DestroyHttpChild
            /\ unanswered' = unanswered /\ tcp4_children' = tcp4_children
        BY <2>5 DEF HttpFinish, Return
      <3>2. /\ refused' \in BOOLEAN
            /\ http_children' = http_children - 1 \/ http_children' = http_children
            /\ refused' = FALSE => refused = FALSE /\ http_children' = http_children - 1
        BY <1>1, <3>1, HttpChildGoes
      <3>3. QED  BY <1>1, <3>1, <3>2 DEF ChildrenInv
    <2>6. CASE ConnectFails
      <3>1. /\ pc = "scan" /\ pc' = "scan" /\ Same /\ http_children' = http_children
            /\ unanswered' = unanswered
            /\ Held \/ \E open \in BOOLEAN : DestroyTcp4Child(tcp4_children + 1, open)
        BY <2>6 DEF ConnectFails, outcome
      <3>2. tcp4_children' \in Nat /\ refused' \in BOOLEAN /\ (refused' = FALSE => refused = FALSE)
        <4>1. CASE Held
          BY <1>1, <4>1
        <4>2. CASE \E open \in BOOLEAN : DestroyTcp4Child(tcp4_children + 1, open)
          <5>1. tcp4_children + 1 \in Nat /\ tcp4_children + 1 >= 1
            BY <1>1
          <5>2. QED  BY <1>1, <4>2, <5>1, Tcp4ChildGoes
        <4>3. QED  BY <3>1, <4>1, <4>2
      <3>3. Kept(NoHttp, NoHttp)
        BY <3>1, <3>2
      <3>4. QED  BY <1>3, <3>3
    <2>7. CASE (\E reached \in BOOLEAN : TransmitFails(reached)) \/ Tcp4Finish
      <3>1. /\ pc \in HoldsTcp4 /\ pc' = "idle" /\ Same /\ http_children' = http_children
            /\ unanswered' = unanswered /\ DestroyTcp4Child(tcp4_children, TRUE)
        BY <2>7 DEF TransmitFails, Tcp4Finish, Return
      <3>2. tcp4_children' \in Nat /\ refused' \in BOOLEAN /\ (refused' = FALSE => refused = FALSE)
        BY <1>1, <3>1, Tcp4ChildGoes
      <3>3. Kept(NoHttp, NoHttp)
        BY <3>1, <3>2
      <3>4. QED  BY <1>3, <3>3
    <2>8. QED  BY <1>8, <2>1, <2>2, <2>3, <2>4, <2>5, <2>6, <2>7 DEF Unanswered, Misreads
  <1>9. QED  BY <1>5, <1>6, <1>7, <1>8 DEF Next

LEMMA DeliverStep == IInv /\ [Next]_vars => DeliverInv'
  <1> SUFFICES ASSUME IInv, [Next]_vars PROVE DeliverInv'
    OBVIOUS
  <1> USE DEF IInv, DeliverInv
  <1>1. CASE UNCHANGED vars
    BY <1>1 DEF vars, outcome
  <1>2. CASE \E m \in {"POST", "GET"} : Request(m)
    BY <1>2 DEF Request
  <1>3. CASE Answered
    BY <1>3 DEF Answered, HttpRequest, Transmit, HttpGet, FirstResponse, DrainRead, DrainEmpty,
                Connects, Receive, Return, HttpNone, Deliver, outcome
  <1>4. CASE Unanswered
    <2>1. CASE HttpUnavailable \/ HttpOpen
      BY <2>1 DEF HttpUnavailable, HttpOpen, HttpNone, outcome
    <2>2. CASE \E reached \in BOOLEAN : HttpFails(reached) \/ HttpGetFails(reached)
      BY <2>2 DEF HttpFails, HttpGetFails, HttpNone, Deliver
    <2>3. CASE Misreads
      BY <2>3 DEF Misreads, FirstResponseMisread, DrainStalls, DrainTokenFails, outcome
    <2>4. CASE \E fails \in BOOLEAN : HttpFinish(fails)
      BY <2>4 DEF HttpFinish, Return
    <2>5. CASE \E n \in 0..MaxNics : \E with_mac \in SUBSET (1..n) : Tcp4Start(n, with_mac)
      BY <2>5 DEF Tcp4Start, outcome
    <2>6. CASE ConnectFails \/ NoConnection \/ ReceiveEnds
      BY <2>6 DEF ConnectFails, NoConnection, ReceiveEnds, Return, outcome
    <2>7. CASE \E reached \in BOOLEAN : TransmitFails(reached)
      BY <2>7 DEF TransmitFails, Return, Deliver
    <2>8. CASE Tcp4Finish
      BY <2>8 DEF Tcp4Finish, Return
    <2>9. QED
      BY <1>4, <2>1, <2>2, <2>3, <2>4, <2>5, <2>6, <2>7, <2>8 DEF Unanswered, Misreads
  <1>5. QED  BY <1>1, <1>2, <1>3, <1>4 DEF Next

LEMMA LocalStep == IInv /\ [Next]_vars => LocalInv'
  <1> SUFFICES ASSUME IInv, [Next]_vars PROVE LocalInv'
    OBVIOUS
  <1>1. /\ response \in Responses /\ response.auth \in BOOLEAN
        /\ auth \in BOOLEAN /\ misread \in BOOLEAN /\ cut \in BOOLEAN
        /\ pc # "drain" => rx_body = <<>> /\ content_length = {} /\ idle = 0
        /\ pc \notin {"receive", "close"} => received = 0
        /\ pc \notin {"drain", "idle"} => misread = FALSE
        /\ pc \notin {"close", "idle"} => cut = FALSE
    BY ResponseType DEF IInv, LocalInv
  <1> DEFINE
        Typed == response' \in Responses /\ auth' \in BOOLEAN /\ misread' \in BOOLEAN /\ cut' \in BOOLEAN
        Local == /\ pc' # "drain" => rx_body' = <<>> /\ content_length' = {} /\ idle' = 0
                 /\ pc' \notin {"receive", "close"} => received' = 0
                 /\ pc' \notin {"drain", "idle"} => misread' = FALSE
                 /\ pc' \notin {"close", "idle"} => cut' = FALSE
  <1>2. SUFFICES Typed /\ Local
    BY DEF LocalInv
  <1>3. CASE UNCHANGED vars
    BY <1>1, <1>3 DEF vars, buffers
  <1>4. CASE \E m \in {"POST", "GET"} : Request(m)
    BY <1>1, <1>4 DEF Request, buffers
  <1>5. CASE Answered
    <2>1. CASE \E r \in Responses : HttpRequest(r)
      BY <1>1, <2>1 DEF HttpRequest, buffers
    <2>2. CASE \E r \in Responses : Transmit(r)
      BY <1>1, <2>2 DEF Transmit
    <2>3. CASE \E r \in Responses : \E n \in 0..r.body : HttpGet(r, n)
      <3>1. cut' \in BOOLEAN /\ (pc' = "idle" \/ cut' = FALSE)
        BY <2>3, ResponseType DEF HttpGet, Return
      <3>2. QED  BY <1>1, <2>3, <3>1 DEF HttpGet, Return, HttpNone, buffers
    <2>4. CASE \E n \in 0..RxBuffer : FirstResponse(n)
      BY <1>1, <2>4 DEF FirstResponse
    <2>5. CASE (\E n \in 0..RxBuffer : DrainRead(n)) \/ DrainEmpty
      BY <1>1, <2>5 DEF DrainRead, DrainEmpty
    <2>6. CASE Connects
      BY <1>1, <2>6 DEF Connects, buffers
    <2>7. CASE \E n \in 1..Stream : Receive(n)
      <3>1. pc = "receive" /\ pc' \in {"receive", "close"}
        BY <2>7 DEF Receive
      <3>2. QED  BY <1>1, <2>7, <3>1 DEF Receive
    <2>8. QED  BY <1>5, <2>1, <2>2, <2>3, <2>4, <2>5, <2>6, <2>7 DEF Answered
  <1>6. CASE Unanswered
    <2>1. CASE HttpUnavailable \/ HttpOpen \/ \E reached \in BOOLEAN : HttpGetFails(reached)
      BY <1>1, <2>1 DEF HttpUnavailable, HttpOpen, HttpGetFails, HttpNone, buffers
    <2>2. CASE \E reached \in BOOLEAN : HttpFails(reached)
      BY <1>1, <2>2 DEF HttpFails, HttpNone, Forget
    <2>3. CASE \E n, counted \in 0..RxBuffer : FirstResponseMisread(n, counted)
      BY <1>1, <2>3 DEF FirstResponseMisread
    <2>4. CASE (\E n \in 0..RxBuffer : DrainStalls(n))
               \/ (\E n, counted \in 0..RxBuffer : DrainTokenFails(n, counted))
      BY <1>1, <2>4 DEF DrainStalls, DrainTokenFails
    <2>5. CASE \E fails \in BOOLEAN : HttpFinish(fails)
      <3>1. cut' \in BOOLEAN
        BY <2>5 DEF HttpFinish
      <3>2. QED  BY <1>1, <2>5, <3>1 DEF HttpFinish, Return, Forget
    <2>6. CASE (\E n \in 0..MaxNics : \E with_mac \in SUBSET (1..n) : Tcp4Start(n, with_mac))
               \/ ConnectFails \/ NoConnection
      BY <1>1, <2>6 DEF Tcp4Start, ConnectFails, NoConnection, Return, buffers
    <2>7. CASE \E reached \in BOOLEAN : TransmitFails(reached)
      BY <1>1, <2>7 DEF TransmitFails, Return, buffers
    <2>8. CASE ReceiveEnds
      <3>1. cut' \in BOOLEAN /\ pc' = "close"
        BY <2>8 DEF ReceiveEnds
      <3>2. QED  BY <1>1, <2>8, <3>1 DEF ReceiveEnds, buffers
    <2>9. CASE Tcp4Finish
      BY <1>1, <2>9 DEF Tcp4Finish, Return, Forget
    <2>10. QED  BY <1>6, <2>1, <2>2, <2>3, <2>4, <2>5, <2>6, <2>7, <2>8, <2>9 DEF Unanswered
  <1>7. QED  BY <1>3, <1>4, <1>5, <1>6 DEF Next

-----------------------------------------------------------------------------
(* The buffers                                                              *)

\* What the drain loop asks for fits, and it asks until nothing is missing.
LEMMA WantFacts ==
    ASSUME response \in Responses, Len(rx_body) \in Nat, content_length \subseteq {response.body}
    PROVE  /\ Want \in Int
           /\ Want > 0 => content_length = {response.body} /\ Len(rx_body) + Want = Ready(response)
           /\ Want <= 0 /\ content_length # {} => Len(rx_body) >= Ready(response)
  <1>1. response.body \in Nat /\ RxBuffer \in Nat
    BY ResponseType, Consts
  <1>2. CASE content_length = {}
    <2>1. Want = 0
      BY <1>2 DEF Want
    <2>2. QED  BY <1>2, <2>1
  <1>3. CASE content_length = {response.body}
    <2>1. content_length # {} /\ (CHOOSE n \in content_length : TRUE) = response.body
      BY <1>3
    <2>2. Want = IF Len(rx_body) >= RxBuffer THEN 0 ELSE Smaller(RxBuffer, response.body) - Len(rx_body)
      BY <2>1 DEF Want
    <2>3. Smaller(RxBuffer, response.body) = Ready(response) /\ Ready(response) \in Nat
          /\ Ready(response) <= RxBuffer
      BY <1>1 DEF Ready, Smaller
    <2>4. QED  BY <1>1, <1>3, <2>2, <2>3
  <1>4. QED  BY <1>2, <1>3

LEMMA DrainedType ==
    ASSUME rx_body \in Seq(Nat), NEW got \in Nat, NEW counted \in Nat, got <= counted
    PROVE  Drained(got, counted) \in Seq(Nat)
           /\ Len(Drained(got, counted)) = Len(rx_body) + counted
  <1>1. PICK k \in Nat : k = Len(rx_body)
    OBVIOUS
  <1>2. PICK s \in Seq(Nat) : s = Span(k + 1, k + got) /\ Len(s) = got
    <2>1. k + 1 \in Nat \ {0} /\ k + got \in Nat /\ (k + got) + 1 = (k + 1) + got
      OBVIOUS
    <2>2. QED  BY <2>1, SpanType
  <1>3. PICK u \in Seq(Nat) : u = Unwritten(counted - got) /\ Len(u) = counted - got
    <2>1. counted - got \in Nat
      OBVIOUS
    <2>2. QED  BY <2>1, UnwrittenType
  <1>4. PICK t \in Seq(Nat) : t = rx_body \o s /\ Len(t) = k + got
    <2>1. rx_body \o s \in Seq(Nat) /\ Len(rx_body \o s) = Len(rx_body) + Len(s)
      BY <1>2, ConcatProperties
    <2>2. QED  BY <1>1, <1>2, <2>1
  <1>5. t \o u \in Seq(Nat) /\ Len(t \o u) = (k + got) + (counted - got)
    BY <1>3, <1>4, ConcatProperties
  <1>6. Drained(got, counted) = t \o u
    BY <1>1, <1>2, <1>3, <1>4 DEF Drained
  <1>7. (k + got) + (counted - got) = k + counted
    OBVIOUS
  <1>8. QED  BY <1>1, <1>5, <1>6, <1>7

LEMMA BufferStep == IInv /\ [Next]_vars => BufferInv'
  <1> SUFFICES ASSUME IInv, [Next]_vars PROVE BufferInv'
    OBVIOUS
  <1>1. /\ response \in Responses
        /\ rx_body \in Seq(Nat) /\ Len(rx_body) \in Nat /\ Len(rx_body) <= RxBuffer
        /\ content_length \subseteq {response.body}
        /\ idle \in 0..MaxDrainIdle /\ received \in 0..Stream
        /\ pc # "drain" => content_length = {}
        /\ pc \notin {"receive", "close"} => received = 0
    BY DEF IInv, BufferInv, LocalInv
  <1>2. ASSUME response' \in Responses PROVE Stream' \in Nat
    BY <1>2, ResponseType DEF Stream
  <1>3. (RxBuffer \in Nat /\ MaxDrainIdle \in Nat) /\ <<>> \in Seq(Nat) /\ Len(<<>>) = 0
    BY Consts
  <1> DEFINE Read == rx_body' \in Seq(Nat) /\ Len(rx_body') <= RxBuffer
             Announced == content_length' \subseteq {response'.body}
             Idled == idle' \in 0..MaxDrainIdle
             Same == UNCHANGED <<response, rx_body, content_length, idle, received>>
             Cleared == rx_body' = <<>> /\ content_length' = {} /\ idle' = 0 /\ received' = 0
                        /\ response' = response
             Fresh == /\ UNCHANGED <<rx_body, content_length, idle>> /\ received' = 0
                      /\ response' \in Responses /\ content_length = {}
             Drains == UNCHANGED <<response, received>>
  <1>4. CASE Same
    BY <1>1, <1>4 DEF BufferInv, Stream
  <1>5. CASE Cleared
    <2>1. Stream' \in Nat
      BY <1>1, <1>2, <1>5
    <2>2. received' \in 0..Stream' /\ idle' \in 0..MaxDrainIdle
      BY <1>3, <1>5, <2>1
    <2>3. QED  BY <1>3, <1>5, <2>2 DEF BufferInv
  <1>6. CASE Fresh
    <2>1. received' \in 0..Stream'
      BY <1>2, <1>6
    <2>2. QED  BY <1>1, <1>6, <2>1 DEF BufferInv
  <1>7. CASE Drains /\ Read /\ Announced /\ Idled
    BY <1>1, <1>7 DEF BufferInv, Stream
  <1>8. CASE UNCHANGED vars \/ \E m \in {"POST", "GET"} : Request(m)
    <2>1. Same
      BY <1>8 DEF vars, Request, buffers
    <2>2. QED  BY <1>4, <2>1
  <1>9. CASE Answered
    <2>1. CASE (\E r \in Responses : HttpRequest(r) \/ Transmit(r))
               \/ (\E r \in Responses : \E n \in 0..r.body : HttpGet(r, n))
      <3>1. Fresh
        BY <1>1, <2>1 DEF HttpRequest, Transmit, HttpGet, buffers
      <3>2. QED  BY <1>6, <3>1
    <2>2. CASE \E n \in 0..RxBuffer : FirstResponse(n)
      <3>1. PICK n \in 0..RxBuffer : FirstResponse(n)
        BY <2>2
      <3>2. n \in Nat /\ n <= RxBuffer
        BY <1>3
      <3>3. Read
        BY <3>1, <3>2, BodyType DEF FirstResponse
      <3>4. response.length \subseteq {response.body}
        BY <1>1, ResponseType
      <3>5. Drains /\ Announced /\ Idled
        BY <1>1, <3>1, <3>4 DEF FirstResponse
      <3>6. QED  BY <1>7, <3>3, <3>5
    <2>3. CASE \E n \in 0..RxBuffer : DrainRead(n)
      <3>1. PICK n \in 0..RxBuffer : DrainRead(n)
        BY <2>3
      <3>2. Want \in Int /\ (Want > 0 => Len(rx_body) + Want = Ready(response))
        BY <1>1, WantFacts
      <3>3. n \in Nat /\ n >= 1 /\ n <= Want
        BY <3>1, <3>2 DEF DrainRead
      <3>4. Len(rx_body) + n <= RxBuffer
        <4>1. Ready(response) \in Nat /\ Ready(response) <= RxBuffer
          BY <1>1, ResponseType
        <4>2. QED  BY <1>1, <1>3, <3>2, <3>3, <4>1
      <3>5. Read
        <4>1. rx_body' = Drained(n, n)
          BY <3>1 DEF DrainRead, Counted
        <4>2. n <= n
          BY <3>3
        <4>3. Drained(n, n) \in Seq(Nat) /\ Len(Drained(n, n)) = Len(rx_body) + n
          BY <1>1, <3>3, <4>2, DrainedType
        <4>4. QED  BY <3>4, <4>1, <4>3
      <3>6. Drains /\ Announced /\ Idled
        BY <1>1, <1>3, <3>1 DEF DrainRead
      <3>7. QED  BY <1>7, <3>5, <3>6
    <2>4. CASE DrainEmpty
      <3>1. Idled
        BY <1>1, <1>3, <2>4 DEF DrainEmpty
      <3>2. Drains /\ Read /\ Announced
        BY <1>1, <2>4 DEF DrainEmpty
      <3>3. QED  BY <1>7, <3>1, <3>2
    <2>5. CASE Connects
      <3>1. Same
        BY <2>5 DEF Connects, buffers
      <3>2. QED  BY <1>4, <3>1
    <2>6. CASE \E n \in 1..Stream : Receive(n)
      <3>1. Stream \in Nat
        BY <1>1, ResponseType DEF Stream
      <3>2. received' \in 0..Stream
        BY <1>1, <2>6, <3>1 DEF Receive
      <3>3. Stream' = Stream
        BY <2>6 DEF Receive, Stream
      <3>4. UNCHANGED <<response, rx_body, content_length, idle>>
        BY <2>6 DEF Receive
      <3>5. QED  BY <1>1, <3>2, <3>3, <3>4 DEF BufferInv
    <2>7. QED  BY <1>9, <2>1, <2>2, <2>3, <2>4, <2>5, <2>6 DEF Answered
  <1>10. CASE Unanswered
    <2>1. CASE HttpUnavailable \/ HttpOpen \/ (\E reached \in BOOLEAN : HttpGetFails(reached))
               \/ (\E n \in 0..MaxNics : \E with_mac \in SUBSET (1..n) : Tcp4Start(n, with_mac))
               \/ ConnectFails \/ NoConnection \/ (\E reached \in BOOLEAN : TransmitFails(reached))
               \/ ReceiveEnds
      <3>1. Same
        BY <2>1 DEF HttpUnavailable, HttpOpen, HttpGetFails, Tcp4Start, ConnectFails, NoConnection,
                    TransmitFails, ReceiveEnds, buffers
      <3>2. QED  BY <1>4, <3>1
    <2>2. CASE (\E reached \in BOOLEAN : HttpFails(reached)) \/ (\E fails \in BOOLEAN : HttpFinish(fails))
               \/ Tcp4Finish
      <3>1. Cleared
        BY <2>2 DEF HttpFails, HttpFinish, Tcp4Finish, Forget
      <3>2. QED  BY <1>5, <3>1
    <2>3. CASE \E n, counted \in 0..RxBuffer : FirstResponseMisread(n, counted)
      <3>1. PICK n \in 0..RxBuffer, counted \in 0..RxBuffer : FirstResponseMisread(n, counted)
        BY <2>3
      <3>2. n \in Nat /\ counted \in Nat /\ counted - n \in Nat /\ counted <= RxBuffer
        <4>1. n <= counted
          BY <3>1 DEF FirstResponseMisread
        <4>2. QED  BY <1>3, <4>1
      <3>3. PICK s \in Seq(Nat) : s = Span(1, n) /\ Len(s) = n
        BY <3>2, BodyType
      <3>4. PICK u \in Seq(Nat) : u = Unwritten(counted - n) /\ Len(u) = counted - n
        BY <3>2, UnwrittenType
      <3>5. s \o u \in Seq(Nat) /\ Len(s \o u) = n + (counted - n)
        BY <3>3, <3>4, ConcatProperties
      <3>6. Read
        <4>1. rx_body' = s \o u
          BY <3>1, <3>3, <3>4 DEF FirstResponseMisread
        <4>2. Len(s \o u) <= RxBuffer
          BY <1>3, <3>2, <3>5
        <4>3. QED  BY <3>5, <4>1, <4>2
      <3>7. response.length \subseteq {response.body}
        BY <1>1, ResponseType
      <3>8. Drains /\ Announced /\ Idled
        BY <1>1, <3>1, <3>7 DEF FirstResponseMisread
      <3>9. QED  BY <1>7, <3>6, <3>8
    <2>4. CASE \E n \in 0..RxBuffer : DrainStalls(n)
      <3>1. PICK n \in 0..RxBuffer : DrainStalls(n)
        BY <2>4
      <3>2. Want \in Int /\ (Want > 0 => Len(rx_body) + Want = Ready(response))
        BY <1>1, WantFacts
      <3>3. n \in Nat /\ Want \in Nat /\ Want > 0 /\ n <= Want
        BY <3>1, <3>2 DEF DrainStalls
      <3>4. Len(rx_body) + Want <= RxBuffer
        <4>1. Ready(response) \in Nat /\ Ready(response) <= RxBuffer
          BY <1>1, ResponseType
        <4>2. QED  BY <3>2, <3>3, <4>1
      <3>5. Read
        <4>1. rx_body' = Drained(n, Want)
          BY <3>1 DEF DrainStalls
        <4>2. Drained(n, Want) \in Seq(Nat) /\ Len(Drained(n, Want)) = Len(rx_body) + Want
          BY <1>1, <3>3, DrainedType
        <4>3. QED  BY <3>4, <4>1, <4>2
      <3>6. Drains /\ Announced /\ Idled
        BY <1>1, <1>3, <3>1 DEF DrainStalls
      <3>7. QED  BY <1>7, <3>5, <3>6
    <2>5. CASE \E n, counted \in 0..RxBuffer : DrainTokenFails(n, counted)
      <3>1. PICK n \in 0..RxBuffer, counted \in 0..RxBuffer : DrainTokenFails(n, counted)
        BY <2>5
      <3>2. Want \in Int /\ (Want > 0 => Len(rx_body) + Want = Ready(response))
        BY <1>1, WantFacts
      <3>3. n \in Nat /\ counted \in Nat /\ Want > 0 /\ n <= counted /\ counted <= Want
        BY <3>1, <3>2 DEF DrainTokenFails
      <3>4. Len(rx_body) + counted <= RxBuffer
        <4>1. Ready(response) \in Nat /\ Ready(response) <= RxBuffer
          BY <1>1, ResponseType
        <4>2. QED  BY <1>1, <1>3, <3>2, <3>3, <4>1
      <3>5. Read
        <4>1. rx_body' = Drained(n, counted)
          BY <3>1 DEF DrainTokenFails
        <4>2. Drained(n, counted) \in Seq(Nat) /\ Len(Drained(n, counted)) = Len(rx_body) + counted
          BY <1>1, <3>3, DrainedType
        <4>3. QED  BY <3>4, <4>1, <4>2
      <3>6. Idled
        BY <1>1, <1>3, <3>1 DEF DrainTokenFails
      <3>7. Drains /\ Announced
        BY <1>1, <3>1 DEF DrainTokenFails
      <3>8. QED  BY <1>7, <3>5, <3>6, <3>7
    <2>6. QED  BY <1>10, <2>1, <2>2, <2>3, <2>4, <2>5 DEF Unanswered
  <1>11. QED  BY <1>8, <1>9, <1>10 DEF Next

-----------------------------------------------------------------------------
(* The NICs                                                                 *)

OneEach(s) == \A i, j \in DOMAIN s : s[i] = s[j] => i = j
Apart(s, t) == \A i \in DOMAIN s, j \in DOMAIN t : s[i] # t[j]
Covers(s, t, U) ==
    \A u \in U : (\E i \in DOMAIN s : s[i] = u) \/ (\E j \in DOMAIN t : t[j] = u)

\* The handles to try are those of S, each once.
LEMMA InOrderFacts ==
    ASSUME NEW S \in SUBSET (1..MaxNics), NEW s \in InOrder(S)
    PROVE  s \in Seq(1..MaxNics) /\ OneEach(s) /\ Covers(<<>>, s, S)
  <1>1. PICK m \in 0..MaxNics : s \in [1..m -> S]
    BY DEF InOrder
  <1>2. m \in Nat
    BY <1>1, Consts
  <1>3. s \in Seq(1..MaxNics) /\ DOMAIN s = 1..m /\ \A i \in 1..m : s[i] \in Nat
    <2>1. s \in [1..m -> 1..MaxNics]
      BY <1>1
    <2>2. QED  BY <1>2, <2>1, Consts
  <1>4. /\ S = {s[i] : i \in DOMAIN s}
        /\ \A i, j \in DOMAIN s :
              i < j => s[j] \notin last_nic /\ (s[i] \in last_nic \/ s[i] < s[j])
    BY DEF InOrder
  <1>5. OneEach(s)
    <2>1. ASSUME NEW i \in 1..m, NEW j \in 1..m, i < j PROVE s[i] # s[j]
      <3>1. s[i] \in Nat /\ s[j] \in Nat
        BY <1>3
      <3>2. s[j] \notin last_nic /\ (s[i] \in last_nic \/ s[i] < s[j])
        BY <1>3, <1>4, <2>1
      <3>3. QED  BY <3>1, <3>2
    <2>2. ASSUME NEW i \in 1..m, NEW j \in 1..m, s[i] = s[j] PROVE i = j
      <3>1. i < j \/ j < i \/ i = j
        BY <1>2
      <3>2. QED  BY <2>1, <2>2, <3>1
    <2>3. QED  BY <1>3, <2>2 DEF OneEach
  <1>6. Covers(<<>>, s, S)
    BY <1>4 DEF Covers
  <1>7. QED  BY <1>3, <1>5, <1>6

\* Trying the next handle moves it from the ones to try to the ones tried.
LEMMA NextHandle ==
    ASSUME NEW S, NEW s \in Seq(S), NEW t \in Seq(S), t # <<>>, NEW U,
           OneEach(s), OneEach(t), Apart(s, t), Covers(s, t, U)
    PROVE  /\ Append(s, Head(t)) \in Seq(S) /\ Tail(t) \in Seq(S)
           /\ OneEach(Append(s, Head(t))) /\ OneEach(Tail(t))
           /\ Apart(Append(s, Head(t)), Tail(t)) /\ Covers(Append(s, Head(t)), Tail(t), U)
  <1>1. /\ Head(t) \in S /\ Tail(t) \in Seq(S) /\ Len(Tail(t)) = Len(t) - 1
        /\ \A i \in 1..Len(Tail(t)) : Tail(t)[i] = t[i + 1]
    BY HeadTailProperties
  <1>2. Len(t) \in Nat \ {0} /\ Head(t) = t[1] /\ DOMAIN t = 1..Len(t) /\ DOMAIN s = 1..Len(s)
        /\ Len(s) \in Nat
    BY EmptySeq, LenProperties
  <1>3. PICK h : h = Head(t)
    OBVIOUS
  <1>4. PICK a \in Seq(S) : a = Append(s, h)
    BY <1>1, <1>3, AppendProperties
  <1>5. /\ Len(a) = Len(s) + 1 /\ DOMAIN a = 1..Len(s) + 1
        /\ \A i \in 1..Len(s) : a[i] = s[i]
        /\ a[Len(s) + 1] = h
    <2>1. Len(a) = Len(s) + 1
        /\ (\A i \in 1..Len(s) : a[i] = s[i])
        /\ a[Len(s) + 1] = h
      BY <1>1, <1>3, <1>4, AppendProperties
    <2>2. QED  BY <1>4, <2>1, LenProperties
  <1>6. PICK r \in Seq(S) : r = Tail(t)
    BY <1>1
  <1>7. DOMAIN r = 1..(Len(t) - 1) /\ \A i \in 1..(Len(t) - 1) : r[i] = t[i + 1]
    BY <1>1, <1>6, LenProperties
  <1>8. PICK n \in Nat : n = Len(s)
    BY <1>2
  <1>9. PICK m \in Nat : m = Len(t) - 1 /\ Len(t) = m + 1
    <2>1. Len(t) - 1 \in Nat /\ Len(t) = (Len(t) - 1) + 1
      BY <1>2
    <2>2. QED  BY <2>1
  <1>10. /\ DOMAIN s = 1..n /\ DOMAIN a = 1..n + 1 /\ (\A i \in 1..n : a[i] = s[i]) /\ a[n + 1] = h
         /\ DOMAIN t = 1..m + 1 /\ DOMAIN r = 1..m /\ (\A i \in 1..m : r[i] = t[i + 1]) /\ t[1] = h
    BY <1>2, <1>3, <1>5, <1>7, <1>8, <1>9
  <1>11. /\ \A i, j \in 1..n : s[i] = s[j] => i = j
         /\ \A i, j \in 1..m + 1 : t[i] = t[j] => i = j
         /\ \A i \in 1..n, j \in 1..m + 1 : s[i] # t[j]
    BY <1>10 DEF OneEach, Apart
  <1>12. OneEach(a)
    <2>1. ASSUME NEW i \in 1..n + 1, NEW j \in 1..n + 1, a[i] = a[j] PROVE i = j
      <3>1. (i \in 1..n \/ i = n + 1) /\ (j \in 1..n \/ j = n + 1) /\ 1 \in 1..m + 1
        OBVIOUS
      <3>2. \A k \in 1..n : a[k] # h
        BY <1>10, <1>11, <3>1
      <3>3. QED  BY <1>10, <1>11, <2>1, <3>1, <3>2
    <2>2. QED  BY <1>10, <2>1 DEF OneEach
  <1>13. OneEach(r) /\ Apart(a, r)
    <2>1. ASSUME NEW i \in 1..m, NEW j \in 1..m, r[i] = r[j] PROVE i = j
      <3>1. i + 1 \in 1..m + 1 /\ j + 1 \in 1..m + 1
        OBVIOUS
      <3>2. t[i + 1] = t[j + 1]
        BY <1>10, <2>1
      <3>3. i + 1 = j + 1
        BY <1>11, <3>1, <3>2
      <3>4. QED  BY <3>3
    <2>2. ASSUME NEW i \in 1..n + 1, NEW j \in 1..m PROVE a[i] # r[j]
      <3>1. (i \in 1..n \/ i = n + 1) /\ j + 1 \in 1..m + 1 /\ 1 \in 1..m + 1 /\ j + 1 # 1
        OBVIOUS
      <3>2. r[j] = t[j + 1]
        BY <1>10
      <3>3. t[j + 1] # t[1]
        BY <1>11, <3>1
      <3>4. QED  BY <1>10, <1>11, <3>1, <3>2, <3>3
    <2>3. QED  BY <1>10, <2>1, <2>2 DEF OneEach, Apart
  <1>14. Covers(a, r, U)
    <2>1. ASSUME NEW u \in U PROVE (\E i \in 1..n + 1 : a[i] = u) \/ (\E j \in 1..m : r[j] = u)
      <3>1. CASE \E i \in 1..n : s[i] = u
        <4>1. \A i \in 1..n : i \in 1..n + 1
          OBVIOUS
        <4>2. QED  BY <1>10, <3>1, <4>1
      <3>2. CASE \E j \in 1..m + 1 : t[j] = u
        <4>1. PICK j \in 1..m + 1 : t[j] = u
          BY <3>2
        <4>2. CASE j = 1
          <5>1. n + 1 \in 1..n + 1
            OBVIOUS
          <5>2. QED  BY <1>10, <4>1, <4>2, <5>1
        <4>3. CASE j # 1
          <5>1. PICK k \in 1..m : j = k + 1
            <6>1. j - 1 \in 1..m /\ j = (j - 1) + 1
              BY <4>3
            <6>2. QED  BY <6>1
          <5>2. QED  BY <1>10, <4>1, <5>1
        <4>4. QED  BY <4>2, <4>3
      <3>3. QED  BY <1>10, <3>1, <3>2 DEF Covers
    <2>2. QED  BY <1>10, <2>1 DEF Covers
  <1>15. QED  BY <1>3, <1>4, <1>6, <1>12, <1>13, <1>14

LEMMA NicStep == IInv /\ [Next]_vars => NicInv'
  <1> SUFFICES ASSUME IInv, [Next]_vars PROVE NicInv'
    OBVIOUS
  <1> DEFINE Early == {"http", "request", "response", "drain", "tcp4"}
             Untouched == UNCHANGED <<last_nic, nics, tried, usable>>
  <1>1. /\ last_nic \in {{}} \cup {{i} : i \in 1..MaxNics}
        /\ nics \in Seq(1..MaxNics) /\ tried \in Seq(1..MaxNics) /\ usable \subseteq 1..MaxNics
        /\ pc \in Early => tried = <<>>
        /\ OneEach(tried)
        /\ pc = "scan" => OneEach(nics) /\ Apart(tried, nics) /\ Covers(tried, nics, usable)
    BY DEF IInv, NicInv, OneEach, Apart, Covers
  <1>2. SUFFICES
           /\ last_nic' \in {{}} \cup {{i} : i \in 1..MaxNics}
           /\ nics' \in Seq(1..MaxNics) /\ tried' \in Seq(1..MaxNics) /\ usable' \subseteq 1..MaxNics
           /\ pc' \in Early => tried' = <<>>
           /\ OneEach(tried')
           /\ pc' = "scan" => OneEach(nics') /\ Apart(tried', nics') /\ Covers(tried', nics', usable')
    BY DEF NicInv, OneEach, Apart, Covers
  <1>3. CASE Untouched /\ pc' # "scan" /\ (pc' \in Early => pc \in Early)
    BY <1>1, <1>3
  <1>4. CASE UNCHANGED vars
    BY <1>1, <1>4 DEF vars, scan
  <1>5. CASE \E m \in {"POST", "GET"} : Request(m)
    <2>1. nics' = <<>> /\ tried' = <<>> /\ usable' = {} /\ last_nic' = last_nic /\ pc' = "http"
      BY <1>5 DEF Request
    <2>2. OneEach(tried')
      BY <2>1 DEF OneEach
    <2>3. QED  BY <1>1, <2>1, <2>2
  <1>6. CASE Answered
    <2>1. CASE Connects
      <3>1. /\ pc = "scan" /\ nics # <<>> /\ tried' = Append(tried, Head(nics))
            /\ last_nic' = {Head(nics)} /\ pc' = "transmit" /\ nics' = nics /\ usable' = usable
        BY <2>1 DEF Connects
      <3>2. Append(tried, Head(nics)) \in Seq(1..MaxNics) /\ OneEach(Append(tried, Head(nics)))
        BY <1>1, <3>1, NextHandle
      <3>3. Head(nics) \in 1..MaxNics
        BY <1>1, <3>1, HeadTailProperties
      <3>4. QED  BY <1>1, <3>1, <3>2, <3>3
    <2>2. CASE ~Connects
      <3>1. Untouched /\ pc' # "scan" /\ (pc' \in Early => pc \in Early)
        BY <1>6, <2>2 DEF Answered, HttpRequest, Transmit, HttpGet, FirstResponse, DrainRead,
                          DrainEmpty, Receive, Return, HttpNone, scan
      <3>2. QED  BY <1>3, <3>1
    <2>3. QED  BY <2>1, <2>2
  <1>7. CASE Unanswered
    <2>1. CASE \E n \in 0..MaxNics : \E with_mac \in SUBSET (1..n) : Tcp4Start(n, with_mac)
      <3>1. PICK n \in 0..MaxNics : \E with_mac \in SUBSET (1..n) : Tcp4Start(n, with_mac)
        BY <2>1
      <3>2. PICK with_mac \in SUBSET (1..n) : Tcp4Start(n, with_mac)
        BY <3>1
      <3>3. PICK S : S = (last_nic \cap 1..n) \cup with_mac
        OBVIOUS
      <3>4. S \in SUBSET (1..MaxNics) /\ with_mac \subseteq S
        <4>1. 1..n \subseteq 1..MaxNics
          BY Consts
        <4>2. QED  BY <3>3, <4>1
      <3>5. /\ nics' \in InOrder(S) /\ pc = "tcp4" /\ pc' = "scan" /\ usable' = with_mac
            /\ tried' = tried /\ last_nic' = last_nic
        BY <3>2, <3>3 DEF Tcp4Start, NicsToTry
      <3>6. nics' \in Seq(1..MaxNics) /\ OneEach(nics') /\ Covers(<<>>, nics', S)
        BY <3>4, <3>5, InOrderFacts
      <3>7. tried' = <<>>
        BY <1>1, <3>5
      <3>8. Apart(tried', nics')
        BY <3>7 DEF Apart
      <3>9. Covers(tried', nics', usable')
        BY <3>4, <3>5, <3>6, <3>7 DEF Covers
      <3>10. QED  BY <1>1, <3>4, <3>5, <3>6, <3>8, <3>9
    <2>2. CASE ConnectFails
      <3>1. /\ pc = "scan" /\ nics # <<>> /\ tried' = Append(tried, Head(nics)) /\ nics' = Tail(nics)
            /\ pc' = pc /\ last_nic' = last_nic /\ usable' = usable
        BY <2>2 DEF ConnectFails
      <3>2. /\ Append(tried, Head(nics)) \in Seq(1..MaxNics) /\ Tail(nics) \in Seq(1..MaxNics)
            /\ OneEach(Append(tried, Head(nics))) /\ OneEach(Tail(nics))
            /\ Apart(Append(tried, Head(nics)), Tail(nics))
            /\ Covers(Append(tried, Head(nics)), Tail(nics), usable)
        BY <1>1, <3>1, NextHandle
      <3>3. QED  BY <1>1, <3>1, <3>2
    <2>3. CASE HttpUnavailable \/ HttpOpen \/ (\E reached \in BOOLEAN : HttpFails(reached))
               \/ (\E reached \in BOOLEAN : HttpGetFails(reached))
               \/ Misreads
               \/ (\E fails \in BOOLEAN : HttpFinish(fails)) \/ NoConnection
               \/ (\E reached \in BOOLEAN : TransmitFails(reached)) \/ ReceiveEnds \/ Tcp4Finish
      <3>1. Untouched /\ pc' # "scan" /\ (pc' \in Early => pc \in Early)
        BY <2>3 DEF HttpUnavailable, HttpOpen, HttpFails, HttpGetFails, FirstResponseMisread,
                    DrainStalls, DrainTokenFails, Misreads, HttpFinish, NoConnection, TransmitFails, ReceiveEnds, Tcp4Finish,
                    Return, HttpNone, scan
      <3>2. QED  BY <1>3, <3>1
    <2>4. QED  BY <1>7, <2>1, <2>2, <2>3 DEF Unanswered, Misreads
  <1>8. QED  BY <1>4, <1>5, <1>6, <1>7 DEF Next

-----------------------------------------------------------------------------
(* The body                                                                 *)

\* What is left of a body is a body; nothing is lost if no blank line can be taken
\* for the end of the headers.
LEMMA StripFacts ==
    ASSUME NEW b \in Seq(Nat)
    PROVE  Strip(b) \in Seq(Nat) /\ (auth \/ response.blank = {} => Strip(b) = b)
  <1> DEFINE ends == {i \in DOMAIN b : b[i] \in response.blank}
  <1>1. Strip(b) = IF auth \/ ends = {} THEN b
                   ELSE SubSeq(b, (CHOOSE i \in ends : TRUE) + 1, Len(b))
    BY DEF Strip
  <1>2. response.blank = {} => ends = {}
    OBVIOUS
  <1>3. CASE auth \/ ends = {}
    BY <1>1, <1>3
  <1>4. CASE ~(auth \/ ends = {})
    <2>1. PICK i \in ends : i = CHOOSE k \in ends : TRUE
      BY <1>4
    <2>2. i + 1 \in Int /\ i + 1 >= 1 /\ Len(b) \in Nat /\ DOMAIN b = 1..Len(b)
      BY <2>1, LenProperties
    <2>3. \A k \in i + 1 .. Len(b) : b[k] \in Nat
      BY <2>2, ElementOfSeq
    <2>4. SubSeq(b, i + 1, Len(b)) \in Seq(Nat)
      BY <2>2, <2>3, SubSeqProperties
    <2>5. Strip(b) = SubSeq(b, i + 1, Len(b))
      BY <1>1, <1>4, <2>1
    <2>6. QED  BY <1>2, <1>4, <2>4, <2>5
  <1>5. QED  BY <1>3, <1>4

\* A response that TCP4 has received to its end is trimmed to its body.
LEMMA TrimmedFacts ==
    ASSUME response \in Responses, received \in 0..Stream, received >= response.head
    PROVE  /\ Trimmed \in Nat
           /\ Complete(received) \/ received = Stream => Trimmed = response.body
  <1>1. /\ response.head \in Nat /\ response.body \in Nat /\ response.extra \in Nat
        /\ response.length \in {{}, {response.body}} /\ (response.length = {} => response.extra = 0)
    BY ResponseType
  <1>2. received \in Nat /\ received <= Stream /\ Stream = response.head + response.body + response.extra
    BY <1>1 DEF Stream
  <1>3. PICK raw \in Nat : raw = received - response.head
    <2>1. received - response.head \in Nat
      BY <1>1, <1>2
    <2>2. QED  BY <2>1
  <1>4. Trimmed = IF \E c \in response.length : c <= raw THEN response.body ELSE raw
    BY <1>3 DEF Trimmed
  <1>5. CASE response.length = {}
    <2>1. Trimmed = raw /\ ~Complete(received)
      BY <1>4, <1>5 DEF Complete
    <2>2. received = Stream => raw = response.body
      BY <1>1, <1>2, <1>3, <1>5
    <2>3. QED  BY <2>1, <2>2
  <1>6. CASE response.length = {response.body}
    <2>1. Complete(received) => received >= response.head + response.body
      BY <1>6 DEF Complete
    <2>2. received = Stream => received >= response.head + response.body
      BY <1>1, <1>2
    <2>3. received >= response.head + response.body => response.body <= raw
      BY <1>1, <1>2, <1>3
    <2>4. response.body <= raw => Trimmed = response.body
      BY <1>4, <1>6
    <2>5. Trimmed \in Nat
      BY <1>1, <1>3, <1>4
    <2>6. QED  BY <2>1, <2>2, <2>3, <2>4, <2>5
  <1>7. QED  BY <1>1, <1>5, <1>6

LEMMA BodyStep == IInv /\ [Next]_vars => BodyInv'
  <1> SUFFICES ASSUME IInv, [Next]_vars PROVE BodyInv'
    OBVIOUS
  <1>1. /\ response \in Responses /\ rx_body \in Seq(Nat) /\ Len(rx_body) \in Nat
        /\ content_length \subseteq {response.body} /\ received \in 0..Stream
        /\ pc # "idle" => result = {}
        /\ pc \notin {"drain", "idle"} => misread = FALSE
        /\ pc \notin {"close", "idle"} => cut = FALSE
        /\ misread \in BOOLEAN /\ cut \in BOOLEAN
    BY DEF IInv, BufferInv, LocalInv, DeliverInv
  <1>2. /\ pc \in HoldsHttp => method = "POST"
        /\ pc = "drain" /\ misread = FALSE =>
              /\ rx_body = Span(1, Len(rx_body))
              /\ Len(rx_body) <= Ready(response)
              /\ content_length = response.length
              /\ auth = response.auth
        /\ pc = "close" /\ cut = FALSE => Complete(received) \/ received = Stream
    BY <1>1 DEF IInv, BodyInv
  <1> DEFINE
        Posts == pc' \in HoldsHttp => method' = "POST"
        Reads == pc' = "drain" /\ ~misread' =>
                    /\ rx_body' = Span(1, Len(rx_body'))
                    /\ Len(rx_body') <= Ready(response')
                    /\ content_length' = response'.length
                    /\ auth' = response'.auth
        Stops == pc' = "close" /\ ~cut' => Complete(received)' \/ received' = Stream'
        Exact == \A b \in result' : b \in Seq(Nat)
                     /\ (~misread' /\ ~cut' /\ (via' = "http" => HttpSuits(response)')
                         => b = Span(1, response'.body))
  <1>3. SUFFICES Posts /\ Reads /\ Stops /\ Exact
    BY DEF BodyInv, BodyExact
  <1>4. CASE result' = {} /\ pc' \notin {"close", "drain"} /\ Posts
    BY <1>4
  <1>5. CASE UNCHANGED vars
    <2>1. UNCHANGED <<pc, method, misread, cut, rx_body, content_length, auth, response, received, result, via>>
      BY <1>5 DEF vars, buffers, outcome
    <2>2. Posts /\ Reads
      BY <1>1, <1>2, <2>1
    <2>3. Stops
      BY <1>1, <1>2, <2>1 DEF Complete, Stream
    <2>4. Exact
      BY <1>1, <2>1 DEF IInv, BodyInv, BodyExact, HttpSuits
    <2>5. QED  BY <2>2, <2>3, <2>4
  <1>6. CASE \E m \in {"POST", "GET"} : Request(m)
    <2>1. result' = {} /\ pc' = "http"
      BY <1>6 DEF Request
    <2>2. QED  BY <1>4, <2>1 DEF HoldsHttp
  <1>7. CASE Answered
    <2>1. CASE (\E r \in Responses : HttpRequest(r)) \/ (\E r \in Responses : Transmit(r)) \/ Connects
      <3>1. result' = {} /\ pc' \notin {"close", "drain"} /\ Posts
        BY <1>1, <1>2, <2>1 DEF HttpRequest, Transmit, Connects, outcome, HoldsHttp
      <3>2. QED  BY <1>4, <3>1
    <2>2. CASE \E r \in Responses : \E n \in 0..r.body : HttpGet(r, n)
      <3>1. PICK r \in Responses : \E n \in 0..r.body : HttpGet(r, n)
        BY <2>2
      <3>2. PICK n \in 0..r.body : HttpGet(r, n)
        BY <3>1
      <3>3. r.body \in Nat /\ n \in Nat /\ n <= r.body
        BY ResponseType
      <3>4. CASE r.ok
        <4>1. pc' = "idle" /\ result' = {Span(1, n)} /\ response' = r /\ (~cut' => ~(n < r.body))
          BY <3>2, <3>4 DEF HttpGet, Return
        <4>2. ~cut' => n = r.body
          BY <3>3, <4>1
        <4>3. Span(1, n) \in Seq(Nat)
          BY <3>3, BodyType
        <4>4. QED  BY <4>1, <4>2, <4>3 DEF HoldsHttp
      <3>5. CASE ~r.ok
        <4>1. pc' = "tcp4" /\ result' = result /\ pc = "http"
          BY <3>2, <3>5 DEF HttpGet, HttpNone, outcome
        <4>2. QED  BY <1>1, <1>4, <4>1 DEF HoldsHttp
      <3>6. QED  BY <3>4, <3>5
    <2>3. CASE \E n \in 0..RxBuffer : FirstResponse(n)
      <3>1. PICK n \in 0..RxBuffer : FirstResponse(n)
        BY <2>3
      <3>2. /\ pc = "response" /\ pc' = "drain" /\ n \in 0..Ready(response) /\ rx_body' = Span(1, n)
            /\ content_length' = response.length /\ auth' = response.auth /\ response' = response
            /\ result' = result /\ method' = method
        BY <3>1 DEF FirstResponse, outcome
      <3>3. n \in Nat /\ n <= Ready(response)
        BY <1>1, <3>2, ResponseType
      <3>4. Len(rx_body') = n
        BY <3>2, <3>3, BodyType
      <3>5. Reads
        BY <3>2, <3>3, <3>4
      <3>6. QED  BY <1>1, <1>2, <3>2, <3>5 DEF HoldsHttp
    <2>4. CASE \E n \in 0..RxBuffer : DrainRead(n)
      <3>1. PICK n \in 0..RxBuffer : DrainRead(n)
        BY <2>4
      <3>2. /\ pc = "drain" /\ pc' = "drain" /\ n \in 1..Want /\ rx_body' = Drained(n, n)
            /\ content_length' = content_length /\ auth' = auth /\ response' = response
            /\ result' = result /\ method' = method /\ misread' = misread
        BY <3>1 DEF DrainRead, outcome, Counted
      <3>3. Want \in Int /\ (Want > 0 => Len(rx_body) + Want = Ready(response))
        BY <1>1, WantFacts
      <3>4. n \in Nat /\ n >= 1 /\ n <= Want
        BY <3>2, <3>3
      <3>5. PICK k \in Nat : k = Len(rx_body)
        BY <1>1
      <3>6. PICK m \in Nat : m = k + n
        BY <3>4
      <3>7. m <= Ready(response)
        <4>1. Ready(response) \in Nat
          BY <1>1, ResponseType
        <4>2. QED  BY <3>3, <3>4, <3>5, <3>6, <4>1
      <3>8. ASSUME misread = FALSE PROVE rx_body' = Span(1, m)
        <4>1. rx_body = Span(1, k)
          BY <1>2, <3>2, <3>5, <3>8
        <4>2. Span(1, k) \o Span(k + 1, m) = Span(1, m)
          BY <3>4, <3>6, SpanGrows
        <4>3. n - n = 0 /\ Unwritten(0) = <<>>
          BY <3>4, UnwrittenType, EmptySeq DEF Unwritten
        <4>4. Drained(n, n) = (rx_body \o Span(k + 1, m)) \o <<>>
          BY <3>5, <3>6, <4>3 DEF Drained
        <4>5. Span(1, m) \in Seq(Nat)
          BY BodyType
        <4>6. QED  BY <3>2, <4>1, <4>2, <4>4, <4>5, ConcatEmptySeq
      <3>9. ASSUME misread = FALSE PROVE Len(rx_body') = m
        BY <3>8, <3>9, BodyType
      <3>10. Reads
        BY <1>1, <1>2, <3>2, <3>7, <3>8, <3>9
      <3>11. QED  BY <1>1, <1>2, <3>2, <3>10
    <2>5. CASE DrainEmpty
      <3>1. /\ pc = "drain" /\ UNCHANGED <<pc, rx_body, content_length, auth, response, result, method, misread>>
        BY <2>5 DEF DrainEmpty, outcome
      <3>2. QED  BY <1>1, <1>2, <3>1
    <2>6. CASE \E n \in 1..Stream : Receive(n)
      <3>1. PICK n \in 1..Stream : Receive(n)
        BY <2>6
      <3>2. /\ pc = "receive" /\ received' = n /\ pc' = (IF Complete(n) THEN "close" ELSE "receive")
            /\ result' = result /\ response' = response
        BY <3>1 DEF Receive, outcome
      <3>3. Complete(received)' <=> Complete(n)
        BY <3>2 DEF Complete
      <3>4. QED  BY <1>1, <3>2, <3>3 DEF HoldsHttp
    <2>7. QED  BY <1>7, <2>1, <2>2, <2>3, <2>4, <2>5, <2>6 DEF Answered
  <1>8. CASE Unanswered
    <2>1. CASE HttpUnavailable \/ HttpOpen \/ (\E reached \in BOOLEAN : HttpFails(reached))
               \/ (\E reached \in BOOLEAN : HttpGetFails(reached))
               \/ (\E n \in 0..MaxNics : \E with_mac \in SUBSET (1..n) : Tcp4Start(n, with_mac))
               \/ ConnectFails \/ NoConnection \/ (\E reached \in BOOLEAN : TransmitFails(reached))
      <3>1. result' = {} /\ pc' \notin {"close", "drain"} /\ Posts
        BY <1>1, <2>1 DEF HttpUnavailable, HttpOpen, HttpFails, HttpGetFails, Tcp4Start, ConnectFails,
                          NoConnection, TransmitFails, Return, HttpNone, outcome, HoldsHttp
      <3>2. QED  BY <1>4, <3>1
    <2>2. CASE Misreads
      <3>1. /\ pc \in HoldsHttp /\ pc # "idle" /\ pc' = "drain" /\ misread' = TRUE
            /\ result' = result /\ method' = method
        BY <2>2 DEF Misreads, FirstResponseMisread, DrainStalls, DrainTokenFails, outcome, HoldsHttp
      <3>2. QED  BY <1>1, <1>2, <3>1
    <2>3. CASE ReceiveEnds
      <3>1. /\ pc = "receive" /\ pc' = "close" /\ (~cut' => ~(received < Stream))
            /\ UNCHANGED <<received, response, result>>
        BY <2>3 DEF ReceiveEnds, buffers, outcome
      <3>2. Stream' = Stream /\ Stream \in Nat
        BY <1>1, <3>1, ResponseType DEF Stream
      <3>3. ~cut' => received = Stream
        BY <1>1, <3>1, <3>2
      <3>4. QED  BY <1>1, <3>1, <3>2, <3>3 DEF HoldsHttp
    <2>4. CASE \E fails \in BOOLEAN : HttpFinish(fails)
      <3>1. /\ pc = "drain" /\ pc' = "idle" /\ (~cut' => ~(Want > 0)) /\ result' = {Strip(rx_body)}
            /\ via' = "http" /\ UNCHANGED <<method, response, misread>>
        BY <2>4 DEF HttpFinish, Return
      <3>2. /\ Strip(rx_body) \in Seq(Nat)
            /\ auth \/ response.blank = {} => Strip(rx_body) = rx_body
        BY <1>1, StripFacts
      <3>3. ASSUME ~misread', ~cut', HttpSuits(response)' PROVE Strip(rx_body) = Span(1, response.body)
        <4>1. /\ response.body <= RxBuffer /\ response.length # {}
              /\ response.auth \/ response.blank = {}
          BY <1>2, <3>1, <3>3 DEF HttpSuits, HoldsHttp
        <4>2. misread = FALSE
          BY <1>1, <3>1, <3>3
        <4>3. Strip(rx_body) = rx_body
          BY <1>2, <3>1, <3>2, <4>1, <4>2
        <4>4. Ready(response) = response.body
          <5>1. response.body \in Nat
            BY <1>1, ResponseType
          <5>2. QED  BY <4>1, <5>1, Consts DEF Ready, Smaller
        <4>5. content_length # {}
          BY <1>2, <3>1, <4>1, <4>2
        <4>6. Want \in Int /\ (Want <= 0 => Len(rx_body) >= Ready(response))
          BY <1>1, <4>5, WantFacts
        <4>7. Want <= 0
          BY <3>1, <3>3, <4>6
        <4>8. Len(rx_body) = response.body
          <5>1. response.body \in Nat /\ Len(rx_body) <= response.body /\ Len(rx_body) >= response.body
            BY <1>1, <1>2, <3>1, <4>2, <4>4, <4>6, <4>7, ResponseType
          <5>2. QED  BY <1>1, <5>1
        <4>9. QED  BY <1>2, <3>1, <4>2, <4>3, <4>8
      <3>4. QED  BY <3>1, <3>2, <3>3 DEF HoldsHttp
    <2>5. CASE Tcp4Finish
      <3>1. /\ pc = "close" /\ pc' = "idle" /\ UNCHANGED <<response, cut>>
            /\ result' = {} \/ (received >= response.head /\ result' = {Span(1, Trimmed)})
        BY <2>5 DEF Tcp4Finish, Return
      <3>2. CASE result' = {}
        BY <3>1, <3>2 DEF HoldsHttp
      <3>3. CASE received >= response.head /\ result' = {Span(1, Trimmed)}
        <4>1. Trimmed \in Nat /\ (Complete(received) \/ received = Stream => Trimmed = response.body)
          BY <1>1, <3>3, TrimmedFacts
        <4>2. Span(1, Trimmed) \in Seq(Nat)
          BY <4>1, BodyType
        <4>3. ~cut' => Trimmed = response.body
          BY <1>1, <1>2, <3>1, <4>1
        <4>4. QED  BY <3>1, <3>3, <4>2, <4>3 DEF HoldsHttp
      <3>4. QED  BY <3>1, <3>2, <3>3
    <2>6. QED  BY <1>8, <2>1, <2>2, <2>3, <2>4, <2>5 DEF Unanswered, Misreads
  <1>9. QED  BY <1>5, <1>6, <1>7, <1>8 DEF Next

-----------------------------------------------------------------------------
(* Theorems                                                                 *)

LEMMA InvStep == IInv /\ [Next]_vars => IInv'
  BY ChildrenStep, DeliverStep, LocalStep, BufferStep, NicStep, BodyStep DEF IInv

\* The inductive invariant holds of every run of requests.
THEOREM InvHolds == Spec => []IInv
  BY InitInv, InvStep, PTL DEF Spec

\* The variables hold values of their types: http.rs never counts more bytes than rx_body
\* has, whatever a driver reports, and no more children are made than requests.
THEOREM TypeCorrect == Spec => []TypeOK
  BY InvHolds, InvImplies, PTL

\* Between two requests no more HTTP children are left than POSTs went without an answer
\* over HTTP, as long as the firmware does not fail at releasing them.
THEOREM AnswersAreFree == Spec => []AnswersCostNoHandle
  BY InvHolds, InvImplies, PTL

\* A body that is returned is the one the server sent, unless waiting for it was given
\* up or the length of a token was taken that had not completed with success.
THEOREM BodyIsExact == Spec => []BodyExact
  BY InvHolds, InvImplies, PTL

\* Without a connection, every NIC with a MAC address was tried, and each once.
THEOREM AllNicsTried == Spec => []EveryNicTried
  BY InvHolds, InvImplies, PTL

\* The server receives a request at most once over each transport, and over TCP4 only
\* if HTTP brought no answer.
THEOREM SentTwiceAtMost == Spec => []SentAtMostTwice
  BY InvHolds, InvImplies, PTL
=============================================================================
