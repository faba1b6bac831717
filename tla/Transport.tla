------------------------------ MODULE Transport ------------------------------
(***************************************************************************)
(* One HTTP request after another: src/http_api.rs tries EFI_HTTP_PROTOCOL *)
(* (src/http.rs) and, whenever that brings nothing, HTTP over TCP4         *)
(* (src/tcp4_http.rs).                                                     *)
(*                                                                         *)
(* The firmware's drivers and the server are the environment: each call    *)
(* may fail, complete or stay pending, and a response arrives in segments  *)
(* of any size or not to its end. A byte of a response body is its         *)
(* position in the body, so that a buffer shows where its bytes came from; *)
(* 0 stands for a byte the server did not send.                            *)
(***************************************************************************)
EXTENDS Naturals, Sequences

CONSTANTS
    Responses,      \* what servers may answer
    RxBuffer,       \* length of rx_body, 131072 in http.rs
    MaxResponse,    \* MAX_RESPONSE_BYTES of tcp4_http.rs
    MaxDrainIdle,   \* MAX_DRAIN_IDLE of http.rs
    MaxNics,        \* bound on the TCP4 ServiceBinding handles
    MaxRequests     \* bound on the requests of a boot

\* head and body: their lengths; extra: bytes that TCP delivers past the body; length:
\* the Content-Length, if sent; auth: an Authorization header is sent; blank: where in the
\* body a blank line (CR LF CR LF) ends, if there is one; ok: the status is 200.
ASSUME TransportAssumption ==
    /\ \A r \in Responses :
          /\ r.head \in Nat \ {0}
          /\ r.body \in Nat
          /\ r.extra \in Nat
          /\ r.length \in {{}, {r.body}}
          /\ r.length = {} => r.extra = 0
          /\ r.auth \in BOOLEAN /\ r.ok \in BOOLEAN
          /\ r.blank \in {{}} \cup {{p} : p \in 1..r.body}
    /\ Responses # {}
    /\ {RxBuffer, MaxResponse, MaxDrainIdle, MaxNics, MaxRequests} \subseteq Nat

VARIABLES
    pc, method, requests,
    last_nic,                  \* LAST_WORKING_NIC, if any
    http_children,             \* HTTP child handles that exist
    tcp4_children,             \* TCP4 child handles that exist
    nics,                      \* the ServiceBinding handles still to try
    response,                  \* the answer of the server
    rx_body,                   \* http.rs: the part of rx_body that counts as received
    content_length,            \* http.rs: if known
    auth,                      \* http.rs: an Authorization header was found
    idle,                      \* http.rs: empty reads in a row
    received,                  \* tcp4_http.rs: total_received
    result,                    \* the body the request returned, if any
    \* Histories of the request.
    delivered,                 \* how often the server received it over a transport
    tried,                     \* the NICs a connection was tried on, in order
    usable,                    \* the NICs with a MAC address
    via,                       \* where the result comes from
    misread,                   \* the length of a token that had not completed, or with an
                               \* error, was taken for what arrived
    cut,                       \* waiting for the response was given up
    \* Histories of the boot.
    unanswered,                \* POSTs that EFI_HTTP_PROTOCOL brought no answer to
    refused                    \* the firmware failed at a call that releases a child

children == <<http_children, tcp4_children, refused>>
buffers == <<rx_body, content_length, auth, idle, received>>
scan == <<nics, tried, usable>>
outcome == <<result, via, unanswered>>
vars == <<pc, method, requests, last_nic, children, scan, response, buffers, outcome,
          delivered, misread, cut>>

Span(a, b) == [i \in 1..(b - a + 1) |-> a + i - 1]
Unwritten(n) == [i \in 1..n |-> 0]
Smaller(a, b) == IF a < b THEN a ELSE b
Ready(r) == Smaller(r.body, RxBuffer)

Init ==
    /\ pc = "idle" /\ method = "POST" /\ requests = 0
    /\ last_nic = {}
    /\ http_children = 0 /\ tcp4_children = 0 /\ refused = FALSE /\ unanswered = 0
    /\ nics = <<>> /\ tried = <<>> /\ usable = {}
    /\ response = CHOOSE r \in Responses : TRUE
    /\ rx_body = <<>> /\ content_length = {} /\ auth = FALSE /\ idle = 0 /\ received = 0
    /\ result = {} /\ via = "none"
    /\ delivered = [http |-> 0, tcp4 |-> 0]
    /\ misread = FALSE /\ cut = FALSE

\* http_post_with_session or http_get is called.
Request(m) ==
    /\ pc = "idle"
    /\ requests < MaxRequests
    /\ requests' = requests + 1
    /\ method' = m
    /\ pc' = "http"
    /\ nics' = <<>> /\ tried' = <<>> /\ usable' = {}
    /\ result' = {} /\ via' = "none"
    /\ delivered' = [http |-> 0, tcp4 |-> 0]
    /\ misread' = FALSE /\ cut' = FALSE
    /\ UNCHANGED <<last_nic, children, response, buffers, unanswered>>

Deliver(transport) == delivered' = [delivered EXCEPT ![transport] = @ + 1]

Return(body, transport) ==
    /\ pc' = "idle"
    /\ result' = body
    /\ via' = transport
    /\ UNCHANGED unanswered

-----------------------------------------------------------------------------
(* EFI_HTTP_PROTOCOL. None means that http_api goes on with TCP4.           *)

\* Deviation: HTTP is tried again.
HttpNoneRetry == pc' = "http" /\ UNCHANGED outcome

HttpNone ==
    /\ pc' = "tcp4"
    /\ unanswered' = IF method = "POST" THEN unanswered + 1 ELSE unanswered
    /\ UNCHANGED <<result, via>>

\* rx_body and what was found in the headers are local to a call.
Forget == rx_body' = <<>> /\ content_length' = {} /\ auth' = FALSE /\ idle' = 0 /\ received' = 0

\* No NIC with HTTP, or no child on it; DHCP may fail, the request goes on.
HttpUnavailable ==
    /\ pc = "http"
    /\ HttpNone
    /\ UNCHANGED <<method, requests, last_nic, children, scan, response, buffers,
                   delivered, misread, cut>>

\* http_get: HttpHelper (external) takes its child down when it is dropped. The
\* status must be 200; reading ends with an empty chunk or an error, after n bytes.
HttpGet(r, n) ==
    /\ pc = "http" /\ method = "GET"
    /\ n \in 0..r.body
    /\ Deliver("http")
    /\ response' = r
    /\ cut' = (r.ok /\ n < r.body)
    /\ IF r.ok THEN Return({Span(1, n)}, "http") ELSE HttpNone
    /\ UNCHANGED <<method, requests, last_nic, children, scan, buffers, misread>>

\* It fails, before or after the server has the request.
HttpGetFails(reached) ==
    /\ pc = "http" /\ method = "GET"
    /\ IF reached THEN Deliver("http") ELSE UNCHANGED delivered
    /\ HttpNone
    /\ UNCHANGED <<method, requests, last_nic, children, scan, response, buffers, misread, cut>>

\* http_post_internal: the child is created.
HttpOpen ==
    /\ pc = "http" /\ method = "POST"
    /\ pc' = "request"
    /\ http_children' = http_children + 1
    /\ UNCHANGED <<method, requests, last_nic, tcp4_children, refused, scan, response,
                   buffers, outcome, delivered, misread, cut>>

\* Every error return from here on leaves the child where it is: opening or
\* configuring the protocol, sending (the server may have the request or not), the
\* response's token, and a driver that overran the buffer.
HttpFails(reached) ==
    /\ pc \in {"request", "response", "drain"}
    /\ HttpNone
    /\ IF pc = "request" /\ reached THEN Deliver("http") ELSE UNCHANGED delivered
    /\ Forget
    /\ misread' = FALSE
    /\ UNCHANGED <<method, requests, last_nic, children, scan, response, cut>>

\* Request() completes, now or after polls, or 3000 polls have passed. The server
\* has the request.
HttpRequest(r) ==
    /\ pc = "request"
    /\ Deliver("http")
    /\ response' = r
    /\ pc' = "response"
    /\ UNCHANGED <<method, requests, last_nic, children, scan, buffers, outcome, misread, cut>>

\* The first Response() completes with the headers and n bytes.
FirstResponse(n) ==
    /\ pc = "response"
    /\ n \in 0..Ready(response)
    /\ rx_body' = Span(1, n)
    /\ content_length' = response.length
    /\ auth' = response.auth
    /\ pc' = "drain"
    /\ UNCHANGED <<method, requests, last_nic, children, scan, response, idle, received,
                   outcome, delivered, misread, cut>>

\* It is taken for complete although its token is pending (a Response() that returned
\* SUCCESS is not waited for, a token that was not touched reads SUCCESS, and after 3000
\* polls it is as good as complete) or has completed with an error that was not
\* looked at. The message then holds the size of the buffer, or whatever the driver
\* left there; n bytes are written, the headers are there or not.
FirstResponseMisread(n, counted) ==
    /\ pc = "response"
    /\ n \in 0..Ready(response) /\ n <= counted
    /\ rx_body' = Span(1, n) \o Unwritten(counted - n)
    /\ \/ content_length' = {} /\ auth' = FALSE
       \/ content_length' = response.length /\ auth' = response.auth
    /\ misread' = TRUE
    /\ pc' = "drain"
    /\ UNCHANGED <<method, requests, last_nic, children, scan, response, idle, received,
                   outcome, delivered, cut>>

\* Deviation: the end of the buffer is not looked at.
WantAll ==
    IF content_length = {} THEN 0
    ELSE (CHOOSE n \in content_length : TRUE) - Len(rx_body)

\* How much the drain loop asks for; nothing when it ends.
Want ==
    IF content_length = {} \/ Len(rx_body) >= RxBuffer THEN 0
    ELSE Smaller(RxBuffer, CHOOSE n \in content_length : TRUE) - Len(rx_body)

\* got bytes are written behind those there are, and "counted" of them count.
Drained(got, counted) ==
    rx_body \o Span(Len(rx_body) + 1, Len(rx_body) + got) \o Unwritten(counted - got)

\* Deviation: as many count as were asked for.
CountedWant(got) == Want

\* more_msg.body_length of a token that completed with success.
Counted(got) == got

\* A token completes with success and some bytes.
DrainRead(got) ==
    /\ pc = "drain"
    /\ got \in 1..Want
    /\ rx_body' = Drained(got, Counted(got))
    /\ idle' = 0
    /\ UNCHANGED <<pc, method, requests, last_nic, children, scan, response, content_length,
                   auth, received, outcome, delivered, misread, cut>>

\* It completes with none, which is tried again.
DrainEmpty ==
    /\ pc = "drain" /\ Want > 0
    /\ idle < MaxDrainIdle
    /\ idle' = idle + 1
    /\ UNCHANGED <<pc, method, requests, last_nic, children, scan, response, rx_body,
                   content_length, auth, received, outcome, delivered, misread, cut>>

\* The wait for the token ends while it is pending, with n bytes written. Its
\* message still says as many bytes as were asked for.
DrainStalls(n) ==
    /\ pc = "drain" /\ Want > 0
    /\ n \in 0..(Want - 1)
    /\ rx_body' = Drained(n, Want)
    /\ misread' = TRUE
    /\ idle' = 0
    /\ UNCHANGED <<pc, method, requests, last_nic, children, scan, response, content_length,
                   auth, received, outcome, delivered, cut>>

\* The token completes with an error, which ends the wait like any other status and is
\* not looked at: body_length is as it was or what the driver made of it, and of so many
\* bytes only the first n need be written. (If it is more than was asked for, see
\* HttpFails.)
DrainTokenFails(n, counted) ==
    /\ pc = "drain" /\ Want > 0
    /\ counted \in 0..Want /\ n \in 0..counted
    /\ counted = 0 => idle < MaxDrainIdle
    /\ rx_body' = Drained(n, counted)
    /\ misread' = TRUE
    /\ idle' = IF counted = 0 THEN idle + 1 ELSE 0
    /\ UNCHANGED <<pc, method, requests, last_nic, children, scan, response, content_length,
                   auth, received, outcome, delivered, cut>>

\* "some UEFI implementations return raw HTTP": without an Authorization header, all
\* up to the end of the first blank line in the body counts as headers.
Strip(b) ==
    LET ends == {i \in DOMAIN b : b[i] \in response.blank}
    IN  IF auth \/ ends = {} THEN b
        ELSE SubSeq(b, (CHOOSE i \in ends : TRUE) + 1, Len(b))

\* How many of n children exist after DestroyChild (external): it "returns ACCESS_DENIED
\* while any protocol on that child is still open", and may fail for reasons of its own.
DestroyChild(n, open, fails) == IF open \/ fails THEN n ELSE n - 1

\* Deviation: the protocol is not closed before.
DestroyHttpChildOpen ==
    \E fails \in BOOLEAN :
        /\ http_children' = DestroyChild(http_children, TRUE, fails)
        /\ refused' = (refused \/ fails)

\* CloseProtocol and DestroyChild; if one of them fails this is logged.
DestroyHttpChild ==
    \E fails \in BOOLEAN :
        /\ http_children' = DestroyChild(http_children, FALSE, fails)
        /\ refused' = (refused \/ fails)

\* The end of the loop: all is there, Response() failed, or too many empty reads.
HttpFinish(fails) ==
    /\ pc = "drain"
    /\ Want = 0 \/ fails \/ idle = MaxDrainIdle
    /\ cut' = (Want > 0)
    /\ DestroyHttpChild
    /\ Return({Strip(rx_body)}, "http")
    /\ Forget
    /\ UNCHANGED <<method, requests, last_nic, tcp4_children, scan, response, delivered, misread>>

-----------------------------------------------------------------------------
(* HTTP over TCP4: tcp4_http_post and tcp4_http_get take the same steps.     *)

\* The handles of S, a cached one first and the rest in the order they were found.
InOrder(S) ==
    {s \in UNION {[1..m -> S] : m \in 0..MaxNics} :
        /\ S = {s[i] : i \in DOMAIN s}
        /\ \A i, j \in DOMAIN s :
              i < j => s[j] \notin last_nic /\ (s[i] \in last_nic \/ s[i] < s[j])}

\* Deviation: a cached handle is skipped in the scan although it was not tried.
NicsToTryScanOnly(n, with_mac) == InOrder(with_mac \ last_nic)

\* The cached handle if it still exists, then the others that have a MAC address.
NicsToTry(n, with_mac) == InOrder((last_nic \cap 1..n) \cup with_mac)

\* tcp4_http_post and tcp4_http_get up to the handles: n of them, 0 if the URL does not
\* resolve. The address was settled once, by DHCP or not (ensure_network_configured);
\* whether a handle connects with it is the environment's choice.
Tcp4Start(n, with_mac) ==
    /\ pc = "tcp4"
    /\ nics' \in NicsToTry(n, with_mac)
    /\ usable' = with_mac
    /\ pc' = "scan"
    /\ UNCHANGED <<method, requests, last_nic, children, tried, response, buffers, outcome,
                   delivered, misread, cut>>

\* destroy_tcp4_child of one of n children, which has its protocol open or not. It may
\* not reach DestroyChild, or that may fail, and nobody asks.
DestroyTcp4Child(n, open) ==
    \E fails \in BOOLEAN :
        /\ tcp4_children' = DestroyChild(n, open, fails)
        /\ refused' = (refused \/ fails)

\* try_connect_on_handle fails: before there is a child, or when its protocol is not
\* open yet, or when it is. Nothing closes a protocol that open_tcp4 opened.
ConnectFails ==
    /\ pc = "scan" /\ nics # <<>>
    /\ tried' = Append(tried, Head(nics))
    /\ nics' = Tail(nics)
    /\ \/ UNCHANGED <<tcp4_children, refused>>
       \/ \E open \in BOOLEAN : DestroyTcp4Child(tcp4_children + 1, open)
    /\ UNCHANGED <<pc, method, requests, last_nic, http_children, usable, response, buffers,
                   outcome, delivered, misread, cut>>

\* No handle is left, or there is none.
NoConnection ==
    /\ pc = "scan" /\ nics = <<>>
    /\ Return({}, "none")
    /\ UNCHANGED <<method, requests, last_nic, children, scan, response, buffers,
                   delivered, misread, cut>>

\* A handle connects. It is cached if it was found by the scan.
Connects ==
    /\ pc = "scan" /\ nics # <<>>
    /\ tried' = Append(tried, Head(nics))
    /\ last_nic' = {Head(nics)}
    /\ tcp4_children' = tcp4_children + 1
    /\ pc' = "transmit"
    /\ UNCHANGED <<method, requests, http_children, refused, nics,
                   usable, response, buffers, outcome, delivered, misread, cut>>

\* Transmitting fails or takes too long; the server may have the request or not.
TransmitFails(reached) ==
    /\ pc = "transmit"
    /\ IF reached THEN Deliver("tcp4") ELSE UNCHANGED delivered
    /\ DestroyTcp4Child(tcp4_children, TRUE)
    /\ Return({}, "none")
    /\ UNCHANGED <<method, requests, last_nic, http_children, scan, response, buffers, misread,
                   cut>>

Transmit(r) ==
    /\ pc = "transmit"
    /\ Deliver("tcp4")
    /\ response' = r
    /\ received' = 0
    /\ pc' = "receive"
    /\ UNCHANGED <<method, requests, last_nic, children, scan, rx_body, content_length, auth,
                   idle, outcome, misread, cut>>

Stream == response.head + response.body + response.extra

\* The headers are there and as much body as they announce.
Complete(n) == n >= response.head /\ \E c \in response.length : n >= response.head + c

\* A segment arrives.
Receive(n) ==
    /\ pc = "receive"
    /\ received <= MaxResponse
    /\ n \in (received + 1)..Stream
    /\ received' = n
    /\ pc' = IF Complete(n) THEN "close" ELSE "receive"
    /\ UNCHANGED <<method, requests, last_nic, children, scan, response, rx_body,
                   content_length, auth, idle, outcome, delivered, misread, cut>>

\* Deviation: a peer that is quiet is waited for.
ReceiveEndsClosed ==
    /\ pc = "receive" /\ received = Stream
    /\ pc' = "close"
    /\ cut' = FALSE
    /\ UNCHANGED <<method, requests, last_nic, children, scan, response, buffers, outcome,
                   delivered, misread>>

\* The peer closed the connection, or was quiet for too long, or sent too much.
ReceiveEnds ==
    /\ pc = "receive"
    /\ pc' = "close"
    /\ cut' = (received < Stream)
    /\ UNCHANGED <<method, requests, last_nic, children, scan, response, buffers, outcome,
                   delivered, misread>>

\* The body is trimmed to its Content-Length, but may be shorter.
Trimmed ==
    LET raw == received - response.head
    IN  IF \E c \in response.length : c <= raw THEN response.body ELSE raw

\* The connection is closed and what arrived is parsed: there must be a header, and a
\* status of 200 for a GET.
Tcp4Finish ==
    /\ pc = "close"
    /\ DestroyTcp4Child(tcp4_children, TRUE)
    /\ IF received >= response.head /\ (method = "GET" => response.ok)
       THEN Return({Span(1, Trimmed)}, "tcp4")
       ELSE Return({}, "none")
    /\ Forget
    /\ UNCHANGED <<method, requests, last_nic, http_children, scan, response, delivered,
                   misread, cut>>

-----------------------------------------------------------------------------
\* What needs the firmware or the server to come up with something.
Answered ==
    \/ \E r \in Responses : HttpRequest(r) \/ Transmit(r)
    \/ \E r \in Responses : \E n \in 0..r.body : HttpGet(r, n)
    \/ \E n \in 0..RxBuffer : FirstResponse(n)
    \/ \E n \in 0..RxBuffer : DrainRead(n)
    \/ DrainEmpty
    \/ Connects
    \/ \E n \in 1..Stream : Receive(n)

\* What happens without: errors, timeouts, and the program's own steps.
Unanswered ==
    \/ HttpUnavailable
    \/ HttpOpen
    \/ \E reached \in BOOLEAN : HttpFails(reached)
    \/ \E reached \in BOOLEAN : HttpGetFails(reached)
    \/ \E n, counted \in 0..RxBuffer : FirstResponseMisread(n, counted)
    \/ \E n \in 0..RxBuffer : DrainStalls(n)
    \/ \E n, counted \in 0..RxBuffer : DrainTokenFails(n, counted)
    \/ \E fails \in BOOLEAN : HttpFinish(fails)
    \/ \E n \in 0..MaxNics : \E with_mac \in SUBSET (1..n) : Tcp4Start(n, with_mac)
    \/ ConnectFails
    \/ NoConnection
    \/ \E reached \in BOOLEAN : TransmitFails(reached)
    \/ ReceiveEnds
    \/ Tcp4Finish

Next == (\E m \in {"POST", "GET"} : Request(m)) \/ Answered \/ Unanswered

\* The program is one thread whose waits are bounded; nobody owes it an answer, and it
\* need not be asked for anything.
Spec == Init /\ [][Next]_vars /\ WF_vars(Unanswered)

-----------------------------------------------------------------------------
(* Properties                                                               *)

\* The variables hold values of their types.
TypeOK ==
    /\ pc \in {"idle", "http", "request", "response", "drain", "tcp4", "scan", "transmit",
               "receive", "close"}
    /\ method \in {"POST", "GET"}
    /\ requests \in 0..MaxRequests
    /\ {auth, misread, cut, refused} \subseteq BOOLEAN
    /\ last_nic \in {{}} \cup {{i} : i \in 1..MaxNics}
    /\ {http_children, unanswered} \subseteq 0..MaxRequests /\ tcp4_children \in Nat
    /\ nics \in Seq(1..MaxNics) /\ tried \in Seq(1..MaxNics) /\ usable \subseteq 1..MaxNics
    /\ response \in Responses
    /\ rx_body \in Seq(Nat) /\ Len(rx_body) <= RxBuffer
    /\ \A n \in content_length : n = response.body
    /\ idle \in 0..MaxDrainIdle
    /\ received \in 0..Stream
    /\ \A b \in result : b \in Seq(Nat)
    /\ via \in {"none", "http", "tcp4"}
    /\ delivered \in [{"http", "tcp4"} -> Nat]

\* "Clean up: destroy HTTP child handle to avoid resource leak [...] without it, we
\* run out of handles after ~80 requests": a POST that EFI_HTTP_PROTOCOL answers costs no
\* handle. Over any sequence of requests, no more HTTP children are left than POSTs
\* were left without an answer, unless the firmware fails at releasing one.
AnswersCostNoHandle ==
    pc = "idle" /\ ~refused => http_children <= unanswered

\* "DestroyChild returns ACCESS_DENIED while any protocol on that child is still open.
\* Close it first, otherwise every request leaks a child handle and its underlying TCP
\* instance": a request leaves no TCP4 child behind, unless the firmware fails at
\* releasing it. tcp4_http.rs, which closes no protocol, does not keep to it.
Tcp4ChildrenDestroyed ==
    pc = "idle" /\ ~refused => tcp4_children = 0

\* What must be so for rx_body to hold the body: "Must exceed the ServiceInfo MTU",
\* "this relies on the driver reporting Content-Length", and no blank line in a body
\* that came without an Authorization header. Neither concerns http_get.
HttpSuits(r) ==
    method = "POST" => /\ r.body <= RxBuffer
                       /\ r.length # {}
                       /\ r.auth \/ r.blank = {}

\* However a response is split into segments and whichever transport brings it: if
\* waiting for it was not given up and every token whose length was taken had completed
\* with success, the body that is returned is the one the server sent, to its last
\* byte. (http.rs checks neither; LengthCheckSuffices is about what it lets pass.)
BodyExact ==
    \A b \in result :
        ~misread /\ ~cut
          /\ (via = "http" => HttpSuits(response))
        => b = Span(1, response.body)

\* A request that fails for want of a connection was tried on every NIC that has a
\* MAC address, with a cached handle first and none tried twice, whatever the cache says
\* and however the list of handles changed since.
EveryNicTried ==
    /\ \A i, j \in DOMAIN tried : tried[i] = tried[j] => i = j
    /\ (pc = "scan" /\ nics = <<>>) => usable \subseteq {tried[i] : i \in DOMAIN tried}

\* The fallback sends a request again that the server may already have had: at
\* most once over each transport, and not after an answer over HTTP.
SentAtMostTwice ==
    /\ delivered.http <= 1 /\ delivered.tcp4 <= 1
    /\ via = "http" => delivered.tcp4 = 0

\* "Transfers terminate on Content-Length or on the peer going quiet": every request
\* returns, whatever the server and the drivers do.
RequestEnds == pc # "idle" ~> pc = "idle"

\* "A late token then wrote its segment at a stale offset, which corrupted the body
\* intermittently and passed the length check": when the drain loop completes a body
\* that was right so far, up to its Content-Length, the body is what the server sent.
LengthCheckSuffices ==
    [][/\ pc = "drain" /\ rx_body = Span(1, Len(rx_body))
       /\ pc' = "drain" /\ content_length = {Len(rx_body')}
       => rx_body' = Span(1, Len(rx_body'))]_vars
=============================================================================
