------------------------------ MODULE MCNetwork ------------------------------
(* A host with an address, one with two, an alias that the server resolves   *)
(* itself, one that it leaves to the client, two aliases of each other, and  *)
(* a name without an answer that helps.                                      *)
EXTENDS Network

A(o, a) == [owner |-> o, type |-> "A", data |-> a]
CNAME(o, t) == [owner |-> o, type |-> "CNAME", data |-> t]
Other(o) == [owner |-> o, type |-> "other", data |-> "bad"]

MCNames == {"owner", "cdn", "www", "loop", "none"}
MCLiterals == {"ip0"}
MCZone ==
    [n \in MCNames |->
        CASE n = "owner" -> <<A("owner", "ip1")>>
          [] n = "cdn"   -> <<Other("cdn"), A("cdn", "ip2"), A("cdn", "ip3")>>
          [] n = "www"   -> <<CNAME("www", "owner"), A("owner", "ip1")>>
          [] n = "loop"  -> <<CNAME("loop", "loop")>>
          [] n = "none"  -> <<CNAME("none", "bad"), CNAME("none", "owner")>>]
=============================================================================
