---------------------------- MODULE MCServiceInfo ----------------------------
(***************************************************************************)
(* ServiceInfo with one-byte images, three rounds and up to two entries    *)
(* per answer: a begin, its data and its end fit in two rounds, so a third *)
(* can replace or spoil what the first two completed.                      *)
(***************************************************************************)
EXTENDS ServiceInfo

MCBytes == {"a", "b"}
MCPublishers == {"pub"}
MCChunks == {<<"a">>}
digestA == Sha256(<<"a">>)
MCEndHashes == {digestA}
MCServed == {<<"a">>, <<"b">>}

Inline == [mode |-> "inline", hash |-> {}, url |-> FALSE, total_size |-> 0,
           require_ack |-> FALSE, meta_signer |-> {}, estimated_duration |-> 0]

Unsigned(b) == [tag18 |-> FALSE, signer |-> "stranger", ct |-> "image-begin",
                scope |-> TRUE, parses |-> TRUE, body |-> b]

MCBeginMessages ==
    {Unsigned([Inline EXCEPT !.estimated_duration = 5]),
     [Unsigned([Inline EXCEPT !.hash = {digestA}]) EXCEPT !.tag18 = TRUE, !.signer = "owner"],
     Unsigned([Inline EXCEPT !.mode = "url", !.url = TRUE, !.hash = {Sha256(<<"b">>)}])}

MCSetMessages == {[Unsigned({}) EXCEPT !.ct = "set"]}

MCMetaPayloads == {}

\* The first byte stands for the headers.
MCEfiImages == {<<"a">>}
MCTempFiles == {<<>>, <<"b">>, <<"b", "b">>}
=============================================================================
