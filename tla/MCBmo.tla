------------------------------- MODULE MCBmo -------------------------------
(***************************************************************************)
(* Bmo on images of at most two bytes. The messages cover every signer,    *)
(* delivery mode and hash choice; fields that are independent of them are  *)
(* varied one at a time.                                                   *)
(***************************************************************************)
EXTENDS Bmo

MCBytes == {"a", "b"}
MCPublishers == {"pub"}

ab == Sha256(<<"a", "b">>)

Hashes == {{}, {Sha256(<<"a">>)}, {ab}}

Inline == [mode |-> "inline", hash |-> {}, url |-> FALSE, total_size |-> 0,
           require_ack |-> FALSE, meta_signer |-> {}, estimated_duration |-> 0]

Fetch(mode) == [Inline EXCEPT !.mode = mode, !.url = TRUE]

Bodies ==
    {[Inline EXCEPT !.hash = h] : h \in Hashes}
      \cup {[Fetch("url") EXCEPT !.hash = h] : h \in {{}, {ab}}}
      \cup {[Fetch("meta") EXCEPT !.hash = h, !.meta_signer = p] :
              h \in {{}, {ab}}, p \in Opt(MCPublishers)}

OddBodies ==
    {[Inline EXCEPT !.total_size = 2], [Fetch("url") EXCEPT !.hash = {ab}, !.total_size = 1],
     [Inline EXCEPT !.mode = "unknown"], [Inline EXCEPT !.mode = "meta"],
     [Inline EXCEPT !.require_ack = TRUE]}
      \cup {[Inline EXCEPT !.estimated_duration = d] : d \in {3, 5, 9}}

Unsigned(b) == [tag18 |-> FALSE, signer |-> "stranger", ct |-> "image-begin",
                scope |-> TRUE, parses |-> TRUE, body |-> b]

Signed(by, b) == [Unsigned(b) EXCEPT !.tag18 = TRUE, !.signer = by]

SignedInline == Signed("owner", [Inline EXCEPT !.hash = {Sha256(<<"a">>)}])

MCBeginMessages ==
    {Unsigned(b) : b \in Bodies \cup OddBodies}
      \cup {Signed(by, b) : by \in {"owner", "delegate"}, b \in Bodies}
      \cup {Signed(by, SignedInline.body) : by \in Signers}
      \cup {[SignedInline EXCEPT !.ct = "set"], [SignedInline EXCEPT !.scope = FALSE],
            [SignedInline EXCEPT !.parses = FALSE]}

MCSetMessages ==
    {[Unsigned({}) EXCEPT !.ct = "set"], [Signed("owner", {}) EXCEPT !.ct = "set"],
     Signed("owner", {})}

MCChunks == {<<"a">>, <<"b">>}
MCEndHashes == UNION Hashes
MCServed == {<<"a">>, <<"a", "b">>}

Pointer == [tag18 |-> FALSE, signer |-> "stranger", parses |-> TRUE,
            hash |-> {}, instructions |-> FALSE]

MCMetaPayloads ==
    {[Pointer EXCEPT !.tag18 = TRUE, !.signer = by, !.hash = {ab}] :
        by \in {"owner", "delegate", "pub"}}
      \cup {[Pointer EXCEPT !.hash = h] : h \in Hashes}
      \cup {[Pointer EXCEPT !.instructions = TRUE], [Pointer EXCEPT !.parses = FALSE]}
=============================================================================
