-------------------------------- MODULE Cbor ---------------------------------
(***************************************************************************)
(* CBOR as the decoders of this program see it. They all work on a flat    *)
(* buffer and a position, head by head: a container is the head that says  *)
(* how many items follow, and whoever loses count reads one item for       *)
(* another. So a buffer is a sequence of heads here, and a string is one   *)
(* head together with its content. Floats, whose payload tpm.rs passes     *)
(* over twice, do not occur in what these decoders are given.              *)
(***************************************************************************)
EXTENDS Naturals, Sequences

CONSTANT U32    \* 2^32: what does not fit four bytes

\* m: the major type; w: the bytes of the argument, 0 when it is part of the head, 31 for
\* an indefinite length; n: the argument, for a string its length; text: the content of
\* a string; inner: the same when it is CBOR itself.
Item(m, w, n) == [m |-> m, w |-> w, n |-> n, text |-> "", inner |-> <<>>]
Text(s) == [Item(3, 0, 1) EXCEPT !.text = s]
Bytes(s) == [Item(2, 0, 1) EXCEPT !.text = s]
Wrap(stream) == [Item(2, 1, Len(stream)) EXCEPT !.inner = stream]
Array(n) == Item(4, 0, n)
Map(n) == Item(5, 0, n)
Null == Item(7, 0, 22)

\* encode_head of dctpm.rs and of cose.rs: the shortest argument that holds n.
ShortestWidth(n) ==
    CASE n < 24 -> 0 [] n \in 24..255 -> 1 [] n \in 256..65535 -> 2
      [] n >= 65536 /\ n < U32 -> 4 [] OTHER -> 8

Uint(n) == Item(0, ShortestWidth(n), n)

\* What the skippers of cose.rs, tpm.rs, rv_parse.rs and di/protocol.rs can read, and
\* what that of dctpm.rs can.
Narrow == {0, 1, 2, 4}
Wide == Narrow \cup {8}

Children(t) == CASE t.m = 4 -> t.n [] t.m = 5 -> 2 * t.n [] t.m = 6 -> 1 [] OTHER -> 0

\* Where a loop stands after each number of rounds; step takes it from one to the next.
Rounds(step, start) ==
    LET At[i \in Nat] == IF i = 0 THEN start ELSE step[At[i - 1]]
    IN  At

\* One head: where a skipper that reads arguments of these widths goes on, and how many items
\* it still owes. The skippers recurse into containers; that number is all that the
\* recursion remembers. A buffer that ends, or a head that cannot be read, leads to 0.
ReadHead(s, widths) ==
    [l \in [at : 0..Len(s) + 1, owed : Nat] |->
        IF l.owed = 0 THEN l
        ELSE IF l.at \notin DOMAIN s THEN [at |-> 0, owed |-> 0]
        ELSE IF s[l.at].w \notin widths THEN [at |-> 0, owed |-> 0]
        ELSE [at |-> l.at + 1, owed |-> l.owed - 1 + Children(s[l.at])]]

\* Where a skipper stands after count items from pos on, and 0 if it fails.
Skip(s, pos, count, widths) ==
    Rounds(ReadHead(s, widths), [at |-> pos, owed |-> count])[Len(s) + 2 - pos].at

-----------------------------------------------------------------------------
(* What a buffer holds.                                                     *)

IsStream(s) == s \in Seq({s[p] : p \in DOMAIN s}) /\ \A p \in DOMAIN s : s[p].n \in Nat

\* One item and nothing else, which every skipper can read.
IsItem(s) == IsStream(s) /\ s # <<>> /\ Skip(s, 1, 1, Narrow) = Len(s) + 1

\* Where the k-th item inside the container at pos begins, whatever widths there are.
ItemAt(s, pos, k) == Skip(s, pos + 1, k - 1, Wide)
=============================================================================
