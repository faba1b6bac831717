----------------------------- MODULE MCTransport -----------------------------
(* A response that fits the buffer of http.rs in one segment or several, one  *)
(* that does not fit, one of unknown length, one with a blank line in its     *)
(* body, an empty one, and an error page.                                     *)
EXTENDS Transport

Answer(body, extra, len, a, blank, ok) ==
    [head |-> 2, body |-> body, extra |-> extra, length |-> len, auth |-> a,
     blank |-> blank, ok |-> ok]

MCResponses == {Answer(2, 1, {2}, TRUE, {}, TRUE),
                Answer(4, 0, {4}, FALSE, {}, TRUE),
                Answer(2, 0, {}, TRUE, {}, TRUE),
                Answer(3, 0, {3}, FALSE, {1}, TRUE),
                Answer(0, 0, {0}, FALSE, {}, FALSE)}
=============================================================================
