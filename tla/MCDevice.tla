------------------------------ MODULE MCDevice ------------------------------
(***************************************************************************)
(* Device with revisions whose encodings differ in length (5 and 30), a    *)
(* header that leaves room in the default index, one that fills it and,    *)
(* for devices of an older build, an index of exactly the size of ten      *)
(* items.                                                                  *)
(***************************************************************************)
EXTENDS Device

Header(revs, fw_url) == [rv_revs |-> revs, fw_url |-> fw_url, first_ten |-> 2]

MCOVHeaders ==
    {Header(<<>>, TRUE), Header(<<30, 5>>, TRUE), Header(<<>>, FALSE),
     [Header(<<>>, TRUE) EXCEPT !.first_ten = 11]}

MCOldHeaders == {Header(<<5>>, TRUE)}

Signed(rev) == [platform_key |-> TRUE, sound |-> TRUE, firmware_rev |-> rev]

MCFirmwares ==
    {Signed(0), Signed(5), Signed(30), [Signed(30) EXCEPT !.platform_key = FALSE],
     [Signed(30) EXCEPT !.sound = FALSE]}

MCAdversities == SUBSET {"force", "read", "persist"} \cup {{"tight"}}
=============================================================================
