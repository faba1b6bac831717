-------------------------------- MODULE MCTo2 --------------------------------
(***************************************************************************)
(* To2 with two runs, a manufacturer that resold the device once, one      *)
(* delegate for each permission that matters, and a TPM with one slot.     *)
(***************************************************************************)
EXTENDS To2

MCCustody == <<"mfg", "owner">>

MCChains ==
    {[leaf |-> "provisioner", root |-> "owner", perms |-> {"onboard", "provision"}],
     [leaf |-> "onboarder", root |-> "owner", perms |-> {"onboard"}],
     [leaf |-> "redirector", root |-> "owner", perms |-> {"redirect"}]}

MCTo1ds ==
    {[by |-> "owner", chain |-> {}], [by |-> "redirector", chain |-> {"redirector"}],
     [by |-> "stranger", chain |-> {"redirector"}]}
=============================================================================
