------------------------------ MODULE MCDelegate ------------------------------
(* An owner and two delegates. A chain of three has one intermediate, so a    *)
(* pathLenConstraint of 0 bites; 40000 takes three bytes and is not read.     *)
EXTENDS Delegate

CONSTANTS O, D1, D2

MCEkus == {{"PermitOnboardNewCred", "PermitProvision"},
           {"PermitOnboardFdoDisable", "PermitRedirect"},
           {"PermitOnboardReuseCred", "PermitRedirect", "Other"}}
=============================================================================
