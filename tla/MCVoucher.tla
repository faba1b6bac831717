------------------------------ MODULE MCVoucher ------------------------------
(* Two headers one manufacturer minted, for two identities of the device or  *)
(* for two devices, and one a dishonest owner wrote with the GUID of the     *)
(* first. An owner buys from the manufacturer; a third key is dishonest.     *)
EXTENDS Voucher

CONSTANTS Mfg, Alice, Bob

MCKeys == {Mfg, Alice, Bob}
MCHonest == {Mfg, Alice}
MCMinted == {[guid |-> 1, device_info |-> "box", mfg |-> Mfg],
             [guid |-> 2, device_info |-> "box", mfg |-> Mfg]}
MCHeaders == MCMinted \cup {[guid |-> 1, device_info |-> "box", mfg |-> Bob],
                           [guid |-> 1, device_info |-> "box", mfg |-> Unsupported]}
=============================================================================
