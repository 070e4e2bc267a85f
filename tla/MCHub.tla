-------------------------------- MODULE MCHub -------------------------------
(* Instances of Hub: the devices of one person.                               *)
EXTENDS Hub

CONSTANTS phone, laptop, ann

MCConn == {phone, laptop}
MCOwner == [k \in MCConn |-> ann]
=============================================================================
