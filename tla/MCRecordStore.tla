--------------------------- MODULE MCRecordStore ---------------------------
(* Two processes: a demo one with two threads for one connection, a production *)
(* one with one of each; two findings of one tenant and one of another.        *)
EXTENDS RecordStore, TLC

CONSTANTS p1, p2, t1, t2, t3, c1, c2, idA, idB, idC, north, south

MCHome == (t1 :> p1) @@ (t2 :> p1) @@ (t3 :> p2)
MCOwner == (c1 :> p1) @@ (c2 :> p2)
MCFindings == {[id |-> idA, tenant |-> north], [id |-> idB, tenant |-> north], [id |-> idC, tenant |-> south]}
=============================================================================
