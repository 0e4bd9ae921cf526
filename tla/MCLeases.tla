------------------------------ MODULE MCLeases ------------------------------
(* Leases with two lease files of either kind and one reader.               *)
EXTENDS Leases, TLC

CONSTANTS l1, l2, r1

MCLeaseFiles == {l1, l2}
MCReaders == {r1}

=============================================================================
