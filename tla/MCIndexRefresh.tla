--------------------------- MODULE MCIndexRefresh ---------------------------
(* IndexRefresh with two readers and one change.                                *)
EXTENDS IndexRefresh, TLC

CONSTANTS r1, r2, c1, i1, i2

MCReaders == {r1, r2}
MCRuns == {i1, i2}
MCOneChange == {c1}

=============================================================================
