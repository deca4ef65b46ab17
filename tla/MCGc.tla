--------------------------------- MODULE MCGc ---------------------------------
(* Small instances of the collector for TLC. *)
EXTENDS Gc

CONSTANT r1

\* A bin of one cell and, in pages of two cells, a bin of two.
MCMask == [b \in SmallBins |-> [o \in Off |-> IF b = "B_16" THEN o ELSE 0]]

NoJunk   == {{}}
SomeJunk == {{}, {<<0, 1>>}}
==============================================================================
