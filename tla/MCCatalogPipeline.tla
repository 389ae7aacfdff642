------------------------- MODULE MCCatalogPipeline -------------------------
(***************************************************************************)
(* Instances of CatalogPipeline.                                           *)
(***************************************************************************)
EXTENDS CatalogPipeline

CONSTANTS a, b, c

(* Three items in two batches; one is split into two blocks.               *)
MCInput     == <<<<a, b>>, <<c>>>>
MCNumSplits == [i \in {a, b, c} |-> IF i = a THEN 2 ELSE 1]

=============================================================================
