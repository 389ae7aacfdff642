---------------------------- MODULE MCBlockGraph ----------------------------
(***************************************************************************)
(* Two sources with every sequence of a few blocks on a short time line,   *)
(* a feature that looks back, one that does not, one of two inputs, and    *)
(* one whose inputs share an input.                                        *)
(***************************************************************************)
EXTENDS BlockGraph

CONSTANTS d1, d2, fw, g, h, k, m

MCChildren ==
  (d1 :> <<>>) @@ (d2 :> <<>>) @@ (fw :> <<d1>>) @@ (g :> <<d2>>) @@
  (h :> <<fw, d2>>) @@ (m :> <<fw>>) @@ (k :> <<fw, m>>)

MCRequests == {<<fw, g>>, <<h>>, <<k>>}

MaxTime == 4

BlocksOf(shortest) ==
  {b \in [start: 0..MaxTime, end: 0..MaxTime] : b.end - b.start >= shortest}

SourcesOf(shortest, n) ==
  {s \in UNION {[1..l -> BlocksOf(shortest)] : l \in 1..n} : InTime(s)}

MCInputs == (d1 :> SourcesOf(1, 3)) @@ (d2 :> SourcesOf(0, 2))
=============================================================================
