---------------------------- MODULE MCPasteStore ----------------------------
(* Small instances of the paste store for TLC.  A Duration has 8 bits and a *)
(* second is 4 units, so that 40 seconds already wrap around.               *)
EXTENDS PasteStore, TLC

\* Absent, below the floor, above the ceiling, and so large that the product
\* with time.Second overflows.
MCAskedTTL == {NoTTL, 0, 5, 40}

\* Requests are interchangeable, and so are texts.
Symmetry == Permutations(Request) \cup Permutations(Text)
=============================================================================
