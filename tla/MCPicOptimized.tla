--------------------------- MODULE MCPicOptimized ---------------------------
(***************************************************************************)
(* An instance of PicOptimized where two threads have each a block of the  *)
(* same colour, along the Y axis.                                          *)
(***************************************************************************)
EXTENDS PicOptimized

\* A particle leaves its block by two cells, towards the block of the other
\* thread; another particle leaves that block by one cell.
MCInitialCells == <<{CellOf(0, 1, 0)}, {CellOf(0, 4, 0)}>>
MCDisplacements == <<{<<0, 2, 0>>}, {<<0, -1, 0>>, <<0, 0, 0>>}>>

=============================================================================
