--------------------------- MODULE MCPicBarsamian ---------------------------
(***************************************************************************)
(* A small instance of PicBarsamian for TLC.                               *)
(***************************************************************************)
EXTENDS PicBarsamian

\* The particles stay in their cell or go to a neighbour, on either side for
\* one of them; from their initial cells all three can meet in the same cell.
Still == <<0, 0, 0>>
Right == <<1, 0, 0>>
Left == <<-1, 0, 0>>
MCDisplacements == <<{Still, Right, Left}, {Still, Right}, {Still, Left}>>

\* Two particles in a cell, where they fill a chunk, and one in another cell
\* whose tile has the same colour.
MCInitialCells == <<{0}, {0}, {2}>>

\* Two steps with freelists, so that chunks are used again.
MCConfigurations ==
  {[build |-> "SPARE_LOC_OPTIMIZED", num_iteration |-> 2],
   [build |-> "freelists", num_iteration |-> 2],
   [build |-> "STDCHUNKALLOC", num_iteration |-> 1]}

=============================================================================
