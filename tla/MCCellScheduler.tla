--------------------------- MODULE MCCellScheduler ---------------------------
(***************************************************************************)
(* Three cells, two at a time, so that a cell waits for a free place.      *)
(***************************************************************************)
EXTENDS CellScheduler

CONSTANTS gcc13, gcc14, clang22

MCCellArtifacts == <<gcc13, gcc14, clang22>>
=============================================================================
