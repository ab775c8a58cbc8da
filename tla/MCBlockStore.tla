---------------------------- MODULE MCBlockStore ----------------------------
(***************************************************************************)
(* BlockStore for TLC: grids are how much was printed, 0 when fresh.       *)
(***************************************************************************)
EXTENDS BlockStore

CONSTANTS ls, vim

MCCommands == {ls, vim}
MCGrids    == 0 .. 1
=============================================================================
