---------------------------- MODULE MCCellCalls ----------------------------
(* Two cells for TLC: front calls store and depends on it. *)
EXTENDS CellCalls

CONSTANTS front, store

MCCell == {front, store}
MCLinks == {<<front, store>>}
============================================================================
