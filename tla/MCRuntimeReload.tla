-------------------------- MODULE MCRuntimeReload --------------------------
(* Two turns, one of them of the Web, and one background job. *)
EXTENDS RuntimeReload
CONSTANTS w1, c1, j1, i1, i2, i3, i4
MCTurn == {w1, c1}
MCWebTurn == {w1}
MCJob == {j1}
MCId == {i1, i2, i3, i4}
=============================================================================
