----------------------------- MODULE MCGateway -----------------------------
(***************************************************************************)
(* Instances of Gateway for TLC: two clients, so that one can end while    *)
(* the other's session runs.                                               *)
(***************************************************************************)
EXTENDS Gateway, TLC

Everything == {"reconnect", "persona", "pause", "stop", "leave"}
OneSessionEach == Everything \ {"reconnect", "persona"}

Symmetry == Permutations(Conns)
=============================================================================
