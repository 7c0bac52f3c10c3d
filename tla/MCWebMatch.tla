----------------------------- MODULE MCWebMatch -----------------------------
(* Every constant of WebMatch is a small number given by the cfg files: two *)
(* connections that can be players together or player and spectator, or     *)
(* administrator, and enough ids for a spawn position to be given out twice.*)
EXTENDS WebMatch
=============================================================================
