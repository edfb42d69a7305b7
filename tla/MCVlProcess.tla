------------------------------- MODULE MCVlProcess -------------------------------
(***************************************************************************)
(* An initial process and two that it forks, or that fork each other; one  *)
(* event is always awaited by its name, one may be through an object.      *)
(***************************************************************************)
EXTENDS VlProcess

MCMaxOps == {<<3, 1, 1>>, <<2, 2, 1>>}
================================================================================
