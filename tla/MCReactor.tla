----------------------------- MODULE MCReactor -----------------------------
(***************************************************************************)
(* Instances of module Reactor for TLC.                                    *)
(***************************************************************************)
EXTENDS Reactor
=============================================================================
