------------------------------ MODULE MCBackbone ------------------------------
(* Instances of Backbone small enough for TLC. *)
EXTENDS Backbone
===============================================================================
