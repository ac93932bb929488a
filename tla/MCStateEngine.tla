----------------------------- MODULE MCStateEngine -----------------------------
(* StateEngine on small instances. *)
EXTENDS StateEngine
================================================================================
