------------------------------ MODULE MCFrameFlow ------------------------------
(* FrameFlow on small instances. *)
EXTENDS FrameFlow
================================================================================
