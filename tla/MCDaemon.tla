-------------------------------- MODULE MCDaemon --------------------------------
(* Daemon on a small instance. *)
EXTENDS Daemon

\* Two channels, the second a weighted one.
TwoChannels == <<1, 3>>
================================================================================
