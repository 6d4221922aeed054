------------------------------ MODULE MCAppDaemon ------------------------------
(* AppDaemon with a few jobs for TLC.                                       *)
EXTENDS AppDaemon
=============================================================================
