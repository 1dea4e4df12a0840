------------------------------ MODULE MCSyslog ------------------------------
(* A small instance of Syslog. *)
EXTENDS Syslog

CONSTANT f1
=============================================================================
