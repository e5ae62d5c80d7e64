---------------------------- MODULE MCSupervisor ----------------------------
(***************************************************************************)
(* Instances of Supervisor for TLC: two services stand for the five.       *)
(***************************************************************************)
EXTENDS Supervisor

MCServices == <<"ubus", "httpd">>
=============================================================================
