---- MODULE MCSession ----
(* Instances of SessionCache for TLC; its cfgs give all the values. *)
EXTENDS SessionCache
====
