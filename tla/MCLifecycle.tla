---- MODULE MCLifecycle ----
(* Instances of Lifecycle for TLC; its cfgs give all the values. *)
EXTENDS Lifecycle
====
