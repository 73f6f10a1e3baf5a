---- MODULE MCPicture ----
(* Instances of PictureSync for TLC. *)
EXTENDS PictureSync, TLC

CONSTANTS s1, r1, r2

\* One subject on two connections.
BothOfOne == r1 :> s1 @@ r2 :> s1
====
