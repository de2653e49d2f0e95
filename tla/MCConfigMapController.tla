------------------------ MODULE MCConfigMapController ------------------------
(* ConfigMapController for TLC. *)
EXTENDS ConfigMapController
====
