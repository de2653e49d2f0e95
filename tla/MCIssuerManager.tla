--------------------------- MODULE MCIssuerManager ---------------------------
(* Instances of IssuerManager for TLC. *)
EXTENDS IssuerManager

\* Options.IssuerRef with all of its fields set.
CompleteRef == {"name", "kind", "group"}
====
