----------------------------- MODULE MCIstiodCert -----------------------------
(* Instances of IstiodCert for TLC. *)
EXTENDS IstiodCert

\* Options.IssuerRef with all of its fields set.
CompleteRef == {"name", "kind", "group"}
====
