---------------------------- MODULE MCTLSProvider ----------------------------
(* Instances of TLSProvider for TLC. *)
EXTENDS TLSProvider

\* In six bits twice 16 overflows.
SampleUntils == {9, 16}
====
