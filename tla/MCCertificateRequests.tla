------------------------ MODULE MCCertificateRequests ------------------------
(* Instances of CertificateRequests for TLC. *)
EXTENDS CertificateRequests
====
