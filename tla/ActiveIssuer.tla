----------------------------- MODULE ActiveIssuer -----------------------------
(***************************************************************************)
(* What the certificate manager promises about the issuer, whatever way    *)
(* the configuration reaches it: every signing uses, from beginning to     *)
(* end, the issuer in force, and the issuer changes only between signings. *)
(***************************************************************************)
CONSTANTS Issuers, NoIssuer, Original, Callers

VARIABLES
    issuer,    \* the issuer in force, or NoIssuer
    inflight   \* the issuer each caller is signing with, or NoIssuer

vars == <<issuer, inflight>>

Init == issuer = Original /\ inflight = [c \in Callers |-> NoIssuer]

Begin(c) ==
    /\ issuer # NoIssuer /\ inflight[c] = NoIssuer
    /\ inflight' = [inflight EXCEPT ![c] = issuer]
    /\ UNCHANGED issuer

End(c) ==
    /\ inflight[c] # NoIssuer
    /\ inflight' = [inflight EXCEPT ![c] = NoIssuer]
    /\ UNCHANGED issuer

Change(i) ==
    /\ \A c \in Callers : inflight[c] = NoIssuer
    /\ issuer' = i
    /\ UNCHANGED inflight

Next ==
    \/ \E c \in Callers : Begin(c) \/ End(c)
    \/ \E i \in Issuers \cup {Original} : Change(i)

Spec == Init /\ [][Next]_vars
====
