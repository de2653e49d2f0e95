-------------------------- MODULE CertificateService --------------------------
(***************************************************************************)
(* What pkg/server promises the clients of the Istio certificate service.  *)
(* A request is taken only while the service is open and has one answer: a *)
(* refusal before it is authorized, and after that a certificate with      *)
(* roots that its chain leads to, or an internal error. An answer stays    *)
(* until the client's next request. A service that is closing takes no     *)
(* more requests, and stops when those it took are answered. Only one that *)
(* fails, which it does before it is closing, leaves requests unanswered.  *)
(***************************************************************************)
CONSTANTS Clients, CAs, NoCA

VARIABLES
    phase,     \* "starting", "serving", "closing" or "stopped"
    pending,   \* of each client's request: "none", "taken" or "authorized"
    answer     \* what each client was last answered

vars == <<phase, pending, answer>>

NoAnswer == [code |-> "none", ca |-> NoCA, roots |-> {}]

Init ==
    /\ phase = "starting"
    /\ pending = [c \in Clients |-> "none"]
    /\ answer = [c \in Clients |-> NoAnswer]

Open  == phase = "starting" /\ phase' = "serving" /\ UNCHANGED <<pending, answer>>
Close == phase \in {"starting", "serving"} /\ phase' = "closing" /\ UNCHANGED <<pending, answer>>
Stop ==
    /\ phase \in {"starting", "closing"} /\ \A c \in Clients : pending[c] = "none"
    /\ phase' = "stopped" /\ UNCHANGED <<pending, answer>>

Fail ==
    /\ phase = "serving" /\ phase' = "stopped"
    /\ pending' = [c \in Clients |-> "none"] /\ UNCHANGED answer

Take(c) ==
    /\ phase = "serving" /\ pending[c] = "none"
    /\ pending' = [pending EXCEPT ![c] = "taken"]
    /\ answer' = [answer EXCEPT ![c] = NoAnswer]
    /\ UNCHANGED phase

Authorize(c) ==
    /\ pending[c] = "taken" /\ pending' = [pending EXCEPT ![c] = "authorized"]
    /\ UNCHANGED <<phase, answer>>

Answer(c, a) ==
    /\ pending' = [pending EXCEPT ![c] = "none"]
    /\ answer' = [answer EXCEPT ![c] = a]
    /\ UNCHANGED phase

Refuse(c) == pending[c] = "taken" /\ Answer(c, [NoAnswer EXCEPT !.code = "Unauthenticated"])
Break(c)  == pending[c] = "authorized" /\ Answer(c, [NoAnswer EXCEPT !.code = "Internal"])
Issue(c, ca, roots) ==
    /\ pending[c] = "authorized" /\ ca \in roots
    /\ Answer(c, [code |-> "OK", ca |-> ca, roots |-> roots])

Next ==
    \/ Open \/ Close \/ Stop \/ Fail
    \/ \E c \in Clients :
         \/ Take(c) \/ Authorize(c) \/ Refuse(c) \/ Break(c)
         \/ \E ca \in CAs, roots \in SUBSET CAs : Issue(c, ca, roots)

Spec == Init /\ [][Next]_vars
====
