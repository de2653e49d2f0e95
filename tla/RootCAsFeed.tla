----------------------------- MODULE RootCAsFeed -----------------------------
(***************************************************************************)
(* What pkg/tls promises the subscribers of SubscribeRootCAsEvent: the     *)
(* mesh's root CAs are never withdrawn, and every change of them is        *)
(* followed by one event, which is not lost while the subscriber is not    *)
(* listening.                                                              *)
(***************************************************************************)
EXTENDS Naturals

CONSTANTS Roots, NoRoots

VARIABLES rootCAs, events   \* events: sends started and not yet received

Init == rootCAs = NoRoots /\ events = 0

Change(r) == r # rootCAs /\ rootCAs' = r /\ events' = events + 1

Take == events > 0 /\ events' = events - 1 /\ UNCHANGED rootCAs

Next == Take \/ \E r \in Roots : Change(r)

Spec == Init /\ [][Next]_<<rootCAs, events>>
====
