------------------------------- MODULE EventLog -------------------------------
(***************************************************************************)
(* What pkg/store promises: a log of burst episodes numbered in the order  *)
(* they began, of which the newest Capacity are kept.  An event either     *)
(* continues the newest kept episode of its (uid, reason) or begins a new  *)
(* one.  Events without a uid never continue anything.                     *)
(***************************************************************************)
EXTENDS Episodes

CONSTANTS Incoming, Capacity

VARIABLES log, next

vars == <<log, next>>

Init == log = [x \in {} |-> {}] /\ next = 0

\* The kept episodes of e's key.
Kin(e) ==
    {i \in DOMAIN log : log[i].InvolvedObjectUID # "" /\ dedupKey(log[i]) = dedupKey(e)}

\* i is the episode e continues.
ContinuedBy(i, e) ==
    /\ i \in Kin(e)
    /\ \A j \in Kin(e) : j <= i
    /\ isSameBurst(e, log[i])

Continue(e) ==
    /\ \E i \in DOMAIN log :
         /\ ContinuedBy(i, e)
         /\ log' = [log EXCEPT ![i] = updated(log[i], e)]
    /\ next' = next

Begin(e) ==
    /\ \A i \in DOMAIN log : ~ContinuedBy(i, e)
    /\ log' = [i \in {j \in DOMAIN log \cup {next} : j > next - Capacity} |->
                 IF i = next THEN e ELSE log[i]]
    /\ next' = next + 1

Next == \E e \in Incoming : Continue(e) \/ Begin(e)

Spec == Init /\ [][Next]_vars

=============================================================================
