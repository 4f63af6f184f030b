------------------------------- MODULE Episodes -------------------------------
(***************************************************************************)
(* The normalized event of pkg/events and the burst rules of pkg/store: the *)
(* vocabulary the concrete store and its abstract specification share.     *)
(* Times are naturals and 0 is Go's zero time.Time.                        *)
(***************************************************************************)
EXTENDS Integers, Sequences

CONSTANT BurstGap \* 5 minutes: the silence that separates two bursts

ASSUME GapAssumption == BurstGap \in Nat

\* events.NormalizedEvent; ClusterName is the same in all events of an agent.  A
\* message is the sequence of its words, an owner chain the sequence of its
\* owners' identities.
NormalizedEvent ==
    [Namespace : STRING, InvolvedObjectKind : STRING, InvolvedObjectName : STRING,
     InvolvedObjectUID : STRING,
     OwnerChain : Seq(STRING), Reason : STRING, Message : Seq(STRING),
     Count : Nat, FirstSeen : Nat, LastSeen : Nat]

dedupKey(e) == [objectUID |-> e.InvolvedObjectUID, reason |-> e.Reason]

-----------------------------------------------------------------------------
\* Mutants of the definitions below: plausible slips in the code they model.
updatedUnguarded(latest, e) ==
    [latest EXCEPT !.Count = e.Count, !.LastSeen = e.LastSeen,
                   !.Message = e.Message, !.OwnerChain = e.OwnerChain]

-----------------------------------------------------------------------------
\* Does the incoming event continue the burst of the stored episode?
isSameBurst(incoming, existing) ==
    /\ incoming.Count >= existing.Count
    /\ ~(incoming.FirstSeen # 0 /\ incoming.FirstSeen > existing.LastSeen + BurstGap)

\* The stored episode after an in-place update by e.
updated(latest, e) ==
    LET newer   == e.LastSeen > latest.LastSeen
        earlier == /\ e.FirstSeen # 0
                   /\ latest.FirstSeen = 0 \/ e.FirstSeen < latest.FirstSeen
    IN [latest EXCEPT
          !.Count = e.Count,
          !.LastSeen = IF newer THEN e.LastSeen ELSE @,
          !.Message = IF newer THEN e.Message ELSE @,
          !.FirstSeen = IF earlier THEN e.FirstSeen ELSE @,
          !.OwnerChain = IF Len(e.OwnerChain) > 0 THEN e.OwnerChain ELSE @]

=============================================================================
