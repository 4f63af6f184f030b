---------------------------- MODULE MCAgentPipeline ----------------------------
(***************************************************************************)
(* Small instances of AgentPipeline: two Event objects about the same pod  *)
(* and reason (two probes failing alternately) whose counts interleave, so  *)
(* that the ring of two evicts, and an event of the newer API that sets     *)
(* EventTime and a later LastTimestamp.                                    *)
(***************************************************************************)
EXTENDS AgentPipeline

CONSTANTS readiness, liveness, node

raw(uid, reason, message, count, first, last, time) ==
    [Namespace |-> "ns", Kind |-> "Pod", Name |-> uid, UID |-> uid, Reason |-> reason,
     Message |-> message, Count |-> count,
     FirstTimestamp |-> first, LastTimestamp |-> last, EventTime |-> time]

MCObjects == {readiness, liveness, node}

MCRawEvent ==
    [o \in MCObjects |->
       CASE o = readiness -> << raw("u1", "Unhealthy", <<"not", "", "ready">>, 3, 3, 4, 0),
                                raw("u1", "Unhealthy", <<"not", "ready">>, 4, 3, 6, 0) >>
         [] o = liveness  -> << raw("u1", "Unhealthy", <<"dead">>, 2, 4, 5, 0) >>
         [] o = node      -> << raw("u2", "NodeNotReady", <<"down">>, 0, 0, 6, 5) >>]

MCChains == {<<"web">>}

\* Every event the pipeline may hand to Add.
MCIncoming ==
    {[Normalize(RawEvent[x[1]][x[2]]) EXCEPT !.OwnerChain = chain] :
       x \in {y \in Objects \X (1 .. 2) : y[2] \in DOMAIN RawEvent[y[1]]},
       chain \in OwnerChains \cup {<<>>}}

=============================================================================
