--------------------------- MODULE MCObjectSnapshot ---------------------------
(***************************************************************************)
(* Small instances of ObjectSnapshot: a pod, a deployment and a custom     *)
(* resource, whose references may form cycles; statuses with and without   *)
(* conditions, and termination messages shorter than, as long as and       *)
(* longer than the limit, the last one with a character of two bytes.      *)
(***************************************************************************)
EXTENDS ObjectSnapshot

CONSTANTS pod, deploy, rollout

ref(o, c) == [Owner |-> o, Controller |-> c]

MCOwnerLists ==
    {<<>>, <<ref(deploy, FALSE)>>, <<ref(deploy, FALSE), ref(rollout, TRUE)>>,
     <<ref(pod, FALSE), ref(deploy, TRUE), ref(rollout, TRUE)>>}

MCKindOf ==
    [o \in {pod, deploy, rollout} |->
       CASE o = pod -> "Pod" [] o = deploy -> "Deployment" [] o = rollout -> "Rollout"]

status(phase, conditions, messages) ==
    [phase |-> phase, conditions |-> conditions,
     containers |-> [i \in DOMAIN messages |->
        [state |-> "waiting", reason |-> "CrashLoopBackOff", message |-> messages[i]]]]

available(value) == [Type |-> "Available", Status |-> value]

\* The last message has a character of two bytes that lies across the limit.
MCStatuses ==
    {status("Running", <<>>, << <<>> >>),
     status("Failed", <<available("False")>>, << <<1, 1>>, <<1, 1, 1>> >>),
     status("Running", <<available("True")>>, << <<1, 2>>, <<1>> >>),
     status("Failed", <<>>, << <<1, 2, 1>> >>)}

=============================================================================
