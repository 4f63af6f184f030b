----------------------------- MODULE AgentServer ------------------------------
(***************************************************************************)
(* The gRPC handlers of internal/app/clusteragent that read the event      *)
(* store, and the executor of internal/app/coordinator that calls them: a  *)
(* request runs its plan as a session of calls, and the watcher keeps      *)
(* adding events between two of them.  A handler denotes the set of the    *)
(* replies it may give.  A timestamp on the wire is <<t>>, or <<>> when    *)
(* the field is absent.                                                    *)
(***************************************************************************)
EXTENDS StoreQuery, Planner

CONSTANT Questions \* the planner.Query values requests may come with

VARIABLE session \* the executor's loop over one plan

serverVars == <<vars, session>>

\* A question is decoded into a typed struct; its limit is a Go int.
ASSUME QuestionAssumption ==
    Questions \subseteq [ClusterName : STRING, Namespace : STRING, ObjectKind : STRING,
                         ObjectName : STRING, Reason : STRING, Since : Nat, Limit : Int,
                         Intent : STRING]
\* Kubernetes does not report the first time of an event later than the last.
ASSUME TimesAssumption == \A e \in Incoming : e.FirstSeen <= e.LastSeen

\* events: what was collected, with the ID of its episode (history); groups:
\* the namespace summary by reason; stored: the episodes stored when it was
\* made (history); answered: the steps whose call succeeded (history).
newSession(plan) ==
    [plan |-> plan, next |-> 1, events |-> <<>>, groups |-> [r \in {} |-> newGroup],
     stored |-> emptyMap, answered |-> {}]

ServerInit == Init /\ session \in {newSession(Plan(q)) : q \in Questions}

-----------------------------------------------------------------------------
\* Mutants of the definitions below: plausible slips in the code they model.
toProtoEventSwapped(e) == [e EXCEPT !.FirstSeen = <<e.LastSeen>>, !.LastSeen = <<e.FirstSeen>>]

sinceOfAlways(req) == 0

-----------------------------------------------------------------------------
\* Conversions between Go values and messages.
toTimestampPB(t) == IF t = 0 THEN <<>> ELSE <<t>>

timeOrZero(ts) == IF ts = <<>> THEN 0 ELSE ts[1]

toProtoEvent(e) == [e EXCEPT !.FirstSeen = <<@>>, !.LastSeen = <<@>>]

fromProtoEvent(e) == [e EXCEPT !.FirstSeen = timeOrZero(@), !.LastSeen = timeOrZero(@)]

-----------------------------------------------------------------------------
\* The handlers.  An event of a reply is paired with the ID of its episode.
listFilter(req) ==
    [Namespace |-> req.Namespace, ObjectUID |-> "", Reason |-> req.Reason,
     Since |-> timeOrZero(req.Since), Limit |-> req.Limit]

reply(ids) == [i \in DOMAIN ids |-> [id |-> ids[i], event |-> toProtoEvent(byID[ids[i]])]]

ListEvents(req) == {reply(ids) : ids \in Query(listFilter(req))}

\* The object is identified by kind and name, among the events of the namespace.
involves(id, req) == /\ byID[id].InvolvedObjectKind = req.Kind
                     /\ byID[id].InvolvedObjectName = req.Name

matched(ids, req) ==
    FoldLeft(LAMBDA out, id : IF involves(id, req) THEN Append(out, id) ELSE out, <<>>, ids)

GetEventsForObject(req) ==
    {reply(matched(ids, req)) :
       ids \in Query([Namespace |-> req.Namespace, ObjectUID |-> "", Reason |-> "",
                      Since |-> 0, Limit |-> 0])}

sinceOf(req) == timeOrZero(req.Since)

GetNamespaceSummary(req) ==
    {[r \in DOMAIN groups |-> [groups[r] EXCEPT !.lastSeen = <<@>>]] :
       groups \in SummarizeNamespace(req.Namespace, sinceOf(req))}

-----------------------------------------------------------------------------
\* The next step of the plan, if it is a call of the method.
calling(method) == /\ session.next <= Len(session.plan)
                   /\ session.plan[session.next].Method = method

answeredWith(s) == [s EXCEPT !.next = @ + 1, !.answered = @ \cup {s.next}]

decoded(r) == [i \in DOMAIN r |-> [r[i] EXCEPT !.event = fromProtoEvent(@)]]

\* runStep, the call of ListEvents: the limit is cut to 32 bits.
RunListEvents ==
    /\ calling("ListEvents")
    /\ LET step == session.plan[session.next]
           req  == [Namespace |-> step.Namespace, Reason |-> step.Reason,
                    Since |-> toTimestampPB(step.Since), Limit |-> wrap(step.Limit)]
       IN \E r \in ListEvents(req) :
            session' = [answeredWith(session) EXCEPT !.events = @ \o decoded(r)]
    /\ UNCHANGED vars

RunGetEventsForObject ==
    /\ calling("GetEventsForObject")
    /\ LET step == session.plan[session.next]
           req  == [Namespace |-> step.Namespace, Kind |-> step.Kind, Name |-> step.Name]
       IN \E r \in GetEventsForObject(req) :
            session' = [answeredWith(session) EXCEPT !.events = @ \o decoded(r)]
    /\ UNCHANGED vars

RunGetNamespaceSummary ==
    /\ calling("GetNamespaceSummary")
    /\ LET step == session.plan[session.next]
           req  == [Namespace |-> step.Namespace, Since |-> toTimestampPB(step.Since)]
       IN \E groups \in GetNamespaceSummary(req) :
            session' = [answeredWith(session) EXCEPT
                          !.groups = groups,
                          !.stored = byID]
    /\ UNCHANGED vars

\* The summary as the response shows it.
toNamespaceSummaryLines(groups) ==
    [r \in DOMAIN groups |-> [groups[r] EXCEPT !.lastSeen = timeOrZero(@)]]

\* A call that fails, whose error becomes a warning, and one that does not
\* read the store.
PassStep ==
    /\ session.next <= Len(session.plan)
    /\ session' = [session EXCEPT !.next = @ + 1]
    /\ UNCHANGED vars

SessionStep == RunListEvents \/ RunGetEventsForObject \/ RunGetNamespaceSummary \/ PassStep

ServerNext == SessionStep \/ (Next /\ UNCHANGED session)

ServerSpec == ServerInit /\ [][ServerNext]_serverVars

-----------------------------------------------------------------------------
(***************************************************************************)
(* Properties                                                              *)
(***************************************************************************)
Collected == ToSet(session.events)

\* A request never collects an episode twice, although its calls list the
\* store several times while it changes (planner.go 88-106, executor.go 50-85):
\* the timeline, the counts and the downstream effects would be inflated.
CollectedOnce ==
    \A i, j \in DOMAIN session.events :
        i # j => session.events[i].id # session.events[j].id

\* Is the event one that the step asks for?
AskedFor(step, e) ==
    /\ step.Namespace \in {"", e.Namespace} /\ step.Reason \in {"", e.Reason}
    /\ step.Kind \in {"", e.InvolvedObjectKind} /\ step.Name \in {"", e.InvolvedObjectName}
    /\ step.Since <= e.LastSeen

\* What a request collects, through two conversions, is what it asked for and a
\* state its episode really was in: the episode, if it is still stored, can only
\* have grown since, and lasts from its first to its last time (server.go 38-72,
\* 194-208; executor.go 153-197).
CollectedGenuine ==
    \A c \in Collected :
        /\ \E i \in session.answered : AskedFor(session.plan[i], c.event)
        /\ c.event.FirstSeen <= c.event.LastSeen
        /\ c.id \in DOMAIN byID =>
             LET e == byID[c.id] IN
             /\ dedupKey(c.event) = dedupKey(e)
             /\ c.event.Count <= e.Count /\ c.event.LastSeen <= e.LastSeen
             /\ c.event.FirstSeen # 0 => e.FirstSeen \in 1 .. c.event.FirstSeen

\* Did a call list the events of the reason without a limit?
Listed(reason) ==
    \E i \in session.answered :
        /\ session.plan[i].Method = "ListEvents" /\ session.plan[i].Limit = 0
        /\ session.plan[i].Reason \in {"", reason}

\* The summary of a reply and its events come from different calls, and agree:
\* unless an episode was evicted in between, the events account for all that
\* the summary counts (planner.go 50-55, 88-106; server.go 74-95).
SummaryCovered ==
    \A reason \in DOMAIN session.groups :
        LET group == toNamespaceSummaryLines(session.groups)[reason]
            about == {c \in Collected : c.event.Reason = reason}
        IN /\ Listed(reason)
           /\ \A i \in DOMAIN session.stored :
                session.stored[i].Reason = reason => i \in DOMAIN byID
           => /\ group.count <= SumFunction([c \in about |-> c.event.Count])
              /\ group.objects \subseteq {c.event.InvolvedObjectName : c \in about}
              /\ group.lastSeen <= Max({c.event.LastSeen : c \in about})

=============================================================================
