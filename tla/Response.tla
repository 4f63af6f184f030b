------------------------------- MODULE Response -------------------------------
(***************************************************************************)
(* What becomes of a timeline: the response of                             *)
(* internal/app/coordinator/response.go in each of its modes, and the      *)
(* prompt of pkg/llm/prompt.go that asks the LLM to narrate it.  A text is *)
(* the record of what is filled into it.                                   *)
(***************************************************************************)
EXTENDS Correlator

rootReasons == {ce.event.Reason : ce \in ToSet(rootCauses)}

-----------------------------------------------------------------------------
\* Mutants of the definitions below: plausible slips in the code they model.
downstreamPerReason == Len(all) - Cardinality(rootReasons)

markerOfCause(ce) == ce.CausedBy

-----------------------------------------------------------------------------
eventLine(ce) ==
    [Time |-> ce.event.LastSeen, Namespace |-> ce.event.Namespace,
     Object |-> ce.event.Object.KindName, Reason |-> ce.event.Reason,
     IsRootCause |-> ce.IsRootCause, CausedBy |-> ce.CausedBy, GroupID |-> ce.GroupID]

toEventLines(ces) == [i \in DOMAIN ces |-> eventLine(ces[i])]

\* The map drops repetitions; the namespace is not part of its key.
affectedObjects == {ce.event.Object.KindName : ce \in ToSet(all)}

downstream == Len(all) - Len(rootCauses)

summarise ==
    CASE all = <<>> -> [text |-> "No events found"]
      [] all # <<>> /\ rootCauses = <<>> -> [text |-> "no clear root cause", events |-> Len(all)]
      [] OTHER -> [text |-> "Detected", events |-> Len(all),
                   objects |-> Cardinality(affectedObjects), reasons |-> rootReasons,
                   effects |-> downstream, affected |-> affectedObjects]

Build(mode) ==
    [Mode            |-> mode,
     Timeline        |-> IF mode = "concise" THEN <<>> ELSE toEventLines(all),
     RootCauses      |-> toEventLines(rootCauses),
     AffectedObjects |-> IF mode = "concise" THEN {} ELSE affectedObjects,
     Summary         |-> IF mode = "technical" THEN [text |-> ""] ELSE summarise]

-----------------------------------------------------------------------------
marker(ce) ==
    CASE ce.IsRootCause -> "ROOT CAUSE"
      [] ~ce.IsRootCause /\ ce.CausedBy # "" -> ce.CausedBy
      [] OTHER -> ""

SummarizeTimeline ==
    IF all = <<>> THEN [text |-> "no issues were detected"]
    ELSE [text |-> "diagnosis", roots |-> toEventLines(rootCauses),
          timeline |-> [i \in DOMAIN all |-> [line |-> eventLine(all[i]), marker |-> marker(all[i])]]]

-----------------------------------------------------------------------------
(***************************************************************************)
(* Properties                                                              *)
(***************************************************************************)
Roots(lines) == {i \in DOMAIN lines : lines[i].IsRootCause}

\* A caller of the concise mode sees no timeline.  What it is told instead is
\* what a caller of the full mode counts in its timeline: the events, the
\* objects, the root causes and how many effects they have
\* (response.go 115-144, 271-299).
ModesAgree ==
    pc = "done" =>
        LET full == Build("incident-summary")
            told == Build("concise")
            lines == full.Timeline
        IN /\ told.RootCauses = full.RootCauses /\ told.Summary = full.Summary
           /\ ToSet(told.RootCauses) = {lines[i] : i \in Roots(lines)}
           /\ lines = <<>> <=> told.Summary.text = "No events found"
           /\ lines # <<>> =>
                /\ told.Summary.events = Len(lines)
                /\ told.Summary.effects = Cardinality(DOMAIN lines \ Roots(lines))
                /\ told.Summary.reasons = {lines[i].Reason : i \in Roots(lines)}
                /\ told.Summary.affected = {lines[i].Object : i \in DOMAIN lines}

\* The prompt is to be answered "using only the information above": every cause
\* it names is the reason of a line of the same group, so that the LLM finds the
\* event it is told about, and that line stands above the effect, unless both
\* have the same time: the second sort of Correlate may then put the effect
\* first.  An event without a cause is marked as a root cause (prompt.go 38-83).
PromptGrounded ==
    pc = "done" /\ all # <<>> =>
        LET lines == SummarizeTimeline.timeline IN
        \A i \in DOMAIN lines :
            lines[i].marker # "ROOT CAUSE" =>
                \E j \in DOMAIN lines :
                    /\ lines[j].line.Reason = lines[i].marker
                    /\ lines[j].line.GroupID = lines[i].line.GroupID
                    /\ j < i \/ lines[j].line.Time = lines[i].line.Time

=============================================================================
