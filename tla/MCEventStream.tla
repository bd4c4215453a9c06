---------------------------- MODULE MCEventStream ----------------------------
EXTENDS EventStream, TLC

\* Both viewers watch the ticket of all events; the second one watches one of
\* its runs.
AllEvents == [v \in Viewers |-> Events]
SomeRun   == [v \in Viewers |-> IF v = "tab" THEN Events ELSE Events \ {2}]

=============================================================================
