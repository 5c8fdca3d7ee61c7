------------------------------- MODULE MCPim --------------------------------
EXTENDS PimClient

CONSTANTS Meeting, Review, Prepare, Report, Work, Home, Week

\* A calendar exported earlier: a meeting and the todo it was mirrored as,
\* in a list that may have been removed since.
Exported ==
  {[events |-> {Meeting}, todos |-> {Prepare}, todoOf |-> [e \in Events |-> IF e = Meeting THEN Prepare ELSE None],
    eventOf |-> [t \in Todos |-> IF t = Prepare THEN Meeting ELSE None],
    list |-> [t \in Todos |-> IF t = Prepare THEN Work ELSE Inbox],
    parent |-> [t \in Todos |-> None], alarms |-> {Meeting}]}
=============================================================================
