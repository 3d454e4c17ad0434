-------------------------- MODULE MCDeferredTasks --------------------------
EXTENDS DeferredTasks

\* An alarm of a form, and a reminder the model answers.
MCKind == [t \in Tasks |-> IF t = 1 THEN "timer" ELSE "chat"]
=============================================================================
