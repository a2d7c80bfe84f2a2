------------------------ MODULE MCAttemptSupervisor ------------------------
EXTENDS AttemptSupervisorProperties

\* A call that supervises a nested one, beside a call of the same operation
\* that is made inline by a controller of its own.
NestOp == [c \in Calls |-> IF c = "a" THEN "inner" ELSE "outer"]
NestParent == [c \in Calls |-> IF c = "a" THEN "p" ELSE "none"]
=============================================================================
