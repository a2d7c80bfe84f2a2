------------------------ MODULE NodeOutputProperties ------------------------
(***************************************************************************)
(* What the output slot of a node promises, to however many controllers.   *)
(***************************************************************************)
EXTENDS NodeOutput

EvidenceType == [status : Statuses \cup {"none"}, lease : Nat]
ResultType == [status : Statuses \cup {"none"}, lease : Nat,
               via : {"attempt", "record"}]
MemoryType ==
    [pc : {"idle", "accept", "mark", "lookup", "recover", "acquire", "work",
           "revoke", "stage", "commit", "check", "reread", "owner", "record",
           "apply"},
     activity : 0..MaxActivities, lease : Nat, evidence : EvidenceType,
     result : ResultType]

TypeOK ==
    /\ active \in 0..MaxActivities /\ tried \in Activities
    /\ result \in [Activities -> ResultType]
    /\ evidence \in [Activities -> EvidenceType]
    /\ callers \in [Activities -> SUBSET Controllers]
    /\ leases \in Seq(Activities)
    /\ current \in 0..Len(leases) /\ committed \in 0..Len(leases)
    /\ staged \subseteq 1..Len(leases) /\ outputs \subseteq 1..Len(leases)
    /\ ctl \in [Controllers -> MemoryType]
    /\ crashes \in 0..MaxCrashes

-----------------------------------------------------------------------------
(* A slow owner commits nothing once the slot has been leased again: what  *)
(* is current, staged or committed is always the newest lease's            *)
(* (_assert_current, and the deletes of acquire and revoke).  Staged rows  *)
(* of owners that were overtaken do not pile up.                           *)
SlotIsNewest ==
    /\ current \in {0, Len(leases)}
    /\ staged \subseteq {current} \ {0}
    /\ committed \in {0, current}

(* A successful result names an output that the slot did commit for this   *)
(* very activity, whichever controller committed it and whichever recorded *)
(* the result (execute's second read, recover_committed_output).           *)
SuccessIsBacked ==
    \A a \in Activities : result[a].status = "succeeded" =>
        /\ result[a].lease \in outputs
        /\ leases[result[a].lease] = a

(* A result rests on the terminal evidence recorded for its activity, the  *)
(* first one to be recorded.  The one exception the code makes: an attempt *)
(* that was overtaken adopts the output another controller committed for   *)
(* its activity, and the success then stands on the failed evidence of the *)
(* adopter (activity_executor.py, execute).  Never the other way round: no *)
(* failure is committed over the evidence of a success.                    *)
EvidenceDecides ==
    \A a \in Activities : result[a] # NoResult =>
        \/ evidence[a] = Evidence(result[a].status, result[a].lease)
        \/ /\ result[a].status = "succeeded"
           /\ evidence[a].status \in {"failed", "indeterminate"}

(* Controllers that disagree on the result of an activity cannot replace   *)
(* the one that was committed first, nor can a late one reopen an activity *)
(* the run has left (accept_activity_result).                              *)
ResultsAreFinal ==
    [][\A a \in Activities :
         /\ result[a] # NoResult => result'[a] = result[a]
         /\ result'[a] # result[a] => a = tried]_vars
=============================================================================
