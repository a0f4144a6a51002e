----------------------------- MODULE AuditTrail -----------------------------
(***************************************************************************)
(* What the proxy promises the reader of the audit trail, with no handler, *)
(* file or webhook in sight: the trail is a record of answers clients were *)
(* given.  An entry is about a mutating request, reports the status that   *)
(* the backend gave and the client got, and is the only one about its      *)
(* request.  Delivery is best effort, so an entry may be missing; none is  *)
(* ever invented, and none is written for an error of the proxy's own.     *)
(* Nobody is answered once the proxy is dead, but an entry already under   *)
(* way may still be recorded.                                              *)
(***************************************************************************)
EXTENDS Integers

CONSTANTS Requests, BackendStatus

VARIABLES
    mutating,   \* which requests ask for a change of a resource
    answer,     \* who answered each client, and with which status
    trail,      \* the entries the receiver holds
    alive       \* the proxy's process runs

vars == <<mutating, answer, trail, alive>>

Unanswered == [by |-> "nobody", status |-> 0]

Init ==
    /\ mutating \in [Requests -> BOOLEAN]
    /\ answer = [r \in Requests |-> Unanswered]
    /\ trail = {}
    /\ alive = TRUE

(* The proxy relays the backend's answer, or gives an error of its own.    *)
Answer(r) ==
    /\ alive
    /\ answer[r].by = "nobody"
    /\ \E a \in [by : {"backend"}, status : BackendStatus]
                \cup [by : {"proxy"}, status : {400, 401, 502}] :
          answer' = [answer EXCEPT ![r] = a]
    /\ UNCHANGED <<mutating, trail, alive>>

Record(r) ==
    /\ mutating[r]
    /\ answer[r].by = "backend"
    /\ \A e \in trail : e.request # r
    /\ trail' = trail \cup {[request |-> r, status |-> answer[r].status]}
    /\ UNCHANGED <<mutating, answer, alive>>

Die ==
    /\ alive
    /\ alive' = FALSE
    /\ UNCHANGED <<mutating, answer, trail>>

Next == Die \/ \E r \in Requests : Answer(r) \/ Record(r)

Spec == Init /\ [][Next]_vars
=============================================================================
