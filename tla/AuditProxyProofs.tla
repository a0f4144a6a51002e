-------------------------- MODULE AuditProxyProofs --------------------------
(* Proofs about the request pipeline, for any set of requests, any status  *)
(* codes and both configurations of the identity extractor.                *)
EXTENDS AuditProxy, FiniteSetTheorems, TLAPS

(* Where a handler has not yet answered its client.                        *)
Unanswered == {"idle", "passthrough", "createRequest", "copyRequest", "openRequest",
               "roundTrip", "createResponse", "copyResponse", "openResponse"}

(* Where a handler is known to be on the audited path.                     *)
Audited == {"createRequest", "copyRequest", "openRequest", "roundTrip", "createResponse",
            "copyResponse", "openResponse", "writing"}

(* Where it has not yet sent anything to the backend.                      *)
Unsent == {"idle", "createRequest", "copyRequest", "openRequest"}

(* Where it holds the backend's response.                                  *)
HasResponse == {"createResponse", "copyResponse", "openResponse", "writing"}

(* Where the file of a side does not exist yet.                            *)
BeforeFile ==
    [request |-> {"idle", "passthrough", "streaming", "createRequest"},
     response |-> {"idle", "passthrough", "streaming", "createRequest", "copyRequest",
                   "openRequest", "roundTrip", "createResponse"}]

(* The handler's position determines what it may assume of its request.    *)
HandlerInv(r) ==
    /\ pc[r] \in Unanswered => sent[r].by = "nobody" /\ audit[r] = "none"
    /\ pc[r] \in Audited => ShouldAudit(r) /\ IdentityAccepted(r)
    /\ pc[r] = "streaming" => ~ShouldAudit(r)
    /\ pc[r] = "passthrough" => ~ShouldAudit(r)
    /\ pc[r] \in Unsent => backend[r] = "unsent"
    /\ pc[r] \in HasResponse => backend[r] = "answered" /\ status[r] = reply[r]
    /\ pc[r] = "writing" =>
          sent[r] = [by |-> "backend", status |-> reply[r]] /\ audit[r] = "none"
    /\ pc[r] \in {"deferred", "returned"} /\ ShouldAudit(r) /\ sent[r].by = "backend" =>
          audit[r] # "none"

(* What an audit goroutine rests on stays as it was when it was spawned.   *)
AuditInv(r) ==
    audit[r] # "none" =>
        /\ pc[r] \in {"deferred", "returned"}
        /\ ShouldAudit(r)
        /\ IdentityAccepted(r)
        /\ backend[r] = "answered"
        /\ status[r] = reply[r]
        /\ sent[r] = [by |-> "backend", status |-> reply[r]]
        /\ event[r] \in {0, reply[r]}

(* Every file is being written, has its Cleanup deferred, or could not be  *)
(* removed.                                                                *)
FileInv ==
    /\ cleanups \cap removeFailed = {}
    /\ \A f \in cleanups : InHandler(f[1])
    /\ \A r \in Requests : \A side \in Side :
          /\ pc[r] \in BeforeFile[side] => <<r, side>> \notin files
          /\ pc[r] = CopyAt[side] =>
                <<r, side>> \in files /\ <<r, side>> \notin cleanups \cup removeFailed
          /\ <<r, side>> \in files =>
                \/ <<r, side>> \in cleanups \cup removeFailed
                \/ pc[r] = CopyAt[side]

(* An event is built once, from the reply, before its POST is sent.        *)
EventInv(r) ==
    /\ audit[r] = "none" => event[r] = 0
    /\ audit[r] \in {"none", "spawned"} => post[r] = "unsent"
    /\ post[r] # "unsent" => event[r] = reply[r]
    /\ backend[r] = "answered" => reply[r] \in BackendStatus

(* The inductive invariant.                                                *)
ProxyInv ==
    /\ TypeOK
    /\ \A r \in Requests : HandlerInv(r) /\ AuditInv(r) /\ EventInv(r)
    /\ FileInv

----------------------------------------------------------------------------
(* Removing some files, some removals failing, keeps the bookkeeping sets  *)
(* within the files on disk.                                               *)
LEMMA RemovalKeepsSubsets ==
    ASSUME NEW U, NEW fs \in SUBSET U, NEW deferred \in SUBSET fs, NEW stuck \in SUBSET fs,
           NEW own \in SUBSET U, own \cap stuck = {}, NEW failed \in SUBSET own
    PROVE  /\ (fs \ own) \cup failed \subseteq U
           /\ deferred \ own \subseteq (fs \ own) \cup failed
           /\ stuck \cup failed \subseteq (fs \ own) \cup failed
OBVIOUS

(* Every step keeps the state well typed.                                  *)
LEMMA TypeStep == ProxyInv /\ [Next]_vars => TypeOK'
<1> SUFFICES ASSUME ProxyInv, [Next]_vars PROVE TypeOK'
  OBVIOUS
<1> USE DEF ProxyInv, TypeOK, Goto, HTTPError, AnswerClient, Milestone, handlerVars,
            fileVars, auditVars, backendVars, processVars
<1>1. ASSUME NEW r \in Requests, Reject(r) PROVE TypeOK'
  BY <1>1 DEF Reject
<1>2. ASSUME NEW r \in Requests, ServePassthrough(r) PROVE TypeOK'
  BY <1>2 DEF ServePassthrough
<1>3. ASSUME NEW r \in Requests, ServeAudited(r) PROVE TypeOK'
  BY <1>3 DEF ServeAudited
<1>4. ASSUME NEW r \in Requests, PassthroughResponse(r) PROVE TypeOK'
  BY <1>4 DEF PassthroughResponse
<1>5. ASSUME NEW r \in Requests, PassthroughFails(r) PROVE TypeOK'
  BY <1>5 DEF PassthroughFails
<1>6. ASSUME NEW r \in Requests, StreamEnds(r) PROVE TypeOK'
  BY <1>6 DEF StreamEnds
<1>7. ASSUME NEW r \in Requests, SendUpstream(r) PROVE TypeOK'
  BY <1>7 DEF SendUpstream
<1>8. ASSUME NEW r \in Requests, RoundTripReturns(r) PROVE TypeOK'
  BY <1>8 DEF RoundTripReturns
<1>9. ASSUME NEW r \in Requests, RoundTripFails(r) PROVE TypeOK'
  BY <1>9 DEF RoundTripFails
<1>10. ASSUME NEW r \in Requests, Respond(r) PROVE TypeOK'
  BY <1>10 DEF Respond
<1>11. ASSUME NEW r \in Requests, SpawnAudit(r) PROVE TypeOK'
  BY <1>11 DEF SpawnAudit
<1>12. ASSUME NEW r \in Requests, BuildEvent(r) PROVE TypeOK'
  BY <1>12 DEF BuildEvent, CountEvent
<1>13. ASSUME NEW r \in Requests, SendSucceeds(r) PROVE TypeOK'
  BY <1>13 DEF SendSucceeds, CountEvent
<1>14. ASSUME NEW r \in Requests, SendFails(r) PROVE TypeOK'
  BY <1>14 DEF SendFails, CountEvent
<1>15. ASSUME NEW r \in Requests, ClientCancels(r) PROVE TypeOK'
  BY <1>15 DEF ClientCancels
<1>16. ASSUME NEW r \in Requests, BackendAnswers(r) PROVE TypeOK'
  BY <1>16 DEF BackendAnswers
<1>17. ASSUME NEW r \in Requests, BackendUnreachable(r) PROVE TypeOK'
  BY <1>17 DEF BackendUnreachable
<1>18. ASSUME NEW r \in Requests, ReceiverAnswers(r) PROVE TypeOK'
  BY <1>18 DEF ReceiverAnswers
<1>19. ASSUME NEW r \in Requests, NEW side \in Side, CreateTempFails(r, side) PROVE TypeOK'
  BY <1>19 DEF CreateTempFails, SpoolErrorCode, Side
<1>20. ASSUME NEW r \in Requests, NEW side \in Side, OpenFails(r, side) PROVE TypeOK'
  BY <1>20 DEF OpenFails
<1>21. ASSUME NEW r \in Requests, NEW side \in Side, CreateTemp(r, side) PROVE TypeOK'
  BY <1>21 DEF CreateTemp, CopyAt, Side
<1>22. ASSUME NEW r \in Requests, NEW side \in Side, SpoolBody(r, side) PROVE TypeOK'
  <2>1. <<r, side>> \in files
    BY <1>22 DEF SpoolBody, FileInv
  <2>2. cleanups' \subseteq files'
    BY <1>22, <2>1 DEF SpoolBody
  <2>3. OpenAt[side] \in {"openRequest", "openResponse"}
    BY DEF OpenAt, Side
  <2> QED
    BY <1>22, <2>2, <2>3 DEF SpoolBody
<1>23. ASSUME NEW r \in Requests, NEW side \in Side, SpoolBodyFails(r, side) PROVE TypeOK'
  <2> DEFINE own == {<<r, side>>}
  <2>1. own \cap cleanups = {} /\ own \cap removeFailed = {} /\ own \in SUBSET (Requests \X Side)
    BY <1>23 DEF SpoolBodyFails, FileInv
  <2>2. PICK failed \in SUBSET own :
            /\ files' = (files \ own) \cup failed
            /\ removeFailed' = removeFailed \cup failed
    BY <1>23 DEF SpoolBodyFails, RemoveFiles
  <2> HIDE DEF own
  <2>3. /\ files' \subseteq Requests \X Side
        /\ cleanups \ own \subseteq files'
        /\ removeFailed' \subseteq files'
    BY <2>1, <2>2, RemovalKeepsSubsets
  <2>4. cleanups' = cleanups \ own
    BY <1>23, <2>1 DEF SpoolBodyFails
  <2>5. SpoolErrorCode[side] \in {BadRequest, BadGateway}
    BY DEF SpoolErrorCode, Side
  <2> QED
    BY <1>23, <2>3, <2>4, <2>5 DEF SpoolBodyFails
<1>24. ASSUME NEW r \in Requests, Return(r) PROVE TypeOK'
  <2>1. /\ Deferred(r) \cap removeFailed = {}
        /\ Deferred(r) \subseteq Requests \X Side
    BY DEF Deferred, FileInv
  <2>2. PICK failed \in SUBSET Deferred(r) :
            /\ files' = (files \ Deferred(r)) \cup failed
            /\ removeFailed' = removeFailed \cup failed
    BY <1>24 DEF Return, RemoveFiles
  <2>3. cleanups' = cleanups \ Deferred(r)
    BY <1>24 DEF Return
  <2>4. /\ files' \subseteq Requests \X Side
        /\ cleanups' \subseteq files'
        /\ removeFailed' \subseteq files'
    BY <2>1, <2>2, <2>3, RemovalKeepsSubsets
  <2> QED
    BY <1>24, <2>4 DEF Return
<1>25. CASE ProcessStep
  BY <1>25 DEF ProcessStep, Signal, BeginShutdown, ShutdownReturns, MainReturns, Crash
<1>26. CASE UNCHANGED vars
  BY <1>26 DEF vars
<1> HIDE DEF ProxyInv, TypeOK, Goto, HTTPError, AnswerClient, Milestone, handlerVars,
            fileVars, auditVars, backendVars, processVars
<1> QED
  BY <1>1, <1>2, <1>3, <1>4, <1>5, <1>6, <1>7, <1>8, <1>9, <1>10, <1>11, <1>12, <1>13,
     <1>14, <1>15, <1>16, <1>17, <1>18, <1>19, <1>20, <1>21, <1>22, <1>23, <1>24,
     <1>25, <1>26
  DEF Next, HandlerStep, AuditStep, OutsideStep

(* Every step keeps what handlers and audit goroutines rest on.            *)
LEMMA HandlerStepInv == ProxyInv /\ [Next]_vars => (\A q \in Requests : HandlerInv(q) /\ AuditInv(q) /\ EventInv(q))'
<1> SUFFICES ASSUME ProxyInv, [Next]_vars PROVE (\A q \in Requests : HandlerInv(q) /\ AuditInv(q) /\ EventInv(q))'
  OBVIOUS
<1> USE DEF ProxyInv, TypeOK, Goto, HTTPError, AnswerClient, Milestone, handlerVars,
            fileVars, auditVars, backendVars, processVars,
            EventInv, HandlerInv, AuditInv, Unanswered, Audited, Unsent, HasResponse, ShouldAudit,
            IdentityAccepted
<1>1. ASSUME NEW r \in Requests, Reject(r) PROVE (\A q \in Requests : HandlerInv(q) /\ AuditInv(q) /\ EventInv(q))'
  BY <1>1 DEF Reject
<1>2. ASSUME NEW r \in Requests, ServePassthrough(r) PROVE (\A q \in Requests : HandlerInv(q) /\ AuditInv(q) /\ EventInv(q))'
  BY <1>2 DEF ServePassthrough
<1>3. ASSUME NEW r \in Requests, ServeAudited(r) PROVE (\A q \in Requests : HandlerInv(q) /\ AuditInv(q) /\ EventInv(q))'
  BY <1>3 DEF ServeAudited
<1>4. ASSUME NEW r \in Requests, PassthroughResponse(r) PROVE (\A q \in Requests : HandlerInv(q) /\ AuditInv(q) /\ EventInv(q))'
  BY <1>4 DEF PassthroughResponse
<1>5. ASSUME NEW r \in Requests, PassthroughFails(r) PROVE (\A q \in Requests : HandlerInv(q) /\ AuditInv(q) /\ EventInv(q))'
  BY <1>5 DEF PassthroughFails
<1>6. ASSUME NEW r \in Requests, StreamEnds(r) PROVE (\A q \in Requests : HandlerInv(q) /\ AuditInv(q) /\ EventInv(q))'
  BY <1>6 DEF StreamEnds
<1>7. ASSUME NEW r \in Requests, SendUpstream(r) PROVE (\A q \in Requests : HandlerInv(q) /\ AuditInv(q) /\ EventInv(q))'
  BY <1>7 DEF SendUpstream
<1>8. ASSUME NEW r \in Requests, RoundTripReturns(r) PROVE (\A q \in Requests : HandlerInv(q) /\ AuditInv(q) /\ EventInv(q))'
  BY <1>8 DEF RoundTripReturns
<1>9. ASSUME NEW r \in Requests, RoundTripFails(r) PROVE (\A q \in Requests : HandlerInv(q) /\ AuditInv(q) /\ EventInv(q))'
  BY <1>9 DEF RoundTripFails
<1>10. ASSUME NEW r \in Requests, Respond(r) PROVE (\A q \in Requests : HandlerInv(q) /\ AuditInv(q) /\ EventInv(q))'
  BY <1>10 DEF Respond
<1>11. ASSUME NEW r \in Requests, SpawnAudit(r) PROVE (\A q \in Requests : HandlerInv(q) /\ AuditInv(q) /\ EventInv(q))'
  BY <1>11 DEF SpawnAudit
<1>12. ASSUME NEW r \in Requests, BuildEvent(r) PROVE (\A q \in Requests : HandlerInv(q) /\ AuditInv(q) /\ EventInv(q))'
  BY <1>12 DEF BuildEvent
<1>13. ASSUME NEW r \in Requests, SendSucceeds(r) PROVE (\A q \in Requests : HandlerInv(q) /\ AuditInv(q) /\ EventInv(q))'
  BY <1>13 DEF SendSucceeds
<1>14. ASSUME NEW r \in Requests, SendFails(r) PROVE (\A q \in Requests : HandlerInv(q) /\ AuditInv(q) /\ EventInv(q))'
  BY <1>14 DEF SendFails
<1>15. ASSUME NEW r \in Requests, ClientCancels(r) PROVE (\A q \in Requests : HandlerInv(q) /\ AuditInv(q) /\ EventInv(q))'
  BY <1>15 DEF ClientCancels
<1>16. ASSUME NEW r \in Requests, BackendAnswers(r) PROVE (\A q \in Requests : HandlerInv(q) /\ AuditInv(q) /\ EventInv(q))'
  BY <1>16 DEF BackendAnswers
<1>17. ASSUME NEW r \in Requests, BackendUnreachable(r) PROVE (\A q \in Requests : HandlerInv(q) /\ AuditInv(q) /\ EventInv(q))'
  BY <1>17 DEF BackendUnreachable
<1>18. ASSUME NEW r \in Requests, ReceiverAnswers(r) PROVE (\A q \in Requests : HandlerInv(q) /\ AuditInv(q) /\ EventInv(q))'
  BY <1>18 DEF ReceiverAnswers
<1>19. ASSUME NEW r \in Requests, NEW side \in Side, CreateTempFails(r, side) PROVE (\A q \in Requests : HandlerInv(q) /\ AuditInv(q) /\ EventInv(q))'
  BY <1>19 DEF CreateTempFails, CreateAt, Side
<1>20. ASSUME NEW r \in Requests, NEW side \in Side, OpenFails(r, side) PROVE (\A q \in Requests : HandlerInv(q) /\ AuditInv(q) /\ EventInv(q))'
  BY <1>20 DEF OpenFails, OpenAt, Side
<1>21. ASSUME NEW r \in Requests, NEW side \in Side, CreateTemp(r, side) PROVE (\A q \in Requests : HandlerInv(q) /\ AuditInv(q) /\ EventInv(q))'
  BY <1>21 DEF CreateTemp, CreateAt, CopyAt, Side
<1>22. ASSUME NEW r \in Requests, NEW side \in Side, SpoolBody(r, side) PROVE (\A q \in Requests : HandlerInv(q) /\ AuditInv(q) /\ EventInv(q))'
  BY <1>22 DEF SpoolBody, CopyAt, OpenAt, Side
<1>23. ASSUME NEW r \in Requests, NEW side \in Side, SpoolBodyFails(r, side) PROVE (\A q \in Requests : HandlerInv(q) /\ AuditInv(q) /\ EventInv(q))'
  BY <1>23 DEF SpoolBodyFails, CopyAt, Side
<1>24. ASSUME NEW r \in Requests, Return(r) PROVE (\A q \in Requests : HandlerInv(q) /\ AuditInv(q) /\ EventInv(q))'
  BY <1>24 DEF Return
<1>25. CASE ProcessStep
  BY <1>25 DEF ProcessStep, Signal, BeginShutdown, ShutdownReturns, MainReturns, Crash
<1>26. CASE UNCHANGED vars
  BY <1>26 DEF vars
<1> HIDE DEF ProxyInv, TypeOK, Goto, HTTPError, AnswerClient, Milestone, handlerVars,
            fileVars, auditVars, backendVars, processVars,
            EventInv, HandlerInv, AuditInv, Unanswered, Audited, Unsent, HasResponse, ShouldAudit,
            IdentityAccepted
<1> QED
  BY <1>1, <1>2, <1>3, <1>4, <1>5, <1>6, <1>7, <1>8, <1>9, <1>10, <1>11, <1>12, <1>13,
     <1>14, <1>15, <1>16, <1>17, <1>18, <1>19, <1>20, <1>21, <1>22, <1>23, <1>24,
     <1>25, <1>26
  DEF Next, HandlerStep, AuditStep, OutsideStep

(* Every step keeps track of the temporary files.                          *)
LEMMA FileStep == ProxyInv /\ [Next]_vars => FileInv'
<1> SUFFICES ASSUME ProxyInv, [Next]_vars PROVE FileInv'
  OBVIOUS
<1> USE DEF ProxyInv, TypeOK, Goto, HTTPError, AnswerClient, Milestone, handlerVars,
            fileVars, auditVars, backendVars, processVars,
            FileInv, InHandler, BeforeFile, CopyAt, Side
<1>1. ASSUME NEW r \in Requests, Reject(r) PROVE FileInv'
  BY <1>1 DEF Reject
<1>2. ASSUME NEW r \in Requests, ServePassthrough(r) PROVE FileInv'
  BY <1>2 DEF ServePassthrough
<1>3. ASSUME NEW r \in Requests, ServeAudited(r) PROVE FileInv'
  BY <1>3 DEF ServeAudited
<1>4. ASSUME NEW r \in Requests, PassthroughResponse(r) PROVE FileInv'
  BY <1>4 DEF PassthroughResponse
<1>5. ASSUME NEW r \in Requests, PassthroughFails(r) PROVE FileInv'
  BY <1>5 DEF PassthroughFails
<1>6. ASSUME NEW r \in Requests, StreamEnds(r) PROVE FileInv'
  BY <1>6 DEF StreamEnds
<1>7. ASSUME NEW r \in Requests, SendUpstream(r) PROVE FileInv'
  BY <1>7 DEF SendUpstream
<1>8. ASSUME NEW r \in Requests, RoundTripReturns(r) PROVE FileInv'
  BY <1>8 DEF RoundTripReturns
<1>9. ASSUME NEW r \in Requests, RoundTripFails(r) PROVE FileInv'
  BY <1>9 DEF RoundTripFails
<1>10. ASSUME NEW r \in Requests, Respond(r) PROVE FileInv'
  BY <1>10 DEF Respond
<1>11. ASSUME NEW r \in Requests, SpawnAudit(r) PROVE FileInv'
  BY <1>11 DEF SpawnAudit
<1>12. ASSUME NEW r \in Requests, BuildEvent(r) PROVE FileInv'
  BY <1>12 DEF BuildEvent
<1>13. ASSUME NEW r \in Requests, SendSucceeds(r) PROVE FileInv'
  BY <1>13 DEF SendSucceeds
<1>14. ASSUME NEW r \in Requests, SendFails(r) PROVE FileInv'
  BY <1>14 DEF SendFails
<1>15. ASSUME NEW r \in Requests, ClientCancels(r) PROVE FileInv'
  BY <1>15 DEF ClientCancels
<1>16. ASSUME NEW r \in Requests, BackendAnswers(r) PROVE FileInv'
  BY <1>16 DEF BackendAnswers
<1>17. ASSUME NEW r \in Requests, BackendUnreachable(r) PROVE FileInv'
  BY <1>17 DEF BackendUnreachable
<1>18. ASSUME NEW r \in Requests, ReceiverAnswers(r) PROVE FileInv'
  BY <1>18 DEF ReceiverAnswers
<1>19. ASSUME NEW r \in Requests, NEW side \in Side, CreateTempFails(r, side) PROVE FileInv'
  BY <1>19 DEF CreateTempFails, CreateAt
<1>20. ASSUME NEW r \in Requests, NEW side \in Side, OpenFails(r, side) PROVE FileInv'
  BY <1>20 DEF OpenFails, OpenAt
<1>21. ASSUME NEW r \in Requests, NEW side \in Side, CreateTemp(r, side) PROVE FileInv'
  BY <1>21 DEF CreateTemp, CreateAt
<1>22. ASSUME NEW r \in Requests, NEW side \in Side, SpoolBody(r, side) PROVE FileInv'
  <2>1. <<r, side>> \in files /\ <<r, side>> \notin removeFailed
    BY <1>22 DEF SpoolBody
  <2>2. /\ files' = files /\ removeFailed' = removeFailed
        /\ cleanups' = cleanups \cup {<<r, side>>}
        /\ pc' = [pc EXCEPT ![r] = OpenAt[side]]
    BY <1>22 DEF SpoolBody
  <2>3. (cleanups \cap removeFailed = {})'
    BY <2>1, <2>2
  <2>4. OpenAt[side] \in {"openRequest", "openResponse"}
    BY DEF OpenAt
  <2>5. \A f \in cleanups' : InHandler(f[1])'
    BY <2>2, <2>4
  <2> QED
    BY <1>22, <2>1, <2>2, <2>3, <2>4, <2>5 DEF SpoolBody, OpenAt
<1>23. ASSUME NEW r \in Requests, NEW side \in Side, SpoolBodyFails(r, side) PROVE FileInv'
  <2>1. <<r, side>> \notin cleanups
    BY <1>23 DEF SpoolBodyFails
  <2>2. PICK failed \in SUBSET {<<r, side>>} :
            /\ files' = (files \ {<<r, side>>}) \cup failed
            /\ removeFailed' = removeFailed \cup failed
    BY <1>23 DEF SpoolBodyFails, RemoveFiles
  <2>3. cleanups' = cleanups /\ pc' = [pc EXCEPT ![r] = "deferred"]
    BY <1>23 DEF SpoolBodyFails
  <2>4. (cleanups \cap removeFailed = {})'
    BY <2>1, <2>2, <2>3
  <2>5. \A f \in cleanups' : InHandler(f[1])'
    BY <2>3
  <2> QED
    BY <1>23, <2>1, <2>2, <2>3, <2>4, <2>5 DEF SpoolBodyFails
<1>24. ASSUME NEW r \in Requests, Return(r) PROVE FileInv'
  BY <1>24 DEF Return, RemoveFiles, Deferred
<1>25. CASE ProcessStep
  BY <1>25 DEF ProcessStep, Signal, BeginShutdown, ShutdownReturns, MainReturns, Crash
<1>26. CASE UNCHANGED vars
  BY <1>26 DEF vars
<1> HIDE DEF ProxyInv, TypeOK, Goto, HTTPError, AnswerClient, Milestone, handlerVars,
            fileVars, auditVars, backendVars, processVars,
            FileInv, InHandler, BeforeFile, CopyAt, Side
<1> QED
  BY <1>1, <1>2, <1>3, <1>4, <1>5, <1>6, <1>7, <1>8, <1>9, <1>10, <1>11, <1>12, <1>13,
     <1>14, <1>15, <1>16, <1>17, <1>18, <1>19, <1>20, <1>21, <1>22, <1>23, <1>24,
     <1>25, <1>26
  DEF Next, HandlerStep, AuditStep, OutsideStep

----------------------------------------------------------------------------
(* The invariant holds in every reachable state.                           *)
THEOREM ProxyInvariant == Spec => []ProxyInv
<1>1. Init => ProxyInv
  BY DEF Init, ProxyInv, TypeOK, HandlerInv, AuditInv, EventInv, FileInv, Side, CopyAt,
         Audited, Unsent, HasResponse, Unanswered
<1>2. ProxyInv /\ [Next]_vars => ProxyInv'
  BY TypeStep, HandlerStepInv, FileStep DEF ProxyInv
<1> QED
  BY <1>1, <1>2, PTL DEF Spec

(* The pipeline's state is well typed, for any number of requests.         *)
THEOREM ProxyTypeCorrect == Spec => []TypeOK
<1>1. ProxyInv => TypeOK
  BY DEF ProxyInv
<1> QED
  BY <1>1, ProxyInvariant, PTL

(* Events are only emitted for answers the client was given.               *)
THEOREM ProxyEventTruthful == Spec => []EventTruthful
<1>1. ProxyInv => EventTruthful
  BY DEF ProxyInv, AuditInv, EventTruthful, IdentityAccepted
<1> QED
  BY <1>1, ProxyInvariant, PTL

(* Every relayed answer to a mutating request has its audit goroutine.     *)
THEOREM ProxyRelayedIsAudited == Spec => []RelayedIsAudited
<1>1. ProxyInv => RelayedIsAudited
  BY DEF ProxyInv, HandlerInv, RelayedIsAudited
<1> QED
  BY <1>1, ProxyInvariant, PTL

(* Temporary files belong to running handlers or could not be removed.     *)
THEOREM ProxyTempFilesOwned == Spec => []TempFilesOwned
<1>1. ProxyInv => TempFilesOwned
  <2> SUFFICES ASSUME ProxyInv, NEW f \in files
               PROVE  InHandler(f[1]) \/ f \in removeFailed
    BY DEF TempFilesOwned
  <2>1. PICK r \in Requests, side \in Side : f = <<r, side>>
    BY DEF ProxyInv, TypeOK
  <2>2. \/ f \in cleanups \cup removeFailed
        \/ pc[r] = CopyAt[side]
    BY <2>1 DEF ProxyInv, FileInv
  <2> QED
    BY <2>1, <2>2 DEF ProxyInv, FileInv, InHandler, CopyAt, Side
<1> QED
  BY <1>1, ProxyInvariant, PTL

----------------------------------------------------------------------------
(* The proxy implements the abstract audit trail: every step of AuditProxy *)
(* answers a client, records an entry, kills the proxy, or is invisible to *)
(* the reader of the trail.                                                *)

(* The entries the receiver holds: the trail of the refinement mapping.    *)
Entries ==
    { [request |-> r, status |-> event[r]] : r \in { q \in Requests : post[q] = "accepted" } }

(* Posts and events untouched leave the entries untouched.                 *)
LEMMA EntriesUnchanged ==
    ASSUME UNCHANGED <<post, event>>
    PROVE  Entries' = Entries
BY DEF Entries

(* So do the requests and the process for what is mutating and alive.      *)
LEMMA MappingUnchanged ==
    ASSUME UNCHANGED <<inbound, process>>
    PROVE  UNCHANGED [q \in Requests |-> ShouldAudit(q)] /\ UNCHANGED Running
BY DEF ShouldAudit, Running

(* A step that leaves the mapped state alone is a stuttering step.         *)
LEMMA Invisible ==
    ASSUME UNCHANGED <<inbound, sent, process>>, Entries' = Entries
    PROVE  UNCHANGED Trail!vars
BY DEF Trail!vars, Entries, ShouldAudit, Running

(* The first answer to a client is an Answer of the abstract trail.        *)
LEMMA FirstAnswer ==
    ASSUME NEW r \in Requests, Running, sent[r].by = "nobody",
           NEW a \in [by : {"backend"}, status : BackendStatus]
                     \cup [by : {"proxy"}, status : {400, 401, 502}],
           sent' = [sent EXCEPT ![r] = a],
           UNCHANGED <<inbound, process, post, event>>
    PROVE  Trail!Next
<1>1. Entries' = Entries
  BY EntriesUnchanged
<1>2. UNCHANGED [q \in Requests |-> ShouldAudit(q)] /\ UNCHANGED Running
  BY MappingUnchanged
<1>3. \E b \in [by : {"backend"}, status : BackendStatus]
              \cup [by : {"proxy"}, status : {400, 401, 502}] : sent' = [sent EXCEPT ![r] = b]
  OBVIOUS
<1>4. Trail!Answer(r)
  BY <1>1, <1>2, <1>3 DEF Trail!Answer, Entries
<1> QED
  BY <1>4 DEF Trail!Next

(* An error of the proxy's own is such an answer, when it is the first.    *)
LEMMA ErrorAnswer ==
    ASSUME ProxyInv, NEW r \in Requests, Running, pc[r] \in Unanswered,
           NEW code \in {400, 401, 502}, HTTPError(r, code),
           UNCHANGED <<inbound, process, post, event>>
    PROVE  Trail!Next
<1>1. sent[r].by = "nobody"
  BY DEF ProxyInv, HandlerInv
<1>2. sent' = [sent EXCEPT ![r] = [by |-> "proxy", status |-> code]]
  BY DEF HTTPError, AnswerClient
<1>3. [by |-> "proxy", status |-> code] \in [by : {"proxy"}, status : {400, 401, 502}]
  OBVIOUS
<1> QED
  BY <1>1, <1>2, <1>3, FirstAnswer

(* A relayed answer is one too.                                            *)
LEMMA RelayedAnswer ==
    ASSUME NEW r \in Requests, Running, sent[r].by = "nobody",
           NEW code \in BackendStatus, AnswerClient(r, "backend", code),
           UNCHANGED <<inbound, process, post, event>>
    PROVE  Trail!Next
<1>1. sent' = [sent EXCEPT ![r] = [by |-> "backend", status |-> code]]
  BY DEF AnswerClient
<1>2. [by |-> "backend", status |-> code] \in [by : {"backend"}, status : BackendStatus]
  OBVIOUS
<1> QED
  BY <1>1, <1>2, FirstAnswer

(* A POST the receiver accepts is a Record; one it refuses is invisible.   *)
LEMMA ReceiverRecords ==
    ASSUME ProxyInv, NEW r \in Requests, ReceiverAnswers(r)
    PROVE  [Trail!Next]_(Trail!vars)
<1>1. /\ post[r] = "inFlight" /\ event' = event
      /\ inbound' = inbound /\ sent' = sent /\ process' = process
  BY DEF ReceiverAnswers, handlerVars, auditVars, processVars
<1>2. CASE post' = [post EXCEPT ![r] = "refused"]
  <2>1. \A q \in Requests : (post'[q] = "accepted") = (post[q] = "accepted")
    BY <1>1, <1>2 DEF ProxyInv, TypeOK
  <2>2. Entries' = Entries
    BY <1>1, <2>1 DEF Entries
  <2> QED
    BY <1>1, <2>2, Invisible
<1>3. CASE post' = [post EXCEPT ![r] = "accepted"]
  <2>1. \A q \in Requests : (post'[q] = "accepted") <=> (post[q] = "accepted" \/ q = r)
    BY <1>1, <1>3 DEF ProxyInv, TypeOK
  <2>2. Entries' = Entries \cup {[request |-> r, status |-> event[r]]}
    BY <1>1, <2>1 DEF Entries
  <2>3. \A e \in Entries : e.request # r
    BY <1>1 DEF Entries
  <2>4. /\ ShouldAudit(r)
        /\ sent[r] = [by |-> "backend", status |-> reply[r]]
        /\ event[r] = reply[r]
    <3>1. audit[r] # "none"
      BY <1>1 DEF ProxyInv, EventInv
    <3> QED
      BY <1>1, <3>1 DEF ProxyInv, EventInv, AuditInv
  <2>5. UNCHANGED [q \in Requests |-> ShouldAudit(q)] /\ UNCHANGED Running
    BY <1>1, MappingUnchanged
  <2>6. [q \in Requests |-> ShouldAudit(q)][r]
    BY <2>4
  <2>7. sent[r].by = "backend" /\ event[r] = sent[r].status
    BY <2>4
  <2>8. Trail!Record(r)
    BY <1>1, <2>2, <2>3, <2>5, <2>6, <2>7 DEF Trail!Record, Entries
  <2> QED
    BY <2>8 DEF Trail!Next
<1> QED
  BY <1>2, <1>3 DEF ReceiverAnswers

(* Building an event happens before its POST can have been accepted.       *)
LEMMA BuildInvisible ==
    ASSUME ProxyInv, NEW r \in Requests, BuildEvent(r)
    PROVE  UNCHANGED Trail!vars
<1>1. /\ post[r] = "unsent"
      /\ post' = [post EXCEPT ![r] = "inFlight"] /\ event' = [event EXCEPT ![r] = status[r]]
      /\ inbound' = inbound /\ sent' = sent /\ process' = process
  BY DEF BuildEvent, handlerVars, processVars, ProxyInv, EventInv
<1>2. \A q \in Requests : /\ (post'[q] = "accepted") <=> (post[q] = "accepted")
                          /\ post[q] = "accepted" => event'[q] = event[q]
  BY <1>1 DEF ProxyInv, TypeOK
<1>3. Entries' = Entries
  BY <1>2 DEF Entries
<1> QED
  BY <1>1, <1>3, Invisible

(* Every step of the pipeline is a step of the trail, or invisible.        *)
LEMMA TrailStep == ProxyInv /\ [Next]_vars => [Trail!Next]_(Trail!vars)
<1> SUFFICES ASSUME ProxyInv, [Next]_vars PROVE [Trail!Next]_(Trail!vars)
  OBVIOUS
<1> USE DEF handlerVars, fileVars, auditVars, backendVars, processVars
<1>1. ASSUME NEW r \in Requests,
             \/ ServePassthrough(r) \/ ServeAudited(r) \/ StreamEnds(r)
             \/ SendUpstream(r) \/ RoundTripReturns(r) \/ SpawnAudit(r) \/ Return(r)
             \/ SendSucceeds(r) \/ SendFails(r)
             \/ ClientCancels(r) \/ BackendAnswers(r) \/ BackendUnreachable(r)
      PROVE  UNCHANGED Trail!vars
  <2>1. UNCHANGED <<inbound, sent, process, post, event>>
    BY <1>1 DEF ServePassthrough, ServeAudited, StreamEnds, SendUpstream, RoundTripReturns,
                SpawnAudit, Return, SendSucceeds, SendFails, ClientCancels, BackendAnswers,
                BackendUnreachable
  <2> QED
    BY <2>1, EntriesUnchanged, Invisible
<1>2. ASSUME NEW r \in Requests, NEW side \in Side, CreateTemp(r, side) \/ SpoolBody(r, side)
      PROVE  UNCHANGED Trail!vars
  <2>1. UNCHANGED <<inbound, sent, process, post, event>>
    BY <1>2 DEF CreateTemp, SpoolBody
  <2> QED
    BY <2>1, EntriesUnchanged, Invisible
<1>3. ASSUME NEW r \in Requests, Reject(r) \/ PassthroughFails(r) \/ RoundTripFails(r)
      PROVE  Trail!Next
  <2>1. PICK code \in {400, 401, 502} : HTTPError(r, code)
    BY <1>3 DEF Reject, PassthroughFails, RoundTripFails, Unauthorized, BadGateway
  <2>2. Running /\ pc[r] \in Unanswered /\ UNCHANGED <<inbound, process, post, event>>
    BY <1>3 DEF Reject, PassthroughFails, RoundTripFails, Accepting, Unanswered
  <2> QED
    BY <2>1, <2>2, ErrorAnswer
<1>4. ASSUME NEW r \in Requests, NEW side \in Side,
             CreateTempFails(r, side) \/ SpoolBodyFails(r, side) \/ OpenFails(r, side)
      PROVE  Trail!Next
  <2>1. PICK code \in {400, 401, 502} : HTTPError(r, code)
    BY <1>4 DEF CreateTempFails, SpoolBodyFails, OpenFails, SpoolErrorCode, Side, BadRequest,
                BadGateway
  <2>2. Running /\ pc[r] \in Unanswered /\ UNCHANGED <<inbound, process, post, event>>
    BY <1>4 DEF CreateTempFails, SpoolBodyFails, OpenFails, CreateAt, CopyAt, OpenAt, Side,
                Unanswered
  <2> QED
    BY <2>1, <2>2, ErrorAnswer
<1>5. ASSUME NEW r \in Requests, PassthroughResponse(r) PROVE Trail!Next
  <2>1. sent[r].by = "nobody" /\ reply[r] \in BackendStatus
    BY <1>5 DEF PassthroughResponse, ProxyInv, HandlerInv, EventInv, Unanswered
  <2> QED
    BY <1>5, <2>1, RelayedAnswer DEF PassthroughResponse
<1>6. ASSUME NEW r \in Requests, Respond(r) PROVE Trail!Next
  <2>1. sent[r].by = "nobody" /\ status[r] \in BackendStatus
    BY <1>6 DEF Respond, ProxyInv, HandlerInv, EventInv, Unanswered, HasResponse
  <2> QED
    BY <1>6, <2>1, RelayedAnswer DEF Respond
<1>7. CASE Signal \/ BeginShutdown \/ ShutdownReturns
  <2>1. UNCHANGED <<inbound, sent, process, post, event>>
    BY <1>7 DEF Signal, BeginShutdown, ShutdownReturns
  <2> QED
    BY <2>1, EntriesUnchanged, Invisible
<1>8. CASE MainReturns \/ Crash
  <2>1. /\ Running /\ ~Running' /\ UNCHANGED <<inbound, sent, post, event>>
    BY <1>8 DEF MainReturns, Crash, Running
  <2>2. Entries' = Entries
    BY <2>1, EntriesUnchanged
  <2>3. Trail!Die
    BY <2>1, <2>2 DEF Trail!Die, Entries, ShouldAudit
  <2> QED
    BY <2>3 DEF Trail!Next
<1>9. CASE UNCHANGED vars
  <2>1. UNCHANGED <<inbound, sent, process, post, event>>
    BY <1>9 DEF vars
  <2> QED
    BY <2>1, EntriesUnchanged, Invisible
<1> QED
  BY <1>1, <1>2, <1>3, <1>4, <1>5, <1>6, <1>7, <1>8, <1>9, ReceiverRecords, BuildInvisible
  DEF Next, HandlerStep, AuditStep, OutsideStep, ProcessStep

(* The proxy's promise to the reader of the audit trail.                   *)
THEOREM ProxyImplementsTrail == Spec => ImplementsTrail
<1>1. Init => Trail!Init
  <2> SUFFICES ASSUME Init PROVE Trail!Init
    OBVIOUS
  <2>1. Entries = {}
    BY DEF Init, Entries
  <2> QED
    BY <2>1 DEF Init, Trail!Init, Trail!Unanswered, Entries, ShouldAudit, Running
<1>2. ProxyInv /\ [Next]_vars => [Trail!Next]_(Trail!vars)
  BY TrailStep
<1> QED
  BY <1>1, <1>2, ProxyInvariant, PTL DEF Spec, ImplementsTrail, Trail!Spec

(* No client is ever answered twice.                                       *)
THEOREM ProxyAnsweredOnce == Spec => AnsweredOnce
<1>1. ProxyInv /\ [Next]_vars => [\A r \in Requests : sent[r].by # "nobody" => sent'[r] = sent[r]]_vars
  <2> SUFFICES ASSUME ProxyInv, [Next]_vars, NEW q \in Requests, sent[q].by # "nobody"
               PROVE  sent'[q] = sent[q]
    OBVIOUS
  <2>1. [Trail!Next]_(Trail!vars)
    BY TrailStep
  <2>2. CASE Trail!Next
    BY <2>2 DEF Trail!Next, Trail!Answer, Trail!Record, Trail!Die, ProxyInv, TypeOK
  <2>3. CASE UNCHANGED Trail!vars
    BY <2>3 DEF Trail!vars
  <2> QED
    BY <2>1, <2>2, <2>3
<1> QED
  BY <1>1, ProxyInvariant, PTL DEF Spec, AnsweredOnce

----------------------------------------------------------------------------
(* What the proxy reports of its deliveries is what happened.              *)

(* Where an audit goroutine may be.                                        *)
AuditStage == {"none", "spawned", "posting", "sent", "send_error"}

(* How many audit goroutines are at a label.                               *)
AuditsAt(where, label) == Cardinality({ r \in Requests : where[r] = label })

(* The counters follow the audit goroutines: an event built is sent,       *)
(* failed or being posted, and one is counted as sent on an accepted POST. *)
CountInv ==
    /\ auditEvents.built = auditEvents.sent + auditEvents.send_error
                             + AuditsAt(audit, "posting")
    /\ auditEvents.sent = AuditsAt(audit, "sent")
    /\ \A r \in Requests : audit[r] = "sent" => post[r] = "accepted"

(* A logged milestone has its evidence, whatever the configuration.        *)
MilestoneInv ==
    /\ "firstVerifiedRequest" \in milestones =>
          \E r \in Requests : pc[r] # "idle" /\ IdentityAccepted(r)
    /\ "firstBackendOK" \in milestones => \E r \in Requests : backend[r] = "answered"
    /\ "firstWebhookOK" \in milestones => \E r \in Requests : post[r] = "accepted"

(* An audit goroutine that moves on is one fewer where it was and one more *)
(* where it goes.                                                          *)
LEMMA AuditMoves ==
    ASSUME NEW r \in Requests, NEW next,
           audit \in [Requests -> AuditStage], next # audit[r], audit' = [audit EXCEPT ![r] = next], NEW label
    PROVE  /\ AuditsAt(audit, label) \in Nat
           /\ label = next => AuditsAt(audit', label) = AuditsAt(audit, label) + 1
           /\ label = audit[r] => AuditsAt(audit', label) = AuditsAt(audit, label) - 1
<1> DEFINE Here == { q \in Requests : audit[q] = label }
<1>1. IsFiniteSet(Here)
  BY FiniteRequests, FS_Subset
<1>2. AuditsAt(audit, label) = Cardinality(Here) /\ Cardinality(Here) \in Nat
  BY <1>1, FS_CardinalityType DEF AuditsAt
<1>3. ASSUME label = next PROVE AuditsAt(audit', label) = AuditsAt(audit, label) + 1
  <2>1. r \notin Here /\ { q \in Requests : audit'[q] = label } = Here \cup {r}
    BY <1>3
  <2> QED
    BY <1>1, <1>2, <2>1, FS_AddElement DEF AuditsAt
<1>4. ASSUME label = audit[r] PROVE AuditsAt(audit', label) = AuditsAt(audit, label) - 1
  <2>1. r \in Here /\ { q \in Requests : audit'[q] = label } = Here \ {r}
    BY <1>4
  <2> QED
    BY <1>1, <1>2, <2>1, FS_RemoveElement DEF AuditsAt
<1> QED
  BY <1>2, <1>3, <1>4

(* Nobody else notices.                                                    *)
LEMMA AuditElsewhere ==
    ASSUME NEW r \in Requests, NEW next,
           audit \in [Requests -> AuditStage], audit' = [audit EXCEPT ![r] = next],
           NEW label, label # next, label # audit[r]
    PROVE  AuditsAt(audit', label) = AuditsAt(audit, label)
<1>1. { q \in Requests : audit'[q] = label } = { q \in Requests : audit[q] = label }
  OBVIOUS
<1> QED
  BY <1>1 DEF AuditsAt

(* Building an event: one more is built, one more is being posted.         *)
LEMMA BuildCounted ==
    ASSUME ProxyInv, CountInv, NEW r \in Requests, BuildEvent(r) PROVE CountInv'
<1>1. /\ audit[r] = "spawned" /\ audit' = [audit EXCEPT ![r] = "posting"]
      /\ auditEvents' = [auditEvents EXCEPT !["built"] = @ + 1]
      /\ post' = [post EXCEPT ![r] = "inFlight"]
  BY DEF BuildEvent, CountEvent
<1>2. audit \in [Requests -> AuditStage]
  BY DEF ProxyInv, TypeOK, AuditStage
<1>3. AuditsAt(audit', "posting") = AuditsAt(audit, "posting") + 1
  BY <1>1, <1>2, AuditMoves
<1>4. AuditsAt(audit', "sent") = AuditsAt(audit, "sent")
  BY <1>1, <1>2, AuditElsewhere
<1>5. AuditsAt(audit, "posting") \in Nat
  BY <1>1, <1>2, AuditMoves
<1>6. \A q \in Requests : audit'[q] = "sent" => post'[q] = "accepted"
  BY <1>1 DEF ProxyInv, TypeOK, CountInv
<1>7. /\ auditEvents'.built = auditEvents.built + 1
      /\ auditEvents'.sent = auditEvents.sent
      /\ auditEvents'.send_error = auditEvents.send_error
      /\ auditEvents.built \in Nat /\ auditEvents.sent \in Nat /\ auditEvents.send_error \in Nat
  BY <1>1 DEF ProxyInv, TypeOK
<1> QED
  BY <1>3, <1>4, <1>5, <1>6, <1>7 DEF CountInv

(* A delivery: one more is sent, one fewer is being posted.                *)
LEMMA SentCounted ==
    ASSUME ProxyInv, CountInv, NEW r \in Requests, SendSucceeds(r) PROVE CountInv'
<1>1. /\ audit[r] = "posting" /\ audit' = [audit EXCEPT ![r] = "sent"]
      /\ auditEvents' = [auditEvents EXCEPT !["sent"] = @ + 1]
      /\ post[r] = "accepted" /\ post' = post
  BY DEF SendSucceeds, CountEvent
<1>2. audit \in [Requests -> AuditStage]
  BY DEF ProxyInv, TypeOK, AuditStage
<1>3. AuditsAt(audit', "posting") = AuditsAt(audit, "posting") - 1
  BY <1>1, <1>2, AuditMoves
<1>4. AuditsAt(audit', "sent") = AuditsAt(audit, "sent") + 1
  BY <1>1, <1>2, AuditMoves
<1>5. AuditsAt(audit, "posting") \in Nat
  BY <1>1, <1>2, AuditMoves
<1>6. \A q \in Requests : audit'[q] = "sent" => post'[q] = "accepted"
  BY <1>1 DEF ProxyInv, TypeOK, CountInv
<1>7. /\ auditEvents'.built = auditEvents.built
      /\ auditEvents'.sent = auditEvents.sent + 1
      /\ auditEvents'.send_error = auditEvents.send_error
      /\ auditEvents.built \in Nat /\ auditEvents.sent \in Nat /\ auditEvents.send_error \in Nat
  BY <1>1 DEF ProxyInv, TypeOK
<1> QED
  BY <1>3, <1>4, <1>5, <1>6, <1>7 DEF CountInv

(* A failed delivery: one more failed, one fewer is being posted.          *)
LEMMA FailureCounted ==
    ASSUME ProxyInv, CountInv, NEW r \in Requests, SendFails(r) PROVE CountInv'
<1>1. /\ audit[r] = "posting" /\ audit' = [audit EXCEPT ![r] = "send_error"]
      /\ auditEvents' = [auditEvents EXCEPT !["send_error"] = @ + 1]
      /\ post' = post
  BY DEF SendFails, CountEvent
<1>2. audit \in [Requests -> AuditStage]
  BY DEF ProxyInv, TypeOK, AuditStage
<1>3. AuditsAt(audit', "posting") = AuditsAt(audit, "posting") - 1
  BY <1>1, <1>2, AuditMoves
<1>4. AuditsAt(audit', "sent") = AuditsAt(audit, "sent")
  BY <1>1, <1>2, AuditElsewhere
<1>5. AuditsAt(audit, "posting") \in Nat
  BY <1>1, <1>2, AuditMoves
<1>6. \A q \in Requests : audit'[q] = "sent" => post'[q] = "accepted"
  BY <1>1 DEF ProxyInv, TypeOK, CountInv
<1>7. /\ auditEvents'.built = auditEvents.built
      /\ auditEvents'.sent = auditEvents.sent
      /\ auditEvents'.send_error = auditEvents.send_error + 1
      /\ auditEvents.built \in Nat /\ auditEvents.sent \in Nat /\ auditEvents.send_error \in Nat
  BY <1>1 DEF ProxyInv, TypeOK
<1> QED
  BY <1>3, <1>4, <1>5, <1>6, <1>7 DEF CountInv

(* Spawning an audit goroutine counts nothing.                             *)
LEMMA SpawnUncounted ==
    ASSUME ProxyInv, CountInv, NEW r \in Requests, SpawnAudit(r) PROVE CountInv'
<1>1. /\ audit[r] = "none" /\ audit' = [audit EXCEPT ![r] = "spawned"]
      /\ auditEvents' = auditEvents /\ post' = post
  BY DEF SpawnAudit, ProxyInv, HandlerInv
<1>2. audit \in [Requests -> AuditStage]
  BY DEF ProxyInv, TypeOK, AuditStage
<1>3. AuditsAt(audit', "posting") = AuditsAt(audit, "posting")
  BY <1>1, <1>2, AuditElsewhere
<1>4. AuditsAt(audit', "sent") = AuditsAt(audit, "sent")
  BY <1>1, <1>2, AuditElsewhere
<1>5. \A q \in Requests : audit'[q] = "sent" => post'[q] = "accepted"
  BY <1>1 DEF ProxyInv, TypeOK, CountInv
<1> QED
  BY <1>1, <1>3, <1>4, <1>5 DEF CountInv

(* Every step keeps the counters in step with the audit goroutines.        *)
LEMMA CountStep == ProxyInv /\ CountInv /\ [Next]_vars => CountInv'
<1> SUFFICES ASSUME ProxyInv, CountInv, [Next]_vars PROVE CountInv'
  OBVIOUS
<1> USE DEF handlerVars, fileVars, auditVars, backendVars, processVars
<1>1. ASSUME UNCHANGED <<audit, auditEvents, post>> PROVE CountInv'
  BY <1>1 DEF CountInv, AuditsAt
<1>2. ASSUME NEW r \in Requests,
             \/ Reject(r) \/ ServePassthrough(r) \/ ServeAudited(r) \/ PassthroughResponse(r)
             \/ PassthroughFails(r) \/ StreamEnds(r) \/ SendUpstream(r) \/ RoundTripReturns(r)
             \/ RoundTripFails(r) \/ Respond(r) \/ Return(r)
             \/ ClientCancels(r) \/ BackendAnswers(r) \/ BackendUnreachable(r)
      PROVE  CountInv'
  BY <1>1, <1>2 DEF Reject, ServePassthrough, ServeAudited, PassthroughResponse,
                PassthroughFails, StreamEnds, SendUpstream, RoundTripReturns, RoundTripFails,
                Respond, Return, ClientCancels, BackendAnswers, BackendUnreachable
<1>3. ASSUME NEW r \in Requests, NEW side \in Side,
             \/ CreateTemp(r, side) \/ CreateTempFails(r, side) \/ SpoolBody(r, side)
             \/ SpoolBodyFails(r, side) \/ OpenFails(r, side)
      PROVE  CountInv'
  BY <1>1, <1>3 DEF CreateTemp, CreateTempFails, SpoolBody, SpoolBodyFails, OpenFails
<1>4. ASSUME NEW r \in Requests, ReceiverAnswers(r) PROVE CountInv'
  <2>1. UNCHANGED <<audit, auditEvents>> /\ post[r] = "inFlight"
    BY <1>4 DEF ReceiverAnswers
  <2>2. \A q \in Requests : post[q] = "accepted" => post'[q] = "accepted"
    BY <1>4 DEF ReceiverAnswers, ProxyInv, TypeOK
  <2> QED
    BY <2>1, <2>2 DEF CountInv, AuditsAt
<1>5. CASE ProcessStep \/ UNCHANGED vars
  BY <1>1, <1>5 DEF ProcessStep, Signal, BeginShutdown, ShutdownReturns, MainReturns, Crash, vars
<1> QED
  BY <1>2, <1>3, <1>4, <1>5, BuildCounted, SentCounted, FailureCounted, SpawnUncounted
  DEF Next, HandlerStep, AuditStep, OutsideStep

(* Evidence stays: an accepted identity, an answer of the backend and an   *)
(* accepted POST are never taken back.                                     *)
LEMMA EvidenceStays ==
    ASSUME ProxyInv, [Next]_vars, NEW q \in Requests
    PROVE  /\ inbound' = inbound
           /\ pc[q] # "idle" => pc'[q] # "idle"
           /\ backend[q] = "answered" => backend'[q] = "answered"
           /\ post[q] = "accepted" => post'[q] = "accepted"
<1> DEFINE Stays == /\ inbound' = inbound
                    /\ pc[q] # "idle" => pc'[q] # "idle"
                    /\ backend[q] = "answered" => backend'[q] = "answered"
                    /\ post[q] = "accepted" => post'[q] = "accepted"
<1> USE DEF ProxyInv, TypeOK, Goto, HTTPError, handlerVars, fileVars, auditVars, backendVars,
            processVars
<1>0. ASSUME NEW r \in Requests, pc[r] \in Unsent PROVE backend[r] = "unsent"
  BY <1>0 DEF HandlerInv
<1>1. ASSUME NEW r \in Requests, ServePassthrough(r) \/ SendUpstream(r) PROVE Stays
  BY <1>0, <1>1 DEF ServePassthrough, SendUpstream, Unsent
<1>2. ASSUME NEW r \in Requests,
             \/ Reject(r) \/ ServeAudited(r) \/ PassthroughResponse(r)
             \/ PassthroughFails(r) \/ StreamEnds(r) \/ RoundTripReturns(r)
             \/ RoundTripFails(r) \/ Respond(r) \/ SpawnAudit(r) \/ Return(r)
      PROVE  Stays
  BY <1>2 DEF Reject, ServeAudited, PassthroughResponse, PassthroughFails, StreamEnds,
              RoundTripReturns, RoundTripFails, Respond, SpawnAudit, Return
<1>3. ASSUME NEW r \in Requests, NEW side \in Side,
             \/ CreateTemp(r, side) \/ CreateTempFails(r, side) \/ SpoolBody(r, side)
             \/ SpoolBodyFails(r, side) \/ OpenFails(r, side)
      PROVE  Stays
  BY <1>3 DEF CreateTemp, CreateTempFails, SpoolBody, SpoolBodyFails, OpenFails, CopyAt, OpenAt,
              Side
<1>4. ASSUME NEW r \in Requests, BuildEvent(r) PROVE Stays
  BY <1>4 DEF BuildEvent, EventInv
<1>5. ASSUME NEW r \in Requests, SendSucceeds(r) \/ SendFails(r) PROVE Stays
  BY <1>5 DEF SendSucceeds, SendFails
<1>6. ASSUME NEW r \in Requests, OutsideStep(r) PROVE Stays
  BY <1>6 DEF OutsideStep, ClientCancels, BackendAnswers, BackendUnreachable, ReceiverAnswers
<1>7. ASSUME ProcessStep \/ UNCHANGED vars PROVE Stays
  BY <1>7 DEF ProcessStep, Signal, BeginShutdown, ShutdownReturns, MainReturns, Crash, vars
<1> HIDE DEF ProxyInv, TypeOK, Goto, HTTPError, handlerVars, fileVars, auditVars, backendVars,
             processVars, Stays
<1>8. Stays
  BY <1>1, <1>2, <1>3, <1>4, <1>5, <1>6, <1>7 DEF Next, HandlerStep, AuditStep
<1> QED
  BY <1>8 DEF Stays

(* A step only logs a milestone it has the evidence for.                   *)
LEMMA MilestoneEarned ==
    ASSUME ProxyInv, [Next]_vars
    PROVE  /\ "firstVerifiedRequest" \in milestones' \ milestones =>
                 \E r \in Requests : pc'[r] # "idle" /\ IdentityAccepted(r)
           /\ "firstBackendOK" \in milestones' \ milestones =>
                 \E r \in Requests : backend[r] = "answered"
           /\ "firstWebhookOK" \in milestones' \ milestones =>
                 \E r \in Requests : post[r] = "accepted"
<1> DEFINE Earned ==
           /\ "firstVerifiedRequest" \in milestones' \ milestones =>
                 \E r \in Requests : pc'[r] # "idle" /\ IdentityAccepted(r)
           /\ "firstBackendOK" \in milestones' \ milestones =>
                 \E r \in Requests : backend[r] = "answered"
           /\ "firstWebhookOK" \in milestones' \ milestones =>
                 \E r \in Requests : post[r] = "accepted"
<1>1. ASSUME NEW r \in Requests, Reject(r) PROVE Earned
  BY <1>1 DEF Reject, Milestone
<1>2. ASSUME NEW r \in Requests, ServePassthrough(r) \/ ServeAudited(r) PROVE Earned
  <2>1. IdentityAccepted(r) /\ pc'[r] # "idle"
    BY <1>2 DEF ServePassthrough, ServeAudited, Goto, ProxyInv, TypeOK
  <2>2. milestones' = milestones \cup {"firstRequest", "firstVerifiedRequest"}
    BY <1>2 DEF ServePassthrough, ServeAudited, Milestone
  <2> QED
    BY <2>1, <2>2
<1>3. ASSUME NEW r \in Requests, PassthroughResponse(r) \/ RoundTripReturns(r) PROVE Earned
  BY <1>3 DEF PassthroughResponse, RoundTripReturns, Milestone
<1>4. ASSUME NEW r \in Requests, SendSucceeds(r) PROVE Earned
  BY <1>4 DEF SendSucceeds, Milestone
<1>5. ASSUME milestones' = milestones PROVE Earned
  BY <1>5
<1>6. ASSUME NEW r \in Requests,
             \/ PassthroughFails(r) \/ StreamEnds(r) \/ SendUpstream(r) \/ RoundTripFails(r)
             \/ Respond(r) \/ SpawnAudit(r) \/ Return(r) \/ BuildEvent(r) \/ SendFails(r)
             \/ OutsideStep(r)
      PROVE  milestones' = milestones
  BY <1>6 DEF PassthroughFails, StreamEnds, SendUpstream, RoundTripFails, Respond, SpawnAudit,
              Return, BuildEvent, SendFails, OutsideStep, ClientCancels, BackendAnswers,
              BackendUnreachable, ReceiverAnswers
<1>7. ASSUME NEW r \in Requests, NEW side \in Side,
             \/ CreateTemp(r, side) \/ CreateTempFails(r, side) \/ SpoolBody(r, side)
             \/ SpoolBodyFails(r, side) \/ OpenFails(r, side)
      PROVE  milestones' = milestones
  BY <1>7 DEF CreateTemp, CreateTempFails, SpoolBody, SpoolBodyFails, OpenFails
<1>8. ASSUME ProcessStep \/ UNCHANGED vars PROVE milestones' = milestones
  BY <1>8 DEF ProcessStep, Signal, BeginShutdown, ShutdownReturns, MainReturns, Crash, vars
<1> HIDE DEF Earned
<1>9. Earned
  BY <1>1, <1>2, <1>3, <1>4, <1>5, <1>6, <1>7, <1>8 DEF Next, HandlerStep, AuditStep
<1> QED
  BY <1>9 DEF Earned

(* Every step keeps the evidence of every milestone in the log.            *)
LEMMA MilestoneStep == ProxyInv /\ MilestoneInv /\ [Next]_vars => MilestoneInv'
<1> SUFFICES ASSUME ProxyInv, MilestoneInv, [Next]_vars PROVE MilestoneInv'
  OBVIOUS
<1>1. \A r \in Requests : /\ pc[r] # "idle" => pc'[r] # "idle"
                          /\ backend[r] = "answered" => backend'[r] = "answered"
                          /\ post[r] = "accepted" => post'[r] = "accepted"
                          /\ IdentityAccepted(r) => IdentityAccepted(r)'
  BY EvidenceStays DEF IdentityAccepted
<1>2. ASSUME "firstVerifiedRequest" \in milestones'
      PROVE  \E r \in Requests : pc'[r] # "idle" /\ IdentityAccepted(r)'
  <2>1. CASE "firstVerifiedRequest" \in milestones
    BY <1>1, <2>1 DEF MilestoneInv
  <2>2. CASE "firstVerifiedRequest" \notin milestones
    <3>1. "firstVerifiedRequest" \in milestones' \ milestones
      BY <1>2, <2>2
    <3> QED
      BY <1>1, <3>1, MilestoneEarned
  <2> QED
    BY <2>1, <2>2
<1>3. ASSUME "firstBackendOK" \in milestones' PROVE \E r \in Requests : backend'[r] = "answered"
  <2>1. CASE "firstBackendOK" \in milestones
    BY <1>1, <2>1 DEF MilestoneInv
  <2>2. CASE "firstBackendOK" \notin milestones
    <3>1. "firstBackendOK" \in milestones' \ milestones
      BY <1>3, <2>2
    <3> QED
      BY <1>1, <3>1, MilestoneEarned
  <2> QED
    BY <2>1, <2>2
<1>4. ASSUME "firstWebhookOK" \in milestones' PROVE \E r \in Requests : post'[r] = "accepted"
  <2>1. CASE "firstWebhookOK" \in milestones
    BY <1>1, <2>1 DEF MilestoneInv
  <2>2. CASE "firstWebhookOK" \notin milestones
    <3>1. "firstWebhookOK" \in milestones' \ milestones
      BY <1>4, <2>2
    <3> QED
      BY <1>1, <3>1, MilestoneEarned
  <2> QED
    BY <2>1, <2>2
<1> QED
  BY <1>2, <1>3, <1>4 DEF MilestoneInv

(* An operator can rely on the delivery counters and on the milestones in  *)
(* the log, for any number of requests and any interleaving of them.       *)
THEOREM ProxyTelemetryTruthful == Spec => []TelemetryTruthful
<1>1. Init => CountInv /\ MilestoneInv
  <2> SUFFICES ASSUME Init PROVE CountInv /\ MilestoneInv
    OBVIOUS
  <2>1. ASSUME NEW label \in {"posting", "sent"} PROVE AuditsAt(audit, label) = 0
    <3>1. { r \in Requests : audit[r] = label } = {}
      BY DEF Init
    <3> QED
      BY <3>1, FS_EmptySet DEF AuditsAt
  <2> QED
    BY <2>1 DEF Init, CountInv, MilestoneInv
<1>2. ProxyInv /\ CountInv /\ MilestoneInv /\ [Next]_vars => CountInv' /\ MilestoneInv'
  BY CountStep, MilestoneStep
<1>3. CountInv /\ MilestoneInv => TelemetryTruthful
  <2> SUFFICES ASSUME CountInv, MilestoneInv PROVE TelemetryTruthful
    OBVIOUS
  <2> DEFINE Accepted == { r \in Requests : post[r] = "accepted" }
  <2>1. { r \in Requests : audit[r] = "sent" } \in SUBSET Accepted
    BY DEF CountInv
  <2>2. IsFiniteSet(Accepted)
    BY FiniteRequests, FS_Subset
  <2> HIDE DEF Accepted
  <2>3. AuditsAt(audit, "sent") <= Cardinality(Accepted)
    BY <2>1, <2>2, FS_Subset DEF AuditsAt
  <2>4. CountersTruthful
    BY <2>3 DEF CountInv, CountersTruthful, AuditsAt, Accepted
  <2>5. MilestonesTruthful
    BY DEF MilestoneInv, MilestonesTruthful, IdentityAccepted
  <2> QED
    BY <2>4, <2>5 DEF TelemetryTruthful
<1> QED
  BY <1>1, <1>2, <1>3, ProxyInvariant, PTL DEF Spec
=============================================================================
