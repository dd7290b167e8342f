------------------------- MODULE TaskServiceProofs -------------------------
(***************************************************************************)
(* Proofs about TaskService, for any finite set of uploads, any set of     *)
(* GETs and any number of permits, with and without retention and panics.  *)
(***************************************************************************)
EXTENDS TaskService, DataLemmas

-----------------------------------------------------------------------------
(* The inductive invariant, in parts.                                      *)

(* The upload handler before it answers or waits. *)
Uploading == {"idle", "queueing"} \cup HoldsAdmission
(* Before it inserted the entry. *)
Unsubmitted == Uploading \ {"submitted"}

Outcome(t) == IF result[t] = "ok" THEN "completed" ELSE "failed"

(* How far a task got fixes its status, its processor and its result       *)
(* together; only cleanup takes an entry away, and only one that aged.     *)
Stage(t) ==
    \/ /\ processor[t] = "none" /\ status[t] = "absent" /\ result[t] = "none"
       /\ handler[t] \in Unsubmitted \cup {"rejected", "gone"}
    \/ /\ processor[t] = "none" /\ status[t] = "pending" /\ result[t] = "none"
       /\ handler[t] \in {"submitted", "gone"}
    \/ /\ processor[t] \in {"queued", "permitted"}
       /\ status[t] = "pending" /\ result[t] = "none"
    \/ /\ processor[t] \in {"parsing", "panicked"}
       /\ status[t] = "processing" /\ result[t] = "none"
    \/ /\ processor[t] = "parsed" /\ status[t] = "processing"
       /\ result[t] # "none"
    \/ /\ processor[t] \in {"finished", "done"} /\ result[t] # "none"
       /\ status[t] = Outcome(t) \/ (status[t] = "absent" /\ t \in aged)

StageInv ==
    \A t \in Task :
        /\ Stage(t)
        /\ processor[t] # "none" => handler[t] \notin Uploading
        /\ t \in aged => processor[t] \in {"finished", "done"}

PermitInv ==
    /\ PermitsMatchWork
    /\ Cardinality(admission) <= MaxInFlight
    /\ Cardinality(executing) <= MaxConcurrent

(* The directory is there before the entry and until after it. *)
FilesInv ==
    \A t \in Task :
        /\ handler[t] \in {"idle", "queueing", "admitted"} => dir[t] = "none"
        /\ handler[t] \in {"saving", "ordered"} => dir[t] = "present"
        /\ status[t] # "absent" => dir[t] = "present"
        /\ t \in sweeping => status[t] = "absent" /\ result[t] # "none"

(* Who saw a completed task finds it completed, or removed, ever after;    *)
(* under a lease it is not removed.                                        *)
LeaseInv ==
    /\ LeasesMatchReads
    /\ \A c \in streaming : handler[c] = "ok"
    /\ \A c \in Client :
        handler[c] = "sawCompleted" =>
            /\ result[TargetOf(c)] = "ok"
            /\ processor[TargetOf(c)] \in {"finished", "done"}
    /\ \A t \in Task : resultReaders[t] # {} => status[t] = "completed"

OrderInv ==
    /\ \A t \in Task :
        /\ submitOrder[t] < nextSubmitOrder
        /\ status[t] # "absent" \/ handler[t] = "ordered" => submitOrder[t] > 0
    /\ \A t, u \in Task :
        submitOrder[t] = submitOrder[u] /\ submitOrder[t] > 0 => t = u

IndInv ==
    /\ TypeOK
    /\ StageInv
    /\ PermitInv
    /\ FilesInv
    /\ LeaseInv
    /\ OrderInv
    /\ AnswersAreTrue

-----------------------------------------------------------------------------

LEMMA ServiceFacts ==
    /\ IsFiniteSet(Task)
    /\ Task \cap Getter = {}
    /\ Task \subseteq Client /\ Getter \subseteq Client
    /\ MaxInFlight \in Nat \ {0} /\ MaxConcurrent \in Nat \ {0}
    /\ FileParse \subseteq Task
BY ManagerAssumption, ServiceAssumption DEF ManagerAssumption, ServiceAssumption, Client

LEMMA TypeNext ==
    TypeOK /\ [Next]_vars => TypeOK'
<1> SUFFICES ASSUME TypeOK, [Next]_vars PROVE TypeOK'
  OBVIOUS
<1> USE DEF TypeOK, ManagerTypeOK, Goto, managerVars, TaskStatus, Live, Terminal, HoldsAdmission, Waiting, Reading, InProgress, Reply, Executing, InFlight
<1>1. ASSUME NEW t \in Task, UploadStep(t) PROVE TypeOK'
  <2>1. CASE Arrive(t)
    BY <2>1, ServiceFacts DEF Arrive
  <2>2. CASE AcquireAdmission(t)
    BY <2>2, ServiceFacts DEF AcquireAdmission
  <2>3. CASE CreateOutputDir(t)
    BY <2>3, ServiceFacts DEF CreateOutputDir
  <2>4. CASE RejectUpload(t)
    BY <2>4, ServiceFacts DEF RejectUpload
  <2>5. CASE BeginSubmit(t)
    BY <2>5, ServiceFacts DEF BeginSubmit, DrawSubmitOrder
  <2>6. CASE SubmitFileParse(t)
    BY <2>6, ServiceFacts DEF SubmitFileParse, InsertEntry, Spawn
  <2>7. CASE SubmitAsync(t)
    BY <2>7, ServiceFacts DEF SubmitAsync, InsertEntry
  <2>8. CASE ReplySubmitted(t)
    BY <2>8, ServiceFacts DEF ReplySubmitted, Spawn
  <2>9. CASE CheckTerminal(t)
    BY <2>9, ServiceFacts DEF CheckTerminal
  <2>10. CASE CreateNotified(t)
    BY <2>10, ServiceFacts DEF CreateNotified
  <2>11. CASE Wake(t)
    BY <2>11, ServiceFacts DEF Wake
  <2> QED BY <1>1, <2>1, <2>2, <2>3, <2>4, <2>5, <2>6, <2>7, <2>8, <2>9, <2>10, <2>11 DEF UploadStep
<1>2. ASSUME NEW t \in Task, ProcessorStep(t) PROVE TypeOK'
  <2>1. CASE AcquireRequest(t)
    BY <2>1, ServiceFacts DEF AcquireRequest
  <2>2. CASE StartProcessing(t)
    BY <2>2, ServiceFacts DEF StartProcessing, SetStatus, NotifyWaiters
  <2>3. CASE ParseReturns(t)
    BY <2>3, ServiceFacts DEF ParseReturns
  <2>4. CASE ParserPanics(t)
    BY <2>4, ServiceFacts DEF ParserPanics
  <2>5. CASE RecordOutcome(t)
    BY <2>5, ServiceFacts DEF RecordOutcome, SetStatus, NotifyWaiters
  <2>6. CASE ReleaseAdmission(t)
    BY <2>6, ServiceFacts DEF ReleaseAdmission
  <2> QED BY <1>2, <2>1, <2>2, <2>3, <2>4, <2>5, <2>6 DEF ProcessorStep
<1>3. ASSUME NEW t \in Task, RemoveDir(t) PROVE TypeOK'
  BY <1>3, ServiceFacts DEF RemoveDir
<1>4. ASSUME NEW t \in Task, TimePasses(t) PROVE TypeOK'
  BY <1>4, ServiceFacts DEF TimePasses, Age, serviceVars
<1>5. ASSUME NEW g \in Getter, LookUp(g) PROVE TypeOK'
  BY <1>5, ServiceFacts DEF LookUp
<1>6. ASSUME NEW c \in Client, ResultStep(c) PROVE TypeOK'
  <2>1. CASE LeaseResult(c)
    BY <2>1, ServiceFacts DEF LeaseResult, AcquireResultLease
  <2>2. CASE MissResult(c)
    BY <2>2, ServiceFacts DEF MissResult
  <2>3. CASE ReplyJson(c)
    BY <2>3, ServiceFacts DEF ReplyJson, DropResultLease
  <2>4. CASE ReplyZip(c)
    BY <2>4, ServiceFacts DEF ReplyZip
  <2>5. CASE FinishZip(c)
    BY <2>5, ServiceFacts DEF FinishZip, DropResultLease
  <2> QED BY <1>6, <2>1, <2>2, <2>3, <2>4, <2>5 DEF ResultStep
<1>7. ASSUME NEW c \in Client, Disconnect(c) PROVE TypeOK'
  BY <1>7, ServiceFacts DEF Disconnect
<1>8. CASE Sweep
  BY <1>8, ServiceFacts DEF Sweep, CleanupExpired, Expired, NotifyWaiters
<1>9. CASE UNCHANGED vars
  BY <1>9 DEF vars, serviceVars
<1> QED BY <1>1, <1>2, <1>3, <1>4, <1>5, <1>6, <1>7, <1>8, <1>9 DEF Next

LEMMA StageNext ==
    TypeOK /\ StageInv /\ [Next]_vars => StageInv'
<1> SUFFICES ASSUME TypeOK, StageInv, [Next]_vars PROVE StageInv'
  OBVIOUS
<1> USE DEF TypeOK, ManagerTypeOK, Goto, managerVars, StageInv, Stage, Outcome, Live, Terminal, Uploading, Unsubmitted, HoldsAdmission, Waiting, Reading, InProgress
<1>1. ASSUME NEW t \in Task, UploadStep(t) PROVE StageInv'
  <2>1. CASE Arrive(t)
    BY <2>1, ServiceFacts DEF Arrive
  <2>2. CASE AcquireAdmission(t)
    BY <2>2, ServiceFacts DEF AcquireAdmission
  <2>3. CASE CreateOutputDir(t)
    BY <2>3, ServiceFacts DEF CreateOutputDir
  <2>4. CASE RejectUpload(t)
    BY <2>4, ServiceFacts DEF RejectUpload
  <2>5. CASE BeginSubmit(t)
    BY <2>5, ServiceFacts DEF BeginSubmit, DrawSubmitOrder
  <2>6. CASE SubmitFileParse(t)
    BY <2>6, ServiceFacts DEF SubmitFileParse, InsertEntry, Spawn
  <2>7. CASE SubmitAsync(t)
    BY <2>7, ServiceFacts DEF SubmitAsync, InsertEntry
  <2>8. CASE ReplySubmitted(t)
    BY <2>8, ServiceFacts DEF ReplySubmitted, Spawn
  <2>9. CASE CheckTerminal(t)
    BY <2>9, ServiceFacts DEF CheckTerminal
  <2>10. CASE CreateNotified(t)
    BY <2>10, ServiceFacts DEF CreateNotified
  <2>11. CASE Wake(t)
    BY <2>11, ServiceFacts DEF Wake
  <2> QED BY <1>1, <2>1, <2>2, <2>3, <2>4, <2>5, <2>6, <2>7, <2>8, <2>9, <2>10, <2>11 DEF UploadStep
<1>2. ASSUME NEW t \in Task, ProcessorStep(t) PROVE StageInv'
  <2>1. CASE AcquireRequest(t)
    BY <2>1, ServiceFacts DEF AcquireRequest
  <2>2. CASE StartProcessing(t)
    BY <2>2, ServiceFacts DEF StartProcessing, SetStatus, NotifyWaiters
  <2>3. CASE ParseReturns(t)
    BY <2>3, ServiceFacts DEF ParseReturns
  <2>4. CASE ParserPanics(t)
    BY <2>4, ServiceFacts DEF ParserPanics
  <2>5. CASE RecordOutcome(t)
    BY <2>5, ServiceFacts DEF RecordOutcome, SetStatus, NotifyWaiters
  <2>6. CASE ReleaseAdmission(t)
    BY <2>6, ServiceFacts DEF ReleaseAdmission
  <2> QED BY <1>2, <2>1, <2>2, <2>3, <2>4, <2>5, <2>6 DEF ProcessorStep
<1>3. ASSUME NEW t \in Task, RemoveDir(t) PROVE StageInv'
  BY <1>3, ServiceFacts DEF RemoveDir
<1>4. ASSUME NEW t \in Task, TimePasses(t) PROVE StageInv'
  BY <1>4, ServiceFacts DEF TimePasses, Age, serviceVars
<1>5. ASSUME NEW g \in Getter, LookUp(g) PROVE StageInv'
  BY <1>5, ServiceFacts DEF LookUp
<1>6. ASSUME NEW c \in Client, ResultStep(c) PROVE StageInv'
  <2>1. CASE LeaseResult(c)
    BY <2>1, ServiceFacts DEF LeaseResult, AcquireResultLease
  <2>2. CASE MissResult(c)
    BY <2>2, ServiceFacts DEF MissResult
  <2>3. CASE ReplyJson(c)
    BY <2>3, ServiceFacts DEF ReplyJson, DropResultLease
  <2>4. CASE ReplyZip(c)
    BY <2>4, ServiceFacts DEF ReplyZip
  <2>5. CASE FinishZip(c)
    BY <2>5, ServiceFacts DEF FinishZip, DropResultLease
  <2> QED BY <1>6, <2>1, <2>2, <2>3, <2>4, <2>5 DEF ResultStep
<1>7. ASSUME NEW c \in Client, Disconnect(c) PROVE StageInv'
  BY <1>7, ServiceFacts DEF Disconnect
<1>8. CASE Sweep
  BY <1>8, ServiceFacts DEF Sweep, CleanupExpired, Expired, NotifyWaiters
<1>9. CASE UNCHANGED vars
  BY <1>9 DEF vars, serviceVars
<1> QED BY <1>1, <1>2, <1>3, <1>4, <1>5, <1>6, <1>7, <1>8, <1>9 DEF Next

LEMMA FilesNext ==
    TypeOK /\ StageInv /\ FilesInv /\ [Next]_vars => FilesInv'
<1> SUFFICES ASSUME TypeOK, StageInv, FilesInv, [Next]_vars PROVE FilesInv'
  OBVIOUS
<1> USE DEF TypeOK, ManagerTypeOK, Goto, managerVars, StageInv, Stage, Outcome, FilesInv, Terminal, Live, Uploading, Unsubmitted, HoldsAdmission, Waiting, Reading, InProgress
<1>1. ASSUME NEW t \in Task, UploadStep(t) PROVE FilesInv'
  <2>1. CASE Arrive(t)
    BY <2>1, ServiceFacts DEF Arrive
  <2>2. CASE AcquireAdmission(t)
    BY <2>2, ServiceFacts DEF AcquireAdmission
  <2>3. CASE CreateOutputDir(t)
    BY <2>3, ServiceFacts DEF CreateOutputDir
  <2>4. CASE RejectUpload(t)
    BY <2>4, ServiceFacts DEF RejectUpload
  <2>5. CASE BeginSubmit(t)
    BY <2>5, ServiceFacts DEF BeginSubmit, DrawSubmitOrder
  <2>6. CASE SubmitFileParse(t)
    BY <2>6, ServiceFacts DEF SubmitFileParse, InsertEntry, Spawn
  <2>7. CASE SubmitAsync(t)
    BY <2>7, ServiceFacts DEF SubmitAsync, InsertEntry
  <2>8. CASE ReplySubmitted(t)
    BY <2>8, ServiceFacts DEF ReplySubmitted, Spawn
  <2>9. CASE CheckTerminal(t)
    BY <2>9, ServiceFacts DEF CheckTerminal
  <2>10. CASE CreateNotified(t)
    BY <2>10, ServiceFacts DEF CreateNotified
  <2>11. CASE Wake(t)
    BY <2>11, ServiceFacts DEF Wake
  <2> QED BY <1>1, <2>1, <2>2, <2>3, <2>4, <2>5, <2>6, <2>7, <2>8, <2>9, <2>10, <2>11 DEF UploadStep
<1>2. ASSUME NEW t \in Task, ProcessorStep(t) PROVE FilesInv'
  <2>1. CASE AcquireRequest(t)
    BY <2>1, ServiceFacts DEF AcquireRequest
  <2>2. CASE StartProcessing(t)
    BY <2>2, ServiceFacts DEF StartProcessing, SetStatus, NotifyWaiters
  <2>3. CASE ParseReturns(t)
    BY <2>3, ServiceFacts DEF ParseReturns
  <2>4. CASE ParserPanics(t)
    BY <2>4, ServiceFacts DEF ParserPanics
  <2>5. CASE RecordOutcome(t)
    BY <2>5, ServiceFacts DEF RecordOutcome, SetStatus, NotifyWaiters
  <2>6. CASE ReleaseAdmission(t)
    BY <2>6, ServiceFacts DEF ReleaseAdmission
  <2> QED BY <1>2, <2>1, <2>2, <2>3, <2>4, <2>5, <2>6 DEF ProcessorStep
<1>3. ASSUME NEW t \in Task, RemoveDir(t) PROVE FilesInv'
  BY <1>3, ServiceFacts DEF RemoveDir
<1>4. ASSUME NEW t \in Task, TimePasses(t) PROVE FilesInv'
  BY <1>4, ServiceFacts DEF TimePasses, Age, serviceVars
<1>5. ASSUME NEW g \in Getter, LookUp(g) PROVE FilesInv'
  BY <1>5, ServiceFacts DEF LookUp
<1>6. ASSUME NEW c \in Client, ResultStep(c) PROVE FilesInv'
  <2>1. CASE LeaseResult(c)
    BY <2>1, ServiceFacts DEF LeaseResult, AcquireResultLease
  <2>2. CASE MissResult(c)
    BY <2>2, ServiceFacts DEF MissResult
  <2>3. CASE ReplyJson(c)
    BY <2>3, ServiceFacts DEF ReplyJson, DropResultLease
  <2>4. CASE ReplyZip(c)
    BY <2>4, ServiceFacts DEF ReplyZip
  <2>5. CASE FinishZip(c)
    BY <2>5, ServiceFacts DEF FinishZip, DropResultLease
  <2> QED BY <1>6, <2>1, <2>2, <2>3, <2>4, <2>5 DEF ResultStep
<1>7. ASSUME NEW c \in Client, Disconnect(c) PROVE FilesInv'
  BY <1>7, ServiceFacts DEF Disconnect
<1>8. CASE Sweep
  BY <1>8, ServiceFacts DEF Sweep, CleanupExpired, Expired, NotifyWaiters
<1>9. CASE UNCHANGED vars
  BY <1>9 DEF vars, serviceVars
<1> QED BY <1>1, <1>2, <1>3, <1>4, <1>5, <1>6, <1>7, <1>8, <1>9 DEF Next

LEMMA LeaseNext ==
    TypeOK /\ StageInv /\ LeaseInv /\ [Next]_vars => LeaseInv'
<1> SUFFICES ASSUME TypeOK, StageInv, LeaseInv, [Next]_vars PROVE LeaseInv'
  OBVIOUS
<1> USE DEF TypeOK, ManagerTypeOK, Goto, managerVars, TargetOf, ReadsResult, LeasesMatchReads, StageInv, Stage, Outcome, LeaseInv, Terminal, Live, Uploading, Unsubmitted, HoldsAdmission, Waiting, Reading, InProgress
<1>1. ASSUME NEW t \in Task, UploadStep(t) PROVE LeaseInv'
  <2>1. CASE Arrive(t)
    BY <2>1, ServiceFacts DEF Arrive
  <2>2. CASE AcquireAdmission(t)
    BY <2>2, ServiceFacts DEF AcquireAdmission
  <2>3. CASE CreateOutputDir(t)
    BY <2>3, ServiceFacts DEF CreateOutputDir
  <2>4. CASE RejectUpload(t)
    BY <2>4, ServiceFacts DEF RejectUpload
  <2>5. CASE BeginSubmit(t)
    BY <2>5, ServiceFacts DEF BeginSubmit, DrawSubmitOrder
  <2>6. CASE SubmitFileParse(t)
    BY <2>6, ServiceFacts DEF SubmitFileParse, InsertEntry, Spawn
  <2>7. CASE SubmitAsync(t)
    BY <2>7, ServiceFacts DEF SubmitAsync, InsertEntry
  <2>8. CASE ReplySubmitted(t)
    BY <2>8, ServiceFacts DEF ReplySubmitted, Spawn
  <2>9. CASE CheckTerminal(t)
    BY <2>9, ServiceFacts DEF CheckTerminal
  <2>10. CASE CreateNotified(t)
    BY <2>10, ServiceFacts DEF CreateNotified
  <2>11. CASE Wake(t)
    BY <2>11, ServiceFacts DEF Wake
  <2> QED BY <1>1, <2>1, <2>2, <2>3, <2>4, <2>5, <2>6, <2>7, <2>8, <2>9, <2>10, <2>11 DEF UploadStep
<1>2. ASSUME NEW t \in Task, ProcessorStep(t) PROVE LeaseInv'
  <2>1. CASE AcquireRequest(t)
    BY <2>1, ServiceFacts DEF AcquireRequest
  <2>2. CASE StartProcessing(t)
    BY <2>2, ServiceFacts DEF StartProcessing, SetStatus, NotifyWaiters
  <2>3. CASE ParseReturns(t)
    BY <2>3, ServiceFacts DEF ParseReturns
  <2>4. CASE ParserPanics(t)
    BY <2>4, ServiceFacts DEF ParserPanics
  <2>5. CASE RecordOutcome(t)
    BY <2>5, ServiceFacts DEF RecordOutcome, SetStatus, NotifyWaiters
  <2>6. CASE ReleaseAdmission(t)
    BY <2>6, ServiceFacts DEF ReleaseAdmission
  <2> QED BY <1>2, <2>1, <2>2, <2>3, <2>4, <2>5, <2>6 DEF ProcessorStep
<1>3. ASSUME NEW t \in Task, RemoveDir(t) PROVE LeaseInv'
  BY <1>3, ServiceFacts DEF RemoveDir
<1>4. ASSUME NEW t \in Task, TimePasses(t) PROVE LeaseInv'
  BY <1>4, ServiceFacts DEF TimePasses, Age, serviceVars
<1>5. ASSUME NEW g \in Getter, LookUp(g) PROVE LeaseInv'
  BY <1>5, ServiceFacts DEF LookUp
<1>6. ASSUME NEW c \in Client, ResultStep(c) PROVE LeaseInv'
  <2>1. CASE LeaseResult(c)
    BY <2>1, ServiceFacts DEF LeaseResult, AcquireResultLease
  <2>2. CASE MissResult(c)
    BY <2>2, ServiceFacts DEF MissResult
  <2>3. CASE ReplyJson(c)
    BY <2>3, ServiceFacts DEF ReplyJson, DropResultLease
  <2>4. CASE ReplyZip(c)
    BY <2>4, ServiceFacts DEF ReplyZip
  <2>5. CASE FinishZip(c)
    BY <2>5, ServiceFacts DEF FinishZip, DropResultLease
  <2> QED BY <1>6, <2>1, <2>2, <2>3, <2>4, <2>5 DEF ResultStep
<1>7. ASSUME NEW c \in Client, Disconnect(c) PROVE LeaseInv'
  BY <1>7, ServiceFacts DEF Disconnect
<1>8. CASE Sweep
  BY <1>8, ServiceFacts DEF Sweep, CleanupExpired, Expired, NotifyWaiters
<1>9. CASE UNCHANGED vars
  BY <1>9 DEF vars, serviceVars
<1> QED BY <1>1, <1>2, <1>3, <1>4, <1>5, <1>6, <1>7, <1>8, <1>9 DEF Next

LEMMA OrderNext ==
    TypeOK /\ StageInv /\ OrderInv /\ [Next]_vars => OrderInv'
<1> SUFFICES ASSUME TypeOK, StageInv, OrderInv, [Next]_vars PROVE OrderInv'
  OBVIOUS
<1> USE DEF TypeOK, ManagerTypeOK, Goto, managerVars, StageInv, Stage, OrderInv, Uploading, Unsubmitted, HoldsAdmission, Waiting, Reading, InProgress
<1>1. ASSUME NEW t \in Task, UploadStep(t) PROVE OrderInv'
  <2>1. CASE Arrive(t)
    BY <2>1, ServiceFacts DEF Arrive
  <2>2. CASE AcquireAdmission(t)
    BY <2>2, ServiceFacts DEF AcquireAdmission
  <2>3. CASE CreateOutputDir(t)
    BY <2>3, ServiceFacts DEF CreateOutputDir
  <2>4. CASE RejectUpload(t)
    BY <2>4, ServiceFacts DEF RejectUpload
  <2>5. CASE BeginSubmit(t)
    BY <2>5, ServiceFacts DEF BeginSubmit, DrawSubmitOrder
  <2>6. CASE SubmitFileParse(t)
    BY <2>6, ServiceFacts DEF SubmitFileParse, InsertEntry, Spawn
  <2>7. CASE SubmitAsync(t)
    BY <2>7, ServiceFacts DEF SubmitAsync, InsertEntry
  <2>8. CASE ReplySubmitted(t)
    BY <2>8, ServiceFacts DEF ReplySubmitted, Spawn
  <2>9. CASE CheckTerminal(t)
    BY <2>9, ServiceFacts DEF CheckTerminal
  <2>10. CASE CreateNotified(t)
    BY <2>10, ServiceFacts DEF CreateNotified
  <2>11. CASE Wake(t)
    BY <2>11, ServiceFacts DEF Wake
  <2> QED BY <1>1, <2>1, <2>2, <2>3, <2>4, <2>5, <2>6, <2>7, <2>8, <2>9, <2>10, <2>11 DEF UploadStep
<1>2. ASSUME NEW t \in Task, ProcessorStep(t) PROVE OrderInv'
  <2>1. CASE AcquireRequest(t)
    BY <2>1, ServiceFacts DEF AcquireRequest
  <2>2. CASE StartProcessing(t)
    BY <2>2, ServiceFacts DEF StartProcessing, SetStatus, NotifyWaiters
  <2>3. CASE ParseReturns(t)
    BY <2>3, ServiceFacts DEF ParseReturns
  <2>4. CASE ParserPanics(t)
    BY <2>4, ServiceFacts DEF ParserPanics
  <2>5. CASE RecordOutcome(t)
    BY <2>5, ServiceFacts DEF RecordOutcome, SetStatus, NotifyWaiters
  <2>6. CASE ReleaseAdmission(t)
    BY <2>6, ServiceFacts DEF ReleaseAdmission
  <2> QED BY <1>2, <2>1, <2>2, <2>3, <2>4, <2>5, <2>6 DEF ProcessorStep
<1>3. ASSUME NEW t \in Task, RemoveDir(t) PROVE OrderInv'
  BY <1>3, ServiceFacts DEF RemoveDir
<1>4. ASSUME NEW t \in Task, TimePasses(t) PROVE OrderInv'
  BY <1>4, ServiceFacts DEF TimePasses, Age, serviceVars
<1>5. ASSUME NEW g \in Getter, LookUp(g) PROVE OrderInv'
  BY <1>5, ServiceFacts DEF LookUp
<1>6. ASSUME NEW c \in Client, ResultStep(c) PROVE OrderInv'
  <2>1. CASE LeaseResult(c)
    BY <2>1, ServiceFacts DEF LeaseResult, AcquireResultLease
  <2>2. CASE MissResult(c)
    BY <2>2, ServiceFacts DEF MissResult
  <2>3. CASE ReplyJson(c)
    BY <2>3, ServiceFacts DEF ReplyJson, DropResultLease
  <2>4. CASE ReplyZip(c)
    BY <2>4, ServiceFacts DEF ReplyZip
  <2>5. CASE FinishZip(c)
    BY <2>5, ServiceFacts DEF FinishZip, DropResultLease
  <2> QED BY <1>6, <2>1, <2>2, <2>3, <2>4, <2>5 DEF ResultStep
<1>7. ASSUME NEW c \in Client, Disconnect(c) PROVE OrderInv'
  BY <1>7, ServiceFacts DEF Disconnect
<1>8. CASE Sweep
  BY <1>8, ServiceFacts DEF Sweep, CleanupExpired, Expired, NotifyWaiters
<1>9. CASE UNCHANGED vars
  BY <1>9 DEF vars, serviceVars
<1> QED BY <1>1, <1>2, <1>3, <1>4, <1>5, <1>6, <1>7, <1>8, <1>9 DEF Next

(* Who reads holds a lease, and so reads the result of a completed task. *)
LEMMA ReadersSeeCompleted ==
    TypeOK /\ StageInv /\ LeaseInv =>
        \A c \in Client :
            ReadsResult(c) => /\ TargetOf(c) \in Task
                              /\ status[TargetOf(c)] = "completed"
                              /\ result[TargetOf(c)] = "ok"
BY ServiceFacts
   DEF TypeOK, ManagerTypeOK, StageInv, Stage, Outcome, LeaseInv, LeasesMatchReads,
       ReadsResult, TargetOf, Client

LEMMA AnswersNext ==
    TypeOK /\ StageInv /\ LeaseInv /\ AnswersAreTrue /\ [Next]_vars => AnswersAreTrue'
<1> SUFFICES ASSUME TypeOK, StageInv, LeaseInv, AnswersAreTrue, [Next]_vars PROVE AnswersAreTrue'
  OBVIOUS
<1> USE DEF TypeOK, ManagerTypeOK, Goto, managerVars, TargetOf, ReadsResult, LeasesMatchReads, StageInv, Stage, Outcome, LeaseInv, AnswersAreTrue, Terminal, Live, Uploading, Unsubmitted, HoldsAdmission, Waiting, Reading, InProgress
<1>1. ASSUME NEW t \in Task, UploadStep(t) PROVE AnswersAreTrue'
  <2>1. CASE Arrive(t)
    BY <2>1, ServiceFacts DEF Arrive
  <2>2. CASE AcquireAdmission(t)
    BY <2>2, ServiceFacts DEF AcquireAdmission
  <2>3. CASE CreateOutputDir(t)
    BY <2>3, ServiceFacts DEF CreateOutputDir
  <2>4. CASE RejectUpload(t)
    BY <2>4, ServiceFacts DEF RejectUpload
  <2>5. CASE BeginSubmit(t)
    BY <2>5, ServiceFacts DEF BeginSubmit, DrawSubmitOrder
  <2>6. CASE SubmitFileParse(t)
    BY <2>6, ServiceFacts DEF SubmitFileParse, InsertEntry, Spawn
  <2>7. CASE SubmitAsync(t)
    BY <2>7, ServiceFacts DEF SubmitAsync, InsertEntry
  <2>8. CASE ReplySubmitted(t)
    BY <2>8, ServiceFacts DEF ReplySubmitted, Spawn
  <2>9. CASE CheckTerminal(t)
    BY <2>9, ServiceFacts DEF CheckTerminal
  <2>10. CASE CreateNotified(t)
    BY <2>10, ServiceFacts DEF CreateNotified
  <2>11. CASE Wake(t)
    BY <2>11, ServiceFacts DEF Wake
  <2> QED BY <1>1, <2>1, <2>2, <2>3, <2>4, <2>5, <2>6, <2>7, <2>8, <2>9, <2>10, <2>11 DEF UploadStep
<1>2. ASSUME NEW t \in Task, ProcessorStep(t) PROVE AnswersAreTrue'
  <2>1. CASE AcquireRequest(t)
    BY <2>1, ServiceFacts DEF AcquireRequest
  <2>2. CASE StartProcessing(t)
    BY <2>2, ServiceFacts DEF StartProcessing, SetStatus, NotifyWaiters
  <2>3. CASE ParseReturns(t)
    BY <2>3, ServiceFacts DEF ParseReturns
  <2>4. CASE ParserPanics(t)
    BY <2>4, ServiceFacts DEF ParserPanics
  <2>5. CASE RecordOutcome(t)
    BY <2>5, ServiceFacts DEF RecordOutcome, SetStatus, NotifyWaiters
  <2>6. CASE ReleaseAdmission(t)
    BY <2>6, ServiceFacts DEF ReleaseAdmission
  <2> QED BY <1>2, <2>1, <2>2, <2>3, <2>4, <2>5, <2>6 DEF ProcessorStep
<1>3. ASSUME NEW t \in Task, RemoveDir(t) PROVE AnswersAreTrue'
  BY <1>3, ServiceFacts DEF RemoveDir
<1>4. ASSUME NEW t \in Task, TimePasses(t) PROVE AnswersAreTrue'
  BY <1>4, ServiceFacts DEF TimePasses, Age, serviceVars
<1>5. ASSUME NEW g \in Getter, LookUp(g) PROVE AnswersAreTrue'
  BY <1>5, ServiceFacts DEF LookUp
<1>6. ASSUME NEW c \in Client, ResultStep(c) PROVE AnswersAreTrue'
  <2>1. CASE LeaseResult(c)
    BY <2>1, ServiceFacts DEF LeaseResult, AcquireResultLease
  <2>2. CASE MissResult(c)
    <3>1. /\ TargetOf(c) \in Task /\ result[TargetOf(c)] = "ok"
          /\ processor[TargetOf(c)] \in {"finished", "done"}
          /\ status[TargetOf(c)] = "absent"
      BY <2>2 DEF MissResult, Client
    <3>2. TargetOf(c) \in aged
      <4>1. Stage(TargetOf(c))
        BY <3>1
      <4> QED BY <3>1, <4>1
    <3>3. /\ handler' = [handler EXCEPT ![c] = "lostResult"]
          /\ UNCHANGED <<result, aged, target>>
      BY <2>2 DEF MissResult
    <3> QED BY <3>1, <3>2, <3>3, ServiceFacts
  <2>3. CASE ReplyJson(c)
    <3>1. TargetOf(c) \in Task /\ result[TargetOf(c)] = "ok"
      BY <2>3, ReadersSeeCompleted, ServiceFacts DEF ReplyJson
    <3>2. /\ \E a \in {"ok", "buildFailed"} : handler' = [handler EXCEPT ![c] = a]
          /\ UNCHANGED <<result, aged, target>>
      BY <2>3 DEF ReplyJson, DropResultLease
    <3> QED BY <3>1, <3>2, ServiceFacts
  <2>4. CASE ReplyZip(c)
    <3>1. TargetOf(c) \in Task /\ result[TargetOf(c)] = "ok"
      BY <2>4, ReadersSeeCompleted, ServiceFacts DEF ReplyZip
    <3>2. /\ handler' = [handler EXCEPT ![c] = "ok"]
          /\ UNCHANGED <<result, aged, target>>
      BY <2>4 DEF ReplyZip
    <3> QED BY <3>1, <3>2, ServiceFacts
  <2>5. CASE FinishZip(c)
    BY <2>5, ServiceFacts DEF FinishZip, DropResultLease
  <2> QED BY <1>6, <2>1, <2>2, <2>3, <2>4, <2>5 DEF ResultStep
<1>7. ASSUME NEW c \in Client, Disconnect(c) PROVE AnswersAreTrue'
  BY <1>7, ServiceFacts DEF Disconnect
<1>8. CASE Sweep
  BY <1>8, ServiceFacts DEF Sweep, CleanupExpired, Expired, NotifyWaiters
<1>9. CASE UNCHANGED vars
  BY <1>9 DEF vars, serviceVars
<1> QED BY <1>1, <1>2, <1>3, <1>4, <1>5, <1>6, <1>7, <1>8, <1>9 DEF Next

-----------------------------------------------------------------------------
(* The permits.                                                            *)

(* A permit taken below the limit stays within it, one given back does too. *)
LEMMA TakePermit ==
    ASSUME NEW S, IsFiniteSet(S), NEW N \in Nat, Cardinality(S) < N, NEW x
    PROVE  Cardinality(S \cup {x}) <= N
<1>1. CASE x \in S
  <2>1. S \cup {x} = S
    BY <1>1
  <2>2. Cardinality(S) \in Nat
    BY FS_CardinalityType
  <2>3. Cardinality(S) <= N
    BY <2>2
  <2> QED BY <2>1, <2>3
<1>2. CASE x \notin S
  <2>1. IsFiniteSet(S \cup {x}) /\ Cardinality(S \cup {x}) = Cardinality(S) + 1
    BY <1>2, FS_AddElement
  <2> QED BY <2>1, FS_CardinalityType
<1> QED BY <1>1, <1>2

LEMMA GivePermit ==
    ASSUME NEW S, IsFiniteSet(S), NEW N \in Nat, Cardinality(S) <= N, NEW x
    PROVE  Cardinality(S \ {x}) <= N
<1>1. Cardinality(S \ {x}) <= Cardinality(S) /\ IsFiniteSet(S \ {x})
  BY FS_Subset, S \ {x} \in SUBSET S
<1> QED BY <1>1, FS_CardinalityType

(* A step takes one permit where one is free, gives one back, or neither. *)
AdmissionStep ==
    \/ admission' = admission
    \/ \E t \in Task : admission' = admission \ {t}
    \/ \E t \in Task : /\ Cardinality(admission) < MaxInFlight
                       /\ admission' = admission \cup {t}

ExecutingStep ==
    \/ executing' = executing
    \/ \E t \in Task : executing' = executing \ {t}
    \/ \E t \in Task : /\ Cardinality(executing) < MaxConcurrent
                       /\ executing' = executing \cup {t}

LEMMA MatchNext ==
    TypeOK /\ StageInv /\ PermitsMatchWork /\ [Next]_vars => PermitsMatchWork'
<1> SUFFICES ASSUME TypeOK, StageInv, PermitsMatchWork, [Next]_vars PROVE PermitsMatchWork'
  OBVIOUS
<1> USE DEF TypeOK, ManagerTypeOK, Goto, managerVars, StageInv, Stage, PermitsMatchWork, InFlight, Executing, Uploading, Unsubmitted, HoldsAdmission, Waiting, Reading, InProgress
<1>1. ASSUME NEW t \in Task, UploadStep(t) PROVE PermitsMatchWork'
  <2>1. CASE Arrive(t)
    BY <2>1, ServiceFacts DEF Arrive
  <2>2. CASE AcquireAdmission(t)
    BY <2>2, ServiceFacts DEF AcquireAdmission
  <2>3. CASE CreateOutputDir(t)
    BY <2>3, ServiceFacts DEF CreateOutputDir
  <2>4. CASE RejectUpload(t)
    BY <2>4, ServiceFacts DEF RejectUpload
  <2>5. CASE BeginSubmit(t)
    BY <2>5, ServiceFacts DEF BeginSubmit, DrawSubmitOrder
  <2>6. CASE SubmitFileParse(t)
    BY <2>6, ServiceFacts DEF SubmitFileParse, InsertEntry, Spawn
  <2>7. CASE SubmitAsync(t)
    BY <2>7, ServiceFacts DEF SubmitAsync, InsertEntry
  <2>8. CASE ReplySubmitted(t)
    BY <2>8, ServiceFacts DEF ReplySubmitted, Spawn
  <2>9. CASE CheckTerminal(t)
    BY <2>9, ServiceFacts DEF CheckTerminal
  <2>10. CASE CreateNotified(t)
    BY <2>10, ServiceFacts DEF CreateNotified
  <2>11. CASE Wake(t)
    BY <2>11, ServiceFacts DEF Wake
  <2> QED BY <1>1, <2>1, <2>2, <2>3, <2>4, <2>5, <2>6, <2>7, <2>8, <2>9, <2>10, <2>11 DEF UploadStep
<1>2. ASSUME NEW t \in Task, ProcessorStep(t) PROVE PermitsMatchWork'
  <2>1. CASE AcquireRequest(t)
    BY <2>1, ServiceFacts DEF AcquireRequest
  <2>2. CASE StartProcessing(t)
    BY <2>2, ServiceFacts DEF StartProcessing, SetStatus, NotifyWaiters
  <2>3. CASE ParseReturns(t)
    BY <2>3, ServiceFacts DEF ParseReturns
  <2>4. CASE ParserPanics(t)
    BY <2>4, ServiceFacts DEF ParserPanics
  <2>5. CASE RecordOutcome(t)
    BY <2>5, ServiceFacts DEF RecordOutcome, SetStatus, NotifyWaiters
  <2>6. CASE ReleaseAdmission(t)
    BY <2>6, ServiceFacts DEF ReleaseAdmission
  <2> QED BY <1>2, <2>1, <2>2, <2>3, <2>4, <2>5, <2>6 DEF ProcessorStep
<1>3. ASSUME NEW t \in Task, RemoveDir(t) PROVE PermitsMatchWork'
  BY <1>3, ServiceFacts DEF RemoveDir
<1>4. ASSUME NEW t \in Task, TimePasses(t) PROVE PermitsMatchWork'
  BY <1>4, ServiceFacts DEF TimePasses, Age, serviceVars
<1>5. ASSUME NEW g \in Getter, LookUp(g) PROVE PermitsMatchWork'
  BY <1>5, ServiceFacts DEF LookUp
<1>6. ASSUME NEW c \in Client, ResultStep(c) PROVE PermitsMatchWork'
  <2>1. CASE LeaseResult(c)
    BY <2>1, ServiceFacts DEF LeaseResult, AcquireResultLease
  <2>2. CASE MissResult(c)
    BY <2>2, ServiceFacts DEF MissResult
  <2>3. CASE ReplyJson(c)
    BY <2>3, ServiceFacts DEF ReplyJson, DropResultLease
  <2>4. CASE ReplyZip(c)
    BY <2>4, ServiceFacts DEF ReplyZip
  <2>5. CASE FinishZip(c)
    BY <2>5, ServiceFacts DEF FinishZip, DropResultLease
  <2> QED BY <1>6, <2>1, <2>2, <2>3, <2>4, <2>5 DEF ResultStep
<1>7. ASSUME NEW c \in Client, Disconnect(c) PROVE PermitsMatchWork'
  BY <1>7, ServiceFacts DEF Disconnect
<1>8. CASE Sweep
  BY <1>8, ServiceFacts DEF Sweep, CleanupExpired, Expired, NotifyWaiters
<1>9. CASE UNCHANGED vars
  BY <1>9 DEF vars, serviceVars
<1> QED BY <1>1, <1>2, <1>3, <1>4, <1>5, <1>6, <1>7, <1>8, <1>9 DEF Next

LEMMA PermitSteps ==
    TypeOK /\ [Next]_vars => AdmissionStep /\ ExecutingStep
<1> SUFFICES ASSUME TypeOK, [Next]_vars PROVE AdmissionStep /\ ExecutingStep
  OBVIOUS
<1> USE DEF TypeOK, AdmissionStep, ExecutingStep
<1>1. ASSUME NEW t \in Task, UploadStep(t) PROVE AdmissionStep /\ ExecutingStep
  <2>1. CASE Arrive(t)
    BY <2>1, ServiceFacts DEF Arrive
  <2>2. CASE AcquireAdmission(t)
    BY <2>2, ServiceFacts DEF AcquireAdmission
  <2>3. CASE CreateOutputDir(t)
    BY <2>3, ServiceFacts DEF CreateOutputDir
  <2>4. CASE RejectUpload(t)
    BY <2>4, ServiceFacts DEF RejectUpload
  <2>5. CASE BeginSubmit(t)
    BY <2>5, ServiceFacts DEF BeginSubmit, DrawSubmitOrder
  <2>6. CASE SubmitFileParse(t)
    BY <2>6, ServiceFacts DEF SubmitFileParse, InsertEntry, Spawn
  <2>7. CASE SubmitAsync(t)
    BY <2>7, ServiceFacts DEF SubmitAsync, InsertEntry
  <2>8. CASE ReplySubmitted(t)
    BY <2>8, ServiceFacts DEF ReplySubmitted, Spawn
  <2>9. CASE CheckTerminal(t)
    BY <2>9, ServiceFacts DEF CheckTerminal
  <2>10. CASE CreateNotified(t)
    BY <2>10, ServiceFacts DEF CreateNotified
  <2>11. CASE Wake(t)
    BY <2>11, ServiceFacts DEF Wake
  <2> QED BY <1>1, <2>1, <2>2, <2>3, <2>4, <2>5, <2>6, <2>7, <2>8, <2>9, <2>10, <2>11 DEF UploadStep
<1>2. ASSUME NEW t \in Task, ProcessorStep(t) PROVE AdmissionStep /\ ExecutingStep
  <2>1. CASE AcquireRequest(t)
    BY <2>1, ServiceFacts DEF AcquireRequest
  <2>2. CASE StartProcessing(t)
    BY <2>2, ServiceFacts DEF StartProcessing, SetStatus, NotifyWaiters
  <2>3. CASE ParseReturns(t)
    BY <2>3, ServiceFacts DEF ParseReturns
  <2>4. CASE ParserPanics(t)
    BY <2>4, ServiceFacts DEF ParserPanics
  <2>5. CASE RecordOutcome(t)
    BY <2>5, ServiceFacts DEF RecordOutcome, SetStatus, NotifyWaiters
  <2>6. CASE ReleaseAdmission(t)
    BY <2>6, ServiceFacts DEF ReleaseAdmission
  <2> QED BY <1>2, <2>1, <2>2, <2>3, <2>4, <2>5, <2>6 DEF ProcessorStep
<1>3. ASSUME NEW t \in Task, RemoveDir(t) PROVE AdmissionStep /\ ExecutingStep
  BY <1>3, ServiceFacts DEF RemoveDir
<1>4. ASSUME NEW t \in Task, TimePasses(t) PROVE AdmissionStep /\ ExecutingStep
  BY <1>4, ServiceFacts DEF TimePasses, Age, serviceVars
<1>5. ASSUME NEW g \in Getter, LookUp(g) PROVE AdmissionStep /\ ExecutingStep
  BY <1>5, ServiceFacts DEF LookUp
<1>6. ASSUME NEW c \in Client, ResultStep(c) PROVE AdmissionStep /\ ExecutingStep
  <2>1. CASE LeaseResult(c)
    BY <2>1, ServiceFacts DEF LeaseResult, AcquireResultLease
  <2>2. CASE MissResult(c)
    BY <2>2, ServiceFacts DEF MissResult
  <2>3. CASE ReplyJson(c)
    BY <2>3, ServiceFacts DEF ReplyJson, DropResultLease
  <2>4. CASE ReplyZip(c)
    BY <2>4, ServiceFacts DEF ReplyZip
  <2>5. CASE FinishZip(c)
    BY <2>5, ServiceFacts DEF FinishZip, DropResultLease
  <2> QED BY <1>6, <2>1, <2>2, <2>3, <2>4, <2>5 DEF ResultStep
<1>7. ASSUME NEW c \in Client, Disconnect(c) PROVE AdmissionStep /\ ExecutingStep
  BY <1>7, ServiceFacts DEF Disconnect
<1>8. CASE Sweep
  BY <1>8, ServiceFacts DEF Sweep, CleanupExpired, Expired, NotifyWaiters
<1>9. CASE UNCHANGED vars
  BY <1>9 DEF vars, serviceVars
<1> QED BY <1>1, <1>2, <1>3, <1>4, <1>5, <1>6, <1>7, <1>8, <1>9 DEF Next

LEMMA LimitsNext ==
    ASSUME TypeOK, PermitInv, AdmissionStep, ExecutingStep
    PROVE  Cardinality(admission') <= MaxInFlight /\ Cardinality(executing') <= MaxConcurrent
<1>1. IsFiniteSet(admission) /\ IsFiniteSet(executing)
  BY ServiceFacts, FS_Subset DEF TypeOK
<1>2. MaxInFlight \in Nat /\ MaxConcurrent \in Nat
  BY ServiceFacts
<1>3. Cardinality(admission) <= MaxInFlight /\ Cardinality(executing) <= MaxConcurrent
  BY DEF PermitInv
<1>4. Cardinality(admission') <= MaxInFlight
  BY <1>1, <1>2, <1>3, TakePermit, GivePermit DEF AdmissionStep
<1>5. Cardinality(executing') <= MaxConcurrent
  BY <1>1, <1>2, <1>3, TakePermit, GivePermit DEF ExecutingStep
<1> QED BY <1>4, <1>5

-----------------------------------------------------------------------------

LEMMA InvInit == Init => IndInv
<1> SUFFICES ASSUME Init PROVE IndInv
  OBVIOUS
<1> USE ServiceFacts DEF Init, ManagerInit
<1>1. TypeOK
  BY DEF TypeOK, ManagerTypeOK
<1>2. StageInv
  BY DEF StageInv, Stage, Unsubmitted, Uploading, HoldsAdmission
<1>3. PermitInv
  <2>1. PermitsMatchWork
    BY DEF PermitsMatchWork, HoldsAdmission, InFlight, Executing
  <2>2. Cardinality(admission) = 0 /\ Cardinality(executing) = 0
    BY FS_EmptySet
  <2> QED BY <2>1, <2>2 DEF PermitInv
<1>4. FilesInv
  BY DEF FilesInv
<1>5. LeaseInv
  BY DEF LeaseInv, LeasesMatchReads, ReadsResult
<1>6. OrderInv
  BY DEF OrderInv
<1>7. AnswersAreTrue
  BY DEF AnswersAreTrue
<1> QED BY <1>1, <1>2, <1>3, <1>4, <1>5, <1>6, <1>7 DEF IndInv

LEMMA InvNext == IndInv /\ [Next]_vars => IndInv'
<1> SUFFICES ASSUME IndInv, [Next]_vars PROVE IndInv'
  OBVIOUS
<1>1. /\ TypeOK /\ StageInv /\ PermitInv /\ FilesInv /\ LeaseInv /\ OrderInv
      /\ AnswersAreTrue /\ PermitsMatchWork
  BY DEF IndInv, PermitInv
<1>2. PermitInv'
  BY <1>1, MatchNext, PermitSteps, LimitsNext DEF PermitInv
<1> QED BY <1>1, <1>2, TypeNext, StageNext, FilesNext, LeaseNext, OrderNext, AnswersNext
        DEF IndInv

THEOREM Induction == Spec => []IndInv
BY InvInit, InvNext, PTL DEF Spec

-----------------------------------------------------------------------------
(* What the inductive invariant means.                                     *)

(* Every variable keeps its type. *)
THEOREM TypeCorrect == Spec => []TypeOK
<1>1. IndInv => TypeOK
  BY DEF IndInv
<1> QED BY <1>1, Induction, PTL

(* No permit of either semaphore is leaked or released early, whoever      *)
(* disconnects, is rejected or panics.                                     *)
THEOREM PermitsCorrect == Spec => []PermitsMatchWork
<1>1. IndInv => PermitsMatchWork
  BY DEF IndInv, PermitInv
<1> QED BY <1>1, Induction, PTL

(* At most max_concurrent_requests documents are parsed at a time, at most *)
(* max_in_flight_tasks processors exist, and no more entries than those    *)
(* say processing, orphans apart.                                          *)
THEOREM LimitsCorrect == Spec => []ConcurrencyLimits
<1>1. ASSUME IndInv PROVE ConcurrencyLimits
  <2>1. /\ IsFiniteSet(admission) /\ IsFiniteSet(executing)
        /\ MaxInFlight \in Nat /\ MaxConcurrent \in Nat
    BY <1>1, ServiceFacts, FS_Subset DEF IndInv, TypeOK
  <2>2. /\ Cardinality(admission) <= MaxInFlight
        /\ Cardinality(executing) <= MaxConcurrent
    BY <1>1 DEF IndInv, PermitInv
  <2> DEFINE parsing  == {t \in Task : processor[t] = "parsing"}
             inFlight == {t \in Task : processor[t] \in InFlight}
             shown    == {t \in Task : status[t] = "processing" /\ ~Orphaned(t)}
  <2>3. ASSUME NEW t \in Task, status[t] = "processing", ~Orphaned(t)
        PROVE  processor[t] \in InFlight
    <3>1. Stage(t)
      BY <1>1 DEF IndInv, StageInv
    <3> QED BY <2>3, <3>1 DEF Stage, Outcome, Orphaned, InFlight, Executing
  <2>4. parsing \in SUBSET executing /\ inFlight \in SUBSET admission /\ shown \in SUBSET admission
    BY <1>1, <2>3 DEF IndInv, PermitInv, PermitsMatchWork, Executing
  <2>5. /\ Cardinality(parsing) <= Cardinality(executing)
        /\ Cardinality(inFlight) <= Cardinality(admission)
        /\ Cardinality(shown) <= Cardinality(admission)
        /\ IsFiniteSet(parsing) /\ IsFiniteSet(inFlight) /\ IsFiniteSet(shown)
    BY <2>1, <2>4, FS_Subset
  <2>6. /\ Cardinality(parsing) \in Nat /\ Cardinality(executing) \in Nat
        /\ Cardinality(inFlight) \in Nat /\ Cardinality(admission) \in Nat
        /\ Cardinality(shown) \in Nat
    BY <2>1, <2>5, FS_CardinalityType
  <2> HIDE DEF parsing, inFlight, shown
  <2>7. /\ Cardinality(parsing) <= MaxConcurrent
        /\ Cardinality(inFlight) <= MaxInFlight
        /\ Cardinality(shown) <= MaxInFlight
    BY <2>1, <2>2, <2>5, <2>6
  <2> QED BY <2>7 DEF ConcurrencyLimits, parsing, inFlight, shown
<1> QED BY <1>1, Induction, PTL

(* A lease lives exactly as long as the read it guards. *)
THEOREM LeasesCorrect == Spec => []LeasesMatchReads
<1>1. IndInv => LeasesMatchReads
  BY DEF IndInv, LeaseInv
<1> QED BY <1>1, Induction, PTL

(* No cleanup takes the entry or the files from under a reader. *)
THEOREM ReadersSafe == Spec => []ReadersFindFiles
<1>1. ASSUME IndInv PROVE ReadersFindFiles
  <2> SUFFICES ASSUME NEW c \in Client, ReadsResult(c)
               PROVE  /\ status[TargetOf(c)] = "completed"
                      /\ TargetOf(c) \notin sweeping
                      /\ dir[TargetOf(c)] = "present"
    BY DEF ReadersFindFiles
  <2>1. TargetOf(c) \in Task /\ status[TargetOf(c)] = "completed"
    BY <1>1, ReadersSeeCompleted DEF IndInv
  <2> QED BY <1>1, <2>1 DEF IndInv, FilesInv
<1> QED BY <1>1, Induction, PTL

(* Who is neither pending-and-orphaned nor finished still holds its place  *)
(* in the admission limit.                                                 *)
THEOREM LiveAdmitted == Spec => []LiveTasksAreAdmitted
<1>1. ASSUME IndInv PROVE LiveTasksAreAdmitted
  <2> SUFFICES ASSUME NEW t \in Task, status[t] \in Live
               PROVE  t \in admission \/ Orphaned(t)
    BY DEF LiveTasksAreAdmitted
  <2>1. Stage(t)
    BY <1>1 DEF IndInv, StageInv
  <2>2. \/ processor[t] = "none" /\ handler[t] \in {"submitted", "gone"}
        \/ processor[t] = "panicked"
        \/ processor[t] \in InFlight \cup {"done"}
    BY <2>1 DEF Stage, Live, InFlight, Executing
  <2>3. processor[t] # "done"
    BY <2>1 DEF Stage, Live, Outcome
  <2> QED BY <1>1, <2>2, <2>3
          DEF IndInv, PermitInv, PermitsMatchWork, HoldsAdmission, Orphaned
<1> QED BY <1>1, Induction, PTL

(* The answers of the API agree with what parse_task returned. *)
THEOREM AnswersCorrect == Spec => []AnswersAreTrue
<1>1. IndInv => AnswersAreTrue
  BY DEF IndInv
<1> QED BY <1>1, Induction, PTL

(* At any moment the pending tasks have different values of queued_ahead,  *)
(* in the order of their numbers.                                          *)
THEOREM PositionsCorrect == Spec => []QueuePositionsDistinct
<1> DEFINE Ahead(t) == {u \in Task \ {t} : /\ status[u] = "pending"
                                           /\ submitOrder[u] > 0
                                           /\ submitOrder[u] < submitOrder[t]}
<1>1. ASSUME IndInv, NEW t \in Task, NEW u \in Task,
             status[t] = "pending", status[u] = "pending",
             submitOrder[t] < submitOrder[u]
      PROVE  QueuedAhead(t) < QueuedAhead(u) /\ ~(QueuedAhead(u) < QueuedAhead(t))
             /\ QueuedAhead(t) # QueuedAhead(u)
  <2>1. /\ submitOrder \in [Task -> Nat]
        /\ submitOrder[t] > 0 /\ submitOrder[u] > 0
    BY <1>1 DEF IndInv, TypeOK, ManagerTypeOK, OrderInv
  <2>2. t \in Ahead(u) /\ t \notin Ahead(t)
    BY <1>1, <2>1
  <2>3. Ahead(t) \in SUBSET Ahead(u)
    BY <1>1, <2>1
  <2>4. IsFiniteSet(Ahead(u))
    BY ServiceFacts, FS_Subset, Ahead(u) \in SUBSET Task
  <2>5. Ahead(t) # Ahead(u)
    BY <2>2
  <2>6. /\ IsFiniteSet(Ahead(t))
        /\ Cardinality(Ahead(t)) <= Cardinality(Ahead(u))
        /\ Cardinality(Ahead(t)) # Cardinality(Ahead(u))
    BY <2>3, <2>4, <2>5, FS_Subset
  <2>7. QueuedAhead(t) = Cardinality(Ahead(t)) /\ QueuedAhead(u) = Cardinality(Ahead(u))
    BY <1>1 DEF QueuedAhead
  <2>8. Cardinality(Ahead(t)) \in Nat /\ Cardinality(Ahead(u)) \in Nat
    BY <2>4, <2>6, FS_CardinalityType
  <2> HIDE DEF Ahead
  <2> QED BY <2>6, <2>7, <2>8
<1>2. ASSUME IndInv PROVE QueuePositionsDistinct
  <2> SUFFICES ASSUME NEW t \in Task, NEW u \in Task, t # u,
                      status[t] = "pending", status[u] = "pending"
               PROVE  /\ QueuedAhead(t) # QueuedAhead(u)
                      /\ QueuedAhead(t) < QueuedAhead(u) <=> submitOrder[t] < submitOrder[u]
    BY DEF QueuePositionsDistinct
  <2>1. /\ submitOrder[t] \in Nat /\ submitOrder[u] \in Nat
        /\ submitOrder[t] > 0 /\ submitOrder[u] > 0
    BY <1>2 DEF IndInv, TypeOK, ManagerTypeOK, OrderInv
  <2>2. submitOrder[t] # submitOrder[u]
    BY <1>2, <2>1 DEF IndInv, OrderInv
  <2>3. CASE submitOrder[t] < submitOrder[u]
    BY <1>1, <1>2, <2>3
  <2>4. CASE submitOrder[u] < submitOrder[t]
    BY <1>1, <1>2, <2>4
  <2> QED BY <2>1, <2>2, <2>3, <2>4
<1> QED BY <1>2, Induction, PTL

-----------------------------------------------------------------------------
(* Refinement of TaskLifecycle.                                            *)

(* A step that changes neither the table nor the results nor the           *)
(* directories is not seen by the lifecycle; nor are those the table keeps *)
(* for itself.                                                             *)
LEMMA Unseen ==
    ASSUME UNCHANGED <<status, resultReaders, dir>>,
           \A t \in Task : status[t] # "absent" \/ result'[t] = result[t]
    PROVE  UNCHANGED <<life, resultReaders, dir>>
BY DEF life

LEMMA LifecycleStep ==
    IndInv /\ [Next]_vars => [Lifecycle!Next]_<<life, resultReaders, dir>>
<1> SUFFICES ASSUME IndInv, [Next]_vars
             PROVE  [Lifecycle!Next]_<<life, resultReaders, dir>>
  OBVIOUS
<1> USE ServiceFacts DEF managerVars, Goto
<1>0. TypeOK /\ ManagerTypeOK /\ StageInv /\ FilesInv /\ LeaseInv
  BY DEF IndInv, TypeOK
<1>a. ASSUME NEW t \in Task, UploadStep(t)
      PROVE  [Lifecycle!Next]_<<life, resultReaders, dir>>
  <2>1. CASE CreateOutputDir(t)
    <3>1. life[t] = "unknown" /\ dir[t] = "none" /\ life' = life
      BY <2>1, <1>0 DEF CreateOutputDir, life, StageInv, Stage, FilesInv, Uploading, HoldsAdmission
    <3>2. Lifecycle!MakeFiles(t)
      BY <2>1, <3>1 DEF CreateOutputDir, Lifecycle!MakeFiles
    <3> QED BY <3>2 DEF Lifecycle!Next
  <2>2. CASE SubmitFileParse(t) \/ SubmitAsync(t)
    <3>1. /\ status[t] = "absent" /\ result[t] = "none" /\ dir[t] = "present"
          /\ status' = [status EXCEPT ![t] = "pending"]
          /\ UNCHANGED <<result, resultReaders, dir>>
      BY <2>2, <1>0
         DEF SubmitFileParse, SubmitAsync, InsertEntry, StageInv, Stage, FilesInv,
             Uploading, HoldsAdmission, TypeOK
    <3>2. life[t] = "unknown" /\ life' = [life EXCEPT ![t] = "pending"]
      BY <3>1, <1>0 DEF life, ManagerTypeOK
    <3>3. Lifecycle!Submit(t)
      BY <3>1, <3>2 DEF Lifecycle!Submit, Lifecycle!Move
    <3> QED BY <3>3 DEF Lifecycle!Next
  <2>3. CASE Arrive(t) \/ AcquireAdmission(t) \/ RejectUpload(t) \/ BeginSubmit(t)
             \/ ReplySubmitted(t) \/ CheckTerminal(t) \/ CreateNotified(t) \/ Wake(t)
    BY <2>3, Unseen
       DEF Arrive, AcquireAdmission, RejectUpload, BeginSubmit, DrawSubmitOrder,
           ReplySubmitted, CheckTerminal, CreateNotified, Wake
  <2> QED BY <1>a, <2>1, <2>2, <2>3 DEF UploadStep
<1>b. ASSUME NEW t \in Task, ProcessorStep(t)
      PROVE  [Lifecycle!Next]_<<life, resultReaders, dir>>
  <2>1. CASE StartProcessing(t)
    <3>1. /\ status[t] = "pending" /\ status' = [status EXCEPT ![t] = "processing"]
          /\ UNCHANGED <<result, resultReaders, dir>>
      BY <2>1, <1>0 DEF StartProcessing, SetStatus, StageInv, Stage
    <3>2. life[t] = "pending" /\ life' = [life EXCEPT ![t] = "processing"]
      BY <3>1, <1>0 DEF life, ManagerTypeOK
    <3>3. Lifecycle!Start(t)
      BY <3>1, <3>2 DEF Lifecycle!Start, Lifecycle!Move
    <3> QED BY <3>3 DEF Lifecycle!Next
  <2>2. CASE RecordOutcome(t)
    <3>1. PICK s \in {"completed", "failed"} :
              /\ status[t] = "processing" /\ status' = [status EXCEPT ![t] = s]
              /\ UNCHANGED <<result, resultReaders, dir>>
      BY <2>2, <1>0 DEF RecordOutcome, SetStatus, StageInv, Stage
    <3>2. life[t] = "processing" /\ life' = [life EXCEPT ![t] = s]
      BY <3>1, <1>0 DEF life, ManagerTypeOK
    <3>3. Lifecycle!Finish(t)
      BY <3>1, <3>2 DEF Lifecycle!Finish, Lifecycle!Move
    <3> QED BY <3>3 DEF Lifecycle!Next
  <2>3. CASE ParseReturns(t)
    <3>1. status[t] # "absent"
      BY <2>3, <1>0 DEF ParseReturns, StageInv, Stage
    <3>2. \A u \in Task : u # t => result'[u] = result[u]
      BY <2>3, <1>0 DEF ParseReturns, TypeOK
    <3> QED BY <2>3, <3>1, <3>2, Unseen DEF ParseReturns
  <2>4. CASE AcquireRequest(t) \/ ParserPanics(t) \/ ReleaseAdmission(t)
    BY <2>4, Unseen DEF AcquireRequest, ParserPanics, ReleaseAdmission
  <2> QED BY <1>b, <2>1, <2>2, <2>3, <2>4 DEF ProcessorStep
<1>c. ASSUME NEW t \in Task, RemoveDir(t)
      PROVE  [Lifecycle!Next]_<<life, resultReaders, dir>>
  <2>1. life' = life /\ resultReaders' = resultReaders
    BY <1>c DEF RemoveDir, life
  <2>2. life[t] = "expired" /\ resultReaders[t] = {}
    BY <1>c, <1>0 DEF RemoveDir, FilesInv, LeaseInv, life
  <2>3. CASE dir' = dir
    BY <2>1, <2>3
  <2>4. CASE dir' = [dir EXCEPT ![t] = "removed"]
    <3>1. Lifecycle!RemoveFiles(t)
      BY <2>1, <2>2, <2>4 DEF Lifecycle!RemoveFiles
    <3> QED BY <3>1 DEF Lifecycle!Next
  <2> QED BY <1>c, <2>3, <2>4 DEF RemoveDir
<1>d. ASSUME NEW t \in Task, TimePasses(t)
      PROVE  [Lifecycle!Next]_<<life, resultReaders, dir>>
  BY <1>d, Unseen DEF TimePasses, Age, serviceVars
<1>e. ASSUME NEW g \in Getter, LookUp(g)
      PROVE  [Lifecycle!Next]_<<life, resultReaders, dir>>
  BY <1>e, Unseen DEF LookUp
<1>f. ASSUME NEW c \in Client, UNCHANGED <<status, result, dir>>,
             resultReaders' = [t \in Task |-> resultReaders[t] \ {c}]
      PROVE  [Lifecycle!Next]_<<life, resultReaders, dir>>
  <2>1. life' = life
    BY <1>f DEF life
  <2>2. Lifecycle!EndRead(c)
    BY <1>f, <2>1 DEF Lifecycle!EndRead
  <2> QED BY <2>2 DEF Lifecycle!Next
<1>g. ASSUME NEW c \in Client, ResultStep(c)
      PROVE  [Lifecycle!Next]_<<life, resultReaders, dir>>
  <2>1. CASE LeaseResult(c)
    <3>1. PICK t \in Task : t = TargetOf(c)
      BY <1>0 DEF TargetOf, Client, TypeOK
    <3>2. /\ status[t] # "absent"
          /\ resultReaders' = [resultReaders EXCEPT ![t] = @ \cup {c}]
          /\ UNCHANGED <<status, result, dir>>
          /\ handler[c] = "sawCompleted"
      BY <2>1, <3>1 DEF LeaseResult, AcquireResultLease
    <3>3. status[t] = "completed"
      BY <3>1, <3>2, <1>0 DEF LeaseInv, StageInv, Stage, Outcome
    <3>4. life[t] = "completed" /\ life' = life /\ dir[t] = "present"
      BY <3>2, <3>3, <1>0 DEF life, FilesInv
    <3>5. Lifecycle!BeginRead(t, c)
      BY <3>2, <3>4 DEF Lifecycle!BeginRead
    <3> QED BY <3>5 DEF Lifecycle!Next
  <2>2. CASE ReplyJson(c) \/ FinishZip(c)
    BY <2>2, <1>f DEF ReplyJson, FinishZip, DropResultLease
  <2>3. CASE MissResult(c) \/ ReplyZip(c)
    BY <2>3, Unseen DEF MissResult, ReplyZip
  <2> QED BY <1>g, <2>1, <2>2, <2>3 DEF ResultStep
<1>h. ASSUME NEW c \in Client, Disconnect(c)
      PROVE  [Lifecycle!Next]_<<life, resultReaders, dir>>
  BY <1>h, <1>f DEF Disconnect
<1>i. CASE Sweep
  <2>1. /\ \A t \in Expired : status[t] \in {"completed", "failed"} /\ resultReaders[t] = {}
        /\ status' = [t \in Task |-> IF t \in Expired THEN "absent" ELSE status[t]]
        /\ UNCHANGED <<result, resultReaders, dir>>
        /\ Expired \in SUBSET Task
    BY <1>i DEF Sweep, CleanupExpired, Expired, Terminal
  <2>2. \A t \in Expired : life[t] = status[t]
    BY <2>1 DEF life
  <2>3. \A t \in Expired : result[t] # "none"
    BY <2>1, <1>0 DEF StageInv, Stage
  <2>4. life' = [t \in Task |-> IF t \in Expired THEN "expired" ELSE life[t]]
    BY <2>1, <2>3 DEF life
  <2>5. Lifecycle!Expire(Expired)
    BY <2>1, <2>2, <2>4 DEF Lifecycle!Expire
  <2> QED BY <2>1, <2>5 DEF Lifecycle!Next
<1>j. CASE UNCHANGED vars
  BY <1>j, Unseen DEF vars, serviceVars
<1> QED BY <1>a, <1>b, <1>c, <1>d, <1>e, <1>g, <1>h, <1>i, <1>j DEF Next

(* The service implements the lifecycle clients rely on. *)
THEOREM LifecycleImplemented == Spec => ImplementsLifecycle
<1>1. Init => Lifecycle!Init
  BY DEF Init, ManagerInit, Lifecycle!Init, life
<1> QED BY <1>1, Induction, LifecycleStep, PTL
        DEF Spec, ImplementsLifecycle, Lifecycle!Spec, Lifecycle!lifecycleVars
=============================================================================
