---------------------------- MODULE TaskService ----------------------------
(***************************************************************************)
(* The HTTP service around the task table: the handlers of POST            *)
(* /file_parse, POST /tasks and GET /tasks/{id}/result, the processor each *)
(* accepted upload spawns, the two semaphores of AppState, the streamed    *)
(* ZIP responses and the cleanup loop (src/src/server/routes.rs,           *)
(* src/src/server/state.rs, src/src/io/result_builder.rs).                 *)
(*                                                                         *)
(* A handler is a future that axum drops when its client disconnects, so   *)
(* Disconnect may strike at every await; a spawned processor and a running *)
(* ZIP thread survive it.  What the parser does inside parse_task is a     *)
(* single step that succeeds or fails (or panics).                         *)
(***************************************************************************)
EXTENDS TaskManager

CONSTANTS
    FileParse,       \* the uploads sent to /file_parse; the others go to /tasks
    MaxInFlight,     \* permits of admission_semaphore
    MaxConcurrent,   \* permits of request_semaphore
    ParserMayPanic   \* TRUE iff parse_task may unwind the spawned task

ASSUME ServiceAssumption ==
    /\ FileParse \subseteq Task
    /\ MaxInFlight \in Nat \ {0}
    /\ MaxConcurrent \in Nat \ {0}
    /\ ParserMayPanic \in BOOLEAN

VARIABLES
    handler,     \* where the handler of each request is, or how it answered
    processor,   \* where the spawned processor of each task is
    result,      \* the processor's local `result` of parse_task
    admission,   \* holders of an admission permit
    executing,   \* holders of a request permit
    dir,         \* the task output directory on disk
    target,      \* the task a GET asks for
    streaming,   \* clients whose ZIP response thread is running
    sweeping     \* directories cleanup_expired returned, not yet removed

serviceVars ==
    <<handler, processor, result, admission, executing, dir, target,
      streaming, sweeping>>
vars == <<managerVars, serviceVars>>

(* An upload handler that owns its admission permit... *)
HoldsAdmission == {"admitted", "saving", "ordered", "submitted"}
(* ...and the points of wait_terminal and of the response that follows. *)
Waiting == {"checking", "unlocked", "blocked"}
Reading == {"sawCompleted", "loading"}
InProgress == {"queueing"} \cup HoldsAdmission \cup Waiting \cup Reading

Reply ==
    {"ok",             \* 200
     "accepted",       \* 202
     "conflict",       \* 409 Task execution failed
     "notFound",       \* 404
     "rejected",       \* 4xx or 500 before the task exists
     "buildFailed",    \* 500 while the result is loaded
     "lostTask",       \* 503 Task was removed before completion
     "lostResult",     \* 503 Task was removed before result loading
     "gone"}           \* the client disconnected

Executing == {"permitted", "parsing"}
InFlight  == {"queued"} \cup Executing \cup {"parsed", "finished"}

TypeOK ==
    /\ ManagerTypeOK
    /\ handler \in [Client -> {"idle"} \cup InProgress \cup Reply]
    /\ processor \in [Task -> {"none"} \cup InFlight \cup {"done", "panicked"}]
    /\ result \in [Task -> {"none", "ok", "err"}]
    /\ admission \subseteq Task
    /\ executing \subseteq Task
    /\ dir \in [Task -> {"none", "present", "removed"}]
    /\ target \in [Getter -> Task]
    /\ streaming \subseteq Client
    /\ sweeping \subseteq Task

Init ==
    /\ ManagerInit
    /\ handler = [c \in Client |-> "idle"]
    /\ processor = [t \in Task |-> "none"]
    /\ result = [t \in Task |-> "none"]
    /\ admission = {}
    /\ executing = {}
    /\ dir = [t \in Task |-> "none"]
    /\ target \in [Getter -> Task]
    /\ streaming = {}
    /\ sweeping = {}

Goto(c, from, to) ==
    /\ handler[c] \in from
    /\ handler' = [handler EXCEPT ![c] = to]

TargetOf(c) == IF c \in Task THEN c ELSE target[c]

-----------------------------------------------------------------------------
(* POST /file_parse and POST /tasks up to the insertion of the task.       *)

(* Faulty: one permit too many. *)
AcquireAdmissionBeyond(t) ==
    /\ Cardinality(admission) <= MaxInFlight
    /\ Goto(t, {"queueing"}, "admitted")
    /\ admission' = admission \cup {t}
    /\ UNCHANGED <<managerVars, processor, result, executing, dir, target,
                   streaming, sweeping>>

Arrive(t) ==
    /\ Goto(t, {"idle"}, "queueing")
    /\ UNCHANGED <<managerVars, processor, result, admission, executing, dir,
                   target, streaming, sweeping>>

AcquireAdmission(t) ==
    /\ Cardinality(admission) < MaxInFlight
    /\ Goto(t, {"queueing"}, "admitted")
    /\ admission' = admission \cup {t}
    /\ UNCHANGED <<managerVars, processor, result, executing, dir, target,
                   streaming, sweeping>>

CreateOutputDir(t) ==
    /\ Goto(t, {"admitted"}, "saving")
    /\ dir' = [dir EXCEPT ![t] = "present"]
    /\ UNCHANGED <<managerVars, processor, result, admission, executing,
                   target, streaming, sweeping>>

(* An error return of create_async_parse_task: the directory cannot be     *)
(* created, the multipart body is malformed, the backend is refused, the   *)
(* options are invalid or no file came.  The permit goes, the directory    *)
(* stays.                                                                  *)
RejectUpload(t) ==
    /\ Goto(t, {"admitted", "saving"}, "rejected")
    /\ admission' = admission \ {t}
    /\ UNCHANGED <<managerVars, processor, result, executing, dir, target,
                   streaming, sweeping>>

BeginSubmit(t) ==
    /\ Goto(t, {"saving"}, "ordered")
    /\ DrawSubmitOrder(t)
    /\ UNCHANGED <<processor, result, admission, executing, dir, target,
                   streaming, sweeping>>

Spawn(t) == processor' = [processor EXCEPT ![t] = "queued"]

(* file_parse spawns the processor without an await after the insertion... *)
SubmitFileParse(t) ==
    /\ t \in FileParse
    /\ Goto(t, {"ordered"}, "checking")
    /\ InsertEntry(t)
    /\ Spawn(t)
    /\ UNCHANGED <<result, admission, executing, dir, target, streaming,
                   sweeping>>

(* ...submit_task awaits status_payload between the two. *)
SubmitAsync(t) ==
    /\ t \notin FileParse
    /\ Goto(t, {"ordered"}, "submitted")
    /\ InsertEntry(t)
    /\ UNCHANGED <<processor, result, admission, executing, dir, target,
                   streaming, sweeping>>

ReplySubmitted(t) ==
    /\ Goto(t, {"submitted"}, "accepted")
    /\ Spawn(t)
    /\ UNCHANGED <<managerVars, result, admission, executing, dir, target,
                   streaming, sweeping>>

-----------------------------------------------------------------------------
(* wait_terminal and the rest of file_parse.                               *)

CheckTerminal(t) ==
    /\ \/ status[t] = "absent"    /\ Goto(t, {"checking"}, "lostTask")
       \/ status[t] = "failed"    /\ Goto(t, {"checking"}, "conflict")
       \/ status[t] = "completed" /\ Goto(t, {"checking"}, "sawCompleted")
       \/ status[t] \in Live      /\ Goto(t, {"checking"}, "unlocked")
    /\ UNCHANGED <<managerVars, processor, result, admission, executing, dir,
                   target, streaming, sweeping>>

(* notify.notified(): the read lock was released one statement earlier. *)
CreateNotified(t) ==
    /\ Goto(t, {"unlocked"}, "blocked")
    /\ armed' = armed \cup {t}
    /\ UNCHANGED <<status, submitOrder, nextSubmitOrder, resultReaders, aged,
                   processor, result, admission, executing, dir, target,
                   streaming, sweeping>>

Wake(t) ==
    /\ t \notin armed
    /\ Goto(t, {"blocked"}, "checking")
    /\ UNCHANGED <<managerVars, processor, result, admission, executing, dir,
                   target, streaming, sweeping>>

(* get_task_result: the snapshot `get` returns decides the answer. *)
LookUp(g) ==
    /\ \/ status[target[g]] = "absent"    /\ Goto(g, {"idle"}, "notFound")
       \/ status[target[g]] \in Live      /\ Goto(g, {"idle"}, "accepted")
       \/ status[target[g]] = "failed"    /\ Goto(g, {"idle"}, "conflict")
       \/ status[target[g]] = "completed" /\ Goto(g, {"idle"}, "sawCompleted")
    /\ UNCHANGED <<managerVars, processor, result, admission, executing, dir,
                   target, streaming, sweeping>>

LeaseResult(c) ==
    /\ Goto(c, {"sawCompleted"}, "loading")
    /\ AcquireResultLease(TargetOf(c), c)
    /\ UNCHANGED <<processor, result, admission, executing, dir, target,
                   streaming, sweeping>>

MissResult(c) ==
    /\ status[TargetOf(c)] = "absent"
    /\ Goto(c, {"sawCompleted"}, "lostResult")
    /\ UNCHANGED <<managerVars, processor, result, admission, executing, dir,
                   target, streaming, sweeping>>

(* The JSON payload is read from disk under the lease, then the lease is   *)
(* dropped whether or not every file could be read.                        *)
ReplyJson(c) ==
    /\ \/ Goto(c, {"loading"}, "ok")
       \/ Goto(c, {"loading"}, "buildFailed")
    /\ DropResultLease(c)
    /\ UNCHANGED <<processor, result, admission, executing, dir, target,
                   streaming, sweeping>>

(* Faulty: the lease is not moved into the thread. *)
ReplyZipWithoutLease(c) ==
    /\ Goto(c, {"loading"}, "ok")
    /\ streaming' = streaming \cup {c}
    /\ DropResultLease(c)
    /\ UNCHANGED <<processor, result, admission, executing, dir, target,
                   sweeping>>

(* build_zip_stream moves the lease into a blocking thread and answers. *)
ReplyZip(c) ==
    /\ Goto(c, {"loading"}, "ok")
    /\ streaming' = streaming \cup {c}
    /\ UNCHANGED <<managerVars, processor, result, admission, executing, dir,
                   target, sweeping>>

(* The ZIP is complete, a file cannot be read, or the receiver is gone. *)
FinishZip(c) ==
    /\ c \in streaming
    /\ streaming' = streaming \ {c}
    /\ DropResultLease(c)
    /\ UNCHANGED <<handler, processor, result, admission, executing, dir,
                   target, sweeping>>

(* Faulty: the permit is not owned by the handler that is dropped. *)
DisconnectLeakingPermit(c) ==
    /\ Goto(c, InProgress \ {"unlocked"}, "gone")
    /\ resultReaders' = [t \in Task |-> resultReaders[t] \ {c}]
    /\ armed' = armed \ {c}
    /\ UNCHANGED <<status, submitOrder, nextSubmitOrder, aged, processor, result,
                   admission, executing, dir, target, streaming, sweeping>>

(* The client goes away and its handler is dropped with all it owns, at    *)
(* any await; "unlocked" lies between two statements of one poll.          *)
Disconnect(c) ==
    /\ Goto(c, InProgress \ {"unlocked"}, "gone")
    /\ admission' = IF handler[c] \in HoldsAdmission
                    THEN admission \ {c} ELSE admission
    /\ resultReaders' = [t \in Task |-> resultReaders[t] \ {c}]
    /\ armed' = armed \ {c}
    /\ UNCHANGED <<status, submitOrder, nextSubmitOrder, aged, processor,
                   result, executing, dir, target, streaming, sweeping>>

-----------------------------------------------------------------------------
(* spawn_task_processor.                                                   *)

AcquireRequest(t) ==
    /\ processor[t] = "queued"
    /\ Cardinality(executing) < MaxConcurrent
    /\ executing' = executing \cup {t}
    /\ processor' = [processor EXCEPT ![t] = "permitted"]
    /\ UNCHANGED <<managerVars, handler, result, admission, dir, target,
                   streaming, sweeping>>

StartProcessing(t) ==
    /\ processor[t] = "permitted"
    /\ SetStatus(t, "processing")
    /\ processor' = [processor EXCEPT ![t] = "parsing"]
    /\ UNCHANGED <<handler, result, admission, executing, dir, target,
                   streaming, sweeping>>

(* Faulty: the request permit is kept. *)
ParseReturnsKeepingPermit(t) ==
    /\ processor[t] = "parsing"
    /\ \E r \in {"ok", "err"} : result' = [result EXCEPT ![t] = r]
    /\ processor' = [processor EXCEPT ![t] = "parsed"]
    /\ UNCHANGED <<managerVars, handler, admission, executing, dir, target,
                   streaming, sweeping>>

(* Faulty: both permits are dropped before the outcome is recorded. *)
ParseReturnsDroppingBoth(t) ==
    /\ processor[t] = "parsing"
    /\ \E r \in {"ok", "err"} : result' = [result EXCEPT ![t] = r]
    /\ executing' = executing \ {t}
    /\ admission' = admission \ {t}
    /\ processor' = [processor EXCEPT ![t] = "parsed"]
    /\ UNCHANGED <<managerVars, handler, dir, target, streaming, sweeping>>

(* parse_task returns and drop(permit) follows at once. *)
ParseReturns(t) ==
    /\ processor[t] = "parsing"
    /\ \E r \in {"ok", "err"} : result' = [result EXCEPT ![t] = r]
    /\ executing' = executing \ {t}
    /\ processor' = [processor EXCEPT ![t] = "parsed"]
    /\ UNCHANGED <<managerVars, handler, admission, dir, target, streaming,
                   sweeping>>

(* Unwinding drops both permits; nobody joins the task. *)
ParserPanics(t) ==
    /\ ParserMayPanic
    /\ processor[t] = "parsing"
    /\ processor' = [processor EXCEPT ![t] = "panicked"]
    /\ executing' = executing \ {t}
    /\ admission' = admission \ {t}
    /\ UNCHANGED <<managerVars, handler, result, dir, target, streaming,
                   sweeping>>

RecordOutcome(t) ==
    /\ processor[t] = "parsed"
    /\ SetStatus(t, IF result[t] = "ok" THEN "completed" ELSE "failed")
    /\ processor' = [processor EXCEPT ![t] = "finished"]
    /\ UNCHANGED <<handler, result, admission, executing, dir, target,
                   streaming, sweeping>>

ReleaseAdmission(t) ==
    /\ processor[t] = "finished"
    /\ processor' = [processor EXCEPT ![t] = "done"]
    /\ admission' = admission \ {t}
    /\ UNCHANGED <<managerVars, handler, result, executing, dir, target,
                   streaming, sweeping>>

-----------------------------------------------------------------------------
(* The cleanup loop: one sweep of the table, then the directories it       *)
(* returned one after another, then the next tick.                         *)

Sweep ==
    /\ sweeping = {}
    /\ sweeping' = Expired
    /\ CleanupExpired(Expired)
    /\ UNCHANGED <<handler, processor, result, admission, executing, dir,
                   target, streaming>>

(* remove_dir_all may fail; that is only logged. *)
RemoveDir(t) ==
    /\ t \in sweeping
    /\ sweeping' = sweeping \ {t}
    /\ dir' \in {dir, [dir EXCEPT ![t] = "removed"]}
    /\ UNCHANGED <<managerVars, handler, processor, result, admission,
                   executing, target, streaming>>

TimePasses(t) ==
    /\ Age(t)
    /\ UNCHANGED serviceVars

-----------------------------------------------------------------------------

UploadStep(t) ==
    \/ Arrive(t) \/ AcquireAdmission(t) \/ CreateOutputDir(t)
    \/ RejectUpload(t) \/ BeginSubmit(t)
    \/ SubmitFileParse(t) \/ SubmitAsync(t) \/ ReplySubmitted(t)
    \/ CheckTerminal(t) \/ CreateNotified(t) \/ Wake(t)

ResultStep(c) ==
    \/ LeaseResult(c) \/ MissResult(c)
    \/ ReplyJson(c) \/ ReplyZip(c) \/ FinishZip(c)

ProcessorStep(t) ==
    \/ AcquireRequest(t) \/ StartProcessing(t) \/ ParseReturns(t)
    \/ ParserPanics(t) \/ RecordOutcome(t) \/ ReleaseAdmission(t)

Next ==
    \/ \E t \in Task : UploadStep(t) \/ ProcessorStep(t) \/ RemoveDir(t) \/ TimePasses(t)
    \/ \E g \in Getter : LookUp(g)
    \/ \E c \in Client : ResultStep(c) \/ Disconnect(c)
    \/ Sweep

Spec == Init /\ [][Next]_vars

-----------------------------------------------------------------------------
(* Fairness.  The runtime polls every woken future; both semaphores serve  *)
(* their waiters first come first served, hence SF on their acquisition;   *)
(* every VLM call has an HTTP timeout, so parse_task returns.  Nothing is  *)
(* assumed of clients, neither that an upload arrives in full nor that a   *)
(* ZIP is read, nor that anyone disconnects.                               *)

ProcessorFairness ==
    \A t \in Task :
        /\ SF_vars(AcquireRequest(t))
        /\ WF_vars(StartProcessing(t))
        /\ WF_vars(ParseReturns(t) \/ ParserPanics(t))
        /\ WF_vars(RecordOutcome(t))
        /\ WF_vars(ReleaseAdmission(t))

HandlerFairness ==
    \A t \in Task :
        /\ SF_vars(AcquireAdmission(t))
        /\ WF_vars(SubmitFileParse(t) \/ SubmitAsync(t))
        /\ WF_vars(ReplySubmitted(t))
        /\ WF_vars(CheckTerminal(t))
        /\ WF_vars(CreateNotified(t))
        /\ WF_vars(Wake(t))
        /\ WF_vars(LeaseResult(t) \/ MissResult(t))
        /\ WF_vars(ReplyJson(t) \/ ReplyZip(t))

CleanupFairness ==
    /\ WF_vars(Sweep)
    /\ \A t \in Task : WF_vars(TimePasses(t)) /\ WF_vars(RemoveDir(t))

FairSpec == Spec /\ ProcessorFairness /\ HandlerFairness /\ CleanupFairness

-----------------------------------------------------------------------------
(* Safety.                                                                 *)

ReadsResult(c) == handler[c] = "loading" \/ c \in streaming

(* An admission permit is held by exactly the requests admitted and not    *)
(* yet finished, a request permit by exactly the processors that parse:    *)
(* over disconnects, rejections and panics none is leaked and none is      *)
(* released early (spawn_task_processor, acquire_admission_permit).        *)
PermitsMatchWork ==
    /\ admission = {t \in Task : \/ handler[t] \in HoldsAdmission
                                 \/ processor[t] \in InFlight}
    /\ executing = {t \in Task : processor[t] \in Executing}

(* A task that nobody will ever bring to a terminal status: its processor  *)
(* unwound, or its submit_task handler was dropped before the spawn.       *)
Orphaned(t) ==
    \/ processor[t] = "panicked"
    \/ processor[t] = "none" /\ handler[t] = "gone"

(* At most max_concurrent_requests documents are inside parse_task, at     *)
(* most max_in_flight_tasks processors exist, and no more entries than     *)
(* those show the status processing, orphans apart.  The last bound is not *)
(* max_concurrent_requests: a processor gives its request permit back      *)
(* before it records the outcome, so another task begins meanwhile.        *)
ConcurrencyLimits ==
    /\ Cardinality({t \in Task : processor[t] = "parsing"}) <= MaxConcurrent
    /\ Cardinality({t \in Task : processor[t] \in InFlight}) <= MaxInFlight
    /\ Cardinality({t \in Task : status[t] = "processing" /\ ~Orphaned(t)}) <= MaxInFlight

(* Result files are only read while the entry and its directory are there: *)
(* neither cleanup_expired nor the removal of directories that follows it  *)
(* outside the lock can take them from a JSON build or a ZIP stream, even  *)
(* one whose client is long gone.                                          *)
ReadersFindFiles ==
    \A c \in Client :
        ReadsResult(c) => LET t == TargetOf(c)
                          IN  /\ status[t] = "completed"
                              /\ t \notin sweeping
                              /\ dir[t] = "present"

(* A lease lives exactly as long as the read it guards, so no entry is     *)
(* kept from cleanup by a reader that is gone (ResultReadLease).           *)
LeasesMatchReads ==
    \A c \in Client, t \in Task :
        c \in resultReaders[t] <=> t = TargetOf(c) /\ ReadsResult(c)

(* Every pending or processing entry is covered by an admission permit,    *)
(* orphans apart: the processor keeps its permit until after the terminal  *)
(* status is recorded.                                                     *)
LiveTasksAreAdmitted ==
    \A t \in Task : status[t] \in Live => t \in admission \/ Orphaned(t)

(* The answers of file_parse and get_task_result agree with what           *)
(* parse_task returned, and a 503 is only given for a task whose retention *)
(* has passed.                                                             *)
AnswersAreTrue ==
    \A c \in Client :
        LET t == TargetOf(c)
        IN  /\ handler[c] \in {"ok", "buildFailed"} => result[t] = "ok"
            /\ handler[c] = "conflict" => result[t] = "err"
            /\ handler[c] = "lostResult" => result[t] = "ok" /\ t \in aged
            /\ handler[c] = "lostTask" => result[t] # "none" /\ t \in aged

(* At any moment the pending tasks have different values of queued_ahead,  *)
(* in the order in which submit numbered them, although it inserts their   *)
(* entries in another.  These are the values of that moment: a task        *)
(* numbered first and inserted last may be told what another task was told *)
(* before it (see README.md).                                              *)
QueuePositionsDistinct ==
    \A t, u \in Task :
        /\ status[t] = "pending" /\ status[u] = "pending"
        /\ t # u
        => /\ QueuedAhead(t) # QueuedAhead(u)
           /\ QueuedAhead(t) < QueuedAhead(u) <=> submitOrder[t] < submitOrder[u]

-----------------------------------------------------------------------------
(* Liveness.                                                               *)

(* Every spawned processor ends and gives both permits back, whatever the  *)
(* other tasks do (spawn_task_processor).                                  *)
ProcessorsFinish ==
    \A t \in Task : processor[t] = "queued" ~> processor[t] \in {"done", "panicked"}

(* With a retention, the notify_waiters of cleanup_expired wakes even a     *)
(* file_parse that missed the one of set_completed: the only waiter never  *)
(* answered is one whose entry was removed, too, between the unlock and    *)
(* the call of notified().                                                 *)
CleanupWakesWaiters ==
    \A t \in FileParse :
        handler[t] = "checking"
            ~> (handler[t] \in Reply \/ (handler[t] = "unlocked" /\ status[t] = "absent"))

-----------------------------------------------------------------------------
(* What documents and messages of the repository claim, and the code does  *)
(* not keep (see the findings in README.md).                               *)

(* POST /file_parse parses synchronously: who waits in it is answered.     *)
(* Without a retention nothing wakes the waiter that missed the            *)
(* notify_waiters of set_completed.                                        *)
FileParseAnswered ==
    \A t \in FileParse : handler[t] = "checking" ~> handler[t] \in Reply

(* MINERU_API_MAX_IN_FLIGHT_TASKS: the most tasks that are queued or       *)
(* running without having reached a terminal status.                       *)
InFlightLimit ==
    Cardinality({t \in Task : status[t] \in Live}) <= MaxInFlight

-----------------------------------------------------------------------------
(* What a client may rely on, as the abstract lifecycle of a task.         *)

life ==
    [t \in Task |-> IF status[t] # "absent" THEN status[t]
                    ELSE IF result[t] = "none" THEN "unknown" ELSE "expired"]

Lifecycle == INSTANCE TaskLifecycle WITH reading <- resultReaders, files <- dir

(* The service implements the lifecycle: statuses only move forward, files *)
(* exist before the task is known, and are only removed once it is expired *)
(* and nobody reads.                                                       *)
ImplementsLifecycle == Lifecycle!Spec

=============================================================================
