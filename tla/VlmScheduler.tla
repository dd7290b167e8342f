---------------------------- MODULE VlmScheduler ----------------------------
(***************************************************************************)
(* The global VLM request scheduler of src/src/vlm/scheduler.rs: a bounded *)
(* mpsc channel filled by predict and drained by max_concurrency workers   *)
(* that share the receiver behind a mutex, and the two counters that       *)
(* /health reports.  Each counter update is a step of its own, as other    *)
(* threads run between it and the channel operation next to it.            *)
(*                                                                         *)
(* A caller of predict may be dropped at its two awaits (the parser drops  *)
(* the other requests of a window when one fails); its job then stays in   *)
(* the queue.  The scheduler lives as long as the service, so the channel  *)
(* is never closed.                                                        *)
(***************************************************************************)
EXTENDS Integers, Sequences, FiniteSets

CONSTANTS
    Request,        \* calls of predict
    Worker,         \* worker tasks, max_concurrency.max(1) of them
    QueueCapacity,  \* queue_capacity.max(1)
    None            \* no worker, no request

ASSUME SchedulerAssumption ==
    /\ IsFiniteSet(Request)
    /\ IsFiniteSet(Worker) /\ Worker # {}
    /\ QueueCapacity \in Nat \ {0}
    /\ None \notin Request \cup Worker

VARIABLES
    caller,          \* where each call of predict is
    queue,           \* the jobs sent and not received
    queueDepth,      \* queue_depth
    worker,          \* where each worker is
    job,             \* the job a worker holds
    receiverLock,    \* who holds the mutex around the receiver
    activeRequests   \* active_requests

vars == <<caller, queue, queueDepth, worker, job, receiverLock, activeRequests>>

(* A caller in one of these owns a slot of the channel. *)
Reserving == {"reserved", "counted"}
Answer    == {"ok", "err"}

(* A worker in one of these is counted as active. *)
InCall == {"sending", "returned"}

CallerState == {"idle", "reserving", "waiting", "dropped"} \cup Reserving \cup Answer
WorkerState == {"idle", "receiving", "received", "dequeued", "sending",
                "returned", "replying"}

TypeOK ==
    /\ caller \in [Request -> CallerState]
    /\ queue \in Seq(Request)
    /\ queueDepth \in Nat
    /\ worker \in [Worker -> WorkerState]
    /\ job \in [Worker -> Request \cup {None}]
    /\ receiverLock \in Worker \cup {None}
    /\ activeRequests \in Nat

Init ==
    /\ caller = [r \in Request |-> "idle"]
    /\ queue = <<>>
    /\ queueDepth = 0
    /\ worker = [w \in Worker |-> "idle"]
    /\ job = [w \in Worker |-> None]
    /\ receiverLock = None
    /\ activeRequests = 0

CallerGoto(r, from, to) ==
    /\ caller[r] = from
    /\ caller' = [caller EXCEPT ![r] = to]

WorkerGoto(w, from, to) ==
    /\ worker[w] = from
    /\ worker' = [worker EXCEPT ![w] = to]

-----------------------------------------------------------------------------
(* predict.                                                                *)

Predict(r) ==
    /\ CallerGoto(r, "idle", "reserving")
    /\ UNCHANGED <<queue, queueDepth, worker, job, receiverLock, activeRequests>>

CallersIn(states) == {r \in Request : caller[r] \in states}
WorkersIn(states) == {w \in Worker : worker[w] \in states}

SlotsTaken == Len(queue) + Cardinality(CallersIn(Reserving))

(* Faulty: the job is sent without being counted. *)
CountQueuedForgotten(r) ==
    /\ CallerGoto(r, "reserved", "counted")
    /\ UNCHANGED <<queue, queueDepth, worker, job, receiverLock, activeRequests>>

Reserve(r) ==
    /\ SlotsTaken < QueueCapacity
    /\ CallerGoto(r, "reserving", "reserved")
    /\ UNCHANGED <<queue, queueDepth, worker, job, receiverLock, activeRequests>>

CountQueued(r) ==
    /\ CallerGoto(r, "reserved", "counted")
    /\ queueDepth' = queueDepth + 1
    /\ UNCHANGED <<queue, worker, job, receiverLock, activeRequests>>

Send(r) ==
    /\ CallerGoto(r, "counted", "waiting")
    /\ queue' = Append(queue, r)
    /\ UNCHANGED <<queueDepth, worker, job, receiverLock, activeRequests>>

(* The future is dropped while it waits for a slot or for its answer. *)
Drop(r) ==
    /\ \/ CallerGoto(r, "reserving", "dropped")
       \/ CallerGoto(r, "waiting", "dropped")
    /\ UNCHANGED <<queue, queueDepth, worker, job, receiverLock, activeRequests>>

-----------------------------------------------------------------------------
(* run_vlm_worker.                                                         *)

LockReceiver(w) ==
    /\ receiverLock = None
    /\ WorkerGoto(w, "idle", "receiving")
    /\ receiverLock' = w
    /\ UNCHANGED <<caller, queue, queueDepth, job, activeRequests>>

(* Faulty: the lock is held on, for as long as the job runs. *)
ReceiveHoldingLock(w) ==
    /\ queue # <<>>
    /\ WorkerGoto(w, "receiving", "received")
    /\ job' = [job EXCEPT ![w] = Head(queue)]
    /\ queue' = Tail(queue)
    /\ UNCHANGED <<caller, queueDepth, receiverLock, activeRequests>>

(* Faulty: every worker gets every job. *)
ReceiveBroadcast(w) ==
    /\ queue # <<>>
    /\ WorkerGoto(w, "receiving", "received")
    /\ job' = [job EXCEPT ![w] = Head(queue)]
    /\ receiverLock' = None
    /\ UNCHANGED <<caller, queue, queueDepth, activeRequests>>

(* Faulty: a received job stays on the count. *)
UncountQueuedForgotten(w) ==
    /\ WorkerGoto(w, "received", "dequeued")
    /\ UNCHANGED <<caller, queue, queueDepth, job, receiverLock, activeRequests>>

(* recv returns and the guard of receive_next_job is dropped with it. *)
Receive(w) ==
    /\ queue # <<>>
    /\ WorkerGoto(w, "receiving", "received")
    /\ job' = [job EXCEPT ![w] = Head(queue)]
    /\ queue' = Tail(queue)
    /\ receiverLock' = None
    /\ UNCHANGED <<caller, queueDepth, activeRequests>>

UncountQueued(w) ==
    /\ WorkerGoto(w, "received", "dequeued")
    /\ queueDepth' = queueDepth - 1
    /\ UNCHANGED <<caller, queue, job, receiverLock, activeRequests>>

CountActive(w) ==
    /\ WorkerGoto(w, "dequeued", "sending")
    /\ activeRequests' = activeRequests + 1
    /\ UNCHANGED <<caller, queue, queueDepth, job, receiverLock>>

(* Faulty: a call that failed stays on the count. *)
UncountActiveOnSuccess(w) ==
    /\ WorkerGoto(w, "returned", "replying")
    /\ activeRequests' \in {activeRequests, activeRequests - 1}
    /\ UNCHANGED <<caller, queue, queueDepth, job, receiverLock>>

(* predict_with_session returns, retries included. *)
VlmReturns(w) ==
    /\ WorkerGoto(w, "sending", "returned")
    /\ UNCHANGED <<caller, queue, queueDepth, job, receiverLock, activeRequests>>

UncountActive(w) ==
    /\ WorkerGoto(w, "returned", "replying")
    /\ activeRequests' = activeRequests - 1
    /\ UNCHANGED <<caller, queue, queueDepth, job, receiverLock>>

(* Faulty: the worker does not survive a caller that is gone. *)
RespondOrStop(w) ==
    /\ WorkerGoto(w, "replying", "idle")
    /\ caller[job[w]] = "waiting"
    /\ \E a \in Answer : caller' = [caller EXCEPT ![job[w]] = a]
    /\ job' = [job EXCEPT ![w] = None]
    /\ UNCHANGED <<queue, queueDepth, receiverLock, activeRequests>>

(* The send fails, unnoticed, when the caller was dropped. *)
Respond(w) ==
    /\ WorkerGoto(w, "replying", "idle")
    /\ \/ /\ caller[job[w]] = "waiting"
          /\ \E a \in Answer : caller' = [caller EXCEPT ![job[w]] = a]
       \/ /\ caller[job[w]] # "waiting"
          /\ UNCHANGED caller
    /\ job' = [job EXCEPT ![w] = None]
    /\ UNCHANGED <<queue, queueDepth, receiverLock, activeRequests>>

-----------------------------------------------------------------------------

CallerStep(r) ==
    Predict(r) \/ Reserve(r) \/ CountQueued(r) \/ Send(r) \/ Drop(r)

WorkerStep(w) ==
    \/ LockReceiver(w) \/ Receive(w) \/ UncountQueued(w) \/ CountActive(w)
    \/ VlmReturns(w) \/ UncountActive(w) \/ Respond(w)

Next ==
    \/ \E r \in Request : CallerStep(r)
    \/ \E w \in Worker : WorkerStep(w)

Spec == Init /\ [][Next]_vars

(* The channel hands its slots out first come first served, hence SF on    *)
(* Reserve; a VLM call ends by its HTTP timeout.  Nobody has to call       *)
(* predict or to drop a call.  The mutex needs no SF: any worker will do.  *)
Fairness ==
    /\ \A r \in Request :
        /\ SF_vars(Reserve(r))
        /\ WF_vars(CountQueued(r))
        /\ WF_vars(Send(r))
    /\ WF_vars(\E w \in Worker : LockReceiver(w))
    /\ \A w \in Worker :
        /\ WF_vars(Receive(w))
        /\ WF_vars(UncountQueued(w))
        /\ WF_vars(CountActive(w))
        /\ WF_vars(VlmReturns(w))
        /\ WF_vars(UncountActive(w))
        /\ WF_vars(Respond(w))

FairSpec == Spec /\ Fairness

-----------------------------------------------------------------------------
(* Safety.                                                                 *)

(* queue_depth is what it counts: the jobs announced and not yet taken off *)
(* the count.  It is raised before the job can be received, so it never    *)
(* wraps below zero, and it is at most the capacity and one per worker.    *)
DepthCountsJobs ==
    /\ queueDepth = Len(queue) + Cardinality(CallersIn({"counted"}))
                                + Cardinality(WorkersIn({"received"}))
    /\ queueDepth <= QueueCapacity + Cardinality(Worker)

(* active_requests counts the workers in a VLM call, so at most            *)
(* max_concurrency requests are sent at once and available_permits never   *)
(* saturates.                                                              *)
ActiveCountsWorkers ==
    /\ activeRequests = Cardinality(WorkersIn(InCall))
    /\ activeRequests <= Cardinality(Worker)

HoldersOf(r) == {w \in Worker : job[w] = r}
PlacesOf(r)  == {i \in 1..Len(queue) : queue[i] = r}
HasJob(r)    == HoldersOf(r) # {} \/ PlacesOf(r) # {}

(* Who waits for an answer has exactly one job, in the queue or at one     *)
(* worker: no request is lost, none is sent to the VLM service twice.      *)
WaitingHasOneJob ==
    /\ \A r \in Request : caller[r] = "waiting" => HasJob(r)
    /\ \A i, j \in 1..Len(queue) : queue[i] = queue[j] => i = j
    /\ \A w \in Worker, i \in 1..Len(queue) : job[w] # queue[i]
    /\ \A v, w \in Worker : job[v] = job[w] => v = w \/ job[w] = None

(* The mutex is held by the one worker inside recv. *)
OneReceiver ==
    \A w \in Worker : worker[w] = "receiving" <=> receiverLock = w

-----------------------------------------------------------------------------
(* Liveness.                                                               *)

(* Every call of predict is answered, unless its caller leaves, and those  *)
(* that left hold nobody up.                                               *)
PredictAnswered ==
    \A r \in Request : caller[r] = "reserving" ~> caller[r] \in Answer \cup {"dropped"}

-----------------------------------------------------------------------------
(* A claim the code does not keep (see the findings in README.md).         *)

(* A window that fails cancels its remaining requests: once its caller is  *)
(* dropped, a job is not sent to the VLM service any more.                 *)
DroppedNotSent ==
    [][\A w \in Worker :
         worker[w] = "dequeued" /\ worker'[w] = "sending"
           => caller[job[w]] # "dropped"]_vars

-----------------------------------------------------------------------------
(* What a user of the scheduler may rely on, as a pool of calls.           *)

phase ==
    [r \in Request |->
        IF \E w \in HoldersOf(r) : worker[w] \in InCall THEN "running"
        ELSE IF \E w \in HoldersOf(r) : worker[w] = "replying" THEN "ended"
        ELSE IF HasJob(r) THEN "accepted"
        ELSE IF caller[r] \in Answer \cup {"dropped"} THEN "ended"
        ELSE "new"]

Pool == INSTANCE VlmPool WITH
            MaxRunning <- Cardinality(Worker),
            MaxAccepted <- QueueCapacity + Cardinality(Worker)

(* The scheduler implements the pool: bounded acceptance, bounded          *)
(* concurrency, and no request runs twice or after it was answered.        *)
ImplementsPool == Pool!Spec

=============================================================================
