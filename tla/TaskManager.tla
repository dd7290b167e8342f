---------------------------- MODULE TaskManager ----------------------------
(***************************************************************************)
(* The task table of src/src/domain/tasks.rs: one entry per submitted      *)
(* task, behind one RwLock.  Every method that takes the write lock is one *)
(* atomic operation here; wait_terminal, which unlocks before it sleeps,   *)
(* is split by its caller (module TaskService) at that point.              *)
(*                                                                         *)
(* The operations below are the methods of TaskManager, to be conjoined    *)
(* with a step of the handler, processor or loop that calls them.          *)
(***************************************************************************)
EXTENDS Naturals, FiniteSets

CONSTANTS
    Task,       \* one id per upload request; the request creates the task of that id
    Getter,     \* GET /tasks/{id}/result requests
    Retention   \* TRUE iff the configured retention is not zero

ASSUME ManagerAssumption ==
    /\ IsFiniteSet(Task)
    /\ Task \cap Getter = {}
    /\ Retention \in BOOLEAN

(* Whoever can hold a ResultReadLease: file_parse for its own task, or a GET. *)
Client == Task \cup Getter

VARIABLES
    status,           \* tasks: the status of each entry, "absent" when the map has none
    submitOrder,      \* ParseTask::submit_order, 0 before submit assigns it
    nextSubmitOrder,  \* next_submit_order
    resultReaders,    \* the ResultReadLeases alive on each entry: active_result_readers
                      \* is the cardinality of this set
    armed,            \* tasks on whose Notify a Notified future was created and not yet woken
    aged              \* entries whose completed_at is at least `retention` in the past

managerVars ==
    <<status, submitOrder, nextSubmitOrder, resultReaders, armed, aged>>

Terminal   == {"completed", "failed"}
Live       == {"pending", "processing"}
TaskStatus == Live \cup Terminal

ManagerTypeOK ==
    /\ status \in [Task -> TaskStatus \cup {"absent"}]
    /\ submitOrder \in [Task -> Nat]
    /\ nextSubmitOrder \in Nat
    /\ resultReaders \in [Task -> SUBSET Client]
    /\ armed \subseteq Task
    /\ aged \subseteq Task

ManagerInit ==
    /\ status = [t \in Task |-> "absent"]
    /\ submitOrder = [t \in Task |-> 0]
    /\ nextSubmitOrder = 1
    /\ resultReaders = [t \in Task |-> {}]
    /\ armed = {}
    /\ aged = {}

(* Faulty: the counter counts down. *)
DrawSubmitOrderDown(t) ==
    /\ submitOrder' = [submitOrder EXCEPT ![t] = nextSubmitOrder]
    /\ nextSubmitOrder' = nextSubmitOrder - 1
    /\ UNCHANGED <<status, resultReaders, armed, aged>>

(* Faulty: the counter is read and not raised. *)
DrawSameSubmitOrder(t) ==
    /\ submitOrder' = [submitOrder EXCEPT ![t] = nextSubmitOrder]
    /\ UNCHANGED <<nextSubmitOrder, status, resultReaders, armed, aged>>

-----------------------------------------------------------------------------
(* submit is two steps: the order is drawn from an atomic counter before   *)
(* the write lock is taken, so entries may be inserted out of order.       *)

DrawSubmitOrder(t) ==
    /\ submitOrder' = [submitOrder EXCEPT ![t] = nextSubmitOrder]
    /\ nextSubmitOrder' = nextSubmitOrder + 1
    /\ UNCHANGED <<status, resultReaders, armed, aged>>

InsertEntry(t) ==
    /\ status' = [status EXCEPT ![t] = "pending"]
    /\ UNCHANGED <<submitOrder, nextSubmitOrder, resultReaders, armed, aged>>

(* notify_waiters wakes the Notified futures that exist, and stores        *)
(* nothing for those created later.                                        *)
NotifyWaiters(tasks) ==
    armed' = armed \ tasks

(* set_processing, set_completed and set_failed share this shape: nothing  *)
(* happens when the entry is gone.                                         *)
SetStatus(t, s) ==
    /\ \/ /\ status[t] # "absent"
          /\ status' = [status EXCEPT ![t] = s]
          /\ NotifyWaiters({t})
       \/ /\ status[t] = "absent"
          /\ UNCHANGED <<status, armed>>
    /\ UNCHANGED <<submitOrder, nextSubmitOrder, resultReaders, aged>>

(* acquire_result_lease, when the entry is there. *)
AcquireResultLease(t, c) ==
    /\ status[t] # "absent"
    /\ resultReaders' = [resultReaders EXCEPT ![t] = @ \cup {c}]
    /\ UNCHANGED <<status, submitOrder, nextSubmitOrder, armed, aged>>

(* Drop for ResultReadLease. *)
DropResultLease(c) ==
    /\ resultReaders' = [t \in Task |-> resultReaders[t] \ {c}]
    /\ UNCHANGED <<status, submitOrder, nextSubmitOrder, armed, aged>>

(* The clock passes completed_at + retention of a finished entry. *)
Age(t) ==
    /\ Retention
    /\ status[t] \in Terminal
    /\ t \notin aged
    /\ aged' = aged \cup {t}
    /\ UNCHANGED <<status, submitOrder, nextSubmitOrder, resultReaders, armed>>

(* Faulty: readers do not keep an entry. *)
ExpiredInUse ==
    {t \in Task : status[t] \in Terminal /\ t \in aged}

(* Faulty: the age is not compared with the retention. *)
ExpiredTooSoon ==
    {t \in Task : status[t] \in Terminal /\ resultReaders[t] = {}}

(* Faulty: a task without completed_at counts as expired. *)
ExpiredUnfinished ==
    {t \in Task : /\ status[t] # "absent"
                  /\ resultReaders[t] = {}
                  /\ status[t] \in Terminal => t \in aged}

(* The entries cleanup_expired selects while it holds the write lock. *)
Expired ==
    {t \in Task : /\ status[t] \in Terminal
                  /\ resultReaders[t] = {}
                  /\ t \in aged}

(* Faulty: nobody is notified of the removal. *)
CleanupInSilence(removed) ==
    /\ Retention
    /\ removed = Expired
    /\ status' = [t \in Task |-> IF t \in removed THEN "absent" ELSE status[t]]
    /\ UNCHANGED <<armed, submitOrder, nextSubmitOrder, resultReaders, aged>>

(* cleanup_expired: removes what it selected and wakes their waiters. *)
CleanupExpired(removed) ==
    /\ Retention
    /\ removed = Expired
    /\ status' = [t \in Task |-> IF t \in removed THEN "absent" ELSE status[t]]
    /\ NotifyWaiters(removed)
    /\ UNCHANGED <<submitOrder, nextSubmitOrder, resultReaders, aged>>

(* queued_ahead of a pending task; it is 0 for every other status. *)
QueuedAhead(t) ==
    IF status[t] # "pending"
    THEN 0
    ELSE Cardinality({u \in Task \ {t} : /\ status[u] = "pending"
                                         /\ submitOrder[u] > 0
                                         /\ submitOrder[u] < submitOrder[t]})
=============================================================================
