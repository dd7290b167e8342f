------------------------- MODULE VlmSchedulerProofs -------------------------
(***************************************************************************)
(* Proofs about VlmScheduler, for any finite set of requests, any number   *)
(* of workers and any queue capacity.                                      *)
(***************************************************************************)
EXTENDS VlmScheduler, DataLemmas, SequenceTheorems

(* The counters and the slots of the channel, as equations. *)
CountInv ==
    /\ queueDepth = Len(queue) + Cardinality(CallersIn({"counted"}))
                                + Cardinality(WorkersIn({"received"}))
    /\ activeRequests = Cardinality(WorkersIn(InCall))
    /\ SlotsTaken <= QueueCapacity

(* TypeOK, with the counters only known to be integers. *)
TypeInv ==
    /\ caller \in [Request -> CallerState]
    /\ queue \in Seq(Request)
    /\ queueDepth \in Int
    /\ worker \in [Worker -> WorkerState]
    /\ job \in [Worker -> Request \cup {None}]
    /\ receiverLock \in Worker \cup {None}
    /\ activeRequests \in Int

LEMMA TypeInvInit == Init => TypeInv
BY SchedulerAssumption DEF Init, TypeInv, CallerState, WorkerState

LEMMA TypeInvNext == TypeInv /\ [Next]_vars => TypeInv'
<1> SUFFICES ASSUME TypeInv, [Next]_vars PROVE TypeInv'
  OBVIOUS
<1> USE SchedulerAssumption DEF TypeInv, CallerState, WorkerState, Reserving, Answer
<1>1. ASSUME NEW r \in Request, CallerStep(r) PROVE TypeInv'
  <2>1. CASE Predict(r)
    BY <2>1 DEF Predict, CallerGoto
  <2>2. CASE Reserve(r)
    BY <2>2 DEF Reserve, CallerGoto
  <2>3. CASE CountQueued(r)
    BY <2>3 DEF CountQueued, CallerGoto
  <2>4. CASE Send(r)
    BY <2>4, AppendProperties DEF Send, CallerGoto
  <2>5. CASE Drop(r)
    BY <2>5 DEF Drop, CallerGoto
  <2> QED BY <1>1, <2>1, <2>2, <2>3, <2>4, <2>5 DEF CallerStep
<1>2. ASSUME NEW w \in Worker, WorkerStep(w) PROVE TypeInv'
  <2>1. CASE LockReceiver(w)
    BY <2>1 DEF LockReceiver, WorkerGoto
  <2>2. CASE Receive(w)
    BY <2>2, HeadTailProperties DEF Receive, WorkerGoto
  <2>3. CASE UncountQueued(w)
    BY <2>3 DEF UncountQueued, WorkerGoto
  <2>4. CASE CountActive(w)
    BY <2>4 DEF CountActive, WorkerGoto
  <2>5. CASE VlmReturns(w)
    BY <2>5 DEF VlmReturns, WorkerGoto
  <2>6. CASE UncountActive(w)
    BY <2>6 DEF UncountActive, WorkerGoto
  <2>7. CASE Respond(w)
    BY <2>7 DEF Respond, WorkerGoto
  <2> QED BY <1>2, <2>1, <2>2, <2>3, <2>4, <2>5, <2>6, <2>7 DEF WorkerStep
<1>3. CASE UNCHANGED vars
  BY <1>3 DEF vars
<1> QED BY <1>1, <1>2, <1>3 DEF Next

-----------------------------------------------------------------------------
(* A caller's step changes the state of that caller only, and a worker's   *)
(* step that of that worker only, so the counts change by at most one.     *)

LEMMA CountTypes ==
    ASSUME NEW P
    PROVE  /\ Cardinality(CallersIn(P)) \in Nat
           /\ Cardinality(WorkersIn(P)) \in Nat
<1>1. IsFiniteSet(Request) /\ IsFiniteSet(Worker)
  BY SchedulerAssumption DEF SchedulerAssumption
<1>2. IsFiniteSet(CallersIn(P)) /\ IsFiniteSet(WorkersIn(P))
  BY <1>1, FS_Subset, CallersIn(P) \in SUBSET Request, WorkersIn(P) \in SUBSET Worker
     DEF CallersIn, WorkersIn
<1> QED BY <1>2, FS_CardinalityType

LEMMA CallerCounts ==
    ASSUME NEW r \in Request, NEW P,
           \A q \in Request : q # r => caller'[q] = caller[q]
    PROVE  /\ Cardinality(CallersIn(P)) \in Nat
           /\ Cardinality(CallersIn(P))' \in Nat
           /\ caller[r] \notin P /\ caller'[r] \in P
                => Cardinality(CallersIn(P))' = Cardinality(CallersIn(P)) + 1
           /\ caller[r] \in P /\ caller'[r] \notin P
                => Cardinality(CallersIn(P))' = Cardinality(CallersIn(P)) - 1
           /\ (caller[r] \in P <=> caller'[r] \in P)
                => Cardinality(CallersIn(P))' = Cardinality(CallersIn(P))
<1>1. CallersIn(P) = In(Request, caller, P) /\ CallersIn(P)' = In(Request, caller', P)
  BY DEF CallersIn, In
<1>2. IsFiniteSet(Request)
  BY SchedulerAssumption DEF SchedulerAssumption
<1>3. Cardinality(In(Request, caller, P)) \in Nat /\ Cardinality(In(Request, caller', P)) \in Nat
  BY <1>2, Recount
<1>4. ASSUME caller[r] \notin P, caller'[r] \in P
      PROVE  Cardinality(In(Request, caller', P)) = Cardinality(In(Request, caller, P)) + 1
  BY <1>2, <1>4, Recount
<1>5. ASSUME caller[r] \in P, caller'[r] \notin P
      PROVE  Cardinality(In(Request, caller', P)) = Cardinality(In(Request, caller, P)) - 1
  BY <1>2, <1>5, Recount
<1>6. ASSUME caller[r] \in P <=> caller'[r] \in P
      PROVE  In(Request, caller', P) = In(Request, caller, P)
  BY <1>6 DEF In
<1> QED BY <1>1, <1>3, <1>4, <1>5, <1>6

LEMMA WorkerCounts ==
    ASSUME NEW w \in Worker, NEW P,
           \A v \in Worker : v # w => worker'[v] = worker[v]
    PROVE  /\ Cardinality(WorkersIn(P)) \in Nat
           /\ Cardinality(WorkersIn(P))' \in Nat
           /\ worker[w] \notin P /\ worker'[w] \in P
                => Cardinality(WorkersIn(P))' = Cardinality(WorkersIn(P)) + 1
           /\ worker[w] \in P /\ worker'[w] \notin P
                => Cardinality(WorkersIn(P))' = Cardinality(WorkersIn(P)) - 1
           /\ (worker[w] \in P <=> worker'[w] \in P)
                => Cardinality(WorkersIn(P))' = Cardinality(WorkersIn(P))
<1>1. WorkersIn(P) = In(Worker, worker, P) /\ WorkersIn(P)' = In(Worker, worker', P)
  BY DEF WorkersIn, In
<1>2. IsFiniteSet(Worker)
  BY SchedulerAssumption DEF SchedulerAssumption
<1>3. Cardinality(In(Worker, worker, P)) \in Nat /\ Cardinality(In(Worker, worker', P)) \in Nat
  BY <1>2, Recount
<1>4. ASSUME worker[w] \notin P, worker'[w] \in P
      PROVE  Cardinality(In(Worker, worker', P)) = Cardinality(In(Worker, worker, P)) + 1
  BY <1>2, <1>4, Recount
<1>5. ASSUME worker[w] \in P, worker'[w] \notin P
      PROVE  Cardinality(In(Worker, worker', P)) = Cardinality(In(Worker, worker, P)) - 1
  BY <1>2, <1>5, Recount
<1>6. ASSUME worker[w] \in P <=> worker'[w] \in P
      PROVE  In(Worker, worker', P) = In(Worker, worker, P)
  BY <1>6 DEF In
<1> QED BY <1>1, <1>3, <1>4, <1>5, <1>6

LEMMA CountInvInit == Init => CountInv
<1> SUFFICES ASSUME Init PROVE CountInv
  OBVIOUS
<1>1. /\ CallersIn({"counted"}) = {} /\ CallersIn(Reserving) = {}
      /\ WorkersIn({"received"}) = {} /\ WorkersIn(InCall) = {}
  BY DEF Init, CallersIn, WorkersIn, Reserving, InCall
<1>2. Cardinality({}) = 0
  BY FS_EmptySet
<1>3. Len(queue) = 0 /\ queueDepth = 0 /\ activeRequests = 0
  BY DEF Init
<1>4. QueueCapacity \in Nat
  BY SchedulerAssumption DEF SchedulerAssumption
<1>5. QueueCapacity >= 0
  BY <1>4
<1>6. Len(queue) + Cardinality(CallersIn(Reserving)) = 0
  BY <1>1, <1>2, <1>3
<1>7. SlotsTaken <= QueueCapacity
  BY <1>5, <1>6 DEF SlotsTaken
<1>8. activeRequests = Cardinality(WorkersIn(InCall))
  BY <1>1, <1>2, <1>3
<1>9. queueDepth = Len(queue) + Cardinality(CallersIn({"counted"}))
                              + Cardinality(WorkersIn({"received"}))
  <2>1. Cardinality(CallersIn({"counted"})) = 0
    BY <1>1, <1>2
  <2>2. Cardinality(WorkersIn({"received"})) = 0
    BY <1>1, <1>2
  <2> QED BY <2>1, <2>2, <1>3
<1> QED BY <1>7, <1>8, <1>9 DEF CountInv

LEMMA CountInvNext == TypeInv /\ CountInv /\ [Next]_vars => CountInv'
<1> SUFFICES ASSUME TypeInv, CountInv, [Next]_vars PROVE CountInv'
  OBVIOUS
<1> DEFINE counted  == Cardinality(CallersIn({"counted"}))
           taken    == Cardinality(CallersIn(Reserving))
           received == Cardinality(WorkersIn({"received"}))
           inCall   == Cardinality(WorkersIn(InCall))
<1>0. /\ queueDepth = Len(queue) + counted + received
      /\ activeRequests = inCall
      /\ Len(queue) + taken <= QueueCapacity
      /\ Len(queue) \in Nat /\ QueueCapacity \in Nat
      /\ queueDepth \in Int /\ activeRequests \in Int
  BY LenProperties, SchedulerAssumption
     DEF CountInv, SlotsTaken, TypeInv, SchedulerAssumption
<1>1. ASSUME NEW r \in Request, CallerStep(r) PROVE CountInv'
  <2>1. /\ UNCHANGED <<worker, activeRequests>>
        /\ \A q \in Request : q # r => caller'[q] = caller[q]
    BY <1>1 DEF CallerStep, Predict, Reserve, CountQueued, Send, Drop, CallerGoto, TypeInv
  <2>2. received' = received /\ inCall' = inCall
    BY <2>1 DEF WorkersIn
  <2>3. /\ counted \in Nat /\ counted' \in Nat
        /\ taken \in Nat /\ taken' \in Nat
        /\ received \in Nat /\ inCall \in Nat
    <3>1. counted \in Nat /\ taken \in Nat /\ received \in Nat /\ inCall \in Nat
      BY CountTypes
    <3>2. counted' \in Nat /\ taken' \in Nat
      BY <2>1, CallerCounts
    <3> QED BY <3>1, <3>2
  <2>4. CASE Predict(r) \/ Drop(r)
    <3>1. /\ caller[r] \notin {"counted"} /\ caller'[r] \notin {"counted"}
          /\ caller[r] \notin Reserving /\ caller'[r] \notin Reserving
          /\ UNCHANGED <<queue, queueDepth>>
      BY <2>4 DEF Predict, Drop, CallerGoto, Reserving, TypeInv
    <3>2. counted' = counted /\ taken' = taken
      BY <2>1, <3>1, CallerCounts
    <3> QED BY <1>0, <2>1, <2>2, <3>1, <3>2 DEF CountInv, SlotsTaken
  <2>5. CASE Reserve(r)
    <3>1. /\ caller[r] \notin {"counted"} /\ caller'[r] \notin {"counted"}
          /\ caller[r] \notin Reserving /\ caller'[r] \in Reserving
          /\ UNCHANGED <<queue, queueDepth>>
          /\ Len(queue) + taken < QueueCapacity
      BY <2>5 DEF Reserve, SlotsTaken, CallerGoto, Reserving, TypeInv
    <3>2. counted' = counted /\ taken' = taken + 1
      BY <2>1, <3>1, CallerCounts
    <3> QED BY <1>0, <2>1, <2>2, <2>3, <3>1, <3>2 DEF CountInv, SlotsTaken
  <2>6. CASE CountQueued(r)
    <3>1. /\ caller[r] \notin {"counted"} /\ caller'[r] \in {"counted"}
          /\ caller[r] \in Reserving /\ caller'[r] \in Reserving
          /\ queue' = queue /\ queueDepth' = queueDepth + 1
      BY <2>6 DEF CountQueued, CallerGoto, Reserving, TypeInv
    <3>2. counted' = counted + 1 /\ taken' = taken
      BY <2>1, <3>1, CallerCounts
    <3> QED BY <1>0, <2>1, <2>2, <2>3, <3>1, <3>2 DEF CountInv, SlotsTaken
  <2>7. CASE Send(r)
    <3>1. /\ caller[r] \in {"counted"} /\ caller'[r] \notin {"counted"}
          /\ caller[r] \in Reserving /\ caller'[r] \notin Reserving
          /\ Len(queue)' = Len(queue) + 1 /\ queueDepth' = queueDepth
      BY <2>7, AppendProperties DEF Send, CallerGoto, Reserving, TypeInv
    <3>2. counted' = counted - 1 /\ taken' = taken - 1
      BY <2>1, <3>1, CallerCounts
    <3> QED BY <1>0, <2>1, <2>2, <2>3, <3>1, <3>2 DEF CountInv, SlotsTaken
  <2> QED BY <1>1, <2>4, <2>5, <2>6, <2>7 DEF CallerStep
<1>2. ASSUME NEW w \in Worker, WorkerStep(w) PROVE CountInv'
  <2>1. \A v \in Worker : v # w => worker'[v] = worker[v]
    BY <1>2 DEF WorkerStep, LockReceiver, Receive, UncountQueued, CountActive,
                VlmReturns, UncountActive, Respond, WorkerGoto, TypeInv
  <2>2. /\ counted \in Nat /\ taken \in Nat
        /\ received \in Nat /\ received' \in Nat
        /\ inCall \in Nat /\ inCall' \in Nat
    <3>1. counted \in Nat /\ taken \in Nat /\ received \in Nat /\ inCall \in Nat
      BY CountTypes
    <3>2. received' \in Nat /\ inCall' \in Nat
      BY <2>1, WorkerCounts
    <3> QED BY <3>1, <3>2
  <2>3. CASE LockReceiver(w)
    <3>1. /\ worker[w] \notin {"received"} /\ worker'[w] \notin {"received"}
          /\ worker[w] \notin InCall /\ worker'[w] \notin InCall
          /\ UNCHANGED <<caller, queue, queueDepth, activeRequests>>
      BY <2>3 DEF LockReceiver, WorkerGoto, InCall, TypeInv
    <3>2. received' = received /\ inCall' = inCall
      BY <2>1, <3>1, WorkerCounts
    <3>3. counted' = counted /\ taken' = taken
      BY <3>1 DEF CallersIn
    <3> QED BY <1>0, <2>2, <3>1, <3>2, <3>3 DEF CountInv, SlotsTaken
  <2>4. CASE Receive(w)
    <3>1. /\ worker[w] \notin {"received"} /\ worker'[w] \in {"received"}
          /\ worker[w] \notin InCall /\ worker'[w] \notin InCall
          /\ UNCHANGED <<caller, queueDepth, activeRequests>>
          /\ Len(queue)' = Len(queue) - 1
      BY <2>4, HeadTailProperties DEF Receive, WorkerGoto, InCall, TypeInv
    <3>2. received' = received + 1 /\ inCall' = inCall
      BY <2>1, <3>1, WorkerCounts
    <3>3. counted' = counted /\ taken' = taken
      BY <3>1 DEF CallersIn
    <3>4. Len(queue)' + taken' <= QueueCapacity
      BY <1>0, <2>2, <3>1, <3>3
    <3>5. queueDepth' = Len(queue)' + counted' + received'
      BY <1>0, <2>2, <3>1, <3>2, <3>3
    <3>6. activeRequests' = inCall'
      BY <1>0, <3>1, <3>2
    <3> QED BY <3>4, <3>5, <3>6 DEF CountInv, SlotsTaken
  <2>5. CASE UncountQueued(w)
    <3>1. /\ worker[w] \in {"received"} /\ worker'[w] \notin {"received"}
          /\ worker[w] \notin InCall /\ worker'[w] \notin InCall
          /\ UNCHANGED <<caller, queue, activeRequests>>
          /\ queueDepth' = queueDepth - 1
      BY <2>5 DEF UncountQueued, WorkerGoto, InCall, TypeInv
    <3>2. received' = received - 1 /\ inCall' = inCall
      BY <2>1, <3>1, WorkerCounts
    <3>3. counted' = counted /\ taken' = taken
      BY <3>1 DEF CallersIn
    <3> QED BY <1>0, <2>2, <3>1, <3>2, <3>3 DEF CountInv, SlotsTaken
  <2>6. CASE CountActive(w)
    <3>1. /\ worker[w] \notin {"received"} /\ worker'[w] \notin {"received"}
          /\ worker[w] \notin InCall /\ worker'[w] \in InCall
          /\ UNCHANGED <<caller, queue, queueDepth>>
          /\ activeRequests' = activeRequests + 1
      BY <2>6 DEF CountActive, WorkerGoto, InCall, TypeInv
    <3>2. received' = received /\ inCall' = inCall + 1
      BY <2>1, <3>1, WorkerCounts
    <3>3. counted' = counted /\ taken' = taken
      BY <3>1 DEF CallersIn
    <3> QED BY <1>0, <2>2, <3>1, <3>2, <3>3 DEF CountInv, SlotsTaken
  <2>7. CASE VlmReturns(w)
    <3>1. /\ worker[w] \notin {"received"} /\ worker'[w] \notin {"received"}
          /\ worker[w] \in InCall /\ worker'[w] \in InCall
          /\ UNCHANGED <<caller, queue, queueDepth, activeRequests>>
      BY <2>7 DEF VlmReturns, WorkerGoto, InCall, TypeInv
    <3>2. received' = received /\ inCall' = inCall
      BY <2>1, <3>1, WorkerCounts
    <3>3. counted' = counted /\ taken' = taken
      BY <3>1 DEF CallersIn
    <3> QED BY <1>0, <2>2, <3>1, <3>2, <3>3 DEF CountInv, SlotsTaken
  <2>8. CASE UncountActive(w)
    <3>1. /\ worker[w] \notin {"received"} /\ worker'[w] \notin {"received"}
          /\ worker[w] \in InCall /\ worker'[w] \notin InCall
          /\ UNCHANGED <<caller, queue, queueDepth>>
          /\ activeRequests' = activeRequests - 1
      BY <2>8 DEF UncountActive, WorkerGoto, InCall, TypeInv
    <3>2. received' = received /\ inCall' = inCall - 1
      BY <2>1, <3>1, WorkerCounts
    <3>3. counted' = counted /\ taken' = taken
      BY <3>1 DEF CallersIn
    <3> QED BY <1>0, <2>2, <3>1, <3>2, <3>3 DEF CountInv, SlotsTaken
  <2>9. CASE Respond(w)
    <3>1. /\ worker[w] \notin {"received"} /\ worker'[w] \notin {"received"}
          /\ worker[w] \notin InCall /\ worker'[w] \notin InCall
          /\ UNCHANGED <<queue, queueDepth, activeRequests>>
      BY <2>9 DEF Respond, WorkerGoto, InCall, TypeInv
    <3>2. received' = received /\ inCall' = inCall
      BY <2>1, <3>1, WorkerCounts
    <3>3. /\ CallersIn({"counted"})' = CallersIn({"counted"})
          /\ CallersIn(Reserving)' = CallersIn(Reserving)
      BY <2>9 DEF Respond, CallersIn, Reserving, Answer, TypeInv
    <3> QED BY <1>0, <2>2, <3>1, <3>2, <3>3 DEF CountInv, SlotsTaken
  <2> QED BY <1>2, <2>3, <2>4, <2>5, <2>6, <2>7, <2>8, <2>9 DEF WorkerStep
<1>3. CASE UNCHANGED vars
  BY <1>3, <1>0 DEF vars, CountInv, SlotsTaken, CallersIn, WorkersIn
<1> QED BY <1>1, <1>2, <1>3 DEF Next

-----------------------------------------------------------------------------
(* Who has a job, and where it is.                                         *)

(* The states of a caller whose job was sent. *)
Sent == {"waiting", "dropped"}

(* A worker has a job outside recv, and every job is of a caller that sent *)
(* it.                                                                     *)
JobInv ==
    /\ \A w \in Worker : job[w] = None <=> worker[w] \in {"idle", "receiving"}
    /\ \A w \in Worker : job[w] # None => caller[job[w]] \in Sent
    /\ \A i \in 1..Len(queue) : caller[queue[i]] \in Sent

LEMMA LockInvNext == TypeInv /\ OneReceiver /\ [Next]_vars => OneReceiver'
<1> SUFFICES ASSUME TypeInv, OneReceiver, [Next]_vars PROVE OneReceiver'
  OBVIOUS
<1> USE SchedulerAssumption DEF SchedulerAssumption, TypeInv, OneReceiver
<1>1. ASSUME NEW r \in Request, CallerStep(r) PROVE OneReceiver'
  BY <1>1 DEF CallerStep, Predict, Reserve, CountQueued, Send, Drop
<1>2. ASSUME NEW w \in Worker, WorkerStep(w) PROVE OneReceiver'
  <2>1. CASE LockReceiver(w)
    BY <2>1 DEF LockReceiver, WorkerGoto
  <2>2. CASE Receive(w)
    BY <2>2 DEF Receive, WorkerGoto
  <2>3. CASE UncountQueued(w) \/ CountActive(w) \/ VlmReturns(w)
             \/ UncountActive(w) \/ Respond(w)
    BY <2>3 DEF UncountQueued, CountActive, VlmReturns, UncountActive, Respond, WorkerGoto
  <2> QED BY <1>2, <2>1, <2>2, <2>3 DEF WorkerStep
<1>3. CASE UNCHANGED vars
  BY <1>3 DEF vars
<1> QED BY <1>1, <1>2, <1>3 DEF Next

LEMMA JobInvInit == Init => OneReceiver /\ JobInv /\ WaitingHasOneJob
<1> SUFFICES ASSUME Init PROVE OneReceiver /\ JobInv /\ WaitingHasOneJob
  OBVIOUS
<1> USE SchedulerAssumption DEF SchedulerAssumption, Init
<1>1. Len(queue) = 0
  OBVIOUS
<1>2. OneReceiver
  BY DEF OneReceiver
<1>3. JobInv
  BY <1>1 DEF JobInv
<1>4. WaitingHasOneJob
  BY <1>1 DEF WaitingHasOneJob
<1> QED BY <1>2, <1>3, <1>4

LEMMA JobInvNext ==
    TypeInv /\ JobInv /\ WaitingHasOneJob /\ [Next]_vars
        => JobInv' /\ WaitingHasOneJob'
<1> SUFFICES ASSUME TypeInv, JobInv, WaitingHasOneJob, [Next]_vars
             PROVE  JobInv' /\ WaitingHasOneJob'
  OBVIOUS
<1>0. None \notin Request
  BY SchedulerAssumption DEF SchedulerAssumption
<1>a. /\ Len(queue) \in Nat
      /\ \A i \in 1..Len(queue) : queue[i] \in Request
  BY DEF TypeInv
<1> USE DEF JobInv, Sent, WaitingHasOneJob, HasJob, HoldersOf, PlacesOf
<1>1. ASSUME NEW r \in Request, CallerStep(r) PROVE JobInv' /\ WaitingHasOneJob'
  <2>1. CASE Predict(r)
    BY <2>1, <1>0, <1>a DEF Predict, CallerGoto, TypeInv
  <2>2. CASE Reserve(r)
    BY <2>2, <1>0, <1>a DEF Reserve, CallerGoto, TypeInv
  <2>3. CASE CountQueued(r)
    BY <2>3, <1>0, <1>a DEF CountQueued, CallerGoto, TypeInv
  <2>4. CASE Send(r)
    <3>1. /\ caller[r] = "counted"
          /\ caller' = [caller EXCEPT ![r] = "waiting"]
          /\ UNCHANGED <<worker, job>>
      BY <2>4 DEF Send, CallerGoto
    <3>2. /\ Len(queue)' = Len(queue) + 1
          /\ \A i \in 1..Len(queue) : queue'[i] = queue[i]
          /\ queue'[Len(queue) + 1] = r
      BY <2>4, AppendProperties DEF Send, TypeInv
    <3>3. \A i \in 1..Len(queue) : queue[i] # r
      BY <3>1, <1>a
    <3>4. \A w \in Worker : job[w] # r
      BY <3>1, <1>0
    <3>5. \A i \in 1..Len(queue)' : i \in 1..Len(queue) \/ i = Len(queue) + 1
      BY <3>2, <1>a
    <3>6. JobInv'
      BY <3>1, <3>2, <3>5, <1>0, <1>a DEF TypeInv
    <3>7. \A q \in Request : caller'[q] = "waiting" => HasJob(q)'
      <4> SUFFICES ASSUME NEW q \in Request, caller'[q] = "waiting" PROVE HasJob(q)'
        OBVIOUS
      <4>1. CASE q = r
        BY <4>1, <3>2, <1>a
      <4>2. CASE q # r
        BY <4>2, <3>1, <3>2, <1>a DEF TypeInv
      <4> QED BY <4>1, <4>2
    <3>8. \A i, j \in 1..Len(queue)' : queue'[i] = queue'[j] => i = j
      BY <3>2, <3>3, <3>5
    <3>9. \A w \in Worker, i \in 1..Len(queue)' : job'[w] # queue'[i]
      BY <3>1, <3>2, <3>4, <3>5
    <3> QED BY <3>1, <3>6, <3>7, <3>8, <3>9
  <2>5. CASE Drop(r)
    BY <2>5, <1>0, <1>a DEF Drop, CallerGoto, TypeInv
  <2> QED BY <1>1, <2>1, <2>2, <2>3, <2>4, <2>5 DEF CallerStep
<1>2. ASSUME NEW w \in Worker, WorkerStep(w) PROVE JobInv' /\ WaitingHasOneJob'
  <2>1. CASE LockReceiver(w)
    BY <2>1, <1>0, <1>a DEF LockReceiver, WorkerGoto, TypeInv
  <2>2. CASE Receive(w)
    <3>1. /\ worker[w] = "receiving"
          /\ worker' = [worker EXCEPT ![w] = "received"]
          /\ job' = [job EXCEPT ![w] = queue[1]]
          /\ 1 \in 1..Len(queue)
          /\ caller' = caller
      BY <2>2, HeadTailProperties DEF Receive, WorkerGoto, TypeInv
    <3>2. /\ Len(queue)' = Len(queue) - 1
          /\ \A i \in 1..Len(queue)' : i + 1 \in 1..Len(queue) /\ queue'[i] = queue[i + 1]
          /\ \A i \in 1..Len(queue) : i # 1 => i - 1 \in 1..Len(queue)'
      BY <2>2, HeadTailProperties DEF Receive, TypeInv
    <3>3. /\ job'[w] = queue[1]
          /\ \A v \in Worker : v # w => job'[v] = job[v]
          /\ queue[1] \in Request
      BY <3>1, <1>a DEF TypeInv
    <3>4. JobInv'
      BY <3>1, <3>2, <3>3, <1>0, <1>a DEF TypeInv
    <3>5. \A q \in Request : caller'[q] = "waiting" => HasJob(q)'
      <4> SUFFICES ASSUME NEW q \in Request, caller'[q] = "waiting" PROVE HasJob(q)'
        OBVIOUS
      <4>1. HasJob(q)
        BY <3>1
      <4>2. CASE HoldersOf(q) # {}
        BY <4>2, <3>1, <3>3, <1>0
      <4>3. CASE PlacesOf(q) # {}
        <5>1. PICK i \in 1..Len(queue) : queue[i] = q
          BY <4>3
        <5>2. CASE i = 1
          BY <5>1, <5>2, <3>3
        <5>3. CASE i # 1
          <6>1. i - 1 \in 1..Len(queue)' /\ queue'[i - 1] = queue[(i - 1) + 1]
            BY <5>3, <3>2
          <6>2. (i - 1) + 1 = i
            BY <1>a
          <6> QED BY <5>1, <6>1, <6>2
        <5> QED BY <5>2, <5>3
      <4> QED BY <4>1, <4>2, <4>3
    <3>6. \A i, j \in 1..Len(queue)' : queue'[i] = queue'[j] => i = j
      BY <3>2, <1>a
    <3>7. \A v \in Worker, i \in 1..Len(queue)' : job'[v] # queue'[i]
      BY <3>1, <3>2, <3>3, <1>a
    <3>8. \A u, v \in Worker : job'[u] = job'[v] => u = v \/ job'[u] = None
      BY <3>1, <3>3
    <3> QED BY <3>4, <3>5, <3>6, <3>7, <3>8
  <2>3. CASE UncountQueued(w)
    BY <2>3, <1>0, <1>a DEF UncountQueued, WorkerGoto, TypeInv
  <2>4. CASE CountActive(w)
    BY <2>4, <1>0, <1>a DEF CountActive, WorkerGoto, TypeInv
  <2>5. CASE VlmReturns(w)
    BY <2>5, <1>0, <1>a DEF VlmReturns, WorkerGoto, TypeInv
  <2>6. CASE UncountActive(w)
    BY <2>6, <1>0, <1>a DEF UncountActive, WorkerGoto, TypeInv
  <2>7. CASE Respond(w)
    <3>1. /\ worker[w] = "replying"
          /\ worker' = [worker EXCEPT ![w] = "idle"]
          /\ job' = [job EXCEPT ![w] = None]
          /\ queue' = queue
          /\ job[w] \in Request
      BY <2>7 DEF Respond, WorkerGoto, TypeInv
    <3>2. /\ \A q \in Request : q # job[w] => caller'[q] = caller[q]
          /\ caller'[job[w]] # "waiting"
      BY <2>7, <3>1 DEF Respond, Answer, TypeInv
    <3>3. JobInv'
      BY <3>1, <3>2, <1>0, <1>a DEF TypeInv
    <3>4. \A q \in Request : caller'[q] = "waiting" => HasJob(q)'
      BY <3>1, <3>2, <1>0 DEF TypeInv
    <3> QED BY <3>1, <3>3, <3>4, <1>0, <1>a DEF TypeInv
  <2> QED BY <1>2, <2>1, <2>2, <2>3, <2>4, <2>5, <2>6, <2>7 DEF WorkerStep
<1>3. CASE UNCHANGED vars
  BY <1>3 DEF vars
<1> QED BY <1>1, <1>2, <1>3 DEF Next

-----------------------------------------------------------------------------
(* The inductive invariant.                                                *)

IndInv == TypeInv /\ CountInv /\ OneReceiver /\ JobInv /\ WaitingHasOneJob

THEOREM Induction == Spec => []IndInv
<1>1. Init => IndInv
  BY TypeInvInit, CountInvInit, JobInvInit DEF IndInv
<1>2. IndInv /\ [Next]_vars => IndInv'
  BY TypeInvNext, CountInvNext, LockInvNext, JobInvNext DEF IndInv
<1> QED BY <1>1, <1>2, PTL DEF Spec

(* The bounds that follow from the equations of CountInv. *)
LEMMA CounterBounds ==
    ASSUME TypeInv, CountInv
    PROVE  /\ queueDepth \in Nat
           /\ queueDepth <= QueueCapacity + Cardinality(Worker)
           /\ activeRequests \in Nat
           /\ activeRequests <= Cardinality(Worker)
<1>1. IsFiniteSet(Request) /\ IsFiniteSet(Worker) /\ QueueCapacity \in Nat
  BY SchedulerAssumption DEF SchedulerAssumption
<1>2. Cardinality(CallersIn({"counted"})) <= Cardinality(CallersIn(Reserving))
  <2>1. {"counted"} \subseteq Reserving
    BY DEF Reserving
  <2>2. Cardinality(In(Request, caller, {"counted"})) <= Cardinality(In(Request, caller, Reserving))
    BY <1>1, <2>1, CountBounds
  <2> QED BY <2>2 DEF CallersIn, In
<1>3. \A P : Cardinality(WorkersIn(P)) <= Cardinality(Worker)
  <2> SUFFICES ASSUME NEW P PROVE Cardinality(WorkersIn(P)) <= Cardinality(Worker)
    OBVIOUS
  <2>1. Cardinality(In(Worker, worker, P)) <= Cardinality(Worker)
    BY <1>1, CountBounds
  <2> QED BY <2>1 DEF WorkersIn, In
<1> DEFINE counted  == Cardinality(CallersIn({"counted"}))
           taken    == Cardinality(CallersIn(Reserving))
           received == Cardinality(WorkersIn({"received"}))
           inCall   == Cardinality(WorkersIn(InCall))
<1>4. counted \in Nat /\ taken \in Nat /\ received \in Nat /\ inCall \in Nat
  BY CountTypes
<1>5. Len(queue) \in Nat /\ Cardinality(Worker) \in Nat
  BY <1>1, FS_CardinalityType DEF TypeInv
<1>6. /\ queueDepth = Len(queue) + counted + received
      /\ Len(queue) + taken <= QueueCapacity
      /\ activeRequests = inCall
  BY DEF CountInv, SlotsTaken
<1>7. received <= Cardinality(Worker) /\ inCall <= Cardinality(Worker)
  BY <1>3
<1>8. counted <= taken
  BY <1>2
<1> HIDE DEF counted, taken, received, inCall
<1>9. queueDepth \in Nat /\ activeRequests \in Nat
  BY <1>4, <1>5, <1>6
<1>10. queueDepth <= QueueCapacity + Cardinality(Worker)
  BY <1>1, <1>4, <1>5, <1>6, <1>7, <1>8
<1>11. activeRequests <= Cardinality(Worker)
  BY <1>6, <1>7
<1> QED BY <1>9, <1>10, <1>11

(* Every variable keeps its type; in particular the two counters, which    *)
(* the code keeps as unsigned atomics, never wrap below zero.              *)
THEOREM TypeCorrect == Spec => []TypeOK
<1>1. IndInv => TypeOK
  BY CounterBounds DEF IndInv, TypeInv, TypeOK
<1> QED BY <1>1, Induction, PTL

(* queue_depth counts the announced jobs, within capacity plus workers. *)
THEOREM DepthCorrect == Spec => []DepthCountsJobs
<1>1. IndInv => DepthCountsJobs
  BY CounterBounds DEF IndInv, CountInv, DepthCountsJobs
<1> QED BY <1>1, Induction, PTL

(* active_requests counts the VLM calls, at most one per worker. *)
THEOREM ActiveCorrect == Spec => []ActiveCountsWorkers
<1>1. IndInv => ActiveCountsWorkers
  BY CounterBounds DEF IndInv, CountInv, ActiveCountsWorkers
<1> QED BY <1>1, Induction, PTL

(* No job is lost or doubled on its way from predict to a worker. *)
THEOREM OneJobEach == Spec => []WaitingHasOneJob
<1>1. IndInv => WaitingHasOneJob
  BY DEF IndInv
<1> QED BY <1>1, Induction, PTL

(* The shared receiver is held by one worker, the one inside recv. *)
THEOREM ReceiverExclusive == Spec => []OneReceiver
<1>1. IndInv => OneReceiver
  BY DEF IndInv
<1> QED BY <1>1, Induction, PTL

-----------------------------------------------------------------------------
(* Refinement of VlmPool.                                                  *)

(* The phase of a request, by where its job is. *)
HeldPhase(w) ==
    IF worker[w] \in InCall THEN "running"
    ELSE IF worker[w] = "replying" THEN "ended" ELSE "accepted"

JoblessPhase(r) ==
    IF caller[r] \in Answer \cup {"dropped"} THEN "ended" ELSE "new"

PhaseByPlace ==
    /\ \A w \in Worker : job[w] # None => phase[job[w]] = HeldPhase(w)
    /\ \A i \in 1..Len(queue) : phase[queue[i]] = "accepted"
    /\ \A r \in Request : ~HasJob(r) => phase[r] = JoblessPhase(r)

LEMMA PhaseIs == IndInv => PhaseByPlace
<1> SUFFICES ASSUME IndInv PROVE PhaseByPlace
  OBVIOUS
<1> USE DEF IndInv, TypeInv, JobInv, WaitingHasOneJob, HoldersOf, PlacesOf, HasJob
<1>0. None \notin Request
  BY SchedulerAssumption DEF SchedulerAssumption
<1>1. ASSUME NEW w \in Worker, job[w] # None PROVE phase[job[w]] = HeldPhase(w)
  <2>1. job[w] \in Request /\ HoldersOf(job[w]) = {w}
    BY <1>1
  <2>2. HasJob(job[w])
    BY <2>1
  <2> QED BY <2>1, <2>2 DEF phase, HeldPhase
<1>2. ASSUME NEW i \in 1..Len(queue) PROVE phase[queue[i]] = "accepted"
  <2>1. queue[i] \in Request /\ HoldersOf(queue[i]) = {}
    BY <1>2
  <2>2. HasJob(queue[i])
    BY <1>2
  <2> QED BY <2>1, <2>2 DEF phase
<1>3. ASSUME NEW r \in Request, ~HasJob(r) PROVE phase[r] = JoblessPhase(r)
  <2>1. HoldersOf(r) = {}
    BY <1>3
  <2> QED BY <1>3, <2>1 DEF phase, JoblessPhase
<1> QED BY <1>1, <1>2, <1>3 DEF PhaseByPlace

(* A request has a worker, a place in the queue, or no job. *)
LEMMA Placed ==
    ASSUME NEW r \in Request
    PROVE  \/ \E w \in Worker : job[w] = r
           \/ \E i \in 1..Len(queue) : queue[i] = r
           \/ ~HasJob(r)
BY DEF HasJob, HoldersOf, PlacesOf

(* What is accepted is in the queue or at a worker, so a free slot bounds  *)
(* it below the pool's limit.                                              *)
LEMMA AcceptedBound ==
    ASSUME IndInv, Len(queue) < QueueCapacity
    PROVE  Cardinality({r \in Request : phase[r] = "accepted"})
                < QueueCapacity + Cardinality(Worker)
<1> DEFINE Queued == {queue[i] : i \in 1..Len(queue)}
           Held   == {job[w] : w \in Worker}
           Accepted == {r \in Request : phase[r] = "accepted"}
<1>1. IsFiniteSet(Worker) /\ QueueCapacity \in Nat /\ Len(queue) \in Nat
  BY SchedulerAssumption DEF SchedulerAssumption, IndInv, TypeInv
<1>2. IsFiniteSet(1..Len(queue)) /\ Cardinality(1..Len(queue)) = Len(queue)
  BY <1>1, UpTo
<1>3. IsFiniteSet(Queued) /\ Cardinality(Queued) <= Len(queue)
  BY <1>2, HitsAtMost
<1>4. IsFiniteSet(Held) /\ Cardinality(Held) <= Cardinality(Worker)
  BY <1>1, HitsAtMost
<1>5. Accepted \in SUBSET (Queued \cup Held)
  <2> SUFFICES ASSUME NEW r \in Request, phase[r] = "accepted"
               PROVE  r \in Queued \cup Held
    OBVIOUS
  <2>1. ~HasJob(r) => phase[r] = JoblessPhase(r)
    BY PhaseIs DEF PhaseByPlace
  <2>2. HasJob(r)
    BY <2>1 DEF JoblessPhase
  <2> QED BY <2>2, Placed
<1>6. /\ IsFiniteSet(Queued \cup Held)
      /\ Cardinality(Queued \cup Held)
            = Cardinality(Queued) + Cardinality(Held) - Cardinality(Queued \cap Held)
  BY <1>3, <1>4, FS_Union
<1>7. Cardinality(Accepted) <= Cardinality(Queued \cup Held)
  BY <1>5, <1>6, FS_Subset
<1>8. /\ Cardinality(Accepted) \in Nat /\ Cardinality(Queued \cup Held) \in Nat
      /\ Cardinality(Queued) \in Nat /\ Cardinality(Held) \in Nat
      /\ Cardinality(Queued \cap Held) \in Nat /\ Cardinality(Worker) \in Nat
  <2>1. IsFiniteSet(Accepted) /\ IsFiniteSet(Queued \cap Held)
    BY <1>3, <1>5, <1>6, FS_Subset, Queued \cap Held \in SUBSET Queued
  <2> QED BY <1>1, <1>3, <1>4, <1>6, <2>1, FS_CardinalityType
<1> HIDE DEF Queued, Held, Accepted
<1>9. Cardinality(Accepted) < QueueCapacity + Cardinality(Worker)
  BY <1>1, <1>3, <1>4, <1>6, <1>7, <1>8
<1> QED BY <1>9 DEF Accepted

(* A worker about to call leaves one worker less for those that run. *)
LEMMA RunningBound ==
    ASSUME IndInv, NEW w \in Worker, worker[w] = "dequeued"
    PROVE  Cardinality({r \in Request : phase[r] = "running"}) < Cardinality(Worker)
<1> DEFINE Running == {r \in Request : phase[r] = "running"}
           Others  == Worker \ {w}
           Held    == {job[v] : v \in Others}
<1>1. IsFiniteSet(Worker)
  BY SchedulerAssumption DEF SchedulerAssumption
<1>2. IsFiniteSet(Others) /\ Cardinality(Others) = Cardinality(Worker) - 1
  BY <1>1, FS_RemoveElement
<1>3. IsFiniteSet(Held) /\ Cardinality(Held) <= Cardinality(Others)
  BY <1>2, HitsAtMost
<1>4. Running \in SUBSET Held
  <2> SUFFICES ASSUME NEW r \in Request, phase[r] = "running" PROVE r \in Held
    OBVIOUS
  <2>1. PhaseByPlace
    BY PhaseIs
  <2>2. ~(~HasJob(r)) /\ ~(\E i \in 1..Len(queue) : queue[i] = r)
    BY <2>1 DEF PhaseByPlace, JoblessPhase
  <2>3. PICK v \in Worker : job[v] = r
    BY <2>2, Placed
  <2>4. r # None
    BY SchedulerAssumption DEF SchedulerAssumption
  <2>5. phase[r] = HeldPhase(v)
    BY <2>1, <2>3, <2>4 DEF PhaseByPlace
  <2>6. v # w
    BY <2>5 DEF HeldPhase, InCall
  <2> QED BY <2>3, <2>6
<1>5. IsFiniteSet(Running) /\ Cardinality(Running) <= Cardinality(Held)
  BY <1>3, <1>4, FS_Subset
<1>6. /\ Cardinality(Running) \in Nat /\ Cardinality(Held) \in Nat
      /\ Cardinality(Worker) \in Nat /\ Cardinality(Others) \in Nat
  BY <1>1, <1>2, <1>3, <1>5, FS_CardinalityType
<1> HIDE DEF Running, Others, Held
<1>7. Cardinality(Running) < Cardinality(Worker)
  BY <1>2, <1>3, <1>5, <1>6
<1> QED BY <1>7 DEF Running

(* VlmPool's Cardinality is that of this module. *)
LEMMA PoolCardinality == \A S : Pool!Cardinality(S) = Cardinality(S)
BY DEF Pool!Cardinality, Cardinality

LEMMA PoolStep == IndInv /\ IndInv' /\ [Next]_vars => [Pool!Next]_phase
<1> SUFFICES ASSUME IndInv, IndInv', [Next]_vars PROVE [Pool!Next]_phase
  OBVIOUS
<1>1. PhaseByPlace /\ PhaseByPlace'
  BY PhaseIs, PTL
<1>2. /\ TypeInv /\ TypeInv' /\ JobInv /\ WaitingHasOneJob
      /\ None \notin Request
      /\ Len(queue) \in Nat
      /\ \A i \in 1..Len(queue) : queue[i] \in Request
  BY SchedulerAssumption DEF SchedulerAssumption, IndInv, TypeInv
(* It is enough to compare the phases one by one. *)
<1>3. ASSUME \A q \in Request : phase'[q] = phase[q] PROVE UNCHANGED phase
  BY <1>3 DEF phase
<1>4. ASSUME NEW r \in Request, NEW p, phase'[r] = p,
             \A q \in Request : q # r => phase'[q] = phase[q]
      PROVE  phase' = [phase EXCEPT ![r] = p]
  BY <1>4 DEF phase
<1>5. ASSUME NEW r \in Request, CallerStep(r) PROVE [Pool!Next]_phase
  <2>1. CASE Send(r)
    <3>1. /\ caller[r] = "counted" /\ UNCHANGED <<worker, job>>
          /\ \A q \in Request : q # r => caller'[q] = caller[q]
      BY <2>1, <1>2 DEF Send, CallerGoto, TypeInv
    <3>2. /\ Len(queue)' = Len(queue) + 1
          /\ \A i \in 1..Len(queue) : queue'[i] = queue[i]
          /\ queue'[Len(queue) + 1] = r
      BY <2>1, <1>2, AppendProperties DEF Send, TypeInv
    <3>3. ~HasJob(r)
      BY <3>1, <1>2 DEF JobInv, Sent, HasJob, HoldersOf, PlacesOf
    <3>4. phase[r] = "new"
      BY <3>1, <3>3, <1>1 DEF PhaseByPlace, JoblessPhase, Answer
    <3>5. phase'[r] = "accepted"
      <4>1. Len(queue) + 1 \in 1..Len(queue)'
        BY <3>2, <1>2
      <4> QED BY <4>1, <3>2, <1>1 DEF PhaseByPlace
    <3>6. ASSUME NEW q \in Request, q # r PROVE phase'[q] = phase[q]
      <4>1. /\ HoldersOf(q)' = HoldersOf(q)
            /\ PlacesOf(q)' = PlacesOf(q)
        BY <3>1, <3>2, <3>6, <1>2 DEF HoldersOf, PlacesOf
      <4> QED BY <3>1, <3>6, <4>1 DEF phase, HasJob
    <3>7. Cardinality(Pool!InPhase("accepted")) < QueueCapacity + Cardinality(Worker)
      <4>1. SlotsTaken <= QueueCapacity
        BY DEF IndInv, CountInv
      <4>2. Cardinality(In(Request, caller, Reserving)) \in Nat \ {0}
        BY <3>1, CountPositive, SchedulerAssumption DEF SchedulerAssumption, Reserving
      <4>3. In(Request, caller, Reserving) = CallersIn(Reserving)
        BY DEF In, CallersIn
      <4>4. QueueCapacity \in Nat
        BY SchedulerAssumption DEF SchedulerAssumption
      <4>5. Len(queue) < QueueCapacity
        BY <4>1, <4>2, <4>3, <4>4, <1>2 DEF SlotsTaken
      <4> QED BY <4>5, AcceptedBound DEF Pool!InPhase
    <3>8. Pool!Accept(r)
      <4>1. Pool!Move(r, "new", "accepted")
        BY <3>4, <3>5, <3>6, <1>4 DEF Pool!Move
      <4> QED BY <4>1, <3>7, PoolCardinality DEF Pool!Accept
    <3> QED BY <3>8 DEF Pool!Next
  <2>2. CASE Drop(r) /\ caller[r] = "reserving"
    <3>1. /\ UNCHANGED <<queue, worker, job>>
          /\ caller'[r] = "dropped"
          /\ \A q \in Request : q # r => caller'[q] = caller[q]
      BY <2>2, <1>2 DEF Drop, CallerGoto, TypeInv
    <3>2. ~HasJob(r)
      BY <2>2, <1>2 DEF JobInv, Sent, HasJob, HoldersOf, PlacesOf
    <3>3. \A q \in Request : HoldersOf(q)' = HoldersOf(q) /\ HasJob(q)' = HasJob(q)
      BY <3>1 DEF HoldersOf, PlacesOf, HasJob
    <3>4. phase[r] = "new"
      BY <2>2, <3>2, <1>1 DEF PhaseByPlace, JoblessPhase, Answer
    <3>5. phase'[r] = "ended"
      BY <3>1, <3>2, <3>3, <1>1 DEF PhaseByPlace, JoblessPhase
    <3>6. \A q \in Request : q # r => phase'[q] = phase[q]
      BY <3>1, <3>3 DEF phase
    <3>7. Pool!Abandon(r)
      BY <3>4, <3>5, <3>6, <1>4 DEF Pool!Abandon, Pool!Move
    <3> QED BY <3>7 DEF Pool!Next
  <2>3. CASE Predict(r) \/ Reserve(r) \/ CountQueued(r) \/ (Drop(r) /\ caller[r] # "reserving")
    <3>1. /\ UNCHANGED <<queue, worker, job>>
          /\ \A q \in Request : q # r => caller'[q] = caller[q]
          /\ \/ /\ caller[r] \notin Answer \cup {"dropped"}
                /\ caller'[r] \notin Answer \cup {"dropped"}
             \/ caller[r] = "waiting"
      BY <2>3, <1>2 DEF Predict, Reserve, CountQueued, Drop, CallerGoto, TypeInv, Answer
    <3>2. \A q \in Request : HoldersOf(q)' = HoldersOf(q) /\ HasJob(q)' = HasJob(q)
      BY <3>1 DEF HoldersOf, PlacesOf, HasJob
    <3>3. caller[r] = "waiting" => HasJob(r)
      BY <1>2 DEF WaitingHasOneJob
    <3>4. phase'[r] = phase[r]
      BY <3>1, <3>2, <3>3 DEF phase
    <3>5. \A q \in Request : phase'[q] = phase[q]
      BY <3>1, <3>2, <3>4 DEF phase
    <3> QED BY <3>5, <1>3
  <2> QED BY <1>5, <2>1, <2>2, <2>3 DEF CallerStep
<1>6. ASSUME NEW w \in Worker, WorkerStep(w) PROVE [Pool!Next]_phase
  <2>1. CASE LockReceiver(w)
    <3>1. /\ UNCHANGED <<caller, queue, job>>
          /\ \A v \in Worker : job[v] # None => worker'[v] = worker[v]
      BY <2>1, <1>2 DEF LockReceiver, WorkerGoto, TypeInv, JobInv
    <3>2. ASSUME NEW q \in Request PROVE phase'[q] = phase[q]
      <4>1. /\ HoldersOf(q)' = HoldersOf(q) /\ HasJob(q)' = HasJob(q)
            /\ \A v \in HoldersOf(q) : worker'[v] = worker[v]
        BY <3>1, <1>2 DEF HoldersOf, PlacesOf, HasJob
      <4> QED BY <3>1, <4>1 DEF phase
    <3> QED BY <3>2, <1>3
  <2>2. CASE Receive(w)
    <3>1. /\ worker'[w] = "received"
          /\ job[w] = None /\ job'[w] = queue[1]
          /\ \A v \in Worker : v # w => job'[v] = job[v] /\ worker'[v] = worker[v]
          /\ 1 \in 1..Len(queue)
          /\ caller' = caller
      BY <2>2, <1>2, HeadTailProperties DEF Receive, WorkerGoto, TypeInv, JobInv
    <3>2. /\ Len(queue)' = Len(queue) - 1
          /\ \A i \in 1..Len(queue)' : i + 1 \in 1..Len(queue) /\ queue'[i] = queue[i + 1]
          /\ \A i \in 1..Len(queue) : i # 1 => i - 1 \in 1..Len(queue)' /\ queue'[i - 1] = queue[i]
      BY <2>2, <1>2, HeadTailProperties DEF Receive, TypeInv
    <3>3. ASSUME NEW q \in Request PROVE phase'[q] = phase[q]
      <4>1. CASE \E v \in Worker : job[v] = q
        <5>1. PICK v \in Worker : job[v] = q
          BY <4>1
        <5>2. v # w /\ job'[v] = q /\ worker'[v] = worker[v] /\ q # None
          BY <5>1, <3>1, <1>2
        <5> QED BY <5>1, <5>2, <1>1 DEF PhaseByPlace, HeldPhase
      <4>2. CASE \E i \in 1..Len(queue) : queue[i] = q
        <5>1. PICK i \in 1..Len(queue) : queue[i] = q
          BY <4>2
        <5>2. phase[q] = "accepted"
          BY <5>1, <1>1 DEF PhaseByPlace
        <5>3. CASE i = 1
          <6>1. job'[w] = q /\ q # None
            BY <5>1, <5>3, <3>1, <1>2
          <6>2. phase'[q] = HeldPhase(w)'
            BY <6>1, <1>1 DEF PhaseByPlace
          <6> QED BY <5>2, <6>2, <3>1 DEF HeldPhase, InCall
        <5>4. CASE i # 1
          BY <5>1, <5>2, <5>4, <3>2, <1>1 DEF PhaseByPlace
        <5> QED BY <5>3, <5>4
      <4>3. CASE ~HasJob(q)
        <5>1. ~HasJob(q)'
          <6>1. \A v \in Worker : job'[v] # q
            BY <4>3, <3>1 DEF HasJob, HoldersOf, PlacesOf
          <6>2. \A i \in 1..Len(queue)' : queue'[i] # q
            BY <4>3, <3>2 DEF HasJob, PlacesOf
          <6> QED BY <6>1, <6>2 DEF HasJob, HoldersOf, PlacesOf
        <5> QED BY <4>3, <5>1, <3>1, <1>1 DEF PhaseByPlace, JoblessPhase
      <4> QED BY <4>1, <4>2, <4>3, Placed
    <3> QED BY <3>3, <1>3
  <2>3. CASE UncountQueued(w) \/ VlmReturns(w)
    <3>1. /\ UNCHANGED <<caller, queue, job>>
          /\ HeldPhase(w)' = HeldPhase(w)
          /\ \A v \in Worker : v # w => worker'[v] = worker[v]
      BY <2>3, <1>2 DEF UncountQueued, VlmReturns, WorkerGoto, TypeInv, HeldPhase, InCall
    <3>2. ASSUME NEW q \in Request PROVE phase'[q] = phase[q]
      <4>1. CASE \E v \in Worker : job[v] = q
        BY <4>1, <3>1, <1>1, <1>2 DEF PhaseByPlace, HeldPhase
      <4>2. CASE ~(\E v \in Worker : job[v] = q)
        <5>1. HoldersOf(q) = {} /\ HoldersOf(q)' = {} /\ HasJob(q)' = HasJob(q)
          BY <4>2, <3>1 DEF HoldersOf, PlacesOf, HasJob
        <5> QED BY <5>1, <3>1 DEF phase
      <4> QED BY <4>1, <4>2
    <3> QED BY <3>2, <1>3
  <2>4. CASE CountActive(w) \/ UncountActive(w)
    <3>1. /\ UNCHANGED <<caller, queue, job>>
          /\ job[w] \in Request /\ job[w] # None
          /\ \A v \in Worker : v # w => worker'[v] = worker[v]
      BY <2>4, <1>2 DEF CountActive, UncountActive, WorkerGoto, TypeInv, JobInv
    <3>2. ASSUME NEW q \in Request, q # job[w] PROVE phase'[q] = phase[q]
      <4>1. /\ HoldersOf(q)' = HoldersOf(q) /\ HasJob(q)' = HasJob(q)
            /\ \A v \in HoldersOf(q) : worker'[v] = worker[v]
        BY <3>1, <3>2 DEF HoldersOf, PlacesOf, HasJob
      <4> QED BY <3>1, <4>1 DEF phase
    <3>3. phase[job[w]] = HeldPhase(w) /\ phase'[job[w]] = HeldPhase(w)'
      BY <3>1, <1>1 DEF PhaseByPlace
    <3>4. CASE CountActive(w)
      <4>1. worker[w] = "dequeued" /\ worker'[w] = "sending"
        BY <3>4, <1>2 DEF CountActive, WorkerGoto, TypeInv
      <4>2. phase[job[w]] = "accepted" /\ phase'[job[w]] = "running"
        BY <3>3, <4>1 DEF HeldPhase, InCall
      <4>3. Cardinality(Pool!InPhase("running")) < Cardinality(Worker)
        BY <4>1, RunningBound DEF Pool!InPhase
      <4>4. Pool!Start(job[w])
        <5>1. Pool!Move(job[w], "accepted", "running")
          BY <3>1, <3>2, <4>2, <1>4 DEF Pool!Move
        <5> QED BY <5>1, <4>3, PoolCardinality DEF Pool!Start
      <4> QED BY <3>1, <4>4 DEF Pool!Next
    <3>5. CASE UncountActive(w)
      <4>1. worker[w] = "returned" /\ worker'[w] = "replying"
        BY <3>5, <1>2 DEF UncountActive, WorkerGoto, TypeInv
      <4>2. phase[job[w]] = "running" /\ phase'[job[w]] = "ended"
        BY <3>3, <4>1 DEF HeldPhase, InCall
      <4>3. Pool!End(job[w])
        BY <3>1, <3>2, <4>2, <1>4 DEF Pool!End, Pool!Move
      <4> QED BY <3>1, <4>3 DEF Pool!Next
    <3> QED BY <2>4, <3>4, <3>5
  <2>5. CASE Respond(w)
    <3>1. PICK r \in Request : r = job[w]
      BY <2>5, <1>2 DEF Respond, WorkerGoto, TypeInv, JobInv
    <3>2. /\ worker[w] = "replying" /\ queue' = queue
          /\ job' = [job EXCEPT ![w] = None]
          /\ \A v \in Worker : v # w => worker'[v] = worker[v]
      BY <2>5, <1>2 DEF Respond, WorkerGoto, TypeInv
    <3>3. /\ \A q \in Request : q # r => caller'[q] = caller[q]
          /\ caller'[r] \in Answer \cup {"dropped"}
      BY <2>5, <3>1, <3>2, <1>2 DEF Respond, Answer, TypeInv, JobInv, Sent
    <3>4. ASSUME NEW q \in Request, q # r PROVE phase'[q] = phase[q]
      <4>1. /\ HoldersOf(q)' = HoldersOf(q) /\ HasJob(q)' = HasJob(q)
            /\ \A v \in HoldersOf(q) : worker'[v] = worker[v]
        BY <3>1, <3>2, <3>4, <1>2 DEF HoldersOf, PlacesOf, HasJob, TypeInv
      <4> QED BY <3>3, <3>4, <4>1 DEF phase
    <3>5. phase[r] = "ended"
      BY <3>1, <3>2, <1>1, <1>2 DEF PhaseByPlace, HeldPhase, InCall
    <3>6. ~HasJob(r)'
      <4>1. \A v \in Worker : job'[v] # r
        BY <3>1, <3>2, <1>2 DEF WaitingHasOneJob, TypeInv
      <4>2. \A i \in 1..Len(queue) : queue'[i] # r
        BY <3>1, <3>2, <1>2 DEF WaitingHasOneJob
      <4> QED BY <3>2, <4>1, <4>2 DEF HasJob, HoldersOf, PlacesOf
    <3>7. phase'[r] = "ended"
      BY <3>3, <3>6, <1>1 DEF PhaseByPlace, JoblessPhase
    <3> QED BY <3>4, <3>5, <3>7, <1>3
  <2> QED BY <1>6, <2>1, <2>2, <2>3, <2>4, <2>5 DEF WorkerStep
<1>7. CASE UNCHANGED vars
  BY <1>7 DEF vars, phase, HasJob, HoldersOf, PlacesOf
<1> QED BY <1>5, <1>6, <1>7 DEF Next

(* The scheduler implements the abstract pool of calls. *)
THEOREM PoolImplemented == Spec => ImplementsPool
<1>1. Init => Pool!Init
  <2> SUFFICES ASSUME Init PROVE phase = [r \in Request |-> "new"]
    BY DEF Pool!Init
  <2>1. ASSUME NEW r \in Request
        PROVE  HoldersOf(r) = {} /\ ~HasJob(r) /\ caller[r] = "idle"
    <3>1. None \notin Request /\ Len(queue) = 0
      BY SchedulerAssumption DEF SchedulerAssumption, Init
    <3>2. HoldersOf(r) = {}
      BY <3>1 DEF Init, HoldersOf
    <3>3. PlacesOf(r) = {}
      BY <3>1 DEF PlacesOf
    <3> QED BY <3>2, <3>3 DEF HasJob, Init
  <2> QED BY <2>1 DEF phase, Answer
<1> QED BY <1>1, Induction, PoolStep, PTL DEF Spec, ImplementsPool, Pool!Spec
=============================================================================
