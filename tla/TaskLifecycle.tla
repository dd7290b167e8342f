--------------------------- MODULE TaskLifecycle ---------------------------
(***************************************************************************)
(* What the task service promises of one task, seen from outside: the      *)
(* status an API client can observe, the reads of the result in progress   *)
(* and the result files.  Module TaskService implements this.              *)
(***************************************************************************)
CONSTANTS Task, Client

VARIABLES
    life,      \* the status of each task, "unknown" before and "expired" after its entry
    reading,   \* the clients reading the result of each task
    files      \* the task's directory

lifecycleVars == <<life, reading, files>>

Life == {"unknown", "pending", "processing", "completed", "failed", "expired"}

Init ==
    /\ life = [t \in Task |-> "unknown"]
    /\ reading = [t \in Task |-> {}]
    /\ files = [t \in Task |-> "none"]

Move(t, from, to) ==
    /\ life[t] = from
    /\ life' = [life EXCEPT ![t] = to]
    /\ UNCHANGED <<reading, files>>

MakeFiles(t) ==
    /\ life[t] = "unknown"
    /\ files[t] = "none"
    /\ files' = [files EXCEPT ![t] = "present"]
    /\ UNCHANGED <<life, reading>>

Submit(t) == files[t] = "present" /\ Move(t, "unknown", "pending")
Start(t)  == Move(t, "pending", "processing")
Finish(t) == Move(t, "processing", "completed") \/ Move(t, "processing", "failed")

BeginRead(t, c) ==
    /\ life[t] = "completed"
    /\ files[t] = "present"
    /\ reading' = [reading EXCEPT ![t] = @ \cup {c}]
    /\ UNCHANGED <<life, files>>

EndRead(c) ==
    /\ reading' = [t \in Task |-> reading[t] \ {c}]
    /\ UNCHANGED <<life, files>>

(* Finished tasks nobody reads expire, several at once. *)
Expire(tasks) ==
    /\ \A t \in tasks : life[t] \in {"completed", "failed"} /\ reading[t] = {}
    /\ life' = [t \in Task |-> IF t \in tasks THEN "expired" ELSE life[t]]
    /\ UNCHANGED <<reading, files>>

RemoveFiles(t) ==
    /\ life[t] = "expired"
    /\ reading[t] = {}
    /\ files' = [files EXCEPT ![t] = "removed"]
    /\ UNCHANGED <<life, reading>>

Next ==
    \/ \E t \in Task :
         \/ MakeFiles(t) \/ Submit(t) \/ Start(t) \/ Finish(t) \/ RemoveFiles(t)
         \/ \E c \in Client : BeginRead(t, c)
    \/ \E c \in Client : EndRead(c)
    \/ \E tasks \in SUBSET Task : Expire(tasks)

Spec == Init /\ [][Next]_lifecycleVars
=============================================================================
