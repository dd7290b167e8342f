--------------------------- MODULE DocumentParse ---------------------------
(***************************************************************************)
(* What parsing a task promises: the documents of its uploads, in upload   *)
(* order, each with the requested pages in page order, and all of them     *)
(* unless the task fails.  Module PagePipeline implements this.            *)
(***************************************************************************)
EXTENDS Naturals, Sequences

CONSTANT Requested   \* the page indexes asked of each upload

VARIABLES documents, outcome

parseVars == <<documents, outcome>>

Init == documents = <<>> /\ outcome = "running"

Deliver ==
    /\ outcome = "running"
    /\ Len(documents) < Len(Requested)
    /\ documents' = Append(documents, Requested[Len(documents) + 1])
    /\ UNCHANGED outcome

Succeed ==
    /\ outcome = "running"
    /\ documents = Requested
    /\ outcome' = "done"
    /\ UNCHANGED documents

Fail ==
    /\ outcome = "running"
    /\ outcome' = "failed"
    /\ UNCHANGED documents

Next == Deliver \/ Succeed \/ Fail

Spec == Init /\ [][Next]_parseVars
=============================================================================
