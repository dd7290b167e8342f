---------------------------- MODULE PagePipeline ----------------------------
(***************************************************************************)
(* One parse_task: the uploads one after another, a PDF in windows of      *)
(* pages, the pages of a window side by side, each with a layout request   *)
(* and then its block requests side by side (src/src/parser.rs,            *)
(* src/src/vlm/parser.rs).  Every request needs a permit of the limiter of *)
(* its upload and goes through the shared scheduler, here the pool that    *)
(* VlmScheduler implements.                                                *)
(*                                                                         *)
(* Pages and blocks are futures inside the one future of parse_task: the   *)
(* first error drops all others with their permits, but not the jobs the   *)
(* scheduler has already accepted.                                         *)
(***************************************************************************)
EXTENDS Integers, Sequences, FiniteSets, Functions

CONSTANTS
    Uploads,            \* the uploads, records of a kind and a page count
    StartPage,          \* start_page_id
    EndPage,            \* end_page_id
    WindowSize,         \* processing_window_size
    VlmMaxConcurrency,  \* vlm_max_concurrency.max(1), also the workers of the scheduler
    QueueCapacity,      \* of the scheduler
    MaxPerTask,         \* max_vlm_requests_per_task.max(1)
    MaxBlocks           \* bound: block requests of one page

Kind == {"pdf", "image", "office"}

ASSUME PipelineAssumption ==
    /\ Uploads \in Seq([kind : Kind, pages : Nat])
    /\ StartPage \in Nat /\ EndPage \in Nat /\ StartPage <= EndPage
    /\ WindowSize \in Nat /\ MaxBlocks \in Nat
    /\ \A n \in {VlmMaxConcurrency, QueueCapacity, MaxPerTask} : n \in Nat \ {0}

Upload == 1..Len(Uploads)
(* Page 0 is also the one page of an image. *)
Page   == {0} \cup UNION {0..(Uploads[u].pages - 1) : u \in Upload}
(* Block 0 stands for the layout request of the page. *)
Call   == Upload \X Page \X (0..MaxBlocks)

VARIABLES
    current,     \* the upload in turn
    stage,       \* where parse_task is with it, or its outcome
    nextPage,    \* next_page_id
    page,        \* where the page futures of the window are
    jobs,        \* how many block requests each page of the window has
    call,        \* where the caller of each VLM request is
    permits,     \* the permits taken from the limiter of the upload
    finished,    \* pipeline_results, in order of completion
    output,      \* the pages in the DocumentOutputAccumulator
    documents,   \* the pages of the documents written
    phase        \* the requests in the scheduler

taskVars == <<current, stage, nextPage, output, documents>>
pageVars == <<page, jobs, finished>>
callVars == <<call, permits, phase>>
vars == <<taskVars, pageVars, callVars>>

Pool == INSTANCE VlmPool WITH
            Request <- Call,
            MaxRunning <- VlmMaxConcurrency,
            MaxAccepted <- QueueCapacity + VlmMaxConcurrency

(* A page in one of these occupies a place of buffer_unordered. *)
InPipeline == {"preparing", "layout", "cropping", "extracting"}
(* A request in one of these has a live caller. *)
InProgress == {"waiting", "predicting"}

TypeOK ==
    /\ current \in 1..(Len(Uploads) + 1)
    /\ stage \in {"dispatch", "loading", "parsing", "writing", "done", "failed"}
    /\ nextPage \in Nat
    /\ page \in [Page -> {"absent", "queued", "done"} \cup InPipeline]
    /\ jobs \in [Page -> 0..MaxBlocks]
    /\ call \in [Call -> {"none", "answered", "dropped"} \cup InProgress]
    /\ permits \subseteq Call
    /\ finished \in Seq(Page)
    /\ output \in Seq(Page)
    /\ documents \in Seq(Seq(Page))
    /\ phase \in [Call -> {"new", "accepted", "running", "ended"}]

NoPages == [p \in Page |-> "absent"]

Init ==
    /\ current = 1
    /\ stage = "dispatch"
    /\ nextPage = 0
    /\ page = NoPages
    /\ jobs = [p \in Page |-> 0]
    /\ call = [c \in Call |-> "none"]
    /\ permits = {}
    /\ finished = <<>>
    /\ output = <<>>
    /\ documents = <<>>
    /\ Pool!Init

Lesser(m, n)  == IF m < n THEN m ELSE n
Greater(m, n) == IF m > n THEN m ELSE n

(* The places buffer_unordered has for a stream of n futures. *)
Concurrency(n) == Greater(Lesser(n, VlmMaxConcurrency), 1)

(* pdf_page_window_bounds: the window that starts at `start`, if any. *)
HasWindow(pageCount, start) ==
    pageCount # 0 /\ start <= EndPage /\ start < pageCount
WindowEnd(pageCount, start) ==
    Lesser(Lesser(EndPage, pageCount - 1), start + Greater(WindowSize, 1) - 1)

-----------------------------------------------------------------------------
(* parse_task and parse_upload.                                            *)

(* A new limiter and an empty accumulator for each upload. *)
BeginUpload ==
    /\ stage = "dispatch"
    /\ current \in Upload
    /\ Uploads[current].kind # "office"
    /\ stage' = "loading"
    /\ nextPage' = IF Uploads[current].kind = "pdf" THEN StartPage ELSE 0
    /\ permits' = {}
    /\ output' = <<>>
    /\ UNCHANGED <<current, documents, pageVars, call, phase>>

(* Office uploads are read and written without the VLM service. *)
ParseOffice ==
    /\ stage = "dispatch"
    /\ current \in Upload
    /\ Uploads[current].kind = "office"
    /\ current' = current + 1
    /\ documents' = Append(documents, <<>>)
    /\ UNCHANGED <<stage, nextPage, output, pageVars, callVars>>

FinishTask ==
    /\ stage = "dispatch"
    /\ current \notin Upload
    /\ stage' = "done"
    /\ UNCHANGED <<current, nextPage, output, documents, pageVars, callVars>>

BeginWindow(pages) ==
    /\ stage' = "parsing"
    /\ page' = [p \in Page |-> IF p \in pages THEN "queued" ELSE "absent"]
    /\ UNCHANGED <<current, output, documents, jobs, finished, callVars>>

LoadWindow ==
    /\ stage = "loading"
    /\ Uploads[current].kind = "pdf"
    /\ HasWindow(Uploads[current].pages, nextPage)
    /\ LET last == WindowEnd(Uploads[current].pages, nextPage)
       IN  nextPage' = last + 1 /\ BeginWindow(nextPage..last)

LoadNoWindow ==
    /\ stage = "loading"
    /\ Uploads[current].kind = "pdf"
    /\ ~ HasWindow(Uploads[current].pages, nextPage)
    /\ stage' = "writing"
    /\ UNCHANGED <<current, nextPage, output, documents, pageVars, callVars>>

LoadImage ==
    /\ stage = "loading"
    /\ Uploads[current].kind = "image"
    /\ BeginWindow({0})
    /\ UNCHANGED nextPage

(* sort_by_key(page_index): the results in an order in which no page is    *)
(* before a lesser one.                                                    *)
Ascending(pages) ==
    LET places == DOMAIN pages
        from   == CHOOSE f \in Bijection(places, places) :
                      \A i, j \in places : i < j => pages[f[i]] <= pages[f[j]]
    IN  [i \in places |-> pages[from[i]]]

(* Faulty: the results are appended in order of completion. *)
EndWindowUnsorted ==
    /\ stage = "parsing"
    /\ \A p \in Page : page[p] \in {"absent", "done"}
    /\ output' = output \o finished
    /\ stage' = IF Uploads[current].kind = "pdf" /\ nextPage <= EndPage
                THEN "loading" ELSE "writing"
    /\ page' = NoPages
    /\ jobs' = [p \in Page |-> 0]
    /\ finished' = <<>>
    /\ UNCHANGED <<current, nextPage, documents, callVars>>

(* The results of the window are sorted by page and appended. *)
EndWindow ==
    /\ stage = "parsing"
    /\ \A p \in Page : page[p] \in {"absent", "done"}
    /\ output' = output \o Ascending(finished)
    /\ stage' = IF Uploads[current].kind = "pdf" /\ nextPage <= EndPage
                THEN "loading" ELSE "writing"
    /\ page' = NoPages
    /\ jobs' = [p \in Page |-> 0]
    /\ finished' = <<>>
    /\ UNCHANGED <<current, nextPage, documents, callVars>>

WriteDocument ==
    /\ stage = "writing"
    /\ documents' = Append(documents, output)
    /\ current' = current + 1
    /\ stage' = "dispatch"
    /\ UNCHANGED <<nextPage, output, pageVars, callVars>>

-----------------------------------------------------------------------------
(* parse_page_window and parse_one_page_pipeline.                          *)

PageGoto(p, from, to) ==
    /\ stage = "parsing"
    /\ page[p] = from
    /\ page' = [page EXCEPT ![p] = to]

PagesIn(states) == {p \in Page : page[p] \in states}

(* buffer_unordered starts the futures in the order of the stream. *)
StartPagePipeline(p) ==
    /\ PageGoto(p, "queued", "preparing")
    /\ \A q \in PagesIn({"queued"}) : p <= q
    /\ Cardinality(PagesIn(InPipeline)) < Concurrency(Cardinality(PagesIn({"queued", "done"} \cup InPipeline)))
    /\ UNCHANGED <<taskVars, jobs, finished, callVars>>

Layout(p)   == <<current, p, 0>>
BlocksOf(p) == {<<current, p, b>> : b \in 1..jobs[p]}

AwaitPermit(c) ==
    /\ call' = [call EXCEPT ![c] = "waiting"]
    /\ UNCHANGED <<permits, phase>>

RequestLayout(p) ==
    /\ PageGoto(p, "preparing", "layout")
    /\ AwaitPermit(Layout(p))
    /\ UNCHANGED <<taskVars, jobs, finished>>

LayoutDetected(p) ==
    /\ PageGoto(p, "layout", "cropping")
    /\ call[Layout(p)] = "answered"
    /\ UNCHANGED <<taskVars, jobs, finished, callVars>>

(* Faulty: one job more than there are blocks. *)
PrepareJobsBeyond(p) ==
    /\ PageGoto(p, "cropping", "extracting")
    /\ \E n \in 0..MaxBlocks : jobs' = [jobs EXCEPT ![p] = n + 1]
    /\ UNCHANGED <<taskVars, finished, callVars>>

PrepareJobs(p) ==
    /\ PageGoto(p, "cropping", "extracting")
    /\ \E n \in 0..MaxBlocks : jobs' = [jobs EXCEPT ![p] = n]
    /\ UNCHANGED <<taskVars, finished, callVars>>

(* extract_window_blocks starts the blocks of a page in their order. *)
RequestBlock(p, b) ==
    /\ stage = "parsing" /\ page[p] = "extracting"
    /\ b \in 1..jobs[p]
    /\ \A a \in 1..b : call[<<current, p, a>>] = "none" <=> a = b
    /\ Cardinality({c \in BlocksOf(p) : call[c] \in InProgress}) < Concurrency(jobs[p])
    /\ AwaitPermit(<<current, p, b>>)
    /\ UNCHANGED <<taskVars, pageVars>>

(* Faulty: the first result ends the wait. *)
ExtractedSome(p) ==
    BlocksOf(p) = {} \/ \E c \in BlocksOf(p) : call[c] = "answered"

Extracted(p) == \A c \in BlocksOf(p) : call[c] = "answered"

AssemblePage(p) ==
    /\ PageGoto(p, "extracting", "done")
    /\ Extracted(p)
    /\ finished' = Append(finished, p)
    /\ UNCHANGED <<taskVars, jobs, callVars>>

-----------------------------------------------------------------------------
(* predict_with_limit, and the scheduler behind it.                        *)

(* Faulty: the permit is dropped where it is acquired. *)
AcquireLimiterUnheld(c) ==
    /\ call[c] = "waiting"
    /\ Cardinality(permits) < MaxPerTask
    /\ call' = [call EXCEPT ![c] = "predicting"]
    /\ UNCHANGED <<taskVars, pageVars, permits, phase>>

AcquireLimiter(c) ==
    /\ call[c] = "waiting"
    /\ Cardinality(permits) < MaxPerTask
    /\ call' = [call EXCEPT ![c] = "predicting"]
    /\ permits' = permits \cup {c}
    /\ UNCHANGED <<taskVars, pageVars, phase>>

EnterScheduler(c) ==
    /\ call[c] = "predicting"
    /\ Pool!Accept(c)
    /\ UNCHANGED <<taskVars, pageVars, call, permits>>

(* The future of predict is dropped before it has a place in the queue. *)
LeaveScheduler(c) ==
    /\ call[c] = "dropped"
    /\ Pool!Abandon(c)
    /\ UNCHANGED <<taskVars, pageVars, call, permits>>

(* The workers do not know whether anyone waits for the answer. *)
SchedulerStep(c) ==
    /\ Pool!Start(c) \/ Pool!End(c)
    /\ UNCHANGED <<taskVars, pageVars, call, permits>>

(* Faulty: the permit is kept after the answer. *)
PredictReturnsKeepingPermit(c) ==
    /\ call[c] = "predicting"
    /\ phase[c] = "ended"
    /\ call' = [call EXCEPT ![c] = "answered"]
    /\ UNCHANGED <<taskVars, pageVars, permits, phase>>

(* A text came back and the permit is dropped. *)
PredictReturns(c) ==
    /\ call[c] = "predicting"
    /\ phase[c] = "ended"
    /\ call' = [call EXCEPT ![c] = "answered"]
    /\ permits' = permits \ {c}
    /\ UNCHANGED <<taskVars, pageVars, phase>>

-----------------------------------------------------------------------------
(* Faulty: the requests are tasks of their own and live on. *)
AbortDetached ==
    /\ stage' = "failed"
    /\ page' = NoPages
    /\ UNCHANGED <<current, nextPage, output, documents, jobs, finished, callVars>>

(* The first error is returned through every level, and with it all        *)
(* futures of the window are dropped.                                      *)
Abort ==
    /\ stage' = "failed"
    /\ page' = NoPages
    /\ call' = [c \in Call |-> IF call[c] \in InProgress THEN "dropped" ELSE call[c]]
    /\ permits' = {}
    /\ UNCHANGED <<current, nextPage, output, documents, jobs, finished, phase>>

(* The file type is not supported, an office document cannot be read, the   *)
(* session, the file or a page cannot be loaded, or a file not written.    *)
UploadFails ==
    /\ stage = "dispatch" => current \in Upload
    /\ stage \in {"dispatch", "loading", "writing"}
    /\ Abort

(* An image cannot be decoded, cropped, encoded or written. *)
PageFails(p) ==
    /\ stage = "parsing"
    /\ \/ page[p] \in {"preparing", "cropping"}
       \/ page[p] = "extracting" /\ Extracted(p)
    /\ Abort

(* The VLM service gave an error after its retries. *)
PredictFails(c) ==
    /\ call[c] = "predicting"
    /\ phase[c] = "ended"
    /\ Abort

-----------------------------------------------------------------------------

UploadStep ==
    \/ BeginUpload \/ ParseOffice \/ LoadWindow \/ LoadNoWindow \/ LoadImage
    \/ EndWindow \/ WriteDocument \/ FinishTask \/ UploadFails

PageStep(p) ==
    \/ StartPagePipeline(p) \/ RequestLayout(p) \/ LayoutDetected(p) \/ PrepareJobs(p)
    \/ \E b \in 1..MaxBlocks : RequestBlock(p, b)
    \/ AssemblePage(p) \/ PageFails(p)

CallStep(c) ==
    \/ AcquireLimiter(c) \/ EnterScheduler(c) \/ LeaveScheduler(c)
    \/ SchedulerStep(c) \/ PredictReturns(c) \/ PredictFails(c)

Next ==
    \/ UploadStep
    \/ \E p \in Page : PageStep(p)
    \/ \E c \in Call : CallStep(c)

Spec == Init /\ [][Next]_vars

(* Weaker than what the code has: while anything can be done, something is *)
(* (the runtime polls what is woken, and a VLM call ends by its timeout).  *)
FairSpec == Spec /\ WF_vars(Next)

-----------------------------------------------------------------------------
(* Safety.                                                                 *)

Outstanding == {c \in Call : phase[c] \in {"accepted", "running"}}

(* MINERU_VLM_MAX_REQUESTS_PER_TASK: a task never has more requests queued *)
(* and sent together.  The limiter is new for each upload and forgets      *)
(* requests whose caller was dropped, the scheduler does not: the sum      *)
(* holds because parse_task goes on only when all requests were answered,  *)
(* and never after an error.                                               *)
TaskQuota == Cardinality(Outstanding) <= MaxPerTask

(* When an upload is done with, none of its requests is queued or sent     *)
(* (parse_page_window awaits every page, extract_window_blocks all blocks).*)
NoLeftovers == \A c \in Outstanding : c[1] = current

(* The first error ends the use of the VLM service: requests that wait for *)
(* the limiter or for a place in the queue are not sent any more.          *)
NothingQueuedAfterFailure ==
    [][stage = "failed" =>
         \A c \in Call : phase[c] = "new" => phase'[c] \in {"new", "ended"}]_vars

-----------------------------------------------------------------------------
(* Liveness: the task ends; no page waits for ever for a permit that a     *)
(* block of another page holds, and the window always advances.            *)
TaskEnds == <>(stage \in {"done", "failed"})

-----------------------------------------------------------------------------
(* The pages the client asked for.                                         *)
Requested ==
    [u \in Upload |->
        LET last == Lesser(EndPage, Uploads[u].pages - 1)
        IN  IF Uploads[u].kind = "image" THEN <<0>>
            ELSE IF Uploads[u].kind = "pdf" /\ StartPage <= last
            THEN [i \in 1..(last - StartPage + 1) |-> StartPage + i - 1]
            ELSE <<>>]

Outcome == IF stage \in {"done", "failed"} THEN stage ELSE "running"

Parse == INSTANCE DocumentParse WITH outcome <- Outcome

(* Every document holds the requested pages, each once and in order,       *)
(* whatever the window size and the order in which pages finish.           *)
ImplementsParse == Parse!Spec

=============================================================================
