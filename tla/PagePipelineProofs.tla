------------------------- MODULE PagePipelineProofs -------------------------
(***************************************************************************)
(* Proofs about PagePipeline, for any uploads, window and limits: the      *)
(* per-task limit, the silence after a failure, and the documents, which   *)
(* are those DocumentParse promises.                                       *)
(***************************************************************************)
EXTENDS PagePipeline, DataLemmas

(* The types the argument needs. *)
TypeInv ==
    /\ stage \in {"dispatch", "loading", "parsing", "writing", "done", "failed"}
    /\ current \in 1..(Len(Uploads) + 1)
    /\ stage \in {"loading", "parsing", "writing"} => current \in Upload
    /\ page \in [Page -> {"absent", "queued", "done"} \cup InPipeline]
    /\ jobs \in [Page -> 0..MaxBlocks]
    /\ call \in [Call -> {"none", "answered", "dropped"} \cup InProgress]
    /\ permits \subseteq Call
    /\ phase \in [Call -> {"new", "accepted", "running", "ended"}]

(* The part of a page's pipeline that awaits the request c. *)
Awaited(c) ==
    \/ c[3] = 0 /\ page[c[2]] = "layout"
    \/ c[3] \in 1..jobs[c[2]] /\ page[c[2]] = "extracting"

(* A request has a live caller only while its page awaits it. *)
CallerInv ==
    \A c \in Call :
        call[c] \in InProgress => stage = "parsing" /\ c[1] = current /\ Awaited(c)

(* Until a failure, what the scheduler holds has a caller, and that caller *)
(* has a permit.                                                           *)
PermitInv ==
    /\ \A c \in Call : call[c] = "predicting" => c \in permits
    /\ stage # "failed" => \A c \in Outstanding : call[c] = "predicting"
    /\ IsFiniteSet(permits) /\ Cardinality(permits) <= MaxPerTask

QuotaInv == IsFiniteSet(Outstanding) /\ TaskQuota /\ NoLeftovers

IndInv == TypeInv /\ CallerInv /\ PermitInv /\ QuotaInv

-----------------------------------------------------------------------------

LEMMA PipelineFacts ==
    /\ Len(Uploads) \in Nat /\ MaxBlocks \in Nat
    /\ MaxPerTask \in Nat \ {0}
    /\ Upload = 1..Len(Uploads)
<1>1. MaxBlocks \in Nat /\ Uploads \in Seq([kind : Kind, pages : Nat])
  BY PipelineAssumption DEF PipelineAssumption
<1>2. Len(Uploads) \in Nat
  BY <1>1
<1>3. MaxPerTask \in Nat \ {0}
  BY PipelineAssumption, Zenon DEF PipelineAssumption
<1> QED BY <1>1, <1>2, <1>3 DEF Upload

LEMMA CallParts ==
    /\ \A u \in Upload, p \in Page, b \in 0..MaxBlocks : <<u, p, b>> \in Call
    /\ \A c \in Call : /\ c[1] \in Upload /\ c[2] \in Page /\ c[3] \in 0..MaxBlocks
                       /\ c = <<c[1], c[2], c[3]>>
BY DEF Call

LEMMA InvInit == Init => IndInv
<1> SUFFICES ASSUME Init PROVE IndInv
  OBVIOUS
<1>1. TypeInv
  BY PipelineFacts DEF Init, TypeInv, NoPages, InPipeline, InProgress, Pool!Init
<1>2. CallerInv
  BY DEF Init, CallerInv, InProgress
<1>3. Outstanding = {}
  BY DEF Init, Outstanding, Pool!Init
<1>4. PermitInv
  BY <1>3, FS_EmptySet, PipelineFacts DEF Init, PermitInv
<1>5. QuotaInv
  BY <1>3, FS_EmptySet, PipelineFacts DEF QuotaInv, TaskQuota, NoLeftovers
<1> QED BY <1>1, <1>2, <1>4, <1>5 DEF IndInv

-----------------------------------------------------------------------------
(* Types.                                                                  *)

LEMMA TypeInvNext == TypeInv /\ [Next]_vars => TypeInv'
<1> SUFFICES ASSUME TypeInv, [Next]_vars PROVE TypeInv'
  OBVIOUS
<1> USE PipelineFacts DEF TypeInv, taskVars, pageVars, callVars, InPipeline, InProgress
<1>1. CASE UploadStep
  <2>1. CASE BeginUpload
    BY <2>1 DEF BeginUpload
  <2>2. CASE ParseOffice
    BY <2>2 DEF ParseOffice
  <2>3. CASE LoadWindow
    BY <2>3 DEF LoadWindow, BeginWindow
  <2>4. CASE LoadNoWindow
    BY <2>4 DEF LoadNoWindow
  <2>5. CASE LoadImage
    BY <2>5 DEF LoadImage, BeginWindow
  <2>6. CASE EndWindow
    BY <2>6 DEF EndWindow, NoPages
  <2>7. CASE WriteDocument
    BY <2>7 DEF WriteDocument
  <2>8. CASE FinishTask
    BY <2>8 DEF FinishTask
  <2>9. CASE UploadFails
    BY <2>9 DEF UploadFails, Abort, NoPages
  <2> QED BY <1>1, <2>1, <2>2, <2>3, <2>4, <2>5, <2>6, <2>7, <2>8, <2>9 DEF UploadStep
<1>2. ASSUME NEW p \in Page, PageStep(p) PROVE TypeInv'
  <2> USE DEF PageGoto, AwaitPermit, Layout
  <2>1. CASE StartPagePipeline(p)
    BY <2>1 DEF StartPagePipeline
  <2>2. CASE RequestLayout(p)
    BY <2>2 DEF RequestLayout
  <2>3. CASE LayoutDetected(p)
    BY <2>3 DEF LayoutDetected
  <2>4. CASE PrepareJobs(p)
    BY <2>4 DEF PrepareJobs
  <2>5. ASSUME NEW b \in 1..MaxBlocks, RequestBlock(p, b) PROVE TypeInv'
    BY <2>5 DEF RequestBlock
  <2>6. CASE AssemblePage(p)
    BY <2>6 DEF AssemblePage
  <2>7. CASE PageFails(p)
    BY <2>7 DEF PageFails, Abort, NoPages
  <2> QED BY <1>2, <2>1, <2>2, <2>3, <2>4, <2>5, <2>6, <2>7 DEF PageStep
<1>3. ASSUME NEW c \in Call, CallStep(c) PROVE TypeInv'
  <2> USE DEF Pool!Move
  <2>1. CASE AcquireLimiter(c)
    BY <2>1 DEF AcquireLimiter
  <2>2. CASE EnterScheduler(c)
    BY <2>2 DEF EnterScheduler, Pool!Accept
  <2>3. CASE LeaveScheduler(c)
    BY <2>3 DEF LeaveScheduler, Pool!Abandon
  <2>4. CASE SchedulerStep(c)
    BY <2>4 DEF SchedulerStep, Pool!Start, Pool!End
  <2>5. CASE PredictReturns(c)
    BY <2>5 DEF PredictReturns
  <2>6. CASE PredictFails(c)
    BY <2>6 DEF PredictFails, Abort, NoPages
  <2> QED BY <1>3, <2>1, <2>2, <2>3, <2>4, <2>5, <2>6 DEF CallStep
<1>4. CASE UNCHANGED vars
  BY <1>4 DEF vars
<1> QED BY <1>1, <1>2, <1>3, <1>4 DEF Next

-----------------------------------------------------------------------------
(* Who waits for a request.                                                *)

(* No caller is left when the futures of the window are dropped... *)
LEMMA AbortDropsCallers ==
    ASSUME TypeInv, Abort
    PROVE  /\ \A c \in Call : call'[c] \notin InProgress
           /\ stage' = "failed" /\ permits' = {} /\ phase' = phase /\ current' = current
BY DEF Abort, TypeInv, InProgress

(* ...and none exists outside a window. *)
LEMMA CallerInvUpload ==
    ASSUME TypeInv, CallerInv, UploadStep
    PROVE  /\ \A c \in Call : call[c] \notin InProgress
           /\ \A c \in Call : call'[c] \notin InProgress
<1> USE DEF TypeInv, CallerInv
<1>1. CASE UploadFails
  <2>1. \A c \in Call : call[c] \notin InProgress
    BY <1>1 DEF UploadFails
  <2> QED BY <1>1, <2>1, AbortDropsCallers DEF UploadFails
<1>2. CASE EndWindow
  <2>1. \A c \in Call : page[c[2]] \in {"absent", "done"}
    BY <1>2, CallParts DEF EndWindow
  <2>2. \A c \in Call : call[c] \notin InProgress
    BY <2>1 DEF Awaited
  <2> QED BY <1>2, <2>2 DEF EndWindow, callVars
<1>3. CASE BeginUpload \/ ParseOffice \/ LoadWindow \/ LoadNoWindow \/ LoadImage \/ WriteDocument \/ FinishTask
  BY <1>3 DEF BeginUpload, ParseOffice, LoadWindow, LoadNoWindow, LoadImage, BeginWindow, WriteDocument, FinishTask, callVars
<1> QED BY <1>1, <1>2, <1>3 DEF UploadStep

LEMMA PageStepCases ==
    ASSUME NEW p \in Page, PageStep(p)
    PROVE  \/ StartPagePipeline(p) \/ RequestLayout(p) \/ LayoutDetected(p)
           \/ PrepareJobs(p) \/ AssemblePage(p) \/ PageFails(p)
           \/ \E b \in 1..MaxBlocks : RequestBlock(p, b)
BY DEF PageStep

(* A page moves on only when it awaits nothing. *)
LEMMA CallerInvPage ==
    ASSUME TypeInv, CallerInv, NEW p \in Page, PageStep(p)
    PROVE  CallerInv'
<1> USE CallParts DEF TypeInv, CallerInv, Awaited, PageGoto, taskVars
<1>1. CASE StartPagePipeline(p)
  BY <1>1 DEF StartPagePipeline, callVars
<1>2. CASE RequestLayout(p)
  BY <1>2 DEF RequestLayout, AwaitPermit, Layout
<1>3. CASE LayoutDetected(p)
  <2>1. ASSUME NEW c \in Call, call[c] \in InProgress PROVE c[2] # p
    <3>1. CASE c[2] = p
      <4>1. c = Layout(p)
        BY <1>3, <2>1, <3>1 DEF LayoutDetected, Layout
      <4> QED BY <1>3, <2>1, <4>1 DEF LayoutDetected, InProgress
    <3> QED BY <3>1
  <2> QED BY <1>3, <2>1 DEF LayoutDetected, callVars
<1>4. CASE PrepareJobs(p)
  <2>1. \A c \in Call : call[c] \in InProgress => c[2] # p
    BY <1>4 DEF PrepareJobs
  <2> QED BY <1>4, <2>1 DEF PrepareJobs, callVars
<1>5. ASSUME NEW b \in 1..MaxBlocks, RequestBlock(p, b) PROVE CallerInv'
  <2>1. CASE b \in 1..jobs[p] /\ page[p] = "extracting" /\ stage = "parsing"
    BY <1>5, <2>1 DEF RequestBlock, AwaitPermit, pageVars
  <2> QED BY <1>5, <2>1 DEF RequestBlock
<1>6. CASE AssemblePage(p)
  <2>1. ASSUME NEW c \in Call, call[c] \in InProgress PROVE c[2] # p
    <3>1. CASE c[2] = p
      <4>1. c = <<current, p, c[3]>> /\ c[3] \in 1..jobs[p]
        BY <1>6, <2>1, <3>1 DEF AssemblePage
      <4>2. c \in BlocksOf(p)
        BY <4>1 DEF BlocksOf
      <4> QED BY <1>6, <2>1, <4>2 DEF AssemblePage, Extracted, InProgress
    <3> QED BY <3>1
  <2> QED BY <1>6, <2>1 DEF AssemblePage, callVars
<1>7. CASE PageFails(p)
  BY <1>7, AbortDropsCallers DEF PageFails
<1> QED BY <1>1, <1>2, <1>3, <1>4, <1>5, <1>6, <1>7, PageStepCases

LEMMA CallerInvCall ==
    ASSUME TypeInv, CallerInv, NEW c \in Call, CallStep(c)
    PROVE  CallerInv'
<1> USE DEF TypeInv, CallerInv, Awaited, taskVars, pageVars, InProgress
<1>1. CASE AcquireLimiter(c)
  BY <1>1 DEF AcquireLimiter
<1>2. CASE EnterScheduler(c) \/ LeaveScheduler(c) \/ SchedulerStep(c)
  BY <1>2 DEF EnterScheduler, LeaveScheduler, SchedulerStep
<1>3. CASE PredictReturns(c)
  BY <1>3 DEF PredictReturns
<1>4. CASE PredictFails(c)
  BY <1>4, AbortDropsCallers DEF PredictFails
<1> QED BY <1>1, <1>2, <1>3, <1>4 DEF CallStep

LEMMA CallerInvNext == TypeInv /\ CallerInv /\ [Next]_vars => CallerInv'
<1> SUFFICES ASSUME TypeInv, CallerInv, [Next]_vars PROVE CallerInv'
  OBVIOUS
<1>1. CASE UploadStep
  BY <1>1, CallerInvUpload DEF CallerInv
<1>2. CASE UNCHANGED vars
  BY <1>2 DEF vars, taskVars, pageVars, callVars, CallerInv, Awaited
<1> QED BY <1>1, <1>2, CallerInvPage, CallerInvCall DEF Next

-----------------------------------------------------------------------------
(* Permits, and what the scheduler holds.                                  *)

LEMMA PermitInvUpload ==
    ASSUME TypeInv, CallerInv, PermitInv, UploadStep
    PROVE  PermitInv' /\ phase' = phase
<1> USE DEF PermitInv
<1>1. \A c \in Call : call[c] # "predicting" /\ call'[c] # "predicting"
  BY CallerInvUpload DEF InProgress
<1>2. stage # "failed" /\ phase' = phase
  BY DEF UploadStep, BeginUpload, ParseOffice, LoadWindow, LoadNoWindow, LoadImage, BeginWindow,
         EndWindow, WriteDocument, FinishTask, UploadFails, Abort, callVars
<1>3. Outstanding = {} /\ Outstanding' = {}
  BY <1>1, <1>2 DEF Outstanding
<1>4. permits' = permits \/ permits' = {}
  BY DEF UploadStep, BeginUpload, ParseOffice, LoadWindow, LoadNoWindow, LoadImage, BeginWindow,
         EndWindow, WriteDocument, FinishTask, UploadFails, Abort, callVars
<1>5. IsFiniteSet(permits') /\ Cardinality(permits') <= MaxPerTask
  BY <1>4, FS_EmptySet, PipelineFacts
<1> QED BY <1>1, <1>2, <1>3, <1>5

(* A request the scheduler holds is not made again. *)
LEMMA PermitInvPage ==
    ASSUME TypeInv, CallerInv, PermitInv, NEW p \in Page, PageStep(p)
    PROVE  PermitInv' /\ phase' = phase
<1> USE CallParts DEF PermitInv, PageGoto, taskVars, callVars, Outstanding
<1>1. CASE StartPagePipeline(p)
  BY <1>1 DEF StartPagePipeline
<1>2. CASE RequestLayout(p)
  <2>1. Layout(p) \in Call => call[Layout(p)] # "predicting"
    BY <1>2 DEF RequestLayout, Layout, CallerInv, Awaited, InProgress
  <2> QED BY <1>2, <2>1 DEF RequestLayout, AwaitPermit, TypeInv
<1>3. CASE LayoutDetected(p)
  BY <1>3 DEF LayoutDetected
<1>4. CASE PrepareJobs(p)
  BY <1>4 DEF PrepareJobs
<1>5. ASSUME NEW b \in 1..MaxBlocks, RequestBlock(p, b) PROVE PermitInv' /\ phase' = phase
  <2>1. call[<<current, p, b>>] = "none"
    BY <1>5, PipelineFacts DEF RequestBlock
  <2> QED BY <1>5, <2>1 DEF RequestBlock, AwaitPermit, TypeInv
<1>6. CASE AssemblePage(p)
  BY <1>6 DEF AssemblePage
<1>7. CASE PageFails(p)
  BY <1>7, AbortDropsCallers, FS_EmptySet, PipelineFacts, SMTT(20) DEF PageFails, InProgress
<1> QED BY <1>1, <1>2, <1>3, <1>4, <1>5, <1>6, <1>7, PageStepCases

LEMMA PermitInvCall ==
    ASSUME TypeInv, CallerInv, PermitInv, NEW c \in Call, CallStep(c)
    PROVE  PermitInv'
<1> USE DEF PermitInv, taskVars, pageVars, Outstanding
<1>1. CASE AcquireLimiter(c)
  <2>1. IsFiniteSet(permits') /\ Cardinality(permits') <= MaxPerTask
    <3>1. /\ IsFiniteSet(permits') /\ Cardinality(permits) \in Nat
          /\ \/ Cardinality(permits') = Cardinality(permits)
             \/ Cardinality(permits') = Cardinality(permits) + 1
      BY <1>1, FS_AddElement, FS_CardinalityType DEF AcquireLimiter
    <3>2. Cardinality(permits) < MaxPerTask
      BY <1>1 DEF AcquireLimiter
    <3> QED BY <3>1, <3>2, PipelineFacts
  <2> QED BY <1>1, <2>1 DEF AcquireLimiter, TypeInv
<1>2. CASE EnterScheduler(c)
  BY <1>2 DEF EnterScheduler, Pool!Accept, Pool!Move, TypeInv
<1>3. CASE LeaveScheduler(c) \/ SchedulerStep(c)
  BY <1>3 DEF LeaveScheduler, SchedulerStep, Pool!Abandon, Pool!Start, Pool!End, Pool!Move, TypeInv
<1>4. CASE PredictReturns(c)
  <2>1. IsFiniteSet(permits') /\ Cardinality(permits') <= MaxPerTask
    <3>1. permits' \in SUBSET permits
      BY <1>4 DEF PredictReturns
    <3> QED BY <3>1, FS_Subset, FS_CardinalityType, PipelineFacts
  <2> QED BY <1>4, <2>1 DEF PredictReturns, TypeInv
<1>5. CASE PredictFails(c)
  BY <1>5, AbortDropsCallers, FS_EmptySet, PipelineFacts DEF PredictFails, InProgress
<1> QED BY <1>1, <1>2, <1>3, <1>4, <1>5 DEF CallStep

LEMMA PermitInvNext ==
    TypeInv /\ CallerInv /\ PermitInv /\ [Next]_vars => PermitInv'
<1> SUFFICES ASSUME TypeInv, CallerInv, PermitInv, [Next]_vars PROVE PermitInv'
  OBVIOUS
<1>1. CASE UNCHANGED vars
  BY <1>1 DEF vars, taskVars, callVars, PermitInv, Outstanding
<1> QED BY <1>1, PermitInvUpload, PermitInvPage, PermitInvCall DEF Next

-----------------------------------------------------------------------------
(* After a failure.                                                        *)

LEMMA QuietAfterFailure ==
    ASSUME TypeInv, CallerInv, stage = "failed", [Next]_vars
    PROVE  /\ current' = current /\ stage' = "failed"
           /\ Outstanding' \subseteq Outstanding
           /\ \A c \in Call : phase[c] = "new" => phase'[c] \in {"new", "ended"}
<1> USE DEF Outstanding
<1>1. ~ UploadStep
  BY DEF UploadStep, BeginUpload, ParseOffice, LoadWindow, LoadNoWindow, LoadImage,
         EndWindow, WriteDocument, FinishTask, UploadFails
<1>2. ASSUME NEW p \in Page PROVE ~ PageStep(p)
  BY DEF PageStep, StartPagePipeline, RequestLayout, LayoutDetected, PrepareJobs,
         RequestBlock, AssemblePage, PageFails, PageGoto
<1>3. ASSUME NEW c \in Call, CallStep(c)
      PROVE  LeaveScheduler(c) \/ SchedulerStep(c)
  BY <1>3 DEF CallStep, AcquireLimiter, EnterScheduler, PredictReturns, PredictFails, CallerInv, InProgress
<1>4. ASSUME NEW c \in Call, LeaveScheduler(c) \/ SchedulerStep(c)
      PROVE  /\ current' = current /\ stage' = stage
             /\ \/ phase[c] = "new" /\ phase' = [phase EXCEPT ![c] = "ended"]
                \/ phase[c] = "accepted" /\ phase' = [phase EXCEPT ![c] = "running"]
                \/ phase[c] = "running" /\ phase' = [phase EXCEPT ![c] = "ended"]
  BY <1>4 DEF LeaveScheduler, SchedulerStep, Pool!Abandon, Pool!Start, Pool!End, Pool!Move, taskVars
<1>5. CASE \E c \in Call : CallStep(c)
  BY <1>3, <1>4, <1>5 DEF TypeInv
<1>6. CASE UNCHANGED vars
  BY <1>6 DEF vars, taskVars, callVars
<1> QED BY <1>1, <1>2, <1>5, <1>6 DEF Next

LEMMA FailingStep ==
    ASSUME TypeInv, [Next]_vars, stage # "failed", stage' = "failed"
    PROVE  Outstanding' = Outstanding /\ current' = current
<1>1. ASSUME Abort PROVE Outstanding' = Outstanding /\ current' = current
  BY <1>1 DEF Abort, Outstanding
<1>2. CASE UploadStep
  BY <1>1, <1>2 DEF UploadStep, BeginUpload, ParseOffice, LoadWindow, LoadNoWindow, LoadImage,
         BeginWindow, EndWindow, WriteDocument, FinishTask, UploadFails
<1>3. ASSUME NEW p \in Page, PageStep(p) PROVE Outstanding' = Outstanding /\ current' = current
  BY <1>1, <1>3 DEF PageStep, StartPagePipeline, RequestLayout, LayoutDetected, PrepareJobs,
         RequestBlock, AssemblePage, PageFails, taskVars
<1>4. ASSUME NEW c \in Call, CallStep(c) PROVE Outstanding' = Outstanding /\ current' = current
  BY <1>1, <1>4 DEF CallStep, AcquireLimiter, EnterScheduler, LeaveScheduler, SchedulerStep,
         PredictReturns, PredictFails, taskVars
<1>5. CASE UNCHANGED vars
  BY <1>5 DEF vars, taskVars
<1> QED BY <1>2, <1>3, <1>4, <1>5 DEF Next

LEMMA QuotaInvNext == IndInv /\ [Next]_vars => QuotaInv'
<1> SUFFICES ASSUME IndInv, [Next]_vars PROVE QuotaInv'
  OBVIOUS
<1>1. TypeInv' /\ CallerInv' /\ PermitInv'
  BY TypeInvNext, CallerInvNext, PermitInvNext DEF IndInv
<1>2. CASE stage' # "failed"
  <2>1. Outstanding' \in SUBSET permits' /\ \A c \in Outstanding' : c[1] = current'
    BY <1>1, <1>2 DEF PermitInv, CallerInv, InProgress, Outstanding
  <2>2. IsFiniteSet(Outstanding') /\ Cardinality(Outstanding') <= Cardinality(permits')
    BY <1>1, <2>1, FS_Subset DEF PermitInv
  <2>3. Cardinality(Outstanding') \in Nat /\ Cardinality(permits') \in Nat
    BY <1>1, <2>2, FS_CardinalityType DEF PermitInv
  <2> QED BY <1>1, <2>1, <2>2, <2>3, PipelineFacts DEF PermitInv, QuotaInv, TaskQuota, NoLeftovers
<1>3. CASE stage' = "failed"
  <2>1. Outstanding' \in SUBSET Outstanding /\ current' = current
    <3>1. CASE stage = "failed"
      BY <3>1, QuietAfterFailure DEF IndInv
    <3>2. CASE stage # "failed"
      BY <1>3, <3>2, FailingStep DEF IndInv
    <3> QED BY <3>1, <3>2
  <2>2. IsFiniteSet(Outstanding') /\ Cardinality(Outstanding') <= Cardinality(Outstanding)
    BY <2>1, FS_Subset DEF IndInv, QuotaInv
  <2>3. Cardinality(Outstanding') \in Nat /\ Cardinality(Outstanding) \in Nat
    BY <2>2, FS_CardinalityType DEF IndInv, QuotaInv
  <2> QED BY <2>1, <2>2, <2>3, PipelineFacts DEF IndInv, QuotaInv, TaskQuota, NoLeftovers
<1> QED BY <1>2, <1>3

-----------------------------------------------------------------------------
(* The pages written.                                                      *)

(* The first page asked of upload u, and how many are. *)
First(u)  == IF Uploads[u].kind = "pdf" THEN StartPage ELSE 0
Wanted(u) ==
    LET n == Lesser(EndPage, Uploads[u].pages - 1) - StartPage + 1
    IN  CASE Uploads[u].kind = "image"  -> 1
          [] Uploads[u].kind = "office" -> 0
          [] OTHER                      -> Greater(n, 0)

(* The documents so far are those asked for. *)
DocumentsInv ==
    /\ documents \in Seq(Seq(Page))
    /\ Len(documents) = current - 1
    /\ \A u \in 1..(current - 1) : documents[u] = Requested[u]

(* The accumulator has the requested pages from the first on. *)
OutputInv ==
    /\ output \in Seq(Page) /\ nextPage \in Nat
    /\ stage \in {"loading", "parsing", "writing"} =>
         /\ Uploads[current].kind # "office"
         /\ output = Run(First(current), Len(output))
         /\ Len(output) <= Wanted(current)
    /\ stage = "loading" => nextPage = First(current) + Len(output)
    /\ stage = "loading" /\ Uploads[current].kind = "image" => output = <<>>
    /\ stage = "writing" => Len(output) = Wanted(current)

(* The page after the last one of the window. *)
AfterWindow == IF Uploads[current].kind = "pdf" THEN nextPage ELSE 1

(* The window has the pages that follow, and the results those of its      *)
(* pages that are done, each once.                                         *)
WindowInv ==
    /\ finished \in Seq(Page)
    /\ stage \notin {"parsing", "failed"} => finished = <<>>
    /\ stage = "parsing" =>
         /\ First(current) + Len(output) <= AfterWindow
         /\ AfterWindow - First(current) <= Wanted(current)
         /\ First(current) + Len(output)..AfterWindow - 1 \subseteq Page
         /\ \A p \in Page : page[p] # "absent" <=> p \in First(current) + Len(output)..AfterWindow - 1
         /\ \A p \in Page : page[p] = "done" <=> \E i \in 1..Len(finished) : finished[i] = p
         /\ \A i, j \in 1..Len(finished) : finished[i] = finished[j] => i = j

PagesInv == DocumentsInv /\ OutputInv /\ WindowInv

(* The three change only with the variables they are about. *)
pagesVars == <<current, stage, nextPage, output, documents, page, finished>>

-----------------------------------------------------------------------------

LEMMA UploadFacts ==
    /\ StartPage \in Nat /\ EndPage \in Nat /\ StartPage <= EndPage /\ WindowSize \in Nat
    /\ Page \subseteq Nat /\ 0 \in Page
    /\ \A u \in Upload : /\ Uploads[u].kind \in Kind /\ Uploads[u].pages \in Nat
                         /\ 0..(Uploads[u].pages - 1) \subseteq Page
<1>1. /\ StartPage \in Nat /\ EndPage \in Nat /\ StartPage <= EndPage /\ WindowSize \in Nat
      /\ Uploads \in Seq([kind : Kind, pages : Nat])
  BY PipelineAssumption DEF PipelineAssumption
<1>2. \A u \in Upload : Uploads[u] \in [kind : Kind, pages : Nat]
  BY <1>1, ElementOfSeq DEF Upload
<1> QED BY <1>1, <1>2 DEF Page

LEMMA RequestedRuns ==
    /\ DOMAIN Requested = Upload
    /\ \A u \in Upload : /\ Wanted(u) \in Nat /\ First(u) \in Nat
                         /\ Requested[u] = Run(First(u), Wanted(u))
                         /\ Requested[u] \in Seq(Page)
<1>1. ASSUME NEW u \in Upload
      PROVE  /\ Wanted(u) \in Nat /\ First(u) \in Nat
             /\ Requested[u] = Run(First(u), Wanted(u))
             /\ \A i \in 1..Wanted(u) : First(u) + i - 1 \in Page
  <2> USE UploadFacts DEF First, Wanted, Requested, Run, Lesser, Greater
  <2>1. CASE Uploads[u].kind = "image"
    BY <2>1
  <2>2. CASE Uploads[u].kind = "office"
    BY <2>2
  <2>3. CASE Uploads[u].kind = "pdf" /\ StartPage <= Lesser(EndPage, Uploads[u].pages - 1)
    <3>1. Wanted(u) = Lesser(EndPage, Uploads[u].pages - 1) - StartPage + 1 /\ Wanted(u) \in Nat
      BY <2>3
    <3>2. Wanted(u) + StartPage <= Uploads[u].pages
      BY <3>1
    <3>3. \A i \in 1..Wanted(u) : StartPage + i - 1 \in 0..(Uploads[u].pages - 1)
      BY <3>1, <3>2
    <3> QED BY <2>3, <3>1, <3>3
  <2>4. CASE Uploads[u].kind = "pdf" /\ ~ (StartPage <= Lesser(EndPage, Uploads[u].pages - 1))
    <3>1. Wanted(u) = 0
      BY <2>4
    <3> QED BY <2>4, <3>1
  <2> QED BY <2>1, <2>2, <2>3, <2>4 DEF Kind
<1>2. ASSUME NEW u \in Upload PROVE Requested[u] \in Seq(Page)
  <2>1. Requested[u] \in [1..Wanted(u) -> Page] /\ Wanted(u) \in Nat
    BY <1>1 DEF Run
  <2> QED BY <2>1, SeqDef
<1> QED BY <1>1, <1>2 DEF Requested

(* Sorted, the results of pages a to a + n - 1 are in page order, whatever *)
(* the order in which they came.                                           *)
LEMMA AscendingRun ==
    ASSUME NEW n \in Nat, NEW a \in Int, NEW s \in Bijection(1..n, a..(a + n - 1))
    PROVE  Ascending(s) = Run(a, n)
<1>1. s \in [1..n -> a..(a + n - 1)] /\ \A i, j \in 1..n : s[i] = s[j] => i = j
  BY DEF Bijection, Injection, IsInjective
<1> DEFINE Orders(f) == \A i, j \in 1..n : i < j => s[f[i]] <= s[f[j]]
           g == CHOOSE f \in Bijection(1..n, 1..n) : Orders(f)
<1>2. g \in Bijection(1..n, 1..n) /\ Orders(g)
  BY RunCanBeSorted
<1>3. Ascending(s) = [i \in 1..n |-> s[g[i]]]
  BY <1>1 DEF Ascending
<1> HIDE DEF g
<1>4. g \in [1..n -> 1..n] /\ \A i, j \in 1..n : g[i] = g[j] => i = j
  BY <1>2 DEF Bijection, Injection, IsInjective
<1>5. /\ [i \in 1..n |-> s[g[i]]] \in [1..n -> a..(a + n - 1)]
      /\ \A i, j \in 1..n : i < j => s[g[i]] <= s[g[j]] /\ s[g[i]] # s[g[j]]
  <2>1. ASSUME NEW i \in 1..n, NEW j \in 1..n, i < j
        PROVE  s[g[i]] <= s[g[j]] /\ s[g[i]] # s[g[j]]
    BY <1>1, <1>2, <1>4, <2>1
  <2> QED BY <2>1, <1>1, <1>4
<1>6. PICK sorted : sorted = [i \in 1..n |-> s[g[i]]]
  OBVIOUS
<1>7. sorted \in [1..n -> a..(a + n - 1)]
  BY <1>5, <1>6
<1>8. \A i, j \in 1..n : i < j => sorted[i] <= sorted[j] /\ sorted[i] # sorted[j]
  BY <1>5, <1>6
<1>9. sorted = Run(a, n)
  BY <1>7, <1>8, SortedIsRun
<1> QED BY <1>3, <1>6, <1>9

LEMMA PagesInit == Init => PagesInv
<1> SUFFICES ASSUME Init PROVE PagesInv
  OBVIOUS
<1> USE DEF Init
<1>1. DocumentsInv
  BY EmptySeq DEF DocumentsInv
<1>2. OutputInv
  BY EmptySeq DEF OutputInv
<1>3. WindowInv
  BY EmptySeq DEF WindowInv
<1> QED BY <1>1, <1>2, <1>3 DEF PagesInv

LEMMA PagesUnchanged == PagesInv /\ UNCHANGED pagesVars => PagesInv'
<1> SUFFICES ASSUME PagesInv, UNCHANGED pagesVars PROVE PagesInv'
  OBVIOUS
<1> USE DEF PagesInv, pagesVars
<1>1. DocumentsInv'
  BY DEF DocumentsInv
<1>2. OutputInv'
  BY DEF OutputInv, First, Wanted
<1>3. WindowInv'
  BY DEF WindowInv, First, Wanted, AfterWindow
<1> QED BY <1>1, <1>2, <1>3

(* A failure leaves what was written as it was. *)
LEMMA PagesAbort == PagesInv /\ Abort => PagesInv'
<1> SUFFICES ASSUME PagesInv, Abort PROVE PagesInv'
  OBVIOUS
<1> USE DEF PagesInv, Abort
<1>1. DocumentsInv'
  BY DEF DocumentsInv
<1>2. OutputInv' /\ WindowInv'
  BY DEF OutputInv, WindowInv
<1> QED BY <1>1, <1>2

(* The next document is written. *)
LEMMA DocumentWritten ==
    ASSUME TypeInv, DocumentsInv, current \in Upload,
           documents' = Append(documents, Requested[current]), current' = current + 1
    PROVE  DocumentsInv'
<1> USE DEF DocumentsInv, TypeInv
<1>1. Requested[current] \in Seq(Page)
  BY RequestedRuns
<1>2. current \in Nat \ {0}
  BY PipelineFacts
<1>3. /\ documents' \in Seq(Seq(Page)) /\ Len(documents') = Len(documents) + 1
      /\ \A u \in 1..Len(documents) : documents'[u] = documents[u]
      /\ documents'[Len(documents) + 1] = Requested[current]
  BY <1>1, AppendProperties
<1> QED BY <1>2, <1>3

LEMMA PagesBegin == TypeInv /\ PagesInv /\ BeginUpload => PagesInv'
<1> SUFFICES ASSUME TypeInv, PagesInv, BeginUpload PROVE PagesInv'
  OBVIOUS
<1> USE RequestedRuns, UploadFacts DEF PagesInv, BeginUpload, pageVars
<1>1. DocumentsInv'
  BY DEF DocumentsInv
<1>2. OutputInv'
  BY RunFacts, EmptySeq DEF OutputInv, First, Run, Kind
<1>3. WindowInv'
  BY DEF WindowInv
<1> QED BY <1>1, <1>2, <1>3

LEMMA PagesOffice == TypeInv /\ PagesInv /\ ParseOffice => PagesInv'
<1> SUFFICES ASSUME TypeInv, PagesInv, ParseOffice PROVE PagesInv'
  OBVIOUS
<1> USE DEF PagesInv, ParseOffice, pageVars
<1>1. Requested[current] = <<>>
  BY RequestedRuns, Wanted(current) = 0 DEF Wanted, Run
<1>2. DocumentsInv'
  BY <1>1, DocumentWritten
<1>3. OutputInv' /\ WindowInv'
  BY DEF OutputInv, WindowInv
<1> QED BY <1>2, <1>3

LEMMA PagesWrite == TypeInv /\ PagesInv /\ WriteDocument => PagesInv'
<1> SUFFICES ASSUME TypeInv, PagesInv, WriteDocument PROVE PagesInv'
  OBVIOUS
<1> USE DEF PagesInv, WriteDocument, pageVars
<1>1. current \in Upload /\ output = Requested[current]
  BY RequestedRuns DEF TypeInv, OutputInv
<1>2. DocumentsInv'
  BY <1>1, DocumentWritten
<1>3. OutputInv' /\ WindowInv'
  BY DEF OutputInv, WindowInv
<1> QED BY <1>2, <1>3

(* The window starts after the pages of the accumulator and ends before    *)
(* the last requested page.                                                *)
LEMMA PagesLoad ==
    ASSUME TypeInv, PagesInv, LoadWindow \/ LoadImage
    PROVE  PagesInv'
<1> USE RequestedRuns, UploadFacts DEF PagesInv, TypeInv
<1>1. current \in Upload /\ stage = "loading" /\ Len(output) \in Nat
  BY EmptySeq DEF LoadWindow, LoadImage, OutputInv
<1>2. DocumentsInv'
  BY DEF DocumentsInv, LoadWindow, LoadImage, BeginWindow
<1>3. finished = <<>> /\ Len(finished) = 0
  BY <1>1, EmptySeq DEF WindowInv
<1> DEFINE a == First(current) + Len(output)
<1>4. \E b \in Int :
        /\ a <= b + 1 /\ b + 1 - First(current) <= Wanted(current)
        /\ a..b \subseteq Page
        /\ AfterWindow' = b + 1 /\ nextPage' \in Nat
        /\ BeginWindow(a..b)
  <2>1. CASE LoadImage
    <3>1. a = 0 /\ Wanted(current) = 1 /\ First(current) = 0
      BY <1>1, <2>1, EmptySeq DEF LoadImage, OutputInv, First, Wanted
    <3>2. a..0 = {0}
      BY <3>1
    <3>3. AfterWindow' = 1 /\ nextPage' \in Nat
      BY <2>1 DEF LoadImage, BeginWindow, AfterWindow, OutputInv
    <3>4. BeginWindow(a..0)
      BY <2>1, <3>2 DEF LoadImage
    <3>5. a..0 \subseteq Page
      BY <3>2
    <3>6. a <= 0 + 1 /\ 0 + 1 - First(current) <= Wanted(current)
      BY <3>1
    <3> HIDE DEF a
    <3> QED BY <3>3, <3>4, <3>5, <3>6
  <2>2. CASE LoadWindow
    <3> DEFINE b == WindowEnd(Uploads[current].pages, nextPage)
    <3>1. a = nextPage /\ First(current) = StartPage /\ StartPage <= nextPage
      BY <1>1, <2>2 DEF LoadWindow, OutputInv, First
    <3>2. nextPage <= EndPage /\ nextPage <= Uploads[current].pages - 1
      BY <1>1, <2>2 DEF LoadWindow, HasWindow, OutputInv
    <3>3. b \in Int /\ nextPage <= b /\ b <= EndPage /\ b <= Uploads[current].pages - 1
      <4>1. nextPage \in Nat /\ Uploads[current].pages \in Nat
        BY <1>1 DEF OutputInv
      <4>2. ASSUME NEW pages \in Nat, NEW n \in Nat, n <= EndPage, n <= pages - 1
            PROVE  /\ WindowEnd(pages, n) \in Int /\ n <= WindowEnd(pages, n)
                   /\ WindowEnd(pages, n) <= EndPage /\ WindowEnd(pages, n) <= pages - 1
        BY <4>2 DEF WindowEnd, Lesser, Greater
      <4> QED BY <3>2, <4>1, <4>2
    <3>4. Wanted(current) = Lesser(EndPage, Uploads[current].pages - 1) - StartPage + 1
      <4>1. Uploads[current].kind = "pdf" /\ Uploads[current].pages \in Nat /\ nextPage \in Nat
        BY <1>1, <2>2 DEF LoadWindow, OutputInv
      <4>2. PICK last : last = Lesser(EndPage, Uploads[current].pages - 1)
        OBVIOUS
      <4>3. last \in Int /\ StartPage <= last
        <5>1. EndPage \in Nat /\ StartPage \in Nat
          BY UploadFacts
        <5> QED BY <3>1, <3>2, <4>1, <4>2, <5>1 DEF Lesser
      <4> QED BY <4>1, <4>2, <4>3 DEF Wanted, Greater
    <3>5. b + 1 - First(current) <= Wanted(current)
      <4>1. Uploads[current].pages \in Nat
        BY <1>1
      <4>2. b <= Lesser(EndPage, Uploads[current].pages - 1)
        BY <3>3 DEF Lesser
      <4>3. Lesser(EndPage, Uploads[current].pages - 1) \in Int
        BY <4>1 DEF Lesser
      <4> HIDE DEF b
      <4> QED BY <3>1, <3>3, <3>4, <4>2, <4>3
    <3>6. a..b \subseteq Page
      <4>1. 0 <= a /\ a \in Int
        BY <3>1 DEF OutputInv
      <4> HIDE DEF a, b
      <4>2. a..b \subseteq 0..(Uploads[current].pages - 1)
        BY <1>1, <3>3, <4>1
      <4> QED BY <1>1, <4>2
    <3>7. nextPage' = b + 1 /\ BeginWindow(a..b) /\ current' = current
      BY <2>2, <3>1 DEF LoadWindow, BeginWindow
    <3>8. AfterWindow' = b + 1 /\ nextPage' \in Nat
      BY <2>2, <3>3, <3>7 DEF LoadWindow, AfterWindow, OutputInv
    <3> HIDE DEF a, b
    <3>9. a \in Int /\ a <= b + 1
      BY <3>1, <3>3 DEF OutputInv
    <3> QED BY <3>3, <3>5, <3>6, <3>7, <3>8, <3>9
  <2> QED BY <2>1, <2>2
<1>5. PICK b \in Int :
        /\ a <= b + 1 /\ b + 1 - First(current) <= Wanted(current)
        /\ a..b \subseteq Page
        /\ AfterWindow' = b + 1 /\ nextPage' \in Nat
        /\ BeginWindow(a..b)
  BY <1>4
<1>6. /\ First(current)' = First(current) /\ Wanted(current)' = Wanted(current)
      /\ current' = current /\ output' = output /\ stage' = "parsing" /\ finished' = finished
      /\ page' = [p \in Page |-> IF p \in a..b THEN "queued" ELSE "absent"]
  BY <1>5 DEF BeginWindow, First, Wanted
<1>7. OutputInv'
  BY <1>1, <1>5, <1>6 DEF OutputInv, First, Wanted
<1>8. a' = a
  BY <1>6
<1>9. WindowInv'
  <2>1. \A p \in Page : page'[p] # "absent" <=> p \in a..b
    BY <1>6
  <2>2. \A p \in Page : page'[p] # "done"
    BY <1>6
  <2>3. a <= AfterWindow' /\ AfterWindow' - First(current) <= Wanted(current) /\ AfterWindow' - 1 = b
    <3>1. First(current) \in Nat /\ a \in Int
      BY <1>1
    <3> HIDE DEF a
    <3> QED BY <1>5, <3>1
  <2> QED BY <1>3, <1>5, <1>6, <1>8, <2>1, <2>2, <2>3 DEF WindowInv
<1> QED BY <1>2, <1>7, <1>9


LEMMA PagesNoWindow == TypeInv /\ PagesInv /\ LoadNoWindow => PagesInv'
<1> SUFFICES ASSUME TypeInv, PagesInv, LoadNoWindow PROVE PagesInv'
  OBVIOUS
<1> USE DEF PagesInv, LoadNoWindow, pageVars
<1>1. current \in Upload /\ Uploads[current].pages \in Nat /\ StartPage \in Nat /\ EndPage \in Nat
  BY UploadFacts DEF TypeInv
<1>2. Len(output) = Wanted(current)
  <2>1. /\ nextPage = StartPage + Len(output) /\ Len(output) <= Wanted(current)
        /\ Len(output) \in Nat /\ Wanted(current) \in Nat
    BY <1>1, RequestedRuns, EmptySeq DEF OutputInv, First
  <2>2. Wanted(current) = Greater(Lesser(EndPage, Uploads[current].pages - 1) - StartPage + 1, 0)
    BY <1>1 DEF Wanted
  <2> QED BY <1>1, <2>1, <2>2, SMTT(20) DEF HasWindow, Lesser, Greater
<1>3. DocumentsInv'
  BY DEF DocumentsInv
<1>4. OutputInv'
  BY <1>2 DEF OutputInv, First, Wanted
<1>5. WindowInv'
  BY DEF WindowInv
<1> QED BY <1>3, <1>4, <1>5

(* When all pages of the window are done, its results are those pages, and *)
(* they follow those of the accumulator.                                   *)
LEMMA WindowResults ==
    ASSUME TypeInv, PagesInv, EndWindow
    PROVE  /\ output' = Run(First(current), AfterWindow - First(current))
           /\ Len(output') = AfterWindow - First(current)
           /\ output' \in Seq(Page)
<1> USE DEF PagesInv
<1> DEFINE a == First(current) + Len(output)
           b == AfterWindow - 1
           n == Len(finished)
<1>1. current \in Upload /\ stage = "parsing"
  BY DEF TypeInv, EndWindow
<1>2. /\ First(current) \in Nat /\ Len(output) \in Nat /\ output \in Seq(Page)
      /\ AfterWindow \in Int /\ nextPage \in Nat
      /\ n \in Nat /\ finished \in [1..n -> Page]
  BY <1>1, RequestedRuns, LenProperties DEF OutputInv, WindowInv, AfterWindow
<1>3. /\ a <= b + 1 /\ a..b \subseteq Page
      /\ \A p \in Page : page[p] # "absent" <=> p \in a..b
      /\ \A p \in Page : page[p] = "done" <=> \E i \in 1..n : finished[i] = p
      /\ \A i, j \in 1..n : finished[i] = finished[j] => i = j
  <2>1. AfterWindow - 1 + 1 = AfterWindow
    BY <1>2
  <2> QED BY <1>1, <2>1 DEF WindowInv
<1>4. \A p \in Page : page[p] = "done" <=> p \in a..b
  BY <1>3 DEF EndWindow
<1> HIDE DEF a, b, n
<1>5. finished \in Bijection(1..n, a..b)
  <2>1. finished \in [1..n -> a..b]
    <3>1. ASSUME NEW i \in 1..n PROVE finished[i] \in a..b
      <4>1. finished[i] \in Page
        BY <1>2
      <4> QED BY <4>1, <1>3, <1>4
    <3> QED BY <3>1, <1>2
  <2>2. finished \in Injection(1..n, a..b)
    BY <2>1, <1>3 DEF Injection, IsInjective
  <2>3. finished \in Surjection(1..n, a..b)
    BY <2>1, <1>3, <1>4 DEF Surjection
  <2> QED BY <2>2, <2>3 DEF Bijection
<1>6. a \in Int /\ b \in Int
  BY <1>2 DEF a, b
<1>7. n = b - a + 1
  BY <1>2, <1>3, <1>5, <1>6, RunLength
<1>8. Ascending(finished) = Run(a, n)
  <2>1. a + n - 1 = b
    BY <1>2, <1>6, <1>7
  <2> QED BY <1>2, <1>5, <1>6, <2>1, AscendingRun
<1>9. output' = Run(First(current), Len(output) + n)
  <2>1. output = Run(First(current), Len(output))
    BY <1>1 DEF OutputInv
  <2>2. output' = output \o Run(a, n)
    BY <1>8 DEF EndWindow
  <2>3. Run(First(current), Len(output)) \o Run(a, n) = Run(First(current), Len(output) + n)
    <3>1. \A x \in Int, m, k \in Nat : Run(x, m) \o Run(x + m, k) = Run(x, m + k)
      BY RunContinues
    <3>2. a = First(current) + Len(output)
      BY DEF a
    <3>3. First(current) \in Int /\ Len(output) \in Nat /\ n \in Nat
      BY <1>2
    <3> QED BY <3>1, <3>2, <3>3, Zenon
  <2> QED BY <2>1, <2>2, <2>3
<1>10. Len(output) + n = AfterWindow - First(current) /\ Len(output) + n \in Nat
  BY <1>2, <1>7 DEF a, b
<1>11. Run(a, n) \in Seq(Page)
  <2>1. \A i \in 1..n : a + i - 1 \in a..b
    BY <1>2, <1>6, <1>7
  <2>2. Run(a, n) \in [1..n -> Page]
    BY <2>1, <1>3 DEF Run
  <2> QED BY <2>2, <1>2, SeqDef
<1>12. output' \in Seq(Page)
  BY <1>2, <1>8, <1>11, ConcatProperties DEF EndWindow
<1> QED BY <1>9, <1>10, <1>12, <1>2, RunFacts

LEMMA PagesEndWindow == TypeInv /\ PagesInv /\ EndWindow => PagesInv'
<1> SUFFICES ASSUME TypeInv, PagesInv, EndWindow PROVE PagesInv'
  OBVIOUS
<1> USE DEF PagesInv
<1>1. /\ current \in Upload /\ stage = "parsing" /\ current' = current /\ nextPage' = nextPage
      /\ finished' = <<>> /\ documents' = documents
      /\ Uploads[current].kind \in Kind /\ Uploads[current].pages \in Nat
      /\ StartPage \in Nat /\ EndPage \in Nat /\ nextPage \in Nat
      /\ Uploads[current].kind # "office"
      /\ First(current) \in Nat /\ Wanted(current) \in Nat
      /\ AfterWindow - First(current) <= Wanted(current)
  BY UploadFacts, RequestedRuns DEF TypeInv, EndWindow, OutputInv, WindowInv
<1>2. /\ output' = Run(First(current), AfterWindow - First(current))
      /\ Len(output') = AfterWindow - First(current)
      /\ output' \in Seq(Page)
  BY WindowResults
<1>3. DocumentsInv'
  BY <1>1 DEF DocumentsInv
<1>4. stage' \in {"loading", "writing"}
  BY DEF EndWindow
<1>5. stage' = "loading" => nextPage = First(current) + Len(output') /\ Uploads[current].kind = "pdf"
  BY <1>1, <1>2 DEF EndWindow, AfterWindow
<1>6. stage' = "writing" => Len(output') = Wanted(current)
  <2>1. CASE Uploads[current].kind = "pdf"
    <3>1. AfterWindow = nextPage /\ First(current) = StartPage
      BY <2>1 DEF AfterWindow, First
    <3>2. Wanted(current) = Greater(Lesser(EndPage, Uploads[current].pages - 1) - StartPage + 1, 0)
      BY <1>1, <2>1 DEF Wanted
    <3>3. stage' = "writing" => nextPage > EndPage
      BY <1>1, <2>1 DEF EndWindow
    <3>4. StartPage <= EndPage
      BY UploadFacts
    <3> QED BY <1>1, <1>2, <3>1, <3>2, <3>3, <3>4 DEF Lesser, Greater
  <2>2. CASE Uploads[current].kind = "image"
    BY <1>2, <2>2 DEF AfterWindow, First, Wanted
  <2> QED BY <1>1, <2>1, <2>2 DEF Kind
<1>7. First(current)' = First(current) /\ Wanted(current)' = Wanted(current)
  BY <1>1 DEF First, Wanted
<1>8. OutputInv'
  BY <1>1, <1>2, <1>4, <1>5, <1>6, <1>7 DEF OutputInv
<1>9. WindowInv'
  BY <1>1, <1>4, EmptySeq DEF WindowInv
<1> QED BY <1>3, <1>8, <1>9

(* A page that moves on without being done leaves the results alone. *)
LEMMA PageMoves ==
    ASSUME TypeInv, PagesInv, NEW p \in Page, NEW from \in {"queued"} \cup InPipeline, NEW to \in InPipeline,
           PageGoto(p, from, to), UNCHANGED <<taskVars, finished>>
    PROVE  PagesInv'
<1> USE DEF PagesInv, PageGoto, taskVars, InPipeline
<1>1. DocumentsInv' /\ OutputInv'
  BY DEF DocumentsInv, OutputInv, First, Wanted
<1>2. \A q \in Page : /\ page'[q] # "absent" <=> page[q] # "absent"
                      /\ page'[q] = "done" <=> page[q] = "done"
  BY DEF TypeInv
<1>3. WindowInv'
  BY <1>2 DEF WindowInv, First, Wanted, AfterWindow
<1> QED BY <1>1, <1>3

LEMMA PagesAssemble ==
    ASSUME TypeInv, PagesInv, NEW p \in Page, AssemblePage(p)
    PROVE  PagesInv'
<1> USE DEF PagesInv, AssemblePage, PageGoto, taskVars
<1>1. DocumentsInv' /\ OutputInv'
  BY DEF DocumentsInv, OutputInv, First, Wanted
<1>2. /\ finished \in Seq(Page) /\ finished' = Append(finished, p) /\ stage = "parsing" /\ stage' = stage
      /\ page[p] = "extracting" /\ page' = [page EXCEPT ![p] = "done"]
  BY DEF WindowInv
<1> DEFINE n == Len(finished)
<1>3. /\ finished' \in Seq(Page) /\ n \in Nat /\ Len(finished') = n + 1
      /\ \A i \in 1..n : finished'[i] = finished[i]
      /\ finished'[n + 1] = p
  BY <1>2, AppendProperties, LenProperties
<1>4. \A q \in Page : /\ page'[q] # "absent" <=> page[q] # "absent"
                      /\ page'[q] = "done" <=> page[q] = "done" \/ q = p
  BY <1>2 DEF TypeInv
<1>5. \A i \in 1..n : finished[i] # p
  BY <1>2 DEF WindowInv
<1>6. \A q \in Page : page'[q] = "done" <=> \E i \in 1..(n + 1) : finished'[i] = q
  <2>1. \A q \in Page : page[q] = "done" <=> \E i \in 1..n : finished[i] = q
    BY <1>2 DEF WindowInv
  <2> HIDE DEF n
  <2> QED BY <1>3, <1>4, <2>1
<1>7. \A i, j \in 1..(n + 1) : finished'[i] = finished'[j] => i = j
  <2>1. \A i, j \in 1..n : finished[i] = finished[j] => i = j
    BY <1>2 DEF WindowInv
  <2>2. \A i \in 1..(n + 1) : i \in 1..n \/ i = n + 1
    BY <1>3
  <2> HIDE DEF n
  <2> QED BY <1>3, <1>5, <2>1, <2>2
<1>8. WindowInv'
  <2>1. First(current)' = First(current) /\ Wanted(current)' = Wanted(current) /\ AfterWindow' = AfterWindow
    BY DEF First, Wanted, AfterWindow
  <2>2. output' = output
    OBVIOUS
  <2> QED BY <1>2, <1>3, <1>4, <1>6, <1>7, <2>1, <2>2 DEF WindowInv
<1> QED BY <1>1, <1>8

LEMMA PagesUpload ==
    ASSUME TypeInv, PagesInv, UploadStep
    PROVE  PagesInv'
<1>1. CASE FinishTask
  <2>1. DocumentsInv'
    BY <1>1 DEF FinishTask, PagesInv, DocumentsInv
  <2>2. OutputInv' /\ WindowInv'
    BY <1>1 DEF FinishTask, PagesInv, OutputInv, WindowInv, pageVars
  <2> QED BY <2>1, <2>2 DEF PagesInv
<1> QED BY <1>1, PagesBegin, PagesOffice, PagesLoad, PagesNoWindow, PagesEndWindow, PagesWrite, PagesAbort
        DEF UploadStep, UploadFails

LEMMA PagesPage ==
    ASSUME TypeInv, PagesInv, NEW p \in Page, PageStep(p)
    PROVE  PagesInv'
<1>1. CASE StartPagePipeline(p)
  BY <1>1, PageMoves DEF StartPagePipeline, InPipeline
<1>2. CASE RequestLayout(p)
  BY <1>2, PageMoves DEF RequestLayout, InPipeline
<1>3. CASE LayoutDetected(p)
  BY <1>3, PageMoves DEF LayoutDetected, InPipeline
<1>4. CASE PrepareJobs(p)
  BY <1>4, PageMoves DEF PrepareJobs, InPipeline
<1>5. ASSUME NEW b \in 1..MaxBlocks, RequestBlock(p, b) PROVE PagesInv'
  BY <1>5, PagesUnchanged DEF RequestBlock, taskVars, pageVars, pagesVars
<1>6. CASE AssemblePage(p)
  BY <1>6, PagesAssemble
<1>7. CASE PageFails(p)
  BY <1>7, PagesAbort DEF PageFails
<1> QED BY <1>1, <1>2, <1>3, <1>4, <1>5, <1>6, <1>7, PageStepCases

LEMMA PagesCall ==
    ASSUME TypeInv, PagesInv, NEW c \in Call, CallStep(c)
    PROVE  PagesInv'
<1>1. CASE PredictFails(c)
  BY <1>1, PagesAbort DEF PredictFails
<1>2. CASE ~ PredictFails(c)
  BY <1>2, PagesUnchanged DEF CallStep, AcquireLimiter, EnterScheduler, LeaveScheduler, SchedulerStep,
         PredictReturns, taskVars, pageVars, pagesVars
<1> QED BY <1>1, <1>2

LEMMA PagesNext == TypeInv /\ PagesInv /\ [Next]_vars => PagesInv'
<1> SUFFICES ASSUME TypeInv, PagesInv, [Next]_vars PROVE PagesInv'
  OBVIOUS
<1>1. CASE UNCHANGED vars
  BY <1>1, PagesUnchanged DEF vars, taskVars, pageVars, pagesVars
<1> QED BY <1>1, PagesUpload, PagesPage, PagesCall DEF Next

-----------------------------------------------------------------------------

(* The inductive invariant holds. *)
THEOREM Induction == Spec => []IndInv
<1>1. IndInv /\ [Next]_vars => IndInv'
  BY TypeInvNext, CallerInvNext, PermitInvNext, QuotaInvNext DEF IndInv
<1> QED BY InvInit, <1>1, PTL DEF Spec

(* The pages are kept in order, whatever completes first                   *)
(* (parse_page_window, pdf_page_window_bounds).                            *)
THEOREM PagesInduction == Spec => []PagesInv
<1>1. IndInv /\ PagesInv /\ [Next]_vars => PagesInv'
  BY PagesNext DEF IndInv
<1> QED BY Induction, PagesInit, <1>1, PTL DEF Spec

(* Every variable keeps its type.                                          *)
THEOREM TypeCorrect == Spec => []TypeOK
<1>1. IndInv /\ PagesInv => TypeOK
  BY DEF IndInv, TypeInv, PagesInv, DocumentsInv, OutputInv, WindowInv, TypeOK
<1> QED BY Induction, PagesInduction, <1>1, PTL

(* One step of the pipeline is a step of DocumentParse or none.            *)
LEMMA ParseStep ==
    ASSUME IndInv, PagesInv, [Next]_vars
    PROVE  [Parse!Next]_<<documents, Outcome>>
<1> USE DEF IndInv, PagesInv, TypeInv, Parse!Next, Parse!parseVars
<1>1. CASE Abort /\ stage \notin {"done", "failed"}
  BY <1>1 DEF Abort, Outcome, Parse!Fail
<1>2. ASSUME documents' = Append(documents, Requested[current]), current \in Upload,
             stage \notin {"done", "failed"}, stage' \notin {"done", "failed"}
      PROVE  Parse!Deliver
  <2>1. Len(documents) + 1 = current /\ Len(documents) < Len(Requested)
    <3>1. Len(Requested) = Len(Uploads)
      BY PipelineFacts, RequestedRuns
    <3> QED BY <1>2, <3>1, PipelineFacts DEF DocumentsInv
  <2> QED BY <1>2, <2>1 DEF Outcome, Parse!Deliver
<1>3. CASE WriteDocument
  <2>1. output = Requested[current]
    BY <1>3, RequestedRuns DEF WriteDocument, OutputInv
  <2> QED BY <1>2, <1>3, <2>1 DEF WriteDocument
<1>4. CASE ParseOffice
  <2>1. Requested[current] = <<>>
    BY <1>4, RequestedRuns, Wanted(current) = 0 DEF ParseOffice, Wanted, Run
  <2> QED BY <1>2, <1>4, <2>1 DEF ParseOffice
<1>5. CASE FinishTask
  <2>1. documents = Requested
    <3>1. current = Len(Uploads) + 1 /\ Len(documents) = Len(Uploads)
      BY <1>5, PipelineFacts DEF FinishTask, DocumentsInv
    <3>2. Requested \in Seq(Seq(Page)) /\ Len(Requested) = Len(Uploads)
      <4>1. Requested \in [1..Len(Uploads) -> Seq(Page)]
        BY RequestedRuns, PipelineFacts DEF Requested
      <4> QED BY <4>1, PipelineFacts, SeqDef
    <3>3. \A u \in 1..Len(Uploads) : documents[u] = Requested[u]
      BY <3>1, PipelineFacts DEF DocumentsInv
    <3> QED BY <3>1, <3>2, <3>3, SeqEqual DEF DocumentsInv
  <2> QED BY <1>5, <2>1 DEF FinishTask, Outcome, Parse!Succeed
<1>6. CASE UploadStep
  <2>1. CASE BeginUpload \/ LoadWindow \/ LoadNoWindow \/ LoadImage \/ EndWindow
    BY <2>1 DEF BeginUpload, LoadWindow, LoadNoWindow, LoadImage, BeginWindow, EndWindow, Outcome
  <2> QED BY <1>1, <1>3, <1>4, <1>5, <1>6, <2>1 DEF UploadStep, UploadFails
<1>7. ASSUME NEW p \in Page, PageStep(p) PROVE [Parse!Next]_<<documents, Outcome>>
  <2>1. PageFails(p) \/ UNCHANGED <<documents, stage>>
    BY <1>7 DEF PageStep, StartPagePipeline, RequestLayout, LayoutDetected, PrepareJobs,
         RequestBlock, AssemblePage, taskVars
  <2> QED BY <1>1, <2>1 DEF PageFails, Outcome
<1>8. ASSUME NEW c \in Call, CallStep(c) PROVE [Parse!Next]_<<documents, Outcome>>
  <2>1. PredictFails(c) \/ UNCHANGED <<documents, stage>>
    BY <1>8 DEF CallStep, AcquireLimiter, EnterScheduler, LeaveScheduler, SchedulerStep, PredictReturns, taskVars
  <2>2. PredictFails(c) => Abort /\ stage = "parsing"
    BY DEF PredictFails, CallerInv, InProgress
  <2> QED BY <1>1, <2>1, <2>2 DEF Outcome
<1>9. CASE UNCHANGED vars
  BY <1>9 DEF vars, taskVars, Outcome
<1> QED BY <1>6, <1>7, <1>8, <1>9 DEF Next

(* The documents written are those asked for, in upload order, each with   *)
(* its requested pages in page order, and a task that is done has them all *)
(* (parse_task): the pipeline implements DocumentParse.                    *)
THEOREM ParseImplemented == Spec => ImplementsParse
<1>1. Init => Parse!Init
  BY DEF Init, Parse!Init, Outcome
<1>2. IndInv /\ PagesInv /\ [Next]_vars => [Parse!Next]_(Parse!parseVars)
  BY ParseStep DEF Parse!parseVars
<1> QED BY <1>1, <1>2, Induction, PagesInduction, PTL DEF Spec, ImplementsParse, Parse!Spec

(* A task never has more requests queued and sent than its limit, those    *)
(* of dropped callers included (predict_with_limit).                       *)
THEOREM QuotaKept == Spec => []TaskQuota
<1>1. IndInv => TaskQuota
  BY DEF IndInv, QuotaInv
<1> QED BY Induction, <1>1, PTL

(* No request outlives its upload, unless the task failed in it: the new   *)
(* limiter of the next upload starts from nothing (parse_task).            *)
THEOREM UploadsSeparate == Spec => []NoLeftovers
<1>1. IndInv => NoLeftovers
  BY DEF IndInv, QuotaInv
<1> QED BY Induction, <1>1, PTL

(* After the first error no request enters the scheduler's queue           *)
(* (parse_page_window, extract_window_blocks).                             *)
THEOREM SilentAfterFailure == Spec => NothingQueuedAfterFailure
<1>1. IndInv /\ [Next]_vars =>
        [stage = "failed" =>
           \A c \in Call : phase[c] = "new" => phase'[c] \in {"new", "ended"}]_vars
  BY QuietAfterFailure DEF IndInv
<1> QED BY Induction, <1>1, PTL DEF Spec, NothingQueuedAfterFailure
=============================================================================
