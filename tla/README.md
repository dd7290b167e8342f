# Verification of the MinerU Rust API service

This directory holds TLA+ models of the service in `src/`, the TLC
configurations that check them on small instances, and TLAPS proofs of their
main properties for every value of the constants. `src/src/...` below is the
Rust code of the service.

## 1. The system

A client uploads documents to `POST /file_parse` (and waits for the answer) or
to `POST /tasks` (and polls). The service stores the files, queues a task, and a
spawned processor parses every upload of the task: Office documents are read
directly, PDFs and images are rendered page by page and described by calls to an
external VLM service. Results are files in the task's directory; they are
answered as JSON or streamed as a ZIP, and a cleanup loop removes them when
their retention has passed.

| component | state | operations | what makes it correct |
|---|---|---|---|
| task table `domain/tasks.rs` | map of entries behind an RwLock, submit counter, one Notify and one reader count per entry | submit, set_processing/completed/failed, wait_terminal, get, acquire_result_lease, lease drop, cleanup_expired, queued_ahead | statuses move forward only, nobody reads what cleanup removes, waiters are woken, positions are consistent |
| HTTP task service `server/routes.rs`, `server/state.rs` | admission and request semaphores, handlers, spawned processors, cleanup loop | file_parse, submit_task, get_task_status, get_task_result, health, spawn_task_processor, cleanup loop | permits follow the work over errors, disconnects and panics; limits hold; answers agree with the parser |
| VLM request scheduler `vlm/scheduler.rs` | bounded channel, receiver mutex, two atomic counters, workers | predict, run_vlm_worker, stats | no job lost, doubled or answered to another; bounded concurrency; counters count |
| VLM document parser `vlm/parser.rs` | per upload: window position, page and block futures, per-task limiter, accumulated output | parse_task, parse_upload, parse_page_window, page pipeline, layout parsing, cropping | every requested page exactly once and in order, the per-task limit, nothing goes on after a failure; boxes and crops with pixels, inside their page |
| VLM HTTP client `vlm/client.rs` | cached model name per server, behind a mutex | session_for_request, predict_with_session with retries | only retryable errors are retried, a bounded number of times; the cache holds a name the server gave, everybody uses it, and no server gets the name of another |
| Python-compatible output `vlm/python_compat.rs` | per document: pages, blocks | append_fragments, finish, post-processing, block regrouping, list and paragraph merging, OTSL tables | no block lost or doubled by regrouping; captions stay with their body; nothing visible is dropped from text and tables; the four outputs agree |
| parser dispatch `parser.rs` | none | parse_task | Office and VLM uploads of one task in upload order |
| upload storage `io/uploads.rs` | files of one request | save_field, unique_destination, uniquify_upload_stems | no two uploads share a file or an output stem |
| document output writer `io/document_writer.rs` | files | write_document | each document's results in its own directory |
| result builder `io/result_builder.rs` | result files, a ZIP thread and its bounded channel | build_response_with_lease, ZIP streaming | each result under its own document; the lease lives as long as the thread; a cut-off archive is never a whole one |
| Office documents `office/mod.rs`, `docx.rs`, `pptx.rs`, `xlsx.rs`, `package.rs`, `rels.rs` | parser stacks over XML events | parse_docx, parse_slide, sheet reading | text, pictures and tables are kept, shapes in reading order, merged cells cover the table |
| Office text rendering `office/inline.rs`, `markdown.rs`, `image_serializer.rs` | none | inline tags and spans, Markdown, image files | no tag is mistaken for text or text for a tag |
| configuration `config/mod.rs` | the values read at start | from arguments and environment | whatever they are, the service does not start or runs with usable limits |
| public bind policy `server/security.rs` | none | PolicyAllows | a publicly bound service calls no server of a client's choice without consent |
| errors, allocator statistics, OpenAPI and health page, startup | - | - | - |

How they interact. A handler takes an admission permit, writes the uploads,
inserts a task and gives the permit to the processor it spawns; the processor
takes a request permit, calls the parser, and records the outcome in the table,
which wakes the handler that waits in `wait_terminal`. The parser calls
`predict` of the one scheduler all tasks share, under a limiter of its own; a
worker of the scheduler calls the client, whose model-name cache all requests
share. Result reads hold a lease on the entry; a ZIP thread owns its lease and
outlives the handler.

What is hard about it. Handlers are futures that are dropped at any await when
their client disconnects; processors and ZIP threads are not. `wait_terminal`
unlocks before it sleeps. Cleanup selects entries under the lock and removes
directories outside it. The submit order is drawn outside the lock. The
scheduler's counters are changed next to, not inside, the channel operations.
Pages and blocks are parsed concurrently, finish in any order, and the first
failure drops the others while their requests sit in the shared queue. Two
requests may list the models of one server at once and get different answers.
Names of uploads collide in letter case, after they are cut, and with numbers
given to others. The ZIP thread writes blindly into a channel its client may
stop reading. Blocks are regrouped several times on their way to four outputs
that must agree, and the Office readers are loops over XML events whose state
survives from one event to the next. The list with the lines is `hazards` in
`PROJECT.json`.

## 2. Modules

| module | models | its form |
|---|---|---|
| `TaskManager` | `domain/tasks.rs` | state, initial values and one operator per method, conjoined by `TaskService` with the step that calls it |
| `TaskService` | `server/routes.rs`, `server/state.rs`, the lease and thread of `io/result_builder.rs` | full specification: handlers, processors, cleanup, disconnects, panics |
| `TaskLifecycle` | - | what a client may rely on; `TaskService` implements it |
| `VlmScheduler` | `vlm/scheduler.rs` | full specification, each counter update a step |
| `VlmPool` | - | what a caller of the scheduler may rely on; `VlmScheduler` implements it |
| `PagePipeline` | `parser.rs`, `vlm/parser.rs`: one parse_task | full specification, composed with `VlmPool` for the scheduler behind it |
| `DocumentParse` | - | what parsing a task promises; `PagePipeline` implements it |
| `VlmClient` | `vlm/client.rs` | full specification: one process per request |
| `ServiceConfig` | `config/mod.rs`, the options of `domain/models.rs`, the form fields of `server/routes.rs`, `server/security.rs` | operators |
| `UploadIntake` | `create_async_parse_task` of `server/routes.rs`, `io/uploads.rs` | state and actions of the upload, from the start of the service to the accepted task |
| `ZipStream` | the ZIP thread, channel and body of `io/result_builder.rs` | state and actions of thread and client |
| `TaskFiles` | `io/document_writer.rs`, the payloads of `io/result_builder.rs` | composes `UploadIntake` and `ZipStream`: the files of one task |
| `BoxGeometry` | boxes, crops and resizing in `vlm/parser.rs`, `vlm/python_compat.rs` | operators on integers |
| `TextRendering` | text in `vlm/python_compat.rs`: equations, OTSL tables, escapes, joining | operators on sequences of characters |
| `PageOutput` | a layout answer to the blocks of a page | operators |
| `DocumentOutput` | pages to middle JSON, Markdown and both content lists | state machine: a page at a time, then `finish` |
| `OfficeText` | `office/inline.rs`, `office/markdown.rs`, content lists of Office blocks | operators |
| `OfficePackage` | `office/package.rs`, `rels.rs`, image files | operators |
| `Docx`, `Pptx` | the event loops of `office/docx.rs`, `office/pptx.rs` | one operator per arm of the loop, one step per event |
| `Xlsx` | `office/xlsx.rs` | operators: table and merges of a sheet |
| `OfficeParse` | `office/mod.rs` | state machine over the events of an upload, and what it must keep |
| `ParsedOutput` | `parser.rs` | composes `DocumentOutput` and `OfficeParse`: an upload takes one way or the other |
| `OfficeUploads`, `MCPythonOutput` | - | sample uploads and documents for TLC |
| `MCTaskService`, `MCVlmScheduler`, `MCPagePipeline`, `MCVlmClient`, `MCTaskFiles`, `MCParsedOutput`, `MCOfficeParse` | - | instances for TLC |
| `DataLemmas` | - | lemmas about counting, numbers, sums and sequences, shared by the proofs |
| `TaskServiceProofs`, `VlmSchedulerProofs`, `PagePipelineProofs`, `VlmClientProofs`, `ZipStreamProofs`, `TaskFilesProofs`, `ParsedOutputProofs` | - | theorems and their lemmas |

**TaskService and the code.** `handler[c]` is the await a request's handler is
suspended at, or its answer: `queueing` (acquire_admission_permit), `admitted`
and `saving` (the directory is created, the multipart body is read), `ordered`
(the order is drawn, the write lock is awaited), `submitted` (submit_task awaits
status_payload before it spawns), `checking`, `unlocked`, `blocked` (the three
points of the loop in wait_terminal), `sawCompleted` and `loading` (the response
is built). `processor[t]` is the same for the spawned task. A task's id, which
the code draws at random, is the id of the upload request that creates it. The
clock is `aged`: a finished entry grows older than the retention at some later
moment. `parse_task` is one step that succeeds, fails or panics. Reads that
change nothing (get_task_status, health, stats) are not actions. `unlocked` is
the one point that is not an await: another thread may run between the unlock
and `notified()`, but the handler cannot be dropped there.

**VlmScheduler and the code.** `caller[r]` is a call of predict, `worker[w]` a
worker task, `queue` the channel. A slot of the channel is taken from the moment
`reserve` returns. The VLM call with its retries is one step that may take any
time and gives either answer.

**PagePipeline and the code.** `stage` is where the loops of parse_task and
parse_upload are, `page[p]` where the future of a page in the current window is,
`call[c]` where the caller of a request is (request `<<u, p, 0>>` is the layout
request of page p of upload u, `<<u, p, b>>` its b-th block request), and
`permits` the permits taken from the limiter of the upload. `phase` is the state
of `VlmPool`: a request is handed over by `EnterScheduler`, which is
`Pool!Accept`, and ends there whether or not its caller still waits. An error
anywhere is one `Abort`: all futures of the task are nested in the one that
returns the error, so they are dropped within one poll. Which blocks a layout
has is a number of requests, chosen freely up to `MaxBlocks`. The workers of the
scheduler are `VlmMaxConcurrency` as in `AppState::new`; other tasks that fill
the queue show as a hand-over that takes its time. The layout text, the cropping
and the files are left to `PageOutput`, `BoxGeometry` and `TaskFiles`.

**VlmClient and the code.** `pc[r]` is the point a parser request is at:
`lookup` and `store` are the two places that hold the mutex of
`model_name_cache` (`cacheLock`), `locking` and `restoring` the waits for it,
and `resolve` lies between them, where the mutex is free and the server may be
asked for its models; `sending` and `sleeping` are the loop of
`predict_with_session`. A call of the OpenAI library is one step that gives any
of its errors or replies; which errors are worth another attempt is
`ShouldRetry`. `cache` is a function from base URLs, `listing[r]` what the
server listed to request r (it may list different models to each), `outcomes[r]`
the outcome of each call. URLs keep what the code looks at: whether they have a
scheme, the host, and the segments of the path, a `v1` among them.

**TaskFiles and the code.** `phase` is where the request is: the service starts
from arguments and an environment (or is `down`), reads the `form` field by
field, names the documents (`stems`), parses, and answers. File names are
sequences of characters with a lower case and a width, since letter case and the
cut in bytes are what the code decides by. `saved` and `results` are the two
directories, each file with the upload it was made from. `WriteDocument` is the
writer; `ReadResult` and `AnswerJson` build the JSON, `AddDocument` and
`Archiving` the archive. An archive is written in units (local header, data,
descriptor, central header, end) of a length each; `buffer` and `channel` hold
the chunks not yet sent and sent, `received` what the client has, `lease`
whether the thread still holds its lease. Entries are stored, not deflated, and
checksums are left out; the numeric limits of ZIP fields are kept (`MaxU32`,
`MaxU16`).

**DocumentOutput, OfficeParse and the code.** Both are sequential, so their
steps are few: a page or a block at a time for the VLM, an XML event at a time
for Word and PowerPoint, a sheet at a time for Excel; the work is in operators
that are named after the functions. Text is a sequence of characters, of which a
few are there for the ones some function looks for; a tag or a delimiter of an
equation counts as one. Boxes are integers in the units of the code (the VLM's
thousandths, points, pixels; floats as fractions). What Rust's string functions
find in the name of a style or in a number are constants (`LowerName`,
`HeadingNumber`, `ListNames`, `Numeral`).

How they fit. `TaskService` has parse_task as the one step `ParseReturns` (or
`ParserPanics`), justified by `TaskEnds` of `PagePipeline`; `PagePipeline` uses
the scheduler through `VlmPool`, justified by `ImplementsPool` and, for the
fairness, `PredictAnswered` of `VlmScheduler`; that a worker's call returns,
which the scheduler assumes, is `RequestsEnd` of `VlmClient`. `ConfigUsable` is
where the positive limits come from that `TaskService` and `PagePipeline` assume
of their constants, and `TasksSupported` the order of the page numbers.
`TaskService` has the ZIP thread as a holder of a lease that ends at some
moment; `LeaseSpansAnswer` of `TaskFiles` says that files are read and bytes put
into the channel only under the lease (`HeldWhileReading`) and when the thread
must let it go (`LeaseEnds`). `PagePipeline` has the output of a page as one step,
`ParsedOutput` says what it is.

Operators marked *Faulty* are variants of the operation that follows them with a
plausible mistake in it (a forgotten release, a dropped guard, a swapped order).
No specification uses them; each property is known to be broken by one of them,
so that it is not true of whatever the code does.

## 3. Runs

| run | instance | shows |
|---|---|---|
| `TaskService_safety` | one /file_parse, one /tasks, one result request, 2 admission and 1 request permit, retention, panics | `ReadersFindFiles`, `LeasesMatchReads`, `LiveTasksAreAdmitted`, `AnswersAreTrue`, and that the service implements `TaskLifecycle` |
| `TaskService_limits` | three uploads, 2 admission and 1 request permit, panics | `TypeOK`, `PermitsMatchWork`, `ConcurrencyLimits`, `QueuePositionsDistinct` |
| `TaskService_liveness` | two /file_parse with fairness and retention | `ProcessorsFinish`, `CleanupWakesWaiters` |
| `TaskService_lost_wakeup` | as above without retention | finding 1: `FileParseAnswered` is violated |
| `TaskService_in_flight` | two /tasks on one admission permit | finding 2: `InFlightLimit` is violated |
| `VlmScheduler` | three calls, a queue of one, two workers, fairness | the counters (`DepthCountsJobs`, `ActiveCountsWorkers`), `WaitingHasOneJob`, `ImplementsPool`, `PredictAnswered` |
| `VlmScheduler_dropped` | two calls, one worker | finding 3: `DroppedNotSent` is violated |
| `PagePipeline` | a PDF of 4 pages from page 1 in windows of 2, an Office document, a PDF with no requested page, an image; 2 pages and 2 blocks side by side, 2 permits, fairness | `TaskQuota`, `NoLeftovers`, `NothingQueuedAfterFailure`, `ImplementsParse`, `TaskEnds` |
| `VlmClient` | two requests, two servers behind one host, three URLs in a form or none, two settings of the environment, one of each class of listing, error and reply, fairness | `SessionsSound`, `ServersKeptApart`, `RetriesSound`, `RequestsEnd` |
| `TaskFiles` | several environments; forms of up to three files whose names collide in letter case, after the cut and with numbers; a channel of 2 chunks of 3 bytes; fairness of the thread | `ServiceUsable`, `DocumentsApart`, `ResultsOfOwnUpload`, `ArchiveComplete`, `LeaseSpansAnswer` |
| `ParsedOutput` | every page of three blocks out of eleven kinds, longer pages of lists and captions, single blocks with every short text, table or box, documents of two pages; Word, PowerPoint and Excel uploads | `BoxesSound`, `BlocksAndLinesKept`, `CaptionsAtTheirBody`, `EscapesSafe`, `VisibleTextKept`, `ImagesWritten`, `OutputsAgree`, `OfficeContentKept` |
| `XlsxMerges` | workbooks with merged cells | finding 4: `MergesTableRelative` is violated |

Why the bounds are enough. No guard of `TaskService` looks at more than one task
except the two semaphores, cleanup's set and queued_ahead, and all three are
already contended with two or three tasks: one waits for admission while another
is queued and a third is parsed. Leases and directories concern one task and its
readers; an upload's own reader, a GET and the cleanup loop are the three actors
that meet there. The scheduler's instance has a call waiting for a slot, one in
the queue and two at workers in turn. The pipeline's has a full window, a last
short one, an end page beyond the document and a document that ends before the
first page asked for; four block requests of two pages contend for two permits,
and pages finish in both orders.

Requests of the client meet only in the cache, an entry at a time: two requests
show every order of two lookups, listings and stores, and three attempts are the
code's own number. The names in `TaskFiles` have up to four bytes
(`MaxStemBytes`, in the code 200) and numbers up to `MaxSuffix` (the code's
search has no end), enough that a cut name, a numbered name and an uploaded one
fall together, and three files so that a third meets the number given to the
second. The channel holds less than an archive, so that the thread blocks in it,
and entries are longer and shorter than a chunk. The rules of the outputs look
at a block and its neighbours: three blocks give every neighbourhood on both
sides, and longer pages are there for lists and captions, whose rules look
further. The Office uploads have every event the loops have an arm for, and XML
that cannot be read; what becomes of nested tables is left to section 4.

The proofs cover every number of tasks, permits, calls, slots, workers,
requests, pages, servers, files, names and pieces of files, and every document,
so the safety results they state do not rest on these bounds; the liveness
results, `VisibleTextKept` and `OfficeContentKept` do.

Deadlock is checked for `ParsedOutput`, which ends in a step that stutters
(`Returned`), so that no document gets stuck between two steps. It is not
checked elsewhere: when every request has been answered nothing has to happen
any more.

**Fairness.** Tokio's semaphores and channel slots are granted first come first
served, so an acquisition that is possible again and again happens: SF on
`AcquireAdmission`, `AcquireRequest` and `Reserve`. The runtime polls woken
futures: WF on every step between two awaits, on the cleanup loop and on each
request of `VlmClient`. The HTTP client has a timeout and retries are bounded,
so a VLM call, and with it `parse_task`, returns: WF on `ParseReturns` and
`VlmReturns`. `PagePipeline` only assumes that something happens while anything
can (WF on Next), which is weaker: its steps cannot go on for ever, so only
getting stuck could keep it from ending. In `TaskFiles` the blocking thread
runs: WF on its own steps (`AddDocument`, `Finish`, `Stream`). Nothing is
assumed of clients: an upload need never arrive in full, a ZIP need never be
read, nobody has to disconnect. The second half of `LeaseEnds` (in
`LeaseSpansAnswer`) has "the client
goes on reading" as its own premise, because the thread does wait for ever for
one that neither reads nor leaves.

## 4. Findings

1. *Lost wake-up.* `wait_terminal` (`src/src/domain/tasks.rs:153-164`) reads the
   status under the lock, releases it, and only then calls `notified()`;
   `set_completed` and `set_failed` use `notify_waiters`, which keeps nothing
   for later. If the task finishes in between, `/file_parse` sleeps. With a
   retention, the notification of `cleanup_expired` ends that sleep, except for
   the same window once more (`CleanupWakesWaiters`), with answer 503; without
   one it sleeps for ever (`FileParseAnswered`).
2. *In-flight limit.* `submit_task` awaits `status_payload` between inserting
   the entry and spawning its processor (`src/src/server/routes.rs:193-203`). A
   client that disconnects there leaves an entry that is pending for ever, while
   its admission permit is free: more tasks are unfinished than
   `MINERU_API_MAX_IN_FLIGHT_TASKS` says (`InFlightLimit`).
3. *Cancelled requests are sent.* The parser says it cancels the remaining
   requests of a window (`src/src/vlm/parser.rs:715`); those already queued are
   still sent, as the worker looks for its caller only when it answers
   (`DroppedNotSent`).
4. *Merged cells of a sheet that does not begin at A1.* `merges_from`
   (`src/src/office/xlsx.rs:175`) subtracts from the workbook's rows and columns
   those trimmed off the used range, but not where that range itself begins. The
   comment at `src/src/office/xlsx.rs:171` promises dimensions relative to the
   table; for a sheet whose values begin further down or right the merge is laid
   over other cells, or lost (`MergesTableRelative`).

Seen while modelling, and not checked as properties.

- Tasks: a panic of the parser also leaves its entry `processing` for ever
  (`Orphaned`); the reported queue depth may exceed the queue capacity by one
  per worker (`DepthCountsJobs` gives the true bound); a `/file_parse` that
  wakes after its finished task has expired is told the task "was removed before
  completion"; a rejected or abandoned upload leaves its directory on disk,
  where cleanup never looks; the request permit is dropped before the outcome is
  recorded, so a document may start while the one before it still says
  `processing`: up to `max_in_flight_tasks` entries may say so, which is what
  `ConcurrencyLimits` bounds.
- Positions in the queue: `submit` draws the order before it takes the write lock
  (`src/src/domain/tasks.rs:103`). `QueuePositionsDistinct` is about the values of
  one moment. Two tasks may be told the same one: if order 2 is inserted first,
  its client is told 0; order 1 is inserted then and its client is told 0, too,
  while both are pending. No document promises that told positions differ.
- VLM client: `vllm_xargs` and `priority` (`src/src/vlm/client.rs:469-471` and
  `501-506`) are sent to models named gpt as well; only `skip_special_tokens`,
  `top_k` and `repetition_penalty` are withheld from them. No document says what
  such a model is to be spared.
- Pictures: of a PowerPoint picture that cannot be found or written only a line of
  the log remains (`src/src/office/pptx.rs:670-703`), and so of an Excel picture
  whose write fails (`src/src/office/xlsx.rs:42-44`; one of an unsupported format
  leaves a warning). `WordPicturesAccounted` is stated for Word, where each of
  them becomes a discarded block with its reason.
- Word and PowerPoint: quick-xml reports entity references (`&amp;` and the
  like) as events of their own, for which neither loop has an arm, so the
  character is dropped; a table or paragraph inside another one (a text box, a
  table in a cell) replaces the outer state and loses its text, so that the
  content properties are stated for documents without such nesting; text in
  table cells is collected twice; a paragraph that begins and ends with a
  formula becomes an interline equation with the inner tags left in it; `<w:b
  w:val="0"/>` is read as bold; outline level 9, which means body text, becomes
  a title; `list_level` is written and never read; the picture of an embedded
  object in a graphic frame is lost; the code for an element left over at the
  end of the part cannot be reached.
- Excel and PowerPoint text is not escaped before inline tags are looked for in
  it.
- VLM output: code blocks do not appear in the second content list and footnotes
  of code not in the first; boxes thinner than a point are dropped; the
  continuation cells of the table language (`lcel`, `ucel`, `xcel`) are dropped,
  so later cells shift; ties of the most frequent value depend on hash order.
  `EscapesSafe` is stated for text blocks of one line: what is joined from
  several lines has no such guarantee (in Chinese, Japanese or Korean text no
  space comes between two lines, so a backslash that ends one stands before the
  one that escapes the next line's first character, and undoes it).

## 5. Proofs

Assumptions: `ManagerAssumption` (finitely many tasks, ids of uploads and GETs
differ), `ServiceAssumption` (positive limits, which `config` and `max(1)`
ensure: `LimitsCorrect`), `SchedulerAssumption` (finitely many calls and
workers, at least one worker, a positive capacity), `PipelineAssumption`
(uploads are records of a kind and a page count, `start_page_id <= end_page_id`
as the request is validated, positive limits), `ClientAssumption` and
`ListingAssumption` (what URLs, environment and listings are made of; reading a
listing gives names), `ConfigAssumption` (usize and the largest semaphore are
large enough for the code's own constants), `StartupAssumption` (what counts
things in the environment is an integer, if set), `IntakeAssumption` (the cut is
at least a byte, characters have a width), `NameAssumption` (what form fields
are made of, and that an underscore and a number are characters like others), `LeafAssumption` (finitely many images, whose
names are none of a document's other files; files have a number of pieces),
`ZipAssumption` (a positive capacity and chunk, and units with a length),
`DocumentAssumption` (a page has at least one point and one pixel each way, as
the renderer makes it, and the layout answer has numbers without a sign).

**TaskServiceProofs.** The inductive invariant `IndInv` conjoins

- `TypeOK`;
- `StageInv`: how `handler`, `processor`, `result` and `status` go together, for
  instance that a task is processing exactly while its processor is between
  StartProcessing and RecordOutcome (or panicked there), and that an entry that
  is absent after it existed was aged;
- `PermitInv`: `PermitsMatchWork` and that holders do not exceed the permits;
  the limits follow from it, and it needs `StageInv` to know that a handler and
  a processor never hold the same permit twice;
- `FilesInv`: a directory exists from before the insertion until cleanup has
  taken the entry, and directories being swept belong to absent entries;
- `LeaseInv`: `LeasesMatchReads`, and a leased entry is completed: with
  `FilesInv` this is why no reader loses its files;
- `OrderInv`: orders drawn are distinct and below the counter, and an inserted
  task has one: with finite counting it gives `QueuePositionsDistinct`, by which
  positions at one moment follow the orders;
- `AnswersAreTrue`.

It was checked with TLC on the safety instance before it was proved. Theorems:
`Induction` (it is invariant), `TypeCorrect`, `PermitsCorrect`, `LimitsCorrect`,
`LeasesCorrect`, `ReadersSafe`, `LiveAdmitted`, `AnswersCorrect`,
`PositionsCorrect`, and `LifecycleImplemented`: initial states map to initial
states and every step to a step of `TaskLifecycle` or a stutter.

**VlmSchedulerProofs.** `IndInv` conjoins the types, `CountInv` (the counters
equal what they count, and slots taken stay within the capacity), `OneReceiver`,
`JobInv` (which worker and caller states carry a job) and `WaitingHasOneJob`.
The counters alone are not inductive: that queue_depth does not wrap rests on a
received job having been announced, and that no job is at two places on a call
being sent once. Theorems: `TypeCorrect`, `DepthCorrect`, `ActiveCorrect`,
`OneJobEach`, `ReceiverExclusive`, `PoolImplemented`.

**PagePipelineProofs.** `IndInv` conjoins the types, `CallerInv` (a request has
a live caller only while its page awaits it), `PermitInv` (until a failure,
whatever the scheduler holds has a caller with a permit, and permits are at most
the limit) and `QuotaInv` (the set of requests in the scheduler is finite and
within the limit, and belongs to the current upload). The limit alone is not
inductive twice over: the limiter of the next upload starts empty, so
`CallerInv` must show that nothing is outstanding then; and a failure drops the
permits while requests live on, so afterwards the argument is that the
scheduler's set only shrinks (`QuietAfterFailure`). Theorems: `QuotaKept`,
`UploadsSeparate`, `SilentAfterFailure`.

The documents need a second invariant, `PagesInv`, on top of the types:
`DocumentsInv` (the documents so far are those asked for), `OutputInv` (the
accumulator holds the requested pages from the first on, and `nextPage` is the
one that follows) and `WindowInv` (the window is the pages that follow, and
`finished` holds exactly those of them that are done, each once). The order in
which pages finish is arbitrary, so that `EndWindow` appends them in page order
needs `AscendingRun`: sorting a sequence that holds each page of a run once gives
the run. It is an induction, done as an argument about the least position at
which the two differ. Theorems: `PagesInduction`, `TypeCorrect`, and
`ParseImplemented`: every step of the pipeline maps to a step of `DocumentParse`
or a stutter.

**VlmClientProofs.** `IInv` conjoins the types (of functions first, then
`TypeOK`), `BaseInv` (which base URL a request has at each point, and that it is
the one of its server), `NamesInv` (names in flight are resolved: the configured
one or the single one listed), `SessionsAgree`, `BodyInv`, `RetryInv` (attempts,
and outcomes count together) and `RetriesBounded`. `BodyInv` says a body is
`ChatBody` of the session's name; with `SessionsAgree` it is that of the cached
one at every attempt (`BodyFitsModel`). That everybody uses
the cached name is not inductive alone: `StoreModelName` must put a resolved
name into an empty entry and leave any other as it is, so a request between
lookup and store must hold a resolved name. Theorems: `Invariance`,
`SessionsCorrect`, `ServersApart`, `RetriesCorrect`.

**TaskFilesProofs.** `IInv` conjoins `UploadsInv` and `UploadsApart` (each
upload a file of its own that holds it), `StemsInv` (the names given so far),
`OptionsInv` and `ConfigUsable`. The searches for a free number are least
elements of sets of naturals that the guards say are not empty (`LeastNumber`,
`SearchFinds`): that the code's unbounded search ends is not proved. That stems are distinct and first names kept is
not inductive: a number given early may be a name that comes later, so
`StemsInv` says a stem is the name its upload brought or has a key no upload
brought (`RawKeys`). After the naming nothing of it changes (`OverStep`).
Theorems: `Invariance`, `NamesCorrect` (`DocumentsApart`), `LimitsCorrect`
(`ConfigUsable`) and `OptionsCorrect` (`TasksSupported`). `ShapesInv` says what
the data look like (a stem, once cut and perhaps numbered, still fits; every
upload has a kind; channel and buffer keep their bounds): `ShapesInduction`, and
from it and the last two `ServiceCorrect` (`ServiceUsable`).

`ResultsInv` is about the answer. `FilesInv`: a file of a document's directory
was made from that document's upload (`OwnFiles`), and the documents written so
far have their text files. It stays true because `DocumentsApart` keeps a later
document from writing into an earlier one's directory. `OwnJson` and `OwnUnits`
carry it into the two answers. The last part is `StreamInv(Wanted)`, of the next
module, where `Wanted` is what is owed for the documents added so far, and in the
end all that is owed (`OwedStays`: nothing is written while the archive is). One
lemma per action preserves all four. That `AddDocument` puts each file owed for a
document into the archive once is `WholeDocument`: the leaves of a document, its
images and its original are disjoint, and `SetToSeq` lists each image once.
The writer and the reader have a directory operator each (`ParseDir`, by the kind
the parser passes, and `ParseDirForTaskFile`, by the suffix); that they agree is
the lemma `SameFile`. Theorems: `ResultsInduction`, `ResultsCorrect`
(`ResultsOfOwnUpload`) and `ArchiveCorrect` (`ArchiveComplete`).

`LeaseCorrect` is the safety half of `LeaseSpansAnswer`, `HeldWhileReading`. Its
invariant `HeldInv` says who has the lease: the handler while it builds the
payload, or the thread until it ends, never both, so that giving it up in one
place takes it from nobody.

**ZipStreamProofs** has the lemmas on the archive. What has been sent is cut into
chunks of which some wait in the channel and some were received, so that nothing
about `received` alone is inductive. The invariant speaks of W, the units written
so far, which no variable holds:

- `Progress(W, want)`: while entries are added (`Adding`), W and `todo` together
  are a series of whole entries, `position` is the length of W, and `entries`
  lists those that are finished, at the offsets where they begin; afterwards W
  and `todo` together are an archive of the files wanted;
- `Delivered(W, cut)`: what was received, the chunks in the channel and the
  buffer are consecutive pieces of W, cut at the positions `cut`, and a thread
  that ended without an error has sent all of W.

`StreamInv(want)` says that such W and cuts exist while the client reads, and that
a client for which the download is complete has received an archive
(`IsArchive`). An error in the thread needs no more than that: it puts a failed
chunk into the channel, after which the client never sees a regular end. The
lemmas are one per action of `ZipStream`, for any set `want`; they rest on
`ArchiveWhole` (a series of entries with its directory is an archive),
`AddingStep`, and `ChunksGrow`, `ChunkSent`, `ChunkReceived` for the cuts.

**ParsedOutputProofs.** First the arithmetic of boxes, for all page sizes and all
boxes a model may answer with: `ConvertedBoxInPage` and `CropHasPixels` (a box
that is accepted lies in its page, and its crop has at least one pixel each way
and lies in the image), `PointBoxInPage`, `PythonCropHasPixels` and
`ContentBoxInPage` for the boxes of the outputs, and `CanvasHoldsImage` and
`ResizedLargeEnough` for the image that is sent. They rest on lemmas about
scaling and rounding (`ScaledOrder`, `FloorBounds`, `FloorBelow`,
`FloorMonotone`, `CeilingBounds`, `RoundedApart`, `PixelsOfSide`, `ScaledWithin`,
`RoundedAbove`): rounding down one side and up the other keeps at least one
pixel, and cutting at the page keeps order.

Then that no box of a document is any other: `BoxesInv` conjoins `ProgressInv`
(the page being built is one of the document), `PageInv` (its raw blocks have
boxes in the layout, its blocks, paragraphs and discarded blocks boxes in the
page), `DoneInv` (so have the pages that are done, each in a page of its own
size) and `ContentInv` (the content list). `BoxesSound` speaks of `blocks` and of
the content list alone and is not inductive: between them a block goes through
regrouping, lists and merged paragraphs, so that `PageInv` has to follow it
through `preproc` and `para`, and the division by the size of the page rests on
`DoneInv`. One lemma per action; those on the operators say that their results
are made of the blocks they are given (`ParsedBoxed`, `ProcessedBoxed`,
`ConvertedBoxed`, `SortedElements`, `FixedBoxed`, which needs the recursion of
fix_list_blocks to stay among the lists and texts of the page (`FilledSteps`), `ChangedBoxed`,
`ContentListInside`). Theorem: `BoxesCorrect` (`BoxesSound`).

Last that nothing of a page is lost or told twice. `BlocksAndLinesKept` says it
when a page is assembled; `KeptInv` adds what that rests on at the stages before:
which types post_process_raw_blocks leaves (`RawInv`: a list_item that became a
list again would be in two places), that the blocks of a page have an index each
of their own (`BlocksInv`), and after it that paragraphs have lines that can be
joined. build_page_info is the step that matters. `Held(F, X)` says that a set of
blocks stands for the places X, each once; `HeldPlain` gives it for the blocks as
they come, `VisualsHeld` for figures with the captions they claim (a caption has
one parent, `ParentExists`, and what has none becomes text), `FixedHeld` for lists
and what they take up (by the least list that breaks it), `HeldUnion` puts the
parts together since no index is in two of them, and `HeldOnce` carries it over
sorting and flattening. `MergeKeepsLines` needs that the texts between the two
paragraphs it joins are none, so that lines move past nothing (`FlattenMoved`).
Theorem: `BlocksAndLinesCorrect` (`BlocksAndLinesKept`), from
`BoxesInv /\ KeptInv`.

`KeptInv` also gives `CaptionsCorrect` (`CaptionsAtTheirBody`). Its last part,
that the captions of two figures do not cross, is no condition in the code, which
gives each caption to a neighbouring figure by distance: `PartsApart` shows that
a caption beyond another figure has that figure between it and its own, and that
of two captions that crossed between their figures one would be nearer to the
other's. That distances count positions and the property indexes makes no
difference, as blocks come sorted (`Sorted`, in `BlocksInv`; `IndexOrder`); every
figure of the page is one that regroup_visual_blocks made (`Assembled`), and
merging paragraphs leaves it alone (`FiguresStay`).

`ImagesCorrect` (`ImagesWritten`) speaks of the content lists, which are
made when all pages are done, and of files that were written while each of them
was cropped. `ImagesInv` follows the name from one to the other: a figure, table
or equation has one span, with no image yet or a file that exists (`Pictured`;
`SpanMade`, `PicturesKept`), and a page is assembled only when no image is
missing; from there on a block is `Shown` if its type is one the outputs know and
the image get_body_data finds in it is a file. That it finds the body's own among
the captions is `BodyImage`, that regroup_visual_blocks leaves it one
`VisualShown`. Pages that are done keep theirs since files are only added
(`MoreShown`).

`OutputsAgreeCorrect` (`OutputsAgree`) compares the two content lists, which the
code makes in two passes over the pages, one into a single list and one into a
list for each page. Both are made at `Finish`, so the step is one: `ImagesInv`
says that every block of a page has a type both passes know (`SameTold`: then
they tell the same kind, place and image of it), and the rest is about
`FlattenSeq`. What a page tells is `ToldOf`, one part for each block and an empty
one for code; `SecondTells` is that applying `Told` to the entries of the second
list gives it flattened (`AppliedBoth`), `FirstTells` that picking page n out of
the first list does, by induction on the pages joined so far (`FlattenBoth`,
`FlattenOnly`: what is joined from other pages is empty).

`EscapesCorrect` (`EscapesSafe`) is about text itself, and about the two
functions that escape it one character after the other. `Slashes(s, i)` is the
number of backslashes right before the character at i, and a text is `Escaped` if
it is odd before every special character. `EscapeEscapes`: what `EscapeText`
gives is escaped, since its fold's counter is the number of backslashes at the
end of what it has read and written (`EscapeStepCounts`). `EscapedStays`: it
leaves an escaped text as it is, so escaping twice is escaping once
(`EscapeStepReads`). `PrefixEscaped`: the backslash that `EscapePrefix` sets
before a heading's or a list's marker leaves the text escaped, and a second pass
finds no marker. A Markdown line is more than one escaped text: spaces are
trimmed from both ends (`TrimmedEscaped`), and pieces are joined, which keeps
them escaped only if none but the last ends in a backslash (`PiecesEscaped`);
the code sets a space after each piece of a line but the last, so it holds for
one line (`LineSafe`). `WordedInv` carries the texts there: what the VLM answers
for a text, a caption or a footnote stays text through the cleaning of brackets
and the splitting at formulas (`CleanedText`, `SplitSpans`), in the blocks of the
page, in the captions without a figure that become paragraphs
(`WithLinesOfPage`), and in the lines of merged paragraphs (`WordedJoined`).

**DataLemmas** has the lemmas several of them use: how a cardinality changes when
one element changes its state, that a set of distinct elements taken from another
is no larger, sums over a sequence that grows or is cut, parts of sequences, and
what `FlattenSeq` returns (its elements, that each is at one place, what may
move between its parts, and what an operator applied to its elements does), that a
fold and a function that reads a text from left to right have the value their
equations say (`FoldDefines`, `ReadingIn`). What needs an induction is proved by its least
counterexample (every non-empty set of naturals has a least element), since the
induction theorems of the library take an operator as parameter.

Only model-checked: the liveness properties (fairness and ENABLED are beyond the
prover), and two properties of `ParsedOutput`. `VisibleTextKept` compares what is
left of texts when some characters are left out, with `SelectSeq`, which the
provers cannot expand: it is a recursive operator of the standard module.
`OfficeContentKept` compares texts and cells with what readers made of them in
recursive functions and folds over events, several dozen of them one inside the
other, each of which would take an induction of its own. What each run says of
its own bounds is checked only there.

## 6. Not modelled

- Errors: their mapping to status codes has no state; which error ends what is
  in the modules that meet it.
- A panic of the ZIP thread: `ArchiveComplete` and `LeaseSpansAnswer` speak of a
  thread that ends by a result, good or bad.
- Allocator statistics, the OpenAPI document and the health page: calls and
  documents that change nothing.
- Startup: wires the parts together once; the result is the Init of the modules.

Partly modelled: rendering PDF pages and encoding images (external libraries;
which sizes and boxes are asked of them is modelled); the size limits of an
Office package and calamine's reading of cells; the conversion of image bytes;
paths, host and port of the configuration, which are passed through; DEFLATE and
CRC of archive entries.

No property covers two hazards of the upload, both without a step in the code
that could make one hold: an admission permit is held while a slow client sends,
and the files of a rejected upload stay on disk. Entity references and nested
tables in Word documents are in the list of section 4 for the same reason. Those
entries of `hazards` say so.

What further work could add: a proof that tables keep rows of one length and the
text of their cells (`TableTextKept`, a part of `VisibleTextKept`), for which the
property would have to be stated without `SelectSeq`; the size limits of an Office
package.
