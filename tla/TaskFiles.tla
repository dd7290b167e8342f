----------------------------- MODULE TaskFiles -----------------------------
(***************************************************************************)
(* The files of one task, from the upload to the answer: module            *)
(* UploadIntake stores the uploads and names the documents, the parsers'   *)
(* documents are written below those names (src/src/io/document_writer.rs) *)
(* and a result request reads them back, as JSON or through the archive of *)
(* module ZipStream (src/src/io/result_builder.rs).                        *)
(*                                                                         *)
(* The output directory is a function from [stem, dir, leaf] to the number *)
(* of the document the file was written for.  When results may be read,    *)
(* and when the directory is removed, is modelled in TaskService.          *)
(***************************************************************************)
EXTENDS UploadIntake, ZipStream

CONSTANTS
    ImageName,    \* names of image files a document may have
    Pieces        \* [leaf -> pieces of 64 KiB and less it is read in]

(* No image has the name of another file of its document. *)
ASSUME LeafAssumption ==
    /\ ImageName \cap {"md", "middle", "model", "content_list", "content_list_v2",
                      "origin.pdf", "origin.docx", "origin.pptx", "origin.xlsx"} = {}
    /\ Pieces \in [{"md", "middle", "model", "content_list", "content_list_v2", "origin"}
                    \cup ImageName -> Nat]
    /\ IsFiniteSet(ImageName)

VARIABLES
    results,      \* the output directory
    json          \* "results" of the JSON payload: [stem -> [leaf -> content]]

vars == <<intakeVars, phase, loop, results, json, zipVars>>

-----------------------------------------------------------------------------
OutputSubdir(kind) == IF kind = "Office" THEN "office" ELSE "vlm"

(* parse_dir of the writer, with the kind its parser passes: everything   *)
(* but an Office document is written as a PDF.                             *)
ParseDir(i) ==
    [stem |-> uploads[i].stem,
     dir  |-> OutputSubdir(IF DocumentKind(uploads[i].suffix) = "Office" THEN "Office" ELSE "Pdf")]

File(i, leaf) == [stem |-> ParseDir(i).stem, dir |-> ParseDir(i).dir, leaf |-> leaf]

(* Faulty: the reader looks for every document where those of a PDF are. *)
ParseDirAsOfPdf(i) ==
    [stem |-> uploads[i].stem, dir |-> OutputSubdir("Pdf")]

(* parse_dir_for_task_file of the reader, by the suffix of the upload. *)
ParseDirForTaskFile(i) ==
    [stem |-> uploads[i].stem, dir |-> OutputSubdir(DocumentKind(uploads[i].suffix))]

ResultFile(i, leaf) ==
    [stem |-> ParseDirForTaskFile(i).stem, dir |-> ParseDirForTaskFile(i).dir, leaf |-> leaf]

TextLeaves == <<"md", "middle", "model", "content_list", "content_list_v2">>

(* write_document, after the parser has read the upload: the text files, then *)
(* the images; a failure leaves the files written so far.                        *)
WriteDocument ==
    /\ phase = "parsing"
    /\ \E n \in 0..Len(TextLeaves), images \in SUBSET ImageName :
          LET complete == n = Len(TextLeaves)
              files    == {File(loop, leaf) : leaf \in ToSet(SubSeq(TextLeaves, 1, n)) \cup images}
          IN  /\ ~complete => images = {}
              /\ results' = Updated(results, files, saved[uploads[loop].file])
              /\ phase' = CASE ~complete                         -> "failed"
                            [] complete /\ loop < Len(uploads) -> "parsing"
                            [] complete /\ loop = Len(uploads) -> "completed"
              /\ loop' = IF loop < Len(uploads) THEN loop + 1 ELSE 1
    /\ UNCHANGED <<intakeVars, json, zipVars>>

(* Faulty: the lease is dropped with the handler that answers. *)
ReadResultDroppingLease ==
    /\ phase = "completed"
    /\ lease' = FALSE
    /\ \/ /\ options.flag["response_format_zip"]
          /\ phase' = "zip" /\ thread' = "adding" /\ client' = "reading"
       \/ /\ ~options.flag["response_format_zip"]
          /\ phase' = "json" /\ UNCHANGED <<thread, client>>
    /\ UNCHANGED <<intakeVars, loop, results, json, writerVars, channel, received>>

(* build_response_with_lease: the lease is held through the payload or the stream. *)
ReadResult ==
    /\ phase = "completed"
    /\ lease' = TRUE
    /\ \/ /\ options.flag["response_format_zip"]
          /\ phase' = "zip" /\ thread' = "adding" /\ client' = "reading"
       \/ /\ ~options.flag["response_format_zip"]
          /\ phase' = "json" /\ UNCHANGED <<thread, client>>
    /\ UNCHANGED <<intakeVars, loop, results, json, writerVars, channel, received>>

-----------------------------------------------------------------------------
(* build_result_dict and read_images: one document a step.                 *)

Flags == [md |-> "return_md", middle |-> "return_middle_json", model |-> "return_model_output",
          content_list |-> "return_content_list", content_list_v2 |-> "return_content_list"]

Requested(leaf) ==
    options.flag[IF leaf \in DOMAIN Flags THEN Flags[leaf] ELSE "return_images"]

Exists(i, leaf) == ResultFile(i, leaf) \in DOMAIN results

JsonLeaves(i) ==
    {leaf \in {"md", "middle", "model", "content_list"} : Requested(leaf)}
    \cup {leaf \in ImageName : Requested(leaf) /\ Exists(i, leaf)}

ReadLeaf(i, leaf) == IF Exists(i, leaf) THEN results[ResultFile(i, leaf)] ELSE 0

AddResult ==
    /\ phase = "json" /\ loop <= Len(uploads)
    /\ \/ /\ json' = Updated(json, {uploads[loop].stem},
                             [leaf \in JsonLeaves(loop) |-> ReadLeaf(loop, leaf)])
          /\ loop' = loop + 1
          /\ UNCHANGED <<phase, lease>>
       \/ /\ phase' = "failed" /\ lease' = FALSE
          /\ UNCHANGED <<json, loop>>
    /\ UNCHANGED <<intakeVars, results, thread, writerVars, channel, client, received>>

AnswerJson ==
    /\ phase = "json" /\ loop > Len(uploads)
    /\ phase' = "answered" /\ lease' = FALSE
    /\ UNCHANGED <<intakeVars, loop, results, json, thread, writerVars, channel, client, received>>

-----------------------------------------------------------------------------
(* build_zip_to_writer: the entries of one document a step.                *)

Entry(i, leaf) == EntryUnits(ResultFile(i, leaf), results[ResultFile(i, leaf)], Pieces[leaf])

OfficeOrigin == [docx |-> "origin.docx", pptx |-> "origin.pptx", xlsx |-> "origin.xlsx"]

OriginLeaf(i) ==
    IF DocumentKind(uploads[i].suffix) = "Office" THEN OfficeOrigin[uploads[i].suffix] ELSE "origin.pdf"

OriginEntry(i) ==
    EntryUnits(File(i, OriginLeaf(i)), saved[uploads[i].file], Pieces["origin"])

ArchiveImages(i) == {leaf \in ImageName : Requested(leaf) /\ Exists(i, leaf)}

AddIfRequested(i, leaf) == IF Requested(leaf) /\ Exists(i, leaf) THEN Entry(i, leaf) ELSE <<>>

AddOriginalFile(i) == IF options.flag["return_original_file"] THEN OriginEntry(i) ELSE <<>>

DocumentUnits(i, images) ==
    LET leaves == TextLeaves \o images
    IN  FlattenSeq([n \in DOMAIN leaves |-> AddIfRequested(i, leaves[n])]) \o AddOriginalFile(i)

(* The images come in the order of the directory. *)
AddDocument ==
    /\ phase = "zip" /\ thread = "adding" /\ todo = <<>> /\ loop <= Len(uploads)
    /\ \E images \in SetToSeqs(ArchiveImages(loop)) : todo' = DocumentUnits(loop, images)
    /\ loop' = loop + 1
    /\ UNCHANGED <<intakeVars, phase, results, json, thread, position, header, entries, buffer,
                   channel, client, received, lease>>

Finish == loop > Len(uploads) /\ FinishArchive

Archiving ==
    /\ phase = "zip"
    /\ Finish \/ Stream \/ Reader
    /\ UNCHANGED <<intakeVars, phase, loop, results, json>>

-----------------------------------------------------------------------------
Init == IntakeInit /\ ZipInit /\ results = <<>> /\ json = <<>>

Next ==
    \/ Intake /\ UNCHANGED <<results, json, zipVars>>
    \/ WriteDocument \/ ReadResult \/ AddResult \/ AnswerJson \/ AddDocument \/ Archiving

Spec == Init /\ [][Next]_vars

(* The blocking thread runs; nothing makes a client read. *)
FairSpec == Spec /\ WF_vars(AddDocument) /\ WF_vars(Archiving /\ (Finish \/ Stream))

-----------------------------------------------------------------------------
Phase == {"starting", "serving", "down", "form", "rejected", "stems", "parsing", "failed",
          "completed", "json", "zip", "answered"}

TypeOK ==
    /\ phase \in Phase
    /\ loop \in 1..Len(uploads) + 1
    /\ \A i \in DOMAIN uploads :
          Bytes(uploads[i].stem) <= MaxStemBytes /\ DocumentKind(uploads[i].suffix) # None
    /\ thread \in {"idle", "adding", "finishing", "failing", "ended"}
    /\ client \in {"none", "reading", "complete", "aborted", "left"}
    /\ Len(channel) <= ChannelCapacity
    /\ Length(buffer) < ChunkSize
    /\ lease \in BOOLEAN

(* Whatever the environment holds, the service either does not start or    *)
(* runs with the limits the other modules assume.                          *)
ConfigUsable == LimitsUsable(config)

Created == phase \in {"parsing", "failed", "completed", "json", "zip", "answered"}

(* A task is created only from options the service supports, under the     *)
(* name of the backend its status reports, and on a public address only    *)
(* with the consent of whoever started the service.                        *)
TasksSupported ==
    phase = "stems" \/ Created =>
        /\ options.backend = "vlm-http-client"
        /\ options.start_page_id <= options.end_page_id
        /\ config.public_bind_exposed => config.allow_public_http_client
        /\ options.flag["return_original_file"] => options.flag["response_format_zip"]
        /\ uploads # <<>>

(* What the other modules assume of the service when a task reaches them:  *)
(* usable limits, and options that the parsers and the result builder know. *)
ServiceUsable == TypeOK /\ ConfigUsable /\ TasksSupported

(* Every upload of a request is a file of its own, and that file still has *)
(* what this upload brought: no later field of the same form replaces it.  *)
UploadsApart ==
    \A i \in DOMAIN uploads :
        /\ uploads[i].file \in DOMAIN saved
        /\ saved[uploads[i].file] = i

(* The documents of a task differ in more than letter case, so no document *)
(* overwrites another's results or takes its place in a response.          *)
StemsDistinct ==
    \A i, j \in DOMAIN uploads :
        Created /\ i # j => Key(uploads[i].stem) # Key(uploads[j].stem)

(* The first document of a name is called what the client called it: a     *)
(* number given to an earlier one never takes a name uploaded later.       *)
FirstNameKept ==
    \A i \in DOMAIN uploads :
        Created /\ (\A j \in 1..i - 1 : Key(raw[j]) # Key(raw[i])) => uploads[i].stem = raw[i]

(* However the names of the uploads collide, in letter case, by their cut  *)
(* length or with a number given to another one, the documents of a task   *)
(* stay apart and a name nobody else has is kept.                          *)
DocumentsApart == UploadsApart /\ StemsDistinct /\ FirstNameKept

(* Every document in the JSON payload, and every entry being put into an   *)
(* archive, was made from the upload it is listed under.                   *)
ResultsOfOwnUpload ==
    /\ \A i \in DOMAIN uploads : phase \in {"json", "answered"} /\ i < loop =>
          \A leaf \in DOMAIN json[uploads[i].stem] : json[uploads[i].stem][leaf] = i
    /\ \A n \in DOMAIN todo : todo[n].kind = "local" =>
          uploads[todo[n].src].stem = todo[n].name.stem

(* The files of a document that a completed task owes the client: what was *)
(* written for it and is requested.                                        *)
OwedOf(i) ==
    {File(i, leaf) : leaf \in {l \in ToSet(TextLeaves) \cup ImageName :
                                   Requested(l) /\ File(i, l) \in DOMAIN results}}
    \cup (IF options.flag["return_original_file"] THEN {File(i, OriginLeaf(i))} ELSE {})

Owed == UNION {OwedOf(i) : i \in DOMAIN uploads}

(* A download that ends without an error is a whole archive with every     *)
(* requested file of every document, however chunks, errors and reads      *)
(* alternate: a failed or cut off archive is never taken for a whole one.  *)
ArchiveComplete == client = "complete" => IsArchive(received, Owed)

(* While files are read, and until the last byte or the error was put into *)
(* the channel, the lease that keeps the cleanup away is held: the payload *)
(* and the archive only grow under it, whether the client reads or left.   *)
HeldWhileReading ==
    [][json' # json \/ todo' # todo \/ Len(channel') > Len(channel) => lease]_vars

(* When the client leaves, the thread sees it and lets the lease go, even  *)
(* from a full channel; a client that keeps reading gets an end.           *)
LeaseEnds ==
    /\ (client = "left") ~> ~lease
    /\ WF_vars(Archiving /\ (ClientReceives \/ ClientSeesEnd)) => (Receiving ~> ~Receiving)

(* The lease of a result lasts as long as the answer needs the files, and  *)
(* no longer than the client lets it (build_response_with_lease).          *)
LeaseSpansAnswer == HeldWhileReading /\ LeaseEnds
=============================================================================
