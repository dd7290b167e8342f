---------------------------- MODULE UploadIntake ----------------------------
(***************************************************************************)
(* From a multipart body to an accepted task: the fields are read, each    *)
(* file is stored under a name of its own, and the stems that name the     *)
(* results are made unique (src/src/io/uploads.rs and create_async_parse_  *)
(* task in src/src/server/routes.rs).                                      *)
(*                                                                         *)
(* A name is a sequence of characters, each with its length in UTF-8 and   *)
(* its lower case.  The decimal form of a number and __upload_ count as    *)
(* one character each.  Letter case of a suffix is a pair of suffixes.     *)
(***************************************************************************)
EXTENDS ServiceConfig, FiniteSets, Functions, TLC

CONSTANTS
    Form,          \* the multipart bodies: sequences of fields, file names without directories
    Startup,       \* arguments and environment the service may be started with
    LowerOf,       \* [character -> its lower case], where they differ
    Width,         \* [character -> its length in bytes]
    MaxStemBytes,  \* MAX_TASK_STEM_BYTES
    MaxSuffix      \* bound of the model: no search tries a larger number

ASSUME IntakeAssumption ==
    /\ MaxStemBytes \in Nat \ {0} /\ MaxSuffix \in Nat
    /\ LowerOf \in [DOMAIN LowerOf -> DOMAIN Width] /\ Width \in [DOMAIN Width -> Nat \ {0}]

(* What counts things in the environment is a number, if it is there.      *)
ASSUME StartupAssumption ==
    \A s \in Startup :
        {s.env.max_concurrent_requests, s.env.max_in_flight_tasks, s.env.max_upload_size_bytes,
         s.env.processing_window_size, s.env.vlm_max_concurrency, s.env.vlm_queue_capacity,
         s.env.max_vlm_requests_per_task, s.env.image_preprocess_threads,
         s.env.task_retention, s.env.task_cleanup_interval} \subseteq Int

(* The fields of a form, and the characters of its names and of those the   *)
(* service makes of them.                                                  *)
ASSUME NameAssumption ==
    /\ Form \subseteq Seq([name : STRING, value : STRING, named : BOOLEAN,
                           stem : Seq(DOMAIN Width), ext : STRING])
    /\ {"_"} \cup {ToString(n) : n \in 1..MaxSuffix} \subseteq DOMAIN Width

VARIABLES
    config,    \* the ServiceConfig
    phase,     \* where the request is
    form,      \* the fields not read yet
    options,   \* the ParseOptions
    uploads,   \* the StoredUploads: [stem, file, suffix], file naming a file of uploads/
    saved,     \* uploads/: [file -> the content, as the upload's number]
    raw,       \* the stems before they are made unique
    loop       \* the upload a loop over them is at

intakeVars == <<config, form, options, uploads, saved, raw>>

(* The function f with the given value at the keys. *)
Updated(f, keys, value) == [k \in DOMAIN f \cup keys |-> IF k \in keys THEN value ELSE f[k]]

-----------------------------------------------------------------------------
(* Names.                                                                  *)

Key(stem) == [i \in DOMAIN stem |-> IF stem[i] \in DOMAIN LowerOf THEN LowerOf[stem[i]] ELSE stem[i]]

Bytes(s) == SumFunction([i \in DOMAIN s |-> Width[s[i]]])

(* truncate_to_utf8_bytes: as many whole characters as fit. *)
Truncate(s, max) ==
    LET fits == {n \in 0..Len(s) : Bytes(SubSeq(s, 1, n)) <= max}
    IN  SubSeq(s, 1, CHOOSE n \in fits : \A k \in fits : k <= n)

NormalizeStem(stem) == Truncate(stem, MaxStemBytes)

Suffix(ext) == IF ext = "PDF" THEN "pdf" ELSE ext

DocumentKind(suffix) ==
    CASE suffix = "pdf"                      -> "Pdf"
      [] suffix \in {"png", "jpg", "webp"}   -> "Image"
      [] suffix \in {"docx", "pptx", "xlsx"} -> "Office"
      [] OTHER                               -> None

(* unique_destination: the first name of which no file exists. *)
IsSaved(stem, ext) == [stem |-> stem, ext |-> ext] \in DOMAIN saved

Numbered(stem, n) == stem \o <<"__upload_", ToString(n)>>

FreeNumbers(stem, ext) == {n \in 2..MaxSuffix : ~IsSaved(Numbered(stem, n), ext)}

UniqueDestination(stem, ext) ==
    [stem |-> IF ~IsSaved(stem, ext) THEN stem
              ELSE Numbered(stem, CHOOSE n \in FreeNumbers(stem, ext) :
                                      \A k \in FreeNumbers(stem, ext) : n <= k),
     ext  |-> ext]

(* build_task_stem_candidate. *)
StemCandidate(stem, n) ==
    LET suffix == <<"_", ToString(n)>>
    IN  CASE Bytes(stem \o suffix) <= MaxStemBytes -> stem \o suffix
          [] Bytes(suffix) >= MaxStemBytes         -> Truncate(suffix, MaxStemBytes)
          [] OTHER -> Truncate(stem, MaxStemBytes - Bytes(suffix)) \o suffix

-----------------------------------------------------------------------------
(* Start-up.                                                               *)

IntakeInit ==
    /\ \E s \in Startup : config = FromArgs(s.args, s.env)
                       /\ options = DefaultOptions(s.env)
    /\ phase = "starting"
    /\ form = <<>> /\ uploads = <<>> /\ saved = <<>> /\ raw = <<>>
    /\ loop = 1

(* AppState::new panics on a limit its semaphores and its queue refuse. *)
Start ==
    /\ phase = "starting"
    /\ phase' = IF Startable(config) THEN "serving" ELSE "down"
    /\ UNCHANGED <<intakeVars, loop>>

ReceiveForm ==
    /\ phase = "serving"
    /\ phase' = "form"
    /\ form' \in Form
    /\ UNCHANGED <<config, options, uploads, saved, raw, loop>>

Reject ==
    /\ phase' = "rejected"
    /\ UNCHANGED <<config, form, options, uploads, raw, loop>>

-----------------------------------------------------------------------------
(* parse_multipart: one field a step.                                      *)

ReadOption ==
    /\ phase = "form" /\ form # <<>> /\ Head(form).name # "files"
    /\ \/ /\ FieldValid(Head(form))
          /\ options' = ApplyFormField(options, Head(form))
          /\ form' = Tail(form)
          /\ UNCHANGED <<phase, config, uploads, saved, raw, loop>>
       \/ /\ ~FieldValid(Head(form))
          /\ Reject /\ UNCHANGED saved

Accepted(f) == f.named /\ DocumentKind(Suffix(f.ext)) # None

(* save_field. *)
SaveField ==
    /\ phase = "form" /\ form # <<>> /\ Head(form).name = "files"
    /\ LET f    == Head(form)
           stem == NormalizeStem(f.stem)
           file == UniqueDestination(stem, f.ext)
           ends == ~IsSaved(stem, f.ext) \/ FreeNumbers(stem, f.ext) # {}   \* MaxSuffix bounds the search
       IN \/ /\ Accepted(f) /\ ends
             /\ uploads' = Append(uploads, [stem   |-> stem,
                                            file   |-> file,
                                            suffix |-> Suffix(f.ext)])
             /\ saved' = Updated(saved, {file}, Len(uploads) + 1)
             /\ form' = Tail(form)
             /\ UNCHANGED <<phase, config, options, raw, loop>>
          \/ /\ ~Accepted(f)
             /\ Reject /\ UNCHANGED saved
          \/ /\ Accepted(f) /\ ends  \* the body breaks off or the disk fails: the file stays
             /\ saved' = Updated(saved, {file}, 0)
             /\ Reject

(* The end of the form: the checks, in their order, and the keys of the stems. *)
EndForm ==
    /\ phase = "form" /\ form = <<>>
    /\ LET o == NormalizeOptions(options) IN
       \/ /\ PolicyAllows(config, o) /\ OptionsValid(o) /\ uploads # <<>>
          /\ options' = o
          /\ raw' = [i \in DOMAIN uploads |-> NormalizeStem(uploads[i].stem)]
          /\ phase' = "stems"
          /\ UNCHANGED <<config, form, uploads, saved, loop>>
       \/ /\ ~(PolicyAllows(config, o) /\ OptionsValid(o) /\ uploads # <<>>)
          /\ Reject /\ UNCHANGED saved

-----------------------------------------------------------------------------
(* uniquify_upload_stems: one upload a step.                               *)

RawKeys  == {Key(raw[i]) : i \in DOMAIN raw}
Assigned == {Key(uploads[i].stem) : i \in 1..loop - 1}

SeenBefore == {i \in 1..loop - 1 : Key(raw[i]) = Key(raw[loop])}

(* Faulty: a number that is free so far may be a name uploaded later. *)
FreeStemSoFar(stem) == Key(stem) \notin Assigned

FreeStem(stem) == Key(stem) \notin RawKeys \cup Assigned

KeepsName == SeenBefore = {} /\ Key(raw[loop]) \notin Assigned

FreeSuffixes ==
    {n \in Cardinality(SeenBefore) + 1..MaxSuffix : FreeStem(StemCandidate(raw[loop], n))}

StemForLoop ==
    IF KeepsName THEN raw[loop]
    ELSE StemCandidate(raw[loop], CHOOSE n \in FreeSuffixes : \A k \in FreeSuffixes : n <= k)

UniquifyStem ==
    /\ phase = "stems"
    /\ KeepsName \/ FreeSuffixes # {}      \* MaxSuffix bounds the search
    /\ uploads' = [uploads EXCEPT ![loop].stem = StemForLoop]
    /\ \/ loop < Len(uploads) /\ loop' = loop + 1 /\ UNCHANGED phase
       \/ loop = Len(uploads) /\ loop' = 1 /\ phase' = "parsing"
    /\ UNCHANGED <<config, form, options, saved, raw>>

Intake == Start \/ ReceiveForm \/ ReadOption \/ SaveField \/ EndForm \/ UniquifyStem
=============================================================================
