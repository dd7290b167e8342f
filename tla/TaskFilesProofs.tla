-------------------------- MODULE TaskFilesProofs --------------------------
(***************************************************************************)
(* Proofs about TaskFiles, for any forms, names, environments and limits:  *)
(* the configuration is usable, the tasks are supported, the documents of  *)
(* a task stay apart, each is answered with the results of its own upload, *)
(* and an archive received without an error is whole.                      *)
(***************************************************************************)
EXTENDS TaskFiles, ZipStreamProofs

-----------------------------------------------------------------------------
(* Start-up.                                                               *)

LEMMA LimitPositive ==
    ASSUME NEW value \in Int, NEW default \in Nat, NEW minimum \in Nat, default >= minimum
    PROVE  ReadParsedEnv(value, default, minimum) \in Nat /\ ReadParsedEnv(value, default, minimum) >= minimum
BY DEF ReadParsedEnv

LEMMA ProductPositive ==
    ASSUME NEW n \in Nat \ {0}, NEW factor \in {2, 4}
    PROVE  AtLeast(SaturatingMul(n, factor), 1) \in Nat \ {0}
<1>1. MaxUsize \in Nat /\ MaxUsize > 0
    BY ConfigAssumption
<1>2. CASE n > MaxUsize \div factor
    BY <1>1, <1>2 DEF SaturatingMul, AtLeast
<1>3. CASE ~(n > MaxUsize \div factor)
    <2>1. n * factor \in Nat \ {0}
        OBVIOUS
    <2> QED BY <1>3, <2>1 DEF SaturatingMul, AtLeast
<1> QED BY <1>2, <1>3

LEMMA PerTaskWithin ==
    ASSUME NEW value \in Int, NEW workers \in Nat, workers > 0
    PROVE  PerTaskRequests(value, workers) \in 1..workers
BY DEF PerTaskRequests, ReadParsedEnv, AtLeast, CapAt

(* Every environment and every argument give limits the service can use. *)
LEMMA ArgsUsable ==
    ASSUME NEW s \in Startup
    PROVE  LimitsUsable(FromArgs(s.args, s.env))
<1> DEFINE c == FromArgs(s.args, s.env)
           e == s.env
<1>1. /\ {e.max_concurrent_requests, e.max_in_flight_tasks, e.max_upload_size_bytes,
          e.processing_window_size, e.vlm_max_concurrency, e.vlm_queue_capacity,
          e.max_vlm_requests_per_task, e.image_preprocess_threads,
          e.task_retention, e.task_cleanup_interval} \subseteq Int
    BY StartupAssumption
<1> HIDE DEF e
<1>2. /\ ReadParsedEnv(e.max_concurrent_requests, 3, 1) \in Nat \ {0}
      /\ ReadParsedEnv(e.vlm_max_concurrency, 50, 1) \in Nat \ {0}
      /\ ReadParsedEnv(e.max_upload_size_bytes, 268435456, 1) \in Nat \ {0}
      /\ ReadParsedEnv(e.processing_window_size, 8, 1) \in Nat \ {0}
      /\ ReadParsedEnv(e.image_preprocess_threads, Cores, 1) \in Nat \ {0}
      /\ ReadParsedEnv(e.task_cleanup_interval, 300, 1) \in Nat \ {0}
      /\ ReadParsedEnv(e.task_retention, 86400, 0) \in Nat
    BY <1>1, ConfigAssumption DEF ReadParsedEnv
<1>3. /\ c.max_in_flight_tasks \in Nat \ {0} /\ c.vlm_queue_capacity \in Nat \ {0}
    <2>1. \A n \in Nat \ {0} : /\ ReadParsedEnv(e.max_in_flight_tasks, n, 1) \in Nat \ {0}
                               /\ ReadParsedEnv(e.vlm_queue_capacity, n, 1) \in Nat \ {0}
        BY <1>1 DEF ReadParsedEnv
    <2>2. /\ c.max_in_flight_tasks = ReadParsedEnv(e.max_in_flight_tasks,
                AtLeast(SaturatingMul(ReadParsedEnv(e.max_concurrent_requests, 3, 1), 2), 1), 1)
          /\ c.vlm_queue_capacity = ReadParsedEnv(e.vlm_queue_capacity,
                AtLeast(SaturatingMul(ReadParsedEnv(e.vlm_max_concurrency, 50, 1), 4), 1), 1)
        BY DEF FromArgs, e
    <2> QED BY <1>2, <2>1, <2>2, ProductPositive
<1>4. c.max_vlm_requests_per_task \in 1..c.vlm_max_concurrency
    <2>1. /\ c.vlm_max_concurrency = ReadParsedEnv(e.vlm_max_concurrency, 50, 1)
          /\ c.max_vlm_requests_per_task = PerTaskRequests(e.max_vlm_requests_per_task,
                                               ReadParsedEnv(e.vlm_max_concurrency, 50, 1))
        BY DEF FromArgs, e
    <2> DEFINE w == ReadParsedEnv(e.vlm_max_concurrency, 50, 1)
    <2>2. w \in Nat /\ w > 0 /\ e.max_vlm_requests_per_task \in Int
        BY <1>1, <1>2
    <2> HIDE DEF w
    <2>3. PerTaskRequests(e.max_vlm_requests_per_task, w) \in 1..w
        BY <2>2, PerTaskWithin
    <2> QED BY <2>1, <2>3 DEF w
<1>5. /\ c.max_concurrent_requests \in Nat \ {0} /\ c.max_upload_size_bytes \in Nat \ {0}
      /\ c.processing_window_size \in Nat \ {0} /\ c.vlm_max_concurrency \in Nat \ {0}
      /\ c.image_preprocess_threads \in Nat \ {0} /\ c.task_cleanup_interval \in Nat \ {0}
      /\ c.task_retention \in Nat
    BY <1>2 DEF FromArgs, e
<1> HIDE DEF c
<1> QED BY <1>3, <1>4, <1>5 DEF LimitsUsable, c

-----------------------------------------------------------------------------
(* The inductive invariant, in parts.                                      *)

Reading == {"starting", "serving", "form"}

(* An upload has its parts, and the loop over the uploads stays on them.   *)
UploadsInv ==
    /\ \E S : uploads \in Seq(S)
    /\ \A i \in DOMAIN uploads :
          uploads[i] = [stem |-> uploads[i].stem, file |-> uploads[i].file, suffix |-> uploads[i].suffix]
    /\ phase \in Reading => loop = 1
    /\ phase \in {"stems", "parsing"} => loop \in 1..Len(uploads)
    /\ phase \notin Reading \cup {"down", "rejected"} => uploads # <<>>

(* The documents that have their final stem. *)
Named ==
    CASE phase = "stems" -> 1..loop - 1
      [] Created         -> DOMAIN uploads
      [] OTHER           -> {}

(* A number was only given where it makes a name nobody brought.           *)
StemsInv ==
    /\ phase = "stems" \/ Created => DOMAIN raw = DOMAIN uploads
    /\ \A i \in Named : uploads[i].stem = raw[i] \/ Key(uploads[i].stem) \notin RawKeys
    /\ \A i, j \in Named : i # j => Key(uploads[i].stem) # Key(uploads[j].stem)
    /\ \A i \in Named : (\A j \in 1..i - 1 : Key(raw[j]) # Key(raw[i])) => uploads[i].stem = raw[i]

OptionsInv ==
    /\ options = [flag |-> options.flag, backend |-> options.backend,
                  parse_method |-> options.parse_method, server_url |-> options.server_url,
                  start_page_id |-> options.start_page_id, end_page_id |-> options.end_page_id]
    /\ options.flag = [b \in BoolOption |-> options.flag[b]]
    /\ TasksSupported

IInv == UploadsInv /\ UploadsApart /\ StemsInv /\ OptionsInv /\ ConfigUsable

-----------------------------------------------------------------------------
LEMMA InitInv == Init => IInv
<1> SUFFICES ASSUME Init PROVE IInv
    OBVIOUS
<1> USE DEF Init, IntakeInit
<1>1. uploads = <<>> /\ DOMAIN uploads = {} /\ phase = "starting"
    OBVIOUS
<1>2. UploadsInv /\ UploadsApart
    <2>1. uploads \in Seq({})
        BY <1>1
    <2> QED BY <1>1, <2>1 DEF UploadsInv, UploadsApart, Reading
<1>3. StemsInv
    BY <1>1 DEF StemsInv, Named, Created
<1>4. OptionsInv
    BY <1>1 DEF OptionsInv, TasksSupported, Created, DefaultOptions
<1>5. ConfigUsable
    BY ArgsUsable DEF ConfigUsable
<1> QED BY <1>2, <1>3, <1>4, <1>5 DEF IInv

(* What follows the naming only moves on: the intake is over. *)
LEMMA IntakeOver ==
    ASSUME UploadsInv,
           WriteDocument \/ ReadResult \/ AddResult \/ AnswerJson \/ AddDocument \/ Archiving
    PROVE  /\ UNCHANGED intakeVars /\ Created /\ Created'
           /\ phase' = "parsing" => loop' \in 1..Len(uploads)
<1> USE DEF Created
<1>1. CASE WriteDocument
    <2>1. UNCHANGED intakeVars /\ phase = "parsing" /\ loop \in 1..Len(uploads) /\ Len(uploads) \in Nat
        BY <1>1 DEF WriteDocument, UploadsInv
    <2>2. loop' = IF loop < Len(uploads) THEN loop + 1 ELSE 1
        BY <1>1 DEF WriteDocument
    <2>3. \/ phase' = "failed"
          \/ phase' = "parsing" /\ loop < Len(uploads)
          \/ phase' = "completed"
        BY <1>1, <2>1 DEF WriteDocument
    <2> QED BY <2>1, <2>2, <2>3
<1>2. CASE ReadResult
    BY <1>2 DEF ReadResult
<1>3. CASE AddResult
    BY <1>3 DEF AddResult
<1>4. CASE AnswerJson
    BY <1>4 DEF AnswerJson
<1>5. CASE AddDocument
    BY <1>5 DEF AddDocument
<1>6. CASE Archiving
    BY <1>6 DEF Archiving
<1> QED BY <1>1, <1>2, <1>3, <1>4, <1>5, <1>6

LEMMA OverStep ==
    ASSUME IInv, UNCHANGED intakeVars, Created, Created',
           phase' = "parsing" => loop' \in 1..Len(uploads)
    PROVE  IInv'
<1> USE DEF intakeVars
<1>1. phase \notin Reading \cup {"down", "rejected", "stems"} /\ phase' \notin Reading \cup {"down", "rejected", "stems"}
    BY DEF Created, Reading
<1>2. UploadsInv' /\ UploadsApart'
    BY <1>1 DEF IInv, UploadsInv, UploadsApart, Reading
<1>3. StemsInv'
    <2>1. Named' = Named
        BY <1>1 DEF Named, Created
    <2> QED BY <1>1, <2>1 DEF IInv, StemsInv, RawKeys, Key
<1>4. OptionsInv' /\ ConfigUsable'
    BY <1>1 DEF IInv, OptionsInv, TasksSupported, ConfigUsable, LimitsUsable
<1> QED BY <1>2, <1>3, <1>4 DEF IInv
-----------------------------------------------------------------------------
(* Before the naming, a step that adds no upload keeps the invariant. *)
LEMMA ReadingStep ==
    ASSUME IInv, phase \in Reading, phase' \in Reading \cup {"down", "rejected"},
           UNCHANGED <<config, uploads, raw, loop>>, UploadsApart',
           /\ options' = [flag |-> options'.flag, backend |-> options'.backend,
                 parse_method |-> options'.parse_method, server_url |-> options'.server_url,
                 start_page_id |-> options'.start_page_id, end_page_id |-> options'.end_page_id]
           /\ options'.flag = [b \in BoolOption |-> options'.flag[b]]
    PROVE  IInv'
<1>1. phase' \notin {"stems", "parsing"} /\ ~Created'
    BY DEF Reading, Created
<1>2. UploadsInv'
    BY <1>1 DEF IInv, UploadsInv, Reading
<1>3. StemsInv'
    BY <1>1 DEF StemsInv, Named
<1>4. OptionsInv'
    BY <1>1 DEF OptionsInv, TasksSupported
<1>5. ConfigUsable'
    BY DEF IInv, ConfigUsable, LimitsUsable
<1> QED BY <1>2, <1>3, <1>4, <1>5 DEF IInv

LEMMA StartStep == IInv /\ Start => IInv'
<1> SUFFICES ASSUME IInv, Start PROVE IInv'
    OBVIOUS
<1>1. /\ phase \in Reading /\ phase' \in Reading \cup {"down", "rejected"}
      /\ UNCHANGED <<config, uploads, raw, loop, saved, options>>
    BY DEF Start, Reading, intakeVars
<1>2. UploadsApart'
    BY <1>1 DEF IInv, UploadsApart
<1> QED BY <1>1, <1>2, ReadingStep DEF IInv, OptionsInv

LEMMA ReceiveFormStep == IInv /\ ReceiveForm => IInv'
<1> SUFFICES ASSUME IInv, ReceiveForm PROVE IInv'
    OBVIOUS
<1>1. /\ phase \in Reading /\ phase' \in Reading \cup {"down", "rejected"}
      /\ UNCHANGED <<config, uploads, raw, loop, saved, options>>
    BY DEF ReceiveForm, Reading
<1>2. UploadsApart'
    BY <1>1 DEF IInv, UploadsApart
<1> QED BY <1>1, <1>2, ReadingStep DEF IInv, OptionsInv

LEMMA ReadOptionStep == IInv /\ ReadOption => IInv'
<1> SUFFICES ASSUME IInv, ReadOption PROVE IInv'
    OBVIOUS
<1>1. /\ phase \in Reading /\ phase' \in Reading \cup {"down", "rejected"}
      /\ UNCHANGED <<config, uploads, raw, loop, saved>>
    BY DEF ReadOption, Reject, Reading
<1>2. UploadsApart'
    BY <1>1 DEF IInv, UploadsApart
<1>3. options' \in {options, ApplyFormField(options, Head(form))}
    BY DEF ReadOption, Reject
<1>4. /\ options' = [flag |-> options'.flag, backend |-> options'.backend,
            parse_method |-> options'.parse_method, server_url |-> options'.server_url,
            start_page_id |-> options'.start_page_id, end_page_id |-> options'.end_page_id]
      /\ options'.flag = [b \in BoolOption |-> options'.flag[b]]
    BY <1>3 DEF IInv, OptionsInv, ApplyFormField
<1> QED BY <1>1, <1>2, <1>4, ReadingStep

(* No file is stored under the name of another one. *)
LEMMA DestinationFree ==
    ASSUME NEW stem, NEW ext, ~IsSaved(stem, ext) \/ FreeNumbers(stem, ext) # {}
    PROVE  UniqueDestination(stem, ext) \notin DOMAIN saved
<1>1. CASE ~IsSaved(stem, ext)
    BY <1>1 DEF UniqueDestination, IsSaved
<1>2. CASE IsSaved(stem, ext)
    <2> DEFINE free == FreeNumbers(stem, ext)
               n    == CHOOSE k \in free : \A l \in free : k <= l
    <2>1. free \in SUBSET Nat /\ free # {}
        BY <1>2, IntakeAssumption DEF FreeNumbers
    <2> HIDE DEF free
    <2>2. n \in free
        BY <2>1, SearchFinds
    <2> HIDE DEF n
    <2>3. ~IsSaved(Numbered(stem, n), ext)
        BY <2>2 DEF free, FreeNumbers
    <2>4. UniqueDestination(stem, ext) = [stem |-> Numbered(stem, n), ext |-> ext]
        BY <1>2 DEF UniqueDestination, n, free
    <2> QED BY <2>3, <2>4 DEF IsSaved
<1> QED BY <1>1, <1>2

LEMMA SaveFieldStep == IInv /\ SaveField => IInv'
<1> SUFFICES ASSUME IInv, SaveField PROVE IInv'
    OBVIOUS
<1> DEFINE f    == Head(form)
           stem == NormalizeStem(f.stem)
           file == UniqueDestination(stem, f.ext)
           ends == ~IsSaved(stem, f.ext) \/ FreeNumbers(stem, f.ext) # {}
           new  == [stem |-> stem, file |-> file, suffix |-> Suffix(f.ext)]
<1>1. phase = "form" /\ UNCHANGED <<config, options, raw, loop>>
    BY DEF SaveField, Reject
<1>2. \/ ends /\ uploads' = Append(uploads, new) /\ phase' = phase
         /\ saved' = Updated(saved, {file}, Len(uploads) + 1)
      \/ UNCHANGED <<uploads, saved>> /\ phase' = "rejected"
      \/ ends /\ UNCHANGED uploads /\ phase' = "rejected"
         /\ saved' = Updated(saved, {file}, 0)
    BY DEF SaveField, Reject
<1>3. ends => file \notin DOMAIN saved
    BY DestinationFree
<1> HIDE DEF f, stem, file, ends
<1>4. CASE UNCHANGED uploads /\ phase' = "rejected"
    <2>1. UploadsApart'
        BY <1>2, <1>3, <1>4 DEF IInv, UploadsApart, Updated
    <2> QED BY <1>1, <1>4, <2>1, ReadingStep DEF IInv, OptionsInv, Reading
<1>5. CASE /\ ends /\ uploads' = Append(uploads, new) /\ phase' = phase
           /\ saved' = Updated(saved, {file}, Len(uploads) + 1)
    <2>1. PICK S : uploads \in Seq(S)
        BY DEF IInv, UploadsInv
    <2>2. /\ uploads \in Seq(S \cup {new}) /\ new \in S \cup {new}
        BY <2>1
    <2>3. /\ uploads' \in Seq(S \cup {new}) /\ Len(uploads') = Len(uploads) + 1
          /\ \A i \in DOMAIN uploads' :
                uploads'[i] = IF i = Len(uploads) + 1 THEN new ELSE uploads[i]
          /\ DOMAIN uploads' = DOMAIN uploads \cup {Len(uploads) + 1}
          /\ Len(uploads) \in Nat /\ DOMAIN uploads = 1..Len(uploads)
        BY <1>5, <2>2
    <2>4. UploadsInv'
        <3>1. \E T : uploads' \in Seq(T)
            BY <2>3
        <3>2. \A i \in DOMAIN uploads' :
                 uploads'[i] = [stem |-> uploads'[i].stem, file |-> uploads'[i].file,
                                suffix |-> uploads'[i].suffix]
            BY <2>3 DEF IInv, UploadsInv
        <3>3. phase' = "form" /\ loop' = 1
            BY <1>1, <1>5 DEF IInv, UploadsInv, Reading
        <3> QED BY <3>1, <3>2, <3>3 DEF UploadsInv, Reading
    <2>5. UploadsApart'
        <3>1. /\ DOMAIN saved' = DOMAIN saved \cup {file} /\ saved'[file] = Len(uploads) + 1
              /\ \A k \in DOMAIN saved : saved'[k] = saved[k]
            BY <1>3, <1>5 DEF Updated
        <3>2. ASSUME NEW i \in DOMAIN uploads'
              PROVE  uploads'[i].file \in DOMAIN saved' /\ saved'[uploads'[i].file] = i
            <4>1. CASE i = Len(uploads) + 1
                BY <2>3, <3>1, <4>1
            <4>2. CASE i # Len(uploads) + 1
                <5>1. i \in DOMAIN uploads /\ uploads'[i] = uploads[i]
                    BY <2>3, <4>2
                <5> QED BY <3>1, <5>1 DEF IInv, UploadsApart
            <4> QED BY <4>1, <4>2
        <3> QED BY <3>2 DEF UploadsApart
    <2>6. phase' = "form" /\ ~Created'
        BY <1>1, <1>5 DEF Created
    <2>7. StemsInv'
        BY <2>6 DEF StemsInv, Named
    <2>8. OptionsInv' /\ ConfigUsable'
        BY <1>1, <2>6 DEF IInv, OptionsInv, TasksSupported, ConfigUsable, LimitsUsable
    <2> QED BY <2>4, <2>5, <2>7, <2>8 DEF IInv
<1> QED BY <1>2, <1>4, <1>5

(* What the end of a form makes of the options. *)
LEMMA Normalized ==
    ASSUME NEW q, q.flag = [b \in BoolOption |-> q.flag[b]],
           q = [flag |-> q.flag, backend |-> q.backend, parse_method |-> q.parse_method,
                server_url |-> q.server_url, start_page_id |-> q.start_page_id,
                end_page_id |-> q.end_page_id],
           NEW o, o = NormalizeOptions(q)
    PROVE  /\ o.flag = [b \in BoolOption |-> o.flag[b]]
           /\ o = [flag |-> o.flag, backend |-> o.backend, parse_method |-> o.parse_method,
                   server_url |-> o.server_url, start_page_id |-> o.start_page_id,
                   end_page_id |-> o.end_page_id]
           /\ o.flag["return_original_file"] => o.flag["response_format_zip"]
           /\ o.backend # "vllm-http-client"
<1> DEFINE zipped  == [q EXCEPT !.flag["return_original_file"] = @ /\ q.flag["response_format_zip"]]
           backend == IF q.backend = "vllm-http-client" THEN "vlm-http-client" ELSE q.backend
<1>1. o = [zipped EXCEPT !.backend = backend]
    BY DEF NormalizeOptions
<1>2. /\ zipped.flag = [q.flag EXCEPT !["return_original_file"] = @ /\ q.flag["response_format_zip"]]
      /\ zipped = [flag |-> zipped.flag, backend |-> q.backend, parse_method |-> q.parse_method,
                   server_url |-> q.server_url, start_page_id |-> q.start_page_id,
                   end_page_id |-> q.end_page_id]
    OBVIOUS
<1>3. backend # "vllm-http-client"
    OBVIOUS
<1> HIDE DEF zipped, backend
<1>4. /\ o.flag = zipped.flag /\ o.backend = backend
      /\ o = [flag |-> o.flag, backend |-> o.backend, parse_method |-> o.parse_method,
              server_url |-> o.server_url, start_page_id |-> o.start_page_id,
              end_page_id |-> o.end_page_id]
    BY <1>1, <1>2
<1>5. /\ o.flag = [b \in BoolOption |-> o.flag[b]]
      /\ o.flag["response_format_zip"] = q.flag["response_format_zip"]
      /\ o.flag["return_original_file"]
            = (q.flag["return_original_file"] /\ q.flag["response_format_zip"])
    BY <1>2, <1>4 DEF BoolOption
<1> QED BY <1>3, <1>4, <1>5

LEMMA EndFormStep == IInv /\ EndForm => IInv'
<1> SUFFICES ASSUME IInv, EndForm PROVE IInv'
    OBVIOUS
<1> DEFINE o == NormalizeOptions(options)
<1>1. /\ phase = "form" /\ UNCHANGED <<config, uploads, saved, loop>>
      /\ loop = 1
    BY DEF EndForm, Reject, IInv, UploadsInv, Reading
<1>2. UploadsApart'
    BY <1>1 DEF IInv, UploadsApart
<1>3. CASE phase' = "rejected" /\ UNCHANGED <<options, raw>>
    BY <1>1, <1>2, <1>3, ReadingStep DEF IInv, OptionsInv, Reading
<1>4. CASE /\ PolicyAllows(config, o) /\ OptionsValid(o) /\ uploads # <<>> /\ options' = o
           /\ raw' = [i \in DOMAIN uploads |-> NormalizeStem(uploads[i].stem)] /\ phase' = "stems"
    <2>1. UploadsInv'
        <3>1. loop' \in 1..Len(uploads')
            <4>1. PICK S : uploads \in Seq(S)
                BY DEF IInv, UploadsInv
            <4>2. Len(uploads) \in Nat /\ Len(uploads) # 0
                BY <1>4, <4>1
            <4> QED BY <1>1, <4>2
        <3> QED BY <1>1, <1>4, <3>1 DEF IInv, UploadsInv, Reading
    <2>2. StemsInv'
        <3>1. Named' = {}
            <4>1. Named' = 1..loop' - 1
                BY <1>4 DEF Named, Created
            <4> QED BY <1>1, <4>1
        <3>2. DOMAIN raw' = DOMAIN uploads'
            BY <1>1, <1>4
        <3> QED BY <3>1, <3>2 DEF StemsInv
    <2>3. OptionsInv'
        <3>1. /\ o.flag = [b \in BoolOption |-> o.flag[b]]
              /\ o = [flag |-> o.flag, backend |-> o.backend, parse_method |-> o.parse_method,
                      server_url |-> o.server_url, start_page_id |-> o.start_page_id,
                      end_page_id |-> o.end_page_id]
              /\ o.flag["return_original_file"] => o.flag["response_format_zip"]
              /\ o.backend # "vllm-http-client"
            BY Normalized DEF IInv, OptionsInv
        <3> HIDE DEF o
        <3>2. o.backend = "vlm-http-client" /\ o.start_page_id <= o.end_page_id
            BY <1>4, <3>1 DEF OptionsValid
        <3>3. config.public_bind_exposed => config.allow_public_http_client
            BY <1>4, <3>2 DEF PolicyAllows, HttpClientBackend
        <3>4. TasksSupported'
            BY <1>1, <1>4, <3>1, <3>2, <3>3 DEF TasksSupported
        <3> QED BY <1>4, <3>1, <3>4 DEF OptionsInv
    <2>4. ConfigUsable'
        BY <1>1 DEF IInv, ConfigUsable, LimitsUsable
    <2> QED BY <1>2, <2>1, <2>2, <2>3, <2>4 DEF IInv
<1>5. \/ phase' = "rejected" /\ UNCHANGED <<options, raw>>
      \/ /\ PolicyAllows(config, o) /\ OptionsValid(o) /\ uploads # <<>> /\ options' = o
         /\ raw' = [i \in DOMAIN uploads |-> NormalizeStem(uploads[i].stem)] /\ phase' = "stems"
    BY DEF EndForm, Reject
<1> QED BY <1>3, <1>4, <1>5

-----------------------------------------------------------------------------
(* The naming.                                                             *)

(* A stem is kept when nobody has taken it, and otherwise is one nobody    *)
(* has and nobody brought.                                                 *)
LEMMA StemIsFree ==
    ASSUME phase = "stems", loop \in 1..Len(uploads), Len(uploads) \in Nat,
           KeepsName \/ FreeSuffixes # {}
    PROVE  \/ KeepsName /\ StemForLoop = raw[loop]
           \/ /\ ~KeepsName /\ Key(StemForLoop) \notin RawKeys \cup Assigned
              /\ \E n \in 1..MaxSuffix : StemForLoop = StemCandidate(raw[loop], n)
<1>1. CASE KeepsName
    BY <1>1 DEF StemForLoop
<1>2. CASE ~KeepsName
    <2> DEFINE free == FreeSuffixes
               n    == CHOOSE k \in free : \A l \in free : k <= l
    <2>1. free \in SUBSET Nat /\ free \subseteq 1..MaxSuffix
        <3>1. IsFiniteSet(SeenBefore)
            <4>1. SeenBefore \subseteq 1..loop - 1 /\ loop - 1 \in Int
                BY DEF SeenBefore
            <4>2. IsFiniteSet(1..loop - 1)
                BY <4>1, FS_Interval
            <4> QED BY <4>1, <4>2, FS_Subset
        <3>2. Cardinality(SeenBefore) \in Nat
            BY <3>1, FS_CardinalityType
        <3> QED BY <3>2, IntakeAssumption DEF FreeSuffixes
    <2> HIDE DEF free
    <2>2. n \in free
        BY <1>2, <2>1, SearchFinds DEF free
    <2> HIDE DEF n
    <2>3. FreeStem(StemCandidate(raw[loop], n))
        BY <2>2 DEF free, FreeSuffixes
    <2>4. StemForLoop = StemCandidate(raw[loop], n)
        BY <1>2, Zenon DEF StemForLoop, n, free
    <2> QED BY <1>2, <2>1, <2>2, <2>3, <2>4 DEF FreeStem
<1> QED BY <1>1, <1>2

LEMMA UniquifyStemStep == IInv /\ UniquifyStem => IInv'
<1> SUFFICES ASSUME IInv, UniquifyStem PROVE IInv'
    OBVIOUS
<1> DEFINE stem == StemForLoop
<1>1. /\ phase = "stems" /\ UNCHANGED <<config, options, saved, raw>>
      /\ KeepsName \/ FreeSuffixes # {}
      /\ uploads' = [uploads EXCEPT ![loop].stem = stem]
      /\ \/ loop < Len(uploads) /\ loop' = loop + 1 /\ phase' = "stems"
         \/ loop = Len(uploads) /\ loop' = 1 /\ phase' = "parsing"
    BY DEF UniquifyStem
<1>2. PICK S : uploads \in Seq(S)
    BY DEF IInv, UploadsInv
<1>3. /\ loop \in 1..Len(uploads) /\ Len(uploads) \in Nat /\ DOMAIN uploads = 1..Len(uploads)
      /\ DOMAIN raw = DOMAIN uploads
    BY <1>1, <1>2 DEF IInv, UploadsInv, StemsInv
<1>4. \/ KeepsName /\ stem = raw[loop]
      \/ ~KeepsName /\ Key(stem) \notin RawKeys \cup Assigned
    BY <1>1, <1>3, StemIsFree
<1> HIDE DEF stem
<1>5. /\ DOMAIN uploads' = DOMAIN uploads /\ Len(uploads') = Len(uploads)
      /\ \A i \in DOMAIN uploads : i # loop => uploads'[i] = uploads[i]
      /\ uploads'[loop] = [stem |-> stem, file |-> uploads[loop].file, suffix |-> uploads[loop].suffix]
      /\ \E T : uploads' \in Seq(T)
    <2> DEFINE new == [uploads[loop] EXCEPT !.stem = stem]
    <2>1. uploads' = [uploads EXCEPT ![loop] = new]
        BY <1>1
    <2>2. uploads[loop] = [stem |-> uploads[loop].stem, file |-> uploads[loop].file,
                           suffix |-> uploads[loop].suffix]
        BY <1>3 DEF IInv, UploadsInv
    <2>3. new = [stem |-> stem, file |-> uploads[loop].file, suffix |-> uploads[loop].suffix]
        BY <2>2
    <2> HIDE DEF new
    <2>4. uploads' \in Seq(S \cup {new}) /\ DOMAIN uploads' = DOMAIN uploads
        BY <1>2, <1>3, <2>1
    <2>5. Len(uploads') = Len(uploads)
        BY <1>2, <1>3, <2>4
    <2> QED BY <1>3, <2>1, <2>3, <2>4, <2>5
<1>6. UploadsInv'
    <2>1. \A i \in DOMAIN uploads' :
             uploads'[i] = [stem |-> uploads'[i].stem, file |-> uploads'[i].file,
                            suffix |-> uploads'[i].suffix]
        BY <1>3, <1>5 DEF IInv, UploadsInv
    <2>2. loop' \in 1..Len(uploads') /\ phase' \notin Reading
        BY <1>1, <1>3, <1>5 DEF Reading
    <2>3. uploads' # <<>>
        BY <1>3, <1>5
    <2> QED BY <1>5, <2>1, <2>2, <2>3 DEF UploadsInv
<1>7. UploadsApart'
    <2>1. \A i \in DOMAIN uploads : uploads'[i].file = uploads[i].file
        BY <1>5
    <2> QED BY <1>1, <1>5, <2>1 DEF IInv, UploadsApart
<1>8. StemsInv'
    <2>1. Named = 1..loop - 1 /\ Named' = 1..loop /\ Named' = Named \cup {loop}
        <3>1. Named = 1..loop - 1
            BY <1>1 DEF Named, Created
        <3>2. CASE loop < Len(uploads) /\ loop' = loop + 1 /\ phase' = "stems"
            BY <1>3, <3>1, <3>2 DEF Named, Created
        <3>3. CASE loop = Len(uploads) /\ phase' = "parsing"
            <4>1. Named' = DOMAIN uploads'
                BY <3>3 DEF Named, Created
            <4> QED BY <1>3, <1>5, <3>1, <3>3, <4>1
        <3> QED BY <1>1, <3>2, <3>3
    <2>2. RawKeys' = RawKeys /\ \A i \in DOMAIN raw : Key(raw[i]) \in RawKeys
        BY <1>1 DEF RawKeys, Key
    <2>3. \A i \in Named : i # loop /\ i \in DOMAIN uploads /\ uploads'[i] = uploads[i]
        BY <1>3, <1>5, <2>1
    <2>4. \A i \in Named : Key(uploads[i].stem) \in Assigned
        BY <2>1 DEF Assigned
    <2>5. uploads'[loop].stem = stem /\ Key(stem) \notin Assigned
        BY <1>4, <1>5 DEF KeepsName
    <2>6. \A i \in Named' : uploads'[i].stem = raw'[i] \/ Key(uploads'[i].stem) \notin RawKeys'
        <3>1. stem = raw[loop] \/ Key(stem) \notin RawKeys
            BY <1>4
        <3>2. \A i \in Named : uploads[i].stem = raw[i] \/ Key(uploads[i].stem) \notin RawKeys
            BY DEF IInv, StemsInv
        <3>3. \A i \in Named : uploads'[i].stem = raw'[i] \/ Key(uploads'[i].stem) \notin RawKeys'
            BY <1>1, <2>2, <2>3, <3>2
        <3>4. uploads'[loop].stem = raw'[loop] \/ Key(uploads'[loop].stem) \notin RawKeys'
            BY <1>1, <2>2, <2>5, <3>1
        <3> QED BY <2>1, <3>3, <3>4
    <2>7. \A i, j \in Named' : i # j => Key(uploads'[i].stem) # Key(uploads'[j].stem)
        BY <2>1, <2>3, <2>4, <2>5 DEF IInv, StemsInv
    <2>8. ASSUME NEW i \in Named', \A j \in 1..i - 1 : Key(raw'[j]) # Key(raw'[i])
          PROVE  uploads'[i].stem = raw'[i]
        <3>1. \A j \in 1..i - 1 : Key(raw[j]) # Key(raw[i])
            BY <1>1, <2>8
        <3>2. CASE i \in Named
            BY <1>1, <2>3, <3>1, <3>2 DEF IInv, StemsInv
        <3>3. CASE i = loop
            <4>1. SeenBefore = {}
                BY <3>1, <3>3 DEF SeenBefore
            <4>2. Key(raw[loop]) \in RawKeys
                BY <1>3, <2>2
            <4>3. \A j \in Named : Key(uploads[j].stem) # Key(raw[loop])
                BY <2>1, <3>1, <3>3, <4>2 DEF IInv, StemsInv
            <4>4. KeepsName
                BY <2>1, <4>1, <4>3 DEF KeepsName, Assigned
            <4> QED BY <1>1, <1>4, <2>5, <3>3, <4>4
        <3> QED BY <2>1, <3>2, <3>3
    <2>9. DOMAIN raw' = DOMAIN uploads'
        BY <1>1, <1>3, <1>5
    <2> QED BY <2>6, <2>7, <2>8, <2>9 DEF StemsInv
<1>9. OptionsInv' /\ ConfigUsable'
    <2>1. uploads' # <<>>
        BY <1>3, <1>5
    <2> QED BY <1>1, <2>1 DEF IInv, OptionsInv, TasksSupported, ConfigUsable, LimitsUsable
<1> QED BY <1>6, <1>7, <1>8, <1>9 DEF IInv

-----------------------------------------------------------------------------
(* The lengths of names.                                                   *)

Name == Seq(DOMAIN Width)

(* The lengths of the characters of a name. *)
Widths(s) == [i \in DOMAIN s |-> Width[s[i]]]

LEMMA WidthsJoin ==
    ASSUME NEW s \in Name, NEW t \in Name
    PROVE  Widths(s) \in Seq(Nat) /\ Widths(s \o t) = Widths(s) \o Widths(t)
<1>1. \A c \in DOMAIN Width : Width[c] \in Nat
    BY IntakeAssumption
<1>2. \A u \in Name : Widths(u) \in Seq(Nat) /\ Len(Widths(u)) = Len(u)
    BY <1>1 DEF Name, Widths
<1>3. s \o t \in Name
    BY ConcatProperties DEF Name
<1>4. /\ Len(Widths(s \o t)) = Len(Widths(s) \o Widths(t))
      /\ Widths(s \o t) \in Seq(Nat) /\ Widths(s) \o Widths(t) \in Seq(Nat)
    <2>1. Len(s \o t) = Len(s) + Len(t)
        BY ConcatProperties DEF Name
    <2>2. Len(Widths(s) \o Widths(t)) = Len(Widths(s)) + Len(Widths(t)) /\ Widths(s) \o Widths(t) \in Seq(Nat)
        BY <1>2, ConcatProperties
    <2> QED BY <1>2, <1>3, <2>1, <2>2
<1>5. ASSUME NEW i \in 1..Len(Widths(s \o t))
      PROVE  Widths(s \o t)[i] = (Widths(s) \o Widths(t))[i]
    <2>1. /\ Len(s) \in Nat /\ Len(t) \in Nat /\ Len(s \o t) = Len(s) + Len(t) /\ i \in 1..Len(s) + Len(t)
          /\ DOMAIN (s \o t) = 1..Len(s \o t) /\ DOMAIN s = 1..Len(s) /\ DOMAIN t = 1..Len(t)
        BY <1>2, <1>3, ConcatProperties, LenProperties DEF Name
    <2>2. Widths(s \o t)[i] = Width[(s \o t)[i]]
        BY <2>1 DEF Widths
    <2>3. (s \o t)[i] = IF i <= Len(s) THEN s[i] ELSE t[i - Len(s)]
        BY <2>1, ConcatProperties DEF Name
    <2>4. (Widths(s) \o Widths(t))[i] = IF i <= Len(s) THEN Widths(s)[i] ELSE Widths(t)[i - Len(s)]
        BY <1>2, <2>1, ConcatProperties
    <2>5. /\ i <= Len(s) => Widths(s)[i] = Width[s[i]]
          /\ ~ (i <= Len(s)) => Widths(t)[i - Len(s)] = Width[t[i - Len(s)]]
        BY <2>1 DEF Widths
    <2> QED BY <2>2, <2>3, <2>4, <2>5
<1> QED BY <1>2, <1>4, <1>5, SeqEqual

(* A name of two parts is as long as both. *)
LEMMA BytesOfBoth ==
    ASSUME NEW s \in Name, NEW t \in Name
    PROVE  /\ Bytes(s) \in Nat /\ Bytes(t) \in Nat
           /\ Bytes(s \o t) = Bytes(s) + Bytes(t)
<1>1. \A u : Bytes(u) = SumFunction(Widths(u))
    BY DEF Bytes, Widths
<1>2. Widths(s) \in Seq(Nat) /\ Widths(t) \in Seq(Nat)
    BY WidthsJoin
<1>3. Widths(s \o t) = Widths(s) \o Widths(t)
    BY WidthsJoin
<1> QED BY <1>1, <1>2, <1>3, SumOfBoth

(* What a name is cut to fits. *)
LEMMA Truncated ==
    ASSUME NEW s \in Name, NEW max \in Nat
    PROVE  Truncate(s, max) \in Name /\ Bytes(Truncate(s, max)) <= max
<1> DEFINE fits == {n \in 0..Len(s) : Bytes(SubSeq(s, 1, n)) <= max}
           cut  == CHOOSE n \in fits : \A k \in fits : k <= n
<1>1. Len(s) \in Nat
    BY LenProperties DEF Name
<1>2. 0 \in fits
    <2>1. SubSeq(s, 1, 0) = <<>>
        BY SubSeqEmpty
    <2>2. <<>> \in Name /\ Len(<<>>) = 0
        BY EmptySeq DEF Name
    <2>3. Bytes(<<>>) = 0
        <3>1. [i \in DOMAIN <<>> |-> Width[<<>>[i]]] = <<>>
            OBVIOUS
        <3> QED BY <3>1, SumOfOne DEF Bytes
    <2>4. Bytes(SubSeq(s, 1, 0)) = 0
        BY <2>1, <2>3
    <2>5. 0 \in 0..Len(s) /\ Bytes(SubSeq(s, 1, 0)) <= max
        BY <1>1, <2>4
    <2> QED BY <2>5
<1>3. \E n \in fits : \A k \in fits : k <= n
    <2> DEFINE rest == {Len(s) - n : n \in fits}
    <2>1. rest \in SUBSET Nat /\ Len(s) - 0 \in rest
        BY <1>1, <1>2
    <2> HIDE DEF rest
    <2>2. PICK r \in rest : \A q \in rest : r <= q
        BY <2>1, LeastNumber
    <2>3. PICK n \in fits : r = Len(s) - n
        BY <2>2 DEF rest
    <2>4. ASSUME NEW k \in fits PROVE k <= n
        <3>1. Len(s) - k \in rest
            BY DEF rest
        <3>2. k \in Int /\ n \in Int
            BY <1>1
        <3> HIDE DEF fits
        <3> QED BY <1>1, <2>2, <2>3, <3>1, <3>2
    <2> QED BY <2>4
<1>4. cut \in fits
    <2> HIDE DEF fits
    <2> QED BY <1>3
<1>5. Truncate(s, max) = SubSeq(s, 1, cut)
    BY DEF Truncate
<1> HIDE DEF cut
<1>6. cut \in 0..Len(s) /\ Bytes(SubSeq(s, 1, cut)) <= max
    BY <1>4
<1>7. SubSeq(s, 1, cut) \in Name
    <2>1. \A i \in 1..cut : s[i] \in DOMAIN Width
        BY <1>1, <1>6, ElementOfSeq DEF Name
    <2> QED BY <1>1, <1>6, <2>1, SubSeqProperties DEF Name
<1> QED BY <1>5, <1>6, <1>7

-----------------------------------------------------------------------------
(* The shapes of the service's data.                                       *)

Field == [name : STRING, value : STRING, named : BOOLEAN, stem : Name, ext : STRING]

(* The stems that a file system takes. *)
Fitting == {s \in Name : Bytes(s) <= MaxStemBytes}

IntakeShape ==
    /\ phase \in Phase /\ loop \in 1..Len(uploads) + 1
    /\ form \in Seq(Field)
    /\ \A i \in DOMAIN uploads :
          uploads[i].stem \in Fitting /\ DocumentKind(uploads[i].suffix) # None
    /\ \A i \in DOMAIN raw : raw[i] \in Fitting

StreamShape ==
    /\ thread \in {"idle", "adding", "finishing", "failing", "ended"}
    /\ client \in {"none", "reading", "complete", "aborted", "left"}
    /\ lease \in BOOLEAN
    /\ Listed(channel) /\ Len(channel) <= ChannelCapacity
    /\ Length(buffer) < ChunkSize

ShapesInv == IntakeShape /\ StreamShape

LEMMA NormalizedFits ==
    ASSUME NEW s \in Name
    PROVE  NormalizeStem(s) \in Fitting
BY Truncated, IntakeAssumption DEF NormalizeStem, Fitting

(* A number makes no stem too long. *)
LEMMA CandidateFits ==
    ASSUME NEW s \in Name, NEW n \in 1..MaxSuffix
    PROVE  StemCandidate(s, n) \in Fitting
<1> DEFINE suffix == <<"_", ToString(n)>>
<1>1. suffix \in Name
    <2>1. "_" \in DOMAIN Width /\ ToString(n) \in DOMAIN Width
        BY NameAssumption
    <2>2. \A C : \A x, y \in C : <<x, y>> \in Seq(C)
        OBVIOUS
    <2> QED BY <2>1, <2>2 DEF Name
<1> HIDE DEF suffix
<1>2. Bytes(suffix) \in Nat /\ MaxStemBytes \in Nat
    BY <1>1, BytesOfBoth, IntakeAssumption
<1>3. StemCandidate(s, n) =
         CASE Bytes(s \o suffix) <= MaxStemBytes -> s \o suffix
           [] Bytes(suffix) >= MaxStemBytes      -> Truncate(suffix, MaxStemBytes)
           [] OTHER -> Truncate(s, MaxStemBytes - Bytes(suffix)) \o suffix
    BY DEF StemCandidate, suffix
<1>4. ASSUME Bytes(s \o suffix) <= MaxStemBytes PROVE s \o suffix \in Fitting
    BY <1>1, <1>4, ConcatProperties DEF Name, Fitting
<1>5. Truncate(suffix, MaxStemBytes) \in Fitting
    BY <1>1, <1>2, Truncated DEF Fitting
<1>6. ASSUME ~ (Bytes(suffix) >= MaxStemBytes)
      PROVE  Truncate(s, MaxStemBytes - Bytes(suffix)) \o suffix \in Fitting
    <2> DEFINE left == MaxStemBytes - Bytes(suffix)
               cut  == Truncate(s, left)
    <2>1. left \in Nat
        BY <1>2, <1>6
    <2>2. cut \in Name /\ Bytes(cut) <= left
        BY <2>1, Truncated
    <2> HIDE DEF cut
    <2>3. cut \o suffix \in Name
        BY <1>1, <2>2, ConcatProperties DEF Name
    <2>4. Bytes(cut \o suffix) = Bytes(cut) + Bytes(suffix) /\ Bytes(cut) \in Nat
        BY <1>1, <2>2, BytesOfBoth
    <2>5. Bytes(cut \o suffix) <= MaxStemBytes
        BY <1>2, <2>2, <2>4
    <2>6. cut \o suffix \in Fitting
        BY <2>3, <2>5 DEF Fitting
    <2> QED BY <2>6 DEF cut
<1> HIDE DEF Fitting
<1> QED BY <1>3, <1>4, <1>5, <1>6

-----------------------------------------------------------------------------
(* The shapes are kept.                                                    *)

LEMMA InitShapes == Init => ShapesInv
<1> SUFFICES ASSUME Init PROVE ShapesInv
    OBVIOUS
<1>1. /\ phase = "starting" /\ loop = 1 /\ form = <<>> /\ uploads = <<>> /\ raw = <<>>
      /\ thread = "idle" /\ client = "none" /\ lease = FALSE /\ channel = <<>> /\ buffer = <<>>
    BY DEF Init, IntakeInit, ZipInit
<1>2. IntakeShape
    <2>1. <<>> \in Seq(Field) /\ Len(<<>>) = 0 /\ DOMAIN <<>> = {}
        OBVIOUS
    <2> QED BY <1>1, <2>1 DEF IntakeShape, Phase
<1>3. StreamShape
    <2>1. Listed(<<>>) /\ Len(<<>>) = 0 /\ Length(<<>>) = 0
        BY OneListed, OneUnit
    <2>2. 0 <= ChannelCapacity /\ 0 < ChunkSize
        BY ZipAssumption
    <2>3. Listed(channel) /\ Len(channel) <= ChannelCapacity /\ Length(buffer) < ChunkSize
        BY <1>1, <2>1, <2>2, Zenon
    <2> QED BY <1>1, <2>3 DEF StreamShape
<1> QED BY <1>2, <1>3 DEF ShapesInv

LEMMA IntakeShapeStep ==
    ASSUME IInv, IntakeShape, Intake
    PROVE  IntakeShape'
<1>1. PICK S : uploads \in Seq(S)
    BY DEF IInv, UploadsInv
<1>2. Len(uploads) \in Nat /\ DOMAIN uploads = 1..Len(uploads)
    BY <1>1
<1>3. CASE Start
    BY <1>3 DEF Start, intakeVars, IntakeShape, Phase
<1>4. CASE ReceiveForm
    <2>1. form' \in Seq(Field)
        BY <1>4, NameAssumption DEF ReceiveForm, Field, Name
    <2> QED BY <1>4, <2>1 DEF ReceiveForm, IntakeShape, Phase
<1>5. CASE ReadOption
    <2>1. form' \in Seq(Field)
        BY <1>5, HeadTailProperties DEF ReadOption, Reject, IntakeShape
    <2> QED BY <1>5, <2>1 DEF ReadOption, Reject, IntakeShape, Phase
<1>6. CASE SaveField
    <2> DEFINE f    == Head(form)
               stem == NormalizeStem(f.stem)
               new  == [stem |-> stem, file |-> UniqueDestination(stem, f.ext), suffix |-> Suffix(f.ext)]
    <2>1. form # <<>> /\ form \in Seq(Field) /\ UNCHANGED <<raw, loop>> /\ phase = "form" /\ loop = 1
        BY <1>6 DEF SaveField, Reject, IntakeShape, IInv, UploadsInv, Reading
    <2>2. f \in Field /\ Tail(form) \in Seq(Field)
        BY <2>1, HeadTailProperties
    <2>3. \/ UNCHANGED <<uploads, form>> /\ phase' = "rejected"
          \/ /\ uploads' = Append(uploads, new) /\ form' = Tail(form) /\ phase' = phase
             /\ DocumentKind(Suffix(f.ext)) # None
        BY <1>6 DEF SaveField, Reject, Accepted
    <2>4. stem \in Fitting
        BY <2>2, NormalizedFits DEF Field
    <2> HIDE DEF f, stem
    <2>5. CASE UNCHANGED <<uploads, form>> /\ phase' = "rejected"
        BY <2>1, <2>5 DEF IntakeShape, Phase
    <2>6. CASE /\ uploads' = Append(uploads, new) /\ form' = Tail(form) /\ phase' = phase
               /\ DocumentKind(Suffix(f.ext)) # None
        <3>1. new.stem \in Fitting /\ DocumentKind(new.suffix) # None
            BY <2>4, <2>6
        <3> HIDE DEF new
        <3>2. uploads \in Seq(S \cup {new}) /\ new \in S \cup {new}
            BY <1>1
        <3>3. /\ Len(uploads') = Len(uploads) + 1 /\ DOMAIN uploads' = 1..Len(uploads) + 1
              /\ \A i \in 1..Len(uploads) + 1 :
                    uploads'[i] = IF i = Len(uploads) + 1 THEN new ELSE uploads[i]
            BY <2>6, <3>2
        <3>4. \A i \in DOMAIN uploads' :
                  uploads'[i].stem \in Fitting /\ DocumentKind(uploads'[i].suffix) # None
            <4> SUFFICES ASSUME NEW i \in DOMAIN uploads'
                         PROVE  uploads'[i].stem \in Fitting /\ DocumentKind(uploads'[i].suffix) # None
                OBVIOUS
            <4>1. CASE i = Len(uploads) + 1
                BY <3>1, <3>3, <4>1
            <4>2. CASE i # Len(uploads) + 1
                <5>1. i \in DOMAIN uploads /\ uploads'[i] = uploads[i]
                    BY <1>2, <3>3, <4>2
                <5> QED BY <5>1 DEF IntakeShape
            <4> QED BY <4>1, <4>2
        <3>5. loop' \in 1..Len(uploads') + 1
            BY <1>2, <2>1, <3>3
        <3>6. /\ phase' \in Phase /\ form' \in Seq(Field)
              /\ \A i \in DOMAIN raw' : raw'[i] \in Fitting
            BY <2>1, <2>2, <2>6 DEF IntakeShape
        <3> QED BY <3>4, <3>5, <3>6 DEF IntakeShape
    <2> QED BY <2>3, <2>5, <2>6
<1>7. CASE EndForm
    <2>1. /\ UNCHANGED <<form, uploads, loop>> /\ phase' \in {"stems", "rejected"}
          /\ raw' = raw \/ raw' = [i \in DOMAIN uploads |-> NormalizeStem(uploads[i].stem)]
        BY <1>7 DEF EndForm, Reject
    <2>2. \A i \in DOMAIN raw' : raw'[i] \in Fitting
        <3>1. \A i \in DOMAIN uploads : NormalizeStem(uploads[i].stem) \in Fitting
            <4> SUFFICES ASSUME NEW i \in DOMAIN uploads PROVE NormalizeStem(uploads[i].stem) \in Fitting
                OBVIOUS
            <4>1. uploads[i].stem \in Name
                BY DEF IntakeShape, Fitting
            <4> QED BY <4>1, NormalizedFits
        <3>2. CASE raw' = raw
            BY <3>2 DEF IntakeShape
        <3>3. CASE raw' = [i \in DOMAIN uploads |-> NormalizeStem(uploads[i].stem)]
            BY <3>1, <3>3
        <3> QED BY <2>1, <3>2, <3>3
    <2> QED BY <2>1, <2>2 DEF IntakeShape, Phase
<1>8. CASE UniquifyStem
    <2> DEFINE stem == StemForLoop
    <2>1. /\ phase = "stems" /\ UNCHANGED <<form, raw>>
          /\ KeepsName \/ FreeSuffixes # {}
          /\ uploads' = [uploads EXCEPT ![loop].stem = stem]
          /\ \/ loop < Len(uploads) /\ loop' = loop + 1 /\ phase' = "stems"
             \/ loop = Len(uploads) /\ loop' = 1 /\ phase' = "parsing"
        BY <1>8 DEF UniquifyStem
    <2>2. loop \in 1..Len(uploads) /\ DOMAIN raw = DOMAIN uploads
        <3>1. phase = "stems"
            BY <2>1
        <3> QED BY <3>1 DEF IInv, UploadsInv, StemsInv
    <2>3. stem \in Fitting
        <3>1. raw[loop] \in Fitting /\ raw[loop] \in Name
            BY <1>2, <2>2 DEF IntakeShape, Fitting
        <3>2. stem = raw[loop] \/ \E n \in 1..MaxSuffix : stem = StemCandidate(raw[loop], n)
            <4>1. phase = "stems" /\ (KeepsName \/ FreeSuffixes # {})
                BY <2>1
            <4> QED BY <1>2, <2>2, <4>1, StemIsFree
        <3> HIDE DEF stem
        <3> QED BY <3>1, <3>2, CandidateFits
    <2> HIDE DEF stem
    <2>4. /\ Len(uploads') = Len(uploads) /\ DOMAIN uploads' = DOMAIN uploads
          /\ \A i \in DOMAIN uploads : i # loop => uploads'[i] = uploads[i]
          /\ uploads'[loop] = [uploads[loop] EXCEPT !.stem = stem]
        BY <1>1, <1>2, <2>1, <2>2
    <2>5. uploads'[loop].stem = stem /\ uploads'[loop].suffix = uploads[loop].suffix
        <3>1. uploads[loop] = [stem |-> uploads[loop].stem, file |-> uploads[loop].file,
                               suffix |-> uploads[loop].suffix]
            BY <1>2, <2>2 DEF IInv, UploadsInv
        <3> QED BY <2>4, <3>1
    <2>6. \A i \in DOMAIN uploads' :
              uploads'[i].stem \in Fitting /\ DocumentKind(uploads'[i].suffix) # None
        <3> SUFFICES ASSUME NEW i \in DOMAIN uploads'
                     PROVE  uploads'[i].stem \in Fitting /\ DocumentKind(uploads'[i].suffix) # None
            OBVIOUS
        <3>1. uploads[i].stem \in Fitting /\ DocumentKind(uploads[i].suffix) # None
            BY <2>4 DEF IntakeShape
        <3>2. CASE i = loop
            BY <2>3, <2>5, <3>1, <3>2
        <3>3. CASE i # loop
            BY <2>4, <3>1, <3>3
        <3> QED BY <3>2, <3>3
    <2>7. loop' \in 1..Len(uploads') + 1 /\ phase' \in Phase
        BY <1>2, <2>1, <2>2, <2>4 DEF Phase
    <2>8. form' \in Seq(Field) /\ \A i \in DOMAIN raw' : raw'[i] \in Fitting
        <3>1. UNCHANGED <<form, raw>>
            BY <2>1
        <3> QED BY <3>1 DEF IntakeShape
    <2> QED BY <2>6, <2>7, <2>8 DEF IntakeShape
<1> QED BY <1>3, <1>4, <1>5, <1>6, <1>7, <1>8 DEF Intake

(* The rest of the service leaves what the intake made as it is. *)
LEMMA OverShapeStep ==
    ASSUME UploadsInv, IntakeShape,
           WriteDocument \/ ReadResult \/ AddResult \/ AnswerJson \/ AddDocument \/ Archiving
    PROVE  IntakeShape'
<1>1. UNCHANGED <<uploads, raw, form>> /\ Created'
    BY IntakeOver DEF intakeVars
<1>2. phase' \in Phase
    BY <1>1 DEF Created, Phase
<1>3. Len(uploads) \in Nat /\ loop \in 1..Len(uploads) + 1
    BY DEF UploadsInv, IntakeShape
<1>4. loop' \in 1..Len(uploads) + 1
    <2>1. CASE WriteDocument
        <3>1. loop \in 1..Len(uploads)
            BY <2>1 DEF WriteDocument, UploadsInv
        <3>2. loop' = IF loop < Len(uploads) THEN loop + 1 ELSE 1
            BY <2>1 DEF WriteDocument
        <3> QED BY <1>3, <3>1, <3>2
    <2>2. CASE AddResult
        BY <1>3, <2>2 DEF AddResult
    <2>3. CASE AddDocument
        BY <1>3, <2>3 DEF AddDocument
    <2>4. CASE ReadResult \/ AnswerJson \/ Archiving
        BY <1>3, <2>4 DEF ReadResult, AnswerJson, Archiving
    <2> QED BY <2>1, <2>2, <2>3, <2>4
<1> QED BY <1>1, <1>2, <1>4 DEF IntakeShape

(* Whatever is sent, the channel holds no more than it has room for. *)
LEMMA SendShape ==
    ASSUME Listed(channel), Len(channel) < ChannelCapacity, NEW x
    PROVE  Listed(Append(channel, x)) /\ Len(Append(channel, x)) <= ChannelCapacity
<1>1. PICK S : channel \in Seq(S)
    BY DEF Listed
<1>2. channel \in Seq(S \cup {x}) /\ x \in S \cup {x} /\ Len(channel) \in Nat
    BY <1>1
<1>3. Append(channel, x) \in Seq(S \cup {x}) /\ Len(Append(channel, x)) = Len(channel) + 1
    BY <1>2
<1>4. Listed(Append(channel, x))
    BY <1>3 DEF Listed
<1> QED BY <1>2, <1>3, <1>4, ZipAssumption

LEMMA StreamShapeStep ==
    ASSUME StreamShape, Next
    PROVE  StreamShape'
<1> DEFINE Threads == {"idle", "adding", "finishing", "failing", "ended"}
           Clients == {"none", "reading", "complete", "aborted", "left"}
           Room(items) == Listed(items) /\ Len(items) <= ChannelCapacity
<1>1. /\ thread \in Threads /\ client \in Clients /\ lease \in BOOLEAN
      /\ Room(channel) /\ Length(buffer) < ChunkSize
    BY DEF StreamShape
<1>2. ASSUME /\ thread' \in Threads /\ client' \in Clients /\ lease' \in BOOLEAN
             /\ Room(channel') /\ Length(buffer') < ChunkSize
      PROVE  StreamShape'
    <2>1. Length(buffer)' = Length(buffer')
        BY DEF Length
    <2>2. Listed(channel)' <=> Listed(channel')
        BY DEF Listed
    <2> QED BY <1>2, <2>1, <2>2 DEF StreamShape
<1>3. Length(<<>>) < ChunkSize
    BY OneUnit, ZipAssumption
<1>4. CASE UNCHANGED zipVars
    BY <1>1, <1>2, <1>4 DEF zipVars, writerVars
<1>5. ASSUME NEW units, NEW next, SendChunk(units, next), next \in Threads
      PROVE  thread' \in Threads /\ Room(channel') /\ Length(buffer') < ChunkSize
    <2>1. buffer' = <<>> /\ thread' \in {next, "failing"}
        BY <1>5 DEF SendChunk
    <2>2. Room(channel')
        <3>1. CASE channel' = channel
            BY <1>1, <3>1
        <3>2. CASE /\ Len(channel) < ChannelCapacity
                   /\ channel' = Append(channel, [ok |-> TRUE, units |-> units])
            BY <1>1, <3>2, SendShape
        <3> QED BY <1>5, <3>1, <3>2 DEF SendChunk
    <2> HIDE DEF Room
    <2> QED BY <1>3, <1>5, <2>1, <2>2
<1>6. CASE ReadResult
    <2>1. thread' \in {thread, "adding"} /\ client' \in {client, "reading"} /\ lease' = TRUE
        BY <1>6 DEF ReadResult
    <2>2. channel' = channel /\ buffer' = buffer
        BY <1>6 DEF ReadResult, writerVars
    <2> HIDE DEF Room
    <2> QED BY <1>1, <1>2, <2>1, <2>2
<1>7. CASE AddResult \/ AnswerJson \/ AddDocument
    <2>1. UNCHANGED <<thread, client, channel, buffer>> /\ lease' \in {lease, FALSE}
        BY <1>7 DEF AddResult, AnswerJson, AddDocument, writerVars
    <2> HIDE DEF Room
    <2> QED BY <1>1, <1>2, <2>1
<1>8. CASE WriteUnit
    <2>1. thread \in {"adding", "finishing"} /\ UNCHANGED <<client, lease>>
        BY <1>8 DEF WriteUnit
    <2>2. \/ UNCHANGED <<thread, channel>> /\ Length(buffer') < ChunkSize
          \/ \E units : SendChunk(units, thread)
        BY <1>8, Zenon DEF WriteUnit
    <2> HIDE DEF Room
    <2> QED BY <1>1, <1>2, <1>5, <2>1, <2>2
<1>9. CASE FlushArchive
    <2>1. UNCHANGED client /\ lease' \in BOOLEAN
        BY <1>1, <1>9 DEF FlushArchive
    <2>2. \/ thread' = "ended" /\ UNCHANGED <<channel, buffer>>
          \/ SendChunk(buffer, "ended")
        BY <1>9 DEF FlushArchive
    <2> HIDE DEF Room
    <2> QED BY <1>1, <1>2, <1>5, <2>1, <2>2
<1>10. CASE WriteFails \/ FinishArchive
    <2>1. UNCHANGED <<client, lease, channel, buffer>> /\ thread' \in {"finishing", "failing"}
        BY <1>10 DEF WriteFails, FinishArchive, writerVars
    <2> HIDE DEF Room
    <2> QED BY <1>1, <1>2, <2>1
<1>11. CASE SendError
    <2>1. UNCHANGED <<client, buffer>> /\ thread' = "ended" /\ lease' = FALSE
        BY <1>11 DEF SendError, writerVars
    <2>2. Room(channel')
        <3>1. CASE channel' = channel
            BY <1>1, <3>1
        <3>2. CASE Len(channel) < ChannelCapacity /\ channel' = Append(channel, [ok |-> FALSE])
            BY <1>1, <3>2, SendShape
        <3> QED BY <1>11, <3>1, <3>2 DEF SendError
    <2> HIDE DEF Room
    <2> QED BY <1>1, <1>2, <2>1, <2>2
<1>12. CASE Reader
    <2>1. UNCHANGED <<thread, lease, buffer>> /\ client' \in {client, "complete", "aborted", "left"}
        BY <1>12 DEF Reader, ClientReceives, ClientSeesEnd, ClientLeaves, writerVars
    <2>2. \/ channel # <<>> /\ channel' = Tail(channel)
          \/ channel' = channel
          \/ channel' = <<>>
        BY <1>12 DEF Reader, ClientReceives, ClientSeesEnd, ClientLeaves
    <2>3. Room(channel')
        <3>1. ASSUME channel # <<>> PROVE Room(Tail(channel))
            <4>1. Listed(Tail(channel)) /\ Len(Tail(channel)) = Len(channel) - 1 /\ Len(channel) \in Nat
                BY <1>1, <3>1, Splitting, ListedFacts
            <4> QED BY <1>1, <4>1, ZipAssumption
        <3>2. Room(<<>>)
            BY OneListed, ZipAssumption
        <3> HIDE DEF Room
        <3> QED BY <1>1, <2>2, <3>1, <3>2
    <2> HIDE DEF Room
    <2> QED BY <1>1, <1>2, <2>1, <2>3
<1>13. Archiving => \/ WriteUnit \/ WriteFails \/ FlushArchive \/ SendError \/ FinishArchive \/ Reader
    BY DEF Archiving, Finish, Stream
<1>14. Next => \/ UNCHANGED zipVars \/ ReadResult \/ AddResult \/ AnswerJson \/ AddDocument \/ Archiving
    BY DEF Next, WriteDocument
<1> QED BY <1>4, <1>6, <1>7, <1>8, <1>9, <1>10, <1>11, <1>12, <1>13, <1>14

-----------------------------------------------------------------------------
(* The units of a document.                                                *)

(* The entries of B are of the files in names, each named once, and were   *)
(* read from the files of document i.                                      *)
Document(B, i, names) ==
    /\ Series(B) /\ Distinct(B) /\ NamesIn(B) = names
    /\ \A n \in LocalsOf(B) : B[n].src = i /\ B[n].name.stem = uploads[i].stem

LEMMA DocumentUnitsKind ==
    ASSUME NEW B, NEW i, NEW names, Document(B, i, names)
    PROVE  Units(B)
BY DEF Document, Series, Entries

LEMMA EmptyDocument ==
    ASSUME NEW i
    PROVE  Document(<<>>, i, {})
BY NoEntries DEF Document

LEMMA DocumentJoin ==
    ASSUME NEW i, NEW B, NEW M, Document(B, i, M), NEW C, NEW N, Document(C, i, N), M \cap N = {}
    PROVE  Document(B \o C, i, M \cup N)
<1> DEFINE D == B \o C
<1>1. Units(B) /\ Units(C)
    BY DocumentUnitsKind
<1>2. Series(D)
    BY SeriesJoin DEF Document
<1>3. /\ LocalsOf(D) = LocalsOf(B) \cup {Len(B) + n : n \in LocalsOf(C)}
      /\ NamesIn(D) = M \cup N /\ Distinct(D)
    BY <1>1, NamesJoin DEF Document
<1>4. Joins(D, B, C)
    BY <1>1, UnitsJoin
<1>5. /\ \A n \in LocalsOf(B) : D[n] = B[n]
      /\ \A n \in LocalsOf(C) : D[Len(B) + n] = C[n]
    BY <1>4 DEF Joins, LocalsOf
<1> HIDE DEF D
<1>6. ASSUME NEW n \in LocalsOf(D) PROVE D[n].src = i /\ D[n].name.stem = uploads[i].stem
    <2>1. CASE n \in LocalsOf(B)
        BY <1>5, <2>1 DEF Document
    <2>2. ASSUME NEW k \in LocalsOf(C), n = Len(B) + k
          PROVE  D[n].src = i /\ D[n].name.stem = uploads[i].stem
        BY <1>5, <2>2 DEF Document
    <2> QED BY <1>3, <2>1, <2>2
<1>7. Document(D, i, M \cup N)
    BY <1>2, <1>3, <1>6 DEF Document
<1> QED BY <1>7 DEF D

(* add_file_path of a file that was made from upload i. *)
LEMMA EntryDocument ==
    ASSUME NEW i, NEW leaf, NEW n \in Nat, NEW B, B = EntryUnits(File(i, leaf), i, n)
    PROVE  Document(B, i, {File(i, leaf)})
<1>1. /\ Series(B) /\ NamesIn(B) = {File(i, leaf)} /\ Distinct(B)
      /\ \A k \in LocalsOf(B) : B[k] = Local(File(i, leaf), i)
    BY OneEntry
<1>2. File(i, leaf).stem = uploads[i].stem
    BY DEF File, ParseDir
<1>3. \A k \in LocalsOf(B) : B[k].src = i /\ B[k].name = File(i, leaf)
    BY <1>1 DEF Local
<1> QED BY <1>1, <1>2, <1>3 DEF Document

(* The leaves of a document that the writer knows. *)
Leaf == {"md", "middle", "model", "content_list", "content_list_v2"} \cup ImageName

(* Those of the leaves in L that go into the archive. *)
Added(i, L) == {File(i, leaf) : leaf \in {l \in L : Requested(l) /\ Exists(i, l)}}

(* A result was made from the upload whose name it has. *)
OwnFiles ==
    \A r \in DOMAIN results : \A i \in DOMAIN uploads : r.stem = uploads[i].stem => results[r] = i

(* The reader looks for a result where the writer puts it: by the suffix   *)
(* of the upload as by the kind the parser passed.                         *)
LEMMA SameFile ==
    ASSUME NEW i, NEW leaf
    PROVE  ResultFile(i, leaf) = File(i, leaf)
BY DEF ResultFile, ParseDirForTaskFile, OutputSubdir, File, ParseDir

LEMMA LeafDocument ==
    ASSUME OwnFiles, NEW i \in DOMAIN uploads, NEW leaf \in Leaf
    PROVE  Document(AddIfRequested(i, leaf), i, Added(i, {leaf}))
<1>1. CASE Requested(leaf) /\ Exists(i, leaf)
    <2>1. results[File(i, leaf)] = i
        <3>1. File(i, leaf) \in DOMAIN results /\ File(i, leaf).stem = uploads[i].stem
            BY <1>1, SameFile DEF Exists, File, ParseDir
        <3> QED BY <3>1 DEF OwnFiles
    <2>2. Pieces[leaf] \in Nat
        BY LeafAssumption DEF Leaf
    <2>3. AddIfRequested(i, leaf) = EntryUnits(File(i, leaf), i, Pieces[leaf])
        BY <1>1, <2>1, SameFile DEF AddIfRequested, Entry
    <2>4. Added(i, {leaf}) = {File(i, leaf)}
        BY <1>1 DEF Added
    <2> QED BY <2>2, <2>3, <2>4, EntryDocument
<1>2. CASE ~ (Requested(leaf) /\ Exists(i, leaf))
    <2>1. AddIfRequested(i, leaf) = <<>> /\ Added(i, {leaf}) = {}
        BY <1>2 DEF AddIfRequested, Added
    <2> QED BY <2>1, EmptyDocument
<1> QED BY <1>1, <1>2

(* The leaves of a document, each once, one after the other. *)
LEMMA LeavesDocument ==
    ASSUME OwnFiles, NEW i \in DOMAIN uploads,
           NEW leaves \in Seq(Leaf), leaves # <<>>,
           \A j, k \in 1..Len(leaves) : leaves[j] = leaves[k] => j = k
    PROVE  Document(FlattenSeq([n \in DOMAIN leaves |-> AddIfRequested(i, leaves[n])]), i,
                    Added(i, {leaves[k] : k \in 1..Len(leaves)}))
<1> DEFINE n == Len(leaves)
           part(k) == AddIfRequested(i, leaves[k])
           parts == [k \in DOMAIN leaves |-> part(k)]
           U == UNION {{part(k)[j] : j \in 1..Len(part(k))} : k \in 1..n}
           T == Seq(U)
           upto(m) == Added(i, {leaves[k] : k \in 1..m})
<1>1. n \in Nat \ {0} /\ DOMAIN leaves = 1..n
    BY EmptySeq
<1>2. \A k \in 1..n : Document(part(k), i, Added(i, {leaves[k]}))
    <2> SUFFICES ASSUME NEW k \in 1..n PROVE Document(part(k), i, Added(i, {leaves[k]}))
        OBVIOUS
    <2>1. leaves[k] \in Leaf
        BY <1>1
    <2> QED BY <2>1, LeafDocument
<1>3. \A k \in 1..n : part(k) \in T
    <2> SUFFICES ASSUME NEW k \in 1..n PROVE part(k) \in T
        OBVIOUS
    <2> DEFINE p == part(k)
    <2>1. Listed(p)
        BY <1>2, DocumentUnitsKind DEF Units
    <2>2. \A j \in 1..Len(p) : p[j] \in U
        OBVIOUS
    <2> HIDE DEF p, U
    <2>3. p = [j \in 1..Len(p) |-> p[j]] /\ Len(p) \in Nat
        BY <2>1, ListedFacts
    <2>4. p \in [1..Len(p) -> U]
        BY <2>2, <2>3
    <2>5. p \in T
        BY <2>3, <2>4
    <2> QED BY <2>5 DEF p
<1> HIDE DEF U
<1>4. /\ <<>> \in T /\ \A x, y \in T : x \o y \in T
      /\ \A x \in T : Listed(x)
    BY DEF Listed
<1>5. parts \in Seq(T) /\ Len(parts) = n /\ parts # <<>> /\ \A k \in 1..n : parts[k] = part(k)
    <2> HIDE DEF T, part
    <2>1. parts \in [1..n -> T]
        BY <1>1, <1>3
    <2>2. parts \in Seq(T) /\ Len(parts) = n
        BY <1>1, <2>1
    <2>3. parts # <<>>
        BY <1>1, <2>2, EmptySeq
    <2> QED BY <1>1, <2>2, <2>3
<1> HIDE DEF parts, T
<1>6. PICK f \in [0..Len(parts) -> T] : JoinsUp(f, parts) /\ FlattenSeq(parts) = f[Len(parts)]
    BY <1>4, <1>5, FlattenInOrder
<1> DEFINE Good(m) == Document(f[m], i, upto(m))
           bad == {m \in 0..n : ~ Good(m)}
<1>7. Good(0)
    <2>1. f[0] = <<>>
        BY <1>6 DEF JoinsUp
    <2>2. upto(0) = {}
        BY DEF Added
    <2> QED BY <2>1, <2>2, EmptyDocument
<1>8. ASSUME NEW m \in 1..n, Good(m - 1) PROVE Good(m)
    <2>1. f[m] = f[m - 1] \o part(m)
        BY <1>5, <1>6 DEF JoinsUp
    <2>2. upto(m) = upto(m - 1) \cup Added(i, {leaves[m]})
        <3>1. {leaves[k] : k \in 1..m} = {leaves[k] : k \in 1..m - 1} \cup {leaves[m]}
            <4>1. \A k \in 1..m : k \in 1..m - 1 \/ k = m
                BY <1>1
            <4>2. \A k \in 1..m - 1 : k \in 1..m
                BY <1>1
            <4>3. m \in 1..m
                BY <1>1
            <4> QED BY <4>1, <4>2, <4>3
        <3> QED BY <3>1 DEF Added
    <2>3. upto(m - 1) \cap Added(i, {leaves[m]}) = {}
        <3>1. \A k \in 1..m - 1 : leaves[k] # leaves[m]
            BY <1>1
        <3> SUFFICES ASSUME NEW x \in upto(m - 1), x \in Added(i, {leaves[m]}) PROVE FALSE
            OBVIOUS
        <3>2. PICK k \in 1..m - 1 : x = File(i, leaves[k])
            BY DEF Added
        <3>3. x = File(i, leaves[m])
            BY DEF Added
        <3>4. leaves[k] = leaves[m]
            <4>1. \A l : File(i, l).leaf = l
                BY DEF File
            <4>2. x.leaf = leaves[k]
                BY <3>2, <4>1
            <4>3. x.leaf = leaves[m]
                BY <3>3, <4>1
            <4> QED BY <4>2, <4>3
        <3> QED BY <3>1, <3>4
    <2>4. Document(part(m), i, Added(i, {leaves[m]}))
        BY <1>2
    <2>5. Document(f[m - 1], i, upto(m - 1))
        BY <1>8
    <2> HIDE DEF part, upto
    <2>6. Document(f[m - 1] \o part(m), i, upto(m - 1) \cup Added(i, {leaves[m]}))
        BY <2>3, <2>4, <2>5, DocumentJoin
    <2> QED BY <2>1, <2>2, <2>6
<1> HIDE DEF Good
<1>9. bad = {}
    <2> SUFFICES ASSUME bad # {} PROVE FALSE
        OBVIOUS
    <2>1. bad \in SUBSET Nat
        BY <1>1
    <2>2. PICK m \in bad : \A k \in bad : m <= k
        <3> HIDE DEF bad
        <3> QED BY <2>1, LeastNumber
    <2>3. m \in 0..n /\ ~ Good(m)
        OBVIOUS
    <2>4. m # 0
        BY <1>7, <2>3
    <2>5. m \in 1..n /\ m - 1 \in 0..n /\ ~ (m <= m - 1)
        BY <1>1, <2>3, <2>4
    <2>6. Good(m - 1)
        BY <2>2, <2>5
    <2> QED BY <1>8, <2>3, <2>5, <2>6
<1>10. Good(n)
    BY <1>1, <1>9
<1> QED BY <1>5, <1>6, <1>10 DEF Good, parts

(* The images come in any order, each once. *)
LEMMA ImagesInOrder ==
    ASSUME NEW S, S \subseteq ImageName, NEW images \in SetToSeqs(S)
    PROVE  /\ images \in Seq(ImageName) /\ {images[k] : k \in 1..Len(images)} = S
           /\ \A j, k \in 1..Len(images) : images[j] = images[k] => j = k
<1> DEFINE n == Cardinality(S)
<1>1. IsFiniteSet(S) /\ n \in Nat
    BY LeafAssumption, FS_Subset, FS_CardinalityType
<1>2. images \in [1..n -> S] /\ \A j, k \in 1..n : j # k => images[j] # images[k]
    BY DEF SetToSeqs
<1>3. IsFiniteSet(1..n) /\ Cardinality(1..n) = n
    <2> HIDE DEF n
    <2>1. 1 \in Int /\ n \in Int /\ (IF 1 > n THEN 0 ELSE n - 1 + 1) = n
        BY <1>1
    <2> QED BY <2>1, FS_Interval
<1>4. images \in Injection(1..n, S)
    BY <1>2 DEF Injection, IsInjective
<1>5. images \in Surjection(1..n, S)
    BY <1>1, <1>3, <1>4, FS_Injection
<1>6. images \in Seq(ImageName) /\ Len(images) = n
    <2> HIDE DEF n
    <2>1. images \in [1..n -> ImageName]
        BY <1>2
    <2> QED BY <1>1, <2>1
<1>7. {images[k] : k \in 1..n} = S
    BY <1>2, <1>5 DEF Surjection
<1> QED BY <1>2, <1>6, <1>7

(* What is put into the archive of one document is what it is owed. *)
LEMMA WholeDocument ==
    ASSUME IntakeShape, UploadsApart, OwnFiles, NEW i \in DOMAIN uploads,
           NEW images \in SetToSeqs(ArchiveImages(i))
    PROVE  Document(DocumentUnits(i, images), i, OwedOf(i))
<1> DEFINE leaves == TextLeaves \o images
           flat == FlattenSeq([n \in DOMAIN leaves |-> AddIfRequested(i, leaves[n])])
           text == {"md", "middle", "model", "content_list", "content_list_v2"}
           all == {leaves[k] : k \in 1..Len(leaves)}
           original == IF options.flag["return_original_file"] THEN {File(i, OriginLeaf(i))} ELSE {}
<1>1. /\ images \in Seq(ImageName) /\ {images[k] : k \in 1..Len(images)} = ArchiveImages(i)
      /\ \A j, k \in 1..Len(images) : images[j] = images[k] => j = k
    BY ImagesInOrder DEF ArchiveImages
<1>2. /\ TextLeaves \in Seq(text) /\ Len(TextLeaves) = 5
      /\ \A k \in 1..5 : TextLeaves[k] \in text
      /\ \A l \in text : \E k \in 1..5 : l = TextLeaves[k]
      /\ \A j, k \in 1..5 : TextLeaves[j] = TextLeaves[k] => j = k
    BY DEF TextLeaves
<1>3. text \cap ImageName = {} /\ Leaf = text \cup ImageName
    BY LeafAssumption DEF Leaf
<1>4. Listed(images) /\ Listed(TextLeaves) /\ Len(images) \in Nat
    BY <1>1, <1>2 DEF Listed
<1>5. Joins(leaves, TextLeaves, images)
    BY <1>4, Joining
<1> HIDE DEF leaves
<1>6. /\ Len(leaves) = 5 + Len(images)
      /\ \A k \in 1..5 : leaves[k] = TextLeaves[k]
      /\ \A k \in 1..Len(images) : leaves[5 + k] = images[k]
    BY <1>2, <1>5 DEF Joins
<1>7. \A k \in 1..Len(leaves) : k \in 1..5 \/ \E j \in 1..Len(images) : k = 5 + j
    <2> SUFFICES ASSUME NEW k \in 1..Len(leaves), k \notin 1..5
                 PROVE  \E j \in 1..Len(images) : k = 5 + j
        OBVIOUS
    <2>1. k - 5 \in 1..Len(images) /\ k = 5 + (k - 5)
        BY <1>4, <1>6
    <2> QED BY <2>1
<1>8. leaves \in Seq(Leaf) /\ leaves # <<>>
    <2>1. ASSUME NEW k \in 1..Len(leaves) PROVE leaves[k] \in Leaf
        <3>1. CASE k \in 1..5
            BY <1>2, <1>3, <1>6, <3>1
        <3>2. ASSUME NEW j \in 1..Len(images), k = 5 + j PROVE leaves[k] \in Leaf
            BY <1>1, <1>3, <1>6, <3>2
        <3> QED BY <1>7, <3>1, <3>2
    <2>2. leaves = [k \in 1..Len(leaves) |-> leaves[k]] /\ Len(leaves) \in Nat
        BY <1>5, ListedFacts DEF Joins
    <2>3. leaves \in [1..Len(leaves) -> Leaf]
        BY <2>1, <2>2
    <2>4. leaves \in Seq(Leaf)
        BY <2>2, <2>3
    <2>5. Len(leaves) # 0
        BY <1>4, <1>6
    <2> QED BY <2>4, <2>5, EmptySeq
<1>9. \A j, k \in 1..Len(leaves) : leaves[j] = leaves[k] => j = k
    <2> SUFFICES ASSUME NEW j \in 1..Len(leaves), NEW k \in 1..Len(leaves), leaves[j] = leaves[k]
                 PROVE  j = k
        OBVIOUS
    <2>1. \A l \in 1..5 : leaves[l] \in text
        BY <1>2, <1>6
    <2>2. \A l \in 1..Len(images) : leaves[5 + l] \in ImageName
        BY <1>1, <1>6
    <2>3. CASE j \in 1..5 /\ k \in 1..5
        BY <1>2, <1>6, <2>3
    <2>4. ASSUME NEW a \in 1..Len(images), j = 5 + a, NEW b \in 1..Len(images), k = 5 + b
          PROVE  j = k
        <3>1. images[a] = images[b]
            BY <1>6, <2>4
        <3>2. a = b
            BY <1>1, <3>1
        <3> QED BY <2>4, <3>2
    <2>5. ASSUME j \in 1..5, NEW b \in 1..Len(images), k = 5 + b PROVE FALSE
        BY <1>3, <2>1, <2>2, <2>5
    <2>6. ASSUME k \in 1..5, NEW a \in 1..Len(images), j = 5 + a PROVE FALSE
        BY <1>3, <2>1, <2>2, <2>6
    <2> QED BY <1>7, <2>3, <2>4, <2>5, <2>6
<1>10. Document(flat, i, Added(i, all))
    BY <1>8, <1>9, LeavesDocument
<1>11. Added(i, all) = {File(i, leaf) : leaf \in {l \in ToSet(TextLeaves) \cup ImageName : Requested(l) /\ Exists(i, l)}}
    <2>1. ToSet(TextLeaves) = text
        BY <1>2 DEF ToSet
    <2>2. all = text \cup ArchiveImages(i)
        <3>1. ASSUME NEW l \in all PROVE l \in text \cup ArchiveImages(i)
            <4>1. PICK k \in 1..Len(leaves) : l = leaves[k]
                OBVIOUS
            <4>2. CASE k \in 1..5
                BY <1>2, <1>6, <4>1, <4>2
            <4>3. ASSUME NEW j \in 1..Len(images), k = 5 + j PROVE l \in ArchiveImages(i)
                BY <1>1, <1>6, <4>1, <4>3
            <4> QED BY <1>7, <4>2, <4>3
        <3>2. ASSUME NEW l \in text PROVE l \in all
            <4>1. PICK k \in 1..5 : l = TextLeaves[k]
                BY <1>2
            <4>2. k \in 1..Len(leaves) /\ l = leaves[k]
                BY <1>4, <1>6, <4>1
            <4> QED BY <4>2
        <3>3. ASSUME NEW l \in ArchiveImages(i) PROVE l \in all
            <4>1. PICK k \in 1..Len(images) : l = images[k]
                BY <1>1
            <4>2. 5 + k \in 1..Len(leaves) /\ l = leaves[5 + k]
                BY <1>4, <1>6, <4>1
            <4> QED BY <4>2
        <3> HIDE DEF all, text
        <3> QED BY <3>1, <3>2, <3>3
    <2> HIDE DEF all, text
    <2> QED BY <2>1, <2>2 DEF Added, ArchiveImages
<1>12. OwedOf(i) = Added(i, all) \cup original
    <2>1. \A l : Exists(i, l) <=> File(i, l) \in DOMAIN results
        BY SameFile DEF Exists
    <2> QED BY <1>11, <2>1 DEF OwedOf
<1>13. Document(AddOriginalFile(i), i, original)
    <2>1. CASE options.flag["return_original_file"]
        <3>1. saved[uploads[i].file] = i
            BY DEF UploadsApart
        <3>2. Pieces["origin"] \in Nat
            BY LeafAssumption
        <3>3. AddOriginalFile(i) = EntryUnits(File(i, OriginLeaf(i)), i, Pieces["origin"])
            BY <2>1, <3>1 DEF AddOriginalFile, OriginEntry
        <3> QED BY <2>1, <3>2, <3>3, EntryDocument
    <2>2. CASE ~ options.flag["return_original_file"]
        BY <2>2, EmptyDocument DEF AddOriginalFile
    <2> QED BY <2>1, <2>2
<1>14. OriginLeaf(i) \notin Leaf
    <2>1. OriginLeaf(i) \in {"origin.pdf", "origin.docx", "origin.pptx", "origin.xlsx"}
        <3>1. CASE DocumentKind(uploads[i].suffix) = "Office"
            <4>1. uploads[i].suffix \in {"docx", "pptx", "xlsx"}
                BY <3>1 DEF DocumentKind, IntakeShape
            <4> QED BY <3>1, <4>1 DEF OriginLeaf, OfficeOrigin
        <3>2. CASE DocumentKind(uploads[i].suffix) # "Office"
            BY <3>2 DEF OriginLeaf
        <3> QED BY <3>1, <3>2
    <2>2. \A l \in {"origin.pdf", "origin.docx", "origin.pptx", "origin.xlsx"} : l \notin text /\ l \notin ImageName
        BY LeafAssumption
    <2> QED BY <1>3, <2>1, <2>2
<1>15. Added(i, all) \cap original = {}
    <2>1. \A l : File(i, l).leaf = l
        BY DEF File
    <2>2. \A x \in Added(i, all) : x.leaf \in Leaf
        <3> SUFFICES ASSUME NEW x \in Added(i, all) PROVE x.leaf \in Leaf
            OBVIOUS
        <3>1. PICK l \in all : x = File(i, l)
            BY DEF Added
        <3>2. l \in Leaf
            BY <1>8
        <3> QED BY <2>1, <3>1, <3>2
    <2>3. \A x \in original : x.leaf = OriginLeaf(i)
        BY <2>1
    <2> HIDE DEF original, all
    <2> QED BY <1>14, <2>2, <2>3
<1>16. DocumentUnits(i, images) = flat \o AddOriginalFile(i)
    BY DEF DocumentUnits, leaves
<1> HIDE DEF flat, all, original
<1> QED BY <1>10, <1>12, <1>13, <1>15, <1>16, DocumentJoin

-----------------------------------------------------------------------------
(* What is in the output directory, the payload and the archive.           *)

(* The documents of which every text file is there. *)
Written ==
    CASE phase = "parsing" -> 1..loop - 1
      [] phase \in {"completed", "json", "zip", "answered"} -> DOMAIN uploads
      [] OTHER -> {}

FilesInv ==
    /\ ~Created => results = <<>>
    /\ OwnFiles
    /\ \A i \in Written : \A leaf \in ToSet(TextLeaves) : Exists(i, leaf)
    /\ phase = "completed" => loop = 1
    /\ phase = "zip" <=> client # "none"

OwnJson ==
    phase \in {"json", "answered"} =>
        \A i \in DOMAIN uploads : i < loop =>
            /\ uploads[i].stem \in DOMAIN json
            /\ \A leaf \in DOMAIN json[uploads[i].stem] : json[uploads[i].stem][leaf] = i

OwnUnits ==
    /\ Listed(entries) /\ Units(todo)
    /\ \A n \in LocalsOf(todo) : uploads[todo[n].src].stem = todo[n].name.stem

(* What the archive is to have: of the documents added so far, and in the  *)
(* end of all.                                                             *)
Wanted ==
    IF thread = "adding" THEN UNION {OwedOf(i) : i \in 1..loop - 1} ELSE Owed

ResultsInv == FilesInv /\ OwnJson /\ OwnUnits /\ StreamInv(Wanted)

LEMMA InitResults == Init => ResultsInv
<1> SUFFICES ASSUME Init PROVE ResultsInv
    OBVIOUS
<1>1. /\ phase = "starting" /\ uploads = <<>> /\ results = <<>>
      /\ thread = "idle" /\ client = "none"
      /\ todo = <<>> /\ position = 0 /\ header = 0 /\ entries = <<>> /\ buffer = <<>>
      /\ channel = <<>> /\ received = <<>>
    BY DEF Init, IntakeInit, ZipInit
<1>2. DOMAIN <<>> = {} /\ Listed(<<>>) /\ Units(<<>>) /\ LocalsOf(<<>>) = {}
    BY OneListed, OneUnit, NoEntries
<1>3. FilesInv
    BY <1>1, <1>2 DEF FilesInv, OwnFiles, Created, Written
<1>4. OwnJson /\ OwnUnits
    BY <1>1, <1>2 DEF OwnJson, OwnUnits
<1>5. StreamInv(Wanted)
    BY <1>1 DEF StreamInv
<1> QED BY <1>3, <1>4, <1>5 DEF ResultsInv

LEMMA StemsApart ==
    ASSUME IInv, Created, NEW i \in DOMAIN uploads, NEW j \in DOMAIN uploads,
           uploads[i].stem = uploads[j].stem
    PROVE  i = j
<1>1. Named = DOMAIN uploads
    BY DEF Named, Created
<1> QED BY <1>1 DEF IInv, StemsInv

(* A stream nobody asked for. *)
LEMMA IdleStream ==
    ASSUME StreamInv(Wanted), client = "none", UNCHANGED zipVars
    PROVE  \A want : StreamInv(want)'
<1>1. /\ thread = "idle" /\ todo = <<>> /\ position = 0 /\ entries = <<>>
      /\ buffer = <<>> /\ channel = <<>> /\ received = <<>>
    BY DEF StreamInv
<1> QED BY <1>1 DEF StreamInv, zipVars, writerVars

LEMMA IntakeResults ==
    ASSUME IInv, ResultsInv, Intake, UNCHANGED <<results, json, zipVars>>
    PROVE  ResultsInv'
<1>1. ~Created /\ (phase' \notin {"completed", "json", "zip", "answered"}) /\ phase # "zip"
    BY DEF Intake, Start, ReceiveForm, ReadOption, SaveField, EndForm, UniquifyStem, Reject, Created
<1>2. phase' = "parsing" => loop' = 1
    BY <1>1 DEF Intake, Start, ReceiveForm, ReadOption, SaveField, EndForm, UniquifyStem, Reject, Created
<1>3. results = <<>> /\ client = "none" /\ client' = "none"
    BY <1>1 DEF ResultsInv, FilesInv, zipVars
<1>4. FilesInv'
    <2>1. results' = <<>> /\ DOMAIN results' = {}
        BY <1>3
    <2>2. OwnFiles'
        BY <2>1 DEF OwnFiles
    <2>3. Written' = {}
        BY <1>1, <1>2 DEF Written
    <2> QED BY <1>1, <1>3, <2>1, <2>2, <2>3 DEF FilesInv
<1>5. OwnJson'
    BY <1>1 DEF OwnJson
<1>6. OwnUnits'
    <2>1. todo' = <<>> /\ UNCHANGED entries
        BY <1>3 DEF ResultsInv, StreamInv, zipVars, writerVars
    <2>2. Units(<<>>) /\ LocalsOf(<<>>) = {}
        BY OneUnit, NoEntries
    <2>3. Units(todo)' /\ LocalsOf(todo)' = {}
        BY <2>1, <2>2 DEF Units, Listed, LocalsOf
    <2>4. Listed(entries)'
        BY <2>1 DEF ResultsInv, OwnUnits, Listed
    <2> QED BY <2>3, <2>4 DEF OwnUnits
<1>7. StreamInv(Wanted)'
    <2>1. PICK want : want = Wanted'
        OBVIOUS
    <2>2. StreamInv(want)'
        BY <1>3, IdleStream DEF ResultsInv
    <2> QED BY <1>3, <2>2 DEF StreamInv
<1> QED BY <1>4, <1>5, <1>6, <1>7 DEF ResultsInv

LEMMA WriteDocumentResults ==
    ASSUME IInv, ResultsInv, WriteDocument
    PROVE  ResultsInv'
<1>1. /\ phase = "parsing" /\ Created /\ UNCHANGED <<uploads, json, zipVars>>
      /\ loop \in 1..Len(uploads) /\ Len(uploads) \in Nat /\ DOMAIN uploads = 1..Len(uploads)
    BY DEF WriteDocument, Created, intakeVars, IInv, UploadsInv
<1>2. PICK n \in 0..Len(TextLeaves), images \in SUBSET ImageName :
          LET complete == n = Len(TextLeaves)
              files    == {File(loop, leaf) : leaf \in ToSet(SubSeq(TextLeaves, 1, n)) \cup images}
          IN  /\ ~complete => images = {}
              /\ results' = Updated(results, files, saved[uploads[loop].file])
              /\ phase' = CASE ~complete                         -> "failed"
                            [] complete /\ loop < Len(uploads) -> "parsing"
                            [] complete /\ loop = Len(uploads) -> "completed"
              /\ loop' = IF loop < Len(uploads) THEN loop + 1 ELSE 1
    BY DEF WriteDocument
<1> DEFINE complete == n = Len(TextLeaves)
           leaves == ToSet(SubSeq(TextLeaves, 1, n)) \cup images
           files == {File(loop, leaf) : leaf \in leaves}
<1>3. /\ results' = Updated(results, files, loop)
      /\ \/ ~complete /\ phase' = "failed"
         \/ complete /\ loop < Len(uploads) /\ phase' = "parsing" /\ loop' = loop + 1
         \/ complete /\ loop = Len(uploads) /\ phase' = "completed" /\ loop' = 1
    <2>1. saved[uploads[loop].file] = loop
        BY <1>1 DEF IInv, UploadsApart
    <2>2. results' = Updated(results, files, loop)
        BY <1>2, <2>1
    <2>3. loop < Len(uploads) \/ loop = Len(uploads)
        <3>1. loop \in 1..Len(uploads) /\ Len(uploads) \in Nat
            BY <1>1
        <3> QED BY <3>1
    <2> QED BY <1>1, <1>2, <2>2, <2>3
<1>4. complete => ToSet(TextLeaves) \subseteq leaves
    <2>1. TextLeaves \in Seq({"md", "middle", "model", "content_list", "content_list_v2"})
        BY DEF TextLeaves
    <2>2. SubSeq(TextLeaves, 1, Len(TextLeaves)) = TextLeaves
        BY <2>1, SubSeqFull
    <2> QED BY <2>2
<1> HIDE DEF complete, leaves
<1>5. /\ DOMAIN results' = DOMAIN results \cup files
      /\ \A r \in files : results'[r] = loop
      /\ \A r \in DOMAIN results : r \notin files => results'[r] = results[r]
    BY <1>3 DEF Updated
<1>6. \A r \in files : r.stem = uploads[loop].stem
    BY DEF File, ParseDir
<1>7. \A i : \A leaf : (Exists(i, leaf) => Exists(i, leaf)') /\ (File(i, leaf) \in files => Exists(i, leaf)')
    BY <1>1, <1>5 DEF Exists, ResultFile, ParseDirForTaskFile, OutputSubdir, File, ParseDir
<1>8. FilesInv'
    <2>1. OwnFiles'
        <3> SUFFICES ASSUME NEW r \in DOMAIN results', NEW i \in DOMAIN uploads, r.stem = uploads[i].stem
                     PROVE  results'[r] = i
            BY <1>1 DEF OwnFiles
        <3>1. CASE r \in files
            <4>1. i = loop
                BY <1>1, <1>6, <3>1, StemsApart
            <4> QED BY <1>5, <3>1, <4>1
        <3>2. CASE r \notin files
            BY <1>5, <3>2 DEF ResultsInv, FilesInv, OwnFiles
        <3> QED BY <3>1, <3>2
    <2>2. Written' \subseteq 1..loop
        BY <1>1, <1>3 DEF Written
    <2>3. Written = 1..loop - 1
        BY <1>1 DEF Written
    <2>4. ASSUME NEW i \in Written', NEW leaf \in ToSet(TextLeaves) PROVE Exists(i, leaf)'
        <3>1. CASE i = loop
            <4>1. complete
                BY <1>1, <1>3, <2>4, <3>1 DEF Written
            <4>2. File(i, leaf) \in files
                BY <1>4, <3>1, <4>1
            <4> QED BY <1>7, <4>2
        <3>2. CASE i # loop
            <4>1. i \in Written
                BY <1>1, <2>2, <2>3, <3>2
            <4>2. Exists(i, leaf)
                BY <4>1 DEF ResultsInv, FilesInv
            <4> QED BY <1>7, <4>2
        <3> QED BY <3>1, <3>2
    <2>5. Created' /\ (phase' = "completed" => loop' = 1)
        BY <1>3 DEF Created
    <2>6. phase' = "zip" <=> client' # "none"
        BY <1>1, <1>3 DEF ResultsInv, FilesInv, zipVars
    <2>7. \A i \in Written' : \A leaf \in ToSet(TextLeaves)' : Exists(i, leaf)'
        <3>1. ToSet(TextLeaves)' = ToSet(TextLeaves)
            BY DEF ToSet, TextLeaves
        <3> QED BY <2>4, <3>1
    <2> HIDE DEF files
    <2> QED BY <2>1, <2>5, <2>6, <2>7 DEF FilesInv
<1>9. OwnJson'
    BY <1>3 DEF OwnJson
<1>10. OwnUnits'
    BY <1>1 DEF ResultsInv, OwnUnits, zipVars, writerVars, Units, Listed, LocalsOf
<1>11. StreamInv(Wanted)'
    <2>1. client = "none" /\ client' = "none"
        BY <1>1 DEF ResultsInv, FilesInv, zipVars
    <2>2. PICK want : want = Wanted'
        OBVIOUS
    <2>3. StreamInv(want)'
        BY <1>1, <2>1, IdleStream DEF ResultsInv
    <2> QED BY <2>1, <2>3 DEF StreamInv
<1> QED BY <1>8, <1>9, <1>10, <1>11 DEF ResultsInv

(* While nothing is written, the files stay. *)
LEMMA FilesStay ==
    ASSUME FilesInv, Created, Created', UNCHANGED <<uploads, results>>,
           phase \in {"completed", "json", "zip"}, phase' # "parsing",
           phase' = "completed" => loop' = 1, phase' = "zip" <=> client' # "none"
    PROVE  FilesInv'
<1>1. OwnFiles'
    BY DEF FilesInv, OwnFiles
<1>2. Written = DOMAIN uploads /\ Written' \subseteq DOMAIN uploads
    BY DEF Written
<1>3. \A i : \A leaf : Exists(i, leaf)' <=> Exists(i, leaf)
    BY DEF Exists, ResultFile, ParseDirForTaskFile, OutputSubdir, File, ParseDir
<1>4. \A i \in Written' : \A leaf \in ToSet(TextLeaves)' : Exists(i, leaf)'
    <2>1. ToSet(TextLeaves)' = ToSet(TextLeaves)
        BY DEF ToSet, TextLeaves
    <2> QED BY <1>2, <1>3, <2>1 DEF FilesInv
<1> QED BY <1>1, <1>4 DEF FilesInv

(* build_result_dict reads, for a document, the files of its own upload. *)
LEMMA AddResultResults ==
    ASSUME IInv, ShapesInv, ResultsInv, AddResult
    PROVE  ResultsInv'
<1>1. /\ phase = "json" /\ loop <= Len(uploads) /\ Created /\ Created'
      /\ UNCHANGED <<uploads, results, thread, writerVars, channel, client, received>>
      /\ \/ /\ json' = Updated(json, {uploads[loop].stem}, [leaf \in JsonLeaves(loop) |-> ReadLeaf(loop, leaf)])
            /\ loop' = loop + 1 /\ phase' = "json"
         \/ phase' = "failed"
    BY DEF AddResult, intakeVars, Created
<1>2. loop \in 1..Len(uploads) /\ Len(uploads) \in Nat /\ DOMAIN uploads = 1..Len(uploads)
    BY <1>1 DEF ShapesInv, IntakeShape, IInv, UploadsInv
<1>3. client = "none"
    BY <1>1 DEF ResultsInv, FilesInv
<1>4. FilesInv'
    BY <1>1, <1>3, FilesStay DEF ResultsInv
<1>5. OwnJson'
    <2>1. CASE phase' = "failed"
        BY <2>1 DEF OwnJson
    <2>2. CASE /\ json' = Updated(json, {uploads[loop].stem}, [leaf \in JsonLeaves(loop) |-> ReadLeaf(loop, leaf)])
               /\ loop' = loop + 1 /\ phase' = "json"
        <3>1. ASSUME NEW leaf \in JsonLeaves(loop) PROVE ReadLeaf(loop, leaf) = loop
            <4>1. leaf \in ToSet(TextLeaves) \/ Exists(loop, leaf)
                <5>1. ToSet(TextLeaves) = {"md", "middle", "model", "content_list", "content_list_v2"}
                    BY DEF ToSet, TextLeaves
                <5> QED BY <5>1 DEF JsonLeaves
            <4>2. Exists(loop, leaf)
                BY <1>1, <1>2, <4>1 DEF ResultsInv, FilesInv, Written
            <4>3. File(loop, leaf) \in DOMAIN results /\ File(loop, leaf).stem = uploads[loop].stem
                BY <4>2, SameFile DEF Exists, File, ParseDir
            <4>4. results[File(loop, leaf)] = loop
                BY <1>2, <4>3 DEF ResultsInv, FilesInv, OwnFiles
            <4> QED BY <4>2, <4>4, SameFile DEF ReadLeaf
        <3> SUFFICES ASSUME NEW i \in DOMAIN uploads, i < loop + 1
                     PROVE  /\ uploads[i].stem \in DOMAIN json'
                            /\ \A leaf \in DOMAIN json'[uploads[i].stem] : json'[uploads[i].stem][leaf] = i
            BY <1>1, <2>2 DEF OwnJson
        <3>2. CASE i = loop
            <4>1. /\ uploads[loop].stem \in DOMAIN json'
                  /\ json'[uploads[loop].stem] = [l \in JsonLeaves(loop) |-> ReadLeaf(loop, l)]
                BY <2>2 DEF Updated
            <4> QED BY <3>1, <3>2, <4>1
        <3>3. CASE i # loop
            <4>1. uploads[i].stem # uploads[loop].stem
                BY <1>1, <1>2, <3>3, StemsApart
            <4>2. i < loop
                BY <1>2, <3>3
            <4>3. uploads[i].stem \in DOMAIN json
                BY <1>1, <4>2 DEF ResultsInv, OwnJson
            <4>4. /\ uploads[i].stem \in DOMAIN json'
                  /\ json'[uploads[i].stem] = json[uploads[i].stem]
                BY <2>2, <4>1, <4>3 DEF Updated
            <4> QED BY <1>1, <4>2, <4>4 DEF ResultsInv, OwnJson
        <3> QED BY <3>2, <3>3
    <2> QED BY <1>1, <2>1, <2>2
<1>6. OwnUnits'
    BY <1>1 DEF ResultsInv, OwnUnits, writerVars, Units, Listed, LocalsOf
<1>7. StreamInv(Wanted)'
    BY <1>1, <1>3 DEF ResultsInv, StreamInv, writerVars
<1> QED BY <1>4, <1>5, <1>6, <1>7 DEF ResultsInv

LEMMA AnswerJsonResults ==
    ASSUME IInv, ResultsInv, AnswerJson
    PROVE  ResultsInv'
<1>1. /\ phase = "json" /\ phase' = "answered" /\ Created /\ Created'
      /\ UNCHANGED <<uploads, loop, results, json, thread, writerVars, channel, client, received>>
    BY DEF AnswerJson, intakeVars, Created
<1>2. client = "none"
    BY <1>1 DEF ResultsInv, FilesInv
<1>3. FilesInv'
    BY <1>1, <1>2, FilesStay DEF ResultsInv
<1>4. OwnJson'
    BY <1>1 DEF ResultsInv, OwnJson
<1>5. OwnUnits'
    BY <1>1 DEF ResultsInv, OwnUnits, writerVars, Units, Listed, LocalsOf
<1>6. StreamInv(Wanted)'
    BY <1>1, <1>2 DEF ResultsInv, StreamInv, writerVars
<1> QED BY <1>3, <1>4, <1>5, <1>6 DEF ResultsInv

LEMMA ReadResultResults ==
    ASSUME IInv, ResultsInv, ReadResult
    PROVE  ResultsInv'
<1>1. /\ phase = "completed" /\ Created /\ Created'
      /\ UNCHANGED <<uploads, loop, results, json, writerVars, channel, received>>
      /\ \/ phase' = "zip" /\ thread' = "adding" /\ client' = "reading"
         \/ phase' = "json" /\ UNCHANGED <<thread, client>>
    BY DEF ReadResult, intakeVars, Created
<1>2. client = "none" /\ loop = 1
    BY <1>1 DEF ResultsInv, FilesInv
<1>3. FilesInv'
    <2>1. phase' = "zip" <=> client' # "none"
        BY <1>1, <1>2
    <2> QED BY <1>1, <2>1, FilesStay DEF ResultsInv
<1>4. OwnJson'
    <2>1. \A i \in DOMAIN uploads : ~ (i < loop')
        <3>1. DOMAIN uploads = 1..Len(uploads)
            BY DEF IInv, UploadsInv
        <3> QED BY <1>1, <1>2, <3>1
    <2> QED BY <1>1, <2>1 DEF OwnJson
<1>5. OwnUnits'
    BY <1>1 DEF ResultsInv, OwnUnits, writerVars, Units, Listed, LocalsOf
<1>6. StreamInv(Wanted)'
    <2>1. CASE client' = client /\ thread' = thread
        BY <1>1, <1>2, <2>1 DEF ResultsInv, StreamInv, writerVars
    <2>2. CASE thread' = "adding" /\ client' = "reading"
        <3>1. PICK want : want = Wanted
            OBVIOUS
        <3>2. StreamInv(want)
            BY <3>1 DEF ResultsInv
        <3>3. StreamInv({})'
            BY <1>1, <1>2, <2>2, <3>2, StreamStarts
        <3>4. Wanted' = {}
            <4>1. 1..loop' - 1 = {}
                BY <1>1, <1>2
            <4> QED BY <2>2, <4>1 DEF Wanted
        <3> QED BY <3>3, <3>4 DEF StreamInv
    <2> QED BY <1>1, <2>1, <2>2
<1> QED BY <1>3, <1>4, <1>5, <1>6 DEF ResultsInv

(* What is owed depends on the files and the options alone. *)
LEMMA OwedStays ==
    ASSUME UNCHANGED <<uploads, options, results>>
    PROVE  (\A i : OwedOf(i)' = OwedOf(i)) /\ Owed' = Owed
<1>1. \A i : \A leaf : File(i, leaf)' = File(i, leaf)
    BY DEF File, ParseDir
<1>2. \A i : \A leaf : (Requested(leaf) /\ File(i, leaf) \in DOMAIN results)'
                         <=> Requested(leaf) /\ File(i, leaf) \in DOMAIN results
    BY <1>1 DEF Requested
<1>3. \A i : OriginLeaf(i)' = OriginLeaf(i)
    BY DEF OriginLeaf, OfficeOrigin
<1>4. ToSet(TextLeaves)' = ToSet(TextLeaves)
    BY DEF ToSet, TextLeaves
<1>5. ASSUME NEW i PROVE OwedOf(i)' = OwedOf(i)
    <2> DEFINE leaves == {l \in ToSet(TextLeaves) \cup ImageName : Requested(l) /\ File(i, l) \in DOMAIN results}
    <2>1. leaves' = leaves
        BY <1>2, <1>4
    <2>2. {File(i, leaf) : leaf \in leaves}' = {File(i, leaf) : leaf \in leaves}
        <3> HIDE DEF leaves
        <3> QED BY <1>1, <2>1
    <2> HIDE DEF leaves
    <2>3. OwedOf(i) = {File(i, leaf) : leaf \in leaves}
                      \cup (IF options.flag["return_original_file"] THEN {File(i, OriginLeaf(i))} ELSE {})
        BY DEF OwedOf, leaves
    <2>4. OwedOf(i)' = {File(i, leaf) : leaf \in leaves}'
                       \cup (IF options.flag["return_original_file"] THEN {File(i, OriginLeaf(i))} ELSE {})'
        BY DEF OwedOf, leaves
    <2>5. (IF options.flag["return_original_file"] THEN {File(i, OriginLeaf(i))} ELSE {})'
          = IF options.flag["return_original_file"] THEN {File(i, OriginLeaf(i))} ELSE {}
        BY <1>1, <1>3
    <2> QED BY <2>2, <2>3, <2>4, <2>5
<1>6. Owed' = Owed
    BY <1>5 DEF Owed
<1> QED BY <1>5, <1>6

(* Every file that is owed is of its document. *)
LEMMA OwedOfStem ==
    ASSUME NEW i, NEW x \in OwedOf(i)
    PROVE  x.stem = uploads[i].stem
<1>1. \A leaf : File(i, leaf).stem = uploads[i].stem
    BY DEF File, ParseDir
<1>2. \E leaf : x = File(i, leaf)
    BY DEF OwedOf
<1> QED BY <1>1, <1>2

(* build_zip_to_writer adds the documents one after the other. *)
LEMMA AddDocumentResults ==
    ASSUME IInv, ShapesInv, ResultsInv, AddDocument
    PROVE  ResultsInv'
<1>1. /\ phase = "zip" /\ phase' = "zip" /\ Created /\ Created'
      /\ thread = "adding" /\ todo = <<>> /\ loop <= Len(uploads) /\ loop' = loop + 1
      /\ UNCHANGED <<uploads, options, results, json, thread, position, header, entries, buffer,
                     channel, client, received>>
    BY DEF AddDocument, intakeVars, Created
<1>2. loop \in 1..Len(uploads) /\ Len(uploads) \in Nat /\ DOMAIN uploads = 1..Len(uploads)
    BY <1>1 DEF ShapesInv, IntakeShape, IInv, UploadsInv
<1>3. PICK images \in SetToSeqs(ArchiveImages(loop)) : todo' = DocumentUnits(loop, images)
    BY DEF AddDocument
<1>4. Document(todo', loop, OwedOf(loop))
    BY <1>2, <1>3, WholeDocument DEF IInv, ShapesInv, ResultsInv, FilesInv
<1>5. FilesInv'
    <2>1. phase' = "zip" <=> client' # "none"
        BY <1>1 DEF ResultsInv, FilesInv
    <2> QED BY <1>1, <2>1, FilesStay DEF ResultsInv
<1>6. OwnJson'
    BY <1>1 DEF OwnJson
<1>7. OwnUnits'
    <2>1. /\ Units(todo')
          /\ \A n \in LocalsOf(todo') : uploads[todo'[n].src].stem = todo'[n].name.stem
        BY <1>4, DocumentUnitsKind DEF Document
    <2>2. Units(todo)' /\ LocalsOf(todo)' = LocalsOf(todo')
        BY <2>1 DEF Units, Listed, LocalsOf
    <2>3. Listed(entries)'
        BY <1>1 DEF ResultsInv, OwnUnits, Listed
    <2> QED BY <1>1, <2>1, <2>2, <2>3 DEF OwnUnits
<1>8. StreamInv(Wanted)'
    <2>1. PICK want : want = Wanted
        OBVIOUS
    <2>2. PICK more : more = OwedOf(loop)
        OBVIOUS
    <2>3. PICK D : D = todo'
        OBVIOUS
    <2>4. want = UNION {OwedOf(i) : i \in 1..loop - 1}
        BY <1>1, <2>1 DEF Wanted
    <2>5. want \cap more = {}
        <3> SUFFICES ASSUME NEW x \in want, x \in more PROVE FALSE
            OBVIOUS
        <3>1. PICK i \in 1..loop - 1 : x \in OwedOf(i)
            BY <2>4
        <3>2. i \in DOMAIN uploads /\ loop \in DOMAIN uploads /\ i # loop
            BY <1>2
        <3>3. uploads[i].stem = uploads[loop].stem
            BY <2>2, <3>1, OwedOfStem
        <3> QED BY <1>1, <3>2, <3>3, StemsApart
    <2>6. Series(D) /\ Distinct(D) /\ NamesIn(D) = more
        BY <1>4, <2>2, <2>3 DEF Document
    <2>7. StreamInv(want)
        BY <2>1 DEF ResultsInv
    <2>8. StreamInv(want \cup more)'
        <3>1. UNCHANGED <<thread, position, header, entries, buffer, channel, client, received>>
            BY <1>1
        <3>2. thread = "adding" /\ todo = <<>> /\ todo' = D
            BY <1>1, <2>3
        <3> QED BY <2>5, <2>6, <2>7, <3>1, <3>2, StreamGrows
    <2>9. Wanted' = want \cup more
        <3>1. Wanted' = UNION {OwedOf(i)' : i \in 1..loop' - 1}
            BY <1>1 DEF Wanted
        <3>2. \A i : OwedOf(i)' = OwedOf(i)
            BY <1>1, OwedStays
        <3>3. \A i : i \in 1..loop' - 1 <=> i \in 1..loop - 1 \/ i = loop
            BY <1>1, <1>2
        <3>4. Wanted' = UNION {OwedOf(i) : i \in 1..loop' - 1}
            BY <3>1, <3>2
        <3> QED BY <2>2, <2>4, <3>3, <3>4
    <2> QED BY <2>8, <2>9 DEF StreamInv
<1> QED BY <1>5, <1>6, <1>7, <1>8 DEF ResultsInv

(* The steps of the thread and of the client keep the units. *)
LEMMA OwnUnitsStep ==
    ASSUME OwnUnits, UNCHANGED uploads, FinishArchive \/ Stream \/ Reader
    PROVE  OwnUnits'
<1> DEFINE Own(units) == /\ Units(units)
                         /\ \A n \in LocalsOf(units) : uploads[units[n].src].stem = units[n].name.stem
<1>1. ASSUME Listed(entries'), Own(todo') PROVE OwnUnits'
    <2>1. Units(todo)' /\ LocalsOf(todo)' = LocalsOf(todo') /\ Listed(entries)'
        BY <1>1 DEF Units, Listed, LocalsOf
    <2> QED BY <1>1, <2>1 DEF OwnUnits
<1>2. Listed(entries) /\ Own(todo) /\ Own(<<>>)
    BY OneUnit, NoEntries DEF OwnUnits
<1>3. CASE UNCHANGED <<todo, entries>>
    BY <1>1, <1>2, <1>3
<1>4. CASE WriteUnit
    <2>1. todo # <<>> /\ todo' = Tail(todo) /\ (entries' = entries \/ \E x : entries' = Append(entries, x))
        BY <1>4 DEF WriteUnit, Counted
    <2>2. Listed(entries')
        <3>1. ASSUME NEW x PROVE Listed(Append(entries, x))
            <4>1. PICK S : entries \in Seq(S)
                BY <1>2 DEF Listed
            <4>2. Append(entries, x) \in Seq(S \cup {x})
                BY <4>1
            <4> QED BY <4>2 DEF Listed
        <3> QED BY <1>2, <2>1, <3>1
    <2>3. /\ Len(todo) \in Nat /\ Listed(Tail(todo)) /\ Len(Tail(todo)) = Len(todo) - 1
          /\ \A i \in 1..Len(todo) - 1 : Tail(todo)[i] = todo[i + 1]
        BY <1>2, <2>1, Splitting, ListedFacts DEF Units
    <2>4. \A i \in 1..Len(todo) - 1 : i + 1 \in 1..Len(todo)
        BY <2>3
    <2>5. Units(Tail(todo))
        BY <1>2, <2>3, <2>4 DEF Units
    <2>6. \A n \in LocalsOf(Tail(todo)) : n + 1 \in LocalsOf(todo) /\ Tail(todo)[n] = todo[n + 1]
        BY <2>3, <2>4 DEF LocalsOf
    <2>7. Own(Tail(todo))
        BY <1>2, <2>5, <2>6
    <2> QED BY <1>1, <2>1, <2>2, <2>7
<1>5. CASE FinishArchive
    <2>1. UNCHANGED entries /\ todo' \in {DirectoryUnits, <<>>}
        BY <1>5 DEF FinishArchive
    <2>2. Own(DirectoryUnits)
        <3> DEFINE m == Len(entries)
        <3>1. m \in Nat /\ DOMAIN entries = 1..m
            BY <1>2, ListedFacts
        <3> HIDE DEF m
        <3>2. /\ Units(DirectoryUnits) /\ Len(DirectoryUnits) = m + 1
              /\ \A k \in 1..m : DirectoryUnits[k] = [kind |-> "central", name |-> entries[k].name,
                                                      offset |-> entries[k].offset]
              /\ DirectoryUnits[m + 1] = [kind |-> "end", count |-> m, offset |-> position]
            BY <3>1, DirectoryFacts DEF m
        <3>3. ASSUME NEW k \in 1..m + 1 PROVE DirectoryUnits[k].kind # "local"
            <4>1. CASE k \in 1..m
                <5>1. DirectoryUnits[k] = [kind |-> "central", name |-> entries[k].name, offset |-> entries[k].offset]
                    BY <3>2, <4>1
                <5> QED BY <5>1
            <4>2. CASE k = m + 1
                BY <3>2, <4>2
            <4> QED BY <3>1, <4>1, <4>2
        <3> QED BY <3>2, <3>3 DEF LocalsOf
    <2> HIDE DEF Own
    <2> QED BY <1>1, <1>2, <2>1, <2>2
<1>6. WriteFails \/ FlushArchive \/ SendError \/ Reader => UNCHANGED <<todo, entries>>
    BY DEF WriteFails, FlushArchive, SendError, Reader, ClientReceives, ClientSeesEnd, ClientLeaves, writerVars
<1> QED BY <1>3, <1>4, <1>5, <1>6 DEF Stream

LEMMA ArchivingResults ==
    ASSUME IInv, ShapesInv, ResultsInv, Archiving
    PROVE  ResultsInv'
<1>1. /\ phase = "zip" /\ phase' = "zip" /\ Created /\ Created'
      /\ UNCHANGED <<uploads, options, results, json, loop>>
      /\ Finish \/ Stream \/ Reader
    BY DEF Archiving, intakeVars, Created
<1>2. client # "none"
    BY <1>1 DEF ResultsInv, FilesInv
<1>3. FilesInv'
    <2>1. client' # "none"
        BY <1>1, <1>2 DEF Finish, FinishArchive, Stream, WriteUnit, WriteFails, FlushArchive, SendError,
           Reader, ClientReceives, ClientSeesEnd, ClientLeaves
    <2> QED BY <1>1, <2>1, FilesStay DEF ResultsInv
<1>4. OwnJson'
    BY <1>1 DEF OwnJson
<1>5. OwnUnits'
    BY <1>1, OwnUnitsStep DEF ResultsInv, Finish
<1>6. (\A i : OwedOf(i)' = OwedOf(i)) /\ Owed' = Owed
    BY <1>1, OwedStays
<1>7. thread' = thread => Wanted' = Wanted
    <2>1. ASSUME thread' = thread PROVE Wanted' = Wanted
        <3>1. UNION {OwedOf(i) : i \in 1..loop - 1}' = UNION {OwedOf(i) : i \in 1..loop - 1}
            BY <1>1, <1>6
        <3> QED BY <1>6, <2>1, <3>1 DEF Wanted
    <2> QED BY <2>1
<1>8. PICK want : want = Wanted
    OBVIOUS
<1>9. StreamInv(want)
    BY <1>8 DEF ResultsInv
<1>10. PICK new : new = Wanted'
    OBVIOUS
<1>11. ASSUME Reader PROVE StreamInv(Wanted)'
    <2>1. thread' = thread
        BY <1>11 DEF Reader, ClientReceives, ClientSeesEnd, ClientLeaves
    <2>2. StreamInv(want)'
        BY <1>9, <1>11, ReaderStep
    <2> QED BY <1>7, <1>8, <2>1, <2>2 DEF StreamInv
<1>12. ASSUME client # "reading" /\ (Finish \/ Stream) PROVE StreamInv(Wanted)'
    <2>1. StreamInv(new)'
        BY <1>9, <1>12, UnreadStep DEF Finish
    <2> QED BY <1>10, <2>1 DEF StreamInv
<1>13. ASSUME client = "reading" /\ (WriteFails \/ SendError) PROVE StreamInv(Wanted)'
    <2>1. StreamInv(new)'
        BY <1>9, <1>13, FailingSteps
    <2> QED BY <1>10, <2>1 DEF StreamInv
<1>14. ASSUME client = "reading" /\ WriteUnit PROVE StreamInv(Wanted)'
    <2>1. thread' = thread
        BY <1>14 DEF WriteUnit, SendChunk, Receiving
    <2>2. StreamInv(want)'
        BY <1>9, <1>14, WriteUnitStep
    <2> QED BY <1>7, <1>8, <2>1, <2>2 DEF StreamInv
<1>15. ASSUME client = "reading" /\ FlushArchive PROVE StreamInv(Wanted)'
    <2>1. thread = "finishing" /\ thread' = "ended"
        BY <1>15 DEF FlushArchive, SendChunk, Receiving
    <2>2. Wanted' = want
        BY <1>6, <1>8, <2>1 DEF Wanted
    <2>3. StreamInv(want)'
        BY <1>9, <1>15, FlushStep
    <2> QED BY <2>2, <2>3 DEF StreamInv
<1>16. ASSUME client = "reading" /\ Finish PROVE StreamInv(Wanted)'
    <2>1. thread = "adding" /\ thread' \in {"finishing", "failing"} /\ loop > Len(uploads)
        BY <1>16 DEF Finish, FinishArchive
    <2>2. 1..loop - 1 = DOMAIN uploads
        <3>1. loop \in 1..Len(uploads) + 1 /\ Len(uploads) \in Nat /\ DOMAIN uploads = 1..Len(uploads)
            BY DEF ShapesInv, IntakeShape, IInv, UploadsInv
        <3>2. loop - 1 = Len(uploads)
            BY <2>1, <3>1
        <3> QED BY <3>1, <3>2
    <2>3. Wanted = Owed /\ Wanted' = Owed'
        BY <2>1, <2>2 DEF Wanted, Owed
    <2>4. StreamInv(want)'
        BY <1>9, <1>16, FinishStep DEF Finish
    <2> QED BY <1>6, <1>8, <2>3, <2>4 DEF StreamInv
<1>17. StreamInv(Wanted)'
    <2>1. \/ Reader
          \/ client # "reading" /\ (Finish \/ Stream)
          \/ client = "reading" /\ (Finish \/ WriteUnit \/ WriteFails \/ FlushArchive \/ SendError)
        BY <1>1 DEF Stream
    <2> QED BY <1>11, <1>12, <1>13, <1>14, <1>15, <1>16, <2>1, Zenon
<1> QED BY <1>3, <1>4, <1>5, <1>17 DEF ResultsInv

-----------------------------------------------------------------------------
LEMMA NextStep == IInv /\ [Next]_vars => IInv'
<1> SUFFICES ASSUME IInv, [Next]_vars PROVE IInv'
    OBVIOUS
<1>1. CASE Intake
    BY <1>1, StartStep, ReceiveFormStep, ReadOptionStep, SaveFieldStep, EndFormStep,
       UniquifyStemStep DEF Intake
<1>2. CASE WriteDocument \/ ReadResult \/ AddResult \/ AnswerJson \/ AddDocument \/ Archiving
    <2>1. UploadsInv
        BY DEF IInv
    <2>2. /\ UNCHANGED intakeVars /\ Created /\ Created'
          /\ phase' = "parsing" => loop' \in 1..Len(uploads)
        BY <1>2, <2>1, IntakeOver
    <2> QED BY <2>2, OverStep
<1>3. CASE UNCHANGED vars
    <2>1. UNCHANGED <<config, options, uploads, saved, raw, phase, loop>>
        BY <1>3 DEF vars, intakeVars
    <2>2. UploadsInv' /\ UploadsApart'
        BY <2>1 DEF IInv, UploadsInv, UploadsApart
    <2>3. StemsInv'
        <3>1. Named' = Named
            BY <2>1 DEF Named, Created
        <3> QED BY <2>1, <3>1 DEF IInv, StemsInv, RawKeys, Key, Created
    <2>4. OptionsInv' /\ ConfigUsable'
        BY <2>1 DEF IInv, OptionsInv, TasksSupported, Created, ConfigUsable, LimitsUsable
    <2> QED BY <2>2, <2>3, <2>4 DEF IInv
<1> QED BY <1>1, <1>2, <1>3 DEF Next

(* The invariant from which the rest follows. *)
THEOREM Invariance == Spec => []IInv
<1>1. Init => IInv
    BY InitInv
<1>2. IInv /\ [Next]_vars => IInv'
    BY NextStep
<1> QED BY <1>1, <1>2, PTL DEF Spec

(* However the names of the uploads collide, in letter case, by their cut  *)
(* length or with a number given to another one, save_field and            *)
(* uniquify_upload_stems keep the documents apart, and a name nobody else  *)
(* has is kept: DocumentsApart.                                            *)
THEOREM NamesCorrect == Spec => []DocumentsApart
<1>1. IInv => DocumentsApart
    <2> SUFFICES ASSUME IInv PROVE DocumentsApart
        OBVIOUS
    <2>1. Created => Named = DOMAIN uploads
        BY DEF Named, Created
    <2>2. StemsDistinct /\ FirstNameKept
        BY <2>1, Zenon DEF IInv, StemsInv, StemsDistinct, FirstNameKept
    <2> QED BY <2>2 DEF IInv, DocumentsApart
<1> QED BY <1>1, Invariance, PTL

(* Whatever numbers the environment holds, ServiceConfig::from_args gives  *)
(* limits the other modules can assume.                                    *)
THEOREM LimitsCorrect == Spec => []ConfigUsable
<1>1. IInv => ConfigUsable
    BY DEF IInv
<1> QED BY <1>1, Invariance, PTL

(* parse_multipart creates tasks only from supported options, and on a     *)
(* public address only with consent.                                       *)
THEOREM OptionsCorrect == Spec => []TasksSupported
<1>1. IInv => TasksSupported
    BY DEF IInv, OptionsInv
<1> QED BY <1>1, Invariance, PTL

LEMMA ShapesStep == IInv /\ ShapesInv /\ [Next]_vars => ShapesInv'
<1> SUFFICES ASSUME IInv, ShapesInv, [Next]_vars PROVE ShapesInv'
    OBVIOUS
<1>1. IntakeShape /\ StreamShape /\ UploadsInv
    BY DEF ShapesInv, IInv
<1>2. CASE Next
    <2>1. StreamShape'
        BY <1>1, <1>2, StreamShapeStep
    <2>2. IntakeShape'
        BY <1>1, <1>2, IntakeShapeStep, OverShapeStep DEF Next
    <2> QED BY <2>1, <2>2 DEF ShapesInv
<1>3. CASE UNCHANGED vars
    <2>1. /\ UNCHANGED <<phase, loop, form, uploads, raw, thread, client, lease, channel, buffer>>
        BY <1>3 DEF vars, intakeVars, zipVars, writerVars
    <2>2. Length(buffer)' = Length(buffer) /\ (Listed(channel)' <=> Listed(channel))
        BY <2>1 DEF Length, Listed
    <2> QED BY <1>1, <2>1, <2>2 DEF ShapesInv, IntakeShape, StreamShape
<1> QED BY <1>2, <1>3

(* Whatever was sent: loop counts within the uploads, every stem is a name *)
(* that fits, and the chunks are as large as the code cuts them            *)
(* (save_field, uniquify_upload_stems, ChannelZipWriter).                  *)
THEOREM ShapesInduction == Spec => []ShapesInv
<1>1. Init => ShapesInv
    BY InitShapes
<1>2. IInv /\ ShapesInv /\ [Next]_vars => ShapesInv'
    BY ShapesStep
<1> QED BY <1>1, <1>2, Invariance, PTL DEF Spec

(* What the other modules assume of the service when a task reaches them   *)
(* always holds: every stem of an upload fits a file name, the kind of     *)
(* every upload is known, neither the channel nor the buffer of the ZIP    *)
(* stream outgrows its bound, the limits are usable and the options are    *)
(* those of a supported task: ServiceUsable.                               *)
THEOREM ServiceCorrect == Spec => []ServiceUsable
<1>1. IInv /\ ShapesInv => ServiceUsable
    BY DEF IInv, ShapesInv, IntakeShape, StreamShape, Fitting, OptionsInv, TypeOK, ServiceUsable
<1> QED BY <1>1, Invariance, ShapesInduction, PTL

LEMMA ResultsStep == IInv /\ ShapesInv /\ ResultsInv /\ [Next]_vars => ResultsInv'
<1> SUFFICES ASSUME IInv, ShapesInv, ResultsInv, [Next]_vars PROVE ResultsInv'
    OBVIOUS
<1>1. CASE Intake /\ UNCHANGED <<results, json, zipVars>>
    BY <1>1, IntakeResults
<1>2. CASE UNCHANGED vars
    <2>1. /\ UNCHANGED <<uploads, options, phase, loop, results, json, thread, todo, position, header,
                         entries, buffer, channel, client, received, lease>>
        BY <1>2 DEF vars, intakeVars, zipVars, writerVars
    <2>2. FilesInv'
        <3>1. \A i : \A leaf : Exists(i, leaf)' <=> Exists(i, leaf)
            BY <2>1 DEF Exists, ResultFile, ParseDirForTaskFile, OutputSubdir, File, ParseDir
        <3>2. Written' = Written /\ ToSet(TextLeaves)' = ToSet(TextLeaves) /\ (OwnFiles' <=> OwnFiles)
            BY <2>1 DEF Written, ToSet, TextLeaves, OwnFiles
        <3>3. \A i \in Written' : \A leaf \in ToSet(TextLeaves)' : Exists(i, leaf)'
            BY <3>1, <3>2 DEF ResultsInv, FilesInv
        <3> QED BY <2>1, <3>2, <3>3 DEF ResultsInv, FilesInv, Created
    <2>3. OwnJson' /\ OwnUnits'
        BY <2>1 DEF ResultsInv, OwnJson, OwnUnits, Units, Listed, LocalsOf
    <2>4. Wanted' = Wanted
        <3>1. (\A i : OwedOf(i)' = OwedOf(i)) /\ Owed' = Owed
            BY <2>1, OwedStays
        <3>2. UNION {OwedOf(i) : i \in 1..loop - 1}' = UNION {OwedOf(i) : i \in 1..loop - 1}
            BY <2>1, <3>1
        <3> QED BY <2>1, <3>1, <3>2 DEF Wanted
    <2>5. StreamInv(Wanted)'
        <3>1. \A W : (Adding(W)' <=> Adding(W)) /\ (AllSent' <=> AllSent)
            BY <2>1 DEF Adding, AllSent
        <3>2. \A W, want : Progress(W, want)' <=> Progress(W, want)
            BY <2>1, <3>1 DEF Progress
        <3>3. \A W, cut : Delivered(W, cut)' <=> Delivered(W, cut)
            BY <2>1, <3>1 DEF Delivered
        <3> QED BY <2>1, <2>4, <3>2, <3>3 DEF ResultsInv, StreamInv
    <2> QED BY <2>2, <2>3, <2>5 DEF ResultsInv
<1> QED BY <1>1, <1>2, WriteDocumentResults, ReadResultResults, AddResultResults, AnswerJsonResults,
           AddDocumentResults, ArchivingResults DEF Next

(* The files of a document are its own upload's, so are those in the       *)
(* answer, and the archive sent so far is the beginning of a whole one     *)
(* (write_document, build_result_dict, build_zip_to_writer).               *)
THEOREM ResultsInduction == Spec => []ResultsInv
<1>1. Init => ResultsInv
    BY InitResults
<1>2. IInv /\ ShapesInv /\ ResultsInv /\ [Next]_vars => ResultsInv'
    BY ResultsStep
<1> QED BY <1>1, <1>2, Invariance, ShapesInduction, PTL DEF Spec

(* Whatever the names of the uploads, the kinds of documents and the files *)
(* that were written, build_result_dict and build_zip_to_writer only read  *)
(* for a document what write_document made from its own upload:            *)
(* ResultsOfOwnUpload.                                                     *)
THEOREM ResultsCorrect == Spec => []ResultsOfOwnUpload
<1>1. ResultsInv => ResultsOfOwnUpload
    <2> SUFFICES ASSUME ResultsInv PROVE ResultsOfOwnUpload
        OBVIOUS
    <2>1. DOMAIN todo = 1..Len(todo)
        BY ListedFacts DEF ResultsInv, OwnUnits, Units
    <2>2. \A n \in DOMAIN todo : todo[n].kind = "local" => n \in LocalsOf(todo)
        BY <2>1 DEF LocalsOf
    <2> QED BY <2>2 DEF ResultsInv, OwnJson, OwnUnits, ResultsOfOwnUpload
<1> QED BY <1>1, ResultsInduction, PTL

(* However many documents and files there are and however long their       *)
(* pieces, whatever the sizes of units, chunks, channel and fields, and    *)
(* wherever an error or the client breaks in: a download that ends without *)
(* an error is a whole archive of every file that is owed: ArchiveComplete. *)
THEOREM ArchiveCorrect == Spec => []ArchiveComplete
<1>1. ResultsInv => ArchiveComplete
    BY DEF ResultsInv, StreamInv, Wanted, ArchiveComplete
<1> QED BY <1>1, ResultsInduction, PTL

-----------------------------------------------------------------------------
(* The lease.                                                              *)

Writing == {"adding", "finishing", "failing"}

(* The handler that builds the payload and the thread that writes the      *)
(* archive each hold it; never both.                                       *)
HeldInv ==
    /\ phase = "json" => lease
    /\ thread \in Writing => lease /\ phase = "zip"

LEMMA HeldStep == IInv /\ HeldInv /\ [Next]_vars => HeldInv'
<1> SUFFICES ASSUME IInv, HeldInv, [Next]_vars PROVE HeldInv'
    OBVIOUS
<1>1. CASE Intake /\ UNCHANGED <<results, json, zipVars>>
    <2>1. phase # "zip" /\ phase' # "json" /\ UNCHANGED <<thread, lease>>
        BY <1>1 DEF Intake, Start, ReceiveForm, ReadOption, SaveField, EndForm, UniquifyStem, Reject, zipVars
    <2> QED BY <2>1 DEF HeldInv
<1>2. CASE WriteDocument
    <2>1. phase = "parsing" /\ UNCHANGED <<thread, lease>>
        BY <1>2 DEF WriteDocument, zipVars
    <2>2. phase' # "json"
        <3>1. loop \in 1..Len(uploads) /\ Len(uploads) \in Nat
            BY <1>2 DEF WriteDocument, IInv, UploadsInv
        <3>2. loop < Len(uploads) \/ loop = Len(uploads)
            BY <3>1
        <3> QED BY <1>2, <3>2 DEF WriteDocument
    <2> QED BY <2>1, <2>2 DEF HeldInv
<1>3. CASE ReadResult
    <2>1. thread \notin Writing
        BY <1>3 DEF ReadResult, HeldInv
    <2> QED BY <1>3, <2>1 DEF ReadResult, HeldInv
<1>4. CASE AddResult
    <2>1. thread \notin Writing
        BY <1>4 DEF AddResult, HeldInv
    <2>2. /\ phase = "json" /\ thread' = thread
          /\ UNCHANGED <<phase, lease>> \/ phase' = "failed"
        BY <1>4 DEF AddResult
    <2> QED BY <2>1, <2>2 DEF HeldInv
<1>5. CASE AnswerJson
    <2>1. thread \notin Writing
        BY <1>5 DEF AnswerJson, HeldInv
    <2> QED BY <1>5, <2>1 DEF AnswerJson, HeldInv
<1>6. CASE AddDocument
    BY <1>6 DEF AddDocument, HeldInv
<1>7. CASE Archiving
    <2>1. phase = "zip" /\ phase' = "zip"
        BY <1>7 DEF Archiving
    <2>2. CASE FinishArchive
        BY <2>1, <2>2 DEF FinishArchive, HeldInv, Writing
    <2>3. CASE WriteUnit
        <3>1. thread \in Writing /\ UNCHANGED lease
            BY <2>3 DEF WriteUnit, Writing
        <3> QED BY <2>1, <3>1 DEF HeldInv
    <2>4. CASE WriteFails
        BY <2>1, <2>4 DEF WriteFails, HeldInv, Writing
    <2>5. CASE FlushArchive
        <3>1. thread \in Writing
            BY <2>5 DEF FlushArchive, Writing
        <3>2. lease' <=> lease /\ thread' # "ended"
            BY <2>5 DEF FlushArchive
        <3> QED BY <2>1, <3>1, <3>2 DEF HeldInv, Writing
    <2>6. CASE SendError
        BY <2>1, <2>6 DEF SendError, HeldInv, Writing
    <2>7. CASE Reader
        <3>1. UNCHANGED <<thread, lease>>
            BY <2>7 DEF Reader, ClientReceives, ClientSeesEnd, ClientLeaves
        <3> QED BY <2>1, <3>1 DEF HeldInv
    <2> QED BY <1>7, <2>2, <2>3, <2>4, <2>5, <2>6, <2>7 DEF Archiving, Finish, Stream
<1>8. CASE UNCHANGED vars
    BY <1>8 DEF HeldInv, vars, zipVars
<1> QED BY <1>1, <1>2, <1>3, <1>4, <1>5, <1>6, <1>7, <1>8 DEF Next

(* A step that reads a file, or hands bytes to the body, has the lease. *)
LEMMA ReadsUnderLease ==
    ASSUME HeldInv, StreamShape, [Next]_vars,
           json' # json \/ todo' # todo \/ Len(channel') > Len(channel)
    PROVE  lease
<1>1. CASE \/ Intake /\ UNCHANGED <<results, json, zipVars>>
           \/ WriteDocument \/ ReadResult \/ UNCHANGED vars
    <2>1. UNCHANGED <<json, todo, channel>>
        BY <1>1 DEF WriteDocument, ReadResult, vars, zipVars, writerVars
    <2> QED
        <3>1. ~(Len(channel') > Len(channel))
            <4>1. Len(channel) \in Nat
                BY ListedFacts DEF StreamShape
            <4> QED BY <2>1, <4>1
        <3> QED BY <2>1, <3>1
<1>2. CASE AddResult \/ AnswerJson
    BY <1>2 DEF AddResult, AnswerJson, HeldInv
<1>3. CASE AddDocument
    BY <1>3 DEF AddDocument, HeldInv, Writing
<1>4. CASE Archiving
    <2>1. CASE Finish \/ Stream
        <3>1. thread \in Writing
            BY <2>1 DEF Finish, FinishArchive, Stream, WriteUnit, WriteFails, FlushArchive, SendError, Writing
        <3> QED BY <3>1 DEF HeldInv
    <2>2. CASE Reader
        <3>1. UNCHANGED <<json, todo>>
            BY <1>4, <2>2 DEF Archiving, Reader, ClientReceives, ClientSeesEnd, ClientLeaves, writerVars
        <3>2. Len(channel') <= Len(channel)
            <4>1. Listed(channel) /\ Len(channel) \in Nat
                BY ListedFacts DEF StreamShape
            <4>2. channel # <<>> => Len(Tail(channel)) = Len(channel) - 1
                BY <4>1, Splitting, ListedFacts
            <4>3. \/ channel # <<>> /\ channel' = Tail(channel)
                  \/ channel' = channel
                  \/ channel' = <<>>
                BY <2>2 DEF Reader, ClientReceives, ClientSeesEnd, ClientLeaves
            <4>4. Len(<<>>) = 0
                OBVIOUS
            <4> QED BY <4>1, <4>2, <4>3, <4>4
        <3>3. Len(channel) \in Nat /\ Len(channel') \in Nat
            <4>1. Listed(channel)
                BY DEF StreamShape
            <4> QED BY <4>1, <2>2, ListedFacts, Splitting DEF Reader, ClientReceives, ClientSeesEnd, ClientLeaves
        <3> QED BY <3>1, <3>2, <3>3
    <2> QED BY <1>4, <2>1, <2>2 DEF Archiving
<1> QED BY <1>1, <1>2, <1>3, <1>4 DEF Next

(* For any forms, channel and chunk sizes, clients and errors: no step of  *)
(* the handler or of the ZIP thread reads a file or hands over a byte      *)
(* without the lease.                                                      *)
THEOREM LeaseCorrect == Spec => HeldWhileReading
<1>1. Init => HeldInv
    BY DEF Init, IntakeInit, ZipInit, HeldInv, Writing
<1>2. IInv /\ HeldInv /\ [Next]_vars => HeldInv'
    BY HeldStep
<1>3. HeldInv /\ ShapesInv /\ [Next]_vars =>
        [json' # json \/ todo' # todo \/ Len(channel') > Len(channel) => lease]_vars
    BY ReadsUnderLease DEF ShapesInv
<1> QED BY <1>1, <1>2, <1>3, Invariance, ShapesInduction, PTL DEF Spec, HeldWhileReading

=============================================================================
