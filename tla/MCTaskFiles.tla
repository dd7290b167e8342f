---------------------------- MODULE MCTaskFiles ----------------------------
(***************************************************************************)
(* Model-checking instance of TaskFiles: forms of up to three files whose  *)
(* names collide in case, by length or with a number given to another one. *)
(***************************************************************************)
EXTENDS TaskFiles

NoFile == [named |-> FALSE, stem |-> <<>>, ext |-> ""]

Option(name, value) == [name |-> name, value |-> value] @@ NoFile

Upload(stem, ext) == [name |-> "files", value |-> "", named |-> TRUE, stem |-> stem, ext |-> ext]

Lower  == [c \in {"A"} |-> "a"]
Widths == [c \in {"a", "A", "_", "1", "2", "3", "4", "__upload_"} |-> 1] @@ [c \in {"é"} |-> 2]

Names == {<<"a">>, <<"A">>, <<"a", "_", "2">>, <<"a", "_", "2", "a">>, <<"a", "__upload_", "2">>}

NameForms ==
    {<<Upload(x, "pdf"), Upload(y, e), Upload(z, "pdf")>> : x, y, z \in Names, e \in {"PDF", "pdf"}}

Long == {<<"é", "a", "é">>, <<"é", "a">>, <<"a", "_", "2">>}

LongForms == {<<Upload(x, "pdf"), Upload(y, "docx"), Upload(z, "pdf")>> : x, y, z \in Long}

Doc(ext) == Upload(<<"a">>, ext)

Archive == Option("response_format_zip", "on")
Images  == Option("return_images", "1")
Origin  == Option("return_original_file", "yes")

OptionForms ==
    {<<>>, <<Archive>>,
     <<Upload(<<"a">>, "txt")>>, <<[Doc("pdf") EXCEPT !.named = FALSE]>>,
     <<Doc("pdf"), Option("backend", "vllm-http-client"), Origin>>,
     <<Doc("pdf"), Option("backend", "pipeline")>>,
     <<Doc("pdf"), Option("server_url", "http://v")>>,
     <<Doc("pdf"), Option("parse_method", "fast")>>,
     <<Doc("pdf"), Option("start_page_id", "2"), Option("end_page_id", "1")>>,
     <<Option("end_page_id", "many"), Doc("pdf")>>,
     <<Option("return_md", "maybe"), Doc("pdf")>>,
     <<Option("lang_list", "en"), Option("return_content_list", "true"),
       Option("return_middle_json", "true"), Images, Doc("png"), Doc("docx")>>}

ZipForms ==
    {<<Archive, Images, Doc("pdf")>>,
     <<Archive, Images, Doc("pdf"), Doc("pptx")>>,
     <<Archive, Origin, Doc("docx"), Doc("webp")>>,
     <<Archive, Origin, Doc("docx"), Doc("pdf"), Doc("jpg")>>,
     <<Archive, Option("return_md", "no"), Option("return_content_list", "true"),
       Doc("pdf"), Doc("pdf"), Doc("pdf")>>}

Forms == NameForms \cup LongForms \cup OptionForms \cup ZipForms

Env == [max_concurrent_requests |-> -1, max_in_flight_tasks |-> -1, max_upload_size_bytes |-> -1,
        processing_window_size |-> -1, vlm_max_concurrency |-> -1, vlm_queue_capacity |-> -1,
        max_vlm_requests_per_task |-> -1, image_preprocess_threads |-> -1,
        memory_reclaim_after_task |-> "", task_retention |-> -1, task_cleanup_interval |-> -1,
        default_backend |-> None, default_server_url |-> None]

At(host, allow) == [host |-> host, allow_public_http_client |-> allow]

Startups ==
    {[args |-> At("127.0.0.1", FALSE), env |-> Env]}
    \cup {[args |-> At("::", TRUE), env |-> [Env EXCEPT !.default_backend = "pipeline"]],
          [args |-> At("0.0.0.0", FALSE), env |-> [Env EXCEPT !.memory_reclaim_after_task = "off"]]}
    \cup {[args |-> At("127.0.0.1", FALSE),
           env |-> [Env EXCEPT !.vlm_max_concurrency = w, !.max_vlm_requests_per_task = t,
                               !.max_concurrent_requests = MaxUsize, !.task_cleanup_interval = 0]]
          : w \in {0, 1, 4, MaxUsize}, t \in {-1, 0, 3, MaxUsize}}

ImageNames == {"images/1", "images/2"}

LeafPieces == [md |-> 1, middle |-> 0, model |-> 1, content_list |-> 0, content_list_v2 |-> 1,
               origin |-> 2] @@ [i \in ImageNames |-> 2]

Sizes == [local |-> 1, data |-> 2, descriptor |-> 1, central |-> 2, end |-> 1]
=============================================================================
