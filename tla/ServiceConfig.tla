--------------------------- MODULE ServiceConfig ---------------------------
(***************************************************************************)
(* The configuration the service starts with (src/src/config/mod.rs) and   *)
(* the options of one parse request (src/src/domain/models.rs,             *)
(* src/src/server/security.rs, the form of src/src/server/routes.rs).      *)
(*                                                                         *)
(* An environment variable that holds a number is an integer: a negative   *)
(* one stands for a variable that is missing or does not parse.            *)
(***************************************************************************)
EXTENDS Integers, Sequences

CONSTANTS
    MaxUsize,     \* usize::MAX
    MaxPermits,   \* Semaphore::MAX_PERMITS of tokio, which its channels have too
    Cores,        \* available_parallelism
    None

ASSUME ConfigAssumption ==
    /\ MaxUsize \in Nat /\ MaxUsize >= 268435456
    /\ MaxPermits \in 50..MaxUsize
    /\ Cores \in Nat \ {0}

CapAt(n, bound) == IF n > bound THEN bound ELSE n
AtLeast(n, bound) == IF n < bound THEN bound ELSE n

(* saturating_mul of a usize by a small factor. *)
SaturatingMul(n, factor) == IF n > MaxUsize \div factor THEN MaxUsize ELSE n * factor

(* read_parsed_env: a missing, unreadable or too small value is the default. *)
ReadParsedEnv(raw, default, minimum) == IF raw >= minimum THEN raw ELSE default

ReadBoolEnv(raw, default) ==
    CASE raw \in {"true", "1", "yes", "on"}  -> TRUE
      [] raw \in {"false", "0", "no", "off"} -> FALSE
      [] OTHER                               -> default

IsPublicBindHost(host) == host \in {"0.0.0.0", "::", "0:0:0:0:0:0:0:0"}

(* Faulty: the per-task limit keeps its default ceiling whatever the pool. *)
PerTaskRequestsUnclamped(raw, workers) == ReadParsedEnv(raw, 8, 1)

PerTaskRequests(raw, workers) ==
    AtLeast(CapAt(ReadParsedEnv(raw, CapAt(AtLeast(workers, 1), 8), 1), workers), 1)

FromArgs(args, env) ==
    LET requests == ReadParsedEnv(env.max_concurrent_requests, 3, 1)
        workers  == ReadParsedEnv(env.vlm_max_concurrency, 50, 1)
    IN  [public_bind_exposed       |-> IsPublicBindHost(args.host),
         allow_public_http_client  |-> args.allow_public_http_client,
         max_concurrent_requests   |-> requests,
         max_in_flight_tasks       |->
            ReadParsedEnv(env.max_in_flight_tasks, AtLeast(SaturatingMul(requests, 2), 1), 1),
         max_upload_size_bytes     |-> ReadParsedEnv(env.max_upload_size_bytes, 268435456, 1),
         processing_window_size    |-> ReadParsedEnv(env.processing_window_size, 8, 1),
         vlm_max_concurrency       |-> workers,
         vlm_queue_capacity        |->
            ReadParsedEnv(env.vlm_queue_capacity, AtLeast(SaturatingMul(workers, 4), 1), 1),
         max_vlm_requests_per_task |-> PerTaskRequests(env.max_vlm_requests_per_task, workers),
         image_preprocess_threads  |-> ReadParsedEnv(env.image_preprocess_threads, Cores, 1),
         memory_reclaim_after_task |-> ReadBoolEnv(env.memory_reclaim_after_task, TRUE),
         task_retention            |-> ReadParsedEnv(env.task_retention, 86400, 0),
         task_cleanup_interval     |-> ReadParsedEnv(env.task_cleanup_interval, 300, 1)]

(* What the semaphores and the queue refuse to be created with: they panic. *)
Startable(c) ==
    /\ c.max_in_flight_tasks <= MaxPermits
    /\ c.max_concurrent_requests <= MaxPermits
    /\ c.vlm_queue_capacity <= MaxPermits

-----------------------------------------------------------------------------
(* The options of a request.                                               *)

BoolOption == {"formula_enable", "table_enable", "image_analysis", "return_md",
               "return_middle_json", "return_model_output", "return_content_list",
               "return_images", "response_format_zip", "return_original_file"}

DefaultOptions(env) ==
    [flag         |-> [b \in BoolOption |->
                          b \in {"formula_enable", "table_enable", "image_analysis", "return_md"}],
     backend      |-> IF env.default_backend = None THEN "vlm-http-client" ELSE env.default_backend,
     parse_method |-> "auto",
     server_url   |-> env.default_server_url,
     start_page_id |-> 0,
     end_page_id   |-> 99999]

Truthy == {"true", "1", "yes", "on"}
Falsy  == {"false", "0", "no", "off"}

(* The decimal numbers a page field may hold; anything else is refused. *)
Numeral == [n \in {"0", "1", "2"} |-> CASE n = "0" -> 0 [] n = "1" -> 1 [] n = "2" -> 2]

FieldValid(f) ==
    CASE f.name \in BoolOption                       -> f.value \in Truthy \cup Falsy
      [] f.name \in {"start_page_id", "end_page_id"} -> f.value \in DOMAIN Numeral
      [] OTHER                                       -> TRUE

ApplyFormField(o, f) ==
    CASE f.name \in BoolOption     -> [o EXCEPT !.flag[f.name] = f.value \in Truthy]
      [] f.name = "backend"        -> [o EXCEPT !.backend = f.value]
      [] f.name = "parse_method"   -> [o EXCEPT !.parse_method = f.value]
      [] f.name = "server_url"     -> [o EXCEPT !.server_url = f.value]
      [] f.name = "start_page_id"  -> [o EXCEPT !.start_page_id = Numeral[f.value]]
      [] f.name = "end_page_id"    -> [o EXCEPT !.end_page_id = Numeral[f.value]]
      [] OTHER                     -> o

(* The end of parse_multipart. *)
NormalizeOptions(o) ==
    [o EXCEPT !.flag["return_original_file"] = @ /\ o.flag["response_format_zip"],
              !.backend = IF @ = "vllm-http-client" THEN "vlm-http-client" ELSE @]

HttpClientBackend == {"vlm-http-client", "vllm-http-client", "hybrid-http-client"}

ServerUrlHasValue(o) == o.server_url \notin {None, "", " "}

PolicyAllows(c, o) ==
    \/ ~c.public_bind_exposed
    \/ c.allow_public_http_client
    \/ ~(o.backend \in HttpClientBackend \/ ServerUrlHasValue(o))

OptionsValid(o) ==
    /\ o.parse_method \in {"auto", "txt", "ocr"}
    /\ o.backend \in {"vlm-http-client", "vllm-http-client"}
    /\ o.end_page_id >= o.start_page_id

-----------------------------------------------------------------------------
(* Whatever the environment holds, the service starts with what the other  *)
(* modules assume of their constants: every limit is positive, one task    *)
(* never gets more requests than there are workers, the queue is no        *)
(* shorter than one, and a timer never has a zero period.                  *)
LimitsUsable(c) ==
    /\ \A n \in {c.max_concurrent_requests, c.max_in_flight_tasks, c.max_upload_size_bytes,
                 c.processing_window_size, c.vlm_max_concurrency, c.vlm_queue_capacity,
                 c.image_preprocess_threads, c.task_cleanup_interval} : n \in Nat \ {0}
    /\ c.max_vlm_requests_per_task \in 1..c.vlm_max_concurrency
    /\ c.task_retention \in Nat
=============================================================================
