------------------------------ MODULE VlmClient ------------------------------
(***************************************************************************)
(* The client of the VLM service, src/src/vlm/client.rs: how concurrent    *)
(* requests settle on one model name per server through the shared cache,  *)
(* and how one chat completion is built, sent, repeated and read.          *)
(*                                                                         *)
(* The HTTP library is external: one call of it is one step, which ends    *)
(* with a reply or an error of the library (its own timeouts, 10 s to      *)
(* connect and MINERU_HTTP_TIMEOUT in all, bound it; what the library      *)
(* repeats by itself is inside the step).  A server may answer each call   *)
(* differently, as one being redeployed does.  URLs and replies are kept   *)
(* as far as the code looks into them.                                     *)
(***************************************************************************)
EXTENDS Integers, Sequences, FiniteSets

CONSTANTS
    Request,      \* parser requests, one session and one chat completion each
    Url,          \* server URLs a form or MINERU_VL_SERVER may hold
    FormUrl,      \* values of the form's server_url (None: missing or blank)
    EnvServer,    \* values of MINERU_VL_SERVER (None: unset)
    EnvModel,     \* values of MINERU_VL_MODEL_NAME (None: unset or blank)
    ModelName,    \* names of models, "" among them
    Gpt,          \* the names that start with gpt
    BlockKind,    \* kinds of block to ask about
    ListReply,    \* what GET /v1/models may come back with
    ChatError,    \* errors of the library for one chat call
    ChatReply,    \* bodies of a successful chat call
    None

ASSUME ClientAssumption ==
    /\ IsFiniteSet(Request) /\ None \notin Request
    /\ None \notin Url /\ None \notin ModelName /\ EnvModel \subseteq ModelName \cup {None}
    /\ FormUrl \cup EnvServer \subseteq Url \cup {None} /\ "" \notin EnvModel /\ Gpt \subseteq ModelName
    /\ \A u \in Url : u = [http |-> u.http, host |-> u.host, path |-> u.path]

VARIABLES
    env,        \* MINERU_VL_SERVER and MINERU_VL_MODEL_NAME of the process
    form,       \* the server URL of each request's form
    pc,         \* where each request is
    base,       \* base_url
    listing,    \* the models the server listed for the request
    name,       \* the model name: resolved, and after storing the session's
    cache,      \* model_name_cache
    cacheLock,  \* who holds its mutex
    body,       \* the body of the chat completion
    attempt,    \* attempt_count + 1
    outcomes,   \* how the calls of the chat completion ended
    waited,     \* milliseconds slept between them
    answer      \* the result of predict_with_session

sessionVars == <<form, base, listing, name, cache, cacheLock>>
chatVars    == <<body, attempt, outcomes, waited, answer>>
vars == <<env, pc, sessionVars, chatVars>>

MaxAttempts   == 3           \* CHAT_COMPLETION_MAX_ATTEMPTS
RetryDelaysMs == <<200, 500>>

RetryDelay(n) == IF n \in 1..Len(RetryDelaysMs) THEN RetryDelaysMs[n] ELSE 500

Goto(r, from, to) == pc[r] = from /\ pc' = [pc EXCEPT ![r] = to]

-----------------------------------------------------------------------------
(* Server URLs: [http, host, path], path being the segments of the rest.   *)

EndsWithV1(path) == path # <<>> /\ path[Len(path)] = "v1"

(* trim_end_matches strips every /v1 the path ends with. *)
TrimV1(path) ==
    LET kept == {n \in 0..Len(path) : \A i \in n + 1..Len(path) : path[i] = "v1"}
    IN  SubSeq(path, 1, CHOOSE n \in kept : \A m \in kept : n <= m)

(* Faulty: the origin of every URL, so a server below a path is lost. *)
ResolveOriginOnly(raw) ==
    IF raw.http THEN [raw EXCEPT !.path = <<>>] ELSE None

ResolveServerUrl(raw) ==
    IF EndsWithV1(raw.path) THEN [raw EXCEPT !.path = TrimV1(raw.path)]
    ELSE IF raw.http THEN [raw EXCEPT !.path = <<>>]
    ELSE None

(* The form's URL, else the environment's; None is a blank or missing one. *)
ServerUrl(r) == IF form[r] # None THEN form[r] ELSE env.server

Bases == {ResolveServerUrl(u) : u \in Url} \ {None}

-----------------------------------------------------------------------------
(* The request: prompts, sampling and the body of a chat completion.       *)

(* Penalties in thousandths; the other parameters are the same for all.    *)
SamplingParams(k) ==
    CASE k = "layout" -> [presence |-> 0, frequency |-> 0]
      [] k = "table"  -> [presence |-> 1000, frequency |-> 5]
      [] OTHER        -> [presence |-> 1000, frequency |-> 50]

Prompt(k) ==
    CASE k = "layout"             -> "Layout Detection"
      [] k = "table"              -> "Table Recognition"
      [] k = "equation"           -> "Formula Recognition"
      [] k \in {"image", "chart"} -> "Image Analysis"
      [] OTHER                    -> "Text Recognition"

(* Withheld from a model named gpt; priority and vllm_xargs are not. *)
KeysNotForGpt == {"skip_special_tokens", "top_k", "repetition_penalty"}

SamplingKeys(m) ==
    {"temperature", "top_p", "presence_penalty", "frequency_penalty", "vllm_xargs"}
        \cup (IF m \in Gpt THEN {} ELSE KeysNotForGpt)

ChatBody(m, k) ==
    [model |-> m, prompt |-> Prompt(k), sampling |-> SamplingParams(k),
     keys |-> SamplingKeys(m) \cup {"priority"}]

-----------------------------------------------------------------------------
(* Errors and replies.                                                     *)

(* Faulty: every error status is worth another call. *)
ShouldRetryAnyStatus(e) ==
    \/ e.class = "reqwest" /\ e.cause \in {"request", "connect", "timeout"}
    \/ e.class = "api" /\ e.status >= 400

ShouldRetry(e) ==
    \/ e.class = "reqwest" /\ e.cause \in {"request", "connect", "timeout"}
    \/ /\ e.class = "api"
       /\ \/ e.status = 429 \/ e.status \in 500..599
          \/ e.code = "rate_limit_exceeded"
          \/ e.type = "server_error"

StripEndToken(text) ==
    IF text # <<>> /\ text[Len(text)] = "end" THEN SubSeq(text, 1, Len(text) - 1) ELSE text

Failure(class) == [ok |-> FALSE, class |-> class]

NoGeneration(d) == d.object = "error" \/ d.choices = 0 \/ d.finish = None

(* What a successful call means; a text is a sequence of tokens. *)
ParseChatContent(d) ==
    CASE NoGeneration(d)                  -> Failure("Internal")
      [] ~NoGeneration(d) /\ d.finish \in {"stop", "length"} ->
                                             [ok |-> TRUE, text |-> StripEndToken(d.content)]
      [] OTHER                            -> Failure("BadRequest")

(* The ids of the listed models; an entry without an id is left out. *)
ModelListFromPayload(data) ==
    LET HasId(m) == m # None IN SelectSeq(data, HasId)

ASSUME ListingAssumption ==
    \A reply \in ListReply : reply.class = "data" =>
        ModelListFromPayload(reply.data) \in Seq(ModelName)

-----------------------------------------------------------------------------
TypeOK ==
    /\ env \in [server : EnvServer, model : EnvModel]
    /\ form \in [Request -> FormUrl]
    /\ pc \in [Request -> {"start", "lookup", "resolve", "store", "ready", "sending",
                           "sleeping", "locking", "restoring", "answered", "failed"}]
    /\ base \in [Request -> Bases \cup {None}]
    /\ name \in [Request -> ModelName \cup {None}]
    /\ cache \in [Bases -> ModelName \cup {None}]
    /\ cacheLock \in Request \cup {None}
    /\ attempt \in [Request -> 1..MaxAttempts]
    /\ waited \in [Request -> Nat]

Init ==
    /\ env \in [server : EnvServer, model : EnvModel]
    /\ form \in [Request -> FormUrl]
    /\ pc = [r \in Request |-> "start"]
    /\ base = [r \in Request |-> None]
    /\ listing = [r \in Request |-> None]
    /\ name = [r \in Request |-> None]
    /\ cache = [b \in Bases |-> None]
    /\ cacheLock = None
    /\ body = [r \in Request |-> None]
    /\ attempt = [r \in Request |-> 1]
    /\ outcomes = [r \in Request |-> <<>>]
    /\ waited = [r \in Request |-> 0]
    /\ answer = [r \in Request |-> None]

-----------------------------------------------------------------------------
(* session_for_request.                                                    *)

RefuseUrl(r) ==
    /\ ServerUrl(r) # None => ResolveServerUrl(ServerUrl(r)) = None
    /\ Goto(r, "start", "failed")
    /\ answer' = [answer EXCEPT ![r] = Failure("BadRequest")]
    /\ UNCHANGED <<env, sessionVars, body, attempt, outcomes, waited>>

StartSession(r) ==
    /\ ServerUrl(r) # None /\ ResolveServerUrl(ServerUrl(r)) # None
    /\ Goto(r, "start", "locking")
    /\ base' = [base EXCEPT ![r] = ResolveServerUrl(ServerUrl(r))]
    /\ UNCHANGED <<env, form, listing, name, cache, cacheLock, chatVars>>

LockCache(r) ==
    /\ cacheLock = None
    /\ Goto(r, "locking", "lookup") \/ Goto(r, "restoring", "store")
    /\ cacheLock' = r
    /\ UNCHANGED <<env, form, base, listing, name, cache, chatVars>>

(* Faulty: the guard lives to the end of the function, across the listing. *)
LookupCacheKeepingLock(r) ==
    /\ \/ Goto(r, "lookup", "ready") /\ cache[base[r]] # None /\ cacheLock' = None
       \/ Goto(r, "lookup", "resolve") /\ cache[base[r]] = None /\ UNCHANGED cacheLock
    /\ name' = [name EXCEPT ![r] = cache[base[r]]]
    /\ UNCHANGED <<env, form, base, listing, cache, chatVars>>

(* The guard of the lock is dropped at the end of the block. *)
LookupCache(r) ==
    /\ \/ Goto(r, "lookup", "ready") /\ cache[base[r]] # None
       \/ Goto(r, "lookup", "resolve") /\ cache[base[r]] = None
    /\ name' = [name EXCEPT ![r] = cache[base[r]]]
    /\ cacheLock' = None
    /\ UNCHANGED <<env, form, base, listing, cache, chatVars>>

UseConfiguredModel(r) ==
    /\ env.model # None
    /\ Goto(r, "resolve", "restoring")
    /\ name' = [name EXCEPT ![r] = env.model]
    /\ UNCHANGED <<env, form, base, listing, cache, cacheLock, chatVars>>

OnlyModel(models) == Len(models) = 1 /\ models[1] # ""

(* list_models and the checks of its reply. *)
ListModels(r) ==
    /\ env.model = None
    /\ pc[r] = "resolve"
    /\ \E reply \in ListReply :
          \/ /\ reply.class # "data"
             /\ pc' = [pc EXCEPT ![r] = "failed"]
             /\ answer' = [answer EXCEPT ![r] = Failure("Internal")]
             /\ UNCHANGED <<listing, name>>
          \/ /\ reply.class = "data"
             /\ LET models == ModelListFromPayload(reply.data) IN
                /\ listing' = [listing EXCEPT ![r] = models]
                /\ \/ /\ OnlyModel(models)
                      /\ pc' = [pc EXCEPT ![r] = "restoring"]
                      /\ name' = [name EXCEPT ![r] = models[1]]
                      /\ UNCHANGED answer
                   \/ /\ ~OnlyModel(models)
                      /\ pc' = [pc EXCEPT ![r] = "failed"]
                      /\ answer' = [answer EXCEPT ![r] = Failure("BadRequest")]
                      /\ UNCHANGED name
    /\ UNCHANGED <<env, form, base, cache, cacheLock, body, attempt, outcomes, waited>>

(* Faulty: the slower request overwrites the name the faster one stored. *)
StoreModelNameOver(r) ==
    /\ Goto(r, "store", "ready")
    /\ cache' = [cache EXCEPT ![base[r]] = name[r]]
    /\ cacheLock' = None
    /\ UNCHANGED <<env, form, base, listing, name, chatVars>>

(* entry().or_insert(): the first name stored is everybody's. *)
StoreModelName(r) ==
    /\ Goto(r, "store", "ready")
    /\ cache' = [cache EXCEPT ![base[r]] = IF @ = None THEN name[r] ELSE @]
    /\ name' = [name EXCEPT ![r] = cache'[base[r]]]
    /\ cacheLock' = None
    /\ UNCHANGED <<env, form, base, listing, chatVars>>

-----------------------------------------------------------------------------
(* predict_with_session.                                                   *)

StartChat(r) ==
    /\ Goto(r, "ready", "sending")
    /\ \E k \in BlockKind : body' = [body EXCEPT ![r] = ChatBody(name[r], k)]
    /\ UNCHANGED <<env, sessionVars, attempt, outcomes, waited, answer>>

ChatSucceeds(r) ==
    /\ pc[r] = "sending"
    /\ \E d \in ChatReply :
          /\ outcomes' = [outcomes EXCEPT ![r] = Append(@, [class |-> "reply"])]
          /\ answer' = [answer EXCEPT ![r] = ParseChatContent(d)]
          /\ pc' = [pc EXCEPT ![r] = IF ParseChatContent(d).ok THEN "answered" ELSE "failed"]
    /\ UNCHANGED <<env, sessionVars, body, attempt, waited>>

ChatRetries(r) ==
    /\ attempt[r] < MaxAttempts
    /\ Goto(r, "sending", "sleeping")
    /\ \E e \in ChatError :
          /\ ShouldRetry(e)
          /\ outcomes' = [outcomes EXCEPT ![r] = Append(@, e)]
    /\ waited' = [waited EXCEPT ![r] = @ + RetryDelay(attempt[r])]
    /\ attempt' = [attempt EXCEPT ![r] = @ + 1]
    /\ UNCHANGED <<env, sessionVars, body, answer>>

SleepEnds(r) ==
    /\ Goto(r, "sleeping", "sending")
    /\ UNCHANGED <<env, sessionVars, chatVars>>

ChatFails(r) ==
    /\ Goto(r, "sending", "failed")
    /\ \E e \in ChatError :
          /\ attempt[r] = MaxAttempts \/ ~ShouldRetry(e)
          /\ outcomes' = [outcomes EXCEPT ![r] = Append(@, e)]
    /\ answer' = [answer EXCEPT ![r] = Failure("Internal")]
    /\ UNCHANGED <<env, sessionVars, body, attempt, waited>>

-----------------------------------------------------------------------------
Step(r) ==
    \/ RefuseUrl(r) \/ StartSession(r)
    \/ LockCache(r) \/ LookupCache(r)
    \/ UseConfiguredModel(r) \/ ListModels(r) \/ StoreModelName(r)
    \/ StartChat(r) \/ ChatSucceeds(r) \/ ChatRetries(r) \/ SleepEnds(r) \/ ChatFails(r)

Next == \E r \in Request : Step(r)

Spec == Init /\ [][Next]_vars

(* The runtime polls every request, the sleeps end and the library's own   *)
(* timeouts end every call.  The mutex of tokio is fair, and each request  *)
(* takes it twice at most.                                                 *)
FairSpec == Spec /\ \A r \in Request : WF_vars(Step(r))

-----------------------------------------------------------------------------
InSession(r) == pc[r] \in {"ready", "sending", "sleeping", "answered"} \/ body[r] # None

(* All requests of one server talk to it about the same model, the one in  *)
(* the cache, however their lookups, listings and stores interleave and    *)
(* whatever the server listed to each.                                     *)
SessionsAgree == \A r \in Request : InSession(r) => name[r] # None /\ cache[base[r]] = name[r]

(* A name gets into the cache of a server only as the configured one or as *)
(* the single model that this server listed to some request: no failure,   *)
(* no choice among several and no other server's answer is ever cached.    *)
CachedNamesResolved ==
    \A b \in Bases : cache[b] # None =>
        \E r \in Request :
            /\ base[r] = b
            /\ IF env.model # None THEN cache[b] = env.model ELSE listing[r] = <<cache[b]>>

(* The body that is sent, at every attempt, is the one for the model that  *)
(* the cache of its server holds by then, in name and in keys, although it *)
(* was built once, before the first attempt.                               *)
BodyFitsModel ==
    \A r \in Request : body[r] # None =>
        \E k \in BlockKind : body[r] = ChatBody(cache[base[r]], k)

(* What the requests rely on when they share model_name_cache: it holds    *)
(* resolved names only, everybody uses the name it holds, and the bodies   *)
(* sent are the ones built for that name.                                  *)
SessionsSound == TypeOK /\ SessionsAgree /\ CachedNamesResolved /\ BodyFitsModel

(* A request that names a server with a /v1 address is sent to the address *)
(* it named: two servers of one host are never taken for each other.       *)
ServersKeptApart ==
    \A r, s \in Request :
        /\ base[r] # None /\ base[r] = base[s]
        /\ EndsWithV1(ServerUrl(r).path) /\ EndsWithV1(ServerUrl(s).path)
        => /\ ServerUrl(r).host = ServerUrl(s).host
           /\ TrimV1(ServerUrl(r).path) = TrimV1(ServerUrl(s).path)

(* A worker slot is held for three calls and 700 ms of sleep at most, and  *)
(* every attempt that was counted was one call.                            *)
RetriesBounded ==
    \A r \in Request :
        /\ Len(outcomes[r]) <= 3
        /\ waited[r] = (IF attempt[r] > 1 THEN 200 ELSE 0) + (IF attempt[r] > 2 THEN 500 ELSE 0)
        /\ pc[r] \in {"answered", "failed"} => Len(outcomes[r]) = attempt[r] \/ body[r] = None

(* An error that says the request itself is wrong is never answered by     *)
(* sending the same body again.                                            *)
ClientErrorsNotRepeated ==
    \A r \in Request : \A i \in 1..Len(outcomes[r]) - 1 :
        LET e == outcomes[r][i] IN
        e.class = "api" /\ e.status \in 400..499 \ {429} =>
            e.code = "rate_limit_exceeded" \/ e.type = "server_error"

(* The retries of predict_with_session: few enough for the slot they keep  *)
(* and only of what another call may cure.                                 *)
RetriesSound == RetriesBounded /\ ClientErrorsNotRepeated

(* Every request ends, answered or with an error. *)
RequestsEnd == \A r \in Request : <>(pc[r] \in {"answered", "failed"})
=============================================================================
