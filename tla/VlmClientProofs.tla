-------------------------- MODULE VlmClientProofs --------------------------
(***************************************************************************)
(* Proofs about VlmClient, for any requests, servers, models, listings,    *)
(* errors and replies.                                                     *)
(***************************************************************************)
EXTENDS VlmClient, TLAPS

-----------------------------------------------------------------------------
(* The inductive invariant, in parts.                                      *)

Resolving == {"start", "locking", "lookup", "resolve"}
Sending   == {"sending", "sleeping"}
Early     == Resolving \cup {"restoring", "store", "ready"}

(* The name a request resolved for itself, before it meets the cache.      *)
ResolvedBy(r, m) == IF env.model # None THEN m = env.model ELSE listing[r] = <<m>>

(* A session has the base URL of the server its request named.             *)
BaseInv ==
    \A r \in Request :
        /\ pc[r] = "start" => base[r] = None
        /\ pc[r] \notin {"start", "failed"} => base[r] # None
        /\ base[r] # None => ServerUrl(r) \in Url /\ base[r] = ResolveServerUrl(ServerUrl(r))

(* A name on its way to the cache was resolved, and one in the cache was   *)
(* resolved by a request that is past resolving.                           *)
NamesInv ==
    /\ \A r \in Request : pc[r] \in {"restoring", "store"} =>
           name[r] # None /\ ResolvedBy(r, name[r])
    /\ \A b \in Bases : cache[b] # None =>
           \E r \in Request : /\ base[r] = b /\ pc[r] \notin Resolving
                              /\ ResolvedBy(r, cache[b])

(* A body exists from the first call on, built for the name of its session. *)
BodyInv ==
    \A r \in Request :
        /\ pc[r] \in Early => body[r] = None
        /\ body[r] # None => base[r] # None
        /\ body[r] # None => \E k \in BlockKind : body[r] = ChatBody(name[r], k)

(* Before each call every earlier one ended with an error worth a retry.   *)
RetryInv ==
    \A r \in Request :
        /\ outcomes[r] \in Seq(ChatError \cup {[class |-> "reply"]})
        /\ pc[r] \in Early => outcomes[r] = <<>> /\ attempt[r] = 1
        /\ pc[r] \in Sending => Len(outcomes[r]) = attempt[r] - 1
        /\ pc[r] \in Sending => \A i \in 1..Len(outcomes[r]) : ShouldRetry(outcomes[r][i])
        /\ \A i \in 1..Len(outcomes[r]) - 1 : ShouldRetry(outcomes[r][i])

(* Each of these is a function of the requests.                            *)
Functions ==
    /\ listing = [r \in Request |-> listing[r]]
    /\ body = [r \in Request |-> body[r]]
    /\ outcomes = [r \in Request |-> outcomes[r]]
    /\ answer = [r \in Request |-> answer[r]]

IInv == Functions /\ TypeOK /\ BaseInv /\ NamesInv /\ SessionsAgree /\ BodyInv /\ RetryInv /\ RetriesBounded
-----------------------------------------------------------------------------
LEMMA InitInv == Init => IInv
<1> SUFFICES ASSUME Init PROVE IInv
    OBVIOUS
<1> USE DEF Init
<1>1. Functions
    BY DEF Functions
<1>2. TypeOK
    <2>1. attempt \in [Request -> 1..MaxAttempts]
        BY DEF MaxAttempts
    <2>2. cache \in [Bases -> ModelName \cup {None}] /\ waited \in [Request -> Nat]
        OBVIOUS
    <2> QED BY <2>1, <2>2 DEF TypeOK
<1>3. BaseInv /\ NamesInv /\ SessionsAgree /\ BodyInv
    BY DEF BaseInv, NamesInv, SessionsAgree, BodyInv, InSession, Early, Resolving
<1>4. RetryInv /\ RetriesBounded
    BY DEF RetryInv, RetriesBounded, Early, Sending, Resolving
<1> QED BY <1>1, <1>2, <1>3, <1>4 DEF IInv

LEMMA NoneApart ==
    /\ None \notin Url /\ None \notin ModelName
    /\ EnvModel \subseteq ModelName \cup {None}
    /\ FormUrl \subseteq Url \cup {None} /\ EnvServer \subseteq Url \cup {None}
BY ClientAssumption

(* Each action changes the entries of one request only. *)
LEMMA FunctionsStep ==
    ASSUME Functions, TypeOK, NEW r \in Request, Step(r)
    PROVE  Functions'
<1> USE DEF Functions, Goto
<1>1. CASE RefuseUrl(r) BY <1>1 DEF RefuseUrl, sessionVars
<1>2. CASE StartSession(r) BY <1>2 DEF StartSession, chatVars
<1>3. CASE LockCache(r) BY <1>3 DEF LockCache, chatVars
<1>4. CASE LookupCache(r) BY <1>4 DEF LookupCache, chatVars
<1>5. CASE UseConfiguredModel(r) BY <1>5 DEF UseConfiguredModel, chatVars
<1>6. CASE ListModels(r) BY <1>6 DEF ListModels
<1>7. CASE StoreModelName(r) BY <1>7 DEF StoreModelName, chatVars
<1>8. CASE StartChat(r) BY <1>8 DEF StartChat, sessionVars
<1>9. CASE ChatSucceeds(r) BY <1>9 DEF ChatSucceeds, sessionVars
<1>10. CASE ChatRetries(r) BY <1>10 DEF ChatRetries, sessionVars
<1>11. CASE SleepEnds(r) BY <1>11 DEF SleepEnds, sessionVars, chatVars
<1>12. CASE ChatFails(r) BY <1>12 DEF ChatFails, sessionVars
<1> QED BY <1>1, <1>2, <1>3, <1>4, <1>5, <1>6, <1>7, <1>8, <1>9, <1>10, <1>11, <1>12 DEF Step

LEMMA ResolvedInBases ==
    ASSUME NEW u \in Url, ResolveServerUrl(u) # None
    PROVE  ResolveServerUrl(u) \in Bases
BY DEF Bases

LEMMA DelayNat ==
    ASSUME NEW n \in 1..2
    PROVE  RetryDelay(n) = IF n = 1 THEN 200 ELSE 500
BY DEF RetryDelay, RetryDelaysMs

LEMMA OnlyModelNamed ==
    ASSUME NEW reply \in ListReply, reply.class = "data",
           OnlyModel(ModelListFromPayload(reply.data))
    PROVE  ModelListFromPayload(reply.data)[1] \in ModelName
<1> DEFINE models == ModelListFromPayload(reply.data)
<1>1. Len(models) = 1
    BY DEF OnlyModel
<1>2. models \in Seq(ModelName)
    BY ListingAssumption
<1> HIDE DEF models
<1>3. \A i \in 1..Len(models) : models[i] \in ModelName
    BY <1>2
<1>4. models[1] \in ModelName
    BY <1>1, <1>3
<1> QED BY <1>4 DEF models

LEMMA TypeStep ==
    ASSUME IInv, NEW r \in Request, Step(r)
    PROVE  TypeOK'
<1> USE NoneApart DEF IInv, TypeOK, Goto
<1>1. CASE RefuseUrl(r) BY <1>1 DEF RefuseUrl, sessionVars
<1>2. CASE StartSession(r)
    <2>1. ServerUrl(r) \in Url
        BY <1>2 DEF StartSession, ServerUrl
    <2> QED BY <1>2, <2>1, ResolvedInBases DEF StartSession, chatVars
<1>3. CASE LockCache(r) BY <1>3 DEF LockCache, chatVars
<1>4. CASE LookupCache(r) BY <1>4 DEF LookupCache, chatVars, BaseInv
<1>5. CASE UseConfiguredModel(r) BY <1>5 DEF UseConfiguredModel, chatVars
<1>6. CASE ListModels(r)
    <2> USE <1>6 DEF ListModels
    <2>1. PICK reply \in ListReply :
              \/ /\ reply.class # "data"
                 /\ pc' = [pc EXCEPT ![r] = "failed"]
                 /\ UNCHANGED <<listing, name>>
              \/ /\ reply.class = "data"
                 /\ \/ /\ OnlyModel(ModelListFromPayload(reply.data))
                       /\ pc' = [pc EXCEPT ![r] = "restoring"]
                       /\ name' = [name EXCEPT ![r] = ModelListFromPayload(reply.data)[1]]
                    \/ /\ pc' = [pc EXCEPT ![r] = "failed"]
                       /\ UNCHANGED name
        OBVIOUS
    <2>2. OnlyModel(ModelListFromPayload(reply.data)) /\ reply.class = "data"
             => ModelListFromPayload(reply.data)[1] \in ModelName
        BY OnlyModelNamed
    <2> QED BY <2>1, <2>2
<1>7. CASE StoreModelName(r) BY <1>7 DEF StoreModelName, chatVars, BaseInv
<1>8. CASE StartChat(r) BY <1>8 DEF StartChat, sessionVars
<1>9. CASE ChatSucceeds(r) BY <1>9 DEF ChatSucceeds, sessionVars
<1>10. CASE ChatRetries(r)
    <2>0. attempt \in [Request -> 1..3]
        BY DEF MaxAttempts
    <2>1. attempt[r] \in 1..2
        BY <1>10, <2>0 DEF ChatRetries, MaxAttempts
    <2>2. RetryDelay(attempt[r]) \in Nat
        BY <2>1, DelayNat
    <2> QED BY <1>10, <2>1, <2>2 DEF ChatRetries, sessionVars, MaxAttempts
<1>11. CASE SleepEnds(r) BY <1>11 DEF SleepEnds, sessionVars, chatVars
<1>12. CASE ChatFails(r) BY <1>12 DEF ChatFails, sessionVars
<1> QED BY <1>1, <1>2, <1>3, <1>4, <1>5, <1>6, <1>7, <1>8, <1>9, <1>10, <1>11, <1>12 DEF Step
LEMMA AttemptType == TypeOK => attempt \in [Request -> 1..3]
BY DEF TypeOK, MaxAttempts

(* A listing that is one model is the sequence of that model. *)
LEMMA SingleModel ==
    ASSUME NEW reply \in ListReply, reply.class = "data",
           OnlyModel(ModelListFromPayload(reply.data))
    PROVE  ModelListFromPayload(reply.data) = <<ModelListFromPayload(reply.data)[1]>>
<1> DEFINE models == ModelListFromPayload(reply.data)
<1>1. models \in Seq(ModelName) /\ Len(models) = 1
    BY ListingAssumption DEF OnlyModel
<1> HIDE DEF models
<1>2. models = <<models[1]>>
    BY <1>1
<1> QED BY <1>2 DEF models

(* The base URL is set once, before anything else. *)
LEMMA BaseStep ==
    ASSUME IInv, NEW r \in Request, Step(r)
    PROVE  BaseInv'
<1> USE NoneApart DEF IInv, Functions, TypeOK, Goto, BaseInv, ServerUrl
<1>1. CASE RefuseUrl(r) BY <1>1 DEF RefuseUrl, sessionVars
<1>2. CASE StartSession(r) BY <1>2 DEF StartSession, chatVars
<1>3. CASE LockCache(r) BY <1>3 DEF LockCache, chatVars
<1>4. CASE LookupCache(r) BY <1>4 DEF LookupCache, chatVars
<1>5. CASE UseConfiguredModel(r) BY <1>5 DEF UseConfiguredModel, chatVars
<1>6. CASE ListModels(r) BY <1>6 DEF ListModels
<1>7. CASE StoreModelName(r) BY <1>7 DEF StoreModelName, chatVars
<1>8. CASE StartChat(r) BY <1>8 DEF StartChat, sessionVars
<1>9. CASE ChatSucceeds(r) BY <1>9 DEF ChatSucceeds, sessionVars
<1>10. CASE ChatRetries(r) BY <1>10 DEF ChatRetries, sessionVars
<1>11. CASE SleepEnds(r) BY <1>11 DEF SleepEnds, sessionVars, chatVars
<1>12. CASE ChatFails(r) BY <1>12 DEF ChatFails, sessionVars
<1> QED BY <1>1, <1>2, <1>3, <1>4, <1>5, <1>6, <1>7, <1>8, <1>9, <1>10, <1>11, <1>12 DEF Step

(* What a request resolved stays as it is. *)
LEMMA PastStays ==
    ASSUME IInv, NEW r \in Request, Step(r), NEW q \in Request, pc[q] \notin Resolving
    PROVE  pc'[q] \notin Resolving /\ base'[q] = base[q] /\ listing'[q] = listing[q] /\ env' = env
<1> USE DEF IInv, Functions, TypeOK, Goto, Resolving
<1>1. CASE RefuseUrl(r) BY <1>1 DEF RefuseUrl, sessionVars
<1>2. CASE StartSession(r) BY <1>2 DEF StartSession, chatVars
<1>3. CASE LockCache(r) BY <1>3 DEF LockCache, chatVars
<1>4. CASE LookupCache(r) BY <1>4 DEF LookupCache, chatVars
<1>5. CASE UseConfiguredModel(r) BY <1>5 DEF UseConfiguredModel, chatVars
<1>6. CASE ListModels(r) BY <1>6 DEF ListModels
<1>7. CASE StoreModelName(r) BY <1>7 DEF StoreModelName, chatVars
<1>8. CASE StartChat(r) BY <1>8 DEF StartChat, sessionVars
<1>9. CASE ChatSucceeds(r) BY <1>9 DEF ChatSucceeds, sessionVars
<1>10. CASE ChatRetries(r) BY <1>10 DEF ChatRetries, sessionVars
<1>11. CASE SleepEnds(r) BY <1>11 DEF SleepEnds, sessionVars, chatVars
<1>12. CASE ChatFails(r) BY <1>12 DEF ChatFails, sessionVars
<1> QED BY <1>1, <1>2, <1>3, <1>4, <1>5, <1>6, <1>7, <1>8, <1>9, <1>10, <1>11, <1>12 DEF Step

(* Only StoreModelName changes the cache, for its own server. *)
LEMMA CacheStep ==
    ASSUME IInv, NEW r \in Request, Step(r), NEW b \in Bases, cache'[b] # cache[b]
    PROVE  /\ pc[r] = "store" /\ base[r] = b
           /\ cache'[b] = name[r] /\ cache' = [cache EXCEPT ![b] = name[r]]
<1> USE DEF IInv, Functions, TypeOK, Goto
<1>1. CASE RefuseUrl(r) BY <1>1 DEF RefuseUrl, sessionVars
<1>2. CASE StartSession(r) BY <1>2 DEF StartSession, chatVars
<1>3. CASE LockCache(r) BY <1>3 DEF LockCache, chatVars
<1>4. CASE LookupCache(r) BY <1>4 DEF LookupCache, chatVars
<1>5. CASE UseConfiguredModel(r) BY <1>5 DEF UseConfiguredModel, chatVars
<1>6. CASE ListModels(r) BY <1>6 DEF ListModels
<1>7. CASE StoreModelName(r) BY <1>7 DEF StoreModelName, chatVars
<1>8. CASE StartChat(r) BY <1>8 DEF StartChat, sessionVars
<1>9. CASE ChatSucceeds(r) BY <1>9 DEF ChatSucceeds, sessionVars
<1>10. CASE ChatRetries(r) BY <1>10 DEF ChatRetries, sessionVars
<1>11. CASE SleepEnds(r) BY <1>11 DEF SleepEnds, sessionVars, chatVars
<1>12. CASE ChatFails(r) BY <1>12 DEF ChatFails, sessionVars
<1> QED BY <1>1, <1>2, <1>3, <1>4, <1>5, <1>6, <1>7, <1>8, <1>9, <1>10, <1>11, <1>12 DEF Step

(* A name on its way to the cache was resolved. *)
LEMMA NamesOnTheWay ==
    ASSUME IInv, NEW r \in Request, Step(r), NEW q \in Request, pc'[q] \in {"restoring", "store"}
    PROVE  name'[q] # None /\ ResolvedBy(q, name[q])'
<1> USE DEF IInv, Functions, TypeOK, Goto, NamesInv, ResolvedBy, Resolving
<1>1. CASE RefuseUrl(r) BY <1>1 DEF RefuseUrl, sessionVars
<1>2. CASE StartSession(r) BY <1>2 DEF StartSession, chatVars
<1>3. CASE LockCache(r) BY <1>3 DEF LockCache, chatVars
<1>4. CASE LookupCache(r) BY <1>4 DEF LookupCache, chatVars
<1>5. CASE UseConfiguredModel(r)
    BY <1>5, NoneApart DEF UseConfiguredModel, chatVars
<1>6. CASE ListModels(r)
    <2> USE <1>6 DEF ListModels
    <2>1. CASE q # r
        BY <2>1
    <2>2. CASE q = r
        <3>1. PICK reply \in ListReply :
                  /\ reply.class = "data"
                  /\ listing'[r] = ModelListFromPayload(reply.data)
                  /\ OnlyModel(ModelListFromPayload(reply.data))
                  /\ name'[r] = ModelListFromPayload(reply.data)[1]
            BY <2>2
        <3>2. name'[r] # None
            BY <3>1, OnlyModelNamed, NoneApart
        <3>3. listing'[r] = <<name'[r]>>
            BY <3>1, SingleModel
        <3>4. env' = env /\ env.model = None
            OBVIOUS
        <3> QED BY <2>2, <3>2, <3>3, <3>4
    <2> QED BY <2>1, <2>2
<1>7. CASE StoreModelName(r) BY <1>7 DEF StoreModelName, chatVars
<1>8. CASE StartChat(r) BY <1>8 DEF StartChat, sessionVars
<1>9. CASE ChatSucceeds(r) BY <1>9 DEF ChatSucceeds, sessionVars
<1>10. CASE ChatRetries(r) BY <1>10 DEF ChatRetries, sessionVars
<1>11. CASE SleepEnds(r) BY <1>11 DEF SleepEnds, sessionVars, chatVars
<1>12. CASE ChatFails(r) BY <1>12 DEF ChatFails, sessionVars
<1> QED BY <1>1, <1>2, <1>3, <1>4, <1>5, <1>6, <1>7, <1>8, <1>9, <1>10, <1>11, <1>12 DEF Step

(* Only a resolved name reaches the cache, where it stays. *)
LEMMA NamesStep ==
    ASSUME IInv, NEW r \in Request, Step(r)
    PROVE  NamesInv'
<1>1. ASSUME NEW q \in Request, pc'[q] \in {"restoring", "store"}
      PROVE  name'[q] # None /\ ResolvedBy(q, name[q])'
    BY <1>1, NamesOnTheWay
<1>2. ASSUME NEW b \in Bases, cache'[b] # None
      PROVE  \E q \in Request : /\ base'[q] = b /\ pc'[q] \notin Resolving
                                /\ ResolvedBy(q, cache[b])'
    <2>1. PICK q \in Request : base[q] = b /\ pc[q] \notin Resolving /\ ResolvedBy(q, cache'[b])
        <3>1. CASE cache'[b] = cache[b]
            BY <1>2, <3>1 DEF IInv, NamesInv
        <3>2. CASE cache'[b] # cache[b]
            BY <3>2, CacheStep DEF IInv, NamesInv, Resolving
        <3> QED BY <3>1, <3>2
    <2>2. /\ pc'[q] \notin Resolving /\ base'[q] = base[q]
          /\ listing'[q] = listing[q] /\ env' = env
        BY <2>1, PastStays
    <2> QED BY <2>1, <2>2 DEF ResolvedBy
<1>3. Bases' = Bases
    OBVIOUS
<1> QED BY <1>1, <1>2 DEF NamesInv

(* A name in use is the one in the cache, and that one never changes. *)
LEMMA SessionsStep ==
    ASSUME IInv, NEW r \in Request, Step(r)
    PROVE  SessionsAgree'
<1> USE NoneApart DEF IInv, Functions, TypeOK, Goto, BaseInv, NamesInv, SessionsAgree, InSession, BodyInv, Early, Resolving
<1>1. CASE RefuseUrl(r) BY <1>1 DEF RefuseUrl, sessionVars
<1>2. CASE StartSession(r) BY <1>2 DEF StartSession, chatVars
<1>3. CASE LockCache(r) BY <1>3 DEF LockCache, chatVars
<1>4. CASE LookupCache(r) BY <1>4 DEF LookupCache, chatVars
<1>5. CASE UseConfiguredModel(r) BY <1>5 DEF UseConfiguredModel, chatVars
<1>6. CASE ListModels(r) BY <1>6 DEF ListModels
<1>7. CASE StoreModelName(r) BY <1>7 DEF StoreModelName, chatVars
<1>8. CASE StartChat(r) BY <1>8 DEF StartChat, sessionVars
<1>9. CASE ChatSucceeds(r) BY <1>9 DEF ChatSucceeds, sessionVars
<1>10. CASE ChatRetries(r) BY <1>10 DEF ChatRetries, sessionVars
<1>11. CASE SleepEnds(r) BY <1>11 DEF SleepEnds, sessionVars, chatVars
<1>12. CASE ChatFails(r) BY <1>12 DEF ChatFails, sessionVars
<1> QED BY <1>1, <1>2, <1>3, <1>4, <1>5, <1>6, <1>7, <1>8, <1>9, <1>10, <1>11, <1>12 DEF Step

(* A body is built once, from the name of its session. *)
LEMMA BodyStep ==
    ASSUME IInv, NEW r \in Request, Step(r)
    PROVE  BodyInv'
<1> USE NoneApart DEF IInv, Functions, TypeOK, Goto, BaseInv, BodyInv, Early, Resolving
<1>1. CASE RefuseUrl(r) BY <1>1 DEF RefuseUrl, sessionVars
<1>2. CASE StartSession(r) BY <1>2 DEF StartSession, chatVars
<1>3. CASE LockCache(r) BY <1>3 DEF LockCache, chatVars
<1>4. CASE LookupCache(r) BY <1>4 DEF LookupCache, chatVars
<1>5. CASE UseConfiguredModel(r) BY <1>5 DEF UseConfiguredModel, chatVars
<1>6. CASE ListModels(r) BY <1>6 DEF ListModels
<1>7. CASE StoreModelName(r) BY <1>7 DEF StoreModelName, chatVars
<1>8. CASE StartChat(r)
    BY <1>8 DEF StartChat, sessionVars
<1>9. CASE ChatSucceeds(r) BY <1>9 DEF ChatSucceeds, sessionVars
<1>10. CASE ChatRetries(r) BY <1>10 DEF ChatRetries, sessionVars
<1>11. CASE SleepEnds(r) BY <1>11 DEF SleepEnds, sessionVars, chatVars
<1>12. CASE ChatFails(r) BY <1>12 DEF ChatFails, sessionVars
<1> QED BY <1>1, <1>2, <1>3, <1>4, <1>5, <1>6, <1>7, <1>8, <1>9, <1>10, <1>11, <1>12 DEF Step

(* Calls are counted, and only after an error worth it there is another. *)
LEMMA RetryStep ==
    ASSUME IInv, NEW r \in Request, Step(r)
    PROVE  RetryInv'
<1> USE NoneApart DEF IInv, Functions, TypeOK, Goto, RetryInv, Early, Resolving, Sending
<1>1. CASE RefuseUrl(r) BY <1>1 DEF RefuseUrl, sessionVars
<1>2. CASE StartSession(r) BY <1>2 DEF StartSession, chatVars
<1>3. CASE LockCache(r) BY <1>3 DEF LockCache, chatVars
<1>4. CASE LookupCache(r) BY <1>4 DEF LookupCache, chatVars
<1>5. CASE UseConfiguredModel(r) BY <1>5 DEF UseConfiguredModel, chatVars
<1>6. CASE ListModels(r) BY <1>6 DEF ListModels
<1>7. CASE StoreModelName(r) BY <1>7 DEF StoreModelName, chatVars
<1>8. CASE StartChat(r) BY <1>8 DEF StartChat, sessionVars
<1>9. CASE ChatSucceeds(r) BY <1>9 DEF ChatSucceeds, sessionVars
<1>10. CASE ChatRetries(r)
    <2>1. PICK e \in ChatError : ShouldRetry(e) /\ outcomes' = [outcomes EXCEPT ![r] = Append(outcomes[r], e)]
        BY <1>10 DEF ChatRetries
    <2>2. /\ outcomes'[r] = Append(outcomes[r], e)
          /\ outcomes'[r] \in Seq(ChatError \cup {[class |-> "reply"]})
          /\ Len(outcomes'[r]) = Len(outcomes[r]) + 1
        BY <2>1
    <2>3. \A i \in 1..Len(outcomes'[r]) : ShouldRetry(outcomes'[r][i])
        BY <1>10, <2>1, <2>2 DEF ChatRetries
    <2>4. Len(outcomes'[r]) = attempt'[r] - 1
        BY <1>10, <2>2, AttemptType DEF ChatRetries
    <2>5. \A i \in 1..Len(outcomes'[r]) - 1 : ShouldRetry(outcomes'[r][i])
        <3>1. Len(outcomes'[r]) \in Nat
            BY <2>2
        <3>2. \A i \in 1..Len(outcomes'[r]) - 1 : i \in 1..Len(outcomes'[r])
            BY <3>1
        <3> QED BY <3>2, <2>3
    <2>6. pc'[r] = "sleeping"
        BY <1>10 DEF ChatRetries
    <2>7. ASSUME NEW q \in Request, q # r
          PROVE  pc'[q] = pc[q] /\ outcomes'[q] = outcomes[q] /\ attempt'[q] = attempt[q]
        BY <1>10, <2>1, <2>7 DEF ChatRetries
    <2> QED BY <2>2, <2>3, <2>4, <2>5, <2>6, <2>7
<1>11. CASE SleepEnds(r) BY <1>11 DEF SleepEnds, sessionVars, chatVars
<1>12. CASE ChatFails(r) BY <1>12 DEF ChatFails, sessionVars
<1> QED BY <1>1, <1>2, <1>3, <1>4, <1>5, <1>6, <1>7, <1>8, <1>9, <1>10, <1>11, <1>12 DEF Step

(* The calls and the sleeps between them are bounded. *)
LEMMA BoundStep ==
    ASSUME IInv, NEW r \in Request, Step(r)
    PROVE  RetriesBounded'
<1> USE NoneApart DEF IInv, Functions, TypeOK, Goto, RetryInv, BodyInv, RetriesBounded, Early, Resolving, Sending
<1>1. CASE RefuseUrl(r) BY <1>1 DEF RefuseUrl, sessionVars
<1>2. CASE StartSession(r) BY <1>2 DEF StartSession, chatVars
<1>3. CASE LockCache(r) BY <1>3 DEF LockCache, chatVars
<1>4. CASE LookupCache(r) BY <1>4 DEF LookupCache, chatVars
<1>5. CASE UseConfiguredModel(r) BY <1>5 DEF UseConfiguredModel, chatVars
<1>6. CASE ListModels(r) BY <1>6 DEF ListModels
<1>7. CASE StoreModelName(r) BY <1>7 DEF StoreModelName, chatVars
<1>8. CASE StartChat(r) BY <1>8 DEF StartChat, sessionVars
<1>9. CASE ChatSucceeds(r)
    <2>1. attempt' = attempt /\ waited' = waited /\ body' = body /\ attempt[r] \in 1..3
        BY <1>9, AttemptType DEF ChatSucceeds, sessionVars
    <2>2. /\ Len(outcomes'[r]) = Len(outcomes[r]) + 1 /\ Len(outcomes[r]) = attempt[r] - 1
          /\ \A q \in Request \ {r} : outcomes'[q] = outcomes[q]
        BY <1>9 DEF ChatSucceeds, sessionVars
    <2>3. \A q \in Request \ {r} : pc'[q] = pc[q]
        BY <1>9 DEF ChatSucceeds, sessionVars
    <2> HIDE DEF BodyInv, RetryInv
    <2> QED BY <2>1, <2>2, <2>3
<1>10. CASE ChatRetries(r)
    <2>0. \A q \in Request :
             /\ Len(outcomes[q]) <= 3
             /\ waited[q] = (IF attempt[q] > 1 THEN 200 ELSE 0) + (IF attempt[q] > 2 THEN 500 ELSE 0)
             /\ pc[q] \in {"answered", "failed"} => Len(outcomes[q]) = attempt[q] \/ body[q] = None
        OBVIOUS
    <2>1. /\ attempt[r] \in 1..2 /\ attempt'[r] = attempt[r] + 1
          /\ \A q \in Request \ {r} : attempt'[q] = attempt[q]
        BY <1>10, AttemptType DEF ChatRetries, MaxAttempts
    <2>2. /\ waited'[r] = waited[r] + (IF attempt[r] = 1 THEN 200 ELSE 500)
          /\ \A q \in Request \ {r} : waited'[q] = waited[q]
        BY <1>10, <2>1, DelayNat DEF ChatRetries
    <2>3. /\ Len(outcomes'[r]) = Len(outcomes[r]) + 1 /\ Len(outcomes[r]) = attempt[r] - 1
          /\ \A q \in Request \ {r} : outcomes'[q] = outcomes[q]
        BY <1>10 DEF ChatRetries
    <2>4. pc'[r] = "sleeping" /\ body' = body /\ \A q \in Request \ {r} : pc'[q] = pc[q]
        BY <1>10 DEF ChatRetries
    <2>5. waited'[r] = (IF attempt'[r] > 1 THEN 200 ELSE 0) + (IF attempt'[r] > 2 THEN 500 ELSE 0)
        BY <2>1, <2>2
    <2>6. Len(outcomes'[r]) <= 3
        BY <2>1, <2>3
    <2>7. ASSUME NEW q \in Request \ {r}
          PROVE  /\ Len(outcomes'[q]) <= 3
                 /\ waited'[q] = (IF attempt'[q] > 1 THEN 200 ELSE 0) + (IF attempt'[q] > 2 THEN 500 ELSE 0)
                 /\ pc'[q] \in {"answered", "failed"} => Len(outcomes'[q]) = attempt'[q] \/ body'[q] = None
        <3> HIDE DEF IInv, RetriesBounded
        <3> QED BY <2>0, <2>1, <2>2, <2>3, <2>4
    <2> HIDE DEF IInv
    <2> QED BY <2>4, <2>5, <2>6, <2>7
<1>11. CASE SleepEnds(r) BY <1>11 DEF SleepEnds, sessionVars, chatVars
<1>12. CASE ChatFails(r)
    <2>1. attempt' = attempt /\ waited' = waited /\ body' = body /\ attempt[r] \in 1..3
        BY <1>12, AttemptType DEF ChatFails, sessionVars
    <2>2. /\ Len(outcomes'[r]) = Len(outcomes[r]) + 1 /\ Len(outcomes[r]) = attempt[r] - 1
          /\ \A q \in Request \ {r} : outcomes'[q] = outcomes[q]
        BY <1>12 DEF ChatFails, sessionVars
    <2>3. \A q \in Request \ {r} : pc'[q] = pc[q]
        BY <1>12 DEF ChatFails, sessionVars
    <2> HIDE DEF BodyInv, RetryInv
    <2> QED BY <2>1, <2>2, <2>3
<1> QED BY <1>1, <1>2, <1>3, <1>4, <1>5, <1>6, <1>7, <1>8, <1>9, <1>10, <1>11, <1>12 DEF Step

-----------------------------------------------------------------------------
(* The invariant holds in every state of every behaviour. *)
THEOREM Invariance == Spec => []IInv
<1>1. IInv /\ [Next]_vars => IInv'
    <2> SUFFICES ASSUME IInv, [Next]_vars PROVE IInv'
        OBVIOUS
    <2>1. CASE UNCHANGED vars
        <3> USE <2>1 DEF vars, sessionVars, chatVars
        <3>1. Functions' /\ TypeOK'
            BY DEF IInv, Functions, TypeOK
        <3>2. BaseInv' /\ NamesInv'
            BY DEF IInv, BaseInv, NamesInv, ResolvedBy, ServerUrl
        <3>3. SessionsAgree' /\ BodyInv' /\ RetryInv' /\ RetriesBounded'
            BY DEF IInv, SessionsAgree, InSession, BodyInv, RetryInv, RetriesBounded
        <3> QED BY <3>1, <3>2, <3>3 DEF IInv
    <2>2. ASSUME NEW r \in Request, Step(r)
          PROVE  IInv'
        <3>1. Functions' /\ TypeOK'
            BY <2>2, FunctionsStep, TypeStep DEF IInv
        <3>2. BaseInv' /\ NamesInv' /\ SessionsAgree'
            BY <2>2, BaseStep, NamesStep, SessionsStep
        <3>3. BodyInv' /\ RetryInv' /\ RetriesBounded'
            BY <2>2, BodyStep, RetryStep, BoundStep
        <3> QED BY <3>1, <3>2, <3>3 DEF IInv
    <2> QED BY <2>1, <2>2 DEF Next
<1> QED BY InitInv, <1>1, PTL DEF Spec

(* Every name in the cache was resolved for its server. *)
LEMMA NamesResolved == IInv => CachedNamesResolved
BY DEF IInv, NamesInv, CachedNamesResolved, ResolvedBy

(* Every body fits the name in the cache of its server. *)
LEMMA BodiesFit == IInv => BodyFitsModel
<1> SUFFICES ASSUME IInv, NEW r \in Request, body[r] # None
             PROVE  \E k \in BlockKind : body[r] = ChatBody(cache[base[r]], k)
    BY DEF BodyFitsModel
<1>1. \E k \in BlockKind : body[r] = ChatBody(name[r], k)
    BY DEF IInv, BodyInv
<1>2. cache[base[r]] = name[r]
    BY DEF IInv, SessionsAgree, InSession
<1> QED BY <1>1, <1>2

(* Of the client errors only those that name a rate or a server are retried. *)
LEMMA ClientErrorRetry ==
    ASSUME NEW e, e.class = "api", e.status \in 400..499 \ {429}, ShouldRetry(e)
    PROVE  e.code = "rate_limit_exceeded" \/ e.type = "server_error"
<1>1. e.class # "reqwest"
    OBVIOUS
<1>2. e.status # 429 /\ e.status \notin 500..599
    OBVIOUS
<1> QED BY <1>1, <1>2 DEF ShouldRetry

(* No call is repeated after an error that blames the request. *)
LEMMA RetriesWorthIt == IInv => ClientErrorsNotRepeated
<1> SUFFICES ASSUME IInv, NEW r \in Request, NEW i \in 1..Len(outcomes[r]) - 1,
                    outcomes[r][i].class = "api", outcomes[r][i].status \in 400..499 \ {429}
             PROVE  outcomes[r][i].code = "rate_limit_exceeded" \/ outcomes[r][i].type = "server_error"
    BY DEF ClientErrorsNotRepeated
<1>1. ShouldRetry(outcomes[r][i])
    BY DEF IInv, RetryInv
<1>2. PICK e : e = outcomes[r][i]
    OBVIOUS
<1>3. e.class = "api" /\ e.status \in 400..499 \ {429} /\ ShouldRetry(e)
    BY <1>1, <1>2
<1>4. e.code = "rate_limit_exceeded" \/ e.type = "server_error"
    BY <1>3, ClientErrorRetry
<1> QED BY <1>2, <1>4

(* A /v1 address is cut at its end only, so its base URL tells it apart. *)
LEMMA BasesTellServers == IInv => ServersKeptApart
<1> SUFFICES ASSUME IInv, NEW r \in Request, NEW s \in Request,
                    base[r] # None, base[r] = base[s],
                    EndsWithV1(ServerUrl(r).path), EndsWithV1(ServerUrl(s).path)
             PROVE  /\ ServerUrl(r).host = ServerUrl(s).host
                    /\ TrimV1(ServerUrl(r).path) = TrimV1(ServerUrl(s).path)
    BY DEF ServersKeptApart
<1> DEFINE u == ServerUrl(r)
           v == ServerUrl(s)
<1>1. u \in Url /\ v \in Url /\ ResolveServerUrl(u) = ResolveServerUrl(v)
    BY DEF IInv, BaseInv
<1>2. /\ ResolveServerUrl(u) = [u EXCEPT !.path = TrimV1(u.path)]
      /\ ResolveServerUrl(v) = [v EXCEPT !.path = TrimV1(v.path)]
    BY DEF ResolveServerUrl
<1> HIDE DEF u, v
<1>3. /\ u = [http |-> u.http, host |-> u.host, path |-> u.path]
      /\ v = [http |-> v.http, host |-> v.host, path |-> v.path]
    BY <1>1, ClientAssumption
<1>4. u.host = v.host /\ TrimV1(u.path) = TrimV1(v.path)
    BY <1>1, <1>2, <1>3
<1> QED BY <1>4 DEF u, v

(* For any number of requests and whatever the servers answer, sessions    *)
(* share the resolved name of their server and send bodies built for it.   *)
THEOREM SessionsCorrect == Spec => []SessionsSound
<1>1. IInv => SessionsSound
    BY NamesResolved, BodiesFit DEF IInv, SessionsSound
<1> QED BY Invariance, <1>1, PTL

(* Requests with one base URL named the same server, if by a /v1 address. *)
THEOREM ServersApart == Spec => []ServersKeptApart
BY Invariance, BasesTellServers, PTL

(* A worker slot is held for three calls and 700 ms of sleep at most, and  *)
(* no error that blames the request leads to another call.                 *)
THEOREM RetriesCorrect == Spec => []RetriesSound
<1>1. IInv => RetriesSound
    BY RetriesWorthIt DEF IInv, RetriesSound
<1> QED BY Invariance, <1>1, PTL

=============================================================================
