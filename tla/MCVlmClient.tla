---------------------------- MODULE MCVlmClient ----------------------------
(***************************************************************************)
(* Model-checking instance of VlmClient: two servers behind one host, and  *)
(* one representative of each class of listing, error and reply.           *)
(***************************************************************************)
EXTENDS VlmClient

CONSTANTS r1, r2

TwoRequests == {r1, r2}

At(http, path) == [http |-> http, host |-> "h", path |-> path]

FormUrls   == {None, At(TRUE, <<"x">>), At(TRUE, <<"x", "v1", "v1">>), At(FALSE, <<"x">>)}
EnvServers == {None, At(TRUE, <<"v1">>)}
Urls       == (FormUrls \cup EnvServers) \ {None}

Kinds == {"table"}

Names     == {"gpt", "m", ""}
GptNames  == {"gpt"}
EnvModels == {None, "m"}

Data(s) == [class |-> "data", data |-> s]

Listings == {[class |-> "error"], Data(<<"gpt">>), Data(<<None, "m">>),
             Data(<<"m", "gpt">>), Data(<<"">>)}

Api(status, code, type) == [class |-> "api", status |-> status, code |-> code, type |-> type]

Errors == {[class |-> "reqwest", cause |-> "timeout"], Api(400, None, None), Api(400, "rate_limit_exceeded", None)}

Reply(object, choices, finish, content) ==
    [object |-> object, choices |-> choices, finish |-> finish, content |-> content]

Replies == {Reply("error", 0, None, <<>>), Reply("chat", 1, "tool_calls", <<>>),
            Reply("chat", 1, "length", <<"t", "end", "end">>)}
=============================================================================
