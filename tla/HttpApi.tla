------------------------------ MODULE HttpApi -------------------------------
(***************************************************************************)
(* The HTTP surface: the calls of the generated client, the routes that     *)
(* api/init.ts mounts, in their order, and the way a request takes through  *)
(* them: the first route that matches handles it, errors go to the error    *)
(* handler, redirects are followed.  A path is a sequence of segments; in   *)
(* a pattern "*" is a parameter and a last "**" any rest.                   *)
(***************************************************************************)
EXTENDS Naturals, Sequences, SequencesExt, FiniteSets

CONSTANTS Documented   \* method and path of every operation in the API's document

VARIABLES
  req,             \* the request: [method, path, query, want]
  pc,              \* where it is
  at,              \* the route it has come to
  answers,         \* what was sent for it
  seen             \* whether the handler that answered saw the query

httpVars == <<req, pc, at, answers, seen>>

Bare == "1"        \* a hash without and with its 0x prefix
Hex == "0x1"
None == "none"

Route(method, path, quirk) == [method |-> method, path |-> path, quirk |-> quirk]
Get(path) == Route("GET", path, "plain")
Post(path) == Route("POST", path, "plain")
Under(prefix, routes) == [i \in DOMAIN routes |-> [routes[i] EXCEPT !.path = prefix \o @]]

-----------------------------------------------------------------------------
(* The routers.  "hash": redirects a bare hash; "goes on": answers an error *)
(* and goes on to answer again; "silent": logs an error and does not        *)
(* answer; "next": redirects to a resolver and lets the next routes try.    *)

(* Mutant: the transaction by id comes first.                               *)
TxRoutesIdFirst ==
  <<Get(<<>>), Route("GET", <<"*">>, "hash"), Get(<<"mempool">>), Get(<<"mempool", "dropped">>), Get(<<"stream">>),
    Route("GET", <<"*", "raw">>, "hash"), Get(<<"block", "*">>), Get(<<"block_height", "*">>)>>

TxRoutes ==
  <<Get(<<>>), Get(<<"mempool">>), Get(<<"mempool", "dropped">>), Get(<<"stream">>), Route("GET", <<"*">>, "hash"),
    Route("GET", <<"*", "raw">>, "hash"), Get(<<"block", "*">>), Get(<<"block_height", "*">>)>>
BlockRoutes == <<Get(<<>>), Get(<<"by_height", "*">>), Route("GET", <<"*">>, "hash")>>
BurnchainRoutes ==
  <<Get(<<"reward_slot_holders">>), Get(<<"reward_slot_holders", "*">>), Get(<<"rewards">>), Get(<<"rewards", "*">>),
    Get(<<"rewards", "*", "total">>)>>
ContractRoutes == <<Get(<<"*">>), Get(<<"*", "events">>)>>
AddressRoutes ==
  <<Get(<<"*", "stx">>), Get(<<"*", "balances">>), Get(<<"*", "transactions">>),
    Get(<<"*", "transactions_with_transfers">>), Get(<<"*", "assets">>), Get(<<"*", "stx_inbound">>),
    Get(<<"*", "nft_events">>), Route("GET", <<"*", "mempool">>, "goes on")>>

InfoRoutes == <<Get(<<"network_block_times">>), Get(<<"network_block_time", "*">>)>>
SupplyRoutes ==
  <<Get(<<>>), Get(<<"total", "plain">>), Get(<<"circulating", "plain">>), Get(<<"legacy_format">>)>>
DebugForms == <<"token-transfer-from-multisig", "token-transfer-multisig", "token-transfer", "stack", "contract-deploy">>
DebugRoutes ==
  <<Get(<<"broadcast">>)>>
    \o FlattenSeq([i \in DOMAIN DebugForms |->
         <<Get(<<"broadcast", DebugForms[i]>>), Post(<<"broadcast", DebugForms[i]>>)>>])
    \o <<Get(<<"broadcast", "contract-call", "*">>), Post(<<"broadcast", "contract-call", "*">>), Get(<<"watch-tx">>),
         Post(<<"faucet">>)>>
FaucetRoutes == <<Post(<<"btc">>), Get(<<"btc", "*">>), Post(<<"stx">>)>>

PriceRoutes == <<Get(<<"namespaces", "*">>), Get(<<"names", "*">>)>>

NetworkRoutes == <<Post(<<"list">>), Post(<<"status">>), Post(<<"options">>)>>
BlockOrMempoolRoutes == <<Post(<<>>), Post(<<"transaction">>)>>
ConstructionRoutes ==
  <<Route("POST", <<"derive">>, "goes on"), Post(<<"preprocess">>), Post(<<"metadata">>), Post(<<"hash">>),
    Route("POST", <<"parse">>, "silent"), Post(<<"submit">>), Post(<<"payloads">>),
    Route("POST", <<"combine">>, "goes on")>>

NamespaceRoutes == <<Get(<<>>), Route("GET", <<"*", "names">>, "goes on")>>
NameRoutes ==
  <<Get(<<"*", "zonefile", "*">>), Get(<<"*", "zonefile">>), Route("GET", <<>>, "goes on"),
    Route("GET", <<"*">>, "next")>>

(* The application: the routers in the order they are mounted.  cors()      *)
(* answers the preflight requests of everything below a prefix.             *)
Preflight == <<Route("OPTIONS", <<"**">>, "plain")>>
ExtendedApi ==
  Preflight \o Under(<<"tx">>, TxRoutes) \o Under(<<"block">>, BlockRoutes)
    \o Under(<<"burnchain">>, BurnchainRoutes) \o Under(<<"contract">>, ContractRoutes)
    \o Under(<<"address">>, AddressRoutes) \o Under(<<"search">>, <<Get(<<"*">>)>>)
    \o Under(<<"info">>, InfoRoutes) \o Under(<<"stx_supply">>, SupplyRoutes) \o Under(<<"debug">>, DebugRoutes)
    \o <<Route("any", <<"status", "**">>, "plain")>> \o Under(<<"faucets">>, FaucetRoutes)
CoreApi == Preflight \o Under(<<"prices">>, PriceRoutes) \o <<Route("any", <<"**">>, "proxy")>>
RosettaApi ==
  Preflight \o Under(<<"network">>, NetworkRoutes) \o Under(<<"mempool">>, BlockOrMempoolRoutes)
    \o Under(<<"block">>, BlockOrMempoolRoutes) \o Under(<<"account">>, <<Post(<<"balance">>)>>)
    \o Under(<<"construction">>, ConstructionRoutes)
LegacyApi ==
  Preflight \o Under(<<"namespaces">>, NamespaceRoutes) \o Under(<<"names">>, NameRoutes)
    \o Under(<<"addresses">>, <<Get(<<"*", "*">>)>>)
App ==
  <<Route("GET", <<>>, "home")>> \o Under(<<"extended", "v1">>, ExtendedApi) \o Under(<<"v2">>, CoreApi)
    \o Under(<<"rosetta", "v1">>, RosettaApi) \o Under(<<"v1">>, LegacyApi)

-----------------------------------------------------------------------------
(* The calls of the generated client: method and path of each operation.    *)
Extended(path) == <<"extended", "v1">> \o path
Rosetta(path) == [method |-> "POST", path |-> <<"rosetta", "v1">> \o path]
CallGet(path) == [method |-> "GET", path |-> path]
CallPost(path) == [method |-> "POST", path |-> path]

AccountsApi ==
  {CallGet(Extended(<<"address", "*", leaf>>)) : leaf \in {"assets", "balances", "stx", "transactions"}}
    \cup {CallGet(<<"v2", "accounts", "*">>)}
BlocksApi == {CallGet(Extended(<<"block", "*">>)), CallGet(Extended(<<"block">>))}
BurnchainApi ==
  {CallGet(Extended(<<"burnchain", "rewards">> \o rest)) : rest \in {<<>>, <<"*">>, <<"*", "total">>}}
FaucetsApi == {CallPost(Extended(<<"faucets", coin>>)) : coin \in {"btc", "stx"}}
FeesApi == {CallGet(<<"v2", "fees", "transfer">>)}
InfoApi ==
  {CallGet(<<"v2", "info">>), CallGet(<<"v2", "pox">>), CallGet(Extended(<<"status">>)),
   CallGet(Extended(<<"info", "network_block_time", "*">>)), CallGet(Extended(<<"info", "network_block_times">>))}
RosettaDataApi ==
  {Rosetta(path) : path \in {<<"account", "balance">>, <<"block">>, <<"block", "transaction">>}}
RosettaSigningApi ==
  {Rosetta(<<"construction", step>>) : step \in {"combine", "derive", "hash", "metadata"}}
RosettaBuildingApi ==
  {Rosetta(<<"construction", step>>) : step \in {"parse", "payloads", "preprocess", "submit"}}
RosettaNetworkApi ==
  {Rosetta(path) : path \in {<<"mempool">>, <<"mempool", "transaction">>, <<"network", "list">>,
                             <<"network", "options">>, <<"network", "status">>}}
SearchApi == {CallGet(Extended(<<"search", "*">>))}
ContractCallsApi ==
  {CallPost(<<"v2", "contracts", "call-read", "*", "*", "*">>), CallGet(Extended(<<"contract", "*">>)),
   CallPost(<<"v2", "map_entry", "*", "*", "*">>)}
ContractReadsApi ==
  {CallGet(Extended(<<"contract", "*", "events">>)), CallGet(<<"v2", "contracts", "interface", "*", "*">>),
   CallGet(<<"v2", "contracts", "source", "*", "*">>)}
TransactionsApi ==
  {CallGet(Extended(<<"tx">> \o rest)) : rest \in {<<>>, <<"mempool">>, <<"*">>}} \cup {CallPost(<<"v2", "transactions">>)}

Client ==
  UNION {AccountsApi, BlocksApi, BurnchainApi, FaucetsApi, FeesApi, InfoApi, RosettaDataApi, RosettaSigningApi,
         RosettaBuildingApi, RosettaNetworkApi, SearchApi, ContractCallsApi, ContractReadsApi, TransactionsApi}

-----------------------------------------------------------------------------
Matches(pattern, path) ==
  \/ /\ Len(pattern) = Len(path)
     /\ \A i \in DOMAIN path : pattern[i] \in {path[i], "*"}
  \/ /\ pattern # <<>> /\ Last(pattern) = "**" /\ Len(path) >= Len(pattern) - 1
     /\ \A i \in 1..(Len(pattern) - 1) : pattern[i] \in {path[i], "*"}

Serves(route, r) == route.method \in {r.method, "any"} /\ Matches(route.path, r.path)
Fill(path, v) == [i \in DOMAIN path |-> IF path[i] = "*" THEN v ELSE path[i]]

NoRequest == [method |-> None, path |-> <<>>, query |-> FALSE, want |-> <<>>]
HttpInit == req = NoRequest /\ pc = "idle" /\ at = 0 /\ answers = <<>> /\ seen = FALSE

Send(method, pattern, v, query) ==
  /\ pc = "idle"
  /\ req' = [method |-> method, path |-> Fill(pattern, v), query |-> query, want |-> pattern]
  /\ pc' = "walk" /\ at' = 1
  /\ UNCHANGED <<answers, seen>>

(* A call of the client: a missing parameter is refused before anything is  *)
(* sent (RequiredError).                                                    *)
Call(op, v, query) ==
  IF v = None /\ "*" \in ToSet(op.path) THEN pc = "idle" /\ pc' = "refused" /\ UNCHANGED <<req, at, answers, seen>>
  ELSE Send(op.method, op.path, v, query)

(* Any client, by the document.                                             *)
Fetch(op, v) == op \in Documented /\ Send(op.method, op.path, v, FALSE)
AskPreflight(op) == op \in Documented /\ Send("OPTIONS", op.path, Hex, FALSE)

Here == App[at]
Set(where) == pc' = where /\ UNCHANGED <<req, at>>
Sent(status) == answers' = Append(answers, status)

(* A route that does not match is passed over.                              *)
PassOver ==
  /\ pc = "walk" /\ at <= Len(App) /\ ~Serves(Here, req)
  /\ at' = at + 1
  /\ UNCHANGED <<req, pc, answers, seen>>

Dispatch ==
  /\ pc = "walk" /\ at <= Len(App) /\ Serves(Here, req)
  /\ Set("handler") /\ UNCHANGED <<answers, seen>>

(* No route is left: 404, unless something was sent.                        *)
NotFound ==
  /\ pc = "walk" /\ at > Len(App)
  /\ Set("done")
  /\ IF answers = <<>> THEN Sent("missing") ELSE UNCHANGED answers
  /\ UNCHANGED seen

NeedsPrefix == Here.quirk = "hash" /\ Bare \in ToSet(req.path)

Handle ==
  /\ pc = "handler" /\ ~NeedsPrefix /\ Here.quirk # "home"
  /\ \E status \in {"ok", "refused"} : Sent(status)
  /\ seen' = req.query
  /\ Set("done")

(* The redirect names a path, without the query; the client follows it.     *)
Redirect ==
  /\ pc = "handler" /\ (NeedsPrefix \/ Here.quirk = "home")
  /\ req' = [req EXCEPT !.path = IF Here.quirk = "home" THEN Extended(<<"status">>)
                                 ELSE [i \in DOMAIN @ |-> IF @[i] = Bare THEN Hex ELSE @[i]],
                        !.query = FALSE,
                        !.want = IF Here.quirk = "home" THEN Extended(<<"status">>) ELSE @]
  /\ pc' = "walk" /\ at' = 1
  /\ UNCHANGED <<answers, seen>>

(* The handler answers an error and does not return.                        *)
GoesOn == pc = "handler" /\ Here.quirk = "goes on" /\ Sent("refused") /\ Set("again") /\ UNCHANGED seen

(* To answer again throws, for the headers were sent.                       *)
AnswersAgain == pc = "again" /\ Set("error") /\ UNCHANGED <<answers, seen>>

LetsNextTry ==
  /\ pc = "handler" /\ Here.quirk = "next"
  /\ Sent("elsewhere")
  /\ pc' = "walk" /\ at' = at + 1 /\ UNCHANGED <<req, seen>>

(* The handler is rejected: the next error handler is called.               *)
Throws ==
  /\ pc = "handler" /\ Here.quirk \notin {"silent", "proxy"} /\ ~NeedsPrefix
  /\ Set("error") /\ UNCHANGED <<answers, seen>>
LogsOnly == pc = "handler" /\ Here.quirk = "silent" /\ Set("hung") /\ UNCHANGED <<answers, seen>>
ProxyFails == pc = "handler" /\ Here.quirk = "proxy" /\ Sent("error") /\ Set("done") /\ UNCHANGED seen

(* Mutant: the error handler does not look at headersSent.                  *)
HandleErrorAlways == pc = "error" /\ Set("done") /\ Sent("error") /\ UNCHANGED seen

HandleError ==
  /\ pc = "error"
  /\ Set("done")
  /\ IF answers = <<>> THEN Sent("error") ELSE UNCHANGED answers
  /\ UNCHANGED seen

Server ==
  \/ PassOver \/ Dispatch \/ NotFound \/ Handle \/ Redirect \/ GoesOn \/ AnswersAgain \/ LetsNextTry
  \/ Throws \/ LogsOnly \/ ProxyFails \/ HandleError

HttpNext ==
  \/ \E op \in Client, v \in {Bare, Hex, None}, query \in BOOLEAN : Call(op, v, query)
  \/ \E op \in Documented, v \in {Bare, Hex} : Fetch(op, v)
  \/ \E op \in Documented : AskPreflight(op)
  \/ Server

(* The event loop runs what can be run.                                     *)
HttpSpec == HttpInit /\ [][HttpNext]_httpVars /\ WF_httpVars(Server)

-----------------------------------------------------------------------------
(* HttpTypeOK: a request is at a route, or past the last one.               *)
HttpTypeOK ==
  /\ pc \in {"idle", "refused", "walk", "handler", "again", "error", "hung", "done"}
  /\ at \in 0..(Len(App) + 1)
  /\ pc \in {"handler", "again"} => at <= Len(App)

(* The route a pattern is meant for: its own, or the proxy to the node.     *)
Intended(pattern) ==
  IF pattern # <<>> /\ pattern[1] = "v2" /\ pattern[2] # "prices" THEN <<"v2", "**">>
  ELSE IF pattern = Extended(<<"status">>) THEN Extended(<<"status", "**">>) ELSE pattern

(* No route shadows another: a call that is handled is handled by the       *)
(* route that was written for it.                                           *)
ReachesIntended == pc \in {"handler", "again"} /\ req.method # "OPTIONS" => Here.path = Intended(req.want)

(* Nobody is answered twice, whatever handlers do after their answer.       *)
AnsweredOnce == Len(answers) <= 1

(* Everyone is answered, but for an error inside /construction/parse.       *)
EveryoneAnswered == pc = "walk" ~> (answers # <<>> \/ pc = "hung")

(* Every call of the client library finds a route.                          *)
ClientIsServed ==
  pc = "done" /\ answers # <<>> /\ (\E op \in Client : op.path = req.want /\ op.method = req.method) =>
    answers[1] # "missing"

(* Every operation of the API's document finds a route.                     *)
DocumentedIsServed == pc = "done" /\ answers # <<>> => answers[1] # "missing"

(* "The number of events to skip": the handler that answers sees the query  *)
(* of the call.                                                             *)
QueryKept == [][pc = "handler" /\ Here.quirk = "hash" => req'.query = req.query]_httpVars
=============================================================================
