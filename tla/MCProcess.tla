----------------------------- MODULE MCProcess -----------------------------
(***************************************************************************)
(* The process: its start and end, the import that runs at its start, and   *)
(* the way of a request through its routes.  One comes after the other, so  *)
(* each behaviour (part) exercises one of them while the others are idle.   *)
(***************************************************************************)
EXTENDS Lifecycle, HttpApi, ImportV1

CONSTANTS h1, h2, h3

VARIABLE part

-----------------------------------------------------------------------------
(* A good export and the ways in which one can be bad.                      *)
Begin(s) == [kind |-> "begin", section |-> s]
End(s) == [kind |-> "end", section |-> s]
Header == [kind |-> "header"]
Space(n) == [kind |-> "row", name |-> n]
NameRow(n, ns, h) == [kind |-> "row", name |-> n, ns |-> ns, hash |-> h]
Vesting(a, v, b) == [kind |-> "row", address |-> a, value |-> v, block |-> b]
Sub(s, h, a) == [kind |-> "row", sub |-> s, hash |-> h, owner |-> a]
Address(f, a) == [form |-> f, id |-> a]

GoodExport ==
  [genesis |-> <<Begin("stx_balances"), Vesting(Address("stx", "p"), 9, 0), End("stx_balances"),
                 Begin("stx_vesting"), Header, Vesting(Address("btc", "p"), 1, 5),
                 Vesting(Address("stx", "q"), 2, 5), Vesting(Address("stx", "q"), 3, 7),
                 End("stx_vesting"), Vesting(Address("stx", "r"), 9, 0)>>,
   genesisIntact |-> TRUE,
   chainstate |-> <<Begin("namespaces"), Header, Space("id"), End("namespaces"), Space("x"),
                    Begin("names"), Header, NameRow("a.id", "id", h1), NameRow("b.id", "id", h2),
                    End("names"), NameRow("c.id", "id", h1)>>,
   zones |-> <<h1, <<"u">>, h1, <<"u", "\\n", "v">>, h3>>,
   subdomains |-> <<Header, Sub("s.a.id", h1, Address("btc", "q")),
                    Sub("t.a.id", h2, Address("none", "r")), Sub("u.a.id", h3, Address("stx", "r"))>>,
   subdomainZones |-> <<h1, <<"w", "\\n">>, h2, <<"x">>, h3, <<>> >>,
   intact |-> TRUE]

MCExports ==
  {GoodExport,
   [GoodExport EXCEPT !.genesisIntact = FALSE],
   [GoodExport EXCEPT !.intact = FALSE],
   [GoodExport EXCEPT !.chainstate = <<Begin("names"), NameRow("a.id", "id", h1), End("names")>>],
   [GoodExport EXCEPT !.subdomainZones = <<h2, <<"x">>, h1, <<"w">>, h3, <<>> >>],
   [GoodExport EXCEPT !.subdomainZones = <<h1, <<"w">>, h2, <<"x">>, h3>>],
   [GoodExport EXCEPT !.subdomainZones = @ \o <<h3, <<"x">> >>]}

-----------------------------------------------------------------------------
(* The operations of docs/openapi.yaml.                                     *)
Doc(method, prefix, paths) == {[method |-> method, path |-> prefix \o path] : path \in paths}

Served ==
  UNION {
    Doc("POST", Extended(<<"faucets">>), {<<"stx">>, <<"btc">>}),
    Doc("GET", Extended(<<"tx">>),
        {<<>>, <<"mempool">>, <<"mempool", "dropped">>, <<"*">>, <<"*", "raw">>, <<"block", "*">>, <<"block_height", "*">>}),
    Doc("GET", Extended(<<"block">>), {<<>>, <<"*">>, <<"by_height", "*">>}),
    Doc("GET", Extended(<<"burnchain">>),
        {<<"reward_slot_holders">>, <<"reward_slot_holders", "*">>, <<"rewards">>, <<"rewards", "*">>,
         <<"rewards", "*", "total">>}),
    Doc("GET", Extended(<<"contract">>), {<<"*">>, <<"*", "events">>}),
    Doc("GET", Extended(<<"address", "*">>),
        {<<"balances">>, <<"stx">>, <<"transactions">>, <<"transactions_with_transfers">>, <<"assets">>,
         <<"stx_inbound">>, <<"nft_events">>, <<"mempool">>}),
    Doc("GET", Extended(<<"info">>), {<<"network_block_times">>, <<"network_block_time", "*">>}),
    Doc("GET", Extended(<<"stx_supply">>),
        {<<>>, <<"total", "plain">>, <<"circulating", "plain">>, <<"legacy_format">>}),
    Doc("GET", Extended(<<>>), {<<"status">>, <<"search", "*">>}),
    Doc("GET", <<"v2">>,
        {<<"contracts", "interface", "*", "*">>, <<"contracts", "source", "*", "*">>, <<"accounts", "*">>,
         <<"fees", "transfer">>, <<"info">>, <<"pox">>, <<"prices", "namespaces", "*">>, <<"prices", "names", "*">>}),
    Doc("POST", <<"v2">>,
        {<<"transactions">>, <<"map_entry", "*", "*", "*">>, <<"contracts", "call-read", "*", "*", "*">>}),
    Doc("POST", <<"rosetta", "v1">>,
        {<<"network", "list">>, <<"network", "options">>, <<"network", "status">>, <<"account", "balance">>, <<"block">>,
         <<"block", "transaction">>, <<"mempool">>, <<"mempool", "transaction">>}
          \cup {<<"construction", step>> : step \in
                  {"derive", "hash", "metadata", "parse", "preprocess", "submit", "payloads", "combine"}}),
    Doc("GET", <<"v1">>,
        {<<"namespaces">>, <<"namespaces", "*", "names">>, <<"names">>, <<"names", "*">>, <<"names", "*", "zonefile">>,
         <<"names", "*", "zonefile", "*">>, <<"addresses", "*", "*">>}),
    Doc("GET", <<>>, {<<>>})}

(* With the three that have no route.                                       *)
WithMissing ==
  Served \cup Doc("GET", <<"v1">>, {<<"names", "*", "history">>, <<"subdomains">>, <<"subdomains", "*">>})

-----------------------------------------------------------------------------
ProcessInit ==
  /\ part \in {"lifecycle", "import", "http"}
  /\ part # "lifecycle" => offline = FALSE /\ prod = FALSE
  /\ part # "import" => export = GoodExport
  /\ Init /\ ImportInit /\ HttpInit

ProcessNext ==
  \/ part = "lifecycle" /\ Next /\ UNCHANGED <<part, importVars, httpVars>>
  \/ part = "import" /\ ImportNext /\ UNCHANGED <<part, vars, httpVars>>
  \/ part = "http" /\ HttpNext /\ UNCHANGED <<part, vars, importVars>>

ProcessSpec ==
  /\ ProcessInit /\ [][ProcessNext]_<<part, vars, importVars, httpVars>>
  /\ WF_vars(RunHandler) /\ WF_vars(Exit) /\ WF_vars(StopStoring)
  /\ SF_vars(MessageDone)
  /\ WF_importVars(part = "import" /\ Step) /\ WF_importVars(part = "import" /\ Boot)
  /\ WF_httpVars(Server)

-----------------------------------------------------------------------------
(* What else holds of the process: the inductive invariant of the shutdown, *)
(* exit code 0 says that whatever was opened was closed; several signals,   *)
(* rejections and exceptions lead to one shutdown; the vesting schedule is  *)
(* imported entirely or not at all; a request is answered once, and a       *)
(* client's call finds its route.                                           *)
ProcessInv ==
  /\ IInv /\ TypeOK /\ CleanExit /\ HandlersOnce
  /\ ImportIInv /\ ImportTypeOK /\ OfferingAllOrNothing
  /\ HttpTypeOK /\ AnsweredOnce /\ ClientIsServed

(* A shutdown ends, unless clients of the API stay; no import takes back    *)
(* the flag of the other; with good data the API comes up with both imports *)
(* done; everyone is answered.                                              *)
ProcessLive ==
  /\ ShutdownEnds
  /\ FlagsKept /\ (part = "import" => ComesUp)
  /\ EveryoneAnswered
=============================================================================
