----------------------------- MODULE MCStartup -----------------------------
(***************************************************************************)
(* Instances of Startup: two ways to start over stdio, with everything the *)
(* client can write, and every combination of addresses, credentials and   *)
(* origins over HTTP.                                                      *)
(***************************************************************************)
EXTENDS Startup

Text(t) == [text |-> t, jsonrpc |-> TRUE, method |-> "", hasId |-> FALSE,
            hasResult |-> FALSE, version |-> NoVersion]
Request(m) == [Text("message") EXCEPT !.method = m, !.hasId = TRUE]
Initialize == [Request("initialize") EXCEPT !.version = Supported]
WithoutId(line) == [line EXCEPT !.hasId = FALSE]

\* Nothing, too much, another version of JSON-RPC, a response; the messages of
\* the handshake, each also in the form of the other kind; a call of a tool.
MCLines ==
    {Text("empty"), Text("too long"),
     [Initialize EXCEPT !.jsonrpc = FALSE],
     [Text("message") EXCEPT !.hasResult = TRUE],
     Initialize, WithoutId(Initialize),
     WithoutId(Request("notifications/initialized")), Request("notifications/initialized"),
     Request("tools/call")}

MCLoopbackIPs == {"127.0.0.1"}
MCUrls == {"https://menu", "https://other"}

Cook == <<"t1", "cook", "carla">>
Admin == <<"t2", "admin", "diego">>
Waiter == <<"t1", "waiter", "ana">>

Tokens ==
    {<< >>, << << >> >>, <<Cook, Admin>>, <<Cook, << >>, Waiter>>,
     <<Cook, <<"t2", "chef", "diego">> >>, << <<"t1", "cook">> >>, << <<"", "cook", "carla">> >> }

OriginLists ==
    {<< >>, <<[text |-> "https://menu", slash |-> TRUE], Origin(Blank)>>,
     <<Origin("*")>>, <<Origin("https://menu"), Origin("menu")>>}

Flags(hostFlags, hostEnvs) ==
    [hostFlag : hostFlags, hostEnv : hostEnvs, originsFlag : OriginLists,
     originsEnv : {<< >>, <<Origin("https://other")>>}, tokens : Tokens,
     insecure : BOOLEAN, role : {Blank, "cook", "chef"}, user : {Blank, "eva"}]

OverHttp ==
    Flags({Blank, "127.0.0.1", "0.0.0.0"}, {"localhost"}) \cup Flags({NotGiven}, {"localhost", "10.0.0.1"})

\* Malformed credentials do not matter here.
WithoutHttp ==
    [hostFlag : {NotGiven}, hostEnv : {NotGiven}, originsFlag : {<< >>}, originsEnv : {<< >>},
     tokens : {<< << "t1", "cook" >> >>}, insecure : {FALSE}, role : {"cook"}, user : {Blank}]

MCConfigurations == OverHttp \cup WithoutHttp

MCArrivals ==
    [origin : {Blank, "https://menu", "https://other"}, bearer : {NoBearer, Blank, "t1", "t2", "t3"}]
===========================================================================
