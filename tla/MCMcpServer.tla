---------------------------- MODULE MCMcpServer ----------------------------
(* A small instance of McpServer: a client that sends two lines, and an agent  *)
(* of the same process that calls every tool of the registry, and the query    *)
(* methods over packages.                                                      *)
EXTENDS McpServer

CONSTANTS srv, a1

\* A binary, one whose machine is not known, a package with components of two ABIs,
\* one with bytecode only, an empty one, a malformed one, and a text file.
SomeTargets == {"elf", "odd", "apk", "dexes", "empty", "torn", "text"}

So(abi) == [type |-> "elf_so", abi |-> abi]
Dex == [type |-> "dex", abi |-> Nil]
File(type, parts) == [type |-> type, parts |-> parts, broken |-> FALSE]

SomeHolds ==
  [elf |-> File("elf", <<So("x86_64")>>), odd |-> File("elf", <<So(Nil)>>),
   apk |-> File("apk", <<Dex, So("armeabi-v7a"), So("arm64-v8a")>>),
   dexes |-> File("apk", <<Dex, Dex>>), empty |-> File("apk", <<>>),
   torn |-> [type |-> "apk", parts |-> <<>>, broken |-> TRUE], text |-> File("unknown", <<>>)]

Preference == <<"x86_64", "arm64-v8a", "armeabi-v7a">>

Asked(via, tool, args, target, abi, type) ==
  [via |-> via, shape |-> "object", tool |-> tool,
   args |-> args \cup (IF abi = Nil THEN {} ELSE {"abi"}) \cup (IF type = Nil THEN {} ELSE {"component_type"}),
   target |-> target, abi |-> abi, type |-> type, bad |-> FALSE]

\* Every tool with the arguments it needs, and with all it may be given.
Plain ==
  {Asked("tool", t, Schema[t].needs, "elf", Nil, Nil) : t \in Tools}
  \cup {Asked("tool", t, (Schema[t].needs \cup Schema[t].may) \ Component, "elf", Nil, Nil) : t \in Tools}

Info == Asked("tool", "rvs_info", {"file"}, "elf", Nil, Nil)

\* Calls about components, by method and by tool.
Choosy ==
  {Asked("method", "rvs_info", {"file"}, f, abi, type) :
     f \in {"odd", "apk"}, abi \in {Nil, "armeabi-v7a"}, type \in {Nil, "dex", "elf_so"}}
  \cup {Asked("method", "rvs_info", {"file"}, f, Nil, Nil) : f \in {"elf", "dexes", "torn"}}
  \cup {Asked("tool", t, (Schema[t].needs \cup Schema[t].may) \ {"abi", "component_type"}, "apk", Nil, Nil) :
          t \in Queries}
  \cup {Asked(via, "rvs_decompile", {"file", "function", "neutral"}, f, Nil, Nil) :
          via \in {"tool", "method"}, f \in {"apk", "text"}}
  \cup {Asked("tool", "rvs_agent_triage", {"file"}, f, Nil, Nil) : f \in {"apk", "empty"}}

\* Calls that are refused, or of which an argument has a value of a wrong kind.
Peculiar ==
  {[Info EXCEPT !.shape = "none", !.args = {}], [Info EXCEPT !.shape = "other", !.args = {}],
   [Info EXCEPT !.shape = "none", !.args = {}, !.tool = "rvs_debug_sessions"],
   [Info EXCEPT !.bad = TRUE], [Info EXCEPT !.tool = "rvs_nothing"],
   [Info EXCEPT !.tool = "rvs_frida_hook", !.args = {"file", "symbol"}],
   [Info EXCEPT !.tool = "rvs_frida_hook", !.args = {"target"}]}

Served == {Asked("tool", "rvs_functions", {}, "elf", Nil, Nil),
           Asked("tool", "rvs_decompile", {"file", "function", "neutral"}, "apk", Nil, Nil)}

MCCallsOf == [t \in Threads |-> IF t = srv THEN Served ELSE Plain \cup Choosy \cup Peculiar]

MCMaxCalls == [t \in Threads |-> IF t = srv THEN 2 ELSE 1]

Says(kind, id) == [kind |-> kind, id |-> id, call |-> Nil]

MCLines ==
  {Says("blank", FALSE), Says("garbage", FALSE), Says("unparsable", TRUE),
   Says("no_request", TRUE), Says("ping", TRUE), Says("ping", FALSE)}
  \cup {[kind |-> "tools_call", id |-> TRUE, call |-> c] : c \in Served}
=============================================================================
