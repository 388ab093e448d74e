---------------------------- MODULE ToolCatalog ----------------------------
(***************************************************************************)
(* The tools a client may call: what CANONICAL_TOOLS advertises, what      *)
(* execute_tool demands and reads, and what the harness method behind a    *)
(* tool puts into its rvs command or its paging.  The three tables were    *)
(* written apart in the code, and nothing there compares them.             *)
(*                                                                         *)
(* Arguments are names; a name is in a call's set when the client gives it *)
(* a value other than the default and other than zero (`or 30` and the     *)
(* like read a zero as no value).  The wording of schemas and refusals is  *)
(* left out.                                                               *)
(***************************************************************************)

\* Two tables as one, like @@ of TLC, which the provers cannot look into.
Beside(f, g) == [x \in DOMAIN f \cup DOMAIN g |-> IF x \in DOMAIN f THEN f[x] ELSE g[x]]

----------------------------------------------------------------------------
(* What the schemas advertise: the required and the optional properties;   *)
(* of all tools but those that patch, "compact" is one.                    *)

Takes(needs, may) == [needs |-> needs, may |-> may \cup {"compact"}]
TakesNoMode(needs, may) == [needs |-> needs, may |-> may]

Component == {"abi", "neutral", "component_type"}

InspectSchema ==
  [rvs_info      |-> Takes({"file"}, Component),
   rvs_functions |-> Takes({"file"}, Component \cup {"filter", "detail", "limit", "offset"}),
   rvs_disasm    |-> Takes({"file", "target"}, Component \cup {"disasm", "max_instructions"}),
   rvs_decompile |-> Takes({"file", "function"}, Component)]

RelateSchema ==
  [rvs_flow    |-> Takes({"file", "function"}, Component),
   rvs_xrefs   |-> Takes({"file", "target"}, Component \cup {"direction", "kind", "limit"}),
   rvs_strings |-> Takes({"file"}, Component \cup {"min_len", "filter", "limit"}),
   rvs_symbols |-> Takes({"file"}, Component \cup {"filter", "limit", "offset"})]

PatchSchema ==
  [rvs_patch_instruction |-> TakesNoMode({"file", "addr"}, {"assembly", "nop_bytes", "backup"}),
   rvs_patch_string      |-> TakesNoMode({"file", "new_string"},
                                         {"addr", "old_string", "pad_null", "strict_length", "backup"}),
   rvs_patch_bytes       |-> TakesNoMode({"file", "addr", "hex_bytes"}, {"backup"}),
   rvs_agent_triage      |-> Takes({"file"}, Component),
   rvs_agent_patch_plan  |-> TakesNoMode({"file", "plan"}, {"dry_run"})]

DynamicSchema ==
  [rvs_dynamic_emulate |-> Takes({"file", "target"},
                                 {"steps", "until", "reg_set", "read_mem", "mem_len"}),
   rvs_dynamic_trace   |-> Takes({"file", "target"}, {"steps", "reg_set"}),
   rvs_dynamic_step    |-> Takes({"file", "target"}, {"count", "reg_set"})]

DebugRunSchema ==
  [rvs_debug_spawn    |-> Takes({"file"}, {"args", "stdin", "no_aslr"}),
   rvs_debug_attach   |-> Takes({"file", "pid"}, {}),
   rvs_debug_continue |-> Takes({"file"}, {"session", "until"}),
   rvs_debug_step     |-> Takes({"file"}, {"session", "step_type", "count"})]

DebugLookSchema ==
  [rvs_debug_breakpoint |-> Takes({"file"}, {"session", "action", "addr", "hw"}),
   rvs_debug_registers  |-> Takes({"file"}, {"session", "reg_set", "diff"}),
   rvs_debug_memory     |-> Takes({"file"}, {"session", "action", "addr", "len", "data"}),
   rvs_debug_kill       |-> Takes({"file"}, {"session"}),
   rvs_debug_sessions   |-> Takes({}, {})]

FridaSchema ==
  [rvs_frida_env_check |-> Takes({}, {}),
   rvs_frida_attach    |-> Takes({"target"}, {"device", "timeout"}),
   rvs_frida_spawn     |-> Takes({"path"}, {"args", "device", "timeout"}),
   rvs_frida_modules   |-> Takes({"target"}, {"filter", "limit", "offset"}),
   rvs_frida_symbols   |-> Takes({"target"}, {"module", "filter", "limit", "offset"}),
   rvs_frida_classes   |-> Takes({"target"}, {"filter", "limit", "offset"})]

FridaHookSchema ==
  [rvs_frida_hook        |-> Takes({"target", "addr"}, {"format"}),
   rvs_frida_trace_regs  |-> Takes({"target", "addr", "regs"}, {}),
   rvs_frida_hook_return |-> Takes({"target", "addr", "retval"}, {}),
   rvs_frida_hooks_list  |-> Takes({"target"}, {}),
   rvs_frida_hook_remove |-> Takes({"target", "id"}, {}),
   rvs_frida_script      |-> Takes({"target"}, {"code", "script_file", "timeout"})]

FridaMemorySchema ==
  [rvs_frida_rpc       |-> Takes({"target", "method"}, {"args", "timeout"}),
   rvs_frida_mem_read  |-> Takes({"target", "addr"}, {"len"}),
   rvs_frida_mem_write |-> Takes({"target", "addr", "data"}, {"protect"})]

WorkflowSchema ==
  [rvs_triage_crash          |-> Takes({"file"}, {"args", "timeout"}),
   rvs_bypass_decision_gate  |-> Takes({"file", "gate_addr"}, {"timeout"}),
   rvs_dump_decrypted_buffer |-> Takes({"file"}, {"function", "buffer_addr", "buffer_len"}),
   rvs_detect_anti_debug     |-> Takes({"file"}, {})]

QuerySchema == Beside(InspectSchema, RelateSchema)
DebugSchema == Beside(DebugRunSchema, DebugLookSchema)

Schema == Beside(QuerySchema, Beside(PatchSchema, Beside(DynamicSchema, Beside(DebugSchema,
          Beside(FridaSchema, Beside(FridaHookSchema, Beside(FridaMemorySchema, WorkflowSchema)))))))

\* The tools that the registry lists.
Tools == DOMAIN Schema

\* Is the call one that a client which follows the schema may make?
Advertised(tool, args) ==
  /\ Schema[tool].needs \subseteq args
  /\ args \subseteq Schema[tool].needs \cup Schema[tool].may

----------------------------------------------------------------------------
(* What execute_tool does with the arguments: a demand is a set of names,  *)
(* one of which must have a value; it reads the other names besides, and   *)
(* "compact" of every tool.                                                *)

Reads(demands, others) == [demands |-> demands, others |-> others \cup {"compact"}]

\* Tools that do not have to name a file.
NoFileRequired == {"rvs_debug_sessions"} \cup DOMAIN FridaSchema \cup DOMAIN FridaHookSchema
                  \cup DOMAIN FridaMemorySchema \cup DOMAIN WorkflowSchema

FileDemand_OfAll(tool) == {{"file"}}
FileDemand(tool) == IF tool \in NoFileRequired THEN {} ELSE {{"file"}}

QueryReads ==
  [rvs_info      |-> Reads({}, {}),
   rvs_functions |-> Reads({}, {"filter", "detail", "limit", "offset"}),
   rvs_disasm    |-> Reads({{"target"}}, {"disasm", "max_instructions"}),
   rvs_decompile |-> Reads({{"function"}}, {}),
   rvs_flow      |-> Reads({{"function"}}, {}),
   rvs_xrefs     |-> Reads({{"target"}}, {"direction", "kind", "limit"}),
   rvs_strings   |-> Reads({}, {"min_len", "filter", "limit"}),
   rvs_symbols   |-> Reads({}, {"filter", "limit", "offset"})]

\* The same tools when the call goes through an orchestrator.
OrchestratedReads ==
  LET place == {"function", "function_or_addr", "target"} IN
  [rvs_info      |-> Reads({}, Component),
   rvs_functions |-> Reads({}, Component \cup {"filter", "detail", "limit", "offset"}),
   rvs_disasm    |-> Reads({{"target", "function_or_addr"}},
                           Component \cup {"disasm", "max_instructions"}),
   rvs_decompile |-> Reads({place}, Component),
   rvs_flow      |-> Reads({place}, Component),
   rvs_xrefs     |-> Reads({{"target", "symbol_or_addr"}},
                           Component \cup {"direction", "kind", "limit"}),
   rvs_strings   |-> Reads({}, Component \cup {"min_len", "filter", "limit"}),
   rvs_symbols   |-> Reads({}, Component \cup {"filter", "limit", "offset"})]

PatchReads ==
  [rvs_patch_instruction |-> Reads({{"addr"}}, {"assembly", "nop_bytes", "backup"}),
   rvs_patch_string      |-> Reads({{"new_string"}},
                                   {"addr", "old_string", "pad_null", "strict_length", "backup"}),
   rvs_patch_bytes       |-> Reads({{"addr"}, {"hex_bytes"}}, {"backup"}),
   rvs_agent_triage      |-> Reads({}, {}),
   rvs_agent_patch_plan  |-> Reads({{"plan"}}, {"dry_run"})]

DynamicReads ==
  [rvs_dynamic_emulate |-> Reads({{"target"}}, {"steps", "until", "reg_set", "read_mem", "mem_len"}),
   rvs_dynamic_trace   |-> Reads({{"target"}}, {"steps", "reg_set"}),
   rvs_dynamic_step    |-> Reads({{"target"}}, {"count", "reg_set"})]

DebugReads ==
  [rvs_debug_spawn      |-> Reads({}, {"args", "stdin", "no_aslr"}),
   rvs_debug_attach     |-> Reads({{"pid"}}, {}),
   rvs_debug_continue   |-> Reads({}, {"session", "until"}),
   rvs_debug_step       |-> Reads({}, {"session", "step_type", "count"}),
   rvs_debug_breakpoint |-> Reads({}, {"session", "action", "addr", "hw"}),
   rvs_debug_registers  |-> Reads({}, {"session", "reg_set", "diff"}),
   rvs_debug_memory     |-> Reads({}, {"session", "action", "addr", "len", "data"}),
   rvs_debug_kill       |-> Reads({}, {"session"}),
   rvs_debug_sessions   |-> Reads({}, {})]

Process == {"target", "pid", "path", "file"}

FridaReads ==
  [rvs_frida_env_check |-> Reads({}, {}),
   rvs_frida_attach    |-> Reads({Process}, {"device", "timeout"}),
   rvs_frida_spawn     |-> Reads({{"path", "target", "file"}}, {"args", "device", "timeout"}),
   rvs_frida_modules   |-> Reads({Process}, {"filter", "limit", "offset"}),
   rvs_frida_symbols   |-> Reads({Process}, {"module", "filter", "limit", "offset"}),
   rvs_frida_classes   |-> Reads({Process}, {"filter", "limit", "offset"})]

FridaHookReads ==
  LET place == {"addr", "function", "symbol"} IN
  [rvs_frida_hook        |-> Reads({Process, place \cup {"target_addr"}}, {"format"}),
   rvs_frida_trace_regs  |-> Reads({Process, place, {"regs", "registers"}}, {}),
   rvs_frida_hook_return |-> Reads({Process, place, {"retval", "value", "return_value", "ret"}}, {}),
   rvs_frida_hooks_list  |-> Reads({Process}, {}),
   rvs_frida_hook_remove |-> Reads({Process, {"id", "hook_id"}}, {}),
   rvs_frida_script      |-> Reads({Process}, {"code", "script_file", "timeout"})]

FridaMemoryReads ==
  LET place == {"addr", "address"} IN
  [rvs_frida_rpc       |-> Reads({Process, {"method", "name", "rpc_method"}}, {"args", "timeout"}),
   rvs_frida_mem_read  |-> Reads({Process, place}, {"len"}),
   rvs_frida_mem_write |-> Reads({Process, place, {"data", "bytes", "hex_bytes", "hex"}}, {"protect"})]

WorkflowReads ==
  LET file == {{"file", "target"}} IN
  [rvs_triage_crash          |-> Reads(file, {"args", "timeout"}),
   rvs_bypass_decision_gate  |-> Reads(file, {"gate_addr", "function", "timeout"}),
   rvs_dump_decrypted_buffer |-> Reads(file, {"function", "buffer_addr", "buffer_len"}),
   rvs_detect_anti_debug     |-> Reads(file, {})]

DirectReads == Beside(QueryReads, Beside(PatchReads, Beside(DynamicReads, Beside(DebugReads,
               Beside(FridaReads, Beside(FridaHookReads, Beside(FridaMemoryReads, WorkflowReads)))))))

\* Does a call lack a name that its handler wants?
Incomplete(demands, args) == \E names \in demands : names \cap args = {}
----------------------------------------------------------------------------
(* What the harness methods carry into the rvs command line, its time      *)
(* limit or the form and the paging of its answer.  The workflows have no  *)
(* parameter for the form, and the tools that patch fix it.                *)

\* A method that is told whether to answer in compact form.
InMode(names) == names \cup {"compact"}

InspectCarries ==
  [rvs_info      |-> InMode({"file"}),
   rvs_functions |-> InMode({"file", "filter", "detail", "limit", "offset"}),
   rvs_disasm    |-> InMode({"file", "target", "disasm", "max_instructions"}),
   rvs_decompile |-> InMode({"file", "function"})]

RelateCarries ==
  [rvs_flow    |-> InMode({"file", "function"}),
   rvs_xrefs   |-> InMode({"file", "target", "direction", "kind", "limit"}),
   rvs_strings |-> InMode({"file", "min_len", "filter", "limit"}),
   rvs_symbols |-> InMode({"file", "filter", "limit", "offset"})]

PatchCarries ==
  [rvs_patch_instruction |-> {"file", "addr", "assembly", "nop_bytes", "backup"},
   rvs_patch_string      |-> {"file", "new_string", "addr", "old_string", "pad_null",
                              "strict_length", "backup"},
   rvs_patch_bytes       |-> {"file", "addr", "hex_bytes", "backup"},
   rvs_agent_triage      |-> InMode({"file"}),
   rvs_agent_patch_plan  |-> {"file", "plan", "dry_run"}]

DynamicCarries ==
  [rvs_dynamic_emulate |-> InMode({"file", "target", "steps", "until", "reg_set", "read_mem", "mem_len"}),
   rvs_dynamic_trace   |-> InMode({"file", "target", "steps", "reg_set"}),
   rvs_dynamic_step    |-> InMode({"file", "target", "count", "reg_set"})]

DebugCarries ==
  [rvs_debug_spawn      |-> InMode({"file", "args", "stdin", "no_aslr"}),
   rvs_debug_attach     |-> InMode({"file", "pid"}),
   rvs_debug_continue   |-> InMode({"file", "session", "until"}),
   rvs_debug_step       |-> InMode({"file", "session", "step_type", "count"}),
   rvs_debug_breakpoint |-> InMode({"file", "session", "action", "addr", "hw"}),
   rvs_debug_registers  |-> InMode({"file", "session", "reg_set", "diff"}),
   rvs_debug_memory     |-> InMode({"file", "session", "action", "addr", "len", "data"}),
   rvs_debug_kill       |-> InMode({"file", "session"}),
   rvs_debug_sessions   |-> InMode({})]

FridaCarries ==
  [rvs_frida_env_check |-> InMode({}),
   rvs_frida_attach    |-> InMode({"target", "device", "timeout"}),
   rvs_frida_spawn     |-> InMode({"path", "args", "device", "timeout"}),
   rvs_frida_modules   |-> InMode({"target", "filter", "limit", "offset"}),
   rvs_frida_symbols   |-> InMode({"target", "module", "filter", "limit", "offset"}),
   rvs_frida_classes   |-> InMode({"target", "filter", "limit", "offset"})]

FridaHookCarries ==
  [rvs_frida_hook        |-> InMode({"target", "addr", "format"}),
   rvs_frida_trace_regs  |-> InMode({"target", "addr", "regs"}),
   rvs_frida_hook_return |-> InMode({"target", "addr", "retval"}),
   rvs_frida_hooks_list  |-> InMode({"target"}),
   rvs_frida_hook_remove |-> InMode({"target", "id"}),
   rvs_frida_script      |-> InMode({"target", "code", "script_file", "timeout"})]

FridaMemoryCarries ==
  [rvs_frida_rpc       |-> InMode({"target", "method", "args", "timeout"}),
   rvs_frida_mem_read  |-> InMode({"target", "addr", "len"}),
   rvs_frida_mem_write |-> InMode({"target", "addr", "data", "protect"})]

WorkflowCarries ==
  [rvs_triage_crash          |-> {"file", "args", "timeout"},
   rvs_bypass_decision_gate  |-> {"file", "gate_addr", "function", "timeout"},
   rvs_dump_decrypted_buffer |-> {"file", "function", "buffer_addr", "buffer_len"},
   rvs_detect_anti_debug     |-> {"file"}]

QueryCarries == Beside(InspectCarries, RelateCarries)

Carries == Beside(QueryCarries, Beside(PatchCarries, Beside(DynamicCarries, Beside(DebugCarries,
           Beside(FridaCarries, Beside(FridaHookCarries, Beside(FridaMemoryCarries, WorkflowCarries)))))))

\* Arguments that another one makes void: script text wins over a script file,
\* and a length without a place to read means nothing.
Void(tool, args) ==
  {a \in args : \/ tool = "rvs_frida_script" /\ a = "script_file" /\ "code" \in args
                \/ tool = "rvs_dynamic_emulate" /\ a = "mem_len" /\ "read_mem" \notin args}

\* The arguments of a call that are read, under their name or as an alternative
\* of a demand, and then carried on.
Carried(reads, tool, args) ==
  {a \in args \ Void(tool, args) :
     /\ a \in (UNION reads.demands) \cup (UNION FileDemand(tool)) \cup reads.others
     /\ a \in Carries[tool] \cup Component}

\* What an orchestrator's query hands on of the arguments it is given: to a method
\* of the harness for a native component, to the DEX reader for bytecode.
NativeCarries ==
  [rvs_info      |-> InMode({}),
   rvs_functions |-> InMode({"filter", "detail", "limit", "offset"}),
   rvs_disasm    |-> InMode({"target", "disasm", "max_instructions"}),
   rvs_decompile |-> InMode({"function"}),
   rvs_flow      |-> InMode({"function"}),
   rvs_xrefs     |-> InMode({"target", "direction", "kind", "limit"}),
   rvs_strings   |-> InMode({"min_len", "filter", "limit"}),
   rvs_symbols   |-> InMode({"filter", "limit", "offset"})]

DexCarries == [rvs_info |-> {}, rvs_strings |-> {"min_len", "filter", "limit"}]

\* patch_instruction wants exactly one of its two ways to name the new code.
Contradictory(tool, args) ==
  /\ tool = "rvs_patch_instruction"
  /\ {"assembly", "nop_bytes"} \subseteq args \/ {"assembly", "nop_bytes"} \cap args = {}
=============================================================================
