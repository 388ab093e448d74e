-------------------------- MODULE McpServerProofs --------------------------
(***************************************************************************)
(* Proofs about the tools: that the tables of their arguments agree, and   *)
(* about the calls of a harness that several threads share, with and       *)
(* without a server among them, for every set of threads, calls and        *)
(* targets.                                                                *)
(***************************************************************************)
EXTENDS McpServer, WellFoundedInduction, SequenceTheorems, TLAPS

(***************************************************************************)
(* The three tables about the tools agree: whatever arguments a schema     *)
(* allows, execute_tool finds the ones it demands, reads every one of      *)
(* them and has a method that carries them on, but for the "compact" of    *)
(* the workflows.  The tables are compared group by group, then put        *)
(* together.                                                               *)
(***************************************************************************)

\* What a client may give beside the names that choose a component.
Given(s) == (s.needs \cup s.may) \ Component

Meets(demands, s) == \A names \in demands : names \cap s.needs # {}

\* Every argument of the schema S is one that the handler (R) reads.
IsRead(S, R, file, tool) ==
  Given(S[tool]) \subseteq (UNION R[tool].demands) \cup file \cup R[tool].others

\* What is advertised and lost on the way to the method of a tool.
Lost(tool) == IF tool \in DOMAIN WorkflowSchema THEN {"compact"} ELSE {}

\* The schemas S, the handlers R and the methods C of a group of tools agree.
Fit(S, R, C) ==
  /\ DOMAIN C = DOMAIN S /\ DOMAIN S \subseteq DOMAIN R
  /\ \A tool \in DOMAIN S :
       /\ Meets(R[tool].demands, S[tool]) /\ Meets(FileDemand(tool), S[tool])
       /\ IsRead(S, R, UNION FileDemand(tool), tool)
       /\ Given(S[tool]) \ Lost(tool) \subseteq C[tool]

\* The union of a few sets that are listed.
LEMMA Unions ==
  /\ UNION {} = {}
  /\ \A A : UNION {A} = A
  /\ \A A, B : UNION {A, B} = A \cup B
  /\ \A A, B, C : UNION {A, B, C} = A \cup B \cup C
  OBVIOUS

LEMMA FitBeside ==
  ASSUME NEW S, NEW R, NEW C, NEW S2, NEW R2, NEW C2, Fit(S, R, C), Fit(S2, R2, C2),
         DOMAIN R = DOMAIN S
  PROVE  /\ Fit(Beside(S, S2), Beside(R, R2), Beside(C, C2))
         /\ DOMAIN Beside(S, S2) = DOMAIN S \cup DOMAIN S2
  BY DEF Fit, Beside, IsRead

\* Two schema tables over one table of handlers.
LEMMA FitHalves ==
  ASSUME NEW S, NEW R, NEW C, NEW S2, NEW C2, Fit(S, R, C), Fit(S2, R, C2)
  PROVE  /\ Fit(Beside(S, S2), R, Beside(C, C2))
         /\ DOMAIN Beside(S, S2) = DOMAIN S \cup DOMAIN S2
  BY DEF Fit, Beside, IsRead

----------------------------------------------------------------------------
(* Group by group.                                                         *)

USE DEF Takes, TakesNoMode, Reads, InMode

LEMMA InspectToolsFit == Fit(InspectSchema, QueryReads, InspectCarries)
<1> USE DEF Process
<1>1. DOMAIN InspectCarries = DOMAIN InspectSchema /\ DOMAIN InspectSchema \subseteq DOMAIN QueryReads
  BY DEF InspectSchema, QueryReads, InspectCarries
<1>2. \A tool \in DOMAIN InspectSchema : Meets(QueryReads[tool].demands, InspectSchema[tool])
  BY DEF InspectSchema, QueryReads, Meets
<1>3. \A tool \in DOMAIN InspectSchema : FileDemand(tool) = {{"file"}}
  <2>1. \A tool \in DOMAIN InspectSchema : tool \notin NoFileRequired
    BY DEF InspectSchema, NoFileRequired, FridaSchema, FridaHookSchema, FridaMemorySchema, WorkflowSchema
  <2> QED
    BY <2>1 DEF FileDemand
<1>4. \A tool \in DOMAIN InspectSchema : Meets(FileDemand(tool), InspectSchema[tool])
  BY <1>3 DEF InspectSchema, Meets
<1>5. \A tool \in DOMAIN InspectSchema : Given(InspectSchema[tool]) \subseteq InspectCarries[tool]
  BY DEF InspectSchema, InspectCarries, Given, Component
<1>6. /\ IsRead(InspectSchema, QueryReads, {"file"}, "rvs_info")
      /\ IsRead(InspectSchema, QueryReads, {"file"}, "rvs_functions")
      /\ IsRead(InspectSchema, QueryReads, {"file"}, "rvs_disasm")
      /\ IsRead(InspectSchema, QueryReads, {"file"}, "rvs_decompile")
  BY Unions DEF InspectSchema, QueryReads, IsRead, Given, Component
<1>7. \A tool \in DOMAIN InspectSchema : IsRead(InspectSchema, QueryReads, UNION FileDemand(tool), tool)
  BY <1>3, <1>6 DEF InspectSchema
<1> QED
  BY <1>1, <1>2, <1>4, <1>5, <1>7 DEF Fit

LEMMA RelateToolsFit == Fit(RelateSchema, QueryReads, RelateCarries)
<1> USE DEF Process
<1>1. DOMAIN RelateCarries = DOMAIN RelateSchema /\ DOMAIN RelateSchema \subseteq DOMAIN QueryReads
  BY DEF RelateSchema, QueryReads, RelateCarries
<1>2. \A tool \in DOMAIN RelateSchema : Meets(QueryReads[tool].demands, RelateSchema[tool])
  BY DEF RelateSchema, QueryReads, Meets
<1>3. \A tool \in DOMAIN RelateSchema : FileDemand(tool) = {{"file"}}
  <2>1. \A tool \in DOMAIN RelateSchema : tool \notin NoFileRequired
    BY DEF RelateSchema, NoFileRequired, FridaSchema, FridaHookSchema, FridaMemorySchema, WorkflowSchema
  <2> QED
    BY <2>1 DEF FileDemand
<1>4. \A tool \in DOMAIN RelateSchema : Meets(FileDemand(tool), RelateSchema[tool])
  BY <1>3 DEF RelateSchema, Meets
<1>5. \A tool \in DOMAIN RelateSchema : Given(RelateSchema[tool]) \subseteq RelateCarries[tool]
  BY DEF RelateSchema, RelateCarries, Given, Component
<1>6. /\ IsRead(RelateSchema, QueryReads, {"file"}, "rvs_flow")
      /\ IsRead(RelateSchema, QueryReads, {"file"}, "rvs_xrefs")
      /\ IsRead(RelateSchema, QueryReads, {"file"}, "rvs_strings")
      /\ IsRead(RelateSchema, QueryReads, {"file"}, "rvs_symbols")
  BY Unions DEF RelateSchema, QueryReads, IsRead, Given, Component
<1>7. \A tool \in DOMAIN RelateSchema : IsRead(RelateSchema, QueryReads, UNION FileDemand(tool), tool)
  BY <1>3, <1>6 DEF RelateSchema
<1> QED
  BY <1>1, <1>2, <1>4, <1>5, <1>7 DEF Fit

LEMMA PatchToolsFit == Fit(PatchSchema, PatchReads, PatchCarries)
<1> USE DEF Process
<1>1. DOMAIN PatchCarries = DOMAIN PatchSchema /\ DOMAIN PatchSchema \subseteq DOMAIN PatchReads
  BY DEF PatchSchema, PatchReads, PatchCarries
<1>2. \A tool \in DOMAIN PatchSchema : Meets(PatchReads[tool].demands, PatchSchema[tool])
  BY DEF PatchSchema, PatchReads, Meets
<1>3. \A tool \in DOMAIN PatchSchema : FileDemand(tool) = {{"file"}}
  <2>1. \A tool \in DOMAIN PatchSchema : tool \notin NoFileRequired
    BY DEF PatchSchema, NoFileRequired, FridaSchema, FridaHookSchema, FridaMemorySchema, WorkflowSchema
  <2> QED
    BY <2>1 DEF FileDemand
<1>4. \A tool \in DOMAIN PatchSchema : Meets(FileDemand(tool), PatchSchema[tool])
  BY <1>3 DEF PatchSchema, Meets
<1>5. \A tool \in DOMAIN PatchSchema : Given(PatchSchema[tool]) \subseteq PatchCarries[tool]
  BY DEF PatchSchema, PatchCarries, Given, Component
<1>6. /\ IsRead(PatchSchema, PatchReads, {"file"}, "rvs_patch_instruction")
      /\ IsRead(PatchSchema, PatchReads, {"file"}, "rvs_patch_string")
      /\ IsRead(PatchSchema, PatchReads, {"file"}, "rvs_patch_bytes")
      /\ IsRead(PatchSchema, PatchReads, {"file"}, "rvs_agent_triage")
      /\ IsRead(PatchSchema, PatchReads, {"file"}, "rvs_agent_patch_plan")
  BY Unions DEF PatchSchema, PatchReads, IsRead, Given, Component
<1>7. \A tool \in DOMAIN PatchSchema : IsRead(PatchSchema, PatchReads, UNION FileDemand(tool), tool)
  BY <1>3, <1>6 DEF PatchSchema
<1> QED
  BY <1>1, <1>2, <1>4, <1>5, <1>7 DEF Fit

LEMMA DynamicToolsFit == Fit(DynamicSchema, DynamicReads, DynamicCarries)
<1> USE DEF Process
<1>1. DOMAIN DynamicCarries = DOMAIN DynamicSchema /\ DOMAIN DynamicSchema \subseteq DOMAIN DynamicReads
  BY DEF DynamicSchema, DynamicReads, DynamicCarries
<1>2. \A tool \in DOMAIN DynamicSchema : Meets(DynamicReads[tool].demands, DynamicSchema[tool])
  BY DEF DynamicSchema, DynamicReads, Meets
<1>3. \A tool \in DOMAIN DynamicSchema : FileDemand(tool) = {{"file"}}
  <2>1. \A tool \in DOMAIN DynamicSchema : tool \notin NoFileRequired
    BY DEF DynamicSchema, NoFileRequired, FridaSchema, FridaHookSchema, FridaMemorySchema, WorkflowSchema
  <2> QED
    BY <2>1 DEF FileDemand
<1>4. \A tool \in DOMAIN DynamicSchema : Meets(FileDemand(tool), DynamicSchema[tool])
  BY <1>3 DEF DynamicSchema, Meets
<1>5. \A tool \in DOMAIN DynamicSchema : Given(DynamicSchema[tool]) \subseteq DynamicCarries[tool]
  BY DEF DynamicSchema, DynamicCarries, Given, Component
<1>6. /\ IsRead(DynamicSchema, DynamicReads, {"file"}, "rvs_dynamic_emulate")
      /\ IsRead(DynamicSchema, DynamicReads, {"file"}, "rvs_dynamic_trace")
      /\ IsRead(DynamicSchema, DynamicReads, {"file"}, "rvs_dynamic_step")
  BY Unions DEF DynamicSchema, DynamicReads, IsRead, Given, Component
<1>7. \A tool \in DOMAIN DynamicSchema : IsRead(DynamicSchema, DynamicReads, UNION FileDemand(tool), tool)
  BY <1>3, <1>6 DEF DynamicSchema
<1> QED
  BY <1>1, <1>2, <1>4, <1>5, <1>7 DEF Fit

\* Of the tools for debugging only the list of the sessions needs no file.
LEMMA DebugToolsFit == Fit(DebugSchema, DebugReads, DebugCarries)
<1>1. DOMAIN DebugSchema = DOMAIN DebugRunSchema \cup DOMAIN DebugLookSchema
  BY DEF DebugSchema, Beside
<1>2. DOMAIN DebugCarries = DOMAIN DebugSchema /\ DOMAIN DebugSchema \subseteq DOMAIN DebugReads
  BY <1>1 DEF DebugRunSchema, DebugLookSchema, DebugReads, DebugCarries
<1>3. /\ \A tool \in DOMAIN DebugRunSchema : DebugSchema[tool] = DebugRunSchema[tool]
      /\ \A tool \in DOMAIN DebugLookSchema : DebugSchema[tool] = DebugLookSchema[tool]
  <2>1. DOMAIN DebugRunSchema \cap DOMAIN DebugLookSchema = {}
    BY DEF DebugRunSchema, DebugLookSchema
  <2> QED
    BY <2>1 DEF DebugSchema, Beside
<1>4. /\ FileDemand("rvs_debug_sessions") = {}
      /\ \A tool \in DOMAIN DebugSchema \ {"rvs_debug_sessions"} : FileDemand(tool) = {{"file"}}
  <2>1. \A tool \in DOMAIN DebugSchema \ {"rvs_debug_sessions"} : tool \notin NoFileRequired
    BY <1>1 DEF DebugRunSchema, DebugLookSchema, NoFileRequired, FridaSchema, FridaHookSchema, FridaMemorySchema, WorkflowSchema
  <2> QED
    BY <2>1 DEF FileDemand, NoFileRequired
<1>5. \A tool \in DOMAIN DebugSchema :
        Meets(DebugReads[tool].demands, DebugSchema[tool]) /\ Given(DebugSchema[tool]) \subseteq DebugCarries[tool]
  <2>1. \A tool \in DOMAIN DebugRunSchema : Meets(DebugReads[tool].demands, DebugRunSchema[tool])
    BY DEF DebugRunSchema, DebugReads, Meets
  <2>2. \A tool \in DOMAIN DebugLookSchema : Meets(DebugReads[tool].demands, DebugLookSchema[tool])
    BY DEF DebugLookSchema, DebugReads, Meets
  <2>3. \A tool \in DOMAIN DebugRunSchema : Given(DebugRunSchema[tool]) \subseteq DebugCarries[tool]
    BY DEF DebugRunSchema, DebugCarries, Given
  <2>4. \A tool \in DOMAIN DebugLookSchema : Given(DebugLookSchema[tool]) \subseteq DebugCarries[tool]
    BY DEF DebugLookSchema, DebugCarries, Given
  <2> QED
    BY <1>1, <1>3, <2>1, <2>2, <2>3, <2>4
<1>6. \A tool \in DOMAIN DebugSchema : Meets(FileDemand(tool), DebugSchema[tool])
  <2>1. \A tool \in DOMAIN DebugRunSchema : "file" \in DebugRunSchema[tool].needs
    BY DEF DebugRunSchema
  <2>2. \A tool \in DOMAIN DebugLookSchema \ {"rvs_debug_sessions"} : "file" \in DebugLookSchema[tool].needs
    BY DEF DebugLookSchema
  <2> QED
    BY <1>1, <1>3, <1>4, <2>1, <2>2 DEF Meets
<1>7. /\ IsRead(DebugRunSchema, DebugReads, {"file"}, "rvs_debug_spawn")
      /\ IsRead(DebugRunSchema, DebugReads, {"file"}, "rvs_debug_attach")
      /\ IsRead(DebugRunSchema, DebugReads, {"file"}, "rvs_debug_continue")
      /\ IsRead(DebugRunSchema, DebugReads, {"file"}, "rvs_debug_step")
  BY Unions DEF DebugRunSchema, DebugReads, IsRead, Given, Component
<1>8. /\ IsRead(DebugLookSchema, DebugReads, {"file"}, "rvs_debug_breakpoint")
      /\ IsRead(DebugLookSchema, DebugReads, {"file"}, "rvs_debug_registers")
      /\ IsRead(DebugLookSchema, DebugReads, {"file"}, "rvs_debug_memory")
      /\ IsRead(DebugLookSchema, DebugReads, {"file"}, "rvs_debug_kill")
      /\ IsRead(DebugLookSchema, DebugReads, {}, "rvs_debug_sessions")
  BY Unions DEF DebugLookSchema, DebugReads, IsRead, Given, Component
<1>9. \A tool \in DOMAIN DebugSchema : IsRead(DebugSchema, DebugReads, UNION FileDemand(tool), tool)
  <2>1. ASSUME NEW tool \in DOMAIN DebugRunSchema
        PROVE  IsRead(DebugSchema, DebugReads, UNION FileDemand(tool), tool)
    <3>1. FileDemand(tool) = {{"file"}}
      BY <1>1, <1>4 DEF DebugRunSchema
    <3>2. UNION FileDemand(tool) = {"file"} /\ DebugSchema[tool] = DebugRunSchema[tool]
      BY <1>3, <3>1, Unions
    <3>3. IsRead(DebugRunSchema, DebugReads, {"file"}, tool)
      BY <1>7 DEF DebugRunSchema
    <3> QED
      BY <3>2, <3>3 DEF IsRead
  <2>2. ASSUME NEW tool \in DOMAIN DebugLookSchema
        PROVE  IsRead(DebugSchema, DebugReads, UNION FileDemand(tool), tool)
    <3> DEFINE file == IF tool = "rvs_debug_sessions" THEN {} ELSE {"file"}
    <3>1. UNION FileDemand(tool) = file /\ DebugSchema[tool] = DebugLookSchema[tool]
      BY <1>1, <1>3, <1>4, Unions
    <3>2. IsRead(DebugLookSchema, DebugReads, file, tool)
      BY <1>8 DEF DebugLookSchema
    <3> QED
      BY <3>1, <3>2 DEF IsRead
  <2> QED
    BY <1>1, <2>1, <2>2
<1> QED
  BY <1>2, <1>5, <1>6, <1>9 DEF Fit

LEMMA FridaToolsFit == Fit(FridaSchema, FridaReads, FridaCarries)
<1> USE DEF Process
<1>1. DOMAIN FridaCarries = DOMAIN FridaSchema /\ DOMAIN FridaSchema \subseteq DOMAIN FridaReads
  BY DEF FridaSchema, FridaReads, FridaCarries
<1>2. \A tool \in DOMAIN FridaSchema : Meets(FridaReads[tool].demands, FridaSchema[tool])
  BY DEF FridaSchema, FridaReads, Meets
<1>3. \A tool \in DOMAIN FridaSchema : FileDemand(tool) = {}
  BY DEF FileDemand, NoFileRequired
<1>4. \A tool \in DOMAIN FridaSchema : Meets(FileDemand(tool), FridaSchema[tool])
  BY <1>3 DEF FridaSchema, Meets
<1>5. \A tool \in DOMAIN FridaSchema : Given(FridaSchema[tool]) \subseteq FridaCarries[tool]
  BY DEF FridaSchema, FridaCarries, Given, Component
<1>6. /\ IsRead(FridaSchema, FridaReads, {}, "rvs_frida_env_check")
      /\ IsRead(FridaSchema, FridaReads, {}, "rvs_frida_attach")
      /\ IsRead(FridaSchema, FridaReads, {}, "rvs_frida_spawn")
      /\ IsRead(FridaSchema, FridaReads, {}, "rvs_frida_modules")
      /\ IsRead(FridaSchema, FridaReads, {}, "rvs_frida_symbols")
      /\ IsRead(FridaSchema, FridaReads, {}, "rvs_frida_classes")
  BY Unions DEF FridaSchema, FridaReads, IsRead, Given, Component
<1>7. \A tool \in DOMAIN FridaSchema : IsRead(FridaSchema, FridaReads, UNION FileDemand(tool), tool)
  BY <1>3, <1>6 DEF FridaSchema
<1> QED
  BY <1>1, <1>2, <1>4, <1>5, <1>7 DEF Fit

LEMMA FridaHookToolsFit == Fit(FridaHookSchema, FridaHookReads, FridaHookCarries)
<1> USE DEF Process
<1>1. DOMAIN FridaHookCarries = DOMAIN FridaHookSchema /\ DOMAIN FridaHookSchema \subseteq DOMAIN FridaHookReads
  BY DEF FridaHookSchema, FridaHookReads, FridaHookCarries
<1>2. \A tool \in DOMAIN FridaHookSchema : Meets(FridaHookReads[tool].demands, FridaHookSchema[tool])
  BY DEF FridaHookSchema, FridaHookReads, Meets
<1>3. \A tool \in DOMAIN FridaHookSchema : FileDemand(tool) = {}
  BY DEF FileDemand, NoFileRequired
<1>4. \A tool \in DOMAIN FridaHookSchema : Meets(FileDemand(tool), FridaHookSchema[tool])
  BY <1>3 DEF FridaHookSchema, Meets
<1>5. \A tool \in DOMAIN FridaHookSchema : Given(FridaHookSchema[tool]) \subseteq FridaHookCarries[tool]
  BY DEF FridaHookSchema, FridaHookCarries, Given, Component
<1>6. /\ IsRead(FridaHookSchema, FridaHookReads, {}, "rvs_frida_hook")
      /\ IsRead(FridaHookSchema, FridaHookReads, {}, "rvs_frida_trace_regs")
      /\ IsRead(FridaHookSchema, FridaHookReads, {}, "rvs_frida_hook_return")
      /\ IsRead(FridaHookSchema, FridaHookReads, {}, "rvs_frida_hooks_list")
      /\ IsRead(FridaHookSchema, FridaHookReads, {}, "rvs_frida_hook_remove")
      /\ IsRead(FridaHookSchema, FridaHookReads, {}, "rvs_frida_script")
  BY Unions DEF FridaHookSchema, FridaHookReads, IsRead, Given, Component
<1>7. \A tool \in DOMAIN FridaHookSchema : IsRead(FridaHookSchema, FridaHookReads, UNION FileDemand(tool), tool)
  BY <1>3, <1>6 DEF FridaHookSchema
<1> QED
  BY <1>1, <1>2, <1>4, <1>5, <1>7 DEF Fit

LEMMA FridaMemoryToolsFit == Fit(FridaMemorySchema, FridaMemoryReads, FridaMemoryCarries)
<1> USE DEF Process
<1>1. DOMAIN FridaMemoryCarries = DOMAIN FridaMemorySchema /\ DOMAIN FridaMemorySchema \subseteq DOMAIN FridaMemoryReads
  BY DEF FridaMemorySchema, FridaMemoryReads, FridaMemoryCarries
<1>2. \A tool \in DOMAIN FridaMemorySchema : Meets(FridaMemoryReads[tool].demands, FridaMemorySchema[tool])
  BY DEF FridaMemorySchema, FridaMemoryReads, Meets
<1>3. \A tool \in DOMAIN FridaMemorySchema : FileDemand(tool) = {}
  BY DEF FileDemand, NoFileRequired
<1>4. \A tool \in DOMAIN FridaMemorySchema : Meets(FileDemand(tool), FridaMemorySchema[tool])
  BY <1>3 DEF FridaMemorySchema, Meets
<1>5. \A tool \in DOMAIN FridaMemorySchema : Given(FridaMemorySchema[tool]) \subseteq FridaMemoryCarries[tool]
  BY DEF FridaMemorySchema, FridaMemoryCarries, Given, Component
<1>6. /\ IsRead(FridaMemorySchema, FridaMemoryReads, {}, "rvs_frida_rpc")
      /\ IsRead(FridaMemorySchema, FridaMemoryReads, {}, "rvs_frida_mem_read")
      /\ IsRead(FridaMemorySchema, FridaMemoryReads, {}, "rvs_frida_mem_write")
  BY Unions DEF FridaMemorySchema, FridaMemoryReads, IsRead, Given, Component
<1>7. \A tool \in DOMAIN FridaMemorySchema : IsRead(FridaMemorySchema, FridaMemoryReads, UNION FileDemand(tool), tool)
  BY <1>3, <1>6 DEF FridaMemorySchema
<1> QED
  BY <1>1, <1>2, <1>4, <1>5, <1>7 DEF Fit

LEMMA WorkflowToolsFit == Fit(WorkflowSchema, WorkflowReads, WorkflowCarries)
<1> USE DEF Process
<1>1. DOMAIN WorkflowCarries = DOMAIN WorkflowSchema /\ DOMAIN WorkflowSchema \subseteq DOMAIN WorkflowReads
  BY DEF WorkflowSchema, WorkflowReads, WorkflowCarries
<1>2. \A tool \in DOMAIN WorkflowSchema : Meets(WorkflowReads[tool].demands, WorkflowSchema[tool])
  BY DEF WorkflowSchema, WorkflowReads, Meets
<1>3. \A tool \in DOMAIN WorkflowSchema : FileDemand(tool) = {}
  BY DEF FileDemand, NoFileRequired
<1>4. \A tool \in DOMAIN WorkflowSchema : Meets(FileDemand(tool), WorkflowSchema[tool])
  BY <1>3 DEF WorkflowSchema, Meets
<1>5. \A tool \in DOMAIN WorkflowSchema : Given(WorkflowSchema[tool]) \ Lost(tool) \subseteq WorkflowCarries[tool]
  <2>1. \A tool \in DOMAIN WorkflowSchema : Given(WorkflowSchema[tool]) \ {"compact"} \subseteq WorkflowCarries[tool]
    BY DEF WorkflowSchema, WorkflowCarries, Given, Component
  <2> QED
    BY <2>1 DEF Lost
<1>6. /\ IsRead(WorkflowSchema, WorkflowReads, {}, "rvs_triage_crash")
      /\ IsRead(WorkflowSchema, WorkflowReads, {}, "rvs_bypass_decision_gate")
      /\ IsRead(WorkflowSchema, WorkflowReads, {}, "rvs_dump_decrypted_buffer")
      /\ IsRead(WorkflowSchema, WorkflowReads, {}, "rvs_detect_anti_debug")
  BY Unions DEF WorkflowSchema, WorkflowReads, IsRead, Given, Component
<1>7. \A tool \in DOMAIN WorkflowSchema : IsRead(WorkflowSchema, WorkflowReads, UNION FileDemand(tool), tool)
  BY <1>3, <1>6 DEF WorkflowSchema
<1> QED
  BY <1>1, <1>2, <1>4, <1>5, <1>7 DEF Fit

----------------------------------------------------------------------------
(* All tools.                                                              *)

LEMMA QueryToolsFit == Fit(QuerySchema, QueryReads, QueryCarries) /\ DOMAIN QuerySchema = DOMAIN QueryReads
<1>1. DOMAIN QueryReads = DOMAIN InspectSchema \cup DOMAIN RelateSchema
  BY DEF QueryReads, InspectSchema, RelateSchema
<1> QED
  BY <1>1, InspectToolsFit, RelateToolsFit, FitHalves DEF QuerySchema, QueryCarries

LEMMA SameTools ==
  /\ DOMAIN QueryReads = DOMAIN QuerySchema /\ DOMAIN PatchReads = DOMAIN PatchSchema
  /\ DOMAIN DynamicReads = DOMAIN DynamicSchema /\ DOMAIN DebugReads = DOMAIN DebugSchema
  /\ DOMAIN FridaReads = DOMAIN FridaSchema /\ DOMAIN FridaHookReads = DOMAIN FridaHookSchema
  /\ DOMAIN FridaMemoryReads = DOMAIN FridaMemorySchema
<1>1. DOMAIN DebugReads = DOMAIN DebugSchema
  BY DEF DebugReads, DebugSchema, DebugRunSchema, DebugLookSchema, Beside
<1> QED
  BY <1>1, QueryToolsFit DEF PatchReads, PatchSchema, DynamicReads, DynamicSchema, FridaReads,
     FridaSchema, FridaHookReads, FridaHookSchema, FridaMemoryReads, FridaMemorySchema

LEMMA ToolsFit == Fit(Schema, DirectReads, Carries)
<1>1. Fit(Beside(FridaMemorySchema, WorkflowSchema), Beside(FridaMemoryReads, WorkflowReads),
          Beside(FridaMemoryCarries, WorkflowCarries))
  BY FridaMemoryToolsFit, WorkflowToolsFit, SameTools, FitBeside
<1> DEFINE S1 == Beside(FridaMemorySchema, WorkflowSchema)
           R1 == Beside(FridaMemoryReads, WorkflowReads)
           C1 == Beside(FridaMemoryCarries, WorkflowCarries)
           S2 == Beside(FridaHookSchema, S1)
           R2 == Beside(FridaHookReads, R1)
           C2 == Beside(FridaHookCarries, C1)
           S3 == Beside(FridaSchema, S2)
           R3 == Beside(FridaReads, R2)
           C3 == Beside(FridaCarries, C2)
           S4 == Beside(DebugSchema, S3)
           R4 == Beside(DebugReads, R3)
           C4 == Beside(DebugCarries, C3)
           S5 == Beside(DynamicSchema, S4)
           R5 == Beside(DynamicReads, R4)
           C5 == Beside(DynamicCarries, C4)
           S6 == Beside(PatchSchema, S5)
           R6 == Beside(PatchReads, R5)
           C6 == Beside(PatchCarries, C5)
<1> HIDE DEF S1, R1, C1, S2, R2, C2, S3, R3, C3, S4, R4, C4, S5, R5, C5, S6, R6, C6
<1>2. Fit(S2, R2, C2)
  BY <1>1, FridaHookToolsFit, SameTools, FitBeside DEF S1, R1, C1, S2, R2, C2
<1>3. Fit(S3, R3, C3)
  BY <1>2, FridaToolsFit, SameTools, FitBeside DEF S3, R3, C3
<1>4. Fit(S4, R4, C4)
  BY <1>3, DebugToolsFit, SameTools, FitBeside DEF S4, R4, C4
<1>5. Fit(S5, R5, C5)
  BY <1>4, DynamicToolsFit, SameTools, FitBeside DEF S5, R5, C5
<1>6. Fit(S6, R6, C6)
  BY <1>5, PatchToolsFit, SameTools, FitBeside DEF S6, R6, C6
<1>7. Fit(Beside(QuerySchema, S6), Beside(QueryReads, R6), Beside(QueryCarries, C6))
  BY <1>6, QueryToolsFit, SameTools, FitBeside
<1> QED
  BY <1>7 DEF S1, R1, C1, S2, R2, C2, S3, R3, C3, S4, R4, C4, S5, R5, C5, S6, R6, C6,
              Schema, DirectReads, Carries
----------------------------------------------------------------------------
(* The calls that an orchestrator answers.                                 *)

Asked(s) == s.needs \cup s.may

AllRead(S, tool) ==
  Asked(S[tool]) \subseteq (UNION OrchestratedReads[tool].demands) \cup {"file"}
                          \cup OrchestratedReads[tool].others

\* The branch of execute_tool for packages, and the queries behind it, agree with the
\* schemas S.
OrchestratedFit(S) ==
  \A tool \in DOMAIN S :
    /\ Meets(OrchestratedReads[tool].demands, S[tool])
    /\ AllRead(S, tool)
    /\ Asked(S[tool]) \subseteq {"file"} \cup Component \cup NativeCarries[tool]
    /\ tool \in DOMAIN DexCarries =>
         Asked(S[tool]) \subseteq {"file", "compact"} \cup Component \cup DexCarries[tool]

LEMMA InspectOrchestratedFit == OrchestratedFit(InspectSchema)
<1>1. \A tool \in DOMAIN InspectSchema : Meets(OrchestratedReads[tool].demands, InspectSchema[tool])
  BY DEF InspectSchema, OrchestratedReads, Meets
<1>2. /\ AllRead(InspectSchema, "rvs_info")
      /\ AllRead(InspectSchema, "rvs_functions")
      /\ AllRead(InspectSchema, "rvs_disasm")
      /\ AllRead(InspectSchema, "rvs_decompile")
  BY Unions DEF InspectSchema, OrchestratedReads, AllRead, Asked, Component
<1>3. \A tool \in DOMAIN InspectSchema : AllRead(InspectSchema, tool)
  BY <1>2 DEF InspectSchema
<1>4. \A tool \in DOMAIN InspectSchema :
        Asked(InspectSchema[tool]) \subseteq {"file"} \cup Component \cup NativeCarries[tool]
  BY DEF InspectSchema, NativeCarries, Asked
<1>5. \A tool \in DOMAIN InspectSchema \cap DOMAIN DexCarries :
        Asked(InspectSchema[tool]) \subseteq {"file", "compact"} \cup Component \cup DexCarries[tool]
  BY DEF InspectSchema, DexCarries, Asked
<1> QED
  BY <1>1, <1>3, <1>4, <1>5 DEF OrchestratedFit

LEMMA RelateOrchestratedFit == OrchestratedFit(RelateSchema)
<1>1. \A tool \in DOMAIN RelateSchema : Meets(OrchestratedReads[tool].demands, RelateSchema[tool])
  BY DEF RelateSchema, OrchestratedReads, Meets
<1>2. /\ AllRead(RelateSchema, "rvs_flow")
      /\ AllRead(RelateSchema, "rvs_xrefs")
      /\ AllRead(RelateSchema, "rvs_strings")
      /\ AllRead(RelateSchema, "rvs_symbols")
  BY Unions DEF RelateSchema, OrchestratedReads, AllRead, Asked, Component
<1>3. \A tool \in DOMAIN RelateSchema : AllRead(RelateSchema, tool)
  BY <1>2 DEF RelateSchema
<1>4. \A tool \in DOMAIN RelateSchema :
        Asked(RelateSchema[tool]) \subseteq {"file"} \cup Component \cup NativeCarries[tool]
  BY DEF RelateSchema, NativeCarries, Asked
<1>5. \A tool \in DOMAIN RelateSchema \cap DOMAIN DexCarries :
        Asked(RelateSchema[tool]) \subseteq {"file", "compact"} \cup Component \cup DexCarries[tool]
  BY DEF RelateSchema, DexCarries, Asked
<1> QED
  BY <1>1, <1>3, <1>4, <1>5 DEF OrchestratedFit

LEMMA QueriesFit == OrchestratedFit(QuerySchema) /\ DOMAIN QuerySchema = DOMAIN OrchestratedReads
<1>1. DOMAIN OrchestratedReads = DOMAIN InspectSchema \cup DOMAIN RelateSchema
  BY DEF OrchestratedReads, InspectSchema, RelateSchema
<1> QED
  BY <1>1, InspectOrchestratedFit, RelateOrchestratedFit
  DEF OrchestratedFit, AllRead, QuerySchema, Beside

\* Only the queries and the triage let a client choose a component.
NoComponent(S) ==
  \A tool \in DOMAIN S \ {"rvs_agent_triage"} : Asked(S[tool]) \cap Component = {}

LEMMA NoComponentBeside ==
  ASSUME NEW S, NEW S2, NoComponent(S), NoComponent(S2)
  PROVE  NoComponent(Beside(S, S2))
  BY DEF NoComponent, Beside

LEMMA OthersTakeNoComponent ==
  \A tool \in Tools \ (DOMAIN OrchestratedReads \cup {"rvs_agent_triage"}) :
    Asked(Schema[tool]) \cap Component = {}
<1> USE DEF NoComponent, Asked, Component
<1>1. NoComponent(PatchSchema) /\ NoComponent(DynamicSchema)
  BY DEF PatchSchema, DynamicSchema
<1>2. NoComponent(DebugRunSchema) /\ NoComponent(DebugLookSchema)
  BY DEF DebugRunSchema, DebugLookSchema
<1>3. NoComponent(FridaSchema) /\ NoComponent(FridaHookSchema)
  BY DEF FridaSchema, FridaHookSchema
<1>4. NoComponent(FridaMemorySchema) /\ NoComponent(WorkflowSchema)
  BY DEF FridaMemorySchema, WorkflowSchema
<1> DEFINE Rest == Beside(PatchSchema, Beside(DynamicSchema, Beside(DebugSchema,
          Beside(FridaSchema, Beside(FridaHookSchema, Beside(FridaMemorySchema, WorkflowSchema))))))
<1> HIDE DEF NoComponent, Asked, Component
<1>5. NoComponent(Rest)
  <2>1. NoComponent(DebugSchema)
    BY <1>2, NoComponentBeside DEF DebugSchema
  <2>2. NoComponent(Beside(FridaHookSchema, Beside(FridaMemorySchema, WorkflowSchema)))
    BY <1>3, <1>4, NoComponentBeside
  <2>3. NoComponent(Beside(DebugSchema, Beside(FridaSchema, Beside(FridaHookSchema,
                    Beside(FridaMemorySchema, WorkflowSchema)))))
    BY <1>3, <2>1, <2>2, NoComponentBeside
  <2>4. NoComponent(Beside(DynamicSchema, Beside(DebugSchema, Beside(FridaSchema,
                    Beside(FridaHookSchema, Beside(FridaMemorySchema, WorkflowSchema))))))
    BY <1>1, <2>3, NoComponentBeside
  <2> QED
    BY <1>1, <2>4, NoComponentBeside
<1> HIDE DEF Rest
<1>6. Schema = Beside(QuerySchema, Rest)
  BY DEF Schema, Rest
<1> QED
  BY <1>5, <1>6, QueriesFit DEF NoComponent, Beside, Tools

LEMMA QueriesAreTools ==
  /\ DOMAIN OrchestratedReads \subseteq Tools
  /\ \A tool \in DOMAIN OrchestratedReads : Schema[tool] = QuerySchema[tool]
  BY QueriesFit DEF Schema, Tools, Beside

LEMMA NamesAFile ==
  \A tool \in DOMAIN OrchestratedReads \cup {"rvs_agent_triage"} : FileDemand(tool) = {{"file"}}
<1>1. \A tool \in DOMAIN OrchestratedReads : tool \notin NoFileRequired
  BY DEF OrchestratedReads, NoFileRequired, FridaSchema, FridaHookSchema, FridaMemorySchema, WorkflowSchema
<1>2. "rvs_agent_triage" \notin NoFileRequired
  BY DEF NoFileRequired, FridaSchema, FridaHookSchema, FridaMemorySchema, WorkflowSchema
<1> QED
  BY <1>1, <1>2 DEF FileDemand

----------------------------------------------------------------------------
(* What it means for a call.                                               *)

\* A call of a listed tool with arguments that its schema allows names a file wherever
\* one is demanded, and all that its handler demands (execute_tool).
THEOREM AdvertisedIsComplete ==
  ASSUME NEW tool \in Tools, NEW args, Advertised(tool, args)
  PROVE  /\ tool \in DOMAIN DirectReads
         /\ ~Incomplete(FileDemand(tool), args) /\ ~Incomplete(DirectReads[tool].demands, args)
         /\ tool \in DOMAIN OrchestratedReads =>
              ~Incomplete(OrchestratedReads[tool].demands, args)
<1>1. Schema[tool].needs \subseteq args
  BY DEF Advertised
<1>2. Meets(DirectReads[tool].demands, Schema[tool]) /\ Meets(FileDemand(tool), Schema[tool])
  BY ToolsFit DEF Fit, Tools
<1>3. tool \in DOMAIN OrchestratedReads => Meets(OrchestratedReads[tool].demands, Schema[tool])
  BY QueriesFit, QueriesAreTools DEF OrchestratedFit
<1> QED
  BY <1>1, <1>2, <1>3, ToolsFit DEF Meets, Incomplete, Fit, Tools

LEMMA NoneLost ==
  \A tool \in DOMAIN OrchestratedReads \cup {"rvs_agent_triage"} : Lost(tool) = {}
  BY DEF Lost, OrchestratedReads, WorkflowSchema

\* Every argument of such a call is read and carried on, unless another one makes it
\* void: by the method of the harness, where no component is named (execute_tool).  A
\* workflow loses "compact", and nothing else is lost.
THEOREM DirectCallCarriesAll ==
  ASSUME NEW tool \in Tools, NEW args, Advertised(tool, args), args \cap Component = {}
  PROVE  args \ (Void(tool, args) \cup Lost(tool)) \subseteq Carried(DirectReads[tool], tool, args)
<1>1. args \subseteq Given(Schema[tool])
  BY DEF Advertised, Given
<1>2. /\ IsRead(Schema, DirectReads, UNION FileDemand(tool), tool)
      /\ Given(Schema[tool]) \ Lost(tool) \subseteq Carries[tool]
  BY ToolsFit DEF Fit, Tools
<1> QED
  BY <1>1, <1>2 DEF Carried, IsRead

\* And by an orchestrator's query, which hands them on to a method of the harness, or
\* to the DEX reader where that has an answer, which has one form only (query).
THEOREM QueryCarriesAll ==
  ASSUME NEW tool \in DOMAIN OrchestratedReads, NEW args, Advertised(tool, args)
  PROVE  LET read == Carried(OrchestratedReads[tool], tool, args) IN
         /\ args \ Void(tool, args) \subseteq read
         /\ read \subseteq {"file"} \cup Component \cup NativeCarries[tool]
         /\ tool \in DOMAIN DexCarries =>
              read \subseteq {"file", "compact"} \cup Component \cup DexCarries[tool]
<1>1. args \subseteq Asked(Schema[tool]) /\ Asked(Schema[tool]) \subseteq Given(Schema[tool]) \cup Component
  BY DEF Advertised, Asked, Given
<1>2. AllRead(Schema, tool) /\ Given(Schema[tool]) \subseteq Carries[tool]
  BY ToolsFit, QueriesFit, QueriesAreTools, NoneLost DEF Fit, OrchestratedFit, AllRead, Tools
<1>3. "file" \in UNION FileDemand(tool)
  BY NamesAFile, Unions
<1> QED
  BY <1>1, <1>2, <1>3, QueriesFit, QueriesAreTools DEF Carried, AllRead, OrchestratedFit

\* And by the triage of a package.
LEMMA TriageCarriesAll ==
  ASSUME NEW args, Advertised("rvs_agent_triage", args)
  PROVE  /\ ~Incomplete({}, args)
         /\ args \ Void("rvs_agent_triage", args)
              \subseteq Carried(Reads({}, Component), "rvs_agent_triage", args)
<1> DEFINE tool == "rvs_agent_triage"
<1>1. tool \in DOMAIN PatchSchema /\ tool \notin DOMAIN QuerySchema
  BY QueriesFit DEF PatchSchema, OrchestratedReads
<1>2. tool \in Tools /\ Schema[tool] = PatchSchema[tool]
  BY <1>1 DEF Schema, Tools, Beside
<1>3. Schema[tool] = Takes({"file"}, Component)
  BY <1>2 DEF PatchSchema
<1>4. args \subseteq {"file", "compact"} \cup Component
  BY <1>3 DEF Advertised
<1>5. {"file", "compact"} \ Component \subseteq Carries[tool]
  <2>1. Given(Schema[tool]) \subseteq Carries[tool]
    BY <1>2, ToolsFit, NoneLost DEF Fit, Tools
  <2>2. Given(Schema[tool]) = ({"file", "compact"} \cup Component) \ Component
    BY <1>3 DEF Given
  <2> QED
    BY <2>1, <2>2
<1>6. "file" \in UNION FileDemand(tool)
  BY NamesAFile, Unions
<1> QED
  BY <1>4, <1>5, <1>6 DEF Carried, Incomplete

(***************************************************************************)
(* The calls: a thread's own mark, the mark that all threads share, and    *)
(* what an answer owes to the call it answers.                             *)
(***************************************************************************)

USE OrchestrationAssumption

\* A thread that has saved the mark, until it has put it back.
Session == Inside \cup {"enter"}

Locations == {"idle", "method", "tool", "run", "save", "enter"} \cup Inside

Types ==
  /\ flag \in BOOLEAN /\ ctx \in [Threads -> BOOLEAN]
  /\ pc \in [Threads -> Locations]
  /\ saved \in [Threads -> [flag : BOOLEAN, ctx : BOOLEAN]]
  /\ dir \in [Threads -> BOOLEAN]
  /\ call = [t \in Threads |-> call[t]]
  /\ reply = [t \in Threads |-> reply[t]]
  /\ disturbed \in BOOLEAN

\* A thread's own mark is its session's, and was off when the session began.
OwnMark ==
  \A t \in Threads :
    /\ ctx[t] => pc[t] \in Inside
    /\ pc[t] \in Session => ~saved[t].ctx

\* Undisturbed, there is one session at a time; the shared mark is its own and was
\* off when it began.
SharedMark ==
  ~disturbed =>
    /\ \A t, u \in Threads : pc[t] \in Session /\ pc[u] \in Session => t = u
    /\ flag => \E t \in Threads : pc[t] \in Inside
    /\ \A t \in Threads : pc[t] \in Session => ~saved[t].flag

\* No file of a session is there before it is opened or after it is closed.
FilesInSession == \A t \in Threads : dir[t] => pc[t] \in {"query", "close"}

Undisturbed(t) == ~disturbed /\ t \notin crossed /\ call[t].tool \in Queries

\* An undisturbed query that runs rvs itself has no package to open, and an answer
\* is neutral, or a package's, by way of a session.
RightWay ==
  \A t \in Threads : Undisturbed(t) =>
    /\ pc[t] = "run" => ~NeedsOrchestration(call[t])
    /\ reply[t].ok =>
         /\ reply[t].neutral <=> "neutral" \in call[t].args
         /\ NeedsOrchestration(call[t]) => reply[t].how = "orchestrated"

IInv == Types /\ OwnMark /\ SharedMark /\ FilesInSession /\ RightWay

USE DEF Session, Locations, Inside

----------------------------------------------------------------------------
(* Each action keeps the invariant.                                        *)

LEMMA InitHolds == Init => IInv
<1> SUFFICES ASSUME Init PROVE IInv
  OBVIOUS
<1>1. /\ \A t \in Threads : call[t] = Nil /\ reply[t] = NoReply
      /\ call \in [Threads -> {Nil}] /\ reply \in [Threads -> {NoReply}]
  BY DEF Init
<1>2. Types
  BY <1>1 DEF Init, Types
<1> QED
  BY <1>1, <1>2 DEF Init, IInv, OwnMark, SharedMark, FilesInSession, RightWay, NoReply

LEMMA BeginHolds ==
  ASSUME IInv, NEW t \in Threads, NEW c \in CallsOf[t], Begin(t, c)
  PROVE  IInv'
<1> USE DEF Begin, Goto, IInv, Undisturbed
<1>1. c.via \in {"tool", "method"}
  BY DEF Call
<1>2. Types'
  BY <1>1 DEF Types
<1>3. OwnMark' /\ FilesInSession'
  BY <1>1 DEF Types, OwnMark, FilesInSession
<1>4. SharedMark'
  BY <1>1 DEF Types, SharedMark
<1>5. RightWay'
  BY <1>1 DEF Types, RightWay, NoReply
<1> QED
  BY <1>2, <1>3, <1>4, <1>5

\* The way a call goes is chosen by a mark that only another's session could have set.
LEMMA RouteHolds ==
  ASSUME IInv, NEW t \in Threads, Route(t)
  PROVE  IInv'
<1> USE DEF Route, Goto, IInv
<1>1. Types'
  BY DEF Types
<1>2. OwnMark' /\ FilesInSession'
  BY DEF Types, OwnMark, FilesInSession
<1>3. SharedMark'
  BY DEF Types, SharedMark
<1>4. RightWay'
  <2>1. ASSUME Undisturbed(t)', pc'[t] = "run"
        PROVE  ~NeedsOrchestration(call[t])
    <3>1. ~OthersInside(t)
      BY <2>1 DEF Undisturbed
    <3>2. ~flag /\ ~ctx[t]
      BY <2>1, <3>1 DEF Undisturbed, OthersInside, SharedMark, OwnMark, Types
    <3> QED
      BY <2>1, <3>2 DEF Types
  <2>2. \A u \in Threads : Undisturbed(u)' => Undisturbed(u)
    BY DEF Undisturbed
  <2>3. \A u \in Threads \ {t} : pc'[u] = pc[u]
    BY DEF Types
  <2> QED
    BY <2>1, <2>2, <2>3 DEF RightWay
<1> QED
  BY <1>1, <1>2, <1>3, <1>4

LEMMA CheckHolds ==
  ASSUME IInv, NEW t \in Threads, Check(t)
  PROVE  IInv'
<1> USE DEF Goto, IInv
<1>1. PICK l, r :
        /\ l \in {"idle", "save", "run"} /\ pc[t] = "tool" /\ pc' = [pc EXCEPT ![t] = l]
        /\ reply' = [reply EXCEPT ![t] = r]
        /\ r = reply[t] \/ r.ok = FALSE
        /\ l = "run" => ~Orchestrated(call[t])
        /\ UNCHANGED <<flag, ctx, call, saved, dir, calls, disturbed, crossed>>
  <2>1. CASE Refused(call[t])
    BY <2>1 DEF Check, Returns, NoReply
  <2>2. CASE ~Refused(call[t])
    <3>1. reply' = [reply EXCEPT ![t] = reply[t]]
      BY <2>2 DEF Check, Types
    <3> QED
      BY <2>2, <3>1 DEF Check
  <2> QED
    BY <2>1, <2>2
<1>2. Types'
  BY <1>1 DEF Types
<1>3. OwnMark' /\ FilesInSession'
  BY <1>1 DEF Types, OwnMark, FilesInSession
<1>4. SharedMark'
  BY <1>1 DEF Types, SharedMark
<1>5. RightWay'
  BY <1>1 DEF Types, RightWay, Undisturbed, Orchestrated
<1> QED
  BY <1>2, <1>3, <1>4, <1>5

LEMMA RunHolds ==
  ASSUME IInv, NEW t \in Threads, Run(t)
  PROVE  IInv'
<1> USE DEF Goto, Returns, IInv
<1>1. PICK ok, r :
        /\ ok \in BOOLEAN /\ r = Answer(call[t], ok, "direct", Nil,
                 IF ok THEN Carried(DirectReads[call[t].tool], call[t].tool, call[t].args) ELSE {})
        /\ Returns(t, r) /\ pc[t] = "run"
        /\ UNCHANGED <<flag, ctx, call, saved, dir, calls, disturbed, crossed>>
  BY DEF Run
<1>2. ~r.neutral
  BY <1>1 DEF Answer
<1>3. Types'
  BY <1>1 DEF Types
<1>4. OwnMark' /\ FilesInSession'
  BY <1>1 DEF Types, OwnMark, FilesInSession
<1>5. SharedMark'
  BY <1>1 DEF Types, SharedMark
<1>6. RightWay'
  <2>1. Undisturbed(t) => ~NeedsOrchestration(call[t]) /\ "neutral" \notin call[t].args
    BY <1>1 DEF RightWay, NeedsOrchestration, Component
  <2> QED
    BY <1>1, <1>2, <2>1 DEF Types, RightWay, Undisturbed
<1> QED
  BY <1>3, <1>4, <1>5, <1>6

LEMMA SaveHolds ==
  ASSUME IInv, NEW t \in Threads, Save(t)
  PROVE  IInv'
<1> USE DEF Save, Goto, IInv
<1>1. Types'
  BY DEF Types, OthersInside
<1>2. OwnMark' /\ FilesInSession'
  BY DEF Types, OwnMark, FilesInSession
<1>3. SharedMark'
  BY DEF Types, SharedMark, OthersInside
<1>4. RightWay'
  BY DEF Types, RightWay, Undisturbed
<1> QED
  BY <1>1, <1>2, <1>3, <1>4

LEMMA EnterHolds ==
  ASSUME IInv, NEW t \in Threads, Enter(t)
  PROVE  IInv'
<1> USE DEF Enter, Goto, IInv
<1>1. Types'
  BY DEF Types
<1>2. OwnMark' /\ FilesInSession'
  BY DEF Types, OwnMark, FilesInSession
<1>3. SharedMark'
  BY DEF Types, SharedMark
<1>4. RightWay'
  BY DEF Types, RightWay, Undisturbed
<1> QED
  BY <1>1, <1>2, <1>3, <1>4

LEMMA IngestHolds ==
  ASSUME IInv, NEW t \in Threads, Ingest(t)
  PROVE  IInv'
<1> USE DEF Goto, IInv
<1>1. pc[t] = "ingest" /\ UNCHANGED <<ctx, call, saved, calls, disturbed, crossed>>
  BY DEF Ingest
<1>2. CASE Holds[call[t].target].broken
  <2>1. /\ reply' = [reply EXCEPT ![t] = [NoReply EXCEPT !.how = "error"]]
        /\ pc' = [pc EXCEPT ![t] = "restore"] /\ UNCHANGED <<flag, dir>>
    BY <1>2 DEF Ingest
  <2>2. Types' /\ OwnMark' /\ FilesInSession'
    BY <1>1, <2>1 DEF Types, OwnMark, FilesInSession
  <2>3. SharedMark'
    BY <1>1, <2>1 DEF Types, SharedMark
  <2>4. RightWay'
    BY <1>1, <2>1 DEF Types, RightWay, Undisturbed, NoReply
  <2> QED
    BY <2>2, <2>3, <2>4
<1>3. CASE ~Holds[call[t].target].broken
  <2>1. /\ dir' = [dir EXCEPT ![t] = Holds[call[t].target].type = "apk"]
        /\ flag' = TRUE /\ pc' = [pc EXCEPT ![t] = "query"] /\ reply' = reply
    BY <1>3 DEF Ingest
  <2>2. Types' /\ OwnMark' /\ FilesInSession'
    BY <1>1, <2>1 DEF Types, OwnMark, FilesInSession
  <2>3. SharedMark'
    BY <1>1, <2>1 DEF Types, SharedMark
  <2>4. RightWay'
    BY <1>1, <2>1 DEF Types, RightWay, Undisturbed
  <2> QED
    BY <2>2, <2>3, <2>4
<1> QED
  BY <1>2, <1>3

LEMMA QueryHolds ==
  ASSUME IInv, NEW t \in Threads, Query(t)
  PROVE  IInv'
<1> USE DEF Goto, IInv
<1>1. PICK ok, on, carried, r :
        /\ ok \in BOOLEAN /\ r = Answer(call[t], ok, "orchestrated", on, carried)
        /\ pc[t] = "query" /\ reply' = [reply EXCEPT ![t] = r]
        /\ Goto(t, "close")
        /\ UNCHANGED <<flag, ctx, call, saved, dir, calls, disturbed, crossed>>
  BY DEF Query
<1>2. r.how = "orchestrated" /\ (r.ok <=> ok)
      /\ (r.neutral <=> ok /\ "neutral" \in call[t].args)
  BY <1>1 DEF Answer
<1>3. Types'
  BY <1>1 DEF Types
<1>4. OwnMark' /\ FilesInSession'
  BY <1>1 DEF Types, OwnMark, FilesInSession
<1>5. SharedMark'
  BY <1>1 DEF Types, SharedMark
<1>6. RightWay'
  BY <1>1, <1>2 DEF Types, RightWay, Undisturbed
<1> QED
  BY <1>3, <1>4, <1>5, <1>6

LEMMA CloseHolds ==
  ASSUME IInv, NEW t \in Threads, Close(t)
  PROVE  IInv'
<1> USE DEF Close, Goto, IInv
<1>1. Types'
  BY DEF Types
<1>2. OwnMark' /\ FilesInSession'
  BY DEF Types, OwnMark, FilesInSession
<1>3. SharedMark'
  BY DEF Types, SharedMark
<1>4. RightWay'
  BY DEF Types, RightWay, Undisturbed
<1> QED
  BY <1>1, <1>2, <1>3, <1>4

LEMMA RestoreHolds ==
  ASSUME IInv, NEW t \in Threads, Restore(t)
  PROVE  IInv'
<1> USE DEF Restore, Goto, IInv
<1>1. Types'
  BY DEF Types
<1>2. OwnMark' /\ FilesInSession'
  BY DEF Types, OwnMark, FilesInSession
<1>3. SharedMark'
  BY DEF Types, OwnMark, SharedMark
<1>4. RightWay'
  BY DEF Types, RightWay, Undisturbed
<1> QED
  BY <1>1, <1>2, <1>3, <1>4

LEMMA AdoptHolds == IInv /\ Adopt => IInv'
  BY DEF Adopt, IInv, Types, OwnMark, SharedMark, FilesInSession, RightWay, Undisturbed

LEMMA StepHolds ==
  ASSUME IInv, NEW t \in Threads, Step(t)
  PROVE  IInv'
  BY RouteHolds, CheckHolds, RunHolds, SaveHolds, EnterHolds, IngestHolds, QueryHolds,
     CloseHolds, RestoreHolds DEF Step

LEMMA StutterHolds == IInv /\ UNCHANGED vars => IInv'
  BY DEF vars, IInv, Types, OwnMark, SharedMark, FilesInSession, RightWay, Undisturbed

LEMMA InvariantSuffices == IInv => FlagRestored /\ AnsweredTidily
  BY DEF IInv, Types, OwnMark, SharedMark, FilesInSession, RightWay, Undisturbed,
         FlagRestored, AnsweredTidily, Succeeded

----------------------------------------------------------------------------
(* What a call asks and what its caller hears: the inductive invariant of  *)
(* the types, of the schemas and of the component that answers.            *)

Envelope == [ok : BOOLEAN, how : {"none", "refused", "error", "direct", "orchestrated"},
             on : Part \cup {Nil}, neutral : BOOLEAN, carried : SUBSET STRING]

\* The part of TypeOK that Types leaves out.
Ledger ==
  /\ \A t \in Threads :
       /\ call[t] \in CallsOf[t] \cup {Nil}
       /\ pc[t] # "idle" \/ reply[t].ok => call[t] # Nil
  /\ reply \in [Threads -> Envelope]
  /\ calls \in [Threads -> Nat] /\ \A t \in Threads : calls[t] <= MaxCalls[t]
  /\ crossed \subseteq Threads

\* A call of execute_tool keeps to the way that its arguments choose.
OnItsWay(c, l) ==
  c.via = "tool" =>
    /\ l # "method" /\ (l = "run" => ~Orchestrated(c))
    /\ l \in {"save"} \cup Session => Orchestrated(c)

\* A call that the schemas allow.
Allowed(c) ==
  /\ c.tool \in Tools /\ c.shape # "other" /\ Advertised(c.tool, c.args)
  /\ ~c.bad /\ ~Contradictory(c.tool, c.args)

\* The component that a call asks about.
Asks(c, on) ==
  /\ on \in ToSet(Parts(c.target, Default(c.abi)))
  /\ c.type # Nil => on.type = c.type
  /\ c.abi # Nil /\ on.type # "dex" => on.abi = c.abi

Heard(c, r) ==
  /\ c.via = "tool" /\ Allowed(c) =>
       r.how # "refused" /\ (r.ok => Owed(c, r.on) \subseteq r.carried)
  /\ r.ok /\ r.how = "orchestrated" /\ c.tool \in Queries => Asks(c, r.on)

JInv ==
  /\ Ledger
  /\ \A t \in Threads : call[t] # Nil => OnItsWay(call[t], pc[t]) /\ Heard(call[t], reply[t])

\* A set of numbers has a least one.
LEMMA LeastOf ==
  ASSUME NEW S \in SUBSET Nat, S # {}
  PROVE  \E n \in S : \A m \in S : n <= m
<1> DEFINE R == {ss \in Nat \X Nat : ss[1] < ss[2]}
<1>1. IsWellFoundedOn(R, Nat)
  BY NatLessThanWellFounded DEF OpToRel
<1> HIDE DEF R
<1>2. PICK n \in S : \A m \in S : ~(<<m, n>> \in R)
  BY <1>1, WFMin
<1>3. \A m \in S : ~(m < n)
  BY <1>2 DEF R
<1> QED
  BY <1>3

LEMMA FirstIsOne ==
  ASSUME NEW parts, DOMAIN parts \subseteq Nat, NEW wanted
  PROVE  \/ First(parts, wanted) = Nil
         \/ First(parts, wanted) \in wanted \cap ToSet(parts)
<1> DEFINE found == {i \in DOMAIN parts : parts[i] \in wanted}
<1>1. CASE found = {}
  BY <1>1 DEF First
<1>2. CASE found # {}
  <2>1. (CHOOSE i \in found : \A j \in found : i <= j) \in found
    BY <1>2, LeastOf
  <2>2. First(parts, wanted) = parts[CHOOSE i \in found : \A j \in found : i <= j]
    BY <1>2 DEF First
  <2> QED
    BY <2>1, <2>2 DEF ToSet
<1> QED
  BY <1>1, <1>2

\* A component that is chosen is one of the package's, of the type asked for and, for
\* native code, of the ABI asked for.
LEMMA ComponentIsOne ==
  ASSUME NEW parts, DOMAIN parts \subseteq Nat, NEW abi, NEW type
  PROVE  LET c == GetComponent(parts, abi, type) IN
         \/ c = Nil
         \/ c \in ToSet(parts) \cap OfType(type) /\ (type # "dex" /\ abi # Nil => c.abi = abi)
<1>1. CASE type = "dex"
  BY <1>1, FirstIsOne DEF GetComponent
<1>2. CASE type # "dex" /\ abi # Nil
  <2> DEFINE wanted == {c \in OfType(type) : c.abi = abi}
  <2>1. GetComponent(parts, abi, type) = First(parts, wanted)
    BY <1>2 DEF GetComponent
  <2>2. First(parts, wanted) = Nil \/ First(parts, wanted) \in wanted \cap ToSet(parts)
    BY FirstIsOne
  <2> QED
    BY <2>1, <2>2
<1>3. CASE type # "dex" /\ abi = Nil
  <2>1. PICK wanted \in SUBSET OfType(type) : PreferredIn(parts, OfType(type)) = First(parts, wanted)
    BY DEF PreferredIn
  <2>2. First(parts, wanted) = Nil \/ First(parts, wanted) \in wanted \cap ToSet(parts)
    BY FirstIsOne
  <2>3. GetComponent(parts, abi, type) = First(parts, wanted)
    BY <1>3, <2>1 DEF GetComponent
  <2> QED
    BY <1>3, <2>2, <2>3
<1> QED
  BY <1>1, <1>2, <1>3

LEMMA PartsArePart ==
  ASSUME NEW target \in Targets, NEW default \in {"x86_64", "arm64-v8a", "armeabi-v7a", Nil}
  PROVE  Parts(target, default) \in Seq(Part)
<1>1. Holds[target].parts \in Seq(Part)
  OBVIOUS
<1> DEFINE s == Holds[target].parts
<1>2. \A i \in 1 .. Len(s) : Parts(target, default)[i] \in Part
  <2> TAKE i \in 1 .. Len(s)
  <2>1. s[i] \in Part
    BY <1>1
  <2> HIDE DEF s
  <2>2. [s[i] EXCEPT !.abi = default] \in Part
    BY <2>1 DEF Part
  <2>3. Parts(target, default)[i] \in {s[i], [s[i] EXCEPT !.abi = default]}
    BY <1>1 DEF Parts, s
  <2> QED
    BY <2>1, <2>2, <2>3
<1>3. Parts(target, default) = [i \in 1 .. Len(s) |-> Parts(target, default)[i]]
  BY <1>1 DEF Parts
<1>4. Len(s) \in Nat
  BY <1>1
<1> HIDE DEF s
<1>5. [i \in 1 .. Len(s) |-> Parts(target, default)[i]] \in Seq(Part)
  BY <1>2, <1>4, IsASeq
<1> QED
  BY <1>3, <1>5

Abis == {"x86_64", "arm64-v8a", "armeabi-v7a", Nil}

LEMMA DefaultIsAbi == \A abi \in Abis : Default(abi) \in Abis
  BY DEF Abis, Default, DefaultAbi

LEMMA FirstOfIsOne ==
  ASSUME NEW parts \in Seq(Part), NEW choices \in Seq(Part \cup {Nil}),
         ToSet(choices) \subseteq ToSet(parts) \cup {Nil}
  PROVE  FirstOf(choices) \in (ToSet(parts) \cap Part) \cup {Nil}
<1>1. DOMAIN choices \subseteq Nat
  OBVIOUS
<1> QED
  BY <1>1, FirstIsOne DEF FirstOf

\* query() picks the component that the call asks about, or none.
LEMMA ResolveAsked ==
  ASSUME NEW c \in Call
  PROVE  Resolve(c) = Nil \/ (Resolve(c) \in Part /\ Asks(c, Resolve(c)))
<1> DEFINE parts == Parts(c.target, Default(c.abi))
           native == GetComponent(parts, Nil, "elf_so")
           dex == GetComponent(parts, Nil, "dex")
           preferred == GetComponent(parts, DefaultAbi, "elf_so")
<1>1. parts \in Seq(Part)
  BY PartsArePart, DefaultIsAbi DEF Call, Abis
<1> HIDE DEF parts
<1>2. DOMAIN parts \subseteq Nat /\ ToSet(parts) \subseteq Part
  BY <1>1 DEF ToSet
<1>3. /\ native \in ToSet(parts) \cup {Nil} /\ dex \in ToSet(parts) \cup {Nil}
      /\ preferred \in ToSet(parts) \cup {Nil}
  BY <1>2, ComponentIsOne
<1>4. dex = Nil \/ dex \in ToSet(parts) \cap OfType("dex")
  BY <1>2, ComponentIsOne
<1>5. LET r == GetComponent(parts, c.abi, "elf_so") IN
      \/ r = Nil
      \/ r \in ToSet(parts) \cap OfType("elf_so") /\ (c.abi # Nil => r.abi = c.abi)
  BY <1>2, ComponentIsOne
<1>6. FirstOf(<<preferred, native, dex>>) \in (ToSet(parts) \cap Part) \cup {Nil}
  <2> DEFINE choices == <<preferred, native, dex>>
  <2>1. choices \in Seq(Part \cup {Nil}) /\ ToSet(choices) \subseteq ToSet(parts) \cup {Nil}
    BY <1>2, <1>3 DEF ToSet
  <2> QED
    BY <1>1, <2>1, FirstOfIsOne
<1>7. FirstOf(<<native>> \o parts) \in (ToSet(parts) \cap Part) \cup {Nil}
  <2> DEFINE choices == <<native>> \o parts
  <2>1. choices \in Seq(Part \cup {Nil}) /\ ToSet(choices) \subseteq ToSet(parts) \cup {Nil}
    BY <1>1, <1>2, <1>3 DEF ToSet
  <2> QED
    BY <1>1, <2>1, FirstOfIsOne
<1> HIDE DEF native, dex, preferred
<1>8. Resolve(c) = CASE c.type = "dex" -> dex
       [] c.type = "elf_so" -> GetComponent(parts, c.abi, "elf_so")
       [] c.type = Nil /\ c.abi # Nil -> GetComponent(parts, c.abi, "elf_so")
       [] c.type = Nil /\ c.abi = Nil /\ Holds[c.target].type = "apk" ->
            FirstOf(<<preferred, native, dex>>)
       [] c.type = Nil /\ c.abi = Nil /\ Holds[c.target].type = "dex" -> dex
       [] OTHER -> FirstOf(<<native>> \o parts)
  BY DEF Resolve, parts, native, dex, preferred
<1>9. CASE c.type = "dex"
  <2>1. Resolve(c) = dex
    BY <1>8, <1>9
  <2> QED
    BY <1>2, <1>4, <1>9, <2>1 DEF Asks, parts, OfType
<1>10. CASE c.type = "elf_so" \/ (c.type = Nil /\ c.abi # Nil)
  <2>1. Resolve(c) = GetComponent(parts, c.abi, "elf_so")
    BY <1>8, <1>10
  <2> QED
    BY <1>2, <1>5, <1>10, <2>1 DEF Asks, parts, OfType
<1>11. CASE c.type = Nil /\ c.abi = Nil
  <2>1. Resolve(c) \in ToSet(parts) \cup {Nil}
    BY <1>3, <1>6, <1>7, <1>8, <1>11
  <2> QED
    BY <1>2, <1>11, <2>1 DEF Asks, parts
<1> QED
  BY <1>9, <1>10, <1>11 DEF Call

LEMMA TriageResolves ==
  ASSUME NEW c \in Call
  PROVE  ResolveTriage(c) \in Part \cup {Nil}
<1> DEFINE parts == Parts(c.target, Default(c.abi))
           wanted == GetComponent(parts, Default(c.abi), IF c.type = Nil THEN "elf_so" ELSE c.type)
           choices == <<wanted>> \o parts
<1>1. parts \in Seq(Part)
  BY PartsArePart, DefaultIsAbi DEF Call, Abis
<1>2. wanted \in ToSet(parts) \cup {Nil}
  <2> HIDE DEF parts
  <2> QED
    BY <1>1, ComponentIsOne
<1> HIDE DEF parts, wanted
<1>3. choices \in Seq(Part \cup {Nil}) /\ ToSet(choices) \subseteq ToSet(parts) \cup {Nil}
  BY <1>1, <1>2 DEF ToSet
<1>4. ResolveTriage(c) = FirstOf(choices)
  BY DEF ResolveTriage, parts, wanted
<1> QED
  BY <1>1, <1>3, <1>4, FirstOfIsOne

\* What a call that the schemas allow meets on its way: it is not refused, and whoever
\* answers is handed all it was given.
LEMMA AllowedNotRefused ==
  ASSUME NEW t \in Threads, NEW c \in CallsOf[t], Allowed(c)
  PROVE  ~Refused(c)
<1>1. c.tool \in Tools /\ Advertised(c.tool, c.args)
  BY DEF Allowed
<1>2. /\ c.tool \in DOMAIN DirectReads
      /\ ~Incomplete(FileDemand(c.tool), c.args) /\ ~Incomplete(DirectReads[c.tool].demands, c.args)
      /\ c.tool \in Queries => ~Incomplete(OrchestratedReads[c.tool].demands, c.args)
  BY <1>1, AdvertisedIsComplete DEF Queries
<1>3. ~Incomplete(ReadsOf(c).demands, c.args)
  BY <1>2 DEF ReadsOf, Incomplete, Reads
<1>4. c.shape = "none" => c.tool \in NoFileRequired
  <2>1. c.shape = "none" => c.args = {}
    OBVIOUS
  <2> QED
    BY <1>2, <2>1 DEF Incomplete, FileDemand
<1> QED
  BY <1>2, <1>3, <1>4 DEF Refused, Allowed

LEMMA DirectHearsAll ==
  ASSUME NEW c, Allowed(c), ~Orchestrated(c)
  PROVE  Owed(c, Nil) \subseteq Carried(DirectReads[c.tool], c.tool, c.args)
<1>1. c.tool \in Tools /\ Advertised(c.tool, c.args)
  BY DEF Allowed
<1>2. c.args \cap Component = {}
  <2>1. CASE c.tool \in DOMAIN OrchestratedReads \cup {"rvs_agent_triage"}
    BY <2>1 DEF Orchestrated, NeedsOrchestration, Queries
  <2>2. CASE c.tool \notin DOMAIN OrchestratedReads \cup {"rvs_agent_triage"}
    BY <1>1, <2>2, OthersTakeNoComponent DEF Advertised, Asked
  <2> QED
    BY <2>1, <2>2
<1> QED
  BY <1>1, <1>2, DirectCallCarriesAll DEF Owed, Formless, Lost

LEMMA OrchestratorHearsAll ==
  ASSUME NEW c, NEW on, Allowed(c), Orchestrated(c), c.tool \in Queries => on # Nil /\ Routable(c, on)
  PROVE  Owed(c, on) \subseteq HandedOn(c, on)
<1>1. Advertised(c.tool, c.args)
  BY DEF Allowed
<1>2. CASE c.tool \in Queries
  <2> DEFINE read == Carried(OrchestratedReads[c.tool], c.tool, c.args)
  <2>1. /\ c.args \ Void(c.tool, c.args) \subseteq read
        /\ read \subseteq {"file"} \cup Component \cup NativeCarries[c.tool]
        /\ c.tool \in DOMAIN DexCarries =>
             read \subseteq {"file", "compact"} \cup Component \cup DexCarries[c.tool]
    BY <1>1, <1>2, QueryCarriesAll DEF Queries
  <2>2. Carried(ReadsOf(c), c.tool, c.args) = read
    BY <1>2 DEF ReadsOf
  <2> HIDE DEF read
  <2>3. CASE on.type = "dex"
    <3>1. c.tool \in DOMAIN DexCarries /\ on # Nil
      BY <1>2, <2>3 DEF Routable
    <3>2. HandedOn(c, on) = read \cap ({"file"} \cup Component \cup DexCarries[c.tool])
      BY <1>2, <2>2, <2>3 DEF HandedOn
    <3>3. Formless(c, on)
      BY <1>2, <2>3, <3>1 DEF Formless
    <3> QED
      BY <2>1, <3>1, <3>2, <3>3 DEF Owed
  <2>4. CASE on.type # "dex"
    <3>1. HandedOn(c, on) = read \cap ({"file"} \cup Component \cup NativeCarries[c.tool])
      BY <1>2, <2>2, <2>4 DEF HandedOn
    <3> QED
      BY <2>1, <3>1 DEF Owed
  <2> QED
    BY <2>3, <2>4
<1>3. CASE c.tool \notin Queries
  <2>1. c.tool = "rvs_agent_triage" /\ ReadsOf(c) = Reads({}, Component)
    BY <1>3 DEF Orchestrated, ReadsOf
  <2> QED
    BY <1>1, <1>3, <2>1, TriageCarriesAll DEF HandedOn, Owed
<1> QED
  BY <1>2, <1>3

\* A call goes on to l, with r for its caller.
LEMMA CallGoesOn ==
  ASSUME Types, JInv, NEW t \in Threads, NEW l, NEW r \in Envelope,
         pc[t] # "idle", pc' = [pc EXCEPT ![t] = l], reply' = [reply EXCEPT ![t] = r],
         UNCHANGED <<call, calls>>, crossed' \subseteq Threads,
         OnItsWay(call[t], l), Heard(call[t], r)
  PROVE  JInv'
<1>1. Ledger'
  BY DEF JInv, Ledger, Types
<1>2. \A u \in Threads : pc'[u] = (IF u = t THEN l ELSE pc[u]) /\ reply'[u] = (IF u = t THEN r ELSE reply[u])
  BY DEF JInv, Ledger, Types
<1> QED
  BY <1>1, <1>2 DEF JInv

\* The same, when its caller hears nothing new.
LEMMA CallMoves ==
  ASSUME Types, JInv, NEW t \in Threads, NEW l,
         pc[t] # "idle", pc' = [pc EXCEPT ![t] = l],
         UNCHANGED <<call, reply, calls>>, crossed' \subseteq Threads, OnItsWay(call[t], l)
  PROVE  JInv'
<1>1. reply[t] \in Envelope /\ reply' = [reply EXCEPT ![t] = reply[t]]
  BY DEF JInv, Ledger, Types
<1>2. Heard(call[t], reply[t])
  BY DEF JInv, Ledger
<1> QED
  BY <1>1, <1>2, CallGoesOn

LEMMA InitMeans == Init => JInv
<1> SUFFICES ASSUME Init PROVE JInv
  OBVIOUS
<1>1. call \in [Threads -> {Nil}] /\ reply \in [Threads -> {NoReply}] /\ NoReply \in Envelope
  BY DEF Init, NoReply, Envelope
<1>2. \A t \in Threads : call[t] = Nil /\ reply[t] = NoReply /\ ~NoReply.ok
  BY <1>1 DEF NoReply
<1>3. /\ pc = [t \in Threads |-> "idle"] /\ crossed = {} /\ calls = [t \in Threads |-> 0]
  BY DEF Init
<1>4. Ledger
  BY <1>1, <1>2, <1>3 DEF Ledger
<1> QED
  BY <1>2, <1>4 DEF JInv

LEMMA BeginMeans ==
  ASSUME IInv, JInv, NEW t \in Threads, NEW c \in CallsOf[t], Begin(t, c)
  PROVE  JInv'
<1> USE DEF Begin, Goto
<1>1. /\ \A u \in Threads : /\ pc'[u] = IF u = t THEN c.via ELSE pc[u]
                            /\ call'[u] = IF u = t THEN c ELSE call[u]
                            /\ reply'[u] = IF u = t THEN NoReply ELSE reply[u]
      /\ c \in Call /\ c.via \in {"tool", "method"}
  BY DEF IInv, Types, JInv, Ledger, Call
<1>2. NoReply \in Envelope /\ Heard(c, NoReply) /\ OnItsWay(c, c.via)
  BY <1>1 DEF NoReply, Envelope, Heard, OnItsWay
<1>3. Ledger'
  <2>1. reply' \in [Threads -> Envelope] /\ calls' \in [Threads -> Nat]
    BY <1>2 DEF JInv, Ledger
  <2>2. \A u \in Threads : calls'[u] <= MaxCalls[u]
    BY DEF JInv, Ledger
  <2> QED
    BY <1>1, <2>1, <2>2 DEF JInv, Ledger
<1> QED
  BY <1>1, <1>2, <1>3 DEF JInv

LEMMA RouteMeans ==
  ASSUME IInv, JInv, NEW t \in Threads, Route(t)
  PROVE  JInv'
<1>1. PICK l : pc' = [pc EXCEPT ![t] = l]
  BY DEF Route, Goto
<1>2. /\ pc[t] = "method" /\ UNCHANGED <<call, reply, calls>>
      /\ crossed' \subseteq crossed \cup {t}
  BY DEF Route
<1>3. OnItsWay(call[t], l)
  BY <1>2 DEF JInv, Ledger, OnItsWay
<1> QED
  BY <1>1, <1>2, <1>3, CallMoves DEF IInv, JInv, Ledger

LEMMA CheckMeans ==
  ASSUME IInv, JInv, NEW t \in Threads, Check(t)
  PROVE  JInv'
<1>1. /\ pc[t] = "tool" /\ call[t] \in CallsOf[t] /\ crossed' \subseteq Threads
      /\ UNCHANGED <<call, calls>>
  BY DEF Check, JInv, Ledger
<1>2. CASE Refused(call[t])
  <2> DEFINE r == [NoReply EXCEPT !.how = "refused"]
  <2>1. pc' = [pc EXCEPT ![t] = "idle"] /\ reply' = [reply EXCEPT ![t] = r]
    BY <1>2 DEF Check, Returns, Goto
  <2>2. r \in Envelope /\ r.ok = FALSE
    BY DEF Envelope, NoReply
  <2>3. Heard(call[t], r)
    BY <1>1, <1>2, <2>2, AllowedNotRefused DEF Heard
  <2>4. OnItsWay(call[t], "idle")
    BY DEF OnItsWay
  <2> HIDE DEF r
  <2> QED
    BY <1>1, <2>1, <2>2, <2>3, <2>4, CallGoesOn DEF IInv
<1>3. CASE ~Refused(call[t])
  <2> DEFINE l == IF Orchestrated(call[t]) THEN "save" ELSE "run"
  <2>1. pc' = [pc EXCEPT ![t] = l] /\ reply' = reply
    BY <1>3 DEF Check, Goto
  <2>2. OnItsWay(call[t], l)
    BY DEF OnItsWay
  <2> HIDE DEF l
  <2> QED
    BY <1>1, <2>1, <2>2, CallMoves DEF IInv
<1> QED
  BY <1>2, <1>3

LEMMA RunMeans ==
  ASSUME IInv, JInv, NEW t \in Threads, Run(t)
  PROVE  JInv'
<1> DEFINE c == call[t]
           hears(ok) == IF ok THEN Carried(DirectReads[c.tool], c.tool, c.args) ELSE {}
<1>1. PICK ok \in BOOLEAN : Returns(t, Answer(c, ok, "direct", Nil, hears(ok)))
  BY DEF Run
<1> DEFINE r == Answer(c, ok, "direct", Nil, hears(ok))
<1>2. /\ pc[t] = "run" /\ c \in CallsOf[t] /\ crossed' \subseteq Threads /\ OnItsWay(c, "run")
      /\ UNCHANGED <<call, calls>>
  BY DEF Run, JInv, Ledger
<1>3. hears(ok) \in SUBSET STRING
  <2>1. c.args \in SUBSET STRING
    BY <1>2 DEF Call
  <2> QED
    BY <2>1 DEF Carried
<1>4. r \in Envelope /\ r.ok = ok /\ r.how = "direct" /\ r.carried = hears(ok) /\ r.on = Nil
  BY <1>3 DEF Answer, Envelope
<1>5. Heard(c, r)
  <2>1. ok /\ c.via = "tool" /\ Allowed(c) => Owed(c, Nil) \subseteq hears(ok)
    BY <1>2, DirectHearsAll DEF OnItsWay
  <2> HIDE DEF hears, r
  <2> QED
    BY <1>4, <2>1 DEF Heard
<1>6. OnItsWay(c, "idle")
  BY DEF OnItsWay
<1>7. pc' = [pc EXCEPT ![t] = "idle"] /\ reply' = [reply EXCEPT ![t] = r]
  BY <1>1 DEF Returns, Goto
<1> HIDE DEF r
<1> QED
  BY <1>2, <1>4, <1>5, <1>6, <1>7, CallGoesOn DEF IInv

LEMMA SaveMeans ==
  ASSUME IInv, JInv, NEW t \in Threads, Save(t)
  PROVE  JInv'
  BY CallMoves DEF Save, Goto, IInv, JInv, Ledger, OnItsWay

LEMMA EnterMeans ==
  ASSUME IInv, JInv, NEW t \in Threads, Enter(t)
  PROVE  JInv'
  BY CallMoves DEF Enter, Goto, IInv, JInv, Ledger, OnItsWay

LEMMA IngestMeans ==
  ASSUME IInv, JInv, NEW t \in Threads, Ingest(t)
  PROVE  JInv'
<1>1. /\ pc[t] = "ingest" /\ call[t] # Nil /\ crossed' \subseteq Threads
      /\ UNCHANGED <<call, calls>>
  BY DEF Ingest, JInv, Ledger
<1>2. OnItsWay(call[t], "restore") /\ OnItsWay(call[t], "query")
  BY <1>1 DEF JInv, OnItsWay
<1>3. CASE Holds[call[t].target].broken
  <2> DEFINE r == [NoReply EXCEPT !.how = "error"]
  <2>1. pc' = [pc EXCEPT ![t] = "restore"] /\ reply' = [reply EXCEPT ![t] = r]
    BY <1>3 DEF Ingest, Goto
  <2>2. r \in Envelope /\ Heard(call[t], r)
    BY DEF Envelope, NoReply, Heard
  <2> HIDE DEF r
  <2> QED
    BY <1>1, <1>2, <2>1, <2>2, CallGoesOn DEF IInv
<1>4. CASE ~Holds[call[t].target].broken
  <2>1. pc' = [pc EXCEPT ![t] = "query"] /\ reply' = reply
    BY <1>4 DEF Ingest, Goto
  <2> QED
    BY <1>1, <1>2, <2>1, CallMoves DEF IInv
<1> QED
  BY <1>3, <1>4

LEMMA QueryMeans ==
  ASSUME IInv, JInv, NEW t \in Threads, Query(t)
  PROVE  JInv'
<1> DEFINE c == call[t]
           on == IF c.tool = "rvs_agent_triage" THEN ResolveTriage(c) ELSE Resolve(c)
           hears(ok) == IF ok THEN HandedOn(c, on) ELSE {}
<1>1. PICK ok \in BOOLEAN :
        /\ ok /\ c.tool \in Queries => on # Nil /\ Routable(c, on)
        /\ reply' = [reply EXCEPT ![t] = Answer(c, ok, "orchestrated", on, hears(ok))]
  BY DEF Query
<1> DEFINE r == Answer(c, ok, "orchestrated", on, hears(ok))
<1>2. /\ pc[t] = "query" /\ c \in CallsOf[t] /\ c \in Call /\ crossed' \subseteq Threads
      /\ pc' = [pc EXCEPT ![t] = "close"] /\ UNCHANGED <<call, calls>>
  BY DEF Query, Goto, JInv, Ledger
<1>3. OnItsWay(c, "query") /\ OnItsWay(c, "close")
  BY <1>2 DEF JInv, OnItsWay
<1>4. c.tool \in Queries => Resolve(c) = on
  BY DEF Queries, OrchestratedReads
<1>5. on \in Part \cup {Nil} /\ (ok /\ c.tool \in Queries => Asks(c, on))
  BY <1>1, <1>2, <1>4, ResolveAsked, TriageResolves
<1> HIDE DEF on
<1>6. hears(ok) \in SUBSET STRING
  <2>1. c.args \in SUBSET STRING
    BY <1>2 DEF Call
  <2>2. HandedOn(c, on) \subseteq c.args
    BY DEF HandedOn, Carried
  <2> QED
    BY <2>1, <2>2
<1>7. r \in Envelope /\ r.ok = ok /\ r.how = "orchestrated" /\ r.carried = hears(ok) /\ r.on = on
  BY <1>5, <1>6 DEF Answer, Envelope
<1>8. Heard(c, r)
  <2>1. ok /\ c.via = "tool" /\ Allowed(c) => Owed(c, on) \subseteq hears(ok)
    BY <1>1, <1>3, OrchestratorHearsAll DEF OnItsWay
  <2> HIDE DEF hears, r
  <2> QED
    BY <1>5, <1>7, <2>1 DEF Heard
<1>9. reply' = [reply EXCEPT ![t] = r]
  BY <1>1
<1> HIDE DEF r
<1> QED
  BY <1>2, <1>3, <1>7, <1>8, <1>9, CallGoesOn DEF IInv

LEMMA CloseMeans ==
  ASSUME IInv, JInv, NEW t \in Threads, Close(t)
  PROVE  JInv'
  BY CallMoves DEF Close, Goto, IInv, JInv, Ledger, OnItsWay

LEMMA RestoreMeans ==
  ASSUME IInv, JInv, NEW t \in Threads, Restore(t)
  PROVE  JInv'
  BY CallMoves DEF Restore, Goto, IInv, JInv, Ledger, OnItsWay

LEMMA AdoptMeans == JInv /\ Adopt => JInv'
  BY DEF Adopt, JInv, Ledger

LEMMA StepMeans ==
  ASSUME IInv, JInv, NEW t \in Threads, Step(t)
  PROVE  JInv'
  BY RouteMeans, CheckMeans, RunMeans, SaveMeans, EnterMeans, IngestMeans, QueryMeans,
     CloseMeans, RestoreMeans DEF Step

LEMMA StutterMeans == JInv /\ UNCHANGED vars => JInv'
  BY DEF vars, JInv, Ledger

LEMMA MeaningSuffices == IInv /\ JInv => TypeOK /\ AnswersAsked /\ SchemaHonoured
<1> SUFFICES ASSUME IInv, JInv PROVE TypeOK /\ AnswersAsked /\ SchemaHonoured
  OBVIOUS
<1>1. TypeOK
  BY DEF IInv, Types, JInv, Ledger, Envelope, TypeOK
<1>2. AnsweredByComponent
  <2> SUFFICES ASSUME NEW t \in Threads, Succeeded(t), NeedsOrchestration(call[t])
               PROVE  Asks(call[t], reply[t].on)
    BY DEF AnsweredByComponent, Asks
  <2>1. reply[t].ok /\ reply[t].how = "orchestrated" /\ call[t].tool \in Queries
    BY DEF IInv, RightWay, Succeeded, Undisturbed
  <2>2. call[t] # Nil
    BY <2>1 DEF JInv, Ledger
  <2> QED
    BY <2>1, <2>2 DEF JInv, Heard
<1>3. SchemaHonoured
  BY DEF JInv, Heard, Allowed, SchemaHonoured
<1> QED
  BY <1>1, <1>2, <1>3, InvariantSuffices DEF AnswersAsked

----------------------------------------------------------------------------
(* The loop of the server adds one step: it forgets the call it answered.  *)

LEMMA CallDoneHolds == IInv /\ CallDone => IInv'
<1> SUFFICES ASSUME IInv, CallDone PROVE IInv'
  OBVIOUS
<1> USE McpAssumption DEF CallDone, IInv, NoReply
<1>1. Types'
  BY DEF Types
<1>2. OwnMark' /\ FilesInSession'
  BY DEF Types, OwnMark, FilesInSession
<1>3. SharedMark'
  BY DEF Types, SharedMark
<1>4. RightWay'
  BY DEF Types, RightWay, Undisturbed
<1> QED
  BY <1>1, <1>2, <1>3, <1>4

LEMMA CallDoneMeans == IInv /\ JInv /\ CallDone => JInv'
<1> SUFFICES ASSUME IInv, JInv, CallDone PROVE JInv'
  OBVIOUS
<1> USE McpAssumption
<1>1. /\ pc[Server] = "idle" /\ UNCHANGED <<pc, calls, crossed>>
      /\ call' = [call EXCEPT ![Server] = Nil] /\ reply' = [reply EXCEPT ![Server] = NoReply]
  BY DEF CallDone
<1>2. NoReply \in Envelope /\ ~NoReply.ok
  BY DEF NoReply, Envelope
<1>3. \A u \in Threads : /\ call'[u] = IF u = Server THEN Nil ELSE call[u]
                         /\ reply'[u] = IF u = Server THEN NoReply ELSE reply[u]
  BY <1>1 DEF IInv, Types
<1>4. reply' \in [Threads -> Envelope]
  BY <1>1, <1>2 DEF JInv, Ledger
<1>5. Ledger'
  BY <1>1, <1>2, <1>3, <1>4 DEF JInv, Ledger
<1> QED
  BY <1>1, <1>3, <1>5 DEF JInv

\* The requests and their answers: the one in hand is the last that is due an answer,
\* and once the client is gone, or the parser has given up, no other is read.
Waits ==
  /\ serving \in BOOLEAN /\ broken \in BOOLEAN /\ raised \in BOOLEAN /\ line \in Lines \cup {Nil}
  /\ lines \in 0 .. MaxLines /\ due \in Seq(0 .. lines)
  /\ sent \in Seq([id : 0 .. MaxLines, result : BOOLEAN])
  /\ broken \/ raised => ~serving /\ line = Nil
  /\ line # Nil => due # <<>> /\ due[Len(due)] = IF line.id THEN lines ELSE 0

Loop == Waits /\ RepliesInOrder

LEMMA LoopStarts == McpInit => Loop
<1> SUFFICES ASSUME McpInit PROVE Loop
  OBVIOUS
<1>1. /\ serving = TRUE /\ broken = FALSE /\ raised = FALSE /\ line = Nil /\ lines = 0
      /\ due = <<>> /\ sent = <<>> /\ Len(<<>>) = 0 /\ DOMAIN <<>> = {}
  BY DEF McpInit
<1>2. 0 \in 0 .. MaxLines
  BY McpAssumption
<1>3. due \in Seq(0 .. lines) /\ sent \in Seq([id : 0 .. MaxLines, result : BOOLEAN])
  BY <1>1
<1>4. Waits
  BY <1>1, <1>2, <1>3 DEF Waits
<1>5. RepliesInOrder
  BY <1>1 DEF RepliesInOrder
<1> QED
  BY <1>4, <1>5 DEF Loop

LEMMA ReadLineHolds == Loop /\ ReadLine => Loop'
<1> SUFFICES ASSUME Loop, ReadLine PROVE Loop'
  OBVIOUS
<1> USE McpAssumption DEF Loop, Waits
<1>1. PICK l \in Lines :
        /\ due' = IF Silent(l) THEN due ELSE Append(due, IF l.id THEN lines' ELSE 0)
        /\ line' = IF Silent(l) \/ l.kind = "unparsable" THEN Nil ELSE l
        /\ serving' = (l.kind # "unparsable") /\ raised' = (l.kind = "unparsable")
  BY DEF ReadLine
<1>2. /\ serving /\ line = Nil /\ ~broken /\ ~raised /\ lines < MaxLines /\ lines' = lines + 1
      /\ UNCHANGED <<broken, sent>>
      /\ lines \in Nat /\ lines' \in 0 .. MaxLines /\ due \in Seq(0 .. lines')
  <2>1. serving /\ line = Nil /\ ~broken /\ ~raised /\ lines < MaxLines /\ lines' = lines + 1
        /\ UNCHANGED <<broken, sent>>
    BY DEF ReadLine
  <2>2. lines \in Nat /\ lines' \in 0 .. MaxLines
    BY <2>1
  <2> QED
    BY <2>1, <2>2
<1>3. CASE Silent(l)
  <2>1. l.kind # "unparsable"
    BY <1>3 DEF Silent
  <2>2. line' = Nil /\ due' = due /\ serving' /\ ~raised' /\ serving' \in BOOLEAN /\ raised' \in BOOLEAN
    BY <1>1, <1>3, <2>1
  <2> QED
    BY <1>2, <2>2 DEF RepliesInOrder
<1>4. CASE ~Silent(l)
  <2> DEFINE id == IF l.id THEN lines' ELSE 0
  <2>1. /\ due' = Append(due, id) /\ id \in 0 .. lines' /\ l # Nil
        /\ serving' \in BOOLEAN /\ raised' \in BOOLEAN
        /\ (line' = l /\ serving' /\ ~raised') \/ (line' = Nil /\ ~serving' /\ raised')
    <3>1. due' = Append(due, id) /\ id \in 0 .. lines' /\ l # Nil
      BY <1>1, <1>2, <1>4
    <3>2. CASE l.kind = "unparsable"
      BY <1>1, <3>1, <3>2, Zenon
    <3>3. CASE l.kind # "unparsable"
      BY <1>1, <1>4, <3>1, <3>3, Zenon
    <3> QED
      BY <3>2, <3>3
  <2>2. /\ due' \in Seq(0 .. lines') /\ Len(due') = Len(due) + 1 /\ due'[Len(due')] = id
        /\ \A i \in 1 .. Len(due) : due'[i] = due[i]
    BY <1>2, <2>1
  <2>3. \A i \in 1 .. Len(due) : due[i] <= lines
    OBVIOUS
  <2>4. Len(due) = Len(sent) /\ \A i \in 1 .. Len(sent) : sent[i].id = due[i]
    BY <1>2 DEF RepliesInOrder
  <2>5. \A i, j \in 1 .. Len(due) : i < j /\ due[i] # 0 /\ due[j] # 0 => due[i] < due[j]
    <3>1. DOMAIN due = 1 .. Len(due)
      OBVIOUS
    <3> QED
      BY <3>1 DEF RepliesInOrder
  <2>6. ASSUME NEW i \in 1 .. Len(due'), NEW j \in 1 .. Len(due'), i < j, due'[i] # 0, due'[j] # 0
        PROVE  due'[i] < due'[j]
    <3>1. Len(due) \in Nat /\ Len(due') = Len(due) + 1 /\ i \in 1 .. Len(due)
      BY <2>2, <2>6
    <3>2. due'[i] = due[i] /\ due[i] \in Nat /\ due[i] <= lines
      BY <2>2, <2>3, <3>1
    <3>3. CASE j \in 1 .. Len(due)
      BY <2>2, <2>5, <2>6, <3>1, <3>3
    <3>4. CASE j = Len(due')
      <4>1. due'[j] = id /\ id = lines'
        BY <2>2, <2>6, <3>4
      <4> QED
        BY <1>2, <3>2, <4>1
    <3> QED
      BY <3>1, <3>3, <3>4
  <2>7. RepliesInOrder'
    BY <1>2, <2>1, <2>2, <2>4, <2>6 DEF RepliesInOrder
  <2>8. Waits'
    BY <1>2, <2>1, <2>2
  <2> QED
    BY <2>7, <2>8
<1> QED
  BY <1>3, <1>4

LEMMA SendHolds ==
  ASSUME Loop, line # Nil, NEW ok \in BOOLEAN, Send(ok)
  PROVE  Loop'
<1> USE McpAssumption DEF Loop, Waits
<1>1. line' = Nil /\ UNCHANGED <<lines, due, raised>> /\ ~broken /\ ~raised
  BY DEF Send
<1>2. Len(due) = Len(sent) + 1
  BY <1>1 DEF RepliesInOrder
<1>3. CASE UNCHANGED <<serving, broken>>
           /\ sent' = Append(sent, [id |-> IF line.id THEN lines ELSE 0, result |-> Result(line, ok)])
  <2> DEFINE answer == [id |-> IF line.id THEN lines ELSE 0, result |-> Result(line, ok)]
  <2>1. answer \in [id : 0 .. MaxLines, result : BOOLEAN]
    BY DEF Result
  <2>2. answer.id = due[Len(due)]
    OBVIOUS
  <2> HIDE DEF answer
  <2>3. /\ sent' \in Seq([id : 0 .. MaxLines, result : BOOLEAN]) /\ Len(sent') = Len(due)
        /\ sent'[Len(sent')] = answer /\ \A i \in 1 .. Len(sent) : sent'[i] = sent[i]
    BY <1>2, <1>3, <2>1 DEF answer
  <2>4. RepliesInOrder'
    BY <1>1, <1>2, <1>3, <2>2, <2>3 DEF RepliesInOrder
  <2> QED
    BY <1>1, <1>3, <2>3, <2>4
<1>4. CASE serving' = FALSE /\ broken' = TRUE /\ UNCHANGED sent
  BY <1>1, <1>2, <1>4 DEF RepliesInOrder
<1> QED
  BY <1>3, <1>4 DEF Send

LEMMA LoopHolds == JInv /\ Loop /\ [McpNext]_mcpVars => Loop'
<1> SUFFICES ASSUME JInv, Loop, [McpNext]_mcpVars PROVE Loop'
  OBVIOUS
<1>1. CASE UNCHANGED mcp
  BY <1>1 DEF mcp, Loop, Waits, RepliesInOrder
<1>2. CASE ReadLine
  BY <1>2, ReadLineHolds
<1>3. CASE InputEnds
  BY <1>3 DEF InputEnds, Loop, Waits, RepliesInOrder
<1>4. CASE Respond
  BY <1>4, SendHolds DEF Respond
<1>5. CASE CallDone
  <2>1. reply[Server].ok \in BOOLEAN
    BY McpAssumption DEF JInv, Ledger, Envelope
  <2> QED
    BY <1>5, <2>1, SendHolds DEF CallDone
<1> QED
  BY <1>1, <1>2, <1>3, <1>4, <1>5 DEF McpNext, Serve, CallTool, Agents, mcpVars

McpInv == IInv /\ JInv /\ Loop

LEMMA McpStepHolds == McpInv /\ [McpNext]_mcpVars => McpInv'
<1> SUFFICES ASSUME McpInv, [McpNext]_mcpVars PROVE IInv' /\ JInv'
  BY LoopHolds DEF McpInv
<1> USE DEF McpInv
<1>1. CASE UNCHANGED vars
  BY <1>1, StutterHolds, StutterMeans
<1>2. CASE CallTool
  <2>1. line.call \in CallsOf[Server] /\ Server \in Threads
    BY <1>2, McpAssumption DEF CallTool, Loop, Waits
  <2> QED
    BY <1>2, <2>1, BeginHolds, BeginMeans DEF CallTool
<1>3. CASE CallDone
  BY <1>3, CallDoneHolds, CallDoneMeans
<1>4. CASE Agents
  BY <1>4, AdoptHolds, AdoptMeans, StepHolds, StepMeans, BeginHolds, BeginMeans DEF Agents
<1> QED
  BY <1>1, <1>2, <1>3, <1>4 DEF McpNext, Serve, ReadLine, InputEnds, Respond, mcpVars

LEMMA McpInitHolds == McpInit => McpInv
  BY InitHolds, InitMeans, LoopStarts DEF McpInit, McpInv

LEMMA McpInvHolds == McpSpec => []McpInv
  BY McpInitHolds, McpStepHolds, PTL DEF McpSpec

LEMMA McpInvSuffices ==
  McpInv => McpTypeOK /\ FlagRestored /\ AnswersAsked /\ SchemaHonoured /\ RepliesInOrder
<1> SUFFICES ASSUME McpInv
             PROVE  McpTypeOK /\ FlagRestored /\ AnswersAsked /\ SchemaHonoured /\ RepliesInOrder
  OBVIOUS
<1>1. due \in Seq(0 .. MaxLines)
  <2>1. due \in Seq(0 .. lines) /\ 0 .. lines \subseteq 0 .. MaxLines
    BY McpAssumption DEF McpInv, Loop, Waits
  <2> QED
    BY <2>1, SeqMonotonic
<1> QED
  BY <1>1, InvariantSuffices, MeaningSuffices DEF McpInv, Loop, Waits, McpTypeOK

\* Whatever threads call the harness, with whatever calls: as long as no two sessions
\* overlap and no caller's orchestrator holds it, it is marked only while a session is
\* open (execute_tool's finally clause).
THEOREM CallsRestoreFlag == Spec => []FlagRestored
<1>1. IInv /\ [Next]_vars => IInv'
  BY AdoptHolds, StepHolds, BeginHolds, StutterHolds DEF Next
<1> QED
  BY InitHolds, <1>1, InvariantSuffices, PTL DEF Spec

\* The same when one of the threads is serve_mcp's, with whatever lines from its client.
THEOREM ServerRestoresFlag == McpSpec => []FlagRestored
  BY McpInvHolds, McpInvSuffices, PTL

\* The types of the harness, of its calls and their envelopes, and of the server.
THEOREM ServerTypes == McpSpec => []McpTypeOK
  BY McpInvHolds, McpInvSuffices, PTL

\* A query that succeeds and was not crossed by another's session has opened the
\* package it was asked about, has left no file of it behind, is neutral exactly when
\* that was asked, and is answered by a component of the package, of the type and the
\* ABI that were asked for (execute_tool, query and get_component).
THEOREM ServerAnswersAsked == McpSpec => []AnswersAsked
  BY McpInvHolds, McpInvSuffices, PTL

\* A call that the schemas of the registry allow is never refused, and what succeeds
\* has carried every argument it was given, but for the "compact" that the workflows
\* and the DEX reader have no use for (CANONICAL_TOOLS, execute_tool and query).
THEOREM ServerHonoursSchema == McpSpec => []SchemaHonoured
  BY McpInvHolds, McpInvSuffices, PTL

\* Every request that is read is answered once, in order and under its own id, and
\* nothing else is; only the one in hand, the one over which the client was found gone
\* or the one over which the parser gave up lacks its answer (serve_mcp).
THEOREM ServerRepliesInOrder == McpSpec => []RepliesInOrder
  BY McpInvHolds, McpInvSuffices, PTL
=============================================================================
