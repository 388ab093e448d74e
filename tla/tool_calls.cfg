SPECIFICATION McpSpec
CONSTANTS
  srv = srv  a1 = a1  Nil = Nil
  Threads = {srv, a1}
  Server = srv
  Targets <- SomeTargets
  Holds <- SomeHolds
  AbiPreference <- Preference
  CallsOf <- MCCallsOf
  MaxCalls <- MCMaxCalls
  Lines <- MCLines
  MaxLines = 2
INVARIANTS McpTypeOK FlagRestored AnswersAsked  RepliesInOrder
CHECK_DEADLOCK FALSE
