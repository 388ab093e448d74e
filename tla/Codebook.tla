------------------------------ MODULE Codebook ------------------------------
(***************************************************************************)
(* BijectiveCodebook and NeutralTokenMapper of neutral_orchestrator/       *)
(* neutral_representation.py: the session's two-way dictionary between the *)
(* raw names of a binary and the neutral tokens shown instead of them.     *)
(*                                                                         *)
(* A string is modelled by its radare2 decorations and its core: "sym.f"   *)
(* is [deco |-> <<"sym">>, core |-> f].  The core of a token names its     *)
(* kind and number (SYM_STR_0001: kind STR, num 1) or its content hash.    *)
(* A core is not empty, and no core occurs inside another.                 *)
(* Every method of the codebook runs under its RLock and is one action;    *)
(* sanitize_symbol and sanitize_string call two of them and hold no lock   *)
(* in between.                                                             *)
(***************************************************************************)
EXTENDS Naturals, Sequences, FiniteSets

CONSTANTS Session,      \* sessions, each with a codebook of its own
          Thread,       \* threads that call the mapper
          Core,         \* undecorated raw strings
          SymbolName,   \* the raw strings passed to sanitize_symbol,
          StringName,   \* ... to sanitize_string,
          OtherName,    \* ... to sanitize_predicate, _address and _data
          Underscored,  \* replace(' ', '_') on a core
          Hash,         \* values of sha256(..).hexdigest()[:8]
          HashOf,       \* the hash of a string
          Digits,       \* the number import_codebook reads in a token of a
                        \* kind and hash, 0 if none
          HashModes,    \* values callers give use_content_hash
          Imports,      \* sets of keys that imported codebooks may have
          MaxExports,   \* bound: codebooks exported in a behaviour
          Nil

Prefix == {"sym", "str"}
Kind == {"FUNC", "STR", "GATE", "DATA", "ADDR"}
BookKeys == {"forward", "reverse", "counters"}

TokenCore == [kind : Kind, num : Nat, hash : Hash \cup {Nil}]
RawString == [deco : Seq(Prefix), core : Core]
Token     == [deco : Seq(Prefix), core : TokenCore]
Name      == SymbolName \cup StringName \cup OtherName

\* What startswith, concatenation and the slice [4:] do to a decoration.
HasPrefix(s, p) == s.deco # <<>> /\ Head(s.deco) = p
Decorated(p, s) == [deco |-> <<p>> \o s.deco, core |-> s.core]
Clean(s, p) == IF HasPrefix(s, p)
               THEN [deco |-> Tail(s.deco), core |-> s.core] ELSE s

ASSUME NameAssumption ==
  /\ Name \subseteq RawString
  /\ Underscored \in [Core -> Core]

MaxDigits == 99999999  \* eight of them

ASSUME HashAssumption ==
  /\ \A n \in Name, p \in Prefix : HashOf[n] \in Hash /\ HashOf[Clean(n, p)] \in Hash
  /\ Digits \in [Kind -> [Hash -> Nat]] /\ Nil \notin Hash
  /\ \A k \in Kind, h \in Hash : Digits[k][h] <= MaxDigits

ASSUME BoundAssumption ==
  /\ HashModes \subseteq BOOLEAN
  /\ Imports \subseteq SUBSET BookKeys
  /\ MaxExports \in Nat

VARIABLES
  forward,          \* forward_map of every session
  reverse,          \* reverse_map
  counters,         \* counters
  neutralizeRegex,  \* the keys compiled into _neutralize_regex, or Nil
  restoreRegex,     \* the keys compiled into _restore_regex, or Nil
  pending,          \* of a thread between register_token and register_alias
  exported,         \* codebooks that have been exported
  told              \* history: every token returned, and for which name

regexVars == <<neutralizeRegex, restoreRegex>>
bookVars  == <<forward, reverse, counters, regexVars>>
vars == <<bookVars, pending, exported, told>>

Empty == [r \in {} |-> Nil]

PendingCall == [session : Session, name : RawString, alias : RawString,
                token : Token, answer : Token]

BookType(f, r) ==
  /\ DOMAIN f \subseteq RawString /\ DOMAIN r \subseteq Token
  /\ \A n \in DOMAIN f : f[n] \in DOMAIN r
  /\ \A token \in DOMAIN r : r[token] \in RawString

TypeOK ==
  /\ DOMAIN forward = Session /\ DOMAIN reverse = Session
  /\ \A s \in Session : BookType(forward[s], reverse[s])
  /\ counters \in [Session -> [Kind -> Nat]]
  /\ DOMAIN neutralizeRegex = Session /\ DOMAIN restoreRegex = Session
  /\ \A s \in Session : /\ neutralizeRegex[s] \in {Nil, DOMAIN forward[s]}
                        /\ restoreRegex[s] \in {Nil, DOMAIN reverse[s]}
  /\ DOMAIN pending = Thread
  /\ \A t \in Thread : pending[t] = Nil \/ pending[t] \in PendingCall
  /\ \A b \in exported : /\ BookType(b.forward, b.reverse)
                         /\ b.counters \in [Kind -> Nat]
  /\ told \subseteq [session : Session, name : RawString, token : Token]

Init ==
  /\ forward = [s \in Session |-> Empty]
  /\ reverse = [s \in Session |-> Empty]
  /\ counters = [s \in Session |-> [k \in Kind |-> 0]]
  /\ neutralizeRegex = [s \in Session |-> Nil]
  /\ restoreRegex = [s \in Session |-> Nil]
  /\ pending = [t \in Thread |-> Nil]
  /\ exported = {}
  /\ told = {}

-----------------------------------------------------------------------------
(* Dictionaries                                                            *)

Put(f, key, value) ==
  [k \in DOMAIN f \cup {key} |-> IF k = key THEN value ELSE f[k]]

\* f.update(g)
Update(f, g) ==
  [k \in DOMAIN f \cup DOMAIN g |-> IF k \in DOMAIN g THEN g[k] ELSE f[k]]

Image(f) == {f[x] : x \in DOMAIN f}

-----------------------------------------------------------------------------
(* register_token and register_alias                                       *)

\* Both maps are written and both regexes thrown away; what either key held
\* before is overwritten without a check.
Store_KeepsRegex(s, raw, token) ==
  /\ forward' = [forward EXCEPT ![s] = Put(@, raw, token)]
  /\ reverse' = [reverse EXCEPT ![s] = Put(@, token, raw)]
  /\ UNCHANGED regexVars
Store(s, raw, token) ==
  /\ forward' = [forward EXCEPT ![s] = Put(@, raw, token)]
  /\ reverse' = [reverse EXCEPT ![s] = Put(@, token, raw)]
  /\ neutralizeRegex' = [neutralizeRegex EXCEPT ![s] = Nil]
  /\ restoreRegex' = [restoreRegex EXCEPT ![s] = Nil]

NewToken(s, raw, kind, hash) ==
  [deco |-> <<>>,
   core |-> IF hash
            THEN [kind |-> kind, hash |-> HashOf[raw],
                  num |-> Digits[kind][HashOf[raw]]]
            ELSE [kind |-> kind, hash |-> Nil, num |-> counters[s][kind] + 1]]

Known_Never(s, raw) == FALSE
Known(s, raw) == raw \in DOMAIN forward[s]

\* What register_token returns, and what it does.
TokenFor(s, raw, kind, hash) ==
  IF Known(s, raw) THEN forward[s][raw] ELSE NewToken(s, raw, kind, hash)

RegisterToken_NoIncrement(s, raw, kind, hash) ==
  IF Known(s, raw)
  THEN UNCHANGED bookVars
  ELSE Store(s, raw, NewToken(s, raw, kind, hash)) /\ UNCHANGED counters
RegisterToken(s, raw, kind, hash) ==
  IF Known(s, raw)
  THEN UNCHANGED bookVars
  ELSE /\ Store(s, raw, NewToken(s, raw, kind, hash))
       /\ counters' = IF hash THEN counters
                      ELSE [counters EXCEPT ![s][kind] = @ + 1]

Tell(s, name, token) ==
  told' = told \cup {[session |-> s, name |-> name, token |-> token]}

\* First half of sanitize_symbol and sanitize_string: the bare name is
\* registered, the alias that carries the decoration is still to come.
Sanitize(t, s, name, prefix, kind, spelled, hash) ==
  LET bare  == Clean(name, prefix)
      token == TokenFor(s, bare, kind, hash)
  IN /\ pending[t] = Nil
     /\ RegisterToken(s, bare, kind, hash)
     /\ pending' = [pending EXCEPT ![t] =
          [session |-> s, name |-> name,
           alias  |-> Decorated(prefix, spelled),
           token  |-> Decorated(prefix, token),
           answer |-> IF HasPrefix(name, prefix)
                      THEN Decorated(prefix, token) ELSE token]]
     /\ UNCHANGED <<exported, told>>

SanitizeSymbol(t, s, name, hash) ==
  Sanitize(t, s, name, "sym", "FUNC", Clean(name, "sym"), hash)

\* radare2 writes the spaces of a string as underscores in its symbol.
Spelling(name) ==
  IF HasPrefix(name, "str") THEN Clean(name, "str")
  ELSE [name EXCEPT !.core = Underscored[@]]

SanitizeString(t, s, name, hash) ==
  Sanitize(t, s, name, "str", "STR", Spelling(name), hash)

\* register_alias, and the return of the call.
RegisterAlias(t) ==
  /\ pending[t] # Nil
  /\ Store(pending[t].session, pending[t].alias, pending[t].token)
  /\ Tell(pending[t].session, pending[t].name, pending[t].answer)
  /\ pending' = [pending EXCEPT ![t] = Nil]
  /\ UNCHANGED <<counters, exported>>

\* sanitize_predicate, sanitize_address and sanitize_data.
SanitizeOther(t, s, name, kind, hash) ==
  /\ pending[t] = Nil
  /\ RegisterToken(s, name, kind, hash)
  /\ Tell(s, name, TokenFor(s, name, kind, hash))
  /\ UNCHANGED <<pending, exported>>

-----------------------------------------------------------------------------
(* neutralize and restore                                                  *)

\* The first call after a change compiles the regex of the keys.
CompileNeutralize(s) ==
  /\ DOMAIN forward[s] # {} /\ neutralizeRegex[s] = Nil
  /\ neutralizeRegex' = [neutralizeRegex EXCEPT ![s] = DOMAIN forward[s]]
  /\ UNCHANGED <<forward, reverse, counters, restoreRegex, pending, exported,
                 told>>

CompileRestore(s) ==
  /\ DOMAIN reverse[s] # {} /\ restoreRegex[s] = Nil
  /\ restoreRegex' = [restoreRegex EXCEPT ![s] = DOMAIN reverse[s]]
  /\ UNCHANGED <<forward, reverse, counters, neutralizeRegex, pending, exported,
                 told>>

\* An exact key is replaced as a whole; otherwise the leftmost and longest of
\* the compiled keys that starts behind a decoration.
Substitute(f, keys, text) ==
  LET from(i) == [text EXCEPT !.deco = SubSeq(@, i + 1, Len(@))]
      hits == {i \in 0..Len(text.deco) : from(i) \in keys}
      at == CHOOSE i \in hits : \A j \in hits : i <= j
  IN IF text \in DOMAIN f THEN f[text]
     ELSE IF hits = {} THEN text
     ELSE LET new == f[from(at)]
          IN [new EXCEPT !.deco = SubSeq(text.deco, 1, at) \o @]

Compiled(regex, f) == IF regex = Nil THEN DOMAIN f ELSE regex

Neutralize(s, text) ==
  Substitute(forward[s], Compiled(neutralizeRegex[s], forward[s]), text)
Restore(s, text) ==
  Substitute(reverse[s], Compiled(restoreRegex[s], reverse[s]), text)

-----------------------------------------------------------------------------
(* export_codebook and import_codebook                                     *)

Export(s) ==
  /\ Cardinality(exported) < MaxExports
  /\ exported' = exported \cup {[forward |-> forward[s], reverse |-> reverse[s],
                                 counters |-> counters[s]]}
  /\ UNCHANGED <<bookVars, pending, told>>

\* {v: k for k, v in f.items()}: of several keys with one value the last stays.
Inversions(f) ==
  {g \in [Image(f) -> DOMAIN f] : \A v \in Image(f) : f[g[v]] = v}

\* `x.get(key) or {}`, and the inverse of the other map if there is nothing.
Given(b, key, keys) == IF key \in keys THEN b[key] ELSE Empty
Completed(f, other) == IF DOMAIN f = {} THEN Inversions(other) ELSE {f}

\* The patterns find FUNC_, STR_, GATE_ and DATA_ anywhere in a token, but
\* ADDR_REF_ at its start only.
Readable(token) == token.core.kind = "ADDR" => token.deco = <<>>

\* The largest of a session's counter, the codebook's, and the numbers found in
\* the tokens known after the import.
Numbers(s, b, kind, keys, tokens) ==
  {counters[s][kind]}
  \cup (IF "counters" \in keys THEN {b.counters[kind]} ELSE {})
  \cup {token.core.num :
          token \in {tk \in tokens : tk.core.kind = kind /\ Readable(tk)}}
Largest(S) == CHOOSE n \in S : \A m \in S : m <= n

Reconciled_Codebook(s, b, keys, tokens) ==
  IF "counters" \in keys THEN b.counters ELSE counters[s]
Reconciled(s, b, keys, tokens) ==
  [kind \in Kind |-> Largest(Numbers(s, b, kind, keys, tokens))]

Import(s, b, keys) ==
  LET f == Given(b, "forward", keys)
      r == Given(b, "reverse", keys)
  IN /\ \E fwd \in Completed(f, r), rev \in Completed(r, f) :
          /\ forward' = [forward EXCEPT ![s] = Update(@, fwd)]
          /\ reverse' = [reverse EXCEPT ![s] = Update(@, rev)]
     /\ counters' = [counters EXCEPT ![s] =
                       Reconciled(s, b, keys, DOMAIN reverse'[s])]
     /\ neutralizeRegex' = [neutralizeRegex EXCEPT ![s] = Nil]
     /\ restoreRegex' = [restoreRegex EXCEPT ![s] = Nil]
     /\ UNCHANGED <<pending, exported, told>>

-----------------------------------------------------------------------------
(* What the bijection rests on                                             *)

\* A name under its decoration, as the mapper registers it.
Base(name) == [deco |-> <<>>, core |-> name.core]

\* Two names are taken for one another when only a space and an underscore
\* tell them apart, when their hashes agree, when one is an alias of the other,
\* or when one looks like a token; and two sessions give one token twice.  The
\* code looks at none of this.
Unambiguous ==
  /\ \A n \in SymbolName : n.deco \in {<<>>, <<"sym">>}
  /\ \A n \in StringName : n.deco \in {<<>>, <<"str">>}
  /\ \A n \in OtherName : n.deco = <<>>
  /\ \A m, n \in StringName : Spelling(m) = Spelling(n) <=> Base(m) = Base(n)
  /\ \A m, n \in Name : TRUE \in HashModes /\ HashOf[Base(m)] = HashOf[Base(n)]
                        => Base(m) = Base(n)
  /\ \A c \in Core : c \notin TokenCore
  /\ Imports # {} => \A s, q \in Session : s = q

-----------------------------------------------------------------------------
(* The specification                                                       *)

Call(t, s, hash) ==
  \/ \E n \in SymbolName : SanitizeSymbol(t, s, n, hash)
  \/ \E n \in StringName : SanitizeString(t, s, n, hash)
  \/ \E n \in OtherName, k \in {"GATE", "ADDR", "DATA"} :
       SanitizeOther(t, s, n, k, hash)

Next ==
  \/ \E t \in Thread : \/ \E s \in Session, hash \in HashModes : Call(t, s, hash)
                       \/ RegisterAlias(t)
  \/ \E s \in Session : \/ CompileNeutralize(s) \/ CompileRestore(s)
                        \/ Export(s)
                        \/ \E b \in exported, keys \in Imports : Import(s, b, keys)

Spec == Init /\ [][Next]_vars

-----------------------------------------------------------------------------
(* Properties                                                              *)

\* The token the codebook is about to hand out is new: no token in the book,
\* imported from wherever, has a number beyond the counter of its kind.
TokensCounted ==
  \A s \in Session : \A token \in DOMAIN reverse[s] :
    token.deco = <<>> /\ token.core.hash = Nil =>
      token.core.num <= counters[s][token.core.kind]

\* forward_map and reverse_map are each other's inverse, also while a thread is
\* between the registration of a name and that of its alias.
Bijective ==
  \A s \in Session :
    /\ \A r \in DOMAIN forward[s] : /\ forward[s][r] \in DOMAIN reverse[s]
                                    /\ reverse[s][forward[s][r]] = r
    /\ \A k \in DOMAIN reverse[s] : /\ reverse[s][k] \in DOMAIN forward[s]
                                    /\ forward[s][reverse[s][k]] = k

\* Every token a caller was ever told restores to the name it stands for.
TokensHonoured ==
  \A e \in told : Restore(e.session, e.token) = e.name

\* "100% mathematical reversibility": a text made of raw strings survives
\* neutralize and restore, whichever of them are registered.
RoundTrip ==
  \A s \in Session, text \in Name : Restore(s, Neutralize(s, text)) = text

\* Once a text is neutralized it always is, and to the same tokens: the alias
\* registered after the fact agrees with the substitution it replaces.
NeutralTextStable ==
  [][\A s \in Session, text \in Name :
       Neutralize(s, text) # text => Neutralize(s, text)' = Neutralize(s, text)]_vars

\* The codebook is a TokenBook: names keep their tokens and share none.
TB == INSTANCE TokenBook WITH map <- forward
KeepsPromise == TB!Spec

=============================================================================
