--------------------------- MODULE CodebookProofs ---------------------------
(***************************************************************************)
(* Proofs about Codebook, for every number of sessions and threads and     *)
(* every sequence of imports: types and counters for every set of names,   *)
(* the bijection for those that are Unambiguous.                           *)
(***************************************************************************)
EXTENDS Codebook, Integers, WellFoundedInduction, SequenceTheorems, TLAPS

-----------------------------------------------------------------------------
(* Numbers: the largest of a bounded set                                   *)

Below == {ss \in Nat \X Nat : ss[1] < ss[2]}

\* A non-empty set of naturals has a least element.
LEMMA LeastNat ==
  ASSUME NEW U \in SUBSET Nat, U # {}
  PROVE  \E c \in U : \A y \in U : c <= y
<1>1. IsWellFoundedOn(Below, Nat)
  BY NatLessThanWellFounded DEF OpToRel, Below
<1>2. \E x \in U : \A y \in U : ~(<<y, x>> \in Below)
  BY <1>1, WFMin, Zenon
<1>3. PICK x \in U : \A y \in U : ~(<<y, x>> \in Below)
  BY <1>2
<1>4. \A y \in U : /\ <<y, x>> \in Nat \X Nat
                   /\ <<y, x>>[1] = y /\ <<y, x>>[2] = x
  OBVIOUS
<1>5. \A y \in U : ~(y < x)
  BY <1>3, <1>4 DEF Below
<1> QED
  BY <1>5

\* Largest is what its name says, on the bounded sets that Numbers returns.
LEMMA LargestIsLargest ==
  ASSUME NEW S \in SUBSET Nat, S # {}, NEW bound \in Nat, \A n \in S : n <= bound
  PROVE  Largest(S) \in S /\ \A n \in S : n <= Largest(S)
<1> DEFINE U == {c \in Nat : \A n \in S : n <= c}
<1>1. PICK c \in U : \A y \in U : c <= y
  <2>1. U # {} /\ U \in SUBSET Nat
    OBVIOUS
  <2> QED
    BY <2>1, LeastNat, Zenon
<1>2. c \in S
  <2> SUFFICES ASSUME c \notin S PROVE FALSE
    OBVIOUS
  <2>1. \A n \in S : n < c
    BY <1>1
  <2>2. c > 0 /\ c - 1 \in Nat
    <3>1. PICK n \in S : TRUE
      OBVIOUS
    <3> QED
      BY <2>1, <3>1
  <2>3. c - 1 \in U
    BY <2>1, <2>2
  <2> QED
    BY <1>1, <2>3
<1>3. \E n \in S : \A m \in S : m <= n
  BY <1>1, <1>2
<1> QED
  BY <1>3 DEF Largest

-----------------------------------------------------------------------------
(* Strings and dictionaries                                                *)

LEMMA DecoratedType ==
  ASSUME NEW p \in Prefix, NEW s, s \in RawString \/ s \in Token
  PROVE  /\ s \in RawString => Decorated(p, s) \in RawString
         /\ s \in Token => Decorated(p, s) \in Token
         /\ Decorated(p, s).core = s.core
  BY DEF Decorated, RawString, Token, TokenCore

LEMMA CleanType ==
  ASSUME NEW p \in Prefix, NEW s \in RawString
  PROVE  Clean(s, p) \in RawString
  BY DEF Clean, HasPrefix, RawString

LEMMA SpellingType ==
  ASSUME NEW s \in RawString
  PROVE  Spelling(s) \in RawString
  BY CleanType, NameAssumption DEF Spelling, RawString, Prefix

\* Writing one pair into both maps keeps them a book.
LEMMA PutType ==
  ASSUME NEW f, NEW r, BookType(f, r), NEW raw \in RawString, NEW token \in Token
  PROVE  BookType(Put(f, raw, token), Put(r, token, raw))
  BY DEF BookType, Put

LEMMA NewTokenType ==
  ASSUME TypeOK, NEW s \in Session, NEW n \in Name, NEW p \in Prefix,
         NEW raw \in {n, Clean(n, p)}, NEW kind \in Kind, NEW hash \in BOOLEAN
  PROVE  NewToken(s, raw, kind, hash) \in Token
<1>1. counters[s][kind] + 1 \in Nat
  BY DEF TypeOK
<1>2. HashOf[raw] \in Hash /\ Digits[kind][HashOf[raw]] \in Nat
  BY HashAssumption
<1>3. <<>> \in Seq(Prefix)
  OBVIOUS
<1> QED
  BY <1>1, <1>2, <1>3 DEF NewToken, Token, TokenCore

-----------------------------------------------------------------------------
(* Type correctness                                                        *)

LEMMA StoreType ==
  ASSUME TypeOK, NEW s \in Session, NEW raw \in RawString, NEW token \in Token,
         Store(s, raw, token), counters' \in [Session -> [Kind -> Nat]],
         exported' = exported, DOMAIN pending' = Thread,
         \A t \in Thread : pending'[t] = Nil \/ pending'[t] \in PendingCall,
         told' \subseteq [session : Session, name : RawString, token : Token]
  PROVE  TypeOK'
<1> USE DEF Store, TypeOK
<1>1. BookType(Put(forward[s], raw, token), Put(reverse[s], token, raw))
  BY PutType
<1>2. \A q \in Session : BookType(forward'[q], reverse'[q])
  BY <1>1
<1>3. \A q \in Session : /\ neutralizeRegex'[q] \in {Nil, DOMAIN forward'[q]}
                         /\ restoreRegex'[q] \in {Nil, DOMAIN reverse'[q]}
  OBVIOUS
<1> QED
  BY <1>2, <1>3

LEMMA TokenForType ==
  ASSUME TypeOK, NEW s \in Session, NEW n \in Name, NEW p \in Prefix,
         NEW raw \in {n, Clean(n, p)}, NEW kind \in Kind, NEW hash \in BOOLEAN
  PROVE  TokenFor(s, raw, kind, hash) \in Token
  BY NewTokenType DEF TokenFor, Known, TypeOK, BookType

LEMMA RegisterType ==
  ASSUME TypeOK, NEW s \in Session, NEW n \in Name, NEW p \in Prefix,
         NEW raw \in {n, Clean(n, p)}, NEW kind \in Kind, NEW hash \in BOOLEAN,
         RegisterToken(s, raw, kind, hash), exported' = exported,
         DOMAIN pending' = Thread,
         \A t \in Thread : pending'[t] = Nil \/ pending'[t] \in PendingCall,
         told' \subseteq [session : Session, name : RawString, token : Token]
  PROVE  TypeOK'
<1>1. raw \in RawString
  BY CleanType, NameAssumption
<1>2. CASE Known(s, raw)
  <2>1. UNCHANGED bookVars
    BY <1>2 DEF RegisterToken
  <2>2. forward' = forward /\ reverse' = reverse /\ counters' = counters
        /\ neutralizeRegex' = neutralizeRegex /\ restoreRegex' = restoreRegex
    BY <2>1 DEF bookVars, regexVars
  <2>3. \A q \in Session : BookType(forward'[q], reverse'[q])
    BY <2>2 DEF TypeOK
  <2>4. \A q \in Session : /\ neutralizeRegex'[q] \in {Nil, DOMAIN forward'[q]}
                           /\ restoreRegex'[q] \in {Nil, DOMAIN reverse'[q]}
    BY <2>2 DEF TypeOK
  <2>5. counters' \in [Session -> [Kind -> Nat]]
    BY <2>2 DEF TypeOK
  <2>6. \A b \in exported' : /\ BookType(b.forward, b.reverse)
                            /\ b.counters \in [Kind -> Nat]
    BY DEF TypeOK
  <2> QED
    BY <2>2, <2>3, <2>4, <2>5, <2>6 DEF TypeOK
<1>3. CASE ~Known(s, raw)
  <2>1. counters' \in [Session -> [Kind -> Nat]]
    <3>1. counters \in [Session -> [Kind -> Nat]]
      BY DEF TypeOK
    <3>2. \/ counters' = counters
          \/ counters' = [counters EXCEPT ![s][kind] = @ + 1]
      BY <1>3 DEF RegisterToken
    <3>3. [counters EXCEPT ![s][kind] = @ + 1] \in [Session -> [Kind -> Nat]]
      BY <3>1
    <3> QED
      BY <3>1, <3>2, <3>3
  <2> QED
    BY <1>1, <1>3, <2>1, NewTokenType, StoreType DEF RegisterToken
<1> QED
  BY <1>2, <1>3

LEMMA SanitizeType ==
  ASSUME TypeOK, NEW t \in Thread, NEW s \in Session, NEW n \in Name,
         NEW p \in Prefix, NEW kind \in Kind, NEW spelled \in RawString,
         NEW hash \in BOOLEAN, Sanitize(t, s, n, p, kind, spelled, hash)
  PROVE  TypeOK'
<1> DEFINE token == TokenFor(s, Clean(n, p), kind, hash)
           call  == [session |-> s, name |-> n, alias |-> Decorated(p, spelled),
                     token |-> Decorated(p, token),
                     answer |-> IF HasPrefix(n, p)
                                THEN Decorated(p, token) ELSE token]
<1>1. token \in Token /\ n \in RawString
  BY TokenForType, NameAssumption
<1>2. call \in PendingCall
  BY <1>1, DecoratedType DEF PendingCall
<1>3. pending' = [pending EXCEPT ![t] = call] /\ exported' = exported
      /\ RegisterToken(s, Clean(n, p), kind, hash)
  BY DEF Sanitize
<1> HIDE DEF call
<1>5. told' = told /\ told \subseteq [session : Session, name : RawString, token : Token]
  BY DEF Sanitize, TypeOK
<1>4. DOMAIN pending' = Thread
      /\ \A q \in Thread : pending'[q] = Nil \/ pending'[q] \in PendingCall
  BY <1>2, <1>3 DEF TypeOK
<1> QED
  BY <1>3, <1>4, <1>5, RegisterType

\* What Import reads of a codebook is a book again.
LEMMA CompletedType ==
  ASSUME NEW b, BookType(b.forward, b.reverse), NEW keys \in SUBSET BookKeys,
         NEW fwd \in Completed(Given(b, "forward", keys), Given(b, "reverse", keys)),
         NEW rev \in Completed(Given(b, "reverse", keys), Given(b, "forward", keys))
  PROVE  /\ BookType(fwd, rev)
         /\ DOMAIN rev \subseteq DOMAIN b.reverse
<1> USE DEF BookType
<1>1. Given(b, "forward", keys) \in {b.forward, Empty}
      /\ Given(b, "reverse", keys) \in {b.reverse, Empty}
  BY DEF Given
<1> QED
  BY <1>1 DEF Completed, Inversions, Image, Empty

-----------------------------------------------------------------------------
(* The numbers of the tokens                                               *)
(*                                                                         *)
(* TokensCounted is not inductive.  A token that waits in a thread for its *)
(* alias, or lies in an exported codebook, enters the book later, so both  *)
(* must be counted too; and Import takes the largest number of the tokens  *)
(* it finds, content hashes included, so those need a bound for there to   *)
(* be a largest one.                                                       *)

Counted(token, counts) ==
  Readable(token) =>
    IF token.core.hash = Nil THEN token.core.num <= counts[token.core.kind]
                             ELSE token.core.num <= MaxDigits

BooksCounted ==
  \A s \in Session : \A token \in DOMAIN reverse[s] : Counted(token, counters[s])
PendingCounted ==
  \A t \in Thread : pending[t] # Nil =>
    Counted(pending[t].token, counters[pending[t].session])
ExportsCounted ==
  \A b \in exported : \A token \in DOMAIN b.reverse : Counted(token, b.counters)

CountInv == BooksCounted /\ PendingCounted /\ ExportsCounted

\* The counters of a session only grow.
Grow == \A s \in Session, k \in Kind : counters[s][k] <= counters'[s][k]

LEMMA CountedGrows ==
  ASSUME NEW token \in Token, NEW lo \in [Kind -> Nat], NEW hi \in [Kind -> Nat],
         \A k \in Kind : lo[k] <= hi[k], Counted(token, lo)
  PROVE  Counted(token, hi)
<1>1. token.core.kind \in Kind /\ token.core.num \in Nat
  BY DEF Token, TokenCore
<1>2. lo[token.core.kind] \in Nat /\ hi[token.core.kind] \in Nat
  BY <1>1
<1> QED
  BY <1>1, <1>2 DEF Counted

\* A decoration does not change what a token counts as.
LEMMA DecoratedCounted ==
  ASSUME NEW p \in Prefix, NEW token, NEW counts, Counted(token, counts)
  PROVE  Counted(Decorated(p, token), counts)
  BY DEF Counted, Readable, Decorated

LEMMA NewTokenCounted ==
  ASSUME TypeOK, NEW s \in Session, NEW n \in Name, NEW p \in Prefix,
         NEW raw \in {n, Clean(n, p)}, NEW kind \in Kind, NEW hash \in BOOLEAN,
         NEW counts, ~hash => counts[kind] = counters[s][kind] + 1
  PROVE  Counted(NewToken(s, raw, kind, hash), counts)
<1>1. counters[s][kind] + 1 \in Nat
  BY DEF TypeOK
<1>2. /\ HashOf[raw] \in Hash /\ HashOf[raw] # Nil
      /\ Digits[kind][HashOf[raw]] \in Nat /\ Digits[kind][HashOf[raw]] <= MaxDigits
  BY HashAssumption
<1>3. 0 <= MaxDigits
  BY DEF MaxDigits
<1>4. CASE hash
  BY <1>2, <1>3, <1>4 DEF NewToken, Counted
<1>5. CASE ~hash
  BY <1>1, <1>5 DEF NewToken, Counted
<1> QED
  BY <1>4, <1>5

\* A step that stores one counted token keeps every book counted.
LEMMA StoreCounted ==
  ASSUME TypeOK, TypeOK', BooksCounted, Grow, NEW s \in Session,
         NEW raw \in RawString, NEW token \in Token, Store(s, raw, token),
         Counted(token, counters'[s])
  PROVE  BooksCounted'
<1> SUFFICES ASSUME NEW q \in Session, NEW tk \in DOMAIN reverse'[q]
             PROVE  Counted(tk, counters'[q])
  BY DEF BooksCounted
<1>1. CASE q = s /\ tk = token
  BY <1>1
<1>2. CASE ~(q = s /\ tk = token)
  <2>1. tk \in DOMAIN reverse[q]
    BY <1>2 DEF Store, Put, TypeOK
  <2>2. Counted(tk, counters[q]) /\ tk \in Token
    BY <2>1 DEF BooksCounted, TypeOK, BookType
  <2>3. counters[q] \in [Kind -> Nat] /\ counters'[q] \in [Kind -> Nat]
    BY DEF TypeOK
  <2> QED
    BY <2>2, <2>3, CountedGrows DEF Grow
<1> QED
  BY <1>1, <1>2

LEMMA RegisterCounted ==
  ASSUME TypeOK, TypeOK', BooksCounted, NEW s \in Session, NEW n \in Name,
         NEW p \in Prefix, NEW raw \in {n, Clean(n, p)}, NEW kind \in Kind,
         NEW hash \in BOOLEAN, RegisterToken(s, raw, kind, hash)
  PROVE  /\ BooksCounted' /\ Grow
         /\ Counted(TokenFor(s, raw, kind, hash), counters'[s])
<1>1. raw \in RawString
  BY CleanType, NameAssumption
<1>2. \A q \in Session, k \in Kind : counters[q][k] \in Nat
  BY DEF TypeOK
<1>3. CASE Known(s, raw)
  <2>1. counters' = counters /\ reverse' = reverse
    BY <1>3 DEF RegisterToken, bookVars
  <2>2. BooksCounted' /\ Grow
    BY <2>1, <1>2 DEF BooksCounted, Grow
  <2>3. forward[s][raw] \in DOMAIN reverse[s]
    BY <1>3 DEF Known, TypeOK, BookType
  <2> QED
    BY <1>3, <2>1, <2>2, <2>3 DEF TokenFor, BooksCounted
<1>4. CASE ~Known(s, raw)
  <2> DEFINE token == NewToken(s, raw, kind, hash)
  <2>1. token \in Token
    BY NewTokenType
  <2>2. Store(s, raw, token)
    BY <1>4 DEF RegisterToken
  <2>3. CASE hash
    <3>1. counters' = counters
      BY <1>4, <2>3 DEF RegisterToken
    <3>2. Grow
      BY <3>1, <1>2 DEF Grow
    <3>3. Counted(token, counters'[s])
      BY <2>3, NewTokenCounted
    <3> QED
      BY <1>1, <1>4, <2>1, <2>2, <3>2, <3>3, StoreCounted DEF TokenFor
  <2>4. CASE ~hash
    <3>1. counters' = [counters EXCEPT ![s][kind] = @ + 1]
      BY <1>4, <2>4 DEF RegisterToken
    <3>2. counters \in [Session -> [Kind -> Nat]]
      BY DEF TypeOK
    <3>3. counters'[s][kind] = counters[s][kind] + 1
      BY <3>1, <3>2
    <3>4. Grow
      BY <3>1, <3>2 DEF Grow
    <3>5. Counted(token, counters'[s])
      BY <3>3, NewTokenCounted
    <3> QED
      BY <1>1, <1>4, <2>1, <2>2, <3>4, <3>5, StoreCounted DEF TokenFor
  <2> QED
    BY <2>3, <2>4
<1> QED
  BY <1>3, <1>4

\* What waits in the threads and lies in the exports stays counted when the
\* counters grow and neither changes.
LEMMA PendingStays ==
  ASSUME TypeOK, TypeOK', PendingCounted, Grow, NEW t \in Thread,
         pending'[t] # Nil, pending'[t] = pending[t]
  PROVE  Counted(pending'[t].token, counters'[pending'[t].session])
<1> DEFINE call == pending[t]
<1>1. call \in PendingCall /\ Counted(call.token, counters[call.session])
  BY DEF PendingCounted, TypeOK
<1>2. call.token \in Token /\ call.session \in Session
  BY <1>1 DEF PendingCall
<1>3. /\ counters[call.session] \in [Kind -> Nat]
      /\ counters'[call.session] \in [Kind -> Nat]
  BY <1>2 DEF TypeOK
<1> QED
  BY <1>1, <1>2, <1>3, CountedGrows DEF Grow

-----------------------------------------------------------------------------
(* The actions                                                             *)

CodebookInv == TypeOK /\ CountInv

LEMMA SanitizeInv ==
  ASSUME CodebookInv, NEW t \in Thread, NEW s \in Session, NEW n \in Name,
         NEW p \in Prefix, NEW kind \in Kind, NEW spelled \in RawString,
         NEW hash \in BOOLEAN, Sanitize(t, s, n, p, kind, spelled, hash)
  PROVE  CodebookInv'
<1> DEFINE token == TokenFor(s, Clean(n, p), kind, hash)
<1>1. TypeOK /\ TypeOK' /\ BooksCounted /\ PendingCounted /\ ExportsCounted
  BY SanitizeType DEF CodebookInv, CountInv
<1>2. RegisterToken(s, Clean(n, p), kind, hash)
  BY DEF Sanitize
<1>3. BooksCounted' /\ Grow /\ Counted(token, counters'[s])
  BY <1>1, <1>2, RegisterCounted
<1>4. PendingCounted'
  <2> SUFFICES ASSUME NEW q \in Thread, pending'[q] # Nil
               PROVE  Counted(pending'[q].token, counters'[pending'[q].session])
    BY DEF PendingCounted
  <2>1. CASE q = t
    <3>1. pending'[q].token = Decorated(p, token) /\ pending'[q].session = s
      BY <2>1, <1>1 DEF Sanitize, TypeOK
    <3> QED
      BY <1>3, <3>1, DecoratedCounted
  <2>2. CASE q # t
    <3>1. pending'[q] = pending[q]
      BY <2>2, <1>1 DEF Sanitize, TypeOK
    <3> QED
      BY <1>1, <1>3, <3>1, PendingStays
  <2> QED
    BY <2>1, <2>2
<1>5. ExportsCounted'
  BY <1>1 DEF Sanitize, ExportsCounted
<1> QED
  BY <1>1, <1>3, <1>4, <1>5 DEF CodebookInv, CountInv

LEMMA RegisterAliasInv ==
  ASSUME CodebookInv, NEW t \in Thread, RegisterAlias(t)
  PROVE  CodebookInv'
<1> DEFINE call == pending[t]
<1>1. TypeOK /\ BooksCounted /\ PendingCounted /\ ExportsCounted
  BY DEF CodebookInv, CountInv
<1>2. call # Nil /\ call \in PendingCall
  BY <1>1 DEF RegisterAlias, TypeOK
<1>3. /\ call.session \in Session /\ call.name \in RawString
      /\ call.alias \in RawString /\ call.token \in Token /\ call.answer \in Token
  BY <1>2 DEF PendingCall
<1>4. /\ Store(call.session, call.alias, call.token)
      /\ told' = told \cup {[session |-> call.session, name |-> call.name,
                             token |-> call.answer]}
      /\ pending' = [pending EXCEPT ![t] = Nil]
      /\ counters' = counters /\ exported' = exported
  BY DEF RegisterAlias, Tell
<1>5. DOMAIN pending' = Thread
      /\ \A q \in Thread : pending'[q] = Nil \/ pending'[q] \in PendingCall
  BY <1>1, <1>4 DEF TypeOK
<1>6. told' \subseteq [session : Session, name : RawString, token : Token]
  BY <1>1, <1>3, <1>4 DEF TypeOK
<1>7. counters' \in [Session -> [Kind -> Nat]]
  BY <1>1, <1>4 DEF TypeOK
<1>8. TypeOK'
  BY <1>1, <1>3, <1>4, <1>5, <1>6, <1>7, StoreType
<1>9. Grow
  BY <1>1, <1>4 DEF Grow, TypeOK
<1>10. Counted(call.token, counters'[call.session])
  BY <1>1, <1>2, <1>4 DEF PendingCounted
<1>11. BooksCounted'
  BY <1>1, <1>3, <1>4, <1>8, <1>9, <1>10, StoreCounted
<1>12. PendingCounted'
  <2> SUFFICES ASSUME NEW q \in Thread, pending'[q] # Nil
               PROVE  Counted(pending'[q].token, counters'[pending'[q].session])
    BY DEF PendingCounted
  <2>1. pending'[q] = pending[q]
    BY <1>1, <1>4 DEF TypeOK
  <2> QED
    BY <1>1, <1>8, <1>9, <2>1, PendingStays
<1>13. ExportsCounted'
  BY <1>1, <1>4 DEF ExportsCounted
<1> QED
  BY <1>8, <1>11, <1>12, <1>13 DEF CodebookInv, CountInv

LEMMA SanitizeOtherInv ==
  ASSUME CodebookInv, NEW t \in Thread, NEW s \in Session, NEW n \in Name,
         NEW kind \in Kind, NEW hash \in BOOLEAN, SanitizeOther(t, s, n, kind, hash)
  PROVE  CodebookInv'
<1>1. TypeOK /\ BooksCounted /\ PendingCounted /\ ExportsCounted
  BY DEF CodebookInv, CountInv
<1>2. /\ RegisterToken(s, n, kind, hash)
      /\ told' = told \cup {[session |-> s, name |-> n,
                             token |-> TokenFor(s, n, kind, hash)]}
      /\ pending' = pending /\ exported' = exported
  BY DEF SanitizeOther, Tell
<1>3. PICK p \in Prefix : n \in {n, Clean(n, p)}
  BY DEF Prefix
<1>4. TokenFor(s, n, kind, hash) \in Token
  BY <1>1, <1>3, TokenForType
<1>5. told' \subseteq [session : Session, name : RawString, token : Token]
  BY <1>1, <1>2, <1>4, NameAssumption DEF TypeOK
<1>6. DOMAIN pending' = Thread
      /\ \A q \in Thread : pending'[q] = Nil \/ pending'[q] \in PendingCall
  BY <1>1, <1>2 DEF TypeOK
<1>7. TypeOK'
  BY <1>1, <1>2, <1>3, <1>5, <1>6, RegisterType
<1>8. BooksCounted' /\ Grow
  BY <1>1, <1>2, <1>3, <1>7, RegisterCounted
<1>9. PendingCounted'
  <2> SUFFICES ASSUME NEW q \in Thread, pending'[q] # Nil
               PROVE  Counted(pending'[q].token, counters'[pending'[q].session])
    BY DEF PendingCounted
  <2> QED
    BY <1>1, <1>2, <1>7, <1>8, PendingStays
<1>10. ExportsCounted'
  BY <1>1, <1>2 DEF ExportsCounted
<1> QED
  BY <1>7, <1>8, <1>9, <1>10 DEF CodebookInv, CountInv

\* Compiling a regex changes nothing that is counted.
LEMMA CompileInv ==
  ASSUME CodebookInv, NEW s \in Session, CompileNeutralize(s) \/ CompileRestore(s)
  PROVE  CodebookInv'
<1>1. TypeOK'
  BY DEF CodebookInv, TypeOK, CompileNeutralize, CompileRestore
<1>2. CountInv'
  BY DEF CodebookInv, CountInv, BooksCounted, PendingCounted, ExportsCounted,
         CompileNeutralize, CompileRestore
<1> QED
  BY <1>1, <1>2 DEF CodebookInv

LEMMA ExportInv ==
  ASSUME CodebookInv, NEW s \in Session, Export(s)
  PROVE  CodebookInv'
<1> DEFINE book == [forward |-> forward[s], reverse |-> reverse[s],
                    counters |-> counters[s]]
<1>1. /\ exported' = exported \cup {book}
      /\ forward' = forward /\ reverse' = reverse /\ counters' = counters
      /\ neutralizeRegex' = neutralizeRegex /\ restoreRegex' = restoreRegex
      /\ pending' = pending /\ told' = told
  BY DEF Export, bookVars, regexVars
<1>2. BookType(book.forward, book.reverse) /\ book.counters \in [Kind -> Nat]
  BY DEF CodebookInv, TypeOK
<1>3. \A b \in exported' : BookType(b.forward, b.reverse) /\ b.counters \in [Kind -> Nat]
  BY <1>1, <1>2 DEF CodebookInv, TypeOK
<1>4. TypeOK'
  BY <1>1, <1>3 DEF CodebookInv, TypeOK
<1>5. \A token \in DOMAIN book.reverse : Counted(token, book.counters)
  BY DEF CodebookInv, CountInv, BooksCounted
<1>6. ExportsCounted'
  BY <1>1, <1>5 DEF CodebookInv, CountInv, ExportsCounted
<1>7. BooksCounted' /\ PendingCounted'
  BY <1>1 DEF CodebookInv, CountInv, BooksCounted, PendingCounted
<1> QED
  BY <1>4, <1>6, <1>7 DEF CodebookInv, CountInv

\* f.update(g) on both maps keeps them a book.
LEMMA UpdateType ==
  ASSUME NEW f, NEW r, BookType(f, r), NEW g, NEW q, BookType(g, q)
  PROVE  /\ BookType(Update(f, g), Update(r, q))
         /\ DOMAIN Update(r, q) = DOMAIN r \cup DOMAIN q
  BY DEF BookType, Update

\* The counters after an import: no smaller than before, and no smaller than
\* any number among the tokens then known.
LEMMA ReconciledLargest ==
  ASSUME CodebookInv, NEW s \in Session, NEW b \in exported, NEW keys,
         NEW tokens, \A token \in tokens : token \in DOMAIN reverse[s]
                                           \/ token \in DOMAIN b.reverse
  PROVE  /\ Reconciled(s, b, keys, tokens) \in [Kind -> Nat]
         /\ \A k \in Kind : counters[s][k] <= Reconciled(s, b, keys, tokens)[k]
         /\ \A token \in tokens : Readable(token) =>
              token.core.num <= Reconciled(s, b, keys, tokens)[token.core.kind]
<1>1. /\ counters[s] \in [Kind -> Nat] /\ b.counters \in [Kind -> Nat]
      /\ BookType(forward[s], reverse[s]) /\ BookType(b.forward, b.reverse)
  BY DEF CodebookInv, TypeOK
<1>2. MaxDigits \in Nat
  BY DEF MaxDigits
<1>3. \A token \in tokens : /\ token \in Token
                            /\ Counted(token, counters[s]) \/ Counted(token, b.counters)
  BY <1>1 DEF BookType, CodebookInv, CountInv, BooksCounted, ExportsCounted
<1>4. \A k \in Kind :
        LET N == Numbers(s, b, k, keys, tokens)
        IN Largest(N) \in Nat /\ \A n \in N : n <= Largest(N)
  <2> TAKE k \in Kind
  <2> DEFINE N == Numbers(s, b, k, keys, tokens)
             bound == counters[s][k] + b.counters[k] + MaxDigits
  <2>1. counters[s][k] \in Nat /\ b.counters[k] \in Nat
    BY <1>1
  <2>2. bound \in Nat /\ counters[s][k] <= bound /\ b.counters[k] <= bound
        /\ MaxDigits <= bound
    BY <2>1, <1>2
  <2>3. \A token \in tokens : token.core.kind = k /\ Readable(token) =>
          token.core.num \in Nat /\ token.core.num <= bound
    <3> TAKE token \in tokens
    <3> HAVE token.core.kind = k /\ Readable(token)
    <3> HIDE DEF bound
    <3>1. token.core.num \in Nat
      BY <1>3 DEF Token, TokenCore
    <3>2. \/ token.core.num <= MaxDigits
          \/ token.core.num <= counters[s][k]
          \/ token.core.num <= b.counters[k]
      BY <1>3 DEF Counted
    <3> QED
      BY <3>1, <3>2, <2>1, <2>2, <1>2
  <2> HIDE DEF bound
  <2>4. \A n \in N : n \in Nat /\ n <= bound
    BY <2>1, <2>2, <2>3 DEF Numbers
  <2>5. N # {}
    BY DEF Numbers
  <2> HIDE DEF N
  <2>6. Largest(N) \in N /\ \A n \in N : n <= Largest(N)
    BY <2>2, <2>4, <2>5, LargestIsLargest
  <2> QED
    BY <2>4, <2>6 DEF N
<1>5. Reconciled(s, b, keys, tokens) \in [Kind -> Nat]
  BY <1>4 DEF Reconciled
<1>6. \A k \in Kind : counters[s][k] <= Reconciled(s, b, keys, tokens)[k]
  <2> TAKE k \in Kind
  <2>1. counters[s][k] \in Numbers(s, b, k, keys, tokens)
    BY DEF Numbers
  <2> QED
    BY <1>4, <2>1 DEF Reconciled
<1>7. ASSUME NEW token \in tokens, Readable(token)
      PROVE  token.core.num <= Reconciled(s, b, keys, tokens)[token.core.kind]
  <2>1. token.core.kind \in Kind
    BY <1>3 DEF Token, TokenCore
  <2>2. token.core.num \in Numbers(s, b, token.core.kind, keys, tokens)
    BY <1>7 DEF Numbers
  <2> QED
    BY <1>4, <2>1, <2>2 DEF Reconciled
<1> QED
  BY <1>5, <1>6, <1>7

LEMMA ImportInv ==
  ASSUME CodebookInv, NEW s \in Session, NEW b \in exported, NEW keys \in Imports,
         Import(s, b, keys)
  PROVE  CodebookInv'
<1> DEFINE f == Given(b, "forward", keys)
           r == Given(b, "reverse", keys)
           tokens == DOMAIN reverse'[s]
           new == Reconciled(s, b, keys, tokens)
<1>1. TypeOK /\ BooksCounted /\ PendingCounted /\ ExportsCounted
  BY DEF CodebookInv, CountInv
<1>2. PICK fwd \in Completed(f, r), rev \in Completed(r, f) :
        /\ forward' = [forward EXCEPT ![s] = Update(@, fwd)]
        /\ reverse' = [reverse EXCEPT ![s] = Update(@, rev)]
  BY DEF Import
<1>3. /\ counters' = [counters EXCEPT ![s] = new]
      /\ neutralizeRegex' = [neutralizeRegex EXCEPT ![s] = Nil]
      /\ restoreRegex' = [restoreRegex EXCEPT ![s] = Nil]
      /\ pending' = pending /\ exported' = exported /\ told' = told
  BY DEF Import
<1>4. BookType(forward[s], reverse[s]) /\ BookType(b.forward, b.reverse)
  BY <1>1 DEF TypeOK
<1>5. keys \in SUBSET BookKeys
  BY BoundAssumption
<1>6. BookType(fwd, rev) /\ DOMAIN rev \subseteq DOMAIN b.reverse
  BY <1>4, <1>5, CompletedType
<1>7. forward'[s] = Update(forward[s], fwd) /\ reverse'[s] = Update(reverse[s], rev)
  BY <1>1, <1>2 DEF TypeOK
<1>8. BookType(forward'[s], reverse'[s])
      /\ tokens = DOMAIN reverse[s] \cup DOMAIN rev
  <2>1. /\ BookType(Update(forward[s], fwd), Update(reverse[s], rev))
        /\ DOMAIN Update(reverse[s], rev) = DOMAIN reverse[s] \cup DOMAIN rev
    BY <1>4, <1>6, UpdateType
  <2> QED
    BY <2>1, <1>7, Zenon
<1>9. /\ new \in [Kind -> Nat]
      /\ \A k \in Kind : counters[s][k] <= new[k]
      /\ \A token \in tokens :
           Readable(token) => token.core.num <= new[token.core.kind]
  BY <1>6, <1>8, ReconciledLargest
<1> HIDE DEF f, r, tokens, new
<1>10. \A q \in Session \ {s} : /\ forward'[q] = forward[q] /\ reverse'[q] = reverse[q]
                                /\ counters'[q] = counters[q]
                                /\ neutralizeRegex'[q] = neutralizeRegex[q]
                                /\ restoreRegex'[q] = restoreRegex[q]
  BY <1>1, <1>2, <1>3 DEF TypeOK
<1>11. /\ counters'[s] = new
       /\ neutralizeRegex'[s] = Nil /\ restoreRegex'[s] = Nil
  BY <1>1, <1>3 DEF TypeOK
<1>12. TypeOK'
  <2>1. \A q \in Session : BookType(forward'[q], reverse'[q])
    BY <1>1, <1>8, <1>10 DEF TypeOK
  <2>2. \A q \in Session : /\ neutralizeRegex'[q] \in {Nil, DOMAIN forward'[q]}
                           /\ restoreRegex'[q] \in {Nil, DOMAIN reverse'[q]}
    BY <1>1, <1>10, <1>11 DEF TypeOK
  <2>3. counters' \in [Session -> [Kind -> Nat]]
    BY <1>1, <1>3, <1>9 DEF TypeOK
  <2>4. /\ DOMAIN forward' = Session /\ DOMAIN reverse' = Session
        /\ DOMAIN neutralizeRegex' = Session /\ DOMAIN restoreRegex' = Session
    BY <1>1, <1>2, <1>3 DEF TypeOK
  <2> QED
    BY <1>1, <1>3, <2>1, <2>2, <2>3, <2>4 DEF TypeOK
<1>13. Grow
  <2> SUFFICES ASSUME NEW q \in Session, NEW k \in Kind
               PROVE  counters[q][k] <= counters'[q][k]
    BY DEF Grow
  <2>1. counters[q][k] \in Nat
    BY <1>1 DEF TypeOK
  <2> QED
    BY <2>1, <1>9, <1>10, <1>11
<1>14. BooksCounted'
  <2> SUFFICES ASSUME NEW q \in Session, NEW token \in DOMAIN reverse'[q]
               PROVE  Counted(token, counters'[q])
    BY DEF BooksCounted
  <2>1. CASE q = s
    <3>1. Readable(token) => token.core.num <= counters'[s][token.core.kind]
      BY <2>1, <1>9, <1>11 DEF tokens
    <3>2. Counted(token, counters[s]) \/ Counted(token, b.counters)
      BY <2>1, <1>1, <1>6, <1>8 DEF tokens, BooksCounted, ExportsCounted
    <3> QED
      BY <2>1, <3>1, <3>2 DEF Counted
  <2>2. CASE q # s
    BY <2>2, <1>1, <1>10 DEF BooksCounted
  <2> QED
    BY <2>1, <2>2
<1>15. PendingCounted'
  <2> SUFFICES ASSUME NEW q \in Thread, pending'[q] # Nil
               PROVE  Counted(pending'[q].token, counters'[pending'[q].session])
    BY DEF PendingCounted
  <2> QED
    BY <1>1, <1>3, <1>12, <1>13, PendingStays
<1>16. ExportsCounted'
  BY <1>1, <1>3 DEF ExportsCounted
<1> QED
  BY <1>12, <1>14, <1>15, <1>16 DEF CodebookInv, CountInv

-----------------------------------------------------------------------------
(* The theorems                                                            *)

LEMMA CodebookInit ==
  ASSUME Init PROVE CodebookInv
<1>1. TypeOK
  BY DEF Init, TypeOK, BookType, Empty
<1>2. CountInv
  BY DEF Init, CountInv, BooksCounted, PendingCounted, ExportsCounted, Empty
<1> QED
  BY <1>1, <1>2 DEF CodebookInv

LEMMA CodebookNext ==
  ASSUME CodebookInv, [Next]_vars
  PROVE  CodebookInv'
<1>1. ASSUME NEW t \in Thread, NEW s \in Session, NEW hash \in HashModes,
             Call(t, s, hash)
      PROVE  CodebookInv'
  <2>1. hash \in BOOLEAN
    BY BoundAssumption
  <2>2. ASSUME NEW n \in SymbolName, SanitizeSymbol(t, s, n, hash)
        PROVE  CodebookInv'
    <3>1. n \in Name /\ Clean(n, "sym") \in RawString
      BY NameAssumption, CleanType DEF Name, Prefix
    <3>2. "sym" \in Prefix /\ "FUNC" \in Kind
      BY DEF Prefix, Kind
    <3> QED
      BY <2>1, <2>2, <3>1, <3>2, SanitizeInv DEF SanitizeSymbol
  <2>3. ASSUME NEW n \in StringName, SanitizeString(t, s, n, hash)
        PROVE  CodebookInv'
    <3>1. n \in Name /\ Spelling(n) \in RawString
      BY NameAssumption, SpellingType DEF Name
    <3>2. "str" \in Prefix /\ "STR" \in Kind
      BY DEF Prefix, Kind
    <3> QED
      BY <2>1, <2>3, <3>1, <3>2, SanitizeInv DEF SanitizeString
  <2>4. ASSUME NEW n \in OtherName, NEW k \in {"GATE", "ADDR", "DATA"},
               SanitizeOther(t, s, n, k, hash)
        PROVE  CodebookInv'
    BY <2>1, <2>4, SanitizeOtherInv DEF Name, Kind
  <2> QED
    BY <1>1, <2>2, <2>3, <2>4 DEF Call
<1>2. ASSUME NEW t \in Thread, RegisterAlias(t)
      PROVE  CodebookInv'
  BY <1>2, RegisterAliasInv
<1>3. ASSUME NEW s \in Session, CompileNeutralize(s) \/ CompileRestore(s)
      PROVE  CodebookInv'
  BY <1>3, CompileInv
<1>4. ASSUME NEW s \in Session, Export(s)
      PROVE  CodebookInv'
  BY <1>4, ExportInv
<1>5. ASSUME NEW s \in Session, NEW b \in exported, NEW keys \in Imports,
             Import(s, b, keys)
      PROVE  CodebookInv'
  BY <1>5, ImportInv
<1>6. CASE UNCHANGED vars
  <2>1. TypeOK'
    BY <1>6 DEF CodebookInv, TypeOK, vars, bookVars, regexVars
  <2>2. CountInv'
    BY <1>6 DEF CodebookInv, CountInv, BooksCounted, PendingCounted,
                ExportsCounted, vars, bookVars, regexVars
  <2> QED
    BY <2>1, <2>2 DEF CodebookInv
<1> QED
  BY <1>1, <1>2, <1>3, <1>4, <1>5, <1>6 DEF Next

LEMMA CodebookInvariant == Spec => []CodebookInv
<1>1. Init => CodebookInv
  BY CodebookInit
<1>2. CodebookInv /\ [Next]_vars => CodebookInv'
  BY CodebookNext
<1> QED
  BY <1>1, <1>2, PTL DEF Spec

\* Every map, counter, regex and waiting call has its type in every reachable
\* state; in particular a compiled regex always holds exactly the keys of the
\* map it is used on, so neutralize and restore never miss a later name.
THEOREM TypeCorrect == Spec => []TypeOK
<1>1. CodebookInv => TypeOK
  BY DEF CodebookInv
<1> QED
  BY <1>1, CodebookInvariant, PTL

\* No token in a codebook has a number its counter has not reached: the next
\* token handed out is new, whatever threads interleave and whatever codebooks
\* of other sessions were imported before.
THEOREM TokensAreCounted == Spec => []TokensCounted
<1>1. CodebookInv => TokensCounted
  BY DEF CodebookInv, CountInv, BooksCounted, Counted, Readable, TokensCounted
<1> QED
  BY <1>1, CodebookInvariant, PTL

-----------------------------------------------------------------------------
(* The bijection                                                           *)
(*                                                                         *)
(* Bijective is not inductive: register_alias overwrites both maps without *)
(* a look.  What saves it is what the book is made of.  Every entry is a   *)
(* bare name with a bare token, or the alias of a bare name with that      *)
(* name's token under the same decoration (Shaped); the alias a thread is  *)
(* about to store is such an entry too (Waiting).  So an alias that is     *)
(* stored twice is stored with the same token, when the names are          *)
(* Unambiguous.  Exported books are parts of the session's own (Parts).    *)

Bases == {Base(n) : n \in Name}

\* The alias that the mapper gives a bare name, under each prefix.
Spells(p, base, alias) ==
  \/ p = "sym" /\ \E n \in SymbolName :
                    base = Base(n) /\ alias = Decorated(p, Base(n))
  \/ p = "str" /\ \E n \in StringName :
                    base = Base(n) /\ alias = Decorated(p, Spelling(n))

AliasIn(f, alias, token) ==
  \E p \in Prefix, base \in Bases \cap DOMAIN f :
    Spells(p, base, alias) /\ token = Decorated(p, f[base])

ShapedBook(f) ==
  \A x \in DOMAIN f :
    \/ x \in Bases /\ f[x].deco = <<>> /\ f[x].core.hash \in {Nil, HashOf[x]}
    \/ AliasIn(f, x, f[x])

InverseBooks(f, r) ==
  /\ \A x \in DOMAIN f : f[x] \in DOMAIN r /\ r[f[x]] = x
  /\ \A k \in DOMAIN r : r[k] \in DOMAIN f /\ f[r[k]] = k

Shaped  == \A s \in Session : ShapedBook(forward[s])
Mirrored == \A s \in Session : InverseBooks(forward[s], reverse[s])
Waiting ==
  \A t \in Thread : pending[t] # Nil =>
    LET call == pending[t]
        f    == forward[call.session]
    IN /\ AliasIn(f, call.alias, call.token)
       /\ \/ call.name \in DOMAIN f /\ f[call.name] = call.answer
          \/ call.name = call.alias /\ call.answer = call.token
Told ==
  \A e \in told : /\ e.name \in DOMAIN forward[e.session]
                  /\ forward[e.session][e.name] = e.token
Parts ==
  \A b \in exported, s \in Session : Imports # {} =>
    /\ TB!Extends(forward[s], b.forward) /\ TB!Extends(reverse[s], b.reverse)
    /\ InverseBooks(b.forward, b.reverse)

BookInv == CodebookInv /\ Shaped /\ Mirrored /\ Waiting /\ Told /\ Parts

-----------------------------------------------------------------------------
(* Names, decorations and aliases                                          *)

LEMMA OneDecoration ==
  ASSUME NEW p \in Prefix
  PROVE  /\ <<p>> # <<>> /\ Head(<<p>>) = p /\ Tail(<<p>>) = <<>>
         /\ <<p>> \o <<>> = <<p>> /\ <<p>> \in Seq(Prefix)
         /\ Len(<<p>>) = 1 /\ SubSeq(<<p>>, 1, 1) = <<p>>
         /\ SubSeq(<<p>>, 2, 1) = <<>> /\ SubSeq(<<p>>, 1, 0) = <<>>
<1>1. <<p>> # <<>> /\ Len(<<p>>) = 1
  OBVIOUS
<1>2. Head(<<p>>) = p
  OBVIOUS
<1>3. Tail(<<p>>) = <<>>
  OBVIOUS
<1>4. <<p>> \o <<>> = <<p>>
  OBVIOUS
<1>5. <<p>> \in Seq(Prefix)
  OBVIOUS
<1>6. SubSeq(<<p>>, 1, 1) = <<p>>
  BY <1>1, <1>5, SubSeqFull
<1>7. SubSeq(<<p>>, 2, 1) = <<>>
  OBVIOUS
<1>8. SubSeq(<<p>>, 1, 0) = <<>>
  OBVIOUS
<1> QED
  BY <1>1, <1>2, <1>3, <1>4, <1>5, <1>6, <1>7, <1>8

LEMMA BaseType ==
  ASSUME NEW n \in Name
  PROVE  /\ Base(n) \in RawString /\ Base(n) \in Bases
         /\ Base(n).deco = <<>> /\ Base(n).core = n.core
         /\ n \in RawString
<1>1. n \in RawString
  BY NameAssumption
<1>2. <<>> \in Seq(Prefix)
  OBVIOUS
<1> QED
  BY <1>1, <1>2 DEF Base, Bases, RawString

\* The bare form and the spelling of a symbol's and of a string's name.
LEMMA SymbolForms ==
  ASSUME Unambiguous, NEW n \in SymbolName
  PROVE  /\ n \in Name /\ Clean(n, "sym") = Base(n)
         /\ HasPrefix(n, "sym") => n = Decorated("sym", Base(n))
         /\ ~HasPrefix(n, "sym") => n = Base(n)
<1>1. n \in Name
  BY DEF Name
<1>2. n = [deco |-> n.deco, core |-> n.core]
  BY <1>1, NameAssumption DEF RawString
<1>3. n.deco \in {<<>>, <<"sym">>}
  BY DEF Unambiguous
<1>4. "sym" \in Prefix
  BY DEF Prefix
<1>5. CASE n.deco = <<>>
  BY <1>1, <1>2, <1>5 DEF Clean, HasPrefix, Base
<1>6. CASE n.deco = <<"sym">>
  <2>1. HasPrefix(n, "sym") /\ Tail(n.deco) = <<>>
    BY <1>4, <1>6, OneDecoration DEF HasPrefix
  <2>2. <<"sym">> \o <<>> = n.deco
    BY <1>4, <1>6, OneDecoration
  <2> QED
    BY <1>1, <1>2, <2>1, <2>2 DEF Clean, Base, Decorated
<1> QED
  BY <1>3, <1>5, <1>6

LEMMA StringForms ==
  ASSUME Unambiguous, NEW n \in StringName
  PROVE  /\ n \in Name /\ Clean(n, "str") = Base(n)
         /\ Spelling(n) \in RawString /\ Spelling(n).deco = <<>>
         /\ HasPrefix(n, "str") => n = Decorated("str", Spelling(n))
                                   /\ Spelling(n) = Base(n)
         /\ ~HasPrefix(n, "str") => n = Base(n)
<1>1. n \in Name
  BY DEF Name
<1>2. n = [deco |-> n.deco, core |-> n.core] /\ n \in RawString
  BY <1>1, NameAssumption DEF RawString
<1>3. n.deco \in {<<>>, <<"str">>}
  BY DEF Unambiguous
<1>4. "str" \in Prefix
  BY DEF Prefix
<1>5. Spelling(n) \in RawString
  BY <1>2, SpellingType
<1>6. CASE n.deco = <<>>
  BY <1>1, <1>2, <1>5, <1>6 DEF Clean, HasPrefix, Base, Spelling
<1>7. CASE n.deco = <<"str">>
  <2>1. HasPrefix(n, "str") /\ Tail(n.deco) = <<>>
    BY <1>4, <1>7, OneDecoration DEF HasPrefix
  <2>2. <<"str">> \o <<>> = n.deco
    BY <1>4, <1>7, OneDecoration
  <2> QED
    BY <1>1, <1>2, <1>5, <2>1, <2>2 DEF Clean, Base, Decorated, Spelling
<1> QED
  BY <1>3, <1>6, <1>7

\* An alias is one of the raw strings, under one prefix.
LEMMA SpellsType ==
  ASSUME Unambiguous, NEW p \in Prefix, NEW base, NEW alias, Spells(p, base, alias)
  PROVE  base \in Bases /\ alias \in RawString /\ alias.deco = <<p>>
<1>1. CASE p = "sym"
  <2>1. PICK n \in SymbolName : base = Base(n) /\ alias = Decorated(p, Base(n))
    BY <1>1 DEF Spells
  <2>2. n \in Name
    BY DEF Name
  <2>3. alias.deco = <<p>> \o <<>>
    BY <2>1, <2>2, BaseType DEF Decorated
  <2> QED
    BY <2>1, <2>2, <2>3, BaseType, DecoratedType, OneDecoration
<1>2. CASE p = "str"
  <2>1. PICK n \in StringName : base = Base(n) /\ alias = Decorated(p, Spelling(n))
    BY <1>2 DEF Spells
  <2>2. n \in Name /\ Spelling(n) \in RawString /\ Spelling(n).deco = <<>>
    BY StringForms
  <2>3. alias.deco = <<p>> \o <<>>
    BY <2>1, <2>2 DEF Decorated
  <2> QED
    BY <2>1, <2>2, <2>3, BaseType, DecoratedType, OneDecoration
<1> QED
  BY <1>1, <1>2 DEF Prefix

\* A bare name has one alias under a prefix, and an alias is of one name.
LEMMA SpellsOne ==
  ASSUME Unambiguous, NEW p \in Prefix, NEW x, NEW y, NEW a, NEW b,
         Spells(p, x, a), Spells(p, y, b)
  PROVE  x = y <=> a = b
<1>1. CASE p = "sym"
  <2>1. PICK m \in SymbolName : x = Base(m) /\ a = Decorated(p, Base(m))
    BY <1>1 DEF Spells
  <2>2. PICK n \in SymbolName : y = Base(n) /\ b = Decorated(p, Base(n))
    BY <1>1 DEF Spells
  <2>3. a.core = m.core /\ b.core = n.core
    BY <2>1, <2>2 DEF Decorated, Base
  <2>4. m.core = n.core => x = y
    BY <2>1, <2>2 DEF Base
  <2> QED
    BY <2>1, <2>2, <2>3, <2>4
<1>2. CASE p = "str"
  <2>1. PICK m \in StringName : x = Base(m) /\ a = Decorated(p, Spelling(m))
    BY <1>2 DEF Spells
  <2>2. PICK n \in StringName : y = Base(n) /\ b = Decorated(p, Spelling(n))
    BY <1>2 DEF Spells
  <2>3. Spelling(m) = Spelling(n) <=> x = y
    BY <2>1, <2>2 DEF Unambiguous
  <2>4. a.core = Spelling(m).core /\ b.core = Spelling(n).core
    BY <2>1, <2>2 DEF Decorated
  <2>5. Spelling(m).core = Spelling(n).core => Spelling(m) = Spelling(n)
    BY StringForms DEF RawString
  <2> QED
    BY <2>1, <2>2, <2>3, <2>4, <2>5
<1> QED
  BY <1>1, <1>2 DEF Prefix

-----------------------------------------------------------------------------
(* Books                                                                   *)

\* One more pair, new in both maps or there already, keeps them inverse.
LEMMA PutInverse ==
  ASSUME NEW f, NEW r, InverseBooks(f, r), NEW x, NEW token,
         x \in DOMAIN f => f[x] = token, token \in DOMAIN r => r[token] = x
  PROVE  /\ InverseBooks(Put(f, x, token), Put(r, token, x))
         /\ TB!Extends(Put(f, x, token), f) /\ TB!Extends(Put(r, token, x), r)
         /\ x \in DOMAIN Put(f, x, token) /\ Put(f, x, token)[x] = token
         /\ \A y \in DOMAIN Put(f, x, token) : y = x \/ y \in DOMAIN f
  BY DEF InverseBooks, Put, TB!Extends

LEMMA AliasGrows ==
  ASSUME NEW f, NEW g, TB!Extends(g, f), NEW alias, NEW token,
         AliasIn(f, alias, token)
  PROVE  AliasIn(g, alias, token)
  BY DEF AliasIn, TB!Extends

\* What ShapedBook says of a bare name, and of a decorated one.
LEMMA BareEntry ==
  ASSUME Unambiguous, NEW f, ShapedBook(f), NEW x \in Bases, x \in DOMAIN f
  PROVE  f[x].deco = <<>> /\ f[x].core.hash \in {Nil, HashOf[x]}
<1>1. x.deco = <<>>
  BY BaseType DEF Bases
<1>2. ~AliasIn(f, x, f[x])
  BY <1>1, SpellsType, OneDecoration DEF AliasIn
<1> QED
  BY <1>2 DEF ShapedBook

LEMMA AliasToken ==
  ASSUME Unambiguous, NEW f, ShapedBook(f), NEW p \in Prefix,
         NEW base \in Bases, base \in DOMAIN f
  PROVE  Decorated(p, f[base]).deco = <<p>>
<1>1. f[base].deco = <<>>
  BY BareEntry
<1> QED
  BY <1>1, OneDecoration DEF Decorated

\* An alias that is in the book, or whose token is, is there with the token it
\* would be stored with.
LEMMA AliasFits ==
  ASSUME Unambiguous, NEW f, NEW r, BookType(f, r), ShapedBook(f),
         InverseBooks(f, r), NEW alias, NEW token, AliasIn(f, alias, token)
  PROVE  /\ alias \in DOMAIN f => f[alias] = token
         /\ token \in DOMAIN r => r[token] = alias
<1>1. PICK p \in Prefix, base \in Bases \cap DOMAIN f :
        Spells(p, base, alias) /\ token = Decorated(p, f[base])
  BY DEF AliasIn
<1>2. alias.deco = <<p>> /\ token.deco = <<p>>
  BY <1>1, SpellsType, AliasToken
<1>3. ASSUME NEW x \in DOMAIN f, x = alias \/ f[x] = token
      PROVE  \E b \in Bases \cap DOMAIN f :
               Spells(p, b, x) /\ f[x] = Decorated(p, f[b])
  <2>1. x.deco = <<p>> \/ f[x].deco = <<p>>
    BY <1>2, <1>3
  <2>2. ~(x \in Bases /\ f[x].deco = <<>>)
    <3>1. x \in Bases => x.deco = <<>>
      BY BaseType DEF Bases
    <3> QED
      BY <2>1, <3>1, OneDecoration
  <2>3. PICK q \in Prefix, b \in Bases \cap DOMAIN f :
          Spells(q, b, x) /\ f[x] = Decorated(q, f[b])
    BY <2>2 DEF ShapedBook, AliasIn
  <2>4. x.deco = <<q>> /\ f[x].deco = <<q>>
    BY <2>3, SpellsType, AliasToken
  <2>5. Head(<<q>>) = q /\ Head(<<p>>) = p
    BY OneDecoration
  <2>6. p = q
    BY <2>1, <2>4, <2>5
  <2> QED
    BY <2>3, <2>6
<1>4. ASSUME alias \in DOMAIN f PROVE f[alias] = token
  <2>1. PICK b \in Bases \cap DOMAIN f :
          Spells(p, b, alias) /\ f[alias] = Decorated(p, f[b])
    BY <1>3, <1>4
  <2>2. b = base
    BY <1>1, <2>1, SpellsOne
  <2> QED
    BY <1>1, <2>1, <2>2
<1>5. ASSUME token \in DOMAIN r PROVE r[token] = alias
  <2> DEFINE x == r[token]
  <2>1. x \in DOMAIN f /\ f[x] = token
    BY <1>5 DEF InverseBooks
  <2>2. PICK b \in Bases \cap DOMAIN f :
          Spells(p, b, x) /\ f[x] = Decorated(p, f[b])
    BY <1>3, <2>1
  <2>3. f[b].core = f[base].core
    BY <1>1, <2>1, <2>2 DEF Decorated
  <2>4. f[b].deco = <<>> /\ f[base].deco = <<>>
    BY BareEntry
  <2>5. f[b] \in Token /\ f[base] \in Token
    BY DEF BookType
  <2>6. f[b] = f[base]
    BY <2>3, <2>4, <2>5 DEF Token
  <2>7. b = base
    BY <2>6 DEF InverseBooks
  <2> QED
    BY <1>1, <2>2, <2>7, SpellsOne
<1> QED
  BY <1>4, <1>5

-----------------------------------------------------------------------------
(* What a step does to the books                                           *)

\* Every session's book only gains entries, and stays what it was.
Learned ==
  \A s \in Session :
    /\ TB!Extends(forward'[s], forward[s]) /\ TB!Extends(reverse'[s], reverse[s])
    /\ InverseBooks(forward'[s], reverse'[s]) /\ ShapedBook(forward'[s])

LEMMA ExtendsItself ==
  ASSUME NEW f PROVE TB!Extends(f, f)
  BY DEF TB!Extends

LEMMA ExtendsTransitive ==
  ASSUME NEW f, NEW g, NEW h, TB!Extends(g, f), TB!Extends(h, g)
  PROVE  TB!Extends(h, f)
  BY DEF TB!Extends

\* Nothing new.
LEMMA SameBooks ==
  ASSUME BookInv, NEW s \in Session, forward'[s] = forward[s],
         reverse'[s] = reverse[s]
  PROVE  /\ TB!Extends(forward'[s], forward[s]) /\ TB!Extends(reverse'[s], reverse[s])
         /\ InverseBooks(forward'[s], reverse'[s]) /\ ShapedBook(forward'[s])
  BY ExtendsItself DEF BookInv, Mirrored, Shaped

LEMMA StoreBooks ==
  ASSUME BookInv, Unambiguous, NEW s \in Session, NEW x, NEW token,
         Store(s, x, token),
         x \in DOMAIN forward[s] => forward[s][x] = token,
         token \in DOMAIN reverse[s] => reverse[s][token] = x,
         \/ x \in Bases /\ token.deco = <<>> /\ token.core.hash \in {Nil, HashOf[x]}
         \/ AliasIn(forward[s], x, token)
  PROVE  /\ Learned
         /\ x \in DOMAIN forward'[s] /\ forward'[s][x] = token
<1> DEFINE f == forward[s]
           g == forward'[s]
<1>1. /\ InverseBooks(f, reverse[s]) /\ ShapedBook(f)
      /\ DOMAIN forward = Session /\ DOMAIN reverse = Session
  BY DEF BookInv, Mirrored, Shaped, CodebookInv, TypeOK
<1>2. g = Put(f, x, token) /\ reverse'[s] = Put(reverse[s], token, x)
  BY <1>1 DEF Store
<1>3. /\ InverseBooks(g, reverse'[s])
      /\ TB!Extends(g, f) /\ TB!Extends(reverse'[s], reverse[s])
      /\ x \in DOMAIN g /\ g[x] = token
      /\ \A y \in DOMAIN g : y = x \/ y \in DOMAIN f
  BY <1>1, <1>2, PutInverse
<1>4. ShapedBook(g)
  <2> SUFFICES ASSUME NEW y \in DOMAIN g
               PROVE  \/ /\ y \in Bases /\ g[y].deco = <<>>
                         /\ g[y].core.hash \in {Nil, HashOf[y]}
                      \/ AliasIn(g, y, g[y])
    BY DEF ShapedBook
  <2>1. CASE y = x
    BY <2>1, <1>3, AliasGrows
  <2>2. CASE y # x
    <3>1. y \in DOMAIN f /\ g[y] = f[y]
      BY <2>2, <1>3 DEF TB!Extends
    <3> QED
      BY <3>1, <1>1, <1>3, AliasGrows DEF ShapedBook
  <2> QED
    BY <2>1, <2>2
<1>5. ASSUME NEW q \in Session, q # s
      PROVE  forward'[q] = forward[q] /\ reverse'[q] = reverse[q]
  BY <1>1, <1>5 DEF Store
<1> QED
  BY <1>3, <1>4, <1>5, SameBooks DEF Learned

\* A bare name is one of those the type lemmas speak of.
LEMMA BaseForms ==
  ASSUME Unambiguous, NEW base \in Bases
  PROVE  \E n \in Name, p \in Prefix : base \in {n, Clean(n, p)}
<1>1. PICK n \in Name : base = Base(n)
  BY DEF Bases
<1>2. "sym" \in Prefix /\ "str" \in Prefix
  BY DEF Prefix
<1>3. CASE n \in SymbolName
  BY <1>1, <1>2, <1>3, SymbolForms
<1>4. CASE n \in StringName
  BY <1>1, <1>2, <1>4, StringForms
<1>5. CASE n \in OtherName
  <2>1. n.deco = <<>> /\ n \in RawString
    BY <1>5, BaseType DEF Unambiguous
  <2>2. n = Base(n)
    BY <2>1 DEF Base, RawString
  <2> QED
    BY <1>1, <1>2, <2>2
<1> QED
  BY <1>3, <1>4, <1>5 DEF Name

\* The token a name is about to get is in nobody's possession.
LEMMA NewTokenUnused ==
  ASSUME BookInv, Unambiguous, NEW s \in Session, NEW base \in Bases,
         NEW kind \in Kind, NEW hash \in HashModes, ~Known(s, base)
  PROVE  LET token == NewToken(s, base, kind, hash)
         IN /\ token \notin DOMAIN reverse[s]
            /\ token.deco = <<>> /\ token.core.hash \in {Nil, HashOf[base]}
<1> DEFINE token == NewToken(s, base, kind, hash)
<1>1. hash \in BOOLEAN
  BY BoundAssumption
<1>2. PICK n \in Name, p \in Prefix : base \in {n, Clean(n, p)}
  BY BaseForms
<1>3. HashOf[base] \in Hash /\ HashOf[base] # Nil
  BY <1>2, HashAssumption
<1>4. /\ token.deco = <<>>
      /\ hash => token.core.hash = HashOf[base]
      /\ ~hash => /\ token.core.hash = Nil /\ token.core.kind = kind
                  /\ token.core.num = counters[s][kind] + 1
  BY DEF NewToken
<1>5. TypeOK /\ BooksCounted
  BY DEF BookInv, CodebookInv, CountInv
<1>6. ASSUME token \in DOMAIN reverse[s] PROVE FALSE
  <2> DEFINE x == reverse[s][token]
  <2>1. x \in DOMAIN forward[s] /\ forward[s][x] = token
    BY <1>6 DEF BookInv, Mirrored, InverseBooks
  <2>2. ~AliasIn(forward[s], x, token)
    <3>1. ShapedBook(forward[s])
      BY DEF BookInv, Shaped
    <3>2. ASSUME NEW q \in Prefix, NEW b \in Bases \cap DOMAIN forward[s],
                 token = Decorated(q, forward[s][b])
          PROVE  FALSE
      BY <1>4, <3>1, <3>2, AliasToken, OneDecoration
    <3> QED
      BY <3>2 DEF AliasIn
  <2>3. x \in Bases /\ token.core.hash \in {Nil, HashOf[x]}
    BY <2>1, <2>2 DEF BookInv, Shaped, ShapedBook
  <2>4. CASE hash
    <3>1. HashOf[x] = HashOf[base]
      BY <1>3, <1>4, <2>3, <2>4
    <3>2. x = base
      BY <2>3, <2>4, <3>1 DEF Unambiguous, Bases
    <3> QED
      BY <2>1, <3>2 DEF Known
  <2>5. CASE ~hash
    <3>1. token.core.num <= counters[s][kind]
      BY <1>4, <1>5, <1>6, <2>5 DEF BooksCounted, Counted, Readable
    <3>2. counters[s][kind] \in Nat
      BY <1>5 DEF TypeOK
    <3> QED
      BY <3>1, <3>2, <1>4, <2>5
  <2> QED
    BY <1>1, <2>4, <2>5
<1> QED
  BY <1>1, <1>4, <1>6

LEMMA RegisterBooks ==
  ASSUME BookInv, Unambiguous, NEW s \in Session, NEW base \in Bases,
         NEW kind \in Kind, NEW hash \in HashModes,
         RegisterToken(s, base, kind, hash)
  PROVE  /\ Learned
         /\ base \in DOMAIN forward'[s]
         /\ forward'[s][base] = TokenFor(s, base, kind, hash)
<1>1. CASE Known(s, base)
  <2>1. forward' = forward /\ reverse' = reverse
    BY <1>1 DEF RegisterToken, bookVars
  <2> QED
    BY <1>1, <2>1, SameBooks DEF Learned, Known, TokenFor
<1>2. CASE ~Known(s, base)
  <2> DEFINE token == NewToken(s, base, kind, hash)
  <2>1. Store(s, base, token) /\ TokenFor(s, base, kind, hash) = token
    BY <1>2 DEF RegisterToken, TokenFor
  <2>2. /\ token \notin DOMAIN reverse[s]
        /\ token.deco = <<>> /\ token.core.hash \in {Nil, HashOf[base]}
    BY <1>2, NewTokenUnused
  <2>3. base \notin DOMAIN forward[s]
    BY <1>2 DEF Known
  <2> HIDE DEF token
  <2> QED
    BY <2>1, <2>2, <2>3, StoreBooks
<1> QED
  BY <1>1, <1>2

LEMMA AliasBooks ==
  ASSUME BookInv, Unambiguous, NEW s \in Session, NEW alias, NEW token,
         AliasIn(forward[s], alias, token), Store(s, alias, token)
  PROVE  /\ Learned
         /\ alias \in DOMAIN forward'[s] /\ forward'[s][alias] = token
<1>1. /\ BookType(forward[s], reverse[s]) /\ ShapedBook(forward[s])
      /\ InverseBooks(forward[s], reverse[s])
  BY DEF BookInv, Mirrored, Shaped, CodebookInv, TypeOK
<1>2. /\ alias \in DOMAIN forward[s] => forward[s][alias] = token
      /\ token \in DOMAIN reverse[s] => reverse[s][token] = alias
  BY <1>1, AliasFits
<1> QED
  BY <1>2, StoreBooks

\* The own book gives nothing new, whichever of its maps are missing: there is
\* one inverse of a map without duplicates.
LEMMA CompletedPart ==
  ASSUME NEW f, NEW r, NEW b, InverseBooks(f, r), InverseBooks(b.forward, b.reverse),
         TB!Extends(f, b.forward), TB!Extends(r, b.reverse), NEW keys,
         NEW fwd \in Completed(Given(b, "forward", keys), Given(b, "reverse", keys)),
         NEW rev \in Completed(Given(b, "reverse", keys), Given(b, "forward", keys))
  PROVE  TB!Extends(f, fwd) /\ TB!Extends(r, rev)
<1> USE DEF TB!Extends, InverseBooks
<1>1. Given(b, "forward", keys) \in {b.forward, Empty}
      /\ Given(b, "reverse", keys) \in {b.reverse, Empty}
  BY DEF Given
<1>2. TB!Extends(f, Empty) /\ TB!Extends(r, Empty)
  BY DEF Empty
<1>3. ASSUME NEW g \in Inversions(b.reverse) PROVE TB!Extends(f, g)
  BY <1>3 DEF Inversions, Image
<1>4. ASSUME NEW g \in Inversions(b.forward) PROVE TB!Extends(r, g)
  BY <1>4 DEF Inversions, Image
<1>5. ASSUME NEW g \in Inversions(Empty) PROVE TB!Extends(f, g) /\ TB!Extends(r, g)
  BY <1>5 DEF Inversions, Image, Empty
<1>6. TB!Extends(f, fwd)
  BY <1>1, <1>2, <1>3, <1>5 DEF Completed
<1>7. TB!Extends(r, rev)
  BY <1>1, <1>2, <1>4, <1>5 DEF Completed
<1> QED
  BY <1>6, <1>7

\* f.update(g) with a part of f.
LEMMA UpdatePart ==
  ASSUME NEW f, NEW g, TB!Extends(f, g)
  PROVE  /\ DOMAIN Update(f, g) = DOMAIN f
         /\ \A x \in DOMAIN f : Update(f, g)[x] = f[x]
  BY DEF Update, TB!Extends

LEMMA ImportBooks ==
  ASSUME BookInv, Unambiguous, NEW s \in Session, NEW b \in exported,
         NEW keys \in Imports, Import(s, b, keys)
  PROVE  Learned
<1>1. PICK fwd \in Completed(Given(b, "forward", keys), Given(b, "reverse", keys)),
           rev \in Completed(Given(b, "reverse", keys), Given(b, "forward", keys)) :
        /\ forward' = [forward EXCEPT ![s] = Update(@, fwd)]
        /\ reverse' = [reverse EXCEPT ![s] = Update(@, rev)]
  BY DEF Import
<1>2. /\ InverseBooks(forward[s], reverse[s]) /\ ShapedBook(forward[s])
      /\ DOMAIN forward = Session /\ DOMAIN reverse = Session
  BY DEF BookInv, Mirrored, Shaped, CodebookInv, TypeOK
<1>3. /\ TB!Extends(forward[s], b.forward) /\ TB!Extends(reverse[s], b.reverse)
      /\ InverseBooks(b.forward, b.reverse)
  BY DEF BookInv, Parts
<1>4. TB!Extends(forward[s], fwd) /\ TB!Extends(reverse[s], rev)
  BY <1>2, <1>3, CompletedPart
<1>5. forward'[s] = Update(forward[s], fwd) /\ reverse'[s] = Update(reverse[s], rev)
  BY <1>1, <1>2
<1>6. /\ DOMAIN forward'[s] = DOMAIN forward[s]
      /\ \A x \in DOMAIN forward[s] : forward'[s][x] = forward[s][x]
      /\ DOMAIN reverse'[s] = DOMAIN reverse[s]
      /\ \A x \in DOMAIN reverse[s] : reverse'[s][x] = reverse[s][x]
  BY <1>4, <1>5, UpdatePart
<1>7. TB!Extends(forward'[s], forward[s]) /\ TB!Extends(reverse'[s], reverse[s])
  BY <1>6 DEF TB!Extends
<1>8. InverseBooks(forward'[s], reverse'[s])
  BY <1>2, <1>6 DEF InverseBooks
<1>9. ShapedBook(forward'[s])
  <2> SUFFICES ASSUME NEW x \in DOMAIN forward'[s]
               PROVE  \/ /\ x \in Bases /\ forward'[s][x].deco = <<>>
                         /\ forward'[s][x].core.hash \in {Nil, HashOf[x]}
                      \/ AliasIn(forward'[s], x, forward'[s][x])
    BY DEF ShapedBook
  <2>1. x \in DOMAIN forward[s] /\ forward'[s][x] = forward[s][x]
    BY <1>6
  <2> QED
    BY <1>2, <1>7, <2>1, AliasGrows DEF ShapedBook
<1>10. \A q \in Session \ {s} : forward'[q] = forward[q] /\ reverse'[q] = reverse[q]
  BY <1>1, <1>2
<1> QED
  BY <1>7, <1>8, <1>9, <1>10, SameBooks DEF Learned

-----------------------------------------------------------------------------
(* The invariant of the books                                              *)

LEMMA WaitingStays ==
  ASSUME BookInv, Learned, NEW t \in Thread, pending[t] # Nil,
         pending'[t] = pending[t]
  PROVE  LET call == pending'[t]
             f    == forward'[call.session]
         IN /\ AliasIn(f, call.alias, call.token)
            /\ \/ call.name \in DOMAIN f /\ f[call.name] = call.answer
               \/ call.name = call.alias /\ call.answer = call.token
<1> DEFINE call == pending[t]
           f == forward[call.session]
           g == forward'[call.session]
<1>1. call.session \in Session
  BY DEF BookInv, CodebookInv, TypeOK, PendingCall
<1>2. TB!Extends(g, f)
  BY <1>1 DEF Learned
<1>3. /\ AliasIn(f, call.alias, call.token)
      /\ \/ call.name \in DOMAIN f /\ f[call.name] = call.answer
         \/ call.name = call.alias /\ call.answer = call.token
  BY DEF BookInv, Waiting
<1> HIDE DEF call, f, g
<1>4. AliasIn(g, call.alias, call.token)
  BY <1>2, <1>3, AliasGrows
<1>5. \/ call.name \in DOMAIN g /\ g[call.name] = call.answer
      \/ call.name = call.alias /\ call.answer = call.token
  BY <1>2, <1>3 DEF TB!Extends
<1> QED
  BY <1>4, <1>5 DEF call, f, g

LEMMA ToldStays ==
  ASSUME BookInv, Learned, NEW e \in told
  PROVE  e.name \in DOMAIN forward'[e.session] /\ forward'[e.session][e.name] = e.token
<1>1. e.session \in Session
  BY DEF BookInv, CodebookInv, TypeOK
<1> QED
  BY <1>1 DEF BookInv, Told, Learned, TB!Extends

LEMMA PartsStay ==
  ASSUME BookInv, Learned, exported' = exported
  PROVE  Parts'
<1> SUFFICES ASSUME NEW b \in exported, NEW s \in Session, Imports # {}
             PROVE  /\ TB!Extends(forward'[s], b.forward)
                    /\ TB!Extends(reverse'[s], b.reverse)
                    /\ InverseBooks(b.forward, b.reverse)
  BY DEF Parts
<1>1. /\ TB!Extends(forward[s], b.forward) /\ TB!Extends(reverse[s], b.reverse)
      /\ InverseBooks(b.forward, b.reverse)
  BY DEF BookInv, Parts
<1> QED
  BY <1>1, ExtendsTransitive DEF Learned

\* A step that changes no call, no answer and no export needs to be looked at
\* for the books only.
LEMMA BooksOnly ==
  ASSUME BookInv, CodebookInv', Learned,
         pending' = pending, told' = told, exported' = exported
  PROVE  BookInv'
<1>1. Shaped' /\ Mirrored'
  BY DEF Learned, Shaped, Mirrored
<1>2. Waiting'
  <2> SUFFICES ASSUME NEW t \in Thread, pending'[t] # Nil
               PROVE  LET call == pending'[t]
                          f    == forward'[call.session]
                      IN /\ AliasIn(f, call.alias, call.token)
                         /\ \/ call.name \in DOMAIN f /\ f[call.name] = call.answer
                            \/ call.name = call.alias /\ call.answer = call.token
    BY DEF Waiting
  <2> QED
    BY WaitingStays
<1>3. Told'
  BY ToldStays DEF Told
<1> QED
  BY <1>1, <1>2, <1>3, PartsStay DEF BookInv

LEMMA SanitizeBooks ==
  ASSUME BookInv, CodebookInv', Unambiguous, NEW t \in Thread, NEW s \in Session,
         NEW n \in Name, NEW p \in Prefix, NEW kind \in Kind, NEW spelled,
         NEW hash \in HashModes, Sanitize(t, s, n, p, kind, spelled, hash),
         Clean(n, p) = Base(n), Spells(p, Base(n), Decorated(p, spelled)),
         HasPrefix(n, p) => n = Decorated(p, spelled),
         ~HasPrefix(n, p) => n = Base(n)
  PROVE  BookInv'
<1> DEFINE base == Base(n)
           token == TokenFor(s, base, kind, hash)
           call == [session |-> s, name |-> n, alias |-> Decorated(p, spelled),
                    token |-> Decorated(p, token),
                    answer |-> IF HasPrefix(n, p)
                               THEN Decorated(p, token) ELSE token]
<1>1. /\ RegisterToken(s, base, kind, hash)
      /\ pending' = [pending EXCEPT ![t] = call]
      /\ told' = told /\ exported' = exported
  BY DEF Sanitize
<1>2. base \in Bases
  BY BaseType
<1>3. Learned /\ base \in DOMAIN forward'[s] /\ forward'[s][base] = token
  BY <1>1, <1>2, RegisterBooks
<1>4. AliasIn(forward'[s], call.alias, call.token)
  BY <1>2, <1>3 DEF AliasIn
<1>5. \/ call.name \in DOMAIN forward'[s] /\ forward'[s][call.name] = call.answer
      \/ call.name = call.alias /\ call.answer = call.token
  BY <1>3
<1>6. pending'[t] = call /\ \A q \in Thread : q # t => pending'[q] = pending[q]
  BY <1>1 DEF BookInv, CodebookInv, TypeOK
<1>7. call.session = s
  OBVIOUS
<1> HIDE DEF call, token, base
<1>8. Waiting'
  <2> SUFFICES ASSUME NEW q \in Thread, pending'[q] # Nil
               PROVE  LET c == pending'[q]
                          f == forward'[c.session]
                      IN /\ AliasIn(f, c.alias, c.token)
                         /\ \/ c.name \in DOMAIN f /\ f[c.name] = c.answer
                            \/ c.name = c.alias /\ c.answer = c.token
    BY DEF Waiting
  <2>1. CASE q = t
    BY <2>1, <1>4, <1>5, <1>6, <1>7
  <2>2. CASE q # t
    BY <2>2, <1>3, <1>6, WaitingStays
  <2> QED
    BY <2>1, <2>2
<1>9. Shaped' /\ Mirrored'
  BY <1>3 DEF Learned, Shaped, Mirrored
<1>10. Told'
  BY <1>1, <1>3, ToldStays DEF Told
<1> QED
  BY <1>1, <1>3, <1>8, <1>9, <1>10, PartsStay DEF BookInv

LEMMA RegisterAliasBooks ==
  ASSUME BookInv, CodebookInv', Unambiguous, NEW t \in Thread, RegisterAlias(t)
  PROVE  BookInv'
<1> DEFINE call == pending[t]
           s == call.session
<1>1. call # Nil /\ s \in Session
  BY DEF RegisterAlias, BookInv, CodebookInv, TypeOK, PendingCall
<1>2. /\ Store(s, call.alias, call.token)
      /\ told' = told \cup {[session |-> s, name |-> call.name,
                             token |-> call.answer]}
      /\ pending' = [pending EXCEPT ![t] = Nil] /\ exported' = exported
  BY DEF RegisterAlias, Tell
<1>3. /\ AliasIn(forward[s], call.alias, call.token)
      /\ \/ call.name \in DOMAIN forward[s] /\ forward[s][call.name] = call.answer
         \/ call.name = call.alias /\ call.answer = call.token
  BY <1>1 DEF BookInv, Waiting
<1> HIDE DEF call, s
<1>4. Learned /\ call.alias \in DOMAIN forward'[s]
      /\ forward'[s][call.alias] = call.token
  BY <1>1, <1>2, <1>3, AliasBooks
<1>5. call.name \in DOMAIN forward'[s] /\ forward'[s][call.name] = call.answer
  BY <1>1, <1>3, <1>4 DEF Learned, TB!Extends
<1>6. Told'
  <2> SUFFICES ASSUME NEW e \in told'
               PROVE  /\ e.name \in DOMAIN forward'[e.session]
                      /\ forward'[e.session][e.name] = e.token
    BY DEF Told
  <2>1. CASE e \in told
    BY <2>1, <1>4, ToldStays
  <2>2. CASE e = [session |-> s, name |-> call.name, token |-> call.answer]
    BY <2>2, <1>5
  <2> QED
    BY <2>1, <2>2, <1>2
<1>7. Waiting'
  <2> SUFFICES ASSUME NEW q \in Thread, pending'[q] # Nil
               PROVE  LET c == pending'[q]
                          f == forward'[c.session]
                      IN /\ AliasIn(f, c.alias, c.token)
                         /\ \/ c.name \in DOMAIN f /\ f[c.name] = c.answer
                            \/ c.name = c.alias /\ c.answer = c.token
    BY DEF Waiting
  <2>1. pending'[q] = pending[q]
    BY <1>2 DEF BookInv, CodebookInv, TypeOK
  <2> QED
    BY <2>1, <1>4, WaitingStays
<1>8. Shaped' /\ Mirrored'
  BY <1>4 DEF Learned, Shaped, Mirrored
<1> QED
  BY <1>2, <1>4, <1>6, <1>7, <1>8, PartsStay DEF BookInv

LEMMA SanitizeOtherBooks ==
  ASSUME BookInv, CodebookInv', Unambiguous, NEW t \in Thread, NEW s \in Session,
         NEW n \in OtherName, NEW kind \in Kind, NEW hash \in HashModes,
         SanitizeOther(t, s, n, kind, hash)
  PROVE  BookInv'
<1>1. n \in Bases
  <2>1. n \in Name /\ n.deco = <<>>
    BY DEF Name, Unambiguous
  <2>2. n = Base(n)
    BY <2>1, BaseType DEF Base, RawString
  <2> QED
    BY <2>1, <2>2, BaseType
<1>2. /\ RegisterToken(s, n, kind, hash)
      /\ told' = told \cup {[session |-> s, name |-> n,
                             token |-> TokenFor(s, n, kind, hash)]}
      /\ pending' = pending /\ exported' = exported
  BY DEF SanitizeOther, Tell
<1>3. /\ Learned /\ n \in DOMAIN forward'[s]
      /\ forward'[s][n] = TokenFor(s, n, kind, hash)
  BY <1>1, <1>2, RegisterBooks
<1>4. Told'
  <2> SUFFICES ASSUME NEW e \in told'
               PROVE  /\ e.name \in DOMAIN forward'[e.session]
                      /\ forward'[e.session][e.name] = e.token
    BY DEF Told
  <2>1. CASE e \in told
    BY <2>1, <1>3, ToldStays
  <2>2. CASE e \notin told
    BY <2>2, <1>2, <1>3
  <2> QED
    BY <2>1, <2>2
<1>5. Waiting'
  <2> SUFFICES ASSUME NEW q \in Thread, pending'[q] # Nil
               PROVE  LET c == pending'[q]
                          f == forward'[c.session]
                      IN /\ AliasIn(f, c.alias, c.token)
                         /\ \/ c.name \in DOMAIN f /\ f[c.name] = c.answer
                            \/ c.name = c.alias /\ c.answer = c.token
    BY DEF Waiting
  <2> QED
    BY <1>2, <1>3, WaitingStays
<1>6. Shaped' /\ Mirrored'
  BY <1>3 DEF Learned, Shaped, Mirrored
<1> QED
  BY <1>2, <1>3, <1>4, <1>5, <1>6, PartsStay DEF BookInv

LEMMA ExportBooks ==
  ASSUME BookInv, CodebookInv', Unambiguous, NEW s \in Session, Export(s)
  PROVE  BookInv'
<1>1. /\ exported' = exported \cup {[forward |-> forward[s], reverse |-> reverse[s],
                                     counters |-> counters[s]]}
      /\ forward' = forward /\ reverse' = reverse
      /\ pending' = pending /\ told' = told
  BY DEF Export, bookVars
<1>2. Shaped' /\ Mirrored' /\ Waiting' /\ Told'
  BY <1>1 DEF BookInv, Shaped, Mirrored, Waiting, Told
<1>3. Parts'
  <2> SUFFICES ASSUME NEW b \in exported', NEW q \in Session, Imports # {}
               PROVE  /\ TB!Extends(forward[q], b.forward)
                      /\ TB!Extends(reverse[q], b.reverse)
                      /\ InverseBooks(b.forward, b.reverse)
    BY <1>1 DEF Parts
  <2>1. CASE b \in exported
    BY <2>1 DEF BookInv, Parts
  <2>2. CASE b \notin exported
    <3>1. b.forward = forward[s] /\ b.reverse = reverse[s]
      BY <1>1, <2>2
    <3>2. q = s
      BY DEF Unambiguous
    <3> QED
      BY <3>1, <3>2, ExtendsItself DEF BookInv, Mirrored
  <2> QED
    BY <2>1, <2>2
<1> QED
  BY <1>2, <1>3 DEF BookInv

\* Every step, and what it does to the books.
LEMMA BookNext ==
  ASSUME BookInv, Unambiguous, [Next]_vars
  PROVE  BookInv' /\ Learned
<1>1. CodebookInv'
  BY CodebookNext DEF BookInv
<1>2. ASSUME forward' = forward, reverse' = reverse PROVE Learned
  BY <1>2, SameBooks DEF Learned
<1>3. ASSUME NEW t \in Thread, NEW s \in Session, NEW hash \in HashModes,
             Call(t, s, hash)
      PROVE  BookInv' /\ Learned
  <2>1. ASSUME NEW n \in SymbolName, SanitizeSymbol(t, s, n, hash)
        PROVE  BookInv' /\ Learned
    <3>1. /\ n \in Name /\ Clean(n, "sym") = Base(n)
          /\ HasPrefix(n, "sym") => n = Decorated("sym", Base(n))
          /\ ~HasPrefix(n, "sym") => n = Base(n)
      BY SymbolForms
    <3>2. "sym" \in Prefix /\ "FUNC" \in Kind
      BY DEF Prefix, Kind
    <3>3. Spells("sym", Base(n), Decorated("sym", Base(n)))
      BY DEF Spells
    <3>4. Sanitize(t, s, n, "sym", "FUNC", Base(n), hash)
      BY <2>1, <3>1 DEF SanitizeSymbol
    <3>5. BookInv'
      BY <1>1, <3>1, <3>2, <3>3, <3>4, SanitizeBooks
    <3>6. RegisterToken(s, Base(n), "FUNC", hash) /\ Base(n) \in Bases
      BY <3>1, <3>4, BaseType DEF Sanitize
    <3> QED
      BY <3>2, <3>5, <3>6, RegisterBooks
  <2>2. ASSUME NEW n \in StringName, SanitizeString(t, s, n, hash)
        PROVE  BookInv' /\ Learned
    <3>1. /\ n \in Name /\ Clean(n, "str") = Base(n)
          /\ HasPrefix(n, "str") => n = Decorated("str", Spelling(n))
          /\ ~HasPrefix(n, "str") => n = Base(n)
      BY StringForms
    <3>2. "str" \in Prefix /\ "STR" \in Kind
      BY DEF Prefix, Kind
    <3>3. Spells("str", Base(n), Decorated("str", Spelling(n)))
      BY DEF Spells
    <3>4. Sanitize(t, s, n, "str", "STR", Spelling(n), hash)
      BY <2>2 DEF SanitizeString
    <3>5. BookInv'
      BY <1>1, <3>1, <3>2, <3>3, <3>4, SanitizeBooks
    <3>6. RegisterToken(s, Base(n), "STR", hash) /\ Base(n) \in Bases
      BY <3>1, <3>4, BaseType DEF Sanitize
    <3> QED
      BY <3>2, <3>5, <3>6, RegisterBooks
  <2>3. ASSUME NEW n \in OtherName, NEW k \in {"GATE", "ADDR", "DATA"},
               SanitizeOther(t, s, n, k, hash)
        PROVE  BookInv' /\ Learned
    <3>1. k \in Kind
      BY DEF Kind
    <3>2. BookInv'
      BY <1>1, <2>3, <3>1, SanitizeOtherBooks
    <3>3. n \in Name /\ n = Base(n)
      BY BaseType DEF Name, Unambiguous, Base, RawString
    <3>4. n \in Bases /\ RegisterToken(s, n, k, hash)
      BY <2>3, <3>3, BaseType DEF SanitizeOther
    <3> QED
      BY <3>1, <3>2, <3>4, RegisterBooks
  <2> QED
    BY <1>3, <2>1, <2>2, <2>3 DEF Call
<1>4. ASSUME NEW t \in Thread, RegisterAlias(t) PROVE BookInv' /\ Learned
  <2>1. BookInv'
    BY <1>1, <1>4, RegisterAliasBooks
  <2>2. /\ pending[t] # Nil /\ pending[t].session \in Session
        /\ Store(pending[t].session, pending[t].alias, pending[t].token)
    BY <1>4 DEF RegisterAlias, BookInv, CodebookInv, TypeOK, PendingCall
  <2>3. AliasIn(forward[pending[t].session], pending[t].alias, pending[t].token)
    BY <2>2 DEF BookInv, Waiting
  <2> QED
    BY <2>1, <2>2, <2>3, AliasBooks
<1>5. ASSUME NEW s \in Session, CompileNeutralize(s) \/ CompileRestore(s)
      PROVE  BookInv' /\ Learned
  <2>1. /\ forward' = forward /\ reverse' = reverse /\ pending' = pending
        /\ told' = told /\ exported' = exported
    BY <1>5 DEF CompileNeutralize, CompileRestore
  <2> QED
    BY <1>1, <1>2, <2>1, BooksOnly
<1>6. ASSUME NEW s \in Session, Export(s) PROVE BookInv' /\ Learned
  BY <1>1, <1>2, <1>6, ExportBooks DEF Export, bookVars
<1>7. ASSUME NEW s \in Session, NEW b \in exported, NEW keys \in Imports,
             Import(s, b, keys)
      PROVE  BookInv' /\ Learned
  BY <1>1, <1>7, ImportBooks, BooksOnly DEF Import
<1>8. CASE UNCHANGED vars
  <2>1. /\ forward' = forward /\ reverse' = reverse /\ pending' = pending
        /\ told' = told /\ exported' = exported
    BY <1>8 DEF vars, bookVars
  <2> QED
    BY <1>1, <1>2, <2>1, BooksOnly
<1> QED
  BY <1>3, <1>4, <1>5, <1>6, <1>7, <1>8 DEF Next

LEMMA BookInit ==
  ASSUME Init PROVE BookInv
<1>1. CodebookInv
  BY CodebookInit
<1>2. Shaped /\ Mirrored
  BY DEF Init, Shaped, ShapedBook, Mirrored, InverseBooks, Empty
<1>3. Waiting /\ Told /\ Parts
  BY DEF Init, Waiting, Told, Parts
<1> QED
  BY <1>1, <1>2, <1>3 DEF BookInv

LEMMA BookInvariant ==
  ASSUME Unambiguous PROVE Spec => []BookInv
<1>1. Init => BookInv
  BY BookInit
<1>2. BookInv /\ [Next]_vars => BookInv'
  BY BookNext
<1> QED
  BY <1>1, <1>2, PTL DEF Spec

-----------------------------------------------------------------------------
(* neutralize and restore                                                  *)

\* A compiled regex finds the keys of its map.
LEMMA RegexKeys ==
  ASSUME NEW f, NEW regex \in {Nil, DOMAIN f}
  PROVE  Compiled(regex, f) = DOMAIN f
  BY DEF Compiled

LEMMA SubstituteBare ==
  ASSUME NEW f, NEW text, text.deco = <<>>, text = [deco |-> text.deco, core |-> text.core]
  PROVE  Substitute(f, DOMAIN f, text) = IF text \in DOMAIN f THEN f[text] ELSE text
<1> DEFINE from(i) == [text EXCEPT !.deco = SubSeq(@, i + 1, Len(@))]
           hits == {i \in 0..Len(text.deco) : from(i) \in DOMAIN f}
<1>1. 0..Len(text.deco) = {0}
  OBVIOUS
<1>2. SubSeq(<<>>, 0 + 1, Len(<<>>)) = <<>>
  OBVIOUS
<1>3. from(0) = text
  BY <1>2
<1>4. text \notin DOMAIN f => hits = {}
  BY <1>1, <1>3
<1> QED
  BY <1>4 DEF Substitute

LEMMA SubstituteDecorated ==
  ASSUME NEW f, NEW p \in Prefix, NEW bare, bare.deco = <<>>,
         bare = [deco |-> bare.deco, core |-> bare.core],
         bare \in DOMAIN f => /\ f[bare].deco = <<>>
                              /\ f[bare] = [deco |-> f[bare].deco, core |-> f[bare].core]
  PROVE  LET text == Decorated(p, bare)
         IN Substitute(f, DOMAIN f, text) =
              IF text \in DOMAIN f THEN f[text]
              ELSE IF bare \in DOMAIN f THEN Decorated(p, f[bare]) ELSE text
<1> DEFINE text == Decorated(p, bare)
           from(i) == [text EXCEPT !.deco = SubSeq(@, i + 1, Len(@))]
           hits == {i \in 0..Len(text.deco) : from(i) \in DOMAIN f}
           at == CHOOSE i \in hits : \A j \in hits : i <= j
<1>1. text.deco = <<p>> /\ text = [deco |-> <<p>>, core |-> bare.core]
  BY OneDecoration DEF Decorated
<1>2. 0..Len(text.deco) = {0, 1}
  BY <1>1, OneDecoration
<1>3. from(0) = text
  BY <1>1, OneDecoration
<1>4. from(1) = bare
  <2>1. SubSeq(<<p>>, 1 + 1, Len(<<p>>)) = <<>>
    BY OneDecoration
  <2>2. from(1) = [deco |-> <<>>, core |-> bare.core]
    BY <1>1, <2>1
  <2> QED
    BY <2>2
<1>5. CASE text \in DOMAIN f
  BY <1>5 DEF Substitute
<1>6. CASE text \notin DOMAIN f /\ bare \notin DOMAIN f
  <2>1. hits = {}
    BY <1>2, <1>3, <1>4, <1>6
  <2> QED
    BY <1>6, <2>1 DEF Substitute
<1>7. CASE text \notin DOMAIN f /\ bare \in DOMAIN f
  <2>1. hits = {1}
    BY <1>2, <1>3, <1>4, <1>7
  <2>2. at = 1
    <3> HIDE DEF hits
    <3>1. 1 \in hits /\ \A j \in hits : 1 <= j
      BY <2>1
    <3>2. at \in hits
      BY <3>1, Zenon
    <3> QED
      BY <2>1, <3>2
  <2>3. SubSeq(text.deco, 1, at) = <<p>>
    BY <1>1, <2>2, OneDecoration
  <2>4. [f[bare] EXCEPT !.deco = <<p>> \o @] = Decorated(p, f[bare])
    BY <1>7 DEF Decorated
  <2>5. Substitute(f, DOMAIN f, text) =
          [f[from(at)] EXCEPT !.deco = SubSeq(text.deco, 1, at) \o @]
    BY <1>7, <2>1 DEF Substitute
  <2> QED
    BY <1>4, <1>7, <2>2, <2>3, <2>4, <2>5
<1> QED
  BY <1>5, <1>6, <1>7

\* The names that are put into texts: bare, or the alias of their bare form.
LEMMA NameForms ==
  ASSUME Unambiguous, NEW n \in Name
  PROVE  /\ Base(n) \in Bases /\ Base(n) \in RawString /\ Base(n).deco = <<>>
         /\ \/ n = Base(n)
            \/ \E p \in Prefix : n = Decorated(p, Base(n)) /\ Spells(p, Base(n), n)
<1>1. Base(n) \in Bases /\ Base(n) \in RawString /\ Base(n).deco = <<>>
  BY BaseType
<1>2. "sym" \in Prefix /\ "str" \in Prefix
  BY DEF Prefix
<1>3. CASE n \in SymbolName
  BY <1>1, <1>2, <1>3, SymbolForms DEF Spells
<1>4. CASE n \in StringName
  BY <1>1, <1>2, <1>4, StringForms DEF Spells
<1>5. CASE n \in OtherName
  <2>1. n.deco = <<>> /\ n \in RawString
    BY <1>5, BaseType DEF Unambiguous
  <2> QED
    BY <1>1, <2>1 DEF Base, RawString
<1> QED
  BY <1>3, <1>4, <1>5 DEF Name

\* A bare entry is a record without decoration, as is its name.
LEMMA BareRecords ==
  ASSUME Unambiguous, NEW f, NEW r, BookType(f, r), ShapedBook(f),
         NEW x \in Bases, x \in DOMAIN f
  PROVE  /\ f[x] \in Token /\ f[x].deco = <<>>
         /\ f[x] = [deco |-> f[x].deco, core |-> f[x].core]
<1>1. f[x] \in Token
  BY DEF BookType
<1> QED
  BY <1>1, BareEntry DEF Token

\* What neutralize makes of a name: its token, if it has one; the token its
\* alias will get, if only its bare form has one; nothing else.
LEMMA NeutralName ==
  ASSUME Unambiguous, NEW f, NEW r, BookType(f, r), ShapedBook(f),
         NEW n \in Name, NEW out, out = Substitute(f, DOMAIN f, n)
  PROVE  \/ n \in DOMAIN f /\ out = f[n]
         \/ /\ n \notin DOMAIN f /\ Base(n) \notin DOMAIN f /\ out = n
         \/ /\ n \notin DOMAIN f /\ Base(n) \in DOMAIN f
            /\ \E p \in Prefix : /\ n = Decorated(p, Base(n)) /\ Spells(p, Base(n), n)
                                 /\ out = Decorated(p, f[Base(n)])
<1> DEFINE bare == Base(n)
<1>1. bare \in Bases /\ bare \in RawString /\ bare.deco = <<>>
  BY NameForms
<1>2. bare = [deco |-> bare.deco, core |-> bare.core]
  BY <1>1 DEF RawString
<1>3. bare \in DOMAIN f => /\ f[bare].deco = <<>>
                           /\ f[bare] = [deco |-> f[bare].deco, core |-> f[bare].core]
  BY <1>1, BareRecords
<1>4. CASE n = bare
  BY <1>1, <1>2, <1>4, SubstituteBare
<1>5. CASE \E p \in Prefix : n = Decorated(p, bare) /\ Spells(p, bare, n)
  <2>1. PICK p \in Prefix : n = Decorated(p, bare) /\ Spells(p, bare, n)
    BY <1>5
  <2> HIDE DEF bare
  <2>2. out = IF n \in DOMAIN f THEN f[n]
              ELSE IF bare \in DOMAIN f THEN Decorated(p, f[bare]) ELSE n
    BY <1>1, <1>2, <1>3, <2>1, SubstituteDecorated
  <2> QED
    BY <2>1, <2>2 DEF bare
<1> QED
  BY <1>4, <1>5, NameForms

\* neutralize and restore are inverse on names.
LEMMA NameReturns ==
  ASSUME Unambiguous, NEW f, NEW r, BookType(f, r), ShapedBook(f),
         InverseBooks(f, r), NEW n \in Name
  PROVE  Substitute(r, DOMAIN r, Substitute(f, DOMAIN f, n)) = n
<1> DEFINE out  == Substitute(f, DOMAIN f, n)
           bare == Base(n)
<1>1. bare \in Bases /\ bare \in RawString /\ bare.deco = <<>>
      /\ bare = [deco |-> bare.deco, core |-> bare.core]
  BY NameForms DEF RawString
<1>2. \/ n \in DOMAIN f /\ out = f[n]
      \/ n \notin DOMAIN f /\ bare \notin DOMAIN f /\ out = n
      \/ /\ n \notin DOMAIN f /\ bare \in DOMAIN f
         /\ \E p \in Prefix : /\ n = Decorated(p, bare) /\ Spells(p, bare, n)
                              /\ out = Decorated(p, f[bare])
  BY NeutralName
<1> SUFFICES Substitute(r, DOMAIN r, out) = n
  OBVIOUS
<1> HIDE DEF out
<1>3. CASE n \in DOMAIN f /\ out = f[n]
  BY <1>3 DEF InverseBooks, Substitute
<1>4. CASE out = n
  <2>1. n.core \in Core /\ bare.core = n.core
    BY BaseType DEF RawString
  <2>2. n \notin DOMAIN r /\ bare \notin DOMAIN r
    BY <2>1 DEF BookType, Token, Unambiguous
  <2>3. CASE n = bare
    BY <1>1, <1>4, <2>2, <2>3, SubstituteBare
  <2>4. CASE \E p \in Prefix : n = Decorated(p, bare)
    <3>1. PICK p \in Prefix : n = Decorated(p, bare)
      BY <2>4
    <3> HIDE DEF bare
    <3> QED
      BY <1>1, <1>4, <2>2, <3>1, SubstituteDecorated
  <2> QED
    BY <2>3, <2>4, NameForms
<1>5. CASE /\ n \notin DOMAIN f /\ bare \in DOMAIN f
           /\ \E p \in Prefix : /\ n = Decorated(p, bare) /\ Spells(p, bare, n)
                                /\ out = Decorated(p, f[bare])
  <2>1. PICK p \in Prefix : /\ n = Decorated(p, bare) /\ Spells(p, bare, n)
                            /\ out = Decorated(p, f[bare])
    BY <1>5
  <2>2. AliasIn(f, n, out)
    BY <1>1, <1>5, <2>1 DEF AliasIn
  <2>3. out \in DOMAIN r => r[out] = n
    BY <2>2, AliasFits
  <2>4. /\ f[bare].deco = <<>>
        /\ f[bare] = [deco |-> f[bare].deco, core |-> f[bare].core]
    BY <1>1, <1>5, BareRecords
  <2>5. f[bare] \in DOMAIN r /\ r[f[bare]] = bare
    BY <1>5 DEF InverseBooks
  <2> HIDE DEF bare
  <2>6. Substitute(r, DOMAIN r, out) =
          IF out \in DOMAIN r THEN r[out] ELSE Decorated(p, r[f[bare]])
    BY <1>1, <2>1, <2>4, <2>5, SubstituteDecorated
  <2> QED
    BY <2>1, <2>3, <2>5, <2>6
<1> QED
  BY <1>2, <1>3, <1>4, <1>5

\* A larger book makes the same of a name that was neutralized.
LEMMA NameStays ==
  ASSUME Unambiguous, NEW f, NEW r, BookType(f, r), ShapedBook(f),
         NEW g, NEW q, BookType(g, q), ShapedBook(g), InverseBooks(g, q),
         TB!Extends(g, f), NEW n \in Name, Substitute(f, DOMAIN f, n) # n
  PROVE  Substitute(g, DOMAIN g, n) = Substitute(f, DOMAIN f, n)
<1> DEFINE old  == Substitute(f, DOMAIN f, n)
           new  == Substitute(g, DOMAIN g, n)
           bare == Base(n)
<1>1. bare \in Bases
  BY NameForms
<1>2. \/ n \in DOMAIN f /\ old = f[n]
      \/ /\ n \notin DOMAIN f /\ bare \in DOMAIN f
         /\ \E p \in Prefix : /\ n = Decorated(p, bare) /\ Spells(p, bare, n)
                              /\ old = Decorated(p, f[bare])
  BY NeutralName
<1>3. \/ n \in DOMAIN g /\ new = g[n]
      \/ n \notin DOMAIN g /\ bare \notin DOMAIN g /\ new = n
      \/ /\ n \notin DOMAIN g /\ bare \in DOMAIN g
         /\ \E p \in Prefix : /\ n = Decorated(p, bare) /\ Spells(p, bare, n)
                              /\ new = Decorated(p, g[bare])
  BY NeutralName
<1> HIDE DEF old, new, bare
<1>4. CASE n \in DOMAIN f /\ old = f[n]
  BY <1>3, <1>4 DEF TB!Extends, old, new
<1>5. CASE /\ n \notin DOMAIN f /\ bare \in DOMAIN f
           /\ \E p \in Prefix : /\ n = Decorated(p, bare) /\ Spells(p, bare, n)
                                /\ old = Decorated(p, f[bare])
  <2>1. PICK p \in Prefix : /\ n = Decorated(p, bare) /\ Spells(p, bare, n)
                            /\ old = Decorated(p, f[bare])
    BY <1>5
  <2>2. bare \in DOMAIN g /\ g[bare] = f[bare]
    BY <1>5 DEF TB!Extends
  <2>3. AliasIn(g, n, old)
    BY <1>1, <2>1, <2>2 DEF AliasIn
  <2>4. n \in DOMAIN g => g[n] = old
    BY <2>3, AliasFits
  <2>5. ASSUME NEW k \in Prefix, n = Decorated(k, bare) PROVE k = p
    <3>1. <<k>> \o bare.deco = <<p>> \o bare.deco /\ bare.deco = <<>>
      BY <2>1, <2>5, NameForms DEF Decorated, bare
    <3>2. <<k>> = <<p>>
      BY <3>1, OneDecoration
    <3> QED
      BY <3>2, OneDecoration
  <2> QED
    BY <1>3, <2>1, <2>2, <2>4, <2>5 DEF old, new
<1> QED
  BY <1>2, <1>4, <1>5

-----------------------------------------------------------------------------
(* The theorems about the bijection                                        *)

\* With unambiguous names the two maps are each other's inverse in every
\* reachable state, whatever threads interleave between the registration of a
\* name and that of its alias, and whichever exports are taken back in.
THEOREM BooksAreBijective ==
  ASSUME Unambiguous PROVE Spec => []Bijective
<1>1. BookInv => Bijective
  BY DEF BookInv, Mirrored, InverseBooks, Bijective
<1> QED
  BY <1>1, BookInvariant, PTL

\* With unambiguous names every token that sanitize_* ever returned restores to
\* the name it was returned for: restore() of neutral_representation.py.
THEOREM TokensAreHonoured ==
  ASSUME Unambiguous PROVE Spec => []TokensHonoured
<1>1. BookInv => TokensHonoured
  <2> SUFFICES ASSUME BookInv, NEW e \in told
               PROVE  Restore(e.session, e.token) = e.name
    BY DEF TokensHonoured
  <2>1. e.session \in Session
    BY DEF BookInv, CodebookInv, TypeOK
  <2>2. /\ e.token \in DOMAIN reverse[e.session]
        /\ reverse[e.session][e.token] = e.name
    BY <2>1 DEF BookInv, Told, Mirrored, InverseBooks
  <2> QED
    BY <2>2 DEF Restore, Substitute
<1> QED
  BY <1>1, BookInvariant, PTL

\* With unambiguous names neutralize followed by restore gives a name back, in
\* every reachable state, registered or not and with either regex compiled
\* before or now.
THEOREM NamesSurvive ==
  ASSUME Unambiguous PROVE Spec => []RoundTrip
<1>1. BookInv => RoundTrip
  <2> SUFFICES ASSUME BookInv, NEW s \in Session, NEW text \in Name
               PROVE  Restore(s, Neutralize(s, text)) = text
    BY DEF RoundTrip
  <2>1. /\ BookType(forward[s], reverse[s]) /\ ShapedBook(forward[s])
        /\ InverseBooks(forward[s], reverse[s])
        /\ neutralizeRegex[s] \in {Nil, DOMAIN forward[s]}
        /\ restoreRegex[s] \in {Nil, DOMAIN reverse[s]}
    BY DEF BookInv, Shaped, Mirrored, CodebookInv, TypeOK
  <2>2. /\ Compiled(neutralizeRegex[s], forward[s]) = DOMAIN forward[s]
        /\ Compiled(restoreRegex[s], reverse[s]) = DOMAIN reverse[s]
    BY <2>1, RegexKeys
  <2> QED
    BY <2>1, <2>2, NameReturns DEF Restore, Neutralize
<1> QED
  BY <1>1, BookInvariant, PTL

\* With unambiguous names no step changes what a neutralized name is replaced
\* by; in particular the alias that register_alias stores after the fact is what
\* neutralize made of the decorated name before.
THEOREM NeutralTextIsStable ==
  ASSUME Unambiguous PROVE Spec => NeutralTextStable
<1>1. ASSUME BookInv, [Next]_vars, NEW s \in Session, NEW text \in Name,
             Neutralize(s, text) # text
      PROVE  Neutralize(s, text)' = Neutralize(s, text)
  <2>1. BookInv' /\ Learned
    BY <1>1, BookNext
  <2>2. /\ BookType(forward[s], reverse[s]) /\ ShapedBook(forward[s])
        /\ neutralizeRegex[s] \in {Nil, DOMAIN forward[s]}
    BY <1>1 DEF BookInv, Shaped, CodebookInv, TypeOK
  <2>3. /\ BookType(forward'[s], reverse'[s]) /\ ShapedBook(forward'[s])
        /\ InverseBooks(forward'[s], reverse'[s])
        /\ neutralizeRegex'[s] \in {Nil, DOMAIN forward'[s]}
    BY <2>1 DEF BookInv, Shaped, Mirrored, CodebookInv, TypeOK
  <2>4. /\ Compiled(neutralizeRegex[s], forward[s]) = DOMAIN forward[s]
        /\ Compiled(neutralizeRegex'[s], forward'[s]) = DOMAIN forward'[s]
    BY <2>2, <2>3, RegexKeys
  <2>5. /\ Neutralize(s, text) = Substitute(forward[s], DOMAIN forward[s], text)
        /\ Neutralize(s, text)' = Substitute(forward'[s], DOMAIN forward'[s], text)
    BY <2>4 DEF Neutralize
  <2>6. TB!Extends(forward'[s], forward[s])
    BY <2>1 DEF Learned
  <2> QED
    BY <1>1, <2>2, <2>3, <2>5, <2>6, NameStays
<1>2. BookInv /\ [Next]_vars =>
        [\A s \in Session, text \in Name :
           Neutralize(s, text) # text => Neutralize(s, text)' = Neutralize(s, text)]_vars
  BY <1>1
<1> QED
  BY <1>2, BookInvariant, PTL DEF Spec, NeutralTextStable

\* With unambiguous names the codebook implements TokenBook: its first state is
\* an empty dictionary, and every step keeps the tokens it has and gives none
\* twice, which is the "1-to-1 bijective mapping" of the class comment.
THEOREM CodebookKeepsPromise ==
  ASSUME Unambiguous PROVE Spec => KeepsPromise
<1>1. Init => TB!Init
  BY DEF Init, TB!Init, Empty
<1>2. BookInv /\ [Next]_vars => [TB!Learn]_forward
  <2> SUFFICES ASSUME BookInv, [Next]_vars PROVE TB!Learn
    OBVIOUS
  <2>1. Learned
    BY BookNext
  <2>2. ASSUME NEW s \in Session
        PROVE  TB!Extends(forward'[s], forward[s]) /\ TB!OneToOne(forward'[s])
    BY <2>1 DEF Learned, InverseBooks, TB!OneToOne
  <2> QED
    BY <2>2 DEF TB!Learn
<1> QED
  BY <1>1, <1>2, BookInvariant, PTL DEF Spec, KeepsPromise, TB!Spec

=============================================================================
