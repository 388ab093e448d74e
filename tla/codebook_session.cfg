SPECIFICATION Spec
CONSTANTS
  fn = fn  spaced = spaced  joined = joined  h1 = h1  h2 = h2  Nil = Nil
  Session = {s1}
  Thread = {t1, t2}
  Core = {fn, spaced, joined}
  SymbolName <- SymFunction
  StringName <- PlainStrings
  OtherName <- OneName
  Underscored <- MCUnderscored
  Hash = {h1, h2}
  HashOf <- MCHashOf
  Digits <- MCDigits
  HashModes = {TRUE, FALSE}
  Imports <- AnyBooks
  MaxExports = 1
INVARIANTS TypeOK TokensCounted Bijective TokensHonoured RoundTrip
PROPERTIES NeutralTextStable KeepsPromise
