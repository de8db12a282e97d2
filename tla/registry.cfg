\* Two built-in chains and up to two entries, each with a slug and up to one
\* alias among all spellings.
CONSTANTS
  Builtins <- TwoBuiltins
  BuiltinNames <- TheirNames
  BuiltinToken <- TheirToken
  OrbitIds = {"eip155:412346"}
  Spellings = {"arbitrum", "nova", "my-orbit"}
  Tokens = {"usd"}
  NoToken = NoToken
  Nowhere = Nowhere
  Bad = Bad
  MaxOrbit = 2
  MaxAliases = 1
SPECIFICATION Spec
INVARIANTS BuiltinKeepsIdentity FirstWins StrayAliasHarmless
CHECK_DEADLOCK FALSE
