------------------------ MODULE ChainRegistryProofs ------------------------
(* Proofs about the chain registry, for any built-in chains, names, tokens *)
(* and chains files.                                                       *)
EXTENDS ChainRegistry, SequenceTheorems, TLAPS

-----------------------------------------------------------------------------
(* The built-in chains and the entries of a file, one by one.              *)

LEMMA BuiltinsListed ==
  /\ Len(Builtins) \in Nat
  /\ \A k \in 1 .. Len(Builtins) :
       Builtins[k] \in BuiltinIds /\ Builtins[k] \in Ids /\ Builtins[k] \notin OrbitIds
  /\ \A j, k \in 1 .. Len(Builtins) : Builtins[j] = Builtins[k] => j = k
<1>1. Builtins \in Seq(BuiltinIds)
  BY RegistryAssumption
<1>2. Len(Builtins) \in Nat /\ \A k \in 1 .. Len(Builtins) : Builtins[k] \in BuiltinIds
  BY <1>1
<1>3. QED BY <1>2, RegistryAssumption DEF Ids

\* A built-in chain carries its own names only: none of them is an id, or a name
\* of another built-in chain.
LEMMA BuiltinChainNames ==
  ASSUME NEW b \in BuiltinIds
  PROVE  /\ BuiltinChain(b) \in Chain
         /\ Keys(BuiltinChain(b)) = BuiltinNames[b] \cup {b}
         /\ BuiltinChain(b).id = b /\ BuiltinChain(b).family = "builtin"
         /\ BuiltinChain(b).aliases = BuiltinNames[b]
         /\ BuiltinChain(b).token = BuiltinToken[b]
         /\ BuiltinNames[b] \subseteq Spellings
<1>1. BuiltinNames[b] \in (SUBSET Spellings) \ {{}}
  BY RegistryAssumption
<1>2. PICK n : n \in BuiltinNames[b] /\ n = CHOOSE m \in BuiltinNames[b] : TRUE
  BY <1>1
<1>3. BuiltinToken[b] \in Tokens \cup {NoToken}
  BY RegistryAssumption
<1>4. BuiltinChain(b) = [id |-> b, legacyName |-> n, aliases |-> BuiltinNames[b],
                         family |-> "builtin", token |-> BuiltinToken[b]]
  BY <1>2 DEF BuiltinChain
<1>5. b \in Ids /\ n \in Spellings /\ BuiltinNames[b] \in SUBSET Names
  BY <1>1, <1>2 DEF Ids, Names
<1>6. QED BY <1>1, <1>2, <1>3, <1>4, <1>5 DEF Chain, Keys

LEMMA BuiltinNamesApart ==
  ASSUME NEW b \in BuiltinIds, NEW c \in BuiltinIds, b # c,
         NEW n \in BuiltinNames[b] \cup {b}
  PROVE  n \notin BuiltinNames[c] \cup {c}
<1>1. BuiltinNames[b] \subseteq Spellings /\ BuiltinNames[c] \subseteq Spellings
  BY BuiltinChainNames
<1>2. b \in Ids /\ c \in Ids
  BY DEF Ids
<1>3. QED BY <1>1, <1>2, RegistryAssumption

LEMMA ParsedEntry ==
  ASSUME NEW e \in Entries, ~Rejected(e)
  PROVE  /\ ParseOrbitChain(e) \in Chain
         /\ ParseOrbitChain(e).id = e.chainId /\ ParseOrbitChain(e).token = e.token
BY DEF Entries, Rejected, ParseOrbitChain, Chain, Names

LEMMA OverriddenChain ==
  ASSUME NEW old \in Chain, NEW c \in Chain, old.id = c.id
  PROVE  /\ Overridden(old, c) \in Chain
         /\ Overridden(old, c).id = old.id
         /\ Overridden(old, c).family = old.family
         /\ old.aliases \subseteq Overridden(old, c).aliases
         /\ Overridden(old, c).token =
              IF c.token = NoToken THEN old.token ELSE c.token
BY DEF Overridden, Chain

-----------------------------------------------------------------------------
(* The merge loop: one entry amends the chain it names, or is appended.    *)

LEMMA MergeKeepsChains ==
  ASSUME RegistryInv, RegisterOrbit
  PROVE  /\ all' \in Seq(Chain) /\ Len(all) <= Len(all')
         /\ \A j, k \in 1 .. Len(all') : all'[j].id = all'[k].id => j = k
         /\ \A k \in 1 .. Len(all) :
              all'[k] = IF all[k].id = orbit[1].id
                        THEN Overridden(all[k], orbit[1]) ELSE all[k]
<1> USE DEF RegistryInv
<1>1. orbit \in Seq(Chain) /\ orbit # <<>> /\ all \in Seq(Chain)
  BY DEF TypeOK, RegisterOrbit
<1>2. Head(orbit) = orbit[1] /\ orbit[1] \in Chain
  BY <1>1
<1>3. PICK c \in Chain : c = orbit[1]
  BY <1>2
<1>4. Len(all) \in Nat /\ \A k \in 1 .. Len(all) : all[k] \in Chain
  BY <1>1
<1>5. \A j, k \in 1 .. Len(all) : all[j].id = all[k].id => j = k
  BY DEF TypeOK
<1>6. CASE \E k \in 1 .. Len(all) : all[k].id = c.id
  <2>1. all' = [k \in 1 .. Len(all) |->
                  IF all[k].id = c.id THEN Overridden(all[k], c) ELSE all[k]]
    BY <1>2, <1>3, <1>6 DEF RegisterOrbit
  <2>2. \A k \in 1 .. Len(all) : all'[k] \in Chain /\ all'[k].id = all[k].id
    BY <1>4, <2>1, OverriddenChain
  <2>3. all' \in Seq(Chain) /\ Len(all') = Len(all)
    BY <1>4, <2>1, <2>2
  <2>4. QED BY <1>3, <1>4, <1>5, <2>1, <2>2, <2>3
<1>7. CASE ~\E k \in 1 .. Len(all) : all[k].id = c.id
  <2>1. all' = Append(all, c)
    BY <1>2, <1>3, <1>7 DEF RegisterOrbit
  <2>2. /\ all' \in Seq(Chain) /\ Len(all') = Len(all) + 1
        /\ all'[Len(all) + 1] = c /\ \A k \in 1 .. Len(all) : all'[k] = all[k]
    BY <1>1, <1>4, <2>1
  <2>3. \A j, k \in 1 .. Len(all') : all'[j].id = all'[k].id => j = k
    BY <1>4, <1>5, <1>7, <2>2
  <2>4. QED BY <1>3, <1>4, <1>7, <2>2, <2>3
<1>8. QED BY <1>6, <1>7

\* The entry that is merged, and those left.
LEMMA NextEntry ==
  ASSUME RegistryInv, RegisterOrbit
  PROVE  /\ Merging \in Nat /\ Merging' = Merging + 1 /\ Merging' \in 1 .. Len(file)
         /\ file[Merging'] \in Entries /\ ~Rejected(file[Merging'])
         /\ orbit[1] = ParseOrbitChain(file[Merging'])
         /\ orbit' \in Seq(Chain) /\ Len(orbit') <= Len(file)
         /\ \A k \in 1 .. Len(orbit') :
              orbit'[k] = ParseOrbitChain(file[Merging' + k])
              /\ ~Rejected(file[Merging' + k])
<1> USE DEF RegistryInv, PhasesInStep
<1>1. /\ orbit \in Seq(Chain) /\ orbit # <<>> /\ orbit' = Tail(orbit)
      /\ file' = file /\ file \in Seq(Entries)
  BY DEF TypeOK, RegisterOrbit
<1>2. /\ Len(orbit) \in Nat /\ Len(orbit) > 0 /\ Len(file) \in Nat
      /\ Len(orbit) <= Len(file)
      /\ orbit' \in Seq(Chain) /\ Len(orbit') = Len(orbit) - 1
      /\ \A k \in 1 .. Len(orbit') : orbit'[k] = orbit[k + 1]
  BY <1>1
<1>3. Merging \in Nat /\ Merging' = Merging + 1 /\ Merging' \in 1 .. Len(file)
  BY <1>1, <1>2 DEF Merging
<1>4. file[Merging'] \in Entries
  BY <1>1, <1>3
<1>5. orbit[1] = ParseOrbitChain(file[Merging']) /\ ~Rejected(file[Merging'])
  BY <1>2, <1>3
<1>6. ASSUME NEW k \in 1 .. Len(orbit')
      PROVE  orbit'[k] = ParseOrbitChain(file[Merging' + k])
             /\ ~Rejected(file[Merging' + k])
  <2>1. k + 1 \in 1 .. Len(orbit) /\ Merging' + k = Merging + (k + 1)
    BY <1>2, <1>3
  <2>2. QED BY <1>2, <2>1
<1>7. QED BY <1>2, <1>3, <1>4, <1>5, <1>6

-----------------------------------------------------------------------------
(* Every step keeps the invariant.                                         *)

LEMMA InitRegistry == Init => RegistryInv
<1> SUFFICES ASSUME Init PROVE RegistryInv
  OBVIOUS
<1>1. PICK m \in 0 .. MaxOrbit : file \in [1 .. m -> Entries]
  BY DEF Init
<1>2. file \in Seq(Entries) /\ Len(file) \in Nat
  BY <1>1, RegistryAssumption
<1>3. /\ all \in Seq(Chain) /\ Len(all) = Len(Builtins)
      /\ \A k \in 1 .. Len(Builtins) :
           all[k] = BuiltinChain(Builtins[k]) /\ all[k] \in Chain
  BY BuiltinsListed, BuiltinChainNames DEF Init
<1>4. /\ pc = "parse" /\ orbit = <<>> /\ next = 1 /\ Len(orbit) = 0
      /\ \A n \in Names : index[n] = Nowhere
  BY DEF Init
<1>5. \A k \in 1 .. Len(Builtins) :
        /\ all[k].id = Builtins[k] /\ all[k].family = "builtin"
        /\ all[k].aliases = BuiltinNames[Builtins[k]]
        /\ all[k].token = BuiltinToken[Builtins[k]]
  BY <1>3, BuiltinChainNames, BuiltinsListed
<1>6. TypeOK
  BY <1>3, <1>4, <1>5, BuiltinsListed, EmptySeq DEF Init, TypeOK
<1>7. PhasesInStep
  BY <1>2, <1>4 DEF PhasesInStep, FirstAmong
<1>8. BuiltinsInStep
  BY <1>3, <1>4, <1>5, BuiltinsListed DEF BuiltinsInStep, IdentityKept, TokenKept
<1>9. QED BY <1>6, <1>7, <1>8 DEF RegistryInv

LEMMA ParseStep == RegistryInv /\ ParseOrbitChains => RegistryInv'
<1> SUFFICES ASSUME RegistryInv, ParseOrbitChains PROVE RegistryInv'
  OBVIOUS
<1> USE DEF RegistryInv
<1>1. UNCHANGED <<file, all, index, next>> /\ pc = "parse" /\ orbit = <<>>
      /\ next = 1 /\ file \in Seq(Entries) /\ Len(file) \in Nat
  BY DEF ParseOrbitChains, PhasesInStep
<1>2. CASE pc' = "rejected" /\ UNCHANGED orbit
  <2>1. TypeOK'
    BY <1>1, <1>2 DEF TypeOK
  <2>2. PhasesInStep'
    BY <1>1, <1>2 DEF PhasesInStep, FirstAmong, Keys, Merging
  <2>3. BuiltinsInStep'
    BY <1>1, <1>2 DEF BuiltinsInStep, IdentityKept, Overrides
  <2>4. QED BY <2>1, <2>2, <2>3
<1>3. CASE /\ pc' = "merge" /\ ~\E k \in 1 .. Len(file) : Rejected(file[k])
           /\ orbit' = [k \in 1 .. Len(file) |-> ParseOrbitChain(file[k])]
  <2>1. \A k \in 1 .. Len(file) :
          file[k] \in Entries /\ ~Rejected(file[k]) /\ ParseOrbitChain(file[k]) \in Chain
    BY <1>1, <1>3, ParsedEntry
  <2>2. orbit' \in Seq(Chain) /\ Len(orbit') = Len(file) /\ Merging' = 0
    BY <1>1, <1>3, <2>1 DEF Merging
  <2>3. TypeOK'
    BY <1>1, <1>3, <2>2 DEF TypeOK
  <2>4. PhasesInStep'
    BY <1>1, <1>3, <2>1, <2>2 DEF PhasesInStep, FirstAmong, Keys
  <2>5. BuiltinsInStep'
    BY <1>1, <1>3, <2>2 DEF BuiltinsInStep, IdentityKept, TokenKept, Overrides
  <2>6. QED BY <2>3, <2>4, <2>5
<1>4. QED BY <1>2, <1>3 DEF ParseOrbitChains

LEMMA MergeStep == RegistryInv /\ RegisterOrbit => RegistryInv'
<1> SUFFICES ASSUME RegistryInv, RegisterOrbit PROVE RegistryInv'
  OBVIOUS
<1> USE DEF RegistryInv
<1>1. UNCHANGED <<pc, file, index, next>> /\ pc = "merge" /\ next = 1
  BY DEF RegisterOrbit, PhasesInStep
<1>2. /\ all' \in Seq(Chain) /\ Len(all) <= Len(all')
      /\ \A j, k \in 1 .. Len(all') : all'[j].id = all'[k].id => j = k
      /\ \A k \in 1 .. Len(all) :
           all'[k] = IF all[k].id = orbit[1].id
                     THEN Overridden(all[k], orbit[1]) ELSE all[k]
  BY MergeKeepsChains
<1>3. /\ Merging \in Nat /\ Merging' = Merging + 1 /\ Merging' \in 1 .. Len(file)
      /\ file[Merging'] \in Entries /\ ~Rejected(file[Merging'])
      /\ orbit[1] = ParseOrbitChain(file[Merging'])
      /\ orbit' \in Seq(Chain) /\ Len(orbit') <= Len(file)
      /\ \A k \in 1 .. Len(orbit') :
           orbit'[k] = ParseOrbitChain(file[Merging' + k])
           /\ ~Rejected(file[Merging' + k])
  BY NextEntry
<1>4. Len(all) \in Nat /\ Len(all') \in Nat
      /\ \A k \in 1 .. Len(all) : all[k] \in Chain
  BY <1>2 DEF TypeOK
<1>5. TypeOK'
  <2>1. pc' = "merge" /\ index' \in [Names -> Ids \cup {Nowhere}]
        /\ next' \in 1 .. Len(all') + 1
    BY <1>1, <1>4 DEF TypeOK
  <2>2. QED BY <1>2, <1>3, <2>1 DEF TypeOK
<1>6. PhasesInStep'
  BY <1>1, <1>3 DEF PhasesInStep, FirstAmong
<1>7. ASSUME NEW k \in 1 .. Len(Builtins)
      PROVE  /\ IdentityKept(k)' /\ TokenKept(k, Merging)'
             /\ ~Overrides => all'[k] = BuiltinChain(Builtins[k])
  <2> DEFINE e == file[Merging']
  <2>1. /\ k \in 1 .. Len(all) /\ k <= Len(all') /\ all[k].id = Builtins[k]
        /\ all[k].family = "builtin"
        /\ BuiltinNames[Builtins[k]] \subseteq all[k].aliases
    BY <1>2, <1>4, BuiltinsListed DEF BuiltinsInStep, IdentityKept
  <2>2. TokenKept(k, Merging) /\ (~Overrides => all[k] = BuiltinChain(Builtins[k]))
    BY <1>1 DEF BuiltinsInStep
  <2>3. /\ orbit[1] \in Chain /\ orbit[1].id = e.chainId /\ orbit[1].token = e.token
    BY <1>3, ParsedEntry
  <2>4. all'[k] = IF Builtins[k] = e.chainId THEN Overridden(all[k], orbit[1]) ELSE all[k]
    BY <1>2, <2>1, <2>3
  <2>5. Builtins[k] = e.chainId => Overrides
    BY <1>3, BuiltinsListed DEF Overrides
  <2> HIDE DEF e
  <2>6. CASE Builtins[k] # e.chainId
    <3>1. all'[k] = all[k]
      BY <2>4, <2>6
    <3>2. \A j \in 1 .. Merging + 1 : file[j].chainId = Builtins[k] => j \in 1 .. Merging
      BY <1>3, <2>6 DEF e
    <3>3. TokenKept(k, Merging)'
      BY <1>1, <1>3, <2>2, <3>1, <3>2 DEF TokenKept
    <3>4. QED BY <2>1, <2>2, <3>1, <3>3 DEF IdentityKept
  <2>7. CASE Builtins[k] = e.chainId
    <3>1. /\ all'[k] = Overridden(all[k], orbit[1]) /\ all[k] \in Chain
          /\ all[k].id = orbit[1].id
      BY <1>4, <2>1, <2>3, <2>4, <2>7
    <3>2. /\ all'[k].id = all[k].id /\ all'[k].family = all[k].family
          /\ all[k].aliases \subseteq all'[k].aliases
          /\ all'[k].token = IF e.token = NoToken THEN all[k].token ELSE e.token
      BY <2>3, <3>1, OverriddenChain
    <3>3. IdentityKept(k)'
      BY <2>1, <3>2 DEF IdentityKept
    <3>4. TokenKept(k, Merging)'
      <4> SUFFICES ASSUME all'[k].token = NoToken
                   PROVE  /\ BuiltinToken[Builtins[k]] = NoToken
                          /\ \A j \in 1 .. Merging' :
                               file[j].chainId = Builtins[k] => file[j].token = NoToken
        BY <1>1 DEF TokenKept
      <4>1. e.token = NoToken /\ all[k].token = NoToken
        BY <3>2
      <4>2. QED BY <1>3, <2>2, <4>1 DEF TokenKept, e
    <3>5. QED BY <2>5, <2>7, <3>3, <3>4
  <2>8. QED BY <2>6, <2>7
<1>8. Overrides' = Overrides
  BY <1>1 DEF Overrides
<1>9. BuiltinsInStep'
  BY <1>1, <1>7, <1>8 DEF BuiltinsInStep
<1>10. QED BY <1>5, <1>6, <1>9

LEMMA IndexStep == RegistryInv /\ IndexChain => RegistryInv'
<1> SUFFICES ASSUME RegistryInv, IndexChain PROVE RegistryInv'
  OBVIOUS
<1> USE DEF RegistryInv
<1>1. /\ UNCHANGED <<pc, file, orbit, all>> /\ pc = "index" /\ next' = next + 1
      /\ next \in 1 .. Len(all) /\ Len(all) \in Nat /\ all[next] \in Chain
      /\ index' = [n \in Names |-> IF Takes(n, all[next]) THEN all[next].id ELSE index[n]]
  BY DEF IndexChain, TypeOK
<1>2. TypeOK'
  BY <1>1 DEF TypeOK, Chain
<1>3. FirstAmong(next - 1)'
  <2>1. all[next].id \in Ids /\ all[next].id # Nowhere
    BY <1>1, RegistryAssumption DEF Chain
  <2>2. next' - 1 = next /\ next - 1 \in Nat
    BY <1>1
  <2>3. ASSUME NEW n \in Names
        PROVE  IF index'[n] = Nowhere
               THEN \A k \in 1 .. next : n \notin Keys(all[k])
               ELSE \E k \in 1 .. next :
                      /\ all[k].id = index'[n] /\ n \in Keys(all[k])
                      /\ \A j \in 1 .. k - 1 : n \notin Keys(all[j])
    <3>1. IF index[n] = Nowhere
          THEN \A k \in 1 .. next - 1 : n \notin Keys(all[k])
          ELSE \E k \in 1 .. next - 1 :
                 /\ all[k].id = index[n] /\ n \in Keys(all[k])
                 /\ \A j \in 1 .. k - 1 : n \notin Keys(all[j])
      BY DEF PhasesInStep, FirstAmong
    <3>2. CASE index[n] # Nowhere
      <4>1. index'[n] = index[n]
        BY <1>1, <3>2 DEF Takes
      <4>2. QED BY <1>1, <3>1, <3>2, <4>1
    <3>3. CASE index[n] = Nowhere /\ n \notin Keys(all[next])
      <4>1. index'[n] = Nowhere
        BY <1>1, <3>3 DEF Takes
      <4>2. \A k \in 1 .. next : k = next \/ k \in 1 .. next - 1
        BY <1>1
      <4>3. QED BY <3>1, <3>3, <4>1, <4>2
    <3>4. CASE index[n] = Nowhere /\ n \in Keys(all[next])
      <4>1. index'[n] = all[next].id
        BY <1>1, <3>4 DEF Takes
      <4>2. QED BY <1>1, <2>1, <3>1, <3>4, <4>1
    <3>5. QED BY <3>2, <3>3, <3>4
  <2>4. QED BY <1>1, <2>2, <2>3 DEF FirstAmong, Keys
<1>4. PhasesInStep'
  BY <1>1, <1>3 DEF PhasesInStep, Merging
<1>5. BuiltinsInStep'
  BY <1>1 DEF BuiltinsInStep, IdentityKept, TokenKept, Overrides, Merging
<1>6. QED BY <1>2, <1>4, <1>5

LEMMA StepRegistry == RegistryInv /\ [Next]_vars => RegistryInv'
<1> SUFFICES ASSUME RegistryInv, [Next]_vars PROVE RegistryInv'
  OBVIOUS
<1>1. CASE Merged \/ Built \/ UNCHANGED vars
  <2>1. /\ UNCHANGED <<file, orbit, all, index, next>>
        /\ \/ pc = "merge" /\ pc' = "index" /\ orbit = <<>>
           \/ pc = "index" /\ pc' = "done" /\ next > Len(all)
           \/ pc' = pc
    BY <1>1 DEF Merged, Built, vars
  <2>2. TypeOK'
    BY <2>1 DEF RegistryInv, TypeOK
  <2>3. next \in 1 .. Len(all) + 1 /\ Len(all) \in Nat
    BY DEF RegistryInv, TypeOK
  <2>4. PhasesInStep'
    BY <2>1, <2>3 DEF RegistryInv, PhasesInStep, FirstAmong, Keys, Merging
  <2>5. BuiltinsInStep'
    BY <2>1 DEF RegistryInv, BuiltinsInStep, IdentityKept, TokenKept, Overrides, Merging
  <2>6. QED BY <2>2, <2>4, <2>5 DEF RegistryInv
<1>2. QED BY <1>1, ParseStep, MergeStep, IndexStep DEF Next

-----------------------------------------------------------------------------

\* The inductive invariant of buildRegistry (src/chains.ts): what is merged and
\* indexed so far is what those entries and chains, taken alone, would give.
THEOREM RegistryInvariant == Spec => []RegistryInv
BY InitRegistry, StepRegistry, PTL DEF Spec

\* No chains file changes which chain a built-in one is, however often it amends
\* it, and none takes its token away (src/chains.ts buildRegistry).
THEOREM BuiltinKeepsIdentityEver == Spec => []BuiltinKeepsIdentity
<1>1. RegistryInv => BuiltinKeepsIdentity
  <2> SUFFICES ASSUME RegistryInv, NEW k \in 1 .. Len(Builtins)
               PROVE  /\ IdentityKept(k)
                      /\ pc \in {"index", "done"} => TokenKept(k, Len(file))
    BY DEF RegistryInv, BuiltinKeepsIdentity
  <2>1. IdentityKept(k)
    BY DEF RegistryInv, BuiltinsInStep
  <2>2. ASSUME pc \in {"index", "done"} PROVE TokenKept(k, Len(file))
    <3>1. orbit = <<>> /\ file \in Seq(Entries)
      BY <2>2 DEF RegistryInv, PhasesInStep
    <3>2. Merging = Len(file)
      BY <3>1 DEF Merging
    <3>3. QED BY <2>2, <3>2 DEF RegistryInv, BuiltinsInStep
  <2>3. QED BY <2>1, <2>2
<1>2. QED BY <1>1, RegistryInvariant, PTL

\* Every name of every chain resolves, to the first chain that carries it
\* (src/chains.ts buildRegistry, aliasIndex).
THEOREM FirstWinsEver == Spec => []FirstWins
<1>1. RegistryInv => FirstWins
  <2> SUFFICES ASSUME RegistryInv, pc = "done" PROVE FirstAmong(Len(all))
    BY DEF FirstWins
  <2>1. Len(all) \in Nat /\ next = Len(all) + 1 /\ FirstAmong(next - 1)
    BY DEF RegistryInv, TypeOK, PhasesInStep
  <2>2. next - 1 = Len(all)
    BY <2>1
  <2>3. QED BY <2>1, <2>2
<1>2. QED BY <1>1, RegistryInvariant, PTL

\* A chains file that amends no built-in chain redirects none of their names,
\* whatever aliases its entries claim (src/chains.ts buildRegistry).
THEOREM StrayAliasHarmlessEver == Spec => []StrayAliasHarmless
<1>1. RegistryInv /\ FirstWins => StrayAliasHarmless
  <2> SUFFICES ASSUME RegistryInv, FirstAmong(Len(all)), ~Overrides,
                      NEW b \in BuiltinIds, NEW n \in BuiltinNames[b] \cup {b}
               PROVE  index[n] = b
    BY DEF FirstWins, StrayAliasHarmless
  <2>1. Len(all) \in Nat /\ \A k \in 1 .. Len(Builtins) :
          k <= Len(all) /\ all[k] = BuiltinChain(Builtins[k])
    BY DEF RegistryInv, TypeOK, BuiltinsInStep, IdentityKept
  <2>2. PICK m \in 1 .. Len(Builtins) : Builtins[m] = b
    BY DEF BuiltinIds
  <2>3. m \in 1 .. Len(all) /\ n \in Keys(all[m])
    BY <2>1, <2>2, BuiltinsListed, BuiltinChainNames
  <2>4. n \in Names
    BY BuiltinChainNames DEF Names, Ids
  <2>5. index[n] # Nowhere
    BY <2>3, <2>4 DEF FirstAmong
  <2>6. PICK k \in 1 .. Len(all) :
          /\ all[k].id = index[n] /\ n \in Keys(all[k])
          /\ \A j \in 1 .. k - 1 : n \notin Keys(all[j])
    BY <2>4, <2>5 DEF FirstAmong
  <2>7. k \in 1 .. Len(Builtins)
    BY <2>1, <2>3, <2>6, BuiltinsListed
  <2>8. Builtins[k] \in BuiltinIds /\ n \in BuiltinNames[Builtins[k]] \cup {Builtins[k]}
        /\ all[k].id = Builtins[k]
    BY <2>1, <2>6, <2>7, BuiltinsListed, BuiltinChainNames
  <2>9. Builtins[k] = b
    BY <2>8, BuiltinNamesApart
  <2>10. QED BY <2>6, <2>8, <2>9
<1>2. QED BY <1>1, RegistryInvariant, FirstWinsEver, PTL
=============================================================================
