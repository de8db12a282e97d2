--------------------------- MODULE ChainRegistry ---------------------------
(***************************************************************************)
(* The chain registry (src/chains.ts): an operator's chains file is parsed *)
(* and merged over the built-in chains, then every accepted spelling of a  *)
(* network is indexed, first registration first.  NETWORK, and the network *)
(* of a payment, are looked up there (src/config.ts normalizeNetworkId).   *)
(*                                                                         *)
(* A name is a lower-case spelling; a CAIP-2 id is a name too.             *)
(***************************************************************************)
EXTENDS Integers, Sequences, FiniteSets

CONSTANTS
  Builtins,      \* the ids of BUILTIN_CHAINS, in order
  BuiltinNames,  \* legacy name and aliases of each of them
  BuiltinToken,  \* the settlement token of each of them
  OrbitIds,      \* ids of other chains
  Spellings,     \* every other name; a slug or legacy name has no colon in it
  Tokens, NoToken,
  Nowhere,       \* of a name the index does not know
  Bad,           \* a chainId or token that parseOrbitChain rejects
  MaxOrbit,      \* bound: entries of the chains file
  MaxAliases     \* bound: aliases of an entry, besides its slug

VARIABLES
  pc,
  file,   \* the raw entries of the chains file
  orbit,  \* the parsed entries still to merge
  all,    \* byId, in its insertion order
  index,  \* aliasIndex
  next    \* the chain of `all' to index next

vars == <<pc, file, orbit, all, index, next>>

BuiltinIds == {Builtins[k] : k \in 1 .. Len(Builtins)}
Ids == BuiltinIds \cup OrbitIds
Names == Ids \cup Spellings

Chain == [id : Ids, legacyName : Spellings, aliases : SUBSET Names,
          family : {"builtin", "orbit"}, token : Tokens \cup {NoToken}]

ASSUME RegistryAssumption ==
  /\ \A j, k \in 1 .. Len(Builtins) : Builtins[j] = Builtins[k] => j = k
  /\ BuiltinIds \cap OrbitIds = {} /\ Ids \cap Spellings = {}
  /\ Builtins \in Seq(BuiltinIds)
  /\ BuiltinNames \in [BuiltinIds -> (SUBSET Spellings) \ {{}}]
  /\ \A b, c \in BuiltinIds : b # c => BuiltinNames[b] \cap BuiltinNames[c] = {}
  /\ BuiltinToken \in [BuiltinIds -> Tokens \cup {NoToken}]
  /\ Nowhere \notin Ids /\ NoToken \notin Tokens /\ Bad \notin Ids \cup Tokens
  /\ MaxOrbit \in Nat /\ MaxAliases \in Nat

\* The legacy name of a built-in chain is one of its aliases.
BuiltinChain(b) ==
  [id |-> b, legacyName |-> CHOOSE n \in BuiltinNames[b] : TRUE,
   aliases |-> BuiltinNames[b], family |-> "builtin", token |-> BuiltinToken[b]]

\* slug and aliases are optional in the file; both are spelled out here.
Entries == [chainId : Ids \cup {Bad}, slug : Spellings,
            aliases : {a \in SUBSET Names : Cardinality(a) <= MaxAliases},
            token : Tokens \cup {NoToken, Bad}]

Init ==
  /\ pc = "parse"
  /\ file \in UNION {[1 .. k -> Entries] : k \in 0 .. MaxOrbit}
  /\ orbit = <<>>
  /\ all = [k \in 1 .. Len(Builtins) |-> BuiltinChain(Builtins[k])]
  /\ index = [n \in Names |-> Nowhere]
  /\ next = 1

-----------------------------------------------------------------------------

ParseOrbitChain(e) ==
  [id |-> e.chainId, legacyName |-> e.slug, aliases |-> {e.slug} \cup e.aliases,
   family |-> "orbit", token |-> e.token]

Rejected(e) == e.chainId = Bad \/ e.token = Bad

\* parseOrbitChains: one bad entry rejects the file, and the program stops.
ParseOrbitChains ==
  /\ pc = "parse"
  /\ IF \E k \in 1 .. Len(file) : Rejected(file[k])
     THEN pc' = "rejected" /\ UNCHANGED orbit
     ELSE /\ pc' = "merge"
          /\ orbit' = [k \in 1 .. Len(file) |-> ParseOrbitChain(file[k])]
  /\ UNCHANGED <<file, all, index, next>>

\* Mutant: an override replaces the aliases.
OverriddenAliases(old, c) ==
  [c EXCEPT !.family = old.family,
            !.token = IF c.token = NoToken THEN old.token ELSE c.token]

\* An entry for a registered id keeps its family, and adds to its aliases.
Overridden(old, c) ==
  [c EXCEPT !.family = old.family,
            !.aliases = old.aliases \cup c.aliases,
            !.token = IF c.token = NoToken THEN old.token ELSE c.token]

\* The merge loop of buildRegistry: byId.set keeps the place of a key it has.
RegisterOrbit ==
  /\ pc = "merge" /\ orbit # <<>>
  /\ LET c == Head(orbit)
     IN  IF \E k \in 1 .. Len(all) : all[k].id = c.id
         THEN all' = [k \in 1 .. Len(all) |->
                        IF all[k].id = c.id THEN Overridden(all[k], c) ELSE all[k]]
         ELSE all' = Append(all, c)
  /\ orbit' = Tail(orbit)
  /\ UNCHANGED <<pc, file, index, next>>

Merged ==
  /\ pc = "merge" /\ orbit = <<>>
  /\ pc' = "index"
  /\ UNCHANGED <<file, orbit, all, index, next>>

Keys(c) == {c.id, c.legacyName} \cup c.aliases

\* Mutant: the last registration wins.
TakesLast(n, c) == n \in Keys(c)

Takes(n, c) == n \in Keys(c) /\ index[n] = Nowhere

\* The index loop of buildRegistry.
IndexChain ==
  /\ pc = "index" /\ next <= Len(all)
  /\ index' = [n \in Names |-> IF Takes(n, all[next]) THEN all[next].id ELSE index[n]]
  /\ next' = next + 1
  /\ UNCHANGED <<pc, file, orbit, all>>

Built ==
  /\ pc = "index" /\ next > Len(all)
  /\ pc' = "done"
  /\ UNCHANGED <<file, orbit, all, index, next>>

Next == ParseOrbitChains \/ RegisterOrbit \/ Merged \/ IndexChain \/ Built

Spec == Init /\ [][Next]_vars

-----------------------------------------------------------------------------
(* Properties.                                                             *)

\* Types of the registry; an id is registered once.
TypeOK ==
  /\ pc \in {"parse", "merge", "index", "done", "rejected"}
  /\ orbit \in Seq(Chain) /\ all \in Seq(Chain)
  /\ index \in [Names -> Ids \cup {Nowhere}]
  /\ next \in 1 .. Len(all) + 1
  /\ \A j, k \in 1 .. Len(all) : all[j].id = all[k].id => j = k

\* What merging leaves of a built-in chain, and of the tokens of the first m
\* entries for it.
IdentityKept(k) ==
  /\ k <= Len(all) /\ all[k].id = Builtins[k] /\ all[k].family = "builtin"
  /\ BuiltinNames[Builtins[k]] \subseteq all[k].aliases

TokenKept(k, m) ==
  all[k].token = NoToken =>
    /\ BuiltinToken[Builtins[k]] = NoToken
    /\ \A j \in 1 .. m : file[j].chainId = Builtins[k] => file[j].token = NoToken

\* "An override keeps the built-in's identity": however many entries amend a
\* built-in chain, it keeps its place, its family and all its names, no other
\* chain has its id, and a token once given is only replaced by another
\* (buildRegistry).
BuiltinKeepsIdentity ==
  TypeOK /\ \A k \in 1 .. Len(Builtins) :
    IdentityKept(k) /\ (pc \in {"index", "done"} => TokenKept(k, Len(file)))

\* Among the first m chains, a name is the earliest one's that carries it.
FirstAmong(m) ==
  \A n \in Names :
    IF index[n] = Nowhere
    THEN \A k \in 1 .. m : n \notin Keys(all[k])
    ELSE \E k \in 1 .. m :
           /\ all[k].id = index[n] /\ n \in Keys(all[k])
           /\ \A j \in 1 .. k - 1 : n \notin Keys(all[j])

\* "first registration wins": a name resolves to the earliest chain that
\* carries it, and every name of every chain resolves.
FirstWins == pc = "done" => FirstAmong(Len(all))

Overrides == \E k \in 1 .. Len(file) : file[k].chainId \in BuiltinIds

\* "does not let an orbit alias hijack a built-in name": entries for chains of
\* their own never change what a built-in's name, or its id, resolves to.
StrayAliasHarmless ==
  pc = "done" /\ ~Overrides =>
    \A b \in BuiltinIds : \A n \in BuiltinNames[b] \cup {b} : index[n] = b

\* Entries merged so far, and the loop of each phase half-way.
Merging == Len(file) - Len(orbit)

PhasesInStep ==
  /\ file \in Seq(Entries)
  /\ pc \in {"parse", "rejected"} => orbit = <<>>
  /\ pc \in {"parse", "merge", "rejected"} => next = 1
  /\ pc \in {"index", "done"} => orbit = <<>>
  /\ pc = "done" => next = Len(all) + 1
  /\ Len(orbit) <= Len(file)
  /\ \A k \in 1 .. Len(orbit) :
       orbit[k] = ParseOrbitChain(file[Merging + k]) /\ ~Rejected(file[Merging + k])
  /\ FirstAmong(next - 1)

BuiltinsInStep ==
  \A k \in 1 .. Len(Builtins) :
    /\ IdentityKept(k)
    /\ pc # "rejected" => TokenKept(k, IF pc = "parse" THEN 0 ELSE Merging)
    /\ ~Overrides => all[k] = BuiltinChain(Builtins[k])

\* Why BuiltinKeepsIdentity, FirstWins and StrayAliasHarmless hold.
RegistryInv == TypeOK /\ PhasesInStep /\ BuiltinsInStep
=============================================================================
