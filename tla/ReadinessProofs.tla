-------------------------- MODULE ReadinessProofs --------------------------
(* Proofs about doctor and the start of the server, in any environment.    *)
EXTENDS Readiness, TLAPS

\* A getter is read as it is, or not at all.
LEMMA Read ==
  ASSUME NEW fact, NEW v \in TryRead(fact)
  PROVE  /\ v = fact \/ v = "hidden"
         /\ ~env.flaky => v = IF env.rpc = "down" THEN "hidden" ELSE fact
BY DEF TryRead

\* With an endpoint that always answers the probe sees the token.
LEMMA Reads ==
  ASSUME TypeOK, NEW q \in ProbeReads
  PROVE  /\ q \in Probe
         /\ q.eip3009 = "right" => env.token.eip3009 = "right"
         /\ ~env.flaky /\ env.rpc # "down" => q = env.token
         /\ ~env.flaky /\ env.rpc = "down" => q = Nothing
<1> DEFINE k == env.token
<1>1. k \in Probe
  BY DEF TypeOK, Environment
<1>2. PICK n \in TryRead(k.named), e \in TryRead(k.eip3009),
           d \in TryRead(k.decimals), s \in TryRead(k.domain) :
        q = [named |-> n, eip3009 |-> e, decimals |-> d, domain |-> s]
  BY DEF ProbeReads
<1>3. /\ n = k.named \/ n = "hidden"
      /\ e = k.eip3009 \/ e = "hidden"
      /\ d = k.decimals \/ d = "hidden"
      /\ s = k.domain \/ s = "hidden"
  BY Read
<1>4. ASSUME ~env.flaky
      PROVE  /\ n = IF env.rpc = "down" THEN "hidden" ELSE k.named
             /\ e = IF env.rpc = "down" THEN "hidden" ELSE k.eip3009
             /\ d = IF env.rpc = "down" THEN "hidden" ELSE k.decimals
             /\ s = IF env.rpc = "down" THEN "hidden" ELSE k.domain
  BY <1>4, Read
<1> HIDE DEF k
<1>5. q \in Probe
  BY <1>1, <1>2, <1>3 DEF Probe, Reading
<1>6. q.eip3009 = "right" => k.eip3009 = "right"
  BY <1>2, <1>3
<1>7. ~env.flaky /\ env.rpc # "down" => q = k
  BY <1>1, <1>2, <1>4 DEF Probe
<1>8. ~env.flaky /\ env.rpc = "down" => q = Nothing
  BY <1>2, <1>4 DEF Nothing
<1>9. QED BY <1>5, <1>6, <1>7, <1>8 DEF k

\* The environment stays, and with it what is wrong with it.
LEMMA SameEnvironment ==
  ASSUME env' = env
  PROVE  /\ (NodeBlocks' <=> NodeBlocks)
         /\ (KeyBlocks' <=> KeyBlocks) /\ (RpcBlocks' <=> RpcBlocks)
         /\ (TokenBlocks' <=> TokenBlocks) /\ (DatabaseBlocks' <=> DatabaseBlocks)
         /\ (Blocks' <=> Blocks) /\ (DatabaseReady' <=> DatabaseReady)
         /\ (HasProblem(env.token)' <=> HasProblem(env.token))
BY DEF NodeBlocks, KeyBlocks, RpcBlocks, TokenBlocks, DatabaseBlocks, Blocks,
   DatabaseReady, Exposed, Judge, HasProblem

LEMMA InitReady == Init => ReadyInv
<1> SUFFICES ASSUME Init PROVE ReadyInv
  OBVIOUS
<1>1. Nothing \in Probe
  BY DEF Nothing, Probe, Reading
<1>2. TypeOK
  BY <1>1 DEF Init, TypeOK
<1>3. Noted /\ Passed /\ Stopped
  BY DEF Init, Noted, Passed, Stopped
<1>4. QED BY <1>2, <1>3 DEF ReadyInv

LEMMA DoctorStep ==
  ASSUME ReadyInv,
         \/ DoctorNode \/ DoctorKey \/ DoctorRpc \/ DoctorToken
         \/ DoctorDatabase \/ DoctorEnds
  PROVE  ReadyInv'
<1> USE DEF ReadyInv
<1>1. CASE DoctorKey
  <2>1. TypeOK' /\ Passed' /\ Stopped'
    BY <1>1 DEF DoctorKey, Track, TypeOK, Passed, Stopped
  <2>2. Noted'
    BY <1>1 DEF DoctorKey, Track, TypeOK, Noted, NodeBlocks, KeyBlocks, Blocks
  <2>3. QED BY <2>1, <2>2
<1>2. CASE DoctorRpc
  <2>1. TypeOK' /\ Passed' /\ Stopped'
    BY <1>2 DEF DoctorRpc, Track, TypeOK, Passed, Stopped
  <2>2. ~env.flaky => ChainIdAnswers = {env.rpc}
    BY DEF ChainIdAnswers
  <2>3. ~env.flaky => (hardFail' <=> hardFail \/ RpcBlocks)
    BY <1>2, <2>2 DEF DoctorRpc, Track, RpcBlocks, TypeOK
  <2>4. Noted'
    BY <1>2, <2>3 DEF DoctorRpc, TypeOK, Noted, NodeBlocks, KeyBlocks, RpcBlocks
  <2>5. QED BY <2>1, <2>4
<1>3. CASE DoctorToken
  <2>1. env' = env /\ verdict' = verdict /\ pc' = "doctor database"
        /\ hardFail' \in BOOLEAN
    BY <1>3 DEF DoctorToken, Track, TypeOK
  <2>2. probe' \in Probe
    BY <1>3, Reads DEF DoctorToken, TypeOK
  <2>3. ASSUME ~env.flaky
        PROVE  hardFail' <=> hardFail \/ TokenBlocks
    <3>1. CASE env.tokenConfigured
      <4>1. probe' \in ProbeReads /\ Track(Judge(probe'))
        BY <1>3, <3>1 DEF DoctorToken
      <4>2. probe' = IF env.rpc = "down" THEN Nothing ELSE env.token
        BY <2>3, <4>1, Reads
      <4>3. Judge(probe') <=> ~TokenBlocks
        BY <3>1, <4>2 DEF TokenBlocks, Judge, Nothing
      <4>4. QED BY <4>1, <4>3 DEF Track
    <3>2. CASE ~env.tokenConfigured
      BY <1>3, <3>2 DEF DoctorToken, Track, TokenBlocks
    <3>3. QED BY <3>1, <3>2
  <2>4. TypeOK' /\ Passed' /\ Stopped'
    BY <1>3, <2>1, <2>2 DEF DoctorToken, TypeOK, Passed, Stopped
  <2>5. Noted'
    BY <1>3, <2>1, <2>3
       DEF DoctorToken, TypeOK, Noted, NodeBlocks, KeyBlocks, RpcBlocks, TokenBlocks
  <2>6. QED BY <2>4, <2>5
<1>4. CASE DoctorDatabase
  BY <1>4 DEF DoctorDatabase, Track, Exposed, TypeOK, Noted, Passed, Stopped,
     NodeBlocks, KeyBlocks, RpcBlocks, TokenBlocks, DatabaseBlocks, Blocks
<1>5. CASE DoctorEnds
  BY <1>5 DEF DoctorEnds, TypeOK, Noted, Passed, Stopped, NodeBlocks, KeyBlocks,
     RpcBlocks, TokenBlocks, DatabaseBlocks, Blocks, Exposed
<1>6. CASE DoctorNode
  BY <1>6 DEF DoctorNode, Track, TypeOK, Noted, Passed, Stopped, NodeBlocks
<1>7. QED BY <1>1, <1>2, <1>3, <1>4, <1>5, <1>6

LEMMA StartStep ==
  ASSUME ReadyInv, StartReads \/ StartDatabase \/ StartRpc \/ StartToken
  PROVE  ReadyInv'
<1> USE DEF ReadyInv
<1>1. /\ env' = env /\ hardFail' = hardFail /\ verdict' = verdict
      /\ verdict # "none"
      /\ pc' \in {"start database", "start rpc", "start token", "refused", "up"}
  BY DEF StartReads, StartDatabase, StartRpc, StartToken, TypeOK
<1>2. Noted'
  BY <1>1 DEF Noted, NodeBlocks, KeyBlocks, RpcBlocks, TokenBlocks,
     DatabaseBlocks, Blocks, Exposed
<1>3. CASE StartReads
  BY <1>1, <1>2, <1>3 DEF StartReads, TypeOK, Passed, Stopped, DatabaseReady
<1>4. CASE StartDatabase
  BY <1>1, <1>2, <1>4 DEF StartDatabase, TypeOK, Passed, Stopped, DatabaseReady
<1>5. CASE StartRpc
  BY <1>1, <1>2, <1>5 DEF StartRpc, ChainIdAnswers, TypeOK, Passed, Stopped,
     DatabaseReady
<1>6. CASE StartToken
  <2>1. probe' \in ProbeReads /\ pc = "start token"
        /\ pc' = IF HasProblem(probe') THEN "refused" ELSE "up"
    BY <1>6 DEF StartToken
  <2>2. /\ probe' \in Probe
        /\ probe'.eip3009 = "right" => env.token.eip3009 = "right"
        /\ ~env.flaky => probe' = env.token
    BY <2>1, Reads DEF Passed
  <2>3. ~HasProblem(probe') => probe'.eip3009 = "right"
    BY <2>2 DEF HasProblem, Probe
  <2>4. TypeOK'
    BY <1>1, <2>1, <2>2 DEF TypeOK
  <2>5. Passed' /\ Stopped'
    BY <1>1, <2>1, <2>2, <2>3 DEF Passed, Stopped, DatabaseReady
  <2>6. QED BY <1>2, <2>4, <2>5
<1>7. QED BY <1>3, <1>4, <1>5, <1>6

LEMMA StepReady == ReadyInv /\ [Next]_vars => ReadyInv'
<1>1. ASSUME ReadyInv, UNCHANGED vars PROVE ReadyInv'
  <2>1. /\ env' = env /\ pc' = pc /\ hardFail' = hardFail
        /\ probe' = probe /\ verdict' = verdict
    BY <1>1 DEF vars
  <2>2. TypeOK'
    BY <1>1, <2>1 DEF ReadyInv, TypeOK
  <2>3. Noted' /\ Passed' /\ Stopped'
    BY <1>1, <2>1, SameEnvironment DEF ReadyInv, Noted, Passed, Stopped
  <2>4. QED BY <2>2, <2>3 DEF ReadyInv
<1>2. QED BY <1>1, DoctorStep, StartStep DEF Next

\* With answers that do not change, doctor's verdict is the disjunction of what its
\* tracked checks, the Node version among them, fail on, and the server stops just on its own (runDoctor, runStartupChecks).
THEOREM ReadyInvariant == Spec => []ReadyInv
BY InitReady, StepReady, PTL DEF Spec

\* Of what doctor lets pass, only a database that production lacks, or one whose
\* schema cannot be created, stops the server (src/cli/commands/doctor.ts).
THEOREM GateButDatabaseEver == Spec => []GateButDatabase
<1>1. ReadyInv => GateButDatabase
  <2> SUFFICES ASSUME ReadyInv, verdict = "passed", pc = "refused", ~env.flaky
               PROVE  env.database = "denied" \/ (env.database = "none" /\ env.production)
    BY DEF GateButDatabase
  <2>1. ~Blocks
    BY DEF ReadyInv, Noted
  <2>2. ~HasProblem(env.token)
    BY <2>1 DEF Blocks, TokenBlocks, Judge, HasProblem
  <2>3. ~DatabaseReady /\ env.database # "down"
    BY <2>1, <2>2 DEF ReadyInv, Stopped, Blocks, KeyBlocks, RpcBlocks, TokenBlocks,
       DatabaseBlocks
  <2>4. env.database \in {"none", "up", "down", "denied"}
    BY DEF ReadyInv, TypeOK, Environment
  <2>5. QED BY <2>3, <2>4 DEF DatabaseReady
<1>2. QED BY <1>1, ReadyInvariant, PTL

\* Of what the server starts in, doctor stops only an old Node, a missing key,
\* hidden decimals and an exposed database connection (src/startup.ts,
\* src/tokenProbe.ts, src/cli/commands/doctor.ts).
THEOREM DoctorStricterInFourEver == Spec => []DoctorStricterInFour
<1>1. ReadyInv => DoctorStricterInFour
  <2> SUFFICES ASSUME ReadyInv, verdict = "failed", pc = "up", ~env.flaky
               PROVE  \/ ~env.nodeSupported \/ env.key = "missing" \/ env.token.decimals = "hidden"
                      \/ Exposed /\ env.database = "up"
    BY DEF DoctorStricterInFour
  <2>1. /\ env.key \in {"valid", "missing", "malformed"} /\ env.token \in Probe
        /\ Blocks /\ env.key # "malformed" /\ DatabaseReady /\ env.rpc = "right"
        /\ env.tokenConfigured /\ ~HasProblem(env.token)
    BY DEF ReadyInv, TypeOK, Environment, Noted, Passed, Stopped
  <2>2. CASE KeyBlocks
    BY <2>1, <2>2 DEF KeyBlocks
  <2>3. CASE TokenBlocks
    BY <2>1, <2>3 DEF TokenBlocks, Judge, HasProblem, Probe, Reading
  <2>4. CASE DatabaseBlocks
    BY <2>1, <2>4 DEF DatabaseBlocks, DatabaseReady
  <2>5. QED BY <2>1, <2>2, <2>3, <2>4 DEF Blocks, NodeBlocks, RpcBlocks
<1>2. QED BY <1>1, ReadyInvariant, PTL

\* A server that runs can settle: the chain, EIP-3009 and the database are there
\* whatever read failed, the rest of the token if none did (src/startup.ts).
THEOREM UpIsSettleableEver == Spec => []UpIsSettleable
<1>1. ReadyInv => UpIsSettleable
  BY DEF ReadyInv, UpIsSettleable, Passed, Stopped, DatabaseReady, HasProblem
<1>2. QED BY <1>1, ReadyInvariant, PTL
=============================================================================
