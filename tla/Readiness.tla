----------------------------- MODULE Readiness -----------------------------
(***************************************************************************)
(* `arb402 doctor' (src/cli/commands/doctor.ts) followed by the start of   *)
(* the server (src/startup.ts) in the same environment: what the operator  *)
(* configured, the Node version it runs on, the chain and token behind it, *)
(* and the database.  Only doctor looks at the Node version.  Both read    *)
(* the token through the probe of src/tokenProbe.ts, where a read that     *)
(* fails and a getter that the token lacks look the same.                  *)
(***************************************************************************)
VARIABLES
  env,       \* the environment, fixed
  pc,        \* where doctor, then the server, is
  hardFail,  \* of runDoctor
  probe,     \* the last result of probeToken
  verdict    \* of doctor: "none" while it runs

vars == <<env, pc, hardFail, probe, verdict>>

\* What a getter of the token says: as configured, otherwise, or nothing.
Reading == {"right", "wrong", "hidden"}

Probe == [named : {"right", "hidden"}, eip3009 : {"right", "hidden"},
          decimals : Reading, domain : Reading]

\* named: the token has a name or a symbol.  denied: a database whose role may
\* read but not create tables.  unverified: PGSSL=true.  flaky: any single call to
\* an RPC endpoint that is up may fail.
Environment ==
  [nodeSupported : BOOLEAN, production : BOOLEAN,
   key : {"valid", "missing", "malformed"},
   rpc : {"right", "wrong", "down"}, flaky : BOOLEAN, tokenConfigured : BOOLEAN, token : Probe,
   database : {"none", "up", "down", "denied"}, localDatabase : BOOLEAN,
   tls : {"on", "unverified", "off", "unknown"}]

Nothing == [named |-> "hidden", eip3009 |-> "hidden", decimals |-> "hidden", domain |-> "hidden"]

Init ==
  /\ env \in Environment
  /\ pc = "doctor node" /\ hardFail = FALSE /\ probe = Nothing /\ verdict = "none"

-----------------------------------------------------------------------------
(* The RPC endpoint and the probe.                                         *)

\* getChainId
ChainIdAnswers == {env.rpc} \cup (IF env.flaky THEN {"down"} ELSE {})

\* tryRead: every error is undefined.
TryRead(fact) ==
  IF env.rpc = "down" THEN {"hidden"}
  ELSE {fact} \cup (IF env.flaky THEN {"hidden"} ELSE {})

\* The reads of probeToken.
ProbeReads ==
  [named : TryRead(env.token.named), eip3009 : TryRead(env.token.eip3009),
   decimals : TryRead(env.token.decimals), domain : TryRead(env.token.domain)]

\* Mutant: a missing EIP-3009 is only warned about.
HasProblemNoMarker(p) ==
  \/ p.named = "hidden" /\ p.decimals = "hidden"
  \/ p.decimals = "wrong"
  \/ p.domain = "wrong"

\* The problems of probeToken; a separator that was not read is a warning.
HasProblem(p) ==
  \/ p.named = "hidden" /\ p.decimals = "hidden"
  \/ p.eip3009 = "hidden"
  \/ p.decimals = "wrong"
  \/ p.domain = "wrong"

-----------------------------------------------------------------------------
(* runDoctor.  A failed check is noted and the next one runs.              *)

Track(passed) == hardFail' = (hardFail \/ ~passed)

DoctorNode ==
  /\ pc = "doctor node"
  /\ Track(env.nodeSupported)
  /\ pc' = "doctor key"
  /\ UNCHANGED <<env, probe, verdict>>

\* Importing the configuration throws on a malformed key.
DoctorKey ==
  /\ pc = "doctor key"
  /\ IF env.key = "malformed"
     THEN pc' = "start" /\ verdict' = "failed" /\ UNCHANGED hardFail
     ELSE pc' = "doctor rpc" /\ Track(env.key = "valid") /\ UNCHANGED verdict
  /\ UNCHANGED <<env, probe>>

DoctorRpc ==
  /\ pc = "doctor rpc"
  /\ \E id \in ChainIdAnswers : Track(id = "right")
  /\ pc' = "doctor token"
  /\ UNCHANGED <<env, probe, verdict>>

\* Mutant: a domain that cannot be checked fails.
JudgeStrictly(p) == p.eip3009 = "right" /\ p.decimals = "right" /\ p.domain = "right"

\* Mutant: the domain is not judged.
JudgeNoDomain(p) == p.eip3009 = "right" /\ p.decimals = "right"

Judge(p) == p.eip3009 = "right" /\ p.decimals = "right" /\ p.domain # "wrong"

\* probeToken never throws: "token reachable" always passes.
DoctorToken ==
  /\ pc = "doctor token"
  /\ IF env.tokenConfigured
     THEN probe' \in ProbeReads /\ Track(Judge(probe'))
     ELSE UNCHANGED probe /\ Track(FALSE)
  /\ pc' = "doctor database"
  /\ UNCHANGED <<env, verdict>>

\* describeDatabaseTls: only a remote plaintext connection in production fails.
Exposed == env.tls = "off" /\ env.production /\ ~env.localDatabase

\* No database is a warning, in production too; the TLS of one that does not
\* answer is not looked at.
DoctorDatabase ==
  /\ pc = "doctor database"
  /\ Track(env.database # "down" /\ (env.database \in {"up", "denied"} => ~Exposed))
  /\ pc' = "doctor end"
  /\ UNCHANGED <<env, probe, verdict>>

DoctorEnds ==
  /\ pc = "doctor end"
  /\ verdict' = IF hardFail THEN "failed" ELSE "passed"
  /\ pc' = "start"
  /\ UNCHANGED <<env, hardFail, probe>>

-----------------------------------------------------------------------------
(* The server: importing the configuration, then runStartupChecks.         *)

StartReads ==
  /\ pc = "start"
  /\ pc' = IF env.key = "malformed" THEN "refused" ELSE "start database"
  /\ UNCHANGED <<env, hardFail, probe, verdict>>

\* testConnection and ensureSchema throw; without a database production stops.
DatabaseReady == env.database = "up" \/ (env.database = "none" /\ ~env.production)

StartDatabase ==
  /\ pc = "start database"
  /\ pc' = IF DatabaseReady THEN "start rpc" ELSE "refused"
  /\ UNCHANGED <<env, hardFail, probe, verdict>>

StartRpc ==
  /\ pc = "start rpc"
  /\ \E id \in ChainIdAnswers :
       pc' = IF id = "right" /\ env.tokenConfigured THEN "start token" ELSE "refused"
  /\ UNCHANGED <<env, hardFail, probe, verdict>>

\* verifyToken
StartToken ==
  /\ pc = "start token"
  /\ probe' \in ProbeReads
  /\ pc' = IF HasProblem(probe') THEN "refused" ELSE "up"
  /\ UNCHANGED <<env, hardFail, verdict>>

Next ==
  \/ DoctorNode \/ DoctorKey \/ DoctorRpc \/ DoctorToken \/ DoctorDatabase \/ DoctorEnds
  \/ StartReads \/ StartDatabase \/ StartRpc \/ StartToken

Spec == Init /\ [][Next]_vars

-----------------------------------------------------------------------------
(* Properties.                                                             *)

\* Types, and no verdict before doctor has run.
TypeOK ==
  /\ env \in Environment /\ probe \in Probe /\ hardFail \in BOOLEAN
  /\ verdict \in {"none", "passed", "failed"}
  /\ pc \in {"doctor node", "doctor key", "doctor rpc", "doctor token", "doctor database",
             "doctor end", "start", "start database", "start rpc", "start token", "refused", "up"}
  /\ verdict = "none" <=> pc \in {"doctor node", "doctor key", "doctor rpc", "doctor token",
                                  "doctor database", "doctor end"}

\* docs/deployment.md: doctor is the gate that "exits non-zero on any blocking
\* issue".  With answers that do not change, only two things stop the server that
\* doctor lets pass: no database in production, and one whose schema cannot be
\* created.
GateButDatabase ==
  verdict = "passed" /\ pc = "refused" /\ ~env.flaky =>
    env.database = "denied" \/ (env.database = "none" /\ env.production)

\* And doctor stops only four deployments that the server would start in: an old
\* Node, no key, a token that hides its decimals, an exposed database connection.
DoctorStricterInFour ==
  verdict = "failed" /\ pc = "up" /\ ~env.flaky =>
    ~env.nodeSupported \/ env.key = "missing" \/ env.token.decimals = "hidden" \/ (Exposed /\ env.database = "up")

\* Whatever read fails, a server that runs is on the configured chain, its token
\* has EIP-3009, and production has a database (runStartupChecks).  That the
\* token's domain and decimals are not other than configured (verifyToken) takes
\* reads that answer: one that fails is passed over.  (With it, the types.)
UpIsSettleable ==
  TypeOK /\ (pc = "up" =>
    /\ env.rpc = "right" /\ env.tokenConfigured /\ env.token.eip3009 = "right"
    /\ env.production => env.database = "up"
    /\ ~env.flaky => env.token.domain # "wrong" /\ env.token.decimals # "wrong")

\* What each check of doctor fails on, when the answers do not change.
NodeBlocks == ~env.nodeSupported
KeyBlocks == env.key # "valid"
RpcBlocks == env.rpc # "right"
TokenBlocks == ~env.tokenConfigured \/ env.rpc = "down" \/ ~Judge(env.token)
DatabaseBlocks ==
  env.database = "down" \/ (env.database \in {"up", "denied"} /\ Exposed)

Blocks == NodeBlocks \/ KeyBlocks \/ RpcBlocks \/ TokenBlocks \/ DatabaseBlocks

\* Doctor has noted what the checks so far fail on, and no more.
Noted ==
  ~env.flaky =>
    /\ pc = "doctor node" => ~hardFail
    /\ pc = "doctor key" => (hardFail <=> NodeBlocks)
    /\ pc = "doctor rpc" => (hardFail <=> NodeBlocks \/ KeyBlocks)
    /\ pc = "doctor token" => (hardFail <=> NodeBlocks \/ KeyBlocks \/ RpcBlocks)
    /\ pc = "doctor database" =>
         (hardFail <=> NodeBlocks \/ KeyBlocks \/ RpcBlocks \/ TokenBlocks)
    /\ pc = "doctor end" => (hardFail <=> Blocks)
    /\ verdict # "none" => (verdict = "failed" <=> Blocks)

\* What the server has found in order by each step, flaky or not.
Passed ==
  /\ pc \in {"start database", "start rpc", "start token", "up"} => env.key # "malformed"
  /\ pc \in {"start rpc", "start token", "up"} => DatabaseReady
  /\ pc \in {"start token", "up"} => env.rpc = "right" /\ env.tokenConfigured
  /\ pc = "up" => env.token.eip3009 = "right"

\* Where it stops, or runs, when the answers do not change.
Stopped ==
  ~env.flaky =>
    /\ pc = "up" => ~HasProblem(env.token)
    /\ pc = "refused" =>
         \/ env.key = "malformed" \/ ~DatabaseReady
         \/ env.rpc # "right" \/ ~env.tokenConfigured \/ HasProblem(env.token)

\* Why the three hold.
ReadyInv == TypeOK /\ Noted /\ Passed /\ Stopped
=============================================================================
