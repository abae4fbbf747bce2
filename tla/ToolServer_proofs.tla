------------------------- MODULE ToolServer_proofs --------------------------
(***************************************************************************)
(* Theorems about ToolServer, for any set of environments, body sizes and  *)
(* ways to pass a flag.                                                    *)
(***************************************************************************)
EXTENDS ToolServer, TLAPS

\* The configuration is what the environment says, once it is loaded, and
\* the server runs only when it could be loaded.
Configured ==
  /\ at # "loading" => config = LoadConfig(env)
  /\ Listening => config.auth # "error"

\* Layers a request of which only the default limit has been parsed has passed.
BeforeGate == {"parser", "route", "gate"}
InServer   == BeforeGate \cup {"uploads", "tools", "answered"}

\* What is known of a request by the layer it has reached.
Screened ==
  /\ at \in InServer => request \in Requests
  /\ at \notin InServer => request = NoRequest
  /\ at # "answered" => effect = "nothing" /\ status = 0
  /\ at \in {"uploads", "tools"} => Authorised
  /\ parsed \in {"upload", "huge"} => Authorised /\ at \in {"tools", "answered"}
  /\ at \notin InServer => parsed = "none"
  /\ status = 413 /\ request.path = "mcp" /\ request.size = "upload" => ~deferred
  /\ effect # "nothing" =>
       /\ Authorised
       /\ request.tool \in Registered(config)
       /\ effect = Run(request.tool, request.args)

IInv == TypeOK /\ Configured /\ Screened

-----------------------------------------------------------------------------
(* What the tools can do. *)

\* The kinds of tools, and which tier each is of.
LEMMA ToolKinds ==
  ASSUME NEW t \in AllTools
  PROVE  /\ t \in ReadTools => t[1] = "read"
         /\ t \in DraftTools => t[1] \in {"write", "create-draft"}
         /\ t \in FinalizeTools => t[1] \in {"delete", "subscribe", "create-finalized"}
         /\ t \in ReadTools \cup DraftTools \cup FinalizeTools
  BY SMT DEF AllTools, ReadTools, DraftTools, FinalizeTools

\* mergeBody() never lets a finalize through.
LEMMA NoExtraFinalize ==
  ASSUME NEW a \in Args
  PROVE  ExtraKeys(a) = {}
  BY DEF ExtraKeys, ReservedBodyKeys

\* A draft tool does not bind; create-finalized binds when it is confirmed.
LEMMA CreationFacts ==
  ASSUME NEW a \in Args
  PROVE  /\ CreateDraft(a) \in {"nothing", "draft"}
         /\ CreateFinalized(a) \in {"nothing", "binding"}
         /\ CreateFinalized(a) = "binding" => a.confirm = "true"
<1>1. Post({}, ExtraKeys(a)) = "draft"
  BY NoExtraFinalize DEF Post
<1>2. Post({"finalize"}, ExtraKeys(a)) = "binding"
  BY DEF Post
<1> QED
  BY <1>1, <1>2 DEF CreateDraft, CreateFinalized

\* What a tool does at Lexware is what its tier allows.
LEMMA RunFacts ==
  ASSUME NEW t \in AllTools, NEW a \in Args
  PROVE  /\ Run(t, a) \in {"nothing", "draft", "binding", "write", "delete", "subscribe"}
         /\ Run(t, a) = "binding" => t \in FinalizeTools /\ a.confirm = "true"
         /\ Run(t, a) \in {"delete", "subscribe"} => t \in FinalizeTools
         /\ Run(t, a) # "nothing" => t \in DraftTools \cup FinalizeTools
<1>1. CASE t \in ReadTools
  BY <1>1, ToolKinds DEF Run
<1>2. CASE t \in DraftTools
  <2>1. CASE t[1] = "write"
    BY <1>2, <2>1 DEF Run
  <2>2. CASE t[1] = "create-draft"
    BY <1>2, <2>2, CreationFacts DEF Run
  <2> QED
    BY <1>2, <2>1, <2>2, ToolKinds
<1>3. CASE t \in FinalizeTools
  <2>1. CASE t[1] \in {"delete", "subscribe"}
    BY <1>3, <2>1 DEF Run
  <2>2. CASE t[1] = "create-finalized"
    BY <1>3, <2>2, CreationFacts DEF Run
  <2> QED
    BY <1>3, <2>1, <2>2, ToolKinds
<1> QED
  BY <1>1, <1>2, <1>3, ToolKinds

\* Every registered tool is a tool.
LEMMA RegisteredFacts ==
  ASSUME NEW cfg
  PROVE  Registered(cfg) \subseteq AllTools
  BY DEF Registered, AllTools

-----------------------------------------------------------------------------
(* What loadConfig() accepts. *)

\* resolveAuth() leaves a server open only when it is told to and nothing else
\* is configured.
LEMMA AuthFacts ==
  ASSUME NEW e \in AllEnvironments
  PROVE  /\ ResolveAuth(e) \in {"error", "oauth", "static", "none"}
         /\ ResolveAuth(e) = "none" =>
              e.allow = "true" /\ e.issuer = "unset" /\ e.token = "unset"
<1>1. CASE e.issuer # "unset"
  BY <1>1 DEF ResolveAuth
<1>2. CASE e.issuer = "unset" /\ e.token # "unset"
  BY <1>2 DEF ResolveAuth
<1>3. CASE e.issuer = "unset" /\ e.token = "unset"
  BY <1>3 DEF ResolveAuth
<1> QED
  BY <1>1, <1>2, <1>3

\* Which flags a tier takes.
LEMMA ConfigFacts ==
  ASSUME NEW e \in AllEnvironments
  PROVE  /\ LoadConfig(e) \in [auth : {"error", "oauth", "static", "none"},
                               drafts : BOOLEAN, finalize : BOOLEAN]
         /\ LoadConfig(e).auth = "none" => ResolveAuth(e) = "none"
         /\ LoadConfig(e).drafts => e.readOnly # "true"
         /\ LoadConfig(e).finalize =>
              e.readOnly # "true" /\ e.finalize = "true" /\ LoadConfig(e).drafts
<1>1. ReadOnly(e) \in BOOLEAN /\ (ReadOnly(e) <=> e.readOnly = "true")
  BY DEF ReadOnly, ParseBool
<1>2. EnableFinalize(e) \in BOOLEAN
      /\ (EnableFinalize(e) => ~ReadOnly(e) /\ e.finalize = "true")
  BY DEF EnableFinalize, ParseBool
<1>3. EnableDrafts(e) \in BOOLEAN
      /\ (EnableDrafts(e) => ~ReadOnly(e)) /\ (EnableFinalize(e) => EnableDrafts(e))
  BY <1>2 DEF EnableDrafts
<1> QED
  BY <1>1, <1>2, <1>3, AuthFacts DEF LoadConfig

-----------------------------------------------------------------------------
(* The layers. *)

\* Nothing has been asked of a server that is loading.
LEMMA InitIInv == Init => IInv
<1> SUFFICES ASSUME Init
             PROVE  IInv
  OBVIOUS
<1>1. config \in Configs
  BY DEF Init, NoConfig, Configs
<1>2. TypeOK
  BY <1>1 DEF Init, TypeOK
<1>3. Configured
  BY DEF Init, Configured, Listening
<1>4. Screened
  BY DEF Init, Screened, InServer, BeforeGate
<1> QED
  BY <1>2, <1>3, <1>4 DEF IInv

\* Loading either stops the process or leaves a server with a configuration.
LEMMA StartStep == IInv /\ Start => IInv'
<1> SUFFICES ASSUME TypeOK, Configured, Screened, Start
             PROVE  TypeOK' /\ Configured' /\ Screened'
  BY DEF IInv
<1>1. /\ config' \in [auth : {"error", "oauth", "static", "none"},
                      drafts : BOOLEAN, finalize : BOOLEAN]
      /\ config' = LoadConfig(env) /\ env' = env
  BY ServerAssumption, ConfigFacts DEF Start, TypeOK
<1>2. /\ at' \in {"exited", "listening"} /\ deferred' \in BOOLEAN
      /\ config'.auth = "error" => at' = "exited"
      /\ at = "loading"
  BY DEF Start, TypeOK
<1>3. request' = request /\ parsed' = parsed /\ status' = status /\ effect' = effect
  BY DEF Start, Exchange
<1>4. config' \in Configs
  BY <1>1 DEF Configs
<1>5. TypeOK'
  <2>1. env' \in Environments
    BY <1>1 DEF TypeOK
  <2>2. /\ request' = NoRequest \/ request' \in Requests
        /\ parsed' \in {"none"} \cup Sizes
        /\ status' \in {0, 200, 401, 403, 413}
        /\ effect' \in {"nothing", "draft", "binding", "write", "delete", "subscribe"}
    BY <1>3 DEF TypeOK
  <2> QED
    BY <1>2, <1>4, <2>1, <2>2 DEF TypeOK
<1>6. Configured'
  BY <1>1, <1>2 DEF Configured, Listening
<1>7. Screened'
  BY <1>2, <1>3 DEF Screened, InServer, BeforeGate
<1> QED
  BY <1>5, <1>6, <1>7

\* While the server runs, its environment and configuration stay.
LEMMA RunningStep ==
  ASSUME Configured, Listening, Listening', UNCHANGED <<env, config>>
  PROVE  Configured'
  BY DEF Configured, Listening

\* A request arrives before anything has been done for it, and goes when it is
\* answered.
LEMMA ArriveStep == IInv /\ Arrive => IInv'
<1> SUFFICES ASSUME TypeOK, Configured, Screened, Arrive
             PROVE  TypeOK' /\ Configured' /\ Screened'
  BY DEF IInv
<1>1. at = "listening" /\ at' = "parser" /\ request' \in Requests
  BY DEF Arrive
<1>2. TypeOK'
  BY DEF Arrive, TypeOK
<1>3. Configured'
  BY <1>1, RunningStep DEF Arrive, Listening
<1>4. Screened'
  BY <1>1 DEF Arrive, Screened, InServer, BeforeGate
<1> QED
  BY <1>2, <1>3, <1>4

LEMMA RespondStep == IInv /\ Respond => IInv'
<1> SUFFICES ASSUME TypeOK, Configured, Screened, Respond
             PROVE  TypeOK' /\ Configured' /\ Screened'
  BY DEF IInv
<1>1. at = "answered" /\ at' = "listening" /\ effect' = "nothing"
  BY DEF Respond
<1>2. TypeOK'
  BY DEF Respond, TypeOK
<1>3. Configured'
  BY <1>1, RunningStep DEF Respond, Listening
<1>4. Screened'
  BY <1>1 DEF Respond, Screened, InServer, BeforeGate
<1> QED
  BY <1>2, <1>3, <1>4

\* The first parser takes the default limit only, and never answers an upload
\* to /mcp once it is deferred.
LEMMA GlobalParserStep == IInv /\ GlobalParser => IInv'
<1> SUFFICES ASSUME TypeOK, Configured, Screened, GlobalParser
             PROVE  TypeOK' /\ Configured' /\ Screened'
  BY DEF IInv
<1>1. /\ at = "parser" /\ request \in Requests
      /\ parsed \notin {"upload", "huge"} /\ status = 0 /\ effect = "nothing"
      /\ UNCHANGED <<env, deferred, config, request, effect>>
  BY DEF GlobalParser, Screened, InServer, BeforeGate
<1>2. \/ at' = "route" /\ status' = status /\ parsed' = parsed
      \/ at' = "route" /\ status' = status /\ request.size = "small" /\ parsed' = "small"
      \/ /\ at' = "answered" /\ status' = 413 /\ parsed' = parsed
         /\ ~(deferred /\ request.path = "mcp")
  BY <1>1 DEF GlobalParser, Parse, Pass, Answer
<1>3. request.size \in Sizes
  BY <1>1 DEF Requests
<1>4. TypeOK'
  BY <1>1, <1>2, <1>3 DEF TypeOK
<1>5. Configured'
  BY <1>1, <1>2, RunningStep DEF Listening
<1>6. Screened'
  BY <1>1, <1>2 DEF Screened, InServer, BeforeGate
<1> QED
  BY <1>4, <1>5, <1>6

\* /status is answered in front of the gate, without any effect.
LEMMA StatusRouteStep == IInv /\ StatusRoute => IInv'
<1> SUFFICES ASSUME TypeOK, Configured, Screened, StatusRoute
             PROVE  TypeOK' /\ Configured' /\ Screened'
  BY DEF IInv
<1>1. /\ at = "route" /\ request \in Requests
      /\ parsed \notin {"upload", "huge"} /\ status = 0 /\ effect = "nothing"
      /\ UNCHANGED <<env, deferred, config, request, parsed, effect>>
  BY DEF StatusRoute, Screened, InServer, BeforeGate
<1>2. \/ at' = "answered" /\ status' = 200
      \/ at' = "gate" /\ status' = status
  BY <1>1 DEF StatusRoute, Pass, Answer
<1>3. TypeOK'
  BY <1>1, <1>2 DEF TypeOK
<1>4. Configured'
  BY <1>1, <1>2, RunningStep DEF Listening
<1>5. Screened'
  BY <1>1, <1>2 DEF Screened, InServer, BeforeGate
<1> QED
  BY <1>3, <1>4, <1>5

\* What the gate lets through is authorised.
LEMMA GateStep == IInv /\ Gate => IInv'
<1> SUFFICES ASSUME TypeOK, Configured, Screened, Gate
             PROVE  TypeOK' /\ Configured' /\ Screened'
  BY DEF IInv
<1>1. /\ at = "gate" /\ request \in Requests
      /\ parsed \notin {"upload", "huge"} /\ status = 0 /\ effect = "nothing"
      /\ UNCHANGED <<env, deferred, config, request, parsed, effect>>
  BY DEF Gate, Screened, InServer, BeforeGate
<1>2. \/ at' = "uploads" /\ status' = status /\ Authorised
      \/ at' = "answered" /\ status' \in {401, 403}
  <2>1. CASE Authorised
    BY <1>1, <2>1 DEF Gate, Pass, Authorised
  <2>2. CASE ~Authorised /\ config.auth = "oauth" /\ request.credential = "forbidden"
    BY <1>1, <2>2 DEF Gate, Answer, Authorised
  <2>3. CASE ~Authorised /\ ~(config.auth = "oauth" /\ request.credential = "forbidden")
    BY <1>1, <2>3 DEF Gate, Answer, Authorised
  <2> QED
    BY <2>1, <2>2, <2>3
<1>3. Authorised' = Authorised
  BY <1>1 DEF Authorised
<1>4. TypeOK'
  BY <1>1, <1>2 DEF TypeOK
<1>5. Configured'
  BY <1>1, <1>2, RunningStep DEF Listening
<1>6. Screened'
  BY <1>1, <1>2, <1>3 DEF Screened, InServer, BeforeGate
<1> QED
  BY <1>4, <1>5, <1>6

\* The second parser works for authorised requests, up to the upload limit.
LEMMA UploadParserStep == IInv /\ UploadParser => IInv'
<1> SUFFICES ASSUME TypeOK, Configured, Screened, UploadParser
             PROVE  TypeOK' /\ Configured' /\ Screened'
  BY DEF IInv
<1>1. /\ at = "uploads" /\ request \in Requests /\ Authorised
      /\ parsed \notin {"upload", "huge"} /\ status = 0 /\ effect = "nothing"
      /\ UNCHANGED <<env, deferred, config, request, effect>>
  BY DEF UploadParser, Screened, InServer, BeforeGate
<1>2. \/ at' = "tools" /\ status' = status /\ parsed' \in {parsed, request.size}
      \/ /\ at' = "answered" /\ status' = 413 /\ parsed' = parsed
         /\ request.size \notin {"small", "upload"}
  BY <1>1 DEF UploadParser, Parse, Pass, Answer
<1>3. request.size \in Sizes /\ Authorised'
  BY <1>1 DEF Requests, Authorised
<1>4. TypeOK'
  BY <1>1, <1>2, <1>3 DEF TypeOK
<1>5. Configured'
  BY <1>1, <1>2, RunningStep DEF Listening
<1>6. Screened'
  BY <1>1, <1>2, <1>3 DEF Screened, InServer, BeforeGate
<1> QED
  BY <1>4, <1>5, <1>6

\* A tool runs for an authorised request, if it is registered.
LEMMA CallToolStep == IInv /\ CallTool => IInv'
<1> SUFFICES ASSUME TypeOK, Configured, Screened, CallTool
             PROVE  TypeOK' /\ Configured' /\ Screened'
  BY DEF IInv
<1>1. /\ at = "tools" /\ request \in Requests /\ Authorised
      /\ at' = "answered" /\ status' = 200
      /\ UNCHANGED <<env, deferred, config, request, parsed>>
  BY DEF CallTool, Answer, Screened, InServer, BeforeGate
<1>2. request.tool \in AllTools /\ request.args \in Args
  BY <1>1 DEF Requests
<1>3. \/ effect' = "nothing"
      \/ /\ request.tool \in Registered(config)
         /\ effect' = Run(request.tool, request.args)
  BY DEF CallTool
<1>4. effect' \in {"nothing", "draft", "binding", "write", "delete", "subscribe"}
  BY <1>2, <1>3, RunFacts
<1>5. Authorised' /\ Registered(config)' = Registered(config)
      /\ Run(request.tool, request.args)' = Run(request.tool, request.args)
  BY <1>1 DEF Authorised
<1>6. TypeOK'
  BY <1>1, <1>4 DEF TypeOK
<1>7. Configured'
  BY <1>1, RunningStep DEF Listening
<1>8. Screened'
  BY <1>1, <1>3, <1>5 DEF Screened, InServer, BeforeGate
<1> QED
  BY <1>6, <1>7, <1>8

\* The inductive invariant holds in every reachable state.
LEMMA Invariance == Spec => []IInv
<1>1. IInv /\ UNCHANGED vars => IInv'
  <2> SUFFICES ASSUME TypeOK, Configured, Screened, UNCHANGED vars
               PROVE  TypeOK' /\ Configured' /\ Screened'
    BY DEF IInv
  <2>1. TypeOK'
    BY DEF vars, TypeOK
  <2>2. Configured'
    BY DEF vars, Configured, Listening
  <2>3. Screened'
    BY DEF vars, Screened, Authorised, Registered
  <2> QED
    BY <2>1, <2>2, <2>3
<1>2. IInv /\ [Next]_vars => IInv'
  BY <1>1, StartStep, ArriveStep, RespondStep, GlobalParserStep, StatusRouteStep, GateStep,
     UploadParserStep, CallToolStep
  DEF Next, Exited
<1> QED
  BY InitIInv, <1>2, PTL DEF Spec

-----------------------------------------------------------------------------
(* What operators rely on. *)

\* Every variable keeps its type; in particular no configuration but those
\* listed ever runs.
THEOREM TypeCorrect == Spec => []TypeOK
<1>1. IInv => TypeOK
  BY DEF IInv
<1> QED
  BY Invariance, <1>1, PTL

\* Nothing happens at Lexware for a request that was not authorised, and the
\* server is open only if nothing else was configured (config.ts: resolveAuth).
THEOREM FailsClosedCorrect == Spec => []FailsClosed
<1>1. IInv => FailsClosed
  <2> SUFFICES ASSUME TypeOK, Configured, Screened
               PROVE  FailsClosed
    BY DEF IInv
  <2>1. effect # "nothing" => Authorised
    BY DEF Screened
  <2>2. ASSUME Listening, config.auth = "none"
        PROVE  env.allow = "true" /\ env.issuer = "unset" /\ env.token = "unset"
    <3>1. env \in AllEnvironments
      BY ServerAssumption DEF TypeOK
    <3>2. LoadConfig(env).auth = "none"
      BY <2>2 DEF Configured, Listening
    <3> QED
      BY <3>1, <3>2, ConfigFacts, AuthFacts
  <2> QED
    BY <2>1, <2>2 DEF FailsClosed
<1> QED
  BY Invariance, <1>1, PTL

\* Large bodies are parsed behind the gate, and only there (server.ts:
\* deferMcpBodyParsing).
THEOREM UploadsBehindGateCorrect == Spec => []UploadsBehindGate
<1>1. IInv => UploadsBehindGate
  BY DEF IInv, Screened, UploadsBehindGate
<1> QED
  BY Invariance, <1>1, PTL

\* What an effect at Lexware says of the tool that had it and of its tier.
LEMMA EffectFacts ==
  ASSUME IInv, effect # "nothing"
  PROVE  /\ env \in AllEnvironments /\ config = LoadConfig(env)
         /\ request.tool \in AllTools /\ request.args \in Args
         /\ effect = Run(request.tool, request.args)
         /\ config.drafts \/ config.finalize
         /\ request.tool \in FinalizeTools => config.finalize
<1> USE DEF IInv
<1>1. at = "answered" /\ request \in Requests
  BY DEF Screened, InServer
<1>2. env \in AllEnvironments /\ config = LoadConfig(env)
  BY <1>1, ServerAssumption DEF TypeOK, Configured
<1>3. request.tool \in AllTools /\ request.args \in Args
  BY <1>1 DEF Requests
<1>4. request.tool \in Registered(config) /\ effect = Run(request.tool, request.args)
  BY DEF Screened
<1>5. request.tool \in DraftTools \cup FinalizeTools
  BY <1>3, <1>4, RunFacts
<1>6. request.tool \notin ReadTools /\ (request.tool \in FinalizeTools => request.tool \notin DraftTools)
  BY <1>3, <1>5, ToolKinds
<1>7. /\ config.drafts \/ config.finalize
      /\ request.tool \in FinalizeTools => config.finalize
  BY <1>4, <1>6 DEF Registered
<1> QED
  BY <1>2, <1>3, <1>4, <1>7

\* A binding document takes the operator's flag, no READ_ONLY and the caller's
\* confirmation.
THEOREM BindingIsDeliberateCorrect == Spec => []BindingIsDeliberate
<1>1. IInv => BindingIsDeliberate
  <2> SUFFICES ASSUME IInv, effect = "binding"
               PROVE  /\ env.finalize = "true" /\ env.readOnly # "true"
                      /\ request.args.confirm = "true"
                      /\ request.tool \in FinalizeTools
    BY DEF BindingIsDeliberate
  <2>1. request.tool \in FinalizeTools /\ request.args.confirm = "true"
    BY EffectFacts, RunFacts
  <2>2. env \in AllEnvironments /\ LoadConfig(env).finalize
    BY <2>1, EffectFacts
  <2> QED
    BY <2>1, <2>2, ConfigFacts
<1> QED
  BY Invariance, <1>1, PTL

\* READ_ONLY wins, and deleting or subscribing takes the finalize flag.
THEOREM ReadOnlyWinsCorrect == Spec => []ReadOnlyWins
<1>1. IInv => ReadOnlyWins
  <2> SUFFICES ASSUME IInv, effect # "nothing"
               PROVE  /\ env.readOnly # "true"
                      /\ effect \in {"delete", "subscribe"} => env.finalize = "true"
    BY DEF ReadOnlyWins
  <2>1. env.readOnly # "true"
    BY EffectFacts, ConfigFacts
  <2>2. effect \in {"delete", "subscribe"} => env.finalize = "true"
    BY EffectFacts, RunFacts, ConfigFacts
  <2> QED
    BY <2>1, <2>2
<1> QED
  BY Invariance, <1>1, PTL
=============================================================================
