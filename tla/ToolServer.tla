---------------------------- MODULE ToolServer -----------------------------
(***************************************************************************)
(* From the environment to an effect at Lexware: loadConfig() of           *)
(* src/config.ts, the layers src/server.ts mounts in front of /mcp, the    *)
(* tiers of src/tools/index.ts, and the tools that create documents.       *)
(*                                                                         *)
(* An environment variable is "unset" (or blank) or one of the ways it can *)
(* be set.  A request goes through the layers in the order they were       *)
(* mounted; each lets it pass or answers it.                               *)
(***************************************************************************)
EXTENDS Naturals, FiniteSets

CONSTANTS Environments,  \* the environments the server may be started in
          Sizes,         \* body sizes: "small", "upload" (12 MB at most), "huge"
          FlagArgs       \* how a caller passes a flag: "absent", "true", "false"

Flag == {"unset", "true", "false", "bad"}

\* Everything loadConfig() reads; "bad" is a value that does not parse.
AllEnvironments ==
  [apiKey    : {"unset", "good"},             \* LEXWARE_API_KEY
   issuer    : {"unset", "good", "bad"},      \* OAUTH_ISSUER
   resource  : {"unset", "good", "bad"},      \* OAUTH_RESOURCE or SERVER_URL
   oauthRest : {"good", "bad"},               \* the other OAUTH_ variables
   token     : {"unset", "weak", "strong"},   \* MCP_AUTH_TOKEN
   allow     : Flag,                          \* MCP_ALLOW_UNAUTHENTICATED
   readOnly  : Flag,                          \* LEXWARE_READ_ONLY
   finalize  : Flag,                          \* LEXWARE_ENABLE_FINALIZE
   drafts    : Flag,                          \* LEXWARE_ENABLE_DRAFTS
   rest      : {"good", "bad"}]               \* base URLs, PORT, debug logging

ASSUME ServerAssumption ==
  /\ Environments \subseteq AllEnvironments
  /\ Sizes \subseteq {"small", "upload", "huge"}
  /\ FlagArgs \subseteq {"absent", "true", "false"}

VARIABLES
  env,       \* the environment
  deferred,  \* deferMcpBodyParsing() found the parser to replace
  config,    \* what loadConfig() made of env
  request,   \* the request under way
  at,        \* the layer it has reached
  parsed,    \* the size of the body that was parsed for it, or "none"
  status,    \* the status it was answered with, or 0
  effect     \* what it did at Lexware

vars == <<env, deferred, config, request, at, parsed, status, effect>>

-----------------------------------------------------------------------------
(* src/config.ts *)

ParseBool(raw, fallback) == IF raw = "unset" THEN fallback ELSE raw = "true"

\* Faulty variants: no error at the end; a weak token is passed over.
ResolveAuthOpenEnded(e) ==
  CASE e.issuer # "unset" -> "oauth"
    [] e.issuer = "unset" /\ e.token # "unset" -> "static"
    [] OTHER -> IF e.allow = "true" THEN "none" ELSE "undefined"

ResolveAuthLenient(e) ==
  CASE e.issuer = "good" /\ e.resource = "good" /\ e.oauthRest = "good" -> "oauth"
    [] e.issuer = "unset" /\ e.token = "strong" -> "static"
    [] OTHER -> IF e.allow = "true" THEN "none" ELSE "error"

\* "error" where resolveAuth() throws.
ResolveAuth(e) ==
  CASE e.issuer # "unset" ->
         IF e.issuer = "good" /\ e.resource = "good" /\ e.oauthRest = "good"
         THEN "oauth" ELSE "error"
    [] e.issuer = "unset" /\ e.token # "unset" ->
         IF e.token = "strong" THEN "static" ELSE "error"
    [] OTHER ->
         IF e.allow = "true" THEN "none" ELSE "error"

ReadOnly(e)       == ParseBool(e.readOnly, FALSE)
EnableFinalize(e) == ~ReadOnly(e) /\ ParseBool(e.finalize, FALSE)

\* Faulty variant: READ_ONLY is overlooked.
EnableDraftsWritable(e) == ParseBool(e.drafts, TRUE) \/ EnableFinalize(e)

EnableDrafts(e)   == ~ReadOnly(e) /\ (ParseBool(e.drafts, TRUE) \/ EnableFinalize(e))

Misconfigured(e) ==
  \/ e.apiKey = "unset"
  \/ ResolveAuth(e) = "error"
  \/ e.readOnly = "bad" \/ e.drafts = "bad"
  \/ ~ReadOnly(e) /\ e.finalize = "bad"
  \/ e.rest = "bad"

LoadConfig(e) ==
  IF Misconfigured(e) THEN [auth |-> "error", drafts |-> FALSE, finalize |-> FALSE]
  ELSE [auth |-> ResolveAuth(e), drafts |-> EnableDrafts(e), finalize |-> EnableFinalize(e)]

-----------------------------------------------------------------------------
(* The tools, as <<kind, document type>>.  DOC_TYPES says which documents   *)
(* can be created and finalized; "write" stands for the tools that create   *)
(* or update anything else.                                                 *)

DocTypes    == {"invoice", "down-payment-invoice"}
Creatable   == {"invoice"}
Finalizable == {"invoice"}

ReadTools     == {"read"} \X DocTypes
DraftTools    == {<<"write", "other">>} \cup ({"create-draft"} \X Creatable)
FinalizeTools == {<<"delete", "other">>, <<"subscribe", "other">>}
                 \cup ({"create-finalized"} \X (Creatable \cap Finalizable))

AllTools == ReadTools \cup DraftTools \cup FinalizeTools

\* registerTools(): a tool of a disabled tier does not exist.
Registered(cfg) ==
  ReadTools
  \cup (IF cfg.drafts THEN DraftTools ELSE {})
  \cup (IF cfg.finalize THEN FinalizeTools ELSE {})

\* What the caller may put into a call: flags passed or not, and a "finalize"
\* among additionalFields.
Args == [finalize : FlagArgs, confirm : FlagArgs, extraFinalize : BOOLEAN]

ReservedBodyKeys == {"finalize", "confirm_finalize", "precedingSalesVoucherId", "version", "id"}

\* Faulty variant: additionalFields is merged as it is.
ExtraKeysUnfiltered(args) == IF args.extraFinalize THEN {"finalize"} ELSE {}

\* mergeBody(): which of these keys additionalFields brings into the body.
ExtraKeys(args) == (IF args.extraFinalize THEN {"finalize"} ELSE {}) \ ReservedBodyKeys

\* POST: Lexware issues the document when it is asked to, in query or body.
Post(query, body) == IF "finalize" \in query \cup body THEN "binding" ELSE "draft"

\* create-draft-*: the flags that moved to create-finalized-* make it throw.
CreateDraft(args) ==
  IF args.finalize = "true" \/ args.confirm # "absent" THEN "nothing"
  ELSE Post({}, ExtraKeys(args))

\* create-finalized-*: confirm_finalize is z.literal(true).
CreateFinalized(args) ==
  IF args.confirm # "true" THEN "nothing" ELSE Post({"finalize"}, ExtraKeys(args))

Run(tool, args) ==
  CASE tool[1] = "read" -> "nothing"
    [] tool[1] = "create-draft" -> CreateDraft(args)
    [] tool[1] = "create-finalized" -> CreateFinalized(args)
    [] OTHER -> tool[1]

-----------------------------------------------------------------------------
(* src/server.ts *)

Requests ==
  [path : {"mcp", "status"}, size : Sizes, credential : {"none", "wrong", "forbidden", "right"},
   tool : AllTools, args : Args]

NoRequest == [path |-> "none"]
NoConfig  == [auth |-> "none yet", drafts |-> FALSE, finalize |-> FALSE]

Configs ==
  [auth : {"none yet", "error", "oauth", "static", "none"}, drafts : BOOLEAN, finalize : BOOLEAN]

TypeOK ==
  /\ env \in Environments /\ deferred \in BOOLEAN
  /\ config \in Configs
  /\ request = NoRequest \/ request \in Requests
  /\ at \in {"loading", "exited", "listening", "parser", "route", "gate", "uploads", "tools",
             "answered"}
  /\ parsed \in {"none"} \cup Sizes
  /\ status \in {0, 200, 401, 403, 413}
  /\ effect \in {"nothing", "draft", "binding", "write", "delete", "subscribe"}

Init ==
  /\ env \in Environments
  /\ deferred = FALSE
  /\ config = NoConfig
  /\ request = NoRequest
  /\ at = "loading"
  /\ parsed = "none" /\ status = 0 /\ effect = "nothing"

Exchange == <<request, parsed, status, effect>>

\* Startup: exit(1) on a ConfigError, else mount the layers and listen.
Start ==
  /\ at = "loading"
  /\ config' = LoadConfig(env)
  /\ IF config'.auth = "error"
     THEN at' = "exited" /\ UNCHANGED deferred
     ELSE at' = "listening" /\ deferred' \in BOOLEAN
  /\ UNCHANGED <<env, Exchange>>

Arrive ==
  /\ at = "listening"
  /\ request' \in Requests
  /\ at' = "parser"
  /\ UNCHANGED <<env, deferred, config, parsed, status, effect>>

\* The response has been sent.
Respond ==
  /\ at = "answered"
  /\ at' = "listening"
  /\ request' = NoRequest /\ parsed' = "none" /\ status' = 0 /\ effect' = "nothing"
  /\ UNCHANGED <<env, deferred, config>>

Pass(layer) == at' = layer /\ UNCHANGED status

Answer(s) == at' = "answered" /\ status' = s

Parse(limit, layer) ==
  IF request.size \in limit
  THEN parsed' = request.size /\ Pass(layer)
  ELSE Answer(413) /\ UNCHANGED parsed

\* Faulty variant: the limit is raised in the parser that runs first.
GlobalParserRaised ==
  /\ at = "parser"
  /\ Parse({"small", "upload"}, "route")
  /\ UNCHANGED <<env, deferred, config, request, effect>>

\* The parser Skybridge mounts first, for /mcp only when it was not deferred.
GlobalParser ==
  /\ at = "parser"
  /\ IF deferred /\ request.path = "mcp"
     THEN Pass("route") /\ UNCHANGED parsed
     ELSE Parse({"small"}, "route")
  /\ UNCHANGED <<env, deferred, config, request, effect>>

StatusRoute ==
  /\ at = "route"
  /\ IF request.path = "status" THEN Answer(200) ELSE Pass("gate")
  /\ UNCHANGED <<env, deferred, config, request, parsed, effect>>

\* requireBearerAuth() with verifyAccessToken(), or bearerAuthMiddleware(), or
\* no gate; "forbidden" is a good token of somebody else's domain.
Gate ==
  /\ at = "gate"
  /\ CASE config.auth = "none" \/ request.credential = "right" -> Pass("uploads")
       [] config.auth = "oauth" /\ request.credential = "forbidden" -> Answer(403)
       [] OTHER -> Answer(401)
  /\ UNCHANGED <<env, deferred, config, request, parsed, effect>>

UploadParser ==
  /\ at = "uploads"
  /\ IF deferred THEN Parse({"small", "upload"}, "tools")
     ELSE Pass("tools") /\ UNCHANGED parsed
  /\ UNCHANGED <<env, deferred, config, request, effect>>

\* A tool that is not registered, or throws, is answered inside the 200.
CallTool ==
  /\ at = "tools"
  /\ effect' = IF request.tool \in Registered(config)
               THEN Run(request.tool, request.args) ELSE "nothing"
  /\ Answer(200)
  /\ UNCHANGED <<env, deferred, config, request, parsed>>

\* The process has exited.
Exited == at = "exited" /\ UNCHANGED vars

Next ==
  \/ Start \/ Arrive \/ Respond
  \/ GlobalParser \/ StatusRoute \/ Gate \/ UploadParser \/ CallTool
  \/ Exited

Spec == Init /\ [][Next]_vars

-----------------------------------------------------------------------------
(* Properties. *)

Authorised == config.auth = "none" \/ request.credential = "right"

Listening == at \notin {"loading", "exited"}

\* Without the right credential nothing happens at Lexware, and a server runs
\* open only if its operator said so and configured no other protection: no
\* half-configured OAuth, no weak token, no unreadable flag opens it.
FailsClosed ==
  /\ effect # "nothing" => Authorised
  /\ Listening /\ config.auth = "none" =>
       env.allow = "true" /\ env.issuer = "unset" /\ env.token = "unset"

\* A body larger than the default is parsed only for an authorised request
\* (server.ts: deferMcpBodyParsing), and an authorised upload is refused for
\* its size only on a server that warned it could not raise the limit.
UploadsBehindGate ==
  /\ parsed \in {"upload", "huge"} => Authorised
  /\ status = 413 /\ request.path = "mcp" /\ request.size = "upload" => ~deferred

\* A legally binding document is issued only on a server whose operator turned
\* finalizing on and READ_ONLY not on, by a call that confirmed it: not by a
\* draft tool, a smuggled field or a default.
BindingIsDeliberate ==
  effect = "binding" =>
    /\ env.finalize = "true" /\ env.readOnly # "true"
    /\ request.args.confirm = "true"
    /\ request.tool \in FinalizeTools

\* READ_ONLY wins over every other flag, and deletes and webhooks take the
\* finalize flag as well.
ReadOnlyWins ==
  /\ env.readOnly = "true" => effect = "nothing"
  /\ effect \in {"delete", "subscribe"} => env.finalize = "true"
=============================================================================
