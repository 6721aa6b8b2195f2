------------------------------- MODULE Server -------------------------------
(***************************************************************************)
(* The HTTP server of services/ around casper.Client: each request has a   *)
(* goroutine, whose handler is gated by the mode, asks the client at most  *)
(* once, and returns a response or an error.  The server writes out what   *)
(* the handler returned in a later step.  Handlers share the client and    *)
(* the standard errors of errors.go, which they return by reference.       *)
(***************************************************************************)
EXTENDS ClientProps

CONSTANTS
  Incoming,       \* the requests that may arrive
  EarlyHeights,   \* blocks whose timestamp is before asserter.MinUnixEpoch
  Numerals        \* strings that are 64-bit integers, and their values

\* The construction handlers that do not ask the node, as functions of their requests.
C == INSTANCE ConstructionOps

(***************************************************************************)
(* Endpoints: the four that ask the client, those never implemented, and   *)
(* those that answer by themselves.  (How a caller takes a transfer from   *)
(* one /construction endpoint to the next is in module Construction.)      *)
(***************************************************************************)
Asking == {"status", "block", "transaction", "balance"}
Unimplemented == {"coins", "mempool", "mempool/transaction", "call",
                  "construction/hash", "construction/parse", "construction/submit"}
Local == {"list", "options", "construction/derive", "construction/preprocess",
          "construction/metadata", "construction/payloads", "construction/combine"}
Gated == Asking \cup {"construction/metadata"}

Networks == {"MAINNET", "TESTNET"}

ASSUME ServerAssumption ==
  /\ \A q \in Incoming : q \in Requests \/ q.op \in Unimplemented \cup Local
  /\ NULL \notin Incoming \cup Calls \cup {"panic", "UnableToParseIntermediateResult"}
  /\ EarlyHeights \subseteq Nat

\* Every standard error of errors.go, and those its list Errors names.
Errors ==
  {"Unimplemented", "UnavailableOffline", "UnableToDecompressPubkey",
   "UnclearIntent", "UnableToParseIntermediateResult", "SignatureInvalid",
   "BroadcastFailed", "CallParametersInvalid", "CallOutputMarshal",
   "CallMethodInvalid", "BlockOrphaned", "InvalidAddress"}
StandardErrors ==
  Errors \cup {"RPCClient", "RPCClientNotReady", "RPCClientBlock", "RPCClientTransaction"}

VARIABLES
  mode,       \* config.Mode, which never changes
  network,    \* config.Network, which never changes
  question,   \* of each goroutine: the request it serves
  stage,      \* "none", "handling", "calling", "returned", "written", "aborted" or "cut"
  result,     \* what its handler returned: a value, or one of the shared errors
  details,    \* the Details of each standard error: whose context they hold
  body        \* what was written to the caller

service == <<mode, network, question, stage, result, details, body>>
svars == <<vars, service>>

ServerInit ==
  /\ Init
  /\ mode \in {"ONLINE", "OFFLINE"} /\ network \in Networks
  /\ question = [c \in Calls |-> NULL]
  /\ stage = [c \in Calls |-> "none"]
  /\ result = [c \in Calls |-> NULL]
  /\ details = [e \in StandardErrors |-> NULL]
  /\ body = [c \in Calls |-> NULL]

------------------------------------------------------------------------------
(***************************************************************************)
(* Returning.                                                              *)
(***************************************************************************)
To(c, s) == stage' = [stage EXCEPT ![c] = s]

Respond(c, value) ==
  /\ result' = [result EXCEPT ![c] = [kind |-> "response", value |-> value]]
  /\ To(c, "returned")
  /\ UNCHANGED details

\* One of the standard errors itself.
ReturnStandard(c, e) ==
  /\ result' = [result EXCEPT ![c] = [kind |-> "standard", error |-> e]]
  /\ To(c, "returned")
  /\ UNCHANGED details

\* Mutants: the details are set on the standard error itself, or the wrong way round.
wrapErr_shared(c, e, context) ==
  /\ result' = [result EXCEPT ![c] = [kind |-> "standard", error |-> e]]
  /\ details' = [details EXCEPT ![e] = context]
  /\ To(c, "returned")
wrapErr_swapped(c, e, context) ==
  /\ result' = [result EXCEPT ![c] = [kind |-> "copy", error |-> e, context |-> e]]
  /\ To(c, "returned")
  /\ UNCHANGED details

\* A copy of one, with err.Error(), which is about call `context`, in its details.
wrapErr(c, e, context) ==
  /\ result' = [result EXCEPT ![c] =
                  [kind |-> "copy", error |-> e, context |-> context]]
  /\ To(c, "returned")
  /\ UNCHANGED details

------------------------------------------------------------------------------
\* Mutant: nothing is checked.
Asserted_all(q, n) == TRUE

(***************************************************************************)
(* A request for network n arrives.  The asserter turns away one for       *)
(* another network (/network/list names none), a /block without a block    *)
(* identifier, and an identifier with neither a hash nor an index, or with *)
(* no hash and a negative index; a key of a curve that Rosetta does not    *)
(* have, operations that ConstructionOps says, an empty transaction.       *)
(***************************************************************************)
Asserted(q, n) ==
  /\ q.op # "list" => n = network
  /\ q.op = "block" => q.id # NULL
  /\ q.op \in {"block", "balance"} /\ q.id # NULL =>
       q.id.hash # NULL \/ q.id.index \in Nat
  /\ q.op = "construction/derive" => q.curve \in C!Curves
  /\ q.op \in {"construction/preprocess", "construction/payloads"} =>
       C!Asserted(q.operations)
  /\ q.op = "construction/combine" => q.unsigned # "empty"

Receive(c, q, n) ==
  /\ stage[c] = "none"
  /\ question' = [question EXCEPT ![c] = q]
  /\ IF Asserted(q, n) THEN To(c, "handling") /\ UNCHANGED <<result, details>>
                       ELSE Respond(c, [kind |-> "rejected"])
  /\ UNCHANGED <<vars, mode, network, body>>

RefuseOffline(c) ==
  /\ stage[c] = "handling"
  /\ question[c].op \in Gated /\ mode # "ONLINE"
  /\ ReturnStandard(c, "UnavailableOffline")
  /\ UNCHANGED <<vars, mode, network, question, body>>

RefuseUnimplemented(c) ==
  /\ stage[c] = "handling"
  /\ question[c].op \in Unimplemented
  /\ wrapErr(c, "Unimplemented", NULL)
  /\ UNCHANGED <<vars, mode, network, question, body>>

(***************************************************************************)
(* How a handler that does not ask the node fails: preprocess and payloads *)
(* dereference what is not there, payloads and combine parse what they are *)
(* given.  NULL if it does not.                                            *)
(***************************************************************************)
LocalFailure(q) ==
  CASE q.op = "construction/preprocess" /\ C!NilIn(q.operations) -> "panic"
    [] q.op = "construction/payloads" -> C!PayloadsFails(q.metadata)
    [] q.op = "construction/combine" /\ q.unsigned = "garbled" ->
         "UnableToParseIntermediateResult"
    [] OTHER -> NULL

ServesLocally(c) ==
  /\ stage[c] = "handling"
  /\ question[c].op \in Local
  /\ question[c].op \in Gated => mode = "ONLINE"

AnswerLocally(c) ==
  /\ ServesLocally(c) /\ LocalFailure(question[c]) = NULL
  /\ Respond(c, [kind |-> question[c].op])
  /\ UNCHANGED <<vars, mode, network, question, body>>

FailLocally(c) ==
  /\ ServesLocally(c)
  /\ LocalFailure(question[c]) = "UnableToParseIntermediateResult"
  /\ wrapErr(c, "UnableToParseIntermediateResult", c)
  /\ UNCHANGED <<vars, mode, network, question, body>>

\* net/http recovers a handler that panics and drops its connection.
AbortLocally(c) ==
  /\ ServesLocally(c) /\ LocalFailure(question[c]) = "panic"
  /\ To(c, "aborted")
  /\ UNCHANGED <<vars, mode, network, question, result, details, body>>

CallClient(c) ==
  /\ stage[c] = "handling"
  /\ question[c].op \in Asking /\ mode = "ONLINE"
  /\ To(c, "calling")
  /\ Ask(c, question[c])
  /\ UNCHANGED <<mode, network, question, result, details, body>>

------------------------------------------------------------------------------
(***************************************************************************)
(* The client has answered.  It never returns casper.ErrBlockOrphaned.     *)
(***************************************************************************)
ErrorOf(op) ==
  IF op = "block" THEN "RPCClientBlock"
  ELSE IF op = "transaction" THEN "RPCClientTransaction" ELSE "RPCClient"

Answered(c) == stage[c] = "calling" /\ answer[c] # NULL
\* The genesis block of the configuration, a constant of types.go for each network.
GenesisHash(n) == <<"genesis of", n>>

\* Mutant: the identifiers of the two networks are swapped.
Response_swapped(a) ==
  IF a.kind # "status" THEN a
  ELSE [kind |-> "status", hash |-> a.hash, height |-> a.height,
        genesis |-> GenesisHash(CHOOSE n \in Networks : n # network)]

\* What the client returned, to which /network/status adds the configured genesis.
Response(a) ==
  IF a.kind # "status" THEN a
  ELSE [kind |-> "status", hash |-> a.hash, height |-> a.height,
        genesis |-> GenesisHash(network)]

NotReady(c) == question[c].op = "status" /\ answer[c].height \in EarlyHeights

HandleError(c) ==
  /\ Answered(c) /\ answer[c].kind = "error"
  /\ wrapErr(c, ErrorOf(question[c].op), c)
  /\ UNCHANGED <<vars, mode, network, question, body>>

HandleAnswer(c) ==
  /\ Answered(c) /\ answer[c].kind \notin {"error", "panic"}
  /\ IF NotReady(c) THEN ReturnStandard(c, "RPCClientNotReady") ELSE Respond(c, Response(answer[c]))
  /\ UNCHANGED <<vars, mode, network, question, body>>

\* The client has panicked, and its handler with it.
Abort(c) ==
  /\ Answered(c) /\ answer[c].kind = "panic"
  /\ To(c, "aborted")
  /\ UNCHANGED <<vars, mode, network, question, result, details, body>>

------------------------------------------------------------------------------
(***************************************************************************)
(* The server encodes what the handler returned: a shared error as it is   *)
(* now, and for /network/options every error of the list.                  *)
(***************************************************************************)
Written(r) ==
  CASE r.kind = "standard" ->
         [kind |-> "error", error |-> r.error, context |-> details[r.error]]
    [] r.kind = "copy" ->
         [kind |-> "error", error |-> r.error, context |-> r.context]
    [] r.kind = "response" /\ r.value.kind = "options" ->
         [kind |-> "options", allow |-> [e \in Errors |-> details[e]]]
    [] OTHER -> r.value

Write(c) ==
  /\ stage[c] = "returned"
  /\ body' = [body EXCEPT ![c] = Written(result[c])]
  /\ To(c, "written")
  /\ UNCHANGED <<vars, mode, network, question, result, details>>

(***************************************************************************)
(* The write deadline of the connection has passed while the handler was   *)
(* waiting for the node, of which neither it nor the client takes notice:  *)
(* the handler runs to its end and its answer cannot be written.           *)
(***************************************************************************)
Cut(c) ==
  /\ stage[c] = "returned" /\ answer[c] # NULL
  /\ To(c, "cut")
  /\ UNCHANGED <<vars, mode, network, question, result, details, body>>

------------------------------------------------------------------------------
ClientStep(c) == Step(c) /\ UNCHANGED service

Handle(c) ==
  \/ RefuseOffline(c) \/ RefuseUnimplemented(c)
  \/ AnswerLocally(c) \/ FailLocally(c) \/ AbortLocally(c) \/ CallClient(c)
  \/ HandleError(c) \/ HandleAnswer(c) \/ Abort(c) \/ Write(c) \/ Cut(c)
  \/ ClientStep(c)

ServerNext ==
  \/ Grow /\ UNCHANGED service
  \/ \E c \in Calls : Handle(c) \/ \E q \in Incoming, n \in Networks : Receive(c, q, n)

ServerSpec == ServerInit /\ [][ServerNext]_svars

------------------------------------------------------------------------------
(***************************************************************************)
(* Type correctness of what the services add to the client, and how far    *)
(* the client is when its handler is where it is.                          *)
(***************************************************************************)
Results ==
  [kind : {"standard"}, error : StandardErrors]
    \cup [kind : {"copy"}, error : StandardErrors, context : Calls \cup {NULL}]

ServerTypeOK ==
  /\ mode \in {"ONLINE", "OFFLINE"} /\ network \in Networks
  /\ question \in [Calls -> Incoming \cup {NULL}]
  /\ stage \in [Calls -> {"none", "handling", "calling", "returned", "written", "aborted",
                      "cut"}]
  /\ DOMAIN result = Calls /\ DOMAIN body = Calls
  /\ details \in [StandardErrors -> Calls \cup {NULL}]
  /\ \A c \in Calls :
       /\ stage[c] # "none" => question[c] # NULL
       /\ stage[c] = "returned" =>
            result[c] \in Results \/ result[c].kind = "response"

(***************************************************************************)
(* errors.go:157-159, "so that we don't accidentially overrwrite the       *)
(* standard errors": whatever the handlers that run at the same time do,   *)
(* an error is written with the context of its own call or with none, and  *)
(* the errors /network/options lists are the bare ones.                    *)
(***************************************************************************)
OwnContext ==
  \A c \in Calls : body[c] # NULL =>
    /\ body[c].kind = "error" => body[c].context \in {c, NULL}
    /\ body[c].kind = "options" => \A e \in Errors : body[c].allow[e] = NULL

(***************************************************************************)
(* block_service.go:45-64, account_service.go:43-61: a block or a balance  *)
(* written to a caller who named a block is of that block: of the index he *)
(* gave, or of the hash if he gave no index (client.go:124-147, 527-540).  *)
(***************************************************************************)
NamedBlockWritten ==
  \A c \in Calls :
    body[c] # NULL /\ body[c].kind \in {"block", "balance"} /\ question[c].id # NULL =>
      LET id == question[c].id
      IN  IF id.index # NULL THEN body[c].height = id.index ELSE body[c].hash = id.hash

(***************************************************************************)
(* run.go:65-66, "The asserter automatically rejects incorrectly formatted *)
(* requests": behind it a handler panics instead of answering for three    *)
(* reasons only: an address too short to have a key prefix                 *)
(* (client.go:562), a first or second operation without an amount, and so  *)
(* perhaps without an account (construction_service.go:88-97), and a field *)
(* of the metadata that is not a string (construction_service.go:138-150). *)
(***************************************************************************)
MayPanic(q) ==
  \/ q.op = "balance" /\ q.address.form = "short"
  \/ /\ q.op = "construction/preprocess"
     /\ \E i \in DOMAIN q.operations : i <= 2 /\ q.operations[i].value = NULL
  \/ /\ q.op = "construction/payloads"
     /\ \E f \in C!Fields : ~ C!IsString(q.metadata[f])

PanicsAreKnown == \A c \in Calls : stage[c] = "aborted" => MayPanic(question[c])

(***************************************************************************)
(* errors.go:22-23, "Errors contains all errors that could be returned by  *)
(* this Rosetta implementation".                                           *)
(***************************************************************************)
WrittenErrorsAreListed ==
  \A c \in Calls : body[c] # NULL /\ body[c].kind = "error" => body[c].error \in Errors

=============================================================================
