---------------------------- MODULE ServerProofs ----------------------------
(***************************************************************************)
(* Proofs about Server: it implements the client inside it, so that what   *)
(* is proved of the client holds of what is written to the callers.        *)
(***************************************************************************)
EXTENDS Server, ClientProofs

USE DEF To, Return, Error, Goto

------------------------------------------------------------------------------
(***************************************************************************)
(* The server takes no step the client could not take.                     *)
(***************************************************************************)

\* A question the client is asked is one of its requests.
LEMMA AskedIsRequest ==
  ASSUME NEW q \in Incoming, q.op \in Asking
  PROVE  q \in Requests
BY ServerAssumption DEF Asking, Unimplemented, Local

\* Every step of the server is one of the client, or leaves it alone.
LEMMA ServerStepIsClientStep ==
  ASSUME ServerTypeOK, [ServerNext]_svars
  PROVE  [Next]_vars
<1>1. ASSUME NEW c \in Calls, CallClient(c)
      PROVE  Next
  <2>1. question[c] \in Incoming
    BY <1>1 DEF CallClient, ServerTypeOK
  <2>2. question[c] \in Requests
    BY <1>1, <2>1, AskedIsRequest DEF CallClient
  <2> QED
    BY <1>1, <2>2 DEF CallClient, Next
<1>2. ASSUME NEW c \in Calls, ClientStep(c)
      PROVE  Next
  BY <1>2 DEF ClientStep, Next
<1>3. ASSUME NEW c \in Calls,
             \/ RefuseOffline(c) \/ RefuseUnimplemented(c)
             \/ AnswerLocally(c) \/ FailLocally(c) \/ AbortLocally(c)
             \/ HandleError(c) \/ HandleAnswer(c) \/ Abort(c) \/ Write(c) \/ Cut(c)
             \/ \E q \in Incoming, n \in Networks : Receive(c, q, n)
      PROVE  UNCHANGED vars
  BY <1>3 DEF RefuseOffline, RefuseUnimplemented, AnswerLocally, FailLocally,
     AbortLocally, HandleError, HandleAnswer, Abort, Write, Cut, Receive
<1>4. CASE Grow /\ UNCHANGED service
  BY <1>4 DEF Next
<1>5. CASE UNCHANGED svars
  BY <1>5 DEF svars
<1> QED
  BY <1>1, <1>2, <1>3, <1>4, <1>5 DEF ServerNext, Handle

------------------------------------------------------------------------------
(***************************************************************************)
(* How the services and the client go together.                            *)
(***************************************************************************)

\* A value that is written as it is: the client's answer if it is a block or a balance.
FromClient(c, value) ==
  value.kind \in {"block", "balance"} =>
    pc[c] = "done" /\ answer[c] = value /\ answer[c] # NULL /\ req[c] = question[c]

LinkedAt(c) ==
  /\ stage[c] \in {"none", "handling"} => pc[c] = "idle"
  /\ stage[c] = "calling" => req[c] = question[c] /\ pc[c] # "idle" /\ mode = "ONLINE"
  /\ stage[c] \in {"returned", "written", "aborted", "cut"} => pc[c] \in {"idle", "done"}
  /\ mode = "OFFLINE" => pc[c] = "idle"
  /\ stage[c] \in {"handling", "calling"} => Asserted(question[c], network)
  /\ stage[c] = "aborted" => MayPanic(question[c])
  /\ stage[c] = "returned" =>
       \/ result[c] \in [kind : {"standard"}, error : StandardErrors]
       \/ result[c] \in [kind : {"copy"}, error : StandardErrors, context : {c, NULL}]
       \/ /\ result[c].kind = "response" /\ result[c].value.kind # "error"
          /\ FromClient(c, result[c].value)
  /\ body[c] # NULL => stage[c] = "written" /\ FromClient(c, body[c])

Bare == \A e \in StandardErrors : details[e] = NULL
Linked == \A c \in Calls : LinkedAt(c)

ServerInv == IInv /\ ServerTypeOK /\ Bare /\ Linked /\ OwnContext

\* A call that waits or has answered makes no step.
LEMMA StepIsUnderway ==
  ASSUME NEW c \in Calls, Step(c)
  PROVE  pc[c] \notin {"idle", "done"}
BY DEF Step, GetLatestBlock, GetLatestBlockTransfers, GetBlockByHash,
   GetBlockTransfersByHash, GetBlockByHeight, GetBlockTransfersByHeight,
   GetDeployToPlace, GetBlockResponse, GetProposerPurse, GetDeploy, GetSignerPurse,
   GetPeers, GetAccountPurse, TakeUref, GetAccountBalance, Reject, Rejects, RpcFails,
   RpcPending, Panic, Panics

\* A step keeps the call's request, and does not take it back to "idle".
LEMMA StepKeepsRequest ==
  ASSUME TypeOK, NEW c \in Calls, Step(c)
  PROVE  req'[c] = req[c] /\ pc'[c] # "idle"
<1>1. CASE GetProposerPurse(c)
  BY <1>1 DEF GetProposerPurse, ReturnTransactions, TypeOK
<1>2. CASE GetSignerPurse(c)
  BY <1>2 DEF GetSignerPurse, ReturnTransactions, TypeOK
<1>3. CASE \/ GetLatestBlock(c) \/ GetLatestBlockTransfers(c) \/ GetBlockByHash(c)
           \/ GetBlockTransfersByHash(c) \/ GetBlockByHeight(c)
  BY <1>3 DEF GetLatestBlock, GetLatestBlockTransfers, GetBlockByHash,
     GetBlockTransfersByHash, GetBlockByHeight, TypeOK
<1>4. CASE \/ GetBlockTransfersByHeight(c) \/ GetDeployToPlace(c)
           \/ GetBlockResponse(c) \/ GetDeploy(c) \/ GetPeers(c)
  BY <1>4 DEF GetBlockTransfersByHeight, GetDeployToPlace, GetBlockResponse,
     GetDeploy, GetPeers, TypeOK
<1>5. CASE \/ GetAccountPurse(c) \/ TakeUref(c) \/ GetAccountBalance(c)
           \/ Reject(c) \/ RpcFails(c) \/ Panic(c)
  BY <1>5 DEF GetAccountPurse, TakeUref, GetAccountBalance, Reject, RpcFails, Panic, TypeOK
<1> QED
  BY <1>1, <1>2, <1>3, <1>4, <1>5 DEF Step

\* A question asked is at once underway.
LEMMA AskStarts ==
  ASSUME TypeOK, NEW c \in Calls, NEW r \in Requests, Ask(c, r)
  PROVE  req'[c] = r /\ pc'[c] # "idle" /\ pc[c] = "idle"
BY DEF Ask, FirstStep, TypeOK

------------------------------------------------------------------------------
(***************************************************************************)
(* A handler leaves everything of the other requests alone.                *)
(***************************************************************************)
Serving(c) == Handle(c) \/ \E q \in Incoming, n \in Networks : Receive(c, q, n)

\* A step of one call leaves what a handler of another sees alone.
LEMMA OthersUndisturbed ==
  ASSUME TypeOK, ServerTypeOK, NEW c \in Calls, Serving(c)
  PROVE  /\ mode' = mode /\ network' = network /\ details' = details
         /\ \A d \in Calls \ {c} :
              /\ stage'[d] = stage[d] /\ question'[d] = question[d]
              /\ result'[d] = result[d] /\ body'[d] = body[d]
              /\ pc'[d] = pc[d] /\ answer'[d] = answer[d] /\ req'[d] = req[d]
<1>1. CASE CallClient(c)
  <2>1. question[c] \in Requests
    BY <1>1, AskedIsRequest DEF CallClient, ServerTypeOK
  <2>2. Acts(c)
    BY <1>1, <2>1 DEF CallClient, Acts
  <2> QED
    BY <1>1, <2>2, OnlyItsOwn DEF CallClient, ServerTypeOK
<1>2. CASE ClientStep(c)
  BY <1>2, OnlyItsOwn DEF ClientStep, service, Acts
<1>3. CASE \/ RefuseOffline(c) \/ RefuseUnimplemented(c)
           \/ AnswerLocally(c) \/ FailLocally(c) \/ AbortLocally(c)
  BY <1>3 DEF RefuseOffline, RefuseUnimplemented, AnswerLocally, FailLocally, AbortLocally,
     Respond, ReturnStandard, wrapErr, ServerTypeOK, vars, local
<1>4. CASE HandleError(c) \/ HandleAnswer(c) \/ Abort(c) \/ Write(c) \/ Cut(c)
  BY <1>4 DEF HandleError, HandleAnswer, Abort, Write, Cut, Respond, ReturnStandard,
     wrapErr, ServerTypeOK, vars, local
<1>5. CASE \E q \in Incoming, n \in Networks : Receive(c, q, n)
  BY <1>5 DEF Receive, Respond, ServerTypeOK, vars, local
<1> QED
  BY <1>1, <1>2, <1>3, <1>4, <1>5 DEF Serving, Handle

------------------------------------------------------------------------------
(***************************************************************************)
(* Type correctness.                                                       *)
(***************************************************************************)
LEMMA ServerTypeInit == ServerInit => ServerTypeOK
BY DEF ServerInit, ServerTypeOK

\* What the server adds to the client stays typed.
LEMMA ServerTypeStep ==
  ASSUME TypeOK, ServerTypeOK, [ServerNext]_svars
  PROVE  ServerTypeOK'
<1> USE DEF ServerTypeOK
<1>1. ASSUME NEW c \in Calls, NEW q \in Incoming, NEW n \in Networks, Receive(c, q, n)
      PROVE  ServerTypeOK'
  BY <1>1, ServerAssumption DEF Receive, Respond
<1>2. ASSUME NEW c \in Calls, RefuseOffline(c)
      PROVE  ServerTypeOK'
  BY <1>2 DEF RefuseOffline, ReturnStandard, Results, StandardErrors, Errors
<1>3. ASSUME NEW c \in Calls, RefuseUnimplemented(c)
      PROVE  ServerTypeOK'
  BY <1>3 DEF RefuseUnimplemented, wrapErr, Results, StandardErrors, Errors
<1>4. ASSUME NEW c \in Calls, AnswerLocally(c)
      PROVE  ServerTypeOK'
  BY <1>4 DEF AnswerLocally, ServesLocally, Respond
<1>10. ASSUME NEW c \in Calls, FailLocally(c)
       PROVE  ServerTypeOK'
  BY <1>10 DEF FailLocally, ServesLocally, wrapErr, Results, StandardErrors, Errors
<1>11. ASSUME NEW c \in Calls, AbortLocally(c)
       PROVE  ServerTypeOK'
  BY <1>11 DEF AbortLocally, ServesLocally
<1>5. ASSUME NEW c \in Calls, CallClient(c)
      PROVE  ServerTypeOK'
  BY <1>5 DEF CallClient
<1>6. ASSUME NEW c \in Calls, HandleError(c)
      PROVE  ServerTypeOK'
  BY <1>6 DEF HandleError, wrapErr, Answered, ErrorOf, Results, StandardErrors
<1>7. ASSUME NEW c \in Calls, HandleAnswer(c)
      PROVE  ServerTypeOK'
  BY <1>7 DEF HandleAnswer, Respond, ReturnStandard, Answered, Results, StandardErrors
<1>8. ASSUME NEW c \in Calls, Abort(c) \/ Write(c) \/ Cut(c) \/ ClientStep(c)
      PROVE  ServerTypeOK'
  BY <1>8 DEF Abort, Answered, Write, Cut, ClientStep, service
<1>9. CASE (Grow /\ UNCHANGED service) \/ UNCHANGED svars
  BY <1>9 DEF svars, service
<1> QED
  BY <1>1, <1>2, <1>3, <1>4, <1>5, <1>6, <1>7, <1>8, <1>9, <1>10, <1>11
     DEF ServerNext, Handle

------------------------------------------------------------------------------
(***************************************************************************)
(* The link between a handler and its call.                                *)
(***************************************************************************)

\* Behind the asserter a handler that does not ask the node panics for want of an
\* amount or of a string: an operation with an amount has its account.
LEMMA LocalPanics ==
  ASSUME NEW q, NEW n, Asserted(q, n), LocalFailure(q) = "panic"
  PROVE  MayPanic(q)
<1>1. CASE q.op = "construction/preprocess" /\ C!NilIn(q.operations)
  <2>1. PICK i \in DOMAIN q.operations :
          \/ q.operations[i].index \in {0, 1} /\ q.operations[i].account = NULL
          \/ q.operations[i].index = 1 /\ q.operations[i].value = NULL
    BY <1>1 DEF C!NilIn
  <2>2. /\ q.operations[i].index = i - 1
        /\ q.operations[i].value # NULL => q.operations[i].account # NULL
    BY <1>1 DEF Asserted, C!Asserted
  <2> QED
    BY <1>1, <2>1, <2>2 DEF MayPanic
<1>2. CASE q.op = "construction/payloads" /\ C!PayloadsFails(q.metadata) = "panic"
  BY <1>2, ServerAssumption DEF MayPanic, C!PayloadsFails, C!Fields
<1> QED
  BY <1>1, <1>2, ServerAssumption DEF LocalFailure

\* The stages and the steps of the call go together.
LEMMA LinkedOwn ==
  ASSUME TypeOK, ControlInv, NamedInv, ServerTypeOK, NEW c \in Calls, Serving(c), LinkedAt(c)
  PROVE  LinkedAt(c)'
<1>1. ASSUME NEW q \in Incoming, NEW n \in Networks, Receive(c, q, n)
      PROVE  LinkedAt(c)'
  <2>1. UNCHANGED <<pc, answer, req, mode, network, body>> /\ stage[c] = "none"
    BY <1>1 DEF Receive, vars, local
  <2>2. pc[c] = "idle" /\ body[c] = NULL
    BY <2>1 DEF LinkedAt
  <2>3. \/ stage'[c] = "handling" /\ Asserted(question'[c], network)
        \/ stage'[c] = "returned"
             /\ result'[c] = [kind |-> "response", value |-> [kind |-> "rejected"]]
    BY <1>1, <2>2 DEF Receive, Respond, Asserted, ServerTypeOK
  <2>4. CASE stage'[c] = "handling" /\ Asserted(question'[c], network)
    BY <2>1, <2>2, <2>4 DEF LinkedAt, Asserted
  <2>5. CASE stage'[c] = "returned"
               /\ result'[c] = [kind |-> "response", value |-> [kind |-> "rejected"]]
    <3>1. FromClient(c, result[c].value)'
      BY <2>5 DEF FromClient
    <3> QED
      BY <2>1, <2>2, <2>5, <3>1 DEF LinkedAt
  <2> QED
    BY <2>3, <2>4, <2>5
<1>2. CASE RefuseOffline(c)
  BY <1>2 DEF RefuseOffline, ReturnStandard, LinkedAt, FromClient, ServerTypeOK,
     StandardErrors, Errors, vars, local
<1>3. CASE RefuseUnimplemented(c)
  BY <1>3 DEF RefuseUnimplemented, wrapErr, LinkedAt, FromClient, ServerTypeOK,
     StandardErrors, Errors, vars, local
<1>4. CASE AnswerLocally(c)
  BY <1>4 DEF AnswerLocally, ServesLocally, Respond, Local, LinkedAt, FromClient,
     ServerTypeOK, vars, local
<1>5. CASE CallClient(c)
  <2>1. question[c] \in Requests
    BY <1>5, AskedIsRequest DEF CallClient, ServerTypeOK
  <2>2. req'[c] = question[c] /\ pc'[c] # "idle" /\ stage'[c] = "calling"
    BY <1>5, <2>1, AskStarts DEF CallClient, ServerTypeOK
  <2> QED
    BY <1>5, <2>2 DEF CallClient, LinkedAt, FromClient, Asserted, ServerTypeOK
<1>6. CASE HandleError(c)
  BY <1>6 DEF HandleError, Answered, wrapErr, ErrorOf, LinkedAt, FromClient,
     ServerTypeOK, StandardErrors, vars, local, ControlInv, ControlAt
<1>7. CASE HandleAnswer(c)
  <2>1. answer[c].kind \notin {"error", "panic"} /\ pc[c] = "done"
        /\ req[c] = question[c] /\ stage'[c] = "returned"
    BY <1>7 DEF HandleAnswer, Answered, Respond, ReturnStandard, LinkedAt, ServerTypeOK,
       ControlInv, ControlAt
  <2>2. UNCHANGED <<pc, answer, req, question, body, mode>>
    BY <1>7 DEF HandleAnswer, vars, local
  <2>3. body[c] = NULL
    BY <1>7 DEF HandleAnswer, Answered, LinkedAt
  <2>4. CASE NotReady(c)
    BY <1>7, <2>1, <2>2, <2>3, <2>4 DEF HandleAnswer, ReturnStandard, LinkedAt,
       FromClient, ServerTypeOK, StandardErrors
  <2>5. CASE ~ NotReady(c)
    <3>1. result'[c] = [kind |-> "response", value |-> Response(answer[c])]
      BY <1>7, <2>5 DEF HandleAnswer, Respond, ServerTypeOK
    <3>2. answer[c] # NULL
      BY <1>7 DEF HandleAnswer, Answered
    <3>3. Response(answer[c]).kind = answer[c].kind
      BY DEF Response
    <3>4. answer[c].kind \in {"block", "balance"} => Response(answer[c]) = answer[c]
      BY DEF Response
    <3>5. FromClient(c, result[c].value)'
      BY <2>1, <2>2, <3>1, <3>2, <3>3, <3>4 DEF FromClient
    <3> QED
      BY <2>1, <2>2, <2>3, <3>1, <3>3, <3>5 DEF LinkedAt
  <2> QED
    BY <2>4, <2>5
<1>8. CASE Abort(c)
  <2>1. answer[c] # NULL /\ answer[c].kind = "panic" /\ stage[c] = "calling"
    BY <1>8 DEF Abort, Answered
  <2>2. Panicked(question[c]) /\ Asserted(question[c], network)
    BY <2>1 DEF NamedInv, NamedAt, LinkedAt
  <2>3. question[c].op = "balance" /\ question[c].address.form = "short"
    BY <2>2, NodeAssumption DEF Panicked, Neither, Asserted
  <2>4. MayPanic(question[c])'
    BY <1>8, <2>3 DEF Abort, MayPanic
  <2>5. pc[c] = "done" /\ mode = "ONLINE" /\ body[c] = NULL
    BY <2>1 DEF LinkedAt, ControlInv, ControlAt
  <2> QED
    BY <1>8, <2>4, <2>5 DEF Abort, LinkedAt, ServerTypeOK, vars, local
<1>9. CASE Write(c)
  <2>1. stage'[c] = "written" /\ body'[c] = Written(result[c])
        /\ UNCHANGED <<pc, answer, req, question, mode, result>>
    BY <1>9 DEF Write, ServerTypeOK, vars, local
  <2>2. FromClient(c, Written(result[c]))
    BY <1>9 DEF Write, LinkedAt, Written, FromClient
  <2> QED
    BY <1>9, <2>1, <2>2 DEF Write, LinkedAt, FromClient
<1>10. CASE ClientStep(c)
  <2>1. pc[c] \notin {"idle", "done"} /\ req'[c] = req[c] /\ pc'[c] # "idle"
    BY <1>10, StepIsUnderway, StepKeepsRequest DEF ClientStep
  <2>2. stage[c] = "calling" /\ body[c] = NULL
    BY <1>10, <2>1 DEF LinkedAt, ServerTypeOK
  <2> QED
    BY <1>10, <2>1, <2>2 DEF ClientStep, service, LinkedAt, Asserted
<1>11. CASE Cut(c)
  BY <1>11 DEF Cut, LinkedAt, FromClient, ServerTypeOK, vars, local
<1>12. CASE FailLocally(c)
  BY <1>12 DEF FailLocally, ServesLocally, wrapErr, LinkedAt, FromClient, ServerTypeOK,
     StandardErrors, Errors, vars, local
<1>13. CASE AbortLocally(c)
  <2>1. Asserted(question[c], network) /\ pc[c] = "idle" /\ body[c] = NULL
    BY <1>13 DEF AbortLocally, ServesLocally, LinkedAt
  <2>2. MayPanic(question[c])
    BY <1>13, <2>1, LocalPanics DEF AbortLocally
  <2>3. MayPanic(question[c])'
    BY <1>13, <2>2 DEF AbortLocally
  <2> QED
    BY <1>13, <2>1, <2>3 DEF AbortLocally, LinkedAt, ServerTypeOK, vars, local
<1> QED
  BY <1>1, <1>2, <1>3, <1>4, <1>5, <1>6, <1>7, <1>8, <1>9, <1>10, <1>11, <1>12, <1>13
     DEF Serving, Handle

\* Every handler stays with its call, and every standard error bare.
LEMMA LinkedStep ==
  ASSUME TypeOK, ControlInv, NamedInv, ServerTypeOK, Linked, Bare, [ServerNext]_svars
  PROVE  Linked' /\ Bare'
<1>1. ASSUME NEW c \in Calls, Serving(c)
      PROVE  Linked' /\ Bare'
  <2>1. LinkedAt(c)'
    BY <1>1, LinkedOwn DEF Linked
  <2>2. ASSUME NEW d \in Calls \ {c}
        PROVE  LinkedAt(d)'
    BY <1>1, <2>2, OthersUndisturbed
       DEF Linked, LinkedAt, FromClient, Asserted
  <2> QED
    BY <1>1, <2>1, <2>2, OthersUndisturbed DEF Linked, Bare
<1>2. CASE (Grow /\ UNCHANGED service) \/ UNCHANGED svars
  BY <1>2 DEF Grow, svars, vars, local, service, Linked, LinkedAt, FromClient,
     Asserted, Bare
<1> QED
  BY <1>1, <1>2 DEF ServerNext, Serving

\* An error is written with the context of its own call.
LEMMA OwnContextStep ==
  ASSUME TypeOK, ServerTypeOK, Linked, Bare, OwnContext, [ServerNext]_svars
  PROVE  OwnContext'
<1> DEFINE Own(c) == body[c] # NULL =>
      /\ body[c].kind = "error" => body[c].context \in {c, NULL}
      /\ body[c].kind = "options" => \A e \in Errors : body[c].allow[e] = NULL
<1>1. ASSUME NEW c \in Calls, Write(c)
      PROVE  Own(c)'
  <2>1. body'[c] = Written(result[c]) /\ stage[c] = "returned"
    BY <1>1 DEF Write, ServerTypeOK
  <2>2. CASE result[c] \in [kind : {"standard"}, error : StandardErrors]
    BY <2>1, <2>2 DEF Bare, Written
  <2>3. CASE result[c] \in [kind : {"copy"}, error : StandardErrors, context : {c, NULL}]
    BY <2>1, <2>3 DEF Written
  <2>4. CASE result[c].kind = "response" /\ result[c].value.kind # "error"
    <3>1. CASE result[c].value.kind = "options"
      BY <2>1, <2>4, <3>1 DEF Bare, Written, StandardErrors
    <3>2. CASE result[c].value.kind # "options"
      BY <2>1, <2>4, <3>2 DEF Written
    <3> QED
      BY <3>1, <3>2
  <2> QED
    BY <2>1, <2>2, <2>3, <2>4 DEF Linked, LinkedAt
<1>2. ASSUME NEW c \in Calls, Serving(c), ~ Write(c)
      PROVE  Own(c)'
  <2>1. body' = body
    BY <1>2 DEF Serving, Receive, Handle, RefuseOffline, RefuseUnimplemented,
       AnswerLocally, FailLocally, AbortLocally, CallClient, HandleError, HandleAnswer,
       Abort, Cut, ClientStep, service
  <2> QED
    BY <2>1 DEF OwnContext
<1>3. ASSUME NEW c \in Calls, Serving(c)
      PROVE  OwnContext'
  <2>1. ASSUME NEW d \in Calls \ {c}
        PROVE  Own(d)'
    BY <1>3, <2>1, OthersUndisturbed DEF OwnContext
  <2> QED
    BY <1>1, <1>2, <1>3, <2>1 DEF OwnContext
<1>4. CASE (Grow /\ UNCHANGED service) \/ UNCHANGED svars
  BY <1>4 DEF svars, service, OwnContext
<1> QED
  BY <1>3, <1>4 DEF ServerNext, Serving

------------------------------------------------------------------------------
(***************************************************************************)
(* The theorems.                                                           *)
(***************************************************************************)
LEMMA ServerInvInit == ServerInit => ServerInv
<1>1. ServerInit => IInv
  BY TypeInit, ControlInit, SnapshotInit, NamedInit
     DEF ServerInit, Init, IInv, BalanceAtReportedBlock, TrueBalance, Succeeded
<1>2. ServerInit => Bare /\ Linked /\ OwnContext
  BY DEF ServerInit, Init, Bare, Linked, LinkedAt, OwnContext
<1> QED
  BY <1>1, <1>2, ServerTypeInit DEF ServerInv

LEMMA ServerInvStep == ServerInv /\ [ServerNext]_svars => ServerInv'
<1> SUFFICES ASSUME ServerInv, [ServerNext]_svars PROVE ServerInv'
  OBVIOUS
<1>1. IInv'
  BY ServerStepIsClientStep, TypeStep, ControlStep, SnapshotStep, BalanceStep, NamedStep
     DEF ServerInv, IInv
<1> QED
  BY <1>1, ServerTypeStep, LinkedStep, OwnContextStep DEF ServerInv, IInv

LEMMA ServerInvariance == ServerSpec => []ServerInv
BY ServerInvInit, ServerInvStep, PTL DEF ServerSpec

(***************************************************************************)
(* However many handlers fail at once, none writes another's context, and  *)
(* the standard errors are never overwritten (errors.go:157-173).          *)
(***************************************************************************)
THEOREM ErrorsStayApart == ServerSpec => []OwnContext
BY ServerInvariance, PTL DEF ServerInv

(***************************************************************************)
(* A block or a balance written to a caller who named a block is of that   *)
(* block (block_service.go:45-64, account_service.go:43-61): of the index  *)
(* he gave, or else of the hash, whatever the chain did meanwhile.         *)
(***************************************************************************)
THEOREM WrittenBlockIsTheNamed == ServerSpec => []NamedBlockWritten
<1>1. ServerInv => NamedBlockWritten
  <2> SUFFICES ASSUME ServerInv, NEW c \in Calls, body[c] # NULL,
                      body[c].kind \in {"block", "balance"}, question[c].id # NULL
               PROVE  IsNamed(question[c].id, body[c])
    BY DEF NamedBlockWritten, IsNamed
  <2>1. answer[c] = body[c] /\ answer[c] # NULL /\ req[c] = question[c]
    BY DEF ServerInv, Linked, LinkedAt, FromClient
  <2>2. NamedAt(c)
    BY DEF ServerInv, IInv, NamedInv
  <2> QED
    BY <2>1, <2>2 DEF NamedAt
<1> QED
  BY <1>1, ServerInvariance, PTL

(***************************************************************************)
(* Behind the asserter a handler panics for an address that is too short,  *)
(* an operation without an amount or a field that is no string, and for    *)
(* nothing else (run.go:65-66): the zero block, whose proposer cannot be   *)
(* sliced, is never reached, nor an operation with an amount that has no   *)
(* account (client.go:562, construction_service.go:88-150).                *)
(***************************************************************************)
THEOREM PanicsAreExplained == ServerSpec => []PanicsAreKnown
<1>1. ServerInv => PanicsAreKnown
  BY DEF ServerInv, Linked, LinkedAt, PanicsAreKnown
<1> QED
  BY <1>1, ServerInvariance, PTL

(***************************************************************************)
(* Type correctness of what services/ adds to the client.                  *)
(***************************************************************************)
THEOREM ServerTypeCorrect == ServerSpec => []ServerTypeOK
BY ServerInvariance, PTL DEF ServerInv
=============================================================================
