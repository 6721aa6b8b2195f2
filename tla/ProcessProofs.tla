--------------------------- MODULE ProcessProofs ---------------------------
(***************************************************************************)
(* The process with the handlers in it is the process of Lifecycle, for    *)
(* any requests, any number of calls and chains of any length; and what it *)
(* writes, or does not write, is what its environment lets it.             *)
(*                                                                         *)
(* The refinement mapping reads a request's fate off its handler's stage;  *)
(* the one fact it needs is that a handler that does a step was accepted   *)
(* and is not over, and moves its own stage only.                          *)
(***************************************************************************)
EXTENDS Process, ServerProofs

Stages == {"none", "handling", "calling", "returned"} \cup Ended
Staged == stage \in [Calls -> Stages]

\* A handler's step moves its own stage, from one that is not over, or none.
LEMMA HandlerMoves ==
  ASSUME NEW c \in Calls, Handle(c)
  PROVE  \/ UNCHANGED stage
         \/ /\ stage[c] \in {"handling", "calling", "returned"}
            /\ \E s \in Ended \cup {"calling", "returned"} : stage' = [stage EXCEPT ![c] = s]
<1>1. CASE \/ RefuseOffline(c) \/ RefuseUnimplemented(c)
           \/ AnswerLocally(c) \/ FailLocally(c) \/ AbortLocally(c)
  BY <1>1 DEF RefuseOffline, RefuseUnimplemented, AnswerLocally, FailLocally, AbortLocally,
     ServesLocally, ReturnStandard, wrapErr, Respond, To, Ended
<1>2. CASE CallClient(c)
  BY <1>2 DEF CallClient, To
<1>3. CASE HandleError(c) \/ HandleAnswer(c)
  BY <1>3 DEF HandleError, HandleAnswer, Answered, ReturnStandard, wrapErr, Respond, To
<1>4. CASE Abort(c) \/ Write(c) \/ Cut(c)
  BY <1>4 DEF Abort, Write, Cut, Answered, To, Ended
<1>5. CASE ClientStep(c)
  BY <1>5 DEF ClientStep, service
<1> QED
  BY <1>1, <1>2, <1>3, <1>4, <1>5 DEF Handle

\* A request that arrives was not there, and is handled or already answered.
LEMMA ArrivalMoves ==
  ASSUME NEW c \in Calls, NEW q, NEW n, Receive(c, q, n)
  PROVE  \E s \in {"handling", "returned"} : stage' = [stage EXCEPT ![c] = s]
BY DEF Receive, Respond, To

LEMMA StagedInit == ProcessInit => Staged
BY DEF ProcessInit, ServerInit, Staged, Stages

LEMMA StagedNext == Staged /\ [ProcessNext]_pvars => Staged'
<1> SUFFICES ASSUME Staged, [ProcessNext]_pvars PROVE Staged'
  OBVIOUS
<1>1. CASE UNCHANGED stage
  BY <1>1 DEF Staged
<1>2. ASSUME NEW c \in Calls, Arrive(c) \/ Work(c) PROVE Staged'
  <2>1. CASE Arrive(c)
    BY <2>1, ArrivalMoves DEF Arrive, Staged, Stages
  <2>2. CASE Work(c)
    BY <2>2, HandlerMoves DEF Work, Staged, Stages
  <2> QED
    BY <1>2, <2>1, <2>2
<1> QED
  BY <1>1, <1>2 DEF ProcessNext, Run, Signal, pvars, svars, service

\* No handler moves the process's goroutines, and requests begin and end as
\* Lifecycle says.
LEMMA StepOfLifecycle == Staged /\ [ProcessNext]_pvars => [L!Next]_(L!vars)
<1> SUFFICES ASSUME Staged, [ProcessNext]_pvars PROVE [L!Next]_(L!vars)
  OBVIOUS
<1> DEFINE H == [c \in Calls |-> Handling(c)]
<1>1. CASE Run \/ Signal
  BY <1>1 DEF Run, Signal, L!Next
<1>2. CASE UNCHANGED <<service, process>>
  <2>1. UNCHANGED <<stage, exit>>
    BY <1>2 DEF service, process
  <2>2. H' = H
    BY <2>1 DEF Handling
  <2> QED
    BY <1>2, <2>2 DEF process, L!vars
<1>3. ASSUME NEW c \in Calls, Arrive(c) PROVE [L!Next]_(L!vars)
  BY <1>3 DEF Arrive, L!Next
<1>4. ASSUME NEW c \in Calls, Work(c) PROVE [L!Next]_(L!vars)
  <2>1. UNCHANGED process /\ exit = "nil" /\ exit' = exit
    BY <1>4 DEF Work, L!Running, process
  <2>2. CASE UNCHANGED stage
    <3>1. H' = H
      BY <2>1, <2>2 DEF Handling
    <3> QED
      BY <2>1, <3>1 DEF process, L!vars
  <2>3. ASSUME NEW s \in Ended \cup {"calling", "returned"},
               stage[c] \in {"handling", "calling", "returned"},
               stage' = [stage EXCEPT ![c] = s]
        PROVE  [L!Next]_(L!vars)
    <3>1. \A d \in Calls : d # c => stage'[d] = stage[d]
      BY <2>3 DEF Staged
    <3>2. stage'[c] = s
      BY <2>3 DEF Staged
    <3>3. H[c] = "active"
      BY <2>1, <2>3 DEF Handling, Ended
    <3>4. CASE s \in Ended
      <4>1. Handling(c)' = "served" /\ \A d \in Calls : d # c => Handling(d)' = Handling(d)
        BY <2>1, <3>1, <3>2, <3>4 DEF Handling, Ended
      <4>2. H' = [H EXCEPT ![c] = "served"]
        BY <4>1
      <4>3. L!Respond(c)
        BY <2>1, <3>3, <4>2 DEF L!Respond, L!Running, process
      <4> QED
        BY <4>3 DEF L!Next
    <3>5. CASE s \notin Ended
      <4>1. \A d \in Calls : Handling(d)' = Handling(d)
        BY <2>1, <2>3, <3>1, <3>2, <3>5 DEF Handling, Ended
      <4>2. H' = H
        BY <4>1
      <4> QED
        BY <2>1, <4>2 DEF process, L!vars
    <3> QED
      BY <3>4, <3>5
  <2> QED
    BY <1>4, <2>2, <2>3, HandlerMoves DEF Work
<1>5. CASE UNCHANGED pvars
  BY <1>2, <1>5 DEF pvars, svars
<1> QED
  BY <1>1, <1>2, <1>3, <1>4, <1>5 DEF ProcessNext

------------------------------------------------------------------------------
(***************************************************************************)
(* What is written comes from a server that the environment allows.        *)
(*                                                                         *)
(* The process knows of a request only once its server listens, for which  *)
(* the configuration had to be complete and the port a port; a handler     *)
(* knows only its mode and its network, which are the configuration's.     *)
(***************************************************************************)
Valid == L!Complaint(env) = "nil"

Admitted ==
  /\ Configured
  /\ main = "start" \/ serving # "none" => Valid
  /\ serving \in {"listening", "returned"} => env.PORT # "70000"
  /\ \A c \in Calls : stage[c] # "none" => Valid /\ env.PORT # "70000"

\* A value that a server of this mode and network may write.
Allowed(value) ==
  /\ value.kind \in FromTheNode => mode = "ONLINE"
  /\ value.kind = "status" => value.genesis = GenesisHash(network)

SourcedAt(c) ==
  /\ stage[c] = "calling" => mode = "ONLINE"
  /\ stage[c] = "returned" =>
       \/ result[c].kind \in {"standard", "copy"}
       \/ result[c].kind = "response" /\ Allowed(result[c].value)
  /\ body[c] # NULL => stage[c] = "written" /\ Allowed(body[c])

Sourced ==
  /\ DOMAIN result = Calls /\ DOMAIN body = Calls
  /\ \A c \in Calls : SourcedAt(c)

LEMMA AdmittedInit == ProcessInit => Admitted
BY DEF ProcessInit, ServerInit, L!Init, Admitted

\* A step of the process's own starts no server without a configuration.
LEMMA AdmittedRun ==
  ASSUME Admitted, UNCHANGED svars, L!Progress \/ L!SendSignal \/ L!AcceptFails
  PROVE  Admitted'
<1>1. env' = env /\ UNCHANGED <<stage, mode, network>>
  BY DEF svars, service, L!Progress, L!LoadConfiguration, L!StartServices, L!WaitReturns,
     L!Notify, L!ReceiveSignal, L!MarkSignal, L!CancelContext, L!Listen, L!ListenFails,
     L!ServeReturns, L!CloseListener, L!ShutdownReturns, L!SendSignal, L!AcceptFails
<1>2. main' = "start" \/ serving' # "none" => Valid
  BY DEF Admitted, Valid, L!Progress, L!LoadConfiguration, L!StartServices, L!WaitReturns,
     L!Notify, L!ReceiveSignal, L!MarkSignal, L!CancelContext, L!Listen, L!ListenFails,
     L!ServeReturns, L!CloseListener, L!ShutdownReturns, L!SendSignal, L!AcceptFails, L!Exit
<1>3. serving' \in {"listening", "returned"} => env.PORT # "70000"
  BY DEF Admitted, L!Progress, L!LoadConfiguration, L!StartServices, L!WaitReturns,
     L!Notify, L!ReceiveSignal, L!MarkSignal, L!CancelContext, L!Listen, L!ListenFails,
     L!ServeReturns, L!CloseListener, L!ShutdownReturns, L!SendSignal, L!AcceptFails
<1> QED
  BY <1>1, <1>2, <1>3 DEF Admitted, Configured, Valid, L!Complaint

\* Only a server that listens is given requests.
LEMMA AdmittedStep == Staged /\ Admitted /\ [ProcessNext]_pvars => Admitted'
<1> SUFFICES ASSUME Staged, Admitted, [ProcessNext]_pvars PROVE Admitted'
  OBVIOUS
<1>1. CASE Run \/ Signal
  BY <1>1, AdmittedRun DEF Run, Signal
<1>2. CASE UNCHANGED <<service, process>>
  BY <1>2 DEF service, process, Admitted, Configured, Valid, L!Complaint
<1>3. ASSUME NEW c \in Calls, Arrive(c)
      PROVE  Admitted'
  <2>1. PICK q \in Incoming, n \in Networks : Receive(c, q, n) /\ L!Accept(c)
    BY <1>3 DEF Arrive
  <2>2. UNCHANGED <<env, main, serving, mode, network>> /\ serving \in {"listening", "returned"}
    BY <2>1 DEF Receive, L!Accept
  <2>3. \A d \in Calls \ {c} : stage'[d] = stage[d]
    BY <2>1, ArrivalMoves DEF Staged
  <2> QED
    BY <2>2, <2>3 DEF Admitted, Configured, Valid, L!Complaint
<1>4. ASSUME NEW c \in Calls, Work(c)
      PROVE  Admitted'
  <2>1. UNCHANGED process /\ UNCHANGED <<mode, network>>
    BY <1>4 DEF Work, Handle, RefuseOffline, RefuseUnimplemented, AnswerLocally, FailLocally,
       AbortLocally, CallClient, HandleError, HandleAnswer, Abort, Write, Cut, ClientStep, service
  <2>2. \A d \in Calls : stage'[d] # "none" => stage[d] # "none"
    BY <1>4, HandlerMoves DEF Work, Staged
  <2> QED
    BY <2>1, <2>2 DEF process, Admitted, Configured, Valid, L!Complaint
<1>5. CASE UNCHANGED pvars
  BY <1>2, <1>5 DEF pvars, svars
<1> QED
  BY <1>1, <1>2, <1>3, <1>4, <1>5 DEF ProcessNext

\* A handler leaves the result and the body of every other alone.
LEMMA OthersKeep ==
  ASSUME Staged, Sourced, NEW c \in Calls, Arrive(c) \/ Work(c)
  PROVE  /\ DOMAIN result' = Calls /\ DOMAIN body' = Calls
         /\ mode' = mode /\ network' = network
         /\ \A d \in Calls \ {c} :
              stage'[d] = stage[d] /\ result'[d] = result[d] /\ body'[d] = body[d]
<1>1. CASE Arrive(c)
  BY <1>1 DEF Arrive, Receive, Respond, To, Staged, Sourced
<1>2. CASE \/ RefuseOffline(c) \/ RefuseUnimplemented(c) \/ CallClient(c)
           \/ AnswerLocally(c) \/ FailLocally(c) \/ AbortLocally(c)
  BY <1>2 DEF RefuseOffline, RefuseUnimplemented, AnswerLocally, FailLocally, AbortLocally,
     CallClient, ReturnStandard, wrapErr, Respond, To, Staged, Sourced
<1>3. CASE HandleError(c) \/ HandleAnswer(c) \/ Abort(c) \/ Write(c) \/ Cut(c)
  BY <1>3 DEF HandleError, HandleAnswer, Abort, Write, Cut, ReturnStandard, wrapErr,
     Respond, To, Staged, Sourced
<1>4. CASE ClientStep(c)
  BY <1>4 DEF ClientStep, service, Sourced
<1> QED
  BY <1>1, <1>2, <1>3, <1>4 DEF Work, Handle

LEMMA SourcedInit == ProcessInit => Sourced
BY DEF ProcessInit, ServerInit, Sourced, SourcedAt

\* A handler returns what its mode and network allow, and that is written.
LEMMA SourcedOwn ==
  ASSUME Staged, Sourced, NEW c \in Calls, Arrive(c) \/ Work(c)
  PROVE  SourcedAt(c)'
<1> USE DEF SourcedAt, Allowed, FromTheNode, To
<1>1. SourcedAt(c) /\ DOMAIN stage = Calls
  BY DEF Sourced, Staged
<1>2. CASE Arrive(c)
  BY <1>1, <1>2 DEF Arrive, Receive, Respond, Sourced
<1>3. CASE RefuseOffline(c) \/ RefuseUnimplemented(c)
  BY <1>1, <1>3 DEF RefuseOffline, RefuseUnimplemented, ReturnStandard, wrapErr, Sourced
<1>4. CASE AnswerLocally(c)
  <2>1. question[c].op \notin FromTheNode
    BY <1>4 DEF AnswerLocally, ServesLocally, Local
  <2> QED
    BY <1>1, <1>4, <2>1 DEF AnswerLocally, ServesLocally, Respond, Sourced
<1>11. CASE FailLocally(c) \/ AbortLocally(c)
  BY <1>1, <1>11 DEF FailLocally, AbortLocally, ServesLocally, wrapErr, Sourced
<1>5. CASE CallClient(c)
  BY <1>1, <1>5 DEF CallClient
<1>6. CASE HandleError(c)
  BY <1>1, <1>6 DEF HandleError, Answered, wrapErr, Sourced
<1>7. CASE HandleAnswer(c)
  <2>1. mode = "ONLINE" /\ body[c] = NULL /\ UNCHANGED <<mode, network, body>>
    BY <1>1, <1>7 DEF HandleAnswer, Answered
  <2>2. CASE NotReady(c)
    BY <1>7, <2>1, <2>2 DEF HandleAnswer, ReturnStandard, Sourced
  <2>3. CASE ~ NotReady(c)
    <3>1. /\ result'[c] = [kind |-> "response", value |-> Response(answer[c])]
          /\ stage' = [stage EXCEPT ![c] = "returned"]
      BY <1>7, <2>3 DEF HandleAnswer, Respond, Sourced
    <3>2. Response(answer[c]).kind = "status" =>
            Response(answer[c]).genesis = GenesisHash(network)
      BY DEF Response
    <3>3. GenesisHash(network)' = GenesisHash(network)
      BY <2>1 DEF GenesisHash
    <3> QED
      BY <1>1, <2>1, <3>1, <3>2, <3>3
  <2> QED
    BY <2>2, <2>3
<1>8. CASE Abort(c) \/ Cut(c)
  BY <1>1, <1>8 DEF Abort, Cut, Answered
<1>9. CASE Write(c)
  <2>1. /\ body'[c] = Written(result[c]) /\ stage'[c] = "written"
        /\ UNCHANGED <<mode, network>>
    BY <1>1, <1>9 DEF Write, Sourced
  <2>2. Allowed(Written(result[c]))
    BY <1>1, <1>9 DEF Write, Written
  <2>3. GenesisHash(network)' = GenesisHash(network)
    BY <2>1 DEF GenesisHash
  <2> QED
    BY <2>1, <2>2, <2>3
<1>10. CASE ClientStep(c)
  BY <1>1, <1>10 DEF ClientStep, service, GenesisHash
<1> QED
  BY <1>2, <1>3, <1>4, <1>5, <1>6, <1>7, <1>8, <1>9, <1>10, <1>11 DEF Work, Handle

LEMMA SourcedStep == Staged /\ Sourced /\ [ProcessNext]_pvars => Sourced'
<1> SUFFICES ASSUME Staged, Sourced, [ProcessNext]_pvars PROVE Sourced'
  OBVIOUS
<1>1. CASE UNCHANGED service
  BY <1>1 DEF service, Sourced, SourcedAt, Allowed, GenesisHash
<1>2. ASSUME NEW c \in Calls, Arrive(c) \/ Work(c)
      PROVE  Sourced'
  <2>1. SourcedAt(c)'
    BY <1>2, SourcedOwn
  <2>2. ASSUME NEW d \in Calls \ {c}
        PROVE  SourcedAt(d)'
    BY <1>2, <2>2, OthersKeep DEF Sourced, SourcedAt, Allowed, GenesisHash
  <2> QED
    BY <1>2, <2>1, <2>2, OthersKeep DEF Sourced
<1> QED
  BY <1>1, <1>2 DEF ProcessNext, Run, Signal, pvars, svars

(***************************************************************************)
(* Whatever is written comes from a server the environment allows, with    *)
(* the genesis block of its network (configuration.go:93-153, run.go:59-   *)
(* 110, network_service.go:76-99).                                         *)
(***************************************************************************)
THEOREM EnvironmentIsServed == ProcessSpec => []ServesItsEnvironment
<1>1. Admitted /\ Sourced => ServesItsEnvironment
  BY DEF Admitted, Valid, Configured, Sourced, SourcedAt, Allowed, GenesisHash,
     ServesItsEnvironment
<1> QED
  BY <1>1, StagedInit, StagedNext, AdmittedInit, AdmittedStep, SourcedInit, SourcedStep, PTL
     DEF ProcessSpec

------------------------------------------------------------------------------
(***************************************************************************)
(* Why a request is left without an answer.                                *)
(*                                                                         *)
(* What the process does to its requests is known from LifecycleProofs:    *)
(* its invariant holds of the requests as Handling shows them.  What the   *)
(* handlers do is known from ServerProofs: a call that has begun was asked *)
(* for by a handler that passed its gate.                                  *)
(***************************************************************************)
LP == INSTANCE LifecycleProofs WITH Requests <- Calls,
                                    handling <- [c \in Calls |-> Handling(c)]

\* The two instances of Lifecycle are one.
LEMMA SameInit == L!Init => LP!Init
BY DEF L!Init, LP!Init, L!Environments, LP!Environments

LEMMA SameSteps == [L!Next]_(L!vars) => [LP!Next]_(LP!vars)
<1> USE DEF L!Running, LP!Running, L!Exit, LP!Exit, L!Dropped, LP!Dropped,
            L!GroupReturns, LP!GroupReturns
<1>1. L!LoadConfiguration => LP!LoadConfiguration
  BY DEF L!LoadConfiguration, LP!LoadConfiguration, L!Complaint, LP!Complaint
<1>2. L!StartServices => LP!StartServices
  BY DEF L!StartServices, LP!StartServices
<1>3. L!WaitReturns => LP!WaitReturns
  BY DEF L!WaitReturns, LP!WaitReturns
<1>4. L!SendSignal => LP!SendSignal
  BY DEF L!SendSignal, LP!SendSignal
<1>5. /\ L!Notify => LP!Notify
      /\ L!ReceiveSignal => LP!ReceiveSignal
      /\ L!MarkSignal => LP!MarkSignal
      /\ L!CancelContext => LP!CancelContext
  BY DEF L!Notify, LP!Notify, L!ReceiveSignal, LP!ReceiveSignal, L!MarkSignal,
     LP!MarkSignal, L!CancelContext, LP!CancelContext
<1>6. /\ L!Listen => LP!Listen
      /\ L!ListenFails => LP!ListenFails
      /\ L!ServeReturns => LP!ServeReturns
      /\ L!CloseListener => LP!CloseListener
      /\ L!AcceptFails => LP!AcceptFails
  BY DEF L!AcceptFails, LP!AcceptFails, L!Listen, LP!Listen, L!ListenFails, LP!ListenFails, L!ServeReturns,
     LP!ServeReturns, L!CloseListener, LP!CloseListener
<1>7. L!ShutdownReturns => LP!ShutdownReturns
  BY DEF L!ShutdownReturns, LP!ShutdownReturns, L!Quiet, LP!Quiet
<1>8. \A c \in Calls : (L!Accept(c) => LP!Accept(c)) /\ (L!Respond(c) => LP!Respond(c))
  BY DEF L!Accept, LP!Accept, L!Respond, LP!Respond
<1>9. UNCHANGED L!vars => UNCHANGED LP!vars
  BY DEF L!vars, LP!vars
<1> QED
  BY <1>1, <1>2, <1>3, <1>4, <1>5, <1>6, <1>7, <1>8, <1>9
     DEF L!Next, LP!Next, L!Progress, LP!Progress

\* Every step of the program is one of its server, or leaves it alone.
LEMMA StepOfServer == [ProcessNext]_pvars => [ServerNext]_svars
BY DEF ProcessNext, pvars, Run, Signal, Arrive, Work, ServerNext

\* A call was asked for through the gate, and so was what it left behind.
AskedAt(c) ==
  /\ pc[c] # "idle" \/ stage[c] \in {"calling", "cut"} =>
       mode = "ONLINE" /\ question[c].op \in Asking

Asked == \A c \in Calls : AskedAt(c)

LEMMA AskedInit == ProcessInit => Asked
BY DEF ProcessInit, ServerInit, Init, Asked, AskedAt

LEMMA AskedStep == ServerInv /\ Asked /\ [ServerNext]_svars => Asked'
<1> SUFFICES ASSUME ServerInv, Asked, [ServerNext]_svars PROVE Asked'
  OBVIOUS
<1>0. TypeOK /\ ServerTypeOK /\ DOMAIN stage = Calls /\ DOMAIN question = Calls
  BY DEF ServerInv, IInv, ServerTypeOK
<1>1. ASSUME NEW c \in Calls, Serving(c)
      PROVE  AskedAt(c)'
  <2>1. AskedAt(c) /\ LinkedAt(c) /\ ControlAt(c)
    BY DEF Asked, ServerInv, IInv, Linked, ControlInv
  <2> USE DEF AskedAt
  <2>2. CASE \E q \in Incoming, n \in Networks : Receive(c, q, n)
    <3>1. pc'[c] = "idle"
      BY <2>1, <2>2 DEF Receive, LinkedAt, vars
    <3>2. stage'[c] \in {"handling", "returned"}
      BY <1>0, <2>2 DEF Receive, Respond, To
    <3> QED
      BY <3>1, <3>2
  <2>3. CASE \/ RefuseOffline(c) \/ RefuseUnimplemented(c)
             \/ AnswerLocally(c) \/ FailLocally(c) \/ AbortLocally(c)
    <3>1. stage'[c] \in {"returned", "aborted"}
      BY <1>0, <2>3 DEF RefuseOffline, RefuseUnimplemented, AnswerLocally, FailLocally,
         AbortLocally, ReturnStandard, wrapErr, Respond, To
    <3>2. UNCHANGED <<pc, mode, question>>
      BY <2>3 DEF RefuseOffline, RefuseUnimplemented, AnswerLocally, FailLocally,
         AbortLocally, vars
    <3> QED
      BY <2>1, <3>1, <3>2
  <2>4. CASE CallClient(c)
    BY <1>0, <2>1, <2>4 DEF CallClient
  <2>5. CASE HandleError(c) \/ HandleAnswer(c)
    BY <1>0, <2>1, <2>5 DEF HandleError, HandleAnswer, Answered, ReturnStandard, wrapErr,
       Respond, vars, local
  <2>6. CASE Abort(c) \/ Write(c)
    <3>1. (stage[c] = "calling" /\ stage'[c] = "aborted") \/ stage'[c] = "written"
      BY <1>0, <2>6 DEF Abort, Answered, Write, To
    <3>2. UNCHANGED <<pc, mode, question>>
      BY <2>6 DEF Abort, Write, vars
    <3> QED
      BY <2>1, <3>1, <3>2
  <2>7. CASE Cut(c)
    <3>1. pc[c] # "idle"
      BY <2>1, <2>7 DEF Cut, ControlAt
    <3> QED
      BY <1>0, <2>1, <2>7, <3>1 DEF Cut, vars, local
  <2>8. CASE ClientStep(c)
    <3>1. pc[c] # "idle"
      BY <2>8, StepIsUnderway DEF ClientStep
    <3> QED
      BY <2>1, <2>8, <3>1 DEF ClientStep, service
  <2> QED
    BY <1>1, <2>2, <2>3, <2>4, <2>5, <2>6, <2>7, <2>8 DEF Serving, Handle
<1>2. ASSUME NEW c \in Calls, Serving(c)
      PROVE  Asked'
  <2>1. ASSUME NEW d \in Calls \ {c}
        PROVE  AskedAt(d)'
    BY <1>0, <1>2, <2>1, OthersUndisturbed DEF Asked, AskedAt
  <2> QED
    BY <1>1, <1>2, <2>1 DEF Asked
<1>3. CASE (Grow /\ UNCHANGED service) \/ UNCHANGED svars
  BY <1>3 DEF Grow, svars, vars, service, Asked, AskedAt
<1> QED
  BY <1>2, <1>3 DEF ServerNext, Serving

(***************************************************************************)
(* A request that was accepted is left without an answer only when a       *)
(* signal or the loss of the listener ends the process, when its handler   *)
(* meets a panic of PanicsAreKnown, or when it asked the node, online, and *)
(* was told too late (run.go:101-132, services/, client.go).               *)
(***************************************************************************)
THEOREM NoAnswerHasAReason == ProcessSpec => []UnansweredForAReason
<1> DEFINE Inv == Staged /\ Admitted /\ ServerInv /\ Asked /\ LP!IInv
<1>1. ProcessInit => Inv
  <2>1. ProcessInit => ServerInit /\ LP!Init
    BY SameInit DEF ProcessInit
  <2> QED
    BY <2>1, StagedInit, AdmittedInit, AskedInit, ServerInvInit, LP!InitIInv,
       ProcessAssumption
<1>2. Inv /\ [ProcessNext]_pvars => Inv'
  BY StagedNext, AdmittedStep, AskedStep, ServerInvStep, StepOfServer, StepOfLifecycle,
     SameSteps, LP!NextIInv, ProcessAssumption
<1>3. Inv => UnansweredForAReason
  <2> SUFFICES ASSUME Inv, NEW c \in Calls, stage[c] \notin {"none", "written"},
                      exit # "nil" \/ stage[c] \in Ended
               PROVE  \/ Interrupted
                      \/ stage[c] = "aborted" /\ MayPanic(question[c])
                      \/ /\ stage[c] = "cut" /\ env.MODE = "ONLINE"
                         /\ question[c].op \in Asking
    BY DEF UnansweredForAReason
  <2>1. CASE stage[c] = "cut"
    BY <2>1 DEF Asked, AskedAt, Admitted, Valid, Configured
  <2>2. CASE stage[c] = "aborted"
    BY <2>2 DEF ServerInv, Linked, LinkedAt
  <2>3. CASE stage[c] \notin Ended
    <3>1. Handling(c) = "dropped"
      BY <2>3 DEF Handling
    <3>2. LP!DropsAreReported
      BY DEF LP!IInv
    <3> QED
      BY <3>1, <3>2 DEF LP!DropsAreReported, Interrupted
  <2> QED
    BY <2>1, <2>2, <2>3 DEF Ended
<1> HIDE DEF Inv
<1> QED
  BY <1>1, <1>2, <1>3, PTL DEF ProcessSpec
=============================================================================
