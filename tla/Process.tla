------------------------------ MODULE Process ------------------------------
(***************************************************************************)
(* The whole program: the process of Lifecycle with the handlers of Server *)
(* in it.  The process decides when requests are accepted and when every   *)
(* handler stops at once; the environment decides which network and mode   *)
(* the handlers serve.                                                     *)
(***************************************************************************)
EXTENDS Server

CONSTANT MaxSignals     \* bound: signals the process may be sent

ASSUME ProcessAssumption == MaxSignals \in Nat

VARIABLES env, main, watcher, serving, closing, sent, queued, SignalReceived,
          cause, firstError, exit       \* as in Lifecycle

process == <<env, main, watcher, serving, closing, sent, queued, SignalReceived,
             cause, firstError, exit>>
pvars == <<svars, process>>

Ended == {"written", "aborted", "cut"}

\* How far the process sees a request to be.
Handling(c) ==
  IF stage[c] = "none" THEN "none"
  ELSE IF stage[c] \in Ended THEN "served"
  ELSE IF exit # "nil" THEN "dropped" ELSE "active"

L == INSTANCE Lifecycle WITH Requests <- Calls,
                             handling <- [c \in Calls |-> Handling(c)]

(***************************************************************************)
(* Without a complaint the configuration is what the environment says;     *)
(* with one there is none, and no server to use it.                        *)
(***************************************************************************)
Configured ==
  L!Complaint(env) = "nil" => mode = env.MODE /\ network = env.NETWORK

ProcessInit == ServerInit /\ L!Init /\ Configured

\* A step of the process's own goroutines; a signal, or the end of the listener.
Run == UNCHANGED svars /\ L!Progress
Signal == UNCHANGED svars /\ (L!SendSignal \/ L!AcceptFails)

\* A handler's step, while the process runs.
Work(c) == L!Running /\ Handle(c) /\ UNCHANGED process

\* A request is accepted and gets its goroutine.
Arrive(c) ==
  \E q \in Incoming, n \in Networks :
    Receive(c, q, n) /\ UNCHANGED exit /\ L!Accept(c)

ProcessNext ==
  \/ Run \/ Signal
  \/ Grow /\ UNCHANGED <<service, process>>
  \/ \E c \in Calls : Arrive(c) \/ Work(c)

(***************************************************************************)
(* Every goroutine that can run does so in the end.  One that waits for    *)
(* the node may wait for ever: the client sets no deadline (client.go:33   *)
(* declares one that is not used) and does not look at its context.        *)
(***************************************************************************)
ProcessSpec ==
  /\ ProcessInit /\ [][ProcessNext]_pvars
  /\ WF_pvars(Run) /\ \A c \in Calls : WF_pvars(Work(c) /\ ~ RpcPending(c))

------------------------------------------------------------------------------
(***************************************************************************)
(* configuration.go:93-153 to network_service.go:76-99 by way of           *)
(* run.go:59-110: whatever is written to a caller comes from a server that *)
(* the environment allows: a valid one; if it comes from the node, an      *)
(* online one; and the genesis block that /network/status names is that of *)
(* the network in the environment.                                         *)
(***************************************************************************)
FromTheNode == {"status", "block", "transaction", "balance"}

ServesItsEnvironment ==
  \A c \in Calls : body[c] # NULL =>
    /\ L!Complaint(env) = "nil" /\ env.PORT # "70000"
    /\ body[c].kind \in FromTheNode => env.MODE = "ONLINE"
    /\ body[c].kind = "status" => body[c].genesis = GenesisHash(env.NETWORK)

(***************************************************************************)
(* How the process may end with requests it has accepted and not answered. *)
(***************************************************************************)
Interrupted == exit \in {"halted", "killed", "accept"}

(***************************************************************************)
(* run.go:101-132 with services/ and client.go: a request that was         *)
(* accepted ends unless one of its RPCs never does: it is answered, or its *)
(* handler panics, or its answer comes after the write deadline of         *)
(* run.go:41-44, or a signal or the loss of the listener ends the process  *)
(* first.  No handler asks for ever, however often the node fails it.      *)
(***************************************************************************)
Hangs(c, s) == pc[c] = s /\ RpcPending(c) /\ exit = "nil"

EveryRequestEnds ==
  \A c \in Calls :
    \/ \E s \in Steps : <>[]Hangs(c, s)
    \/ stage[c] # "none" ~> stage[c] \in Ended \/ Interrupted

(***************************************************************************)
(* The same, looking back: an accepted request is without an answer only   *)
(* because the process was interrupted, because its handler met one of the *)
(* panics of PanicsAreKnown, or because it asked the node, online, and was *)
(* told too late.  In particular the process's own shutdown, for whatever  *)
(* other reason, finds no request under way.                               *)
(***************************************************************************)
UnansweredForAReason ==
  \A c \in Calls :
    stage[c] \notin {"none", "written"} /\ (exit # "nil" \/ stage[c] \in Ended) =>
      \/ Interrupted
      \/ stage[c] = "aborted" /\ MayPanic(question[c])
      \/ stage[c] = "cut" /\ env.MODE = "ONLINE" /\ question[c].op \in Asking
=============================================================================
