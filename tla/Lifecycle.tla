------------------------------ MODULE Lifecycle ------------------------------
(***************************************************************************)
(* The process: cmd/run.go, cmd/root.go and configuration.go.  Four        *)
(* goroutines run beside the request handlers: the main one, the one that  *)
(* waits for a signal, and the two of the errgroup, of which one serves    *)
(* and the other shuts the server down when the context is done.           *)
(*                                                                         *)
(* net/http, errgroup and os/signal are not in the repository; what the    *)
(* code relies on is said where it is used.                                *)
(***************************************************************************)
EXTENDS Integers

CONSTANTS
  Requests,     \* HTTP requests that may arrive
  MaxSignals    \* bound: signals the process may be sent

ASSUME SignalsAssumption == MaxSignals \in Nat

(***************************************************************************)
(* The environment: each variable unset (or empty, which is the same to    *)
(* os.Getenv), unknown or good, and the port also out of range in either   *)
(* direction (strconv.Atoi bounds it above by the width of an int only).   *)
(***************************************************************************)
Environments ==
  [MODE : {"ONLINE", "OFFLINE", "unset", "unknown"},
   NETWORK : {"MAINNET", "TESTNET", "unset", "unknown"},
   PORT : {"8080", "unset", "unknown", "0", "70000"}]

\* Mutant: it complains with what it found.
Complaint_raw(e) == IF e.MODE = "unknown" THEN e.MODE ELSE "nil"

\* LoadConfiguration: the first complaint it has, "nil" for none.
Complaint(e) ==
  IF e.MODE \in {"unset", "unknown"} THEN "mode"
  ELSE IF e.NETWORK \in {"unset", "unknown"} THEN "network"
  ELSE IF e.PORT \in {"unset", "unknown", "0"} THEN "port"
  ELSE "nil"

VARIABLES
  env,              \* the environment variables
  main,             \* main goroutine: "load", "start", "wait", "exited"
  watcher,          \* signal goroutine: "none", "spawned", "waiting", "received", "marked", "done"
  serving,          \* ListenAndServe: "none", "starting", "listening", "returned", or
                    \* "unopened" when it returned without having listened
  closing,          \* Shutdown: "none", "waiting", "closed", then "returned", or
                    \* "drained" when it found every connection closed
  sent,             \* how many signals were sent
  queued,           \* whether sigs, a channel of one, holds one
  SignalReceived,   \* the package variable of root.go
  cause,            \* what ended the context: "nil", "signal" or "error"
  firstError,       \* what g.Wait will return: "nil" for nil
  handling,         \* each request: "none", "active", "served" or "dropped"
  exit              \* how the process ended, "nil" while it runs

vars == <<env, main, watcher, serving, closing, sent, queued, SignalReceived,
          cause, firstError, exit, handling>>

Init ==
  /\ env \in Environments
  /\ main = "load" /\ watcher = "none" /\ serving = "none" /\ closing = "none"
  /\ sent = 0 /\ queued = FALSE /\ SignalReceived = FALSE
  /\ cause = "nil" /\ firstError = "nil"
  /\ exit = "nil"
  /\ handling = [r \in Requests |-> "none"]

Running == exit = "nil"
Dropped == [r \in Requests |-> IF handling[r] = "active" THEN "dropped" ELSE handling[r]]
Exit(why) == main' = "exited" /\ exit' = why /\ handling' = Dropped

\* Mutant: an error does not cancel the context.
GroupReturns_alone(err) ==
  /\ firstError' = IF firstError = "nil" THEN err ELSE firstError
  /\ UNCHANGED cause

\* The errgroup keeps the first error, and with it cancels the context.
GroupReturns(err) ==
  /\ firstError' = IF firstError = "nil" THEN err ELSE firstError
  /\ cause' = IF err # "nil" /\ cause = "nil" THEN "error" ELSE cause

------------------------------------------------------------------------------
(***************************************************************************)
(* The main goroutine.                                                     *)
(***************************************************************************)
LoadConfiguration ==
  /\ main = "load"
  /\ IF Complaint(env) = "nil" THEN main' = "start" /\ UNCHANGED <<exit, handling>>
                            ELSE Exit(Complaint(env))
  /\ UNCHANGED <<env, watcher, serving, closing, sent, queued, SignalReceived,
                 cause, firstError>>

\* Mutant: nobody shuts the server down.
StartServices_endless ==
  /\ main = "start"
  /\ main' = "wait"
  /\ watcher' = "spawned" /\ serving' = "starting"
  /\ UNCHANGED <<exit, env, closing, sent, queued, SignalReceived, cause,
                 firstError, handling>>

\* go handleSignals, then the two g.Go: nothing says in which order they run.
StartServices ==
  /\ main = "start"
  /\ main' = "wait"
  /\ watcher' = "spawned" /\ serving' = "starting" /\ closing' = "waiting"
  /\ UNCHANGED <<exit, env, sent, queued, SignalReceived, cause, firstError,
                 handling>>

\* g.Wait returns once both have; SignalReceived decides the message.
WaitReturns ==
  /\ main = "wait"
  /\ serving \in {"unopened", "returned"} /\ closing \in {"drained", "returned"}
  /\ Exit(IF SignalReceived THEN "halted" ELSE firstError)
  /\ UNCHANGED <<env, watcher, serving, closing, sent, queued, SignalReceived,
                 cause, firstError>>

------------------------------------------------------------------------------
(***************************************************************************)
(* Signals.  Before signal.Notify a signal kills the process; after it,    *)
(* one that finds the channel full is forgotten.                           *)
(***************************************************************************)
SendSignal ==
  /\ Running /\ sent < MaxSignals
  /\ sent' = sent + 1
  /\ IF watcher \in {"none", "spawned"}
     THEN Exit("killed") /\ UNCHANGED queued
     ELSE queued' = TRUE /\ UNCHANGED <<exit, main, handling>>
  /\ UNCHANGED <<env, watcher, serving, closing, SignalReceived, cause, firstError>>

Notify ==
  /\ Running /\ watcher = "spawned"
  /\ watcher' = "waiting"
  /\ UNCHANGED <<exit, env, main, serving, closing, sent, queued, SignalReceived,
                 cause, firstError, handling>>

\* Mutant: it cancels first, and marks the signal afterwards.
ReceiveSignal_cancels ==
  /\ Running /\ watcher = "waiting" /\ queued
  /\ watcher' = "received" /\ queued' = FALSE
  /\ cause' = IF cause = "nil" THEN "signal" ELSE cause
  /\ UNCHANGED <<exit, env, main, serving, closing, sent, SignalReceived,
                 firstError, handling>>

ReceiveSignal ==
  /\ Running /\ watcher = "waiting" /\ queued
  /\ watcher' = "received" /\ queued' = FALSE
  /\ UNCHANGED <<exit, env, main, serving, closing, sent, SignalReceived, cause,
                 firstError, handling>>

MarkSignal ==
  /\ Running /\ watcher = "received"
  /\ watcher' = "marked" /\ SignalReceived' = TRUE
  /\ UNCHANGED <<exit, env, main, serving, closing, sent, queued, cause,
                 firstError, handling>>

CancelContext ==
  /\ Running /\ watcher = "marked"
  /\ watcher' = "done"
  /\ cause' = IF cause = "nil" THEN "signal" ELSE cause
  /\ UNCHANGED <<exit, env, main, serving, closing, sent, queued, SignalReceived,
                 firstError, handling>>

------------------------------------------------------------------------------
(***************************************************************************)
(* The errgroup.                                                           *)
(***************************************************************************)

\* ListenAndServe binds the port unless the server was shut down before.
Listen ==
  /\ Running /\ serving = "starting"
  /\ closing = "waiting" /\ env.PORT # "70000"
  /\ serving' = "listening"
  /\ UNCHANGED <<exit, env, main, watcher, closing, sent, queued, SignalReceived,
                 cause, firstError, handling>>

\* The port is taken, or is no port.
ListenFails ==
  /\ Running /\ serving = "starting" /\ closing = "waiting"
  /\ serving' = "unopened"
  /\ GroupReturns("listen")
  /\ UNCHANGED <<exit, env, main, watcher, closing, sent, queued, SignalReceived,
                 handling>>

(***************************************************************************)
(* The listener fails while it serves: ListenAndServe returns any error of *)
(* Accept that is not temporary.  (After Shutdown it is ErrServerClosed.)  *)
(***************************************************************************)
AcceptFails ==
  /\ Running /\ serving = "listening" /\ closing = "waiting"
  /\ serving' = "returned"
  /\ GroupReturns("accept")
  /\ UNCHANGED <<exit, env, main, watcher, closing, sent, queued, SignalReceived,
                 handling>>

\* After Shutdown has been called it returns ErrServerClosed at once.
ServeReturns ==
  /\ Running /\ serving \in {"starting", "listening"}
  /\ closing \in {"closed", "drained", "returned"}
  /\ serving' = IF serving = "listening" THEN "returned" ELSE "unopened"
  /\ GroupReturns("closed")
  /\ UNCHANGED <<exit, env, main, watcher, closing, sent, queued, SignalReceived,
                 handling>>

\* Mutant: it does not wait for the context.
CloseListener_eager ==
  /\ Running /\ closing = "waiting"
  /\ closing' = "closed"
  /\ UNCHANGED <<exit, env, main, watcher, serving, sent, queued, SignalReceived,
                 cause, firstError, handling>>

\* <-ctx.Done(), then Shutdown closes the listener ...
CloseListener ==
  /\ Running /\ closing = "waiting" /\ cause # "nil"
  /\ closing' = "closed"
  /\ UNCHANGED <<exit, env, main, watcher, serving, sent, queued, SignalReceived,
                 cause, firstError, handling>>

(***************************************************************************)
(* ... and, with a context that is done already, waits for nobody: nil if  *)
(* no connection is open and the listener is gone, else the context's      *)
(* error.  A connection without a request may be open or not.              *)
(***************************************************************************)
Quiet == serving # "listening" /\ \A r \in Requests : handling[r] # "active"

ShutdownReturns ==
  /\ Running /\ closing = "closed"
  /\ \/ Quiet /\ closing' = "drained" /\ GroupReturns("nil")
     \/ closing' = "returned" /\ GroupReturns("canceled")
  /\ UNCHANGED <<exit, env, main, watcher, serving, sent, queued, SignalReceived,
                 handling>>

------------------------------------------------------------------------------
(***************************************************************************)
(* The request handlers.  A request comes on a connection that was opened  *)
(* while the server listened, and may still come on it when the listener   *)
(* is gone, unless Shutdown has found every connection closed.             *)
(***************************************************************************)
Accept(r) ==
  /\ Running /\ serving \in {"listening", "returned"} /\ closing # "drained"
  /\ handling[r] = "none"
  /\ UNCHANGED <<env, main, watcher, serving, closing, sent, queued, SignalReceived,
                 cause, firstError, exit>>
  /\ handling' = [handling EXCEPT ![r] = "active"]

Respond(r) ==
  /\ Running /\ handling[r] = "active"
  /\ UNCHANGED <<env, main, watcher, serving, closing, sent, queued, SignalReceived,
                 cause, firstError, exit>>
  /\ handling' = [handling EXCEPT ![r] = "served"]

------------------------------------------------------------------------------
Progress ==
  \/ LoadConfiguration \/ StartServices \/ WaitReturns
  \/ Notify \/ ReceiveSignal \/ MarkSignal \/ CancelContext
  \/ Listen \/ ListenFails \/ ServeReturns \/ CloseListener \/ ShutdownReturns

Next == Progress \/ SendSignal \/ AcceptFails \/ \E r \in Requests : Accept(r) \/ Respond(r)

\* Every goroutine that can run does so in the end; nobody must call or signal, and
\* no listener must fail.
Fairness ==
  /\ WF_vars(LoadConfiguration) /\ WF_vars(StartServices) /\ WF_vars(WaitReturns)
  /\ WF_vars(Notify) /\ WF_vars(ReceiveSignal)
  /\ WF_vars(MarkSignal) /\ WF_vars(CancelContext)
  /\ WF_vars(Listen \/ ListenFails \/ ServeReturns)
  /\ WF_vars(CloseListener) /\ WF_vars(ShutdownReturns)

Spec == Init /\ [][Next]_vars /\ Fairness

------------------------------------------------------------------------------
TypeOK ==
  /\ env \in Environments
  /\ main \in {"load", "start", "wait", "exited"}
  /\ watcher \in {"none", "spawned", "waiting", "received", "marked", "done"}
  /\ serving \in {"none", "starting", "listening", "unopened", "returned"}
  /\ closing \in {"none", "waiting", "closed", "drained", "returned"}
  /\ sent \in 0 .. MaxSignals
  /\ queued \in BOOLEAN /\ SignalReceived \in BOOLEAN
  /\ cause \in {"nil", "signal", "error"}
  /\ firstError \in {"nil", "listen", "accept", "closed", "canceled"}
  /\ handling \in [Requests -> {"none", "active", "served", "dropped"}]
  /\ exit \in {"nil", "mode", "network", "port", "killed", "halted", "listen",
               "accept", "closed", "canceled"}

(***************************************************************************)
(* root.go:33-35 and 52-62: an exit that a signal caused is reported as    *)
(* one, because the handler sets SignalReceived before it cancels, and the *)
(* group's goroutines, and so g.Wait, return only after that.              *)
(***************************************************************************)
SignalIsReported ==
  exit # "nil" /\ cause = "signal" => exit \in {"halted", "killed"}

(***************************************************************************)
(* run.go:113-132: the process ends with a reason to give: "halted" only   *)
(* after a signal, and never the errors that are but the echo of a         *)
(* shutdown, http.ErrServerClosed and the context's.                       *)
(***************************************************************************)
EndsForAReason ==
  main = "exited" => /\ exit # "nil"
                     /\ exit = "halted" => sent > 0
                     /\ exit \notin {"closed", "canceled"}

(***************************************************************************)
(* run.go:113-132: a request that was accepted is dropped only by an exit  *)
(* that says why, a signal's or that of a listener that failed while it    *)
(* served.  An exit for want of a configuration or a port drops nobody,    *)
(* however late the error of ListenAndServe is read.                       *)
(***************************************************************************)
DropsAreReported ==
  (\E r \in Requests : handling[r] = "dropped") => exit \in {"halted", "killed", "accept"}

(***************************************************************************)
(* run.go:119-121, "If we don't shutdown server in errgroup, it will never *)
(* stop": it does stop once a signal is noticed or the server fails.       *)
(***************************************************************************)
SignalStops == queued ~> ~ Running
FailureStops == firstError # "nil" ~> ~ Running
==============================================================================
