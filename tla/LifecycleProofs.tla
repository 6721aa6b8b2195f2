-------------------------- MODULE LifecycleProofs --------------------------
(***************************************************************************)
(* Theorems of Lifecycle: why the process ends and what it reports, for    *)
(* any requests and any number of signals.                                 *)
(*                                                                         *)
(* None of the properties is inductive: each looks at the exit, and what   *)
(* the exit will be is decided earlier, by the order in which the signal   *)
(* goroutine and the errgroup did their steps.  IInv says what is already  *)
(* decided while the process runs.                                         *)
(***************************************************************************)
EXTENDS Lifecycle, TLAPS

\* Before the goroutines are started nothing has happened to them.
NotStarted ==
  main \in {"load", "start"} =>
    watcher = "none" /\ serving = "none" /\ closing = "none" /\ cause = "nil"

\* The signal goroutine's order: a signal was sent, then marked, then cancels.
SignalOrder ==
  /\ queued \/ watcher \in {"received", "marked", "done"} => sent > 0
  /\ SignalReceived => sent > 0
  /\ watcher = "marked" => SignalReceived
  /\ cause = "signal" => SignalReceived

\* The errgroup: the context ends for a cause, and each error has its own.
GroupOrder ==
  /\ closing \in {"closed", "drained", "returned"} => cause # "nil"
  /\ cause = "error" => firstError # "nil"
  /\ firstError \in {"closed", "canceled"} => SignalReceived
  /\ serving \in {"unopened", "returned"} => firstError # "nil"

\* A server that never listened has no requests, and only such a one failed to listen.
Listened ==
  /\ serving \in {"none", "starting", "unopened"} =>
       \A r \in Requests : handling[r] = "none"
  /\ firstError = "listen" => serving = "unopened"

IInv == /\ TypeOK
        /\ main = "exited" <=> exit # "nil"
        /\ NotStarted /\ SignalOrder /\ GroupOrder /\ Listened
        /\ SignalIsReported /\ EndsForAReason /\ DropsAreReported

LEMMA InitIInv == Init => IInv
<1> SUFFICES ASSUME Init PROVE IInv
  OBVIOUS
<1>1. TypeOK
  <2>1. sent \in 0 .. MaxSignals
    BY SignalsAssumption DEF Init
  <2>2. handling \in [Requests -> {"none", "active", "served", "dropped"}]
    BY DEF Init
  <2> QED
    BY <2>1, <2>2 DEF Init, TypeOK
<1>2. NotStarted /\ SignalOrder /\ GroupOrder /\ Listened
  BY DEF Init, NotStarted, SignalOrder, GroupOrder, Listened
<1>3. SignalIsReported /\ EndsForAReason /\ DropsAreReported
  BY DEF Init, SignalIsReported, EndsForAReason, DropsAreReported
<1> QED
  BY <1>1, <1>2, <1>3 DEF Init, IInv

\* The exits: what each leaves behind, given what the process has decided.
LEMMA ExitKeeps ==
  ASSUME IInv, NEW why \in {"mode", "network", "port", "killed", "halted", "listen", "accept"},
         Exit(why), exit = "nil",
         cause = "signal" => why \in {"halted", "killed"},
         why = "halted" => sent > 0,
         (\E r \in Requests : handling[r] = "active") => why \in {"halted", "killed", "accept"},
         sent' \in 0 .. MaxSignals, sent' >= sent, queued' \in BOOLEAN, queued' => sent' > 0,
         UNCHANGED <<env, watcher, serving, closing, SignalReceived, cause, firstError>>
  PROVE  IInv'
<1> USE SignalsAssumption DEF IInv
<1>1. TypeOK'
  BY DEF TypeOK, Exit, Dropped
<1>2. (main = "exited" <=> exit # "nil")' /\ NotStarted'
  BY DEF Exit, NotStarted
<1>3. SignalOrder'
  BY DEF SignalOrder, TypeOK
<1>4. GroupOrder'
  BY DEF GroupOrder
<1>5. Listened'
  BY DEF Listened, Exit, Dropped
<1>6. SignalIsReported' /\ EndsForAReason'
  BY DEF SignalIsReported, EndsForAReason, Exit, TypeOK
<1>7. DropsAreReported'
  BY DEF DropsAreReported, Exit, Dropped, TypeOK
<1> QED
  BY <1>1, <1>2, <1>3, <1>4, <1>5, <1>6, <1>7

LEMMA NextIInv == IInv /\ [Next]_vars => IInv'
<1> SUFFICES ASSUME IInv, [Next]_vars PROVE IInv'
  OBVIOUS
<1> USE SignalsAssumption
<1>1. CASE LoadConfiguration
  <2>1. CASE Complaint(env) = "nil"
    BY <1>1, <2>1 DEF LoadConfiguration, IInv, TypeOK, NotStarted, SignalOrder,
       GroupOrder, Listened, SignalIsReported, EndsForAReason, DropsAreReported
  <2>2. CASE Complaint(env) # "nil"
    <3>1. Complaint(env) \in {"mode", "network", "port"}
      BY <2>2 DEF Complaint
    <3>2. exit = "nil" /\ cause = "nil" /\ \A r \in Requests : handling[r] = "none"
      BY <1>1 DEF LoadConfiguration, IInv, NotStarted, Listened
    <3> QED
      BY <1>1, <2>2, <3>1, <3>2, ExitKeeps DEF LoadConfiguration, IInv, TypeOK, SignalOrder
  <2> QED
    BY <2>1, <2>2
<1>2. CASE StartServices
  BY <1>2 DEF StartServices, IInv, TypeOK, NotStarted, SignalOrder,
     GroupOrder, Listened, SignalIsReported, EndsForAReason, DropsAreReported
<1>3. CASE WaitReturns
  <2> DEFINE why == IF SignalReceived THEN "halted" ELSE firstError
  <2>1. why \in {"halted", "listen", "accept"} /\ exit = "nil"
    BY <1>3 DEF WaitReturns, IInv, TypeOK, GroupOrder
  <2>2. (cause = "signal" => why = "halted") /\ (why = "halted" => sent > 0)
    BY <2>1 DEF IInv, SignalOrder, TypeOK
  <2>3. (\E r \in Requests : handling[r] = "active") => why \in {"halted", "accept"}
    BY <2>1, <2>2 DEF IInv, Listened
  <2> QED
    BY <1>3, <2>1, <2>2, <2>3, ExitKeeps DEF WaitReturns, IInv, TypeOK, SignalOrder
<1>4. CASE SendSignal
  <2>1. sent' \in 0 .. MaxSignals /\ sent' > 0 /\ sent' >= sent /\ exit = "nil"
    BY <1>4 DEF SendSignal, Running, IInv, TypeOK
  <2>2. CASE watcher \in {"none", "spawned"}
    BY <1>4, <2>1, <2>2, ExitKeeps DEF SendSignal, IInv, TypeOK
  <2>3. CASE watcher \notin {"none", "spawned"}
    BY <1>4, <2>1, <2>3 DEF SendSignal, IInv, TypeOK, NotStarted, SignalOrder,
       GroupOrder, Listened, SignalIsReported, EndsForAReason, DropsAreReported
  <2> QED
    BY <2>2, <2>3
<1>5. CASE Notify
  BY <1>5 DEF Notify, Running, IInv, TypeOK, NotStarted, SignalOrder,
     GroupOrder, Listened, SignalIsReported, EndsForAReason, DropsAreReported
<1>6. CASE ReceiveSignal
  BY <1>6 DEF ReceiveSignal, Running, IInv, TypeOK, NotStarted, SignalOrder,
     GroupOrder, Listened, SignalIsReported, EndsForAReason, DropsAreReported
<1>7. CASE MarkSignal
  BY <1>7 DEF MarkSignal, Running, IInv, TypeOK, NotStarted, SignalOrder,
     GroupOrder, Listened, SignalIsReported, EndsForAReason, DropsAreReported
<1>8. CASE CancelContext
  BY <1>8 DEF CancelContext, Running, IInv, TypeOK, NotStarted, SignalOrder,
     GroupOrder, Listened, SignalIsReported, EndsForAReason, DropsAreReported
<1>9. CASE Listen
  BY <1>9 DEF Listen, Running, IInv, TypeOK, NotStarted, SignalOrder,
     GroupOrder, Listened, SignalIsReported, EndsForAReason, DropsAreReported
<1>10. CASE ListenFails
  BY <1>10 DEF ListenFails, GroupReturns, Running, IInv, TypeOK, NotStarted, SignalOrder,
     GroupOrder, Listened, SignalIsReported, EndsForAReason, DropsAreReported
<1>11. CASE AcceptFails
  BY <1>11 DEF AcceptFails, GroupReturns, Running, IInv, TypeOK, NotStarted, SignalOrder,
     GroupOrder, Listened, SignalIsReported, EndsForAReason, DropsAreReported
<1>12. CASE ServeReturns
  BY <1>12 DEF ServeReturns, GroupReturns, Running, IInv, TypeOK, NotStarted, SignalOrder,
     GroupOrder, Listened, SignalIsReported, EndsForAReason, DropsAreReported
<1>13. CASE CloseListener
  BY <1>13 DEF CloseListener, Running, IInv, TypeOK, NotStarted, SignalOrder,
     GroupOrder, Listened, SignalIsReported, EndsForAReason, DropsAreReported
<1>14. CASE ShutdownReturns
  BY <1>14 DEF ShutdownReturns, GroupReturns, Running, IInv, TypeOK, NotStarted, SignalOrder,
     GroupOrder, Listened, SignalIsReported, EndsForAReason, DropsAreReported
<1>15. ASSUME NEW r \in Requests, Accept(r) \/ Respond(r) PROVE IInv'
  BY <1>15 DEF Accept, Respond, Running, IInv, TypeOK, NotStarted, SignalOrder,
     GroupOrder, Listened, SignalIsReported, EndsForAReason, DropsAreReported
<1>16. CASE UNCHANGED vars
  BY <1>16 DEF vars, IInv, TypeOK, NotStarted, SignalOrder,
     GroupOrder, Listened, SignalIsReported, EndsForAReason, DropsAreReported
<1> QED
  BY <1>1, <1>2, <1>3, <1>4, <1>5, <1>6, <1>7, <1>8, <1>9, <1>10, <1>11, <1>12,
     <1>13, <1>14, <1>15, <1>16 DEF Next, Progress

LEMMA Invariance == Spec => []IInv
BY InitIInv, NextIInv, PTL DEF Spec

(***************************************************************************)
(* The variables of the process keep their types.                          *)
(***************************************************************************)
THEOREM ProcessTypeCorrect == Spec => []TypeOK
BY Invariance, PTL DEF IInv

(***************************************************************************)
(* An exit that a signal caused is reported as one (root.go:52-62).        *)
(***************************************************************************)
THEOREM HaltIsReported == Spec => []SignalIsReported
BY Invariance, PTL DEF IInv

(***************************************************************************)
(* The process ends with a reason that is not the echo of its shutdown     *)
(* (run.go:113-132).                                                       *)
(***************************************************************************)
THEOREM EndIsExplained == Spec => []EndsForAReason
BY Invariance, PTL DEF IInv

(***************************************************************************)
(* A request that was accepted is dropped only by an exit that reports a   *)
(* signal or a listener that failed while it served (run.go:113-132).      *)
(***************************************************************************)
THEOREM DropsAreAnnounced == Spec => []DropsAreReported
BY Invariance, PTL DEF IInv
=============================================================================
