----------------------------- MODULE LedgerView -----------------------------
(***************************************************************************)
(* What casper.Client promises, whatever RPCs it makes: between a question *)
(* and its answer there is one moment at which the client looks at one     *)
(* final block, the one named or else the current one, and the answer is   *)
(* what that block says.                                                   *)
(***************************************************************************)
EXTENDS CasperNode

CONSTANTS Calls, Requests

VARIABLES
  phase,      \* of each call: "idle", "asked", "looked" or "done"
  req,        \* the request it serves
  seen,       \* the height of the block it looked at
  answer      \* what it answered

lvars == <<chain, phase, req, seen, answer>>

\* The heights a request may be about.
About(r) ==
  IF r.op = "transaction"
    THEN {h \in Heights : r.deploy \in {e.deploy : e \in Ran(At(h))}}
  ELSE IF r.op = "status" THEN {Tip}
  ELSE IF r.id = NULL THEN {Tip}
  ELSE IF r.id.index # NULL THEN ByHeight(r.id.index)
  ELSE IF r.id.hash # NULL THEN ByHash(r.id.hash)
  ELSE {}

\* The purse an address names.
PurseNamed(address) ==
  IF address.form = "uref" THEN address.of.purse ELSE MainPurse[address.of]

Header(h) == [hash |-> BlockHash(h), height |-> h]

\* Answer a says what the block at height h says in answer to r.  Of the
\* current block, asked for by a nil identifier, only the header is promised.
Says(r, h, a) ==
  \/ r.op = "status" /\ a = [kind |-> "status", hash |-> BlockHash(h), height |-> h]
  \/ /\ r.op = "balance" /\ a.kind = "balance"
     /\ [hash |-> a.hash, height |-> a.height] = Header(h)
     /\ a.amount \in BalanceAt(StateRoot(h), PurseNamed(r.address))
  \/ /\ r.op = "block" /\ a.kind = "block"
     /\ [hash |-> a.hash, height |-> a.height] = Header(h)
     /\ a.parent = Header(IF h = 0 THEN 0 ELSE h - 1)
     /\ r.id # NULL => \A i \in DOMAIN a.txs :
          \E e \in Ran(At(h)) : e.deploy = a.txs[i].deploy
  \/ /\ r.op = "transaction" /\ a.kind = "transaction"
     /\ a.tx.deploy = r.deploy

LInit ==
  /\ NodeInit
  /\ phase = [c \in Calls |-> "idle"]
  /\ req = [c \in Calls |-> NULL]
  /\ seen = [c \in Calls |-> NULL]
  /\ answer = [c \in Calls |-> NULL]

LGrow == ProduceBlock /\ UNCHANGED <<phase, req, seen, answer>>

LAsk(c) ==
  /\ phase[c] = "idle"
  /\ \E r \in Requests : req' = [req EXCEPT ![c] = r]
  /\ phase' = [phase EXCEPT ![c] = "asked"]
  /\ UNCHANGED <<chain, seen, answer>>

Look(c) ==
  /\ phase[c] = "asked"
  /\ \E h \in About(req[c]) : seen' = [seen EXCEPT ![c] = h]
  /\ phase' = [phase EXCEPT ![c] = "looked"]
  /\ UNCHANGED <<chain, req, answer>>

Answer(c) ==
  /\ phase[c] = "looked"
  /\ phase' = [phase EXCEPT ![c] = "done"]
  /\ Says(req[c], seen[c], answer'[c])
  /\ \A d \in Calls \ {c} : answer'[d] = answer[d]
  /\ UNCHANGED <<chain, req, seen>>

\* The client may give up on a question, whether or not it has looked.  It
\* panics only on an address too short to be one, and when it is to report a
\* block and is told neither its hash nor its index.
Senseless(r) ==
  \/ r.op = "balance" /\ r.address.form = "short"
  \/ r.op = "block" /\ r.id # NULL /\ r.id.hash = NULL /\ r.id.index = NULL

GiveUp(c) ==
  /\ phase[c] \in {"asked", "looked"}
  /\ phase' = [phase EXCEPT ![c] = "done"]
  /\ seen' = [seen EXCEPT ![c] = NULL]
  /\ \/ answer'[c].kind = "error"
     \/ answer'[c].kind = "panic" /\ Senseless(req[c])
  /\ \A d \in Calls \ {c} : answer'[d] = answer[d]
  /\ UNCHANGED <<chain, req>>

LNext ==
  \/ LGrow
  \/ \E c \in Calls : LAsk(c) \/ Look(c) \/ Answer(c) \/ GiveUp(c)

LSpec == LInit /\ [][LNext]_lvars
=============================================================================
