----------------------------- MODULE ClientProps -----------------------------
(***************************************************************************)
(* What casper/client.go must get right, as properties of CasperClient.    *)
(***************************************************************************)
EXTENDS CasperClient

Steps == {"idle", "latest", "latest transfers", "hash", "hash transfers", "index",
          "index transfers", "place", "place block", "proposer", "deploy", "signer",
          "peers", "purse", "balance", "done"}
Succeeded(c, kind) == answer[c] # NULL /\ answer[c].kind = kind

\* A call's block is a block of the chain: nothing it holds goes stale.
OnChain(c) == block[c].height \in Heights /\ block[c] = BlockResponse(block[c].height)

\* The blocks a deploy ran in, one or none.
RanAt(d) == {h \in Heights : d \in {e.deploy : e \in Ran(At(h))}}

\* The steps at which a call has the block it will answer for.
HasBlock(c) ==
  /\ pc[c] \notin {"idle", "latest", "hash", "index", "place", "place block", "done"}
  /\ block[c] # NoBlock
  /\ pc[c] = "hash transfers" /\ req[c].op = "block" => req[c].id.index = NULL

------------------------------------------------------------------------------
(***************************************************************************)
(* Type correctness of client.go's local variables; the chain is as        *)
(* CasperNode declares it.                                                 *)
(***************************************************************************)
BlockResponses == [hash : BlockHashes, height : Nat, parentHash : BlockHashes,
                   stateRoot : {"state"} \X Nat, proposer : Keys,
                   deployHashes : SUBSET Deploys]
TypeOK ==
  /\ chain \in Seq(Block) /\ chain # <<>>
  /\ pc \in [Calls -> Steps]
  /\ req \in [Calls -> Requests \cup {NULL}]
  /\ block \in [Calls -> BlockResponses \cup {NoBlock}]
  /\ transfers \in [Calls -> Seq(Transfer)]
  /\ purse \in [Calls -> Urefs \cup {NULL}]
  /\ todo \in [Calls -> SUBSET Deploys]
  /\ deploy \in [Calls -> DeployResponses \cup {NULL}]
  /\ txs \in [Calls -> Seq([deploy : DeployResponses, signer : Urefs])]
  /\ DOMAIN answer = Calls

------------------------------------------------------------------------------

(***************************************************************************)
(* What each step of a handler knows: the request it serves, and what the  *)
(* steps before it have read (client.go:53-281, 519-594): no nil           *)
(* identifier, deploy or purse is used, and a call answers once.           *)
(***************************************************************************)
Serves(c, ops) == req[c] \in Requests /\ req[c].op \in ops

ControlAt(c) ==
  /\ pc[c] = "latest" => Serves(c, {"status", "block", "balance"})
  /\ pc[c] = "peers" => Serves(c, {"status"})
  /\ pc[c] \in {"latest transfers", "index transfers"} => Serves(c, {"block"})
  /\ pc[c] \in {"hash", "index"} => Serves(c, {"block", "balance"})
  /\ pc[c] \in {"place", "place block"} => Serves(c, {"transaction"})
  /\ pc[c] \in {"hash transfers", "proposer", "deploy", "signer"} =>
       Serves(c, {"block", "transaction"})
  /\ pc[c] \in {"purse", "balance"} => Serves(c, {"balance"})
  /\ pc[c] = "place block" \/ pc[c] = "signer"
       \/ (pc[c] \in {"hash transfers", "proposer"} /\ req[c].op = "transaction")
       => deploy[c] # NULL
  /\ pc[c] \in {"hash", "hash transfers", "index", "index transfers"} => req[c].id # NULL
  /\ pc[c] \in {"deploy", "signer", "balance"} => purse[c] # NULL
  /\ answer[c] # NULL => pc[c] = "done"

ControlInv == \A c \in Calls : ControlAt(c)

(***************************************************************************)
(* What a call holds is no older and no newer than its block: the block it *)
(* has is one of the chain, unchanged since it was read, and the purse     *)
(* Balance is about to read is that of the address (client.go:541-574).    *)
(***************************************************************************)
PurseOf(address) ==
  IF address.form = "uref" THEN address.of.purse ELSE MainPurse[address.of]

SnapshotAt(c) ==
  /\ block[c] # NoBlock => OnChain(c)
  /\ pc[c] = "balance" => purse[c].purse = PurseOf(req[c].address)

SnapshotInv == \A c \in Calls : SnapshotAt(c)

------------------------------------------------------------------------------
(***************************************************************************)
(* Balance, client.go:512-594: "get the balance atomically".  The amount   *)
(* is what the purse held after the very block the answer names, however   *)
(* the chain grew during the call.                                         *)
(***************************************************************************)
TrueBalance(c) ==
  Succeeded(c, "balance") =>
    LET a == answer[c]
    IN  /\ a.height \in Heights /\ a.hash = BlockHash(a.height)
        /\ At(a.height).balance[PurseOf(req[c].address)] # NULL
        /\ a.amount = At(a.height).balance[PurseOf(req[c].address)]

BalanceAtReportedBlock == \A c \in Calls : TrueBalance(c)

(***************************************************************************)
(* Block, client.go:173-208: a block answer lists every deploy the block   *)
(* shows (in body.DeployHashes or by a transfer), each exactly once.  The  *)
(* block is one the request names; see CurrentBlockIsOneBlock for a nil    *)
(* identifier.                                                             *)
(***************************************************************************)
NamesBlock(c) == Succeeded(c, "block") /\ req[c].id # NULL
Shown(b) == {e.deploy : e \in {x \in Ran(b) : Carried(x) # <<>> \/ ~ DeployOf[x.deploy].native}}

BlockListsItsDeploys ==
  \A c \in Calls : NamesBlock(c) =>
    LET listed == answer[c].txs
    IN  /\ {listed[i].deploy : i \in DOMAIN listed} = Shown(At(answer[c].height))
        /\ \A i, j \in DOMAIN listed : listed[i].deploy = listed[j].deploy => i = j

(***************************************************************************)
(* CreateRosTransaction, client.go:288-446, when BlockTransaction asks for *)
(* a deploy under the block it ran in: the operations move exactly what    *)
(* executing the deploy moved, purse by purse.                             *)
(***************************************************************************)
Net(moves, p) ==
  FoldLeft(LAMBDA n, m : n + (IF m.target = p THEN m.amount ELSE 0)
                           - (IF m.source = p THEN m.amount ELSE 0), 0, moves)
NetOps(ops, p) ==
  FoldLeft(LAMBDA n, op : IF op.account = p THEN n + op.amount ELSE n, 0, ops)

TransactionIsWhole ==
  \A c \in Calls : Succeeded(c, "transaction") =>
    \A h \in Heights : \A e \in Ran(At(h)) :
      e.deploy = req[c].deploy /\ req[c].id.hash = BlockHash(h) =>
        \A p \in Purses :
          NetOps(answer[c].tx.ops, p) = Net(Movements(e, At(h).proposer), p)

(***************************************************************************)
(* README.md:28, "Comprehensive tracking of all ETH balance changes": the  *)
(* operations of a block that is named and shows every deploy it ran       *)
(* (nothing in it names a native deploy that failed) add up to what the    *)
(* block changed in each purse.                                            *)
(***************************************************************************)
Hidden(b) == \E e \in Ran(b) : e.deploy \notin Shown(b)
Full(c) == NamesBlock(c) /\ ~ Hidden(At(answer[c].height))

ChangeAt(h, p) == Held(At(h).balance, p) - Held(At(h - 1).balance, p)
OpsOf(a) == FlattenSeq([i \in DOMAIN a.txs |-> a.txs[i].ops])
Explains(a, ops) == \A p \in Purses : a.height > 0 => NetOps(ops, p) = ChangeAt(a.height, p)

OperationsExplainBalances ==
  \A c \in Calls : Full(c) => Explains(answer[c], OpsOf(answer[c]))

(***************************************************************************)
(* client.go:173-208: when such a block ran one transfer at most, its      *)
(* operations, whatever their status, are all that happened to any purse.  *)
(***************************************************************************)
OneTransferAtMost(c) == Full(c) /\ Len(At(answer[c].height).transfers) <= 1

OneTransferIsExplained ==
  \A c \in Calls : OneTransferAtMost(c) => Explains(answer[c], OpsOf(answer[c]))

(***************************************************************************)
(* The same of the operations that Rosetta counts, those whose status      *)
(* types.go:118-127 declares successful.                                    *)
(***************************************************************************)
SuccessfulOperationsExplainBalances ==
  \A c \in Calls : OneTransferAtMost(c) =>
    Explains(answer[c], SelectSeq(OpsOf(answer[c]), LAMBDA op : op.status = SuccessStatus))

(***************************************************************************)
(* README.md:31, "Idempotent access to all transaction traces": what the   *)
(* server says of a transaction does not depend on when, in which call or  *)
(* by which identifier it is asked: two answers that list a deploy in the  *)
(* block it ran in give it the same operations, where the block holds one  *)
(* transfer at most (see OperationsExplainBalances).                       *)
(***************************************************************************)
Reported(c) ==
  IF NamesBlock(c)
    THEN {<<answer[c].hash, answer[c].txs[i]>> : i \in DOMAIN answer[c].txs}
  ELSE IF Succeeded(c, "transaction") THEN {<<req[c].id.hash, answer[c].tx>>}
  ELSE {}

AnswersAgree ==
  \A c, d \in Calls : \A x \in Reported(c), y \in Reported(d) :
    /\ x[1] = y[1] /\ x[2].deploy = y[2].deploy
    /\ \E h \in RanAt(x[2].deploy) : x[1] = BlockHash(h) /\ Len(At(h).transfers) <= 1
    => x[2] = y[2]

(***************************************************************************)
(* client.go:112-114: "If neither the hash or index is populated [...],    *)
(* the current block is returned", in full: the deploys it lists and their *)
(* operations belong to the block it names.                                *)
(***************************************************************************)
CurrentBlockIsOneBlock ==
  \A c \in Calls : Succeeded(c, "block") /\ req[c].id = NULL =>
    \A i \in DOMAIN answer[c].txs :
      answer[c].txs[i].deploy \in {e.deploy : e \in Ran(At(answer[c].height))}

------------------------------------------------------------------------------
(***************************************************************************)
(* The errors of client.go:91-110, 123-159, 248-304 and 527-594: without a *)
(* transport failure a question is refused only for want of what it names: *)
(* the block, an executed deploy, an account or a purse at that block, or  *)
(* because the proposer has no account or a payment no amount.  A named    *)
(* block's own deploys and their signers are always found; of the current  *)
(* one, see CurrentBlockIsOneBlock.                                        *)
(***************************************************************************)
Lacks(h, r) ==
  IF r.op = "balance" THEN At(h).balance[PurseOf(r.address)] = NULL
  ELSE \/ ~ Exists(At(h).proposer, At(h).balance)
       \/ \E e \in Ran(At(h)) : ~ DeployOf[e.deploy].readable

\* The blocks an identifier names, of which the last one is used.
Named(id) ==
  IF id = NULL THEN Heights
  ELSE IF id.index # NULL THEN ByHeight(id.index) ELSE ByHash(id.hash)

Absent(r) ==
  \/ r.op = "balance" /\ r.address.form = "invalid"
  \/ r.op = "transaction" /\ RanAt(r.deploy) = {}
  \/ r.op # "status" /\ r.id # NULL /\ r.id.hash # NULL /\ ByHash(r.id.hash) = {}
  \/ r.op \in {"block", "balance"} /\ Named(r.id) = {}
  \/ r.op # "status" /\ \E h \in IF r.op = "transaction" THEN RanAt(r.deploy)
                                                     ELSE Named(r.id) : Lacks(h, r)

RejectsOnlyTheAbsent ==
  [][\A c \in Calls :
       /\ pc[c] # "done" /\ pc'[c] = "done" /\ answer'[c] = Error("rejected")
       /\ req[c].op = "block" => req[c].id # NULL
       => Absent(req[c])]_vars

------------------------------------------------------------------------------
(***************************************************************************)
(* client.go:53-594 implements LedgerView: every answer is what one final  *)
(* block says, a block the client looked at between question and answer.   *)
(***************************************************************************)
Phase(c) ==
  IF pc[c] \in {"idle", "done"} THEN pc[c] ELSE IF HasBlock(c) THEN "looked" ELSE "asked"
Seen(c) ==
  IF HasBlock(c) \/ (pc[c] = "done" /\ answer[c].kind \notin {"error", "panic"})
  THEN block[c].height ELSE NULL

Ledger == INSTANCE LedgerView WITH phase <- [c \in Calls |-> Phase(c)],
                                   seen <- [c \in Calls |-> Seen(c)]
LooksOnce == Ledger!LSpec
==============================================================================
