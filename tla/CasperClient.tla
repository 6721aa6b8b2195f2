---------------------------- MODULE CasperClient ----------------------------
(***************************************************************************)
(* casper/client.go: Status, Block, BlockTransaction and Balance, each     *)
(* served by a goroutine of its own.  A call keeps everything it reads in  *)
(* local variables and makes its RPCs one after the other; the chain may   *)
(* grow between any two of them, and any of them may fail.                 *)
(***************************************************************************)
EXTENDS CasperNode, RosettaOps

CONSTANTS
  Calls,      \* the goroutines, each serving one request
  Requests    \* the requests they may be given

(***************************************************************************)
(* An identifier is nil or has a hash, an index, both or neither.  An      *)
(* address is an account hash or a public key, a uref with or without its  *)
(* access rights, or neither ("invalid" or, below two characters, "short").*)
(***************************************************************************)
PartialIds == [hash : {NULL} \cup BlockHashes, index : {NULL} \cup Int]
Ids == {NULL} \cup PartialIds
Addresses ==
  [form : {"account-hash", "key", "invalid", "short"}, of : Accounts]
    \cup [form : {"uref"}, of : [purse : Purses, rights : {"", "001", "007"}]]

AllRequests ==
  [op : {"status"}]
    \cup [op : {"block"}, id : Ids]
    \cup [op : {"transaction"}, deploy : Deploys,
          id : [hash : BlockHashes, index : Nat]]
    \cup [op : {"balance"}, id : Ids, address : Addresses]

ASSUME ClientAssumption ==
  /\ Requests \subseteq AllRequests
  /\ NULL \notin AllRequests \cup PartialIds \cup BlockHashes
  /\ NULL \notin Urefs \cup DeployResponses

VARIABLES
  pc,         \* the RPC a call is at, or "idle" or "done"
  req,        \* its request
  block,      \* its block response
  transfers,  \* the block's transfers
  purse,      \* the proposer's main purse; in Balance, the purse to read
  todo,       \* the deploys it has yet to build a transaction of
  deploy,     \* the deploy response it looks at
  txs,        \* what the transactions it has built are made of
  answer      \* what it returned

local == <<req, block, transfers, purse, todo, deploy, txs, answer>>
vars == <<chain, pc, local>>

\* The zero CasperSDK.BlockResponse.
NoBlock == [hash |-> NULL, height |-> 0, parentHash |-> NULL,
            stateRoot |-> NULL, proposer |-> NULL, deployHashes |-> {}]

Init ==
  /\ NodeInit
  /\ pc = [c \in Calls |-> "idle"]
  /\ req = [c \in Calls |-> NULL]
  /\ block = [c \in Calls |-> NoBlock]
  /\ transfers = [c \in Calls |-> <<>>]
  /\ purse = [c \in Calls |-> NULL]
  /\ todo = [c \in Calls |-> {}]
  /\ deploy = [c \in Calls |-> NULL]
  /\ txs = [c \in Calls |-> <<>>]
  /\ answer = [c \in Calls |-> NULL]

Goto(c, step) == pc' = [pc EXCEPT ![c] = step]
Return(c, a) == Goto(c, "done") /\ answer' = [answer EXCEPT ![c] = a]
Error(why) == [kind |-> "error", why |-> why]

------------------------------------------------------------------------------
(***************************************************************************)
(* Which block: the latest if the identifier is nil; else the block of its *)
(* hash, overwritten by that of its index if there is one.                 *)
(***************************************************************************)

\* Mutant: a nil identifier is not looked for.
FirstStep_noNil(r) ==
  IF r.op = "status" THEN "latest"
  ELSE IF r.op = "transaction" THEN "place"
  ELSE IF r.id # NULL /\ r.id.hash = NULL THEN "index" ELSE "hash"

\* Where a handler starts, and where it goes once it has its block.
FirstStep(r) ==
  IF r.op = "status" THEN "latest"
  ELSE IF r.op = "transaction" THEN "place"
  ELSE IF r.id = NULL THEN "latest"
  ELSE IF r.id.hash # NULL THEN "hash"
  ELSE IF r.id.index # NULL THEN "index"
  ELSE IF r.op = "block" THEN "proposer" ELSE "purse"

Ask(c, r) ==
  /\ pc[c] = "idle"
  /\ req' = [req EXCEPT ![c] = r]
  /\ Goto(c, FirstStep(r))
  /\ UNCHANGED <<chain, block, transfers, purse, todo, deploy, txs, answer>>

GetLatestBlock(c) ==
  /\ pc[c] = "latest"
  /\ block' = [block EXCEPT ![c] = BlockResponse(Tip)]
  /\ Goto(c, IF req[c].op = "status" THEN "peers"
             ELSE IF req[c].op = "block" THEN "latest transfers" ELSE "purse")
  /\ UNCHANGED <<chain, req, transfers, purse, todo, deploy, txs, answer>>

GetLatestBlockTransfers(c) ==
  /\ pc[c] = "latest transfers"
  /\ transfers' = [transfers EXCEPT ![c] = At(Tip).transfers]
  /\ Goto(c, "proposer")
  /\ UNCHANGED <<chain, req, block, purse, todo, deploy, txs, answer>>

\* Mutant: the hash is enough, an index beside it is not looked at.
GetBlockByHash_final(c) ==
  /\ pc[c] = "hash"
  /\ \E h \in ByHash(req[c].id.hash) : block' = [block EXCEPT ![c] = BlockResponse(h)]
  /\ Goto(c, IF req[c].op = "block" THEN "hash transfers" ELSE "purse")
  /\ UNCHANGED <<chain, req, transfers, purse, todo, deploy, txs, answer>>

GetBlockByHash(c) ==
  /\ pc[c] = "hash"
  /\ \E h \in ByHash(req[c].id.hash) : block' = [block EXCEPT ![c] = BlockResponse(h)]
  /\ Goto(c, IF req[c].op = "block" THEN "hash transfers"
             ELSE IF req[c].id.index # NULL THEN "index" ELSE "purse")
  /\ UNCHANGED <<chain, req, transfers, purse, todo, deploy, txs, answer>>

GetBlockTransfersByHash(c) ==
  /\ pc[c] = "hash transfers"
  /\ \E h \in ByHash(req[c].id.hash) :
       transfers' = [transfers EXCEPT ![c] = At(h).transfers]
  /\ Goto(c, IF req[c].op = "block" /\ req[c].id.index # NULL
             THEN "index" ELSE "proposer")
  /\ UNCHANGED <<chain, req, block, purse, todo, deploy, txs, answer>>

\* Mutant: the state is the latest, not the block's.
GetBlockByHeight_latest(c) ==
  /\ pc[c] = "index"
  /\ \E h \in ByHeight(req[c].id.index) :
       block' = [block EXCEPT ![c] = [BlockResponse(h) EXCEPT !.stateRoot = StateRoot(Tip)]]
  /\ Goto(c, IF req[c].op = "block" THEN "index transfers" ELSE "purse")
  /\ UNCHANGED <<chain, req, transfers, purse, todo, deploy, txs, answer>>

GetBlockByHeight(c) ==
  /\ pc[c] = "index"
  /\ \E h \in ByHeight(req[c].id.index) : block' = [block EXCEPT ![c] = BlockResponse(h)]
  /\ Goto(c, IF req[c].op = "block" THEN "index transfers" ELSE "purse")
  /\ UNCHANGED <<chain, req, transfers, purse, todo, deploy, txs, answer>>

GetBlockTransfersByHeight(c) ==
  /\ pc[c] = "index transfers"
  /\ \E h \in ByHeight(req[c].id.index) :
       transfers' = [transfers EXCEPT ![c] = At(h).transfers]
  /\ Goto(c, "proposer")
  /\ UNCHANGED <<chain, req, block, purse, todo, deploy, txs, answer>>

\* BlockTransaction: the block is the one the deploy was executed in ...
GetDeployToPlace(c) ==
  /\ pc[c] = "place"
  /\ \E d \in DeployReplies(req[c].deploy) : deploy' = [deploy EXCEPT ![c] = d]
  /\ Goto(c, "place block")
  /\ UNCHANGED <<chain, req, block, transfers, purse, todo, txs, answer>>

\* Mutant: the block is the one it was asked about.
GetBlockResponse_asked(c) ==
  /\ pc[c] = "place block"
  /\ \E h \in ByHash(req[c].id.hash) : block' = [block EXCEPT ![c] = BlockResponse(h)]
  /\ Goto(c, "hash transfers")
  /\ UNCHANGED <<chain, req, transfers, purse, todo, deploy, txs, answer>>

\* ... but the transfers, read next, are those of the block it was asked about.
GetBlockResponse(c) ==
  /\ pc[c] = "place block"
  /\ \E h \in ByHash(deploy[c].blockHash) : block' = [block EXCEPT ![c] = BlockResponse(h)]
  /\ Goto(c, "hash transfers")
  /\ UNCHANGED <<chain, req, transfers, purse, todo, deploy, txs, answer>>

\* Status: the peers say nothing of the chain.
GetPeers(c) ==
  /\ pc[c] = "peers"
  /\ Return(c, [kind |-> "status", hash |-> block[c].hash, height |-> block[c].height])
  /\ UNCHANGED <<chain, req, block, transfers, purse, todo, deploy, txs>>

------------------------------------------------------------------------------
(***************************************************************************)
(* Transactions.  Block ranges over the map deployToTransferMap, in no     *)
(* particular order.                                                       *)
(***************************************************************************)

\* Mutant: body.DeployHashes alone.
Mapped_hashes(c) == block[c].deployHashes

\* The keys of deployToTransferMap: deploys with transfers, and deploy hashes.
Mapped(c) ==
  {transfers[c][i].deploy : i \in DOMAIN transfers[c]} \cup block[c].deployHashes

\* The loop that keeps the transfers of one deploy, in their order.
Keep(d, kept, tx) == IF tx.deploy = d THEN Append(kept, tx) ELSE kept
OfDeploy(c, d) == FoldLeft(LAMBDA kept, tx : Keep(d, kept, tx), <<>>, transfers[c])

\* Mutant: the loop variable's address, in BlockTransaction too.
TransfersOf_aliased(c, d) ==
  [i \in 1 .. Len(OfDeploy(c, d)) |-> transfers[c][Len(transfers[c])]]

\* Mutant: BlockTransaction hands over the transfers of every deploy.
TransfersOf_unfiltered(c, d) ==
  IF req[c].op = "block"
  THEN [i \in 1 .. Len(OfDeploy(c, d)) |-> transfers[c][Len(transfers[c])]]
  ELSE transfers[c]

(***************************************************************************)
(* Block appends &trs, the address of the loop's one variable (the module  *)
(* says go 1.15): when the map is read, each entry is the last transfer of *)
(* the block.  BlockTransaction takes the addresses of the elements.       *)
(***************************************************************************)
TransfersOf(c, d) ==
  IF req[c].op = "block"
  THEN [i \in 1 .. Len(OfDeploy(c, d)) |-> transfers[c][Len(transfers[c])]]
  ELSE OfDeploy(c, d)

\* Mutant: genesis has a parent.
ParentOf_genesis(b) == [hash |-> b.parentHash, height |-> b.height - 1]

ParentOf(b) ==
  IF b.height = 0 THEN [hash |-> b.hash, height |-> b.height]
                  ELSE [hash |-> b.parentHash, height |-> b.height - 1]

BlockAnswer(b, transactions) ==
  [kind |-> "block", hash |-> b.hash, height |-> b.height,
   parent |-> ParentOf(b), txs |-> transactions]

\* What CreateRosTransaction returns for a deploy and its signer's purse.
Transaction(c, tx) ==
  [deploy |-> tx.deploy.hash,
   ops |-> Operations(tx.deploy, TransfersOf(c, tx.deploy.hash), tx.signer, purse[c])]

\* After the last RPC the transactions are returned: all of them, or the one.
ReturnTransactions(c, made) ==
  Return(c, IF req[c].op = "block"
            THEN BlockAnswer(block[c], [i \in DOMAIN made |-> Transaction(c, made[i])])
            ELSE [kind |-> "transaction", tx |-> Transaction(c, made[1])])

GetProposerPurse(c) ==
  LET deploys == IF req[c].op = "block" THEN Mapped(c) ELSE {deploy[c].hash}
  IN  /\ pc[c] = "proposer"
      /\ \E p \in MainPurseAt(block[c].proposer, block[c].stateRoot) :
           purse' = [purse EXCEPT ![c] = p]
      /\ todo' = [todo EXCEPT ![c] = deploys]
      /\ IF deploys = {} THEN ReturnTransactions(c, <<>>)
                         ELSE Goto(c, "deploy") /\ UNCHANGED answer
      /\ UNCHANGED <<chain, req, block, transfers, deploy, txs>>

\* CreateRosTransaction: the deploy, then its signer's purse at the block.
GetDeploy(c) ==
  /\ pc[c] = "deploy"
  /\ \E d \in todo[c] :
       /\ \E r \in DeployReplies(d) : deploy' = [deploy EXCEPT ![c] = r]
       /\ todo' = [todo EXCEPT ![c] = todo[c] \ {d}]
  /\ Goto(c, "signer")
  /\ UNCHANGED <<chain, req, block, transfers, purse, txs, answer>>

GetSignerPurse(c) ==
  /\ pc[c] = "signer"
  /\ deploy[c].readable
  /\ \E p \in MainPurseAt(deploy[c].account, block[c].stateRoot) :
       txs' = [txs EXCEPT ![c] = Append(txs[c], [deploy |-> deploy[c], signer |-> p])]
  /\ IF todo[c] = {} THEN ReturnTransactions(c, txs'[c])
                     ELSE Goto(c, "deploy") /\ UNCHANGED answer
  /\ UNCHANGED <<chain, req, block, transfers, purse, todo, deploy>>

------------------------------------------------------------------------------
(***************************************************************************)
(* Balance.                                                                *)
(***************************************************************************)
NamesAccount(address) == address.form \in {"account-hash", "key"}

GetAccountPurse(c) ==
  /\ pc[c] = "purse"
  /\ NamesAccount(req[c].address)
  /\ \E p \in MainPurseAt(req[c].address.of, block[c].stateRoot) :
       purse' = [purse EXCEPT ![c] = p]
  /\ Goto(c, "balance")
  /\ UNCHANGED <<chain, req, block, transfers, todo, deploy, txs, answer>>

\* Mutant: the uref is taken as it comes.
TakeUref_bare(c) ==
  /\ pc[c] = "purse"
  /\ req[c].address.form = "uref"
  /\ purse' = [purse EXCEPT ![c] = req[c].address.of]
  /\ Goto(c, "balance")
  /\ UNCHANGED <<chain, req, block, transfers, todo, deploy, txs, answer>>

\* A uref without access rights gets the first ones.
TakeUref(c) ==
  /\ pc[c] = "purse"
  /\ req[c].address.form = "uref"
  /\ purse' = [purse EXCEPT ![c] =
       IF req[c].address.of.rights = ""
       THEN [req[c].address.of EXCEPT !.rights = "001"] ELSE req[c].address.of]
  /\ Goto(c, "balance")
  /\ UNCHANGED <<chain, req, block, transfers, todo, deploy, txs, answer>>

\* Mutant: the balance is not asked for at the block.
GetAccountBalance_latest(c) ==
  /\ pc[c] = "balance"
  /\ \E n \in BalanceAt(StateRoot(Tip), purse[c].purse) :
       Return(c, [kind |-> "balance", hash |-> block[c].hash,
                  height |-> block[c].height, amount |-> n])
  /\ UNCHANGED <<chain, req, block, transfers, purse, todo, deploy, txs>>

GetAccountBalance(c) ==
  /\ pc[c] = "balance"
  /\ \E n \in BalanceAt(block[c].stateRoot, purse[c].purse) :
       Return(c, [kind |-> "balance", hash |-> block[c].hash,
                  height |-> block[c].height, amount |-> n])
  /\ UNCHANGED <<chain, req, block, transfers, purse, todo, deploy, txs>>

------------------------------------------------------------------------------
(***************************************************************************)
(* Errors.  Each RPC may fail on its way, and the node rejects what it     *)
(* does not have; both end the call.  GetMainPurseFromPublicKey slices the *)
(* empty proposer of a zero block, and Balance an address too short.       *)
(***************************************************************************)
Panics(c) ==
  \/ pc[c] = "proposer" /\ block[c].proposer = NULL
  \/ pc[c] = "purse" /\ req[c].address.form = "short"

RpcPending(c) ==
  /\ pc[c] \notin {"idle", "done"}
  /\ pc[c] = "purse" => NamesAccount(req[c].address)
  /\ ~ Panics(c)

Rejects(c) ==
  \/ pc[c] \in {"hash", "hash transfers"} /\ ByHash(req[c].id.hash) = {}
  \/ pc[c] \in {"index", "index transfers"} /\ ByHeight(req[c].id.index) = {}
  \/ pc[c] = "place" /\ DeployReplies(req[c].deploy) = {}
  \/ pc[c] = "place block" /\ ByHash(deploy[c].blockHash) = {}
  \/ /\ pc[c] = "proposer" /\ ~ Panics(c)
     /\ MainPurseAt(block[c].proposer, block[c].stateRoot) = {}
  \/ pc[c] = "deploy" /\ \E d \in todo[c] : DeployReplies(d) = {}
  \/ /\ pc[c] = "signer"
     /\ deploy[c].readable => MainPurseAt(deploy[c].account, block[c].stateRoot) = {}
  \/ /\ pc[c] = "purse" /\ NamesAccount(req[c].address)
     /\ MainPurseAt(req[c].address.of, block[c].stateRoot) = {}
  \/ pc[c] = "purse" /\ req[c].address.form = "invalid"
  \/ pc[c] = "balance" /\ BalanceAt(block[c].stateRoot, purse[c].purse) = {}

Reject(c) ==
  /\ Rejects(c)
  /\ Return(c, Error("rejected"))
  /\ UNCHANGED <<chain, req, block, transfers, purse, todo, deploy, txs>>

\* Mutant: a call starts over when an RPC fails.
RpcFails_retries(c) ==
  /\ RpcPending(c)
  /\ Goto(c, FirstStep(req[c]))
  /\ txs' = [txs EXCEPT ![c] = <<>>]
  /\ UNCHANGED <<chain, req, block, transfers, purse, todo, deploy, answer>>

RpcFails(c) ==
  /\ RpcPending(c)
  /\ Return(c, Error("transport"))
  /\ UNCHANGED <<chain, req, block, transfers, purse, todo, deploy, txs>>

Panic(c) ==
  /\ Panics(c)
  /\ Return(c, [kind |-> "panic"])
  /\ UNCHANGED <<chain, req, block, transfers, purse, todo, deploy, txs>>

------------------------------------------------------------------------------
Step(c) ==
  \/ GetLatestBlock(c) \/ GetLatestBlockTransfers(c)
  \/ GetBlockByHash(c) \/ GetBlockTransfersByHash(c)
  \/ GetBlockByHeight(c) \/ GetBlockTransfersByHeight(c)
  \/ GetDeployToPlace(c) \/ GetBlockResponse(c)
  \/ GetProposerPurse(c) \/ GetDeploy(c) \/ GetSignerPurse(c)
  \/ GetPeers(c) \/ GetAccountPurse(c) \/ TakeUref(c) \/ GetAccountBalance(c)
  \/ Reject(c) \/ RpcFails(c) \/ Panic(c)

Grow == ProduceBlock /\ UNCHANGED <<pc, local>>

Next ==
  \/ Grow
  \/ \E c \in Calls : Step(c) \/ \E r \in Requests : Ask(c, r)

\* What runs on, and what may never end, is said in module Process.
Spec == Init /\ [][Next]_vars
=============================================================================
