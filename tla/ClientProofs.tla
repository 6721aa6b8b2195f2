---------------------------- MODULE ClientProofs ----------------------------
(***************************************************************************)
(* Proofs about CasperClient, for every node, every set of requests and    *)
(* any number of concurrent calls.                                         *)
(***************************************************************************)
EXTENDS ClientProps, TLAPS

USE DEF Return, Error, Goto

------------------------------------------------------------------------------
(***************************************************************************)
(* What the node replies.                                                  *)
(***************************************************************************)

\* The chain only grows: what it says of a block it never takes back.
LEMMA GrowKeeps ==
  ASSUME chain \in Seq(Block), chain # <<>>, ProduceBlock
  PROVE  /\ chain' \in Seq(Block) /\ chain' # <<>>
         /\ \A h \in Heights : h \in Heights' /\ chain'[h + 1] = chain[h + 1]
<1>1. PICK b \in Block : chain' = Append(chain, b)
  BY DEF ProduceBlock
<1>2. /\ chain' \in Seq(Block) /\ Len(chain') = Len(chain) + 1
      /\ \A i \in 1 .. Len(chain) : chain'[i] = chain[i]
  BY <1>1
<1> QED
  BY <1>2 DEF Heights

\* A height of the chain has a block, and the tip is one.
LEMMA BlockAtHeight ==
  ASSUME chain \in Seq(Block), chain # <<>>
  PROVE  /\ Heights \subseteq Nat /\ Tip \in Heights
         /\ \A h \in Heights : At(h) \in Block
<1>1. Len(chain) \in Nat /\ Len(chain) > 0
  OBVIOUS
<1> QED
  BY <1>1 DEF Heights, Tip, At

\* GetBlock's reply is a block response, and not the zero one.
LEMMA BlockReply ==
  ASSUME chain \in Seq(Block), chain # <<>>, NEW h \in Heights
  PROVE  /\ BlockResponse(h) \in BlockResponses /\ BlockResponse(h) # NoBlock
         /\ BlockResponse(h).height = h /\ BlockResponse(h).hash = BlockHash(h)
         /\ BlockResponse(h).stateRoot = StateRoot(h)
<1>1. h \in Nat /\ At(h) \in Block
  BY BlockAtHeight
<1>2. At(h).proposer \in Keys /\ DeployHashes(At(h)) \subseteq Deploys
  <2>1. Ran(At(h)) \subseteq Execution
    BY <1>1 DEF Ran, Block
  <2> QED
    BY <1>1, <2>1 DEF DeployHashes, Execution, Block
<1>3. At(h).proposer # NULL
  BY <1>2, NodeAssumption
<1> QED
  BY <1>1, <1>2, <1>3 DEF BlockResponse, Reply, BlockResponses, BlockHash, BlockHashes,
     StateRoot, NoBlock

\* GetDeploy's replies are deploy responses.
LEMMA DeployReplyType ==
  ASSUME chain \in Seq(Block), chain # <<>>, NEW d, NEW r \in DeployReplies(d)
  PROVE  r \in DeployResponses /\ r # NULL /\ r.hash = d
<1>1. PICK e \in Execution, h \in Heights :
        r = DeployReply(e, h) /\ e \in Ran(At(h)) /\ e.deploy = d
  BY DEF DeployReplies
<1>2. h \in Nat
  BY BlockAtHeight
<1>3. DeployOf[e.deploy].account \in Accounts /\ DeployOf[e.deploy].payment \in Amounts
      /\ DeployOf[e.deploy].readable \in BOOLEAN /\ DeployOf[e.deploy].cost \in Amounts
  BY <1>1, NodeAssumption DEF Execution
<1> QED
  BY <1>1, <1>2, <1>3, ClientAssumption
     DEF DeployReply, DeployResponses, Execution, BlockHash, BlockHashes

\* GetStateItem's replies are urefs of main purses.
LEMMA MainPurseReply ==
  ASSUME NEW key, NEW root, NEW p \in MainPurseAt(key, root)
  PROVE  p \in Urefs /\ p # NULL /\ key \in Accounts /\ p.purse = MainPurse[key]
BY NodeAssumption, ClientAssumption DEF MainPurseAt, Uref, Urefs

\* GetAccountBalance under the root of a block reads that block's balances.
LEMMA BalanceReply ==
  ASSUME chain \in Seq(Block), chain # <<>>, NEW h \in Heights, NEW p,
         NEW n \in BalanceAt(StateRoot(h), p)
  PROVE  n = At(h).balance[p] /\ At(h).balance[p] # NULL
<1>1. PICK g \in Heights : /\ StateRoot(g) = StateRoot(h)
                           /\ n = At(g).balance[p] /\ At(g).balance[p] # NULL
  BY DEF BalanceAt
<1>2. g = h
  BY <1>1 DEF StateRoot
<1> QED
  BY <1>1, <1>2

\* There is nothing under the zero state root.
LEMMA NothingUnderNull ==
  ASSUME chain \in Seq(Block), chain # <<>>, NEW p
  PROVE  BalanceAt(NULL, p) = {}
<1>1. \A g \in Heights : StateRoot(g) # NULL
  BY BlockAtHeight, NodeAssumption DEF StateRoot
<1> QED
  BY <1>1 DEF BalanceAt

------------------------------------------------------------------------------
(***************************************************************************)
(* Type correctness.                                                       *)
(***************************************************************************)
LEMMA TypeInit == Init => TypeOK
<1> SUFFICES ASSUME Init PROVE TypeOK
  OBVIOUS
<1>1. chain \in Seq(Block) /\ chain # <<>>
  <2>1. PICK k \in Keys :
          chain = <<[proposer |-> k, executions |-> <<>>, transfers |-> <<>>,
                     balance |-> GenesisBalance]>>
    BY DEF Init, NodeInit
  <2> QED
    BY <2>1, NodeAssumption DEF Block
<1>2. DOMAIN answer = Calls
  BY DEF Init
<1> QED
  BY <1>1, <1>2 DEF Init, TypeOK, Steps

\* A request and what it names are typed.
LEMMA RequestType ==
  ASSUME NEW r \in Requests
  PROVE  /\ r # NULL
         /\ r.op = "transaction" => r.deploy \in Deploys
         /\ r.op = "balance" => r.address \in Addresses
         /\ FirstStep(r) \in Steps
BY ClientAssumption DEF AllRequests, FirstStep, Steps

\* The uref Balance takes from an address has access rights and names its purse.
LEMMA UrefTaken ==
  ASSUME TypeOK, ControlInv, NEW c \in Calls, TakeUref(c)
  PROVE  /\ purse'[c] \in Urefs /\ purse'[c] # NULL
         /\ purse'[c].purse = req[c].address.of.purse
<1>1. req[c].address \in Addresses /\ req[c].address.form = "uref"
  BY RequestType DEF TakeUref, ControlInv, ControlAt, Serves
<1>2. req[c].address.of \in [purse : Purses, rights : {"", "001", "007"}]
  BY <1>1 DEF Addresses
<1>3. purse'[c] \in Urefs /\ purse'[c].purse = req[c].address.of.purse
  BY <1>2 DEF TakeUref, Urefs, TypeOK
<1> QED
  BY <1>3, ClientAssumption

\* Every step keeps the types, one action at a time.
LEMMA TypeStep ==
  ASSUME TypeOK, ControlInv, [Next]_vars
  PROVE  TypeOK'
<1>1. CASE Grow
  BY <1>1, GrowKeeps DEF Grow, local, TypeOK
<1>2. ASSUME NEW c \in Calls, NEW r \in Requests, Ask(c, r)
      PROVE  TypeOK'
  BY <1>2, RequestType DEF Ask, TypeOK
<1>3. ASSUME NEW c \in Calls, GetLatestBlock(c)
      PROVE  TypeOK'
  BY <1>3, BlockAtHeight, BlockReply DEF GetLatestBlock, TypeOK, Steps
<1>4. ASSUME NEW c \in Calls, GetLatestBlockTransfers(c)
      PROVE  TypeOK'
  BY <1>4, BlockAtHeight DEF GetLatestBlockTransfers, TypeOK, Steps, Block
<1>5. ASSUME NEW c \in Calls, GetBlockByHash(c)
      PROVE  TypeOK'
  <2>1. PICK h \in ByHash(req[c].id.hash) : block' = [block EXCEPT ![c] = BlockResponse(h)]
    BY <1>5 DEF GetBlockByHash
  <2>2. BlockResponse(h) \in BlockResponses
    BY BlockReply DEF ByHash, TypeOK
  <2>3. pc' \in [Calls -> Steps]
    BY <1>5 DEF GetBlockByHash, TypeOK, Steps
  <2> QED
    BY <1>5, <2>1, <2>2, <2>3 DEF GetBlockByHash, TypeOK
<1>6. ASSUME NEW c \in Calls, GetBlockTransfersByHash(c)
      PROVE  TypeOK'
  BY <1>6, BlockAtHeight DEF GetBlockTransfersByHash, ByHash, TypeOK, Steps, Block
<1>7. ASSUME NEW c \in Calls, GetBlockByHeight(c)
      PROVE  TypeOK'
  <2>1. PICK h \in ByHeight(req[c].id.index) : block' = [block EXCEPT ![c] = BlockResponse(h)]
    BY <1>7 DEF GetBlockByHeight
  <2>2. BlockResponse(h) \in BlockResponses
    BY BlockReply DEF ByHeight, TypeOK
  <2>3. pc' \in [Calls -> Steps]
    BY <1>7 DEF GetBlockByHeight, TypeOK, Steps
  <2> QED
    BY <1>7, <2>1, <2>2, <2>3 DEF GetBlockByHeight, TypeOK
<1>8. ASSUME NEW c \in Calls, GetBlockTransfersByHeight(c)
      PROVE  TypeOK'
  BY <1>8, BlockAtHeight DEF GetBlockTransfersByHeight, ByHeight, TypeOK, Steps, Block
<1>9. ASSUME NEW c \in Calls, GetDeployToPlace(c)
      PROVE  TypeOK'
  <2>1. PICK d \in DeployReplies(req[c].deploy) : deploy' = [deploy EXCEPT ![c] = d]
    BY <1>9 DEF GetDeployToPlace
  <2>2. d \in DeployResponses
    BY DeployReplyType DEF TypeOK
  <2> QED
    BY <1>9, <2>1, <2>2 DEF GetDeployToPlace, TypeOK, Steps
<1>10. ASSUME NEW c \in Calls, GetBlockResponse(c)
       PROVE  TypeOK'
  <2>1. PICK h \in ByHash(deploy[c].blockHash) : block' = [block EXCEPT ![c] = BlockResponse(h)]
    BY <1>10 DEF GetBlockResponse
  <2>2. BlockResponse(h) \in BlockResponses
    BY BlockReply DEF ByHash, TypeOK
  <2>3. pc' \in [Calls -> Steps]
    BY <1>10 DEF GetBlockResponse, TypeOK, Steps
  <2> QED
    BY <1>10, <2>1, <2>2, <2>3 DEF GetBlockResponse, TypeOK
<1>11. ASSUME NEW c \in Calls, GetProposerPurse(c)
       PROVE  TypeOK'
  <2>1. (IF req[c].op = "block" THEN Mapped(c) ELSE {deploy[c].hash}) \subseteq Deploys
    <3>1. Mapped(c) \subseteq Deploys
      <4>1. transfers[c] \in Seq(Transfer) /\ block[c] \in BlockResponses \cup {NoBlock}
        BY DEF TypeOK
      <4>2. \A i \in DOMAIN transfers[c] : transfers[c][i].deploy \in Deploys
        <5>1. \A i \in DOMAIN transfers[c] : transfers[c][i] \in Transfer
          BY <4>1
        <5> QED
          BY <5>1 DEF Transfer
      <4>3. block[c].deployHashes \subseteq Deploys
        BY <4>1 DEF BlockResponses, NoBlock
      <4> QED
        BY <4>2, <4>3 DEF Mapped
    <3>2. req[c].op # "block" => deploy[c] \in DeployResponses
      BY <1>11 DEF GetProposerPurse, ControlInv, ControlAt, Serves, TypeOK
    <3> QED
      BY <3>1, <3>2 DEF DeployResponses
  <2>2. pc' \in [Calls -> Steps] /\ DOMAIN answer' = Calls
    <3>1. \/ ReturnTransactions(c, <<>>)
          \/ pc' = [pc EXCEPT ![c] = "deploy"] /\ answer' = answer
      BY <1>11 DEF GetProposerPurse
    <3>2. CASE ReturnTransactions(c, <<>>)
      BY <3>2 DEF ReturnTransactions, TypeOK, Steps
    <3> QED
      BY <3>1, <3>2 DEF TypeOK, Steps
  <2>3. PICK p \in Urefs : purse' = [purse EXCEPT ![c] = p]
    BY <1>11, MainPurseReply DEF GetProposerPurse
  <2> QED
    BY <1>11, <2>1, <2>2, <2>3 DEF GetProposerPurse, TypeOK
<1>12. ASSUME NEW c \in Calls, GetDeploy(c)
       PROVE  TypeOK'
  <2>1. PICK d \in todo[c] : /\ \E r \in DeployReplies(d) : deploy' = [deploy EXCEPT ![c] = r]
                            /\ todo' = [todo EXCEPT ![c] = todo[c] \ {d}]
    BY <1>12 DEF GetDeploy
  <2>2. PICK r \in DeployReplies(d) : deploy' = [deploy EXCEPT ![c] = r]
    BY <2>1
  <2>3. r \in DeployResponses
    BY DeployReplyType DEF TypeOK
  <2> QED
    BY <1>12, <2>1, <2>2, <2>3 DEF GetDeploy, TypeOK, Steps
<1>13. ASSUME NEW c \in Calls, GetSignerPurse(c)
       PROVE  TypeOK'
  <2>1. deploy[c] \in DeployResponses
    BY <1>13 DEF GetSignerPurse, ControlInv, ControlAt, TypeOK
  <2>2. txs' \in [Calls -> Seq([deploy : DeployResponses, signer : Urefs])]
    <3>1. PICK p \in Urefs :
            txs' = [txs EXCEPT ![c] = Append(txs[c], [deploy |-> deploy[c], signer |-> p])]
      BY <1>13, MainPurseReply DEF GetSignerPurse
    <3>2. [deploy |-> deploy[c], signer |-> p] \in [deploy : DeployResponses, signer : Urefs]
      BY <2>1
    <3>3. txs[c] \in Seq([deploy : DeployResponses, signer : Urefs])
      BY DEF TypeOK
    <3>4. Append(txs[c], [deploy |-> deploy[c], signer |-> p])
            \in Seq([deploy : DeployResponses, signer : Urefs])
      BY <3>2, <3>3
    <3> QED
      BY <3>1, <3>4 DEF TypeOK
  <2>3. pc' \in [Calls -> Steps] /\ DOMAIN answer' = Calls
    <3>1. \/ ReturnTransactions(c, txs'[c])
          \/ pc' = [pc EXCEPT ![c] = "deploy"] /\ answer' = answer
      BY <1>13 DEF GetSignerPurse
    <3>2. CASE ReturnTransactions(c, txs'[c])
      BY <3>2 DEF ReturnTransactions, TypeOK, Steps
    <3> QED
      BY <3>1, <3>2 DEF TypeOK, Steps
  <2> QED
    BY <1>13, <2>2, <2>3 DEF GetSignerPurse, TypeOK
<1>14. ASSUME NEW c \in Calls, GetPeers(c)
       PROVE  TypeOK'
  BY <1>14 DEF GetPeers, TypeOK, Steps
<1>15. ASSUME NEW c \in Calls, GetAccountPurse(c)
       PROVE  TypeOK'
  <2>1. PICK p \in Urefs : purse' = [purse EXCEPT ![c] = p]
    BY <1>15, MainPurseReply DEF GetAccountPurse
  <2> QED
    BY <1>15, <2>1 DEF GetAccountPurse, TypeOK, Steps
<1>16. ASSUME NEW c \in Calls, TakeUref(c)
       PROVE  TypeOK'
  BY <1>16, UrefTaken DEF TakeUref, TypeOK, Steps
<1>17. ASSUME NEW c \in Calls, GetAccountBalance(c)
       PROVE  TypeOK'
  BY <1>17 DEF GetAccountBalance, TypeOK, Steps
<1>18. ASSUME NEW c \in Calls, Reject(c) \/ RpcFails(c) \/ Panic(c)
       PROVE  TypeOK'
  BY <1>18 DEF Reject, RpcFails, Panic, TypeOK, Steps
<1>19. CASE UNCHANGED vars
  BY <1>19 DEF vars, local, TypeOK
<1> QED
  BY <1>1, <1>2, <1>3, <1>4, <1>5, <1>6, <1>7, <1>8, <1>9, <1>10, <1>11, <1>12,
     <1>13, <1>14, <1>15, <1>16, <1>17, <1>18, <1>19 DEF Next, Step

------------------------------------------------------------------------------
(***************************************************************************)
(* A call changes its own local variables and leaves the chain alone.      *)
(***************************************************************************)
Acts(c) == Step(c) \/ \E r \in Requests : Ask(c, r)

\* A step of one call touches no other's variables.
LEMMA OnlyItsOwn ==
  ASSUME TypeOK, NEW c \in Calls, Acts(c), NEW d \in Calls, d # c
  PROVE  /\ pc'[d] = pc[d] /\ req'[d] = req[d] /\ block'[d] = block[d]
         /\ purse'[d] = purse[d] /\ deploy'[d] = deploy[d] /\ answer'[d] = answer[d]
<1>1. CASE \E r \in Requests : Ask(c, r)
  BY <1>1 DEF Ask, TypeOK
<1>2. CASE GetLatestBlock(c)
  BY <1>2 DEF GetLatestBlock, TypeOK
<1>3. CASE GetLatestBlockTransfers(c)
  BY <1>3 DEF GetLatestBlockTransfers, TypeOK
<1>4. CASE GetBlockByHash(c)
  BY <1>4 DEF GetBlockByHash, TypeOK
<1>5. CASE GetBlockTransfersByHash(c)
  BY <1>5 DEF GetBlockTransfersByHash, TypeOK
<1>6. CASE GetBlockByHeight(c)
  BY <1>6 DEF GetBlockByHeight, TypeOK
<1>7. CASE GetBlockTransfersByHeight(c)
  BY <1>7 DEF GetBlockTransfersByHeight, TypeOK
<1>8. CASE GetDeployToPlace(c)
  BY <1>8 DEF GetDeployToPlace, TypeOK
<1>9. CASE GetBlockResponse(c)
  BY <1>9 DEF GetBlockResponse, TypeOK
<1>10. CASE GetProposerPurse(c)
  BY <1>10 DEF GetProposerPurse, TypeOK, ReturnTransactions
<1>11. CASE GetDeploy(c)
  BY <1>11 DEF GetDeploy, TypeOK
<1>12. CASE GetSignerPurse(c)
  BY <1>12 DEF GetSignerPurse, TypeOK, ReturnTransactions
<1>13. CASE GetPeers(c)
  BY <1>13 DEF GetPeers, TypeOK
<1>14. CASE GetAccountPurse(c)
  BY <1>14 DEF GetAccountPurse, TypeOK
<1>15. CASE TakeUref(c)
  BY <1>15 DEF TakeUref, TypeOK
<1>16. CASE GetAccountBalance(c)
  BY <1>16 DEF GetAccountBalance, TypeOK
<1>17. CASE Reject(c) \/ RpcFails(c) \/ Panic(c)
  BY <1>17 DEF Reject, RpcFails, Panic, TypeOK
<1> QED
  BY <1>1, <1>2, <1>3, <1>4, <1>5, <1>6, <1>7, <1>8, <1>9, <1>10, <1>11,
     <1>12, <1>13, <1>14, <1>15, <1>16, <1>17 DEF Acts, Step

\* Whatever a call does, the chain is as it was.
LEMMA ChainStays ==
  ASSUME NEW c \in Calls, Acts(c)
  PROVE  chain' = chain
BY DEF Acts, Step, Ask, GetLatestBlock, GetLatestBlockTransfers,
   GetBlockByHash, GetBlockTransfersByHash, GetBlockByHeight,
   GetBlockTransfersByHeight, GetDeployToPlace, GetBlockResponse,
   GetProposerPurse, GetDeploy, GetSignerPurse, GetPeers, GetAccountPurse,
   TakeUref, GetAccountBalance, Reject, RpcFails, Panic

------------------------------------------------------------------------------
(***************************************************************************)
(* Each step finds the request and the reads it relies on.                 *)
(***************************************************************************)
LEMMA RequestOp ==
  ASSUME NEW r \in Requests
  PROVE  /\ r.op \in {"status", "block", "transaction", "balance"}
         /\ r.op = "transaction" => r.id # NULL
<1>1. \A id \in [hash : BlockHashes, index : Nat] : id \in PartialIds
  BY DEF PartialIds
<1> QED
  BY <1>1, ClientAssumption DEF AllRequests

\* Before any call there is nothing to know.
LEMMA ControlInit == Init => ControlInv
BY DEF Init, ControlInv, ControlAt

\* A call's own step leads to where it knows what it needs.
LEMMA ControlOwn ==
  ASSUME TypeOK, ControlInv, NEW c \in Calls, Acts(c)
  PROVE  ControlAt(c)'
<1> USE DEF ControlAt, Serves
<1>1. ControlAt(c)
  BY DEF ControlInv
<1>2. CASE \E r \in Requests : Ask(c, r)
  <2>1. PICK r \in Requests : Ask(c, r)
    BY <1>2
  <2>2. pc'[c] = FirstStep(r) /\ req'[c] = r
    BY <2>1 DEF Ask, TypeOK
  <2>3. answer'[c] = NULL
    BY <1>1, <2>1 DEF Ask
  <2> QED
    BY <2>2, <2>3, RequestOp DEF FirstStep
<1>3. CASE GetLatestBlock(c)
  BY <1>1, <1>3, RequestOp DEF GetLatestBlock, TypeOK
<1>4. CASE GetLatestBlockTransfers(c)
  BY <1>1, <1>4, RequestOp DEF GetLatestBlockTransfers, TypeOK
<1>5. CASE GetBlockByHash(c)
  BY <1>1, <1>5, RequestOp DEF GetBlockByHash, TypeOK
<1>6. CASE GetBlockTransfersByHash(c)
  BY <1>1, <1>6, RequestOp DEF GetBlockTransfersByHash, TypeOK
<1>7. CASE GetBlockByHeight(c)
  BY <1>1, <1>7, RequestOp DEF GetBlockByHeight, TypeOK
<1>8. CASE GetBlockTransfersByHeight(c)
  BY <1>1, <1>8, RequestOp DEF GetBlockTransfersByHeight, TypeOK
<1>9. CASE GetDeployToPlace(c)
  <2>1. PICK r \in DeployReplies(req[c].deploy) : deploy' = [deploy EXCEPT ![c] = r]
    BY <1>9 DEF GetDeployToPlace
  <2>2. r # NULL
    BY DeployReplyType DEF TypeOK
  <2> QED
    BY <1>1, <1>9, <2>1, <2>2 DEF GetDeployToPlace, TypeOK
<1>10. CASE GetBlockResponse(c)
  BY <1>1, <1>10, RequestOp DEF GetBlockResponse, TypeOK
<1>11. CASE GetProposerPurse(c)
  <2>1. pc'[c] \in {"done", "deploy"}
    <3>1. \/ ReturnTransactions(c, <<>>)
          \/ pc' = [pc EXCEPT ![c] = "deploy"]
      BY <1>11 DEF GetProposerPurse
    <3> QED
      BY <3>1 DEF ReturnTransactions, TypeOK
  <2>2. req'[c] = req[c] /\ deploy'[c] = deploy[c] /\ purse'[c] # NULL
    BY <1>11, MainPurseReply DEF GetProposerPurse, TypeOK
  <2>3. answer'[c] # NULL => pc'[c] = "done"
    <3>1. \/ ReturnTransactions(c, <<>>)
          \/ answer' = answer
      BY <1>11 DEF GetProposerPurse
    <3>2. CASE ReturnTransactions(c, <<>>)
      BY <3>2 DEF ReturnTransactions, TypeOK
    <3> QED
      BY <1>1, <1>11, <3>1, <3>2 DEF GetProposerPurse
  <2> QED
    BY <1>1, <1>11, <2>1, <2>2, <2>3 DEF GetProposerPurse
<1>12. CASE GetDeploy(c)
  BY <1>1, <1>12, DeployReplyType, RequestOp DEF GetDeploy, TypeOK
<1>13. CASE GetSignerPurse(c)
  <2>1. pc'[c] \in {"done", "deploy"}
    <3>1. \/ ReturnTransactions(c, txs'[c])
          \/ pc' = [pc EXCEPT ![c] = "deploy"]
      BY <1>13 DEF GetSignerPurse
    <3> QED
      BY <3>1 DEF ReturnTransactions, TypeOK
  <2>2. req'[c] = req[c] /\ deploy'[c] = deploy[c] /\ purse'[c] = purse[c]
    BY <1>13 DEF GetSignerPurse, TypeOK
  <2>3. answer'[c] # NULL => pc'[c] = "done"
    <3>1. \/ ReturnTransactions(c, txs'[c])
          \/ answer' = answer
      BY <1>13 DEF GetSignerPurse
    <3>2. CASE ReturnTransactions(c, txs'[c])
      BY <3>2 DEF ReturnTransactions, TypeOK
    <3> QED
      BY <1>1, <1>13, <3>1, <3>2 DEF GetSignerPurse
  <2> QED
    BY <1>1, <1>13, <2>1, <2>2, <2>3 DEF GetSignerPurse
<1>14. CASE GetPeers(c)
  BY <1>1, <1>14, RequestOp DEF GetPeers, TypeOK
<1>15. CASE GetAccountPurse(c)
  BY <1>1, <1>15, MainPurseReply, RequestOp DEF GetAccountPurse, TypeOK
<1>16. CASE TakeUref(c)
  BY <1>1, <1>16, UrefTaken DEF TakeUref, TypeOK
<1>17. CASE GetAccountBalance(c)
  BY <1>1, <1>17, RequestOp DEF GetAccountBalance, TypeOK
<1>18. CASE Reject(c) \/ RpcFails(c) \/ Panic(c)
  BY <1>18 DEF Reject, RpcFails, Panic, TypeOK
<1> QED
  BY <1>2, <1>3, <1>4, <1>5, <1>6, <1>7, <1>8, <1>9, <1>10, <1>11, <1>12,
     <1>13, <1>14, <1>15, <1>16, <1>17, <1>18 DEF Acts, Step

\* Every step keeps what each call knows.
LEMMA ControlStep ==
  ASSUME TypeOK, ControlInv, [Next]_vars
  PROVE  ControlInv'
<1>1. CASE Grow \/ UNCHANGED vars
  BY <1>1 DEF Grow, vars, local, ControlInv, ControlAt, Serves
<1>2. ASSUME NEW c \in Calls, Acts(c)
      PROVE  ControlInv'
  <2>1. ControlAt(c)'
    BY <1>2, ControlOwn
  <2>2. ASSUME NEW d \in Calls, d # c
        PROVE  ControlAt(d)'
    BY <1>2, <2>2, OnlyItsOwn DEF ControlInv, ControlAt, Serves
  <2> QED
    BY <2>1, <2>2 DEF ControlInv
<1> QED
  BY <1>1, <1>2 DEF Next, Acts

------------------------------------------------------------------------------
(***************************************************************************)
(* What a call holds stays true of the chain.                              *)
(***************************************************************************)
LEMMA GrowKeepsReplies ==
  ASSUME chain \in Seq(Block), chain # <<>>, ProduceBlock, NEW h \in Heights
  PROVE  h \in Heights' /\ At(h)' = At(h) /\ BlockResponse(h)' = BlockResponse(h)
<1>1. h \in Heights' /\ chain'[h + 1] = chain[h + 1]
  BY GrowKeeps
<1> QED
  BY <1>1 DEF BlockResponse, At

\* Before any call nothing is held.
LEMMA SnapshotInit == Init => SnapshotInv
BY DEF Init, SnapshotInv, SnapshotAt

\* A block just read is one of the chain.
LEMMA JustRead ==
  ASSUME TypeOK, NEW c \in Calls, NEW h \in Heights, chain' = chain,
         block' = [block EXCEPT ![c] = BlockResponse(h)]
  PROVE  OnChain(c)'
<1>1. block'[c] = Reply(h, chain'[h + 1])
  BY DEF BlockResponse, At, TypeOK
<1>2. block'[c].height = h
  BY BlockReply DEF TypeOK
<1>3. h \in Heights'
  BY DEF Heights
<1> QED
  BY <1>1, <1>2, <1>3 DEF OnChain, BlockResponse, At

\* A block read earlier still is.
LEMMA StillOnChain ==
  ASSUME NEW c \in Calls, chain' = chain, block'[c] = block[c],
         block[c] # NoBlock => OnChain(c)
  PROVE  (block[c] # NoBlock => OnChain(c))'
BY DEF OnChain, Heights, BlockResponse, At, NoBlock

\* A call's own step holds only what the chain says.
LEMMA SnapshotOwn ==
  ASSUME TypeOK, ControlInv, SnapshotInv, NEW c \in Calls, Acts(c)
  PROVE  SnapshotAt(c)'
<1>1. chain' = chain
  BY ChainStays
<1>2. SnapshotAt(c)
  BY DEF SnapshotInv
<1>3. CASE \E r \in Requests : Ask(c, r)
  <2>1. PICK r \in Requests : Ask(c, r)
    BY <1>3
  <2>2. pc'[c] # "balance"
    BY <2>1 DEF Ask, FirstStep, TypeOK
  <2> QED
    BY <1>1, <1>2, <2>1, <2>2, StillOnChain DEF Ask, SnapshotAt
<1>4. CASE GetLatestBlock(c)
  <2>1. Tip \in Heights /\ block' = [block EXCEPT ![c] = BlockResponse(Tip)]
    BY <1>4, BlockAtHeight DEF GetLatestBlock, TypeOK
  <2>2. OnChain(c)'
    BY <1>1, <2>1, JustRead
  <2>3. pc'[c] # "balance"
    BY <1>4 DEF GetLatestBlock, TypeOK
  <2> QED
    BY <2>2, <2>3 DEF SnapshotAt
<1>5. CASE GetBlockByHash(c)
  <2>1. PICK h \in Heights : block' = [block EXCEPT ![c] = BlockResponse(h)]
    BY <1>5 DEF GetBlockByHash, ByHash
  <2>2. OnChain(c)'
    BY <1>1, <2>1, JustRead
  <2>3. pc'[c] # "balance"
    BY <1>5 DEF GetBlockByHash, TypeOK
  <2> QED
    BY <2>2, <2>3 DEF SnapshotAt
<1>6. CASE GetBlockByHeight(c)
  <2>1. PICK h \in Heights : block' = [block EXCEPT ![c] = BlockResponse(h)]
    BY <1>6 DEF GetBlockByHeight, ByHeight
  <2>2. OnChain(c)'
    BY <1>1, <2>1, JustRead
  <2>3. pc'[c] # "balance"
    BY <1>6 DEF GetBlockByHeight, TypeOK
  <2> QED
    BY <2>2, <2>3 DEF SnapshotAt
<1>7. CASE GetBlockResponse(c)
  <2>1. PICK h \in Heights : block' = [block EXCEPT ![c] = BlockResponse(h)]
    BY <1>7 DEF GetBlockResponse, ByHash
  <2>2. OnChain(c)'
    BY <1>1, <2>1, JustRead
  <2>3. pc'[c] # "balance"
    BY <1>7 DEF GetBlockResponse, TypeOK
  <2> QED
    BY <2>2, <2>3 DEF SnapshotAt
<1>8. CASE GetProposerPurse(c)
  <2>1. pc'[c] # "balance"
    <3>1. \/ ReturnTransactions(c, <<>>)
          \/ pc' = [pc EXCEPT ![c] = "deploy"]
      BY <1>8 DEF GetProposerPurse
    <3> QED
      BY <3>1 DEF ReturnTransactions, TypeOK
  <2> QED
    BY <1>1, <1>2, <1>8, <2>1, StillOnChain DEF GetProposerPurse, SnapshotAt
<1>9. CASE GetSignerPurse(c)
  <2>1. pc'[c] # "balance"
    <3>1. \/ ReturnTransactions(c, txs'[c])
          \/ pc' = [pc EXCEPT ![c] = "deploy"]
      BY <1>9 DEF GetSignerPurse
    <3> QED
      BY <3>1 DEF ReturnTransactions, TypeOK
  <2> QED
    BY <1>1, <1>2, <1>9, <2>1, StillOnChain DEF GetSignerPurse, SnapshotAt
<1>10. CASE GetAccountPurse(c)
  <2>1. PICK p \in MainPurseAt(req[c].address.of, block[c].stateRoot) :
          purse' = [purse EXCEPT ![c] = p]
    BY <1>10 DEF GetAccountPurse
  <2>2. p.purse = MainPurse[req[c].address.of]
    BY MainPurseReply
  <2>3. purse'[c].purse = PurseOf(req'[c].address)
    BY <1>10, <2>1, <2>2 DEF GetAccountPurse, NamesAccount, PurseOf, TypeOK
  <2> QED
    BY <1>1, <1>2, <1>10, <2>3, StillOnChain DEF GetAccountPurse, SnapshotAt, PurseOf
<1>11. CASE TakeUref(c)
  BY <1>1, <1>2, <1>11, UrefTaken, StillOnChain DEF TakeUref, SnapshotAt, PurseOf
<1>12. CASE GetLatestBlockTransfers(c)
  <2>1. pc'[c] # "balance" /\ block'[c] = block[c]
    BY <1>12 DEF GetLatestBlockTransfers, TypeOK
  <2> QED
    BY <1>1, <1>2, <2>1, StillOnChain DEF SnapshotAt
<1>13. CASE GetBlockTransfersByHash(c)
  <2>1. pc'[c] # "balance" /\ block'[c] = block[c]
    BY <1>13 DEF GetBlockTransfersByHash, TypeOK
  <2> QED
    BY <1>1, <1>2, <2>1, StillOnChain DEF SnapshotAt
<1>14. CASE GetBlockTransfersByHeight(c)
  <2>1. pc'[c] # "balance" /\ block'[c] = block[c]
    BY <1>14 DEF GetBlockTransfersByHeight, TypeOK
  <2> QED
    BY <1>1, <1>2, <2>1, StillOnChain DEF SnapshotAt
<1>15. CASE GetDeployToPlace(c)
  <2>1. pc'[c] # "balance" /\ block'[c] = block[c]
    BY <1>15 DEF GetDeployToPlace, TypeOK
  <2> QED
    BY <1>1, <1>2, <2>1, StillOnChain DEF SnapshotAt
<1>16. CASE GetDeploy(c)
  <2>1. pc'[c] # "balance" /\ block'[c] = block[c]
    BY <1>16 DEF GetDeploy, TypeOK
  <2> QED
    BY <1>1, <1>2, <2>1, StillOnChain DEF SnapshotAt
<1>17. CASE GetPeers(c)
  <2>1. pc'[c] # "balance" /\ block'[c] = block[c]
    BY <1>17 DEF GetPeers, TypeOK
  <2> QED
    BY <1>1, <1>2, <2>1, StillOnChain DEF SnapshotAt
<1>18. CASE GetAccountBalance(c)
  <2>1. pc'[c] # "balance" /\ block'[c] = block[c]
    BY <1>18 DEF GetAccountBalance, TypeOK
  <2> QED
    BY <1>1, <1>2, <2>1, StillOnChain DEF SnapshotAt
<1>19. CASE Reject(c) \/ RpcFails(c) \/ Panic(c)
  <2>1. pc'[c] # "balance" /\ block'[c] = block[c]
    BY <1>19 DEF Reject, RpcFails, Panic, TypeOK
  <2> QED
    BY <1>1, <1>2, <2>1, StillOnChain DEF SnapshotAt
<1> QED
  BY <1>3, <1>4, <1>5, <1>6, <1>7, <1>8, <1>9, <1>10, <1>11, <1>12, <1>13,
     <1>14, <1>15, <1>16, <1>17, <1>18, <1>19 DEF Acts, Step

\* Every step keeps what each call holds true of the chain.
LEMMA SnapshotStep ==
  ASSUME TypeOK, ControlInv, SnapshotInv, [Next]_vars
  PROVE  SnapshotInv'
<1>1. CASE Grow
  <2>1. ProduceBlock /\ block' = block /\ pc' = pc /\ purse' = purse /\ req' = req
    BY <1>1 DEF Grow, local
  <2>2. ASSUME NEW c \in Calls, OnChain(c)
        PROVE  OnChain(c)'
    BY <2>1, <2>2, GrowKeepsReplies, BlockAtHeight DEF OnChain, TypeOK
  <2> QED
    BY <2>1, <2>2 DEF SnapshotInv, SnapshotAt, PurseOf, NoBlock
<1>2. CASE UNCHANGED vars
  BY <1>2, StillOnChain DEF vars, local, SnapshotInv, SnapshotAt, PurseOf
<1>3. ASSUME NEW c \in Calls, Acts(c)
      PROVE  SnapshotInv'
  <2>1. SnapshotAt(c)'
    BY <1>3, SnapshotOwn
  <2>2. ASSUME NEW d \in Calls, d # c
        PROVE  SnapshotAt(d)'
    BY <1>3, <2>2, OnlyItsOwn, ChainStays, StillOnChain DEF SnapshotInv, SnapshotAt, PurseOf
  <2> QED
    BY <2>1, <2>2 DEF SnapshotInv
<1> QED
  BY <1>1, <1>2, <1>3 DEF Next, Acts

------------------------------------------------------------------------------
(***************************************************************************)
(* Balance answers for the block it names.                                 *)
(***************************************************************************)
LEMMA BalanceOwn ==
  ASSUME TypeOK, ControlInv, SnapshotInv, NEW c \in Calls, Acts(c), TrueBalance(c)
  PROVE  TrueBalance(c)'
<1>1. chain' = chain
  BY ChainStays
<1>2. CASE GetAccountBalance(c)
  <2>1. PICK n \in BalanceAt(block[c].stateRoot, purse[c].purse) :
          answer' = [answer EXCEPT ![c] = [kind |-> "balance", hash |-> block[c].hash,
                                           height |-> block[c].height, amount |-> n]]
    BY <1>2 DEF GetAccountBalance
  <2>2. block[c] # NoBlock
    BY <2>1, NothingUnderNull DEF NoBlock, TypeOK
  <2>3. block[c].height \in Heights /\ block[c] = BlockResponse(block[c].height)
    BY <2>2 DEF SnapshotInv, SnapshotAt, OnChain
  <2>4. /\ block[c].stateRoot = StateRoot(block[c].height)
        /\ block[c].hash = BlockHash(block[c].height)
    BY <2>3, BlockReply DEF TypeOK
  <2>5. purse[c].purse = PurseOf(req[c].address)
    BY <1>2 DEF GetAccountBalance, SnapshotInv, SnapshotAt
  <2>6. /\ n = At(block[c].height).balance[PurseOf(req[c].address)]
        /\ n # NULL
    BY <2>1, <2>3, <2>4, <2>5, BalanceReply DEF TypeOK
  <2>7. /\ answer'[c].height = block[c].height /\ answer'[c].hash = block[c].hash
        /\ answer'[c].amount = n /\ req'[c] = req[c]
    BY <1>2, <2>1 DEF GetAccountBalance, TypeOK
  <2>8. Heights' = Heights /\ At(block[c].height)' = chain[block'[c].height + 1]
    BY <1>1 DEF Heights, At
  <2> QED
    BY <1>1, <2>3, <2>4, <2>6, <2>7, <2>8 DEF TrueBalance, At
<1>3. CASE GetPeers(c) \/ Reject(c) \/ RpcFails(c) \/ Panic(c)
  <2>1. answer'[c].kind # "balance"
    BY <1>3 DEF GetPeers, Reject, RpcFails, Panic, TypeOK
  <2> QED
    BY <2>1 DEF TrueBalance, Succeeded
<1>4. CASE GetProposerPurse(c) \/ GetSignerPurse(c)
  <2>1. \/ ReturnTransactions(c, <<>>) \/ ReturnTransactions(c, txs'[c])
        \/ answer' = answer
    BY <1>4 DEF GetProposerPurse, GetSignerPurse
  <2>2. pc[c] # "done"
    BY <1>4 DEF GetProposerPurse, GetSignerPurse
  <2>3. answer'[c] = NULL \/ answer'[c].kind # "balance"
    <3>1. answer[c] = NULL
      BY <2>2 DEF ControlInv, ControlAt
    <3>2. CASE ReturnTransactions(c, <<>>)
      BY <3>2 DEF ReturnTransactions, BlockAnswer, TypeOK
    <3>3. CASE ReturnTransactions(c, txs'[c])
      BY <3>3 DEF ReturnTransactions, BlockAnswer, TypeOK
    <3> QED
      BY <2>1, <3>1, <3>2, <3>3
  <2> QED
    BY <2>3 DEF TrueBalance, Succeeded
<1>5. CASE \E r \in Requests : Ask(c, r)
  BY <1>5 DEF Ask, ControlInv, ControlAt, TrueBalance, Succeeded
<1>6. CASE \/ GetLatestBlock(c) \/ GetLatestBlockTransfers(c)
           \/ GetBlockByHash(c) \/ GetBlockTransfersByHash(c)
           \/ GetBlockByHeight(c) \/ GetBlockTransfersByHeight(c)
           \/ GetDeployToPlace(c) \/ GetBlockResponse(c) \/ GetDeploy(c)
           \/ GetAccountPurse(c) \/ TakeUref(c)
  <2>1. answer' = answer /\ pc[c] # "done"
    BY <1>6 DEF GetLatestBlock, GetLatestBlockTransfers, GetBlockByHash,
       GetBlockTransfersByHash, GetBlockByHeight, GetBlockTransfersByHeight,
       GetDeployToPlace, GetBlockResponse, GetDeploy, GetAccountPurse, TakeUref
  <2> QED
    BY <2>1 DEF ControlInv, ControlAt, TrueBalance, Succeeded
<1> QED
  BY <1>2, <1>3, <1>4, <1>5, <1>6 DEF Acts, Step

\* A balance answered stays true: the chain only grows.
LEMMA BalanceStep ==
  ASSUME TypeOK, ControlInv, SnapshotInv, BalanceAtReportedBlock, [Next]_vars
  PROVE  BalanceAtReportedBlock'
<1>1. CASE Grow
  <2>1. ProduceBlock /\ answer' = answer /\ req' = req
    BY <1>1 DEF Grow, local
  <2>2. \A h \in Heights : h \in Heights' /\ chain'[h + 1] = chain[h + 1]
    BY <2>1, GrowKeeps DEF TypeOK
  <2>3. ASSUME NEW c \in Calls, Succeeded(c, "balance"), TrueBalance(c)
        PROVE  TrueBalance(c)'
    BY <2>1, <2>2, <2>3 DEF TrueBalance, At
  <2>4. ASSUME NEW c \in Calls, ~ Succeeded(c, "balance")
        PROVE  TrueBalance(c)'
    BY <2>1, <2>4 DEF TrueBalance, Succeeded
  <2> QED
    BY <2>3, <2>4 DEF BalanceAtReportedBlock
<1>2. CASE UNCHANGED vars
  BY <1>2 DEF vars, local, BalanceAtReportedBlock, TrueBalance, Succeeded, Heights, At
<1>3. ASSUME NEW c \in Calls, Acts(c)
      PROVE  BalanceAtReportedBlock'
  <2>1. TrueBalance(c)'
    BY <1>3, BalanceOwn DEF BalanceAtReportedBlock
  <2>2. ASSUME NEW d \in Calls, d # c
        PROVE  TrueBalance(d)'
    BY <1>3, <2>2, OnlyItsOwn, ChainStays
       DEF BalanceAtReportedBlock, TrueBalance, Succeeded, Heights, At
  <2> QED
    BY <2>1, <2>2 DEF BalanceAtReportedBlock
<1> QED
  BY <1>1, <1>2, <1>3 DEF Next, Acts

------------------------------------------------------------------------------
(***************************************************************************)
(* A call that names a block has that block and no other, and only one     *)
(* that names none goes without.                                           *)
(***************************************************************************)
IsNamed(id, b) == IF id.index # NULL THEN b.height = id.index ELSE b.hash = id.hash
Neither(id) == id.hash = NULL /\ id.index = NULL
Panicked(r) ==
  \/ r.op = "balance" /\ r.address.form = "short"
  \/ r.op = "block" /\ r.id # NULL /\ Neither(r.id)

\* On the way: which block a call that named one holds.
NamedBlock(c, id) ==
  /\ pc[c] \notin {"latest", "latest transfers"}
  /\ pc[c] = "hash" => id.hash # NULL
  /\ pc[c] \in {"index", "index transfers"} => id.index # NULL
  /\ pc[c] = "hash transfers" => block[c].hash = id.hash
  /\ pc[c] = "index transfers" => block[c].height = id.index
  /\ pc[c] \in {"proposer", "deploy", "signer", "purse", "balance"} => IsNamed(id, block[c])

NamedAt(c) ==
  /\ pc[c] = "idle" => block[c] = NoBlock
  /\ pc[c] \in {"latest transfers", "hash transfers", "index transfers", "peers"} =>
       block[c].proposer # NULL
  /\ pc[c] = "proposer" /\ block[c].proposer = NULL => Panicked(req[c])
  /\ pc[c] \in {"purse", "balance"} /\ block[c].proposer = NULL =>
       req[c].id # NULL /\ Neither(req[c].id)
  /\ Serves(c, {"block", "balance"}) /\ req[c].id # NULL => NamedBlock(c, req[c].id)
  /\ answer[c] # NULL /\ answer[c].kind \in {"block", "balance"} =>
       /\ Serves(c, {"block", "balance"})
       /\ req[c].id # NULL => IsNamed(req[c].id, answer[c])
  /\ answer[c] # NULL /\ answer[c].kind = "panic" => Panicked(req[c])

NamedInv == \A c \in Calls : NamedAt(c)

\* Before any call nothing is read.
LEMMA NamedInit == Init => NamedInv
BY DEF Init, NamedInv, NamedAt, NamedBlock, Serves

\* The fields of the response that names the block.
LEMMA ReadBlock ==
  ASSUME TypeOK, NEW c \in Calls, NEW h \in Heights,
         block' = [block EXCEPT ![c] = BlockResponse(h)]
  PROVE  /\ block'[c].height = h /\ block'[c].hash = BlockHash(h)
         /\ block'[c].proposer # NULL
<1>1. block'[c] = BlockResponse(h)
  BY DEF TypeOK
<1>2. BlockResponse(h).proposer \in Keys
  BY BlockAtHeight DEF BlockResponse, Reply, Block, TypeOK
<1> QED
  BY <1>1, <1>2, BlockReply, NodeAssumption DEF TypeOK

\* A call that starts knows which way to go to the block it names.
LEMMA NamedAsk ==
  ASSUME TypeOK, ControlInv, NEW c \in Calls, NamedAt(c), NEW r \in Requests, Ask(c, r)
  PROVE  NamedAt(c)'
<1>1. /\ req'[c] = r /\ pc'[c] = FirstStep(r) /\ block'[c] = NoBlock /\ answer'[c] = NULL
  BY DEF Ask, TypeOK, NamedAt, ControlInv, ControlAt
<1>2. r.op \in {"status", "block", "transaction", "balance"}
  BY RequestOp
<1>3. /\ pc'[c] \in {"proposer", "purse"} /\ r.id # NULL /\ r.op # "transaction" => Neither(r.id)
      /\ pc'[c] \in {"purse", "balance"} => r.id # NULL /\ Neither(r.id)
  BY <1>1, <1>2 DEF FirstStep, Neither
<1>4. ASSUME r.op \in {"block", "balance"}, r.id # NULL
      PROVE  /\ pc'[c] \in {"hash", "index", "proposer", "purse"}
             /\ pc'[c] = "hash" => r.id.hash # NULL
             /\ pc'[c] = "index" => r.id.index # NULL
             /\ pc'[c] \in {"proposer", "purse"} => IsNamed(r.id, block'[c])
  <2>1. /\ pc'[c] \in {"hash", "index", "proposer", "purse"}
        /\ pc'[c] = "hash" => r.id.hash # NULL
        /\ pc'[c] = "index" => r.id.index # NULL
    BY <1>1, <1>4 DEF FirstStep
  <2>2. pc'[c] \in {"proposer", "purse"} => IsNamed(r.id, block'[c])
    BY <1>1, <1>3, <1>4 DEF Neither, IsNamed, NoBlock
  <2> QED
    BY <2>1, <2>2
<1>5. pc'[c] = "proposer" => Panicked(r)
  BY <1>1, <1>2 DEF FirstStep, Panicked, Neither
<1>6. pc'[c] \notin {"idle", "latest transfers", "hash transfers", "index transfers", "peers"}
  BY <1>1, <1>2 DEF FirstStep
<1>7. (Serves(c, {"block", "balance"}) /\ req[c].id # NULL => NamedBlock(c, req[c].id))'
  BY <1>1, <1>4 DEF NamedBlock, Serves, IsNamed
<1> QED
  BY <1>1, <1>3, <1>5, <1>6, <1>7 DEF NamedAt, Panicked

\* An answer with transactions is of the block the call holds.
LEMMA NamedTransactions ==
  ASSUME TypeOK, ControlInv, NEW c \in Calls, NamedAt(c), NEW made,
         pc[c] \in {"proposer", "signer"}, ReturnTransactions(c, made),
         req' = req, block' = block
  PROVE  NamedAt(c)'
<1>1. /\ pc'[c] = "done"
      /\ answer'[c] = IF req[c].op = "block"
                      THEN BlockAnswer(block[c], [i \in DOMAIN made |-> Transaction(c, made[i])])
                      ELSE [kind |-> "transaction", tx |-> Transaction(c, made[1])]
  BY DEF ReturnTransactions, TypeOK
<1>2. Serves(c, {"block", "transaction"})
  BY DEF ControlInv, ControlAt
<1>3. CASE req[c].op = "block"
  <2>1. /\ answer'[c].kind = "block" /\ answer'[c].height = block[c].height
        /\ answer'[c].hash = block[c].hash
    BY <1>1, <1>3 DEF BlockAnswer
  <2>2. req[c].id # NULL => IsNamed(req[c].id, block[c])
    BY <1>2, <1>3 DEF NamedAt, NamedBlock, Serves
  <2> QED
    BY <1>1, <1>2, <1>3, <2>1, <2>2 DEF NamedAt, NamedBlock, IsNamed, Serves
<1>4. CASE req[c].op # "block"
  <2>1. answer'[c].kind = "transaction"
    BY <1>1, <1>4
  <2> QED
    BY <1>1, <1>2, <1>4, <2>1 DEF NamedAt, NamedBlock, Serves
<1> QED
  BY <1>3, <1>4

\* A call's own step reads the block it names.
LEMMA NamedOwn ==
  ASSUME TypeOK, ControlInv, NEW c \in Calls, Acts(c), NamedAt(c)
  PROVE  NamedAt(c)'
<1> USE DEF NamedAt, NamedBlock, Serves
<1>0. ControlAt(c)
  BY DEF ControlInv
<1>1. CASE \E r \in Requests : Ask(c, r)
  BY <1>1, NamedAsk
<1>2. CASE GetLatestBlock(c)
  <2>1. block'[c].proposer # NULL
    BY <1>2, ReadBlock, BlockAtHeight DEF GetLatestBlock, TypeOK
  <2> QED
    BY <1>0, <1>2, <2>1 DEF GetLatestBlock, TypeOK, ControlAt
<1>3. CASE GetLatestBlockTransfers(c) \/ GetBlockTransfersByHeight(c)
  BY <1>0, <1>3 DEF GetLatestBlockTransfers, GetBlockTransfersByHeight, TypeOK,
     ControlAt, IsNamed
<1>4. CASE GetBlockByHash(c)
  <2>1. PICK h \in Heights : /\ BlockHash(h) = req[c].id.hash
                             /\ block' = [block EXCEPT ![c] = BlockResponse(h)]
    BY <1>4 DEF GetBlockByHash, ByHash
  <2>2. block'[c].hash = req[c].id.hash /\ block'[c].proposer # NULL
    BY <2>1, ReadBlock
  <2> QED
    BY <1>0, <1>4, <2>2, RequestOp DEF GetBlockByHash, TypeOK, ControlAt, IsNamed
<1>5. CASE GetBlockTransfersByHash(c)
  BY <1>0, <1>5, RequestOp DEF GetBlockTransfersByHash, TypeOK, ControlAt, IsNamed
<1>6. CASE GetBlockByHeight(c)
  <2>1. PICK h \in Heights : /\ h = req[c].id.index
                             /\ block' = [block EXCEPT ![c] = BlockResponse(h)]
    BY <1>6 DEF GetBlockByHeight, ByHeight
  <2>2. block'[c].height = req[c].id.index /\ block'[c].proposer # NULL
    BY <2>1, ReadBlock
  <2> QED
    BY <1>0, <1>6, <2>2, RequestOp DEF GetBlockByHeight, TypeOK, ControlAt, IsNamed
<1>7. CASE GetDeployToPlace(c)
  BY <1>0, <1>7 DEF GetDeployToPlace, TypeOK, ControlAt
<1>8. CASE GetBlockResponse(c)
  <2>1. PICK h \in Heights : block' = [block EXCEPT ![c] = BlockResponse(h)]
    BY <1>8 DEF GetBlockResponse, ByHash
  <2>2. block'[c].proposer # NULL
    BY <2>1, ReadBlock
  <2> QED
    BY <1>0, <1>8, <2>2 DEF GetBlockResponse, TypeOK, ControlAt
<1>9. CASE GetProposerPurse(c)
  <2> HIDE DEF NamedAt, NamedBlock, Serves
  <2>1. \/ ReturnTransactions(c, <<>>)
        \/ pc' = [pc EXCEPT ![c] = "deploy"] /\ answer' = answer
    BY <1>9 DEF GetProposerPurse
  <2>2. pc[c] = "proposer" /\ req' = req /\ block' = block
    BY <1>9 DEF GetProposerPurse
  <2>3. CASE ReturnTransactions(c, <<>>)
    BY <2>2, <2>3, NamedTransactions
  <2>4. CASE pc' = [pc EXCEPT ![c] = "deploy"] /\ answer' = answer
    BY <1>0, <2>2, <2>4 DEF TypeOK, ControlAt, NamedAt, NamedBlock, Serves
  <2> QED
    BY <2>1, <2>3, <2>4
<1>10. CASE GetSignerPurse(c)
  <2> HIDE DEF NamedAt, NamedBlock, Serves
  <2>1. \/ ReturnTransactions(c, txs'[c])
        \/ pc' = [pc EXCEPT ![c] = "deploy"] /\ answer' = answer
    BY <1>10 DEF GetSignerPurse
  <2>2. pc[c] = "signer" /\ req' = req /\ block' = block
    BY <1>10 DEF GetSignerPurse
  <2>3. CASE ReturnTransactions(c, txs'[c])
    BY <2>2, <2>3, NamedTransactions
  <2>4. CASE pc' = [pc EXCEPT ![c] = "deploy"] /\ answer' = answer
    BY <1>0, <2>2, <2>4 DEF TypeOK, ControlAt, NamedAt, NamedBlock, Serves
  <2> QED
    BY <2>1, <2>3, <2>4
<1>11. CASE GetDeploy(c)
  BY <1>0, <1>11 DEF GetDeploy, TypeOK, ControlAt
<1>12. CASE GetAccountPurse(c) \/ TakeUref(c)
  BY <1>0, <1>12 DEF GetAccountPurse, TakeUref, TypeOK, ControlAt
<1>13. CASE GetAccountBalance(c)
  <2>1. PICK n : answer' = [answer EXCEPT ![c] =
                   [kind |-> "balance", hash |-> block[c].hash,
                    height |-> block[c].height, amount |-> n]]
    BY <1>13 DEF GetAccountBalance
  <2>2. /\ answer'[c].kind = "balance" /\ answer'[c].hash = block[c].hash
        /\ answer'[c].height = block[c].height
    BY <2>1 DEF TypeOK
  <2> QED
    BY <1>0, <1>13, <2>2 DEF GetAccountBalance, TypeOK, ControlAt, IsNamed
<1>14. CASE GetPeers(c)
  BY <1>0, <1>14 DEF GetPeers, TypeOK, ControlAt
<1>15. CASE Reject(c) \/ RpcFails(c)
  <2> HIDE DEF NamedAt, NamedBlock, Serves
  <2>1. PICK why \in {"rejected", "transport"} :
          /\ pc' = [pc EXCEPT ![c] = "done"]
          /\ answer' = [answer EXCEPT ![c] = [kind |-> "error", why |-> why]]
    BY <1>15 DEF Reject, RpcFails
  <2>2. req' = req /\ block' = block
    BY <1>15 DEF Reject, RpcFails
  <2>3. answer'[c].kind = "error" /\ pc'[c] = "done"
    BY <2>1 DEF TypeOK
  <2> QED
    BY <2>2, <2>3 DEF NamedAt, NamedBlock, Serves
<1>16. CASE Panic(c)
  <2>1. Panicked(req[c])
    BY <1>0, <1>16 DEF Panic, Panics, Panicked, ControlAt
  <2>2. answer'[c].kind = "panic" /\ pc'[c] = "done" /\ req' = req /\ block' = block
    BY <1>16 DEF Panic, TypeOK
  <2> QED
    BY <2>1, <2>2
<1> QED
  BY <1>1, <1>2, <1>3, <1>4, <1>5, <1>6, <1>7, <1>8, <1>9, <1>10, <1>11, <1>12,
     <1>13, <1>14, <1>15, <1>16 DEF Acts, Step

\* Every step leaves each call with the block it named.
LEMMA NamedStep ==
  ASSUME TypeOK, ControlInv, NamedInv, [Next]_vars
  PROVE  NamedInv'
<1>1. CASE Grow \/ UNCHANGED vars
  BY <1>1 DEF Grow, vars, local, NamedInv, NamedAt, NamedBlock, Serves
<1>2. ASSUME NEW c \in Calls, Acts(c)
      PROVE  NamedInv'
  <2>1. NamedAt(c)'
    BY <1>2, NamedOwn DEF NamedInv
  <2>2. ASSUME NEW d \in Calls, d # c
        PROVE  NamedAt(d)'
    <3>1. /\ NamedAt(d) /\ pc'[d] = pc[d] /\ req'[d] = req[d]
          /\ block'[d] = block[d] /\ answer'[d] = answer[d]
      BY <1>2, <2>2, OnlyItsOwn DEF NamedInv
    <3> QED
      BY ONLY <3>1 DEF NamedAt, NamedBlock, Serves, IsNamed, Neither, Panicked
  <2> QED
    BY <2>1, <2>2 DEF NamedInv
<1> QED
  BY <1>1, <1>2 DEF Next, Acts

------------------------------------------------------------------------------
(***************************************************************************)
(* The theorems.                                                           *)
(***************************************************************************)
IInv == TypeOK /\ ControlInv /\ SnapshotInv /\ BalanceAtReportedBlock /\ NamedInv

\* The inductive invariant holds.
LEMMA Invariance == Spec => []IInv
<1>1. Init => IInv
  <2>1. Init => BalanceAtReportedBlock
    BY DEF Init, BalanceAtReportedBlock, TrueBalance, Succeeded
  <2> QED
    BY <2>1, TypeInit, ControlInit, SnapshotInit, NamedInit DEF IInv
<1>2. IInv /\ [Next]_vars => IInv'
  BY TypeStep, ControlStep, SnapshotStep, BalanceStep, NamedStep DEF IInv
<1> QED
  BY <1>1, <1>2, PTL DEF Spec

(***************************************************************************)
(* client.go's local variables have the types client.go declares.          *)
(***************************************************************************)
THEOREM TypeCorrect == Spec => []TypeOK
BY Invariance, PTL DEF IInv

(***************************************************************************)
(* No handler of client.go uses a nil identifier, deploy or purse, and     *)
(* each makes an RPC only for the kind of request it serves.               *)
(***************************************************************************)
THEOREM NothingNilIsUsed == Spec => []ControlInv
BY Invariance, PTL DEF IInv

(***************************************************************************)
(* Whatever the chain does during a call, the block response the call      *)
(* holds is that of a block of the chain (client.go:115-159, 519-546).     *)
(***************************************************************************)
THEOREM NoStaleBlock == Spec => []SnapshotInv
BY Invariance, PTL DEF IInv

(***************************************************************************)
(* Balance (client.go:519-594) answers with what the purse of the address  *)
(* held after the block the answer names.                                  *)
(***************************************************************************)
THEOREM BalanceIsAtomic == Spec => []BalanceAtReportedBlock
BY Invariance, PTL DEF IInv
=============================================================================
