---------------------------- MODULE LedgerProofs ----------------------------
(***************************************************************************)
(* Proofs about what the client's answers say of the ledger: lists of      *)
(* transactions, operations and refusals, for chains of any length.        *)
(***************************************************************************)
EXTENDS ServerProofs, RosettaProofs, SequenceTheorems

------------------------------------------------------------------------------
(***************************************************************************)
(* The chain: what a block lists is what it ran, a deploy runs once, its   *)
(* signer has an account from then on, and a block's balances are those of *)
(* the block before it after the movements it caused.                      *)
(***************************************************************************)
BlockTrue(b) ==
  /\ b.transfers = AllListed(b.executions)
  /\ \A i, j \in DOMAIN b.executions :
       b.executions[i].deploy = b.executions[j].deploy => i = j
  /\ \A e \in Ran(b) : Exists(DeployOf[e.deploy].account, b.balance)

RunsOnce == \A g, h \in Heights : \A d \in Ran(At(g)), e \in Ran(At(h)) :
              d.deploy = e.deploy => g = h

BlockAfter(b, before) ==
  /\ b.proposer \in Accounts
  /\ b.balance = BalanceAfter(before.balance, AllMovements(b.executions, b.proposer))
Grown == \A h \in Heights : h > 0 => BlockAfter(At(h), At(h - 1))

ChainInv == (\A h \in Heights : BlockTrue(At(h))) /\ RunsOnce /\ Grown

\* The loops over a block's transfers find those of each deploy it ran.
LEMMA KeptIsListed ==
  ASSUME NEW x \in Seq(Execution), NEW n \in 1 .. Len(x),
         \A i, j \in DOMAIN x : x[i].deploy = x[j].deploy => i = j
  PROVE  Kept(AllListed(x), x[n].deploy) = Listed(x[n])
<1> DEFINE row == [i \in DOMAIN x |-> Listed(x[i])]
<1>1. row \in Seq(Seq(Transfer)) /\ Len(row) = Len(x)
      /\ \A i \in 1 .. Len(x) : row[i] = Listed(x[i])
  BY RowType
<1>2. AllListed(x) = FlattenSeq(row)
  BY DEF AllListed
<1> HIDE DEF row
<1>3. \A i \in 1 .. Len(x) : x[i] \in Execution /\ i \in DOMAIN x
  OBVIOUS
<1>4. ASSUME NEW i \in 1 .. Len(row), NEW j \in 1 .. Len(row[i])
      PROVE  row[i][j].deploy = x[n].deploy <=> i = n
  <2>1. i \in 1 .. Len(x) /\ row[i] = Listed(x[i])
    BY <1>1
  <2>2. row[i][j].deploy = x[i].deploy
    <3>1. x[i] \in Execution /\ j \in 1 .. Len(Listed(x[i]))
      BY <1>3, <2>1
    <3> QED
      BY <2>1, <3>1, ListedType
  <2> QED
    BY <1>3, <2>1, <2>2
<1>5. Kept(FlattenSeq(row), x[n].deploy) = row[n]
  <2>1. n \in 1 .. Len(row) /\ row \in Seq(Seq(Transfer))
    BY <1>1
  <2>2. \A i \in 1 .. Len(row) : \A j \in 1 .. Len(row[i]) :
          row[i][j].deploy = x[n].deploy <=> i = n
    BY <1>4
  <2> QED
    BY ONLY <2>1, <2>2, KeepPart
<1> QED
  BY <1>1, <1>2, <1>5

------------------------------------------------------------------------------
\* Before any block but genesis.
LEMMA ChainInit == Init => ChainInv
<1> SUFFICES ASSUME Init PROVE ChainInv
  OBVIOUS
<1>1. Len(chain) = 1 /\ chain[1].executions = <<>> /\ chain[1].transfers = <<>>
  BY DEF Init, NodeInit
<1>2. Heights = {0} /\ At(0) = chain[1]
  BY <1>1 DEF Heights, At
<1>3. Ran(At(0)) = {}
  BY <1>1, <1>2 DEF Ran
<1>4. AllListed(<<>>) = <<>>
  <2>1. [i \in DOMAIN <<>> |-> Listed(<<>>[i])] = <<>>
    OBVIOUS
  <2> QED
    BY <2>1 DEF AllListed, FlattenSeq
<1>5. BlockTrue(At(0))
  BY <1>1, <1>2, <1>3, <1>4 DEF BlockTrue
<1> QED
  BY <1>2, <1>3, <1>5 DEF ChainInv, RunsOnce, Grown

\* A new block is true, and runs deploys that no block has run.
LEMMA NewBlockTrue ==
  ASSUME chain \in Seq(Block), chain # <<>>, ChainInv, ProduceBlock
  PROVE  \E b \in Block : /\ chain' = Append(chain, b) /\ BlockTrue(b)
                          /\ BlockAfter(b, At(Tip))
                          /\ \A e \in Ran(b) : e.deploy \notin Executed
<1>1. PICK k \in Accounts, n \in 0 .. MaxBlockSize :
        \E x \in [1 .. n -> Execution] :
          /\ \A i \in 1 .. n :
               /\ x[i].deploy \notin Executed
               /\ Exists(DeployOf[x[i].deploy].account, At(Tip).balance)
               /\ \A j \in 1 .. i - 1 : x[j].deploy # x[i].deploy
          /\ NewBlock(k, x) \in Block
          /\ chain' = Append(chain, NewBlock(k, x))
  BY DEF ProduceBlock
<1>2. PICK x \in [1 .. n -> Execution] :
          /\ \A i \in 1 .. n :
               /\ x[i].deploy \notin Executed
               /\ Exists(DeployOf[x[i].deploy].account, At(Tip).balance)
               /\ \A j \in 1 .. i - 1 : x[j].deploy # x[i].deploy
          /\ NewBlock(k, x) \in Block
          /\ chain' = Append(chain, NewBlock(k, x))
  BY <1>1
<1>3. x \in Seq(Execution) /\ DOMAIN x = 1 .. n /\ n \in Nat
  BY NodeAssumption
<1> DEFINE b == NewBlock(k, x)
<1>4. /\ b.executions = x /\ b.transfers = AllListed(x)
      /\ b.balance = BalanceAfter(At(Tip).balance, AllMovements(x, k)) /\ b.proposer = k
  BY DEF NewBlock
<1>5. Ran(b) = {x[i] : i \in 1 .. n}
  BY <1>3, <1>4 DEF Ran
<1>6. \A i, j \in 1 .. n : x[i].deploy = x[j].deploy => i = j
  <2> SUFFICES ASSUME NEW i \in 1 .. n, NEW j \in 1 .. n, i # j
               PROVE  x[i].deploy # x[j].deploy
    OBVIOUS
  <2>1. i \in 1 .. j - 1 \/ j \in 1 .. i - 1
    BY <1>3
  <2> QED
    BY <1>2, <2>1
<1> HIDE DEF b
<1>7. ASSUME NEW i \in 1 .. n
      PROVE  Exists(DeployOf[x[i].deploy].account, b.balance)
  <2> DEFINE a == DeployOf[x[i].deploy].account
  <2>1. a \in Accounts /\ At(Tip).balance[MainPurse[a]] # NULL
    BY <1>2 DEF Exists
  <2>2. MainPurse[a] \in Purses
    BY <2>1, NodeAssumption
  <2>3. At(Tip).balance \in Balances
    BY BlockAtHeight DEF Block
  <2>4. AllMovements(x, k) \in Seq(Move)
    BY <1>3, AllMovementsType
  <2> HIDE DEF a
  <2>5. b.balance[MainPurse[a]] # NULL
    BY <1>4, <2>1, <2>2, <2>3, <2>4, PursesStay
  <2> QED
    BY <2>1, <2>5 DEF Exists, a
<1>8. BlockTrue(b)
  BY <1>3, <1>4, <1>5, <1>6, <1>7 DEF BlockTrue
<1>9. BlockAfter(b, At(Tip))
  BY <1>4 DEF BlockAfter
<1> QED
  BY <1>2, <1>5, <1>8, <1>9 DEF b

\* The chain stays true.
LEMMA ChainStep ==
  ASSUME TypeOK, ChainInv, [Next]_vars
  PROVE  ChainInv'
<1>1. CASE Grow
  <2>1. PICK b \in Block : /\ chain' = Append(chain, b) /\ BlockTrue(b)
                          /\ BlockAfter(b, At(Tip))
                          /\ \A e \in Ran(b) : e.deploy \notin Executed
    BY <1>1, NewBlockTrue DEF Grow, TypeOK
  <2>2. PICK n \in Nat : n = Len(chain)
    BY DEF TypeOK
  <2>3. /\ Heights' = Heights \cup {n} /\ chain'[n + 1] = b
        /\ \A h \in Heights : chain'[h + 1] = chain[h + 1]
    <3>1. /\ Len(chain') = n + 1 /\ chain'[n + 1] = b
          /\ \A i \in 1 .. n : chain'[i] = chain[i]
      BY <2>1, <2>2 DEF TypeOK
    <3> QED
      BY <2>2, <3>1 DEF Heights
  <2>4. At(n)' = b /\ \A h \in Heights : At(h)' = At(h)
    BY <2>3 DEF At
  <2>5. ASSUME NEW h \in Heights'
        PROVE  BlockTrue(At(h))'
    <3>1. BlockTrue(At(h)')
      BY <2>1, <2>3, <2>4 DEF ChainInv
    <3> QED
      BY <3>1 DEF BlockTrue
  <2>6. \A h \in Heights : \A e \in Ran(At(h)) : e.deploy \in Executed
    BY DEF Executed
  <2>7. ASSUME NEW g \in Heights', NEW h \in Heights', NEW d \in Ran(At(g)'), NEW e \in Ran(At(h)'),
               d.deploy = e.deploy
        PROVE  g = h
    BY <2>1, <2>3, <2>4, <2>6, <2>7 DEF ChainInv, RunsOnce
  <2>8. RunsOnce'
    BY <2>7 DEF RunsOnce, Ran
  <2>9. ASSUME NEW h \in Heights', h > 0
        PROVE  BlockAfter(At(h)', At(h - 1)')
    <3>1. CASE h \in Heights
      <4>1. h - 1 \in Heights
        BY <2>9, <3>1, <2>2 DEF Heights
      <4> QED
        BY <2>4, <2>9, <3>1, <4>1 DEF ChainInv, Grown
    <3>2. CASE h = n
      <4>1. h - 1 \in Heights /\ h - 1 = Tip
        BY <2>2, <2>9, <3>2 DEF Heights, Tip
      <4> QED
        BY <2>1, <2>4, <3>2, <4>1
    <3> QED
      BY <2>3, <3>1, <3>2
  <2>10. Grown'
    BY <2>9 DEF Grown, BlockAfter, At
  <2> QED
    BY <2>5, <2>8, <2>10 DEF ChainInv
<1>2. CASE chain' = chain
  <2>1. Heights' = Heights /\ \A h \in Int : At(h)' = At(h)
    BY <1>2 DEF Heights, At
  <2>2. ASSUME NEW h \in Heights
        PROVE  BlockTrue(At(h))'
    <3>1. BlockTrue(At(h)) /\ At(h)' = At(h)
      BY <2>1 DEF ChainInv, Heights
    <3> QED
      BY <3>1 DEF BlockTrue
  <2>3. RunsOnce'
    BY <1>2 DEF ChainInv, RunsOnce, Heights, At, Ran
  <2>4. \A h \in Heights : At(h)' = At(h) /\ At(h - 1)' = At(h - 1)
    BY <2>1 DEF Heights
  <2>5. Grown'
    BY <2>1, <2>4 DEF ChainInv, Grown, BlockAfter
  <2> QED
    BY <2>1, <2>2, <2>3, <2>5 DEF ChainInv
<1> QED
  BY <1>1, <1>2, ChainStays DEF Next, Acts, vars

------------------------------------------------------------------------------
(***************************************************************************)
(* What a call that reports on a block holds, and what it answers.         *)
(***************************************************************************)
Aliased(list, d) == [i \in 1 .. Len(Kept(list, d)) |-> list[Len(list)]]

\* The transaction of execution e in the block at height h, with some transfers.
TransactionOn(h, e, moves) ==
  [deploy |-> e.deploy,
   ops |-> Operations(DeployReply(e, h), moves, Uref(MainPurse[DeployOf[e.deploy].account]),
                      Uref(MainPurse[At(h).proposer]))]

\* A reply about a deploy that some block of a chain ran.
Replied(blocks, r) ==
  \E h \in 0 .. Len(blocks) - 1 : \E e \in Ran(blocks[h + 1]) : r = DeployReply(e, h)

\* The deploys a call is to report on, and those it has looked up.
Sought(c) == IF req[c].op = "block" THEN Mapped(c) ELSE {req[c].deploy}
Hashes(made) == {made[i].deploy.hash : i \in DOMAIN made}
Looked(c) == Hashes(txs[c]) \cup (IF pc[c] = "signer" THEN {deploy[c].hash} ELSE {})

\* It has gone through some of them, each once.
Distinct(made) ==
  \A i, j \in DOMAIN made : made[i].deploy.hash = made[j].deploy.hash => i = j
AllReplied(blocks, made) ==
  \A i \in DOMAIN made : /\ Replied(blocks, made[i].deploy)
                         /\ made[i].signer = Uref(MainPurse[made[i].deploy.account])

Builds(c) ==
  /\ block[c] # NoBlock /\ purse[c] = Uref(MainPurse[block[c].proposer])
  /\ AllReplied(chain, txs[c]) /\ Distinct(txs[c])
  /\ Sought(c) = todo[c] \cup Looked(c) /\ todo[c] \cap Looked(c) = {}
  /\ pc[c] = "deploy" => todo[c] # {}
  /\ pc[c] = "signer" => Replied(chain, deploy[c]) /\ deploy[c].hash \notin Hashes(txs[c])

\* Its transfers are those of its block, or of the block a transaction was sought in.
HoldsBlock(c) ==
  pc[c] \in {"proposer", "deploy", "signer"} =>
    (req[c].id # NULL /\ block[c] # NoBlock => transfers[c] = At(block[c].height).transfers)

HoldsDeploy(c) ==
  /\ pc[c] \in {"place block", "hash transfers", "proposer", "deploy", "signer"} =>
       Replied(chain, deploy[c]) /\ deploy[c].hash = req[c].deploy
  /\ pc[c] \in {"hash transfers", "proposer", "deploy", "signer"} =>
       block[c] # NoBlock /\ block[c].hash = deploy[c].blockHash
  /\ pc[c] \in {"proposer", "deploy", "signer"} =>
       \E t \in ByHash(req[c].id.hash) : transfers[c] = At(t).transfers

HoldsAt(c) ==
  /\ pc[c] \notin {"deploy", "signer", "done"} => txs[c] = <<>>
  /\ Serves(c, {"block"}) => HoldsBlock(c)
  /\ Serves(c, {"transaction"}) => HoldsDeploy(c)
  /\ pc[c] \in {"deploy", "signer"} => Builds(c)

\* What the answers say.
BlockTold(a) ==
  /\ a.height \in Heights /\ a.hash = BlockHash(a.height) /\ \E S : a.txs \in Seq(S)
  /\ \A i \in DOMAIN a.txs : \E e \in Ran(At(a.height)) :
       a.txs[i] = TransactionOn(a.height, e, Aliased(At(a.height).transfers, e.deploy))
  /\ {a.txs[i].deploy : i \in DOMAIN a.txs} = Shown(At(a.height))
  /\ \A i, j \in DOMAIN a.txs : a.txs[i].deploy = a.txs[j].deploy => i = j

TransactionTold(r, a) ==
  \E g \in Heights : \E e \in Ran(At(g)), t \in ByHash(r.id.hash) :
    e.deploy = r.deploy /\ a.tx = TransactionOn(g, e, Kept(At(t).transfers, e.deploy))

ToldAt(c) ==
  /\ NamesBlock(c) => BlockTold(answer[c])
  /\ Succeeded(c, "transaction") => Serves(c, {"transaction"}) /\ TransactionTold(req[c], answer[c])

HoldsInv == \A c \in Calls : HoldsAt(c)
ToldInv == \A c \in Calls : ToldAt(c)

------------------------------------------------------------------------------
\* The node's replies about a deploy, in terms of the blocks that ran it.
LEMMA RepliesAre ==
  ASSUME chain \in Seq(Block), chain # <<>>, NEW d, NEW r
  PROVE  r \in DeployReplies(d) <=> Replied(chain, r) /\ r.hash = d
<1>1. ASSUME NEW h \in Heights, NEW e \in Ran(At(h))
      PROVE  e \in Execution
  <2>1. At(h).executions \in Seq(Execution)
    BY BlockAtHeight DEF Block
  <2> QED
    BY <2>1 DEF Ran
<1> DEFINE Where == {x \in Execution \X Heights : x[1] \in Ran(At(x[2])) /\ x[1].deploy = d}
<1>2. DeployReplies(d) = {DeployReply(x[1], x[2]) : x \in Where}
  BY DEF DeployReplies
<1>3. ASSUME r \in DeployReplies(d)
      PROVE  Replied(chain, r) /\ r.hash = d
  <2>1. PICK x \in Where : r = DeployReply(x[1], x[2])
    BY <1>2, <1>3
  <2>2. r.hash = d
    BY <2>1 DEF DeployReply
  <2>3. x[2] \in Heights /\ x[1] \in Ran(At(x[2]))
    OBVIOUS
  <2> QED
    BY <2>1, <2>2, <2>3 DEF Replied, Heights, At
<1>4. ASSUME NEW h \in Heights, NEW e \in Ran(At(h)), r.hash = d, r = DeployReply(e, h)
      PROVE  r \in DeployReplies(d)
  <2>1. e.deploy = d
    BY <1>4 DEF DeployReply
  <2>2. <<e, h>> \in Where
    BY <1>1, <2>1
  <2> QED
    BY <1>2, <1>4, <2>2
<1> QED
  BY <1>3, <1>4 DEF Replied, Heights, At

\* There is one at most, and it is of the only block that ran the deploy.
LEMMA OneReply ==
  ASSUME chain \in Seq(Block), chain # <<>>, ChainInv, NEW r, Replied(chain, r),
         NEW h \in Heights, NEW e \in Ran(At(h)), e.deploy = r.hash
  PROVE  r = DeployReply(e, h)
<1>1. PICK g \in Heights : \E x \in Ran(At(g)) : r = DeployReply(x, g)
  BY DEF Replied, Heights, At
<1>2. PICK x \in Ran(At(g)) : r = DeployReply(x, g)
  BY <1>1
<1>3. x.deploy = e.deploy
  BY <1>2 DEF DeployReply
<1>4. g = h
  BY <1>3 DEF ChainInv, RunsOnce
<1>5. x = e
  <2>1. BlockTrue(At(h))
    BY DEF ChainInv
  <2> QED
    BY <1>3, <1>4, <2>1 DEF BlockTrue, Ran
<1> QED
  BY <1>2, <1>4, <1>5

\* A hash is that of one block.
LEMMA OneByHash ==
  ASSUME chain \in Seq(Block), chain # <<>>, NEW hash, NEW g \in ByHash(hash),
         NEW h \in Heights, BlockHash(h) = hash
  PROVE  g = h
BY BlockAtHeight DEF ByHash, BlockHash

\* Every step keeps the blocks there are.
ChainKept == \A h \in Heights : h \in Heights' /\ At(h)' = At(h)

LEMMA KeepsChain ==
  ASSUME TypeOK, [Next]_vars
  PROVE  ChainKept
<1>1. CASE chain' = chain
  BY <1>1 DEF ChainKept, Heights, At
<1>2. CASE Grow
  BY <1>2, GrowKeepsReplies DEF Grow, ChainKept, TypeOK
<1> QED
  BY <1>1, <1>2, ChainStays DEF Next, Acts, vars

\* What the node replied it goes on to reply.
LEMMA RepliesStay ==
  ASSUME ChainKept, NEW r, Replied(chain, r)
  PROVE  Replied(chain', r)
<1>1. PICK h \in Heights : \E e \in Ran(At(h)) : r = DeployReply(e, h)
  BY DEF Replied, Heights, At
<1>2. h \in 0 .. Len(chain') - 1 /\ chain'[h + 1] = At(h)
  BY DEF ChainKept, Heights, At
<1> QED
  BY <1>1, <1>2 DEF Replied

\* The keys of deployToTransferMap are the deploys the block shows.
LEMMA MappedIsShown ==
  ASSUME TypeOK, ChainInv, NEW c \in Calls, NEW h \in Heights,
         block[c] = BlockResponse(h), transfers[c] = At(h).transfers
  PROVE  Mapped(c) = Shown(At(h))
<1>1. PICK x \in Seq(Execution) : x = At(h).executions /\ At(h).transfers = AllListed(x)
  BY BlockAtHeight DEF TypeOK, Block, ChainInv, BlockTrue
<1>2. block[c].deployHashes = DeployHashes(At(h))
  BY DEF BlockResponse, Reply
<1> DEFINE list == AllListed(x)
           carrying == {x[i].deploy : i \in {j \in DOMAIN x : Carried(x[j]) # <<>>}}
<1>3. transfers[c] = list /\ {list[i].deploy : i \in DOMAIN list} = carrying
  BY <1>1, AllListedNames
<1> HIDE DEF list
<1>4. Mapped(c) = carrying \cup DeployHashes(At(h))
  BY <1>2, <1>3 DEF Mapped
<1>5. Ran(At(h)) = {x[i] : i \in DOMAIN x}
  BY <1>1 DEF Ran
<1>6. ASSUME NEW d \in carrying \cup DeployHashes(At(h))
      PROVE  d \in Shown(At(h))
  BY <1>5 DEF DeployHashes, Shown
<1>7. ASSUME NEW d \in Shown(At(h))
      PROVE  d \in carrying \cup DeployHashes(At(h))
  BY <1>5 DEF DeployHashes, Shown
<1> QED
  BY <1>4, <1>6, <1>7

------------------------------------------------------------------------------
(***************************************************************************)
(* What a call holds stays true while it does nothing.                     *)
(***************************************************************************)
Same(c) ==
  /\ pc'[c] = pc[c] /\ req'[c] = req[c] /\ block'[c] = block[c]
  /\ transfers'[c] = transfers[c] /\ purse'[c] = purse[c] /\ todo'[c] = todo[c]
  /\ deploy'[c] = deploy[c] /\ txs'[c] = txs[c] /\ answer'[c] = answer[c]

\* A step of one call touches no other's lists.
LEMMA OnlyItsOwnLists ==
  ASSUME TypeOK, NEW c \in Calls, Acts(c), NEW d \in Calls, d # c
  PROVE  transfers'[d] = transfers[d] /\ todo'[d] = todo[d] /\ txs'[d] = txs[d]
<1>1. CASE \/ GetLatestBlockTransfers(c) \/ GetBlockTransfersByHash(c)
           \/ GetBlockTransfersByHeight(c)
  BY <1>1 DEF GetLatestBlockTransfers, GetBlockTransfersByHash, GetBlockTransfersByHeight, TypeOK
<1>2. CASE GetProposerPurse(c) \/ GetDeploy(c) \/ GetSignerPurse(c)
  BY <1>2 DEF GetProposerPurse, GetDeploy, GetSignerPurse, TypeOK
<1>3. CASE \/ \E r \in Requests : Ask(c, r)
           \/ GetLatestBlock(c) \/ GetBlockByHash(c) \/ GetBlockByHeight(c)
           \/ GetDeployToPlace(c) \/ GetBlockResponse(c) \/ GetPeers(c)
           \/ GetAccountPurse(c) \/ TakeUref(c) \/ GetAccountBalance(c)
           \/ Reject(c) \/ RpcFails(c) \/ Panic(c)
  BY <1>3 DEF Ask, GetLatestBlock, GetBlockByHash, GetBlockByHeight, GetDeployToPlace,
     GetBlockResponse, GetPeers, GetAccountPurse, TakeUref, GetAccountBalance, Reject,
     RpcFails, Panic
<1> QED
  BY <1>1, <1>2, <1>3 DEF Acts, Step

\* A step is one call's, and the same for all others.
LEMMA OneActs ==
  ASSUME TypeOK, [Next]_vars, NEW c \in Calls, ~ Acts(c)
  PROVE  Same(c)
<1>1. CASE Grow \/ UNCHANGED vars
  BY <1>1 DEF Grow, vars, local, Same
<1>2. ASSUME NEW d \in Calls, Acts(d), d # c
      PROVE  Same(c)
  BY <1>2, OnlyItsOwn, OnlyItsOwnLists DEF Same
<1> QED
  BY <1>1, <1>2 DEF Next, Acts

LEMMA MappedStays ==
  ASSUME NEW c, transfers'[c] = transfers[c], block'[c] = block[c]
  PROVE  Mapped(c)' = Mapped(c)
<1> DEFINE M(list, b) == {list[i].deploy : i \in DOMAIN list} \cup b.deployHashes
<1>1. Mapped(c) = M(transfers[c], block[c]) /\ Mapped(c)' = M(transfers'[c], block'[c])
  BY DEF Mapped
<1> HIDE DEF M
<1> QED
  BY <1>1

\* Once built, a list of transactions is built.
LEMMA BuildsStays ==
  ASSUME ChainKept, NEW c \in Calls, Same(c), Builds(c)
  PROVE  Builds(c)'
<1>1. AllReplied(chain', txs[c])
  BY RepliesStay DEF AllReplied, Builds
<1>2. pc[c] = "signer" => Replied(chain', deploy[c])
  BY RepliesStay DEF Builds
<1>3. Sought(c)' = Sought(c)
  BY MappedStays DEF Sought, Same
<1>4. Looked(c)' = Looked(c)
  BY DEF Looked, Same
<1> QED
  BY <1>1, <1>2, <1>3, <1>4 DEF Builds, Same

\* What a call holds stays true of a chain that grows.
LEMMA HoldsStay ==
  ASSUME TypeOK, ChainKept, NEW c \in Calls, Same(c), SnapshotAt(c), HoldsAt(c)
  PROVE  HoldsAt(c)'
<1>1. \A h \in Heights : h \in Heights' /\ At(h)' = At(h)
  BY DEF ChainKept
<1>2. Serves(c, {"block"}) => HoldsBlock(c)'
  <2> SUFFICES ASSUME Serves(c, {"block"}), pc[c] \in {"proposer", "deploy", "signer"},
                      req[c].id # NULL, block[c] # NoBlock
               PROVE  transfers[c] = chain'[block[c].height + 1].transfers
    BY DEF HoldsBlock, Same, At, NoBlock
  <2>1. PICK h \in Heights : h = block[c].height
    BY DEF SnapshotAt, OnChain
  <2>2. transfers[c] = At(h).transfers
    BY <2>1 DEF HoldsAt, HoldsBlock
  <2> QED
    BY <1>1, <2>1, <2>2 DEF At
<1>3. Serves(c, {"transaction"}) => HoldsDeploy(c)'
  <2> SUFFICES ASSUME Serves(c, {"transaction"}) PROVE HoldsDeploy(c)'
    OBVIOUS
  <2>1. HoldsDeploy(c)
    BY DEF HoldsAt
  <2>2. pc[c] \in {"place block", "hash transfers", "proposer", "deploy", "signer"} =>
          Replied(chain', deploy[c])
    BY <2>1, RepliesStay DEF HoldsDeploy
  <2>3. ASSUME pc[c] \in {"proposer", "deploy", "signer"}
        PROVE  \E t \in ByHash(req[c].id.hash)' : transfers[c] = chain'[t + 1].transfers
    <3>1. PICK t \in ByHash(req[c].id.hash) : transfers[c] = At(t).transfers
      BY <2>1, <2>3 DEF HoldsDeploy
    <3>2. t \in Heights /\ BlockHash(t) = req'[c].id.hash
      BY <3>1 DEF ByHash, Same
    <3>3. t \in ByHash(req[c].id.hash)' /\ At(t) = chain'[t + 1]
      BY <1>1, <3>2 DEF ByHash, At
    <3> QED
      BY <3>1, <3>3
  <2> QED
    BY <2>1, <2>2, <2>3 DEF HoldsDeploy, Same, At, NoBlock
<1>4. pc[c] \in {"deploy", "signer"} => Builds(c)'
  BY BuildsStays DEF HoldsAt
<1> QED
  BY <1>2, <1>3, <1>4 DEF HoldsAt, Same, Serves

\* What an answer says stays true too.
LEMMA BlockToldStays ==
  ASSUME ChainKept, NEW a, BlockTold(a)
  PROVE  BlockTold(a)'
<1>1. PICK h \in Heights : h = a.height
  BY DEF BlockTold
<1>2. h \in Heights' /\ At(h)' = At(h)
  BY DEF ChainKept
<1>3. \A e : /\ TransactionOn(h, e, Aliased(At(h).transfers, e.deploy))' =
                  TransactionOn(h, e, Aliased(At(h).transfers, e.deploy))
  BY <1>2 DEF TransactionOn
<1>4. \A i \in DOMAIN a.txs : \E e \in Ran(At(h)) :
        a.txs[i] = TransactionOn(h, e, Aliased(At(h).transfers, e.deploy))
  BY <1>1 DEF BlockTold
<1>5. (\A i \in DOMAIN a.txs : \E e \in Ran(At(h)) :
        a.txs[i] = TransactionOn(h, e, Aliased(At(h).transfers, e.deploy)))'
  BY <1>2, <1>3, <1>4
<1>6. Shown(At(h))' = Shown(At(h))
  BY <1>2
<1> QED
  BY <1>1, <1>2, <1>5, <1>6 DEF BlockTold

LEMMA TransactionToldStays ==
  ASSUME ChainKept, NEW r, NEW a, TransactionTold(r, a)
  PROVE  TransactionTold(r, a)'
<1>0. PICK g \in Heights : \E e \in Ran(At(g)), t \in ByHash(r.id.hash) :
        e.deploy = r.deploy /\ a.tx = TransactionOn(g, e, Kept(At(t).transfers, e.deploy))
  BY DEF TransactionTold
<1>1. PICK e \in Ran(At(g)), t \in ByHash(r.id.hash) :
        e.deploy = r.deploy /\ a.tx = TransactionOn(g, e, Kept(At(t).transfers, e.deploy))
  BY <1>0
<1>2. t \in Heights /\ BlockHash(t) = r.id.hash
  BY DEF ByHash
<1>3. g \in Heights' /\ At(g)' = At(g) /\ t \in Heights' /\ At(t)' = At(t)
  BY <1>2 DEF ChainKept
<1>4. t \in ByHash(r.id.hash)'
  BY <1>2, <1>3 DEF ByHash
<1>5. TransactionOn(g, e, Kept(At(t).transfers, e.deploy))' =
        TransactionOn(g, e, Kept(At(t).transfers, e.deploy))
  BY <1>3 DEF TransactionOn
<1>6. e \in Ran(At(g))'
  BY <1>3
<1> QED
  BY <1>1, <1>3, <1>4, <1>5, <1>6 DEF TransactionTold

LEMMA ToldStay ==
  ASSUME ChainKept, NEW c \in Calls, Same(c), ToldAt(c)
  PROVE  ToldAt(c)'
<1>1. NamesBlock(c)' => BlockTold(answer[c])'
  <2> SUFFICES ASSUME NamesBlock(c)' PROVE BlockTold(answer[c])'
    OBVIOUS
  <2>1. NamesBlock(c)
    BY DEF NamesBlock, Succeeded, Same
  <2>2. PICK a : a = answer[c] /\ a = answer'[c]
    BY DEF Same
  <2>3. BlockTold(a)'
    BY <2>1, <2>2, BlockToldStays DEF ToldAt
  <2> QED
    BY <2>2, <2>3
<1>2. Succeeded(c, "transaction")' =>
        Serves(c, {"transaction"})' /\ TransactionTold(req[c], answer[c])'
  <2> SUFFICES ASSUME Succeeded(c, "transaction")'
               PROVE  Serves(c, {"transaction"})' /\ TransactionTold(req[c], answer[c])'
    OBVIOUS
  <2>1. Succeeded(c, "transaction")
    BY DEF Succeeded, Same
  <2>2. PICK a, r : a = answer[c] /\ a = answer'[c] /\ r = req[c] /\ r = req'[c]
    BY DEF Same
  <2>3. TransactionTold(r, a)'
    BY <2>1, <2>2, TransactionToldStays DEF ToldAt
  <2> QED
    BY <2>1, <2>2, <2>3 DEF ToldAt, Serves, Same
<1> QED
  BY <1>1, <1>2 DEF ToldAt

\* Before any call nothing is held and nothing told.
LEMMA HoldsInit == Init => HoldsInv /\ ToldInv
BY ClientAssumption DEF Init, HoldsInv, HoldsAt, Serves, ToldInv, ToldAt, NamesBlock, Succeeded

------------------------------------------------------------------------------
(***************************************************************************)
(* What a call's own step adds to it.                                      *)
(***************************************************************************)
USE DEF Return, Error, Goto

\* A question just asked holds nothing.
LEMMA HoldsAsk ==
  ASSUME IInv, NEW c \in Calls, HoldsAt(c), NEW r \in Requests, Ask(c, r)
  PROVE  HoldsAt(c)'
<1>1. /\ pc[c] = "idle" /\ block'[c] = NoBlock /\ txs'[c] = <<>>
      /\ req'[c] = r /\ pc'[c] = FirstStep(r)
  BY DEF Ask, IInv, TypeOK, NamedInv, NamedAt, HoldsAt
<1>2. r.op \in {"status", "block", "transaction", "balance"}
  BY RequestOp
<1>3. /\ pc'[c] \in {"latest", "hash", "index", "proposer", "purse", "place"}
      /\ r.op = "transaction" => pc'[c] = "place"
  BY <1>1, <1>2 DEF FirstStep
<1> QED
  BY <1>1, <1>3 DEF HoldsAt, HoldsBlock, HoldsDeploy, Serves, NoBlock

\* Nor does one that reads a block, whose transfers and deploys come later,
\* or one that has nothing to do with them, or ends.
LEMMA HoldsElse ==
  ASSUME IInv, NEW c \in Calls, HoldsAt(c),
         \/ GetLatestBlock(c) \/ GetLatestBlockTransfers(c) \/ GetBlockByHash(c)
         \/ GetBlockByHeight(c) \/ GetPeers(c) \/ GetAccountPurse(c) \/ TakeUref(c)
         \/ GetAccountBalance(c) \/ Reject(c) \/ RpcFails(c) \/ Panic(c)
  PROVE  HoldsAt(c)'
<1> USE DEF HoldsAt, HoldsBlock, HoldsDeploy, Serves
<1>0. ControlAt(c) /\ NamedAt(c) /\ TypeOK
  BY DEF IInv, ControlInv, NamedInv
<1>1. CASE GetLatestBlockTransfers(c)
  BY <1>0, <1>1 DEF GetLatestBlockTransfers, TypeOK, ControlAt, NamedAt, NamedBlock
<1>2. CASE GetLatestBlock(c)
  BY <1>0, <1>2 DEF GetLatestBlock, TypeOK, ControlAt
<1>3. CASE GetBlockByHash(c)
  <2>1. /\ pc[c] = "hash" /\ pc'[c] \in {"hash transfers", "index", "purse"}
        /\ req'[c] = req[c] /\ txs'[c] = txs[c]
    BY <1>0, <1>3 DEF GetBlockByHash, TypeOK
  <2> QED
    BY <1>0, <2>1 DEF ControlAt
<1>4. CASE GetBlockByHeight(c)
  BY <1>0, <1>4 DEF GetBlockByHeight, TypeOK, ControlAt
<1>5. CASE GetPeers(c) \/ GetAccountPurse(c) \/ TakeUref(c) \/ GetAccountBalance(c)
  BY <1>0, <1>5 DEF GetPeers, GetAccountPurse, TakeUref, GetAccountBalance, TypeOK, ControlAt
<1>6. CASE Reject(c) \/ RpcFails(c) \/ Panic(c)
  BY <1>0, <1>6 DEF Reject, RpcFails, Panic, TypeOK
<1> QED
  BY <1>1, <1>2, <1>3, <1>4, <1>5, <1>6

\* The transfers a block's call reads last are those of the block it has.
LEMMA HoldsTransfers ==
  ASSUME IInv, NEW c \in Calls, HoldsAt(c), chain' = chain,
         GetBlockTransfersByHash(c) \/ GetBlockTransfersByHeight(c)
  PROVE  HoldsAt(c)'
<1>0. ControlAt(c) /\ NamedAt(c) /\ SnapshotAt(c) /\ TypeOK
  BY DEF IInv, ControlInv, NamedInv, SnapshotInv
<1>1. /\ pc[c] \in {"hash transfers", "index transfers"} /\ pc'[c] \in {"index", "proposer"}
      /\ req'[c] = req[c] /\ block'[c] = block[c] /\ deploy'[c] = deploy[c]
      /\ txs'[c] = txs[c]
  BY <1>0 DEF GetBlockTransfersByHash, GetBlockTransfersByHeight, TypeOK
<1>2. PICK h \in Heights :
        /\ transfers'[c] = At(h).transfers
        /\ pc[c] = "hash transfers" => BlockHash(h) = req[c].id.hash
        /\ pc[c] = "index transfers" => h = req[c].id.index
  BY <1>0 DEF GetBlockTransfersByHash, GetBlockTransfersByHeight, ByHash, ByHeight, TypeOK
<1>3. ASSUME Serves(c, {"block"}), req[c].id # NULL, block[c] # NoBlock, pc'[c] = "proposer"
      PROVE  transfers'[c] = chain'[block'[c].height + 1].transfers
  <2>1. block[c].height \in Heights /\ block[c].hash = BlockHash(block[c].height)
    <3>1. PICK k \in Heights : k = block[c].height /\ block[c] = BlockResponse(k)
      BY <1>0, <1>3 DEF SnapshotAt, OnChain
    <3> QED
      BY <3>1 DEF BlockResponse, Reply
  <2>2. NamedBlock(c, req[c].id)
    BY <1>0, <1>3 DEF NamedAt, Serves
  <2>3. h = block[c].height
    <3>1. CASE pc[c] = "hash transfers"
      <4>1. BlockHash(h) = BlockHash(block[c].height)
        BY <1>2, <2>1, <2>2, <3>1 DEF NamedBlock
      <4> QED
        BY <4>1 DEF BlockHash
    <3>2. CASE pc[c] = "index transfers"
      BY <1>2, <2>2, <3>2 DEF NamedBlock
    <3> QED
      BY <1>1, <3>1, <3>2
  <2> QED
    BY <1>1, <1>2, <2>3 DEF At
<1>4. ASSUME Serves(c, {"transaction"})
      PROVE  HoldsDeploy(c)'
  <2>1. pc[c] = "hash transfers" /\ HoldsDeploy(c)
    BY <1>0, <1>1, <1>4 DEF ControlAt, HoldsAt, Serves
  <2>2. \E t \in ByHash(req[c].id.hash)' : transfers'[c] = chain'[t + 1].transfers
    <3>1. h \in ByHash(req[c].id.hash)'
      BY <1>1, <1>2, <2>1 DEF ByHash, Heights
    <3> QED
      BY <1>2, <3>1 DEF At
  <2> QED
    BY <1>1, <2>1, <2>2 DEF HoldsDeploy, At, NoBlock
<1> QED
  BY <1>1, <1>3, <1>4 DEF HoldsAt, HoldsBlock, Serves, At, NoBlock

\* The deploy a transaction's call looks at is the one it was asked about, and
\* the block it gets that of the deploy.
LEMMA HoldsPlace ==
  ASSUME IInv, NEW c \in Calls, HoldsAt(c), chain' = chain,
         GetDeployToPlace(c) \/ GetBlockResponse(c)
  PROVE  HoldsAt(c)'
<1>0. ControlAt(c) /\ TypeOK
  BY DEF IInv, ControlInv
<1>1. CASE GetDeployToPlace(c)
  <2>1. /\ pc[c] = "place" /\ pc'[c] = "place block" /\ req'[c] = req[c]
        /\ txs'[c] = txs[c] /\ Serves(c, {"transaction"})
    BY <1>0, <1>1 DEF GetDeployToPlace, TypeOK, ControlAt
  <2>2. PICK d \in DeployReplies(req[c].deploy) : deploy'[c] = d
    BY <1>0, <1>1 DEF GetDeployToPlace, TypeOK
  <2>3. Replied(chain, d) /\ d.hash = req[c].deploy
    BY <1>0, <2>2, RepliesAre DEF TypeOK
  <2> QED
    BY <2>1, <2>2, <2>3 DEF HoldsAt, HoldsBlock, HoldsDeploy, Serves
<1>2. CASE GetBlockResponse(c)
  <2>1. /\ pc[c] = "place block" /\ pc'[c] = "hash transfers" /\ req'[c] = req[c]
        /\ txs'[c] = txs[c] /\ deploy'[c] = deploy[c] /\ Serves(c, {"transaction"})
    BY <1>0, <1>2 DEF GetBlockResponse, TypeOK, ControlAt
  <2>2. PICK h \in Heights : /\ BlockHash(h) = deploy[c].blockHash
                             /\ block'[c] = BlockResponse(h)
    BY <1>0, <1>2 DEF GetBlockResponse, ByHash, TypeOK
  <2>3. block'[c] # NoBlock /\ block'[c].hash = deploy[c].blockHash
    BY <1>0, <2>2, BlockReply DEF TypeOK
  <2>4. Replied(chain, deploy[c]) /\ deploy[c].hash = req[c].deploy
    BY <2>1 DEF HoldsAt, HoldsDeploy
  <2> QED
    BY <2>1, <2>3, <2>4 DEF HoldsAt, HoldsBlock, HoldsDeploy, Serves, NoBlock
<1> QED
  BY <1>1, <1>2

\* From then on a call holds the same block, transfers and transaction's deploy.
LEMMA HoldsOn ==
  ASSUME TypeOK, NEW c \in Calls, HoldsAt(c), chain' = chain,
         pc[c] \in {"proposer", "deploy", "signer"},
         pc'[c] \in {"deploy", "signer", "done"},
         req'[c] = req[c], block'[c] = block[c], transfers'[c] = transfers[c],
         Serves(c, {"transaction"}) => deploy'[c] = deploy[c],
         pc'[c] # "done" => Builds(c)'
  PROVE  HoldsAt(c)'
<1>1. Serves(c, {"block"}) => HoldsBlock(c)'
  BY DEF HoldsAt, HoldsBlock, At, NoBlock
<1>2. Serves(c, {"transaction"}) => HoldsDeploy(c)'
  <2> SUFFICES ASSUME Serves(c, {"transaction"}) PROVE HoldsDeploy(c)'
    OBVIOUS
  <2>1. PICK t \in ByHash(req[c].id.hash) : transfers[c] = At(t).transfers
    BY DEF HoldsAt, HoldsDeploy
  <2>2. t \in ByHash(req[c].id.hash)' /\ transfers'[c] = chain'[t + 1].transfers
    BY <2>1 DEF ByHash, Heights, At
  <2> QED
    BY <2>2 DEF HoldsAt, HoldsDeploy, At, NoBlock
<1> QED
  BY <1>1, <1>2 DEF HoldsAt, Serves

\* The proposer's purse is that of the proposer of a block the call has.
LEMMA ProposerPurse ==
  ASSUME TypeOK, NEW c \in Calls, GetProposerPurse(c)
  PROVE  block[c] # NoBlock /\ purse'[c] = Uref(MainPurse[block[c].proposer])
<1>1. PICK p \in MainPurseAt(block[c].proposer, block[c].stateRoot) : purse'[c] = p
  BY DEF GetProposerPurse, TypeOK
<1>2. block[c].proposer \in Accounts /\ p = Uref(MainPurse[block[c].proposer])
  BY DEF MainPurseAt
<1>3. block[c] # NoBlock
  <2>1. NULL \notin Accounts
    BY NodeAssumption DEF Keys
  <2>2. NoBlock.proposer = NULL
    BY DEF NoBlock
  <2> QED
    BY <1>2, <2>1, <2>2
<1> QED
  BY <1>1, <1>2, <1>3

\* With the proposer's purse the list of deploys to report on is drawn up.
LEMMA HoldsProposer ==
  ASSUME IInv, NEW c \in Calls, HoldsAt(c), chain' = chain, GetProposerPurse(c)
  PROVE  HoldsAt(c)'
<1>0. ControlAt(c) /\ TypeOK
  BY DEF IInv, ControlInv
<1> DEFINE deploys == IF req[c].op = "block" THEN Mapped(c) ELSE {deploy[c].hash}
<1>1. /\ pc[c] = "proposer" /\ req'[c] = req[c] /\ block'[c] = block[c]
      /\ transfers'[c] = transfers[c] /\ deploy'[c] = deploy[c] /\ txs'[c] = txs[c]
      /\ todo'[c] = deploys
  BY <1>0 DEF GetProposerPurse, TypeOK
<1>2. IF deploys = {} THEN pc'[c] = "done" ELSE pc'[c] = "deploy"
  BY <1>0 DEF GetProposerPurse, ReturnTransactions, TypeOK
<1>3. Serves(c, {"block", "transaction"}) /\ txs[c] = <<>>
  BY <1>0, <1>1 DEF ControlAt, HoldsAt
<1>4. Sought(c)' = deploys
  <2>1. Mapped(c)' = Mapped(c)
    BY <1>1, MappedStays
  <2>2. req[c].op # "block" => deploy[c].hash = req[c].deploy
    BY <1>1, <1>3 DEF HoldsAt, HoldsDeploy, Serves
  <2> QED
    BY <1>1, <2>1, <2>2 DEF Sought
<1> HIDE DEF deploys
<1>5. ASSUME pc'[c] # "done"
      PROVE  Builds(c)'
  <2>1. pc'[c] = "deploy" /\ deploys # {}
    BY <1>2, <1>5
  <2>2. Looked(c)' = {}
    BY <1>1, <1>3, <2>1 DEF Looked, Hashes
  <2>3. AllReplied(chain, txs[c])' /\ Distinct(txs[c])'
    BY <1>1, <1>3 DEF AllReplied, Distinct
  <2>4. block'[c] # NoBlock /\ purse'[c] = Uref(MainPurse[block'[c].proposer])
    BY <1>0, <1>1, ProposerPurse
  <2> QED
    BY <1>1, <1>4, <2>1, <2>2, <2>3, <2>4 DEF Builds, NoBlock
<1> QED
  BY <1>0, <1>1, <1>2, <1>5, HoldsOn

\* The deploy a call looks up is one of its list; a transaction's it has already.
LEMMA HoldsLookup ==
  ASSUME IInv, ChainInv, NEW c \in Calls, HoldsAt(c), chain' = chain, GetDeploy(c)
  PROVE  HoldsAt(c)'
<1>0. ControlAt(c) /\ TypeOK
  BY DEF IInv, ControlInv
<1>1. /\ pc[c] = "deploy" /\ pc'[c] = "signer" /\ req'[c] = req[c] /\ block'[c] = block[c]
      /\ transfers'[c] = transfers[c] /\ purse'[c] = purse[c] /\ txs'[c] = txs[c]
  BY <1>0 DEF GetDeploy, TypeOK
<1>2. PICK d \in todo[c] : /\ deploy'[c] \in DeployReplies(d)
                           /\ todo'[c] = todo[c] \ {d}
  <2>1. PICK d \in todo[c] :
          /\ \E r \in DeployReplies(d) : deploy' = [deploy EXCEPT ![c] = r]
          /\ todo' = [todo EXCEPT ![c] = todo[c] \ {d}]
    BY <1>0 DEF GetDeploy
  <2> QED
    BY <1>0, <2>1 DEF TypeOK
<1>3. PICK r : r = deploy'[c] /\ Replied(chain, r) /\ r.hash = d
  BY <1>0, <1>2, RepliesAre DEF TypeOK
<1>4. Builds(c) /\ Serves(c, {"block", "transaction"})
  BY <1>0, <1>1 DEF HoldsAt, ControlAt
<1>5. Looked(c) = Hashes(txs[c])
  BY <1>1 DEF Looked
<1>6. Looked(c)' = Hashes(txs[c]) \cup {d}
  BY <1>1, <1>3 DEF Looked, Hashes
<1>7. Sought(c)' = Sought(c)
  <2>1. Mapped(c)' = Mapped(c)
    BY <1>1, MappedStays
  <2> QED
    BY <1>1, <2>1 DEF Sought
<1>8. /\ Sought(c) = todo'[c] \cup (Hashes(txs[c]) \cup {d})
      /\ todo'[c] \cap (Hashes(txs[c]) \cup {d}) = {} /\ d \notin Hashes(txs[c])
  BY <1>2, <1>4, <1>5 DEF Builds
<1>9. Builds(c)'
  BY <1>1, <1>3, <1>4, <1>6, <1>7, <1>8 DEF Builds, NoBlock, Hashes
<1>10. ASSUME Serves(c, {"transaction"})
       PROVE  deploy'[c] = deploy[c]
  <2>1. Sought(c) = {req[c].deploy} /\ d \in Sought(c)
    BY <1>2, <1>4, <1>10 DEF Sought, Serves, Builds
  <2>2. PICK q : q = deploy[c] /\ Replied(chain, q) /\ q.hash = req[c].deploy
    BY <1>1, <1>10 DEF HoldsAt, HoldsDeploy
  <2>3. PICK h \in Heights : \E e \in Ran(At(h)) : q = DeployReply(e, h)
    BY <2>2 DEF Replied, Heights, At
  <2>4. PICK e \in Ran(At(h)) : q = DeployReply(e, h)
    BY <2>3
  <2>5. e.deploy = r.hash
    BY <1>3, <2>1, <2>2, <2>4 DEF DeployReply
  <2>6. r = DeployReply(e, h)
    BY <1>0, <1>3, <2>5, OneReply DEF TypeOK
  <2> QED
    BY <1>3, <2>2, <2>4, <2>6
<1> QED
  BY <1>0, <1>1, <1>9, <1>10, HoldsOn

\* One more transaction, of a deploy that has none yet.
LEMMA MadeOneMore ==
  ASSUME NEW blocks, NEW S, NEW made \in Seq(S), NEW x \in S,
         AllReplied(blocks, made), Distinct(made),
         Replied(blocks, x.deploy), x.signer = Uref(MainPurse[x.deploy.account]),
         x.deploy.hash \notin Hashes(made)
  PROVE  /\ AllReplied(blocks, Append(made, x)) /\ Distinct(Append(made, x))
         /\ Hashes(Append(made, x)) = Hashes(made) \cup {x.deploy.hash}
<1> DEFINE more == Append(made, x)
           n == Len(made)
<1>1. /\ n \in Nat /\ DOMAIN made = 1 .. n /\ DOMAIN more = 1 .. n + 1
      /\ \A i \in 1 .. n : more[i] = made[i]
      /\ more[n + 1] = x
  OBVIOUS
<1> HIDE DEF more, n
<1>2. \A i \in 1 .. n + 1 : i \in 1 .. n \/ i = n + 1
  BY <1>1
<1>3. AllReplied(blocks, more)
  BY <1>1, <1>2 DEF AllReplied
<1>4. Hashes(more) = Hashes(made) \cup {x.deploy.hash}
  BY <1>1, <1>2 DEF Hashes
<1>5. Distinct(more)
  <2> SUFFICES ASSUME NEW i \in 1 .. n + 1, NEW j \in 1 .. n + 1,
                      more[i].deploy.hash = more[j].deploy.hash
               PROVE  i = j
    BY <1>1 DEF Distinct
  <2>1. \A k \in 1 .. n : made[k].deploy.hash # x.deploy.hash
    BY <1>1 DEF Hashes
  <2> QED
    BY <1>1, <1>2, <2>1 DEF Distinct
<1> QED
  BY <1>3, <1>4, <1>5 DEF more

\* What a call has built after it has found the signer's purse.
LEMMA SignerPurse ==
  ASSUME IInv, NEW c \in Calls, HoldsAt(c), chain' = chain, GetSignerPurse(c)
  PROVE  /\ AllReplied(chain, txs'[c]) /\ Distinct(txs'[c])
         /\ Hashes(txs'[c]) = Looked(c) /\ todo'[c] = todo[c]
         /\ req'[c] = req[c] /\ block'[c] = block[c] /\ transfers'[c] = transfers[c]
         /\ deploy'[c] = deploy[c] /\ purse'[c] = purse[c]
<1>0. TypeOK
  BY DEF IInv
<1>1. /\ pc[c] = "signer" /\ todo'[c] = todo[c] /\ req'[c] = req[c]
      /\ block'[c] = block[c] /\ transfers'[c] = transfers[c]
      /\ deploy'[c] = deploy[c] /\ purse'[c] = purse[c]
  BY DEF GetSignerPurse
<1>2. PICK p \in MainPurseAt(deploy[c].account, block[c].stateRoot) :
        txs'[c] = Append(txs[c], [deploy |-> deploy[c], signer |-> p])
  BY <1>0 DEF GetSignerPurse, TypeOK
<1>3. PICK x : x = [deploy |-> deploy[c], signer |-> p]
  OBVIOUS
<1>4. x.deploy = deploy[c] /\ x.signer = Uref(MainPurse[deploy[c].account])
  BY <1>3 DEF MainPurseAt
<1>5. Builds(c)
  BY <1>1 DEF HoldsAt
<1>6. PICK made : made = txs[c] /\ made \in Seq([deploy : DeployResponses, signer : Urefs])
  BY <1>0 DEF TypeOK
<1>7. x \in [deploy : DeployResponses, signer : Urefs]
  <2>1. deploy[c] \in DeployResponses
    BY <1>0, <1>1 DEF TypeOK, IInv, ControlInv, ControlAt
  <2> QED
    BY <1>3, <2>1, MainPurseReply
<1>8. /\ AllReplied(chain, Append(made, x)) /\ Distinct(Append(made, x))
      /\ Hashes(Append(made, x)) = Hashes(made) \cup {x.deploy.hash}
  <2>1. AllReplied(chain, made) /\ Distinct(made)
    BY <1>5, <1>6 DEF Builds
  <2>2. Replied(chain, x.deploy) /\ x.deploy.hash \notin Hashes(made)
    BY <1>1, <1>4, <1>5, <1>6 DEF Builds
  <2>3. x.signer = Uref(MainPurse[x.deploy.account])
    BY <1>4
  <2>4. PICK S : made \in Seq(S) /\ x \in S
    BY <1>6, <1>7
  <2> QED
    BY ONLY <2>1, <2>2, <2>3, <2>4, MadeOneMore
<1>9. Looked(c) = Hashes(made) \cup {x.deploy.hash}
  BY <1>1, <1>4, <1>6 DEF Looked
<1> QED
  BY <1>1, <1>2, <1>3, <1>6, <1>8, <1>9

\* With the signer's purse another transaction is there.
LEMMA HoldsSigner ==
  ASSUME IInv, NEW c \in Calls, HoldsAt(c), chain' = chain, GetSignerPurse(c)
  PROVE  HoldsAt(c)'
<1>0. TypeOK
  BY DEF IInv
<1>1. /\ AllReplied(chain, txs'[c]) /\ Distinct(txs'[c])
      /\ Hashes(txs'[c]) = Looked(c) /\ todo'[c] = todo[c]
      /\ req'[c] = req[c] /\ block'[c] = block[c] /\ transfers'[c] = transfers[c]
      /\ deploy'[c] = deploy[c] /\ purse'[c] = purse[c]
  BY SignerPurse
<1>2. pc[c] = "signer" /\ (pc'[c] = "done" \/ (pc'[c] = "deploy" /\ todo[c] # {}))
  BY <1>0 DEF GetSignerPurse, ReturnTransactions, TypeOK
<1>3. Builds(c)
  BY <1>2 DEF HoldsAt
<1>4. ASSUME pc'[c] # "done"
      PROVE  Builds(c)'
  <2>1. pc'[c] = "deploy" /\ todo[c] # {}
    BY <1>2, <1>4
  <2>2. Looked(c)' = Looked(c)
    <3>1. Looked(c)' = Hashes(txs'[c])
      BY <2>1 DEF Looked, Hashes
    <3> QED
      BY <1>1, <3>1
  <2>3. Sought(c)' = Sought(c)
    <3>1. Mapped(c)' = Mapped(c)
      BY <1>1, MappedStays
    <3> QED
      BY <1>1, <3>1 DEF Sought
  <2> QED
    BY <1>1, <1>3, <2>1, <2>2, <2>3 DEF Builds, NoBlock
<1> QED
  BY <1>0, <1>1, <1>2, <1>4, HoldsOn

\* A call's own step leaves it with what it needs next.
LEMMA HoldsOwn ==
  ASSUME IInv, ChainInv, NEW c \in Calls, Acts(c), HoldsAt(c)
  PROVE  HoldsAt(c)'
<1>1. chain' = chain
  BY ChainStays
<1>2. CASE \E r \in Requests : Ask(c, r)
  BY <1>2, HoldsAsk
<1>3. CASE GetBlockTransfersByHash(c) \/ GetBlockTransfersByHeight(c)
  BY <1>1, <1>3, HoldsTransfers
<1>4. CASE GetDeployToPlace(c) \/ GetBlockResponse(c)
  BY <1>1, <1>4, HoldsPlace
<1>5. CASE GetProposerPurse(c)
  BY <1>1, <1>5, HoldsProposer
<1>6. CASE GetDeploy(c)
  BY <1>1, <1>6, HoldsLookup
<1>7. CASE GetSignerPurse(c)
  BY <1>1, <1>7, HoldsSigner
<1>8. CASE \/ GetLatestBlock(c) \/ GetLatestBlockTransfers(c) \/ GetBlockByHash(c)
           \/ GetBlockByHeight(c) \/ GetPeers(c) \/ GetAccountPurse(c) \/ TakeUref(c)
           \/ GetAccountBalance(c) \/ Reject(c) \/ RpcFails(c) \/ Panic(c)
  BY <1>8, HoldsElse
<1> QED
  BY <1>2, <1>3, <1>4, <1>5, <1>6, <1>7, <1>8 DEF Acts, Step

LEMMA HoldsStep ==
  ASSUME IInv, ChainInv, HoldsInv, [Next]_vars
  PROVE  HoldsInv'
<1> SUFFICES ASSUME NEW c \in Calls PROVE HoldsAt(c)'
  BY DEF HoldsInv
<1>1. HoldsAt(c) /\ SnapshotAt(c) /\ TypeOK
  BY DEF HoldsInv, IInv, SnapshotInv
<1>2. CASE Acts(c)
  BY <1>1, <1>2, HoldsOwn
<1>3. CASE ~ Acts(c)
  BY <1>1, <1>3, OneActs, KeepsChain, HoldsStay
<1> QED
  BY <1>2, <1>3

------------------------------------------------------------------------------
(***************************************************************************)
(* What a call says when it has built its transactions.                    *)
(***************************************************************************)

\* The block a call has, as its height.
LEMMA BlockHeld ==
  ASSUME IInv, NEW c \in Calls, block[c] # NoBlock
  PROVE  \E h \in Heights : /\ block[c] = BlockResponse(h) /\ block[c].height = h
                            /\ block[c].hash = BlockHash(h)
                            /\ block[c].proposer = At(h).proposer
                            /\ block[c].stateRoot = StateRoot(h)
<1>1. PICK h \in Heights : h = block[c].height /\ block[c] = BlockResponse(h)
  BY DEF IInv, SnapshotInv, SnapshotAt, OnChain
<1> QED
  BY <1>1 DEF BlockResponse, Reply

\* The transaction of a reply, when the purses are those of its block.
LEMMA BuiltTransaction ==
  ASSUME NEW c, NEW h, NEW e, NEW x, x.deploy = DeployReply(e, h),
         x.signer = Uref(MainPurse[x.deploy.account]),
         purse[c] = Uref(MainPurse[At(h).proposer])
  PROVE  Transaction(c, x) =
           TransactionOn(h, e, IF req[c].op = "block" THEN Aliased(transfers[c], e.deploy)
                                                      ELSE Kept(transfers[c], e.deploy))
<1>1. x.deploy.hash = e.deploy /\ x.deploy.account = DeployOf[e.deploy].account
  BY DEF DeployReply
<1>2. OfDeploy(c, e.deploy) = Kept(transfers[c], e.deploy)
  BY DEF OfDeploy, Kept
<1>3. TransfersOf(c, e.deploy) = IF req[c].op = "block" THEN Aliased(transfers[c], e.deploy)
                                                        ELSE Kept(transfers[c], e.deploy)
  BY <1>2 DEF TransfersOf, Aliased
<1> QED
  BY <1>1, <1>3 DEF Transaction, TransactionOn

\* What has been built when the list is done.
Built(c, made) ==
  /\ AllReplied(chain, made) /\ Distinct(made) /\ Hashes(made) = Sought(c)
  /\ block[c] # NoBlock
  /\ made # <<>> => purse[c] = Uref(MainPurse[block[c].proposer])

LEMMA BlockBuilt ==
  ASSUME IInv, ChainInv, NEW c \in Calls, HoldsAt(c), pc[c] \in {"proposer", "signer"},
         req[c].op = "block", Serves(c, {"block"}), req[c].id # NULL,
         NEW S, NEW made \in Seq(S), Built(c, made)
  PROVE  BlockTold(BlockAnswer(block[c], [i \in DOMAIN made |-> Transaction(c, made[i])]))
<1>0. TypeOK /\ chain \in Seq(Block) /\ chain # <<>>
  BY DEF IInv, TypeOK
<1>1. PICK h \in Heights : /\ block[c] = BlockResponse(h) /\ block[c].height = h
                           /\ block[c].hash = BlockHash(h)
                           /\ block[c].proposer = At(h).proposer
  BY BlockHeld DEF Built
<1>2. transfers[c] = At(h).transfers
  BY <1>1 DEF HoldsAt, HoldsBlock, Built
<1>3. Hashes(made) = Shown(At(h))
  BY <1>0, <1>1, <1>2, MappedIsShown DEF Built, Sought
<1> DEFINE list == [i \in DOMAIN made |-> Transaction(c, made[i])]
           a == BlockAnswer(block[c], list)
<1>4. a.height = h /\ a.hash = BlockHash(h) /\ a.txs = list
  BY <1>1 DEF BlockAnswer
<1>5. \A i \in DOMAIN made : list[i].deploy = made[i].deploy.hash
  BY DEF Transaction
<1>6. ASSUME NEW i \in DOMAIN made
      PROVE  \E e \in Ran(At(h)) :
               list[i] = TransactionOn(h, e, Aliased(At(h).transfers, e.deploy))
  <2>1. PICK e \in Ran(At(h)) : e.deploy = made[i].deploy.hash
    <3>1. made[i].deploy.hash \in Shown(At(h))
      BY <1>3 DEF Hashes
    <3> QED
      BY <3>1 DEF Shown
  <2>2. Replied(chain, made[i].deploy) /\ made[i].signer = Uref(MainPurse[made[i].deploy.account])
    BY DEF Built, AllReplied
  <2>3. made[i].deploy = DeployReply(e, h)
    BY <1>0, <2>1, <2>2, OneReply
  <2>4. purse[c] = Uref(MainPurse[At(h).proposer])
    BY <1>1 DEF Built
  <2> QED
    BY <1>2, <2>2, <2>3, <2>4, BuiltTransaction
<1> HIDE DEF list
<1>7. DOMAIN list = DOMAIN made
  BY DEF list
<1>8. {list[i].deploy : i \in DOMAIN list} = Shown(At(h))
  BY <1>3, <1>5, <1>7 DEF Hashes
<1>9. \A i, j \in DOMAIN list : list[i].deploy = list[j].deploy => i = j
  BY <1>5, <1>7 DEF Built, Distinct
<1> HIDE DEF a
<1>10. \E Q : list \in Seq(Q)
  <2>1. PICK n \in Nat : DOMAIN made = 1 .. n
    BY LenProperties
  <2>2. list \in Seq({list[i] : i \in 1 .. n})
    BY <2>1 DEF list
  <2> QED
    BY <2>2
<1>11. BlockTold(a)
  BY <1>4, <1>6, <1>7, <1>8, <1>9, <1>10 DEF BlockTold
<1> QED
  BY <1>11 DEF a, list

LEMMA TransactionBuilt ==
  ASSUME IInv, ChainInv, NEW c \in Calls, HoldsAt(c), pc[c] \in {"proposer", "signer"},
         Serves(c, {"transaction"}), NEW S, NEW made \in Seq(S), Built(c, made)
  PROVE  TransactionTold(req[c], [kind |-> "transaction", tx |-> Transaction(c, made[1])])
<1>0. TypeOK /\ chain \in Seq(Block) /\ chain # <<>>
  BY DEF IInv, TypeOK
<1>1. HoldsDeploy(c) /\ req[c].op # "block"
  BY DEF HoldsAt, Serves
<1>2. PICK h \in Heights : block[c].hash = BlockHash(h) /\ block[c].proposer = At(h).proposer
  BY BlockHeld DEF Built
<1>3. Hashes(made) = {req[c].deploy}
  BY <1>1 DEF Built, Sought
<1>4. 1 \in DOMAIN made /\ made # <<>>
  <2>1. PICK i \in DOMAIN made : TRUE
    BY <1>3 DEF Hashes
  <2>2. DOMAIN made = 1 .. Len(made) /\ Len(made) \in Nat
    OBVIOUS
  <2> QED
    BY <2>1, <2>2
<1>5. PICK x : x = made[1] /\ x.deploy.hash = req[c].deploy /\ Replied(chain, x.deploy)
               /\ x.signer = Uref(MainPurse[x.deploy.account])
  BY <1>3, <1>4 DEF Hashes, Built, AllReplied
<1>6. PICK g \in Heights : \E e \in Ran(At(g)) : x.deploy = DeployReply(e, g)
  BY <1>5 DEF Replied, Heights, At
<1>7. PICK e \in Ran(At(g)) : x.deploy = DeployReply(e, g)
  BY <1>6
<1>8. e.deploy = req[c].deploy
  BY <1>5, <1>7 DEF DeployReply
<1>9. PICK q : q = deploy[c] /\ Replied(chain, q) /\ q.hash = req[c].deploy
               /\ block[c].hash = q.blockHash
  BY <1>1 DEF HoldsDeploy
<1>10. q = DeployReply(e, g)
  BY <1>0, <1>8, <1>9, OneReply
<1>11. h = g
  BY <1>2, <1>9, <1>10 DEF DeployReply, BlockHash
<1>12. PICK t \in ByHash(req[c].id.hash) : transfers[c] = At(t).transfers
  BY <1>1 DEF HoldsDeploy
<1>13. purse[c] = Uref(MainPurse[At(g).proposer])
  BY <1>2, <1>4, <1>11 DEF Built
<1>14. Transaction(c, x) = TransactionOn(g, e, Kept(At(t).transfers, e.deploy))
  BY <1>1, <1>5, <1>7, <1>12, <1>13, BuiltTransaction
<1> QED
  BY <1>5, <1>8, <1>12, <1>14 DEF TransactionTold

\* What a call returns with its transactions is what the chain says.
LEMMA ToldTransactions ==
  ASSUME IInv, ChainInv, NEW c \in Calls, HoldsAt(c), pc[c] \in {"proposer", "signer"},
         chain' = chain, req'[c] = req[c], NEW S, NEW made \in Seq(S), Built(c, made),
         ReturnTransactions(c, made)
  PROVE  ToldAt(c)'
<1>0. TypeOK /\ ControlAt(c)
  BY DEF IInv, ControlInv
<1>1. Serves(c, {"block", "transaction"})
  BY <1>0 DEF ControlAt
<1>2. ChainKept
  BY DEF ChainKept, Heights, At
<1>3. PICK a : a = answer'[c]
  OBVIOUS
<1>4. a = IF req[c].op = "block"
          THEN BlockAnswer(block[c], [i \in DOMAIN made |-> Transaction(c, made[i])])
          ELSE [kind |-> "transaction", tx |-> Transaction(c, made[1])]
  BY <1>0, <1>3 DEF ReturnTransactions, TypeOK
<1>5. CASE req[c].op = "block"
  <2>1. a.kind = "block"
    BY <1>4, <1>5 DEF BlockAnswer
  <2>2. req[c].id # NULL => BlockTold(a)
    BY <1>1, <1>4, <1>5, BlockBuilt DEF Serves
  <2>3. req[c].id # NULL => BlockTold(a)'
    BY <1>2, <2>2, BlockToldStays
  <2> QED
    BY <1>3, <2>1, <2>3 DEF ToldAt, NamesBlock, Succeeded
<1>6. CASE req[c].op # "block"
  <2>1. a.kind = "transaction" /\ Serves(c, {"transaction"})
    BY <1>1, <1>4, <1>6 DEF Serves
  <2>2. TransactionTold(req[c], a)
    BY <1>4, <1>6, <2>1, TransactionBuilt
  <2>3. PICK r : r = req[c]
    OBVIOUS
  <2>4. TransactionTold(r, a)'
    BY <1>2, <2>2, <2>3, TransactionToldStays
  <2> QED
    BY <1>3, <2>1, <2>3, <2>4 DEF ToldAt, NamesBlock, Succeeded, Serves
<1> QED
  BY <1>5, <1>6

\* When the last transaction is built, all are returned.
LEMMA Returns ==
  ASSUME IInv, ChainInv, NEW c \in Calls, HoldsAt(c), chain' = chain,
         GetProposerPurse(c) \/ GetSignerPurse(c)
  PROVE  \/ pc'[c] = "deploy" /\ answer' = answer
         \/ \E S : \E made \in Seq(S) : Built(c, made) /\ ReturnTransactions(c, made)
<1>0. TypeOK
  BY DEF IInv
<1>1. CASE GetSignerPurse(c)
  <2>1. pc[c] = "signer" /\ Builds(c)
    BY <1>1 DEF GetSignerPurse, HoldsAt
  <2>2. CASE todo[c] # {}
    BY <1>0, <1>1, <2>2 DEF GetSignerPurse, TypeOK
  <2>3. CASE todo[c] = {}
    <3>1. PICK made : made = txs'[c]
      OBVIOUS
    <3>2. ReturnTransactions(c, made)
      BY <1>1, <2>3, <3>1 DEF GetSignerPurse
    <3>3. made \in Seq(Range(made))
      <4>1. PICK p : made = Append(txs[c], p)
        BY <1>0, <1>1, <3>1 DEF GetSignerPurse, TypeOK
      <4>2. PICK s : s = txs[c] /\ s \in Seq([deploy : DeployResponses, signer : Urefs])
        BY <1>0 DEF TypeOK
      <4>3. made = [i \in 1 .. Len(made) |-> made[i]] /\ Len(made) \in Nat
        BY <4>1, <4>2
      <4> QED
        BY <4>3 DEF Range
    <3>4. /\ AllReplied(chain, made) /\ Distinct(made) /\ Hashes(made) = Looked(c)
      BY <1>1, <3>1, SignerPurse
    <3>5. Sought(c) = Looked(c)
      BY <2>1, <2>3 DEF Builds
    <3>6. Built(c, made)
      BY <2>1, <3>4, <3>5 DEF Built, Builds
    <3> QED
      BY <3>2, <3>3, <3>6
  <2> QED
    BY <2>2, <2>3
<1>2. CASE GetProposerPurse(c)
  <2> DEFINE deploys == IF req[c].op = "block" THEN Mapped(c) ELSE {deploy[c].hash}
  <2>1. block[c] # NoBlock
    BY <1>0, <1>2, ProposerPurse
  <2>2. CASE deploys # {}
    BY <1>0, <1>2, <2>2 DEF GetProposerPurse, TypeOK
  <2>3. CASE deploys = {}
    <3>1. PICK made \in Seq(Nat) : made = <<>>
      <4>1. <<>> \in Seq(Nat)
        BY ONLY TRUE
      <4> QED
        BY <4>1
    <3>2. ReturnTransactions(c, made)
      BY <1>2, <2>3, <3>1 DEF GetProposerPurse
    <3>3. Sought(c) = {} /\ Hashes(made) = {}
      <4>1. Sought(c) = {}
        <5>1. req[c].op = "block" /\ Mapped(c) = {}
          BY <2>3
        <5> QED
          BY <5>1 DEF Sought
      <4>2. Hashes(<<>>) = {}
        BY ONLY DEF Hashes
      <4> QED
        BY <3>1, <4>1, <4>2
    <3>4. AllReplied(chain, made) /\ Distinct(made)
      BY <3>1 DEF AllReplied, Distinct
    <3>5. Built(c, made)
      BY <2>1, <3>1, <3>3, <3>4 DEF Built
    <3> QED
      BY <3>2, <3>5
  <2> QED
    BY <2>2, <2>3
<1> QED
  BY <1>1, <1>2

\* A call's own step says what the chain says, or nothing yet.
LEMMA ToldOwn ==
  ASSUME IInv, ChainInv, NEW c \in Calls, Acts(c), HoldsAt(c), ToldAt(c)
  PROVE  ToldAt(c)'
<1>0. TypeOK /\ ControlAt(c) /\ chain' = chain
  BY ChainStays DEF IInv, ControlInv
<1>1. CASE GetProposerPurse(c) \/ GetSignerPurse(c)
  <2>1. pc[c] \in {"proposer", "signer"} /\ req'[c] = req[c]
    BY <1>1 DEF GetProposerPurse, GetSignerPurse
  <2>2. CASE answer' = answer
    <3>1. answer'[c] = answer[c] /\ answer[c] = NULL
      BY <1>0, <2>1, <2>2 DEF ControlAt
    <3> QED
      BY <3>1 DEF ToldAt, NamesBlock, Succeeded
  <2>3. CASE \E S : \E made \in Seq(S) : Built(c, made) /\ ReturnTransactions(c, made)
    <3>1. PICK S : \E made \in Seq(S) : Built(c, made) /\ ReturnTransactions(c, made)
      BY <2>3
    <3>2. PICK made \in Seq(S) : Built(c, made) /\ ReturnTransactions(c, made)
      BY <3>1
    <3> QED
      BY <1>0, <2>1, <3>2, ToldTransactions
  <2> QED
    BY <1>0, <1>1, <2>2, <2>3, Returns
<1>3. CASE GetPeers(c)
  BY <1>0, <1>3 DEF GetPeers, TypeOK, ToldAt, NamesBlock, Succeeded
<1>4. CASE GetAccountBalance(c)
  <2>1. answer'[c].kind = "balance"
    BY <1>0, <1>4 DEF GetAccountBalance, TypeOK
  <2> QED
    BY <2>1 DEF ToldAt, NamesBlock, Succeeded
<1>5. CASE Reject(c) \/ RpcFails(c) \/ Panic(c)
  <2>1. answer'[c].kind \in {"error", "panic"}
    BY <1>0, <1>5 DEF Reject, RpcFails, Panic, TypeOK
  <2> QED
    BY <2>1 DEF ToldAt, NamesBlock, Succeeded
<1>6. CASE \/ \E r \in Requests : Ask(c, r)
           \/ GetLatestBlock(c) \/ GetLatestBlockTransfers(c)
           \/ GetBlockByHash(c) \/ GetBlockTransfersByHash(c)
           \/ GetBlockByHeight(c) \/ GetBlockTransfersByHeight(c)
           \/ GetDeployToPlace(c) \/ GetBlockResponse(c) \/ GetDeploy(c)
           \/ GetAccountPurse(c) \/ TakeUref(c)
  <2>1. answer' = answer /\ pc[c] # "done"
    BY <1>6 DEF Ask, GetLatestBlock, GetLatestBlockTransfers, GetBlockByHash,
       GetBlockTransfersByHash, GetBlockByHeight, GetBlockTransfersByHeight,
       GetDeployToPlace, GetBlockResponse, GetDeploy, GetAccountPurse, TakeUref
  <2> QED
    BY <1>0, <2>1 DEF ControlAt, ToldAt, NamesBlock, Succeeded
<1> QED
  BY <1>1, <1>3, <1>4, <1>5, <1>6 DEF Acts, Step

LEMMA ToldStep ==
  ASSUME IInv, ChainInv, HoldsInv, ToldInv, [Next]_vars
  PROVE  ToldInv'
<1> SUFFICES ASSUME NEW c \in Calls PROVE ToldAt(c)'
  BY DEF ToldInv
<1>1. HoldsAt(c) /\ ToldAt(c) /\ TypeOK
  BY DEF HoldsInv, ToldInv, IInv
<1>2. CASE Acts(c)
  BY <1>1, <1>2, ToldOwn
<1>3. CASE ~ Acts(c)
  BY <1>1, <1>3, OneActs, KeepsChain, ToldStay
<1> QED
  BY <1>2, <1>3

------------------------------------------------------------------------------
(***************************************************************************)
(* All of it holds, of the client alone and of the client in the server.   *)
(***************************************************************************)
LedgerInv == IInv /\ ChainInv /\ HoldsInv /\ ToldInv

LEMMA LedgerInit == Init => LedgerInv
<1>1. Init => IInv
  <2>1. Init => BalanceAtReportedBlock
    BY DEF Init, BalanceAtReportedBlock, TrueBalance, Succeeded
  <2> QED
    BY <2>1, TypeInit, ControlInit, SnapshotInit, NamedInit DEF IInv
<1> QED
  BY <1>1, ChainInit, HoldsInit DEF LedgerInv

LEMMA LedgerStep == LedgerInv /\ [Next]_vars => LedgerInv'
<1> SUFFICES ASSUME LedgerInv, [Next]_vars PROVE LedgerInv'
  OBVIOUS
<1>1. IInv'
  BY TypeStep, ControlStep, SnapshotStep, BalanceStep, NamedStep DEF LedgerInv, IInv
<1>2. ChainInv'
  BY ChainStep DEF LedgerInv, IInv
<1> QED
  BY <1>1, <1>2, HoldsStep, ToldStep DEF LedgerInv

LEMMA LedgerInvariance == Spec => []LedgerInv
BY LedgerInit, LedgerStep, PTL DEF Spec

LEMMA ServerLedger == ServerSpec => [](LedgerInv /\ ServerInv)
<1>1. ServerInit => LedgerInv
  BY LedgerInit DEF ServerInit
<1>2. LedgerInv /\ ServerInv /\ [ServerNext]_svars => LedgerInv'
  BY LedgerStep, ServerStepIsClientStep DEF ServerInv
<1> QED
  BY <1>1, <1>2, ServerInvInit, ServerInvStep, PTL DEF ServerSpec

------------------------------------------------------------------------------
(***************************************************************************)
(* What is said of a deploy, wherever it is said.                          *)
(***************************************************************************)

\* With one transfer at most, an alias of the last one is no mistake.
LEMMA AliasOfOne ==
  ASSUME NEW S, NEW list \in Seq(S), Len(list) <= 1, NEW d
  PROVE  Aliased(list, d) = Kept(list, d)
<1>1. CASE Len(list) = 1
  <2>1. list \in Seq(S) /\ Len(list) = 1
    BY <1>1
  <2>2. K!Folded(d, <<>>, list) = Keep(d, <<>>, list[1])
    BY ONLY <2>1, K!FoldOfFew
  <2>3. Kept(list, d) = IF list[1].deploy = d THEN <<list[1]>> ELSE <<>>
    BY <2>2, KeptIsFold DEF Keep
  <2> QED
    BY <2>1, <2>3 DEF Aliased
<1>2. CASE Len(list) = 0
  <2>1. \A i \in 1 .. Len(list) : list[i].deploy # d
    BY <1>2
  <2>2. K!Folded(d, <<>>, list) = <<>>
    BY <2>1, KeepNone
  <2>3. Kept(list, d) = <<>>
    BY <2>2, KeptIsFold
  <2> QED
    BY <2>3 DEF Aliased
<1>3. PICK n \in Nat : n = Len(list) /\ n <= 1
  OBVIOUS
<1>4. n = 0 \/ n = 1
  BY ONLY <1>3
<1> QED
  BY <1>1, <1>2, <1>3, <1>4

\* What a call reports of a deploy under the block it ran in is the transaction
\* of that execution, with the transfers of the deploy.
LEMMA ReportedIs ==
  ASSUME LedgerInv, NEW c \in Calls, NEW x \in Reported(c), NEW h \in Heights,
         NEW e \in Ran(At(h)), e.deploy = x[2].deploy, x[1] = BlockHash(h),
         Len(At(h).transfers) <= 1
  PROVE  x[2] = TransactionOn(h, e, Kept(At(h).transfers, e.deploy))
<1>0. /\ ToldAt(c) /\ chain \in Seq(Block) /\ chain # <<>> /\ RunsOnce
      /\ At(h).transfers \in Seq(Transfer) /\ BlockTrue(At(h))
  BY BlockAtHeight DEF LedgerInv, IInv, TypeOK, ToldInv, ChainInv, Block
<1>1. \A d \in Ran(At(h)) : d.deploy = e.deploy => d = e
  BY <1>0 DEF BlockTrue, Ran
<1>2. CASE NamesBlock(c)
  <2>1. BlockTold(answer[c])
    BY <1>0, <1>2 DEF ToldAt
  <2>2. PICK i \in DOMAIN answer[c].txs : x = <<answer[c].hash, answer[c].txs[i]>>
    BY <1>2 DEF Reported
  <2>3. answer[c].height = h
    BY <2>1, <2>2 DEF BlockTold, BlockHash
  <2>4. PICK d \in Ran(At(h)) :
          x[2] = TransactionOn(h, d, Aliased(At(h).transfers, d.deploy))
    BY <2>1, <2>2, <2>3 DEF BlockTold
  <2>5. d = e
    BY <1>1, <2>4 DEF TransactionOn
  <2>6. Aliased(At(h).transfers, e.deploy) = Kept(At(h).transfers, e.deploy)
    BY <1>0, AliasOfOne
  <2> QED
    BY <2>4, <2>5, <2>6
<1>3. CASE ~ NamesBlock(c)
  <2>1. Succeeded(c, "transaction") /\ x = <<req[c].id.hash, answer[c].tx>>
    BY <1>3 DEF Reported
  <2>2. TransactionTold(req[c], answer[c])
    BY <1>0, <2>1 DEF ToldAt
  <2>3. PICK g \in Heights : \E d \in Ran(At(g)), t \in ByHash(req[c].id.hash) :
          d.deploy = req[c].deploy /\ x[2] = TransactionOn(g, d, Kept(At(t).transfers, d.deploy))
    BY <2>1, <2>2 DEF TransactionTold
  <2>4. PICK d \in Ran(At(g)), t \in ByHash(req[c].id.hash) :
          x[2] = TransactionOn(g, d, Kept(At(t).transfers, d.deploy))
    BY <2>3
  <2>5. t = h
    BY <1>0, <2>1, OneByHash
  <2>6. d.deploy = e.deploy
    BY <2>4 DEF TransactionOn
  <2>7. g = h /\ d = e
    BY <1>0, <1>1, <2>6 DEF RunsOnce
  <2> QED
    BY <2>4, <2>5, <2>7
<1> QED
  BY <1>2, <1>3

LEMMA LedgerAgrees == LedgerInv => AnswersAgree
<1> SUFFICES ASSUME LedgerInv, NEW c \in Calls, NEW d \in Calls,
                    NEW x \in Reported(c), NEW y \in Reported(d),
                    x[1] = y[1], x[2].deploy = y[2].deploy,
                    NEW h \in RanAt(x[2].deploy), x[1] = BlockHash(h),
                    Len(At(h).transfers) <= 1
             PROVE  x[2] = y[2]
  BY DEF AnswersAgree
<1>1. PICK e \in Ran(At(h)) : e.deploy = x[2].deploy
  BY DEF RanAt
<1>2. h \in Heights
  BY DEF RanAt
<1>3. x[2] = TransactionOn(h, e, Kept(At(h).transfers, e.deploy))
  BY <1>1, <1>2, ReportedIs
<1>4. y[2] = TransactionOn(h, e, Kept(At(h).transfers, e.deploy))
  BY <1>1, <1>2, ReportedIs
<1> QED
  BY <1>3, <1>4

(***************************************************************************)
(* README.md:31: the server's answers about a deploy in the block it ran   *)
(* in agree, whichever calls give them and whenever, where the block holds *)
(* one transfer at most.                                                   *)
(***************************************************************************)
THEOREM AnswersNeverDisagree == ServerSpec => []AnswersAgree
BY ServerLedger, LedgerAgrees, PTL

(***************************************************************************)
(* client.go:173-208: a call that names a block lists every deploy the     *)
(* block shows, and each once.                                             *)
(***************************************************************************)
THEOREM BlocksAreListed == Spec => []BlockListsItsDeploys
<1>1. LedgerInv => BlockListsItsDeploys
  BY DEF LedgerInv, ToldInv, ToldAt, BlockTold, BlockListsItsDeploys
<1> QED
  BY <1>1, LedgerInvariance, PTL

------------------------------------------------------------------------------
(***************************************************************************)
(* What the operations of a transaction, and of a block, add up to.        *)
(***************************************************************************)
\* The operations of an execution, with all its transfers, add up to its movements.
LEMMA OperationsAddUp ==
  ASSUME NEW e \in Execution, NEW h, NEW p
  PROVE  /\ NetOps(TransactionOn(h, e, Listed(e)).ops, p) = Net(Movements(e, At(h).proposer), p)
         /\ Net(Movements(e, At(h).proposer), p) \in Int
<1>1. PICK k : k = At(h).proposer
  OBVIOUS
<1>2. PICK ops : ops = Operations(DeployReply(e, h), Listed(e),
                                  Uref(MainPurse[DeployOf[e.deploy].account]),
                                  Uref(MainPurse[k]))
  OBVIOUS
<1>3. TransactionOn(h, e, Listed(e)).ops = ops
  BY <1>1, <1>2 DEF TransactionOn
<1>4. PICK moves : moves = Movements(e, k)
  OBVIOUS
<1>5. /\ \E S : moves \in Seq(S)
      /\ \E T : ops \in Seq(T)
      /\ \A j \in 1 .. Len(moves) : moves[j].amount \in Int
      /\ Paired(ops, moves)
  BY <1>2, <1>4, OperationsArePaired
<1>6. NetOps(ops, p) = Net(moves, p) /\ Net(moves, p) \in Int
  BY ONLY <1>5, PairsAddUp
<1> QED
  BY <1>1, <1>3, <1>4, <1>6

(***************************************************************************)
(* client.go:288-446: the operations of a transaction move exactly what    *)
(* the execution of its deploy moved, asked for under the block it ran in. *)
(***************************************************************************)
THEOREM TransactionsAreWhole == Spec => []TransactionIsWhole
<1>1. LedgerInv => TransactionIsWhole
  <2> SUFFICES ASSUME LedgerInv, NEW c \in Calls, Succeeded(c, "transaction"),
                      NEW h \in Heights, NEW e \in Ran(At(h)),
                      e.deploy = req[c].deploy, req[c].id.hash = BlockHash(h),
                      NEW p \in Purses
               PROVE  NetOps(answer[c].tx.ops, p) = Net(Movements(e, At(h).proposer), p)
    BY DEF TransactionIsWhole
  <2>0. /\ chain \in Seq(Block) /\ chain # <<>> /\ RunsOnce /\ BlockTrue(At(h))
        /\ At(h).executions \in Seq(Execution)
    BY BlockAtHeight DEF LedgerInv, IInv, TypeOK, ChainInv, Block
  <2>1. TransactionTold(req[c], answer[c])
    BY DEF LedgerInv, ToldInv, ToldAt
  <2>2. PICK g \in Heights : \E d \in Ran(At(g)), t \in ByHash(req[c].id.hash) :
          /\ d.deploy = req[c].deploy
          /\ answer[c].tx = TransactionOn(g, d, Kept(At(t).transfers, d.deploy))
    BY <2>1 DEF TransactionTold
  <2>3. PICK d \in Ran(At(g)), t \in ByHash(req[c].id.hash) :
          /\ d.deploy = req[c].deploy
          /\ answer[c].tx = TransactionOn(g, d, Kept(At(t).transfers, d.deploy))
    BY <2>2
  <2>4. t = h
    BY <2>0, OneByHash
  <2>5. g = h
    BY <2>0, <2>3 DEF RunsOnce
  <2>6. d = e
    BY <2>0, <2>3, <2>5 DEF BlockTrue, Ran
  <2>7. PICK x \in Seq(Execution) : x = At(h).executions
    BY <2>0
  <2>8. PICK n \in 1 .. Len(x) : e = x[n]
    BY <2>7 DEF Ran
  <2>9. Kept(AllListed(x), e.deploy) = Listed(e)
    <3>1. \A i, j \in DOMAIN x : x[i].deploy = x[j].deploy => i = j
      BY <2>0, <2>7 DEF BlockTrue
    <3> QED
      BY <2>8, <3>1, KeptIsListed
  <2>10. Kept(At(h).transfers, e.deploy) = Listed(e)
    BY <2>0, <2>7, <2>9 DEF BlockTrue
  <2>11. answer[c].tx.ops = TransactionOn(h, e, Listed(e)).ops
    BY <2>3, <2>4, <2>5, <2>6, <2>10
  <2>12. e \in Execution
    BY <2>8
  <2> QED
    BY <2>11, <2>12, OperationsAddUp
<1> QED
  BY <1>1, LedgerInvariance, PTL

\* The amounts of an execution's operations are numbers.
LEMMA OperationsAreNumbers ==
  ASSUME NEW e \in Execution, NEW h, NEW ops, ops = TransactionOn(h, e, Listed(e)).ops
  PROVE  /\ \E T : ops \in Seq(T)
         /\ \A q \in 1 .. Len(ops) : ops[q].amount \in Int
<1>1. PICK k : k = At(h).proposer
  OBVIOUS
<1>2. PICK moves : moves = Movements(e, k)
  OBVIOUS
<1>3. ops = Operations(DeployReply(e, h), Listed(e),
                       Uref(MainPurse[DeployOf[e.deploy].account]), Uref(MainPurse[k]))
  BY <1>1 DEF TransactionOn
<1>4. /\ \E S : moves \in Seq(S)
      /\ \E T : ops \in Seq(T)
      /\ \A j \in 1 .. Len(moves) : moves[j].amount \in Int
      /\ Paired(ops, moves)
  BY <1>2, <1>3, OperationsArePaired
<1>5. ASSUME NEW q \in 1 .. Len(ops)
      PROVE  ops[q].amount \in Int
  <2>1. Len(moves) \in Nat /\ Len(ops) = 2 * Len(moves)
    BY <1>4 DEF Paired
  <2>2. \E j \in 1 .. Len(moves) : q = 2 * j - 1 \/ q = 2 * j
    <3>1. q \in Int /\ 1 <= q /\ q <= 2 * Len(moves)
      BY <2>1
    <3>2. PICK j \in Int : j = (q + 1) \div 2
      BY <3>1
    <3>3. q = 2 * j - 1 \/ q = 2 * j
      BY <3>1, <3>2
    <3>4. j \in 1 .. Len(moves)
      BY <2>1, <3>1, <3>3
    <3> QED
      BY <3>3, <3>4
  <2>3. PICK j \in 1 .. Len(moves) : q = 2 * j - 1 \/ q = 2 * j
    BY <2>2
  <2>4. PICK a \in Int : a = moves[j].amount
    BY <1>4
  <2>5. ops[2 * j - 1].amount = - a /\ ops[2 * j].amount = a
    BY <1>4, <2>4 DEF Paired
  <2>6. CASE q = 2 * j
    BY <2>5, <2>6
  <2>7. CASE q = 2 * j - 1
    <3>1. ops[q].amount = - a
      BY <2>5, <2>7
    <3> QED
      BY <3>1
  <2> QED
    BY <2>3, <2>6, <2>7
<1> QED
  BY <1>4, <1>5

\* In a block of one transfer at most, each execution has one transaction in an
\* answer that names the block, if the block shows every deploy it ran.
EachOnce(made, h, x, m, at) ==
  /\ DOMAIN made = 1 .. m /\ Reorders(at, m, Len(x))
  /\ \A i \in 1 .. m : made[i] = TransactionOn(h, x[at[i]], Listed(x[at[i]]))

LEMMA OneEach ==
  ASSUME LedgerInv, NEW c \in Calls, NamesBlock(c), NEW h, h = answer[c].height,
         Len(At(h).transfers) <= 1, ~ Hidden(At(h)), NEW x, x = At(h).executions
  PROVE  \E m \in Nat : \E at : EachOnce(answer[c].txs, h, x, m, at)
<1>0. /\ BlockTold(answer[c]) /\ chain \in Seq(Block) /\ chain # <<>> /\ h \in Heights
      /\ BlockTrue(At(h)) /\ x \in Seq(Execution) /\ At(h).transfers \in Seq(Transfer)
  <2>1. ToldAt(c)
    BY DEF LedgerInv, ToldInv
  <2>2. BlockTold(answer[c])
    BY <2>1 DEF ToldAt
  <2>3. h \in Heights
    BY <2>2 DEF BlockTold
  <2>4. chain \in Seq(Block) /\ chain # <<>> /\ BlockTrue(At(h))
    BY <2>3 DEF LedgerInv, IInv, TypeOK, ChainInv
  <2> QED
    BY <2>2, <2>3, <2>4, BlockAtHeight DEF Block
<1>1. PICK made : made = answer[c].txs
  OBVIOUS
<1>2. /\ \E S : made \in Seq(S)
      /\ \A i \in DOMAIN made : \E e \in Ran(At(h)) :
           made[i] = TransactionOn(h, e, Aliased(At(h).transfers, e.deploy))
      /\ {made[i].deploy : i \in DOMAIN made} = Shown(At(h))
      /\ \A i, j \in DOMAIN made : made[i].deploy = made[j].deploy => i = j
  BY <1>0, <1>1 DEF BlockTold
<1>3. PICK m \in Nat : DOMAIN made = 1 .. m
  BY <1>2
<1>4. DOMAIN x = 1 .. Len(x) /\ Len(x) \in Nat
  BY <1>0
<1>5. \A k \in 1 .. Len(x) : Aliased(At(h).transfers, x[k].deploy) = Listed(x[k])
  <2> SUFFICES ASSUME NEW k \in 1 .. Len(x)
               PROVE  Aliased(At(h).transfers, x[k].deploy) = Listed(x[k])
    OBVIOUS
  <2>1. Aliased(At(h).transfers, x[k].deploy) = Kept(At(h).transfers, x[k].deploy)
    BY <1>0, AliasOfOne
  <2>2. At(h).transfers = AllListed(x)
    BY <1>0 DEF BlockTrue
  <2>3. \A i, j \in DOMAIN x : x[i].deploy = x[j].deploy => i = j
    BY <1>0 DEF BlockTrue
  <2>4. Kept(AllListed(x), x[k].deploy) = Listed(x[k])
    BY <1>0, <2>3, KeptIsListed
  <2> QED
    BY <2>1, <2>2, <2>4
<1>6. \A i \in 1 .. m : \E k \in 1 .. Len(x) : made[i] = TransactionOn(h, x[k], Listed(x[k]))
  <2> SUFFICES ASSUME NEW i \in 1 .. m
               PROVE  \E k \in 1 .. Len(x) : made[i] = TransactionOn(h, x[k], Listed(x[k]))
    OBVIOUS
  <2>1. PICK e \in Ran(At(h)) :
          made[i] = TransactionOn(h, e, Aliased(At(h).transfers, e.deploy))
    BY <1>2, <1>3
  <2>2. PICK k \in 1 .. Len(x) : e = x[k]
    BY <1>4 DEF Ran
  <2> QED
    BY <1>5, <2>1, <2>2
<1> DEFINE at == [i \in 1 .. m |-> CHOOSE k \in 1 .. Len(x) :
                                     made[i] = TransactionOn(h, x[k], Listed(x[k]))]
<1>7. at \in [1 .. m -> 1 .. Len(x)]
      /\ \A i \in 1 .. m : made[i] = TransactionOn(h, x[at[i]], Listed(x[at[i]]))
  BY <1>6
<1> HIDE DEF at
<1>8. \A i \in 1 .. m : made[i].deploy = x[at[i]].deploy
  <2>1. \A e, moves : TransactionOn(h, e, moves).deploy = e.deploy
    BY DEF TransactionOn
  <2> QED
    BY <1>7, <2>1
<1>9. \A i, j \in 1 .. m : at[i] = at[j] => i = j
  BY <1>2, <1>3, <1>8
<1>10. \A k \in 1 .. Len(x) : \E i \in 1 .. m : at[i] = k
  <2> SUFFICES ASSUME NEW k \in 1 .. Len(x) PROVE \E i \in 1 .. m : at[i] = k
    OBVIOUS
  <2>1. x[k] \in Ran(At(h))
    BY <1>4 DEF Ran
  <2>2. x[k].deploy \in Shown(At(h))
    BY <2>1 DEF Hidden
  <2>3. PICK i \in 1 .. m : made[i].deploy = x[k].deploy
    BY <1>2, <1>3, <2>2
  <2>4. at[i] \in DOMAIN x /\ k \in DOMAIN x /\ x[at[i]].deploy = x[k].deploy
    BY <1>4, <1>7, <1>8, <2>3
  <2>5. at[i] = k
    BY <1>0, <2>4 DEF BlockTrue
  <2> QED
    BY <2>5
<1>11. Reorders(at, m, Len(x))
  BY <1>7, <1>9, <1>10 DEF Reorders
<1>12. EachOnce(made, h, x, m, at)
  BY <1>3, <1>7, <1>11 DEF EachOnce
<1> QED
  BY <1>1, <1>12

(***************************************************************************)
(* client.go:173-208: when a block, named, ran one transfer at most and    *)
(* shows every deploy it ran, its operations are all that happened to any  *)
(* purse.                                                                  *)
(***************************************************************************)
THEOREM OneTransferIsAll == Spec => []OneTransferIsExplained
<1>1. LedgerInv => OneTransferIsExplained
  <2> SUFFICES ASSUME LedgerInv, NEW c \in Calls, NamesBlock(c),
                      Len(At(answer[c].height).transfers) <= 1,
                      ~ Hidden(At(answer[c].height)), NEW p \in Purses, answer[c].height > 0
               PROVE  NetOps(OpsOf(answer[c]), p) = ChangeAt(answer[c].height, p)
    BY DEF OneTransferIsExplained, OneTransferAtMost, Full, Explains
  <2>1. PICK h, a : h = answer[c].height /\ a = answer[c]
    OBVIOUS
  <2>2. h \in Heights /\ chain \in Seq(Block) /\ chain # <<>> /\ h - 1 \in Heights
    <3>1. ToldAt(c)
      BY DEF LedgerInv, ToldInv
    <3>2. h \in Heights
      BY <2>1, <3>1 DEF ToldAt, BlockTold
    <3> QED
      BY <2>1, <3>2 DEF LedgerInv, IInv, TypeOK, Heights
  <2>3. PICK x, k, before : /\ x = At(h).executions /\ k = At(h).proposer
                            /\ before = At(h - 1).balance
    OBVIOUS
  <2>4. x \in Seq(Execution) /\ k \in Accounts /\ before \in Balances
        /\ At(h).balance = BalanceAfter(before, AllMovements(x, k))
    <3>1. BlockAfter(At(h), At(h - 1))
      BY <2>1, <2>2 DEF LedgerInv, ChainInv, Grown
    <3> QED
      BY <2>2, <2>3, <3>1, BlockAtHeight DEF BlockAfter, Block
  <2>4a. PICK m \in Nat : \E at : EachOnce(a.txs, h, x, m, at)
    BY <2>1, <2>3, OneEach
  <2>5. PICK at : EachOnce(a.txs, h, x, m, at)
    BY <2>4a
  <2>6. /\ DOMAIN a.txs = 1 .. m /\ Reorders(at, m, Len(x)) /\ at \in [1 .. m -> 1 .. Len(x)]
        /\ \A i \in 1 .. m : a.txs[i] = TransactionOn(h, x[at[i]], Listed(x[at[i]]))
    BY <2>5 DEF EachOnce, Reorders
  <2> DEFINE z == [j \in 1 .. Len(x) |-> Net(Movements(x[j], k), p)]
             w == [i \in 1 .. m |-> NetOps(a.txs[i].ops, p)]
  <2>7. /\ Len(x) \in Nat /\ \A j \in 1 .. Len(x) : x[j] \in Execution
        /\ \A j \in 1 .. Len(x) : z[j] = Net(Movements(x[j], k), p)
        /\ \A i \in 1 .. m : w[i] = NetOps(a.txs[i].ops, p)
    BY <2>4
  <2> HIDE DEF z, w
  <2>8. \A j \in 1 .. Len(x) : /\ z[j] \in Int
                               /\ NetOps(TransactionOn(h, x[j], Listed(x[j])).ops, p) = z[j]
    <3> SUFFICES ASSUME NEW j \in 1 .. Len(x)
                 PROVE  /\ z[j] \in Int
                        /\ NetOps(TransactionOn(h, x[j], Listed(x[j])).ops, p) = z[j]
      OBVIOUS
    <3>1. PICK e \in Execution : e = x[j]
      BY <2>7
    <3>2. /\ NetOps(TransactionOn(h, e, Listed(e)).ops, p) = Net(Movements(e, k), p)
          /\ Net(Movements(e, k), p) \in Int
      BY <2>3, OperationsAddUp
    <3> QED
      BY <2>7, <3>1, <3>2
  <2>9. \A i \in 1 .. m : w[i] = z[at[i]] /\ w[i] \in Int
    <3> SUFFICES ASSUME NEW i \in 1 .. m PROVE w[i] = z[at[i]] /\ w[i] \in Int
      OBVIOUS
    <3>1. PICK j \in 1 .. Len(x) : j = at[i]
      BY <2>6
    <3>2. w[i] = NetOps(TransactionOn(h, x[j], Listed(x[j])).ops, p)
      BY <2>6, <2>7, <3>1
    <3> QED
      BY <2>8, <3>1, <3>2
  <2>10. PICK f : Sums(z, Len(x), f)
    BY <2>7, <2>8, SumsExist
  <2>11. PICK g : Sums(w, m, g)
    BY <2>9, SumsExist
  <2>12. f[Len(x)] = g[m]
    <3>1. Picked(z, Len(x), at, m, w)
      BY <2>8, <2>9 DEF Picked
    <3>2. Len(x) \in Nat /\ m \in Nat /\ Reorders(at, m, Len(x))
      BY <2>6, <2>7
    <3> QED
      BY ONLY <2>10, <2>11, <3>1, <3>2, Rearranged
  <2>13. Net(AllMovements(x, k), p) = f[Len(x)]
    BY <2>4, <2>7, <2>10, MovementsSum
  <2>14. NetOps(OpsOf(a), p) = g[m]
    <3>1. Counted(a, m, p, w)
      <4> SUFFICES ASSUME NEW i \in 1 .. m PROVE Numbered(a.txs[i].ops)
        BY <2>6, <2>7 DEF Counted
      <4>1. PICK e \in Execution : a.txs[i].ops = TransactionOn(h, e, Listed(e)).ops
        BY <2>6, <2>7
      <4> QED
        BY <4>1, OperationsAreNumbers DEF Numbered
    <3> QED
      BY ONLY <2>11, <3>1, m \in Nat, OperationsSum
  <2>15. AllMovements(x, k) \in Seq(Move)
    BY <2>4, AllMovementsType
  <2>16. Held(At(h).balance, p) = Held(before, p) + f[Len(x)]
    BY <2>4, <2>13, <2>15, BalancesMove
  <2>17. f[Len(x)] \in Int
    BY <2>7, <2>10 DEF Sums
  <2>18. Held(before, p) \in Int
    BY <2>4 DEF Held, Balances, Amounts
  <2> QED
    BY <2>1, <2>3, <2>12, <2>14, <2>16, <2>17, <2>18 DEF ChangeAt
<1> QED
  BY <1>1, LedgerInvariance, PTL

------------------------------------------------------------------------------
(***************************************************************************)
(* Refusals: what a rejected RPC says of the request.                      *)
(***************************************************************************)

\* Under the state of a block the node finds what there is, and only then.
LEMMA NotUnder ==
  ASSUME NEW h \in Heights
  PROVE  /\ \A key : MainPurseAt(key, StateRoot(h)) = {} => ~ Exists(key, At(h).balance)
         /\ \A p : BalanceAt(StateRoot(h), p) = {} => At(h).balance[p] = NULL
<1>1. ASSUME NEW key, Exists(key, At(h).balance)
      PROVE  MainPurseAt(key, StateRoot(h)) # {}
  <2>1. Uref(MainPurse[key]) \in MainPurseAt(key, StateRoot(h))
    BY <1>1 DEF Exists, MainPurseAt
  <2> QED
    BY <2>1
<1>2. ASSUME NEW p, At(h).balance[p] # NULL
      PROVE  BalanceAt(StateRoot(h), p) # {}
  <2>1. At(h).balance[p] \in BalanceAt(StateRoot(h), p)
    BY <1>2 DEF BalanceAt
  <2> QED
    BY <2>1
<1> QED
  BY <1>1, <1>2

\* No block has the null hash.
LEMMA NoNullHash ==
  ASSUME chain \in Seq(Block), chain # <<>>
  PROVE  ByHash(NULL) = {} /\ \A h \in Heights : BlockHash(h) # NULL
<1>1. \A h \in Heights : BlockHash(h) # NULL
  BY BlockAtHeight, ClientAssumption DEF BlockHash, BlockHashes
<1> QED
  BY <1>1 DEF ByHash

\* The blocks a request is about.
Subjects(r) == IF r.op = "transaction" THEN RanAt(r.deploy) ELSE Named(r.id)

\* The block a call works on is one of them.
LEMMA HeldIsSought ==
  ASSUME LedgerInv, NEW c \in Calls, block[c] # NoBlock,
         pc[c] \in {"proposer", "deploy", "signer", "purse", "balance"}
  PROVE  \E h \in Heights :
           /\ h \in Subjects(req[c]) /\ block[c] = BlockResponse(h) /\ block[c].height = h
           /\ block[c].proposer = At(h).proposer /\ block[c].stateRoot = StateRoot(h)
<1>0. IInv /\ TypeOK /\ ControlAt(c) /\ HoldsAt(c) /\ NamedAt(c)
  BY DEF LedgerInv, IInv, ControlInv, HoldsInv, NamedInv
<1>1. PICK h \in Heights : /\ block[c] = BlockResponse(h) /\ block[c].height = h
                           /\ block[c].hash = BlockHash(h)
                           /\ block[c].proposer = At(h).proposer
                           /\ block[c].stateRoot = StateRoot(h)
  BY <1>0, BlockHeld
<1>2. CASE Serves(c, {"transaction"})
  <2>1. pc[c] \in {"proposer", "deploy", "signer"}
    BY <1>0, <1>2 DEF ControlAt, Serves
  <2>2. HoldsDeploy(c)
    BY <1>0, <1>2 DEF HoldsAt
  <2>3. PICK r : r = deploy[c] /\ Replied(chain, r) /\ r.hash = req[c].deploy
                 /\ BlockHash(h) = r.blockHash
    BY <1>1, <2>1, <2>2 DEF HoldsDeploy
  <2>4. PICK g \in Heights : \E x \in Ran(At(g)) : r = DeployReply(x, g)
    BY <2>3 DEF Replied, Heights, At
  <2>5. PICK e \in Ran(At(g)) : r = DeployReply(e, g)
    BY <2>4
  <2>6. g = h /\ e.deploy = req[c].deploy
    BY <2>3, <2>5 DEF DeployReply, BlockHash
  <2>7. h \in RanAt(req[c].deploy)
    BY <2>6 DEF RanAt
  <2> QED
    BY <1>1, <1>2, <2>7 DEF Subjects, Serves
<1>3. CASE Serves(c, {"block", "balance"})
  <2>1. req[c].op # "transaction"
    BY <1>3 DEF Serves
  <2>2. h \in Named(req[c].id)
    <3>1. CASE req[c].id = NULL
      BY <3>1 DEF Named
    <3>2. CASE req[c].id # NULL
      <4>1. IsNamed(req[c].id, block[c])
        BY <1>0, <1>3, <3>2 DEF NamedAt, NamedBlock
      <4> QED
        BY <1>1, <3>2, <4>1 DEF IsNamed, Named, ByHeight, ByHash
    <3> QED
      BY <3>1, <3>2
  <2> QED
    BY <1>1, <2>1, <2>2 DEF Subjects
<1> QED
  BY <1>0, <1>2, <1>3 DEF ControlAt, Serves

\* Every deploy a call is to report on ran in the block it works on.
LEMMA SoughtRan ==
  ASSUME LedgerInv, NEW c \in Calls, block[c] # NoBlock, pc[c] \in {"deploy", "signer"},
         req[c].op = "block" => req[c].id # NULL, NEW h \in Heights,
         h \in Subjects(req[c]), block[c] = BlockResponse(h), block[c].height = h,
         NEW d \in Sought(c)
  PROVE  \E e \in Ran(At(h)) : e.deploy = d
<1>0. IInv /\ TypeOK /\ ChainInv /\ ControlAt(c) /\ HoldsAt(c)
  BY DEF LedgerInv, IInv, ControlInv, HoldsInv
<1>1. CASE req[c].op = "block"
  <2>1. HoldsBlock(c)
    BY <1>0, <1>1 DEF ControlAt, Serves, HoldsAt
  <2>2. transfers[c] = At(h).transfers
    BY <1>1, <2>1 DEF HoldsBlock
  <2>3. d \in Shown(At(h))
    BY <1>0, <1>1, <2>2, MappedIsShown DEF Sought
  <2> QED
    BY <2>3 DEF Shown
<1>2. CASE req[c].op # "block"
  <2>1. req[c].op = "transaction"
    BY <1>0, <1>2 DEF ControlAt, Serves
  <2>2. d = req[c].deploy /\ h \in RanAt(req[c].deploy)
    BY <1>2, <2>1 DEF Sought, Subjects
  <2> QED
    BY <2>2 DEF RanAt
<1> QED
  BY <1>1, <1>2

\* An address that names an account names one of the instance's.
LEMMA AccountNamed ==
  ASSUME NEW r \in Requests, r.op = "balance", NamesAccount(r.address)
  PROVE  r.address.of \in Accounts /\ PurseOf(r.address) = MainPurse[r.address.of]
<1> DEFINE Rights == {"", "001", "007"}
<1> HIDE DEF Rights
<1>1. PICK address : address = r.address
  OBVIOUS
<1>2. address \in [form : {"account-hash", "key", "invalid", "short"}, of : Accounts]
                    \cup [form : {"uref"}, of : [purse : Purses, rights : Rights]]
  BY <1>1, RequestType DEF Addresses, Rights
<1>3. address.form \in {"account-hash", "key"}
  BY <1>1 DEF NamesAccount
<1> QED
  BY ONLY <1>1, <1>2, <1>3 DEF PurseOf

\* A node that rejects an RPC of a call lacks what the call's request names.
LEMMA RejectedForWant ==
  ASSUME LedgerInv, NEW c \in Calls, Rejects(c), req[c].op = "block" => req[c].id # NULL
  PROVE  Absent(req[c])
<1>0. /\ IInv /\ TypeOK /\ ChainInv /\ ControlAt(c) /\ HoldsAt(c) /\ NamedAt(c) /\ SnapshotAt(c)
      /\ chain \in Seq(Block) /\ chain # <<>>
  BY DEF LedgerInv, IInv, ControlInv, HoldsInv, NamedInv, SnapshotInv, TypeOK
<1>1. CASE pc[c] \in {"hash", "hash transfers"} /\ ByHash(req[c].id.hash) = {}
  <2>1. req[c] \in Requests /\ req[c].op # "status" /\ req[c].id # NULL
    BY <1>0, <1>1 DEF ControlAt, Serves
  <2>2. req[c].id.hash # NULL
    <3>1. CASE pc[c] = "hash"
      BY <1>0, <2>1, <3>1 DEF ControlAt, NamedAt, NamedBlock, Serves
    <3>2. CASE pc[c] = "hash transfers"
      <4>1. block[c] # NoBlock
        <5>1. block[c].proposer # NULL
          BY <1>0, <3>2 DEF NamedAt
        <5> QED
          BY <5>1 DEF NoBlock
      <4>2. CASE req[c].op = "block"
        <5>1. block[c].hash = req[c].id.hash
          BY <1>0, <2>1, <3>2, <4>2 DEF NamedAt, NamedBlock, Serves
        <5>2. block[c].hash # NULL
          BY <1>0, <4>1, BlockHeld, NoNullHash
        <5> QED
          BY <5>1, <5>2
      <4>3. CASE req[c].op # "block"
        <5>1. req[c].op = "transaction"
          BY <1>0, <3>2, <4>3 DEF ControlAt, Serves
        <5>2. req[c].id \in [hash : BlockHashes, index : Nat]
          BY <2>1, <5>1, ClientAssumption DEF AllRequests
        <5> QED
          BY <5>2, ClientAssumption
      <4> QED
        BY <4>2, <4>3
    <3> QED
      BY <1>1, <3>1, <3>2
  <2> QED
    BY <1>1, <2>1, <2>2 DEF Absent
<1>2. CASE pc[c] \in {"index", "index transfers"} /\ ByHeight(req[c].id.index) = {}
  <2>1. Serves(c, {"block", "balance"}) /\ req[c].id # NULL
    BY <1>0, <1>2 DEF ControlAt, Serves
  <2>2. req[c].id.index # NULL
    BY <1>0, <1>2, <2>1 DEF NamedAt, NamedBlock
  <2>3. Named(req[c].id) = {}
    BY <1>2, <2>1, <2>2 DEF Named
  <2> QED
    BY <2>1, <2>3 DEF Absent, Serves
<1>3. CASE pc[c] = "place" /\ DeployReplies(req[c].deploy) = {}
  <2>1. req[c].op = "transaction"
    BY <1>0, <1>3 DEF ControlAt, Serves
  <2>2. ASSUME NEW h \in Heights, NEW e \in Ran(At(h)), e.deploy = req[c].deploy
        PROVE  FALSE
    <3>1. Replied(chain, DeployReply(e, h)) /\ DeployReply(e, h).hash = req[c].deploy
      BY <2>2 DEF Replied, DeployReply, Heights, At
    <3> QED
      BY <1>0, <1>3, <3>1, RepliesAre
  <2>3. RanAt(req[c].deploy) = {}
    BY <2>2 DEF RanAt
  <2> QED
    BY <2>1, <2>3 DEF Absent
<1>4. CASE pc[c] = "place block" /\ ByHash(deploy[c].blockHash) = {}
  <2>1. Replied(chain, deploy[c])
    BY <1>0, <1>4 DEF ControlAt, HoldsAt, HoldsDeploy, Serves
  <2>2. PICK g \in Heights : \E e \in Ran(At(g)) : deploy[c] = DeployReply(e, g)
    BY <2>1 DEF Replied, Heights, At
  <2>3. BlockHash(g) = deploy[c].blockHash
    BY <2>2 DEF DeployReply
  <2> QED
    BY <1>4, <2>3 DEF ByHash
<1>5. CASE /\ pc[c] = "proposer" /\ ~ Panics(c)
           /\ MainPurseAt(block[c].proposer, block[c].stateRoot) = {}
  <2>1. block[c] # NoBlock
    BY <1>5 DEF Panics, NoBlock
  <2>2. PICK h \in Heights : /\ h \in Subjects(req[c]) /\ block[c].proposer = At(h).proposer
                             /\ block[c].stateRoot = StateRoot(h)
    BY <1>5, <2>1, HeldIsSought
  <2>3. ~ Exists(At(h).proposer, At(h).balance)
    BY <1>5, <2>2, NotUnder
  <2>4. req[c].op \in {"block", "transaction"}
    BY <1>0, <1>5 DEF ControlAt, Serves
  <2>5. Lacks(h, req[c])
    BY <2>3, <2>4 DEF Lacks
  <2> QED
    BY <2>2, <2>4, <2>5 DEF Absent, Subjects
<1>6. CASE pc[c] = "deploy" /\ \E d \in todo[c] : DeployReplies(d) = {}
  <2>1. PICK d \in todo[c] : DeployReplies(d) = {}
    BY <1>6
  <2>2. Builds(c)
    BY <1>0, <1>6 DEF HoldsAt
  <2>3. block[c] # NoBlock /\ d \in Sought(c)
    BY <2>2 DEF Builds
  <2>4. PICK h \in Heights : /\ h \in Subjects(req[c]) /\ block[c] = BlockResponse(h)
                             /\ block[c].height = h
    BY <1>6, <2>3, HeldIsSought
  <2>5. PICK e \in Ran(At(h)) : e.deploy = d
    BY <1>6, <2>3, <2>4, SoughtRan
  <2>6. Replied(chain, DeployReply(e, h)) /\ DeployReply(e, h).hash = d
    BY <2>5 DEF Replied, DeployReply, Heights, At
  <2> QED
    BY <1>0, <2>1, <2>6, RepliesAre
<1>7. CASE /\ pc[c] = "signer"
           /\ deploy[c].readable => MainPurseAt(deploy[c].account, block[c].stateRoot) = {}
  <2>1. PICK r : r = deploy[c]
    OBVIOUS
  <2>2. Builds(c) /\ Replied(chain, r)
    BY <1>0, <1>7, <2>1 DEF HoldsAt, Builds
  <2>3. block[c] # NoBlock /\ r.hash \in Sought(c)
    BY <1>7, <2>1, <2>2 DEF Builds, Looked
  <2>4. PICK h \in Heights : /\ h \in Subjects(req[c]) /\ block[c] = BlockResponse(h)
                             /\ block[c].height = h /\ block[c].stateRoot = StateRoot(h)
    BY <1>7, <2>3, HeldIsSought
  <2>5. PICK e \in Ran(At(h)) : e.deploy = r.hash
    BY <1>7, <2>3, <2>4, SoughtRan
  <2>6. r = DeployReply(e, h)
    BY <1>0, <2>2, <2>5, OneReply
  <2>7. r.account = DeployOf[e.deploy].account /\ r.readable = DeployOf[e.deploy].readable
    BY <2>6 DEF DeployReply
  <2>8. Exists(r.account, At(h).balance)
    BY <1>0, <2>7 DEF ChainInv, BlockTrue
  <2>9. MainPurseAt(r.account, block[c].stateRoot) # {}
    BY <2>4, <2>8, NotUnder
  <2>10. ~ DeployOf[e.deploy].readable
    BY <1>7, <2>1, <2>7, <2>9
  <2>11. req[c].op \in {"block", "transaction"}
    BY <1>0, <1>7 DEF ControlAt, Serves
  <2>12. Lacks(h, req[c])
    BY <2>10, <2>11 DEF Lacks
  <2> QED
    BY <2>4, <2>11, <2>12 DEF Absent, Subjects
<1>8. CASE \/ /\ pc[c] = "purse" /\ NamesAccount(req[c].address)
              /\ MainPurseAt(req[c].address.of, block[c].stateRoot) = {}
           \/ pc[c] = "balance" /\ BalanceAt(block[c].stateRoot, purse[c].purse) = {}
  <2>1. req[c] \in Requests /\ req[c].op = "balance" /\ pc[c] \in {"purse", "balance"}
    BY <1>0, <1>8 DEF ControlAt, Serves
  <2>2. CASE block[c] = NoBlock
    <3>1. req[c].id # NULL /\ Neither(req[c].id)
      <4>1. block[c].proposer = NULL
        BY <2>2 DEF NoBlock
      <4> QED
        BY <1>0, <2>1, <4>1 DEF NamedAt
    <3>2. Named(req[c].id) = {}
      BY <1>0, <3>1, NoNullHash DEF Named, Neither
    <3> QED
      BY <2>1, <3>2 DEF Absent
  <2>3. CASE block[c] # NoBlock
    <3>1. PICK h \in Heights : h \in Subjects(req[c]) /\ block[c].stateRoot = StateRoot(h)
      BY <2>1, <2>3, HeldIsSought
    <3>2. CASE /\ pc[c] = "purse" /\ NamesAccount(req[c].address)
               /\ MainPurseAt(req[c].address.of, block[c].stateRoot) = {}
      <4>1. ~ Exists(req[c].address.of, At(h).balance)
        BY <3>1, <3>2, NotUnder
      <4>2. At(h).balance[PurseOf(req[c].address)] = NULL
        BY <2>1, <3>2, <4>1, AccountNamed DEF Exists
      <4>3. Lacks(h, req[c])
        BY <2>1, <4>2 DEF Lacks
      <4> QED
        BY <2>1, <3>1, <4>3 DEF Absent, Subjects
    <3>3. CASE pc[c] = "balance" /\ BalanceAt(block[c].stateRoot, purse[c].purse) = {}
      <4>1. purse[c].purse = PurseOf(req[c].address)
        BY <1>0, <3>3 DEF SnapshotAt
      <4>2. At(h).balance[PurseOf(req[c].address)] = NULL
        BY <3>1, <3>3, <4>1, NotUnder
      <4>3. Lacks(h, req[c])
        BY <2>1, <4>2 DEF Lacks
      <4> QED
        BY <2>1, <3>1, <4>3 DEF Absent, Subjects
    <3> QED
      BY <1>8, <3>2, <3>3
  <2> QED
    BY <2>2, <2>3
<1>9. CASE pc[c] = "purse" /\ req[c].address.form = "invalid"
  <2>1. req[c].op = "balance"
    BY <1>0, <1>9 DEF ControlAt, Serves
  <2> QED
    BY <1>9, <2>1 DEF Absent
<1> QED
  BY <1>1, <1>2, <1>3, <1>4, <1>5, <1>6, <1>7, <1>8, <1>9 DEF Rejects

\* A call's last step, when it ends in a rejection, is one.
LEMMA RejectionIsForWant ==
  ASSUME LedgerInv, [Next]_vars, NEW c \in Calls, pc[c] # "done", pc'[c] = "done",
         answer'[c] = Error("rejected"), req[c].op = "block" => req[c].id # NULL
  PROVE  Absent(req[c])
<1>0. TypeOK /\ ControlAt(c)
  BY DEF LedgerInv, IInv, ControlInv
<1>1. Acts(c)
  BY <1>0, OneActs DEF Same
<1>2. answer'[c].kind = "error" /\ answer'[c].why = "rejected"
  BY DEF Error
<1>4. CASE GetProposerPurse(c) \/ GetSignerPurse(c)
  <2>1. \/ ReturnTransactions(c, <<>>) \/ ReturnTransactions(c, txs'[c])
        \/ pc'[c] = "deploy"
    BY <1>0, <1>4 DEF GetProposerPurse, GetSignerPurse, TypeOK
  <2>2. answer'[c].kind \in {"block", "transaction"}
    <3>1. CASE ReturnTransactions(c, <<>>)
      BY <1>0, <3>1 DEF ReturnTransactions, BlockAnswer, TypeOK
    <3>2. CASE ReturnTransactions(c, txs'[c])
      BY <1>0, <3>2 DEF ReturnTransactions, BlockAnswer, TypeOK
    <3> QED
      BY <2>1, <3>1, <3>2
  <2> QED
    BY <1>2, <2>2
<1>5. CASE GetPeers(c) \/ GetAccountBalance(c)
  <2>1. answer'[c].kind \in {"status", "balance"}
    BY <1>0, <1>5 DEF GetPeers, GetAccountBalance, TypeOK
  <2> QED
    BY <1>2, <2>1
<1>6. CASE RpcFails(c) \/ Panic(c)
  <2>1. answer'[c] = Error("transport") \/ answer'[c].kind = "panic"
    BY <1>0, <1>6 DEF RpcFails, Panic, TypeOK
  <2> QED
    BY <1>2, <2>1 DEF Error
<1>7. CASE Reject(c)
  BY <1>7, RejectedForWant DEF Reject
<1>8. CASE \/ \E r \in Requests : Ask(c, r)
           \/ GetLatestBlock(c) \/ GetLatestBlockTransfers(c)
           \/ GetBlockByHash(c) \/ GetBlockTransfersByHash(c)
           \/ GetBlockByHeight(c) \/ GetBlockTransfersByHeight(c)
           \/ GetDeployToPlace(c) \/ GetBlockResponse(c) \/ GetDeploy(c)
           \/ GetAccountPurse(c) \/ TakeUref(c)
  <2>1. pc'[c] # "done"
    BY <1>0, <1>8, RequestOp DEF Ask, FirstStep, GetLatestBlock, GetLatestBlockTransfers,
       GetBlockByHash, GetBlockTransfersByHash, GetBlockByHeight,
       GetBlockTransfersByHeight, GetDeployToPlace, GetBlockResponse, GetDeploy,
       GetAccountPurse, TakeUref, TypeOK
  <2> QED
    BY <2>1
<1> QED
  BY <1>1, <1>4, <1>5, <1>6, <1>7, <1>8 DEF Acts, Step

(***************************************************************************)
(* Unless an RPC is lost on its way, the client refuses a request only for *)
(* want of what it names (client.go:91-159, 248-304, 527-594): every other *)
(* lookup it makes, of a named block's deploys, of their signers' purses,  *)
(* of the block a deploy ran in, finds something.  That holds of the       *)
(* client alone and of the client the server calls.                        *)
(***************************************************************************)
THEOREM NothingElseIsRejected ==
  /\ Spec => RejectsOnlyTheAbsent
  /\ ServerSpec => RejectsOnlyTheAbsent
<1> DEFINE Wants ==
      \A c \in Calls :
        /\ pc[c] # "done" /\ pc'[c] = "done" /\ answer'[c] = Error("rejected")
        /\ req[c].op = "block" => req[c].id # NULL
        => Absent(req[c])
<1>1. LedgerInv /\ [Next]_vars => [Wants]_vars
  BY RejectionIsForWant
<1>2. LedgerInv /\ ServerInv /\ [ServerNext]_svars => [Wants]_vars
  BY <1>1, ServerStepIsClientStep DEF ServerInv
<1>3. Spec => RejectsOnlyTheAbsent
  BY <1>1, LedgerInvariance, PTL DEF Spec, RejectsOnlyTheAbsent
<1>4. ServerSpec => RejectsOnlyTheAbsent
  BY <1>2, ServerLedger, PTL DEF ServerSpec, RejectsOnlyTheAbsent
<1> QED
  BY <1>3, <1>4

------------------------------------------------------------------------------
(***************************************************************************)
(* LedgerView: its chain is the client's, its phase and its look are what  *)
(* ClientProps makes of a call's step and block.                           *)
(***************************************************************************)
LEMMA SameChain ==
  /\ Ledger!Heights = Heights /\ Ledger!Tip = Tip
  /\ Ledger!Execution = Execution /\ Ledger!Block = Block /\ Ledger!Executed = Executed
  /\ \A h : /\ Ledger!At(h) = At(h) /\ Ledger!BlockHash(h) = BlockHash(h)
            /\ Ledger!StateRoot(h) = StateRoot(h)
  /\ \A x : /\ Ledger!ByHash(x) = ByHash(x) /\ Ledger!ByHeight(x) = ByHeight(x)
            /\ Ledger!Ran(x) = Ran(x)
  /\ \A k, b : Ledger!Exists(k, b) = Exists(k, b) /\ Ledger!BalanceAt(k, b) = BalanceAt(k, b)
BY DEF Ledger!Heights, Heights, Ledger!Tip, Tip, Ledger!At, At, Ledger!BlockHash, BlockHash,
   Ledger!StateRoot, StateRoot, Ledger!ByHash, ByHash, Ledger!ByHeight, ByHeight,
   Ledger!Ran, Ran, Ledger!BalanceAt, BalanceAt, Ledger!Execution, Execution,
   Ledger!Executed, Executed, Ledger!Exists, Exists, Ledger!Block, Block, Ledger!Keys, Keys,
   Ledger!Transfer, Transfer, Ledger!Urefs, Urefs, Ledger!Amounts, Amounts,
   Ledger!Balances, Balances

LEMMA SameBlocks ==
  ASSUME NEW k, NEW x
  PROVE  Ledger!NewBlock(k, x) = NewBlock(k, x)
<1>1. Ledger!AllListed(x) = AllListed(x)
  BY DEF Ledger!AllListed, AllListed, Ledger!Listed, Listed, Carried, Ledger!Carried,
     Uref, Ledger!Uref, Ledger!FlattenSeq, FlattenSeq
<1>2. Ledger!AllMovements(x, k) = AllMovements(x, k)
  BY DEF Ledger!AllMovements, AllMovements, Carried, Ledger!Carried, Ledger!Movements,
     Movements, Charge, Ledger!Charge, Ledger!FlattenSeq, FlattenSeq
<1>3. ASSUME NEW m, NEW b
      PROVE  Ledger!BalanceAfter(b, m) = BalanceAfter(b, m)
  BY DEF Ledger!Moved, Moved, Ledger!Held, Held, Ledger!BalanceAfter, BalanceAfter,
     FoldLeft, Ledger!FoldLeft, Max, Ledger!Max, MapThenFoldSet, Ledger!MapThenFoldSet
<1> QED
  BY <1>1, <1>2, <1>3 DEF Ledger!NewBlock, NewBlock, Ledger!At, At, Ledger!Tip, Tip

LEMMA SameGrowth == (Ledger!NodeInit <=> NodeInit) /\ (Ledger!ProduceBlock <=> ProduceBlock)
<1>1. Ledger!NodeInit <=> NodeInit
  BY DEF Ledger!NodeInit, NodeInit, Ledger!Keys, Keys
<1>2. Ledger!ProduceBlock <=> ProduceBlock
  BY SameChain, SameBlocks DEF Ledger!ProduceBlock, ProduceBlock
<1> QED
  BY <1>1, <1>2

\* The phases and the looks of all calls.
Phases == [c \in Calls |-> Phase(c)]
Looks == [c \in Calls |-> Seen(c)]

\* What a step of one call does to them.
LEMMA OnlyItsOwnView ==
  ASSUME TypeOK, NEW c \in Calls, Acts(c)
  PROVE  /\ \A d \in Calls \ {c} : Phase(d)' = Phase(d) /\ Seen(d)' = Seen(d)
         /\ \A d \in Calls \ {c} : answer'[d] = answer[d]
         /\ \A p : Phase(c)' = p => Phases' = [Phases EXCEPT ![c] = p]
         /\ \A h : Seen(c)' = h => Looks' = [Looks EXCEPT ![c] = h]
<1>1. ASSUME NEW d \in Calls \ {c}
      PROVE  Phase(d)' = Phase(d) /\ Seen(d)' = Seen(d) /\ answer'[d] = answer[d]
  <2>1. /\ pc'[d] = pc[d] /\ req'[d] = req[d] /\ block'[d] = block[d]
        /\ answer'[d] = answer[d]
    BY OnlyItsOwn
  <2>2. HasBlock(d)' <=> HasBlock(d)
    BY <2>1 DEF HasBlock, NoBlock
  <2> QED
    BY <2>1, <2>2 DEF Phase, Seen
<1>2. ASSUME NEW p, Phase(c)' = p
      PROVE  Phases' = [Phases EXCEPT ![c] = p]
  BY <1>1, <1>2 DEF Phases
<1>3. ASSUME NEW h, Seen(c)' = h
      PROVE  Looks' = [Looks EXCEPT ![c] = h]
  BY <1>1, <1>3 DEF Looks
<1> QED
  BY <1>1, <1>2, <1>3

\* A step that leaves a call in its phase is none of LedgerView's.
LEMMA ViewStays ==
  ASSUME TypeOK, NEW c \in Calls, Acts(c), Phase(c)' = Phase(c), Seen(c)' = Seen(c),
         req' = req, answer' = answer
  PROVE  UNCHANGED Ledger!lvars
<1>1. \A d \in Calls : Phase(d)' = Phase(d) /\ Seen(d)' = Seen(d)
  BY OnlyItsOwnView
<1> QED
  BY <1>1, ChainStays DEF Ledger!lvars

\* Reading the block a call is to answer for is a look.
LEMMA ViewLooks ==
  ASSUME TypeOK, NEW c \in Calls, Acts(c), pc[c] \notin {"idle", "done"}, ~ HasBlock(c),
         HasBlock(c)', req' = req, answer' = answer,
         NEW h \in Ledger!About(req[c]), block'[c].height = h
  PROVE  Ledger!Look(c)
<1>1. Phase(c) = "asked" /\ Phase(c)' = "looked" /\ Seen(c)' = h
  BY DEF Phase, Seen, HasBlock
<1>2. Phases[c] = "asked" /\ Phases' = [Phases EXCEPT ![c] = "looked"]
  BY <1>1, OnlyItsOwnView DEF Phases
<1>3. Looks' = [Looks EXCEPT ![c] = h]
  BY <1>1, OnlyItsOwnView
<1> QED
  BY <1>2, <1>3, ChainStays DEF Ledger!Look, Phases, Looks

\* To return what that block says is to answer.
LEMMA ViewAnswers ==
  ASSUME TypeOK, NEW c \in Calls, Acts(c), HasBlock(c), pc'[c] = "done",
         answer'[c].kind \notin {"error", "panic"}, req' = req, block'[c] = block[c],
         Ledger!Says(req[c], block[c].height, answer'[c])
  PROVE  Ledger!Answer(c)
<1>1. pc[c] \notin {"idle", "done"}
  BY DEF HasBlock
<1>2. Phase(c) = "looked" /\ Phase(c)' = "done" /\ Seen(c)' = Seen(c)
      /\ Seen(c) = block[c].height
  BY <1>1 DEF Phase, Seen, HasBlock
<1>3. Phases[c] = "looked" /\ Phases' = [Phases EXCEPT ![c] = "done"]
      /\ Looks[c] = block[c].height
  BY <1>2, OnlyItsOwnView DEF Phases, Looks
<1>4. Looks' = Looks
  BY <1>2, OnlyItsOwnView DEF Looks
<1>5. \A d \in Calls \ {c} : answer'[d] = answer[d]
  BY OnlyItsOwnView
<1> QED
  BY <1>3, <1>4, <1>5, ChainStays DEF Ledger!Answer, Phases, Looks

\* To end without is to give up.
LEMMA ViewGivesUp ==
  ASSUME TypeOK, NEW c \in Calls, Acts(c), pc[c] \notin {"idle", "done"}, pc'[c] = "done",
         \/ answer'[c].kind = "error"
         \/ answer'[c].kind = "panic" /\ Panicked(req[c]),
         req' = req
  PROVE  Ledger!GiveUp(c)
<1>1. Phase(c) \in {"asked", "looked"} /\ Phase(c)' = "done" /\ Seen(c)' = NULL
  BY DEF Phase, Seen, HasBlock
<1>2. Phases[c] \in {"asked", "looked"} /\ Phases' = [Phases EXCEPT ![c] = "done"]
  BY <1>1, OnlyItsOwnView DEF Phases
<1>3. Looks' = [Looks EXCEPT ![c] = NULL]
  BY <1>1, OnlyItsOwnView
<1>4. \A d \in Calls \ {c} : answer'[d] = answer[d]
  BY OnlyItsOwnView
<1>5. Panicked(req[c]) => Ledger!Senseless(req[c])
  BY DEF Panicked, Neither, Ledger!Senseless
<1> QED
  BY <1>2, <1>3, <1>4, <1>5, ChainStays DEF Ledger!GiveUp, Phases, Looks

\* A question is a question.
LEMMA ViewAsks ==
  ASSUME TypeOK, NEW c \in Calls, ControlAt(c), NamedAt(c), NEW r \in Requests, Ask(c, r)
  PROVE  Ledger!LAsk(c)
<1>1. /\ pc[c] = "idle" /\ pc'[c] = FirstStep(r) /\ block'[c] = NoBlock
      /\ req' = [req EXCEPT ![c] = r] /\ answer' = answer /\ chain' = chain
  BY DEF Ask, TypeOK, NamedAt
<1>2. pc'[c] \notin {"idle", "done"}
  BY <1>1, RequestOp DEF FirstStep
<1>3. Phase(c) = "idle" /\ Phase(c)' = "asked" /\ Seen(c) = NULL /\ Seen(c)' = NULL
  BY <1>1, <1>2 DEF Phase, Seen, HasBlock, NoBlock
<1>4. Phases[c] = "idle" /\ Phases' = [Phases EXCEPT ![c] = "asked"]
  BY <1>3, OnlyItsOwnView DEF Phases, Acts
<1>5. Looks' = Looks
  BY <1>3, OnlyItsOwnView DEF Looks, Acts
<1> QED
  BY <1>1, <1>4, <1>5 DEF Ledger!LAsk, Phases, Looks

\* Reading a block is looking at it if it is the one to answer for.
LEMMA ViewReads ==
  ASSUME LedgerInv, NEW c \in Calls,
         \/ GetLatestBlock(c) \/ GetBlockByHash(c) \/ GetBlockByHeight(c)
         \/ GetBlockResponse(c)
  PROVE  Ledger!Look(c) \/ UNCHANGED Ledger!lvars
<1>0. TypeOK /\ ControlAt(c) /\ NamedAt(c) /\ HoldsAt(c) /\ Acts(c)
  BY DEF LedgerInv, IInv, ControlInv, NamedInv, HoldsInv, Acts, Step
<1>1. /\ pc[c] \in {"latest", "hash", "index", "place block"} /\ ~ HasBlock(c)
      /\ req' = req /\ answer' = answer
  BY DEF GetLatestBlock, GetBlockByHash, GetBlockByHeight, GetBlockResponse, HasBlock
<1>2. PICK h \in Heights : block' = [block EXCEPT ![c] = BlockResponse(h)]
  BY <1>0, BlockAtHeight DEF GetLatestBlock, GetBlockByHash, GetBlockByHeight,
     GetBlockResponse, ByHash, ByHeight, TypeOK
<1>3. block'[c].height = h /\ block'[c] # NoBlock /\ block'[c].hash = BlockHash(h)
  BY <1>0, <1>2, BlockReply DEF TypeOK
<1>4. ASSUME HasBlock(c)', h \in Ledger!About(req[c])
      PROVE  Ledger!Look(c)
  BY <1>0, <1>1, <1>3, <1>4, ViewLooks
<1>5. CASE GetLatestBlock(c)
  <2>1. pc[c] = "latest" /\ pc'[c] \in {"peers", "latest transfers", "purse"}
    BY <1>0, <1>5 DEF GetLatestBlock, TypeOK
  <2>2. HasBlock(c)'
    BY <1>3, <2>1 DEF HasBlock, NoBlock
  <2>3. h = Tip
    <3>1. block'[c] = BlockResponse(Tip)
      BY <1>0, <1>5 DEF GetLatestBlock, TypeOK
    <3> QED
      BY <1>0, <1>3, <3>1, BlockReply, BlockAtHeight DEF TypeOK
  <2>4. Serves(c, {"status", "block", "balance"})
    BY <1>0, <2>1 DEF ControlAt
  <2>5. req[c].op \in {"block", "balance"} => req[c].id = NULL
    BY <1>0, <2>1, <2>4 DEF NamedAt, NamedBlock, Serves
  <2>6. h \in Ledger!About(req[c])
    BY <2>3, <2>4, <2>5, SameChain DEF Serves, Ledger!About
  <2> QED
    BY <1>4, <2>2, <2>6
<1>6. CASE GetBlockByHash(c)
  <2>1. pc[c] = "hash" /\ h \in ByHash(req[c].id.hash)
    <3>1. PICK g \in ByHash(req[c].id.hash) : block' = [block EXCEPT ![c] = BlockResponse(g)]
      BY <1>6 DEF GetBlockByHash
    <3>2. block'[c].height = g
      BY <1>0, <3>1, BlockReply DEF TypeOK, ByHash
    <3> QED
      BY <1>3, <1>6, <3>1, <3>2 DEF GetBlockByHash
  <2>2. Serves(c, {"block", "balance"}) /\ req[c].id # NULL
    BY <1>0, <2>1 DEF ControlAt
  <2>3. req[c].id.hash # NULL
    BY <1>0, <2>1, <2>2 DEF NamedAt, NamedBlock
  <2>4. pc'[c] = IF req[c].op = "block" THEN "hash transfers"
                 ELSE IF req[c].id.index # NULL THEN "index" ELSE "purse"
    BY <1>0, <1>6 DEF GetBlockByHash, TypeOK
  <2>5. CASE req[c].id.index = NULL
    <3>1. HasBlock(c)'
      BY <1>1, <1>3, <2>4, <2>5 DEF HasBlock, NoBlock
    <3>2. h \in Ledger!About(req[c])
      BY <2>1, <2>2, <2>3, <2>5, SameChain DEF Serves, Ledger!About
    <3> QED
      BY <1>4, <3>1, <3>2
  <2>6. CASE req[c].id.index # NULL
    <3>1. ~ HasBlock(c)' /\ pc'[c] \notin {"idle", "done"}
      BY <1>1, <2>2, <2>4, <2>6 DEF HasBlock, Serves
    <3>2. Phase(c)' = Phase(c) /\ Seen(c)' = Seen(c)
      BY <1>1, <3>1 DEF Phase, Seen
    <3> QED
      BY <1>0, <1>1, <3>2, ViewStays
  <2> QED
    BY <2>5, <2>6
<1>7. CASE GetBlockByHeight(c)
  <2>1. pc[c] = "index" /\ h \in ByHeight(req[c].id.index)
    <3>1. PICK g \in ByHeight(req[c].id.index) : block' = [block EXCEPT ![c] = BlockResponse(g)]
      BY <1>7 DEF GetBlockByHeight
    <3>2. block'[c].height = g
      BY <1>0, <3>1, BlockReply DEF TypeOK, ByHeight
    <3> QED
      BY <1>3, <1>7, <3>1, <3>2 DEF GetBlockByHeight
  <2>2. Serves(c, {"block", "balance"}) /\ req[c].id # NULL
    BY <1>0, <2>1 DEF ControlAt
  <2>3. req[c].id.index # NULL
    BY <1>0, <2>1, <2>2 DEF NamedAt, NamedBlock
  <2>4. pc'[c] \in {"index transfers", "purse"}
    BY <1>0, <1>7 DEF GetBlockByHeight, TypeOK
  <2>5. HasBlock(c)'
    BY <1>3, <2>4 DEF HasBlock, NoBlock
  <2>6. h \in Ledger!About(req[c])
    BY <2>1, <2>2, <2>3, SameChain DEF Serves, Ledger!About
  <2> QED
    BY <1>4, <2>5, <2>6
<1>8. CASE GetBlockResponse(c)
  <2>1. pc[c] = "place block" /\ pc'[c] = "hash transfers" /\ h \in ByHash(deploy[c].blockHash)
    <3>1. PICK g \in ByHash(deploy[c].blockHash) : block' = [block EXCEPT ![c] = BlockResponse(g)]
      BY <1>8 DEF GetBlockResponse
    <3>2. block'[c].height = g
      BY <1>0, <3>1, BlockReply DEF TypeOK, ByHash
    <3> QED
      BY <1>0, <1>3, <1>8, <3>1, <3>2 DEF GetBlockResponse, TypeOK
  <2>2. Serves(c, {"transaction"})
    BY <1>0, <2>1 DEF ControlAt
  <2>3. Replied(chain, deploy[c]) /\ deploy[c].hash = req[c].deploy
    BY <1>0, <2>1, <2>2 DEF HoldsAt, HoldsDeploy
  <2>4. PICK g \in Heights : \E e \in Ran(At(g)) : deploy[c] = DeployReply(e, g)
    BY <2>3 DEF Replied, Heights, At
  <2>5. PICK e \in Ran(At(g)) : deploy[c] = DeployReply(e, g)
    BY <2>4
  <2>6. e.deploy = req[c].deploy /\ BlockHash(g) = deploy[c].blockHash
    BY <2>3, <2>5 DEF DeployReply
  <2>7. g = h
    <3>1. BlockHash(h) = BlockHash(g)
      BY <2>1, <2>6 DEF ByHash
    <3> QED
      BY <3>1 DEF BlockHash
  <2>8. h \in Ledger!About(req[c])
    BY <2>2, <2>6, <2>7, SameChain DEF Serves, Ledger!About
  <2>9. HasBlock(c)'
    BY <1>1, <1>3, <2>1, <2>2 DEF HasBlock, NoBlock, Serves
  <2> QED
    BY <1>4, <2>8, <2>9
<1> QED
  BY <1>5, <1>6, <1>7, <1>8

\* The steps between leave a call in its phase.
LEMMA ViewRests ==
  ASSUME LedgerInv, NEW c \in Calls,
         \/ GetLatestBlockTransfers(c) \/ GetBlockTransfersByHash(c)
         \/ GetBlockTransfersByHeight(c) \/ GetDeployToPlace(c) \/ GetDeploy(c)
         \/ GetAccountPurse(c) \/ TakeUref(c)
         \/ (GetProposerPurse(c) \/ GetSignerPurse(c)) /\ pc'[c] = "deploy"
  PROVE  UNCHANGED Ledger!lvars
<1>0. TypeOK /\ ControlAt(c) /\ Acts(c)
  BY DEF LedgerInv, IInv, ControlInv, Acts, Step
<1>1. req' = req /\ block' = block /\ answer' = answer
  BY <1>0 DEF GetLatestBlockTransfers, GetBlockTransfersByHash, GetBlockTransfersByHeight,
     GetDeployToPlace, GetDeploy, GetAccountPurse, TakeUref, GetProposerPurse,
     GetSignerPurse, ReturnTransactions, TypeOK
<1>2. /\ pc[c] \notin {"idle", "done"} /\ pc'[c] \notin {"idle", "done"}
      /\ HasBlock(c)' <=> HasBlock(c)
  <2>1. CASE GetBlockTransfersByHash(c)
    <3>1. pc[c] = "hash transfers" /\ Serves(c, {"block", "transaction"})
          /\ pc'[c] = IF req[c].op = "block" /\ req[c].id.index # NULL
                      THEN "index" ELSE "proposer"
      BY <1>0, <2>1 DEF GetBlockTransfersByHash, TypeOK, ControlAt
    <3> QED
      BY <1>1, <3>1 DEF HasBlock, NoBlock
  <2>2. CASE GetDeployToPlace(c)
    BY <1>0, <2>2 DEF GetDeployToPlace, TypeOK, HasBlock
  <2>3. CASE \/ GetLatestBlockTransfers(c) \/ GetBlockTransfersByHeight(c) \/ GetDeploy(c)
             \/ GetAccountPurse(c) \/ TakeUref(c)
             \/ (GetProposerPurse(c) \/ GetSignerPurse(c)) /\ pc'[c] = "deploy"
    <3>1. /\ pc[c] \in {"latest transfers", "index transfers", "proposer", "deploy",
                        "signer", "purse"}
          /\ pc'[c] \in {"proposer", "signer", "balance", "deploy"}
      BY <1>0, <2>3 DEF GetLatestBlockTransfers, GetBlockTransfersByHeight, GetDeploy,
         GetAccountPurse, TakeUref, GetProposerPurse, GetSignerPurse, TypeOK
    <3> QED
      BY <1>1, <3>1 DEF HasBlock, NoBlock
  <2> QED
    BY <2>1, <2>2, <2>3
<1>3. Phase(c)' = Phase(c) /\ Seen(c)' = Seen(c)
  BY <1>1, <1>2 DEF Phase, Seen
<1> QED
  BY <1>0, <1>1, <1>3, ViewStays

\* What a call says with its transactions is what its block says.
LEMMA ViewTransactions ==
  ASSUME LedgerInv, NEW c \in Calls, Acts(c), pc[c] \in {"proposer", "signer"},
         req' = req, block' = block, NEW S, NEW made \in Seq(S), Built(c, made),
         ReturnTransactions(c, made)
  PROVE  Ledger!Answer(c)
<1>0. TypeOK /\ ControlAt(c) /\ IInv /\ ChainInv /\ HoldsAt(c) /\ block[c] # NoBlock
  BY DEF LedgerInv, IInv, ControlInv, HoldsInv, Built
<1>1. PICK h \in Heights : /\ block[c] = BlockResponse(h) /\ block[c].height = h
                           /\ block[c].hash = BlockHash(h)
  BY <1>0, BlockHeld
<1>2. HasBlock(c) /\ Serves(c, {"block", "transaction"})
  BY <1>0 DEF HasBlock, ControlAt
<1>3. PICK a, r : a = answer'[c] /\ r = req[c]
  OBVIOUS
<1>4. /\ pc'[c] = "done"
      /\ a = IF r.op = "block"
             THEN BlockAnswer(block[c], [i \in DOMAIN made |-> Transaction(c, made[i])])
             ELSE [kind |-> "transaction", tx |-> Transaction(c, made[1])]
  BY <1>0, <1>3 DEF ReturnTransactions, TypeOK
<1>5. CASE r.op = "block"
  <2>1. /\ a.kind = "block" /\ a.hash = BlockHash(h) /\ a.height = h
        /\ a.parent = ParentOf(block[c])
    BY <1>1, <1>4, <1>5 DEF BlockAnswer
  <2>2. a.parent = Ledger!Header(IF h = 0 THEN 0 ELSE h - 1)
    <3>1. block[c].parentHash = BlockHash(h - 1)
      BY <1>1 DEF BlockResponse, Reply
    <3> QED
      BY <1>1, <2>1, <3>1, SameChain DEF ParentOf, Ledger!Header
  <2>3. ASSUME r.id # NULL, NEW i \in DOMAIN a.txs
        PROVE  \E e \in Ran(At(h)) : e.deploy = a.txs[i].deploy
    <3>1. BlockTold(a)
      BY <1>0, <1>2, <1>3, <1>4, <1>5, <2>3, BlockBuilt DEF Serves
    <3>2. PICK e \in Ran(At(h)) :
            a.txs[i] = TransactionOn(h, e, Aliased(At(h).transfers, e.deploy))
      BY <2>1, <2>3, <3>1 DEF BlockTold
    <3> QED
      BY <3>2 DEF TransactionOn
  <2>4. Ledger!Says(r, h, a)
    BY <1>5, <2>1, <2>2, <2>3, SameChain DEF Ledger!Says, Ledger!Header
  <2> QED
    BY <1>0, <1>1, <1>2, <1>3, <1>4, <2>1, <2>4, ViewAnswers
<1>6. CASE r.op # "block"
  <2>1. a.kind = "transaction" /\ r.op = "transaction"
    BY <1>2, <1>3, <1>4, <1>6 DEF Serves
  <2>2. TransactionTold(r, a)
    <3>1. Serves(c, {"transaction"})
      BY <1>2, <1>3, <2>1 DEF Serves
    <3> QED
      BY <1>0, <1>3, <1>4, <1>6, <3>1, TransactionBuilt
  <2>3. a.tx.deploy = r.deploy
    BY <2>2 DEF TransactionTold, TransactionOn
  <2>4. Ledger!Says(r, h, a)
    BY <2>1, <2>3 DEF Ledger!Says
  <2> QED
    BY <1>0, <1>1, <1>2, <1>3, <1>4, <2>1, <2>4, ViewAnswers
<1> QED
  BY <1>5, <1>6

\* Every answer is what the call's block says.
LEMMA ViewReturns ==
  ASSUME LedgerInv, NEW c \in Calls,
         \/ GetPeers(c) \/ GetAccountBalance(c)
         \/ (GetProposerPurse(c) \/ GetSignerPurse(c)) /\ pc'[c] # "deploy"
  PROVE  Ledger!Answer(c)
<1>0. IInv /\ TypeOK /\ ControlAt(c) /\ NamedAt(c) /\ SnapshotAt(c) /\ HoldsAt(c) /\ Acts(c)
      /\ ChainInv /\ chain' = chain
  BY ChainStays DEF LedgerInv, IInv, ControlInv, NamedInv, SnapshotInv, HoldsInv, Acts, Step
<1>1. CASE GetPeers(c)
  <2>1. pc[c] = "peers" /\ pc'[c] = "done" /\ req' = req /\ block' = block
    BY <1>0, <1>1 DEF GetPeers, TypeOK
  <2>2. block[c] # NoBlock
    <3>1. block[c].proposer # NULL
      BY <1>0, <2>1 DEF NamedAt
    <3> QED
      BY <3>1 DEF NoBlock
  <2>3. PICK h \in Heights : block[c].height = h /\ block[c].hash = BlockHash(h)
    BY <1>0, <2>2, BlockHeld
  <2>4. HasBlock(c) /\ Serves(c, {"status"})
    BY <1>0, <2>1, <2>2 DEF HasBlock, ControlAt
  <2>5. answer'[c] = [kind |-> "status", hash |-> BlockHash(h), height |-> h]
    BY <1>0, <1>1, <2>3 DEF GetPeers, TypeOK
  <2>6. Ledger!Says(req[c], h, answer'[c])
    BY <2>4, <2>5, SameChain DEF Ledger!Says, Serves
  <2>7. answer'[c].kind = "status"
    BY <2>5
  <2> QED
    BY <1>0, <2>1, <2>3, <2>4, <2>6, <2>7, ViewAnswers
<1>2. CASE GetAccountBalance(c)
  <2>1. pc[c] = "balance" /\ pc'[c] = "done" /\ req' = req /\ block' = block
    BY <1>0, <1>2 DEF GetAccountBalance, TypeOK
  <2>2. PICK n \in BalanceAt(block[c].stateRoot, purse[c].purse) :
          answer'[c] = [kind |-> "balance", hash |-> block[c].hash,
                        height |-> block[c].height, amount |-> n]
    BY <1>0, <1>2 DEF GetAccountBalance, TypeOK
  <2>3. block[c] # NoBlock
    <3>1. NoBlock.stateRoot = NULL
      BY DEF NoBlock
    <3> QED
      BY <1>0, <2>2, <3>1, NothingUnderNull DEF TypeOK
  <2>4. PICK h \in Heights : block[c].height = h /\ block[c].hash = BlockHash(h)
                             /\ block[c].stateRoot = StateRoot(h)
    BY <1>0, <2>3, BlockHeld
  <2>5. HasBlock(c) /\ Serves(c, {"balance"})
    BY <1>0, <2>1, <2>3 DEF HasBlock, ControlAt
  <2>6. Ledger!PurseNamed(req[c].address) = purse[c].purse
    BY <1>0, <2>1 DEF SnapshotAt, PurseOf, Ledger!PurseNamed
  <2>7. PICK a : a = answer'[c] /\ a.kind = "balance" /\ a.hash = BlockHash(h) /\ a.height = h
                 /\ a.amount = n
    BY <2>2, <2>4
  <2>8. Ledger!Says(req[c], h, a)
    BY <2>2, <2>4, <2>5, <2>6, <2>7, SameChain DEF Ledger!Says, Ledger!Header, Serves
  <2> QED
    BY <1>0, <2>1, <2>4, <2>5, <2>7, <2>8, ViewAnswers
<1>3. CASE (GetProposerPurse(c) \/ GetSignerPurse(c)) /\ pc'[c] # "deploy"
  <2>1. pc[c] \in {"proposer", "signer"} /\ req' = req /\ block' = block
    BY <1>3 DEF GetProposerPurse, GetSignerPurse
  <2>2. PICK S : \E made \in Seq(S) : Built(c, made) /\ ReturnTransactions(c, made)
    BY <1>0, <1>3, Returns
  <2>3. PICK made \in Seq(S) : Built(c, made) /\ ReturnTransactions(c, made)
    BY <2>2
  <2> QED
    BY <1>0, <2>1, <2>3, ViewTransactions
<1> QED
  BY <1>1, <1>2, <1>3

LEMMA ViewInit == Init => Ledger!LInit
<1> SUFFICES ASSUME Init PROVE Ledger!LInit
  OBVIOUS
<1>1. \A c \in Calls : Phase(c) = "idle" /\ Seen(c) = NULL
  BY DEF Init, Phase, Seen, HasBlock
<1>2. NodeInit /\ req = [c \in Calls |-> NULL] /\ answer = [c \in Calls |-> NULL]
  BY DEF Init
<1> QED
  BY <1>1, <1>2, SameGrowth DEF Ledger!LInit

LEMMA ViewStep ==
  ASSUME LedgerInv, [Next]_vars
  PROVE  [Ledger!LNext]_Ledger!lvars
<1>0. TypeOK
  BY DEF LedgerInv, IInv
<1>1. CASE Grow \/ UNCHANGED vars
  <2>1. pc' = pc /\ block' = block /\ answer' = answer /\ req' = req
    BY <1>1 DEF Grow, vars, local
  <2>2. \A c \in Calls : Phase(c)' = Phase(c) /\ Seen(c)' = Seen(c)
    BY <2>1 DEF Phase, Seen, HasBlock, NoBlock
  <2>3. CASE Grow
    BY <2>1, <2>2, <2>3, SameGrowth DEF Grow, Ledger!LGrow, Ledger!LNext
  <2>4. CASE UNCHANGED vars
    BY <2>1, <2>2, <2>4 DEF vars, Ledger!lvars
  <2> QED
    BY <1>1, <2>3, <2>4
<1>2. ASSUME NEW c \in Calls, Acts(c)
      PROVE  [Ledger!LNext]_Ledger!lvars
  <2>0. ControlAt(c) /\ NamedAt(c)
    BY DEF LedgerInv, IInv, ControlInv, NamedInv
  <2>1. CASE \E r \in Requests : Ask(c, r)
    BY <1>0, <2>0, <2>1, ViewAsks DEF Ledger!LNext
  <2>2. CASE GetLatestBlock(c) \/ GetBlockByHash(c) \/ GetBlockByHeight(c) \/ GetBlockResponse(c)
    BY <2>2, ViewReads DEF Ledger!LNext
  <2>3. CASE \/ GetLatestBlockTransfers(c) \/ GetBlockTransfersByHash(c)
             \/ GetBlockTransfersByHeight(c) \/ GetDeployToPlace(c) \/ GetDeploy(c)
             \/ GetAccountPurse(c) \/ TakeUref(c)
             \/ (GetProposerPurse(c) \/ GetSignerPurse(c)) /\ pc'[c] = "deploy"
    BY <2>3, ViewRests
  <2>4. CASE \/ GetPeers(c) \/ GetAccountBalance(c)
             \/ (GetProposerPurse(c) \/ GetSignerPurse(c)) /\ pc'[c] # "deploy"
    BY <2>4, ViewReturns DEF Ledger!LNext
  <2>5. CASE Reject(c) \/ RpcFails(c) \/ Panic(c)
    <3>1. /\ pc[c] \notin {"idle", "done"} /\ pc'[c] = "done" /\ req' = req
      BY <1>0, <2>5 DEF Reject, Rejects, RpcFails, RpcPending, Panic, Panics, TypeOK
    <3>2. CASE Reject(c) \/ RpcFails(c)
      <4>1. answer'[c].kind = "error"
        BY <1>0, <3>2 DEF Reject, RpcFails, TypeOK
      <4> QED
        BY <1>0, <1>2, <3>1, <4>1, ViewGivesUp DEF Ledger!LNext
    <3>3. CASE Panic(c)
      <4>1. answer'[c].kind = "panic"
        BY <1>0, <3>3 DEF Panic, TypeOK
      <4>2. Panicked(req[c])
        BY <2>0, <3>3 DEF Panic, Panics, NamedAt, Panicked, ControlAt, Serves
      <4> QED
        BY <1>0, <1>2, <3>1, <4>1, <4>2, ViewGivesUp DEF Ledger!LNext
    <3> QED
      BY <2>5, <3>2, <3>3
  <2> QED
    BY <1>2, <2>1, <2>2, <2>3, <2>4, <2>5 DEF Acts, Step
<1> QED
  BY <1>1, <1>2 DEF Next, Acts

(***************************************************************************)
(* casper.Client implements LedgerView (client.go:53-594): whatever RPCs a *)
(* call makes, and however the chain grows between them, there is one      *)
(* moment at which it looks at one final block, the named or else the      *)
(* current one, and it answers what that block says or not at all.  So it  *)
(* is for the client alone and for the client the server calls.            *)
(***************************************************************************)
THEOREM ClientShowsTheLedger ==
  /\ Spec => LooksOnce
  /\ ServerSpec => LooksOnce
<1>1. LedgerInv /\ [Next]_vars => [Ledger!LNext]_Ledger!lvars
  BY ViewStep
<1>2. LedgerInv /\ ServerInv /\ [ServerNext]_svars => [Ledger!LNext]_Ledger!lvars
  BY <1>1, ServerStepIsClientStep DEF ServerInv
<1>3. ServerInit => Ledger!LInit
  BY ViewInit DEF ServerInit
<1>4. Spec => LooksOnce
  BY <1>1, ViewInit, LedgerInvariance, PTL DEF Spec, LooksOnce, Ledger!LSpec
<1>5. ServerSpec => LooksOnce
  BY <1>2, <1>3, ServerLedger, PTL DEF ServerSpec, LooksOnce, Ledger!LSpec
<1> QED
  BY <1>4, <1>5
=============================================================================
