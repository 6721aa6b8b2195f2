----------------------------- MODULE CasperNode -----------------------------
(***************************************************************************)
(* The Casper node behind casper.Client.RpcClient, as far as client.go     *)
(* looks at it.  The node is not part of the repository: everything here   *)
(* is read off the fields client.go uses and the errors it handles.        *)
(*                                                                         *)
(* The chain is final and only grows.  Every deploy the instance talks     *)
(* about waits to be executed from the start; a block executes some of     *)
(* them, moves their charge from the signer's main purse to the            *)
(* proposer's, and carries out their transfers if the deploy succeeds.     *)
(***************************************************************************)
EXTENDS Integers, Sequences, FiniteSets, SequencesExt

CONSTANTS
  Accounts,         \* public keys that own an account, now or later
  SystemKey,        \* a proposer of the genesis block that owns none
  Purses,           \* purse addresses: a uref without its access rights
  MainPurse,        \* the main purse of each account
  Deploys,          \* deploy hashes
  DeployOf,         \* what each deploy hash commits to
  GenesisBalance,   \* what each purse holds at genesis, NULL if there is none
  NULL,             \* no value: no such purse, and Go's nil
  MaxHeight,        \* bound: no block is produced above this height
  MaxBlockSize      \* bound: deploys in one block

Amounts == Nat
Keys == Accounts \cup {SystemKey}
Balances == [Purses -> Amounts \cup {NULL}]

(***************************************************************************)
(* payment is the amount argument of a ModuleBytes payment, 0 when there   *)
(* is none; readable is FALSE when there are arguments but no amount among *)
(* them.  A native deploy is listed apart from body.DeployHashes, which is *)
(* why Block adds the deploys of the block's transfers to them.            *)
(***************************************************************************)
ASSUME NodeAssumption ==
  /\ SystemKey \notin Accounts
  /\ NULL \notin Keys \cup Int \cup ({"state"} \X Int)
  /\ MainPurse \in [Accounts -> Purses]
  /\ \A a, b \in Accounts : MainPurse[a] = MainPurse[b] => a = b
  /\ DeployOf \in
       [Deploys -> [account : Accounts, payment : Amounts, readable : BOOLEAN,
                    cost : Amounts, native : BOOLEAN,
                    transfers : Seq([source : Purses, target : Purses,
                                     amount : Amounts])]]
  /\ GenesisBalance \in Balances
  /\ MaxHeight \in Nat
  /\ MaxBlockSize \in Nat

VARIABLE chain      \* the blocks, genesis first: chain[h + 1] has height h

Heights == 0 .. Len(chain) - 1
Tip == Len(chain) - 1
At(h) == chain[h + 1]

(***************************************************************************)
(* The node writes a purse with its access rights.                         *)
(***************************************************************************)
Uref(p) == [purse |-> p, rights |-> "007"]
Urefs == [purse : Purses, rights : {"001", "007"}]
Transfer == [deploy : Deploys, source : Urefs, target : Urefs, amount : Amounts]

Execution == [deploy : Deploys, ok : BOOLEAN]
Block == [proposer : Keys, executions : Seq(Execution),
          transfers : Seq(Transfer), balance : Balances]

\* Hashes are opaque and distinct: a block's, and that of the state after it.
BlockHash(h) == <<"block", h>>
BlockHashes == {"block"} \X Int
StateRoot(h) == <<"state", h>>

------------------------------------------------------------------------------
(***************************************************************************)
(* Execution of deploys.                                                   *)
(***************************************************************************)

\* What executing e costs its signer.  The node's own rule is not in the repository:
\* this is the one client.go:304-358 supposes, so that what is said of fees is that
\* this amount is moved, between these purses and once, not that it is the amount.
Charge(e) ==
  LET d == DeployOf[e.deploy]
  IN  IF e.ok /\ d.payment # 0 THEN d.payment ELSE d.cost

\* The transfers e carried out.
Carried(e) == IF e.ok THEN DeployOf[e.deploy].transfers ELSE <<>>

\* Every movement of motes that e causes in a block of the given proposer.
Movements(e, proposer) ==
  <<[source |-> MainPurse[DeployOf[e.deploy].account],
     target |-> MainPurse[proposer],
     amount |-> Charge(e)]>> \o Carried(e)

Held(balance, p) == IF balance[p] = NULL THEN 0 ELSE balance[p]

\* The balances after one movement; the target purse is created when new.
Moved(m, balance) ==
  [p \in Purses |->
     IF p \notin {m.source, m.target} THEN balance[p]
     ELSE Held(balance, p) + (IF p = m.target THEN m.amount ELSE 0)
                           - (IF p = m.source THEN m.amount ELSE 0)]

\* The transfers of one execution as the node lists them, and of a block's.
Listed(e) ==
  [j \in DOMAIN Carried(e) |->
     [deploy |-> e.deploy, source |-> Uref(Carried(e)[j].source),
      target |-> Uref(Carried(e)[j].target), amount |-> Carried(e)[j].amount]]
AllListed(executions) ==
  FlattenSeq([i \in DOMAIN executions |-> Listed(executions[i])])

\* The movements of a block, and the balances after them.
AllMovements(executions, proposer) ==
  FlattenSeq([i \in DOMAIN executions |-> Movements(executions[i], proposer)])
BalanceAfter(balance, moves) == FoldLeft(LAMBDA b, m : Moved(m, b), balance, moves)

\* The block in which a proposer executes some deploys after the tip.
NewBlock(proposer, executions) ==
  [proposer |-> proposer,
   executions |-> executions,
   transfers |-> AllListed(executions),
   balance |-> BalanceAfter(At(Tip).balance, AllMovements(executions, proposer))]

\* The executions of a block; the deploys executed so far.
Ran(block) == {block.executions[i] : i \in DOMAIN block.executions}
Executed == {e.deploy : e \in UNION {Ran(At(h)) : h \in Heights}}
Exists(key, balance) == key \in Accounts /\ balance[MainPurse[key]] # NULL

------------------------------------------------------------------------------
NodeInit ==
  \E k \in Keys :
    chain = <<[proposer |-> k, executions |-> <<>>, transfers |-> <<>>,
               balance |-> GenesisBalance]>>

(***************************************************************************)
(* A block is finalised: waiting deploys of existing accounts, each with   *)
(* its outcome.  That it is a Block says that nobody spends what he has    *)
(* not: its balances are natural numbers.                                  *)
(***************************************************************************)
ProduceBlock ==
  /\ Tip < MaxHeight
  /\ \E k \in Accounts, n \in 0 .. MaxBlockSize :
       \E executions \in [1 .. n -> Execution] :
         /\ Exists(k, At(Tip).balance)
         /\ \A i \in 1 .. n :
              /\ executions[i].deploy \notin Executed
              /\ Exists(DeployOf[executions[i].deploy].account, At(Tip).balance)
              /\ \A j \in 1 .. i - 1 : executions[j].deploy # executions[i].deploy
         /\ NewBlock(k, executions) \in Block
         /\ chain' = Append(chain, NewBlock(k, executions))

------------------------------------------------------------------------------
(***************************************************************************)
(* The RPC replies: for each request the set of possible replies, empty    *)
(* when the node rejects it.                                               *)
(***************************************************************************)

\* body.DeployHashes
DeployHashes(block) ==
  {e.deploy : e \in {x \in Ran(block) : ~ DeployOf[x.deploy].native}}

\* GetBlock: what it says of a block.  (The hash before genesis' is no block's.)
Reply(h, block) ==
  [hash |-> BlockHash(h), height |-> h, parentHash |-> BlockHash(h - 1),
   stateRoot |-> StateRoot(h), proposer |-> block.proposer,
   deployHashes |-> DeployHashes(block)]
BlockResponse(h) == Reply(h, At(h))

\* The heights a lookup of a block, or of a block's transfers, may find.  (A
\* negative index becomes, in client.go's uint64, a height above every chain's.)
ByHash(hash) == {h \in Heights : BlockHash(h) = hash}
ByHeight(index) == {h \in Heights : h = index}

\* GetDeploy: what the hash commits to and its first execution result.
DeployReply(e, h) ==
  [hash |-> e.deploy, account |-> DeployOf[e.deploy].account,
   payment |-> DeployOf[e.deploy].payment,
   readable |-> DeployOf[e.deploy].readable, ok |-> e.ok,
   cost |-> DeployOf[e.deploy].cost, blockHash |-> BlockHash(h)]
DeployResponses == [hash : Deploys, account : Accounts, payment : Amounts,
                    readable : BOOLEAN, ok : BOOLEAN, cost : Amounts,
                    blockHash : BlockHashes]
DeployReplies(d) ==
  {DeployReply(eh[1], eh[2]) : eh \in
     {x \in Execution \X Heights : x[1] \in Ran(At(x[2])) /\ x[1].deploy = d}}

\* GetStateItem: the main purse of an account under a state root.
MainPurseAt(key, root) ==
  {Uref(MainPurse[k]) : k \in
     {a \in Accounts \cap {key} :
        \E h \in Heights : StateRoot(h) = root /\ Exists(a, At(h).balance)}}

\* GetAccountBalance: what a purse holds under a state root.
BalanceAt(root, purse) ==
  {At(h).balance[purse] : h \in
     {g \in Heights : StateRoot(g) = root /\ At(g).balance[purse] # NULL}}
=============================================================================
