------------------------------ MODULE MCClient ------------------------------
(***************************************************************************)
(* Instances of CasperClient small enough for TLC.                         *)
(***************************************************************************)
EXTENDS ClientProps

CONSTANTS A, B, S, pa, pb, pc1, d1, d2, c1, c2

Some == {A, B}
SomePurses == {pa, pb, pc1}
Mains == A :> pa @@ B :> pb
AtGenesis == pa :> 100 @@ pb :> 7 @@ pc1 :> NULL

Kind(account, payment, cost, native, moves) ==
  [account |-> account, payment |-> payment, readable |-> TRUE, cost |-> cost,
   native |-> native, transfers |-> moves]
Move(source, target, amount) ==
  [source |-> source, target |-> target, amount |-> amount]

\* A native transfer, a contract call with a payment, a native one that moves
\* twice, and a transfer whose payment has no amount.
Native == Kind(A, 0, 1, TRUE, <<Move(pa, pb, 5)>>)
Call == Kind(B, 3, 2, FALSE, <<>>)
Twice == Kind(A, 2, 1, TRUE, <<Move(pa, pb, 5), Move(pa, pc1, 11)>>)
Odd == [Native EXCEPT !.readable = FALSE]

Two == d1 :> Native @@ d2 :> Call
Moving == d1 :> Twice @@ d2 :> [Call EXCEPT !.transfers = <<Move(pb, pa, 1)>>]
Calling == d1 :> Kind(A, 2, 1, FALSE, <<>>) @@ d2 :> Call

\* B owns its purse only once the transfer has created it, and only then calls.
Later == pa :> 100 @@ pb :> NULL @@ pc1 :> NULL
Custom == d1 :> Odd @@ d2 :> Call

Id(hash, index) == [hash |-> hash, index |-> index]
Hash1 == BlockHash(1)
Status == [op |-> "status"]
BlockOf(id) == [op |-> "block", id |-> id]
TransactionOf(d, h) == [op |-> "transaction", deploy |-> d, id |-> Id(BlockHash(h), h)]
BalanceOf(form, of, id) ==
  [op |-> "balance", id |-> id, address |-> [form |-> form, of |-> of]]
UrefOf(p, rights) == [purse |-> p, rights |-> rights]

Ids3 == {Id(Hash1, NULL), Id(NULL, 0), Id(BlockHash(0), 1)}
Blocks == {BlockOf(i) : i \in Ids3}
Current == {BlockOf(NULL)}
Named2 == {BlockOf(Id(NULL, 2)), TransactionOf(d2, 2)}
Neither == {BlockOf(Id(NULL, NULL)), BalanceOf("key", B, Id(NULL, NULL)),
            BlockOf(Id(NULL, -1)), BalanceOf("key", B, Id(NULL, -1)),
            BlockOf(Id(Hash1, -1)), BalanceOf("key", B, Id(Hash1, -1))}
Transactions == {TransactionOf(d1, 1), TransactionOf(d2, 0), TransactionOf(d1, 2)}
Balances3 ==
  {BalanceOf("key", B, NULL), BalanceOf("account-hash", A, Id(BlockHash(0), 1)),
   BalanceOf("uref", UrefOf(pc1, ""), Id(NULL, 1)),
   BalanceOf("uref", UrefOf(pb, "007"), Id(Hash1, NULL))}
Addresses2 == {BalanceOf("invalid", A, NULL), BalanceOf("short", A, NULL)}
Questions == {Status} \cup Current \cup Blocks \cup Transactions \cup Balances3 \cup Addresses2
Everything == Questions \cup Neither
Reports == Blocks \cup {TransactionOf(d1, 1), TransactionOf(d2, 1)}
==============================================================================
